----------------------------- MODULE MCManager -----------------------------
(* Constants of the runs of Manager. *)
EXTENDS Manager, TLC

CONSTANTS g1, g2, g3, x, y

Two == {g1, g2}
Three == {g1, g2, g3}
SymmetricTwo == Permutations(Two)
SymmetricThree == Permutations(Three)

\* Every operation may fail but the Sync of the directory after the runtime file
\* was replaced: an acknowledgement that fails there has taken the warning off the
\* disk, and PendingCovers does not hold.
AllButSyncRuntime == AllOps \ {"syncRuntime"}

Entry(remote, source, target, fallback, enabled, auto) ==
    [remote |-> remote, source |-> source, dir |-> "d", target |-> target,
     fallback |-> fallback, enabled |-> enabled, auto |-> auto]

Only(n, e) == [m \in Name |-> IF m = n THEN e ELSE None]

Put(op, n, e, keys)  == [op |-> op, name |-> n, cert |-> e, keys |-> keys, all |-> NoEntries]
Delete(n)            == [op |-> "delete", name |-> n, cert |-> None, keys |-> FALSE, all |-> NoEntries]
Post(c)              == [op |-> "post", name |-> None, cert |-> None, keys |-> FALSE, all |-> c]

\* Activation: one entry that moves between two servers and a local source.
Server1 == Entry(TRUE, "s1", "t", TRUE, TRUE, TRUE)
Server2 == Entry(TRUE, "s2", "u", FALSE, TRUE, FALSE)
Local   == Entry(FALSE, "f", "t", TRUE, TRUE, TRUE)

RemoteBoot     == {Only(x, Server1)}
RemoteRequests == {Put("update", x, Server2, TRUE), Put("update", x, Local, FALSE), Delete(x)}

\* Two entries of one directory; the fallback moves from one to the other.
Fallback(t) == Entry(FALSE, t, t, TRUE, TRUE, FALSE)
Plain(t)    == Entry(FALSE, t, t, FALSE, TRUE, FALSE)
Off(t)      == Entry(FALSE, t, t, TRUE, FALSE, FALSE)

\* A fallback entry that is disabled and enabled; Sync Now works on either.
OffBoot     == {Only(x, Fallback("t"))}
OffRequests == {Put("update", x, Off("t"), FALSE), Put("update", x, Fallback("t"), FALSE)}

\* Both of these, for the run of what ends and what is marked when nothing fails.
HealthyBoot     == RemoteBoot \cup OffBoot
HealthyRequests == RemoteRequests \cup OffRequests

\* Everything at once: a remote fallback entry, polled, its disabled local form, and a
\* plain entry, which may be synchronized while another configuration is activated.
Both(remote, enabled) == Entry(remote, IF remote THEN "s1" ELSE "f", "t", TRUE, enabled, TRUE)
FaultBoot     == {Only(x, Both(TRUE, TRUE)), NoEntries}
Moved           == Entry(FALSE, "f", "u", FALSE, FALSE, TRUE)
FaultRequests == {Put("update", x, Moved, FALSE), Post(Only(x, Both(FALSE, FALSE))),
                  Post([n \in Name |-> Both(FALSE, TRUE)])}

FallbackBoot     == {NoEntries}
FallbackRequests == {Put("create", x, Fallback("t"), FALSE), Put("update", x, Plain("t"), FALSE),
                     Put("create", y, Fallback("u"), FALSE), Delete(x)}
=============================================================================
