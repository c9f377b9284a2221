--------------------------- MODULE Configurations ---------------------------
(***************************************************************************)
(* Configurations, the API keys that go with them and the requests that    *)
(* change both, as the manager (Manager) and what it promises              *)
(* (ActivationService) see them.                                           *)
(***************************************************************************)
CONSTANTS
    Name,    \* certificate names
    None     \* an absent entry, key pair, target, request or owner

\* A configuration gives every name a certificate entry or None.  An entry has
\*   enabled, auto (sync.auto_sync), remote (the source type), source (paths, or
\*   server URL and certificate name), dir and target (destination), fallback.
\* A request has op (create, update, delete, post), name, cert, keys (new API
\* keys were given) and all (the configuration of a post).

Entries(c) == {n \in Name : c[n] # None}
Remotes(c) == {n \in Entries(c) : c[n].remote}
NoEntries  == [n \in Name |-> None]
Dest(e)    == <<e.dir, e.target>>
DirsOf(c)  == {c[n].dir : n \in Entries(c)}

\* Config.Validate: no two entries share a destination, no two fallback entries
\* a directory, whether enabled or not.
Valid(c) ==
    \A m, n \in Entries(c) : m # n =>
        /\ Dest(c[m]) # Dest(c[n])
        /\ ~(c[m].fallback /\ c[n].fallback /\ c[m].dir = c[n].dir)

\* validateRemoteCredentials: each remote entry has keys entered for its source.
Credentialed(c, s) == \A n \in Remotes(c) : s[n] = c[n].source

\* pruneSecrets
Prune(c, s) == [n \in Name |-> IF n \in Remotes(c) THEN s[n] ELSE None]

\* reconcileFallbacks, desired: the target that fallback.json must name.
Desired(c, d) ==
    LET chosen == {n \in Entries(c) : c[n].enabled /\ c[n].fallback /\ c[n].dir = d}
    IN IF chosen = {} THEN None ELSE c[CHOOSE n \in chosen : TRUE].target

\* What the handlers of web/server.go refuse before the manager changes anything.
Accepts(c, r) ==
    CASE r.op = "create" -> c[r.name] = None
      [] r.op \in {"update", "delete"} -> c[r.name] # None
      [] r.op = "post" -> TRUE

\* The mutations of web/server.go; a post replaces the whole configuration.
Candidate(c, r) ==
    CASE r.op = "post"   -> r.all
      [] r.op = "delete" -> [c EXCEPT ![r.name] = None]
      [] OTHER           -> [c EXCEPT ![r.name] = r.cert]

\* MutateConfigAndCredentials with credentialMutationFor: keys go with a deleted
\* or local entry, new keys are bound to the candidate's source, no keys change
\* nothing.
Rekey(s, r) ==
    CASE r.op = "post" -> s
      [] r.op = "delete" \/ (r.op # "post" /\ ~r.cert.remote) -> [s EXCEPT ![r.name] = None]
      [] OTHER -> IF r.keys THEN [s EXCEPT ![r.name] = r.cert.source] ELSE s
=============================================================================
