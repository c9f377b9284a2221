------------------------- MODULE ActivationService -------------------------
(***************************************************************************)
(* What the manager of cmd/cert-sync/main.go promises, as one sequential   *)
(* service: its goroutines, locks, generations and files do not appear.    *)
(*                                                                         *)
(* A change is applied to the configuration that is active, with its keys, *)
(* and takes effect all at once or not at all; nothing is published or     *)
(* shown for an entry that is not active; and a process that ends in the   *)
(* middle of a change leaves the old configuration or the new one, but may *)
(* leave the old one with the new keys, which the next start refuses if it *)
(* misses any.  Two weaknesses of the code are part of the promise: once   *)
(* /term was called anything may be published until the process exits      *)
(* (ending), and a failed start may leave an empty configuration (Wipe).   *)
(***************************************************************************)
EXTENDS Configurations

CONSTANTS Requests, BootConfigs

VARIABLES
    up,           \* a configuration is active
    active, keys, \* that configuration and its credentials
    change,       \* the request that is being applied, or None
    stored,       \* what the next start will find
    pair,         \* whose certificate is at each destination
    shown,        \* the source that the status of an entry is about
    damaged,      \* a step of a rollback failed: the files may say anything
    ending        \* /term was called

vars == <<up, active, keys, change, stored, pair, shown, damaged, ending>>

Saved(c, k) == [cfg |-> c, keys |-> k]
NewKeys(r)  == Prune(Candidate(active, r), Rekey(keys, r))

Init ==
    /\ ~up /\ active = NoEntries /\ keys = NoEntries /\ change = None
    /\ \E c \in BootConfigs :
          stored = Saved(c, [n \in Name |-> IF n \in Remotes(c) THEN c[n].source ELSE None])
    /\ \A d \in DOMAIN pair : pair[d] = None
    /\ shown = NoEntries /\ ~damaged /\ ~ending

\* The stored configuration is activated, if it is valid and has its keys.
Start ==
    /\ ~up /\ up'
    /\ Valid(stored.cfg) /\ Credentialed(stored.cfg, stored.keys)
    /\ active' = stored.cfg /\ keys' = stored.keys
    /\ UNCHANGED <<change, stored, pair, shown, damaged, ending>>

Wipe ==
    /\ ~up /\ stored' = Saved(NoEntries, NoEntries) /\ damaged' \in {damaged, TRUE}
    /\ UNCHANGED <<up, active, keys, change, pair, shown, ending>>

Begin(r) ==
    /\ up /\ change = None /\ change' = r
    /\ Accepts(active, r) /\ Credentialed(Candidate(active, r), NewKeys(r))
    /\ UNCHANGED <<up, active, keys, stored, pair, shown, damaged, ending>>

\* The candidate becomes the active configuration, and every status is new.
Commit ==
    /\ change # None /\ change' = None
    /\ Valid(Candidate(active, change))
    /\ active' = Candidate(active, change) /\ keys' = NewKeys(change)
    /\ stored' = Saved(active', keys') /\ shown' = NoEntries
    /\ UNCHANGED <<up, pair, damaged, ending>>

Fail ==
    /\ change # None /\ change' = None /\ damaged' \in {damaged, TRUE}
    /\ UNCHANGED <<up, active, keys, stored, pair, shown, ending>>

\* A rollback cannot be completed, while changing or while starting.
Damage ==
    /\ up => change # None
    /\ damaged'
    /\ UNCHANGED <<up, active, keys, change, stored, pair, shown, ending>>

\* The process ends, between changes or in the middle of one.
Stop ==
    /\ up /\ ~up' /\ active' = NoEntries /\ keys' = NoEntries /\ change' = None
    /\ shown' = NoEntries /\ ~ending'
    /\ \/ damaged
       \/ stored' = stored
       \/ /\ change # None
          /\ stored' \in {Saved(active, Prune(active, NewKeys(change))),
                          Saved(Candidate(active, change), NewKeys(change))}
    /\ UNCHANGED <<pair, damaged>>

\* A pair is replaced, or lost when that fails.
Publish ==
    /\ \E d \in DOMAIN pair :
          /\ pair' = [pair EXCEPT ![d] = pair'[d]]
          /\ \/ ending
             \/ \E n \in Entries(active) : Dest(active[n]) = d /\ pair'[d] \in {active[n].source, None}
    /\ UNCHANGED <<up, active, keys, change, stored, shown, damaged, ending>>

Show ==
    /\ \E n \in Entries(active) :
          /\ shown' = [shown EXCEPT ![n] = shown'[n]]
          /\ ending \/ shown'[n] \in {active[n].source, None}
    /\ UNCHANGED <<up, active, keys, change, stored, pair, damaged, ending>>

Terminate ==
    /\ up /\ ending'
    /\ UNCHANGED <<up, active, keys, change, stored, pair, shown, damaged>>

Next ==
    \/ Start \/ Wipe \/ Commit \/ Fail \/ Damage \/ Stop
    \/ Publish \/ Show \/ Terminate \/ \E r \in Requests : Begin(r)

Spec == Init /\ [][Next]_vars
=============================================================================
