---------------------------- MODULE ConfigRules ----------------------------
(***************************************************************************)
(* internal/config: what a configuration may say.  config.go normalizes    *)
(* and validates entries, path_policy.go resolves their paths through      *)
(* symbolic links and keeps them within the operator's roots.              *)
(*                                                                         *)
(* A text is a sequence of tokens, a path the sequence of its components,  *)
(* <<>> the empty string.  The tokens of Blanks are a blank and a line      *)
(* end, "*" is any other character that neither a name nor a path may      *)
(* contain, ".." what Clean changes.                                       *)
(***************************************************************************)
EXTENDS Integers, SequencesExt

CONSTANTS
    None,        \* an absent value
    Tokens,      \* what texts are made of
    Origins,     \* the texts of HTTPS origins, without the slash at their end
    SourceRoots, DestinationRoots  \* the path lists of the path policy

\* An entry, as decoded from JSON, has name, type, certificate, privateKey (source
\* paths), remote (None, or server URL and certificate name), dir, target, watch,
\* poll and fallback.  Its flags enabled and auto_sync, which no rule looks at, are
\* left out.  A configuration has its list of entries, certs, and a log level.
Text       == Seq(Tokens)
SourceType == [url : Text, certificate : Text]
EntryType  ==
    [name : Text, type : {"", "local", "cert_warden", "other"}, certificate : Text,
     privateKey : Text, remote : SourceType \cup {None}, dir : Text, target : Text,
     watch : BOOLEAN, poll : Int, fallback : BOOLEAN]
ConfigType == [certs : Seq(EntryType), level : Text]

LineEnd == "\n"
Blanks  == {" ", LineEnd}

\* strings.TrimSpace
Trim(t) ==
    LET kept == {i \in DOMAIN t : t[i] \notin Blanks}
    IN IF kept = {} THEN <<>> ELSE SubSeq(t, Min(kept), Max(kept))

\* validNameRegex; validatePath with safePathRegex.
LegalName(t) == t # <<>> /\ ToSet(t) \cap (Blanks \cup {"*"}) = {}
LegalPath(p) == p # <<>> /\ ToSet(p) \cap (Blanks \cup {"*", ".."}) = {}

\* validateCertWardenOrigin; the slash is allowed, and is part of the identity.
IsOrigin(url) == \E o \in Origins : url \in {o, Append(o, "/")}

----------------------------------------------------------------------------
(* Paths: fs gives every existing path what EvalSymlinks finds there, or None *)

\* resolvePath: the nearest existing ancestor is resolved, the rest appended.
Resolve(fs, p) ==
    LET n == Max({i \in 0..Len(p) : SubSeq(p, 1, i) \in DOMAIN fs})
        found == fs[SubSeq(p, 1, n)]
    IN IF found = None THEN None ELSE found \o SubSeq(p, n + 1, Len(p))

\* Mutation: containment is looked at before links are followed.
ResolveWithinUnlinked(fs, p, roots) ==
    IF LegalPath(p) /\ \E r \in ToSet(roots) : IsPrefix(r, p) THEN Resolve(fs, p) ELSE None

\* resolveAllowedPath: within the first root that has the path; a root before it
\* that does not resolve is an error.
ResolveWithin(fs, p, roots) ==
    LET real == Resolve(fs, p)
        hits == {i \in DOMAIN roots : LET r == Resolve(fs, roots[i])
                                      IN r = None \/ IsPrefix(r, real)}
    IN IF LegalPath(p) /\ real # None /\ hits # {} /\ Resolve(fs, roots[Min(hits)]) # None
       THEN real ELSE None

Destination(fs, e) == ResolveWithin(fs, e.dir, DestinationRoots)
SourceFile(fs, p)  == ResolveWithin(fs, p, SourceRoots)

----------------------------------------------------------------------------
(* Normalize *)

DefaultPoll(type) == IF type = "cert_warden" THEN 300 ELSE 10

NormalEntry(e) ==
    LET type == IF e.type = "" THEN "local" ELSE e.type
    IN [name |-> Trim(e.name), type |-> type,
        certificate |-> Trim(e.certificate), privateKey |-> Trim(e.privateKey),
        remote |-> IF e.remote = None THEN None
                   ELSE [url |-> Trim(e.remote.url), certificate |-> Trim(e.remote.certificate)],
        dir |-> Trim(e.dir), target |-> Trim(e.target), watch |-> e.watch,
        poll |-> IF e.poll # 0 THEN e.poll ELSE DefaultPoll(type),
        fallback |-> e.fallback]

\* Letter case is left out.
NormalLevel(level) == IF Trim(level) = <<>> THEN <<"info">> ELSE Trim(level)

Normal(c) == [certs |-> [i \in DOMAIN c.certs |-> NormalEntry(c.certs[i])],
              level |-> NormalLevel(c.level)]

----------------------------------------------------------------------------
(* Validate *)

LocalRules(fs, e) ==
    /\ e.remote = None
    /\ SourceFile(fs, e.certificate) # None /\ SourceFile(fs, e.privateKey) # None

RemoteRules(e) ==
    /\ e.certificate = <<>> /\ e.privateKey = <<>> /\ e.remote # None
    /\ IsOrigin(e.remote.url)
    /\ e.remote.certificate # <<>> /\ LineEnd \notin ToSet(e.remote.certificate)
    /\ ~e.watch

\* The rules of one entry, all of whose violations are answered alike.
EntryValid(fs, e) ==
    /\ LegalName(e.name)
    /\ \/ e.type = "local" /\ LocalRules(fs, e)
       \/ e.type = "cert_warden" /\ RemoteRules(e)
    /\ Destination(fs, e) # None
    /\ LegalName(e.target)
    /\ e.poll \in (IF e.type = "cert_warden" THEN 60 ELSE 1)..86400

\* Mutation: directories are compared as they are spelled.
ClashSpelled(fs, e, f) ==
    \/ e.name = f.name
    \/ e.dir = f.dir /\ (e.target = f.target \/ (e.fallback /\ f.fallback))

\* The rules between two entries.
Clash(fs, e, f) ==
    \/ e.name = f.name
    \/ /\ Destination(fs, e) = Destination(fs, f)
       /\ e.target = f.target \/ (e.fallback /\ f.fallback)

\* Config.Validate with isConfigConflict: entries are looked at in order, and the
\* first violation found decides how the request is refused.
Validate(fs, c) ==
    LET invalid == {i \in DOMAIN c.certs : ~EntryValid(fs, c.certs[i])}
        clashes == {i \in DOMAIN c.certs : \E j \in 1..(i - 1) : Clash(fs, c.certs[i], c.certs[j])}
    IN IF c.level \notin {<<"debug">>, <<"info">>, <<"warn">>, <<"error">>} THEN "invalid"
       ELSE IF invalid \cup clashes = {} THEN "ok"
       ELSE IF Min(invalid \cup clashes) \in invalid THEN "invalid" ELSE "conflict"

\* DefaultConfig: what a missing config.json stands for.
DefaultConfig ==
    [level |-> <<"info">>,
     certs |-> <<[name |-> <<"example-certificate">>, type |-> "",
                  certificate |-> <<"cert_warden_plugin", "certchain0.pem">>,
                  privateKey |-> <<"cert_warden_plugin", "key0.pem">>, remote |-> None,
                  dir |-> <<"opt", "zoraxy", "config", "conf", "certs">>,
                  target |-> <<"example-certificate">>,
                  watch |-> TRUE, poll |-> 10, fallback |-> FALSE]>>]

\* config.Load of what a file says, None for a missing file; None for an error.
Load(fs, file) ==
    LET c == IF file = None THEN DefaultConfig ELSE Normal(file)
    IN IF Validate(fs, Normal(c)) = "ok" THEN c ELSE None
=============================================================================
