-------------------------------- MODULE Api --------------------------------
(***************************************************************************)
(* The HTTP API of the plugin (internal/web/server.go) down to the files:   *)
(* which requests change the configuration, which API keys go with which    *)
(* entry, how a request is answered, and what a start of the process        *)
(* accepts.  Changes hold applyMu, so a request is one step here; Manager   *)
(* has what runs concurrently and every operation that fails.               *)
(***************************************************************************)
EXTENDS ConfigRules

CONSTANTS
    FileSystems,   \* the directory trees, as fs of ConfigRules
    Installed,     \* the config.json files found at the first start, or None
    Entries,       \* the certificate entries that requests carry
    KeyInputs,     \* the pairs of API keys that requests carry
    Posts,         \* the whole configurations that requests carry
    Names,         \* the names in the paths of requests
    Tests,         \* the requests for a connection test, with the server's answer
    FilePairs,     \* the contents of a pair of source files
    MaxEntries,    \* bound: entries of a configuration
    MaxCrashes     \* bound: crashes of the process

Material == INSTANCE Bundle

\* A request is [op, name, cert, keys, all, keyed]: name is from the path, cert an
\* entry, keys a pair of texts or None (not given), all a configuration, keyed
\* whether one of its entries came with keys.

\* Requests and files reach the handlers decoded: encoding/json fills every field.
ASSUME ApiAssumption ==
    /\ Entries \subseteq EntryType /\ Posts \subseteq ConfigType
    /\ Installed \subseteq ConfigType \cup {None}
    /\ DefaultConfig \in ConfigType /\ <<"info">> \in Text
    /\ None \notin SourceType /\ None \notin ConfigType
    /\ SourceRoots \in Seq(Text) /\ DestinationRoots \in Seq(Text)

VARIABLES
    fs,          \* the directory tree
    up,          \* the process serves requests
    cfg, secrets,              \* m.cfg, m.secrets
    diskCfg, diskSecrets,      \* config.json (None if missing), secrets.json
    answer,      \* the answer to the last request
    done,        \* that request, if it changed the configuration
    tested,      \* that request, if it was a test of a connection or of source files
    crashes

vars == <<fs, up, cfg, secrets, diskCfg, diskSecrets, answer, done, tested, crashes>>

----------------------------------------------------------------------------
(* API keys *)

\* m.secrets maps names to credentials: the two keys and the source they are for.
\* enteredFor is a ghost: the source of the entry they were typed in with.
Identity(e) == <<e.remote.url, e.remote.certificate>>
Remote(e)   == e.type = "cert_warden"
Has(certs, n) == \E i \in DOMAIN certs : certs[i].name = n

Blank(t) == Trim(t) = <<>>
Given(t) == t # None /\ ~Blank(t)

\* credentialMutationFor refuses a remote entry without its keys when it is
\* created, and one key without the other.
KeysRefused(r) ==
    /\ Remote(r.cert)
    /\ \/ r.op = "create" /\ ~(Given(r.keys[1]) /\ Given(r.keys[2]))
       \/ (r.keys[1] = None) # (r.keys[2] = None)

\* MutateConfigAndCredentials: keys that are given replace both and are bound to
\* the source of the entry, blank ones leave the former.
Forgets(r)  == r.op = "delete" \/ ~Remote(r.cert)
Replaces(r) == ~Forgets(r) /\ Given(r.keys[1]) /\ Given(r.keys[2])
Supplies(r) == ~Forgets(r) /\ r.keys[1] # None

RekeyRefused(r) ==
    /\ Supplies(r)
    /\ IF Blank(r.keys[1]) /\ Blank(r.keys[2]) THEN r.cert.name \notin DOMAIN secrets
       ELSE Blank(r.keys[1]) \/ Blank(r.keys[2]) \/ r.cert.remote = None

Without(s, n) == [m \in DOMAIN s \ {n} |-> s[m]]
With(s, n, c) == [m \in DOMAIN s \cup {n} |-> IF m = n THEN c ELSE s[m]]

\* Mutation: blank keys keep the former ones for whatever source the entry has now.
RekeyAll(s, r) ==
    IF r.op = "post" THEN s
    ELSE IF Forgets(r) THEN Without(s, r.name)
    ELSE IF Replaces(r)
    THEN With(s, r.name, [keys |-> <<Trim(r.keys[1]), Trim(r.keys[2])>>,
                          boundTo |-> Identity(r.cert), enteredFor |-> Identity(r.cert)])
    ELSE IF r.name \in DOMAIN s /\ r.cert.remote # None
    THEN [s EXCEPT ![r.name].boundTo = Identity(r.cert)] ELSE s

Rekey(s, r) ==
    IF r.op = "post" THEN s
    ELSE IF Forgets(r) THEN Without(s, r.name)
    ELSE IF Replaces(r)
    THEN With(s, r.name, [keys |-> <<Trim(r.keys[1]), Trim(r.keys[2])>>,
                          boundTo |-> Identity(r.cert), enteredFor |-> Identity(r.cert)])
    ELSE s

\* Mutation: keys are never dropped.
PruneNothing(certs, s) == s

\* pruneSecrets
Prune(certs, s) ==
    [n \in {m \in DOMAIN s : \E i \in DOMAIN certs : certs[i].name = m /\ Remote(certs[i])} |-> s[n]]

\* validateRemoteCredentials
Credentialed(certs, s) ==
    \A i \in DOMAIN certs : Remote(certs[i]) =>
        /\ certs[i].remote # None /\ certs[i].name \in DOMAIN s
        /\ s[certs[i].name].boundTo = Identity(certs[i])

\* secretstore.validate, when the file is saved and when it is loaded.
Savable(s) ==
    \A n \in DOMAIN s : ~Blank(n) /\ ~Blank(s[n].boundTo[1]) /\ ~Blank(s[n].boundTo[2])

----------------------------------------------------------------------------
(* Requests *)

\* The first entry of a name.
Place(certs, n) == Min({i \in DOMAIN certs : certs[i].name = n})

\* The mutations of handleConfig, handleCertificates, updateCertificate and
\* deleteCertificate.
Candidate(c, r) ==
    CASE r.op = "post"   -> r.all
      [] r.op = "create" -> [c EXCEPT !.certs = Append(@, r.cert)]
      [] r.op = "update" -> [c EXCEPT !.certs = ReplaceAt(@, Place(@, r.name), r.cert)]
      [] r.op = "delete" -> [c EXCEPT !.certs = RemoveAt(@, Place(@, r.name))]

NextSecrets(r) == Prune(Candidate(cfg, r).certs, Rekey(secrets, r))

\* Mutation: an update may give the entry another name.
RefusalRenaming(r) ==
    IF r.op = "post" THEN IF r.keyed THEN "invalid" ELSE "none"
    ELSE IF r.op # "delete" /\ KeysRefused(r) THEN "invalid"
    ELSE IF r.op = "create" /\ Has(cfg.certs, r.name) THEN "conflict"
    ELSE IF r.op # "create" /\ ~Has(cfg.certs, r.name) THEN "not found"
    ELSE IF RekeyRefused(r) THEN "invalid" ELSE "none"

\* What the handlers refuse before they ask the manager to apply a candidate.
Refusal(r) ==
    IF r.op = "post" THEN IF r.keyed THEN "invalid" ELSE "none"
    ELSE IF \/ r.op # "delete" /\ KeysRefused(r)
            \/ r.op = "update" /\ r.cert.name # r.name THEN "invalid"
    ELSE IF r.op = "create" /\ Has(cfg.certs, r.name) THEN "conflict"
    ELSE IF r.op # "create" /\ ~Has(cfg.certs, r.name) THEN "not found"
    ELSE IF RekeyRefused(r) THEN "invalid" ELSE "none"

\* applyConfigAndSecretsLocked: the credentials are compared with the candidate as
\* it came, saved, and compared again with the normalized candidate.
SavesSecrets(r) ==
    /\ Refusal(r) = "none"
    /\ Credentialed(Candidate(cfg, r).certs, NextSecrets(r))
    /\ NextSecrets(r) # secrets /\ Savable(NextSecrets(r))

ApplyVerdict(staged, raw, new) ==
    IF ~Credentialed(raw.certs, new) THEN "invalid"
    ELSE IF new # secrets /\ ~Savable(new) THEN "internal"
    ELSE LET found == Validate(fs, staged)
         IN IF found = "ok" /\ ~Credentialed(staged.certs, new) THEN "invalid" ELSE found

Verdict(r) ==
    IF Refusal(r) # "none" THEN Refusal(r)
    ELSE ApplyVerdict(Normal(Candidate(cfg, r)), Candidate(cfg, r), NextSecrets(r))

----------------------------------------------------------------------------
(* Actions *)

\* The process can take a request: here they come one at a time.
Serving == up /\ tested = None

Commit(c, s) == cfg' = c /\ secrets' = s /\ diskCfg' = c /\ diskSecrets' = s

\* Mutation: what was asked for takes effect, not what was checked.
OutcomeRaw(r) == <<Candidate(cfg, r), NextSecrets(r)>>

\* What a request that is not refused leaves.
Outcome(r) == <<Normal(Candidate(cfg, r)), NextSecrets(r)>>

\* A request is refused and changes nothing, or is applied.
Handle(r) ==
    /\ answer' = Verdict(r) /\ tested' = None
    /\ IF answer' = "ok"
       THEN Commit(Outcome(r)[1], Outcome(r)[2]) /\ done' = r
       ELSE UNCHANGED <<cfg, secrets, diskCfg, diskSecrets>> /\ done' = None
    /\ UNCHANGED <<fs, up, crashes>>

Put(op, n, e, k) == [op |-> op, name |-> n, cert |-> e, keys |-> k, all |-> None, keyed |-> FALSE]
Drop(n)          == [op |-> "delete", name |-> n, cert |-> None, keys |-> None, all |-> None,
                     keyed |-> FALSE]
Whole(c, keyed)  == [op |-> "post", name |-> None, cert |-> None, keys |-> None, all |-> c,
                     keyed |-> keyed]

Create(e, k) == Len(cfg.certs) < MaxEntries /\ Handle(Put("create", e.name, e, k))
Update(n, e, k)  == Handle(Put("update", n, e, k))
Delete(n)        == Handle(Drop(n))
Post(c, keyed)   == Handle(Whole(c, keyed))

\* Sync Now and Validate of one entry change no configuration; Manager has them.
Operate(n) ==
    /\ tested' = None /\ done' = None
    /\ IF Has(cfg.certs, n) THEN answer' \in {"ok", "source invalid", "internal"}
                            ELSE answer' = "not found"
    /\ UNCHANGED <<fs, up, cfg, secrets, diskCfg, diskSecrets, crashes>>

\* NewClient trims and checks what it is given before the server is asked.
ClientRefused(t) ==
    ~IsOrigin(Trim(t.url)) \/ ~Given(t.keys[1]) \/ ~Given(t.keys[2])

TestVerdict(t) ==
    IF ClientRefused(t) THEN "invalid"
    ELSE IF Blank(t.certificate) \/ Material!FetchKind(t.reply) # "none" THEN "internal"
    ELSE IF Material!AnswerValid(Material!Split(t.reply.detail)) THEN "ok" ELSE "source invalid"

\* TestCertWardenConnection, and validateFunc of a local source.  Neither depends on
\* the state of the manager nor changes it: here they are asked of a fresh one.
Fresh == Serving /\ crashes = 0 /\ cfg.certs = <<>> /\ answer = "none"

Probe(t, verdict) ==
    /\ Fresh
    /\ tested' = t /\ answer' = verdict /\ done' = None
    /\ UNCHANGED <<fs, up, cfg, secrets, diskCfg, diskSecrets, crashes>>

TestConnection(t) == Probe(t, TestVerdict(t))
CheckFiles(f) ==
    Probe(f, IF Material!FilesValid(f.certFile, f.keyFile) THEN "ok" ELSE "source invalid")

\* The client has read the answer to its test.
TestAnswered ==
    /\ up /\ tested # None /\ tested' = None /\ answer' = "none"
    /\ UNCHANGED <<fs, up, cfg, secrets, diskCfg, diskSecrets, done, crashes>>

\* main: both files are loaded, checked and applied; otherwise the process exits.
Boot ==
    /\ ~up /\ tested' = None /\ done' = None /\ answer' = "none"
    /\ LET loaded == Load(fs, diskCfg)
           pruned == Prune(loaded.certs, diskSecrets)
       IN IF /\ loaded # None /\ Savable(diskSecrets)
             /\ Credentialed(loaded.certs, pruned) /\ Credentialed(Normal(loaded).certs, pruned)
          THEN up' = TRUE /\ Commit(Normal(loaded), pruned)
          ELSE UNCHANGED <<up, cfg, secrets, diskCfg, diskSecrets>>
    /\ UNCHANGED <<fs, crashes>>

NoConfig == [certs |-> <<>>, level |-> <<"info">>]

Dies ==
    /\ Serving /\ crashes < MaxCrashes
    /\ crashes' = crashes + 1
    /\ up' = FALSE /\ cfg' = NoConfig /\ secrets' = <<>>
    /\ answer' = "none" /\ done' = None /\ tested' = None /\ UNCHANGED fs

\* The process ends between two requests.
Crash == Dies /\ UNCHANGED <<diskCfg, diskSecrets>>

\* It ends while it applies one: secrets.json is replaced, config.json is not.
CrashInApply(r) ==
    /\ SavesSecrets(r)
    /\ Dies /\ diskSecrets' = NextSecrets(r) /\ UNCHANGED diskCfg

\* Keys sent along with a local entry are not looked at.
KeysWith(e) == IF Remote(e) THEN KeyInputs ELSE {<<None, None>>}

Requests ==
    UNION {{Put("create", e.name, e, k) : k \in KeysWith(e)}
               \cup {Put("update", n, e, k) : n \in Names, k \in KeysWith(e)} : e \in Entries}
        \cup {Drop(n) : n \in Names} \cup {Whole(c, keyed) : c \in Posts, keyed \in BOOLEAN}

Init ==
    /\ fs \in FileSystems /\ up = FALSE
    /\ cfg = NoConfig /\ secrets = <<>>
    /\ diskCfg \in Installed /\ diskSecrets = <<>>
    /\ answer = "none" /\ done = None /\ tested = None /\ crashes = 0

Request ==
    \/ \E e \in Entries : \E k \in KeysWith(e) : Create(e, k) \/ \E n \in Names : Update(n, e, k)
    \/ \E n \in Names : Delete(n) \/ Operate(n)
    \/ \E c \in Posts, keyed \in BOOLEAN : Post(c, keyed)

Next ==
    \/ Serving /\ Request
    \/ Fresh /\ \E t \in Tests : TestConnection(t)
    \/ Fresh /\ \E f \in FilePairs : CheckFiles(f)
    \/ TestAnswered \/ Boot \/ Crash
    \/ Serving /\ crashes < MaxCrashes /\ \E r \in Requests : CrashInApply(r)

Spec == Init /\ [][Next]_vars

----------------------------------------------------------------------------
(* Properties *)

Active == {cfg.certs[i] : i \in DOMAIN cfg.certs}

\* Every remote entry has API keys, and they are sent to no other server and for no
\* other certificate than those of the entry they were typed in with, whatever was
\* changed, renamed, posted or left half done since.
KeysBound ==
    \A e \in Active : Remote(e) =>
        e.name \in DOMAIN secrets /\ secrets[e.name].enteredFor = Identity(e)

\* No keys stay behind, in memory or on the disk: there are keys for the remote
\* entries only, also after a crash in the middle of a request.
NoKeysLeft ==
    up => diskSecrets = secrets /\ DOMAIN secrets = {e.name : e \in {a \in Active : Remote(a)}}

RealDir(e) == Resolve(fs, e.dir)

\* No two entries write the same file, however their directories are spelled and
\* linked, and no two decide about the fallback of one directory.
DistinctFiles ==
    \A i, j \in DOMAIN cfg.certs : i # j =>
        LET e == cfg.certs[i]
            f == cfg.certs[j]
        IN /\ e.name # f.name
           /\ RealDir(e) = RealDir(f) => e.target # f.target /\ ~(e.fallback /\ f.fallback)

\* No entry reads or writes outside of the operator's roots, through links either.
WithinRoots ==
    LET within(p, roots) == \E r \in ToSet(roots) : /\ None \notin {Resolve(fs, r), Resolve(fs, p)}
                                                   /\ IsPrefix(Resolve(fs, r), Resolve(fs, p))
    IN \A e \in Active :
          /\ within(e.dir, DestinationRoots)
          /\ ~Remote(e) => within(e.certificate, SourceRoots) /\ within(e.privateKey, SourceRoots)

\* Whatever configuration a request has left, the process can be started with it
\* again, and means the same.
Restartable ==
    up => /\ Load(fs, diskCfg) = cfg /\ Savable(diskSecrets)
          /\ Credentialed(cfg.certs, diskSecrets)

\* A client whose answer was lost (an apply may take longer than the server's write
\* timeout) may repeat its request: nothing changes, and the answer tells it that
\* the request has been carried out.
RetryHarmless ==
    done # None =>
        /\ Verdict(done) = CASE done.op = "create" -> "conflict" [] done.op = "delete" -> "not found"
                             [] OTHER -> "ok"
        /\ Verdict(done) = "ok" => Outcome(done) = <<cfg, secrets>>

\* The path length rule as RFC 5280 states it, from the top of the chain: a
\* certificate hands down how many more CA certificates may follow.
PathLengthsKept(chain) ==
    LET above == Len(chain) + 1
        left[k \in 2..above] ==
            IF k = above THEN Len(chain)
            ELSE LET own == IF Material!SelfIssued(chain[k]) THEN left[k + 1] ELSE left[k + 1] - 1
                 IN IF chain[k].maxPath >= 0 /\ chain[k].maxPath < own THEN chain[k].maxPath ELSE own
    IN \A k \in 2..Len(chain) : left[k + 1] > 0 \/ Material!SelfIssued(chain[k])

Usable(certs, key) ==
    /\ \A i \in DOMAIN certs : certs[i].valid
    /\ \A i \in 2..Len(certs) : /\ certs[i].ca /\ certs[i - 1].by = certs[i].key
                                /\ certs[i - 1].issuer = certs[i].subject
    /\ ~certs[1].ca /\ certs[1].server /\ certs[1].key = key
    /\ PathLengthsKept(certs)

\* The blocks that the certificates are taken from.
Offered(t) ==
    IF t.what = "files" THEN t.certFile ELSE IF t.reply.got = "body" THEN t.reply.detail ELSE <<>>

\* A connection test and a validation succeed exactly for a chain, from a leaf for
\* servers upwards, that holds by the rules of X.509, with its private key: the only
\* one of an answer, the first one of a key file.  Nothing else may be among the
\* certificates.  Nothing is claimed where one of the blocks does not decode: the code
\* passes over it (Clean), and README.md would have it refused.
VerdictIsRight ==
    tested # None /\ "broken" \notin Material!Kinds(Offered(tested)) =>
        LET certs == Material!Certificates(Offered(tested))
            only(kinds) == Material!Kinds(Offered(tested)) \subseteq kinds
            holds(b) == b.kind = "key" /\ b.value # None /\ Usable(certs, b.value)
        IN answer = "ok" <=>
               /\ certs # <<>> /\ None \notin ToSet(certs)
               /\ IF tested.what = "files"
                  THEN /\ only({"certificate"}) /\ "encrypted" \notin Material!Kinds(tested.keyFile)
                       /\ \E i \in DOMAIN tested.keyFile :
                             /\ holds(tested.keyFile[i])
                             /\ \A j \in 1..(i - 1) : tested.keyFile[j].kind \notin {"key", "foreign"}
                  ELSE /\ ~ClientRefused(tested) /\ ~Blank(tested.certificate)
                       /\ only({"certificate", "key"}) /\ Len(Material!Keys(Offered(tested))) = 1
                       /\ \E b \in ToSet(Offered(tested)) : holds(b)
=============================================================================
