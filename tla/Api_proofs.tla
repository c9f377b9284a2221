----------------------------- MODULE Api_proofs -----------------------------
(***************************************************************************)
(* Proofs about Api.                                                        *)
(***************************************************************************)
EXTENDS Api, SequenceTheorems, WellFoundedInduction, TLAPS

----------------------------------------------------------------------------
(* Least and greatest numbers, texts *)

LEMMA MinIn ==
    ASSUME NEW S \in SUBSET Nat, S # {}
    PROVE  Min(S) \in S /\ \A y \in S : Min(S) <= y
<1> DEFINE R == {ss \in Nat \X Nat : ss[1] < ss[2]}
<1>1. IsWellFoundedOn(R, Nat)
    BY NatLessThanWellFounded DEF OpToRel
<1>2. PICK x \in S : \A y \in S : ~(<<y, x>> \in R)
    BY <1>1, WFMin
<1>3. \A y \in S : x <= y
    <2> SUFFICES ASSUME NEW y \in S PROVE x <= y
        OBVIOUS
    <2>1. x \in Nat /\ y \in Nat
        OBVIOUS
    <2>2. ~(y < x)
        BY <1>2, <2>1
    <2> QED
        BY <2>1, <2>2
<1> QED
    BY <1>3 DEF Min

LEMMA MaxIn ==
    ASSUME NEW n \in Nat, NEW S \in SUBSET (1..n), S # {}
    PROVE  Max(S) \in S /\ \A y \in S : y <= Max(S)
<1> DEFINE T == {n - y : y \in S}
<1>1. \A y \in S : y \in Nat /\ n - y \in Nat
    OBVIOUS
<1>2. T \in SUBSET Nat /\ T # {}
    BY <1>1
<1>3. Min(T) \in T /\ \A y \in T : Min(T) <= y
    BY <1>2, MinIn
<1>4. PICK x \in S : Min(T) = n - x
    BY <1>3
<1>5. \A y \in S : x >= y
    <2> SUFFICES ASSUME NEW y \in S PROVE x >= y
        OBVIOUS
    <2>1. n - y \in T
        OBVIOUS
    <2>2. n - x <= n - y
        BY <1>3, <1>4, <2>1
    <2> QED
        BY <1>1, <2>2
<1> QED
    BY <1>5 DEF Max

LEMMA TrimIdempotent ==
    ASSUME NEW t \in Text
    PROVE  Trim(t) \in Text /\ Trim(Trim(t)) = Trim(t)
<1> DEFINE kept(s) == {i \in DOMAIN s : s[i] \notin Blanks}
<1>1. CASE kept(t) = {}
    <2>1. Trim(t) = <<>> /\ Trim(<<>>) = <<>>
        BY <1>1 DEF Trim
    <2> QED
        BY <2>1 DEF Text
<1>2. CASE kept(t) # {}
  <2> DEFINE a == Min(kept(t))
             b == Max(kept(t))
             u == SubSeq(t, a, b)
  <2>1. kept(t) \subseteq 1..Len(t) /\ Len(t) \in Nat /\ DOMAIN t = 1..Len(t)
      BY DEF Text
  <2>2. a \in kept(t) /\ b \in kept(t) /\ a <= b
    <3>1. kept(t) \in SUBSET Nat /\ kept(t) \in SUBSET (1..Len(t))
        BY <2>1
    <3> HIDE DEF kept
    <3>2. a \in kept(t) /\ \A y \in kept(t) : a <= y
        BY <1>2, <3>1, MinIn
    <3>3. b \in kept(t)
        BY <1>2, <2>1, <3>1, MaxIn
    <3> QED
        BY <3>2, <3>3
  <2>3. a \in 1..Len(t) /\ b \in 1..Len(t) /\ a <= b /\ t[a] \notin Blanks /\ t[b] \notin Blanks
      BY <2>1, <2>2
  <2> HIDE DEF a, b
  <2>4. /\ u \in Text /\ Len(u) = b - a + 1 /\ DOMAIN u = 1..Len(u)
        /\ \A i \in 1..Len(u) : u[i] = t[a + i - 1]
      BY <2>1, <2>3 DEF Text
  <2>5. u[1] \notin Blanks /\ u[Len(u)] \notin Blanks
      BY <2>3, <2>4
  <2> HIDE DEF u
  <2>6. 1 \in kept(u) /\ Len(u) \in kept(u) /\ kept(u) \subseteq 1..Len(u) /\ Len(u) \in Nat
      BY <2>3, <2>4, <2>5
  <2>7. Min(kept(u)) = 1 /\ Max(kept(u)) = Len(u)
    <3>1. kept(u) \in SUBSET Nat /\ kept(u) \in SUBSET (1..Len(u)) /\ kept(u) # {}
        BY <2>6
    <3> HIDE DEF kept
    <3>2. Min(kept(u)) \in kept(u) /\ \A y \in kept(u) : Min(kept(u)) <= y
        BY <3>1, MinIn
    <3>3. Max(kept(u)) \in kept(u) /\ \A y \in kept(u) : y <= Max(kept(u))
        BY <2>6, <3>1, MaxIn
    <3> QED
        BY <2>6, <3>2, <3>3
  <2>8. SubSeq(u, 1, Len(u)) = u
      BY <2>4 DEF Text
  <2>9. Trim(t) = u
      BY <1>2 DEF Trim, u, a, b
  <2>10. Trim(u) = u
      BY <2>6, <2>7, <2>8 DEF Trim
  <2> QED
      BY <2>4, <2>9, <2>10
<1> QED
    BY <1>1, <1>2

----------------------------------------------------------------------------
(* What normalization and validation leave *)

LEMMA EntryNormal ==
    ASSUME NEW e \in EntryType
    PROVE  /\ NormalEntry(e) \in EntryType
           /\ NormalEntry(NormalEntry(e)) = NormalEntry(e)
           /\ NormalEntry(e).name = Trim(e.name)
           /\ Remote(NormalEntry(e)) <=> Remote(e)
<1> DEFINE n == NormalEntry(e)
           m == NormalEntry(n)
<1>1. \A t \in Text : Trim(t) \in Text /\ Trim(Trim(t)) = Trim(t)
    BY TrimIdempotent
<1>2. \A type : DefaultPoll(type) \in Int /\ DefaultPoll(type) # 0
    BY DEF DefaultPoll
<1>3. n \in EntryType
    <2> DEFINE source == IF e.remote = None THEN None
                         ELSE [url |-> Trim(e.remote.url), certificate |-> Trim(e.remote.certificate)]
               type == IF e.type = "" THEN "local" ELSE e.type
               poll == IF e.poll # 0 THEN e.poll ELSE DefaultPoll(type)
    <2>1. source \in SourceType \cup {None}
        BY <1>1 DEF EntryType, SourceType
    <2>2. type \in {"", "local", "cert_warden", "other"}
        BY DEF EntryType
    <2>3. poll \in Int
        BY <1>2 DEF EntryType
    <2>4. n = [name |-> Trim(e.name), type |-> type,
               certificate |-> Trim(e.certificate), privateKey |-> Trim(e.privateKey),
               remote |-> source, dir |-> Trim(e.dir), target |-> Trim(e.target),
               watch |-> e.watch, poll |-> poll, fallback |-> e.fallback]
        BY DEF NormalEntry
    <2> HIDE DEF source, type, poll, n
    <2> QED
        BY <1>1, <2>1, <2>2, <2>4, <2>3 DEF EntryType
<1>4. /\ Remote(n) <=> Remote(e)
      /\ n.name = Trim(e.name)
    BY DEF NormalEntry, EntryType, Remote
<1>5. m = n
    <2>1. n.poll # 0
        BY <1>2 DEF NormalEntry, EntryType
    <2>2. n.type # ""
        BY DEF NormalEntry, EntryType
    <2>3. /\ Trim(n.name) = n.name /\ Trim(n.certificate) = n.certificate
          /\ Trim(n.privateKey) = n.privateKey /\ Trim(n.dir) = n.dir
          /\ Trim(n.target) = n.target
        BY <1>1 DEF NormalEntry, EntryType
    <2>4. \/ n.remote = None
          \/ /\ n.remote \in SourceType /\ n.remote # None
             /\ n.remote = [url |-> Trim(n.remote.url), certificate |-> Trim(n.remote.certificate)]
        BY <1>1, ApiAssumption DEF NormalEntry, EntryType, SourceType
    <2> HIDE DEF n
    <2> QED
        BY <1>3, <2>1, <2>3, <2>4, <2>2 DEF NormalEntry, EntryType
<1> QED
    BY <1>4, <1>5, <1>3

LEMMA ConfigNormal ==
    ASSUME NEW c \in ConfigType
    PROVE  Normal(c) \in ConfigType /\ Normal(Normal(c)) = Normal(c)
<1> DEFINE n == Normal(c)
<1>1. /\ c.certs \in Seq(EntryType) /\ c.level \in Text /\ Len(c.certs) \in Nat
      /\ DOMAIN c.certs = 1..Len(c.certs)
    BY DEF ConfigType
<1>2. \A i \in 1..Len(c.certs) :
          /\ NormalEntry(c.certs[i]) \in EntryType
          /\ NormalEntry(NormalEntry(c.certs[i])) = NormalEntry(c.certs[i])
    BY <1>1, EntryNormal
<1>3. /\ n.certs \in Seq(EntryType) /\ DOMAIN n.certs = 1..Len(c.certs)
      /\ \A i \in 1..Len(c.certs) : n.certs[i] = NormalEntry(c.certs[i])
    BY <1>1, <1>2 DEF Normal
<1>4. NormalLevel(c.level) \in Text /\ NormalLevel(NormalLevel(c.level)) = NormalLevel(c.level)
    <2>1. <<"info">> # <<>>
        OBVIOUS
    <2>2. Trim(c.level) \in Text /\ Trim(Trim(c.level)) = Trim(c.level)
        BY <1>1, TrimIdempotent
    <2>3. <<"info">> \in Text
        BY ApiAssumption
    <2>4. Trim(<<"info">>) = <<"info">>
      <3> DEFINE t == <<"info">>
                 kept == {i \in DOMAIN t : t[i] \notin Blanks}
      <3>1. "info" \notin Blanks
          BY Zenon DEF Blanks, LineEnd
      <3>2. kept = {1} /\ kept \in SUBSET Nat /\ kept \in SUBSET (1..1)
          BY <3>1
      <3> HIDE DEF kept
      <3>3. Min(kept) = 1 /\ Max(kept) = 1
          BY <3>2, MinIn, MaxIn
      <3>4. SubSeq(t, 1, 1) = t
        <4>1. t \in Seq({"info"}) /\ Len(t) = 1
            OBVIOUS
        <4> HIDE DEF t
        <4> QED
            BY <4>1
      <3>5. Trim(t) = IF kept = {} THEN <<>> ELSE SubSeq(t, Min(kept), Max(kept))
          BY DEF Trim, kept
      <3> HIDE DEF t
      <3> QED
          BY <3>2, <3>3, <3>4, <3>5 DEF t
    <2> QED
        BY <2>1, <2>2, <2>3, <2>4 DEF NormalLevel
<1>5. n = [certs |-> n.certs, level |-> NormalLevel(c.level)]
    BY DEF Normal
<1>6. n \in ConfigType
    BY <1>3, <1>4, <1>5 DEF ConfigType
<1>7. [i \in DOMAIN n.certs |-> NormalEntry(n.certs[i])] = n.certs
    BY <1>2, <1>3
<1>8. Normal(n) = [certs |-> n.certs, level |-> NormalLevel(NormalLevel(c.level))]
    BY <1>5, <1>7 DEF Normal
<1> QED
    BY <1>4, <1>5, <1>6, <1>8

LEMMA ValidRules ==
    ASSUME NEW c \in ConfigType, NEW d, Validate(d, c) = "ok"
    PROVE  /\ \A i \in DOMAIN c.certs : EntryValid(d, c.certs[i])
           /\ \A i, j \in DOMAIN c.certs : i # j => ~Clash(d, c.certs[i], c.certs[j])
<1>1. DOMAIN c.certs = 1..Len(c.certs) /\ Len(c.certs) \in Nat
    BY DEF ConfigType
<1>2. /\ {i \in DOMAIN c.certs : ~EntryValid(d, c.certs[i])} = {}
      /\ {i \in DOMAIN c.certs : \E j \in 1..(i - 1) : Clash(d, c.certs[i], c.certs[j])} = {}
    BY DEF Validate
<1>3. \A e, f : Clash(d, e, f) => Clash(d, f, e)
    BY DEF Clash
<1>4. \A i, j \in DOMAIN c.certs : j < i => j \in 1..(i - 1)
    BY <1>1
<1> QED
    BY <1>1, <1>2, <1>3, <1>4

LEMMA WithinHolds ==
    ASSUME NEW d, NEW p, NEW roots \in Seq(Text), ResolveWithin(d, p, roots) # None
    PROVE  /\ ResolveWithin(d, p, roots) = Resolve(d, p) /\ Resolve(d, p) # None
           /\ \E r \in ToSet(roots) : /\ None \notin {Resolve(d, r), Resolve(d, p)}
                                      /\ IsPrefix(Resolve(d, r), Resolve(d, p))
<1> DEFINE real == Resolve(d, p)
           hits == {i \in DOMAIN roots : LET r == Resolve(d, roots[i])
                                         IN r = None \/ IsPrefix(r, real)}
<1>1. /\ ResolveWithin(d, p, roots) = real /\ real # None
      /\ hits # {} /\ Resolve(d, roots[Min(hits)]) # None
    BY DEF ResolveWithin
<1>2. hits \in SUBSET Nat
    OBVIOUS
<1>3. Min(hits) \in hits
    <2> HIDE DEF hits
    <2> QED
        BY <1>1, <1>2, MinIn
<1>4. /\ Min(hits) \in DOMAIN roots
      /\ Resolve(d, roots[Min(hits)]) = None \/ IsPrefix(Resolve(d, roots[Min(hits)]), real)
    BY <1>3
<1>5. roots[Min(hits)] \in ToSet(roots)
    BY <1>4 DEF ToSet
<1> HIDE DEF hits
<1> QED
    BY <1>1, <1>4, <1>5

----------------------------------------------------------------------------
(* Which keys a change leaves *)

Matched(s) == \A n \in DOMAIN s : s[n].boundTo = s[n].enteredFor

RemoteNames(certs) == {certs[i].name : i \in {j \in DOMAIN certs : Remote(certs[j])}}

LEMMA PruneFacts ==
    ASSUME NEW certs, NEW s
    PROVE  /\ DOMAIN Prune(certs, s) = DOMAIN s \cap RemoteNames(certs)
           /\ Matched(s) => Matched(Prune(certs, s))
           /\ Savable(s) => Savable(Prune(certs, s))
<1>1. DOMAIN Prune(certs, s) = DOMAIN s \cap RemoteNames(certs)
    BY DEF Prune, RemoteNames
<1>2. \A n \in DOMAIN Prune(certs, s) : n \in DOMAIN s /\ Prune(certs, s)[n] = s[n]
    BY DEF Prune
<1> QED
    BY <1>1, <1>2 DEF Matched, Savable

LEMMA RekeyMatched ==
    ASSUME NEW s, Matched(s), NEW r
    PROVE  Matched(Rekey(s, r))
<1> DEFINE k == [keys |-> <<Trim(r.keys[1]), Trim(r.keys[2])>>,
                 boundTo |-> Identity(r.cert), enteredFor |-> Identity(r.cert)]
<1>1. Matched(Without(s, r.name))
    BY DEF Matched, Without
<1>2. k.boundTo = k.enteredFor
    OBVIOUS
<1>3. Rekey(s, r) \in {s, Without(s, r.name), With(s, r.name, k)}
    BY DEF Rekey
<1> HIDE DEF k
<1>4. Matched(With(s, r.name, k))
    BY <1>2 DEF Matched, With
<1> QED
    BY <1>1, <1>3, <1>4

\* The keys that are kept, and compared with the entries before and after they are
\* normalized, are those of the remote entries: a name that normalization changes
\* would be that of two entries.
LEMMA AppliedKeys ==
    ASSUME NEW c \in ConfigType, NEW d, NEW s,
           Validate(d, Normal(c)) = "ok", DOMAIN s \subseteq RemoteNames(c.certs),
           Credentialed(Normal(c).certs, s)
    PROVE  DOMAIN s = RemoteNames(Normal(c).certs)
<1> DEFINE n == Normal(c)
<1>1. /\ c.certs \in Seq(EntryType) /\ DOMAIN n.certs = DOMAIN c.certs
      /\ \A i \in DOMAIN c.certs : c.certs[i] \in EntryType
      /\ \A i \in DOMAIN c.certs : n.certs[i] = NormalEntry(c.certs[i])
    BY DEF ConfigType, Normal
<1>2. \A i \in DOMAIN c.certs :
          /\ n.certs[i].name = Trim(c.certs[i].name)
          /\ Remote(n.certs[i]) <=> Remote(c.certs[i])
          /\ Trim(Trim(c.certs[i].name)) = Trim(c.certs[i].name)
    <2> SUFFICES ASSUME NEW i \in DOMAIN c.certs
                 PROVE  /\ n.certs[i].name = Trim(c.certs[i].name)
                        /\ Remote(n.certs[i]) <=> Remote(c.certs[i])
                        /\ Trim(Trim(c.certs[i].name)) = Trim(c.certs[i].name)
        OBVIOUS
    <2>1. c.certs[i].name \in Text
        BY <1>1 DEF EntryType
    <2> HIDE DEF n
    <2> QED
        BY <1>1, <2>1, EntryNormal, TrimIdempotent
<1>3. \A i, j \in DOMAIN n.certs : i # j => n.certs[i].name # n.certs[j].name
    BY ConfigNormal, ValidRules DEF Clash
<1>4. RemoteNames(n.certs) \subseteq DOMAIN s
    BY DEF Credentialed, RemoteNames
<1> HIDE DEF n
<1>5. ASSUME NEW m \in DOMAIN s PROVE m \in RemoteNames(n.certs)
    <2>1. PICK i \in DOMAIN c.certs : Remote(c.certs[i]) /\ c.certs[i].name = m
        BY <1>5 DEF RemoteNames
    <2>2. Remote(n.certs[i]) /\ n.certs[i].name = Trim(m) /\ Trim(Trim(m)) = Trim(m)
        BY <1>2, <2>1
    <2>3. n.certs[i].name \in RemoteNames(n.certs)
        BY <1>1, <2>1, <2>2 DEF RemoteNames
    <2>4. PICK j \in DOMAIN c.certs : Remote(c.certs[j]) /\ c.certs[j].name = Trim(m)
        BY <1>4, <2>2, <2>3 DEF RemoteNames
    <2>5. n.certs[j].name = Trim(m)
        BY <1>2, <2>2, <2>4
    <2>6. i = j
        BY <1>1, <1>3, <2>2, <2>5
    <2> QED
        BY <2>1, <2>2, <2>3, <2>4, <2>6
<1> QED
    BY <1>4, <1>5 DEF n

----------------------------------------------------------------------------
(* The invariant *)

\* What the active configuration and its keys are.
Applied(d, c, s) ==
    /\ Normal(c) = c /\ Validate(d, c) = "ok"
    /\ Credentialed(c.certs, s) /\ DOMAIN s = RemoteNames(c.certs) /\ Savable(s)

Inv ==
    /\ cfg \in ConfigType /\ diskCfg \in ConfigType \cup {None}
    /\ Matched(secrets) /\ Matched(diskSecrets)
    /\ up => Applied(fs, cfg, secrets) /\ diskCfg = cfg /\ diskSecrets = secrets
    /\ ~up => cfg = NoConfig

LEMMA NoConfigTyped == NoConfig \in ConfigType
    BY ApiAssumption DEF NoConfig, ConfigType

LEMMA InitInv == Init => Inv
<1> SUFFICES ASSUME Init PROVE Inv
    OBVIOUS
<1>1. Matched(<<>>)
    BY DEF Matched
<1> QED
    BY <1>1, NoConfigTyped, ApiAssumption DEF Init, Inv

\* Applying a configuration, from a request or from the files, normalizes it.
LEMMA ApplyApplied ==
    ASSUME NEW c \in ConfigType, NEW s, Matched(s), DOMAIN s \subseteq RemoteNames(c.certs),
           Savable(s), Validate(fs, Normal(c)) = "ok", Credentialed(Normal(c).certs, s), up',
           Commit(Normal(c), s), fs' = fs
    PROVE  Inv'
<1>1. Normal(c) \in ConfigType /\ Normal(Normal(c)) = Normal(c)
    BY ConfigNormal
<1>2. DOMAIN s = RemoteNames(Normal(c).certs)
    BY AppliedKeys
<1>3. Applied(fs, Normal(c), s)
    BY <1>1, <1>2 DEF Applied
<1>4. cfg' = Normal(c) /\ secrets' = s /\ diskCfg' = Normal(c) /\ diskSecrets' = s
    BY DEF Commit
<1>5. Matched(secrets)' /\ Matched(diskSecrets)'
    BY <1>4 DEF Matched
<1>6. Applied(fs, cfg, secrets)'
    BY <1>3, <1>4
<1> QED
    BY <1>1, <1>4, <1>5, <1>6 DEF Inv

----------------------------------------------------------------------------
(* Requests *)

IsPut(r)  == /\ r.op \in {"create", "update"} /\ r.cert \in EntryType
             /\ r.op = "create" => r.name = r.cert.name
IsDrop(r) == r.op = "delete"
IsPost(r) == r.op = "post" /\ r.all \in ConfigType

LEMMA CandidateTyped ==
    ASSUME cfg \in ConfigType, NEW r, IsPut(r) \/ IsDrop(r) \/ IsPost(r), Refusal(r) = "none"
    PROVE  Candidate(cfg, r) \in ConfigType
<1>1. cfg.certs \in Seq(EntryType) /\ cfg.level \in Text /\ cfg = [certs |-> cfg.certs, level |-> cfg.level]
    BY DEF ConfigType
<1>2. ASSUME NEW certs \in Seq(EntryType)
      PROVE  [certs |-> certs, level |-> cfg.level] \in ConfigType
    BY <1>1 DEF ConfigType
<1>3. ASSUME NEW certs
      PROVE  [cfg EXCEPT !.certs = certs] = [certs |-> certs, level |-> cfg.level]
    BY <1>1
<1>4. CASE IsPost(r)
    BY <1>4 DEF IsPost, Candidate
<1>5. CASE IsPut(r) /\ r.op = "create"
    <2>1. Append(cfg.certs, r.cert) \in Seq(EntryType)
        BY <1>1, <1>5 DEF IsPut
    <2>2. Candidate(cfg, r) = [cfg EXCEPT !.certs = Append(cfg.certs, r.cert)]
        BY <1>1, <1>5 DEF Candidate
    <2> QED
        BY <1>2, <1>3, <2>1, <2>2
<1>6. ASSUME Has(cfg.certs, r.name)
      PROVE  Place(cfg.certs, r.name) \in 1..Len(cfg.certs)
    <2> DEFINE found == {i \in DOMAIN cfg.certs : cfg.certs[i].name = r.name}
    <2>1. DOMAIN cfg.certs = 1..Len(cfg.certs) /\ Len(cfg.certs) \in Nat
        BY <1>1
    <2>2. found \in SUBSET Nat /\ found # {} /\ found \subseteq 1..Len(cfg.certs)
        BY <1>6, <2>1 DEF Has
    <2>3. Place(cfg.certs, r.name) = Min(found)
        BY DEF Place
    <2> HIDE DEF found
    <2> QED
        BY <2>2, <2>3, MinIn
<1>7. CASE IsPut(r) /\ r.op = "update"
    <2>1. Has(cfg.certs, r.name)
        BY <1>7 DEF Refusal
    <2> DEFINE certs == ReplaceAt(cfg.certs, Place(cfg.certs, r.name), r.cert)
    <2>2. certs \in Seq(EntryType)
        BY <1>1, <1>6, <1>7, <2>1 DEF ReplaceAt, IsPut
    <2>3. Candidate(cfg, r) = [cfg EXCEPT !.certs = certs]
        BY <1>1, <1>7 DEF Candidate
    <2> HIDE DEF certs
    <2> QED
        BY <1>2, <1>3, <2>2, <2>3
<1>8. CASE IsDrop(r)
    <2>1. Has(cfg.certs, r.name)
        BY <1>8 DEF Refusal, IsDrop
    <2> DEFINE p == Place(cfg.certs, r.name)
               certs == RemoveAt(cfg.certs, p)
    <2>2. certs \in Seq(EntryType)
        <3>1. p \in 1..Len(cfg.certs) /\ Len(cfg.certs) \in Nat
            BY <1>1, <1>6, <2>1
        <3> HIDE DEF p
        <3>2. /\ SubSeq(cfg.certs, 1, p - 1) \in Seq(EntryType)
              /\ SubSeq(cfg.certs, p + 1, Len(cfg.certs)) \in Seq(EntryType)
            BY <1>1, <3>1
        <3> QED
            BY <3>2 DEF RemoveAt
    <2>3. Candidate(cfg, r) = [cfg EXCEPT !.certs = certs]
        BY <1>1, <1>8 DEF Candidate, IsDrop
    <2> HIDE DEF certs
    <2> QED
        BY <1>2, <1>3, <2>2, <2>3
<1> QED
    BY <1>4, <1>5, <1>7, <1>8 DEF IsPut

LEMMA NextSecretsFacts ==
    ASSUME Matched(secrets), NEW r
    PROVE  /\ Matched(NextSecrets(r))
           /\ DOMAIN NextSecrets(r) \subseteq RemoteNames(Candidate(cfg, r).certs)
<1>1. Matched(Rekey(secrets, r))
    BY RekeyMatched
<1> QED
    BY <1>1, PruneFacts DEF NextSecrets

LEMMA HandleInv ==
    ASSUME Inv, up, NEW r, IsPut(r) \/ IsDrop(r) \/ IsPost(r), Handle(r)
    PROVE  Inv'
<1>1. fs' = fs /\ up' = up
    BY DEF Handle
<1>2. CASE Verdict(r) # "ok"
    <2>1. UNCHANGED <<cfg, secrets, diskCfg, diskSecrets>>
        BY <1>2 DEF Handle
    <2> QED
        BY <1>1, <2>1 DEF Inv
<1>3. CASE Verdict(r) = "ok"
    <2> DEFINE c == Candidate(cfg, r)
               s == NextSecrets(r)
    <2>1. Refusal(r) = "none"
        BY <1>3 DEF Verdict, Refusal
    <2>2. ApplyVerdict(Normal(c), c, s) = "ok"
        BY <1>3, <2>1 DEF Verdict
    <2>3. /\ Credentialed(Normal(c).certs, s) /\ Validate(fs, Normal(c)) = "ok"
          /\ s = secrets \/ Savable(s)
        BY <2>2 DEF ApplyVerdict
    <2>4. c \in ConfigType
        BY <2>1, CandidateTyped DEF Inv
    <2>5. Matched(s) /\ DOMAIN s \subseteq RemoteNames(c.certs)
        BY NextSecretsFacts DEF Inv
    <2>6. Savable(s)
        BY <2>3 DEF Inv, Applied
    <2>7. Commit(Normal(c), s)
        BY <1>3 DEF Handle, Outcome
    <2> HIDE DEF c, s
    <2> QED
        BY <1>1, <2>3, <2>4, <2>5, <2>6, <2>7, ApplyApplied
<1> QED
    BY <1>2, <1>3

LEMMA RequestInv ==
    ASSUME Inv, up, Request
    PROVE  Inv'
<1>1. ASSUME NEW e \in Entries, NEW n, NEW k, NEW op \in {"create", "update"},
             op = "create" => n = e.name
      PROVE  IsPut(Put(op, n, e, k))
    BY <1>1, ApiAssumption DEF IsPut, Put
<1>2. ASSUME NEW e \in Entries, NEW k, Create(e, k)
      PROVE  Inv'
    BY <1>1, <1>2, HandleInv DEF Create
<1>3. ASSUME NEW e \in Entries, NEW n, NEW k, Update(n, e, k)
      PROVE  Inv'
    BY <1>1, <1>3, HandleInv DEF Update
<1>4. ASSUME NEW n, Delete(n)
      PROVE  Inv'
    BY <1>4, HandleInv DEF Delete, Drop, IsDrop
<1>5. ASSUME NEW c \in Posts, NEW keyed, Post(c, keyed)
      PROVE  Inv'
    <2>1. IsPost(Whole(c, keyed))
        BY ApiAssumption DEF IsPost, Whole
    <2> QED
        BY <1>5, <2>1, HandleInv DEF Post
<1>6. ASSUME NEW n, Operate(n)
      PROVE  Inv'
    BY <1>6 DEF Operate, Inv
<1> QED
    BY <1>2, <1>3, <1>4, <1>5, <1>6 DEF Request

----------------------------------------------------------------------------
(* Starts and ends of the process *)

LEMMA BootInv ==
    ASSUME Inv, Boot
    PROVE  Inv'
<1> DEFINE c == Load(fs, diskCfg)
           s == Prune(c.certs, diskSecrets)
           accepted == /\ c # None /\ Savable(diskSecrets)
                       /\ Credentialed(c.certs, s) /\ Credentialed(Normal(c).certs, s)
<1>1. fs' = fs
    BY DEF Boot
<1>2. CASE ~accepted
    <2>1. UNCHANGED <<up, cfg, secrets, diskCfg, diskSecrets>>
        BY <1>2 DEF Boot
    <2> QED
        BY <1>1, <2>1 DEF Inv
<1>3. CASE accepted
    <2>1. up' /\ Commit(Normal(c), s)
        BY <1>3 DEF Boot
    <2>2. c \in ConfigType /\ Validate(fs, Normal(c)) = "ok"
      <3> DEFINE read == IF diskCfg = None THEN DefaultConfig ELSE Normal(diskCfg)
      <3>1. c = read /\ Validate(fs, Normal(read)) = "ok"
          BY <1>3 DEF Load
      <3>2. read \in ConfigType
          BY ConfigNormal, ApiAssumption DEF Inv
      <3> HIDE DEF read, c
      <3> QED
          BY <3>1, <3>2
    <2>3. Matched(s) /\ Savable(s) /\ DOMAIN s \subseteq RemoteNames(c.certs)
        BY <1>3, PruneFacts DEF Inv
    <2>4. Credentialed(Normal(c).certs, s)
        BY <1>3
    <2> HIDE DEF c, s
    <2> QED
        BY <1>1, <2>1, <2>2, <2>3, <2>4, ApplyApplied
<1> QED
    BY <1>2, <1>3

LEMMA CrashInv ==
    ASSUME Inv, Dies, diskCfg' = diskCfg, Matched(diskSecrets')
    PROVE  Inv'
<1>1. Matched(<<>>)
    BY DEF Matched
<1>2. secrets' = <<>> /\ up' = FALSE /\ cfg' = NoConfig
    BY DEF Dies
<1>3. Matched(secrets)'
    BY <1>1, <1>2
<1> QED
    BY <1>2, <1>3, NoConfigTyped DEF Inv

LEMMA NextInv == Inv /\ [Next]_vars => Inv'
<1> SUFFICES ASSUME Inv, [Next]_vars PROVE Inv'
    OBVIOUS
<1>1. CASE Serving /\ Request
    BY <1>1, RequestInv DEF Serving
<1>2. ASSUME NEW t \in Tests, TestConnection(t)
      PROVE  Inv'
    BY <1>2 DEF TestConnection, Probe, Inv
<1>3. ASSUME NEW f \in FilePairs, CheckFiles(f)
      PROVE  Inv'
    BY <1>3 DEF CheckFiles, Probe, Inv
<1>4. CASE TestAnswered
    BY <1>4 DEF TestAnswered, Inv
<1>5. CASE Boot
    BY <1>5, BootInv
<1>6. CASE Crash
    <2>1. Dies /\ diskCfg' = diskCfg /\ Matched(diskSecrets')
        BY <1>6 DEF Crash, Inv
    <2> QED
        BY <2>1, CrashInv
<1>7. ASSUME NEW r, CrashInApply(r)
      PROVE  Inv'
    <2>1. Dies /\ diskCfg' = diskCfg /\ diskSecrets' = NextSecrets(r)
        BY <1>7 DEF CrashInApply
    <2>2. Matched(NextSecrets(r))
        BY NextSecretsFacts DEF Inv
    <2> QED
        BY <2>1, <2>2, CrashInv
<1>8. CASE UNCHANGED vars
    BY <1>8 DEF vars, Inv
<1> QED
    BY <1>1, <1>2, <1>3, <1>4, <1>5, <1>6, <1>7, <1>8 DEF Next

\* The invariant of every execution.
THEOREM Invariant == Spec => []Inv
    BY InitInv, NextInv, PTL DEF Spec

----------------------------------------------------------------------------
(* The properties *)

LEMMA EntriesApplied ==
    ASSUME Inv
    PROVE  /\ \A i \in DOMAIN cfg.certs : up /\ EntryValid(fs, cfg.certs[i])
           /\ \A i, j \in DOMAIN cfg.certs : i # j => ~Clash(fs, cfg.certs[i], cfg.certs[j])
<1>1. CASE up
    BY <1>1, ValidRules DEF Inv, Applied
<1>2. CASE ~up
    BY <1>2 DEF Inv, NoConfig
<1> QED
    BY <1>1, <1>2

\* Every remote entry has API keys, of the source it was given them for: the keys go
\* to no other server, for no other certificate (internal/web/server.go with
\* MutateConfigAndCredentials and validateRemoteCredentials).
THEOREM KeysStayBound == Spec => []KeysBound
<1>1. ASSUME Inv PROVE KeysBound
    <2> SUFFICES ASSUME NEW i \in DOMAIN cfg.certs, Remote(cfg.certs[i])
                 PROVE  /\ cfg.certs[i].name \in DOMAIN secrets
                        /\ secrets[cfg.certs[i].name].enteredFor = Identity(cfg.certs[i])
        BY DEF KeysBound, Active
    <2>1. Credentialed(cfg.certs, secrets)
        BY <1>1, EntriesApplied DEF Inv, Applied
    <2> QED
        BY <1>1, <2>1 DEF Inv, Matched, Credentialed
<1> QED
    BY <1>1, Invariant, PTL

\* There are keys for the remote entries only, in memory and in secrets.json, while
\* the process runs: also after it died between its two files (pruneSecrets in
\* MutateConfigAndCredentials and at startup).
THEOREM NoKeysStay == Spec => []NoKeysLeft
<1>1. ASSUME Inv PROVE NoKeysLeft
    <2>1. RemoteNames(cfg.certs) = {e.name : e \in {a \in Active : Remote(a)}}
        BY DEF RemoteNames, Active
    <2> QED
        BY <1>1, <2>1 DEF NoKeysLeft, Inv, Applied
<1> QED
    BY <1>1, Invariant, PTL

\* No two entries write the same file or decide about the fallback of the same
\* directory, through whatever links (isConfigConflict, path_policy.go).
THEOREM FilesDistinct == Spec => []DistinctFiles
<1>1. ASSUME Inv PROVE DistinctFiles
    <2>1. \A i \in DOMAIN cfg.certs : Destination(fs, cfg.certs[i]) = RealDir(cfg.certs[i])
        <3> SUFFICES ASSUME NEW i \in DOMAIN cfg.certs
                     PROVE  Destination(fs, cfg.certs[i]) = RealDir(cfg.certs[i])
            OBVIOUS
        <3>1. Destination(fs, cfg.certs[i]) # None
            BY <1>1, EntriesApplied DEF EntryValid
        <3> QED
            BY <3>1, WithinHolds, ApiAssumption DEF Destination, RealDir
    <2>2. \A i, j \in DOMAIN cfg.certs : i # j => ~Clash(fs, cfg.certs[i], cfg.certs[j])
        BY <1>1, EntriesApplied
    <2> QED
        BY <2>1, <2>2 DEF DistinctFiles, Clash
<1> QED
    BY <1>1, Invariant, PTL

\* No entry reads or writes outside of the operator's roots (resolveAllowedPath).
THEOREM StaysWithinRoots == Spec => []WithinRoots
<1>1. ASSUME Inv PROVE WithinRoots
    <2> DEFINE within(p, roots) ==
                   \E r \in ToSet(roots) : /\ None \notin {Resolve(fs, r), Resolve(fs, p)}
                                           /\ IsPrefix(Resolve(fs, r), Resolve(fs, p))
    <2>1. ASSUME NEW e \in Active
          PROVE  /\ within(e.dir, DestinationRoots)
                 /\ ~Remote(e) => within(e.certificate, SourceRoots) /\ within(e.privateKey, SourceRoots)
        <3>1. EntryValid(fs, e)
            BY <1>1, <2>1, EntriesApplied DEF Active
        <3>2. /\ Destination(fs, e) # None
              /\ ~Remote(e) => SourceFile(fs, e.certificate) # None /\ SourceFile(fs, e.privateKey) # None
            BY <3>1 DEF EntryValid, Remote, LocalRules
        <3> QED
            BY <3>2, WithinHolds, ApiAssumption DEF Destination, SourceFile
    <2> HIDE DEF within
    <2>2. \A e \in Active :
              /\ within(e.dir, DestinationRoots)
              /\ ~Remote(e) => within(e.certificate, SourceRoots) /\ within(e.privateKey, SourceRoots)
        BY <2>1
    <2> QED
        BY <2>2 DEF WithinRoots, within
<1> QED
    BY <1>1, Invariant, PTL

\* What a request has left is accepted by the next start, and means the same: the
\* rules of config.Load, secretstore and validateRemoteCredentials all hold of it.
THEOREM StartsAgain == Spec => []Restartable
<1>1. ASSUME Inv PROVE Restartable
    <2> SUFFICES ASSUME up
                 PROVE  /\ Load(fs, diskCfg) = cfg /\ Savable(diskSecrets)
                        /\ Credentialed(cfg.certs, diskSecrets)
        BY DEF Restartable
    <2>1. /\ Normal(cfg) = cfg /\ Validate(fs, cfg) = "ok" /\ diskCfg = cfg /\ diskSecrets = secrets
          /\ Credentialed(cfg.certs, secrets) /\ Savable(secrets)
        BY <1>1 DEF Inv, Applied
    <2>2. cfg # None
        BY <1>1, ApiAssumption DEF Inv
    <2> QED
        BY <2>1, <2>2 DEF Load
<1> QED
    BY <1>1, Invariant, PTL
----------------------------------------------------------------------------
(* Repeated requests *)

NewKeys(r) == [keys |-> <<Trim(r.keys[1]), Trim(r.keys[2])>>,
               boundTo |-> Identity(r.cert), enteredFor |-> Identity(r.cert)]

\* What an applied request has left that is still there.
Created(r) ==
    /\ r.op = "create" /\ IsPut(r) /\ ~KeysRefused(r)
    /\ \E i \in DOMAIN cfg.certs : cfg.certs[i] = NormalEntry(r.cert)
    /\ Remote(r.cert) => Has(cfg.certs, r.name)
Updated(r) ==
    /\ r.op = "update" /\ IsPut(r) /\ r.cert.name = r.name /\ ~KeysRefused(r) /\ ~RekeyRefused(r)
    /\ \E i \in DOMAIN cfg.certs : cfg.certs[i] = NormalEntry(r.cert) /\ cfg.certs[i].name = r.name
    /\ Remote(r.cert) => /\ r.cert.remote # None /\ r.name \in DOMAIN secrets
                         /\ secrets[r.name].boundTo = Identity(r.cert)
    /\ Replaces(r) => secrets[r.name] = NewKeys(r)
Deleted(r) == IsDrop(r) /\ ~Has(cfg.certs, r.name)
Posted(r) ==
    /\ IsPost(r) /\ ~r.keyed /\ cfg = Normal(r.all)
    /\ Credentialed(r.all.certs, secrets) /\ DOMAIN secrets \subseteq RemoteNames(r.all.certs)

IsKeyring(s) == s = [n \in DOMAIN s |-> s[n]]
CarriedOut(r) ==
    up /\ IsKeyring(secrets) /\ (Created(r) \/ Updated(r) \/ Deleted(r) \/ Posted(r))

LEMMA PlaceFound ==
    ASSUME NEW certs \in Seq(EntryType), NEW n, Has(certs, n)
    PROVE  Place(certs, n) \in DOMAIN certs /\ certs[Place(certs, n)].name = n
<1> DEFINE found == {i \in DOMAIN certs : certs[i].name = n}
<1>1. found \in SUBSET Nat /\ found # {}
    BY DEF Has
<1>2. Min(found) \in found
  <2> HIDE DEF found
  <2> QED
      BY <1>1, MinIn
<1> QED
    BY <1>2 DEF Place

\* An active configuration: no entry has a name twice, and normalization leaves it.
LEMMA ActiveFacts ==
    ASSUME Inv, up
    PROVE  /\ cfg = [certs |-> cfg.certs, level |-> cfg.level] /\ cfg.certs \in Seq(EntryType)
           /\ DOMAIN cfg.certs = 1..Len(cfg.certs) /\ Len(cfg.certs) \in Nat
           /\ NormalLevel(cfg.level) = cfg.level
           /\ \A i \in DOMAIN cfg.certs : /\ NormalEntry(cfg.certs[i]) = cfg.certs[i]
                                          /\ Trim(cfg.certs[i].name) = cfg.certs[i].name
           /\ \A i, j \in DOMAIN cfg.certs : cfg.certs[i].name = cfg.certs[j].name => i = j
           /\ Validate(fs, cfg) = "ok" /\ Credentialed(cfg.certs, secrets)
           /\ DOMAIN secrets = RemoteNames(cfg.certs)
<1>1. cfg \in ConfigType /\ Normal(cfg) = cfg /\ Applied(fs, cfg, secrets)
    BY DEF Inv, Applied
<1>2. /\ cfg = [certs |-> cfg.certs, level |-> cfg.level] /\ cfg.certs \in Seq(EntryType)
      /\ DOMAIN cfg.certs = 1..Len(cfg.certs) /\ Len(cfg.certs) \in Nat
    BY <1>1 DEF ConfigType
<1>3. /\ cfg.level = NormalLevel(cfg.level)
      /\ cfg.certs = [i \in DOMAIN cfg.certs |-> NormalEntry(cfg.certs[i])]
    BY <1>1 DEF Normal
<1>4. \A i \in DOMAIN cfg.certs : NormalEntry(cfg.certs[i]) = cfg.certs[i]
    BY <1>3
<1>5. \A i \in DOMAIN cfg.certs : Trim(cfg.certs[i].name) = cfg.certs[i].name
  <2> SUFFICES ASSUME NEW i \in DOMAIN cfg.certs PROVE Trim(cfg.certs[i].name) = cfg.certs[i].name
      OBVIOUS
  <2>1. cfg.certs[i] \in EntryType
      BY <1>2
  <2> QED
      BY <1>4, <2>1, EntryNormal
<1>6. \A i, j \in DOMAIN cfg.certs : cfg.certs[i].name = cfg.certs[j].name => i = j
    BY EntriesApplied DEF Clash
<1> QED
    BY <1>1, <1>2, <1>3, <1>4, <1>5, <1>6 DEF Applied

\* A prune that drops nothing.
LEMMA PruneSame ==
    ASSUME NEW certs, NEW s, IsKeyring(s), DOMAIN s \subseteq RemoteNames(certs)
    PROVE  Prune(certs, s) = s
<1>1. {m \in DOMAIN s : \E i \in DOMAIN certs : certs[i].name = m /\ Remote(certs[i])} = DOMAIN s
    BY DEF RemoteNames
<1>2. Prune(certs, s) = [n \in DOMAIN s |-> s[n]]
    BY <1>1 DEF Prune
<1> QED
    BY <1>2 DEF IsKeyring

LEMMA CreatedAgain ==
    ASSUME Inv, CarriedOut(done), Created(done)
    PROVE  Verdict(done) = "conflict"
<1> DEFINE r == done
           c == Candidate(cfg, r)
<1>1. r.op = "create" /\ IsPut(r) /\ ~KeysRefused(r) /\ r.name = r.cert.name /\ r.cert \in EntryType
    BY DEF Created, IsPut
<1>2. CASE Has(cfg.certs, r.name)
    BY <1>1, <1>2 DEF Verdict, Refusal
<1>3. CASE ~Has(cfg.certs, r.name)
  <2> USE DEF CarriedOut
  <2>0. ~Remote(r.cert)
      BY <1>3 DEF Created
  <2>1. Refusal(r) = "none"
      BY <1>1, <1>3, <2>0 DEF Refusal, RekeyRefused, Supplies, Forgets
  <2>2. /\ c = [certs |-> Append(cfg.certs, r.cert), level |-> cfg.level]
        /\ c.certs = Append(cfg.certs, r.cert) /\ DOMAIN c.certs = 1..(Len(cfg.certs) + 1)
        /\ \A i \in DOMAIN cfg.certs : c.certs[i] = cfg.certs[i]
        /\ c.certs[Len(cfg.certs) + 1] = r.cert
    <3>1. c = [certs |-> Append(cfg.certs, r.cert), level |-> cfg.level]
        BY <1>1, ActiveFacts DEF Candidate
    <3> QED
        BY <1>1, <3>1, ActiveFacts
  <2>3. RemoteNames(c.certs) = RemoteNames(cfg.certs)
      BY <2>0, <2>2, ActiveFacts DEF RemoteNames
  <2>4. NextSecrets(r) = secrets
    <3>1. r.name \notin DOMAIN secrets
        BY <1>3, ActiveFacts DEF RemoteNames, Has
    <3>2. DOMAIN secrets \ {r.name} = DOMAIN secrets
        BY <3>1
    <3>3. Rekey(secrets, r) = secrets
        BY <1>1, <2>0, <3>2 DEF Rekey, Forgets, Without, IsKeyring
    <3> QED
        BY <2>3, <3>3, PruneSame, ActiveFacts DEF NextSecrets
  <2>5. Credentialed(c.certs, secrets)
      BY <2>0, <2>2, ActiveFacts DEF Credentialed
  <2>6. Validate(fs, Normal(c)) = "conflict"
    <3> DEFINE n == Normal(c)
               invalid == {i \in DOMAIN n.certs : ~EntryValid(fs, n.certs[i])}
               clashes == {i \in DOMAIN n.certs : \E j \in 1..(i - 1) : Clash(fs, n.certs[i], n.certs[j])}
    <3>1. /\ n.level = cfg.level /\ DOMAIN n.certs = 1..(Len(cfg.certs) + 1)
          /\ \A i \in DOMAIN cfg.certs : n.certs[i] = cfg.certs[i]
          /\ n.certs[Len(cfg.certs) + 1] = NormalEntry(r.cert)
        BY <2>2, ActiveFacts DEF Normal
    <3>2. PICK k \in DOMAIN cfg.certs : cfg.certs[k] = NormalEntry(r.cert)
        BY DEF Created
    <3>3. \A i \in DOMAIN cfg.certs : EntryValid(fs, cfg.certs[i])
        BY EntriesApplied
    <3>4. cfg.level \in {<<"debug">>, <<"info">>, <<"warn">>, <<"error">>}
        BY ActiveFacts DEF Validate
    <3> HIDE DEF n
    <3>5. invalid = {}
        BY <3>1, <3>2, <3>3, ActiveFacts
    <3>6. Len(cfg.certs) + 1 \in clashes
      <4>1. k \in 1..Len(cfg.certs) /\ Len(cfg.certs) \in Nat
          BY <3>2, ActiveFacts
      <4>2. k \in 1..((Len(cfg.certs) + 1) - 1) /\ Len(cfg.certs) + 1 \in DOMAIN n.certs
          BY <3>1, <4>1
      <4>3. Clash(fs, n.certs[Len(cfg.certs) + 1], n.certs[k])
          BY <3>1, <3>2 DEF Clash
      <4> QED
          BY <4>2, <4>3
    <3> HIDE DEF invalid, clashes
    <3>7. invalid \cup clashes # {} /\ Min(invalid \cup clashes) \notin invalid
        BY <3>5, <3>6
    <3> QED
        BY <3>1, <3>4, <3>7 DEF Validate, n, invalid, clashes
  <2> HIDE DEF c
  <2> QED
      BY <2>1, <2>4, <2>5, <2>6 DEF Verdict, ApplyVerdict, c
<1> QED
    BY <1>2, <1>3

LEMMA DeletedAgain ==
    ASSUME CarriedOut(done), Deleted(done)
    PROVE  Verdict(done) = "not found"
BY DEF Deleted, IsDrop, Verdict, Refusal

\* A candidate that is applied already.
LEMMA AppliedAgain ==
    ASSUME Inv, up, NEW r, Refusal(r) = "none", Normal(Candidate(cfg, r)) = cfg,
           NextSecrets(r) = secrets, Credentialed(Candidate(cfg, r).certs, secrets)
    PROVE  Verdict(r) = "ok" /\ Outcome(r) = <<cfg, secrets>>
BY ActiveFacts DEF Verdict, ApplyVerdict, Outcome

LEMMA PostedAgain ==
    ASSUME Inv, CarriedOut(done), Posted(done)
    PROVE  Verdict(done) = "ok" /\ Outcome(done) = <<cfg, secrets>>
<1>1. Refusal(done) = "none" /\ Candidate(cfg, done) = done.all /\ Rekey(secrets, done) = secrets
    BY DEF Posted, IsPost, Refusal, Candidate, Rekey
<1>2. NextSecrets(done) = secrets
    BY <1>1, PruneSame DEF NextSecrets, Posted, CarriedOut
<1> QED
    BY <1>1, <1>2, AppliedAgain DEF Posted, CarriedOut

LEMMA UpdatedAgain ==
    ASSUME Inv, CarriedOut(done), Updated(done)
    PROVE  Verdict(done) = "ok" /\ Outcome(done) = <<cfg, secrets>>
<1> DEFINE r == done
           c == Candidate(cfg, r)
<1> USE DEF CarriedOut
<1>1. PICK p \in DOMAIN cfg.certs : cfg.certs[p] = NormalEntry(r.cert) /\ cfg.certs[p].name = r.name
    BY DEF Updated
<1>2. r.op = "update" /\ r.cert.name = r.name /\ r.cert \in EntryType /\ Has(cfg.certs, r.name)
    BY <1>1 DEF Updated, IsPut, Has
<1>3. Place(cfg.certs, r.name) = p
    BY <1>1, <1>2, PlaceFound, ActiveFacts
<1>4. /\ c = [certs |-> [cfg.certs EXCEPT ![p] = r.cert], level |-> cfg.level]
      /\ c.certs = [cfg.certs EXCEPT ![p] = r.cert] /\ DOMAIN c.certs = DOMAIN cfg.certs
  <2>1. c = [cfg EXCEPT !.certs = [cfg.certs EXCEPT ![p] = r.cert]]
      BY <1>2, <1>3 DEF Candidate, ReplaceAt
  <2> QED
      BY <2>1, ActiveFacts
<1>5. Normal(c) = cfg
  <2>1. \A i \in DOMAIN cfg.certs : NormalEntry(c.certs[i]) = cfg.certs[i]
      BY <1>1, <1>4, ActiveFacts
  <2>2. [i \in DOMAIN c.certs |-> NormalEntry(c.certs[i])] = cfg.certs
      BY <1>4, <2>1, ActiveFacts
  <2> QED
      BY <1>4, <2>2, ActiveFacts DEF Normal
<1>6. \A i \in DOMAIN cfg.certs : /\ c.certs[i].name = cfg.certs[i].name
                                  /\ Remote(c.certs[i]) <=> Remote(cfg.certs[i])
  <2>1. r.cert.name = cfg.certs[p].name /\ (Remote(r.cert) <=> Remote(cfg.certs[p]))
      BY <1>1, <1>2, EntryNormal
  <2> QED
      BY <1>4, <2>1
<1>7. RemoteNames(c.certs) = RemoteNames(cfg.certs)
    BY <1>4, <1>6 DEF RemoteNames
<1>8. Rekey(secrets, r) = secrets
  <2>1. CASE Forgets(r)
    <3>1. ~Remote(cfg.certs[p])
        BY <1>1, <1>2, <2>1, EntryNormal DEF Forgets
    <3>2. r.name \notin DOMAIN secrets
        BY <1>1, <3>1, ActiveFacts DEF RemoteNames
    <3>3. DOMAIN secrets \ {r.name} = DOMAIN secrets
        BY <3>2
    <3> QED
        BY <1>2, <2>1, <3>3 DEF Rekey, Without, IsKeyring
  <2>2. CASE ~Forgets(r) /\ Replaces(r)
    <3>1. r.name \in DOMAIN secrets /\ secrets[r.name] = NewKeys(r)
        BY <1>2, <2>2 DEF Updated, Forgets
    <3>2. With(secrets, r.name, NewKeys(r)) = secrets
      <4>1. DOMAIN secrets \cup {r.name} = DOMAIN secrets
          BY <3>1
      <4>2. [m \in DOMAIN secrets |-> IF m = r.name THEN NewKeys(r) ELSE secrets[m]]
                = [m \in DOMAIN secrets |-> secrets[m]]
          BY <3>1
      <4> QED
          BY <4>1, <4>2 DEF With, IsKeyring
    <3> QED
        BY <1>2, <2>2, <3>2 DEF Rekey, NewKeys
  <2>3. CASE ~Forgets(r) /\ ~Replaces(r)
      BY <2>3 DEF Rekey
  <2> QED
      BY <2>1, <2>2, <2>3
<1>9. NextSecrets(r) = secrets
    BY <1>7, <1>8, PruneSame, ActiveFacts DEF NextSecrets
<1>10. Credentialed(c.certs, secrets)
  <2> SUFFICES ASSUME NEW i \in DOMAIN cfg.certs, Remote(c.certs[i])
               PROVE  /\ c.certs[i].remote # None /\ c.certs[i].name \in DOMAIN secrets
                      /\ secrets[c.certs[i].name].boundTo = Identity(c.certs[i])
      BY <1>4 DEF Credentialed
  <2>1. CASE i = p
      BY <1>2, <1>4, <2>1, ActiveFacts DEF Updated
  <2>2. CASE i # p
      BY <1>4, <2>2, ActiveFacts DEF Credentialed
  <2> QED
      BY <2>1, <2>2
<1>11. Refusal(r) = "none"
    BY <1>2 DEF Refusal, Updated
<1> QED
    BY <1>5, <1>9, <1>10, <1>11, AppliedAgain

\* What has been carried out may be asked for again.
LEMMA Repeats ==
    ASSUME Inv, done # None => CarriedOut(done)
    PROVE  RetryHarmless
<1> SUFFICES ASSUME done # None
             PROVE  /\ Verdict(done) = CASE done.op = "create" -> "conflict"
                                         [] done.op = "delete" -> "not found"
                                         [] OTHER -> "ok"
                    /\ Verdict(done) = "ok" => Outcome(done) = <<cfg, secrets>>
    BY DEF RetryHarmless
<1>1. CASE Created(done)
    BY <1>1, CreatedAgain DEF Created
<1>2. CASE Deleted(done)
    BY <1>2, DeletedAgain DEF Deleted, IsDrop
<1>3. CASE Updated(done)
    BY <1>3, UpdatedAgain DEF Updated
<1>4. CASE Posted(done)
    BY <1>4, PostedAgain DEF Posted, IsPost
<1> QED
    BY <1>1, <1>2, <1>3, <1>4 DEF CarriedOut

\* What is left after an element is removed was there before, at another place.
LEMMA RemovedElements ==
    ASSUME NEW T, NEW q \in Seq(T), NEW n \in 1..Len(q)
    PROVE  \A i \in DOMAIN RemoveAt(q, n) :
               \E j \in DOMAIN q : j # n /\ RemoveAt(q, n)[i] = q[j]
<1> DEFINE a == SubSeq(q, 1, n - 1)
           b == SubSeq(q, n + 1, Len(q))
<1>1. Len(q) \in Nat /\ DOMAIN q = 1..Len(q) /\ n \in Int
    OBVIOUS
<1>2. a \in Seq(T) /\ Len(a) = n - 1 /\ \A i \in 1..(n - 1) : a[i] = q[i]
  <2>1. n - 1 \in Int /\ \A i \in 1..(n - 1) : q[i] \in T
      BY <1>1
  <2>2. /\ a \in Seq(T)
        /\ Len(a) = IF 1 <= n - 1 THEN n - 1 - 1 + 1 ELSE 0
        /\ \A i \in 1..(n - 1 - 1 + 1) : a[i] = q[1 + i - 1]
      BY <1>1, <2>1, SubSeqProperties
  <2> HIDE DEF a
  <2> QED
      BY <1>1, <2>2
<1>3. b \in Seq(T) /\ Len(b) = Len(q) - n /\ \A i \in 1..(Len(q) - n) : b[i] = q[n + i]
  <2>1. n + 1 \in Int /\ \A i \in (n + 1)..Len(q) : q[i] \in T
      BY <1>1
  <2>2. /\ b \in Seq(T)
        /\ Len(b) = IF n + 1 <= Len(q) THEN Len(q) - (n + 1) + 1 ELSE 0
        /\ \A i \in 1..(Len(q) - (n + 1) + 1) : b[i] = q[n + 1 + i - 1]
      BY <1>1, <2>1, SubSeqProperties
  <2> HIDE DEF b
  <2>3. Len(b) = Len(q) - n
    <3>1. n <= Len(q) /\ Len(q) - (n + 1) + 1 = Len(q) - n
        BY <1>1
    <3>2. CASE n + 1 <= Len(q)
        BY <2>2, <3>1, <3>2
    <3>3. CASE ~(n + 1 <= Len(q))
      <4>1. \A k \in Nat : n \in 1..k /\ ~(n + 1 <= k) => k - n = 0
          OBVIOUS
      <4>2. Len(q) - n = 0
          BY <1>1, <3>3, <4>1
      <4> QED
          BY <2>2, <3>3, <4>2
    <3> QED
        BY <3>2, <3>3
  <2>4. ASSUME NEW i \in 1..(Len(q) - n) PROVE b[i] = q[n + i]
    <3>1. i \in 1..(Len(q) - (n + 1) + 1) /\ n + 1 + i - 1 = n + i
        BY <1>1
    <3> QED
        BY <2>2, <3>1
  <2> QED
      BY <2>2, <2>3, <2>4
<1>4. RemoveAt(q, n) = a \o b
    BY DEF RemoveAt
<1> HIDE DEF a, b
<1>5. DOMAIN (a \o b) = 1..(Len(a) + Len(b))
  <2>1. a \o b \in Seq(T) /\ Len(a \o b) = Len(a) + Len(b)
      BY <1>2, <1>3, ConcatProperties
  <2>2. DOMAIN (a \o b) = 1..Len(a \o b)
      BY <2>1
  <2> QED
      BY <2>1, <2>2
<1>6. \A i \in 1..(Len(a) + Len(b)) :
          (a \o b)[i] = IF i <= Len(a) THEN a[i] ELSE b[i - Len(a)]
    BY <1>2, <1>3, ConcatProperties
<1> SUFFICES ASSUME NEW i \in 1..(Len(q) - 1)
             PROVE  \E j \in 1..Len(q) : j # n /\ (a \o b)[i] = q[j]
  <2>1. DOMAIN (a \o b) = 1..(Len(q) - 1)
      BY <1>1, <1>2, <1>3, <1>5
  <2> QED
      BY <1>1, <1>4, <2>1
<1>7. CASE i <= n - 1
  <2>1. (a \o b)[i] = q[i] /\ i \in 1..Len(q) /\ i # n
      BY <1>1, <1>2, <1>3, <1>6, <1>7
  <2> QED
      BY <2>1
<1>8. CASE ~(i <= n - 1)
  <2>1. (a \o b)[i] = b[i - (n - 1)] /\ i - (n - 1) \in 1..(Len(q) - n)
      BY <1>1, <1>2, <1>3, <1>6, <1>8
  <2>2. b[i - (n - 1)] = q[i + 1] /\ i + 1 \in 1..Len(q) /\ i + 1 # n
      BY <1>1, <1>3, <1>8, <2>1
  <2> QED
      BY <2>1, <2>2
<1> QED
    BY <1>7, <1>8

\* An applied request is carried out.
LEMMA HandleCarries ==
    ASSUME Inv, Inv', up, NEW r, IsPut(r) \/ IsDrop(r) \/ IsPost(r), Handle(r), done' # None
    PROVE  done' = r /\ CarriedOut(r)'
<1> DEFINE c == Candidate(cfg, r)
           s == NextSecrets(r)
<1>1. Verdict(r) = "ok" /\ done' = r /\ up' = up /\ cfg' = Normal(c) /\ secrets' = s
    BY DEF Handle, Commit, Outcome
<1>2. Refusal(r) = "none" /\ Credentialed(c.certs, s)
    BY <1>1 DEF Verdict, ApplyVerdict, Refusal
<1>3. IsKeyring(s) /\ DOMAIN s = RemoteNames(Normal(c).certs)
  <2>1. IsKeyring(s)
      BY DEF NextSecrets, Prune, IsKeyring
  <2> QED
      BY <1>1, <2>1 DEF Inv, Applied
<1>4. /\ DOMAIN Normal(c).certs = DOMAIN c.certs
      /\ \A i \in DOMAIN c.certs : Normal(c).certs[i] = NormalEntry(c.certs[i])
    BY DEF Normal
<1>5. CASE r.op = "create"
  <2> DEFINE k == Len(cfg.certs) + 1
  <2>1. IsPut(r) /\ r.name = r.cert.name /\ r.cert \in EntryType /\ ~KeysRefused(r)
      BY <1>2, <1>5 DEF IsPut, IsDrop, IsPost, Refusal
  <2>2. c.certs = Append(cfg.certs, r.cert)
      BY <1>5, ActiveFacts DEF Candidate
  <2>3. k \in DOMAIN c.certs /\ c.certs[k] = r.cert
      BY <2>1, <2>2, ActiveFacts
  <2>4. k \in DOMAIN cfg'.certs /\ cfg'.certs[k] = NormalEntry(r.cert)
      BY <1>1, <1>4, <2>3
  <2>5. Remote(r.cert) => Has(cfg'.certs, r.name)
    <3> SUFFICES ASSUME Remote(r.cert) PROVE Has(cfg'.certs, r.name)
        OBVIOUS
    <3>1. r.name \in RemoteNames(Normal(c).certs)
        BY <1>2, <1>3, <2>1, <2>3 DEF Credentialed
    <3> QED
        BY <1>1, <3>1 DEF RemoteNames, Has
  <2>6. Created(r)'
      BY <1>5, <2>1, <2>4, <2>5 DEF Created
  <2> QED
      BY <1>1, <1>3, <2>6 DEF CarriedOut
<1>6. CASE r.op = "update"
  <2> DEFINE p == Place(cfg.certs, r.name)
  <2>1. /\ IsPut(r) /\ r.name = r.cert.name /\ r.cert \in EntryType /\ ~KeysRefused(r)
        /\ Has(cfg.certs, r.name) /\ ~RekeyRefused(r)
      BY <1>2, <1>6 DEF IsPut, IsDrop, IsPost, Refusal
  <2>2. p \in DOMAIN cfg.certs /\ cfg.certs[p].name = r.name
      BY <2>1, PlaceFound, ActiveFacts
  <2>3. Trim(r.name) = r.name
      BY <2>2, ActiveFacts
  <2>4. c.certs = [cfg.certs EXCEPT ![p] = r.cert]
      BY <1>6, ActiveFacts DEF Candidate, ReplaceAt
  <2> HIDE DEF p
  <2>5. p \in DOMAIN c.certs /\ c.certs[p] = r.cert
      BY <2>2, <2>4, ActiveFacts
  <2>6. NormalEntry(r.cert).name = r.name
      BY <2>1, <2>3, EntryNormal
  <2>7. p \in DOMAIN cfg'.certs /\ cfg'.certs[p] = NormalEntry(r.cert) /\ cfg'.certs[p].name = r.name
      BY <1>1, <1>4, <2>5, <2>6
  <2>8. Remote(r.cert) => /\ r.cert.remote # None /\ r.name \in DOMAIN s
                          /\ s[r.name].boundTo = Identity(r.cert)
      BY <1>2, <2>1, <2>5 DEF Credentialed
  <2>9. Replaces(r) => s[r.name] = NewKeys(r)
    <3> SUFFICES ASSUME Replaces(r) PROVE s[r.name] = NewKeys(r)
        OBVIOUS
    <3>1. Remote(r.cert) /\ ~Forgets(r)
        BY DEF Replaces, Forgets
    <3>2. Rekey(secrets, r) = With(secrets, r.name, NewKeys(r))
        BY <1>6, <3>1 DEF Rekey, NewKeys
    <3>3. r.name \in DOMAIN s /\ s = Prune(c.certs, With(secrets, r.name, NewKeys(r)))
        BY <2>8, <3>1, <3>2 DEF NextSecrets
    <3>4. s[r.name] = With(secrets, r.name, NewKeys(r))[r.name]
        BY <3>3 DEF Prune
    <3> QED
        BY <3>4 DEF With
  <2> HIDE DEF c, s
  <2>10. ~RekeyRefused(r)'
      BY <1>1, <2>1, <2>8 DEF RekeyRefused, Supplies, Forgets
  <2>11. Updated(r)'
      BY <1>1, <1>6, <2>1, <2>7, <2>8, <2>9, <2>10 DEF Updated
  <2> QED
      BY <1>1, <1>3, <2>11 DEF CarriedOut
<1>7. CASE r.op = "delete"
  <2> DEFINE p == Place(cfg.certs, r.name)
  <2>1. Has(cfg.certs, r.name)
      BY <1>2, <1>7 DEF Refusal
  <2>2. p \in DOMAIN cfg.certs /\ cfg.certs[p].name = r.name
      BY <2>1, PlaceFound, ActiveFacts
  <2>3. c.certs = RemoveAt(cfg.certs, p)
      BY <1>7, ActiveFacts DEF Candidate
  <2> HIDE DEF p
  <2>4. \A i \in DOMAIN c.certs : \E j \in DOMAIN cfg.certs : j # p /\ c.certs[i] = cfg.certs[j]
    <3>1. p \in 1..Len(cfg.certs) /\ cfg.certs \in Seq(EntryType)
        BY <2>2, ActiveFacts
    <3> QED
        BY <2>3, <3>1, RemovedElements
  <2>5. ~Has(cfg'.certs, r.name)
    <3> SUFFICES ASSUME NEW i \in DOMAIN c.certs PROVE NormalEntry(c.certs[i]).name # r.name
        BY <1>1, <1>4 DEF Has
    <3>1. PICK j \in DOMAIN cfg.certs : j # p /\ c.certs[i] = cfg.certs[j]
        BY <2>4
    <3> QED
        BY <2>2, <3>1, ActiveFacts
  <2> QED
      BY <1>1, <1>3, <1>7, <2>5 DEF CarriedOut, Deleted, IsDrop
<1>8. CASE r.op = "post"
  <2>1. IsPost(r) /\ ~r.keyed /\ c = r.all
      BY <1>2, <1>8 DEF IsPut, IsDrop, IsPost, Refusal, Candidate
  <2>2. DOMAIN s \subseteq RemoteNames(c.certs)
      BY PruneFacts DEF NextSecrets
  <2>3. Posted(r)'
      BY <1>1, <1>2, <2>1, <2>2 DEF Posted
  <2> QED
      BY <1>1, <1>3, <2>3 DEF CarriedOut
<1> QED
    BY <1>5, <1>6, <1>7, <1>8 DEF IsPut, IsDrop, IsPost

\* The request that is remembered was carried out, and nothing has changed since.
Carrying == done # None => CarriedOut(done)

LEMMA CarryingHolds ==
    ASSUME Inv, Inv', Carrying, [Next]_vars
    PROVE  Carrying'
<1>1. ASSUME NEW r, IsPut(r) \/ IsDrop(r) \/ IsPost(r), up, Handle(r)
      PROVE  Carrying'
  <2>1. CASE done' # None
    <3>1. done' = r /\ CarriedOut(r)'
        BY <1>1, <2>1, HandleCarries
    <3> QED
        BY <3>1 DEF Carrying, CarriedOut, Created, Updated, Deleted, Posted, IsPut, IsDrop, IsPost,
           KeysRefused, RekeyRefused, Supplies, Forgets, Replaces, NewKeys
  <2>2. CASE done' = None
      BY <2>2 DEF Carrying
  <2> QED
      BY <2>1, <2>2
<1>2. CASE Serving /\ Request
  <2>1. up
      BY <1>2 DEF Serving
  <2>2. ASSUME NEW e \in Entries, NEW k, Create(e, k) PROVE Carrying'
    <3>1. IsPut(Put("create", e.name, e, k))
        BY ApiAssumption DEF IsPut, Put
    <3> QED
        BY <1>1, <2>1, <2>2, <3>1 DEF Create
  <2>3. ASSUME NEW e \in Entries, NEW n, NEW k, Update(n, e, k) PROVE Carrying'
    <3>1. IsPut(Put("update", n, e, k))
        BY ApiAssumption DEF IsPut, Put
    <3> QED
        BY <1>1, <2>1, <2>3, <3>1 DEF Update
  <2>4. ASSUME NEW n, Delete(n) PROVE Carrying'
      BY <1>1, <2>1, <2>4 DEF Delete, Drop, IsDrop
  <2>5. ASSUME NEW d \in Posts, NEW keyed, Post(d, keyed) PROVE Carrying'
    <3>1. IsPost(Whole(d, keyed))
        BY ApiAssumption DEF IsPost, Whole
    <3> QED
        BY <1>1, <2>1, <2>5, <3>1 DEF Post
  <2>6. ASSUME NEW n, Operate(n) PROVE Carrying'
      BY <2>6 DEF Operate, Carrying
  <2> QED
      BY <1>2, <2>2, <2>3, <2>4, <2>5, <2>6 DEF Request
<1>3. CASE \/ \E t \in Tests : TestConnection(t)
           \/ \E f \in FilePairs : CheckFiles(f)
           \/ Boot \/ Crash \/ \E r \in Requests : CrashInApply(r)
    BY <1>3 DEF TestConnection, CheckFiles, Probe, Boot, Crash, CrashInApply, Dies, Carrying
<1>4. CASE TestAnswered \/ UNCHANGED vars
  <2>1. UNCHANGED <<up, cfg, secrets, done>>
      BY <1>4 DEF TestAnswered, vars
  <2> QED
      BY <2>1 DEF Carrying, CarriedOut, Created, Updated, Deleted, Posted, RekeyRefused
<1> QED
    BY <1>2, <1>3, <1>4 DEF Next

\* A client that repeats a request which was applied and whose answer it has lost changes
\* nothing, and is told so: a conflict for a creation, even if its name was normalized,
\* not found for a deletion, and success with the same result for the others
\* (credentialMutationFor, MutateConfigAndCredentials and isConfigConflict together).
THEOREM RetriesAreHarmless == Spec => []RetryHarmless
<1>1. Init => Carrying
    BY DEF Init, Carrying
<1>2. Inv /\ Carrying => RetryHarmless
    BY Repeats DEF Carrying
<1>3. Inv /\ Inv' /\ Carrying /\ [Next]_vars => Carrying'
    BY CarryingHolds
<1> QED
    BY Invariant, <1>1, <1>2, <1>3, PTL DEF Spec
=============================================================================
