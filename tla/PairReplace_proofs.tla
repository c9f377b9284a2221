------------------------- MODULE PairReplace_proofs -------------------------
(***************************************************************************)
(* Proofs about PairReplace, for every set of bundles, any number of       *)
(* errors and crashes and every set of failing operations without lstat    *)
(* (whose failure does lose the private key: see the run pair_lstat).      *)
(***************************************************************************)
EXTENDS PairReplace, TLAPS

\* What the files of one kind and role hold; the invariant speaks of nothing else.
Data(d, k, r) == {e.data : e \in At(d, k, r)}

----------------------------------------------------------------------------
(* The inductive invariant *)

Preparing == {"inspect", "reserve", "unmark", "move"}
Touching  == {"publish", "verify", "sync", "restore", "putback", "rollSync", "revalidate"}

\* prepareBackup has returned for kind k.
Inspected(k) == pc \in Touching \/ (pc \in Preparing /\ at = "key" /\ k = "cert")

\* Nothing is published over a file that was not moved aside.
Progress ==
    /\ pc \in {"clean", "stage"} => \A k \in Kinds : old[k] = "absent"
    /\ pc = "inspect" => old[at] = "absent"
    /\ pc \in {"reserve", "unmark", "move"} => old[at] = "kept"
    /\ pc \in Preparing /\ at = "cert" => old["key"] = "absent"
    /\ pc \in Preparing /\ at = "key" => old["cert"] # "kept"
    /\ pc \in {"publish", "verify", "sync"} => \A k \in Kinds : old[k] # "kept"
    /\ pc = "putback" => old[at] = "moved"
    /\ pc \in {"clean", "cleanup"} => at = "cert"

\* The roles of kind k whose files this call does not remove any more.
Secure(k) ==
    CASE pc \in {"idle", "clean", "stage", "drop", "finalSync"} -> {"live", "orphan"}
      [] pc = "cleanup" -> {"live", "backup", "orphan"}
      [] OTHER -> IF old[k] = "moved" THEN {"backup", "orphan"}
                  ELSE IF old[k] = "absent" /\ Inspected(k) THEN {"orphan"}
                  ELSE {"live", "orphan"}

Secured == \A o \in owed : \E r \in Secure(o[1]) : o[2] \in Data(dir, o[1], r)

\* The pair of before the call: where it was, or moved aside.
Former(k) == {e.data : e \in {f \in before : f.kind = k}}
Intact(k) == Data(dir, k, "live") = Former(k)
Aside(k)  == Data(dir, k, "backup") = Former(k)

\* Kind k has not been inspected, or has been restored.
Untouched(k) ==
    \/ pc \in {"clean", "stage"} \/ (pc \in Preparing /\ ~Inspected(k))
    \/ pc \in {"restore", "putback"} /\ at = "key" /\ k = "cert"
    \/ pc \in {"rollSync", "revalidate"}
    \/ pc \in {"cleanup", "idle"} /\ outcome = "failed"

Kept ==
    /\ \A k \in Kinds : Untouched(k) => rollbackErr \/ Intact(k)
    /\ pc \notin {"restore", "putback", "rollSync", "revalidate", "idle", "cleanup"} => ~rollbackErr
    /\ pc \in {"cleanup", "idle"} /\ outcome = "failed" => ~rollbackErr
    /\ pc \in Preparing \cup Touching => \A k \in Kinds :
          /\ old[k] = "kept" => Intact(k)
          /\ old[k] = "moved" => Aside(k)
          /\ old[k] = "absent" /\ Inspected(k) => Former(k) = {}

\* The new pair, and the files a successful call leaves.
Installed(d) == \A k \in Kinds : Data(d, k, "live") = {want}

Result ==
    /\ pc \notin {"idle", "cleanup"} => outcome = "running"
    /\ pc = "cleanup" => outcome \in {"ok", "leftover", "failed", "broken"}
    /\ pc = "sync" => Installed(dir)
    /\ \/ pc \in {"drop", "finalSync"}
       \/ pc \in {"cleanup", "idle"} /\ outcome \in {"ok", "leftover"}
       => \A d \in unsynced : Installed(d)

Unstaged(k) ==
    \/ pc \in {"verify", "sync", "drop", "finalSync"} \/ (pc = "publish" /\ at = "key" /\ k = "cert")
    \/ pc \in {"cleanup", "idle"} /\ outcome = "ok"

NoBackup(k) ==
    \/ pc \in {"idle", "clean", "stage", "finalSync"} \/ (pc = "cleanup" /\ outcome = "ok")
    \/ pc \in {"inspect", "reserve", "move"} /\ k = at
    \/ pc \in Preparing /\ at = "cert" /\ k = "key"
    \/ Inspected(k) /\ old[k] = "absent"
    \/ pc = "drop" /\ (old[k] # "moved" \/ (at = "key" /\ k = "cert"))

Tidy == \A k \in Kinds : /\ Unstaged(k) => Data(dir, k, "stage") = {}
                         /\ NoBackup(k) => Data(dir, k, "backup") = {}

\* What is live, or may become it, is of a bundle.
Written ==
    /\ want \in Bundles \/ (pc = "idle" /\ outcome \in {"none", "crashed"})
    /\ \A e \in before : e.role = "live" /\ e.data \in Bundles
    /\ \A d \in unsynced, k \in Kinds : Data(d, k, "live") \cup Data(d, k, "stage") \subseteq Bundles

Local == Progress /\ Secured /\ Kept /\ Result /\ Tidy /\ Written

IInv == TypeOK /\ NothingLost /\ Local
----------------------------------------------------------------------------
(* The operators of PairReplace, in terms of Data *)

LEMMA DataFiles ==
    ASSUME NEW d \in SUBSET Files, NEW k, NEW r
    PROVE  /\ Data(d, k, r) \subseteq Bundles \cup {Empty}
           /\ \A b : b \in Data(d, k, r) <=> File(k, r, b) \in d
<1>1. ASSUME NEW b, b \in Data(d, k, r)
      PROVE  b \in Bundles \cup {Empty} /\ File(k, r, b) \in d
  <2>1. PICK e \in d : e.kind = k /\ e.role = r /\ e.data = b  BY <1>1 DEF Data, At
  <2>2. e = [kind |-> k, role |-> r, data |-> b]  BY <2>1 DEF Files
  <2> QED  BY <2>1, <2>2 DEF Files, File
<1>2. ASSUME NEW b, File(k, r, b) \in d
      PROVE  b \in Data(d, k, r)
  <2>1. /\ File(k, r, b).kind = k /\ File(k, r, b).role = r
        /\ File(k, r, b).data = b  BY DEF File
  <2>2. File(k, r, b) \in At(d, k, r)  BY <1>2, <2>1 DEF At
  <2> QED  BY <2>1, <2>2 DEF Data
<1> QED  BY <1>1, <1>2

LEMMA FileFields ==
    ASSUME NEW k, NEW r, NEW b
    PROVE  File(k, r, b).kind = k /\ File(k, r, b).role = r /\ File(k, r, b).data = b
BY DEF File

\* Two sets of files are compared by what they hold for each kind and role.
LEMMA DataSame ==
    ASSUME NEW d, NEW f, NEW k, NEW r,
           \A e : e.kind = k /\ e.role = r => (e \in d <=> e \in f)
    PROVE  Data(d, k, r) = Data(f, k, r)
<1>1. At(d, k, r) = At(f, k, r)  BY DEF At
<1> QED  BY <1>1 DEF Data

LEMMA RenameFiles ==
    ASSUME NEW d \in SUBSET Files, NEW k \in Kinds, NEW from \in Roles, NEW to \in Roles
    PROVE  Rename(d, k, from, to) \subseteq Files
<1>1. \A f \in At(d, k, from) : File(k, to, f.data) \in Files  BY DEF At, File, Files
<1> QED  BY <1>1 DEF Rename

LEMMA DataRename ==
    ASSUME NEW d, NEW k, NEW from, NEW to, from # to, NEW k2, NEW r2
    PROVE  Data(Rename(d, k, from, to), k2, r2) =
           IF k2 = k /\ r2 = from THEN {}
           ELSE IF k2 = k /\ r2 = to THEN Data(d, k, from)
           ELSE Data(d, k2, r2)
<1> DEFINE n == Rename(d, k, from, to)
<1>1. \A e : e \in n <=> \/ e \in d /\ ~(e.kind = k /\ e.role \in {from, to})
                         \/ \E f \in At(d, k, from) : e = File(k, to, f.data)
  BY DEF Rename
<1>2. Data(n, k, from) = {}
  <2>1. \A e \in n : ~(e.kind = k /\ e.role = from)  BY <1>1, FileFields
  <2> QED  BY <2>1 DEF Data, At
<1>3. Data(n, k, to) = Data(d, k, from)
  <2>1. ASSUME NEW b, b \in Data(n, k, to) PROVE b \in Data(d, k, from)
    <3>1. PICK e \in n : e.kind = k /\ e.role = to /\ e.data = b  BY <2>1 DEF Data, At
    <3>2. PICK f \in At(d, k, from) : e = File(k, to, f.data)  BY <1>1, <3>1
    <3> QED  BY <3>1, <3>2, FileFields DEF Data
  <2>2. ASSUME NEW b, b \in Data(d, k, from) PROVE b \in Data(n, k, to)
    <3>1. PICK f \in At(d, k, from) : f.data = b  BY <2>2 DEF Data
    <3>2. File(k, to, b) \in n  BY <1>1, <3>1
    <3>3. File(k, to, b) \in At(n, k, to)  BY <3>2, FileFields DEF At
    <3> QED  BY <3>3, FileFields DEF Data
  <2> QED  BY <2>1, <2>2
<1>4. CASE k2 # k \/ r2 \notin {from, to}
  <2>1. \A e : e.kind = k2 /\ e.role = r2 => (e \in n <=> e \in d)
    BY <1>1, <1>4, FileFields
  <2> HIDE DEF n
  <2>2. Data(n, k2, r2) = Data(d, k2, r2)  BY <2>1, DataSame
  <2> QED  BY <1>4, <2>2 DEF n
<1>5. CASE k2 = k /\ r2 = from  BY <1>2, <1>5
<1>6. CASE k2 = k /\ r2 = to  BY <1>3, <1>6
<1> QED  BY <1>4, <1>5, <1>6

LEMMA DataUnlink ==
    ASSUME NEW d, NEW k, NEW r, NEW k2, NEW r2
    PROVE  Data(Unlink(d, k, r), k2, r2) =
           IF k2 = k /\ r2 = r THEN {} ELSE Data(d, k2, r2)
<1> DEFINE n == Unlink(d, k, r)
<1>1. \A e : e \in n <=> e \in d /\ ~(e.kind = k /\ e.role = r)  BY DEF Unlink, At
<1> HIDE DEF n
<1>2. CASE k2 = k /\ r2 = r
  <2>1. Data(n, k, r) = {}  BY <1>1 DEF Data, At
  <2> QED  BY <1>2, <2>1 DEF n
<1>3. CASE k2 # k \/ r2 # r
  <2>1. \A e : e.kind = k2 /\ e.role = r2 => (e \in n <=> e \in d)  BY <1>1, <1>3
  <2>2. Data(n, k2, r2) = Data(d, k2, r2)  BY <2>1, DataSame
  <2> QED  BY <1>3, <2>2 DEF n
<1> QED  BY <1>2, <1>3

\* One more file.
Add(d, k, r, b) == d \cup {File(k, r, b)}

LEMMA DataAdd ==
    ASSUME NEW d, NEW k, NEW r, NEW b, NEW k2, NEW r2
    PROVE  Data(Add(d, k, r, b), k2, r2) =
           IF k2 = k /\ r2 = r THEN Data(d, k, r) \cup {b} ELSE Data(d, k2, r2)
<1> DEFINE n == Add(d, k, r, b)
<1> USE DEF Add
<1>1. CASE k2 = k /\ r2 = r
  <2>1. At(n, k, r) = At(d, k, r) \cup {File(k, r, b)}  BY FileFields DEF At
  <2> HIDE DEF n
  <2>2. \A c : c \in Data(n, k, r) <=> c \in Data(d, k, r) \/ c = b
    BY <2>1, FileFields DEF Data
  <2>3. Data(n, k, r) = Data(d, k, r) \cup {b}  BY <2>2
  <2> QED  BY <1>1, <2>3 DEF n
<1>2. CASE k2 # k \/ r2 # r
  <2>1. \A e : e.kind = k2 /\ e.role = r2 => (e \in n <=> e \in d)  BY <1>2, FileFields
  <2>2. Data(n, k2, r2) = Data(d, k2, r2)  BY <2>1, DataSame
  <2> QED  BY <1>2, <2>2
<1> QED  BY <1>1, <1>2

LEMMA FileIn ==
    ASSUME NEW k \in Kinds, NEW r \in Roles, NEW b \in Bundles \cup {Empty}
    PROVE  File(k, r, b) \in Files
BY DEF File, Files

\* cleanupStaging, whatever it manages to remove.
LEMMA DataUnstage ==
    ASSUME NEW d \in SUBSET Files, NEW gone \in SUBSET Staged(d)
    PROVE  LET n == d \ gone IN
           /\ n \subseteq Files
           /\ gone = Staged(d) => \A k : Data(n, k, "stage") = {}
           /\ \A k : Data(n, k, "stage") \subseteq Data(d, k, "stage")
           /\ \A k, r : r # "stage" => Data(n, k, r) = Data(d, k, r)
<1> DEFINE n == d \ gone
<1>1. \A e \in gone : e.role = "stage"  BY DEF Staged
<1>2. \A k : Data(n, k, "stage") \subseteq Data(d, k, "stage")  BY DEF Data, At
<1>3. ASSUME gone = Staged(d), NEW k PROVE Data(n, k, "stage") = {}
  BY <1>3 DEF Data, At, Staged
<1>4. ASSUME NEW k, NEW r, r # "stage" PROVE Data(n, k, r) = Data(d, k, r)
  <2>1. \A e : e.kind = k /\ e.role = r => (e \in n <=> e \in d)  BY <1>1, <1>4
  <2> QED  BY <2>1, DataSame
<1> QED  BY <1>2, <1>3, <1>4

LEMMA DataRetire ==
    ASSUME NEW d \in SUBSET Files
    PROVE  /\ Retire(d) \subseteq Files
           /\ \A k : Data(Retire(d), k, "backup") = {}
           /\ \A k : Data(Retire(d), k, "orphan") = Data(d, k, "orphan") \cup Data(d, k, "backup")
           /\ \A k : /\ Data(Retire(d), k, "live") = Data(d, k, "live")
                     /\ Data(Retire(d), k, "stage") = Data(d, k, "stage")
<1> DEFINE new(e) == IF e.role = "backup" THEN File(e.kind, "orphan", e.data) ELSE e
           n == Retire(d)
<1>1. \A e : e \in n <=> \E f \in d : e = new(f)  BY DEF Retire
<1>2. ASSUME NEW f \in d
      PROVE  /\ new(f) \in Files /\ new(f).kind = f.kind /\ new(f).data = f.data
             /\ f.role = "backup" => new(f).role = "orphan"
             /\ f.role # "backup" => new(f) = f
  <2>1. f \in Files  OBVIOUS
  <2>2. CASE f.role = "backup"
    <3>1. new(f) = File(f.kind, "orphan", f.data)  BY <2>2
    <3>2. new(f) \in Files  BY <2>1, <3>1 DEF File, Files, Roles
    <3> QED  BY <2>2, <3>1, <3>2, FileFields
  <2>3. CASE f.role # "backup"  BY <2>1, <2>3
  <2> QED  BY <2>2, <2>3
<1> HIDE DEF new, n
<1>3. n \subseteq Files  BY <1>1, <1>2
<1>4. ASSUME NEW k PROVE Data(n, k, "backup") = {}
  <2>1. \A e \in n : e.role # "backup"
    <3> SUFFICES ASSUME NEW e \in n PROVE e.role # "backup"  OBVIOUS
    <3>1. PICK f \in d : e = new(f)  BY <1>1
    <3> QED  BY <1>2, <3>1
  <2> QED  BY <2>1 DEF Data, At
<1>5. ASSUME NEW k PROVE Data(n, k, "orphan") = Data(d, k, "orphan") \cup Data(d, k, "backup")
  <2>1. ASSUME NEW b, b \in Data(n, k, "orphan")
        PROVE  b \in Data(d, k, "orphan") \cup Data(d, k, "backup")
    <3>1. PICK e \in n : e.kind = k /\ e.role = "orphan" /\ e.data = b  BY <2>1 DEF Data, At
    <3>2. PICK f \in d : e = new(f)  BY <1>1
    <3>3. f.kind = k /\ f.data = b /\ f.role \in {"orphan", "backup"}  BY <1>2, <3>1, <3>2
    <3> QED  BY <3>3 DEF Data, At
  <2>2. ASSUME NEW b, b \in Data(d, k, "orphan") \cup Data(d, k, "backup")
        PROVE  b \in Data(n, k, "orphan")
    <3>1. PICK f \in d : f.kind = k /\ f.role \in {"orphan", "backup"} /\ f.data = b
      BY <2>2 DEF Data, At
    <3>2. new(f) \in n  BY <1>1
    <3>3. new(f).kind = k /\ new(f).data = b /\ new(f).role = "orphan"
      <4>1. CASE f.role = "backup"  BY <1>2, <3>1, <4>1
      <4>2. CASE f.role = "orphan"
        <5>1. f.role # "backup"  BY <4>2
        <5> QED  BY <1>2, <3>1, <4>2, <5>1
      <4> QED  BY <3>1, <4>1, <4>2
    <3> QED  BY <3>2, <3>3 DEF Data, At
  <2> QED  BY <2>1, <2>2
<1>6. ASSUME NEW k, NEW r, r \in {"live", "stage"} PROVE Data(n, k, r) = Data(d, k, r)
  <2>1. ASSUME NEW e, e.role = r PROVE e \in n <=> e \in d
    <3>1. e.role # "backup" /\ e.role # "orphan"  BY <1>6, <2>1
    <3> QED  BY <1>1, <1>2, <3>1
  <2> QED  BY <2>1, DataSame
<1>7. n = Retire(d)  BY DEF n
<1> QED  BY <1>3, <1>4, <1>5, <1>6, <1>7

LEMMA DataHolds ==
    ASSUME NEW d \in SUBSET Files, NEW b
    PROVE  Holds(d, b) <=> \A k \in Kinds : Data(d, k, "live") = {b}
<1>1. ASSUME NEW k \in Kinds
      PROVE  At(d, k, "live") = {File(k, "live", b)} <=> Data(d, k, "live") = {b}
  <2>1. \A e : e \in At(d, k, "live") <=> e \in d /\ e = File(k, "live", e.data)
    BY FileFields DEF At, Files, File
  <2>2. ASSUME At(d, k, "live") = {File(k, "live", b)} PROVE Data(d, k, "live") = {b}
    BY <2>2, FileFields DEF Data
  <2>3. ASSUME Data(d, k, "live") = {b} PROVE At(d, k, "live") = {File(k, "live", b)}
    <3>1. File(k, "live", b) \in At(d, k, "live")  BY <2>3, DataFiles, FileFields DEF At
    <3>2. \A e \in At(d, k, "live") : e.data = b  BY <2>3 DEF Data
    <3> QED  BY <2>1, <3>1, <3>2
  <2> QED  BY <2>2, <2>3
<1> QED  BY <1>1 DEF Holds

LEMMA DataKeeps ==
    ASSUME NEW d \in SUBSET Files, NEW k, NEW b
    PROVE  Keeps(d, k, b) <=> \E r \in {"live", "backup", "orphan"} : b \in Data(d, k, r)
BY DEF Keeps, Data, At, Files, Roles

LEMMA DataLive ==
    ASSUME NEW d \in SUBSET Files, NEW e \in SUBSET Files, \A f \in e : f.role = "live"
    PROVE  LiveIn(d) = e <=> \A k \in Kinds : Data(d, k, "live") = {f.data : f \in {g \in e : g.kind = k}}
<1>1. ASSUME NEW k \in Kinds, LiveIn(d) = e
      PROVE  Data(d, k, "live") = {f.data : f \in {g \in e : g.kind = k}}
  <2>1. At(d, k, "live") = {g \in e : g.kind = k}  BY <1>1 DEF At, LiveIn
  <2> QED  BY <2>1 DEF Data
<1>2. ASSUME \A k \in Kinds : Data(d, k, "live") = {f.data : f \in {g \in e : g.kind = k}}
      PROVE  LiveIn(d) = e
  <2>1. ASSUME NEW g \in LiveIn(d) PROVE g \in e
    <3>1. g \in d /\ g \in Files /\ g.role = "live" /\ g.kind \in Kinds  BY DEF LiveIn, Files
    <3>2. g.data \in Data(d, g.kind, "live")  BY <3>1 DEF Data, At
    <3>3. PICK f \in e : f.kind = g.kind /\ f.data = g.data  BY <1>2, <3>1, <3>2
    <3>4. f \in Files /\ f.role = "live"  OBVIOUS
    <3>5. f = g  BY <3>1, <3>3, <3>4 DEF Files
    <3> QED  BY <3>5
  <2>2. ASSUME NEW g \in e PROVE g \in LiveIn(d)
    <3>1. g \in Files /\ g.role = "live" /\ g.kind \in Kinds  BY DEF Files
    <3>2. g.data \in Data(d, g.kind, "live")  BY <1>2, <3>1
    <3>3. PICK f \in d : f.kind = g.kind /\ f.role = "live" /\ f.data = g.data
      BY <3>2 DEF Data, At
    <3>4. f \in Files  OBVIOUS
    <3>5. f = g  BY <3>1, <3>3, <3>4 DEF Files
    <3> QED  BY <3>3, <3>5 DEF LiveIn
  <2> QED  BY <2>1, <2>2
<1> QED  BY <1>1, <1>2
----------------------------------------------------------------------------
(* Type correctness *)

LEMMA TypeStep == ASSUME TypeOK, Written, Next PROVE TypeOK'
<1> USE DEF TypeOK, Succeed, Fail, Goto, Leave, Advance, Rollback, BackupFailed, disk, call
<1>1. \A d \in SUBSET Files : Change(d) => /\ dir' \subseteq Files /\ dir' \in unsynced'
                                         /\ unsynced' \subseteq SUBSET Files
  BY DEF Change
<1>2. Fsync => dir' \subseteq Files /\ dir' \in unsynced' /\ unsynced' \subseteq SUBSET Files
  BY DEF Fsync
<1>3. Kinds = {"cert", "key"} /\ at \in Kinds /\ MaxFaults \in Nat /\ MaxCrashes \in Nat
  BY ConstantsAssumption DEF Kinds
<1>4. Contents(dir) \subseteq Kinds \X Bundles
  <2>1. \A e \in LiveIn(dir) : e.data \in Data(dir, e.kind, "live")  BY DEF LiveIn, Data, At
  <2>2. dir \in unsynced  OBVIOUS
  <2>3. \A e \in LiveIn(dir) : e.kind \in Kinds  BY DEF LiveIn, Files
  <2>4. \A k \in Kinds : Data(dir, k, "live") \subseteq Bundles  BY <2>2 DEF Written
  <2>5. \A e \in LiveIn(dir) : e.data \in Bundles  BY <2>1, <2>3, <2>4
  <2> QED  BY <2>3, <2>5 DEF Contents
<1>5. CASE CleanStaging
  <2>1. \A gone \in SUBSET Staged(dir) : dir \ gone \in SUBSET Files  OBVIOUS
  <2>2. dir' \subseteq Files /\ dir' \in unsynced' /\ unsynced' \subseteq SUBSET Files
    BY <1>1, <1>5, <2>1 DEF CleanStaging
  <2>3. faults' \in 0..MaxFaults
    <3>1. faults' = faults \/ (faults < MaxFaults /\ faults' = faults + 1)
      BY <1>5, Zenon DEF CleanStaging
    <3> QED  BY <1>3, <3>1
  <2>4. /\ pc' \in {"stage", "idle"} /\ at' = "cert" /\ outcome' \in {outcome, "failed"}
        /\ UNCHANGED <<want, old, rollbackErr, before, owed, crashes>>
    BY <1>5 DEF CleanStaging
  <2> QED  BY <1>3, <2>2, <2>3, <2>4
<1>6. CASE Stage
  <2>1. dir \cup {File(at, "stage", want)} \in SUBSET Files  BY FileIn DEF Roles
  <2>2. dir' \subseteq Files /\ dir' \in unsynced' /\ unsynced' \subseteq SUBSET Files
    BY <1>1, <1>6, <2>1 DEF Stage
  <2> QED  BY <1>3, <1>6, <2>2 DEF Stage
<1>7. CASE Inspect
  BY <1>3, <1>7 DEF Inspect
<1>8. CASE Reserve
  <2>1. dir \cup {File(at, "backup", Empty)} \in SUBSET Files  BY FileIn DEF Roles
  <2>2. dir' \subseteq Files /\ dir' \in unsynced' /\ unsynced' \subseteq SUBSET Files
    BY <1>1, <1>8, <2>1 DEF Reserve
  <2> QED  BY <1>3, <1>8, <2>2 DEF Reserve
<1>9. CASE Unmark
  <2>1. Unlink(dir, at, "backup") \in SUBSET Files  BY DEF Unlink
  <2>2. dir' \subseteq Files /\ dir' \in unsynced' /\ unsynced' \subseteq SUBSET Files
    BY <1>1, <1>9, <2>1 DEF Unmark
  <2> QED  BY <1>3, <1>9, <2>2 DEF Unmark
<1>10. CASE MoveAside
  <2>1. Rename(dir, at, "live", "backup") \in SUBSET Files  BY RenameFiles DEF Roles
  <2>2. dir' \subseteq Files /\ dir' \in unsynced' /\ unsynced' \subseteq SUBSET Files
    BY <1>1, <1>10, <2>1 DEF MoveAside
  <2> QED  BY <1>3, <1>10, <2>2 DEF MoveAside
<1>11. CASE Publish
  <2>1. Rename(dir, at, "stage", "live") \in SUBSET Files  BY RenameFiles DEF Roles
  <2>2. dir' \subseteq Files /\ dir' \in unsynced' /\ unsynced' \subseteq SUBSET Files
    BY <1>1, <1>11, <2>1 DEF Publish
  <2> QED  BY <1>3, <1>11, <2>2 DEF Publish
<1>12. CASE Verify
  BY <1>3, <1>12 DEF Verify
<1>13. CASE SyncInstalled
  BY <1>2, <1>3, <1>4, <1>13 DEF SyncInstalled
<1>14. CASE DropBackup
  <2>1. Unlink(dir, at, "backup") \in SUBSET Files  BY DEF Unlink
  <2>2. dir' \subseteq Files /\ dir' \in unsynced' /\ unsynced' \subseteq SUBSET Files
    BY <1>1, <1>14, <2>1 DEF DropBackup
  <2> QED  BY <1>3, <1>14, <2>2 DEF DropBackup
<1>15. CASE FinalSync
  BY <1>2, <1>3, <1>15 DEF FinalSync
<1>16. CASE RestoreRemove
  <2>1. Unlink(dir, at, "live") \in SUBSET Files  BY DEF Unlink
  <2>2. dir' \subseteq Files /\ dir' \in unsynced' /\ unsynced' \subseteq SUBSET Files
    BY <1>1, <1>16, <2>1 DEF RestoreRemove
  <2>3. rollbackErr' \in BOOLEAN  BY <1>16, Zenon DEF RestoreRemove
  <2>4. faults' \in 0..MaxFaults  BY <1>3, <1>16 DEF RestoreRemove
  <2>5. /\ pc' \in {"restore", "rollSync", "putback"} /\ at' \in Kinds
        /\ UNCHANGED <<outcome, want, old, before, owed, crashes>>
    BY <1>3, <1>16 DEF RestoreRemove
  <2> QED  BY <2>2, <2>3, <2>4, <2>5
<1>17. CASE PutBack
  <2>1. Rename(dir, at, "backup", "live") \in SUBSET Files  BY RenameFiles DEF Roles
  <2>2. dir' \subseteq Files /\ dir' \in unsynced' /\ unsynced' \subseteq SUBSET Files
    BY <1>1, <1>17, <2>1 DEF PutBack
  <2>3. rollbackErr' \in BOOLEAN  BY <1>17, Zenon DEF PutBack
  <2>4. faults' \in 0..MaxFaults  BY <1>3, <1>17 DEF PutBack
  <2>5. old' \in [Kinds -> {"absent", "kept", "moved"}]  BY <1>17 DEF PutBack
  <2>6. /\ pc' \in {"restore", "rollSync"} /\ at' \in Kinds
        /\ UNCHANGED <<outcome, want, before, owed, crashes>>
    BY <1>3, <1>17 DEF PutBack
  <2> QED  BY <2>2, <2>3, <2>4, <2>5, <2>6
<1>18. CASE RollbackSync
  <2>1. rollbackErr' \in BOOLEAN  BY <1>18, Zenon DEF RollbackSync
  <2>2. dir' \subseteq Files /\ dir' \in unsynced' /\ unsynced' \subseteq SUBSET Files
    BY <1>2, <1>18 DEF RollbackSync
  <2>3. faults' \in 0..MaxFaults  BY <1>3, <1>18 DEF RollbackSync
  <2>4. /\ pc' = "revalidate" /\ at' \in Kinds
        /\ UNCHANGED <<outcome, want, old, before, owed, crashes>>
    BY <1>3, <1>18 DEF RollbackSync
  <2> QED  BY <2>1, <2>2, <2>3, <2>4
<1>19. CASE Revalidate
  BY <1>3, <1>19 DEF Revalidate
<1>20. CASE Finish
  <2>1. dir' \subseteq Files /\ dir' \in unsynced' /\ unsynced' \subseteq SUBSET Files
    <3>1. PICK gone \in SUBSET Staged(dir) : dir' = Retire(dir \ gone)  BY <1>20 DEF Finish
    <3>2. dir \ gone \in SUBSET Files  OBVIOUS
    <3>3. dir' \subseteq Files  BY <3>1, <3>2, DataRetire
    <3>4. {Retire(d) : d \in unsynced} \subseteq SUBSET Files  BY DataRetire
    <3>5. unsynced' = {Retire(d) : d \in unsynced} \cup {dir'}  BY <1>20 DEF Finish
    <3> QED  BY <3>3, <3>4, <3>5
  <2>2. faults' \in 0..MaxFaults
    <3>1. faults' = faults \/ (faults < MaxFaults /\ faults' = faults + 1)
      BY <1>20, Zenon DEF Finish
    <3> QED  BY <1>3, <3>1
  <2>3. pc' = "idle" /\ UNCHANGED <<at, want, old, rollbackErr, before, outcome, owed, crashes>>
    BY <1>20 DEF Finish
  <2> QED  BY <2>1, <2>2, <2>3
<1>21. CASE Crash
  <2>1. dir' \subseteq Files /\ unsynced' = {dir'}
    <3>1. PICK d \in unsynced : dir' = Retire(d)  BY <1>21 DEF Crash
    <3>2. d \in SUBSET Files  OBVIOUS
    <3> QED  BY <1>21, <3>1, <3>2, DataRetire DEF Crash
  <2> QED  BY <1>21, <2>1, ConstantsAssumption DEF Crash
<1>22. CASE \E b \in Wanted : Start(b)
  <2>1. PICK b \in Wanted : Start(b)  BY <1>22
  <2>2. LiveIn(dir) \subseteq Files /\ b \in Bundles  BY ConstantsAssumption DEF LiveIn
  <2>3. owed' \subseteq Kinds \X Bundles  BY <1>4, <2>1 DEF Start
  <2> QED  BY <1>3, <2>1, <2>2, <2>3 DEF Start
<1> QED  BY <1>5, <1>6, <1>7, <1>8, <1>9, <1>10, <1>11, <1>12, <1>13, <1>14, <1>15, <1>16,
         <1>17, <1>18, <1>19, <1>20, <1>21, <1>22 DEF Next, Replace
----------------------------------------------------------------------------
(* Each action preserves the local part of the invariant *)

LEMMA KindsAre == Kinds = {"cert", "key"}  BY DEF Kinds

\* Secured survives when the files it may rest on stay.
LEMMA SecuredStays ==
    ASSUME TypeOK, Secured, owed' = owed,
           \A k \in Kinds : \A r \in Secure(k) :
              r \in Secure(k)' /\ Data(dir, k, r) \subseteq Data(dir', k, r)
    PROVE  Secured'
<1> SUFFICES ASSUME NEW o \in owed PROVE \E r \in Secure(o[1])' : o[2] \in Data(dir', o[1], r)
  BY DEF Secured
<1>1. o[1] \in Kinds  BY DEF TypeOK
<1>2. PICK r \in Secure(o[1]) : o[2] \in Data(dir, o[1], r)  BY DEF Secured
<1> QED  BY <1>1, <1>2

LEMMA StageStep == ASSUME IInv, Stage PROVE Local'
<1> USE DEF Succeed, Fail, Goto, Leave, Advance, disk
<1>1. TypeOK /\ Local  BY DEF IInv
<1>2. /\ dir \subseteq Files /\ at \in Kinds /\ want \in Bundles \cup {Empty}
      /\ dir \in unsynced /\ "stage" \in Roles
  BY <1>1 DEF TypeOK, Roles
<1>3. /\ pc = "stage" /\ UNCHANGED <<want, old, rollbackErr, before, owed>>
      /\ \/ /\ pc' = "stage" /\ at' = "key" /\ at = "cert"
            /\ UNCHANGED outcome /\ unsynced' = unsynced \cup {dir'}
         \/ /\ pc' = "inspect" /\ at' = "cert"
            /\ UNCHANGED outcome /\ unsynced' = unsynced \cup {dir'}
         \/ pc' = "cleanup" /\ at' = "cert" /\ outcome' = "failed" /\ UNCHANGED disk
  BY <1>2, KindsAre DEF Stage, Change
<1>4. /\ \A k, r : r # "stage" => Data(dir', k, r) = Data(dir, k, r)
      /\ \A k \in Kinds : Data(dir', k, "stage") \subseteq Data(dir, k, "stage") \cup {want}
  <2>1. CASE dir' = Add(dir, at, "stage", want)  BY <2>1, DataAdd
  <2>2. CASE dir' = dir  BY <2>2
  <2> QED  BY <2>1, <2>2 DEF Stage, Change, Add
<1>5. Progress'
  BY <1>1, <1>3, KindsAre DEF Local, Progress, Preparing
<1>6. Secured'
  <2>1. \A k \in Kinds : Secure(k) = {"live", "orphan"}  BY <1>3 DEF Secure
  <2>2. \A k \in Kinds : {"live", "orphan"} \subseteq Secure(k)'
    BY <1>1, <1>3 DEF Local, Progress, Secure, Inspected, Preparing, Touching
  <2> QED  BY <1>1, <1>3, <1>4, <2>1, <2>2, SecuredStays DEF Local
<1>7. Kept'
  BY <1>1, <1>3, <1>4, KindsAre
  DEF Local, Progress, Kept, Untouched, Inspected, Preparing, Touching, Intact, Aside, Former
<1>8. Result'
  BY <1>1, <1>3 DEF Local, Result
<1>9. Tidy'
  BY <1>1, <1>3, <1>4, KindsAre
  DEF Local, Tidy, Unstaged, NoBackup, Inspected, Preparing, Touching
<1>10. Written'
  BY <1>1, <1>2, <1>3, <1>4 DEF Local, Written
<1> QED  BY <1>5, <1>6, <1>7, <1>8, <1>9, <1>10 DEF Local
LEMMA CleanStagingStep == ASSUME IInv, CleanStaging PROVE Local'
<1> USE DEF Succeed, Fail, Goto, disk
<1>1. TypeOK /\ Local  BY DEF IInv
<1>2. dir \in SUBSET Files /\ dir \in unsynced  BY <1>1 DEF TypeOK
<1>3. /\ pc = "clean" /\ UNCHANGED <<want, old, rollbackErr, before, owed>>
      /\ \/ /\ pc' = "stage" /\ at' = "cert" /\ UNCHANGED outcome
            /\ unsynced' = unsynced \cup {dir'}
         \/ /\ pc' = "idle" /\ at' = "cert" /\ outcome' = "failed"
            /\ UNCHANGED disk \/ unsynced' = unsynced \cup {dir'}
  BY DEF CleanStaging, Change
<1>4. /\ \A k, r : r # "stage" => Data(dir', k, r) = Data(dir, k, r)
      /\ \A k : Data(dir', k, "stage") \subseteq Data(dir, k, "stage")
  <2>1. PICK gone \in SUBSET Staged(dir) : dir' = dir \ gone
    <3>1. CASE UNCHANGED disk  BY <3>1
    <3>2. CASE dir' = dir \ Staged(dir)  BY <3>2
    <3>3. CASE \E gone \in SUBSET Staged(dir) : dir' = dir \ gone  BY <3>3
    <3> QED  BY <3>1, <3>2, <3>3 DEF CleanStaging, Change
  <2>2. \A k, r : r # "stage" => Data(dir \ gone, k, r) = Data(dir, k, r)
    BY <1>2, DataUnstage
  <2>3. \A k : Data(dir \ gone, k, "stage") \subseteq Data(dir, k, "stage")
    BY <1>2, DataUnstage
  <2> QED  BY <2>1, <2>2, <2>3
<1>5. Progress'
  BY <1>1, <1>3, KindsAre DEF Local, Progress, Preparing
<1>6. Secured'
  <2>1. \A k \in Kinds : Secure(k) = {"live", "orphan"} /\ Secure(k)' = {"live", "orphan"}
    BY <1>3 DEF Secure
  <2> QED  BY <1>1, <1>3, <1>4, <2>1, SecuredStays DEF Local
<1>7. Kept'
  BY <1>1, <1>3, <1>4, KindsAre
  DEF Local, Progress, Kept, Untouched, Inspected, Preparing, Touching, Intact, Aside, Former
<1>8. Result'
  BY <1>1, <1>3 DEF Local, Result
<1>9. Tidy'
  BY <1>1, <1>3, <1>4, KindsAre
  DEF Local, Tidy, Unstaged, NoBackup, Inspected, Preparing, Touching
<1>10. Written'
  BY <1>1, <1>2, <1>3, <1>4 DEF Local, Written
<1> QED  BY <1>5, <1>6, <1>7, <1>8, <1>9, <1>10 DEF Local

LEMMA InspectStep == ASSUME "lstat" \notin FaultyOps, IInv, Inspect PROVE Local'
<1> USE DEF Succeed, Fail, Goto, Advance, disk
<1>1. TypeOK /\ Local  BY DEF IInv
<1>2. /\ dir \in SUBSET Files /\ at \in Kinds
      /\ old \in [Kinds -> {"absent", "kept", "moved"}]
  BY <1>1 DEF TypeOK
<1>3. /\ pc = "inspect" /\ UNCHANGED <<disk, outcome, want, rollbackErr, before, owed>>
      /\ \/ /\ Data(dir, at, "live") = {} /\ UNCHANGED old
            /\ \/ pc' = "inspect" /\ at' = "key" /\ at = "cert"
               \/ pc' = "publish" /\ at' = "cert" /\ at = "key"
         \/ pc' = "reserve" /\ at' = at /\ old' = [old EXCEPT ![at] = "kept"]
  BY <1>2, KindsAre DEF Inspect, Data
<1>4. \A k \in Kinds : old'[k] = IF k = at /\ pc' = "reserve" THEN "kept" ELSE old[k]
  BY <1>2, <1>3
<1>5. Progress'
  BY <1>1, <1>2, <1>3, <1>4, KindsAre DEF Local, Progress, Preparing
<1>6. Secured'
  <2>1. \A k \in Kinds : Secure(k) = IF old[k] = "moved" THEN {"backup", "orphan"}
                                     ELSE IF old[k] = "absent" /\ Inspected(k) THEN {"orphan"}
                                     ELSE {"live", "orphan"}
    BY <1>3 DEF Secure
  <2>2. \A k \in Kinds : Secure(k)' = IF old'[k] = "moved" THEN {"backup", "orphan"}
                                      ELSE IF old'[k] = "absent" /\ Inspected(k)' THEN {"orphan"}
                                      ELSE {"live", "orphan"}
    BY <1>3 DEF Secure
  <2>3. ASSUME NEW k \in Kinds, NEW r \in Secure(k), Data(dir, k, r) # {} PROVE r \in Secure(k)'
    <3>1. CASE k # at
      BY <1>2, <1>3, <1>4, <2>1, <2>2, <2>3, <3>1, KindsAre DEF Inspected, Preparing, Touching
    <3>2. CASE k = at
      BY <1>1, <1>2, <1>3, <1>4, <2>1, <2>2, <2>3, <3>2, KindsAre
      DEF Local, Progress, Inspected, Preparing, Touching
    <3> QED  BY <3>1, <3>2
  <2>4. \A k, r : Data(dir', k, r) = Data(dir, k, r)  BY <1>3
  <2> SUFFICES ASSUME NEW o \in owed PROVE \E r \in Secure(o[1])' : o[2] \in Data(dir, o[1], r)
    BY <1>3, <2>4 DEF Secured
  <2>5. o[1] \in Kinds  BY <1>1 DEF TypeOK
  <2>6. PICK r \in Secure(o[1]) : o[2] \in Data(dir, o[1], r)  BY <1>1 DEF Local, Secured
  <2> QED  BY <2>3, <2>5, <2>6
<1>7. Kept'
  BY <1>1, <1>2, <1>3, <1>4, KindsAre
  DEF Local, Progress, Kept, Untouched, Inspected, Preparing, Touching, Intact, Aside, Former
<1>8. Result'
  BY <1>1, <1>3 DEF Local, Result
<1>9. Tidy'
  BY <1>1, <1>2, <1>3, <1>4, KindsAre
  DEF Local, Progress, Tidy, Unstaged, NoBackup, Inspected, Preparing, Touching
<1>10. Written'
  BY <1>1, <1>3 DEF Local, Written
<1> QED  BY <1>5, <1>6, <1>7, <1>8, <1>9, <1>10 DEF Local

\* An error of prepareBackup once the live file is known to exist.
LEMMA BackupFailedStep ==
    ASSUME IInv, pc \in {"reserve", "unmark", "move"}, BackupFailed,
           UNCHANGED <<disk, want, old, rollbackErr, before, owed>>
    PROVE  Local'
<1> USE DEF Goto, Leave, Rollback, disk
<1>1. TypeOK /\ Local  BY DEF IInv
<1>2. at \in Kinds  BY <1>1 DEF TypeOK
<1>3. \/ at = "cert" /\ pc' = "cleanup" /\ at' = "cert" /\ outcome' = "failed"
      \/ at = "key" /\ pc' = "restore" /\ at' = "cert" /\ outcome' = outcome
  BY <1>2, KindsAre DEF BackupFailed
<1>5. Progress'
  BY <1>1, <1>3, KindsAre DEF Local, Progress, Preparing
<1>6. Secured'
  <2>1. \A k \in Kinds : Secure(k) = IF old[k] = "moved" THEN {"backup", "orphan"}
                                     ELSE IF old[k] = "absent" /\ Inspected(k) THEN {"orphan"}
                                     ELSE {"live", "orphan"}
    BY DEF Secure
  <2>2. ASSUME NEW k \in Kinds, NEW r \in Secure(k) PROVE r \in Secure(k)'
    <3>1. CASE at = "cert"
      <4>1. Secure(k)' = {"live", "backup", "orphan"}  BY <1>3, <3>1 DEF Secure
      <4> QED  BY <2>1, <2>2, <4>1
    <3>2. CASE at = "key"
      <4>1. Secure(k)' = IF old[k] = "moved" THEN {"backup", "orphan"}
                         ELSE IF old[k] = "absent" /\ Inspected(k)' THEN {"orphan"}
                         ELSE {"live", "orphan"}
        BY <1>3, <3>2 DEF Secure
      <4>2. old["key"] = "kept" /\ Inspected("cert")
        BY <1>1, <3>2 DEF Local, Progress, Inspected, Preparing
      <4> QED  BY <2>1, <2>2, <4>1, <4>2, KindsAre
    <3> QED  BY <1>2, <3>1, <3>2, KindsAre
  <2>3. \A k, r : Data(dir', k, r) = Data(dir, k, r)  OBVIOUS
  <2> QED  BY <1>1, <2>2, <2>3, SecuredStays DEF Local
<1>7. Kept'
  BY <1>1, <1>2, <1>3, KindsAre
  DEF Local, Progress, Kept, Untouched, Inspected, Preparing, Touching, Intact, Aside, Former
<1>8. Result'
  BY <1>1, <1>3 DEF Local, Result
<1>9. Tidy'
  BY <1>1, <1>2, <1>3, KindsAre
  DEF Local, Progress, Tidy, Unstaged, NoBackup, Inspected, Preparing, Touching
<1>10. Written'
  BY <1>1, <1>3 DEF Local, Written
<1> QED  BY <1>5, <1>6, <1>7, <1>8, <1>9, <1>10 DEF Local

\* Creating and removing the file that reserves the backup's name.
LEMMA ReservingStep ==
    ASSUME IInv,
           (pc = "reserve" /\ pc' = "unmark") \/ (pc = "unmark" /\ pc' = "move"),
           at' = at, unsynced' = unsynced \cup {dir'},
           UNCHANGED <<outcome, want, old, rollbackErr, before, owed>>,
           \A k, r : k # at \/ r # "backup" => Data(dir', k, r) = Data(dir, k, r),
           pc' = "move" => Data(dir', at, "backup") = {}
    PROVE  Local'
<1>1. TypeOK /\ Local  BY DEF IInv
<1>2. at \in Kinds  BY <1>1 DEF TypeOK
<1>5. Progress'
  BY <1>1, KindsAre DEF Local, Progress, Preparing
<1>6. Secured'
  <2>1. \A k \in Kinds : /\ Secure(k) = IF old[k] = "moved" THEN {"backup", "orphan"}
                                        ELSE IF old[k] = "absent" /\ Inspected(k) THEN {"orphan"}
                                        ELSE {"live", "orphan"}
                         /\ Secure(k)' = Secure(k)
    BY DEF Secure, Inspected, Preparing, Touching
  <2>2. old[at] = "kept"  BY <1>1 DEF Local, Progress
  <2>3. \A k \in Kinds : \A r \in Secure(k) : Data(dir', k, r) = Data(dir, k, r)
    BY <2>1, <2>2
  <2> QED  BY <1>1, <2>1, <2>3, SecuredStays DEF Local
<1>7. Kept'
  BY <1>1, <1>2, KindsAre
  DEF Local, Progress, Kept, Untouched, Inspected, Preparing, Touching, Intact, Aside, Former
<1>8. Result'
  BY <1>1 DEF Local, Result
<1>9. Tidy'
  BY <1>1, <1>2, KindsAre
  DEF Local, Progress, Tidy, Unstaged, NoBackup, Inspected, Preparing, Touching
<1>10. Written'
  <2>1. dir \in unsynced  BY <1>1 DEF TypeOK
  <2> QED  BY <1>1, <2>1 DEF Local, Written
<1> QED  BY <1>5, <1>6, <1>7, <1>8, <1>9, <1>10 DEF Local

LEMMA ReserveStep == ASSUME IInv, Reserve PROVE Local'
<1>1. /\ dir \in SUBSET Files /\ at \in Kinds /\ pc = "reserve"
      /\ UNCHANGED <<want, old, rollbackErr, before, owed>>
  BY DEF IInv, TypeOK, Reserve
<1>2. CASE BackupFailed /\ UNCHANGED disk
  BY <1>1, <1>2, BackupFailedStep
<1>3. CASE /\ Change(dir \cup {File(at, "backup", Empty)})
           /\ Goto("unmark", at) /\ UNCHANGED outcome
  <2>1. \A k, r : k # at \/ r # "backup" => Data(dir', k, r) = Data(dir, k, r)
    <3>1. dir' = Add(dir, at, "backup", Empty)  BY <1>3 DEF Change, Add
    <3> QED  BY <3>1, DataAdd
  <2>2. /\ (pc = "reserve" /\ pc' = "unmark") \/ (pc = "unmark" /\ pc' = "move")
        /\ at' = at /\ unsynced' = unsynced \cup {dir'} /\ pc' # "move"
        /\ UNCHANGED <<outcome, want, old, rollbackErr, before, owed>>
    BY <1>1, <1>3 DEF Change, Goto
  <2> QED  BY <2>1, <2>2, ReservingStep
<1> QED  BY <1>2, <1>3 DEF Reserve

LEMMA UnmarkStep == ASSUME IInv, Unmark PROVE Local'
<1>1. /\ dir \in SUBSET Files /\ at \in Kinds /\ pc = "unmark"
      /\ UNCHANGED <<want, old, rollbackErr, before, owed>>
  BY DEF IInv, TypeOK, Unmark
<1>2. CASE BackupFailed /\ UNCHANGED disk
  BY <1>1, <1>2, BackupFailedStep
<1>3. CASE Change(Unlink(dir, at, "backup")) /\ Goto("move", at) /\ UNCHANGED outcome
  <2>1. /\ \A k, r : k # at \/ r # "backup" => Data(dir', k, r) = Data(dir, k, r)
        /\ Data(dir', at, "backup") = {}
    BY <1>1, <1>3, DataUnlink DEF Change
  <2>2. /\ (pc = "reserve" /\ pc' = "unmark") \/ (pc = "unmark" /\ pc' = "move")
        /\ at' = at /\ unsynced' = unsynced \cup {dir'}
        /\ UNCHANGED <<outcome, want, old, rollbackErr, before, owed>>
    BY <1>1, <1>3 DEF Change, Goto
  <2> QED  BY <2>1, <2>2, ReservingStep
<1> QED  BY <1>2, <1>3 DEF Unmark

LEMMA MoveAsideStep == ASSUME IInv, MoveAside PROVE Local'
<1> USE DEF Succeed, Fail, Goto, Advance, disk
<1>1. TypeOK /\ Local  BY DEF IInv
<1>2. /\ dir \in SUBSET Files /\ at \in Kinds /\ dir \in unsynced
      /\ "live" \in Roles /\ "backup" \in Roles
      /\ old \in [Kinds -> {"absent", "kept", "moved"}]
  BY <1>1 DEF TypeOK, Roles
<1>3. /\ pc = "move" /\ UNCHANGED <<want, rollbackErr, before, owed>>
  BY DEF MoveAside
<1>4. CASE BackupFailed /\ UNCHANGED <<disk, old>>
  BY <1>3, <1>4, BackupFailedStep
<1>5. CASE /\ Change(Rename(dir, at, "live", "backup"))
           /\ old' = [old EXCEPT ![at] = "moved"] /\ Advance("inspect", "publish")
  <2>1. /\ Data(dir', at, "live") = {}
        /\ Data(dir', at, "backup") = Data(dir, at, "live")
        /\ \A k, r : k # at \/ r \notin {"live", "backup"} => Data(dir', k, r) = Data(dir, k, r)
    <3>1. dir' = Rename(dir, at, "live", "backup")  BY <1>5 DEF Change
    <3> QED  BY <1>2, <3>1, DataRename
  <2>2. \A k \in Kinds : old'[k] = IF k = at THEN "moved" ELSE old[k]  BY <1>2, <1>5
  <2>3. /\ unsynced' = unsynced \cup {dir'} /\ outcome' = outcome
        /\ \/ pc' = "inspect" /\ at' = "key" /\ at = "cert"
           \/ pc' = "publish" /\ at' = "cert" /\ at = "key"
    BY <1>2, <1>5, KindsAre DEF Change
  <2>5. Progress'
    BY <1>1, <1>2, <1>3, <2>2, <2>3, KindsAre DEF Local, Progress, Preparing
  <2>6. Secured'
    <3>1. \A k \in Kinds : Secure(k) = IF old[k] = "moved" THEN {"backup", "orphan"}
                                       ELSE IF old[k] = "absent" /\ Inspected(k) THEN {"orphan"}
                                       ELSE {"live", "orphan"}
      BY <1>3 DEF Secure
    <3>2. \A k \in Kinds : Secure(k)' = IF old'[k] = "moved" THEN {"backup", "orphan"}
                                        ELSE IF old'[k] = "absent" /\ Inspected(k)' THEN {"orphan"}
                                        ELSE {"live", "orphan"}
      BY <2>3 DEF Secure
    <3>3. ASSUME NEW k \in Kinds, k # at
          PROVE  Secure(k)' = Secure(k)
      BY <1>2, <1>3, <2>2, <2>3, <3>1, <3>2, <3>3, KindsAre DEF Inspected, Preparing, Touching
    <3>4. Secure(at) = {"live", "orphan"}
      BY <1>1, <1>2, <1>3, <3>1 DEF Local, Progress
    <3>5. old'[at] = "moved" /\ \A k \in Kinds : old'[k] = "moved" => Secure(k)' = {"backup", "orphan"}
      BY <1>2, <2>2, <3>2
    <3> SUFFICES ASSUME NEW o \in owed
                 PROVE  \E r \in Secure(o[1])' : o[2] \in Data(dir', o[1], r)
      BY <1>3 DEF Secured
    <3>6. o[1] \in Kinds  BY <1>1 DEF TypeOK
    <3>7. PICK r \in Secure(o[1]) : o[2] \in Data(dir, o[1], r)  BY <1>1 DEF Local, Secured
    <3>8. CASE o[1] # at  BY <2>1, <3>1, <3>3, <3>6, <3>7, <3>8
    <3>9. CASE o[1] = at
      <4>1. Secure(o[1])' = {"backup", "orphan"}  BY <3>5, <3>6, <3>9
      <4>2. r = "live" \/ r = "orphan"  BY <3>4, <3>7, <3>9
      <4>3. CASE r = "live"
        <5>1. o[2] \in Data(dir', o[1], "backup")  BY <2>1, <3>7, <3>9, <4>3
        <5> QED  BY <4>1, <5>1
      <4>4. CASE r = "orphan"
        <5>1. o[2] \in Data(dir', o[1], "orphan")  BY <2>1, <3>7, <3>9, <4>4
        <5> QED  BY <4>1, <5>1
      <4> QED  BY <4>2, <4>3, <4>4
    <3> QED  BY <3>8, <3>9
  <2>7. Kept'
    BY <1>1, <1>2, <1>3, <2>1, <2>2, <2>3, KindsAre
    DEF Local, Progress, Kept, Untouched, Inspected, Preparing, Touching, Intact, Aside, Former
  <2>8. Result'
    BY <1>1, <1>3, <2>3 DEF Local, Result
  <2>9. Tidy'
    BY <1>1, <1>2, <1>3, <2>1, <2>2, <2>3, KindsAre
    DEF Local, Progress, Tidy, Unstaged, NoBackup, Inspected, Preparing, Touching
  <2>10. Written'
    <3>1. \A k \in Kinds : /\ Data(dir', k, "live") \subseteq Data(dir, k, "live")
                           /\ Data(dir', k, "stage") = Data(dir, k, "stage")
      BY <2>1
    <3> QED  BY <1>1, <1>2, <1>3, <2>3, <3>1 DEF Local, Written
  <2> QED  BY <2>5, <2>6, <2>7, <2>8, <2>9, <2>10 DEF Local
<1> QED  BY <1>4, <1>5 DEF MoveAside
LEMMA PublishStep == ASSUME IInv, Publish PROVE Local'
<1> USE DEF Succeed, Fail, Goto, Advance, Rollback, disk
<1>1. TypeOK /\ Local  BY DEF IInv
<1>2. /\ dir \in SUBSET Files /\ at \in Kinds /\ dir \in unsynced
      /\ old \in [Kinds -> {"absent", "kept", "moved"}]
  BY <1>1 DEF TypeOK
<1>3. /\ pc = "publish" /\ UNCHANGED <<outcome, want, old, rollbackErr, before, owed>>
      /\ \/ /\ pc' = "publish" /\ at' = "key" /\ at = "cert"
            /\ unsynced' = unsynced \cup {dir'} /\ Data(dir', at, "stage") = {}
         \/ /\ pc' = "verify" /\ at' = "cert" /\ at = "key"
            /\ unsynced' = unsynced \cup {dir'} /\ Data(dir', at, "stage") = {}
         \/ pc' = "restore" /\ at' = "cert" /\ UNCHANGED disk
  <2>1. CASE Fail("rename") /\ Rollback /\ UNCHANGED disk  BY <2>1 DEF Publish
  <2>2. CASE Change(Rename(dir, at, "stage", "live")) /\ Advance("publish", "verify")
    <3>1. dir' = Rename(dir, at, "stage", "live")  BY <2>2 DEF Change
    <3>2. Data(dir', at, "stage") = {}  BY <3>1, DataRename
    <3> QED  BY <1>2, <2>2, <3>2, KindsAre DEF Publish, Change
  <2> QED  BY <2>1, <2>2 DEF Publish
<1>4. /\ \A k, r : r \notin {"stage", "live"} => Data(dir', k, r) = Data(dir, k, r)
      /\ \A k, r : k # at => Data(dir', k, r) = Data(dir, k, r)
      /\ Data(dir', at, "stage") \subseteq Data(dir, at, "stage")
      /\ Data(dir', at, "live") \subseteq Data(dir, at, "live") \cup Data(dir, at, "stage")
  <2>1. CASE dir' = Rename(dir, at, "stage", "live")
    <3>1. /\ Data(dir', at, "stage") = {}
          /\ Data(dir', at, "live") = Data(dir, at, "stage")
          /\ \A k, r : k # at \/ r \notin {"stage", "live"} => Data(dir', k, r) = Data(dir, k, r)
      BY <2>1, DataRename
    <3> QED  BY <3>1
  <2>2. CASE dir' = dir  BY <2>2
  <2> QED  BY <2>1, <2>2 DEF Publish, Change
<1>5. Progress'
  BY <1>1, <1>2, <1>3, <1>4, KindsAre DEF Local, Progress, Preparing
<1>6. Secured'
  <2>1. \A k \in Kinds : /\ Secure(k) = IF old[k] = "moved" THEN {"backup", "orphan"}
                                        ELSE IF old[k] = "absent" THEN {"orphan"}
                                        ELSE {"live", "orphan"}
                         /\ Secure(k)' = Secure(k)
    BY <1>3 DEF Secure, Inspected, Touching
  <2>2. \A k \in Kinds : old[k] # "kept"  BY <1>1, <1>3 DEF Local, Progress
  <2>4. \A k \in Kinds : \A r \in Secure(k) : r \notin {"stage", "live"}
    BY <1>2, <2>1, <2>2
  <2> QED  BY <1>1, <1>3, <1>4, <2>1, <2>4, SecuredStays DEF Local
<1>7. Kept'
  BY <1>1, <1>2, <1>3, <1>4, KindsAre
  DEF Local, Progress, Kept, Untouched, Inspected, Preparing, Touching, Intact, Aside, Former
<1>8. Result'
  BY <1>1, <1>3, <1>4 DEF Local, Result
<1>9. Tidy'
  BY <1>1, <1>2, <1>3, <1>4, KindsAre
  DEF Local, Progress, Tidy, Unstaged, NoBackup, Inspected, Preparing, Touching
<1>10. Written'
  BY <1>1, <1>2, <1>3, <1>4 DEF Local, Written
<1> QED  BY <1>5, <1>6, <1>7, <1>8, <1>9, <1>10 DEF Local

LEMMA VerifyStep == ASSUME IInv, Verify PROVE Local'
<1> USE DEF Succeed, Fail, Goto, Rollback, disk
<1>1. TypeOK /\ Local  BY DEF IInv
<1>2. /\ dir \in SUBSET Files /\ at \in Kinds /\ dir \in unsynced
      /\ old \in [Kinds -> {"absent", "kept", "moved"}]
  BY <1>1 DEF TypeOK
<1>3. /\ pc = "verify" /\ UNCHANGED <<disk, outcome, want, old, rollbackErr, before, owed>>
      /\ at' = "cert"
      /\ \/ pc' = "sync" /\ Installed(dir)
         \/ pc' = "restore"
  BY <1>2, DataHolds DEF Verify, Installed
<1>4. \A k, r : Data(dir', k, r) = Data(dir, k, r)  BY <1>3
<1>5. Progress'
  BY <1>1, <1>2, <1>3, <1>4, KindsAre DEF Local, Progress, Preparing
<1>6. Secured'
  <2>1. \A k \in Kinds : /\ Secure(k) = IF old[k] = "moved" THEN {"backup", "orphan"}
                                        ELSE IF old[k] = "absent" THEN {"orphan"}
                                        ELSE {"live", "orphan"}
                         /\ Secure(k)' = Secure(k)
    BY <1>3 DEF Secure, Inspected, Touching
  <2> QED  BY <1>1, <1>3, <1>4, <2>1, SecuredStays DEF Local
<1>7. Kept'
  BY <1>1, <1>2, <1>3, <1>4, KindsAre
  DEF Local, Progress, Kept, Untouched, Inspected, Preparing, Touching, Intact, Aside, Former
<1>8. Result'
  BY <1>1, <1>3, <1>4 DEF Local, Result, Installed
<1>9. Tidy'
  BY <1>1, <1>2, <1>3, <1>4, KindsAre
  DEF Local, Progress, Tidy, Unstaged, NoBackup, Inspected, Preparing, Touching
<1>10. Written'
  BY <1>1, <1>2, <1>3, <1>4 DEF Local, Written
<1> QED  BY <1>5, <1>6, <1>7, <1>8, <1>9, <1>10 DEF Local

LEMMA SyncInstalledStep == ASSUME IInv, SyncInstalled PROVE Local'
<1> USE DEF Succeed, Fail, Goto, Rollback, disk
<1>1. TypeOK /\ Local  BY DEF IInv
<1>2. /\ dir \in SUBSET Files /\ at \in Kinds /\ dir \in unsynced
      /\ old \in [Kinds -> {"absent", "kept", "moved"}]
  BY <1>1 DEF TypeOK
<1>3. /\ pc = "sync" /\ UNCHANGED <<outcome, want, old, rollbackErr, before>>
      /\ at' = "cert" /\ dir' = dir
      /\ \/ pc' = "drop" /\ unsynced' = {dir} /\ owed' = Contents(dir)
         \/ pc' = "restore" /\ unsynced' = unsynced /\ owed' = owed
  BY DEF SyncInstalled, Fsync
<1>4. \A k, r : Data(dir', k, r) = Data(dir, k, r)  BY <1>3
<1>5. Progress'
  BY <1>1, <1>2, <1>3, <1>4, KindsAre DEF Local, Progress, Preparing
<1>6. Secured'
  <2>1. CASE pc' = "drop"
    <3>1. \A k \in Kinds : Secure(k)' = {"live", "orphan"}  BY <2>1 DEF Secure
    <3>2. owed' = Contents(dir)  BY <1>3, <2>1
    <3> SUFFICES ASSUME NEW o \in Contents(dir)
                 PROVE  o[1] \in Kinds /\ o[2] \in Data(dir, o[1], "live")
      BY <1>3, <3>1, <3>2 DEF Secured
    <3>3. PICK e \in LiveIn(dir) : o = <<e.kind, e.data>>  BY DEF Contents
    <3>4. e.kind \in Kinds /\ e \in At(dir, e.kind, "live")  BY <1>2 DEF LiveIn, At, Files
    <3> QED  BY <3>3, <3>4 DEF Data
  <2>2. CASE pc' = "restore"
    <3>1. \A k \in Kinds : Secure(k)' = Secure(k)
      BY <1>3, <2>2 DEF Secure, Inspected, Touching
    <3>2. owed' = owed  BY <1>3, <2>2
    <3> QED  BY <1>1, <1>4, <3>1, <3>2, SecuredStays DEF Local
  <2> QED  BY <1>3, <2>1, <2>2
<1>7. Kept'
  BY <1>1, <1>2, <1>3, <1>4, KindsAre
  DEF Local, Progress, Kept, Untouched, Inspected, Preparing, Touching, Intact, Aside, Former
<1>8. Result'
  BY <1>1, <1>3, <1>4 DEF Local, Result, Installed
<1>9. Tidy'
  BY <1>1, <1>2, <1>3, <1>4, KindsAre
  DEF Local, Progress, Tidy, Unstaged, NoBackup, Inspected, Preparing, Touching
<1>10. Written'
  BY <1>1, <1>2, <1>3, <1>4 DEF Local, Written
<1> QED  BY <1>5, <1>6, <1>7, <1>8, <1>9, <1>10 DEF Local

LEMMA DropBackupStep == ASSUME IInv, DropBackup PROVE Local'
<1> USE DEF Succeed, Fail, Goto, Leave, Advance, disk
<1>1. TypeOK /\ Local  BY DEF IInv
<1>2. /\ dir \in SUBSET Files /\ at \in Kinds /\ dir \in unsynced
      /\ old \in [Kinds -> {"absent", "kept", "moved"}]
  BY <1>1 DEF TypeOK
<1>3. /\ pc = "drop" /\ UNCHANGED <<want, old, rollbackErr, before, owed>>
      /\ unsynced' = unsynced \cup {dir'}
      /\ \/ /\ old[at] = "moved" => Data(dir', at, "backup") = {}
            /\ UNCHANGED outcome
            /\ \/ pc' = "drop" /\ at' = "key" /\ at = "cert"
               \/ pc' = "finalSync" /\ at' = "cert" /\ at = "key"
         \/ pc' = "cleanup" /\ at' = "cert" /\ outcome' = "leftover"
  <2>1. CASE old[at] = "moved" /\ Fail("remove") /\ Leave("leftover") /\ UNCHANGED disk
    BY <1>2, <2>1 DEF DropBackup
  <2>2. CASE old[at] = "moved" /\ Advance("drop", "finalSync") /\ Change(Unlink(dir, at, "backup"))
    <3>1. Data(dir', at, "backup") = {}  BY <1>2, <2>2, DataUnlink DEF Change
    <3> QED  BY <1>2, <2>2, <3>1, KindsAre DEF DropBackup, Change
  <2>3. CASE old[at] # "moved" /\ Advance("drop", "finalSync") /\ UNCHANGED disk
    BY <1>2, <2>3, KindsAre DEF DropBackup
  <2> QED  BY <2>1, <2>2, <2>3 DEF DropBackup
<1>4. /\ \A k, r : r # "backup" => Data(dir', k, r) = Data(dir, k, r)
      /\ \A k : k # at => Data(dir', k, "backup") = Data(dir, k, "backup")
      /\ dir' = dir \/ Data(dir', at, "backup") = {}
  <2>1. CASE dir' = Unlink(dir, at, "backup")  BY <1>2, <2>1, DataUnlink
  <2>2. CASE dir' = dir  BY <2>2
  <2> QED  BY <2>1, <2>2 DEF DropBackup, Change
<1>5. Progress'
  BY <1>1, <1>2, <1>3, <1>4, KindsAre DEF Local, Progress, Preparing
<1>6. Secured'
  <2>1. \A k \in Kinds : Secure(k) = {"live", "orphan"}  BY <1>3 DEF Secure
  <2>2. \A k \in Kinds : {"live", "orphan"} \subseteq Secure(k)'  BY <1>3 DEF Secure
  <2> QED  BY <1>1, <1>3, <1>4, <2>1, <2>2, SecuredStays DEF Local
<1>7. Kept'
  BY <1>1, <1>2, <1>3, <1>4, KindsAre
  DEF Local, Progress, Kept, Untouched, Inspected, Preparing, Touching, Intact, Aside, Former
<1>8. Result'
  BY <1>1, <1>2, <1>3, <1>4 DEF Local, Result, Installed
<1>9. Tidy'
  BY <1>1, <1>2, <1>3, <1>4, KindsAre
  DEF Local, Progress, Tidy, Unstaged, NoBackup, Inspected, Preparing, Touching
<1>10. Written'
  BY <1>1, <1>2, <1>3, <1>4 DEF Local, Written
<1> QED  BY <1>5, <1>6, <1>7, <1>8, <1>9, <1>10 DEF Local

LEMMA FinalSyncStep == ASSUME IInv, FinalSync PROVE Local'
<1> USE DEF Succeed, Fail, Goto, Leave, disk
<1>1. TypeOK /\ Local  BY DEF IInv
<1>2. /\ dir \in SUBSET Files /\ at \in Kinds /\ dir \in unsynced
      /\ old \in [Kinds -> {"absent", "kept", "moved"}]
  BY <1>1 DEF TypeOK
<1>3. /\ pc = "finalSync" /\ UNCHANGED <<want, old, rollbackErr, before, owed>>
      /\ at' = "cert" /\ pc' = "cleanup" /\ dir' = dir /\ unsynced' \subseteq unsynced
      /\ outcome' \in {"ok", "leftover"}
  BY <1>2 DEF FinalSync, Fsync
<1>4. \A k, r : Data(dir', k, r) = Data(dir, k, r)  BY <1>3
<1>5. Progress'
  BY <1>1, <1>2, <1>3, <1>4, KindsAre DEF Local, Progress, Preparing
<1>6. Secured'
  <2>1. \A k \in Kinds : Secure(k) = {"live", "orphan"}  BY <1>3 DEF Secure
  <2>2. \A k \in Kinds : {"live", "orphan"} \subseteq Secure(k)'  BY <1>3 DEF Secure
  <2> QED  BY <1>1, <1>3, <1>4, <2>1, <2>2, SecuredStays DEF Local
<1>7. Kept'
  BY <1>1, <1>2, <1>3, <1>4, KindsAre
  DEF Local, Progress, Kept, Untouched, Inspected, Preparing, Touching, Intact, Aside, Former
<1>8. Result'
  BY <1>1, <1>3, <1>4 DEF Local, Result, Installed
<1>9. Tidy'
  BY <1>1, <1>2, <1>3, <1>4, KindsAre
  DEF Local, Progress, Tidy, Unstaged, NoBackup, Inspected, Preparing, Touching
<1>10. Written'
  BY <1>1, <1>2, <1>3, <1>4 DEF Local, Written
<1> QED  BY <1>5, <1>6, <1>7, <1>8, <1>9, <1>10 DEF Local
LEMMA RestoreRemoveStep == ASSUME IInv, RestoreRemove PROVE Local'
<1> USE DEF Succeed, Fail, Goto, Advance, disk
<1>1. TypeOK /\ Local  BY DEF IInv
<1>2. /\ dir \in SUBSET Files /\ at \in Kinds /\ dir \in unsynced
      /\ old \in [Kinds -> {"absent", "kept", "moved"}]
  BY <1>1 DEF TypeOK
<1>3. /\ pc = "restore" /\ UNCHANGED <<outcome, want, old, before, owed>>
      /\ unsynced' = unsynced \cup {dir'}
      /\ \/ /\ old[at] = "moved" /\ pc' = "putback" /\ at' = at
            /\ Data(dir', at, "live") = {} /\ UNCHANGED rollbackErr
         \/ /\ \/ pc' = "restore" /\ at' = "key" /\ at = "cert"
               \/ pc' = "rollSync" /\ at' = "cert" /\ at = "key"
            /\ \/ old[at] = "kept" /\ dir' = dir /\ UNCHANGED rollbackErr
               \/ old[at] = "absent" /\ Data(dir', at, "live") = {} /\ UNCHANGED rollbackErr
               \/ dir' = dir /\ rollbackErr'
  <2>1. Change(Unlink(dir, at, "live")) => Data(dir', at, "live") = {}
    BY DataUnlink DEF Change
  <2>2. Change(Unlink(dir, at, "live")) => unsynced' = unsynced \cup {dir'}
    BY DEF Change
  <2>3. UNCHANGED disk => dir' = dir /\ unsynced' = unsynced \cup {dir'}
    BY <1>2
  <2> QED  BY <1>2, <2>1, <2>2, <2>3, KindsAre DEF RestoreRemove
<1>4. /\ \A k, r : k # at \/ r # "live" => Data(dir', k, r) = Data(dir, k, r)
      /\ dir' = dir \/ (old[at] # "kept" /\ Data(dir', at, "live") = {})
  <2>1. CASE dir' = Unlink(dir, at, "live") /\ old[at] # "kept"  BY <2>1, DataUnlink
  <2>2. CASE dir' = dir  BY <2>2
  <2> QED  BY <2>1, <2>2 DEF RestoreRemove, Change
<1>5. Progress'
  BY <1>1, <1>2, <1>3, <1>4, KindsAre DEF Local, Progress, Preparing
<1>6. Secured'
  <2>1. \A k \in Kinds : Secure(k) = IF old[k] = "moved" THEN {"backup", "orphan"}
                                     ELSE IF old[k] = "absent" THEN {"orphan"}
                                     ELSE {"live", "orphan"}
    BY <1>3 DEF Secure, Inspected, Touching
  <2>2. \A k \in Kinds : Secure(k)' = Secure(k)
    BY <1>3 DEF Secure, Inspected, Touching
  <2>3. \A k \in Kinds : \A r \in Secure(k) : Data(dir', k, r) = Data(dir, k, r)
    BY <1>2, <1>4, <2>1
  <2> QED  BY <1>1, <1>3, <2>2, <2>3, SecuredStays DEF Local
<1>7. Kept'
  BY <1>1, <1>2, <1>3, <1>4, KindsAre
  DEF Local, Progress, Kept, Untouched, Inspected, Preparing, Touching, Intact, Aside, Former
<1>8. Result'
  BY <1>1, <1>2, <1>3, <1>4 DEF Local, Result, Installed
<1>9. Tidy'
  BY <1>1, <1>2, <1>3, <1>4, KindsAre
  DEF Local, Progress, Tidy, Unstaged, NoBackup, Inspected, Preparing, Touching
<1>10. Written'
  BY <1>1, <1>2, <1>3, <1>4 DEF Local, Written
<1> QED  BY <1>5, <1>6, <1>7, <1>8, <1>9, <1>10 DEF Local

LEMMA PutBackStep == ASSUME IInv, PutBack PROVE Local'
<1> USE DEF Succeed, Fail, Goto, Advance, disk
<1>1. TypeOK /\ Local  BY DEF IInv
<1>2. /\ dir \in SUBSET Files /\ at \in Kinds /\ dir \in unsynced
      /\ old \in [Kinds -> {"absent", "kept", "moved"}]
  BY <1>1 DEF TypeOK
<1>3. /\ pc = "putback" /\ UNCHANGED <<outcome, want, before, owed>>
      /\ unsynced' = unsynced \cup {dir'}
      /\ \/ pc' = "restore" /\ at' = "key" /\ at = "cert"
         \/ pc' = "rollSync" /\ at' = "cert" /\ at = "key"
      /\ \/ /\ dir' = Rename(dir, at, "backup", "live") /\ UNCHANGED rollbackErr
            /\ old' = [old EXCEPT ![at] = "kept"]
         \/ dir' = dir /\ old' = old /\ rollbackErr'
  BY <1>2, KindsAre DEF PutBack, Change
<1>4. /\ \A k, r : k # at \/ r \notin {"live", "backup"} => Data(dir', k, r) = Data(dir, k, r)
      /\ \A k \in Kinds : k # at => old'[k] = old[k]
      /\ \/ /\ Data(dir', at, "live") = Data(dir, at, "backup")
            /\ Data(dir', at, "backup") = {} /\ old'[at] = "kept" /\ rollbackErr' = rollbackErr
         \/ dir' = dir /\ old'[at] = old[at] /\ rollbackErr'
  <2>1. CASE dir' = Rename(dir, at, "backup", "live")
    <3>1. /\ \A k, r : k # at \/ r \notin {"live", "backup"} => Data(dir', k, r) = Data(dir, k, r)
          /\ Data(dir', at, "live") = Data(dir, at, "backup")
          /\ Data(dir', at, "backup") = {}
      BY <2>1, DataRename
    <3> QED  BY <1>2, <1>3, <3>1
  <2>2. CASE dir' = dir /\ old' = old /\ rollbackErr'  BY <2>2
  <2> QED  BY <1>3, <2>1, <2>2
<1>5. Progress'
  BY <1>1, <1>2, <1>3, <1>4, KindsAre DEF Local, Progress, Preparing
<1>6. Secured'
  <2>1. \A k \in Kinds : Secure(k) = IF old[k] = "moved" THEN {"backup", "orphan"}
                                     ELSE IF old[k] = "absent" THEN {"orphan"}
                                     ELSE {"live", "orphan"}
    BY <1>3 DEF Secure, Inspected, Touching
  <2>2. \A k \in Kinds : Secure(k)' = IF old'[k] = "moved" THEN {"backup", "orphan"}
                                      ELSE IF old'[k] = "absent" THEN {"orphan"}
                                      ELSE {"live", "orphan"}
    BY <1>3 DEF Secure, Inspected, Touching
  <2>3. old[at] = "moved"  BY <1>1, <1>3 DEF Local, Progress
  <2> SUFFICES ASSUME NEW o \in owed
               PROVE  \E r \in Secure(o[1])' : o[2] \in Data(dir', o[1], r)
    BY <1>3 DEF Secured
  <2>4. o[1] \in Kinds  BY <1>1 DEF TypeOK
  <2>5. PICK r \in Secure(o[1]) : o[2] \in Data(dir, o[1], r)  BY <1>1 DEF Local, Secured
  <2>6. CASE o[1] # at  BY <1>4, <2>1, <2>2, <2>4, <2>5, <2>6
  <2>7. CASE o[1] = at /\ dir' = dir /\ old'[at] = old[at]  BY <2>1, <2>2, <2>4, <2>5, <2>7
  <2>8. CASE o[1] = at /\ old'[at] = "kept" /\ Data(dir', at, "live") = Data(dir, at, "backup")
    <3>1. r = "backup" \/ r = "orphan"  BY <2>1, <2>3, <2>4, <2>5, <2>8
    <3>2. Secure(o[1])' = {"live", "orphan"}  BY <2>2, <2>4, <2>8
    <3>3. CASE r = "backup"
      <4>1. o[2] \in Data(dir', o[1], "live")  BY <2>5, <2>8, <3>3
      <4> QED  BY <3>2, <4>1
    <3>4. CASE r = "orphan"
      <4>1. o[2] \in Data(dir', o[1], "orphan")  BY <1>4, <2>5, <3>4
      <4> QED  BY <3>2, <4>1
    <3> QED  BY <3>1, <3>3, <3>4
  <2> QED  BY <1>4, <2>6, <2>7, <2>8
<1>7. Kept'
  BY <1>1, <1>2, <1>3, <1>4, KindsAre
  DEF Local, Progress, Kept, Untouched, Inspected, Preparing, Touching, Intact, Aside, Former
<1>8. Result'
  BY <1>1, <1>2, <1>3, <1>4 DEF Local, Result, Installed
<1>9. Tidy'
  BY <1>1, <1>2, <1>3, <1>4, KindsAre
  DEF Local, Progress, Tidy, Unstaged, NoBackup, Inspected, Preparing, Touching
<1>10. Written'
  <2>1. Data(dir, at, "backup") = Former(at)
    BY <1>1, <1>2, <1>3 DEF Local, Progress, Kept, Aside, Touching
  <2>2. Former(at) \subseteq Bundles  BY <1>1 DEF Local, Written, Former
  <2>3. /\ Data(dir', at, "live") \subseteq Bundles \cup Data(dir, at, "live")
        /\ \A k \in Kinds : k # at => Data(dir', k, "live") = Data(dir, k, "live")
        /\ \A k \in Kinds : Data(dir', k, "stage") = Data(dir, k, "stage")
    BY <1>4, <2>1, <2>2
  <2> QED  BY <1>1, <1>2, <1>3, <2>3 DEF Local, Written
<1> QED  BY <1>5, <1>6, <1>7, <1>8, <1>9, <1>10 DEF Local

LEMMA RollbackSyncStep == ASSUME IInv, RollbackSync PROVE Local'
<1> USE DEF Succeed, Fail, Goto, disk
<1>1. TypeOK /\ Local  BY DEF IInv
<1>2. /\ dir \in SUBSET Files /\ at \in Kinds /\ dir \in unsynced
      /\ old \in [Kinds -> {"absent", "kept", "moved"}]
  BY <1>1 DEF TypeOK
<1>3. /\ pc = "rollSync" /\ UNCHANGED <<outcome, want, old, before, owed>>
      /\ pc' = "revalidate" /\ at' = "cert" /\ dir' = dir /\ unsynced' \subseteq unsynced
      /\ UNCHANGED rollbackErr \/ rollbackErr'
  BY <1>2 DEF RollbackSync, Fsync
<1>4. \A k, r : Data(dir', k, r) = Data(dir, k, r)  BY <1>3
<1>5. Progress'
  BY <1>1, <1>2, <1>3, <1>4, KindsAre DEF Local, Progress, Preparing
<1>6. Secured'
  <2>1. \A k \in Kinds : Secure(k)' = Secure(k)  BY <1>3 DEF Secure, Inspected, Touching
  <2> QED  BY <1>1, <1>3, <1>4, <2>1, SecuredStays DEF Local
<1>7. Kept'
  BY <1>1, <1>2, <1>3, <1>4, KindsAre
  DEF Local, Progress, Kept, Untouched, Inspected, Preparing, Touching, Intact, Aside, Former
<1>8. Result'
  BY <1>1, <1>2, <1>3, <1>4 DEF Local, Result, Installed
<1>9. Tidy'
  BY <1>1, <1>2, <1>3, <1>4, KindsAre
  DEF Local, Progress, Tidy, Unstaged, NoBackup, Inspected, Preparing, Touching
<1>10. Written'
  BY <1>1, <1>2, <1>3, <1>4 DEF Local, Written
<1> QED  BY <1>5, <1>6, <1>7, <1>8, <1>9, <1>10 DEF Local

LEMMA RevalidateStep == ASSUME IInv, Revalidate PROVE Local'
<1> USE DEF Succeed, Fail, Goto, Leave, disk
<1>1. TypeOK /\ Local  BY DEF IInv
<1>2. /\ dir \in SUBSET Files /\ at \in Kinds /\ dir \in unsynced
      /\ old \in [Kinds -> {"absent", "kept", "moved"}]
  BY <1>1 DEF TypeOK
<1>3. /\ pc = "revalidate" /\ UNCHANGED <<disk, want, old, rollbackErr, before, owed>>
      /\ pc' = "cleanup" /\ at' = "cert"
      /\ outcome' = "broken" \/ (outcome' = "failed" /\ ~rollbackErr)
  BY DEF Revalidate
<1>4. \A k, r : Data(dir', k, r) = Data(dir, k, r)  BY <1>3
<1>5. Progress'
  BY <1>1, <1>2, <1>3, <1>4, KindsAre DEF Local, Progress, Preparing
<1>6. Secured'
  <2>1. \A k \in Kinds : Secure(k) = IF old[k] = "moved" THEN {"backup", "orphan"}
                                     ELSE IF old[k] = "absent" THEN {"orphan"}
                                     ELSE {"live", "orphan"}
    BY <1>3 DEF Secure, Inspected, Touching
  <2>2. \A k \in Kinds : Secure(k)' = {"live", "backup", "orphan"}  BY <1>3 DEF Secure
  <2> QED  BY <1>1, <1>3, <1>4, <2>1, <2>2, SecuredStays DEF Local
<1>7. Kept'
  BY <1>1, <1>2, <1>3, <1>4, KindsAre
  DEF Local, Progress, Kept, Untouched, Inspected, Preparing, Touching, Intact, Aside, Former
<1>8. Result'
  BY <1>1, <1>2, <1>3, <1>4 DEF Local, Result, Installed
<1>9. Tidy'
  BY <1>1, <1>2, <1>3, <1>4, KindsAre
  DEF Local, Progress, Tidy, Unstaged, NoBackup, Inspected, Preparing, Touching
<1>10. Written'
  BY <1>1, <1>2, <1>3, <1>4 DEF Local, Written
<1> QED  BY <1>5, <1>6, <1>7, <1>8, <1>9, <1>10 DEF Local

LEMMA FinishStep == ASSUME IInv, Finish PROVE Local'
<1> USE DEF Succeed, Fail, disk, call
<1>1. TypeOK /\ Local  BY DEF IInv
<1>2. /\ dir \in SUBSET Files /\ at \in Kinds /\ dir \in unsynced
      /\ old \in [Kinds -> {"absent", "kept", "moved"}]
  BY <1>1 DEF TypeOK
<1>3. /\ pc = "cleanup" /\ UNCHANGED <<at, want, old, rollbackErr, before, owed, outcome>>
      /\ pc' = "idle"
      /\ unsynced' = {Retire(d) : d \in unsynced} \cup {dir'}
  BY DEF Finish
<1>4. /\ \A k : Data(dir', k, "live") = Data(dir, k, "live") /\ Data(dir', k, "backup") = {}
      /\ \A k : Data(dir', k, "orphan") = Data(dir, k, "orphan") \cup Data(dir, k, "backup")
      /\ \A k : Data(dir', k, "stage") \subseteq Data(dir, k, "stage")
  <2>1. PICK gone \in SUBSET Staged(dir) : dir' = Retire(dir \ gone)  BY DEF Finish
  <2> DEFINE n == dir \ gone
  <2>2. /\ n \in SUBSET Files
        /\ \A k : Data(n, k, "stage") \subseteq Data(dir, k, "stage")
        /\ \A k, r : r # "stage" => Data(n, k, r) = Data(dir, k, r)
    BY <1>2, DataUnstage
  <2> HIDE DEF n
  <2>3. dir' = Retire(n)  BY <2>1 DEF n
  <2> QED  BY <2>2, <2>3, DataRetire
<1>11. \A d \in unsynced : \A k : /\ Data(Retire(d), k, "live") = Data(d, k, "live")
                                  /\ Data(Retire(d), k, "stage") = Data(d, k, "stage")
  BY <1>1, DataRetire DEF TypeOK
<1>5. Progress'
  BY <1>1, <1>2, <1>3, <1>4, KindsAre DEF Local, Progress, Preparing
<1>6. Secured'
  <2>1. \A k \in Kinds : /\ Secure(k) = {"live", "backup", "orphan"}
                         /\ Secure(k)' = {"live", "orphan"}
    BY <1>3 DEF Secure
  <2> SUFFICES ASSUME NEW o \in owed
               PROVE  \E r \in Secure(o[1])' : o[2] \in Data(dir', o[1], r)
    BY <1>3 DEF Secured
  <2>2. o[1] \in Kinds  BY <1>1 DEF TypeOK
  <2>3. PICK r \in Secure(o[1]) : o[2] \in Data(dir, o[1], r)  BY <1>1 DEF Local, Secured
  <2>4. r \in {"live", "backup", "orphan"}  BY <2>1, <2>2, <2>3
  <2>5. o[2] \in Data(dir', o[1], "live") \/ o[2] \in Data(dir', o[1], "orphan")
    BY <1>4, <2>3, <2>4
  <2> QED  BY <2>1, <2>2, <2>5
<1>7. Kept'
  BY <1>1, <1>2, <1>3, <1>4, KindsAre
  DEF Local, Progress, Kept, Untouched, Inspected, Preparing, Touching, Intact, Aside, Former
<1>8. Result'
  <2>1. CASE outcome \in {"ok", "leftover"}
    <3>1. \A d \in unsynced : Installed(d)  BY <1>1, <1>3, <2>1 DEF Local, Result
    <3>2. \A d \in unsynced' : Installed(d)  BY <1>2, <1>3, <1>4, <1>11, <3>1 DEF Installed
    <3>3. \A d \in unsynced' : Installed(d)'  BY <1>3, <3>2 DEF Installed
    <3> QED  BY <1>1, <1>3, <3>3 DEF Local, Result
  <2>2. CASE outcome \notin {"ok", "leftover"}  BY <1>3, <2>2 DEF Result
  <2> QED  BY <2>1, <2>2
<1>9. Tidy'
  BY <1>1, <1>2, <1>3, <1>4, KindsAre
  DEF Local, Progress, Tidy, Unstaged, NoBackup, Inspected, Preparing, Touching
<1>10. Written'
  <2>1. \A d \in unsynced', k \in Kinds : Data(d, k, "live") \cup Data(d, k, "stage") \subseteq Bundles
    BY <1>1, <1>2, <1>3, <1>4, <1>11 DEF Local, Written
  <2> QED  BY <1>1, <1>3, <2>1 DEF Local, Written
<1> QED  BY <1>5, <1>6, <1>7, <1>8, <1>9, <1>10 DEF Local

\* The files live now, as the ghosts of Start see them.
LEMMA LiveBundles ==
    ASSUME IInv
    PROVE  /\ \A k \in Kinds : {e.data : e \in {f \in LiveIn(dir) : f.kind = k}} = Data(dir, k, "live")
           /\ \A e \in LiveIn(dir) : e.role = "live" /\ e.data \in Bundles
           /\ \A o \in Contents(dir) : o[1] \in Kinds /\ o[2] \in Data(dir, o[1], "live")
<1>1. dir \in SUBSET Files /\ dir \in unsynced /\ Written  BY DEF IInv, Local, TypeOK
<1>2. ASSUME NEW k \in Kinds
      PROVE  {e.data : e \in {f \in LiveIn(dir) : f.kind = k}} = Data(dir, k, "live")
  <2>1. {f \in LiveIn(dir) : f.kind = k} = At(dir, k, "live")  BY DEF LiveIn, At
  <2> QED  BY <2>1 DEF Data
<1>3. ASSUME NEW e \in LiveIn(dir)
      PROVE  e.kind \in Kinds /\ e.role = "live" /\ e.data \in Data(dir, e.kind, "live")
  BY <1>1 DEF LiveIn, At, Data, Files
<1>4. \A e \in LiveIn(dir) : e.data \in Bundles  BY <1>1, <1>3 DEF Written
<1>5. ASSUME NEW o \in Contents(dir)
      PROVE  o[1] \in Kinds /\ o[2] \in Data(dir, o[1], "live")
  <2>1. PICK e \in LiveIn(dir) : o = <<e.kind, e.data>>  BY DEF Contents
  <2> QED  BY <1>3, <2>1
<1> QED  BY <1>2, <1>3, <1>4, <1>5

LEMMA StartStep == ASSUME IInv, NEW b \in Wanted, Start(b) PROVE Local'
<1> USE DEF Succeed, Goto, disk
<1>1. TypeOK /\ Local  BY DEF IInv
<1>2. /\ dir \in SUBSET Files /\ at \in Kinds /\ dir \in unsynced
      /\ old \in [Kinds -> {"absent", "kept", "moved"}]
  BY <1>1 DEF TypeOK
<1>3. /\ pc = "idle" /\ UNCHANGED disk /\ want' = b /\ b \in Bundles
      /\ old' = [k \in Kinds |-> "absent"] /\ rollbackErr' = FALSE
      /\ before' = LiveIn(dir) /\ owed' \subseteq owed \cup Contents(dir)
      /\ pc' = "clean" /\ at' = "cert" /\ outcome' = "running"
  BY ConstantsAssumption DEF Start
<1>4. \A k, r : Data(dir', k, r) = Data(dir, k, r)  BY <1>3
<1>5. Progress'
  BY <1>3, KindsAre DEF Progress, Preparing
<1>6. Secured'
  <2>1. \A k \in Kinds : /\ Secure(k) = {"live", "orphan"}
                         /\ Secure(k)' = {"live", "orphan"}
    BY <1>3 DEF Secure
  <2> SUFFICES ASSUME NEW o \in owed'
               PROVE  \E r \in Secure(o[1])' : o[2] \in Data(dir', o[1], r)
    BY DEF Secured
  <2>2. CASE o \in owed
    <3>1. o[1] \in Kinds  BY <1>1, <2>2 DEF TypeOK
    <3> QED  BY <1>1, <1>4, <2>1, <2>2, <3>1 DEF Local, Secured
  <2>3. CASE o \in Contents(dir)
    BY <1>4, <2>1, <2>3, LiveBundles
  <2> QED  BY <1>3, <2>2, <2>3
<1>7. Kept'
  <2>1. \A k \in Kinds : Former(k)' = Data(dir', k, "live")
    BY <1>3, <1>4, LiveBundles DEF Former
  <2> QED  BY <1>3, <2>1 DEF Kept, Untouched, Inspected, Preparing, Touching, Intact
<1>8. Result'
  BY <1>3 DEF Result
<1>9. Tidy'
  BY <1>1, <1>3, <1>4 DEF Local, Tidy, Unstaged, NoBackup, Inspected, Preparing, Touching
<1>10. Written'
  BY <1>1, <1>3, LiveBundles DEF Local, Written
<1> QED  BY <1>5, <1>6, <1>7, <1>8, <1>9, <1>10 DEF Local

LEMMA CrashStep == ASSUME IInv, Crash PROVE Local'
<1> USE DEF call
<1>1. TypeOK /\ Local  BY DEF IInv
<1>2. /\ dir \in SUBSET Files /\ at \in Kinds /\ dir \in unsynced
      /\ old \in [Kinds -> {"absent", "kept", "moved"}]
  BY <1>1 DEF TypeOK
<1>3. /\ UNCHANGED <<at, want, old, rollbackErr, before, owed>>
      /\ pc' = "idle" /\ outcome' = "crashed" /\ unsynced' = {dir'}
  BY DEF Crash
<1>11. PICK d \in unsynced : dir' = Retire(d)  BY DEF Crash
<1>12. d \in SUBSET Files  BY <1>1 DEF TypeOK
<1>4. /\ \A k : Data(dir', k, "live") = Data(d, k, "live") /\ Data(dir', k, "backup") = {}
      /\ \A k : Data(dir', k, "orphan") = Data(d, k, "orphan") \cup Data(d, k, "backup")
      /\ \A k : Data(dir', k, "stage") = Data(d, k, "stage")
  BY <1>11, <1>12, DataRetire
<1>5. Progress'
  BY <1>3 DEF Progress, Preparing
<1>6. Secured'
  <2>1. \A k \in Kinds : Secure(k)' = {"live", "orphan"}  BY <1>3 DEF Secure
  <2> SUFFICES ASSUME NEW o \in owed
               PROVE  \E r \in Secure(o[1])' : o[2] \in Data(dir', o[1], r)
    BY <1>3 DEF Secured
  <2>2. o[1] \in Kinds  BY <1>1 DEF TypeOK
  <2>3. Keeps(d, o[1], o[2])  BY <1>11 DEF IInv, NothingLost
  <2>4. \E r \in {"live", "backup", "orphan"} : o[2] \in Data(d, o[1], r)
    BY <1>12, <2>3, DataKeeps
  <2>5. o[2] \in Data(dir', o[1], "live") \/ o[2] \in Data(dir', o[1], "orphan")
    BY <1>4, <2>4
  <2> QED  BY <2>1, <2>2, <2>5
<1>7. Kept'
  BY <1>3 DEF Kept, Untouched, Inspected, Preparing, Touching
<1>8. Result'
  BY <1>3 DEF Result
<1>9. Tidy'
  BY <1>3, <1>4 DEF Tidy, Unstaged, NoBackup, Inspected, Preparing, Touching
<1>10. Written'
  BY <1>1, <1>3, <1>4, <1>11 DEF Local, Written
<1> QED  BY <1>5, <1>6, <1>7, <1>8, <1>9, <1>10 DEF Local
----------------------------------------------------------------------------
(* The theorems *)

\* Every directory a crash may leave keeps what is owed, step after step: a
\* change adds a directory that keeps it, an fsync only forgets directories.
LEMMA SafeStep ==
    ASSUME IInv, TypeOK', Local', Next
    PROVE  NothingLost'
<1>1. TypeOK /\ Local /\ NothingLost  BY DEF IInv
<1>2. \A o \in owed' : Keeps(dir', o[1], o[2])
  <2> SUFFICES ASSUME NEW o \in owed' PROVE Keeps(dir', o[1], o[2])  OBVIOUS
  <2>1. o[1] \in Kinds /\ dir' \in SUBSET Files  BY DEF TypeOK
  <2>2. \A k \in Kinds : Secure(k)' \subseteq {"live", "backup", "orphan"}  BY DEF Secure
  <2>3. \E r \in Secure(o[1])' : o[2] \in Data(dir', o[1], r)  BY DEF Local, Secured
  <2> QED  BY <2>1, <2>2, <2>3, DataKeeps
<1>3. CASE unsynced' \subseteq unsynced \cup {dir'} /\ owed' = owed
  BY <1>1, <1>2, <1>3 DEF NothingLost
<1>4. CASE SyncInstalled
  <2>1. CASE unsynced' = {dir'}  BY <1>2, <2>1 DEF NothingLost
  <2>2. CASE unsynced' = unsynced /\ owed' = owed  BY <1>1, <2>2 DEF NothingLost
  <2> QED  BY <1>4, <2>1, <2>2 DEF SyncInstalled, Fsync, disk
<1>5. CASE Finish
  <2>1. owed' = owed /\ unsynced' = {Retire(d) : d \in unsynced} \cup {dir'}
    BY <1>5 DEF Finish
  <2>2. ASSUME NEW d \in unsynced, NEW o \in owed PROVE Keeps(Retire(d), o[1], o[2])
    <3>1. d \in SUBSET Files  BY <1>1 DEF TypeOK
    <3>2. Keeps(d, o[1], o[2])  BY <1>1 DEF NothingLost
    <3>3. \E r \in {"live", "backup", "orphan"} : o[2] \in Data(d, o[1], r)
      BY <3>1, <3>2, DataKeeps
    <3>4. \E r \in {"live", "backup", "orphan"} : o[2] \in Data(Retire(d), o[1], r)
      BY <3>1, <3>3, DataRetire
    <3>5. Retire(d) \in SUBSET Files  BY <3>1, DataRetire
    <3> QED  BY <3>4, <3>5, DataKeeps
  <2> QED  BY <1>2, <2>1, <2>2 DEF NothingLost
<1>6. CASE Crash
  BY <1>2, <1>6 DEF Crash, NothingLost
<1>7. CASE \E b \in Wanted : Start(b)
  <2>1. /\ unsynced' = unsynced
        /\ owed' = owed \cup {o \in Contents(dir) : \A d \in unsynced : Keeps(d, o[1], o[2])}
    BY <1>7 DEF Start, disk
  <2> QED  BY <1>1, <2>1 DEF NothingLost
<1>8. CASE Replace /\ ~SyncInstalled /\ ~Finish
  <2>1. UNCHANGED disk => unsynced' \subseteq unsynced \cup {dir'}  BY DEF disk
  <2>2. \A d : Change(d) => unsynced' \subseteq unsynced \cup {dir'}  BY DEF Change
  <2>3. Fsync => unsynced' \subseteq unsynced \cup {dir'}  BY DEF Fsync
  <2>4. UNCHANGED disk \/ Fsync \/ \E d : Change(d)
    BY <1>8, Zenon
    DEF Replace, CleanStaging, Stage, Inspect, Reserve, Unmark, MoveAside, Publish, Verify,
        DropBackup, FinalSync, RestoreRemove, PutBack, RollbackSync, Revalidate, disk
  <2>5. owed' = owed
    BY <1>8
    DEF Replace, CleanStaging, Stage, Inspect, Reserve, Unmark, MoveAside, Publish, Verify,
        DropBackup, FinalSync, RestoreRemove, PutBack, RollbackSync, Revalidate
  <2> QED  BY <1>3, <2>1, <2>2, <2>3, <2>4, <2>5
<1> QED  BY <1>4, <1>5, <1>6, <1>7, <1>8 DEF Next

LEMMA LocalStep == ASSUME "lstat" \notin FaultyOps, IInv, Next PROVE Local'
BY CleanStagingStep, StageStep, InspectStep, ReserveStep, UnmarkStep, MoveAsideStep,
   PublishStep, VerifyStep, SyncInstalledStep, DropBackupStep, FinalSyncStep,
   RestoreRemoveStep, PutBackStep, RollbackSyncStep, RevalidateStep, FinishStep,
   StartStep, CrashStep
DEF Next, Replace

LEMMA InitInvariant == ASSUME Init PROVE IInv
<1>1. PICK c \in [Kinds -> Bundles \cup {Empty}] :
         dir = {File(k, "live", c[k]) : k \in {j \in Kinds : c[j] # Empty}}
  BY DEF Init
<1>2. ASSUME NEW e \in dir
      PROVE  e \in Files /\ e.role = "live" /\ e.kind \in Kinds /\ e.data \in Bundles
  <2>1. PICK k \in Kinds : c[k] # Empty /\ e = File(k, "live", c[k])  BY <1>1
  <2>2. c[k] \in Bundles  BY <2>1
  <2>3. "live" \in Roles  BY DEF Roles
  <2>4. e \in Files  BY <2>1, <2>2, <2>3, FileIn
  <2> QED  BY <2>1, <2>2, <2>4, FileFields
<1>3. dir \in SUBSET Files /\ unsynced = {dir} /\ owed = Contents(dir) /\ before = {}
  BY <1>2 DEF Init
<1>4. ASSUME NEW o \in Contents(dir)
      PROVE  o \in Kinds \X Bundles /\ o[2] \in Data(dir, o[1], "live")
  <2>1. PICK e \in dir : o = <<e.kind, e.data>>  BY DEF Contents, LiveIn
  <2>2. e \in At(dir, e.kind, "live")  BY <1>2, <2>1 DEF At
  <2> QED  BY <1>2, <2>1, <2>2 DEF Data
<1>5. \A k : /\ Data(dir, k, "stage") = {} /\ Data(dir, k, "backup") = {}
             /\ Data(dir, k, "live") \subseteq Bundles
  BY <1>2 DEF Data, At
<1>6. TypeOK
  <2>1. "cert" \in Kinds  BY DEF Kinds
  <2>2. owed \subseteq Kinds \X Bundles  BY <1>3, <1>4
  <2>3. dir \subseteq Files /\ unsynced \subseteq SUBSET Files /\ dir \in unsynced /\ before \subseteq Files
    BY <1>3
  <2>4. old \in [Kinds -> {"absent", "kept", "moved"}] /\ rollbackErr \in BOOLEAN
    BY DEF Init
  <2>5. /\ pc = "idle" /\ at = "cert" /\ want = Empty /\ outcome = "none"
        /\ faults = 0 /\ crashes = 0
    BY DEF Init
  <2>6. faults \in 0..MaxFaults /\ crashes \in 0..MaxCrashes  BY <2>5, ConstantsAssumption
  <2> QED  BY <2>1, <2>2, <2>3, <2>4, <2>5, <2>6 DEF TypeOK
<1>7. NothingLost
  BY <1>3, <1>4, DataKeeps DEF NothingLost
<1>8. Progress  BY DEF Init, Progress, Preparing
<1>9. Secured
  <2>1. \A k \in Kinds : Secure(k) = {"live", "orphan"}  BY DEF Init, Secure
  <2> QED  BY <1>3, <1>4, <2>1 DEF Secured
<1>10. Kept  BY DEF Init, Kept, Untouched, Preparing, Touching
<1>11. Result  BY DEF Init, Result
<1>12. Tidy  BY <1>5 DEF Tidy
<1>13. Written  BY <1>3, <1>5 DEF Init, Written
<1> QED  BY <1>6, <1>7, <1>8, <1>9, <1>10, <1>11, <1>12, <1>13 DEF IInv, Local

LEMMA Invariance == ASSUME "lstat" \notin FaultyOps PROVE Spec => []IInv
<1>1. Init => IInv  BY InitInvariant
<1>2. ASSUME IInv, [Next]_vars PROVE IInv'
  <2>1. CASE Next
    <3>1. TypeOK /\ Written  BY <1>2 DEF IInv, Local
    <3>2. TypeOK'  BY <2>1, <3>1, TypeStep
    <3>3. Local'  BY <1>2, <2>1, LocalStep
    <3>4. NothingLost'  BY <1>2, <2>1, <3>2, <3>3, SafeStep
    <3> QED  BY <3>2, <3>3, <3>4 DEF IInv
  <2>2. CASE UNCHANGED vars
    BY <1>2, <2>2
    DEF vars, IInv, TypeOK, NothingLost, Local, Progress, Preparing, Touching, Inspected,
        Secure, Secured, Former, Intact, Aside, Untouched, Kept, Installed, Result, Unstaged,
        NoBackup, Tidy, Written
  <2> QED  BY <1>2, <2>1, <2>2
<1> QED  BY <1>1, <1>2, PTL DEF Spec

\* The variables keep the shape the code gives them, whatever fails but lstat.
THEOREM Typing == ASSUME "lstat" \notin FaultyOps PROVE Spec => []TypeOK
<1>1. IInv => TypeOK  BY DEF IInv
<1> QED  BY <1>1, Invariance, PTL

\* Every byte of the pair that was live when replacePair began stays on the disk,
\* live or in a backup, until the new pair is durable: whatever call of the file
\* system fails, lstat excepted, and whenever the process dies.
THEOREM Safekeeping == ASSUME "lstat" \notin FaultyOps PROVE Spec => []NothingLost
<1>1. IInv => NothingLost  BY DEF IInv
<1> QED  BY <1>1, Invariance, PTL

\* What replacePair returns is what the directory holds: the old pair after an
\* error that reports no failed rollback, the new one, durably, after a success
\* or an error of the last clean-up; no staging file survives a success.
THEOREM TrueReport == ASSUME "lstat" \notin FaultyOps PROVE Spec => []ReportIsTrue
<1>1. ASSUME IInv PROVE ReportIsTrue
  <2>1. TypeOK /\ Local  BY <1>1 DEF IInv
  <2>2. dir \in SUBSET Files /\ before \in SUBSET Files /\ unsynced \subseteq SUBSET Files
    BY <2>1 DEF TypeOK
  <2>3. ASSUME pc = "idle", outcome = "failed" PROVE LiveIn(dir) = before
    <3>1. \A k \in Kinds : Data(dir, k, "live") = {e.data : e \in {f \in before : f.kind = k}}
      BY <2>1, <2>3 DEF Local, Kept, Untouched, Intact, Former
    <3>2. \A e \in before : e.role = "live"  BY <2>1 DEF Local, Written
    <3> QED  BY <2>2, <3>1, <3>2, DataLive
  <2>4. ASSUME pc = "idle", outcome \in {"ok", "leftover"}, NEW d \in unsynced
        PROVE  Holds(d, want)
    <3>1. Installed(d)  BY <2>1, <2>4 DEF Local, Result
    <3> QED  BY <2>2, <3>1, DataHolds DEF Installed
  <2>5. ASSUME pc = "idle", outcome = "ok", NEW e \in dir
        PROVE  e.role \in {"live", "orphan"}
    <3>1. e.kind \in Kinds /\ e.role \in Roles  BY <2>2 DEF Files
    <3>2. e.data \in Data(dir, e.kind, e.role)  BY DEF Data, At
    <3>3. Data(dir, e.kind, "stage") = {} /\ Data(dir, e.kind, "backup") = {}
      BY <2>1, <2>5, <3>1 DEF Local, Tidy, Unstaged, NoBackup
    <3>4. e.role # "stage" /\ e.role # "backup"  BY <3>2, <3>3
    <3> QED  BY <3>1, <3>4 DEF Roles
  <2> QED  BY <2>3, <2>4, <2>5 DEF ReportIsTrue, FailureRestores
<1> QED  BY <1>1, Invariance, PTL
=============================================================================
