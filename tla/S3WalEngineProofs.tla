-------------------------- MODULE S3WalEngineProofs ---------------------------
(****************************************************************************)
(* Proofs about S3WalEngine, for any processes, writes, attempts, retention  *)
(* and bounds: types always; for one process that takes writes, beside any   *)
(* polling followers and its own reaper, idle close and eviction, that       *)
(* replicated batches are in a stored snapshot, that its label is right and   *)
(* that only the reaper writes over one, in every behaviour in which the      *)
(* reaper's call does not overlap a write's or a flush's and the connection   *)
(* is there when a snapshot is due (Apart); and in async mode, for any        *)
(* processes, that an acknowledged write keeps its job row.                   *)
(*                                                                           *)
(* The inductive invariants are TypeInv (types), IInv (one writing process), *)
(* Labelled and Fresh (its labels and its ids) and RowsInv (job rows).       *)
(****************************************************************************)
EXTENDS S3WalEngine, ManifestProofs, NaturalsInduction, WellFoundedInduction

------------------------------------------------------------------------------
(* A set of writes is listed in ascending order.                             *)

(* A set of numbers has a least one.                                          *)
LEMMA LeastNumber ==
  ASSUME NEW T \in SUBSET Nat, T # {}
  PROVE  \E m \in T : \A n \in T : m <= n
<1>1. PICK m \in T : \A n \in T : <<n, m>> \notin OpToRel(<, Nat)
  BY NatLessThanWellFounded, WFMin
<1>2. \A n \in T : ~(n < m)
  BY <1>1 DEF OpToRel
<1> QED
  BY <1>2

(* A set of writes has a number of elements.                                  *)
LEMMA WritesFinite ==
  ASSUME EngineAssumption, NEW S \in SUBSET Writes
  PROVE  IsFiniteSet(S) /\ Cardinality(S) \in Nat
<1>1. IsFiniteSet(Writes)
  BY FS_Interval DEF EngineAssumption, Writes
<1> QED
  BY <1>1, FS_Subset, FS_CardinalityType

(* The greatest write of a set.                                              *)
LEMMA LatestWrite ==
  ASSUME EngineAssumption, NEW S \in SUBSET Writes, S # {}
  PROVE  \E x \in S : \A y \in S : y <= x
<1> DEFINE bounds == {b \in Nat : \A y \in S : y <= b}
<1>1. MaxWrites \in Nat /\ S \subseteq 1..MaxWrites
  BY DEF EngineAssumption, Writes
<1>2. MaxWrites \in bounds
  BY <1>1
<1>3. PICK b \in bounds : \A c \in bounds : b <= c
  <2>1. bounds \in SUBSET Nat /\ bounds # {}
    BY <1>2
  <2> HIDE DEF bounds
  <2> QED
    BY <2>1, LeastNumber
<1>4. b \in S
  <2> SUFFICES ASSUME b \notin S PROVE FALSE
    OBVIOUS
  <2>1. PICK y \in S : y <= b
    OBVIOUS
  <2>2. b \in Nat /\ b # 0
    BY <1>1, <2>1
  <2>3. \A z \in S : z <= b - 1
    BY <1>1, <2>2
  <2>4. b - 1 \in bounds
    BY <2>2, <2>3
  <2> QED
    BY <1>3, <2>2, <2>4
<1> QED
  BY <1>4

(* What InOrder chooses: an ascending enumeration.                            *)
Enumerates(s, S) ==
  /\ s \in [1..Cardinality(S) -> S]
  /\ \A i, j \in DOMAIN s : i < j => s[i] < s[j]

(* There is one, by induction on the number of elements.                      *)
LEMMA EnumerationExists ==
  ASSUME EngineAssumption
  PROVE  \A S \in SUBSET Writes : \E s : Enumerates(s, S)
<1> DEFINE bad == {k \in Nat : \E S \in SUBSET Writes :
                                 Cardinality(S) = k /\ ~ \E s : Enumerates(s, S)}
<1>1. SUFFICES ASSUME bad # {} PROVE FALSE
  BY WritesFinite
<1>2. PICK k \in bad : \A m \in bad : k <= m
  <2>1. bad \in SUBSET Nat
    OBVIOUS
  <2> HIDE DEF bad
  <2> QED
    BY <1>1, <2>1, LeastNumber
<1>3. PICK S \in SUBSET Writes : Cardinality(S) = k /\ ~ \E s : Enumerates(s, S)
  OBVIOUS
<1>4. IsFiniteSet(S) /\ k \in Nat
  BY WritesFinite
<1>5. S # {}
  <2> SUFFICES ASSUME S = {} PROVE FALSE
    OBVIOUS
  <2>1. Cardinality(S) = 0
    BY FS_EmptySet
  <2>2. Enumerates([i \in 1..0 |-> 0], S)
    BY <2>1 DEF Enumerates
  <2> QED
    BY <1>3, <2>2
<1>6. PICK x \in S : \A y \in S : y <= x
  BY <1>5, LatestWrite
<1> DEFINE R == S \ {x}
<1>7. Cardinality(R) = k - 1 /\ k - 1 \in Nat
  <2>1. IsFiniteSet(R) /\ Cardinality(R) = Cardinality(S) - 1
    BY <1>4, FS_RemoveElement
  <2>2. Cardinality(R) \in Nat
    BY <2>1, FS_CardinalityType
  <2> QED
    BY <1>3, <2>1, <2>2
<1>8. k - 1 \notin bad
  BY <1>2, <1>4, <1>7
<1>9. PICK s : Enumerates(s, R)
  BY <1>7, <1>8
<1> DEFINE z == [i \in 1..k |-> IF i = k THEN x ELSE s[i]]
<1>10. s \in [1..(k - 1) -> R] /\ \A i, j \in 1..(k - 1) : i < j => s[i] < s[j]
  BY <1>7, <1>9 DEF Enumerates
<1>11. R \subseteq Nat /\ x \in Nat /\ \A y \in R : y < x
  <2>1. S \subseteq Nat
    BY DEF Writes
  <2> QED
    BY <1>6, <2>1
<1>12. \A i \in 1..k : z[i] \in S /\ (i # k => i \in 1..(k - 1) /\ z[i] = s[i]) /\ z[k] = x
  BY <1>4, <1>7, <1>10
<1>13. \A i, j \in 1..k : i < j => z[i] < z[j]
  <2> SUFFICES ASSUME NEW i \in 1..k, NEW j \in 1..k, i < j PROVE z[i] < z[j]
    OBVIOUS
  <2>1. i # k /\ i \in 1..(k - 1) /\ z[i] = s[i] /\ s[i] \in R
    BY <1>4, <1>10, <1>12
  <2>2. CASE j = k
    BY <1>11, <1>12, <2>1, <2>2
  <2>3. CASE j # k
    <3>1. j \in 1..(k - 1) /\ z[j] = s[j]
      BY <1>12, <2>3
    <3> QED
      BY <1>10, <2>1, <3>1
  <2> QED
    BY <2>2, <2>3
<1>14. Enumerates(z, S)
  BY <1>3, <1>12, <1>13 DEF Enumerates
<1> QED
  BY <1>3, <1>14

(* InOrder lists each write of the set and no other.                          *)
LEMMA InOrderLists ==
  ASSUME EngineAssumption, NEW S \in SUBSET Writes
  PROVE  InOrder(S) \in Seq(Writes) /\ ToSet(InOrder(S)) = S
<1> DEFINE s == InOrder(S)
           k == Cardinality(S)
<1>1. Enumerates(s, S)
  <2>1. \E x : Enumerates(x, S)
    BY EnumerationExists
  <2> QED
    BY <2>1 DEF InOrder, Enumerates
<1>2. IsFiniteSet(S) /\ k \in Nat
  BY WritesFinite
<1> HIDE DEF s, k
<1>3. s \in [1..k -> S] /\ \A i, j \in 1..k : i < j => s[i] < s[j]
  BY <1>1 DEF Enumerates, k
<1>4. s \in Seq(Writes)
  BY <1>2, <1>3
<1>5. S \subseteq Nat
  BY DEF Writes
<1>6. \A i, j \in 1..k : s[i] = s[j] => i = j
  <2> SUFFICES ASSUME NEW i \in 1..k, NEW j \in 1..k, s[i] = s[j], i # j PROVE FALSE
    OBVIOUS
  <2>0. i < j \/ j < i
    OBVIOUS
  <2>1. s[i] \in S /\ s[j] \in S
    BY <1>3
  <2>3. s[i] \in Nat /\ s[j] \in Nat
    BY <1>5, <2>1
  <2>2. s[i] < s[j] \/ s[j] < s[i]
    BY <1>3, <2>0
  <2> QED
    BY <2>2, <2>3
<1>7. s \in Injection(1..k, S)
  BY <1>3, <1>6 DEF Injection, IsInjective
<1>8. Cardinality(1..k) = Cardinality(S)
  BY <1>2, FS_Interval DEF k
<1>9. s \in Surjection(1..k, S)
  BY <1>2, <1>7, <1>8, FS_Injection
<1>10. \A x \in S : \E i \in 1..k : s[i] = x
  BY <1>9 DEF Surjection
<1>11. ToSet(s) = S
  BY <1>3, <1>10 DEF ToSet
<1> QED
  BY <1>4, <1>11 DEF s

------------------------------------------------------------------------------
(* What the operations on a file's content keep.                             *)

(* The fields of a file, and which of its rows are queued.                    *)
LEMMA ContentIs ==
  ASSUME NEW c
  PROVE  c \in Content <=> /\ c = [docs |-> c.docs, jobs |-> c.jobs]
                           /\ c.docs \subseteq Writes /\ DOMAIN c.jobs \subseteq Writes
                           /\ c.jobs \in [DOMAIN c.jobs -> 0..MaxAttempts]
  BY DEF Content

(* Storing rows for S adds them and leaves the documents and other rows.      *)
LEMMA WithJobsIs ==
  ASSUME EngineAssumption, NEW c \in Content, NEW S \in SUBSET Writes
  PROVE  LET d == WithJobs(c, S) IN
         /\ d \in Content /\ d.docs = c.docs /\ DOMAIN d.jobs = DOMAIN c.jobs \cup S
         /\ \A w \in DOMAIN c.jobs : d.jobs[w] = c.jobs[w]
<1> DEFINE d == WithJobs(c, S)
<1>1. /\ c = [docs |-> c.docs, jobs |-> c.jobs] /\ c.docs \subseteq Writes
      /\ DOMAIN c.jobs \subseteq Writes /\ c.jobs \in [DOMAIN c.jobs -> 0..MaxAttempts]
  BY ContentIs
<1>2. d = [docs |-> c.docs,
           jobs |-> [w \in DOMAIN c.jobs \cup S |-> IF w \in DOMAIN c.jobs THEN c.jobs[w] ELSE 0]]
  BY <1>1 DEF WithJobs
<1>3. MaxAttempts \in Nat
  BY DEF EngineAssumption
<1> HIDE DEF d
<1>4. /\ d = [docs |-> d.docs, jobs |-> d.jobs] /\ d.docs = c.docs
      /\ DOMAIN d.jobs = DOMAIN c.jobs \cup S /\ \A w \in DOMAIN c.jobs : d.jobs[w] = c.jobs[w]
      /\ d.jobs \in [DOMAIN d.jobs -> 0..MaxAttempts]
  BY <1>1, <1>2, <1>3
<1>5. d \in Content
  BY <1>1, <1>4, ContentIs
<1> QED
  BY <1>4, <1>5 DEF d

(* Deleting the rows of S leaves the documents and the other rows.            *)
LEMMA WithoutJobsIs ==
  ASSUME NEW c \in Content, NEW S
  PROVE  LET d == WithoutJobs(c, S) IN
         /\ d \in Content /\ d.docs = c.docs /\ DOMAIN d.jobs = DOMAIN c.jobs \ S
<1> DEFINE d == WithoutJobs(c, S)
<1>1. /\ c = [docs |-> c.docs, jobs |-> c.jobs] /\ c.docs \subseteq Writes
      /\ DOMAIN c.jobs \subseteq Writes /\ c.jobs \in [DOMAIN c.jobs -> 0..MaxAttempts]
  BY ContentIs
<1>2. d = [docs |-> c.docs, jobs |-> [w \in DOMAIN c.jobs \ S |-> c.jobs[w]]]
  BY <1>1 DEF WithoutJobs
<1> HIDE DEF d
<1>3. /\ d = [docs |-> d.docs, jobs |-> d.jobs] /\ d.docs = c.docs
      /\ DOMAIN d.jobs = DOMAIN c.jobs \ S /\ d.jobs \in [DOMAIN d.jobs -> 0..MaxAttempts]
  BY <1>1, <1>2
<1>4. d \in Content
  BY <1>1, <1>3, ContentIs
<1> QED
  BY <1>3, <1>4 DEF d

(* An attempt is counted for jobs that are not dead yet.                     *)
LEMMA AttemptedIs ==
  ASSUME EngineAssumption, NEW c \in Content, NEW S,
         \A w \in S \cap DOMAIN c.jobs : c.jobs[w] < MaxAttempts
  PROVE  LET d == Attempted(c, S) IN
         /\ d \in Content /\ d.docs = c.docs /\ DOMAIN d.jobs = DOMAIN c.jobs
<1> DEFINE d == Attempted(c, S)
<1>1. /\ c = [docs |-> c.docs, jobs |-> c.jobs] /\ c.docs \subseteq Writes
      /\ DOMAIN c.jobs \subseteq Writes /\ c.jobs \in [DOMAIN c.jobs -> 0..MaxAttempts]
  BY ContentIs
<1>2. d = [docs |-> c.docs,
           jobs |-> [w \in DOMAIN c.jobs |-> IF w \in S THEN c.jobs[w] + 1 ELSE c.jobs[w]]]
  BY <1>1 DEF Attempted
<1>3. MaxAttempts \in Nat
  BY DEF EngineAssumption
<1> HIDE DEF d
<1>4. /\ d = [docs |-> d.docs, jobs |-> d.jobs] /\ d.docs = c.docs
      /\ DOMAIN d.jobs = DOMAIN c.jobs /\ d.jobs \in [DOMAIN d.jobs -> 0..MaxAttempts]
  BY <1>1, <1>2, <1>3
<1>5. d \in Content
  BY <1>1, <1>4, ContentIs
<1> QED
  BY <1>4, <1>5 DEF d

(* A commit adds its document and leaves the rows.                            *)
LEMMA WithDocIs ==
  ASSUME NEW c \in Content, NEW w \in Writes
  PROVE  LET d == [c EXCEPT !.docs = @ \cup {w}] IN
         /\ d \in Content /\ d.docs = c.docs \cup {w} /\ d.jobs = c.jobs
<1> DEFINE d == [c EXCEPT !.docs = @ \cup {w}]
<1>1. /\ c = [docs |-> c.docs, jobs |-> c.jobs] /\ c.docs \subseteq Writes
      /\ DOMAIN c.jobs \subseteq Writes /\ c.jobs \in [DOMAIN c.jobs -> 0..MaxAttempts]
  BY ContentIs
<1>2. d = [docs |-> c.docs \cup {w}, jobs |-> c.jobs]
  BY <1>1
<1> HIDE DEF d
<1>3. d.docs = c.docs \cup {w} /\ d.jobs = c.jobs
  BY <1>2
<1>4. d \in Content
  BY <1>1, <1>2, <1>3, ContentIs
<1> QED
  BY <1>3, <1>4 DEF d

(* A new file has neither documents nor rows.                                 *)
LEMMA EmptyIs ==
  ASSUME EngineAssumption
  PROVE  Empty \in Content /\ Empty.docs = {} /\ DOMAIN Empty.jobs = {}
<1>1. Empty = [docs |-> {}, jobs |-> <<>>] /\ <<>> \in [{} -> 0..MaxAttempts] /\ DOMAIN <<>> = {}
  BY DEF Empty
<1> QED
  BY <1>1, ContentIs

------------------------------------------------------------------------------
(* Types.                                                                    *)

(* A role is in the middle of a call. *)
Working(n, r) == task[n][r].pc # "idle"

(* From content C to D no job of C has been attempted once more.             *)
NoAttempt(C, D) ==
  \A w \in DOMAIN D.jobs : \/ D.jobs[w] = 0
                           \/ w \in DOMAIN C.jobs /\ D.jobs[w] = C.jobs[w]

(* What role r has at its label, with the files D of its process.  No job of  *)
(* a flush's batch is dead.                                                  *)
Fits(t, r, D) ==
  /\ t.pc = "execute" => t.inode \in Inodes
  /\ t.pc # "idle" /\ r \in {"flush", "reap"} => t.inode \in Inodes
  /\ t.pc = "enqueue" => t.batch # <<>>
  /\ t.pc = "append" => t.batch \in Batches
  /\ t.pc \in {"stamp", "put", "upsert"} => t.image \in Content
  /\ t.pc \in {"put", "upsert"} => t.id \in SnapshotId
  /\ r = "flush" /\ t.pc # "idle" =>
       \A w \in ToSet(t.batch) \cap DOMAIN D[t.inode].jobs : D[t.inode].jobs[w] < MaxAttempts

(* Every role of every process has what its label needs.                      *)
Fitting == \A n \in Writers, r \in Roles : Fits(task[n][r], r, disk[n])

(* The inductive invariant of the types.                                      *)
TypeInv ==
  /\ TypeOK /\ Fitting
  /\ manifest \in Manifest /\ Contiguous(manifest)
  /\ blobs = [id \in DOMAIN blobs |-> blobs[id]]

(* The rows a flush at work has taken are not attempted by this step.         *)
Undisturbed(t, r, C, D) == r = "flush" /\ t.pc # "idle" => NoAttempt(C[t.inode], D[t.inode])

(* The locals of one role change.                                             *)
LEMMA OneTask ==
  ASSUME NEW T \in [Writers -> [Roles -> Locals]], NEW n \in Writers, NEW r \in Roles,
         NEW x \in Locals, NEW U, U = [T EXCEPT ![n][r] = x]
  PROVE  /\ U \in [Writers -> [Roles -> Locals]] /\ U[n][r] = x
         /\ \A m \in Writers, s \in Roles : m # n \/ s # r => U[m][s] = T[m][s]
  OBVIOUS

(* One file changes.                                                          *)
LEMMA OneFile ==
  ASSUME NEW T \in [Writers -> [Inodes -> Content]], NEW n \in Writers, NEW i \in Inodes,
         NEW x \in Content, NEW U, U = [T EXCEPT ![n][i] = x]
  PROVE  /\ U \in [Writers -> [Inodes -> Content]] /\ U[n][i] = x
         /\ \A m \in Writers, j \in Inodes : m # n \/ j # i => U[m][j] = T[m][j]
  OBVIOUS

(* A step of role r that leaves the others what they need.                    *)
LEMMA FittingKept ==
  ASSUME EngineAssumption, Fitting,
         \A m \in Writers, s \in Roles :
           \/ Fits(task'[m][s], s, disk'[m])
           \/ task'[m][s] = task[m][s] /\ Undisturbed(task[m][s], s, disk[m], disk'[m])
  PROVE  Fitting'
<1> SUFFICES ASSUME NEW m \in Writers, NEW s \in Roles, task'[m][s] = task[m][s],
                    Undisturbed(task[m][s], s, disk[m], disk'[m])
             PROVE  Fits(task'[m][s], s, disk'[m])
  BY DEF Fitting
<1> DEFINE t == task[m][s]
           C == disk[m]
           D == disk'[m]
<1>1. Fits(t, s, C) /\ Undisturbed(t, s, C, D)
  BY DEF Fitting
<1>2. MaxAttempts \in Nat \ {0}
  BY DEF EngineAssumption
<1> HIDE DEF t, C, D
<1>3. ASSUME s = "flush", t.pc # "idle", NEW w \in ToSet(t.batch) \cap DOMAIN D[t.inode].jobs
      PROVE  D[t.inode].jobs[w] < MaxAttempts
  <2>1. \A v \in ToSet(t.batch) \cap DOMAIN C[t.inode].jobs : C[t.inode].jobs[v] < MaxAttempts
    BY <1>1, <1>3 DEF Fits
  <2>2. NoAttempt(C[t.inode], D[t.inode])
    BY <1>1, <1>3 DEF Undisturbed
  <2>3. \/ D[t.inode].jobs[w] = 0
        \/ w \in DOMAIN C[t.inode].jobs /\ D[t.inode].jobs[w] = C[t.inode].jobs[w]
    BY <1>3, <2>2 DEF NoAttempt
  <2> QED
    BY <1>2, <1>3, <2>1, <2>3
<1>4. Fits(t, s, D)
  BY <1>1, <1>3 DEF Fits
<1> QED
  BY <1>4 DEF t, D

(* An inode that is neither open nor at the path nor a task's.               *)
LEMMA FreeInodeIs ==
  ASSUME EngineAssumption, NEW n \in Writers, HasFreeInode(n)
  PROVE  FreeInode(n) \in Inodes /\ \A r \in Roles : FreeInode(n) # task[n][r].inode
<1> DEFINE used == {path[n], conn[n], opening[n]} \cup {task[n][r].inode : r \in Roles}
           free == Inodes \ used
<1>1. free # {} /\ free \in SUBSET Nat
  BY DEF HasFreeInode, EngineAssumption
<1>2. PICK i \in free : \A j \in free : i <= j
  <2> HIDE DEF free
  <2> QED
    BY <1>1, LeastNumber
<1>3. /\ i \in Inodes /\ i \notin used /\ \A j \in Inodes : j < i => j \in used
  BY <1>1, <1>2 DEF EngineAssumption
<1>4. FreeInode(n) \in Inodes /\ FreeInode(n) \notin used
  BY <1>3 DEF FreeInode
<1> QED
  BY <1>4

(* A hydration makes a file of an object in an inode nobody uses.             *)
LEMMA HydratedIs ==
  ASSUME EngineAssumption, TypeInv, NEW n \in Writers, NEW id, Hydrated(n, id)
  PROVE  /\ disk' \in [Writers -> [Inodes -> Content]]
         /\ path' \in [Writers -> Inodes \cup {None}] /\ path'[n] \in Inodes
         /\ id \in DOMAIN blobs /\ disk'[n][path'[n]] = blobs[id]
         /\ loaded' \in [Writers -> SnapshotId \cup {None}]
         /\ \A m \in Writers \ {n} : disk'[m] = disk[m] /\ path'[m] = path[m]
         /\ \A r \in Roles, i \in Inodes : task[n][r].inode = i => disk'[n][i] = disk[n][i]
<1> DEFINE i == FreeInode(n)
<1>1. i \in Inodes /\ \A r \in Roles : i # task[n][r].inode
  BY FreeInodeIs DEF Hydrated
<1>2. /\ id \in DOMAIN blobs /\ disk' = [disk EXCEPT ![n][i] = blobs[id]]
      /\ path' = [path EXCEPT ![n] = i] /\ loaded' = [loaded EXCEPT ![n] = id]
  BY DEF Hydrated
<1> HIDE DEF i
<1>3. blobs[id] \in Content /\ id \in SnapshotId /\ disk \in [Writers -> [Inodes -> Content]]
  BY <1>2 DEF TypeInv, TypeOK
<1>4. /\ path' \in [Writers -> Inodes \cup {None}] /\ path'[n] = i
      /\ loaded' \in [Writers -> SnapshotId \cup {None}]
      /\ \A m \in Writers \ {n} : path'[m] = path[m]
  BY <1>1, <1>2, <1>3 DEF TypeInv, TypeOK
<1>5. /\ disk' \in [Writers -> [Inodes -> Content]] /\ disk'[n][i] = blobs[id]
      /\ \A m \in Writers, j \in Inodes : m # n \/ j # i => disk'[m][j] = disk[m][j]
  BY <1>1, <1>2, <1>3, OneFile
<1>6. \A m \in Writers \ {n} : disk'[m] = disk[m]
  BY <1>1, <1>2, <1>3
<1> QED
  BY <1>1, <1>2, <1>4, <1>5, <1>6

(* The manifest stays contiguous when its catalog changes. *)
LEMMA SnapshotKeepsLog ==
  ASSUME NEW m \in Manifest, Contiguous(m), NEW s \in Snapshot, NEW w \in Writers, NEW time
  PROVE  WithSnapshot(m, s, w, time) \in Manifest /\ Contiguous(WithSnapshot(m, s, w, time))
<1> DEFINE m2 == WithSnapshot(m, s, w, time)
<1>1. /\ m2 \in Manifest /\ m2.segments = m.segments /\ m2.applied = m.applied
      /\ m2.watermark = m.watermark
  BY WithSnapshotType
<1> HIDE DEF m2
<1>2. Contiguous(m2)
  BY <1>1 DEF Contiguous, Base
<1> QED
  BY <1>1, <1>2 DEF m2

(* An idle role asks nothing of the files. *)
LEMMA IdleIs ==
  ASSUME EngineAssumption
  PROVE  /\ Idle \in Locals /\ Idle.pc = "idle" /\ Idle.batch = <<>>
         /\ \A r, D : Fits(Idle, r, D)
  BY DEF Idle, Locals, Labels, Fits

(* What the type of a task's locals says of each of them. *)
LEMMA LocalsIs ==
  ASSUME NEW t
  PROVE  t \in Locals <=>
           /\ t = [pc |-> t.pc, inode |-> t.inode, batch |-> t.batch, image |-> t.image,
                   id |-> t.id, gone |-> t.gone]
           /\ t.pc \in Labels /\ t.inode \in Inodes \cup {None} /\ t.batch \in Seq(Writes)
           /\ t.image \in Content \cup {None} /\ t.id \in SnapshotId \cup {None}
           /\ t.gone \in SUBSET SnapshotId
  BY DEF Locals

(* A process whose files stay disturbs no flush. *)
LEMMA SameFiles ==
  ASSUME NEW D, NEW t, NEW r
  PROVE  Undisturbed(t, r, D, D)
  BY DEF Undisturbed, NoAttempt

(* A step of one role: its locals fit, and its files disturb no other role. *)
LEMMA RoleStep ==
  ASSUME EngineAssumption, TypeInv, NEW n \in Writers, NEW r \in Roles, NEW x \in Locals,
         Become(n, r, x), Fits(x, r, disk'[n]),
         \A m \in Writers, s \in Roles :
           m # n \/ s # r => Undisturbed(task[m][s], s, disk[m], disk'[m])
  PROVE  task' \in [Writers -> [Roles -> Locals]] /\ Fitting'
<1>1. task \in [Writers -> [Roles -> Locals]] /\ task' = [task EXCEPT ![n][r] = x]
  BY DEF TypeInv, TypeOK, Become
<1>2. /\ task' \in [Writers -> [Roles -> Locals]] /\ task'[n][r] = x
      /\ \A m \in Writers, s \in Roles : m # n \/ s # r => task'[m][s] = task[m][s]
  BY <1>1, OneTask
<1>3. \A m \in Writers, s \in Roles :
        \/ Fits(task'[m][s], s, disk'[m])
        \/ task'[m][s] = task[m][s] /\ Undisturbed(task[m][s], s, disk[m], disk'[m])
  BY <1>2
<1> QED
  BY <1>2, <1>3, FittingKept DEF TypeInv

(* A step of one role that writes one file without counting an attempt. *)
LEMMA FileStep ==
  ASSUME EngineAssumption, TypeInv, NEW n \in Writers, NEW i \in Inodes, NEW c \in Content,
         disk' = [disk EXCEPT ![n][i] = c], NoAttempt(disk[n][i], c)
  PROVE  /\ disk' \in [Writers -> [Inodes -> Content]] /\ disk'[n][i] = c
         /\ \A m \in Writers, j \in Inodes : m # n \/ j # i => disk'[m][j] = disk[m][j]
         /\ \A m \in Writers, s \in Roles : Undisturbed(task[m][s], s, disk[m], disk'[m])
<1>1. disk \in [Writers -> [Inodes -> Content]]
  BY DEF TypeInv, TypeOK
<1>2. /\ disk' \in [Writers -> [Inodes -> Content]] /\ disk'[n][i] = c
      /\ \A m \in Writers, j \in Inodes : m # n \/ j # i => disk'[m][j] = disk[m][j]
  BY <1>1, OneFile
<1>3. ASSUME NEW m \in Writers, NEW s \in Roles, s = "flush", task[m][s].pc # "idle"
      PROVE  NoAttempt(disk[m][task[m][s].inode], disk'[m][task[m][s].inode])
  <2>1. task[m][s].inode \in Inodes
    BY <1>3 DEF TypeInv, Fitting, Fits
  <2>2. CASE m = n /\ task[m][s].inode = i
    BY <1>2, <2>2
  <2>3. CASE ~(m = n /\ task[m][s].inode = i)
    BY <1>2, <2>1, <2>3 DEF NoAttempt
  <2> QED
    BY <2>2, <2>3
<1> QED
  BY <1>2, <1>3 DEF Undisturbed

(* get_conn keeps the types. *)
LEMMA TypedOpen ==
  ASSUME EngineAssumption, TypeInv, NEW n \in Writers, Open(n)
  PROVE  TypeInv'
<1>1. CASE StartOpen(n)
  <2>1. /\ disk' \in [Writers -> [Inodes -> Content]]
        /\ path' \in [Writers -> Inodes \cup {None}]
        /\ loaded' \in [Writers -> SnapshotId \cup {None}]
        /\ \A m \in Writers \ {n} : disk'[m] = disk[m]
        /\ \A r \in Roles, i \in Inodes : task[n][r].inode = i => disk'[n][i] = disk[n][i]
    <3>1. CASE path[n] = None
      <4>1. Hydrated(n, manifest.current)
        BY <1>1, <3>1 DEF StartOpen
      <4> QED
        BY <4>1, HydratedIs
    <3>2. CASE path[n] # None
      BY <1>1, <3>2 DEF StartOpen, TypeInv, TypeOK
    <3> QED
      BY <3>1, <3>2
  <2>2. opening' \in [Writers -> Inodes \cup {None}]
    BY <1>1, <2>1 DEF StartOpen, TypeInv, TypeOK
  <2>3. UNCHANGED <<now, remote, conn, staged, task, client>>
    BY <1>1 DEF StartOpen
  <2>4. ASSUME NEW m \in Writers, NEW s \in Roles
        PROVE  Undisturbed(task[m][s], s, disk[m], disk'[m])
    <3>1. CASE m # n
      BY <2>1, <3>1, SameFiles
    <3>2. CASE m = n
      <4>1. Fits(task[m][s], s, disk[m])
        BY DEF TypeInv, Fitting
      <4> QED
        BY <2>1, <3>2, <4>1 DEF Fits, Undisturbed, NoAttempt
    <3> QED
      BY <3>1, <3>2
  <2>5. Fitting'
    BY <2>3, <2>4, FittingKept DEF TypeInv
  <2> QED
    BY <2>1, <2>2, <2>3, <2>5 DEF TypeInv, TypeOK, remote, client
<1>2. CASE FinishOpen(n)
  <2>1. UNCHANGED <<now, remote, disk, path, staged, task, client>>
    BY <1>2 DEF FinishOpen
  <2>2. manifest.current \in SnapshotId \cup {None}
    BY DEF TypeInv, Manifest
  <2>3. /\ conn' \in [Writers -> Inodes \cup {None}] /\ opening' \in [Writers -> Inodes \cup {None}]
        /\ loaded' \in [Writers -> SnapshotId \cup {None}]
    BY <1>2, <2>2 DEF FinishOpen, TypeInv, TypeOK
  <2>4. Fitting'
    BY <2>1 DEF TypeInv, Fitting
  <2> QED
    BY <2>1, <2>3, <2>4 DEF TypeInv, TypeOK, remote, client
<1> QED
  BY <1>1, <1>2 DEF Open

(* So does dropping the connection. *)
LEMMA TypedClose ==
  ASSUME EngineAssumption, TypeInv, NEW n \in Writers, Close(n)
  PROVE  TypeInv'
<1>1. UNCHANGED <<now, remote, disk, path, opening, staged, task, client>>
  BY DEF Close
<1>2. conn' \in [Writers -> Inodes \cup {None}] /\ loaded' \in [Writers -> SnapshotId \cup {None}]
  BY DEF Close, TypeInv, TypeOK
<1>3. Fitting'
  BY <1>1 DEF TypeInv, Fitting
<1> QED
  BY <1>1, <1>2, <1>3 DEF TypeInv, TypeOK, remote, client

(* A role that begins a call or goes on, in a step that writes no file. *)
LEMMA TypedTask ==
  ASSUME EngineAssumption, TypeInv, NEW n \in Writers, NEW r \in Roles, NEW x \in Locals,
         Become(n, r, x), Fits(x, r, disk[n]), disk' = disk
  PROVE  task' \in [Writers -> [Roles -> Locals]] /\ Fitting'
  BY SameFiles, RoleStep

(* A call that failed: its role is idle, or a flush that has an attempt to    *)
(* count for the rows it took.                                                *)
LEMMA FailedIs ==
  ASSUME EngineAssumption, TypeInv, NEW n \in Writers, NEW r \in Roles, NEW reason,
         Working(n, r), Failed(n, r, reason)
  PROVE  \E x \in Locals :
           /\ Become(n, r, x) /\ Fits(x, r, disk[n])
           /\ \/ x = Idle
              \/ /\ r = "flush" /\ x.pc = "bump"
                 /\ x.inode = task[n][r].inode /\ x.batch = task[n][r].batch
<1> DEFINE t == task[n][r]
           y == [Idle EXCEPT !.pc = "bump", !.inode = t.inode, !.batch = t.batch]
<1>1. t \in Locals /\ Fits(t, r, disk[n]) /\ t.pc # "idle"
  BY DEF TypeInv, TypeOK, Fitting, Working
<1> HIDE DEF t
<1>2. CASE r = "flush" /\ reason = "error"
  <2>1. y \in Locals /\ y.pc = "bump" /\ y.inode = t.inode /\ y.batch = t.batch
    <3>1. t.inode \in Inodes \cup {None} /\ t.batch \in Seq(Writes)
      BY <1>1 DEF Locals
    <3> QED
      BY <3>1, IdleIs DEF Locals, Labels
  <2>2. Become(n, r, y)
    BY <1>2 DEF Failed, t
  <2> HIDE DEF y
  <2>3. Fits(y, r, disk[n])
    BY <1>1, <1>2, <2>1 DEF Fits
  <2> QED
    BY <1>2, <2>1, <2>2, <2>3 DEF t
<1>3. CASE ~(r = "flush" /\ reason = "error")
  <2>1. Become(n, r, Idle)
    BY <1>3 DEF Failed
  <2> QED
    BY <2>1, IdleIs
<1> QED
  BY <1>2, <1>3

LEMMA FailedKeeps ==
  ASSUME EngineAssumption, TypeInv, NEW n \in Writers, NEW r \in Roles, NEW reason,
         Working(n, r), Failed(n, r, reason), disk' = disk
  PROVE  task' \in [Writers -> [Roles -> Locals]] /\ Fitting'
<1>1. PICK x \in Locals : Become(n, r, x) /\ Fits(x, r, disk[n])
  BY FailedIs
<1> QED
  BY <1>1, TypedTask

(* The steps of the write coordinator outside of a snapshot. *)
LEMMA TypedWrite ==
  ASSUME EngineAssumption, TypeInv, NEW n \in Writers,
         WriteOpen(n) \/ WriteCommit(n) \/ Enqueue(n)
  PROVE  TypeInv'
<1> DEFINE t == task[n]["write"]
<1>0. /\ "write" \in Roles /\ t \in Locals /\ Fits(t, "write", disk[n])
      /\ disk \in [Writers -> [Inodes -> Content]] /\ conn[n] \in Inodes \cup {None}
  BY DEF Roles, TypeInv, TypeOK, Fitting
<1>1. CASE WriteOpen(n)
  <2> DEFINE x == [Idle EXCEPT !.pc = "execute", !.inode = conn[n]]
  <2>1. UNCHANGED <<now, remote, local, client>> /\ Become(n, "write", x) /\ conn[n] \in Inodes
    BY <1>0, <1>1 DEF WriteOpen
  <2>2. x \in Locals /\ Fits(x, "write", disk[n])
    <3>1. x \in Locals /\ x.pc = "execute" /\ x.inode = conn[n]
      BY <2>1, IdleIs DEF Locals, Labels
    <3> QED
      BY <2>1, <3>1 DEF Fits
  <2>3. task' \in [Writers -> [Roles -> Locals]] /\ Fitting'
    BY <1>0, <2>1, <2>2, TypedTask DEF local
  <2> QED
    BY <2>1, <2>3 DEF TypeInv, TypeOK, remote, local, client
<1>2. CASE WriteCommit(n)
  <2> DEFINE w == issued + 1
             i == t.inode
             c == [disk[n][i] EXCEPT !.docs = @ \cup {w}]
             x == [Idle EXCEPT !.pc = IF Async THEN "enqueue" ELSE "append", !.batch = <<w>>]
  <2>1. /\ UNCHANGED <<now, remote, path, conn, opening, loaded, staged, acked, replicated>>
        /\ issued' = w /\ Become(n, "write", x) /\ t.pc = "execute" /\ issued < MaxWrites
        /\ disk' = [disk EXCEPT ![n][i].docs = @ \cup {w}]
    BY <1>2 DEF WriteCommit, At
  <2>2. i \in Inodes /\ disk[n][i] \in Content
    BY <1>0, <2>1 DEF Fits
  <2>3. w \in Writes /\ w \in 0..MaxWrites
    BY <2>1 DEF TypeInv, TypeOK, EngineAssumption, Writes
  <2>4. c \in Content /\ c.jobs = disk[n][i].jobs
    BY <2>2, <2>3, WithDocIs
  <2>5. disk' = [disk EXCEPT ![n][i] = c]
    BY <1>0, <2>1, <2>2
  <2>6. NoAttempt(disk[n][i], c)
    BY <2>4 DEF NoAttempt
  <2> HIDE DEF c
  <2>7. /\ disk' \in [Writers -> [Inodes -> Content]]
        /\ \A m \in Writers, s \in Roles : Undisturbed(task[m][s], s, disk[m], disk'[m])
    BY <2>2, <2>4, <2>5, <2>6, FileStep
  <2>8. x \in Locals /\ Fits(x, "write", disk'[n])
    <3>1. <<w>> \in Batches /\ <<w>> \in Seq(Writes) /\ <<w>> # <<>>
      BY <2>3 DEF EngineAssumption
    <3> HIDE DEF w
    <3>2. x \in Locals /\ x.pc \in {"enqueue", "append"} /\ x.batch = <<w>>
      BY <3>1, IdleIs DEF Locals, Labels
    <3> QED
      BY <3>1, <3>2 DEF Fits
  <2> HIDE DEF x
  <2>9. task' \in [Writers -> [Roles -> Locals]] /\ Fitting'
    BY <1>0, <2>1, <2>7, <2>8, RoleStep
  <2> QED
    BY <2>1, <2>3, <2>7, <2>9 DEF TypeInv, TypeOK, remote
<1>3. CASE Enqueue(n)
  <2> DEFINE w == t.batch[1]
             i == conn[n]
             c == WithJobs(disk[n][i], {w})
  <2>1. /\ UNCHANGED <<now, remote, path, conn, opening, loaded, issued, replicated>>
        /\ acked' \in {acked, acked \cup {w}} /\ Become(n, "write", Idle) /\ t.pc = "enqueue"
        /\ \/ i # None /\ disk' = [disk EXCEPT ![n][i] = WithJobs(@, {w})] /\ UNCHANGED staged
           \/ staged' = [staged EXCEPT ![n] = @ \cup {w}] /\ UNCHANGED disk
           \/ UNCHANGED <<disk, staged>>
    BY <1>3 DEF Enqueue, At
  <2>2. i # None => i \in Inodes /\ disk[n][i] \in Content
    BY <1>0
  <2>3. w \in Writes
    BY <1>0, <2>1 DEF Fits, Locals
  <2>4. ASSUME i # None PROVE c \in Content /\ NoAttempt(disk[n][i], c)
    <3>1. /\ c \in Content /\ DOMAIN c.jobs = DOMAIN disk[n][i].jobs \cup {w}
          /\ \A v \in DOMAIN disk[n][i].jobs : c.jobs[v] = disk[n][i].jobs[v]
      BY <2>2, <2>3, <2>4, WithJobsIs
    <3>2. w \notin DOMAIN disk[n][i].jobs => c.jobs[w] = 0
      <4>1. disk[n][i] = [docs |-> disk[n][i].docs, jobs |-> disk[n][i].jobs]
        BY <2>2, <2>4, ContentIs
      <4> QED
        BY <4>1 DEF WithJobs
    <3> HIDE DEF c, i, w
    <3> QED
      BY <3>1, <3>2 DEF NoAttempt
  <2>5. /\ disk' \in [Writers -> [Inodes -> Content]] /\ staged' \in [Writers -> SUBSET Writes]
        /\ \A m \in Writers, s \in Roles : Undisturbed(task[m][s], s, disk[m], disk'[m])
    <3>1. CASE i # None /\ disk' = [disk EXCEPT ![n][i] = WithJobs(@, {w})] /\ UNCHANGED staged
      <4>1. disk' = [disk EXCEPT ![n][i] = c]
        BY <1>0, <2>2, <3>1
      <4> HIDE DEF c, i, w
      <4> QED
        BY <2>2, <2>4, <3>1, <4>1, FileStep DEF TypeInv, TypeOK
    <3>2. CASE staged' = [staged EXCEPT ![n] = @ \cup {w}] /\ UNCHANGED disk
      BY <2>3, <3>2, SameFiles DEF TypeInv, TypeOK
    <3>3. CASE UNCHANGED <<disk, staged>>
      BY <3>3, SameFiles DEF TypeInv, TypeOK
    <3> QED
      BY <2>1, <3>1, <3>2, <3>3
  <2> HIDE DEF w, i, c
  <2>6. task' \in [Writers -> [Roles -> Locals]] /\ Fitting'
    BY <1>0, <2>1, <2>5, IdleIs, RoleStep
  <2>7. acked' \subseteq Writes
    BY <2>1, <2>3 DEF TypeInv, TypeOK
  <2> QED
    BY <2>1, <2>5, <2>6, <2>7 DEF TypeInv, TypeOK, remote
<1> QED
  BY <1>1, <1>2, <1>3

(* append_segment adds a segment made of the batch. *)
LEMMA TypedAppend ==
  ASSUME EngineAssumption, TypeInv, NEW n \in Writers, NEW r \in Roles, AppendBatch(n, r)
  PROVE  TypeInv'
<1> DEFINE t == task[n][r]
           seg == [first |-> manifest.applied + 1, last |-> manifest.applied + Len(t.batch),
                   epoch |-> manifest.epoch, sum |-> t.batch]
           x == [t EXCEPT !.pc = "vacuum"]
<1>1. /\ UNCHANGED <<now, blobs, local, client>>
      /\ t.pc = "append" /\ Working(n, r)
      /\ manifest' \in {manifest, WithSegment(manifest, seg, n)}
      /\ Become(n, r, x) \/ \E reason : Failed(n, r, reason)
  BY DEF AppendBatch, At, Goto, AfterAppend, Working
<1>2. t \in Locals /\ Fits(t, r, disk[n])
  BY DEF TypeInv, TypeOK, Fitting
<1>3. manifest' \in Manifest /\ Contiguous(manifest')
  <2>1. manifest \in Manifest /\ Contiguous(manifest)
    BY DEF TypeInv
  <2>2. t.batch \in Batches /\ Len(t.batch) \in Nat \ {0}
    BY <1>1, <1>2, ManifestAssumption DEF Fits
  <2>3. seg \in Segment /\ seg.first = manifest.applied + 1
        /\ seg.last = manifest.applied + Len(seg.sum)
    <3>1. manifest.applied \in Nat /\ manifest.epoch \in Nat \ {0}
      BY <2>1 DEF Manifest
    <3> QED
      BY <2>2, <3>1 DEF Segment
  <2> HIDE DEF seg
  <2>4. /\ WithSegment(manifest, seg, n) \in Manifest
        /\ Contiguous(WithSegment(manifest, seg, n))
    BY <2>1, <2>3, WithSegmentSound
  <2> QED
    BY <1>1, <2>1, <2>4
<1>4. task' \in [Writers -> [Roles -> Locals]] /\ Fitting'
  <2>1. CASE Become(n, r, x)
    <3>1. /\ x \in Locals /\ x.pc = "vacuum" /\ x.inode = t.inode /\ x.batch = t.batch
          /\ x.image = t.image /\ x.id = t.id
      BY <1>2 DEF Locals, Labels
    <3>2. Fits(x, r, disk[n])
      BY <1>1, <1>2, <3>1 DEF Fits
    <3> QED
      BY <1>1, <2>1, <3>1, <3>2, TypedTask DEF local
  <2>2. CASE \E reason : Failed(n, r, reason)
    BY <1>1, <2>2, FailedKeeps DEF local
  <2> QED
    BY <1>1, <2>1, <2>2
<1> QED
  BY <1>1, <1>3, <1>4 DEF TypeInv, TypeOK, local, client

(* What is left to do after a snapshot, or instead of it. *)
LEMMA TypedDone ==
  ASSUME EngineAssumption, TypeInv, NEW n \in Writers, NEW r \in Roles, Working(n, r),
         Done(n, r), disk' = disk
  PROVE  /\ task' \in [Writers -> [Roles -> Locals]] /\ Fitting'
         /\ acked' \subseteq Writes /\ replicated' \subseteq Writes /\ issued' = issued
<1> DEFINE t == task[n][r]
           x == [t EXCEPT !.pc = "delete", !.image = None, !.id = None, !.gone = {}]
           S == IF r = "write" THEN ToSet(t.batch) ELSE {}
<1>1. t \in Locals /\ Fits(t, r, disk[n]) /\ t.pc # "idle"
  BY DEF TypeInv, TypeOK, Fitting, Working
<1>2. x \in Locals /\ x.pc = "delete" /\ x.inode = t.inode /\ x.batch = t.batch
  BY <1>1 DEF Locals, Labels
<1>3. Fits(x, r, disk[n])
  BY <1>1, <1>2 DEF Fits
<1> HIDE DEF x
<1>4. Become(n, r, IF r = "flush" THEN x ELSE Idle)
  BY DEF Done, x
<1>5. task' \in [Writers -> [Roles -> Locals]] /\ Fitting'
  <2>1. CASE r = "flush"
    BY <1>2, <1>3, <1>4, <2>1, TypedTask
  <2>2. CASE r # "flush"
    BY <1>4, <2>2, IdleIs, TypedTask
  <2> QED
    BY <2>1, <2>2
<1>6. S \subseteq Writes
  <2>1. t.batch \in Seq(Writes)
    BY <1>1 DEF Locals
  <2> HIDE DEF t
  <2>2. ToSet(t.batch) \subseteq Writes
    BY <2>1 DEF ToSet
  <2> QED
    BY <2>2
<1> HIDE DEF S
<1>7. acked' = acked \cup S /\ replicated' = replicated \cup S /\ issued' = issued
  BY DEF Done, S
<1> QED
  BY <1>5, <1>6, <1>7 DEF TypeInv, TypeOK

(* Copying the file and naming the snapshot. *)
LEMMA TypedImage ==
  ASSUME EngineAssumption, TypeInv, NEW n \in Writers, NEW r \in Roles,
         Vacuum(n, r) \/ Stamp(n, r)
  PROVE  TypeInv'
<1> DEFINE t == task[n][r]
<1>1. /\ t \in Locals /\ Fits(t, r, disk[n]) /\ disk \in [Writers -> [Inodes -> Content]]
      /\ conn[n] \in Inodes \cup {None} /\ Working(n, r) /\ UNCHANGED <<now, remote, local>>
  BY DEF TypeInv, TypeOK, Fitting, Vacuum, Stamp, At, Working
<1>2. /\ task' \in [Writers -> [Roles -> Locals]] /\ Fitting'
      /\ acked' \subseteq Writes /\ replicated' \subseteq Writes /\ issued' = issued
  <2>1. CASE Vacuum(n, r) /\ SnapshotSource(n, r) = None
    BY <1>1, <2>1, TypedDone DEF Vacuum, local
  <2>2. CASE Vacuum(n, r) /\ SnapshotSource(n, r) # None
    <3> DEFINE i == SnapshotSource(n, r)
               x == [t EXCEPT !.pc = "stamp", !.image = disk[n][i]]
    <3>1. Become(n, r, x) /\ UNCHANGED client /\ t.pc = "vacuum" /\ i # None
      BY <2>2 DEF Vacuum, At
    <3>2. i \in Inodes
      BY <1>1, <3>1 DEF SnapshotSource, Fits
    <3> HIDE DEF i
    <3>3. disk[n][i] \in Content
      BY <1>1, <3>2
    <3>4. /\ x \in Locals /\ x.pc = "stamp" /\ x.inode = t.inode /\ x.batch = t.batch
          /\ x.image \in Content
      BY <1>1, <3>3 DEF Locals, Labels
    <3> HIDE DEF x
    <3>5. Fits(x, r, disk[n])
      BY <1>1, <3>1, <3>4 DEF Fits
    <3>6. task' \in [Writers -> [Roles -> Locals]] /\ Fitting'
      BY <1>1, <3>1, <3>4, <3>5, TypedTask DEF local
    <3> QED
      BY <3>1, <3>6 DEF TypeInv, TypeOK, client
  <2>3. CASE Stamp(n, r)
    <3> DEFINE x == [t EXCEPT !.pc = "put", !.id = NewId]
    <3>1. Become(n, r, x) /\ UNCHANGED client /\ t.pc = "stamp"
      BY <2>3 DEF Stamp, At
    <3>2. NewId \in SnapshotId
      BY DEF NewId, SnapshotId, TypeInv, TypeOK, Manifest
    <3>3. /\ x \in Locals /\ x.pc = "put" /\ x.inode = t.inode /\ x.batch = t.batch
          /\ x.image = t.image /\ x.id \in SnapshotId
      BY <1>1, <3>2 DEF Locals, Labels
    <3> HIDE DEF x
    <3>4. Fits(x, r, disk[n])
      BY <1>1, <3>1, <3>3 DEF Fits
    <3>5. task' \in [Writers -> [Roles -> Locals]] /\ Fitting'
      BY <1>1, <3>1, <3>3, <3>4, TypedTask DEF local
    <3> QED
      BY <3>1, <3>5 DEF TypeInv, TypeOK, client
  <2> QED
    BY <2>1, <2>2, <2>3
<1> QED
  BY <1>1, <1>2 DEF TypeInv, TypeOK, remote, local

(* Storing the snapshot's object. *)
LEMMA TypedPut ==
  ASSUME EngineAssumption, TypeInv, NEW n \in Writers, NEW r \in Roles, PutBlob(n, r)
  PROVE  TypeInv'
<1> DEFINE t == task[n][r]
           x == [t EXCEPT !.pc = "upsert"]
           after == [k \in DOMAIN blobs \cup {t.id} |-> IF k = t.id THEN t.image ELSE blobs[k]]
<1>1. /\ UNCHANGED <<now, manifest, local, client>>
      /\ t.pc = "put" /\ Working(n, r) /\ blobs' \in {blobs, after}
      /\ Become(n, r, x) \/ \E reason : Failed(n, r, reason)
  BY DEF PutBlob, At, Goto, Working
<1>2. t \in Locals /\ Fits(t, r, disk[n])
  BY DEF TypeInv, TypeOK, Fitting
<1>3. t.id \in SnapshotId /\ t.image \in Content
  BY <1>1, <1>2 DEF Fits
<1>4. /\ DOMAIN blobs' \subseteq SnapshotId /\ \A k \in DOMAIN blobs' : blobs'[k] \in Content
      /\ blobs' = [k \in DOMAIN blobs' |-> blobs'[k]]
  <2>1. DOMAIN after = DOMAIN blobs \cup {t.id}
    OBVIOUS
  <2>2. CASE blobs' = after
    BY <1>3, <2>1, <2>2 DEF TypeInv, TypeOK
  <2>3. CASE blobs' = blobs
    BY <2>3 DEF TypeInv, TypeOK
  <2> QED
    BY <1>1, <2>2, <2>3
<1>5. task' \in [Writers -> [Roles -> Locals]] /\ Fitting'
  <2>1. CASE Become(n, r, x)
    <3>1. /\ x \in Locals /\ x.pc = "upsert" /\ x.inode = t.inode /\ x.batch = t.batch
          /\ x.image = t.image /\ x.id = t.id
      BY <1>2 DEF Locals, Labels
    <3>2. Fits(x, r, disk[n])
      BY <1>1, <1>2, <3>1 DEF Fits
    <3> QED
      BY <1>1, <2>1, <3>1, <3>2, TypedTask DEF local
  <2>2. CASE \E reason : Failed(n, r, reason)
    BY <1>1, <2>2, FailedKeeps DEF local
  <2> QED
    BY <1>1, <2>1, <2>2
<1> QED
  BY <1>1, <1>4, <1>5 DEF TypeInv, TypeOK, local, client

(* Listing the snapshot. *)
LEMMA TypedUpsert ==
  ASSUME EngineAssumption, TypeInv, NEW n \in Writers, NEW r \in Roles, UpsertSnapshot(n, r)
  PROVE  TypeInv'
<1> DEFINE t == task[n][r]
           s == [id |-> t.id, at |-> now, seq |-> t.id[2]]
           x == [t EXCEPT !.pc = "drop", !.gone = EvictedBy(manifest, s, now)]
<1>1. /\ UNCHANGED <<now, blobs, local, client>>
      /\ t.pc = "upsert" /\ Working(n, r)
      /\ manifest' \in {manifest, WithSnapshot(manifest, s, n, now)}
      /\ Become(n, r, x) \/ \E reason : Failed(n, r, reason)
  BY DEF UpsertSnapshot, At, Working
<1>2. t \in Locals /\ Fits(t, r, disk[n])
  BY DEF TypeInv, TypeOK, Fitting
<1>3. s \in Snapshot /\ manifest \in Manifest /\ Contiguous(manifest)
  <2>1. t.id \in Nat \X Nat /\ now \in Nat
    BY <1>1, <1>2 DEF Fits, SnapshotId, TypeInv, TypeOK, EngineAssumption
  <2> HIDE DEF t
  <2> QED
    BY <2>1 DEF Snapshot, SnapshotId, TypeInv
<1> HIDE DEF s
<1>4. manifest' \in Manifest /\ Contiguous(manifest')
  BY <1>1, <1>3, SnapshotKeepsLog
<1>5. EvictedBy(manifest, s, now) \subseteq SnapshotId
  BY <1>3, WithSnapshotType
<1>6. task' \in [Writers -> [Roles -> Locals]] /\ Fitting'
  <2>1. CASE Become(n, r, x)
    <3>1. x \in Locals /\ x.pc = "drop" /\ x.inode = t.inode /\ x.batch = t.batch
      BY <1>2, <1>5 DEF Locals, Labels
    <3>2. Fits(x, r, disk[n])
      BY <1>1, <1>2, <3>1 DEF Fits
    <3> QED
      BY <1>1, <2>1, <3>1, <3>2, TypedTask DEF local
  <2>2. CASE \E reason : Failed(n, r, reason)
    BY <1>1, <2>2, FailedKeeps DEF local
  <2> QED
    BY <1>1, <2>1, <2>2
<1> QED
  BY <1>1, <1>4, <1>6 DEF TypeInv, TypeOK, local, client

(* Deleting the evicted objects. *)
LEMMA TypedDrop ==
  ASSUME EngineAssumption, TypeInv, NEW n \in Writers, NEW r \in Roles, DropEvicted(n, r)
  PROVE  TypeInv'
<1> DEFINE t == task[n][r]
           keep(G) == [k \in DOMAIN blobs \ G |-> blobs[k]]
<1>1. /\ UNCHANGED <<now, manifest, disk, path, conn, opening, staged>> /\ Working(n, r)
      /\ \E G : blobs' = keep(G)
      /\ \/ loaded' = [loaded EXCEPT ![n] = t.id] /\ Done(n, r)
         \/ Failed(n, r, "error") /\ UNCHANGED <<loaded, client>>
  BY DEF DropEvicted, At, Working
<1>2. /\ DOMAIN blobs' \subseteq SnapshotId /\ \A k \in DOMAIN blobs' : blobs'[k] \in Content
      /\ blobs' = [k \in DOMAIN blobs' |-> blobs'[k]]
  <2>1. PICK G : blobs' = keep(G)
    BY <1>1
  <2>2. DOMAIN blobs' = DOMAIN blobs \ G /\ \A k \in DOMAIN blobs' : blobs'[k] = blobs[k]
    BY <2>1
  <2> QED
    BY <2>1, <2>2 DEF TypeInv, TypeOK
<1>3. /\ task' \in [Writers -> [Roles -> Locals]] /\ Fitting' /\ issued' = issued
      /\ acked' \subseteq Writes /\ replicated' \subseteq Writes
      /\ loaded' \in [Writers -> SnapshotId \cup {None}]
  <2>1. CASE loaded' = [loaded EXCEPT ![n] = t.id] /\ Done(n, r)
    <3>1. t.id \in SnapshotId \cup {None}
      BY DEF TypeInv, TypeOK, Locals
    <3>2. loaded' \in [Writers -> SnapshotId \cup {None}]
      BY <2>1, <3>1 DEF TypeInv, TypeOK
    <3> QED
      BY <1>1, <2>1, <3>2, TypedDone DEF TypeInv, TypeOK
  <2>2. CASE Failed(n, r, "error") /\ UNCHANGED <<loaded, client>>
    BY <1>1, <2>2, FailedKeeps DEF TypeInv, TypeOK, client
  <2> QED
    BY <1>1, <2>1, <2>2
<1> QED
  BY <1>1, <1>2, <1>3 DEF TypeInv, TypeOK

(* Storing the staged records adds rows, of no attempts, to the open file. *)
LEMMA StoringIs ==
  ASSUME EngineAssumption, TypeInv, NEW n \in Writers, FlushReady(n), StoreStaged(n)
  PROVE  /\ conn[n] \in Inodes /\ "flush" \in Roles /\ task[n]["flush"].pc = "idle"
         /\ UNCHANGED <<now, remote, path, conn, opening, loaded, client>>
         /\ staged' = [staged EXCEPT ![n] = {}] /\ staged' \in [Writers -> SUBSET Writes]
         /\ disk' \in [Writers -> [Inodes -> Content]]
         /\ \E stored \in SUBSET staged[n] :
              LET c == WithJobs(disk[n][conn[n]], stored) IN
              /\ c \in Content /\ disk' = [disk EXCEPT ![n][conn[n]] = c]
              /\ disk'[n][conn[n]] = c
         /\ \A m \in Writers, j \in Inodes : m # n \/ j # conn[n] => disk'[m][j] = disk[m][j]
         /\ \A m \in Writers, s \in Roles : Undisturbed(task[m][s], s, disk[m], disk'[m])
<1> DEFINE i == conn[n]
<1>1. /\ "flush" \in Roles /\ disk \in [Writers -> [Inodes -> Content]] /\ i \in Inodes
      /\ staged[n] \subseteq Writes /\ disk[n][i] \in Content
      /\ UNCHANGED <<now, remote, path, conn, opening, loaded, client>>
      /\ staged' = [staged EXCEPT ![n] = {}] /\ task[n]["flush"].pc = "idle"
  BY DEF Roles, FlushReady, StoreStaged, At, TypeInv, TypeOK
<1>2. PICK stored \in SUBSET staged[n] : disk' = [disk EXCEPT ![n][i] = WithJobs(@, stored)]
  BY DEF StoreStaged
<1> DEFINE c == WithJobs(disk[n][i], stored)
<1>3. disk' = [disk EXCEPT ![n][i] = c]
  BY <1>1, <1>2
<1>4. c \in Content /\ NoAttempt(disk[n][i], c)
  <2>1. /\ c \in Content /\ DOMAIN c.jobs = DOMAIN disk[n][i].jobs \cup stored
        /\ \A v \in DOMAIN disk[n][i].jobs : c.jobs[v] = disk[n][i].jobs[v]
    BY <1>1, <1>2, WithJobsIs
  <2>2. \A w \in stored : w \notin DOMAIN disk[n][i].jobs => c.jobs[w] = 0
    <3>1. disk[n][i] = [docs |-> disk[n][i].docs, jobs |-> disk[n][i].jobs]
      BY <1>1, ContentIs
    <3> QED
      BY <3>1 DEF WithJobs
  <2> HIDE DEF c, i
  <2> QED
    BY <2>1, <2>2 DEF NoAttempt
<1> HIDE DEF c
<1>5. /\ disk' \in [Writers -> [Inodes -> Content]] /\ disk'[n][i] = c
      /\ \A m \in Writers, j \in Inodes : m # n \/ j # i => disk'[m][j] = disk[m][j]
      /\ \A m \in Writers, s \in Roles : Undisturbed(task[m][s], s, disk[m], disk'[m])
  <2> HIDE DEF i
  <2> QED
    BY <1>1, <1>3, <1>4, FileStep
<1>6. staged' \in [Writers -> SUBSET Writes]
  BY <1>1 DEF TypeInv, TypeOK
<1> QED
  BY <1>1, <1>3, <1>4, <1>5, <1>6 DEF c

(* Starting a flush makes a batch of the queued rows. *)
LEMMA TypedFlushStart ==
  ASSUME EngineAssumption, TypeInv, NEW n \in Writers, FlushStart(n)
  PROVE  TypeInv'
<1> DEFINE c == disk'[n][conn[n]]
           x == [Idle EXCEPT !.pc = "append", !.inode = conn[n], !.batch = InOrder(Queued(c))]
<1>1. FlushReady(n) /\ StoreStaged(n)
      /\ Become(n, "flush", IF Queued(c) = {} THEN Idle ELSE x)
  BY DEF FlushStart
<1>2. /\ conn[n] \in Inodes /\ "flush" \in Roles /\ c \in Content
      /\ UNCHANGED <<now, remote, path, conn, opening, loaded, client>>
      /\ staged' \in [Writers -> SUBSET Writes] /\ disk' \in [Writers -> [Inodes -> Content]]
      /\ \A m \in Writers, s \in Roles : Undisturbed(task[m][s], s, disk[m], disk'[m])
  BY <1>1, StoringIs
<1>3. ASSUME Queued(c) # {} PROVE x \in Locals /\ Fits(x, "flush", disk'[n])
  <2>1. Queued(c) \subseteq DOMAIN c.jobs /\ \A w \in Queued(c) : c.jobs[w] < MaxAttempts
    BY DEF Queued
  <2>2. Queued(c) \in SUBSET Writes
    BY <1>2, <2>1, ContentIs
  <2>3. /\ InOrder(Queued(c)) \in Seq(Writes) /\ ToSet(InOrder(Queued(c))) = Queued(c)
        /\ InOrder(Queued(c)) \in Batches
    BY <1>3, <2>2, InOrderLists DEF EngineAssumption
  <2>4. x \in Locals /\ x.pc = "append" /\ x.inode = conn[n] /\ x.batch = InOrder(Queued(c))
    BY <1>2, <2>3, IdleIs DEF Locals, Labels
  <2> HIDE DEF x
  <2> QED
    BY <1>2, <2>1, <2>3, <2>4 DEF Fits
<1> HIDE DEF x, c
<1>4. task' \in [Writers -> [Roles -> Locals]] /\ Fitting'
  <2>1. CASE Queued(c) = {}
    BY <1>1, <1>2, <2>1, IdleIs, RoleStep
  <2>2. CASE Queued(c) # {}
    BY <1>1, <1>2, <1>3, <2>2, RoleStep
  <2> QED
    BY <2>1, <2>2
<1> QED
  BY <1>2, <1>4 DEF TypeInv, TypeOK, remote, client

(* A failing statement of the loop leaves it idle. *)
LEMMA TypedFlushFails ==
  ASSUME EngineAssumption, TypeInv, NEW n \in Writers, FlushFails(n)
  PROVE  TypeInv'
<1>1. CASE FlushReady(n) /\ StoreStaged(n) /\ UNCHANGED task
  <2>1. /\ UNCHANGED <<now, remote, path, conn, opening, loaded, client>>
        /\ staged' \in [Writers -> SUBSET Writes] /\ disk' \in [Writers -> [Inodes -> Content]]
        /\ \A m \in Writers, s \in Roles : Undisturbed(task[m][s], s, disk[m], disk'[m])
    BY <1>1, StoringIs
  <2>2. Fitting'
    BY <1>1, <2>1, FittingKept DEF TypeInv
  <2> QED
    BY <1>1, <2>1, <2>2 DEF TypeInv, TypeOK, remote, client
<1>2. CASE Become(n, "flush", Idle) /\ UNCHANGED <<now, remote, local, client>>
  <2>1. "flush" \in Roles
    BY DEF Roles
  <2>2. task' \in [Writers -> [Roles -> Locals]] /\ Fitting'
    BY <1>2, <2>1, IdleIs, TypedTask DEF local
  <2> QED
    BY <1>2, <2>2 DEF TypeInv, TypeOK, remote, local, client
<1> QED
  BY <1>1, <1>2 DEF FlushFails

(* Counting an attempt for the rows of the batch. *)
LEMMA TypedBump ==
  ASSUME EngineAssumption, TypeInv, NEW n \in Writers, BumpAttempts(n)
  PROVE  /\ TypeInv'
         /\ task[n]["flush"].inode \in Inodes
         /\ \A m \in Writers, j \in Inodes : /\ disk'[m][j].docs = disk[m][j].docs
                                             /\ DOMAIN disk'[m][j].jobs = DOMAIN disk[m][j].jobs
<1> DEFINE t == task[n]["flush"]
           i == t.inode
           c == Attempted(disk[n][i], ToSet(t.batch))
<1>1. /\ "flush" \in Roles /\ t \in Locals /\ t.pc = "bump" /\ Fits(t, "flush", disk[n])
      /\ UNCHANGED <<now, remote, path, conn, opening, loaded, staged, client>>
      /\ disk' = [disk EXCEPT ![n][i] = Attempted(@, ToSet(t.batch))]
      /\ Become(n, "flush", Idle) /\ disk \in [Writers -> [Inodes -> Content]]
  BY DEF Roles, TypeInv, TypeOK, Fitting, BumpAttempts, At
<1>2. /\ i \in Inodes /\ disk[n][i] \in Content
      /\ \A w \in ToSet(t.batch) \cap DOMAIN disk[n][i].jobs : disk[n][i].jobs[w] < MaxAttempts
  BY <1>1 DEF Fits
<1>3. c \in Content /\ c.docs = disk[n][i].docs /\ DOMAIN c.jobs = DOMAIN disk[n][i].jobs
  <2> HIDE DEF t, i
  <2> QED
    BY <1>2, AttemptedIs
<1>4. disk' = [disk EXCEPT ![n][i] = c]
  BY <1>1, <1>2
<1> HIDE DEF c, i, t
<1>5. /\ disk' \in [Writers -> [Inodes -> Content]] /\ disk'[n][i] = c
      /\ \A m \in Writers, j \in Inodes : m # n \/ j # i => disk'[m][j] = disk[m][j]
  BY <1>1, <1>2, <1>3, <1>4, OneFile
<1>6. \A m \in Writers, s \in Roles :
        m # n \/ s # "flush" => Undisturbed(task[m][s], s, disk[m], disk'[m])
  <2> SUFFICES ASSUME NEW m \in Writers, NEW s \in Roles, m # n \/ s # "flush"
               PROVE  Undisturbed(task[m][s], s, disk[m], disk'[m])
    OBVIOUS
  <2>1. CASE m # n
    <3>1. disk'[m] = disk[m]
      BY <1>1, <1>4, <2>1
    <3> QED
      BY <3>1, SameFiles
  <2>2. CASE s # "flush"
    BY <2>2 DEF Undisturbed
  <2> QED
    BY <2>1, <2>2
<1>7. task' \in [Writers -> [Roles -> Locals]] /\ Fitting'
  BY <1>1, <1>6, IdleIs, RoleStep
<1>8. TypeInv'
  BY <1>1, <1>5, <1>7 DEF TypeInv, TypeOK, remote, client
<1> QED
  BY <1>2, <1>3, <1>5, <1>8 DEF i, t

(* Deleting the job rows of the batch. *)
LEMMA TypedDelete ==
  ASSUME EngineAssumption, TypeInv, NEW n \in Writers, DeleteJobs(n)
  PROVE  TypeInv'
<1> DEFINE t == task[n]["flush"]
           i == t.inode
           c == WithoutJobs(disk[n][i], ToSet(t.batch))
<1>1. /\ "flush" \in Roles /\ t \in Locals /\ t.pc = "delete" /\ Fits(t, "flush", disk[n])
      /\ UNCHANGED <<now, remote, path, conn, opening, loaded, staged, issued, acked>>
      /\ disk' = [disk EXCEPT ![n][i] = WithoutJobs(@, ToSet(t.batch))]
      /\ replicated' = replicated \cup ToSet(t.batch) /\ Become(n, "flush", Idle)
      /\ disk \in [Writers -> [Inodes -> Content]]
  BY DEF Roles, TypeInv, TypeOK, Fitting, DeleteJobs, At
<1>2. i \in Inodes /\ disk[n][i] \in Content
  BY <1>1 DEF Fits
<1>3. c \in Content /\ NoAttempt(disk[n][i], c)
  <2>1. c \in Content /\ DOMAIN c.jobs = DOMAIN disk[n][i].jobs \ ToSet(t.batch)
    BY <1>2, WithoutJobsIs
  <2>2. \A w \in DOMAIN c.jobs : c.jobs[w] = disk[n][i].jobs[w]
    <3>1. disk[n][i] = [docs |-> disk[n][i].docs, jobs |-> disk[n][i].jobs]
      BY <1>2, ContentIs
    <3> QED
      BY <3>1 DEF WithoutJobs
  <2> HIDE DEF c, i, t
  <2> QED
    BY <2>1, <2>2 DEF NoAttempt
<1>4. disk' = [disk EXCEPT ![n][i] = c]
  BY <1>1, <1>2
<1>5. ToSet(t.batch) \subseteq Writes
  <2>1. t.batch \in Seq(Writes)
    BY <1>1 DEF Locals
  <2> HIDE DEF t
  <2> QED
    BY <2>1 DEF ToSet
<1> HIDE DEF c, i, t
<1>6. /\ disk' \in [Writers -> [Inodes -> Content]]
      /\ \A m \in Writers, s \in Roles : Undisturbed(task[m][s], s, disk[m], disk'[m])
  BY <1>2, <1>3, <1>4, FileStep
<1>7. task' \in [Writers -> [Roles -> Locals]] /\ Fitting'
  BY <1>1, <1>6, IdleIs, RoleStep
<1> QED
  BY <1>1, <1>5, <1>6, <1>7 DEF TypeInv, TypeOK, remote

(* The reaper begins its snapshot. *)
LEMMA TypedReap ==
  ASSUME EngineAssumption, TypeInv, NEW n \in Writers, Reap(n)
  PROVE  TypeInv'
<1> DEFINE x == [Idle EXCEPT !.pc = "vacuum", !.inode = conn[n]]
<1>1. /\ "reap" \in Roles /\ conn[n] \in Inodes /\ Become(n, "reap", x)
      /\ UNCHANGED <<now, remote, local, client>>
  BY DEF Roles, Reap, TypeInv, TypeOK
<1>2. x \in Locals /\ x.pc = "vacuum" /\ x.inode = conn[n]
  BY <1>1, IdleIs DEF Locals, Labels
<1> HIDE DEF x
<1>3. Fits(x, "reap", disk[n])
  BY <1>1, <1>2 DEF Fits
<1>4. task' \in [Writers -> [Roles -> Locals]] /\ Fitting'
  BY <1>1, <1>2, <1>3, TypedTask DEF local
<1> QED
  BY <1>1, <1>4 DEF TypeInv, TypeOK, remote, local, client

(* The remote-sync poll. *)
LEMMA TypedPoll ==
  ASSUME EngineAssumption, TypeInv, NEW n \in Writers, Poll(n)
  PROVE  TypeInv'
<1> DEFINE t == task[n]["poll"]
<1>0. /\ "poll" \in Roles /\ t \in Locals /\ path[n] \in Inodes \cup {None}
      /\ disk \in [Writers -> [Inodes -> Content]] /\ t.id \in SnapshotId \cup {None}
  BY DEF Roles, TypeInv, TypeOK, Locals
<1>1. CASE PollStart(n) \/ PollCount(n) \/ PollCurrent(n) \/ PollCompare(n)
  <2>1. /\ UNCHANGED <<now, remote, local, client>>
        /\ \E x \in Locals : /\ Become(n, "poll", x)
                             /\ x.pc \in {"idle", "count", "current", "compare", "close"}
    <3>1. manifest.current \in SnapshotId \cup {None}
      BY DEF TypeInv, Manifest
    <3> DEFINE current == [Idle EXCEPT !.pc = "compare", !.id = manifest.current]
    <3>2. current \in Locals /\ current.pc = "compare"
      BY <3>1, IdleIs DEF Locals, Labels
    <3>3. Idle \in Locals /\ Idle.pc = "idle"
      BY IdleIs
    <3>4. [Idle EXCEPT !.pc = "count"] \in Locals /\ [Idle EXCEPT !.pc = "count"].pc = "count"
      BY IdleIs DEF Locals, Labels
    <3>5. \A l \in {"current", "close"} : [t EXCEPT !.pc = l] \in Locals /\ [t EXCEPT !.pc = l].pc = l
      BY <1>0 DEF Locals, Labels
    <3> HIDE DEF t, current
    <3>6. \A l : Goto(n, "poll", l) => Become(n, "poll", [t EXCEPT !.pc = l])
      BY DEF Goto, t
    <3>7. CASE PollStart(n)
      BY <3>4, <3>7 DEF PollStart
    <3>8. CASE PollCount(n)
      BY <3>3, <3>5, <3>6, <3>8 DEF PollCount
    <3>9. CASE PollCurrent(n)
      BY <3>2, <3>3, <3>9 DEF PollCurrent, current
    <3>10. CASE PollCompare(n)
      BY <3>3, <3>5, <3>6, <3>10 DEF PollCompare
    <3> QED
      BY <1>1, <3>7, <3>8, <3>9, <3>10
  <2>2. PICK x \in Locals : /\ Become(n, "poll", x)
                           /\ x.pc \in {"idle", "count", "current", "compare", "close"}
    BY <2>1
  <2>3. Fits(x, "poll", disk[n])
    BY <2>2 DEF Fits
  <2>4. task' \in [Writers -> [Roles -> Locals]] /\ Fitting'
    BY <1>0, <2>1, <2>2, <2>3, TypedTask DEF local
  <2> QED
    BY <2>1, <2>4 DEF TypeInv, TypeOK, remote, local, client
<1>2. CASE PollClose(n)
  <2> DEFINE x == [t EXCEPT !.pc = "replace"]
  <2>1. /\ Become(n, "poll", x) /\ conn' = [conn EXCEPT ![n] = None]
        /\ UNCHANGED <<now, remote, disk, path, opening, loaded, staged, client>>
    BY <1>2 DEF PollClose, Goto
  <2>2. x \in Locals /\ x.pc = "replace"
    BY <1>0 DEF Locals, Labels
  <2> HIDE DEF x
  <2>3. Fits(x, "poll", disk[n])
    BY <2>2 DEF Fits
  <2>4. task' \in [Writers -> [Roles -> Locals]] /\ Fitting'
    BY <1>0, <2>1, <2>2, <2>3, TypedTask
  <2>5. conn' \in [Writers -> Inodes \cup {None}]
    BY <2>1 DEF TypeInv, TypeOK
  <2> QED
    BY <2>1, <2>4, <2>5 DEF TypeInv, TypeOK, remote, client
<1>3. CASE PollReplace(n)
  <2> DEFINE x == [t EXCEPT !.pc = "reopen"]
  <2>1. UNCHANGED <<now, remote, conn, opening, staged, client>>
    BY <1>3 DEF PollReplace
  <2>2. CASE Hydrated(n, t.id) /\ Become(n, "poll", x)
    <3>1. /\ disk' \in [Writers -> [Inodes -> Content]]
          /\ path' \in [Writers -> Inodes \cup {None}]
          /\ loaded' \in [Writers -> SnapshotId \cup {None}]
          /\ \A m \in Writers \ {n} : disk'[m] = disk[m]
          /\ \A r \in Roles, i \in Inodes : task[n][r].inode = i => disk'[n][i] = disk[n][i]
      BY <2>2, HydratedIs
    <3>2. x \in Locals /\ x.pc = "reopen"
      BY <1>0 DEF Locals, Labels
    <3> HIDE DEF x
    <3>3. Fits(x, "poll", disk'[n])
      BY <3>2 DEF Fits
    <3>4. ASSUME NEW m \in Writers, NEW s \in Roles
          PROVE  Undisturbed(task[m][s], s, disk[m], disk'[m])
      <4>1. CASE m # n
        BY <3>1, <4>1, SameFiles
      <4>2. CASE m = n
        <5>1. Fits(task[m][s], s, disk[m])
          BY DEF TypeInv, Fitting
        <5> QED
          BY <3>1, <4>2, <5>1 DEF Fits, Undisturbed, NoAttempt
      <4> QED
        BY <4>1, <4>2
    <3>5. task' \in [Writers -> [Roles -> Locals]] /\ Fitting'
      BY <1>0, <2>2, <3>2, <3>3, <3>4, RoleStep
    <3> QED
      BY <2>1, <3>1, <3>5 DEF TypeInv, TypeOK, remote, client
  <2>3. CASE Become(n, "poll", Idle) /\ UNCHANGED <<disk, path, loaded>>
    <3>1. task' \in [Writers -> [Roles -> Locals]] /\ Fitting'
      BY <1>0, <2>3, IdleIs, TypedTask
    <3> QED
      BY <2>1, <2>3, <3>1 DEF TypeInv, TypeOK, remote, client
  <2> QED
    BY <1>3, <2>2, <2>3 DEF PollReplace, Goto
<1>4. CASE PollReopen(n)
  <2>1. /\ conn' = [conn EXCEPT ![n] = IF @ = None THEN path[n] ELSE @]
        /\ loaded' = [loaded EXCEPT ![n] = t.id] /\ Become(n, "poll", Idle)
        /\ UNCHANGED <<now, remote, disk, path, opening, staged, client>>
    BY <1>4 DEF PollReopen
  <2>2. task' \in [Writers -> [Roles -> Locals]] /\ Fitting'
    BY <1>0, <2>1, IdleIs, TypedTask
  <2>3. /\ conn' \in [Writers -> Inodes \cup {None}]
        /\ loaded' \in [Writers -> SnapshotId \cup {None}]
    BY <1>0, <2>1 DEF TypeInv, TypeOK
  <2> QED
    BY <2>1, <2>2, <2>3 DEF TypeInv, TypeOK, remote, client
<1> QED
  BY <1>1, <1>2, <1>3, <1>4 DEF Poll

(* A crash leaves every role of the process idle. *)
LEMMA TypedCrash ==
  ASSUME EngineAssumption, TypeInv, NEW n \in Writers, Crash(n)
  PROVE  TypeInv'
<1>1. /\ path' \in [Writers -> Inodes \cup {None}] /\ conn' \in [Writers -> Inodes \cup {None}]
      /\ opening' \in [Writers -> Inodes \cup {None}]
      /\ loaded' \in [Writers -> SnapshotId \cup {None}]
      /\ staged' \in [Writers -> SUBSET Writes]
  BY DEF Crash, TypeInv, TypeOK
<1>2. UNCHANGED <<now, remote, disk, client>>
  BY DEF Crash
<1>3. /\ task' \in [Writers -> [Roles -> Locals]]
      /\ \A s \in Roles : task'[n][s] = Idle
      /\ \A m \in Writers \ {n} : task'[m] = task[m]
  BY IdleIs DEF Crash, TypeInv, TypeOK
<1>4. Fitting'
  BY <1>2, <1>3, IdleIs DEF TypeInv, Fitting
<1> QED
  BY <1>1, <1>2, <1>3, <1>4 DEF TypeInv, TypeOK, remote, client

(* So does every step of the engine keep the types. *)
LEMMA TypedNext ==
  ASSUME EngineAssumption, TypeInv, Next
  PROVE  TypeInv'
<1>1. ASSUME NEW n \in Writers,
             \/ Open(n) \/ Close(n) \/ Write(n) \/ FlushStart(n) \/ Flush(n) \/ FlushFails(n)
             \/ Reap(n) \/ Snapshotting(n, "reap") \/ Poll(n) \/ Crash(n)
      PROVE  TypeInv'
  <2>1. \A r \in {"write", "flush", "reap"} : r \in Roles
    BY DEF Roles
  <2>2. ASSUME NEW r \in Roles, Snapshotting(n, r) PROVE TypeInv'
    BY <2>2, TypedImage, TypedPut, TypedUpsert, TypedDrop DEF Snapshotting
  <2>3. CASE Write(n)
    BY <2>1, <2>2, <2>3, TypedWrite, TypedAppend DEF Write
  <2>4. CASE Flush(n)
    BY <2>1, <2>2, <2>4, TypedDelete, TypedBump, TypedAppend DEF Flush
  <2> QED
    BY <1>1, <2>1, <2>2, <2>3, <2>4, TypedOpen, TypedClose, TypedFlushStart, TypedFlushFails,
       TypedReap, TypedPoll, TypedCrash
<1>2. ASSUME Tick PROVE TypeInv'
  <2>1. UNCHANGED <<remote, local, task, client>> /\ now' \in 0..MaxTime
    BY <1>2 DEF Tick, TypeInv, TypeOK, EngineAssumption
  <2> QED
    BY <2>1 DEF TypeInv, TypeOK, Fitting, remote, local, client
<1> QED
  BY <1>1, <1>2 DEF Next

(* The first manifest lists the first, empty snapshot. *)
LEMMA FirstManifest ==
  ASSUME EngineAssumption, NEW w \in Writers, NEW m,
         m = WithSnapshot(DefaultManifest(w, 1), [id |-> <<0, 0>>, at |-> 0, seq |-> 0], w, 0)
  PROVE  /\ m \in Manifest /\ Contiguous(m) /\ Cataloged(m) /\ m.segments = <<>>
         /\ m.applied = 0 /\ m.current = <<0, 0>>
         /\ \E i \in DOMAIN m.snapshots : m.snapshots[i].id = <<0, 0>>
         /\ \A i \in DOMAIN m.snapshots :
              m.snapshots[i] = [id |-> <<0, 0>>, at |-> 0, seq |-> 0]
<1> DEFINE s == [id |-> <<0, 0>>, at |-> 0, seq |-> 0]
           d == DefaultManifest(w, 1)
<1>1. s \in Snapshot /\ s.id = <<0, 0>> /\ s.at = 0
  BY DEF Snapshot, SnapshotId
<1>2. d \in Manifest /\ Contiguous(d) /\ Cataloged(d)
  <2>1. d \in Manifest /\ Contiguous(d)
    BY DefaultSound
  <2>2. Cataloged(d)
    BY <2>1, ManifestAssumption DEF Cataloged, InCreationOrder, DefaultManifest
  <2> QED
    BY <2>1, <2>2
<1>3. d.segments = <<>> /\ d.applied = 0 /\ d.snapshots = <<>>
  BY DEF DefaultManifest
<1> HIDE DEF s, d
<1>4. m = WithSnapshot(d, s, w, 0)
  BY DEF s, d
<1>5. m \in Manifest /\ Contiguous(m)
  BY <1>1, <1>2, <1>4, SnapshotKeepsLog
<1>6. m.segments = <<>> /\ m.applied = 0
  BY <1>1, <1>2, <1>3, <1>4, WithSnapshotType
<1>7. Cataloged(m)
  BY <1>1, <1>2, <1>4, WithSnapshotCataloged
<1>8. DOMAIN d.snapshots = {}
  BY <1>3
<1>9. /\ m.current = s.id /\ \E i \in DOMAIN m.snapshots : m.snapshots[i] = s
      /\ \A i \in DOMAIN m.snapshots : m.snapshots[i] = s
  <2>1. m = WithSnapshot(d, s, w, s.at)
    BY <1>1, <1>4
  <2> QED
    BY <1>1, <1>2, <1>8, <2>1, WithSnapshotNewest
<1> QED
  BY <1>1, <1>5, <1>6, <1>7, <1>9 DEF s

(* The first state is well typed. *)
LEMMA TypedInit == ASSUME EngineAssumption, Init PROVE TypeInv
<1>1. /\ now = 0 /\ issued = 0 /\ acked = {} /\ replicated = {}
      /\ blobs = [id \in {<<0, 0>>} |-> Empty]
      /\ disk = [n \in Writers |-> [i \in Inodes |-> Empty]]
      /\ path = [n \in Writers |-> 1] /\ conn = [n \in Writers |-> 1]
      /\ opening = [n \in Writers |-> None] /\ loaded = [n \in Writers |-> <<0, 0>>]
      /\ staged = [n \in Writers |-> {}] /\ task = [n \in Writers |-> [r \in Roles |-> Idle]]
  BY DEF Init
<1>2. manifest \in Manifest /\ Contiguous(manifest)
  <2>1. PICK w \in Writers : manifest = WithSnapshot(DefaultManifest(w, 1),
                                   [id |-> <<0, 0>>, at |-> 0, seq |-> 0], w, 0)
    BY DEF Init, EngineAssumption
  <2> QED
    BY <2>1, FirstManifest
<1>3. <<0, 0>> \in SnapshotId /\ 1 \in Inodes /\ MaxTime \in Nat /\ MaxWrites \in Nat
  BY DEF SnapshotId, EngineAssumption
<1>4. Fitting
  BY <1>1, IdleIs DEF Fitting
<1>5. blobs = [id \in DOMAIN blobs |-> blobs[id]]
  BY <1>1
<1>6. DOMAIN blobs \subseteq SnapshotId /\ \A id \in DOMAIN blobs : blobs[id] \in Content
  BY <1>1, <1>3, EmptyIs
<1>7. disk \in [Writers -> [Inodes -> Content]] /\ task \in [Writers -> [Roles -> Locals]]
  BY <1>1, IdleIs, EmptyIs
<1>8. /\ path \in [Writers -> Inodes \cup {None}] /\ conn \in [Writers -> Inodes \cup {None}]
      /\ opening \in [Writers -> Inodes \cup {None}] /\ staged \in [Writers -> SUBSET Writes]
      /\ loaded \in [Writers -> SnapshotId \cup {None}]
  BY <1>1, <1>3
<1>9. now \in 0..MaxTime /\ issued \in 0..MaxWrites
  BY <1>1, <1>3
<1> QED
  BY <1>1, <1>2, <1>4, <1>5, <1>6, <1>7, <1>8, <1>9 DEF TypeInv, TypeOK

(* A stuttering step changes nothing of it. *)
LEMMA TypedStutter == ASSUME TypeInv, UNCHANGED vars PROVE TypeInv'
  BY DEF TypeInv, TypeOK, Fitting, vars, remote, local, client

(* The engine's variables always have their types and the manifest's log is  *)
(* contiguous, whichever tasks run, calls fail and processes crash.          *)
THEOREM TypeCorrect == EngineAssumption => (Spec => [](TypeOK /\ Contiguous(manifest)))
<1> SUFFICES ASSUME EngineAssumption PROVE Spec => [](TypeOK /\ Contiguous(manifest))
  OBVIOUS
<1>1. Init => TypeInv
  BY TypedInit
<1>2. TypeInv /\ [Next]_vars => TypeInv'
  BY TypedNext, TypedStutter
<1>3. TypeInv => TypeOK /\ Contiguous(manifest)
  BY DEF TypeInv
<1> QED
  BY <1>1, <1>2, <1>3, PTL DEF Spec

------------------------------------------------------------------------------
(* The role whose writes end in a snapshot, and the roles that take one.      *)
Snapshotter == IF Async THEN "flush" ELSE "write"
Takers == {Snapshotter, "reap"}

(* One process takes writes and does not poll.  In async mode there is no     *)
(* other process: a snapshot carries job rows, which a follower that opens it *)
(* would replicate again and then publish its older file.                    *)
Single(p) ==
  /\ Clients = {p} /\ p \notin Pollers
  /\ Async => Writers = {p}

(* What the program leaves to chance.  The reaper's call and a write's or a   *)
(* flush's do not overlap, and the connection is not dropped between an       *)
(* append and its snapshot: README names the runs in which TLC shows what     *)
(* each of the two loses.                                                    *)
Apart(p) ==
  /\ \A n \in Writers : Working(n, "reap") => n = p /\ ~Working(p, Snapshotter)
  /\ At(p, Snapshotter, "vacuum") => conn[p] # None

(* The snapshots of the catalog.                                              *)
Listed == {manifest.snapshots[i].id : i \in DOMAIN manifest.snapshots}

(* The file at the path of the database.                                      *)
File(p) == disk[p][path[p]]

(* Every job row describes a write the file has.                              *)
Sound(c) == DOMAIN c.jobs \subseteq c.docs

(* Who is at work, and on which file.                                        *)
Alone(p) ==
  /\ Apart(p)
  /\ \A n \in Writers, r \in Roles : Working(n, r) =>
       \/ n # p /\ r = "poll"
       \/ n = p /\ r \in Takers
       \/ n = p /\ r = "write" /\ task[n][r].pc \in {"execute", "enqueue"}
  /\ opening[p] \in {None, path[p]} /\ conn[p] \in {None, path[p]}
  /\ \A r \in Roles : Working(p, r) => path[p] # None
  /\ At(p, "write", "execute") => task[p]["write"].inode = path[p]
  /\ \A r \in Takers \ {"write"} : Working(p, r) => task[p][r].inode = path[p]
  /\ path[p] = None => staged[p] = {}

(* The catalog: the current snapshot is listed, listed snapshots are stored. *)
Stored(p) ==
  /\ Cataloged(manifest) /\ manifest.current \in Listed /\ Listed \subseteq DOMAIN blobs
  /\ \A i \in DOMAIN manifest.snapshots : manifest.snapshots[i].at <= now
  /\ \A r \in Takers :
       /\ At(p, r, "upsert") => task[p][r].id \in DOMAIN blobs
       /\ At(p, r, "drop") => /\ task[p][r].id = manifest.current
                              /\ task[p][r].gone \cap Listed = {}

(* What role r of p has taken: its batch is in the file, then in the image,   *)
(* then in the current snapshot.                                             *)
Carried(p, r) ==
  LET t == task[p][r]
      newest == blobs[manifest.current].docs IN
  /\ t.pc \in {"append", "vacuum"} => ToSet(t.batch) \subseteq File(p).docs
  /\ t.pc \in {"stamp", "put", "upsert"} =>
       /\ Sound(t.image) /\ t.image.docs \subseteq File(p).docs
       /\ ToSet(t.batch) \subseteq t.image.docs /\ newest \subseteq t.image.docs
  /\ t.pc = "upsert" => blobs[t.id] = t.image
  /\ t.pc \in {"drop", "delete"} => ToSet(t.batch) \subseteq newest

(* What the file, the snapshots and the image of the next one have.          *)
Covered(p) ==
  LET newest == blobs[manifest.current].docs IN
  /\ \A id \in DOMAIN blobs : Sound(blobs[id])
  /\ path[p] # None => /\ Sound(File(p)) /\ newest \subseteq File(p).docs
                       /\ staged[p] \subseteq File(p).docs
  /\ At(p, "write", "enqueue") => ToSet(task[p]["write"].batch) \subseteq File(p).docs
  /\ \A r \in Takers : Carried(p, r)
  /\ replicated \subseteq newest

(* The id and the image role r will publish agree with the log.              *)
Logged(p, r) ==
  LET t == task[p][r] IN
  /\ t.pc \in {"put", "upsert"} => t.id[2] <= manifest.applied
  /\ t.pc \in {"stamp", "put", "upsert"} =>
       \A j \in DOMAIN manifest.segments : ToSet(manifest.segments[j].sum) \subseteq t.image.docs

(* The log, the file and the image against the labels of the snapshots: what  *)
(* is in the log is in the file, and a snapshot is labelled no higher than it *)
(* covers.  A process that loses its disk may lose what only its file had.    *)
Labelled(p) ==
  /\ Contiguous(manifest)
  /\ path[p] # None
  /\ \A j \in DOMAIN manifest.segments : ToSet(manifest.segments[j].sum) \subseteq File(p).docs
  /\ \A i \in DOMAIN manifest.snapshots : manifest.snapshots[i].seq <= manifest.applied
  /\ \A r \in Takers : Logged(p, r)
  /\ \A i \in DOMAIN manifest.snapshots, j \in DOMAIN manifest.segments :
       manifest.segments[j].last <= manifest.snapshots[i].seq =>
         ToSet(manifest.segments[j].sum) \subseteq blobs[manifest.snapshots[i].id].docs

(* No object has an id as high as the one the next write's or flush's         *)
(* snapshot will get; the reaper appends nothing, and may get an id again.    *)
Fresh(p) ==
  LET t == task[p][Snapshotter] IN
  /\ \A k \in DOMAIN blobs : k[2] <= manifest.applied
  /\ t.pc \in {"vacuum", "stamp"} => \A k \in DOMAIN blobs : k[2] < manifest.applied
  /\ t.pc = "put" => \A k \in DOMAIN blobs : k[2] < t.id[2]
  /\ \A r \in Takers : At(p, r, "put") => task[p][r].id[2] <= manifest.applied

(* A snapshot is written over by a reaper's upload only.                      *)
OnlyReaperOverwrites == KeepsSnapshots \/ \E n \in Writers : At(n, "reap", "put")

(* The inductive invariant of one writing process. *)
IInv(p) == TypeInv /\ Alone(p) /\ Stored(p) /\ Covered(p)

(* What each step keeps. *)
Keeps(p) ==
  /\ Alone(p)' /\ Stored(p)' /\ Covered(p)'
  /\ Labelled(p) /\ "disk" \notin Crashes => Labelled(p)'
  /\ Fresh(p) => Fresh(p)' /\ OnlyReaperOverwrites

(* The locals of a role that takes a step, and those of the others. *)
LEMMA RoleMoves ==
  ASSUME TypeInv, NEW n \in Writers, NEW r \in Roles, NEW x \in Locals, Become(n, r, x)
  PROVE  /\ task'[n][r] = x
         /\ \A m \in Writers, s \in Roles : m # n \/ s # r => task'[m][s] = task[m][s]
<1>1. task \in [Writers -> [Roles -> Locals]] /\ task' = [task EXCEPT ![n][r] = x]
  BY DEF TypeInv, TypeOK, Become
<1> QED
  BY <1>1, OneTask

(* The roles a writing process works in.                                      *)
LEMMA TakersAre ==
  /\ Takers \subseteq Roles /\ Snapshotter \in Takers /\ "reap" \in Takers
  /\ Snapshotter # "reap" /\ \A r \in Takers : r = Snapshotter \/ r = "reap"
  /\ "write" \in Roles /\ "flush" \in Roles /\ "poll" \in Roles /\ "poll" \notin Takers
  /\ (Async => Snapshotter = "flush" /\ "write" \notin Takers)
  /\ (~Async => Snapshotter = "write")
  BY DEF Takers, Snapshotter, Roles

(* Only a role that takes snapshots is past the local commit, one at a time.  *)
LEMMA WhoWorks ==
  ASSUME NEW p \in Writers, Alone(p), NEW r \in Roles, Working(p, r),
         task[p][r].pc \notin {"execute", "enqueue"}
  PROVE  r \in Takers /\ \A s \in Takers : s # r => task[p][s].pc = "idle"
  BY TakersAre DEF Alone, Apart, Working

(* A role at p goes on, or ends its call, and opens no window for the others. *)
LEMMA AloneGoesOn ==
  ASSUME NEW p \in Writers, TypeInv, Alone(p), Apart(p)', NEW r \in Takers, NEW x \in Locals,
         Working(p, r), Become(p, r, x), x.pc \notin {"execute", "enqueue"},
         x.pc = "idle" \/ x.inode = task[p][r].inode,
         UNCHANGED <<path, conn, opening, staged>>
  PROVE  /\ Alone(p)' /\ path[p] # None /\ task'[p][r] = x
         /\ \A s \in Takers : s # r => task'[p][s] = task[p][s] /\ task'[p][s].pc = "idle"
         /\ At(p, "write", "enqueue")' => task'[p]["write"] = task[p]["write"]
<1>1. /\ task'[p][r] = x
      /\ \A m \in Writers, s \in Roles : m # p \/ s # r => task'[m][s] = task[m][s]
  BY TakersAre, RoleMoves
<1>2. path[p] # None
  BY TakersAre DEF Alone
<1>3. ASSUME NEW n \in Writers, NEW s \in Roles, Working(n, s)'
      PROVE  \/ n # p /\ s = "poll"
             \/ n = p /\ s \in Takers
             \/ n = p /\ s = "write" /\ task'[n][s].pc \in {"execute", "enqueue"}
  <2>1. CASE n = p /\ s = r
    BY <2>1
  <2>2. CASE ~(n = p /\ s = r)
    <3>1. task'[n][s] = task[n][s] /\ Working(n, s)
      BY <1>1, <1>3, <2>2 DEF Working
    <3> QED
      BY <3>1 DEF Alone
  <2> QED
    BY <2>1, <2>2
<1>4. At(p, "write", "execute")' => task'[p]["write"].inode = path'[p]
  BY <1>1, TakersAre DEF Alone, At
<1>5. \A s \in Takers \ {"write"} : Working(p, s)' => task'[p][s].inode = path'[p]
  BY <1>1, TakersAre DEF Alone, Working
<1>6. Alone(p)'
  BY <1>2, <1>3, <1>4, <1>5 DEF Alone
<1>7. \A s \in Takers : s # r => task[p][s].pc = "idle"
  BY TakersAre DEF Alone, Apart, Working
<1> QED
  BY <1>1, <1>2, <1>6, <1>7, TakersAre DEF At

(* A role at p goes on to x, or fails, in a step that writes no file.         *)
LEMMA StepHere ==
  ASSUME EngineAssumption, NEW p \in Writers, IInv(p), Apart(p)', NEW r \in Takers,
         NEW x \in Locals, x.pc \notin {"idle", "bump", "execute", "enqueue"},
         x.inode = task[p][r].inode, Working(p, r), task[p][r].pc \notin {"execute", "enqueue"},
         UNCHANGED <<path, conn, opening, staged, disk>>,
         Become(p, r, x) \/ \E reason : Failed(p, r, reason)
  PROVE  /\ Alone(p)' /\ path[p] # None
         /\ task'[p][r] = x \/ task'[p][r].pc \in {"idle", "bump"}
         /\ \A s \in Takers : s # r => task'[p][s] = task[p][s] /\ task'[p][s].pc = "idle"
         /\ (\E reason : Failed(p, r, reason)) => task'[p][r].pc \in {"idle", "bump"}
         /\ At(p, "write", "enqueue")' => task'[p]["write"] = task[p]["write"]
         /\ File(p)' = File(p)
<1>0. TypeInv /\ Alone(p) /\ r \in Roles
  BY TakersAre DEF IInv
<1>1. File(p)' = File(p)
  BY DEF File
<1>2. ASSUME NEW y \in Locals, Become(p, r, y), y.pc \notin {"execute", "enqueue"},
             y.pc = "idle" \/ y.inode = task[p][r].inode
      PROVE  /\ Alone(p)' /\ path[p] # None /\ task'[p][r] = y
             /\ \A s \in Takers : s # r => task'[p][s] = task[p][s] /\ task'[p][s].pc = "idle"
             /\ At(p, "write", "enqueue")' => task'[p]["write"] = task[p]["write"]
  BY <1>0, <1>2, AloneGoesOn
<1>3. ASSUME NEW reason, Failed(p, r, reason)
      PROVE  \E y \in Locals : /\ Become(p, r, y) /\ y.pc \in {"idle", "bump"}
                               /\ y.pc = "idle" \/ y.inode = task[p][r].inode
  BY <1>0, <1>3, FailedIs, IdleIs
<1>4. CASE Become(p, r, x)
  <2>1. task'[p][r] = x
    BY <1>2, <1>4
  <2>2. ~\E reason : Failed(p, r, reason)
    BY <1>2, <1>3, <2>1
  <2> QED
    BY <1>1, <1>2, <1>4, <2>2
<1>5. CASE \E reason : Failed(p, r, reason)
  <2>1. PICK y \in Locals : /\ Become(p, r, y) /\ y.pc \in {"idle", "bump"}
                            /\ y.pc = "idle" \/ y.inode = task[p][r].inode
    BY <1>3, <1>5
  <2> QED
    BY <1>1, <1>2, <2>1
<1> QED
  BY <1>4, <1>5

(* Another process opens, closes, polls or crashes: it leaves the object     *)
(* store, the clients' history and the files of p as they are.               *)
LEMMA OthersStep ==
  ASSUME EngineAssumption, NEW p \in Writers, Single(p), TypeInv, Alone(p), Apart(p)',
         NEW n \in Writers, n # p,
         \/ Open(n) \/ Close(n) \/ Write(n) \/ FlushStart(n) \/ Flush(n) \/ FlushFails(n)
         \/ Reap(n) \/ Snapshotting(n, "reap") \/ Poll(n) \/ Crash(n)
  PROVE  /\ UNCHANGED <<now, remote, client>>
         /\ disk'[p] = disk[p] /\ path'[p] = path[p] /\ conn'[p] = conn[p]
         /\ opening'[p] = opening[p] /\ staged'[p] = staged[p] /\ task'[p] = task[p]
         /\ \A m \in Writers, r \in Roles :
              task'[m][r] = task[m][r] \/ (m = n /\ (r = "poll" \/ ~Working(m, r)'))
<1>1. ~Async /\ n \notin Clients
  BY DEF Single
<1>2. \A r \in {"write", "flush", "reap"} : r \in Roles /\ task[n][r].pc = "idle"
  <2>1. \A r \in {"write", "flush", "reap"} : r \in Roles /\ r # "poll"
    BY DEF Roles
  <2> QED
    BY <2>1 DEF Alone, Working
<1>3. ~Write(n) /\ ~FlushStart(n) /\ ~Flush(n) /\ ~FlushFails(n) /\ ~Snapshotting(n, "reap")
  <2>1. \A r \in {"write", "flush", "reap"} : ~AppendBatch(n, r) /\ ~Snapshotting(n, r)
    BY <1>2 DEF AppendBatch, Snapshotting, Vacuum, Stamp, PutBlob, UpsertSnapshot, DropEvicted, At
  <2>2. /\ ~WriteOpen(n) /\ ~WriteCommit(n) /\ ~Enqueue(n) /\ ~DeleteJobs(n) /\ ~BumpAttempts(n)
        /\ ~FlushReady(n) /\ ~At(n, "flush", "delete") /\ ~At(n, "flush", "bump")
    BY <1>1, <1>2 DEF WriteOpen, WriteCommit, Enqueue, DeleteJobs, BumpAttempts, FlushReady, At
  <2> QED
    BY <2>1, <2>2 DEF Write, FlushStart, Flush, FlushFails
<1>4. "poll" \in Roles
  BY DEF Roles
<1>5. /\ task \in [Writers -> [Roles -> Locals]] /\ disk \in [Writers -> [Inodes -> Content]]
      /\ path \in [Writers -> Inodes \cup {None}] /\ conn \in [Writers -> Inodes \cup {None}]
      /\ opening \in [Writers -> Inodes \cup {None}] /\ staged \in [Writers -> SUBSET Writes]
  BY DEF TypeInv, TypeOK
<1>6. ASSUME NEW id, Hydrated(n, id) PROVE disk'[p] = disk[p] /\ path'[p] = path[p]
  BY <1>6, HydratedIs
<1>7. CASE StartOpen(n)
  BY <1>5, <1>6, <1>7 DEF StartOpen
<1>8. CASE FinishOpen(n) \/ Close(n)
  BY <1>5, <1>8 DEF FinishOpen, Close
<1>9. CASE Poll(n)
  <2>1. /\ UNCHANGED <<now, remote, client, opening, staged>> /\ \E x : Become(n, "poll", x)
        /\ disk'[p] = disk[p] /\ path'[p] = path[p] /\ conn'[p] = conn[p]
    <3>1. CASE PollStart(n) \/ PollCount(n) \/ PollCurrent(n) \/ PollCompare(n)
      BY <3>1 DEF PollStart, PollCount, PollCurrent, PollCompare, Goto, local
    <3>2. CASE PollClose(n)
      BY <1>5, <3>2 DEF PollClose, Goto
    <3>3. CASE PollReplace(n)
      BY <1>6, <3>3 DEF PollReplace, Goto
    <3>4. CASE PollReopen(n)
      BY <1>5, <3>4 DEF PollReopen
    <3> QED
      BY <1>9, <3>1, <3>2, <3>3, <3>4 DEF Poll
  <2>2. /\ task'[p] = task[p]
        /\ \A m \in Writers, r \in Roles : task'[m][r] = task[m][r] \/ (m = n /\ r = "poll")
    BY <1>4, <1>5, <2>1 DEF Become
  <2> QED
    BY <2>1, <2>2
<1>10. CASE Crash(n)
  <2>1. /\ UNCHANGED <<now, remote, client, disk>> /\ path'[p] = path[p] /\ conn'[p] = conn[p]
        /\ opening'[p] = opening[p] /\ staged'[p] = staged[p] /\ task'[p] = task[p]
    BY <1>5, <1>10 DEF Crash
  <2>2. \A m \in Writers, r \in Roles : task'[m][r] = IF m = n THEN Idle ELSE task[m][r]
    BY <1>5, <1>10 DEF Crash
  <2> QED
    BY <2>1, <2>2, IdleIs DEF Working
<1>11. ~Reap(n)
  <2> SUFFICES ASSUME Reap(n) PROVE FALSE
    OBVIOUS
  <2> DEFINE x == [Idle EXCEPT !.pc = "vacuum", !.inode = conn[n]]
  <2>1. Become(n, "reap", x)
    BY DEF Reap
  <2>2. task'[n]["reap"] = x
    BY <1>2, <1>5, <2>1 DEF Become
  <2>3. x.pc = "vacuum"
    BY DEF Idle
  <2> HIDE DEF x
  <2> QED
    BY <2>2, <2>3 DEF Apart, Working
<1> QED
  BY <1>3, <1>7, <1>8, <1>9, <1>10, <1>11 DEF Open

(* So nothing said of p changes. *)
LEMMA OthersKeep ==
  ASSUME EngineAssumption, NEW p \in Writers, Single(p), IInv(p), Apart(p)',
         NEW n \in Writers, n # p,
         \/ Open(n) \/ Close(n) \/ Write(n) \/ FlushStart(n) \/ Flush(n) \/ FlushFails(n)
         \/ Reap(n) \/ Snapshotting(n, "reap") \/ Poll(n) \/ Crash(n)
  PROVE  Keeps(p)
<1>1. /\ now' = now /\ manifest' = manifest /\ blobs' = blobs
      /\ acked' = acked /\ replicated' = replicated
      /\ disk'[p] = disk[p] /\ path'[p] = path[p] /\ conn'[p] = conn[p]
      /\ opening'[p] = opening[p] /\ staged'[p] = staged[p] /\ task'[p] = task[p]
      /\ \A m \in Writers, r \in Roles :
           task'[m][r] = task[m][r] \/ (m = n /\ (r = "poll" \/ ~Working(m, r)'))
  <2>1. TypeInv /\ Alone(p)
    BY DEF IInv
  <2> QED
    BY <2>1, OthersStep DEF remote, client
<1>2. Alone(p)'
  <2>1. Alone(p)
    BY DEF IInv
  <2>2. ASSUME NEW m \in Writers, NEW r \in Roles, Working(m, r)'
        PROVE  \/ m # p /\ r = "poll"
               \/ m = p /\ r \in Takers
               \/ m = p /\ r = "write" /\ task'[m][r].pc \in {"execute", "enqueue"}
    <3>1. CASE task'[m][r] = task[m][r]
      BY <2>1, <2>2, <3>1 DEF Alone, Working
    <3>2. CASE m = n /\ r = "poll"
      BY <3>2
    <3> QED
      BY <1>1, <2>2, <3>1, <3>2
  <2> QED
    BY <1>1, <2>1, <2>2 DEF Alone, At, Working
<1>3. Stored(p)'
  BY <1>1 DEF IInv, Stored, Listed, At
<1>4. Covered(p)'
  BY <1>1 DEF IInv, Covered, Carried, File, At
<1>5. Labelled(p) => Labelled(p)'
  BY <1>1 DEF Labelled, Logged, File
<1>6. Fresh(p) => Fresh(p)' /\ OnlyReaperOverwrites
  BY <1>1 DEF Fresh, OnlyReaperOverwrites, KeepsSnapshots, At
<1> QED
  BY <1>2, <1>3, <1>4, <1>5, <1>6 DEF Keeps

(* get_conn of p itself opens its file, or the current snapshot; the idle     *)
(* close and the eviction drop the connection.                               *)
LEMMA OpenKeeps ==
  ASSUME EngineAssumption, NEW p \in Writers, Single(p), IInv(p), Apart(p)', Open(p) \/ Close(p)
  PROVE  Keeps(p)
<1>0. TypeInv /\ Alone(p) /\ Stored(p) /\ Covered(p)
  BY DEF IInv
<1>1. /\ path \in [Writers -> Inodes \cup {None}] /\ conn \in [Writers -> Inodes \cup {None}]
      /\ opening \in [Writers -> Inodes \cup {None}] /\ None \notin Inodes
  BY <1>0, ManifestAssumption DEF TypeInv, TypeOK, EngineAssumption
<1>2. /\ now' = now /\ manifest' = manifest /\ blobs' = blobs /\ task' = task
      /\ staged' = staged /\ acked' = acked /\ replicated' = replicated
  BY DEF Open, StartOpen, FinishOpen, Close, remote, client
<1>3. /\ conn'[p] \in {None, path'[p]} /\ opening'[p] \in {None, path'[p]}
      /\ \/ path'[p] = path[p] /\ disk'[p] = disk[p]
         \/ /\ path[p] = None /\ path'[p] # None
            /\ manifest.current \in DOMAIN blobs /\ File(p)' = blobs[manifest.current]
  <2>1. CASE StartOpen(p)
    <3>1. opening'[p] = path'[p] /\ conn' = conn /\ conn[p] = None
      BY <1>1, <2>1 DEF StartOpen
    <3>2. CASE path[p] = None
      <4>1. Hydrated(p, manifest.current)
        BY <2>1, <3>2 DEF StartOpen
      <4>2. /\ path'[p] \in Inodes /\ manifest.current \in DOMAIN blobs
            /\ disk'[p][path'[p]] = blobs[manifest.current]
        BY <1>0, <4>1, HydratedIs
      <4> QED
        BY <1>1, <3>1, <3>2, <4>2 DEF File
    <3>3. CASE path[p] # None
      BY <2>1, <3>1, <3>3 DEF StartOpen
    <3> QED
      BY <3>2, <3>3
  <2>2. CASE FinishOpen(p)
    <3>1. path' = path /\ disk' = disk /\ opening'[p] = None
          /\ conn'[p] \in {conn[p], opening[p]} /\ opening[p] # None
      BY <1>1, <2>2 DEF FinishOpen
    <3> QED
      BY <1>0, <3>1 DEF Alone
  <2>3. CASE Close(p)
    BY <1>0, <1>1, <2>3 DEF Close, Alone
  <2> QED
    BY <2>1, <2>2, <2>3 DEF Open
<1>4. /\ path[p] # None => path'[p] = path[p]
      /\ path'[p] = None => path[p] = None
  BY <1>3
<1>5. Alone(p)'
  BY <1>0, <1>2, <1>3, <1>4, TakersAre DEF Alone, At, Working
<1>6. Stored(p)'
  BY <1>0, <1>2 DEF Stored, Listed, At
<1>7. Covered(p)'
  <2>1. CASE path'[p] = path[p] /\ disk'[p] = disk[p]
    BY <1>0, <1>2, <2>1 DEF Covered, Carried, File, At
  <2>2. CASE /\ path[p] = None /\ manifest.current \in DOMAIN blobs
             /\ File(p)' = blobs[manifest.current]
    <3>1. /\ \A r \in Roles : task[p][r].pc = "idle"
          /\ staged[p] = {}
      BY <1>0, <2>2 DEF Alone, Working
    <3> QED
      BY <1>0, <1>2, <2>2, <3>1, TakersAre DEF Covered, Carried, At
  <2> QED
    BY <1>3, <2>1, <2>2
<1>8. Labelled(p) => Labelled(p)'
  <2> SUFFICES ASSUME Labelled(p) PROVE Labelled(p)'
    OBVIOUS
  <2>1. path'[p] = path[p] /\ disk'[p] = disk[p]
    BY <1>3 DEF Labelled
  <2> QED
    BY <1>2, <2>1 DEF Labelled, Logged, File
<1>9. Fresh(p) => Fresh(p)' /\ OnlyReaperOverwrites
  BY <1>2 DEF Fresh, OnlyReaperOverwrites, KeepsSnapshots, At
<1> QED
  BY <1>5, <1>6, <1>7, <1>8, <1>9 DEF Keeps

(* A role begins a call at p: the coordinator with a connection for the next  *)
(* write, the reaper with one for its image.                                 *)
LEMMA BeginKeeps ==
  ASSUME EngineAssumption, NEW p \in Writers, Single(p), IInv(p), Apart(p)',
         WriteOpen(p) \/ Reap(p)
  PROVE  Keeps(p)
<1> DEFINE x(l) == [Idle EXCEPT !.pc = l, !.inode = conn[p]]
<1>0. TypeInv /\ Alone(p) /\ Stored(p) /\ Covered(p)
  BY DEF IInv
<1>1. PICK r \in {"write", "reap"}, l \in {"execute", "vacuum"} :
        /\ l = (IF r = "write" THEN "execute" ELSE "vacuum")
        /\ Become(p, r, x(l)) /\ UNCHANGED <<now, remote, local, client>>
        /\ task[p][r].pc = "idle" /\ conn[p] # None
  BY DEF WriteOpen, Reap, At
<1> DEFINE y == x(l)
<1>2. /\ y \in Locals /\ y.pc = l /\ y.inode = conn[p] /\ ToSet(y.batch) = {}
      /\ conn[p] = path[p] /\ r \in Roles
  <2>1. conn[p] \in Inodes /\ conn[p] = path[p]
    BY <1>0, <1>1 DEF TypeInv, TypeOK, Alone
  <2>2. y \in Locals /\ y.pc = l /\ y.inode = conn[p] /\ y.batch = <<>>
    BY <1>1, <2>1, IdleIs DEF Locals, Labels
  <2>3. ToSet(<<>>) = {}
    BY DEF ToSet
  <2> HIDE DEF y
  <2> QED
    BY <1>1, <2>1, <2>2, <2>3, TakersAre
<1>3. Become(p, r, y)
  BY <1>1
<1> HIDE DEF y
<1>4. /\ task'[p][r] = y
      /\ \A m \in Writers, s \in Roles : m # p \/ s # r => task'[m][s] = task[m][s]
  BY <1>0, <1>2, <1>3, RoleMoves
<1>5. /\ now' = now /\ manifest' = manifest /\ blobs' = blobs /\ disk' = disk /\ path' = path
      /\ conn' = conn /\ opening' = opening /\ staged' = staged /\ replicated' = replicated
  BY <1>1 DEF remote, local, client
<1>6. \A s \in Takers : \/ task'[p][s] = task[p][s]
                        \/ task'[p][s] = y
  BY <1>4, TakersAre
<1>7. Alone(p)'
  <2>1. ASSUME NEW m \in Writers, NEW s \in Roles, Working(m, s)'
        PROVE  \/ m # p /\ s = "poll"
               \/ m = p /\ s \in Takers
               \/ m = p /\ s = "write" /\ task'[m][s].pc \in {"execute", "enqueue"}
    <3>1. CASE m = p /\ s = r
      BY <1>1, <1>2, <1>4, <3>1, TakersAre
    <3>2. CASE ~(m = p /\ s = r)
      BY <1>0, <1>4, <2>1, <3>2 DEF Alone, Working
    <3> QED
      BY <3>1, <3>2
  <2>2. path[p] # None
    BY <1>1, <1>2
  <2>3. At(p, "write", "execute")' => task'[p]["write"].inode = path'[p]
    BY <1>0, <1>2, <1>4, <1>5, TakersAre DEF Alone, At
  <2>4. \A s \in Takers \ {"write"} : Working(p, s)' => task'[p][s].inode = path'[p]
    BY <1>0, <1>2, <1>5, <1>6 DEF Alone, Working
  <2> QED
    BY <1>0, <1>5, <2>1, <2>2, <2>3, <2>4 DEF Alone
<1>8. Stored(p)'
  BY <1>0, <1>2, <1>5, <1>6 DEF Stored, Listed, At
<1>9. Covered(p)'
  <2>1. \A s \in Takers : Carried(p, s)'
    BY <1>0, <1>2, <1>5, <1>6 DEF Covered, Carried, File
  <2>2. At(p, "write", "enqueue")' => task'[p]["write"] = task[p]["write"]
    BY <1>1, <1>2, <1>4, TakersAre DEF At
  <2> QED
    BY <1>0, <1>5, <2>1, <2>2 DEF Covered, File, At
<1>10. Labelled(p) => Labelled(p)'
  BY <1>2, <1>5, <1>6 DEF Labelled, Logged, File
<1>11. Fresh(p) => Fresh(p)' /\ OnlyReaperOverwrites
  <2>1. task'[p][Snapshotter] = task[p][Snapshotter] \/ task'[p][Snapshotter].pc = "execute"
    BY <1>1, <1>2, <1>4, TakersAre
  <2> QED
    BY <1>2, <1>5, <1>6, <2>1, TakersAre DEF Fresh, OnlyReaperOverwrites, KeepsSnapshots, At
<1> QED
  BY <1>7, <1>8, <1>9, <1>10, <1>11 DEF Keeps

(* The local commit adds the write to the file that is open. *)
LEMMA WriteCommitKeeps ==
  ASSUME EngineAssumption, NEW p \in Writers, Single(p), IInv(p), Apart(p)', WriteCommit(p)
  PROVE  Keeps(p)
<1> DEFINE w == issued + 1
           i == task[p]["write"].inode
           c == [disk[p][i] EXCEPT !.docs = @ \cup {w}]
           x == [Idle EXCEPT !.pc = IF Async THEN "enqueue" ELSE "append", !.batch = <<w>>]
<1>0. TypeInv /\ Alone(p) /\ Stored(p) /\ Covered(p)
  BY DEF IInv
<1>1. /\ Become(p, "write", x) /\ task[p]["write"].pc = "execute" /\ issued < MaxWrites
      /\ UNCHANGED <<now, remote, path, conn, opening, loaded, staged, acked, replicated>>
      /\ disk' = [disk EXCEPT ![p][i].docs = @ \cup {w}]
  BY DEF WriteCommit, At
<1>2. w \in Writes
  BY <1>0, <1>1 DEF TypeInv, TypeOK, EngineAssumption, Writes
<1>3. i = path[p] /\ path[p] # None /\ i \in Inodes
  BY <1>0, <1>1, TakersAre DEF Alone, At, Working, TypeInv, TypeOK
<1>4. /\ c \in Content /\ c.docs = disk[p][i].docs \cup {w} /\ c.jobs = disk[p][i].jobs
      /\ disk[p][i] \in Content /\ disk \in [Writers -> [Inodes -> Content]]
  <2>1. disk \in [Writers -> [Inodes -> Content]] /\ disk[p][i] \in Content
    BY <1>0, <1>3 DEF TypeInv, TypeOK
  <2> HIDE DEF i, w
  <2> QED
    BY <1>2, <2>1, WithDocIs
<1>5. disk' = [disk EXCEPT ![p][i] = c]
  BY <1>1, <1>3, <1>4
<1> HIDE DEF c
<1>6. /\ x \in Locals /\ x.pc = (IF Async THEN "enqueue" ELSE "append") /\ ToSet(x.batch) = {w}
  <2>1. /\ x \in Locals /\ x.pc = (IF Async THEN "enqueue" ELSE "append") /\ x.batch = <<w>>
    <3>1. <<w>> \in Seq(Writes)
      BY <1>2
    <3> HIDE DEF w
    <3> QED
      BY <3>1, IdleIs DEF Locals, Labels
  <2>2. ToSet(<<w>>) = {w}
    BY DEF ToSet
  <2> HIDE DEF x, w
  <2> QED
    BY <2>1, <2>2
<1> HIDE DEF x, i
<1>7. /\ task'[p]["write"] = x
      /\ \A m \in Writers, s \in Roles : m # p \/ s # "write" => task'[m][s] = task[m][s]
  BY <1>0, <1>1, <1>6, TakersAre, RoleMoves
<1>8. /\ now' = now /\ manifest' = manifest /\ blobs' = blobs /\ path' = path
      /\ conn' = conn /\ opening' = opening /\ staged' = staged /\ replicated' = replicated
  BY <1>1 DEF remote
<1>9. /\ File(p)' = c /\ c.docs = File(p).docs \cup {w} /\ c.jobs = File(p).jobs
  BY <1>3, <1>4, <1>5, <1>8 DEF File
<1>10. \A s \in Takers : \/ task'[p][s] = task[p][s]
                         \/ task'[p][s] = x /\ x.pc = "append"
  BY <1>6, <1>7, TakersAre
<1>11. Alone(p)'
  <2>1. ASSUME NEW m \in Writers, NEW r \in Roles, Working(m, r)'
        PROVE  \/ m # p /\ r = "poll"
               \/ m = p /\ r \in Takers
               \/ m = p /\ r = "write" /\ task'[m][r].pc \in {"execute", "enqueue"}
    <3>1. CASE m = p /\ r = "write"
      BY <1>6, <1>7, <3>1, TakersAre
    <3>2. CASE ~(m = p /\ r = "write")
      BY <1>0, <1>7, <2>1, <3>2 DEF Alone, Working
    <3> QED
      BY <3>1, <3>2
  <2>2. ~At(p, "write", "execute")'
    BY <1>6, <1>7 DEF At
  <2>3. \A r \in Takers \ {"write"} : Working(p, r)' => task'[p][r].inode = path'[p]
    BY <1>0, <1>7, <1>8, TakersAre DEF Alone, Working
  <2> QED
    BY <1>0, <1>3, <1>8, <2>1, <2>2, <2>3 DEF Alone
<1>12. Stored(p)'
  BY <1>0, <1>6, <1>8, <1>10 DEF Stored, Listed, At
<1>13. Covered(p)'
  <2>1. Sound(File(p)) => Sound(c)
    BY <1>9 DEF Sound
  <2>2. \A s \in Takers : Carried(p, s)'
    BY <1>0, <1>6, <1>8, <1>9, <1>10 DEF Covered, Carried
  <2>3. At(p, "write", "enqueue")' => ToSet(task'[p]["write"].batch) \subseteq File(p)'.docs
    BY <1>6, <1>7, <1>9 DEF At
  <2> QED
    BY <1>0, <1>3, <1>8, <1>9, <2>1, <2>2, <2>3 DEF Covered
<1>14. Labelled(p) => Labelled(p)'
  BY <1>8, <1>9, <1>10 DEF Labelled, Logged
<1>15. Fresh(p) => Fresh(p)' /\ OnlyReaperOverwrites
  BY <1>8, <1>10, TakersAre DEF Fresh, OnlyReaperOverwrites, KeepsSnapshots, At
<1> QED
  BY <1>11, <1>12, <1>13, <1>14, <1>15 DEF Keeps

(* The job row describes a write of the file; so does a staged record. *)
LEMMA EnqueueKeeps ==
  ASSUME EngineAssumption, NEW p \in Writers, Single(p), IInv(p), Apart(p)', Enqueue(p)
  PROVE  Keeps(p)
<1> DEFINE b == task[p]["write"].batch
           w == b[1]
           c == WithJobs(disk[p][conn[p]], {w})
<1>0. TypeInv /\ Alone(p) /\ Stored(p) /\ Covered(p)
  BY DEF IInv
<1>1. /\ Become(p, "write", Idle) /\ task[p]["write"].pc = "enqueue"
      /\ UNCHANGED <<now, remote, path, conn, opening, loaded, replicated>>
      /\ \/ /\ conn[p] # None /\ disk' = [disk EXCEPT ![p][conn[p]] = WithJobs(@, {w})]
            /\ UNCHANGED staged
         \/ conn[p] # None /\ staged' = [staged EXCEPT ![p] = @ \cup {w}] /\ UNCHANGED disk
         \/ UNCHANGED <<disk, staged>>
  BY DEF Enqueue, At
<1>2. path[p] # None /\ path[p] \in Inodes /\ (conn[p] # None => conn[p] = path[p])
  BY <1>0, <1>1, TakersAre DEF Alone, Working, TypeInv, TypeOK
<1>3. w \in ToSet(b) /\ w \in Writes /\ ToSet(b) \subseteq File(p).docs
  <2>1. b \in Seq(Writes) /\ b # <<>>
    BY <1>0, <1>1, TakersAre DEF TypeInv, TypeOK, Locals, Fitting, Fits
  <2>2. ToSet(b) \subseteq File(p).docs
    BY <1>0, <1>1 DEF Covered, At
  <2> HIDE DEF b
  <2>3. 1 \in DOMAIN b /\ b[1] \in Writes
    BY <2>1
  <2> QED
    BY <2>2, <2>3 DEF ToSet
<1>4. /\ task'[p]["write"] = Idle /\ Idle.pc = "idle"
      /\ \A m \in Writers, s \in Roles : m # p \/ s # "write" => task'[m][s] = task[m][s]
  BY <1>0, <1>1, IdleIs, TakersAre, RoleMoves
<1>5. /\ now' = now /\ manifest' = manifest /\ blobs' = blobs /\ path' = path
      /\ conn' = conn /\ opening' = opening /\ replicated' = replicated
  BY <1>1 DEF remote
<1>6. /\ Sound(File(p)) => Sound(File(p))'
      /\ File(p)'.docs = File(p).docs /\ staged'[p] \subseteq staged[p] \cup {w}
  <2>1. CASE conn[p] # None /\ disk' = [disk EXCEPT ![p][conn[p]] = WithJobs(@, {w})]
             /\ UNCHANGED staged
    <3>1. disk \in [Writers -> [Inodes -> Content]] /\ disk[p][conn[p]] \in Content
      BY <1>0, <1>2, <2>1 DEF TypeInv, TypeOK
    <3>2. LET d == WithJobs(disk[p][conn[p]], {w}) IN
          /\ d \in Content /\ d.docs = disk[p][conn[p]].docs
          /\ DOMAIN d.jobs = DOMAIN disk[p][conn[p]].jobs \cup {w}
      <4> HIDE DEF w
      <4> QED
        BY <1>3, <3>1, WithJobsIs
    <3>3. File(p)' = c
      BY <1>2, <1>5, <2>1, <3>1 DEF File
    <3>4. c.docs = File(p).docs /\ DOMAIN c.jobs = DOMAIN File(p).jobs \cup {w}
      BY <1>2, <2>1, <3>2 DEF File
    <3> HIDE DEF c
    <3> QED
      BY <1>3, <2>1, <3>3, <3>4 DEF Sound
  <2>2. CASE (staged' = [staged EXCEPT ![p] = @ \cup {w}] \/ UNCHANGED staged) /\ UNCHANGED disk
    BY <1>0, <1>5, <2>2 DEF File, TypeInv, TypeOK
  <2> QED
    BY <1>1, <2>1, <2>2
<1> HIDE DEF c, w, b
<1>7. \A s \in Takers : task'[p][s] = task[p][s] \/ task'[p][s].pc = "idle"
  BY <1>4, TakersAre
<1>8. Alone(p)'
  <2>1. ASSUME NEW m \in Writers, NEW r \in Roles, Working(m, r)'
        PROVE  task'[m][r] = task[m][r] /\ Working(m, r)
    BY <1>4, <2>1 DEF Working
  <2>2. ~At(p, "write", "execute")'
    BY <1>4 DEF At
  <2>3. \A r \in Takers \ {"write"} : Working(p, r)' => task'[p][r].inode = path'[p]
    BY <1>0, <1>5, <2>1, TakersAre DEF Alone
  <2>4. ASSUME NEW m \in Writers, NEW r \in Roles, Working(m, r)'
        PROVE  \/ m # p /\ r = "poll"
               \/ m = p /\ r \in Takers
               \/ m = p /\ r = "write" /\ task'[m][r].pc \in {"execute", "enqueue"}
    BY <1>0, <2>1, <2>4 DEF Alone
  <2> QED
    BY <1>0, <1>2, <1>5, <2>2, <2>3, <2>4 DEF Alone
<1>9. Stored(p)'
  BY <1>0, <1>5, <1>7 DEF Stored, Listed, At
<1>10. Covered(p)'
  <2>1. \A s \in Takers : Carried(p, s)'
    BY <1>0, <1>5, <1>6, <1>7 DEF Covered, Carried
  <2> QED
    BY <1>0, <1>2, <1>3, <1>4, <1>5, <1>6, <2>1 DEF Covered, At
<1>11. Labelled(p) => Labelled(p)'
  BY <1>5, <1>6, <1>7 DEF Labelled, Logged
<1>12. Fresh(p) => Fresh(p)' /\ OnlyReaperOverwrites
  BY <1>5, <1>7, TakersAre DEF Fresh, OnlyReaperOverwrites, KeepsSnapshots, At
<1> QED
  BY <1>8, <1>9, <1>10, <1>11, <1>12 DEF Keeps

(* A new segment holds what the file holds, and lies above every snapshot. *)
LEMMA AppendKeeps ==
  ASSUME EngineAssumption, NEW p \in Writers, Single(p), IInv(p), Apart(p)',
         AppendBatch(p, Snapshotter)
  PROVE  Keeps(p)
<1> DEFINE t == task[p][Snapshotter]
           seg == [first |-> manifest.applied + 1, last |-> manifest.applied + Len(t.batch),
                   epoch |-> manifest.epoch, sum |-> t.batch]
           x == [t EXCEPT !.pc = "vacuum"]
           m2 == WithSegment(manifest, seg, p)
<1>0. TypeInv /\ Alone(p) /\ Stored(p) /\ Covered(p) /\ t \in Locals
  BY TakersAre DEF IInv, TypeInv, TypeOK
<1>1. /\ UNCHANGED <<now, blobs, disk, path, conn, opening, loaded, staged, client>>
      /\ t.pc = "append" /\ Working(p, Snapshotter)
      /\ \/ Become(p, Snapshotter, x) /\ manifest' = m2
         \/ (\E reason : Failed(p, Snapshotter, reason)) /\ manifest' \in {manifest, m2}
  BY DEF AppendBatch, At, Goto, AfterAppend, Working, local
<1>2. x \in Locals /\ x.pc = "vacuum" /\ x.batch = t.batch /\ x.inode = t.inode
  BY <1>0 DEF Locals, Labels
<1>3. /\ Alone(p)' /\ path[p] # None
      /\ task'[p][Snapshotter] = x \/ task'[p][Snapshotter].pc \in {"idle", "bump"}
      /\ task'[p]["reap"].pc = "idle"
      /\ (\E reason : Failed(p, Snapshotter, reason)) => task'[p][Snapshotter].pc \in {"idle", "bump"}
      /\ At(p, "write", "enqueue")' => task'[p]["write"] = task[p]["write"]
      /\ File(p)' = File(p)
  <2> HIDE DEF x, m2
  <2>1. t.pc \notin {"execute", "enqueue"} /\ x.pc \notin {"idle", "bump", "execute", "enqueue"}
    BY <1>1, <1>2
  <2> QED
    BY <1>1, <1>2, <2>1, TakersAre, StepHere
<1>4. /\ seg \in Segment /\ seg.sum = t.batch /\ seg.last = manifest.applied + Len(t.batch)
      /\ manifest.applied \in Nat /\ Len(t.batch) \in Nat \ {0} /\ seg.first = manifest.applied + 1
  <2>1. t.batch \in Batches /\ Len(t.batch) \in Nat \ {0}
    BY <1>0, <1>1, TakersAre, ManifestAssumption DEF TypeInv, Fitting, Fits
  <2>2. manifest.applied \in Nat /\ manifest.epoch \in Nat \ {0}
    BY <1>0 DEF TypeInv, Manifest
  <2> HIDE DEF t
  <2> QED
    BY <2>1, <2>2 DEF Segment
<1> HIDE DEF seg, x
<1>5. /\ manifest \in Manifest /\ Contiguous(m2) /\ Cataloged(m2)
      /\ m2.segments = Append(manifest.segments, seg) /\ m2.applied = seg.last
      /\ m2.snapshots = manifest.snapshots /\ m2.current = manifest.current
  <2>1. manifest \in Manifest /\ Contiguous(manifest)
    BY <1>0 DEF TypeInv
  <2>2. Contiguous(m2)
    BY <1>4, <2>1, WithSegmentSound
  <2>3. /\ m2.segments = Append(manifest.segments, seg) /\ m2.applied = seg.last
        /\ m2.snapshots = manifest.snapshots /\ m2.current = manifest.current
    BY <2>1 DEF WithSegment, Manifest
  <2>4. Cataloged(m2)
    BY <1>0, <2>3 DEF Stored, Cataloged
  <2> QED
    BY <2>1, <2>2, <2>3, <2>4
<1>6. /\ DOMAIN m2.segments = DOMAIN manifest.segments \cup {Len(manifest.segments) + 1}
      /\ \A j \in DOMAIN manifest.segments : m2.segments[j] = manifest.segments[j]
      /\ m2.segments[Len(manifest.segments) + 1] = seg
  <2> DEFINE segs == manifest.segments
  <2>1. segs \in Seq(Segment)
    BY <1>5 DEF Manifest
  <2> HIDE DEF segs
  <2>2. /\ DOMAIN Append(segs, seg) = DOMAIN segs \cup {Len(segs) + 1}
        /\ \A j \in DOMAIN segs : Append(segs, seg)[j] = segs[j]
        /\ Append(segs, seg)[Len(segs) + 1] = seg
    BY <1>4, <2>1, LenProperties, AppendProperties
  <2> HIDE DEF m2
  <2> QED
    BY <1>5, <2>2 DEF segs
<1> HIDE DEF m2
<1>7. /\ manifest'.snapshots = manifest.snapshots /\ manifest'.current = manifest.current
      /\ manifest'.applied >= manifest.applied /\ manifest'.applied \in Nat
      /\ task'[p][Snapshotter] = x => manifest'.applied > manifest.applied
      /\ Contiguous(manifest') /\ Cataloged(manifest')
      /\ now' = now /\ blobs' = blobs /\ path' = path /\ staged' = staged /\ replicated' = replicated
  <2>1. Contiguous(manifest) /\ Cataloged(manifest)
    BY <1>0 DEF TypeInv, Stored
  <2>2. (\E reason : Failed(p, Snapshotter, reason)) => task'[p][Snapshotter] # x
    BY <1>2, <1>3
  <2> QED
    BY <1>1, <1>4, <1>5, <2>1, <2>2 DEF client
<1>8. t.batch = seg.sum /\ ToSet(t.batch) \subseteq File(p).docs
  BY <1>0, <1>1, <1>4, TakersAre DEF Covered, Carried
<1> HIDE DEF t
<1>9. \A s \in Takers : \/ task'[p][s] = x /\ x.pc = "vacuum" /\ x.batch = seg.sum
                        \/ task'[p][s].pc \in {"idle", "bump"}
  BY <1>2, <1>3, <1>8, TakersAre
<1>10. Stored(p)'
  BY <1>0, <1>7, <1>9 DEF Stored, Listed, At
<1>11. Covered(p)'
  <2>1. \A s \in Takers : Carried(p, s)'
    BY <1>3, <1>8, <1>9 DEF Carried
  <2> QED
    BY <1>0, <1>3, <1>7, <2>1 DEF Covered, At
<1>12. Labelled(p) => Labelled(p)'
  <2> SUFFICES ASSUME Labelled(p) PROVE Labelled(p)'
    OBVIOUS
  <2>1. \A i \in DOMAIN manifest.snapshots :
          manifest.snapshots[i].seq <= manifest.applied /\ manifest.snapshots[i].seq \in Nat
    <3>1. manifest.snapshots \in Seq(Snapshot)
      BY <1>5 DEF Manifest
    <3>2. \A i \in DOMAIN manifest.snapshots : manifest.snapshots[i] \in Snapshot
      BY <3>1
    <3> QED
      BY <3>2 DEF Labelled, Snapshot
  <2>2. ASSUME NEW j \in DOMAIN manifest'.segments
        PROVE  \/ j \in DOMAIN manifest.segments /\ manifest'.segments[j] = manifest.segments[j]
               \/ manifest'.segments[j] = seg
    BY <1>1, <1>6
  <2>3. \A j \in DOMAIN manifest'.segments : ToSet(manifest'.segments[j].sum) \subseteq File(p)'.docs
    <3> SUFFICES ASSUME NEW j \in DOMAIN manifest'.segments
                 PROVE  ToSet(manifest'.segments[j].sum) \subseteq File(p)'.docs
      OBVIOUS
    <3>1. CASE j \in DOMAIN manifest.segments /\ manifest'.segments[j] = manifest.segments[j]
      BY <1>3, <3>1 DEF Labelled
    <3>2. CASE manifest'.segments[j] = seg
      BY <1>3, <1>8, <3>2
    <3> QED
      BY <2>2, <3>1, <3>2
  <2>4. ASSUME NEW i \in DOMAIN manifest.snapshots, NEW j \in DOMAIN manifest'.segments,
               manifest'.segments[j].last <= manifest.snapshots[i].seq
        PROVE  ToSet(manifest'.segments[j].sum) \subseteq blobs[manifest.snapshots[i].id].docs
    <3>1. manifest'.segments[j] # seg
      BY <1>4, <2>1, <2>4
    <3>2. j \in DOMAIN manifest.segments /\ manifest'.segments[j] = manifest.segments[j]
      BY <2>2, <3>1
    <3> QED
      BY <2>4, <3>2 DEF Labelled
  <2>5. \A i \in DOMAIN manifest.snapshots : manifest.snapshots[i].seq <= manifest'.applied
    BY <1>4, <1>7, <2>1
  <2> QED
    BY <1>3, <1>7, <1>9, <2>3, <2>4, <2>5 DEF Labelled, Logged
<1>13. Fresh(p) => Fresh(p)' /\ OnlyReaperOverwrites
  <2> SUFFICES ASSUME Fresh(p) PROVE Fresh(p)' /\ OnlyReaperOverwrites
    OBVIOUS
  <2>1. \A k \in DOMAIN blobs : k[2] \in Nat /\ k[2] <= manifest.applied
    BY <1>0 DEF Fresh, TypeInv, TypeOK, SnapshotId
  <2>2. \A k \in DOMAIN blobs : /\ k[2] <= manifest'.applied
                                /\ task'[p][Snapshotter] = x => k[2] < manifest'.applied
    BY <1>4, <1>7, <2>1
  <2> QED
    BY <1>7, <1>9, <2>2, TakersAre DEF Fresh, OnlyReaperOverwrites, KeepsSnapshots, At
<1> QED
  BY <1>3, <1>10, <1>11, <1>12, <1>13 DEF Keeps

(* What the call of a role past the local commit is at, and the other role.   *)
LEMMA TakerHas ==
  ASSUME NEW p \in Writers, IInv(p), NEW r \in Takers, Working(p, r),
         task[p][r].pc \notin {"execute", "enqueue"}
  PROVE  /\ TypeInv /\ Alone(p) /\ Stored(p) /\ Covered(p) /\ Carried(p, r)
         /\ task[p][r] \in Locals /\ path[p] # None /\ path[p] \in Inodes
         /\ \A s \in Takers : s # r => task[p][s].pc = "idle"
         /\ Labelled(p) => Logged(p, r)
<1>1. /\ TypeInv /\ Alone(p) /\ Stored(p) /\ Covered(p) /\ r \in Roles
  BY TakersAre DEF IInv
<1>2. path[p] # None /\ path[p] \in Inodes /\ task[p][r] \in Locals
  BY <1>1 DEF Alone, TypeInv, TypeOK
<1>3. \A s \in Takers : s # r => task[p][s].pc = "idle"
  BY <1>1, WhoWorks
<1> QED
  BY <1>1, <1>2, <1>3 DEF Covered, Labelled

(* The image is a copy of the file. *)
LEMMA VacuumKeeps ==
  ASSUME EngineAssumption, NEW p \in Writers, Single(p), IInv(p), Apart(p)',
         NEW r \in Takers, Vacuum(p, r)
  PROVE  Keeps(p)
<1> DEFINE t == task[p][r]
           x == [t EXCEPT !.pc = "stamp", !.image = disk[p][SnapshotSource(p, r)]]
<1>1. t.pc = "vacuum" /\ Working(p, r) /\ UNCHANGED <<now, remote, local>>
  BY DEF Vacuum, At, Working
<1>0. /\ TypeInv /\ Alone(p) /\ Stored(p) /\ Covered(p) /\ Carried(p, r) /\ t \in Locals
      /\ path[p] # None /\ path[p] \in Inodes /\ (Labelled(p) => Logged(p, r))
  BY <1>1, TakerHas
<1>2. SnapshotSource(p, r) = path[p] /\ File(p) \in Content
  <2>1. CASE r = "reap"
    BY <1>0, <1>1, <2>1, TakersAre DEF SnapshotSource, Alone, TypeInv, TypeOK, File
  <2>2. CASE r = Snapshotter
    BY <1>0, <1>1, <2>2, TakersAre DEF SnapshotSource, Alone, Apart, At, TypeInv, TypeOK, File
  <2> QED
    BY <2>1, <2>2, TakersAre
<1>3. Become(p, r, x) /\ UNCHANGED client
  BY <1>0, <1>2 DEF Vacuum
<1>4. /\ now' = now /\ manifest' = manifest /\ blobs' = blobs /\ disk' = disk /\ path' = path
      /\ conn' = conn /\ opening' = opening /\ staged' = staged /\ replicated' = replicated
  BY <1>1, <1>3 DEF remote, local, client
<1>5. /\ x \in Locals /\ x.pc = "stamp" /\ x.batch = t.batch /\ x.inode = t.inode
      /\ x.image = File(p)
  BY <1>0, <1>2 DEF Locals, Labels, File
<1> HIDE DEF x
<1>6. /\ Alone(p)' /\ path[p] # None /\ File(p)' = File(p)
      /\ At(p, "write", "enqueue")' => task'[p]["write"] = task[p]["write"]
      /\ task'[p][r] = x /\ \A s \in Takers : s # r => task'[p][s].pc = "idle"
  BY <1>0, <1>1, <1>3, <1>4, <1>5, AloneGoesOn DEF File
<1> HIDE DEF t
<1>7. ToSet(t.batch) \subseteq File(p).docs
  BY <1>0, <1>1 DEF Carried, t
<1>8. \A s \in Takers : task'[p][s] = x \/ task'[p][s].pc = "idle"
  BY <1>6
<1>9. Stored(p)'
  BY <1>0, <1>4, <1>5, <1>8 DEF Stored, Listed, At
<1>10. Covered(p)'
  <2>1. \A s \in Takers : Carried(p, s)'
    BY <1>0, <1>4, <1>5, <1>6, <1>7, <1>8 DEF Covered, Carried
  <2> QED
    BY <1>0, <1>4, <1>6, <2>1 DEF Covered, At
<1>11. Labelled(p) => Labelled(p)'
  BY <1>4, <1>5, <1>6, <1>8 DEF Labelled, Logged
<1>12. Fresh(p) => Fresh(p)' /\ OnlyReaperOverwrites
  <2>1. task'[p][Snapshotter].pc = "stamp" => task[p][Snapshotter].pc = "vacuum"
    BY <1>1, <1>6, TakersAre DEF t
  <2> QED
    BY <1>4, <1>5, <1>8, <2>1, TakersAre DEF Fresh, OnlyReaperOverwrites, KeepsSnapshots, At
<1> QED
  BY <1>6, <1>9, <1>10, <1>11, <1>12 DEF Keeps

(* The id is made when every record of the log is in the image. *)
LEMMA StampKeeps ==
  ASSUME EngineAssumption, NEW p \in Writers, Single(p), IInv(p), Apart(p)',
         NEW r \in Takers, Stamp(p, r)
  PROVE  Keeps(p)
<1> DEFINE t == task[p][r]
           x == [t EXCEPT !.pc = "put", !.id = NewId]
<1>1. /\ t.pc = "stamp" /\ Working(p, r) /\ UNCHANGED <<now, remote, local, client>>
      /\ Become(p, r, x)
  BY DEF Stamp, At, Working
<1>0. /\ TypeInv /\ Alone(p) /\ Stored(p) /\ Covered(p) /\ Carried(p, r) /\ t \in Locals
      /\ path[p] # None /\ (Labelled(p) => Logged(p, r))
  BY <1>1, TakerHas
<1>2. NewId \in SnapshotId /\ NewId[2] = manifest.applied /\ manifest.applied \in Nat
  BY <1>0 DEF NewId, SnapshotId, TypeInv, TypeOK, Manifest
<1>3. /\ now' = now /\ manifest' = manifest /\ blobs' = blobs /\ disk' = disk /\ path' = path
      /\ conn' = conn /\ opening' = opening /\ staged' = staged /\ replicated' = replicated
  BY <1>1 DEF remote, local, client
<1>4. /\ x \in Locals /\ x.pc = "put" /\ x.batch = t.batch /\ x.inode = t.inode
      /\ x.image = t.image /\ x.id = NewId
  BY <1>0, <1>2 DEF Locals, Labels
<1> HIDE DEF x
<1>5. /\ Alone(p)' /\ File(p)' = File(p)
      /\ At(p, "write", "enqueue")' => task'[p]["write"] = task[p]["write"]
      /\ task'[p][r] = x /\ \A s \in Takers : s # r => task'[p][s].pc = "idle"
  BY <1>0, <1>1, <1>3, <1>4, AloneGoesOn DEF File
<1>6. \A s \in Takers : task'[p][s] = x \/ task'[p][s].pc = "idle"
  BY <1>5
<1>7. Stored(p)'
  BY <1>0, <1>3, <1>4, <1>6 DEF Stored, Listed, At
<1>8. Covered(p)'
  <2>1. /\ Sound(t.image) /\ t.image.docs \subseteq File(p).docs
        /\ ToSet(t.batch) \subseteq t.image.docs /\ blobs[manifest.current].docs \subseteq t.image.docs
    BY <1>0, <1>1 DEF Carried
  <2> HIDE DEF t
  <2>2. \A s \in Takers : Carried(p, s)'
    BY <1>3, <1>4, <1>5, <1>6, <2>1 DEF Carried
  <2> QED
    BY <1>0, <1>3, <1>5, <2>2 DEF Covered, At
<1>9. Labelled(p) => Labelled(p)'
  <2> SUFFICES ASSUME Labelled(p) PROVE Labelled(p)'
    OBVIOUS
  <2>1. \A j \in DOMAIN manifest.segments : ToSet(manifest.segments[j].sum) \subseteq t.image.docs
    BY <1>0, <1>1 DEF Logged
  <2>2. NewId[2] <= manifest.applied
    BY <1>2
  <2> HIDE DEF t
  <2> QED
    BY <1>3, <1>4, <1>5, <1>6, <2>1, <2>2 DEF Labelled, Logged
<1>10. Fresh(p) => Fresh(p)' /\ OnlyReaperOverwrites
  <2> SUFFICES ASSUME Fresh(p) PROVE Fresh(p)' /\ OnlyReaperOverwrites
    OBVIOUS
  <2>1. NewId[2] <= manifest.applied
    BY <1>2
  <2>2. r = Snapshotter => \A k \in DOMAIN blobs : k[2] < NewId[2]
    BY <1>1, <1>2 DEF Fresh
  <2>3. task'[p][Snapshotter].pc = "put" => r = Snapshotter /\ task'[p][Snapshotter] = x
    BY <1>5, TakersAre
  <2> QED
    BY <1>3, <1>4, <1>6, <2>1, <2>2, <2>3, TakersAre
    DEF Fresh, OnlyReaperOverwrites, KeepsSnapshots, At
<1> QED
  BY <1>5, <1>7, <1>8, <1>9, <1>10 DEF Keeps

(* The object stored holds all that the current snapshot holds. *)
LEMMA PutKeeps ==
  ASSUME EngineAssumption, NEW p \in Writers, Single(p), IInv(p), Apart(p)',
         NEW r \in Takers, PutBlob(p, r)
  PROVE  Keeps(p)
<1> DEFINE t == task[p][r]
           x == [t EXCEPT !.pc = "upsert"]
           after == [k \in DOMAIN blobs \cup {t.id} |-> IF k = t.id THEN t.image ELSE blobs[k]]
<1>1. /\ UNCHANGED <<now, manifest, disk, path, conn, opening, loaded, staged, client>>
      /\ t.pc = "put" /\ Working(p, r)
      /\ \/ Become(p, r, x) /\ blobs' = after
         \/ (\E reason : Failed(p, r, reason)) /\ blobs' \in {blobs, after}
  BY DEF PutBlob, At, Goto, Working, local
<1>0. /\ TypeInv /\ Alone(p) /\ Stored(p) /\ Covered(p) /\ Carried(p, r) /\ t \in Locals
      /\ path[p] # None /\ (Labelled(p) => Logged(p, r))
  BY <1>1, TakerHas
<1>2. /\ x \in Locals /\ x.pc = "upsert" /\ x.batch = t.batch /\ x.inode = t.inode
      /\ x.image = t.image /\ x.id = t.id
  BY <1>0 DEF Locals, Labels
<1>3. DOMAIN after = DOMAIN blobs \cup {t.id} /\ after[t.id] = t.image
      /\ \A k \in DOMAIN blobs : k # t.id => after[k] = blobs[k]
  OBVIOUS
<1> HIDE DEF x, after
<1>4. /\ Alone(p)' /\ File(p)' = File(p)
      /\ task'[p][r] = x \/ task'[p][r].pc \in {"idle", "bump"}
      /\ \A s \in Takers : s # r => task'[p][s].pc = "idle"
      /\ (\E reason : Failed(p, r, reason)) => task'[p][r].pc \in {"idle", "bump"}
      /\ At(p, "write", "enqueue")' => task'[p]["write"] = task[p]["write"]
  <2>1. t.pc \notin {"execute", "enqueue"} /\ x.pc \notin {"idle", "bump", "execute", "enqueue"}
    BY <1>1, <1>2
  <2> QED
    BY <1>1, <1>2, <2>1, StepHere
<1>5. /\ now' = now /\ manifest' = manifest /\ path' = path /\ staged' = staged
      /\ replicated' = replicated
  BY <1>1 DEF client
<1>6. blobs' \in {blobs, after} /\ (task'[p][r] = x => blobs' = after)
  BY <1>1, <1>2, <1>4
<1>7. /\ Sound(t.image) /\ t.image.docs \subseteq File(p).docs
      /\ ToSet(t.batch) \subseteq t.image.docs /\ blobs[manifest.current].docs \subseteq t.image.docs
  BY <1>0, <1>1 DEF Carried
<1>8. \A s \in Takers : \/ task'[p][s] = x /\ blobs' = after
                        \/ task'[p][s].pc \in {"idle", "bump"}
  BY <1>4, <1>6
<1>9. /\ t.pc = "put" /\ (r = Snapshotter => task[p][Snapshotter] = t)
      /\ t.id \in SnapshotId
  BY <1>0, <1>1, TakersAre DEF TypeInv, Fitting, Fits
<1> HIDE DEF t
<1>10. /\ DOMAIN blobs \subseteq DOMAIN blobs'
       /\ \A k \in DOMAIN blobs' : \/ k \in DOMAIN blobs /\ blobs'[k] = blobs[k]
                                   \/ k = t.id /\ blobs'[k] = t.image
  BY <1>3, <1>6
<1>11. manifest.current \in DOMAIN blobs
  BY <1>0 DEF Stored
<1>12. Stored(p)'
  BY <1>0, <1>2, <1>3, <1>5, <1>8, <1>10 DEF Stored, Listed, At
<1>13. Covered(p)'
  <2>1. \A k \in DOMAIN blobs' : Sound(blobs'[k])
    BY <1>0, <1>7, <1>10 DEF Covered
  <2>2. \/ /\ blobs[manifest.current].docs \subseteq blobs'[manifest.current].docs
           /\ blobs'[manifest.current].docs \subseteq t.image.docs
        \/ blobs'[manifest.current] = blobs[manifest.current]
    BY <1>7, <1>10, <1>11
  <2>3. blobs'[manifest.current].docs \subseteq t.image.docs
    BY <1>7, <2>2
  <2>4. \A s \in Takers : Carried(p, s)'
    BY <1>2, <1>3, <1>4, <1>5, <1>7, <1>8, <2>3 DEF Carried
  <2>5. /\ blobs[manifest.current].docs \subseteq blobs'[manifest.current].docs
        /\ blobs'[manifest.current].docs \subseteq File(p).docs
    BY <1>0, <1>7, <2>2 DEF Covered
  <2> QED
    BY <1>0, <1>4, <1>5, <2>1, <2>4, <2>5 DEF Covered, At
<1>14. Labelled(p) => Labelled(p)'
  <2> SUFFICES ASSUME Labelled(p) PROVE Labelled(p)'
    OBVIOUS
  <2>1. /\ \A j \in DOMAIN manifest.segments : ToSet(manifest.segments[j].sum) \subseteq t.image.docs
        /\ t.id[2] <= manifest.applied
    BY <1>0, <1>9 DEF Logged, t
  <2>2. ASSUME NEW i \in DOMAIN manifest.snapshots, NEW j \in DOMAIN manifest.segments,
               manifest.segments[j].last <= manifest.snapshots[i].seq
        PROVE  ToSet(manifest.segments[j].sum) \subseteq blobs'[manifest.snapshots[i].id].docs
    <3>1. manifest.snapshots[i].id \in DOMAIN blobs
      BY <1>0 DEF Stored, Listed
    <3>2. ToSet(manifest.segments[j].sum) \subseteq blobs[manifest.snapshots[i].id].docs
      BY <2>2 DEF Labelled
    <3> QED
      BY <1>10, <2>1, <3>1, <3>2
  <2> QED
    BY <1>2, <1>4, <1>5, <1>8, <2>1, <2>2 DEF Labelled, Logged
<1>15. Fresh(p) => Fresh(p)' /\ OnlyReaperOverwrites
  <2> SUFFICES ASSUME Fresh(p) PROVE Fresh(p)' /\ OnlyReaperOverwrites
    OBVIOUS
  <2>1. t.id[2] <= manifest.applied
    BY <1>9 DEF Fresh, At, t
  <2>2. \A k \in DOMAIN blobs' : k[2] <= manifest'.applied
    BY <1>5, <1>10, <2>1 DEF Fresh
  <2>3. \A s \in Takers : task'[p][s].pc \notin {"vacuum", "stamp", "put"}
    BY <1>2, <1>8
  <2>4. Fresh(p)'
    BY <2>2, <2>3, TakersAre DEF Fresh, At
  <2>5. CASE r = "reap"
    BY <1>9, <2>4, <2>5 DEF OnlyReaperOverwrites, At, t
  <2>6. CASE r = Snapshotter
    <3>1. \A k \in DOMAIN blobs : k[2] < t.id[2]
      BY <1>9, <2>6 DEF Fresh
    <3>2. ~(t.id[2] < t.id[2])
      BY <1>9 DEF SnapshotId
    <3>3. t.id \notin DOMAIN blobs
      BY <3>1, <3>2
    <3> QED
      BY <1>10, <2>4, <3>3 DEF OnlyReaperOverwrites, KeepsSnapshots
  <2> QED
    BY <2>5, <2>6, TakersAre
<1> QED
  BY <1>4, <1>12, <1>13, <1>14, <1>15 DEF Keeps

(* The snapshot listed becomes the current one, and is not evicted. *)
LEMMA UpsertKeeps ==
  ASSUME EngineAssumption, NEW p \in Writers, Single(p), IInv(p), Apart(p)',
         NEW r \in Takers, UpsertSnapshot(p, r)
  PROVE  Keeps(p)
<1> DEFINE t == task[p][r]
           s == [id |-> t.id, at |-> now, seq |-> t.id[2]]
           gone == EvictedBy(manifest, s, now)
           x == [t EXCEPT !.pc = "drop", !.gone = gone]
           m2 == WithSnapshot(manifest, s, p, now)
<1>1. /\ UNCHANGED <<now, blobs, disk, path, conn, opening, loaded, staged, client>>
      /\ t.pc = "upsert" /\ Working(p, r)
      /\ \/ Become(p, r, x) /\ manifest' = m2
         \/ (\E reason : Failed(p, r, reason)) /\ manifest' \in {manifest, m2}
  BY DEF UpsertSnapshot, At, Working, local
<1>0. /\ TypeInv /\ Alone(p) /\ Stored(p) /\ Covered(p) /\ Carried(p, r) /\ t \in Locals
      /\ path[p] # None /\ (Labelled(p) => Logged(p, r)) /\ r \in Roles
  BY <1>1, TakerHas, TakersAre
<1>2. /\ s \in Snapshot /\ s.id = t.id /\ s.at = now /\ s.seq = t.id[2]
      /\ manifest \in Manifest /\ Contiguous(manifest)
  <2>1. t.id \in Nat \X Nat /\ now \in Nat
    BY <1>0, <1>1 DEF Fits, Fitting, SnapshotId, TypeInv, TypeOK, EngineAssumption
  <2> HIDE DEF t
  <2> QED
    BY <1>0, <2>1 DEF Snapshot, SnapshotId, TypeInv
<1>3. Cataloged(manifest) /\ \A i \in DOMAIN manifest.snapshots : manifest.snapshots[i].at <= now
  BY <1>0 DEF Stored
<1> HIDE DEF s
<1>4. /\ m2 \in Manifest /\ Contiguous(m2) /\ Cataloged(m2) /\ gone \subseteq SnapshotId
      /\ m2.segments = manifest.segments /\ m2.applied = manifest.applied
  BY <1>2, <1>3, SnapshotKeepsLog, WithSnapshotType, WithSnapshotCataloged
<1>5. /\ m2.current = t.id /\ \E i \in DOMAIN m2.snapshots : m2.snapshots[i] = s
      /\ \A i \in DOMAIN m2.snapshots :
           /\ m2.snapshots[i].id \notin gone
           /\ \/ m2.snapshots[i] = s
              \/ \E j \in DOMAIN manifest.snapshots : m2.snapshots[i] = manifest.snapshots[j]
  <2>1. LET m3 == WithSnapshot(manifest, s, p, s.at)
        IN  /\ m3.current = s.id /\ \E i \in DOMAIN m3.snapshots : m3.snapshots[i] = s
            /\ \A i \in DOMAIN m3.snapshots :
                 /\ m3.snapshots[i].id \notin EvictedBy(manifest, s, s.at)
                 /\ \/ m3.snapshots[i] = s
                    \/ \E j \in DOMAIN manifest.snapshots : m3.snapshots[i] = manifest.snapshots[j]
    BY <1>2, <1>3, WithSnapshotNewest
  <2> QED
    BY <1>2, <2>1
<1> HIDE DEF m2, gone
<1>6. /\ x \in Locals /\ x.pc = "drop" /\ x.batch = t.batch /\ x.inode = t.inode
      /\ x.id = t.id /\ x.gone = gone
  BY <1>0, <1>4 DEF Locals, Labels
<1> HIDE DEF x
<1>7. /\ Alone(p)' /\ File(p)' = File(p)
      /\ task'[p][r] = x \/ task'[p][r].pc \in {"idle", "bump"}
      /\ \A q \in Takers : q # r => task'[p][q].pc = "idle"
      /\ (\E reason : Failed(p, r, reason)) => task'[p][r].pc \in {"idle", "bump"}
      /\ At(p, "write", "enqueue")' => task'[p]["write"] = task[p]["write"]
  <2>1. t.pc \notin {"execute", "enqueue"} /\ x.pc \notin {"idle", "bump", "execute", "enqueue"}
    BY <1>1, <1>6
  <2> QED
    BY <1>1, <1>6, <2>1, StepHere
<1>8. /\ now' = now /\ blobs' = blobs /\ path' = path /\ staged' = staged
      /\ replicated' = replicated /\ manifest' \in {manifest, m2}
      /\ task'[p][r] = x => manifest' = m2
  BY <1>1, <1>6, <1>7 DEF client
<1>9. /\ t.id \in DOMAIN blobs /\ blobs[t.id] = t.image /\ Sound(t.image)
      /\ t.image.docs \subseteq File(p).docs /\ ToSet(t.batch) \subseteq t.image.docs
      /\ blobs[manifest.current].docs \subseteq t.image.docs
  BY <1>0, <1>1 DEF Carried, Stored, At
<1>10. \A q \in Takers : \/ task'[p][q] = x /\ manifest' = m2
                         \/ task'[p][q].pc \in {"idle", "bump"}
  BY <1>7, <1>8
<1>11. Labelled(p) =>
         /\ \A j \in DOMAIN manifest.segments : ToSet(manifest.segments[j].sum) \subseteq t.image.docs
         /\ t.id[2] <= manifest.applied
  BY <1>0, <1>1 DEF Logged
<1> HIDE DEF t
<1>12. Stored(p)'
  <2>1. CASE manifest' = m2
    <3>1. Listed' \subseteq Listed \cup {t.id} /\ t.id \in Listed' /\ gone \cap Listed' = {}
      BY <1>2, <1>5, <2>1 DEF Listed
    <3>2. \A i \in DOMAIN m2.snapshots : m2.snapshots[i].at <= now
      <4>1. now \in Nat
        BY <1>0 DEF TypeInv, TypeOK, EngineAssumption
      <4> QED
        BY <1>2, <1>3, <1>5, <4>1
    <3>3. Listed \subseteq DOMAIN blobs
      BY <1>0 DEF Stored
    <3> QED
      BY <1>4, <1>5, <1>6, <1>8, <1>9, <1>10, <2>1, <3>1, <3>2, <3>3 DEF Stored, At
  <2>2. CASE manifest' = manifest /\ \A q \in Takers : task'[p][q].pc \in {"idle", "bump"}
    BY <1>0, <1>8, <2>2 DEF Stored, Listed, At
  <2> QED
    BY <1>8, <1>10, <2>1, <2>2
<1>13. Covered(p)'
  <2>1. CASE manifest' = m2
    <3>1. manifest'.current = t.id
      BY <1>5, <2>1
    <3>2. \A q \in Takers : Carried(p, q)'
      BY <1>6, <1>7, <1>8, <1>9, <1>10, <3>1 DEF Carried
    <3> QED
      BY <1>0, <1>7, <1>8, <1>9, <3>1, <3>2 DEF Covered, At
  <2>2. CASE manifest' = manifest /\ \A q \in Takers : task'[p][q].pc \in {"idle", "bump"}
    BY <1>0, <1>7, <1>8, <2>2 DEF Covered, Carried, At
  <2> QED
    BY <1>8, <1>10, <2>1, <2>2
<1>14. Labelled(p) => Labelled(p)'
  <2> SUFFICES ASSUME Labelled(p) PROVE Labelled(p)'
    OBVIOUS
  <2>1. CASE manifest' = m2
    <3>1. \A i \in DOMAIN m2.snapshots : m2.snapshots[i].seq <= manifest.applied
      BY <1>2, <1>5, <1>11 DEF Labelled
    <3>2. ASSUME NEW i \in DOMAIN m2.snapshots, NEW j \in DOMAIN manifest.segments,
                 manifest.segments[j].last <= m2.snapshots[i].seq
          PROVE  ToSet(manifest.segments[j].sum) \subseteq blobs[m2.snapshots[i].id].docs
      <4>1. CASE m2.snapshots[i] = s
        BY <1>2, <1>9, <1>11, <4>1
      <4>2. CASE \E k \in DOMAIN manifest.snapshots : m2.snapshots[i] = manifest.snapshots[k]
        BY <3>2, <4>2 DEF Labelled
      <4> QED
        BY <1>5, <4>1, <4>2
    <3>3. \A q \in Takers : Logged(p, q)'
      BY <1>6, <1>10 DEF Logged
    <3> QED
      BY <1>4, <1>7, <1>8, <2>1, <3>1, <3>2, <3>3 DEF Labelled
  <2>2. CASE manifest' = manifest /\ \A q \in Takers : task'[p][q].pc \in {"idle", "bump"}
    BY <1>7, <1>8, <2>2 DEF Labelled, Logged
  <2> QED
    BY <1>8, <1>10, <2>1, <2>2
<1>15. Fresh(p) => Fresh(p)' /\ OnlyReaperOverwrites
  <2>1. manifest'.applied = manifest.applied
    BY <1>4, <1>8
  <2> QED
    BY <1>6, <1>8, <1>10, <2>1, TakersAre DEF Fresh, OnlyReaperOverwrites, KeepsSnapshots, At
<1> QED
  BY <1>7, <1>12, <1>13, <1>14, <1>15 DEF Keeps

(* What an evicted snapshot held is in the current one; then the batch is done. *)
LEMMA DropKeeps ==
  ASSUME EngineAssumption, NEW p \in Writers, Single(p), IInv(p), Apart(p)',
         NEW r \in Takers, DropEvicted(p, r)
  PROVE  Keeps(p)
<1> DEFINE t == task[p][r]
           keep(G) == [k \in DOMAIN blobs \ G |-> blobs[k]]
           y == IF r = "flush" THEN [t EXCEPT !.pc = "delete", !.image = None, !.id = None,
                                              !.gone = {}]
                ELSE Idle
<1>1. /\ UNCHANGED <<now, manifest, disk, path, conn, opening, staged>>
      /\ t.pc = "drop" /\ Working(p, r)
      /\ \E G \in SUBSET t.gone : blobs' = keep(G)
      /\ \/ Become(p, r, y) /\ replicated' \subseteq replicated \cup ToSet(t.batch)
         \/ (\E reason : Failed(p, r, reason)) /\ UNCHANGED client
  BY DEF DropEvicted, Done, At, Working
<1>0. /\ TypeInv /\ Alone(p) /\ Stored(p) /\ Covered(p) /\ Carried(p, r) /\ t \in Locals
      /\ path[p] # None /\ (Labelled(p) => Logged(p, r)) /\ r \in Roles
  BY <1>1, TakerHas, TakersAre
<1>2. /\ t.id = manifest.current /\ t.gone \cap Listed = {} /\ Listed \subseteq DOMAIN blobs
      /\ manifest.current \in Listed /\ ToSet(t.batch) \subseteq blobs[manifest.current].docs
  BY <1>0, <1>1 DEF Stored, Carried, At
<1>3. /\ DOMAIN blobs' \subseteq DOMAIN blobs /\ Listed \subseteq DOMAIN blobs'
      /\ \A k \in DOMAIN blobs' : blobs'[k] = blobs[k]
  <2>1. PICK G \in SUBSET t.gone : blobs' = keep(G)
    BY <1>1
  <2> QED
    BY <1>2, <2>1
<1>4. /\ y \in Locals /\ y.pc \in {"idle", "delete"} /\ (y.pc = "delete" => y.batch = t.batch)
      /\ y.pc = "idle" \/ y.inode = t.inode
  BY <1>0, IdleIs DEF Locals, Labels
<1>5. /\ now' = now /\ manifest' = manifest /\ path' = path /\ staged' = staged
      /\ replicated' \subseteq replicated \cup ToSet(t.batch) /\ File(p)' = File(p)
  BY <1>1 DEF client, File
<1>6. PICK z \in Locals : /\ Become(p, r, z) /\ (z = y \/ z.pc \in {"idle", "bump"})
                          /\ z.pc = "idle" \/ z.inode = t.inode
  <2> HIDE DEF y
  <2> QED
    BY <1>0, <1>1, <1>4, FailedIs, IdleIs
<1> HIDE DEF y
<1>7. z.pc \in {"idle", "bump", "delete"} /\ (z.pc = "delete" => z.batch = t.batch)
  BY <1>4, <1>6
<1>8. /\ Alone(p)'
      /\ At(p, "write", "enqueue")' => task'[p]["write"] = task[p]["write"]
      /\ task'[p][r] = z /\ \A s \in Takers : s # r => task'[p][s].pc = "idle"
  BY <1>0, <1>1, <1>6, <1>7, AloneGoesOn
<1>9. blobs'[manifest.current] = blobs[manifest.current]
  BY <1>2, <1>3
<1> HIDE DEF t
<1>10. \A s \in Takers : /\ task'[p][s].pc \in {"idle", "bump", "delete"}
                         /\ task'[p][s].pc = "delete" => task'[p][s].batch = t.batch
  BY <1>7, <1>8
<1>11. Stored(p)'
  BY <1>0, <1>2, <1>3, <1>5, <1>10 DEF Stored, Listed, At
<1>12. Covered(p)'
  <2>1. \A s \in Takers : Carried(p, s)'
    BY <1>2, <1>5, <1>9, <1>10 DEF Carried
  <2> QED
    BY <1>0, <1>2, <1>3, <1>5, <1>8, <1>9, <2>1 DEF Covered, At
<1>13. Labelled(p) => Labelled(p)'
  <2> SUFFICES ASSUME Labelled(p) PROVE Labelled(p)'
    OBVIOUS
  <2>1. \A i \in DOMAIN manifest.snapshots :
          blobs'[manifest.snapshots[i].id] = blobs[manifest.snapshots[i].id]
    BY <1>3 DEF Listed
  <2> QED
    BY <1>5, <1>10, <2>1 DEF Labelled, Logged
<1>14. Fresh(p) => Fresh(p)' /\ OnlyReaperOverwrites
  BY <1>3, <1>5, <1>10, TakersAre DEF Fresh, OnlyReaperOverwrites, KeepsSnapshots, At
<1> QED
  BY <1>8, <1>11, <1>12, <1>13, <1>14 DEF Keeps

(* A flush takes the stored and the staged records, all of writes of the      *)
(* file; when a statement of the loop's own fails it is idle again.           *)
LEMMA FlushStartKeeps ==
  ASSUME EngineAssumption, NEW p \in Writers, Single(p), IInv(p), Apart(p)',
         FlushReady(p), StoreStaged(p), NEW x \in Locals,
         Become(p, "flush", x) \/ (UNCHANGED task /\ x = Idle),
         \/ x = Idle
         \/ /\ x.pc = "append" /\ x.inode = conn[p]
            /\ ToSet(x.batch) \subseteq DOMAIN disk'[p][conn[p]].jobs
  PROVE  Keeps(p)
<1> DEFINE i == conn[p]
<1>0. TypeInv /\ Alone(p) /\ Stored(p) /\ Covered(p)
  BY DEF IInv
<1>1. /\ Async /\ Snapshotter = "flush" /\ task[p]["flush"].pc = "idle" /\ "flush" \in Takers
      /\ i = path[p] /\ i # None /\ i \in Inodes
      /\ staged[p] \subseteq File(p).docs /\ Sound(File(p))
      /\ UNCHANGED <<now, remote, path, conn, opening, loaded, client>>
      /\ staged'[p] = {}
  <2>1. /\ conn[p] \in Inodes /\ staged' = [staged EXCEPT ![p] = {}]
        /\ UNCHANGED <<now, remote, path, conn, opening, loaded, client>>
    BY <1>0, StoringIs
  <2>2. conn[p] = path[p] /\ conn[p] # None
    BY <1>0, <2>1 DEF Alone, FlushReady
  <2>3. staged'[p] = {}
    BY <1>0, <2>1 DEF TypeInv, TypeOK
  <2> QED
    BY <1>0, <2>1, <2>2, <2>3, TakersAre DEF FlushReady, At, Covered
<1>2. PICK stored \in SUBSET staged[p] :
        LET c == WithJobs(disk[p][i], stored) IN c \in Content /\ disk'[p][i] = c
  BY <1>0, StoringIs
<1>3. disk'[p][i].docs = disk[p][i].docs /\ DOMAIN disk'[p][i].jobs = DOMAIN disk[p][i].jobs \cup stored
  <2>1. disk[p][i] \in Content /\ stored \subseteq Writes
    BY <1>0, <1>1 DEF TypeInv, TypeOK
  <2> QED
    BY <1>2, <2>1, WithJobsIs
<1>4. File(p)'.docs = File(p).docs /\ Sound(File(p))'
  BY <1>1, <1>3 DEF File, Sound
<1>5. x # Idle => /\ x.pc = "append" /\ x.inode = path[p]
                  /\ ToSet(x.batch) \subseteq File(p)'.docs
  BY <1>1, <1>4 DEF File, Sound
<1> HIDE DEF i
<1>6. /\ task'[p]["flush"] = x \/ task'[p]["flush"].pc = "idle"
      /\ \A m \in Writers, s \in Roles : m # p \/ s # "flush" => task'[m][s] = task[m][s]
  <2>1. CASE Become(p, "flush", x)
    BY <1>0, <2>1, TakersAre, RoleMoves
  <2>2. CASE UNCHANGED task
    BY <1>1, <2>2
  <2> QED
    BY <2>1, <2>2
<1>7. x.pc \in {"idle", "append"} /\ (x.pc = "append" => x # Idle) /\ Idle.pc = "idle"
  BY <1>5, IdleIs
<1>8. /\ now' = now /\ manifest' = manifest /\ blobs' = blobs /\ path' = path
      /\ conn' = conn /\ opening' = opening /\ replicated' = replicated
  BY <1>1 DEF remote, client
<1>9. \A s \in Takers : \/ task'[p][s] = task[p][s]
                        \/ task'[p][s] = x
                        \/ task'[p][s].pc = "idle"
  BY <1>6, TakersAre
<1>10. Alone(p)'
  <2>1. ASSUME NEW m \in Writers, NEW r \in Roles, Working(m, r)'
        PROVE  \/ m # p /\ r = "poll"
               \/ m = p /\ r \in Takers
               \/ m = p /\ r = "write" /\ task'[m][r].pc \in {"execute", "enqueue"}
    <3>1. CASE m = p /\ r = "flush"
      BY <1>1, <3>1
    <3>2. CASE ~(m = p /\ r = "flush")
      BY <1>0, <1>6, <2>1, <3>2 DEF Alone, Working
    <3> QED
      BY <3>1, <3>2
  <2>2. At(p, "write", "execute")' => task'[p]["write"].inode = path'[p]
    BY <1>0, <1>6, <1>8, TakersAre DEF Alone, At
  <2>3. \A r \in Takers \ {"write"} : Working(p, r)' => task'[p][r].inode = path'[p]
    BY <1>0, <1>5, <1>6, <1>7, <1>8, TakersAre DEF Alone, Working
  <2> QED
    BY <1>0, <1>1, <1>8, <2>1, <2>2, <2>3 DEF Alone
<1>11. Stored(p)'
  BY <1>0, <1>7, <1>8, <1>9 DEF Stored, Listed, At
<1>12. Covered(p)'
  <2>1. \A s \in Takers : Carried(p, s)'
    BY <1>0, <1>4, <1>5, <1>7, <1>8, <1>9 DEF Covered, Carried
  <2>2. task'[p]["write"] = task[p]["write"]
    BY <1>6, TakersAre
  <2> QED
    BY <1>0, <1>1, <1>4, <1>8, <2>1, <2>2 DEF Covered, At
<1>13. Labelled(p) => Labelled(p)'
  BY <1>4, <1>7, <1>8, <1>9 DEF Labelled, Logged
<1>14. Fresh(p) => Fresh(p)' /\ OnlyReaperOverwrites
  BY <1>7, <1>8, <1>9, TakersAre DEF Fresh, OnlyReaperOverwrites, KeepsSnapshots, At
<1> QED
  BY <1>10, <1>11, <1>12, <1>13, <1>14 DEF Keeps

(* The call of a flush ends, and of the rows of the file only those of the    *)
(* batch may go: the current snapshot has their writes.                      *)
LEMMA FlushEndKeeps ==
  ASSUME EngineAssumption, NEW p \in Writers, Single(p), IInv(p), Apart(p)',
         Working(p, "flush"), Become(p, "flush", Idle), task[p]["flush"].pc \in {"delete", "bump"},
         UNCHANGED <<now, remote, path, conn, opening, staged>>,
         \/ replicated' = replicated
         \/ At(p, "flush", "delete") /\ replicated' = replicated \cup ToSet(task[p]["flush"].batch),
         path[p] # None => File(p)'.docs = File(p).docs /\ DOMAIN File(p)'.jobs \subseteq DOMAIN File(p).jobs
  PROVE  Keeps(p)
<1> DEFINE t == task[p]["flush"]
<1>0. TypeInv /\ Alone(p) /\ Stored(p) /\ Covered(p)
  BY DEF IInv
<1>1. "flush" \in Takers /\ path[p] # None
  BY <1>0, TakersAre DEF Alone
<1>2. File(p)'.docs = File(p).docs /\ (Sound(File(p)) => Sound(File(p))')
  BY <1>1 DEF Sound
<1>3. /\ Alone(p)' /\ \A s \in Takers : task'[p][s].pc = "idle"
      /\ At(p, "write", "enqueue")' => task'[p]["write"] = task[p]["write"]
  BY <1>0, <1>1, IdleIs, AloneGoesOn
<1>4. now' = now /\ manifest' = manifest /\ blobs' = blobs /\ path' = path /\ staged' = staged
  BY DEF remote
<1>5. replicated' \subseteq replicated \cup blobs[manifest.current].docs
  BY <1>0, <1>1 DEF Covered, Carried, At
<1>6. Stored(p)'
  BY <1>0, <1>3, <1>4 DEF Stored, Listed, At
<1>7. Covered(p)'
  BY <1>0, <1>2, <1>3, <1>4, <1>5 DEF Covered, Carried, At
<1>8. Labelled(p) => Labelled(p)'
  BY <1>2, <1>3, <1>4 DEF Labelled, Logged
<1>9. Fresh(p) => Fresh(p)' /\ OnlyReaperOverwrites
  BY <1>3, <1>4, TakersAre DEF Fresh, OnlyReaperOverwrites, KeepsSnapshots, At
<1> QED
  BY <1>3, <1>6, <1>7, <1>8, <1>9 DEF Keeps

(* The steps of the flush loop outside of the append and the snapshot. *)
LEMMA FlushKeeps ==
  ASSUME EngineAssumption, NEW p \in Writers, Single(p), IInv(p), Apart(p)',
         FlushStart(p) \/ DeleteJobs(p) \/ BumpAttempts(p) \/ FlushFails(p)
  PROVE  Keeps(p)
<1> DEFINE t == task[p]["flush"]
<1>0. TypeInv /\ Alone(p) /\ Stored(p) /\ Covered(p) /\ "flush" \in Roles
  BY TakersAre DEF IInv
<1>1. CASE FlushStart(p)
  <2> DEFINE i == conn[p]
             rows == Queued(disk'[p][i])
             q == InOrder(rows)
             y == [Idle EXCEPT !.pc = "append", !.inode = i, !.batch = q]
  <2>1. FlushReady(p) /\ StoreStaged(p) /\ Become(p, "flush", IF rows = {} THEN Idle ELSE y)
    BY <1>1 DEF FlushStart
  <2>2. CASE rows = {}
    BY <2>1, <2>2, IdleIs, FlushStartKeeps
  <2>3. CASE rows # {}
    <3>1. i \in Inodes /\ disk'[p][i] \in Content
      BY <1>0, <2>1, StoringIs
    <3>2. rows \subseteq DOMAIN disk'[p][i].jobs /\ rows \in SUBSET Writes
      BY <3>1, ContentIs DEF Queued
    <3>3. q \in Seq(Writes) /\ ToSet(q) = rows
      BY <2>3, <3>2, InOrderLists
    <3>4. Become(p, "flush", y)
      BY <2>1, <2>3
    <3> HIDE DEF q
    <3>5. y \in Locals /\ y.pc = "append" /\ y.inode = i /\ y.batch = q
      BY <3>1, <3>3, IdleIs DEF Locals, Labels
    <3>6. ToSet(y.batch) \subseteq DOMAIN disk'[p][conn[p]].jobs
      BY <3>2, <3>3, <3>5
    <3> HIDE DEF y, rows, i
    <3>7. y.inode = conn[p] /\ FlushReady(p) /\ StoreStaged(p)
      BY <2>1, <3>5 DEF i
    <3> QED
      BY <3>4, <3>5, <3>6, <3>7, FlushStartKeeps
  <2> QED
    BY <2>2, <2>3
<1>2. CASE DeleteJobs(p)
  <2> DEFINE c == WithoutJobs(disk[p][t.inode], ToSet(t.batch))
  <2>1. /\ t.pc = "delete" /\ Working(p, "flush") /\ Become(p, "flush", Idle)
        /\ UNCHANGED <<now, remote, path, conn, opening, staged>>
        /\ disk' = [disk EXCEPT ![p][t.inode] = WithoutJobs(@, ToSet(t.batch))]
        /\ replicated' = replicated \cup ToSet(t.batch)
    BY <1>2 DEF DeleteJobs, At, Working
  <2>2. t.inode = path[p] /\ path[p] \in Inodes
    BY <1>0, <2>1, TakersAre DEF Alone, TypeInv, TypeOK
  <2>3. File(p)' = c /\ disk[p][t.inode] \in Content
    BY <1>0, <2>1, <2>2 DEF File, TypeInv, TypeOK
  <2>4. c.docs = disk[p][t.inode].docs /\ DOMAIN c.jobs = DOMAIN disk[p][t.inode].jobs \ ToSet(t.batch)
    <3>1. LET d == WithoutJobs(disk[p][t.inode], ToSet(t.batch)) IN
          /\ d \in Content /\ d.docs = disk[p][t.inode].docs
          /\ DOMAIN d.jobs = DOMAIN disk[p][t.inode].jobs \ ToSet(t.batch)
      BY <2>3, WithoutJobsIs
    <3> QED
      BY <3>1
  <2> HIDE DEF c
  <2>5. File(p)'.docs = File(p).docs /\ DOMAIN File(p)'.jobs \subseteq DOMAIN File(p).jobs
    BY <2>2, <2>3, <2>4 DEF File
  <2> QED
    BY <2>1, <2>5, FlushEndKeeps DEF At
<1>3. CASE BumpAttempts(p)
  <2>1. /\ t.pc = "bump" /\ Working(p, "flush") /\ Become(p, "flush", Idle)
        /\ UNCHANGED <<now, remote, path, conn, opening, staged>> /\ replicated' = replicated
    BY <1>3 DEF BumpAttempts, At, Working, client
  <2>2. \A m \in Writers, j \in Inodes : /\ disk'[m][j].docs = disk[m][j].docs
                                         /\ DOMAIN disk'[m][j].jobs = DOMAIN disk[m][j].jobs
    BY <1>0, <1>3, TypedBump
  <2>3. path[p] \in Inodes
    BY <1>0, <2>1 DEF Alone, TypeInv, TypeOK
  <2>4. File(p)'.docs = File(p).docs /\ DOMAIN File(p)'.jobs = DOMAIN File(p).jobs
    BY <2>1, <2>2, <2>3 DEF File
  <2> QED
    BY <2>1, <2>4, FlushEndKeeps
<1>4. CASE FlushFails(p)
  <2>1. CASE FlushReady(p) /\ StoreStaged(p) /\ UNCHANGED task
    BY <2>1, IdleIs, FlushStartKeeps
  <2>2. CASE /\ At(p, "flush", "delete") \/ At(p, "flush", "bump")
             /\ Become(p, "flush", Idle) /\ UNCHANGED <<now, remote, local, client>>
    <3>1. /\ UNCHANGED <<now, remote, path, conn, opening, staged>> /\ replicated' = replicated
          /\ File(p)' = File(p) /\ Working(p, "flush") /\ t.pc \in {"delete", "bump"}
      BY <2>2 DEF local, client, File, At, Working
    <3> QED
      BY <2>2, <3>1, FlushEndKeeps
  <2> QED
    BY <1>4, <2>1, <2>2 DEF FlushFails
<1> QED
  BY <1>1, <1>2, <1>3, <1>4

(* A crash forgets what is under way; the object store stays. *)
LEMMA CrashKeeps ==
  ASSUME EngineAssumption, NEW p \in Writers, Single(p), IInv(p), Apart(p)', Crash(p)
  PROVE  Keeps(p)
<1>0. TypeInv /\ Alone(p) /\ Stored(p) /\ Covered(p)
  BY DEF IInv
<1>1. /\ UNCHANGED <<now, remote, disk, client>>
      /\ path'[p] \in {None, path[p]} /\ ("disk" \notin Crashes => path'[p] = path[p])
      /\ conn'[p] = None /\ opening'[p] = None /\ staged'[p] = {}
  BY <1>0 DEF Crash, TypeInv, TypeOK, EngineAssumption
<1>2. \A m \in Writers, r \in Roles : task'[m][r] = IF m = p THEN Idle ELSE task[m][r]
  BY <1>0 DEF Crash, TypeInv, TypeOK
<1>3. /\ \A s \in Takers : task'[p][s].pc = "idle"
      /\ task'[p]["write"].pc = "idle" /\ Idle.pc = "idle"
  BY <1>2, IdleIs, TakersAre
<1>4. /\ now' = now /\ manifest' = manifest /\ blobs' = blobs /\ disk' = disk
      /\ replicated' = replicated
  BY <1>1 DEF remote, client
<1>5. Alone(p)'
  BY <1>0, <1>1, <1>2, <1>3, TakersAre DEF Alone, At, Working
<1>6. Stored(p)'
  BY <1>0, <1>3, <1>4 DEF Stored, Listed, At
<1>7. Covered(p)'
  BY <1>0, <1>1, <1>3, <1>4 DEF Covered, Carried, File, At
<1>8. Labelled(p) /\ "disk" \notin Crashes => Labelled(p)'
  BY <1>1, <1>3, <1>4 DEF Labelled, Logged, File
<1>9. Fresh(p) => Fresh(p)' /\ OnlyReaperOverwrites
  BY <1>3, <1>4, TakersAre DEF Fresh, OnlyReaperOverwrites, KeepsSnapshots, At
<1> QED
  BY <1>5, <1>6, <1>7, <1>8, <1>9 DEF Keeps

(* Time passes: the snapshots listed are no younger. *)
LEMMA TickKeeps ==
  ASSUME EngineAssumption, NEW p \in Writers, IInv(p), Apart(p)', Tick
  PROVE  Keeps(p)
<1>1. UNCHANGED <<remote, local, task, client>> /\ now' = now + 1
  BY DEF Tick
<1>2. /\ manifest' = manifest /\ blobs' = blobs /\ disk' = disk /\ path' = path /\ conn' = conn
      /\ opening' = opening /\ staged' = staged /\ replicated' = replicated /\ task' = task
  BY <1>1 DEF remote, local, client
<1>3. \A i \in DOMAIN manifest.snapshots : manifest.snapshots[i].at <= now'
  <2>1. manifest.snapshots \in Seq(Snapshot) /\ now \in Nat
    BY DEF IInv, TypeInv, TypeOK, Manifest, EngineAssumption
  <2>2. \A i \in DOMAIN manifest.snapshots : manifest.snapshots[i].at \in Nat
    <3>1. \A i \in DOMAIN manifest.snapshots : manifest.snapshots[i] \in Snapshot
      BY <2>1
    <3> QED
      BY <3>1 DEF Snapshot
  <2> QED
    BY <1>1, <2>1, <2>2 DEF IInv, Stored
<1>4. Alone(p)' /\ Stored(p)' /\ Covered(p)'
  BY <1>2, <1>3 DEF IInv, Alone, Stored, Covered, Carried, Listed, File, At, Working
<1>5. Labelled(p) => Labelled(p)'
  BY <1>2 DEF Labelled, Logged, File
<1>6. Fresh(p) => Fresh(p)' /\ OnlyReaperOverwrites
  BY <1>2 DEF Fresh, OnlyReaperOverwrites, KeepsSnapshots, At
<1> QED
  BY <1>4, <1>5, <1>6 DEF Keeps

(* So every step keeps what is said of the one process that writes. *)
LEMMA NextKeeps ==
  ASSUME EngineAssumption, NEW p \in Writers, Single(p), IInv(p), Apart(p)', Next
  PROVE  Keeps(p)
<1>1. ASSUME NEW n \in Writers,
             \/ Open(n) \/ Close(n) \/ Write(n) \/ FlushStart(n) \/ Flush(n) \/ FlushFails(n)
             \/ Reap(n) \/ Snapshotting(n, "reap") \/ Poll(n) \/ Crash(n)
      PROVE  Keeps(p)
  <2>1. CASE n # p
    BY <1>1, <2>1, OthersKeep
  <2>2. CASE n = p
    <3>1. ~Poll(p)
      <4>1. ~Working(p, "poll")
        BY TakersAre DEF IInv, Alone
      <4> QED
        BY <4>1 DEF Single, Poll, PollStart, PollCount, PollCurrent, PollCompare, PollClose,
                    PollReplace, PollReopen, At, Working
    <3>2. ASSUME NEW r \in Roles, Snapshotting(p, r) PROVE Keeps(p)
      <4>1. r \in Takers
        <5>1. Working(p, r) /\ task[p][r].pc \notin {"execute", "enqueue"}
          BY <3>2 DEF Snapshotting, Vacuum, Stamp, PutBlob, UpsertSnapshot, DropEvicted, At, Working
        <5> QED
          BY <5>1, WhoWorks DEF IInv
      <4> QED
        BY <3>2, <4>1, VacuumKeeps, StampKeeps, PutKeeps, UpsertKeeps, DropKeeps DEF Snapshotting
    <3>3. ASSUME NEW r \in Roles \ {"reap"}, AppendBatch(p, r) PROVE Keeps(p)
      <4>1. r = Snapshotter
        <5>1. Working(p, r) /\ task[p][r].pc \notin {"execute", "enqueue"}
          BY <3>3 DEF AppendBatch, At, Working
        <5> QED
          BY <5>1, WhoWorks, TakersAre DEF IInv
      <4> QED
        BY <3>3, <4>1, AppendKeeps
    <3>4. /\ "write" \in Roles \ {"reap"} /\ "flush" \in Roles \ {"reap"} /\ "reap" \in Roles
      BY DEF Roles
    <3>5. CASE Write(p)
      BY <3>2, <3>3, <3>4, <3>5, BeginKeeps, WriteCommitKeeps, EnqueueKeeps DEF Write
    <3>6. CASE Flush(p)
      BY <3>2, <3>3, <3>4, <3>6, FlushKeeps DEF Flush
    <3> QED
      BY <1>1, <2>2, <3>1, <3>2, <3>4, <3>5, <3>6, OpenKeeps, BeginKeeps, FlushKeeps, CrashKeeps
  <2> QED
    BY <2>1, <2>2
<1> QED
  BY <1>1, TickKeeps DEF Next

(* The first state. *)
LEMMA FirstState ==
  ASSUME EngineAssumption, NEW p \in Writers, Init
  PROVE  IInv(p) /\ Labelled(p) /\ Fresh(p)
<1>1. /\ now = 0 /\ replicated = {} /\ blobs = [id \in {<<0, 0>>} |-> Empty]
      /\ disk = [n \in Writers |-> [i \in Inodes |-> Empty]]
      /\ path = [n \in Writers |-> 1] /\ conn = [n \in Writers |-> 1]
      /\ opening = [n \in Writers |-> None] /\ staged = [n \in Writers |-> {}]
      /\ task = [n \in Writers |-> [r \in Roles |-> Idle]]
  BY DEF Init
<1>2. /\ manifest \in Manifest /\ Contiguous(manifest) /\ Cataloged(manifest)
      /\ manifest.segments = <<>> /\ manifest.applied = 0 /\ manifest.current = <<0, 0>>
      /\ \E i \in DOMAIN manifest.snapshots : manifest.snapshots[i].id = <<0, 0>>
      /\ \A i \in DOMAIN manifest.snapshots :
           manifest.snapshots[i] = [id |-> <<0, 0>>, at |-> 0, seq |-> 0]
  <2>1. PICK w \in Writers : manifest = WithSnapshot(DefaultManifest(w, 1),
                                   [id |-> <<0, 0>>, at |-> 0, seq |-> 0], w, 0)
    BY DEF Init, EngineAssumption
  <2> QED
    BY <2>1, FirstManifest
<1>3. \A i \in DOMAIN manifest.snapshots :
        /\ manifest.snapshots[i].id = <<0, 0>> /\ manifest.snapshots[i].at = 0
        /\ manifest.snapshots[i].seq = 0
  BY <1>2
<1>4. \A n \in Writers, r \in Roles : task[n][r].pc = "idle"
  BY <1>1, IdleIs
<1>5. 1 \in Inodes /\ path[p] # None /\ conn[p] = path[p] /\ File(p) = Empty /\ staged[p] = {}
  BY <1>1, ManifestAssumption DEF EngineAssumption, File
<1>6. Listed = {<<0, 0>>} /\ DOMAIN blobs = {<<0, 0>>} /\ blobs[<<0, 0>>] = Empty
  BY <1>1, <1>2, <1>3 DEF Listed
<1>7. Alone(p)
  BY <1>1, <1>4, <1>5, TakersAre DEF Alone, Apart, At, Working
<1>8. Stored(p)
  BY <1>1, <1>2, <1>3, <1>4, <1>6, TakersAre DEF Stored, At
<1>9. Covered(p)
  BY <1>1, <1>2, <1>4, <1>5, <1>6, TakersAre, EmptyIs DEF Covered, Carried, Sound, At
<1>10. Labelled(p)
  BY <1>2, <1>3, <1>4, <1>5, TakersAre DEF Labelled, Logged
<1>11. Fresh(p)
  BY <1>2, <1>4, <1>6, TakersAre DEF Fresh, At
<1> QED
  BY <1>7, <1>8, <1>9, <1>10, <1>11, TypedInit DEF IInv

(* A stuttering step. *)
LEMMA StutterKeeps ==
  ASSUME NEW p \in Writers, IInv(p), UNCHANGED vars
  PROVE  Keeps(p)
<1>1. /\ now' = now /\ manifest' = manifest /\ blobs' = blobs /\ disk' = disk /\ path' = path
      /\ conn' = conn /\ opening' = opening /\ staged' = staged /\ replicated' = replicated
      /\ task' = task
  BY DEF vars, remote, local, client
<1>2. Alone(p)' /\ Stored(p)' /\ Covered(p)'
  BY <1>1 DEF IInv, Alone, Apart, Stored, Covered, Carried, Listed, File, At, Working
<1>3. Labelled(p) => Labelled(p)'
  BY <1>1 DEF Labelled, Logged, File
<1>4. Fresh(p) => Fresh(p)' /\ OnlyReaperOverwrites
  BY <1>1 DEF Fresh, OnlyReaperOverwrites, KeepsSnapshots, At
<1> QED
  BY <1>2, <1>3, <1>4 DEF Keeps

(* The invariant of one writing process holds in every state of a behaviour   *)
(* whose states are all Apart(p).                                            *)
LEMMA Invariant ==
  ASSUME EngineAssumption, NEW p \in Writers, Single(p)
  PROVE  Spec /\ []Apart(p) => []IInv(p)
<1>1. Init => IInv(p)
  BY FirstState
<1>2. IInv(p) /\ Apart(p)' /\ [Next]_vars => IInv(p)'
  <2> SUFFICES ASSUME IInv(p), Apart(p)', [Next]_vars PROVE IInv(p)'
    OBVIOUS
  <2>1. Keeps(p)
    BY NextKeeps, StutterKeeps
  <2>2. TypeInv'
    BY TypedNext, TypedStutter DEF IInv
  <2> QED
    BY <2>1, <2>2 DEF Keeps, IInv
<1> QED
  BY <1>1, <1>2, PTL DEF Spec

(* One process writes, and its reaper, idle close and eviction run beside its *)
(* writes and flushes in any way that Apart allows: then every batch that has *)
(* been replicated is in the current snapshot, whose object is stored, and a  *)
(* process that lost its disk gets it back.                                  *)
THEOREM CheckpointAlwaysPerBatch ==
  ASSUME EngineAssumption, NEW p \in Writers, Single(p)
  PROVE  Spec /\ []Apart(p) => []CheckpointPerBatch
<1>1. IInv(p) => CheckpointPerBatch
  BY DEF IInv, Stored, Covered, CheckpointPerBatch
<1>2. Spec /\ []Apart(p) => []IInv(p)
  BY Invariant
<1> QED
  BY <1>1, <1>2, PTL

(* So does every snapshot the catalog lists have its object, however uploads, *)
(* upserts and deletions of evicted objects fail half-way.                    *)
THEOREM SnapshotsAlwaysStored ==
  ASSUME EngineAssumption, NEW p \in Writers, Single(p)
  PROVE  Spec /\ []Apart(p) => []SnapshotsStored
<1>1. IInv(p) => SnapshotsStored
  BY DEF IInv, Stored, Listed, SnapshotsStored
<1>2. Spec /\ []Apart(p) => []IInv(p)
  BY Invariant
<1> QED
  BY <1>1, <1>2, PTL

(* Where the disk survives, a snapshot labelled s holds every record of the   *)
(* log up to s, the reaper's snapshots included, although the label is read   *)
(* after the image is made.                                                  *)
THEOREM CheckpointAlwaysMatchesSeq ==
  ASSUME EngineAssumption, NEW p \in Writers, Single(p), "disk" \notin Crashes
  PROVE  Spec /\ []Apart(p) => []CheckpointMatchesSeq
<1>1. Labelled(p) => CheckpointMatchesSeq
  BY DEF Labelled, CheckpointMatchesSeq
<1>2. Init => Labelled(p)
  BY FirstState
<1>3. IInv(p) /\ Labelled(p) /\ Apart(p)' /\ [Next]_vars => Labelled(p)'
  BY NextKeeps, StutterKeeps DEF Keeps
<1>4. Spec /\ []Apart(p) => []IInv(p)
  BY Invariant
<1> QED
  BY <1>1, <1>2, <1>3, <1>4, PTL DEF Spec

(* A snapshot object is written over by an upload of the reaper's and by      *)
(* nothing else: a snapshot that follows a write or a flush is taken after an *)
(* append of its own, so its id is new, and the reaper appends nothing.       *)
THEOREM OnlyReapersOverwrite ==
  ASSUME EngineAssumption, NEW p \in Writers, Single(p)
  PROVE  Spec /\ []Apart(p) => [][OnlyReaperOverwrites]_vars
<1>1. Init => Fresh(p)
  BY FirstState
<1>2. IInv(p) /\ Fresh(p) /\ Apart(p)' /\ [Next]_vars => Fresh(p)' /\ OnlyReaperOverwrites
  BY NextKeeps, StutterKeeps DEF Keeps
<1>3. Spec /\ []Apart(p) => []IInv(p)
  BY Invariant
<1>4. IInv(p) /\ Fresh(p) /\ Apart(p)' /\ [Next]_vars => Fresh(p)' /\ [OnlyReaperOverwrites]_vars
  BY <1>2
<1> QED
  BY <1>1, <1>3, <1>4, PTL DEF Spec

------------------------------------------------------------------------------
(* Job rows.                                                                 *)

(* Async mode, nothing staged in memory, and files that are not replaced.     *)
Stable == Async /\ ~Busy /\ Pollers = {} /\ "disk" \notin Crashes

(* What the processes have open, and where the rows of acknowledged writes are. *)
RowsInv ==
  /\ \A n \in Writers :
       /\ path[n] = 1 /\ conn[n] \in {1, None} /\ opening[n] \in {1, None}
       /\ staged[n] = {} /\ task[n]["poll"].pc = "idle"
       /\ task[n]["write"].pc \in {"idle", "execute", "enqueue"}
       /\ Working(n, "write") => n \in Clients
       /\ Working(n, "flush") => task[n]["flush"].inode = 1
  /\ \A w \in acked \ replicated : \E n \in Clients : w \in DOMAIN disk[n][1].jobs

(* No row of a file is lost. *)
RowsKept == \A n \in Writers : DOMAIN disk[n][1].jobs \subseteq DOMAIN disk'[n][1].jobs

(* A step of a flush or a reaper that loses no row. *)
LEMMA RowsOfTask ==
  ASSUME EngineAssumption, RowsInv, TypeInv, NEW n \in Writers, NEW r \in {"flush", "reap"},
         NEW x \in Locals, Become(n, r, x), x.pc = "idle" \/ r = "reap" \/ x.inode = 1,
         UNCHANGED <<path, conn, opening, staged, acked, replicated>>, RowsKept
  PROVE  RowsInv'
<1>1. /\ task'[n][r] = x
      /\ \A m \in Writers, s \in Roles : m # n \/ s # r => task'[m][s] = task[m][s]
  BY RoleMoves DEF Roles
<1>2. "poll" \in Roles /\ "write" \in Roles /\ "flush" \in Roles /\ Clients \subseteq Writers
  BY DEF Roles, EngineAssumption
<1>3. \A m \in Writers :
        /\ task'[m]["poll"] = task[m]["poll"] /\ task'[m]["write"] = task[m]["write"]
        /\ \/ task'[m]["flush"] = task[m]["flush"]
           \/ task'[m]["flush"] = x /\ r = "flush"
  BY <1>1, <1>2
<1> QED
  BY <1>2, <1>3 DEF RowsInv, RowsKept, Working

(* Opening, closing and the steps of a write. *)
LEMMA RowsOfWrites ==
  ASSUME EngineAssumption, Stable, RowsInv, TypeInv, NEW n \in Writers,
         Open(n) \/ Close(n) \/ Write(n)
  PROVE  RowsInv'
<1>0. /\ "poll" \in Roles /\ "write" \in Roles /\ "flush" \in Roles /\ Clients \subseteq Writers
      /\ 1 # None /\ 1 \in Inodes
  BY ManifestAssumption DEF Roles, EngineAssumption
<1>1. /\ disk \in [Writers -> [Inodes -> Content]] /\ conn \in [Writers -> Inodes \cup {None}]
      /\ path \in [Writers -> Inodes \cup {None}] /\ task[n]["write"] \in Locals
      /\ opening \in [Writers -> Inodes \cup {None}]
  BY <1>0 DEF TypeInv, TypeOK
<1>2. CASE Open(n) \/ Close(n)
  <2>1. /\ UNCHANGED <<disk, path, staged, task, client>>
        /\ \A m \in Writers : conn'[m] \in {1, None} /\ opening'[m] \in {1, None}
    <3>1. CASE StartOpen(n)
      <4>1. UNCHANGED <<disk, path, conn, staged, task, client>>
            /\ opening' = [opening EXCEPT ![n] = path'[n]]
        BY <1>0, <3>1 DEF StartOpen, RowsInv
      <4> QED
        BY <1>1, <4>1 DEF RowsInv
    <3>2. CASE FinishOpen(n)
      BY <1>1, <3>2 DEF FinishOpen, RowsInv
    <3>3. CASE Close(n)
      BY <1>1, <3>3 DEF Close, RowsInv
    <3> QED
      BY <1>2, <3>1, <3>2, <3>3 DEF Open
  <2> QED
    BY <2>1 DEF RowsInv, Working, client
<1>3. CASE WriteOpen(n)
  <2> DEFINE x == [Idle EXCEPT !.pc = "execute", !.inode = conn[n]]
  <2>1. Become(n, "write", x) /\ UNCHANGED <<now, remote, local, client>> /\ n \in Clients
        /\ conn[n] # None
    BY <1>3 DEF WriteOpen
  <2>2. x \in Locals /\ x.pc = "execute"
    BY <1>1, <2>1, IdleIs DEF Locals, Labels
  <2> HIDE DEF x
  <2>3. /\ task'[n]["write"] = x
        /\ \A m \in Writers, s \in Roles : m # n \/ s # "write" => task'[m][s] = task[m][s]
    BY <1>0, <2>1, <2>2, RoleMoves
  <2> QED
    BY <1>0, <2>1, <2>2, <2>3 DEF RowsInv, Working, local, client
<1>4. CASE WriteCommit(n)
  <2> DEFINE i == task[n]["write"].inode
             w == issued + 1
             x == [Idle EXCEPT !.pc = IF Async THEN "enqueue" ELSE "append", !.batch = <<w>>]
  <2>1. /\ Become(n, "write", x) /\ task[n]["write"].pc = "execute" /\ issued < MaxWrites
        /\ UNCHANGED <<path, conn, opening, staged, acked, replicated>>
        /\ disk' = [disk EXCEPT ![n][i].docs = @ \cup {w}]
    BY <1>4 DEF WriteCommit, At
  <2>2. i \in Inodes /\ disk[n][i] \in Content
    BY <1>0, <1>1, <2>1 DEF TypeInv, Fitting, Fits
  <2>3. \A m \in Writers, j \in Inodes : disk'[m][j].jobs = disk[m][j].jobs
    <3> DEFINE c == [disk[n][i] EXCEPT !.docs = @ \cup {w}]
    <3>1. w \in Writes
      BY <2>1 DEF TypeInv, TypeOK, EngineAssumption, Writes
    <3>2. c \in Content /\ c.jobs = disk[n][i].jobs
      BY <2>2, <3>1, WithDocIs
    <3>3. disk' = [disk EXCEPT ![n][i] = c]
      BY <1>1, <2>1, <2>2
    <3> HIDE DEF c, i
    <3>4. /\ disk'[n][i] = c
          /\ \A m \in Writers, j \in Inodes : m # n \/ j # i => disk'[m][j] = disk[m][j]
      BY <1>1, <2>2, <3>2, <3>3, OneFile
    <3> QED
      BY <3>2, <3>4
  <2>4. x \in Locals /\ x.pc = "enqueue"
    <3>1. <<w>> \in Seq(Writes)
      BY <2>1 DEF TypeInv, TypeOK, EngineAssumption, Writes
    <3> HIDE DEF w
    <3> QED
      BY <3>1, IdleIs DEF Locals, Labels, Stable
  <2> HIDE DEF x, i
  <2>5. /\ task'[n]["write"] = x
        /\ \A m \in Writers, s \in Roles : m # n \/ s # "write" => task'[m][s] = task[m][s]
    BY <1>0, <2>1, <2>4, RoleMoves
  <2>6. n \in Clients
    BY <2>1 DEF RowsInv, Working
  <2> QED
    BY <1>0, <2>1, <2>3, <2>4, <2>5, <2>6 DEF RowsInv, Working
<1>5. CASE Enqueue(n) /\ acked' # acked
  <2> DEFINE w == task[n]["write"].batch[1]
             c == WithJobs(disk[n][1], {w})
  <2>1. /\ Become(n, "write", Idle) /\ task[n]["write"].pc = "enqueue" /\ conn[n] = 1
        /\ UNCHANGED <<path, conn, opening, staged, replicated>> /\ acked' = acked \cup {w}
        /\ disk' = [disk EXCEPT ![n][1] = WithJobs(@, {w})]
    BY <1>5 DEF Enqueue, At, RowsInv, Stable
  <2>2. n \in Clients
    BY <2>1 DEF RowsInv, Working
  <2>3. w \in Writes
    BY <1>0, <1>1, <2>1 DEF TypeInv, Fitting, Fits, Locals
  <2>4. disk[n][1] \in Content
    BY <1>0, <1>1
  <2>5. c \in Content /\ DOMAIN c.jobs = DOMAIN disk[n][1].jobs \cup {w}
    <3> HIDE DEF w
    <3> QED
      BY <2>3, <2>4, WithJobsIs
  <2>6. disk' = [disk EXCEPT ![n][1] = c]
    BY <1>0, <1>1, <2>1
  <2> HIDE DEF c, w
  <2>7. /\ disk'[n][1] = c /\ \A m \in Writers : m # n => disk'[m][1] = disk[m][1]
    BY <1>0, <1>1, <2>5, <2>6, OneFile
  <2>8. /\ task'[n]["write"] = Idle
        /\ \A m \in Writers, s \in Roles : m # n \/ s # "write" => task'[m][s] = task[m][s]
    BY <1>0, <2>1, IdleIs, RoleMoves
  <2>9. \A v \in acked' \ replicated' : \E m \in Clients : v \in DOMAIN disk'[m][1].jobs
    <3> SUFFICES ASSUME NEW v \in acked' \ replicated'
                 PROVE  \E m \in Clients : v \in DOMAIN disk'[m][1].jobs
      OBVIOUS
    <3>1. CASE v = w
      BY <2>2, <2>5, <2>7, <3>1
    <3>2. CASE v # w
      <4>1. PICK m \in Clients : v \in DOMAIN disk[m][1].jobs
        BY <2>1, <3>2 DEF RowsInv
      <4> QED
        BY <1>0, <2>5, <2>7, <4>1
    <3> QED
      BY <3>1, <3>2
  <2> QED
    BY <1>0, <2>1, <2>8, <2>9, IdleIs, ZenonT(30) DEF RowsInv, Working
<1>6. CASE Enqueue(n) /\ acked' = acked
  <2>1. /\ Become(n, "write", Idle) /\ UNCHANGED <<path, conn, opening, staged, replicated, acked>>
        /\ \/ disk' = disk
           \/ /\ conn[n] = 1
              /\ disk' = [disk EXCEPT ![n][1] = WithJobs(@, {task[n]["write"].batch[1]})]
    BY <1>6 DEF Enqueue, RowsInv, Stable
  <2> DEFINE w == task[n]["write"].batch[1]
             c == WithJobs(disk[n][1], {w})
  <2>2. w \in Writes /\ disk[n][1] \in Content
    BY <1>0, <1>1, <1>6 DEF TypeInv, Fitting, Fits, Locals, Enqueue, At
  <2>3. c \in Content /\ DOMAIN c.jobs = DOMAIN disk[n][1].jobs \cup {w}
    <3> HIDE DEF w
    <3> QED
      BY <2>2, WithJobsIs
  <2>4. disk' = disk \/ disk' = [disk EXCEPT ![n][1] = c]
    BY <1>0, <1>1, <2>1
  <2> HIDE DEF c, w
  <2>5. \A m \in Writers : DOMAIN disk[m][1].jobs \subseteq DOMAIN disk'[m][1].jobs
    <3>1. CASE disk' = disk
      BY <3>1
    <3>2. CASE disk' = [disk EXCEPT ![n][1] = c]
      <4>1. /\ disk'[n][1] = c /\ \A m \in Writers : m # n => disk'[m][1] = disk[m][1]
        BY <1>0, <1>1, <2>3, <3>2, OneFile
      <4> QED
        BY <2>3, <4>1
    <3> QED
      BY <2>4, <3>1, <3>2
  <2>6. /\ task'[n]["write"] = Idle
        /\ \A m \in Writers, s \in Roles : m # n \/ s # "write" => task'[m][s] = task[m][s]
    BY <1>0, <2>1, IdleIs, RoleMoves
  <2> QED
    BY <1>0, <2>1, <2>5, <2>6, IdleIs, ZenonT(30) DEF RowsInv, Working
<1>7. ~AppendBatch(n, "write") /\ ~Snapshotting(n, "write")
  BY DEF RowsInv, AppendBatch, Snapshotting, Vacuum, Stamp, PutBlob, UpsertSnapshot, DropEvicted, At
<1> QED
  BY <1>2, <1>3, <1>4, <1>5, <1>6, <1>7 DEF Write

(* The steps of a flush or a reaper other than the deletion of the rows. *)
LEMMA RowsOfSnapshots ==
  ASSUME EngineAssumption, Stable, RowsInv, TypeInv, NEW n \in Writers,
         NEW r \in {"flush", "reap"},
         \/ r = "flush" /\ AppendBatch(n, r)
         \/ Snapshotting(n, r)
  PROVE  RowsInv'
<1> DEFINE t == task[n][r]
<1>1. r \in Roles /\ t \in Locals /\ t.pc # "idle" /\ Working(n, r) /\ 1 \in Inodes
      /\ (r = "flush" => t.inode = 1)
  BY DEF Roles, TypeInv, TypeOK, Working, RowsInv, AppendBatch, Snapshotting, Vacuum, Stamp,
         PutBlob, UpsertSnapshot, DropEvicted, At, EngineAssumption
<1>2. UNCHANGED <<disk, path, conn, opening, staged>>
  BY DEF AppendBatch, Snapshotting, Vacuum, Stamp, PutBlob, UpsertSnapshot, DropEvicted, local
<1>3. acked' = acked /\ replicated' = replicated
  BY DEF AppendBatch, Snapshotting, Vacuum, Stamp, PutBlob, UpsertSnapshot, DropEvicted, Done, client
<1>4. \/ \E reason : Failed(n, r, reason)
      \/ \E x \in Locals : Become(n, r, x) /\ (x.pc = "idle" \/ x.inode = t.inode)
  <2>1. ASSUME NEW y, Become(n, r, y), y.inode = t.inode
        PROVE  \E x \in Locals : Become(n, r, x) /\ (x.pc = "idle" \/ x.inode = t.inode)
    <3>1. task' \in [Writers -> [Roles -> Locals]]
      <4>1. TypeInv'
        <5>1. Next
          BY DEF Next, Flush, Snapshotting
        <5> QED
          BY <5>1, TypedNext
      <4> QED
        BY <4>1 DEF TypeInv, TypeOK
    <3>2. task \in [Writers -> [Roles -> Locals]]
      BY DEF TypeInv, TypeOK
    <3>3. task'[n][r] = y
      BY <1>1, <2>1, <3>2 DEF Become
    <3>4. y \in Locals
      BY <1>1, <3>1, <3>3
    <3> QED
      BY <2>1, <3>4
  <2>2. Become(n, r, Idle) => \E x \in Locals : Become(n, r, x) /\ (x.pc = "idle" \/ x.inode = t.inode)
    BY IdleIs
  <2>3. ASSUME NEW y, y \in {[t EXCEPT !.pc = "vacuum"], [t EXCEPT !.pc = "upsert"],
                             [t EXCEPT !.pc = "put", !.id = NewId]}
        PROVE  y.inode = t.inode
    BY <1>1, <2>3 DEF Locals
  <2>4. /\ \A v : [t EXCEPT !.pc = "stamp", !.image = v].inode = t.inode
        /\ \A v : [t EXCEPT !.pc = "drop", !.gone = v].inode = t.inode
        /\ [t EXCEPT !.pc = "delete", !.image = None, !.id = None, !.gone = {}].inode = t.inode
    BY <1>1 DEF Locals
  <2>5. CASE AppendBatch(n, r)
    BY <2>1, <2>3, <2>5 DEF AppendBatch, Goto, AfterAppend
  <2>6. CASE Vacuum(n, r)
    BY <2>1, <2>2, <2>4, <2>6 DEF Vacuum, Done, local
  <2>7. CASE Stamp(n, r)
    BY <2>1, <2>3, <2>7 DEF Stamp, local
  <2>8. CASE PutBlob(n, r)
    BY <2>1, <2>3, <2>8 DEF PutBlob, Goto
  <2>9. CASE UpsertSnapshot(n, r)
    BY <2>1, <2>4, <2>9 DEF UpsertSnapshot
  <2>10. CASE DropEvicted(n, r)
    BY <2>1, <2>2, <2>4, <2>10 DEF DropEvicted, Done
  <2> QED
    BY <2>5, <2>6, <2>7, <2>8, <2>9, <2>10 DEF Snapshotting
<1>5. CASE \E reason : Failed(n, r, reason)
  <2>1. PICK x \in Locals : Become(n, r, x) /\ (x = Idle \/ x.inode = t.inode)
    BY <1>1, <1>5, FailedIs
  <2>2. RowsKept
    BY <1>1, <1>2 DEF RowsKept
  <2> QED
    BY <1>1, <1>2, <1>3, <2>1, <2>2, IdleIs, RowsOfTask
<1>6. CASE \E x \in Locals : Become(n, r, x) /\ (x.pc = "idle" \/ x.inode = t.inode)
  <2>1. RowsKept
    BY <1>2 DEF RowsKept
  <2> QED
    BY <1>1, <1>2, <1>3, <1>6, <2>1, RowsOfTask
<1> QED
  BY <1>4, <1>5, <1>6

(* Starting a flush keeps the rows, whether it goes on or a statement fails;  *)
(* so does starting a reaper's snapshot, and the end of a call that failed.   *)
LEMMA RowsOfStarts ==
  ASSUME EngineAssumption, Stable, RowsInv, TypeInv, NEW n \in Writers,
         FlushStart(n) \/ FlushFails(n) \/ BumpAttempts(n) \/ Reap(n)
  PROVE  RowsInv'
<1>0. /\ 1 \in Inodes /\ staged \in [Writers -> SUBSET Writes] /\ staged[n] = {}
      /\ "flush" \in Roles /\ task \in [Writers -> [Roles -> Locals]] /\ conn[n] \in {1, None}
      /\ Idle \in Locals /\ Idle.pc = "idle"
  BY IdleIs DEF TypeInv, TypeOK, EngineAssumption, RowsInv, Roles
<1>1. ASSUME FlushReady(n), StoreStaged(n)
      PROVE  /\ conn[n] = 1 /\ RowsKept
             /\ UNCHANGED <<path, conn, opening, staged, acked, replicated>>
             /\ disk'[n][1] \in Content
  <2>1. /\ conn[n] \in Inodes /\ staged' = [staged EXCEPT ![n] = {}]
        /\ UNCHANGED <<path, conn, opening, client>>
        /\ \A m \in Writers, j \in Inodes : m # n \/ j # conn[n] => disk'[m][j] = disk[m][j]
    BY <1>1, StoringIs
  <2>2. PICK stored \in SUBSET staged[n] :
          LET c == WithJobs(disk[n][conn[n]], stored) IN c \in Content /\ disk'[n][conn[n]] = c
    BY <1>1, StoringIs
  <2>3. conn[n] = 1
    BY <1>0, <1>1 DEF FlushReady
  <2>4. disk[n][1] \in Content /\ stored \subseteq Writes
    BY <1>0 DEF TypeInv, TypeOK
  <2>5. DOMAIN disk[n][1].jobs \subseteq DOMAIN disk'[n][1].jobs
    BY <2>2, <2>3, <2>4, WithJobsIs
  <2>6. RowsKept
    BY <1>0, <2>1, <2>3, <2>5 DEF RowsKept
  <2> QED
    BY <1>0, <2>1, <2>2, <2>3, <2>6 DEF client
<1>2. CASE FlushStart(n)
  <2> DEFINE c == disk'[n][conn[n]]
             q == InOrder(Queued(c))
             y == [Idle EXCEPT !.pc = "append", !.inode = conn[n], !.batch = q]
  <2>1. /\ Become(n, "flush", IF Queued(c) = {} THEN Idle ELSE y) /\ FlushReady(n) /\ StoreStaged(n)
    BY <1>2 DEF FlushStart
  <2>2. /\ conn[n] = 1 /\ RowsKept /\ c \in Content
        /\ UNCHANGED <<path, conn, opening, staged, acked, replicated>>
    BY <1>1, <2>1
  <2>3. Queued(c) \in SUBSET Writes
    BY <2>2, ContentIs DEF Queued
  <2> HIDE DEF c
  <2>4. q \in Seq(Writes)
    BY <2>3, InOrderLists
  <2> HIDE DEF q
  <2>5. y \in Locals /\ y.inode = 1
    BY <1>0, <2>2, <2>4 DEF Idle, Locals, Labels
  <2> HIDE DEF y
  <2>6. CASE Become(n, "flush", y)
    BY <2>2, <2>5, <2>6, RowsOfTask
  <2>7. CASE Become(n, "flush", Idle)
    BY <1>0, <2>2, <2>7, RowsOfTask
  <2> QED
    BY <2>1, <2>6, <2>7
<1>3. CASE FlushFails(n)
  <2>1. CASE FlushReady(n) /\ StoreStaged(n) /\ UNCHANGED task
    <3>1. /\ RowsKept /\ UNCHANGED <<path, conn, opening, staged, acked, replicated>>
      BY <1>1, <2>1
    <3>2. Clients \subseteq Writers
      BY DEF EngineAssumption
    <3> QED
      BY <2>1, <3>1, <3>2 DEF RowsInv, RowsKept, Working
  <2>2. CASE Become(n, "flush", Idle) /\ UNCHANGED <<now, remote, local, client>>
    <3>1. RowsKept
      BY <2>2 DEF RowsKept, local
    <3> QED
      BY <1>0, <2>2, <3>1, RowsOfTask DEF local, client
  <2> QED
    BY <1>3, <2>1, <2>2 DEF FlushFails
<1>4. CASE BumpAttempts(n)
  <2>1. RowsKept
    BY <1>0, <1>4, TypedBump DEF RowsKept
  <2>2. Become(n, "flush", Idle) /\ UNCHANGED <<path, conn, opening, staged, acked, replicated>>
    BY <1>4 DEF BumpAttempts, client
  <2> QED
    BY <1>0, <2>1, <2>2, RowsOfTask
<1>5. CASE Reap(n)
  <2> DEFINE x == [Idle EXCEPT !.pc = "vacuum", !.inode = conn[n]]
  <2>1. /\ conn[n] \in Inodes /\ Become(n, "reap", x) /\ UNCHANGED <<now, remote, local, client>>
    BY <1>5 DEF Reap, TypeInv, TypeOK
  <2>2. x \in Locals
    BY <1>0, <2>1 DEF Idle, Locals, Labels
  <2> HIDE DEF x
  <2>3. RowsKept
    BY <2>1 DEF RowsKept, local
  <2> QED
    BY <2>1, <2>2, <2>3, RowsOfTask DEF local, client
<1> QED
  BY <1>2, <1>3, <1>4, <1>5

(* The rows a flush deletes are of writes it counts as replicated. *)
LEMMA RowsOfDelete ==
  ASSUME EngineAssumption, RowsInv, TypeInv, NEW n \in Writers, DeleteJobs(n)
  PROVE  RowsInv'
<1> DEFINE t == task[n]["flush"]
           S == ToSet(t.batch)
           c == WithoutJobs(disk[n][1], S)
<1>0. /\ 1 \in Inodes /\ disk \in [Writers -> [Inodes -> Content]] /\ disk[n][1] \in Content
      /\ "poll" \in Roles /\ "write" \in Roles /\ "flush" \in Roles /\ Clients \subseteq Writers
  BY DEF TypeInv, TypeOK, EngineAssumption, Roles
<1>1. /\ t.inode = 1 /\ Become(n, "flush", Idle) /\ replicated' = replicated \cup S
      /\ UNCHANGED <<path, conn, opening, staged, acked>>
      /\ disk' = [disk EXCEPT ![n][1] = c]
  <2>1. /\ t.inode = 1 /\ Become(n, "flush", Idle) /\ replicated' = replicated \cup S
        /\ UNCHANGED <<path, conn, opening, staged, acked>>
        /\ disk' = [disk EXCEPT ![n][t.inode] = WithoutJobs(@, S)]
    BY DEF DeleteJobs, At, RowsInv, Working
  <2> QED
    BY <1>0, <2>1
<1>2. c \in Content /\ DOMAIN c.jobs = DOMAIN disk[n][1].jobs \ S
  <2>1. LET d == WithoutJobs(disk[n][1], S) IN
        /\ d \in Content /\ d.docs = disk[n][1].docs /\ DOMAIN d.jobs = DOMAIN disk[n][1].jobs \ S
    BY <1>0, WithoutJobsIs
  <2> QED
    BY <2>1
<1> HIDE DEF c, S, t
<1>3. disk'[n][1] = c /\ \A m \in Writers : m # n => disk'[m][1] = disk[m][1]
  BY <1>0, <1>1, <1>2, OneFile
<1>4. /\ task'[n]["flush"] = Idle
      /\ \A m \in Writers, s \in Roles : m # n \/ s # "flush" => task'[m][s] = task[m][s]
  BY <1>0, <1>1, IdleIs, RoleMoves
<1>5. \A w \in acked' \ replicated' : \E m \in Clients : w \in DOMAIN disk'[m][1].jobs
  <2> SUFFICES ASSUME NEW w \in acked \ replicated, w \notin S
               PROVE  \E m \in Clients : w \in DOMAIN disk'[m][1].jobs
    BY <1>1
  <2>1. PICK m \in Clients : w \in DOMAIN disk[m][1].jobs
    BY DEF RowsInv
  <2> QED
    BY <1>0, <1>2, <1>3, <2>1
<1> QED
  BY <1>0, <1>1, <1>4, <1>5, IdleIs DEF RowsInv, Working

(* A crash leaves the files. *)
LEMMA RowsOfCrash ==
  ASSUME EngineAssumption, Stable, RowsInv, TypeInv, NEW n \in Writers, Crash(n)
  PROVE  RowsInv'
<1>1. /\ "poll" \in Roles /\ "write" \in Roles /\ "flush" \in Roles
      /\ UNCHANGED <<disk, client, path>>
      /\ conn' = [conn EXCEPT ![n] = None] /\ opening' = [opening EXCEPT ![n] = None]
      /\ staged' = [staged EXCEPT ![n] = {}]
      /\ task' = [task EXCEPT ![n] = [r \in Roles |-> Idle]]
  BY DEF Roles, Crash, Stable
<1>2. /\ \A m \in Writers : /\ conn'[m] \in {None, conn[m]} /\ opening'[m] \in {None, opening[m]}
                            /\ staged'[m] \in {{}, staged[m]}
      /\ \A m \in Writers, r \in Roles : task'[m][r] \in {Idle, task[m][r]}
  BY <1>1 DEF TypeInv, TypeOK
<1>3. \A m \in Writers : task'[m] = task[m] \/ \A r \in Roles : task'[m][r] = Idle
  BY <1>1 DEF TypeInv, TypeOK
<1> QED
  BY <1>1, <1>2, <1>3, IdleIs DEF RowsInv, Working, client

(* Every step keeps the rows that are needed. *)
LEMMA RowsOfNext ==
  ASSUME EngineAssumption, Stable, RowsInv, TypeInv, Next
  PROVE  RowsInv'
<1>1. ASSUME NEW n \in Writers,
             \/ Open(n) \/ Close(n) \/ Write(n) \/ FlushStart(n) \/ Flush(n) \/ FlushFails(n)
             \/ Reap(n) \/ Snapshotting(n, "reap") \/ Poll(n) \/ Crash(n)
      PROVE  RowsInv'
  <2>1. ~Poll(n)
    BY DEF Poll, PollStart, PollCount, PollCurrent, PollCompare, PollClose, PollReplace,
           PollReopen, At, Stable, RowsInv
  <2> QED
    BY <1>1, <2>1, RowsOfWrites, RowsOfStarts, RowsOfDelete, RowsOfSnapshots, RowsOfCrash DEF Flush
<1>2. ASSUME Tick PROVE RowsInv'
  BY <1>2 DEF Tick, RowsInv, Working, local, client
<1> QED
  BY <1>1, <1>2 DEF Next

(* In async mode, with a surviving disk and no contention in SQLite, a write  *)
(* that was acknowledged has been replicated or keeps its job row, from which *)
(* it will be: whatever fails, closes, is reaped or crashes.                  *)
THEOREM QueuedAlwaysUntilReplicated ==
  ASSUME EngineAssumption, Stable
  PROVE  Spec => []QueuedUntilReplicated
<1>1. Init => RowsInv
  <2> SUFFICES ASSUME Init PROVE RowsInv
    OBVIOUS
  <2>1. \A n \in Writers, r \in Roles : task[n][r] = Idle
    BY DEF Init
  <2>2. "poll" \in Roles /\ "write" \in Roles /\ "flush" \in Roles
    BY DEF Roles
  <2> QED
    BY <2>1, <2>2, IdleIs DEF Init, RowsInv, Working
<1>2. RowsInv /\ TypeInv /\ [Next]_vars => RowsInv'
  <2>1. RowsInv /\ UNCHANGED vars => RowsInv'
    BY DEF RowsInv, Working, vars, local, client
  <2> QED
    BY <2>1, RowsOfNext
<1>3. RowsInv => QueuedUntilReplicated
  BY ManifestAssumption DEF RowsInv, QueuedUntilReplicated, EngineAssumption
<1>4. Init => TypeInv
  BY TypedInit
<1>5. TypeInv /\ [Next]_vars => TypeInv'
  BY TypedNext, TypedStutter
<1> QED
  BY <1>1, <1>2, <1>3, <1>4, <1>5, PTL DEF Spec

===============================================================================
