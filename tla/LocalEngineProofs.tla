--------------------------- MODULE LocalEngineProofs ---------------------------
(****************************************************************************)
(* Proofs about LocalEngine, for any databases, tasks, requests and cap.     *)
(* The connection pool passes the cap by one connection per task at most,    *)
(* less one, with every operation, idle close, backups and failures.  An     *)
(* answered write stays reachable beside all of them too, as long as no      *)
(* write runs on a connection to a file deleted or replaced under it: that   *)
(* the code lets a stale connection be pooled is ConnectionCleared's          *)
(* counterexample (LocalCleared.cfg).                                        *)
(****************************************************************************)
EXTENDS LocalEngine, TLAPS, FiniteSetTheorems, SequenceTheorems

(* A task that has made room, and has not inserted its connection yet.       *)
Opening == {t \in Tasks : task[t].pc \in {"open", "insert"}}
(* The places that are taken in the pool, or will be.                        *)
Taken == Pooled \cup {Db(t) : t \in Opening}

(* The fields of a task at work.                                             *)
AtWork(r) ==
  r = [pc |-> r.pc, op |-> r.op, db |-> r.db, n |-> r.n, stage |-> r.stage, lock |-> r.lock,
       conn |-> r.conn, victim |-> r.victim, dump |-> r.dump]
Whole(f) == f = [t \in Tasks |-> f[t]] /\ \A t \in Tasks : f[t] = Resting \/ AtWork(f[t])
IInv ==
  /\ Whole(task) /\ conns = [d \in Dbs |-> conns[d]]
  /\ Cardinality(Taken) <= MaxActive + Cardinality(Tasks) - 1

------------------------------------------------------------------------------
(* Setting one field of one task leaves the others as they are.              *)

PcTo(f, t, x) == [f EXCEPT ![t].pc = x]
ConnTo(f, t, x) == [f EXCEPT ![t].conn = x]
StageTo(f, t, x) == [f EXCEPT ![t].stage = x]
VictimTo(f, t, x) == [f EXCEPT ![t].victim = x]
LockTo(f, t, x) == [f EXCEPT ![t].lock = x]
DumpTo(f, t, x) == [f EXCEPT ![t].dump = x]

(* From f to g only t's task changed, from a task at work to another one.    *)
Alone(f, g, t) ==
  /\ Whole(g) /\ AtWork(g[t]) /\ g[t].db = f[t].db /\ g[t].op = f[t].op
  /\ \A u \in Tasks \ {t} : g[u] = f[u]

LEMMA OnePc ==
  ASSUME NEW r, AtWork(r), NEW x, NEW s, s = [r EXCEPT !.pc = x]
  PROVE  AtWork(s) /\ s.db = r.db /\ s.op = r.op /\ s.pc = x /\ s.conn = r.conn
<1>1. PICK p0, o0, d0, n0, s0, l0, c0, v0, u0 :
        r = [pc |-> p0, op |-> o0, db |-> d0, n |-> n0, stage |-> s0, lock |-> l0,
             conn |-> c0, victim |-> v0, dump |-> u0]
  BY DEF AtWork
<1>2. s = [pc |-> x, op |-> o0, db |-> d0, n |-> n0, stage |-> s0, lock |-> l0,
           conn |-> c0, victim |-> v0, dump |-> u0]
  BY <1>1
<1> QED
  BY <1>1, <1>2 DEF AtWork

LEMMA OneConn ==
  ASSUME NEW r, AtWork(r), NEW x, NEW s, s = [r EXCEPT !.conn = x]
  PROVE  AtWork(s) /\ s.db = r.db /\ s.op = r.op /\ s.pc = r.pc /\ s.conn = x
<1>1. PICK p0, o0, d0, n0, s0, l0, c0, v0, u0 :
        r = [pc |-> p0, op |-> o0, db |-> d0, n |-> n0, stage |-> s0, lock |-> l0,
             conn |-> c0, victim |-> v0, dump |-> u0]
  BY DEF AtWork
<1>2. s = [pc |-> p0, op |-> o0, db |-> d0, n |-> n0, stage |-> s0, lock |-> l0,
           conn |-> x, victim |-> v0, dump |-> u0]
  BY <1>1
<1> QED
  BY <1>1, <1>2 DEF AtWork

LEMMA OneStage ==
  ASSUME NEW r, AtWork(r), NEW x, NEW s, s = [r EXCEPT !.stage = x]
  PROVE  AtWork(s) /\ s.db = r.db /\ s.op = r.op /\ s.pc = r.pc /\ s.conn = r.conn
<1>1. PICK p0, o0, d0, n0, s0, l0, c0, v0, u0 :
        r = [pc |-> p0, op |-> o0, db |-> d0, n |-> n0, stage |-> s0, lock |-> l0,
             conn |-> c0, victim |-> v0, dump |-> u0]
  BY DEF AtWork
<1>2. s = [pc |-> p0, op |-> o0, db |-> d0, n |-> n0, stage |-> x, lock |-> l0,
           conn |-> c0, victim |-> v0, dump |-> u0]
  BY <1>1
<1> QED
  BY <1>1, <1>2 DEF AtWork

LEMMA OneVictim ==
  ASSUME NEW r, AtWork(r), NEW x, NEW s, s = [r EXCEPT !.victim = x]
  PROVE  AtWork(s) /\ s.db = r.db /\ s.op = r.op /\ s.pc = r.pc /\ s.conn = r.conn
<1>1. PICK p0, o0, d0, n0, s0, l0, c0, v0, u0 :
        r = [pc |-> p0, op |-> o0, db |-> d0, n |-> n0, stage |-> s0, lock |-> l0,
             conn |-> c0, victim |-> v0, dump |-> u0]
  BY DEF AtWork
<1>2. s = [pc |-> p0, op |-> o0, db |-> d0, n |-> n0, stage |-> s0, lock |-> l0,
           conn |-> c0, victim |-> x, dump |-> u0]
  BY <1>1
<1> QED
  BY <1>1, <1>2 DEF AtWork

LEMMA OneLock ==
  ASSUME NEW r, AtWork(r), NEW x, NEW s, s = [r EXCEPT !.lock = x]
  PROVE  AtWork(s) /\ s.db = r.db /\ s.op = r.op /\ s.pc = r.pc /\ s.conn = r.conn
<1>1. PICK p0, o0, d0, n0, s0, l0, c0, v0, u0 :
        r = [pc |-> p0, op |-> o0, db |-> d0, n |-> n0, stage |-> s0, lock |-> l0,
             conn |-> c0, victim |-> v0, dump |-> u0]
  BY DEF AtWork
<1>2. s = [pc |-> p0, op |-> o0, db |-> d0, n |-> n0, stage |-> s0, lock |-> x,
           conn |-> c0, victim |-> v0, dump |-> u0]
  BY <1>1
<1> QED
  BY <1>1, <1>2 DEF AtWork

LEMMA OneDump ==
  ASSUME NEW r, AtWork(r), NEW x, NEW s, s = [r EXCEPT !.dump = x]
  PROVE  AtWork(s) /\ s.db = r.db /\ s.op = r.op /\ s.pc = r.pc /\ s.conn = r.conn
<1>1. PICK p0, o0, d0, n0, s0, l0, c0, v0, u0 :
        r = [pc |-> p0, op |-> o0, db |-> d0, n |-> n0, stage |-> s0, lock |-> l0,
             conn |-> c0, victim |-> v0, dump |-> u0]
  BY DEF AtWork
<1>2. s = [pc |-> p0, op |-> o0, db |-> d0, n |-> n0, stage |-> s0, lock |-> l0,
           conn |-> c0, victim |-> v0, dump |-> x]
  BY <1>1
<1> QED
  BY <1>1, <1>2 DEF AtWork

LEMMA OneN ==
  ASSUME NEW r, AtWork(r), NEW x, NEW s, s = [r EXCEPT !.n = x]
  PROVE  AtWork(s) /\ s.db = r.db /\ s.op = r.op /\ s.pc = r.pc /\ s.conn = r.conn
<1>1. PICK p0, o0, d0, n0, s0, l0, c0, v0, u0 :
        r = [pc |-> p0, op |-> o0, db |-> d0, n |-> n0, stage |-> s0, lock |-> l0,
             conn |-> c0, victim |-> v0, dump |-> u0]
  BY DEF AtWork
<1>2. s = [pc |-> p0, op |-> o0, db |-> d0, n |-> x, stage |-> s0, lock |-> l0,
           conn |-> c0, victim |-> v0, dump |-> u0]
  BY <1>1
<1> QED
  BY <1>1, <1>2 DEF AtWork

LEMMA PcAlone ==
  ASSUME NEW f, Whole(f), NEW t \in Tasks, AtWork(f[t]), NEW x
  PROVE  Alone(f, PcTo(f, t, x), t) /\ PcTo(f, t, x)[t].pc = x /\ PcTo(f, t, x)[t].conn = f[t].conn
<1> DEFINE r == [f[t] EXCEPT !.pc = x]
<1>1. AtWork(r) /\ r.db = f[t].db /\ r.op = f[t].op /\ r.pc = x /\ r.conn = f[t].conn
  BY OnePc
<1>2. PcTo(f, t, x) = [u \in Tasks |-> IF u = t THEN r ELSE f[u]]
  BY DEF PcTo, Whole
<1> HIDE DEF r
<1> QED
  BY <1>1, <1>2 DEF Whole, Alone

LEMMA ConnAlone ==
  ASSUME NEW f, Whole(f), NEW t \in Tasks, AtWork(f[t]), NEW x
  PROVE  Alone(f, ConnTo(f, t, x), t) /\ ConnTo(f, t, x)[t].pc = f[t].pc /\ ConnTo(f, t, x)[t].conn = x
<1> DEFINE r == [f[t] EXCEPT !.conn = x]
<1>1. AtWork(r) /\ r.db = f[t].db /\ r.op = f[t].op /\ r.pc = f[t].pc /\ r.conn = x
  BY OneConn
<1>2. ConnTo(f, t, x) = [u \in Tasks |-> IF u = t THEN r ELSE f[u]]
  BY DEF ConnTo, Whole
<1> HIDE DEF r
<1> QED
  BY <1>1, <1>2 DEF Whole, Alone

LEMMA StageAlone ==
  ASSUME NEW f, Whole(f), NEW t \in Tasks, AtWork(f[t]), NEW x
  PROVE  /\ Alone(f, StageTo(f, t, x), t) /\ StageTo(f, t, x)[t].pc = f[t].pc
         /\ StageTo(f, t, x)[t].conn = f[t].conn
<1> DEFINE r == [f[t] EXCEPT !.stage = x]
<1>1. AtWork(r) /\ r.db = f[t].db /\ r.op = f[t].op /\ r.pc = f[t].pc /\ r.conn = f[t].conn
  BY OneStage
<1>2. StageTo(f, t, x) = [u \in Tasks |-> IF u = t THEN r ELSE f[u]]
  BY DEF StageTo, Whole
<1> HIDE DEF r
<1> QED
  BY <1>1, <1>2 DEF Whole, Alone

LEMMA VictimAlone ==
  ASSUME NEW f, Whole(f), NEW t \in Tasks, AtWork(f[t]), NEW x
  PROVE  /\ Alone(f, VictimTo(f, t, x), t) /\ VictimTo(f, t, x)[t].pc = f[t].pc
         /\ VictimTo(f, t, x)[t].conn = f[t].conn
<1> DEFINE r == [f[t] EXCEPT !.victim = x]
<1>1. AtWork(r) /\ r.db = f[t].db /\ r.op = f[t].op /\ r.pc = f[t].pc /\ r.conn = f[t].conn
  BY OneVictim
<1>2. VictimTo(f, t, x) = [u \in Tasks |-> IF u = t THEN r ELSE f[u]]
  BY DEF VictimTo, Whole
<1> HIDE DEF r
<1> QED
  BY <1>1, <1>2 DEF Whole, Alone

LEMMA LockAlone ==
  ASSUME NEW f, Whole(f), NEW t \in Tasks, AtWork(f[t]), NEW x
  PROVE  /\ Alone(f, LockTo(f, t, x), t) /\ LockTo(f, t, x)[t].pc = f[t].pc
         /\ LockTo(f, t, x)[t].conn = f[t].conn
<1> DEFINE r == [f[t] EXCEPT !.lock = x]
<1>1. AtWork(r) /\ r.db = f[t].db /\ r.op = f[t].op /\ r.pc = f[t].pc /\ r.conn = f[t].conn
  BY OneLock
<1>2. LockTo(f, t, x) = [u \in Tasks |-> IF u = t THEN r ELSE f[u]]
  BY DEF LockTo, Whole
<1> HIDE DEF r
<1> QED
  BY <1>1, <1>2 DEF Whole, Alone

LEMMA DumpAlone ==
  ASSUME NEW f, Whole(f), NEW t \in Tasks, AtWork(f[t]), NEW x
  PROVE  /\ Alone(f, DumpTo(f, t, x), t) /\ DumpTo(f, t, x)[t].pc = f[t].pc
         /\ DumpTo(f, t, x)[t].conn = f[t].conn
<1> DEFINE r == [f[t] EXCEPT !.dump = x]
<1>1. AtWork(r) /\ r.db = f[t].db /\ r.op = f[t].op /\ r.pc = f[t].pc /\ r.conn = f[t].conn
  BY OneDump
<1>2. DumpTo(f, t, x) = [u \in Tasks |-> IF u = t THEN r ELSE f[u]]
  BY DEF DumpTo, Whole
<1> HIDE DEF r
<1> QED
  BY <1>1, <1>2 DEF Whole, Alone

------------------------------------------------------------------------------
(* Counting the places.                                                      *)

PooledIn(c) == {d \in Dbs : c[d] # None}
OpeningIn(f) == {t \in Tasks : f[t].pc \in {"open", "insert"}}
TakenIn(c, f) == PooledIn(c) \cup {f[t].db : t \in OpeningIn(f)}

LEMMA Places ==
  ASSUME LocalEngineAssumption, NEW c, NEW f
  PROVE  /\ IsFiniteSet(TakenIn(c, f)) /\ Cardinality(PooledIn(c)) \in Nat
         /\ Cardinality(TakenIn(c, f)) \in Nat /\ Cardinality(Tasks) \in Nat /\ MaxActive \in Nat \ {0}
         /\ Cardinality(PooledIn(c)) <= Cardinality(TakenIn(c, f))
         /\ Cardinality(TakenIn(c, f)) <= Cardinality(PooledIn(c)) + Cardinality(Tasks)
<1> DEFINE P == PooledIn(c)
           O == OpeningIn(f)
           X == TakenIn(c, f)
           Image == {f[t].db : t \in O}
           g == [t \in O |-> f[t].db]
<1>1. IsFiniteSet(Dbs) /\ IsFiniteSet(Tasks) /\ MaxActive \in Nat \ {0}
  BY DEF LocalEngineAssumption
<1>2. IsFiniteSet(P)
  BY <1>1, FS_Subset DEF PooledIn
<1>3. IsFiniteSet(O) /\ Cardinality(O) <= Cardinality(Tasks)
  BY <1>1, FS_Subset DEF OpeningIn
<1>4. g \in Surjection(O, Image)
  BY DEF Surjection
<1> HIDE DEF g
<1>5. IsFiniteSet(Image) /\ Cardinality(Image) <= Cardinality(O)
  BY <1>3, <1>4, FS_Surjection
<1>6. X = P \cup Image
  BY DEF TakenIn
<1> HIDE DEF Image, P, O, X
<1>7. /\ IsFiniteSet(P \cup Image)
      /\ Cardinality(P \cup Image) = Cardinality(P) + Cardinality(Image) - Cardinality(P \cap Image)
  BY <1>2, <1>5, FS_Union
<1>8. IsFiniteSet(P \cap Image)
  BY <1>2, FS_Subset
<1>9. IsFiniteSet(X) /\ Cardinality(P) <= Cardinality(X)
  BY <1>6, <1>7, FS_Subset
<1>10. /\ Cardinality(P) \in Nat /\ Cardinality(Image) \in Nat /\ Cardinality(O) \in Nat
       /\ Cardinality(P \cap Image) \in Nat /\ Cardinality(Tasks) \in Nat /\ Cardinality(X) \in Nat
  BY <1>1, <1>2, <1>3, <1>5, <1>8, <1>9, FS_CardinalityType
<1>11. Cardinality(X) <= Cardinality(P) + Cardinality(Tasks)
  <2>1. \A a, b, i, o, k \in Nat : b <= o /\ o <= k => a + b - i <= a + k
    OBVIOUS
  <2>2. Cardinality(P) + Cardinality(Image) - Cardinality(P \cap Image) <= Cardinality(P) + Cardinality(Tasks)
    BY <1>3, <1>5, <1>10, <2>1
  <2> QED
    BY <1>6, <1>7, <2>2
<1> QED
  BY <1>1, <1>9, <1>10, <1>11 DEF P, X

LEMMA Counted ==
  ASSUME LocalEngineAssumption
  PROVE  /\ IsFiniteSet(Taken) /\ Cardinality(Pooled) \in Nat
         /\ Cardinality(Taken) \in Nat /\ Cardinality(Tasks) \in Nat /\ MaxActive \in Nat \ {0}
         /\ Cardinality(Pooled) <= Cardinality(Taken)
<1>1. Taken = TakenIn(conns, task)
  BY DEF Taken, Db, TakenIn, PooledIn, OpeningIn, Pooled, Opening
<1>2. Pooled = PooledIn(conns)
  BY DEF Pooled, PooledIn
<1> QED
  BY <1>1, <1>2, Places

(* No place is taken that was not: the bound is kept.                        *)
LEMMA NoneTaken ==
  ASSUME LocalEngineAssumption, IInv, Whole(task'), conns' = [d \in Dbs |-> conns'[d]],
         Taken' \subseteq Taken
  PROVE  IInv'
<1>1. /\ IsFiniteSet(Taken) /\ Cardinality(Taken) \in Nat /\ Cardinality(Tasks) \in Nat /\ MaxActive \in Nat
  BY Counted
<1>2. IsFiniteSet(Taken') /\ Cardinality(Taken') <= Cardinality(Taken)
  BY <1>1, FS_Subset
<1>3. Cardinality(Taken') \in Nat
  BY <1>2, FS_CardinalityType
<1>4. Cardinality(Taken) <= MaxActive + Cardinality(Tasks) - 1
  BY DEF IInv
<1>5. Cardinality(Taken') <= MaxActive + Cardinality(Tasks) - 1
  BY <1>1, <1>2, <1>3, <1>4
<1>6. Whole(task)' /\ (conns = [d \in Dbs |-> conns[d]])'
  BY DEF Whole
<1> QED
  BY <1>5, <1>6 DEF IInv

(* A place is free: there is one for each task that wants one.               *)
LEMMA RoomFor ==
  ASSUME LocalEngineAssumption, IInv, Whole(task'), conns' = conns, ~Full
  PROVE  IInv'
<1>1. /\ Cardinality(Pooled) \in Nat /\ Cardinality(Tasks) \in Nat /\ MaxActive \in Nat
  BY Counted
<1>2. /\ Cardinality(Taken') \in Nat
      /\ Cardinality(Taken') <= Cardinality(Pooled') + Cardinality(Tasks)
  <2>1. Taken' = TakenIn(conns', task')
    BY DEF Taken, Db, TakenIn, PooledIn, OpeningIn, Pooled, Opening
  <2>2. Pooled' = PooledIn(conns')
    BY DEF Pooled, PooledIn
  <2> QED
    BY <2>1, <2>2, Places
<1>3. Pooled' = Pooled
  BY DEF Pooled
<1>4. ~(Cardinality(Pooled) >= MaxActive)
  BY DEF Full
<1>5. Cardinality(Taken') <= MaxActive + Cardinality(Tasks) - 1
  BY <1>1, <1>2, <1>3, <1>4
<1>6. Whole(task)' /\ (conns = [d \in Dbs |-> conns[d]])'
  BY DEF Whole, IInv
<1> QED
  BY <1>5, <1>6 DEF IInv

(* One task moves, and does not begin to open.                               *)
LEMMA NotOpening ==
  ASSUME LocalEngineAssumption, IInv, NEW t \in Tasks, Whole(task'),
         \A u \in Tasks \ {t} : task'[u] = task[u],
         \/ task'[t].pc \notin {"open", "insert"}
         \/ t \in Opening /\ task'[t].db = Db(t)
         \/ Db(t) \in Pooled /\ task'[t].db = Db(t),
         conns' = [d \in Dbs |-> conns'[d]], \A d \in Dbs \ Taken : conns'[d] = None
  PROVE  IInv'
<1>1. Pooled' \subseteq Taken
  BY DEF Pooled
<1>2. ASSUME NEW u \in Tasks, task'[u].pc \in {"open", "insert"}
      PROVE  task'[u].db \in Taken
  <2>1. CASE u = t
    BY <1>2, <2>1 DEF Taken
  <2>2. CASE u # t
    <3>1. task'[u] = task[u] BY <2>2
    <3> QED BY <1>2, <3>1 DEF Taken, Opening, Db
  <2> QED BY <2>1, <2>2
<1>3. Taken' \subseteq Taken
  BY <1>1, <1>2 DEF Taken, Opening, Db
<1> QED
  BY <1>3, NoneTaken

------------------------------------------------------------------------------
(* The moves of the tasks: what they set besides the label.                  *)

LEMMA AtWorkAt ==
  ASSUME IInv, NEW t \in Tasks, task[t].pc # "idle"
  PROVE  AtWork(task[t]) /\ Whole(task)
BY DEF IInv, Whole, Resting

(* The step sets task t's label to p, and one or two of its other fields.    *)
Relabels(t, p) ==
  \/ task' = PcTo(task, t, p)
  \/ \E x : task' = ConnTo(PcTo(task, t, p), t, x)
  \/ \E x : task' = VictimTo(PcTo(task, t, p), t, x)
  \/ \E x : task' = DumpTo(PcTo(task, t, p), t, x)
  \/ \E x : task' = StageTo(PcTo(task, t, p), t, x)
  \/ \E x, y : task' = LockTo(StageTo(PcTo(task, t, p), t, x), t, y)
  \/ \E x, y : task' = StageTo(ConnTo(PcTo(task, t, p), t, x), t, y)

LEMMA Relabelled ==
  ASSUME IInv, NEW t \in Tasks, task[t].pc # "idle", NEW p, Relabels(t, p)
  PROVE  Alone(task, task', t) /\ task'[t].pc = p
<1> DEFINE f == PcTo(task, t, p)
           Ok(g) == Alone(task, g, t) /\ g[t].pc = p
<1>1. Whole(task) /\ AtWork(task[t])
  BY AtWorkAt
<1>2. Ok(f)
  BY <1>1, PcAlone
<1> HIDE DEF f
<1>3. ASSUME NEW g, NEW h, Ok(g), Alone(g, h, t), h[t].pc = g[t].pc
      PROVE  Ok(h)
  BY <1>3 DEF Alone
<1>4. \A g : Ok(g) => Whole(g) /\ AtWork(g[t])
  BY DEF Alone
<1>5. ASSUME NEW g, Ok(g), NEW x
      PROVE  Ok(ConnTo(g, t, x))
  BY <1>3, <1>4, <1>5, ConnAlone
<1>6. ASSUME NEW g, Ok(g), NEW x
      PROVE  Ok(VictimTo(g, t, x))
  BY <1>3, <1>4, <1>6, VictimAlone
<1>7. ASSUME NEW g, Ok(g), NEW x
      PROVE  Ok(DumpTo(g, t, x))
  BY <1>3, <1>4, <1>7, DumpAlone
<1>8. ASSUME NEW g, Ok(g), NEW x
      PROVE  Ok(StageTo(g, t, x))
  BY <1>3, <1>4, <1>8, StageAlone
<1>9. ASSUME NEW g, Ok(g), NEW x
      PROVE  Ok(LockTo(g, t, x))
  BY <1>3, <1>4, <1>9, LockAlone
<1> HIDE DEF Ok
<1>10. Ok(task')
  BY <1>2, <1>5, <1>6, <1>7, <1>8, <1>9 DEF Relabels, f
<1> QED
  BY <1>10 DEF Ok

LEMMA SamePool ==
  ASSUME IInv, conns' = conns
  PROVE  conns' = [d \in Dbs |-> conns'[d]] /\ \A d \in Dbs \ Taken : conns'[d] = None
BY DEF IInv, Taken, Pooled

LEMMA OneCleared ==
  ASSUME IInv, NEW v, conns' = [conns EXCEPT ![v] = None]
  PROVE  conns' = [d \in Dbs |-> conns'[d]] /\ \A d \in Dbs \ Taken : conns'[d] = None
BY DEF IInv, Taken, Pooled

(* A task at work goes on; it opens a connection only if its place is taken. *)
LEMMA GoesOn ==
  ASSUME LocalEngineAssumption, IInv, NEW t \in Tasks, Alone(task, task', t),
         task'[t].pc \notin {"open", "insert"} \/ t \in Opening \/ Db(t) \in Pooled,
         conns' = [d \in Dbs |-> conns'[d]], \A d \in Dbs \ Taken : conns'[d] = None
  PROVE  IInv'
<1>1. Whole(task') /\ task'[t].db = Db(t) /\ \A u \in Tasks \ {t} : task'[u] = task[u]
  BY DEF Alone, Db
<1> QED
  BY <1>1, NotOpening

(* A task ends, or another one takes its place.                              *)
LEMMA Replaced ==
  ASSUME LocalEngineAssumption, IInv, NEW t \in Tasks, NEW r, task' = [task EXCEPT ![t] = r],
         r = Resting \/ AtWork(r), r.pc \notin {"open", "insert"},
         conns' = [d \in Dbs |-> conns'[d]], \A d \in Dbs \ Taken : conns'[d] = None
  PROVE  IInv'
<1>1. task = [u \in Tasks |-> task[u]] /\ \A u \in Tasks : task[u] = Resting \/ AtWork(task[u])
  BY DEF IInv, Whole
<1>2. task' = [u \in Tasks |-> IF u = t THEN r ELSE task[u]]
  BY <1>1
<1>3. task'[t] = r /\ \A u \in Tasks \ {t} : task'[u] = task[u]
  BY <1>2
<1>4. Whole(task')
  BY <1>1, <1>2 DEF Whole
<1> QED
  BY <1>3, <1>4, NotOpening

LEMMA NewTask ==
  ASSUME NEW op, NEW d, NEW n
  PROVE  /\ AtWork(Task(op, d, n)) /\ Task(op, d, n).pc = "lookup" /\ Task(op, d, n).db = d
BY DEF AtWork, Task

LEMMA Ends ==
  ASSUME LocalEngineAssumption, IInv, NEW t \in Tasks, Finish(t), conns' = conns
  PROVE  IInv'
<1>1. Resting.pc = "idle"
  BY DEF Resting
<1> QED
  BY <1>1, Replaced, SamePool DEF Finish

------------------------------------------------------------------------------
(* The actions.                                                              *)

LEMMA FoundKeeps ==
  ASSUME LocalEngineAssumption, IInv, NEW t \in Tasks, Lookup(t)
  PROVE  IInv'
<1>1. task[t].pc # "idle"
  BY DEF Lookup, At
<1>2. conns' = conns
  BY DEF Lookup, Found, NoPool, pool
<1>3. Relabels(t, "run") \/ Relabels(t, "evict")
  BY DEF Lookup, Found, Goto, Relabels, PcTo, ConnTo
<1>4. Alone(task, task', t) /\ task'[t].pc \notin {"open", "insert"}
  BY <1>1, <1>3, Relabelled
<1> QED
  BY <1>2, <1>4, GoesOn, SamePool

(* Room is made, or found: the place is one of the free ones.                *)
LEMMA EvictKeeps ==
  ASSUME LocalEngineAssumption, IInv, NEW t \in Tasks, EvictLruIfNeeded(t)
  PROVE  IInv'
<1>1. task[t].pc # "idle"
  BY DEF EvictLruIfNeeded, At
<1>2. conns' = conns
  BY DEF EvictLruIfNeeded, NoPool, pool
<1>3. CASE (Db(t) \in Pooled \/ ~Full) /\ Goto(t, AfterEviction(t))
  <2>1. Alone(task, task', t)
    <3>1. Relabels(t, AfterEviction(t))
      BY <1>3 DEF Goto, Relabels, PcTo
    <3> QED BY <1>1, <3>1, Relabelled
  <2>2. Whole(task')
    BY <2>1 DEF Alone
  <2>3. CASE ~Full
    BY <1>2, <2>2, <2>3, RoomFor
  <2>4. CASE Db(t) \in Pooled
    BY <1>2, <2>1, <2>4, GoesOn, SamePool
  <2> QED BY <1>3, <2>3, <2>4
<1>4. ASSUME NEW v, task' = [task EXCEPT ![t].pc = "close", ![t].victim = v]
      PROVE  IInv'
  <2>1. Alone(task, task', t) /\ task'[t].pc \notin {"open", "insert"}
    <3>1. Relabels(t, "close")
      BY <1>4 DEF Relabels, PcTo, VictimTo
    <3> QED BY <1>1, <3>1, Relabelled
  <2> QED BY <1>2, <2>1, GoesOn, SamePool
<1> QED
  BY <1>3, <1>4 DEF EvictLruIfNeeded

LEMMA CloseKeeps ==
  ASSUME LocalEngineAssumption, IInv, NEW t \in Tasks, CloseVictim(t)
  PROVE  IInv'
<1>1. task[t].pc # "idle"
  BY DEF CloseVictim, At
<1>2. Alone(task, task', t) /\ task'[t].pc \notin {"open", "insert"}
  <2>1. Relabels(t, "forget")
    BY DEF CloseVictim, Goto, Relabels, PcTo
  <2> QED BY <1>1, <2>1, Relabelled
<1>3. conns' = [conns EXCEPT ![task[t].victim] = None]
  BY DEF CloseVictim
<1> QED
  BY <1>2, <1>3, GoesOn, OneCleared

LEMMA ForgetKeeps ==
  ASSUME LocalEngineAssumption, IInv, NEW t \in Tasks, ForgetVictim(t)
  PROVE  IInv'
<1>1. task[t].pc # "idle"
  BY DEF ForgetVictim, At
<1>2. conns' = conns
  BY DEF ForgetVictim
<1>3. CASE Full \/ task[t].op = "close_idle"
  BY <1>2, <1>3, Ends DEF ForgetVictim
<1>4. CASE ~(Full \/ task[t].op = "close_idle")
  <2>1. task' = [task EXCEPT ![t].pc = AfterEviction(t), ![t].victim = None]
    BY <1>4 DEF ForgetVictim
  <2>2. Whole(task')
    <3>1. Relabels(t, AfterEviction(t))
      BY <2>1 DEF Relabels, PcTo, VictimTo
    <3> QED BY <1>1, <3>1, Relabelled DEF Alone
  <2> QED BY <1>2, <1>4, <2>2, RoomFor
<1> QED
  BY <1>3, <1>4

LEMMA LockKeeps ==
  ASSUME LocalEngineAssumption, IInv, NEW t \in Tasks, TakeLock(t) \/ Recheck(t)
  PROVE  IInv'
<1>1. task[t].pc # "idle"
  BY DEF TakeLock, Recheck, At
<1>2. conns' = conns
  BY DEF TakeLock, Recheck, NoPool, pool
<1>3. Relabels(t, "recheck") \/ Relabels(t, "run") \/ Relabels(t, "evict")
  <2>1. TakeLock(t) => Relabels(t, "recheck")
    BY DEF TakeLock, Relabels, PcTo, StageTo, LockTo
  <2>2. Recheck(t) => Relabels(t, "run") \/ Relabels(t, "evict")
    BY DEF Recheck, Goto, Relabels, PcTo, ConnTo, StageTo
  <2> QED BY <2>1, <2>2
<1>4. Alone(task, task', t) /\ task'[t].pc \notin {"open", "insert"}
  BY <1>1, <1>3, Relabelled
<1> QED
  BY <1>2, <1>4, GoesOn, SamePool

LEMMA OpenKeeps ==
  ASSUME LocalEngineAssumption, IInv, NEW t \in Tasks, Open(t) \/ OpenRefused(t)
  PROVE  IInv'
<1>1. CASE OpenRefused(t)
  BY <1>1, Ends DEF OpenRefused, NoPool, pool
<1>2. CASE Open(t)
  <2>1. task[t].pc # "idle" /\ t \in Opening
    BY <1>2 DEF Open, At, Opening
  <2>2. conns' = conns
    BY <1>2 DEF Open, NoPool, pool
  <2>3. Relabels(t, "insert")
    BY <1>2 DEF Open, Relabels, PcTo, ConnTo
  <2>4. Alone(task, task', t)
    BY <2>1, <2>3, Relabelled
  <2> QED BY <2>1, <2>2, <2>4, GoesOn, SamePool
<1> QED
  BY <1>1, <1>2

(* The connection takes the place that its task had.                         *)
LEMMA InsertKeeps ==
  ASSUME LocalEngineAssumption, IInv, NEW t \in Tasks, InsertConn(t)
  PROVE  IInv'
<1>1. task[t].pc # "idle" /\ t \in Opening
  BY DEF InsertConn, At, Opening
<1>2. Alone(task, task', t) /\ task'[t].pc \notin {"open", "insert"}
  <2>1. Relabels(t, "run")
    BY DEF InsertConn, Relabels, PcTo, StageTo
  <2> QED BY <1>1, <2>1, Relabelled
<1>3. conns' = [conns EXCEPT ![Db(t)] = task[t].conn] /\ conns = [d \in Dbs |-> conns[d]]
  BY DEF InsertConn, IInv
<1>4. Db(t) \in Taken /\ Pooled \subseteq Taken
  BY <1>1 DEF Taken
<1>5. conns' = [d \in Dbs |-> conns'[d]] /\ \A d \in Dbs \ Taken : conns'[d] = None
  BY <1>3, <1>4 DEF Pooled
<1> QED
  BY <1>2, <1>5, GoesOn

LEMMA RunKeeps ==
  ASSUME LocalEngineAssumption, IInv, NEW t \in Tasks,
         Query(t) \/ CreateDb(t) \/ Insert(t) \/ Unlink(t) \/ RecordBackup(t) \/ BackupFails(t)
  PROVE  IInv'
BY Ends DEF Query, CreateDb, Insert, Unlink, RecordBackup, BackupFails, NoPool, pool

LEMMA StageKeeps ==
  ASSUME LocalEngineAssumption, IInv, NEW t \in Tasks,
         ArchiveBackup(t) \/ ClearEntries(t) \/ StoreBackup(t) \/ DumpDb(t)
  PROVE  IInv'
<1>1. task[t].pc # "idle"
  BY DEF ArchiveBackup, ClearEntries, StoreBackup, DumpDb, Run, At
<1>2. conns' = conns
  BY DEF ArchiveBackup, ClearEntries, StoreBackup, DumpDb, NoPool, pool
<1>3. \E p \in {"remove", "unlink", "record", "store"} : Relabels(t, p)
  BY DEF ArchiveBackup, ClearEntries, StoreBackup, DumpDb, Goto, Relabels, PcTo, DumpTo
<1>4. Alone(task, task', t) /\ task'[t].pc \notin {"open", "insert"}
  BY <1>1, <1>3, Relabelled
<1> QED
  BY <1>2, <1>4, GoesOn, SamePool

LEMMA RemoveKeeps ==
  ASSUME LocalEngineAssumption, IInv, NEW t \in Tasks, RemoveConn(t)
  PROVE  IInv'
<1>1. task[t].pc # "idle"
  BY DEF RemoveConn, At
<1>2. Alone(task, task', t) /\ task'[t].pc \notin {"open", "insert"}
  <2>1. \E p \in {"clear", "overwrite"} : Relabels(t, p)
    BY DEF RemoveConn, Goto, Relabels, PcTo
  <2> QED BY <1>1, <2>1, Relabelled
<1>3. conns' = [conns EXCEPT ![Db(t)] = None]
  BY DEF RemoveConn
<1> QED
  BY <1>2, <1>3, GoesOn, OneCleared

LEMMA RestoreKeeps ==
  ASSUME LocalEngineAssumption, IInv, NEW t \in Tasks, RestoreSource(t) \/ Overwrite(t)
  PROVE  IInv'
<1>1. conns' = conns
  BY DEF RestoreSource, Overwrite, NoPool, pool
<1>2. CASE RestoreSource(t) /\ Finish(t)
  BY <1>1, <1>2, Ends
<1>3. CASE RestoreSource(t) /\ ~Finish(t)
  <2>1. task[t].pc # "idle"
    BY <1>3 DEF RestoreSource, Run, At
  <2>2. Relabels(t, "remove")
    BY <1>3 DEF RestoreSource, Relabels, PcTo, DumpTo
  <2>3. Alone(task, task', t) /\ task'[t].pc \notin {"open", "insert"}
    BY <2>1, <2>2, Relabelled
  <2> QED BY <1>1, <2>3, GoesOn, SamePool
<1>4. CASE Overwrite(t)
  <2>1. task' = [task EXCEPT ![t] = Task("query", Db(t), task[t].n)]
    BY <1>4 DEF Overwrite
  <2> QED BY <1>1, <2>1, NewTask, Replaced, SamePool
<1> QED
  BY <1>2, <1>3, <1>4

LEMMA StartKeeps ==
  ASSUME LocalEngineAssumption, IInv, NEW t \in Tasks,
         StartRequest(t) \/ (\E d \in Dbs : StartBackup(t, d)) \/ CloseIdle(t)
  PROVE  IInv'
<1>1. conns' = conns
  BY DEF StartRequest, StartBackup, CloseIdle, NoPool, pool
<1>2. CASE ~CloseIdle(t)
  <2>1. PICK op, d, n : task' = [task EXCEPT ![t] = Task(op, d, n)]
    BY <1>2 DEF StartRequest, StartBackup
  <2> QED BY <1>1, <2>1, NewTask, Replaced, SamePool
<1>3. CASE CloseIdle(t)
  <2>1. PICK d \in Dbs :
          task' = [task EXCEPT ![t] = [Task("close_idle", d, 0) EXCEPT !.pc = "close", !.victim = d]]
    BY <1>3 DEF CloseIdle
  <2> DEFINE q == Task("close_idle", d, 0)
             r == [q EXCEPT !.pc = "close"]
             s == [r EXCEPT !.victim = d]
  <2>2. AtWork(q)
    BY NewTask
  <2> HIDE DEF q
  <2>3. AtWork(r) /\ r.pc = "close"
    BY <2>2, OnePc
  <2> HIDE DEF r
  <2>4. AtWork(s) /\ s.pc = "close"
    BY <2>3, OneVictim
  <2>5. task' = [task EXCEPT ![t] = s]
    BY <2>1 DEF s, r, q
  <2> HIDE DEF s
  <2> QED BY <1>1, <2>4, <2>5, Replaced, SamePool
<1> QED
  BY <1>2, <1>3

LEMMA TickKeeps ==
  ASSUME LocalEngineAssumption, IInv, Tick
  PROVE  IInv'
<1>1. conns' = conns
  BY DEF Tick
<1>2. task' = [t \in Tasks |-> task'[t]]
  BY DEF Tick
<1>3. ASSUME NEW t \in Tasks
      PROVE  /\ task'[t] = Resting \/ AtWork(task'[t])
             /\ task'[t].pc \in {"open", "insert"} =>
                  task[t].pc = task'[t].pc /\ task'[t].db = task[t].db
  <2>1. task[t] = Resting \/ AtWork(task[t])
    BY DEF IInv, Whole
  <2>2. \/ task'[t] = task[t]
        \/ AtWork(task[t]) /\ \E x : task'[t] = [task[t] EXCEPT !.n = x]
    BY <2>1 DEF Tick
  <2>3. ASSUME NEW x, AtWork(task[t]), task'[t] = [task[t] EXCEPT !.n = x]
        PROVE  AtWork(task'[t]) /\ task'[t].pc = task[t].pc /\ task'[t].db = task[t].db
    <3> DEFINE r == task[t]
               s == [r EXCEPT !.n = x]
    <3>1. AtWork(r)
      BY <2>3
    <3> HIDE DEF r
    <3>2. AtWork(s) /\ s.pc = r.pc /\ s.db = r.db
      BY <3>1, OneN
    <3>3. task'[t] = s
      BY <2>3 DEF r
    <3> HIDE DEF s
    <3> QED BY <3>2, <3>3 DEF r
  <2> QED BY <2>1, <2>2, <2>3
<1>4. Whole(task')
  BY <1>2, <1>3 DEF Whole
<1>5. \A t \in Tasks : t \in Opening' => t \in Opening /\ task'[t].db = task[t].db
  BY <1>3 DEF Opening
<1>6. Pooled' = Pooled
  BY <1>1 DEF Pooled
<1>7. Taken' \subseteq Taken
  BY <1>5, <1>6 DEF Taken, Opening, Db
<1> QED
  BY <1>1, <1>4, <1>7, NoneTaken, SamePool

------------------------------------------------------------------------------

LEMMA Begins ==
  ASSUME LocalEngineAssumption, Init
  PROVE  IInv
<1>1. Whole(task) /\ conns = [d \in Dbs |-> conns[d]]
  BY DEF Init, Whole
<1>2. \A t \in Tasks : task[t].pc = "idle"
  BY DEF Init, Resting
<1>3. Opening = {} /\ Pooled = {}
  BY <1>2 DEF Init, Opening, Pooled
<1>4. Taken = {}
  BY <1>3 DEF Taken
<1>5. Cardinality(Taken) = 0 /\ Cardinality(Tasks) \in Nat /\ MaxActive \in Nat \ {0}
  BY <1>4, Counted, FS_EmptySet
<1> QED
  BY <1>1, <1>5 DEF IInv

LEMMA StepKeeps ==
  ASSUME LocalEngineAssumption, IInv, [Next]_vars
  PROVE  IInv'
<1>1. ASSUME NEW t \in Tasks, Step(t)
      PROVE  IInv'
  <2>1. \/ Lookup(t) \/ EvictLruIfNeeded(t) \/ CloseVictim(t) \/ ForgetVictim(t)
        \/ TakeLock(t) \/ Recheck(t) \/ OpenRefused(t) \/ Open(t) \/ InsertConn(t)
        \/ Query(t) \/ CreateDb(t) \/ Insert(t) \/ Unlink(t) \/ RecordBackup(t)
        \/ ArchiveBackup(t) \/ RemoveConn(t) \/ ClearEntries(t) \/ RestoreSource(t) \/ Overwrite(t)
        \/ DumpDb(t) \/ StoreBackup(t)
    BY <1>1 DEF Step
  <2> QED
    BY <2>1, FoundKeeps, EvictKeeps, CloseKeeps, ForgetKeeps, LockKeeps, OpenKeeps, InsertKeeps,
       RunKeeps, StageKeeps, RemoveKeeps, RestoreKeeps
<1>2. ASSUME NEW t \in Tasks,
             StartRequest(t) \/ BackupFails(t) \/ CloseIdle(t) \/ \E d \in Dbs : StartBackup(t, d)
      PROVE  IInv'
  BY <1>2, StartKeeps, RunKeeps
<1>3. CASE UNCHANGED vars
  <2>1. task' = task /\ conns' = conns
    BY <1>3 DEF vars, pool
  <2>2. Taken' = Taken
    BY <2>1 DEF Taken, Pooled, Opening, Db
  <2> QED
    BY <2>1, <2>2, NoneTaken, SamePool DEF IInv
<1> QED
  BY <1>1, <1>2, <1>3, TickKeeps DEF Next

(* However many requests open databases at once, and however long that goes  *)
(* on, the pool passes the cap by one connection for each task but one       *)
(* (get_conn and evict_lru_if_needed, storage/local.rs).                     *)
THEOREM PoolAlwaysBounded == LocalEngineAssumption => (Spec => []PoolBounded)
<1> SUFFICES ASSUME LocalEngineAssumption PROVE Spec => []PoolBounded
  OBVIOUS
<1>1. Init => IInv
  BY Begins
<1>2. IInv /\ [Next]_vars => IInv'
  BY StepKeeps
<1>3. IInv => PoolBounded
  <2> SUFFICES ASSUME IInv PROVE PoolBounded
    OBVIOUS
  <2>1. /\ Cardinality(Pooled) \in Nat /\ Cardinality(Taken) \in Nat /\ Cardinality(Tasks) \in Nat
        /\ MaxActive \in Nat /\ Cardinality(Pooled) <= Cardinality(Taken)
    BY Counted
  <2>2. Cardinality(Taken) <= MaxActive + Cardinality(Tasks) - 1
    BY DEF IInv
  <2>3. Cardinality(Pooled) <= MaxActive + Cardinality(Tasks) - 1
    BY <2>1, <2>2
  <2> QED BY <2>3 DEF PoolBounded
<1> QED
  BY <1>1, <1>2, <1>3, PTL DEF Spec

------------------------------------------------------------------------------(* Answered writes stay reachable, as long as each write and each delete_db  *)
(* works on the file at its database's path (OnCurrentFile): the coordinator *)
(* lets them in one at a time for a database, and everything else - queries, *)
(* backups, restores, evictions and idle closes - runs beside them.          *)

Working(u) == task[u] # Resting
Late == {"remove", "clear", "unlink"}

(* The file at a path is at no other.                                        *)
Placed(d) ==
  /\ file[d] \in 0..Len(content)
  /\ \A e \in Dbs \ {d} : file[d] # 0 => file[e] # file[d]

(* What delete_db will unlink is in its archive backup.                      *)
Archived(u) ==
  task[u].pc \in Late /\ task[u].op = "delete_db" /\ task[u].conn \in 1..Len(content)
    => acked[task[u].conn] \subseteq archived[task[u].conn]

Admitted(u) == Working(u) => Db(u) \in Dbs
Writing(u) == Working(u) /\ task[u].op \in Writes
OneWriter == \A u, v \in Tasks : u # v /\ Writing(u) /\ Writing(v) => Db(u) # Db(v)

Sequence(s) == Len(s) \in Nat /\ s = [i \in 1..Len(s) |-> s[i]]
Logs ==
  /\ Sequence(content) /\ Sequence(acked) /\ Sequence(archived)
  /\ Len(acked) = Len(content) /\ Len(archived) = Len(content)
  /\ file = [d \in Dbs |-> file[d]]

Kept ==
  /\ Logs /\ AckedReachable /\ OneWriter
  /\ \A d \in Dbs : Placed(d)
  /\ \A u \in Tasks : Archived(u) /\ Admitted(u)

------------------------------------------------------------------------------
(* Sequences.                                                                *)

LEMMA Typed ==
  ASSUME NEW s, Sequence(s), NEW x
  PROVE  \E V : s \in Seq(V) /\ x \in V
<1> DEFINE V == {s[i] : i \in 1..Len(s)} \cup {x}
<1>1. s \in [1..Len(s) -> V] /\ Len(s) \in Nat
  BY DEF Sequence
<1>2. s \in Seq(V)
  <2> HIDE DEF V
  <2> QED BY <1>1
<1> QED
  BY <1>2

LEMMA Appended ==
  ASSUME NEW s, Sequence(s), NEW x
  PROVE  /\ Sequence(Append(s, x)) /\ Len(Append(s, x)) = Len(s) + 1
         /\ \A i \in 1..Len(s) : Append(s, x)[i] = s[i]
         /\ Append(s, x)[Len(s) + 1] = x
<1>1. PICK V : s \in Seq(V) /\ x \in V
  BY Typed
<1>2. Append(s, x) \in Seq(V)
  BY <1>1, AppendProperties
<1>3. Sequence(Append(s, x))
  BY <1>2, LenProperties DEF Sequence
<1> QED
  BY <1>1, <1>3, AppendProperties

SetTo(s, f, x) == [s EXCEPT ![f] = x]

LEMMA SetAt ==
  ASSUME NEW s, Sequence(s), NEW f \in 1..Len(s), NEW x
  PROVE  /\ Sequence(SetTo(s, f, x)) /\ Len(SetTo(s, f, x)) = Len(s)
         /\ \A i \in 1..Len(s) : SetTo(s, f, x)[i] = IF i = f THEN x ELSE s[i]
<1>1. PICK V : s \in Seq(V) /\ x \in V
  BY Typed
<1>2. SetTo(s, f, x) \in Seq(V)
  BY <1>1, ExceptSeq DEF SetTo
<1>3. Sequence(SetTo(s, f, x))
  BY <1>2, LenProperties DEF Sequence
<1> QED
  BY <1>1, <1>3, ExceptSeq DEF SetTo

(* Setting an entry that is not there changes nothing.                       *)
LEMMA SetBeyond ==
  ASSUME NEW s, Sequence(s), NEW f, f \notin 1..Len(s), NEW x
  PROVE  SetTo(s, f, x) = s
<1>1. DOMAIN s = 1..Len(s)
  BY DEF Sequence
<1> QED
  BY <1>1 DEF SetTo, Sequence

(* One entry is emptied.                                                     *)
Emptied(s, f) == [g \in DOMAIN s |-> IF g = f THEN {} ELSE s[g]]

LEMMA EmptiedAt ==
  ASSUME NEW s, Sequence(s), NEW f
  PROVE  /\ Sequence(Emptied(s, f)) /\ Len(Emptied(s, f)) = Len(s)
         /\ \A i \in 1..Len(s) : Emptied(s, f)[i] = IF i = f THEN {} ELSE s[i]
<1> DEFINE e == Emptied(s, f)
           V == {e[i] : i \in 1..Len(s)}
<1>1. DOMAIN s = 1..Len(s) /\ Len(s) \in Nat
  BY DEF Sequence
<1>2. e = [g \in 1..Len(s) |-> IF g = f THEN {} ELSE s[g]]
  BY <1>1 DEF Emptied
<1>3. e \in [1..Len(s) -> V]
  BY <1>2
<1> HIDE DEF V
<1>4. e \in Seq(V)
  <2> HIDE DEF e
  <2> QED BY <1>1, <1>3
<1>5. Len(e) = Len(s) /\ Sequence(e)
  <2>1. DOMAIN e = 1..Len(s)
    BY <1>2
  <2> HIDE DEF e
  <2>2. Len(e) \in Nat /\ DOMAIN e = 1..Len(e) /\ e = [i \in 1..Len(e) |-> e[i]]
    BY <1>4, LenProperties
  <2>3. Len(e) = Len(s)
    BY <1>1, <2>1, <2>2
  <2> QED
    BY <2>2, <2>3 DEF Sequence
<1> QED
  BY <1>2, <1>5

------------------------------------------------------------------------------
(* Steps that change no file.                                                *)

Files == <<file, content, acked, archived>>
Beside(t) == \A u \in Tasks \ {t} : task'[u] = task[u]

LEMMA SameWriters ==
  ASSUME Kept, NEW t \in Tasks, Beside(t),
         Working(t)' => /\ Working(t) /\ task'[t].db = task[t].db
                        /\ task'[t].op = task[t].op \/ task'[t].op \notin Writes
  PROVE  OneWriter' /\ \A u \in Tasks : Admitted(u)'
<1>1. \A u \in Tasks : Writing(u)' => Writing(u) /\ task'[u].db = task[u].db
  BY DEF Writing, Working, Writes, Beside
<1>2. OneWriter'
  BY <1>1 DEF Kept, OneWriter, Db
<1>3. \A u \in Tasks : Admitted(u)'
  BY DEF Kept, Admitted, Working, Db, Beside
<1> QED
  BY <1>2, <1>3

LEMMA SameFiles ==
  ASSUME Kept, NEW t \in Tasks, Beside(t), UNCHANGED Files, Archived(t)', OneWriter',
         \A u \in Tasks : Admitted(u)'
  PROVE  Kept'
<1>1. Logs' /\ AckedReachable'
  BY DEF Kept, Logs, AckedReachable, Files, Sequence
<1>2. \A d \in Dbs : Placed(d)'
  BY DEF Kept, Placed, Files
<1>3. \A u \in Tasks : Archived(u)'
  BY DEF Kept, Archived, Files, Beside
<1> QED
  BY <1>1, <1>2, <1>3 DEF Kept

(* A request ends.                                                           *)
LEMMA QuietEnds ==
  ASSUME IInv, Kept, NEW t \in Tasks, Finish(t), UNCHANGED Files
  PROVE  Kept'
<1>1. task'[t] = Resting /\ Beside(t)
  BY DEF Finish, IInv, Whole, Beside
<1>2. Archived(t)' /\ ~Working(t)'
  BY <1>1 DEF Archived, Working, Resting, Late
<1>3. OneWriter' /\ \A u \in Tasks : Admitted(u)'
  BY <1>1, <1>2, SameWriters
<1> QED
  BY <1>1, <1>2, <1>3, SameFiles

(* A request goes on; delete_db keeps the connection whose file it archived. *)
LEMMA QuietGoes ==
  ASSUME IInv, Kept, NEW t \in Tasks, task[t].pc # "idle", Alone(task, task', t), UNCHANGED Files,
         \/ task'[t].pc \notin Late \/ task[t].op # "delete_db"
         \/ task[t].pc \in Late /\ task'[t].conn = task[t].conn
  PROVE  Kept'
<1>1. /\ task'[t].op = task[t].op /\ task'[t].db = task[t].db /\ Working(t) /\ Beside(t)
  BY DEF Alone, Working, Resting, Beside
<1>2. Archived(t)'
  BY <1>1 DEF Kept, Archived, Files
<1>3. OneWriter' /\ \A u \in Tasks : Admitted(u)'
  BY <1>1, SameWriters
<1> QED
  BY <1>1, <1>2, <1>3, SameFiles

(* get_conn, and the steps of a backup.                                      *)
LEMMA ConnSafe ==
  ASSUME IInv, Kept, NEW t \in Tasks,
         \/ Lookup(t) \/ Recheck(t) \/ EvictLruIfNeeded(t) \/ TakeLock(t) \/ CloseVictim(t)
         \/ InsertConn(t) \/ DumpDb(t) \/ StoreBackup(t)
  PROVE  Kept'
<1>1. task[t].pc # "idle" /\ UNCHANGED Files
  BY DEF Lookup, Recheck, Found, EvictLruIfNeeded, TakeLock, CloseVictim, InsertConn, DumpDb,
         StoreBackup, Run, At, OnlyPool, Files
<1>2. \E p \in {"run", "evict", "lock", "open", "close", "recheck", "forget", "store", "record"} :
        Relabels(t, p)
  <2>1. Lookup(t) \/ Recheck(t) => Relabels(t, "run") \/ Relabels(t, "evict")
    BY DEF Lookup, Recheck, Found, Goto, Relabels, PcTo, ConnTo, StageTo
  <2>2. EvictLruIfNeeded(t) => Relabels(t, AfterEviction(t)) \/ Relabels(t, "close")
    BY DEF EvictLruIfNeeded, Goto, Relabels, PcTo, VictimTo
  <2>3. TakeLock(t) => Relabels(t, "recheck")
    BY DEF TakeLock, Relabels, PcTo, StageTo, LockTo
  <2>4. CloseVictim(t) => Relabels(t, "forget")
    BY DEF CloseVictim, Goto, Relabels, PcTo
  <2>5. InsertConn(t) => Relabels(t, "run")
    BY DEF InsertConn, Relabels, PcTo, StageTo
  <2>6. DumpDb(t) \/ StoreBackup(t) => Relabels(t, "store") \/ Relabels(t, "record")
    BY DEF DumpDb, StoreBackup, Goto, Relabels, PcTo, DumpTo
  <2> QED
    BY <2>1, <2>2, <2>3, <2>4, <2>5, <2>6 DEF AfterEviction
<1>3. Alone(task, task', t) /\ task'[t].pc \notin Late
  BY <1>1, <1>2, Relabelled DEF Late
<1> QED
  BY <1>1, <1>3, QuietGoes

(* Requests that end and change no file, the victim that is forgotten and    *)
(* the source of a restore.                                                  *)
LEMMA EndSafe ==
  ASSUME IInv, Kept, NEW t \in Tasks,
         \/ OpenRefused(t) \/ Query(t) \/ CreateDb(t) \/ RecordBackup(t) \/ BackupFails(t)
         \/ ForgetVictim(t) \/ RestoreSource(t)
  PROVE  Kept'
<1>1. task[t].pc # "idle" /\ UNCHANGED Files
  BY DEF OpenRefused, Query, CreateDb, RecordBackup, BackupFails, ForgetVictim, RestoreSource, Run,
         At, OnlyPool, Files
<1>2. CASE Finish(t)
  BY <1>1, <1>2, QuietEnds
<1>3. CASE ~Finish(t)
  <2>1. \/ Relabels(t, "lock") \/ Relabels(t, "open")
        \/ Relabels(t, "remove") /\ task[t].op = "restore_backup"
    BY <1>3 DEF OpenRefused, Query, CreateDb, RecordBackup, BackupFails, ForgetVictim, RestoreSource,
                Run, AfterEviction, Relabels, PcTo, VictimTo, DumpTo
  <2>2. /\ Alone(task, task', t)
        /\ task'[t].pc \notin Late \/ task[t].op # "delete_db"
    BY <1>1, <2>1, Relabelled DEF Late
  <2> QED
    BY <1>1, <2>2, QuietGoes
<1> QED
  BY <1>2, <1>3

(* delete_db clears the pool and what is remembered of the database.         *)
LEMMA RemoveSafe ==
  ASSUME IInv, Kept, NEW t \in Tasks, RemoveConn(t) \/ ClearEntries(t)
  PROVE  Kept'
<1>1. task[t].pc \in Late /\ task[t].pc # "idle" /\ UNCHANGED Files
  BY DEF RemoveConn, ClearEntries, At, OnlyPool, Files, Late
<1>2. \E p : task' = PcTo(task, t, p)
  BY DEF RemoveConn, ClearEntries, Goto, PcTo
<1>3. Alone(task, task', t) /\ task'[t].conn = task[t].conn
  BY <1>1, <1>2, AtWorkAt, PcAlone
<1> QED
  BY <1>1, <1>3, QuietGoes

------------------------------------------------------------------------------
(* Steps that change a file.                                                 *)

(* A new file at the path of the database, as get_conn creates one and a     *)
(* restore puts one; a restore gives up what the old file had.               *)
NewFile(d, x) ==
  /\ file' = [file EXCEPT ![d] = Len(content) + 1]
  /\ content' = Append(content, x) /\ archived' = Append(archived, {})
  /\ \/ acked' = Append(acked, x) /\ file[d] = 0
     \/ acked' = Append(Emptied(acked, file[d]), x)

LEMMA NewFileSafe ==
  ASSUME Kept, OnCurrentFile, NEW d \in Dbs, NEW x, NewFile(d, x), NEW t \in Tasks, Beside(t),
         task'[t].pc \notin Late, OneWriter', \A u \in Tasks : Admitted(u)'
  PROVE  Kept'
<1> DEFINE new == Len(content) + 1
<1>1. /\ Sequence(content) /\ Sequence(acked) /\ Sequence(archived) /\ Len(content) \in Nat
      /\ Len(acked) = Len(content) /\ Len(archived) = Len(content)
      /\ \A e \in Dbs : file[e] \in 0..Len(content)
  BY DEF Kept, Logs, Sequence, Placed
<1>2. /\ Sequence(content') /\ Len(content') = new /\ content'[new] = x
      /\ \A i \in 1..Len(content) : content'[i] = content[i]
  BY <1>1, Appended DEF NewFile
<1>3. /\ Sequence(archived') /\ Len(archived') = new
      /\ \A i \in 1..Len(content) : archived'[i] = archived[i]
  BY <1>1, Appended DEF NewFile
<1>4. /\ Sequence(acked') /\ Len(acked') = new /\ acked'[new] = x
      /\ \A i \in 1..Len(content) : acked'[i] = IF i = file[d] THEN {} ELSE acked[i]
  <2>1. CASE acked' = Append(acked, x) /\ file[d] = 0
    <3>1. \A i \in 1..Len(content) : i # 0
      BY <1>1
    <3> QED
      BY <1>1, <2>1, <3>1, Appended
  <2>2. CASE acked' = Append(Emptied(acked, file[d]), x)
    <3> DEFINE s == Emptied(acked, file[d])
    <3>1. /\ Sequence(s) /\ Len(s) = Len(content)
          /\ \A i \in 1..Len(content) : s[i] = IF i = file[d] THEN {} ELSE acked[i]
      BY <1>1, EmptiedAt
    <3>2. acked' = Append(s, x)
      BY <2>2
    <3> HIDE DEF s
    <3> QED
      BY <3>1, <3>2, Appended
  <2> QED
    BY <2>1, <2>2 DEF NewFile
<1>5. /\ file' = [e \in Dbs |-> file'[e]] /\ file'[d] = new
      /\ \A e \in Dbs \ {d} : file'[e] = file[e]
  BY DEF Kept, Logs, NewFile
<1>6. new \in Nat /\ new # 0 /\ (\A i \in 0..Len(content) : i # new /\ i \in 0..new)
      /\ new \in 0..new /\ \A i \in 1..new : i # new => i \in 1..Len(content) /\ i # 0
  BY <1>1
<1> HIDE DEF new
<1>7. Logs'
  <2>1. Sequence(content)' /\ Sequence(acked)' /\ Sequence(archived)'
    BY <1>2, <1>3, <1>4 DEF Sequence
  <2> QED
    BY <1>2, <1>3, <1>4, <1>5, <2>1 DEF Logs
<1>8. AckedReachable'
  <2> SUFFICES ASSUME NEW i \in DOMAIN acked'
               PROVE  acked'[i] \subseteq (IF \E e \in Dbs : file'[e] = i THEN content'[i] ELSE archived'[i])
    BY DEF AckedReachable
  <2>1. i \in 1..new
    BY <1>4 DEF Sequence
  <2>2. CASE i = new
    BY <1>2, <1>4, <1>5, <2>2
  <2>3. CASE i # new
    <3>1. i \in 1..Len(content) /\ i # 0
      BY <1>6, <2>1, <2>3
    <3>2. CASE i = file[d]
      BY <1>4, <3>1, <3>2
    <3>3. CASE i # file[d]
      <4>1. (\E e \in Dbs : file'[e] = i) <=> (\E e \in Dbs : file[e] = i)
        BY <1>5, <2>3, <3>3
      <4>2. i \in DOMAIN acked
        BY <1>1, <3>1 DEF Sequence
      <4>3. acked[i] \subseteq (IF \E e \in Dbs : file[e] = i THEN content[i] ELSE archived[i])
        BY <4>2 DEF Kept, AckedReachable
      <4> QED
        BY <1>2, <1>3, <1>4, <3>1, <3>3, <4>1, <4>3
    <3> QED
      BY <3>2, <3>3
  <2> QED
    BY <2>2, <2>3
<1>9. ASSUME NEW e \in Dbs PROVE Placed(e)'
  <2>1. file'[e] \in 0..Len(content')
    BY <1>1, <1>2, <1>5, <1>6
  <2>2. \A g \in Dbs \ {e} : file'[e] # 0 => file'[g] # file'[e]
    BY <1>1, <1>5, <1>6 DEF Kept, Placed
  <2> QED
    BY <2>1, <2>2 DEF Placed
<1>10. ASSUME NEW u \in Tasks PROVE Archived(u)'
  <2>1. CASE u = t
    BY <2>1 DEF Archived
  <2>2. CASE u # t
    <3> SUFFICES ASSUME task[u].pc \in Late, task[u].op = "delete_db", task[u].conn \in 1..new
                 PROVE  acked'[task[u].conn] \subseteq archived'[task[u].conn]
      BY <1>2, <2>2 DEF Archived, Beside
    <3>1. Archived(u) /\ Db(u) \in Dbs
      BY DEF Kept, Admitted, Working, Resting, Late
    <3>2. task[u].conn = file[Db(u)]
      BY DEF OnCurrentFile, Writes, Late
    <3>3. task[u].conn \in 1..Len(content)
      BY <1>1, <1>6, <3>1, <3>2
    <3> QED
      BY <1>3, <1>4, <3>1, <3>3 DEF Archived
  <2> QED
    BY <2>1, <2>2
<1> QED
  BY <1>7, <1>8, <1>9, <1>10 DEF Kept

LEMMA OpenSafe ==
  ASSUME IInv, Kept, OnCurrentFile, NEW t \in Tasks, Open(t)
  PROVE  Kept'
<1>1. task[t].pc # "idle"
  BY DEF Open, At
<1>2. Relabels(t, "insert") /\ (NewFile(Db(t), {}) \/ UNCHANGED Files)
  BY DEF Open, Relabels, PcTo, ConnTo, NewFile, Files
<1>3. Alone(task, task', t) /\ task'[t].pc \notin Late
  BY <1>1, <1>2, Relabelled DEF Late
<1>4. CASE UNCHANGED Files
  BY <1>1, <1>3, <1>4, QuietGoes
<1>5. CASE NewFile(Db(t), {})
  <2>1. Beside(t) /\ Working(t) /\ task'[t].op = task[t].op /\ task'[t].db = task[t].db
    BY <1>1, <1>3 DEF Alone, Beside, Working, Resting
  <2>2. OneWriter' /\ \A u \in Tasks : Admitted(u)'
    BY <2>1, SameWriters
  <2>3. Db(t) \in Dbs
    BY <2>1 DEF Kept, Admitted
  <2> QED
    BY <1>3, <1>5, <2>1, <2>2, <2>3, NewFileSafe
<1> QED
  BY <1>2, <1>4, <1>5

LEMMA OverwriteSafe ==
  ASSUME IInv, Kept, OnCurrentFile, NEW t \in Tasks, Overwrite(t)
  PROVE  Kept'
<1> DEFINE r == Task("query", Db(t), task[t].n)
<1>1. Working(t) /\ NewFile(Db(t), task[t].dump) /\ task' = [task EXCEPT ![t] = r]
  BY DEF Overwrite, NewFile, Emptied, At, Working, Resting
<1>2. r.pc = "lookup" /\ r.op = "query" /\ r.db = task[t].db
  BY DEF Task, Db
<1> HIDE DEF r
<1>3. Beside(t) /\ task'[t] = r
  BY <1>1 DEF IInv, Whole, Beside
<1>4. OneWriter' /\ \A u \in Tasks : Admitted(u)'
  BY <1>1, <1>2, <1>3, SameWriters DEF Writes
<1>5. Db(t) \in Dbs
  BY <1>1 DEF Kept, Admitted
<1> QED
  BY <1>1, <1>2, <1>3, <1>4, <1>5, NewFileSafe DEF Late

LEMMA InsertSafe ==
  ASSUME IInv, Kept, OnCurrentFile, NEW t \in Tasks, Insert(t)
  PROVE  Kept'
<1> DEFINE d == Db(t)
           f == task[t].conn
           n == task[t].n
<1>1. /\ task[t].pc = "run" /\ Writing(t) /\ UNCHANGED <<file, archived>>
  BY DEF Insert, Run, At, Working, Writing, Writes, Resting
<1>2. d \in Dbs /\ f = file[d]
  BY <1>1 DEF Kept, Admitted, Writing, OnCurrentFile
<1>3. /\ Len(content) \in Nat /\ Len(acked) = Len(content) /\ Len(archived) = Len(content)
      /\ Sequence(content) /\ Sequence(acked)
  BY DEF Kept, Logs, Sequence
<1>4. content' = SetTo(content, f, content[f] \cup {n}) /\ acked' = SetTo(acked, f, acked[f] \cup {n})
  BY DEF Insert, SetTo
<1>5. task'[t] = Resting /\ Beside(t)
  BY DEF Insert, Finish, IInv, Whole, Beside
<1>6. ~Working(t)' /\ Archived(t)'
  BY <1>5 DEF Working, Archived, Resting, Late
<1>7. OneWriter' /\ \A u \in Tasks : Admitted(u)'
  BY <1>5, <1>6, SameWriters
<1> HIDE DEF d, f, n
<1>8. CASE f \notin 1..Len(content)
  <2>1. content' = content /\ acked' = acked
    BY <1>3, <1>4, <1>8, SetBeyond
  <2> QED
    BY <1>1, <1>5, <1>6, <1>7, <2>1, SameFiles DEF Files
<1>9. CASE f \in 1..Len(content)
  <2>1. /\ Sequence(content') /\ Len(content') = Len(content)
        /\ \A i \in 1..Len(content) : content'[i] = IF i = f THEN content[f] \cup {n} ELSE content[i]
    <3> DEFINE x == content[f] \cup {n}
    <3>1. content' = SetTo(content, f, x)
      BY <1>4
    <3> HIDE DEF x
    <3>2. /\ Sequence(content') /\ Len(content') = Len(content)
          /\ \A i \in 1..Len(content) : content'[i] = IF i = f THEN x ELSE content[i]
      BY <1>3, <1>9, <3>1, SetAt
    <3> QED
      BY <3>2 DEF x
  <2>2. /\ Sequence(acked') /\ Len(acked') = Len(content)
        /\ \A i \in 1..Len(content) : acked'[i] = IF i = f THEN acked[f] \cup {n} ELSE acked[i]
    <3> DEFINE x == acked[f] \cup {n}
    <3>1. acked' = SetTo(acked, f, x)
      BY <1>4
    <3> HIDE DEF x
    <3>2. /\ Sequence(acked') /\ Len(acked') = Len(acked)
          /\ \A i \in 1..Len(acked) : acked'[i] = IF i = f THEN x ELSE acked[i]
      BY <1>3, <1>9, <3>1, SetAt
    <3> QED
      BY <1>3, <3>2 DEF x
  <2>3. Logs'
    BY <1>1, <2>1, <2>2 DEF Kept, Logs, Sequence
  <2>4. AckedReachable'
    <3> SUFFICES ASSUME NEW i \in DOMAIN acked'
                 PROVE  acked'[i] \subseteq (IF \E e \in Dbs : file'[e] = i THEN content'[i] ELSE archived'[i])
      BY DEF AckedReachable
    <3>1. i \in 1..Len(content) /\ i \in DOMAIN acked
      BY <1>3, <2>2 DEF Sequence
    <3>2. acked[i] \subseteq (IF \E e \in Dbs : file[e] = i THEN content[i] ELSE archived[i])
      BY <3>1 DEF Kept, AckedReachable
    <3>3. CASE i = f
      <4>1. \E e \in Dbs : file[e] = i
        BY <1>2, <3>3
      <4> QED
        BY <1>1, <1>9, <2>1, <2>2, <3>2, <3>3, <4>1
    <3>4. CASE i # f
      BY <1>1, <2>1, <2>2, <3>1, <3>2, <3>4
    <3> QED
      BY <3>3, <3>4
  <2>5. \A e \in Dbs : Placed(e)'
    BY <1>1, <2>1 DEF Kept, Placed
  <2>6. ASSUME NEW u \in Tasks, u # t PROVE Archived(u)'
    <3> SUFFICES ASSUME task[u].pc \in Late, task[u].op = "delete_db", task[u].conn \in 1..Len(content)
                 PROVE  acked'[task[u].conn] \subseteq archived[task[u].conn]
      BY <1>1, <1>5, <2>1, <2>6 DEF Archived, Beside
    <3>1. Writing(u) /\ Db(u) \in Dbs /\ Archived(u)
      BY DEF Writing, Working, Resting, Late, Writes, Kept, Admitted
    <3>2. Db(u) # d
      BY <1>1, <2>6, <3>1 DEF Kept, OneWriter, d
    <3>3. task[u].conn = file[Db(u)]
      BY DEF OnCurrentFile, Writes, Late
    <3>4. task[u].conn # f
      <4>1. task[u].conn # 0
        BY <1>3
      <4> QED
        BY <1>2, <3>1, <3>2, <3>3, <4>1 DEF Kept, Placed
    <3> QED
      BY <2>2, <3>1, <3>4 DEF Archived
  <2> QED
    BY <1>6, <1>7, <2>3, <2>4, <2>5, <2>6 DEF Kept
<1> QED
  BY <1>8, <1>9

LEMMA ArchiveSafe ==
  ASSUME IInv, Kept, OnCurrentFile, NEW t \in Tasks, ArchiveBackup(t)
  PROVE  Kept'
<1> DEFINE f == task[t].conn
<1>1. /\ task[t].pc = "run" /\ task[t].op = "delete_db" /\ Working(t)
      /\ UNCHANGED <<file, content, acked>>
  BY DEF ArchiveBackup, Run, At, Working, Resting
<1>2. Db(t) \in Dbs /\ f = file[Db(t)]
  BY <1>1 DEF Kept, Admitted, OnCurrentFile, Writes
<1>3. /\ Len(content) \in Nat /\ Len(acked) = Len(content) /\ Len(archived) = Len(content)
      /\ Sequence(archived) /\ Sequence(acked)
  BY DEF Kept, Logs, Sequence
<1>4. archived' = SetTo(archived, f, content[f])
  BY DEF ArchiveBackup, SetTo
<1>5. Alone(task, task', t) /\ task'[t].conn = f
  <2>1. task' = PcTo(task, t, "remove")
    BY DEF ArchiveBackup, Goto, PcTo
  <2> QED
    BY <1>1, <2>1, AtWorkAt, PcAlone
<1>6. Beside(t) /\ task'[t].op = task[t].op /\ task'[t].db = task[t].db
  BY <1>5 DEF Alone, Beside
<1>7. OneWriter' /\ \A u \in Tasks : Admitted(u)'
  BY <1>1, <1>6, SameWriters
<1> HIDE DEF f
<1>8. /\ Sequence(archived') /\ Len(archived') = Len(content)
      /\ \A i \in 1..Len(content) : archived'[i] = IF i = f THEN content[f] ELSE archived[i]
  <2> DEFINE x == content[f]
  <2>1. archived' = SetTo(archived, f, x)
    BY <1>4
  <2> HIDE DEF x
  <2>2. CASE f \in 1..Len(content)
    <3>1. /\ Sequence(archived') /\ Len(archived') = Len(archived)
          /\ \A i \in 1..Len(archived) : archived'[i] = IF i = f THEN x ELSE archived[i]
      BY <1>3, <2>1, <2>2, SetAt
    <3> QED
      BY <1>3, <3>1 DEF x
  <2>3. CASE f \notin 1..Len(content)
    BY <1>3, <2>1, <2>3, SetBeyond
  <2> QED
    BY <2>2, <2>3
<1>9. ASSUME NEW i \in 1..Len(content), acked[i] \subseteq archived[i] \/ i = f
      PROVE  acked'[i] \subseteq archived'[i]
  <2>1. i \in DOMAIN acked
    BY <1>3 DEF Sequence
  <2>2. i = f => acked[i] \subseteq content[i]
    BY <1>2, <2>1 DEF Kept, AckedReachable
  <2> QED
    BY <1>1, <1>8, <1>9, <2>2
<1>10. Logs'
  BY <1>1, <1>8 DEF Kept, Logs, Sequence
<1>11. AckedReachable'
  <2> SUFFICES ASSUME NEW i \in DOMAIN acked
               PROVE  acked[i] \subseteq (IF \E e \in Dbs : file[e] = i THEN content[i] ELSE archived'[i])
    BY <1>1 DEF AckedReachable
  <2>1. i \in 1..Len(content)
    BY <1>3 DEF Sequence
  <2> QED
    BY <1>1, <1>9, <2>1 DEF Kept, AckedReachable
<1>12. \A e \in Dbs : Placed(e)'
  BY <1>1 DEF Kept, Placed
<1>13. ASSUME NEW u \in Tasks PROVE Archived(u)'
  <2>1. CASE u = t
    BY <1>1, <1>5, <1>9, <2>1 DEF Archived
  <2>2. CASE u # t
    <3>1. Archived(u) /\ task'[u] = task[u]
      BY <1>6, <2>2 DEF Kept, Beside
    <3> QED
      BY <1>1, <1>9, <3>1 DEF Archived
  <2> QED
    BY <2>1, <2>2
<1> QED
  BY <1>7, <1>10, <1>11, <1>12, <1>13 DEF Kept

LEMMA UnlinkSafe ==
  ASSUME IInv, Kept, OnCurrentFile, NEW t \in Tasks, Unlink(t), task[t].op = "delete_db"
  PROVE  Kept'
<1> DEFINE d == Db(t)
           f == file[d]
<1>1. /\ task[t].pc = "unlink" /\ Working(t) /\ UNCHANGED <<content, acked, archived>>
      /\ file' = [file EXCEPT ![d] = 0]
  BY DEF Unlink, At, Working, Resting
<1>2. /\ d \in Dbs /\ task[t].conn = f
      /\ f \in 1..Len(content) => acked[f] \subseteq archived[f]
  BY <1>1 DEF Kept, Admitted, Archived, Late, OnCurrentFile, Writes
<1>3. task'[t] = Resting /\ Beside(t)
  BY DEF Unlink, Finish, IInv, Whole, Beside
<1>4. ~Working(t)' /\ Archived(t)'
  BY <1>3 DEF Working, Archived, Resting, Late
<1>5. OneWriter' /\ \A u \in Tasks : Admitted(u)'
  BY <1>3, <1>4, SameWriters
<1>6. /\ file' = [e \in Dbs |-> file'[e]] /\ file'[d] = 0
      /\ \A e \in Dbs \ {d} : file'[e] = file[e] /\ (f # 0 => file[e] # f)
  BY <1>1, <1>2 DEF Kept, Logs, Placed
<1> HIDE DEF d, f
<1>7. Logs'
  BY <1>1, <1>6 DEF Kept, Logs, Sequence
<1>8. AckedReachable'
  <2> SUFFICES ASSUME NEW i \in DOMAIN acked
               PROVE  acked[i] \subseteq (IF \E e \in Dbs : file'[e] = i THEN content[i] ELSE archived[i])
    BY <1>1 DEF AckedReachable
  <2>1. acked[i] \subseteq (IF \E e \in Dbs : file[e] = i THEN content[i] ELSE archived[i])
    BY DEF Kept, AckedReachable
  <2>2. i \in 1..Len(content) /\ i # 0
    BY DEF Kept, Logs, Sequence
  <2>3. CASE i = f
    <3>1. \A e \in Dbs : file'[e] # i
      BY <1>6, <2>2, <2>3
    <3> QED
      BY <1>2, <2>2, <2>3, <3>1
  <2>4. CASE i # f
    <3>1. (\E e \in Dbs : file'[e] = i) <=> (\E e \in Dbs : file[e] = i)
      BY <1>6, <2>2, <2>4 DEF f
    <3> QED
      BY <2>1, <3>1
  <2> QED
    BY <2>3, <2>4
<1>9. ASSUME NEW e \in Dbs PROVE Placed(e)'
  <2>1. Placed(e) /\ Len(content) \in Nat
    BY DEF Kept, Logs, Sequence
  <2> QED
    BY <1>1, <1>6, <2>1 DEF Placed
<1>10. ASSUME NEW u \in Tasks PROVE Archived(u)'
  <2>1. CASE u = t
    BY <1>4, <2>1
  <2>2. CASE u # t
    <3>1. Archived(u) /\ task'[u] = task[u]
      BY <1>3, <2>2 DEF Kept, Beside
    <3> QED
      BY <1>1, <3>1 DEF Archived
  <2> QED
    BY <2>1, <2>2
<1> QED
  BY <1>5, <1>7, <1>8, <1>9, <1>10 DEF Kept

------------------------------------------------------------------------------

(* What may begin, of a database that no writing task is at if it writes.    *)
Fits(r) ==
  /\ r.db \in Dbs /\ r.pc \in {"lookup", "close"}
  /\ r.op \in Writes => \A u \in Tasks : Working(u) /\ Db(u) = r.db => task[u].op \notin Writes

(* A request, a backup or an idle close begins.                              *)
LEMMA StartSafe ==
  ASSUME Coordinated, IInv, Kept, NEW t \in Tasks,
         StartRequest(t) \/ CloseIdle(t) \/ \E d \in Dbs : StartBackup(t, d)
  PROVE  Kept'
<1>1. UNCHANGED Files
  BY DEF StartRequest, CloseIdle, StartBackup, OnlyPool, Files
<1>2. PICK r : task' = [task EXCEPT ![t] = r] /\ Fits(r)
  <2>1. ASSUME NEW op, NEW d, NEW n
        PROVE  Task(op, d, n).db = d /\ Task(op, d, n).pc = "lookup" /\ Task(op, d, n).op = op
    BY DEF Task
  <2>2. CASE StartRequest(t)
    <3>1. PICK op \in Operations, d \in Dbs :
            /\ op \in Writes /\ Coordinated =>
                 \A u \in Tasks : task[u] # Resting /\ task[u].db = d => task[u].op \notin Writes
            /\ task' = [task EXCEPT ![t] = Task(op, d, requests + 1)]
      BY <2>2 DEF StartRequest
    <3> DEFINE r == Task(op, d, requests + 1)
    <3>2. r.db = d /\ r.pc = "lookup" /\ r.op = op
      BY <2>1
    <3>3. task' = [task EXCEPT ![t] = r]
      BY <3>1
    <3> HIDE DEF r
    <3>4. Fits(r)
      BY <3>1, <3>2 DEF Fits, Working, Db
    <3> QED
      BY <3>3, <3>4
  <2>3. CASE CloseIdle(t)
    <3>1. PICK d \in Dbs :
            task' = [task EXCEPT ![t] = [Task("close_idle", d, 0) EXCEPT !.pc = "close", !.victim = d]]
      BY <2>3 DEF CloseIdle
    <3> DEFINE r == [Task("close_idle", d, 0) EXCEPT !.pc = "close", !.victim = d]
    <3>2. r.db = d /\ r.pc = "close" /\ r.op = "close_idle"
      BY DEF Task
    <3>3. task' = [task EXCEPT ![t] = r]
      BY <3>1
    <3> HIDE DEF r
    <3> QED
      BY <3>2, <3>3 DEF Fits, Writes
  <2>4. CASE \E d \in Dbs : StartBackup(t, d)
    <3>1. PICK d \in Dbs : task' = [task EXCEPT ![t] = Task("backup", d, 0)]
      BY <2>4 DEF StartBackup
    <3> DEFINE r == Task("backup", d, 0)
    <3>2. r.db = d /\ r.pc = "lookup" /\ r.op = "backup"
      BY <2>1
    <3>3. task' = [task EXCEPT ![t] = r]
      BY <3>1
    <3> HIDE DEF r
    <3> QED
      BY <3>2, <3>3 DEF Fits, Writes
  <2> QED
    BY <2>2, <2>3, <2>4
<1>3. task'[t] = r /\ Beside(t)
  BY <1>2 DEF IInv, Whole, Beside
<1>4. Archived(t)'
  BY <1>2, <1>3 DEF Archived, Fits, Late
<1>5. \A u \in Tasks : Admitted(u)'
  BY <1>2, <1>3 DEF Kept, Admitted, Working, Db, Fits, Beside
<1>6. OneWriter'
  <2> SUFFICES ASSUME NEW u \in Tasks, NEW v \in Tasks, u # v, Writing(u)', Writing(v)'
               PROVE  task'[u].db # task'[v].db
    BY DEF OneWriter, Db
  <2>1. ASSUME NEW w \in Tasks \ {t}, Writing(w)'
        PROVE  Writing(w) /\ task'[w].db = Db(w)
    BY <1>3, <2>1 DEF Writing, Working, Db, Beside
  <2>2. ASSUME NEW w \in Tasks \ {t}, Writing(w)', Writing(t)'
        PROVE  task'[w].db # task'[t].db
    <3>1. r.op \in Writes /\ task'[t].db = r.db
      BY <1>2, <1>3, <2>2 DEF Writing, Fits
    <3>2. Writing(w) /\ task'[w].db = Db(w)
      BY <2>1, <2>2
    <3> QED
      BY <1>2, <3>1, <3>2 DEF Writing, Fits
  <2>3. CASE u = t
    BY <2>2, <2>3
  <2>4. CASE v = t
    BY <2>2, <2>4
  <2>5. CASE u # t /\ v # t
    BY <2>1, <2>5 DEF Kept, OneWriter
  <2> QED
    BY <2>3, <2>4, <2>5
<1> QED
  BY <1>1, <1>3, <1>4, <1>5, <1>6, SameFiles

LEMMA TickSafe ==
  ASSUME IInv, Kept, Tick
  PROVE  Kept'
<1>1. UNCHANGED Files
  BY DEF Tick, Files
<1>2. ASSUME NEW u \in Tasks
      PROVE  /\ Working(u)' => Working(u)
             /\ task'[u].pc = task[u].pc /\ task'[u].op = task[u].op
             /\ task'[u].db = task[u].db /\ task'[u].conn = task[u].conn
  <2>1. task[u] = Resting \/ AtWork(task[u])
    BY DEF IInv, Whole
  <2>2. \/ task'[u] = task[u]
        \/ AtWork(task[u]) /\ Working(u) /\ \E x : task'[u] = [task[u] EXCEPT !.n = x]
    BY <2>1 DEF Tick, Working
  <2>3. ASSUME NEW x, AtWork(task[u]), task'[u] = [task[u] EXCEPT !.n = x]
        PROVE  /\ task'[u].pc = task[u].pc /\ task'[u].op = task[u].op
               /\ task'[u].db = task[u].db /\ task'[u].conn = task[u].conn
    <3> DEFINE q == task[u]
               r == [q EXCEPT !.n = x]
    <3>1. AtWork(q)
      BY <2>3
    <3> HIDE DEF q
    <3>2. r.pc = q.pc /\ r.op = q.op /\ r.db = q.db /\ r.conn = q.conn
      BY <3>1, OneN
    <3>3. task'[u] = r
      BY <2>3 DEF q
    <3> HIDE DEF r
    <3> QED
      BY <3>2, <3>3 DEF q
  <2> QED
    BY <2>2, <2>3 DEF Working
<1>3. Logs' /\ AckedReachable' /\ \A d \in Dbs : Placed(d)'
  BY <1>1 DEF Kept, Logs, AckedReachable, Files, Sequence, Placed
<1>4. \A u \in Tasks : Archived(u)'
  BY <1>1, <1>2 DEF Kept, Archived, Files
<1>5. \A u \in Tasks : Admitted(u)'
  BY <1>2 DEF Kept, Admitted, Db
<1>6. OneWriter'
  <2>1. \A u \in Tasks : Writing(u)' => Writing(u) /\ task'[u].db = Db(u)
    BY <1>2 DEF Writing, Db
  <2> QED
    BY <2>1 DEF Kept, OneWriter, Db
<1> QED
  BY <1>3, <1>4, <1>5, <1>6 DEF Kept

LEMMA KeptAtFirst ==
  ASSUME Init
  PROVE  Kept
<1>1. \A t \in Tasks : task[t] = Resting /\ task[t].pc = "idle"
  BY DEF Init, Resting
<1>2. Logs /\ Len(content) = 0
  <2>1. content = <<>> /\ acked = <<>> /\ archived = <<>> /\ file = [d \in Dbs |-> 0]
    BY DEF Init
  <2>2. Sequence(<<>>) /\ Len(<<>>) = 0
    BY DEF Sequence
  <2> QED
    BY <2>1, <2>2 DEF Logs
<1>3. AckedReachable
  BY DEF Init, AckedReachable
<1>4. \A d \in Dbs : Placed(d)
  BY <1>2 DEF Init, Placed
<1>5. \A t \in Tasks : Archived(t) /\ Admitted(t) /\ ~Working(t)
  BY <1>1 DEF Archived, Admitted, Working, Late
<1> QED
  BY <1>2, <1>3, <1>4, <1>5 DEF Kept, OneWriter, Writing

(* Only delete_db comes to unlink.                                           *)
Unlinking == \A t \in Tasks : task[t].pc \in {"clear", "unlink"} => task[t].op = "delete_db"

LEMMA UnlinkingKept ==
  ASSUME IInv, Unlinking, Next
  PROVE  Unlinking'
<1>1. CASE Tick
  <2> SUFFICES ASSUME NEW t \in Tasks, task'[t].pc \in {"clear", "unlink"}
               PROVE  task'[t].op = "delete_db"
    BY DEF Unlinking
  <2>1. task[t] = Resting \/ AtWork(task[t])
    BY DEF IInv, Whole
  <2>2. \/ task'[t] = task[t]
        \/ AtWork(task[t]) /\ \E x : task'[t] = [task[t] EXCEPT !.n = x]
    BY <1>1, <2>1 DEF Tick
  <2>3. task'[t].pc = task[t].pc /\ task'[t].op = task[t].op
    <3> DEFINE q == task[t]
    <3>1. ASSUME NEW x, AtWork(q) PROVE [q EXCEPT !.n = x].pc = q.pc /\ [q EXCEPT !.n = x].op = q.op
      <4> DEFINE r == [q EXCEPT !.n = x]
      <4>1. AtWork(q)
        BY <3>1
      <4> HIDE DEF q
      <4> QED
        BY <4>1, OneN
    <3> QED
      BY <2>2, <3>1
  <2> QED
    BY <2>3 DEF Unlinking
<1>2. CASE \E t \in Tasks : Step(t) \/ StartRequest(t) \/ BackupFails(t) \/ CloseIdle(t)
                             \/ \E d \in Dbs : StartBackup(t, d)
  <2>1. PICK t \in Tasks : Step(t) \/ StartRequest(t) \/ BackupFails(t) \/ CloseIdle(t)
                             \/ \E d \in Dbs : StartBackup(t, d)
    BY <1>2
  <2>2. CASE Finish(t)
    BY <2>2 DEF Finish, Resting, Unlinking, IInv, Whole
  <2>3. CASE \E r : task' = [task EXCEPT ![t] = r] /\ r.pc \in {"lookup", "close"}
    BY <2>3 DEF Unlinking, IInv, Whole
  <2>4. CASE \E p : task[t].pc # "idle" /\ Relabels(t, p) /\ (p \in {"clear", "unlink"} => task[t].op = "delete_db")
    <3>1. PICK p : /\ task[t].pc # "idle" /\ Relabels(t, p)
                   /\ p \in {"clear", "unlink"} => task[t].op = "delete_db"
      BY <2>4
    <3>2. Alone(task, task', t) /\ task'[t].pc = p
      BY <3>1, Relabelled
    <3> QED
      BY <3>1, <3>2 DEF Unlinking, Alone
  <2>5. \/ Finish(t)
        \/ \E r : task' = [task EXCEPT ![t] = r] /\ r.pc \in {"lookup", "close"}
        \/ \E p : task[t].pc # "idle" /\ Relabels(t, p) /\ (p \in {"clear", "unlink"} => task[t].op = "delete_db")
    <3>1. CASE StartRequest(t) \/ CloseIdle(t) \/ (\E d \in Dbs : StartBackup(t, d)) \/ Overwrite(t)
      <4>1. \/ \E op, d, n : task' = [task EXCEPT ![t] = Task(op, d, n)]
            \/ \E d : task' = [task EXCEPT ![t] = [Task("close_idle", d, 0) EXCEPT !.pc = "close", !.victim = d]]
        BY <3>1 DEF StartRequest, CloseIdle, StartBackup, Overwrite
      <4>2. ASSUME NEW op, NEW d, NEW n, task' = [task EXCEPT ![t] = Task(op, d, n)]
            PROVE  \E r : task' = [task EXCEPT ![t] = r] /\ r.pc \in {"lookup", "close"}
        <5> DEFINE r == Task(op, d, n)
        <5>1. r.pc = "lookup"
          BY NewTask
        <5>2. task' = [task EXCEPT ![t] = r]
          BY <4>2
        <5> HIDE DEF r
        <5> QED
          BY <5>1, <5>2
      <4>3. ASSUME NEW d,
                   task' = [task EXCEPT ![t] = [Task("close_idle", d, 0) EXCEPT !.pc = "close", !.victim = d]]
            PROVE  \E r : task' = [task EXCEPT ![t] = r] /\ r.pc \in {"lookup", "close"}
        <5> DEFINE r == [Task("close_idle", d, 0) EXCEPT !.pc = "close", !.victim = d]
        <5>1. r.pc = "close"
          BY DEF Task
        <5>2. task' = [task EXCEPT ![t] = r]
          BY <4>3
        <5> HIDE DEF r
        <5> QED
          BY <5>1, <5>2
      <4> QED
        BY <4>1, <4>2, <4>3
    <3>2. CASE \/ OpenRefused(t) \/ Query(t) \/ CreateDb(t) \/ Insert(t) \/ RecordBackup(t)
               \/ BackupFails(t) \/ Unlink(t)
      BY <3>2 DEF OpenRefused, Query, CreateDb, Insert, RecordBackup, BackupFails, Unlink
    <3>3. CASE \/ Lookup(t) \/ Recheck(t) \/ EvictLruIfNeeded(t) \/ TakeLock(t) \/ CloseVictim(t)
               \/ ForgetVictim(t) \/ Open(t) \/ InsertConn(t) \/ DumpDb(t) \/ StoreBackup(t)
               \/ ArchiveBackup(t) \/ RestoreSource(t)
      <4>1. task[t].pc # "idle"
        BY <3>3 DEF Lookup, Recheck, EvictLruIfNeeded, TakeLock, CloseVictim, ForgetVictim, Open,
                    InsertConn, DumpDb, StoreBackup, ArchiveBackup, RestoreSource, Run, At
      <4>2. Finish(t) \/ \E p : p \notin {"clear", "unlink"} /\ Relabels(t, p)
        <5>1. CASE Lookup(t) \/ Recheck(t)
          <6>1. Relabels(t, "run") \/ Relabels(t, "evict")
            BY <5>1 DEF Lookup, Recheck, Found, Goto, Relabels, PcTo, ConnTo, StageTo
          <6> QED BY <6>1
        <5>2. CASE EvictLruIfNeeded(t) \/ ForgetVictim(t)
          <6>1. Finish(t) \/ Relabels(t, AfterEviction(t)) \/ Relabels(t, "close")
            BY <5>2 DEF EvictLruIfNeeded, ForgetVictim, Goto, Relabels, PcTo, VictimTo
          <6> QED BY <6>1 DEF AfterEviction
        <5>3. CASE TakeLock(t) \/ CloseVictim(t)
          <6>1. Relabels(t, "recheck") \/ Relabels(t, "forget")
            BY <5>3 DEF TakeLock, CloseVictim, Goto, Relabels, PcTo, StageTo, LockTo
          <6> QED BY <6>1
        <5>4. CASE Open(t) \/ InsertConn(t)
          <6>1. Relabels(t, "insert") \/ Relabels(t, "run")
            BY <5>4 DEF Open, InsertConn, Relabels, PcTo, ConnTo, StageTo
          <6> QED BY <6>1
        <5>5. CASE DumpDb(t) \/ StoreBackup(t) \/ ArchiveBackup(t) \/ RestoreSource(t)
          <6>1. Finish(t) \/ Relabels(t, "store") \/ Relabels(t, "record") \/ Relabels(t, "remove")
            BY <5>5 DEF DumpDb, StoreBackup, ArchiveBackup, RestoreSource, Goto, Relabels, PcTo, DumpTo
          <6> QED BY <6>1
        <5> QED
          BY <3>3, <5>1, <5>2, <5>3, <5>4, <5>5
      <4> QED
        BY <4>1, <4>2
    <3>4. CASE RemoveConn(t) \/ ClearEntries(t)
      <4>1. task[t].pc # "idle"
        BY <3>4 DEF RemoveConn, ClearEntries, At
      <4>2. \/ Relabels(t, "clear") /\ task[t].op = "delete_db"
            \/ Relabels(t, "overwrite")
            \/ Relabels(t, "unlink") /\ task[t].op = "delete_db"
        BY <3>4 DEF RemoveConn, ClearEntries, At, Goto, Relabels, PcTo, Unlinking
      <4> QED
        BY <4>1, <4>2
    <3> QED
      BY <2>1, <3>1, <3>2, <3>3, <3>4 DEF Step
  <2> QED
    BY <2>2, <2>3, <2>4, <2>5
<1> QED
  BY <1>1, <1>2 DEF Next

LEMMA KeptAlways ==
  ASSUME Coordinated, IInv, Kept, Unlinking, OnCurrentFile, [Next]_vars
  PROVE  Kept' /\ Unlinking'
<1>1. ASSUME NEW t \in Tasks, Step(t)
      PROVE  Kept'
  <2>1. Unlink(t) => task[t].op = "delete_db"
    BY DEF Unlink, At, Unlinking
  <2>2. \/ Lookup(t) \/ EvictLruIfNeeded(t) \/ CloseVictim(t) \/ ForgetVictim(t)
        \/ TakeLock(t) \/ Recheck(t) \/ OpenRefused(t) \/ Open(t) \/ InsertConn(t)
        \/ Query(t) \/ CreateDb(t) \/ Insert(t) \/ Unlink(t) \/ RecordBackup(t)
        \/ ArchiveBackup(t) \/ RemoveConn(t) \/ ClearEntries(t) \/ RestoreSource(t) \/ Overwrite(t)
        \/ DumpDb(t) \/ StoreBackup(t)
    BY <1>1 DEF Step
  <2> QED
    BY <2>1, <2>2, ConnSafe, EndSafe, RemoveSafe, OpenSafe, OverwriteSafe, InsertSafe, ArchiveSafe,
       UnlinkSafe
<1>2. ASSUME NEW t \in Tasks,
             StartRequest(t) \/ BackupFails(t) \/ CloseIdle(t) \/ \E d \in Dbs : StartBackup(t, d)
      PROVE  Kept'
  BY <1>2, StartSafe, EndSafe
<1>3. CASE UNCHANGED vars
  <2>1. UNCHANGED Files /\ task' = task
    BY <1>3 DEF vars, Files
  <2>2. Logs' /\ AckedReachable' /\ \A d \in Dbs : Placed(d)'
    BY <2>1 DEF Kept, Logs, AckedReachable, Files, Sequence, Placed
  <2>3. \A u \in Tasks : (Archived(u) /\ Admitted(u))'
    BY <2>1 DEF Kept, Archived, Admitted, Working, Db, Files
  <2>4. OneWriter' /\ Unlinking'
    BY <2>1 DEF Kept, OneWriter, Writing, Working, Db, Unlinking
  <2> QED
    BY <2>2, <2>3, <2>4 DEF Kept
<1> QED
  BY <1>1, <1>2, <1>3, TickSafe, UnlinkingKept DEF Next

(* Every answered write is in the file at its database's path or in the      *)
(* archive backup that delete_db made of it (storage/local.rs), however the   *)
(* requests, queries, backups, restores, evictions and idle closes of any     *)
(* number of tasks fall, as long as no write or delete_db works on a file    *)
(* that is no longer at its path.                                            *)
THEOREM AckedAlwaysReachable ==
  ASSUME LocalEngineAssumption, Coordinated
  PROVE  Spec /\ []OnCurrentFile => []AckedReachable
<1>1. Init => IInv /\ Kept /\ Unlinking
  <2>1. Init => \A t \in Tasks : task[t].pc = "idle"
    BY DEF Init, Resting
  <2> QED
    BY <2>1, Begins, KeptAtFirst DEF Unlinking
<1>2. IInv /\ Kept /\ Unlinking /\ OnCurrentFile /\ [Next]_vars => (IInv /\ Kept /\ Unlinking)'
  BY StepKeeps, KeptAlways
<1>3. IInv /\ Kept /\ Unlinking => AckedReachable
  BY DEF Kept
<1> QED
  BY <1>1, <1>2, <1>3, PTL DEF Spec
==============================================================================
