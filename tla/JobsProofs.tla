----------------------------- MODULE JobsProofs -----------------------------
(****************************************************************************)
(* Proofs about Jobs, for any number of jobs, lines, rows, writes, paths,    *)
(* retries and any batch size, whatever fails, stops, is aborted and          *)
(* continued: an import applies no line twice when its source is resumed by   *)
(* offset (not Packed), and an export that completes is whole when the table  *)
(* and its path were left alone since it began.                              *)
(****************************************************************************)
EXTENDS Jobs, TLAPS, SequenceTheorems, WellFoundedInduction

------------------------------------------------------------------------------
(* The inductive invariant.  What makes it so: a row that a worker may claim  *)
(* has nothing applied beyond its recorded offset, since only the worker's    *)
(* own progress moves what is applied, and whatever releases the row to       *)
(* another attempt records how far that worker got.                          *)

Shape ==
  [kind : {"import", "export", "backup", "admin"}, hash : Hashes \cup {None},
   resumable : BOOLEAN, status : Statuses,
   line : Int, off : 0..Lines, path : Paths \cup {None}, count : Nat, parts : Int]
Working ==
  [pc : Labels \ {"idle"}, id : Ids, line : Int, from : Int, pos : 0..Lines, off : 0..Lines,
   path : Paths \cup {None}, count : Nat, parts : Int, batch : Seq(Int)]

Typed ==
  /\ jobs \in [Ids -> Shape \cup {None}]
  /\ worker \in [Kinds -> {Resting} \cup Working]
  /\ abort \in Ids \cup {None} /\ made \in 0..MaxJobs
  /\ applied \in [Ids -> [1..Lines -> Nat]]

Busy(k) == k \in Kinds /\ worker[k].pc # "idle"

(* Ids not given out yet are those of no row and no applied line. *)
Unused ==
  \A i \in Ids : i > made => jobs[i] = None /\ \A l \in 1..Lines : applied[i][l] = 0

(* Workers of different kinds never hold the same row. *)
OwnKind ==
  \A k \in Kinds : Busy(k) =>
    /\ worker[k].id <= made
    /\ jobs[worker[k].id] # None => jobs[worker[k].id].kind = k

(* Nothing is applied beyond the line the worker reads, nor what it gathers. *)
Frontier ==
  Busy("import") =>
    LET w == worker["import"] IN
    /\ w.off = w.pos
    /\ ~Packed =>
         /\ \A l \in 1..Lines : l > w.off => applied[w.id][l] = 0
         /\ \A n \in 1..Len(w.batch) : /\ w.batch[n] \in 1..w.off
                                       /\ applied[w.id][w.batch[n]] = 0

(* A claimed row is not open to another attempt. *)
Taken ==
  Busy("import") /\ worker["import"].pc # "claim" =>
    LET i == worker["import"].id IN
    jobs[i] # None => jobs[i].status \in {"running", "aborted"}

(* An open row has nothing applied beyond its offset. *)
OpenRows ==
  ~Packed => \A i \in Stored : /\ jobs[i].kind = "import"
                    /\ jobs[i].status \in Waiting \cup {"failed"}
                    => \A l \in 1..Lines : l > jobs[i].off => applied[i][l] = 0

NoLineTwice == ~Packed => AppliedAtMostOnce

(* Rows are written without regard to jobs. *)
TableTyped == table \in Seq(Int) /\ edits \in Nat

IInv ==
  /\ Typed /\ Unused /\ OwnKind /\ Frontier /\ Taken /\ OpenRows
  /\ NoLineTwice

LEMMA Initially ==
  Init => IInv
  BY JobsAssumption DEF Init, IInv, Typed, Busy, Unused, OwnKind, Frontier, Taken, OpenRows,
     NoLineTwice, AppliedAtMostOnce, Stored, Ids, Resting

------------------------------------------------------------------------------
LEMMA BusyWorks ==
  ASSUME Typed, NEW k, Busy(k)
  PROVE  worker[k] \in Working
<1>1. Resting.pc = "idle"
  BY DEF Resting
<1>2. k \in Kinds /\ worker[k] # Resting
  BY <1>1 DEF Busy
<1> QED
  BY <1>2 DEF Typed

(* Workers stop, or go on with the rows they have.                            *)
Onward ==
  /\ worker' \in [Kinds -> {Resting} \cup Working]
  /\ \A k \in Kinds : \/ worker'[k] \in {worker[k], Resting}
                      \/ Busy(k) /\ worker'[k].id = worker[k].id
Rested == Onward /\ (Busy("import")' => worker'["import"] = worker["import"])

(* At most one row changes.  It is gone or keeps its kind, and when it becomes *)
(* open nothing is applied beyond its offset.                                 *)
Changed(i, row) ==
  /\ i \in 1..made /\ row \in Shape \cup {None}
  /\ jobs' = [jobs EXCEPT ![i] = row]
  /\ row # None =>
       /\ jobs[i] # None /\ row.kind = jobs[i].kind
       /\ ~Packed /\ row.kind = "import" /\ row.status \in Waiting \cup {"failed"} =>
            \A l \in 1..Lines : l > row.off => applied[i][l] = 0

LEMMA RowChange ==
  ASSUME IInv, Onward, NEW i, NEW row, Changed(i, row), Frontier', Taken',
         UNCHANGED <<made, applied>>, abort' \in Ids \cup {None}
  PROVE  IInv'
<1> USE DEF IInv, Onward, Changed
<1>1. i \in Ids
  BY JobsAssumption DEF Typed, Ids
<1>2. Typed'
  BY <1>1 DEF Typed
<1>3. Unused'
  BY DEF Unused, Typed
<1>4. OwnKind'
  BY DEF OwnKind, Busy, Typed, Resting
<1>5. OpenRows'
  BY <1>1 DEF OpenRows, Stored, Typed
<1>6. NoLineTwice'
  BY DEF NoLineTwice, AppliedAtMostOnce
<1> QED
  BY <1>2, <1>3, <1>4, <1>5, <1>6

(* As it is needed where the import worker stays where it is, or stops.       *)
LEMMA RowChangeAtRest ==
  ASSUME IInv, Rested, NEW i, NEW row, Changed(i, row),
         Busy("import")' /\ worker["import"].id = i /\ worker["import"].pc # "claim"
           /\ row # None => row.status \in {"running", "aborted"},
         UNCHANGED <<made, applied>>, abort' \in Ids \cup {None}
  PROVE  IInv'
<1>1. Frontier'
  BY DEF IInv, Rested, Onward, Frontier, Busy, Resting
<1>2. Taken'
  BY DEF IInv, Rested, Onward, Changed, Taken, Busy, Typed, Resting
<1> QED
  BY <1>1, <1>2, RowChange DEF Rested

(* No row changes. *)
LEMMA NoRowChange ==
  ASSUME IInv, Onward, Frontier', Taken',
         UNCHANGED <<jobs, made, applied>>, abort' \in Ids \cup {None}
  PROVE  IInv'
<1> USE DEF IInv, Onward
<1>1. Typed' /\ Unused' /\ OpenRows' /\ NoLineTwice'
  BY DEF Typed, Unused, OpenRows, Stored, NoLineTwice, AppliedAtMostOnce
<1>2. OwnKind'
  BY DEF OwnKind, Busy, Resting
<1> QED
  BY <1>1, <1>2

LEMMA WorkersStop ==
  ASSUME IInv, Rested, UNCHANGED <<jobs, made, applied>>, abort' \in Ids \cup {None}
  PROVE  IInv'
<1>1. Frontier' /\ Taken'
  BY DEF IInv, Rested, Onward, Frontier, Taken, Busy, Resting
<1> QED
  BY <1>1, NoRowChange DEF Rested

------------------------------------------------------------------------------
(* Requests. *)
LEMMA Enqueued ==
  ASSUME IInv, NEW kind, NEW hash \in Hashes \cup {None}, NEW resumable \in BOOLEAN,
         NEW path \in Paths \cup {None}, Enqueue(kind, hash, resumable, path)
  PROVE  IInv'
<1> USE JobsAssumption DEF IInv, Enqueue, OnlyJobs, Ids
<1>1. Typed'
  <2> DEFINE row == [kind |-> kind, hash |-> hash, resumable |-> resumable,
        status |-> "queued", line |-> 0, off |-> 0, path |-> path, count |-> 0, parts |-> 0]
  <2>1. row \in Shape
    BY DEF Shape, Statuses
  <2>2. jobs' = [jobs EXCEPT ![made + 1] = row] /\ made' \in 0..MaxJobs
    BY DEF Typed
  <2> HIDE DEF row
  <2> QED
    BY <2>1, <2>2 DEF Typed
<1>2. Unused'
  BY DEF Unused, Typed
<1>3. OwnKind'
  BY DEF OwnKind, Busy, Typed, Working, Resting
<1>4. Frontier'
  BY DEF Frontier, Busy
<1>5. Taken'
  BY DEF Taken, OwnKind, Busy, Typed, Working, Resting
<1>6. OpenRows'
  <2>1. \A i \in Ids : i # made + 1 => jobs'[i] = jobs[i]
    BY DEF Typed
  <2>2. \A l \in 1..Lines : applied[made + 1][l] = 0
    BY DEF Unused, Typed
  <2> QED
    BY <2>1, <2>2 DEF OpenRows, Stored, Typed
<1>7. NoLineTwice'
  BY DEF NoLineTwice, AppliedAtMostOnce
<1> QED
  BY <1>1, <1>2, <1>3, <1>4, <1>5, <1>6, <1>7

(* A status is overwritten by a request. *)
LEMMA StatusSet ==
  ASSUME IInv, NEW i \in Stored, NEW s \in {"aborted", "queued", "retrying"},
         s # "aborted" => jobs[i].status = "failed",
         jobs' = SetStatus(i, s), OnlyJobs, made' = made, abort' \in Ids \cup {None}
  PROVE  IInv'
<1> DEFINE row == [jobs[i] EXCEPT !.status = s]
<1>1. i \in 1..made /\ jobs[i] \in Shape
  BY DEF IInv, Typed, Unused, Stored, Ids
<1>2. row \in Shape /\ row.kind = jobs[i].kind /\ row.off = jobs[i].off /\ row.status = s
  BY <1>1 DEF Shape, Statuses
<1>3. jobs' = [jobs EXCEPT ![i] = row]
  BY DEF SetStatus
<1>4. Rested /\ UNCHANGED <<made, applied>>
  BY DEF IInv, Typed, OnlyJobs, Rested, Onward
<1>5. ~Packed /\ s # "aborted" /\ row.kind = "import" =>
        \A l \in 1..Lines : l > row.off => applied[i][l] = 0
  BY <1>2 DEF IInv, OpenRows
<1>6. Busy("import")' /\ worker["import"].id = i /\ worker["import"].pc # "claim"
        => s = "aborted"
  BY DEF IInv, Taken, Busy, OnlyJobs, Stored
<1> HIDE DEF row
<1> QED
  BY <1>1, <1>2, <1>3, <1>4, <1>5, <1>6, RowChangeAtRest DEF Waiting, Stored, Changed

LEMMA Requested ==
  ASSUME IInv, Request
  PROVE  IInv'
<1>1. CASE ImportJsonl
  BY <1>1, Enqueued DEF ImportJsonl
<1>2. CASE ExportJsonl \/ CreateBackup \/ EnqueueAdminJob
  BY <1>2, Enqueued DEF ExportJsonl, CreateBackup, EnqueueAdminJob
<1>3. CASE ContinueJob
  BY <1>3, StatusSet DEF ContinueJob, IInv, Typed
<1>4. CASE AbortGuarded
  BY <1>4, StatusSet DEF AbortGuarded, IInv, Typed
<1>5. CASE AbortRead
  <2>1. Rested /\ UNCHANGED <<jobs, made, applied>> /\ abort' \in Ids \cup {None}
    BY <1>5 DEF AbortRead, Rested, Onward, OnlyJobs, IInv, Typed, Stored
  <2> QED
    BY <2>1, WorkersStop
<1>6. CASE AbortWrite
  <2>1. CASE jobs[abort] = None
    BY <1>6, <2>1, WorkersStop DEF AbortWrite, Rested, Onward, OnlyJobs, IInv, Typed
  <2>2. CASE jobs[abort] # None
    BY <1>6, <2>2, StatusSet DEF AbortWrite, Stored, IInv, Typed
  <2> QED
    BY <2>1, <2>2
<1> QED
  BY <1>1, <1>2, <1>3, <1>4, <1>5, <1>6 DEF Request

------------------------------------------------------------------------------
(* The steps every worker takes.                                              *)

LEMMA Picked ==
  ASSUME IInv, NEW k \in Kinds, Pick(k)
  PROVE  IInv'
<1> USE DEF IInv
<1>1. PICK i \in Oldest(k) :
        worker' = [worker EXCEPT ![k] =
          [pc |-> "claim", id |-> i, line |-> jobs[i].line, from |-> jobs[i].line,
           pos |-> IF Packed THEN 0 ELSE jobs[i].off,
           off |-> IF Packed THEN 0 ELSE jobs[i].off,
           path |-> jobs[i].path, count |-> jobs[i].count,
           parts |-> jobs[i].parts, batch |-> <<>>]]
  BY DEF Pick, Go
<1>2. /\ i \in Ids /\ i <= made /\ jobs[i] # None /\ jobs[i] \in Shape
      /\ jobs[i].kind = k /\ jobs[i].status \in Waiting
  BY <1>1 DEF Oldest, Stored, Typed, Unused, Ids
<1>3. worker'[k] \in Working
  <2> DEFINE new == [pc |-> "claim", id |-> i, line |-> jobs[i].line, from |-> jobs[i].line,
           pos |-> IF Packed THEN 0 ELSE jobs[i].off,
           off |-> IF Packed THEN 0 ELSE jobs[i].off,
           path |-> jobs[i].path, count |-> jobs[i].count,
           parts |-> jobs[i].parts, batch |-> <<>>]
  <2>1. new \in Working
    BY <1>2, JobsAssumption DEF Working, Labels, Shape
  <2>2. worker'[k] = new
    BY <1>1 DEF Typed
  <2> QED
    BY <2>1, <2>2
<1>4. UNCHANGED <<jobs, abort, made, applied>>
  BY DEF Pick, Requests
<1>5. Typed' /\ Unused' /\ OpenRows' /\ NoLineTwice'
  BY <1>1, <1>3, <1>4 DEF Typed, Unused, OpenRows, Stored, NoLineTwice, AppliedAtMostOnce
<1>6. OwnKind'
  BY <1>1, <1>2, <1>4 DEF OwnKind, Busy, Typed
<1>7. Frontier'
  BY <1>1, <1>2, <1>4 DEF Frontier, OpenRows, Stored, Busy, Typed
<1>8. Taken'
  BY <1>1, <1>4 DEF Taken, Busy, Typed
<1> QED
  BY <1>5, <1>6, <1>7, <1>8

(* A worker settles its row and rests. *)
LEMMA SettledRow ==
  ASSUME IInv, NEW k \in Kinds, Busy(k), NEW s \in {"completed", "failed"}, NEW row,
         LET old == jobs[worker[k].id] IN
           old # None =>
             /\ row \in Shape /\ row.kind = old.kind
             /\ ~Packed /\ s = "failed" /\ k = "import" =>
                  \A l \in 1..Lines : l > row.off => applied[worker[k].id][l] = 0,
         Settle(k, s, row)
  PROVE  IInv'
<1> DEFINE i == worker[k].id
           new == IF jobs[i] = None THEN None ELSE [row EXCEPT !.status = s]
<1>1. worker[k] \in Working /\ i \in 1..made /\ (jobs[i] # None => jobs[i].kind = k)
  BY DEF IInv, Typed, OwnKind, Busy, Resting, Working, Ids
<1>2. jobs[i] # None => new \in Shape /\ new.kind = row.kind /\ new.off = row.off
  BY DEF Shape, Statuses
<1>3. jobs' = [jobs EXCEPT ![i] = new] /\ worker' = [worker EXCEPT ![k] = Resting]
  BY DEF Settle, Go, IInv, Typed
<1>4. Rested /\ (Busy("import")' => worker["import"].id # i \/ new = None)
  BY <1>1, <1>3 DEF Rested, Onward, Busy, IInv, Typed, OwnKind, Resting
<1>5. Changed(i, new)
  BY <1>1, <1>2, <1>3 DEF Changed, Waiting
<1>6. UNCHANGED <<abort, made, applied>>
  BY DEF Settle, Requests
<1> HIDE DEF i, new
<1> QED
  BY <1>4, <1>5, <1>6, RowChangeAtRest DEF IInv, Typed

LEMMA ClaimedRow ==
  ASSUME IInv, NEW k \in Kinds, Claim(k)
  PROVE  IInv'
<1> DEFINE i == worker[k].id
<1> USE DEF IInv
<1>1. worker[k] \in Working /\ i \in 1..made /\ i \in Ids /\ Busy(k) /\ k # "idle"
  <2>1. Busy(k)
    BY DEF Claim, Is, Busy
  <2>2. worker[k] \in Working
    BY <2>1, BusyWorks
  <2>3. i \in Ids /\ i <= made
    BY <2>1, <2>2 DEF OwnKind, Working
  <2>4. i \in 1..made
    BY <2>3, JobsAssumption DEF Ids, Typed
  <2>5. k # "idle"
    BY JobsAssumption
  <2> QED
    BY <2>1, <2>2, <2>3, <2>4, <2>5
<1>2. UNCHANGED <<abort, made, applied>> /\ abort' \in Ids \cup {None}
  BY DEF Claim, Requests, Typed
<1>3. CASE ~Claimable(i)
  <2>1. UNCHANGED jobs /\ worker' = [worker EXCEPT ![k] = Resting]
    BY <1>3 DEF Claim, Go
  <2> QED
    BY <2>1, <1>2, WorkersStop DEF Rested, Onward, Typed, Busy, Resting
<1>4. CASE Claimable(i)
  <2> DEFINE row == [jobs[i] EXCEPT !.status = "running"]
             new == [worker[k] EXCEPT !.pc = k]
  <2>1. /\ jobs[i] # None /\ jobs[i] \in Shape /\ jobs[i].kind = k
        /\ row \in Shape /\ row.kind = jobs[i].kind /\ row.status = "running"
    BY <1>1, <1>4 DEF Claimable, Typed, OwnKind, Shape, Statuses
  <2>2. /\ new \in Working /\ new.id = i /\ new.off = worker[k].off /\ new.pos = worker[k].pos
        /\ new.batch = worker[k].batch /\ new.pc = k
    BY <1>1 DEF Working, Labels
  <2>3. jobs' = [jobs EXCEPT ![i] = row] /\ worker' = [worker EXCEPT ![k] = new]
    BY <1>4 DEF Claim, SetStatus, Work, Go
  <2> HIDE DEF row, new
  <2>4. Onward
    BY <1>1, <2>2, <2>3 DEF Onward, Typed
  <2>5. Changed(i, row)
    BY <1>1, <2>1, <2>3 DEF Changed, Waiting
  <2>6. Frontier'
    BY <1>1, <1>2, <2>2, <2>3 DEF Frontier, Busy, Typed
  <2>7. Taken'
    BY <1>1, <2>1, <2>2, <2>3 DEF Taken, OwnKind, Busy, Typed
  <2> QED
    BY <1>2, <2>4, <2>5, <2>6, <2>7, RowChange
<1> QED
  BY <1>3, <1>4

------------------------------------------------------------------------------
(* The import worker. *)

(* It reads on: no row and nothing applied changes, and what it newly gathers *)
(* lies beyond where it was.                                                  *)
LEMMA ReadsOn ==
  ASSUME IInv, Busy("import"), NEW new \in Working,
         worker' = [worker EXCEPT !["import"] = new],
         UNCHANGED <<jobs, made, applied, abort>>,
         worker["import"].pc # "claim",
         LET w == worker["import"] IN
           /\ new.id = w.id /\ new.pos = new.off /\ new.off >= w.off
           /\ \A n \in 1..Len(new.batch) :
                 \/ n \in 1..Len(w.batch) /\ new.batch[n] = w.batch[n]
                 \/ new.batch[n] \in 1..new.off /\ new.batch[n] > w.off
  PROVE  IInv'
<1> USE DEF IInv
<1>1. worker["import"] \in Working /\ worker'["import"] = new /\ "import" \in Kinds
  BY BusyWorks DEF Typed, Busy
<1>2. Onward
  BY <1>1 DEF Onward, Typed
<1>3. Frontier'
  <2>1. /\ ~Packed => \A l \in 1..Lines : l > new.off => applied[new.id][l] = 0
        /\ new.off \in 0..Lines /\ worker["import"].off \in 0..Lines
    BY <1>1, JobsAssumption DEF Frontier, Working
  <2>2. ASSUME ~Packed, NEW n \in 1..Len(new.batch)
        PROVE  new.batch[n] \in 1..new.off /\ applied[new.id][new.batch[n]] = 0
    <3>1. CASE n \in 1..Len(worker["import"].batch) /\ new.batch[n] = worker["import"].batch[n]
      BY <3>1, <2>1, <2>2, JobsAssumption DEF Frontier
    <3>2. CASE new.batch[n] \in 1..new.off /\ new.batch[n] > worker["import"].off
      BY <3>2, <2>1, <2>2, JobsAssumption DEF Frontier
    <3> QED
      BY <3>1, <3>2
  <2> QED
    BY <1>1, <2>1, <2>2 DEF Frontier
<1>4. Taken'
  BY <1>1 DEF Taken
<1> QED
  BY <1>2, <1>3, <1>4, NoRowChange DEF Typed

LEMMA ReadLineKeeps ==
  ASSUME IInv, "import" \in Kinds, ReadLine
  PROVE  IInv'
<1> DEFINE w == worker["import"]
           l == w.pos + 1
           read == [w EXCEPT !.pos = l, !.off = @ + 1, !.line = @ + 1]
           full == Append(w.batch, l)
           new == IF Packed /\ read.line <= w.from THEN read
                  ELSE IF l \in BadLines THEN [read EXCEPT !.pc = "fail"]
                  ELSE [read EXCEPT !.batch = full,
                          !.pc = IF Len(full) >= BatchSize THEN "apply" ELSE "import"]
<1>1. /\ worker' = [worker EXCEPT !["import"] = new]
      /\ UNCHANGED <<jobs, made, applied, abort>>
      /\ w.pc = "import" /\ w.pos < Lines
  BY DEF ReadLine, Is, Go, Requests
<1>2. Busy("import") /\ w.pc # "claim"
  BY <1>1 DEF Busy
<1>3. w \in Working /\ w.off = w.pos
  BY <1>2, BusyWorks DEF IInv, Frontier
<1>4. l \in 0..Lines /\ l \in Int
  BY <1>1, <1>3, JobsAssumption DEF Working
<1>5. /\ read \in Working /\ read.id = w.id /\ read.pos = l /\ read.off = l
      /\ read.batch = w.batch
  <2>1. w.off + 1 = l /\ w.line + 1 \in Int
    BY <1>3 DEF Working
  <2>2. read = [w EXCEPT !.pos = l, !.off = w.off + 1, !.line = w.line + 1]
    OBVIOUS
  <2> HIDE DEF w, l, read
  <2> QED
    BY <1>3, <1>4, <2>1, <2>2 DEF Working
<1>6. /\ full \in Seq(Int)
      /\ \A n \in 1..Len(full) :
           (n \in 1..Len(w.batch) /\ full[n] = w.batch[n]) \/ full[n] = l
  <2>1. w.batch \in Seq(Int)
    BY <1>3 DEF Working
  <2> HIDE DEF w
  <2>2. /\ full \in Seq(Int) /\ Len(full) = Len(w.batch) + 1 /\ full[Len(full)] = l
        /\ \A n \in 1..Len(w.batch) : full[n] = w.batch[n]
    BY <2>1, <1>4
  <2> QED
    BY <2>1, <2>2
<1>7. /\ new \in Working /\ new.id = w.id /\ new.pos = l /\ new.off = l
      /\ new.batch \in {w.batch, full}
  <2>1. "fail" \in Labels \ {"idle"} /\ "apply" \in Labels \ {"idle"}
        /\ (w.pc = "import" => "import" \in Labels \ {"idle"})
    BY <1>3 DEF Labels, Working
  <2> HIDE DEF w, full, l
  <2> QED
    BY <1>1, <1>5, <1>6, <2>1 DEF Working
<1> HIDE DEF new, full, read
<1>8. \A n \in 1..Len(new.batch) :
        \/ n \in 1..Len(w.batch) /\ new.batch[n] = w.batch[n]
        \/ new.batch[n] \in 1..new.off /\ new.batch[n] > w.off
  <2>1. l \in 1..l /\ l > w.off
    BY <1>3, <1>4 DEF Working
  <2> QED
    BY <1>6, <1>7, <2>1
<1>9. new.off >= w.off
  BY <1>3, <1>7 DEF Working
<1> QED
  BY <1>1, <1>2, <1>7, <1>8, <1>9, ReadsOn

LEMMA EndOfSourceKeeps ==
  ASSUME IInv, "import" \in Kinds, EndOfSource
  PROVE  IInv'
<1> DEFINE w == worker["import"]
           label == IF w.batch = <<>> THEN "complete" ELSE "apply last"
           new == [w EXCEPT !.pc = label]
<1>1. /\ worker' = [worker EXCEPT !["import"] = new]
      /\ UNCHANGED <<jobs, made, applied, abort>> /\ w.pc = "import"
  BY DEF EndOfSource, Is, Work, Go, Requests
<1>2. Busy("import") /\ w.pc # "claim"
  BY <1>1 DEF Busy
<1>3. w \in Working /\ w.off = w.pos
  BY <1>2, BusyWorks DEF IInv, Frontier
<1>4. label \in Labels \ {"idle"}
  BY DEF Labels
<1> HIDE DEF label
<1>5. /\ new \in Working /\ new.id = w.id /\ new.pos = w.pos /\ new.off = w.off
      /\ new.batch = w.batch /\ w.off \in Int
  BY <1>3, <1>4 DEF Working
<1> HIDE DEF new
<1>6. /\ new.off >= w.off
      /\ \A n \in 1..Len(new.batch) : n \in 1..Len(w.batch) /\ new.batch[n] = w.batch[n]
  BY <1>5
<1>7. new.id = w.id /\ new.pos = new.off
  BY <1>3, <1>5
<1> QED
  BY <1>1, <1>2, <1>5, <1>6, <1>7, ReadsOn

(* A batch holds lines of the frontier that were never applied.               *)
LEMMA ApplyBatchKeeps ==
  ASSUME IInv, "import" \in Kinds, ApplyBatch
  PROVE  IInv'
<1> DEFINE w == worker["import"]
           label == IF w.pc = "apply" THEN "persist" ELSE "complete"
           new == [w EXCEPT !.batch = <<>>, !.pc = label]
<1> USE DEF IInv
<1>1. /\ worker' = [worker EXCEPT !["import"] = new] /\ UNCHANGED <<jobs, made, abort>>
      /\ applied' = [applied EXCEPT ![w.id] = [l \in 1..Lines |->
            applied[w.id][l] + (IF l \in ToSet(w.batch) THEN 1 ELSE 0)]]
      /\ w.pc \in {"apply", "apply last"}
  BY DEF ApplyBatch, Go, Requests
<1>2. Busy("import") /\ w.pc # "claim"
  BY <1>1 DEF Busy
<1>3. w \in Working /\ w.id \in Ids /\ w.id <= made
  BY <1>2, BusyWorks DEF OwnKind, Working
<1>4. label \in Labels \ {"idle"} /\ label # "claim"
  BY DEF Labels
<1> HIDE DEF label
<1>5. /\ new \in Working /\ new.id = w.id /\ new.pos = w.pos /\ new.off = w.off
      /\ new.batch = <<>> /\ new.pc = label /\ w.off \in 0..Lines
  <2>1. <<>> \in Seq(Int)
    OBVIOUS
  <2> HIDE DEF w
  <2> QED
    BY <1>3, <1>4, <2>1 DEF Working, new
<1> HIDE DEF new
<1>6. ~Packed => \A l \in 1..Lines : l \in ToSet(w.batch) => applied[w.id][l] = 0 /\ l <= w.off
  <2>1. ~Packed => \A n \in 1..Len(w.batch) : w.batch[n] \in 1..w.off /\ applied[w.id][w.batch[n]] = 0
    BY <1>2 DEF Frontier
  <2>2. DOMAIN w.batch = 1..Len(w.batch)
    BY <1>3 DEF Working
  <2> HIDE DEF w
  <2> QED
    BY <1>5, <2>1, <2>2 DEF ToSet
<1>7. ASSUME ~Packed, NEW l \in 1..Lines
      PROVE  /\ applied'[w.id][l] \in 0..1
             /\ l > w.off => applied'[w.id][l] = applied[w.id][l]
  <2>1. applied[w.id][l] \in 0..1
    <3>1. applied[w.id][l] \in Nat
      BY <1>3 DEF Typed
    <3>2. applied[w.id][l] <= 1
      BY <1>3, <1>7 DEF NoLineTwice, AppliedAtMostOnce
    <3> QED
      BY <3>1, <3>2
  <2>2. applied'[w.id][l] = applied[w.id][l] + (IF l \in ToSet(w.batch) THEN 1 ELSE 0)
    BY <1>1, <1>3 DEF Typed
  <2>3. w.off \in Int /\ l \in Int
    BY <1>5
  <2> QED
    BY <2>1, <2>2, <2>3, <1>6, <1>7
<1>8. \A i \in Ids : i # w.id => applied'[i] = applied[i]
  BY <1>1 DEF Typed
<1>9. Typed'
  <2>1. applied' \in [Ids -> [1..Lines -> Nat]]
    <3> DEFINE f == [l \in 1..Lines |->
                      applied[w.id][l] + (IF l \in ToSet(w.batch) THEN 1 ELSE 0)]
    <3>1. ASSUME NEW l \in 1..Lines
          PROVE  applied[w.id][l] + (IF l \in ToSet(w.batch) THEN 1 ELSE 0) \in Nat
      <4>1. applied[w.id][l] \in Nat
        BY <1>3 DEF Typed
      <4> QED
        BY <4>1
    <3>2. f \in [1..Lines -> Nat]
      BY <3>1
    <3>3. applied' = [applied EXCEPT ![w.id] = f]
      BY <1>1
    <3>4. applied \in [Ids -> [1..Lines -> Nat]]
      BY <1>3 DEF Typed
    <3> HIDE DEF f
    <3> QED
      BY <1>3, <3>2, <3>3, <3>4
  <2> QED
    BY <1>1, <1>5, <2>1, ZenonT(30) DEF Typed
<1>10. Unused'
  <2>1. \A i \in Ids : i > made => i # w.id
    BY <1>3, JobsAssumption DEF Ids, Typed
  <2> QED
    BY <1>1, <1>8, <2>1 DEF Unused
<1>11. OwnKind'
  BY <1>1, <1>2, <1>5 DEF OwnKind, Busy, Typed
<1>12. Frontier'
  <2>1. worker'["import"] = new
    BY <1>1, <1>2 DEF Busy, Typed
  <2>2. ~Packed => \A l \in 1..Lines : l > new.off => applied'[new.id][l] = 0
    BY <1>2, <1>5, <1>7 DEF Frontier
  <2>3. new.off = new.pos
    BY <1>2, <1>5 DEF Frontier
  <2>4. 1..Len(new.batch) = {}
    BY <1>5
  <2> QED
    BY <2>1, <2>2, <2>3, <2>4 DEF Frontier
<1>13. Taken'
  BY <1>1, <1>2, <1>5 DEF Taken, Busy, Typed
<1>14. OpenRows'
  <2>1. ASSUME NEW i \in Stored, jobs[i].status \in Waiting \cup {"failed"}
        PROVE  i # w.id
    <3>1. jobs[w.id] # None => jobs[w.id].status \in {"running", "aborted"}
      BY <1>2 DEF Taken
    <3>2. jobs[i] # None /\ jobs[i].status \notin {"running", "aborted"}
      BY <2>1 DEF Stored, Waiting
    <3> QED
      BY <3>1, <3>2
  <2>2. jobs' = jobs /\ Stored' = Stored /\ Stored \subseteq Ids
    BY <1>1 DEF Stored
  <2>3. ASSUME ~Packed, NEW i \in Stored, jobs[i].kind = "import",
               jobs[i].status \in Waiting \cup {"failed"}
        PROVE  \A l \in 1..Lines : l > jobs[i].off => applied'[i][l] = 0
    <3>1. applied'[i] = applied[i]
      BY <2>1, <2>2, <2>3, <1>8
    <3> QED
      BY <2>3, <3>1 DEF OpenRows
  <2> QED
    BY <2>2, <2>3 DEF OpenRows
<1>15. NoLineTwice'
  <2>1. ASSUME ~Packed, NEW i \in Ids, NEW l \in 1..Lines PROVE applied'[i][l] <= 1
    BY <1>7, <1>8, <2>1 DEF NoLineTwice, AppliedAtMostOnce
  <2> QED
    BY <2>1 DEF NoLineTwice, AppliedAtMostOnce
<1> QED
  BY <1>9, <1>10, <1>11, <1>12, <1>13, <1>14, <1>15

LEMMA PositionOf ==
  ASSUME IInv, Busy("import"), jobs[worker["import"].id] # None
  PROVE  LET w == worker["import"]  old == jobs[w.id]  new == Position(old) IN
         /\ new \in Shape /\ new.kind = old.kind /\ new.status = old.status
         /\ new.off = w.off
         /\ ~Packed => \A l \in 1..Lines : l > new.off => applied[w.id][l] = 0
<1> DEFINE w == worker["import"]
           old == jobs[w.id]
<1>1. w \in Working
  BY BusyWorks DEF IInv
<1>2. old \in Shape /\ w.line \in Int /\ w.off \in 0..Lines
  BY <1>1 DEF IInv, Typed, Working
<1>3. Position(old) = [old EXCEPT !.line = w.line, !.off = w.off]
  BY DEF Position
<1>4. ~Packed => \A l \in 1..Lines : l > w.off => applied[w.id][l] = 0
  BY DEF IInv, Frontier
<1> HIDE DEF w, old
<1>5. /\ Position(old) \in Shape /\ Position(old).kind = old.kind
      /\ Position(old).status = old.status /\ Position(old).off = w.off
  BY <1>2, <1>3 DEF Shape
<1> QED
  BY <1>4, <1>5 DEF w, old

LEMMA PersistProgressKeeps ==
  ASSUME IInv, "import" \in Kinds, PersistProgress
  PROVE  IInv'
<1> DEFINE w == worker["import"]
           new == [w EXCEPT !.pc = "import"]
           row == IF jobs[w.id] = None THEN None ELSE Position(jobs[w.id])
<1>1. /\ worker' = [worker EXCEPT !["import"] = new] /\ UNCHANGED <<made, applied, abort>>
      /\ w.pc = "persist"
  BY DEF PersistProgress, Is, Work, Go, Requests
<1>2. Busy("import") /\ w.pc # "claim"
  BY <1>1 DEF Busy
<1>3. w \in Working /\ w.id \in 1..made /\ w.id \in Ids /\ "import" # "idle"
  BY <1>2, BusyWorks, JobsAssumption DEF IInv, Typed, OwnKind, Working, Ids
<1>4. /\ new \in Working /\ new.id = w.id /\ new.pos = w.pos /\ new.off = w.off
      /\ new.batch = w.batch
  BY <1>3 DEF Working, Labels
<1>5. jobs' = [jobs EXCEPT ![w.id] = row]
  BY <1>3 DEF PersistProgress, IInv, Typed
<1>6. jobs[w.id] # None =>
        /\ row \in Shape /\ row.kind = jobs[w.id].kind /\ row.status = jobs[w.id].status
        /\ ~Packed => \A l \in 1..Lines : l > row.off => applied[w.id][l] = 0
  BY <1>2, PositionOf
<1> HIDE DEF new, row
<1>7. Changed(w.id, row)
  <2>1. jobs[w.id] = None => row = None
    BY DEF row
  <2> QED
    BY <1>3, <1>5, <1>6, <2>1 DEF Changed
<1>8. Onward
  BY <1>1, <1>2, <1>4 DEF Onward, IInv, Typed
<1>9. Frontier'
  BY <1>1, <1>2, <1>4 DEF Frontier, Busy, IInv, Typed
<1>10. Taken'
  <2>1. worker'["import"].id = w.id
    BY <1>1, <1>2, <1>4 DEF Busy, IInv, Typed
  <2>2. jobs'[w.id] = row
    BY <1>3, <1>5 DEF IInv, Typed
  <2>3. row # None => row.status \in {"running", "aborted"}
    BY <1>2, <1>6 DEF row, IInv, Taken
  <2> QED
    BY <2>1, <2>2, <2>3 DEF Taken
<1> QED
  BY <1>1, <1>7, <1>8, <1>9, <1>10, RowChange DEF IInv, Typed

LEMMA ImportKeeps ==
  ASSUME IInv, "import" \in Kinds, Import
  PROVE  IInv'
<1>1. CASE ReadLine
  BY <1>1, ReadLineKeeps
<1>2. CASE EndOfSource
  BY <1>2, EndOfSourceKeeps
<1>3. CASE ApplyBatch
  BY <1>3, ApplyBatchKeeps
<1>4. CASE PersistProgress
  BY <1>4, PersistProgressKeeps
<1>5. CASE ImportDone
  <2>1. Busy("import")
    BY <1>5 DEF ImportDone, Is, Busy
  <2> QED
    BY <1>5, <2>1, PositionOf, SettledRow DEF ImportDone, Claimed
<1>6. CASE ImportFails
  <2>1. Busy("import") /\ Settle("import", "failed", Position(Claimed("import")))
    BY <1>6 DEF ImportFails, FailJob, Is, Busy
  <2> QED
    BY <2>1, PositionOf, SettledRow DEF Claimed
<1> QED
  BY <1>1, <1>2, <1>3, <1>4, <1>5, <1>6 DEF Import

------------------------------------------------------------------------------
(* The other workers. *)

LEMMA MinOfTwo ==
  ASSUME NEW a \in Int, NEW b \in Int
  PROVE  Min({a, b}) = IF a <= b THEN a ELSE b
<1>1. \E x \in {a, b} : \A y \in {a, b} : x <= y
  OBVIOUS
<1>2. Min({a, b}) \in {a, b} /\ \A y \in {a, b} : Min({a, b}) <= y
  BY <1>1 DEF Min
<1> QED BY <1>2

(* A page is a span of the table, and a short one reaches its end. *)
LEMMA PageIsSpan ==
  ASSUME TableTyped, NEW from \in 0..Len(table)
  PROVE  \E to \in from..Len(table) :
           /\ Page(from) = SubSeq(table, from + 1, to) /\ Page(from) \in Seq(Int)
           /\ Len(Page(from)) = to - from
           /\ Len(Page(from)) < BatchSize => to = Len(table)
<1>1. PICK to : to = Min({from + BatchSize, Len(table)})
  OBVIOUS
<1>2. from \in Nat /\ from + BatchSize \in Nat /\ Len(table) \in Nat
  BY JobsAssumption DEF TableTyped
<1>3. to = IF from + BatchSize <= Len(table) THEN from + BatchSize ELSE Len(table)
  BY <1>1, <1>2, MinOfTwo
<1>4. to \in from..Len(table) /\ (to - from < BatchSize => to = Len(table))
  BY <1>2, <1>3, JobsAssumption
<1>5. from + 1 \in Int /\ to \in Int /\ \A x \in (from + 1)..to : table[x] \in Int
  BY <1>2, <1>4 DEF TableTyped
<1>6. /\ SubSeq(table, from + 1, to) \in Seq(Int)
      /\ Len(SubSeq(table, from + 1, to)) =
           IF from + 1 <= to THEN to - (from + 1) + 1 ELSE 0
  BY ONLY <1>5, SubSeqProperties
<1>7. Len(SubSeq(table, from + 1, to)) = to - from
  BY <1>2, <1>4, <1>6
<1>8. Page(from) = SubSeq(table, from + 1, to)
  BY <1>1 DEF Page
<1> QED BY <1>4, <1>6, <1>7, <1>8

(* They leave what imports applied, and no row but their own changes.         *)
LEMMA OtherGoesOn ==
  ASSUME IInv, NEW k \in Kinds \ {"import"}, Busy(k),
         NEW new, new \in Working /\ new.id = worker[k].id,
         worker' = [worker EXCEPT ![k] = new],
         UNCHANGED <<jobs, made, applied, abort>>
  PROVE  IInv'
<1>1. Rested
  BY DEF Rested, Onward, Busy, IInv, Typed
<1> QED
  BY <1>1, WorkersStop DEF IInv, Typed

LEMMA ExportKeeps ==
  ASSUME IInv, TableTyped, "export" \in Kinds, Export
  PROVE  IInv'
<1> DEFINE w == worker["export"]
<1>1. Busy("export")
  <2>1. w.pc \in {"export", "part", "progress", "finalize", "complete"}
    BY DEF Export, ExportBatch, WritePart, ExportProgress, OpenTarget, FinalizeExport,
           ExportDone, ExportFails, Is
  <2> QED
    BY <2>1 DEF Busy
<1>2. w \in Working /\ w.id \in 1..made /\ (w.pc = "export" => "export" \in Labels \ {"idle"})
  <2>1. w \in Working
    BY <1>1, BusyWorks DEF IInv
  <2>2. w.id \in Ids /\ w.id <= made
    BY <1>1, <2>1 DEF IInv, OwnKind, Working
  <2> QED
    BY <2>1, <2>2, JobsAssumption DEF Ids, IInv, Typed, Working
<1>3. {"export", "part", "progress", "finalize", "complete"} \subseteq Labels \ {"idle"}
  BY DEF Labels
<1>4. w.id \in Ids /\ w.count \in Nat /\ w.parts \in Int /\ w.batch \in Seq(Int)
  BY <1>2 DEF Working
<1> USE DEF Requests
<1>5. CASE ExportBatch
  <2>1. CASE w.count >= Len(table)
    <3> DEFINE new == [w EXCEPT !.pc = "finalize"]
    <3>1. worker' = [worker EXCEPT !["export"] = new]
      BY <1>5, <2>1 DEF ExportBatch, Go
    <3>2. new \in Working /\ new.id = w.id
      BY <1>2, <1>3 DEF Working
    <3> HIDE DEF new
    <3> QED
      BY <1>1, <1>5, <3>1, <3>2, OtherGoesOn DEF ExportBatch
  <2>2. CASE ~(w.count >= Len(table))
    <3> DEFINE page == Page(w.count)
               new == [w EXCEPT !.pc = "part", !.batch = page]
    <3>1. worker' = [worker EXCEPT !["export"] = new]
      BY <1>5, <2>2 DEF ExportBatch, Go
    <3>2. page \in Seq(Int)
      <4>1. w.count \in 0..Len(table)
        BY <1>4, <2>2 DEF TableTyped
      <4> QED
        BY <4>1, PageIsSpan
    <3> HIDE DEF page
    <3>3. new \in Working /\ new.id = w.id
      BY <1>2, <1>3, <3>2 DEF Working
    <3> HIDE DEF new
    <3> QED
      BY <1>1, <1>5, <3>1, <3>3, OtherGoesOn DEF ExportBatch
  <2> QED
    BY <2>1, <2>2
<1>6. CASE WritePart
  <2> DEFINE count == w.count + Len(w.batch)
             new == [w EXCEPT !.pc = "progress", !.parts = w.parts + 1, !.count = count]
  <2>1. worker' = [worker EXCEPT !["export"] = new]
    BY <1>6 DEF WritePart, PartNumber, Go
  <2>2. count \in Nat /\ w.parts + 1 \in Int
    BY <1>4
  <2> HIDE DEF count
  <2>3. new \in Working /\ new.id = w.id
    BY <1>2, <1>3, <2>2 DEF Working
  <2> HIDE DEF new
  <2> QED
    BY <1>1, <1>6, <2>1, <2>3, OtherGoesOn DEF WritePart
<1>7. jobs[w.id] # None => /\ Exported(jobs[w.id]) \in Shape
                           /\ Exported(jobs[w.id]).kind = jobs[w.id].kind
                           /\ Exported(jobs[w.id]).status = jobs[w.id].status
                           /\ jobs[w.id].kind = "export"
  <2> DEFINE old == jobs[w.id]
  <2>1. old # None => old \in Shape /\ old.kind = "export"
    BY <1>1, <1>4 DEF IInv, Typed, OwnKind
  <2>2. Exported(old) = [old EXCEPT !.count = w.count, !.parts = w.parts]
    BY DEF Exported
  <2> HIDE DEF old
  <2>3. old # None => /\ Exported(old) \in Shape /\ Exported(old).kind = old.kind
                      /\ Exported(old).status = old.status
    BY <1>4, <2>1, <2>2 DEF Shape
  <2> QED
    BY <2>1, <2>3 DEF old
<1>8. CASE ExportProgress
  <2> DEFINE label == IF Len(w.batch) < BatchSize THEN "finalize" ELSE "export"
             new == [w EXCEPT !.batch = <<>>, !.pc = label]
             row == IF jobs[w.id] = None THEN None ELSE Exported(jobs[w.id])
  <2>1. worker' = [worker EXCEPT !["export"] = new] /\ UNCHANGED <<made, applied, abort>>
    BY <1>8 DEF ExportProgress, Go
  <2>2. label \in Labels \ {"idle"} /\ <<>> \in Seq(Int)
    BY <1>3
  <2> HIDE DEF label
  <2>3. new \in Working /\ new.id = w.id
    BY <1>2, <2>2 DEF Working
  <2> HIDE DEF new
  <2>4. jobs' = [jobs EXCEPT ![w.id] = row]
    BY <1>4, <1>8 DEF ExportProgress, IInv, Typed
  <2>5. Changed(w.id, row)
    BY <1>2, <1>7, <2>4 DEF Changed
  <2>6. Rested
    BY <1>1, <2>1, <2>3 DEF Rested, Onward, Busy, IInv, Typed
  <2>7. ~(Busy("import") /\ worker["import"].id = w.id /\ row # None)
    <3>1. row # None => jobs[w.id] # None
      OBVIOUS
    <3>2. Busy("import") /\ worker["import"].id = w.id /\ jobs[w.id] # None
            => jobs[w.id].kind = "import"
      BY DEF IInv, OwnKind, Busy
    <3> HIDE DEF row
    <3> QED
      BY <1>7, <3>1, <3>2
  <2>8. Busy("import")' => Busy("import")
    BY <2>1 DEF Busy, IInv, Typed
  <2> HIDE DEF row
  <2> QED
    BY <2>1, <2>5, <2>6, <2>7, <2>8, RowChangeAtRest DEF IInv, Typed
<1>9. CASE FinalizeExport
  <2> DEFINE new == [w EXCEPT !.pc = "complete"]
  <2>1. worker' = [worker EXCEPT !["export"] = new]
    BY <1>9 DEF FinalizeExport, Work, Go
  <2>2. new \in Working /\ new.id = w.id
    BY <1>2, <1>3 DEF Working
  <2> HIDE DEF new
  <2> QED
    BY <1>1, <1>9, <2>1, <2>2, OtherGoesOn DEF FinalizeExport
<1>12. CASE OpenTarget
  BY <1>12, WorkersStop DEF OpenTarget, Rested, Onward, IInv, Typed
<1>10. CASE ExportDone
  BY <1>1, <1>7, <1>10, SettledRow DEF ExportDone, Claimed
<1>11. CASE ExportFails
  <2>1. Settle("export", "failed", jobs[w.id])
    BY <1>11 DEF ExportFails, FailJob, Claimed
  <2>2. jobs[w.id] # None => jobs[w.id] \in Shape
    BY <1>4 DEF IInv, Typed
  <2> QED
    BY <1>1, <2>1, <2>2, SettledRow
<1> QED
  BY <1>5, <1>6, <1>8, <1>9, <1>10, <1>11, <1>12 DEF Export

LEMMA TickKeeps ==
  ASSUME IInv, TableTyped, NEW k \in Kinds, Tick(k)
  PROVE  IInv'
<1>1. CASE Pick(k)
  BY <1>1, Picked
<1>2. CASE Claim(k)
  BY <1>2, ClaimedRow
<1>3. CASE RunSimpleJob(k)
  <2>1. Busy(k) /\ k # "import"
    BY <1>3 DEF RunSimpleJob, Is, Busy
  <2>2. worker[k].id \in Ids
    BY <2>1, BusyWorks DEF IInv, Working
  <2>3. jobs[worker[k].id] # None => jobs[worker[k].id] \in Shape
    BY <2>2 DEF IInv, Typed
  <2>4. Settle(k, "completed", jobs[worker[k].id]) \/ Settle(k, "failed", jobs[worker[k].id])
    BY <1>3, <2>1 DEF RunSimpleJob, FailJob, Claimed
  <2> QED
    BY <2>1, <2>3, <2>4, SettledRow
<1>4. CASE k = "import" /\ Import
  BY <1>4, ImportKeeps
<1>5. CASE k = "export" /\ Export
  BY <1>5, ExportKeeps
<1> QED
  BY <1>1, <1>2, <1>3, <1>4, <1>5 DEF Tick

------------------------------------------------------------------------------
LEMMA TableAtFirst ==
  Init => TableTyped
<1>1. PICK t : t = [n \in 1..Rows |-> n]
  OBVIOUS
<1>2. t \in Seq(Int)
  BY <1>1, JobsAssumption
<1> QED BY <1>1, <1>2 DEF Init, TableTyped

LEMMA TableKept ==
  ASSUME TableTyped, [Next]_vars
  PROVE  TableTyped'
<1>1. CASE WriteTable
  <2>1. PICK row : row = Rows + edits + 1
    OBVIOUS
  <2>2. row \in Int /\ edits' \in Nat /\ <<row>> \in Seq(Int)
    BY <1>1, <2>1, JobsAssumption DEF WriteTable, TableTyped
  <2>3. ASSUME NEW at \in 1..(Len(table) + 1)
        PROVE  /\ SubSeq(table, 1, at - 1) \in Seq(Int)
               /\ SubSeq(table, at, Len(table)) \in Seq(Int)
               /\ SubSeq(table, at + 1, Len(table)) \in Seq(Int)
    BY SubSeqProperties DEF TableTyped
  <2>4. ASSUME NEW at \in 1..(Len(table) + 1), table' = InsertAt(table, at, row)
        PROVE  table' \in Seq(Int)
    <3>1. SubSeq(table, 1, at - 1) \o <<row>> \in Seq(Int)
      BY <2>2, <2>3, ConcatProperties
    <3> QED BY <2>3, <2>4, <3>1, ConcatProperties DEF InsertAt
  <2>5. ASSUME NEW at \in 1..Len(table),
               table' \in {ReplaceAt(table, at, row), RemoveAt(table, at)}
        PROVE  table' \in Seq(Int)
    <3>1. at \in 1..(Len(table) + 1)
      BY DEF TableTyped
    <3>2. ReplaceAt(table, at, row) \in Seq(Int)
      BY <2>2 DEF ReplaceAt, TableTyped
    <3>3. RemoveAt(table, at) \in Seq(Int)
      BY <2>3, <3>1, ConcatProperties DEF RemoveAt
    <3> QED BY <2>5, <3>2, <3>3
  <2> QED BY <1>1, <2>1, <2>2, <2>4, <2>5 DEF WriteTable, TableTyped
<1>2. CASE ~WriteTable
  <2>1. UNCHANGED <<table, edits>>
    <3> USE DEF Exports, OnlyJobs, Requests, Settle
    <3>1. CASE Request
      BY <3>1 DEF Request, ImportJsonl, ExportJsonl, CreateBackup, EnqueueAdminJob, Enqueue,
         ContinueJob, AbortGuarded, AbortRead, AbortWrite
    <3>2. ASSUME NEW k \in Kinds, Pick(k) \/ Claim(k) \/ RunSimpleJob(k) \/ Cleanup(k) \/ WorkerGone(k)
          PROVE  UNCHANGED <<table, edits>>
      BY <3>2 DEF Pick, Claim, RunSimpleJob, FailJob, Cleanup, WorkerGone
    <3>3. CASE Import
      BY <3>3 DEF Import, ReadLine, EndOfSource, ApplyBatch, PersistProgress, ImportDone,
         ImportFails, FailJob
    <3>4. CASE Export
      BY <3>4 DEF Export, ExportBatch, WritePart, ExportProgress, OpenTarget, FinalizeExport,
         ExportDone, ExportFails, FailJob
    <3>5. CASE Stop \/ UNCHANGED vars
      BY <3>5 DEF Stop, vars
    <3> QED BY <1>2, <3>1, <3>2, <3>3, <3>4, <3>5 DEF Next, Tick
  <2> QED BY <2>1 DEF TableTyped
<1> QED BY <1>1, <1>2

LEMMA NextKeeps ==
  ASSUME IInv, TableTyped, [Next]_vars
  PROVE  IInv'
<1>1. CASE Request
  BY <1>1, Requested
<1>2. CASE Stop
  BY <1>2, WorkersStop DEF Stop, Rested, Onward, Requests, IInv, Typed, Busy, Resting
<1>3. ASSUME NEW k \in Kinds, Tick(k)
      PROVE  IInv'
  BY <1>3, TickKeeps
<1>4. ASSUME NEW k \in Kinds, Cleanup(k)
      PROVE  IInv'
  <2>1. PICK i \in Stored : jobs' = [jobs EXCEPT ![i] = None]
    BY <1>4 DEF Cleanup
  <2>2. i \in 1..made
    BY JobsAssumption DEF IInv, Typed, Unused, Stored, Ids
  <2>3. Changed(i, None)
    BY <2>1, <2>2 DEF Changed
  <2>4. Rested /\ UNCHANGED <<made, applied, abort>>
    BY <1>4 DEF Cleanup, OnlyJobs, Requests, Rested, Onward, IInv, Typed
  <2> QED
    BY <2>3, <2>4, RowChangeAtRest DEF IInv, Typed
<1>5. ASSUME NEW k \in Kinds, WorkerGone(k)
      PROVE  IInv'
  BY <1>5, WorkersStop
     DEF WorkerGone, Go, Rested, Onward, Requests, IInv, Typed, Busy, Resting
<1>7. CASE WriteTable
  BY <1>7, WorkersStop DEF WriteTable, Requests, Rested, Onward, IInv, Typed
<1>6. CASE UNCHANGED vars
  BY <1>6, WorkersStop DEF vars, Rested, Onward, IInv, Typed
<1> QED
  BY <1>1, <1>2, <1>3, <1>4, <1>5, <1>6, <1>7 DEF Next

(* A retried import never applies a line twice, whatever its batch size, the  *)
(* number of retries and aborts, the failures and the stops: jobs_ops.rs       *)
(* records the reader's position whenever it lets go of a row.  A source that  *)
(* is resumed by line number (Packed) is left out.                            *)
THEOREM LinesAppliedAtMostOnce ==
  ~Packed => (Spec => []AppliedAtMostOnce)
<1> SUFFICES ASSUME ~Packed
             PROVE  Spec => []AppliedAtMostOnce
  OBVIOUS
<1>1. Init => IInv /\ TableTyped
  BY Initially, TableAtFirst
<1>2. IInv /\ TableTyped /\ [Next]_vars => (IInv /\ TableTyped)'
  BY NextKeeps, TableKept
<1>3. IInv => AppliedAtMostOnce
  BY DEF IInv, NoLineTwice
<1> QED
  BY <1>1, <1>2, <1>3, PTL DEF Spec

------------------------------------------------------------------------------
(* ExportWhole.  What makes it inductive: while an export is calm, parts 1..n *)
(* of its path continue one another up to row number count of the table, n    *)
(* and count being what the worker has done, or what the row records of an     *)
(* earlier attempt; a part that a failed attempt wrote beyond them is         *)
(* replaced.  An export that has not begun holds no row to its path.          *)

Paged(t, pages, n, count) ==
  /\ n \in Nat
  /\ \E ends \in [0..n -> 0..Len(t)] :
       /\ ends[0] = 0 /\ ends[n] = count
       /\ \A p \in 1..n : /\ p \in DOMAIN pages /\ ends[p - 1] <= ends[p]
                          /\ pages[p] = SubSeq(t, ends[p - 1] + 1, ends[p])

PartsTyped == DOMAIN parts = Paths /\ DOMAIN target = Paths /\ calm \in [Ids -> BOOLEAN]

PagedRows ==
  \A i \in Stored : jobs[i].kind = "export" =>
    /\ jobs[i].path \in Paths
    /\ calm[i] /\ jobs[i].status \in Waiting \cup {"failed"} =>
         Paged(table, parts[jobs[i].path], jobs[i].parts, jobs[i].count)

Calm(t, pages, file, w, row) ==
  LET next == w.count + Len(w.batch) IN
  /\ w.pc # "complete" => Paged(t, pages, w.parts, w.count)
  /\ w.pc # "complete" /\ row # None =>
       row.parts <= w.parts /\ Paged(t, pages, row.parts, row.count)
  /\ w.pc = "part" =>
       /\ w.batch = SubSeq(t, w.count + 1, next) /\ next <= Len(t)
       /\ Len(w.batch) < BatchSize => next = Len(t)
  /\ w.pc = "progress" /\ Len(w.batch) < BatchSize => w.count = Len(t)
  /\ w.pc = "finalize" => w.count = Len(t)
  /\ w.pc = "complete" => file = t

Exporter ==
  Busy("export") =>
    LET w == worker["export"]
        row == jobs[w.id]
    IN
    /\ w.path \in Paths
    /\ row # None => row.path = w.path
    /\ row # None /\ w.pc # "claim" => row.status \in {"running", "aborted"}
    /\ calm[w.id] => Calm(table, parts[w.path], target[w.path], w, row)

XInv == IInv /\ TableTyped /\ PartsTyped /\ PagedRows /\ Exporter

(* What ExportWhole says of a step. *)
WholeStep == \A i \in Ids : Completes(i) /\ calm[i] => target[jobs[i].path] = table
Kept == PartsTyped' /\ PagedRows' /\ Exporter' /\ WholeStep

(* What other requests and workers may do to the rows of exports. *)
KeptRow(i) ==
  jobs'[i] # None /\ jobs'[i].kind = "export" =>
    /\ jobs[i] # None /\ jobs[i].kind = "export" /\ jobs'[i].path = jobs[i].path
    /\ jobs'[i].parts = jobs[i].parts /\ jobs'[i].count = jobs[i].count
    /\ \/ jobs'[i].status \in {jobs[i].status, "aborted"}
       \/ jobs[i].status = "failed" /\ jobs'[i].status \in Waiting
SameKind(i) == jobs[i] # None /\ jobs'[i] # None => jobs'[i].kind = jobs[i].kind

(* A nonempty set of numbers has a least one: what induction needs.           *)
LEMMA LeastNumber ==
  ASSUME NEW T \in SUBSET Nat, T # {}
  PROVE  \E m \in T : \A n \in T : m <= n
<1>1. PICK m \in T : \A n \in T : <<n, m>> \notin OpToRel(<, Nat)
  BY NatLessThanWellFounded, WFMin
<1>2. \A n \in T : ~(n < m)
  BY <1>1 DEF OpToRel
<1> QED BY <1>2

LEMMA SpansJoin ==
  ASSUME NEW t \in Seq(Int), NEW a \in 0..Len(t), NEW b \in 0..Len(t), a <= b
  PROVE  SubSeq(t, 1, a) \o SubSeq(t, a + 1, b) = SubSeq(t, 1, b)
<1>1. 1 \in 1..(Len(t) + 1) /\ a \in (1 - 1)..Len(t) /\ b \in a..Len(t)
  OBVIOUS
<1> QED BY <1>1, ConcatAdjacentSubSeq

(* FlattenSeq joins parts that continue one another into all they cover.      *)
LEMMA Joined ==
  ASSUME NEW t \in Seq(Int), NEW s \in Seq(Seq(Int)),
         NEW ends \in [0..Len(s) -> 0..Len(t)], ends[0] = 0,
         \A p \in 1..Len(s) :
           ends[p - 1] <= ends[p] /\ s[p] = SubSeq(t, ends[p - 1] + 1, ends[p])
  PROVE  FlattenSeq(s) = SubSeq(t, 1, ends[Len(s)])
<1> DEFINE k == Len(s)
           F == [i \in 1..k |-> SubSeq(t, 1, ends[i])]
<1>1. k \in Nat
  OBVIOUS
<1>2. CASE k = 0
  <2>1. s = <<>> /\ FlattenSeq(s) = s /\ ends[k] = 0
    BY <1>2, EmptySeq DEF FlattenSeq
  <2>2. SubSeq(t, 1, 0) = <<>>
    BY SubSeqEmpty
  <2> QED BY <1>2, <2>1, <2>2
<1>3. CASE k # 0
  <2>1. ASSUME NEW i \in 1..k
        PROVE  /\ i = 1 => F[i] = s[i]
               /\ i # 1 => i - 1 \in 1..k /\ F[i] = F[i - 1] \o s[i]
    <3>0. i - 1 \in 0..Len(s) /\ i \in 0..Len(s) /\ i \in 1..Len(s)
      BY <1>1, <2>1
    <3>1. /\ ends[i - 1] \in 0..Len(t) /\ ends[i] \in 0..Len(t) /\ ends[i - 1] <= ends[i]
          /\ s[i] = SubSeq(t, ends[i - 1] + 1, ends[i])
      BY <3>0
    <3>2. SubSeq(t, 1, ends[i - 1]) \o s[i] = SubSeq(t, 1, ends[i])
      BY <3>1, SpansJoin
    <3>3. CASE i = 1
      <4>1. i - 1 = 0
        BY <3>3
      <4>2. ends[i - 1] + 1 = 1
        BY <4>1
      <4>3. s[i] = SubSeq(t, 1, ends[i])
        BY <3>1, <4>2
      <4>4. F[i] = SubSeq(t, 1, ends[i])
        OBVIOUS
      <4> HIDE DEF F
      <4> QED BY <3>3, <4>3, <4>4
    <3>4. CASE i # 1
      <4>1. i - 1 \in 1..k
        BY <1>1, <3>4
      <4>2. F[i - 1] = SubSeq(t, 1, ends[i - 1]) /\ F[i] = SubSeq(t, 1, ends[i])
        BY <4>1
      <4> HIDE DEF F
      <4> QED BY <3>2, <3>4, <4>1, <4>2
    <3> QED BY <3>3, <3>4
  <2> HIDE DEF F
  <2>2. F = [i \in 1..k |-> IF i = 1 THEN s[i] ELSE F[i - 1] \o s[i]]
    <3>1. F = [i \in 1..k |-> F[i]]
      BY DEF F
    <3> QED BY <2>1, <3>1
  <2>3. PICK g : /\ g = [i \in 1..k |-> IF i = 1 THEN s[i] ELSE g[i - 1] \o s[i]]
                 /\ FlattenSeq(s) = g[k]
    BY <1>3, <2>2 DEF FlattenSeq
  <2>4. \A i \in 1..k : g[i] = F[i]
    <3> DEFINE T == {i \in 1..k : g[i] # F[i]}
    <3> SUFFICES ASSUME T # {} PROVE FALSE
      OBVIOUS
    <3>1. PICK m \in T : \A n \in T : m <= n
      <4>1. T \in SUBSET Nat
        OBVIOUS
      <4> QED BY <4>1, LeastNumber
    <3>2. m \in 1..k /\ g[m] # F[m]
      OBVIOUS
    <3>3. g[m] = IF m = 1 THEN s[m] ELSE g[m - 1] \o s[m]
      BY <2>3, <3>2
    <3>4. CASE m = 1
      BY <2>1, <3>2, <3>3, <3>4
    <3>5. CASE m # 1
      <4>1. m - 1 \in 1..k /\ ~(m <= m - 1)
        BY <1>1, <3>2, <3>5
      <4>2. g[m - 1] = F[m - 1]
        BY <3>1, <4>1
      <4> QED BY <2>1, <3>2, <3>3, <3>5, <4>2
    <3> QED BY <3>4, <3>5
  <2>5. k \in 1..k
    BY <1>1, <1>3
  <2>6. FlattenSeq(s) = F[k]
    BY <2>3, <2>4, <2>5
  <2> QED BY <2>5, <2>6 DEF F
<1> QED BY <1>2, <1>3

LEMMA PagedNone ==
  ASSUME NEW t \in Seq(Int), NEW pages
  PROVE  Paged(t, pages, 0, 0)
<1>1. PICK ends : ends = [q \in 0..0 |-> 0]
  OBVIOUS
<1>2. ends \in [0..0 -> 0..Len(t)] /\ ends[0] = 0 /\ \A p \in 1..0 : FALSE
  BY <1>1
<1> QED BY <1>2 DEF Paged

LEMMA PagedBounds ==
  ASSUME NEW t \in Seq(Int), NEW pages, NEW n, NEW count, Paged(t, pages, n, count)
  PROVE  n \in Nat /\ count \in 0..Len(t) /\ (n = 0 => count = 0)
<1>1. n \in Nat
  BY DEF Paged
<1>2. PICK ends \in [0..n -> 0..Len(t)] : ends[0] = 0 /\ ends[n] = count
  BY DEF Paged
<1>3. n \in 0..n
  BY <1>1
<1> QED BY <1>1, <1>2, <1>3

LEMMA PagedPrefix ==
  ASSUME NEW t, NEW pages, NEW n, NEW count, Paged(t, pages, n, count), NEW other,
         \A p \in 1..n : p \in DOMAIN other /\ other[p] = pages[p]
  PROVE  Paged(t, other, n, count)
BY DEF Paged

LEMMA PagedExtend ==
  ASSUME NEW t \in Seq(Int), NEW pages, NEW n, NEW count, NEW next, Paged(t, pages, n, count),
         n + 1 \in DOMAIN pages, pages[n + 1] = SubSeq(t, count + 1, next),
         count <= next, next \in 0..Len(t)
  PROVE  Paged(t, pages, n + 1, next)
<1>1. PICK ends \in [0..n -> 0..Len(t)] :
       /\ ends[0] = 0 /\ ends[n] = count
       /\ \A p \in 1..n : /\ p \in DOMAIN pages /\ ends[p - 1] <= ends[p]
                          /\ pages[p] = SubSeq(t, ends[p - 1] + 1, ends[p])
  BY DEF Paged
<1>2. n \in Nat /\ n + 1 \in Nat
  BY DEF Paged
<1> DEFINE more == [q \in 0..(n + 1) |-> IF q = n + 1 THEN next ELSE ends[q]]
<1>3. /\ more \in [0..(n + 1) -> 0..Len(t)] /\ more[0] = 0 /\ more[n + 1] = next
      /\ \A q \in 0..n : more[q] = ends[q]
  BY <1>1, <1>2
<1> HIDE DEF more
<1>4. ASSUME NEW p \in 1..(n + 1)
      PROVE  /\ p \in DOMAIN pages /\ more[p - 1] <= more[p]
             /\ pages[p] = SubSeq(t, more[p - 1] + 1, more[p])
  <2>1. CASE p = n + 1
    <3>1. p - 1 = n /\ n \in 0..n
      BY <1>2, <2>1
    <3> QED BY <1>1, <1>2, <1>3, <2>1, <3>1
  <2>2. CASE p # n + 1
    <3>1. p \in 1..n /\ p - 1 \in 0..n /\ p \in 0..n
      BY <1>2, <2>2
    <3> QED BY <1>1, <1>3, <3>1
  <2> QED BY <2>1, <2>2
<1> QED BY <1>2, <1>3, <1>4 DEF Paged

LEMMA PagedJoined ==
  ASSUME NEW t \in Seq(Int), NEW pages, NEW n, Paged(t, pages, n, Len(t))
  PROVE  /\ FlattenSeq([p \in 1..n |-> pages[p]]) = t
         /\ 1..n \subseteq DOMAIN pages
<1>1. PICK ends \in [0..n -> 0..Len(t)] :
       /\ ends[0] = 0 /\ ends[n] = Len(t)
       /\ \A p \in 1..n : /\ p \in DOMAIN pages /\ ends[p - 1] <= ends[p]
                          /\ pages[p] = SubSeq(t, ends[p - 1] + 1, ends[p])
  BY DEF Paged
<1>2. n \in Nat
  BY DEF Paged
<1>3. PICK s : s = [p \in 1..n |-> pages[p]]
  OBVIOUS
<1>4. ASSUME NEW p \in 1..n PROVE pages[p] \in Seq(Int)
  <2>1. p - 1 \in 0..n /\ p \in 0..n
    BY <1>2
  <2>2. PICK a, b : a = ends[p - 1] + 1 /\ b = ends[p]
    OBVIOUS
  <2>3. a \in Int /\ b \in Int /\ \A x \in a..b : t[x] \in Int
    <3>1. ends[p - 1] \in 0..Len(t) /\ b \in 0..Len(t)
      BY <1>1, <2>1, <2>2
    <3> QED BY <2>2, <3>1
  <2>4. SubSeq(t, a, b) \in Seq(Int)
    BY ONLY <2>3, SubSeqProperties
  <2> QED BY <1>1, <2>2, <2>4
<1>5. s \in Seq(Seq(Int)) /\ Len(s) = n /\ \A p \in 1..n : s[p] = pages[p]
  BY <1>2, <1>3, <1>4
<1>6. FlattenSeq(s) = SubSeq(t, 1, ends[Len(s)])
  BY <1>1, <1>5, Joined
<1>7. SubSeq(t, 1, Len(t)) = t
  BY SubSeqFull
<1> QED BY <1>1, <1>3, <1>5, <1>6, <1>7

(* Others leave the exporter, and rows that they may abort or reopen.         *)
LEMMA OthersKeepExports ==
  ASSUME XInv, IInv', UNCHANGED Exports, \A i \in Ids : KeptRow(i) /\ SameKind(i),
         Busy("export")' => Busy("export") /\ worker'["export"] = worker["export"]
  PROVE  Kept
<1>0. UNCHANGED <<table, edits, parts, target, calm>>
  BY DEF Exports
<1>1. PartsTyped'
  BY <1>0 DEF XInv, PartsTyped
<1>2. PagedRows'
  <2> SUFFICES ASSUME NEW i \in Stored', jobs'[i].kind = "export"
      PROVE  /\ jobs'[i].path \in Paths
             /\ calm'[i] /\ jobs'[i].status \in Waiting \cup {"failed"} =>
                  Paged(table', parts'[jobs'[i].path], jobs'[i].parts, jobs'[i].count)
    BY DEF PagedRows
  <2>1. i \in Ids /\ jobs'[i] # None
    BY DEF Stored
  <2>2. i \in Stored /\ jobs[i].kind = "export" /\ KeptRow(i)
    BY <2>1 DEF KeptRow, Stored
  <2>3. /\ jobs'[i].path = jobs[i].path /\ jobs'[i].parts = jobs[i].parts
        /\ jobs'[i].count = jobs[i].count
        /\ jobs'[i].status \in Waiting \cup {"failed"} => jobs[i].status \in Waiting \cup {"failed"}
    BY <2>1, <2>2 DEF KeptRow, Waiting
  <2> QED BY <1>0, <2>2, <2>3 DEF XInv, PagedRows
<1>3. ASSUME Busy("export")' PROVE Exporter'
  <2>1. PICK w : w = worker["export"]
    OBVIOUS
  <2>2. w \in Working /\ worker'["export"] = w /\ Busy("export") /\ w.id \in Ids
    BY <1>3, <2>1, BusyWorks DEF XInv, IInv, Working
  <2>3. jobs'[w.id] # None => jobs'[w.id].kind = "export"
    BY <1>3, <2>2 DEF IInv, OwnKind, Busy
  <2>4. KeptRow(w.id)
    BY <2>2
  <2>5. jobs'[w.id] # None =>
          /\ jobs[w.id] # None /\ jobs'[w.id].path = jobs[w.id].path
          /\ jobs'[w.id].parts = jobs[w.id].parts /\ jobs'[w.id].count = jobs[w.id].count
          /\ jobs[w.id].status \in {"running", "aborted"} => jobs'[w.id].status \in {"running", "aborted"}
    BY <2>3, <2>4 DEF KeptRow
  <2>6. calm[w.id] => Calm(table, parts[w.path], target[w.path], w, jobs[w.id])
    BY <2>1, <2>2 DEF XInv, Exporter
  <2>8. calm'[w.id] => Calm(table', parts'[w.path], target'[w.path], w, jobs'[w.id])
    BY <1>0, <2>5, <2>6 DEF Calm
  <2> QED BY <1>0, <2>1, <2>2, <2>5, <2>8 DEF Exporter, XInv
<1>4. WholeStep
  BY DEF WholeStep, Completes, KeptRow, SameKind, Waiting
<1> QED BY <1>1, <1>2, <1>3, <1>4 DEF Exporter, Kept

LEMMA RequestsKeepExports ==
  ASSUME XInv, IInv', Request
  PROVE  Kept
<1>1. UNCHANGED worker /\ UNCHANGED Exports
  BY DEF Request, ImportJsonl, ExportJsonl, CreateBackup, EnqueueAdminJob, Enqueue, ContinueJob,
         AbortGuarded, AbortRead, AbortWrite, OnlyJobs
<1>2. Busy("export")' => Busy("export") /\ worker'["export"] = worker["export"]
  BY <1>1 DEF Busy
<1>3. jobs \in [Ids -> Shape \cup {None}]
  BY DEF XInv, IInv, Typed
<1>4. CASE ImportJsonl \/ ExportJsonl \/ CreateBackup \/ EnqueueAdminJob
  <2>1. PICK kind, hash, resumable, path :
          Enqueue(kind, hash, resumable, path) /\ (kind = "export" => path \in Paths)
    <3>1. CASE ImportJsonl
      <4>1. PICK hash, resumable : Enqueue("import", hash, resumable, None)
        BY <3>1 DEF ImportJsonl
      <4> QED BY <4>1
    <3>2. CASE ExportJsonl
      <4>1. PICK path \in Paths : Enqueue("export", None, TRUE, path)
        BY <3>2 DEF ExportJsonl
      <4> QED BY <4>1
    <3>3. CASE CreateBackup
      <4>1. Enqueue("backup", None, TRUE, None)
        BY <3>3 DEF CreateBackup
      <4>2. "backup" # "export"
        OBVIOUS
      <4> QED BY <4>1, <4>2
    <3>4. CASE EnqueueAdminJob
      <4>1. Enqueue("admin", None, TRUE, None)
        BY <3>4 DEF EnqueueAdminJob
      <4>2. "admin" # "export"
        OBVIOUS
      <4> QED BY <4>1, <4>2
    <3> QED BY <1>4, <3>1, <3>2, <3>3, <3>4
  <2>2. /\ made + 1 \in Ids /\ jobs[made + 1] = None
        /\ \A i \in Ids : i # made + 1 => jobs'[i] = jobs[i]
        /\ jobs'[made + 1].parts = 0 /\ jobs'[made + 1].count = 0
        /\ jobs'[made + 1].status = "queued" /\ jobs'[made + 1].path = path
        /\ jobs'[made + 1].kind = kind
    <3>1. made \in 0..MaxJobs /\ made < MaxJobs
      BY <2>1 DEF Enqueue, XInv, IInv, Typed
    <3>2. made + 1 \in Ids /\ made + 1 > made
      BY <3>1, JobsAssumption DEF Ids
    <3>3. jobs[made + 1] = None
      BY <3>2 DEF XInv, IInv, Unused
    <3> QED BY <1>3, <2>1, <3>2, <3>3 DEF Enqueue
  <2>3. UNCHANGED <<table, edits, parts, target, calm>>
    BY <1>1 DEF Exports
  <2>4. PagedRows'
    <3> SUFFICES ASSUME NEW i \in Stored', jobs'[i].kind = "export"
        PROVE  /\ jobs'[i].path \in Paths
               /\ calm'[i] /\ jobs'[i].status \in Waiting \cup {"failed"} =>
                    Paged(table', parts'[jobs'[i].path], jobs'[i].parts, jobs'[i].count)
      BY DEF PagedRows
    <3>1. i \in Ids /\ jobs'[i] # None
      BY DEF Stored
    <3>2. CASE i = made + 1
      BY <2>1, <2>2, <2>3, <3>2, PagedNone DEF XInv, TableTyped
    <3>3. CASE i # made + 1
      <4>1. i \in Stored /\ jobs'[i] = jobs[i]
        BY <2>2, <3>1, <3>3 DEF Stored
      <4> QED BY <2>3, <4>1 DEF XInv, PagedRows
    <3> QED BY <3>2, <3>3
  <2>5. ASSUME Busy("export") PROVE worker["export"].id # made + 1 /\ worker["export"].id \in Ids
    <3>1. worker["export"] \in Working
      BY <2>5, BusyWorks DEF XInv, IInv
    <3> QED BY <2>5, <3>1 DEF XInv, IInv, OwnKind, Busy, Working, Ids, Typed
  <2>6. Exporter'
    BY <1>1, <2>2, <2>3, <2>5 DEF Exporter, Busy, XInv
  <2>7. WholeStep
    BY <2>2 DEF WholeStep, Completes
  <2> QED BY <2>3, <2>4, <2>6, <2>7 DEF PartsTyped, XInv, Kept
<1>5. CASE ContinueJob \/ AbortGuarded \/ AbortWrite
  <2>1. \/ jobs' = jobs
        \/ \E i \in Ids, s \in {"aborted", "queued", "retrying"} :
             /\ jobs[i] # None /\ jobs' = SetStatus(i, s)
             /\ s # "aborted" => jobs[i].status = "failed"
    BY <1>5 DEF ContinueJob, AbortGuarded, AbortWrite, Stored, XInv, IInv, Typed
  <2>2. CASE jobs' = jobs
    BY <1>1, <1>2, <2>2, OthersKeepExports DEF KeptRow, SameKind
  <2>3. ASSUME NEW i \in Ids, NEW s \in {"aborted", "queued", "retrying"},
               jobs[i] # None, jobs' = SetStatus(i, s), s # "aborted" => jobs[i].status = "failed"
        PROVE  \A n \in Ids : KeptRow(n) /\ SameKind(n)
    <3>1. jobs[i] \in Shape
      BY <1>3, <2>3
    <3>2. jobs'[i] = [jobs[i] EXCEPT !.status = s] /\ \A n \in Ids : n # i => jobs'[n] = jobs[n]
      BY <1>3, <2>3 DEF SetStatus
    <3>3. /\ jobs'[i].kind = jobs[i].kind /\ jobs'[i].parts = jobs[i].parts
          /\ jobs'[i].count = jobs[i].count /\ jobs'[i].status = s /\ jobs'[i].path = jobs[i].path
      BY <3>1, <3>2 DEF Shape
    <3> QED BY <2>3, <3>2, <3>3 DEF KeptRow, SameKind, Waiting
  <2> QED BY <1>1, <1>2, <2>1, <2>2, <2>3, OthersKeepExports
<1>6. CASE AbortRead
  BY <1>1, <1>2, <1>6, OthersKeepExports DEF AbortRead, KeptRow, SameKind
<1> QED BY <1>4, <1>5, <1>6 DEF Request

(* A write to the table disturbs every export that has begun. *)
LEMMA WritesKeepExports ==
  ASSUME XInv, WriteTable
  PROVE  Kept
<1>1. /\ UNCHANGED <<jobs, worker, parts, target>>
      /\ \A i \in Ids : calm'[i] = (calm[i] /\ ~Begun(i))
  BY DEF WriteTable, Disturb
<1>2. table \in Seq(Int) /\ table' \in Seq(Int)
  BY TableKept DEF XInv, TableTyped, Next
<1>3. PartsTyped'
  BY <1>1 DEF XInv, PartsTyped, WriteTable, Disturb
<1>4. PagedRows'
  <2> SUFFICES ASSUME NEW i \in Stored, jobs[i].kind = "export", calm'[i],
                      jobs[i].status \in Waiting \cup {"failed"}
      PROVE  Paged(table', parts[jobs[i].path], jobs[i].parts, jobs[i].count)
    BY <1>1 DEF PagedRows, Stored, XInv
  <2>1. calm[i] /\ ~Begun(i) /\ i \in Ids /\ jobs[i] # None
    BY <1>1 DEF Stored
  <2>2. Paged(table, parts[jobs[i].path], jobs[i].parts, jobs[i].count)
    BY <2>1 DEF XInv, PagedRows
  <2>3. jobs[i].parts \in Nat /\ (jobs[i].parts = 0 => jobs[i].count = 0)
    BY <1>2, <2>2, PagedBounds
  <2>4. jobs[i].parts = 0 /\ jobs[i].count = 0
    BY <2>1, <2>3 DEF Begun
  <2> QED BY <1>2, <2>4, PagedNone
<1>5. Exporter'
  <2> SUFFICES ASSUME Busy("export")
      PROVE  ~calm'[worker["export"].id]
    BY <1>1 DEF Exporter, Busy, XInv
  <2>1. worker["export"].id \in Ids
    BY BusyWorks DEF XInv, IInv, Working
  <2>2. Begun(worker["export"].id)
    BY DEF Begun, Busy, Is
  <2> QED BY <1>1, <2>1, <2>2
<1>6. WholeStep
  BY <1>1 DEF WholeStep, Completes
<1> QED BY <1>3, <1>4, <1>5, <1>6 DEF Kept

(* The other workers touch rows of their own kind. *)
LEMMA OtherTickKeepsExports ==
  ASSUME XInv, IInv', NEW k \in Kinds \ {"export"}, Tick(k)
  PROVE  Kept
<1>1. /\ jobs \in [Ids -> Shape \cup {None}] /\ worker \in [Kinds -> {Resting} \cup Working]
      /\ PagedRows
  BY DEF XInv, IInv, Typed
<1>2. UNCHANGED Exports /\ \E new : worker' = [worker EXCEPT ![k] = new]
  <2>1. CASE Pick(k)
    BY <2>1 DEF Pick, Go
  <2>2. CASE Claim(k)
    BY <2>2 DEF Claim, Work, Go
  <2>3. CASE RunSimpleJob(k)
    BY <2>3 DEF RunSimpleJob, FailJob, Settle, Go
  <2>4. CASE k = "import" /\ Import
    <3>1. CASE ReadLine
      BY <2>4, <3>1 DEF ReadLine, Go, Requests
    <3>2. CASE EndOfSource
      BY <2>4, <3>2 DEF EndOfSource, Work, Go, Requests
    <3>3. CASE ApplyBatch
      BY <2>4, <3>3 DEF ApplyBatch, Go, Requests
    <3>4. CASE PersistProgress
      BY <2>4, <3>4 DEF PersistProgress, Work, Go, Requests
    <3>5. CASE ImportDone
      BY <2>4, <3>5 DEF ImportDone, Settle, Go, Requests
    <3>6. CASE ImportFails
      BY <2>4, <3>6 DEF ImportFails, FailJob, Settle, Go, Requests
    <3> QED BY <2>4, <3>1, <3>2, <3>3, <3>4, <3>5, <3>6 DEF Import
  <2> QED BY <2>1, <2>2, <2>3, <2>4 DEF Tick
<1>3. Busy("export")' => Busy("export") /\ worker'["export"] = worker["export"]
  BY <1>1, <1>2 DEF Busy
<1>4. CASE jobs' = jobs
  BY <1>2, <1>3, <1>4, OthersKeepExports DEF KeptRow, SameKind
<1>5. ASSUME Busy(k), NEW s \in Statuses, NEW row,
             jobs' = IF jobs[worker[k].id] = None THEN jobs
                     ELSE [jobs EXCEPT ![worker[k].id] = [row EXCEPT !.status = s]],
             jobs[worker[k].id] # None => row \in Shape /\ row.kind = k
      PROVE  Kept
  <2>1. worker[k] \in Working /\ worker[k].id \in Ids
    BY <1>5, BusyWorks DEF XInv, IInv, Working
  <2>2. \A i \in Ids : jobs'[i] = jobs[i] \/ (jobs'[i] # None => jobs'[i].kind = k)
    <3>1. CASE jobs[worker[k].id] = None
      BY <1>5, <3>1
    <3>2. CASE jobs[worker[k].id] # None
      <4>1. [row EXCEPT !.status = s].kind = k
        BY <1>5, <3>2 DEF Shape
      <4> QED BY <1>1, <1>5, <2>1, <3>2, <4>1
    <3> QED BY <3>1, <3>2
  <2>4. ASSUME NEW i \in Ids, jobs'[i] # jobs[i], jobs[i] # None
        PROVE  jobs[i].kind = k
    <3>1. i = worker[k].id
      BY <1>1, <1>5, <2>1, <2>4
    <3> QED BY <1>5, <2>1, <2>4, <3>1 DEF XInv, IInv, OwnKind
  <2>3. \A i \in Ids : KeptRow(i) /\ SameKind(i)
    BY <2>2, <2>4 DEF KeptRow, SameKind
  <2> QED BY <1>2, <1>3, <2>3, OthersKeepExports
<1>6. ASSUME Busy(k), jobs[worker[k].id] # None
      PROVE  jobs[worker[k].id] \in Shape /\ jobs[worker[k].id].kind = k
  <2>1. worker[k].id \in Ids
    BY <1>6, BusyWorks DEF XInv, IInv, Working
  <2> QED BY <1>1, <1>6, <2>1 DEF XInv, IInv, OwnKind
<1>7. CASE Pick(k)
  BY <1>4, <1>7 DEF Pick
<1>8. CASE Claim(k)
  <2>1. Busy(k)
    BY <1>8 DEF Claim, Is, Busy
  <2>2. CASE Claimable(worker[k].id)
    <3>1. jobs' = [jobs EXCEPT ![worker[k].id] = [jobs[worker[k].id] EXCEPT !.status = "running"]]
      BY <1>8, <2>2 DEF Claim, SetStatus
    <3>2. jobs[worker[k].id] # None /\ "running" \in Statuses
      BY <2>2 DEF Claimable, Statuses
    <3> QED BY <1>5, <1>6, <2>1, <3>1, <3>2
  <2> QED BY <1>4, <1>8, <2>2 DEF Claim
<1>9. CASE RunSimpleJob(k)
  <2>1. Busy(k) /\ \E s \in {"completed", "failed"} : Settle(k, s, jobs[worker[k].id])
    BY <1>9 DEF RunSimpleJob, FailJob, Claimed, Is, Busy
  <2> QED BY <1>5, <1>6, <2>1 DEF Settle, Statuses
<1>10. CASE k = "import" /\ Import
  <2>1. CASE ReadLine \/ EndOfSource \/ ApplyBatch
    <3>1. CASE ReadLine
      BY <1>4, <3>1 DEF ReadLine, Requests
    <3>2. CASE EndOfSource
      BY <1>4, <3>2 DEF EndOfSource, Requests
    <3>3. CASE ApplyBatch
      BY <1>4, <3>3 DEF ApplyBatch, Requests
    <3> QED BY <2>1, <3>1, <3>2, <3>3
  <2>2. ASSUME Busy("import"), jobs[worker["import"].id] # None
        PROVE  /\ Position(jobs[worker["import"].id]) \in Shape
               /\ Position(jobs[worker["import"].id]).kind = "import"
               /\ Position(jobs[worker["import"].id]).status = jobs[worker["import"].id].status
    BY <1>6, <1>10, <2>2, PositionOf DEF XInv
  <2>3. CASE ImportDone \/ ImportFails
    <3>1. /\ Busy("import")
          /\ \E s \in {"completed", "failed"} :
               Settle("import", s, Position(jobs[worker["import"].id]))
      <4>1. CASE ImportDone
        BY <1>10, <4>1 DEF ImportDone, Claimed, Is, Busy
      <4>2. CASE ImportFails
        <5>1. worker["import"].pc # "idle"
          BY <4>2 DEF ImportFails, Is
        <5>2. Settle("import", "failed", Position(jobs[worker["import"].id]))
          BY <4>2 DEF ImportFails, FailJob, Claimed
        <5> QED BY <1>10, <5>1, <5>2 DEF Busy
      <4> QED BY <2>3, <4>1, <4>2
    <3> QED BY <1>5, <1>10, <2>2, <3>1 DEF Settle, Statuses
  <2>4. CASE PersistProgress
    <3>1. Busy("import")
      BY <1>10, <2>4 DEF PersistProgress, Is, Busy
    <3>2. CASE jobs[worker["import"].id] # None
      <4> DEFINE row == Position(jobs[worker["import"].id])
      <4>1. jobs' = [jobs EXCEPT ![worker["import"].id] = row]
        BY <2>4, <3>2 DEF PersistProgress
      <4>2. row \in Shape /\ row.kind = "import"
        BY <2>2, <3>1, <3>2
      <4> HIDE DEF row
      <4>3. row = [row EXCEPT !.status = row.status] /\ row.status \in Statuses
        BY <4>2 DEF Shape
      <4> QED BY <1>5, <1>10, <3>1, <3>2, <4>1, <4>2, <4>3
    <3> QED BY <1>4, <2>4, <3>2 DEF PersistProgress
  <2> QED BY <1>10, <2>1, <2>3, <2>4 DEF Import
<1> QED BY <1>7, <1>8, <1>9, <1>10 DEF Tick

------------------------------------------------------------------------------
(* The steps of the export worker itself.                                     *)

LEMMA ExporterAt ==
  ASSUME XInv, Busy("export"), NEW w, w = worker["export"]
  PROVE  /\ "export" \in Kinds /\ w \in Working /\ w.id \in Ids /\ w.path \in Paths
         /\ jobs[w.id] # None =>
              /\ jobs[w.id] \in Shape /\ jobs[w.id].kind = "export"
              /\ jobs[w.id].path = w.path
              /\ w.pc # "claim" => jobs[w.id].status \in {"running", "aborted"}
         /\ calm[w.id] => Calm(table, parts[w.path], target[w.path], w, jobs[w.id])
         /\ table \in Seq(Int) /\ Len(table) \in Nat
<1>1. "export" \in Kinds /\ w \in Working /\ w.id \in Ids
  BY BusyWorks DEF XInv, IInv, Working, Busy
<1>2. jobs[w.id] # None => jobs[w.id] \in Shape /\ jobs[w.id].kind = "export"
  BY <1>1 DEF XInv, IInv, Typed, OwnKind
<1>3. table \in Seq(Int) /\ Len(table) \in Nat
  BY DEF XInv, TableTyped
<1> QED BY <1>1, <1>2, <1>3 DEF XInv, Exporter

(* One row changes; parts change at one path, disturbing the exports to it.   *)
LEMMA PagedElsewhere ==
  ASSUME XInv, NEW i \in Ids, table' = table,
         \A n \in Ids \ {i} : jobs'[n] = jobs[n],
         \A n \in Ids \ {i} : jobs[n] # None /\ jobs[n].kind = "export" /\ calm'[n] =>
           /\ calm[n]
           /\ parts'[jobs[n].path] = parts[jobs[n].path] \/ ~Begun(n),
         jobs'[i] # None /\ jobs'[i].kind = "export" =>
           /\ jobs'[i].path \in Paths
           /\ calm'[i] /\ jobs'[i].status \in Waiting \cup {"failed"} =>
                Paged(table, parts'[jobs'[i].path], jobs'[i].parts, jobs'[i].count)
  PROVE  PagedRows'
<1> SUFFICES ASSUME NEW n \in Stored', jobs'[n].kind = "export"
    PROVE  /\ jobs'[n].path \in Paths
           /\ calm'[n] /\ jobs'[n].status \in Waiting \cup {"failed"} =>
                Paged(table, parts'[jobs'[n].path], jobs'[n].parts, jobs'[n].count)
  BY DEF PagedRows
<1>1. n \in Ids /\ jobs'[n] # None
  BY DEF Stored
<1>2. CASE n = i
  BY <1>1, <1>2
<1>3. CASE n # i
  <2>1. n \in Stored /\ jobs'[n] = jobs[n] /\ n \in Ids \ {i} /\ jobs[n] # None
    BY <1>1, <1>3 DEF Stored
  <2>2. PICK r : r = jobs[n]
    OBVIOUS
  <2>3. r.path \in Paths
    BY <2>1, <2>2 DEF XInv, PagedRows
  <2>4. ASSUME calm'[n], r.status \in Waiting \cup {"failed"}
        PROVE  Paged(table, parts'[r.path], r.parts, r.count)
    <3>1. calm[n] /\ Paged(table, parts[r.path], r.parts, r.count)
      BY <2>1, <2>2, <2>4 DEF XInv, PagedRows
    <3>2. CASE parts'[r.path] = parts[r.path]
      BY <3>1, <3>2
    <3>3. CASE ~Begun(n)
      <4>1. table \in Seq(Int)
        BY DEF XInv, TableTyped
      <4>2. r.parts \in Nat /\ (r.parts = 0 => r.count = 0)
        BY <3>1, <4>1, PagedBounds
      <4>3. r.parts = 0
        BY <2>1, <2>2, <3>3, <4>2 DEF Begun
      <4> QED BY <4>1, <4>2, <4>3, PagedNone
    <3> QED BY <2>1, <2>2, <2>4, <3>2, <3>3
  <2> QED BY <2>1, <2>2, <2>3, <2>4
<1> QED BY <1>2, <1>3

LEMMA PickedExport ==
  ASSUME XInv, Pick("export"), "export" \in Kinds
  PROVE  Kept
<1>1. PICK i \in Oldest("export") :
        worker' = [worker EXCEPT !["export"] =
          [pc |-> "claim", id |-> i, line |-> jobs[i].line, from |-> jobs[i].line,
           pos |-> IF Packed THEN 0 ELSE jobs[i].off,
           off |-> IF Packed THEN 0 ELSE jobs[i].off,
           path |-> jobs[i].path, count |-> jobs[i].count,
           parts |-> jobs[i].parts, batch |-> <<>>]]
  BY DEF Pick, Go
<1>2. UNCHANGED <<jobs, table, edits, parts, target, calm>>
  BY DEF Pick, Exports
<1>3. PartsTyped' /\ PagedRows' /\ WholeStep
  BY <1>2 DEF XInv, PartsTyped, PagedRows, Stored, WholeStep, Completes
<1>4. /\ i \in Ids /\ jobs[i] \in Shape /\ jobs[i].path \in Paths
      /\ calm[i] => Paged(table, parts[jobs[i].path], jobs[i].parts, jobs[i].count)
  BY <1>1 DEF Oldest, Stored, XInv, IInv, Typed, PagedRows
<1>5. PICK v : v = worker'["export"]
  OBVIOUS
<1>6. /\ v.pc = "claim" /\ v.id = i /\ v.count = jobs[i].count /\ v.parts = jobs[i].parts
      /\ v.path = jobs[i].path
  BY <1>1, <1>5 DEF XInv, IInv, Typed
<1>7. jobs[i].parts <= v.parts
  BY <1>4, <1>6 DEF Shape
<1>8. calm[i] => Calm(table, parts[v.path], target[v.path], v, jobs[i])
  BY <1>4, <1>6, <1>7 DEF Calm
<1>9. Exporter'
  BY <1>2, <1>4, <1>5, <1>6, <1>8 DEF Exporter
<1> QED BY <1>3, <1>9 DEF Kept

LEMMA ClaimedExport ==
  ASSUME XInv, Claim("export"), "export" \in Kinds
  PROVE  Kept
<1>1. PICK w : w = worker["export"]
  OBVIOUS
<1>2. Busy("export") /\ w.pc = "claim"
  BY <1>1 DEF Claim, Is, Busy
<1>3. /\ w \in Working /\ w.id \in Ids /\ w.path \in Paths
      /\ jobs[w.id] # None => /\ jobs[w.id] \in Shape /\ jobs[w.id].path = w.path
                              /\ jobs[w.id].kind = "export"
      /\ calm[w.id] => Calm(table, parts[w.path], target[w.path], w, jobs[w.id])
  BY <1>1, <1>2, ExporterAt
<1>4. UNCHANGED <<table, edits, parts, target, calm>>
  BY DEF Claim, Exports
<1>5. PartsTyped'
  BY <1>4 DEF XInv, PartsTyped
<1>6. CASE Claimable(w.id)
  <2>1. jobs' = [jobs EXCEPT ![w.id].status = "running"]
    BY <1>1, <1>6 DEF Claim, SetStatus
  <2>2. /\ jobs[w.id] # None
        /\ \A n \in Ids \ {w.id} : jobs'[n] = jobs[n]
        /\ jobs'[w.id].status = "running" /\ jobs'[w.id].path = w.path
        /\ jobs'[w.id].parts = jobs[w.id].parts /\ jobs'[w.id].count = jobs[w.id].count
    BY <1>3, <1>6, <2>1 DEF Claimable, XInv, IInv, Typed, Shape
  <2>3. PagedRows'
    BY <1>3, <1>4, <2>2, PagedElsewhere DEF Waiting
  <2>4. PICK v : v = worker'["export"]
    OBVIOUS
  <2>5. v = [w EXCEPT !.pc = "export"]
    BY <1>1, <1>6, <2>4 DEF Claim, Work, Go, XInv, IInv, Typed
  <2>6. v.pc = "export" /\ v.id = w.id /\ v.count = w.count /\ v.parts = w.parts /\ v.path = w.path
    BY <1>3, <2>5 DEF Working
  <2>7. calm[w.id] => Calm(table, parts[w.path], target[w.path], v, jobs'[w.id])
    BY <1>2, <1>3, <2>2, <2>6 DEF Calm
  <2>8. Exporter'
    BY <1>3, <1>4, <2>2, <2>4, <2>6, <2>7 DEF Exporter
  <2>9. WholeStep
    BY <2>2 DEF WholeStep, Completes
  <2> QED BY <1>5, <2>3, <2>8, <2>9 DEF Kept
<1>7. CASE ~Claimable(w.id)
  <2>1. UNCHANGED jobs /\ worker'["export"] = Resting
    BY <1>1, <1>7 DEF Claim, Go, XInv, IInv, Typed
  <2>2. PagedRows' /\ WholeStep
    BY <1>4, <2>1 DEF XInv, PagedRows, Stored, WholeStep, Completes
  <2>3. Exporter'
    BY <2>1 DEF Exporter, Busy, Resting
  <2> QED BY <1>5, <2>2, <2>3 DEF Kept
<1> QED BY <1>6, <1>7

LEMMA ExportBatchKeeps ==
  ASSUME XInv, ExportBatch, "export" \in Kinds
  PROVE  Kept
<1>1. PICK w : w = worker["export"]
  OBVIOUS
<1>2. Busy("export") /\ w.pc = "export"
  BY <1>1 DEF ExportBatch, Is, Busy
<1>3. /\ w \in Working /\ w.id \in Ids /\ w.path \in Paths /\ w.count \in Nat
      /\ jobs[w.id] # None => /\ jobs[w.id].path = w.path
                              /\ jobs[w.id].status \in {"running", "aborted"}
      /\ calm[w.id] => Calm(table, parts[w.path], target[w.path], w, jobs[w.id])
      /\ table \in Seq(Int) /\ Len(table) \in Nat
  BY <1>1, <1>2, ExporterAt DEF Working
<1>4. UNCHANGED <<jobs, table, edits, parts, target, calm>>
  BY DEF ExportBatch, Exports
<1>5. PartsTyped' /\ PagedRows' /\ WholeStep
  BY <1>4 DEF XInv, PartsTyped, PagedRows, Stored, WholeStep, Completes
<1>6. PICK v : v = worker'["export"]
  OBVIOUS
<1>7. ASSUME v.id = w.id, v.path = w.path,
             calm[w.id] => Calm(table, parts[w.path], target[w.path], v, jobs[w.id])
      PROVE  Kept
  BY <1>3, <1>4, <1>5, <1>6, <1>7 DEF Exporter, Kept
<1>8. calm[w.id] => w.count \in 0..Len(table)
  BY <1>2, <1>3, PagedBounds DEF Calm
<1>9. CASE w.count >= Len(table)
  <2>1. v = [w EXCEPT !.pc = "finalize"]
    BY <1>1, <1>6, <1>9 DEF ExportBatch, Go, XInv, IInv, Typed
  <2>2. v.pc = "finalize" /\ v.id = w.id /\ v.path = w.path /\ v.count = w.count /\ v.parts = w.parts
    BY <1>3, <2>1 DEF Working
  <2>3. calm[w.id] => w.count = Len(table)
    BY <1>3, <1>8, <1>9
  <2>4. calm[w.id] => Calm(table, parts[w.path], target[w.path], v, jobs[w.id])
    BY <1>2, <1>3, <2>2, <2>3 DEF Calm
  <2> QED BY <1>7, <2>2, <2>4
<1>10. CASE ~(w.count >= Len(table))
  <2>1. v = [w EXCEPT !.pc = "part", !.batch = Page(w.count)]
    BY <1>1, <1>6, <1>10 DEF ExportBatch, Go, XInv, IInv, Typed
  <2>2. /\ v.pc = "part" /\ v.id = w.id /\ v.path = w.path /\ v.count = w.count
        /\ v.parts = w.parts /\ v.batch = Page(w.count)
    BY <1>3, <2>1 DEF Working
  <2>3. w.count \in 0..Len(table)
    BY <1>3, <1>10
  <2>4. PICK to \in w.count..Len(table) :
           /\ Page(w.count) = SubSeq(table, w.count + 1, to)
           /\ Len(Page(w.count)) = to - w.count
           /\ Len(Page(w.count)) < BatchSize => to = Len(table)
    BY <2>3, PageIsSpan DEF XInv
  <2>5. v.count + Len(v.batch) = to /\ to <= Len(table)
    BY <1>3, <2>2, <2>4
  <2>6. calm[w.id] => Calm(table, parts[w.path], target[w.path], v, jobs[w.id])
    BY <1>2, <1>3, <2>2, <2>4, <2>5 DEF Calm
  <2> QED BY <1>7, <2>2, <2>6
<1> QED BY <1>9, <1>10

(* Sharing(w) is disturbed, the export of w is not. *)
LEMMA Disturbed ==
  ASSUME XInv, NEW w, w.id \in Ids, Disturb(Sharing(w))
  PROVE  /\ calm' \in [Ids -> BOOLEAN] /\ calm'[w.id] = calm[w.id]
         /\ \A n \in Ids \ {w.id} : jobs[n] # None /\ calm'[n] =>
              calm[n] /\ (jobs[n].path = w.path => ~Begun(n))
<1>1. \A n \in Ids : calm'[n] = (calm[n] /\ ~(n \in Sharing(w) /\ Begun(n)))
  BY DEF Disturb
<1>2. calm' \in [Ids -> BOOLEAN]
  BY DEF Disturb
<1>3. calm'[w.id] = calm[w.id]
  BY <1>1 DEF Sharing, XInv, PartsTyped
<1> QED BY <1>1, <1>2, <1>3 DEF Sharing, Stored

LEMMA WritePartKeeps ==
  ASSUME XInv, WritePart, "export" \in Kinds
  PROVE  Kept
<1>1. PICK w : w = worker["export"]
  OBVIOUS
<1>2. Busy("export") /\ w.pc = "part"
  BY <1>1 DEF WritePart, Is, Busy
<1>3. /\ w \in Working /\ w.id \in Ids /\ w.path \in Paths /\ w.batch \in Seq(Int)
      /\ w.parts \in Int /\ w.count \in Nat
      /\ jobs[w.id] # None => /\ jobs[w.id].path = w.path /\ jobs[w.id] \in Shape
                              /\ jobs[w.id].status \in {"running", "aborted"}
      /\ calm[w.id] => Calm(table, parts[w.path], target[w.path], w, jobs[w.id])
      /\ table \in Seq(Int) /\ Len(table) \in Nat
  BY <1>1, <1>2, ExporterAt DEF Working
<1>4. UNCHANGED <<jobs, table, edits, target>> /\ Disturb(Sharing(w))
  BY <1>1 DEF WritePart
<1>5. PICK old, n, next : /\ old = parts[w.path] /\ n = w.parts + 1
                          /\ next = w.count + Len(w.batch)
  OBVIOUS
<1>6. PICK pages : pages = [p \in DOMAIN old \cup {n} |-> IF p = n THEN w.batch ELSE old[p]]
  OBVIOUS
<1>7. parts' = [parts EXCEPT ![w.path] = pages]
  BY <1>1, <1>5, <1>6 DEF WritePart, PartNumber
<1>8. /\ DOMAIN parts' = Paths /\ parts'[w.path] = pages
      /\ \A p \in Paths \ {w.path} : parts'[p] = parts[p]
  BY <1>3, <1>7 DEF XInv, PartsTyped
<1>9. /\ calm' \in [Ids -> BOOLEAN] /\ calm'[w.id] = calm[w.id]
      /\ \A i \in Ids \ {w.id} : jobs[i] # None /\ calm'[i] =>
           calm[i] /\ (jobs[i].path = w.path => ~Begun(i))
  BY <1>3, <1>4, Disturbed
<1>10. PartsTyped'
  BY <1>4, <1>8, <1>9 DEF XInv, PartsTyped
<1>11. PagedRows'
  <2>1. ASSUME NEW i \in Ids \ {w.id}, jobs[i] # None, jobs[i].kind = "export", calm'[i]
        PROVE  calm[i] /\ (parts'[jobs[i].path] = parts[jobs[i].path] \/ ~Begun(i))
    <3>1. jobs[i].path \in Paths
      BY <2>1 DEF XInv, PagedRows, Stored
    <3> QED BY <1>8, <1>9, <2>1, <3>1
  <2>2. jobs'[w.id] # None =>
          jobs'[w.id].path \in Paths /\ jobs'[w.id].status \notin Waiting \cup {"failed"}
    BY <1>3, <1>4 DEF Waiting
  <2> QED BY <1>3, <1>4, <2>1, <2>2, PagedElsewhere
<1>12. PICK v : v = worker'["export"]
  OBVIOUS
<1>13. v = [w EXCEPT !.pc = "progress", !.parts = n, !.count = w.count + Len(w.batch)]
  BY <1>1, <1>5, <1>12 DEF WritePart, PartNumber, Go, XInv, IInv, Typed
<1>14. /\ v.pc = "progress" /\ v.id = w.id /\ v.path = w.path /\ v.parts = n
       /\ v.count = next /\ v.batch = w.batch
  BY <1>3, <1>5, <1>13 DEF Working
<1>15. ASSUME calm[w.id]
       PROVE  Calm(table, pages, target[w.path], v, jobs[w.id])
  <2>1. /\ w.batch = SubSeq(table, w.count + 1, next) /\ next <= Len(table)
        /\ Len(w.batch) < BatchSize => next = Len(table)
        /\ Paged(table, old, w.parts, w.count)
        /\ jobs[w.id] # None => /\ jobs[w.id].parts <= w.parts
                                /\ Paged(table, old, jobs[w.id].parts, jobs[w.id].count)
    BY <1>2, <1>3, <1>5, <1>15 DEF Calm
  <2>2. w.count <= next /\ next \in 0..Len(table)
    <3>1. Len(w.batch) \in Nat
      BY <1>3
    <3> QED BY <1>3, <1>5, <2>1, <3>1
  <2>3. ASSUME NEW m, NEW count, Paged(table, old, m, count), m <= w.parts
        PROVE  Paged(table, pages, m, count)
    <3>1. m \in Nat /\ \A p \in 1..m : p \in DOMAIN old
      BY <2>3 DEF Paged
    <3>2. \A p \in 1..m : p # n
      BY <1>3, <1>5, <2>3, <3>1
    <3>3. \A p \in 1..m : p \in DOMAIN pages /\ pages[p] = old[p]
      BY <1>6, <3>1, <3>2
    <3> QED BY <2>3, <3>3, PagedPrefix
  <2>4. Paged(table, pages, n, next)
    <3>1. Paged(table, pages, w.parts, w.count)
      BY <1>3, <2>1, <2>3
    <3>2. n \in DOMAIN pages /\ pages[n] = w.batch
      BY <1>6
    <3> QED BY <1>3, <1>5, <2>1, <2>2, <3>1, <3>2, PagedExtend
  <2>5. jobs[w.id] # None =>
          jobs[w.id].parts <= n /\ Paged(table, pages, jobs[w.id].parts, jobs[w.id].count)
    <3>1. PICK r : r = jobs[w.id]
      OBVIOUS
    <3>2. r # None => r.parts \in Int /\ r.parts <= w.parts
      BY <1>3, <2>1, <3>1 DEF Shape
    <3>3. r # None => r.parts <= n
      BY <1>3, <1>5, <3>2
    <3>4. r # None => Paged(table, pages, r.parts, r.count)
      BY <2>1, <2>3, <3>1, <3>2
    <3> QED BY <3>1, <3>3, <3>4
  <2> QED BY <1>14, <2>1, <2>4, <2>5 DEF Calm
<1>16. Exporter'
  BY <1>3, <1>4, <1>8, <1>9, <1>12, <1>14, <1>15 DEF Exporter
<1>17. WholeStep
  BY <1>4 DEF WholeStep, Completes
<1> QED BY <1>10, <1>11, <1>16, <1>17 DEF Kept

LEMMA ExportProgressKeeps ==
  ASSUME XInv, ExportProgress, "export" \in Kinds
  PROVE  Kept
<1>1. PICK w : w = worker["export"]
  OBVIOUS
<1>2. Busy("export") /\ w.pc = "progress"
  BY <1>1 DEF ExportProgress, Is, Busy
<1>3. /\ w \in Working /\ w.id \in Ids /\ w.path \in Paths /\ w.parts \in Int
      /\ jobs[w.id] # None => /\ jobs[w.id].path = w.path /\ jobs[w.id] \in Shape
                              /\ jobs[w.id].status \in {"running", "aborted"}
      /\ calm[w.id] => Calm(table, parts[w.path], target[w.path], w, jobs[w.id])
  BY <1>1, <1>2, ExporterAt DEF Working
<1>4. UNCHANGED <<table, edits, parts, target, calm>>
  BY DEF ExportProgress, Exports
<1>5. PartsTyped'
  BY <1>4 DEF XInv, PartsTyped
<1>6. (jobs'[w.id] # None =>
         /\ jobs[w.id] # None /\ jobs'[w.id].status = jobs[w.id].status
         /\ jobs'[w.id].path = jobs[w.id].path
         /\ jobs'[w.id].parts = w.parts /\ jobs'[w.id].count = w.count)
      /\ \A n \in Ids \ {w.id} : jobs'[n] = jobs[n]
  <2>1. CASE jobs[w.id] = None
    BY <1>1, <2>1 DEF ExportProgress
  <2>2. CASE jobs[w.id] # None
    <3>1. PICK r : r = jobs[w.id]
      OBVIOUS
    <3>2. jobs' = [jobs EXCEPT ![w.id] = [r EXCEPT !.count = w.count, !.parts = w.parts]]
      BY <1>1, <2>2, <3>1 DEF ExportProgress, Exported
    <3>3. r \in Shape
      BY <1>3, <2>2, <3>1
    <3>4. jobs'[w.id] = [r EXCEPT !.count = w.count, !.parts = w.parts]
          /\ \A n \in Ids \ {w.id} : jobs'[n] = jobs[n]
      BY <1>3, <3>2 DEF XInv, IInv, Typed
    <3> QED BY <2>2, <3>1, <3>3, <3>4 DEF Shape
  <2> QED BY <2>1, <2>2
<1>7. PagedRows'
  <2>1. jobs'[w.id] # None =>
          jobs'[w.id].path \in Paths /\ jobs'[w.id].status \notin Waiting \cup {"failed"}
    BY <1>3, <1>6 DEF Waiting
  <2> QED BY <1>3, <1>4, <1>6, <2>1, PagedElsewhere
<1>8. PICK v : v = worker'["export"]
  OBVIOUS
<1>9. v = [w EXCEPT !.batch = <<>>,
                    !.pc = IF Len(w.batch) < BatchSize THEN "finalize" ELSE "export"]
  BY <1>1, <1>8 DEF ExportProgress, Go, XInv, IInv, Typed
<1>10. /\ v.pc = IF Len(w.batch) < BatchSize THEN "finalize" ELSE "export"
       /\ v.id = w.id /\ v.count = w.count /\ v.parts = w.parts /\ v.path = w.path
  BY <1>3, <1>9 DEF Working
<1>11. w.parts <= w.parts
  BY <1>3
<1>12. calm[w.id] => Calm(table, parts[w.path], target[w.path], v, jobs'[w.id])
  BY <1>2, <1>3, <1>6, <1>10, <1>11 DEF Calm
<1>13. Exporter'
  BY <1>3, <1>4, <1>6, <1>8, <1>10, <1>12 DEF Exporter
<1>14. WholeStep
  <2>1. \A i \in Ids : Completes(i) => jobs'[i].status = jobs[i].status
    BY <1>6 DEF Completes
  <2> QED BY <2>1 DEF WholeStep, Completes
<1> QED BY <1>5, <1>7, <1>13, <1>14 DEF Kept

LEMMA OpenTargetKeeps ==
  ASSUME XInv, OpenTarget, "export" \in Kinds
  PROVE  Kept
<1>1. PICK w : w = worker["export"]
  OBVIOUS
<1>2. Busy("export") /\ w.pc = "finalize"
  BY <1>1 DEF OpenTarget, Is, Busy
<1>3. /\ UNCHANGED <<jobs, worker, table, edits, parts, calm>>
      /\ target' = [target EXCEPT ![w.path] = None]
  BY <1>1 DEF OpenTarget
<1>4. PartsTyped' /\ PagedRows' /\ WholeStep
  BY <1>3 DEF XInv, PartsTyped, PagedRows, Stored, WholeStep, Completes
<1>5. /\ w.path \in Paths
      /\ jobs[w.id] # None => /\ jobs[w.id].path = w.path
                              /\ jobs[w.id].status \in {"running", "aborted"}
      /\ calm[w.id] => Calm(table, parts[w.path], target[w.path], w, jobs[w.id])
  BY <1>1, <1>2, ExporterAt
<1>6. calm[w.id] => Calm(table, parts[w.path], target'[w.path], w, jobs[w.id])
  BY <1>2, <1>5 DEF Calm
<1>7. Exporter'
  BY <1>1, <1>3, <1>5, <1>6 DEF Exporter
<1> QED BY <1>4, <1>7 DEF Kept

LEMMA FinalizeExportKeeps ==
  ASSUME XInv, FinalizeExport, "export" \in Kinds
  PROVE  Kept
<1>1. PICK w : w = worker["export"]
  OBVIOUS
<1>2. Busy("export") /\ w.pc = "finalize"
  BY <1>1 DEF FinalizeExport, Is, Busy
<1>3. /\ w \in Working /\ w.id \in Ids /\ w.path \in Paths
      /\ jobs[w.id] # None => /\ jobs[w.id].path = w.path
                              /\ jobs[w.id].status \in {"running", "aborted"}
      /\ calm[w.id] => Calm(table, parts[w.path], target[w.path], w, jobs[w.id])
      /\ table \in Seq(Int)
  BY <1>1, <1>2, ExporterAt
<1>4. PICK whole, rest : /\ whole = FlattenSeq([p \in 1..w.parts |-> parts[w.path][p]])
                         /\ rest = [p \in DOMAIN parts[w.path] \ 1..w.parts |-> parts[w.path][p]]
  OBVIOUS
<1>5. /\ target' = [target EXCEPT ![w.path] = whole] /\ parts' = [parts EXCEPT ![w.path] = rest]
      /\ UNCHANGED <<jobs, table, edits>> /\ Disturb(Sharing(w))
  BY <1>1, <1>4 DEF FinalizeExport
<1>6. calm[w.id] => whole = table
  BY <1>2, <1>3, <1>4, PagedJoined DEF Calm
<1>7. /\ DOMAIN parts' = Paths /\ DOMAIN target' = Paths /\ target'[w.path] = whole
      /\ \A p \in Paths \ {w.path} : parts'[p] = parts[p]
  BY <1>3, <1>5 DEF XInv, PartsTyped
<1>8. /\ calm' \in [Ids -> BOOLEAN] /\ calm'[w.id] = calm[w.id]
      /\ \A i \in Ids \ {w.id} : jobs[i] # None /\ calm'[i] =>
           calm[i] /\ (jobs[i].path = w.path => ~Begun(i))
  BY <1>3, <1>5, Disturbed
<1>9. PagedRows'
  <2>1. ASSUME NEW i \in Ids \ {w.id}, jobs[i] # None, jobs[i].kind = "export", calm'[i]
        PROVE  calm[i] /\ (parts'[jobs[i].path] = parts[jobs[i].path] \/ ~Begun(i))
    <3>1. jobs[i].path \in Paths
      BY <2>1 DEF XInv, PagedRows, Stored
    <3> QED BY <1>7, <1>8, <2>1, <3>1
  <2>2. jobs'[w.id] # None =>
          jobs'[w.id].path \in Paths /\ jobs'[w.id].status \notin Waiting \cup {"failed"}
    BY <1>3, <1>5 DEF Waiting
  <2> QED BY <1>3, <1>5, <2>1, <2>2, PagedElsewhere
<1>10. PICK v : v = worker'["export"]
  OBVIOUS
<1>11. v = [w EXCEPT !.pc = "complete"]
  BY <1>1, <1>10 DEF FinalizeExport, Work, Go, XInv, IInv, Typed
<1>12. v.pc = "complete" /\ v.id = w.id /\ v.path = w.path
  BY <1>3, <1>11 DEF Working
<1>13. calm[w.id] => Calm(table, parts'[w.path], target'[w.path], v, jobs[w.id])
  BY <1>6, <1>7, <1>12 DEF Calm
<1>14. Exporter'
  BY <1>3, <1>5, <1>8, <1>10, <1>12, <1>13 DEF Exporter
<1>15. WholeStep
  BY <1>5 DEF WholeStep, Completes
<1> QED BY <1>7, <1>8, <1>9, <1>14, <1>15 DEF PartsTyped, Kept

(* The worker settles its row: what it recorded last, or has now.             *)
LEMMA SettledExport ==
  ASSUME XInv, "export" \in Kinds, Busy("export"), NEW s \in {"completed", "failed"}, NEW row,
         Settle("export", s, row),
         LET w == worker["export"] IN
         jobs[w.id] # None =>
           /\ row \in Shape /\ row.path = w.path
           /\ s = "failed" /\ calm[w.id] =>
                Paged(table, parts[w.path], row.parts, row.count)
           /\ s = "completed" /\ calm[w.id] => target[w.path] = table
  PROVE  Kept
<1>1. PICK w : w = worker["export"]
  OBVIOUS
<1>2. w.id \in Ids /\ w.path \in Paths /\ (jobs[w.id] # None => jobs[w.id].path = w.path)
  BY <1>1, ExporterAt
<1>3. UNCHANGED <<table, edits, parts, target, calm>> /\ worker'["export"] = Resting
  BY DEF Settle, Go, XInv, IInv, Typed, Exports
<1>4. PartsTyped'
  BY <1>3 DEF XInv, PartsTyped
<1>5. Exporter'
  BY <1>3 DEF Exporter, Busy, Resting
<1>6. CASE jobs[w.id] = None
  <2>1. jobs' = jobs
    BY <1>1, <1>6 DEF Settle
  <2>2. PagedRows' /\ WholeStep
    BY <1>3, <2>1 DEF XInv, PagedRows, Stored, WholeStep, Completes
  <2> QED BY <1>4, <1>5, <2>2 DEF Kept
<1>7. CASE jobs[w.id] # None
  <2>1. jobs' = [jobs EXCEPT ![w.id] = [row EXCEPT !.status = s]]
    BY <1>1, <1>7 DEF Settle
  <2>2. jobs'[w.id] = [row EXCEPT !.status = s] /\ \A n \in Ids \ {w.id} : jobs'[n] = jobs[n]
    BY <1>2, <2>1 DEF XInv, IInv, Typed
  <2>3. /\ jobs'[w.id].status = s /\ jobs'[w.id].parts = row.parts
        /\ jobs'[w.id].count = row.count /\ jobs'[w.id].path = w.path
    BY <1>1, <1>7, <2>2 DEF Shape
  <2>4. PagedRows'
    BY <1>1, <1>2, <1>3, <1>7, <2>2, <2>3, PagedElsewhere DEF Waiting
  <2>5. WholeStep
    <3> SUFFICES ASSUME NEW i \in Ids, Completes(i), calm[i]
        PROVE  target[jobs[i].path] = table
      BY DEF WholeStep
    <3>1. i = w.id
      BY <2>2 DEF Completes
    <3>2. s = "completed"
      BY <2>3, <3>1 DEF Completes
    <3> QED BY <1>1, <1>2, <1>7, <3>1, <3>2
  <2> QED BY <1>4, <1>5, <2>4, <2>5 DEF Kept
<1> QED BY <1>6, <1>7

LEMMA ExportTickKeepsExports ==
  ASSUME XInv, IInv', "export" \in Kinds, Tick("export")
  PROVE  Kept
<1>1. Pick("export") \/ Claim("export") \/ Export
  BY DEF Tick, RunSimpleJob
<1>2. CASE ExportDone
  <2>1. PICK w : w = worker["export"]
    OBVIOUS
  <2>2. Busy("export") /\ w.pc = "complete"
    BY <1>2, <2>1 DEF ExportDone, Is, Busy
  <2>3. PICK r : r = jobs[w.id]
    OBVIOUS
  <2>4. /\ w \in Working /\ (r # None => r \in Shape /\ r.path = w.path)
        /\ calm[w.id] => target[w.path] = table
    BY <2>1, <2>2, <2>3, ExporterAt DEF Calm
  <2>5. Settle("export", "completed", [r EXCEPT !.count = w.count, !.parts = w.parts])
    BY <1>2, <2>1, <2>3 DEF ExportDone, Exported, Claimed
  <2>6. r # None => /\ [r EXCEPT !.count = w.count, !.parts = w.parts] \in Shape
                    /\ [r EXCEPT !.count = w.count, !.parts = w.parts].path = w.path
    BY <2>4 DEF Shape, Working
  <2> QED BY <2>1, <2>2, <2>3, <2>4, <2>5, <2>6, SettledExport
<1>3. CASE ExportFails
  <2>1. PICK w : w = worker["export"]
    OBVIOUS
  <2>2. Busy("export") /\ w.pc # "complete"
    BY <1>3, <2>1 DEF ExportFails, Is, Busy
  <2>3. PICK r : r = jobs[w.id]
    OBVIOUS
  <2>4. r # None =>
          /\ r \in Shape /\ r.path = w.path
          /\ calm[w.id] => Paged(table, parts[w.path], r.parts, r.count)
    BY <2>1, <2>2, <2>3, ExporterAt DEF Calm
  <2>5. Settle("export", "failed", r)
    BY <1>3, <2>1, <2>3 DEF ExportFails, FailJob, Claimed
  <2> QED BY <2>1, <2>2, <2>3, <2>4, <2>5, SettledExport
<1> QED
  BY <1>1, <1>2, <1>3, PickedExport, ClaimedExport, ExportBatchKeeps, WritePartKeeps,
     ExportProgressKeeps, OpenTargetKeeps, FinalizeExportKeeps DEF Export

LEMMA NextKeepsExports ==
  ASSUME XInv, [Next]_vars
  PROVE  XInv' /\ WholeStep
<1>0. IInv' /\ TableTyped'
  BY NextKeeps, TableKept DEF XInv
<1> SUFFICES Kept
  BY <1>0 DEF Kept, XInv
<1>1. CASE Request
  BY <1>0, <1>1, RequestsKeepExports
<1>2. CASE Stop
  <2>1. UNCHANGED jobs /\ UNCHANGED Exports /\ ~Busy("export")'
    BY <1>2 DEF Stop, Busy, Resting
  <2> QED BY <1>0, <2>1, OthersKeepExports DEF KeptRow, SameKind
<1>3. ASSUME NEW k \in Kinds, Tick(k) PROVE Kept
  BY <1>0, <1>3, OtherTickKeepsExports, ExportTickKeepsExports
<1>4. ASSUME NEW k \in Kinds, Cleanup(k) PROVE Kept
  <2>1. UNCHANGED worker /\ UNCHANGED Exports /\ \E i \in Stored : jobs' = [jobs EXCEPT ![i] = None]
    BY <1>4 DEF Cleanup, OnlyJobs
  <2>2. \A i \in Ids : jobs'[i] \in {jobs[i], None}
    BY <2>1 DEF XInv, IInv, Typed
  <2>3. \A i \in Ids : KeptRow(i) /\ SameKind(i)
    BY <2>2 DEF KeptRow, SameKind
  <2>4. Busy("export")' => Busy("export") /\ worker'["export"] = worker["export"]
    BY <2>1 DEF Busy
  <2> QED BY <1>0, <2>1, <2>3, <2>4, OthersKeepExports
<1>5. ASSUME NEW k \in Kinds, WorkerGone(k) PROVE Kept
  <2>1. UNCHANGED jobs /\ UNCHANGED Exports /\ worker' = [worker EXCEPT ![k] = Resting]
    BY <1>5 DEF WorkerGone, Go
  <2>2. Busy("export")' => Busy("export") /\ worker'["export"] = worker["export"]
    BY <2>1 DEF Busy, Resting, XInv, IInv, Typed
  <2> QED BY <1>0, <2>1, <2>2, OthersKeepExports DEF KeptRow, SameKind
<1>6. CASE UNCHANGED vars
  BY <1>0, <1>6, OthersKeepExports DEF vars, KeptRow, SameKind, Busy
<1>7. CASE WriteTable
  BY <1>7, WritesKeepExports
<1> QED BY <1>1, <1>2, <1>3, <1>4, <1>5, <1>6, <1>7 DEF Next

(* An export that completes holds every row of the table once and in order,    *)
(* when since it began nobody wrote to the table and no other export to its   *)
(* path, whatever parts earlier attempts left behind, which of their writes    *)
(* and statements failed and how often it was continued: jobs_ops.rs numbers   *)
(* parts from what the row records, replaces an object of the same number and  *)
(* joins only what the finishing attempt counts.                              *)
THEOREM CompletedExportsWhole == Spec => ExportWhole
<1>1. Init => XInv
  <2> SUFFICES ASSUME Init PROVE XInv
    OBVIOUS
  <2>1. IInv /\ TableTyped
    BY Initially, TableAtFirst
  <2>2. PartsTyped /\ PagedRows /\ Exporter
    BY DEF Init, PartsTyped, PagedRows, Stored, Exporter, Busy, Resting
  <2> QED BY <2>1, <2>2 DEF XInv
<1>2. XInv /\ [Next]_vars => XInv' /\ WholeStep
  BY NextKeepsExports
<1>3. WholeStep => \A i \in Ids : Completes(i) /\ calm[i] => target[jobs[i].path] = table
  BY DEF WholeStep
<1> QED
  BY <1>1, <1>2, <1>3, PTL DEF Spec, ExportWhole
===============================================================================
