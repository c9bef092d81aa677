------------------------------ MODULE SegmentLog ------------------------------
(****************************************************************************)
(* What the replicated write-ahead log of one database promises: a log of    *)
(* batches with consecutive sequence numbers, which grows at the end by one  *)
(* whole batch at a time and is trimmed at the front only.                   *)
(* Replicator.tla is shown to implement it.                                  *)
(****************************************************************************)
EXTENDS Naturals, Sequences

CONSTANT Batches   \* a batch is a non-empty sequence of records

VARIABLES base,    \* sequence number of the last record trimmed away
          entries  \* retained batches: [first, last, sum]

logVars == <<base, entries>>

LastSeq == IF entries = <<>> THEN base ELSE entries[Len(entries)].last

Init == base = 0 /\ entries = <<>>

Append1(b) ==
  /\ entries' = Append(entries, [first |-> LastSeq + 1,
                                 last  |-> LastSeq + Len(b),
                                 sum   |-> b])
  /\ UNCHANGED base

Trim(k) ==
  /\ base' = entries[k].last
  /\ entries' = SubSeq(entries, k + 1, Len(entries))

Next == (\E b \in Batches : Append1(b)) \/ (\E k \in DOMAIN entries : Trim(k))

Spec == Init /\ [][Next]_logVars
===============================================================================
