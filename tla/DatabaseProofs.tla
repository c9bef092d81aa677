--------------------------- MODULE DatabaseProofs ----------------------------
(****************************************************************************)
(* ReadCache, for any namespaces, readers, writers and changes: no read is    *)
(* answered from before a write that was answered when the read began, in a   *)
(* database that is not deleted.                                             *)
(*                                                                           *)
(* Documents, for any documents, namespaces, inputs and transactions: what    *)
(* the counters of a namespace say, how often a transition is applied, and    *)
(* what may leave the archive.                                               *)
(****************************************************************************)
EXTENDS ReadCache, Documents, TLAPS, FiniteSetTheorems, SequenceTheorems, WellFoundedInduction

------------------------------------------------------------------------------
(* The inductive invariant.  An answer is never removed; what a write         *)
(* guarantees is that the answer's key falls behind the epochs before the     *)
(* write is answered, so that no read that begins then can form that key.     *)

Steps == {"broadcast", "scope", "lookup", "select", "put", "done"}
Reading == [pc : Steps, b : Nat, e : Nat, seen : [Covered -> Nat],
            since : [Covered -> Nat], gone : Nat]
Writing == [pc : {"bump"}, parts : SUBSET Parts, change : Nat, bumps : Seq(Epochs)]
CacheKeys == Nat \X Nat

Typed ==
  /\ scope \in Scopes /\ changes \in Nat /\ deleted \in Nat
  /\ rows \in [Parts -> Nat] /\ answered \in [Parts -> Nat] /\ epoch \in [Epochs -> Nat]
  /\ reader \in [Readers -> {Resting} \cup Reading]
  /\ writer \in [Writers -> {Resting} \cup Writing]
  /\ DOMAIN cache \subseteq CacheKeys
  /\ \A k \in DOMAIN cache : cache[k] \in [Covered -> Nat]

(* The answers reads may meet: those in the cache and those about to be put.  *)
Kept(k, s) ==
  \/ k \in DOMAIN cache /\ s = cache[k]
  \/ \E r \in Readers : At(r, "put") /\ k = KeyOf(r) /\ s = reader[r].seen

Behind(k, b, e) == k[1] < b \/ k[2] < e

(* What is still to be bumped includes an epoch of the reads' keys. *)
ScopeName == IF scope = AnyScope THEN "a" ELSE IF scope = Metrics THEN "b" ELSE scope
Announces(bumps) == \E i \in DOMAIN bumps : bumps[i] \in {"b", ScopeName}

(* A change is numbered after those before it, and answered after it is made. *)
Numbered ==
  /\ \A p \in Parts : answered[p] <= rows[p] /\ rows[p] <= changes
  /\ \A w \in Writers : writer[w].pc = "bump" =>
       \A p \in writer[w].parts : writer[w].change <= rows[p]

Begun ==
  \A r \in Readers : reader[r] # Resting =>
    /\ reader[r].b <= epoch["b"] /\ reader[r].e <= ScopeEpoch
    /\ \A p \in Covered : reader[r].since[p] <= answered[p]

(* An answer that lacks a change has a key that is behind, or will be before   *)
(* the change is answered.                                                    *)
Outdated(k) == Behind(k, epoch["b"], ScopeEpoch)
Good(k, s) ==
  /\ k[1] <= epoch["b"] /\ k[2] <= ScopeEpoch
  /\ \A p \in Covered :
       /\ s[p] >= answered[p] \/ Outdated(k)
       /\ \A w \in Writers : (writer[w].pc = "bump" /\ p \in writer[w].parts) =>
            (s[p] >= writer[w].change \/ Outdated(k) \/ Announces(writer[w].bumps))
Superseded == \A k \in CacheKeys, s \in [Covered -> Nat] : Kept(k, s) => Good(k, s)

(* A read that has taken part of its key forms none that an answer older than  *)
(* its beginning has.                                                         *)
KnownB(r) == IF At(r, "broadcast") THEN epoch["b"] ELSE reader[r].b
KnownE(r) == IF reader[r].pc \in {"broadcast", "scope"} THEN ScopeEpoch ELSE reader[r].e
Suits(r, k, s) ==
  \A p \in Covered : s[p] >= reader[r].since[p] \/ Behind(k, KnownB(r), KnownE(r))
Awaited ==
  \A r \in Readers : reader[r].pc \notin {"idle", "done"} =>
    \A k \in CacheKeys, s \in [Covered -> Nat] : Kept(k, s) => Suits(r, k, s)

CacheInv ==
  Typed /\ Numbered /\ Begun /\ Superseded /\ Awaited /\ CachedFresh

LEMMA Apart ==
  /\ Resting \notin Reading /\ Resting \notin Writing
  /\ Metrics \notin Namespaces /\ AnyScope \notin Namespaces /\ AnyScope # Metrics
  /\ "a" \notin Namespaces /\ "b" \notin Namespaces
  BY ReadCacheAssumption DEF Resting, Reading, Writing, Steps

LEMMA ScopeFacts ==
  ASSUME Typed
  PROVE  /\ Covered \subseteq Parts /\ ScopeEpoch \in Nat /\ epoch["b"] \in Nat
         /\ ScopeName \in Epochs
         /\ scope # Metrics => ScopeEpoch = epoch[ScopeName]
  BY Apart DEF Typed, Covered, ScopeEpoch, ScopeName, Scopes, Parts, Epochs

------------------------------------------------------------------------------
LEMMA OrderSteps ==
  /\ After("broadcast") = "scope" /\ After("scope") = "lookup"
  /\ After("lookup") = "select" /\ After("select") = "put" /\ After("put") = "done"
  /\ Order[1] = "broadcast"
<1>1. /\ DOMAIN Order = 1..6 /\ Order[1] = "broadcast" /\ Order[2] = "scope"
      /\ Order[3] = "lookup" /\ Order[4] = "select" /\ Order[5] = "put" /\ Order[6] = "done"
  BY DEF Order
<1>2. ASSUME NEW j \in 1..5
      PROVE  After(Order[j]) = Order[j + 1]
  <2> DEFINE i == CHOOSE n \in DOMAIN Order : Order[n] = Order[j]
  <2>1. i \in DOMAIN Order /\ Order[i] = Order[j]
    BY <1>1
  <2>2. i = j
    <3> HIDE DEF i
    <3> QED
      BY <1>1, <2>1
  <2> QED
    BY <2>2 DEF After
<1>3. /\ After(Order[1]) = Order[1 + 1] /\ After(Order[2]) = Order[2 + 1]
      /\ After(Order[3]) = Order[3 + 1] /\ After(Order[4]) = Order[4 + 1]
      /\ After(Order[5]) = Order[5 + 1]
  BY <1>2
<1> QED
  BY <1>1, <1>3

LEMMA Initially == CacheInit => CacheInv
<1> SUFFICES ASSUME CacheInit
             PROVE  CacheInv
  OBVIOUS
<1>1. Typed
  BY DEF CacheInit, Typed, Scopes, Parts
<1>2. Numbered /\ Begun /\ Awaited /\ CachedFresh
  BY DEF CacheInit, Numbered, Begun, Awaited, CachedFresh, Resting, At
<1>3. \A k, s : ~Kept(k, s)
  BY DEF CacheInit, Kept, At, Resting
<1> QED
  BY <1>1, <1>2, <1>3 DEF CacheInv, Superseded

------------------------------------------------------------------------------
(* A step of reader r to q: what it must not break.                           *)
Joins(q, r) ==
  \/ q = Resting
  \/ /\ q \in Reading
     /\ q.b <= epoch["b"] /\ q.e <= ScopeEpoch
     /\ \A p \in Covered : q.since[p] <= answered[p]

(* An answer as new as everything answered or about to be. *)
Newborn(k, s) ==
  /\ k[1] <= epoch["b"] /\ k[2] <= ScopeEpoch
  /\ \A p \in Covered : s[p] >= rows[p]

LEMMA ReadStep ==
  ASSUME CacheInv, ReadOnly, NEW r \in Readers, NEW q,
         reader' = [reader EXCEPT ![r] = q], Joins(q, r), Typed',
         \A k \in CacheKeys, s \in [Covered -> Nat] : Kept(k, s)' => (Kept(k, s) \/ Newborn(k, s)),
         q.pc \notin {"idle", "done"} =>
           \A k \in CacheKeys, s \in [Covered -> Nat] : Kept(k, s)' => Suits(r, k, s)',
         q.pc = "done" => \A p \in Covered : q.seen[p] >= q.since[p]
  PROVE  CacheInv'
<1>1. /\ Covered' = Covered /\ ScopeEpoch' = ScopeEpoch /\ ScopeName' = ScopeName
      /\ epoch' = epoch /\ answered' = answered /\ writer' = writer /\ rows' = rows
      /\ changes' = changes /\ scope' = scope
  BY DEF ReadOnly, Covered, ScopeEpoch, ScopeName
<1>2. reader'[r] = q /\ \A x \in Readers : x # r => reader'[x] = reader[x]
  BY DEF CacheInv, Typed
<1>3. Numbered'
  BY <1>1 DEF CacheInv, Numbered
<1>4. Begun'
  BY <1>1, <1>2 DEF CacheInv, Begun, Joins
<1>5. ASSUME NEW k \in CacheKeys, NEW s \in [Covered -> Nat], Kept(k, s)'
      PROVE  Good(k, s)
  <2>1. CASE Kept(k, s)
    BY <2>1 DEF CacheInv, Superseded
  <2>2. CASE Newborn(k, s)
    <3>1. Covered \subseteq Parts
      BY ScopeFacts DEF CacheInv
    <3>2. ASSUME NEW p \in Covered
          PROVE  /\ s[p] >= answered[p]
                 /\ \A w \in Writers : (writer[w].pc = "bump" /\ p \in writer[w].parts)
                      => s[p] >= writer[w].change
      <4>1. s[p] \in Nat /\ rows[p] \in Nat /\ answered[p] \in Nat /\ s[p] >= rows[p]
        BY <2>2, <3>1 DEF Newborn, CacheInv, Typed
      <4>2. \A w \in Writers : writer[w].pc = "bump" => writer[w].change \in Nat
        BY DEF CacheInv, Typed, Resting, Writing
      <4> QED
        BY <3>1, <4>1, <4>2 DEF CacheInv, Numbered
    <3> QED
      BY <2>2, <3>2 DEF Newborn, Good
  <2> QED
    BY <1>5, <2>1, <2>2
<1>6. Superseded'
  BY <1>1, <1>5 DEF Superseded, Good, Outdated, Announces
<1>7. Awaited'
  <2> SUFFICES ASSUME NEW x \in Readers, reader'[x].pc \notin {"idle", "done"},
                      NEW k \in CacheKeys, NEW s \in [Covered -> Nat], Kept(k, s)'
               PROVE  Suits(x, k, s)'
    BY <1>1 DEF Awaited
  <2>1. CASE x = r
    BY <1>2, <2>1
  <2>2. CASE x # r
    <3>1. reader'[x] = reader[x]
      BY <1>2, <2>2
    <3>2. CASE Kept(k, s)
      <4>1. Suits(x, k, s)
        BY <3>1, <3>2 DEF CacheInv, Awaited
      <4> QED
        BY <1>1, <3>1, <4>1 DEF Suits, KnownB, KnownE, At
    <3>3. CASE Newborn(k, s)
      <4>1. Covered \subseteq Parts
        BY ScopeFacts DEF CacheInv
      <4>2. reader[x] \in Reading /\ reader[x] # Resting
        BY <3>1 DEF CacheInv, Typed, Resting
      <4>3. ASSUME NEW p \in Covered
            PROVE  s[p] >= reader[x].since[p]
        <5>1. /\ s[p] \in Nat /\ rows[p] \in Nat /\ answered[p] \in Nat
              /\ reader[x].since[p] \in Nat
          BY <4>1, <4>2 DEF CacheInv, Typed, Reading
        <5>2. s[p] >= rows[p] /\ answered[p] <= rows[p] /\ reader[x].since[p] <= answered[p]
          BY <3>3, <4>1, <4>2 DEF Newborn, CacheInv, Numbered, Begun
        <5> QED
          BY <5>1, <5>2
      <4> QED
        BY <1>1, <3>1, <4>3 DEF Suits
    <3> QED
      BY <3>2, <3>3
  <2> QED
    BY <2>1, <2>2
<1>8. CachedFresh'
  BY <1>1, <1>2 DEF CacheInv, CachedFresh, At
<1> QED
  BY <1>3, <1>4, <1>6, <1>7, <1>8 DEF CacheInv

(* What Goto makes of a read. *)
LEMMA ReaderMoved ==
  ASSUME Typed, NEW r \in Readers, reader[r] \in Reading, NEW fields,
         DOMAIN fields \subseteq {"b", "e", "seen"}, After(reader[r].pc) \in Steps,
         "b" \in DOMAIN fields => fields["b"] \in Nat,
         "e" \in DOMAIN fields => fields["e"] \in Nat,
         "seen" \in DOMAIN fields => fields["seen"] \in [Covered -> Nat],
         Goto(r, fields)
  PROVE  \E q \in Reading :
           /\ reader' = [reader EXCEPT ![r] = q]
           /\ q.pc = After(reader[r].pc) /\ q.since = reader[r].since
           /\ q.b = IF "b" \in DOMAIN fields THEN fields["b"] ELSE reader[r].b
           /\ q.e = IF "e" \in DOMAIN fields THEN fields["e"] ELSE reader[r].e
           /\ q.seen = IF "seen" \in DOMAIN fields THEN fields["seen"] ELSE reader[r].seen
<1> DEFINE d == reader[r]
           q == [x \in DOMAIN d |-> IF x = "pc" THEN After(d.pc)
                                    ELSE IF x \in DOMAIN fields THEN fields[x] ELSE d[x]]
           t == [pc |-> After(d.pc),
                 b |-> IF "b" \in DOMAIN fields THEN fields["b"] ELSE d.b,
                 e |-> IF "e" \in DOMAIN fields THEN fields["e"] ELSE d.e,
                 seen |-> IF "seen" \in DOMAIN fields THEN fields["seen"] ELSE d.seen,
                 since |-> d.since, gone |-> d.gone]
<1>1. reader' = [reader EXCEPT ![r] = q]
  BY DEF Goto
<1>2. d \in Reading /\ DOMAIN d = {"pc", "b", "e", "seen", "since", "gone"}
  BY DEF Reading
<1>3. q = t
  <2>1. DOMAIN q = DOMAIN t
    BY <1>2
  <2>2. \A x \in {"pc", "b", "e", "seen", "since", "gone"} : q[x] = t[x]
    <3> HIDE DEF d
    <3> QED
      BY <1>2
  <2> QED
    BY <1>2, <2>1, <2>2
<1>4. t \in Reading
  BY <1>2 DEF Reading
<1> HIDE DEF q
<1> QED
  BY <1>1, <1>3, <1>4

LEMMA KeptWithin ==
  ASSUME Typed, NEW r \in Readers, NEW q, reader' = [reader EXCEPT ![r] = q], cache' = cache,
         NEW k, NEW s, Kept(k, s)'
  PROVE  Kept(k, s) \/ (q.pc = "put" /\ k = <<q.b, q.e>> /\ s = q.seen)
<1>1. reader'[r] = q /\ \A x \in Readers : x # r => reader'[x] = reader[x]
  BY DEF Typed
<1>2. CASE k \in DOMAIN cache' /\ s = cache'[k]
  BY <1>2 DEF Kept
<1>3. ASSUME NEW x \in Readers, reader'[x].pc = "put", k = <<reader'[x].b, reader'[x].e>>,
             s = reader'[x].seen
      PROVE  Kept(k, s) \/ (q.pc = "put" /\ k = <<q.b, q.e>> /\ s = q.seen)
  BY <1>1, <1>3 DEF Kept, At, KeyOf
<1> QED
  BY <1>2, <1>3 DEF Kept, At, KeyOf

LEMMA ReadTyped ==
  ASSUME Typed, ReadOnly, NEW r \in Readers, NEW q \in {Resting} \cup Reading,
         reader' = [reader EXCEPT ![r] = q], cache' = cache
  PROVE  Typed'
<1>1. Covered' = Covered
  BY DEF ReadOnly, Covered
<1> QED
  BY <1>1 DEF Typed, ReadOnly, Reading, Writing

LEMMA StartReadKeeps ==
  ASSUME CacheInv, NEW r \in Readers, StartRead(r)
  PROVE  CacheInv'
<1> DEFINE q == [pc |-> Order[1], b |-> 0, e |-> 0, seen |-> [p \in Covered |-> 0],
                 since |-> [p \in Covered |-> answered[p]], gone |-> deleted]
<1>1. /\ reader' = [reader EXCEPT ![r] = q] /\ ReadOnly /\ cache' = cache /\ Typed
  BY DEF StartRead, CacheInv
<1>2. q \in Reading /\ q.pc = "broadcast" /\ q.b = 0 /\ q.e = 0
      /\ \A p \in Covered : q.since[p] = answered[p]
  BY <1>1, ScopeFacts, OrderSteps DEF Typed, Reading, Steps
<1> HIDE DEF q
<1>3. Typed'
  BY <1>1, <1>2, ReadTyped
<1>4. Joins(q, r)
  BY <1>1, <1>2, ScopeFacts DEF Joins, Typed
<1>5. \A k \in CacheKeys, s \in [Covered -> Nat] : Kept(k, s)' => Kept(k, s)
  BY <1>1, <1>2, KeptWithin
<1>6. ASSUME NEW k \in CacheKeys, NEW s \in [Covered -> Nat], Kept(k, s)'
      PROVE  Suits(r, k, s)'
  <2>1. Good(k, s)
    BY <1>5, <1>6 DEF CacheInv, Superseded
  <2>2. reader'[r] = q /\ Covered' = Covered /\ epoch' = epoch /\ ScopeEpoch' = ScopeEpoch
    BY <1>1 DEF Typed, ReadOnly, Covered, ScopeEpoch
  <2> QED
    BY <1>2, <2>1, <2>2 DEF Good, Outdated, Suits, KnownB, KnownE, At
<1> QED
  BY <1>1, <1>2, <1>3, <1>4, <1>5, <1>6, ReadStep

(* A step that keeps the read's key, or takes the next part of it.             *)
LEMMA KeyStep ==
  ASSUME CacheInv, NEW r \in Readers, NEW q \in Reading, ReadOnly, cache' = cache,
         reader' = [reader EXCEPT ![r] = q], q.since = reader[r].since,
         reader[r] \in Reading, q.pc \in {"scope", "lookup", "select"},
         reader[r].pc # "done",
         q.b = KnownB(r), q.pc # "scope" => q.e = KnownE(r), q.e <= ScopeEpoch,
         q.pc = "scope" => reader[r].pc = "broadcast"
  PROVE  CacheInv'
<1>1. Typed' /\ Typed
  BY ReadTyped DEF CacheInv
<1>2. /\ reader'[r] = q /\ Covered' = Covered /\ epoch' = epoch /\ ScopeEpoch' = ScopeEpoch
      /\ epoch["b"] \in Nat
  BY <1>1, ScopeFacts DEF Typed, ReadOnly, Covered, ScopeEpoch
<1>3. Joins(q, r)
  BY <1>2 DEF CacheInv, Begun, Joins, KnownB, Resting, Reading, Steps
<1>4. \A k \in CacheKeys, s \in [Covered -> Nat] : Kept(k, s)' => Kept(k, s)
  BY <1>1, KeptWithin
<1>5. ASSUME NEW k \in CacheKeys, NEW s \in [Covered -> Nat], Kept(k, s)'
      PROVE  Suits(r, k, s)'
  <2>1. Suits(r, k, s)
    BY <1>4, <1>5 DEF CacheInv, Awaited, Reading, Steps
  <2>2. KnownB(r)' = KnownB(r)
    BY <1>2 DEF KnownB, At
  <2>3. KnownE(r)' = KnownE(r)
    BY <1>2 DEF KnownE
  <2> QED
    BY <1>2, <2>1, <2>2, <2>3 DEF Suits
<1> QED
  BY <1>1, <1>3, <1>4, <1>5, ReadStep

LEMMA BroadcastEpochKeeps ==
  ASSUME CacheInv, NEW r \in Readers, BroadcastEpoch(r)
  PROVE  CacheInv'
<1>1. /\ Typed /\ reader[r] \in Reading /\ reader[r].pc = "broadcast" /\ epoch["b"] \in Nat
  BY ScopeFacts DEF BroadcastEpoch, At, CacheInv, Typed, Resting
<1>2. PICK q \in Reading : /\ reader' = [reader EXCEPT ![r] = q] /\ q.pc = "scope"
                           /\ q.since = reader[r].since /\ q.b = epoch["b"] /\ q.e = reader[r].e
  <2>1. Goto(r, [b |-> epoch["b"]])
    BY DEF BroadcastEpoch
  <2> DEFINE f == [b |-> epoch["b"]]
  <2>2. DOMAIN f = {"b"} /\ f["b"] = epoch["b"]
    OBVIOUS
  <2> HIDE DEF f
  <2> QED
    BY <1>1, <2>1, <2>2, ReaderMoved, OrderSteps DEF Steps, f
<1>3. reader[r].e <= ScopeEpoch
  BY <1>1 DEF CacheInv, Begun, Resting, Reading
<1> QED
  BY <1>1, <1>2, <1>3, KeyStep DEF BroadcastEpoch, KnownB, At

LEMMA ReadScopeEpochKeeps ==
  ASSUME CacheInv, NEW r \in Readers, ReadScopeEpoch(r)
  PROVE  CacheInv'
<1>1. /\ Typed /\ reader[r] \in Reading /\ reader[r].pc = "scope" /\ ScopeEpoch \in Nat
  BY ScopeFacts DEF ReadScopeEpoch, At, CacheInv, Typed, Resting
<1>2. PICK q \in Reading : /\ reader' = [reader EXCEPT ![r] = q] /\ q.pc = "lookup"
                           /\ q.since = reader[r].since /\ q.b = reader[r].b /\ q.e = ScopeEpoch
  <2> DEFINE f == [e |-> ScopeEpoch]
  <2>1. Goto(r, f)
    BY DEF ReadScopeEpoch
  <2>2. DOMAIN f = {"e"} /\ f["e"] = ScopeEpoch
    OBVIOUS
  <2> HIDE DEF f
  <2> QED
    BY <1>1, <2>1, <2>2, ReaderMoved, OrderSteps DEF Steps
<1>3. ReadOnly /\ cache' = cache /\ q.b = KnownB(r) /\ q.e = KnownE(r) /\ q.e <= ScopeEpoch
  BY <1>1, <1>2 DEF ReadScopeEpoch, KnownB, KnownE, At
<1> QED
  BY <1>1, <1>2, <1>3, KeyStep

LEMMA MissKeeps ==
  ASSUME CacheInv, NEW r \in Readers, Miss(r)
  PROVE  CacheInv'
<1>1. /\ Typed /\ reader[r] \in Reading /\ reader[r].pc = "lookup"
  BY DEF Miss, At, CacheInv, Typed, Resting
<1>2. PICK q \in Reading : /\ reader' = [reader EXCEPT ![r] = q] /\ q.pc = "select"
                           /\ q.since = reader[r].since /\ q.b = reader[r].b /\ q.e = reader[r].e
  <2>1. Goto(r, <<>>) /\ DOMAIN <<>> = {}
    BY DEF Miss
  <2> QED
    BY <1>1, <2>1, ReaderMoved, OrderSteps DEF Steps
<1>3. reader[r].e <= ScopeEpoch
  BY <1>1 DEF CacheInv, Begun, Resting, Reading
<1> QED
  BY <1>1, <1>2, <1>3, KeyStep DEF Miss, KnownB, KnownE, At

LEMMA HitKeeps ==
  ASSUME CacheInv, NEW r \in Readers, Hit(r)
  PROVE  CacheInv'
<1> DEFINE k0 == KeyOf(r)
           q == [reader[r] EXCEPT !.pc = "done", !.seen = cache[k0]]
<1>1. /\ Typed /\ reader[r] \in Reading /\ reader[r].pc = "lookup" /\ reader[r] # Resting
      /\ k0 \in DOMAIN cache /\ ReadOnly /\ cache' = cache
  BY DEF Hit, At, CacheInv, Typed, Resting
<1>2. cache[k0] \in [Covered -> Nat] /\ k0 \in CacheKeys
  BY <1>1 DEF Typed
<1>3. /\ reader' = [reader EXCEPT ![r] = q]
  BY <1>1 DEF Hit, Typed
<1>4. /\ q \in Reading /\ q.pc = "done" /\ q.b = reader[r].b /\ q.e = reader[r].e
      /\ q.since = reader[r].since /\ q.seen = cache[k0]
  BY <1>1, <1>2 DEF Reading, Steps
<1>5. Suits(r, k0, cache[k0])
  BY <1>1, <1>2 DEF CacheInv, Awaited, Kept
<1>6. k0[1] = reader[r].b /\ k0[2] = reader[r].e
  BY DEF KeyOf
<1> HIDE DEF q, k0
<1>7. \A p \in Covered : q.seen[p] >= q.since[p]
  BY <1>1, <1>4, <1>5, <1>6 DEF Suits, KnownB, KnownE, At, Behind, Reading
<1>8. Typed'
  BY <1>1, <1>3, <1>4, ReadTyped
<1>9. Joins(q, r)
  BY <1>1, <1>4 DEF CacheInv, Begun, Joins
<1>10. \A k \in CacheKeys, s \in [Covered -> Nat] : Kept(k, s)' => Kept(k, s)
  BY <1>1, <1>3, <1>4, KeptWithin
<1> QED
  BY <1>1, <1>3, <1>4, <1>7, <1>8, <1>9, <1>10, ReadStep

LEMMA SelectKeeps ==
  ASSUME CacheInv, NEW r \in Readers, Select(r)
  PROVE  CacheInv'
<1> DEFINE rs == [p \in Covered |-> rows[p]]
<1>1. /\ Typed /\ reader[r] \in Reading /\ reader[r].pc = "select" /\ reader[r] # Resting
      /\ ReadOnly /\ cache' = cache
  BY DEF Select, At, CacheInv, Typed, Resting
<1>2. Covered \subseteq Parts /\ rs \in [Covered -> Nat]
  BY <1>1, ScopeFacts DEF Typed
<1>3. PICK q \in Reading : /\ reader' = [reader EXCEPT ![r] = q] /\ q.pc = "put"
                           /\ q.since = reader[r].since /\ q.b = reader[r].b /\ q.e = reader[r].e
                           /\ q.seen = rs
  <2> DEFINE f == [seen |-> rs]
  <2>1. Goto(r, f)
    BY DEF Select
  <2>2. DOMAIN f = {"seen"} /\ f["seen"] = rs
    OBVIOUS
  <2> HIDE DEF f, rs
  <2> QED
    BY <1>1, <1>2, <2>1, <2>2, ReaderMoved, OrderSteps DEF Steps
<1>4. /\ reader[r].b <= epoch["b"] /\ reader[r].e <= ScopeEpoch
      /\ \A p \in Covered : reader[r].since[p] <= answered[p]
  BY <1>1 DEF CacheInv, Begun
<1>5. Typed'
  BY <1>1, <1>3, ReadTyped
<1>6. Joins(q, r)
  BY <1>3, <1>4 DEF Joins
<1>7. \A p \in Covered : rs[p] = rows[p]
  OBVIOUS
<1> HIDE DEF rs
<1>8. ASSUME NEW k \in CacheKeys, NEW s \in [Covered -> Nat], Kept(k, s)'
      PROVE  Kept(k, s) \/ (k[1] = q.b /\ k[2] = q.e /\ s = rs)
  <2>1. Kept(k, s) \/ (q.pc = "put" /\ k = <<q.b, q.e>> /\ s = q.seen)
    BY <1>1, <1>3, <1>8, KeptWithin
  <2> QED
    BY <1>3, <2>1
<1>9. \A k \in CacheKeys, s \in [Covered -> Nat] : Kept(k, s)' => (Kept(k, s) \/ Newborn(k, s))
  <2>1. \A p \in Covered : rs[p] >= rows[p]
    BY <1>1, <1>2, <1>7 DEF Typed
  <2> QED
    BY <1>3, <1>4, <1>8, <2>1 DEF Newborn
<1>10. ASSUME NEW k \in CacheKeys, NEW s \in [Covered -> Nat], Kept(k, s)'
       PROVE  Suits(r, k, s)'
  <2>1. reader'[r] = q /\ Covered' = Covered /\ epoch' = epoch /\ ScopeEpoch' = ScopeEpoch
    BY <1>1, <1>3 DEF Typed, ReadOnly, Covered, ScopeEpoch
  <2>2. CASE Kept(k, s)
    <3>1. Suits(r, k, s)
      BY <1>1, <2>2 DEF CacheInv, Awaited
    <3> QED
      BY <1>1, <1>3, <2>1, <3>1 DEF Suits, KnownB, KnownE, At
  <2>3. CASE s = rs
    <3>1. ASSUME NEW p \in Covered
          PROVE  s[p] >= reader[r].since[p]
      <4>1. /\ rows[p] \in Nat /\ answered[p] \in Nat /\ reader[r].since[p] \in Nat
            /\ answered[p] <= rows[p]
        BY <1>1, <1>2 DEF CacheInv, Typed, Numbered, Reading
      <4> QED
        BY <1>4, <1>7, <2>3, <4>1
    <3> QED
      BY <1>3, <2>1, <3>1 DEF Suits
  <2> QED
    BY <1>8, <1>10, <2>2, <2>3
<1> QED
  BY <1>1, <1>3, <1>5, <1>6, <1>9, <1>10, ReadStep

LEMMA PutKeeps ==
  ASSUME CacheInv, NEW r \in Readers, PutCachedRead(r)
  PROVE  CacheInv'
<1>1. /\ Typed /\ reader[r] \in Reading /\ reader[r].pc = "put" /\ reader[r] # Resting /\ ReadOnly
  BY DEF PutCachedRead, At, CacheInv, Typed, Resting
<1>2. PICK q \in Reading : /\ reader' = [reader EXCEPT ![r] = q] /\ q.pc = "done"
                           /\ q.since = reader[r].since /\ q.b = reader[r].b /\ q.e = reader[r].e
                           /\ q.seen = reader[r].seen
  <2>1. Goto(r, <<>>) /\ DOMAIN <<>> = {}
    BY DEF PutCachedRead
  <2> QED
    BY <1>1, <2>1, ReaderMoved, OrderSteps DEF Steps
<1>3. KeyOf(r) \in CacheKeys /\ reader[r].seen \in [Covered -> Nat]
      /\ KeyOf(r)[1] = reader[r].b /\ KeyOf(r)[2] = reader[r].e
  BY <1>1 DEF KeyOf, Reading, CacheKeys
<1>4. Kept(KeyOf(r), reader[r].seen)
  BY <1>1 DEF Kept, At
<1>5. Suits(r, KeyOf(r), reader[r].seen)
  BY <1>1, <1>3, <1>4 DEF CacheInv, Awaited
<1>6. \A p \in Covered : q.seen[p] >= q.since[p]
  BY <1>1, <1>2, <1>3, <1>5 DEF Suits, KnownB, KnownE, At, Behind, Reading
<1>7. /\ DOMAIN cache' = DOMAIN cache \cup {KeyOf(r)}
      /\ \A k \in DOMAIN cache' : cache'[k] = IF k = KeyOf(r) THEN reader[r].seen ELSE cache[k]
  BY DEF PutCachedRead
<1>8. Typed'
  <2>1. Covered' = Covered
    BY <1>1 DEF ReadOnly, Covered
  <2> QED
    BY <1>1, <1>2, <1>3, <1>7, <2>1 DEF Typed, ReadOnly, Reading, Writing
<1>9. Joins(q, r)
  BY <1>1, <1>2 DEF CacheInv, Begun, Joins
<1>10. ASSUME NEW k \in CacheKeys, NEW s \in [Covered -> Nat], Kept(k, s)'
       PROVE  Kept(k, s)
  <2>1. reader'[r] = q /\ \A x \in Readers : x # r => reader'[x] = reader[x]
    BY <1>1, <1>2 DEF Typed
  <2>2. CASE k \in DOMAIN cache' /\ s = cache'[k]
    BY <1>4, <1>7, <2>2 DEF Kept
  <2>3. ASSUME NEW x \in Readers, reader'[x].pc = "put", k = <<reader'[x].b, reader'[x].e>>,
               s = reader'[x].seen
        PROVE  Kept(k, s)
    BY <1>2, <2>1, <2>3 DEF Kept, At, KeyOf
  <2> QED
    BY <1>10, <2>2, <2>3 DEF Kept, At, KeyOf
<1> QED
  BY <1>1, <1>2, <1>6, <1>8, <1>9, <1>10, ReadStep

LEMMA AnswerReadKeeps ==
  ASSUME CacheInv, NEW r \in Readers, AnswerRead(r)
  PROVE  CacheInv'
<1>1. /\ Typed /\ ReadOnly /\ cache' = cache /\ reader' = [reader EXCEPT ![r] = Resting]
      /\ Resting.pc = "idle"
  BY DEF AnswerRead, CacheInv, Resting
<1>2. Typed'
  BY <1>1, ReadTyped
<1>3. \A k \in CacheKeys, s \in [Covered -> Nat] : Kept(k, s)' => Kept(k, s)
  BY <1>1, KeptWithin
<1> QED
  BY <1>1, <1>2, <1>3, ReadStep DEF Joins

------------------------------------------------------------------------------
(* A step of the writers: time only goes on, and no answer loses its guarantee. *)
LEMMA WriteStep ==
  ASSUME CacheInv, NoReader, Typed', Numbered',
         \A e \in Epochs : epoch[e] <= epoch'[e],
         \A p \in Parts : answered[p] <= answered'[p],
         \A k \in CacheKeys, s \in [Covered -> Nat] : Good(k, s) => Good(k, s)'
  PROVE  CacheInv'
<1>1. /\ Covered' = Covered /\ reader' = reader /\ cache' = cache /\ scope' = scope
      /\ Covered \subseteq Parts
  BY ScopeFacts DEF NoReader, Covered, CacheInv
<1>2. /\ epoch["b"] <= epoch'["b"] /\ ScopeEpoch <= ScopeEpoch'
      /\ {epoch["b"], epoch'["b"], ScopeEpoch, ScopeEpoch'} \subseteq Nat
  <2>1. /\ Typed /\ "b" \in Epochs /\ {epoch["b"], epoch'["b"]} \subseteq Nat
        /\ epoch["b"] <= epoch'["b"]
    BY DEF CacheInv, Typed, Epochs
  <2>2. CASE scope = Metrics
    BY <1>1, <2>1, <2>2, Apart DEF ScopeEpoch
  <2>3. CASE scope # Metrics
    <3>1. ScopeName \in Epochs /\ ScopeEpoch = epoch[ScopeName]
      BY <2>1, <2>3, ScopeFacts
    <3>2. ScopeEpoch' = epoch'[ScopeName]
      BY <1>1, <2>3 DEF ScopeEpoch, ScopeName
    <3>3. epoch[ScopeName] <= epoch'[ScopeName]
          /\ epoch[ScopeName] \in Nat /\ epoch'[ScopeName] \in Nat
      BY <2>1, <3>1 DEF Typed
    <3> QED
      BY <2>1, <3>1, <3>2, <3>3
  <2> QED
    BY <2>2, <2>3
<1>3. \A k, s : Kept(k, s)' <=> Kept(k, s)
  BY <1>1 DEF Kept, At, KeyOf
<1>4. Begun'
  <2> SUFFICES ASSUME NEW r \in Readers, reader[r] # Resting
               PROVE  /\ reader[r].b <= epoch'["b"] /\ reader[r].e <= ScopeEpoch'
                      /\ \A p \in Covered : reader[r].since[p] <= answered'[p]
    BY <1>1 DEF Begun
  <2>1. reader[r] \in Reading
    BY DEF CacheInv, Typed
  <2>2. /\ reader[r].b \in Nat /\ reader[r].e \in Nat
        /\ \A p \in Covered : reader[r].since[p] \in Nat
    BY <2>1 DEF Reading
  <2>3. \A p \in Covered : answered[p] \in Nat /\ answered'[p] \in Nat
    BY <1>1 DEF CacheInv, Typed
  <2>4. reader[r].b <= epoch["b"] /\ reader[r].e <= ScopeEpoch
        /\ \A p \in Covered : reader[r].since[p] <= answered[p]
    BY DEF CacheInv, Begun
  <2>5. \A p \in Covered : answered[p] <= answered'[p]
    BY <1>1
  <2> QED
    BY <1>2, <2>2, <2>3, <2>4, <2>5
<1>5. Superseded'
  BY <1>1, <1>3 DEF CacheInv, Superseded
<1>6. Awaited'
  <2> SUFFICES ASSUME NEW r \in Readers, reader[r].pc \notin {"idle", "done"},
                      NEW k \in CacheKeys, NEW s \in [Covered -> Nat], Kept(k, s)
               PROVE  Suits(r, k, s)'
    BY <1>1, <1>3 DEF Awaited
  <2>1. Suits(r, k, s)
    BY DEF CacheInv, Awaited
  <2>2. k[1] \in Nat /\ k[2] \in Nat /\ reader[r] \in Reading
    BY DEF CacheKeys, CacheInv, Typed, Resting
  <2>3. Behind(k, KnownB(r), KnownE(r)) => Behind(k, KnownB(r), KnownE(r))'
    BY <1>1, <1>2, <2>2 DEF Behind, KnownB, KnownE, At
  <2> QED
    BY <1>1, <2>1, <2>3 DEF Suits
<1>7. CachedFresh'
  BY <1>1 DEF CacheInv, CachedFresh, At
<1> QED
  BY <1>4, <1>5, <1>6, <1>7 DEF CacheInv

(* A change by writer w (or by none) that its own bumps announce. *)
LEMMA ChangeStep ==
  ASSUME CacheInv, NoReader, NEW parts \in SUBSET Parts, Change(parts),
         epoch' = epoch, answered' = answered,
         writer' \in [Writers -> {Resting} \cup Writing],
         \A w \in Writers :
           \/ writer'[w] = writer[w]
           \/ /\ writer'[w] # Resting
              /\ writer'[w].change = changes + 1 /\ writer'[w].parts = parts
              /\ \A p \in parts \cap Covered : Announces(writer'[w].bumps)
  PROVE  CacheInv'
<1>1. /\ Covered' = Covered /\ ScopeEpoch' = ScopeEpoch /\ ScopeName' = ScopeName
      /\ scope' = scope /\ Covered \subseteq Parts
  BY ScopeFacts DEF NoReader, Covered, ScopeEpoch, ScopeName, CacheInv
<1>2. /\ changes' = changes + 1 /\ changes \in Nat /\ Typed
      /\ \A p \in Parts : rows'[p] = IF p \in parts THEN changes + 1 ELSE rows[p]
      /\ rows' \in [Parts -> Nat]
  BY DEF Change, CacheInv, Typed
<1>3. Typed'
  BY <1>1, <1>2 DEF Typed, NoReader, Reading, Writing
<1>4. \A p \in Parts : /\ rows[p] <= rows'[p] /\ rows'[p] <= changes' /\ rows[p] \in Nat
                       /\ answered[p] \in Nat /\ answered[p] <= rows[p]
  BY <1>2 DEF CacheInv, Typed, Numbered
<1>5. Numbered'
  <2>1. ASSUME NEW w \in Writers, writer'[w].pc = "bump", NEW p \in writer'[w].parts
        PROVE  writer'[w].change <= rows'[p]
    <3>1. CASE writer'[w] = writer[w]
      <4>1. writer[w] \in Writing
        BY <2>1, <3>1, <1>2 DEF Typed, Resting
      <4>2. p \in Parts /\ writer[w].change \in Nat /\ writer[w].change <= rows[p]
        BY <2>1, <3>1, <4>1 DEF Writing, CacheInv, Numbered
      <4> QED
        BY <1>2, <1>4, <3>1, <4>2
    <3>2. CASE writer'[w] # writer[w]
      BY <1>2, <2>1, <3>2
    <3> QED
      BY <3>1, <3>2
  <2>2. \A p \in Parts : answered'[p] <= rows'[p] /\ rows'[p] <= changes'
    BY <1>2, <1>4
  <2> QED
    BY <2>1, <2>2 DEF Numbered
<1>6. ASSUME NEW k \in CacheKeys, NEW s \in [Covered -> Nat], Good(k, s)
      PROVE  Good(k, s)'
  <2>1. Outdated(k)' = Outdated(k)
    BY <1>1 DEF Outdated, Behind
  <2>2. ASSUME NEW p \in Covered, NEW w \in Writers, writer'[w].pc = "bump",
               p \in writer'[w].parts
        PROVE  s[p] >= writer'[w].change \/ Outdated(k) \/ Announces(writer'[w].bumps)
    <3>1. CASE writer'[w] = writer[w]
      BY <1>6, <2>2, <3>1 DEF Good
    <3>2. CASE writer'[w] # writer[w]
      BY <2>2, <3>2
    <3> QED
      BY <3>1, <3>2
  <2> QED
    BY <1>1, <1>6, <2>1, <2>2 DEF Good, Announces
<1>7. \A e \in Epochs : epoch[e] <= epoch'[e]
  BY <1>2 DEF Typed
<1>8. \A p \in Parts : answered[p] <= answered'[p]
  BY <1>4
<1> QED
  BY <1>3, <1>5, <1>6, <1>7, <1>8, WriteStep

LEMMA Announced ==
  ASSUME Typed, NEW op \in InvalidateAfterWrite
  PROVE  /\ op.parts \in SUBSET Parts /\ op.bumps \in Seq(Epochs)
         /\ \A p \in op.parts \cap Covered : Announces(op.bumps)
<1>1. /\ InvalidateScope(AnyScope) = <<"b", "a">> /\ {"a", "b"} \subseteq Epochs
      /\ \A n \in Namespaces : /\ InvalidateScope(n) = <<n, "a">> /\ n \in Parts /\ n \in Epochs
                               /\ n # Metrics
  BY Apart DEF InvalidateScope, Epochs, Parts
<1>2. \A n \in Namespaces : n \in Covered => ScopeName \in {n, "a"}
  BY <1>1 DEF Covered, ScopeName, Typed, Scopes, Parts
<1>3. ASSUME NEW n \in Namespaces, op = Write({n}, InvalidateScope(n))
      PROVE  /\ op.parts \in SUBSET Parts /\ op.bumps \in Seq(Epochs)
             /\ \A p \in op.parts \cap Covered : Announces(op.bumps)
  <2>1. op.parts = {n} /\ op.bumps = <<n, "a">>
    BY <1>1, <1>3 DEF Write
  <2>2. op.bumps \in Seq(Epochs) /\ DOMAIN op.bumps = 1..2 /\ op.bumps[1] = n /\ op.bumps[2] = "a"
    BY <1>1, <2>1
  <2>3. ASSUME n \in Covered
        PROVE  Announces(op.bumps)
    BY <1>2, <2>2, <2>3 DEF Announces
  <2> QED
    BY <1>1, <2>1, <2>2, <2>3
<1>4. ASSUME NEW x \in Pairs,
             op = Write({x[1], x[2]}, InvalidateScope(x[1]) \o InvalidateScope(x[2]))
      PROVE  /\ op.parts \in SUBSET Parts /\ op.bumps \in Seq(Epochs)
             /\ \A p \in op.parts \cap Covered : Announces(op.bumps)
  <2>0. x[1] \in Namespaces /\ x[2] \in Namespaces
    BY DEF Pairs
  <2>1. op.parts = {x[1], x[2]} /\ op.bumps = <<x[1], "a">> \o <<x[2], "a">>
    BY <1>1, <1>4, <2>0 DEF Write
  <2>2. /\ <<x[1], "a">> \in Seq(Epochs) /\ <<x[2], "a">> \in Seq(Epochs)
        /\ Len(<<x[1], "a">>) = 2 /\ Len(<<x[2], "a">>) = 2
    BY <1>1, <2>0
  <2>3. /\ op.bumps \in Seq(Epochs) /\ DOMAIN op.bumps = 1..4
        /\ op.bumps[1] = x[1] /\ op.bumps[2] = "a" /\ op.bumps[3] = x[2]
    <3> DEFINE s == <<x[1], "a">>
               t == <<x[2], "a">>
    <3>1. /\ s[1] = x[1] /\ s[2] = "a" /\ t[1] = x[2]
          /\ s \in Seq(Epochs) /\ t \in Seq(Epochs) /\ Len(s) = 2 /\ Len(t) = 2
      BY <2>2
    <3> HIDE DEF s, t
    <3>2. /\ s \o t \in Seq(Epochs) /\ Len(s \o t) = Len(s) + Len(t)
          /\ \A i \in 1..Len(s) + Len(t) :
               (s \o t)[i] = IF i <= Len(s) THEN s[i] ELSE t[i - Len(s)]
      BY <3>1, ConcatProperties
    <3>3. /\ Len(s \o t) = 4
          /\ (s \o t)[1] = s[1] /\ (s \o t)[2] = s[2] /\ (s \o t)[3] = t[1]
      BY <3>1, <3>2
    <3> QED
      BY <2>1, <3>1, <3>2, <3>3 DEF s, t
  <2>4. ASSUME NEW p \in {x[1], x[2]}, p \in Covered
        PROVE  Announces(op.bumps)
    BY <1>2, <2>0, <2>3, <2>4 DEF Announces
  <2> QED
    BY <1>1, <2>0, <2>1, <2>3, <2>4
<1>5. ASSUME NEW ps \in {{Metrics}, Parts}, op = Write(ps, InvalidateScope(AnyScope))
      PROVE  /\ op.parts \in SUBSET Parts /\ op.bumps \in Seq(Epochs)
             /\ \A p \in op.parts \cap Covered : Announces(op.bumps)
  <2>1. op.parts = ps /\ op.bumps = <<"b", "a">> /\ ps \subseteq Parts
    BY <1>1, <1>5 DEF Write, Parts
  <2>2. op.bumps \in Seq(Epochs) /\ DOMAIN op.bumps = 1..2 /\ op.bumps[1] = "b"
    BY <1>1, <2>1
  <2> QED
    BY <2>1, <2>2 DEF Announces
<1> QED
  BY <1>3, <1>4, <1>5 DEF InvalidateAfterWrite

LEMMA ExecuteKeeps ==
  ASSUME CacheInv, NEW w \in Writers, Execute(w)
  PROVE  CacheInv'
<1>1. PICK op \in InvalidateAfterWrite :
        /\ Change(op.parts)
        /\ writer' = [writer EXCEPT ![w] =
             [pc |-> "bump", parts |-> op.parts, change |-> changes + 1, bumps |-> op.bumps]]
  BY DEF Execute
<1>2. /\ op.parts \in SUBSET Parts /\ op.bumps \in Seq(Epochs)
      /\ \A p \in op.parts \cap Covered : Announces(op.bumps)
  BY Announced DEF CacheInv
<1> DEFINE new == [pc |-> "bump", parts |-> op.parts, change |-> changes + 1, bumps |-> op.bumps]
<1>3. /\ new \in Writing /\ new # Resting /\ new.parts = op.parts
      /\ new.change = changes + 1 /\ new.bumps = op.bumps
  BY <1>2 DEF Writing, Resting, CacheInv, Typed
<1> HIDE DEF new
<1>4. writer' = [writer EXCEPT ![w] = new]
  BY <1>1 DEF new
<1>5. /\ writer' \in [Writers -> {Resting} \cup Writing]
      /\ writer'[w] = new /\ \A v \in Writers : v # w => writer'[v] = writer[v]
  BY <1>3, <1>4 DEF CacheInv, Typed
<1>6. NoReader /\ epoch' = epoch /\ answered' = answered
  BY DEF Execute
<1> QED
  BY <1>1, <1>2, <1>3, <1>5, <1>6, ChangeStep

LEMMA ImportBatchKeeps ==
  ASSUME CacheInv, NEW w \in Writers, ImportBatch(w)
  PROVE  CacheInv'
<1>1. PICK n \in Namespaces : writer[w].parts = {n} /\ writer[w].bumps = InvalidateScope(n)
  BY DEF ImportBatch
<1>2. writer[w] \in Writing
  BY DEF ImportBatch, CacheInv, Typed, Resting
<1>3. /\ {n} \in SUBSET Parts
      /\ \A p \in {n} \cap Covered : Announces(InvalidateScope(n))
  <2>1. Write({n}, InvalidateScope(n)) \in InvalidateAfterWrite
    BY DEF InvalidateAfterWrite
  <2> QED
    BY <2>1, Announced DEF CacheInv, Write
<1> DEFINE new == [writer[w] EXCEPT !.change = changes + 1]
<1>4. /\ new \in Writing /\ new # Resting /\ new.parts = {n}
      /\ new.change = changes + 1 /\ new.bumps = InvalidateScope(n)
  <2>1. changes \in Nat
    BY DEF CacheInv, Typed
  <2>2. new \in Writing /\ new.change = changes + 1
    BY <1>2, <2>1 DEF Writing
  <2>3. new.parts = {n} /\ new.bumps = InvalidateScope(n)
    BY <1>1, <1>2 DEF Writing
  <2>4. new # Resting
    <3> HIDE DEF new
    <3> QED
      BY <2>2 DEF Writing, Resting
  <2> QED
    BY <2>2, <2>3, <2>4
<1>5. writer' = [writer EXCEPT ![w] = new]
  BY DEF ImportBatch
<1> HIDE DEF new
<1>6. /\ writer' \in [Writers -> {Resting} \cup Writing]
      /\ writer'[w] = new /\ \A v \in Writers : v # w => writer'[v] = writer[v]
  BY <1>4, <1>5 DEF CacheInv, Typed
<1>7. NoReader /\ epoch' = epoch /\ answered' = answered /\ Change({n})
  BY <1>1 DEF ImportBatch
<1> QED
  BY <1>3, <1>4, <1>6, <1>7, ChangeStep

LEMMA UnannouncedKeeps ==
  ASSUME CacheInv, Unannounced
  PROVE  CacheInv'
<1>1. PICK p \in Parts : Change({p})
  BY DEF Unannounced
<1>2. /\ NoReader /\ epoch' = epoch /\ answered' = answered /\ writer' = writer
  BY DEF Unannounced
<1> QED
  BY <1>1, <1>2, ChangeStep DEF CacheInv, Typed

LEMMA BumpEpochKeeps ==
  ASSUME CacheInv, NEW w \in Writers, BumpEpoch(w)
  PROVE  CacheInv'
<1> DEFINE bumps == writer[w].bumps
           head == Head(bumps)
           new == [writer[w] EXCEPT !.bumps = Tail(@)]
<1>1. Typed /\ writer[w] \in Writing /\ bumps \in Seq(Epochs) /\ bumps # <<>>
  BY DEF BumpEpoch, CacheInv, Typed, Resting, Writing
<1>2. /\ head \in Epochs /\ Tail(bumps) \in Seq(Epochs)
      /\ \A i \in DOMAIN bumps : bumps[i] = head \/ \E j \in DOMAIN Tail(bumps) : Tail(bumps)[j] = bumps[i]
  <2>1. bumps[1] = head /\ head \in Epochs /\ Tail(bumps) \in Seq(Epochs)
    BY <1>1
  <2>2. ASSUME NEW i \in DOMAIN bumps, i # 1
        PROVE  i - 1 \in DOMAIN Tail(bumps) /\ Tail(bumps)[i - 1] = bumps[i]
    <3> HIDE DEF bumps
    <3> QED
      BY <1>1, <2>2
  <2> QED
    BY <2>1, <2>2
<1>3. /\ new \in Writing /\ new.parts = writer[w].parts /\ new.change = writer[w].change
      /\ new.bumps = Tail(bumps) /\ new.pc = "bump"
  BY <1>1, <1>2 DEF Writing
<1>4. /\ writer' = [writer EXCEPT ![w] = new] /\ epoch' = [epoch EXCEPT ![head] = @ + 1]
      /\ NoReader /\ rows' = rows /\ changes' = changes /\ answered' = answered
  BY DEF BumpEpoch
<1> HIDE DEF bumps, head, new
<1>5. /\ writer' \in [Writers -> {Resting} \cup Writing]
      /\ writer'[w] = new /\ \A v \in Writers : v # w => writer'[v] = writer[v]
      /\ epoch' \in [Epochs -> Nat]
      /\ \A e \in Epochs : epoch'[e] = IF e = head THEN epoch[e] + 1 ELSE epoch[e]
  BY <1>1, <1>2, <1>3, <1>4 DEF Typed
<1>6. /\ Covered' = Covered /\ ScopeName' = ScopeName /\ scope' = scope /\ Covered \subseteq Parts
  BY <1>1, <1>4, ScopeFacts DEF NoReader, Covered, ScopeName
<1>7. Typed'
  BY <1>1, <1>4, <1>5, <1>6 DEF Typed, NoReader, Reading, Writing
<1>8. Numbered'
  BY <1>1, <1>3, <1>4, <1>5 DEF CacheInv, Numbered, Writing
<1>9. /\ \A e \in Epochs : epoch[e] \in Nat /\ epoch[e] <= epoch'[e]
  BY <1>1, <1>5 DEF Typed
<1>10. /\ epoch["b"] <= epoch'["b"] /\ ScopeEpoch <= ScopeEpoch'
       /\ {epoch["b"], epoch'["b"], ScopeEpoch, ScopeEpoch'} \subseteq Nat
       /\ head = "b" => epoch'["b"] > epoch["b"]
       /\ head = ScopeName /\ scope # Metrics => ScopeEpoch' > ScopeEpoch
  <2>1. "b" \in Epochs /\ {epoch["b"], epoch'["b"]} \subseteq Nat /\ epoch["b"] <= epoch'["b"]
        /\ (head = "b" => epoch'["b"] > epoch["b"])
    BY <1>1, <1>5, <1>9 DEF Epochs, Typed
  <2>2. CASE scope = Metrics
    BY <1>6, <2>1, <2>2, Apart DEF ScopeEpoch
  <2>3. CASE scope # Metrics
    <3>1. ScopeName \in Epochs /\ ScopeEpoch = epoch[ScopeName]
      BY <1>1, <2>3, ScopeFacts
    <3>2. ScopeEpoch' = epoch'[ScopeName]
      BY <1>6, <1>7, <2>3, ScopeFacts DEF ScopeEpoch, ScopeName
    <3> QED
      BY <1>5, <1>9, <2>1, <2>3, <3>1, <3>2
  <2> QED
    BY <2>2, <2>3
<1>11. ASSUME NEW k \in CacheKeys, NEW s \in [Covered -> Nat], Good(k, s)
       PROVE  Good(k, s)'
  <2>1. /\ k[1] \in Nat /\ k[2] \in Nat /\ k[1] <= epoch["b"] /\ k[2] <= ScopeEpoch
    BY <1>11 DEF Good, CacheKeys
  <2>2. Outdated(k) => Outdated(k)'
    BY <1>10, <2>1 DEF Outdated, Behind
  <2>3. head \in {"b", ScopeName} => Outdated(k)'
    <3>1. CASE head = "b"
      BY <1>10, <2>1, <3>1 DEF Outdated, Behind
    <3>2. CASE head = ScopeName /\ scope # Metrics
      BY <1>10, <2>1, <3>2 DEF Outdated, Behind
    <3>3. scope = Metrics => ScopeName = "b"
      BY Apart DEF ScopeName
    <3> QED
      BY <3>1, <3>2, <3>3
  <2>4. Announces(bumps) => Outdated(k)' \/ Announces(Tail(bumps))
    BY <1>2, <2>3 DEF Announces
  <2>5. ASSUME NEW p \in Covered, NEW v \in Writers, writer'[v].pc = "bump",
               p \in writer'[v].parts
        PROVE  s[p] >= writer'[v].change \/ Outdated(k)' \/ Announces(writer'[v].bumps)
    <3>1. CASE v = w
      <4>1. s[p] >= writer[w].change \/ Outdated(k) \/ Announces(bumps)
        BY <1>1, <1>3, <1>5, <1>11, <2>5, <3>1 DEF Good, Writing, bumps
      <4> QED
        BY <1>3, <1>5, <2>2, <2>4, <3>1, <4>1
    <3>2. CASE v # w
      BY <1>5, <1>11, <2>2, <2>5, <3>2 DEF Good
    <3> QED
      BY <3>1, <3>2
  <2>6. /\ k[1] <= epoch'["b"] /\ k[2] <= ScopeEpoch'
    BY <1>10, <2>1
  <2> QED
    BY <1>4, <1>6, <1>11, <2>2, <2>5, <2>6 DEF Good, Announces
<1>12. \A p \in Parts : answered[p] <= answered'[p]
  BY <1>1, <1>4 DEF Typed
<1> QED
  BY <1>4, <1>7, <1>8, <1>9, <1>11, <1>12, WriteStep

LEMMA AnswerWriteKeeps ==
  ASSUME CacheInv, NEW w \in Writers, AnswerWrite(w)
  PROVE  CacheInv'
<1>1. Typed /\ writer[w] \in Writing /\ writer[w].pc = "bump"
      /\ writer[w].change \in Nat /\ writer[w].parts \subseteq Parts
  BY DEF AnswerWrite, CacheInv, Typed, Resting, Writing
<1>2. ~Announces(writer[w].bumps)
  BY DEF AnswerWrite, Announces
<1>3. /\ writer' = [writer EXCEPT ![w] = Resting] /\ NoReader
      /\ rows' = rows /\ changes' = changes /\ epoch' = epoch
  BY DEF AnswerWrite
<1>4. /\ writer' \in [Writers -> {Resting} \cup Writing]
      /\ writer'[w] = Resting /\ \A v \in Writers : v # w => writer'[v] = writer[v]
  BY <1>1, <1>3 DEF Typed
<1>5. /\ answered' \in [Parts -> Nat]
      /\ \A p \in Parts : /\ answered[p] <= answered'[p]
                          /\ answered'[p] = answered[p]
                             \/ (p \in writer[w].parts /\ answered'[p] = writer[w].change)
  <2> DEFINE new == [p \in Parts |-> IF p \in writer[w].parts
                       THEN Newest(answered[p], writer[w].change) ELSE answered[p]]
  <2>1. answered' = new
    BY DEF AnswerWrite
  <2>2. \A p \in Parts : /\ new[p] \in Nat /\ answered[p] <= new[p]
                         /\ \/ new[p] = answered[p]
                            \/ (p \in writer[w].parts /\ new[p] = writer[w].change)
    BY <1>1 DEF Newest, Typed
  <2>3. new \in [Parts -> Nat]
    BY <2>2
  <2> HIDE DEF new
  <2> QED
    BY <2>1, <2>2, <2>3
<1>6. /\ Covered' = Covered /\ ScopeName' = ScopeName /\ ScopeEpoch' = ScopeEpoch
      /\ Covered \subseteq Parts
  BY <1>1, <1>3, ScopeFacts DEF NoReader, Covered, ScopeName, ScopeEpoch
<1>7. Typed'
  BY <1>1, <1>3, <1>4, <1>5, <1>6 DEF Typed, NoReader, Reading, Writing
<1>8. Numbered'
  <2>1. \A p \in Parts : answered'[p] <= rows[p]
    BY <1>1, <1>5 DEF CacheInv, Numbered
  <2>2. \A v \in Writers : writer'[v].pc = "bump" => v # w
    BY <1>4 DEF Resting
  <2> QED
    BY <1>3, <1>4, <2>1, <2>2 DEF CacheInv, Numbered
<1>9. ASSUME NEW k \in CacheKeys, NEW s \in [Covered -> Nat], Good(k, s)
      PROVE  Good(k, s)'
  <2>1. Outdated(k)' = Outdated(k)
    BY <1>3, <1>6 DEF Outdated, Behind
  <2>2. \A p \in Covered : s[p] >= answered'[p] \/ Outdated(k)
    BY <1>1, <1>2, <1>5, <1>6, <1>9 DEF Good
  <2>3. \A v \in Writers : writer'[v].pc = "bump" => v # w
    BY <1>4 DEF Resting
  <2> QED
    BY <1>3, <1>4, <1>6, <1>9, <2>1, <2>2, <2>3 DEF Good, Announces
<1>10. \A e \in Epochs : epoch[e] <= epoch'[e]
  BY <1>1, <1>3 DEF Typed
<1>11. \A p \in Parts : answered[p] <= answered'[p]
  BY <1>5
<1> QED
  BY <1>3, <1>7, <1>8, <1>9, <1>10, <1>11, WriteStep

LEMMA InvalidateRequestKeeps ==
  ASSUME CacheInv, InvalidateRequest
  PROVE  CacheInv'
<1>1. PICK w \in Writers, s0 \in Scopes :
        writer' = [writer EXCEPT ![w] = [pc |-> "bump", parts |-> {}, change |-> 0,
            bumps |-> IF s0 = Metrics THEN <<"b">> ELSE InvalidateScope(s0)]]
  BY DEF InvalidateRequest
<1> DEFINE new == [pc |-> "bump", parts |-> {}, change |-> 0,
                   bumps |-> IF s0 = Metrics THEN <<"b">> ELSE InvalidateScope(s0)]
<1>2. new \in Writing /\ new.parts = {}
  <2>1. {"a", "b"} \subseteq Epochs /\ Namespaces \subseteq Epochs
    BY DEF Epochs
  <2>2. <<"b">> \in Seq(Epochs) /\ InvalidateScope(s0) \in Seq(Epochs)
    BY <2>1 DEF InvalidateScope
  <2> QED
    BY <2>2 DEF Writing
<1>3. writer' = [writer EXCEPT ![w] = new]
  BY <1>1
<1> HIDE DEF new
<1>4. /\ writer' \in [Writers -> {Resting} \cup Writing]
      /\ writer'[w] = new /\ \A v \in Writers : v # w => writer'[v] = writer[v]
  BY <1>2, <1>3 DEF CacheInv, Typed
<1>5. /\ NoReader /\ rows' = rows /\ epoch' = epoch /\ answered' = answered
      /\ changes' = changes + 1 /\ Typed
  BY DEF InvalidateRequest, CacheInv
<1>6. /\ Covered' = Covered /\ ScopeName' = ScopeName /\ ScopeEpoch' = ScopeEpoch
  BY <1>5 DEF NoReader, Covered, ScopeName, ScopeEpoch
<1>7. Typed'
  BY <1>4, <1>5, <1>6 DEF Typed, NoReader, Reading, Writing
<1>8. Numbered'
  <2>1. \A p \in Parts : answered[p] <= rows[p] /\ rows[p] <= changes + 1
    BY <1>5 DEF CacheInv, Typed, Numbered
  <2>2. \A v \in Writers : writer'[v].pc = "bump" =>
          \A p \in writer'[v].parts : writer'[v].change <= rows[p]
    BY <1>2, <1>4 DEF CacheInv, Numbered
  <2> QED
    BY <1>5, <2>1, <2>2 DEF Numbered
<1>9. ASSUME NEW k \in CacheKeys, NEW s \in [Covered -> Nat], Good(k, s)
      PROVE  Good(k, s)'
  <2>1. Outdated(k)' = Outdated(k)
    BY <1>5, <1>6 DEF Outdated, Behind
  <2>2. \A v \in Writers : writer'[v].parts # {} => writer'[v] = writer[v]
    BY <1>2, <1>4
  <2> QED
    BY <1>5, <1>6, <1>9, <2>1, <2>2 DEF Good, Announces
<1>10. /\ \A e \in Epochs : epoch[e] <= epoch'[e]
       /\ \A p \in Parts : answered[p] <= answered'[p]
  BY <1>5 DEF Typed
<1> QED
  BY <1>5, <1>7, <1>8, <1>9, <1>10, WriteStep

------------------------------------------------------------------------------
LEMMA NextKeeps ==
  ASSUME CacheInv, ~Deletes, [CacheNext]_cacheVars
  PROVE  CacheInv'
<1>1. ASSUME NEW r \in Readers,
             \/ StartRead(r) \/ BroadcastEpoch(r) \/ ReadScopeEpoch(r) \/ Hit(r) \/ Miss(r)
             \/ Select(r) \/ PutCachedRead(r) \/ AnswerRead(r)
      PROVE  CacheInv'
  BY <1>1, StartReadKeeps, BroadcastEpochKeeps, ReadScopeEpochKeeps, HitKeeps, MissKeeps,
     SelectKeeps, PutKeeps, AnswerReadKeeps
<1>2. ASSUME NEW w \in Writers, Execute(w) \/ ImportBatch(w) \/ BumpEpoch(w) \/ AnswerWrite(w)
      PROVE  CacheInv'
  BY <1>2, ExecuteKeeps, ImportBatchKeeps, BumpEpochKeeps, AnswerWriteKeeps
<1>3. ASSUME NEW w \in Writers
      PROVE  ~DeleteFiles(w) /\ ~RemoveEpoch(w) /\ ~InvalidateAll(w)
  <2>1. writer[w].pc # "clear"
    BY DEF CacheInv, Typed, Resting, Writing
  <2> QED
    BY <2>1 DEF DeleteFiles, RemoveEpoch, InvalidateAll
<1>4. CASE Unannounced
  BY <1>4, UnannouncedKeeps
<1>5. CASE InvalidateRequest
  BY <1>5, InvalidateRequestKeeps
<1>6. CASE UNCHANGED cacheVars
  <2>1. NoReader /\ Covered' = Covered /\ ScopeName' = ScopeName /\ ScopeEpoch' = ScopeEpoch
    BY <1>6 DEF cacheVars, NoReader, Covered, ScopeName, ScopeEpoch
  <2>2. Typed' /\ Numbered'
    BY <1>6, <2>1 DEF cacheVars, CacheInv, Typed, Numbered, Reading, Writing
  <2>3. \A k \in CacheKeys, s \in [Covered -> Nat] : Good(k, s) => Good(k, s)'
    BY <1>6, <2>1 DEF cacheVars, Good, Outdated, Announces
  <2>4. /\ \A e \in Epochs : epoch[e] <= epoch'[e]
        /\ \A p \in Parts : answered[p] <= answered'[p]
    BY <1>6 DEF cacheVars, CacheInv, Typed
  <2> QED
    BY <2>1, <2>2, <2>3, <2>4, WriteStep
<1> QED
  BY <1>1, <1>2, <1>3, <1>4, <1>5, <1>6 DEF CacheNext

(* No read that begins after a write was answered gets an answer from before   *)
(* it, however many reads and writes of the same, another or no namespace      *)
(* race: state.rs bumps the epochs of a write after it has executed and before  *)
(* it is answered, and runtime_support.rs takes a read's key before its SELECT. *)
(* A database that is deleted, whose epochs start again, is left out.          *)
THEOREM ReadsAlwaysFresh ==
  ~Deletes => (CacheSpec => []CachedFresh)
<1> SUFFICES ASSUME ~Deletes
             PROVE  CacheSpec => []CachedFresh
  OBVIOUS
<1>1. CacheInit => CacheInv
  BY Initially
<1>2. CacheInv /\ [CacheNext]_cacheVars => CacheInv'
  BY NextKeeps
<1>3. CacheInv => CachedFresh
  BY DEF CacheInv
<1> QED
  BY <1>1, <1>2, <1>3, PTL DEF CacheSpec


------------------------------------------------------------------------------
(* A set of numbers has a least one.                                          *)
LEMMA LeastNumber ==
  ASSUME NEW T \in SUBSET Nat, T # {}
  PROVE  \E m \in T : \A n \in T : m <= n
<1>1. PICK m \in T : \A n \in T : <<n, m>> \notin OpToRel(<, Nat)
  BY NatLessThanWellFounded, WFMin
<1>2. \A n \in T : ~(n < m)
  BY <1>1 DEF OpToRel
<1> QED
  BY <1>2

(* Sums.  The library's sum of a function takes its elements in the order     *)
(* CHOOSE gives; these lemmas say that the order does not matter.             *)
Chosen(s) == CHOOSE x \in s : TRUE
Sum(g, S) == SumFunctionOnSet(g, S)
Sums(f, g, S) ==
  \A s \in SUBSET S : f[s] = IF s = {} THEN 0 ELSE g[Chosen(s)] + f[s \ {Chosen(s)}]

(* Of any sets of a finite one, some are smallest.                            *)
LEMMA SmallestSet ==
  ASSUME NEW S, IsFiniteSet(S), NEW F \in SUBSET (SUBSET S), F # {}
  PROVE  \E T \in F : \A x \in T : T \ {x} \notin F
<1> DEFINE N == {Cardinality(T) : T \in F}
<1>1. \A T \in F : IsFiniteSet(T) /\ Cardinality(T) \in Nat
  BY FS_Subset, FS_CardinalityType
<1>2. N \in SUBSET Nat /\ N # {}
  BY <1>1
<1>3. PICK n \in N : \A o \in N : n <= o
  BY <1>2, LeastNumber
<1>4. PICK T \in F : n = Cardinality(T)
  OBVIOUS
<1>5. ASSUME NEW x \in T, T \ {x} \in F PROVE FALSE
  <2>1. Cardinality(T \ {x}) = Cardinality(T) - 1
    BY <1>1, FS_RemoveElement
  <2>2. Cardinality(T) <= Cardinality(T \ {x})
    BY <1>3, <1>4, <1>5
  <2> QED
    BY <1>1, <2>1, <2>2
<1> QED
  BY <1>5

(* The function a sum is computed by exists.                                  *)
LEMMA SumExists ==
  ASSUME NEW g, NEW S, IsFiniteSet(S)
  PROVE  \E f : Sum(g, S) = f[S] /\ Sums(f, g, S)
<1> DEFINE Step(f, s) == IF s = {} THEN 0 ELSE g[Chosen(s)] + f[s \ {Chosen(s)}]
           Lev(n) == {s \in SUBSET S : Cardinality(s) <= n}
           Is(f, n) == f = [s \in Lev(n) |-> Step(f, s)]
           No == {n \in Nat : ~\E f : Is(f, n)}
<1>1. \A s \in SUBSET S : /\ IsFiniteSet(s) /\ Cardinality(s) \in Nat
                          /\ Cardinality(s) <= Cardinality(S)
                          /\ Cardinality(s) = 0 <=> s = {}
  BY FS_Subset, FS_CardinalityType, FS_EmptySet
<1>2. \A s \in SUBSET S : s # {} =>
        Chosen(s) \in s /\ Cardinality(s \ {Chosen(s)}) = Cardinality(s) - 1
  <2>1. \A s : s # {} => Chosen(s) \in s
    BY DEF Chosen
  <2> QED
    BY <1>1, <2>1, FS_RemoveElement
<1> HIDE DEF Step
<1>3. No = {}
  <2> SUFFICES ASSUME No # {} PROVE FALSE
    OBVIOUS
  <2>1. PICK n \in No : \A m \in No : n <= m
    BY LeastNumber
  <2>2. CASE n = 0
    <3> DEFINE f == [s \in Lev(0) |-> 0]
    <3>1. \A s \in Lev(0) : Step(f, s) = 0
      BY <1>1 DEF Step
    <3>2. Is(f, 0)
      <4> QED
        BY <3>1
    <3> QED
      BY <2>1, <2>2, <3>2
  <2>3. CASE n # 0
    <3>1. n - 1 \in Nat /\ n - 1 \notin No
      <4>1. n \in Nat
        OBVIOUS
      <4>2. n - 1 \in Nat /\ ~(n <= n - 1)
        BY <2>3, <4>1
      <4> HIDE DEF No
      <4> QED
        BY <2>1, <4>2
    <3>2. PICK h0 : Is(h0, n - 1)
      BY <3>1
    <3> DEFINE f == [s \in Lev(n) |-> Step(h0, s)]
    <3>3. \A s \in Lev(n - 1) : f[s] = h0[s]
      <4>1. Lev(n - 1) \subseteq Lev(n)
        BY <1>1, <3>1
      <4> QED
        BY <3>2, <4>1
    <3>4. ASSUME NEW s \in Lev(n) PROVE Step(f, s) = Step(h0, s)
      <4>1. CASE s = {}
        BY <4>1 DEF Step
      <4>2. CASE s # {}
        <5>1. s \ {Chosen(s)} \in Lev(n - 1)
          BY <1>1, <1>2, <4>2, <3>1
        <5>2. f[s \ {Chosen(s)}] = h0[s \ {Chosen(s)}]
          BY <3>3, <5>1
        <5> HIDE DEF f
        <5> QED
          BY <4>2, <5>2 DEF Step
      <4> QED
        BY <4>1, <4>2
    <3>5. Is(f, n)
      BY <3>4
    <3> QED
      BY <2>1, <3>5
  <2> QED
    BY <2>2, <2>3
<1>4. PICK f0 : Is(f0, Cardinality(S))
  BY <1>1, <1>3
<1>5. Lev(Cardinality(S)) = SUBSET S
  BY <1>1
<1>6. f0 = [s \in SUBSET S |-> Step(f0, s)]
  BY <1>4, <1>5
<1> DEFINE it == CHOOSE f : f = [s \in SUBSET S |-> Step(f, s)]
<1>7. it = [s \in SUBSET S |-> Step(it, s)]
  BY <1>6
<1>8. Sum(g, S) = it[S]
  BY DEF Sum, SumFunctionOnSet, FoldFunctionOnSet, MapThenFoldSet, Step, Chosen
<1> HIDE DEF it
<1>9. \A s \in SUBSET S : it[s] = Step(it, s)
  BY <1>7
<1>10. Sums(it, g, S)
  BY <1>9 DEF Sums, Step
<1> QED
  BY <1>8, <1>10

LEMMA SumIs ==
  ASSUME NEW g, NEW S, IsFiniteSet(S), NEW f, Sums(f, g, S), NEW T \in SUBSET S
  PROVE  Sum(g, T) = f[T]
<1>1. IsFiniteSet(T)
  BY FS_Subset
<1>2. PICK f2 : Sum(g, T) = f2[T] /\ Sums(f2, g, T)
  BY <1>1, SumExists
<1> DEFINE F == {s \in SUBSET T : f2[s] # f[s]}
<1>3. F = {}
  <2> SUFFICES ASSUME F # {} PROVE FALSE
    OBVIOUS
  <2>1. PICK s \in F : \A x \in s : s \ {x} \notin F
    BY <1>1, SmallestSet
  <2>2. s \in SUBSET T /\ f2[s] # f[s]
    OBVIOUS
  <2>3. s # {}
    BY <1>2, <2>2 DEF Sums
  <2>4. Chosen(s) \in s
    BY <2>3 DEF Chosen
  <2>5. f2[s \ {Chosen(s)}] = f[s \ {Chosen(s)}]
    BY <2>1, <2>2, <2>4
  <2> QED
    BY <1>2, <2>2, <2>3, <2>5 DEF Sums
<1> QED
  BY <1>2, <1>3

LEMMA SumSteps ==
  ASSUME NEW g, NEW S, IsFiniteSet(S)
  PROVE  /\ Sum(g, {}) = 0
         /\ S # {} => Chosen(S) \in S /\ Sum(g, S) = g[Chosen(S)] + Sum(g, S \ {Chosen(S)})
<1>1. PICK f : Sums(f, g, S)
  BY SumExists
<1>2. \A T \in SUBSET S : Sum(g, T) = f[T]
  BY <1>1, SumIs
<1>3. S # {} => Chosen(S) \in S
  BY DEF Chosen
<1> QED
  BY <1>1, <1>2, <1>3 DEF Sums

(* A function to the integers, on S.                                          *)
Ints(g, S) == \A i \in S : g[i] \in Int

LEMMA SumType ==
  ASSUME NEW g, NEW S, IsFiniteSet(S), Ints(g, S)
  PROVE  Sum(g, S) \in Int
<1> DEFINE F == {T \in SUBSET S : Sum(g, T) \notin Int}
<1>1. F = {}
  <2> SUFFICES ASSUME F # {} PROVE FALSE
    OBVIOUS
  <2>1. PICK T \in F : \A x \in T : T \ {x} \notin F
    BY SmallestSet
  <2>2. T \in SUBSET S /\ Sum(g, T) \notin Int
    OBVIOUS
  <2>3. IsFiniteSet(T)
    BY <2>2, FS_Subset
  <2>31. T # {}
    <3>1. Sum(g, {}) = 0
      BY <2>3, SumSteps
    <3> QED
      BY <2>2, <3>1
  <2>4. Chosen(T) \in T /\ Sum(g, T) = g[Chosen(T)] + Sum(g, T \ {Chosen(T)})
    BY <2>3, <2>31, SumSteps
  <2>5. Sum(g, T \ {Chosen(T)}) \in Int
    BY <2>1, <2>2, <2>4
  <2> QED
    BY <2>2, <2>4, <2>5 DEF Ints
<1> QED
  BY <1>1

LEMMA SumRemove ==
  ASSUME NEW g, NEW S, IsFiniteSet(S), Ints(g, S), NEW x \in S
  PROVE  Sum(g, S) = g[x] + Sum(g, S \ {x})
<1> DEFINE F == {T \in SUBSET S : \E y \in T : Sum(g, T) # g[y] + Sum(g, T \ {y})}
<1>1. \A T \in SUBSET S : IsFiniteSet(T) /\ Sum(g, T) \in Int
  BY FS_Subset, SumType DEF Ints
<1>2. F = {}
  <2> SUFFICES ASSUME F # {} PROVE FALSE
    OBVIOUS
  <2>1. PICK T \in F : \A y \in T : T \ {y} \notin F
    BY SmallestSet
  <2>2. T \in SUBSET S
    OBVIOUS
  <2>3. PICK y \in T : Sum(g, T) # g[y] + Sum(g, T \ {y})
    OBVIOUS
  <2> DEFINE c == Chosen(T)
             rest == T \ {y, c}
  <2>4. c \in T /\ Sum(g, T) = g[c] + Sum(g, T \ {c})
    BY <1>1, <2>2, <2>3, SumSteps
  <2>5. c # y
    BY <2>3, <2>4
  <2>6. /\ T \ {c} \in SUBSET S /\ T \ {c} \notin F /\ y \in T \ {c}
        /\ T \ {y} \in SUBSET S /\ T \ {y} \notin F /\ c \in T \ {y}
    BY <2>1, <2>2, <2>4, <2>5
  <2>7. (T \ {c}) \ {y} = rest /\ (T \ {y}) \ {c} = rest
    OBVIOUS
  <2>8. Sum(g, T \ {c}) = g[y] + Sum(g, rest)
    BY <2>6, <2>7
  <2>9. Sum(g, T \ {y}) = g[c] + Sum(g, rest)
    BY <2>6, <2>7
  <2>10. g[c] \in Int /\ g[y] \in Int /\ Sum(g, rest) \in Int
    BY <1>1, <2>2, <2>4 DEF Ints
  <2> HIDE DEF c, rest
  <2> QED
    BY <2>3, <2>4, <2>8, <2>9, <2>10
<1> QED
  BY <1>2

LEMMA SumSame ==
  ASSUME NEW g, NEW k, NEW S, IsFiniteSet(S), \A i \in S : g[i] = k[i]
  PROVE  Sum(g, S) = Sum(k, S)
<1> DEFINE F == {T \in SUBSET S : Sum(g, T) # Sum(k, T)}
<1>1. F = {}
  <2> SUFFICES ASSUME F # {} PROVE FALSE
    OBVIOUS
  <2>1. PICK T \in F : \A x \in T : T \ {x} \notin F
    BY SmallestSet
  <2>2. T \in SUBSET S /\ Sum(g, T) # Sum(k, T)
    OBVIOUS
  <2>3. IsFiniteSet(T)
    BY <2>2, FS_Subset
  <2>4. /\ T # {} /\ Chosen(T) \in T /\ Sum(g, T) = g[Chosen(T)] + Sum(g, T \ {Chosen(T)})
        /\ Sum(k, T) = k[Chosen(T)] + Sum(k, T \ {Chosen(T)})
    BY <2>2, <2>3, SumSteps
  <2>5. Sum(g, T \ {Chosen(T)}) = Sum(k, T \ {Chosen(T)})
    BY <2>1, <2>2, <2>4
  <2> QED
    BY <2>2, <2>4, <2>5
<1> QED
  BY <1>1

LEMMA SumUnion ==
  ASSUME NEW g, NEW S, IsFiniteSet(S), NEW T, IsFiniteSet(T), Ints(g, S \cup T), S \cap T = {}
  PROVE  Sum(g, S \cup T) = Sum(g, S) + Sum(g, T)
<1> DEFINE F == {U \in SUBSET T : Sum(g, S \cup U) # Sum(g, S) + Sum(g, U)}
<1>1. Ints(g, S) /\ Sum(g, S) \in Int
  BY SumType DEF Ints
<1>2. \A U \in SUBSET T : /\ IsFiniteSet(U) /\ IsFiniteSet(S \cup U)
                          /\ Ints(g, U) /\ Ints(g, S \cup U) /\ Sum(g, U) \in Int
  <2>1. \A U \in SUBSET T : IsFiniteSet(U) /\ IsFiniteSet(S \cup U)
    BY FS_Subset, FS_Union
  <2>2. \A U \in SUBSET T : Ints(g, U) /\ Ints(g, S \cup U)
    BY DEF Ints
  <2> QED
    BY <2>1, <2>2, SumType
<1>3. F = {}
  <2> SUFFICES ASSUME F # {} PROVE FALSE
    OBVIOUS
  <2>1. PICK U \in F : \A x \in U : U \ {x} \notin F
    BY SmallestSet
  <2>2. U \in SUBSET T /\ Sum(g, S \cup U) # Sum(g, S) + Sum(g, U)
    OBVIOUS
  <2>3. CASE U = {}
    <3>1. S \cup U = S /\ Sum(g, U) = 0
      BY <1>2, <2>2, <2>3, SumSteps
    <3> QED
      BY <1>1, <2>2, <3>1
  <2>4. CASE U # {}
    <3>1. PICK x \in U : TRUE
      BY <2>4
    <3>2. Sum(g, S \cup (U \ {x})) = Sum(g, S) + Sum(g, U \ {x})
      BY <2>1, <2>2, <3>1
    <3>3. (S \cup U) \ {x} = S \cup (U \ {x}) /\ x \in S \cup U /\ U \ {x} \in SUBSET T
      BY <2>2, <3>1
    <3>4. Sum(g, S \cup U) = g[x] + Sum(g, S \cup (U \ {x}))
      BY <1>2, <2>2, <3>3, SumRemove
    <3>5. Sum(g, U) = g[x] + Sum(g, U \ {x})
      BY <1>2, <2>2, <3>1, SumRemove
    <3>6. g[x] \in Int /\ Sum(g, U \ {x}) \in Int
      BY <1>2, <2>2, <3>3 DEF Ints
    <3> QED
      BY <1>1, <2>2, <3>2, <3>4, <3>5, <3>6
  <2> QED
    BY <2>3, <2>4
<1> QED
  BY <1>3

LEMMA SumPlus ==
  ASSUME NEW g, NEW k, NEW j, NEW S, IsFiniteSet(S), Ints(g, S), Ints(k, S),
         \A i \in S : j[i] = g[i] + k[i]
  PROVE  Sum(j, S) = Sum(g, S) + Sum(k, S)
<1> DEFINE F == {T \in SUBSET S : Sum(j, T) # Sum(g, T) + Sum(k, T)}
<1>1. \A T \in SUBSET S : IsFiniteSet(T) /\ Sum(g, T) \in Int /\ Sum(k, T) \in Int
  BY FS_Subset, SumType DEF Ints
<1>2. F = {}
  <2> SUFFICES ASSUME F # {} PROVE FALSE
    OBVIOUS
  <2>1. PICK T \in F : \A x \in T : T \ {x} \notin F
    BY SmallestSet
  <2>2. T \in SUBSET S /\ Sum(j, T) # Sum(g, T) + Sum(k, T)
    OBVIOUS
  <2> DEFINE c == Chosen(T)
             rest == T \ {c}
  <2>3. Sum(g, {}) = 0 /\ Sum(k, {}) = 0 /\ Sum(j, {}) = 0
    BY <1>1, SumSteps
  <2>4. T # {}
    BY <2>2, <2>3
  <2>5. /\ c \in T /\ Sum(g, T) = g[c] + Sum(g, rest)
        /\ Sum(k, T) = k[c] + Sum(k, rest) /\ Sum(j, T) = j[c] + Sum(j, rest)
    BY <1>1, <2>2, <2>4, SumSteps
  <2>6. rest \in SUBSET S /\ Sum(j, rest) = Sum(g, rest) + Sum(k, rest)
    BY <2>1, <2>2, <2>5
  <2>7. g[c] \in Int /\ k[c] \in Int /\ j[c] = g[c] + k[c]
        /\ Sum(g, rest) \in Int /\ Sum(k, rest) \in Int
    BY <1>1, <2>2, <2>5, <2>6 DEF Ints
  <2> HIDE DEF c, rest
  <2> QED
    BY <2>2, <2>5, <2>6, <2>7
<1> QED
  BY <1>2

------------------------------------------------------------------------------
(* Documents.  The tables; what their counters say comes below.               *)

Tables(d) ==
  /\ DOMAIN d = {"docs", "archive", "moves", "stats"}
  /\ d.docs \in [Docs -> Row \cup {None}]
  /\ d.archive \in SUBSET Version /\ IsFiniteSet(d.archive)
  /\ d.moves \in [Docs -> [Names -> Transition \cup {None}]]

(* Transitions of e are those of d, of which some are gone; none that was    *)
(* completed is waiting again.                                               *)
Descend(mv, mw) ==
  \A i \in Docs, n \in Names : mw[i][n] # None =>
    /\ mv[i][n] # None /\ mw[i][n].key = mv[i][n].key
    /\ mv[i][n].status = "completed" => mw[i][n].status = "completed"

(* What a statement that touches no transition leaves.                        *)
Rewrites(d, e) == Tables(e) /\ e.archive = d.archive /\ e.moves = d.moves

LEMMA Absent ==
  ASSUME DocumentsAssumption
  PROVE  None \notin Row /\ None \notin Transition /\ None \notin Nat
  BY DEF DocumentsAssumption

LEMMA Sizes ==
  ASSUME DocumentsAssumption, NEW data \in Data
  PROVE  SizeOf(data) \in Nat /\ MutatedSize(data) \in Nat
<1>1. IsFiniteSet(data)
  BY FS_Subset DEF DocumentsAssumption, Data
<1> QED
  BY <1>1, FS_CardinalityType DEF SizeOf, MutatedSize

LEMMA Expires ==
  ASSUME NEW ttl \in Nat \cup {None}, NEW t \in Nat
  PROVE  Expiry(ttl, t) \in Nat \cup {None}
  BY DEF Expiry

LEMMA RowInserted ==
  ASSUME NEW d, Tables(d), NEW i \in Docs, NEW r \in Row
  PROVE  Rewrites(d, InsertRow(d, i, r)) /\ InsertRow(d, i, r).docs = [d.docs EXCEPT ![i] = r]
  BY DEF InsertRow, Tables, Rewrites

LEMMA RowWritten ==
  ASSUME NEW d, Tables(d), NEW i \in Docs, NEW r \in Row
  PROVE  Rewrites(d, WriteRow(d, i, r)) /\ WriteRow(d, i, r).docs = [d.docs EXCEPT ![i] = r]
  BY DEF WriteRow, Tables, Rewrites

LEMMA NewRowType ==
  ASSUME DocumentsAssumption, NEW c \in Colls, NEW data \in Data, NEW t \in Nat,
         NEW life \in [ttl : Nat \cup {None}, beh : {"archive", "delete"}]
  PROVE  NewRow(c, data, life, t) \in Row
<1>1. SizeOf(data) \in Nat /\ Expiry(life.ttl, t) \in Nat \cup {None}
  BY Sizes, Expires
<1> QED
  BY <1>1 DEF NewRow, Row

LEMMA WrittenType ==
  ASSUME DocumentsAssumption, NEW r \in Row, NEW how, NEW data \in Data
  PROVE  Written(r, how, data) \in Row
<1> DEFINE new == IF how = "replace" THEN data ELSE r.data \cup data
<1>1. new \in Data
  BY DEF Row, Data
<1>2. SizeOf(new) \in Nat /\ MutatedSize(new) \in Nat
  BY <1>1, Sizes
<1> HIDE DEF new
<1>3. [r EXCEPT !.data = new, !.size = IF how = "mutate" THEN MutatedSize(new) ELSE SizeOf(new)] \in Row
  BY <1>1, <1>2 DEF Row
<1> QED
  BY <1>3 DEF Written, new

LEMMA LiveRows ==
  ASSUME NEW d, Tables(d), NEW ids \in SUBSET Docs, NEW sc, NEW i \in Live(d, ids, sc)
  PROVE  i \in Docs /\ i \in ids /\ d.docs[i] \in Row
  BY DEF Live, Tables

LEMMA DocsUpdated ==
  ASSUME DocumentsAssumption, NEW d, Tables(d), NEW ids \in SUBSET Docs,
         \A i \in ids : d.docs[i] \in Row, NEW how, NEW data \in Data
  PROVE  Rewrites(d, UpdateDocs(d, ids, how, data))
<1> DEFINE new == [i \in Docs |-> IF i \in ids THEN Written(d.docs[i], how, data) ELSE d.docs[i]]
           e == UpdateDocs(d, ids, how, data)
<1>1. new \in [Docs -> Row \cup {None}]
  BY WrittenType DEF Tables
<1>2. \E st : e = [d EXCEPT !.docs = new, !.stats = st]
  BY DEF UpdateDocs, Tables
<1> HIDE DEF new, e
<1> QED
  BY <1>1, <1>2 DEF Tables, Rewrites, e

LEMMA RowsDeleted ==
  ASSUME NEW d, Tables(d), NEW ids
  PROVE  Rewrites(d, DeleteRows(d, ids))
         /\ DeleteRows(d, ids).docs = [i \in Docs |-> IF i \in ids THEN None ELSE d.docs[i]]
<1> DEFINE new == [i \in Docs |-> IF i \in ids THEN None ELSE d.docs[i]]
           e == DeleteRows(d, ids)
<1>1. new \in [Docs -> Row \cup {None}]
  BY DEF Tables
<1>2. \E st : e = [d EXCEPT !.docs = new, !.stats = st]
  BY DEF DeleteRows, Tables
<1> HIDE DEF new
<1>3. Rewrites(d, e) /\ e.docs = new
  <2> HIDE DEF e
  <2> QED
    BY <1>1, <1>2 DEF Tables, Rewrites
<1> QED
  BY <1>3 DEF e, new

LEMMA PendingCancelled ==
  ASSUME NEW d, Tables(d), NEW ids
  PROVE  LET e == CancelPending(d, ids) IN
         /\ Tables(e) /\ e.archive = d.archive /\ Descend(d.moves, e.moves)
         /\ e.docs = d.docs /\ e.stats = d.stats
<1> DEFINE new == [i \in Docs |-> [n \in Names |->
             IF i \in ids /\ d.moves[i][n] # None THEN Cancelled(i, d.moves[i][n])
             ELSE d.moves[i][n]]]
           e == CancelPending(d, ids)
<1>1. e = [d EXCEPT !.moves = new]
  BY DEF CancelPending, OnMoves
<1>2. \A i, t : t \in Transition =>
        /\ Cancelled(i, t) \in Transition /\ Cancelled(i, t).key = t.key
        /\ t.status = "completed" => Cancelled(i, t).status = "completed"
  BY DEF Cancelled, Transition, Settled
<1>3. \A i \in Docs, n \in Names : d.moves[i][n] \in Transition \cup {None}
  BY DEF Tables
<1>4. new \in [Docs -> [Names -> Transition \cup {None}]] /\ Descend(d.moves, new)
  BY <1>2, <1>3 DEF Descend
<1> HIDE DEF new, e
<1>5. /\ Tables(e) /\ e.archive = d.archive /\ Descend(d.moves, e.moves)
      /\ e.docs = d.docs /\ e.stats = d.stats
  BY <1>1, <1>4 DEF Tables
<1> QED
  BY <1>5 DEF e

LEMMA MovesDropped ==
  ASSUME NEW d, Tables(d), NEW ids
  PROVE  LET e == DropMoves(d, ids) IN
         /\ Tables(e) /\ e.archive = d.archive /\ Descend(d.moves, e.moves)
         /\ e.docs = d.docs /\ e.stats = d.stats
<1> DEFINE new == [i \in Docs |-> [n \in Names |->
             IF i \in ids /\ d.moves[i][n] # None THEN None ELSE d.moves[i][n]]]
           e == DropMoves(d, ids)
<1>1. e = [d EXCEPT !.moves = new]
  BY DEF DropMoves, OnMoves
<1>2. new \in [Docs -> [Names -> Transition \cup {None}]] /\ Descend(d.moves, new)
  BY DEF Descend, Tables
<1> HIDE DEF new, e
<1>3. /\ Tables(e) /\ e.archive = d.archive /\ Descend(d.moves, e.moves)
      /\ e.docs = d.docs /\ e.stats = d.stats
  BY <1>1, <1>2 DEF Tables
<1> QED
  BY <1>3 DEF e

------------------------------------------------------------------------------
(* The counters of a namespace against its rows.                              *)
In(d, c) == Live(d, Docs, c)
SizesOf(d) == [i \in Docs |-> d.docs[i].size]
Was(d, c) == IF d.stats[c] = None THEN [count |-> 0, bytes |-> 0] ELSE d.stats[c]
TallyAt(d, c) ==
  IF d.stats[c] = None THEN In(d, c) = {} ELSE d.stats[c] = Exact(d, c)
Tally(d) ==
  /\ d.stats = [c \in Colls |-> d.stats[c]]
  /\ \A c \in Colls : TallyAt(d, c)

(* A statement that keeps the counters right, if they were.                   *)
Counts(d, e) == Tally(d) => Tally(e)

LEMMA LiveSet ==
  ASSUME DocumentsAssumption, NEW d, Tables(d), NEW ids \in SUBSET Docs, NEW c \in Colls
  PROVE  /\ Live(d, ids, c) = {i \in ids : d.docs[i] # None /\ d.docs[i].coll = c}
         /\ In(d, c) = {i \in Docs : d.docs[i] # None /\ d.docs[i].coll = c}
         /\ Live(d, ids, c) \subseteq In(d, c) /\ In(d, c) \subseteq Docs
         /\ \A i \in In(d, c) : d.docs[i] \in Row /\ d.docs[i].size \in Nat
<1>1. c # None
  BY DEF DocumentsAssumption
<1>2. Live(d, ids, c) = {i \in ids : d.docs[i] # None /\ d.docs[i].coll = c}
  BY <1>1 DEF Live
<1>3. In(d, c) = {i \in Docs : d.docs[i] # None /\ d.docs[i].coll = c}
  BY <1>1 DEF Live, In
<1>4. \A i \in In(d, c) : d.docs[i] \in Row
  BY <1>3 DEF Tables
<1>5. \A i \in In(d, c) : d.docs[i].size \in Nat
  BY <1>4 DEF Row
<1> QED
  BY <1>2, <1>3, <1>4, <1>5

(* SUM(size) of rows of one namespace.                                        *)
LEMMA SizeInIs ==
  ASSUME DocumentsAssumption, NEW d, Tables(d), NEW c \in Colls, NEW ids \in SUBSET In(d, c)
  PROVE  /\ SizeIn(d, ids) = Sum(SizesOf(d), ids)
         /\ Ints(SizesOf(d), ids) /\ IsFiniteSet(ids) /\ Cardinality(ids) \in Nat
         /\ SizeIn(d, ids) \in Int
<1>1. ids \in SUBSET Docs /\ \A i \in ids : d.docs[i].size \in Nat
  BY LiveSet
<1>2. IsFiniteSet(ids) /\ Cardinality(ids) \in Nat
  BY <1>1, FS_Subset, FS_CardinalityType DEF DocumentsAssumption
<1>3. Ints(SizesOf(d), ids)
  BY <1>1 DEF Ints, SizesOf
<1> DEFINE g == [i \in ids |-> d.docs[i].size]
<1>4. DOMAIN g = ids /\ \A i \in ids : g[i] = SizesOf(d)[i]
  BY <1>1 DEF SizesOf
<1>5. SizeIn(d, ids) = Sum(g, ids)
  BY <1>4 DEF SizeIn, SumFunction, Sum
<1> HIDE DEF g
<1>6. Sum(g, ids) = Sum(SizesOf(d), ids)
  BY <1>2, <1>4, SumSame
<1>7. Sum(SizesOf(d), ids) \in Int
  BY <1>2, <1>3, SumType
<1> QED
  BY <1>2, <1>3, <1>5, <1>6, <1>7

LEMMA TallyWas ==
  ASSUME DocumentsAssumption, NEW d, Tables(d), NEW c \in Colls
  PROVE  /\ TallyAt(d, c) => Was(d, c) = Exact(d, c)
         /\ In(d, c) = {} => Exact(d, c) = [count |-> 0, bytes |-> 0]
         /\ Exact(d, c) \in Counters /\ Exact(d, c) # None
<1>1. In(d, c) = {} => Exact(d, c) = [count |-> 0, bytes |-> 0]
  <2>1. SizeIn(d, {}) = Sum(SizesOf(d), {})
    BY SizeInIs
  <2>2. Sum(SizesOf(d), {}) = 0 /\ Cardinality({}) = 0
    BY SumSteps, FS_EmptySet
  <2> QED
    BY <2>1, <2>2 DEF Exact, In
<1>2. Exact(d, c) \in Counters
  BY SizeInIs DEF Exact, In, Counters
<1>3. Exact(d, c) # None
  BY <1>2 DEF DocumentsAssumption
<1> QED
  BY <1>1, <1>2, <1>3 DEF TallyAt, Was

(* Nothing of a namespace has changed.                                        *)
LEMMA Untouched ==
  ASSUME DocumentsAssumption, NEW d, Tables(d), NEW e, Tables(e), NEW c \in Colls,
         TallyAt(d, c), e.stats[c] = d.stats[c], In(e, c) = In(d, c),
         \A i \in In(d, c) : e.docs[i].size = d.docs[i].size
  PROVE  TallyAt(e, c)
<1>1. SizeIn(e, In(e, c)) = SizeIn(d, In(d, c))
  <2>1. \A i \in In(d, c) : SizesOf(e)[i] = SizesOf(d)[i]
    BY LiveSet DEF SizesOf
  <2>2. Sum(SizesOf(e), In(d, c)) = Sum(SizesOf(d), In(d, c))
    BY <2>1, SizeInIs, SumSame
  <2> QED
    BY <2>2, SizeInIs
<1> QED
  BY <1>1 DEF TallyAt, Exact, In

LEMMA DisjointSizes ==
  ASSUME NEW S, NEW T, IsFiniteSet(S), IsFiniteSet(T), S \cap T = {}
  PROVE  Cardinality(S \cup T) = Cardinality(S) + Cardinality(T)
<1>1. Cardinality(S \cup T) = Cardinality(S) + Cardinality(T) - Cardinality(S \cap T)
  BY FS_Union
<1>2. Cardinality(S) \in Nat /\ Cardinality(T) \in Nat
  BY FS_CardinalityType
<1>3. Cardinality(S \cap T) = 0
  BY FS_EmptySet
<1> QED
  BY <1>1, <1>2, <1>3

Moves(d, e, c, gone, new) ==
  e.stats[c] = [count |-> Was(d, c).count + (Cardinality(new) - Cardinality(gone)),
                bytes |-> Was(d, c).bytes + (SizeIn(e, new) - SizeIn(d, gone))]

(* The rows in gone leave a namespace or change, those in new come or changed; *)
(* the counters move by the difference.                                       *)
LEMMA Recounted ==
  ASSUME DocumentsAssumption, NEW d, Tables(d), NEW e, Tables(e), NEW c \in Colls,
         TallyAt(d, c),
         NEW gone \in SUBSET In(d, c), NEW new \in SUBSET In(e, c),
         In(d, c) \ gone = In(e, c) \ new,
         \A i \in In(d, c) \ gone : e.docs[i].size = d.docs[i].size,
         \/ Moves(d, e, c, gone, new)
         \/ e.stats[c] = None /\ In(e, c) = {}
  PROVE  TallyAt(e, c)
<1> DEFINE rest == In(d, c) \ gone
           n == Cardinality(new) - Cardinality(gone)
           b == SizeIn(e, new) - SizeIn(d, gone)
<1>1. /\ gone \cup rest = In(d, c) /\ gone \cap rest = {} /\ rest \in SUBSET In(d, c)
      /\ new \cup rest = In(e, c) /\ new \cap rest = {} /\ rest \in SUBSET In(e, c)
  OBVIOUS
<1>2. /\ IsFiniteSet(gone) /\ IsFiniteSet(new) /\ IsFiniteSet(rest)
      /\ Cardinality(gone) \in Nat /\ Cardinality(new) \in Nat /\ Cardinality(rest) \in Nat
  BY <1>1, SizeInIs
<1>3. \A i \in rest : SizesOf(e)[i] = SizesOf(d)[i]
  BY <1>1, LiveSet DEF SizesOf
<1> HIDE DEF rest
<1>4. /\ Cardinality(In(d, c)) = Cardinality(gone) + Cardinality(rest)
      /\ Cardinality(In(e, c)) = Cardinality(new) + Cardinality(rest)
  <2>1. Cardinality(gone \cup rest) = Cardinality(gone) + Cardinality(rest)
    BY <1>1, <1>2, DisjointSizes
  <2>2. Cardinality(new \cup rest) = Cardinality(new) + Cardinality(rest)
    BY <1>1, <1>2, DisjointSizes
  <2> QED
    BY <1>1, <2>1, <2>2
<1>5. Sum(SizesOf(e), rest) = Sum(SizesOf(d), rest)
  BY <1>2, <1>3, SumSame
<1>6. SizeIn(d, In(d, c)) = SizeIn(d, gone) + Sum(SizesOf(d), rest)
  <2>1. Ints(SizesOf(d), gone \cup rest)
    BY <1>1, SizeInIs
  <2>2. Sum(SizesOf(d), gone \cup rest) = Sum(SizesOf(d), gone) + Sum(SizesOf(d), rest)
    BY <1>1, <1>2, <2>1, SumUnion
  <2> QED
    BY <1>1, <2>2, SizeInIs
<1>7. SizeIn(e, In(e, c)) = SizeIn(e, new) + Sum(SizesOf(d), rest)
  <2>1. Ints(SizesOf(e), new \cup rest)
    BY <1>1, SizeInIs
  <2>2. Sum(SizesOf(e), new \cup rest) = Sum(SizesOf(e), new) + Sum(SizesOf(e), rest)
    BY <1>1, <1>2, <2>1, SumUnion
  <2> QED
    BY <1>1, <1>5, <2>2, SizeInIs
<1>8. /\ SizeIn(d, gone) \in Int /\ SizeIn(e, new) \in Int /\ Sum(SizesOf(d), rest) \in Int
  <2>1. SizeIn(d, rest) = Sum(SizesOf(d), rest) /\ SizeIn(d, rest) \in Int
    BY <1>1, SizeInIs
  <2> QED
    BY <2>1, SizeInIs
<1>9. /\ Was(d, c).count = Cardinality(In(d, c))
      /\ Was(d, c).bytes = SizeIn(d, In(d, c))
  <2>1. Was(d, c) = Exact(d, c)
    BY TallyWas
  <2>2. Exact(d, c) = [count |-> Cardinality(In(d, c)), bytes |-> SizeIn(d, In(d, c))]
    BY DEF Exact, In
  <2> QED
    BY <2>1, <2>2
<1>10. CASE Moves(d, e, c, gone, new)
  <2>1. Was(d, c).count + n = Cardinality(In(e, c))
    BY <1>2, <1>4, <1>9
  <2>2. Was(d, c).bytes + b = SizeIn(e, In(e, c))
    BY <1>6, <1>7, <1>8, <1>9
  <2>3. e.stats[c] = Exact(e, c)
    BY <1>10, <2>1, <2>2 DEF Moves, Exact, In
  <2> QED
    BY <2>3, TallyWas DEF TallyAt
<1>11. CASE e.stats[c] = None /\ In(e, c) = {}
  BY <1>11 DEF TallyAt
<1> QED
  BY <1>10, <1>11

LEMMA SizeFew ==
  ASSUME DocumentsAssumption, NEW d, Tables(d), NEW c \in Colls
  PROVE  /\ SizeIn(d, {}) = 0 /\ Cardinality({}) = 0
         /\ \A i \in In(d, c) : SizeIn(d, {i}) = d.docs[i].size /\ Cardinality({i}) = 1
<1>1. SizeIn(d, {}) = Sum(SizesOf(d), {}) /\ Sum(SizesOf(d), {}) = 0
  <2>1. {} \in SUBSET In(d, c) /\ IsFiniteSet({})
    BY FS_EmptySet
  <2> QED
    BY <2>1, SizeInIs, SumSteps
<1>2. ASSUME NEW i \in In(d, c)
      PROVE  SizeIn(d, {i}) = d.docs[i].size /\ Cardinality({i}) = 1
  <2>1. IsFiniteSet({i}) /\ Cardinality({i}) = 1
    BY FS_Singleton
  <2>2. {i} \in SUBSET In(d, c) /\ {i} \ {i} = {} /\ i \in Docs /\ d.docs[i].size \in Nat
    BY LiveSet
  <2>3. SizeIn(d, {i}) = Sum(SizesOf(d), {i}) /\ Ints(SizesOf(d), {i})
    BY <2>2, SizeInIs
  <2>4. Sum(SizesOf(d), {i}) = SizesOf(d)[i] + Sum(SizesOf(d), {i} \ {i})
    BY <2>1, <2>3, SumRemove
  <2>5. SizesOf(d)[i] = d.docs[i].size
    BY <2>2 DEF SizesOf
  <2> QED
    BY <1>1, <2>1, <2>2, <2>3, <2>4, <2>5
<1> QED
  BY <1>1, <1>2, FS_EmptySet

LEMMA InSet ==
  ASSUME DocumentsAssumption, NEW d, Tables(d), NEW c \in Colls
  PROVE  /\ \A i \in In(d, c) : i \in Docs
         /\ \A i \in Docs : i \in In(d, c) <=> d.docs[i] # None /\ d.docs[i].coll = c
<1>1. c # None
  BY DEF DocumentsAssumption
<1> QED
  BY <1>1 DEF In, Live

(* Neither rows nor counters change.                                          *)
LEMMA SameCounts ==
  ASSUME NEW d, NEW e, e.docs = d.docs, e.stats = d.stats
  PROVE  Counts(d, e)
<1>1. \A c : Live(e, Docs, c) = Live(d, Docs, c)
  BY DEF Live
<1>2. \A ids : SizeIn(e, ids) = SizeIn(d, ids)
  BY DEF SizeIn
<1>3. \A c : Exact(e, c) = Exact(d, c)
  BY <1>1, <1>2 DEF Exact
<1> QED
  BY <1>1, <1>3 DEF Counts, Tally, TallyAt, In

Puts(d, e, i, r) == e.docs = [d.docs EXCEPT ![i] = r]

(* A row written: only its own namespaces lose or gain it.                    *)
LEMMA OneRow ==
  ASSUME DocumentsAssumption, NEW d, Tables(d), NEW i \in Docs, NEW r \in Row,
         NEW e, Tables(e), Puts(d, e, i, r), NEW c \in Colls
  PROVE  /\ In(d, c) \ {i} = In(e, c) \ {i} /\ e.docs[i] = r
         /\ \A j \in In(d, c) \ {i} : e.docs[j].size = d.docs[j].size
         /\ i \in In(e, c) <=> r.coll = c
         /\ i \in In(d, c) <=> d.docs[i] # None /\ d.docs[i].coll = c
<1>1. /\ \A j \in In(e, c) : j \in Docs
      /\ \A j \in Docs : j \in In(e, c) <=> e.docs[j] # None /\ e.docs[j].coll = c
  BY InSet
<1>2. /\ \A j \in In(d, c) : j \in Docs
      /\ \A j \in Docs : j \in In(d, c) <=> d.docs[j] # None /\ d.docs[j].coll = c
  BY InSet
<1>3. e.docs[i] = r /\ r # None /\ \A j \in Docs \ {i} : e.docs[j] = d.docs[j]
  BY Absent DEF Tables, Puts
<1> QED
  BY <1>1, <1>2, <1>3

LEMMA InsertedCounts ==
  ASSUME DocumentsAssumption, NEW d, Tables(d), NEW i \in Docs, d.docs[i] = None,
         NEW r \in Row
  PROVE  Counts(d, InsertRow(d, i, r))
<1> DEFINE e == InsertRow(d, i, r)
<1>1. Tables(e) /\ Puts(d, e, i, r) /\ e.stats = Counted(d.stats, r.coll, 1, r.size)
  BY RowInserted DEF Rewrites, InsertRow, Tables, Puts
<1>2. r \notin {None} /\ r.coll \in Colls /\ r.size \in Nat
  BY Absent DEF Row
<1> HIDE DEF e
<1> SUFFICES ASSUME Tally(d) PROVE Tally(e)
  BY DEF Counts, e
<1>3. /\ e.stats = [c \in Colls |-> e.stats[c]]
      /\ \A c \in Colls : c # r.coll => e.stats[c] = d.stats[c]
      /\ e.stats[r.coll] = [count |-> Was(d, r.coll).count + 1, bytes |-> Was(d, r.coll).bytes + r.size]
  BY <1>1, <1>2 DEF Tally, Counted, Was
<1>4. ASSUME NEW c \in Colls PROVE TallyAt(e, c)
  <2>1. /\ In(d, c) \ {i} = In(e, c) \ {i} /\ e.docs[i] = r
        /\ \A j \in In(d, c) \ {i} : e.docs[j].size = d.docs[j].size
        /\ i \notin In(d, c) /\ (i \in In(e, c) <=> r.coll = c)
    BY <1>1, OneRow
  <2>2. TallyAt(d, c)
    BY DEF Tally
  <2>3. CASE c # r.coll
    <3>0. In(d, c) = In(d, c) \ {i} /\ In(e, c) = In(e, c) \ {i}
      BY <2>1, <2>3
    <3>1. In(e, c) = In(d, c) /\ \A j \in In(d, c) : e.docs[j].size = d.docs[j].size
      BY <2>1, <3>0
    <3> QED
      BY <1>1, <1>3, <2>2, <2>3, <3>1, Untouched
  <2>4. CASE c = r.coll
    <3> DEFINE gone == {}
               new == {i}
    <3>1. /\ gone \in SUBSET In(d, c) /\ new \in SUBSET In(e, c)
          /\ In(d, c) \ gone = In(e, c) \ new
          /\ \A j \in In(d, c) \ gone : e.docs[j].size = d.docs[j].size
      BY <2>1, <2>4
    <3>2. Cardinality(new) = 1 /\ SizeIn(e, new) = r.size
      BY <1>1, <2>1, <2>4, SizeFew
    <3>3. Cardinality(gone) = 0 /\ SizeIn(d, gone) = 0
      BY SizeFew
    <3> HIDE DEF gone, new
    <3>4. Moves(d, e, c, gone, new)
      BY <1>2, <1>3, <2>4, <3>2, <3>3 DEF Moves
    <3> QED
      BY <1>1, <2>2, <3>1, <3>4, Recounted
  <2> QED
    BY <2>3, <2>4
<1> QED
  BY <1>3, <1>4 DEF Tally

LEMMA WrittenCounts ==
  ASSUME DocumentsAssumption, NEW d, Tables(d), NEW i \in Docs, d.docs[i] # None,
         NEW r \in Row, r.coll = d.docs[i].coll
  PROVE  Counts(d, WriteRow(d, i, r))
<1> DEFINE e == WriteRow(d, i, r)
           grown == r.size - d.docs[i].size
<1>1. Tables(e) /\ Puts(d, e, i, r) /\ e.stats = Adjusted(d.stats, r.coll, 0, grown)
  BY RowWritten DEF Rewrites, WriteRow, Tables, Puts
<1>2. r # None /\ r.coll \in Colls /\ r.size \in Nat /\ d.docs[i].size \in Nat
  BY Absent DEF Row, Tables
<1>3. grown \in Int
  BY <1>2
<1> HIDE DEF e
<1> SUFFICES ASSUME Tally(d) PROVE Tally(e)
  BY DEF Counts, e
<1>4. i \in In(d, r.coll) /\ d.stats[r.coll] # None
  <2>1. i \in In(d, r.coll)
    BY <1>2 DEF In, Live
  <2> QED
    BY <1>2, <2>1 DEF Tally, TallyAt
<1>5. /\ e.stats = [c \in Colls |-> e.stats[c]]
      /\ \A c \in Colls : c # r.coll => e.stats[c] = d.stats[c]
      /\ e.stats[r.coll] = [count |-> Was(d, r.coll).count + 0, bytes |-> Was(d, r.coll).bytes + grown]
  <2> HIDE DEF grown
  <2> QED
    BY <1>1, <1>2, <1>4 DEF Tally, Counted, Adjusted, Was
<1>6. ASSUME NEW c \in Colls PROVE TallyAt(e, c)
  <2>1. /\ In(d, c) \ {i} = In(e, c) \ {i} /\ e.docs[i] = r
        /\ \A j \in In(d, c) \ {i} : e.docs[j].size = d.docs[j].size
        /\ (i \in In(d, c) <=> r.coll = c) /\ (i \in In(e, c) <=> r.coll = c)
    BY <1>1, OneRow
  <2>2. TallyAt(d, c)
    BY DEF Tally
  <2>3. CASE c # r.coll
    <3>0. In(d, c) = In(d, c) \ {i} /\ In(e, c) = In(e, c) \ {i}
      BY <2>1, <2>3
    <3>1. In(e, c) = In(d, c) /\ \A j \in In(d, c) : e.docs[j].size = d.docs[j].size
      BY <2>1, <3>0
    <3> QED
      BY <1>1, <1>5, <2>2, <2>3, <3>1, Untouched
  <2>4. CASE c = r.coll
    <3> DEFINE one == {i}
    <3>1. /\ one \in SUBSET In(d, c) /\ one \in SUBSET In(e, c)
          /\ In(d, c) \ one = In(e, c) \ one
          /\ \A j \in In(d, c) \ one : e.docs[j].size = d.docs[j].size
      BY <2>1, <2>4
    <3>2. Cardinality(one) = 1 /\ SizeIn(e, one) = r.size
      BY <1>1, <2>1, <2>4, SizeFew
    <3>3. SizeIn(d, one) = d.docs[i].size
      BY <2>1, <2>4, SizeFew
    <3> HIDE DEF one
    <3>4. Moves(d, e, c, one, one)
      BY <1>2, <1>5, <2>4, <3>2, <3>3 DEF Moves
    <3> QED
      BY <1>1, <2>2, <3>1, <3>4, Recounted
  <2> QED
    BY <2>3, <2>4
<1> QED
  BY <1>5, <1>6 DEF Tally

(* The counters after trg_delete or trg_update.                               *)
LEMMA AdjustedAt ==
  ASSUME NEW d, Tally(d), NEW c \in Colls, NEW n, NEW b,
         d.stats[c] # None
  PROVE  Adjusted(d.stats, c, n, b)[c]
           = [count |-> Was(d, c).count + n, bytes |-> Was(d, c).bytes + b]
  BY DEF Tally, Adjusted, Counted, Was

LEMMA DeletedCounts ==
  ASSUME DocumentsAssumption, NEW d, Tables(d), NEW ids \in SUBSET Docs
  PROVE  Counts(d, DeleteRows(d, ids))
<1> DEFINE e == DeleteRows(d, ids)
           out(c) == Live(d, ids, c)
<1>1. /\ Tables(e) /\ e.docs = [i \in Docs |-> IF i \in ids THEN None ELSE d.docs[i]]
      /\ e.stats = [c \in Colls |->
           Adjusted(d.stats, c, -Cardinality(out(c)), -SizeIn(d, out(c)))[c]]
  BY RowsDeleted DEF Rewrites, DeleteRows, Tables
<1> HIDE DEF e
<1> SUFFICES ASSUME Tally(d) PROVE Tally(e)
  BY DEF Counts, e
<1>2. ASSUME NEW c \in Colls PROVE TallyAt(e, c)
  <2> DEFINE gone == out(c)
             new == {}
  <2>1. e.stats[c] = Adjusted(d.stats, c, -Cardinality(gone), -SizeIn(d, gone))[c]
    BY <1>1
  <2>2. /\ \A i \in gone : i \in In(d, c) /\ i \in ids
        /\ \A i \in In(d, c) : i \in ids => i \in gone
    BY InSet, LiveSet
  <2>3. In(e, c) = In(d, c) \ gone
    <3>1. /\ \A i \in In(e, c) : i \in Docs
          /\ \A i \in Docs : i \in In(e, c) <=> e.docs[i] # None /\ e.docs[i].coll = c
      BY <1>1, InSet
    <3>2. /\ \A i \in In(d, c) : i \in Docs
          /\ \A i \in Docs : i \in In(d, c) <=> d.docs[i] # None /\ d.docs[i].coll = c
      BY InSet
    <3>3. \A i \in Docs : e.docs[i] = IF i \in ids THEN None ELSE d.docs[i]
      BY <1>1
    <3> HIDE DEF out
    <3> QED
      BY <2>2, <3>1, <3>2, <3>3
  <2>4. /\ gone \in SUBSET In(d, c) /\ new \in SUBSET In(e, c)
        /\ In(d, c) \ gone = In(e, c) \ new
    BY <2>2, <2>3
  <2>5. \A i \in In(d, c) \ gone : e.docs[i].size = d.docs[i].size
    <3>1. \A i \in In(d, c) : i \in Docs
      BY InSet
    <3> QED
      BY <1>1, <2>2, <3>1
  <2>6. /\ Cardinality(gone) \in Nat /\ SizeIn(d, gone) \in Int
    BY <2>4, SizeInIs
  <2>7. Cardinality(new) = 0 /\ SizeIn(e, new) = 0
    BY <1>1, SizeFew
  <2>8. TallyAt(d, c)
    BY DEF Tally
  <2> HIDE DEF gone, new, out
  <2>9. Moves(d, e, c, gone, new) \/ (e.stats[c] = None /\ In(e, c) = {})
    <3>1. CASE d.stats[c] = None
      <4>1. e.stats[c] = None
        BY <2>1, <3>1 DEF Adjusted
      <4>2. In(d, c) = {}
        BY <2>8, <3>1 DEF TallyAt
      <4> QED
        BY <2>3, <4>1, <4>2
    <3>2. CASE d.stats[c] # None
      <4>1. e.stats[c] = [count |-> Was(d, c).count + (-Cardinality(gone)),
                          bytes |-> Was(d, c).bytes + (-SizeIn(d, gone))]
        BY <2>1, <3>2, AdjustedAt
      <4>2. /\ -Cardinality(gone) = Cardinality(new) - Cardinality(gone)
            /\ -SizeIn(d, gone) = SizeIn(e, new) - SizeIn(d, gone)
        BY <2>6, <2>7
      <4> QED
        BY <4>1, <4>2 DEF Moves
    <3> QED
      BY <3>1, <3>2
  <2> QED
    BY <1>1, <2>4, <2>5, <2>8, <2>9, Recounted
<1> QED
  BY <1>1, <1>2 DEF Tally

LEMMA UpdatedCounts ==
  ASSUME DocumentsAssumption, NEW d, Tables(d), NEW ids \in SUBSET Docs,
         \A i \in ids : d.docs[i] \in Row, NEW how, NEW data \in Data
  PROVE  Counts(d, UpdateDocs(d, ids, how, data))
<1> DEFINE e == UpdateDocs(d, ids, how, data)
           new(i) == Written(d.docs[i], how, data)
           hit(c) == Live(d, ids, c)
           diff(c) == [i \in hit(c) |-> new(i).size - d.docs[i].size]
<1>1. /\ Tables(e) /\ e.docs = [i \in Docs |-> IF i \in ids THEN new(i) ELSE d.docs[i]]
      /\ e.stats = [c \in Colls |-> Adjusted(d.stats, c, 0, SumFunction(diff(c)))[c]]
  <2>1. Tables(e)
    BY DocsUpdated DEF Rewrites
  <2> QED
    BY <2>1 DEF UpdateDocs, Tables
<1>2. \A i \in ids : /\ new(i) \in Row /\ new(i).coll = d.docs[i].coll
                     /\ new(i).size \in Nat /\ d.docs[i].size \in Nat
  <2>1. \A i \in ids : new(i) \in Row
    BY WrittenType
  <2>2. \A i \in ids : new(i).coll = d.docs[i].coll
    BY DEF Written, Row
  <2> QED
    BY <2>1, <2>2 DEF Row
<1> HIDE DEF e, new
<1> SUFFICES ASSUME Tally(d) PROVE Tally(e)
  BY DEF Counts, e
<1>3. ASSUME NEW c \in Colls PROVE TallyAt(e, c)
  <2> DEFINE gone == hit(c)
             grown == diff(c)
  <2>1. e.stats[c] = Adjusted(d.stats, c, 0, SumFunction(grown))[c]
    BY <1>1
  <2>2. /\ \A i \in gone : i \in In(d, c) /\ i \in ids
        /\ \A i \in In(d, c) : i \in ids => i \in gone
    BY InSet, LiveSet
  <2>3. In(e, c) = In(d, c)
    <3>1. /\ \A i \in In(e, c) : i \in Docs
          /\ \A i \in Docs : i \in In(e, c) <=> e.docs[i] # None /\ e.docs[i].coll = c
      BY <1>1, InSet
    <3>2. /\ \A i \in In(d, c) : i \in Docs
          /\ \A i \in Docs : i \in In(d, c) <=> d.docs[i] # None /\ d.docs[i].coll = c
      BY InSet
    <3>3. \A i \in Docs : e.docs[i] = IF i \in ids THEN new(i) ELSE d.docs[i]
      BY <1>1
    <3>4. \A i \in ids : new(i) # None /\ d.docs[i] # None
      BY <1>2, Absent
    <3> HIDE DEF hit
    <3> QED
      BY <1>2, <3>1, <3>2, <3>3, <3>4
  <2>4. gone \in SUBSET In(d, c) /\ gone \in SUBSET In(e, c) /\ In(d, c) \ gone = In(e, c) \ gone
    BY <2>2, <2>3
  <2>5. /\ \A i \in In(d, c) \ gone : e.docs[i].size = d.docs[i].size
        /\ \A i \in gone : e.docs[i] = new(i) /\ i \in Docs
    <3>1. \A i \in In(d, c) : i \in Docs
      BY InSet
    <3> QED
      BY <1>1, <2>2, <3>1
  <2>6. SumFunction(grown) = SizeIn(e, gone) - SizeIn(d, gone)
    <3>1. /\ SizeIn(d, gone) = Sum(SizesOf(d), gone) /\ Ints(SizesOf(d), gone)
          /\ IsFiniteSet(gone) /\ SizeIn(d, gone) \in Int
      BY <2>4, SizeInIs
    <3>2. SizeIn(e, gone) = Sum(SizesOf(e), gone) /\ SizeIn(e, gone) \in Int
      BY <1>1, <2>4, SizeInIs
    <3>3. Ints(grown, gone) /\ DOMAIN grown = gone
          /\ \A i \in gone : grown[i] = new(i).size - d.docs[i].size
      BY <1>2, <2>2 DEF Ints
    <3>4. \A i \in gone : SizesOf(e)[i] = SizesOf(d)[i] + grown[i]
      BY <1>2, <2>2, <2>5, <3>3 DEF SizesOf
    <3>5. SumFunction(grown) = Sum(grown, gone)
      BY <3>3 DEF SumFunction, Sum
    <3> HIDE DEF gone, grown
    <3>6. Sum(SizesOf(e), gone) = Sum(SizesOf(d), gone) + Sum(grown, gone)
      BY <3>1, <3>3, <3>4, SumPlus
    <3>7. Sum(grown, gone) \in Int
      BY <3>1, <3>3, SumType
    <3> QED
      BY <3>1, <3>2, <3>5, <3>6, <3>7
  <2>7. Cardinality(gone) \in Nat
    BY <2>4, SizeInIs
  <2>8. TallyAt(d, c)
    BY DEF Tally
  <2> HIDE DEF gone, grown, hit, diff
  <2>9. Moves(d, e, c, gone, gone) \/ (e.stats[c] = None /\ In(e, c) = {})
    <3>1. CASE d.stats[c] = None
      <4>1. e.stats[c] = None
        BY <2>1, <3>1 DEF Adjusted
      <4>2. In(d, c) = {}
        BY <2>8, <3>1 DEF TallyAt
      <4> QED
        BY <2>3, <4>1, <4>2
    <3>2. CASE d.stats[c] # None
      <4>1. e.stats[c] = [count |-> Was(d, c).count + 0,
                          bytes |-> Was(d, c).bytes + SumFunction(grown)]
        BY <2>1, <3>2, AdjustedAt
      <4>2. 0 = Cardinality(gone) - Cardinality(gone)
        BY <2>7
      <4> QED
        BY <2>6, <4>1, <4>2 DEF Moves
    <3> QED
      BY <3>1, <3>2
  <2>10. \A i \in In(d, c) \ gone : e.docs[i].size = d.docs[i].size
    BY <2>5
  <2> QED
    BY <1>1, <2>4, <2>8, <2>9, <2>10, Recounted
<1> QED
  BY <1>1, <1>3 DEF Tally

(* Rows change, but none its namespace or size.                               *)
LEMMA RestampedCounts ==
  ASSUME DocumentsAssumption, NEW d, Tables(d), NEW e, Tables(e), e.stats = d.stats,
         \A i \in Docs : /\ e.docs[i] # None <=> d.docs[i] # None
                         /\ e.docs[i] # None => e.docs[i].coll = d.docs[i].coll
                                                /\ e.docs[i].size = d.docs[i].size
  PROVE  Counts(d, e)
<1> SUFFICES ASSUME Tally(d) PROVE Tally(e)
  BY DEF Counts
<1>1. ASSUME NEW c \in Colls PROVE TallyAt(e, c)
  <2>1. /\ \A i \in In(e, c) : i \in Docs
        /\ \A i \in Docs : i \in In(e, c) <=> e.docs[i] # None /\ e.docs[i].coll = c
    BY InSet
  <2>2. /\ \A i \in In(d, c) : i \in Docs
        /\ \A i \in Docs : i \in In(d, c) <=> d.docs[i] # None /\ d.docs[i].coll = c
    BY InSet
  <2>3. In(e, c) = In(d, c) /\ \A i \in In(d, c) : e.docs[i].size = d.docs[i].size
    BY <2>1, <2>2
  <2>4. TallyAt(d, c)
    BY DEF Tally
  <2> QED
    BY <2>3, <2>4, Untouched
<1> QED
  BY <1>1 DEF Tally

(* change_namespace with the right number of bytes.                           *)
LEMMA MovedCounts ==
  ASSUME DocumentsAssumption, NEW d, Tables(d), NEW from \in Colls, NEW to \in Colls, from # to,
         NEW ids \in SUBSET Docs, NEW moved, moved = Live(d, ids, from),
         NEW n, n = Cardinality(moved), NEW b, b = SizeIn(d, moved),
         NEW e, Tables(e),
         e.docs = [i \in Docs |-> IF i \in moved THEN [d.docs[i] EXCEPT !.coll = to] ELSE d.docs[i]],
         e.stats = Counted(Adjusted(d.stats, from, -n, -b), to, n, b)
  PROVE  Counts(d, e)
<1> SUFFICES ASSUME Tally(d) PROVE Tally(e)
  BY DEF Counts
<1>1. /\ moved \in SUBSET In(d, from) /\ moved \in SUBSET Docs
      /\ \A i \in moved : d.docs[i] \in Row /\ d.docs[i].coll = from
  BY LiveSet, InSet
<1>2. n \in Nat /\ b \in Int /\ b = Sum(SizesOf(d), moved) /\ IsFiniteSet(moved)
  BY <1>1, SizeInIs
<1>3. ASSUME NEW i \in moved
      PROVE  /\ e.docs[i] # None /\ e.docs[i].coll = to /\ e.docs[i].size = d.docs[i].size
  <2>1. i \in Docs /\ d.docs[i] \in Row /\ e.docs[i] = [d.docs[i] EXCEPT !.coll = to]
    BY <1>1
  <2>2. e.docs[i] \in Row
    BY <2>1 DEF Row
  <2> QED
    BY <2>1, <2>2, Absent DEF Row
<1>4. \A i \in Docs : i \notin moved => e.docs[i] = d.docs[i]
  OBVIOUS
<1>5. /\ e.stats = [c \in Colls |-> e.stats[c]]
      /\ \A c \in Colls : c # from /\ c # to => e.stats[c] = d.stats[c]
      /\ e.stats[to] = [count |-> Was(d, to).count + n, bytes |-> Was(d, to).bytes + b]
      /\ e.stats[from] = Adjusted(d.stats, from, -n, -b)[from]
  <2> DEFINE st == Adjusted(d.stats, from, -n, -b)
  <2>1. st = [c \in Colls |-> st[c]] /\ \A c \in Colls : c # from => st[c] = d.stats[c]
    BY DEF Tally, Adjusted, Counted
  <2>2. e.stats = Counted(st, to, n, b)
    OBVIOUS
  <2> HIDE DEF st
  <2>3. /\ e.stats = [c \in Colls |-> e.stats[c]]
        /\ \A c \in Colls : c # to => e.stats[c] = st[c]
    BY <2>1, <2>2 DEF Counted
  <2>4. e.stats[to] = [count |-> Was(d, to).count + n, bytes |-> Was(d, to).bytes + b]
    BY <1>2, <2>1, <2>2 DEF Counted, Was
  <2> QED
    BY <2>1, <2>3, <2>4 DEF st
<1>6. ASSUME NEW c \in Colls PROVE TallyAt(e, c)
  <2>1. /\ \A i \in In(e, c) : i \in Docs
        /\ \A i \in Docs : i \in In(e, c) <=> e.docs[i] # None /\ e.docs[i].coll = c
    BY InSet
  <2>2. /\ \A i \in In(d, c) : i \in Docs
        /\ \A i \in Docs : i \in In(d, c) <=> d.docs[i] # None /\ d.docs[i].coll = c
    BY InSet
  <2>3. TallyAt(d, c)
    BY DEF Tally
  <2>4. CASE c # from /\ c # to
    <3>1. \A i \in Docs : /\ i \in In(e, c) <=> i \in In(d, c)
                          /\ i \in In(d, c) => e.docs[i].size = d.docs[i].size
      <4>1. ASSUME NEW i \in moved PROVE i \notin In(e, c) /\ i \notin In(d, c)
        BY <1>1, <1>3, <2>1, <2>2, <2>4
      <4>2. \A i \in Docs \ moved : i \in In(e, c) <=> i \in In(d, c)
        BY <1>4, <2>1, <2>2
      <4> QED
        BY <1>4, <4>1, <4>2
    <3>2. In(e, c) = In(d, c) /\ \A i \in In(d, c) : e.docs[i].size = d.docs[i].size
      BY <2>1, <2>2, <3>1
    <3> QED
      BY <1>5, <2>3, <2>4, <3>2, Untouched
  <2>5. CASE c = from
    <3> DEFINE new == {}
    <3>1. /\ moved \in SUBSET In(d, c) /\ new \in SUBSET In(e, c)
          /\ In(d, c) \ moved = In(e, c) \ new /\ In(e, c) = In(d, c) \ moved
      BY <1>1, <1>3, <1>4, <2>1, <2>2, <2>5
    <3>2. \A i \in In(d, c) \ moved : e.docs[i].size = d.docs[i].size
      BY <1>4, <2>2
    <3>3. Cardinality(new) = 0 /\ SizeIn(e, new) = 0
      BY SizeFew
    <3> HIDE DEF new
    <3>4. Moves(d, e, c, moved, new) \/ (e.stats[c] = None /\ In(e, c) = {})
      <4>1. CASE d.stats[c] = None
        <5>1. e.stats[c] = None
          BY <1>5, <2>5, <4>1 DEF Adjusted
        <5>2. In(d, c) = {}
          BY <2>3, <4>1 DEF TallyAt
        <5> QED
          BY <3>1, <5>1, <5>2
      <4>2. CASE d.stats[c] # None
        <5>1. e.stats[c] = [count |-> Was(d, c).count + (-n), bytes |-> Was(d, c).bytes + (-b)]
          BY <1>5, <2>5, <4>2, AdjustedAt
        <5>2. /\ -n = Cardinality(new) - Cardinality(moved)
              /\ -b = SizeIn(e, new) - SizeIn(d, moved)
          BY <1>2, <3>3
        <5> QED
          BY <5>1, <5>2 DEF Moves
      <4> QED
        BY <4>1, <4>2
    <3> QED
      BY <2>3, <3>1, <3>2, <3>4, Recounted
  <2>6. CASE c = to
    <3> DEFINE gone == {}
    <3>1. /\ moved \in SUBSET In(e, c) /\ gone \in SUBSET In(d, c)
          /\ In(d, c) \ gone = In(e, c) \ moved
      BY <1>1, <1>3, <1>4, <2>1, <2>2, <2>6
    <3>2. \A i \in In(d, c) \ gone : e.docs[i].size = d.docs[i].size
      BY <1>1, <1>4, <2>2, <2>6
    <3>3. Cardinality(gone) = 0 /\ SizeIn(d, gone) = 0
      BY SizeFew
    <3>4. SizeIn(e, moved) = b
      <4>1. \A i \in moved : SizesOf(e)[i] = SizesOf(d)[i]
        BY <1>1, <1>3 DEF SizesOf
      <4>2. Sum(SizesOf(e), moved) = Sum(SizesOf(d), moved)
        BY <1>2, <4>1, SumSame
      <4> QED
        BY <1>2, <3>1, <4>2, SizeInIs
    <3> HIDE DEF gone
    <3>5. Moves(d, e, c, gone, moved)
      <4>1. n = Cardinality(moved) - Cardinality(gone) /\ b = SizeIn(e, moved) - SizeIn(d, gone)
        BY <1>2, <3>3, <3>4
      <4> QED
        BY <1>5, <2>6, <4>1 DEF Moves
    <3> QED
      BY <2>3, <3>1, <3>2, <3>5, Recounted
  <2> QED
    BY <2>4, <2>5, <2>6
<1> QED
  BY <1>5, <1>6 DEF Tally

(* recompute_stats over counters that are right, or all cleared.              *)
LEMMA RebuiltCounts ==
  ASSUME DocumentsAssumption, NEW d, Tables(d), Tally(d) \/ \A c \in Colls : d.stats[c] = None,
         NEW e, e = RebuildStats(d)
  PROVE  Tally(e)
<1>1. CASE ~Rebuildable(d)
  <2>1. e = d
    BY <1>1 DEF RebuildStats
  <2>2. Tally(d)
    BY <1>1 DEF Rebuildable
  <2> QED
    BY <2>1, <2>2
<1>2. CASE Rebuildable(d)
  <2>1. /\ e.docs = d.docs
        /\ e.stats = [c \in Colls |-> IF In(d, c) # {} THEN Exact(d, c) ELSE d.stats[c]]
    BY <1>2 DEF RebuildStats, Tables, In
  <2>2. \A c \in Colls : In(e, c) = In(d, c) /\ Exact(e, c) = Exact(d, c)
    <3>1. \A c : Live(e, Docs, c) = Live(d, Docs, c)
      BY <2>1 DEF Live
    <3>2. \A ids : SizeIn(e, ids) = SizeIn(d, ids)
      BY <2>1 DEF SizeIn
    <3> QED
      BY <3>1, <3>2 DEF Exact, In
  <2>3. ASSUME NEW c \in Colls PROVE TallyAt(e, c)
    <3>1. CASE In(d, c) # {}
      <4>1. e.stats[c] = Exact(d, c) /\ Exact(d, c) # None
        BY <2>1, <3>1, TallyWas
      <4> QED
        BY <2>2, <4>1 DEF TallyAt
    <3>2. CASE In(d, c) = {}
      <4>1. e.stats[c] = d.stats[c] /\ TallyAt(d, c)
        BY <2>1, <3>2 DEF Tally, TallyAt
      <4> QED
        BY <2>2, <4>1 DEF TallyAt
    <3> QED
      BY <3>1, <3>2
  <2> QED
    BY <2>1, <2>3 DEF Tally
<1> QED
  BY <1>1, <1>2

(* Transitions have keys of their own, made before k, and one whose update    *)
(* has been applied is settled for good.                                      *)
Keyed(mv, done, k) ==
  /\ \A i \in Docs, n \in Names : mv[i][n] # None => mv[i][n].key \in 1..(k - 1)
  /\ \A i, j \in Docs, n, o \in Names :
       mv[i][n] # None /\ mv[j][o] # None /\ mv[i][n].key = mv[j][o].key => i = j /\ n = o
  /\ \A x \in Keys : done[x] \in {0, 1}
  /\ \A x \in Keys : done[x] = 1 =>
       /\ x < k
       /\ \A i \in Docs, n \in Names :
            mv[i][n] # None /\ mv[i][n].key = x => mv[i][n].status = "completed"

LEMMA KeyedLater ==
  ASSUME NEW mv, NEW done, NEW k \in Nat, NEW l \in Nat, k <= l, Keyed(mv, done, k)
  PROVE  Keyed(mv, done, l)
<1>1. \A i \in Docs, n \in Names : mv[i][n] # None => mv[i][n].key \in 1..(l - 1)
  BY DEF Keyed
<1>2. \A x \in Keys : x < k => x < l
  BY DEF Keyed, Keys
<1> QED
  BY <1>1, <1>2 DEF Keyed

LEMMA KeyedDescend ==
  ASSUME NEW mv, NEW mw, NEW done, NEW k, Keyed(mv, done, k), Descend(mv, mw)
  PROVE  Keyed(mw, done, k)
<1>1. \A i \in Docs, n \in Names : mw[i][n] # None => mw[i][n].key \in 1..(k - 1)
  BY DEF Keyed, Descend
<1>2. \A i, j \in Docs, n, o \in Names :
        mw[i][n] # None /\ mw[j][o] # None /\ mw[i][n].key = mw[j][o].key => i = j /\ n = o
  BY DEF Keyed, Descend
<1>3. \A x \in Keys : done[x] = 1 =>
        \A i \in Docs, n \in Names :
            mw[i][n] # None /\ mw[i][n].key = x => mw[i][n].status = "completed"
  BY DEF Keyed, Descend
<1> QED
  BY <1>1, <1>2, <1>3 DEF Keyed

(* What a handler that adds at most one transition leaves.                    *)
Grows(d, e, done, k) ==
  Tables(e) /\ d.archive \subseteq e.archive /\ Keyed(e.moves, done, k)
Extends(d, e, done, k) == Grows(d, e, done, k) /\ Counts(d, e)

LEMMA Attached ==
  ASSUME DocumentsAssumption, NEW d, Tables(d), NEW done, NEW k \in Nat \ {0},
         Keyed(d.moves, done, k), NEW i \in Docs, NEW c \in Colls,
         NEW s \in Specs \cup {None}, NEW t \in Nat
  PROVE  Extends(d, Attach(d, i, c, s, k, t), done, k + 1)
<1>0. Counts(d, Attach(d, i, c, s, k, t))
  <2>1. /\ Attach(d, i, c, s, k, t).docs = d.docs
        /\ Attach(d, i, c, s, k, t).stats = d.stats
    BY DEF Attach, Tables
  <2> QED
    BY <2>1, SameCounts
<1>1. CASE s = None
  <2>1. Keyed(d.moves, done, k + 1)
    BY KeyedLater
  <2> QED
    BY <1>0, <1>1, <2>1 DEF Attach, Extends, Grows
<1>2. CASE s # None
  <2> DEFINE new == [key |-> k, coll |-> c, at |-> t + s.after, when |-> s.when,
                     update |-> s.update, ttl |-> s.ttl, status |-> "pending"]
             mv == [d.moves EXCEPT ![i][s.name] = new]
  <2>1. s.name \in Names /\ s.after \in Nat /\ s.when \in Data /\ s.update \in Data \cup {None}
        /\ s.ttl \in Nat \cup {None}
    BY <1>2 DEF DocumentsAssumption, Spec0
  <2>2. new \in Transition /\ new.key = k /\ new.status = "pending"
    BY <2>1 DEF Transition
  <2>3. Attach(d, i, c, s, k, t) = [d EXCEPT !.moves = mv]
    BY <1>2 DEF Attach, Tables
  <2> HIDE DEF new
  <2>4. /\ mv \in [Docs -> [Names -> Transition \cup {None}]]
        /\ \A j \in Docs, n \in Names :
             mv[j][n] = IF j = i /\ n = s.name THEN new ELSE d.moves[j][n]
    BY <2>1, <2>2 DEF Tables
  <2> HIDE DEF mv
  <2>5. Keyed(mv, done, k + 1)
    <3>1. \A j \in Docs, n \in Names : mv[j][n] # None => mv[j][n].key \in 1..k
      BY <2>2, <2>4 DEF Keyed
    <3>2. \A j \in Docs, n \in Names : d.moves[j][n] # None => d.moves[j][n].key # k
      BY DEF Keyed
    <3>3. \A j, l \in Docs, n, o \in Names :
            mv[j][n] # None /\ mv[l][o] # None /\ mv[j][n].key = mv[l][o].key => j = l /\ n = o
      BY <2>2, <2>4, <3>2 DEF Keyed
    <3>4. ASSUME NEW x \in Keys, done[x] = 1
          PROVE  /\ x < k + 1
                 /\ \A j \in Docs, n \in Names :
                      mv[j][n] # None /\ mv[j][n].key = x => mv[j][n].status = "completed"
      <4>1. x \in Nat /\ x < k
        BY <3>4 DEF Keyed, Keys
      <4> QED
        BY <2>2, <2>4, <3>4, <4>1 DEF Keyed
    <3>5. (k + 1) - 1 = k
      OBVIOUS
    <3> QED
      BY <3>1, <3>3, <3>4, <3>5 DEF Keyed
  <2> QED
    BY <1>0, <2>3, <2>4, <2>5 DEF Extends, Grows, Tables
<1> QED
  BY <1>1, <1>2

LEMMA ArchivedRows ==
  ASSUME DocumentsAssumption, NEW d, Tables(d), NEW ids \in SUBSET Docs,
         \A i \in ids : d.docs[i] \in Row, NEW txn \in Nat, NEW exp \in Nat \cup {None},
         NEW e, e = ArchiveAndDelete(d, ids, txn, exp)
  PROVE  /\ Tables(e) /\ Descend(d.moves, e.moves) /\ Counts(d, e)
         /\ d.archive \subseteq e.archive
         /\ \A i \in ids : VersionOf(d, i, txn, exp) \in e.archive
<1> DEFINE new == {VersionOf(d, i, txn, exp) : i \in ids}
           e1 == [d EXCEPT !.archive = d.archive \cup new]
           e2 == CancelPending(e1, ids)
           e3 == DeleteRows(e2, ids)
<1>1. e = e3
  BY DEF ArchiveAndDelete
<1>0. \A i \in ids : VersionOf(d, i, txn, exp) \in new
  OBVIOUS
<1>2. new \in SUBSET Version
  BY DEF VersionOf, Version, Row
<1>3. IsFiniteSet(new)
  <2> DEFINE f == [i \in ids |-> VersionOf(d, i, txn, exp)]
  <2>1. f \in Surjection(ids, new)
    BY DEF Surjection
  <2>2. IsFiniteSet(ids)
    BY FS_Subset DEF DocumentsAssumption
  <2> QED
    BY <2>1, <2>2, FS_Surjection
<1> HIDE DEF new
<1>4. /\ Tables(e1) /\ e1.moves = d.moves /\ e1.archive = d.archive \cup new
      /\ e1.docs = d.docs /\ e1.stats = d.stats
  BY <1>2, <1>3, FS_Union DEF Tables
<1> HIDE DEF e1
<1>5. /\ Tables(e2) /\ e2.archive = e1.archive /\ Descend(d.moves, e2.moves)
      /\ e2.docs = d.docs /\ e2.stats = d.stats
  BY <1>4, PendingCancelled
<1> HIDE DEF e2
<1>6. Rewrites(e2, e3) /\ Counts(e2, e3) /\ Counts(d, e2)
  BY <1>5, RowsDeleted, DeletedCounts, SameCounts
<1> HIDE DEF e3
<1>7. Tables(e3) /\ Descend(d.moves, e3.moves) /\ e3.archive = d.archive \cup new
  BY <1>4, <1>5, <1>6 DEF Rewrites
<1>8. Counts(d, e3)
  BY <1>6 DEF Counts
<1> QED
  BY <1>0, <1>1, <1>7, <1>8

LEMMA HardDeleted ==
  ASSUME DocumentsAssumption, NEW d, Tables(d), NEW ids \in SUBSET Docs
  PROVE  LET e == HardDelete(d, ids) IN
         Tables(e) /\ Descend(d.moves, e.moves) /\ e.archive = d.archive /\ Counts(d, e)
<1> DEFINE e1 == DropMoves(d, ids)
           e2 == DeleteRows(e1, ids)
<1>1. /\ Tables(e1) /\ e1.archive = d.archive /\ Descend(d.moves, e1.moves)
      /\ e1.docs = d.docs /\ e1.stats = d.stats
  BY MovesDropped
<1> HIDE DEF e1
<1>2. Rewrites(e1, e2) /\ Counts(e1, e2) /\ Counts(d, e1)
  BY <1>1, RowsDeleted, DeletedCounts, SameCounts
<1>3. Tables(e2) /\ Descend(d.moves, e2.moves) /\ e2.archive = d.archive /\ Counts(d, e2)
  BY <1>1, <1>2 DEF Rewrites, Counts
<1> QED
  BY <1>3 DEF HardDelete, e1

LEMMA DocInserted ==
  ASSUME DocumentsAssumption, NEW d, Tables(d), NEW done, NEW k \in Nat \ {0},
         Keyed(d.moves, done, k), NEW o \in Operation, NEW t \in Nat
  PROVE  Extends(d, InsertDoc(d, o, k, t).db, done, k + 1)
<1> DEFINE r == NewRow(o.coll, o.data, o.life, t)
           e == InsertRow(d, o.id, r)
           a == Attach(e, o.id, o.coll, o.spec, k, t)
<1>1. /\ o.id \in Docs /\ o.coll \in Colls /\ o.data \in Data /\ o.spec \in Specs \cup {None}
      /\ o.life \in [ttl : Nat \cup {None}, beh : {"archive", "delete"}]
  BY DEF Operation
<1>2. r \in Row
  BY <1>1, NewRowType
<1> HIDE DEF r
<1>3. Rewrites(d, e) /\ (d.docs[o.id] = None => Counts(d, e))
  BY <1>1, <1>2, RowInserted, InsertedCounts
<1> HIDE DEF e
<1>4. Extends(e, a, done, k + 1)
  BY <1>1, <1>3, Attached DEF Rewrites
<1>5. d.docs[o.id] = None => Extends(d, a, done, k + 1)
  BY <1>3, <1>4 DEF Extends, Grows, Rewrites, Counts
<1> HIDE DEF a
<1>6. Extends(d, d, done, k + 1)
  BY KeyedLater DEF Extends, Grows, Counts
<1>7. InsertDoc(d, o, k, t).db \in {d, a}
  BY DEF InsertDoc, Done, Failed, a, e, r
<1>8. d.docs[o.id] # None => InsertDoc(d, o, k, t).db = d
  BY DEF InsertDoc, Done, Failed
<1> QED
  BY <1>5, <1>6, <1>7, <1>8

LEMMA DocUpdated ==
  ASSUME DocumentsAssumption, NEW d, Tables(d), NEW done, NEW k \in Nat \ {0},
         Keyed(d.moves, done, k), NEW o \in Operation, NEW t \in Nat
  PROVE  Extends(d, UpdateDoc(d, o, k, t).db, done, k + 1)
<1> DEFINE hit == Live(d, {o.id}, o.coll)
           e == UpdateDocs(d, hit, o.how, o.data)
           a == Attach(e, o.id, d.docs[o.id].coll, o.spec, k, t)
<1>1. o.id \in Docs /\ o.data \in Data /\ o.spec \in Specs \cup {None}
  BY DEF Operation
<1>2. hit \in SUBSET Docs /\ \A i \in hit : i = o.id /\ d.docs[i] \in Row
  BY <1>1, LiveRows DEF Live
<1>3. UpdateDoc(d, o, k, t).db = IF hit = {} THEN d ELSE a
  BY DEF UpdateDoc, Done
<1> HIDE DEF hit
<1>4. Rewrites(d, e) /\ Counts(d, e)
  BY <1>1, <1>2, DocsUpdated, UpdatedCounts
<1> HIDE DEF e
<1>5. CASE hit = {}
  BY <1>3, <1>5, KeyedLater DEF Extends, Grows, Counts
<1>6. CASE hit # {}
  <2>1. d.docs[o.id].coll \in Colls
    BY <1>2, <1>6 DEF Row
  <2>2. Extends(e, a, done, k + 1)
    BY <1>1, <1>4, <2>1, Attached DEF Rewrites
  <2> QED
    BY <1>3, <1>4, <1>6, <2>2 DEF Extends, Grows, Rewrites, Counts
<1> QED
  BY <1>5, <1>6

(* One operation of a transaction, or a single insert or upsert.              *)
LEMMA Mutated ==
  ASSUME DocumentsAssumption, NEW d, Tables(d), NEW done, NEW k \in Nat \ {0},
         Keyed(d.moves, done, k), NEW o \in Operation, NEW t \in Nat
  PROVE  Extends(d, Mutate(d, o, k, t).db, done, k + 1)
<1>1. CASE o.op = "insert"
  BY <1>1, DocInserted DEF Mutate
<1>2. CASE o.op = "update"
  BY <1>2, DocUpdated DEF Mutate
<1>3. CASE o.op = "upsert"
  <2> DEFINE q == [o EXCEPT !.unique = {}]
  <2>1. q \in Operation
    BY DEF Operation
  <2> HIDE DEF q
  <2>2. Extends(d, InsertDoc(d, q, k, t).db, done, k + 1)
    BY <2>1, DocInserted
  <2>3. Extends(d, UpdateDoc(d, o, k, t).db, done, k + 1)
    BY DocUpdated
  <2>4. Mutate(d, o, k, t) \in {InsertDoc(d, q, k, t), UpdateDoc(d, o, k, t)}
    BY <1>3 DEF Mutate, UpsertDoc, q
  <2> QED
    BY <2>2, <2>3, <2>4
<1>4. CASE o.op = "delete"
  <2> DEFINE ids == Live(d, {o.id}, o.coll)
             e == ArchiveAndDelete(d, ids, k, None)
  <2>1. ids \in SUBSET Docs /\ \A i \in ids : d.docs[i] \in Row
    BY LiveRows DEF Operation, Live
  <2>2. Mutate(d, o, k, t).db = e
    BY <1>4 DEF Mutate, DeleteDoc, Done
  <2> HIDE DEF ids
  <2>3. Tables(e) /\ Descend(d.moves, e.moves) /\ d.archive \subseteq e.archive /\ Counts(d, e)
    <3>1. k \in Nat /\ None \in Nat \cup {None} /\ e = ArchiveAndDelete(d, ids, k, None)
      OBVIOUS
    <3> HIDE DEF e
    <3> QED
      BY <2>1, <3>1, ArchivedRows
  <2> HIDE DEF e
  <2>4. Keyed(e.moves, done, k + 1)
    BY <2>3, KeyedDescend, KeyedLater
  <2> QED
    BY <2>2, <2>3, <2>4 DEF Extends, Grows
<1> QED
  BY <1>1, <1>2, <1>3, <1>4 DEF Operation

(* The states of a transaction exist: each follows from the one before.       *)
LEMMA OperatingSteps ==
  ASSUME NEW d, NEW ops, Len(ops) \in Nat, NEW onError, NEW k, NEW t,
         NEW s, s = Operating(d, ops, onError, k, t)
  PROVE  /\ s[0] = Done(d)
         /\ \A n \in 1..Len(ops) : s[n] = Operated(s[n - 1], ops[n], onError, k + n - 1, t)
<1> DEFINE Step(g, n) == IF n = 0 THEN Done(d)
                         ELSE Operated(g[n - 1], ops[n], onError, k + n - 1, t)
           Is(g, n) == g = [m \in 0..n |-> Step(g, m)]
           No == {n \in Nat : ~\E g : Is(g, n)}
<1>1. No = {}
  <2> SUFFICES ASSUME No # {} PROVE FALSE
    OBVIOUS
  <2>1. PICK n \in No : \A m \in No : n <= m
    BY LeastNumber
  <2>2. CASE n = 0
    <3> DEFINE g == [m \in 0..0 |-> Done(d)]
    <3>1. Is(g, 0)
      OBVIOUS
    <3> QED
      BY <2>1, <2>2, <3>1
  <2>3. CASE n # 0
    <3>1. n - 1 \in Nat /\ n - 1 \notin No
      <4>1. n \in Nat
        OBVIOUS
      <4>2. n - 1 \in Nat /\ ~(n <= n - 1)
        BY <2>3, <4>1
      <4> HIDE DEF No
      <4> QED
        BY <2>1, <4>2
    <3>2. PICK g : Is(g, n - 1)
      BY <3>1
    <3> DEFINE f == [m \in 0..n |-> Step(g, m)]
    <3>3. \A m \in 0..(n - 1) : f[m] = g[m]
      BY <3>1, <3>2
    <3>4. ASSUME NEW m \in 0..n PROVE Step(f, m) = Step(g, m)
      <4>1. CASE m = 0
        BY <4>1
      <4>2. CASE m # 0
        <5>1. m - 1 \in 0..(n - 1)
          BY <4>2, <3>1
        <5>2. f[m - 1] = g[m - 1]
          BY <3>3, <5>1
        <5> HIDE DEF f
        <5> QED
          BY <4>2, <5>2
      <4> QED
        BY <4>1, <4>2
    <3>5. Is(f, n)
      BY <3>4
    <3> QED
      BY <2>1, <3>5
  <2> QED
    BY <2>2, <2>3
<1>2. PICK g : Is(g, Len(ops))
  BY <1>1
<1>3. s = CHOOSE f : Is(f, Len(ops))
  BY DEF Operating
<1>4. s = [m \in 0..Len(ops) |-> Step(s, m)]
  BY <1>2, <1>3
<1>5. s[0] = Step(s, 0) /\ \A n \in 1..Len(ops) : s[n] = Step(s, n)
  <2> HIDE DEF Step
  <2> QED
    BY <1>4
<1> QED
  BY <1>5

LEMMA Transacted ==
  ASSUME DocumentsAssumption, NEW d, Tables(d), NEW done, NEW k \in Nat \ {0},
         Keyed(d.moves, done, k), NEW ops \in Seq(Operation), NEW onError, NEW t \in Nat
  PROVE  Extends(d, Transact(d, ops, onError, k, t), done, k + Len(ops))
<1> DEFINE s == Operating(d, ops, onError, k, t)
           Fine(n) == Extends(d, s[n].db, done, k + n)
           Bad == {n \in 0..Len(ops) : ~Fine(n)}
<1>1. Len(ops) \in Nat /\ \A n \in 1..Len(ops) : ops[n] \in Operation
  OBVIOUS
<1>2. /\ s[0] = Done(d)
      /\ \A n \in 1..Len(ops) : s[n] = Operated(s[n - 1], ops[n], onError, k + n - 1, t)
  BY <1>1, OperatingSteps
<1> HIDE DEF s
<1>3. Fine(0)
  <2>1. s[0].db = d
    BY <1>1, <1>2 DEF Done
  <2> QED
    BY <2>1 DEF Extends, Grows, Counts
<1>4. ASSUME NEW n \in 1..Len(ops), Fine(n - 1) PROVE Fine(n)
  <2> DEFINE b == s[n - 1].db
             r == Mutate(b, ops[n], k + n - 1, t)
  <2>1. s[n] = Operated(s[n - 1], ops[n], onError, k + n - 1, t)
    BY <1>1, <1>2
  <2>2. s[n].db \in {b, r.db}
    BY <2>1 DEF Operated
  <2>3. /\ k + n - 1 \in Nat \ {0} /\ k + (n - 1) = k + n - 1
        /\ k + n \in Nat /\ k + n - 1 <= k + n /\ (k + n - 1) + 1 = k + n
    BY <1>1
  <2>4. Tables(b) /\ d.archive \subseteq b.archive /\ Keyed(b.moves, done, k + n - 1)
        /\ Counts(d, b)
    BY <1>4, <2>3 DEF Extends, Grows
  <2> HIDE DEF b
  <2>5. Extends(b, r.db, done, (k + n - 1) + 1)
    BY <1>1, <2>3, <2>4, Mutated
  <2> HIDE DEF r
  <2>6. Extends(d, r.db, done, k + n)
    BY <2>3, <2>4, <2>5 DEF Extends, Grows, Counts
  <2>7. Keyed(b.moves, done, k + n)
    BY <2>3, <2>4, KeyedLater
  <2> QED
    BY <2>2, <2>4, <2>6, <2>7 DEF Extends, Grows
<1>5. Bad = {}
  <2> SUFFICES ASSUME Bad # {} PROVE FALSE
    OBVIOUS
  <2>1. Bad \in SUBSET Nat
    BY <1>1
  <2>2. PICK n \in Bad : \A m \in Bad : n <= m
    BY <2>1, LeastNumber
  <2>3. n \in 0..Len(ops) /\ ~Fine(n)
    OBVIOUS
  <2> HIDE DEF Fine
  <2>4. n # 0
    BY <1>3, <2>3
  <2>5. n \in 1..Len(ops) /\ n - 1 \in 0..Len(ops) /\ ~(n <= n - 1)
    BY <1>1, <2>3, <2>4
  <2>6. Fine(n - 1)
    BY <2>2, <2>5
  <2> QED
    BY <1>4, <2>3, <2>5, <2>6
<1>6. Fine(Len(ops))
  BY <1>1, <1>5
<1>7. Extends(d, d, done, k + Len(ops))
  BY <1>1, KeyedLater DEF Extends, Grows, Counts
<1> QED
  BY <1>6, <1>7 DEF Transact, s

(* "replace" leaves the row of a version in its namespace.                    *)
Stays(d, v, mode) ==
  mode = "replace" => d.docs[v.id] = None \/ d.docs[v.id].coll = v.coll

(* One version restored: what was there stays, or the versions of its        *)
(* document are gone and the row has its data.                               *)
LEMMA OneRestored ==
  ASSUME DocumentsAssumption, NEW d, Tables(d), NEW v \in Version, NEW mode,
         NEW e, e = RestoreOne(d, v, mode)
  PROVE  /\ Tables(e) /\ e.moves = d.moves
         /\ Stays(d, v, mode) => Counts(d, e) /\ Stays(e, v, mode)
         /\ \/ e = d
            \/ /\ e.archive = {w \in d.archive : w.id # v.id}
               /\ e.docs[v.id] # None /\ v.data \subseteq e.docs[v.id].data
               /\ \A i \in Docs \ {v.id} : e.docs[i] = d.docs[i]
<1> DEFINE r == d.docs[v.id]
           back == [coll |-> v.coll, data |-> v.data, size |-> v.size,
                    exp |-> v.exp, beh |-> "archive"]
           merged == [r EXCEPT !.data = @ \cup v.data, !.size = SizeOf(r.data \cup v.data),
                               !.exp = v.exp, !.beh = "archive"]
           Cut(f) == {w \in f.archive : w.id # v.id}
           left == Cut(d)
<1>1. v.id \in Docs /\ v.data \in Data /\ v.exp \in Nat \cup {None}
  BY DEF Version
<1>2. back \in Row /\ back.data = v.data /\ back.coll = v.coll
  BY DEF Version, Row
<1>3. ASSUME r # None
      PROVE  merged \in Row /\ v.data \subseteq merged.data /\ merged.coll = r.coll
  <2>1. r \in Row
    BY <1>1, <1>3 DEF Tables
  <2>2. r.data \cup v.data \in Data
    BY <1>1, <2>1 DEF Row, Data
  <2>3. SizeOf(r.data \cup v.data) \in Nat
    BY <2>2, Sizes
  <2> HIDE DEF r
  <2> QED
    BY <1>1, <2>1, <2>2, <2>3 DEF Row
<1>4. ASSUME NEW x \in Row, v.data \subseteq x.data,
             NEW f, f \in {InsertRow(d, v.id, x), WriteRow(d, v.id, x)},
             e = [f EXCEPT !.archive = Cut(f)]
      PROVE  /\ Tables(e) /\ e.moves = d.moves /\ e.archive = left
             /\ e.docs[v.id] # None /\ v.data \subseteq e.docs[v.id].data
             /\ \A i \in Docs \ {v.id} : e.docs[i] = d.docs[i]
             /\ e.docs[v.id] = x /\ (Counts(d, f) => Counts(d, e))
  <2>1. /\ Rewrites(d, f) /\ f.docs = [d.docs EXCEPT ![v.id] = x]
        /\ e = [f EXCEPT !.archive = left]
    <3>1. Rewrites(d, f) /\ f.docs = [d.docs EXCEPT ![v.id] = x]
      BY <1>1, <1>4, RowInserted, RowWritten
    <3>2. Cut(f) = left
      BY <3>1 DEF Rewrites
    <3> QED
      BY <1>4, <3>1, <3>2
  <2>2. /\ DOMAIN e = {"docs", "archive", "moves", "stats"}
        /\ e.docs = [d.docs EXCEPT ![v.id] = x] /\ e.moves = d.moves /\ e.archive = left
        /\ e.docs = f.docs /\ e.stats = f.stats
    BY <2>1 DEF Rewrites, Tables
  <2>3. IsFiniteSet(left) /\ left \in SUBSET Version
    BY FS_Subset DEF Tables
  <2> HIDE DEF left
  <2>4. Tables(e)
    BY <1>1, <2>2, <2>3 DEF Tables
  <2>5. Counts(d, f) => Counts(d, e)
    BY <2>2, SameCounts DEF Counts
  <2> QED
    BY <1>1, <1>4, <2>2, <2>4, <2>5, Absent DEF Tables
<1>5. CASE r # None /\ mode = "skip"
  BY <1>5 DEF RestoreOne, Counts
<1>6. CASE r = None
  <2> DEFINE f == InsertRow(d, v.id, back)
  <2>1. e = [f EXCEPT !.archive = Cut(f)]
    BY <1>6 DEF RestoreOne
  <2>2. Counts(d, f)
    BY <1>1, <1>2, <1>6, InsertedCounts
  <2> HIDE DEF back, Cut
  <2> QED
    BY <1>2, <1>4, <2>1, <2>2 DEF Cut, Stays
<1>7. CASE r # None /\ mode = "replace"
  <2> DEFINE f == WriteRow(d, v.id, back)
  <2>1. e = [f EXCEPT !.archive = Cut(f)]
    BY <1>7 DEF RestoreOne
  <2>2. Stays(d, v, mode) => Counts(d, f)
    BY <1>1, <1>2, <1>7, WrittenCounts DEF Stays
  <2> HIDE DEF back, Cut
  <2> QED
    BY <1>2, <1>4, <2>1, <2>2 DEF Cut, Stays
<1>8. CASE r # None /\ mode # "replace" /\ mode # "skip"
  <2> DEFINE f == WriteRow(d, v.id, merged)
  <2>1. e = [f EXCEPT !.archive = Cut(f)]
    BY <1>8 DEF RestoreOne
  <2>2. Counts(d, f)
    BY <1>1, <1>3, <1>8, WrittenCounts
  <2> HIDE DEF merged, Cut
  <2> QED
    BY <1>3, <1>4, <1>8, <2>1, <2>2 DEF Cut, Stays
<1> QED
  BY <1>5, <1>6, <1>7, <1>8

(* The states of a restore exist in the same way.                             *)
LEMMA RestoringSteps ==
  ASSUME NEW d, NEW order, Len(order) \in Nat, NEW mode,
         NEW s, s = Restoring(d, order, mode)
  PROVE  s[0] = d /\ \A n \in 1..Len(order) : s[n] = RestoreOne(s[n - 1], order[n], mode)
<1> DEFINE Step(g, n) == IF n = 0 THEN d ELSE RestoreOne(g[n - 1], order[n], mode)
           Is(g, n) == g = [m \in 0..n |-> Step(g, m)]
           No == {n \in Nat : ~\E g : Is(g, n)}
<1>1. No = {}
  <2> SUFFICES ASSUME No # {} PROVE FALSE
    OBVIOUS
  <2>1. PICK n \in No : \A m \in No : n <= m
    BY LeastNumber
  <2>2. CASE n = 0
    <3> DEFINE g == [m \in 0..0 |-> d]
    <3>1. Is(g, 0)
      OBVIOUS
    <3> QED
      BY <2>1, <2>2, <3>1
  <2>3. CASE n # 0
    <3>1. n - 1 \in Nat /\ n - 1 \notin No
      <4>1. n \in Nat
        OBVIOUS
      <4>2. n - 1 \in Nat /\ ~(n <= n - 1)
        BY <2>3, <4>1
      <4> HIDE DEF No
      <4> QED
        BY <2>1, <4>2
    <3>2. PICK g : Is(g, n - 1)
      BY <3>1
    <3> DEFINE f == [m \in 0..n |-> Step(g, m)]
    <3>3. \A m \in 0..(n - 1) : f[m] = g[m]
      BY <3>1, <3>2
    <3>4. ASSUME NEW m \in 0..n PROVE Step(f, m) = Step(g, m)
      <4>1. CASE m = 0
        BY <4>1
      <4>2. CASE m # 0
        <5>1. m - 1 \in 0..(n - 1)
          BY <4>2, <3>1
        <5>2. f[m - 1] = g[m - 1]
          BY <3>3, <5>1
        <5> HIDE DEF f
        <5> QED
          BY <4>2, <5>2
      <4> QED
        BY <4>1, <4>2
    <3>5. Is(f, n)
      BY <3>4
    <3> QED
      BY <2>1, <3>5
  <2> QED
    BY <2>2, <2>3
<1>2. PICK g : Is(g, Len(order))
  BY <1>1
<1>3. s = CHOOSE f : Is(f, Len(order))
  BY DEF Restoring
<1>4. s = [m \in 0..Len(order) |-> Step(s, m)]
  BY <1>2, <1>3
<1>5. s[0] = Step(s, 0) /\ \A n \in 1..Len(order) : s[n] = Step(s, n)
  <2> HIDE DEF Step
  <2> QED
    BY <1>4
<1> QED
  BY <1>5

(* Versions of d are in e, or the row of their document has the data of one.  *)
Restores(d, e) ==
  \A w \in d.archive : w \in e.archive
    \/ \E u \in d.archive :
         u.id = w.id /\ e.docs[u.id] # None /\ u.data \subseteq e.docs[u.id].data

(* Every restored version is alone in its document, or of its namespace.      *)
StayAll(d, picked, mode) == \A v \in picked : Stays(d, v, mode)
Alike(picked, mode) ==
  mode = "replace" => \A v, w \in picked : v.id = w.id => v.coll = w.coll

LEMMA Restored ==
  ASSUME DocumentsAssumption, NEW d, Tables(d), NEW picked \in SUBSET d.archive,
         NEW order \in SetToSeqs(picked), NEW mode
  PROVE  LET e == Restore(d, order, mode) IN
         /\ Tables(e) /\ e.moves = d.moves /\ Restores(d, e)
         /\ StayAll(d, picked, mode) /\ Alike(picked, mode) => Counts(d, e)
<1> DEFINE s == Restoring(d, order, mode)
           Fine(n) == /\ Tables(s[n]) /\ s[n].moves = d.moves /\ Restores(d, s[n])
                      /\ StayAll(d, picked, mode) /\ Alike(picked, mode)
                           => Counts(d, s[n]) /\ StayAll(s[n], picked, mode)
           Bad == {n \in 0..Len(order) : ~Fine(n)}
<1>1. Len(order) \in Nat /\ \A n \in 1..Len(order) : order[n] \in picked
  <2>1. Cardinality(picked) \in Nat
    BY FS_Subset, FS_CardinalityType DEF Tables
  <2>2. order \in [1..Cardinality(picked) -> picked]
    BY DEF SetToSeqs
  <2>3. order \in Seq(picked)
    BY <2>1, <2>2
  <2> QED
    BY <2>3
<1>0. s = Restoring(d, order, mode)
  OBVIOUS
<1> HIDE DEF s
<1>2. s[0] = d /\ \A n \in 1..Len(order) : s[n] = RestoreOne(s[n - 1], order[n], mode)
  BY <1>0, <1>1, RestoringSteps
<1>3. Fine(0)
  BY <1>2 DEF Restores, Counts
<1>4. ASSUME NEW n \in 1..Len(order), Fine(n - 1) PROVE Fine(n)
  <2> DEFINE b == s[n - 1]
             v == order[n]
  <2>1. v \in picked /\ v \in d.archive /\ v \in Version
    BY <1>1 DEF Tables
  <2>2. s[n] = RestoreOne(b, v, mode)
    BY <1>2
  <2>3. /\ Tables(b) /\ b.moves = d.moves /\ Restores(d, b)
        /\ StayAll(d, picked, mode) /\ Alike(picked, mode)
             => Counts(d, b) /\ StayAll(b, picked, mode)
    BY <1>4
  <2> HIDE DEF b, v
  <2>4. /\ Tables(s[n]) /\ s[n].moves = b.moves
        /\ Stays(b, v, mode) => Counts(b, s[n]) /\ Stays(s[n], v, mode)
        /\ \/ s[n] = b
           \/ /\ s[n].archive = {w \in b.archive : w.id # v.id}
              /\ s[n].docs[v.id] # None /\ v.data \subseteq s[n].docs[v.id].data
              /\ \A i \in Docs \ {v.id} : s[n].docs[i] = b.docs[i]
    BY <2>1, <2>2, <2>3, OneRestored
  <2>5. ASSUME s[n] # b PROVE Restores(d, s[n])
    <3> SUFFICES ASSUME NEW w \in d.archive
                 PROVE  w \in s[n].archive
                        \/ \E u \in d.archive : u.id = w.id /\ s[n].docs[u.id] # None
                             /\ u.data \subseteq s[n].docs[u.id].data
      BY DEF Restores
    <3>1. CASE w.id = v.id
      BY <2>1, <2>4, <2>5, <3>1
    <3>2. CASE w.id # v.id
      <4>1. w.id \in Docs
        BY DEF Tables, Version
      <4>2. s[n].docs[w.id] = b.docs[w.id] /\ (w \in b.archive => w \in s[n].archive)
        BY <2>4, <2>5, <3>2, <4>1
      <4> QED
        BY <2>3, <4>2 DEF Restores
    <3> QED
      BY <3>1, <3>2
  <2>6. ASSUME StayAll(d, picked, mode), Alike(picked, mode)
        PROVE  Counts(d, s[n]) /\ StayAll(s[n], picked, mode)
    <3>1. Counts(d, b) /\ StayAll(b, picked, mode) /\ Stays(b, v, mode)
      BY <2>1, <2>3, <2>6 DEF StayAll
    <3>2. Counts(d, s[n]) /\ Stays(s[n], v, mode)
      BY <2>4, <3>1 DEF Counts
    <3>3. ASSUME NEW w \in picked PROVE Stays(s[n], w, mode)
      <4>1. w.id \in Docs /\ Stays(b, w, mode)
        BY <3>1 DEF Tables, Version, StayAll
      <4>2. CASE w.id # v.id
        <5>1. s[n].docs[w.id] = b.docs[w.id]
          BY <2>4, <4>1, <4>2
        <5> QED
          BY <4>1, <5>1 DEF Stays
      <4>3. CASE w.id = v.id
        BY <2>1, <2>6, <3>2, <4>3 DEF Stays, Alike
      <4> QED
        BY <4>2, <4>3
    <3> QED
      BY <3>2, <3>3 DEF StayAll
  <2> QED
    BY <2>3, <2>4, <2>5, <2>6
<1>5. Bad = {}
  <2> SUFFICES ASSUME Bad # {} PROVE FALSE
    OBVIOUS
  <2>1. Bad \in SUBSET Nat
    BY <1>1
  <2>2. PICK n \in Bad : \A m \in Bad : n <= m
    BY <2>1, LeastNumber
  <2>3. n \in 0..Len(order) /\ ~Fine(n)
    OBVIOUS
  <2> HIDE DEF Fine
  <2>4. n # 0
    BY <1>3, <2>3
  <2>5. n \in 1..Len(order) /\ n - 1 \in 0..Len(order) /\ ~(n <= n - 1)
    BY <1>1, <2>3, <2>4
  <2>6. Fine(n - 1)
    BY <2>2, <2>5
  <2> QED
    BY <1>4, <2>3, <2>5, <2>6
<1>6. Fine(Len(order))
  BY <1>1, <1>5
<1> QED
  BY <1>0, <1>6 DEF Restore

(* What the coordinator's handler holds between two statements.               *)
Holds(x) ==
  /\ x.op = "attach" =>
       /\ x.id \in Docs /\ x.coll \in Colls /\ x.spec \in Specs /\ x.patch \in Inputs \cup {None}
  /\ x.op = "change" =>
       /\ x.from \in Colls /\ x.to \in Colls /\ x.from # x.to /\ x.ids \in SUBSET Docs
  /\ x.op = "due" => x = [op |-> "due", todo |-> x.todo]

Tallied == drift \in BOOLEAN /\ (drift \/ Tally(db))

DocsInv ==
  /\ Tables(db) /\ Tallied /\ now \in Nat /\ fresh \in Nat \ {0} /\ Holds(h)
  /\ effects \in [Keys -> Nat] /\ Keyed(db.moves, effects, fresh)

Keeps ==
  \A v \in db.archive : Leaves(v) =>
     \/ h.op = "purge" \/ (v.exp # None /\ v.exp <= now)
     \/ \E w \in db.archive : w.id = v.id /\ Became(w)

LEMMA DocsInit ==
  ASSUME DocumentsAssumption, Init
  PROVE  DocsInv
<1>1. Tables(db)
  BY FS_EmptySet DEF Init, Empty, Tables
<1>2. /\ now \in Nat /\ fresh = 1 /\ Holds(h)
      /\ effects = [x \in Keys |-> 0] /\ \A i \in Docs, n \in Names : db.moves[i][n] = None
  BY DEF Init, Empty, Holds, Idle
<1>3. Keyed(db.moves, effects, fresh)
  BY <1>2 DEF Keyed
<1>4. Tallied
  <2>1. db.docs = [i \in Docs |-> None] /\ db.stats = [c \in Colls |-> None] /\ drift = FALSE
    BY DEF Init, Empty
  <2>2. \A c \in Colls : In(db, c) = {}
    BY <2>1 DEF In, Live
  <2> QED
    BY <2>1, <2>2 DEF Tallied, Tally, TallyAt
<1> QED
  BY <1>1, <1>2, <1>3, <1>4 DEF DocsInv

(* A step that removes no version and counts no application.                  *)
LEMMA StepExtends ==
  ASSUME DocumentsAssumption, DocsInv, NEW k \in Nat, fresh <= k, k <= fresh',
         fresh' \in Nat, now' \in Nat, Holds(h'), effects' = effects,
         Grows(db, db', effects, k), Tallied'
  PROVE  DocsInv' /\ Keeps
<1>1. Keyed(db'.moves, effects', fresh')
  BY KeyedLater DEF Grows, DocsInv
<1>2. Keeps
  BY DEF Keeps, Leaves, Grows
<1>3. fresh' # 0
  BY DEF DocsInv
<1> QED
  BY <1>1, <1>2, <1>3 DEF DocsInv, Grows

LEMMA StepTallied ==
  ASSUME DocsInv, drift' = drift, Counts(db, db')
  PROVE  Tallied'
  BY DEF DocsInv, Tallied, Counts

(* A step that leaves the tables alone.                                       *)
LEMMA StepElsewhere ==
  ASSUME DocumentsAssumption, DocsInv, db' = db, effects' = effects, Holds(h'),
         now' \in Nat, fresh' \in {fresh, fresh + 1}, drift' = drift
  PROVE  DocsInv' /\ Keeps
<1>1. fresh \in Nat /\ fresh' \in Nat /\ fresh <= fresh'
  BY DEF DocsInv
<1>2. Grows(db, db', effects, fresh)
  BY DEF Grows, DocsInv
<1>3. Tallied'
  BY StepTallied DEF Counts
<1> QED
  BY <1>1, <1>2, <1>3, StepExtends

LEMMA Handled ==
  ASSUME DocumentsAssumption, DocsInv, NEW d, Handle(d),
         Extends(db, d, effects, fresh + 1)
  PROVE  DocsInv' /\ Keeps
<1>1. /\ db' = d /\ fresh' = fresh + 1 /\ now' = now /\ effects' = effects /\ h' = Idle
      /\ fresh \in Nat /\ drift' = drift
  BY DEF Handle, DocsInv
<1>2. Holds(h') /\ now' \in Nat
  BY <1>1 DEF Holds, Idle, DocsInv
<1>3. fresh + 1 \in Nat /\ fresh <= fresh + 1 /\ fresh + 1 <= fresh'
  BY <1>1
<1>4. Tallied' /\ Grows(db, db', effects, fresh + 1)
  BY <1>1, StepTallied DEF Extends
<1> QED
  BY <1>1, <1>2, <1>3, <1>4, StepExtends

(* A statement that touches neither archive nor transitions.                  *)
LEMMA RewritesGrow ==
  ASSUME DocsInv, NEW e, Rewrites(db, e)
  PROVE  Grows(db, e, effects, fresh) /\ Grows(db, e, effects, fresh + 1)
<1>1. fresh \in Nat /\ fresh + 1 \in Nat /\ fresh <= fresh + 1
  BY DEF DocsInv
<1> QED
  BY <1>1, KeyedLater DEF Grows, Rewrites, DocsInv

(* One that settles or drops transitions.                                     *)
LEMMA DescendGrow ==
  ASSUME DocsInv, NEW e, Tables(e), Descend(db.moves, e.moves), db.archive \subseteq e.archive
  PROVE  Grows(db, e, effects, fresh) /\ Grows(db, e, effects, fresh + 1)
<1>1. fresh \in Nat /\ fresh + 1 \in Nat /\ fresh <= fresh + 1
  BY DEF DocsInv
<1>2. Keyed(e.moves, effects, fresh)
  BY KeyedDescend DEF DocsInv
<1> QED
  BY <1>1, <1>2, KeyedLater DEF Grows

LEMMA CreateKeeps ==
  ASSUME DocumentsAssumption, DocsInv, NEW op \in {"insert", "upsert"}, Create(op)
  PROVE  DocsInv' /\ Keeps
<1>1. PICK i \in Docs, c \in Colls, v \in Inputs, life \in Lives, s \in Specs \cup {None},
           u \in {{}} \cup {{f} : f \in Fields} :
        Handle(Mutate(db, [op |-> op, id |-> i, coll |-> c, data |-> v, life |-> life,
                           spec |-> s, unique |-> u, onConflict |-> "skip", how |-> "patch"],
                      fresh, now).db)
  BY DEF Create
<1> DEFINE o == [op |-> op, id |-> i, coll |-> c, data |-> v, life |-> life,
                 spec |-> s, unique |-> u, onConflict |-> "skip", how |-> "patch"]
<1>2. o \in Operation
  <2>1. v \in Data /\ u \in SUBSET Fields
    BY DEF DocumentsAssumption
  <2>2. life \in [ttl : Nat \cup {None}, beh : {"archive", "delete"}]
    BY DEF DocumentsAssumption
  <2> QED
    BY <2>1, <2>2 DEF Operation
<1>3. Handle(Mutate(db, o, fresh, now).db)
  BY <1>1
<1> HIDE DEF o
<1>4. Extends(db, Mutate(db, o, fresh, now).db, effects, fresh + 1)
  BY <1>2, Mutated DEF DocsInv
<1> QED
  BY <1>3, <1>4, Handled

LEMMA UpdatesKeep ==
  ASSUME DocumentsAssumption, DocsInv, NEW ids \in SUBSET Docs, NEW sc, NEW how,
         NEW v \in Inputs, Handle(UpdateDocs(db, Live(db, ids, sc), how, v))
  PROVE  DocsInv' /\ Keeps
<1> DEFINE hit == Live(db, ids, sc)
           e == UpdateDocs(db, hit, how, v)
<1>1. hit \in SUBSET Docs /\ \A i \in hit : db.docs[i] \in Row
  BY LiveRows DEF Live, DocsInv
<1>2. Handle(e)
  OBVIOUS
<1> HIDE DEF hit
<1>3. Rewrites(db, e) /\ Counts(db, e)
  <2>1. v \in Data /\ Tables(db)
    BY DEF DocumentsAssumption, DocsInv
  <2> QED
    BY <1>1, <2>1, DocsUpdated, UpdatedCounts
<1> HIDE DEF e
<1> QED
  BY <1>2, <1>3, RewritesGrow, Handled DEF Extends

LEMMA UpdateKeeps ==
  ASSUME DocumentsAssumption, DocsInv, Update \/ UpdateMany
  PROVE  DocsInv' /\ Keeps
<1>1. PICK ids \in SUBSET Docs, sc \in Colls \cup {None}, v \in Inputs,
           how \in {"patch", "replace", "mutate"} :
        Handle(UpdateDocs(db, Live(db, ids, sc), how, v))
  <2>1. CASE Update
    <3>1. PICK i \in Docs, sc \in Colls \cup {None}, v \in Inputs,
               how \in {"patch", "replace", "mutate"} :
            Handle(UpdateDocs(db, Live(db, {i}, sc), how, v))
      BY <2>1 DEF Update
    <3>2. {i} \in SUBSET Docs
      OBVIOUS
    <3> QED
      BY <3>1, <3>2
  <2>2. CASE UpdateMany
    <3>1. PICK ids \in SUBSET Docs \ {{}}, sc \in Colls \cup {None}, v \in Inputs,
               how \in {"patch", "mutate"} :
            Handle(UpdateDocs(db, Live(db, ids, sc), how, v))
      BY <2>2 DEF UpdateMany
    <3> QED
      BY <3>1
  <2> QED
    BY <2>1, <2>2
<1> QED
  BY <1>1, UpdatesKeep

LEMMA FindForAttachKeeps ==
  ASSUME DocumentsAssumption, DocsInv, FindForAttach
  PROVE  DocsInv' /\ Keeps
<1>1. PICK i \in Live(db, Docs, None), s \in Specs, v \in Inputs \cup {None} :
        h' = [op |-> "attach", id |-> i, coll |-> db.docs[i].coll, spec |-> s, patch |-> v]
  BY DEF FindForAttach
<1>2. i \in Docs /\ db.docs[i] \in Row
  BY LiveRows DEF DocsInv
<1>3. Holds(h')
  BY <1>1, <1>2 DEF Holds, Row
<1>4. /\ db' = db /\ effects' = effects /\ now' \in Nat /\ fresh' = fresh + 1
      /\ drift' = drift
  BY DEF FindForAttach, DocsInv
<1> QED
  BY <1>3, <1>4, StepElsewhere

LEMMA AttachFoundKeeps ==
  ASSUME DocumentsAssumption, DocsInv, AttachFound
  PROVE  DocsInv' /\ Keeps
<1> DEFINE hit == Live(db, {h.id}, None)
           d == IF h.patch = None THEN db ELSE UpdateDocs(db, hit, "patch", h.patch)
           e == Attach(d, h.id, h.coll, h.spec, fresh, now)
<1>1. /\ h.id \in Docs /\ h.coll \in Colls /\ h.spec \in Specs /\ h.patch \in Inputs \cup {None}
  BY DEF AttachFound, DocsInv, Holds
<1>2. /\ db' = e /\ h' = Idle /\ fresh' = fresh + 1 /\ now' = now /\ effects' = effects
      /\ drift' = drift
  BY DEF AttachFound
<1>3. hit \in SUBSET Docs /\ \A i \in hit : db.docs[i] \in Row
  BY <1>1, LiveRows DEF Live, DocsInv
<1> HIDE DEF hit
<1>4. Rewrites(db, d) /\ Counts(db, d)
  <2>1. CASE h.patch = None
    BY <2>1 DEF Rewrites, Counts, DocsInv
  <2>2. CASE h.patch # None
    <3>1. h.patch \in Data
      BY <1>1, <2>2 DEF DocumentsAssumption
    <3>2. /\ Rewrites(db, UpdateDocs(db, hit, "patch", h.patch))
          /\ Counts(db, UpdateDocs(db, hit, "patch", h.patch))
      BY <1>3, <3>1, DocsUpdated, UpdatedCounts DEF DocsInv
    <3> QED
      BY <2>2, <3>2
  <2> QED
    BY <2>1, <2>2
<1> HIDE DEF d
<1>5. Extends(d, e, effects, fresh + 1)
  BY <1>1, <1>4, Attached DEF Rewrites, DocsInv
<1> HIDE DEF e
<1>6. Grows(db, db', effects, fresh + 1) /\ Tallied'
  <2>1. Counts(db, db')
    BY <1>2, <1>4, <1>5 DEF Extends, Counts
  <2> QED
    BY <1>2, <1>4, <1>5, <2>1, StepTallied DEF Extends, Grows, Rewrites
<1>7. Holds(h') /\ now' \in Nat /\ fresh \in Nat
  BY <1>2 DEF Holds, Idle, DocsInv
<1>8. fresh + 1 \in Nat /\ fresh <= fresh + 1 /\ fresh + 1 <= fresh' /\ fresh' \in Nat
  BY <1>2, <1>7
<1> QED
  BY <1>2, <1>6, <1>7, <1>8, StepExtends

LEMMA RemovesKeep ==
  ASSUME DocumentsAssumption, DocsInv, NEW ids \in SUBSET Docs, NEW sc,
         \/ Handle(ArchiveAndDelete(db, Live(db, ids, sc), fresh, Expiry(ArchiveTtl, now)))
         \/ Handle(HardDelete(db, Live(db, ids, sc)))
  PROVE  DocsInv' /\ Keeps
<1> DEFINE hit == Live(db, ids, sc)
           exp == Expiry(ArchiveTtl, now)
           a == ArchiveAndDelete(db, hit, fresh, exp)
           b == HardDelete(db, hit)
<1>1. hit \in SUBSET Docs /\ \A i \in hit : db.docs[i] \in Row
  BY LiveRows DEF Live, DocsInv
<1>2. exp \in Nat \cup {None} /\ fresh \in Nat /\ Tables(db)
  BY Expires DEF DocumentsAssumption, DocsInv
<1>3. Handle(a) \/ Handle(b)
  OBVIOUS
<1> HIDE DEF hit, exp
<1>4. Tables(a) /\ Descend(db.moves, a.moves) /\ db.archive \subseteq a.archive /\ Counts(db, a)
  <2>1. a = ArchiveAndDelete(db, hit, fresh, exp)
    OBVIOUS
  <2> HIDE DEF a
  <2> QED
    BY <1>1, <1>2, <2>1, ArchivedRows
<1>5. Tables(b) /\ Descend(db.moves, b.moves) /\ db.archive \subseteq b.archive /\ Counts(db, b)
  BY <1>1, <1>2, HardDeleted
<1> HIDE DEF a, b
<1> QED
  BY <1>3, <1>4, <1>5, DescendGrow, Handled DEF Extends

LEMMA DeleteKeeps ==
  ASSUME DocumentsAssumption, DocsInv, Delete
  PROVE  DocsInv' /\ Keeps
  BY RemovesKeep DEF Delete

LEMMA DropNamespaceKeeps ==
  ASSUME DocumentsAssumption, DocsInv, DropNamespace
  PROVE  DocsInv' /\ Keeps
<1>1. Docs \in SUBSET Docs
  OBVIOUS
<1> QED
  BY <1>1, RemovesKeep DEF DropNamespace

LEMMA SetTtlKeeps ==
  ASSUME DocumentsAssumption, DocsInv, SetTtl
  PROVE  DocsInv' /\ Keeps
<1>1. PICK ids \in SUBSET Docs, life \in Lives :
        Handle([db EXCEPT !.docs = [i \in Docs |->
          IF i \in Live(db, ids, None)
          THEN [@[i] EXCEPT !.exp = Expiry(life.ttl, now), !.beh = life.beh] ELSE @[i]]])
  BY DEF SetTtl
<1> DEFINE docs == [i \in Docs |->
             IF i \in Live(db, ids, None)
             THEN [db.docs[i] EXCEPT !.exp = Expiry(life.ttl, now), !.beh = life.beh]
             ELSE db.docs[i]]
           e == [db EXCEPT !.docs = docs]
<1>2. Handle(e)
  BY <1>1
<1>21. Tables(db)
  BY DEF DocsInv
<1>3. Expiry(life.ttl, now) \in Nat \cup {None} /\ life.beh \in {"archive", "delete"}
  BY Expires DEF DocumentsAssumption, DocsInv
<1>4. docs \in [Docs -> Row \cup {None}]
  <2>1. ASSUME NEW i \in Live(db, ids, None)
        PROVE  [db.docs[i] EXCEPT !.exp = Expiry(life.ttl, now), !.beh = life.beh] \in Row
    <3>1. db.docs[i] \in Row
      BY LiveRows DEF DocsInv
    <3> QED
      BY <1>3, <3>1 DEF Row
  <2> QED
    BY <2>1 DEF DocsInv, Tables
<1>41. \A i \in Docs : /\ docs[i] # None <=> db.docs[i] # None
                       /\ docs[i] # None => docs[i].coll = db.docs[i].coll
                                             /\ docs[i].size = db.docs[i].size
  <2>1. ASSUME NEW i \in Live(db, ids, None)
        PROVE  /\ docs[i] # None /\ db.docs[i] # None
               /\ docs[i].coll = db.docs[i].coll /\ docs[i].size = db.docs[i].size
    <3>1. db.docs[i] \in Row /\ i \in Docs
      BY <1>21, LiveRows
    <3>2. docs[i] = [db.docs[i] EXCEPT !.exp = Expiry(life.ttl, now), !.beh = life.beh]
      BY <2>1, <3>1
    <3>3. docs[i].coll = db.docs[i].coll /\ docs[i].size = db.docs[i].size /\ docs[i] \in Row
      BY <1>3, <3>1, <3>2 DEF Row
    <3> QED
      BY <3>1, <3>3, Absent
  <2> QED
    BY <2>1
<1> HIDE DEF docs
<1>5. Rewrites(db, e) /\ e.docs = docs /\ e.stats = db.stats
  BY <1>4 DEF Rewrites, Tables, DocsInv
<1> HIDE DEF e
<1>6. Counts(db, e)
  BY <1>21, <1>41, <1>5, RestampedCounts DEF Rewrites
<1> QED
  BY <1>2, <1>5, <1>6, RewritesGrow, Handled DEF Extends

LEMMA TransactionKeeps ==
  ASSUME DocumentsAssumption, DocsInv, Transaction
  PROVE  DocsInv' /\ Keeps
<1>1. PICK ops \in Batches, onError \in {"fail", "continue"} :
        db' = Transact(db, ops, onError, fresh, now) /\ fresh' = fresh + Len(ops)
  BY DEF Transaction
<1>2. ops \in Seq(Operation) /\ Len(ops) \in Nat
  BY DEF DocumentsAssumption
<1>3. Extends(db, db', effects, fresh + Len(ops))
  BY <1>1, <1>2, Transacted DEF DocsInv
<1>4. h' = h /\ now' = now /\ effects' = effects /\ drift' = drift
  BY DEF Transaction
<1>5. Holds(h') /\ now' \in Nat /\ fresh \in Nat
  BY <1>4 DEF DocsInv
<1>6. fresh + Len(ops) \in Nat /\ fresh <= fresh + Len(ops) /\ fresh + Len(ops) <= fresh'
      /\ fresh' \in Nat
  BY <1>1, <1>2, <1>5
<1>7. Grows(db, db', effects, fresh + Len(ops)) /\ Tallied'
  BY <1>3, <1>4, StepTallied DEF Extends
<1> QED
  BY <1>4, <1>5, <1>6, <1>7, StepExtends

LEMMA RestoreArchiveKeeps ==
  ASSUME DocumentsAssumption, DocsInv, RestoreArchive
  PROVE  DocsInv' /\ Keeps
<1>1. PICK s, mode :
        /\ \E order \in SetToSeqs(Picked(db, s[1], s[2])) : db' = Restore(db, order, mode)
        /\ drift' = (drift \/ (mode = "replace" /\ \E v \in Picked(db, s[1], s[2]) :
             db.docs[v.id] # None
             \/ \E w \in Picked(db, s[1], s[2]) : w.id = v.id /\ w.coll # v.coll))
  BY DEF RestoreArchive
<1> DEFINE picked == Picked(db, s[1], s[2])
<1>2. picked \in SUBSET db.archive
  BY DEF Picked
<1>3. PICK order \in SetToSeqs(picked) : db' = Restore(db, order, mode)
  BY <1>1
<1>31. drift' = (drift \/ (mode = "replace" /\ \E v \in picked :
          db.docs[v.id] # None \/ \E w \in picked : w.id = v.id /\ w.coll # v.coll))
  BY <1>1
<1> HIDE DEF picked
<1>4. /\ Tables(db') /\ db'.moves = db.moves /\ Restores(db, db')
      /\ StayAll(db, picked, mode) /\ Alike(picked, mode) => Counts(db, db')
  BY <1>2, <1>3, Restored DEF DocsInv
<1>41. Tallied'
  <2>1. drift' \in BOOLEAN /\ (drift => drift')
    BY <1>31 DEF DocsInv, Tallied
  <2>2. ~drift' => StayAll(db, picked, mode) /\ Alike(picked, mode)
    BY <1>31 DEF StayAll, Stays, Alike
  <2> QED
    BY <1>4, <2>1, <2>2 DEF DocsInv, Tallied, Counts
<1>5. /\ fresh' = fresh + 1 /\ now' = now /\ h' = h /\ effects' = effects
      /\ fresh \in Nat /\ Keyed(db.moves, effects, fresh)
  BY DEF RestoreArchive, DocsInv
<1>6. Keyed(db'.moves, effects', fresh')
  <2>1. fresh + 1 \in Nat /\ fresh <= fresh + 1
    BY <1>5
  <2> QED
    BY <1>4, <1>5, <2>1, KeyedLater
<1>7. DocsInv'
  BY <1>4, <1>41, <1>5, <1>6 DEF DocsInv
<1>8. Keeps
  BY <1>4 DEF Restores, Keeps, Leaves, Became
<1> QED
  BY <1>7, <1>8

LEMMA PurgeSelectKeeps ==
  ASSUME DocumentsAssumption, DocsInv, PurgeSelect
  PROVE  DocsInv' /\ Keeps
<1>1. PICK by, x, ids : h' = [op |-> "purge", by |-> by, x |-> x, ids |-> ids]
  BY DEF PurgeSelect
<1>2. Holds(h')
  BY <1>1 DEF Holds
<1>3. /\ db' = db /\ effects' = effects /\ now' \in Nat /\ fresh' = fresh + 1
      /\ drift' = drift
  BY DEF PurgeSelect, DocsInv
<1> QED
  BY <1>2, <1>3, StepElsewhere

LEMMA PurgeVersionsKeeps ==
  ASSUME DocumentsAssumption, DocsInv, PurgeVersions
  PROVE  DocsInv' /\ Keeps
<1> DEFINE left == db.archive \ Picked(db, h.by, h.x)
<1>1. db' = [db EXCEPT !.archive = left]
  BY DEF PurgeVersions
<1>2. left \in SUBSET Version /\ IsFiniteSet(left)
  BY FS_Subset DEF DocsInv, Tables
<1> HIDE DEF left
<1>3. Tables(db') /\ db'.moves = db.moves /\ db'.docs = db.docs /\ db'.stats = db.stats
  BY <1>1, <1>2 DEF DocsInv, Tables
<1>4. /\ h' = [op |-> "purge moves", ids |-> h.ids]
      /\ now' = now /\ fresh' = fresh /\ effects' = effects /\ drift' = drift
  BY DEF PurgeVersions
<1>5. Holds(h')
  BY <1>4 DEF Holds
<1>51. Tallied'
  BY <1>3, <1>4, SameCounts, StepTallied
<1>6. DocsInv'
  BY <1>3, <1>4, <1>5, <1>51 DEF DocsInv
<1>7. Keeps
  BY DEF Keeps, PurgeVersions
<1> QED
  BY <1>6, <1>7

LEMMA PurgeTransitionsKeeps ==
  ASSUME DocumentsAssumption, DocsInv, PurgeTransitions
  PROVE  DocsInv' /\ Keeps
<1>1. /\ db' = DropMoves(db, h.ids) /\ h' = Idle /\ now' = now /\ fresh' = fresh
      /\ effects' = effects /\ drift' = drift
  BY DEF PurgeTransitions
<1>2. /\ Tables(db') /\ db'.archive = db.archive /\ Descend(db.moves, db'.moves)
      /\ db'.docs = db.docs /\ db'.stats = db.stats
  BY <1>1, MovesDropped DEF DocsInv
<1>3. Grows(db, db', effects, fresh) /\ Tallied'
  BY <1>1, <1>2, DescendGrow, SameCounts, StepTallied
<1>4. Holds(h') /\ now' \in Nat /\ fresh \in Nat /\ fresh <= fresh
  BY <1>1 DEF Holds, Idle, DocsInv
<1> QED
  BY <1>1, <1>3, <1>4, StepExtends

LEMMA ChangeSelectKeeps ==
  ASSUME DocumentsAssumption, DocsInv, ChangeSelect
  PROVE  DocsInv' /\ Keeps
<1>1. PICK from \in Colls, to \in Colls, ids \in SUBSET Docs : from # to /\ \E bytes :
        h' = [op |-> "change", from |-> from, to |-> to, ids |-> ids, bytes |-> bytes]
  BY DEF ChangeSelect
<1>2. Holds(h')
  BY <1>1 DEF Holds
<1>3. /\ db' = db /\ effects' = effects /\ now' \in Nat /\ fresh' = fresh + 1
      /\ drift' = drift
  BY DEF ChangeSelect, DocsInv
<1> QED
  BY <1>2, <1>3, StepElsewhere

(* A transition that only follows its document to another namespace.          *)
LEMMA Follows ==
  ASSUME NEW t \in Transition, NEW c \in Colls
  PROVE  LET u == [t EXCEPT !.coll = c] IN
         u \in Transition /\ u.key = t.key /\ u.status = t.status
  BY DEF Transition

LEMMA ChangeNamespaceKeeps ==
  ASSUME DocumentsAssumption, DocsInv, ChangeNamespace
  PROVE  DocsInv' /\ Keeps
<1> DEFINE ids == h.ids
           to == h.to
           moved == Live(db, ids, h.from)
           mw == [i \in Docs |-> [n \in Names |->
                   IF i \in ids /\ db.moves[i][n] # None
                   THEN [db.moves[i][n] EXCEPT !.coll = to] ELSE db.moves[i][n]]]
           docs == [i \in Docs |-> IF i \in moved THEN [db.docs[i] EXCEPT !.coll = to]
                                   ELSE db.docs[i]]
           st == Counted(Adjusted(db.stats, h.from, -Cardinality(moved), -h.bytes), to,
                         Cardinality(moved), h.bytes)
<1>1. db' = [db EXCEPT !.moves = mw, !.docs = docs, !.stats = st]
  BY DEF ChangeNamespace, Moved, OnMoves, DocsInv, Tables
<1> HIDE DEF st
<1>2. to \in Colls /\ h.from \in Colls /\ h.from # to /\ ids \in SUBSET Docs
  BY DEF ChangeNamespace, DocsInv, Holds
<1>3. docs \in [Docs -> Row \cup {None}]
  <2>1. ASSUME NEW i \in Docs, i \in moved PROVE [db.docs[i] EXCEPT !.coll = to] \in Row
    <3>1. db.docs[i] \in Row
      BY <2>1 DEF Live, DocsInv, Tables
    <3> QED
      BY <1>2, <3>1 DEF Row
  <2> QED
    BY <2>1 DEF DocsInv, Tables
<1> DEFINE to1(x) == [x EXCEPT !.coll = to]
<1>4. \A x \in Transition : to1(x) \in Transition /\ to1(x).key = x.key /\ to1(x).status = x.status
  BY <1>2, Follows
<1>5. \A i \in Docs, n \in Names : mw[i][n] =
        IF i \in ids /\ db.moves[i][n] # None THEN to1(db.moves[i][n]) ELSE db.moves[i][n]
  OBVIOUS
<1> HIDE DEF to1
<1>51. mw \in [Docs -> [Names -> Transition \cup {None}]] /\ Descend(db.moves, mw)
  <2>1. \A i \in Docs, n \in Names : db.moves[i][n] \in Transition \cup {None}
    BY DEF DocsInv, Tables
  <2>2. \A i \in Docs, n \in Names : mw[i][n] \in Transition \cup {None}
    BY <1>4, <1>5, <2>1
  <2>3. mw \in [Docs -> [Names -> Transition \cup {None}]]
    BY <2>2
  <2> HIDE DEF mw
  <2>4. Descend(db.moves, mw)
    BY <1>4, <1>5, <2>1 DEF Descend
  <2> QED
    BY <2>3, <2>4
<1> HIDE DEF mw, docs
<1>6. /\ Tables(db') /\ db'.moves = mw /\ db'.archive = db.archive
      /\ db'.docs = docs /\ db'.stats = st
  BY <1>1, <1>3, <1>51 DEF DocsInv, Tables
<1>7. Tallied'
  <2>1. drift' = (drift \/ h.bytes # SizeIn(db, moved)) /\ Tables(db)
    BY DEF ChangeNamespace, DocsInv
  <2>2. drift' \in BOOLEAN /\ (drift => drift')
    BY <2>1 DEF DocsInv, Tallied
  <2>3. ASSUME h.bytes = SizeIn(db, moved) PROVE Counts(db, db')
    BY <1>2, <1>6, <2>1, <2>3, MovedCounts DEF docs, st
  <2> QED
    BY <2>1, <2>2, <2>3 DEF DocsInv, Tallied, Counts
<1>8. Grows(db, db', effects, fresh)
  BY <1>6, <1>51, DescendGrow
<1>9. /\ Holds(h') /\ now' \in Nat /\ fresh \in Nat /\ fresh <= fresh /\ fresh' = fresh
      /\ effects' = effects
  BY DEF ChangeNamespace, Holds, Idle, DocsInv
<1> QED
  BY <1>7, <1>8, <1>9, StepExtends

LEMMA RenameNamespaceKeeps ==
  ASSUME DocumentsAssumption, DocsInv, RenameNamespace
  PROVE  DocsInv' /\ Keeps
<1>1. PICK from \in Colls, to \in Colls :
        db' = Renamed(db, from, to) /\ drift' = (drift \/ Live(db, Docs, from) # {})
  BY DEF RenameNamespace
<1> DEFINE as(x) == IF x.coll = from THEN [x EXCEPT !.coll = to] ELSE x
           mw == [i \in Docs |-> [n \in Names |->
                   IF i \in Docs /\ db.moves[i][n] # None THEN as(db.moves[i][n])
                   ELSE db.moves[i][n]]]
           docs == [i \in Docs |-> IF db.docs[i] = None THEN None ELSE as(db.docs[i])]
           arch == {as(v) : v \in db.archive}
<1>2. db' = [[db EXCEPT !.moves = mw] EXCEPT !.docs = docs, !.archive = arch]
  BY <1>1 DEF Renamed, OnMoves
<1>3. /\ \A x \in Row : as(x) \in Row
      /\ \A x \in Transition : as(x) \in Transition /\ as(x).key = x.key /\ as(x).status = x.status
      /\ \A x \in Version : as(x) \in Version /\ as(x).txn = x.txn /\ as(x).id = x.id
  BY DEF Row, Transition, Version
<1>31. In(db, from) = {} => docs = db.docs
  <2>1. \A i \in Docs : i \in In(db, from) <=> db.docs[i] # None /\ db.docs[i].coll = from
    BY InSet DEF DocsInv
  <2> QED
    BY <2>1 DEF DocsInv, Tables
<1> HIDE DEF as
<1>4. docs \in [Docs -> Row \cup {None}]
  BY <1>3 DEF DocsInv, Tables
<1>5. mw \in [Docs -> [Names -> Transition \cup {None}]] /\ Descend(db.moves, mw)
  <2>1. \A i \in Docs, n \in Names : db.moves[i][n] \in Transition \cup {None}
    BY DEF DocsInv, Tables
  <2>2. \A i \in Docs, n \in Names : mw[i][n] =
          IF db.moves[i][n] # None THEN as(db.moves[i][n]) ELSE db.moves[i][n]
    OBVIOUS
  <2>3. \A i \in Docs, n \in Names : mw[i][n] \in Transition \cup {None}
    BY <1>3, <2>1, <2>2
  <2>4. mw \in [Docs -> [Names -> Transition \cup {None}]]
    BY <2>3
  <2> HIDE DEF mw
  <2>5. Descend(db.moves, mw)
    BY <1>3, <2>1, <2>2 DEF Descend
  <2> QED
    BY <2>4, <2>5
<1>6. IsFiniteSet(arch)
  <2> DEFINE f == [v \in db.archive |-> as(v)]
  <2>1. f \in Surjection(db.archive, arch)
    BY DEF Surjection
  <2> QED
    BY <2>1, FS_Surjection DEF DocsInv, Tables
<1>7. arch \in SUBSET Version
      /\ \A v \in db.archive : \E w \in arch : w.txn = v.txn /\ w.id = v.id
  BY <1>3 DEF DocsInv, Tables
<1> HIDE DEF mw, docs, arch
<1>8. /\ Tables(db') /\ db'.moves = mw /\ db'.archive = arch
      /\ db'.docs = docs /\ db'.stats = db.stats
  BY <1>2, <1>4, <1>5, <1>6, <1>7 DEF DocsInv, Tables
<1>81. Tallied'
  <2>1. drift' \in BOOLEAN /\ (drift => drift') /\ (~drift' => In(db, from) = {})
    BY <1>1 DEF DocsInv, Tallied, In
  <2>2. ~drift' => Counts(db, db')
    BY <1>31, <1>8, <2>1, SameCounts
  <2> QED
    BY <2>1, <2>2 DEF DocsInv, Tallied, Counts
<1>9. /\ fresh' = fresh + 1 /\ now' = now /\ h' = [op |-> "recompute"] /\ effects' = effects
      /\ fresh \in Nat
  BY DEF RenameNamespace, DocsInv
<1>10. Keyed(db'.moves, effects', fresh')
  <2>1. fresh + 1 \in Nat /\ fresh <= fresh + 1
    BY <1>9
  <2>2. Keyed(mw, effects, fresh)
    BY <1>5, KeyedDescend DEF DocsInv
  <2> QED
    BY <1>8, <1>9, <2>1, <2>2, KeyedLater
<1>11. Holds(h')
  BY <1>9 DEF Holds
<1>12. DocsInv'
  BY <1>8, <1>81, <1>9, <1>10, <1>11 DEF DocsInv
<1>13. Keeps
  BY <1>7, <1>8 DEF Keeps, Leaves
<1> QED
  BY <1>12, <1>13

(* The two statements of recompute_stats, by rename_namespace or the worker.  *)
LEMMA RecomputeKeeps ==
  ASSUME DocumentsAssumption, DocsInv,
         RenameClear \/ RenameRebuild \/ AdminClear \/ AdminRebuild
  PROVE  DocsInv' /\ Keeps
<1>1. \/ db' = db
      \/ \E st : db' = [db EXCEPT !.stats = st]
  BY DEF RenameClear, RenameRebuild, AdminClear, AdminRebuild, Clear, Rebuild, ClearStats,
         RebuildStats
<1>2. Rewrites(db, db')
  BY <1>1 DEF Rewrites, Tables, DocsInv
<1>21. Tallied'
  <2>1. CASE RenameClear \/ AdminClear
    <3>1. drift' = TRUE
      BY <2>1 DEF RenameClear, AdminClear, Clear
    <3> QED
      BY <3>1 DEF Tallied
  <2>2. CASE RenameRebuild \/ AdminRebuild
    <3>1. /\ db' = RebuildStats(db)
          /\ drift' = (drift /\ \E c \in Colls : db.stats[c] # None)
      BY <2>2 DEF RenameRebuild, AdminRebuild, Rebuild
    <3>2. drift' \in BOOLEAN
      BY <3>1
    <3>3. ASSUME ~drift' PROVE Tally(db')
      <4>1. Tally(db) \/ \A c \in Colls : db.stats[c] = None
        BY <3>1, <3>3 DEF DocsInv, Tallied
      <4>2. Tables(db)
        BY DEF DocsInv
      <4> QED
        BY <3>1, <4>1, <4>2, RebuiltCounts
    <3> QED
      BY <3>2, <3>3 DEF Tallied
  <2> QED
    BY <2>1, <2>2
<1>3. h' = h \/ h' = Idle \/ h' = [op |-> "rebuild"]
  BY DEF RenameClear, RenameRebuild, AdminClear, AdminRebuild
<1>4. Holds(h')
  BY <1>3 DEF Holds, Idle, DocsInv
<1>5. /\ effects' = effects /\ now' = now /\ fresh' \in {fresh, fresh + 1}
      /\ fresh \in Nat /\ now' \in Nat
  BY DEF RenameClear, RenameRebuild, AdminClear, AdminRebuild, DocsInv
<1>6. fresh <= fresh /\ fresh <= fresh' /\ fresh' \in Nat
  BY <1>5
<1> QED
  BY <1>2, <1>21, <1>4, <1>5, <1>6, RewritesGrow, StepExtends

(* cancel_transition and retry_transition touch one that was not completed.   *)
LEMMA SettledAgain ==
  ASSUME DocumentsAssumption, DocsInv, NEW i \in Docs, NEW n \in Names,
         db.moves[i][n] # None, db.moves[i][n].status # "completed",
         NEW u \in Transition, u.key = db.moves[i][n].key,
         Handle([db EXCEPT !.moves = [db.moves EXCEPT ![i][n] = u]])
  PROVE  DocsInv' /\ Keeps
<1> DEFINE mw == [db.moves EXCEPT ![i][n] = u]
           e == [db EXCEPT !.moves = mw]
<1>1. /\ mw \in [Docs -> [Names -> Transition \cup {None}]]
      /\ \A j \in Docs, o \in Names :
           mw[j][o] = IF j = i /\ o = n THEN u ELSE db.moves[j][o]
  BY DEF DocsInv, Tables
<1>2. Handle(e)
  OBVIOUS
<1> HIDE DEF mw
<1>3. Descend(db.moves, mw)
  BY <1>1 DEF Descend
<1>4. /\ Tables(e) /\ e.moves = mw /\ e.archive = db.archive
      /\ e.docs = db.docs /\ e.stats = db.stats
  BY <1>1 DEF DocsInv, Tables
<1> HIDE DEF e
<1> QED
  BY <1>2, <1>3, <1>4, DescendGrow, SameCounts, Handled DEF Extends

LEMMA CancelTransitionKeeps ==
  ASSUME DocumentsAssumption, DocsInv, CancelTransition
  PROVE  DocsInv' /\ Keeps
<1>1. PICK i \in Docs, n \in Names :
        /\ db.moves[i][n] # None /\ db.moves[i][n].status = "pending"
        /\ Handle([db EXCEPT !.moves[i][n].status = "cancelled"])
  BY DEF CancelTransition
<1> DEFINE u == [db.moves[i][n] EXCEPT !.status = "cancelled"]
<1>2. db.moves[i][n] \in Transition
  BY <1>1 DEF DocsInv, Tables
<1>3. u \in Transition /\ u.key = db.moves[i][n].key
  BY <1>2 DEF Transition, Settled
<1>4. [db EXCEPT !.moves[i][n].status = "cancelled"]
      = [db EXCEPT !.moves = [db.moves EXCEPT ![i][n] = u]]
  OBVIOUS
<1>5. Handle([db EXCEPT !.moves = [db.moves EXCEPT ![i][n] = u]])
  BY <1>1, <1>4
<1> HIDE DEF u
<1> QED
  BY <1>1, <1>3, <1>5, SettledAgain

LEMMA RetryTransitionKeeps ==
  ASSUME DocumentsAssumption, DocsInv, RetryTransition
  PROVE  DocsInv' /\ Keeps
<1>1. PICK i \in Docs, n \in Names, at \in {now, now + 1} :
        /\ db.moves[i][n] # None /\ db.moves[i][n].status = "failed"
        /\ Handle([db EXCEPT !.moves[i][n].status = "pending", !.moves[i][n].at = at])
  BY DEF RetryTransition
<1> DEFINE u == [db.moves[i][n] EXCEPT !.status = "pending", !.at = at]
<1>2. db.moves[i][n] \in Transition /\ at \in Nat
  BY <1>1 DEF DocsInv, Tables
<1>3. u \in Transition /\ u.key = db.moves[i][n].key
  BY <1>2 DEF Transition, Settled
<1>4. [db EXCEPT !.moves[i][n].status = "pending", !.moves[i][n].at = at]
      = [db EXCEPT !.moves = [db.moves EXCEPT ![i][n] = u]]
  BY DEF DocsInv, Tables
<1>5. Handle([db EXCEPT !.moves = [db.moves EXCEPT ![i][n] = u]])
  BY <1>1, <1>4
<1> HIDE DEF u
<1> QED
  BY <1>1, <1>3, <1>5, SettledAgain

LEMMA ProcessDueKeeps ==
  ASSUME DocumentsAssumption, DocsInv, ProcessDue
  PROVE  DocsInv' /\ Keeps
<1>1. h' = [op |-> "due", todo |-> Due]
  BY DEF ProcessDue
<1>2. Holds(h')
  BY <1>1 DEF Holds
<1>3. /\ db' = db /\ effects' = effects /\ now' \in Nat /\ fresh' = fresh
      /\ drift' = drift
  BY DEF ProcessDue, DocsInv
<1> QED
  BY <1>2, <1>3, StepElsewhere

(* The transition of k takes the outcome as its status; its row may change.   *)
LEMMA RanOne ==
  ASSUME DocumentsAssumption, DocsInv, NEW key, NEW k \in Claim(db, key, now),
         NEW e, e = RunOne(db, k, now)
  PROVE  /\ Tables(e) /\ e.archive = db.archive /\ Counts(db, e)
         /\ \A j \in Docs, o \in Names :
              IF j = k[1] /\ o = k[2]
              THEN e.moves[j][o].key = key /\ e.moves[j][o].status = Outcome(db, k)
              ELSE e.moves[j][o] = db.moves[j][o]
<1> DEFINE i == k[1]
           n == k[2]
           t == db.moves[i][n]
           r == db.docs[i]
           out == Outcome(db, k)
           u == [t EXCEPT !.status = out]
           mw == [db.moves EXCEPT ![i][n] = u]
           marked == [db EXCEPT !.moves = mw]
           w == [r EXCEPT !.data = @ \cup t.update, !.size = SizeOf(r.data \cup t.update),
                          !.exp = IF t.ttl = None THEN @ ELSE Expiry(t.ttl, now)]
<1>1. /\ i \in Docs /\ n \in Names /\ t \in Transition /\ t.key = key
      /\ out \in Settled
  BY DEF Claim, DocsInv, Tables, Outcome, Settled
<1>2. u \in Transition /\ u.key = key /\ u.status = out
  BY <1>1 DEF Transition
<1>3. e = IF out # "completed" THEN marked ELSE WriteRow(marked, i, w)
  <2>1. [db EXCEPT !.moves[k[1]][k[2]].status = out] = marked
    OBVIOUS
  <2> QED
    BY <2>1 DEF RunOne
<1>4. out = "completed" => w \in Row /\ w.coll = r.coll /\ r # None
  <2> SUFFICES ASSUME out = "completed" PROVE w \in Row /\ w.coll = r.coll /\ r # None
    OBVIOUS
  <2>1. i \in Live(db, {i}, t.coll) /\ t.update # None
    BY DEF Outcome, Live
  <2>2. r \in Row /\ t.update \in Data /\ t.ttl \in Nat \cup {None}
    BY <1>1, <2>1 DEF Live, DocsInv, Tables, Transition
  <2>3. r.data \cup t.update \in Data
    BY <2>2 DEF Row, Data
  <2>4. SizeOf(r.data \cup t.update) \in Nat
    BY <2>3, Sizes
  <2>5. Expiry(t.ttl, now) \in Nat \cup {None}
    BY <2>2, Expires DEF DocsInv
  <2> HIDE DEF r, t
  <2> QED
    BY <2>2, <2>3, <2>4, <2>5, Absent DEF Row
<1>5. /\ mw \in [Docs -> [Names -> Transition \cup {None}]]
      /\ \A j \in Docs, o \in Names :
           mw[j][o] = IF j = i /\ o = n THEN u ELSE db.moves[j][o]
  BY <1>1, <1>2 DEF DocsInv, Tables
<1> HIDE DEF u, mw, t, r, out
<1>6. /\ Tables(marked) /\ marked.moves = mw /\ marked.archive = db.archive
      /\ marked.docs = db.docs /\ marked.stats = db.stats
  BY <1>5 DEF DocsInv, Tables
<1>61. r = db.docs[i]
  BY DEF r
<1> HIDE DEF marked, w
<1>7. Tables(e) /\ e.moves = mw /\ e.archive = db.archive /\ Counts(db, e)
  <2>0. Counts(db, marked)
    BY <1>6, SameCounts
  <2>1. CASE out # "completed"
    BY <1>3, <1>6, <2>0, <2>1
  <2>2. CASE out = "completed"
    <3>0. e = WriteRow(marked, i, w) /\ w \in Row /\ i \in Docs
      BY <1>1, <1>3, <1>4, <2>2
    <3>1. Rewrites(marked, e) /\ Counts(marked, e)
      <4>1. Tables(marked) /\ marked.docs[i] # None /\ w.coll = marked.docs[i].coll
        BY <1>4, <1>6, <1>61, <2>2
      <4>2. /\ Rewrites(marked, WriteRow(marked, i, w))
            /\ Counts(marked, WriteRow(marked, i, w))
        <5> HIDE DEF i
        <5> QED
          BY <3>0, <4>1, RowWritten, WrittenCounts
      <4> QED
        BY <3>0, <4>2
    <3> QED
      BY <1>6, <2>0, <3>1 DEF Rewrites, Counts
  <2> QED
    BY <2>1, <2>2
<1> QED
  BY <1>2, <1>5, <1>7 DEF out

LEMMA RunNextKeeps ==
  ASSUME DocumentsAssumption, DocsInv, RunNext
  PROVE  DocsInv' /\ Keeps
<1>1. fresh' = fresh /\ now' = now /\ now' \in Nat /\ fresh \in Nat /\ drift' = drift
  BY DEF RunNext, DocsInv
<1>2. Holds(h')
  <2>1. h = [op |-> "due", todo |-> h.todo]
    BY DEF RunNext, DocsInv, Holds
  <2>2. h' = Idle \/ \E key : h' = [h EXCEPT !.todo = @ \ {key}]
    BY DEF RunNext
  <2>3. h' = Idle \/ \E S : h' = [op |-> "due", todo |-> S]
    BY <2>1, <2>2
  <2> QED
    BY <2>3 DEF Holds, Idle
<1>3. CASE db' = db /\ effects' = effects
  BY <1>1, <1>2, <1>3, StepElsewhere
<1>4. CASE \E key, k : /\ k \in Claim(db, key, now) /\ db' = RunOne(db, k, now)
                       /\ effects' = [effects EXCEPT
                            ![key] = @ + (IF Outcome(db, k) = "completed" THEN 1 ELSE 0)]
  <2>1. PICK key, k : /\ k \in Claim(db, key, now) /\ db' = RunOne(db, k, now)
                      /\ effects' = [effects EXCEPT
                           ![key] = @ + (IF Outcome(db, k) = "completed" THEN 1 ELSE 0)]
    BY <1>4
  <2> DEFINE i == k[1]
             n == k[2]
             out == Outcome(db, k)
  <2>2. /\ i \in Docs /\ n \in Names /\ db.moves[i][n] # None /\ db.moves[i][n].key = key
        /\ db.moves[i][n].status = "pending"
    BY <2>1 DEF Claim
  <2>3. /\ Tables(db') /\ db'.archive = db.archive /\ Counts(db, db')
        /\ \A j \in Docs, o \in Names :
             IF j = i /\ o = n
             THEN db'.moves[j][o].key = key /\ db'.moves[j][o].status = out
             ELSE db'.moves[j][o] = db.moves[j][o]
    BY <2>1, RanOne
  <2>4. effects' = [effects EXCEPT ![key] = @ + (IF out = "completed" THEN 1 ELSE 0)]
    BY <2>1
  <2> HIDE DEF i, n, out
  <2>5. Keyed(db.moves, effects, fresh) /\ effects \in [Keys -> Nat]
    BY DEF DocsInv
  <2>6. key \in Keys => effects[key] = 0
    BY <2>2, <2>5 DEF Keyed
  <2>7. effects' \in [Keys -> Nat]
        /\ \A x \in Keys : effects'[x] = IF x = key /\ out = "completed" THEN 1 ELSE effects[x]
    <3> DEFINE inc == IF out = "completed" THEN 1 ELSE 0
    <3>1. inc \in {0, 1} /\ (inc = 1 <=> out = "completed")
      OBVIOUS
    <3>2. effects' = [effects EXCEPT ![key] = @ + inc]
      BY <2>4
    <3> HIDE DEF inc
    <3>3. CASE key \in Keys
      <4>1. effects' = [effects EXCEPT ![key] = inc]
        BY <2>5, <2>6, <3>1, <3>2, <3>3
      <4> QED
        BY <2>5, <2>6, <3>1, <3>3, <4>1
    <3>4. CASE key \notin Keys
      <4>1. effects' = effects
        BY <2>5, <3>2, <3>4
      <4> QED
        BY <2>5, <3>4, <4>1
    <3> QED
      BY <3>3, <3>4
  <2>8. Descend(db.moves, db'.moves)
    BY <2>2, <2>3 DEF Descend
  <2>9. Keyed(db'.moves, effects, fresh)
    BY <2>5, <2>8, KeyedDescend
  <2>10. Keyed(db'.moves, effects', fresh)
    <3>1. \A x \in Keys : effects'[x] \in {0, 1}
      BY <2>5, <2>7 DEF Keyed
    <3>2. ASSUME NEW x \in Keys, effects'[x] = 1
          PROVE  /\ x < fresh
                 /\ \A j \in Docs, o \in Names :
                      db'.moves[j][o] # None /\ db'.moves[j][o].key = x
                        => db'.moves[j][o].status = "completed"
      <4>1. CASE effects[x] = 1
        BY <2>9, <4>1 DEF Keyed
      <4>2. CASE effects[x] # 1
        <5>1. x = key /\ out = "completed"
          BY <2>7, <3>2, <4>2
        <5>2. x \in 1..(fresh - 1)
          BY <2>2, <2>5, <5>1 DEF Keyed
        <5>3. \A j \in Docs, o \in Names :
                db'.moves[j][o] # None /\ db'.moves[j][o].key = x => j = i /\ o = n
          BY <2>2, <2>3, <2>5, <5>1 DEF Keyed
        <5> QED
          BY <1>1, <2>3, <5>1, <5>2, <5>3
      <4> QED
        BY <4>1, <4>2
    <3> QED
      BY <2>9, <3>1, <3>2 DEF Keyed
  <2>11. DocsInv'
    BY <1>1, <1>2, <2>3, <2>7, <2>10, StepTallied DEF DocsInv
  <2>12. Keeps
    BY <2>3 DEF Keeps, Leaves
  <2> QED
    BY <2>11, <2>12
<1> QED
  BY <1>3, <1>4 DEF RunNext

(* The reaper's transaction: all versions but those that faded stay.          *)
LEMMA ReapedKeeps ==
  ASSUME DocumentsAssumption, DocsInv
  PROVE  /\ Tables(Reaped) /\ Descend(db.moves, Reaped.moves) /\ Counts(db, Reaped)
         /\ \A v \in db.archive : v \in Reaped.archive \/ (v.exp # None /\ v.exp <= now)
<1> DEFINE old == Expired(db, "archive")
           exp == Expiry(ArchiveTtl, now)
           kept == ArchiveAndDelete(db, old, fresh, exp)
           done == Expired(kept, "delete")
           gone == HardDelete(kept, done)
           left == gone.archive \ Fading(gone)
<1>1. Reaped = [gone EXCEPT !.archive = left]
  BY DEF Reaped
<1>2. old \in SUBSET Docs /\ \A i \in old : db.docs[i] \in Row
  BY DEF Expired, DocsInv, Tables
<1>3. exp \in Nat \cup {None}
  BY Expires DEF DocumentsAssumption, DocsInv
<1>4. kept = ArchiveAndDelete(db, old, fresh, exp) /\ done \in SUBSET Docs
  BY DEF Expired
<1> HIDE DEF kept, exp, old, done
<1>5. /\ Tables(kept) /\ Descend(db.moves, kept.moves) /\ db.archive \subseteq kept.archive
      /\ Counts(db, kept)
  <2>1. Tables(db) /\ fresh \in Nat
    BY DEF DocsInv
  <2> QED
    BY <1>2, <1>3, <1>4, <2>1, ArchivedRows
<1>6. /\ Tables(gone) /\ Descend(kept.moves, gone.moves) /\ gone.archive = kept.archive
      /\ Counts(kept, gone)
  BY <1>4, <1>5, HardDeleted
<1> HIDE DEF gone
<1>7. left \in SUBSET Version /\ IsFiniteSet(left)
      /\ \A v \in gone.archive : v \in left \/ (v.exp # None /\ v.exp <= now)
  BY <1>6, FS_Subset DEF Tables, Fading
<1> HIDE DEF left
<1>8. /\ Tables(Reaped) /\ Reaped.moves = gone.moves /\ Reaped.archive = left
      /\ Reaped.docs = gone.docs /\ Reaped.stats = gone.stats
  BY <1>1, <1>6, <1>7 DEF Tables
<1>9. Descend(db.moves, gone.moves)
  BY <1>5, <1>6 DEF Descend
<1>10. Counts(db, Reaped)
  BY <1>5, <1>6, <1>8, SameCounts DEF Counts
<1> QED
  BY <1>5, <1>6, <1>7, <1>8, <1>9, <1>10

LEMMA ReapsKeep ==
  ASSUME DocumentsAssumption, DocsInv, Reap \/ ReapDb
  PROVE  DocsInv' /\ Keeps
<1>1. db' = Reaped /\ effects' = effects /\ now' = now
      /\ fresh' \in {fresh, fresh + 1} /\ (h' = h \/ h' = [op |-> "reaped"])
      /\ drift' = drift
  BY DEF Reap, ReapDb
<1>2. /\ Tables(db') /\ Descend(db.moves, db'.moves) /\ Counts(db, db')
      /\ \A v \in db.archive : v \in db'.archive \/ (v.exp # None /\ v.exp <= now)
  BY <1>1, ReapedKeeps
<1>3. Holds(h')
  BY <1>1 DEF Holds, DocsInv
<1>4. fresh \in Nat /\ fresh' \in Nat \ {0} /\ fresh <= fresh'
  BY <1>1 DEF DocsInv
<1>5. Keyed(db'.moves, effects', fresh')
  <2>1. Keyed(db'.moves, effects, fresh)
    BY <1>2, KeyedDescend DEF DocsInv
  <2> QED
    BY <1>1, <1>4, <2>1, KeyedLater
<1>6. DocsInv'
  BY <1>1, <1>2, <1>3, <1>4, <1>5, StepTallied DEF DocsInv
<1>7. Keeps
  BY <1>2 DEF Keeps, Leaves
<1> QED
  BY <1>6, <1>7

LEMMA ImportKeeps ==
  ASSUME DocumentsAssumption, DocsInv, Import
  PROVE  DocsInv' /\ Keeps
<1>1. PICK i \in Docs, c \in Colls, v \in Inputs, mode \in {"error", "skip", "replace", "merge"} :
        /\ db' = ImportRow(db, [id |-> i, coll |-> c, data |-> v, onConflict |-> mode]).db
        /\ drift' = (drift \/ (mode = "replace" /\ db.docs[i] # None))
  BY DEF Import
<1> DEFINE o == [id |-> i, coll |-> c, data |-> v, onConflict |-> mode]
           r == db.docs[i]
           new == NewRow(c, v, [ttl |-> None, beh |-> "archive"], 0)
           merged == Written(r, "patch", v)
<1>2. v \in Data
  BY DEF DocumentsAssumption
<1>3. new \in Row
  <2>1. [ttl |-> None, beh |-> "archive"] \in [ttl : Nat \cup {None}, beh : {"archive", "delete"}]
    OBVIOUS
  <2> QED
    BY <1>2, <2>1, NewRowType
<1>4. r # None => merged \in Row /\ merged.coll = r.coll
  <2>1. r # None => r \in Row
    BY DEF DocsInv, Tables
  <2>2. r \in Row => merged \in Row /\ merged.coll = r.coll
    <3>1. r \in Row => merged.coll = r.coll
      BY DEF Written, Row
    <3> QED
      BY <1>2, <3>1, WrittenType
  <2> QED
    BY <2>1, <2>2
<1>5. \/ db' = db
      \/ (r = None \/ mode = "replace") /\ db' = InsertRow(db, i, new)
      \/ r # None /\ db' = WriteRow(db, i, merged)
  <2> HIDE DEF new, merged
  <2> QED
    BY <1>1 DEF ImportRow, Done, Failed, ReplaceRow, new, merged
<1>51. r = db.docs[i] /\ Tables(db)
  BY DEF DocsInv
<1> HIDE DEF new, merged, r
<1>6. Rewrites(db, db')
  <2>1. Tables(db) /\ Rewrites(db, db)
    BY DEF DocsInv, Rewrites
  <2>2. Rewrites(db, InsertRow(db, i, new))
    BY <1>3, <2>1, RowInserted
  <2>3. r # None => Rewrites(db, WriteRow(db, i, merged))
    BY <1>4, <2>1, RowWritten
  <2> QED
    BY <1>5, <2>1, <2>2, <2>3
<1>7. /\ fresh' = fresh + 1 /\ now' = now /\ h' = h /\ effects' = effects
      /\ fresh \in Nat /\ now \in Nat
  BY DEF Import, DocsInv
<1>8. Holds(h') /\ now' \in Nat /\ fresh' \in Nat /\ fresh <= fresh /\ fresh <= fresh'
  BY <1>7 DEF DocsInv
<1>9. Tallied'
  <2>1. drift' \in BOOLEAN /\ (drift => drift')
    BY <1>1 DEF DocsInv, Tallied
  <2>2. r = None => Counts(db, InsertRow(db, i, new))
    BY <1>3, <1>51, InsertedCounts
  <2>3. r # None => Counts(db, WriteRow(db, i, merged))
    BY <1>4, <1>51, WrittenCounts
  <2>4. ASSUME ~drift' PROVE Counts(db, db')
    <3>1. r = None \/ mode # "replace"
      BY <1>1, <1>51, <2>4
    <3>2. Counts(db, db)
      BY DEF Counts
    <3> QED
      BY <1>5, <2>2, <2>3, <3>1, <3>2
  <2> QED
    BY <2>1, <2>4 DEF DocsInv, Tallied, Counts
<1> QED
  BY <1>6, <1>7, <1>8, <1>9, RewritesGrow, StepExtends

LEMMA CrashKeeps ==
  ASSUME DocumentsAssumption, DocsInv, Crash
  PROVE  DocsInv' /\ Keeps
<1>1. /\ db' = db /\ effects' = effects /\ now' \in Nat /\ fresh' = fresh /\ h' = Idle
      /\ drift' = drift
  BY DEF Crash, DocsInv
<1>2. Holds(h')
  BY <1>1 DEF Holds, Idle
<1> QED
  BY <1>1, <1>2, StepElsewhere

LEMMA TickKeeps ==
  ASSUME DocumentsAssumption, DocsInv, Tick
  PROVE  DocsInv' /\ Keeps
<1>1. /\ db' = db /\ effects' = effects /\ now' \in Nat /\ fresh' = fresh /\ h' = h
      /\ drift' = drift
  BY DEF Tick, DocsInv
<1>2. Holds(h')
  BY <1>1 DEF DocsInv
<1> QED
  BY <1>1, <1>2, StepElsewhere

LEMMA DocsNextKeeps ==
  ASSUME DocumentsAssumption, DocsInv, [Next]_vars
  PROVE  DocsInv' /\ (Keeps \/ UNCHANGED vars)
<1>1. CASE UNCHANGED vars
  BY <1>1 DEF vars, DocsInv, Tallied, Holds
<1>2. CASE Insert
  BY <1>2, CreateKeeps DEF Insert
<1>3. CASE Upsert
  BY <1>3, CreateKeeps DEF Upsert
<1>4. CASE Update \/ UpdateMany
  BY <1>4, UpdateKeeps
<1>5. CASE FindForAttach
  BY <1>5, FindForAttachKeeps
<1>6. CASE AttachFound
  BY <1>6, AttachFoundKeeps
<1>7. CASE Delete
  BY <1>7, DeleteKeeps
<1>8. CASE DropNamespace
  BY <1>8, DropNamespaceKeeps
<1>9. CASE SetTtl
  BY <1>9, SetTtlKeeps
<1>10. CASE Transaction
  BY <1>10, TransactionKeeps
<1>11. CASE RestoreArchive
  BY <1>11, RestoreArchiveKeeps
<1>12. CASE PurgeSelect
  BY <1>12, PurgeSelectKeeps
<1>13. CASE PurgeVersions
  BY <1>13, PurgeVersionsKeeps
<1>14. CASE PurgeTransitions
  BY <1>14, PurgeTransitionsKeeps
<1>15. CASE ChangeSelect
  BY <1>15, ChangeSelectKeeps
<1>16. CASE ChangeNamespace
  BY <1>16, ChangeNamespaceKeeps
<1>17. CASE RenameNamespace
  BY <1>17, RenameNamespaceKeeps
<1>18. CASE RenameClear \/ RenameRebuild \/ AdminClear \/ AdminRebuild
  BY <1>18, RecomputeKeeps
<1>19. CASE CancelTransition
  BY <1>19, CancelTransitionKeeps
<1>20. CASE RetryTransition
  BY <1>20, RetryTransitionKeeps
<1>21. CASE ProcessDue
  BY <1>21, ProcessDueKeeps
<1>22. CASE RunNext
  BY <1>22, RunNextKeeps
<1>23. CASE Reap \/ ReapDb
  BY <1>23, ReapsKeep
<1>24. CASE Import
  BY <1>24, ImportKeeps
<1>25. CASE Crash
  BY <1>25, CrashKeeps
<1>26. CASE Tick
  BY <1>26, TickKeeps
<1> QED
  BY <1>1, <1>2, <1>3, <1>4, <1>5, <1>6, <1>7, <1>8, <1>9, <1>10, <1>11, <1>12, <1>13, <1>14,
     <1>15, <1>16, <1>17, <1>18, <1>19, <1>20, <1>21, <1>22, <1>23, <1>24, <1>25, <1>26
  DEF Next

(* A scheduled transition changes its document at most once, through every    *)
(* tick, retry, crash and replacement by name                                 *)
(* (run_one_document_transition, lifecycle_ops.rs).                           *)
THEOREM TransitionsAppliedOnce ==
  ASSUME DocumentsAssumption
  PROVE  Spec => []AppliedOnce
<1>1. Init => DocsInv
  BY DocsInit
<1>2. DocsInv /\ [Next]_vars => DocsInv'
  BY DocsNextKeeps
<1>3. DocsInv => AppliedOnce
  BY DEF DocsInv, Keyed, AppliedOnce
<1> QED
  BY <1>1, <1>2, <1>3, PTL DEF Spec

(* A version leaves the archive only by purge_archive, by its expiry, or by a *)
(* restore that made a version of its document live again (archive_ops.rs,    *)
(* reaper.rs).                                                                *)
THEOREM ArchiveAlwaysKept ==
  ASSUME DocumentsAssumption
  PROVE  Spec => ArchiveKept
<1>1. Init => DocsInv
  BY DocsInit
<1>2. DocsInv /\ [Next]_vars => DocsInv'
  BY DocsNextKeeps
<1>3. DocsInv /\ [Next]_vars => [Keeps]_vars
  BY DocsNextKeeps
<1>4. Spec => [][Keeps]_vars
  BY <1>1, <1>2, <1>3, PTL DEF Spec
<1> QED
  BY <1>4, PTL DEF ArchiveKept, Keeps

(* The counters of every namespace are those of its live rows, until a        *)
(* statement that cannot know them writes (the triggers of                    *)
(* storage/schema.rs, and every handler between them).                        *)
THEOREM CountersAlwaysMatch ==
  ASSUME DocumentsAssumption
  PROVE  Spec => []CountersMatch
<1>1. Init => DocsInv
  BY DocsInit
<1>2. DocsInv /\ [Next]_vars => DocsInv'
  BY DocsNextKeeps
<1>3. DocsInv => CountersMatch
  BY DEF DocsInv, Tallied, Tally, TallyAt, In, CountersMatch
<1> QED
  BY <1>1, <1>2, <1>3, PTL DEF Spec
==============================================================================
