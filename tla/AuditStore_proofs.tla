------------------------- MODULE AuditStore_proofs -------------------------
(***************************************************************************)
(* For any number of writers, any cap and any bounds: writes that all came *)
(* to their end leave no hash the index does not name, no hash older than  *)
(* its event, an index within the cap, and -- unless two trims crossed --  *)
(* exactly the newest events in it.                                        *)
(***************************************************************************)
EXTENDS AuditStore, FiniteSetTheorems, TLAPS

(***************************************************************************)
(* Counting in finite sets of events                                       *)
(***************************************************************************)

\* The naturals are well-founded: what stands in for an induction below.
LEMMA Minimum ==
    ASSUME NEW S \in SUBSET Nat, S # {}
    PROVE  \E m \in S : \A e \in S : m <= e
<1>1. PICK m \in S : \A e \in S : <<e, m>> \notin OpToRel(<, Nat)
  BY NatLessThanWellFounded, WFMin, Zenon
<1>2. \A e \in S : ~(e < m) BY <1>1 DEF OpToRel
<1> QED BY <1>2

\* So does a finite set of events have a newest one.
LEMMA Maximum ==
    ASSUME NEW n \in Nat, NEW S \in SUBSET (1 .. n), S # {}
    PROVE  \E m \in S : \A e \in S : e <= m
<1> DEFINE Bounds == {b \in Nat : \A e \in S : e <= b}
<1>1. n \in Bounds OBVIOUS
<1>2. PICK m \in Bounds : \A b \in Bounds : m <= b BY <1>1, Minimum
<1>3. m \in S
  <2> SUFFICES ASSUME m \notin S PROVE FALSE OBVIOUS
  <2>1. \A e \in S : e < m BY <1>2
  <2>2. PICK e \in S : e < m BY <2>1
  <2>3. m - 1 \in Bounds BY <2>1, <2>2
  <2> QED BY <2>3, <1>2
<1> QED BY <1>2, <1>3

\* How many of S are older than e.
Rank(S, e) == Cardinality({d \in S : d < e})

\* Sets of events are finite, and counting them gives numbers.
LEMMA RankFacts ==
    ASSUME NEW n \in Nat, NEW S \in SUBSET (1 .. n)
    PROVE  /\ IsFiniteSet(S) /\ Cardinality(S) \in Nat
           /\ \A T \in SUBSET S : /\ IsFiniteSet(T) /\ Cardinality(T) \in Nat
                                  /\ Cardinality(T) <= Cardinality(S)
           /\ \A e : Rank(S, e) \in Nat
<1>1. IsFiniteSet(S)
  <2>1. IsFiniteSet(1 .. n) BY FS_Interval
  <2> QED BY <2>1, FS_Subset
<1>2. \A T \in SUBSET S : /\ IsFiniteSet(T) /\ Cardinality(T) <= Cardinality(S)
  BY <1>1, FS_Subset
<1>3. \A T \in SUBSET S : Cardinality(T) \in Nat BY <1>2, FS_CardinalityType
<1>4. \A e : {d \in S : d < e} \in SUBSET S OBVIOUS
<1> QED BY <1>1, <1>2, <1>3, <1>4 DEF Rank

\* The rank counts those before: it grows along the set.
LEMMA RankGrows ==
    ASSUME NEW n \in Nat, NEW S \in SUBSET (1 .. n), NEW d \in S, NEW e \in 1 .. n, d < e
    PROVE  Rank(S, d) + 1 <= Rank(S, e)
<1> DEFINE P == {c \in S : c < d}  Q == {c \in S : c < e}
<1>1. Cardinality(P \cup {d}) = Cardinality(P) + 1
  <2>1. P \in SUBSET S /\ d \notin P OBVIOUS
  <2>2. IsFiniteSet(P) BY <2>1, RankFacts
  <2> QED BY <2>1, <2>2, FS_AddElement
<1>2. P \cup {d} \subseteq Q
  <2>1. \A c \in S : c \in Int /\ (c < d => c < e) OBVIOUS
  <2> QED BY <2>1
<1>3. IsFiniteSet(Q)
  <2>1. Q \in SUBSET S OBVIOUS
  <2> QED BY <2>1, RankFacts
<1>4. Cardinality(P \cup {d}) <= Cardinality(Q) BY <1>2, <1>3, FS_Subset
<1> QED BY <1>1, <1>4 DEF Rank

\* One more element adds at most one to a rank, and nothing to the rank of one before it.
LEMMA RankAdd ==
    ASSUME NEW n \in Nat, NEW S \in SUBSET (1 .. n), NEW d \in 1 .. n, NEW e \in 1 .. n
    PROVE  /\ Rank(S, d) <= Rank(S \cup {e}, d) /\ Rank(S \cup {e}, d) <= Rank(S, d) + 1
           /\ e >= d => Rank(S \cup {e}, d) = Rank(S, d)
<1> DEFINE P == {c \in S : c < d}  Q == {c \in S \cup {e} : c < d}
<1>1. CASE e < d
  <2>1. Q = P \cup {e} BY <1>1
  <2>2. IsFiniteSet(P) /\ Cardinality(P) \in Nat BY RankFacts
  <2> QED BY <1>1, <2>1, <2>2, FS_AddElement DEF Rank
<1>2. CASE e >= d
  <2>1. Q = P BY <1>2
  <2>2. Cardinality(P) \in Nat BY RankFacts
  <2> QED BY <2>1, <2>2 DEF Rank
<1> QED BY <1>1, <1>2

\* A rank in fewer events is no higher.
LEMMA RankSubset ==
    ASSUME NEW n \in Nat, NEW S \in SUBSET (1 .. n), NEW T \in SUBSET S, NEW d \in 1 .. n
    PROVE  Rank(T, d) <= Rank(S, d)
<1>1. {c \in T : c < d} \subseteq {c \in S : c < d} OBVIOUS
<1>2. IsFiniteSet({c \in S : c < d}) BY RankFacts
<1> QED BY <1>1, <1>2, FS_Subset DEF Rank

\* What zRange 0 .. x - 1 returns: x of them, if there are that many.
LEMMA OldestCount ==
    ASSUME NEW n \in Nat, NEW S \in SUBSET (1 .. n), NEW x \in Nat
    PROVE  /\ Cardinality(Oldest(S, x)) <= x
           /\ x <= Cardinality(S) => Cardinality(S \ Oldest(S, x)) = Cardinality(S) - x
<1> DEFINE O == Oldest(S, x)
<1>0. /\ O \in SUBSET (1 .. n) /\ O \in SUBSET S /\ S \ O \in SUBSET S
      /\ O = {e \in S : Rank(S, e) < x}
  BY DEF Oldest, Rank
<1>1. /\ IsFiniteSet(S) /\ IsFiniteSet(O) /\ Cardinality(O) \in Nat
      /\ Cardinality(S) \in Nat /\ Cardinality(S \ O) \in Nat
  BY <1>0, RankFacts
<1>2. Cardinality(O) <= x
  <2>1. CASE O = {} BY <2>1, FS_EmptySet
  <2>2. CASE O # {}
    <3>1. PICK m \in O : \A e \in O : e <= m BY <1>0, <2>2, Maximum
    <3> DEFINE P == {c \in S : c < m}
    <3>2. O \subseteq P \cup {m} BY <1>0, <3>1
    <3>3. IsFiniteSet(P) /\ Cardinality(P) \in Nat /\ Cardinality(P) < x /\ m \notin P
      <4>1. P \in SUBSET S /\ m \notin P BY <1>0
      <4>2. Rank(S, m) < x BY <1>0
      <4> QED BY <4>1, <4>2, RankFacts DEF Rank
    <3>4. IsFiniteSet(P \cup {m}) /\ Cardinality(P \cup {m}) = Cardinality(P) + 1
      BY <3>3, FS_AddElement
    <3>5. Cardinality(O) <= Cardinality(P \cup {m}) BY <3>2, <3>4, FS_Subset
    <3> QED BY <1>1, <3>3, <3>4, <3>5
  <2> QED BY <2>1, <2>2
<1>3. ASSUME x <= Cardinality(S) PROVE Cardinality(S \ O) <= Cardinality(S) - x
  <2>1. CASE S \ O = {}
    <3>1. Cardinality(S \ O) = 0 BY <2>1, FS_EmptySet
    <3> QED BY <1>3, <1>1, <3>1
  <2>2. CASE S \ O # {}
    <3>1. PICK m \in S \ O : \A e \in S \ O : m <= e
      <4>1. S \ O \in SUBSET Nat
        <5>1. \A e \in S : e \in Nat OBVIOUS
        <5> QED BY <5>1
      <4> QED BY <2>2, <4>1, Minimum
    <3> DEFINE P == {c \in S : c < m}
    <3>2. P \subseteq O
      <4>1. \A c \in S : c < m => ~(m <= c) OBVIOUS
      <4> QED BY <3>1, <4>1
    <3>3. IsFiniteSet(P) /\ Cardinality(P) \in Nat /\ Cardinality(P) >= x
      <4>1. P \in SUBSET S OBVIOUS
      <4>2. Rank(S, m) \in Nat /\ ~(Rank(S, m) < x) BY <1>0, RankFacts
      <4>3. Rank(S, m) = Cardinality(P) BY DEF Rank
      <4>4. IsFiniteSet(P) BY <4>1, RankFacts
      <4> QED BY <4>2, <4>3, <4>4
    <3>4. Cardinality(O) >= Cardinality(P) BY <3>2, <1>1, FS_Subset
    <3>5. Cardinality(S \ O) = Cardinality(S) - Cardinality(S \cap O) /\ S \cap O = O
      BY <1>0, <1>1, FS_Difference
    <3> QED BY <1>1, <3>3, <3>4, <3>5
  <2> QED BY <2>1, <2>2
<1>4. Cardinality(S \ O) = Cardinality(S) - Cardinality(O)
  <2>1. S \cap O = O BY <1>0
  <2> QED BY <2>1, <1>1, FS_Difference
<1> QED BY <1>1, <1>2, <1>3, <1>4

(***************************************************************************)
(* The invariant                                                           *)
(***************************************************************************)

\* A writer works on an event that was created.
JobInv == \A w \in Writers : step[w] # "idle" => event[w] \in 1 .. created

\* Who still owes e something: its place in the index, the end of its hash, the
\* hash itself.
Unindexed(e) == \E w \in Writers : step[w] = "index" /\ event[w] = e
Doomed(e) == \E w \in Writers : step[w] = "delete" /\ e \in stale[w]
Unwritten(e) == \E w \in Writers : step[w] = "hash" /\ event[w] = e

NamedInv == \A e \in Ids : stored[e] # 0 => e \in index \/ Unindexed(e) \/ Doomed(e)

LatestInv == \A e \in Ids : stored[e] = 0 \/ stored[e] = version[e] \/ Unwritten(e)

IInv == TypeOK /\ JobInv /\ (faults = 0 => NamedInv /\ LatestInv)

\* Counting the index gives a number.
LEMMA IndexCount == ASSUME TypeOK PROVE Cardinality(index) \in Nat
<1>1. IsFiniteSet(Ids) /\ index \subseteq Ids
  BY BoundsAssumption, FS_Interval DEF Ids, TypeOK
<1>2. IsFiniteSet(index) BY <1>1, FS_Subset
<1> QED BY <1>2, FS_CardinalityType

(***************************************************************************)
(* Types, and what a writer works on                                       *)
(***************************************************************************)

LEMMA BeginType ==
    ASSUME TypeOK, JobInv, NEW w \in Writers, Create(w) \/ Patch(w)
    PROVE  TypeOK' /\ JobInv'
<1>1. PICK e : Begin(w, e) /\ e \in 1 .. created' /\ created' \in created .. writes + 1
  <2>1. CASE Create(w)
    BY <2>1 DEF Create, TypeOK
  <2>2. CASE Patch(w)
    <3>1. PICK e \in handles : Begin(w, e) BY <2>2 DEF Patch
    <3> QED BY <2>2, <3>1 DEF Patch, TypeOK
  <2> QED BY <2>1, <2>2
<1>2. /\ writes' = writes + 1 /\ writes' \in 0 .. MaxWrites
      /\ created' \in 0 .. writes' /\ 1 .. created \subseteq 1 .. created'
      /\ 0 .. writes \subseteq 0 .. writes' /\ e \in Ids
  BY <1>1, BoundsAssumption DEF Begin, TypeOK, Ids
<1>3. version' \in [Ids -> 0 .. writes']
  <2>1. version' = [version EXCEPT ![e] = @ + 1] /\ version[e] + 1 \in 0 .. writes'
    BY <1>1, <1>2 DEF Begin, TypeOK
  <2>2. \A d \in Ids : version[d] \in 0 .. writes' BY <1>2 DEF TypeOK
  <2> QED BY <1>2, <2>1, <2>2 DEF TypeOK
<1>4. stored' \in [Ids -> 0 .. writes'] BY <1>1, <1>2 DEF Begin, TypeOK
<1>5. /\ step' \in [Writers -> Steps] /\ event' \in [Writers -> 0 .. created']
      /\ handles' \subseteq 1 .. created'
  BY <1>1, <1>2 DEF Begin, TypeOK, Steps
<1>6. /\ UNCHANGED <<index, excess, stale, faults>> /\ crossed' = crossed
  BY <1>1 DEF Begin
<1>7. JobInv' BY <1>1, <1>2 DEF Begin, TypeOK, JobInv
<1>8. crossed' \in BOOLEAN BY <1>6, Zenon DEF TypeOK
<1> QED BY <1>2, <1>3, <1>4, <1>5, <1>6, <1>7, <1>8 DEF TypeOK

LEMMA LeaveType ==
    ASSUME TypeOK, JobInv, NEW w \in Writers, Leave(w)
    PROVE  /\ step' \in [Writers -> Steps] /\ event' \in [Writers -> 0 .. created]
           /\ excess' \in [Writers -> Nat] /\ stale' \in [Writers -> SUBSET Ids]
           /\ \A v \in Writers : step'[v] # "idle" => event'[v] \in 1 .. created
BY DEF TypeOK, JobInv, Leave, Steps

LEMMA WriteType ==
    ASSUME TypeOK, JobInv, NEW w \in Writers, WriteHash(w) \/ AddToIndex(w)
    PROVE  TypeOK' /\ JobInv'
<1> USE BoundsAssumption DEF TypeOK, JobInv, Ids, Steps, Goto, objects
<1>1. CASE WriteHash(w) BY <1>1 DEF WriteHash
<1>2. CASE AddToIndex(w)
  <2>1. event[w] \in Ids BY <1>2 DEF AddToIndex
  <2> QED BY <1>2, <2>1 DEF AddToIndex
<1> QED BY <1>1, <1>2

LEMMA CountType ==
    ASSUME TypeOK, JobInv, NEW w \in Writers, Count(w)
    PROVE  TypeOK' /\ JobInv'
<1>1. /\ step[w] = "count"
      /\ UNCHANGED <<writes, created, version, stored, index, faults>>
  BY DEF Count, objects
<1>2. crossed' \in BOOLEAN BY Zenon DEF Count, TypeOK
<1>3. CASE Return(w)
  BY <1>1, <1>2, <1>3, LeaveType DEF Return, TypeOK, JobInv
<1>4. CASE /\ Cardinality(index) > MaxEvents
           /\ excess' = [excess EXCEPT ![w] = Cardinality(index) - MaxEvents]
           /\ Goto(w, "range") /\ UNCHANGED <<handles, stale>>
  <2>1. Cardinality(index) - MaxEvents \in Nat
    BY <1>4, IndexCount, MaxEventsAssumption
  <2> QED BY <1>1, <1>2, <1>4, <2>1 DEF Goto, TypeOK, JobInv, Steps
<1> QED BY <1>3, <1>4 DEF Count

LEMMA TrimType ==
    ASSUME TypeOK, JobInv, NEW w \in Writers,
           ListStale(w) \/ RemoveFromIndex(w) \/ DeleteHashes(w) \/ Fail(w)
    PROVE  TypeOK' /\ JobInv'
<1>1. CASE ListStale(w)
  <2>1. CASE Return(w)
    BY <1>1, <2>1, LeaveType DEF ListStale, Return, TypeOK, JobInv, objects
  <2>2. CASE /\ stale' = [stale EXCEPT ![w] = Oldest(index, excess[w])]
             /\ Goto(w, "remove") /\ UNCHANGED <<handles, excess>>
    <3>1. Oldest(index, excess[w]) \subseteq Ids BY DEF Oldest, TypeOK
    <3> QED BY <1>1, <2>2, <3>1 DEF ListStale, Goto, TypeOK, JobInv, Steps, objects
  <2> QED BY <1>1, <2>1, <2>2 DEF ListStale
<1>2. CASE RemoveFromIndex(w)
  BY <1>2 DEF RemoveFromIndex, Goto, TypeOK, JobInv, Steps, objects
<1>3. CASE DeleteHashes(w)
  <2>1. /\ Return(w) /\ step[w] = "delete"
        /\ UNCHANGED <<writes, created, version, index, faults>> /\ crossed' = crossed
        /\ stored' = [e \in Ids |-> IF e \in stale[w] THEN 0 ELSE stored[e]]
    BY <1>3, Zenon DEF DeleteHashes, objects
  <2>2. stored' \in [Ids -> 0 .. writes] BY <2>1 DEF TypeOK
  <2>3. handles' \subseteq 1 .. created BY <2>1 DEF Return, TypeOK, JobInv
  <2>4. crossed' \in BOOLEAN BY <2>1, Zenon DEF TypeOK
  <2> QED BY <2>1, <2>2, <2>3, <2>4, LeaveType DEF Return, TypeOK, JobInv
<1>4. CASE Fail(w)
  BY <1>4, LeaveType, BoundsAssumption DEF Fail, TypeOK, JobInv, objects
<1> QED BY <1>1, <1>2, <1>3, <1>4

(***************************************************************************)
(* Hashes, the index, and who owes what                                    *)
(***************************************************************************)

LEMMA BeginNames ==
    ASSUME TypeOK, JobInv, NamedInv, LatestInv, NEW w \in Writers, Create(w) \/ Patch(w)
    PROVE  NamedInv' /\ LatestInv'
<1>1. PICK f : Begin(w, f) BY DEF Create, Patch
<1>2. /\ step[w] = "idle" /\ UNCHANGED <<stored, index, stale>>
      /\ step' = [step EXCEPT ![w] = "hash"]
      /\ event' = [event EXCEPT ![w] = f]
      /\ version' = [version EXCEPT ![f] = @ + 1]
  BY <1>1 DEF Begin
<1>3. NamedInv'
  BY <1>2 DEF NamedInv, Unindexed, Doomed, TypeOK
<1>4. LatestInv'
  BY <1>2 DEF LatestInv, Unwritten, TypeOK
<1> QED BY <1>3, <1>4

LEMMA WriteNames ==
    ASSUME TypeOK, JobInv, NamedInv, LatestInv, NEW w \in Writers,
           WriteHash(w) \/ AddToIndex(w)
    PROVE  NamedInv' /\ LatestInv'
<1> USE DEF TypeOK, JobInv, NamedInv, LatestInv, Unindexed, Doomed, Unwritten, Goto,
            objects
<1>1. CASE WriteHash(w) BY <1>1 DEF WriteHash
<1>2. CASE AddToIndex(w) BY <1>2 DEF AddToIndex
<1> QED BY <1>1, <1>2

\* A step that only moves a writer on, from a point where it owes nothing.
LEMMA MoveNames ==
    ASSUME TypeOK, NamedInv, LatestInv, NEW w \in Writers,
           UNCHANGED <<version, stored, index>>,
           step[w] \in {"count", "range"},
           \A v \in Writers \ {w} : /\ step'[v] = step[v] /\ event'[v] = event[v]
                                    /\ stale'[v] = stale[v]
    PROVE  NamedInv' /\ LatestInv'
BY DEF NamedInv, LatestInv, Unindexed, Doomed, Unwritten

LEMMA CountNames ==
    ASSUME TypeOK, JobInv, NamedInv, LatestInv, NEW w \in Writers,
           Count(w) \/ ListStale(w)
    PROVE  NamedInv' /\ LatestInv'
<1>1. step[w] \in {"count", "range"} /\ UNCHANGED <<version, stored, index>>
  BY DEF Count, ListStale, objects
<1>2. \A v \in Writers \ {w} : /\ step'[v] = step[v] /\ event'[v] = event[v]
                               /\ stale'[v] = stale[v]
  BY DEF Count, ListStale, Return, Leave, Goto, TypeOK
<1> QED BY <1>1, <1>2, MoveNames

LEMMA TrimNames ==
    ASSUME TypeOK, JobInv, NamedInv, LatestInv, NEW w \in Writers,
           RemoveFromIndex(w) \/ DeleteHashes(w)
    PROVE  NamedInv' /\ LatestInv'
<1> USE DEF TypeOK, NamedInv, LatestInv, Unindexed, Doomed, Unwritten
<1>1. CASE RemoveFromIndex(w) BY <1>1 DEF RemoveFromIndex, Goto, objects
<1>2. CASE DeleteHashes(w)
  <2>1. /\ step[w] = "delete" /\ UNCHANGED <<version, index>>
        /\ \A v \in Writers \ {w} : /\ step'[v] = step[v] /\ event'[v] = event[v]
                                    /\ stale'[v] = stale[v]
        /\ \A e \in Ids : stored'[e] = IF e \in stale[w] THEN 0 ELSE stored[e]
    BY <1>2 DEF DeleteHashes, Return, Leave, objects
  <2> QED BY <2>1
<1> QED BY <1>1, <1>2

LEMMA StepKeeps ==
    ASSUME IInv, NEW w \in Writers,
           \/ Create(w) \/ Patch(w) \/ WriteHash(w) \/ AddToIndex(w) \/ Count(w)
           \/ ListStale(w) \/ RemoveFromIndex(w) \/ DeleteHashes(w) \/ Fail(w)
    PROVE  IInv'
<1> USE DEF IInv
<1>1. TypeOK' /\ JobInv' BY BeginType, WriteType, CountType, TrimType
<1>2. CASE Fail(w)
  <2>1. faults' # 0 BY <1>2 DEF Fail, TypeOK
  <2> QED BY <1>1, <2>1
<1>3. CASE ~Fail(w)
  <2>1. faults' = faults
    BY <1>3 DEF Create, Patch, Begin, WriteHash, AddToIndex, Count, ListStale,
                RemoveFromIndex, DeleteHashes
  <2>2. faults = 0 => NamedInv' /\ LatestInv'
    BY <1>3, BeginNames, WriteNames, CountNames, TrimNames
  <2> QED BY <1>1, <2>1, <2>2
<1> QED BY <1>2, <1>3

\* Every reachable state satisfies the invariant above.
THEOREM AuditInvariant == Spec => []IInv
<1>1. Init => IInv
  <2> SUFFICES ASSUME Init PROVE IInv OBVIOUS
  <2>1. crossed \in BOOLEAN BY Zenon DEF Init
  <2>2. TypeOK BY <2>1, BoundsAssumption DEF Init, TypeOK, Steps
  <2> QED BY <2>2 DEF Init, IInv, JobInv, NamedInv, LatestInv
<1>2. IInv /\ [Next]_vars => IInv'
  <2> SUFFICES ASSUME IInv, [Next]_vars PROVE IInv' OBVIOUS
  <2>1. CASE UNCHANGED vars
    BY <2>1 DEF vars, objects, job, IInv, TypeOK, JobInv, NamedInv, LatestInv,
                Unindexed, Doomed, Unwritten
  <2>2. CASE Next BY <2>2, StepKeeps DEF Next
  <2> QED BY <2>1, <2>2
<1> QED BY <1>1, <1>2, PTL DEF Spec

\* Every variable keeps its type: no version outruns the writes, no job its events.
THEOREM TypesKept == Spec => []TypeOK
BY AuditInvariant, PTL DEF IInv

\* For any number of writers of audit events and any cap, writes that came to their
\* end leave no hash that the index does not name.
THEOREM NoHashLeaks == Spec => []NothingLeaks
<1>1. IInv => NothingLeaks
  BY DEF IInv, NamedInv, Unindexed, Doomed, NothingLeaks, Quiet, AtRest
<1> QED BY <1>1, AuditInvariant, PTL

\* Whatever writes of one event overlap, its hash is its last version or is gone.
THEOREM LastVersionStays == Spec => []StoredIsLatest
<1>1. IInv => StoredIsLatest
  BY DEF IInv, LatestInv, Unwritten, StoredIsLatest, Quiet, AtRest
<1> QED BY <1>1, AuditInvariant, PTL

(***************************************************************************)
(* The cap                                                                 *)
(***************************************************************************)

Trimmers == {w \in Writers : Trimming(w)}

\* Who has added to the index and not trimmed it yet.
Owing == {w \in Writers : step[w] \in {"count", "range", "remove"}}

\* What a trimmer is about to take out of the index, as things stand.
Drops(w, e) ==
    IF step[w] = "remove" THEN e \in stale[w] ELSE Rank(index, e) < excess[w]

Kept(T) == {e \in index : \A w \in T : ~Drops(w, e)}

\* Whichever trimmers get to their end, each of the others accounts for one event
\* beyond the cap at most.
CapInv ==
    /\ IsFiniteSet(Owing)
    /\ \A T \in SUBSET Trimmers :
          Cardinality(Kept(T)) <= MaxEvents + faults + Cardinality(Owing \ T)

\* Counts that the arithmetic below is about.
LEMMA CapCounts ==
    ASSUME TypeOK, IsFiniteSet(Owing)
    PROVE  /\ IsFiniteSet(index) /\ Cardinality(index) \in Nat
           /\ index \in SUBSET (1 .. MaxWrites) /\ MaxWrites \in Nat
           /\ \A e : Rank(index, e) \in Nat
           /\ faults \in Nat
           /\ \A T : /\ IsFiniteSet(Owing \ T) /\ Cardinality(Owing \ T) \in Nat
                     /\ IsFiniteSet(Kept(T)) /\ Cardinality(Kept(T)) \in Nat
                     /\ Cardinality(Kept(T)) <= Cardinality(index)
<1>1. index \in SUBSET (1 .. MaxWrites) /\ MaxWrites \in Nat /\ faults \in Nat
  BY BoundsAssumption DEF TypeOK, Ids
<1>2. \A T : IsFiniteSet(Owing \ T) BY FS_Difference
<1>3. \A T : Cardinality(Owing \ T) \in Nat BY <1>2, FS_CardinalityType
<1>4. \A T : Kept(T) \in SUBSET index BY DEF Kept
<1>5. /\ IsFiniteSet(index) /\ Cardinality(index) \in Nat
      /\ \A S \in SUBSET index : /\ IsFiniteSet(S) /\ Cardinality(S) \in Nat
                                 /\ Cardinality(S) <= Cardinality(index)
      /\ \A e : Rank(index, e) \in Nat
  BY <1>1, RankFacts
<1> QED BY <1>1, <1>2, <1>3, <1>4, <1>5

\* A step that changes neither the index nor who trims it.
LEMMA StillKept ==
    ASSUME CapInv, UNCHANGED <<index, faults>>, Owing' = Owing, Trimmers' = Trimmers,
           \A v \in Trimmers : /\ step'[v] = step[v] /\ stale'[v] = stale[v]
                               /\ excess'[v] = excess[v]
    PROVE  CapInv'
<1> SUFFICES ASSUME NEW T \in SUBSET Trimmers
             PROVE  Cardinality(Kept(T)') <= MaxEvents + faults + Cardinality(Owing \ T)
  BY DEF CapInv
<1>1. Kept(T)' = Kept(T) BY DEF Kept, Drops
<1> QED BY <1>1 DEF CapInv

\* Beginning a write, its hash and the deletion leave the index alone.
LEMMA BeginCap ==
    ASSUME TypeOK, JobInv, CapInv, NEW w \in Writers,
           Create(w) \/ Patch(w) \/ WriteHash(w) \/ DeleteHashes(w)
    PROVE  CapInv'
<1>1. /\ UNCHANGED <<index, faults>> /\ step[w] \in {"idle", "hash", "delete"}
      /\ step'[w] \in {"hash", "index", "idle"}
      /\ \A v \in Writers \ {w} : /\ step'[v] = step[v] /\ stale'[v] = stale[v]
                                  /\ excess'[v] = excess[v]
  BY DEF Create, Patch, Begin, WriteHash, DeleteHashes, Return, Leave, Goto, TypeOK, objects
<1>2. Owing' = Owing /\ Trimmers' = Trimmers
  BY <1>1 DEF Owing, Trimmers, Trimming
<1>3. w \notin Trimmers /\ Trimmers \subseteq Writers BY <1>1 DEF Trimmers, Trimming
<1> QED BY <1>1, <1>2, <1>3, StillKept

\* One more event, and one more writer to account for it.
LEMMA AddCap ==
    ASSUME TypeOK, JobInv, CapInv, NEW u \in Writers, AddToIndex(u)
    PROVE  CapInv'
<1> DEFINE e == event[u]
<1>1. /\ step[u] = "index" /\ step' = [step EXCEPT ![u] = "count"]
      /\ index' = index \cup {e} /\ UNCHANGED <<excess, stale, faults>>
      /\ e \in 1 .. MaxWrites /\ e \in Int
  BY BoundsAssumption DEF AddToIndex, Goto, JobInv, TypeOK, objects
<1>2. Trimmers' = Trimmers /\ u \notin Trimmers /\ Trimmers \subseteq Writers
  BY <1>1 DEF Trimmers, Trimming, TypeOK
<1>3. Owing' = Owing \cup {u} /\ u \notin Owing
  BY <1>1 DEF Owing, TypeOK
<1>4. IsFiniteSet(Owing) /\ IsFiniteSet(Owing')
  BY <1>3, FS_AddElement DEF CapInv
<1> SUFFICES ASSUME NEW T \in SUBSET Trimmers
             PROVE  Cardinality(Kept(T)') <= MaxEvents + faults + Cardinality(Owing' \ T)
  BY <1>1, <1>2, <1>4 DEF CapInv
<1>5. Cardinality(Owing' \ T) = Cardinality(Owing \ T) + 1
  <2>1. Owing' \ T = (Owing \ T) \cup {u} /\ u \notin Owing \ T
    BY <1>2, <1>3
  <2>2. IsFiniteSet(Owing \ T) BY <1>4, CapCounts
  <2> QED BY <2>1, <2>2, FS_AddElement
\* What trimmers that have yet to list spare on account of the new event is one
\* event at most: the last that one of them would have taken, or the new one.
<1> DEFINE r(d) == Rank(index, d)  s(d) == Rank(index', d)
<1>6. /\ \A d \in 1 .. MaxWrites : /\ r(d) \in Nat /\ s(d) \in Nat /\ r(d) <= s(d)
                                   /\ s(d) <= r(d) + 1 /\ (e >= d => s(d) = r(d))
      /\ \A d \in index', c \in 1 .. MaxWrites : d < c => s(d) + 1 <= s(c)
      /\ \A d \in index, c \in 1 .. MaxWrites : d < c => r(d) + 1 <= r(c)
  <2>1. /\ MaxWrites \in Nat /\ index \in SUBSET (1 .. MaxWrites)
        /\ index' \in SUBSET (1 .. MaxWrites)
    BY <1>1, BoundsAssumption DEF TypeOK, Ids
  <2>2. \A d \in 1 .. MaxWrites : r(d) \in Nat /\ s(d) \in Nat BY <2>1, RankFacts
  <2>3. \A d \in 1 .. MaxWrites : /\ r(d) <= s(d) /\ s(d) <= r(d) + 1
                                  /\ (e >= d => s(d) = r(d))
    BY <1>1, <2>1, RankAdd
  <2> QED BY <2>1, <2>2, <2>3, RankGrows
<1> DEFINE Spared == {d \in Kept(T)' : d \notin Kept(T)}
<1>7. \A d \in Spared : d # e => \E w \in T : /\ step[w] # "remove" /\ r(d) < excess[w]
                                              /\ s(d) = excess[w] /\ d \in index /\ e < d
  <2> SUFFICES ASSUME NEW d \in Spared, d # e
               PROVE  \E w \in T : /\ step[w] # "remove" /\ r(d) < excess[w]
                                   /\ s(d) = excess[w] /\ d \in index /\ e < d
    OBVIOUS
  <2>1. d \in index /\ d \in 1 .. MaxWrites BY <1>1 DEF Kept, TypeOK, Ids
  <2>2. PICK w \in T : Drops(w, d) BY <2>1 DEF Kept
  <2>3. w \in Writers /\ w # u /\ step'[w] = step[w] BY <1>1, <1>2 DEF TypeOK
  <2>4. ~Drops(w, d)' BY DEF Kept
  <2>5. step[w] # "remove" /\ r(d) < excess[w] /\ ~(s(d) < excess[w])
    BY <1>1, <2>2, <2>3, <2>4 DEF Drops
  <2>6. excess[w] \in Nat BY <2>3 DEF TypeOK
  <2>7. /\ r(d) \in Nat /\ s(d) \in Nat /\ s(d) <= r(d) + 1 /\ (e >= d => s(d) = r(d))
    BY <1>6, <2>1
  <2> HIDE DEF r, s
  <2>8. r(d) < excess[w] /\ s(d) = excess[w] /\ e < d
    BY <1>1, <2>1, <2>5, <2>6, <2>7
  <2> QED BY <2>1, <2>5, <2>8
<1>8. \A d, c \in Spared : d = c
  <2>1. \A d \in Spared, w \in T : step[w] # "remove" => ~(s(d) < excess[w])
    <3> SUFFICES ASSUME NEW d \in Spared, NEW w \in T, step[w] # "remove"
                 PROVE  ~(s(d) < excess[w])
      OBVIOUS
    <3>1. w \in Writers /\ w # u /\ step'[w] = step[w] BY <1>1, <1>2 DEF TypeOK
    <3>2. ~Drops(w, d)' BY DEF Kept
    <3> QED BY <1>1, <3>1, <3>2 DEF Drops
  <2>2. \A d \in Spared : d \in 1 .. MaxWrites /\ d \in index'
    BY <1>1 DEF Kept, TypeOK, Ids
  <2>3. \A w \in T : excess[w] \in Nat BY <1>2 DEF TypeOK
  <2>4. \A d \in Spared : d # e => e \notin Spared
    BY <1>6, <1>7, <2>1, <2>2, <2>3
  <2>5. \A d, c \in Spared : d # e /\ c # e => ~(d < c)
    BY <1>6, <1>7, <2>1, <2>2, <2>3
  <2> QED BY <2>2, <2>4, <2>5
<1>9. PICK f : Kept(T)' \subseteq Kept(T) \cup {f} BY <1>8
<1>10. /\ Cardinality(Kept(T)') <= Cardinality(Kept(T)) + 1
       /\ Cardinality(Kept(T)) <= MaxEvents + faults + Cardinality(Owing \ T)
  <2>1. /\ IsFiniteSet(Kept(T)) /\ Cardinality(Kept(T)) \in Nat BY <1>4, CapCounts
  <2>2. /\ IsFiniteSet(Kept(T) \cup {f})
        /\ Cardinality(Kept(T) \cup {f}) <= Cardinality(Kept(T)) + 1
    <3>1. CASE f \in Kept(T) BY <2>1, <3>1, FS_AddElement
    <3>2. CASE f \notin Kept(T)
      <4>1. /\ IsFiniteSet(Kept(T) \cup {f})
            /\ Cardinality(Kept(T) \cup {f}) = Cardinality(Kept(T)) + 1
        BY <2>1, <3>2, FS_AddElement
      <4> QED BY <2>1, <4>1
    <3> QED BY <3>1, <3>2
  <2>3. /\ Cardinality(Kept(T)') <= Cardinality(Kept(T) \cup {f})
        /\ Cardinality(Kept(T)') \in Nat /\ Cardinality(Kept(T) \cup {f}) \in Nat
    BY <1>9, <2>2, FS_Subset, FS_CardinalityType
  <2> QED BY <2>1, <2>2, <2>3 DEF CapInv
<1>11. /\ Cardinality(Kept(T)) \in Nat /\ Cardinality(Kept(T)') \in Nat
       /\ Cardinality(Owing \ T) \in Nat /\ faults \in Nat
  <2>1. IsFiniteSet(Kept(T)')
    BY <1>4, <1>9, CapCounts, FS_AddElement, FS_Subset
  <2> QED BY <1>4, <2>1, CapCounts, FS_CardinalityType
<1> QED BY <1>5, <1>10, <1>11, MaxEventsAssumption

\* A writer that counts is done within the cap, or knows how many have to go.
LEMMA CountCap ==
    ASSUME TypeOK, JobInv, CapInv, NEW u \in Writers, Count(u)
    PROVE  CapInv'
<1>1. /\ step[u] = "count" /\ UNCHANGED <<index, faults>>
      /\ \A v \in Writers \ {u} : /\ step'[v] = step[v] /\ stale'[v] = stale[v]
                                  /\ excess'[v] = excess[v]
  BY DEF Count, Return, Leave, Goto, TypeOK
<1>2. /\ Owing' \subseteq Owing /\ u \notin Trimmers /\ Trimmers' \subseteq Trimmers \cup {u}
      /\ Trimmers \subseteq Writers
  BY <1>1 DEF Owing, Trimmers, Trimming
<1>3. IsFiniteSet(Owing) /\ IsFiniteSet(Owing')
  BY <1>2, FS_Subset DEF CapInv
<1> SUFFICES ASSUME NEW T \in SUBSET Trimmers'
             PROVE  Cardinality(Kept(T)') <= MaxEvents + faults + Cardinality(Owing' \ T)
  BY <1>1, <1>3 DEF CapInv
<1>4. /\ IsFiniteSet(index) /\ Cardinality(index) \in Nat /\ faults \in Nat
      /\ Kept(T)' \in SUBSET index
      /\ \A S \in SUBSET index : /\ IsFiniteSet(S) /\ Cardinality(S) \in Nat
                                 /\ Cardinality(S) <= Cardinality(index)
  <2>1. index \in SUBSET (1 .. MaxWrites) /\ MaxWrites \in Nat /\ faults \in Nat
    BY BoundsAssumption DEF TypeOK, Ids
  <2> QED BY <1>1, <2>1, RankFacts DEF Kept
<1>5. Cardinality(Owing' \ T) \in Nat BY <1>3, FS_Difference, FS_CardinalityType
<1>6. CASE Cardinality(Kept(T)') <= MaxEvents
  BY <1>4, <1>5, <1>6, MaxEventsAssumption
<1>7. CASE ~(Cardinality(Kept(T)') <= MaxEvents)
  <2>1. Cardinality(index) > MaxEvents BY <1>4, <1>7, MaxEventsAssumption
  <2>2. /\ excess' = [excess EXCEPT ![u] = Cardinality(index) - MaxEvents]
        /\ step' = [step EXCEPT ![u] = "range"]
    <3>1. ~(Cardinality(index) <= MaxEvents) BY <2>1, <1>4, MaxEventsAssumption
    <3> QED BY <3>1 DEF Count, Goto
  <2> DEFINE x == Cardinality(index) - MaxEvents
  <2>3. x \in Nat /\ excess'[u] = x /\ step'[u] = "range"
    BY <2>1, <2>2, <1>4, MaxEventsAssumption DEF TypeOK
  <2>4. u \notin T
    <3> SUFFICES ASSUME u \in T PROVE FALSE OBVIOUS
    <3>1. Kept(T)' \subseteq index \ Oldest(index, x)
      BY <1>1, <2>3 DEF Kept, Drops, Oldest, Rank
    <3>2. Cardinality(index \ Oldest(index, x)) = MaxEvents
      <4>1. index \in SUBSET (1 .. MaxWrites) /\ MaxWrites \in Nat
        BY BoundsAssumption DEF TypeOK, Ids
      <4>2. x <= Cardinality(index) BY <1>4, MaxEventsAssumption
      <4>3. Cardinality(index \ Oldest(index, x)) = Cardinality(index) - x
        BY <2>3, <4>1, <4>2, OldestCount
      <4> QED BY <4>3, <1>4, MaxEventsAssumption
    <3>3. IsFiniteSet(index \ Oldest(index, x)) BY <1>4
    <3>4. Cardinality(Kept(T)') <= MaxEvents BY <3>1, <3>2, <3>3, FS_Subset
    <3> QED BY <3>4, <1>7
  <2>5. T \in SUBSET Trimmers BY <1>2, <2>4
  <2>6. Kept(T)' = Kept(T) BY <1>1, <1>2, <2>4, <2>5 DEF Kept, Drops
  <2>7. Owing' = Owing
    BY <1>1, <2>2 DEF Owing, TypeOK
  <2> QED BY <2>5, <2>6, <2>7 DEF CapInv
<1> QED BY <1>6, <1>7

\* The list is what the excess stood for.
LEMMA ListCap ==
    ASSUME TypeOK, JobInv, CapInv, NEW u \in Writers, ListStale(u)
    PROVE  CapInv'
<1>1. /\ step[u] = "range" /\ UNCHANGED <<index, faults>>
      /\ \A v \in Writers \ {u} : /\ step'[v] = step[v] /\ stale'[v] = stale[v]
                                  /\ excess'[v] = excess[v]
      /\ step'[u] \in {"idle", "remove"}
  BY DEF ListStale, Return, Leave, Goto, TypeOK
<1>2. Owing' \subseteq Owing /\ Trimmers' \subseteq Trimmers /\ Trimmers \subseteq Writers
  BY <1>1 DEF Owing, Trimmers, Trimming
<1>3. IsFiniteSet(Owing) /\ IsFiniteSet(Owing')
  BY <1>2, FS_Subset DEF CapInv
<1> SUFFICES ASSUME NEW T \in SUBSET Trimmers'
             PROVE  Cardinality(Kept(T)') <= MaxEvents + faults + Cardinality(Owing' \ T)
  BY <1>1, <1>3 DEF CapInv
<1>4. CASE index = {}
  <2>1. Cardinality(Kept(T)') = 0
    <3>1. Kept(T)' = {} BY <1>1, <1>4 DEF Kept
    <3> QED BY <3>1, FS_EmptySet
  <2>2. Cardinality(Owing' \ T) \in Nat BY <1>3, FS_Difference, FS_CardinalityType
  <2>3. faults \in Nat BY BoundsAssumption DEF TypeOK
  <2> QED BY <2>1, <2>2, <2>3, MaxEventsAssumption
<1>5. CASE index # {}
  <2>1. /\ stale' = [stale EXCEPT ![u] = Oldest(index, excess[u])]
        /\ step' = [step EXCEPT ![u] = "remove"]
    BY <1>5 DEF ListStale, Goto
  <2>2. Owing' = Owing BY <1>1, <2>1 DEF Owing, TypeOK
  <2>3. Kept(T)' = Kept(T)
    <3>1. \A e \in index : Drops(u, e)' <=> Drops(u, e)
      BY <1>1, <2>1 DEF Drops, Oldest, Rank, TypeOK
    <3>2. \A e \in index : \A v \in Writers \ {u} : Drops(v, e)' <=> Drops(v, e)
      BY <1>1 DEF Drops
    <3> QED BY <1>1, <1>2, <3>1, <3>2 DEF Kept
  <2> QED BY <1>2, <2>2, <2>3 DEF CapInv
<1> QED BY <1>4, <1>5

\* What was to go is gone, and its writer owes nothing more.
LEMMA RemoveCap ==
    ASSUME TypeOK, JobInv, CapInv, NEW u \in Writers, RemoveFromIndex(u)
    PROVE  CapInv'
<1>1. /\ step[u] = "remove" /\ index' = index \ stale[u] /\ faults' = faults
      /\ UNCHANGED <<stale, excess>> /\ step' = [step EXCEPT ![u] = "delete"]
  BY DEF RemoveFromIndex, Goto
<1>2. /\ Owing' = Owing \ {u} /\ Trimmers' = Trimmers \ {u} /\ u \in Trimmers
      /\ Trimmers \subseteq Writers
  BY <1>1 DEF Owing, Trimmers, Trimming, TypeOK
<1>3. IsFiniteSet(Owing) /\ IsFiniteSet(Owing')
  BY <1>2, FS_Subset DEF CapInv
<1> SUFFICES ASSUME NEW T \in SUBSET Trimmers'
             PROVE  Cardinality(Kept(T)') <= MaxEvents + faults + Cardinality(Owing' \ T)
  BY <1>1, <1>3 DEF CapInv
<1> DEFINE U == T \cup {u}
<1>4. U \in SUBSET Trimmers /\ Owing' \ T = Owing \ U BY <1>2
<1>5. Kept(T)' \subseteq Kept(U)
  <2> SUFFICES ASSUME NEW e \in Kept(T)' PROVE e \in Kept(U) OBVIOUS
  <2>1. e \in index /\ e \notin stale[u] /\ e \in 1 .. MaxWrites
    BY <1>1 DEF Kept, TypeOK, Ids
  <2>2. Rank(index', e) <= Rank(index, e) /\ Rank(index', e) \in Nat /\ Rank(index, e) \in Nat
    <3>1. /\ index \in SUBSET (1 .. MaxWrites) /\ MaxWrites \in Nat
          /\ index' \in SUBSET (1 .. MaxWrites) /\ index' \in SUBSET index
      BY <1>1, BoundsAssumption DEF TypeOK, Ids
    <3> QED BY <2>1, <3>1, RankSubset, RankFacts
  <2>3. ASSUME NEW w \in T PROVE ~Drops(w, e)
    <3>1. w \in Writers /\ w # u /\ step'[w] = step[w] /\ excess[w] \in Nat
      BY <1>1, <1>2 DEF TypeOK
    <3>2. ~Drops(w, e)' BY DEF Kept
    <3> QED BY <1>1, <2>2, <3>1, <3>2 DEF Drops
  <2>4. ~Drops(u, e) BY <1>1, <2>1 DEF Drops
  <2> QED BY <2>1, <2>3, <2>4 DEF Kept
<1>6. Cardinality(Kept(T)') <= Cardinality(Kept(U))
  BY <1>3, <1>5, CapCounts, FS_Subset
<1>7. Cardinality(Kept(U)) <= MaxEvents + faults + Cardinality(Owing \ U)
  BY <1>4 DEF CapInv
<1>8. /\ Cardinality(Kept(U)) \in Nat /\ Cardinality(Kept(T)') \in Nat
      /\ Cardinality(Owing \ U) \in Nat /\ faults \in Nat
  BY <1>3, <1>5, CapCounts, FS_Subset, FS_CardinalityType
<1> QED BY <1>4, <1>6, <1>7, <1>8, MaxEventsAssumption

\* A writer that is cut short leaves its event to the faults.
LEMMA FailCap ==
    ASSUME TypeOK, JobInv, CapInv, NEW u \in Writers, Fail(u)
    PROVE  CapInv'
<1>1. /\ index' = index /\ faults' = faults + 1
      /\ \A v \in Writers \ {u} : /\ step'[v] = step[v] /\ stale'[v] = stale[v]
                                  /\ excess'[v] = excess[v]
      /\ step'[u] = "idle"
  BY DEF Fail, Leave, TypeOK
<1>2. /\ Owing' = Owing \ {u} /\ Trimmers' = Trimmers \ {u} /\ Trimmers \subseteq Writers
  BY <1>1 DEF Owing, Trimmers, Trimming, TypeOK
<1>3. IsFiniteSet(Owing) /\ IsFiniteSet(Owing')
  BY <1>2, FS_Subset DEF CapInv
<1> SUFFICES ASSUME NEW T \in SUBSET Trimmers'
             PROVE  Cardinality(Kept(T)') <= MaxEvents + faults + 1 + Cardinality(Owing' \ T)
  <2>1. faults \in Nat BY BoundsAssumption DEF TypeOK
  <2>2. \A T \in SUBSET Trimmers' : Cardinality(Owing' \ T) \in Nat
    BY <1>3, FS_Difference, FS_CardinalityType
  <2> QED BY <1>1, <1>3, <2>1, <2>2, MaxEventsAssumption DEF CapInv
<1>4. Kept(T)' = Kept(T) BY <1>1, <1>2 DEF Kept, Drops
<1>5. Cardinality(Owing \ T) <= Cardinality(Owing' \ T) + 1
  <2>1. IsFiniteSet(Owing' \ T) /\ Cardinality(Owing' \ T) \in Nat
    BY <1>3, FS_Difference, FS_CardinalityType
  <2>2. /\ IsFiniteSet((Owing' \ T) \cup {u})
        /\ Cardinality((Owing' \ T) \cup {u}) = Cardinality(Owing' \ T) + 1
    BY <1>2, <2>1, FS_AddElement
  <2>3. Owing \ T \subseteq (Owing' \ T) \cup {u} BY <1>2
  <2>4. Cardinality(Owing \ T) <= Cardinality((Owing' \ T) \cup {u})
    BY <2>2, <2>3, FS_Subset
  <2>5. Cardinality((Owing' \ T) \cup {u}) \in Nat /\ Cardinality(Owing \ T) \in Nat
    BY <1>3, <2>2, FS_Difference, FS_CardinalityType
  <2> QED BY <2>1, <2>2, <2>4, <2>5
<1>6. Cardinality(Kept(T)) <= MaxEvents + faults + Cardinality(Owing \ T)
  BY <1>2 DEF CapInv
<1>7. /\ Cardinality(Kept(T)) \in Nat /\ Cardinality(Owing \ T) \in Nat
      /\ Cardinality(Owing' \ T) \in Nat /\ faults \in Nat
  BY <1>3, CapCounts, FS_Difference, FS_CardinalityType
<1> QED BY <1>4, <1>5, <1>6, <1>7, MaxEventsAssumption

\* However writes interleave, each accounts for one event beyond the cap at most,
\* until its trim is done; and that of one cut short is never done.
THEOREM CapInvariant == Spec => []CapInv
<1>1. Init => CapInv
  <2> SUFFICES ASSUME Init PROVE CapInv OBVIOUS
  <2>1. Owing = {} /\ Trimmers = {} /\ index = {} BY DEF Init, Owing, Trimmers, Trimming
  <2>2. IsFiniteSet(Owing) BY <2>1, FS_EmptySet
  <2>3. faults = 0 BY DEF Init
  <2>4. \A T \in SUBSET Trimmers : Kept(T) = {} /\ Owing \ T = {} BY <2>1 DEF Kept
  <2> QED BY <2>2, <2>3, <2>4, FS_EmptySet, MaxEventsAssumption DEF CapInv
<1>2. IInv /\ CapInv /\ [Next]_vars => CapInv'
  <2> SUFFICES ASSUME IInv, CapInv, [Next]_vars PROVE CapInv' OBVIOUS
  <2>1. TypeOK /\ JobInv BY DEF IInv
  <2>2. CASE UNCHANGED vars
    BY <2>2, StillKept DEF vars, job, objects, Owing, Trimmers, Trimming
  <2>3. CASE Next
    BY <2>1, <2>3, BeginCap, AddCap, CountCap, ListCap, RemoveCap, FailCap DEF Next
  <2> QED BY <2>2, <2>3
<1> QED BY <1>1, <1>2, AuditInvariant, PTL DEF Spec

\* For any number of writers and any cap, an index at rest exceeds the cap by no
\* more than the writes that were cut short.
THEOREM IndexWithinCap == Spec => []WithinCap
<1>1. CapInv /\ TypeOK => WithinCap
  <2> SUFFICES ASSUME CapInv, TypeOK, AtRest
               PROVE  Cardinality(index) <= MaxEvents + faults
    BY DEF WithinCap
  <2>1. Owing = {} BY DEF AtRest, Owing
  <2>2. Kept({}) = index BY DEF Kept
  <2>3. {} \in SUBSET Trimmers /\ Owing \ {} = {} BY <2>1
  <2>4. Cardinality(index) <= MaxEvents + faults + Cardinality({})
    BY <2>2, <2>3 DEF CapInv
  <2>5. faults \in Nat BY BoundsAssumption DEF TypeOK
  <2> QED BY <2>4, <2>5, FS_EmptySet, MaxEventsAssumption
<1> QED BY <1>1, CapInvariant, TypesKept, PTL

(***************************************************************************)
(* What is kept                                                            *)
(***************************************************************************)

Newer(S, e) == {d \in S : d > e}

\* An event that nobody would miss: there are enough newer ones.
Outranked(S, e) == Cardinality(Newer(S, e)) >= MaxEvents

Pending(e) == \E w \in Writers : step[w] \in {"hash", "index"} /\ event[w] = e

Made == index \subseteq 1 .. created /\ \A e \in 1 .. created : version[e] # 0

Alone == \A v, w \in Trimmers : v = w

\* What a writer relies on for its next command.
Relies(w) ==
    /\ step[w] = "range" => Cardinality(index) >= MaxEvents + excess[w]
    /\ step[w] = "remove" => \A e \in stale[w] : Outranked(index \ stale[w], e)
    /\ step[w] = "delete" => \A e \in stale[w] : Outranked(index, e)
    /\ step[w] = "index" => stored[event[w]] # 0 \/ Outranked(index, event[w])

\* No event is missing, and none is without its hash, that anybody would miss.
Accounted == \A e \in 1 .. created : e \in index \/ Pending(e) \/ Outranked(index, e)
Hashed == \A e \in index : stored[e] # 0 \/ Outranked(index, e)

ExactInv ==
    Made /\ Alone /\ (\A w \in Writers : Relies(w)) /\ Accounted /\ Hashed

\* More events outrank no fewer.
LEMMA OutrankedGrows ==
    ASSUME NEW n \in Nat, NEW T \in SUBSET (1 .. n), NEW S \in SUBSET T, NEW e, Outranked(S, e)
    PROVE  Outranked(T, e)
<1>1. Newer(S, e) \subseteq Newer(T, e) /\ Newer(T, e) \in SUBSET T BY DEF Newer
<1>2. IsFiniteSet(Newer(T, e)) /\ Cardinality(Newer(T, e)) \in Nat
  BY <1>1, RankFacts
<1>3. /\ Cardinality(Newer(S, e)) <= Cardinality(Newer(T, e))
      /\ Cardinality(Newer(S, e)) \in Nat
  BY <1>1, <1>2, FS_Subset, FS_CardinalityType
<1> QED BY <1>2, <1>3, MaxEventsAssumption DEF Outranked

\* Taking out events that stay outranked leaves every outranked event outranked.
LEMMA OutrankedStays ==
    ASSUME NEW n \in Nat, NEW S \in SUBSET (1 .. n), NEW D \in SUBSET (1 .. n),
           \A d \in D : Outranked(S \ D, d), NEW e \in 1 .. n, Outranked(S, e)
    PROVE  Outranked(S \ D, e)
<1>1. CASE \A d \in D : ~(d > e)
  <2>1. Newer(S \ D, e) = Newer(S, e) BY <1>1 DEF Newer
  <2> QED BY <2>1 DEF Outranked
<1>2. CASE \E d \in D : d > e
  <2>1. PICK d \in D : d > e BY <1>2
  <2>2. Newer(S \ D, d) \subseteq Newer(S \ D, e)
    <3>1. \A c \in S : c > d => c > e BY <2>1
    <3> QED BY <3>1 DEF Newer
  <2>3. IsFiniteSet(Newer(S \ D, e)) /\ Cardinality(Newer(S \ D, e)) \in Nat
    <3>1. Newer(S \ D, e) \in SUBSET S BY DEF Newer
    <3> QED BY <3>1, RankFacts
  <2>4. /\ Cardinality(Newer(S \ D, d)) <= Cardinality(Newer(S \ D, e))
        /\ Cardinality(Newer(S \ D, d)) \in Nat
    BY <2>2, <2>3, FS_Subset, FS_CardinalityType
  <2>5. Cardinality(Newer(S \ D, d)) >= MaxEvents BY DEF Outranked
  <2> QED BY <2>3, <2>4, <2>5, MaxEventsAssumption DEF Outranked
<1> QED BY <1>1, <1>2

\* The oldest of a set that is x beyond the cap are outranked by the rest.
LEMMA OldestOutranked ==
    ASSUME NEW n \in Nat, NEW S \in SUBSET (1 .. n), NEW x \in Nat,
           Cardinality(S) >= MaxEvents + x, NEW e \in Oldest(S, x)
    PROVE  Outranked(S \ Oldest(S, x), e)
<1> DEFINE R == S \ Oldest(S, x)
<1>1. e \in S /\ Rank(S, e) < x /\ \A d \in R : ~(Rank(S, d) < x) BY DEF Oldest, Rank
<1>2. \A d \in R : d > e
  <2> SUFFICES ASSUME NEW d \in R, ~(d > e) PROVE FALSE OBVIOUS
  <2>1. Rank(S, d) \in Nat /\ Rank(S, e) \in Nat BY RankFacts
  <2>2. CASE d = e BY <1>1, <2>2
  <2>3. CASE d < e
    <3>1. Rank(S, d) + 1 <= Rank(S, e) BY <1>1, <2>3, RankGrows
    <3> QED BY <1>1, <2>1, <3>1
  <2> QED BY <1>1, <2>2, <2>3
<1>3. Newer(R, e) = R BY <1>2 DEF Newer
<1>4. Cardinality(S) \in Nat BY RankFacts
<1>5. x <= Cardinality(S) BY <1>4, MaxEventsAssumption
<1>6. Cardinality(R) = Cardinality(S) - x BY <1>5, OldestCount
<1>7. Cardinality(R) >= MaxEvents BY <1>4, <1>6, MaxEventsAssumption
<1> QED BY <1>3, <1>7 DEF Outranked

LEMMA BeginExact ==
    ASSUME TypeOK, JobInv, ExactInv, NEW u \in Writers, Create(u) \/ Patch(u)
    PROVE  ExactInv'
<1>1. PICK e : /\ Begin(u, e) /\ e \in 1 .. created'
               /\ created' = created \/ (created' = created + 1 /\ e = created + 1)
  <2>1. CASE Create(u) BY <2>1 DEF Create, TypeOK
  <2>2. CASE Patch(u)
    <3>1. PICK e \in handles : Begin(u, e) BY <2>2 DEF Patch
    <3> QED BY <2>2, <3>1 DEF Patch, TypeOK
  <2> QED BY <2>1, <2>2
<1>2. /\ step[u] = "idle" /\ step' = [step EXCEPT ![u] = "hash"]
      /\ event' = [event EXCEPT ![u] = e] /\ version' = [version EXCEPT ![e] = @ + 1]
      /\ UNCHANGED <<stored, index, excess, stale>>
  BY <1>1 DEF Begin
<1>3. /\ 1 .. created' \subseteq Ids /\ 1 .. created \subseteq 1 .. created'
      /\ \A d \in 1 .. created' : d \in 1 .. created \/ d = e
  <2>1. writes' = writes + 1 /\ writes < MaxWrites BY <1>1 DEF Begin
  <2> QED BY <1>1, <2>1, BoundsAssumption DEF TypeOK, Ids
<1>4. Made'
  <2>1. \A d \in Ids : version[d] \in Nat BY DEF TypeOK
  <2>2. \A d \in 1 .. created' : version'[d] # 0
    BY <1>2, <1>3, <2>1 DEF ExactInv, Made, TypeOK
  <2> QED BY <1>2, <1>3, <2>2 DEF ExactInv, Made
<1>5. Trimmers' = Trimmers BY <1>2 DEF Trimmers, Trimming, TypeOK
<1>6. \A w \in Writers : Relies(w)'
  BY <1>2 DEF ExactInv, Relies, TypeOK
<1>7. Pending(e)' /\ \A d : Pending(d) => Pending(d)'
  BY <1>2 DEF Pending, TypeOK
<1>8. Accounted' BY <1>2, <1>3, <1>7 DEF ExactInv, Accounted
<1>9. Hashed' BY <1>2 DEF ExactInv, Hashed
<1> QED BY <1>4, <1>5, <1>6, <1>8, <1>9 DEF ExactInv, Alone

LEMMA HashExact ==
    ASSUME TypeOK, JobInv, ExactInv, NEW u \in Writers, WriteHash(u)
    PROVE  ExactInv'
<1>1. /\ step[u] = "hash" /\ step' = [step EXCEPT ![u] = "index"]
      /\ stored' = [stored EXCEPT ![event[u]] = version[event[u]]]
      /\ UNCHANGED <<created, version, event, index, excess, stale>>
  BY DEF WriteHash, Goto, objects
<1>2. event[u] \in 1 .. created /\ event[u] \in Ids /\ version[event[u]] # 0
  BY <1>1, BoundsAssumption DEF TypeOK, JobInv, ExactInv, Made, Ids
<1>3. stored'[event[u]] # 0 /\ \A e \in Ids : stored[e] # 0 => stored'[e] # 0
  BY <1>1, <1>2 DEF TypeOK
<1>4. Trimmers' = Trimmers BY <1>1 DEF Trimmers, Trimming, TypeOK
<1>5. \A w \in Writers : Relies(w)'
  <2>1. \A w \in Writers : step[w] = "index" => event[w] \in Ids
    BY BoundsAssumption DEF TypeOK, JobInv, Ids
  <2> QED BY <1>1, <1>3, <2>1 DEF ExactInv, Relies, TypeOK
<1>6. \A d : Pending(d) => Pending(d)' BY <1>1 DEF Pending, TypeOK
<1>7. Accounted' BY <1>1, <1>6 DEF ExactInv, Accounted
<1>8. Hashed' BY <1>1, <1>3 DEF ExactInv, Hashed, TypeOK
<1> QED BY <1>1, <1>4, <1>5, <1>7, <1>8 DEF ExactInv, Made, Alone

LEMMA AddExact ==
    ASSUME TypeOK, JobInv, ExactInv, NEW u \in Writers, AddToIndex(u)
    PROVE  ExactInv'
<1>1. /\ step[u] = "index" /\ step' = [step EXCEPT ![u] = "count"]
      /\ index' = index \cup {event[u]}
      /\ UNCHANGED <<created, version, stored, event, excess, stale>>
  BY DEF AddToIndex, Goto, objects
<1>2. /\ event[u] \in 1 .. created /\ MaxWrites \in Nat
      /\ index' \in SUBSET (1 .. MaxWrites) /\ index \in SUBSET index'
  <2>1. event[u] \in 1 .. created BY <1>1 DEF JobInv
  <2>2. event[u] \in 1 .. MaxWrites BY <2>1, BoundsAssumption DEF TypeOK
  <2> QED BY <1>1, <2>1, <2>2, BoundsAssumption DEF TypeOK, Ids
<1>3. \A e : Outranked(index, e) => Outranked(index', e) BY <1>2, OutrankedGrows
<1>4. Trimmers' = Trimmers BY <1>1 DEF Trimmers, Trimming, TypeOK
<1>5. \A w \in Writers : Relies(w)'
  <2> SUFFICES ASSUME NEW w \in Writers PROVE Relies(w)' OBVIOUS
  <2>0. Relies(w) BY DEF ExactInv
  <2>1. step[w] = "range" => Cardinality(index') >= MaxEvents + excess[w]
    <3>1. /\ Cardinality(index) <= Cardinality(index') /\ Cardinality(index') \in Nat
          /\ Cardinality(index) \in Nat
      BY <1>2, RankFacts
    <3>2. excess[w] \in Nat BY DEF TypeOK
    <3> QED BY <2>0, <3>1, <3>2, MaxEventsAssumption DEF Relies
  <2>2. step[w] = "remove" => \A e \in stale[w] : Outranked(index' \ stale[w], e)
    <3>1. /\ index \ stale[w] \in SUBSET (index' \ stale[w])
          /\ index' \ stale[w] \in SUBSET (1 .. MaxWrites)
      BY <1>2
    <3> QED BY <1>2, <2>0, <3>1, OutrankedGrows DEF Relies
  <2> QED BY <1>1, <1>3, <2>0, <2>1, <2>2 DEF Relies, TypeOK
<1>6. \A d : Pending(d) => Pending(d)' \/ d = event[u] BY <1>1 DEF Pending, TypeOK
<1>7. Accounted' BY <1>1, <1>3, <1>6 DEF ExactInv, Accounted
<1>8. Hashed'
  <2>1. stored[event[u]] # 0 \/ Outranked(index, event[u]) BY <1>1 DEF ExactInv, Relies
  <2> QED BY <1>1, <1>3, <2>1 DEF ExactInv, Hashed
<1>9. index' \subseteq 1 .. created BY <1>1, <1>2 DEF ExactInv, Made
<1> QED BY <1>1, <1>4, <1>5, <1>7, <1>8, <1>9 DEF ExactInv, Made, Alone

\* A step that only moves a writer on, which owes neither a hash nor its place.
LEMMA MoveExact ==
    ASSUME TypeOK, ExactInv, NEW u \in Writers, UNCHANGED <<created, version, stored, index>>,
           step[u] \in {"count", "range"}, Relies(u)', Alone',
           \A v \in Writers \ {u} : /\ step'[v] = step[v] /\ event'[v] = event[v]
                                    /\ stale'[v] = stale[v] /\ excess'[v] = excess[v]
    PROVE  ExactInv'
<1>1. \A w \in Writers : Relies(w)' BY DEF ExactInv, Relies
<1>2. \A d : Pending(d) => Pending(d)' BY DEF Pending
<1>3. Accounted' BY <1>2 DEF ExactInv, Accounted
<1>4. Made' /\ Hashed' BY DEF ExactInv, Made, Hashed
<1> QED BY <1>1, <1>3, <1>4 DEF ExactInv

LEMMA CountExact ==
    ASSUME TypeOK, JobInv, ExactInv, NEW u \in Writers, Count(u), ~crossed'
    PROVE  ExactInv'
<1>1. /\ step[u] = "count" /\ UNCHANGED <<created, version, stored, index>>
      /\ step'[u] \in {"idle", "range"}
      /\ \A v \in Writers \ {u} : /\ step'[v] = step[v] /\ event'[v] = event[v]
                                  /\ stale'[v] = stale[v] /\ excess'[v] = excess[v]
  BY DEF Count, Return, Leave, Goto, TypeOK, objects
<1>2. \A v \in Writers \ {u} : ~Trimming(v) BY Zenon DEF Count
<1>3. Alone'
  <2>1. \A v \in Trimmers' : v = u BY <1>1, <1>2 DEF Trimmers, Trimming
  <2> QED BY <2>1 DEF Alone
<1>4. Relies(u)'
  <2>1. CASE Return(u)
    <3>1. step'[u] = "idle" BY <2>1 DEF Return, Leave, TypeOK
    <3> QED BY <3>1 DEF Relies
  <2>2. CASE excess' = [excess EXCEPT ![u] = Cardinality(index) - MaxEvents] /\ Goto(u, "range")
    <3>1. step'[u] = "range" /\ excess'[u] = Cardinality(index) - MaxEvents
      BY <2>2 DEF Goto, TypeOK
    <3>2. Cardinality(index) >= MaxEvents + excess'[u]
      BY <3>1, IndexCount, MaxEventsAssumption
    <3> QED BY <1>1, <3>1, <3>2 DEF Relies
  <2> QED BY <2>1, <2>2 DEF Count
<1> QED BY <1>1, <1>3, <1>4, MoveExact

LEMMA ListExact ==
    ASSUME TypeOK, JobInv, ExactInv, NEW u \in Writers, ListStale(u)
    PROVE  ExactInv'
<1>1. /\ step[u] = "range" /\ UNCHANGED <<created, version, stored, index>>
      /\ \A v \in Writers \ {u} : /\ step'[v] = step[v] /\ event'[v] = event[v]
                                  /\ stale'[v] = stale[v] /\ excess'[v] = excess[v]
  BY DEF ListStale, Return, Leave, Goto, TypeOK, objects
<1>2. Alone'
  <2>1. Trimmers' \subseteq Trimmers BY <1>1 DEF Trimmers, Trimming
  <2> QED BY <2>1 DEF ExactInv, Alone
<1>3. Relies(u)'
  <2>1. CASE Return(u)
    <3>1. step'[u] = "idle" BY <2>1 DEF Return, Leave, TypeOK
    <3> QED BY <3>1 DEF Relies
  <2>2. CASE stale' = [stale EXCEPT ![u] = Oldest(index, excess[u])] /\ Goto(u, "remove")
    <3>1. step'[u] = "remove" /\ stale'[u] = Oldest(index, excess[u])
      BY <2>2 DEF Goto, TypeOK
    <3>2. /\ index \in SUBSET (1 .. MaxWrites) /\ MaxWrites \in Nat /\ excess[u] \in Nat
          /\ Cardinality(index) >= MaxEvents + excess[u]
      BY <1>1, BoundsAssumption DEF TypeOK, Ids, ExactInv, Relies
    <3>3. \A e \in stale'[u] : Outranked(index \ stale'[u], e)
      BY <3>1, <3>2, OldestOutranked
    <3> QED BY <1>1, <3>1, <3>3 DEF Relies
  <2> QED BY <2>1, <2>2 DEF ListStale
<1> QED BY <1>1, <1>2, <1>3, MoveExact

LEMMA RemoveExact ==
    ASSUME TypeOK, JobInv, ExactInv, NEW u \in Writers, RemoveFromIndex(u)
    PROVE  ExactInv'
<1>1. /\ step[u] = "remove" /\ step' = [step EXCEPT ![u] = "delete"]
      /\ index' = index \ stale[u]
      /\ UNCHANGED <<created, version, stored, event, excess, stale>>
  BY DEF RemoveFromIndex, Goto, objects
<1>2. \A e \in Ids : Outranked(index, e) => Outranked(index', e)
  <2>1. /\ index \in SUBSET (1 .. MaxWrites) /\ stale[u] \in SUBSET (1 .. MaxWrites)
        /\ MaxWrites \in Nat /\ Ids = 1 .. MaxWrites
    BY BoundsAssumption DEF TypeOK, Ids
  <2>2. \A d \in stale[u] : Outranked(index \ stale[u], d) BY <1>1 DEF ExactInv, Relies
  <2> QED BY <1>1, <2>1, <2>2, OutrankedStays
<1>3. Alone'
  <2>1. Trimmers' \subseteq Trimmers BY <1>1 DEF Trimmers, Trimming, TypeOK
  <2> QED BY <2>1 DEF ExactInv, Alone
<1>4. \A w \in Writers \ {u} : ~Trimming(w)
  BY <1>1 DEF ExactInv, Alone, Trimmers, Trimming
<1>5. \A w \in Writers : Relies(w)'
  <2> SUFFICES ASSUME NEW w \in Writers PROVE Relies(w)' OBVIOUS
  <2>1. CASE w = u
    BY <1>1, <2>1 DEF ExactInv, Relies, TypeOK
  <2>2. CASE w # u
    <3>1. step'[w] = step[w] /\ step[w] \notin {"range", "remove"} /\ Relies(w)
      BY <1>1, <1>4, <2>2 DEF Trimming, ExactInv, TypeOK
    <3>2. stale[w] \subseteq Ids /\ (step[w] = "index" => event[w] \in Ids)
      BY BoundsAssumption DEF TypeOK, JobInv, Ids
    <3> QED BY <1>1, <1>2, <3>1, <3>2 DEF Relies
  <2> QED BY <2>1, <2>2
<1>6. \A d : Pending(d) => Pending(d)' BY <1>1 DEF Pending, TypeOK
<1>7. 1 .. created \subseteq Ids /\ index \subseteq Ids
  BY BoundsAssumption DEF TypeOK, Ids
<1>8. \A e \in stale[u] : Outranked(index', e) BY <1>1 DEF ExactInv, Relies
<1>9. Accounted' BY <1>1, <1>2, <1>6, <1>7, <1>8 DEF ExactInv, Accounted
<1>10. Hashed' BY <1>1, <1>2, <1>7 DEF ExactInv, Hashed
<1> QED BY <1>1, <1>3, <1>5, <1>9, <1>10 DEF ExactInv, Made

LEMMA DeleteExact ==
    ASSUME TypeOK, JobInv, ExactInv, NEW u \in Writers, DeleteHashes(u)
    PROVE  ExactInv'
<1>1. /\ step[u] = "delete" /\ step'[u] = "idle"
      /\ UNCHANGED <<created, version, index>>
      /\ \A v \in Writers \ {u} : /\ step'[v] = step[v] /\ event'[v] = event[v]
                                  /\ stale'[v] = stale[v] /\ excess'[v] = excess[v]
      /\ \A e \in Ids : stored'[e] = IF e \in stale[u] THEN 0 ELSE stored[e]
  BY DEF DeleteHashes, Return, Leave, TypeOK, objects
<1>2. \A e \in Ids : stored[e] # 0 => stored'[e] # 0 \/ Outranked(index, e)
  BY <1>1 DEF ExactInv, Relies
<1>3. Alone'
  <2>1. Trimmers' \subseteq Trimmers BY <1>1 DEF Trimmers, Trimming
  <2> QED BY <2>1 DEF ExactInv, Alone
<1>4. \A w \in Writers : Relies(w)'
  <2>1. \A w \in Writers : step[w] = "index" => event[w] \in Ids
    BY BoundsAssumption DEF TypeOK, JobInv, Ids
  <2> QED BY <1>1, <1>2, <2>1 DEF ExactInv, Relies
<1>5. \A d : Pending(d) => Pending(d)' BY <1>1 DEF Pending
<1>6. Accounted' BY <1>1, <1>5 DEF ExactInv, Accounted
<1>7. Hashed'
  <2>1. index \subseteq Ids BY DEF TypeOK
  <2> QED BY <1>1, <1>2, <2>1 DEF ExactInv, Hashed
<1> QED BY <1>1, <1>3, <1>4, <1>6, <1>7 DEF ExactInv, Made

\* As long as no write is cut short and no two trims cross, the index and the
\* hashes miss nothing but what the newest events outrank.
THEOREM ExactInvariant == Spec => [](faults = 0 /\ ~crossed => ExactInv)
<1> DEFINE EInv == faults = 0 /\ ~crossed => ExactInv
<1>1. Init => EInv
  <2> SUFFICES ASSUME Init PROVE ExactInv OBVIOUS
  <2>1. created = 0 /\ index = {} /\ \A w \in Writers : step[w] = "idle" BY DEF Init
  <2>2. 1 .. created = {} BY <2>1
  <2> QED BY <2>1, <2>2 DEF ExactInv, Made, Alone, Trimmers, Trimming, Relies, Accounted, Hashed
<1>2. IInv /\ EInv /\ [Next]_vars => EInv'
  <2> SUFFICES ASSUME IInv, EInv, [Next]_vars, faults' = 0, ~crossed' PROVE ExactInv'
    OBVIOUS
  <2>1. TypeOK /\ JobInv BY DEF IInv
  <2>2. CASE UNCHANGED vars
    <3>1. faults = 0 /\ ~crossed BY <2>2, Zenon DEF vars
    <3>2. ExactInv BY <3>1
    <3> QED BY <2>2, <3>2 DEF vars, job, objects, ExactInv, Made, Alone, Trimmers, Trimming,
                              Relies, Accounted, Hashed, Pending
  <2>3. CASE Next
    <3>1. PICK u \in Writers :
             \/ Create(u) \/ Patch(u) \/ WriteHash(u) \/ AddToIndex(u) \/ Count(u)
             \/ ListStale(u) \/ RemoveFromIndex(u) \/ DeleteHashes(u) \/ Fail(u)
      BY <2>3 DEF Next
    <3>2. ~Fail(u) BY <2>1 DEF Fail, TypeOK
    <3>3. faults = 0
      BY <3>1, <3>2 DEF Create, Patch, Begin, WriteHash, AddToIndex, Count, ListStale,
                        RemoveFromIndex, DeleteHashes
    <3>4. ~crossed
      BY <3>1, <3>2, Zenon DEF Create, Patch, Begin, WriteHash, AddToIndex, Count, ListStale,
                               RemoveFromIndex, DeleteHashes
    <3>5. ExactInv BY <3>3, <3>4
    <3> QED BY <2>1, <3>1, <3>2, <3>5, BeginExact, HashExact, AddExact, CountExact,
               ListExact, RemoveExact, DeleteExact
  <2> QED BY <2>2, <2>3
<1> QED BY <1>1, <1>2, AuditInvariant, PTL DEF Spec

\* At rest, what is not outranked is exactly the newest events.
LEMMA ExactAtRest ==
    ASSUME TypeOK, ExactInv, AtRest, Cardinality(index) <= MaxEvents
    PROVE  /\ index = {e \in 1 .. created : e + MaxEvents > created}
           /\ \A e \in index : stored[e] # 0
<1> DEFINE Newest == {e \in 1 .. created : e + MaxEvents > created}
<1>1. /\ created \in Nat /\ index \in SUBSET (1 .. created)
  BY DEF TypeOK, ExactInv, Made
<1>2. \A e \in 1 .. created : ~Pending(e) BY DEF AtRest, Pending
<1>3. \A e \in 1 .. created : Outranked(index, e) => e + MaxEvents <= created
  <2> SUFFICES ASSUME NEW e \in 1 .. created, Outranked(index, e)
               PROVE  e + MaxEvents <= created
    OBVIOUS
  <2>1. Newer(index, e) \subseteq e + 1 .. created
    <3>1. \A d \in index : d > e => d \in e + 1 .. created BY <1>1
    <3> QED BY <3>1 DEF Newer
  <2>2. IsFiniteSet(e + 1 .. created) /\ Cardinality(e + 1 .. created) = created - e
    <3>1. e + 1 \in Int /\ created \in Int BY <1>1
    <3>2. /\ IsFiniteSet(e + 1 .. created)
          /\ Cardinality(e + 1 .. created) = IF e + 1 > created THEN 0 ELSE created - (e + 1) + 1
      BY <3>1, FS_Interval
    <3> QED BY <1>1, <3>2
  <2>3. /\ Cardinality(Newer(index, e)) <= created - e /\ Cardinality(Newer(index, e)) \in Nat
    BY <2>1, <2>2, FS_Subset, FS_CardinalityType
  <2> QED BY <1>1, <2>3, MaxEventsAssumption DEF Outranked
<1>4. \A e \in 1 .. created : e \in index \/ Outranked(index, e)
  BY <1>2 DEF ExactInv, Accounted
<1>5. Newest \subseteq index BY <1>1, <1>3, <1>4, MaxEventsAssumption
<1>6. ASSUME NEW e \in index, e \notin Newest PROVE FALSE
  <2>1. e \in 1 .. created /\ e + MaxEvents <= created BY <1>1, <1>6, MaxEventsAssumption
  <2> DEFINE lo == created - MaxEvents + 1
  <2>2. lo .. created \subseteq Newest BY <1>1, <2>1, MaxEventsAssumption
  <2>3. IsFiniteSet(lo .. created) /\ Cardinality(lo .. created) = MaxEvents
    <3>1. lo \in Int /\ created \in Int /\ ~(lo > created) BY <1>1, MaxEventsAssumption
    <3>2. /\ IsFiniteSet(lo .. created) /\ Cardinality(lo .. created) = created - lo + 1
      BY <3>1, FS_Interval
    <3> QED BY <1>1, <3>2, MaxEventsAssumption
  <2>4. e \notin lo .. created BY <1>1, <2>1, MaxEventsAssumption
  <2>5. Cardinality((lo .. created) \cup {e}) = MaxEvents + 1
    BY <2>3, <2>4, FS_AddElement
  <2>6. (lo .. created) \cup {e} \in SUBSET index BY <1>5, <2>2
  <2>7. Cardinality((lo .. created) \cup {e}) <= Cardinality(index) /\ Cardinality(index) \in Nat
    BY <1>1, <2>6, RankFacts
  <2> QED BY <2>5, <2>7, MaxEventsAssumption
<1>7. index = Newest BY <1>1, <1>5, <1>6
<1>8. \A e \in index : stored[e] # 0
  <2>1. \A e \in Newest : ~Outranked(index, e) BY <1>1, <1>3, MaxEventsAssumption
  <2> QED BY <1>7, <2>1 DEF ExactInv, Hashed
<1> QED BY <1>7, <1>8

\* For any number of writers and any cap: as long as no writer counts while another
\* is trimming, what an audit trail at rest keeps is exactly the newest events, each
\* with its hash -- whatever order they were written in, patched and deleted.
THEOREM NewestStay == Spec => []TrimIsExact
<1>1. TypeOK /\ WithinCap /\ (faults = 0 /\ ~crossed => ExactInv) => TrimIsExact
  <2> SUFFICES ASSUME TypeOK, WithinCap, ExactInv, AtRest, faults = 0
               PROVE  /\ index = {e \in 1 .. created : e + MaxEvents > created}
                      /\ \A e \in index : stored[e] # 0
    BY Zenon DEF TrimIsExact, Quiet
  <2>1. Cardinality(index) <= MaxEvents BY MaxEventsAssumption DEF WithinCap
  <2> QED BY <2>1, ExactAtRest
<1> QED BY <1>1, TypesKept, IndexWithinCap, ExactInvariant, PTL

=============================================================================
