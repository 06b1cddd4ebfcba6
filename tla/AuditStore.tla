----------------------------- MODULE AuditStore -----------------------------
(***************************************************************************)
(* models/audit_event.js's write: how concurrent writes of audit events    *)
(* keep one hash per event and a sorted index of all of them, trimmed to   *)
(* conf.audit.maxEvents.                                                   *)
(*                                                                         *)
(* A write is six Redis commands with an await between any two of them, so *)
(* the writes of different sessions interleave at every command; so do two *)
(* writes of one event, since patch is not always awaited.  Events are     *)
(* numbered in the order of their time stamps.  A version stands for what  *)
(* the event object holds: 1 as created, one more for each patch.          *)
(***************************************************************************)
EXTENDS Integers, FiniteSets

CONSTANTS
    Writers,     \* calls of write() that can be under way at once
    MaxEvents,   \* conf.audit.maxEvents
    MaxWrites,   \* bound: writes ever begun
    MaxFaults    \* bound: writes cut short

ASSUME MaxEventsAssumption == MaxEvents \in Nat \ {0}
ASSUME BoundsAssumption == MaxWrites \in Nat /\ MaxFaults \in Nat

VARIABLES
    writes,   \* writes begun so far
    created,  \* events created so far
    handles,  \* events whose create() returned
    version,  \* of each event object in memory, 0 before it is created
    stored,   \* version in its hash in Redis, 0 without a hash
    index,    \* audit_index
    step,     \* the command each writer issues next
    event,    \* the event it writes
    excess,   \* how far its zCard was beyond the cap
    stale,    \* what its zRange returned
    faults,   \* writes cut short
    crossed   \* history: a writer counted while another was trimming

objects == <<writes, created, version>>
job == <<step, event, excess, stale>>
vars == <<objects, handles, stored, index, job, faults, crossed>>

Ids == 1 .. MaxWrites

\* The first n of an index.  Numbers are places in it: by time stamp, and among
\* events of one millisecond by id, as Redis orders equal scores.
Oldest(S, n) == {e \in S : Cardinality({d \in S : d < e}) < n}

Init ==
    /\ writes = 0 /\ created = 0 /\ handles = {}
    /\ version = [e \in Ids |-> 0]
    /\ stored = [e \in Ids |-> 0]
    /\ index = {}
    /\ step = [w \in Writers |-> "idle"]
    /\ event = [w \in Writers |-> 0]
    /\ excess = [w \in Writers |-> 0]
    /\ stale = [w \in Writers |-> {}]
    /\ faults = 0 /\ crossed = FALSE

Begin(w, e) ==
    /\ writes < MaxWrites
    /\ writes' = writes + 1
    /\ step[w] = "idle"
    /\ step' = [step EXCEPT ![w] = "hash"]
    /\ event' = [event EXCEPT ![w] = e]
    /\ version' = [version EXCEPT ![e] = @ + 1]
    /\ UNCHANGED <<handles, stored, index, excess, stale, faults, crossed>>

\* create(fields): a new event, written for the first time.
Create(w) ==
    /\ created' = created + 1
    /\ Begin(w, created')

\* patch(update), finish(update): Object.assign to the event, and write it.
Patch(w) ==
    /\ \E e \in handles : Begin(w, e)
    /\ UNCHANGED created

Goto(w, label) ==
    /\ step' = [step EXCEPT ![w] = label]
    /\ UNCHANGED event

\* write() is over, and its variables are gone.
Leave(w) ==
    /\ step' = [step EXCEPT ![w] = "idle"]
    /\ event' = [event EXCEPT ![w] = 0]
    /\ excess' = [excess EXCEPT ![w] = 0]
    /\ stale' = [stale EXCEPT ![w] = {}]

\* It resolves, and if create() was waiting for it there is a handle now.
Return(w) ==
    /\ Leave(w)
    /\ handles' = handles \cup {event[w]}

\* Mutant: the hash is written as it was when the event was created.
WriteHashAsCreated(w) ==
    /\ step[w] = "hash"
    /\ stored' = [stored EXCEPT ![event[w]] = 1]
    /\ Goto(w, "index")
    /\ UNCHANGED <<objects, handles, index, excess, stale, faults, crossed>>

\* hSet of the event as it is now.
WriteHash(w) ==
    /\ step[w] = "hash"
    /\ stored' = [stored EXCEPT ![event[w]] = version[event[w]]]
    /\ Goto(w, "index")
    /\ UNCHANGED <<objects, handles, index, excess, stale, faults, crossed>>

\* zAdd, which is harmless to an event that is in the index.
AddToIndex(w) ==
    /\ step[w] = "index"
    /\ index' = index \cup {event[w]}
    /\ Goto(w, "count")
    /\ UNCHANGED <<objects, handles, stored, excess, stale, faults, crossed>>

Trimming(w) == step[w] \in {"range", "remove"}

\* Mutant: the index may hold one event more.
CountLoose(w) ==
    /\ step[w] = "count"
    /\ \/ Cardinality(index) <= MaxEvents + 1 /\ Return(w)
       \/ /\ Cardinality(index) > MaxEvents + 1
          /\ excess' = [excess EXCEPT ![w] = Cardinality(index) - MaxEvents]
          /\ Goto(w, "range") /\ UNCHANGED <<handles, stale>>
    /\ crossed' = (crossed \/ \E v \in Writers \ {w} : Trimming(v))
    /\ UNCHANGED <<objects, stored, index, faults>>

\* zCard: done within the cap, or it becomes known how many are too many.
Count(w) ==
    /\ step[w] = "count"
    /\ \/ Cardinality(index) <= MaxEvents /\ Return(w)
       \/ /\ Cardinality(index) > MaxEvents
          /\ excess' = [excess EXCEPT ![w] = Cardinality(index) - MaxEvents]
          /\ Goto(w, "range") /\ UNCHANGED <<handles, stale>>
    /\ crossed' = (crossed \/ \E v \in Writers \ {w} : Trimming(v))
    /\ UNCHANGED <<objects, stored, index, faults>>

\* Mutant: 0 .. count - max in place of 0 .. count - max - 1.
ListStaleOneMore(w) ==
    /\ step[w] = "range"
    /\ stale' = [stale EXCEPT ![w] = Oldest(index, excess[w] + 1)]
    /\ Goto(w, "remove")
    /\ UNCHANGED <<objects, handles, stored, index, excess, faults, crossed>>

\* zRange 0 .. count - max - 1 of the index as it is now; nothing is left to do
\* when that is empty.
ListStale(w) ==
    /\ step[w] = "range"
    /\ \/ index = {} /\ Return(w)
       \/ /\ index # {}
          /\ stale' = [stale EXCEPT ![w] = Oldest(index, excess[w])]
          /\ Goto(w, "remove") /\ UNCHANGED <<handles, excess>>
    /\ UNCHANGED <<objects, stored, index, faults, crossed>>

\* Mutant: the hashes are left behind.
RemoveFromIndexOnly(w) ==
    /\ step[w] = "remove"
    /\ index' = index \ stale[w]
    /\ Return(w)
    /\ UNCHANGED <<objects, stored, faults, crossed>>

\* zRem.
RemoveFromIndex(w) ==
    /\ step[w] = "remove"
    /\ index' = index \ stale[w]
    /\ Goto(w, "delete")
    /\ UNCHANGED <<objects, handles, stored, excess, stale, faults, crossed>>

\* del.
DeleteHashes(w) ==
    /\ step[w] = "delete"
    /\ stored' = [e \in Ids |-> IF e \in stale[w] THEN 0 ELSE stored[e]]
    /\ Return(w)
    /\ UNCHANGED <<objects, index, faults, crossed>>

\* A command is refused: the rest of the write is not done.
Fail(w) ==
    /\ step[w] # "idle"
    /\ Leave(w)
    /\ faults < MaxFaults /\ faults' = faults + 1
    /\ UNCHANGED <<objects, handles, stored, index, crossed>>

Next ==
    \E w \in Writers :
       \/ Create(w) \/ Patch(w) \/ WriteHash(w) \/ AddToIndex(w) \/ Count(w)
       \/ ListStale(w) \/ RemoveFromIndex(w) \/ DeleteHashes(w) \/ Fail(w)

Spec == Init /\ [][Next]_vars

(***************************************************************************)
(* Properties                                                              *)
(***************************************************************************)

Steps == {"idle", "hash", "index", "count", "range", "remove", "delete"}

TypeOK ==
    /\ writes \in 0 .. MaxWrites /\ created \in 0 .. writes
    /\ handles \subseteq 1 .. created
    /\ version \in [Ids -> 0 .. writes]
    /\ stored \in [Ids -> 0 .. writes]
    /\ index \subseteq Ids
    /\ step \in [Writers -> Steps]
    /\ event \in [Writers -> 0 .. created]
    /\ excess \in [Writers -> Nat]
    /\ stale \in [Writers -> SUBSET Ids]
    /\ faults \in 0 .. MaxFaults /\ crossed \in BOOLEAN

AtRest == \A w \in Writers : step[w] = "idle"

\* However writes interleave, when they are done the index is within the cap; and
\* each write cut short leaves it at most one event beyond.
WithinCap == AtRest => Cardinality(index) <= MaxEvents + faults

Quiet == AtRest /\ faults = 0

\* However writes interleave -- one event trimmed by one writer while another
\* writes it again -- no hash is left that the index does not name: nothing would
\* ever list it or delete it.
NothingLeaks == Quiet => \A e \in Ids : stored[e] # 0 => e \in index

\* However writes of one event overlap, what stays in Redis is its last version.
StoredIsLatest == Quiet => \A e \in Ids : stored[e] \in {0, version[e]}

\* As long as no writer counts while another is trimming, what is kept is exactly
\* the newest events, each with its hash.  (When two trims cross, the second goes
\* by a count taken before the first and drops events within the cap as well.)
TrimIsExact ==
    Quiet /\ ~crossed =>
        /\ index = {e \in 1 .. created : e + MaxEvents > created}
        /\ \A e \in index : stored[e] # 0

=============================================================================
