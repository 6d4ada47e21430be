-------------------------- MODULE KeepaSync_proofs --------------------------
(***************************************************************************)
(* Proofs about KeepaSync for any ASINs, listings and emitters, and any    *)
(* numbers of events, changes, rounds and faults.                          *)
(***************************************************************************)
EXTENDS KeepaSync, FiniteSetTheorems, WellFoundedInduction, TLAPS

-----------------------------------------------------------------------------
(* The projection's operators.                                             *)

(* A row keeps being a row with another version.                           *)
LEMMA RowParts ==
  /\ Absent \in Row
  /\ \A r \in Row, n \in Nat : [r EXCEPT !.ver = n] \in Row /\ [r EXCEPT !.ver = n].ver = n
  /\ \A r \in Row : r.ver \in Nat
BY DEF Row, Absent

LEMMA RowForType ==
  ASSUME NEW ls, IsFiniteSet(DOMAIN ls), NEW sold, NEW ver \in Nat
  PROVE  RowFor(ls, sold, ver) \in Row /\ RowFor(ls, sold, ver).ver = ver
<1> DEFINE held == {l \in DOMAIN ls : ls[l].stock \in {"stocked", "botZeroed"}}
<1>1. Cardinality(held) \in Nat
BY FS_Subset, FS_CardinalityType
<1> HIDE DEF held
<1>2. RowFor(ls, sold, ver).count = Cardinality(held)
BY DEF RowFor, held
<1> QED
BY <1>1, <1>2 DEF RowFor, Row, held

LEMMA ProjectionType ==
  ASSUME NEW ls, IsFiniteSet(DOMAIN ls)
  PROVE  Projection(ls) \in Row
BY RowForType DEF Projection

(* Central's row is a row of the version it is given, or none.             *)
LEMMA CentralRowType ==
  ASSUME NEW ls, IsFiniteSet(DOMAIN ls), NEW ver \in Nat
  PROVE  CentralRow(ls, ver) \in Row /\ CentralRow(ls, ver).ver <= ver
<1> DEFINE row == RowFor(ls, \E l \in DOMAIN ls : ls[l].stock # "ended" /\ ls[l].sold, ver)
<1>1. row \in Row /\ row.ver = ver
BY RowForType
<1> HIDE DEF row
<1>2. CentralRow(ls, ver) = IF Present(row) THEN row ELSE Absent
BY DEF CentralRow, row
<1> QED
BY <1>1, <1>2, RowParts DEF Absent

LEMMA TransitionType ==
  ASSUME NEW prev \in Row, NEW next \in Row
  PROVE  Transition(prev, next) \in Seq(EventTypes)
<1> DEFINE S  == Seq(EventTypes)
           c1 == If(next.count > 0, "CONSUMER_ATTACHED")
           c2 == If(next.status = "PAUSED_QTY_ZERO", "QTY_ZERO_PAUSED")
           c3 == If(next.priority = "SOLD", "SOLD_PRIORITY_CHANGED")
           c4 == If(prev.ver = 0, "ASIN_REMOVED")
           d1 == If(next.count > prev.count, "CONSUMER_ATTACHED")
           d2 == If(next.count < prev.count, "CONSUMER_DETACHED")
           d3 == If(prev.status = "ACTIVE" /\ next.status = "PAUSED_QTY_ZERO", "QTY_ZERO_PAUSED")
           d4 == If(prev.status = "PAUSED_QTY_ZERO" /\ next.status = "ACTIVE", "QTY_POSITIVE_RESUMED")
           d5 == If(prev.priority # next.priority, "SOLD_PRIORITY_CHANGED")
           steps == d1 \o d2 \o d3 \o d4 \o d5
<1>0. <<>> \in S /\ \A t \in EventTypes : <<t>> \in S
OBVIOUS
<1>1. c1 \in S /\ c2 \in S /\ c3 \in S /\ c4 \in S
  <2>1. /\ c1 \in {<<>>, <<"CONSUMER_ATTACHED">>} /\ c2 \in {<<>>, <<"QTY_ZERO_PAUSED">>}
        /\ c3 \in {<<>>, <<"SOLD_PRIORITY_CHANGED">>} /\ c4 \in {<<>>, <<"ASIN_REMOVED">>}
  BY Zenon DEF If
  <2> QED
  BY <1>0, <2>1, Zenon DEF EventTypes
<1>2. d1 \in S /\ d2 \in S /\ d3 \in S /\ d4 \in S /\ d5 \in S
  <2>1. /\ d1 \in {<<>>, <<"CONSUMER_ATTACHED">>} /\ d2 \in {<<>>, <<"CONSUMER_DETACHED">>}
        /\ d3 \in {<<>>, <<"QTY_ZERO_PAUSED">>} /\ d4 \in {<<>>, <<"QTY_POSITIVE_RESUMED">>}
        /\ d5 \in {<<>>, <<"SOLD_PRIORITY_CHANGED">>}
  BY Zenon DEF If
  <2> QED
  BY <1>0, <2>1, Zenon DEF EventTypes
<1>3. <<"ASIN_UPSERT">> \in S /\ <<"ASIN_REMOVED">> \in S
BY DEF EventTypes
<1> HIDE DEF c1, c2, c3, c4, d1, d2, d3, d4, d5
<1>4. steps \in S
BY <1>2
<1>5. <<"ASIN_UPSERT">> \o c1 \o c2 \o c3 \in S
BY <1>1, <1>3
<1>6. \/ Transition(prev, next) = c4
      \/ Transition(prev, next) = <<"ASIN_UPSERT">> \o c1 \o c2 \o c3
      \/ Transition(prev, next) \in {<<"ASIN_REMOVED">>, <<"ASIN_UPSERT">>, steps}
BY DEF Transition, c1, c2, c3, c4, d1, d2, d3, d4, d5
<1> QED
BY <1>1, <1>3, <1>4, <1>5, <1>6

LEMMA AppliedType ==
  ASSUME NEW row \in Row, NEW ev, ev.proj \in Row
  PROVE  /\ Applied(row, ev) \in Row
         /\ Applied(row, ev).ver \in {row.ver, ev.proj.ver, 0}
BY DEF Applied, Written, Row, Absent, Present

-----------------------------------------------------------------------------
(* First and last of a finite set of numbers.                              *)

(* `Numbers` keeps the types of the members away from steps about sets.     *)
Numbers(ids) == ids \subseteq Nat /\ IsFiniteSet(ids)

(* A finite set of sets that is not empty has a member that contains no other. *)
LEMMA SmallestSet ==
  ASSUME NEW S, IsFiniteSet(S), NEW T, T \subseteq SUBSET S, T # {}
  PROVE  \E t \in T : \A u \in T : u \subseteq t => u = t
<1>1. T \subseteq FiniteSubsetsOf(S)
BY FS_FiniteSubsetsOfFinite
<1>2. PICK t \in T : \A u \in T : ~(<<u, t>> \in StrictSubsetOrdering(S))
BY <1>1, FS_StrictSubsetOrderingWellFounded, WFMin
<1> QED
BY <1>2 DEF StrictSubsetOrdering

LEMMA LastIn ==
  ASSUME NEW ids, Numbers(ids), ids # {}
  PROVE  Last(ids) \in ids /\ \A j \in ids : j <= Last(ids)
<1> DEFINE above(i) == {j \in ids : j > i}
<1> DEFINE sets == {above(i) : i \in ids}
<1>fin. IsFiniteSet(ids)
BY DEF Numbers
<1>0. sets \subseteq SUBSET ids /\ sets # {}
OBVIOUS
<1> HIDE DEF sets
<1>1. PICK t \in sets : \A u \in sets : u \subseteq t => u = t
BY <1>0, <1>fin, SmallestSet
<1>2. PICK i \in ids : t = above(i)
BY <1>1 DEF sets
<1>3. ASSUME NEW j \in ids PROVE j <= i
  <2>1. i \in Nat /\ j \in Nat /\ \A k \in ids : k \in Nat
  BY DEF Numbers
  <2> SUFFICES ASSUME j > i PROVE FALSE
  BY <2>1
  <2>2. ~(j > j) /\ \A k \in ids : k > j => k > i
  BY <2>1
  <2>3. above(j) \subseteq above(i) /\ above(j) # above(i)
  BY <2>2
  <2>4. above(j) \in sets
  BY DEF sets
  <2> QED
  BY <2>3, <2>4, <1>1, <1>2
<1> QED
BY <1>3 DEF Last

LEMMA EarliestIn ==
  ASSUME NEW ids, Numbers(ids), ids # {}
  PROVE  Earliest(ids) \in ids /\ \A j \in ids : Earliest(ids) <= j
<1> DEFINE below(i) == {j \in ids : j < i}
<1> DEFINE sets == {below(i) : i \in ids}
<1>fin. IsFiniteSet(ids)
BY DEF Numbers
<1>0. sets \subseteq SUBSET ids /\ sets # {}
OBVIOUS
<1> HIDE DEF sets
<1>1. PICK t \in sets : \A u \in sets : u \subseteq t => u = t
BY <1>0, <1>fin, SmallestSet
<1>2. PICK i \in ids : t = below(i)
BY <1>1 DEF sets
<1>3. ASSUME NEW j \in ids PROVE i <= j
  <2>1. i \in Nat /\ j \in Nat /\ \A k \in ids : k \in Nat
  BY DEF Numbers
  <2> SUFFICES ASSUME j < i PROVE FALSE
  BY <2>1
  <2>2. ~(j < j) /\ \A k \in ids : k < j => k < i
  BY <2>1
  <2>3. below(j) \subseteq below(i) /\ below(j) # below(i)
  BY <2>2
  <2>4. below(j) \in sets
  BY DEF sets
  <2> QED
  BY <2>3, <2>4, <1>1, <1>2
<1> QED
BY <1>3 DEF Earliest

(* Ids is a finite set of positive numbers.                                *)
LEMMA IdsFinite ==
  /\ \A ids \in SUBSET Ids : Numbers(ids)
  /\ \A i \in Ids : i \in 1..MaxEvents
<1>1. MaxEvents \in Nat /\ Ids = 1..MaxEvents
BY LimitsAssumption DEF Ids
<1>2. IsFiniteSet(Ids)
BY <1>1, FS_Interval
<1>3. \A ids \in SUBSET Ids : IsFiniteSet(ids)
BY <1>2, FS_Subset
<1> QED
BY <1>1, <1>3 DEF Numbers

-----------------------------------------------------------------------------
(* The inductive invariant.                                                *)

Within(table) == \A a \in Asins : table[a].ver <= syncState[a].ver

Working == {"upsert", "insert", "commit"}

(* What an emitter has read is about an ASIN; what it is inserting is of a *)
(* version central has given out.                                          *)
Emitting ==
  \A e \in Emitters :
    /\ emitter[e].pc # "idle" => emitter[e].asin \in Asins
    /\ emitter[e].pc \in Working => emitter[e].types # <<>>
    /\ emitter[e].pc \in {"insert", "commit"} =>
         emitter[e].next.ver <= syncState[emitter[e].asin].ver
    /\ emitter[e].pc = "commit" => emitter[e].id \in Ids /\ status[emitter[e].id] # "none"

(* An inserted event is about an ASIN and of a version given out.          *)
EventsKnown ==
  \A i \in Ids : status[i] # "none" =>
    /\ event[i].asin \in Asins
    /\ event[i].proj.ver <= syncState[event[i].asin].ver

PulledKnown == \A i \in pulled : status[i] # "none"

IInv ==
  /\ TypeOK /\ Emitting /\ EventsKnown /\ PulledKnown
  /\ Within(registry) /\ Within(work)

(* Central's rows, the empty table and what is in them.                    *)
LEMMA CentralType ==
  ASSUME CentralTypeOK
  PROVE  Central \in [Asins -> Row] /\ Within(Central)
<1>1. ASSUME NEW a \in Asins
      PROVE  /\ CentralRow(ListingsOf(a), syncState[a].ver) \in Row
             /\ CentralRow(ListingsOf(a), syncState[a].ver).ver <= syncState[a].ver
  <2>1. DOMAIN ListingsOf(a) \in SUBSET Listings
  BY DEF ListingsOf
  <2>2. IsFiniteSet(DOMAIN ListingsOf(a))
  BY <2>1, ListingsAssumption, FS_Subset
  <2>3. syncState[a].ver \in Nat
  BY RowParts DEF CentralTypeOK
  <2> QED
  BY <2>2, <2>3, CentralRowType
<1> QED
BY <1>1 DEF Central, Within

LEMMA EmptyType ==
  ASSUME CentralTypeOK
  PROVE  EmptyTable \in [Asins -> Row] /\ Within(EmptyTable)
<1>1. \A a \in Asins : syncState[a].ver \in Nat /\ Absent \in Row /\ Absent.ver = 0
BY RowParts DEF CentralTypeOK, Absent
<1> QED
BY <1>1 DEF EmptyTable, Within

LEMMA EventType ==
  ASSUME CentralTypeOK, NEW i \in Ids
  PROVE  event[i].proj \in Row /\ event[i].proj.ver \in Nat
<1>1. event[i] \in Event
BY DEF CentralTypeOK
<1>2. event[i].proj \in Row
BY <1>1, RowParts DEF Event, NoEvent
<1> QED
BY <1>2, RowParts

LEMMA InitInv == Init => IInv /\ DeliveredIsRecorded
<1> SUFFICES ASSUME Init PROVE IInv /\ DeliveredIsRecorded
OBVIOUS
<1>1. CentralTypeOK
  <2>1. NoEmit \in EmitterState
  BY RowParts, LimitsAssumption DEF NoEmit, EmitterState
  <2>2. listing \in [Listings -> Listing]
  BY DEF Init, Listing, Stock
  <2> QED
  BY <2>1, <2>2, RowParts, LimitsAssumption DEF Init, CentralTypeOK, Event
<1>2. SqliteTypeOK
BY <1>1, EmptyType, LimitsAssumption DEF Init, SqliteTypeOK, Phases
<1>3. MemoryTypeOK
  <2>1. NoSnap \in Snap
  BY LimitsAssumption DEF NoSnap, Snap
  <2> QED
  BY <1>1, <2>1, EmptyType, LimitsAssumption DEF Init, MemoryTypeOK, Steps, Calls
<1>4. TypeOK
  <2>1. agreed \in BOOLEAN
  BY Zenon DEF Init, InSync
  <2>2. changes \in 0..MaxChanges /\ faults \in 0..MaxFaults
  BY LimitsAssumption DEF Init
  <2> QED
  BY <1>1, <1>2, <1>3, <2>1, <2>2 DEF TypeOK
<1>5. Emitting /\ EventsKnown /\ PulledKnown /\ DeliveredIsRecorded
BY DEF Init, Emitting, EventsKnown, PulledKnown, DeliveredIsRecorded, NoEmit, Working
<1>6. Within(registry) /\ Within(work)
BY <1>1, EmptyType DEF Init
<1> QED
BY <1>4, <1>5, <1>6 DEF IInv

-----------------------------------------------------------------------------
(* What a step leaves alone.                                               *)

CentralInv == CentralTypeOK /\ Emitting /\ EventsKnown
SqliteInv  == SqliteTypeOK /\ Within(registry)
MemoryInv  == MemoryTypeOK /\ PulledKnown /\ Within(work)
BudgetInv  == agreed \in BOOLEAN /\ changes \in 0..MaxChanges /\ faults \in 0..MaxFaults

LEMMA IInvParts ==
  /\ IInv <=> CentralInv /\ SqliteInv /\ MemoryInv /\ BudgetInv
  /\ IInv' <=> (CentralInv' /\ SqliteInv' /\ MemoryInv' /\ BudgetInv')
BY DEF IInv, TypeOK, CentralInv, SqliteInv, MemoryInv, BudgetInv

(* An event once inserted stays inserted.                                  *)
StatusKept == \A i \in Ids : status[i] # "none" => status'[i] # "none"
VersionsKept == \A a \in Asins : syncState[a].ver <= syncState'[a].ver

LEMMA CentralKept ==
  ASSUME CentralInv, UNCHANGED <<catalogVars, emitter>>
  PROVE  CentralInv' /\ StatusKept /\ VersionsKept
<1> USE DEF catalogVars
<1>1. VersionsKept
BY RowParts DEF CentralInv, CentralTypeOK, VersionsKept
<1> QED
BY <1>1 DEF CentralInv, CentralTypeOK, Emitting, EventsKnown, StatusKept, ListingsOf

(* Within survives when versions only grow.                                *)
LEMMA WithinKept ==
  ASSUME CentralInv, CentralInv', VersionsKept, NEW t \in [Asins -> Row], Within(t),
         NEW u, u = t
  PROVE  \A a \in Asins : u[a].ver <= syncState'[a].ver
<1>1. \A a \in Asins : t[a].ver \in Nat /\ syncState[a].ver \in Nat /\ syncState'[a].ver \in Nat
BY RowParts DEF CentralInv, CentralTypeOK
<1> QED
BY <1>1 DEF Within, VersionsKept

LEMMA SqliteKept ==
  ASSUME CentralInv, CentralInv', VersionsKept, SqliteInv, UNCHANGED sqliteVars
  PROVE  SqliteInv'
<1>1. Within(registry)'
BY WithinKept DEF SqliteInv, SqliteTypeOK, Within, sqliteVars
<1> QED
BY <1>1 DEF SqliteInv, SqliteTypeOK, sqliteVars

LEMMA MemoryKept ==
  ASSUME CentralInv, CentralInv', VersionsKept, StatusKept, MemoryInv, UNCHANGED memoryVars
  PROVE  MemoryInv'
<1>1. Within(work)'
BY WithinKept DEF MemoryInv, MemoryTypeOK, Within, memoryVars
<1> QED
BY <1>1 DEF MemoryInv, MemoryTypeOK, PulledKnown, StatusKept, memoryVars

LEMMA BudgetKept ==
  ASSUME BudgetInv, Witness, changes' = changes, Fault \/ Served
  PROVE  BudgetInv'
<1>1. agreed' \in BOOLEAN
BY Zenon DEF Witness, InSync
<1>2. changes' \in 0..MaxChanges /\ faults' \in 0..MaxFaults
BY LimitsAssumption DEF BudgetInv, Fault, Served
<1> QED
BY <1>1, <1>2 DEF BudgetInv

-----------------------------------------------------------------------------
(* Where the collector's loop may go on.                                   *)

LEMMA GotoInv ==
  ASSUME CentralInv, CentralInv', VersionsKept, StatusKept, MemoryInv,
         NEW p \in Steps, NEW c \in Calls, NEW r \in 0..MaxRounds,
         NEW w \in [Asins -> Row], Within(w),
         NEW ids \in SUBSET Ids, \A i \in ids : status[i] # "none",
         Goto(p, c, r, w, ids)
  PROVE  MemoryInv'
<1>1. MemoryTypeOK'
  <2>1. NoSnap \in Snap
  BY LimitsAssumption DEF NoSnap, Snap
  <2> QED
  BY <2>1, LimitsAssumption DEF Goto, MemoryInv, MemoryTypeOK
<1>2. PulledKnown'
BY DEF PulledKnown, Goto, StatusKept
<1>3. Within(work)'
BY WithinKept DEF Within, Goto
<1> QED
BY <1>1, <1>2, <1>3 DEF MemoryInv

LEMMA FreshInv ==
  ASSUME CentralInv, CentralInv', VersionsKept, StatusKept, MemoryInv,
         NEW p \in Steps, NEW c \in Calls, NEW r \in 0..MaxRounds,
         Goto(p, c, r, EmptyTable, {})
  PROVE  MemoryInv'
BY GotoInv, EmptyType DEF CentralInv

LEMMA EndInv ==
  ASSUME CentralInv, CentralInv', VersionsKept, StatusKept, MemoryInv,
         \/ \E p \in Steps : Rest(p)
         \/ EndBootstrap
         \/ \E c \in Calls : StartSnapshot(c)
         \/ \E stop \in BOOLEAN : EndCatchup(stop) \/ EndFlush(stop)
         \/ Unanswered \/ CatchupFails
  PROVE  MemoryInv'
<1>0. 0 \in 0..MaxRounds
BY LimitsAssumption
<1>1. ASSUME NEW p \in Steps, Rest(p) PROVE MemoryInv'
BY <1>0, <1>1, FreshInv DEF Rest, Calls
<1>2. ASSUME NEW c \in Calls, StartSnapshot(c) PROVE MemoryInv'
BY <1>0, <1>2, FreshInv DEF StartSnapshot, Steps
<1>3. ASSUME EndBootstrap PROVE MemoryInv'
BY <1>1, <1>3 DEF EndBootstrap, Steps
<1>4. ASSUME NEW stop \in BOOLEAN, EndCatchup(stop) PROVE MemoryInv'
BY <1>1, <1>2, <1>4 DEF EndCatchup, Steps, Calls
<1>5. ASSUME NEW stop \in BOOLEAN, EndFlush(stop) PROVE MemoryInv'
  <2>1. (stop /\ call # "after") \in BOOLEAN
  OBVIOUS
  <2> QED
  BY <1>3, <1>4, <1>5, <2>1 DEF EndFlush
<1>6. ASSUME Unanswered PROVE MemoryInv'
BY <1>1, <1>3, <1>6 DEF Unanswered, Steps
<1>7. ASSUME CatchupFails PROVE MemoryInv'
BY <1>5, <1>6, <1>7 DEF CatchupFails
<1> QED
BY <1>1, <1>2, <1>3, <1>4, <1>5, <1>6, <1>7

-----------------------------------------------------------------------------
(* The emitters' steps.                                                    *)

(* A step that leaves rows, events and collector alone, and one emitter in *)
(* a state that keeps what the invariant asks of it.                       *)
EmitterOK(m) ==
  /\ m.pc # "idle" => m.asin \in Asins
  /\ m.pc \in Working => m.types # <<>>
  /\ m.pc \in {"insert", "commit"} => m.next.ver <= syncState'[m.asin].ver
  /\ m.pc = "commit" => m.id \in Ids /\ status'[m.id] # "none"

LEMMA EmitterMoves ==
  ASSUME CentralInv, VersionsKept, StatusKept, syncState' \in [Asins -> Row],
         NEW e \in Emitters, NEW m \in EmitterState, EmitterOK(m),
         emitter' = [emitter EXCEPT ![e] = m]
  PROVE  emitter' \in [Emitters -> EmitterState] /\ Emitting'
<1>1. emitter' \in [Emitters -> EmitterState]
BY DEF CentralInv, CentralTypeOK
<1>2. ASSUME NEW f \in Emitters PROVE EmitterOK(emitter'[f])
  <2>1. CASE f = e
  BY <2>1 DEF CentralInv, CentralTypeOK
  <2>2. CASE f # e
    <3>1. emitter'[f] = emitter[f] /\ emitter[f] \in EmitterState
    BY <2>2 DEF CentralInv, CentralTypeOK
    <3>2. emitter[f].next.ver \in Nat /\ \A a \in Asins : syncState[a].ver \in Nat /\ syncState'[a].ver \in Nat
    BY <3>1, RowParts DEF CentralInv, CentralTypeOK, EmitterState
    <3> QED
    BY <3>1, <3>2 DEF EmitterOK, CentralInv, Emitting, VersionsKept, StatusKept
  <2> QED
  BY <2>1, <2>2
<1> QED
BY <1>1, <1>2 DEF Emitting, EmitterOK

LEMMA EventsStay ==
  ASSUME CentralInv, VersionsKept, event' = event, status' = status,
         syncState' \in [Asins -> Row]
  PROVE  EventsKnown'
<1>1. \A i \in Ids : event[i].proj.ver \in Nat
BY EventType DEF CentralInv
<1>2. \A a \in Asins : syncState[a].ver \in Nat /\ syncState'[a].ver \in Nat
BY RowParts DEF CentralInv, CentralTypeOK
<1> QED
BY <1>1, <1>2 DEF CentralInv, EventsKnown, VersionsKept

LEMMA NoEmitOK ==
  NoEmit \in EmitterState /\ EmitterOK(NoEmit)
BY RowParts, LimitsAssumption DEF NoEmit, EmitterState, EmitterOK, Working

LEMMA StepSame ==
  ASSUME CentralInv, syncState' = syncState, status' = status
  PROVE  VersionsKept /\ StatusKept
BY RowParts DEF CentralInv, CentralTypeOK, VersionsKept, StatusKept

LEMMA ChangeStep ==
  ASSUME IInv, NEW e \in Emitters, Change(e)
  PROVE  IInv'
<1>1. CentralInv /\ SqliteInv /\ MemoryInv /\ BudgetInv
BY IInvParts
<1>2. VersionsKept /\ StatusKept
BY <1>1, StepSame DEF Change, outboxVars
<1>3. PICK l \in Listings :
        /\ \/ \E s \in Stocks \ {listing[l].stock} : listing' = [listing EXCEPT ![l].stock = s]
           \/ listing' = [listing EXCEPT ![l].sold = TRUE]
        /\ emitter' = [emitter EXCEPT ![e] = [NoEmit EXCEPT !.pc = "load", !.asin = AsinOf[l]]]
BY DEF Change
<1>4. listing' \in [Listings -> Listing]
  <2>1. listing \in [Listings -> Listing]
  BY <1>1 DEF CentralInv, CentralTypeOK
  <2>2. ASSUME NEW s \in Stocks PROVE [listing EXCEPT ![l].stock = s] \in [Listings -> Listing]
  BY <2>1, ListingsAssumption DEF Listing
  <2>3. [listing EXCEPT ![l].sold = TRUE] \in [Listings -> Listing]
  BY <2>1 DEF Listing
  <2> QED
  BY <1>3, <2>2, <2>3
<1>5. emitter' \in [Emitters -> EmitterState] /\ Emitting'
  <2> DEFINE m == [NoEmit EXCEPT !.pc = "load", !.asin = AsinOf[l]]
  <2>1. m \in EmitterState /\ EmitterOK(m)
  BY NoEmitOK, ListingsAssumption DEF NoEmit, EmitterState, EmitterOK, Working
  <2>2. syncState' \in [Asins -> Row]
  BY <1>1 DEF Change, CentralInv, CentralTypeOK
  <2> QED
  BY <1>1, <1>2, <1>3, <2>1, <2>2, EmitterMoves
<1>6. CentralInv'
BY <1>1, <1>2, <1>4, <1>5, EventsStay DEF Change, outboxVars, CentralInv, CentralTypeOK
<1>7. SqliteInv' /\ MemoryInv'
BY <1>1, <1>2, <1>6, SqliteKept, MemoryKept DEF Change
<1>8. BudgetInv'
  <2>1. agreed' \in BOOLEAN
  BY Zenon DEF Change, Witness, InSync
  <2> QED
  BY <1>1, <2>1, LimitsAssumption DEF Change, BudgetInv
<1> QED
BY <1>6, <1>7, <1>8, IInvParts

(* The steps of an emitter that change nothing but the emitter.            *)
LEMMA EmitterAlone ==
  ASSUME IInv, NEW e \in Emitters, NEW m \in EmitterState, EmitterOK(m),
         emitter' = [emitter EXCEPT ![e] = m],
         UNCHANGED <<catalogVars, sqliteVars, memoryVars, changes>>,
         Fault \/ Served, Witness
  PROVE  IInv'
<1>1. CentralInv /\ SqliteInv /\ MemoryInv /\ BudgetInv
BY IInvParts
<1>2. VersionsKept /\ StatusKept
BY <1>1, StepSame DEF catalogVars
<1>3. syncState' \in [Asins -> Row]
BY <1>1 DEF catalogVars, CentralInv, CentralTypeOK
<1>4. emitter' \in [Emitters -> EmitterState] /\ Emitting' /\ EventsKnown'
BY <1>1, <1>2, <1>3, EmitterMoves, EventsStay DEF catalogVars
<1>5. CentralInv'
BY <1>1, <1>4 DEF catalogVars, CentralInv, CentralTypeOK
<1>6. SqliteInv' /\ MemoryInv' /\ BudgetInv'
BY <1>1, <1>2, <1>5, SqliteKept, MemoryKept, BudgetKept
<1> QED
BY <1>5, <1>6, IInvParts

LEMMA EmitterParts ==
  ASSUME IInv, NEW e \in Emitters
  PROVE  emitter[e] \in EmitterState /\ (emitter[e].pc # "idle" => emitter[e].asin \in Asins)
BY DEF IInv, TypeOK, CentralTypeOK, Emitting

LEMMA LoadSteps ==
  ASSUME IInv, NEW e \in Emitters, LoadProjection(e) \/ LoadPrevious(e) \/ EmitLost(e)
  PROVE  IInv'
<1> DEFINE m == emitter[e]
<1>1. m \in EmitterState /\ (m.pc # "idle" => m.asin \in Asins)
BY EmitterParts
<1>2. CASE LoadProjection(e)
  <2> DEFINE k == [m EXCEPT !.pc = "prev", !.next = Projection(ListingsOf(m.asin))]
  <2>1. IsFiniteSet(DOMAIN ListingsOf(m.asin))
  BY ListingsAssumption, FS_Subset DEF ListingsOf
  <2>2. k \in EmitterState /\ EmitterOK(k)
  BY <1>1, <1>2, <2>1, ProjectionType DEF LoadProjection, EmitterState, EmitterOK, Working
  <2>3. emitter' = [emitter EXCEPT ![e] = k]
  BY <1>2 DEF LoadProjection
  <2>4. UNCHANGED <<catalogVars, sqliteVars, memoryVars, changes>> /\ Served /\ Witness
  BY <1>2 DEF LoadProjection, Served
  <2> HIDE DEF k
  <2> QED
  BY <2>2, <2>3, <2>4, EmitterAlone
<1>3. CASE LoadPrevious(e)
  <2> DEFINE types == Transition(syncState[m.asin], m.next)
             k == [m EXCEPT !.pc = "upsert", !.types = types]
  <2>1. types \in Seq(EventTypes)
  BY <1>1, <1>3, TransitionType DEF LoadPrevious, IInv, TypeOK, CentralTypeOK, EmitterState
  <2>2. CASE types = <<>>
    <3>1. emitter' = [emitter EXCEPT ![e] = NoEmit]
    BY <1>3, <2>2 DEF LoadPrevious
    <3> QED
    BY <1>3, <3>1, NoEmitOK, EmitterAlone DEF LoadPrevious, Served
  <2>3. CASE types # <<>>
    <3>1. k \in EmitterState /\ EmitterOK(k)
    BY <1>1, <1>3, <2>1, <2>3 DEF LoadPrevious, EmitterState, EmitterOK, Working
    <3>2. emitter' = [emitter EXCEPT ![e] = k]
    BY <1>3, <2>3 DEF LoadPrevious
    <3>3. UNCHANGED <<catalogVars, sqliteVars, memoryVars, changes>> /\ Served /\ Witness
    BY <1>3 DEF LoadPrevious, Served
    <3> HIDE DEF k
    <3> QED
    BY <3>1, <3>2, <3>3, EmitterAlone
  <2> QED
  BY <2>2, <2>3
<1>4. CASE EmitLost(e)
BY <1>4, NoEmitOK, EmitterAlone DEF EmitLost, Fault
<1> QED
BY <1>2, <1>3, <1>4

(* A step of central that leaves the collector alone.                      *)
LEMMA CentralStep ==
  ASSUME IInv, CentralInv', VersionsKept, StatusKept,
         UNCHANGED <<sqliteVars, memoryVars, changes>>, Fault \/ Served, Witness
  PROVE  IInv'
<1>1. CentralInv /\ SqliteInv /\ MemoryInv /\ BudgetInv
BY IInvParts
<1>2. SqliteInv' /\ MemoryInv' /\ BudgetInv'
BY <1>1, SqliteKept, MemoryKept, BudgetKept
<1> QED
BY <1>2, IInvParts

LEMMA UpsertStep ==
  ASSUME IInv, NEW e \in Emitters, UpsertState(e)
  PROVE  IInv'
<1> DEFINE m == emitter[e]
           a == m.asin
           row == [m.next EXCEPT !.ver = syncState[a].ver + 1]
           k == [m EXCEPT !.pc = "insert", !.next = row]
<1>1. CentralInv
BY IInvParts
<1>2. m \in EmitterState /\ a \in Asins /\ m.next \in Row /\ m.types # <<>>
BY EmitterParts DEF UpsertState, EmitterState, IInv, Emitting, Working
<1>3. syncState[a].ver \in Nat /\ \A b \in Asins : syncState[b].ver \in Nat
BY <1>1, <1>2, RowParts DEF CentralInv, CentralTypeOK
<1>4. row \in Row /\ row.ver = syncState[a].ver + 1
BY <1>2, <1>3, RowParts
<1> HIDE DEF row
<1>5. syncState' = [syncState EXCEPT ![a] = row] /\ emitter' = [emitter EXCEPT ![e] = k]
  <2>1. syncState' = [syncState EXCEPT ![a] = row]
  BY DEF UpsertState, row
  <2>2. emitter' = [emitter EXCEPT ![e] = k]
  BY DEF UpsertState, row
  <2> QED
  BY <2>1, <2>2
<1>6. syncState' \in [Asins -> Row] /\ syncState'[a] = row /\ VersionsKept
  <2>1. syncState \in [Asins -> Row]
  BY <1>1 DEF CentralInv, CentralTypeOK
  <2>2. syncState' \in [Asins -> Row] /\ syncState'[a] = row
  BY <1>2, <1>4, <1>5, <2>1
  <2>3. \A b \in Asins \ {a} : syncState'[b] = syncState[b]
  BY <1>5, <2>1
  <2>4. VersionsKept
  BY <1>3, <1>4, <2>2, <2>3 DEF VersionsKept
  <2> QED
  BY <2>2, <2>4
<1>7. event' = event /\ status' = status /\ StatusKept
BY DEF UpsertState, outboxVars, StatusKept
<1>8. k \in EmitterState /\ EmitterOK(k)
  <2>1. k \in EmitterState /\ k.pc = "insert" /\ k.asin = a /\ k.next = row /\ k.types = m.types
  BY <1>2, <1>4 DEF EmitterState
  <2>2. row.ver <= syncState'[a].ver
  BY <1>3, <1>4, <1>6
  <2> HIDE DEF k
  <2> QED
  BY <1>2, <2>1, <2>2 DEF EmitterOK
<1>9. emitter' \in [Emitters -> EmitterState] /\ Emitting' /\ EventsKnown'
  <2> HIDE DEF k
  <2> QED
  BY <1>1, <1>5, <1>6, <1>7, <1>8, EmitterMoves, EventsStay
<1>10. CentralInv'
BY <1>1, <1>6, <1>9 DEF UpsertState, outboxVars, CentralInv, CentralTypeOK
<1>11. UNCHANGED <<sqliteVars, memoryVars, changes>> /\ Served /\ Witness
BY DEF UpsertState, Served
<1> QED
BY <1>6, <1>7, <1>10, <1>11, CentralStep

(* An emitter that has inserted an event goes on to the next, or is done.  *)
LEMMA AfterInsertOK ==
  ASSUME IInv, NEW e \in Emitters, emitter[e].pc \in {"insert", "commit"},
         syncState' = syncState
  PROVE  /\ emitter[e].types \in Seq(EventTypes) /\ emitter[e].types # <<>>
         /\ AfterInsert(e, Tail(emitter[e].types)) \in EmitterState
         /\ EmitterOK(AfterInsert(e, Tail(emitter[e].types)))
<1> DEFINE m == emitter[e]
           k == [m EXCEPT !.pc = "insert", !.types = Tail(m.types)]
<1>1. m \in EmitterState /\ m.asin \in Asins
BY EmitterParts
<1>2. m.types # <<>> /\ m.next.ver <= syncState[m.asin].ver
BY DEF IInv, Emitting, Working
<1>3. m.types \in Seq(EventTypes) /\ Tail(m.types) \in Seq(EventTypes)
BY <1>1, <1>2 DEF EmitterState
<1>4. CASE Tail(m.types) # <<>>
  <2>1. k \in EmitterState /\ EmitterOK(k)
  BY <1>1, <1>2, <1>3, <1>4 DEF EmitterState, EmitterOK, Working
  <2>2. AfterInsert(e, Tail(m.types)) = k
  BY <1>4 DEF AfterInsert
  <2> QED
  BY <1>2, <1>3, <2>1, <2>2
<1>5. CASE Tail(m.types) = <<>>
BY <1>2, <1>3, <1>5, NoEmitOK DEF AfterInsert
<1> QED
BY <1>4, <1>5

(* An event gets a number, is visible or not yet.                          *)
LEMMA NewEvent ==
  ASSUME IInv, NEW e \in Emitters, emitter[e].pc = "insert", used < MaxEvents,
         used' = used + 1, event' = [event EXCEPT ![used'] = Announced(e)],
         NEW s \in {"PENDING", "WRITING"}, status' = [status EXCEPT ![used'] = s],
         syncState' = syncState
  PROVE  /\ event' \in [Ids -> Event] /\ used' \in 0..MaxEvents /\ used' \in Ids
         /\ status' \in [Ids -> {"none", "WRITING", "PENDING", "DELIVERED", "COVERED_BY_SNAPSHOT"}]
         /\ status'[used'] = s
         /\ StatusKept /\ EventsKnown'
<1> DEFINE m == emitter[e]
           ev == Announced(e)
<1>1. CentralInv
BY IInvParts
<1>2. m \in EmitterState /\ m.asin \in Asins /\ m.next.ver <= syncState[m.asin].ver
BY EmitterParts DEF IInv, Emitting
<1>3. m.types \in Seq(EventTypes) /\ m.types # <<>>
BY AfterInsertOK
<1>4. ev \in Event /\ ev.asin = m.asin /\ ev.proj = m.next
  <2>1. Head(m.types) \in EventTypes
  BY <1>3
  <2> QED
  BY <1>2, <2>1 DEF EmitterState, Announced, Event
<1> HIDE DEF ev
<1>5. used' \in Ids /\ used' \in 0..MaxEvents
BY <1>1, LimitsAssumption DEF CentralInv, CentralTypeOK, Ids
<1>6. event \in [Ids -> Event] /\ status \in [Ids ->
        {"none", "WRITING", "PENDING", "DELIVERED", "COVERED_BY_SNAPSHOT"}]
BY <1>1 DEF CentralInv, CentralTypeOK
<1>7. event' = [event EXCEPT ![used'] = ev]
BY DEF ev
<1>8. StatusKept
BY <1>5, <1>6 DEF StatusKept
<1>9. EventsKnown'
  <2>1. ASSUME NEW i \in Ids, status'[i] # "none"
        PROVE  event'[i].asin \in Asins /\ event'[i].proj.ver <= syncState'[event'[i].asin].ver
    <3>1. CASE i = used'
    BY <1>2, <1>4, <1>5, <1>6, <1>7, <3>1
    <3>2. CASE i # used'
    BY <1>1, <1>5, <1>6, <1>7, <2>1, <3>2 DEF CentralInv, EventsKnown
    <3> QED
    BY <3>1, <3>2
  <2> QED
  BY <2>1 DEF EventsKnown
<1>10. event' \in [Ids -> Event]
BY <1>4, <1>5, <1>6, <1>7
<1> QED
BY <1>5, <1>6, <1>8, <1>9, <1>10

LEMMA InsertStep ==
  ASSUME IInv, NEW e \in Emitters, InsertEvent(e)
  PROVE  IInv'
<1> DEFINE m == emitter[e]
           rest == Tail(m.types)
           k == AfterInsert(e, rest)
           w == [m EXCEPT !.pc = "commit", !.id = used']
<1>1. CentralInv
BY IInvParts
<1>2. m \in EmitterState /\ m.asin \in Asins /\ m.pc = "insert"
BY EmitterParts DEF InsertEvent
<1>3. syncState' = syncState /\ syncState' \in [Asins -> Row] /\ listing' = listing
      /\ receipt' = receipt /\ VersionsKept
BY <1>1, RowParts DEF InsertEvent, CentralInv, CentralTypeOK, VersionsKept
<1>4. k \in EmitterState /\ EmitterOK(k) /\ m.types # <<>>
BY <1>2, <1>3, AfterInsertOK
<1>5. UNCHANGED <<sqliteVars, memoryVars, changes>> /\ Served /\ Witness
BY DEF InsertEvent, Served
<1>6. CASE UNCHANGED outboxVars /\ emitter' = [emitter EXCEPT ![e] = k]
  <2>1. StatusKept /\ event' = event /\ status' = status /\ used' = used
  BY <1>6 DEF outboxVars, StatusKept
  <2>2. emitter' \in [Emitters -> EmitterState] /\ Emitting' /\ EventsKnown'
    <3> HIDE DEF k
    <3> QED
    BY <1>1, <1>3, <1>4, <1>6, <2>1, EmitterMoves, EventsStay
  <2>3. CentralInv'
  BY <1>1, <1>3, <2>1, <2>2 DEF CentralInv, CentralTypeOK
  <2> QED
  BY <1>3, <1>5, <2>1, <2>3, CentralStep
<1>7. ASSUME NEW s \in {"PENDING", "WRITING"}, NEW n \in EmitterState, EmitterOK(n),
             used < MaxEvents, used' = used + 1, event' = [event EXCEPT ![used'] = Announced(e)],
             status' = [status EXCEPT ![used'] = s], emitter' = [emitter EXCEPT ![e] = n]
      PROVE  IInv'
  <2>1. /\ event' \in [Ids -> Event] /\ used' \in 0..MaxEvents
        /\ status' \in [Ids -> {"none", "WRITING", "PENDING", "DELIVERED", "COVERED_BY_SNAPSHOT"}]
        /\ StatusKept /\ EventsKnown'
  BY <1>2, <1>3, <1>7, NewEvent
  <2>2. emitter' \in [Emitters -> EmitterState] /\ Emitting'
  BY <1>1, <1>3, <1>7, <2>1, EmitterMoves
  <2>3. CentralInv'
  BY <1>1, <1>3, <2>1, <2>2 DEF CentralInv, CentralTypeOK
  <2> QED
  BY <1>3, <1>5, <2>1, <2>3, CentralStep
<1>8. CASE ~(UNCHANGED outboxVars /\ emitter' = [emitter EXCEPT ![e] = k])
  <2>1. /\ used < MaxEvents /\ used' = used + 1 /\ event' = [event EXCEPT ![used'] = Announced(e)]
        /\ \/ status' = [status EXCEPT ![used'] = "PENDING"] /\ emitter' = [emitter EXCEPT ![e] = k]
           \/ status' = [status EXCEPT ![used'] = "WRITING"] /\ emitter' = [emitter EXCEPT ![e] = w]
  BY <1>1, <1>2, <1>8 DEF InsertEvent, CentralInv, CentralTypeOK
  <2>2. CASE status' = [status EXCEPT ![used'] = "PENDING"] /\ emitter' = [emitter EXCEPT ![e] = k]
    <3> HIDE DEF k
    <3> QED
    BY <1>4, <1>7, <2>1, <2>2
  <2>3. CASE status' = [status EXCEPT ![used'] = "WRITING"] /\ emitter' = [emitter EXCEPT ![e] = w]
    <3>1. used' \in Ids /\ used' \in 0..MaxEvents /\ status'[used'] = "WRITING"
    BY <1>2, <1>3, <2>1, <2>3, NewEvent
    <3>2. m.next.ver <= syncState'[m.asin].ver
    BY <1>1, <1>2, <1>3 DEF CentralInv, Emitting
    <3>3. w \in EmitterState /\ EmitterOK(w)
    BY <1>2, <1>4, <3>1, <3>2 DEF EmitterState, EmitterOK, Working
    <3> HIDE DEF w
    <3> QED
    BY <1>7, <2>1, <2>3, <3>3
  <2> QED
  BY <2>1, <2>2, <2>3
<1> QED
BY <1>6, <1>8

LEMMA CommitStep ==
  ASSUME IInv, NEW e \in Emitters, CommitEvent(e)
  PROVE  IInv'
<1> DEFINE m == emitter[e]
           k == AfterInsert(e, Tail(m.types))
<1>1. CentralInv
BY IInvParts
<1>2. m \in EmitterState /\ m.asin \in Asins /\ m.pc = "commit" /\ m.id \in Ids /\ status[m.id] # "none"
BY EmitterParts DEF CommitEvent, IInv, Emitting
<1>3. /\ syncState' = syncState /\ syncState' \in [Asins -> Row] /\ VersionsKept
      /\ listing' = listing /\ receipt' = receipt /\ event' = event /\ used' = used
BY <1>1, RowParts DEF CommitEvent, CentralInv, CentralTypeOK, VersionsKept
<1>4. /\ status' \in [Ids -> {"none", "WRITING", "PENDING", "DELIVERED", "COVERED_BY_SNAPSHOT"}]
      /\ StatusKept /\ \A i \in Ids : status'[i] # "none" => status[i] # "none"
BY <1>1, <1>2 DEF CommitEvent, CentralInv, CentralTypeOK, StatusKept
<1>5. k \in EmitterState /\ EmitterOK(k) /\ emitter' = [emitter EXCEPT ![e] = k]
BY <1>1, <1>2, <1>3, AfterInsertOK DEF CommitEvent, CentralInv, CentralTypeOK
<1>6. EventsKnown'
BY <1>1, <1>3, <1>4 DEF CentralInv, EventsKnown
<1>7. emitter' \in [Emitters -> EmitterState] /\ Emitting'
  <2> HIDE DEF k
  <2> QED
  BY <1>1, <1>3, <1>4, <1>5, EmitterMoves
<1>8. CentralInv'
BY <1>1, <1>3, <1>4, <1>6, <1>7 DEF CentralInv, CentralTypeOK
<1>9. UNCHANGED <<sqliteVars, memoryVars, changes>> /\ Served /\ Witness
BY DEF CommitEvent, Served
<1> QED
BY <1>3, <1>4, <1>8, <1>9, CentralStep

-----------------------------------------------------------------------------
(* The collector's steps.                                                  *)

(* A step of the collector that leaves central alone.                      *)
LEMMA Quiet ==
  ASSUME IInv, UNCHANGED <<catalogVars, emitter>>
  PROVE  /\ CentralInv /\ SqliteInv /\ MemoryInv /\ BudgetInv
         /\ CentralInv' /\ VersionsKept /\ StatusKept
BY IInvParts, CentralKept

(* The loop goes on with nothing in hand.                                  *)
Fresh == \E p \in Steps, c \in Calls, r \in 0..MaxRounds : Goto(p, c, r, EmptyTable, {})

Ends == \/ \E p \in Steps : Rest(p)
        \/ EndBootstrap
        \/ \E c \in Calls : StartSnapshot(c)
        \/ \E stop \in BOOLEAN : EndCatchup(stop) \/ EndFlush(stop)
        \/ Unanswered \/ CatchupFails

LEMMA Goes ==
  ASSUME IInv, UNCHANGED <<catalogVars, emitter>>, Fresh \/ Ends
  PROVE  MemoryInv'
BY Quiet, FreshInv, EndInv DEF Fresh, Ends

(* The collector's step changes no row and no ledger.                      *)
LEMMA LoopStep ==
  ASSUME IInv, UNCHANGED <<catalogVars, emitter, registry, acks, cursor, changes>>,
         phase' \in Phases, matched' \in {matched, registry}, refused' \subseteq Ids,
         snapAt' \in 0..MaxEvents, Fault \/ Served, Witness, MemoryInv'
  PROVE  IInv'
<1>1. /\ CentralInv /\ SqliteInv /\ MemoryInv /\ BudgetInv
      /\ CentralInv' /\ VersionsKept /\ StatusKept
BY Quiet
<1>2. Within(registry)'
BY <1>1 DEF SqliteInv, Within, catalogVars
<1>3. SqliteInv'
BY <1>1, <1>2 DEF SqliteInv, SqliteTypeOK
<1>4. BudgetInv'
BY <1>1, BudgetKept
<1> QED
BY <1>1, <1>3, <1>4, IInvParts

(* The same, going on with nothing in hand.                                *)
LEMMA FreshStep ==
  ASSUME IInv, UNCHANGED <<catalogVars, emitter, registry, acks, refused, cursor, snapAt, changes>>,
         phase' \in Phases, matched' \in {matched, registry}, Fault \/ Served, Witness,
         Fresh \/ Ends
  PROVE  IInv'
<1>1. MemoryInv'
BY Goes
<1>2. refused' \subseteq Ids /\ snapAt' \in 0..MaxEvents
BY DEF IInv, TypeOK, SqliteTypeOK
<1> QED
BY <1>1, <1>2, LoopStep

LEMMA Kinds ==
  ASSUME IInv
  PROVE  /\ phase \in Phases /\ Failed \in Phases /\ call \in Calls /\ mode \in {"daemon", "bootstrap-only"}
         /\ round \in 0..MaxRounds /\ {0, 1} \subseteq 0..MaxRounds
BY LimitsAssumption DEF IInv, TypeOK, SqliteTypeOK, MemoryTypeOK, Failed, Preserved, Phases

LEMMA BootstrapLoops ==
  ASSUME IInv, BootstrapResume \/ BootstrapRecheck \/ PageFails \/ FinalizeReconcile \/ BootstrapRefused
  PROVE  IInv'
<1>k. /\ phase \in Phases /\ call \in Calls /\ round \in 0..MaxRounds /\ 0 \in 0..MaxRounds
      /\ 1 \in 0..MaxRounds /\ {"SNAPSHOTTING", "FAILED"} \subseteq Phases
      /\ {"boot"} \subseteq Calls /\ {"flush", "final", "recheck", "post", "idle"} \subseteq Steps
BY Kinds DEF Phases, Calls, Steps
<1>1. CASE BootstrapResume
  <2>1. Fresh \/ Ends
  BY <1>1, <1>k DEF BootstrapResume, Fresh, Ends
  <2>2. UNCHANGED <<catalogVars, emitter, registry, acks, refused, cursor, snapAt, matched, changes>>
        /\ Served /\ Witness /\ phase' \in Phases
  BY <1>1, <1>k DEF BootstrapResume, Served
  <2> QED
  BY <2>1, <2>2, FreshStep
<1>2. CASE BootstrapRecheck
  <2>1. Fresh \/ Ends
  BY <1>2, <1>k DEF BootstrapRecheck, Ends
  <2>2. UNCHANGED <<catalogVars, emitter, registry, acks, refused, cursor, snapAt, matched, changes>>
        /\ (Fault \/ Served) /\ Witness /\ phase' \in Phases
  BY <1>2, <1>k DEF BootstrapRecheck
  <2> QED
  BY <2>1, <2>2, FreshStep
<1>3. CASE PageFails
  <2>1. Fresh \/ Ends
  BY <1>3, <1>k DEF PageFails, Ends
  <2>2. UNCHANGED <<catalogVars, emitter, registry, acks, refused, cursor, snapAt, matched, changes>>
        /\ (Fault \/ Served) /\ Witness /\ phase' \in Phases
  BY <1>3, <1>k DEF PageFails
  <2> QED
  BY <2>1, <2>2, FreshStep
<1>4. CASE FinalizeReconcile
  <2>1. Fresh \/ Ends
  BY <1>4, <1>k DEF FinalizeReconcile, Fresh, Ends
  <2>2. UNCHANGED <<catalogVars, emitter, registry, acks, refused, cursor, snapAt, matched, changes>>
        /\ (Fault \/ Served) /\ Witness /\ phase' \in Phases
  BY <1>4, <1>k DEF FinalizeReconcile, sqliteVars
  <2> QED
  BY <2>1, <2>2, FreshStep
<1>5. CASE BootstrapRefused
  <2>1. Fresh \/ Ends
  BY <1>5 DEF BootstrapRefused, Ends
  <2>2. UNCHANGED <<catalogVars, emitter, registry, acks, refused, cursor, snapAt, matched, changes>>
        /\ (Fault \/ Served) /\ Witness /\ phase' \in Phases
  BY <1>5, <1>k DEF BootstrapRefused, sqliteVars
  <2> QED
  BY <2>1, <2>2, FreshStep
<1> QED
BY <1>1, <1>2, <1>3, <1>4, <1>5

LEMMA DaemonLoops ==
  ASSUME IInv, Turn \/ CatchupStart \/ CatchupLimit \/ Reconcile \/ ReportRepair \/ Scan \/ Kill
  PROVE  IInv'
<1>k. /\ phase \in Phases /\ call \in Calls /\ round \in 0..MaxRounds /\ 0 \in 0..MaxRounds
      /\ 1 \in 0..MaxRounds /\ {"first", "again", "before", "after"} \subseteq Calls
      /\ {"sync", "flush", "pull", "compare", "scan", "report", "idle", "down"} \subseteq Steps
BY Kinds DEF Calls, Steps
<1>1. CASE Turn
  <2>1. Fresh \/ Ends
  BY <1>1, <1>k DEF Turn, Fresh
  <2>2. UNCHANGED <<catalogVars, emitter, registry, acks, refused, cursor, snapAt, matched, changes>>
        /\ Served /\ Witness /\ phase' \in Phases
  BY <1>1, <1>k DEF Turn, sqliteVars, Served
  <2> QED
  BY <2>1, <2>2, FreshStep
<1>2. CASE CatchupStart
  <2>1. Fresh \/ Ends
  BY <1>2, <1>k DEF CatchupStart, Fresh, Ends
  <2>2. UNCHANGED <<catalogVars, emitter, registry, acks, refused, cursor, snapAt, matched, changes>>
        /\ Served /\ Witness /\ phase' \in Phases
  BY <1>2, <1>k DEF CatchupStart, sqliteVars, Served
  <2> QED
  BY <2>1, <2>2, FreshStep
<1>3. CASE CatchupLimit
  <2>1. Fresh \/ Ends
  BY <1>3, <1>k DEF CatchupLimit, Fresh, Ends
  <2>2. UNCHANGED <<catalogVars, emitter, registry, acks, refused, cursor, snapAt, matched, changes>>
        /\ (Fault \/ Served) /\ Witness /\ phase' \in Phases
  BY <1>3, <1>k DEF CatchupLimit, sqliteVars, CatchupFails
  <2> QED
  BY <2>1, <2>2, FreshStep
<1>4. CASE Reconcile
  <2>1. Fresh \/ Ends
    <3>1. CASE Agrees(registry) /\ \E p \in {"scan", "report"} : Goto(p, call, 0, EmptyTable, {})
    BY <3>1, <1>k DEF Fresh
    <3>2. CASE \E c \in {"again", "before"} : Goto("sync", c, 0, EmptyTable, {})
    BY <3>2, <1>k DEF Fresh
    <3>3. CASE StartSnapshot("before") \/ Rest("idle") \/ CatchupFails
    BY <3>3, <1>k DEF Ends
    <3>4. NextCall \in {"again", "before"}
    BY DEF NextCall
    <3> QED
    BY <1>4, <3>1, <3>2, <3>3, <3>4, <1>k DEF Reconcile, Calls
  <2>2. UNCHANGED <<catalogVars, emitter, registry, acks, refused, cursor, snapAt, changes>>
        /\ (Fault \/ Served) /\ Witness /\ phase' \in Phases /\ matched' \in {matched, registry}
  BY <1>4, <1>k DEF Reconcile, CatchupFails
  <2> QED
  BY <2>1, <2>2, FreshStep
<1>5. CASE ReportRepair
  <2>1. Fresh \/ Ends
  BY <1>5, <1>k DEF ReportRepair, Fresh, Ends
  <2>2. UNCHANGED <<catalogVars, emitter, registry, acks, refused, cursor, snapAt, changes>>
        /\ (Fault \/ Served) /\ Witness /\ phase' \in Phases /\ matched' \in {matched, registry}
  BY <1>5, <1>k DEF ReportRepair
  <2> QED
  BY <2>1, <2>2, FreshStep
<1>6. CASE Scan
  <2>1. Fresh \/ Ends
  BY <1>6, <1>k DEF Scan, Ends
  <2>2. UNCHANGED <<catalogVars, emitter, registry, acks, refused, cursor, snapAt, matched, changes>>
        /\ Served /\ Witness /\ phase' \in Phases
  BY <1>6, <1>k DEF Scan, sqliteVars, Served
  <2> QED
  BY <2>1, <2>2, FreshStep
<1>7. CASE Kill
  <2>1. Fresh \/ Ends
  BY <1>7, <1>k DEF Kill, Ends
  <2>2. UNCHANGED <<catalogVars, emitter, registry, acks, refused, cursor, snapAt, matched, changes>>
        /\ (Fault \/ Served) /\ Witness /\ phase' \in Phases
  BY <1>7, <1>k DEF Kill, sqliteVars
  <2> QED
  BY <2>1, <2>2, FreshStep
<1> QED
BY <1>1, <1>2, <1>3, <1>4, <1>5, <1>6, <1>7

(* A page of the snapshot: its rows are central's, its last ASIN is one.   *)
LEMMA PageStep ==
  ASSUME IInv, ReadPage
  PROVE  IInv'
<1> DEFINE more == {a \in Asins : a > snap.last /\ Present(Central[a])}
           page == {a \in more : Cardinality({b \in more : b < a}) < PageSize}
           end == Cardinality(page) < PageSize
           last == IF page = {} THEN snap.last ELSE Last(page)
<1>0. UNCHANGED <<catalogVars, emitter, sqliteVars, changes>> /\ Served /\ Witness
      /\ UNCHANGED <<mode, pc, call, round, pulled, done>>
BY DEF ReadPage, Served
<1>1. /\ CentralInv /\ SqliteInv /\ MemoryInv /\ BudgetInv
      /\ CentralInv' /\ VersionsKept /\ StatusKept
BY <1>0, Quiet
<1>2. Central \in [Asins -> Row] /\ Within(Central)
BY <1>1, CentralType DEF CentralInv
<1>3. last \in Asins \cup {0}
  <2>1. page \subseteq Asins /\ Numbers(page)
  BY AsinsAssumption, FS_Subset DEF Numbers
  <2>2. snap.last \in Asins \cup {0}
  BY <1>1 DEF MemoryInv, MemoryTypeOK, Snap
  <2> HIDE DEF page
  <2> QED
  BY <2>1, <2>2, LastIn
<1>4. end \in BOOLEAN
OBVIOUS
<1>5. /\ work' = [a \in Asins |-> IF a \in page THEN Central[a] ELSE work[a]]
      /\ snap' = [snap EXCEPT !.rows = TRUE, !.end = end, !.last = last]
BY DEF ReadPage
<1> HIDE DEF page, end, last
<1>6. work' \in [Asins -> Row] /\ Within(work)'
BY <1>0, <1>1, <1>2, <1>5 DEF MemoryInv, MemoryTypeOK, Within, catalogVars
<1>7. snap' \in Snap
BY <1>1, <1>3, <1>4, <1>5 DEF MemoryInv, MemoryTypeOK, Snap
<1>8. MemoryInv'
BY <1>0, <1>1, <1>6, <1>7 DEF MemoryInv, MemoryTypeOK, PulledKnown, catalogVars
<1> QED
BY <1>0, <1>1, <1>8, SqliteKept, BudgetKept, IInvParts

LEMMA WatermarkSteps ==
  ASSUME IInv, ReadWatermark \/ FirstPageAnswered
  PROVE  IInv'
<1>0. UNCHANGED <<catalogVars, emitter, registry, phase, acks, refused, cursor, matched, changes>>
      /\ Served /\ Witness /\ UNCHANGED <<mode, pc, call, round, work, pulled, done>>
BY DEF ReadWatermark, FirstPageAnswered, Served, sqliteVars
<1>1. /\ CentralInv /\ SqliteInv /\ MemoryInv /\ BudgetInv
      /\ CentralInv' /\ VersionsKept /\ StatusKept
BY <1>0, Quiet
<1>2. snap \in Snap /\ used \in 0..MaxEvents /\ MaxEvents \in Nat
BY <1>1, LimitsAssumption DEF MemoryInv, MemoryTypeOK, CentralInv, CentralTypeOK
<1>3. snap' \in Snap /\ snapAt' \in 0..MaxEvents
  <2>1. CASE ReadWatermark
  BY <1>1, <1>2, <2>1 DEF ReadWatermark, Snap, sqliteVars, SqliteInv, SqliteTypeOK
  <2>2. CASE FirstPageAnswered
  BY <1>2, <2>2 DEF FirstPageAnswered, Snap
  <2> QED
  BY <2>1, <2>2
<1>4. MemoryInv'
BY <1>0, <1>1, <1>3 DEF MemoryInv, MemoryTypeOK, PulledKnown, Within, catalogVars
<1>5. phase' \in Phases /\ matched' \in {matched, registry} /\ refused' \subseteq Ids
BY <1>0, <1>1 DEF SqliteInv, SqliteTypeOK
<1> QED
BY <1>0, <1>3, <1>4, <1>5, LoopStep

(* Pulled events are inserted ones.                                        *)
LEMMA PullSteps ==
  ASSUME IInv, PullIntoStaging \/ FinalizePull \/ CatchupPull
  PROVE  IInv'
<1>k. /\ phase \in Phases /\ call \in Calls /\ round \in 0..MaxRounds /\ 0 \in 0..MaxRounds
      /\ {"boot"} \subseteq Calls /\ {"apply", "compare", "idle"} \subseteq Steps
      /\ {"STAGING_EVENTS", "FAILED"} \subseteq Phases
BY Kinds DEF Phases, Calls, Steps
<1>0. UNCHANGED <<catalogVars, emitter, registry, acks, refused, cursor, snapAt, matched, changes>>
      /\ (Served \/ Fault) /\ Witness /\ phase' \in Phases
BY <1>k DEF PullIntoStaging, FinalizePull, CatchupPull, CatchupFails, sqliteVars
<1>1. /\ CentralInv /\ SqliteInv /\ MemoryInv /\ BudgetInv
      /\ CentralInv' /\ VersionsKept /\ StatusKept
BY <1>0, Quiet
<1>2. /\ registry \in [Asins -> Row] /\ Within(registry) /\ work \in [Asins -> Row] /\ Within(work)
      /\ EmptyTable \in [Asins -> Row] /\ Within(EmptyTable)
BY <1>1, EmptyType DEF SqliteInv, SqliteTypeOK, MemoryInv, MemoryTypeOK, CentralInv
<1>3. ASSUME NEW c \in Calls, NEW r \in 0..MaxRounds, NEW w \in {registry, work, EmptyTable},
             NEW from, Goto("apply", c, r, w, PulledSince(from))
      PROVE  MemoryInv'
  <2>1. PulledSince(from) \in SUBSET Ids /\ \A i \in PulledSince(from) : status[i] # "none"
  BY DEF PulledSince
  <2>2. w \in [Asins -> Row] /\ Within(w)
  BY <1>2
  <2> QED
  BY <1>k, <1>1, <1>3, <2>1, <2>2, GotoInv
<1>4. ASSUME Fresh \/ Ends PROVE MemoryInv'
BY <1>0, <1>4, Goes
<1>5. MemoryInv'
  <2>1. CASE PullIntoStaging
  BY <1>k, <1>3, <1>4, <2>1 DEF PullIntoStaging, Ends
  <2>2. CASE FinalizePull
  BY <1>k, <1>3, <1>4, <2>2 DEF FinalizePull, Ends
  <2>3. CASE CatchupPull
  BY <1>k, <1>3, <1>4, <2>3 DEF CatchupPull, Fresh, Ends
  <2> QED
  BY <2>1, <2>2, <2>3
<1>6. refused' \subseteq Ids /\ snapAt' \in 0..MaxEvents
BY <1>0, <1>1 DEF SqliteInv, SqliteTypeOK
<1> QED
BY <1>0, <1>5, <1>6, LoopStep

AckStates == {"none", "PENDING_ACK", "ACKED_REMOTE"}

(* The collector's step writes rows no newer than central's, and its ledger. *)
LEMMA LedgerStep ==
  ASSUME IInv, UNCHANGED <<catalogVars, emitter, refused, snapAt, matched, changes>>,
         registry' \in [Asins -> Row], \A a \in Asins : registry'[a].ver <= syncState[a].ver,
         acks' \in [Ids -> AckStates], cursor' \in 0..MaxEvents,
         phase' \in Phases, Fault \/ Served, Witness, MemoryInv'
  PROVE  IInv'
<1>1. /\ CentralInv /\ SqliteInv /\ MemoryInv /\ BudgetInv
      /\ CentralInv' /\ VersionsKept /\ StatusKept
BY Quiet
<1>2. Within(registry)'
BY DEF Within, catalogVars
<1>3. SqliteInv'
BY <1>1, <1>2 DEF SqliteInv, SqliteTypeOK, AckStates
<1>4. BudgetInv'
BY <1>1, BudgetKept
<1> QED
BY <1>1, <1>3, <1>4, IInvParts

LEMMA RecordedType ==
  ASSUME IInv, NEW ids
  PROVE  acks \in [Ids -> AckStates] /\ Recorded(ids) \in [Ids -> AckStates]
BY DEF IInv, TypeOK, SqliteTypeOK, Recorded, AckStates

LEMMA CheckStep ==
  ASSUME IInv, CheckStaging
  PROVE  IInv'
<1>0. UNCHANGED <<catalogVars, emitter, refused, cursor, snapAt, matched, changes>>
      /\ (Served \/ Fault) /\ Witness
BY DEF CheckStaging
<1>k. /\ 0 \in 0..MaxRounds /\ "boot" \in Calls /\ "flush" \in Steps
      /\ {"COMMITTED_PENDING_ACK", "FAILED"} \subseteq Phases
BY Kinds DEF Phases, Calls, Steps
<1>1. /\ work \in [Asins -> Row] /\ \A a \in Asins : work[a].ver <= syncState[a].ver
      /\ registry \in [Asins -> Row] /\ \A a \in Asins : registry[a].ver <= syncState[a].ver
      /\ cursor \in 0..MaxEvents
BY DEF IInv, TypeOK, SqliteTypeOK, MemoryTypeOK, Within
<1>2. acks' \in [Ids -> AckStates] /\ registry' \in {work, registry} /\ phase' \in Phases
BY <1>k, RecordedType DEF CheckStaging
<1>3. MemoryInv'
BY <1>0, <1>k, Goes DEF CheckStaging, Fresh, Ends
<1> QED
BY <1>0, <1>1, <1>2, <1>3, LedgerStep

(* A merged row is the snapshot's, of its version or the registry's.       *)
LEMMA MergeStep ==
  ASSUME IInv, MergeSnapshot
  PROVE  IInv'
<1>0. UNCHANGED <<catalogVars, emitter, phase, acks, refused, cursor, snapAt, matched, changes>>
      /\ Served /\ Witness /\ registry' = Merged
BY DEF MergeSnapshot, Served
<1>1. /\ work \in [Asins -> Row] /\ \A a \in Asins : work[a].ver <= syncState[a].ver
      /\ registry \in [Asins -> Row] /\ \A a \in Asins : registry[a].ver <= syncState[a].ver
      /\ cursor \in 0..MaxEvents /\ phase \in Phases
BY DEF IInv, TypeOK, SqliteTypeOK, MemoryTypeOK, Within
<1>2. ASSUME NEW a \in Asins
      PROVE  Merged[a] \in Row /\ Merged[a].ver <= syncState[a].ver
  <2>1. work[a].ver \in Nat /\ registry[a].ver \in Nat
  BY <1>1, RowParts
  <2>2. PICK n \in {work[a].ver, registry[a].ver} : Merged[a] = [work[a] EXCEPT !.ver = n]
  BY <1>1 DEF Merged
  <2> QED
  BY <1>1, <2>1, <2>2, RowParts
<1>3. Merged \in [Asins -> Row]
BY <1>2 DEF Merged
<1>4. MemoryInv'
  <2>1. 0 \in 0..MaxRounds /\ "after" \in Calls /\ "sync" \in Steps
  BY Kinds DEF Calls, Steps
  <2> QED
  BY <1>0, <2>1, Goes DEF MergeSnapshot, Fresh
<1> QED
BY <1>0, <1>1, <1>2, <1>3, <1>4, RecordedType, LedgerStep

(* The row an event is applied to stays within what central gave out.      *)
LEMMA ApplyWithin ==
  ASSUME IInv, NEW i \in pulled, NEW t \in [Asins -> Row], Within(t),
         NEW u, u = [t EXCEPT ![event[i].asin] = Applied(@, event[i])]
  PROVE  u \in [Asins -> Row] /\ \A a \in Asins : u[a].ver <= syncState[a].ver
<1> DEFINE a == event[i].asin
           row == Applied(t[a], event[i])
<1>1. CentralInv /\ MemoryInv
BY IInvParts
<1>2. i \in Ids /\ a \in Asins /\ event[i].proj.ver <= syncState[a].ver
BY <1>1 DEF MemoryInv, MemoryTypeOK, PulledKnown, CentralInv, EventsKnown
<1>3. event[i].proj \in Row
BY <1>1, <1>2, EventType DEF CentralInv
<1>4. row \in Row /\ row.ver \in {t[a].ver, event[i].proj.ver, 0}
BY <1>2, <1>3, AppliedType
<1>5. syncState[a].ver \in Nat /\ t[a].ver <= syncState[a].ver
BY <1>1, <1>2, RowParts DEF CentralInv, CentralTypeOK, Within
<1>6. row.ver <= syncState[a].ver
BY <1>2, <1>4, <1>5
<1>7. u = [t EXCEPT ![a] = row]
BY <1>2
<1> HIDE DEF row
<1> QED
BY <1>2, <1>4, <1>6, <1>7 DEF Within

LEMMA ApplyStep ==
  ASSUME IInv, ApplyEvent
  PROVE  IInv'
<1> DEFINE i == Earliest(ToApply)
<1>0. UNCHANGED <<catalogVars, emitter, phase, refused, snapAt, matched, changes>>
      /\ Served /\ Witness /\ UNCHANGED <<mode, pc, call, round, pulled, snap>>
BY DEF ApplyEvent, Served
<1>1. /\ CentralInv /\ SqliteInv /\ MemoryInv /\ BudgetInv
      /\ CentralInv' /\ VersionsKept /\ StatusKept
BY <1>0, Quiet
<1>2. i \in pulled /\ i \in Ids
  <2>1. ToApply \in SUBSET Ids /\ ToApply # {} /\ ToApply \subseteq pulled
  BY <1>1 DEF ApplyEvent, ToApply, MemoryInv, MemoryTypeOK
  <2> QED
  BY <2>1, IdsFinite, EarliestIn
<1>3. /\ registry \in [Asins -> Row] /\ Within(registry) /\ work \in [Asins -> Row] /\ Within(work)
      /\ cursor \in 0..MaxEvents /\ phase \in Phases
BY <1>1 DEF SqliteInv, SqliteTypeOK, MemoryInv, MemoryTypeOK
<1>4. /\ done' = i
      /\ \/ registry' = registry
         \/ registry' = [registry EXCEPT ![event[i].asin] = Applied(@, event[i])]
      /\ work' = work \/ work' = [work EXCEPT ![event[i].asin] = Applied(@, event[i])]
      /\ acks' = acks \/ acks' = Recorded({i})
      /\ cursor' \in {cursor, i}
BY DEF ApplyEvent
<1> HIDE DEF i
<1>5. registry' \in [Asins -> Row] /\ \A a \in Asins : registry'[a].ver <= syncState[a].ver
BY <1>2, <1>3, <1>4, ApplyWithin DEF Within
<1>6. work' \in [Asins -> Row] /\ \A a \in Asins : work'[a].ver <= syncState[a].ver
BY <1>2, <1>3, <1>4, ApplyWithin DEF Within
<1>7. acks' \in [Ids -> AckStates] /\ cursor' \in 0..MaxEvents /\ done' \in 0..MaxEvents
BY <1>2, <1>3, <1>4, RecordedType, LimitsAssumption DEF Ids
<1>8. MemoryInv'
BY <1>0, <1>1, <1>6, <1>7 DEF MemoryInv, MemoryTypeOK, PulledKnown, Within, catalogVars
<1> QED
BY <1>0, <1>3, <1>5, <1>7, <1>8, LedgerStep

LEMMA BatchStep ==
  ASSUME IInv, BatchApplied
  PROVE  IInv'
<1>0. UNCHANGED <<catalogVars, emitter, phase, refused, snapAt, matched, changes>>
      /\ Served /\ Witness
BY DEF BatchApplied, Served
<1>1. /\ CentralInv /\ SqliteInv /\ MemoryInv /\ BudgetInv
      /\ CentralInv' /\ VersionsKept /\ StatusKept
BY <1>0, Quiet
<1>2. /\ registry \in [Asins -> Row] /\ \A a \in Asins : registry[a].ver <= syncState[a].ver
      /\ work \in [Asins -> Row] /\ \A a \in Asins : work[a].ver <= syncState[a].ver
      /\ cursor \in 0..MaxEvents /\ phase \in Phases
BY <1>1 DEF SqliteInv, SqliteTypeOK, MemoryInv, MemoryTypeOK, Within
<1>3. LastApplied \in 0..MaxEvents
  <2>1. pulled \in SUBSET Ids
  BY <1>1 DEF MemoryInv, MemoryTypeOK
  <2>2. pulled # {} => Last(pulled) \in Ids
  BY <2>1, IdsFinite, LastIn
  <2> QED
  BY <1>2, <2>2, LimitsAssumption DEF LastApplied, Ids
<1>4. /\ registry' \in {registry, work} /\ acks' \in {acks, Recorded(pulled)}
      /\ cursor' \in {cursor, LastApplied}
BY DEF BatchApplied
<1>5. MemoryInv'
  <2>k. /\ call \in Calls /\ round \in 0..MaxRounds /\ 0 \in 0..MaxRounds /\ "boot" \in Calls
        /\ {"flush", "settle", "check"} \subseteq Steps
  BY Kinds DEF Calls, Steps
  <2>1. CASE Fresh
  BY <1>0, <2>1, Goes
  <2>2. CASE pc' = "check" /\ UNCHANGED <<mode, call, round, work, pulled, done, snap>>
  BY <1>0, <1>1, <2>k, <2>2 DEF MemoryInv, MemoryTypeOK, PulledKnown, Within, catalogVars
  <2> QED
  BY <2>1, <2>2, <2>k DEF BatchApplied, Fresh
<1> QED
BY <1>0, <1>2, <1>3, <1>4, <1>5, RecordedType, LedgerStep

LEMMA FlushDoneStep ==
  ASSUME IInv, FlushDone
  PROVE  IInv'
<1>k. /\ phase \in Phases /\ "FINALIZING" \in Phases /\ call \in Calls /\ "boot" \in Calls
      /\ {"limit", "pull", "recheck", "final"} \subseteq Steps /\ 0 \in 0..MaxRounds
BY Kinds DEF Phases, Calls, Steps
<1>1. ~LastRound => round + 1 \in 0..MaxRounds
BY Kinds, LimitsAssumption DEF LastRound
<1>2. round \in 0..MaxRounds
BY Kinds
<1>3. UNCHANGED <<catalogVars, emitter, registry, acks, refused, cursor, snapAt, matched, changes>>
      /\ Served /\ Witness /\ phase' \in Phases
BY <1>k DEF FlushDone, Served
<1>4. \/ EndBootstrap
      \/ Goto("limit", call, round, EmptyTable, {})
      \/ ~LastRound /\ \E p \in {"pull", "final"}, c \in {call, "boot"} : Goto(p, c, round + 1, EmptyTable, {})
      \/ Goto("recheck", "boot", 0, EmptyTable, {})
BY DEF FlushDone
<1>5. Fresh \/ Ends
BY <1>k, <1>1, <1>2, <1>4 DEF Fresh, Ends
<1> QED
BY <1>3, <1>5, FreshStep

(* Central strikes events off, and may keep a receipt of a registry.       *)
LEMMA StatusStep ==
  ASSUME IInv, UNCHANGED <<listing, syncState, event, used, emitter>>,
         status' \in [Ids -> {"none", "WRITING", "PENDING", "DELIVERED", "COVERED_BY_SNAPSHOT"}],
         \A i \in Ids : status'[i] # "none" <=> status[i] # "none",
         receipt' \in {receipt, registry}
  PROVE  /\ CentralInv /\ SqliteInv /\ MemoryInv /\ BudgetInv
         /\ CentralInv' /\ VersionsKept /\ StatusKept
<1>1. CentralInv /\ SqliteInv /\ MemoryInv /\ BudgetInv
BY IInvParts
<1>2. VersionsKept /\ StatusKept
BY <1>1, RowParts DEF CentralInv, CentralTypeOK, VersionsKept, StatusKept
<1>3. CentralTypeOK'
BY <1>1 DEF CentralInv, CentralTypeOK, SqliteInv, SqliteTypeOK
<1>4. Emitting' /\ EventsKnown'
BY <1>1 DEF CentralInv, Emitting, EventsKnown
<1> QED
BY <1>1, <1>2, <1>3, <1>4 DEF CentralInv

LEMMA CompleteStep ==
  ASSUME IInv, BootstrapCompletes
  PROVE  IInv'
<1>1. /\ UNCHANGED <<listing, syncState, event, used, emitter, registry, acks, refused, cursor,
                     snapAt, changes>>
      /\ (Served \/ Fault) /\ Witness /\ EndBootstrap
      /\ phase' \in {phase, "COMPLETE"} /\ matched' \in {matched, registry}
      /\ receipt' \in {receipt, registry}
BY DEF BootstrapCompletes
<1>2. /\ status' \in [Ids -> {"none", "WRITING", "PENDING", "DELIVERED", "COVERED_BY_SNAPSHOT"}]
      /\ \A i \in Ids : status'[i] # "none" <=> status[i] # "none"
BY DEF BootstrapCompletes, Covered, IInv, TypeOK, CentralTypeOK
<1>3. /\ CentralInv /\ SqliteInv /\ MemoryInv /\ BudgetInv
      /\ CentralInv' /\ VersionsKept /\ StatusKept
BY <1>1, <1>2, StatusStep
<1>4. SqliteInv'
BY <1>1, <1>3 DEF SqliteInv, SqliteTypeOK, Within, Phases
<1>5. MemoryInv'
BY <1>1, <1>3, EndInv
<1>6. BudgetInv'
BY <1>1, <1>3, BudgetKept
<1> QED
BY <1>3, <1>4, <1>5, <1>6, IInvParts

LEMMA FlushSteps ==
  ASSUME IInv, FlushAck \/ FlushFails
  PROVE  IInv'
<1>1. /\ UNCHANGED <<listing, syncState, event, used, receipt, emitter, registry, phase, cursor,
                     snapAt, matched, changes>>
      /\ (Served \/ Fault) /\ Witness /\ receipt' \in {receipt, registry}
      /\ UNCHANGED <<listing, syncState, event, used, emitter>>
BY DEF FlushAck, FlushFails, Served
<1>2. PICK i \in Pending : status' \in {status, Delivered(i)} /\ refused' \in {refused, refused \ {i}, refused \cup {i}}
      /\ acks' \in {acks, [acks EXCEPT ![i] = "ACKED_REMOTE"]}
BY DEF FlushAck, FlushFails
<1>3. /\ status' \in [Ids -> {"none", "WRITING", "PENDING", "DELIVERED", "COVERED_BY_SNAPSHOT"}]
      /\ \A j \in Ids : status'[j] # "none" <=> status[j] # "none"
BY <1>2 DEF Pending, Delivered, IInv, TypeOK, CentralTypeOK
<1>4. /\ CentralInv /\ SqliteInv /\ MemoryInv /\ BudgetInv
      /\ CentralInv' /\ VersionsKept /\ StatusKept
BY <1>1, <1>3, StatusStep
<1>5. SqliteInv'
BY <1>1, <1>2, <1>4 DEF SqliteInv, SqliteTypeOK, Within, Pending
<1>6. MemoryInv'
  <2>1. CASE UNCHANGED memoryVars
  BY <1>4, <2>1, MemoryKept
  <2>2. CASE Unanswered \/ \E stop \in BOOLEAN : EndFlush(stop)
  BY <1>4, <2>2, EndInv
  <2> QED
  BY <2>1, <2>2 DEF FlushAck, FlushFails
<1>7. BudgetInv'
BY <1>1, <1>4, BudgetKept
<1> QED
BY <1>4, <1>5, <1>6, <1>7, IInvParts

LEMMA StartStep ==
  ASSUME IInv, Start
  PROVE  IInv'
<1>0. UNCHANGED <<catalogVars, emitter, registry, phase, acks, refused, cursor, snapAt, matched, changes>>
      /\ Served /\ Witness /\ UNCHANGED <<call, round, work, pulled, done, snap>>
BY DEF Start, Served, sqliteVars
<1>1. /\ CentralInv /\ SqliteInv /\ MemoryInv /\ BudgetInv
      /\ CentralInv' /\ VersionsKept /\ StatusKept
BY <1>0, Quiet
<1>2. mode' \in {"daemon", "bootstrap-only"} /\ pc' \in Steps
BY ModesAssumption DEF Start, Steps
<1>3. MemoryInv'
BY <1>0, <1>1, <1>2 DEF MemoryInv, MemoryTypeOK, PulledKnown, Within, catalogVars
<1>4. phase' \in Phases /\ matched' \in {matched, registry} /\ refused' \subseteq Ids
      /\ snapAt' \in 0..MaxEvents
BY <1>0, <1>1 DEF SqliteInv, SqliteTypeOK
<1> QED
BY <1>0, <1>3, <1>4, LoopStep

-----------------------------------------------------------------------------
(* The theorems.                                                           *)

LEMMA StepInv ==
  ASSUME IInv, [Next]_vars
  PROVE  IInv'
<1>1. CASE UNCHANGED vars
  <2>1. UNCHANGED <<catalogVars, emitter, sqliteVars, memoryVars, agreed, changes, faults>>
  BY <1>1 DEF vars
  <2>2. /\ CentralInv /\ SqliteInv /\ MemoryInv /\ BudgetInv
        /\ CentralInv' /\ VersionsKept /\ StatusKept
  BY <2>1, Quiet
  <2>3. SqliteInv' /\ MemoryInv'
  BY <2>1, <2>2, SqliteKept, MemoryKept
  <2>4. BudgetInv'
    <3>1. agreed' = agreed /\ changes' = changes /\ faults' = faults
    BY <2>1
    <3> QED
    BY <2>2, <3>1, Zenon DEF BudgetInv
  <2> QED
  BY <2>2, <2>3, <2>4, IInvParts
<1>2. ASSUME NEW e \in Emitters, Change(e) \/ EmitLost(e) \/ Emit(e) PROVE IInv'
BY <1>2, ChangeStep, LoadSteps, UpsertStep, InsertStep, CommitStep DEF Emit
<1>3. CASE Bootstrap
BY <1>3, BootstrapLoops, PageStep, WatermarkSteps, PullSteps, CheckStep, CompleteStep DEF Bootstrap
<1>4. CASE Events
BY <1>4, ApplyStep, BatchStep, FlushSteps, FlushDoneStep DEF Events
<1>5. CASE Daemon
BY <1>5, DaemonLoops, PullSteps, MergeStep DEF Daemon
<1>6. CASE Start \/ Kill
BY <1>6, StartStep, DaemonLoops
<1> QED
BY <1>1, <1>2, <1>3, <1>4, <1>5, <1>6 DEF Next, Collector

(* The inductive invariant holds in every state a behaviour reaches.       *)
THEOREM Invariance == Spec => []IInv
<1>1. Init => IInv
BY InitInv
<1>2. IInv /\ [Next]_vars => IInv'
BY StepInv
<1> QED
BY <1>1, <1>2, PTL DEF Spec

(* Every variable of central, the emitters and the collector keeps its     *)
(* type, and the counters of its loop stay in bounds (keepaCollector).      *)
THEOREM TypeCorrect == Spec => []TypeOK
<1>1. IInv => TypeOK
BY DEF IInv
<1> QED
BY <1>1, Invariance, PTL

(* However emitters overlap, and whatever is killed, lost or refused, the  *)
(* registry holds no version central has not given out (applySyncEvent,    *)
(* mergeStagingIntoRegistry, commitSwapAndPendingAcks).                    *)
THEOREM RegistryNeverAhead == Spec => []NeverAhead
<1>1. IInv => NeverAhead
BY DEF IInv, Within, NeverAhead
<1> QED
BY <1>1, Invariance, PTL

(* An acknowledgement leaves only for an event already in the ledger, so   *)
(* that an event central strikes off as delivered is recorded, for any     *)
(* number of emitters and wherever the collector is killed                 *)
(* (flushPendingRemoteAcks after applyBatch or commitSwapAndPendingAcks).  *)
THEOREM DeliveredRecorded == Spec => []DeliveredIsRecorded
<1>1. Init => DeliveredIsRecorded
BY InitInv
<1>2. ASSUME IInv, DeliveredIsRecorded, [Next]_vars
      PROVE  DeliveredIsRecorded'
  <2> DEFINE Taken == \A i \in Ids : acks[i] # "none" => acks'[i] # "none"
             Struck == \A i \in Ids : status'[i] = "DELIVERED" => status[i] = "DELIVERED" \/ i \in Pending
  <2>t. /\ status \in [Ids -> {"none", "WRITING", "PENDING", "DELIVERED", "COVERED_BY_SNAPSHOT"}]
        /\ acks \in [Ids -> AckStates]
  BY <1>2 DEF IInv, TypeOK, CentralTypeOK, SqliteTypeOK, AckStates
  <2>0. ASSUME Taken, Struck PROVE DeliveredIsRecorded'
  BY <1>2, <2>0 DEF DeliveredIsRecorded, Pending
  <2>1. CASE status' = status /\ Taken
  BY <2>0, <2>1
  <2>2. CASE UNCHANGED acks /\ Struck
  BY <2>0, <2>2
  <2>3. ASSUME NEW ids PROVE acks' = Recorded(ids) => Taken
  BY DEF Recorded
  <2>4. CASE UNCHANGED vars
  BY <2>1, <2>4 DEF vars, catalogVars, sqliteVars
  <2>5. ASSUME NEW e \in Emitters, Change(e) \/ EmitLost(e) \/ Emit(e) PROVE DeliveredIsRecorded'
    <3>1. UNCHANGED acks
    BY <2>5 DEF Change, EmitLost, Emit, LoadProjection, LoadPrevious, UpsertState, InsertEvent,
                CommitEvent, sqliteVars
    <3>2. \/ status' = status
          \/ \E n, s : s \in {"PENDING", "WRITING"} /\ status' = [status EXCEPT ![n] = s]
      <4>1. CASE Change(e)
      BY <4>1 DEF Change, outboxVars
      <4>2. CASE EmitLost(e)
      BY <4>2 DEF EmitLost, catalogVars, outboxVars
      <4>3. CASE LoadProjection(e)
      BY <4>3 DEF LoadProjection, catalogVars, outboxVars
      <4>4. CASE LoadPrevious(e)
      BY <4>4 DEF LoadPrevious, catalogVars, outboxVars
      <4>5. CASE UpsertState(e)
      BY <4>5 DEF UpsertState, outboxVars
      <4>6. CASE InsertEvent(e)
      BY <4>6 DEF InsertEvent, outboxVars
      <4>7. CASE CommitEvent(e)
      BY <4>7 DEF CommitEvent
      <4> QED
      BY <2>5, <4>1, <4>2, <4>3, <4>4, <4>5, <4>6, <4>7 DEF Emit
    <3> QED
    BY <2>t, <2>2, <3>1, <3>2
  <2>6. CASE Bootstrap
    <3>1. CASE CheckStaging
    BY <2>1, <2>3, <3>1 DEF CheckStaging, catalogVars
    <3>2. CASE BootstrapCompletes
      <4>1. UNCHANGED acks /\ Struck
      BY <2>t, <3>2 DEF BootstrapCompletes, Covered
      <4> QED
      BY <2>2, <4>1
    <3>3. CASE ~(CheckStaging \/ BootstrapCompletes)
      <4>1. status' = status /\ acks' = acks
      BY <2>6, <3>3 DEF Bootstrap, BootstrapResume, BootstrapRecheck, ReadPage, ReadWatermark,
        FirstPageAnswered, PageFails, PullIntoStaging, FinalizePull, FinalizeReconcile,
        BootstrapRefused, catalogVars, sqliteVars
      <4> QED
      BY <2>1, <4>1
    <3> QED
    BY <3>1, <3>2, <3>3
  <2>7. CASE Events
    <3>1. CASE ApplyEvent \/ BatchApplied
    BY <2>1, <2>3, <3>1 DEF ApplyEvent, BatchApplied, catalogVars
    <3>2. CASE FlushAck
      <4>1. PICK i \in Pending : status' = Delivered(i) /\ acks' = [acks EXCEPT ![i] = "ACKED_REMOTE"]
      BY <3>2 DEF FlushAck
      <4> QED
      BY <2>t, <2>0, <4>1 DEF Delivered, Pending
    <3>3. CASE FlushFails
      <4>1. PICK i \in Pending : status' \in {status, Delivered(i)}
      BY <3>3 DEF FlushFails
      <4>2. UNCHANGED acks
      BY <3>3 DEF FlushFails
      <4> QED
      BY <2>t, <2>2, <4>1, <4>2 DEF Delivered, Pending
    <3>4. CASE FlushDone
    BY <2>1, <3>4 DEF FlushDone, catalogVars
    <3> QED
    BY <2>7, <3>1, <3>2, <3>3, <3>4 DEF Events
  <2>8. CASE Daemon \/ Start \/ Kill
    <3>1. status' = status /\ acks' = acks
    BY <2>8 DEF Daemon, Turn, CatchupStart, CatchupPull, CatchupLimit, Reconcile, MergeSnapshot,
      ReportRepair, Scan, Start, Kill, catalogVars, sqliteVars
    <3> QED
    BY <2>1, <3>1
  <2> QED
  BY <1>2, <2>4, <2>5, <2>6, <2>7, <2>8 DEF Next, Collector
<1> QED
BY <1>1, <1>2, Invariance, PTL DEF Spec

-----------------------------------------------------------------------------
(* Keepa is asked only for a registry that agreed.                         *)

ScanReady == pc = "scan" => agreed

LEMMA ScanReadyStep ==
  ASSUME ScanReady, [Next]_vars
  PROVE  ScanReady'
<1>1. CASE UNCHANGED vars
BY <1>1, Zenon DEF vars, memoryVars, ScanReady
<1>2. ASSUME NEW e \in Emitters, Change(e) \/ EmitLost(e) \/ Emit(e) PROVE ScanReady'
  <2>1. UNCHANGED <<sqliteVars, memoryVars>> /\ Witness
  BY <1>2 DEF Change, EmitLost, Emit, LoadProjection, LoadPrevious, UpsertState, InsertEvent, CommitEvent
  <2>2. registry' = registry /\ pc' = pc
  BY <2>1 DEF sqliteVars, memoryVars
  <2>3. CASE pc = "scan"
    <3>1. ~(pc = "idle" /\ pc' # "idle")
    BY <2>2, <2>3
    <3> QED
    BY <2>1, <2>2, <2>3, <3>1, Zenon DEF Witness, ScanReady
  <2>4. CASE pc # "scan"
  BY <2>2, <2>4 DEF ScanReady
  <2> QED
  BY <2>3, <2>4
<1>3. CASE Reconcile \/ ReportRepair
  <2>1. CASE Agrees(registry) /\ UNCHANGED <<catalogVars, registry>> /\ Witness
    <3>1. InSync'
    BY <2>1 DEF Agrees, InSync, Central, ListingsOf, catalogVars
    <3>2. agreed'
    BY <2>1, <3>1, Zenon DEF Witness
    <3> QED
    BY <3>2 DEF ScanReady
  <2>2. CASE pc' # "scan"
  BY <2>2 DEF ScanReady
  <2> QED
  BY <1>3, <2>1, <2>2 DEF Reconcile, ReportRepair, CatchupFails, EndFlush, EndCatchup, EndBootstrap,
    Unanswered, StartSnapshot, Rest, Goto
<1>4. CASE Bootstrap
  <2>1. pc' # "scan"
  BY <1>4 DEF Bootstrap, BootstrapResume, BootstrapRecheck, ReadPage, ReadWatermark,
    FirstPageAnswered, PageFails, PullIntoStaging, CheckStaging, FinalizePull, FinalizeReconcile,
    BootstrapCompletes, BootstrapRefused, EndBootstrap, StartSnapshot, Rest, Goto
  <2> QED
  BY <2>1 DEF ScanReady
<1>5. CASE Events
  <2>1. pc' # "scan"
  BY <1>5 DEF Events, ApplyEvent, BatchApplied, FlushAck, FlushFails, FlushDone, memoryVars,
    EndFlush, EndCatchup, EndBootstrap, Unanswered, StartSnapshot, Rest, Goto
  <2> QED
  BY <2>1 DEF ScanReady
<1>6. CASE Daemon /\ ~(Reconcile \/ ReportRepair)
  <2>1. pc' # "scan"
  BY <1>6 DEF Daemon, Turn, CatchupStart, CatchupPull, CatchupLimit, MergeSnapshot, Scan,
    CatchupFails, EndFlush, EndCatchup, EndBootstrap, Unanswered, StartSnapshot, Rest, Goto
  <2> QED
  BY <2>1 DEF ScanReady
<1>7. CASE Start \/ Kill
  <2>1. pc' # "scan"
  BY <1>7 DEF Start, Kill, Rest, Goto
  <2> QED
  BY <2>1 DEF ScanReady
<1> QED
BY <1>1, <1>2, <1>3, <1>4, <1>5, <1>6, <1>7 DEF Next, Collector, Daemon

(* The daemon asks Keepa only for a registry that has agreed with          *)
(* central's manifest since the turn began or the registry last changed,   *)
(* whoever emits meanwhile (runKeepaCollector, keepaScanAllowed).          *)
THEOREM ScansOnlyAgreed == Spec => ScansAgreed
<1>1. Init => ScanReady
BY DEF Init, ScanReady
<1>2. ScanReady /\ [Next]_vars => ScanReady'
BY ScanReadyStep
<1>3. ScanReady /\ [Next]_vars => [pc = "scan" /\ pc' = "idle" => agreed]_vars
BY DEF ScanReady
<1> QED
BY <1>1, <1>2, <1>3, PTL DEF Spec, ScansAgreed
=============================================================================
