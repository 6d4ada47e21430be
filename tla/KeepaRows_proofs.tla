-------------------------- MODULE KeepaRows_proofs --------------------------
(***************************************************************************)
(* What the rows of the collector's registry owe to the events, when one   *)
(* request at a time emits: SettledIsReflected and VersionsNeverRegress of *)
(* KeepaSync, for any ASINs, listings, page size and numbers of events,    *)
(* changes, rounds and faults. With two emitters at a time the versions of *)
(* an ASIN need not follow the order of its events, and neither holds.     *)
(***************************************************************************)
EXTENDS KeepaSync_proofs

OneEmitter == \A e, f \in Emitters : e = f

-----------------------------------------------------------------------------
(* The inductive invariant.                                                *)

Struck == {"DELIVERED", "COVERED_BY_SNAPSHOT"}

(* Struck off by central, or recorded in the collector's ledger.           *)
Settled == {i \in Ids : acks[i] # "none" \/ status[i] \in Struck}

Reflected(t, i) == Present(t[event[i].asin]) => t[event[i].asin].ver >= event[i].proj.ver
Reflects(t, ids) == \A i \in ids : Reflected(t, i)

(* Events are numbered as they are inserted; one that is not yet visible   *)
(* is the last.                                                            *)
Numbered ==
  /\ \A i \in Ids : status[i] # "none" <=> i <= used
  /\ \A i \in Ids : status[i] = "WRITING" =>
       \E e \in Emitters : emitter[e].pc = "commit" /\ emitter[e].id = i
  /\ \A e \in Emitters : emitter[e].pc = "commit" =>
       emitter[e].id = used /\ status[used] = "WRITING"

(* The emitter inserts the version central last gave out, so that the      *)
(* versions of an ASIN follow the order of its events.                     *)
Current ==
  \A e \in Emitters : emitter[e].pc \in {"insert", "commit"} =>
    emitter[e].next.ver = syncState[emitter[e].asin].ver
Ordered ==
  \A i, j \in Ids : i <= j /\ j <= used /\ event[i].asin = event[j].asin =>
    event[i].proj.ver <= event[j].proj.ver

(* A snapshot covers every event before the last it covers.                *)
CoveredFirst ==
  \A i, j \in Ids : status[j] = "COVERED_BY_SNAPSHOT" /\ i <= j => status[i] \in Struck

(* The ledger ends at the cursor.                                          *)
LedgerInv ==
  /\ cursor <= used
  /\ \A i \in Ids : acks[i] # "none" => i <= cursor

(* The events in hand are pending, and come after the cursor until they    *)
(* have been applied; so does the snapshot that is being read.             *)
HandInv ==
  /\ pulled # {} => pc \in {"apply", "check"}
  /\ pc = "final" => phase # "COMPLETE"
  /\ \A i \in pulled : status[i] = "PENDING"
  /\ pc = "apply" => \A i \in pulled : i > cursor \/ (phase = "FINALIZING" /\ i <= done)
  /\ pc = "check" => \A i \in pulled : i <= cursor
  /\ pc = "page" /\ snap.mark # 0 => cursor < snap.mark
  /\ pc = "page" /\ snap.page = "next" => cursor <= snapAt

(* The open transaction of a catch-up has no older row than the registry,  *)
(* and would not write one in the place of a row it removed.               *)
NotBehind ==
  \A a \in Asins : Present(registry[a]) =>
    IF Present(work[a]) THEN work[a].ver >= registry[a].ver
    ELSE \A i \in ToApply : event[i].asin = a => event[i].proj.ver >= registry[a].ver

InBatch == pc = "apply" /\ phase = "COMPLETE"
DoneOf == {i \in pulled : i <= done}

RowInv ==
  /\ Reflects(registry, Settled)
  /\ pc = "page" => Reflects(work, Settled)
  /\ InBatch => Reflects(work, Settled \cup DoneOf) /\ NotBehind

OutboxInv == Numbered /\ Current /\ Ordered /\ CoveredFirst
RInv == OutboxInv /\ LedgerInv /\ HandInv /\ RowInv

(* What the invariant of KeepaSync_proofs gives, before and after a step.  *)
Base == IInv /\ DeliveredIsRecorded
Sound == OneEmitter /\ Base /\ Base' /\ RInv

-----------------------------------------------------------------------------
(* Rows and numbers.                                                       *)

LEMMA AppliedRow ==
  ASSUME NEW row \in Row, NEW ev, ev.proj \in Row
  PROVE  \/ Applied(row, ev) = row /\ Present(row) /\ ev.proj.ver <= row.ver
         \/ /\ Present(Applied(row, ev)) => Applied(row, ev).ver = ev.proj.ver
            /\ Present(row) => row.ver < ev.proj.ver
BY DEF Applied, Written, Row, Absent, Present

LEMMA Numerals ==
  ASSUME IInv
  PROVE  /\ Ids \subseteq Nat \ {0} /\ cursor \in Nat /\ used \in Nat /\ done \in Nat
         /\ snapAt \in Nat /\ snap.mark \in Nat /\ used <= MaxEvents /\ MaxEvents \in Nat
         /\ \A i \in Nat : 0 < i /\ i <= used => i \in Ids
         /\ pulled \subseteq Ids
<1>1. Ids = 1..MaxEvents /\ MaxEvents \in Nat
BY LimitsAssumption DEF Ids
<1>2. used \in 0..MaxEvents /\ cursor \in 0..MaxEvents /\ snapAt \in 0..MaxEvents
BY DEF IInv, TypeOK, CentralTypeOK, SqliteTypeOK
<1>3. done \in 0..MaxEvents /\ snap \in Snap /\ pulled \subseteq Ids
BY DEF IInv, TypeOK, MemoryTypeOK
<1>4. snap.mark \in 0..MaxEvents + 1
BY <1>3 DEF Snap
<1> QED
BY <1>1, <1>2, <1>3, <1>4

(* Versions are numbers, and events that have a number are of known ASINs. *)
LEMMA Versions ==
  ASSUME IInv
  PROVE  /\ registry \in [Asins -> Row] /\ work \in [Asins -> Row] /\ syncState \in [Asins -> Row]
         /\ \A a \in Asins : /\ registry[a].ver \in Nat /\ work[a].ver \in Nat
                             /\ syncState[a].ver \in Nat
         /\ \A i \in Ids : event[i].proj \in Row /\ event[i].proj.ver \in Nat
         /\ \A i \in Ids : status[i] # "none" =>
              event[i].asin \in Asins /\ event[i].proj.ver <= syncState[event[i].asin].ver
<1>1. CentralTypeOK /\ SqliteTypeOK /\ MemoryTypeOK /\ EventsKnown
BY DEF IInv, TypeOK
<1> QED
BY <1>1, EventType, RowParts DEF CentralTypeOK, SqliteTypeOK, MemoryTypeOK, EventsKnown

(* What is settled or in hand has been inserted.                           *)
LEMMA SettledKnown ==
  ASSUME IInv, RInv
  PROVE  /\ \A i \in Settled \cup pulled : i \in Ids /\ i <= used /\ status[i] # "none"
         /\ \A i \in Settled \cup pulled : event[i].asin \in Asins
         /\ \A i \in Settled \cup pulled : event[i].proj.ver <= syncState[event[i].asin].ver
<1>1. \A i \in Settled \cup pulled : i \in Ids /\ i <= used
BY Numerals DEF RInv, OutboxInv, Numbered, LedgerInv, HandInv, Settled, Struck
<1>2. \A i \in Settled \cup pulled : status[i] # "none"
BY <1>1 DEF RInv, OutboxInv, Numbered
<1> QED
BY <1>1, <1>2, Versions

(* A row central has is of the version central last gave out.              *)
LEMMA CentralVersion ==
  ASSUME IInv, NEW a \in Asins, Present(Central[a])
  PROVE  Central[a].ver = syncState[a].ver
<1>1. Central[a] = CentralRow(ListingsOf(a), syncState[a].ver)
BY DEF Central
<1>2. IsFiniteSet(DOMAIN ListingsOf(a))
BY ListingsAssumption, FS_Subset DEF ListingsOf
<1>3. syncState[a].ver \in Nat
BY Versions
<1> DEFINE row == RowFor(ListingsOf(a), \E l \in DOMAIN ListingsOf(a) :
                    ListingsOf(a)[l].stock # "ended" /\ ListingsOf(a)[l].sold, syncState[a].ver)
<1>4. row.ver = syncState[a].ver
BY <1>2, <1>3, RowForType
<1> HIDE DEF row
<1>5. CentralRow(ListingsOf(a), syncState[a].ver) = IF Present(row) THEN row ELSE Absent
BY DEF CentralRow, row
<1> QED
BY <1>1, <1>4, <1>5 DEF Present, Absent

(* A row as central has it reflects every event; so does no row.           *)
LEMMA CentralReflects ==
  ASSUME IInv, NEW t, NEW i \in Ids, status[i] # "none",
         \/ ~Present(t[event[i].asin])
         \/ t[event[i].asin] = Central[event[i].asin]
  PROVE  Reflected(t, i)
<1> DEFINE a == event[i].asin
<1>1. a \in Asins /\ event[i].proj.ver <= syncState[a].ver
BY Versions
<1> HIDE DEF a
<1>2. Present(Central[a]) => Central[a].ver = syncState[a].ver
BY <1>1, CentralVersion
<1>3. CASE ~Present(t[a])
BY <1>3 DEF Reflected, a
<1>4. CASE t[a] = Central[a]
  <2>1. event[i].proj.ver \in Nat /\ syncState[a].ver \in Nat
  BY <1>1, Versions
  <2> QED
  BY <1>1, <1>2, <1>4, <2>1 DEF Reflected, a
<1> QED
BY <1>3, <1>4 DEF a

(* Table u is t with event i applied.                                      *)
WithEvent(t, u, i) == u = [t EXCEPT ![event[i].asin] = Applied(@, event[i])]

(* Applying event i to a table that reflects earlier events reflects them  *)
(* and i.                                                                  *)
LEMMA AppliedReflects ==
  ASSUME NEW t \in [Asins -> Row], NEW i, event[i].proj \in Row, event[i].asin \in Asins,
         NEW u, WithEvent(t, u, i),
         NEW j, event[j].proj \in Row, event[j].asin \in Asins
  PROVE  \/ j = i
         \/ /\ Reflected(t, j)
            /\ event[j].asin = event[i].asin => event[j].proj.ver <= event[i].proj.ver
         => Reflected(u, j)
<1> DEFINE a == event[i].asin
           row == t[a]
           new == Applied(row, event[i])
<1>1. row \in Row /\ u[a] = new /\ \A b \in Asins \ {a} : u[b] = t[b]
BY DEF WithEvent
<1>2. row.ver \in Nat /\ event[i].proj.ver \in Nat /\ event[j].proj.ver \in Nat
BY <1>1, RowParts
<1>3. \/ new = row /\ Present(row) /\ event[i].proj.ver <= row.ver
      \/ Present(new) => new.ver = event[i].proj.ver
BY <1>1, AppliedRow
<1> HIDE DEF new
<1>4. CASE event[j].asin # a
BY <1>1, <1>4 DEF Reflected
<1>5. CASE event[j].asin = a
  <2>1. CASE new = row /\ Present(row) /\ event[i].proj.ver <= row.ver
  BY <1>1, <1>2, <1>5, <2>1 DEF Reflected
  <2>2. CASE Present(new) => new.ver = event[i].proj.ver
  BY <1>1, <1>2, <1>5, <2>2 DEF Reflected
  <2> QED
  BY <1>3, <2>1, <2>2
<1> QED
BY <1>4, <1>5

-----------------------------------------------------------------------------
(* Steps that leave the rows and the ledger alone.                         *)

(* Central's statuses change, if at all, from pending to delivered, for an *)
(* event of the ledger.                                                    *)
Acknowledged ==
  /\ \A i \in Ids : acks'[i] = "none" <=> acks[i] = "none"
  /\ \A i \in Ids : \/ status'[i] = status[i]
                    \/ acks[i] # "none" /\ status[i] = "PENDING" /\ status'[i] = "DELIVERED"

SettledSame == Settled' = Settled

LEMMA AcknowledgedOutbox ==
  ASSUME Sound, Acknowledged, UNCHANGED <<event, used, syncState, emitter>>
  PROVE  OutboxInv' /\ SettledSame
<1>1. SettledSame
BY DEF SettledSame, Settled, Acknowledged, Struck
<1>2. Numbered'
  <2>1. \A e \in Emitters : emitter[e].pc = "commit" => used \in Ids
  BY DEF Sound, Base, IInv, Emitting, RInv, OutboxInv, Numbered
  <2>2. \A i \in Ids : /\ status'[i] = "none" <=> status[i] = "none"
                       /\ status'[i] = "WRITING" <=> status[i] = "WRITING"
  BY DEF Acknowledged
  <2> QED
  BY <2>1, <2>2 DEF Sound, RInv, OutboxInv, Numbered
<1>3. Current' /\ Ordered'
BY DEF Sound, RInv, OutboxInv, Current, Ordered
<1>4. CoveredFirst'
BY DEF Sound, RInv, OutboxInv, CoveredFirst, Acknowledged, Struck
<1> QED
BY <1>1, <1>2, <1>3, <1>4 DEF OutboxInv

(* The loop goes on with nothing in hand, at a new snapshot or elsewhere.  *)
Away ==
  /\ pulled' = {} /\ pc' \notin {"apply", "check"}
  /\ pc' = "final" => phase' # "COMPLETE"
  /\ pc' = "page" => snap' = NoSnap /\ work' = EmptyTable

LEMMA EmptyReflects ==
  ASSUME IInv, RInv, NEW t, t = EmptyTable
  PROVE  Reflects(t, Settled)
BY SettledKnown DEF Reflects, Reflected, EmptyTable, Present, Absent

LEMMA AwayStep ==
  ASSUME Sound, Away, Acknowledged,
         UNCHANGED <<event, used, syncState, emitter, registry, cursor>>
  PROVE  RInv'
<1>1. OutboxInv' /\ SettledSame
BY AcknowledgedOutbox
<1>2. LedgerInv'
BY DEF Sound, RInv, LedgerInv, Acknowledged
<1>3. HandInv'
BY DEF Away, HandInv, NoSnap
<1>4. RowInv'
  <2>1. Reflects(registry, Settled)'
  BY <1>1 DEF Sound, RInv, RowInv, Reflects, Reflected, SettledSame
  <2>2. pc' = "page" => Reflects(work, Settled)'
    <3>1. Reflects(EmptyTable, Settled)
    BY EmptyReflects DEF Sound, Base
    <3> QED
    BY <1>1, <3>1 DEF Away, Reflects, Reflected, SettledSame
  <2>3. ~InBatch'
  BY DEF Away, InBatch
  <2> QED
  BY <2>1, <2>2, <2>3 DEF RowInv
<1> QED
BY <1>1, <1>2, <1>3, <1>4 DEF RInv

(* The ends of the loop's steps.                                           *)
Elsewhere == Steps \ {"page", "apply", "check", "final"}

LEMMA EndsAway ==
  /\ \A p \in Elsewhere, c \in Calls, r \in 0..MaxRounds : Goto(p, c, r, EmptyTable, {}) => Away
  /\ \A p \in Elsewhere : Rest(p) => Away
  /\ EndBootstrap => Away
  /\ \A c \in Calls : StartSnapshot(c) => Away
  /\ \A stop \in BOOLEAN : EndFlush(stop) \/ EndCatchup(stop) => Away
  /\ Unanswered \/ CatchupFails => Away
<1>1. ASSUME NEW p \in Elsewhere, NEW c, NEW r, Goto(p, c, r, EmptyTable, {}) PROVE Away
BY <1>1 DEF Away, Goto, Elsewhere
<1>2. ASSUME NEW p \in Elsewhere, Rest(p) PROVE Away
BY <1>2 DEF Rest, Away, Goto, Elsewhere
<1>3. ASSUME EndBootstrap PROVE Away
BY <1>2, <1>3 DEF EndBootstrap, Steps, Elsewhere
<1>4. ASSUME NEW c, StartSnapshot(c) PROVE Away
BY <1>4 DEF StartSnapshot, Away, Goto
<1>5. ASSUME NEW stop, EndCatchup(stop) PROVE Away
BY <1>2, <1>4, <1>5 DEF EndCatchup, Steps, Elsewhere
<1>6. ASSUME NEW stop, EndFlush(stop) PROVE Away
BY <1>3, <1>5, <1>6 DEF EndFlush
<1>7. ASSUME Unanswered PROVE Away
BY <1>2, <1>3, <1>7 DEF Unanswered, Steps, Elsewhere
<1>8. ASSUME CatchupFails PROVE Away
BY <1>6, <1>7, <1>8 DEF CatchupFails
<1> QED
BY <1>1, <1>2, <1>3, <1>4, <1>5, <1>6, <1>7, <1>8

(* The statements of an emitter leave the collector alone; what has been   *)
(* inserted stays as it is, but for the event that becomes visible.        *)
Put ==
  /\ used <= used' /\ \A a \in Asins : syncState[a].ver <= syncState'[a].ver
  /\ \A i \in Ids : status[i] # "none" => event'[i] = event[i]
  /\ \A i \in Ids : \/ status'[i] = status[i]
                    \/ status[i] \in {"none", "WRITING"} /\ status'[i] \in {"WRITING", "PENDING"}

LEMMA PutStep ==
  ASSUME Sound, UNCHANGED <<sqliteVars, memoryVars>>, Put, Numbered', Current', Ordered'
  PROVE  RInv'
<1> USE DEF sqliteVars, memoryVars
<1>0. IInv /\ IInv' /\ RInv
BY DEF Sound, Base
<1>1. SettledSame
BY DEF SettledSame, Settled, Put, Struck
<1>2. \A i \in Settled \cup pulled : event'[i] = event[i] /\ i \in Ids
BY <1>0, SettledKnown DEF Put
<1>3. LedgerInv'
  <2>1. cursor <= used'
    <3>1. cursor <= used /\ cursor \in Nat /\ used \in Nat /\ used' \in Nat
    BY <1>0, Numerals DEF RInv, LedgerInv, IInv, TypeOK, CentralTypeOK
    <3> QED
    BY <3>1 DEF Put
  <2>2. LedgerInv /\ cursor' = cursor /\ acks' = acks
  BY <1>0 DEF RInv
  <2> QED
  BY <2>1, <2>2 DEF LedgerInv
<1>4. HandInv'
  <2>1. \A i \in pulled : status'[i] = "PENDING"
  BY <1>0, <1>2 DEF RInv, HandInv, Put
  <2> QED
  BY <1>0, <2>1 DEF RInv, HandInv
<1>5. CoveredFirst'
  <2> SUFFICES ASSUME NEW i \in Ids, NEW j \in Ids, status'[j] = "COVERED_BY_SNAPSHOT", i <= j
               PROVE  status'[i] \in Struck
  BY DEF CoveredFirst
  <2>1. status[i] \in Struck
  BY <1>0 DEF RInv, OutboxInv, CoveredFirst, Put
  <2> QED
  BY <2>1 DEF Put, Struck
<1>6. RowInv'
  <2>1. \A i \in Settled \cup pulled : /\ Reflected(registry, i)' <=> Reflected(registry, i)
                                       /\ Reflected(work, i)' <=> Reflected(work, i)
  BY <1>2 DEF Reflected
  <2>2. ToApply' = ToApply /\ DoneOf' = DoneOf /\ ToApply \subseteq pulled /\ DoneOf \subseteq pulled
  BY DEF ToApply, DoneOf
  <2>3. NotBehind => NotBehind'
  BY <1>2, <2>2 DEF NotBehind
  <2>4. Reflects(registry, Settled)' /\ (pc' = "page" => Reflects(work, Settled)')
  BY <1>0, <1>1, <2>1 DEF RInv, RowInv, Reflects, SettledSame
  <2>5. InBatch' => Reflects(work, Settled \cup DoneOf)' /\ NotBehind'
  BY <1>0, <1>1, <2>1, <2>2, <2>3 DEF RInv, RowInv, Reflects, SettledSame, InBatch
  <2> QED
  BY <2>4, <2>5 DEF RowInv
<1> QED
BY <1>3, <1>4, <1>5, <1>6 DEF RInv, OutboxInv

(* The steps of the loop that read and decide, and the acknowledgements.   *)
LEMMA Loops ==
  ASSUME Sound,
         \/ BootstrapResume \/ BootstrapRecheck \/ PageFails \/ FinalizeReconcile
         \/ BootstrapRefused \/ FlushDone \/ Turn \/ CatchupStart \/ CatchupLimit
         \/ Reconcile \/ ReportRepair \/ Scan \/ Kill
  PROVE  RInv'
<1>k. /\ call \in Calls /\ round \in 0..MaxRounds /\ 0 \in 0..MaxRounds /\ 1 \in 0..MaxRounds
      /\ {"boot", "first", "again", "before", "after"} \subseteq Calls
      /\ NextCall \in Calls
      /\ {"flush", "recheck", "post", "idle", "sync", "pull", "limit", "compare",
          "scan", "report", "down"} \subseteq Elsewhere
BY Kinds DEF Calls, Steps, Elsewhere, NextCall, Sound, Base
<1>1. Away
  <2>1. CASE BootstrapResume
    <3>1. CASE phase = "FINALIZING"
    BY <1>k, <2>1, <3>1, EndsAway DEF BootstrapResume, Away, Goto
    <3>2. CASE phase # "FINALIZING"
    BY <1>k, <2>1, <3>2, EndsAway DEF BootstrapResume
    <3> QED
    BY <3>1, <3>2
  <2>2. CASE BootstrapRecheck
  BY <1>k, <2>2, EndsAway DEF BootstrapRecheck
  <2>3. CASE PageFails
  BY <1>k, <2>3, EndsAway DEF PageFails
  <2>4. CASE FinalizeReconcile
  BY <1>k, <2>4, EndsAway DEF FinalizeReconcile
  <2>5. CASE BootstrapRefused
  BY <1>k, <2>5, EndsAway DEF BootstrapRefused
  <2>6. CASE FlushDone
    <3>1. ~LastRound => round + 1 \in 0..MaxRounds
    BY <1>k, LimitsAssumption DEF LastRound
    <3>2. CASE call # "boot" \/ phase = "COMPLETE" \/ LastRound
    BY <1>k, <2>6, <3>1, <3>2, EndsAway DEF FlushDone
    <3>3. CASE call = "boot" /\ phase # "COMPLETE" /\ ~LastRound
      <4>1. Goto("final", "boot", round + 1, EmptyTable, {}) /\ phase' # "COMPLETE"
      BY <2>6, <3>3 DEF FlushDone
      <4> QED
      BY <4>1 DEF Away, Goto
    <3> QED
    BY <3>2, <3>3
  <2>7. CASE Turn
  BY <1>k, <2>7, EndsAway DEF Turn
  <2>8. CASE CatchupStart
  BY <1>k, <2>8, EndsAway DEF CatchupStart
  <2>9. CASE CatchupLimit
  BY <1>k, <2>9, EndsAway DEF CatchupLimit
  <2>10. CASE Reconcile
    <3>1. CASE Goto(IF call \in {"first", "again"} THEN "scan" ELSE "report", call, 0, EmptyTable, {})
      <4>1. (IF call \in {"first", "again"} THEN "scan" ELSE "report") \in Elsewhere
      BY <1>k
      <4> QED
      BY <1>k, <3>1, <4>1, EndsAway
    <3>2. CASE Goto("sync", NextCall, 0, EmptyTable, {})
    BY <1>k, <3>2, EndsAway
    <3>3. CASE StartSnapshot("before") \/ Rest("idle") \/ CatchupFails
    BY <1>k, <3>3, EndsAway
    <3> QED
    BY <2>10, <3>1, <3>2, <3>3 DEF Reconcile
  <2>11. CASE ReportRepair
  BY <1>k, <2>11, EndsAway DEF ReportRepair
  <2>12. CASE Scan \/ Kill
  BY <1>k, <2>12, EndsAway DEF Scan, Kill
  <2> QED
  BY <2>1, <2>2, <2>3, <2>4, <2>5, <2>6, <2>7, <2>8, <2>9, <2>10, <2>11, <2>12
<1>2. UNCHANGED <<catalogVars, emitter, registry, acks, cursor>>
BY DEF BootstrapResume, BootstrapRecheck, PageFails, FinalizeReconcile, BootstrapRefused,
  FlushDone, Turn, CatchupStart, CatchupLimit, Reconcile, ReportRepair, Scan, Kill, sqliteVars
<1>3. Acknowledged
BY <1>2 DEF Acknowledged, catalogVars
<1> QED
BY <1>1, <1>2, <1>3, AwayStep DEF catalogVars

LEMMA AckLoops ==
  ASSUME Sound, FlushAck \/ FlushFails \/ Start
  PROVE  RInv'
<1>1. Away
  <2>1. CASE FlushAck \/ Start
    <3>1. pulled = {} /\ pulled' = pulled
    BY <2>1 DEF FlushAck, Start, memoryVars, Sound, RInv, HandInv
    <3>2. pc' \in {"flush", "idle"}
    BY <2>1 DEF FlushAck, Start, memoryVars
    <3> QED
    BY <3>1, <3>2 DEF Away
  <2>2. CASE FlushFails
  BY <2>2, EndsAway DEF FlushFails
  <2> QED
  BY <2>1, <2>2
<1>2. UNCHANGED <<event, used, syncState, emitter, registry, cursor>>
BY DEF FlushAck, FlushFails, Start, catalogVars, sqliteVars
<1>3. Acknowledged
  <2>t. acks \in [Ids -> {"none", "PENDING_ACK", "ACKED_REMOTE"}]
        /\ status \in [Ids -> {"none", "WRITING", "PENDING", "DELIVERED", "COVERED_BY_SNAPSHOT"}]
  BY DEF Sound, Base, IInv, TypeOK, CentralTypeOK, SqliteTypeOK
  <2>1. CASE FlushAck
    <3>1. PICK i \in Pending : status' = Delivered(i) /\ acks' = [acks EXCEPT ![i] = "ACKED_REMOTE"]
    BY <2>1 DEF FlushAck
    <3>2. i \in Ids /\ acks[i] = "PENDING_ACK"
    BY DEF Pending
    <3> QED
    BY <2>t, <3>1, <3>2 DEF Acknowledged, Delivered
  <2>2. CASE FlushFails
    <3>1. PICK i \in Pending : status' \in {status, Delivered(i)}
    BY <2>2 DEF FlushFails
    <3>2. i \in Ids /\ acks[i] = "PENDING_ACK" /\ acks' = acks
    BY <2>2 DEF Pending, FlushFails
    <3> QED
    BY <2>t, <3>1, <3>2 DEF Acknowledged, Delivered
  <2>3. CASE Start
  BY <2>3 DEF Start, Acknowledged, catalogVars, sqliteVars
  <2> QED
  BY <2>1, <2>2, <2>3
<1> QED
BY <1>1, <1>2, <1>3, AwayStep

-----------------------------------------------------------------------------
(* Emits.                                                                  *)

(* With one emitter, what it does to its own state is all that happens.    *)
LEMMA OnlyOne ==
  ASSUME OneEmitter, IInv, NEW e \in Emitters, NEW m, emitter' = [emitter EXCEPT ![e] = m]
  PROVE  emitter'[e] = m /\ \A f \in Emitters : f = e
BY DEF OneEmitter, IInv, TypeOK, CentralTypeOK

LEMMA EmitterQuiet ==
  ASSUME Sound, NEW e \in Emitters,
         Change(e) \/ LoadProjection(e) \/ LoadPrevious(e) \/ EmitLost(e) \/ UpsertState(e)
  PROVE  RInv'
<1>0. IInv /\ OneEmitter /\ RInv
BY DEF Sound, Base
<1>1. UNCHANGED <<sqliteVars, memoryVars, event, status, used>>
  <2>1. CASE Change(e)
  BY <2>1, Zenon DEF Change, outboxVars
  <2>2. CASE UpsertState(e)
  BY <2>2, Zenon DEF UpsertState, outboxVars
  <2>3. CASE LoadProjection(e) \/ LoadPrevious(e) \/ EmitLost(e)
  BY <2>3 DEF LoadProjection, LoadPrevious, EmitLost, catalogVars, outboxVars
  <2> QED
  BY <2>1, <2>2, <2>3
<1>2. /\ emitter[e].pc # "commit" /\ emitter'[e].pc # "commit"
      /\ emitter'[e].pc = "insert" =>
           emitter'[e].next.ver = syncState'[emitter'[e].asin].ver
      /\ \A a \in Asins : syncState[a].ver <= syncState'[a].ver
  <2>s. \A a \in Asins : syncState[a] \in Row /\ syncState[a].ver \in Nat
  BY <1>0, Versions
  <2>1. CASE Change(e)
    <3> DEFINE k(l) == [NoEmit EXCEPT !.pc = "load", !.asin = AsinOf[l]]
    <3>1. PICK l \in Listings : emitter' = [emitter EXCEPT ![e] = k(l)]
    BY <2>1 DEF Change
    <3>k. k(l).pc = "load"
    BY DEF NoEmit
    <3> HIDE DEF k
    <3>2. emitter'[e].pc = "load"
    BY <1>0, <3>1, <3>k, OnlyOne
    <3> QED
      <4>1. emitter[e].pc = "idle" /\ syncState' = syncState
      BY <2>1, Zenon DEF Change, Idle
      <4> QED
      BY <2>s, <3>2, <4>1
  <2>2. CASE LoadProjection(e)
    <3> DEFINE k == [emitter[e] EXCEPT !.pc = "prev", !.next = Projection(ListingsOf(emitter[e].asin))]
    <3>1. emitter' = [emitter EXCEPT ![e] = k]
    BY <2>2 DEF LoadProjection
    <3>k. k.pc = "prev"
    BY <1>0, EmitterParts DEF EmitterState
    <3> HIDE DEF k
    <3>2. emitter'[e].pc = "prev"
    BY <1>0, <3>1, <3>k, OnlyOne
    <3> QED
    BY <2>2, <2>s, <3>2 DEF LoadProjection, catalogVars
  <2>3. CASE LoadPrevious(e)
    <3> DEFINE types == Transition(syncState[emitter[e].asin], emitter[e].next)
               k == IF types = <<>> THEN NoEmit ELSE [emitter[e] EXCEPT !.pc = "upsert", !.types = types]
    <3>1. emitter' = [emitter EXCEPT ![e] = k]
    BY <2>3 DEF LoadPrevious
    <3>k. k.pc \in {"idle", "upsert"}
    BY <1>0, EmitterParts DEF EmitterState, NoEmit
    <3> HIDE DEF k
    <3>2. emitter'[e].pc \in {"idle", "upsert"}
    BY <1>0, <3>1, <3>k, OnlyOne
    <3> QED
    BY <2>3, <2>s, <3>2 DEF LoadPrevious, catalogVars
  <2>4. CASE EmitLost(e)
    <3>1. emitter' = [emitter EXCEPT ![e] = NoEmit]
    BY <2>4 DEF EmitLost
    <3>2. emitter'[e] = NoEmit /\ NoEmit.pc = "idle"
      <4>1. NoEmit.pc = "idle"
      BY DEF NoEmit
      <4> QED
      BY <1>0, <3>1, <4>1, OnlyOne
    <3> QED
    BY <2>4, <2>s, <3>2 DEF EmitLost, catalogVars
  <2>5. CASE UpsertState(e)
    <3> DEFINE a == emitter[e].asin
               row == [emitter[e].next EXCEPT !.ver = syncState[a].ver + 1]
    <3>1. emitter[e] \in EmitterState /\ a \in Asins
    BY <1>0, <2>5, EmitterParts DEF UpsertState
    <3>2. row.ver = syncState[a].ver + 1
    BY <2>s, <3>1, RowParts DEF EmitterState
    <3> HIDE DEF row
    <3>3. syncState' = [syncState EXCEPT ![a] = row]
    BY <2>5 DEF UpsertState, row
    <3> DEFINE k == [emitter[e] EXCEPT !.pc = "insert", !.next = row]
    <3>4. emitter' = [emitter EXCEPT ![e] = k]
      <4>1. emitter' = [emitter EXCEPT ![e].pc = "insert", ![e].next = row]
      BY <2>5 DEF UpsertState, row
      <4> QED
      BY <4>1
    <3>k. k.pc = "insert" /\ k.next = row /\ k.asin = a
    BY <3>1 DEF EmitterState
    <3> HIDE DEF k
    <3>5. emitter'[e].pc = "insert" /\ emitter'[e].next = row /\ emitter'[e].asin = a
    BY <1>0, <3>4, <3>k, OnlyOne
    <3>6. syncState'[a] = row /\ \A b \in Asins \ {a} : syncState'[b] = syncState[b]
    BY <1>0, <3>1, <3>3, Versions
    <3> QED
    BY <2>5, <2>s, <3>1, <3>2, <3>5, <3>6 DEF UpsertState
  <2> QED
  BY <2>1, <2>2, <2>3, <2>4, <2>5
<1>3. \A f \in Emitters : f = e
BY <1>0 DEF OneEmitter
<1>4. Numbered' /\ Current' /\ Ordered'
  <2>1. Numbered'
  BY <1>0, <1>1, <1>2, <1>3 DEF RInv, OutboxInv, Numbered
  <2>2. Current'
  BY <1>2, <1>3 DEF Current
  <2>3. Ordered'
  BY <1>0, <1>1 DEF RInv, OutboxInv, Ordered
  <2> QED
  BY <2>1, <2>2, <2>3
<1>5. Put
BY <1>0, <1>1, <1>2, Numerals DEF Put
<1> QED
BY <1>1, <1>4, <1>5, PutStep

(* An event is inserted with the number after the last, of the version     *)
(* central last gave out; the slot it takes was empty.                     *)
LEMMA EventInserted ==
  ASSUME Sound, NEW e \in Emitters, emitter[e].pc = "insert", used < MaxEvents,
         used' = used + 1, event' = [event EXCEPT ![used'] = Announced(e)],
         NEW s \in {"PENDING", "WRITING"}, status' = [status EXCEPT ![used'] = s],
         UNCHANGED <<syncState, sqliteVars, memoryVars>>,
         NEW k, emitter' = [emitter EXCEPT ![e] = k],
         k.pc # "idle" => k.asin = emitter[e].asin /\ k.next = emitter[e].next,
         \/ k.pc \in {"idle", "insert"} /\ s = "PENDING"
         \/ k.pc = "commit" /\ k.id = used' /\ s = "WRITING"
  PROVE  RInv'
<1> DEFINE a == emitter[e].asin
           n == used + 1
           ver == emitter[e].next.ver
<1>0. IInv /\ OneEmitter /\ RInv
BY DEF Sound, Base
<1>1. /\ n \in Ids /\ used' = n /\ Ids \subseteq Nat \ {0} /\ used \in Nat
      /\ \A i \in Ids : (i <= n) <=> (i <= used \/ i = n)
  <2>1. Ids = 1..MaxEvents /\ MaxEvents \in Nat /\ used \in Nat
  BY <1>0, Numerals, LimitsAssumption DEF Ids
  <2>2. n \in Ids /\ Ids \subseteq Nat \ {0}
  BY <2>1
  <2>3. \A i \in Ids : (i <= n) <=> (i <= used \/ i = n)
  BY <2>1
  <2> QED
  BY <2>1, <2>2, <2>3
<1>2. emitter'[e] = k /\ \A f \in Emitters : f = e
BY <1>0, OnlyOne
<1>3. /\ event \in [Ids -> Event]
      /\ status \in [Ids -> {"none", "WRITING", "PENDING", "DELIVERED", "COVERED_BY_SNAPSHOT"}]
BY <1>0 DEF IInv, TypeOK, CentralTypeOK
<1>4. status[n] = "none" /\ status'[n] = s /\ \A i \in Ids \ {n} : status'[i] = status[i]
  <2>1. ~(n <= used)
  BY <1>1
  <2> QED
  BY <1>0, <1>1, <1>3, <2>1 DEF RInv, OutboxInv, Numbered
<1>5. event'[n].asin = a /\ event'[n].proj.ver = ver /\ \A i \in Ids \ {n} : event'[i] = event[i]
  <2>1. event'[n] = Announced(e) /\ \A i \in Ids \ {n} : event'[i] = event[i]
  BY <1>1, <1>3
  <2> QED
  BY <2>1 DEF Announced
<1>6. a \in Asins /\ ver = syncState[a].ver
BY <1>0, EmitterParts DEF RInv, OutboxInv, Current
<1>7. Put
  <2>1. used <= used'
  BY <1>1
  <2>2. \A b \in Asins : syncState[b].ver <= syncState'[b].ver
  BY <1>0, Versions
  <2> QED
  BY <1>4, <1>5, <2>1, <2>2 DEF Put
<1>8. Numbered'
  <2>1. \A i \in Ids : status'[i] # "none" <=> i <= used'
  BY <1>0, <1>1, <1>4 DEF RInv, OutboxInv, Numbered
  <2>2. ASSUME NEW i \in Ids, status[i] = "WRITING" PROVE FALSE
  BY <1>0, <1>2, <2>2 DEF RInv, OutboxInv, Numbered
  <2>3. \A i \in Ids : status'[i] = "WRITING" =>
          \E f \in Emitters : emitter'[f].pc = "commit" /\ emitter'[f].id = i
  BY <1>1, <1>2, <1>4, <2>2
  <2>4. \A f \in Emitters : emitter'[f].pc = "commit" => emitter'[f].id = used' /\ status'[used'] = "WRITING"
  BY <1>1, <1>2, <1>4
  <2> QED
  BY <2>1, <2>3, <2>4 DEF Numbered
<1>9. Current'
  <2>1. ASSUME NEW f \in Emitters, emitter'[f].pc \in {"insert", "commit"}
        PROVE  emitter'[f].next.ver = syncState'[emitter'[f].asin].ver
  BY <1>2, <1>6, <2>1
  <2> QED
  BY <2>1 DEF Current
<1>10. Ordered'
  <2> SUFFICES ASSUME NEW i \in Ids, NEW j \in Ids, i <= j, j <= used', event'[i].asin = event'[j].asin
               PROVE  event'[i].proj.ver <= event'[j].proj.ver
  BY DEF Ordered
  <2>1. CASE j # n
    <3>1. i # n /\ j <= used
    BY <1>1, <2>1
    <3> QED
    BY <1>0, <1>5, <2>1, <3>1 DEF RInv, OutboxInv, Ordered
  <2>2. CASE j = n /\ i = n
    <3>1. ver \in Nat
    BY <1>0, <1>6, Versions
    <3> QED
    BY <1>5, <2>2, <3>1
  <2>3. CASE j = n /\ i # n
    <3>1. i <= used
    BY <1>1, <2>3
    <3>2. event[i].proj.ver <= syncState[event[i].asin].ver
    BY <1>0, <3>1, Versions DEF RInv, OutboxInv, Numbered
    <3> QED
    BY <1>5, <1>6, <2>3, <3>2
  <2> QED
  BY <2>1, <2>2, <2>3
<1> QED
BY <1>7, <1>8, <1>9, <1>10, PutStep

(* What is left of an emit after an event.                                 *)
LEMMA Afterwards ==
  ASSUME IInv, NEW e \in Emitters, emitter[e].pc # "idle", NEW k,
         k = AfterInsert(e, Tail(emitter[e].types))
  PROVE  /\ k.pc \in {"idle", "insert"}
         /\ k.pc # "idle" => k.asin = emitter[e].asin /\ k.next = emitter[e].next
<1> DEFINE rest == Tail(emitter[e].types)
           m == [emitter[e] EXCEPT !.pc = "insert", !.types = rest]
<1>1. m.pc = "insert" /\ m.asin = emitter[e].asin /\ m.next = emitter[e].next
BY EmitterParts DEF EmitterState
<1>2. NoEmit.pc = "idle"
BY DEF NoEmit
<1>3. k = NoEmit \/ k = m
BY Zenon DEF AfterInsert
<1> HIDE DEF m
<1> QED
BY <1>1, <1>2, <1>3

LEMMA InsertRows ==
  ASSUME Sound, NEW e \in Emitters, InsertEvent(e)
  PROVE  RInv'
<1> DEFINE k == AfterInsert(e, Tail(emitter[e].types))
           w == [emitter[e] EXCEPT !.pc = "commit", !.id = used']
<1>0. IInv /\ OneEmitter /\ RInv
BY DEF Sound, Base
<1>1. emitter[e].pc = "insert" /\ UNCHANGED <<syncState, sqliteVars, memoryVars>>
BY DEF InsertEvent
<1>2. /\ k.pc \in {"idle", "insert"}
      /\ k.pc # "idle" => k.asin = emitter[e].asin /\ k.next = emitter[e].next
BY <1>0, <1>1, Afterwards
<1>3. w.pc = "commit" /\ w.id = used' /\ w.asin = emitter[e].asin /\ w.next = emitter[e].next
BY <1>0, EmitterParts DEF EmitterState
<1>4. \/ UNCHANGED outboxVars /\ emitter' = [emitter EXCEPT ![e] = k]
      \/ /\ used < MaxEvents /\ used' = used + 1 /\ event' = [event EXCEPT ![used'] = Announced(e)]
         /\ \/ status' = [status EXCEPT ![used'] = "PENDING"] /\ emitter' = [emitter EXCEPT ![e] = k]
            \/ status' = [status EXCEPT ![used'] = "WRITING"] /\ emitter' = [emitter EXCEPT ![e] = w]
  <2>1. /\ \/ UNCHANGED outboxVars /\ emitter' = [emitter EXCEPT ![e] = k]
           \/ /\ used < MaxEvents /\ used' = used + 1 /\ event' = [event EXCEPT ![used'] = Announced(e)]
              /\ \/ status' = [status EXCEPT ![used'] = "PENDING"] /\ emitter' = [emitter EXCEPT ![e] = k]
                 \/ /\ status' = [status EXCEPT ![used'] = "WRITING"]
                    /\ emitter' = [emitter EXCEPT ![e] = [@ EXCEPT !.pc = "commit", !.id = used']]
  BY Zenon DEF InsertEvent
  <2> QED
  BY <2>1
<1> HIDE DEF k, w
<1>5. CASE UNCHANGED outboxVars /\ emitter' = [emitter EXCEPT ![e] = k]
  <2>1. emitter'[e] = k /\ \A f \in Emitters : f = e
  BY <1>0, <1>5, OnlyOne
  <2>2. event' = event /\ status' = status /\ used' = used
  BY <1>5 DEF outboxVars
  <2>3. Put
  BY <1>0, <1>1, <2>2, Numerals, Versions DEF Put
  <2>4. Numbered'
  BY <1>0, <1>1, <1>2, <2>1, <2>2 DEF RInv, OutboxInv, Numbered
  <2>5. Current'
  BY <1>0, <1>1, <1>2, <2>1 DEF RInv, OutboxInv, Current
  <2>6. Ordered'
  BY <1>0, <2>2 DEF RInv, OutboxInv, Ordered
  <2> QED
  BY <1>1, <2>3, <2>4, <2>5, <2>6, PutStep
<1>6. CASE /\ used < MaxEvents /\ used' = used + 1 /\ event' = [event EXCEPT ![used'] = Announced(e)]
           /\ status' = [status EXCEPT ![used'] = "PENDING"] /\ emitter' = [emitter EXCEPT ![e] = k]
BY <1>1, <1>2, <1>6, EventInserted
<1>7. CASE /\ used < MaxEvents /\ used' = used + 1 /\ event' = [event EXCEPT ![used'] = Announced(e)]
           /\ status' = [status EXCEPT ![used'] = "WRITING"] /\ emitter' = [emitter EXCEPT ![e] = w]
BY <1>1, <1>3, <1>7, EventInserted
<1> QED
BY <1>4, <1>5, <1>6, <1>7

LEMMA CommitRows ==
  ASSUME Sound, NEW e \in Emitters, CommitEvent(e)
  PROVE  RInv'
<1> DEFINE k == AfterInsert(e, Tail(emitter[e].types))
           n == emitter[e].id
<1>0. IInv /\ OneEmitter /\ RInv
BY DEF Sound, Base
<1>1. /\ emitter[e].pc = "commit" /\ UNCHANGED <<syncState, event, used, sqliteVars, memoryVars>>
      /\ status' = [status EXCEPT ![n] = "PENDING"] /\ emitter' = [emitter EXCEPT ![e] = k]
BY DEF CommitEvent
<1>2. /\ k.pc \in {"idle", "insert"}
      /\ k.pc # "idle" => k.asin = emitter[e].asin /\ k.next = emitter[e].next
BY <1>0, <1>1, Afterwards
<1> HIDE DEF k
<1>3. emitter'[e] = k /\ \A f \in Emitters : f = e
BY <1>0, <1>1, OnlyOne
<1>4. n \in Ids /\ n = used /\ status[n] = "WRITING"
BY <1>0, <1>1 DEF IInv, Emitting, RInv, OutboxInv, Numbered
<1>5. status'[n] = "PENDING" /\ \A i \in Ids \ {n} : status'[i] = status[i]
BY <1>0, <1>1, <1>4 DEF IInv, TypeOK, CentralTypeOK
<1>6. Put
BY <1>0, <1>1, <1>4, <1>5, Numerals, Versions DEF Put
<1>7. Numbered'
BY <1>0, <1>1, <1>2, <1>3, <1>4, <1>5 DEF RInv, OutboxInv, Numbered
<1>8. Current'
BY <1>0, <1>1, <1>2, <1>3 DEF RInv, OutboxInv, Current
<1>9. Ordered'
BY <1>0, <1>1 DEF RInv, OutboxInv, Ordered
<1> QED
BY <1>1, <1>6, <1>7, <1>8, <1>9, PutStep

-----------------------------------------------------------------------------
(* The snapshot.                                                           *)

(* A step that leaves central and the ledger alone.                        *)
LEMMA StillOutbox ==
  ASSUME Sound, UNCHANGED <<event, used, syncState, emitter, status>>
  PROVE  OutboxInv' /\ (UNCHANGED acks => SettledSame)
BY DEF Sound, RInv, OutboxInv, Numbered, Current, Ordered, CoveredFirst, SettledSame, Settled

LEMMA PageRows ==
  ASSUME Sound, ReadPage \/ ReadWatermark \/ FirstPageAnswered
  PROVE  RInv'
<1>0. IInv /\ RInv
BY DEF Sound, Base
<1>1. /\ UNCHANGED <<catalogVars, emitter, registry, phase, acks, cursor, pc, pulled>>
      /\ pc = "page" /\ pulled = {}
BY <1>0 DEF ReadPage, ReadWatermark, FirstPageAnswered, sqliteVars, RInv, HandInv
<1>2. OutboxInv' /\ SettledSame /\ LedgerInv'
BY <1>0, <1>1, StillOutbox DEF catalogVars, RInv, LedgerInv
<1>3. HandInv'
  <2>s. snap \in Snap
  BY <1>0 DEF IInv, TypeOK, MemoryTypeOK
  <2>1. /\ snap'.mark # 0 => cursor < snap'.mark
        /\ snap'.page = "next" => cursor <= snapAt'
    <3>1. CASE ReadPage
      <4>1. snap'.mark = snap.mark /\ snap'.page = snap.page /\ snapAt' = snapAt
      BY <2>s, <3>1 DEF ReadPage, sqliteVars, Snap
      <4> QED
      BY <1>0, <1>1, <4>1 DEF RInv, HandInv
    <3>2. CASE ReadWatermark
      <4>1. snap'.mark = used + 1 /\ snap'.page = "first"
      BY <2>s, <3>2 DEF ReadWatermark, Snap
      <4> QED
      BY <1>0, <4>1, Numerals DEF RInv, LedgerInv
    <3>3. CASE FirstPageAnswered
      <4>1. snap'.mark = snap.mark /\ snapAt' = snap.mark - 1 /\ snap.mark # 0
      BY <2>s, <3>3 DEF FirstPageAnswered, Snap
      <4> QED
      BY <1>0, <1>1, <4>1, Numerals DEF RInv, HandInv
    <3> QED
    BY <3>1, <3>2, <3>3
  <2> QED
  BY <1>1, <2>1 DEF HandInv
<1>4. Reflects(work, Settled)'
  <2>1. ASSUME NEW i \in Settled PROVE Reflected(work, i)'
    <3>1. i \in Ids /\ status[i] # "none" /\ event[i].asin \in Asins /\ Reflected(work, i)
    BY <1>0, <1>1, SettledKnown DEF RInv, RowInv, Reflects
    <3>2. \/ work'[event[i].asin] = work[event[i].asin]
          \/ work'[event[i].asin] = Central[event[i].asin]
    BY <3>1 DEF ReadPage, ReadWatermark, FirstPageAnswered
    <3>3. Reflected(work', i)
      <4>1. CASE work'[event[i].asin] = work[event[i].asin]
      BY <3>1, <4>1 DEF Reflected
      <4>2. CASE work'[event[i].asin] = Central[event[i].asin]
        <5> DEFINE t == work'
        <5>1. t[event[i].asin] = Central[event[i].asin]
        BY <4>2
        <5> HIDE DEF t
        <5>2. Reflected(t, i)
        BY <1>0, <3>1, <5>1, CentralReflects
        <5> QED
        BY <5>2 DEF t
      <4> QED
      BY <3>2, <4>1, <4>2
    <3> QED
    BY <1>1, <3>3 DEF Reflected, catalogVars, outboxVars
  <2> QED
  BY <1>2, <2>1 DEF Reflects, SettledSame
<1>5. RowInv'
  <2>1. Reflects(registry, Settled)'
  BY <1>0, <1>1, <1>2 DEF RInv, RowInv, Reflects, Reflected, SettledSame, catalogVars, outboxVars
  <2>2. ~InBatch'
  BY <1>1 DEF InBatch
  <2> QED
  BY <1>4, <2>1, <2>2 DEF RowInv
<1> QED
BY <1>2, <1>3, <1>5 DEF RInv

(* Staging agrees with central before it becomes the registry, so that it  *)
(* reflects every event whatever was applied to it.                        *)
LEMMA CheckRows ==
  ASSUME Sound, CheckStaging
  PROVE  RInv'
<1>0. IInv /\ RInv
BY DEF Sound, Base
<1>1. /\ UNCHANGED <<event, used, syncState, emitter, status, cursor>> /\ pc = "check"
BY DEF CheckStaging, catalogVars, outboxVars
<1>2. CASE EndBootstrap /\ UNCHANGED <<registry, acks>>
BY <1>1, <1>2, EndsAway, AwayStep DEF Acknowledged
<1>3. CASE /\ Agrees(work) /\ registry' = work /\ acks' = Recorded(pulled)
           /\ Goto("flush", "boot", 0, EmptyTable, {})
  <2>1. Settled' \subseteq Settled \cup pulled
  BY <1>1, <1>3 DEF Settled, Recorded
  <2>2. LedgerInv'
    <3>1. \A i \in Ids : acks'[i] # "none" => acks[i] # "none" \/ i \in pulled
    BY <1>3 DEF Recorded
    <3> QED
    BY <1>0, <1>1, <3>1 DEF RInv, LedgerInv, HandInv
  <2>3. pulled' = {} /\ pc' = "flush"
  BY <1>3 DEF Goto
  <2>4. HandInv'
  BY <2>3 DEF HandInv
  <2>5. \A i \in Settled \cup pulled : Reflected(work, i)
  BY <1>0, <1>3, SettledKnown, CentralReflects DEF Agrees
  <2>6. RowInv'
    <3>1. Reflects(registry, Settled)'
    BY <1>1, <1>3, <2>1, <2>5 DEF Reflects, Reflected
    <3> QED
    BY <2>3, <3>1 DEF RowInv, InBatch
  <2> QED
  BY <1>1, <2>2, <2>4, <2>6, StillOutbox DEF RInv
<1> QED
BY <1>2, <1>3 DEF CheckStaging

(* A repair's snapshot goes into the registry, and keeps the later version.*)
LEMMA MergeRows ==
  ASSUME Sound, MergeSnapshot
  PROVE  RInv'
<1>0. IInv /\ RInv
BY DEF Sound, Base
<1>1. /\ UNCHANGED <<event, used, syncState, emitter, status, acks, cursor>>
      /\ pc = "page" /\ registry' = Merged /\ pulled' = {} /\ pc' = "sync"
BY DEF MergeSnapshot, Goto, catalogVars, outboxVars
<1>2. OutboxInv' /\ SettledSame /\ LedgerInv' /\ HandInv'
BY <1>0, <1>1, StillOutbox DEF RInv, LedgerInv, HandInv
<1>3. ASSUME NEW i \in Settled PROVE Reflected(Merged, i)
  <2> DEFINE a == event[i].asin
             later == Present(work[a]) /\ registry[a].ver > work[a].ver
  <2>1. a \in Asins /\ i \in Ids /\ Reflected(work, i)
  BY <1>0, <1>1, SettledKnown DEF RInv, RowInv, Reflects
  <2>2. work[a] \in Row /\ work[a].ver \in Nat /\ registry[a].ver \in Nat /\ event[i].proj.ver \in Nat
  BY <1>0, <2>1, Versions
  <2>3. /\ Merged[a].status = work[a].status
        /\ Merged[a].ver = IF later THEN registry[a].ver ELSE work[a].ver
  BY <2>1, <2>2 DEF Merged, Row
  <2> QED
  BY <2>1, <2>2, <2>3 DEF Reflected, Present
<1>4. RowInv'
  <2>1. Reflects(registry, Settled)'
  BY <1>1, <1>2, <1>3 DEF Reflects, Reflected, SettledSame
  <2> QED
  BY <1>1, <2>1 DEF RowInv, InBatch
<1> QED
BY <1>2, <1>4 DEF RInv

(* A completed bootstrap covers what came before its snapshot: the         *)
(* registry agrees with central then.                                      *)
LEMMA CompleteRows ==
  ASSUME Sound, BootstrapCompletes
  PROVE  RInv'
<1>0. IInv /\ RInv
BY DEF Sound, Base
<1>1. /\ UNCHANGED <<event, used, syncState, emitter, acks, cursor, registry>> /\ Away
BY EndsAway DEF BootstrapCompletes
<1>2. CASE UNCHANGED status
BY <1>1, <1>2, AwayStep DEF Acknowledged
<1>3. CASE /\ Agrees(registry)
           /\ status' = [i \in Ids |-> IF i \in Covered THEN "COVERED_BY_SNAPSHOT" ELSE status[i]]
  <2>s. Ids \subseteq Nat /\ used \in Nat /\ snapAt \in Nat
  BY <1>0, Numerals
  <2>1. \A i \in Ids : /\ status'[i] = "none" <=> status[i] = "none"
                       /\ status'[i] = "WRITING" <=> status[i] = "WRITING"
  BY <1>3 DEF Covered
  <2>2. \A e \in Emitters : emitter[e].pc = "commit" => used \in Ids
  BY <1>0 DEF IInv, Emitting, RInv, OutboxInv, Numbered
  <2>3. Numbered'
  BY <1>0, <1>1, <2>1, <2>2 DEF RInv, OutboxInv, Numbered
  <2>4. Current' /\ Ordered'
  BY <1>0, <1>1 DEF RInv, OutboxInv, Current, Ordered
  <2>5. CoveredFirst'
    <3> SUFFICES ASSUME NEW i \in Ids, NEW j \in Ids, status'[j] = "COVERED_BY_SNAPSHOT", i <= j
                 PROVE  status'[i] \in Struck
    BY DEF CoveredFirst
    <3>1. CASE status[j] = "COVERED_BY_SNAPSHOT"
      <4>1. status[i] \in Struck
      BY <1>0, <3>1 DEF RInv, OutboxInv, CoveredFirst
      <4> QED
      BY <1>3, <4>1 DEF Struck
    <3>2. CASE status[j] # "COVERED_BY_SNAPSHOT"
      <4>1. status[j] = "PENDING" /\ j <= snapAt
      BY <1>3, <3>2 DEF Covered
      <4>2. i <= snapAt /\ i <= used
      BY <1>0, <2>s, <4>1 DEF RInv, OutboxInv, Numbered
      <4>3. status[i] # "none" /\ status[i] # "WRITING"
        <5>1. status[i] # "none"
        BY <1>0, <4>2 DEF RInv, OutboxInv, Numbered
        <5>2. ASSUME status[i] = "WRITING" PROVE FALSE
          <6>1. i = used /\ j <= used
          BY <1>0, <4>1, <5>2 DEF RInv, OutboxInv, Numbered
          <6>2. i = j
          BY <2>s, <6>1
          <6> QED
          BY <4>1, <5>2, <6>2
        <5> QED
        BY <5>1, <5>2
      <4>4. status[i] \in {"PENDING", "DELIVERED", "COVERED_BY_SNAPSHOT"}
      BY <1>0, <4>3 DEF IInv, TypeOK, CentralTypeOK
      <4> QED
      BY <1>3, <4>2, <4>4 DEF Covered, Struck
    <3> QED
    BY <3>1, <3>2
  <2>6. LedgerInv'
  BY <1>0, <1>1 DEF RInv, LedgerInv
  <2>7. HandInv'
  BY <1>1 DEF Away, HandInv, NoSnap
  <2>8. \A i \in Settled' : i \in Ids /\ status[i] # "none"
    <3>1. Settled' \subseteq Settled \cup Covered
    BY <1>1, <1>3 DEF Settled, Struck, Covered
    <3> QED
    BY <1>0, <3>1, SettledKnown DEF Covered
  <2>9. Reflects(registry, Settled)'
    <3>1. \A i \in Settled' : Reflected(registry, i)
    BY <1>0, <1>3, <2>8, CentralReflects DEF Agrees
    <3> QED
    BY <1>1, <3>1 DEF Reflects, Reflected
  <2>10. pc' # "page" /\ ~InBatch'
    <3>1. EndBootstrap
    BY DEF BootstrapCompletes
    <3> QED
    BY <3>1 DEF EndBootstrap, Rest, Goto, InBatch
  <2> QED
  BY <2>3, <2>4, <2>5, <2>6, <2>7, <2>9, <2>10 DEF RInv, OutboxInv, RowInv
<1> QED
BY <1>2, <1>3 DEF BootstrapCompletes

-----------------------------------------------------------------------------
(* Events in hand.                                                         *)

(* A pull takes what is pending after the cursor.                          *)
LEMMA PullRows ==
  ASSUME Sound, PullIntoStaging \/ FinalizePull \/ CatchupPull
  PROVE  RInv'
<1>0. IInv /\ IInv' /\ RInv
BY DEF Sound, Base
<1>1. UNCHANGED <<event, used, syncState, emitter, status, acks, cursor, registry>>
BY DEF PullIntoStaging, FinalizePull, CatchupPull, catalogVars, outboxVars, sqliteVars
<1>2. OutboxInv' /\ SettledSame /\ LedgerInv'
BY <1>0, <1>1, StillOutbox DEF RInv, LedgerInv
<1>n. Ids \subseteq Nat \ {0} /\ cursor \in Nat /\ snapAt \in Nat
BY <1>0, Numerals
<1>3. ASSUME NEW from \in Nat, cursor <= from, NEW c, NEW r, NEW w,
             Goto("apply", c, r, w, PulledSince(from)),
             phase' = "COMPLETE" => w = registry
      PROVE  RInv'
  <2>1. /\ pc' = "apply" /\ pulled' = PulledSince(from) /\ done' = 0 /\ work' = w
        /\ \A i \in pulled' : i \in Ids /\ status[i] = "PENDING" /\ i > from
  BY <1>3 DEF Goto, PulledSince
  <2>2. HandInv'
    <3>1. ASSUME NEW i \in pulled' PROVE i > cursor
      <4>1. i \in Nat /\ i > from
      BY <1>n, <2>1
      <4> QED
      BY <1>n, <1>3, <4>1
    <3> QED
    BY <1>1, <2>1, <3>1 DEF HandInv
  <2>3. DoneOf' = {}
    <3>1. ASSUME NEW i \in pulled' PROVE ~(i <= 0)
      <4>1. i \in Nat \ {0}
      BY <1>n, <2>1
      <4> QED
      BY <4>1
    <3> QED
    BY <2>1, <3>1 DEF DoneOf
  <2>4. Reflects(registry, Settled)'
  BY <1>0, <1>1, <1>2 DEF RInv, RowInv, Reflects, Reflected, SettledSame
  <2>5. InBatch' => Reflects(work, Settled \cup DoneOf)'
  BY <1>1, <1>3, <2>1, <2>3, <2>4 DEF InBatch, Reflects, Reflected
  <2>6. InBatch' => NotBehind'
    <3>1. \A a \in Asins : registry[a].ver \in Nat
    BY <1>0, Versions
    <3> QED
    BY <1>1, <1>3, <2>1, <3>1 DEF InBatch, NotBehind
  <2>7. RowInv'
  BY <2>1, <2>4, <2>5, <2>6 DEF RowInv
  <2> QED
  BY <1>2, <2>2, <2>7 DEF RInv
<1>4. CASE Away
  <2>1. Acknowledged
  BY <1>1 DEF Acknowledged
  <2> QED
  BY <1>1, <1>4, <2>1, AwayStep
<1>5. CASE PullIntoStaging
  <2>1. CASE Goto("apply", "boot", 0, work, PulledSince(snapAt)) /\ phase' = "STAGING_EVENTS"
    <3>1. cursor <= snapAt
    BY <1>0, <1>5 DEF PullIntoStaging, RInv, HandInv
    <3> QED
    BY <1>3, <1>n, <2>1, <3>1
  <2>2. CASE EndBootstrap
  BY <1>4, <2>2, EndsAway
  <2> QED
  BY <1>5, <2>1, <2>2 DEF PullIntoStaging
<1>6. CASE FinalizePull
  <2>1. CASE Goto("apply", "boot", round, EmptyTable, PulledSince(SinceForFinalize))
    <3>1. SinceForFinalize \in Nat /\ cursor <= SinceForFinalize
    BY <1>n DEF SinceForFinalize
    <3>2. phase' # "COMPLETE"
    BY <1>0, <1>6 DEF FinalizePull, RInv, HandInv, sqliteVars
    <3> QED
    BY <1>3, <2>1, <3>1, <3>2
  <2>2. CASE EndBootstrap
  BY <1>4, <2>2, EndsAway
  <2> QED
  BY <1>6, <2>1, <2>2 DEF FinalizePull
<1>7. CASE CatchupPull
  <2>1. CASE Goto("apply", call, round, registry, PulledSince(SinceForCatchup))
    <3>1. SinceForCatchup \in Nat /\ cursor <= SinceForCatchup
    BY <1>n DEF SinceForCatchup
    <3> QED
    BY <1>3, <2>1, <3>1
  <2>2. CASE Goto("compare", call, round, EmptyTable, {})
    <3>1. call \in Calls /\ round \in 0..MaxRounds /\ "compare" \in Elsewhere
    BY <1>0, Kinds DEF Steps, Elsewhere
    <3> QED
    BY <1>4, <2>2, <3>1, EndsAway
  <2>3. CASE CatchupFails
  BY <1>4, <2>3, EndsAway
  <2> QED
  BY <1>7, <2>1, <2>2, <2>3 DEF CatchupPull
<1> QED
BY <1>5, <1>6, <1>7

(* The next event to apply comes after every event that is settled, and is *)
(* of no earlier version than those of its ASIN.                           *)
LEMMA NextEvent ==
  ASSUME Sound, pc = "apply", ToApply # {}, NEW i, i = Earliest(ToApply)
  PROVE  /\ i \in pulled /\ i \in Ids /\ i > done /\ i > cursor /\ i <= used
         /\ status[i] = "PENDING" /\ acks[i] = "none"
         /\ event[i].asin \in Asins /\ event[i].proj \in Row
         /\ \A j \in ToApply : i <= j
         /\ \A j \in Settled : j <= i
         /\ \A j \in Ids : j <= i /\ event[j].asin = event[i].asin =>
              event[j].proj.ver <= event[i].proj.ver
<1>0. IInv /\ RInv /\ DeliveredIsRecorded
BY DEF Sound, Base
<1>n. /\ Ids \subseteq Nat \ {0} /\ cursor \in Nat /\ done \in Nat /\ used \in Nat
      /\ pulled \subseteq Ids
BY <1>0, Numerals
<1>1. i \in ToApply /\ \A j \in ToApply : i <= j
  <2>1. ToApply \in SUBSET Ids
  BY <1>n DEF ToApply
  <2>2. Numbers(ToApply)
  BY <2>1, IdsFinite
  <2> QED
  BY <2>2, EarliestIn
<1>2. i \in pulled /\ i \in Ids /\ i > done /\ status[i] = "PENDING"
BY <1>0, <1>1, <1>n DEF ToApply, RInv, HandInv
<1>3. i > cursor
  <2>1. ~(i <= done)
  BY <1>2, <1>n
  <2> QED
  BY <1>0, <1>2, <2>1 DEF RInv, HandInv
<1>4. i <= used /\ event[i].asin \in Asins /\ event[i].proj \in Row
BY <1>0, <1>2, SettledKnown, Versions
<1>5. \A j \in Ids : acks[j] # "none" => j < i
BY <1>0, <1>2, <1>3, <1>n DEF RInv, LedgerInv
<1>6. ASSUME NEW j \in Settled PROVE j <= i
  <2>1. j \in Ids /\ (acks[j] # "none" \/ status[j] = "COVERED_BY_SNAPSHOT")
  BY <1>0 DEF Settled, Struck, DeliveredIsRecorded
  <2>2. CASE acks[j] # "none"
  BY <1>2, <1>5, <1>n, <2>1, <2>2
  <2>3. CASE status[j] = "COVERED_BY_SNAPSHOT"
    <3>1. ~(i <= j)
    BY <1>0, <1>2, <2>1, <2>3 DEF RInv, OutboxInv, CoveredFirst, Struck
    <3> QED
    BY <1>2, <1>n, <2>1, <3>1
  <2> QED
  BY <2>1, <2>2, <2>3
<1>7. acks[i] = "none"
BY <1>2, <1>5, <1>n
<1>8. \A j \in Ids : j <= i /\ event[j].asin = event[i].asin => event[j].proj.ver <= event[i].proj.ver
BY <1>0, <1>2, <1>4 DEF RInv, OutboxInv, Ordered
<1> QED
BY <1>1, <1>2, <1>3, <1>4, <1>6, <1>7, <1>8

(* The events before the next one stay reflected when it is applied, and   *)
(* so is it.                                                               *)
LEMMA NextReflects ==
  ASSUME Sound, pc = "apply", ToApply # {}, NEW i, i = Earliest(ToApply),
         NEW t \in [Asins -> Row], NEW u, WithEvent(t, u, i),
         NEW ids, ids \subseteq Settled \cup pulled, Reflects(t, ids), \A j \in ids : j <= i
  PROVE  Reflects(u, ids \cup {i})
<1>0. IInv /\ RInv
BY DEF Sound, Base
<1>1. event[i].asin \in Asins /\ event[i].proj \in Row
BY NextEvent
<1>o. \A j \in Ids : j <= i /\ event[j].asin = event[i].asin =>
        event[j].proj.ver <= event[i].proj.ver
BY NextEvent
<1>2. ASSUME NEW j \in ids \cup {i} PROVE Reflected(u, j)
  <2>1. CASE j = i
  BY <1>1, <2>1, AppliedReflects
  <2>2. CASE j # i
    <3>1. j \in ids /\ j \in Ids /\ event[j].asin \in Asins /\ event[j].proj \in Row /\ j <= i
    BY <1>0, <2>2, SettledKnown, Versions
    <3>2. \/ j = i
          \/ /\ Reflected(t, j)
             /\ event[j].asin = event[i].asin => event[j].proj.ver <= event[i].proj.ver
    BY <1>o, <3>1 DEF Reflects
    <3> QED
    BY <1>1, <3>1, <3>2, AppliedReflects
  <2> QED
  BY <2>1, <2>2
<1> QED
BY <1>2 DEF Reflects

(* The open transaction does not fall behind the registry.                 *)
LEMMA NextNotBehind ==
  ASSUME Sound, InBatch, ToApply # {}, NEW i, i = Earliest(ToApply),
         WithEvent(work, work', i), UNCHANGED <<event, registry, pulled>>, done' = i
  PROVE  NotBehind'
<1>0. IInv /\ RInv
BY DEF Sound, Base
<1> DEFINE a == event[i].asin
<1>1. /\ i \in pulled /\ i \in Ids /\ i > done /\ a \in Asins /\ event[i].proj \in Row
      /\ \A j \in ToApply : i <= j
BY NextEvent DEF InBatch
<1>2. \A j \in Ids : i <= j /\ j <= used /\ event[j].asin = a => event[i].proj.ver <= event[j].proj.ver
BY <1>0, <1>1 DEF RInv, OutboxInv, Ordered
<1>n. Ids \subseteq Nat /\ done \in Nat /\ pulled \subseteq Ids /\ used \in Nat
BY <1>0, Numerals
<1>3. \A j \in ToApply' : j \in ToApply /\ j \in Ids /\ i <= j /\ j <= used
  <2> SUFFICES ASSUME NEW j \in ToApply' PROVE j \in ToApply /\ j \in Ids /\ i <= j /\ j <= used
  OBVIOUS
  <2>1. j \in pulled /\ j > i /\ j \in Nat /\ i \in Nat
  BY <1>1, <1>n DEF ToApply
  <2>2. j > done /\ i <= j
  BY <1>1, <1>n, <2>1
  <2>3. j <= used /\ j \in Ids
  BY <1>0, <2>1, SettledKnown
  <2> QED
  BY <2>1, <2>2, <2>3 DEF ToApply
<1>4. /\ work[a] \in Row /\ work'[a] = Applied(work[a], event[i])
      /\ \A b \in Asins \ {a} : work'[b] = work[b]
BY <1>0, <1>1, Versions DEF WithEvent
<1>5. NotBehind
BY <1>0 DEF RInv, RowInv
<1>6. /\ i \in ToApply /\ registry[a].ver \in Nat /\ work[a].ver \in Nat
      /\ \A j \in Ids : event[j].proj.ver \in Nat
BY <1>0, <1>1, Versions DEF ToApply
<1>7. ASSUME NEW b \in Asins, Present(registry[b])
      PROVE  IF Present(work'[b]) THEN work'[b].ver >= registry[b].ver
             ELSE \A j \in ToApply' : event[j].asin = b => event[j].proj.ver >= registry[b].ver
  <2>1. CASE b # a
  BY <1>3, <1>4, <1>5, <1>7, <2>1 DEF NotBehind
  <2>2. CASE b = a
    <3> DEFINE row == work[a]
               new == Applied(row, event[i])
    <3>1. IF Present(row) THEN row.ver >= registry[a].ver ELSE event[i].proj.ver >= registry[a].ver
    BY <1>5, <1>6, <1>7, <2>2 DEF NotBehind
    <3>2. \/ new = row /\ Present(row)
          \/ /\ Present(new) => new.ver = event[i].proj.ver
             /\ Present(row) => row.ver < event[i].proj.ver
    BY <1>1, <1>4, AppliedRow
    <3> HIDE DEF new
    <3>3. CASE new = row /\ Present(row)
    BY <1>4, <2>2, <3>1, <3>3 DEF new
    <3>4. CASE /\ Present(new) => new.ver = event[i].proj.ver
               /\ Present(row) => row.ver < event[i].proj.ver
      <4>1. event[i].proj.ver >= registry[a].ver
        <5>1. CASE Present(row)
        BY <1>1, <1>6, <3>1, <3>4, <5>1
        <5>2. CASE ~Present(row)
        BY <3>1, <5>2
        <5> QED
        BY <5>1, <5>2
      <4>2. ASSUME NEW j \in ToApply', event[j].asin = a PROVE event[j].proj.ver >= registry[a].ver
        <5>1. event[i].proj.ver <= event[j].proj.ver /\ j \in Ids
        BY <1>2, <1>3, <4>2
        <5> QED
        BY <1>1, <1>6, <4>1, <5>1
      <4>3. Present(new) => new.ver >= registry[a].ver
      BY <3>4, <4>1
      <4> QED
      BY <1>4, <2>2, <4>2, <4>3 DEF new
    <3> QED
    BY <3>2, <3>3, <3>4
  <2> QED
  BY <2>1, <2>2
<1> QED
BY <1>7 DEF NotBehind

LEMMA ApplyRows ==
  ASSUME Sound, ApplyEvent
  PROVE  RInv'
<1> DEFINE i == Earliest(ToApply)
           a == event[i].asin
<1>0. IInv /\ RInv
BY DEF Sound, Base
<1>1. /\ pc = "apply" /\ ToApply # {} /\ done' = i
      /\ UNCHANGED <<event, used, syncState, emitter, status, phase, pulled, pc>>
BY DEF ApplyEvent, catalogVars, outboxVars
<1>2. OutboxInv'
BY <1>1, StillOutbox
<1>3. /\ i \in pulled /\ i \in Ids /\ i > done /\ i > cursor /\ i <= used /\ acks[i] = "none"
      /\ \A j \in ToApply : i <= j
      /\ \A j \in Settled : j <= i
BY <1>1, NextEvent
<1>n. /\ Ids \subseteq Nat \ {0} /\ cursor \in Nat /\ done \in Nat /\ pulled \subseteq Ids
      /\ registry \in [Asins -> Row] /\ work \in [Asins -> Row]
BY <1>0, Numerals, Versions
<1>4. CASE phase = "FINALIZING"
  <2>1. /\ WithEvent(registry, registry', i) /\ acks' = Recorded({i}) /\ cursor' = i
  BY <1>3, <1>4 DEF ApplyEvent, WithEvent
  <2>2. Settled' \subseteq Settled \cup {i}
  BY <1>1, <2>1 DEF Settled, Recorded
  <2>3. LedgerInv'
    <3>1. \A j \in Ids : acks'[j] # "none" => j <= i
      <4>1. \A j \in Ids : acks'[j] # "none" => acks[j] # "none" \/ j = i
      BY <2>1 DEF Recorded
      <4>2. \A j \in Ids : acks[j] # "none" => j <= i
      BY <1>3 DEF Settled
      <4> QED
      BY <1>3, <1>n, <4>1, <4>2
    <3> QED
    BY <1>1, <1>3, <2>1, <3>1 DEF LedgerInv
  <2>4. HandInv'
    <3>1. \A j \in pulled : j > i \/ j <= i
      <4>1. i \in Nat /\ \A j \in pulled : j \in Nat
      BY <1>3, <1>n
      <4> QED
      BY <4>1
    <3>2. \A j \in pulled : status[j] = "PENDING"
    BY <1>0 DEF RInv, HandInv
    <3> QED
    BY <1>1, <1>4, <2>1, <3>1, <3>2 DEF HandInv
  <2>5. Reflects(registry', Settled \cup {i})
    <3>1. Reflects(registry, Settled)
    BY <1>0 DEF RInv, RowInv
    <3> QED
    BY <1>1, <1>3, <1>n, <2>1, <3>1, NextReflects
  <2>6. RowInv'
    <3>1. Reflects(registry, Settled)'
    BY <1>1, <2>2, <2>5 DEF Reflects, Reflected
    <3> QED
    BY <1>1, <1>4, <3>1 DEF RowInv, InBatch
  <2> QED
  BY <1>2, <2>3, <2>4, <2>6 DEF RInv
<1>5. CASE phase # "FINALIZING"
  <2>1. /\ WithEvent(work, work', i) /\ UNCHANGED <<registry, acks, cursor>>
  BY <1>3, <1>5 DEF ApplyEvent, WithEvent
  <2>2. LedgerInv' /\ SettledSame
  BY <1>0, <1>1, <2>1, StillOutbox DEF RInv, LedgerInv
  <2>3. HandInv'
  BY <1>0, <1>1, <1>5, <2>1 DEF RInv, HandInv
  <2>4. Reflects(registry, Settled)'
  BY <1>0, <1>1, <2>1, <2>2 DEF RInv, RowInv, Reflects, Reflected, SettledSame
  <2>5. ASSUME InBatch PROVE Reflects(work, Settled \cup DoneOf)' /\ NotBehind'
    <3>1. Reflects(work, Settled \cup DoneOf)
    BY <1>0, <2>5 DEF RInv, RowInv
    <3>2. \A j \in Settled \cup DoneOf : j <= i
      <4>1. i \in Nat /\ done < i
      BY <1>3, <1>n
      <4>2. ASSUME NEW j \in DoneOf PROVE j <= i
        <5>1. j \in Nat /\ j <= done
        BY <1>n DEF DoneOf
        <5> QED
        BY <1>n, <4>1, <5>1
      <4> QED
      BY <1>3, <4>2
    <3>3. Reflects(work', (Settled \cup DoneOf) \cup {i})
      <4>1. Settled \cup DoneOf \subseteq Settled \cup pulled
      BY DEF DoneOf
      <4> DEFINE ids == Settled \cup DoneOf
      <4> HIDE DEF ids
      <4>2. ids \subseteq Settled \cup pulled /\ Reflects(work, ids) /\ \A j \in ids : j <= i
      BY <3>1, <3>2, <4>1 DEF ids
      <4>3. Reflects(work', ids \cup {i})
      BY <1>1, <1>n, <2>1, <4>2, NextReflects
      <4> QED
      BY <4>3 DEF ids
    <3>4. DoneOf' \subseteq DoneOf \cup {i}
      <4> SUFFICES ASSUME NEW j \in pulled, j <= i, ~(j <= done) PROVE j = i
      BY <1>1 DEF DoneOf
      <4>1. j \in Nat /\ j > done
      BY <1>n
      <4>2. j \in ToApply
      BY <4>1 DEF ToApply
      <4>3. i <= j /\ i \in Nat
      BY <1>3, <1>n, <4>2
      <4> QED
      BY <4>1, <4>3
    <3>5. Reflects(work, Settled \cup DoneOf)'
    BY <1>1, <2>2, <3>3, <3>4 DEF Reflects, Reflected, SettledSame
    <3>6. NotBehind'
    BY <1>1, <2>1, <2>5, NextNotBehind
    <3> QED
    BY <3>5, <3>6
  <2>6. RowInv'
  BY <1>1, <2>4, <2>5 DEF RowInv, InBatch
  <2> QED
  BY <1>2, <2>2, <2>3, <2>6 DEF RInv
<1> QED
BY <1>4, <1>5

LEMMA BatchRows ==
  ASSUME Sound, BatchApplied
  PROVE  RInv'
<1>0. IInv /\ RInv
BY DEF Sound, Base
<1>1. /\ pc = "apply" /\ ToApply = {}
      /\ UNCHANGED <<event, used, syncState, emitter, status, phase>>
BY DEF BatchApplied, catalogVars, outboxVars
<1>2. OutboxInv'
BY <1>1, StillOutbox
<1>n. Ids \subseteq Nat \ {0} /\ cursor \in Nat /\ done \in Nat /\ used \in Nat /\ pulled \subseteq Ids
BY <1>0, Numerals
<1>3. \A j \in pulled : j <= done /\ j <= used
  <2>1. \A j \in pulled : ~(j > done) /\ j \in Nat
  BY <1>1, <1>n DEF ToApply
  <2> QED
  BY <1>0, <1>n, <2>1, SettledKnown
(* The end of the batch is the new cursor, outside finalisation.            *)
<1>4. ASSUME phase # "FINALIZING"
      PROVE  /\ LastApplied \in Nat /\ cursor <= LastApplied /\ LastApplied <= used
             /\ \A j \in pulled : j <= LastApplied
  <2>1. CASE pulled = {}
  BY <1>0, <1>n, <2>1 DEF LastApplied, RInv, LedgerInv
  <2>2. CASE pulled # {}
    <3>1. Numbers(pulled)
    BY <1>n, IdsFinite
    <3>2. Last(pulled) \in pulled /\ \A j \in pulled : j <= Last(pulled)
    BY <2>2, <3>1, LastIn
    <3>3. Last(pulled) > cursor /\ Last(pulled) \in Nat
    BY <1>0, <1>1, <1>4, <1>n, <3>2 DEF RInv, HandInv
    <3>4. LastApplied = Last(pulled)
    BY <2>2 DEF LastApplied
    <3> QED
    BY <1>3, <1>n, <3>2, <3>3, <3>4
  <2> QED
  BY <2>1, <2>2
<1>5. CASE phase = "STAGING_EVENTS"
  <2>1. cursor' = LastApplied /\ pc' = "check" /\ UNCHANGED <<registry, acks, work, pulled>>
  BY <1>5 DEF BatchApplied
  <2>2. LedgerInv'
    <3>1. \A j \in Ids : acks[j] # "none" => j <= LastApplied
      <4>1. \A j \in Ids : acks[j] # "none" => j <= cursor
      BY <1>0 DEF RInv, LedgerInv
      <4>2. cursor <= LastApplied /\ LastApplied \in Nat
      BY <1>4, <1>5
      <4> QED
      BY <1>n, <4>1, <4>2
    <3>2. LastApplied <= used
    BY <1>4, <1>5
    <3> QED
    BY <1>1, <2>1, <3>1, <3>2 DEF LedgerInv
  <2>3. HandInv'
  BY <1>0, <1>1, <1>4, <1>5, <2>1 DEF RInv, HandInv
  <2>4. SettledSame
  BY <1>1, <2>1, StillOutbox
  <2>5. RowInv'
  BY <1>0, <1>1, <2>1, <2>4 DEF RInv, RowInv, InBatch, Reflects, Reflected, SettledSame
  <2> QED
  BY <1>2, <2>2, <2>3, <2>5 DEF RInv
<1>6. CASE phase = "FINALIZING"
  <2>1. /\ UNCHANGED <<registry, acks, cursor>>
        /\ Goto(IF Pending # {} THEN "flush" ELSE "settle", "boot", round, EmptyTable, {})
  BY <1>6 DEF BatchApplied
  <2>2. Away
    <3>1. (IF Pending # {} THEN "flush" ELSE "settle") \in {"flush", "settle"}
    OBVIOUS
    <3> QED
    BY <2>1, <3>1 DEF Away, Goto
  <2>3. Acknowledged
  BY <1>1, <2>1 DEF Acknowledged
  <2> QED
  BY <1>1, <2>1, <2>2, <2>3, AwayStep
<1>7. CASE phase = "COMPLETE"
  <2>1. /\ registry' = work /\ acks' = Recorded(pulled) /\ cursor' = LastApplied
        /\ pc' = "flush" /\ pulled' = {}
  BY <1>7 DEF BatchApplied, Goto
  <2>2. LedgerInv'
    <3>1. \A j \in Ids : acks'[j] # "none" => acks[j] # "none" \/ j \in pulled
    BY <2>1 DEF Recorded
    <3>2. \A j \in Ids : acks[j] # "none" => j <= cursor
    BY <1>0 DEF RInv, LedgerInv
    <3>3. /\ LastApplied \in Nat /\ cursor <= LastApplied /\ LastApplied <= used
          /\ \A j \in pulled : j <= LastApplied
    BY <1>4, <1>7
    <3>4. \A j \in Ids : acks'[j] # "none" => j <= LastApplied
    BY <1>n, <3>1, <3>2, <3>3
    <3> QED
    BY <1>1, <2>1, <3>3, <3>4 DEF LedgerInv
  <2>3. HandInv'
  BY <2>1 DEF HandInv
  <2>4. Reflects(work, Settled \cup pulled)
    <3>1. DoneOf = pulled
    BY <1>3 DEF DoneOf
    <3> QED
    BY <1>0, <1>1, <1>7, <3>1 DEF RInv, RowInv, InBatch
  <2>5. Settled' \subseteq Settled \cup pulled
  BY <1>1, <2>1 DEF Settled, Recorded
  <2>6. RowInv'
    <3>1. Reflects(registry, Settled)'
    BY <1>1, <2>1, <2>4, <2>5 DEF Reflects, Reflected
    <3> QED
    BY <2>1, <3>1 DEF RowInv, InBatch
  <2> QED
  BY <1>2, <2>2, <2>3, <2>6 DEF RInv
<1> QED
BY <1>5, <1>6, <1>7 DEF BatchApplied

-----------------------------------------------------------------------------
(* The theorems.                                                           *)

LEMMA RowsStep ==
  ASSUME Sound, [Next]_vars
  PROVE  RInv'
<1>1. ASSUME NEW e \in Emitters, Change(e) \/ EmitLost(e) \/ Emit(e) PROVE RInv'
BY <1>1, EmitterQuiet, InsertRows, CommitRows DEF Emit
<1>2. CASE Bootstrap
BY <1>2, Loops, PageRows, PullRows, CheckRows, CompleteRows DEF Bootstrap
<1>3. CASE Events
BY <1>3, Loops, AckLoops, ApplyRows, BatchRows DEF Events
<1>4. CASE Daemon
BY <1>4, Loops, PullRows, MergeRows DEF Daemon
<1>5. CASE Start \/ Kill
BY <1>5, Loops, AckLoops
<1>6. CASE UNCHANGED vars
  <2>1. UNCHANGED <<catalogVars, emitter, sqliteVars, memoryVars>>
  BY <1>6 DEF vars
  <2>2. Put
    <3>1. event' = event /\ status' = status /\ used' = used /\ syncState' = syncState
    BY <2>1 DEF catalogVars, outboxVars
    <3> QED
    BY <3>1, Numerals, Versions DEF Put, Sound, Base
  <2>3. OutboxInv'
  BY <2>1, StillOutbox DEF catalogVars, outboxVars
  <2> QED
  BY <2>1, <2>2, <2>3, PutStep DEF OutboxInv
<1> QED
BY <1>1, <1>2, <1>3, <1>4, <1>5, <1>6 DEF Next, Collector

LEMMA InitRows == Init => RInv
<1> SUFFICES ASSUME Init PROVE RInv
OBVIOUS
<1>1. Settled = {}
BY DEF Init, Settled, Struck
<1>2. Ids \subseteq Nat \ {0}
BY IdsFinite, LimitsAssumption DEF Ids
<1>3. Numbered
  <2>1. \A i \in Ids : ~(i <= 0)
    <3> SUFFICES ASSUME NEW i \in Ids PROVE ~(i <= 0)
    OBVIOUS
    <3>1. i \in Nat \ {0}
    BY <1>2
    <3> QED
    BY <3>1
  <2>2. \A e \in Emitters : emitter[e].pc = "idle"
  BY DEF Init, NoEmit
  <2> QED
  BY <2>1, <2>2 DEF Init, Numbered
<1>4. Current
BY DEF Init, Current, NoEmit
<1>5. Ordered
  <2>1. \A i, j \in Ids : i <= j => ~(j <= 0)
    <3> SUFFICES ASSUME NEW j \in Ids PROVE ~(j <= 0)
    OBVIOUS
    <3>1. j \in Nat \ {0}
    BY <1>2
    <3> QED
    BY <3>1
  <2> QED
  BY <2>1 DEF Init, Ordered
<1>6. CoveredFirst
BY DEF Init, CoveredFirst
<1>7. LedgerInv /\ HandInv
BY DEF Init, LedgerInv, HandInv
<1>8. RowInv
BY <1>1 DEF Init, RowInv, Reflects, InBatch
<1> QED
BY <1>3, <1>4, <1>5, <1>6, <1>7, <1>8 DEF RInv, OutboxInv

(* With one emitter the rows, the ledger and the outbox are as RInv says.  *)
THEOREM RowsInvariant ==
  ASSUME OneEmitter
  PROVE  Spec => []RInv
<1>1. Init => RInv
BY InitRows
<1>2. RInv /\ Base /\ Base' /\ [Next]_vars => RInv'
BY RowsStep DEF Sound
<1>3. Spec => []Base
BY Invariance, DeliveredRecorded, PTL DEF Base
<1> QED
BY <1>1, <1>2, <1>3, PTL DEF Spec

(* With one emitter, an event central has struck off, as delivered or as   *)
(* covered by a snapshot, is reflected in the collector's registry, unless *)
(* the ASIN has been removed from it: nothing that is killed, lost,        *)
(* refused, merged from a snapshot or applied late loses it                *)
(* (keepaCollectorEventSync, keepaLocalDb, keepaSyncOutbox).               *)
THEOREM SettledReflected ==
  ASSUME OneEmitter
  PROVE  Spec => []SettledIsReflected
<1>1. RInv => SettledIsReflected
BY DEF RInv, RowInv, Reflects, Reflected, Settled, Struck, SettledIsReflected
<1> QED
BY <1>1, RowsInvariant, PTL

(* Where the registry changes, a row that stays is of no earlier version.  *)
NoRegress ==
  \A a \in Asins : Present(registry[a]) /\ Present(registry'[a])
    => registry'[a].ver >= registry[a].ver

LEMMA RegressStep ==
  ASSUME IInv, RInv, [Next]_vars
  PROVE  NoRegress
<1>t. /\ registry \in [Asins -> Row] /\ work \in [Asins -> Row]
      /\ \A a \in Asins : registry[a].ver \in Nat /\ work[a].ver \in Nat /\ syncState[a].ver \in Nat
BY Versions
<1>1. CASE registry' = registry
BY <1>t, <1>1 DEF NoRegress
<1>2. CASE CheckStaging /\ registry' = work /\ Agrees(work)
  <2>1. \A a \in Asins : Present(work[a]) => work[a].ver = syncState[a].ver
  BY <1>2, CentralVersion DEF Agrees
  <2>2. \A a \in Asins : registry[a].ver <= syncState[a].ver
  BY DEF IInv, Within
  <2> QED
  BY <1>t, <1>2, <2>1, <2>2 DEF NoRegress
<1>3. CASE ApplyEvent /\ phase = "FINALIZING"
  <2> DEFINE i == Earliest(ToApply)
             a == event[i].asin
  <2>1. /\ i \in pulled
        /\ registry' \in {registry, [registry EXCEPT ![a] = Applied(@, event[i])]}
    <3>1. ToApply \in SUBSET Ids /\ ToApply # {}
    BY <1>3, Numerals DEF ApplyEvent, ToApply
    <3>2. i \in ToApply
    BY <3>1, IdsFinite, EarliestIn
    <3> QED
    BY <1>3, <3>2 DEF ApplyEvent, ToApply
  <2>2. a \in Asins /\ event[i].proj \in Row /\ event[i].proj.ver \in Nat
  BY <2>1, SettledKnown, Versions
  <2> DEFINE new == Applied(registry[a], event[i])
  <2>3. \/ new = registry[a]
        \/ /\ Present(new) => new.ver = event[i].proj.ver
           /\ Present(registry[a]) => registry[a].ver < event[i].proj.ver
  BY <1>t, <2>2, AppliedRow
  <2> HIDE DEF new
  <2>4. \/ registry' = registry
        \/ registry'[a] = new /\ \A b \in Asins \ {a} : registry'[b] = registry[b]
  BY <1>t, <2>1, <2>2 DEF new
  <2>5. CASE registry' = registry
  BY <1>1, <2>5
  <2>6. CASE registry'[a] = new /\ \A b \in Asins \ {a} : registry'[b] = registry[b]
    <3>1. Present(registry[a]) /\ Present(new) => new.ver >= registry[a].ver
      <4>1. CASE new = registry[a]
      BY <1>t, <2>2, <4>1
      <4>2. CASE /\ Present(new) => new.ver = event[i].proj.ver
                 /\ Present(registry[a]) => registry[a].ver < event[i].proj.ver
      BY <1>t, <2>2, <4>2
      <4> QED
      BY <2>3, <4>1, <4>2
    <3> QED
    BY <1>t, <2>6, <3>1 DEF NoRegress
  <2> QED
  BY <2>4, <2>5, <2>6
<1>4. CASE BatchApplied /\ phase = "COMPLETE" /\ registry' = work
BY <1>4 DEF BatchApplied, RInv, RowInv, InBatch, NotBehind, NoRegress
<1>5. CASE MergeSnapshot
  <2>1. ASSUME NEW a \in Asins, Present(Merged[a]) PROVE Merged[a].ver >= registry[a].ver
    <3> DEFINE later == Present(work[a]) /\ registry[a].ver > work[a].ver
    <3>1. /\ Merged[a].status = work[a].status
          /\ Merged[a].ver = IF later THEN registry[a].ver ELSE work[a].ver
    BY <1>t DEF Merged, Row
    <3> QED
    BY <1>t, <2>1, <3>1 DEF Present
  <2> QED
  BY <1>5, <2>1 DEF MergeSnapshot, NoRegress
<1>6. \/ registry' = registry
      \/ CheckStaging /\ registry' = work /\ Agrees(work)
      \/ ApplyEvent /\ phase = "FINALIZING"
      \/ BatchApplied /\ phase = "COMPLETE" /\ registry' = work
      \/ MergeSnapshot
  <2>1. ASSUME NEW e \in Emitters, Change(e) \/ EmitLost(e) \/ Emit(e) PROVE registry' = registry
  BY <2>1 DEF Change, EmitLost, Emit, LoadProjection, LoadPrevious, UpsertState, InsertEvent,
    CommitEvent, sqliteVars
  <2>2. CASE Bootstrap
    <3>1. CASE CheckStaging
    BY <3>1 DEF CheckStaging
    <3>2. CASE ~CheckStaging
    BY <2>2, <3>2 DEF Bootstrap, BootstrapResume, BootstrapRecheck, ReadPage, ReadWatermark,
      FirstPageAnswered, PageFails, PullIntoStaging, FinalizePull, FinalizeReconcile,
      BootstrapCompletes, BootstrapRefused, sqliteVars
    <3> QED
    BY <3>1, <3>2
  <2>3. CASE Events
    <3>1. CASE ApplyEvent
    BY <3>1 DEF ApplyEvent
    <3>2. CASE BatchApplied
    BY <3>2 DEF BatchApplied
    <3>3. CASE FlushAck \/ FlushFails \/ FlushDone
    BY <3>3 DEF FlushAck, FlushFails, FlushDone
    <3> QED
    BY <2>3, <3>1, <3>2, <3>3 DEF Events
  <2>4. CASE Daemon
    <3>1. CASE ~MergeSnapshot
    BY <2>4, <3>1 DEF Daemon, Turn, CatchupStart, CatchupPull, CatchupLimit, Reconcile,
      ReportRepair, Scan, sqliteVars
    <3> QED
    BY <3>1
  <2>5. CASE Start \/ Kill
  BY <2>5 DEF Start, Kill, sqliteVars
  <2>6. CASE UNCHANGED vars
  BY <2>6 DEF vars, sqliteVars
  <2>7. \/ \E e \in Emitters : Change(e) \/ EmitLost(e) \/ Emit(e)
        \/ Bootstrap \/ Events \/ Daemon \/ Start \/ Kill \/ UNCHANGED vars
  BY Zenon DEF Next, Collector
  <2>8. ASSUME \E e \in Emitters : Change(e) \/ EmitLost(e) \/ Emit(e) PROVE registry' = registry
  BY <2>1, <2>8, Zenon
  <2>9. Bootstrap \/ Events \/ Daemon \/ Start \/ Kill \/ UNCHANGED vars \/ registry' = registry
  BY <2>7, <2>8, Zenon
  <2> QED
  BY <2>2, <2>3, <2>4, <2>5, <2>6, <2>9
<1> QED
BY <1>1, <1>2, <1>3, <1>4, <1>5, <1>6

(* With one emitter, no event, late page or merge takes a row of the       *)
(* registry back to an earlier version (applySyncEvent,                    *)
(* mergeStagingIntoRegistry, commitSwapAndPendingAcks).                    *)
THEOREM NoVersionRegresses ==
  ASSUME OneEmitter
  PROVE  Spec => VersionsNeverRegress
<1>1. IInv /\ RInv /\ [Next]_vars => [NoRegress]_vars
BY RegressStep
<1> QED
BY <1>1, Invariance, RowsInvariant, PTL DEF Spec, VersionsNeverRegress, NoRegress
=============================================================================
