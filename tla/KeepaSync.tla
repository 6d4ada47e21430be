----------------------------- MODULE KeepaSync -----------------------------
(***************************************************************************)
(* How the Keepa collector of the scraper host learns which ASINs the      *)
(* catalog sells (modules/keepaSensor). The API emits an event per change  *)
(* of an ASIN's projection to keepa_asin_sync_outbox, in separate          *)
(* statements and with failures swallowed. The collector keeps a registry  *)
(* in SQLite: it takes a snapshot page by page (bootstrap), then pulls     *)
(* events, commits them, acknowledges each, and compares its rows with     *)
(* central's manifest before it scans; rows that still differ are repaired *)
(* from a new snapshot. It may be killed at any step, and any request may  *)
(* fail before or after the API served it.                                 *)
(***************************************************************************)
EXTENDS KeepaProjection

CONSTANTS
  Asins,        \* positive numbers, in the order of the snapshot's cursor
  Listings,     \* rows of store_catalog_state
  AsinOf,       \* the ASIN each listing sells
  Stocks,       \* the stock states listings take in this instance
  Sales,        \* the listings that may sell their first unit
  Emitters,     \* requests and jobs of the API that can be emitting at one time
  Modes,        \* run modes the operator uses: "daemon", "bootstrap-only"
  PageSize,     \* ASINs in a snapshot page (code: 100 to 200)
  MaxRounds,    \* catch-up rounds (code: 10)
  SlowCommit,   \* an event may become visible after a later one
  NoHash,       \* no manifest stored
  MaxEvents,    \* bound: events inserted
  MaxChanges,   \* bound: changes of listings
  MaxFaults     \* bound: kills, lost emits, failed and refused requests

ASSUME AsinsAssumption == Asins \subseteq Nat \ {0} /\ IsFiniteSet(Asins)
ASSUME ListingsAssumption ==
  IsFiniteSet(Listings) /\ AsinOf \in [Listings -> Asins] /\ Stocks \subseteq Stock
ASSUME ModesAssumption == Modes \subseteq {"daemon", "bootstrap-only"}
ASSUME LimitsAssumption ==
  /\ PageSize \in Nat \ {0} /\ MaxRounds \in Nat \ {0} /\ SlowCommit \in BOOLEAN
  /\ MaxChanges \in Nat /\ MaxFaults \in Nat /\ MaxEvents \in Nat

VARIABLES
  \* central: catalog; keepa_asin_sync_state; the outbox, whose ids stand for the
  \* order of created_at: immutable part, status, ids used; a bootstrap receipt
  listing, syncState, event, status, used, receipt,
  \* emitters: what each has read and has still to insert
  emitter,
  \* collector, in SQLite: registry; phase; sync_events with their ack status and
  \* those last refused with 401/403; last event applied; where the last snapshot
  \* started; the manifest last agreed with central
  registry, phase, acks, refused, cursor, snapAt, matched,
  \* collector, in memory: run mode; step; which catch-up of the turn, and round;
  \* table being built (staging, or the open transaction's view of registry);
  \* events pulled, the last of them applied; progress of the snapshot
  mode, pc, call, round, work, pulled, done, snap,
  \* history: the registry has agreed with central since this turn began;
  \* budgets left
  agreed, changes, faults

catalogVars == <<listing, syncState, event, status, used, receipt>>
outboxVars  == <<event, status, used>>
sqliteVars  == <<registry, phase, acks, refused, cursor, snapAt, matched>>
memoryVars  == <<mode, pc, call, round, work, pulled, done, snap>>
vars == <<catalogVars, emitter, sqliteVars, memoryVars, agreed, changes, faults>>

Ids == 1..MaxEvents
NoEvent == [asin |-> 0, type |-> "none", proj |-> Absent]
Event == [asin: Asins, type: EventTypes, proj: Row] \cup {NoEvent}
Phases == {"EMPTY", "SNAPSHOTTING", "STAGING_EVENTS", "COMMITTED_PENDING_ACK",
           "FINALIZING", "COMPLETE", "FAILED"}
Steps == {"down", "idle", "recheck", "page", "stage", "check", "flush", "final", "apply",
  "settle", "post", "sync", "pull", "limit", "compare", "report", "scan", "stopped"}
EmptyTable == [a \in Asins |-> Absent]

---------------------------------------------------------------------------
(* Central: projections and emits *)

ListingsOf(a) == [l \in {k \in Listings : AsinOf[k] = a} |-> listing[l]]
Central == [a \in Asins |-> CentralRow(ListingsOf(a), syncState[a].ver)]
InSync == registry = Central

\* assertManifestMatch: counts and hash of a table against central's
AgreeAsins(table) == \A a \in Asins : Present(table[a]) <=> Present(Central[a])
Agrees(table) == table = Central

\* history: `agreed` starts again with a turn and with every change of the registry
Witness ==
  agreed' = (InSync' \/ (agreed /\ registry' = registry /\ ~(pc = "idle" /\ pc' # "idle")))

Idle(e) == emitter[e].pc = "idle"
NoEmit == [pc |-> "idle", asin |-> 0, next |-> Absent, types |-> <<>>, id |-> 0]

\* A change of a listing, committed; what made it goes on to emit
Change(e) ==
  /\ Idle(e) /\ changes > 0
  /\ \E l \in Listings :
       /\ \/ \E s \in Stocks \ {listing[l].stock} : listing' = [listing EXCEPT ![l].stock = s]
          \/ /\ l \in Sales /\ listing[l].stock # "ended" /\ ~listing[l].sold
             /\ listing' = [listing EXCEPT ![l].sold = TRUE]
       /\ emitter' = [emitter EXCEPT ![e] = [NoEmit EXCEPT !.pc = "load", !.asin = AsinOf[l]]]
  /\ changes' = changes - 1
  /\ UNCHANGED <<syncState, outboxVars, receipt, sqliteVars, memoryVars, faults>> /\ Witness

\* emitKeepaAsinSyncForAsin reads the projection ...
LoadProjection(e) ==
  /\ emitter[e].pc = "load"
  /\ emitter' = [emitter EXCEPT ![e].pc = "prev", ![e].next = Projection(ListingsOf(emitter[e].asin))]
  /\ UNCHANGED <<catalogVars, sqliteVars, memoryVars, changes, faults>> /\ Witness

\* ... then the last one announced, and decides the events
LoadPrevious(e) ==
  /\ emitter[e].pc = "prev"
  /\ LET types == Transition(syncState[emitter[e].asin], emitter[e].next) IN
     emitter' = [emitter EXCEPT ![e] =
       IF types = <<>> THEN NoEmit ELSE [@ EXCEPT !.pc = "upsert", !.types = types]]
  /\ UNCHANGED <<catalogVars, sqliteVars, memoryVars, changes, faults>> /\ Witness

UpsertState(e) ==
  /\ emitter[e].pc = "upsert"
  /\ LET a == emitter[e].asin
         row == [emitter[e].next EXCEPT !.ver = syncState[a].ver + 1]
     IN /\ syncState' = [syncState EXCEPT ![a] = row]
        /\ emitter' = [emitter EXCEPT ![e].pc = "insert", ![e].next = row]
  /\ UNCHANGED <<listing, outboxVars, receipt, sqliteVars, memoryVars, changes, faults>> /\ Witness

\* ON CONFLICT (asin, event_type, payload_fingerprint): the version is not part of it
Fingerprint(ev) == [ev EXCEPT !.proj.ver = 0]
AlreadySaid(ev) == \E i \in 1..used : Fingerprint(event[i]) = Fingerprint(ev)

AfterInsert(e, rest) ==
  IF rest = <<>> THEN NoEmit ELSE [emitter[e] EXCEPT !.pc = "insert", !.types = rest]

\* the next event, with the row the upsert returned
AnnouncedNext(e) ==
  [asin |-> emitter[e].asin, type |-> Head(emitter[e].types),
   proj |-> [emitter[e].next EXCEPT !.ver = @ + 1]]
Announced(e) ==
  [asin |-> emitter[e].asin, type |-> Head(emitter[e].types), proj |-> emitter[e].next]

InsertEvent(e) ==
  /\ emitter[e].pc = "insert"
  /\ LET ev == Announced(e)
         rest == Tail(emitter[e].types)
     IN \/ /\ AlreadySaid(ev)
           /\ emitter' = [emitter EXCEPT ![e] = AfterInsert(e, rest)]
           /\ UNCHANGED outboxVars
        \/ /\ ~AlreadySaid(ev) /\ used < MaxEvents
           /\ used' = used + 1
           /\ event' = [event EXCEPT ![used'] = ev]
           /\ \/ /\ status' = [status EXCEPT ![used'] = "PENDING"]
                 /\ emitter' = [emitter EXCEPT ![e] = AfterInsert(e, rest)]
              \/ /\ SlowCommit
                 /\ status' = [status EXCEPT ![used'] = "WRITING"]
                 /\ emitter' = [emitter EXCEPT ![e] = [@ EXCEPT !.pc = "commit", !.id = used']]
  /\ UNCHANGED <<listing, syncState, receipt, sqliteVars, memoryVars, changes, faults>> /\ Witness

\* the insert, whose created_at was taken when its statement began, is committed
CommitEvent(e) ==
  /\ emitter[e].pc = "commit"
  /\ status' = [status EXCEPT ![emitter[e].id] = "PENDING"]
  /\ emitter' = [emitter EXCEPT ![e] = AfterInsert(e, Tail(@.types))]
  /\ UNCHANGED <<listing, syncState, event, used, receipt, sqliteVars, memoryVars, changes, faults>> /\ Witness

\* a statement of the emit fails, or the API restarts: only a warning is logged
EmitLost(e) ==
  /\ ~Idle(e) /\ emitter[e].pc # "commit" /\ faults > 0
  /\ emitter' = [emitter EXCEPT ![e] = NoEmit]
  /\ faults' = faults - 1
  /\ UNCHANGED <<catalogVars, sqliteVars, memoryVars, changes>> /\ Witness

---------------------------------------------------------------------------
(* The collector: what it reads, and how its loop goes on *)

PendingAtCentral == {i \in Ids : status[i] = "PENDING"}
Pending == {i \in Ids : acks[i] = "PENDING_ACK"}
PulledSince(from) == {i \in Ids : i > from /\ status[i] = "PENDING"}
SinceForCatchup == IF cursor > snapAt THEN cursor ELSE snapAt
SinceForFinalize == IF cursor # 0 THEN cursor ELSE snapAt
ToApply == {i \in pulled : i > done}
Last(ids) == CHOOSE i \in ids : \A j \in ids : j <= i
Earliest(ids) == CHOOSE i \in ids : \A j \in ids : i <= j

Preserved == phase \in {"COMMITTED_PENDING_ACK", "FINALIZING", "COMPLETE"}
Failed == IF Preserved THEN phase ELSE "FAILED"
NoSnap == [page |-> "first", rows |-> FALSE, mark |-> 0, last |-> 0, end |-> FALSE]

\* go on at step p of catch-up c, round r, with table w and events ids in hand
Goto(p, c, r, w, ids) ==
  /\ pc' = p /\ call' = c /\ round' = r /\ work' = w /\ pulled' = ids
  /\ done' = 0 /\ snap' = NoSnap /\ UNCHANGED mode
Rest(p) == Goto(p, "none", 0, EmptyTable, {})

EndBootstrap == Rest(IF mode = "daemon" THEN "idle" ELSE "down")
StartSnapshot(c) == Goto("page", c, 0, EmptyTable, {})

\* catchUpLifecycleThenReconcile returns an error: the turn is over (and Keepa is
\* stopped, outside a repair, if it was an authorisation error), except that a repair
\* goes on to its snapshot
EndCatchup(stop) ==
  IF call = "before" THEN StartSnapshot("before")
  ELSE Rest(IF stop THEN "stopped" ELSE "idle")
EndFlush(stop) ==
  IF call = "boot" THEN EndBootstrap ELSE EndCatchup(stop /\ call # "after")

\* any request of the collector may fail with no effect on the API: no answer, an
\* exception nothing in the turn or the repair catches; or an error, 401 and 403 among them
Fault == faults > 0 /\ faults' = faults - 1
Served == UNCHANGED faults
Unanswered == IF call = "boot" THEN EndBootstrap ELSE Rest("idle")
CatchupFails == Fault /\ (Unanswered \/ EndFlush(FALSE) \/ EndFlush(TRUE))

---------------------------------------------------------------------------
(* Bootstrap: snapshot, events since it, manifest, swap *)

BootstrapResume ==
  /\ pc = "idle"
  /\ \/ /\ phase = "COMMITTED_PENDING_ACK"
        /\ Goto("flush", "boot", 0, EmptyTable, {}) /\ UNCHANGED phase
     \/ /\ phase = "FINALIZING"
        /\ IF Pending # {} THEN EndBootstrap
           ELSE Goto("final", "boot", 1, EmptyTable, {})
        /\ UNCHANGED phase
     \/ /\ phase = "COMPLETE" /\ mode = "bootstrap-only"
        /\ Goto(IF Pending # {} THEN "flush" ELSE "recheck", "boot", 0, EmptyTable, {})
        /\ UNCHANGED phase
     \/ /\ ~Preserved /\ phase' = "SNAPSHOTTING" /\ StartSnapshot("boot")
  /\ UNCHANGED <<catalogVars, emitter, registry, acks, refused, cursor, snapAt, matched,
                 changes, faults>> /\ Witness

\* a completed registry is left alone if central's manifest agrees, rebuilt if not
BootstrapRecheck ==
  /\ pc = "recheck"
  /\ \/ /\ (Served /\ Agrees(registry)) \/ Fault
        /\ EndBootstrap /\ UNCHANGED phase
     \/ /\ (Served /\ ~Agrees(registry)) \/ Fault
        /\ StartSnapshot("boot") /\ phase' = "SNAPSHOTTING"
  /\ UNCHANGED <<catalogVars, emitter, registry, acks, refused, cursor, snapAt, matched,
                 changes>> /\ Witness

\* the rows of the next page, in one statement
ReadPage ==
  /\ pc = "page" /\ ~snap.end /\ (snap.page = "first" => ~snap.rows)
  /\ LET more == {a \in Asins : a > snap.last /\ Present(Central[a])}
         page == {a \in more : Cardinality({b \in more : b < a}) < PageSize}
     IN /\ work' = [a \in Asins |-> IF a \in page THEN Central[a] ELSE work[a]]
        /\ snap' = [snap EXCEPT !.rows = TRUE, !.end = Cardinality(page) < PageSize,
                                !.last = IF page = {} THEN @ ELSE Last(page)]
  /\ UNCHANGED <<catalogVars, emitter, sqliteVars, mode, pc, call, round, pulled, done,
                 changes, faults>> /\ Witness

\* the watermark, read beside the first page on a connection of its own
ReadWatermark ==
  /\ pc = "page" /\ snap.page = "first" /\ snap.mark = 0
  /\ snap' = [snap EXCEPT !.mark = used + 1]
  /\ UNCHANGED <<catalogVars, emitter, sqliteVars, mode, pc, call, round, work, pulled, done,
                 changes, faults>> /\ Witness

FirstPageAnswered ==
  /\ pc = "page" /\ snap.page = "first" /\ snap.rows /\ snap.mark # 0
  /\ snapAt' = snap.mark - 1
  /\ snap' = [snap EXCEPT !.page = "next"]
  /\ UNCHANGED <<catalogVars, emitter, registry, phase, acks, refused, cursor, matched, mode,
                 pc, call, round, work, pulled, done, changes, faults>> /\ Witness

PageFails ==
  /\ pc = "page" /\ Fault
  /\ IF call = "boot" THEN EndBootstrap ELSE Rest("idle")
  /\ phase' = IF call = "boot" THEN "FAILED" ELSE phase
  /\ UNCHANGED <<catalogVars, emitter, registry, acks, refused, cursor, snapAt, matched,
                 changes>> /\ Witness

\* the events since the snapshot began, to be applied to the staging table
PullIntoStaging ==
  /\ pc = "page" /\ snap.page = "next" /\ snap.end /\ call = "boot"
  /\ \/ Served /\ Goto("apply", "boot", 0, work, PulledSince(snapAt)) /\ phase' = "STAGING_EVENTS"
     \/ Fault /\ EndBootstrap /\ phase' = "FAILED"
  /\ UNCHANGED <<catalogVars, emitter, registry, acks, refused, cursor, snapAt, matched,
                 changes>> /\ Witness

Recorded(ids) == [i \in Ids |-> IF i \in ids /\ acks[i] = "none" THEN "PENDING_ACK" ELSE acks[i]]

\* manifest of the staging table, and the swap with the ledger of its events
CheckStaging ==
  /\ pc = "check"
  /\ \/ /\ Served /\ Agrees(work)
        /\ registry' = work
        /\ acks' = Recorded(pulled)
        /\ phase' = "COMMITTED_PENDING_ACK"
        /\ Goto("flush", "boot", 0, EmptyTable, {})
     \/ /\ (Served /\ ~Agrees(work)) \/ Fault
        /\ phase' = "FAILED" /\ EndBootstrap
        /\ UNCHANGED <<registry, acks>>
  /\ UNCHANGED <<catalogVars, emitter, refused, cursor, snapAt, matched, changes>> /\ Witness

\* finalisation: events, each committed on its own; their acks; manifest; completion
FinalizePull ==
  /\ pc = "final"
  /\ \/ Served /\ Goto("apply", "boot", round, EmptyTable, PulledSince(SinceForFinalize))
     \/ Fault /\ EndBootstrap
  /\ UNCHANGED <<catalogVars, emitter, sqliteVars, changes>> /\ Witness

FinalizeReconcile ==
  /\ pc = "settle"
  /\ \/ Served /\ Agrees(registry) /\ Goto("post", "boot", round, EmptyTable, {})
     \/ ((Served /\ ~Agrees(registry)) \/ Fault) /\ EndBootstrap
  /\ UNCHANGED <<catalogVars, emitter, sqliteVars, changes>> /\ Witness

Covered == {i \in Ids : status[i] = "PENDING" /\ i <= snapAt}

\* bootstrap-complete: the receipt of an earlier request with the same hash answers
\* at once; else the manifest must agree, and what came before the snapshot is covered
BootstrapCompletes ==
  /\ pc = "post"
  /\ \/ /\ receipt = registry /\ UNCHANGED <<status, receipt>>
     \/ /\ receipt # registry /\ Agrees(registry)
        /\ status' = [i \in Ids |-> IF i \in Covered THEN "COVERED_BY_SNAPSHOT" ELSE status[i]]
        /\ receipt' = IF receipt = NoHash THEN registry ELSE receipt
  /\ \/ Served /\ phase' = "COMPLETE" /\ matched' = registry
     \/ Fault /\ UNCHANGED <<phase, matched>>
  /\ EndBootstrap
  /\ UNCHANGED <<listing, syncState, event, used, emitter, registry, acks, refused, cursor,
                 snapAt, changes>> /\ Witness

BootstrapRefused ==
  /\ pc = "post"
  /\ (Served /\ receipt # registry /\ ~Agrees(registry)) \/ Fault
  /\ EndBootstrap
  /\ UNCHANGED <<catalogVars, emitter, sqliteVars, changes>> /\ Witness

---------------------------------------------------------------------------
(* Events in hand and their acknowledgements *)

\* applySyncEvent, in the order of the outbox: on staging; on the registry, one
\* transaction each, in finalisation; on the open transaction of a catch-up batch
ApplyEvent ==
  /\ pc = "apply" /\ ToApply # {}
  /\ LET i == Earliest(ToApply)
         a == event[i].asin
         fresh == acks[i] = "none"
     IN /\ done' = i
        /\ IF phase = "FINALIZING"
           THEN /\ registry' = IF fresh THEN [registry EXCEPT ![a] = Applied(@, event[i])] ELSE registry
                /\ acks' = Recorded({i}) /\ cursor' = i /\ UNCHANGED work
           ELSE /\ work' = IF fresh \/ call = "boot" THEN [work EXCEPT ![a] = Applied(@, event[i])]
                           ELSE work
                /\ UNCHANGED <<registry, acks, cursor>>
  /\ UNCHANGED <<catalogVars, emitter, phase, refused, snapAt, matched, mode, pc, call, round,
                 pulled, snap, changes, faults>> /\ Witness

LastApplied == IF pulled = {} THEN cursor ELSE Last(pulled)

\* the batch is in: staging goes to the check, a catch-up commits registry, ledger and
\* cursor at once; what is now recorded and not acknowledged is flushed
BatchApplied ==
  /\ pc = "apply" /\ ToApply = {}
  /\ \/ /\ phase = "STAGING_EVENTS"
        /\ cursor' = LastApplied
        /\ pc' = "check"
        /\ UNCHANGED <<registry, acks, mode, call, round, work, pulled, done, snap>>
     \/ /\ phase = "FINALIZING"
        /\ Goto(IF Pending # {} THEN "flush" ELSE "settle", "boot", round, EmptyTable, {})
        /\ UNCHANGED <<registry, acks, cursor>>
     \/ /\ phase = "COMPLETE"
        /\ registry' = work /\ acks' = Recorded(pulled) /\ cursor' = LastApplied
        /\ Goto("flush", call, round, EmptyTable, {})
  /\ UNCHANGED <<catalogVars, emitter, phase, refused, snapAt, matched, changes, faults>> /\ Witness

Delivered(i) == [status EXCEPT ![i] = IF @ = "PENDING" THEN "DELIVERED" ELSE @]

\* one request per event; recorded as acknowledged when the answer is read
FlushAck ==
  /\ pc = "flush"
  /\ \E i \in Pending :
       /\ status' = Delivered(i)
       /\ acks' = [acks EXCEPT ![i] = "ACKED_REMOTE"]
       /\ refused' = refused \ {i}
  /\ UNCHANGED <<listing, syncState, event, used, receipt, emitter, registry, phase, cursor,
                 snapAt, matched, memoryVars, changes, faults>> /\ Witness

\* no answer, or an error, recorded with its code (the API may have served the
\* request); or 401/403
FlushFails ==
  /\ pc = "flush" /\ Fault
  /\ \E i \in Pending :
       \/ /\ status' \in {status, Delivered(i)}
          /\ \/ UNCHANGED refused /\ Unanswered
             \/ refused' = refused \ {i} /\ EndFlush(FALSE)
       \/ /\ UNCHANGED status /\ refused' = refused \cup {i} /\ EndFlush(TRUE)
  /\ UNCHANGED <<listing, syncState, event, used, receipt, emitter, registry, phase, acks,
                 cursor, snapAt, matched, changes>> /\ Witness

LastRoundLate == round > MaxRounds
LastRound == round = MaxRounds

FlushDone ==
  /\ pc = "flush" /\ Pending = {}
  /\ IF call # "boot" THEN
       IF LastRound THEN Goto("limit", call, round, EmptyTable, {})
       ELSE Goto("pull", call, round + 1, EmptyTable, {})
     ELSE IF phase = "COMPLETE" THEN Goto("recheck", "boot", 0, EmptyTable, {})
     ELSE IF LastRound THEN EndBootstrap
     ELSE Goto("final", "boot", round + 1, EmptyTable, {})
  /\ phase' = IF phase = "COMMITTED_PENDING_ACK" THEN "FINALIZING" ELSE phase
  /\ UNCHANGED <<catalogVars, emitter, registry, acks, refused, cursor, snapAt, matched,
                 changes, faults>> /\ Witness

---------------------------------------------------------------------------
(* A turn of the daemon: catch up, compare, repair, scan *)

Turn ==
  /\ pc = "idle" /\ mode = "daemon" /\ phase = "COMPLETE"
  /\ Goto("sync", "first", 0, EmptyTable, {})
  /\ UNCHANGED <<catalogVars, emitter, sqliteVars, changes, faults>> /\ Witness

\* an event last refused for its authorisation stops the catch-up before it is retried
CatchupStart ==
  /\ pc = "sync"
  /\ IF refused # {} THEN EndCatchup(TRUE)
     ELSE IF Pending # {} THEN Goto("flush", call, 0, EmptyTable, {})
     ELSE Goto("pull", call, 1, EmptyTable, {})
  /\ UNCHANGED <<catalogVars, emitter, sqliteVars, changes, faults>> /\ Witness

CatchupPull ==
  /\ pc = "pull"
  /\ LET ids == PulledSince(SinceForCatchup) IN
     \/ Served /\ ids = {} /\ Goto("compare", call, round, EmptyTable, {})
     \/ Served /\ ids # {} /\ Goto("apply", call, round, registry, ids)
     \/ CatchupFails
  /\ UNCHANGED <<catalogVars, emitter, sqliteVars, changes>> /\ Witness

\* after the last round one more pull: with events left over the turn gives up
CatchupLimit ==
  /\ pc = "limit"
  /\ \/ Served /\ PulledSince(SinceForCatchup) = {} /\ Goto("compare", call, round, EmptyTable, {})
     \/ Served /\ PulledSince(SinceForCatchup) # {} /\ EndCatchup(FALSE)
     \/ CatchupFails
  /\ UNCHANGED <<catalogVars, emitter, sqliteVars, changes>> /\ Witness

NextCallNever == "again"
NextCall == IF call = "first" THEN "again" ELSE "before"

\* manifests: equal, scan (a repair reports first); not equal, catch up again, then repair
Reconcile ==
  /\ pc = "compare"
  /\ \/ /\ Served /\ Agrees(registry) /\ matched' = registry
        /\ Goto(IF call \in {"first", "again"} THEN "scan" ELSE "report", call, 0, EmptyTable, {})
     \/ /\ Served /\ ~Agrees(registry) /\ UNCHANGED matched
        /\ \/ call \in {"first", "again"} /\ Goto("sync", NextCall, 0, EmptyTable, {})
           \/ call = "before" /\ StartSnapshot("before")
           \/ call = "after" /\ Rest("idle")
     \/ CatchupFails /\ UNCHANGED matched
  /\ UNCHANGED <<catalogVars, emitter, registry, phase, acks, refused, cursor, snapAt,
                 changes>> /\ Witness

\* mergeStagingIntoRegistry: rows not in the snapshot go, versions never go back
Merged == [a \in Asins |->
  [work[a] EXCEPT !.ver = IF Present(work[a]) /\ registry[a].ver > @ THEN registry[a].ver ELSE @]]

MergeSnapshot ==
  /\ pc = "page" /\ snap.page = "next" /\ snap.end /\ call = "before"
  /\ registry' = Merged
  /\ Goto("sync", "after", 0, EmptyTable, {})
  /\ UNCHANGED <<catalogVars, emitter, phase, acks, refused, cursor, snapAt, matched,
                 changes, faults>> /\ Witness

\* repair-complete, under a request id of its own
ReportRepair ==
  /\ pc = "report"
  /\ \/ /\ Served /\ Agrees(registry) /\ matched' = registry /\ Goto("scan", call, 0, EmptyTable, {})
     \/ /\ (Served /\ ~Agrees(registry)) \/ Fault
        /\ UNCHANGED matched /\ Rest("idle")
  /\ UNCHANGED <<catalogVars, emitter, registry, phase, acks, refused, cursor, snapAt,
                 changes>> /\ Witness

ScanAllowed == phase = "COMPLETE" /\ Pending = {} /\ refused = {} /\ matched = registry

\* scanDueAsins: what it asks Keepa, and its observations, are left out
Scan ==
  /\ pc = "scan" /\ ScanAllowed
  /\ Rest("idle")
  /\ UNCHANGED <<catalogVars, emitter, sqliteVars, changes, faults>> /\ Witness

---------------------------------------------------------------------------
\* systemd starts the daemon, or an operator a bootstrap in its place
Start ==
  /\ pc = "down"
  /\ mode' \in Modes
  /\ pc' = "idle"
  /\ UNCHANGED <<catalogVars, emitter, sqliteVars, call, round, work, pulled, done, snap,
                 changes, faults>> /\ Witness

\* the process is killed, or restarted by hand once it has stopped
Kill ==
  /\ \/ pc \notin {"down", "stopped"} /\ Fault
     \/ pc = "stopped" /\ Served
  /\ Rest("down")
  /\ UNCHANGED <<catalogVars, emitter, sqliteVars, changes>> /\ Witness

Bootstrap ==
  \/ BootstrapResume \/ BootstrapRecheck \/ ReadPage \/ ReadWatermark \/ FirstPageAnswered
  \/ PageFails \/ PullIntoStaging \/ CheckStaging \/ FinalizePull \/ FinalizeReconcile
  \/ BootstrapCompletes \/ BootstrapRefused
Events == ApplyEvent \/ BatchApplied \/ FlushAck \/ FlushFails \/ FlushDone
Daemon ==
  \/ Turn \/ CatchupStart \/ CatchupPull \/ CatchupLimit \/ Reconcile \/ MergeSnapshot
  \/ ReportRepair \/ Scan
Emit(e) == LoadProjection(e) \/ LoadPrevious(e) \/ UpsertState(e) \/ InsertEvent(e) \/ CommitEvent(e)

Collector == Bootstrap \/ Events \/ Daemon \/ Start

Init ==
  /\ listing \in [Listings -> [stock: Stocks \cap {"ended", "stocked"}, sold: {FALSE}]]
  /\ syncState = [a \in Asins |-> Absent]
  /\ event = [i \in Ids |-> NoEvent] /\ status = [i \in Ids |-> "none"] /\ used = 0
  /\ receipt = NoHash /\ emitter = [e \in Emitters |-> NoEmit]
  /\ registry = EmptyTable /\ phase = "EMPTY" /\ acks = [i \in Ids |-> "none"] /\ refused = {}
  /\ cursor = 0 /\ snapAt = 0 /\ matched = NoHash
  /\ mode = "daemon" /\ pc = "down" /\ call = "none" /\ round = 0 /\ work = EmptyTable
  /\ pulled = {} /\ done = 0 /\ snap = NoSnap
  /\ agreed = InSync /\ changes = MaxChanges /\ faults = MaxFaults

Next ==
  \/ \E e \in Emitters : Change(e) \/ EmitLost(e) \/ Emit(e)
  \/ Collector \/ Kill

Spec == Init /\ [][Next]_vars

\* emits and the collector's loop go on; nothing need change, fail or be killed
FairSpec ==
  /\ Spec /\ WF_vars(Collector /\ faults' = faults)
  /\ \A e \in Emitters : WF_vars(Emit(e))

---------------------------------------------------------------------------
(* Properties *)

Calls == {"none", "boot", "first", "again", "before", "after"}
EmitterState == [pc: {"idle", "load", "prev", "upsert", "insert", "commit"}, asin: Asins \cup {0},
                 next: Row, types: Seq(EventTypes), id: 0..MaxEvents]
Snap == [page: {"first", "next"}, rows: BOOLEAN, mark: 0..MaxEvents + 1,
         last: Asins \cup {0}, end: BOOLEAN]

CentralTypeOK ==
  /\ listing \in [Listings -> Listing] /\ syncState \in [Asins -> Row]
  /\ event \in [Ids -> Event] /\ used \in 0..MaxEvents
  /\ status \in [Ids -> {"none", "WRITING", "PENDING", "DELIVERED", "COVERED_BY_SNAPSHOT"}]
  /\ receipt \in [Asins -> Row] \cup {NoHash} /\ emitter \in [Emitters -> EmitterState]

SqliteTypeOK ==
  /\ registry \in [Asins -> Row] /\ phase \in Phases
  /\ acks \in [Ids -> {"none", "PENDING_ACK", "ACKED_REMOTE"}] /\ refused \subseteq Ids
  /\ cursor \in 0..MaxEvents /\ snapAt \in 0..MaxEvents
  /\ matched \in [Asins -> Row] \cup {NoHash}

MemoryTypeOK ==
  /\ mode \in {"daemon", "bootstrap-only"} /\ pc \in Steps /\ call \in Calls
  /\ round \in 0..MaxRounds /\ work \in [Asins -> Row] /\ pulled \subseteq Ids
  /\ done \in 0..MaxEvents /\ snap \in Snap

\* every variable keeps its type, and the counters of the loop stay within their bounds
TypeOK ==
  /\ CentralTypeOK /\ SqliteTypeOK /\ MemoryTypeOK
  /\ agreed \in BOOLEAN /\ changes \in 0..MaxChanges /\ faults \in 0..MaxFaults

\* an event is acknowledged to central only once the collector has it in its own
\* ledger, whatever is killed between the commit and the answer (keepaCollectorEventSync,
\* applyBatch before flushPendingRemoteAcks)
DeliveredIsRecorded == \A i \in Ids : status[i] = "DELIVERED" => acks[i] # "none"

\* the registry never holds a version central has not given out (applySyncEvent,
\* mergeStagingIntoRegistry, commitSwapAndPendingAcks)
NeverAhead == \A a \in Asins : registry[a].ver <= syncState[a].ver

\* with one emitter: an event central has struck off, as delivered or as covered by a
\* snapshot, is reflected in the registry, unless the ASIN has been removed from it
SettledIsReflected ==
  \A i \in Ids : status[i] \in {"DELIVERED", "COVERED_BY_SNAPSHOT"} /\ Present(registry[event[i].asin])
    => registry[event[i].asin].ver >= event[i].proj.ver

\* with one emitter: no event, late page or merge takes a row back to an earlier version
VersionsNeverRegress ==
  [][\A a \in Asins : Present(registry[a]) /\ Present(registry'[a])
       => registry'[a].ver >= registry[a].ver]_vars

\* Keepa is asked only for a registry that has agreed with central's manifest since the
\* turn began or the registry last changed (runKeepaCollector, keepaScanAllowed)
ScansAgreed == [][pc = "scan" /\ pc' = "idle" => agreed]_vars

\* once the catalog is quiet the registry comes to agree with it for good, whatever
\* event was lost or suppressed; or finalisation is stuck, or Keepa is stopped for a
\* refused authorisation (reconcileThenMaybeAutoRepair)
Settles == <>[](InSync \/ phase = "FINALIZING" \/ refused # {} \/ pc = "stopped")
=============================================================================
