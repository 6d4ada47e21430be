-------------------------- MODULE KeepaProjection --------------------------
(***************************************************************************)
(* What the Keepa collector is told about an ASIN: the projection of the   *)
(* catalog listings that sell it (keepaAsinProjection), the row central    *)
(* reports in snapshots and manifests (keepaCollectorSnapshot), the events *)
(* a change of projection is announced by, and what an event does to a row *)
(* of the collector's registry (keepaLocalDb, applySyncEvent).             *)
(***************************************************************************)
EXTENDS Naturals, FiniteSets, Sequences

\* quantity and status of a listing: ended; stocked; zeroed by hand or for an
\* unknown reason; zeroed by Stock Guard (bot_zeroed_at is set)
Stock == {"ended", "stocked", "zeroed", "botZeroed"}
Listing == [stock: Stock, sold: BOOLEAN]

EventTypes == {"ASIN_UPSERT", "ASIN_REMOVED", "CONSUMER_ATTACHED", "CONSUMER_DETACHED",
  "QTY_ZERO_PAUSED", "QTY_POSITIVE_RESUMED", "SOLD_PRIORITY_CHANGED"}

\* keepa_asin_sync_state, asin_registry, a snapshot item, a manifest line
Row == [status: {"ACTIVE", "PAUSED_QTY_ZERO", "REMOVED"}, count: Nat,
        priority: {"SOLD", "STANDARD"}, cadence: {12, 24, 120}, ver: Nat]

\* no row: the ASIN is not in the table
Absent == [status |-> "REMOVED", count |-> 0, priority |-> "STANDARD",
           cadence |-> 24, ver |-> 0]
Present(r) == r.status # "REMOVED"

\* the row for the multiset `ls` of listings (a function of listing ids), sold or not
RowFor(ls, sold, ver) ==
  LET With(stocks) == {l \in DOMAIN ls : ls[l].stock \in stocks}
      count  == Cardinality(With({"stocked", "botZeroed"}))
      status == IF With(Stock \ {"ended"}) = {} THEN "REMOVED"
                ELSE IF count = 0 THEN "PAUSED_QTY_ZERO" ELSE "ACTIVE"
      prio   == IF sold /\ status = "ACTIVE" THEN "SOLD" ELSE "STANDARD"
  IN [status |-> status, count |-> count, priority |-> prio, ver |-> ver,
      cadence |-> IF status = "ACTIVE" /\ With({"stocked"}) = {} THEN 120
                  ELSE IF prio = "SOLD" THEN 12 ELSE 24]

\* projectKeepaAsin: only a listing that has stock makes the ASIN sold
Projection(ls) ==
  RowFor(ls, \E l \in DOMAIN ls : ls[l].stock = "stocked" /\ ls[l].sold, 0)

\* the snapshot and manifest query: any live listing that was sold does
CentralRow(ls, ver) ==
  LET row == RowFor(ls, \E l \in DOMAIN ls : ls[l].stock # "ended" /\ ls[l].sold, ver)
  IN IF Present(row) THEN row ELSE Absent

If(condition, type) == IF condition THEN <<type>> ELSE <<>>

\* eventsFromProjectionTransition, from the row of sync_state (version 0: none)
Transition(prev, next) ==
  IF ~Present(prev) THEN
    IF ~Present(next) THEN If(prev.ver = 0, "ASIN_REMOVED")
    ELSE <<"ASIN_UPSERT">>
         \o If(next.count > 0, "CONSUMER_ATTACHED")
         \o If(next.status = "PAUSED_QTY_ZERO", "QTY_ZERO_PAUSED")
         \o If(next.priority = "SOLD", "SOLD_PRIORITY_CHANGED")
  ELSE IF ~Present(next) THEN <<"ASIN_REMOVED">>
  ELSE
    LET steps == If(next.count > prev.count, "CONSUMER_ATTACHED")
                 \o If(next.count < prev.count, "CONSUMER_DETACHED")
                 \o If(prev.status = "ACTIVE" /\ next.status = "PAUSED_QTY_ZERO", "QTY_ZERO_PAUSED")
                 \o If(prev.status = "PAUSED_QTY_ZERO" /\ next.status = "ACTIVE", "QTY_POSITIVE_RESUMED")
                 \o If(prev.priority # next.priority, "SOLD_PRIORITY_CHANGED")
    IN IF steps = <<>> /\ [prev EXCEPT !.ver = 0] # [next EXCEPT !.ver = 0]
       THEN <<"ASIN_UPSERT">> ELSE steps

\* the row an event writes
Written(ev) ==
  IF ev.type = "ASIN_REMOVED" \/ ~Present(ev.proj) THEN Absent
  ELSE LET sold == ev.type = "SOLD_PRIORITY_CHANGED" IN
    [ev.proj EXCEPT
       !.status   = IF ev.type = "QTY_ZERO_PAUSED" THEN "PAUSED_QTY_ZERO"
                    ELSE IF ev.type \in {"CONSUMER_ATTACHED", "QTY_POSITIVE_RESUMED"} /\ ev.proj.count > 0
                    THEN "ACTIVE" ELSE @,
       !.priority = IF sold THEN "SOLD" ELSE @,
       !.cadence  = IF sold THEN 12 ELSE @]

AppliedInAnyOrder(row, ev) == Written(ev)
AppliedLate(row, ev) == IF Present(row) /\ ev.proj.ver <= row.ver + 1 THEN row ELSE Written(ev)

\* applySyncEvent on the row of the ASIN: an event no newer than the row is skipped
Applied(row, ev) == IF Present(row) /\ ev.proj.ver <= row.ver THEN row ELSE Written(ev)
=============================================================================
