---------------------------- MODULE OxylabsApply ----------------------------
(***************************************************************************)
(* How the result of a completed Oxylabs job reaches eBay                  *)
(* (modules/oxylabsVerify: oxylabsApplyOperations, oxylabsVerifyApply):    *)
(* the result handler and the interval processor claim the outbox row      *)
(* of the job, plan one zero-stock operation per listing that still shows  *)
(* stock, and run each of them under a lease of oxylabs_apply_operations.  *)
(* Both run in the API process, which may restart between any two steps;   *)
(* database statements and eBay calls may throw.                           *)
(***************************************************************************)
EXTENDS Naturals, FiniteSets

CONSTANTS
  Jobs,            \* completed scan jobs, each with its outbox row
  Listings,        \* rows of store_catalog_state that consume the product
  Handlers,        \* result requests that can be applying at one time
  Processors,      \* ticks of the apply processor at one time (code: one)
  NoJob, NoOp,     \* no value
  BatchLimit,      \* outbox rows a tick claims (code: 5)
  MaxTries,        \* failed applications before a row is FAILED (code: 8)
  Overrun,         \* an applier may still run when the lease it took expires
  MaxRestarts      \* bound: restarts of the API process

ASSUME ListingsAssumption == NoJob \notin Jobs /\ NoOp \notin Jobs \X Listings
ASSUME AppliersAssumption == Handlers \cap Processors = {}
ASSUME LimitsAssumption ==
  /\ BatchLimit \in Nat \ {0} /\ MaxTries \in Nat \ {0}
  /\ MaxRestarts \in Nat /\ Overrun \in BOOLEAN

VARIABLES
  \* amazon_scan_apply_outbox: status, attempt_count, locked_until > now
  outbox, tries, locked,
  \* oxylabs_apply_operations: status, lease_until > now, ebay_mutate_count
  status, lease, mutateCount,
  \* the listing has quantity 0: on eBay, and in store_catalog_state
  zeroOnEbay, zeroInPanel,
  \* result requests that completed their job and go on to apply it
  fresh,
  \* each applier: rows it claimed, the job, operations to do, one in hand
  pc, batch, job, plan, op, readBack, outcome,
  \* history: mutations sent to eBay for each operation; restarts so far
  calls, restarts

outboxVars  == <<outbox, tries, locked>>
opVars      == <<status, lease, mutateCount>>
listingVars == <<zeroOnEbay, zeroInPanel>>
handVars    == <<op, readBack, outcome>>
applierVars == <<pc, batch, job, plan, handVars>>
vars == <<outboxVars, opVars, listingVars, fresh, applierVars, calls, restarts>>

Appliers == Handlers \cup Processors
Ops      == Jobs \X Listings         \* operation_key: job and catalog state
OpStatuses == {"ABSENT", "CLAIMED", "APPLIED", "RETRYABLE", "SKIPPED"}

\* Between the claim of an operation and the end of runOxylabsGuardedMutation.
Working == {"readback", "intent", "mutate", "call", "record", "settle"}
WorksOn(a, o) == pc[a] \in Working /\ op[a] = o

OutboxTypeOK ==
  /\ outbox \in [Jobs -> {"ABSENT", "PENDING", "DONE", "FAILED"}]
  /\ tries \in [Jobs -> Nat]
  /\ locked \in [Jobs -> BOOLEAN]
  /\ fresh \subseteq Jobs

OpTypeOK ==
  /\ status \in [Ops -> OpStatuses]
  /\ lease \in [Ops -> BOOLEAN]
  /\ mutateCount \in [Ops -> Nat]
  /\ calls \in [Ops -> Nat]
  /\ zeroOnEbay \in [Listings -> BOOLEAN]
  /\ zeroInPanel \in [Listings -> BOOLEAN]

ApplierTypeOK ==
  /\ pc \in [Appliers -> {"idle", "claim"} \cup Working]
  /\ batch \in [Appliers -> SUBSET Jobs]
  /\ job \in [Appliers -> Jobs \cup {NoJob}]
  /\ plan \in [Appliers -> SUBSET Ops]
  /\ op \in [Appliers -> Ops \cup {NoOp}]
  /\ readBack \in [Appliers -> BOOLEAN]
  /\ outcome \in [Appliers -> {"none", "applied", "failed", "skipped"}]
  /\ \A a \in Appliers :
       /\ pc[a] # "idle" => /\ job[a] \in batch[a]
                            /\ \A o \in plan[a] : o[1] = job[a]
       /\ pc[a] \in Working => op[a] \in Ops /\ op[a][1] = job[a]
  /\ restarts \in Nat

TypeOK == OutboxTypeOK /\ OpTypeOK /\ ApplierTypeOK

Init ==
  /\ outbox = [j \in Jobs |-> "ABSENT"]
  /\ tries = [j \in Jobs |-> 0]
  /\ locked = [j \in Jobs |-> FALSE]
  /\ status = [o \in Ops |-> "ABSENT"]
  /\ lease = [o \in Ops |-> FALSE]
  /\ mutateCount = [o \in Ops |-> 0]
  /\ zeroOnEbay = [l \in Listings |-> FALSE]
  /\ zeroInPanel = [l \in Listings |-> FALSE]
  /\ fresh = {}
  /\ pc = [a \in Appliers |-> "idle"]
  /\ batch = [a \in Appliers |-> {}]
  /\ job = [a \in Appliers |-> NoJob]
  /\ plan = [a \in Appliers |-> {}]
  /\ op = [a \in Appliers |-> NoOp]
  /\ readBack = [a \in Appliers |-> FALSE]
  /\ outcome = [a \in Appliers |-> "none"]
  /\ calls = [o \in Ops |-> 0]
  /\ restarts = 0

-----------------------------------------------------------------------------
(* The outbox row.                                                         *)

\* completeScanJob inserts the row; its request goes on to apply the job.
Complete(j) ==
  /\ outbox[j] = "ABSENT"
  /\ outbox' = [outbox EXCEPT ![j] = "PENDING"]
  /\ fresh' = fresh \cup {j}
  /\ UNCHANGED <<tries, locked, opVars, listingVars, applierVars, calls,
                 restarts>>

AvailableOnce(j) ==                          \* mutant: a failed row is left
  outbox[j] = "PENDING" /\ ~locked[j] /\ tries[j] = 0
Available(j) == outbox[j] = "PENDING" /\ ~locked[j]

\* SET locked_until = NOW() + interval '2 minutes'
TakeRows(a, rows) ==
  /\ locked' = [j \in Jobs |-> locked[j] \/ j \in rows]
  /\ batch' = [batch EXCEPT ![a] = rows]
  /\ UNCHANGED <<outbox, tries, opVars, listingVars, pc, job, plan, handVars,
                 calls, restarts>>

Free(a) == pc[a] = "idle" /\ batch[a] = {}

\* claimOxylabsOutboxForJob: without the row the request applies nothing.
HandlerClaims(a, j) ==
  /\ Free(a) /\ j \in fresh
  /\ fresh' = fresh \ {j}
  /\ TakeRows(a, {i \in {j} : Available(i)})

\* claimOxylabsApplyOutbox, at a tick
ProcessorClaims(a) ==
  /\ Free(a)
  /\ \E rows \in SUBSET {j \in Jobs : Available(j)} :
       /\ rows # {} /\ Cardinality(rows) <= BatchLimit
       /\ \/ Cardinality(rows) = BatchLimit
          \/ rows = {j \in Jobs : Available(j)}
       /\ TakeRows(a, rows)
  /\ UNCHANGED fresh

PutDown(a) ==
  /\ op' = [op EXCEPT ![a] = NoOp]
  /\ readBack' = [readBack EXCEPT ![a] = FALSE]
  /\ outcome' = [outcome EXCEPT ![a] = "none"]

\* The row of the job in hand is settled: the next row of the batch follows.
LeaveJobGoesOn(a) ==                    \* mutant: goes on with the job
  /\ locked' = [locked EXCEPT ![job[a]] = FALSE]
  /\ batch' = [batch EXCEPT ![a] = @ \ {job[a]}]
  /\ UNCHANGED <<opVars, listingVars, fresh, pc, job, plan, handVars, calls,
                 restarts>>
LeaveJob(a) ==
  /\ locked' = [locked EXCEPT ![job[a]] = FALSE]
  /\ batch' = [batch EXCEPT ![a] = @ \ {job[a]}]
  /\ pc' = [pc EXCEPT ![a] = "idle"]
  /\ job' = [job EXCEPT ![a] = NoJob]
  /\ plan' = [plan EXCEPT ![a] = {}]
  /\ PutDown(a)
  /\ UNCHANGED <<opVars, listingVars, fresh, calls, restarts>>

\* markApplyOutboxDone: whoever holds the lock by now
ApplyDone(a) ==
  /\ pc[a] = "claim" /\ plan[a] = {}
  /\ outbox' = [outbox EXCEPT ![job[a]] = "DONE"]
  /\ UNCHANGED tries
  /\ LeaveJob(a)

\* markApplyOutboxRetry, for whatever throws outside the guarded mutation
ApplyThrows(a) ==
  /\ pc[a] \in {"claim", "readback", "intent", "record", "settle"}
  /\ tries' = [tries EXCEPT ![job[a]] = @ + 1]
  /\ outbox' = [outbox EXCEPT ![job[a]] =
                  IF tries'[job[a]] >= MaxTries THEN "FAILED" ELSE "PENDING"]
  /\ LeaveJob(a)

-----------------------------------------------------------------------------
(* applyOxylabsCompletedScanJob and its guarded mutations.                 *)

\* A listing whose recorded quantity is 0 is not planned for.
Planned(j) == {o \in Ops : o[1] = j /\ ~zeroInPanel[o[2]]}

ApplyStart(a, j) ==
  /\ pc[a] = "idle" /\ j \in batch[a]
  /\ job' = [job EXCEPT ![a] = j]
  /\ plan' = [plan EXCEPT ![a] = Planned(j)]
  /\ pc' = [pc EXCEPT ![a] = "claim"]
  /\ UNCHANGED <<outboxVars, opVars, listingVars, fresh, batch, handVars,
                 calls, restarts>>

ClaimableAnyLease(o) ==                 \* mutant: the lease is not looked at
  status[o] \in {"ABSENT", "CLAIMED", "RETRYABLE"}
ClaimableAgain(o) ==                    \* mutant: the status is not looked at
  status[o] = "ABSENT" \/ ~lease[o]
Claimable(o) ==
  \/ status[o] = "ABSENT"
  \/ status[o] \in {"CLAIMED", "RETRYABLE"} /\ ~lease[o]

\* recovery: an earlier claim announced a mutation, the listing is read first
FirstStepLate(o) ==                     \* mutant: off by one
  IF mutateCount[o] > 1 THEN "readback" ELSE "intent"
FirstStep(o) == IF mutateCount[o] > 0 THEN "readback" ELSE "intent"

\* claimOxylabsApplyOperation returns WON
ClaimWon(a, o) ==
  /\ pc[a] = "claim" /\ o \in plan[a] /\ Claimable(o)
  /\ status' = [status EXCEPT ![o] = "CLAIMED"]
  /\ lease' = [lease EXCEPT ![o] = TRUE]
  /\ plan' = [plan EXCEPT ![a] = @ \ {o}]
  /\ op' = [op EXCEPT ![a] = o]
  /\ readBack' = [readBack EXCEPT ![a] = FALSE]
  /\ outcome' = [outcome EXCEPT ![a] = "none"]
  /\ pc' = [pc EXCEPT ![a] = FirstStep(o)]
  /\ UNCHANGED <<outboxVars, mutateCount, listingVars, fresh, batch, job, calls,
                 restarts>>

\* already_applied or already_claimed: the next listing follows
ClaimLost(a, o) ==
  /\ pc[a] = "claim" /\ o \in plan[a] /\ ~Claimable(o)
  /\ plan' = [plan EXCEPT ![a] = @ \ {o}]
  /\ UNCHANGED <<outboxVars, opVars, listingVars, fresh, pc, batch, job,
                 handVars, calls, restarts>>

\* markOxylabsApplyOperation: no condition on the owner or the old status.
Mark(o, s) ==
  /\ status' = [status EXCEPT ![o] = s]
  /\ lease' = [lease EXCEPT ![o] = @ /\ s \notin {"APPLIED", "SKIPPED"}]

GoTo(a, label) == pc' = [pc EXCEPT ![a] = label]

\* The readback shows quantity 0.
MatchesUnread(o) == TRUE                \* mutant: the answer is not compared
Matches(o) == zeroOnEbay[o[2]]

ReadBackMatches(a) ==
  /\ pc[a] = "readback" /\ Matches(op[a])
  /\ Mark(op[a], "APPLIED")
  /\ GoTo(a, "claim") /\ PutDown(a)
  /\ UNCHANGED <<outboxVars, mutateCount, listingVars, fresh, batch, job, plan,
                 calls, restarts>>

\* It shows another quantity, or eBay could not be read (null).
ReadBackDiffers(a) ==
  /\ pc[a] = "readback"
  /\ Mark(op[a], "CLAIMED")
  /\ readBack' = [readBack EXCEPT ![a] = TRUE]
  /\ GoTo(a, "intent")
  /\ UNCHANGED <<outboxVars, mutateCount, listingVars, fresh, batch, job, plan,
                 op, outcome, calls, restarts>>

\* ebay_mutate_count is written before the mutation is sent.
AnnounceUncounted(a) ==                 \* mutant: bumpMutate is not passed
  /\ pc[a] = "intent"
  /\ Mark(op[a], "CLAIMED")
  /\ GoTo(a, "mutate")
  /\ UNCHANGED <<outboxVars, mutateCount, listingVars, fresh, batch, job, plan,
                 handVars, calls, restarts>>
AnnounceMutation(a) ==
  /\ pc[a] = "intent"
  /\ Mark(op[a], "CLAIMED")
  /\ mutateCount' = [mutateCount EXCEPT ![op[a]] = @ + 1]
  /\ GoTo(a, "mutate")
  /\ UNCHANGED <<outboxVars, listingVars, fresh, batch, job, plan, handVars,
                 calls, restarts>>

\* applyConfirmedNoValidSource returns without a call: stale or ineligible.
MutateSkips(a) ==
  /\ pc[a] = "mutate"
  /\ outcome' = [outcome EXCEPT ![a] = "skipped"]
  /\ GoTo(a, "record")
  /\ UNCHANGED <<outboxVars, opVars, listingVars, fresh, batch, job, plan, op,
                 readBack, calls, restarts>>

\* The listing shows stock and may be changed: zeroListingQuantityOnEbay.
MutateProceeds(a) ==
  /\ pc[a] = "mutate" /\ ~zeroInPanel[op[a][2]]
  /\ GoTo(a, "call")
  /\ UNCHANGED <<outboxVars, opVars, listingVars, fresh, batch, job, plan,
                 handVars, calls, restarts>>

\* The call lands or not; an error may follow before or after the panel knows.
MutateCalls(a) ==
  /\ pc[a] = "call"
  /\ calls' = [calls EXCEPT ![op[a]] = @ + 1]
  /\ \E landed, noted \in BOOLEAN, result \in {"applied", "failed"} :
       /\ noted => landed
       /\ result = "applied" => noted
       /\ zeroOnEbay' = [zeroOnEbay EXCEPT ![op[a][2]] = @ \/ landed]
       /\ zeroInPanel' = [zeroInPanel EXCEPT ![op[a][2]] = @ \/ noted]
       /\ outcome' = [outcome EXCEPT ![a] = result]
  /\ GoTo(a, "record")
  /\ UNCHANGED <<outboxVars, opVars, fresh, batch, job, plan, op, readBack,
                 restarts>>

RecordApplied(a) ==
  /\ pc[a] = "record" /\ outcome[a] = "applied"
  /\ Mark(op[a], "APPLIED")
  /\ GoTo(a, "claim") /\ PutDown(a)
  /\ UNCHANGED <<outboxVars, mutateCount, listingVars, fresh, batch, job, plan,
                 calls, restarts>>

\* SKIPPED is written before the slot is settled.
RecordSkipped(a) ==
  /\ pc[a] = "record" /\ outcome[a] = "skipped"
  /\ Mark(op[a], "SKIPPED")
  /\ GoTo(a, "settle")
  /\ UNCHANGED <<outboxVars, mutateCount, listingVars, fresh, batch, job, plan,
                 handVars, calls, restarts>>

Settle(a) ==
  /\ pc[a] = "settle"
  /\ GoTo(a, "claim") /\ PutDown(a)
  /\ UNCHANGED <<outboxVars, opVars, listingVars, fresh, batch, job, plan,
                 calls, restarts>>

\* The mutation failed, or settling or marking threw: the operation stays
\* RETRYABLE under its lease and the loop goes on.
RecordRetryable(a) ==
  /\ pc[a] \in {"record", "settle"}
  /\ Mark(op[a], "RETRYABLE")
  /\ GoTo(a, "claim") /\ PutDown(a)
  /\ UNCHANGED <<outboxVars, mutateCount, listingVars, fresh, batch, job, plan,
                 calls, restarts>>

-----------------------------------------------------------------------------
(* Time and crashes.                                                       *)

\* locked_until passes, whoever still works through the rows it claimed.
LockExpires(j) ==
  /\ locked[j]
  /\ locked' = [locked EXCEPT ![j] = FALSE]
  /\ UNCHANGED <<outbox, tries, opVars, listingVars, fresh, applierVars, calls,
                 restarts>>

\* lease_until passes
LeaseExpires(o) ==
  /\ lease[o]
  /\ Overrun \/ \A a \in Appliers : ~WorksOn(a, o)
  /\ lease' = [lease EXCEPT ![o] = FALSE]
  /\ UNCHANGED <<outboxVars, status, mutateCount, listingVars, fresh,
                 applierVars, calls, restarts>>

\* The API process restarts: what its handlers and its tick were doing is lost.
Restart ==
  /\ restarts < MaxRestarts
  /\ restarts' = restarts + 1
  /\ fresh' = {}
  /\ pc' = [a \in Appliers |-> "idle"]
  /\ batch' = [a \in Appliers |-> {}]
  /\ job' = [a \in Appliers |-> NoJob]
  /\ plan' = [a \in Appliers |-> {}]
  /\ op' = [a \in Appliers |-> NoOp]
  /\ readBack' = [a \in Appliers |-> FALSE]
  /\ outcome' = [a \in Appliers |-> "none"]
  /\ UNCHANGED <<outboxVars, opVars, listingVars, calls>>

-----------------------------------------------------------------------------
\* What an applier does with the rows it claimed.
Claims(a) == \E o \in Ops : ClaimWon(a, o) \/ ClaimLost(a, o)
Looks(a)  == ReadBackMatches(a) \/ ReadBackDiffers(a)
Mutates(a) == MutateSkips(a) \/ MutateProceeds(a) \/ MutateCalls(a)
Records(a) == \/ RecordApplied(a) \/ RecordSkipped(a) \/ Settle(a)
              \/ RecordRetryable(a)

Applies(a) == \/ \E j \in Jobs : ApplyStart(a, j)
              \/ Claims(a) \/ Looks(a) \/ AnnounceMutation(a) \/ Mutates(a)
              \/ Records(a) \/ ApplyDone(a)

Next ==
  \/ \E j \in Jobs : Complete(j) \/ LockExpires(j)
  \/ \E o \in Ops : LeaseExpires(o)
  \/ \E a \in Handlers, j \in Jobs : HandlerClaims(a, j)
  \/ \E a \in Processors : ProcessorClaims(a)
  \/ \E a \in Appliers : Applies(a) \/ ApplyThrows(a)
  \/ Restart

Spec == Init /\ [][Next]_vars

(* Awaited statements and calls come back, the interval ticks, time passes. *)
Fairness ==
  /\ \A a \in Appliers : WF_vars(Applies(a))
  /\ \A a \in Processors : WF_vars(ProcessorClaims(a))
  /\ \A j \in Jobs : WF_vars(LockExpires(j))
  /\ \A o \in Ops : WF_vars(LeaseExpires(o))

FairSpec == Spec /\ Fairness

-----------------------------------------------------------------------------
(* Properties.                                                             *)

(* At most one applier works on an operation at a time: the lease of       *)
(* claimOxylabsApplyOperation keeps the handler and the processor apart    *)
(* over every failure and restart, as long as nobody outlives its lease.   *)
Owned == INSTANCE Ownership WITH
  Items <- Ops, Clients <- Appliers,
  workers <- [o \in Ops |-> {a \in Appliers : WorksOn(a, o)}]
OneOwner == Owned!OwnershipSpec

(* A mutation that nobody read the listing back for is the first one of    *)
(* its operation: after a crash or a failure runOxylabsGuardedMutation     *)
(* looks before it mutates again.                                          *)
BlindCallIsFirst ==
  \A a \in Appliers :
    pc[a] \in {"mutate", "call"} /\ ~readBack[a] => calls[op[a]] = 0

(* Whatever overlaps or crashes, an operation for which eBay was called    *)
(* says so (ebay_mutate_count), so that its next claim is a recovery.      *)
CallIsOnRecord ==
  \A o \in Ops : calls[o] > 0 => mutateCount[o] > 0

(* An operation is recorded APPLIED only if its listing has quantity 0 on  *)
(* eBay, even when two appliers overlap and overwrite each other's marks.  *)
AppliedIsOnEbay ==
  \A o \in Ops : status[o] = "APPLIED" => zeroOnEbay[o[2]]

(* A lock that ran out lets two appliers at one row, and a late retry      *)
(* reopens a row that is DONE; markOxylabsApplyOperation has no condition  *)
(* on the owner.  Still an operation that is APPLIED stays so, and eBay is *)
(* not called for it again.                                                *)
AppliedStays ==
  [][\A o \in Ops : status[o] = "APPLIED" =>
       status'[o] = "APPLIED" /\ calls'[o] = calls[o]]_vars

(* Every outbox row is settled in the end, through failures and restarts.  *)
RowIsSettled ==
  \A j \in Jobs : outbox[j] = "PENDING" ~> outbox[j] \in {"DONE", "FAILED"}

=============================================================================
