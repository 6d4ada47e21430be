---------------------------- MODULE ScanJobQueue ----------------------------
(***************************************************************************)
(* The browser scans of one product: the queue of modules/amazonScan, the  *)
(* remote workers of amazon-scan-worker.ts and the apply processor.  A     *)
(* first reading that would change a listing is never applied: a second    *)
(* worker reads the page again (CONFIRM), and eBay is called only if both  *)
(* readings agree.  Two chains share the queue: ROUTINE scans, whose       *)
(* second look the processor enqueues, and KEEPA_VERIFY scans of a Keepa   *)
(* candidate, whose second look the result handler enqueues and which a    *)
(* feeder starts again as long as the candidate is open.                   *)
(***************************************************************************)
EXTENDS Naturals, FiniteSets
LOCAL INSTANCE Functions

CONSTANTS
  Jobs,            \* ids of amazon_scan_jobs, all of one scan_key; in order
  First, Second,   \* workers whose id claims first looks and second looks
  NoWorker, None,  \* no value
  Keepa,           \* the KEEPA_VERIFY chain (TRUE) or the ROUTINE chain
  SeenFirst,       \* what a visit for a first look may end in
  SeenSecond,      \* and one for a second look
  Slow,            \* workers whose visits may outlast the renewal interval
  MaxAttempts,     \* AMAZON_SCAN_MAX_ATTEMPTS
  MaxTries,        \* failed applications before a row is FAILED (code: 8)
  MaxClaims,       \* bound: claims of all the jobs together
  MaxLate,         \* bound: requests on their way that nobody awaits
  MaxLosses        \* bound: crashes, restarts, errors and lost requests

NoJob   == 0
Workers == First \cup Second
\* What a visit shows: the offer is gone, its price rose, nothing changed, or
\* the page decides nothing; or the visit fails.
Changing == {"gone", "dearer"}
Readings == Changing \cup {"same", "unclear"}
Failures == {"challenge", "error"}

ASSUME WorkersAssumption == First \cap Second = {} /\ NoWorker \notin Workers
ASSUME JobsAssumption == Jobs \subseteq Nat \ {NoJob}
ASSUME SeenAssumption ==
  SeenFirst \cup SeenSecond \subseteq Readings \cup Failures
ASSUME LimitsAssumption ==
  /\ MaxAttempts \in Nat \ {0} /\ MaxTries \in Nat \ {0}
  /\ MaxClaims \in Nat /\ MaxLate \in Nat /\ MaxLosses \in Nat
  /\ Keepa \in BOOLEAN

VARIABLES
  \* amazon_scan_jobs: status, kind, parent_job_id, worker_id, lease_token,
  \* lease_expires_at, attempt_count, result_payload
  status, kind, parent, owner, token, lease, attempts, payload,
  \* amazon_scan_apply_outbox: status, attempt_count
  outbox, tries,
  \* keepa_verify_candidates: status; the feeder is about to enqueue for it
  candidate, feeding,
  \* the apply processor: the row it works on and what it has read
  apply,
  \* requests that nobody awaits any more, or that a heartbeat started
  late,
  \* a worker: control, job in hand, leaseLost, its local outbox file, lines
  \* of it still to send and acknowledged, awaited request, lease renewal
  pc, hand, lost, saved, todo, acked, request, renewal,
  \* history: claims of each job, readings the server took, jobs for which
  \* eBay was called; crashes and losses so far
  claims, readings, mutated, losses

jobVars    == <<status, kind, parent, owner, token, lease, attempts, payload>>
outboxVars == <<outbox, tries>>
keepaVars  == <<candidate, feeding>>
memVars    == <<pc, hand, lost, todo, acked>>
workerVars == <<memVars, saved, request, renewal>>
past       == <<claims, readings, mutated>>
history    == <<past, losses>>
vars == <<jobVars, outboxVars, keepaVars, apply, late, workerVars, history>>

Active == {"PENDING", "CLAIMED", "WAITING_FOR_WORKER", "RETRYABLE"}
Statuses == Active \cup {"ABSENT", "COMPLETED", "FAILED"}

Message == [kind : {"claim", "take", "running", "renew", "result", "chain",
                    "fail", "failing", "refused"},
            worker : Workers, job : Jobs \cup {NoJob}, token : Nat,
            seen : Readings \cup Failures \cup {None}, attempt : Nat]
Msg(k, w, h, s) == [kind |-> k, worker |-> w, job |-> h.job, token |-> h.token,
                    seen |-> s, attempt |-> 0]
Nothing == [job |-> NoJob, token |-> 0]
Hands   == [job : Jobs \cup {NoJob}, token : Nat]
Idle    == [job |-> NoJob, stage |-> "idle", seen |-> None]

JobsTypeOK ==
  /\ status \in [Jobs -> Statuses]
  /\ kind \in [Jobs -> {None, "FIRST", "SECOND"}]
  /\ parent \in [Jobs -> Jobs \cup {NoJob}]
  /\ owner \in [Jobs -> Workers \cup {NoWorker}]
  /\ token \in [Jobs -> Nat]
  /\ lease \in [Jobs -> {"none", "live", "expired"}]
  /\ \A j \in Jobs : lease[j] # "none" <=> status[j] = "CLAIMED"
  /\ attempts \in [Jobs -> Nat]
  /\ payload \in [Jobs -> Readings \cup {None}]
  /\ outbox \in [Jobs -> {"ABSENT", "PENDING", "DONE", "FAILED"}]
  /\ tries \in [Jobs -> Nat]
  /\ claims \in [Jobs -> Nat]
  /\ readings \subseteq Jobs \X Workers \X Readings
  /\ mutated \subseteq Jobs
  /\ losses \in Nat
  /\ candidate \in {"OPEN", "MATCHED", "CONFLICT"} /\ feeding \in BOOLEAN

WorkersTypeOK ==
  /\ pc \in [Workers -> {"idle", "flush", "claim", "running", "observe",
                         "deliver"}]
  /\ hand \in [Workers -> Hands]
  /\ lost \in [Workers -> BOOLEAN]
  /\ saved \in [Workers -> SUBSET Message]
  /\ todo \in [Workers -> SUBSET Message]
  /\ acked \in [Workers -> SUBSET Message]
  /\ request \in [Workers -> Message \cup {None}]
  /\ renewal \in [Workers -> Message \cup {None}]
  /\ late \subseteq Message

ApplyTypeOK ==
  apply \in [job : Jobs \cup {NoJob}, seen : Readings \cup {None},
             stage : {"idle", "read", "gate", "confirm", "mutate",
                      "match", "conflict", "done"}]

TypeOK == JobsTypeOK /\ WorkersTypeOK /\ ApplyTypeOK

Init ==
  /\ status = [j \in Jobs |-> "ABSENT"]
  /\ kind = [j \in Jobs |-> None]
  /\ parent = [j \in Jobs |-> NoJob]
  /\ owner = [j \in Jobs |-> NoWorker]
  /\ token = [j \in Jobs |-> 0]
  /\ lease = [j \in Jobs |-> "none"]
  /\ attempts = [j \in Jobs |-> 0]
  /\ payload = [j \in Jobs |-> None]
  /\ outbox = [j \in Jobs |-> "ABSENT"]
  /\ tries = [j \in Jobs |-> 0]
  /\ candidate = "OPEN" /\ feeding = FALSE
  /\ apply = Idle
  /\ late = {}
  /\ pc = [w \in Workers |-> "idle"]
  /\ hand = [w \in Workers |-> Nothing]
  /\ lost = [w \in Workers |-> FALSE]
  /\ saved = [w \in Workers |-> {}]
  /\ todo = [w \in Workers |-> {}]
  /\ acked = [w \in Workers |-> {}]
  /\ request = [w \in Workers |-> None]
  /\ renewal = [w \in Workers |-> None]
  /\ claims = [j \in Jobs |-> 0]
  /\ readings = {} /\ mutated = {} /\ losses = 0

-----------------------------------------------------------------------------
(* The queue: enqueueScanJob, where the unique index on (scan_key, kind)   *)
(* allows one active job of a kind.                                        *)

HasActive(k) == \E j \in Jobs : kind[j] = k /\ status[j] \in Active

Insert(j, k, p) ==
  /\ status[j] = "ABSENT" /\ ~HasActive(k)
  /\ \A i \in Jobs : status[i] = "ABSENT" => j <= i
  /\ status' = [status EXCEPT ![j] = "PENDING"]
  /\ kind' = [kind EXCEPT ![j] = k]
  /\ parent' = [parent EXCEPT ![j] = p]
  /\ UNCHANGED <<owner, token, lease, attempts, payload>>

\* runAmazonBrowserPlannerTick: the product is due.
PlannerEnqueues(j) ==
  /\ ~Keepa /\ Insert(j, "FIRST", NoJob)
  /\ UNCHANGED <<outboxVars, keepaVars, apply, late, workerVars, history>>

\* Mutant: a candidate that had a job never gets another.
FeederSelectsOnce ==
  /\ Keepa /\ ~feeding /\ candidate = "OPEN"
  /\ \A j \in Jobs : status[j] = "ABSENT"
  /\ feeding' = TRUE
  /\ UNCHANGED <<jobVars, outboxVars, candidate, apply, late, workerVars,
                 history>>

\* feedKeepaVerifyPrimaryOrphans: an open candidate without an active job
FeederSelects ==
  /\ Keepa /\ ~feeding /\ candidate = "OPEN"
  /\ ~HasActive("FIRST") /\ ~HasActive("SECOND")
  /\ feeding' = TRUE
  /\ UNCHANGED <<jobVars, outboxVars, candidate, apply, late, workerVars,
                 history>>

FeederEnqueues ==
  /\ feeding /\ feeding' = FALSE
  /\ \/ \E j \in Jobs : Insert(j, "FIRST", NoJob)
     \/ HasActive("FIRST") /\ UNCHANGED jobVars
  /\ UNCHANGED <<outboxVars, candidate, apply, late, workerVars, history>>

-----------------------------------------------------------------------------
(* Requests.  A worker awaits one at a time; one it gave up is late.  A    *)
(* reply that is lost needs no action of its own: the worker might as well *)
(* have given up before its request was handled.                           *)

\* What the worker sent, however far its handler has got.
Sent(m) ==
  [m EXCEPT !.kind = IF @ = "chain" THEN "result"
                     ELSE IF @ = "failing" THEN "fail" ELSE @,
            !.attempt = 0]

\* The round of w is over: nothing is in hand, and leaseLost, which the next
\* claim resets, is not read before.
Rest(w) ==
  /\ pc' = [pc EXCEPT ![w] = "idle"]
  /\ hand' = [hand EXCEPT ![w] = Nothing]
  /\ lost' = [lost EXCEPT ![w] = FALSE]

HearsFlushed(w, ok) ==
  /\ pc[w] = "flush"
  /\ acked' = [acked EXCEPT ![w] =
                 IF ok THEN @ \cup {Sent(request[w])} ELSE @]
  /\ request' = [request EXCEPT ![w] = None]
  /\ UNCHANGED <<pc, hand, lost, todo, saved>>

\* The claim is answered: the worker says at once that it is running.
HearsClaimed(w, h) ==
  /\ pc[w] = "claim"
  /\ IF h = Nothing
     THEN /\ Rest(w)
          /\ request' = [request EXCEPT ![w] = None]
     ELSE /\ pc' = [pc EXCEPT ![w] = "running"]
          /\ hand' = [hand EXCEPT ![w] = h]
          /\ lost' = [lost EXCEPT ![w] = FALSE]
          /\ request' = [request EXCEPT ![w] = Msg("running", w, h, None)]
  /\ UNCHANGED <<todo, acked, saved>>

HearsRunning(w, ok) ==
  /\ pc[w] = "running"
  /\ request' = [request EXCEPT ![w] = None]
  /\ IF ok THEN /\ pc' = [pc EXCEPT ![w] = "observe"]
                /\ UNCHANGED <<hand, lost>>
     ELSE Rest(w)
  /\ UNCHANGED <<todo, acked, saved>>

\* deliver: a 409 drops the message, any other error saves it.
HearsDelivered(w, answer) ==
  /\ pc[w] = "deliver"
  /\ Rest(w)
  /\ request' = [request EXCEPT ![w] = None]
  /\ saved' = [saved EXCEPT ![w] =
                 IF answer = "error" THEN @ \cup {Sent(request[w])} ELSE @]
  /\ UNCHANGED <<todo, acked>>

\* Mutant: a refused line stays in the file.
HearsOk(w, answer) ==
  \/ HearsFlushed(w, answer = "ok")
  \/ HearsClaimed(w, Nothing)
  \/ HearsRunning(w, answer = "ok")
  \/ HearsDelivered(w, answer)

\* The answers that are not a job: "ok", "conflict" (409), "error".
Hears(w, answer) ==
  \/ HearsFlushed(w, answer # "error")
  \/ HearsClaimed(w, Nothing)
  \/ HearsRunning(w, answer = "ok")
  \/ HearsDelivered(w, answer)

Awaited(m) == request[m.worker] = m
Requests   == late \cup ({request[w] : w \in Workers} \ {None})

\* A handler is done with m; nobody hears it if m is late.
Answer(m, answer) ==
  /\ UNCHANGED renewal
  /\ \/ Awaited(m) /\ Hears(m.worker, answer) /\ UNCHANGED late
     \/ /\ m \in late /\ late' = late \ {m}
        /\ UNCHANGED <<memVars, saved, request>>

\* A handler has done the first of its statements.
Continue(m, next) ==
  /\ UNCHANGED <<memVars, saved, renewal>>
  /\ \/ /\ Awaited(m) /\ request' = [request EXCEPT ![m.worker] = next]
        /\ UNCHANGED late
     \/ /\ m \in late /\ late' = (late \ {m}) \cup {next}
        /\ UNCHANGED request

-----------------------------------------------------------------------------
(* The handlers of amazonScanWorkerHandlers.ts.                            *)

\* Mutant: the UPDATEs do not ask for the status.
HoldsOnce(m, j) == owner[j] = m.worker /\ token[j] = m.token

Holds(m, j) == /\ status[j] = "CLAIMED"
               /\ owner[j] = m.worker /\ token[j] = m.token

\* claimNextScanJob: the busy check, which locks nothing
ClaimIsBusy(m) ==
  /\ m.kind = "claim"
  /\ \E j \in Jobs : status[j] = "CLAIMED" /\ owner[j] = m.worker
  /\ Answer(m, "ok")
  /\ UNCHANGED <<jobVars, outboxVars, keepaVars, apply, history>>

ClaimGoesOn(m) ==
  /\ m.kind = "claim"
  /\ \A j \in Jobs : ~(status[j] = "CLAIMED" /\ owner[j] = m.worker)
  /\ Continue(m, [m EXCEPT !.kind = "take"])
  /\ UNCHANGED <<jobVars, outboxVars, keepaVars, apply, history>>

TotalClaims == FoldFunction(LAMBDA m, n : m + n, 0, claims)

Claimable(w, j) ==
  /\ status[j] \in {"PENDING", "RETRYABLE", "WAITING_FOR_WORKER"}
  /\ lease[j] # "live"
  /\ kind[j] = IF w \in First THEN "FIRST" ELSE "SECOND"
  /\ TotalClaims < MaxClaims

TakeNothing(m) ==
  /\ m.kind = "take"
  /\ \A j \in Jobs : ~Claimable(m.worker, j)
  /\ Answer(m, "ok")
  /\ UNCHANGED <<jobVars, outboxVars, keepaVars, apply, history>>

\* A lease token is random: a job never gets one it had before.
TakeJob(m, j) ==
  /\ m.kind = "take" /\ Claimable(m.worker, j)
  /\ claims' = [claims EXCEPT ![j] = @ + 1]
  /\ status' = [status EXCEPT ![j] = "CLAIMED"]
  /\ owner' = [owner EXCEPT ![j] = m.worker]
  /\ token' = [token EXCEPT ![j] = claims[j] + 1]
  /\ lease' = [lease EXCEPT ![j] = "live"]
  /\ \/ /\ Awaited(m)
        /\ HearsClaimed(m.worker, [job |-> j, token |-> claims[j] + 1])
        /\ UNCHANGED <<late, renewal>>
     \/ /\ m \in late /\ late' = late \ {m}
        /\ UNCHANGED workerVars
  /\ UNCHANGED <<kind, parent, attempts, payload, outboxVars, keepaVars, apply,
                 readings, mutated, losses>>

\* markScanJobRunning: CLAIMED stands for RUNNING too.
Running(m) ==
  /\ m.kind = "running"
  /\ Answer(m, IF Holds(m, m.job) THEN "ok" ELSE "conflict")
  /\ UNCHANGED <<jobVars, outboxVars, keepaVars, apply, history>>

\* completeScanJob takes a result of the holder under a lease that runs.
Accepts(m) == Holds(m, m.job) /\ lease[m.job] # "expired"

InsertOutbox(j) ==
  /\ outbox' = [outbox EXCEPT ![j] = IF @ = "ABSENT" THEN "PENDING" ELSE @]
  /\ UNCHANGED tries

\* What follows the commit: only a KEEPA_VERIFY first look has more to do.
AfterCommit(m) ==
  IF Keepa /\ kind[m.job] = "FIRST"
  THEN Continue(m, [m EXCEPT !.kind = "chain"])
  ELSE Answer(m, "ok")

ResultAccepted(m) ==
  /\ m.kind = "result" /\ status[m.job] # "COMPLETED" /\ Accepts(m)
  /\ status' = [status EXCEPT ![m.job] = "COMPLETED"]
  /\ lease' = [lease EXCEPT ![m.job] = "none"]
  /\ payload' = [payload EXCEPT ![m.job] = m.seen]
  /\ readings' = readings \cup {<<m.job, m.worker, m.seen>>}
  /\ InsertOutbox(m.job)
  /\ AfterCommit(m)
  /\ UNCHANGED <<kind, parent, owner, token, attempts, keepaVars, apply, claims,
                 mutated, losses>>

ResultReplayed(m) ==
  /\ m.kind = "result" /\ status[m.job] = "COMPLETED"
  /\ InsertOutbox(m.job)
  /\ AfterCommit(m)
  /\ UNCHANGED <<jobVars, keepaVars, apply, history>>

ResultRefused(m) ==
  /\ m.kind = "result" /\ status[m.job] # "COMPLETED" /\ ~Accepts(m)
  /\ Answer(m, "conflict")
  /\ UNCHANGED <<jobVars, outboxVars, keepaVars, apply, history>>

\* enqueueKeepaVerifyConfirmFromPrimary
Chains(m) ==
  /\ m.seen # "unclear"
  /\ \A j \in Jobs : parent[j] = m.job => status[j] = "FAILED"

ChainEnqueues(m, j) ==
  /\ m.kind = "chain" /\ Chains(m)
  /\ Insert(j, "SECOND", m.job)
  /\ Answer(m, "ok")
  /\ UNCHANGED <<outboxVars, keepaVars, apply, history>>

\* Nothing to confirm, a second look exists, or too many are pending.
ChainSkips(m) ==
  /\ m.kind = "chain"
  /\ Answer(m, "ok")
  /\ UNCHANGED <<jobVars, outboxVars, keepaVars, apply, history>>

-----------------------------------------------------------------------------
(* failScanJob: a SELECT, then an UPDATE by id alone.                      *)

FailRefused(m) ==
  /\ m.kind = "fail"
  /\ \/ status[m.job] = "COMPLETED" /\ Answer(m, "ok")
     \/ /\ status[m.job] # "COMPLETED"
        /\ ~(owner[m.job] = m.worker /\ token[m.job] = m.token)
        /\ Answer(m, "conflict")
  /\ UNCHANGED <<jobVars, outboxVars, keepaVars, apply, history>>

FailReads(m) ==
  /\ m.kind = "fail" /\ status[m.job] # "COMPLETED"
  /\ owner[m.job] = m.worker /\ token[m.job] = m.token
  /\ Continue(m, [m EXCEPT !.kind = "failing", !.attempt = attempts[m.job]])
  /\ UNCHANGED <<jobVars, outboxVars, keepaVars, apply, history>>

\* Mutant: the UPDATE adds to the count it finds.
ChargedAgain(m) ==
  IF m.seen = "challenge" THEN attempts[m.job] ELSE attempts[m.job] + 1

\* A challenge costs no attempt.
Charged(m)   == IF m.seen = "challenge" THEN attempts[m.job] ELSE m.attempt + 1
FailedTo(m) ==
  IF m.seen = "challenge" THEN "WAITING_FOR_WORKER"
  ELSE IF m.attempt + 1 >= MaxAttempts THEN "FAILED" ELSE "RETRYABLE"

\* The unique index forbids to reopen a job beside an active one.
Clashes(m) ==
  /\ status[m.job] \notin Active /\ FailedTo(m) \in Active
  /\ HasActive(kind[m.job])

FailWrites(m) ==
  /\ m.kind = "failing" /\ ~Clashes(m)
  /\ status' = [status EXCEPT ![m.job] = FailedTo(m)]
  /\ attempts' = [attempts EXCEPT ![m.job] = Charged(m)]
  /\ owner' = [owner EXCEPT ![m.job] = NoWorker]
  /\ token' = [token EXCEPT ![m.job] = 0]
  /\ lease' = [lease EXCEPT ![m.job] = "none"]
  /\ Answer(m, "ok")
  /\ UNCHANGED <<kind, parent, payload, outboxVars, keepaVars, apply, history>>

FailThrows(m) ==
  /\ m.kind = "failing" /\ Clashes(m)
  /\ Answer(m, "error")
  /\ UNCHANGED <<jobVars, outboxVars, keepaVars, apply, history>>

Expired(j) == status[j] = "CLAIMED" /\ lease[j] = "expired"

\* recoverExpiredRunningScanJobs, at any heartbeat: it fails each expired job
\* in the name of its worker, as a request that nobody awaits.
Recovers ==
  LET found == {Msg("fail", owner[j], [job |-> j, token |-> token[j]], "error")
                  : j \in {i \in Jobs : Expired(i)}}
  IN /\ ~(found \subseteq late)
     /\ late' = late \cup found
     /\ UNCHANGED <<jobVars, outboxVars, keepaVars, apply, workerVars, history>>

Renewals == {renewal[w] : w \in Workers} \ {None}

\* renewScanJobLease: it revives a lease that has expired.
Renew(m) ==
  /\ m.kind = "renew"
  /\ lease' = IF Holds(m, m.job) THEN [lease EXCEPT ![m.job] = "live"] ELSE lease
  /\ \/ /\ renewal[m.worker] = m
        /\ renewal' = [renewal EXCEPT ![m.worker] =
                         IF Holds(m, m.job) THEN None
                         ELSE Msg("refused", m.worker, Nothing, None)]
        /\ UNCHANGED late
     \/ /\ m \in late /\ late' = late \ {m} /\ UNCHANGED renewal
  /\ UNCHANGED <<status, kind, parent, owner, token, attempts, payload,
                 outboxVars, keepaVars, apply, memVars, saved, request, history>>

Claim(m)  == \/ ClaimIsBusy(m) \/ ClaimGoesOn(m) \/ TakeNothing(m)
             \/ \E j \in Jobs : TakeJob(m, j)
Result(m) == \/ ResultAccepted(m) \/ ResultReplayed(m) \/ ResultRefused(m)
             \/ ChainSkips(m)
             \/ \E j \in Jobs : ChainEnqueues(m, j)
Fail(m)   == FailRefused(m) \/ FailReads(m) \/ FailWrites(m) \/ FailThrows(m)
Handle(m) == Claim(m) \/ Running(m) \/ Result(m) \/ Fail(m)

-----------------------------------------------------------------------------
(* The worker: processOne and observe of amazon-scan-worker.ts.            *)

Asks(w) == /\ pc' = [pc EXCEPT ![w] = "claim"]
           /\ request' = [request EXCEPT ![w] = Msg("claim", w, Nothing, None)]

\* Without a file to flush the worker asks for work, while the bound on claims
\* leaves any to get.
AsksAtOnce(w) ==
  /\ pc[w] = "idle" /\ saved[w] = {} /\ TotalClaims < MaxClaims
  /\ Asks(w)
  /\ UNCHANGED <<jobVars, outboxVars, keepaVars, apply, late, hand, lost, todo,
                 acked, saved, renewal, history>>

\* flushOutbox reads the file, sends every line, and writes what is left.
FlushStarts(w) ==
  /\ pc[w] = "idle" /\ saved[w] # {}
  /\ pc' = [pc EXCEPT ![w] = "flush"]
  /\ todo' = [todo EXCEPT ![w] = saved[w]]
  /\ acked' = [acked EXCEPT ![w] = {}]
  /\ UNCHANGED <<jobVars, outboxVars, keepaVars, apply, late, hand, lost, saved,
                 request, renewal, history>>

FlushSends(w, m) ==
  /\ pc[w] = "flush" /\ request[w] = None /\ m \in todo[w]
  /\ todo' = [todo EXCEPT ![w] = @ \ {m}]
  /\ request' = [request EXCEPT ![w] = m]
  /\ UNCHANGED <<jobVars, outboxVars, keepaVars, apply, late, pc, hand, lost,
                 acked, saved, renewal, history>>

Kept(w) == saved[w] \ acked[w]

FlushEnds(w) ==
  /\ pc[w] = "flush" /\ request[w] = None /\ todo[w] = {}
  /\ saved' = [saved EXCEPT ![w] = Kept(w)]
  /\ acked' = [acked EXCEPT ![w] = {}]
  /\ Asks(w)
  /\ UNCHANGED <<jobVars, outboxVars, keepaVars, apply, late, hand, lost, todo,
                 renewal, history>>

\* The interval timer of observe: no more than one renewal is awaited, since
\* a fetch is aborted before the next one is due.
RenewSends(w) ==
  /\ w \in Slow /\ pc[w] = "observe" /\ renewal[w] = None
  /\ renewal' = [renewal EXCEPT ![w] = Msg("renew", w, hand[w], None)]
  /\ UNCHANGED <<jobVars, outboxVars, keepaVars, apply, late, memVars, saved,
                 request, history>>

\* Its answer comes back whenever it likes, and leaseLost is of the process,
\* not of the job.
RenewRefused(w) ==
  /\ renewal[w] # None /\ renewal[w].kind = "refused"
  /\ renewal' = [renewal EXCEPT ![w] = None]
  /\ lost' = [lost EXCEPT ![w] = pc[w] \in {"running", "observe", "deliver"}]
  /\ UNCHANGED <<jobVars, outboxVars, keepaVars, apply, late, pc, hand, todo,
                 acked, saved, request, history>>

\* Some of the messages of S are still on their way.
Abandon(S) ==
  \E T \in SUBSET S :
    /\ T = {} \/ Cardinality(late \cup T) <= MaxLate
    /\ late' = late \cup T

Unanswered(S) == {m \in S \ {None} : m.kind # "refused"}

RenewFails(w) ==
  /\ renewal[w] # None
  /\ renewal' = [renewal EXCEPT ![w] = None]
  /\ Abandon(Unanswered({renewal[w]}))
  /\ UNCHANGED <<jobVars, outboxVars, keepaVars, apply, memVars, saved, request,
                 history>>

\* The visit ends; a lease known to be lost throws its result away.
ObserveSkips(w) ==
  /\ pc[w] = "observe" /\ lost[w]
  /\ Rest(w)
  /\ UNCHANGED <<jobVars, outboxVars, keepaVars, apply, late, todo, acked, saved,
                 request, renewal, history>>

Delivers(w, seen) ==
  /\ pc[w] = "observe" /\ ~lost[w]
  /\ pc' = [pc EXCEPT ![w] = "deliver"]
  /\ request' = [request EXCEPT ![w] =
       Msg(IF seen \in Readings THEN "result" ELSE "fail", w, hand[w], seen)]
  /\ UNCHANGED <<jobVars, outboxVars, keepaVars, apply, late, hand, lost, todo,
                 acked, saved, renewal, history>>

SeenBy(w) == IF w \in First THEN SeenFirst ELSE SeenSecond

WorkerStep(w) ==
  \/ AsksAtOnce(w) \/ FlushStarts(w) \/ FlushEnds(w) \/ ObserveSkips(w)
  \/ \E m \in todo[w] : FlushSends(w, m)
  \/ \E seen \in SeenBy(w) : Delivers(w, seen)

-----------------------------------------------------------------------------
(* The apply processor: applyCompletedScanJob for one outbox row.          *)

Loses == losses < MaxLosses /\ losses' = losses + 1

GoTo(stage) == apply' = [apply EXCEPT !.stage = stage]

\* Only one tick runs, so the lock of a row matters to nobody else.
ApplyTakes(j) ==
  /\ apply = Idle /\ outbox[j] = "PENDING"
  /\ apply' = [job |-> j, stage |-> "read", seen |-> None]
  /\ UNCHANGED <<jobVars, outboxVars, keepaVars, late, workerVars, history>>

\* A job reopened meanwhile, a payload that decides nothing and a KEEPA_VERIFY
\* first look are skipped.
Decides(j) ==
  /\ status[j] = "COMPLETED" /\ payload[j] \notin {None, "unclear"}
  /\ ~(Keepa /\ kind[j] = "FIRST")

ApplyReads ==
  /\ apply.stage = "read"
  /\ IF Decides(apply.job)
     THEN apply' = [apply EXCEPT !.stage = "gate", !.seen = payload[apply.job]]
     ELSE GoTo("done")
  /\ UNCHANGED <<jobVars, outboxVars, keepaVars, late, workerVars, history>>

\* evaluateScanApplyMutationGate.  Whether a listing would change is up to the
\* listings: a changing reading need not change one that already agrees.
ApplyGatesFirst ==
  /\ apply.stage = "gate" /\ kind[apply.job] = "FIRST"
  /\ \/ apply.seen \in Changing /\ GoTo("confirm")
     \/ GoTo("done")
  /\ UNCHANGED <<jobVars, outboxVars, keepaVars, late, workerVars, history>>

HasParent(j) == parent[j] # NoJob /\ status[parent[j]] = "COMPLETED"
\* Mutant: the two readings need not agree.
MatchesAny(j) == HasParent(j)
Matches(j)   == payload[parent[j]] = apply.seen

\* Either reading may be older than amazonScanConfirmMaxAgeMs.
ApplySkips ==
  /\ apply.stage = "gate" /\ kind[apply.job] = "SECOND"
  /\ GoTo("done")
  /\ UNCHANGED <<jobVars, outboxVars, keepaVars, late, workerVars, history>>

ApplyGatesSecond ==
  /\ apply.stage = "gate" /\ kind[apply.job] = "SECOND"
  /\ HasParent(apply.job)
  /\ \/ ~Matches(apply.job) /\ GoTo("conflict")
     \/ Matches(apply.job) /\ apply.seen \in Changing /\ GoTo("mutate")
     \/ Matches(apply.job) /\ GoTo("match")
  /\ UNCHANGED <<jobVars, outboxVars, keepaVars, late, workerVars, history>>

\* enqueueScanJob: a second look may be active already, or too many pending.
ApplyConfirms ==
  /\ apply.stage = "confirm" /\ GoTo("done")
  /\ \/ \E j \in Jobs : Insert(j, "SECOND", apply.job)
     \/ UNCHANGED jobVars
  /\ UNCHANGED <<outboxVars, keepaVars, late, workerVars, history>>

\* applyConfirmedNoValidSource, applyAcceptedSourcePrice
ApplyMutates ==
  /\ apply.stage = "mutate" /\ GoTo("match")
  /\ mutated' = mutated \cup {apply.job}
  /\ UNCHANGED <<jobVars, outboxVars, keepaVars, late, workerVars, claims,
                 readings, losses>>

\* markKeepaVerifyCandidateStatus; RETRYABLE leaves a candidate open.
ApplyMarks ==
  /\ apply.stage \in {"match", "conflict"} /\ GoTo("done")
  /\ candidate' = IF Keepa /\ candidate = "OPEN"
                  THEN IF apply.stage = "match" THEN "MATCHED" ELSE "CONFLICT"
                  ELSE candidate
  /\ UNCHANGED <<jobVars, outboxVars, feeding, late, workerVars, history>>

ApplyDone ==
  /\ apply.stage = "done" /\ apply' = Idle
  /\ outbox' = [outbox EXCEPT ![apply.job] = "DONE"]
  /\ UNCHANGED <<jobVars, tries, keepaVars, late, workerVars, history>>

\* Anything may throw: markApplyOutboxRetry
ApplyThrows ==
  /\ Loses /\ apply # Idle /\ apply' = Idle
  /\ tries' = [tries EXCEPT ![apply.job] = @ + 1]
  /\ outbox' = [outbox EXCEPT ![apply.job] =
                  IF tries[apply.job] + 1 >= MaxTries THEN "FAILED"
                  ELSE "PENDING"]
  /\ UNCHANGED <<jobVars, keepaVars, late, workerVars, past>>

Applies ==
  \/ ApplyReads \/ ApplyGatesFirst \/ ApplyGatesSecond \/ ApplySkips
  \/ ApplyConfirms \/ ApplyMutates \/ ApplyMarks \/ ApplyDone

-----------------------------------------------------------------------------
(* Time, losses and crashes.                                               *)

LeaseExpires(j) ==
  /\ lease[j] = "live"
  /\ lease' = [lease EXCEPT ![j] = "expired"]
  /\ UNCHANGED <<status, kind, parent, owner, token, attempts, payload,
                 outboxVars, keepaVars, apply, late, workerVars, history>>

RequestFails(w) ==
  /\ Loses /\ request[w] # None
  /\ Hears(w, "error") /\ Abandon({request[w]})
  /\ UNCHANGED <<jobVars, outboxVars, keepaVars, apply, renewal, past>>

\* A request is lost, or the API process restarts under its handler, or a
\* recovery stops at an error.
Dropped(m) ==
  /\ Loses /\ late' = late \ {m}
  /\ UNCHANGED <<jobVars, outboxVars, keepaVars, apply, workerVars, past>>

WorkerCrash(w) ==
  /\ Loses /\ Rest(w)
  /\ todo' = [todo EXCEPT ![w] = {}]
  /\ acked' = [acked EXCEPT ![w] = {}]
  /\ request' = [request EXCEPT ![w] = None]
  /\ renewal' = [renewal EXCEPT ![w] = None]
  /\ Abandon(Unanswered({request[w], renewal[w]}))
  /\ UNCHANGED <<jobVars, outboxVars, keepaVars, apply, saved, past>>

\* The API process restarts: its tick and its feeder start anew.
Restart ==
  /\ Loses /\ (apply # Idle \/ feeding)
  /\ apply' = Idle /\ feeding' = FALSE
  /\ UNCHANGED <<jobVars, outboxVars, candidate, late, workerVars, past>>

Fails == \/ \E w \in Workers : RequestFails(w) \/ WorkerCrash(w)
         \/ \E m \in late : Dropped(m)
         \/ ApplyThrows \/ Restart

Next ==
  \/ \E j \in Jobs : PlannerEnqueues(j) \/ LeaseExpires(j) \/ ApplyTakes(j)
  \/ FeederSelects \/ FeederEnqueues \/ Recovers
  \/ \E m \in Requests : Handle(m)
  \/ \E m \in late \cup Renewals : Renew(m)
  \/ \E w \in Workers : \/ WorkerStep(w) \/ RenewSends(w)
                        \/ RenewRefused(w) \/ RenewFails(w)
  \/ Applies \/ Fails

Spec == Init /\ [][Next]_vars

(* The loops and intervals of workers, feeder, processor and heartbeats    *)
(* run, handlers and statements end and leases expire; crashes and losses  *)
(* are finitely many (MaxLosses).                                          *)
Fairness ==
  /\ \A w \in Workers :
       WF_vars(WorkerStep(w) \/ (request[w] # None /\ Handle(request[w])))
  /\ WF_vars(\E m \in late : Claim(m) \/ Running(m) \/ Result(m) \/ Renew(m))
  /\ WF_vars(\E m \in late : FailRefused(m) \/ FailReads(m))
  /\ WF_vars(\E m \in late : FailWrites(m) \/ FailThrows(m))
  /\ WF_vars(Recovers) /\ WF_vars(FeederSelects \/ FeederEnqueues)
  /\ WF_vars(Applies \/ \E j \in Jobs : ApplyTakes(j))
  /\ WF_vars(\E j \in Jobs : LeaseExpires(j))

FairSpec == Spec /\ Fairness

-----------------------------------------------------------------------------
(* Properties.                                                             *)

(* eBay is called for a job only when two workers have read the same       *)
(* change of the product, one for the job and one, of the other kind, for  *)
(* its parent: whatever is lost, repeated, expired or reopened, a single   *)
(* reading never changes a listing.                                        *)
MutationIsConfirmed ==
  \A j \in mutated :
    \E v \in First, w \in Second, s \in Changing :
      <<parent[j], v, s>> \in readings /\ <<j, w, s>> \in readings

(* A claim is charged one attempt at most, although the worker's own fail, *)
(* its copy in the local outbox and the recovery of a heartbeat may all    *)
(* report it, each reading and writing in two statements; so a job that    *)
(* FAILED was claimed MaxAttempts times.                                   *)
ChargedOncePerClaim ==
  \A j \in Jobs :
    /\ attempts[j] <= claims[j]
    /\ status[j] = "FAILED" => MaxAttempts <= claims[j]

\* No claim is left, or no id, and every job has ended.
Spent == \/ TotalClaims = MaxClaims
         \/ \A j \in Jobs : status[j] \notin Active \cup {"ABSENT"}

(* A Keepa candidate is settled in the end, although the second look is    *)
(* enqueued after the commit of the first and a reopened job is not        *)
(* applied: the feeder starts a new chain, until the bounds of the model   *)
(* are spent.                                                              *)
CandidateSettles == candidate = "OPEN" ~> candidate # "OPEN" \/ Spent

(* What a worker wrote to its local outbox is delivered or refused.        *)
SavedIsDelivered == \A w \in Workers : saved[w] # {} ~> saved[w] = {}

=============================================================================
