--------------------------- MODULE OxylabsVerify ---------------------------
(***************************************************************************)
(* The paid product verification of modules/oxylabsVerify: the scan jobs   *)
(* on the server (PostgreSQL), the reservations that cap the paid calls,   *)
(* and the one remote worker of deploy/oxylabs-worker with its durable     *)
(* SQLite ledger.  The worker claims a job over HTTP, records CALL_STARTED,*)
(* calls the provider (which costs money), saves the response and submits  *)
(* a result or a failure.  Requests and replies are lost or delayed, leases*)
(* expire, the worker and the server crash, and the browser-scan heartbeat *)
(* of modules/amazonScan recovers expired jobs of every kind.              *)
(***************************************************************************)
EXTENDS Naturals, FiniteSets

CONSTANTS
  Jobs,             \* rows of amazon_scan_jobs, kind OXYLABS_PRODUCT_PRIMARY
  Tokens,           \* values of lease_token (24 random bytes)
  NoJob, NoToken,   \* SQL NULL
  Cap,              \* canaryMaxSuccessResults, or monthlyResultLimit
  PaidMode,         \* planMode = "paid": reservations are counted per cycle
  MaxAttempts,      \* AMAZON_SCAN_MAX_ATTEMPTS
  BrowserRecovery,  \* some browser-scan worker sends heartbeats
  LedgerFaults,     \* the ledger write that saves a response may throw
  MaxDelayed        \* bound: requests still under way that nobody awaits

ASSUME JobsAssumption == IsFiniteSet(Jobs) /\ NoJob \notin Jobs
ASSUME TokensAssumption == NoToken \notin Tokens
ASSUME CapAssumption == Cap \in Nat
ASSUME AttemptsAssumption == MaxAttempts \in Nat \ {0}
ASSUME SwitchAssumption ==
  /\ PaidMode \in BOOLEAN
  /\ BrowserRecovery \in BOOLEAN
  /\ LedgerFaults \in BOOLEAN
ASSUME DelayAssumption == MaxDelayed \in Nat

VARIABLES
  \* amazon_scan_jobs, by column
  status, owned, leaseToken, lease, attemptCount,
  \* oxylabs_verify_call_reservations: all rows, and those of this cycle
  reserved, cycleReserved,
  \* amazon_scan_apply_outbox (the payload) and success_result_count
  outbox, successes,
  \* server code in progress: open claim transactions, recovery of one row
  claims, recovery,
  \* HTTP: the request the worker awaits, and those it gave up on
  request, delayed,
  \* the worker process
  pc, job, token, expiredRecovery, outcome, todo, ownedCalls,
  \* the ledger of the worker, by column
  callState, ledgerToken, response, failCode, resultSubmitted, failSubmitted,
  \* history: provider calls made for each job
  calls

jobVars     == <<status, owned, leaseToken, lease, attemptCount>>
reserveVars == <<reserved, cycleReserved>>
resultVars  == <<outbox, successes>>
serverVars  == <<claims, recovery>>
netVars     == <<request, delayed>>
procVars    == <<pc, job, token, expiredRecovery, outcome, todo, ownedCalls>>
ledgerVars  == <<callState, ledgerToken, response, failCode, resultSubmitted,
                 failSubmitted>>
vars == <<jobVars, reserveVars, resultVars, serverVars, netVars, procVars,
          ledgerVars, calls>>
dbVars == <<jobVars, reserveVars, resultVars, serverVars>>

Held    == {"CLAIMED", "RUNNING"}
Waiting == {"PENDING", "RETRYABLE", "WAITING_FOR_WORKER"}
ACTIVE  == Held \cup Waiting
Statuses == ACTIVE \cup {"ABSENT", "ENQUEUING", "COMPLETED", "FAILED"}
Leases  == {"null", "live", "expired"}
Bodies  == {"OK", "REJECT"}               \* what the provider answered
FailCodes == {"CREDENTIAL_REJECT", "CALL_OUTCOME_UNKNOWN"}
CallStates == {"none", "NEW", "CALL_STARTED", "CALL_OUTCOME_UNKNOWN", "SAVED",
               "RESULT_SUBMITTED", "FAIL_SUBMITTED"}

ClaimRequest == [kind |-> "claim", job |-> NoJob, token |-> NoToken,
                 body |-> "none"]
NoRequest    == [kind |-> "none", job |-> NoJob, token |-> NoToken,
                 body |-> "none"]
Submits == [kind : {"result"}, job : Jobs, token : Tokens, body : Bodies]
             \cup [kind : {"fail"}, job : Jobs, token : Tokens,
                   body : FailCodes]
Idle == [pc |-> "idle", job |-> NoJob, token |-> NoToken, attempt |-> 0]

JobsTypeOK ==
  /\ status \in [Jobs -> Statuses]
  /\ owned \in [Jobs -> BOOLEAN]
  /\ leaseToken \in [Jobs -> Tokens \cup {NoToken}]
  /\ lease \in [Jobs -> Leases]
  /\ attemptCount \in [Jobs -> Nat]

ServerTypeOK ==
  /\ reserved \subseteq Jobs /\ cycleReserved \subseteq reserved
  /\ outbox \in [Jobs -> Bodies \cup {"none"}]
  /\ successes \in Nat
  /\ claims \subseteq [job : Jobs, token : Tokens, live : BOOLEAN]
  /\ recovery \in [pc : {"idle", "selected", "read"},
                   job : Jobs \cup {NoJob},
                   token : Tokens \cup {NoToken},
                   attempt : Nat]
  /\ recovery.pc # "idle" => recovery.job \in Jobs

NetTypeOK ==
  /\ request \in Submits \cup {ClaimRequest, NoRequest}
  /\ delayed \subseteq Submits \cup {ClaimRequest}

WorkerTypeOK ==
  /\ pc \in {"idle", "claiming", "ensure", "decide", "calling", "called",
             "rejecting", "sent", "snapshot", "drain", "drainSent"}
  /\ job \in Jobs \cup {NoJob}
  /\ token \in Tokens \cup {NoToken}
  /\ expiredRecovery \in BOOLEAN
  /\ outcome \in Bodies \cup {"none", "ERROR"}
  /\ todo \subseteq Jobs
  /\ ownedCalls \subseteq Jobs

LedgerTypeOK ==
  /\ callState \in [Jobs -> CallStates]
  /\ ledgerToken \in [Jobs -> Tokens \cup {NoToken}]
  /\ response \in [Jobs -> Bodies \cup {"none"}]
  /\ failCode \in [Jobs -> FailCodes \cup {"none"}]
  /\ resultSubmitted \in [Jobs -> BOOLEAN]
  /\ failSubmitted \in [Jobs -> BOOLEAN]
  /\ calls \in [Jobs -> Nat]

TypeOK == /\ JobsTypeOK /\ ServerTypeOK /\ NetTypeOK
          /\ WorkerTypeOK /\ LedgerTypeOK

Init ==
  /\ status = [j \in Jobs |-> "ABSENT"]
  /\ owned = [j \in Jobs |-> FALSE]
  /\ leaseToken = [j \in Jobs |-> NoToken]
  /\ lease = [j \in Jobs |-> "null"]
  /\ attemptCount = [j \in Jobs |-> 0]
  /\ reserved = {} /\ cycleReserved = {}
  /\ outbox = [j \in Jobs |-> "none"]
  /\ successes = 0
  /\ claims = {} /\ recovery = Idle
  /\ request = NoRequest /\ delayed = {}
  /\ pc = "idle" /\ job = NoJob /\ token = NoToken
  /\ expiredRecovery = FALSE /\ outcome = "none"
  /\ todo = {} /\ ownedCalls = {}
  /\ callState = [j \in Jobs |-> "none"]
  /\ ledgerToken = [j \in Jobs |-> NoToken]
  /\ response = [j \in Jobs |-> "none"]
  /\ failCode = [j \in Jobs |-> "none"]
  /\ resultSubmitted = [j \in Jobs |-> FALSE]
  /\ failSubmitted = [j \in Jobs |-> FALSE]
  /\ calls = [j \in Jobs |-> 0]

-----------------------------------------------------------------------------
(* Enqueue: the plan check and the INSERT are two statements.              *)

Unreserved == {j \in Jobs : status[j] \in ACTIVE /\ j \notin reserved}

HasRemaining == Cardinality(cycleReserved) + Cardinality(Unreserved) < Cap

EnqueueCheck(j) ==
  /\ status[j] = "ABSENT"
  /\ HasRemaining
  /\ status' = [status EXCEPT ![j] = "ENQUEUING"]
  /\ UNCHANGED <<owned, leaseToken, lease, attemptCount, reserveVars,
                 resultVars, serverVars, netVars, procVars, ledgerVars, calls>>

EnqueueInsert(j) ==
  /\ status[j] = "ENQUEUING"
  /\ status' = [status EXCEPT ![j] = "PENDING"]
  /\ UNCHANGED <<owned, leaseToken, lease, attemptCount, reserveVars,
                 resultVars, serverVars, netVars, procVars, ledgerVars, calls>>

(* A new billing cycle: the window of the count moves past every row.  A   *)
(* claim counts in the cycle in which its transaction began, and stamps    *)
(* its reservation with it, so an open one is taken to end before.         *)
NewCycle ==
  /\ PaidMode /\ cycleReserved # {} /\ claims = {}
  /\ cycleReserved' = {}
  /\ UNCHANGED <<jobVars, reserved, resultVars, serverVars, netVars, procVars,
                 ledgerVars, calls>>

LeaseExpires(j) ==
  /\ lease[j] = "live"
  /\ lease' = [lease EXCEPT ![j] = "expired"]
  /\ UNCHANGED <<status, owned, leaseToken, attemptCount, reserveVars,
                 resultVars, serverVars, netVars, procVars, ledgerVars, calls>>

-----------------------------------------------------------------------------
(* Requests and replies.  A request is handled at most once; the reply of  *)
(* one that the worker still awaits may be lost, any other has no reader.  *)

Take(r, live) ==
  /\ IF live THEN request = r ELSE r \in delayed
  /\ request' = IF live THEN NoRequest ELSE request
  /\ delayed' = IF live THEN delayed ELSE delayed \ {r}

Forget == /\ job' = NoJob /\ token' = NoToken
          /\ expiredRecovery' = FALSE /\ outcome' = "none"

ReplyJob(live, j, t, expired) ==
  \/ /\ live
     /\ pc' = "ensure" /\ job' = j /\ token' = t
     /\ expiredRecovery' = expired
     /\ UNCHANGED <<outcome, todo, ownedCalls>>
  \/ UNCHANGED procVars

ReplyNoJob(live) ==
  \/ live /\ pc' = "snapshot"
       /\ UNCHANGED <<job, token, expiredRecovery, outcome, todo, ownedCalls>>
  \/ UNCHANGED procVars

AfterSubmit == IF pc = "drainSent" THEN "drain" ELSE "snapshot"

(* 2xx and 409 both count as acknowledged.                                 *)
AckResult(live, j) ==
  \/ /\ live
     /\ resultSubmitted' = [resultSubmitted EXCEPT ![j] = TRUE]
     /\ callState' = [callState EXCEPT ![j] = "RESULT_SUBMITTED"]
     /\ pc' = AfterSubmit
     /\ UNCHANGED <<job, token, expiredRecovery, outcome, todo, ownedCalls,
                    ledgerToken, response, failCode, failSubmitted>>
  \/ UNCHANGED <<procVars, ledgerVars>>

AckFail(live, j) ==
  \/ /\ live
     /\ failSubmitted' = [failSubmitted EXCEPT ![j] = TRUE]
     /\ callState' = [callState EXCEPT ![j] = "FAIL_SUBMITTED"]
     /\ pc' = AfterSubmit
     /\ UNCHANGED <<job, token, expiredRecovery, outcome, todo, ownedCalls,
                    ledgerToken, response, failCode, resultSubmitted>>
  \/ UNCHANGED <<procVars, ledgerVars>>

-----------------------------------------------------------------------------
(* POST /claim-next.  Choosing the row and reserving the call are steps of *)
(* one transaction that holds the row's lock, so others may run between.   *)

Busy == \E j \in Jobs : owned[j] /\ status[j] \in Held /\ lease[j] = "live"

ExpiredOwned(j) == owned[j] /\ status[j] \in Held /\ lease[j] # "live"

Locked(j) == \E c \in claims : c.job = j

UnderCap(j) == j \in reserved \/ Cardinality(cycleReserved) < Cap

Candidate(j) == /\ status[j] \in Waiting /\ lease[j] # "live"
                /\ ~Locked(j) /\ UnderCap(j)

(* A lease token is only ever compared with another one of the same job,   *)
(* for equality: any value that nobody still holds for the job is as good  *)
(* as 24 random bytes.                                                     *)
TokensOf(j) ==
  {leaseToken[j], ledgerToken[j]}
    \cup {r.token : r \in {q \in delayed \cup {request} : q.job = j}}
    \cup {c.token : c \in {d \in claims : d.job = j}}
    \cup (IF job = j THEN {token} ELSE {})
    \cup (IF recovery.job = j THEN {recovery.token} ELSE {})

Fresh(j, t) == /\ t \notin TokensOf(j)
               /\ t = CHOOSE u \in Tokens : u \notin TokensOf(j)

ClaimNothing(live) ==
  /\ Take(ClaimRequest, live)
  /\ \/ Busy
     \/ \A j \in Jobs : ~ExpiredOwned(j) /\ ~Candidate(j)
  /\ ReplyNoJob(live)
  /\ UNCHANGED <<dbVars, ledgerVars, calls>>

ClaimExpired(live, j, t) ==
  /\ Take(ClaimRequest, live)
  /\ ~Busy /\ ExpiredOwned(j) /\ Fresh(j, t)
  /\ status' = [status EXCEPT ![j] = "CLAIMED"]
  /\ leaseToken' = [leaseToken EXCEPT ![j] = t]
  /\ lease' = [lease EXCEPT ![j] = "live"]
  /\ ReplyJob(live, j, t, TRUE)
  /\ UNCHANGED <<owned, attemptCount, reserveVars, resultVars, serverVars,
                 ledgerVars, calls>>

ClaimCandidate(live, j, t) ==
  /\ Take(ClaimRequest, live)
  /\ ~Busy /\ \A k \in Jobs : ~ExpiredOwned(k)
  /\ Candidate(j) /\ Fresh(j, t)
  /\ claims' = claims \cup {[job |-> j, token |-> t, live |-> live]}
  /\ UNCHANGED <<jobVars, reserveVars, resultVars, recovery, procVars,
                 ledgerVars, calls>>

(* reserveOxylabsProviderCall under the canary row's lock, then COMMIT.    *)
SlotFreeUnchecked(j) == TRUE            \* mutant: trusts the count of the SELECT
SlotFree(j) == UnderCap(j)

ReserveNothing(j) == UNCHANGED reserveVars          \* mutant: no INSERT
ReserveCountOnly(j) ==                    \* mutant: counted, but no row kept
  cycleReserved' = cycleReserved \cup {j} /\ UNCHANGED reserved
Reserve(j) ==
  /\ reserved' = reserved \cup {j}
  /\ cycleReserved' = IF j \in reserved THEN cycleReserved
                      ELSE cycleReserved \cup {j}

ClaimReserved(c) ==
  /\ c \in claims /\ SlotFree(c.job)
  /\ claims' = claims \ {c}
  /\ Reserve(c.job)
  /\ status' = [status EXCEPT ![c.job] = "CLAIMED"]
  /\ owned' = [owned EXCEPT ![c.job] = TRUE]
  /\ leaseToken' = [leaseToken EXCEPT ![c.job] = c.token]
  /\ lease' = [lease EXCEPT ![c.job] = "live"]
  /\ ReplyJob(c.live, c.job, c.token, FALSE)
  /\ UNCHANGED <<attemptCount, resultVars, recovery, netVars, ledgerVars,
                 calls>>

ClaimOverCap(c) ==
  /\ c \in claims /\ ~SlotFree(c.job)
  /\ claims' = claims \ {c}
  /\ status' = [status EXCEPT ![c.job] = "PENDING"]
  /\ owned' = [owned EXCEPT ![c.job] = FALSE]
  /\ leaseToken' = [leaseToken EXCEPT ![c.job] = NoToken]
  /\ lease' = [lease EXCEPT ![c.job] = "null"]
  /\ ReplyNoJob(c.live)
  /\ UNCHANGED <<attemptCount, reserveVars, resultVars, recovery, netVars,
                 ledgerVars, calls>>

-----------------------------------------------------------------------------
(* POST /result and POST /fail.                                            *)

HasLease(r) == /\ owned[r.job] /\ leaseToken[r.job] = r.token
               /\ status[r.job] \in Held

InsertOutboxOnReplay(j, body) ==    \* mutant: forgotten in the first answer
  outbox' = IF status[j] = "COMPLETED" THEN [outbox EXCEPT ![j] = body] ELSE outbox
InsertOutbox(j, body) ==
  outbox' = [outbox EXCEPT ![j] = IF @ = "none" THEN body ELSE @]

ResultReplayed(live, r) ==
  /\ Take(r, live) /\ r.kind = "result"
  /\ status[r.job] = "COMPLETED"
  /\ InsertOutbox(r.job, r.body)
  /\ AckResult(live, r.job)
  /\ UNCHANGED <<jobVars, reserveVars, successes, serverVars, calls>>

(* The count is a statement of its own after the COMMIT: a crash between   *)
(* the two loses it, and the reply.                                        *)
ResultCompletes(live, r) ==
  /\ Take(r, live) /\ r.kind = "result"
  /\ HasLease(r) /\ lease[r.job] = "live"
  /\ status' = [status EXCEPT ![r.job] = "COMPLETED"]
  /\ lease' = [lease EXCEPT ![r.job] = "null"]
  /\ InsertOutbox(r.job, r.body)
  /\ \/ /\ successes' = IF PaidMode \/ successes < Cap THEN successes + 1
                         ELSE successes
        /\ AckResult(live, r.job)
     \/ UNCHANGED <<successes, procVars, ledgerVars>>
  /\ UNCHANGED <<owned, leaseToken, attemptCount, reserveVars, serverVars,
                 calls>>

(* 409.  markScanJobRunning ran before and does not look at the expiry.    *)
ResultRefused(live, r) ==
  /\ Take(r, live) /\ r.kind = "result"
  /\ status[r.job] # "COMPLETED"
  /\ ~(HasLease(r) /\ lease[r.job] = "live")
  /\ status' = IF HasLease(r) THEN [status EXCEPT ![r.job] = "RUNNING"]
               ELSE status
  /\ AckResult(live, r.job)
  /\ UNCHANGED <<owned, leaseToken, lease, attemptCount, reserveVars,
                 resultVars, serverVars, calls>>

(* The worker sends terminal codes only; ownership is by worker id.        *)
OwnerAlone(j) == owned[j]                   \* mutant: the status is not checked
MayOwnerTerminalFail(j) == owned[j] /\ status[j] \in Held

FailTerminal(live, r) ==
  /\ Take(r, live) /\ r.kind = "fail"
  /\ MayOwnerTerminalFail(r.job)
  /\ status' = [status EXCEPT ![r.job] = "FAILED"]
  /\ owned' = [owned EXCEPT ![r.job] = FALSE]
  /\ leaseToken' = [leaseToken EXCEPT ![r.job] = NoToken]
  /\ lease' = [lease EXCEPT ![r.job] = "null"]
  /\ AckFail(live, r.job)
  /\ UNCHANGED <<attemptCount, reserveVars, resultVars, serverVars, calls>>

(* COMPLETED, FAILED or STALE_LEASE: nothing changes, and the answer is    *)
(* 200 all the same.                                                       *)
FailIgnored(live, r) ==
  /\ Take(r, live) /\ r.kind = "fail"
  /\ ~MayOwnerTerminalFail(r.job)
  /\ AckFail(live, r.job)
  /\ UNCHANGED <<dbVars, calls>>

-----------------------------------------------------------------------------
(* recoverExpiredRunningScanJobs, run by each browser-scan heartbeat, takes*)
(* rows of every kind: SELECT, then failScanJob's SELECT, then its UPDATE  *)
(* by id alone.                                                            *)

RecoverSelect(j) ==
  /\ BrowserRecovery /\ recovery = Idle
  /\ status[j] \in Held /\ lease[j] = "expired"
  /\ recovery' = [pc |-> "selected", job |-> j, token |-> leaseToken[j],
                  attempt |-> 0]
  /\ UNCHANGED <<jobVars, reserveVars, resultVars, claims, netVars, procVars,
                 ledgerVars, calls>>

RecoverRead ==
  /\ recovery.pc = "selected"
  /\ LET j == recovery.job IN
     recovery' =
       IF status[j] # "COMPLETED" /\ owned[j] /\ leaseToken[j] = recovery.token
       THEN [pc |-> "read", job |-> j, token |-> recovery.token,
             attempt |-> attemptCount[j] + 1]
       ELSE Idle
  /\ UNCHANGED <<jobVars, reserveVars, resultVars, claims, netVars, procVars,
                 ledgerVars, calls>>

RecoverWrite ==
  /\ recovery.pc = "read" /\ ~Locked(recovery.job)
  /\ LET j == recovery.job IN
     /\ status' = [status EXCEPT ![j] =
          IF recovery.attempt >= MaxAttempts THEN "FAILED" ELSE "RETRYABLE"]
     /\ attemptCount' = [attemptCount EXCEPT ![j] = recovery.attempt]
     /\ owned' = [owned EXCEPT ![j] = FALSE]
     /\ leaseToken' = [leaseToken EXCEPT ![j] = NoToken]
     /\ lease' = [lease EXCEPT ![j] = "null"]
  /\ recovery' = Idle
  /\ UNCHANGED <<reserveVars, resultVars, claims, netVars, procVars,
                 ledgerVars, calls>>

(* The API process restarts: open transactions roll back.                  *)
ServerRestart ==
  /\ claims # {} \/ recovery # Idle
  /\ claims' = {} /\ recovery' = Idle
  /\ UNCHANGED <<jobVars, reserveVars, resultVars, netVars, procVars,
                 ledgerVars, calls>>

-----------------------------------------------------------------------------
(* The worker: loop(), processClaimedJob() and drainOutbox().  Its ledger  *)
(* is written synchronously, one row at a time; a crash falls between any  *)
(* two of the steps below.                                                 *)

WorkerLoop ==
  /\ pc = "idle"
  /\ request' = ClaimRequest /\ pc' = "claiming"
  /\ UNCHANGED <<dbVars, delayed, job, token, expiredRecovery, outcome, todo,
                 ownedCalls, ledgerVars, calls>>

(* ensureJobRow: a new row, or the new lease token in the old one.         *)
WorkerEnsureRow ==
  /\ pc = "ensure" /\ pc' = "decide"
  /\ callState' = [callState EXCEPT ![job] = IF @ = "none" THEN "NEW" ELSE @]
  /\ ledgerToken' = [ledgerToken EXCEPT ![job] = token]
  /\ UNCHANGED <<dbVars, netVars, job, token, expiredRecovery, outcome, todo,
                 ownedCalls, response, failCode, resultSubmitted,
                 failSubmitted, calls>>

(* decideReplayAction, and the stricter rule for an expired claim.         *)
Settled(j) == resultSubmitted[j] \/ failSubmitted[j]

NeverAnswered(j) == response[j] = "none" /\ failCode[j] = "none"

ReplayNoop == Settled(job)

ReplayResult == /\ ~Settled(job) /\ response[job] # "none"
                /\ expiredRecovery => failCode[job] = "none"

ReplayFail == /\ ~Settled(job) /\ failCode[job] # "none"
              /\ ~expiredRecovery => response[job] = "none"

ReplayStartExpired == /\ ~Settled(job) /\ NeverAnswered(job)   \* mutant: even if expired
                      /\ callState[job] = "NEW"
ReplayStartCall == /\ ~Settled(job) /\ NeverAnswered(job) /\ ~expiredRecovery
                   /\ callState[job] = "NEW"

ReplayAnyCall == /\ ~Settled(job) /\ NeverAnswered(job)    \* mutant: whoever started it
                 /\ ~expiredRecovery /\ callState[job] = "CALL_STARTED"
ReplayOwnedCall == /\ ~Settled(job) /\ NeverAnswered(job) /\ ~expiredRecovery
                   /\ callState[job] = "CALL_STARTED" /\ job \in ownedCalls

ReplayUnknown ==
  /\ ~Settled(job) /\ NeverAnswered(job)
  /\ expiredRecovery \/ (callState[job] = "CALL_STARTED" /\ job \notin ownedCalls)

SendResult(j) ==
  request' = [kind |-> "result", job |-> j, token |-> ledgerToken[j],
              body |-> response'[j]]

SendFail(j) ==
  request' = [kind |-> "fail", job |-> j, token |-> ledgerToken[j],
              body |-> failCode'[j]]

DecideNoop ==
  /\ pc = "decide" /\ ReplayNoop
  /\ pc' = "snapshot" /\ Forget
  /\ UNCHANGED <<dbVars, netVars, todo, ownedCalls, ledgerVars, calls>>

DecideResult ==
  /\ pc = "decide" /\ ReplayResult
  /\ pc' = "sent" /\ Forget
  /\ UNCHANGED <<dbVars, delayed, todo, ownedCalls, ledgerVars, calls>>
  /\ SendResult(job)

DecideFail ==
  /\ pc = "decide" /\ ReplayFail
  /\ pc' = "sent" /\ Forget
  /\ UNCHANGED <<dbVars, delayed, todo, ownedCalls, ledgerVars, calls>>
  /\ SendFail(job)

(* markCallUnknown *)
MarkCallUnknown(j) ==
  /\ callState' = [callState EXCEPT ![j] = "CALL_OUTCOME_UNKNOWN"]
  /\ failCode' = [failCode EXCEPT ![j] = "CALL_OUTCOME_UNKNOWN"]
  /\ UNCHANGED <<ledgerToken, response, resultSubmitted, failSubmitted>>

DecideUnknown ==
  /\ pc = "decide" /\ ReplayUnknown
  /\ MarkCallUnknown(job)
  /\ pc' = "sent" /\ Forget
  /\ SendFail(job)
  /\ UNCHANGED <<dbVars, delayed, todo, ownedCalls, calls>>

DecideStartCall ==
  /\ pc = "decide" /\ ReplayStartCall
  /\ callState' = [callState EXCEPT ![job] = "CALL_STARTED"]
  /\ ownedCalls' = ownedCalls \cup {job}
  /\ pc' = "calling"
  /\ UNCHANGED <<dbVars, netVars, job, token, expiredRecovery, outcome, todo,
                 ledgerToken, response, failCode, resultSubmitted,
                 failSubmitted, calls>>

DecideOwnedCall ==
  /\ pc = "decide" /\ ReplayOwnedCall
  /\ pc' = "calling"
  /\ UNCHANGED <<dbVars, netVars, job, token, expiredRecovery, outcome, todo,
                 ownedCalls, ledgerVars, calls>>

(* The provider is called and answers, refuses the credentials, or the     *)
(* call throws; in each case it may have been billed.                      *)
ProviderCall(o) ==
  /\ pc = "calling" /\ pc' = "called"
  /\ outcome' = o
  /\ calls' = [calls EXCEPT ![job] = @ + 1]
  /\ UNCHANGED <<dbVars, netVars, job, token, expiredRecovery, todo,
                 ownedCalls, ledgerVars>>

SaveProviderResponse(j, body) ==
  /\ callState' = [callState EXCEPT ![j] = "SAVED"]
  /\ response' = [response EXCEPT ![j] = body]
  /\ UNCHANGED <<ledgerToken, failCode, resultSubmitted, failSubmitted>>

WorkerSaveResult ==
  /\ pc = "called" /\ outcome = "OK"
  /\ SaveProviderResponse(job, "OK")
  /\ pc' = "sent" /\ Forget
  /\ SendResult(job)
  /\ UNCHANGED <<dbVars, delayed, todo, ownedCalls, calls>>

WorkerNoteReject ==
  /\ pc = "called" /\ outcome = "REJECT" /\ pc' = "rejecting"
  /\ failCode' = [failCode EXCEPT ![job] = "CREDENTIAL_REJECT"]
  /\ UNCHANGED <<dbVars, netVars, job, token, expiredRecovery, outcome, todo,
                 ownedCalls, callState, ledgerToken, response,
                 resultSubmitted, failSubmitted, calls>>

WorkerSaveReject ==
  /\ pc = "rejecting"
  /\ SaveProviderResponse(job, "REJECT")
  /\ pc' = "sent" /\ Forget
  /\ SendFail(job)
  /\ UNCHANGED <<dbVars, delayed, todo, ownedCalls, calls>>

WorkerCallFailed ==
  /\ pc = "called" /\ outcome = "ERROR"
  /\ MarkCallUnknown(job)
  /\ pc' = "sent" /\ Forget
  /\ SendFail(job)
  /\ UNCHANGED <<dbVars, delayed, todo, ownedCalls, calls>>

(* A ledger write after the call throws (disk full): loop() catches it and *)
(* ends, the process and ownedCalls live on.                               *)
WorkerSaveFails ==
  /\ LedgerFaults /\ pc \in {"called", "rejecting"}
  /\ pc' = "idle" /\ Forget
  /\ UNCHANGED <<dbVars, netVars, todo, ownedCalls, ledgerVars, calls>>

(* pendingOutbox *)
PendingFails ==                               \* mutant: saved results left out
  {j \in Jobs : failCode[j] # "none" /\ ~failSubmitted[j] /\ response[j] = "none"}
PendingOutbox ==
  {j \in Jobs : \/ response[j] # "none" /\ ~resultSubmitted[j]
                \/ /\ failCode[j] # "none" /\ ~failSubmitted[j]
                   /\ \/ response[j] = "none"
                      \/ callState[j] = "CALL_OUTCOME_UNKNOWN"}

WorkerSnapshot ==
  /\ pc = "snapshot" /\ pc' = "drain"
  /\ todo' = PendingOutbox
  /\ Forget
  /\ UNCHANGED <<dbVars, netVars, ownedCalls, ledgerVars, calls>>

DrainResult(j) ==
  /\ pc = "drain" /\ j \in todo /\ pc' = "drainSent"
  /\ todo' = todo \ {j}
  /\ response[j] # "none" /\ ~resultSubmitted[j]
  /\ UNCHANGED <<dbVars, delayed, job, token, expiredRecovery, outcome,
                 ownedCalls, ledgerVars, calls>>
  /\ SendResult(j)

DrainFail(j) ==
  /\ pc = "drain" /\ j \in todo /\ pc' = "drainSent"
  /\ todo' = todo \ {j}
  /\ response[j] = "none" \/ resultSubmitted[j]
  /\ failCode[j] # "none" /\ ~failSubmitted[j]
  /\ UNCHANGED <<dbVars, delayed, job, token, expiredRecovery, outcome,
                 ownedCalls, ledgerVars, calls>>
  /\ SendFail(j)

DrainDone ==
  /\ pc = "drain" /\ todo = {} /\ pc' = "idle"
  /\ UNCHANGED <<dbVars, netVars, job, token, expiredRecovery, outcome, todo,
                 ownedCalls, ledgerVars, calls>>

(* What becomes of a request nobody awaits any more: it is lost, or still  *)
(* on its way; a claim being handled goes on without a reader.             *)
Abandon ==
  /\ claims' = {[job |-> c.job, token |-> c.token, live |-> FALSE] : c \in claims}
  /\ request' = NoRequest
  /\ \/ delayed' = delayed
     \/ /\ request # NoRequest /\ Cardinality(delayed) < MaxDelayed
        /\ delayed' = delayed \cup {request}

(* fetch rejects (and the round ends) or answers with another status.      *)
RequestFails ==
  /\ pc \in {"claiming", "sent", "drainSent"}
  /\ \/ pc' = AfterSubmit /\ UNCHANGED todo
     \/ pc' = "idle" /\ todo' = {}
  /\ Abandon
  /\ UNCHANGED <<jobVars, reserveVars, resultVars, recovery, job, token,
                 expiredRecovery, outcome, ownedCalls, ledgerVars, calls>>

WorkerCrash ==
  /\ pc # "idle" \/ ownedCalls # {}
  /\ pc' = "idle" /\ todo' = {} /\ ownedCalls' = {} /\ Forget
  /\ Abandon
  /\ UNCHANGED <<jobVars, reserveVars, resultVars, recovery, ledgerVars, calls>>

-----------------------------------------------------------------------------
ClaimNext ==
  \E live \in BOOLEAN :
    \/ ClaimNothing(live)
    \/ \E j \in Jobs, t \in Tokens :
         ClaimExpired(live, j, t) \/ ClaimCandidate(live, j, t)

ClaimEnd == \E c \in claims : ClaimReserved(c) \/ ClaimOverCap(c)

Handle(live, r) ==
  \/ ResultReplayed(live, r) \/ ResultCompletes(live, r)
  \/ ResultRefused(live, r)  \/ FailTerminal(live, r) \/ FailIgnored(live, r)

HandleSubmit ==
  \/ request.kind \in {"result", "fail"} /\ Handle(TRUE, request)
  \/ \E r \in delayed : r.kind # "claim" /\ Handle(FALSE, r)

Recover == (\E j \in Jobs : RecoverSelect(j)) \/ RecoverRead \/ RecoverWrite

Decide == \/ DecideNoop \/ DecideResult \/ DecideFail \/ DecideUnknown
          \/ DecideStartCall \/ DecideOwnedCall

CallStep == \/ \E o \in Bodies \cup {"ERROR"} : ProviderCall(o)
            \/ WorkerSaveResult \/ WorkerNoteReject \/ WorkerSaveReject
            \/ WorkerCallFailed

Drain == \/ WorkerSnapshot \/ DrainDone
         \/ \E j \in Jobs : DrainResult(j) \/ DrainFail(j)

WorkerStep == WorkerLoop \/ WorkerEnsureRow \/ Decide \/ CallStep \/ Drain

Environment ==
  \/ \E j \in Jobs : EnqueueCheck(j) \/ EnqueueInsert(j) \/ LeaseExpires(j)
  \/ NewCycle \/ ServerRestart \/ RequestFails \/ WorkerCrash
  \/ WorkerSaveFails

Next == ClaimNext \/ ClaimEnd \/ HandleSubmit \/ Recover \/ WorkerStep
          \/ Environment

Spec == Init /\ [][Next]_vars

-----------------------------------------------------------------------------
(* Properties.                                                             *)

(* No job is ever paid for twice, whatever is lost, delayed, expired or    *)
(* restarted (CALL_STARTED and ownedCalls of the ledger).                  *)
AtMostOneCall == \A j \in Jobs : calls[j] <= 1

(* Claims that run at once cannot reserve more calls than the plan allows  *)
(* in a cycle (the recount under the canary row's lock).                   *)
CapRespected == Cardinality(cycleReserved) <= Cap

(* Every paid call was reserved first, and is of a job that the server has *)
(* claimed at some time.                                                   *)
PaidOnlyIfReserved == \A j \in Jobs : calls[j] > 0 => j \in reserved

(* A COMPLETED job always has its result in the apply outbox, and that     *)
(* result is one the provider was paid for.                                *)
CompletedHasPaidResult ==
  \A j \in Jobs : status[j] = "COMPLETED" =>
     outbox[j] # "none" /\ calls[j] > 0

(* A claim handed out as an expired one replays the ledger or gives the    *)
(* outcome up as unknown: it never calls the provider.                     *)
ExpiredClaimNeverPays == [][expiredRecovery => calls' = calls]_vars

(* Without the browser-scan recovery a job that is COMPLETED or FAILED     *)
(* stays so: late results, late failures and new claims do not reopen it.  *)
TerminalIsFinal ==
  [][\A j \in Jobs : status[j] \in {"COMPLETED", "FAILED"} =>
       status'[j] = status[j]]_vars

(* The pipeline pays only as PaidCalls allows.                             *)
Paid == INSTANCE PaidCalls WITH granted <- reserved,
                                used <- Cardinality(cycleReserved),
                                billed <- calls
PaysAsGranted == Paid!PaidSpec

(* Fairness: the interval timer runs the loop, time passes, the server     *)
(* handles what reaches it, a fetch whose answer was lost ends, and from   *)
(* some time on neither side crashes and the network is up.                *)
GivesUp == /\ request = NoRequest /\ \A c \in claims : ~c.live
           /\ RequestFails

Fairness ==
  /\ WF_vars(WorkerStep) /\ WF_vars(GivesUp)
  /\ WF_vars(ClaimNext) /\ WF_vars(ClaimEnd) /\ WF_vars(HandleSubmit)
  /\ \A j \in Jobs : WF_vars(LeaseExpires(j))

(* A claim that finds nothing and one that is lost leave the same state:   *)
(* only the second is ruled out.                                           *)
InTheEndUp ==
  <>[][~(\/ WorkerCrash \/ ServerRestart \/ WorkerSaveFails
         \/ RequestFails /\ ~ClaimNothing(TRUE))]_vars

FairSpec == Spec /\ Fairness /\ InTheEndUp

(* A response that was paid for and saved is submitted in the end.         *)
SavedIsSubmitted ==
  \A j \in Jobs : response[j] # "none" ~> resultSubmitted[j] \/ failSubmitted[j]

(* An expired claim of the worker leads to a decision on the server: the   *)
(* saved result is accepted or the job is failed.                          *)
ExpiredClaimSettles ==
  \A j \in Jobs : ExpiredOwned(j) ~> status[j] \in {"COMPLETED", "FAILED"}
=============================================================================
