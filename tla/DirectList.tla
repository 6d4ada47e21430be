----------------------------- MODULE DirectList -----------------------------
(***************************************************************************)
(* Direct List: ASINs a browser extension captures, one publish job for    *)
(* each captured ASIN, and the live runner that publishes the jobs to      *)
(* eBay.  One capture command of one workspace and store, with its items   *)
(* (extensionCaptureService.ts); the publish commands and jobs it is       *)
(* linked to (scheduledPublishService.ts); the runner's tick               *)
(* (scheduledPublishLiveRunnerService.ts, publishQueueService.ts).         *)
(*                                                                         *)
(* The steps of a handler are its database statements and its calls to     *)
(* eBay: between two of them the other handlers, the runner, and the       *)
(* panel's cancel, pause and resume may run.  A process is a worker, the   *)
(* extension with the request it has open, or a runner, a tick or a call   *)
(* of the panel's run-live-one.  Time is left out: a due time or a lease   *)
(* may pass at any moment.                                                 *)
(***************************************************************************)
EXTENDS Naturals, FiniteSets

CONSTANTS
    Asins,        \* the items of the capture command
    Ready,        \* the ASINs a dispatch may find ready: they have jobs from the start
    Workers,      \* the extension's workers
    Runners,      \* what runs jobs: the tick, and each open call of run-live-one
    None,         \* no ASIN
    MaxAttempts,  \* MAX_CAPTURE_ATTEMPTS
    MaxJobs,      \* a bound on the jobs
    MaxCommands,  \* a bound on the publish commands
    Shifts        \* the settings to explore: the workers that poll, the ASINs found ready,
                  \* and how many faults (lost replies, failed statements, restarts of the
                  \* server) and manual acts of the panel there may be

ASSUME DirectListAssumption ==
    /\ IsFiniteSet(Asins) /\ IsFiniteSet(Ready)
    /\ Asins \cap Ready = {} /\ Workers \cap Runners = {}
    /\ None \notin Asins \cup Ready
    /\ MaxAttempts \in Nat \ {0} /\ MaxCommands \in Nat \ {0}
    /\ MaxJobs \in Nat
    /\ Shifts \subseteq [workers : SUBSET Workers, ready : SUBSET Ready, faults : Nat, acts : Nat]

Jobs     == 1 .. MaxJobs
Commands == 1 .. MaxCommands
Products == Asins \cup Ready
Procs    == Workers \cup Runners

VARIABLES
    capture,  \* the capture command: its status, and the publish command linked to it (0: none)
    item,     \* its items
    job,      \* scheduled_publish_jobs
    pub,      \* the status of each of scheduled_publish_commands
    flows,    \* how often eBay accepted to publish an ASIN
    listed,   \* the ASINs whose pool row says listed
    catalog,  \* the ASINs with a live row of store_catalog_state
    at,       \* where each worker and runner is
    admin,    \* where the panel's manual action is
    lost,     \* the jobs whose outcome nobody is left to report (a history)
    shift,    \* the setting of this behaviour
    faults, acts  \* what is left of them

rows  == <<capture, item, job, pub>>
shops == <<flows, listed, catalog>>
vars  == <<capture, item, job, pub, flows, listed, catalog, at, admin, lost, shift, faults, acts>>

Uncaptured == {"capture_pending", "capturing"}
EndedJob   == {"published", "failed", "skipped", "cancelled"}

\* Every reader treats capture_blocked as it treats extract_failed: the latter
\* stands for both.  A captured product always has its pool row
\* (productExtractorService.ts), so no item ends as `captured`.
ItemStatuses == Uncaptured \cup {"queued_for_publish", "published", "failed",
                                 "skipped_duplicate", "extract_failed"}

Idle == [pc |-> "idle", asin |-> None, job |-> 0, cmd |-> 0,
         says |-> "none", verdict |-> "none", caught |-> FALSE]
Away == [Idle EXCEPT !.pc = "away"]

AtRest == [pc |-> "idle", cmd |-> 0, was |-> "none"]

Goto(p, to)       == at' = [at EXCEPT ![p].pc = to]
Says(p, to, word) == at' = [at EXCEPT ![p].pc = to, ![p].says = word]
Decides(p, to, word) == at' = [at EXCEPT ![p].pc = to, ![p].verdict = word]
Leaves(p)         == at' = [at EXCEPT ![p] = Idle]

NoJob == [asin |-> None, cmd |-> 0, status |-> "none"]
NewJob(a, c) == [asin |-> a, cmd |-> c, status |-> "scheduled"]
NextJob == {j \in Jobs : job[j] = NoJob /\ \A k \in 1 .. (j - 1) : job[k] # NoJob}
NextCommand == {c \in Commands : pub[c] = "none" /\ \A d \in 1 .. (c - 1) : pub[d] # "none"}
JobsOf(c) == {j \in Jobs : job[j].cmd = c /\ job[j].status # "none"}

(***************************************************************************)
(* The extension's requests.                                               *)
(***************************************************************************)
Leased == {a \in Asins : item[a].status = "capturing" /\ item[a].leased}

\* What a claim does first: items with no attempt left end, and those whose
\* lease is over are pending again.
Swept(a, over) ==
    IF item[a].status \in Uncaptured /\ item[a].tries >= MaxAttempts
    THEN [item[a] EXCEPT !.status = "extract_failed", !.leased = FALSE]
    ELSE IF a \in over
         THEN [item[a] EXCEPT !.status = "capture_pending", !.leased = FALSE]
         ELSE item[a]

ClaimableStatuses == {"queued", "capturing", "publishing"}

\* The claim reads the command's status, and writes it without a condition: a
\* cancel that commits its first statement in between is overwritten.
CommandClaimable ==
    \/ capture.status \in ClaimableStatuses
    \/ admin.pc = "cancelItems" /\ admin.was \in ClaimableStatuses

\* mutant: an item marked as capturing is never taken up
PendingCandidates(over) ==
    IF CommandClaimable
    THEN {a \in Asins : Swept(a, over).status = "capture_pending"} ELSE {}

Candidates(over) ==
    IF CommandClaimable
    THEN {a \in Asins : LET i == Swept(a, over) IN
             /\ i.status \in Uncaptured /\ i.tries < MaxAttempts
             /\ ~i.leased}
    ELSE {}

ClaimItem(w, over) ==
    /\ at[w].pc = "idle"
    /\ \E a \in Candidates(over) :
         /\ item' = [b \in Asins |->
                IF b = a THEN [item[a] EXCEPT !.status = "capturing", !.leased = TRUE,
                                              !.tries = @ + 1]
                ELSE Swept(b, over)]
         /\ at' = [at EXCEPT ![w].pc = "visiting", ![w].asin = a]
    /\ capture' = [capture EXCEPT !.status = "capturing"]
    /\ UNCHANGED <<job, pub, shops, admin, lost, shift, faults, acts>>

ClaimNothing(w, over) ==
    /\ at[w].pc = "idle"
    /\ Candidates(over) = {}
    /\ item' = [a \in Asins |-> Swept(a, over)]
    /\ UNCHANGED <<capture, job, pub, shops, at, admin, lost, shift, faults, acts>>

\* The worker closes the page and reports nothing.
GiveUp(w) ==
    /\ at[w].pc = "visiting"
    /\ Leaves(w)
    /\ UNCHANGED <<rows, shops, admin, lost, shift, faults, acts>>

\* Neither the worker nor its lease is looked at: only the two statuses are.
Refused(a) == capture.status = "cancelled" \/ item[a].status \in {"queued_for_publish", "published"}

SubmitRefused(w) ==
    /\ at[w].pc = "visiting" /\ Refused(at[w].asin)
    /\ Leaves(w)
    /\ UNCHANGED <<rows, shops, admin, lost, shift, faults, acts>>

\* A wrong or blocked page, a product the extractor refuses, or one it takes.  A
\* captcha is a failure the worker may retry: Fail.
Submit(w) ==
    /\ at[w].pc = "visiting" /\ ~Refused(at[w].asin)
    /\ \/ Says(w, "writing", "extract_failed")
       \/ Goto(w, "extracting")
    /\ UNCHANGED <<rows, shops, admin, lost, shift, faults, acts>>

\* An item whose job was `failed` or `skipped_duplicate` is not ended here.
Fail(w) ==
    LET a == at[w].asin IN
    /\ at[w].pc = "visiting"
    /\ IF item[a].status \in {"queued_for_publish", "published", "extract_failed"}
       THEN Leaves(w)
       ELSE \/ item[a].tries < MaxAttempts /\ Says(w, "writing", "capture_pending")
            \/ Says(w, "writing", "extract_failed")
    /\ UNCHANGED <<rows, shops, admin, lost, shift, faults, acts>>

WriteItem(w) ==
    LET a == at[w].asin IN
    /\ at[w].pc = "writing"
    /\ item' = [item EXCEPT ![a].status = at[w].says, ![a].leased = FALSE]
    /\ Says(w, "refreshing", "none")
    /\ UNCHANGED <<capture, job, pub, shops, admin, lost, shift, faults, acts>>

\* The extractor's upsert makes the pool row ready again, whatever it was.
Extract(w) ==
    /\ at[w].pc = "extracting"
    /\ listed' = listed \ {at[w].asin}
    /\ Goto(w, "appending")
    /\ UNCHANGED <<rows, flows, catalog, admin, lost, shift, faults, acts>>

\* Not Prime, out of stock or limited: capture_blocked.
AvailabilityBlocks(w) ==
    /\ at[w].pc = "appending"
    /\ Says(w, "writing", "extract_failed")
    /\ UNCHANGED <<rows, shops, admin, lost, shift, faults, acts>>

ReadLink(w) ==
    /\ at[w].pc = "appending"
    /\ at' = [at EXCEPT ![w].pc = IF capture.link = 0 THEN "creating" ELSE "looking",
                        ![w].cmd = capture.link]
    /\ UNCHANGED <<rows, shops, admin, lost, shift, faults, acts>>

CreateCommand(w) ==
    /\ at[w].pc = "creating"
    /\ \E c \in NextCommand, j \in NextJob :
         /\ pub' = [pub EXCEPT ![c] = "scheduled"]
         /\ job' = [job EXCEPT ![j] = NewJob(at[w].asin, c)]
         /\ capture' = [status |-> "publishing", link |-> c]
         /\ at' = [at EXCEPT ![w].pc = "counting", ![w].job = j, ![w].cmd = c]
    /\ UNCHANGED <<item, shops, admin, lost, shift, faults, acts>>

Twins(w) == {j \in JobsOf(at[w].cmd) : /\ job[j].asin = at[w].asin
                                       /\ job[j].status \notin {"cancelled", "failed"}}

FindTwin(w) ==
    /\ at[w].pc = "looking"
    /\ IF Twins(w) = {} THEN Goto(w, "inserting")
       ELSE \E j \in Twins(w) : at' = [at EXCEPT ![w].pc = "linking", ![w].job = j]
    /\ UNCHANGED <<rows, shops, admin, lost, shift, faults, acts>>

InsertJob(w) ==
    /\ at[w].pc = "inserting"
    /\ \E j \in NextJob :
         /\ job' = [job EXCEPT ![j] = NewJob(at[w].asin, at[w].cmd)]
         /\ at' = [at EXCEPT ![w].pc = "counting", ![w].job = j]
    /\ UNCHANGED <<capture, item, pub, shops, admin, lost, shift, faults, acts>>

\* The runner that holds job j has still to tell the items.
WillReport(j) == \E r \in Runners :
    at[r].job = j /\ at[r].pc \notin {"refreshing", "marking"}

\* The item's row is written without a condition, after the job exists.
LinkItem(w) ==
    LET a == at[w].asin  j == at[w].job IN
    /\ at[w].pc = "linking"
    /\ item' = [item EXCEPT ![a] = [@ EXCEPT !.status = "queued_for_publish", !.pool = TRUE,
                                             !.job = j, !.leased = FALSE]]
    /\ lost' = IF job[j].status \in EndedJob /\ ~WillReport(j) THEN lost \cup {j} ELSE lost
    /\ at' = [at EXCEPT ![w].pc = "refreshing", ![w].job = 0, ![w].cmd = 0]
    /\ UNCHANGED <<capture, job, pub, shops, admin, shift, faults, acts>>

(***************************************************************************)
(* finalizeCommandProgress and refreshCommandCounts, as each handler and   *)
(* the runner call them: what they read, then what they write.             *)
(***************************************************************************)
CountJobs(p) ==
    LET c == at[p].cmd  statuses == {job[j].status : j \in JobsOf(c)} IN
    /\ at[p].pc = "counting"
    /\ Decides(p, "counting captures",
               IF ~(statuses \subseteq EndedJob) THEN "running"
               ELSE IF "failed" \in statuses THEN "failed" ELSE "completed")
    /\ UNCHANGED <<rows, shops, admin, lost, shift, faults, acts>>

CapturesWait(c) == capture.link = c /\ \E a \in Asins : item[a].status \in Uncaptured

CountCaptures(p) ==
    /\ at[p].pc = "counting captures"
    /\ Decides(p, "settling", IF CapturesWait(at[p].cmd) THEN "running" ELSE at[p].verdict)
    /\ UNCHANGED <<rows, shops, admin, lost, shift, faults, acts>>

SettleCommand(p) ==
    LET c == at[p].cmd IN
    /\ at[p].pc = "settling"
    /\ pub' = IF pub[c] \in {"cancelled", "paused"} THEN pub
              ELSE [pub EXCEPT ![c] = at[p].verdict]
    /\ Decides(p, IF p \in Workers THEN "linking" ELSE "reporting", "none")
    /\ UNCHANGED <<capture, item, job, shops, admin, lost, shift, faults, acts>>

CountItems(p) ==
    LET statuses == {item[a].status : a \in Asins} IN
    /\ at[p].pc = "refreshing"
    /\ Decides(p, "marking",
               IF statuses \cap Uncaptured # {} THEN "capturing"
               ELSE IF "queued_for_publish" \in statuses THEN "publishing"
               ELSE IF capture.link # 0 THEN "completed" ELSE "captured")
    /\ UNCHANGED <<rows, shops, admin, lost, shift, faults, acts>>

Markable(verdict) ==
    CASE verdict = "capturing" -> {"queued", "captured", "publishing"}
      [] verdict = "completed" -> {"queued", "capturing", "captured", "publishing", "completed"}
      [] OTHER                 -> {"queued", "capturing", "captured", "publishing"}

\* The reply may be lost: the worker does not know, and is on the page again.
MarkCapture(p) ==
    /\ at[p].pc = "marking"
    /\ capture' = IF capture.status \in Markable(at[p].verdict)
                  THEN [capture EXCEPT !.status = at[p].verdict] ELSE capture
    /\ \/ Leaves(p) /\ UNCHANGED faults
       \/ /\ p \in Workers /\ faults > 0
          /\ at' = [at EXCEPT ![p] = [Idle EXCEPT !.pc = "visiting", !.asin = at[p].asin]]
          /\ faults' = faults - 1
    /\ UNCHANGED <<item, job, pub, shops, admin, lost, shift, acts>>

(***************************************************************************)
(* The runner.                                                             *)
(***************************************************************************)
Asin(r) == job[at[r].job].asin

\* mutant: a command that once completed is not looked at again
DueInScheduled == {j \in Jobs : /\ job[j].status = "scheduled"
                                /\ pub[job[j].cmd] = "scheduled"}

Due == {j \in Jobs : /\ job[j].status = "scheduled"
                     /\ pub[job[j].cmd] \in {"scheduled", "running", "completed"}}

ClaimJob(r) ==
    /\ at[r].pc = "idle"
    /\ \E j \in Due :
         /\ job' = [job EXCEPT ![j].status = "running"]
         /\ pub' = [pub EXCEPT ![job[j].cmd] = "running"]
         /\ at' = [at EXCEPT ![r] = [Idle EXCEPT !.pc = "checking", !.job = j,
                                                 !.cmd = job[j].cmd, !.caught = TRUE]]
    /\ UNCHANGED <<capture, item, shops, admin, lost, shift, faults, acts>>

AlreadyListed(a) == a \in catalog

StillCaptured(a) ==
    /\ a \in Asins
    /\ item[a].pool /\ item[a].status \in Uncaptured
    /\ capture.status \notin {"cancelled", "completed"}

\* validateLivePublishReadiness: eligibility, the capture and the availability
\* come first, then the store, then the catalog.
Check(r) ==
    LET a == Asin(r) IN
    /\ at[r].pc = "checking"
    /\ \/ Says(r, "ending", "skipped")
       \/ a \notin listed /\ ~StillCaptured(a) /\ Says(r, "ending", "failed")
       \/ /\ a \notin listed /\ ~StillCaptured(a) /\ ~AlreadyListed(a)
          /\ at' = [at EXCEPT ![r].pc = "listing", ![r].caught = FALSE]
    /\ UNCHANGED <<rows, shops, admin, lost, shift, faults, acts>>

\* Dispatch, the product cache, the payload and publishOne's own catalog read.
List(r) ==
    LET a == Asin(r) IN
    /\ at[r].pc = "listing"
    /\ \/ \E s \in {"skipped", "failed"} : Says(r, "ending", s)
       \/ a \notin listed /\ ~AlreadyListed(a) /\ Goto(r, "publishing")
    /\ UNCHANGED <<rows, shops, admin, lost, shift, faults, acts>>

\* mutant: what was published is not saved
PublishUnsaved(r) ==
    /\ at[r].pc = "publishing"
    /\ flows' = [flows EXCEPT ![Asin(r)] = @ + 1]
    /\ Says(r, "ending", "published")
    /\ UNCHANGED <<rows, listed, catalog, admin, lost, shift, faults, acts>>

Publish(r) ==
    /\ at[r].pc = "publishing"
    /\ flows' = [flows EXCEPT ![Asin(r)] = @ + 1]
    /\ \/ Says(r, "saving", "published") /\ UNCHANGED faults
       \/ \* eBay's reply is lost: the flow reports a failure
          faults > 0 /\ Says(r, "ending", "failed") /\ faults' = faults - 1
    /\ UNCHANGED <<rows, listed, catalog, admin, lost, shift, acts>>

PublishRefused(r) ==
    /\ at[r].pc = "publishing"
    /\ Says(r, "ending", "failed")
    /\ UNCHANGED <<rows, shops, admin, lost, shift, faults, acts>>

SavePool(r) ==
    /\ at[r].pc = "saving"
    /\ listed' = listed \cup {Asin(r)}
    /\ Goto(r, "cataloguing")
    /\ UNCHANGED <<rows, flows, catalog, admin, lost, shift, faults, acts>>

SaveCatalog(r) ==
    /\ at[r].pc = "cataloguing"
    /\ catalog' = catalog \cup {Asin(r)}
    /\ Goto(r, "ending")
    /\ UNCHANGED <<rows, flows, listed, admin, lost, shift, faults, acts>>

\* persistPublishResults keeps the error to itself: the publish has succeeded.
SaveFails(r) ==
    /\ at[r].pc \in {"saving", "cataloguing"} /\ faults > 0
    /\ Goto(r, "ending")
    /\ faults' = faults - 1
    /\ UNCHANGED <<rows, shops, admin, lost, shift, acts>>

EndJob(r) ==
    /\ at[r].pc = "ending"
    /\ job' = [job EXCEPT ![at[r].job].status = at[r].says]
    /\ Goto(r, "counting")
    /\ UNCHANGED <<capture, item, pub, shops, admin, lost, shift, faults, acts>>

\* mutant: the runner's word is written as it is
OutcomeAsSaid(says) == says

OutcomeOf(says) == IF says = "skipped" THEN "skipped_duplicate" ELSE says

\* mutant: every item of the command is told
ToldByCommand(j) == {a \in Asins : /\ item[a].job # 0
                                   /\ job[item[a].job].cmd = job[j].cmd
                                   /\ item[a].status \in Uncaptured \cup {"queued_for_publish"}}

Told(j) == {a \in Asins : /\ item[a].job = j
                          /\ item[a].status \in Uncaptured \cup {"queued_for_publish"}}

Report(r) ==
    LET told == Told(at[r].job) IN
    /\ at[r].pc = "reporting"
    /\ item' = [a \in Asins |-> IF a \in told
                                THEN [item[a] EXCEPT !.status = OutcomeOf(at[r].says), !.leased = FALSE]
                                ELSE item[a]]
    /\ IF told = {} THEN Leaves(r) ELSE Goto(r, "refreshing")
    /\ UNCHANGED <<capture, job, pub, shops, admin, lost, shift, faults, acts>>

(***************************************************************************)
(* Errors, a restart of the server, and the panel.                         *)
(***************************************************************************)
Retold(w) == [Idle EXCEPT !.pc = "visiting", !.asin = at[w].asin]

HandlerFails(w) ==
    /\ at[w].pc \notin {"away", "idle", "visiting"} /\ faults > 0
    /\ at' = [at EXCEPT ![w] = Retold(w)]
    /\ faults' = faults - 1
    /\ UNCHANGED <<rows, shops, admin, lost, shift, acts>>

\* mutant: no catch around the publish
RunnerFailsUncaught(r) ==
    /\ at[r].pc \in {"ending", "counting", "counting captures", "settling", "reporting"}
    /\ faults > 0 /\ faults' = faults - 1
    /\ Leaves(r)
    /\ UNCHANGED <<rows, shops, admin, lost, shift, acts>>

\* An error inside runLiveOneDueJob's try ends the job as failed, whatever it
\* was; one outside it, in the guard's path or in the catch itself, abandons it.
RunnerFails(r) ==
    /\ at[r].pc \in {"checking", "ending", "counting", "counting captures", "settling",
                     "reporting", "refreshing", "marking"}
    /\ faults > 0 /\ faults' = faults - 1
    /\ IF at[r].caught
       THEN /\ Leaves(r)
            /\ lost' = IF WillReport(at[r].job) THEN lost \cup {at[r].job} ELSE lost
       ELSE /\ at' = [at EXCEPT ![r].pc = "ending", ![r].says = "failed", ![r].verdict = "none",
                                ![r].caught = TRUE]
            /\ UNCHANGED lost
    /\ UNCHANGED <<rows, shops, admin, shift, acts>>

PendingWork(c) == (\E j \in JobsOf(c) : job'[j].status \notin EndedJob) \/ CapturesWait(c)

Reopened == [c \in Commands |-> IF pub[c] = "completed" /\ PendingWork(c) THEN "running" ELSE pub[c]]

\* Each tick begins with it.
Reopen(r) ==
    /\ at[r].pc = "idle"
    /\ UNCHANGED <<capture, item, job, shops, at, admin, lost, shift, faults, acts>>
    /\ pub' = Reopened

\* The server stops, with its handlers and its runner, and starts again: of the
\* jobs left running it takes up those that have run for fifteen minutes.
Restart ==
    /\ faults > 0 /\ faults' = faults - 1
    /\ \E stale \in SUBSET {j \in Jobs : job[j].status = "running"} :
         /\ job' = [j \in Jobs |-> IF j \in stale THEN [job[j] EXCEPT !.status = "scheduled"]
                                   ELSE job[j]]
         /\ lost' = (lost \cup {j \in Jobs : WillReport(j)}) \ stale
    /\ pub' = Reopened
    /\ at' = [p \in Procs |-> IF p \in Runners THEN Idle
                              ELSE IF at[p].pc \in {"away", "idle"} THEN at[p] ELSE Retold(p)]
    /\ admin' = AtRest
    /\ UNCHANGED <<capture, item, shops, shift, acts>>

Acts(pc, c, was) ==
    /\ admin.pc = "idle" /\ acts > 0
    /\ admin' = [pc |-> pc, cmd |-> c, was |-> was]
    /\ acts' = acts - 1

ActEnds(pc) == /\ admin.pc = pc
               /\ admin' = AtRest
               /\ UNCHANGED acts

\* start-capture: no lease, no attempt.
StartItem(a) ==
    /\ Acts("startCommand", 0, "none")
    /\ item[a].status = "capture_pending" /\ capture.status \notin {"cancelled", "completed"}
    /\ item' = [item EXCEPT ![a].status = "capturing"]
    /\ UNCHANGED <<capture, job, pub, shops, at, lost, shift, faults>>

StartCommand ==
    /\ ActEnds("startCommand")
    /\ capture' = [capture EXCEPT !.status = "capturing"]
    /\ UNCHANGED <<item, job, pub, shops, at, lost, shift, faults>>

CancelCapture ==
    /\ Acts("cancelItems", 0, capture.status)
    /\ capture' = [capture EXCEPT !.status = IF @ = "completed" THEN @ ELSE "cancelled"]
    /\ UNCHANGED <<item, job, pub, shops, at, lost, shift, faults>>

CancelItems ==
    /\ ActEnds("cancelItems")
    /\ item' = [a \in Asins |-> IF item[a].status \in Uncaptured
                                THEN [item[a] EXCEPT !.status = "failed", !.leased = FALSE]
                                ELSE item[a]]
    /\ UNCHANGED <<capture, job, pub, shops, at, lost, shift, faults>>

CancelJobs(c) ==
    /\ Acts("cancelCommand", c, "none")
    /\ pub[c] # "none"
    /\ job' = [j \in Jobs |-> IF j \in JobsOf(c) /\ job[j].status = "scheduled"
                              THEN [job[j] EXCEPT !.status = "cancelled"] ELSE job[j]]
    /\ UNCHANGED <<capture, item, pub, shops, at, lost, shift, faults>>

CancelCommand ==
    /\ ActEnds("cancelCommand")
    /\ pub' = [pub EXCEPT ![admin.cmd] = "cancelled"]
    /\ UNCHANGED <<capture, item, job, shops, at, lost, shift, faults>>

AskPause(c) ==
    /\ Acts("pause", c, "none")
    /\ pub[c] \in {"scheduled", "running", "paused", "failed"}
    /\ UNCHANGED <<rows, shops, at, lost, shift, faults>>

Pause ==
    /\ ActEnds("pause")
    /\ pub' = [pub EXCEPT ![admin.cmd] = "paused"]
    /\ UNCHANGED <<capture, item, job, shops, at, lost, shift, faults>>

\* Every pause may be resumed: it costs no act.
AskResume(c) ==
    /\ admin.pc = "idle" /\ pub[c] = "paused"
    /\ admin' = [pc |-> "resume", cmd |-> c, was |-> "none"]
    /\ UNCHANGED <<rows, shops, at, lost, shift, faults, acts>>

Resume ==
    /\ ActEnds("resume")
    /\ pub' = [pub EXCEPT ![admin.cmd] = "scheduled"]
    /\ UNCHANGED <<capture, item, job, shops, at, lost, shift, faults>>

(***************************************************************************)
(* A command of the extension alone, or one a dispatch made beside the     *)
(* publish command of the ASINs it found ready.                            *)
(***************************************************************************)
Init ==
    /\ shift \in Shifts
    /\ faults = shift.faults /\ acts = shift.acts
    /\ \E asinOf \in [1 .. Cardinality(shift.ready) -> shift.ready] :
         /\ \A i, k \in DOMAIN asinOf : asinOf[i] = asinOf[k] => i = k
         /\ job = [j \in Jobs |-> IF j \in DOMAIN asinOf THEN NewJob(asinOf[j], 1) ELSE NoJob]
    /\ pub = [c \in Commands |-> IF shift.ready # {} /\ c = 1 THEN "scheduled" ELSE "none"]
    /\ capture = IF shift.ready # {} THEN [status |-> "publishing", link |-> 1]
                                     ELSE [status |-> "queued", link |-> 0]
    /\ \E pool \in BOOLEAN :
         /\ shift.ready # {} => pool
         /\ item = [a \in Asins |-> [status |-> "capture_pending", pool |-> pool, job |-> 0,
                                     tries |-> 0, leased |-> FALSE]]
    /\ flows = [a \in Products |-> 0]
    /\ listed = {} /\ catalog = {} /\ lost = {}
    /\ at = [p \in Procs |-> IF p \in Runners \/ p \in shift.workers THEN Idle ELSE Away]
    /\ admin = AtRest

VisitEnds(w) == GiveUp(w) \/ SubmitRefused(w) \/ Submit(w) \/ Fail(w)

Progress(p) == CountJobs(p) \/ CountCaptures(p) \/ SettleCommand(p) \/ CountItems(p) \/ MarkCapture(p)

Handler(w) ==
    \/ Progress(w)
    \/ WriteItem(w) \/ Extract(w) \/ AvailabilityBlocks(w) \/ ReadLink(w)
    \/ CreateCommand(w) \/ FindTwin(w) \/ InsertJob(w) \/ LinkItem(w)

Claim(w, over) == ClaimItem(w, over) \/ ClaimNothing(w, over)

Runner(r) ==
    \/ Progress(r)
    \/ ClaimJob(r) \/ Check(r) \/ List(r) \/ Publish(r) \/ PublishRefused(r)
    \/ SavePool(r) \/ SaveCatalog(r) \/ EndJob(r) \/ Report(r)

Errors ==
    \/ \E w \in Workers : HandlerFails(w)
    \/ \E r \in Runners : RunnerFails(r) \/ SaveFails(r)
    \/ Restart

ActSettles == StartCommand \/ CancelItems \/ CancelCommand \/ Pause \/ Resume

Panel ==
    \/ \E a \in Asins : StartItem(a)
    \/ CancelCapture
    \/ \E c \in Commands : CancelJobs(c) \/ AskPause(c) \/ AskResume(c)

Next ==
    \/ \E w \in Workers, over \in SUBSET Leased : Claim(w, over)
    \/ \E w \in Workers : VisitEnds(w) \/ Handler(w)
    \/ \E r \in Runners : Runner(r) \/ Reopen(r)
    \/ Errors \/ Panel \/ ActSettles

Spec == Init /\ [][Next]_vars

\* Statements complete, the runner ticks, some worker polls, a visit and a
\* lease come to an end.
Fairness ==
    /\ \A w \in Workers : WF_vars(Handler(w) \/ VisitEnds(w))
    /\ WF_vars(\E w \in Workers : Claim(w, Leased))
    /\ \A r \in Runners : WF_vars(Runner(r))
    /\ WF_vars(ActSettles)

FairSpec == Spec /\ Fairness

(***************************************************************************)
(* Properties.                                                             *)
(***************************************************************************)
\* The tables hold what their columns allow: in particular an item only ever ends
\* with a status of extension_capture_items, although the runner's words for the
\* outcome of a job are others (finalizeExtensionCaptureForPublishJob).
TypeOK ==
    /\ capture \in [status : {"queued", "capturing", "captured", "publishing", "completed", "cancelled"},
                    link : 0 .. MaxCommands]
    /\ item \in [Asins -> [status : ItemStatuses, pool : BOOLEAN, job : 0 .. MaxJobs,
                           tries : 0 .. MaxAttempts, leased : BOOLEAN]]
    /\ job \in [Jobs -> [asin : Products \cup {None}, cmd : 0 .. MaxCommands,
                         status : {"none", "scheduled", "running"} \cup EndedJob]]
    /\ pub \in [Commands -> {"none", "scheduled", "running", "paused", "completed", "failed", "cancelled"}]
    /\ flows \in [Products -> Nat]
    /\ listed \subseteq Products /\ catalog \subseteq Products
    /\ lost \subseteq Jobs
    /\ shift \in Shifts /\ faults \in 0 .. shift.faults /\ acts \in 0 .. shift.acts

\* An item the panel shows as published is one eBay accepted: no outcome of another
\* job, no late submit and no error after the publish makes it so.
PublishedIsListed == \A a \in Asins : item[a].status = "published" => flows[a] > 0

\* Several jobs for one ASIN, made by requests that did not see each other, publish
\* it once: the runner's two looks at what is listed hold even while a late submit
\* makes the pool row ready again.  A failed statement or a lost reply of eBay may
\* hide a publish from both.
ListedOnce == faults = shift.faults => \A a \in Products : flows[a] <= 1

\* While a command is not cancelled its items are captured or given up in the end,
\* whatever leases ran out, replies got lost or captures were started by hand.
CaptureSettles ==
    <>[](capture.status \in ClaimableStatuses => \A a \in Asins : item[a].status \notin Uncaptured)

Stopped(c) == pub[c] \in {"paused", "cancelled", "failed"}

Awaits(a) == item[a].status = "queued_for_publish" /\ item[a].job \notin lost

\* An item queued for publish hears how its job ended, unless the job or its command
\* was cancelled, paused or has failed, or nobody is left to report it: the job ended
\* before the item was linked to it, or the runner stopped in between.
OutcomeArrives == \A a \in Asins :
    Awaits(a) ~> (~Awaits(a) \/ job[item[a].job].status = "cancelled" \/ Stopped(job[item[a].job].cmd))

\* A scheduled job is run, or its command is stopped by the panel or by the failure
\* of a job: reopening a command that was found complete too early is part of it.
JobsRun == \A j \in Jobs :
    job[j].status = "scheduled" ~> (job[j].status # "scheduled" \/ Stopped(job[j].cmd))

=============================================================================
