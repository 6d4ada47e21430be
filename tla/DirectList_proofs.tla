------------------------- MODULE DirectList_proofs -------------------------
(***************************************************************************)
(* What holds of DirectList for every set of ASINs, workers and runners    *)
(* and every bound: the tables keep their types; an item shown as          *)
(* published was accepted by eBay; and, with one runner, until a statement *)
(* fails or a reply is lost, eBay accepts an ASIN at most once.            *)
(*                                                                         *)
(* Each needs to know where the processes are.  TypeInv adds to TypeOK     *)
(* what each worker and runner holds at each step.  OutcomeInv ties the    *)
(* items to the jobs of their own ASINs, and what a runner says to what    *)
(* eBay did.  OnceInv says where a publish is remembered until the catalog *)
(* has it.                                                                 *)
(***************************************************************************)
EXTENDS DirectList, TLAPS

WorkerPcs == {"away", "idle", "visiting", "writing", "extracting", "appending", "creating",
              "looking", "inserting", "counting", "counting captures", "settling", "linking",
              "refreshing", "marking"}
RunnerPcs == {"idle", "checking", "listing", "publishing", "saving", "cataloguing", "ending",
              "counting", "counting captures", "settling", "reporting", "refreshing", "marking"}
Outcomes  == {"skipped", "failed", "published"}
Written   == {"extract_failed", "capture_pending"}
Settled   == {"running", "failed", "completed"}
Marks     == {"capturing", "publishing", "completed", "captured"}
Captures  == {"queued", "capturing", "captured", "publishing", "completed", "cancelled"}

Places == [pc : WorkerPcs \cup RunnerPcs, asin : Asins \cup {None}, job : 0 .. MaxJobs,
           cmd : 0 .. MaxCommands, says : {"none"} \cup Written \cup Outcomes,
           verdict : {"none"} \cup Settled \cup Marks, caught : BOOLEAN]

Counted(x) == /\ x.pc \in {"counting captures", "settling"} => x.verdict \in Settled
              /\ x.pc = "marking" => x.verdict \in Marks

WorkerAt(x) == /\ x.pc \in WorkerPcs /\ Counted(x)
               /\ x.pc \notin {"away", "idle"} => x.asin \in Asins
               /\ x.pc = "writing" => x.says \in Written
               /\ x.pc \in {"counting", "counting captures", "settling", "linking"} => x.job \in Jobs

RunnerAt(x) == /\ x.pc \in RunnerPcs /\ Counted(x)
               /\ x.pc \in {"saving", "cataloguing"} => x.says = "published"
               /\ x.pc \in {"ending", "counting", "counting captures", "settling", "reporting"}
                     => x.says \in Outcomes

PlacesOK == /\ at \in [Procs -> Places]
            /\ \A w \in Workers : WorkerAt(at[w])
            /\ \A r \in Runners : RunnerAt(at[r])

AdminOK == admin \in [pc : {"idle", "startCommand", "cancelItems", "cancelCommand", "pause", "resume"},
                      cmd : 0 .. MaxCommands, was : Captures \cup {"none"}]

\* Jobs have ASINs, and a runner that is not idle has a job.
JobsHeld == /\ \A j \in Jobs : job[j].status # "none" => job[j].asin \in Products
            /\ \A r \in Runners : at[r].pc # "idle" =>
                   at[r].job \in Jobs /\ job[at[r].job].asin \in Products

TypeInv == TypeOK /\ PlacesOK /\ AdminOK /\ JobsHeld

-----------------------------------------------------------------------------
\* A process that moves leaves the others where they are, and is somewhere it may be.
Lands(p, x) == at' = [at EXCEPT ![p] = x]

Fits(p, x) == /\ x \in Places
              /\ p \in Workers => WorkerAt(x)
              /\ p \in Runners => RunnerAt(x)

LEMMA Moves ==
    ASSUME PlacesOK, NEW p \in Procs, NEW x, Fits(p, x), Lands(p, x)
    PROVE  PlacesOK'
<1>1. at' \in [Procs -> Places]
  BY DEF PlacesOK, Fits, Lands
<1>2. \A v \in Workers : WorkerAt(at'[v])
  BY DEF PlacesOK, Procs, Fits, Lands
<1>3. \A r \in Runners : RunnerAt(at'[r])
  BY DEF PlacesOK, Procs, Fits, Lands
<1> QED BY <1>1, <1>2, <1>3 DEF PlacesOK, WorkerAt, RunnerAt, Counted

LEMMA NoneMoves ==
    ASSUME PlacesOK, UNCHANGED at
    PROVE  PlacesOK'
BY DEF PlacesOK, WorkerAt, RunnerAt, Counted

LEMMA IdleIsAPlace ==
    /\ Idle \in Places /\ WorkerAt(Idle) /\ RunnerAt(Idle)
    /\ Away \in Places /\ WorkerAt(Away)
<1>1. Idle \in Places
  BY DirectListAssumption DEF Idle, Places, WorkerPcs
<1>2. Idle.pc = "idle"
  BY DEF Idle
<1>3. WorkerAt(Idle) /\ RunnerAt(Idle)
  BY <1>2 DEF WorkerAt, RunnerAt, Counted, WorkerPcs, RunnerPcs
<1>4. Away \in Places /\ Away.pc = "away"
  BY <1>1 DEF Away, Places, WorkerPcs
<1>5. WorkerAt(Away)
  BY <1>4 DEF WorkerAt, Counted, WorkerPcs
<1> QED BY <1>1, <1>3, <1>4, <1>5

LEMMA TypeInit == Init => TypeInv
<1> SUFFICES ASSUME Init PROVE TypeInv
  OBVIOUS
<1>1. shift \in Shifts /\ faults \in 0 .. shift.faults /\ acts \in 0 .. shift.acts /\ shift.ready \subseteq Ready
  BY DirectListAssumption DEF Init
<1>2. capture \in [status : Captures, link : 0 .. MaxCommands]
  BY DirectListAssumption DEF Init, Captures
<1>3. item \in [Asins -> [status : ItemStatuses, pool : BOOLEAN, job : 0 .. MaxJobs,
                          tries : 0 .. MaxAttempts, leased : BOOLEAN]]
  <2>1. PICK pool \in BOOLEAN :
          item = [a \in Asins |-> [status |-> "capture_pending", pool |-> pool, job |-> 0,
                                   tries |-> 0, leased |-> FALSE]]
    BY DEF Init
  <2> QED BY <2>1, DirectListAssumption DEF ItemStatuses, Uncaptured
<1>4. job \in [Jobs -> [asin : Products \cup {None}, cmd : 0 .. MaxCommands,
                        status : {"none", "scheduled", "running"} \cup EndedJob]]
  <2>1. PICK asinOf \in [1 .. Cardinality(shift.ready) -> shift.ready] :
          job = [j \in Jobs |-> IF j \in DOMAIN asinOf THEN NewJob(asinOf[j], 1) ELSE NoJob]
    BY DEF Init
  <2>2. \A j \in DOMAIN asinOf : asinOf[j] \in Products
    BY <1>1, <2>1 DEF Products
  <2> QED BY <2>1, <2>2, DirectListAssumption DEF NewJob, NoJob
<1>5. pub \in [Commands -> {"none", "scheduled", "running", "paused", "completed", "failed", "cancelled"}]
  BY DEF Init
<1>6. flows \in [Products -> Nat] /\ listed \subseteq Products /\ catalog \subseteq Products /\ lost \subseteq Jobs
  BY DEF Init
<1>7. PlacesOK
  <2>1. at = [p \in Procs |-> IF p \in Runners \/ p \in shift.workers THEN Idle ELSE Away]
    BY DEF Init
  <2>2. \A p \in Procs : at[p] \in {Idle, Away}
    BY <2>1
  <2>3. \A r \in Runners : at[r] = Idle
    BY <2>1 DEF Procs
  <2>4. at \in [Procs -> Places]
    BY <2>1, IdleIsAPlace
  <2>5. \A w \in Workers : WorkerAt(at[w])
    BY <2>2, IdleIsAPlace DEF Procs
  <2>6. \A r \in Runners : RunnerAt(at[r])
    BY <2>3, IdleIsAPlace
  <2> QED BY <2>4, <2>5, <2>6 DEF PlacesOK
<1>8. AdminOK
  BY DirectListAssumption DEF Init, AdminOK, AtRest
<1>9. JobsHeld
  <2>1. PICK asinOf \in [1 .. Cardinality(shift.ready) -> shift.ready] :
          job = [j \in Jobs |-> IF j \in DOMAIN asinOf THEN NewJob(asinOf[j], 1) ELSE NoJob]
    BY DEF Init
  <2>2. \A j \in Jobs : job[j].status # "none" => job[j].asin \in Products
    BY <1>1, <2>1 DEF Products, NewJob, NoJob
  <2>3. \A r \in Runners : at[r].pc = "idle"
    BY DEF Init, Procs, Idle
  <2> QED BY <2>2, <2>3 DEF JobsHeld
<1> QED BY <1>1, <1>2, <1>3, <1>4, <1>5, <1>6, <1>7, <1>8, <1>9 DEF TypeInv, TypeOK, Captures

-----------------------------------------------------------------------------
\* Moves, as the actions write them.
LEMMA Going ==
    ASSUME at \in [Procs -> Places], NEW p \in Procs, NEW to, Goto(p, to)
    PROVE  Lands(p, [at[p] EXCEPT !.pc = to])
BY DEF Goto, Lands

LEMMA Saying ==
    ASSUME at \in [Procs -> Places], NEW p \in Procs, NEW to, NEW word, Says(p, to, word)
    PROVE  Lands(p, [at[p] EXCEPT !.pc = to, !.says = word])
BY DEF Says, Lands, Places

LEMMA Deciding ==
    ASSUME at \in [Procs -> Places], NEW p \in Procs, NEW to, NEW word, Decides(p, to, word)
    PROVE  Lands(p, [at[p] EXCEPT !.pc = to, !.verdict = word])
BY DEF Decides, Lands, Places

LEMMA Leaving ==
    ASSUME NEW p \in Procs, Leaves(p)
    PROVE  Lands(p, Idle) /\ Fits(p, Idle)
BY IdleIsAPlace DEF Leaves, Lands, Fits

\* A worker that did not get its answer is back on the page.
LEMMA RetoldFits ==
    ASSUME NEW w \in Workers, Fits(w, at[w]), at[w].pc \notin {"away", "idle"}
    PROVE  Fits(w, Retold(w)) /\ Retold(w).pc = "visiting"
<1>1. at[w].asin \in Asins /\ w \notin Runners
  BY DirectListAssumption DEF Fits, WorkerAt
<1>2. Retold(w) \in Places /\ Retold(w).pc = "visiting" /\ Retold(w).asin = at[w].asin
  BY <1>1, IdleIsAPlace DEF Retold, Places, WorkerPcs
<1> QED BY <1>1, <1>2 DEF Fits, WorkerAt, Counted, WorkerPcs

\* Where a step of one process leaves it.
LEMMA ProgressPlaces ==
    ASSUME TypeInv, NEW p \in Procs, Progress(p)
    PROVE  PlacesOK'
<1>1. at \in [Procs -> Places] /\ at[p] \in Places /\ Fits(p, at[p])
  BY DEF TypeInv, PlacesOK, Fits
<1>2. \E x : Fits(p, x) /\ Lands(p, x)
  <2>1. CASE CountJobs(p)
    <3>1. PICK v \in Settled : Decides(p, "counting captures", v)
      BY <2>1 DEF CountJobs, Settled
    <3> DEFINE x == [at[p] EXCEPT !.pc = "counting captures", !.verdict = v]
    <3>2. Fits(p, x)
      BY <1>1, <2>1 DEF CountJobs, Fits, WorkerAt, RunnerAt, Counted, WorkerPcs, RunnerPcs, Places
    <3> QED BY <1>1, <3>1, <3>2, Deciding
  <2>2. CASE CountCaptures(p)
    <3>1. PICK v \in Settled : Decides(p, "settling", v)
      BY <1>1, <2>2, DirectListAssumption DEF CountCaptures, Settled, Fits, WorkerAt, RunnerAt, Counted, Procs
    <3> DEFINE x == [at[p] EXCEPT !.pc = "settling", !.verdict = v]
    <3>2. Fits(p, x)
      BY <1>1, <2>2 DEF CountCaptures, Fits, WorkerAt, RunnerAt, Counted, WorkerPcs, RunnerPcs, Places
    <3> QED BY <1>1, <3>1, <3>2, Deciding
  <2>3. CASE SettleCommand(p)
    <3> DEFINE to == IF p \in Workers THEN "linking" ELSE "reporting"
               x == [at[p] EXCEPT !.pc = to, !.verdict = "none"]
    <3>1. Decides(p, to, "none")
      BY <2>3 DEF SettleCommand
    <3>2. Fits(p, x)
      BY <1>1, <2>3, DirectListAssumption
         DEF SettleCommand, Fits, WorkerAt, RunnerAt, Counted, WorkerPcs, RunnerPcs, Places, Procs
    <3> QED BY <1>1, <3>1, <3>2, Deciding
  <2>4. CASE CountItems(p)
    <3>1. PICK v \in Marks : Decides(p, "marking", v)
      BY <2>4 DEF CountItems, Marks
    <3> DEFINE x == [at[p] EXCEPT !.pc = "marking", !.verdict = v]
    <3>2. Fits(p, x)
      BY <1>1, <2>4 DEF CountItems, Fits, WorkerAt, RunnerAt, Counted, WorkerPcs, RunnerPcs, Places
    <3> QED BY <1>1, <3>1, <3>2, Deciding
  <2>5. CASE MarkCapture(p)
    <3>1. CASE Leaves(p)
      BY <3>1, Leaving
    <3>2. CASE p \in Workers /\ Lands(p, Retold(p))
      BY <1>1, <2>5, <3>2, RetoldFits DEF MarkCapture
    <3> QED BY <2>5, <3>1, <3>2 DEF MarkCapture, Lands, Retold
  <2> QED BY <2>1, <2>2, <2>3, <2>4, <2>5 DEF Progress
<1> QED BY <1>2, Moves DEF TypeInv

\* The steps of a handler that keep its ASIN.
LEMMA HandlerGoes ==
    ASSUME NEW w \in Workers, Fits(w, at[w]), at[w].pc \notin {"away", "idle"},
           NEW x \in Places, x.asin = at[w].asin,
           x.pc \in WorkerPcs \ {"writing", "counting captures", "settling", "marking"},
           x.pc \in {"counting", "linking"} => x.job \in Jobs
    PROVE  Fits(w, x)
BY DirectListAssumption DEF Fits, WorkerAt, Counted

LEMMA WorkerPlaces ==
    ASSUME TypeInv, NEW w \in Workers, VisitEnds(w) \/ Handler(w) \/ HandlerFails(w)
    PROVE  PlacesOK'
<1>1. /\ w \in Procs /\ at \in [Procs -> Places] /\ at[w] \in Places /\ Fits(w, at[w])
      /\ w \notin Runners
  BY DirectListAssumption DEF TypeInv, PlacesOK, Fits, Procs
<1>2. CASE Progress(w)
  BY <1>1, <1>2, ProgressPlaces
<1> SUFFICES ASSUME ~Progress(w) PROVE \E x : Fits(w, x) /\ Lands(w, x)
  BY <1>1, <1>2, Moves DEF TypeInv
<1>3. CASE Leaves(w)
  BY <1>1, <1>3, Leaving
<1>4. CASE Submit(w)
  <2>1. CASE Says(w, "writing", "extract_failed")
    <3>1. Fits(w, [at[w] EXCEPT !.pc = "writing", !.says = "extract_failed"])
      BY <1>1, <1>4 DEF Submit, Fits, WorkerAt, Counted, WorkerPcs, Written, Places
    <3> QED BY <1>1, <2>1, <3>1, Saying
  <2>2. CASE Goto(w, "extracting")
    <3>1. Fits(w, [at[w] EXCEPT !.pc = "extracting"])
      BY <1>1, <1>4 DEF Submit, Fits, WorkerAt, Counted, WorkerPcs, Places
    <3> QED BY <1>1, <2>2, <3>1, Going
  <2> QED BY <1>4, <2>1, <2>2 DEF Submit
<1>5. ASSUME NEW word \in Written, Says(w, "writing", word), at[w].pc \notin {"away", "idle"}
      PROVE  \E x : Fits(w, x) /\ Lands(w, x)
  <2>1. Fits(w, [at[w] EXCEPT !.pc = "writing", !.says = word])
    BY <1>1, <1>5 DEF Fits, WorkerAt, Counted, WorkerPcs, Written, Places
  <2> QED BY <1>1, <1>5, <2>1, Saying
<1>6. CASE Fail(w)
  BY <1>3, <1>5, <1>6 DEF Fail, Written
<1>7. CASE AvailabilityBlocks(w)
  BY <1>5, <1>7 DEF AvailabilityBlocks, Written
<1>8. CASE WriteItem(w)
  <2>1. Fits(w, [at[w] EXCEPT !.pc = "refreshing", !.says = "none"])
    BY <1>1, <1>8 DEF WriteItem, Fits, WorkerAt, Counted, WorkerPcs, Places
  <2> QED BY <1>1, <1>8, <2>1, Saying DEF WriteItem
<1>9. ASSUME NEW to \in {"extracting", "inserting", "appending"},
             Goto(w, to), at[w].pc \notin {"away", "idle"}
      PROVE  \E x : Fits(w, x) /\ Lands(w, x)
  <2>1. [at[w] EXCEPT !.pc = to] \in Places
    BY <1>1 DEF Places, WorkerPcs
  <2>2. Fits(w, [at[w] EXCEPT !.pc = to])
    BY <1>1, <1>9, <2>1, HandlerGoes DEF Places, WorkerPcs
  <2> QED BY <1>1, <1>9, <2>2, Going
<1>10. CASE Extract(w)
  BY <1>9, <1>10 DEF Extract, WorkerPcs
<1>11. ASSUME NEW to \in WorkerPcs \ {"writing", "counting captures", "settling", "marking"},
              NEW j \in 0 .. MaxJobs, NEW c \in 0 .. MaxCommands,
              to \in {"counting", "linking"} => j \in Jobs,
              Lands(w, [at[w] EXCEPT !.pc = to, !.job = j, !.cmd = c]),
              at[w].pc \notin {"away", "idle"}
       PROVE  \E x : Fits(w, x) /\ Lands(w, x)
  <2> DEFINE x == [at[w] EXCEPT !.pc = to, !.job = j, !.cmd = c]
  <2>1. x \in Places
    BY <1>1 DEF Places
  <2>2. Fits(w, x)
    BY <1>1, <1>11, <2>1, HandlerGoes DEF Places
  <2> QED BY <1>11, <2>2
<1>12. CASE ReadLink(w)
  <2>1. PICK to \in {"creating", "looking"} : at' = [at EXCEPT ![w].pc = to, ![w].cmd = capture.link]
    BY <1>12 DEF ReadLink
  <2>2. Lands(w, [at[w] EXCEPT !.pc = to, !.job = at[w].job, !.cmd = capture.link])
    <3> DEFINE x == [at[w] EXCEPT !.pc = to, !.cmd = capture.link]
               y == [at[w] EXCEPT !.pc = to, !.job = at[w].job, !.cmd = capture.link]
    <3>1. x = y
      BY <1>1 DEF Places
    <3>2. Lands(w, x)
      BY <1>1, <2>1 DEF Lands
    <3> HIDE DEF x, y
    <3>3. Lands(w, y)
      BY <3>1, <3>2
    <3> QED BY <3>3 DEF y
  <2>3. at[w].job \in 0 .. MaxJobs /\ capture.link \in 0 .. MaxCommands /\ at[w].pc \notin {"away", "idle"}
    BY <1>1, <1>12 DEF ReadLink, TypeInv, TypeOK, Places
  <2> QED BY <1>11, <2>1, <2>2, <2>3 DEF WorkerPcs
<1>13. CASE CreateCommand(w)
  <2>1. PICK c \in NextCommand, j \in NextJob :
          at' = [at EXCEPT ![w].pc = "counting", ![w].job = j, ![w].cmd = c]
    BY <1>13 DEF CreateCommand
  <2>2. Lands(w, [at[w] EXCEPT !.pc = "counting", !.job = j, !.cmd = c])
    BY <1>1, <2>1 DEF Places, Lands
  <2>3. j \in Jobs /\ j \in 0 .. MaxJobs /\ c \in 0 .. MaxCommands /\ at[w].pc \notin {"away", "idle"}
    BY <1>13, DirectListAssumption DEF CreateCommand, NextJob, NextCommand, Jobs, Commands
  <2> QED BY <1>11, <2>2, <2>3 DEF WorkerPcs
<1>14. CASE FindTwin(w)
  <2>1. CASE Goto(w, "inserting")
    BY <1>9, <1>14, <2>1 DEF FindTwin, WorkerPcs
  <2>2. CASE \E j \in Twins(w) : at' = [at EXCEPT ![w].pc = "linking", ![w].job = j]
    <3>1. PICK j \in Twins(w) : at' = [at EXCEPT ![w].pc = "linking", ![w].job = j]
      BY <2>2
    <3>2. Lands(w, [at[w] EXCEPT !.pc = "linking", !.job = j, !.cmd = at[w].cmd])
      BY <1>1, <3>1 DEF Places, Lands
    <3>3. j \in Jobs /\ j \in 0 .. MaxJobs /\ at[w].cmd \in 0 .. MaxCommands /\ at[w].pc \notin {"away", "idle"}
      BY <1>1, <1>14, DirectListAssumption DEF FindTwin, Twins, JobsOf, Jobs, Places
    <3> QED BY <1>11, <3>2, <3>3 DEF WorkerPcs
  <2> QED BY <1>14, <2>1, <2>2 DEF FindTwin
<1>15. CASE InsertJob(w)
  <2>1. PICK j \in NextJob : at' = [at EXCEPT ![w].pc = "counting", ![w].job = j]
    BY <1>15 DEF InsertJob
  <2>2. Lands(w, [at[w] EXCEPT !.pc = "counting", !.job = j, !.cmd = at[w].cmd])
    BY <1>1, <2>1 DEF Places, Lands
  <2>3. j \in Jobs /\ j \in 0 .. MaxJobs /\ at[w].cmd \in 0 .. MaxCommands /\ at[w].pc \notin {"away", "idle"}
    BY <1>1, <1>15, DirectListAssumption DEF InsertJob, NextJob, Jobs, Places
  <2> QED BY <1>11, <2>2, <2>3 DEF WorkerPcs
<1>16. CASE LinkItem(w)
  <2> DEFINE x == [at[w] EXCEPT !.pc = "refreshing", !.job = 0, !.cmd = 0]
  <2>1. 0 \in 0 .. MaxJobs /\ 0 \in 0 .. MaxCommands
    BY DirectListAssumption
  <2>2. x \in Places /\ x.pc = "refreshing" /\ x.asin = at[w].asin
    BY <1>1, <2>1 DEF Places, WorkerPcs
  <2>3. Fits(w, x)
    BY <1>1, <1>16, <2>2, HandlerGoes DEF LinkItem, WorkerPcs
  <2>4. Lands(w, x)
    BY <1>1, <1>16 DEF LinkItem, Lands, Places
  <2> QED BY <2>3, <2>4
<1>17. CASE HandlerFails(w)
  BY <1>1, <1>17, RetoldFits DEF HandlerFails, Lands
<1> QED BY <1>3, <1>4, <1>6, <1>7, <1>8, <1>10, <1>12, <1>13, <1>14, <1>15, <1>16, <1>17
        DEF VisitEnds, Handler, GiveUp, SubmitRefused

\* The steps of a runner.
LEMMA RunnerGoes ==
    ASSUME NEW r \in Runners, NEW x \in Places,
           x.pc \in RunnerPcs \ {"counting captures", "settling", "marking"},
           x.pc \in {"saving", "cataloguing"} => x.says = "published",
           x.pc \in {"ending", "counting", "reporting"} => x.says \in Outcomes
    PROVE  Fits(r, x)
BY DirectListAssumption DEF Fits, RunnerAt, Counted

LEMMA RunnerPlaces ==
    ASSUME TypeInv, NEW r \in Runners, Runner(r) \/ RunnerFails(r) \/ SaveFails(r)
    PROVE  PlacesOK'
<1>1. /\ r \in Procs /\ at \in [Procs -> Places] /\ at[r] \in Places /\ RunnerAt(at[r])
  BY DEF TypeInv, PlacesOK, Procs
<1>2. CASE Progress(r)
  BY <1>1, <1>2, ProgressPlaces
<1> SUFFICES ASSUME ~Progress(r) PROVE \E x : Fits(r, x) /\ Lands(r, x)
  BY <1>1, <1>2, Moves DEF TypeInv
<1>3. CASE Leaves(r)
  BY <1>1, <1>3, Leaving
<1>4. ASSUME NEW to \in RunnerPcs \ {"counting captures", "settling", "marking"},
             Goto(r, to),
             to \in {"saving", "cataloguing"} => at[r].says = "published",
             to \in {"ending", "counting", "reporting"} => at[r].says \in Outcomes
      PROVE  \E x : Fits(r, x) /\ Lands(r, x)
  <2> DEFINE x == [at[r] EXCEPT !.pc = to]
  <2>1. x \in Places /\ x.pc = to /\ x.says = at[r].says
    BY <1>1 DEF Places
  <2>2. Fits(r, x)
    BY <1>4, <2>1, RunnerGoes
  <2> QED BY <1>1, <1>4, <2>2, Going
<1>5. ASSUME NEW word \in Outcomes, NEW to \in {"ending", "saving"}, Says(r, to, word),
             to = "saving" => word = "published"
      PROVE  \E x : Fits(r, x) /\ Lands(r, x)
  <2> DEFINE x == [at[r] EXCEPT !.pc = to, !.says = word]
  <2>1. x \in Places /\ x.pc = to /\ x.says = word
    BY <1>1 DEF Places, RunnerPcs
  <2>2. Fits(r, x)
    BY <1>5, <2>1, RunnerGoes DEF RunnerPcs
  <2> QED BY <1>1, <1>5, <2>2, Saying
<1>6. CASE ClaimJob(r)
  <2>1. PICK j \in Due : at' = [at EXCEPT ![r] = [Idle EXCEPT !.pc = "checking", !.job = j,
                                                 !.cmd = job[j].cmd, !.caught = TRUE]]
    BY <1>6 DEF ClaimJob
  <2> DEFINE x == [Idle EXCEPT !.pc = "checking", !.job = j, !.cmd = job[j].cmd, !.caught = TRUE]
  <2>2. j \in 0 .. MaxJobs /\ job[j].cmd \in 0 .. MaxCommands
    BY DirectListAssumption DEF Due, Jobs, TypeInv, TypeOK
  <2>3. x \in Places /\ x.pc = "checking"
    BY <2>2, IdleIsAPlace DEF Places, RunnerPcs
  <2>4. Fits(r, x)
    BY <2>3, RunnerGoes DEF RunnerPcs
  <2> QED BY <2>1, <2>4 DEF Lands
<1>7. CASE Check(r)
  <2>1. CASE \E word \in {"skipped", "failed"} : Says(r, "ending", word)
    BY <1>5, <2>1 DEF Outcomes
  <2>2. CASE at' = [at EXCEPT ![r].pc = "listing", ![r].caught = FALSE]
    <3> DEFINE x == [at[r] EXCEPT !.pc = "listing", !.caught = FALSE]
    <3>1. x \in Places /\ x.pc = "listing"
      BY <1>1 DEF Places, RunnerPcs
    <3>2. Fits(r, x)
      BY <3>1, RunnerGoes DEF RunnerPcs
    <3>3. Lands(r, x)
      BY <1>1, <2>2 DEF Lands, Places
    <3> QED BY <3>2, <3>3
  <2> QED BY <1>7, <2>1, <2>2 DEF Check
<1>8. CASE List(r)
  <2>1. CASE \E word \in {"skipped", "failed"} : Says(r, "ending", word)
    BY <1>5, <2>1 DEF Outcomes
  <2>2. CASE Goto(r, "publishing")
    BY <1>4, <2>2 DEF RunnerPcs
  <2> QED BY <1>8, <2>1, <2>2 DEF List
<1>9. CASE Publish(r)
  BY <1>5, <1>9 DEF Publish, Outcomes
<1>10. CASE PublishRefused(r)
  BY <1>5, <1>10 DEF PublishRefused, Outcomes
<1>11. CASE SavePool(r)
  BY <1>1, <1>4, <1>11 DEF SavePool, RunnerAt, RunnerPcs
<1>12. CASE SaveCatalog(r) \/ SaveFails(r)
  BY <1>1, <1>4, <1>12 DEF SaveCatalog, SaveFails, RunnerAt, RunnerPcs, Outcomes
<1>13. CASE EndJob(r)
  BY <1>1, <1>4, <1>13 DEF EndJob, RunnerAt, RunnerPcs
<1>14. CASE Report(r)
  BY <1>3, <1>4, <1>14 DEF Report, RunnerPcs
<1>15. CASE RunnerFails(r)
  <2>1. CASE at' = [at EXCEPT ![r].pc = "ending", ![r].says = "failed", ![r].verdict = "none",
                              ![r].caught = TRUE]
    <3> DEFINE x == [at[r] EXCEPT !.pc = "ending", !.says = "failed", !.verdict = "none", !.caught = TRUE]
    <3>1. x \in Places /\ x.pc = "ending" /\ x.says = "failed"
      BY <1>1 DEF Places, RunnerPcs, Outcomes
    <3>2. Fits(r, x)
      BY <3>1, RunnerGoes DEF RunnerPcs, Outcomes
    <3>3. Lands(r, x)
      BY <1>1, <2>1 DEF Lands, Places
    <3> QED BY <3>2, <3>3
  <2> QED BY <1>3, <1>15, <2>1 DEF RunnerFails
<1> QED BY <1>6, <1>7, <1>8, <1>9, <1>10, <1>11, <1>12, <1>13, <1>14, <1>15 DEF Runner

LEMMA PlacesNext ==
    ASSUME TypeInv, [Next]_vars
    PROVE  PlacesOK'
<1>1. PlacesOK
  BY DEF TypeInv
<1>2. CASE UNCHANGED at
  BY <1>1, <1>2, NoneMoves
<1>3. ASSUME NEW w \in Workers, NEW over \in SUBSET Leased, ClaimItem(w, over)
      PROVE  PlacesOK'
  <2>1. PICK a \in Asins : at' = [at EXCEPT ![w].pc = "visiting", ![w].asin = a]
    BY <1>3 DEF ClaimItem, Candidates
  <2> DEFINE x == [at[w] EXCEPT !.pc = "visiting", !.asin = a]
  <2>2. w \in Procs /\ at \in [Procs -> Places] /\ at[w] \in Places
    BY <1>1 DEF PlacesOK, Procs
  <2>3. x \in Places /\ x.pc = "visiting" /\ x.asin \in Asins
    BY <2>2 DEF Places, WorkerPcs
  <2>4. Fits(w, x)
    BY <2>3, DirectListAssumption DEF Fits, WorkerAt, Counted, WorkerPcs
  <2>5. Lands(w, x)
    BY <2>1, <2>2 DEF Lands, Places
  <2> QED BY <1>1, <2>2, <2>4, <2>5, Moves
<1>4. CASE Restart
  <2>1. at' = [p \in Procs |-> IF p \in Runners THEN Idle
                              ELSE IF at[p].pc \in {"away", "idle"} THEN at[p] ELSE Retold(p)]
    BY <1>4 DEF Restart
  <2>2. \A r \in Runners : at'[r] = Idle
    BY <2>1 DEF Procs
  <2>3. \A w \in Workers : Fits(w, at'[w])
    <3> SUFFICES ASSUME NEW w \in Workers PROVE Fits(w, at'[w])
      OBVIOUS
    <3>1. Fits(w, at[w]) /\ w \in Procs /\ w \notin Runners
      BY <1>1, DirectListAssumption DEF PlacesOK, Fits, Procs
    <3>2. CASE at[w].pc \in {"away", "idle"}
      BY <2>1, <3>1, <3>2
    <3>3. CASE at[w].pc \notin {"away", "idle"}
      BY <2>1, <3>1, <3>3, RetoldFits
    <3> QED BY <3>2, <3>3
  <2>4. at' \in [Procs -> Places]
    BY <2>1, <2>2, <2>3, IdleIsAPlace DEF Procs, Fits
  <2>5. (\A w \in Workers : WorkerAt(at'[w])) /\ \A r \in Runners : RunnerAt(at'[r])
    BY <2>2, <2>3, IdleIsAPlace DEF Fits
  <2> QED BY <2>4, <2>5 DEF PlacesOK, WorkerAt, RunnerAt, Counted
<1>5. CASE Panel \/ ActSettles
  <2>1. UNCHANGED at
    BY <1>5 DEF Panel, ActSettles, StartItem, StartCommand, CancelCapture, CancelItems, CancelJobs,
       CancelCommand, AskPause, Pause, AskResume, Resume
  <2> QED BY <1>1, <2>1, NoneMoves
<1>6. CASE UNCHANGED vars
  BY <1>2, <1>6 DEF vars
<1>7. ASSUME NEW w \in Workers, NEW over \in SUBSET Leased, ClaimNothing(w, over)
      PROVE  PlacesOK'
  BY <1>2, <1>7 DEF ClaimNothing
<1>8. ASSUME NEW r \in Runners, Reopen(r)
      PROVE  PlacesOK'
  BY <1>2, <1>8 DEF Reopen
<1> QED BY <1>3, <1>4, <1>5, <1>6, <1>7, <1>8, WorkerPlaces, RunnerPlaces DEF Next, Claim, Errors

-----------------------------------------------------------------------------
\* The tables.  Most steps leave most of them alone.
CaptureKept == UNCHANGED capture
ItemKept    == UNCHANGED item
JobKept     == UNCHANGED job
PubKept     == UNCHANGED pub
FlowsKept   == UNCHANGED flows
RowsKept    == CaptureKept /\ ItemKept /\ JobKept /\ PubKept

LEMMA WorkersLeave ==
    ASSUME NEW w \in Workers, VisitEnds(w) \/ Handler(w) \/ HandlerFails(w)
    PROVE  /\ CaptureKept \/ CreateCommand(w) \/ MarkCapture(w)
           /\ ItemKept \/ WriteItem(w) \/ LinkItem(w)
           /\ JobKept \/ CreateCommand(w) \/ InsertJob(w)
           /\ PubKept \/ CreateCommand(w) \/ SettleCommand(w)
           /\ FlowsKept
<1>a. CASE VisitEnds(w)
  BY <1>a DEF VisitEnds, GiveUp, SubmitRefused, Submit, Fail,
     CaptureKept, ItemKept, JobKept, PubKept, FlowsKept, rows, shops
<1>b. CASE HandlerFails(w)
  BY <1>b DEF HandlerFails,
     CaptureKept, ItemKept, JobKept, PubKept, FlowsKept, rows, shops
<1>c. CASE Progress(w)
  BY <1>c DEF Progress, CountJobs, CountCaptures, SettleCommand, CountItems, MarkCapture,
     CaptureKept, ItemKept, JobKept, PubKept, FlowsKept, rows, shops
<1>d. CASE WriteItem(w) \/ Extract(w) \/ AvailabilityBlocks(w) \/ ReadLink(w)
  BY <1>d DEF WriteItem, Extract, AvailabilityBlocks, ReadLink,
     CaptureKept, ItemKept, JobKept, PubKept, FlowsKept, rows, shops
<1>e. CASE CreateCommand(w) \/ FindTwin(w) \/ InsertJob(w) \/ LinkItem(w)
  BY <1>e DEF CreateCommand, FindTwin, InsertJob, LinkItem,
     CaptureKept, ItemKept, JobKept, PubKept, FlowsKept, rows, shops
<1> QED BY <1>a, <1>b, <1>c, <1>d, <1>e DEF Handler

LEMMA RunnersLeave ==
    ASSUME NEW r \in Runners, Runner(r) \/ RunnerFails(r) \/ SaveFails(r)
    PROVE  /\ CaptureKept \/ MarkCapture(r)
           /\ ItemKept \/ Report(r)
           /\ JobKept \/ ClaimJob(r) \/ EndJob(r)
           /\ PubKept \/ ClaimJob(r) \/ SettleCommand(r)
           /\ FlowsKept \/ Publish(r)
BY DEF Runner, RunnerFails, SaveFails, ClaimJob, Check, List, Publish, PublishRefused, SavePool, SaveCatalog,
   EndJob, Report, Progress, CountJobs, CountCaptures, SettleCommand, CountItems, MarkCapture, rows, shops,
   CaptureKept, ItemKept, JobKept, PubKept, FlowsKept

LEMMA PanelLeaves ==
    ASSUME Panel \/ ActSettles
    PROVE  /\ CaptureKept \/ StartCommand \/ CancelCapture
           /\ ItemKept \/ CancelItems \/ \E a \in Asins : StartItem(a)
           /\ JobKept \/ \E c \in Commands : CancelJobs(c)
           /\ PubKept \/ CancelCommand \/ Pause \/ Resume
           /\ FlowsKept
BY DEF Panel, ActSettles, StartItem, StartCommand, CancelCapture, CancelItems, CancelJobs,
   CancelCommand, AskPause, Pause, AskResume, Resume, rows, shops,
   CaptureKept, ItemKept, JobKept, PubKept, FlowsKept

CaptureOK == capture \in [status : Captures, link : 0 .. MaxCommands]
AnItem    == [status : ItemStatuses, pool : BOOLEAN, job : 0 .. MaxJobs, tries : 0 .. MaxAttempts,
              leased : BOOLEAN]
AJob      == [asin : Products \cup {None}, cmd : 0 .. MaxCommands,
              status : {"none", "scheduled", "running"} \cup EndedJob]
PubWords  == {"none", "scheduled", "running", "paused", "completed", "failed", "cancelled"}

LEMMA Tables ==
    TypeOK <=> /\ CaptureOK /\ item \in [Asins -> AnItem] /\ job \in [Jobs -> AJob]
               /\ pub \in [Commands -> PubWords] /\ flows \in [Products -> Nat]
               /\ listed \subseteq Products /\ catalog \subseteq Products /\ lost \subseteq Jobs
               /\ shift \in Shifts /\ faults \in 0 .. shift.faults /\ acts \in 0 .. shift.acts
BY DEF TypeOK, CaptureOK, Captures, AnItem, AJob, PubWords

LEMMA CaptureNext ==
    ASSUME TypeInv, [Next]_vars
    PROVE  CaptureOK'
<1>1. CaptureOK /\ PlacesOK
  BY Tables DEF TypeInv
<1>2. CASE CaptureKept
  BY <1>1, <1>2 DEF CaptureKept, CaptureOK
<1>3. ASSUME NEW w \in Workers, CreateCommand(w)
      PROVE  CaptureOK'
  <2>1. PICK c \in NextCommand : capture' = [status |-> "publishing", link |-> c]
    BY <1>3 DEF CreateCommand
  <2>2. c \in 0 .. MaxCommands
    BY DirectListAssumption DEF NextCommand, Commands
  <2> QED BY <2>1, <2>2 DEF CaptureOK, Captures
<1>4. ASSUME NEW p \in Procs, MarkCapture(p)
      PROVE  CaptureOK'
  <2>1. at[p].verdict \in Marks
    BY <1>1, <1>4 DEF MarkCapture, PlacesOK, WorkerAt, RunnerAt, Counted, Procs
  <2>2. capture' \in {capture, [capture EXCEPT !.status = at[p].verdict]}
    BY <1>4 DEF MarkCapture
  <2> QED BY <1>1, <2>1, <2>2 DEF CaptureOK, Captures, Marks
<1>5. ASSUME NEW w \in Workers, NEW over \in SUBSET Leased, Claim(w, over)
      PROVE  CaptureOK'
  BY <1>1, <1>5 DEF Claim, ClaimItem, ClaimNothing, CaptureOK, Captures
<1>6. CASE StartCommand \/ CancelCapture
  BY <1>1, <1>6 DEF StartCommand, CancelCapture, CaptureOK, Captures
<1>7. CASE UNCHANGED vars \/ Restart \/ \E r \in Runners : Reopen(r)
  BY <1>2, <1>7 DEF vars, Restart, Reopen, CaptureKept
<1> QED BY <1>2, <1>3, <1>4, <1>5, <1>6, <1>7, WorkersLeave, RunnersLeave, PanelLeaves DEF Next, Errors, Procs

LEMMA SweptIsAnItem ==
    ASSUME item \in [Asins -> AnItem], NEW a \in Asins, NEW over
    PROVE  Swept(a, over) \in AnItem
BY DEF Swept, AnItem, ItemStatuses, Uncaptured

\* Only items with an attempt left are claimed.
LEMMA CandidatesHaveTries ==
    ASSUME NEW over, NEW a \in Candidates(over)
    PROVE  a \in Asins /\ item[a].tries < MaxAttempts
<1>1. a \in Asins /\ Swept(a, over).status \in Uncaptured /\ Swept(a, over).tries < MaxAttempts
  BY DEF Candidates
<1>2. item[a].tries < MaxAttempts
  BY <1>1 DEF Swept, Uncaptured
<1> QED BY <1>1, <1>2

LEMMA ItemNext ==
    ASSUME TypeInv, [Next]_vars
    PROVE  item' \in [Asins -> AnItem]
<1>1. item \in [Asins -> AnItem] /\ PlacesOK
  BY Tables DEF TypeInv
<1>2. CASE ItemKept
  BY <1>1, <1>2 DEF ItemKept
<1>3. ASSUME NEW w \in Workers, WriteItem(w)
      PROVE  item' \in [Asins -> AnItem]
  <2>1. at[w].asin \in Asins /\ at[w].says \in ItemStatuses
    BY <1>1, <1>3 DEF WriteItem, PlacesOK, WorkerAt, Written, ItemStatuses, Uncaptured
  <2>2. item' = [item EXCEPT ![at[w].asin] = [@ EXCEPT !.status = at[w].says, !.leased = FALSE]]
    BY <1>1, <1>3, <2>1 DEF WriteItem, AnItem
  <2> QED BY <1>1, <2>1, <2>2 DEF AnItem
<1>4. ASSUME NEW w \in Workers, LinkItem(w)
      PROVE  item' \in [Asins -> AnItem]
  <2>1. at[w].job \in 0 .. MaxJobs
    BY <1>1 DEF PlacesOK, Procs, Places
  <2> QED BY <1>1, <1>4, <2>1 DEF LinkItem, AnItem, ItemStatuses
<1>5. ASSUME NEW r \in Runners, Report(r)
      PROVE  item' \in [Asins -> AnItem]
  <2>1. OutcomeOf(at[r].says) \in ItemStatuses
    BY <1>1, <1>5 DEF Report, PlacesOK, RunnerAt, Outcomes, OutcomeOf, ItemStatuses
  <2> QED BY <1>1, <1>5, <2>1 DEF Report, AnItem
<1>6. ASSUME NEW w \in Workers, NEW over \in SUBSET Leased, Claim(w, over)
      PROVE  item' \in [Asins -> AnItem]
  <2>1. CASE ClaimItem(w, over)
    <3>1. PICK a \in Candidates(over) :
            item' = [b \in Asins |-> IF b = a
                       THEN [item[a] EXCEPT !.status = "capturing", !.leased = TRUE, !.tries = @ + 1]
                       ELSE Swept(b, over)]
      BY <2>1 DEF ClaimItem
    <3>2. a \in Asins /\ item[a] \in AnItem /\ item[a].tries < MaxAttempts
      BY <1>1, CandidatesHaveTries
    <3>3. item[a].tries + 1 \in 0 .. MaxAttempts
      BY <3>2, DirectListAssumption DEF AnItem
    <3>4. [item[a] EXCEPT !.status = "capturing", !.leased = TRUE, !.tries = @ + 1] \in AnItem
      BY <3>2, <3>3 DEF AnItem, ItemStatuses, Uncaptured
    <3> QED BY <1>1, <3>1, <3>4, SweptIsAnItem
  <2>2. CASE ClaimNothing(w, over)
    BY <1>1, <2>2, SweptIsAnItem DEF ClaimNothing
  <2> QED BY <1>6, <2>1, <2>2 DEF Claim
<1>7. CASE CancelItems \/ \E a \in Asins : StartItem(a)
  <2>1. CASE CancelItems
    BY <1>1, <2>1 DEF CancelItems, AnItem, ItemStatuses
  <2>2. ASSUME NEW a \in Asins, StartItem(a)
        PROVE  item' \in [Asins -> AnItem]
    BY <1>1, <2>2 DEF StartItem, AnItem, ItemStatuses, Uncaptured
  <2> QED BY <1>7, <2>1, <2>2
<1>8. CASE UNCHANGED vars \/ Restart \/ \E r \in Runners : Reopen(r)
  BY <1>2, <1>8 DEF vars, Restart, Reopen, ItemKept
<1> QED BY <1>2, <1>3, <1>4, <1>5, <1>6, <1>7, <1>8, WorkersLeave, RunnersLeave, PanelLeaves DEF Next, Errors

LEMMA JobNext ==
    ASSUME TypeInv, [Next]_vars
    PROVE  job' \in [Jobs -> AJob]
<1>1. job \in [Jobs -> AJob] /\ PlacesOK
  BY Tables DEF TypeInv
<1>2. CASE JobKept
  BY <1>1, <1>2 DEF JobKept
<1>3. ASSUME NEW w \in Workers, CreateCommand(w) \/ InsertJob(w)
      PROVE  job' \in [Jobs -> AJob]
  <2>1. at[w].asin \in Products /\ at[w].cmd \in 0 .. MaxCommands
    BY <1>1, <1>3 DEF CreateCommand, InsertJob, PlacesOK, WorkerAt, Products, Procs, Places
  <2>2. PICK j \in Jobs, c \in 0 .. MaxCommands : job' = [job EXCEPT ![j] = NewJob(at[w].asin, c)]
    <3>1. CASE CreateCommand(w)
      <4>1. PICK c \in NextCommand, j \in NextJob : job' = [job EXCEPT ![j] = NewJob(at[w].asin, c)]
        BY <3>1 DEF CreateCommand
      <4>2. c \in 0 .. MaxCommands /\ j \in Jobs
        BY DirectListAssumption DEF NextCommand, Commands, NextJob
      <4> QED BY <4>1, <4>2
    <3>2. CASE InsertJob(w)
      BY <2>1, <3>2 DEF InsertJob, NextJob
    <3> QED BY <1>3, <3>1, <3>2
  <2>3. NewJob(at[w].asin, c) \in AJob
    BY <2>1 DEF NewJob, AJob
  <2> QED BY <1>1, <2>2, <2>3
<1>4. ASSUME NEW r \in Runners, ClaimJob(r) \/ EndJob(r)
      PROVE  job' \in [Jobs -> AJob]
  <2>0. ASSUME NEW j \in Jobs, NEW s \in {"running"} \cup EndedJob, job' = [job EXCEPT ![j].status = s]
        PROVE  job' \in [Jobs -> AJob]
    <3> DEFINE x == [job[j] EXCEPT !.status = s]
    <3>1. x \in AJob
      BY <1>1, <2>0 DEF AJob
    <3>2. job' = [job EXCEPT ![j] = x]
      BY <1>1, <2>0
    <3> HIDE DEF x
    <3> QED BY <1>1, <3>1, <3>2
  <2>1. CASE ClaimJob(r)
    <3>1. PICK j \in Due : job' = [job EXCEPT ![j].status = "running"]
      BY <2>1 DEF ClaimJob
    <3>2. j \in Jobs
      BY DEF Due
    <3> QED BY <2>0, <3>1, <3>2
  <2>2. CASE EndJob(r)
    <3>1. at[r].says \in EndedJob
      BY <1>1, <2>2 DEF EndJob, PlacesOK, RunnerAt, Outcomes, EndedJob
    <3>2. at[r].job \in Jobs
      BY <2>2 DEF EndJob, TypeInv, JobsHeld
    <3> QED BY <2>0, <2>2, <3>1, <3>2 DEF EndJob
  <2> QED BY <1>4, <2>1, <2>2
<1>5. CASE Restart
  <2>1. PICK stale : job' = [j \in Jobs |-> IF j \in stale THEN [job[j] EXCEPT !.status = "scheduled"] ELSE job[j]]
    BY <1>5 DEF Restart
  <2> QED BY <1>1, <2>1 DEF AJob
<1>6. ASSUME NEW c \in Commands, CancelJobs(c)
      PROVE  job' \in [Jobs -> AJob]
  BY <1>1, <1>6 DEF CancelJobs, AJob, EndedJob
<1>7. CASE UNCHANGED vars \/ (\E r \in Runners : Reopen(r))
           \/ \E w \in Workers, over \in SUBSET Leased : Claim(w, over)
  BY <1>2, <1>7 DEF vars, Reopen, Claim, ClaimItem, ClaimNothing, JobKept
<1> QED BY <1>2, <1>3, <1>4, <1>5, <1>6, <1>7, WorkersLeave, RunnersLeave, PanelLeaves DEF Next, Errors

LEMMA PubNext ==
    ASSUME TypeInv, [Next]_vars
    PROVE  pub' \in [Commands -> PubWords]
<1>1. pub \in [Commands -> PubWords] /\ PlacesOK
  BY Tables DEF TypeInv
<1>2. CASE PubKept
  BY <1>1, <1>2 DEF PubKept
<1>3. ASSUME NEW w \in Workers, CreateCommand(w)
      PROVE  pub' \in [Commands -> PubWords]
  BY <1>1, <1>3 DEF CreateCommand, PubWords
<1>4. ASSUME NEW p \in Procs, SettleCommand(p)
      PROVE  pub' \in [Commands -> PubWords]
  <2>1. at[p].verdict \in PubWords
    BY <1>1, <1>4 DEF SettleCommand, PlacesOK, WorkerAt, RunnerAt, Counted, Procs, Settled, PubWords
  <2>2. pub' \in {pub, [pub EXCEPT ![at[p].cmd] = at[p].verdict]}
    BY <1>4 DEF SettleCommand
  <2> QED BY <1>1, <2>1, <2>2
<1>5. ASSUME NEW r \in Runners, ClaimJob(r)
      PROVE  pub' \in [Commands -> PubWords]
  BY <1>1, <1>5 DEF ClaimJob, PubWords
<1>6. CASE Restart \/ \E r \in Runners : Reopen(r)
  BY <1>1, <1>6 DEF Restart, Reopen, Reopened, PubWords
<1>7. CASE CancelCommand \/ Pause \/ Resume
  BY <1>1, <1>7 DEF CancelCommand, Pause, Resume, PubWords
<1>8. CASE UNCHANGED vars \/ \E w \in Workers, over \in SUBSET Leased : Claim(w, over)
  BY <1>2, <1>8 DEF vars, Claim, ClaimItem, ClaimNothing, PubKept
<1> QED BY <1>2, <1>3, <1>4, <1>5, <1>6, <1>7, <1>8, WorkersLeave, RunnersLeave, PanelLeaves DEF Next, Errors, Procs

LEMMA FlowsNext ==
    ASSUME TypeInv, [Next]_vars
    PROVE  flows' \in [Products -> Nat]
<1>1. flows \in [Products -> Nat]
  BY Tables DEF TypeInv
<1>2. CASE FlowsKept
  BY <1>1, <1>2 DEF FlowsKept
<1>3. ASSUME NEW r \in Runners, Publish(r)
      PROVE  flows' \in [Products -> Nat]
  <2>1. flows' = [flows EXCEPT ![Asin(r)] = flows[Asin(r)] + 1]
    BY <1>3 DEF Publish
  <2>2. Asin(r) \in Products
    BY <1>3 DEF Publish, Asin, TypeInv, JobsHeld
  <2> QED BY <1>1, <2>1, <2>2
<1>4. CASE UNCHANGED vars \/ Restart \/ (\E r \in Runners : Reopen(r))
           \/ \E w \in Workers, over \in SUBSET Leased : Claim(w, over)
  BY <1>2, <1>4 DEF vars, Restart, Reopen, Claim, ClaimItem, ClaimNothing, shops, FlowsKept
<1> QED BY <1>2, <1>3, <1>4, WorkersLeave, RunnersLeave, PanelLeaves DEF Next, Errors

\* A job keeps its ASIN.
AsinsKept == \A j \in Jobs : \/ job'[j] = job[j]
                             \/ /\ job'[j].asin \in Products
                                /\ job[j].asin \in {None, job'[j].asin}

LEMMA AsinsNext ==
    ASSUME TypeInv, [Next]_vars
    PROVE  AsinsKept
<1>1. job \in [Jobs -> AJob] /\ PlacesOK /\ JobsHeld
  BY Tables DEF TypeInv
<1>2. CASE JobKept
  BY <1>2 DEF JobKept, AsinsKept
<1>3. ASSUME NEW w \in Workers, CreateCommand(w) \/ InsertJob(w)
      PROVE  AsinsKept
  <2>1. at[w].asin \in Products
    BY <1>1, <1>3 DEF CreateCommand, InsertJob, PlacesOK, WorkerAt, Products
  <2>2. PICK j \in NextJob : \E c : job' = [job EXCEPT ![j] = NewJob(at[w].asin, c)]
    BY <1>3 DEF CreateCommand, InsertJob
  <2>3. j \in Jobs /\ job[j].asin = None
    BY DEF NextJob, NoJob
  <2> QED BY <1>1, <2>1, <2>2, <2>3 DEF AsinsKept, NewJob
<1>4. ASSUME NEW j \in Jobs, NEW word, job[j].status # "none" \/ job[j].asin \in Products,
             job' = [job EXCEPT ![j] = [@ EXCEPT !.status = word]]
      PROVE  AsinsKept
  BY <1>1, <1>4 DEF AsinsKept, AJob, JobsHeld
<1>5. ASSUME NEW r \in Runners, ClaimJob(r) \/ EndJob(r)
      PROVE  AsinsKept
  <2>1. CASE ClaimJob(r)
    <3>1. PICK j \in Due : job' = [job EXCEPT ![j].status = "running"]
      BY <2>1 DEF ClaimJob
    <3> QED BY <1>4, <3>1 DEF Due
  <2>2. CASE EndJob(r)
    BY <1>1, <1>4, <2>2 DEF EndJob, JobsHeld
  <2> QED BY <1>5, <2>1, <2>2
<1>6. ASSUME NEW S \in SUBSET Jobs, NEW word, \A j \in S : job[j].status # "none",
             job' = [j \in Jobs |-> IF j \in S THEN [job[j] EXCEPT !.status = word] ELSE job[j]]
      PROVE  AsinsKept
  BY <1>1, <1>6 DEF AsinsKept, AJob, JobsHeld
<1>7. CASE Restart
  <2>1. PICK stale \in SUBSET {j \in Jobs : job[j].status = "running"} :
          job' = [j \in Jobs |-> IF j \in stale THEN [job[j] EXCEPT !.status = "scheduled"] ELSE job[j]]
    BY <1>7 DEF Restart
  <2>2. stale \in SUBSET Jobs /\ \A j \in stale : job[j].status # "none"
    OBVIOUS
  <2> QED BY <1>6, <2>1, <2>2
<1>8. ASSUME NEW c \in Commands, CancelJobs(c)
      PROVE  AsinsKept
  <2> DEFINE S == {j \in JobsOf(c) : job[j].status = "scheduled"}
  <2>1. S \in SUBSET Jobs /\ \A j \in S : job[j].status # "none"
    BY DEF JobsOf
  <2>2. job' = [j \in Jobs |-> IF j \in S THEN [job[j] EXCEPT !.status = "cancelled"] ELSE job[j]]
    BY <1>8 DEF CancelJobs
  <2> HIDE DEF S
  <2> QED BY <1>6, <2>1, <2>2
<1>9. CASE UNCHANGED vars \/ (\E r \in Runners : Reopen(r))
           \/ \E w \in Workers, over \in SUBSET Leased : Claim(w, over)
  BY <1>2, <1>9 DEF vars, Reopen, Claim, ClaimItem, ClaimNothing, JobKept
<1> QED BY <1>2, <1>3, <1>5, <1>7, <1>8, <1>9, WorkersLeave, RunnersLeave, PanelLeaves DEF Next, Errors

\* What a step does to a runner: nothing, or it gives up its job, takes one, or goes
\* on with the one it has; it says published when eBay has accepted.
RunnerStep(r) ==
    \/ at'[r] = at[r]
    \/ at'[r] = Idle
    \/ at'[r].job \in Due /\ at'[r].says = "none"
    \/ /\ at[r].pc # "idle" /\ at'[r].job = at[r].job
       /\ \/ at'[r].says \in {at[r].says, "skipped", "failed"}
          \/ Publish(r)

LEMMA RunnerStepNext ==
    ASSUME TypeInv, [Next]_vars, NEW r \in Runners
    PROVE  RunnerStep(r)
<1>1. at \in [Procs -> Places] /\ r \in Procs /\ RunnerAt(at[r])
  BY DEF TypeInv, PlacesOK, Procs
<1>2. CASE UNCHANGED at
  BY <1>2 DEF RunnerStep
<1>3. ASSUME NEW p \in Procs, p # r, NEW x, Lands(p, x)
      PROVE  at'[r] = at[r]
  BY <1>1, <1>3 DEF Lands
<1>4. ASSUME NEW p \in Procs, Progress(p)
      PROVE  RunnerStep(r)
  <2>1. CASE \E x : Lands(p, x) /\ p # r
    BY <1>3, <2>1 DEF RunnerStep
  <2>2. CASE Leaves(p)
    BY <1>1, <2>2 DEF Leaves, RunnerStep
  <2>3. ASSUME NEW to, NEW word, Decides(p, to, word), at[p].pc # "idle"
        PROVE  RunnerStep(r)
    <3>1. Lands(p, [at[p] EXCEPT !.pc = to, !.verdict = word])
      BY <1>1, <2>3, Deciding
    <3> QED BY <1>1, <2>1, <2>3, <3>1 DEF Lands, RunnerStep, Places
  <2>4. CASE MarkCapture(p)
    <3>1. CASE Lands(p, Retold(p)) /\ p \in Workers
      BY <2>1, <3>1, DirectListAssumption
    <3> QED BY <2>2, <2>4, <3>1 DEF MarkCapture, Lands, Retold
  <2> QED BY <1>4, <2>3, <2>4 DEF Progress, CountJobs, CountCaptures, SettleCommand, CountItems
<1>5. ASSUME NEW w \in Workers, VisitEnds(w) \/ Handler(w) \/ HandlerFails(w)
      PROVE  RunnerStep(r)
  <2>1. w \in Procs /\ w # r
    BY DirectListAssumption DEF Procs
  <2>2. CASE Progress(w)
    BY <1>4, <2>1, <2>2
  <2>3. ASSUME ~Progress(w) PROVE \A p \in Procs \ {w} : at'[p] = at[p]
    <3> USE <1>1, <2>1 DEF Goto, Says, Leaves
    <3>1. CASE VisitEnds(w)
      BY <3>1 DEF VisitEnds, GiveUp, SubmitRefused, Submit, Fail
    <3>2. CASE HandlerFails(w)
      BY <3>2 DEF HandlerFails
    <3>3. CASE WriteItem(w) \/ Extract(w) \/ AvailabilityBlocks(w) \/ ReadLink(w)
      BY <3>3 DEF WriteItem, Extract, AvailabilityBlocks, ReadLink
    <3>4. CASE CreateCommand(w) \/ FindTwin(w) \/ InsertJob(w) \/ LinkItem(w)
      BY <3>4 DEF CreateCommand, FindTwin, InsertJob, LinkItem
    <3> QED BY <1>5, <2>3, <3>1, <3>2, <3>3, <3>4 DEF Handler
  <2> QED BY <1>1, <2>1, <2>2, <2>3 DEF RunnerStep
<1>6. ASSUME NEW s \in Runners, Runner(s) \/ RunnerFails(s) \/ SaveFails(s)
      PROVE  RunnerStep(r)
  <2>1. CASE Progress(s)
    BY <1>4, <2>1 DEF Procs
  <2>2. CASE s # r /\ ~Progress(s)
    <3>1. at'[r] = at[r]
      <4> USE <1>1, <2>2 DEF Goto, Says, Leaves
      <4>1. CASE ClaimJob(s) \/ Check(s) \/ List(s) \/ Publish(s) \/ PublishRefused(s)
        BY <4>1 DEF ClaimJob, Check, List, Publish, PublishRefused
      <4>2. CASE SavePool(s) \/ SaveCatalog(s) \/ EndJob(s) \/ Report(s)
        BY <4>2 DEF SavePool, SaveCatalog, EndJob, Report
      <4>3. CASE RunnerFails(s) \/ SaveFails(s)
        BY <4>3 DEF RunnerFails, SaveFails
      <4> QED BY <1>6, <4>1, <4>2, <4>3 DEF Runner
    <3> QED BY <3>1 DEF RunnerStep
  <2> SUFFICES ASSUME s = r, ~Progress(r) PROVE RunnerStep(r)
    BY <2>1, <2>2
  <2>3. CASE ClaimJob(r)
    <3>1. PICK j \in Due : at' = [at EXCEPT ![r] = [Idle EXCEPT !.pc = "checking", !.job = j,
                                                 !.cmd = job[j].cmd, !.caught = TRUE]]
      BY <2>3 DEF ClaimJob
    <3>2. at'[r].job = j /\ at'[r].says = "none"
      BY <1>1, <3>1 DEF Idle
    <3> QED BY <3>2 DEF RunnerStep
  <2>4. CASE Leaves(r)
    BY <1>1, <2>4 DEF Leaves, RunnerStep
  <2>5. ASSUME NEW to, Goto(r, to), at[r].pc # "idle"
        PROVE  RunnerStep(r)
    BY <1>1, <2>5, Going DEF Lands, RunnerStep, Places
  <2>6. ASSUME NEW to, NEW word, Says(r, to, word), at[r].pc # "idle", word \in {"skipped", "failed"} \/ Publish(r)
        PROVE  RunnerStep(r)
    <3> DEFINE x == [at[r] EXCEPT !.pc = to, !.says = word]
    <3>1. at[r] \in Places
      BY <1>1
    <3>2. x.job = at[r].job /\ x.says = word
      BY <3>1 DEF Places
    <3>3. Lands(r, x)
      BY <1>1, <2>6, Saying
    <3>4. at'[r] = x
      BY <1>1, <3>3 DEF Lands
    <3> HIDE DEF x
    <3> QED BY <2>6, <3>2, <3>4 DEF RunnerStep
  <2>7. CASE Check(r)
    <3>1. CASE at' = [at EXCEPT ![r].pc = "listing", ![r].caught = FALSE]
      BY <1>1, <2>7, <3>1 DEF Check, RunnerStep, Places
    <3> QED BY <2>6, <2>7, <3>1 DEF Check
  <2>8. CASE RunnerFails(r)
    <3>1. CASE at' = [at EXCEPT ![r].pc = "ending", ![r].says = "failed", ![r].verdict = "none",
                              ![r].caught = TRUE]
      <4> DEFINE x == [at[r] EXCEPT !.pc = "ending", !.says = "failed", !.verdict = "none", !.caught = TRUE]
      <4>1. at[r] \in Places
        BY <1>1
      <4>2. x.job = at[r].job /\ x.says = "failed"
        BY <4>1 DEF Places
      <4>3. at'[r] = x
        BY <1>1, <3>1, <4>1 DEF Places
      <4>4. at[r].pc # "idle"
        BY <2>8 DEF RunnerFails
      <4> QED BY <4>2, <4>3, <4>4 DEF RunnerStep
    <3> QED BY <2>4, <2>8, <3>1 DEF RunnerFails
  <2>9. CASE List(r)
    BY <2>5, <2>6, <2>9 DEF List
  <2>10. CASE Publish(r) \/ PublishRefused(r)
    BY <2>6, <2>10 DEF Publish, PublishRefused
  <2>11. CASE SavePool(r) \/ SaveCatalog(r) \/ SaveFails(r) \/ EndJob(r)
    BY <2>5, <2>11 DEF SavePool, SaveCatalog, SaveFails, EndJob
  <2>12. CASE Report(r)
    BY <2>4, <2>5, <2>12 DEF Report
  <2> QED BY <1>6, <2>3, <2>7, <2>8, <2>9, <2>10, <2>11, <2>12 DEF Runner
<1>7. ASSUME NEW w \in Workers, NEW over \in SUBSET Leased, Claim(w, over)
      PROVE  RunnerStep(r)
  <2>1. CASE ClaimNothing(w, over)
    BY <1>2, <2>1 DEF ClaimNothing
  <2>2. CASE ClaimItem(w, over)
    <3>1. w # r
      BY DirectListAssumption
    <3>2. at'[r] = at[r]
      BY <1>1, <2>2, <3>1 DEF ClaimItem
    <3> QED BY <3>2 DEF RunnerStep
  <2> QED BY <1>7, <2>1, <2>2 DEF Claim
<1>8. CASE Restart
  BY <1>1, <1>8 DEF Restart, RunnerStep
<1>9. CASE Panel \/ ActSettles
  <2>1. UNCHANGED at
    BY <1>9 DEF Panel, ActSettles, StartItem, StartCommand, CancelCapture, CancelItems, CancelJobs,
       CancelCommand, AskPause, Pause, AskResume, Resume
  <2> QED BY <1>2, <2>1
<1>10. CASE UNCHANGED vars \/ \E s \in Runners : Reopen(s)
  BY <1>2, <1>10 DEF vars, Reopen
<1> QED BY <1>5, <1>6, <1>7, <1>8, <1>9, <1>10 DEF Next, Errors

LEMMA JobsHeldNext ==
    ASSUME TypeInv, [Next]_vars
    PROVE  JobsHeld'
<1>1. JobsHeld /\ AsinsKept /\ None \notin Products /\ job \in [Jobs -> AJob]
  BY AsinsNext, Tables, DirectListAssumption DEF TypeInv, Products
<1>2. \A j \in Jobs : job'[j].status # "none" => job'[j].asin \in Products
  BY <1>1 DEF JobsHeld, AsinsKept
<1>3. ASSUME NEW r \in Runners, at'[r].pc # "idle"
      PROVE  at'[r].job \in Jobs /\ job'[at'[r].job].asin \in Products
  <2>1. \A j \in Jobs : job[j].asin \in Products => job'[j].asin \in Products
    BY <1>1 DEF AsinsKept
  <2>2. at'[r].job \in Jobs /\ job[at'[r].job].asin \in Products
    BY <1>1, <1>3, RunnerStepNext, IdleIsAPlace DEF RunnerStep, JobsHeld, Due, Idle
  <2> QED BY <2>1, <2>2
<1> QED BY <1>2, <1>3 DEF JobsHeld

LEMMA ShopsNext ==
    ASSUME TypeInv, [Next]_vars
    PROVE  listed' \subseteq Products /\ catalog' \subseteq Products
<1>1. listed \subseteq Products /\ catalog \subseteq Products
  BY Tables DEF TypeInv
<1>2. CASE UNCHANGED <<listed, catalog>>
  BY <1>1, <1>2
<1>3. ASSUME NEW w \in Workers, VisitEnds(w) \/ Handler(w) \/ HandlerFails(w)
      PROVE  listed' \subseteq listed /\ catalog' = catalog
  <2>a. CASE VisitEnds(w)
    BY <2>a DEF VisitEnds, GiveUp, SubmitRefused, Submit, Fail, shops
  <2>b. CASE HandlerFails(w)
    BY <2>b DEF HandlerFails, shops
  <2>c. CASE Progress(w)
    BY <2>c DEF Progress, CountJobs, CountCaptures, SettleCommand, CountItems, MarkCapture, shops
  <2>d. CASE WriteItem(w) \/ Extract(w) \/ AvailabilityBlocks(w) \/ ReadLink(w)
    BY <2>d DEF WriteItem, Extract, AvailabilityBlocks, ReadLink, shops
  <2>e. CASE CreateCommand(w) \/ FindTwin(w) \/ InsertJob(w) \/ LinkItem(w)
    BY <2>e DEF CreateCommand, FindTwin, InsertJob, LinkItem, shops
  <2> QED BY <1>3, <2>a, <2>b, <2>c, <2>d, <2>e DEF Handler
<1>4. ASSUME NEW r \in Runners, Runner(r) \/ RunnerFails(r) \/ SaveFails(r)
      PROVE  listed' \subseteq Products /\ catalog' \subseteq Products
  <2>1. at[r].pc # "idle" => Asin(r) \in Products
    BY DEF TypeInv, JobsHeld, Asin
  <2>2. CASE SavePool(r) \/ SaveCatalog(r)
    BY <1>1, <2>1, <2>2 DEF SavePool, SaveCatalog
  <2> QED BY <1>2, <1>4, <2>2
          DEF Runner, RunnerFails, SaveFails, ClaimJob, Check, List, Publish, PublishRefused, EndJob, Report,
              Progress, CountJobs, CountCaptures, SettleCommand, CountItems, MarkCapture, shops
<1>5. CASE Panel \/ ActSettles
  BY <1>2, <1>5 DEF Panel, ActSettles, StartItem, StartCommand, CancelCapture, CancelItems, CancelJobs,
     CancelCommand, AskPause, Pause, AskResume, Resume, shops
<1>6. CASE UNCHANGED vars \/ Restart \/ (\E r \in Runners : Reopen(r))
           \/ \E w \in Workers, over \in SUBSET Leased : Claim(w, over)
  BY <1>2, <1>6 DEF vars, Restart, Reopen, Claim, ClaimItem, ClaimNothing, shops
<1> QED BY <1>1, <1>3, <1>4, <1>5, <1>6 DEF Next, Errors

BudgetStep == /\ shift' = shift
              /\ faults' = faults \/ (faults > 0 /\ faults' = faults - 1)
              /\ acts' = acts \/ (acts > 0 /\ acts' = acts - 1)

LEMMA BudgetStepNext ==
    ASSUME [Next]_vars
    PROVE  BudgetStep
<1>1. ASSUME NEW w \in Workers, VisitEnds(w) \/ Handler(w) \/ HandlerFails(w)
      PROVE  BudgetStep
  BY <1>1 DEF VisitEnds, Handler, HandlerFails, GiveUp, SubmitRefused, Submit, Fail, WriteItem, Extract,
     AvailabilityBlocks, ReadLink, CreateCommand, FindTwin, InsertJob, LinkItem, Progress, CountJobs,
     CountCaptures, SettleCommand, CountItems, MarkCapture, BudgetStep
<1>2. ASSUME NEW r \in Runners, Runner(r) \/ RunnerFails(r) \/ SaveFails(r)
      PROVE  BudgetStep
  BY <1>2 DEF Runner, RunnerFails, SaveFails, ClaimJob, Check, List, Publish, PublishRefused, SavePool,
     SaveCatalog, EndJob, Report, Progress, CountJobs, CountCaptures, SettleCommand, CountItems, MarkCapture, BudgetStep
<1>3. CASE Panel \/ ActSettles
  BY <1>3 DEF Panel, ActSettles, StartItem, StartCommand, CancelCapture, CancelItems, CancelJobs,
     CancelCommand, AskPause, Pause, AskResume, Resume, Acts, ActEnds, BudgetStep
<1>4. CASE UNCHANGED vars \/ Restart \/ (\E r \in Runners : Reopen(r))
           \/ \E w \in Workers, over \in SUBSET Leased : Claim(w, over)
  BY <1>4 DEF vars, Restart, Reopen, Claim, ClaimItem, ClaimNothing, BudgetStep
<1> QED BY <1>1, <1>2, <1>3, <1>4 DEF Next, Errors

LEMMA BudgetNext ==
    ASSUME TypeInv, [Next]_vars
    PROVE  /\ lost' \subseteq Jobs
           /\ shift' \in Shifts /\ faults' \in 0 .. shift'.faults /\ acts' \in 0 .. shift'.acts
<1>1. /\ lost \subseteq Jobs /\ shift \in Shifts
      /\ faults \in 0 .. shift.faults /\ acts \in 0 .. shift.acts
      /\ shift.faults \in Nat /\ shift.acts \in Nat
  BY Tables, DirectListAssumption DEF TypeInv
<1>2. BudgetStep
  BY BudgetStepNext
<1>3. shift' \in Shifts /\ faults' \in 0 .. shift'.faults /\ acts' \in 0 .. shift'.acts
  BY <1>1, <1>2 DEF BudgetStep
<1>4. lost' \subseteq Jobs
  <2>1. CASE UNCHANGED lost
    BY <1>1, <2>1
  <2>2. ASSUME NEW w \in Workers, LinkItem(w)
        PROVE  lost' \subseteq Jobs
    <3>1. at[w].job \in Jobs
      BY <2>2 DEF TypeInv, PlacesOK, WorkerAt, LinkItem
    <3> QED BY <1>1, <2>2, <3>1 DEF LinkItem
  <2>3. ASSUME NEW r \in Runners, RunnerFails(r)
        PROVE  lost' \subseteq Jobs
    <3>1. at[r].job \in Jobs
      BY <2>3 DEF TypeInv, JobsHeld, RunnerFails
    <3> QED BY <1>1, <2>3, <3>1 DEF RunnerFails
  <2>4. CASE Restart
    BY <1>1, <2>4 DEF Restart
  <2>5. ASSUME NEW w \in Workers, VisitEnds(w) \/ Handler(w) \/ HandlerFails(w), ~LinkItem(w)
        PROVE  UNCHANGED lost
    <3>a. CASE VisitEnds(w)
      BY <3>a DEF VisitEnds, GiveUp, SubmitRefused, Submit, Fail
    <3>b. CASE HandlerFails(w)
      BY <3>b DEF HandlerFails
    <3>c. CASE Progress(w)
      BY <3>c DEF Progress, CountJobs, CountCaptures, SettleCommand, CountItems, MarkCapture
    <3>d. CASE WriteItem(w) \/ Extract(w) \/ AvailabilityBlocks(w) \/ ReadLink(w)
      BY <3>d DEF WriteItem, Extract, AvailabilityBlocks, ReadLink
    <3>e. CASE CreateCommand(w) \/ FindTwin(w) \/ InsertJob(w)
      BY <3>e DEF CreateCommand, FindTwin, InsertJob
    <3> QED BY <2>5, <3>a, <3>b, <3>c, <3>d, <3>e DEF Handler
  <2>6. ASSUME NEW r \in Runners, Runner(r) \/ SaveFails(r)
        PROVE  UNCHANGED lost
    BY <2>6 DEF Runner, SaveFails, ClaimJob, Check, List, Publish, PublishRefused, SavePool,
       SaveCatalog, EndJob, Report, Progress, CountJobs, CountCaptures, SettleCommand, CountItems, MarkCapture
  <2>7. CASE Panel \/ ActSettles
    BY <2>1, <2>7 DEF Panel, ActSettles, StartItem, StartCommand, CancelCapture, CancelItems, CancelJobs,
       CancelCommand, AskPause, Pause, AskResume, Resume
  <2>8. CASE UNCHANGED vars \/ (\E r \in Runners : Reopen(r))
             \/ \E w \in Workers, over \in SUBSET Leased : Claim(w, over)
    BY <2>1, <2>8 DEF vars, Reopen, Claim, ClaimItem, ClaimNothing
  <2> QED BY <2>1, <2>2, <2>3, <2>4, <2>5, <2>6, <2>7, <2>8 DEF Next, Errors
<1> QED BY <1>3, <1>4

LEMMA AdminNext ==
    ASSUME TypeInv, [Next]_vars
    PROVE  AdminOK'
<1>1. AdminOK /\ capture.status \in Captures
  BY Tables DEF TypeInv, CaptureOK
<1>2. CASE UNCHANGED admin
  BY <1>1, <1>2 DEF AdminOK
<1>3. CASE admin' = AtRest
  BY <1>3, DirectListAssumption DEF AtRest, AdminOK
<1>4. ASSUME NEW pc \in {"startCommand", "cancelItems", "cancelCommand", "pause", "resume"},
             NEW c \in Commands \cup {0}, NEW was \in Captures \cup {"none"},
             admin' = [pc |-> pc, cmd |-> c, was |-> was]
      PROVE  AdminOK'
  BY <1>4, DirectListAssumption DEF AdminOK, Commands
<1>5. CASE Panel
  BY <1>1, <1>4, <1>5 DEF Panel, StartItem, CancelCapture, CancelJobs, AskPause, AskResume, Acts
<1>6. CASE ActSettles
  BY <1>3, <1>6 DEF ActSettles, StartCommand, CancelItems, CancelCommand, Pause, Resume, ActEnds
<1>7. ASSUME NEW w \in Workers, VisitEnds(w) \/ Handler(w) \/ HandlerFails(w)
      PROVE  UNCHANGED admin
  <2>a. CASE VisitEnds(w)
    BY <2>a DEF VisitEnds, GiveUp, SubmitRefused, Submit, Fail
  <2>b. CASE HandlerFails(w)
    BY <2>b DEF HandlerFails
  <2>c. CASE Progress(w)
    BY <2>c DEF Progress, CountJobs, CountCaptures, SettleCommand, CountItems, MarkCapture
  <2>d. CASE WriteItem(w) \/ Extract(w) \/ AvailabilityBlocks(w) \/ ReadLink(w)
    BY <2>d DEF WriteItem, Extract, AvailabilityBlocks, ReadLink
  <2>e. CASE CreateCommand(w) \/ FindTwin(w) \/ InsertJob(w) \/ LinkItem(w)
    BY <2>e DEF CreateCommand, FindTwin, InsertJob, LinkItem
  <2> QED BY <1>7, <2>a, <2>b, <2>c, <2>d, <2>e DEF Handler
<1>8. ASSUME NEW r \in Runners, Runner(r) \/ RunnerFails(r) \/ SaveFails(r)
      PROVE  UNCHANGED admin
  BY <1>8 DEF Runner, RunnerFails, SaveFails, ClaimJob, Check, List, Publish, PublishRefused, SavePool,
     SaveCatalog, EndJob, Report, Progress, CountJobs, CountCaptures, SettleCommand, CountItems, MarkCapture
<1>9. CASE UNCHANGED vars \/ (\E r \in Runners : Reopen(r))
           \/ \E w \in Workers, over \in SUBSET Leased : Claim(w, over)
  BY <1>2, <1>9 DEF vars, Reopen, Claim, ClaimItem, ClaimNothing
<1> QED BY <1>2, <1>3, <1>5, <1>6, <1>7, <1>8, <1>9 DEF Next, Errors, Restart

LEMMA TypeNext ==
    ASSUME TypeInv, [Next]_vars
    PROVE  TypeInv'
<1>1. /\ CaptureOK' /\ item' \in [Asins -> AnItem] /\ job' \in [Jobs -> AJob]
      /\ pub' \in [Commands -> PubWords] /\ flows' \in [Products -> Nat]
  BY CaptureNext, ItemNext, JobNext, PubNext, FlowsNext
<1>2. TypeOK'
  BY <1>1, ShopsNext, BudgetNext DEF TypeOK, CaptureOK, Captures, AnItem, AJob, PubWords
<1> QED BY <1>2, PlacesNext, AdminNext, JobsHeldNext DEF TypeInv

LEMMA TypeInvariance == Spec => []TypeInv
BY TypeInit, TypeNext, PTL DEF Spec

\* Type correctness: whatever the processes do, the tables hold what their columns
\* allow, and no item ends with a word of the runner.
THEOREM TypeCorrect == Spec => []TypeOK
BY TypeInvariance, PTL DEF TypeInv

-----------------------------------------------------------------------------
\* What an item is told is the outcome of a job of its own ASIN, and a runner that
\* says published has been accepted by eBay.
Linking == {"counting", "counting captures", "settling", "linking"}

WorkerLinks == \A w \in Workers : at[w].pc \in Linking => job[at[w].job].asin = at[w].asin
ItemLinks   == \A a \in Asins : item[a].job # 0 => item[a].job \in Jobs /\ job[item[a].job].asin = a
Accepted    == \A r \in Runners : at[r].pc # "idle" /\ at[r].says = "published" => flows[Asin(r)] > 0

OutcomeInv == WorkerLinks /\ ItemLinks /\ Accepted /\ PublishedIsListed

LEMMA OutcomeInit == Init => OutcomeInv
<1> SUFFICES ASSUME Init PROVE OutcomeInv
  OBVIOUS
<1>1. \A p \in Procs : at[p].pc \in {"idle", "away"}
  BY DEF Init, Idle, Away
<1>2. \A r \in Runners : at[r] = Idle
  BY DEF Init, Procs
<1>3. WorkerLinks /\ Accepted
  <2>1. WorkerLinks
    BY <1>1 DEF WorkerLinks, Linking, Procs
  <2>2. Idle.pc = "idle"
    BY DEF Idle
  <2>3. Accepted
    BY <1>2, <2>2 DEF Accepted
  <2> QED BY <2>1, <2>3
<1>4. \A a \in Asins : item[a].job = 0 /\ item[a].status # "published"
  BY DEF Init
<1> QED BY <1>3, <1>4 DEF OutcomeInv, ItemLinks, PublishedIsListed

LEMMA FlowsGrow ==
    ASSUME TypeInv, [Next]_vars
    PROVE  \A a \in Products : flows'[a] >= flows[a]
<1>1. flows \in [Products -> Nat]
  BY Tables DEF TypeInv
<1>2. CASE FlowsKept
  BY <1>1, <1>2 DEF FlowsKept
<1>3. ASSUME NEW r \in Runners, Publish(r)
      PROVE  \A a \in Products : flows'[a] >= flows[a]
  <2>1. flows' = [flows EXCEPT ![Asin(r)] = flows[Asin(r)] + 1]
    BY <1>3 DEF Publish
  <2> QED BY <1>1, <2>1
<1>4. CASE UNCHANGED vars \/ Restart \/ (\E r \in Runners : Reopen(r))
           \/ \E w \in Workers, over \in SUBSET Leased : Claim(w, over)
  BY <1>2, <1>4 DEF vars, Restart, Reopen, Claim, ClaimItem, ClaimNothing, shops, FlowsKept
<1> QED BY <1>2, <1>3, <1>4, WorkersLeave, RunnersLeave, PanelLeaves DEF Next, Errors

\* A job that has an ASIN keeps it.
LEMMA AsinStays ==
    ASSUME TypeInv, [Next]_vars, NEW j \in Jobs, job[j].asin \in Products
    PROVE  job'[j].asin = job[j].asin
BY AsinsNext, DirectListAssumption DEF AsinsKept, Products

\* What a step does to a worker's link.
WorkerStep(w) == \/ at'[w] = at[w]
                 \/ at'[w].pc \notin Linking
                 \/ at[w].pc \in Linking /\ at'[w].job = at[w].job /\ at'[w].asin = at[w].asin
                 \/ CreateCommand(w) \/ FindTwin(w) \/ InsertJob(w)

LEMMA WorkerLinkNext ==
    ASSUME TypeInv, [Next]_vars, NEW w \in Workers
    PROVE  WorkerStep(w)
<1>1. at \in [Procs -> Places] /\ w \in Procs /\ w \notin Runners /\ at[w] \in Places
  BY DirectListAssumption DEF TypeInv, PlacesOK, Procs
<1>2. CASE UNCHANGED at
  BY <1>2 DEF WorkerStep
<1>3. CASE \E p \in Procs : p # w /\ \E x : Lands(p, x)
  BY <1>1, <1>3 DEF Lands, WorkerStep
<1>4. ASSUME NEW to, NEW word, Says(w, to, word) \/ Goto(w, to), to \notin Linking
      PROVE  WorkerStep(w)
  BY <1>1, <1>4 DEF Says, Goto, Places, WorkerStep
<1>5. CASE Leaves(w)
  BY <1>1, <1>5 DEF Leaves, Idle, Linking, WorkerStep
<1>6. ASSUME Progress(w) PROVE WorkerStep(w)
  <2>1. ASSUME NEW to, NEW word, Decides(w, to, word), at[w].pc \in Linking \/ to \notin Linking
        PROVE  WorkerStep(w)
    <3> DEFINE x == [at[w] EXCEPT !.pc = to, !.verdict = word]
    <3>1. x.pc = to /\ x.job = at[w].job /\ x.asin = at[w].asin
      BY <1>1 DEF Places
    <3>2. Lands(w, x)
      BY <1>1, <2>1, Deciding
    <3>3. at'[w] = x
      BY <1>1, <3>2 DEF Lands
    <3> HIDE DEF x
    <3> QED BY <2>1, <3>1, <3>3 DEF WorkerStep
  <2>2. CASE MarkCapture(w)
    <3>1. CASE at' = [at EXCEPT ![w] = Retold(w)]
      <4>1. at'[w].pc = "visiting"
        BY <1>1, <3>1 DEF Retold, Idle
      <4> QED BY <4>1 DEF WorkerStep, Linking
    <3> QED BY <1>5, <2>2, <3>1 DEF MarkCapture, Retold
  <2>3. CASE CountJobs(w) \/ CountCaptures(w) \/ SettleCommand(w)
    <3>1. at[w].pc \in Linking
      BY <2>3 DEF CountJobs, CountCaptures, SettleCommand, Linking
    <3> QED BY <2>1, <2>3, <3>1 DEF CountJobs, CountCaptures, SettleCommand
  <2>4. CASE CountItems(w)
    <3>1. "marking" \notin Linking
      BY DEF Linking
    <3> QED BY <2>1, <2>4, <3>1 DEF CountItems
  <2> QED BY <1>6, <2>2, <2>3, <2>4 DEF Progress
<1>7. ASSUME VisitEnds(w) \/ Handler(w) \/ HandlerFails(w) PROVE WorkerStep(w)
  <2>1. CASE Submit(w) \/ Fail(w) \/ WriteItem(w) \/ Extract(w) \/ AvailabilityBlocks(w)
    <3>1. {"writing", "extracting", "refreshing", "appending"} \cap Linking = {}
      BY DEF Linking
    <3> QED BY <1>4, <1>5, <2>1, <3>1 DEF Submit, Fail, WriteItem, Extract, AvailabilityBlocks
  <2>2. CASE ReadLink(w)
    BY <1>1, <2>2 DEF ReadLink, Linking, Places, WorkerStep
  <2>3. CASE LinkItem(w)
    BY <1>1, <2>3 DEF LinkItem, Linking, Places, WorkerStep
  <2>4. CASE HandlerFails(w)
    <3>1. Retold(w).pc = "visiting"
      BY DEF Retold, Idle
    <3> QED BY <1>1, <2>4, <3>1 DEF HandlerFails, Linking, WorkerStep
  <2>5. CASE GiveUp(w) \/ SubmitRefused(w)
    BY <1>5, <2>5 DEF GiveUp, SubmitRefused
  <2>6. CASE CreateCommand(w) \/ FindTwin(w) \/ InsertJob(w)
    BY <2>6 DEF WorkerStep
  <2> QED BY <1>6, <1>7, <2>1, <2>2, <2>3, <2>4, <2>5, <2>6 DEF VisitEnds, Handler
<1>8. ASSUME NEW v \in Workers, v # w, VisitEnds(v) \/ Handler(v) \/ HandlerFails(v)
      PROVE  at'[w] = at[w]
  <2>a. CASE VisitEnds(v)
    BY <1>1, <1>8, <2>a DEF VisitEnds, GiveUp, SubmitRefused, Submit, Fail, Goto, Says, Leaves, Decides
  <2>b. CASE HandlerFails(v)
    BY <1>1, <1>8, <2>b DEF HandlerFails, Goto, Says, Leaves, Decides
  <2>c. CASE Progress(v)
    BY <1>1, <1>8, <2>c DEF Progress, CountJobs, CountCaptures, SettleCommand, CountItems, MarkCapture, Goto, Says, Leaves, Decides
  <2>d. CASE WriteItem(v) \/ Extract(v) \/ AvailabilityBlocks(v) \/ ReadLink(v)
    BY <1>1, <1>8, <2>d DEF WriteItem, Extract, AvailabilityBlocks, ReadLink, Goto, Says, Leaves, Decides
  <2>e. CASE CreateCommand(v) \/ FindTwin(v) \/ InsertJob(v) \/ LinkItem(v)
    BY <1>1, <1>8, <2>e DEF CreateCommand, FindTwin, InsertJob, LinkItem, Goto, Says, Leaves, Decides
  <2> QED BY <1>8, <2>a, <2>b, <2>c, <2>d, <2>e DEF Handler
<1>9. ASSUME NEW r \in Runners, Runner(r) \/ RunnerFails(r) \/ SaveFails(r)
      PROVE  at'[w] = at[w]
  <2>1. r # w
    BY <1>1
  <2> USE <1>1, <2>1 DEF Goto, Says, Leaves, Decides
  <2>2. CASE Progress(r)
    BY <2>2 DEF Progress, CountJobs, CountCaptures, SettleCommand, CountItems, MarkCapture
  <2>3. CASE ClaimJob(r) \/ Check(r) \/ List(r) \/ Publish(r) \/ PublishRefused(r)
    BY <2>3 DEF ClaimJob, Check, List, Publish, PublishRefused
  <2>4. CASE SavePool(r) \/ SaveCatalog(r) \/ EndJob(r) \/ Report(r)
    BY <2>4 DEF SavePool, SaveCatalog, EndJob, Report
  <2>5. CASE RunnerFails(r) \/ SaveFails(r)
    BY <2>5 DEF RunnerFails, SaveFails
  <2> QED BY <1>9, <2>2, <2>3, <2>4, <2>5 DEF Runner
<1>10. ASSUME NEW v \in Workers, NEW over \in SUBSET Leased, Claim(v, over)
       PROVE  WorkerStep(w)
  <2>1. CASE ClaimItem(v, over)
    <3>1. at'[w] = at[w] \/ at'[w].pc = "visiting"
      BY <1>1, <2>1 DEF ClaimItem, Places
    <3> QED BY <3>1 DEF Linking, WorkerStep
  <2>2. CASE ClaimNothing(v, over)
    BY <1>2, <2>2 DEF ClaimNothing
  <2> QED BY <1>10, <2>1, <2>2 DEF Claim
<1>11. CASE Restart
  <2>1. at'[w] = at[w] \/ at'[w] = Retold(w)
    BY <1>1, <1>11 DEF Restart
  <2> QED BY <2>1 DEF Retold, Idle, Linking, WorkerStep
<1>12. CASE Panel \/ ActSettles
  <2>1. UNCHANGED at
    BY <1>12 DEF Panel, ActSettles, StartItem, StartCommand, CancelCapture, CancelItems, CancelJobs,
       CancelCommand, AskPause, Pause, AskResume, Resume
  <2> QED BY <1>2, <2>1
<1>13. CASE UNCHANGED vars \/ \E s \in Runners : Reopen(s)
  BY <1>2, <1>13 DEF vars, Reopen
<1>14. at'[w] = at[w] => WorkerStep(w)
  BY DEF WorkerStep
<1>15. ASSUME NEW v \in Workers, VisitEnds(v) \/ Handler(v) \/ HandlerFails(v)
       PROVE  WorkerStep(w)
  <2>1. CASE v = w
    BY <1>7, <1>15, <2>1
  <2>2. CASE v # w
    BY <1>8, <1>14, <1>15, <2>2
  <2> QED BY <2>1, <2>2
<1>16. ASSUME NEW r \in Runners, Runner(r) \/ RunnerFails(r) \/ SaveFails(r)
       PROVE  WorkerStep(w)
  BY <1>9, <1>14, <1>16
<1> QED BY <1>10, <1>11, <1>12, <1>13, <1>15, <1>16 DEF Next, Errors

LEMMA WorkerLinksNext ==
    ASSUME TypeInv, OutcomeInv, [Next]_vars
    PROVE  WorkerLinks'
<1> SUFFICES ASSUME NEW w \in Workers, at'[w].pc \in Linking
             PROVE  job'[at'[w].job].asin = at'[w].asin
  BY DEF WorkerLinks
<1>1. /\ at \in [Procs -> Places] /\ w \in Procs /\ at[w] \in Places /\ WorkerAt(at[w])
      /\ job \in [Jobs -> AJob]
  BY Tables DEF TypeInv, PlacesOK, Procs
<1>2. CASE at[w].pc \in Linking /\ at'[w].job = at[w].job /\ at'[w].asin = at[w].asin
  <2>1. at[w].job \in Jobs /\ at[w].asin \in Asins /\ job[at[w].job].asin = at[w].asin
    BY <1>1, <1>2 DEF WorkerAt, OutcomeInv, WorkerLinks, Linking
  <2> QED BY <1>2, <2>1, AsinStays DEF Products
<1>3. CASE CreateCommand(w) \/ InsertJob(w)
  <2>1. ASSUME NEW j \in NextJob, NEW c, job' = [job EXCEPT ![j] = NewJob(at[w].asin, c)],
               at'[w].job = j, at'[w].asin = at[w].asin
        PROVE  job'[at'[w].job].asin = at'[w].asin
    BY <1>1, <2>1 DEF NextJob, NewJob
  <2>2. CASE CreateCommand(w)
    <3>1. PICK c \in NextCommand, j \in NextJob :
            /\ job' = [job EXCEPT ![j] = NewJob(at[w].asin, c)]
            /\ at' = [at EXCEPT ![w].pc = "counting", ![w].job = j, ![w].cmd = c]
      BY <2>2 DEF CreateCommand
    <3>2. at'[w].job = j /\ at'[w].asin = at[w].asin
      BY <1>1, <3>1 DEF Places
    <3> QED BY <2>1, <3>1, <3>2
  <2>3. CASE InsertJob(w)
    <3>1. PICK j \in NextJob :
            /\ job' = [job EXCEPT ![j] = NewJob(at[w].asin, at[w].cmd)]
            /\ at' = [at EXCEPT ![w].pc = "counting", ![w].job = j]
      BY <2>3 DEF InsertJob
    <3>2. at'[w].job = j /\ at'[w].asin = at[w].asin
      BY <1>1, <3>1 DEF Places
    <3> QED BY <2>1, <3>1, <3>2
  <2> QED BY <1>3, <2>2, <2>3
<1>4. CASE FindTwin(w)
  <2>1. CASE Goto(w, "inserting")
    BY <1>1, <2>1 DEF Goto, Linking, Places
  <2>2. ASSUME NEW j \in Twins(w), at' = [at EXCEPT ![w].pc = "linking", ![w].job = j]
        PROVE  job'[at'[w].job].asin = at'[w].asin
    <3>1. at'[w].job = j /\ at'[w].asin = at[w].asin
      BY <1>1, <2>2 DEF Places
    <3>2. j \in Jobs /\ job[j].asin = at[w].asin /\ job' = job
      BY <1>4 DEF FindTwin, Twins, JobsOf, rows
    <3> QED BY <3>1, <3>2
  <2> QED BY <1>4, <2>1, <2>2 DEF FindTwin
<1>5. CASE at'[w] = at[w]
  BY <1>2, <1>5
<1> QED BY <1>2, <1>3, <1>4, <1>5, WorkerLinkNext DEF WorkerStep

LEMMA ItemLinksNext ==
    ASSUME TypeInv, OutcomeInv, [Next]_vars
    PROVE  ItemLinks'
<1> SUFFICES ASSUME NEW a \in Asins, item'[a].job # 0
             PROVE  item'[a].job \in Jobs /\ job'[item'[a].job].asin = a
  BY DEF ItemLinks
<1>1. item \in [Asins -> AnItem] /\ item[a] \in AnItem
  BY Tables DEF TypeInv
<1>2. CASE item'[a].job = item[a].job
  <2>1. item[a].job \in Jobs /\ job[item[a].job].asin = a
    BY <1>2 DEF OutcomeInv, ItemLinks
  <2> QED BY <1>2, <2>1, AsinStays DEF Products
<1>3. ASSUME NEW w \in Workers, LinkItem(w)
      PROVE  item'[a].job \in Jobs /\ job'[item'[a].job].asin = a
  <2>1. at[w].asin \in Asins /\ at[w].job \in Jobs /\ job[at[w].job].asin = at[w].asin /\ job' = job
    BY <1>3 DEF LinkItem, TypeInv, PlacesOK, WorkerAt, OutcomeInv, WorkerLinks, Linking
  <2>2. a # at[w].asin => item'[a] = item[a]
    BY <1>1, <1>3 DEF LinkItem
  <2>3. a = at[w].asin => item'[a].job = at[w].job
    BY <1>1, <1>3, <2>1 DEF LinkItem, AnItem
  <2> QED BY <1>2, <2>1, <2>2, <2>3
<1>4. CASE ItemKept
  BY <1>2, <1>4 DEF ItemKept
<1>5. ASSUME NEW w \in Workers, WriteItem(w)
      PROVE  item'[a].job = item[a].job
  BY <1>1, <1>5 DEF WriteItem, AnItem
<1>6. ASSUME NEW r \in Runners, Report(r)
      PROVE  item'[a].job = item[a].job
  BY <1>1, <1>6 DEF Report, AnItem
<1>7. ASSUME NEW w \in Workers, NEW over \in SUBSET Leased, Claim(w, over)
      PROVE  item'[a].job = item[a].job
  <2>1. Swept(a, over).job = item[a].job
    BY <1>1 DEF Swept, AnItem
  <2>2. CASE item'[a] = Swept(a, over)
    BY <2>1, <2>2
  <2>3. CASE item'[a] = [item[a] EXCEPT !.status = "capturing", !.leased = TRUE, !.tries = @ + 1]
    BY <1>1, <2>3 DEF AnItem
  <2>4. item'[a] \in {Swept(a, over), [item[a] EXCEPT !.status = "capturing", !.leased = TRUE, !.tries = @ + 1]}
    BY <1>7 DEF Claim, ClaimItem, ClaimNothing
  <2> QED BY <2>2, <2>3, <2>4
<1>8. CASE CancelItems \/ \E b \in Asins : StartItem(b)
  <2>1. CASE CancelItems
    BY <1>1, <1>2, <2>1 DEF CancelItems, AnItem
  <2>2. ASSUME NEW b \in Asins, StartItem(b)
        PROVE  item'[a].job = item[a].job
    BY <1>1, <2>2 DEF StartItem, AnItem
  <2> QED BY <1>2, <1>8, <2>1, <2>2
<1>9. CASE UNCHANGED vars \/ Restart \/ \E r \in Runners : Reopen(r)
  BY <1>4, <1>9 DEF vars, Restart, Reopen, ItemKept
<1> QED BY <1>2, <1>3, <1>4, <1>5, <1>6, <1>7, <1>8, <1>9, WorkersLeave, RunnersLeave, PanelLeaves DEF Next, Errors

LEMMA AcceptedNext ==
    ASSUME TypeInv, OutcomeInv, [Next]_vars
    PROVE  Accepted'
<1> SUFFICES ASSUME NEW r \in Runners, at'[r].pc # "idle", at'[r].says = "published"
             PROVE  flows'[job'[at'[r].job].asin] > 0
  BY DEF Accepted, Asin
<1>1. /\ flows \in [Products -> Nat] /\ flows' \in [Products -> Nat] /\ Idle.pc = "idle"
      /\ \A a \in Products : flows'[a] >= flows[a]
  BY Tables, FlowsNext, FlowsGrow DEF TypeInv, Idle
<1>2. ASSUME at[r].pc # "idle", at'[r].job = at[r].job
      PROVE  at[r].job \in Jobs /\ Asin(r) \in Products /\ job'[at'[r].job].asin = Asin(r)
  BY <1>2, AsinStays DEF TypeInv, JobsHeld, Asin
<1>3. CASE at[r].pc # "idle" /\ at'[r].job = at[r].job /\ at[r].says = "published"
  <2>1. flows[Asin(r)] > 0
    BY <1>3 DEF OutcomeInv, Accepted
  <2> QED BY <1>1, <1>2, <1>3, <2>1
<1>4. CASE at[r].pc # "idle" /\ at'[r].job = at[r].job /\ Publish(r)
  <2>1. flows' = [flows EXCEPT ![Asin(r)] = flows[Asin(r)] + 1]
    BY <1>4 DEF Publish
  <2>2. flows'[Asin(r)] > 0
    BY <1>1, <1>2, <1>4, <2>1
  <2> QED BY <1>2, <1>4, <2>2
<1>5. CASE at'[r] = at[r]
  BY <1>3, <1>5
<1> QED BY <1>1, <1>3, <1>4, <1>5, RunnerStepNext DEF RunnerStep

\* Only the runner's report makes an item published.
LEMMA PublishedNext ==
    ASSUME TypeInv, OutcomeInv, [Next]_vars
    PROVE  PublishedIsListed'
<1> SUFFICES ASSUME NEW a \in Asins, item'[a].status = "published"
             PROVE  flows'[a] > 0
  BY DEF PublishedIsListed
<1>1. item \in [Asins -> AnItem] /\ item[a] \in AnItem /\ flows \in [Products -> Nat]
      /\ flows' \in [Products -> Nat] /\ flows'[a] >= flows[a] /\ a \in Products
  BY Tables, FlowsNext, FlowsGrow DEF TypeInv, Products
<1>2. CASE item[a].status = "published"
  BY <1>1, <1>2 DEF OutcomeInv, PublishedIsListed
<1>3. ASSUME NEW r \in Runners, Report(r)
      PROVE  flows'[a] > 0
  <2>1. CASE a \in Told(at[r].job)
    <3>1. item'[a].status = OutcomeOf(at[r].says)
      BY <1>1, <1>3, <2>1 DEF Report, AnItem
    <3>2. at[r].says = "published" /\ at[r].pc # "idle"
      <4>1. OutcomeOf(at[r].says) = "published"
        BY <3>1
      <4>2. at[r].pc = "reporting"
        BY <1>3 DEF Report
      <4> QED BY <4>1, <4>2 DEF OutcomeOf
    <3>3. at[r].job \in Jobs
      BY <3>2 DEF TypeInv, JobsHeld
    <3>4. item[a].job = at[r].job /\ item[a].job # 0
      BY <2>1, <3>3, DirectListAssumption DEF Told, Jobs
    <3>5. Asin(r) = a
      BY <3>4 DEF OutcomeInv, ItemLinks, Asin
    <3> QED BY <1>1, <3>2, <3>5 DEF OutcomeInv, Accepted
  <2>2. CASE a \notin Told(at[r].job)
    BY <1>1, <1>2, <1>3, <2>2 DEF Report
  <2> QED BY <2>1, <2>2
<1>4. CASE ItemKept
  BY <1>2, <1>4 DEF ItemKept
<1>5. ASSUME NEW w \in Workers, WriteItem(w)
      PROVE  item[a].status = "published"
  <2>1. at[w].says # "published"
    BY <1>5 DEF WriteItem, TypeInv, PlacesOK, WorkerAt, Written
  <2> QED BY <1>1, <1>5, <2>1 DEF WriteItem, AnItem
<1>6. ASSUME NEW w \in Workers, LinkItem(w)
      PROVE  item[a].status = "published"
  BY <1>1, <1>6 DEF LinkItem, AnItem
<1>7. ASSUME NEW w \in Workers, NEW over \in SUBSET Leased, Claim(w, over)
      PROVE  item[a].status = "published"
  <2>1. Swept(a, over).status = "published" => item[a].status = "published"
    BY <1>1 DEF Swept, AnItem
  <2>2. CASE ClaimItem(w, over)
    <3>1. PICK c \in Candidates(over) :
            item' = [b \in Asins |-> IF b = c
                       THEN [item[c] EXCEPT !.status = "capturing", !.leased = TRUE, !.tries = @ + 1]
                       ELSE Swept(b, over)]
      BY <2>2 DEF ClaimItem
    <3>2. item'[a] = IF a = c THEN [item[c] EXCEPT !.status = "capturing", !.leased = TRUE, !.tries = @ + 1]
                     ELSE Swept(a, over)
      BY <1>1, <3>1
    <3>3. CASE a = c
      <4>1. item'[a].status = "capturing"
        BY <1>1, <3>2, <3>3 DEF AnItem
      <4> QED BY <1>1, <4>1
    <3> QED BY <1>1, <2>1, <3>2, <3>3
  <2>3. CASE ClaimNothing(w, over)
    BY <1>1, <2>1, <2>3 DEF ClaimNothing
  <2> QED BY <1>7, <2>2, <2>3 DEF Claim
<1>8. CASE CancelItems \/ \E b \in Asins : StartItem(b)
  <2>1. CASE CancelItems
    BY <1>1, <1>2, <2>1 DEF CancelItems, AnItem
  <2>2. ASSUME NEW b \in Asins, StartItem(b)
        PROVE  item[a].status = "published"
    BY <1>1, <2>2 DEF StartItem, AnItem
  <2> QED BY <1>2, <1>8, <2>1, <2>2
<1>9. CASE UNCHANGED vars \/ Restart \/ \E r \in Runners : Reopen(r)
  BY <1>4, <1>9 DEF vars, Restart, Reopen, ItemKept
<1> QED BY <1>2, <1>3, <1>4, <1>5, <1>6, <1>7, <1>8, <1>9, WorkersLeave, RunnersLeave, PanelLeaves DEF Next, Errors

LEMMA OutcomeInvariance == Spec => []OutcomeInv
<1>1. TypeInv /\ OutcomeInv /\ [Next]_vars => OutcomeInv'
  BY WorkerLinksNext, ItemLinksNext, AcceptedNext, PublishedNext DEF OutcomeInv
<1> QED BY <1>1, OutcomeInit, TypeInvariance, PTL DEF Spec

\* An item shown as published was accepted by eBay.
THEOREM PublishedWasListed == Spec => []PublishedIsListed
BY OutcomeInvariance, PTL DEF OutcomeInv

-----------------------------------------------------------------------------
\* With one runner, and until something fails, what eBay has accepted is in the
\* catalog or on the runner's way there, and nothing of the catalog is published again.
OneRunner == \A r, s \in Runners : r = s

OnItsWay(a) == \E r \in Runners : at[r].pc \in {"saving", "cataloguing"} /\ Asin(r) = a

OnceInv == faults = shift.faults =>
    /\ \A a \in Products : flows[a] <= 1
    /\ \A a \in Products : flows[a] = 0 \/ a \in catalog \/ OnItsWay(a)
    /\ \A r \in Runners : at[r].pc = "publishing" => Asin(r) \notin catalog

\* The same of one runner.
OnceWith(r) ==
    /\ \A a \in Products : flows[a] <= 1
    /\ \A a \in Products : flows[a] = 0 \/ a \in catalog \/ (at[r].pc \in {"saving", "cataloguing"} /\ Asin(r) = a)
    /\ at[r].pc = "publishing" => Asin(r) \notin catalog

\* A step of nobody's runner.
LEMMA OnceElsewhere ==
    ASSUME TypeInv, OnceInv, [Next]_vars, faults' = faults, shift' = shift, flows' = flows, catalog' = catalog,
           \A r \in Runners : at'[r] = at[r]
    PROVE  OnceInv'
<1>1. \A r \in Runners : at[r].pc # "idle" => Asin(r)' = Asin(r)
  BY AsinStays DEF TypeInv, JobsHeld, Asin
<1> QED BY <1>1 DEF OnceInv, OnItsWay

LEMMA OnceNext ==
    ASSUME OneRunner, TypeInv, OnceInv, [Next]_vars
    PROVE  OnceInv'
<1> SUFFICES ASSUME faults' = shift'.faults PROVE OnceInv'
  BY DEF OnceInv
<1>1. BudgetStep /\ faults \in 0 .. shift.faults /\ shift.faults \in Nat
  BY BudgetStepNext, Tables, DirectListAssumption DEF TypeInv
<1>2. shift' = shift /\ faults' = faults /\ faults = shift.faults
  BY <1>1 DEF BudgetStep
<1>3. /\ at \in [Procs -> Places] /\ flows \in [Products -> Nat] /\ catalog \subseteq Products
      /\ \A w \in Workers : w \in Procs /\ w \notin Runners
  BY Tables, DirectListAssumption DEF TypeInv, PlacesOK, Procs
<1>4. ASSUME NEW w \in Workers, VisitEnds(w) \/ Handler(w) \/ HandlerFails(w)
      PROVE  OnceInv'
  <2>1. flows' = flows /\ catalog' = catalog
    <3> USE DEF shops
    <3>1. CASE VisitEnds(w)
      BY <3>1 DEF VisitEnds, GiveUp, SubmitRefused, Submit, Fail
    <3>2. CASE HandlerFails(w)
      BY <3>2 DEF HandlerFails
    <3>3. CASE Progress(w)
      BY <3>3 DEF Progress, CountJobs, CountCaptures, SettleCommand, CountItems, MarkCapture
    <3>4. CASE WriteItem(w) \/ Extract(w) \/ AvailabilityBlocks(w) \/ ReadLink(w)
      BY <3>4 DEF WriteItem, Extract, AvailabilityBlocks, ReadLink
    <3>5. CASE CreateCommand(w) \/ FindTwin(w) \/ InsertJob(w) \/ LinkItem(w)
      BY <3>5 DEF CreateCommand, FindTwin, InsertJob, LinkItem
    <3> QED BY <1>4, <3>1, <3>2, <3>3, <3>4, <3>5 DEF Handler
  <2>2. \A r \in Runners : at'[r] = at[r]
    <3> SUFFICES ASSUME NEW r \in Runners PROVE at'[r] = at[r]
      OBVIOUS
    <3>0. r # w /\ r \in Procs
      BY <1>3 DEF Procs
    <3> USE <1>3, <3>0 DEF Goto, Says, Leaves, Decides
    <3>1. CASE VisitEnds(w)
      BY <3>1 DEF VisitEnds, GiveUp, SubmitRefused, Submit, Fail
    <3>2. CASE HandlerFails(w)
      BY <3>2 DEF HandlerFails
    <3>3. CASE Progress(w)
      BY <3>3 DEF Progress, CountJobs, CountCaptures, SettleCommand, CountItems, MarkCapture
    <3>4. CASE WriteItem(w) \/ Extract(w) \/ AvailabilityBlocks(w) \/ ReadLink(w)
      BY <3>4 DEF WriteItem, Extract, AvailabilityBlocks, ReadLink
    <3>5. CASE CreateCommand(w) \/ FindTwin(w) \/ InsertJob(w) \/ LinkItem(w)
      BY <3>5 DEF CreateCommand, FindTwin, InsertJob, LinkItem
    <3> QED BY <1>4, <3>1, <3>2, <3>3, <3>4, <3>5 DEF Handler
  <2> QED BY <1>2, <2>1, <2>2, OnceElsewhere
<1>5. ASSUME NEW w \in Workers, NEW over \in SUBSET Leased, Claim(w, over)
      PROVE  OnceInv'
  <2>1. flows' = flows /\ catalog' = catalog
    BY <1>5 DEF Claim, ClaimItem, ClaimNothing, shops
  <2>2. ASSUME NEW r \in Runners
        PROVE  at'[r] = at[r]
    <3>1. r # w /\ r \in Procs
      BY <1>3 DEF Procs
    <3> QED BY <1>3, <1>5, <3>1 DEF Claim, ClaimItem, ClaimNothing
  <2> QED BY <1>2, <2>1, <2>2, OnceElsewhere
<1>6. CASE Panel \/ ActSettles
  <2>1. UNCHANGED <<at, flows, catalog>>
    BY <1>6 DEF Panel, ActSettles, StartItem, StartCommand, CancelCapture, CancelItems, CancelJobs,
       CancelCommand, AskPause, Pause, AskResume, Resume, shops
  <2> QED BY <1>2, <2>1, OnceElsewhere
<1>7. CASE UNCHANGED vars \/ \E r \in Runners : Reopen(r)
  <2>1. UNCHANGED <<at, flows, catalog>>
    BY <1>7 DEF vars, Reopen, shops
  <2> QED BY <1>2, <2>1, OnceElsewhere
<1>8. ASSUME NEW r \in Runners, Runner(r)
      PROVE  OnceInv'
  <2>1. /\ r \in Procs /\ at[r] \in Places /\ \A s \in Runners : s = r
        /\ at[r].pc # "idle" => Asin(r)' = job'[at'[r].job].asin
        /\ at[r].pc # "idle" => Asin(r) \in Products
        /\ at[r].pc # "idle" => job'[at[r].job].asin = Asin(r)
    BY <1>3, AsinStays DEF OneRunner, Procs, TypeInv, JobsHeld, Asin
  <2>2. OnceWith(r)
    BY <1>2, <2>1 DEF OnceInv, OnItsWay, OnceWith
  <2>3. SUFFICES OnceWith(r)'
    BY <2>1 DEF OnceInv, OnItsWay, OnceWith
  <2>4. ASSUME NEW to, Goto(r, to), at[r].pc # "idle"
        PROVE  at'[r].pc = to /\ Asin(r)' = Asin(r)
    BY <1>3, <2>1, <2>4 DEF Goto, Places, Asin
  <2>5. ASSUME NEW to, NEW word, Says(r, to, word), at[r].pc # "idle"
        PROVE  at'[r].pc = to /\ Asin(r)' = Asin(r)
    <3> DEFINE x == [at[r] EXCEPT !.pc = to, !.says = word]
    <3>1. x.pc = to /\ x.job = at[r].job
      BY <2>1 DEF Places
    <3>2. Lands(r, x)
      BY <1>3, <2>1, <2>5, Saying
    <3>3. at'[r] = x
      BY <1>3, <2>1, <3>2 DEF Lands
    <3> HIDE DEF x
    <3> QED BY <2>1, <2>5, <3>1, <3>3 DEF Asin
  <2>6. CASE Publish(r)
    <3>1. Says(r, "saving", "published")
      BY <1>1, <1>2, <2>6 DEF Publish
    <3>2. at'[r].pc = "saving" /\ Asin(r)' = Asin(r) /\ catalog' = catalog /\ Asin(r) \in Products
      BY <2>1, <2>5, <2>6, <3>1 DEF Publish
    <3>3. flows' = [flows EXCEPT ![Asin(r)] = flows[Asin(r)] + 1]
      BY <2>6 DEF Publish
    <3>4. flows[Asin(r)] = 0
      BY <1>3, <2>2, <2>6, <3>2 DEF Publish, OnceWith
    <3> QED BY <1>3, <2>2, <2>6, <3>2, <3>3, <3>4 DEF OnceWith
  <2>7. CASE SavePool(r)
    <3>1. at'[r].pc = "cataloguing" /\ Asin(r)' = Asin(r) /\ UNCHANGED <<flows, catalog>>
      BY <2>4, <2>7 DEF SavePool
    <3> QED BY <2>2, <2>7, <3>1 DEF OnceWith, SavePool
  <2>8. CASE SaveCatalog(r)
    <3>1. at'[r].pc = "ending" /\ Asin(r)' = Asin(r) /\ UNCHANGED flows /\ catalog' = catalog \cup {Asin(r)}
      BY <2>4, <2>8 DEF SaveCatalog
    <3> QED BY <2>2, <2>8, <3>1 DEF OnceWith, SaveCatalog
  <2>9. CASE List(r)
    <3>1. UNCHANGED <<flows, catalog>> /\ at[r].pc = "listing"
      BY <2>9 DEF List, shops
    <3>2. CASE Goto(r, "publishing") /\ ~AlreadyListed(Asin(r))
      <4>1. at'[r].pc = "publishing" /\ Asin(r)' = Asin(r) /\ Asin(r) \notin catalog
        BY <2>4, <3>1, <3>2 DEF AlreadyListed
      <4> QED BY <2>2, <3>1, <4>1 DEF OnceWith
    <3>3. CASE \E word : Says(r, "ending", word)
      <4>1. at'[r].pc = "ending"
        BY <2>5, <3>1, <3>3
      <4> QED BY <2>2, <3>1, <4>1 DEF OnceWith
    <3> QED BY <2>9, <3>2, <3>3 DEF List
  <2>10. ASSUME at[r].pc \notin {"saving", "cataloguing"}, at'[r].pc \notin {"publishing"}, UNCHANGED <<flows, catalog>>
         PROVE  OnceWith(r)'
    BY <2>2, <2>10 DEF OnceWith
  <2>11. ASSUME Leaves(r) PROVE at'[r].pc = "idle"
    BY <1>3, <2>1, <2>11 DEF Leaves, Idle
  <2>12. CASE Progress(r)
    <3>1. at[r].pc \notin {"saving", "cataloguing"} /\ UNCHANGED <<flows, catalog>>
      BY <2>12 DEF Progress, CountJobs, CountCaptures, SettleCommand, CountItems, MarkCapture, shops
    <3>2. ASSUME NEW to, NEW word, Decides(r, to, word)
          PROVE  at'[r].pc = to
      <4>1. Lands(r, [at[r] EXCEPT !.pc = to, !.verdict = word])
        BY <1>3, <2>1, <3>2, Deciding
      <4> QED BY <1>3, <2>1, <4>1 DEF Lands, Places
    <3>3. at'[r].pc # "publishing"
      <4>1. CASE MarkCapture(r)
        BY <1>3, <2>1, <4>1 DEF MarkCapture, Leaves, Idle, Procs
      <4> QED BY <2>12, <3>2, <4>1 DEF Progress, CountJobs, CountCaptures, SettleCommand, CountItems
    <3> QED BY <2>10, <3>1, <3>3
  <2>13. CASE ClaimJob(r)
    <3>1. at[r].pc = "idle" /\ UNCHANGED <<flows, catalog>>
      BY <2>13 DEF ClaimJob, shops
    <3>2. at'[r].pc = "checking"
      BY <1>3, <2>1, <2>13 DEF ClaimJob, Idle
    <3> QED BY <2>10, <3>1, <3>2
  <2>14. CASE Check(r)
    <3>1. at[r].pc = "checking" /\ UNCHANGED <<flows, catalog>>
      BY <2>14 DEF Check, shops
    <3>2. CASE at' = [at EXCEPT ![r].pc = "listing", ![r].caught = FALSE]
      <4>1. at'[r].pc = "listing"
        BY <1>3, <2>1, <3>2 DEF Places
      <4> QED BY <2>10, <3>1, <4>1
    <3>3. CASE \E word : Says(r, "ending", word)
      <4>1. at'[r].pc = "ending"
        BY <2>5, <3>1, <3>3
      <4> QED BY <2>10, <3>1, <4>1
    <3> QED BY <2>14, <3>2, <3>3 DEF Check
  <2>15. CASE PublishRefused(r)
    <3>1. at[r].pc = "publishing" /\ UNCHANGED <<flows, catalog>> /\ at'[r].pc = "ending"
      BY <2>5, <2>15 DEF PublishRefused, shops
    <3> QED BY <2>10, <3>1
  <2>16. CASE EndJob(r)
    <3>1. at[r].pc = "ending" /\ UNCHANGED <<flows, catalog>> /\ at'[r].pc = "counting"
      BY <2>4, <2>16 DEF EndJob, shops
    <3> QED BY <2>10, <3>1
  <2>17. CASE Report(r)
    <3>1. at[r].pc = "reporting" /\ UNCHANGED <<flows, catalog>>
      BY <2>17 DEF Report, shops
    <3>2. at'[r].pc # "publishing"
      <4>1. CASE Leaves(r)
        BY <2>11, <4>1
      <4>2. CASE Goto(r, "refreshing")
        BY <2>4, <3>1, <4>2
      <4> QED BY <2>17, <4>1, <4>2 DEF Report
    <3> QED BY <2>10, <3>1, <3>2
  <2> QED BY <1>8, <2>6, <2>7, <2>8, <2>9, <2>12, <2>13, <2>14, <2>15, <2>16, <2>17 DEF Runner
<1>9. faults' # faults - 1
  BY <1>1, <1>2
<1>10. ASSUME NEW r \in Runners
       PROVE  ~RunnerFails(r) /\ ~SaveFails(r)
  BY <1>9 DEF RunnerFails, SaveFails
<1>11. ~Restart
  BY <1>9 DEF Restart
<1> QED BY <1>4, <1>5, <1>6, <1>7, <1>8, <1>10, <1>11 DEF Next, Errors

\* Until a statement fails, a reply is lost or the server restarts, one runner
\* publishes an ASIN once, whatever jobs the requests have made for it.
THEOREM PublishedOnce == ASSUME OneRunner PROVE Spec => []ListedOnce
<1>1. Init => OnceInv
  <2> SUFFICES ASSUME Init PROVE OnceInv
    OBVIOUS
  <2>1. (\A r \in Runners : at[r].pc = "idle") /\ \A a \in Products : flows[a] = 0
    BY DEF Init, Procs, Idle
  <2> QED BY <2>1 DEF OnceInv
<1>2. TypeInv /\ OnceInv /\ [Next]_vars => OnceInv'
  BY OnceNext
<1>3. OnceInv => ListedOnce
  BY DEF OnceInv, ListedOnce
<1> QED BY <1>1, <1>2, <1>3, TypeInvariance, PTL DEF Spec

=============================================================================
