------------------------ MODULE ScanJobQueue_proofs ------------------------
(***************************************************************************)
(* Proofs about ScanJobQueue for any jobs and workers, either chain, and   *)
(* any number of attempts, claims, late requests and losses.               *)
(***************************************************************************)
EXTENDS ScanJobQueue, TLAPS

USE DEF jobVars, outboxVars, keepaVars, memVars, workerVars, past, history,
        vars, Workers, NoJob

(* A message that names a job where its handler needs one, with a reading  *)
(* where it is stored; a Plain one is not between the two halves of the     *)
(* handler of a result or a failure.                                       *)
Wire  == {m \in Message :
            /\ m.kind \notin {"claim", "take", "refused"} => m.job \in Jobs
            /\ m.kind \in {"result", "chain"} => m.seen \in Readings}
Plain == {m \in Wire : m.kind \notin {"chain", "failing"}}

MemInv ==
  /\ pc \in [Workers -> {"idle", "flush", "claim", "running", "observe",
                         "deliver"}]
  /\ hand \in [Workers -> Hands]
  /\ lost \in [Workers -> BOOLEAN]
  /\ saved \in [Workers -> SUBSET Plain]
  /\ todo \in [Workers -> SUBSET Plain]
  /\ acked \in [Workers -> SUBSET Plain]
  /\ request \in [Workers -> Wire \cup {None}]
  /\ \A w \in Workers : pc[w] \in {"running", "observe"} => hand[w].job \in Jobs

AirInv == late \subseteq Wire /\ renewal \in [Workers -> Plain \cup {None}]

Traffic == MemInv /\ AirInv

RowInv ==
  /\ JobsTypeOK
  /\ \A j \in Jobs : status[j] = "CLAIMED" => owner[j] \in Workers

ApplyInv ==
  /\ ApplyTypeOK
  /\ IF apply.stage = "idle" THEN apply = Idle ELSE apply.job \in Jobs

TypeInv == Traffic /\ RowInv /\ ApplyInv

LEMMA TypesFollow == TypeInv => TypeOK
BY DEF TypeInv, Traffic, MemInv, AirInv, RowInv, ApplyInv, TypeOK,
       WorkersTypeOK, Wire, Plain

LEMMA TypeInit == Init => TypeInv
<1> SUFFICES ASSUME Init PROVE TypeInv
  OBVIOUS
<1> USE DEF Init
<1>1. MemInv
  BY DEF MemInv, Hands, Nothing
<1>2. AirInv
  BY DEF AirInv
<1>3. RowInv
  BY DEF RowInv, JobsTypeOK, Statuses, Active
<1>4. ApplyInv
  BY DEF ApplyInv, ApplyTypeOK, Idle
<1> QED BY <1>1, <1>2, <1>3, <1>4 DEF TypeInv, Traffic

-----------------------------------------------------------------------------
(* Messages stay well-formed.                                              *)

LEMMA Written ==
  ASSUME NEW k \in {"claim", "running", "renew", "result", "fail", "refused"},
         NEW w \in Workers, NEW h \in Hands,
         NEW s \in Readings \cup Failures \cup {None},
         k \notin {"claim", "refused"} => h.job \in Jobs,
         k = "result" => s \in Readings
  PROVE  Msg(k, w, h, s) \in Plain
BY DEF Msg, Plain, Wire, Message, Hands

LEMMA AsSent ==
  ASSUME NEW m \in Wire
  PROVE  Sent(m) \in Plain
BY DEF Sent, Plain, Wire, Message


LEMMA NothingInHand == Nothing \in Hands
BY DEF Nothing, Hands

LEMMA RestKeeps ==
  ASSUME MemInv, NEW w \in Workers, Rest(w), UNCHANGED <<saved, todo, acked>>,
         request' = [request EXCEPT ![w] = None]
  PROVE  MemInv'
BY NothingInHand DEF MemInv, Rest

LEMMA HearsKeeps ==
  ASSUME MemInv, NEW w \in Workers, request[w] \in Wire, NEW answer,
         Hears(w, answer)
  PROVE  MemInv'
<1>0. Sent(request[w]) \in Plain
  BY AsSent
<1>1. CASE HearsFlushed(w, answer # "error")
  BY <1>0, <1>1 DEF HearsFlushed, MemInv
<1>2. CASE HearsClaimed(w, Nothing)
  BY <1>2, RestKeeps DEF HearsClaimed
<1>3. CASE HearsRunning(w, answer = "ok")
  <2>1. CASE answer = "ok"
    BY <1>3, <2>1 DEF HearsRunning, MemInv
  <2>2. CASE answer # "ok"
    BY <1>3, <2>2, RestKeeps DEF HearsRunning
  <2> QED BY <2>1, <2>2
<1>4. CASE HearsDelivered(w, answer)
  <2>1. saved' \in [Workers -> SUBSET Plain]
    BY <1>0, <1>4 DEF HearsDelivered, MemInv
  <2> QED BY <1>4, <2>1, NothingInHand
           DEF HearsDelivered, Rest, MemInv
<1> QED BY <1>1, <1>2, <1>3, <1>4 DEF Hears

LEMMA RequestsAreWire ==
  ASSUME Traffic
  PROVE  Requests \subseteq Wire /\ Renewals \subseteq Plain
BY DEF Traffic, MemInv, AirInv, Requests, Renewals

LEMMA AnswerKeeps ==
  ASSUME Traffic, NEW m \in Requests, NEW answer, Answer(m, answer)
  PROVE  Traffic'
<1>1. m \in Wire /\ m.worker \in Workers
  BY RequestsAreWire DEF Wire, Message
<1>2. CASE /\ Awaited(m) /\ Hears(m.worker, answer) /\ UNCHANGED late
           /\ UNCHANGED renewal
  <2>1. request[m.worker] \in Wire
    BY <1>1, <1>2 DEF Awaited
  <2>2. MemInv'
    BY <1>1, <1>2, <2>1, HearsKeeps DEF Traffic
  <2> QED BY <1>2, <2>2 DEF Traffic, AirInv
<1>3. CASE /\ late' = late \ {m} /\ UNCHANGED <<memVars, saved, request>>
           /\ UNCHANGED renewal
  BY <1>3 DEF Traffic, MemInv, AirInv
<1> QED BY <1>2, <1>3 DEF Answer

LEMMA ContinueKeeps ==
  ASSUME Traffic, NEW m \in Requests, NEW next \in Wire, Continue(m, next)
  PROVE  Traffic'
<1>1. m.worker \in Workers
  BY RequestsAreWire DEF Wire, Message
<1> QED BY <1>1 DEF Continue, Traffic, MemInv, AirInv

LEMMA AbandonKeeps ==
  ASSUME late \subseteq Wire, NEW S \in SUBSET Wire, Abandon(S)
  PROVE  late' \subseteq Wire
BY DEF Abandon

-----------------------------------------------------------------------------
(* Types are preserved, by the part of the state an action can disturb.    *)

LEMMA TrafficFrame ==
  ASSUME Traffic, UNCHANGED <<late, workerVars>>
  PROVE  Traffic'
BY DEF Traffic, MemInv, AirInv

LEMMA RowFrame ==
  ASSUME RowInv, UNCHANGED <<jobVars, outboxVars, keepaVars, past>>,
         losses' = losses \/ losses' = losses + 1
  PROVE  RowInv'
BY DEF RowInv, JobsTypeOK

LEMMA KeepaFrame ==
  ASSUME RowInv, UNCHANGED <<jobVars, outboxVars, past>>,
         candidate' \in {"OPEN", "MATCHED", "CONFLICT"},
         feeding' \in BOOLEAN, losses' \in Nat
  PROVE  RowInv'
BY DEF RowInv, JobsTypeOK

LEMMA ApplyFrame ==
  ASSUME ApplyInv, UNCHANGED apply
  PROVE  ApplyInv'
BY DEF ApplyInv, ApplyTypeOK

LEMMA TrafficStep ==
  ASSUME TypeInv, [Next]_vars
  PROVE  Traffic'
<1> USE DEF TypeInv
<1>1. ASSUME NEW j \in Jobs, PlannerEnqueues(j) PROVE Traffic'
  BY <1>1, TrafficFrame DEF PlannerEnqueues
<1>2. ASSUME NEW j \in Jobs, LeaseExpires(j) PROVE Traffic'
  BY <1>2, TrafficFrame DEF LeaseExpires
<1>3. ASSUME NEW j \in Jobs, ApplyTakes(j) PROVE Traffic'
  BY <1>3, TrafficFrame DEF ApplyTakes
<1>4. CASE FeederSelects
  BY <1>4, TrafficFrame DEF FeederSelects
<1>5. CASE FeederEnqueues
  BY <1>5, TrafficFrame DEF FeederEnqueues
<1>6. CASE Recovers
  <2>1. \A j \in Jobs : Expired(j) =>
          Msg("fail", owner[j], [job |-> j, token |-> token[j]], "error") \in Wire
    BY DEF Expired, RowInv, JobsTypeOK, Msg, Wire, Message, Failures
  <2> QED BY <1>6, <2>1 DEF Recovers, Traffic, MemInv, AirInv
<1>7. ASSUME NEW m \in Requests, ClaimIsBusy(m) PROVE Traffic'
  BY <1>7, AnswerKeeps DEF ClaimIsBusy
<1>8. ASSUME NEW m \in Requests, ClaimGoesOn(m) PROVE Traffic'
  <2>1. [m EXCEPT !.kind = "take"] \in Wire
    BY RequestsAreWire DEF Wire, Message
  <2> QED BY <1>8, <2>1, ContinueKeeps DEF ClaimGoesOn
<1>9. ASSUME NEW m \in Requests, TakeNothing(m) PROVE Traffic'
  BY <1>9, AnswerKeeps DEF TakeNothing
<1>10. ASSUME NEW m \in Requests, NEW j \in Jobs, TakeJob(m, j) PROVE Traffic'
  <2>1. m \in Wire /\ m.worker \in Workers
    BY RequestsAreWire DEF Wire, Message
  <2> DEFINE h == [job |-> j, token |-> claims[j] + 1]
  <2>2. h \in Hands /\ h.job \in Jobs
    BY DEF Hands, RowInv, JobsTypeOK
  <2>3. CASE HearsClaimed(m.worker, h) /\ UNCHANGED <<late, renewal>>
    <3>1. Msg("running", m.worker, h, None) \in Plain
      BY <2>1, <2>2, Written
    <3>2. MemInv'
      <4>1. CASE h = Nothing
        BY <2>1, <2>3, <4>1, RestKeeps DEF HearsClaimed, Traffic
      <4>2. CASE h # Nothing
        <5> HIDE DEF h
        <5> DEFINE w == m.worker
                   said == Msg("running", w, h, None)
        <5>1. said \in Wire
          BY <3>1 DEF Plain
        <5> HIDE DEF said
        <5>2. /\ pc' = [pc EXCEPT ![w] = "running"]
              /\ hand' = [hand EXCEPT ![w] = h]
              /\ lost' = [lost EXCEPT ![w] = FALSE]
              /\ request' = [request EXCEPT ![w] = said]
              /\ UNCHANGED <<saved, todo, acked>>
          BY <2>3, <4>2 DEF HearsClaimed, said
        <5> HIDE DEF w
        <5>3. w \in Workers
          BY <2>1 DEF w
        <5> QED BY <2>2, <5>1, <5>2, <5>3 DEF Traffic, MemInv
      <4> QED BY <4>1, <4>2
    <3> QED BY <2>3, <3>2 DEF Traffic, AirInv
  <2>4. CASE late' = late \ {m} /\ UNCHANGED workerVars
    BY <2>4 DEF Traffic, MemInv, AirInv
  <2> QED BY <1>10, <2>3, <2>4 DEF TakeJob
<1>11. ASSUME NEW m \in Requests, Running(m) PROVE Traffic'
  BY <1>11, AnswerKeeps DEF Running
<1>12. ASSUME NEW m \in Requests, ResultAccepted(m) PROVE Traffic'
  <2>1. [m EXCEPT !.kind = "chain"] \in Wire
    BY <1>12, RequestsAreWire DEF ResultAccepted, Wire, Message
  <2> QED BY <1>12, <2>1, ContinueKeeps, AnswerKeeps DEF ResultAccepted,
             AfterCommit
<1>13. ASSUME NEW m \in Requests, ResultReplayed(m) PROVE Traffic'
  <2>1. [m EXCEPT !.kind = "chain"] \in Wire
    BY <1>13, RequestsAreWire DEF ResultReplayed, Wire, Message
  <2> QED BY <1>13, <2>1, ContinueKeeps, AnswerKeeps DEF ResultReplayed,
             AfterCommit
<1>14. ASSUME NEW m \in Requests, ResultRefused(m) PROVE Traffic'
  BY <1>14, AnswerKeeps DEF ResultRefused
<1>15. ASSUME NEW m \in Requests, ChainSkips(m) PROVE Traffic'
  BY <1>15, AnswerKeeps DEF ChainSkips
<1>16. ASSUME NEW m \in Requests, NEW j \in Jobs, ChainEnqueues(m, j)
       PROVE  Traffic'
  BY <1>16, AnswerKeeps DEF ChainEnqueues
<1>17. ASSUME NEW m \in Requests, FailRefused(m) PROVE Traffic'
  BY <1>17, AnswerKeeps DEF FailRefused
<1>18. ASSUME NEW m \in Requests, FailReads(m) PROVE Traffic'
  <2>1. m \in Wire /\ m.job \in Jobs /\ attempts[m.job] \in Nat
    BY <1>18, RequestsAreWire DEF FailReads, Wire, RowInv, JobsTypeOK
  <2>2. [m EXCEPT !.kind = "failing", !.attempt = attempts[m.job]] \in Wire
    BY <2>1 DEF Wire, Message
  <2> QED BY <1>18, <2>2, ContinueKeeps DEF FailReads
<1>19. ASSUME NEW m \in Requests, FailWrites(m) PROVE Traffic'
  BY <1>19, AnswerKeeps DEF FailWrites
<1>20. ASSUME NEW m \in Requests, FailThrows(m) PROVE Traffic'
  BY <1>20, AnswerKeeps DEF FailThrows
<1>21. ASSUME NEW m \in late \cup Renewals, Renew(m) PROVE Traffic'
  <2>1. m \in late \/ m.worker \in Workers
    BY RequestsAreWire DEF Plain, Wire, Message
  <2>2. m.worker \in Workers =>
          Msg("refused", m.worker, Nothing, None) \in Plain
    BY NothingInHand, Written
  <2>3. late' \subseteq Wire
    BY <1>21 DEF Renew, Traffic, AirInv
  <2>4. renewal' \in [Workers -> Plain \cup {None}]
    BY <1>21, <2>2 DEF Renew, Traffic, AirInv
  <2> QED BY <1>21, <2>3, <2>4 DEF Renew, Traffic, MemInv, AirInv
<1>22. ASSUME NEW w \in Workers, AsksAtOnce(w) PROVE Traffic'
  <2>1. Msg("claim", w, Nothing, None) \in Plain
    BY NothingInHand, Written
  <2> QED BY <1>22, <2>1 DEF AsksAtOnce, Asks, Traffic, MemInv, AirInv, Plain
<1>23. ASSUME NEW w \in Workers, FlushStarts(w) PROVE Traffic'
  BY <1>23 DEF FlushStarts, Traffic, MemInv, AirInv
<1>24. ASSUME NEW w \in Workers, FlushEnds(w) PROVE Traffic'
  <2>1. Msg("claim", w, Nothing, None) \in Plain
    BY NothingInHand, Written
  <2>2. saved' \in [Workers -> SUBSET Plain]
    BY <1>24 DEF FlushEnds, Kept, Traffic, MemInv
  <2> QED BY <1>24, <2>1, <2>2 DEF FlushEnds, Asks, Traffic, MemInv, AirInv,
             Plain
<1>25. ASSUME NEW w \in Workers, ObserveSkips(w) PROVE Traffic'
  BY <1>25, NothingInHand DEF ObserveSkips, Rest, Traffic, MemInv, AirInv
<1>26. ASSUME NEW w \in Workers, NEW m \in todo[w], FlushSends(w, m)
       PROVE  Traffic'
  BY <1>26 DEF FlushSends, Traffic, MemInv, AirInv, Plain
<1>27. ASSUME NEW w \in Workers, NEW seen \in SeenBy(w), Delivers(w, seen)
       PROVE  Traffic'
  <2>1. Msg(IF seen \in Readings THEN "result" ELSE "fail", w, hand[w], seen)
          \in Plain
    BY <1>27, Written, SeenAssumption DEF Delivers, SeenBy, Traffic, MemInv
  <2> QED BY <1>27, <2>1 DEF Delivers, Traffic, MemInv, AirInv, Plain
<1>28. ASSUME NEW w \in Workers, RenewSends(w) PROVE Traffic'
  <2>1. Msg("renew", w, hand[w], None) \in Plain
    BY <1>28, Written DEF RenewSends, Traffic, MemInv
  <2> QED BY <1>28, <2>1 DEF RenewSends, Traffic, MemInv, AirInv
<1>29. ASSUME NEW w \in Workers, RenewRefused(w) PROVE Traffic'
  BY <1>29 DEF RenewRefused, Traffic, MemInv, AirInv
<1>30. ASSUME NEW w \in Workers, RenewFails(w) PROVE Traffic'
  <2>1. Unanswered({renewal[w]}) \subseteq Wire
    BY DEF Unanswered, Traffic, AirInv, Plain
  <2> QED BY <1>30, <2>1, AbandonKeeps DEF RenewFails, Traffic, MemInv, AirInv
<1>31. CASE ApplyReads
  BY <1>31, TrafficFrame DEF ApplyReads
<1>32. CASE ApplyGatesFirst
  BY <1>32, TrafficFrame DEF ApplyGatesFirst
<1>33. CASE ApplyGatesSecond
  BY <1>33, TrafficFrame DEF ApplyGatesSecond
<1>34. CASE ApplySkips
  BY <1>34, TrafficFrame DEF ApplySkips
<1>35. CASE ApplyConfirms
  BY <1>35, TrafficFrame DEF ApplyConfirms
<1>36. CASE ApplyMutates
  BY <1>36, TrafficFrame DEF ApplyMutates
<1>37. CASE ApplyMarks
  BY <1>37, TrafficFrame DEF ApplyMarks
<1>38. CASE ApplyDone
  BY <1>38, TrafficFrame DEF ApplyDone
<1>39. ASSUME NEW w \in Workers, RequestFails(w) PROVE Traffic'
  <2>1. request[w] \in Wire
    BY <1>39 DEF RequestFails, Traffic, MemInv
  <2>2. late' \subseteq Wire
    BY <1>39, <2>1, AbandonKeeps DEF RequestFails, Traffic, AirInv
  <2>3. MemInv'
    BY <1>39, <2>1, HearsKeeps DEF RequestFails, Traffic
  <2> QED BY <1>39, <2>2, <2>3 DEF RequestFails, Traffic, AirInv
<1>40. ASSUME NEW w \in Workers, WorkerCrash(w) PROVE Traffic'
  <2>1. Unanswered({request[w], renewal[w]}) \subseteq Wire
    BY DEF Unanswered, Traffic, MemInv, AirInv, Plain
  <2>2. late' \subseteq Wire
    BY <1>40, <2>1, AbandonKeeps DEF WorkerCrash, Traffic, AirInv
  <2> QED BY <1>40, <2>2, NothingInHand DEF WorkerCrash, Rest, Traffic,
             MemInv, AirInv
<1>41. ASSUME NEW m \in late, Dropped(m) PROVE Traffic'
  BY <1>41 DEF Dropped, Traffic, MemInv, AirInv
<1>42. CASE ApplyThrows
  BY <1>42, TrafficFrame DEF ApplyThrows
<1>43. CASE Restart
  BY <1>43, TrafficFrame DEF Restart
<1>44. CASE UNCHANGED vars
  BY <1>44, TrafficFrame
<1> QED BY <1>1, <1>2, <1>3, <1>4, <1>5, <1>6, <1>7, <1>8, <1>9, <1>10, <1>11,
       <1>12, <1>13, <1>14, <1>15, <1>16, <1>17, <1>18, <1>19, <1>20, <1>21,
       <1>22, <1>23, <1>24, <1>25, <1>26, <1>27, <1>28, <1>29, <1>30, <1>31,
       <1>32, <1>33, <1>34, <1>35, <1>36, <1>37, <1>38, <1>39, <1>40, <1>41,
       <1>42, <1>43, <1>44 DEF Next, Handle, Claim, Result, Fail, WorkerStep,
       Applies, Fails

LEMMA RowStep ==
  ASSUME TypeInv, [Next]_vars
  PROVE  RowInv'
<1> USE JobsAssumption DEF TypeInv
<1>1. ASSUME NEW j \in Jobs, PlannerEnqueues(j) PROVE RowInv'
  BY <1>1 DEF PlannerEnqueues, Insert, RowInv, JobsTypeOK, Statuses, Active
<1>2. ASSUME NEW j \in Jobs, LeaseExpires(j) PROVE RowInv'
  BY <1>2 DEF LeaseExpires, RowInv, JobsTypeOK, Statuses, Active
<1>3. ASSUME NEW j \in Jobs, ApplyTakes(j) PROVE RowInv'
  BY <1>3, RowFrame DEF ApplyTakes
<1>4. CASE FeederSelects
  BY <1>4 DEF FeederSelects, RowInv, JobsTypeOK
<1>5. CASE FeederEnqueues
  <2>1. CASE \E j \in Jobs : Insert(j, "FIRST", NoJob)
    <3>1. feeding' = FALSE /\ candidate' = candidate
      BY <1>5 DEF FeederEnqueues
    <3>2. UNCHANGED <<outboxVars, history>>
      BY <1>5 DEF FeederEnqueues
    <3>3. PICK j \in Jobs : Insert(j, "FIRST", NoJob)
      BY <2>1
    <3>4. /\ status' \in [Jobs -> Statuses]
          /\ kind' \in [Jobs -> {None, "FIRST", "SECOND"}]
          /\ parent' \in [Jobs -> Jobs \cup {NoJob}]
          /\ \A i \in Jobs : lease'[i] # "none" <=> status'[i] = "CLAIMED"
      BY <3>3 DEF Insert, RowInv, JobsTypeOK, Statuses, Active
    <3>5. \A i \in Jobs : status'[i] = "CLAIMED" => owner'[i] \in Workers
      BY <3>3 DEF Insert, RowInv, JobsTypeOK
    <3> QED BY <3>1, <3>2, <3>3, <3>4, <3>5 DEF Insert, RowInv, JobsTypeOK
  <2>2. CASE UNCHANGED jobVars
    <3>1. candidate' = candidate /\ feeding' = FALSE /\ losses' = losses
      BY <1>5 DEF FeederEnqueues
    <3>2. UNCHANGED <<outboxVars, past>>
      BY <1>5 DEF FeederEnqueues
    <3> QED BY <2>2, <3>1, <3>2, KeepaFrame DEF RowInv, JobsTypeOK
  <2> QED BY <1>5, <2>1, <2>2 DEF FeederEnqueues
<1>6. CASE Recovers
  BY <1>6, RowFrame DEF Recovers
<1>7. ASSUME NEW m \in Requests, ClaimIsBusy(m) PROVE RowInv'
  BY <1>7, RowFrame DEF ClaimIsBusy
<1>8. ASSUME NEW m \in Requests, ClaimGoesOn(m) PROVE RowInv'
  BY <1>8, RowFrame DEF ClaimGoesOn
<1>9. ASSUME NEW m \in Requests, TakeNothing(m) PROVE RowInv'
  BY <1>9, RowFrame DEF TakeNothing
<1>10. ASSUME NEW m \in Requests, NEW j \in Jobs, TakeJob(m, j) PROVE RowInv'
  <2>1. m.worker \in Workers
    BY RequestsAreWire DEF Wire, Message
  <2> QED BY <1>10, <2>1 DEF TakeJob, RowInv, JobsTypeOK, Statuses, Active
<1>11. ASSUME NEW m \in Requests, Running(m) PROVE RowInv'
  BY <1>11, RowFrame DEF Running
<1>12. ASSUME NEW m \in Requests, ResultAccepted(m) PROVE RowInv'
  <2>1. m \in Wire /\ m.job \in Jobs /\ m.worker \in Workers /\ m.seen \in Readings
    BY <1>12, RequestsAreWire DEF ResultAccepted, Wire, Message
  <2>2. outbox' \in [Jobs -> {"ABSENT", "PENDING", "DONE", "FAILED"}]
    BY <1>12, <2>1 DEF ResultAccepted, InsertOutbox, RowInv, JobsTypeOK
  <2>3. readings' \subseteq Jobs \X Workers \X Readings
    BY <1>12, <2>1 DEF ResultAccepted, RowInv, JobsTypeOK
  <2>4. payload' \in [Jobs -> Readings \cup {None}]
    BY <1>12, <2>1 DEF ResultAccepted, RowInv, JobsTypeOK
  <2>5. /\ status' \in [Jobs -> Statuses]
        /\ lease' \in [Jobs -> {"none", "live", "expired"}]
        /\ \A j \in Jobs : lease'[j] # "none" <=> status'[j] = "CLAIMED"
        /\ \A j \in Jobs : status'[j] = "CLAIMED" => owner'[j] \in Workers
    BY <1>12, <2>1 DEF ResultAccepted, RowInv, JobsTypeOK, Statuses
  <2> QED BY <1>12, <2>2, <2>3, <2>4, <2>5
          DEF ResultAccepted, InsertOutbox, RowInv, JobsTypeOK
<1>13. ASSUME NEW m \in Requests, ResultReplayed(m) PROVE RowInv'
  BY <1>13 DEF ResultReplayed, InsertOutbox, RowInv, JobsTypeOK, Statuses,
     Active
<1>14. ASSUME NEW m \in Requests, ResultRefused(m) PROVE RowInv'
  BY <1>14, RowFrame DEF ResultRefused
<1>15. ASSUME NEW m \in Requests, ChainSkips(m) PROVE RowInv'
  BY <1>15, RowFrame DEF ChainSkips
<1>16. ASSUME NEW m \in Requests, NEW j \in Jobs, ChainEnqueues(m, j)
       PROVE  RowInv'
  <2>1. m \in Wire /\ m.job \in Jobs /\ m.worker \in Workers
    BY <1>16, RequestsAreWire DEF ChainEnqueues, Wire, Message
  <2> QED BY <1>16, <2>1 DEF ChainEnqueues, Insert, RowInv, JobsTypeOK,
             Statuses, Active
<1>17. ASSUME NEW m \in Requests, FailRefused(m) PROVE RowInv'
  BY <1>17, RowFrame DEF FailRefused
<1>18. ASSUME NEW m \in Requests, FailReads(m) PROVE RowInv'
  BY <1>18, RowFrame DEF FailReads
<1>19. ASSUME NEW m \in Requests, FailWrites(m) PROVE RowInv'
  <2>1. m \in Wire /\ m.job \in Jobs /\ m.worker \in Workers
    BY <1>19, RequestsAreWire DEF FailWrites, Wire, Message
  <2>2. Charged(m) \in Nat
    <3>1. attempts[m.job] \in Nat
      BY <2>1 DEF RowInv, JobsTypeOK
    <3>2. m.attempt \in Nat
      BY <2>1 DEF Wire, Message
    <3> QED BY <3>1, <3>2 DEF Charged
  <2>3. FailedTo(m) \in {"WAITING_FOR_WORKER", "FAILED", "RETRYABLE"}
    BY DEF FailedTo
  <2> QED BY <1>19, <2>1, <2>2, <2>3 DEF FailWrites, RowInv, JobsTypeOK,
             Statuses, Active
<1>20. ASSUME NEW m \in Requests, FailThrows(m) PROVE RowInv'
  BY <1>20, RowFrame DEF FailThrows
<1>21. ASSUME NEW m \in late \cup Renewals, Renew(m) PROVE RowInv'
  <2>1. CASE Holds(m, m.job)
    <3>1. m \in Wire /\ m.job \in Jobs
      BY <1>21, RequestsAreWire DEF Renew, Wire, Plain, Traffic, AirInv
    <3> QED BY <1>21, <2>1, <3>1 DEF Renew, Holds, RowInv, JobsTypeOK
  <2>2. CASE ~Holds(m, m.job)
    BY <1>21, <2>2, RowFrame DEF Renew
  <2> QED BY <2>1, <2>2
<1>22. ASSUME NEW w \in Workers, AsksAtOnce(w) PROVE RowInv'
  BY <1>22, RowFrame DEF AsksAtOnce
<1>23. ASSUME NEW w \in Workers, FlushStarts(w) PROVE RowInv'
  BY <1>23, RowFrame DEF FlushStarts
<1>24. ASSUME NEW w \in Workers, FlushEnds(w) PROVE RowInv'
  BY <1>24, RowFrame DEF FlushEnds
<1>25. ASSUME NEW w \in Workers, ObserveSkips(w) PROVE RowInv'
  BY <1>25, RowFrame DEF ObserveSkips
<1>26. ASSUME NEW w \in Workers, NEW m \in todo[w], FlushSends(w, m)
       PROVE  RowInv'
  BY <1>26, RowFrame DEF FlushSends
<1>27. ASSUME NEW w \in Workers, NEW seen \in SeenBy(w), Delivers(w, seen)
       PROVE  RowInv'
  BY <1>27, RowFrame DEF Delivers
<1>28. ASSUME NEW w \in Workers, RenewSends(w) PROVE RowInv'
  BY <1>28, RowFrame DEF RenewSends
<1>29. ASSUME NEW w \in Workers, RenewRefused(w) PROVE RowInv'
  BY <1>29, RowFrame DEF RenewRefused
<1>30. ASSUME NEW w \in Workers, RenewFails(w) PROVE RowInv'
  BY <1>30, RowFrame DEF RenewFails
<1>31. CASE ApplyReads
  BY <1>31, RowFrame DEF ApplyReads
<1>32. CASE ApplyGatesFirst
  BY <1>32, RowFrame DEF ApplyGatesFirst
<1>33. CASE ApplyGatesSecond
  BY <1>33, RowFrame DEF ApplyGatesSecond
<1>34. CASE ApplySkips
  BY <1>34, RowFrame DEF ApplySkips
<1>35. CASE ApplyConfirms
  BY <1>35 DEF ApplyConfirms, Insert, ApplyInv, RowInv, JobsTypeOK, Statuses,
     Active
<1>36. CASE ApplyMutates
  BY <1>36 DEF ApplyMutates, ApplyInv, RowInv, JobsTypeOK
<1>37. CASE ApplyMarks
  BY <1>37 DEF ApplyMarks, RowInv, JobsTypeOK
<1>38. CASE ApplyDone
  BY <1>38 DEF ApplyDone, RowInv, JobsTypeOK
<1>39. ASSUME NEW w \in Workers, RequestFails(w) PROVE RowInv'
  BY <1>39, RowFrame DEF RequestFails, Loses
<1>40. ASSUME NEW w \in Workers, WorkerCrash(w) PROVE RowInv'
  BY <1>40, RowFrame DEF WorkerCrash, Loses
<1>41. ASSUME NEW m \in late, Dropped(m) PROVE RowInv'
  BY <1>41, RowFrame DEF Dropped, Loses
<1>42. CASE ApplyThrows
  <2>1. losses' \in Nat
    BY <1>42 DEF ApplyThrows, Loses, RowInv, JobsTypeOK
  <2>2. tries' \in [Jobs -> Nat]
    <3>1. \A j \in Jobs : tries[j] + 1 \in Nat
      BY DEF RowInv, JobsTypeOK
    <3>2. tries' = [tries EXCEPT ![apply.job] = tries[apply.job] + 1]
      BY <1>42 DEF ApplyThrows
    <3> QED BY <3>1, <3>2 DEF RowInv, JobsTypeOK
  <2>3. outbox' \in [Jobs -> {"ABSENT", "PENDING", "DONE", "FAILED"}]
    BY <1>42 DEF ApplyThrows, RowInv, JobsTypeOK
  <2> QED BY <1>42, <2>1, <2>2, <2>3 DEF ApplyThrows, RowInv, JobsTypeOK
<1>43. CASE Restart
  <2>1. losses' \in Nat
    BY <1>43 DEF Restart, Loses, RowInv, JobsTypeOK
  <2> QED BY <1>43, <2>1, KeepaFrame DEF Restart, RowInv, JobsTypeOK
<1>44. CASE UNCHANGED vars
  BY <1>44, RowFrame
<1> QED BY <1>1, <1>2, <1>3, <1>4, <1>5, <1>6, <1>7, <1>8, <1>9, <1>10, <1>11,
       <1>12, <1>13, <1>14, <1>15, <1>16, <1>17, <1>18, <1>19, <1>20, <1>21,
       <1>22, <1>23, <1>24, <1>25, <1>26, <1>27, <1>28, <1>29, <1>30, <1>31,
       <1>32, <1>33, <1>34, <1>35, <1>36, <1>37, <1>38, <1>39, <1>40, <1>41,
       <1>42, <1>43, <1>44 DEF Next, Handle, Claim, Result, Fail, WorkerStep,
       Applies, Fails

(* Most steps move only messages and leases.                               *)
Quiet == UNCHANGED <<status, kind, parent, owner, token, attempts, payload,
                     outbox, claims, readings, mutated, apply>>

Stirs ==
  \/ \E j \in Jobs : PlannerEnqueues(j) \/ ApplyTakes(j)
  \/ FeederEnqueues
  \/ \E m \in Requests :
       \/ \E j \in Jobs : TakeJob(m, j) \/ ChainEnqueues(m, j)
       \/ ResultAccepted(m) \/ ResultReplayed(m) \/ FailWrites(m)
  \/ Applies \/ ApplyThrows \/ Restart

LEMMA QuietOrStirs ==
  ASSUME [Next]_vars
  PROVE  Quiet \/ Stirs
<1> USE DEF Quiet
<1>1. ASSUME NEW j \in Jobs, LeaseExpires(j) PROVE Quiet
  BY <1>1 DEF LeaseExpires
<1>2. CASE FeederSelects
  BY <1>2 DEF FeederSelects
<1>3. CASE Recovers
  BY <1>3 DEF Recovers
<1>4. ASSUME NEW m \in Requests, ClaimIsBusy(m) PROVE Quiet
  BY <1>4 DEF ClaimIsBusy
<1>5. ASSUME NEW m \in Requests, ClaimGoesOn(m) PROVE Quiet
  BY <1>5 DEF ClaimGoesOn
<1>6. ASSUME NEW m \in Requests, TakeNothing(m) PROVE Quiet
  BY <1>6 DEF TakeNothing
<1>7. ASSUME NEW m \in Requests, Running(m) PROVE Quiet
  BY <1>7 DEF Running
<1>8. ASSUME NEW m \in Requests, ResultRefused(m) PROVE Quiet
  BY <1>8 DEF ResultRefused
<1>9. ASSUME NEW m \in Requests, ChainSkips(m) PROVE Quiet
  BY <1>9 DEF ChainSkips
<1>10. ASSUME NEW m \in Requests, FailRefused(m) PROVE Quiet
  BY <1>10 DEF FailRefused
<1>11. ASSUME NEW m \in Requests, FailReads(m) PROVE Quiet
  BY <1>11 DEF FailReads
<1>12. ASSUME NEW m \in Requests, FailThrows(m) PROVE Quiet
  BY <1>12 DEF FailThrows
<1>13. ASSUME NEW m \in late \cup Renewals, Renew(m) PROVE Quiet
  BY <1>13 DEF Renew
<1>14. ASSUME NEW w \in Workers, AsksAtOnce(w) PROVE Quiet
  BY <1>14 DEF AsksAtOnce
<1>15. ASSUME NEW w \in Workers, FlushStarts(w) PROVE Quiet
  BY <1>15 DEF FlushStarts
<1>16. ASSUME NEW w \in Workers, FlushEnds(w) PROVE Quiet
  BY <1>16 DEF FlushEnds
<1>17. ASSUME NEW w \in Workers, ObserveSkips(w) PROVE Quiet
  BY <1>17 DEF ObserveSkips
<1>18. ASSUME NEW w \in Workers, NEW m \in todo[w], FlushSends(w, m)
       PROVE  Quiet
  BY <1>18 DEF FlushSends
<1>19. ASSUME NEW w \in Workers, NEW seen \in SeenBy(w), Delivers(w, seen)
       PROVE  Quiet
  BY <1>19 DEF Delivers
<1>20. ASSUME NEW w \in Workers, RenewSends(w) PROVE Quiet
  BY <1>20 DEF RenewSends
<1>21. ASSUME NEW w \in Workers, RenewRefused(w) PROVE Quiet
  BY <1>21 DEF RenewRefused
<1>22. ASSUME NEW w \in Workers, RenewFails(w) PROVE Quiet
  BY <1>22 DEF RenewFails
<1>23. ASSUME NEW w \in Workers, RequestFails(w) PROVE Quiet
  BY <1>23 DEF RequestFails
<1>24. ASSUME NEW w \in Workers, WorkerCrash(w) PROVE Quiet
  BY <1>24 DEF WorkerCrash
<1>25. ASSUME NEW m \in late, Dropped(m) PROVE Quiet
  BY <1>25 DEF Dropped
<1>26. CASE UNCHANGED vars
BY <1>26
<1> QED BY <1>1, <1>2, <1>3, <1>4, <1>5, <1>6, <1>7, <1>8, <1>9, <1>10, <1>11,
       <1>12, <1>13, <1>14, <1>15, <1>16, <1>17, <1>18, <1>19, <1>20, <1>21,
       <1>22, <1>23, <1>24, <1>25, <1>26 DEF Next, Handle, Claim, Result,
       Fail, WorkerStep, Fails, Stirs

LEMMA ApplyStep ==
  ASSUME TypeInv, [Next]_vars
  PROVE  ApplyInv'
<1> USE DEF TypeInv
<1>1. ASSUME NEW j \in Jobs, PlannerEnqueues(j) PROVE ApplyInv'
  BY <1>1, ApplyFrame DEF PlannerEnqueues
<1>2. ASSUME NEW j \in Jobs, ApplyTakes(j) PROVE ApplyInv'
  BY <1>2 DEF ApplyTakes, ApplyInv, ApplyTypeOK
<1>3. CASE FeederEnqueues
  BY <1>3, ApplyFrame DEF FeederEnqueues
<1>4. ASSUME NEW m \in Requests, NEW j \in Jobs, TakeJob(m, j) PROVE ApplyInv'
  BY <1>4, ApplyFrame DEF TakeJob
<1>5. ASSUME NEW m \in Requests, ResultAccepted(m) PROVE ApplyInv'
  BY <1>5, ApplyFrame DEF ResultAccepted
<1>6. ASSUME NEW m \in Requests, ResultReplayed(m) PROVE ApplyInv'
  BY <1>6, ApplyFrame DEF ResultReplayed
<1>7. ASSUME NEW m \in Requests, NEW j \in Jobs, ChainEnqueues(m, j)
      PROVE  ApplyInv'
  BY <1>7, ApplyFrame DEF ChainEnqueues
<1>8. ASSUME NEW m \in Requests, FailWrites(m) PROVE ApplyInv'
  BY <1>8, ApplyFrame DEF FailWrites
<1>9. CASE ApplyReads
  <2>1. apply.job \in Jobs /\ payload[apply.job] \in Readings \cup {None}
    BY <1>9 DEF ApplyReads, ApplyInv, RowInv, JobsTypeOK
  <2>2. CASE Decides(apply.job)
    BY <1>9, <2>1, <2>2 DEF ApplyReads, ApplyInv, ApplyTypeOK
  <2>3. CASE ~Decides(apply.job)
    BY <1>9, <2>1, <2>3 DEF ApplyReads, GoTo, ApplyInv, ApplyTypeOK
  <2> QED BY <2>2, <2>3
<1>10. CASE ApplyGatesFirst
  BY <1>10 DEF ApplyGatesFirst, GoTo, ApplyInv, ApplyTypeOK
<1>11. CASE ApplyGatesSecond
  BY <1>11 DEF ApplyGatesSecond, GoTo, ApplyInv, ApplyTypeOK
<1>12. CASE ApplySkips
  BY <1>12 DEF ApplySkips, GoTo, ApplyInv, ApplyTypeOK
<1>13. CASE ApplyConfirms
  BY <1>13 DEF ApplyConfirms, GoTo, ApplyInv, ApplyTypeOK
<1>14. CASE ApplyMutates
  BY <1>14 DEF ApplyMutates, GoTo, ApplyInv, ApplyTypeOK
<1>15. CASE ApplyMarks
  BY <1>15 DEF ApplyMarks, GoTo, ApplyInv, ApplyTypeOK
<1>16. CASE ApplyDone
  BY <1>16 DEF ApplyDone, Idle, ApplyInv, ApplyTypeOK
<1>17. CASE ApplyThrows
  BY <1>17 DEF ApplyThrows, Idle, ApplyInv, ApplyTypeOK
<1>18. CASE Restart
  BY <1>18 DEF Restart, Idle, ApplyInv, ApplyTypeOK
<1>19. CASE Quiet
  BY <1>19, ApplyFrame DEF Quiet
<1> QED BY <1>1, <1>2, <1>3, <1>4, <1>5, <1>6, <1>7, <1>8, <1>9, <1>10, <1>11,
       <1>12, <1>13, <1>14, <1>15, <1>16, <1>17, <1>18, <1>19, QuietOrStirs
       DEF Stirs, Applies

LEMMA TypeStep ==
  ASSUME TypeInv, [Next]_vars
  PROVE  TypeInv'
BY TrafficStep, RowStep, ApplyStep DEF TypeInv

LEMMA TypesStay == Spec => []TypeInv
BY TypeInit, TypeStep, PTL DEF Spec

(* TypeOK holds in every reachable state; a row has a lease exactly while  *)
(* it is claimed, so that it is never claimed under a lease that runs.     *)
THEOREM TypesHold == Spec => []TypeOK
BY TypesStay, TypesFollow, PTL

-----------------------------------------------------------------------------
(* Why a confirmed change is one: a claimed job is held by a worker of its *)
(* kind, so that a payload is a reading by such a worker; a second look    *)
(* follows a first one; what the processor has read stays true, although   *)
(* the job may be reopened and read again behind its back.                 *)
Looks(k) == IF k = "FIRST" THEN First ELSE Second
ReadBy(j, S, s) == \E w \in S : <<j, w, s>> \in readings

RowOk(j) ==
  /\ status[j] = "CLAIMED" => owner[j] \in Looks(kind[j])
  /\ payload[j] # None => ReadBy(j, Looks(kind[j]), payload[j])
  /\ outbox[j] # "ABSENT" \/ payload[j] # None \/ j \in mutated
       => status[j] # "ABSENT"
RowConf == \A j \in Jobs : RowOk(j)

ParentConf ==
  \A j \in Jobs : parent[j] # NoJob =>
    /\ kind[j] = "SECOND" /\ status[j] # "ABSENT"
    /\ kind[parent[j]] = "FIRST" /\ status[parent[j]] # "ABSENT"

ApplyConf ==
  LET j == apply.job IN
  /\ apply.stage # "idle" => status[j] # "ABSENT"
  /\ apply.stage \in {"gate", "confirm", "mutate"} =>
       apply.seen # None /\ ReadBy(j, Looks(kind[j]), apply.seen)
  /\ apply.stage = "confirm" => kind[j] = "FIRST"
  /\ apply.stage = "mutate" =>
       /\ kind[j] = "SECOND" /\ apply.seen \in Changing
       /\ parent[j] # NoJob /\ ReadBy(parent[j], First, apply.seen)

Chained(m) == kind[m.job] = "FIRST" /\ status[m.job] # "ABSENT"
AirConf == \A m \in Requests : m.kind = "chain" => Chained(m)

Conf == RowConf /\ ParentConf /\ ApplyConf /\ AirConf /\ MutationIsConfirmed

LEMMA ConfInit == Init => Conf
<1> SUFFICES ASSUME Init PROVE Conf
  OBVIOUS
<1> USE DEF Init
<1>1. RowConf /\ ParentConf
  BY DEF RowConf, RowOk, ParentConf
<1>2. ApplyConf
  BY DEF ApplyConf, Idle
<1>3. AirConf
  BY DEF AirConf, Requests
<1>4. MutationIsConfirmed
  BY DEF MutationIsConfirmed
<1> QED BY <1>1, <1>2, <1>3, <1>4 DEF Conf

(* A job keeps its kind and its parent, and no reading is forgotten.       *)
Stays(j) == status'[j] # "ABSENT" /\ kind'[j] = kind[j] /\ parent'[j] = parent[j]
Grows ==
  /\ \A j \in Jobs : status[j] # "ABSENT" => Stays(j)
  /\ readings \subseteq readings'

LEMMA InsertGrows ==
  ASSUME RowInv, NEW i \in Jobs, NEW k, NEW p, Insert(i, k, p)
  PROVE  \A j \in Jobs : status[j] # "ABSENT" => Stays(j)
BY DEF Insert, Stays, RowInv, JobsTypeOK

LEMMA Growth ==
  ASSUME TypeInv, [Next]_vars
  PROVE  Grows
<1> USE DEF TypeInv, Grows
<1>1. ASSUME NEW j \in Jobs, PlannerEnqueues(j) PROVE Grows
  BY <1>1, InsertGrows DEF PlannerEnqueues
<1>2. ASSUME NEW j \in Jobs, ApplyTakes(j) PROVE Grows
  BY <1>2 DEF ApplyTakes, Stays
<1>3. CASE FeederEnqueues
  BY <1>3, InsertGrows DEF FeederEnqueues, Stays
<1>4. ASSUME NEW m \in Requests, NEW j \in Jobs, TakeJob(m, j) PROVE Grows
  BY <1>4 DEF TakeJob, Stays, RowInv, JobsTypeOK
<1>5. ASSUME NEW m \in Requests, ResultAccepted(m) PROVE Grows
  BY <1>5 DEF ResultAccepted, Stays, RowInv, JobsTypeOK
<1>6. ASSUME NEW m \in Requests, ResultReplayed(m) PROVE Grows
  BY <1>6 DEF ResultReplayed, Stays
<1>7. ASSUME NEW m \in Requests, NEW j \in Jobs, ChainEnqueues(m, j)
      PROVE  Grows
  BY <1>7, InsertGrows DEF ChainEnqueues
<1>8. ASSUME NEW m \in Requests, FailWrites(m) PROVE Grows
  BY <1>8 DEF FailWrites, FailedTo, Stays, RowInv, JobsTypeOK
<1>9. CASE ApplyReads
  BY <1>9 DEF ApplyReads, Stays
<1>10. CASE ApplyGatesFirst
  BY <1>10 DEF ApplyGatesFirst, Stays
<1>11. CASE ApplyGatesSecond
  BY <1>11 DEF ApplyGatesSecond, Stays
<1>12. CASE ApplySkips
  BY <1>12 DEF ApplySkips, Stays
<1>13. CASE ApplyConfirms
  BY <1>13, InsertGrows DEF ApplyConfirms, Stays
<1>14. CASE ApplyMutates
  BY <1>14 DEF ApplyMutates, Stays
<1>15. CASE ApplyMarks
  BY <1>15 DEF ApplyMarks, Stays
<1>16. CASE ApplyDone
  BY <1>16 DEF ApplyDone, Stays
<1>17. CASE ApplyThrows
  BY <1>17 DEF ApplyThrows, Stays
<1>18. CASE Restart
  BY <1>18 DEF Restart, Stays
<1>19. CASE Quiet
  BY <1>19 DEF Quiet, Stays
<1> QED BY <1>1, <1>2, <1>3, <1>4, <1>5, <1>6, <1>7, <1>8, <1>9, <1>10, <1>11,
       <1>12, <1>13, <1>14, <1>15, <1>16, <1>17, <1>18, <1>19, QuietOrStirs
       DEF Stirs, Applies

LEMMA StillRead ==
  ASSUME Grows, NEW j, NEW S, NEW s, ReadBy(j, S, s)
  PROVE  ReadBy(j, S, s)'
BY DEF ReadBy, Grows

LEMMA RowConfFrame ==
  ASSUME RowConf, Grows, UNCHANGED <<status, kind, owner, payload, outbox>>,
         mutated' \subseteq mutated
  PROVE  RowConf'
BY StillRead DEF RowConf, RowOk, Looks

LEMMA InsertConf ==
  ASSUME RowInv, RowConf, Grows, NEW i \in Jobs, NEW k, NEW p, Insert(i, k, p),
         UNCHANGED <<outbox, mutated>>
  PROVE  RowConf'
<1> SUFFICES ASSUME NEW j \in Jobs PROVE RowOk(j)'
  BY DEF RowConf
<1> USE DEF RowOk
<1>1. CASE j = i
  BY <1>1 DEF Insert, RowConf, RowInv, JobsTypeOK
<1>2. CASE j # i
  BY <1>2, StillRead DEF Insert, RowConf, RowInv, JobsTypeOK
<1> QED BY <1>1, <1>2

LEMMA RowConfStep ==
  ASSUME TypeInv, RowConf, ApplyConf, [Next]_vars
  PROVE  RowConf'
<1> USE Growth DEF TypeInv, RowOk
<1>1. ASSUME NEW j \in Jobs, PlannerEnqueues(j) PROVE RowConf'
  BY <1>1, InsertConf DEF PlannerEnqueues
<1>2. ASSUME NEW j \in Jobs, ApplyTakes(j) PROVE RowConf'
  BY <1>2, RowConfFrame DEF ApplyTakes
<1>3. CASE FeederEnqueues
  BY <1>3, InsertConf, RowConfFrame DEF FeederEnqueues
<1>4. ASSUME NEW m \in Requests, NEW j \in Jobs, TakeJob(m, j) PROVE RowConf'
  <2>1. m.worker \in Workers
    BY RequestsAreWire DEF Wire, Message
  <2>2. owner'[j] \in Looks(kind'[j])
    BY <1>4, <2>1 DEF TakeJob, Claimable, Looks, RowInv, JobsTypeOK
  <2> QED BY <1>4, <2>2, StillRead DEF TakeJob, RowConf, RowInv, JobsTypeOK,
                                   Looks
<1>5. ASSUME NEW m \in Requests, ResultAccepted(m) PROVE RowConf'
  <2>1. m \in Wire /\ m.job \in Jobs /\ m.worker \in Workers
    BY <1>5, RequestsAreWire DEF ResultAccepted, Wire, Message
  <2>2. m.worker \in Looks(kind[m.job])
    BY <1>5, <2>1 DEF ResultAccepted, Accepts, Holds, RowConf
  <2>3. ReadBy(m.job, Looks(kind[m.job]), m.seen)'
    BY <1>5, <2>2 DEF ResultAccepted, ReadBy, Looks
  <2> SUFFICES ASSUME NEW j \in Jobs PROVE RowOk(j)'
    BY DEF RowConf
  <2> USE DEF RowOk
  <2>4. CASE j = m.job
    BY <1>5, <2>3, <2>4 DEF ResultAccepted, RowInv, JobsTypeOK
  <2>5. CASE j # m.job
    BY <1>5, <2>5, StillRead
       DEF ResultAccepted, InsertOutbox, RowConf, RowInv, JobsTypeOK, Looks
  <2> QED BY <2>4, <2>5
<1>6. ASSUME NEW m \in Requests, ResultReplayed(m) PROVE RowConf'
  BY <1>6, StillRead DEF ResultReplayed, InsertOutbox, RowConf, RowInv,
     JobsTypeOK,
                         Looks
<1>7. ASSUME NEW m \in Requests, NEW j \in Jobs, ChainEnqueues(m, j)
      PROVE  RowConf'
  BY <1>7, InsertConf DEF ChainEnqueues
<1>8. ASSUME NEW m \in Requests, FailWrites(m) PROVE RowConf'
  BY <1>8, StillRead DEF FailWrites, FailedTo, RowConf, RowInv, JobsTypeOK,
     Looks
<1>9. CASE ApplyReads
  BY <1>9, RowConfFrame DEF ApplyReads
<1>10. CASE ApplyGatesFirst
  BY <1>10, RowConfFrame DEF ApplyGatesFirst
<1>11. CASE ApplyGatesSecond
  BY <1>11, RowConfFrame DEF ApplyGatesSecond
<1>12. CASE ApplySkips
  BY <1>12, RowConfFrame DEF ApplySkips
<1>13. CASE ApplyConfirms
  BY <1>13, InsertConf, RowConfFrame DEF ApplyConfirms
<1>14. CASE ApplyMutates
  BY <1>14, StillRead DEF ApplyMutates, ApplyConf, RowConf, Looks
<1>15. CASE ApplyMarks
  BY <1>15, RowConfFrame DEF ApplyMarks
<1>16. CASE ApplyDone
  <2>1. apply.job \in Jobs => status[apply.job] # "ABSENT"
    BY <1>16 DEF ApplyDone, ApplyConf, ApplyInv, Idle
  <2> QED BY <1>16, <2>1, StillRead DEF ApplyDone, RowConf, RowInv,
             JobsTypeOK, Looks
<1>17. CASE ApplyThrows
  <2>1. apply.job \in Jobs => status[apply.job] # "ABSENT"
    BY <1>17 DEF ApplyThrows, ApplyConf, ApplyInv, Idle
  <2> QED BY <1>17, <2>1, StillRead DEF ApplyThrows, RowConf, RowInv,
             JobsTypeOK, Looks
<1>18. CASE Restart
  BY <1>18, RowConfFrame DEF Restart
<1>19. CASE Quiet
  BY <1>19, RowConfFrame DEF Quiet
<1> QED BY <1>1, <1>2, <1>3, <1>4, <1>5, <1>6, <1>7, <1>8, <1>9, <1>10, <1>11,
       <1>12, <1>13, <1>14, <1>15, <1>16, <1>17, <1>18, <1>19, QuietOrStirs
       DEF Stirs, Applies

LEMMA ParentFrame ==
  ASSUME RowInv, ParentConf, Grows, UNCHANGED parent
  PROVE  ParentConf'
<1> SUFFICES ASSUME NEW j \in Jobs, parent[j] # NoJob
             PROVE  /\ kind'[j] = "SECOND" /\ status'[j] # "ABSENT"
                    /\ kind'[parent[j]] = "FIRST"
                    /\ status'[parent[j]] # "ABSENT"
  BY DEF ParentConf
<1>1. parent[j] \in Jobs
  BY DEF RowInv, JobsTypeOK
<1> QED BY <1>1 DEF ParentConf, Grows, Stays

LEMMA FirstLooks ==
  ASSUME RowInv, ParentConf, Grows, NEW i \in Jobs, Insert(i, "FIRST", NoJob)
  PROVE  ParentConf'
<1>1. /\ parent' = [parent EXCEPT ![i] = NoJob] /\ status[i] = "ABSENT"
  BY DEF Insert
<1> SUFFICES ASSUME NEW j \in Jobs, parent'[j] # NoJob
             PROVE  /\ kind'[j] = "SECOND" /\ status'[j] # "ABSENT"
                    /\ kind'[parent'[j]] = "FIRST"
                    /\ status'[parent'[j]] # "ABSENT"
  BY DEF ParentConf
<1>2. parent'[j] = parent[j] /\ parent[j] \in Jobs
  BY <1>1 DEF RowInv, JobsTypeOK
<1> QED BY <1>2 DEF ParentConf, Grows, Stays

LEMMA SecondLooks ==
  ASSUME RowInv, ParentConf, Grows, NEW i \in Jobs, NEW p \in Jobs,
         Insert(i, "SECOND", p), kind[p] = "FIRST", status[p] # "ABSENT"
  PROVE  ParentConf'
<1> SUFFICES ASSUME NEW j \in Jobs, parent'[j] # NoJob
             PROVE  /\ kind'[j] = "SECOND" /\ status'[j] # "ABSENT"
                    /\ kind'[parent'[j]] = "FIRST"
                    /\ status'[parent'[j]] # "ABSENT"
  BY DEF ParentConf
<1>1. CASE j = i
  <2>1. parent'[j] = p /\ p \in Jobs /\ p # i
    BY <1>1 DEF Insert, RowInv, JobsTypeOK
  <2> QED BY <1>1, <2>1 DEF Insert, Grows, Stays, RowInv, JobsTypeOK
<1>2. CASE j # i
  <2>1. parent'[j] = parent[j] /\ parent[j] \in Jobs
    BY <1>2 DEF Insert, RowInv, JobsTypeOK
  <2> QED BY <1>2, <2>1 DEF ParentConf, Grows, Stays, RowInv, JobsTypeOK
<1> QED BY <1>1, <1>2

LEMMA ParentStep ==
  ASSUME TypeInv, ParentConf, ApplyConf, AirConf, [Next]_vars
  PROVE  ParentConf'
<1> USE Growth DEF TypeInv
<1>1. ASSUME NEW j \in Jobs, PlannerEnqueues(j) PROVE ParentConf'
  BY <1>1, FirstLooks DEF PlannerEnqueues
<1>2. ASSUME NEW j \in Jobs, ApplyTakes(j) PROVE ParentConf'
  BY <1>2, ParentFrame DEF ApplyTakes
<1>3. CASE FeederEnqueues
  BY <1>3, FirstLooks, ParentFrame DEF FeederEnqueues
<1>4. ASSUME NEW m \in Requests, NEW j \in Jobs, TakeJob(m, j)
      PROVE  ParentConf'
  BY <1>4, ParentFrame DEF TakeJob
<1>5. ASSUME NEW m \in Requests, ResultAccepted(m) PROVE ParentConf'
  BY <1>5, ParentFrame DEF ResultAccepted
<1>6. ASSUME NEW m \in Requests, ResultReplayed(m) PROVE ParentConf'
  BY <1>6, ParentFrame DEF ResultReplayed
<1>7. ASSUME NEW m \in Requests, NEW j \in Jobs, ChainEnqueues(m, j)
      PROVE  ParentConf'
  <2>1. m.job \in Jobs
    BY <1>7, RequestsAreWire DEF ChainEnqueues, Wire
  <2>2. Chained(m)
    BY <1>7 DEF ChainEnqueues, AirConf
  <2> QED BY <1>7, <2>1, <2>2, SecondLooks DEF ChainEnqueues, Chained
<1>8. ASSUME NEW m \in Requests, FailWrites(m) PROVE ParentConf'
  BY <1>8, ParentFrame DEF FailWrites
<1>9. CASE ApplyReads
  BY <1>9, ParentFrame DEF ApplyReads
<1>10. CASE ApplyGatesFirst
  BY <1>10, ParentFrame DEF ApplyGatesFirst
<1>11. CASE ApplyGatesSecond
  BY <1>11, ParentFrame DEF ApplyGatesSecond
<1>12. CASE ApplySkips
  BY <1>12, ParentFrame DEF ApplySkips
<1>13. CASE ApplyConfirms
  <2>1. /\ apply.job \in Jobs /\ kind[apply.job] = "FIRST"
        /\ status[apply.job] # "ABSENT"
    BY <1>13 DEF ApplyConfirms, ApplyConf, ApplyInv
  <2> QED BY <1>13, <2>1, SecondLooks, ParentFrame DEF ApplyConfirms
<1>14. CASE ApplyMutates
  BY <1>14, ParentFrame DEF ApplyMutates
<1>15. CASE ApplyMarks
  BY <1>15, ParentFrame DEF ApplyMarks
<1>16. CASE ApplyDone
  BY <1>16, ParentFrame DEF ApplyDone
<1>17. CASE ApplyThrows
  BY <1>17, ParentFrame DEF ApplyThrows
<1>18. CASE Restart
  BY <1>18, ParentFrame DEF Restart
<1>19. CASE Quiet
  BY <1>19, ParentFrame DEF Quiet
<1> QED BY <1>1, <1>2, <1>3, <1>4, <1>5, <1>6, <1>7, <1>8, <1>9, <1>10, <1>11,
       <1>12, <1>13, <1>14, <1>15, <1>16, <1>17, <1>18, <1>19, QuietOrStirs
       DEF Stirs, Applies

LEMMA ApplyConfFrame ==
  ASSUME ApplyInv, ApplyConf, Grows, UNCHANGED apply
  PROVE  ApplyConf'
<1>1. CASE apply.stage = "idle"
  BY <1>1 DEF ApplyConf
<1>2. CASE apply.stage # "idle"
  <2>1. Stays(apply.job)
    BY <1>2 DEF ApplyInv, ApplyConf, Grows
  <2> QED BY <1>2, <2>1, StillRead DEF ApplyConf, Stays, Looks
<1> QED BY <1>1, <1>2

\* Nothing is asked of the stages that call nobody.
LEMMA ApplyConfIdle ==
  ASSUME apply'.stage \in {"idle", "read", "match", "conflict", "done"},
         apply'.stage # "idle" => status'[apply'.job] # "ABSENT"
  PROVE  ApplyConf'
BY DEF ApplyConf

LEMMA GoesOn ==
  ASSUME ApplyInv, ApplyConf, Grows, apply.stage # "idle",
         NEW s \in {"match", "conflict", "done"}, GoTo(s)
  PROVE  ApplyConf'
<1>1. /\ apply'.stage = s /\ apply'.job = apply.job
      /\ status'[apply.job] # "ABSENT"
  BY DEF GoTo, ApplyInv, ApplyTypeOK, ApplyConf, Grows, Stays
<1> QED BY <1>1, ApplyConfIdle

LEMMA ApplyConfStep ==
  ASSUME TypeInv, RowConf, ParentConf, ApplyConf, [Next]_vars
  PROVE  ApplyConf'
<1> USE Growth DEF TypeInv
<1>1. ASSUME NEW j \in Jobs, PlannerEnqueues(j) PROVE ApplyConf'
  BY <1>1, ApplyConfFrame DEF PlannerEnqueues
<1>2. ASSUME NEW j \in Jobs, ApplyTakes(j) PROVE ApplyConf'
  BY <1>2, ApplyConfIdle DEF ApplyTakes, RowConf, RowOk
<1>3. CASE FeederEnqueues
  BY <1>3, ApplyConfFrame DEF FeederEnqueues
<1>4. ASSUME NEW m \in Requests, NEW j \in Jobs, TakeJob(m, j)
      PROVE  ApplyConf'
  BY <1>4, ApplyConfFrame DEF TakeJob
<1>5. ASSUME NEW m \in Requests, ResultAccepted(m) PROVE ApplyConf'
  BY <1>5, ApplyConfFrame DEF ResultAccepted
<1>6. ASSUME NEW m \in Requests, ResultReplayed(m) PROVE ApplyConf'
  BY <1>6, ApplyConfFrame DEF ResultReplayed
<1>7. ASSUME NEW m \in Requests, NEW j \in Jobs, ChainEnqueues(m, j)
      PROVE  ApplyConf'
  BY <1>7, ApplyConfFrame DEF ChainEnqueues
<1>8. ASSUME NEW m \in Requests, FailWrites(m) PROVE ApplyConf'
  BY <1>8, ApplyConfFrame DEF FailWrites
<1>9. CASE ApplyReads
  <2>1. apply.job \in Jobs /\ status[apply.job] # "ABSENT"
    BY <1>9 DEF ApplyReads, ApplyInv, ApplyConf
  <2>2. CASE Decides(apply.job)
    <3>1. apply' = [apply EXCEPT !.stage = "gate", !.seen = payload[apply.job]]
      BY <1>9, <2>2 DEF ApplyReads
    <3>2. /\ apply'.stage = "gate" /\ apply'.job = apply.job
          /\ apply'.seen = payload[apply.job]
      BY <3>1 DEF ApplyInv, ApplyTypeOK
    <3>3. /\ payload[apply.job] # None
          /\ ReadBy(apply.job, Looks(kind[apply.job]), payload[apply.job])
      BY <2>1, <2>2 DEF Decides, RowConf, RowOk
    <3>4. UNCHANGED <<status, kind, readings>>
      BY <1>9 DEF ApplyReads
    <3> QED BY <2>1, <3>2, <3>3, <3>4 DEF ApplyConf, ReadBy, Looks
  <2>3. CASE ~Decides(apply.job)
    BY <1>9, <2>3, GoesOn DEF ApplyReads
  <2> QED BY <2>2, <2>3
<1>10. CASE ApplyGatesFirst
  <2>1. CASE apply.seen \in Changing /\ GoTo("confirm")
    <3>1. /\ apply'.stage = "confirm" /\ apply'.job = apply.job
          /\ apply'.seen = apply.seen
      BY <2>1 DEF GoTo, ApplyInv, ApplyTypeOK
    <3>2. UNCHANGED <<status, kind, readings>> /\ kind[apply.job] = "FIRST"
      BY <1>10 DEF ApplyGatesFirst
    <3> QED BY <1>10, <3>1, <3>2 DEF ApplyGatesFirst, ApplyConf, ReadBy, Looks
  <2>2. CASE GoTo("done")
    BY <1>10, <2>2, GoesOn DEF ApplyGatesFirst
  <2> QED BY <1>10, <2>1, <2>2 DEF ApplyGatesFirst
<1>11. CASE ApplyGatesSecond
  <2>1. CASE Matches(apply.job) /\ apply.seen \in Changing /\ GoTo("mutate")
    <3> DEFINE p == parent[apply.job]
    <3>1. /\ apply'.stage = "mutate" /\ apply'.job = apply.job
          /\ apply'.seen = apply.seen
      BY <2>1 DEF GoTo, ApplyInv, ApplyTypeOK
    <3>2. /\ UNCHANGED <<status, kind, parent, readings>>
          /\ apply.stage = "gate" /\ kind[apply.job] = "SECOND" /\ p # NoJob
      BY <1>11 DEF ApplyGatesSecond, HasParent
    <3>3. apply.job \in Jobs /\ p \in Jobs /\ kind[p] = "FIRST"
      BY <3>2 DEF ApplyInv, ParentConf, RowInv, JobsTypeOK
    <3>4. apply.seen # None /\ payload[p] = apply.seen
      BY <2>1, <3>2 DEF ApplyConf, Matches
    <3>5. ReadBy(p, First, apply.seen)
      BY <3>3, <3>4 DEF RowConf, RowOk, Looks
    <3> HIDE DEF p
    <3> QED BY <2>1, <3>1, <3>2, <3>3, <3>5 DEF ApplyConf, ReadBy, Looks, p
  <2>2. CASE GoTo("conflict") \/ GoTo("match")
    BY <1>11, <2>2, GoesOn DEF ApplyGatesSecond
  <2> QED BY <1>11, <2>1, <2>2 DEF ApplyGatesSecond
<1>12. CASE ApplySkips
  BY <1>12, GoesOn DEF ApplySkips
<1>13. CASE ApplyConfirms
  BY <1>13, GoesOn DEF ApplyConfirms
<1>14. CASE ApplyMutates
  BY <1>14, GoesOn DEF ApplyMutates
<1>15. CASE ApplyMarks
  BY <1>15, GoesOn DEF ApplyMarks
<1>16. CASE ApplyDone
  BY <1>16, ApplyConfIdle DEF ApplyDone, Idle
<1>17. CASE ApplyThrows
  BY <1>17, ApplyConfIdle DEF ApplyThrows, Idle
<1>18. CASE Restart
  BY <1>18, ApplyConfIdle DEF Restart, Idle
<1>19. CASE Quiet
  BY <1>19, ApplyConfFrame DEF Quiet
<1> QED BY <1>1, <1>2, <1>3, <1>4, <1>5, <1>6, <1>7, <1>8, <1>9, <1>10, <1>11,
       <1>12, <1>13, <1>14, <1>15, <1>16, <1>17, <1>18, <1>19, QuietOrStirs
       DEF Stirs, Applies

-----------------------------------------------------------------------------
(* Only the handlers of a result and of a failure leave a second half to   *)
(* be done, each in its own message and for the job it has just dealt with. *)

Halves == {m \in Requests : m.kind \in {"chain", "failing"}}
Chain(m)   == [m EXCEPT !.kind = "chain"]
Failing(m) == [m EXCEPT !.kind = "failing", !.attempt = attempts[m.job]]

Opens(m) ==
  \/ /\ ResultAccepted(m) \/ ResultReplayed(m)
     /\ kind[m.job] = "FIRST" /\ Halves' \subseteq Halves \cup {Chain(m)}
  \/ FailReads(m) /\ Halves' \subseteq Halves \cup {Failing(m)}

LEMMA OnlyMoved ==
  ASSUME Traffic, Requests' \subseteq Requests \cup Plain
  PROVE  Halves' \subseteq Halves
BY DEF Halves, Plain

LEMMA SentOne ==
  ASSUME Traffic, NEW w \in Workers, NEW x \in Plain \cup {None},
         request' = [request EXCEPT ![w] = x],
         late' \subseteq Requests \cup Plain
  PROVE  Requests' \subseteq Requests \cup Plain
BY DEF Requests, Traffic, MemInv

LEMMA HearsMoves ==
  ASSUME NEW w, NEW answer, Hears(w, answer)
  PROVE  request' = [request EXCEPT ![w] = None]
BY DEF Hears, HearsFlushed, HearsClaimed, HearsRunning, HearsDelivered

LEMMA AnswerMoves ==
  ASSUME Traffic, NEW m \in Requests, NEW answer, Answer(m, answer)
  PROVE  Halves' \subseteq Halves
<1>1. m.worker \in Workers
  BY RequestsAreWire DEF Wire, Message
<1>2. CASE Hears(m.worker, answer) /\ UNCHANGED late
  BY <1>1, <1>2, HearsMoves, SentOne, OnlyMoved DEF Requests
<1>3. CASE late' = late \ {m} /\ UNCHANGED request
  BY <1>3, OnlyMoved DEF Requests
<1> QED BY <1>2, <1>3 DEF Answer

LEMMA ContinueMoves ==
  ASSUME Traffic, NEW m \in Requests, NEW next, Continue(m, next)
  PROVE  Halves' \subseteq Halves \cup {h \in {next} : h.kind \in {"chain", "failing"}}
<1>1. m.worker \in Workers
  BY RequestsAreWire DEF Wire, Message
<1> QED BY <1>1 DEF Continue, Halves, Requests, Traffic, MemInv

LEMMA HalvesStill ==
  ASSUME UNCHANGED <<late, request>>
  PROVE  Halves' \subseteq Halves
BY DEF Halves, Requests

LEMMA HalvesMove ==
  ASSUME TypeInv, [Next]_vars
  PROVE  \/ Halves' \subseteq Halves
         \/ \E m \in Requests : Opens(m)
<1> USE DEF TypeInv
<1>1. ASSUME NEW j \in Jobs, PlannerEnqueues(j) PROVE Halves' \subseteq Halves
  BY <1>1, HalvesStill DEF PlannerEnqueues
<1>2. ASSUME NEW j \in Jobs, LeaseExpires(j) PROVE Halves' \subseteq Halves
  BY <1>2, HalvesStill DEF LeaseExpires
<1>3. ASSUME NEW j \in Jobs, ApplyTakes(j) PROVE Halves' \subseteq Halves
  BY <1>3, HalvesStill DEF ApplyTakes
<1>4. CASE FeederSelects
  BY <1>4, HalvesStill DEF FeederSelects
<1>5. CASE FeederEnqueues
  BY <1>5, HalvesStill DEF FeederEnqueues
<1>6. CASE Recovers
  <2>1. \A j \in Jobs : Expired(j) =>
          Msg("fail", owner[j], [job |-> j, token |-> token[j]], "error") \in Plain
    BY DEF Expired, RowInv, JobsTypeOK, Msg, Plain, Wire, Message, Failures
  <2>2. late' \subseteq late \cup Plain /\ UNCHANGED request
    BY <1>6, <2>1 DEF Recovers
  <2> QED BY <2>2, OnlyMoved DEF Requests
<1>7. ASSUME NEW m \in Requests, ClaimIsBusy(m) PROVE Halves' \subseteq Halves
  BY <1>7, AnswerMoves DEF ClaimIsBusy
<1>8. ASSUME NEW m \in Requests, ClaimGoesOn(m) PROVE Halves' \subseteq Halves
  BY <1>8, ContinueMoves, RequestsAreWire DEF ClaimGoesOn, Wire, Message
<1>9. ASSUME NEW m \in Requests, TakeNothing(m) PROVE Halves' \subseteq Halves
  BY <1>9, AnswerMoves DEF TakeNothing
<1>10. ASSUME NEW m \in Requests, NEW j \in Jobs, TakeJob(m, j) PROVE Halves' \subseteq Halves
  <2>1. m \in Wire /\ m.worker \in Workers
    BY RequestsAreWire DEF Wire, Message
  <2> DEFINE h == [job |-> j, token |-> claims[j] + 1]
  <2>2. h \in Hands /\ h.job \in Jobs
    BY DEF Hands, RowInv, JobsTypeOK
  <2>3. CASE HearsClaimed(m.worker, h) /\ UNCHANGED <<late, renewal>>
    <3> DEFINE r == Msg("running", m.worker, h, None)
    <3>1. r \in Plain
      BY <2>1, <2>2, Written
    <3> HIDE DEF r
    <3>2. \/ request' = [request EXCEPT ![m.worker] = None]
          \/ request' = [request EXCEPT ![m.worker] = r]
      BY <2>3 DEF HearsClaimed, r
    <3>3. late' \subseteq Requests \cup Plain
      BY <2>3 DEF Requests
    <3>4. Requests' \subseteq Requests \cup Plain
      BY <2>1, <3>1, <3>2, <3>3, SentOne
    <3> QED BY <3>4, OnlyMoved
  <2>4. CASE late' = late \ {m} /\ UNCHANGED workerVars
    BY <2>4, OnlyMoved DEF Requests
  <2> QED BY <1>10, <2>3, <2>4 DEF TakeJob
<1>11. ASSUME NEW m \in Requests, Running(m) PROVE Halves' \subseteq Halves
  BY <1>11, AnswerMoves DEF Running
<1>12. ASSUME NEW m \in Requests, ResultAccepted(m)
       PROVE  Halves' \subseteq Halves \/ Opens(m)
  <2>1. AfterCommit(m)
    BY <1>12 DEF ResultAccepted
  <2>2. CASE Answer(m, "ok")
    BY <2>2, AnswerMoves
  <2>3. CASE kind[m.job] = "FIRST" /\ Continue(m, Chain(m))
    <3>1. Halves' \subseteq Halves \cup {Chain(m)}
      BY <2>3, ContinueMoves
    <3> QED BY <1>12, <2>3, <3>1 DEF Opens
  <2> QED BY <2>1, <2>2, <2>3 DEF AfterCommit, Chain
<1>13. ASSUME NEW m \in Requests, ResultReplayed(m)
       PROVE  Halves' \subseteq Halves \/ Opens(m)
  <2>1. AfterCommit(m)
    BY <1>13 DEF ResultReplayed
  <2>2. CASE Answer(m, "ok")
    BY <2>2, AnswerMoves
  <2>3. CASE kind[m.job] = "FIRST" /\ Continue(m, Chain(m))
    <3>1. Halves' \subseteq Halves \cup {Chain(m)}
      BY <2>3, ContinueMoves
    <3> QED BY <1>13, <2>3, <3>1 DEF Opens
  <2> QED BY <2>1, <2>2, <2>3 DEF AfterCommit, Chain
<1>14. ASSUME NEW m \in Requests, ResultRefused(m) PROVE Halves' \subseteq Halves
  BY <1>14, AnswerMoves DEF ResultRefused
<1>15. ASSUME NEW m \in Requests, ChainSkips(m) PROVE Halves' \subseteq Halves
  BY <1>15, AnswerMoves DEF ChainSkips
<1>16. ASSUME NEW m \in Requests, NEW j \in Jobs, ChainEnqueues(m, j)
       PROVE  Halves' \subseteq Halves
  BY <1>16, AnswerMoves DEF ChainEnqueues
<1>17. ASSUME NEW m \in Requests, FailRefused(m) PROVE Halves' \subseteq Halves
  BY <1>17, AnswerMoves DEF FailRefused
<1>18. ASSUME NEW m \in Requests, FailReads(m) PROVE Opens(m)
  <2>1. Continue(m, Failing(m))
    BY <1>18 DEF FailReads, Failing
  <2>2. Halves' \subseteq Halves \cup {Failing(m)}
    BY <2>1, ContinueMoves
  <2> QED BY <1>18, <2>2 DEF Opens
<1>19. ASSUME NEW m \in Requests, FailWrites(m) PROVE Halves' \subseteq Halves
  BY <1>19, AnswerMoves DEF FailWrites
<1>20. ASSUME NEW m \in Requests, FailThrows(m) PROVE Halves' \subseteq Halves
  BY <1>20, AnswerMoves DEF FailThrows
<1>21. ASSUME NEW m \in late \cup Renewals, Renew(m) PROVE Halves' \subseteq Halves
  <2>1. late' \subseteq late /\ UNCHANGED request
    BY <1>21 DEF Renew
  <2> QED BY <2>1, OnlyMoved DEF Requests
<1>22. ASSUME NEW w \in Workers, AsksAtOnce(w) PROVE Halves' \subseteq Halves
  <2> DEFINE r == Msg("claim", w, Nothing, None)
  <2>1. r \in Plain
    BY NothingInHand, Written
  <2>2. request' = [request EXCEPT ![w] = r] /\ UNCHANGED late
    BY <1>22 DEF AsksAtOnce, Asks
  <2>3. late' \subseteq Requests \cup Plain
    BY <2>2 DEF Requests
  <2> HIDE DEF r
  <2> QED BY <2>1, <2>2, <2>3, SentOne, OnlyMoved
<1>23. ASSUME NEW w \in Workers, FlushStarts(w) PROVE Halves' \subseteq Halves
  BY <1>23, HalvesStill DEF FlushStarts
<1>24. ASSUME NEW w \in Workers, FlushEnds(w) PROVE Halves' \subseteq Halves
  <2> DEFINE r == Msg("claim", w, Nothing, None)
  <2>1. r \in Plain
    BY NothingInHand, Written
  <2>2. request' = [request EXCEPT ![w] = r] /\ UNCHANGED late
    BY <1>24 DEF FlushEnds, Asks
  <2>3. late' \subseteq Requests \cup Plain
    BY <2>2 DEF Requests
  <2> HIDE DEF r
  <2> QED BY <2>1, <2>2, <2>3, SentOne, OnlyMoved
<1>25. ASSUME NEW w \in Workers, ObserveSkips(w) PROVE Halves' \subseteq Halves
  BY <1>25, HalvesStill DEF ObserveSkips
<1>26. ASSUME NEW w \in Workers, NEW m \in todo[w], FlushSends(w, m)
       PROVE  Halves' \subseteq Halves
  <2>1. m \in Plain
    BY <1>26 DEF Traffic, MemInv
  <2>2. request' = [request EXCEPT ![w] = m] /\ UNCHANGED late
    BY <1>26 DEF FlushSends
  <2>3. late' \subseteq Requests \cup Plain
    BY <2>2 DEF Requests
  <2> QED BY <2>1, <2>2, <2>3, SentOne, OnlyMoved
<1>27. ASSUME NEW w \in Workers, NEW seen \in SeenBy(w), Delivers(w, seen)
       PROVE  Halves' \subseteq Halves
  <2> DEFINE r == Msg(IF seen \in Readings THEN "result" ELSE "fail",
                      w, hand[w], seen)
  <2>1. r \in Plain
    BY <1>27, Written, SeenAssumption DEF Delivers, SeenBy, Traffic, MemInv
  <2>2. request' = [request EXCEPT ![w] = r] /\ UNCHANGED late
    BY <1>27 DEF Delivers
  <2>3. late' \subseteq Requests \cup Plain
    BY <2>2 DEF Requests
  <2> HIDE DEF r
  <2> QED BY <2>1, <2>2, <2>3, SentOne, OnlyMoved
<1>28. ASSUME NEW w \in Workers, RenewSends(w) PROVE Halves' \subseteq Halves
  BY <1>28, HalvesStill DEF RenewSends
<1>29. ASSUME NEW w \in Workers, RenewRefused(w) PROVE Halves' \subseteq Halves
  BY <1>29, HalvesStill DEF RenewRefused
<1>30. ASSUME NEW w \in Workers, RenewFails(w) PROVE Halves' \subseteq Halves
  <2>1. Unanswered({renewal[w]}) \subseteq Plain
    BY DEF Unanswered, Traffic, AirInv
  <2>2. late' \subseteq late \cup Plain /\ UNCHANGED request
    BY <1>30, <2>1 DEF RenewFails, Abandon
  <2> QED BY <2>2, OnlyMoved DEF Requests
<1>31. CASE ApplyReads
  BY <1>31, HalvesStill DEF ApplyReads
<1>32. CASE ApplyGatesFirst
  BY <1>32, HalvesStill DEF ApplyGatesFirst
<1>33. CASE ApplyGatesSecond
  BY <1>33, HalvesStill DEF ApplyGatesSecond
<1>34. CASE ApplySkips
  BY <1>34, HalvesStill DEF ApplySkips
<1>35. CASE ApplyConfirms
  BY <1>35, HalvesStill DEF ApplyConfirms
<1>36. CASE ApplyMutates
  BY <1>36, HalvesStill DEF ApplyMutates
<1>37. CASE ApplyMarks
  BY <1>37, HalvesStill DEF ApplyMarks
<1>38. CASE ApplyDone
  BY <1>38, HalvesStill DEF ApplyDone
<1>39. ASSUME NEW w \in Workers, RequestFails(w) PROVE Halves' \subseteq Halves
  <2>1. request[w] \in Requests
    BY <1>39 DEF RequestFails, Requests
  <2>2. late' \subseteq Requests \cup Plain
    BY <1>39, <2>1 DEF RequestFails, Abandon, Requests
  <2> QED BY <1>39, <2>2, HearsMoves, SentOne, OnlyMoved DEF
             RequestFails
<1>40. ASSUME NEW w \in Workers, WorkerCrash(w) PROVE Halves' \subseteq Halves
  <2>1. Unanswered({request[w], renewal[w]}) \subseteq Requests \cup Plain
    BY DEF Unanswered, Requests, Traffic, AirInv
  <2>2. late' \subseteq Requests \cup Plain
    BY <1>40, <2>1 DEF WorkerCrash, Abandon, Requests
  <2> QED BY <1>40, <2>2, SentOne, OnlyMoved DEF WorkerCrash
<1>41. ASSUME NEW m \in late, Dropped(m) PROVE Halves' \subseteq Halves
  BY <1>41, OnlyMoved DEF Dropped, Requests
<1>42. CASE ApplyThrows
  BY <1>42, HalvesStill DEF ApplyThrows
<1>43. CASE Restart
  BY <1>43, HalvesStill DEF Restart
<1>44. CASE UNCHANGED vars
  BY <1>44, HalvesStill
<1> QED BY <1>1, <1>2, <1>3, <1>4, <1>5, <1>6, <1>7, <1>8, <1>9, <1>10, <1>11,
       <1>12, <1>13, <1>14, <1>15, <1>16, <1>17, <1>18, <1>19, <1>20, <1>21,
       <1>22, <1>23, <1>24, <1>25, <1>26, <1>27, <1>28, <1>29, <1>30, <1>31,
       <1>32, <1>33, <1>34, <1>35, <1>36, <1>37, <1>38, <1>39, <1>40, <1>41,
       <1>42, <1>43, <1>44 DEF Next, Handle, Claim, Result, Fail, WorkerStep,
       Applies, Fails

LEMMA AirFrame ==
  ASSUME Traffic, Grows, AirConf, NEW m \in Halves, m.kind = "chain"
  PROVE  Chained(m)'
<1>1. m \in Requests /\ m \in Wire /\ m.job \in Jobs
  BY RequestsAreWire DEF Halves, Wire
<1> QED BY <1>1 DEF AirConf, Chained, Grows, Stays

LEMMA AirStep ==
  ASSUME TypeInv, AirConf, [Next]_vars
  PROVE  AirConf'
<1> SUFFICES ASSUME NEW h \in Halves', h.kind = "chain" PROVE Chained(h)'
  BY DEF AirConf, Halves
<1>1. CASE h \in Halves
  BY <1>1, Growth, AirFrame DEF TypeInv
<1>2. ASSUME NEW m \in Requests, Opens(m), h \notin Halves
      PROVE  Chained(h)'
  <2>1. CASE /\ ResultAccepted(m) \/ ResultReplayed(m)
             /\ kind[m.job] = "FIRST" /\ h = Chain(m)
    <3>1. m.job \in Jobs /\ h.job = m.job
      BY <2>1, RequestsAreWire DEF ResultAccepted, ResultReplayed, Chain, TypeInv,
         Wire, Message
    <3>2. kind'[m.job] = "FIRST" /\ status'[m.job] = "COMPLETED"
      BY <2>1, <3>1 DEF ResultAccepted, ResultReplayed, TypeInv, RowInv,
         JobsTypeOK
    <3> QED BY <3>1, <3>2 DEF Chained
  <2>2. CASE h = Failing(m)
    <3>1. h.kind = "failing"
      BY <2>2, RequestsAreWire DEF Failing, TypeInv, Wire, Message
    <3> QED BY <3>1
  <2> QED BY <1>2, <2>1, <2>2 DEF Opens
<1> QED BY <1>1, <1>2, HalvesMove

LEMMA MutatedFrame ==
  ASSUME TypeInv, RowConf, MutationIsConfirmed, Grows, mutated' \subseteq mutated
  PROVE  MutationIsConfirmed'
<1>1. \A j \in mutated : parent'[j] = parent[j]
  BY DEF TypeInv, RowInv, JobsTypeOK, RowConf, RowOk, Grows, Stays
<1> QED BY <1>1 DEF MutationIsConfirmed, Grows

LEMMA MutationStep ==
  ASSUME TypeInv, RowConf, ApplyConf, MutationIsConfirmed, [Next]_vars
  PROVE  MutationIsConfirmed'
<1> USE Growth
<1>1. ASSUME NEW j \in Jobs, PlannerEnqueues(j) PROVE MutationIsConfirmed'
  BY <1>1, MutatedFrame DEF PlannerEnqueues
<1>2. ASSUME NEW j \in Jobs, ApplyTakes(j) PROVE MutationIsConfirmed'
  BY <1>2, MutatedFrame DEF ApplyTakes
<1>3. CASE FeederEnqueues
  BY <1>3, MutatedFrame DEF FeederEnqueues
<1>4. ASSUME NEW m \in Requests, NEW j \in Jobs, TakeJob(m, j)
      PROVE  MutationIsConfirmed'
  BY <1>4, MutatedFrame DEF TakeJob
<1>5. ASSUME NEW m \in Requests, ResultAccepted(m) PROVE MutationIsConfirmed'
  BY <1>5, MutatedFrame DEF ResultAccepted
<1>6. ASSUME NEW m \in Requests, ResultReplayed(m) PROVE MutationIsConfirmed'
  BY <1>6, MutatedFrame DEF ResultReplayed
<1>7. ASSUME NEW m \in Requests, NEW j \in Jobs, ChainEnqueues(m, j)
      PROVE  MutationIsConfirmed'
  BY <1>7, MutatedFrame DEF ChainEnqueues
<1>8. ASSUME NEW m \in Requests, FailWrites(m) PROVE MutationIsConfirmed'
  BY <1>8, MutatedFrame DEF FailWrites
<1>9. CASE ApplyReads
  BY <1>9, MutatedFrame DEF ApplyReads
<1>10. CASE ApplyGatesFirst
  BY <1>10, MutatedFrame DEF ApplyGatesFirst
<1>11. CASE ApplyGatesSecond
  BY <1>11, MutatedFrame DEF ApplyGatesSecond
<1>12. CASE ApplySkips
  BY <1>12, MutatedFrame DEF ApplySkips
<1>13. CASE ApplyConfirms
  BY <1>13, MutatedFrame DEF ApplyConfirms
<1>14. CASE ApplyMutates
  <2>1. /\ UNCHANGED <<parent, readings>>
        /\ mutated' = mutated \cup {apply.job}
        /\ apply.stage = "mutate"
    BY <1>14 DEF ApplyMutates
  <2>2. /\ ReadBy(apply.job, Second, apply.seen)
        /\ ReadBy(parent[apply.job], First, apply.seen)
        /\ apply.seen \in Changing
    BY <2>1 DEF ApplyConf, Looks
  <2> QED BY <2>1, <2>2 DEF MutationIsConfirmed, ReadBy
<1>15. CASE ApplyMarks
  BY <1>15, MutatedFrame DEF ApplyMarks
<1>16. CASE ApplyDone
  BY <1>16, MutatedFrame DEF ApplyDone
<1>17. CASE ApplyThrows
  BY <1>17, MutatedFrame DEF ApplyThrows
<1>18. CASE Restart
  BY <1>18, MutatedFrame DEF Restart
<1>19. CASE Quiet
  BY <1>19, MutatedFrame DEF Quiet
<1> QED BY <1>1, <1>2, <1>3, <1>4, <1>5, <1>6, <1>7, <1>8, <1>9, <1>10, <1>11,
       <1>12, <1>13, <1>14, <1>15, <1>16, <1>17, <1>18, <1>19, QuietOrStirs
       DEF Stirs, Applies

LEMMA ConfStep ==
  ASSUME TypeInv, Conf, [Next]_vars
  PROVE  Conf'
BY RowConfStep, ParentStep, ApplyConfStep, AirStep, MutationStep DEF Conf

(* No single reading changes a listing: whenever eBay was called for a     *)
(* job, a worker for second looks had read for it the change that a worker *)
(* for first looks had read for its parent, whatever was reopened.         *)
THEOREM MutationConfirmed == Spec => []MutationIsConfirmed
<1>1. TypeInv /\ Conf /\ [Next]_vars => (TypeInv /\ Conf)'
  BY TypeStep, ConfStep
<1>2. Conf => MutationIsConfirmed
  BY DEF Conf
<1> QED BY <1>1, <1>2, TypeInit, ConfInit, PTL DEF Spec

-----------------------------------------------------------------------------
(* What a claim is charged.  While a job has a token, it is of its last    *)
(* claim, which nobody has charged yet; a failure that has read the count  *)
(* read it under such a token, and the count of claims only grows.         *)

ChargeOk(j) ==
  /\ owner[j] # NoWorker => token[j] # 0
  /\ token[j] # 0 => token[j] = claims[j] /\ attempts[j] < claims[j]
  /\ attempts[j] <= claims[j]
  /\ status[j] = "FAILED" => MaxAttempts <= claims[j]
RowCharge == \A j \in Jobs : ChargeOk(j)
AirCharge == \A m \in Requests : m.kind = "failing" => m.attempt < claims[m.job]
Charge == RowCharge /\ AirCharge

LEMMA ChargeInit == Init => Charge
BY LimitsAssumption DEF Init, Charge, RowCharge, ChargeOk, AirCharge, Requests

LEMMA RowChargeFrame ==
  ASSUME RowCharge, UNCHANGED <<owner, token, attempts, claims>>,
         \A j \in Jobs : status'[j] = "FAILED" => status[j] = "FAILED"
  PROVE  RowCharge'
BY DEF RowCharge, ChargeOk

LEMMA InsertCharge ==
  ASSUME RowInv, RowCharge, NEW i \in Jobs, NEW k, NEW p, Insert(i, k, p),
         UNCHANGED claims
  PROVE  RowCharge'
<1>1. \A j \in Jobs : status'[j] = "FAILED" => status[j] = "FAILED"
  BY DEF Insert, RowInv, JobsTypeOK
<1> QED BY <1>1, RowChargeFrame DEF Insert

LEMMA TakeCharge ==
  ASSUME TypeInv, RowCharge, NEW m \in Requests, NEW i \in Jobs, TakeJob(m, i)
  PROVE  RowCharge'
<1>1. /\ claims[i] \in Nat /\ attempts[i] \in Nat /\ attempts[i] <= claims[i]
      /\ claims \in [Jobs -> Nat] /\ token \in [Jobs -> Nat]
      /\ owner \in [Jobs -> Workers \cup {NoWorker}] /\ status \in [Jobs -> Statuses]
  BY DEF TypeInv, RowInv, JobsTypeOK, RowCharge, ChargeOk
<1>2. /\ claims'[i] = claims[i] + 1 /\ token'[i] = claims[i] + 1
      /\ status'[i] = "CLAIMED" /\ attempts' = attempts
  BY <1>1 DEF TakeJob
<1>3. ChargeOk(i)'
  BY <1>1, <1>2 DEF ChargeOk
<1>4. ASSUME NEW j \in Jobs \ {i} PROVE ChargeOk(j)'
  <2>1. /\ claims'[j] = claims[j] /\ token'[j] = token[j]
        /\ status'[j] = status[j] /\ owner'[j] = owner[j] /\ attempts' = attempts
    BY <1>1 DEF TakeJob
  <2> QED BY <2>1 DEF RowCharge, ChargeOk
<1> QED BY <1>3, <1>4 DEF RowCharge

LEMMA FailCharge ==
  ASSUME TypeInv, Charge, NEW m \in Requests, FailWrites(m)
  PROVE  RowCharge'
<1> DEFINE i == m.job
<1>1. /\ i \in Jobs /\ m.attempt \in Nat /\ m.attempt < claims[i]
  BY RequestsAreWire DEF FailWrites, TypeInv, Wire, Message, Charge, AirCharge
<1>2. /\ claims[i] \in Nat /\ attempts[i] \in Nat /\ attempts[i] <= claims[i]
      /\ attempts \in [Jobs -> Nat] /\ token \in [Jobs -> Nat]
      /\ owner \in [Jobs -> Workers \cup {NoWorker}] /\ status \in [Jobs -> Statuses]
  BY <1>1 DEF TypeInv, RowInv, JobsTypeOK, Charge, RowCharge, ChargeOk
<1>3. /\ status'[i] = FailedTo(m) /\ attempts'[i] = Charged(m)
      /\ owner'[i] = NoWorker /\ token'[i] = 0 /\ claims' = claims
  BY <1>1, <1>2 DEF FailWrites
<1>4. Charged(m) <= claims[i]
  BY <1>1, <1>2 DEF Charged
<1>5. FailedTo(m) = "FAILED" => MaxAttempts <= claims[i]
  BY <1>1, <1>2, LimitsAssumption DEF FailedTo
<1>6. ChargeOk(i)'
  BY <1>3, <1>4, <1>5 DEF ChargeOk
<1>7. ASSUME NEW j \in Jobs \ {i} PROVE ChargeOk(j)'
  <2>1. /\ claims'[j] = claims[j] /\ token'[j] = token[j]
        /\ status'[j] = status[j] /\ owner'[j] = owner[j]
        /\ attempts'[j] = attempts[j]
    BY <1>2 DEF FailWrites
  <2> QED BY <2>1 DEF Charge, RowCharge, ChargeOk
<1> QED BY <1>6, <1>7 DEF RowCharge

LEMMA RowChargeStep ==
  ASSUME TypeInv, Charge, [Next]_vars
  PROVE  RowCharge'
<1> USE DEF TypeInv, Charge
<1>1. ASSUME NEW j \in Jobs, PlannerEnqueues(j) PROVE RowCharge'
  BY <1>1, InsertCharge DEF PlannerEnqueues
<1>2. ASSUME NEW j \in Jobs, ApplyTakes(j) PROVE RowCharge'
  BY <1>2, RowChargeFrame DEF ApplyTakes
<1>3. CASE FeederEnqueues
  BY <1>3, InsertCharge, RowChargeFrame DEF FeederEnqueues
<1>4. ASSUME NEW m \in Requests, NEW j \in Jobs, TakeJob(m, j) PROVE RowCharge'
  BY <1>4, TakeCharge
<1>5. ASSUME NEW m \in Requests, ResultAccepted(m) PROVE RowCharge'
  <2>1. \A j \in Jobs : status'[j] = "FAILED" => status[j] = "FAILED"
    BY <1>5 DEF ResultAccepted, RowInv, JobsTypeOK
  <2> QED BY <1>5, <2>1, RowChargeFrame DEF ResultAccepted
<1>6. ASSUME NEW m \in Requests, ResultReplayed(m) PROVE RowCharge'
  BY <1>6, RowChargeFrame DEF ResultReplayed
<1>7. ASSUME NEW m \in Requests, NEW j \in Jobs, ChainEnqueues(m, j)
      PROVE  RowCharge'
  BY <1>7, InsertCharge DEF ChainEnqueues
<1>8. ASSUME NEW m \in Requests, FailWrites(m) PROVE RowCharge'
  BY <1>8, FailCharge
<1>9. CASE ApplyReads
  BY <1>9, RowChargeFrame DEF ApplyReads
<1>10. CASE ApplyGatesFirst
  BY <1>10, RowChargeFrame DEF ApplyGatesFirst
<1>11. CASE ApplyGatesSecond
  BY <1>11, RowChargeFrame DEF ApplyGatesSecond
<1>12. CASE ApplySkips
  BY <1>12, RowChargeFrame DEF ApplySkips
<1>13. CASE ApplyConfirms
  BY <1>13, InsertCharge, RowChargeFrame DEF ApplyConfirms
<1>14. CASE ApplyMutates
  BY <1>14, RowChargeFrame DEF ApplyMutates
<1>15. CASE ApplyMarks
  BY <1>15, RowChargeFrame DEF ApplyMarks
<1>16. CASE ApplyDone
  BY <1>16, RowChargeFrame DEF ApplyDone
<1>17. CASE ApplyThrows
  BY <1>17, RowChargeFrame DEF ApplyThrows
<1>18. CASE Restart
  BY <1>18, RowChargeFrame DEF Restart
<1>19. CASE Quiet
  BY <1>19, RowChargeFrame DEF Quiet
<1> QED BY <1>1, <1>2, <1>3, <1>4, <1>5, <1>6, <1>7, <1>8, <1>9, <1>10, <1>11,
       <1>12, <1>13, <1>14, <1>15, <1>16, <1>17, <1>18, <1>19, QuietOrStirs
       DEF Stirs, Applies

LEMMA ClaimsGrow ==
  ASSUME TypeInv, [Next]_vars
  PROVE  \A j \in Jobs : claims'[j] >= claims[j]
<1>1. claims \in [Jobs -> Nat]
  BY DEF TypeInv, RowInv, JobsTypeOK
<1>2. ASSUME NEW m \in Requests, NEW i \in Jobs, TakeJob(m, i)
      PROVE  \A j \in Jobs : claims'[j] >= claims[j]
  BY <1>1, <1>2 DEF TakeJob
<1>3. CASE UNCHANGED claims
  BY <1>1, <1>3
<1>4. CASE Stirs
  BY <1>2, <1>3, <1>4 DEF Stirs, PlannerEnqueues, ApplyTakes, FeederEnqueues,
     ChainEnqueues, ResultAccepted, ResultReplayed, FailWrites, Applies,
     ApplyReads, ApplyGatesFirst, ApplyGatesSecond, ApplySkips, ApplyConfirms,
     ApplyMutates, ApplyMarks, ApplyDone, ApplyThrows, Restart
<1>5. CASE Quiet
  BY <1>3, <1>5 DEF Quiet
<1> QED BY <1>4, <1>5, QuietOrStirs

LEMMA AirChargeStep ==
  ASSUME TypeInv, Charge, [Next]_vars
  PROVE  AirCharge'
<1> SUFFICES ASSUME NEW h \in Halves', h.kind = "failing"
             PROVE  h.attempt < claims'[h.job]
  BY DEF AirCharge, Halves
<1>1. claims \in [Jobs -> Nat] /\ claims' \in [Jobs -> Nat]
  BY TypeStep DEF TypeInv, RowInv, JobsTypeOK
<1>2. CASE h \in Halves
  <2>1. h.job \in Jobs /\ h.attempt \in Nat /\ h.attempt < claims[h.job]
    BY <1>2, RequestsAreWire DEF Halves, TypeInv, Wire, Message, Charge, AirCharge
  <2> QED BY <1>1, <2>1, ClaimsGrow
<1>3. ASSUME NEW m \in Requests, Opens(m), h \notin Halves
      PROVE  h.attempt < claims'[h.job]
  <2>1. CASE h = Chain(m)
    <3>1. h.kind = "chain"
      BY <2>1, RequestsAreWire DEF Chain, TypeInv, Wire, Message
    <3> QED BY <3>1
  <2>2. CASE FailReads(m) /\ h = Failing(m)
    <3>1. /\ m.job \in Jobs /\ m.worker \in Workers
          /\ h.job = m.job /\ h.attempt = attempts[m.job]
      BY <2>2, RequestsAreWire DEF FailReads, Failing, TypeInv, Wire, Message
    <3>2. owner[m.job] = m.worker
      BY <2>2 DEF FailReads
    <3>3. attempts[m.job] < claims[m.job] /\ attempts[m.job] \in Nat
      BY <3>1, <3>2, WorkersAssumption DEF TypeInv, RowInv, JobsTypeOK, Charge,
         RowCharge, ChargeOk
    <3> QED BY <1>1, <3>1, <3>3, ClaimsGrow
  <2> QED BY <1>3, <2>1, <2>2 DEF Opens
<1> QED BY <1>2, <1>3, HalvesMove

(* A claim is charged one attempt at most, and a job that FAILED was       *)
(* claimed MaxAttempts times, although the worker's own fail, its copy in  *)
(* the local outbox and every recovery report the same claim and each      *)
(* reads the count in one statement and writes it in another               *)
(* (failScanJob, recoverExpiredRunningScanJobs).                           *)
THEOREM AttemptsCharged == Spec => []ChargedOncePerClaim
<1>1. TypeInv /\ Charge /\ [Next]_vars => (TypeInv /\ Charge)'
  BY TypeStep, RowChargeStep, AirChargeStep DEF Charge
<1>2. Charge => ChargedOncePerClaim
  BY DEF Charge, RowCharge, ChargeOk, ChargedOncePerClaim
<1> QED BY <1>1, <1>2, TypeInit, ChargeInit, PTL DEF Spec

=============================================================================
