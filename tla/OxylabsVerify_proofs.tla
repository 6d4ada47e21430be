------------------------ MODULE OxylabsVerify_proofs ------------------------
(***************************************************************************)
(* Proofs about OxylabsVerify for every set of jobs, every cap and every   *)
(* bound on delayed requests.                                              *)
(***************************************************************************)
EXTENDS OxylabsVerify, FiniteSetTheorems, TLAPS

-----------------------------------------------------------------------------
(* The inductive type invariant: TypeOK, and what makes a request of the   *)
(* worker well-formed.                                                     *)

InHand == {"ensure", "decide", "calling", "called", "rejecting"}

(* The job the worker works on, and its ledger row once it exists.         *)
HandOK ==
  pc \in InHand => /\ job \in Jobs /\ token \in Tokens
                   /\ pc # "ensure" => callState[job] # "none"
                   /\ pc = "rejecting" => failCode[job] # "none"

(* A ledger row has the token of some claim, and only a row has answers.   *)
LedgerOK ==
  \A j \in Jobs : /\ callState[j] # "none" => ledgerToken[j] \in Tokens
                  /\ ~NeverAnswered(j) => callState[j] # "none"

(* Only a worker that waits has a request or a live claim under way, and   *)
(* then one at most.                                                       *)
HttpOK ==
  /\ request.kind = "claim" => pc = "claiming"
  /\ request.kind \in {"result", "fail"} =>
       pc \in {"sent", "drainSent"} /\ callState[request.job] # "none"
  /\ \A c \in claims : c.live => pc = "claiming" /\ request = NoRequest
  /\ \A c, d \in claims : c.live /\ d.live => c = d

TypeInv == TypeOK /\ HandOK /\ LedgerOK /\ HttpOK

USE DEF jobVars, reserveVars, resultVars, serverVars, netVars, procVars,
        ledgerVars, dbVars, vars

(* What a submitted result or failure carries.                             *)
LEMMA SubmitType ==
  ASSUME NetTypeOK, NEW r \in delayed \cup {request},
         r.kind \in {"result", "fail"}
  PROVE  /\ r.job \in Jobs /\ r.token \in Tokens
         /\ r.kind = "result" => r.body \in Bodies
         /\ r.kind = "fail" => r.body \in FailCodes
BY DEF NetTypeOK, Submits, ClaimRequest, NoRequest, Bodies, FailCodes

(* A request still awaited, or given up on, stays well-formed when another *)
(* is taken from the network.                                              *)
LEMMA TakeType ==
  ASSUME NetTypeOK, NEW r, NEW live \in BOOLEAN, Take(r, live)
  PROVE  r \in delayed \cup {request} /\ NetTypeOK'
BY DEF NetTypeOK, Take

LEMMA AbandonType ==
  ASSUME ServerTypeOK, NetTypeOK, Abandon
  PROVE  /\ claims' \subseteq [job : Jobs, token : Tokens, live : BOOLEAN]
         /\ \A c \in claims' : c.live = FALSE
         /\ NetTypeOK'
<1>1. ASSUME NEW c \in claims'
      PROVE  c \in [job : Jobs, token : Tokens, live : BOOLEAN] /\ c.live = FALSE
  <2>1. PICK d \in claims : c = [job |-> d.job, token |-> d.token, live |-> FALSE]
    BY DEF Abandon
  <2>2. d \in [job : Jobs, token : Tokens, live : BOOLEAN]
    BY DEF ServerTypeOK
  <2> QED BY <2>1, <2>2
<1>2. NetTypeOK'
  BY DEF NetTypeOK, Abandon
<1> QED BY <1>1, <1>2

LEMMA TypeInvInit == Init => TypeInv
<1> SUFFICES ASSUME Init PROVE TypeInv
  OBVIOUS
<1> USE DEF Init
<1>1. JobsTypeOK /\ LedgerTypeOK
  BY DEF JobsTypeOK, LedgerTypeOK, Statuses, Leases, CallStates
<1>2. ServerTypeOK
  BY DEF ServerTypeOK, Idle
<1>3. NetTypeOK /\ WorkerTypeOK
  BY DEF NetTypeOK, WorkerTypeOK
<1>4. HandOK /\ LedgerOK /\ HttpOK
  BY DEF HandOK, LedgerOK, HttpOK, InHand, NeverAnswered, NoRequest
<1> QED BY <1>1, <1>2, <1>3, <1>4 DEF TypeInv, TypeOK

LEMMA TypeInvEnvironment ==
  ASSUME TypeInv, Environment
  PROVE  TypeInv'
<1> USE DEF TypeInv, TypeOK, HandOK, LedgerOK, HttpOK, InHand, NeverAnswered,
            JobsTypeOK, ServerTypeOK, WorkerTypeOK, LedgerTypeOK
<1>1. ASSUME NEW j \in Jobs, EnqueueCheck(j) PROVE TypeInv'
  BY <1>1 DEF EnqueueCheck, NetTypeOK, Statuses
<1>2. ASSUME NEW j \in Jobs, EnqueueInsert(j) PROVE TypeInv'
  BY <1>2 DEF EnqueueInsert, NetTypeOK, Statuses, ACTIVE, Waiting
<1>3. ASSUME NEW j \in Jobs, LeaseExpires(j) PROVE TypeInv'
  BY <1>3 DEF LeaseExpires, NetTypeOK, Leases
<1>4. CASE NewCycle
  BY <1>4 DEF NewCycle, NetTypeOK
<1>5. CASE ServerRestart
  BY <1>5 DEF ServerRestart, NetTypeOK, Idle
<1>6. CASE WorkerSaveFails
  BY <1>6 DEF WorkerSaveFails, NetTypeOK, Forget
<1>7. CASE RequestFails
  <2>1. /\ Abandon /\ NetTypeOK' /\ request' = NoRequest
        /\ claims' \subseteq [job : Jobs, token : Tokens, live : BOOLEAN]
        /\ \A c \in claims' : c.live = FALSE
    BY <1>7, AbandonType DEF RequestFails, Abandon
  <2>2. pc' \in {"drain", "snapshot", "idle"} /\ (todo' = todo \/ todo' = {})
    BY <1>7 DEF RequestFails, AfterSubmit
  <2>3. UNCHANGED <<jobVars, reserveVars, resultVars, recovery, job, token,
                    expiredRecovery, outcome, ownedCalls, ledgerVars, calls>>
    BY <1>7 DEF RequestFails
  <2>4. TypeOK'
    BY <2>1, <2>2, <2>3
  <2>5. HandOK' /\ LedgerOK'
    BY <2>2, <2>3
  <2>6. HttpOK'
    BY <2>1 DEF NoRequest
  <2> QED BY <2>4, <2>5, <2>6
<1>8. CASE WorkerCrash
  BY <1>8, AbandonType DEF WorkerCrash, Abandon, Forget, NoRequest
<1> QED BY <1>1, <1>2, <1>3, <1>4, <1>5, <1>6, <1>7, <1>8 DEF Environment

LEMMA TypeInvClaim ==
  ASSUME TypeInv, ClaimNext \/ ClaimEnd
  PROVE  TypeInv'
<1> USE DEF TypeInv, TypeOK, HandOK, LedgerOK, InHand, NeverAnswered
<1>1. ASSUME NEW live \in BOOLEAN, ClaimNothing(live) PROVE TypeInv'
  <2> USE <1>1, TakeType DEF ClaimNothing, ReplyNoJob
  <2>1. JobsTypeOK' /\ ServerTypeOK' /\ LedgerTypeOK'
    BY DEF JobsTypeOK, ServerTypeOK, LedgerTypeOK
  <2>2. NetTypeOK' /\ WorkerTypeOK'
    BY DEF WorkerTypeOK
  <2>3. HandOK' /\ LedgerOK'
    BY DEF JobsTypeOK, LedgerTypeOK, WorkerTypeOK, ServerTypeOK
  <2>4. HttpOK'
    BY DEF HttpOK, ServerTypeOK, LedgerTypeOK, Take, ClaimRequest, NoRequest
  <2> QED BY <2>1, <2>2, <2>3, <2>4
<1>2. ASSUME NEW live \in BOOLEAN, NEW j \in Jobs, NEW t \in Tokens, 
             ClaimExpired(live, j, t)
      PROVE  TypeInv'
  <2> USE <1>2, TakeType DEF ClaimExpired, ReplyJob
  <2>1. JobsTypeOK' /\ ServerTypeOK' /\ LedgerTypeOK'
    BY DEF JobsTypeOK, ServerTypeOK, LedgerTypeOK, Statuses, ACTIVE,
                                                       Held, Leases
  <2>2. NetTypeOK' /\ WorkerTypeOK'
    BY DEF WorkerTypeOK
  <2>3. HandOK' /\ LedgerOK'
    BY DEF JobsTypeOK, LedgerTypeOK, WorkerTypeOK, ServerTypeOK
  <2>4. HttpOK'
    BY DEF HttpOK, ServerTypeOK, LedgerTypeOK, Take, ClaimRequest, NoRequest
  <2> QED BY <2>1, <2>2, <2>3, <2>4
<1>3. ASSUME NEW live \in BOOLEAN, NEW j \in Jobs, NEW t \in Tokens, 
             ClaimCandidate(live, j, t)
      PROVE  TypeInv'
  <2> USE <1>3, TakeType DEF ClaimCandidate
  <2>1. JobsTypeOK' /\ ServerTypeOK' /\ LedgerTypeOK'
    BY DEF JobsTypeOK, ServerTypeOK, LedgerTypeOK
  <2>2. NetTypeOK' /\ WorkerTypeOK'
    BY DEF WorkerTypeOK
  <2>3. HandOK' /\ LedgerOK'
    BY DEF JobsTypeOK, LedgerTypeOK, WorkerTypeOK, ServerTypeOK
  <2>4. HttpOK'
    BY DEF HttpOK, ServerTypeOK, LedgerTypeOK, Take, ClaimRequest, NoRequest
  <2> QED BY <2>1, <2>2, <2>3, <2>4
<1>4. ASSUME NEW c \in claims, ClaimReserved(c) PROVE TypeInv'
  <2> USE <1>4 DEF ClaimReserved, ReplyJob
  <2>1. JobsTypeOK' /\ ServerTypeOK' /\ LedgerTypeOK'
    BY DEF JobsTypeOK, ServerTypeOK, LedgerTypeOK, Reserve,
              Statuses, ACTIVE, Held, Leases
  <2>2. NetTypeOK' /\ WorkerTypeOK'
    BY DEF NetTypeOK, WorkerTypeOK, ServerTypeOK
  <2>3. HandOK' /\ LedgerOK'
    BY DEF JobsTypeOK, LedgerTypeOK, WorkerTypeOK, ServerTypeOK
  <2>4. HttpOK'
    BY DEF HttpOK, ServerTypeOK, LedgerTypeOK, NoRequest
  <2> QED BY <2>1, <2>2, <2>3, <2>4
<1>5. ASSUME NEW c \in claims, ClaimOverCap(c) PROVE TypeInv'
  <2> USE <1>5 DEF ClaimOverCap, ReplyNoJob
  <2>1. JobsTypeOK' /\ ServerTypeOK' /\ LedgerTypeOK'
    BY DEF JobsTypeOK, ServerTypeOK, LedgerTypeOK, Statuses,
              ACTIVE, Waiting, Leases
  <2>2. NetTypeOK' /\ WorkerTypeOK'
    BY DEF NetTypeOK, WorkerTypeOK, ServerTypeOK
  <2>3. HandOK' /\ LedgerOK'
    BY DEF JobsTypeOK, LedgerTypeOK, WorkerTypeOK, ServerTypeOK
  <2>4. HttpOK'
    BY DEF HttpOK, ServerTypeOK, LedgerTypeOK, NoRequest
  <2> QED BY <2>1, <2>2, <2>3, <2>4
<1> QED BY <1>1, <1>2, <1>3, <1>4, <1>5 DEF ClaimNext, ClaimEnd

LEMMA TypeInvHandle ==
  ASSUME TypeInv, NEW live \in BOOLEAN, NEW r, Handle(live, r)
  PROVE  TypeInv'
<1> USE TakeType, SubmitType DEF TypeInv, TypeOK, HandOK, LedgerOK, InHand, NeverAnswered
<1>1. CASE ResultReplayed(live, r)
  <2> USE <1>1 DEF ResultReplayed, AckResult, AfterSubmit
  <2>1. JobsTypeOK' /\ ServerTypeOK' /\ LedgerTypeOK'
    <3>1. JobsTypeOK'
      BY DEF JobsTypeOK
    <3>2. ServerTypeOK'
      BY DEF ServerTypeOK, InsertOutbox
    <3>3. LedgerTypeOK'
      BY DEF LedgerTypeOK, CallStates
    <3> QED BY <3>1, <3>2, <3>3
  <2>2. NetTypeOK' /\ WorkerTypeOK'
    BY DEF WorkerTypeOK
  <2>3. HandOK' /\ LedgerOK'
    BY DEF JobsTypeOK, LedgerTypeOK, WorkerTypeOK, ServerTypeOK, HttpOK, Take
  <2>4. HttpOK'
    BY DEF HttpOK, ServerTypeOK, LedgerTypeOK, Take, NoRequest
  <2> QED BY <2>1, <2>2, <2>3, <2>4
<1>2. CASE ResultCompletes(live, r)
  <2> USE <1>2 DEF ResultCompletes, AckResult, AfterSubmit
  <2>1. JobsTypeOK' /\ ServerTypeOK' /\ LedgerTypeOK'
    <3>1. r \in delayed \cup {request} /\ r.job \in Jobs /\ r.body \in Bodies
      OBVIOUS
    <3>2. JobsTypeOK'
      BY DEF JobsTypeOK, Statuses, Leases
    <3>3. outbox' \in [Jobs -> Bodies \cup {"none"}]
      BY <3>1 DEF ServerTypeOK, InsertOutbox
    <3>4. successes' \in Nat
      BY DEF ServerTypeOK
    <3>5. ServerTypeOK'
      BY <3>3, <3>4 DEF ServerTypeOK
    <3>6. LedgerTypeOK'
      BY <3>1 DEF LedgerTypeOK, CallStates
    <3> QED BY <3>2, <3>5, <3>6
  <2>2. NetTypeOK' /\ WorkerTypeOK'
    BY DEF WorkerTypeOK
  <2>3. HandOK' /\ LedgerOK'
    BY DEF JobsTypeOK, LedgerTypeOK, WorkerTypeOK, ServerTypeOK, HttpOK, Take
  <2>4. HttpOK'
    BY DEF HttpOK, ServerTypeOK, LedgerTypeOK, Take, NoRequest
  <2> QED BY <2>1, <2>2, <2>3, <2>4
<1>3. CASE ResultRefused(live, r)
  <2> USE <1>3 DEF ResultRefused, AckResult, AfterSubmit
  <2>1. JobsTypeOK' /\ ServerTypeOK' /\ LedgerTypeOK'
    BY DEF JobsTypeOK, ServerTypeOK, LedgerTypeOK, CallStates, Statuses, ACTIVE, Held
  <2>2. NetTypeOK' /\ WorkerTypeOK'
    BY DEF WorkerTypeOK
  <2>3. HandOK' /\ LedgerOK'
    BY DEF JobsTypeOK, LedgerTypeOK, WorkerTypeOK, ServerTypeOK, HttpOK, Take
  <2>4. HttpOK'
    BY DEF HttpOK, ServerTypeOK, LedgerTypeOK, Take, NoRequest
  <2> QED BY <2>1, <2>2, <2>3, <2>4
<1>4. CASE FailTerminal(live, r)
  <2> USE <1>4 DEF FailTerminal, AckFail, AfterSubmit
  <2>1. JobsTypeOK' /\ ServerTypeOK' /\ LedgerTypeOK'
    <3>1. JobsTypeOK'
      BY DEF JobsTypeOK, Statuses, Leases
    <3>2. ServerTypeOK'
      BY DEF ServerTypeOK
    <3>3. LedgerTypeOK'
      BY DEF LedgerTypeOK, CallStates
    <3> QED BY <3>1, <3>2, <3>3
  <2>2. NetTypeOK' /\ WorkerTypeOK'
    BY DEF WorkerTypeOK
  <2>3. HandOK' /\ LedgerOK'
    BY DEF JobsTypeOK, LedgerTypeOK, WorkerTypeOK, ServerTypeOK, HttpOK, Take
  <2>4. HttpOK'
    BY DEF HttpOK, ServerTypeOK, LedgerTypeOK, Take, NoRequest
  <2> QED BY <2>1, <2>2, <2>3, <2>4
<1>5. CASE FailIgnored(live, r)
  <2> USE <1>5 DEF FailIgnored, AckFail, AfterSubmit
  <2>1. JobsTypeOK' /\ ServerTypeOK' /\ LedgerTypeOK'
    BY DEF JobsTypeOK, ServerTypeOK, LedgerTypeOK, CallStates
  <2>2. NetTypeOK' /\ WorkerTypeOK'
    BY DEF WorkerTypeOK
  <2>3. HandOK' /\ LedgerOK'
    BY DEF JobsTypeOK, LedgerTypeOK, WorkerTypeOK, ServerTypeOK, HttpOK, Take
  <2>4. HttpOK'
    BY DEF HttpOK, ServerTypeOK, LedgerTypeOK, Take, NoRequest
  <2> QED BY <2>1, <2>2, <2>3, <2>4
<1> QED BY <1>1, <1>2, <1>3, <1>4, <1>5 DEF Handle

LEMMA TypeInvRecover ==
  ASSUME TypeInv, Recover
  PROVE  TypeInv'
<1> USE DEF TypeInv, TypeOK, HandOK, LedgerOK, InHand, NeverAnswered
<1>1. ASSUME NEW j \in Jobs, RecoverSelect(j) PROVE TypeInv'
  <2> USE <1>1 DEF RecoverSelect
  <2>1. JobsTypeOK' /\ ServerTypeOK' /\ LedgerTypeOK'
    BY DEF JobsTypeOK, ServerTypeOK, LedgerTypeOK
  <2>2. NetTypeOK' /\ WorkerTypeOK'
    BY DEF NetTypeOK, WorkerTypeOK, ServerTypeOK
  <2>3. HandOK' /\ LedgerOK'
    BY DEF JobsTypeOK, LedgerTypeOK, WorkerTypeOK, ServerTypeOK
  <2>4. HttpOK'
    BY DEF HttpOK, ServerTypeOK, LedgerTypeOK
  <2> QED BY <2>1, <2>2, <2>3, <2>4
<1>2. CASE RecoverRead
  <2> USE <1>2 DEF RecoverRead
  <2>1. JobsTypeOK' /\ ServerTypeOK' /\ LedgerTypeOK'
    BY DEF JobsTypeOK, ServerTypeOK, LedgerTypeOK, Idle
  <2>2. NetTypeOK' /\ WorkerTypeOK'
    BY DEF NetTypeOK, WorkerTypeOK, ServerTypeOK
  <2>3. HandOK' /\ LedgerOK'
    BY DEF JobsTypeOK, LedgerTypeOK, WorkerTypeOK, ServerTypeOK
  <2>4. HttpOK'
    BY DEF HttpOK, ServerTypeOK, LedgerTypeOK
  <2> QED BY <2>1, <2>2, <2>3, <2>4
<1>3. CASE RecoverWrite
  <2> USE <1>3, AttemptsAssumption DEF RecoverWrite
  <2>1. JobsTypeOK' /\ ServerTypeOK' /\ LedgerTypeOK'
    BY DEF JobsTypeOK, ServerTypeOK, LedgerTypeOK, Idle,
              Statuses, ACTIVE, Waiting, Leases
  <2>2. NetTypeOK' /\ WorkerTypeOK'
    BY DEF NetTypeOK, WorkerTypeOK, ServerTypeOK
  <2>3. HandOK' /\ LedgerOK'
    BY DEF JobsTypeOK, LedgerTypeOK, WorkerTypeOK, ServerTypeOK
  <2>4. HttpOK'
    BY DEF HttpOK, ServerTypeOK, LedgerTypeOK
  <2> QED BY <2>1, <2>2, <2>3, <2>4
<1> QED BY <1>1, <1>2, <1>3 DEF Recover

LEMMA TypeInvWorker ==
  ASSUME TypeInv, WorkerLoop \/ WorkerEnsureRow \/ Decide
  PROVE  TypeInv'
<1> USE DEF TypeInv, TypeOK, HandOK, LedgerOK, InHand, NeverAnswered
<1>1. CASE WorkerLoop
  <2> USE <1>1 DEF WorkerLoop
  <2>1. LedgerTypeOK' /\ WorkerTypeOK'
    BY DEF LedgerTypeOK, WorkerTypeOK
  <2>2. JobsTypeOK' /\ ServerTypeOK' /\ NetTypeOK'
    BY DEF JobsTypeOK, ServerTypeOK, NetTypeOK, ClaimRequest
  <2>3. HandOK' /\ LedgerOK'
    BY DEF LedgerTypeOK, WorkerTypeOK
  <2>4. HttpOK'
    BY DEF HttpOK, LedgerTypeOK, ServerTypeOK, NetTypeOK, ClaimRequest, NoRequest
  <2> QED BY <2>1, <2>2, <2>3, <2>4
<1>2. CASE WorkerEnsureRow
  <2> USE <1>2 DEF WorkerEnsureRow
  <2>1. LedgerTypeOK' /\ WorkerTypeOK'
    BY DEF LedgerTypeOK, WorkerTypeOK, CallStates
  <2>2. JobsTypeOK' /\ ServerTypeOK' /\ NetTypeOK'
    BY DEF JobsTypeOK, ServerTypeOK, NetTypeOK
  <2>3. HandOK' /\ LedgerOK'
    BY DEF LedgerTypeOK, WorkerTypeOK
  <2>4. HttpOK'
    BY DEF HttpOK, LedgerTypeOK, ServerTypeOK, NetTypeOK
  <2> QED BY <2>1, <2>2, <2>3, <2>4
<1>3. CASE DecideNoop
  <2> USE <1>3 DEF DecideNoop, Forget
  <2>1. LedgerTypeOK' /\ WorkerTypeOK'
    BY DEF LedgerTypeOK, WorkerTypeOK
  <2>2. JobsTypeOK' /\ ServerTypeOK' /\ NetTypeOK'
    BY DEF JobsTypeOK, ServerTypeOK, NetTypeOK
  <2>3. HandOK' /\ LedgerOK'
    BY DEF LedgerTypeOK, WorkerTypeOK
  <2>4. HttpOK'
    BY DEF HttpOK, LedgerTypeOK, ServerTypeOK, NetTypeOK
  <2> QED BY <2>1, <2>2, <2>3, <2>4
<1>4. CASE DecideResult
  <2> USE <1>4 DEF DecideResult, ReplayResult, SendResult, Forget
  <2>1. LedgerTypeOK' /\ WorkerTypeOK'
    BY DEF LedgerTypeOK, WorkerTypeOK
  <2>2. JobsTypeOK' /\ ServerTypeOK' /\ NetTypeOK'
    BY DEF JobsTypeOK, ServerTypeOK, NetTypeOK, LedgerTypeOK, Submits
  <2>3. HandOK' /\ LedgerOK'
    BY DEF LedgerTypeOK, WorkerTypeOK
  <2>4. HttpOK'
    BY DEF HttpOK, LedgerTypeOK, ServerTypeOK, NetTypeOK, ClaimRequest, NoRequest
  <2> QED BY <2>1, <2>2, <2>3, <2>4
<1>5. CASE DecideFail
  <2> USE <1>5 DEF DecideFail, ReplayFail, SendFail, Forget
  <2>1. LedgerTypeOK' /\ WorkerTypeOK'
    BY DEF LedgerTypeOK, WorkerTypeOK
  <2>2. JobsTypeOK' /\ ServerTypeOK' /\ NetTypeOK'
    BY DEF JobsTypeOK, ServerTypeOK, NetTypeOK, LedgerTypeOK, Submits
  <2>3. HandOK' /\ LedgerOK'
    BY DEF LedgerTypeOK, WorkerTypeOK
  <2>4. HttpOK'
    BY DEF HttpOK, LedgerTypeOK, ServerTypeOK, NetTypeOK, ClaimRequest, NoRequest
  <2> QED BY <2>1, <2>2, <2>3, <2>4
<1>6. CASE DecideUnknown
  <2> USE <1>6 DEF DecideUnknown, MarkCallUnknown, SendFail, Forget
  <2>1. LedgerTypeOK' /\ WorkerTypeOK'
    BY DEF LedgerTypeOK, WorkerTypeOK, CallStates, FailCodes
  <2>2. JobsTypeOK' /\ ServerTypeOK' /\ NetTypeOK'
    BY DEF JobsTypeOK, ServerTypeOK, NetTypeOK, LedgerTypeOK, Submits, FailCodes
  <2>3. HandOK' /\ LedgerOK'
    BY DEF LedgerTypeOK, WorkerTypeOK
  <2>4. HttpOK'
    BY DEF HttpOK, LedgerTypeOK, ServerTypeOK, NetTypeOK, ClaimRequest, NoRequest
  <2> QED BY <2>1, <2>2, <2>3, <2>4
<1>7. CASE DecideStartCall
  <2> USE <1>7 DEF DecideStartCall
  <2>1. LedgerTypeOK' /\ WorkerTypeOK'
    BY DEF LedgerTypeOK, WorkerTypeOK, CallStates
  <2>2. JobsTypeOK' /\ ServerTypeOK' /\ NetTypeOK'
    BY DEF JobsTypeOK, ServerTypeOK, NetTypeOK
  <2>3. HandOK' /\ LedgerOK'
    BY DEF LedgerTypeOK, WorkerTypeOK
  <2>4. HttpOK'
    BY DEF HttpOK, LedgerTypeOK, ServerTypeOK, NetTypeOK
  <2> QED BY <2>1, <2>2, <2>3, <2>4
<1>8. CASE DecideOwnedCall
  <2> USE <1>8 DEF DecideOwnedCall
  <2>1. LedgerTypeOK' /\ WorkerTypeOK'
    BY DEF LedgerTypeOK, WorkerTypeOK
  <2>2. JobsTypeOK' /\ ServerTypeOK' /\ NetTypeOK'
    BY DEF JobsTypeOK, ServerTypeOK, NetTypeOK
  <2>3. HandOK' /\ LedgerOK'
    BY DEF LedgerTypeOK, WorkerTypeOK
  <2>4. HttpOK'
    BY DEF HttpOK, LedgerTypeOK, ServerTypeOK, NetTypeOK
  <2> QED BY <2>1, <2>2, <2>3, <2>4
<1> QED BY <1>1, <1>2, <1>3, <1>4, <1>5, <1>6, <1>7, <1>8 DEF Decide

LEMMA TypeInvCall ==
  ASSUME TypeInv, CallStep
  PROVE  TypeInv'
<1> USE DEF TypeInv, TypeOK, HandOK, LedgerOK, InHand, NeverAnswered
<1>1. ASSUME NEW o \in Bodies \cup {"ERROR"}, ProviderCall(o) PROVE TypeInv'
  <2> USE <1>1 DEF ProviderCall
  <2>1. LedgerTypeOK' /\ WorkerTypeOK'
    BY DEF LedgerTypeOK, WorkerTypeOK
  <2>2. JobsTypeOK' /\ ServerTypeOK' /\ NetTypeOK'
    BY DEF JobsTypeOK, ServerTypeOK, NetTypeOK
  <2>3. HandOK' /\ LedgerOK'
    BY DEF LedgerTypeOK, WorkerTypeOK
  <2>4. HttpOK'
    BY DEF HttpOK, LedgerTypeOK, ServerTypeOK, NetTypeOK
  <2> QED BY <2>1, <2>2, <2>3, <2>4
<1>2. CASE WorkerSaveResult
  <2> USE <1>2 DEF WorkerSaveResult, SaveProviderResponse, SendResult, Forget
  <2>1. LedgerTypeOK' /\ WorkerTypeOK'
    BY DEF LedgerTypeOK, WorkerTypeOK, CallStates, Bodies
  <2>2. JobsTypeOK' /\ ServerTypeOK' /\ NetTypeOK'
    BY DEF JobsTypeOK, ServerTypeOK, NetTypeOK, LedgerTypeOK, Submits, Bodies
  <2>3. HandOK' /\ LedgerOK'
    BY DEF LedgerTypeOK, WorkerTypeOK
  <2>4. HttpOK'
    BY DEF HttpOK, LedgerTypeOK, ServerTypeOK, NetTypeOK, ClaimRequest, NoRequest
  <2> QED BY <2>1, <2>2, <2>3, <2>4
<1>3. CASE WorkerNoteReject
  <2> USE <1>3 DEF WorkerNoteReject
  <2>1. LedgerTypeOK' /\ WorkerTypeOK'
    BY DEF LedgerTypeOK, WorkerTypeOK, FailCodes
  <2>2. JobsTypeOK' /\ ServerTypeOK' /\ NetTypeOK'
    BY DEF JobsTypeOK, ServerTypeOK, NetTypeOK
  <2>3. HandOK' /\ LedgerOK'
    BY DEF LedgerTypeOK, WorkerTypeOK
  <2>4. HttpOK'
    BY DEF HttpOK, LedgerTypeOK, ServerTypeOK, NetTypeOK
  <2> QED BY <2>1, <2>2, <2>3, <2>4
<1>4. CASE WorkerSaveReject
  <2> USE <1>4 DEF WorkerSaveReject, SaveProviderResponse, SendFail, Forget
  <2>1. LedgerTypeOK' /\ WorkerTypeOK'
    BY DEF LedgerTypeOK, WorkerTypeOK, CallStates, Bodies
  <2>2. JobsTypeOK' /\ ServerTypeOK' /\ NetTypeOK'
    BY DEF JobsTypeOK, ServerTypeOK, NetTypeOK, LedgerTypeOK, Submits, FailCodes
  <2>3. HandOK' /\ LedgerOK'
    BY DEF LedgerTypeOK, WorkerTypeOK
  <2>4. HttpOK'
    BY DEF HttpOK, LedgerTypeOK, ServerTypeOK, NetTypeOK, ClaimRequest, NoRequest
  <2> QED BY <2>1, <2>2, <2>3, <2>4
<1>5. CASE WorkerCallFailed
  <2> USE <1>5 DEF WorkerCallFailed, MarkCallUnknown, SendFail, Forget
  <2>1. LedgerTypeOK' /\ WorkerTypeOK'
    BY DEF LedgerTypeOK, WorkerTypeOK, CallStates, FailCodes
  <2>2. JobsTypeOK' /\ ServerTypeOK' /\ NetTypeOK'
    BY DEF JobsTypeOK, ServerTypeOK, NetTypeOK, LedgerTypeOK, Submits, FailCodes
  <2>3. HandOK' /\ LedgerOK'
    BY DEF LedgerTypeOK, WorkerTypeOK
  <2>4. HttpOK'
    BY DEF HttpOK, LedgerTypeOK, ServerTypeOK, NetTypeOK, ClaimRequest, NoRequest
  <2> QED BY <2>1, <2>2, <2>3, <2>4
<1> QED BY <1>1, <1>2, <1>3, <1>4, <1>5 DEF CallStep

LEMMA TypeInvDrain ==
  ASSUME TypeInv, Drain
  PROVE  TypeInv'
<1> USE DEF TypeInv, TypeOK, HandOK, LedgerOK, InHand, NeverAnswered
<1>1. CASE WorkerSnapshot
  <2> USE <1>1 DEF WorkerSnapshot, Forget
  <2>1. LedgerTypeOK' /\ WorkerTypeOK'
    BY DEF LedgerTypeOK, WorkerTypeOK, PendingOutbox
  <2>2. JobsTypeOK' /\ ServerTypeOK' /\ NetTypeOK'
    BY DEF JobsTypeOK, ServerTypeOK, NetTypeOK
  <2>3. HandOK' /\ LedgerOK'
    BY DEF LedgerTypeOK, WorkerTypeOK
  <2>4. HttpOK'
    BY DEF HttpOK, LedgerTypeOK, ServerTypeOK, NetTypeOK
  <2> QED BY <2>1, <2>2, <2>3, <2>4
<1>2. CASE DrainDone
  <2> USE <1>2 DEF DrainDone
  <2>1. LedgerTypeOK' /\ WorkerTypeOK'
    BY DEF LedgerTypeOK, WorkerTypeOK
  <2>2. JobsTypeOK' /\ ServerTypeOK' /\ NetTypeOK'
    BY DEF JobsTypeOK, ServerTypeOK, NetTypeOK
  <2>3. HandOK' /\ LedgerOK'
    BY DEF LedgerTypeOK, WorkerTypeOK
  <2>4. HttpOK'
    BY DEF HttpOK, LedgerTypeOK, ServerTypeOK, NetTypeOK
  <2> QED BY <2>1, <2>2, <2>3, <2>4
<1>3. ASSUME NEW j \in Jobs, DrainResult(j) PROVE TypeInv'
  <2> USE <1>3 DEF DrainResult, SendResult
  <2>1. LedgerTypeOK' /\ WorkerTypeOK'
    BY DEF LedgerTypeOK, WorkerTypeOK
  <2>2. JobsTypeOK' /\ ServerTypeOK' /\ NetTypeOK'
    BY DEF JobsTypeOK, ServerTypeOK, NetTypeOK, LedgerTypeOK, Submits
  <2>3. HandOK' /\ LedgerOK'
    BY DEF LedgerTypeOK, WorkerTypeOK
  <2>4. HttpOK'
    BY DEF HttpOK, LedgerTypeOK, ServerTypeOK, NetTypeOK, ClaimRequest, NoRequest
  <2> QED BY <2>1, <2>2, <2>3, <2>4
<1>4. ASSUME NEW j \in Jobs, DrainFail(j) PROVE TypeInv'
  <2> USE <1>4 DEF DrainFail, SendFail
  <2>1. LedgerTypeOK' /\ WorkerTypeOK'
    BY DEF LedgerTypeOK, WorkerTypeOK
  <2>2. JobsTypeOK' /\ ServerTypeOK' /\ NetTypeOK'
    BY DEF JobsTypeOK, ServerTypeOK, NetTypeOK, LedgerTypeOK, Submits
  <2>3. HandOK' /\ LedgerOK'
    BY DEF LedgerTypeOK, WorkerTypeOK
  <2>4. HttpOK'
    BY DEF HttpOK, LedgerTypeOK, ServerTypeOK, NetTypeOK, ClaimRequest, NoRequest
  <2> QED BY <2>1, <2>2, <2>3, <2>4
<1> QED BY <1>1, <1>2, <1>3, <1>4 DEF Drain

LEMMA TypeInvHolds == Spec => []TypeInv
<1>1. ASSUME TypeInv, Next PROVE TypeInv'
  <2>1. CASE ClaimNext \/ ClaimEnd
    BY <1>1, <2>1, TypeInvClaim
  <2>2. CASE HandleSubmit
    BY <1>1, <2>2, TypeInvHandle DEF HandleSubmit
  <2>3. CASE Recover
    BY <1>1, <2>3, TypeInvRecover
  <2>4. CASE WorkerStep
    BY <1>1, <2>4, TypeInvWorker, TypeInvCall, TypeInvDrain DEF WorkerStep
  <2>5. CASE Environment
    BY <1>1, <2>5, TypeInvEnvironment
  <2> QED BY <1>1, <2>1, <2>2, <2>3, <2>4, <2>5 DEF Next
<1>2. ASSUME TypeInv, UNCHANGED vars PROVE TypeInv'
  BY <1>2 DEF TypeInv, TypeOK, JobsTypeOK, ServerTypeOK, NetTypeOK,
    WorkerTypeOK, LedgerTypeOK, HandOK, LedgerOK, HttpOK, NeverAnswered
<1> QED BY <1>1, <1>2, TypeInvInit, PTL DEF Spec

(* Every state of the system is well-typed: the columns hold their codes,  *)
(* only reserved jobs are counted in the cycle, and a request under way is *)
(* one the handlers expect (TypeOK).                                       *)
THEOREM TypeCorrect == Spec => []TypeOK
<1>1. TypeInv => TypeOK
  BY DEF TypeInv
<1> QED BY <1>1, TypeInvHolds, PTL

-----------------------------------------------------------------------------
(* Reservations.  A job keeps its reservation, so one that is held or      *)
(* completed, or in the worker's hand, has one.                            *)

ReserveInv ==
  /\ \A j \in Jobs : status[j] \in Held \cup {"COMPLETED"} => j \in reserved
  /\ pc \in InHand => job \in reserved
  /\ PaidOnlyIfReserved
  /\ CapRespected

LEMMA ReserveKeepsCap ==
  ASSUME TypeOK, CapRespected, NEW j \in Jobs, SlotFree(j), Reserve(j)
  PROVE  CapRespected'
<1>1. IsFiniteSet(cycleReserved)
  BY JobsAssumption, FS_Subset DEF TypeOK, ServerTypeOK
<1>2. CASE j \in reserved
  BY <1>2 DEF Reserve, CapRespected
<1>3. CASE j \notin reserved
  <2>1. Cardinality(cycleReserved) < Cap
    BY <1>3 DEF SlotFree, UnderCap
  <2>2. j \notin cycleReserved
    BY <1>3 DEF TypeOK, ServerTypeOK
  <2>3. Cardinality(cycleReserved \cup {j}) = Cardinality(cycleReserved) + 1
    BY <1>1, <2>2, FS_AddElement
  <2>4. cycleReserved' = cycleReserved \cup {j}
    BY <1>3 DEF Reserve
  <2> QED BY <1>1, <2>1, <2>3, <2>4, CapAssumption, FS_CardinalityType
        DEF CapRespected
<1> QED BY <1>2, <1>3

LEMMA ReserveInvServer ==
  ASSUME TypeInv, ReserveInv, ClaimNext \/ ClaimEnd \/ HandleSubmit \/ Recover
  PROVE  ReserveInv'
<1> USE DEF ReserveInv, PaidOnlyIfReserved, TypeInv, TypeOK, JobsTypeOK,
            WorkerTypeOK, InHand, Held
<1>1. ASSUME NEW live \in BOOLEAN, ClaimNothing(live) PROVE ReserveInv'
  BY <1>1 DEF ClaimNothing, ReplyNoJob, CapRespected
<1>2. ASSUME NEW live \in BOOLEAN, NEW j \in Jobs, NEW t \in Tokens,
             ClaimExpired(live, j, t) \/ ClaimCandidate(live, j, t)
      PROVE  ReserveInv'
  BY <1>2 DEF ClaimExpired, ExpiredOwned, ReplyJob, ClaimCandidate, CapRespected
<1>3. ASSUME NEW c \in claims, ClaimReserved(c) PROVE ReserveInv'
  <2>1. c.job \in Jobs
    BY DEF ServerTypeOK
  <2>2. CapRespected'
    BY <1>3, <2>1, ReserveKeepsCap DEF ClaimReserved
  <2> QED BY <1>3, <2>1, <2>2 DEF ClaimReserved, Reserve, ReplyJob
<1>4. ASSUME NEW c \in claims, ClaimOverCap(c) PROVE ReserveInv'
  BY <1>4 DEF ClaimOverCap, ReplyNoJob, CapRespected
<1>5. ASSUME NEW live \in BOOLEAN, NEW r, Handle(live, r) PROVE ReserveInv'
  BY <1>5 DEF Handle, ResultReplayed, ResultCompletes, ResultRefused,
    FailTerminal, FailIgnored, HasLease, AckResult, AckFail, AfterSubmit,
    CapRespected
<1>6. CASE Recover
  BY <1>6 DEF Recover, RecoverSelect, RecoverRead, RecoverWrite, CapRespected
<1> QED BY <1>1, <1>2, <1>3, <1>4, <1>5, <1>6
      DEF ClaimNext, ClaimEnd, HandleSubmit

LEMMA ReserveInvWorker ==
  ASSUME TypeInv, ReserveInv, WorkerStep \/ Environment
  PROVE  ReserveInv'
<1> USE DEF ReserveInv, PaidOnlyIfReserved, TypeInv, TypeOK, JobsTypeOK,
            WorkerTypeOK, LedgerTypeOK, InHand, Held
<1>1. CASE WorkerLoop \/ WorkerEnsureRow \/ Drain
  BY <1>1 DEF WorkerLoop, WorkerEnsureRow, Drain, WorkerSnapshot, DrainDone,
    DrainResult, DrainFail, CapRespected
<1>2. CASE Decide
  BY <1>2 DEF Decide, DecideNoop, DecideResult, DecideFail, DecideUnknown,
    DecideStartCall, DecideOwnedCall, CapRespected
<1>3. CASE CallStep
  BY <1>3 DEF CallStep, ProviderCall, WorkerSaveResult, WorkerNoteReject,
    WorkerSaveReject, WorkerCallFailed, CapRespected
<1>4. CASE NewCycle
  BY <1>4, FS_EmptySet, CapAssumption DEF NewCycle, CapRespected
<1>5. ASSUME NEW j \in Jobs,
             EnqueueCheck(j) \/ EnqueueInsert(j) \/ LeaseExpires(j)
      PROVE  ReserveInv'
  BY <1>5 DEF EnqueueCheck, EnqueueInsert, LeaseExpires, CapRespected
<1>6. CASE ServerRestart \/ RequestFails \/ WorkerCrash \/ WorkerSaveFails
  BY <1>6 DEF ServerRestart, RequestFails, WorkerCrash, WorkerSaveFails,
    AfterSubmit, CapRespected
<1> QED BY <1>1, <1>2, <1>3, <1>4, <1>5, <1>6 DEF WorkerStep, Environment

LEMMA ReserveInvHolds == Spec => []ReserveInv
<1>1. Init => ReserveInv
  BY FS_EmptySet, CapAssumption
  DEF Init, ReserveInv, PaidOnlyIfReserved, CapRespected, InHand, Held
<1>2. TypeInv /\ ReserveInv /\ [Next]_vars => ReserveInv'
  <2>1. ASSUME UNCHANGED vars, ReserveInv PROVE ReserveInv'
    BY <2>1 DEF ReserveInv, PaidOnlyIfReserved, CapRespected
  <2> QED BY <2>1, ReserveInvServer, ReserveInvWorker DEF Next
<1> QED BY <1>1, <1>2, TypeInvHolds, PTL DEF Spec

(* However many claims run at once, no cycle reserves more calls than the  *)
(* plan allows: the recount of reserveOxylabsProviderCall under the canary *)
(* row's lock decides (CapRespected).                                      *)
THEOREM CapIsRespected == Spec => []CapRespected
<1>1. ReserveInv => CapRespected
  BY DEF ReserveInv
<1> QED BY <1>1, ReserveInvHolds, PTL

(* The worker never pays for a job the server did not reserve a call for,  *)
(* even when its ledger fails (PaidOnlyIfReserved).                        *)
THEOREM PaidIsReserved == Spec => []PaidOnlyIfReserved
<1>1. ReserveInv => PaidOnlyIfReserved
  BY DEF ReserveInv
<1> QED BY <1>1, ReserveInvHolds, PTL

-----------------------------------------------------------------------------
(* Results.  A saved response, and a result on its way, was paid for.      *)

ResultInv ==
  /\ \A j \in Jobs : response[j] # "none" => calls[j] > 0
  /\ pc \in {"called", "rejecting"} => calls[job] > 0
  /\ \A r \in delayed \cup {request} : r.kind = "result" => calls[r.job] > 0
  /\ CompletedHasPaidResult

LEMMA ResultInvServer ==
  ASSUME TypeInv, ResultInv, ClaimNext \/ ClaimEnd \/ HandleSubmit \/ Recover
  PROVE  ResultInv'
<1> USE DEF ResultInv, CompletedHasPaidResult, TypeInv, TypeOK, JobsTypeOK,
            InHand, HttpOK
<1>1. ASSUME NEW live \in BOOLEAN, ClaimNothing(live) PROVE ResultInv'
  BY <1>1 DEF ClaimNothing, ReplyNoJob, Take, NoRequest
<1>2. ASSUME NEW live \in BOOLEAN, NEW j \in Jobs, NEW t \in Tokens,
             ClaimExpired(live, j, t) \/ ClaimCandidate(live, j, t)
      PROVE  ResultInv'
  BY <1>2 DEF ClaimExpired, ReplyJob, ClaimCandidate, Take, NoRequest
<1>3. ASSUME NEW c \in claims, ClaimReserved(c) \/ ClaimOverCap(c)
      PROVE  ResultInv'
  BY <1>3 DEF ClaimReserved, ReplyJob, ClaimOverCap, ReplyNoJob
<1>4. ASSUME NEW live \in BOOLEAN, NEW r, Handle(live, r) PROVE ResultInv'
  <2> USE <1>4, TakeType, SubmitType
      DEF ServerTypeOK, AckResult, AckFail, AfterSubmit, Take, NoRequest
  <2>1. CASE ResultReplayed(live, r)
    <3>1. r \in delayed \cup {request} /\ r.job \in Jobs /\ r.body \in Bodies
      BY <2>1 DEF ResultReplayed
    <3>2. outbox' = [outbox EXCEPT ![r.job] = IF @ = "none" THEN r.body ELSE @]
      BY <2>1 DEF ResultReplayed, InsertOutbox
    <3> QED BY <2>1, <3>1, <3>2 DEF ResultReplayed, Bodies
  <2>2. CASE ResultCompletes(live, r)
    <3>1. r \in delayed \cup {request} /\ r.job \in Jobs /\ r.body \in Bodies
      BY <2>2 DEF ResultCompletes
    <3>2. outbox' = [outbox EXCEPT ![r.job] = IF @ = "none" THEN r.body ELSE @]
      BY <2>2 DEF ResultCompletes, InsertOutbox
    <3>3. CompletedHasPaidResult'
      BY <2>2, <3>1, <3>2 DEF ResultCompletes, Bodies
    <3> QED BY <2>2, <3>3 DEF ResultCompletes
  <2>3. CASE ResultRefused(live, r)
    BY <2>3 DEF ResultRefused
  <2>4. CASE FailTerminal(live, r) \/ FailIgnored(live, r)
    BY <2>4 DEF FailTerminal, FailIgnored
  <2> QED BY <2>1, <2>2, <2>3, <2>4 DEF Handle
<1>5. CASE Recover
  BY <1>5 DEF Recover, RecoverSelect, RecoverRead, RecoverWrite
<1> QED BY <1>1, <1>2, <1>3, <1>4, <1>5 DEF ClaimNext, ClaimEnd, HandleSubmit

LEMMA ResultInvWorker ==
  ASSUME TypeInv, ResultInv, WorkerStep \/ Environment
  PROVE  ResultInv'
<1> USE DEF ResultInv, CompletedHasPaidResult, TypeInv, TypeOK, JobsTypeOK,
            LedgerTypeOK, WorkerTypeOK, HandOK, InHand
<1>1. CASE WorkerLoop \/ WorkerEnsureRow
  BY <1>1 DEF WorkerLoop, WorkerEnsureRow, ClaimRequest
<1>2. CASE Decide
  BY <1>2 DEF Decide, DecideNoop, DecideResult, DecideFail, DecideUnknown,
    DecideStartCall, DecideOwnedCall, MarkCallUnknown, ReplayResult,
    SendResult, SendFail
<1>3. ASSUME NEW o \in Bodies \cup {"ERROR"}, ProviderCall(o) PROVE ResultInv'
  <2>1. \A j \in Jobs : calls'[j] \in Nat /\ calls'[j] >= calls[j]
    BY <1>3 DEF ProviderCall
  <2>2. job \in Jobs /\ calls'[job] > 0
    BY <1>3 DEF ProviderCall
  <2>3. \A r \in delayed \cup {request} : r.kind = "result" => r.job \in Jobs
    BY SubmitType
  <2> QED BY <1>3, <2>1, <2>2, <2>3 DEF ProviderCall
<1>4. CASE WorkerSaveResult \/ WorkerNoteReject \/ WorkerSaveReject
             \/ WorkerCallFailed
  BY <1>4 DEF WorkerSaveResult, WorkerNoteReject, WorkerSaveReject,
    WorkerCallFailed, SaveProviderResponse, MarkCallUnknown, SendResult, SendFail
<1>5. CASE Drain
  BY <1>5 DEF Drain, WorkerSnapshot, DrainDone, DrainResult, DrainFail,
    SendResult, SendFail
<1>6. CASE NewCycle \/ ServerRestart \/ WorkerSaveFails
  BY <1>6 DEF NewCycle, ServerRestart, WorkerSaveFails
<1>7. ASSUME NEW j \in Jobs,
             EnqueueCheck(j) \/ EnqueueInsert(j) \/ LeaseExpires(j)
      PROVE  ResultInv'
  BY <1>7 DEF EnqueueCheck, EnqueueInsert, LeaseExpires
<1>8. CASE RequestFails \/ WorkerCrash
  BY <1>8 DEF RequestFails, WorkerCrash, Abandon, NoRequest, AfterSubmit
<1> QED BY <1>1, <1>2, <1>3, <1>4, <1>5, <1>6, <1>7, <1>8
      DEF WorkerStep, CallStep, Environment

LEMMA ResultInvHolds == Spec => []ResultInv
<1>1. Init => ResultInv
  BY DEF Init, ResultInv, CompletedHasPaidResult, NoRequest
<1>2. TypeInv /\ ResultInv /\ [Next]_vars => ResultInv'
  <2>1. ASSUME UNCHANGED vars, ResultInv PROVE ResultInv'
    BY <2>1 DEF ResultInv, CompletedHasPaidResult
  <2> QED BY <2>1, ResultInvServer, ResultInvWorker DEF Next
<1> QED BY <1>1, <1>2, TypeInvHolds, PTL DEF Spec

(* A COMPLETED job always has its payload in the apply outbox, and the     *)
(* provider was paid for it (CompletedHasPaidResult).                      *)
THEOREM CompletedIsPaid == Spec => []CompletedHasPaidResult
<1>1. ResultInv => CompletedHasPaidResult
  BY DEF ResultInv
<1> QED BY <1>1, ResultInvHolds, PTL

-----------------------------------------------------------------------------
(* Calls.  Unless a ledger write after a call throws, a row that says the  *)
(* call was started but not answered, of a call this process owns, is that *)
(* of the job in hand: no later claim finds it so.                         *)

AtCall == {"calling", "called", "rejecting"}

CallInv ==
  /\ AtMostOneCall
  /\ \A j \in Jobs : callState[j] \in {"none", "NEW"} => calls[j] = 0
  /\ pc = "calling" => /\ calls[job] = 0
                       /\ callState[job] = "CALL_STARTED" /\ NeverAnswered(job)
  /\ \A j \in ownedCalls : callState[j] = "CALL_STARTED" /\ NeverAnswered(j) =>
       pc \in AtCall /\ job = j

LEMMA CallInvServer ==
  ASSUME TypeInv, CallInv, ClaimNext \/ ClaimEnd \/ HandleSubmit \/ Recover
  PROVE  CallInv'
<1> USE DEF CallInv, AtMostOneCall, AtCall, NeverAnswered, TypeInv, TypeOK,
            WorkerTypeOK, HttpOK
<1>1. ASSUME NEW live \in BOOLEAN, ClaimNothing(live) PROVE CallInv'
  BY <1>1 DEF ClaimNothing, ReplyNoJob, Take, ClaimRequest
<1>2. ASSUME NEW live \in BOOLEAN, NEW j \in Jobs, NEW t \in Tokens,
             ClaimExpired(live, j, t) \/ ClaimCandidate(live, j, t)
      PROVE  CallInv'
  BY <1>2 DEF ClaimExpired, ReplyJob, ClaimCandidate, Take, ClaimRequest
<1>3. ASSUME NEW c \in claims, ClaimReserved(c) \/ ClaimOverCap(c)
      PROVE  CallInv'
  BY <1>3 DEF ClaimReserved, ReplyJob, ClaimOverCap, ReplyNoJob
<1>4. ASSUME NEW live \in BOOLEAN, NEW r, Handle(live, r) PROVE CallInv'
  BY <1>4, TakeType, SubmitType
  DEF Handle, ResultReplayed, ResultCompletes, ResultRefused, FailTerminal,
    FailIgnored, AckResult, AckFail, AfterSubmit, Take, LedgerTypeOK
<1>5. CASE Recover
  BY <1>5 DEF Recover, RecoverSelect, RecoverRead, RecoverWrite
<1> QED BY <1>1, <1>2, <1>3, <1>4, <1>5 DEF ClaimNext, ClaimEnd, HandleSubmit

LEMMA CallInvWorker ==
  ASSUME ~LedgerFaults, TypeInv, CallInv, WorkerStep \/ Environment
  PROVE  CallInv'
<1> USE DEF CallInv, AtMostOneCall, AtCall, NeverAnswered, TypeInv, TypeOK,
            WorkerTypeOK, LedgerTypeOK, HandOK, InHand
<1>1. CASE WorkerLoop \/ WorkerEnsureRow
  BY <1>1 DEF WorkerLoop, WorkerEnsureRow
<1>2. CASE DecideNoop \/ DecideResult \/ DecideFail
  BY <1>2 DEF DecideNoop, DecideResult, DecideFail
<1>3. CASE DecideUnknown
  BY <1>3 DEF DecideUnknown, MarkCallUnknown
<1>4. CASE DecideStartCall \/ DecideOwnedCall
  BY <1>4 DEF DecideStartCall, ReplayStartCall, DecideOwnedCall, ReplayOwnedCall
<1>5. CASE CallStep
  BY <1>5 DEF CallStep, ProviderCall, WorkerSaveResult, WorkerNoteReject,
    WorkerSaveReject, WorkerCallFailed, SaveProviderResponse, MarkCallUnknown,
    Bodies
<1>6. CASE Drain
  BY <1>6 DEF Drain, WorkerSnapshot, DrainDone, DrainResult, DrainFail
<1>7. CASE NewCycle \/ ServerRestart \/ WorkerSaveFails
  BY <1>7 DEF NewCycle, ServerRestart, WorkerSaveFails
<1>8. ASSUME NEW j \in Jobs,
             EnqueueCheck(j) \/ EnqueueInsert(j) \/ LeaseExpires(j)
      PROVE  CallInv'
  BY <1>8 DEF EnqueueCheck, EnqueueInsert, LeaseExpires
<1>9. CASE RequestFails \/ WorkerCrash
  BY <1>9 DEF RequestFails, WorkerCrash, AfterSubmit
<1> QED BY <1>1, <1>2, <1>3, <1>4, <1>5, <1>6, <1>7, <1>8, <1>9
      DEF WorkerStep, Decide, Environment

LEMMA CallInvHolds ==
  ASSUME ~LedgerFaults
  PROVE  Spec => []CallInv
<1>1. Init => CallInv
  BY DEF Init, CallInv, AtMostOneCall
<1>2. TypeInv /\ CallInv /\ [Next]_vars => CallInv'
  <2>1. ASSUME UNCHANGED vars, CallInv PROVE CallInv'
    BY <2>1 DEF CallInv, AtMostOneCall, NeverAnswered
  <2> QED BY <2>1, CallInvServer, CallInvWorker DEF Next
<1> QED BY <1>1, <1>2, TypeInvHolds, PTL DEF Spec

(* While the ledger can be written, no job is ever paid for twice          *)
(* (AtMostOneCall), whatever is lost, delayed, restarted or recovered.     *)
THEOREM OneCallPerJob ==
  ASSUME ~LedgerFaults
  PROVE  Spec => []AtMostOneCall
<1>1. CallInv => AtMostOneCall
  BY DEF CallInv
<1> QED BY <1>1, CallInvHolds, PTL

-----------------------------------------------------------------------------
(* The pipeline implements PaidCalls: a reservation that is new is Grant,  *)
(* a provider call is Bill, a new cycle is NewWindow, the rest stutters.   *)

LEMMA ReserveGrants ==
  ASSUME TypeOK, NEW j \in Jobs, SlotFree(j), Reserve(j), UNCHANGED calls
  PROVE  [Paid!PaidNext]_Paid!paidVars
<1>1. CASE j \in reserved
  BY <1>1 DEF Reserve, Paid!paidVars
<1>2. CASE j \notin reserved
  <2>1. Paid!Grant(j)
    <3>1. Cardinality(cycleReserved) < Cap
      BY <1>2 DEF SlotFree, UnderCap
    <3>2. IsFiniteSet(cycleReserved) /\ j \notin cycleReserved
      BY <1>2, JobsAssumption, FS_Subset DEF TypeOK, ServerTypeOK
    <3>3. Cardinality(cycleReserved') = Cardinality(cycleReserved) + 1
      BY <1>2, <3>2, FS_AddElement DEF Reserve
    <3> QED BY <1>2, <3>1, <3>3 DEF Reserve, Paid!Grant
  <2> QED BY <2>1 DEF Paid!PaidNext
<1> QED BY <1>1, <1>2

LEMMA CallBills ==
  ASSUME TypeInv, ReserveInv, CallInv, NEW o, ProviderCall(o)
  PROVE  Paid!PaidNext
<1>1. job \in Jobs /\ job \in reserved /\ calls[job] = 0
  BY DEF ProviderCall, TypeInv, HandOK, ReserveInv, CallInv, InHand
<1>2. Paid!Bill(job)
  BY <1>1 DEF ProviderCall, Paid!Bill
<1> QED BY <1>1, <1>2 DEF Paid!PaidNext

LEMMA StepPays ==
  ASSUME TypeInv, ReserveInv, CallInv, Next
  PROVE  [Paid!PaidNext]_Paid!paidVars
<1>1. ASSUME NEW c \in claims, ClaimReserved(c)
      PROVE  [Paid!PaidNext]_Paid!paidVars
  <2>1. c.job \in Jobs
    BY DEF TypeInv, TypeOK, ServerTypeOK
  <2> QED BY <1>1, <2>1, ReserveGrants DEF ClaimReserved, TypeInv
<1>2. CASE \E o \in Bodies \cup {"ERROR"} : ProviderCall(o)
  BY <1>2, CallBills
<1>3. CASE NewCycle
  BY <1>3, FS_EmptySet DEF NewCycle, Paid!PaidNext, Paid!NewWindow
<1>4. CASE \/ ClaimNext
           \/ \E c \in claims : ClaimOverCap(c)
           \/ HandleSubmit \/ Recover
  <2>1. CASE ClaimNext
    BY <2>1 DEF ClaimNext, ClaimNothing, ClaimExpired, ClaimCandidate,
      Paid!paidVars
  <2>4. CASE \E c \in claims : ClaimOverCap(c)
    BY <2>4 DEF ClaimOverCap, Paid!paidVars
  <2>2. CASE HandleSubmit
    <3>1. ASSUME NEW live, NEW r, Handle(live, r)
          PROVE  UNCHANGED <<reserveVars, calls>>
      BY <3>1 DEF Handle, ResultReplayed, ResultCompletes, ResultRefused,
        FailTerminal, FailIgnored
    <3> QED BY <2>2, <3>1 DEF HandleSubmit, reserveVars, Paid!paidVars
  <2>3. CASE Recover
    BY <2>3 DEF Recover, RecoverSelect, RecoverRead, RecoverWrite,
      Paid!paidVars
  <2> QED BY <1>4, <2>1, <2>2, <2>3, <2>4
<1>5. CASE WorkerLoop \/ WorkerEnsureRow \/ Decide \/ Drain
  BY <1>5 DEF WorkerLoop, WorkerEnsureRow, Decide, DecideNoop, DecideResult,
    DecideFail, DecideUnknown, DecideStartCall, DecideOwnedCall, Drain,
    WorkerSnapshot, DrainDone, DrainResult, DrainFail, Paid!paidVars
<1>6. CASE WorkerSaveResult \/ WorkerNoteReject \/ WorkerSaveReject
             \/ WorkerCallFailed \/ WorkerSaveFails
  BY <1>6 DEF WorkerSaveResult, WorkerNoteReject, WorkerSaveReject,
    WorkerCallFailed, WorkerSaveFails, Paid!paidVars
<1>7. CASE ServerRestart \/ RequestFails \/ WorkerCrash
  BY <1>7 DEF ServerRestart, RequestFails, WorkerCrash, Paid!paidVars
<1>8. ASSUME NEW j \in Jobs,
             EnqueueCheck(j) \/ EnqueueInsert(j) \/ LeaseExpires(j)
      PROVE  [Paid!PaidNext]_Paid!paidVars
  BY <1>8 DEF EnqueueCheck, EnqueueInsert, LeaseExpires, Paid!paidVars
<1> QED BY <1>1, <1>2, <1>3, <1>4, <1>5, <1>6, <1>7, <1>8
      DEF Next, ClaimEnd, WorkerStep, CallStep, Environment

(* Seen through its reservations and its calls, the pipeline only grants   *)
(* within the cap and pays once for what was granted (PaysAsGranted).      *)
THEOREM ImplementsPaidCalls ==
  ASSUME ~LedgerFaults
  PROVE  Spec => PaysAsGranted
<1>1. Init => Paid!PaidInit
  BY FS_EmptySet DEF Init, Paid!PaidInit
<1>2. ASSUME TypeInv, ReserveInv, CallInv, [Next]_vars
      PROVE  [Paid!PaidNext]_Paid!paidVars
  <2>1. CASE UNCHANGED vars
    BY <2>1 DEF Paid!paidVars
  <2> QED BY <1>2, <2>1, StepPays
<1> QED BY <1>1, <1>2, TypeInvHolds, ReserveInvHolds, CallInvHolds, PTL
      DEF Spec, PaysAsGranted, Paid!PaidSpec

-----------------------------------------------------------------------------
(* An expired claim never gets as far as a call.                           *)

ExpiredInv == pc \in AtCall => ~expiredRecovery

LEMMA ExpiredInvHolds == Spec => []ExpiredInv
<1>1. Init => ExpiredInv
  BY DEF Init, ExpiredInv, AtCall
<1>2. ASSUME ExpiredInv, Next PROVE ExpiredInv'
  <2> USE DEF ExpiredInv, AtCall
  <2>1. CASE ClaimNext \/ ClaimEnd
    BY <1>2, <2>1 DEF ClaimNext, ClaimNothing, ReplyNoJob, ClaimExpired,
      ReplyJob, ClaimCandidate, ClaimEnd, ClaimReserved, ClaimOverCap
  <2>2. CASE HandleSubmit
    BY <1>2, <2>2 DEF HandleSubmit, Handle, ResultReplayed, ResultCompletes,
      ResultRefused, FailTerminal, FailIgnored, AckResult, AckFail, AfterSubmit
  <2>3. CASE Recover
    BY <1>2, <2>3 DEF Recover, RecoverSelect, RecoverRead, RecoverWrite
  <2>4. CASE Decide
    BY <2>4 DEF Decide, DecideNoop, DecideResult, DecideFail, DecideUnknown,
      DecideStartCall, ReplayStartCall, DecideOwnedCall, ReplayOwnedCall
  <2>5. CASE WorkerLoop \/ WorkerEnsureRow \/ Drain
    BY <2>5 DEF WorkerLoop, WorkerEnsureRow, Drain, WorkerSnapshot, DrainDone,
      DrainResult, DrainFail
  <2>6. CASE CallStep
    BY <1>2, <2>6 DEF CallStep, ProviderCall, WorkerSaveResult,
      WorkerNoteReject, WorkerSaveReject, WorkerCallFailed
  <2>7. CASE Environment
    BY <1>2, <2>7 DEF Environment, EnqueueCheck, EnqueueInsert, LeaseExpires,
      NewCycle, ServerRestart, RequestFails, AfterSubmit, WorkerCrash,
      WorkerSaveFails
  <2> QED BY <1>2, <2>1, <2>2, <2>3, <2>4, <2>5, <2>6, <2>7
        DEF Next, WorkerStep
<1>3. ASSUME ExpiredInv, UNCHANGED vars PROVE ExpiredInv'
  BY <1>3 DEF ExpiredInv
<1> QED BY <1>1, <1>2, <1>3, PTL DEF Spec

(* A claim handed out as an expired one is replayed or given up, and never *)
(* pays (ExpiredClaimNeverPays), ledger faults or not.                     *)
THEOREM ExpiredNeverPays == Spec => ExpiredClaimNeverPays
<1>1. ASSUME ExpiredInv, [Next]_vars, expiredRecovery PROVE calls' = calls
  <2>1. ~(\E o \in Bodies \cup {"ERROR"} : ProviderCall(o))
    BY <1>1 DEF ExpiredInv, AtCall, ProviderCall
  <2>2. CASE ClaimNext \/ ClaimEnd \/ HandleSubmit \/ Recover
    BY <2>2 DEF ClaimNext, ClaimNothing, ClaimExpired, ClaimCandidate, ClaimEnd,
      ClaimReserved, ClaimOverCap, HandleSubmit, Handle, ResultReplayed,
      ResultCompletes, ResultRefused, FailTerminal, FailIgnored, Recover,
      RecoverSelect, RecoverRead, RecoverWrite
  <2>3. CASE WorkerStep
    BY <2>1, <2>3 DEF WorkerStep, WorkerLoop, WorkerEnsureRow, Decide,
      DecideNoop, DecideResult, DecideFail, DecideUnknown, DecideStartCall,
      DecideOwnedCall, CallStep, WorkerSaveResult, WorkerNoteReject,
      WorkerSaveReject, WorkerCallFailed, Drain, WorkerSnapshot, DrainDone,
      DrainResult, DrainFail
  <2>4. CASE Environment
    BY <2>4 DEF Environment, EnqueueCheck, EnqueueInsert, LeaseExpires,
      NewCycle, ServerRestart, RequestFails, WorkerCrash, WorkerSaveFails
  <2> QED BY <1>1, <2>2, <2>3, <2>4 DEF Next
<1> QED BY <1>1, ExpiredInvHolds, PTL DEF Spec, ExpiredClaimNeverPays

-----------------------------------------------------------------------------
(* Without the browser-scan recovery an open claim keeps its row locked    *)
(* in a waiting status, so nothing leaves COMPLETED or FAILED.             *)

LockInv ==
  /\ recovery = Idle
  /\ \A c \in claims : status[c.job] \in Waiting
  /\ \A c, d \in claims : c.job = d.job => c = d

LEMMA LockInvHolds ==
  ASSUME ~BrowserRecovery
  PROVE  Spec => []LockInv
<1>1. Init => LockInv
  BY DEF Init, LockInv
<1>2. ASSUME TypeInv, LockInv, Next PROVE LockInv'
  <2> USE <1>2 DEF LockInv, Waiting, TypeInv, TypeOK, JobsTypeOK, ServerTypeOK
  <2>1. ASSUME NEW live \in BOOLEAN, NEW j \in Jobs, NEW t \in Tokens,
               ClaimNothing(live) \/ ClaimExpired(live, j, t)
        PROVE  LockInv'
    BY <2>1 DEF ClaimNothing, ClaimExpired, ExpiredOwned, Held
  <2>2. ASSUME NEW live \in BOOLEAN, NEW j \in Jobs, NEW t \in Tokens,
               ClaimCandidate(live, j, t)
        PROVE  LockInv'
    BY <2>2 DEF ClaimCandidate, Candidate, Locked
  <2>3. ASSUME NEW live \in BOOLEAN, ClaimNothing(live) PROVE LockInv'
    BY <2>3 DEF ClaimNothing
  <2>4. ASSUME NEW c \in claims, ClaimReserved(c) \/ ClaimOverCap(c)
        PROVE  LockInv'
    <3>1. claims' = claims \ {c} /\ UNCHANGED recovery
      BY <2>4 DEF ClaimReserved, ClaimOverCap
    <3>2. \A j \in Jobs \ {c.job} : status'[j] = status[j]
      BY <2>4 DEF ClaimReserved, ClaimOverCap
    <3>3. \A d \in claims' : d \in claims /\ d.job \in Jobs \ {c.job}
      BY <3>1
    <3> QED BY <3>1, <3>2, <3>3
  <2>5. ASSUME NEW live \in BOOLEAN, NEW r, Handle(live, r) PROVE LockInv'
    <3>1. CASE ResultReplayed(live, r)
      BY <3>1 DEF ResultReplayed
    <3>2. CASE ResultCompletes(live, r)
      BY <3>2 DEF ResultCompletes, HasLease, Held
    <3>3. CASE ResultRefused(live, r)
      BY <3>3 DEF ResultRefused, HasLease, Held
    <3>4. CASE FailTerminal(live, r)
      BY <3>4 DEF FailTerminal, MayOwnerTerminalFail, HasLease, Held
    <3>5. CASE FailIgnored(live, r)
      BY <3>5 DEF FailIgnored
    <3> QED BY <2>5, <3>1, <3>2, <3>3, <3>4, <3>5 DEF Handle
  <2>6. ~Recover
    BY DEF Recover, RecoverSelect, RecoverRead, RecoverWrite, Idle
  <2>7. CASE WorkerStep
    BY <2>7 DEF WorkerStep, WorkerLoop, WorkerEnsureRow, Decide, DecideNoop,
      DecideResult, DecideFail, DecideUnknown, DecideStartCall,
      DecideOwnedCall, CallStep, ProviderCall, WorkerSaveResult,
      WorkerNoteReject, WorkerSaveReject, WorkerCallFailed, Drain,
      WorkerSnapshot, DrainDone, DrainResult, DrainFail
  <2>8. ASSUME NEW j \in Jobs,
               EnqueueCheck(j) \/ EnqueueInsert(j) \/ LeaseExpires(j)
        PROVE  LockInv'
    BY <2>8 DEF EnqueueCheck, EnqueueInsert, LeaseExpires
  <2>9. CASE NewCycle \/ ServerRestart \/ WorkerSaveFails
    BY <2>9 DEF NewCycle, ServerRestart, WorkerSaveFails
  <2>10. CASE RequestFails \/ WorkerCrash
    <3>1. \A c \in claims' : \E d \in claims :
             c = [job |-> d.job, token |-> d.token, live |-> FALSE]
      BY <2>10 DEF RequestFails, WorkerCrash, Abandon
    <3>2. UNCHANGED <<status, recovery>>
      BY <2>10 DEF RequestFails, WorkerCrash
    <3>3. ASSUME NEW c \in claims', NEW d \in claims', c.job = d.job
          PROVE  c = d
      <4>1. PICK a \in claims : c = [job |-> a.job, token |-> a.token, live |-> FALSE]
        BY <3>1
      <4>2. PICK b \in claims : d = [job |-> b.job, token |-> b.token, live |-> FALSE]
        BY <3>1
      <4>3. a.job = b.job
        BY <3>3, <4>1, <4>2
      <4> QED BY <4>1, <4>2, <4>3
    <3>4. \A c \in claims' : status'[c.job] \in Waiting
      BY <3>1, <3>2
    <3> QED BY <3>2, <3>3, <3>4
  <2> QED BY <2>1, <2>2, <2>3, <2>4, <2>5, <2>6, <2>7, <2>8, <2>9, <2>10
        DEF Next, ClaimNext, ClaimEnd, HandleSubmit, Environment
<1>3. ASSUME LockInv, UNCHANGED vars PROVE LockInv'
  BY <1>3 DEF LockInv
<1> QED BY <1>1, <1>2, <1>3, TypeInvHolds, PTL DEF Spec

(* A job that is COMPLETED or FAILED stays so when no browser-scan worker  *)
(* sends heartbeats (TerminalIsFinal).                                     *)
THEOREM TerminalStays ==
  ASSUME ~BrowserRecovery
  PROVE  Spec => TerminalIsFinal
<1>1. ASSUME TypeInv, LockInv, [Next]_vars, NEW j \in Jobs,
             status[j] \in {"COMPLETED", "FAILED"}
      PROVE  status'[j] = status[j]
  <2> USE <1>1 DEF LockInv, Waiting, TypeInv, TypeOK, JobsTypeOK
  <2>1. CASE ClaimNext
    BY <2>1 DEF ClaimNext, ClaimNothing, ClaimExpired, ExpiredOwned, Held,
      ClaimCandidate
  <2>2. CASE ClaimEnd
    BY <2>2 DEF ClaimEnd, ClaimReserved, ClaimOverCap
  <2>3. CASE HandleSubmit
    <3>1. ASSUME NEW live \in BOOLEAN, NEW r, Handle(live, r)
          PROVE  status'[j] = status[j]
      <4>1. CASE ResultReplayed(live, r)
        BY <4>1 DEF ResultReplayed
      <4>2. CASE ResultCompletes(live, r)
        BY <4>2 DEF ResultCompletes, HasLease, Held
      <4>3. CASE ResultRefused(live, r)
        BY <4>3 DEF ResultRefused, HasLease, Held
      <4>4. CASE FailTerminal(live, r)
        BY <4>4 DEF FailTerminal, MayOwnerTerminalFail, HasLease, Held
      <4>5. CASE FailIgnored(live, r)
        BY <4>5 DEF FailIgnored
      <4> QED BY <3>1, <4>1, <4>2, <4>3, <4>4, <4>5 DEF Handle
    <3> QED BY <2>3, <3>1 DEF HandleSubmit
  <2>4. ~Recover
    BY DEF Recover, RecoverSelect, RecoverRead, RecoverWrite, Idle
  <2>5. CASE WorkerStep
    BY <2>5 DEF WorkerStep, WorkerLoop, WorkerEnsureRow, Decide, DecideNoop,
      DecideResult, DecideFail, DecideUnknown, DecideStartCall,
      DecideOwnedCall, CallStep, ProviderCall, WorkerSaveResult,
      WorkerNoteReject, WorkerSaveReject, WorkerCallFailed, Drain,
      WorkerSnapshot, DrainDone, DrainResult, DrainFail
  <2>6. CASE Environment
    BY <2>6 DEF Environment, EnqueueCheck, EnqueueInsert, LeaseExpires,
      NewCycle, ServerRestart, RequestFails, WorkerCrash, WorkerSaveFails
  <2> QED BY <2>2, <2>1, <2>3, <2>4, <2>5, <2>6 DEF Next
<1>2. ASSUME TypeInv, LockInv, [Next]_vars
      PROVE  \A j \in Jobs : status[j] \in {"COMPLETED", "FAILED"} =>
               status'[j] = status[j]
  BY <1>1, <1>2
<1> QED BY <1>2, TypeInvHolds, LockInvHolds, PTL DEF Spec, TerminalIsFinal

=============================================================================
