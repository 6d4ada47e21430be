----------------------------- MODULE PaidCalls -----------------------------
(***************************************************************************)
(* What the verification of OxylabsVerify promises about money: a call is  *)
(* paid for only after it was granted, at most once per job, and at most   *)
(* Cap calls are granted in one billing window.                            *)
(***************************************************************************)
EXTENDS Naturals

CONSTANTS Jobs, Cap

VARIABLES
  granted,   \* jobs for which a call was granted
  used,      \* calls granted in this window
  billed     \* calls paid for, per job

paidVars == <<granted, used, billed>>

PaidInit == granted = {} /\ used = 0 /\ billed = [j \in Jobs |-> 0]

Grant(j) ==
  /\ j \notin granted /\ used < Cap
  /\ granted' = granted \cup {j} /\ used' = used + 1
  /\ UNCHANGED billed

Bill(j) ==
  /\ j \in granted /\ billed[j] = 0
  /\ billed' = [billed EXCEPT ![j] = 1]
  /\ UNCHANGED <<granted, used>>

NewWindow == used' = 0 /\ UNCHANGED <<granted, billed>>

PaidNext == NewWindow \/ \E j \in Jobs : Grant(j) \/ Bill(j)

PaidSpec == PaidInit /\ [][PaidNext]_paidVars
=============================================================================
