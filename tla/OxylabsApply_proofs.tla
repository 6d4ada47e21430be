------------------------ MODULE OxylabsApply_proofs ------------------------
(***************************************************************************)
(* Proofs about OxylabsApply for any jobs, listings and appliers, and any  *)
(* number of tries and restarts.                                           *)
(***************************************************************************)
EXTENDS OxylabsApply, TLAPS

USE DEF outboxVars, opVars, listingVars, handVars, applierVars, vars, Appliers

(* An operation key names a job and a listing.                             *)
LEMMA OpParts ==
  ASSUME NEW o \in Ops
  PROVE  o[1] \in Jobs /\ o[2] \in Listings
BY DEF Ops

-----------------------------------------------------------------------------
(* Types.                                                                  *)

LEMMA TypeInit == Init => TypeOK
BY DEF Init, TypeOK, OutboxTypeOK, OpTypeOK, ApplierTypeOK, OpStatuses, Working

LEMMA TypeStep ==
  ASSUME TypeOK, [Next]_vars
  PROVE  TypeOK'
<1> USE OpParts, ListingsAssumption, LimitsAssumption
        DEF TypeOK, OutboxTypeOK, OpTypeOK, ApplierTypeOK, OpStatuses, Working
<1>1. ASSUME NEW j \in Jobs, Complete(j) PROVE TypeOK'
BY <1>1 DEF Complete
<1>2. ASSUME NEW j \in Jobs, LockExpires(j) PROVE TypeOK'
BY <1>2 DEF LockExpires
<1>3. ASSUME NEW o \in Ops, LeaseExpires(o) PROVE TypeOK'
BY <1>3 DEF LeaseExpires
<1>4. ASSUME NEW a \in Handlers, NEW j \in Jobs, HandlerClaims(a, j)
      PROVE  TypeOK'
BY <1>4 DEF HandlerClaims, TakeRows, Free
<1>5. ASSUME NEW a \in Processors, ProcessorClaims(a) PROVE TypeOK'
BY <1>5 DEF ProcessorClaims, TakeRows, Free
<1>6. ASSUME NEW a \in Appliers, NEW j \in Jobs, ApplyStart(a, j)
      PROVE  TypeOK'
BY <1>6 DEF ApplyStart, Planned
<1>7. ASSUME NEW a \in Appliers, NEW o \in Ops, ClaimWon(a, o) PROVE TypeOK'
BY <1>7 DEF ClaimWon, FirstStep
<1>8. ASSUME NEW a \in Appliers, NEW o \in Ops, ClaimLost(a, o) PROVE TypeOK'
BY <1>8 DEF ClaimLost
<1>9. ASSUME NEW a \in Appliers, ReadBackMatches(a) PROVE TypeOK'
BY <1>9 DEF ReadBackMatches, Mark, GoTo, PutDown
<1>10. ASSUME NEW a \in Appliers, ReadBackDiffers(a) PROVE TypeOK'
BY <1>10 DEF ReadBackDiffers, Mark, GoTo
<1>11. ASSUME NEW a \in Appliers, AnnounceMutation(a) PROVE TypeOK'
BY <1>11 DEF AnnounceMutation, Mark, GoTo
<1>12. ASSUME NEW a \in Appliers, MutateSkips(a) PROVE TypeOK'
BY <1>12 DEF MutateSkips, GoTo
<1>13. ASSUME NEW a \in Appliers, MutateProceeds(a) PROVE TypeOK'
BY <1>13 DEF MutateProceeds, GoTo
<1>14. ASSUME NEW a \in Appliers, MutateCalls(a) PROVE TypeOK'
BY <1>14 DEF MutateCalls, GoTo
<1>15. ASSUME NEW a \in Appliers, RecordApplied(a) PROVE TypeOK'
BY <1>15 DEF RecordApplied, Mark, GoTo, PutDown
<1>16. ASSUME NEW a \in Appliers, RecordSkipped(a) PROVE TypeOK'
BY <1>16 DEF RecordSkipped, Mark, GoTo
<1>17. ASSUME NEW a \in Appliers, Settle(a) PROVE TypeOK'
BY <1>17 DEF Settle, GoTo, PutDown
<1>18. ASSUME NEW a \in Appliers, RecordRetryable(a) PROVE TypeOK'
BY <1>18 DEF RecordRetryable, Mark, GoTo, PutDown
<1>19. ASSUME NEW a \in Appliers, ApplyDone(a) PROVE TypeOK'
BY <1>19 DEF ApplyDone, LeaveJob, PutDown
<1>20. ASSUME NEW a \in Appliers, ApplyThrows(a) PROVE TypeOK'
BY <1>20 DEF ApplyThrows, LeaveJob, PutDown
<1>21. CASE Restart
BY <1>21 DEF Restart
<1>22. CASE UNCHANGED vars
  BY <1>22
<1> QED BY <1>1, <1>2, <1>3, <1>4, <1>5, <1>6, <1>7, <1>8, <1>9, <1>10, <1>11,
       <1>12, <1>13, <1>14, <1>15, <1>16, <1>17, <1>18, <1>19, <1>20, <1>21,
       <1>22 DEF Next, Applies, Claims, Looks, Mutates, Records

(* TypeOK holds in every reachable state: an applier in the middle of an   *)
(* operation has one of the job in its hand, which is in its batch.        *)
THEOREM TypesHold == Spec => []TypeOK
BY TypeInit, TypeStep, PTL DEF Spec

-----------------------------------------------------------------------------
(* What holds even when appliers outlive their locks and leases.           *)

(* An applier about to mutate has announced it.                            *)
CallInv ==
  /\ CallIsOnRecord
  /\ \A a \in Appliers : pc[a] \in {"mutate", "call"} => mutateCount[op[a]] > 0

(* A mutation that reports success has set the quantity.                   *)
EbayInv ==
  /\ AppliedIsOnEbay
  /\ \A a \in Appliers :
       pc[a] = "record" /\ outcome[a] = "applied" => zeroOnEbay[op[a][2]]

RecordInv == CallInv /\ EbayInv

LEMMA RecordInit == Init => RecordInv
BY OpParts DEF Init, RecordInv, CallInv, EbayInv, CallIsOnRecord,
               AppliedIsOnEbay

LEMMA CallStep ==
  ASSUME TypeOK, CallInv, [Next]_vars
  PROVE  CallInv'
<1> USE DEF CallInv, CallIsOnRecord, TypeOK, OpTypeOK, ApplierTypeOK, Working
<1>1. ASSUME NEW j \in Jobs, Complete(j) PROVE CallInv'
BY <1>1 DEF Complete
<1>2. ASSUME NEW j \in Jobs, LockExpires(j) PROVE CallInv'
BY <1>2 DEF LockExpires
<1>3. ASSUME NEW o \in Ops, LeaseExpires(o) PROVE CallInv'
BY <1>3 DEF LeaseExpires
<1>4. ASSUME NEW a \in Handlers, NEW j \in Jobs, HandlerClaims(a, j)
      PROVE  CallInv'
BY <1>4 DEF HandlerClaims, TakeRows
<1>5. ASSUME NEW a \in Processors, ProcessorClaims(a) PROVE CallInv'
BY <1>5 DEF ProcessorClaims, TakeRows
<1>6. ASSUME NEW a \in Appliers, NEW j \in Jobs, ApplyStart(a, j)
      PROVE  CallInv'
BY <1>6 DEF ApplyStart
<1>7. ASSUME NEW a \in Appliers, NEW o \in Ops, ClaimWon(a, o) PROVE CallInv'
BY <1>7 DEF ClaimWon, FirstStep
<1>8. ASSUME NEW a \in Appliers, NEW o \in Ops, ClaimLost(a, o) PROVE CallInv'
BY <1>8 DEF ClaimLost
<1>9. ASSUME NEW a \in Appliers, ReadBackMatches(a) PROVE CallInv'
BY <1>9 DEF ReadBackMatches, Mark, GoTo, PutDown
<1>10. ASSUME NEW a \in Appliers, ReadBackDiffers(a) PROVE CallInv'
BY <1>10 DEF ReadBackDiffers, Mark, GoTo
<1>11. ASSUME NEW a \in Appliers, AnnounceMutation(a) PROVE CallInv'
BY <1>11 DEF AnnounceMutation, Mark, GoTo
<1>12. ASSUME NEW a \in Appliers, MutateSkips(a) PROVE CallInv'
BY <1>12 DEF MutateSkips, GoTo
<1>13. ASSUME NEW a \in Appliers, MutateProceeds(a) PROVE CallInv'
BY <1>13 DEF MutateProceeds, GoTo
<1>14. ASSUME NEW a \in Appliers, MutateCalls(a) PROVE CallInv'
BY <1>14 DEF MutateCalls, GoTo
<1>15. ASSUME NEW a \in Appliers, RecordApplied(a) PROVE CallInv'
BY <1>15 DEF RecordApplied, Mark, GoTo, PutDown
<1>16. ASSUME NEW a \in Appliers, RecordSkipped(a) PROVE CallInv'
BY <1>16 DEF RecordSkipped, Mark, GoTo
<1>17. ASSUME NEW a \in Appliers, Settle(a) PROVE CallInv'
BY <1>17 DEF Settle, GoTo, PutDown
<1>18. ASSUME NEW a \in Appliers, RecordRetryable(a) PROVE CallInv'
BY <1>18 DEF RecordRetryable, Mark, GoTo, PutDown
<1>19. ASSUME NEW a \in Appliers, ApplyDone(a) PROVE CallInv'
BY <1>19 DEF ApplyDone, LeaveJob, PutDown
<1>20. ASSUME NEW a \in Appliers, ApplyThrows(a) PROVE CallInv'
BY <1>20 DEF ApplyThrows, LeaveJob, PutDown
<1>21. CASE Restart
BY <1>21 DEF Restart
<1>22. CASE UNCHANGED vars
  BY <1>22
<1> QED BY <1>1, <1>2, <1>3, <1>4, <1>5, <1>6, <1>7, <1>8, <1>9, <1>10, <1>11,
       <1>12, <1>13, <1>14, <1>15, <1>16, <1>17, <1>18, <1>19, <1>20, <1>21,
       <1>22 DEF Next, Applies, Claims, Looks, Mutates, Records

LEMMA EbayStep ==
  ASSUME TypeOK, EbayInv, [Next]_vars
  PROVE  EbayInv'
<1> USE OpParts DEF EbayInv, AppliedIsOnEbay, TypeOK, OpTypeOK, ApplierTypeOK,
                    Working
<1>1. ASSUME NEW j \in Jobs, Complete(j) PROVE EbayInv'
BY <1>1 DEF Complete
<1>2. ASSUME NEW j \in Jobs, LockExpires(j) PROVE EbayInv'
BY <1>2 DEF LockExpires
<1>3. ASSUME NEW o \in Ops, LeaseExpires(o) PROVE EbayInv'
BY <1>3 DEF LeaseExpires
<1>4. ASSUME NEW a \in Handlers, NEW j \in Jobs, HandlerClaims(a, j)
      PROVE  EbayInv'
BY <1>4 DEF HandlerClaims, TakeRows
<1>5. ASSUME NEW a \in Processors, ProcessorClaims(a) PROVE EbayInv'
BY <1>5 DEF ProcessorClaims, TakeRows
<1>6. ASSUME NEW a \in Appliers, NEW j \in Jobs, ApplyStart(a, j)
      PROVE  EbayInv'
BY <1>6 DEF ApplyStart
<1>7. ASSUME NEW a \in Appliers, NEW o \in Ops, ClaimWon(a, o) PROVE EbayInv'
BY <1>7 DEF ClaimWon, FirstStep
<1>8. ASSUME NEW a \in Appliers, NEW o \in Ops, ClaimLost(a, o) PROVE EbayInv'
BY <1>8 DEF ClaimLost
<1>9. ASSUME NEW a \in Appliers, ReadBackMatches(a) PROVE EbayInv'
BY <1>9 DEF ReadBackMatches, Mark, GoTo, PutDown, Matches
<1>10. ASSUME NEW a \in Appliers, ReadBackDiffers(a) PROVE EbayInv'
BY <1>10 DEF ReadBackDiffers, Mark, GoTo
<1>11. ASSUME NEW a \in Appliers, AnnounceMutation(a) PROVE EbayInv'
BY <1>11 DEF AnnounceMutation, Mark, GoTo
<1>12. ASSUME NEW a \in Appliers, MutateSkips(a) PROVE EbayInv'
BY <1>12 DEF MutateSkips, GoTo
<1>13. ASSUME NEW a \in Appliers, MutateProceeds(a) PROVE EbayInv'
BY <1>13 DEF MutateProceeds, GoTo
<1>14. ASSUME NEW a \in Appliers, MutateCalls(a) PROVE EbayInv'
BY <1>14 DEF MutateCalls, GoTo
<1>15. ASSUME NEW a \in Appliers, RecordApplied(a) PROVE EbayInv'
BY <1>15 DEF RecordApplied, Mark, GoTo, PutDown
<1>16. ASSUME NEW a \in Appliers, RecordSkipped(a) PROVE EbayInv'
BY <1>16 DEF RecordSkipped, Mark, GoTo
<1>17. ASSUME NEW a \in Appliers, Settle(a) PROVE EbayInv'
BY <1>17 DEF Settle, GoTo, PutDown
<1>18. ASSUME NEW a \in Appliers, RecordRetryable(a) PROVE EbayInv'
BY <1>18 DEF RecordRetryable, Mark, GoTo, PutDown
<1>19. ASSUME NEW a \in Appliers, ApplyDone(a) PROVE EbayInv'
BY <1>19 DEF ApplyDone, LeaveJob, PutDown
<1>20. ASSUME NEW a \in Appliers, ApplyThrows(a) PROVE EbayInv'
BY <1>20 DEF ApplyThrows, LeaveJob, PutDown
<1>21. CASE Restart
BY <1>21 DEF Restart
<1>22. CASE UNCHANGED vars
  BY <1>22
<1> QED BY <1>1, <1>2, <1>3, <1>4, <1>5, <1>6, <1>7, <1>8, <1>9, <1>10, <1>11,
       <1>12, <1>13, <1>14, <1>15, <1>16, <1>17, <1>18, <1>19, <1>20, <1>21,
       <1>22 DEF Next, Applies, Claims, Looks, Mutates, Records

(* Whatever overlaps, an operation for which eBay was called says so.      *)
THEOREM CallsAreOnRecord == Spec => []CallIsOnRecord
<1>1. Spec => []TypeOK
  BY TypesHold
<1>2. Init => CallInv
  BY RecordInit DEF RecordInv
<1>3. TypeOK /\ CallInv /\ [Next]_vars => CallInv'
  BY CallStep
<1>4. CallInv => CallIsOnRecord
  BY DEF CallInv
<1> QED BY <1>1, <1>2, <1>3, <1>4, PTL DEF Spec

(* Whatever overlaps, APPLIED means quantity 0 on eBay.                    *)
THEOREM AppliedIsReal == Spec => []AppliedIsOnEbay
<1>1. Spec => []TypeOK
  BY TypesHold
<1>2. Init => EbayInv
  BY RecordInit DEF RecordInv
<1>3. TypeOK /\ EbayInv /\ [Next]_vars => EbayInv'
  BY EbayStep
<1>4. EbayInv => AppliedIsOnEbay
  BY DEF EbayInv
<1> QED BY <1>1, <1>2, <1>3, <1>4, PTL DEF Spec

-----------------------------------------------------------------------------
(* What holds when no applier outlives the lease of its operation.         *)

(* Who works on an operation holds its lease, and nobody else works on it. *)
LeaseInv ==
  \A a \in Appliers :
    /\ pc[a] \in Working \ {"settle"} => status[op[a]] = "CLAIMED" /\ lease[op[a]]
    /\ pc[a] = "settle" => status[op[a]] = "SKIPPED"
    /\ pc[a] \in Working =>
         \A b \in Appliers : pc[b] \in Working /\ op[b] = op[a] => b = a

LEMMA LeaseInit == Init => LeaseInv
BY DEF Init, LeaseInv, Working

LEMMA LeaseStep ==
  ASSUME TypeOK, LeaseInv, ~Overrun, [Next]_vars
  PROVE  LeaseInv'
<1> USE DEF LeaseInv, TypeOK, OpTypeOK, ApplierTypeOK, Working
<1>1. ASSUME NEW j \in Jobs, Complete(j) PROVE LeaseInv'
BY <1>1 DEF Complete
<1>2. ASSUME NEW j \in Jobs, LockExpires(j) PROVE LeaseInv'
BY <1>2 DEF LockExpires
<1>3. ASSUME NEW o \in Ops, LeaseExpires(o) PROVE LeaseInv'
BY <1>3 DEF LeaseExpires, WorksOn
<1>4. ASSUME NEW a \in Handlers, NEW j \in Jobs, HandlerClaims(a, j)
      PROVE  LeaseInv'
BY <1>4 DEF HandlerClaims, TakeRows
<1>5. ASSUME NEW a \in Processors, ProcessorClaims(a) PROVE LeaseInv'
BY <1>5 DEF ProcessorClaims, TakeRows
<1>6. ASSUME NEW a \in Appliers, NEW j \in Jobs, ApplyStart(a, j)
      PROVE  LeaseInv'
BY <1>6 DEF ApplyStart
<1>7. ASSUME NEW a \in Appliers, NEW o \in Ops, ClaimWon(a, o) PROVE LeaseInv'
BY <1>7 DEF ClaimWon, FirstStep, Claimable
<1>8. ASSUME NEW a \in Appliers, NEW o \in Ops, ClaimLost(a, o)
      PROVE  LeaseInv'
BY <1>8 DEF ClaimLost
<1>9. ASSUME NEW a \in Appliers, ReadBackMatches(a) PROVE LeaseInv'
BY <1>9 DEF ReadBackMatches, Mark, GoTo, PutDown
<1>10. ASSUME NEW a \in Appliers, ReadBackDiffers(a) PROVE LeaseInv'
BY <1>10 DEF ReadBackDiffers, Mark, GoTo
<1>11. ASSUME NEW a \in Appliers, AnnounceMutation(a) PROVE LeaseInv'
BY <1>11 DEF AnnounceMutation, Mark, GoTo
<1>12. ASSUME NEW a \in Appliers, MutateSkips(a) PROVE LeaseInv'
BY <1>12 DEF MutateSkips, GoTo
<1>13. ASSUME NEW a \in Appliers, MutateProceeds(a) PROVE LeaseInv'
BY <1>13 DEF MutateProceeds, GoTo
<1>14. ASSUME NEW a \in Appliers, MutateCalls(a) PROVE LeaseInv'
BY <1>14 DEF MutateCalls, GoTo
<1>15. ASSUME NEW a \in Appliers, RecordApplied(a) PROVE LeaseInv'
BY <1>15 DEF RecordApplied, Mark, GoTo, PutDown
<1>16. ASSUME NEW a \in Appliers, RecordSkipped(a) PROVE LeaseInv'
BY <1>16 DEF RecordSkipped, Mark, GoTo
<1>17. ASSUME NEW a \in Appliers, Settle(a) PROVE LeaseInv'
BY <1>17 DEF Settle, GoTo, PutDown
<1>18. ASSUME NEW a \in Appliers, RecordRetryable(a) PROVE LeaseInv'
BY <1>18 DEF RecordRetryable, Mark, GoTo, PutDown
<1>19. ASSUME NEW a \in Appliers, ApplyDone(a) PROVE LeaseInv'
BY <1>19 DEF ApplyDone, LeaveJob, PutDown
<1>20. ASSUME NEW a \in Appliers, ApplyThrows(a) PROVE LeaseInv'
BY <1>20 DEF ApplyThrows, LeaveJob, PutDown
<1>21. CASE Restart
BY <1>21 DEF Restart
<1>22. CASE UNCHANGED vars
  BY <1>22
<1> QED BY <1>1, <1>2, <1>3, <1>4, <1>5, <1>6, <1>7, <1>8, <1>9, <1>10, <1>11,
       <1>12, <1>13, <1>14, <1>15, <1>16, <1>17, <1>18, <1>19, <1>20, <1>21,
       <1>22 DEF Next, Applies, Claims, Looks, Mutates, Records

LEMMA LeaseHolds ==
  ASSUME ~Overrun
  PROVE  Spec => [](TypeOK /\ LeaseInv)
<1>1. Init => TypeOK /\ LeaseInv
  BY TypeInit, LeaseInit
<1>2. TypeOK /\ LeaseInv /\ [Next]_vars => TypeOK' /\ LeaseInv'
  BY TypeStep, LeaseStep
<1> QED BY <1>1, <1>2, PTL DEF Spec

(* No step takes an operation out of APPLIED or calls eBay for it again.   *)
Kept(p) == status'[p] = "APPLIED" /\ calls'[p] = calls[p]

LEMMA AppliedStep ==
  ASSUME TypeOK, LeaseInv, [Next]_vars,
         NEW p \in Ops, status[p] = "APPLIED"
  PROVE  Kept(p)
<1> USE DEF Kept, LeaseInv, TypeOK, OpTypeOK, ApplierTypeOK, Working
<1>1. ASSUME NEW j \in Jobs, Complete(j) PROVE Kept(p)
BY <1>1 DEF Complete
<1>2. ASSUME NEW j \in Jobs, LockExpires(j) PROVE Kept(p)
BY <1>2 DEF LockExpires
<1>3. ASSUME NEW o \in Ops, LeaseExpires(o) PROVE Kept(p)
BY <1>3 DEF LeaseExpires
<1>4. ASSUME NEW a \in Handlers, NEW j \in Jobs, HandlerClaims(a, j)
      PROVE  Kept(p)
BY <1>4 DEF HandlerClaims, TakeRows
<1>5. ASSUME NEW a \in Processors, ProcessorClaims(a) PROVE Kept(p)
BY <1>5 DEF ProcessorClaims, TakeRows
<1>6. ASSUME NEW a \in Appliers, NEW j \in Jobs, ApplyStart(a, j)
      PROVE  Kept(p)
BY <1>6 DEF ApplyStart
<1>7. ASSUME NEW a \in Appliers, NEW o \in Ops, ClaimWon(a, o) PROVE Kept(p)
BY <1>7 DEF ClaimWon, Claimable
<1>8. ASSUME NEW a \in Appliers, NEW o \in Ops, ClaimLost(a, o) PROVE Kept(p)
BY <1>8 DEF ClaimLost
<1>9. ASSUME NEW a \in Appliers, ReadBackMatches(a) PROVE Kept(p)
BY <1>9 DEF ReadBackMatches, Mark, GoTo, PutDown
<1>10. ASSUME NEW a \in Appliers, ReadBackDiffers(a) PROVE Kept(p)
BY <1>10 DEF ReadBackDiffers, Mark, GoTo
<1>11. ASSUME NEW a \in Appliers, AnnounceMutation(a) PROVE Kept(p)
BY <1>11 DEF AnnounceMutation, Mark, GoTo
<1>12. ASSUME NEW a \in Appliers, MutateSkips(a) PROVE Kept(p)
BY <1>12 DEF MutateSkips, GoTo
<1>13. ASSUME NEW a \in Appliers, MutateProceeds(a) PROVE Kept(p)
BY <1>13 DEF MutateProceeds, GoTo
<1>14. ASSUME NEW a \in Appliers, MutateCalls(a) PROVE Kept(p)
BY <1>14 DEF MutateCalls, GoTo
<1>15. ASSUME NEW a \in Appliers, RecordApplied(a) PROVE Kept(p)
BY <1>15 DEF RecordApplied, Mark, GoTo, PutDown
<1>16. ASSUME NEW a \in Appliers, RecordSkipped(a) PROVE Kept(p)
BY <1>16 DEF RecordSkipped, Mark, GoTo
<1>17. ASSUME NEW a \in Appliers, Settle(a) PROVE Kept(p)
BY <1>17 DEF Settle, GoTo, PutDown
<1>18. ASSUME NEW a \in Appliers, RecordRetryable(a) PROVE Kept(p)
BY <1>18 DEF RecordRetryable, Mark, GoTo, PutDown
<1>19. ASSUME NEW a \in Appliers, ApplyDone(a) PROVE Kept(p)
BY <1>19 DEF ApplyDone, LeaveJob, PutDown
<1>20. ASSUME NEW a \in Appliers, ApplyThrows(a) PROVE Kept(p)
BY <1>20 DEF ApplyThrows, LeaveJob, PutDown
<1>21. CASE Restart
BY <1>21 DEF Restart
<1>22. CASE UNCHANGED vars
  BY <1>22
<1> QED BY <1>1, <1>2, <1>3, <1>4, <1>5, <1>6, <1>7, <1>8, <1>9, <1>10, <1>11,
       <1>12, <1>13, <1>14, <1>15, <1>16, <1>17, <1>18, <1>19, <1>20, <1>21,
       <1>22 DEF Next, Applies, Claims, Looks, Mutates, Records

(* An operation that was applied stays applied and is not sent again,      *)
(* although no mark looks at its owner or its old status.                  *)
THEOREM AppliedIsFinal ==
  ASSUME ~Overrun
  PROVE  Spec => AppliedStays
<1>1. TypeOK /\ LeaseInv /\ [Next]_vars
        => [\A o \in Ops : status[o] = "APPLIED" =>
              status'[o] = "APPLIED" /\ calls'[o] = calls[o]]_vars
  BY AppliedStep DEF Kept
<1> QED BY <1>1, LeaseHolds, PTL DEF Spec, AppliedStays

(* The refinement: steps of the appliers are Acquire, Release or stutter.  *)
Workers == [o \in Ops |-> {a \in Appliers : WorksOn(a, o)}]

LEMMA WorkersInit == Init => Workers = [o \in Ops |-> {}]
BY DEF Init, Workers, WorksOn, Working

(* A step in which nobody begins to work on anything releases.             *)
LEMMA NobodyBegins ==
  ASSUME \A a \in Appliers : pc'[a] \in Working =>
           pc[a] \in Working /\ op'[a] = op[a]
  PROVE  /\ Workers' \in [Ops -> SUBSET Appliers]
         /\ \A o \in Ops : Workers'[o] \subseteq Workers[o]
BY DEF Workers, WorksOn

LEMMA UpdateAt ==
  ASSUME NEW S, NEW T, NEW f \in [S -> T], NEW g \in [S -> T], NEW x \in S,
         \A y \in S \ {x} : g[y] = f[y]
  PROVE  g = [f EXCEPT ![x] = g[x]]
OBVIOUS

LEMMA ClaimAcquires ==
  ASSUME TypeOK, LeaseInv, NEW a \in Appliers, NEW o \in Ops, ClaimWon(a, o)
  PROVE  Workers[o] = {} /\ Workers' = [Workers EXCEPT ![o] = {a}]
<1>1. \A b \in Appliers : ~WorksOn(b, o)
  BY DEF LeaseInv, TypeOK, OpTypeOK, ApplierTypeOK, Working, ClaimWon,
     Claimable, FirstStep, WorksOn
<1>2. \A b \in Appliers : WorksOn(b, o)' <=> b = a
  BY <1>1 DEF LeaseInv, TypeOK, OpTypeOK, ApplierTypeOK, Working, ClaimWon,
     Claimable, FirstStep, WorksOn
<1>3. \A p \in Ops \ {o}, b \in Appliers : WorksOn(b, p)' <=> WorksOn(b, p)
  BY DEF LeaseInv, TypeOK, OpTypeOK, ApplierTypeOK, Working, ClaimWon,
     Claimable, FirstStep, WorksOn
<1>4. Workers[o] = {} /\ Workers'[o] = {a}
  BY <1>1, <1>2 DEF Workers
<1>5. \A p \in Ops \ {o} : Workers'[p] = Workers[p]
  BY <1>3 DEF Workers
<1>6. /\ Workers \in [Ops -> SUBSET Appliers]
      /\ Workers' \in [Ops -> SUBSET Appliers]
  BY DEF Workers
<1>7. Workers' = [Workers EXCEPT ![o] = Workers'[o]]
  BY <1>5, <1>6, UpdateAt
<1> QED BY <1>4, <1>7

LEMMA OwnerStep ==
  ASSUME TypeOK, LeaseInv, [Next]_vars
  PROVE  [Owned!OwnershipNext]_Workers
<1> DEFINE Begins == \E a \in Appliers, o \in Ops : ClaimWon(a, o)
           Quiet == \A a \in Appliers : pc'[a] \in Working =>
                      pc[a] \in Working /\ op'[a] = op[a]
<1>a. CASE Begins
  BY <1>a, ClaimAcquires DEF Owned!OwnershipNext, Owned!Acquire, Workers
<1>b. CASE ~Begins
  <2> USE DEF TypeOK, ApplierTypeOK, Working

  <2>1. ASSUME NEW j \in Jobs, Complete(j) PROVE Quiet
  BY <2>1 DEF Complete
  <2>2. ASSUME NEW j \in Jobs, LockExpires(j) PROVE Quiet
  BY <2>2 DEF LockExpires
  <2>3. ASSUME NEW o \in Ops, LeaseExpires(o) PROVE Quiet
  BY <2>3 DEF LeaseExpires
  <2>4. ASSUME NEW a \in Handlers, NEW j \in Jobs, HandlerClaims(a, j)
        PROVE  Quiet
  BY <2>4 DEF HandlerClaims, TakeRows
  <2>5. ASSUME NEW a \in Processors, ProcessorClaims(a) PROVE Quiet
  BY <2>5 DEF ProcessorClaims, TakeRows
  <2>6. ASSUME NEW a \in Appliers, NEW j \in Jobs, ApplyStart(a, j) PROVE Quiet
  BY <2>6 DEF ApplyStart
  <2>7. ASSUME NEW a \in Appliers, NEW o \in Ops, ClaimWon(a, o) PROVE Quiet
    BY <1>b, <2>7
  <2>8. ASSUME NEW a \in Appliers, NEW o \in Ops, ClaimLost(a, o) PROVE Quiet
  BY <2>8 DEF ClaimLost
  <2>9. ASSUME NEW a \in Appliers, ReadBackMatches(a) PROVE Quiet
  BY <2>9 DEF ReadBackMatches, Mark, GoTo, PutDown
  <2>10. ASSUME NEW a \in Appliers, ReadBackDiffers(a) PROVE Quiet
  BY <2>10 DEF ReadBackDiffers, Mark, GoTo
  <2>11. ASSUME NEW a \in Appliers, AnnounceMutation(a) PROVE Quiet
  BY <2>11 DEF AnnounceMutation, Mark, GoTo
  <2>12. ASSUME NEW a \in Appliers, MutateSkips(a) PROVE Quiet
  BY <2>12 DEF MutateSkips, GoTo
  <2>13. ASSUME NEW a \in Appliers, MutateProceeds(a) PROVE Quiet
  BY <2>13 DEF MutateProceeds, GoTo
  <2>14. ASSUME NEW a \in Appliers, MutateCalls(a) PROVE Quiet
  BY <2>14 DEF MutateCalls, GoTo
  <2>15. ASSUME NEW a \in Appliers, RecordApplied(a) PROVE Quiet
  BY <2>15 DEF RecordApplied, Mark, GoTo, PutDown
  <2>16. ASSUME NEW a \in Appliers, RecordSkipped(a) PROVE Quiet
  BY <2>16 DEF RecordSkipped, Mark, GoTo
  <2>17. ASSUME NEW a \in Appliers, Settle(a) PROVE Quiet
  BY <2>17 DEF Settle, GoTo, PutDown
  <2>18. ASSUME NEW a \in Appliers, RecordRetryable(a) PROVE Quiet
  BY <2>18 DEF RecordRetryable, Mark, GoTo, PutDown
  <2>19. ASSUME NEW a \in Appliers, ApplyDone(a) PROVE Quiet
  BY <2>19 DEF ApplyDone, LeaveJob, PutDown
  <2>20. ASSUME NEW a \in Appliers, ApplyThrows(a) PROVE Quiet
  BY <2>20 DEF ApplyThrows, LeaveJob, PutDown
  <2>21. ASSUME Restart PROVE Quiet
  BY <2>21 DEF Restart
  <2>22. ASSUME UNCHANGED vars PROVE Quiet
    BY <2>22
  <2>q. Quiet
    BY <2>1, <2>2, <2>3, <2>4, <2>5, <2>6, <2>7, <2>8, <2>9, <2>10, <2>11,
         <2>12, <2>13, <2>14, <2>15, <2>16, <2>17, <2>18, <2>19, <2>20, <2>21,
         <2>22 DEF Next, Applies, Claims, Looks, Mutates, Records
  <2> HIDE DEF Quiet
  <2> QED BY <2>q, NobodyBegins
         DEF Quiet, Owned!OwnershipNext, Owned!Release, Workers
<1> QED BY <1>a, <1>b

(* One applier at a time works on an operation: the operations implement   *)
(* Ownership.                                                              *)
THEOREM OneOwnerAtATime ==
  ASSUME ~Overrun
  PROVE  Spec => OneOwner
<1>1. Init => Owned!OwnershipInit
  BY WorkersInit DEF Owned!OwnershipInit, Workers
<1>2. TypeOK /\ LeaseInv /\ [Next]_vars => [Owned!OwnershipNext]_Workers
  BY OwnerStep
<1> QED BY <1>1, <1>2, LeaseHolds, PTL
       DEF Spec, OneOwner, Owned!OwnershipSpec, Workers

(* Who mutates without a look is the first to do so.                       *)
BlindInv ==
  /\ BlindCallIsFirst
  /\ \A a \in Appliers :
       pc[a] = "intent" /\ ~readBack[a] => mutateCount[op[a]] = 0

LEMMA BlindStep ==
  ASSUME TypeOK, CallInv, LeaseInv, BlindInv, [Next]_vars
  PROVE  BlindInv'
<1> USE DEF CallInv, CallIsOnRecord, LeaseInv, BlindInv, BlindCallIsFirst,
            TypeOK, OpTypeOK, ApplierTypeOK, Working
<1>1. ASSUME NEW j \in Jobs, Complete(j) PROVE BlindInv'
BY <1>1 DEF Complete
<1>2. ASSUME NEW j \in Jobs, LockExpires(j) PROVE BlindInv'
BY <1>2 DEF LockExpires
<1>3. ASSUME NEW o \in Ops, LeaseExpires(o) PROVE BlindInv'
BY <1>3 DEF LeaseExpires
<1>4. ASSUME NEW a \in Handlers, NEW j \in Jobs, HandlerClaims(a, j)
      PROVE  BlindInv'
BY <1>4 DEF HandlerClaims, TakeRows
<1>5. ASSUME NEW a \in Processors, ProcessorClaims(a) PROVE BlindInv'
BY <1>5 DEF ProcessorClaims, TakeRows
<1>6. ASSUME NEW a \in Appliers, NEW j \in Jobs, ApplyStart(a, j)
      PROVE  BlindInv'
BY <1>6 DEF ApplyStart
<1>7. ASSUME NEW a \in Appliers, NEW o \in Ops, ClaimWon(a, o) PROVE BlindInv'
BY <1>7 DEF ClaimWon, FirstStep, Claimable
<1>8. ASSUME NEW a \in Appliers, NEW o \in Ops, ClaimLost(a, o)
      PROVE  BlindInv'
BY <1>8 DEF ClaimLost
<1>9. ASSUME NEW a \in Appliers, ReadBackMatches(a) PROVE BlindInv'
BY <1>9 DEF ReadBackMatches, Mark, GoTo, PutDown
<1>10. ASSUME NEW a \in Appliers, ReadBackDiffers(a) PROVE BlindInv'
BY <1>10 DEF ReadBackDiffers, Mark, GoTo
<1>11. ASSUME NEW a \in Appliers, AnnounceMutation(a) PROVE BlindInv'
BY <1>11 DEF AnnounceMutation, Mark, GoTo
<1>12. ASSUME NEW a \in Appliers, MutateSkips(a) PROVE BlindInv'
BY <1>12 DEF MutateSkips, GoTo
<1>13. ASSUME NEW a \in Appliers, MutateProceeds(a) PROVE BlindInv'
BY <1>13 DEF MutateProceeds, GoTo
<1>14. ASSUME NEW a \in Appliers, MutateCalls(a) PROVE BlindInv'
BY <1>14 DEF MutateCalls, GoTo
<1>15. ASSUME NEW a \in Appliers, RecordApplied(a) PROVE BlindInv'
BY <1>15 DEF RecordApplied, Mark, GoTo, PutDown
<1>16. ASSUME NEW a \in Appliers, RecordSkipped(a) PROVE BlindInv'
BY <1>16 DEF RecordSkipped, Mark, GoTo
<1>17. ASSUME NEW a \in Appliers, Settle(a) PROVE BlindInv'
BY <1>17 DEF Settle, GoTo, PutDown
<1>18. ASSUME NEW a \in Appliers, RecordRetryable(a) PROVE BlindInv'
BY <1>18 DEF RecordRetryable, Mark, GoTo, PutDown
<1>19. ASSUME NEW a \in Appliers, ApplyDone(a) PROVE BlindInv'
BY <1>19 DEF ApplyDone, LeaveJob, PutDown
<1>20. ASSUME NEW a \in Appliers, ApplyThrows(a) PROVE BlindInv'
BY <1>20 DEF ApplyThrows, LeaveJob, PutDown
<1>21. CASE Restart
BY <1>21 DEF Restart
<1>22. CASE UNCHANGED vars
  BY <1>22
<1> QED BY <1>1, <1>2, <1>3, <1>4, <1>5, <1>6, <1>7, <1>8, <1>9, <1>10, <1>11,
       <1>12, <1>13, <1>14, <1>15, <1>16, <1>17, <1>18, <1>19, <1>20, <1>21,
       <1>22 DEF Next, Applies, Claims, Looks, Mutates, Records

(* A mutation that nobody looked before is the first of its operation.     *)
THEOREM BlindCallsAreFirst ==
  ASSUME ~Overrun
  PROVE  Spec => []BlindCallIsFirst
<1>1. Init => CallInv /\ BlindInv
  BY RecordInit DEF RecordInv, Init, BlindInv, BlindCallIsFirst
<1>2. TypeOK /\ LeaseInv /\ CallInv /\ BlindInv /\ [Next]_vars
        => CallInv' /\ BlindInv'
  BY CallStep, BlindStep
<1>3. BlindInv => BlindCallIsFirst
  BY DEF BlindInv
<1> QED BY <1>1, <1>2, <1>3, LeaseHolds, PTL DEF Spec

=============================================================================
