---------------------------- MODULE MCDirectList ----------------------------
(* DirectList for TLC.  Two workers with nothing going wrong; one with a   *)
(* fault and a manual act; one beside a publish command of a ready ASIN.   *)
EXTENDS DirectList

CONSTANTS w1, w2, x1

ThreeShifts ==
    {[workers |-> {w1, w2}, ready |-> {},   faults |-> 0, acts |-> 0],
     [workers |-> {w1},     ready |-> {},   faults |-> 1, acts |-> 1],
     [workers |-> {w1},     ready |-> {x1}, faults |-> 0, acts |-> 1]}
=============================================================================
