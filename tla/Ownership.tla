----------------------------- MODULE Ownership -----------------------------
(***************************************************************************)
(* What a leased row promises: at most one client works on an item at a    *)
(* time.  A client acquires an item nobody works on; any set of clients    *)
(* may stop working at once (a crash ends all the clients of a process).   *)
(***************************************************************************)
CONSTANTS Items, Clients

VARIABLE workers     \* workers[i]: the clients at work on item i

OwnershipInit == workers = [i \in Items |-> {}]

Acquire(i, c) ==
  /\ workers[i] = {}
  /\ workers' = [workers EXCEPT ![i] = {c}]

Release ==
  /\ workers' \in [Items -> SUBSET Clients]
  /\ \A i \in Items : workers'[i] \subseteq workers[i]

OwnershipNext == Release \/ \E i \in Items, c \in Clients : Acquire(i, c)

OwnershipSpec == OwnershipInit /\ [][OwnershipNext]_workers
=============================================================================
