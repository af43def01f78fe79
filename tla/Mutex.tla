------------------------------- MODULE Mutex -------------------------------
(***************************************************************************)
(* What a mutual-exclusion lock promises, independently of how it is       *)
(* built: a thread acquires it only when nobody has it, and only its       *)
(* holder releases it.  SpinLock and TicketSpinLock of core::sync are      *)
(* checked to implement this specification.                                *)
(***************************************************************************)
CONSTANT Threads

VARIABLE holders   \* the threads inside their critical section

Init == holders = {}

Acquire(t) == holders = {} /\ holders' = {t}

Release(t) == holders = {t} /\ holders' = {}

Next == \E t \in Threads : Acquire(t) \/ Release(t)

Spec == Init /\ [][Next]_holders
=============================================================================
