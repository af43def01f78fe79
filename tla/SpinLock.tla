------------------------------ MODULE SpinLock ------------------------------
(***************************************************************************)
(* core::sync SpinLock (stdlib/core/sync.ux).  One AtomicU64 word, 0 free  *)
(* and 1 taken.  lock() is a loop around try_lock(), whose only shared     *)
(* access is one compare-exchange; unlock() is one store of 0.  Every      *)
(* atomic operation is one step, so threads interleave between any two.    *)
(***************************************************************************)
EXTENDS Naturals, SyncThreads

CONSTANT SpinLimit   \* the spin counter's period (100 in the code)

VARIABLES spinState,      \* the lock word
          spinPc,         \* where each thread is in the API
          spins       \* the local spin counter of lock()

spinVars == <<spinState, spinPc, spins>>

SpinInit == /\ spinState = 0
            /\ spinPc = [t \in Threads |-> "idle"]
            /\ spins = [t \in Threads |-> 0]

(* A plausible slip: the loop leaves as if the exchange had succeeded when  *)
(* the spin counter wraps.                                                  *)
SpinGivesUp(t) ==
    /\ spinPc[t] = "locking"
    /\ spinState # 0
    /\ spins' = [spins EXCEPT ![t] = (@ + 1) % SpinLimit]
    /\ spinPc' = IF spins'[t] = 0 THEN [spinPc EXCEPT ![t] = "held"] ELSE spinPc
    /\ UNCHANGED spinState

(* A plausible slip: unlock() returns without the store.                    *)
UnlockForgets(t) ==
    /\ spinPc[t] = "held"
    /\ spinPc' = [spinPc EXCEPT ![t] = "idle"]
    /\ UNCHANGED <<spinState, spins>>

(* lock() is called.                                                        *)
Lock(t) == /\ spinPc[t] = "idle"
           /\ spinPc' = [spinPc EXCEPT ![t] = "locking"]
           /\ spins' = [spins EXCEPT ![t] = 0]
           /\ UNCHANGED spinState

(* compare_exchange(0 -> 1) succeeds: inside lock()'s loop, or as a single  *)
(* try_lock().  A try_lock() that fails changes nothing.                    *)
TryLock(t) == /\ spinPc[t] \in {"idle", "locking"}
              /\ spinState = 0
              /\ spinState' = 1
              /\ spinPc' = [spinPc EXCEPT ![t] = "held"]
              /\ UNCHANGED spins

(* The exchange fails inside lock(): one more trip round the loop.          *)
Spin(t) == /\ spinPc[t] = "locking"
           /\ spinState # 0
           /\ spins' = [spins EXCEPT ![t] = (@ + 1) % SpinLimit]
           /\ UNCHANGED <<spinState, spinPc>>

Unlock(t) == /\ spinPc[t] = "held"
             /\ spinState' = 0
             /\ spinPc' = [spinPc EXCEPT ![t] = "idle"]
             /\ UNCHANGED spins

SpinNext == \E t \in Threads : Lock(t) \/ TryLock(t) \/ Spin(t) \/ Unlock(t)

(* A thread inside lock() keeps running, and a holder leaves its critical   *)
(* section; nobody is obliged to call lock() or try_lock().                 *)
SpinFairness == \A t \in Threads :
               /\ WF_spinVars(spinPc[t] = "locking" /\ (TryLock(t) \/ Spin(t)))
               /\ WF_spinVars(Unlock(t))

SpinSpec == SpinInit /\ [][SpinNext]_spinVars /\ SpinFairness
-----------------------------------------------------------------------------
(* Types: the lock word is 0 or 1, spins never reaches the limit.           *)
SpinTypeOK == /\ spinState \in {0, 1}
              /\ spinPc \in [Threads -> {"idle", "locking", "held"}]
              /\ spins \in [Threads -> 0 .. SpinLimit - 1]

(* SpinLock implements the abstract lock: the threads between a successful  *)
(* compare-exchange and the unlock store are its holders.                   *)
SpinHolders == {t \in Threads : spinPc[t] = "held"}

(* The inductive invariant behind it: the word is 1 exactly while somebody  *)
(* holds the lock, and never for two.                                       *)
SpinInv == /\ SpinTypeOK
           /\ spinState = 0 <=> SpinHolders = {}
           /\ \A s, t \in SpinHolders : s = t

SpinMutex == INSTANCE Mutex WITH holders <- SpinHolders
SpinImplementsMutex == SpinMutex!Spec

(* The lock never wedges: whenever some thread is inside lock(), the lock   *)
(* is (again) taken later, by that thread or another.  A store lost by      *)
(* unlock() would leave every later lock() spinning for ever.               *)
NeverWedged == (\E t \in Threads : spinPc[t] = "locking") ~> (SpinHolders # {})
=============================================================================
