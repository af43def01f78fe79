-------------------------------- MODULE Once --------------------------------
(***************************************************************************)
(* core::sync Once (stdlib/core/sync.ux): an AtomicU8 that is 0 (fresh),   *)
(* 1 (started) or 2 (done), driven by the client protocol it exists for:   *)
(* a thread that finds is_done() uses the value; the thread whose          *)
(* try_start() succeeds initializes it and calls mark_done(); the others   *)
(* poll is_done().  reset() is called when no thread is inside the         *)
(* protocol: the code does not check this, its `mutref Self` receiver      *)
(* asks for it.                                                            *)
(***************************************************************************)
EXTENDS Naturals, FiniteSets, SyncThreads

CONSTANT MaxEpochs    \* resets + 1; bounds the model

VARIABLES onceState,       \* the flag
          oncePc,
          value,       \* epoch whose initializer last wrote the value, 0 none
          epoch        \* 1 + number of resets

onceVars == <<onceState, oncePc, value, epoch>>

OnceInit == /\ onceState = 0
            /\ oncePc = [t \in Threads |-> "idle"]
            /\ value = 0
            /\ epoch = 1

(* A plausible slip: try_start() as a load and a store.                     *)
TryStartBlind(t) ==
    /\ oncePc[t] \in {"idle", "waiting"}
    /\ onceState # 2
    /\ onceState' = 1
    /\ oncePc' = [oncePc EXCEPT ![t] = "starting"]
    /\ UNCHANGED <<value, epoch>>

(* A plausible slip: mark_done() puts the flag back to "started".           *)
MarkDoneStuck(t) ==
    /\ oncePc[t] = "written"
    /\ onceState' = 1
    /\ oncePc' = [oncePc EXCEPT ![t] = "using"]
    /\ UNCHANGED <<value, epoch>>

(* is_done(): state.load() == 2 lets the thread use the value.              *)
IsDone(t) == /\ oncePc[t] \in {"idle", "waiting"}
             /\ onceState = 2
             /\ oncePc' = [oncePc EXCEPT ![t] = "using"]
             /\ UNCHANGED <<onceState, value, epoch>>

(* try_start(): compare_exchange(0, 1); a loser waits.                      *)
TryStart(t) == /\ oncePc[t] = "idle"
               /\ \/ /\ onceState = 0
                     /\ onceState' = 1
                     /\ oncePc' = [oncePc EXCEPT ![t] = "starting"]
                  \/ /\ onceState # 0
                     /\ oncePc' = [oncePc EXCEPT ![t] = "waiting"]
                     /\ UNCHANGED onceState
               /\ UNCHANGED <<value, epoch>>

(* The client's initializer.                                                *)
Initialize(t) == /\ oncePc[t] = "starting"
                 /\ value' = epoch
                 /\ oncePc' = [oncePc EXCEPT ![t] = "written"]
                 /\ UNCHANGED <<onceState, epoch>>

(* mark_done(): state.store(2).                                             *)
MarkDone(t) == /\ oncePc[t] = "written"
               /\ onceState' = 2
               /\ oncePc' = [oncePc EXCEPT ![t] = "using"]
               /\ UNCHANGED <<value, epoch>>

Leave(t) == /\ oncePc[t] = "using"
            /\ oncePc' = [oncePc EXCEPT ![t] = "idle"]
            /\ UNCHANGED <<onceState, value, epoch>>

(* reset(): state.store_relaxed(0), outside the protocol.                   *)
Reset == /\ \A t \in Threads : oncePc[t] = "idle"
         /\ epoch < MaxEpochs
         /\ onceState' = 0
         /\ epoch' = epoch + 1
         /\ UNCHANGED <<oncePc, value>>

OnceNext == \/ \E t \in Threads : \/ IsDone(t) \/ TryStart(t) \/ Initialize(t)
                                  \/ MarkDone(t) \/ Leave(t)
            \/ Reset

OnceFairness == \A t \in Threads : /\ WF_onceVars(oncePc[t] = "waiting" /\ IsDone(t))
                                   /\ WF_onceVars(Initialize(t))
                                   /\ WF_onceVars(MarkDone(t))

OnceSpec == OnceInit /\ [][OnceNext]_onceVars /\ OnceFairness
-----------------------------------------------------------------------------
Starters == {t \in Threads : oncePc[t] \in {"starting", "written"}}

(* One-time initialization: the initializer runs in at most one thread, and *)
(* only while the flag says "started"; a thread uses the value only after   *)
(* the initializer of this very epoch wrote it and the flag said "done".    *)
OneTime == /\ \A s, t \in Starters : s = t
           /\ Starters # {} => onceState = 1
           /\ \A t \in Threads : oncePc[t] = "using" => onceState = 2 /\ value = epoch

(* The inductive invariant behind it: the value is of this epoch from the   *)
(* initializer's write on, and a fresh flag means that nobody is inside.    *)
OnceTypeOK == /\ onceState \in 0 .. 2
              /\ oncePc \in [Threads -> {"idle", "waiting", "starting", "written", "using"}]
              /\ value \in Nat /\ epoch \in Nat
OnceInv == /\ OnceTypeOK
           /\ OneTime
           /\ \A t \in Threads : oncePc[t] = "written" => value = epoch
           /\ onceState = 2 => value = epoch
           /\ onceState = 0 => \A t \in Threads : oncePc[t] = "idle"

(* Nobody waits for ever: the winner's mark_done() releases every loser.    *)
WaitersReleased == \A t \in Threads : oncePc[t] = "waiting" ~> oncePc[t] = "using"
=============================================================================
