------------------------------- MODULE MCSync -------------------------------
(***************************************************************************)
(* The primitives of core::sync for TLC.  A behaviour uses one of them,    *)
(* named by `use`; the threads of the others are off, or idle.             *)
(***************************************************************************)
EXTENDS TicketSpinLock, SpinLock, RwSpinLock, Once, Barrier

ASSUME SyncAssumption == /\ IsFiniteSet(Threads)
                         /\ {SpinLimit, MaxTickets, MaxEpochs, Rounds} \subseteq Nat \ {0}

VARIABLE use
syncVars == <<use, vars, spinVars, rwVars, onceVars, barrierVars>>
-----------------------------------------------------------------------------
Off  == [t \in Threads |-> "off"]
Zero == [t \in Threads |-> 0]
RwZero == [t \in Readers \cup Writers |-> 0]
SpinOff    == spinPc = Off /\ spinState = 0 /\ spins = Zero
RwOff      == /\ rwPc = [t \in Readers \cup Writers |-> "off"]
              /\ rwState = 0 /\ rwCur = RwZero /\ blocking = RwZero /\ lost = FALSE
OnceOff    == oncePc = Off /\ onceState = 0 /\ value = 0 /\ epoch = 0
BarrierOff == /\ barrierPc = Off /\ arrived = 0 /\ generation = 0 /\ gen = Zero
              /\ entered = Zero /\ done = Zero
              /\ leads = [t \in Threads |-> {}]

SyncInit ==
    /\ Init
    /\ \/ use = "TicketSpinLock" /\ SpinOff /\ RwOff /\ OnceOff /\ BarrierOff
       \/ use = "SpinLock" /\ SpinInit /\ RwOff /\ OnceOff /\ BarrierOff
       \/ use = "RwSpinLock" /\ RwInit /\ SpinOff /\ OnceOff /\ BarrierOff
       \/ use = "Once" /\ OnceInit /\ SpinOff /\ RwOff /\ BarrierOff
       \/ use = "Barrier" /\ BarrierInit /\ SpinOff /\ RwOff /\ OnceOff

SyncNext ==
    \/ use = "TicketSpinLock" /\ Next /\ UNCHANGED <<use, spinVars, rwVars, onceVars, barrierVars>>
    \/ SpinNext /\ UNCHANGED <<use, vars, rwVars, onceVars, barrierVars>>
    \/ RwNext /\ UNCHANGED <<use, vars, spinVars, onceVars, barrierVars>>
    \/ OnceNext /\ UNCHANGED <<use, vars, spinVars, rwVars, barrierVars>>
    \/ BarrierNext /\ UNCHANGED <<use, vars, spinVars, rwVars, onceVars>>

SyncSpec == /\ SyncInit /\ [][SyncNext]_syncVars
            /\ Fairness /\ SpinFairness /\ RwFairness /\ OnceFairness /\ BarrierFairness
-----------------------------------------------------------------------------
(* The properties are those of the modules.  Barrier: every wait() returns  *)
(* in the behaviours that use it.                                           *)
BarrierWaitsReturn == use = "Barrier" => EveryWaitReturns
=============================================================================
