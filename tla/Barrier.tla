------------------------------- MODULE Barrier -------------------------------
(***************************************************************************)
(* core::sync Barrier (stdlib/core/sync.ux): wait() reads the generation,  *)
(* counts itself in, and either (the last one) resets the count and bumps  *)
(* the generation or polls until the generation changes.  The barrier is   *)
(* used by exactly `total` threads, over and over.  Each atomic access is  *)
(* one step.                                                               *)
(***************************************************************************)
EXTENDS Naturals, FiniteSets, SyncThreads

CONSTANT Rounds      \* calls of wait() per thread; bounds the model

total == Cardinality(Threads)

VARIABLES arrived, generation,   \* the two atomic words
          barrierPc,
          gen,        \* local `gen` of wait()
          entered,    \* how often each thread has been counted in
          done,       \* how often wait() has returned to it
          leads       \* which of its calls returned TRUE

barrierVars == <<arrived, generation, barrierPc, gen, entered, done, leads>>

BarrierInit == /\ arrived = 0
               /\ generation = 0
               /\ barrierPc = [t \in Threads |-> "out"]
               /\ gen = [t \in Threads |-> 0]
               /\ entered = [t \in Threads |-> 0]
               /\ done = [t \in Threads |-> 0]
               /\ leads = [t \in Threads |-> {}]

(* A plausible slip: the count is compared before this thread is added.     *)
ArriveOffByOne(t) ==
    /\ barrierPc[t] = "arrive"
    /\ arrived' = arrived + 1
    /\ entered' = [entered EXCEPT ![t] = @ + 1]
    /\ barrierPc' = [barrierPc EXCEPT ![t] = IF arrived >= total THEN "last" ELSE "poll"]
    /\ UNCHANGED <<generation, gen, done, leads>>

(* A plausible slip: the threshold is one short.                            *)
ArriveShort(t) ==
    /\ barrierPc[t] = "arrive"
    /\ arrived' = arrived + 1
    /\ entered' = [entered EXCEPT ![t] = @ + 1]
    /\ barrierPc' = [barrierPc EXCEPT ![t] = IF arrived + 2 >= total THEN "last" ELSE "poll"]
    /\ UNCHANGED <<generation, gen, done, leads>>

(* gen = generation.load().                                                 *)
LoadGen(t) == /\ barrierPc[t] = "out"
              /\ entered[t] < Rounds
              /\ gen' = [gen EXCEPT ![t] = generation]
              /\ barrierPc' = [barrierPc EXCEPT ![t] = "arrive"]
              /\ UNCHANGED <<arrived, generation, entered, done, leads>>

(* n = arrived.fetch_add(1) + 1; n >= total elects the last thread.         *)
Arrive(t) == /\ barrierPc[t] = "arrive"
             /\ arrived' = arrived + 1
             /\ entered' = [entered EXCEPT ![t] = @ + 1]
             /\ barrierPc' = [barrierPc EXCEPT ![t] = IF arrived + 1 >= total THEN "last" ELSE "poll"]
             /\ UNCHANGED <<generation, gen, done, leads>>

(* arrived.store_relaxed(0); the compiler fence and the release of the next *)
(* access keep it first.                                                    *)
ResetCount(t) == /\ barrierPc[t] = "last"
                 /\ arrived' = 0
                 /\ barrierPc' = [barrierPc EXCEPT ![t] = "bump"]
                 /\ UNCHANGED <<generation, gen, entered, done, leads>>

(* generation.fetch_add(1); return true.                                    *)
Bump(t) == /\ barrierPc[t] = "bump"
           /\ generation' = generation + 1
           /\ done' = [done EXCEPT ![t] = @ + 1]
           /\ leads' = [leads EXCEPT ![t] = @ \cup {done[t] + 1}]
           /\ barrierPc' = [barrierPc EXCEPT ![t] = "out"]
           /\ UNCHANGED <<arrived, gen, entered>>

(* The poll that sees another generation; return false.                     *)
PollExit(t) == /\ barrierPc[t] = "poll"
               /\ generation # gen[t]
               /\ done' = [done EXCEPT ![t] = @ + 1]
               /\ barrierPc' = [barrierPc EXCEPT ![t] = "out"]
               /\ UNCHANGED <<arrived, generation, gen, entered, leads>>

BarrierNext == \E t \in Threads : \/ LoadGen(t) \/ Arrive(t) \/ ResetCount(t)
                                  \/ Bump(t) \/ PollExit(t)

(* Every thread keeps calling wait() and keeps running inside it.           *)
BarrierFairness == \A t \in Threads :
    WF_barrierVars(LoadGen(t) \/ Arrive(t) \/ ResetCount(t) \/ Bump(t) \/ PollExit(t))

BarrierSpec == BarrierInit /\ [][BarrierNext]_barrierVars /\ BarrierFairness
-----------------------------------------------------------------------------
(* Nobody leaves early: when wait() has returned k times to some thread,    *)
(* every thread has been counted in k times.                                *)
NobodyLeavesEarly == \A s, t \in Threads : done[s] <= entered[t]

(* Exactly one thread of a round is told TRUE: leaders are never two at     *)
(* once, the others of the round are all parked on its generation, and of   *)
(* the n-th calls exactly one returned TRUE, for every generation n passed. *)
OneLeader ==
    /\ \A s, t \in Threads : barrierPc[s] \in {"last", "bump"} /\ barrierPc[t] \in {"last", "bump"} => s = t
    /\ \A s \in Threads : barrierPc[s] = "last" =>
          \A t \in Threads : t # s => barrierPc[t] = "poll" /\ gen[t] = generation
    /\ \A n \in 1 .. generation : \E t \in Threads : n \in leads[t]
    /\ \A s, t \in Threads : s # t => leads[s] \cap leads[t] = {}

(* wait() goes round by round, even while a fast thread is back in it       *)
(* before the slow ones have left.                                          *)
RoundByRound == NobodyLeavesEarly /\ OneLeader

(* The inductive invariant behind it: a thread is in the round of the       *)
(* present generation, except for pollers of the round before that have not *)
(* seen it end, and arrived counts those of this round, until the leader    *)
(* resets it.                                                               *)
BarrierTypeOK == /\ arrived \in Nat /\ generation \in Nat
                 /\ barrierPc \in [Threads -> {"out", "arrive", "poll", "last", "bump"}]
                 /\ gen \in [Threads -> Nat] /\ entered \in [Threads -> Nat] /\ done \in [Threads -> Nat]
                 /\ leads \in [Threads -> SUBSET (1 .. generation)]
Leading(t) == barrierPc[t] \in {"last", "bump"}
Parked(t) == barrierPc[t] = "poll" /\ gen[t] = generation
Counted == {t \in Threads : Parked(t) \/ Leading(t)}
RoundOf(t) ==
    CASE barrierPc[t] = "out"    -> entered[t] = generation /\ done[t] = generation
      [] barrierPc[t] = "arrive" -> entered[t] = generation /\ done[t] = generation /\ gen[t] = generation
      [] t \in Counted    -> entered[t] = generation + 1 /\ done[t] = generation /\ gen[t] = generation
      [] OTHER            -> entered[t] = generation /\ done[t] + 1 = generation /\ gen[t] + 1 = generation
BarrierInv ==
    /\ BarrierTypeOK
    /\ \A t \in Threads : RoundOf(t)
    /\ \A s, t \in Threads : Leading(s) /\ s # t => Parked(t)
    /\ arrived = IF \E t \in Threads : barrierPc[t] = "bump" THEN 0 ELSE Cardinality(Counted)
    /\ \A n \in 1 .. generation : \E t \in Threads : n \in leads[t]
    /\ \A s, t \in Threads : s # t => leads[s] \cap leads[t] = {}

(* Every call returns: the last arrival releases every poller of its round, *)
(* over and over, until each thread has made all its calls.                 *)
EveryWaitReturns == <>(\A t \in Threads : done[t] = Rounds)
=============================================================================
