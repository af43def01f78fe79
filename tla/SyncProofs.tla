----------------------------- MODULE SyncProofs -----------------------------
(***************************************************************************)
(* Once and Barrier of core::sync, for every set of threads, every number  *)
(* of resets and every number of rounds.                                   *)
(***************************************************************************)
EXTENDS Once, Barrier, FiniteSetTheorems, TLAPS
-----------------------------------------------------------------------------
(* Every step of the client protocol around Once keeps the flag, the value  *)
(* and the threads inside in agreement.                                     *)
LEMMA OnceInvInductive == OnceInv /\ [OnceNext]_(onceVars) => OnceInv'
<1> USE DEF OnceTypeOK, OneTime, Starters
<1> SUFFICES ASSUME OnceInv, [OnceNext]_(onceVars)
             PROVE  OnceInv'
  OBVIOUS
<1>1. ASSUME NEW t \in Threads, IsDone(t)
      PROVE  OnceInv'
  BY <1>1 DEF OnceInv, IsDone
<1>2. ASSUME NEW t \in Threads, TryStart(t)
      PROVE  OnceInv'
  BY <1>2 DEF OnceInv, TryStart
<1>3. ASSUME NEW t \in Threads, Initialize(t)
      PROVE  OnceInv'
  BY <1>3 DEF OnceInv, Initialize
<1>4. ASSUME NEW t \in Threads, MarkDone(t)
      PROVE  OnceInv'
  BY <1>4 DEF OnceInv, MarkDone
<1>5. ASSUME NEW t \in Threads, Leave(t)
      PROVE  OnceInv'
  BY <1>5 DEF OnceInv, Leave
<1>6. CASE Reset
  BY <1>6 DEF OnceInv, Reset
<1>7. CASE UNCHANGED onceVars
  BY <1>7 DEF OnceInv, onceVars
<1>8. QED
  BY <1>1, <1>2, <1>3, <1>4, <1>5, <1>6, <1>7 DEF OnceNext

(* Once: the initializer of an epoch runs in one thread, and a thread uses  *)
(* only a value that the initializer of this very epoch wrote.              *)
THEOREM OnceOneTime == OnceSpec => []OneTime
<1>1. OnceInit => OnceInv
  BY DEF OnceInit, OnceInv, OnceTypeOK, OneTime, Starters
<1>2. OnceInv => OneTime
  BY DEF OnceInv
<1>3. QED
  BY <1>1, <1>2, OnceInvInductive, PTL DEF OnceSpec
-----------------------------------------------------------------------------
(* Two facts of the round: the threads counted in are among the finitely    *)
(* many, and when all are, nobody is anywhere else.                         *)
LEMMA CountedFinite ==
    ASSUME IsFiniteSet(Threads)
    PROVE  /\ IsFiniteSet(Counted) /\ Cardinality(Counted) \in Nat
           /\ Cardinality(Counted) >= total => Counted = Threads
<1>1. Counted \in SUBSET Threads
  BY DEF Counted
<1>2. QED
  BY <1>1, FS_Subset, FS_CardinalityType DEF total

(* A step that changes neither who is counted nor who leads.                *)
LEMMA LoadGenKeepsInv ==
    ASSUME IsFiniteSet(Threads), BarrierInv, NEW t \in Threads, LoadGen(t)
    PROVE  BarrierInv'
<1> USE DEF BarrierTypeOK, Leading, Parked, RoundOf
<1>1. Counted' = Counted
  BY DEF BarrierInv, LoadGen, Counted
<1>2. \A s \in Threads : RoundOf(s)'
  BY <1>1 DEF BarrierInv, LoadGen, Counted
<1>3. QED
  BY <1>1, <1>2 DEF BarrierInv, LoadGen

(* fetch_add counts the thread in; the last one of the round leads it.      *)
LEMMA ArriveKeepsInv ==
    ASSUME IsFiniteSet(Threads), BarrierInv, NEW t \in Threads, Arrive(t)
    PROVE  BarrierInv'
<1> USE DEF BarrierTypeOK, Leading, Parked, RoundOf
<1>1. \A s \in Threads : ~Leading(s)
  BY DEF BarrierInv, Arrive
<1>2. t \notin Counted /\ Counted' = Counted \cup {t}
  BY <1>1 DEF BarrierInv, Arrive, Counted
<1>3. Cardinality(Counted') = Cardinality(Counted) + 1 /\ arrived = Cardinality(Counted)
  BY <1>1, <1>2, CountedFinite, FS_AddElement DEF BarrierInv
<1>4. ASSUME arrived + 1 >= total, NEW s \in Threads, s # t
      PROVE  Parked(s)
  <2>1. Counted \cup {t} \in SUBSET Threads
    BY DEF Counted
  <2>2. Cardinality(Threads) <= Cardinality(Counted \cup {t})
    BY <1>2, <1>3, <1>4 DEF total
  <2>3. Counted \cup {t} = Threads
    BY <2>1, <2>2, FS_Subset, FS_CardinalityType
  <2>4. QED
    BY <1>1, <1>4, <2>3 DEF Counted
<1>5. \A s \in Threads : RoundOf(s)'
  BY <1>1, <1>2 DEF BarrierInv, Arrive, Counted
<1>6. \A r, s \in Threads : Leading(r)' /\ r # s => Parked(s)'
  BY <1>1, <1>4 DEF BarrierInv, Arrive
<1>7. QED
  BY <1>1, <1>3, <1>5, <1>6 DEF BarrierInv, Arrive

(* The leader stores 0 before it bumps the generation.                      *)
LEMMA ResetCountKeepsInv ==
    ASSUME IsFiniteSet(Threads), BarrierInv, NEW t \in Threads, ResetCount(t)
    PROVE  BarrierInv'
<1> USE DEF BarrierTypeOK, Leading, Parked, RoundOf
<1>1. Counted' = Counted
  BY DEF BarrierInv, ResetCount, Counted
<1>2. \A s \in Threads : RoundOf(s)'
  BY <1>1 DEF BarrierInv, ResetCount, Counted
<1>3. QED
  BY <1>1, <1>2 DEF BarrierInv, ResetCount

(* The bump of the generation ends the round of all of them at once.        *)
LEMMA BumpKeepsInv ==
    ASSUME IsFiniteSet(Threads), BarrierInv, NEW t \in Threads, Bump(t)
    PROVE  BarrierInv'
<1> USE DEF BarrierTypeOK, Leading, Parked, RoundOf
<1>1. /\ done[t] = generation /\ entered[t] = generation + 1
      /\ \A s \in Threads : s # t => Parked(s)
  BY DEF BarrierInv, Bump, Counted
<1>2. \A s \in Threads : ~Leading(s)' /\ ~Parked(s)'
  BY <1>1 DEF BarrierInv, Bump
<1>3. Counted' = {} /\ arrived = 0
  BY <1>2 DEF BarrierInv, Bump, Counted
<1>4. \A s \in Threads : RoundOf(s)'
  BY <1>1, <1>3 DEF BarrierInv, Bump, Counted
<1>5. /\ leads' \in [Threads -> SUBSET (1 .. generation')]
      /\ \A n \in 1 .. generation' : \E s \in Threads : n \in leads'[s]
      /\ \A r, s \in Threads : r # s => leads'[r] \cap leads'[s] = {}
  BY <1>1 DEF BarrierInv, Bump
<1>6. QED
  BY <1>1, <1>2, <1>3, <1>4, <1>5, FS_EmptySet DEF BarrierInv, Bump

(* A poller that leaves was not of the present round.                       *)
LEMMA PollExitKeepsInv ==
    ASSUME IsFiniteSet(Threads), BarrierInv, NEW t \in Threads, PollExit(t)
    PROVE  BarrierInv'
<1> USE DEF BarrierTypeOK, Leading, Parked, RoundOf
<1>1. Counted' = Counted
  BY DEF BarrierInv, PollExit, Counted
<1>2. \A s \in Threads : RoundOf(s)'
  BY <1>1 DEF BarrierInv, PollExit, Counted
<1>3. QED
  BY <1>1, <1>2 DEF BarrierInv, PollExit

(* Barrier: nobody leaves a round before everybody was counted into it, and *)
(* each round has exactly one leader, for every finite set of threads and   *)
(* however a fast thread overtakes the slow ones.                           *)
THEOREM BarrierRoundByRound == ASSUME IsFiniteSet(Threads)
                               PROVE  BarrierSpec => []RoundByRound
<1>1. BarrierInit => BarrierInv
  <2> SUFFICES ASSUME BarrierInit PROVE BarrierInv
    OBVIOUS
  <2>1. Counted = {}
    BY DEF BarrierInit, Counted, Parked, Leading
  <2>2. QED
    BY <2>1, FS_EmptySet DEF BarrierInit, BarrierInv, BarrierTypeOK, Leading, Parked, RoundOf
<1>2. BarrierInv /\ [BarrierNext]_barrierVars => BarrierInv'
  <2>1. BarrierInv /\ UNCHANGED barrierVars => BarrierInv'
    BY DEF barrierVars, BarrierInv, BarrierTypeOK, Leading, Parked, RoundOf, Counted
  <2>2. QED
    BY <2>1, LoadGenKeepsInv, ArriveKeepsInv, ResetCountKeepsInv, BumpKeepsInv, PollExitKeepsInv DEF BarrierNext
<1>3. BarrierInv => RoundByRound
  <2> SUFFICES ASSUME BarrierInv PROVE RoundByRound
    OBVIOUS
  <2>1. \A t \in Threads : done[t] <= generation /\ generation <= entered[t]
    BY DEF BarrierInv, BarrierTypeOK, RoundOf
  <2>2. NobodyLeavesEarly
    BY <2>1 DEF NobodyLeavesEarly, BarrierInv, BarrierTypeOK
  <2>3. OneLeader
    BY DEF OneLeader, BarrierInv, Leading, Parked
  <2>4. QED
    BY <2>2, <2>3 DEF RoundByRound
<1>4. QED
  BY <1>1, <1>2, <1>3, PTL DEF BarrierSpec
=============================================================================
