---------------------------- MODULE FutureProofs ----------------------------
(***************************************************************************)
(* Futures, for all async functions (recursive ones too) and for owners    *)
(* that poll and drop as they like: no poll or drop runs on a freed frame, *)
(* a suspended future holds an unfinished child, a body is run once, and   *)
(* only the children that failed when they were first polled are left.     *)
(***************************************************************************)
EXTENDS Futures, SequenceTheorems, WellFoundedInduction, TLAPS

FrameType == [fn : Callees, state : Int, made : Nat, kids : Seq(Nat)]
ActivationType == [f : Nat, pc : {"enter", "body", "await", "wait"}, at : Nat]
DropType == [f : Nat, pc : {"switch", "free"}]

TypeOK == /\ frames \in Seq(FrameType)
          /\ live \subseteq DOMAIN frames
          /\ stack \in Seq(ActivationType)
          /\ drops \in Seq(DropType)
          /\ rc \in {Nothing, Pending, Ready, Failed}
          /\ client \in {"owner", "blocked", "ok", "error", "gone"}
          /\ orphans \subseteq DOMAIN frames \ {1}
          /\ 1 \in DOMAIN frames

(* The child that frame f made last.                                        *)
Kid(f) == frames[f].kids[frames[f].made]

(* A frame is younger than its parent, and has one.                         *)
FrameOK(f) ==
    /\ Async(f) => /\ Len(frames[f].kids) = Len(Bodies[frames[f].fn])
                   /\ frames[f].made <= Len(frames[f].kids)
                   /\ frames[f].state \in {Completed, 0, frames[f].made}
                   /\ frames[f].state = Completed => frames[f].made = Len(frames[f].kids)
                   /\ \A n \in 1 .. frames[f].made : frames[f].kids[n] \in f + 1 .. Len(frames)
    /\ ~Async(f) => frames[f].kids = <<>> /\ frames[f].made = 0 /\ frames[f].state >= 0
OneParent == \A f, g \in DOMAIN frames : \A m \in 1 .. frames[f].made, n \in 1 .. frames[g].made :
                 frames[f].kids[m] = frames[g].kids[n] => f = g /\ m = n
TreeInv == (\A f \in DOMAIN frames : FrameOK(f)) /\ OneParent

(* The activations of poll follow the awaits from the root.                 *)
Awaiting(i) == stack[i].pc \in {"await", "wait"}
ActivationOK(i) ==
    /\ stack[i].f \in live
    /\ stack[i].pc = "body" => frames[stack[i].f].state = 0 /\ stack[i].at = frames[stack[i].f].made + 1
    /\ Awaiting(i) => /\ stack[i].at = frames[stack[i].f].made
                      /\ frames[stack[i].f].made > 0 /\ Kid(stack[i].f) \in live
    /\ stack[i].pc # "enter" => Async(stack[i].f)
    /\ i > 1 \/ stack[i].pc # "enter" => frames[stack[i].f].state # Completed
StackInv ==
    /\ \A i \in DOMAIN stack : ActivationOK(i)
    /\ stack # <<>> => stack[1].f = 1
    /\ \A i \in DOMAIN stack : i < Len(stack) =>
           /\ stack[i].pc = "wait" /\ stack[i + 1].f = Kid(stack[i].f)
           /\ frames[stack[i].f].state = 0 /\ Async(stack[i + 1].f) => frames[stack[i + 1].f].state = 0
    /\ \A i, j \in DOMAIN stack : i < j => stack[i].f < stack[j].f

(* What the answer of a child says of it.                                   *)
AnswerInv ==
    /\ stack # <<>> /\ Top.pc = "wait" =>
           /\ drops = <<>> /\ rc # Nothing
           /\ rc = Ready /\ Async(Kid(Top.f)) => frames[Kid(Top.f)].state = Completed
           /\ rc # Ready => frames[Kid(Top.f)].state # Completed
    /\ stack # <<>> /\ (Top.pc = "await" \/ (Top.pc = "wait" /\ rc = Failed)) =>
           /\ frames[Kid(Top.f)].state # Completed
           /\ frames[Top.f].state = 0 /\ Async(Kid(Top.f)) => frames[Kid(Top.f)].state = 0
    /\ rc = Failed => stack = <<>> \/ Top.pc = "wait"
    /\ rc # Failed => orphans = {}

(* The activations of drop follow the suspended awaits, from the root or    *)
(* from the child that has just answered.                                   *)
DropsInv ==
    /\ \A i \in DOMAIN drops : drops[i].f \in live
    /\ \A i, j \in DOMAIN drops : i < j => drops[i].f < drops[j].f
    /\ \A i \in DOMAIN drops : i < Len(drops) =>
           /\ drops[i].pc = "free" /\ Async(drops[i].f) /\ frames[drops[i].f].state > 0
           /\ drops[i + 1].f = Kid(drops[i].f)
    /\ drops # <<>> /\ Dropped.pc = "free" /\ Async(Dropped.f) /\ frames[Dropped.f].state > 0 =>
           Kid(Dropped.f) \notin live
    /\ drops # <<>> => \/ stack = <<>> /\ drops[1].f = 1 /\ client = "gone"
                       \/ /\ stack # <<>> /\ Top.pc = "body" /\ frames[Top.f].made > 0
                          /\ drops[1].f = Kid(Top.f)

(* A frame that neither runs nor is being freed.                            *)
Resting(f) == /\ \A i \in DOMAIN stack : stack[i].f = f => stack[i].pc = "enter"
              /\ \A i \in DOMAIN drops : drops[i].f = f => drops[i].pc = "switch"
RestInv == \A f \in live : Async(f) /\ Resting(f) =>
    /\ frames[f].state > 0 => Kid(f) \in live /\ frames[Kid(f)].state # Completed
    /\ rc # Failed /\ frames[f].state = 0 => frames[f].made = 0

(* Every frame is owned: by the client, by a frame that awaits it, or by    *)
(* the drop that is under way; or it is an orphan.                          *)
Holding(p) == \/ Resting(p) /\ frames[p].state > 0
              \/ \E i \in DOMAIN stack : stack[i].f = p /\ Awaiting(i)
OwnedInv ==
    /\ \A f \in live : \/ f = 1 \/ f \in orphans \/ \E i \in DOMAIN drops : drops[i].f = f
                       \/ \E p \in live : Async(p) /\ Holding(p) /\ Kid(p) = f
    /\ \A f \in orphans : /\ Async(f) => frames[f].state = 0
                          /\ \A i \in DOMAIN stack : stack[i].f # f
    /\ client # "gone" => 1 \in live
    /\ client = "gone" => stack = <<>> /\ (drops = <<>> => 1 \notin live)

(* What the state words say of the past: a frame that never answered        *)
(* pending has no await in its state word, and one whose child did has,     *)
(* but for the moment between that answer and .pending.                     *)
Answered(i) == i = Len(stack) /\ stack[i].pc = "wait" /\ rc = Pending
WaitInv ==
    /\ waited \subseteq DOMAIN frames
    /\ \A f \in DOMAIN frames : Async(f) /\ f \notin waited => frames[f].state \in {0, Completed}
    /\ \A i \in DOMAIN stack : Awaiting(i) /\ Kid(stack[i].f) \in waited =>
           frames[stack[i].f].state > 0 \/ Answered(i)

FutureInv == TypeOK /\ TreeInv /\ StackInv /\ AnswerInv /\ DropsInv /\ RestInv /\ OwnedInv
-----------------------------------------------------------------------------
(* The last element of a sequence is removed, replaced, or followed by one. *)
LEMMA Popped ==
    ASSUME NEW S, NEW s \in Seq(S), s # <<>>
    PROVE  /\ SubSeq(s, 1, Len(s) - 1) \in Seq(S)
           /\ Len(SubSeq(s, 1, Len(s) - 1)) = Len(s) - 1
           /\ \A i \in 1 .. Len(s) - 1 : SubSeq(s, 1, Len(s) - 1)[i] = s[i]
  <1>1. Len(s) \in Nat /\ Len(s) > 0 /\ \A i \in 1 .. Len(s) - 1 : s[i] \in S
    OBVIOUS
  <1> DEFINE n == Len(s) - 1
  <1>2. n \in Nat /\ Len(s) = n + 1 /\ \A i \in 1 .. n : s[i] \in S
    BY <1>1
  <1>3. /\ SubSeq(s, 1, n) \in Seq(S) /\ Len(SubSeq(s, 1, n)) = IF 1 <= n THEN n - 1 + 1 ELSE 0
        /\ \A i \in 1 .. n - 1 + 1 : SubSeq(s, 1, n)[i] = s[1 + i - 1]
    <2> HIDE DEF n
    <2> QED  BY <1>2, SubSeqProperties
  <1> HIDE DEF n
  <1>4. /\ SubSeq(s, 1, n) \in Seq(S) /\ Len(SubSeq(s, 1, n)) = n
        /\ \A i \in 1 .. n : SubSeq(s, 1, n)[i] = s[i]
    BY <1>2, <1>3
  <1>5. QED
    BY <1>4 DEF n

LEMMA Replaced ==
    ASSUME NEW S, NEW s \in Seq(S), s # <<>>, NEW e \in S
    PROVE  /\ [s EXCEPT ![Len(s)] = e] \in Seq(S)
           /\ Len([s EXCEPT ![Len(s)] = e]) = Len(s)
           /\ \A i \in 1 .. Len(s) - 1 : [s EXCEPT ![Len(s)] = e][i] = s[i]
           /\ [s EXCEPT ![Len(s)] = e][Len(s)] = e
  OBVIOUS

LEMMA Pushed ==
    ASSUME NEW S, NEW s \in Seq(S), NEW e \in S
    PROVE  /\ Append(s, e) \in Seq(S)
           /\ Len(Append(s, e)) = Len(s) + 1
           /\ \A i \in 1 .. Len(s) : Append(s, e)[i] = s[i]
           /\ Append(s, e)[Len(s) + 1] = e
  OBVIOUS

(* The innermost activation is one of stack.                                *)
LEMMA TopIsOne ==
    ASSUME TypeOK, StackInv, stack # <<>>
    PROVE  /\ Len(stack) \in 1 .. Len(stack) /\ DOMAIN stack = 1 .. Len(stack)
           /\ Top \in ActivationType /\ ActivationOK(Len(stack))
           /\ Top.f \in DOMAIN frames /\ frames[Top.f] \in FrameType
           /\ Top.f \in live
  <1>1. Len(stack) \in 1 .. Len(stack) /\ DOMAIN stack = 1 .. Len(stack) /\ Len(stack) \in DOMAIN stack
    BY DEF TypeOK
  <1>2. Top \in ActivationType
    BY <1>1 DEF TypeOK, Top
  <1>3. ActivationOK(Len(stack))
    BY <1>1 DEF StackInv
  <1>4. Top.f \in live
    BY <1>3 DEF ActivationOK, Top
  <1>5. Top.f \in DOMAIN frames /\ frames[Top.f] \in FrameType
    BY <1>4 DEF TypeOK
  <1>6. QED
    BY <1>1, <1>2, <1>3, <1>4, <1>5

(* A step that leaves the frames, or the activations of poll, as they were. *)
LEMMA SameTree == ASSUME TreeInv, UNCHANGED frames PROVE TreeInv'
  <1>1. \A f : FrameOK(f)' <=> FrameOK(f)
    BY DEF FrameOK, Async
  <1>2. OneParent'
    BY DEF TreeInv, OneParent
  <1>3. QED
    BY <1>1, <1>2 DEF TreeInv

LEMMA SameStack == ASSUME StackInv, UNCHANGED <<frames, live, stack>> PROVE StackInv'
  <1>1. \A f : Kid(f)' = Kid(f) /\ (Async(f)' <=> Async(f))
    BY DEF Kid, Async
  <1>2. ASSUME NEW i \in DOMAIN stack PROVE ActivationOK(i)'
    <2>1. ActivationOK(i)
      BY DEF StackInv
    <2>2. QED
      BY <1>1, <2>1 DEF ActivationOK, Awaiting
  <1>3. QED
    BY <1>1, <1>2 DEF StackInv

(* SetState changes one word of one frame.                                  *)
LEMMA SetStateShape ==
    ASSUME TypeOK, StackInv, stack # <<>>, NEW s \in Int, SetState(s)
    PROVE  /\ frames' \in Seq(FrameType) /\ Len(frames') = Len(frames) /\ DOMAIN frames' = DOMAIN frames
           /\ \A f \in DOMAIN frames : f # Top.f => frames'[f] = frames[f]
           /\ \A f \in DOMAIN frames : /\ frames'[f].fn = frames[f].fn
                                       /\ frames'[f].made = frames[f].made
                                       /\ frames'[f].kids = frames[f].kids
           /\ frames'[Top.f].state = s
  <1>1. Top.f \in DOMAIN frames /\ frames[Top.f] \in FrameType /\ frames \in Seq(FrameType)
    BY TopIsOne DEF TypeOK
  <1> DEFINE t == Top.f
             e == [frames[t] EXCEPT !.state = s]
  <1>2. e \in FrameType /\ e.fn = frames[t].fn /\ e.made = frames[t].made /\ e.kids = frames[t].kids /\ e.state = s
    BY <1>1 DEF FrameType
  <1>3. frames' = [frames EXCEPT ![t] = e]
    BY DEF SetState
  <1> HIDE DEF e, t
  <1>4. /\ frames' \in Seq(FrameType) /\ Len(frames') = Len(frames) /\ DOMAIN frames' = DOMAIN frames
        /\ \A f \in DOMAIN frames : f # t => frames'[f] = frames[f]
        /\ frames'[t] = e
    BY <1>1, <1>2, <1>3 DEF t
  <1>5. QED
    BY <1>2, <1>4 DEF t

LEMMA GotoShape ==
    ASSUME TypeOK, StackInv, stack # <<>>, NEW pc \in {"enter", "body", "await", "wait"}, NEW at \in Nat,
           Goto(pc, at)
    PROVE  /\ stack' \in Seq(ActivationType) /\ Len(stack') = Len(stack) /\ DOMAIN stack' = DOMAIN stack
           /\ \A i \in DOMAIN stack : i # Len(stack) => stack'[i] = stack[i]
           /\ stack'[Len(stack)].f = Top.f /\ stack'[Len(stack)].pc = pc /\ stack'[Len(stack)].at = at
  <1>1. stack \in Seq(ActivationType) /\ Top \in ActivationType
    BY TopIsOne DEF TypeOK
  <1> DEFINE e == [Top EXCEPT !.pc = pc, !.at = at]
  <1>2. e \in ActivationType /\ e.f = Top.f /\ e.pc = pc /\ e.at = at
    BY <1>1 DEF ActivationType
  <1>3. stack' = [stack EXCEPT ![Len(stack)] = e]
    BY DEF Goto, Top
  <1> HIDE DEF e
  <1>4. QED
    BY <1>1, <1>2, <1>3, Replaced

LEMMA ReturnShape ==
    ASSUME TypeOK, StackInv, stack # <<>>, NEW r, Return(r)
    PROVE  /\ stack' \in Seq(ActivationType) /\ Len(stack') = Len(stack) - 1
           /\ DOMAIN stack' = 1 .. Len(stack) - 1
           /\ \A i \in 1 .. Len(stack) - 1 : stack'[i] = stack[i]
           /\ rc' = r
  BY TopIsOne, Popped DEF TypeOK, Return

(* A step that writes no more than the state word of the innermost frame.   *)
StateOnly ==
    /\ frames' \in Seq(FrameType) /\ Len(frames') = Len(frames) /\ DOMAIN frames' = DOMAIN frames
    /\ \A f \in DOMAIN frames : f # Top.f => frames'[f] = frames[f]
    /\ \A f \in DOMAIN frames : /\ frames'[f].fn = frames[f].fn
                                /\ frames'[f].made = frames[f].made
                                /\ frames'[f].kids = frames[f].kids

LEMMA IsStateOnly ==
    ASSUME TypeOK, StackInv, stack # <<>>,
           UNCHANGED frames \/ \E s \in Int : SetState(s)
    PROVE  StateOnly
  <1>1. CASE UNCHANGED frames
    BY <1>1 DEF StateOnly, TypeOK
  <1>2. CASE \E s \in Int : SetState(s)
    BY <1>2, SetStateShape DEF StateOnly
  <1>3. QED
    BY <1>1, <1>2

(* The child that a frame made last is a younger frame.                     *)
LEMMA KidIsYounger ==
    ASSUME TypeOK, TreeInv, NEW f \in DOMAIN frames, frames[f].made > 0
    PROVE  Kid(f) \in DOMAIN frames /\ Kid(f) > f /\ Async(f) /\ f \in Nat
  <1>1. frames[f] \in FrameType /\ f \in Nat /\ FrameOK(f)
    BY DEF TypeOK, TreeInv
  <1>2. frames[f].made \in 1 .. frames[f].made /\ Async(f)
    BY <1>1 DEF FrameType, FrameOK
  <1>3. Kid(f) \in f + 1 .. Len(frames)
    BY <1>1, <1>2 DEF FrameOK, Kid
  <1>4. QED
    BY <1>1, <1>2, <1>3 DEF TypeOK

LEMMA OneHolder ==
    ASSUME TypeOK, TreeInv, NEW f \in DOMAIN frames, NEW g \in DOMAIN frames,
           frames[f].made > 0, frames[g].made > 0, Kid(f) = Kid(g)
    PROVE  f = g
  <1>1. frames[f].made \in 1 .. frames[f].made /\ frames[g].made \in 1 .. frames[g].made
    <2>1. frames[f] \in FrameType /\ frames[g] \in FrameType
      BY DEF TypeOK
    <2>2. QED
      BY <2>1 DEF FrameType
  <1>2. QED
    BY <1>1 DEF TreeInv, OneParent, Kid

(* The frames under the innermost activation are other frames, all waiting. *)
LEMMA Below ==
    ASSUME TypeOK, StackInv, TreeInv, stack # <<>>, NEW i \in 1 .. Len(stack) - 1
    PROVE  /\ i \in DOMAIN stack /\ i + 1 \in DOMAIN stack
           /\ stack[i].f \in DOMAIN frames /\ stack[i].f < Top.f /\ stack[i].f # Top.f
           /\ stack[i].pc = "wait" /\ frames[stack[i].f].made > 0
           /\ stack[i].at = frames[stack[i].f].made
           /\ stack[i].f \in live
           /\ Kid(stack[i].f) = stack[i + 1].f
           /\ stack[i] \in ActivationType
           /\ ActivationOK(i)
  <1>1. Len(stack) \in DOMAIN stack /\ i \in DOMAIN stack /\ i + 1 \in DOMAIN stack /\ i < Len(stack)
    BY DEF TypeOK
  <1>2. stack[i].pc = "wait" /\ ActivationOK(i) /\ stack[i].f < Top.f /\ Kid(stack[i].f) = stack[i + 1].f
    BY <1>1 DEF StackInv, Top
  <1>3. stack[i] \in ActivationType /\ Top \in ActivationType
    BY <1>1, TopIsOne DEF TypeOK
  <1>4. QED
    BY <1>1, <1>2, <1>3 DEF ActivationOK, Awaiting, TypeOK, ActivationType

LEMMA HeldByCaller ==
    ASSUME TypeOK, StackInv, TreeInv, stack # <<>>,
           NEW g \in DOMAIN frames, frames[g].made > 0, Kid(g) = Top.f
    PROVE  Len(stack) > 1 /\ g = stack[Len(stack) - 1].f
  <1>1. Top.f # 1
    BY KidIsYounger DEF TypeOK
  <1>2. Len(stack) > 1
    BY <1>1, TopIsOne DEF StackInv, Top, TypeOK
  <1>3. Len(stack) - 1 \in 1 .. Len(stack) - 1 /\ Len(stack) - 1 + 1 = Len(stack)
    BY <1>2 DEF TypeOK
  <1>4. Kid(stack[Len(stack) - 1].f) = Top.f
    BY <1>3, Below DEF Top
  <1>5. QED
    BY <1>2, <1>3, <1>4, Below, OneHolder

LEMMA StateOnlyKeepsTree ==
    ASSUME TypeOK, StackInv, TreeInv, stack # <<>>, StateOnly,
           Async(Top.f) => /\ frames'[Top.f].state \in {Completed, 0, frames[Top.f].made}
                           /\ frames'[Top.f].state = Completed => frames[Top.f].made = Len(frames[Top.f].kids),
           ~Async(Top.f) => frames'[Top.f].state >= 0
    PROVE  TreeInv'
  <1>1. ASSUME NEW f \in DOMAIN frames PROVE FrameOK(f)'
    <2>1. FrameOK(f) /\ (Async(f)' <=> Async(f))
      BY DEF TreeInv, StateOnly, Async
    <2>2. QED
      BY <2>1 DEF FrameOK, StateOnly, Async
  <1>2. OneParent'
    BY DEF TreeInv, OneParent, StateOnly
  <1>3. QED
    BY <1>1, <1>2 DEF TreeInv, StateOnly

(* The innermost poll returns: the activations under it are as they were.   *)
LEMMA ReturnKeepsStack ==
    ASSUME TypeOK, StackInv, TreeInv, stack # <<>>, StateOnly, NEW r, Return(r), live' = live
    PROVE  StackInv'
  <1>1. /\ DOMAIN stack' = 1 .. Len(stack) - 1 /\ Len(stack') = Len(stack) - 1
        /\ \A i \in 1 .. Len(stack) - 1 : stack'[i] = stack[i]
    BY ReturnShape
  <1>2. Len(stack) \in Nat /\ DOMAIN stack = 1 .. Len(stack)
    BY DEF TypeOK
  <1>3. \A i \in 1 .. Len(stack) - 1 : /\ frames'[stack[i].f] = frames[stack[i].f] /\ stack'[i] = stack[i]
                                       /\ Kid(stack[i].f)' = Kid(stack[i].f)
                                       /\ (Async(stack[i].f)' <=> Async(stack[i].f))
    <2> TAKE i \in 1 .. Len(stack) - 1
    <2>1. stack[i].f \in DOMAIN frames /\ stack[i].f # Top.f
      BY Below
    <2>2. frames'[stack[i].f] = frames[stack[i].f]
      BY <2>1 DEF StateOnly
    <2>3. QED
      BY <1>1, <2>2 DEF Kid, Async
  <1>4. \A i \in 1 .. Len(stack) - 1 : ActivationOK(i)'
    <2> TAKE i \in 1 .. Len(stack) - 1
    <2>1. ActivationOK(i)
      BY Below
    <2>2. QED
      BY <2>1, <1>3 DEF ActivationOK, Awaiting
  <1>5. stack' # <<>> => stack'[1].f = 1
    <2>1. stack' # <<>> => 1 \in 1 .. Len(stack) - 1
      BY <1>1, <1>2, ReturnShape
    <2>2. QED
      BY <1>1, <2>1 DEF StackInv
  <1>6. \A i \in 1 .. Len(stack) - 1 : i < Len(stack) - 1 =>
           /\ stack'[i].pc = "wait" /\ stack'[i + 1].f = Kid(stack[i].f)'
           /\ frames'[stack'[i].f].state = 0 /\ Async(stack[i + 1].f)' => frames'[stack'[i + 1].f].state = 0
    <2> SUFFICES ASSUME NEW i \in 1 .. Len(stack) - 1, i < Len(stack) - 1
                 PROVE  /\ stack'[i].pc = "wait" /\ stack'[i + 1].f = Kid(stack[i].f)'
                        /\ frames'[stack'[i].f].state = 0 /\ Async(stack[i + 1].f)' => frames'[stack'[i + 1].f].state = 0
      OBVIOUS
    <2>1. i + 1 \in 1 .. Len(stack) - 1 /\ i \in DOMAIN stack /\ i < Len(stack)
      BY <1>2
    <2>2. /\ stack[i].pc = "wait" /\ stack[i + 1].f = Kid(stack[i].f)
          /\ frames[stack[i].f].state = 0 /\ Async(stack[i + 1].f) => frames[stack[i + 1].f].state = 0
      BY <2>1 DEF StackInv
    <2>3. /\ frames'[stack[i].f] = frames[stack[i].f] /\ stack'[i] = stack[i]
          /\ frames'[stack[i+1].f] = frames[stack[i+1].f] /\ stack'[i+1] = stack[i+1]
      BY <2>1, <1>3
    <2>4. QED
      BY <2>2, <2>3 DEF Kid, Async
  <1>7. \A i, j \in 1 .. Len(stack) - 1 : i < j => stack'[i].f < stack'[j].f
    <2>1. \A i \in 1 .. Len(stack) - 1 : i \in DOMAIN stack /\ stack'[i] = stack[i]
      BY <1>1, <1>2
    <2>2. \A i, j \in DOMAIN stack : i < j => stack[i].f < stack[j].f
      BY DEF StackInv
    <2>3. QED
      BY <2>1, <2>2
  <1>8. QED
    BY <1>1, <1>4, <1>5, <1>6, <1>7 DEF StackInv

(* Only the frame whose poll returns may come to rest.                      *)
LEMMA ReturnRests ==
    ASSUME TypeOK, StackInv, TreeInv, stack # <<>>, NEW r, Return(r), UNCHANGED drops,
           NEW f, f # Top.f
    PROVE  Resting(f)' <=> Resting(f)
  <1>1. /\ DOMAIN stack' = 1 .. Len(stack) - 1
        /\ \A i \in 1 .. Len(stack) - 1 : stack'[i] = stack[i]
    BY ReturnShape
  <1>2. DOMAIN stack = 1 .. Len(stack) /\ Len(stack) \in Nat /\ stack[Len(stack)].f # f
    BY DEF TypeOK, Top
  <1>3. \A i \in DOMAIN stack : stack[i].f = f => i \in 1 .. Len(stack) - 1
    BY <1>2
  <1>4. QED
    BY <1>1, <1>2, <1>3 DEF Resting

(* The caller waits, so it is not resting.                                  *)
LEMMA CallerBusy ==
    ASSUME TypeOK, StackInv, TreeInv, stack # <<>>, NEW g \in DOMAIN frames, frames[g].made > 0, Kid(g) = Top.f
    PROVE  ~Resting(g)
  <1>1. Len(stack) - 1 \in 1 .. Len(stack) - 1 /\ g = stack[Len(stack) - 1].f
    BY HeldByCaller DEF TypeOK
  <1>2. QED
    BY <1>1, Below DEF Resting

LEMMA ReturnKeepsRest ==
    ASSUME TypeOK, StackInv, TreeInv, TreeInv', RestInv, stack # <<>>, StateOnly, NEW r, Return(r),
           live' = live, UNCHANGED drops, NEW t, t = Top.f,
           rc = Failed => r = Failed,
           Async(t) /\ frames'[t].state > 0 => Kid(t) \in live /\ frames[Kid(t)].state # Completed,
           Async(t) /\ r # Failed /\ frames'[t].state = 0 => frames[t].made = 0
    PROVE  RestInv'
  <1>1. /\ rc' = r /\ t \in DOMAIN frames /\ live \subseteq DOMAIN frames /\ DOMAIN frames' = DOMAIN frames
        /\ frames' \in Seq(FrameType) /\ frames \in Seq(FrameType)
    BY ReturnShape, TopIsOne DEF TypeOK, StateOnly
  <1>2. \A f \in DOMAIN frames : /\ Kid(f)' = Kid(f) /\ (Async(f)' <=> Async(f))
                                 /\ frames'[f].made = frames[f].made
    BY DEF StateOnly, Kid, Async
  <1>3. ASSUME NEW f \in DOMAIN frames, Async(f), frames'[f].state > 0
        PROVE  frames[f].made > 0
    <2>1. FrameOK(f)' /\ Async(f)'
      BY <1>1, <1>2, <1>3 DEF TreeInv
    <2>2. QED
      BY <1>2, <1>3, <2>1 DEF FrameOK, Completed
  <1>4. ASSUME NEW f \in live, Async(f), f # t, Resting(f)
        PROVE  /\ frames'[f].state > 0 => Kid(f) \in live /\ frames'[Kid(f)].state # Completed
               /\ r # Failed /\ frames'[f].state = 0 => frames[f].made = 0
    <2>1. frames'[f] = frames[f] /\ f \in DOMAIN frames
      BY <1>1, <1>4 DEF StateOnly
    <2>2. frames[f].state > 0 => Kid(f) # t /\ Kid(f) \in DOMAIN frames
      BY <1>3, <1>4, <2>1, CallerBusy, KidIsYounger
    <2>3. frames[f].state > 0 => frames'[Kid(f)] = frames[Kid(f)]
      BY <2>2 DEF StateOnly
    <2>4. QED
      BY <1>4, <2>1, <2>3 DEF RestInv
  <1>5. Async(t) /\ frames'[t].state > 0 => Kid(t) \in live /\ frames'[Kid(t)].state # Completed
    <2>1. Async(t) /\ frames'[t].state > 0 => Kid(t) \in DOMAIN frames /\ Kid(t) # t
      BY <1>1, <1>3, KidIsYounger
    <2>2. QED
      BY <2>1 DEF StateOnly
  <1>6. QED
    BY <1>1, <1>2, <1>4, <1>5, ReturnRests DEF RestInv

LEMMA ReturnKeepsOwned ==
    ASSUME TypeOK, StackInv, TreeInv, OwnedInv, stack # <<>>, StateOnly, NEW r, Return(r),
           live' = live, drops = <<>>, UNCHANGED <<drops, client>>, NEW t, t = Top.f,
           Async(t) /\ Holding(t) => frames'[t].state > 0 \/ Kid(t) \in orphans',
           orphans \subseteq orphans',
           \A f \in orphans' : /\ f \in DOMAIN frames /\ (Async(f) => frames'[f].state = 0)
                               /\ \A i \in 1 .. Len(stack) - 1 : stack[i].f # f
    PROVE  OwnedInv'
  <1>1. /\ DOMAIN stack' = 1 .. Len(stack) - 1 /\ DOMAIN stack = 1 .. Len(stack) /\ Len(stack) \in Nat
        /\ \A i \in 1 .. Len(stack) - 1 : stack'[i] = stack[i]
        /\ t \in DOMAIN frames /\ live \subseteq DOMAIN frames
    BY ReturnShape, TopIsOne DEF TypeOK
  <1>2. \A f \in DOMAIN frames : Kid(f)' = Kid(f) /\ (Async(f)' <=> Async(f))
    BY DEF StateOnly, Kid, Async
  <1>3. ASSUME NEW p \in DOMAIN frames, p # t, Holding(p) PROVE Holding(p)'
    <2>1. CASE Resting(p) /\ frames[p].state > 0
      BY <1>3, <2>1, ReturnRests DEF Holding, StateOnly
    <2>2. CASE \E i \in DOMAIN stack : stack[i].f = p /\ Awaiting(i)
      <3>1. PICK i \in DOMAIN stack : stack[i].f = p /\ Awaiting(i)
        BY <2>2
      <3>2. i \in 1 .. Len(stack) - 1
        BY <1>1, <1>3, <3>1 DEF Top
      <3>3. QED
        BY <1>1, <3>1, <3>2 DEF Holding, Awaiting
    <2>3. QED
      BY <1>3, <2>1, <2>2 DEF Holding
  <1>4. frames'[t].state > 0 => Holding(t)'
    <2>1. \A i \in 1 .. Len(stack) - 1 : stack[i].f # t
      BY Below
    <2>2. Resting(t)'
      BY <1>1, <2>1 DEF Resting
    <2>3. QED
      BY <2>2 DEF Holding
  <1>5. ASSUME NEW f \in live, f # 1, f \notin orphans'
        PROVE  \E p \in live : Async(p)' /\ Holding(p)' /\ Kid(p)' = f
    <2>1. PICK p \in live : Async(p) /\ Holding(p) /\ Kid(p) = f
      BY <1>5 DEF OwnedInv
    <2>2. Holding(p)'
      BY <1>1, <1>3, <1>4, <1>5, <2>1
    <2>3. QED
      BY <1>1, <1>2, <2>1, <2>2
  <1>6. client # "gone" /\ 1 \in live
    BY DEF OwnedInv
  <1>7. \A f \in orphans' : (Async(f)' => frames'[f].state = 0) /\ \A i \in DOMAIN stack' : stack'[i].f # f
    BY <1>1, <1>2
  <1>8. QED
    BY <1>5, <1>6, <1>7 DEF OwnedInv

LEMMA ReturnAnswers ==
    ASSUME TypeOK, StackInv, TreeInv, stack # <<>>, StateOnly, NEW r \in {Pending, Ready, Failed}, Return(r),
           drops = <<>>, UNCHANGED drops, NEW t, t = Top.f,
           r = Failed \/ orphans' = {},
           Len(stack) > 1 => /\ r = Ready /\ Async(t) => frames'[t].state = Completed
                             /\ r # Ready => frames'[t].state # Completed
                             /\ r = Failed /\ Async(t) => frames'[t].state = frames[t].state
    PROVE  AnswerInv'
  <1>1. /\ rc' = r /\ stack' \in Seq(ActivationType) /\ Len(stack') = Len(stack) - 1 /\ Len(stack) \in Nat
        /\ \A i \in 1 .. Len(stack) - 1 : stack'[i] = stack[i]
    BY ReturnShape DEF TypeOK
  <1>2. CASE stack' = <<>>
    BY <1>1, <1>2 DEF AnswerInv
  <1>3. CASE stack' # <<>>
    <2> DEFINE n == Len(stack) - 1
    <2>1. Len(stack) > 1 /\ n \in 1 .. Len(stack) - 1 /\ n \in DOMAIN stack /\ n < Len(stack) /\ n + 1 = Len(stack)
      BY <1>1, <1>3 DEF TypeOK
    <2>2. /\ Top' = stack[n] /\ stack[n].pc = "wait" /\ Kid(stack[n].f) = t
          /\ stack[n].f \in DOMAIN frames /\ stack[n].f # t
      BY <1>1, <2>1, Below DEF Top
    <2>3. Kid(Top.f)' = t /\ (Async(t)' <=> Async(t)) /\ frames'[stack[n].f] = frames[stack[n].f]
      BY <2>2, TopIsOne DEF Kid, Async, StateOnly
    <2>4. frames[stack[n].f].state = 0 /\ Async(t) => frames[t].state = 0
      BY <2>1, <2>2 DEF StackInv, Top
    <2> HIDE DEF n
    <2>5. r # Nothing
      BY DEF Pending, Ready, Failed, Nothing
    <2>6. Async(Kid(Top.f))' <=> Async(t)
      BY <2>3 DEF Async
    <2>7. (frames[Kid(Top.f)])' = frames'[t] /\ (frames[Top.f])' = frames[stack[n].f]
      BY <2>2, <2>3
    <2>8. r = Failed => r # Ready
      BY DEF Ready, Failed
    <2>9. QED
      BY <1>1, <2>1, <2>2, <2>4, <2>5, <2>6, <2>7, <2>8 DEF AnswerInv
  <1>4. QED
    BY <1>2, <1>3

(* What a poll must establish when it returns r.                            *)
LEMMA ReturnKeepsInv ==
    ASSUME FutureInv, stack # <<>>, drops = <<>>, NEW t, t = Top.f,
           UNCHANGED frames \/ \E s \in Int : SetState(s),
           NEW r \in {Pending, Ready, Failed}, Return(r), UNCHANGED <<live, drops, client>>,
           Async(t) => /\ frames'[t].state \in {Completed, 0, frames[t].made}
                       /\ frames'[t].state = Completed => frames[t].made = Len(frames[t].kids)
                       /\ frames'[t].state > 0 => Kid(t) \in live /\ frames[Kid(t)].state # Completed
                       /\ r # Failed /\ frames'[t].state = 0 => frames[t].made = 0
                       /\ Holding(t) => frames'[t].state > 0 \/ Kid(t) \in orphans',
           ~Async(t) => frames'[t].state >= 0,
           rc = Failed => r = Failed,
           orphans \subseteq orphans', r = Failed \/ orphans' = {},
           \A f \in orphans' : /\ f \in DOMAIN frames \ {1} /\ (Async(f) => frames'[f].state = 0)
                               /\ \A i \in 1 .. Len(stack) - 1 : stack[i].f # f,
           Len(stack) > 1 => /\ r = Ready /\ Async(t) => frames'[t].state = Completed
                             /\ r # Ready => frames'[t].state # Completed
                             /\ r = Failed /\ Async(t) => frames'[t].state = frames[t].state
    PROVE  FutureInv'
  <1>1. TypeOK /\ TreeInv /\ StackInv /\ AnswerInv /\ DropsInv /\ RestInv /\ OwnedInv
    BY DEF FutureInv
  <1>2. StateOnly
    BY <1>1, IsStateOnly
  <1>3. TypeOK'
    BY <1>1, <1>2, ReturnShape DEF TypeOK, StateOnly
  <1>4. TreeInv'
    BY <1>1, <1>2, StateOnlyKeepsTree
  <1>5. StackInv'
    BY <1>1, <1>2, ReturnKeepsStack
  <1>6. AnswerInv'
    BY <1>1, <1>2, ReturnAnswers
  <1>7. DropsInv'
    BY DEF DropsInv
  <1>8. RestInv'
    BY <1>1, <1>2, <1>4, ReturnKeepsRest
  <1>9. OwnedInv'
    BY <1>1, <1>2, ReturnKeepsOwned
  <1>10. QED
    BY <1>3, <1>4, <1>5, <1>6, <1>7, <1>8, <1>9 DEF FutureInv

LEMMA SuspendKeepsInv ==
    ASSUME FutureInv, Suspend
    PROVE  FutureInv'
  <1> DEFINE t == Top.f
  <1>1. TypeOK /\ TreeInv /\ StackInv /\ AnswerInv /\ stack # <<>> /\ drops = <<>> /\ Top.pc = "wait" /\ rc = Pending
    BY DEF FutureInv, Suspend, Running
  <1>2. /\ t \in DOMAIN frames /\ Top.at = frames[t].made /\ frames[t].made > 0 /\ frames[t].made \in Nat
        /\ Kid(t) \in live /\ Async(t)
    BY <1>1, TopIsOne DEF ActivationOK, Awaiting, Top, FrameType
  <1>3. SetState(Top.at) /\ frames'[t].state = frames[t].made
    BY <1>1, <1>2, SetStateShape DEF Suspend
  <1>4. Pending # Ready /\ Pending # Failed /\ Pending # Nothing /\ Completed \notin Nat
    BY DEF Pending, Ready, Failed, Nothing, Completed
  <1>5. frames[Kid(t)].state # Completed /\ orphans = {}
    BY <1>1, <1>4 DEF AnswerInv
  <1>6. Return(Pending) /\ UNCHANGED <<live, drops, client, orphans>>
    BY DEF Suspend
  <1>7. \E s \in Int : SetState(s)
    BY <1>2, <1>3
  <1> HIDE DEF t
  <1>8. QED
    BY <1>1, <1>2, <1>3, <1>4, <1>5, <1>6, <1>7, ReturnKeepsInv DEF t

LEMMA FailKeepsInv ==
    ASSUME FutureInv, WaitInv, Fail
    PROVE  FutureInv'
  <1> DEFINE t == Top.f
  <1>1. /\ TypeOK /\ TreeInv /\ StackInv /\ AnswerInv /\ OwnedInv /\ stack # <<>> /\ drops = <<>>
        /\ Top.pc = "wait" /\ rc < 0
    BY DEF FutureInv, Fail, Running
  <1>2. /\ t \in DOMAIN frames /\ Top.at = frames[t].made /\ frames[t].made > 0 /\ frames[t].made \in Nat
        /\ Kid(t) \in live /\ Async(t) /\ frames[t].state # Completed
    BY <1>1, TopIsOne DEF ActivationOK, Awaiting, Top, FrameType
  <1>3. rc = Failed /\ Failed # Ready /\ Completed \notin Nat
    BY <1>1 DEF AnswerInv, TypeOK, Pending, Ready, Failed, Nothing, Completed
  <1>4. frames[Kid(t)].state # Completed /\ (frames[t].state = 0 /\ Async(Kid(t)) => frames[Kid(t)].state = 0)
    BY <1>1, <1>3 DEF AnswerInv
  <1>5. Child = Kid(t) /\ Kid(t) \in DOMAIN frames /\ Kid(t) > t /\ t \in Nat
    BY <1>1, <1>2, KidIsYounger DEF Child, Kid
  <1>6. /\ Return(Failed) /\ UNCHANGED <<frames, live, drops, client>>
        /\ orphans' = IF Kid(t) \in waited THEN orphans ELSE orphans \cup {Kid(t)}
    BY <1>3, <1>5 DEF Fail
  <1>7. /\ frames[t].state \in {0, frames[t].made}
        /\ Kid(t) \in waited => frames[t].state > 0
        /\ Kid(t) \notin waited => (Async(Kid(t)) => frames[Kid(t)].state = 0)
    <2>1. frames[t].state \in {0, frames[t].made}
      BY <1>1, <1>2 DEF TreeInv, FrameOK
    <2>2. Kid(t) \in waited => frames[t].state > 0
      <3>1. Len(stack) \in DOMAIN stack /\ Awaiting(Len(stack)) /\ stack[Len(stack)].f = t
        BY <1>1, TopIsOne DEF Awaiting, Top
      <3>2. ~Answered(Len(stack))
        BY <1>3 DEF Answered, Pending, Failed
      <3> HIDE DEF t
      <3>3. QED
        BY <3>1, <3>2 DEF WaitInv
    <2>3. Kid(t) \notin waited => (Async(Kid(t)) => frames[Kid(t)].state = 0)
      BY <1>4, <1>5 DEF WaitInv
    <2>4. QED
      BY <2>1, <2>2, <2>3
  <1>8. \A f \in orphans' : /\ f \in DOMAIN frames \ {1} /\ (Async(f) => frames[f].state = 0)
                            /\ \A i \in 1 .. Len(stack) - 1 : stack[i].f # f
    <2>1. \A i \in 1 .. Len(stack) - 1 : i \in DOMAIN stack /\ stack[i].f \in Nat /\ stack[i].f < t
      <3> TAKE i \in 1 .. Len(stack) - 1
      <3>1. i \in DOMAIN stack /\ stack[i] \in ActivationType /\ stack[i].f < t
        BY <1>1, Below
      <3>2. QED
        BY <3>1 DEF ActivationType
    <2>2. /\ Kid(t) \in DOMAIN frames \ {1} /\ \A i \in 1 .. Len(stack) - 1 : stack[i].f # Kid(t)
      <3>1. t \in 1 .. Len(frames) /\ Len(frames) \in Nat /\ DOMAIN frames = 1 .. Len(frames)
        BY <1>1, <1>2 DEF TypeOK
      <3> HIDE DEF t
      <3>2. QED
        BY <1>5, <2>1, <3>1
    <2>3. \A f \in orphans : /\ f \in DOMAIN frames \ {1} /\ (Async(f) => frames[f].state = 0)
                             /\ \A i \in 1 .. Len(stack) - 1 : stack[i].f # f
      BY <1>1, <2>1 DEF OwnedInv, TypeOK
    <2> HIDE DEF t
    <2>4. QED
      BY <1>6, <1>7, <2>2, <2>3
  <1> HIDE DEF t
  <1>9. QED
    BY <1>1, <1>2, <1>3, <1>4, <1>6, <1>7, <1>8, ReturnKeepsInv DEF t

LEMMA PollLeafKeepsInv ==
    ASSUME FutureAssumption, FutureInv, PollLeaf
    PROVE  FutureInv'
  <1> DEFINE t == Top.f
             st == frames[t].state
  <1>1. TypeOK /\ TreeInv /\ StackInv /\ AnswerInv /\ stack # <<>> /\ drops = <<>> /\ Top.pc = "enter" /\ ~Async(t)
    BY DEF FutureInv, PollLeaf, Running
  <1>2. t \in DOMAIN frames /\ st \in Int /\ st >= 0
    BY <1>1, TopIsOne DEF FrameType, TreeInv, FrameOK
  <1>3. PICK s \in Nat : SetState(s) /\ \E r \in {Pending, Ready, Failed} : Return(r)
    <2>1. \/ SetState(st + 1) /\ Return(Pending)
          \/ SetState(1) /\ Return(Pending)
          \/ SetState(st) /\ Return(Ready)
          \/ SetState(st) /\ Return(Failed)
      BY DEF PollLeaf
    <2>2. st \in Nat /\ st + 1 \in Nat /\ 1 \in Nat
      BY <1>2
    <2> HIDE DEF st
    <2>3. QED
      BY <2>1, <2>2
  <1>4. frames'[t].state = s /\ s # Completed /\ s >= 0
    BY <1>1, <1>3, SetStateShape DEF Completed
  <1>5. rc # Failed /\ orphans = {}
    BY <1>1 DEF AnswerInv
  <1>6. \E x \in Int : SetState(x)
    BY <1>3
  <1>7. UNCHANGED <<live, drops, client, orphans>>
    BY DEF PollLeaf
  <1> HIDE DEF t
  <1>8. PICK r \in {Pending, Ready, Failed} : Return(r)
    BY <1>3
  <1>9. QED
    BY <1>1, <1>4, <1>5, <1>6, <1>7, <1>8, ReturnKeepsInv DEF t

(* A frame that does not await holds a child only while it rests.           *)
LEMMA TopHolds ==
    ASSUME TypeOK, StackInv, TreeInv, stack # <<>>, Top.pc \in {"enter", "body"}, Holding(Top.f)
    PROVE  Top.pc = "enter" /\ Resting(Top.f) /\ frames[Top.f].state > 0
  <1>1. \A i \in DOMAIN stack : stack[i].f = Top.f => i = Len(stack)
    <2>1. \A i \in DOMAIN stack : i # Len(stack) => i \in 1 .. Len(stack) - 1
      BY DEF TypeOK
    <2>2. QED
      BY <2>1, Below
  <1>2. Len(stack) \in DOMAIN stack
    BY TopIsOne
  <1>3. Resting(Top.f) => Top.pc = "enter"
    BY <1>2 DEF Resting, Top
  <1>4. QED
    BY <1>1, <1>3 DEF Holding, Awaiting, Top

(* A poll that was called again on a finished future.                       *)
LEMMA EnterFinished ==
    ASSUME FutureInv, Running("enter"), Async(Top.f), frames[Top.f].state = Completed, Return(Ready),
           UNCHANGED <<frames, live, drops, client, orphans>>
    PROVE  FutureInv'
  <1> DEFINE t == Top.f
  <1>1. TypeOK /\ TreeInv /\ StackInv /\ AnswerInv /\ stack # <<>> /\ drops = <<>> /\ Top.pc = "enter"
    BY DEF FutureInv, Running
  <1>2. t \in DOMAIN frames /\ FrameOK(t) /\ Len(stack) = 1
    BY <1>1, TopIsOne DEF ActivationOK, Top, TreeInv
  <1>3. rc # Failed /\ orphans = {}
    BY <1>1 DEF AnswerInv
  <1>4. ~(Completed > 0) /\ Completed # 0 /\ ~(1 > 1)
    BY DEF Completed
  <1>5. ~Holding(t)
    BY <1>1, <1>4, TopHolds
  <1> HIDE DEF t
  <1>6. QED
    BY <1>1, <1>2, <1>3, <1>4, <1>5, ReturnKeepsInv DEF t, FrameOK

(* A body that has run to its end.                                          *)
LEMMA BodyEnds ==
    ASSUME FutureAssumption, FutureInv, Running("body"), Top.at > Len(Body), SetState(Completed), Return(Ready),
           UNCHANGED <<live, drops, client, orphans>>
    PROVE  FutureInv'
  <1> DEFINE t == Top.f
  <1>1. TypeOK /\ TreeInv /\ StackInv /\ AnswerInv /\ stack # <<>> /\ drops = <<>> /\ Top.pc = "body"
    BY DEF FutureInv, Running
  <1>2. /\ t \in DOMAIN frames /\ FrameOK(t) /\ Async(t) /\ frames[t].state = 0 /\ Top.at = frames[t].made + 1
        /\ frames[t] \in FrameType
    BY <1>1, TopIsOne DEF ActivationOK, Top, TreeInv
  <1>3. frames[t].made = Len(frames[t].kids)
    <2>1. Len(frames[t].kids) = Len(Body) /\ frames[t].made <= Len(frames[t].kids)
      BY <1>2 DEF FrameOK, Body
    <2>2. frames[t].made \in Nat /\ Len(frames[t].kids) \in Nat
      BY <1>2 DEF FrameType
    <2> HIDE DEF t
    <2>3. QED
      BY <1>2, <2>1, <2>2
  <1>4. Completed \in Int /\ ~(Completed > 0) /\ Completed # 0 /\ ~(0 > 0)
    BY DEF Completed
  <1>5. frames'[t].state = Completed
    BY <1>1, <1>4, SetStateShape
  <1>6. ~Holding(t) /\ rc # Failed /\ orphans = {} /\ Ready # Failed
    BY <1>1, <1>2, <1>4, TopHolds DEF AnswerInv, Ready, Failed
  <1>7. \E s \in Int : SetState(s)
    BY <1>4
  <1> HIDE DEF t
  <1>8. QED
    BY <1>1, <1>2, <1>3, <1>4, <1>5, <1>6, <1>7, ReturnKeepsInv DEF t

(* The innermost activation of poll goes on inside its body: at may be a    *)
(* new place, its frame may change, frames may be added.                    *)
Onward(pc, at) ==
    /\ drops = <<>> /\ Goto(pc, at) /\ rc' = rc /\ client' = client /\ orphans' = orphans
    /\ \A f \in DOMAIN frames : f # Top.f => frames'[f] = frames[f]
    /\ frames'[Top.f].fn = frames[Top.f].fn
    /\ live \subseteq live'
    /\ \A i \in DOMAIN drops' : drops'[i].pc = "switch"

LEMMA OnwardStack ==
    ASSUME TypeOK, StackInv, TreeInv, stack # <<>>, NEW t, t = Top.f,
           NEW pc \in {"body", "await"}, NEW at \in Nat, Onward(pc, at),
           Async(t), frames'[t].state # Completed, frames[t].state = 0 => frames'[t].state = 0,
           pc = "body" => frames'[t].state = 0 /\ at = frames'[t].made + 1,
           pc = "await" => at = frames'[t].made /\ at > 0 /\ Kid(t)' \in live'
    PROVE  StackInv'
  <1>0. PICK n \in Nat : n = Len(stack)
    BY DEF TypeOK
  <1>1. /\ DOMAIN stack' = 1 .. n /\ Len(stack') = n /\ DOMAIN stack = 1 .. n /\ n \in Nat
        /\ n \in 1 .. n /\ t \in live
        /\ \A i \in 1 .. n - 1 : stack'[i] = stack[i]
        /\ stack'[n].f = t /\ stack'[n].pc = pc /\ stack'[n].at = at
    <2>1. Goto(pc, at) /\ pc \in {"enter", "body", "await", "wait"}
      BY DEF Onward
    <2>2. /\ Len(stack') = Len(stack) /\ DOMAIN stack' = DOMAIN stack
          /\ \A i \in DOMAIN stack : i # Len(stack) => stack'[i] = stack[i]
          /\ stack'[Len(stack)].f = Top.f /\ stack'[Len(stack)].pc = pc /\ stack'[Len(stack)].at = at
      BY <2>1, GotoShape
    <2>3. DOMAIN stack = 1 .. n /\ n \in 1 .. n /\ t \in live
      BY <1>0, TopIsOne
    <2>4. QED
      BY <1>0, <2>2, <2>3
  <1>2. \A i \in 1 .. n - 1 : /\ frames'[stack[i].f] = frames[stack[i].f] /\ stack'[i] = stack[i]
                              /\ Kid(stack[i].f)' = Kid(stack[i].f)
                              /\ (Async(stack[i].f)' <=> Async(stack[i].f))
                              /\ Kid(stack[i].f) = stack[i + 1].f /\ stack[i].pc = "wait"
    <2> SUFFICES ASSUME NEW i \in 1 .. n - 1
                 PROVE  /\ frames'[stack[i].f] = frames[stack[i].f] /\ stack'[i] = stack[i]
                        /\ Kid(stack[i].f)' = Kid(stack[i].f)
                        /\ (Async(stack[i].f)' <=> Async(stack[i].f))
                        /\ Kid(stack[i].f) = stack[i + 1].f /\ stack[i].pc = "wait"
      OBVIOUS
    <2>1. PICK f : f = stack[i].f
      OBVIOUS
    <2>2. /\ f \in DOMAIN frames /\ f # Top.f
          /\ Kid(stack[i].f) = stack[i + 1].f /\ stack[i].pc = "wait"
      BY <1>0, <2>1, Below
    <2>3. frames'[f] = frames[f]
      BY <2>2 DEF Onward
    <2>4. stack'[i] = stack[i]
      BY <1>1
    <2>5. frames'[stack[i].f] = frames[stack[i].f]
      BY <2>1, <2>3
    <2>6. Kid(stack[i].f)' = Kid(stack[i].f)
      BY <2>4, <2>5 DEF Kid
    <2>7. Async(stack[i].f)' <=> Async(stack[i].f)
      BY <2>4, <2>5 DEF Async
    <2>8. QED
      BY <2>2, <2>4, <2>5, <2>6, <2>7
  <1>3. ASSUME NEW i \in 1 .. n - 1 PROVE ActivationOK(i)'
    <2>1. ActivationOK(i)
      BY <1>0, Below
    <2>2. QED
      BY <2>1, <1>2 DEF ActivationOK, Awaiting, Onward
  <1>4. ActivationOK(n)'
    <2>1. Kid(stack[n].f)' = Kid(t)' /\ Async(stack[n].f)' /\ frames'[stack'[n].f] = frames'[t]
      BY <1>1 DEF Kid, Async, Onward
    <2>2. QED
      BY <1>1, <2>1 DEF ActivationOK, Awaiting, Onward
  <1>5. stack'[1].f = 1
    <2>1. stack[1].f = 1 /\ stack[n] = Top
      BY <1>0 DEF StackInv, Top
    <2>2. CASE n = 1
      BY <1>1, <2>1, <2>2
    <2>3. CASE n # 1
      <3>1. 1 \in 1 .. n - 1
        BY <1>1, <2>3
      <3>2. QED
        BY <1>1, <2>1, <3>1
    <2>4. QED
      BY <2>2, <2>3
  <1>6. ASSUME NEW i \in 1 .. n, i < n
        PROVE  /\ stack'[i].pc = "wait" /\ stack'[i + 1].f = Kid(stack[i].f)'
               /\ frames'[stack'[i].f].state = 0 /\ Async(stack[i + 1].f)' => frames'[stack'[i + 1].f].state = 0
    <2>1. /\ i \in 1 .. n - 1 /\ i + 1 \in 1 .. n /\ i \in DOMAIN stack /\ i < Len(stack)
          /\ (i + 1 \in 1 .. n - 1 \/ i + 1 = n)
      BY <1>0, <1>1, <1>6
    <2>2. /\ stack[i].pc = "wait" /\ stack[i + 1].f = Kid(stack[i].f)
          /\ frames[stack[i].f].state = 0 /\ Async(stack[i + 1].f) => frames[stack[i + 1].f].state = 0
      BY <2>1 DEF StackInv
    <2>3. stack'[i + 1].f = stack[i + 1].f
      BY <1>0, <1>1, <2>1 DEF Top
    <2>4. frames'[stack[i + 1].f] = frames[stack[i + 1].f] \/ stack[i + 1].f = t
      BY <1>0, <1>2, <2>1 DEF Top
    <2>5. QED
      BY <1>2, <2>1, <2>2, <2>3, <2>4 DEF Async
  <1>7. \A i, j \in 1 .. n : i < j => stack'[i].f < stack'[j].f
    <2>1. \A i \in 1 .. n : stack'[i].f = stack[i].f
      BY <1>0, <1>1 DEF Top
    <2>2. QED
      BY <1>1, <2>1 DEF StackInv
  <1>8. \A i \in 1 .. n : i \in 1 .. n - 1 \/ i = n
    BY <1>1
  <1>9. QED
    BY <1>0, <1>1, <1>3, <1>4, <1>5, <1>6, <1>7, <1>8 DEF StackInv

(* It is not resting, and the others are as they were.                      *)
LEMMA OnwardRests ==
    ASSUME TypeOK, StackInv, TreeInv, stack # <<>>,
           NEW pc \in {"body", "await"}, NEW at \in Nat, Onward(pc, at), NEW f
    PROVE  /\ f # Top.f => (Resting(f)' <=> Resting(f))
           /\ f = Top.f => ~Resting(f)'
  <1> DEFINE n == Len(stack)
  <1>1. /\ DOMAIN stack' = 1 .. n /\ DOMAIN stack = 1 .. n /\ n \in 1 .. n /\ n \in Nat
        /\ \A i \in 1 .. n - 1 : stack'[i] = stack[i]
        /\ stack'[n].f = Top.f /\ stack'[n].pc = pc
        /\ drops = <<>> /\ \A i \in DOMAIN drops' : drops'[i].pc = "switch"
    BY GotoShape, TopIsOne DEF Onward, TypeOK
  <1>2. ASSUME f # Top.f PROVE Resting(f)' <=> Resting(f)
    <2>1. \A i \in 1 .. n : stack[i].f = f \/ stack'[i].f = f => stack'[i] = stack[i]
      BY <1>1, <1>2 DEF Top
    <2>2. QED
      BY <1>1, <2>1 DEF Resting
  <1>3. ASSUME f = Top.f PROVE ~Resting(f)'
    BY <1>1, <1>3 DEF Resting
  <1>4. QED
    BY <1>2, <1>3

LEMMA OnwardKeepsRest ==
    ASSUME TypeOK, StackInv, TreeInv, RestInv, stack # <<>>,
           NEW pc \in {"body", "await"}, NEW at \in Nat, Onward(pc, at),
           \A f \in live' \ live : f # Top.f /\ frames'[f].state = 0 /\ frames'[f].made = 0
    PROVE  RestInv'
  <1>1. ASSUME NEW f \in live, Async(f)', Resting(f)'
        PROVE  /\ frames'[f].state > 0 => Kid(f)' \in live' /\ (frames[Kid(f)].state)' # Completed
               /\ rc' # Failed /\ frames'[f].state = 0 => frames'[f].made = 0
    <2>1. f # Top.f /\ Resting(f) /\ f \in DOMAIN frames
      BY <1>1, OnwardRests DEF TypeOK
    <2>2. frames'[f] = frames[f] /\ Kid(f)' = Kid(f) /\ Async(f) /\ rc' = rc /\ live \subseteq live'
      BY <1>1, <2>1 DEF Onward, Kid, Async
    <2>3. ASSUME frames[f].state > 0 PROVE Kid(f) \in DOMAIN frames /\ Kid(f) # Top.f
      <3>1. frames[f].made > 0
        BY <2>1, <2>2, <2>3 DEF TreeInv, FrameOK, Completed
      <3>2. QED
        BY <2>1, <3>1, KidIsYounger, CallerBusy
    <2>4. frames[f].state > 0 => (frames[Kid(f)])' = frames[Kid(f)]
      BY <2>2, <2>3 DEF Onward
    <2>5. QED
      BY <2>1, <2>2, <2>4 DEF RestInv
  <1>2. QED
    BY <1>1 DEF RestInv

LEMMA OnwardKeepsOwned ==
    ASSUME TypeOK, StackInv, TreeInv, OwnedInv, stack # <<>>, orphans = {}, NEW t, t = Top.f,
           NEW pc \in {"body", "await"}, NEW at \in Nat, Onward(pc, at), Async(t),
           Holding(t) => \/ pc = "await" /\ Kid(t)' = Kid(t)
                         \/ \E i \in DOMAIN drops' : drops'[i].f = Kid(t),
           \A f \in live' \ live : pc = "await" /\ Kid(t)' = f
    PROVE  OwnedInv'
  <1>1. PICK n \in Nat : n = Len(stack)
    BY DEF TypeOK
  <1>2. /\ DOMAIN stack' = 1 .. n /\ DOMAIN stack = 1 .. n /\ n \in 1 .. n
        /\ \A i \in 1 .. n - 1 : stack'[i] = stack[i]
        /\ stack'[n].f = t /\ stack'[n].pc = pc
        /\ drops = <<>> /\ client' = client /\ orphans' = orphans /\ live \subseteq live'
        /\ t \in live /\ live \subseteq DOMAIN frames
    <2>1. Goto(pc, at) /\ drops = <<>> /\ client' = client /\ orphans' = orphans /\ live \subseteq live'
      BY DEF Onward
    <2>2. t \in live /\ DOMAIN stack = 1 .. n /\ n \in 1 .. n /\ live \subseteq DOMAIN frames
      BY <1>1, TopIsOne DEF TypeOK
    <2>3. QED
      BY <1>1, <2>1, <2>2, GotoShape
  <1>3. pc = "await" => Holding(t)'
    BY <1>2 DEF Holding, Awaiting
  <1>4. Async(t)'
    BY DEF Async, Onward
  <1>5. ASSUME NEW p \in live, p # t, Async(p), Holding(p)
        PROVE  Async(p)' /\ Holding(p)' /\ Kid(p)' = Kid(p)
    <2>1. frames'[p] = frames[p]
      BY <1>2, <1>5 DEF Onward
    <2>2. CASE Resting(p) /\ frames[p].state > 0
      BY <1>5, <2>1, <2>2, OnwardRests DEF Holding, Async, Kid
    <2>3. CASE \E i \in DOMAIN stack : stack[i].f = p /\ Awaiting(i)
      <3>1. PICK i \in DOMAIN stack : stack[i].f = p /\ Awaiting(i)
        BY <2>3
      <3>2. i \in 1 .. n - 1
        BY <1>1, <1>2, <1>5, <3>1 DEF Top
      <3>3. Holding(p)'
        BY <1>2, <3>1, <3>2 DEF Holding, Awaiting
      <3>4. QED
        BY <1>5, <2>1, <3>3 DEF Async, Kid
    <2>4. QED
      BY <1>5, <2>2, <2>3 DEF Holding
  <1>6. ASSUME NEW f \in live', f # 1, ~\E i \in DOMAIN drops' : drops'[i].f = f
        PROVE  \E p \in live' : Async(p)' /\ Holding(p)' /\ Kid(p)' = f
    <2>1. CASE f \notin live
      BY <1>2, <1>3, <1>4, <2>1
    <2>2. CASE f \in live
      <3>1. PICK p \in live : Async(p) /\ Holding(p) /\ Kid(p) = f
        BY <1>2, <1>6, <2>2 DEF OwnedInv
      <3>2. CASE p = t
        BY <1>2, <1>3, <1>4, <1>6, <3>1, <3>2
      <3>3. CASE p # t
        BY <1>2, <1>5, <3>1, <3>3
      <3>4. QED
        BY <3>2, <3>3
    <2>3. QED
      BY <2>1, <2>2
  <1>7. client # "gone" /\ 1 \in live'
    BY <1>2 DEF OwnedInv
  <1>8. QED
    BY <1>2, <1>6, <1>7 DEF OwnedInv

LEMMA EnterKeepsInv ==
    ASSUME FutureAssumption, FutureInv, Enter
    PROVE  FutureInv'
  <1>1. PICK t : t = Top.f
    OBVIOUS
  <1>2. /\ TypeOK /\ TreeInv /\ StackInv /\ AnswerInv /\ RestInv /\ OwnedInv /\ stack # <<>> /\ drops = <<>>
        /\ Top.pc = "enter" /\ Async(t)
    BY <1>1 DEF FutureInv, Enter, Running
  <1>3. t \in DOMAIN frames /\ FrameOK(t) /\ t \in live /\ frames[t] \in FrameType
    BY <1>1, <1>2, TopIsOne DEF TreeInv
  <1>4. rc # Failed /\ orphans = {}
    BY <1>2 DEF AnswerInv
  <1>5. Resting(t)
    <2>1. \A i \in DOMAIN stack : i # Len(stack) => i \in 1 .. Len(stack) - 1
      BY <1>2 DEF TypeOK
    <2>2. \A i \in DOMAIN stack : stack[i].f = t => stack[i].pc = "enter"
      BY <1>1, <1>2, <2>1, Below DEF Top
    <2>3. QED
      BY <1>2, <2>2 DEF Resting
  <1>6. UNCHANGED <<frames, live, drops, client, orphans>>
    BY DEF Enter
  <1>7. CASE frames[t].state = Completed
    <2>1. Return(Ready)
      BY <1>1, <1>7 DEF Enter, Completed
    <2>2. QED
      BY <1>1, <1>2, <1>6, <1>7, <2>1, EnterFinished DEF Enter
  <1>8. ASSUME NEW pc \in {"body", "await"}, NEW at \in Nat, Goto(pc, at), UNCHANGED rc,
               frames[t].state # Completed,
               pc = "body" => frames[t].state = 0 /\ at = frames[t].made + 1,
               pc = "await" => /\ at = frames[t].made /\ at > 0 /\ frames[t].state = at
                               /\ Kid(t) \in live /\ frames[Kid(t)].state # Completed
        PROVE  FutureInv'
    <2>1. Onward(pc, at)
      BY <1>2, <1>6, <1>8 DEF Onward
    <2>2. TypeOK' /\ TreeInv' /\ DropsInv'
      <3>1. TypeOK'
        BY <1>2, <1>6, <1>8, GotoShape DEF TypeOK
      <3>2. TreeInv'
        BY <1>2, <1>6, SameTree
      <3>3. DropsInv'
        BY <1>2, <1>6 DEF DropsInv
      <3>4. QED
        BY <3>1, <3>2, <3>3
    <2>3. StackInv'
      BY <1>1, <1>2, <1>6, <1>8, <2>1, OnwardStack DEF Kid
    <2>4. RestInv'
      BY <1>2, <1>6, <2>1, OnwardKeepsRest
    <2>5. Kid(t)' = Kid(t)
      BY <1>6 DEF Kid
    <2>6. OwnedInv'
      <3>1. Holding(t) => pc = "await"
        BY <1>1, <1>2, <1>8, TopHolds
      <3>2. QED
        BY <1>1, <1>2, <1>4, <1>6, <2>1, <2>5, <3>1, OnwardKeepsOwned
    <2>7. AnswerInv'
      <3>1. Top'.f = t /\ Top'.pc = pc /\ stack' # <<>>
        BY <1>1, <1>2, <1>8, GotoShape, TopIsOne DEF Top
      <3>2. (frames[Top.f])' = frames[t] /\ Kid(Top.f)' = Kid(t) /\ rc' = rc
        BY <1>6, <1>8, <3>1 DEF Kid
      <3>3. (frames[Kid(Top.f)])' = frames[Kid(t)]
        BY <1>6, <3>2
      <3>4. QED
        BY <1>4, <1>6, <1>8, <3>1, <3>2, <3>3 DEF AnswerInv
    <2>8. QED
      BY <2>2, <2>3, <2>4, <2>6, <2>7 DEF FutureInv
  <1>9. CASE frames[t].state = 0
    <2>1. Goto("body", 1) /\ UNCHANGED rc
      BY <1>1, <1>9 DEF Enter, Completed
    <2>2. frames[t].made = 0 /\ 0 # Completed
      BY <1>2, <1>3, <1>4, <1>5, <1>9 DEF RestInv, Completed
    <2>3. QED
      BY <1>8, <1>9, <2>1, <2>2
  <1>10. CASE frames[t].state # 0 /\ frames[t].state # Completed
    <2>1. /\ frames[t].state = frames[t].made /\ frames[t].made \in Nat /\ frames[t].made > 0
          /\ frames[t].made \in 1 .. Len(Body)
      <3>1. frames[t].state = frames[t].made /\ frames[t].made <= Len(Body) /\ frames[t].made \in Nat
        BY <1>1, <1>2, <1>3, <1>10 DEF FrameOK, Body, FrameType
      <3>2. Len(Body) \in Nat
        BY <1>1, <1>2 DEF FutureAssumption, Body, Async
      <3>3. QED
        BY <1>10, <3>1, <3>2
    <2>2. Goto("await", frames[t].made) /\ UNCHANGED rc
      BY <1>1, <1>10, <2>1 DEF Enter, Completed
    <2>3. Kid(t) \in live /\ frames[Kid(t)].state # Completed
      BY <1>2, <1>3, <1>5, <2>1 DEF RestInv
    <2>4. QED
      BY <1>8, <1>10, <2>1, <2>2, <2>3
  <1>11. QED
    BY <1>7, <1>9, <1>10

LEMMA ContinueKeepsInv ==
    ASSUME FutureInv, Continue
    PROVE  FutureInv'
  <1>1. PICK t : t = Top.f
    OBVIOUS
  <1>2. /\ TypeOK /\ TreeInv /\ StackInv /\ AnswerInv /\ RestInv /\ OwnedInv /\ stack # <<>> /\ drops = <<>>
        /\ Top.pc = "wait" /\ rc = Ready
    BY DEF FutureInv, Continue, Running
  <1>3. /\ t \in DOMAIN frames /\ FrameOK(t) /\ t \in live /\ Top.at = frames[t].made /\ frames[t].made > 0
        /\ frames[t].made \in Nat /\ Kid(t) \in live /\ Async(t)
    BY <1>1, <1>2, TopIsOne DEF TreeInv, ActivationOK, Awaiting, Top, FrameType
  <1>4. rc # Failed /\ orphans = {} /\ 0 # Completed /\ 0 \in Int
    BY <1>2 DEF AnswerInv, Ready, Failed, Completed
  <1>5. /\ Child = Kid(t) /\ Kid(t) \in Nat
        /\ Goto("body", frames[t].made + 1) /\ SetState(0) /\ drops' = <<Dropping(Kid(t))>>
        /\ UNCHANGED <<live, rc, client, orphans>>
    <2>1. Child = Kid(t)
      BY <1>1, <1>3 DEF Child, Kid
    <2>2. Kid(t) \in Nat
      BY <1>2, <1>3, KidIsYounger DEF TypeOK
    <2>3. QED
      BY <1>1, <1>3, <2>1, <2>2 DEF Continue
  <1>6. StateOnly /\ frames'[t].state = 0
    BY <1>1, <1>2, <1>4, <1>5, SetStateShape, IsStateOnly
  <1>7. /\ drops' \in Seq(DropType) /\ Len(drops') = 1 /\ DOMAIN drops' = {1}
        /\ drops'[1].f = Kid(t) /\ drops'[1].pc = "switch"
    BY <1>5 DEF Dropping, DropType
  <1>8. Onward("body", frames[t].made + 1)
    BY <1>1, <1>2, <1>3, <1>5, <1>6, <1>7 DEF Onward, StateOnly
  <1>9. Kid(t)' = Kid(t) /\ frames'[t].made = frames[t].made
    BY <1>3, <1>6 DEF Kid, StateOnly
  <1>10. Top'.f = t /\ Top'.pc = "body" /\ stack' # <<>> /\ stack' \in Seq(ActivationType)
    BY <1>1, <1>2, <1>3, <1>5, GotoShape, TopIsOne DEF Top
  <1>11. TypeOK'
    BY <1>2, <1>5, <1>6, <1>7, <1>10 DEF TypeOK, StateOnly
  <1>12. TreeInv'
    BY <1>1, <1>2, <1>3, <1>4, <1>6, StateOnlyKeepsTree
  <1>13. StackInv'
    BY <1>1, <1>2, <1>3, <1>4, <1>6, <1>8, <1>9, OnwardStack
  <1>14. AnswerInv'
    BY <1>4, <1>5, <1>10 DEF AnswerInv
  <1>15. DropsInv'
    <2>1. Kid(Top.f)' = Kid(t) /\ (frames[Top.f])'.made > 0
      BY <1>3, <1>9, <1>10 DEF Kid
    <2>2. Dropped'.pc = "switch"
      BY <1>7 DEF Dropped
    <2>3. QED
      BY <1>3, <1>5, <1>7, <1>10, <2>1, <2>2 DEF DropsInv
  <1>16. RestInv'
    BY <1>2, <1>3, <1>5, <1>8, OnwardKeepsRest
  <1>17. OwnedInv'
    BY <1>1, <1>2, <1>3, <1>4, <1>5, <1>7, <1>8, OnwardKeepsOwned
  <1>18. QED
    BY <1>11, <1>12, <1>13, <1>14, <1>15, <1>16, <1>17 DEF FutureInv

(* The call before await number at makes the child.                         *)
WithChild(t, at, new) ==
    Append([frames EXCEPT ![t].kids[at] = new, ![t].made = @ + 1], NewFrame(Bodies[frames[t].fn][at]))

ChildMade(t, at, new) ==
    /\ frames' \in Seq(FrameType) /\ DOMAIN frames' = DOMAIN frames \cup {new} /\ new \notin DOMAIN frames
    /\ DOMAIN frames = 1 .. Len(frames) /\ Len(frames') = new /\ Len(frames) \in Nat
    /\ \A f \in DOMAIN frames : f # t => frames'[f] = frames[f]
    /\ frames'[t].fn = frames[t].fn /\ frames'[t].state = frames[t].state /\ frames'[t].made = at
    /\ Len(frames'[t].kids) = Len(frames[t].kids) /\ frames'[t].kids[at] = new
    /\ \A n \in 1 .. Len(frames[t].kids) : n # at => frames'[t].kids[n] = frames[t].kids[n]
    /\ frames'[new] = NewFrame(Bodies[frames[t].fn][at])

LEMMA MakesChild ==
    ASSUME FutureAssumption, TypeOK, TreeInv, StackInv, NEW t \in DOMAIN frames, Async(t),
           NEW at \in DOMAIN Bodies[frames[t].fn], frames[t].made = at - 1,
           NEW new, new = Len(frames) + 1,
           frames' = WithChild(t, at, new)
    PROVE  ChildMade(t, at, new)
  <1> DEFINE fn == Bodies[frames[t].fn][at]
             k == [frames[t].kids EXCEPT ![at] = new]
             m == frames[t].made + 1
             e == [frames[t] EXCEPT !.kids = k, !.made = m]
             F == [frames EXCEPT ![t] = e]
  <1>1. /\ frames \in Seq(FrameType) /\ frames[t] \in FrameType /\ new \in Nat /\ FrameOK(t)
        /\ Bodies[frames[t].fn] \in Seq(Callees) /\ at \in 1 .. Len(Bodies[frames[t].fn])
        /\ DOMAIN frames = 1 .. Len(frames) /\ Len(frames) \in Nat
    BY DEF TypeOK, TreeInv, FutureAssumption, Async
  <1>2. /\ frames[t].kids \in Seq(Nat) /\ at \in DOMAIN frames[t].kids
        /\ DOMAIN frames[t].kids = 1 .. Len(frames[t].kids)
    BY <1>1 DEF FrameType, FrameOK
  <1>3. /\ k \in Seq(Nat) /\ m \in Nat /\ m = at /\ Len(k) = Len(frames[t].kids) /\ k[at] = new
        /\ \A n \in 1 .. Len(frames[t].kids) : n # at => k[n] = frames[t].kids[n]
    <2>1. PICK s : s = frames[t].kids
      OBVIOUS
    <2>2. /\ s \in Seq(Nat) /\ at \in DOMAIN s /\ new \in Nat /\ k = [s EXCEPT ![at] = new]
          /\ DOMAIN s = 1 .. Len(s)
      BY <1>1, <1>2, <2>1
    <2> HIDE DEF k
    <2>3. k \in Seq(Nat) /\ Len(k) = Len(s)
      BY <2>2
    <2>4. k[at] = new /\ \A n \in 1 .. Len(s) : n # at => k[n] = s[n]
      BY <2>2
    <2>5. m \in Nat /\ m = at
      BY <1>1
    <2>6. QED
      BY <2>1, <2>3, <2>4, <2>5
  <1>4. e \in FrameType /\ e.fn = frames[t].fn /\ e.state = frames[t].state /\ e.made = m /\ e.kids = k
    <2> HIDE DEF k, m
    <2> QED  BY <1>1, <1>3 DEF FrameType
  <1>5. NewFrame(fn) \in FrameType
    <2>1. fn \in Callees
      BY <1>1
    <2>2. ASSUME fn \in DOMAIN Bodies
          PROVE  [n \in DOMAIN Bodies[fn] |-> 0] \in Seq(Nat)
      <3>1. Len(Bodies[fn]) \in Nat /\ DOMAIN Bodies[fn] = 1 .. Len(Bodies[fn])
        BY <2>2 DEF FutureAssumption
      <3>2. QED
        BY <3>1
    <2>3. <<>> \in Seq(Nat)
      OBVIOUS
    <2> HIDE DEF fn
    <2>4. QED
      BY <2>1, <2>2, <2>3 DEF NewFrame, FrameType
  <1>6. frames' = Append(F, NewFrame(fn))
    BY DEF WithChild
  <1> HIDE DEF e, fn, k, m
  <1>7. /\ F \in Seq(FrameType) /\ Len(F) = Len(frames) /\ F[t] = e
        /\ \A f \in DOMAIN frames : f # t => F[f] = frames[f]
    BY <1>1, <1>4
  <1> HIDE DEF F
  <1>8. /\ frames' \in Seq(FrameType) /\ Len(frames') = new /\ frames'[new] = NewFrame(fn)
        /\ \A f \in 1 .. Len(frames) : frames'[f] = F[f]
    <2> DEFINE g == NewFrame(fn)
    <2> HIDE DEF g
    <2>1. g \in FrameType /\ F \in Seq(FrameType)
      BY <1>5, <1>7 DEF g
    <2>2. /\ Append(F, g) \in Seq(FrameType) /\ Len(Append(F, g)) = Len(F) + 1
          /\ \A i \in 1 .. Len(F) : Append(F, g)[i] = F[i]
          /\ Append(F, g)[Len(F) + 1] = g
      BY <2>1, Pushed
    <2>3. QED
      BY <1>6, <1>7, <2>2 DEF g
  <1>9. DOMAIN frames' = DOMAIN frames \cup {new} /\ new \notin DOMAIN frames
    <2>1. DOMAIN frames' = 1 .. new
      BY <1>8
    <2>2. 1 .. new = 1 .. Len(frames) \cup {new} /\ new \notin 1 .. Len(frames)
      BY <1>1
    <2>3. QED
      BY <1>1, <2>1, <2>2
  <1>10. frames'[t] = e /\ \A f \in DOMAIN frames : f # t => frames'[f] = frames[f]
    BY <1>1, <1>7, <1>8
  <1>11. /\ frames'[t].fn = frames[t].fn /\ frames'[t].state = frames[t].state /\ frames'[t].made = at
         /\ Len(frames'[t].kids) = Len(frames[t].kids) /\ frames'[t].kids[at] = new
         /\ \A n \in 1 .. Len(frames[t].kids) : n # at => frames'[t].kids[n] = frames[t].kids[n]
    BY <1>3, <1>4, <1>10
  <1>12. frames'[new] = NewFrame(Bodies[frames[t].fn][at])
    BY <1>8 DEF fn
  <1>13. QED
    BY <1>1, <1>8, <1>9, <1>10, <1>11, <1>12 DEF ChildMade

LEMMA BodyMakes ==
    ASSUME FutureAssumption, FutureInv, RunBody, ~(Top.at > Len(Body))
    PROVE  FutureInv'
  <1>1. PICK t : t = Top.f
    OBVIOUS
  <1>2. PICK new : new = Len(frames) + 1
    OBVIOUS
  <1>3. PICK at : at = Top.at
    OBVIOUS
  <1>4. /\ TypeOK /\ TreeInv /\ StackInv /\ AnswerInv /\ RestInv /\ OwnedInv /\ stack # <<>> /\ drops = <<>>
        /\ Top.pc = "body"
    BY DEF FutureInv, RunBody, Running
  <1>5. /\ t \in DOMAIN frames /\ FrameOK(t) /\ t \in live /\ Async(t) /\ frames[t].state = 0
        /\ at = frames[t].made + 1 /\ frames[t] \in FrameType /\ at \in Nat /\ frames[t].made = at - 1
    BY <1>1, <1>3, <1>4, TopIsOne DEF TreeInv, ActivationOK, Top, FrameType
  <1>6. at \in DOMAIN Bodies[frames[t].fn] /\ at \in 1 .. Len(Bodies[frames[t].fn])
    <2>1. Bodies[frames[t].fn] \in Seq(Callees) /\ Body = Bodies[frames[t].fn] /\ frames[t].made \in Nat
      BY <1>1, <1>5 DEF FutureAssumption, Async, Body, FrameType
    <2>2. QED
      BY <1>3, <1>5, <2>1
  <1> DEFINE fn == Bodies[frames[t].fn][at]
  <1>7. /\ frames' = WithChild(t, at, new)
        /\ live' = live \cup {new} /\ Goto("await", at) /\ UNCHANGED <<rc, drops, client, orphans>>
    BY <1>1, <1>2, <1>3 DEF RunBody, Body, WithChild
  <1>8. ChildMade(t, at, new)
    BY <1>2, <1>4, <1>5, <1>6, <1>7, MakesChild
  <1>len. /\ frames' \in Seq(FrameType) /\ DOMAIN frames' = DOMAIN frames \cup {new} /\ new \notin DOMAIN frames
          /\ DOMAIN frames = 1 .. Len(frames) /\ Len(frames') = new /\ Len(frames) \in Nat
    BY <1>8 DEF ChildMade
  <1>others. \A f \in DOMAIN frames : f # t => frames'[f] = frames[f]
    BY <1>8 DEF ChildMade
  <1>parent. frames'[t].fn = frames[t].fn /\ frames'[t].state = frames[t].state /\ frames'[t].made = at
    BY <1>8 DEF ChildMade
  <1>kids. /\ Len(frames'[t].kids) = Len(frames[t].kids) /\ frames'[t].kids[at] = new
           /\ \A n \in 1 .. Len(frames[t].kids) : n # at => frames'[t].kids[n] = frames[t].kids[n]
    BY <1>8 DEF ChildMade
  <1>child. frames'[new] = NewFrame(fn)
    BY <1>8 DEF ChildMade
  <1>9. /\ frames'[new].fn = fn /\ frames'[new].state = 0 /\ frames'[new].made = 0
        /\ frames'[new].kids = IF fn \in DOMAIN Bodies THEN [n \in DOMAIN Bodies[fn] |-> 0] ELSE <<>>
    BY <1>child DEF NewFrame
  <1> HIDE DEF fn
  <1>10. 0 # Completed /\ rc # Failed /\ orphans = {} /\ ~(0 > 0) /\ new # t
    BY <1>4, <1>5, <1>len DEF AnswerInv, Completed
  <1>11. Onward("await", at)
    <2>1. live \subseteq live' /\ drops = <<>> /\ drops' = drops
      BY <1>4, <1>7
    <2>2. \A i \in DOMAIN drops' : drops'[i].pc = "switch"
      BY <2>1
    <2>3. Goto("await", at) /\ rc' = rc /\ client' = client /\ orphans' = orphans
      BY <1>7
    <2>4. QED
      BY <1>1, <1>others, <1>parent, <2>1, <2>2, <2>3 DEF Onward
  <1>12. Kid(t)' = new
    BY <1>parent, <1>kids DEF Kid
  <1>13. Top'.f = t /\ Top'.pc = "await" /\ stack' # <<>> /\ stack' \in Seq(ActivationType)
    <2>1. TypeOK /\ StackInv /\ TreeInv /\ stack # <<>> /\ at \in Nat /\ Goto("await", at)
      BY <1>4, <1>5, <1>7
    <2>2. QED
      BY <1>1, <2>1, GotoShape, TopIsOne DEF Top
  <1>14. TypeOK'
    <2>1. live' \subseteq DOMAIN frames' /\ orphans' \subseteq DOMAIN frames' \ {1} /\ 1 \in DOMAIN frames'
      BY <1>4, <1>7, <1>len DEF TypeOK
    <2>2. QED
      BY <1>4, <1>7, <1>len, <1>13, <2>1 DEF TypeOK
  <1>15. TreeInv'
    <2>1. ASSUME NEW f \in DOMAIN frames, f # t PROVE FrameOK(f)'
      <3>1. FrameOK(f) /\ frames'[f] = frames[f] /\ f \in Nat
        BY <1>4, <1>len, <1>others, <2>1 DEF TreeInv
      <3>2. \A n \in 1 .. frames[f].made : frames[f].kids[n] \in f + 1 .. Len(frames) =>
                                           frames[f].kids[n] \in f + 1 .. new
        BY <1>2, <1>len, <3>1
      <3>3. QED
        BY <1>len, <3>1, <3>2 DEF FrameOK, Async
    <2>2. FrameOK(t)'
      <3>1. Len(frames[t].kids) = Len(Bodies[frames[t].fn]) /\ frames[t].kids \in Seq(Nat)
        BY <1>5 DEF FrameOK, FrameType
      <3>2. Len(frames'[t].kids) = Len(frames[t].kids)
        BY <1>kids
      <3>3. \A n \in 1 .. at : frames'[t].kids[n] \in t + 1 .. new
        <4>1. \A n \in 1 .. at - 1 : frames[t].kids[n] \in t + 1 .. Len(frames)
          BY <1>5 DEF FrameOK
        <4>2. \A n \in 1 .. at - 1 : n \in 1 .. Len(frames[t].kids) /\ n # at
          <5>1. PICK k : k = Len(frames[t].kids)
            OBVIOUS
          <5>2. at \in Nat /\ at \in 1 .. k
            BY <1>5, <1>6, <3>1, <5>1
          <5>3. k \in Nat
            BY <3>1, <5>1
          <5>4. QED
            BY <5>1, <5>2, <5>3
        <4>3. \A n \in 1 .. at - 1 : frames'[t].kids[n] = frames[t].kids[n]
          BY <1>kids, <4>2
        <4>4. frames'[t].kids[at] = new /\ new \in t + 1 .. new
          <5>1. t \in 1 .. Len(frames) /\ Len(frames) \in Nat
            BY <1>5, <1>len
          <5>2. new \in t + 1 .. new
            BY <1>2, <5>1
          <5>3. QED
            BY <1>kids, <5>2
        <4>5. \A n \in 1 .. at : n \in 1 .. at - 1 \/ n = at
          BY <1>5
        <4>6. \A n \in 1 .. at - 1 : frames'[t].kids[n] \in t + 1 .. new
          <5>1. t \in Nat /\ Len(frames) \in Nat /\ new = Len(frames) + 1
            BY <1>2, <1>5, <1>len
          <5>2. \A x \in t + 1 .. Len(frames) : x \in t + 1 .. new
            BY <5>1
          <5>3. QED
            BY <4>1, <4>3, <5>2
        <4>7. QED
          BY <4>4, <4>5, <4>6
      <3>4. Async(t)' /\ at <= Len(frames[t].kids)
        BY <1>5, <1>6, <1>parent, <3>1 DEF Async
      <3>5. QED
        BY <1>5, <1>len, <1>parent, <1>10, <3>1, <3>2, <3>3, <3>4 DEF FrameOK
    <2>3. FrameOK(new)'
      <3>1. Async(new)' <=> fn \in DOMAIN Bodies
        BY <1>9 DEF Async
      <3>2. ASSUME fn \in DOMAIN Bodies
            PROVE  Len([n \in DOMAIN Bodies[fn] |-> 0]) = Len(Bodies[fn]) /\ 0 <= Len(Bodies[fn])
        <4>1. Len(Bodies[fn]) \in Nat /\ DOMAIN Bodies[fn] = 1 .. Len(Bodies[fn])
          BY <3>2 DEF FutureAssumption
        <4>2. QED
          BY <4>1
      <3>3. \A n \in 1 .. 0 : FALSE
        OBVIOUS
      <3>4. QED
        BY <1>9, <1>10, <3>1, <3>2, <3>3 DEF FrameOK
    <2>4. OneParent'
      <3>1. ASSUME NEW f \in DOMAIN frames', NEW m \in 1 .. frames'[f].made
            PROVE  \/ f = t /\ m = at /\ frames'[f].kids[m] = new
                   \/ /\ f \in DOMAIN frames /\ m \in 1 .. frames[f].made /\ frames'[f].kids[m] = frames[f].kids[m]
                      /\ frames[f].kids[m] # new
        <4>1. f # new
          BY <1>9, <3>1
        <4>2. CASE f # t
          <5>1. f \in DOMAIN frames /\ frames'[f] = frames[f]
            BY <1>len, <1>others, <4>1, <4>2
          <5>2. FrameOK(f) /\ f \in Nat /\ frames[f].made \in Nat /\ frames[f].made >= m /\ m \in Nat /\ m > 0
            <6>1. frames[f] \in FrameType /\ FrameOK(f) /\ f \in Nat
              BY <1>4, <1>len, <5>1 DEF TypeOK, TreeInv
            <6>2. QED
              BY <5>1, <6>1 DEF FrameType
          <5>3. frames[f].kids[m] \in f + 1 .. Len(frames)
            BY <5>1, <5>2 DEF FrameOK
          <5>4. QED
            BY <1>2, <1>len, <5>1, <5>2, <5>3
        <4>3. CASE f = t /\ m = at
          BY <1>kids, <4>3
        <4>4. CASE f = t /\ m # at
          <5>1. m \in 1 .. frames[t].made /\ m \in Nat /\ m \in 1 .. Len(frames[t].kids)
            <6>1. Len(frames[t].kids) = Len(Bodies[frames[t].fn]) /\ frames[t].kids \in Seq(Nat)
              BY <1>5 DEF FrameOK, FrameType
            <6>2. m \in 1 .. at /\ m # at
              BY <1>parent, <3>1, <4>4
            <6>3. PICK k \in Nat : k = Len(frames[t].kids)
              BY <6>1
            <6>4. at \in Nat /\ at \in 1 .. k /\ frames[t].made = at - 1
              BY <1>5, <1>6, <6>1, <6>3
            <6>5. m \in 1 .. at - 1 /\ m \in Nat /\ m \in 1 .. k
              BY <6>2, <6>4
            <6>6. QED
              BY <6>3, <6>4, <6>5
          <5>2. frames'[t].kids[m] = frames[t].kids[m]
            BY <1>kids, <4>4, <5>1
          <5>3. frames[t].kids[m] \in t + 1 .. Len(frames)
            BY <1>5, <5>1 DEF FrameOK
          <5>4. frames[t].kids[m] # new
            <6>1. t \in Nat /\ Len(frames) \in Nat
              <7>1. t \in 1 .. Len(frames) /\ Len(frames) \in Nat
                BY <1>5, <1>len
              <7>2. QED
                BY <7>1
            <6>2. QED
              BY <1>2, <5>3, <6>1
          <5>5. QED
            BY <1>5, <4>4, <5>1, <5>2, <5>4
        <4>5. QED
          BY <4>2, <4>3, <4>4
      <3>2. SUFFICES ASSUME NEW f \in DOMAIN frames', NEW g \in DOMAIN frames',
                            NEW m \in 1 .. frames'[f].made, NEW n \in 1 .. frames'[g].made,
                            frames'[f].kids[m] = frames'[g].kids[n]
                     PROVE  f = g /\ m = n
        BY DEF OneParent
      <3>3. OneParent
        BY <1>4 DEF TreeInv
      <3>4. QED
        BY <3>1, <3>2, <3>3 DEF OneParent
    <2>5. QED
      BY <1>len, <2>1, <2>2, <2>3, <2>4 DEF TreeInv
  <1>16. StackInv'
    <2>1. at > 0 /\ frames'[t].made = at /\ frames'[t].state = 0 /\ Kid(t)' \in live'
      <3>1. at > 0
        BY <1>6
      <3>2. frames'[t].made = at /\ frames'[t].state = 0
        BY <1>5, <1>parent
      <3>3. QED
        BY <1>7, <1>12, <3>1, <3>2
    <2>2. QED
      BY <1>1, <1>4, <1>5, <1>10, <1>11, <2>1, OnwardStack
  <1>17. AnswerInv'
    <2>1. Kid(Top.f)' = new
      BY <1>12, <1>13 DEF Kid
    <2>2. (frames[Kid(Top.f)])' = frames'[new]
      BY <2>1
    <2>3. QED
      BY <1>7, <1>9, <1>10, <1>13, <2>2 DEF AnswerInv
  <1>18. DropsInv'
    BY <1>4, <1>7 DEF DropsInv
  <1>19. RestInv'
    BY <1>1, <1>4, <1>5, <1>7, <1>9, <1>10, <1>11, OnwardKeepsRest
  <1>20. OwnedInv'
    <2>1. ~Holding(t)
      BY <1>1, <1>4, TopHolds
    <2>2. QED
      BY <1>1, <1>4, <1>5, <1>7, <1>10, <1>11, <1>12, <2>1, OnwardKeepsOwned
  <1>21. QED
    BY <1>14, <1>15, <1>16, <1>17, <1>18, <1>19, <1>20 DEF FutureInv

LEMMA RunBodyKeepsInv ==
    ASSUME FutureAssumption, FutureInv, RunBody
    PROVE  FutureInv'
  <1>1. CASE Top.at > Len(Body)
    BY <1>1, BodyEnds DEF RunBody
  <1>2. CASE ~(Top.at > Len(Body))
    BY <1>2, BodyMakes
  <1>3. QED
    BY <1>1, <1>2

(* A poll of the child puts an activation of it on top of the waiting one.  *)
LEMMA PollChildShape ==
    ASSUME TypeOK, TreeInv, StackInv, PollChild, NEW t, t = Top.f, NEW n, n = Len(stack)
    PROVE  /\ stack' \in Seq(ActivationType) /\ Len(stack') = n + 1 /\ DOMAIN stack' = 1 .. n + 1
           /\ \A i \in 1 .. n - 1 : stack'[i] = stack[i]
           /\ stack'[n].f = t /\ stack'[n].pc = "wait" /\ stack'[n].at = Top.at
           /\ stack'[n + 1].f = Kid(t) /\ stack'[n + 1].pc = "enter"
  <1>1. n \in Nat
    BY DEF TypeOK
  <1>2. stack # <<>> /\ Top.pc = "await"
    BY DEF PollChild, Running
  <1>3. /\ t \in DOMAIN frames /\ frames[t].made > 0 /\ Top \in ActivationType
        /\ n \in 1 .. n /\ DOMAIN stack = 1 .. n /\ Top.at = frames[t].made
    BY <1>2, TopIsOne DEF ActivationOK, Awaiting, Top
  <1>4. Child = Kid(t) /\ Kid(t) \in Nat
    BY <1>2, <1>3, KidIsYounger DEF Child, Kid, TypeOK
  <1> DEFINE e == [Top EXCEPT !.pc = "wait"]
             w == [stack EXCEPT ![n] = e]
             a == Activation(Kid(t))
  <1>5. e \in ActivationType /\ e.f = t /\ e.pc = "wait" /\ e.at = Top.at
    BY <1>3 DEF ActivationType
  <1>6. a \in ActivationType /\ a.f = Kid(t) /\ a.pc = "enter"
    BY <1>4 DEF Activation, ActivationType
  <1>7. stack' = Append(w, a)
    BY <1>4 DEF PollChild, Top
  <1> HIDE DEF e, a
  <1>8. w \in Seq(ActivationType) /\ Len(w) = n /\ w[n] = e /\ \A i \in 1 .. n - 1 : w[i] = stack[i]
    BY <1>2, <1>5, Replaced DEF TypeOK
  <1> HIDE DEF w
  <1>9. /\ Append(w, a) \in Seq(ActivationType) /\ Len(Append(w, a)) = n + 1 /\ Append(w, a)[n + 1] = a
        /\ \A i \in 1 .. n : Append(w, a)[i] = w[i]
    BY <1>6, <1>8, Pushed
  <1>10. DOMAIN Append(w, a) = 1 .. n + 1 /\ \A i \in 1 .. n - 1 : i \in 1 .. n
    BY <1>9
  <1>11. QED
    BY <1>3, <1>5, <1>6, <1>7, <1>8, <1>9, <1>10

LEMMA PollChildKeepsInv ==
    ASSUME FutureInv, PollChild
    PROVE  FutureInv'
  <1>1. PICK t : t = Top.f
    OBVIOUS
  <1>2. PICK n \in Nat : n = Len(stack)
    BY DEF FutureInv, TypeOK
  <1>3. /\ TypeOK /\ TreeInv /\ StackInv /\ AnswerInv /\ RestInv /\ OwnedInv /\ stack # <<>> /\ drops = <<>>
        /\ Top.pc = "await" /\ UNCHANGED <<frames, live, drops, rc, client, orphans>>
    BY DEF FutureInv, PollChild, Running
  <1>4. /\ t \in DOMAIN frames /\ t \in live /\ Top.at = frames[t].made /\ frames[t].made > 0
        /\ Kid(t) \in live /\ Async(t) /\ Top \in ActivationType /\ n \in 1 .. n /\ DOMAIN stack = 1 .. n
    BY <1>1, <1>2, <1>3, TopIsOne DEF ActivationOK, Awaiting, Top
  <1>5. Child = Kid(t) /\ Kid(t) \in DOMAIN frames /\ Kid(t) \in Nat /\ Kid(t) > t
    BY <1>1, <1>3, <1>4, KidIsYounger DEF Child, Kid, TypeOK
  <1>6. frames[t].state # Completed
    BY <1>1, <1>2, <1>3, <1>4 DEF StackInv, ActivationOK, Top
  <1>7. /\ rc # Failed /\ orphans = {} /\ frames[Kid(t)].state # Completed
        /\ frames[t].state = 0 /\ Async(Kid(t)) => frames[Kid(t)].state = 0
    BY <1>1, <1>3 DEF AnswerInv
  <1>8. /\ stack' \in Seq(ActivationType) /\ Len(stack') = n + 1 /\ DOMAIN stack' = 1 .. n + 1
        /\ \A i \in 1 .. n - 1 : stack'[i] = stack[i]
        /\ stack'[n].f = t /\ stack'[n].pc = "wait" /\ stack'[n].at = Top.at
        /\ stack'[n + 1].f = Kid(t) /\ stack'[n + 1].pc = "enter"
    BY <1>1, <1>2, <1>3, PollChildShape DEF FutureInv
  <1>9. \A i \in 1 .. n + 1 : i \in 1 .. n - 1 \/ i = n \/ i = n + 1
    OBVIOUS
  <1>10. Top'.f = Kid(t) /\ Top'.pc = "enter" /\ stack' # <<>>
    BY <1>8 DEF Top
  <1>11. TypeOK' /\ TreeInv' /\ DropsInv'
    <2>1. TypeOK'
      BY <1>3, <1>8 DEF TypeOK
    <2>2. TreeInv'
      BY <1>3, SameTree
    <2>3. DropsInv'
      BY <1>3 DEF DropsInv
    <2>4. QED
      BY <2>1, <2>2, <2>3
  <1>12. \A i \in 1 .. n : stack'[i].f = stack[i].f
    BY <1>1, <1>2, <1>8, <1>9 DEF Top
  <1>13. StackInv'
    <2>1. ASSUME NEW i \in 1 .. n - 1 PROVE ActivationOK(i)'
      <3>1. ActivationOK(i) /\ stack'[i] = stack[i]
        BY <1>2, <1>3, <1>8, Below
      <3>2. QED
        BY <1>3, <3>1 DEF ActivationOK, Awaiting, Kid, Async
    <2>2. ActivationOK(n)'
      <3>1. Kid(stack[n].f)' = Kid(t) /\ Async(stack[n].f)' /\ frames'[stack'[n].f] = frames[t]
        BY <1>3, <1>4, <1>8 DEF Kid, Async
      <3>2. QED
        BY <1>3, <1>4, <1>6, <1>8, <3>1 DEF ActivationOK, Awaiting
    <2>3. ActivationOK(n + 1)'
      BY <1>3, <1>4, <1>7, <1>8 DEF ActivationOK, Awaiting
    <2>4. stack'[1].f = 1
      BY <1>2, <1>3, <1>4, <1>12 DEF StackInv
    <2>5. ASSUME NEW i \in 1 .. n + 1, i < n + 1
          PROVE  /\ stack'[i].pc = "wait" /\ stack'[i + 1].f = Kid(stack[i].f)'
                 /\ frames'[stack'[i].f].state = 0 /\ Async(stack[i + 1].f)' => frames'[stack'[i + 1].f].state = 0
      <3>1. CASE i = n
        <4>1. Kid(stack[n].f)' = Kid(t) /\ (Async(stack[n + 1].f)' <=> Async(Kid(t)))
          BY <1>3, <1>8 DEF Kid, Async
        <4>2. QED
          BY <1>3, <1>7, <1>8, <3>1, <4>1
      <3>2. CASE i # n
        <4>1. i \in 1 .. n - 1 /\ i \in DOMAIN stack /\ i < Len(stack) /\ i + 1 \in 1 .. n
          BY <1>2, <1>4, <2>5, <3>2
        <4>2. /\ stack[i].pc = "wait" /\ stack[i + 1].f = Kid(stack[i].f)
              /\ frames[stack[i].f].state = 0 /\ Async(stack[i + 1].f) => frames[stack[i + 1].f].state = 0
          BY <1>3, <4>1 DEF StackInv
        <4>3. stack'[i] = stack[i] /\ stack'[i + 1].f = stack[i + 1].f
          BY <1>8, <1>12, <4>1
        <4>4. QED
          BY <1>3, <4>2, <4>3 DEF Kid, Async
      <3>3. QED
        BY <3>1, <3>2
    <2>6. ASSUME NEW i \in 1 .. n + 1, NEW j \in 1 .. n + 1, i < j
          PROVE  stack'[i].f < stack'[j].f
      <3>1. CASE j = n + 1
        <4>1. i \in 1 .. n /\ (i = n \/ i \in 1 .. n - 1)
          BY <2>6, <3>1
        <4>2. stack[i].f \in Nat /\ (stack[i].f < t \/ stack[i].f = t)
          <5>1. i \in 1 .. n - 1 => stack[i].f < t
            BY <1>1, <1>2, <1>3, Below
          <5>2. stack[i] \in ActivationType
            BY <1>3, <1>4, <4>1 DEF TypeOK
          <5>3. QED
            BY <1>1, <1>2, <4>1, <5>1, <5>2 DEF Top, ActivationType
        <4>3. t \in Nat
          BY <1>3, <1>4 DEF TypeOK
        <4>4. QED
          BY <1>5, <1>8, <1>12, <3>1, <4>1, <4>2, <4>3
      <3>2. CASE j # n + 1
        <4>1. i \in DOMAIN stack /\ j \in DOMAIN stack /\ i \in 1 .. n /\ j \in 1 .. n
          BY <1>4, <2>6, <3>2
        <4>2. QED
          BY <1>3, <1>12, <2>6, <4>1 DEF StackInv
      <3>3. QED
        BY <3>1, <3>2
    <2>7. QED
      BY <1>8, <1>9, <2>1, <2>2, <2>3, <2>4, <2>5, <2>6 DEF StackInv
  <1>14. AnswerInv'
    BY <1>3, <1>7, <1>10 DEF AnswerInv
  <1>15. ASSUME NEW f PROVE Resting(f)' <=> Resting(f)
    <2>1. Resting(f) => Resting(f)'
      <3>1. Resting(f) => f # t
        BY <1>1, <1>2, <1>3, <1>4 DEF Resting, Top
      <3>2. QED
        BY <1>3, <1>4, <1>8, <1>9, <3>1 DEF Resting
    <2>2. Resting(f)' => Resting(f)
      <3>1. Resting(f)' => f # t
        <4>1. n \in DOMAIN stack'
          BY <1>4, <1>8
        <4>2. QED
          BY <1>8, <4>1 DEF Resting
      <3>2. ASSUME Resting(f)', NEW i \in DOMAIN stack, stack[i].f = f PROVE stack[i].pc = "enter"
        <4>1. i \in 1 .. n - 1 /\ i \in 1 .. n + 1
          <5>1. i \in 1 .. n /\ stack[n].f = t /\ f # t
            BY <1>1, <1>2, <1>4, <3>1, <3>2 DEF Top
          <5>2. QED
            BY <3>2, <5>1
        <4>2. QED
          BY <1>8, <3>2, <4>1 DEF Resting
      <3>3. QED
        BY <1>3, <3>2 DEF Resting
    <2>3. QED
      BY <2>1, <2>2
  <1>16. RestInv'
    BY <1>3, <1>15 DEF RestInv, Async, Kid
  <1>17. OwnedInv'
    <2>1. ASSUME NEW p, Holding(p) PROVE Holding(p)'
      <3>1. CASE Resting(p) /\ frames[p].state > 0
        BY <1>3, <1>15, <3>1 DEF Holding
      <3>2. CASE \E i \in DOMAIN stack : stack[i].f = p /\ Awaiting(i)
        <4>1. PICK i \in DOMAIN stack : stack[i].f = p /\ Awaiting(i)
          BY <3>2
        <4>2. i \in 1 .. n /\ i \in DOMAIN stack' /\ (i = n \/ i \in 1 .. n - 1)
          BY <1>4, <1>8
        <4>3. stack'[i].f = p /\ stack'[i].pc \in {"await", "wait"}
          BY <1>8, <1>12, <4>1, <4>2 DEF Awaiting
        <4>4. QED
          BY <4>2, <4>3 DEF Holding, Awaiting
      <3>3. QED
        BY <2>1, <3>1, <3>2 DEF Holding
    <2>2. client # "gone" /\ 1 \in live
      BY <1>3 DEF OwnedInv
    <2>3. \A f \in live : f = 1 \/ \E p \in live : Async(p)' /\ Holding(p)' /\ Kid(p)' = f
      <3>1. \A f \in live : f = 1 \/ \E p \in live : Async(p) /\ Holding(p) /\ Kid(p) = f
        BY <1>3, <1>7 DEF OwnedInv
      <3>2. QED
        BY <1>3, <2>1, <3>1 DEF Async, Kid
    <2>4. QED
      BY <1>3, <1>7, <2>2, <2>3 DEF OwnedInv
  <1>18. QED
    BY <1>11, <1>13, <1>14, <1>16, <1>17 DEF FutureInv

(* What is being dropped runs in no activation of poll.                     *)
LEMMA DroppedRests ==
    ASSUME TypeOK, TreeInv, StackInv, DropsInv, drops # <<>>
    PROVE  /\ Len(drops) \in 1 .. Len(drops) /\ DOMAIN drops = 1 .. Len(drops) /\ Len(drops) \in Nat
           /\ Dropped \in DropType /\ Dropped.f \in live /\ Dropped.f \in DOMAIN frames /\ Dropped.f \in Nat
           /\ \A i \in 1 .. Len(drops) - 1 : drops[i].f < Dropped.f /\ drops[i].f # Dropped.f
           /\ \A i \in DOMAIN stack : stack[i].f # Dropped.f
  <1>1. /\ Len(drops) \in 1 .. Len(drops) /\ DOMAIN drops = 1 .. Len(drops) /\ Len(drops) \in Nat
        /\ Dropped \in DropType /\ drops[1] \in DropType
    BY DEF TypeOK, Dropped
  <1>2. Dropped.f \in live /\ Dropped.f \in DOMAIN frames /\ Dropped.f \in Nat
    BY <1>1 DEF DropsInv, Dropped, TypeOK
  <1>3. \A i \in 1 .. Len(drops) - 1 : drops[i].f < Dropped.f /\ drops[i].f # Dropped.f
    <2> TAKE i \in 1 .. Len(drops) - 1
    <2>1. i \in DOMAIN drops /\ i < Len(drops) /\ Len(drops) \in DOMAIN drops
      BY <1>1
    <2>2. drops[i].f < Dropped.f /\ drops[i] \in DropType
      BY <2>1 DEF DropsInv, Dropped, TypeOK
    <2>3. QED
      BY <1>2, <2>2 DEF DropType
  <1>4. drops[1].f < Dropped.f \/ drops[1].f = Dropped.f
    BY <1>1, <1>3 DEF Dropped
  <1>5. ASSUME NEW i \in DOMAIN stack PROVE stack[i].f # Dropped.f
    <2>1. stack # <<>>
      BY <1>5
    <2>2. Top.f \in DOMAIN frames /\ frames[Top.f].made > 0 /\ drops[1].f = Kid(Top.f) /\ DOMAIN stack = 1 .. Len(stack)
          /\ Len(stack) \in Nat
      BY <2>1, TopIsOne DEF DropsInv, TypeOK
    <2>3. Kid(Top.f) > Top.f /\ Top.f \in Nat /\ Kid(Top.f) \in Nat
      BY <2>2, KidIsYounger DEF TypeOK
    <2>4. i \in 1 .. Len(stack) - 1 \/ i = Len(stack)
      BY <1>5, <2>2
    <2>5. stack[i].f \in Nat /\ (stack[i].f < Top.f \/ stack[i].f = Top.f)
      <3>1. stack[i] \in ActivationType
        BY <1>5 DEF TypeOK
      <3>2. QED
        BY <2>1, <2>4, <3>1, Below DEF Top, ActivationType
    <2>6. QED
      BY <1>2, <1>4, <2>2, <2>3, <2>5
  <1>6. QED
    BY <1>1, <1>2, <1>3, <1>5

LEMMA DropChildKeepsInv ==
    ASSUME FutureInv, DropChild
    PROVE  FutureInv'
  <1>1. PICK d : d = Dropped.f
    OBVIOUS
  <1>2. PICK n \in Nat : n = Len(drops)
    BY DEF FutureInv, TypeOK
  <1>3. /\ TypeOK /\ TreeInv /\ StackInv /\ AnswerInv /\ DropsInv /\ RestInv /\ OwnedInv /\ drops # <<>>
        /\ Dropped.pc = "switch" /\ UNCHANGED <<frames, live, stack, rc, client, orphans>>
    BY DEF FutureInv, DropChild
  <1>4. /\ n \in 1 .. n /\ DOMAIN drops = 1 .. n /\ Dropped \in DropType /\ drops[n] = Dropped
        /\ d \in live /\ d \in DOMAIN frames /\ d \in Nat /\ drops \in Seq(DropType)
        /\ \A i \in 1 .. n - 1 : drops[i].f < d /\ drops[i].f # d
        /\ \A i \in DOMAIN stack : stack[i].f # d
    BY <1>1, <1>2, <1>3, DroppedRests DEF Dropped, TypeOK
  <1>5. Resting(d)
    <2>1. \A i \in 1 .. n : i \in 1 .. n - 1 \/ i = n
      OBVIOUS
    <2>2. QED
      BY <1>3, <1>4, <2>1 DEF Resting
  <1> DEFINE e == [Dropped EXCEPT !.pc = "free"]
             freeing == [drops EXCEPT ![n] = e]
             goes == Async(d) /\ frames[d].state > 0
  <1>6. e \in DropType /\ e.f = d /\ e.pc = "free"
    BY <1>1, <1>4 DEF DropType
  <1>7. drops' = IF goes THEN Append(freeing, Dropping(AwaitedChild(d))) ELSE freeing
    BY <1>1, <1>2 DEF DropChild, Dropped
  <1> HIDE DEF e
  <1>8. freeing \in Seq(DropType) /\ Len(freeing) = n /\ freeing[n] = e /\ \A i \in 1 .. n - 1 : freeing[i] = drops[i]
    BY <1>2, <1>3, <1>4, <1>6, Replaced
  <1> HIDE DEF freeing
  <1>9. ASSUME goes
        PROVE  /\ AwaitedChild(d) = Kid(d) /\ frames[d].made > 0 /\ Kid(d) \in live /\ Kid(d) > d
               /\ Kid(d) \in Nat /\ Kid(d) \in DOMAIN frames
    <2>1. FrameOK(d) /\ frames[d].state = frames[d].made /\ frames[d].made > 0
      BY <1>3, <1>4, <1>9 DEF TreeInv, FrameOK, Completed
    <2>2. AwaitedChild(d) = Kid(d)
      BY <2>1 DEF AwaitedChild, Kid
    <2>3. Kid(d) \in live
      BY <1>3, <1>4, <1>5, <1>9 DEF RestInv
    <2>4. Kid(d) > d /\ Kid(d) \in DOMAIN frames
      BY <1>3, <1>4, <2>1, KidIsYounger
    <2>5. QED
      BY <1>3, <2>1, <2>2, <2>3, <2>4 DEF TypeOK
  <1>10. PICK m \in {n, n + 1} :
            /\ drops' \in Seq(DropType) /\ Len(drops') = m /\ DOMAIN drops' = 1 .. m
            /\ \A i \in 1 .. n - 1 : drops'[i] = drops[i]
            /\ drops'[n].f = d /\ drops'[n].pc = "free"
            /\ m = n => ~goes
            /\ m = n + 1 => goes /\ drops'[n + 1].f = Kid(d) /\ drops'[n + 1].pc = "switch"
    <2>1. CASE ~goes
      <3>1. drops' = freeing
        BY <1>7, <2>1
      <3>2. QED
        BY <1>6, <1>8, <2>1, <3>1
    <2>2. CASE goes
      <3> DEFINE g == Dropping(Kid(d))
      <3>1. drops' = Append(freeing, g)
        BY <1>7, <1>9, <2>2
      <3>2. g \in DropType /\ g.f = Kid(d) /\ g.pc = "switch"
        BY <1>9, <2>2 DEF Dropping, DropType
      <3> HIDE DEF g
      <3>3. /\ Append(freeing, g) \in Seq(DropType) /\ Len(Append(freeing, g)) = n + 1
            /\ \A i \in 1 .. n : Append(freeing, g)[i] = freeing[i]
            /\ Append(freeing, g)[n + 1] = g
        BY <1>8, <3>2, Pushed
      <3>4. DOMAIN Append(freeing, g) = 1 .. n + 1 /\ \A i \in 1 .. n - 1 : i \in 1 .. n
        BY <3>3
      <3> HIDE DEF goes
      <3>5. QED
        BY <1>4, <1>6, <1>8, <2>2, <3>1, <3>2, <3>3, <3>4
    <2>3. QED
      BY <2>1, <2>2
  <1> HIDE DEF goes
  <1>11. \A i \in 1 .. n : drops'[i].f = drops[i].f
    <2>1. \A i \in 1 .. n : i \in 1 .. n - 1 \/ i = n
      OBVIOUS
    <2>2. QED
      BY <1>1, <1>4, <1>10, <2>1
  <1>12. \A i \in 1 .. m : i \in 1 .. n - 1 \/ i = n \/ (i = n + 1 /\ m = n + 1)
    BY <1>10
  <1>13. TypeOK' /\ TreeInv' /\ StackInv'
    <2>1. TypeOK'
      BY <1>3, <1>10 DEF TypeOK
    <2>2. TreeInv'
      BY <1>3, SameTree
    <2>3. StackInv'
      BY <1>3, SameStack
    <2>4. QED
      BY <2>1, <2>2, <2>3
  <1>14. AnswerInv'
    <2>1. stack # <<>> => Top.pc = "body"
      BY <1>3 DEF DropsInv
    <2>2. Top' = Top
      BY <1>3 DEF Top
    <2>3. QED
      BY <1>3, <2>1, <2>2 DEF AnswerInv
  <1>15. DropsInv'
    <2>1. \A i \in 1 .. m : drops'[i].f \in live
      BY <1>3, <1>4, <1>9, <1>10, <1>12 DEF DropsInv
    <2>2. ASSUME NEW i \in 1 .. m, NEW j \in 1 .. m, i < j PROVE drops'[i].f < drops'[j].f
      <3>1. CASE j \in 1 .. n
        <4>1. i \in 1 .. n /\ i \in DOMAIN drops /\ j \in DOMAIN drops
          BY <1>4, <2>2, <3>1
        <4>2. QED
          BY <1>3, <1>11, <2>2, <3>1, <4>1 DEF DropsInv
      <3>2. CASE j \notin 1 .. n
        <4>1. j = n + 1 /\ m = n + 1 /\ (i \in 1 .. n - 1 \/ i = n)
          BY <1>10, <2>2, <3>2
        <4>2. drops'[j].f = Kid(d) /\ Kid(d) > d /\ Kid(d) \in Nat
          BY <1>9, <1>10, <4>1
        <4>3. drops'[i].f = d \/ (drops'[i].f < d /\ drops'[i] \in DropType)
          BY <1>4, <1>10, <4>1
        <4>4. QED
          BY <1>4, <4>2, <4>3 DEF DropType
      <3>3. QED
        BY <3>1, <3>2
    <2>3. ASSUME NEW i \in 1 .. m, i < m
          PROVE  /\ drops'[i].pc = "free" /\ Async(drops[i].f)' /\ frames'[drops'[i].f].state > 0
                 /\ drops'[i + 1].f = Kid(drops[i].f)'
      <3>1. CASE i = n
        BY <1>3, <1>10, <2>3, <3>1 DEF goes, Async, Kid
      <3>2. CASE i # n
        <4>1. i \in 1 .. n - 1 /\ i + 1 \in 1 .. n /\ i \in DOMAIN drops /\ i < Len(drops)
          BY <1>2, <1>4, <1>10, <2>3, <3>2
        <4>2. QED
          BY <1>3, <1>10, <1>11, <4>1 DEF DropsInv, Async, Kid
      <3>3. QED
        BY <3>1, <3>2
    <2>4. Dropped'.pc = "free" => ~(Async(Dropped.f)' /\ (frames[Dropped.f].state)' > 0)
      BY <1>3, <1>10 DEF Dropped, goes, Async
    <2>5. drops'[1].f = drops[1].f /\ Top' = Top /\ Kid(Top.f)' = Kid(Top.f) /\ drops' # <<>>
      BY <1>3, <1>4, <1>10, <1>11 DEF Top, Kid
    <2>6. \/ stack' = <<>> /\ drops'[1].f = 1 /\ client' = "gone"
          \/ stack' # <<>> /\ Top'.pc = "body" /\ (frames[Top.f].made)' > 0 /\ drops'[1].f = Kid(Top.f)'
      BY <1>3, <2>5 DEF DropsInv
    <2>7. QED
      BY <1>3, <1>10, <2>1, <2>2, <2>3, <2>4, <2>6 DEF DropsInv
  <1>16. RestInv'
    <2>1. ASSUME NEW f, Resting(f)' PROVE Resting(f)
      <3>1. \A i \in 1 .. n - 1 : i \in DOMAIN drops'
        BY <1>10
      <3>2. \A i \in 1 .. n : i \in 1 .. n - 1 \/ i = n
        OBVIOUS
      <3>3. QED
        BY <1>3, <1>4, <1>10, <2>1, <3>1, <3>2 DEF Resting
    <2>2. QED
      BY <1>3, <2>1 DEF RestInv, Async, Kid
  <1>17. OwnedInv'
    <2>1. ASSUME NEW p, p # d, Holding(p) PROVE Holding(p)'
      <3>1. Resting(p) => Resting(p)'
        BY <1>3, <1>4, <1>10, <1>12, <2>1 DEF Resting
      <3>2. QED
        BY <1>3, <2>1, <3>1 DEF Holding, Awaiting
    <2>2. Holding(d) /\ Async(d) => m = n + 1
      <3>1. Holding(d) => frames[d].state > 0
        BY <1>4 DEF Holding
      <3>2. QED
        BY <1>10, <3>1 DEF goes
    <2>3. ASSUME NEW f \in live
          PROVE  \/ f = 1 \/ f \in orphans \/ \E i \in DOMAIN drops' : drops'[i].f = f
                 \/ \E p \in live : Async(p)' /\ Holding(p)' /\ Kid(p)' = f
      <3>1. CASE \E i \in DOMAIN drops : drops[i].f = f
        <4>1. PICK i \in DOMAIN drops : drops[i].f = f
          BY <3>1
        <4>2. i \in 1 .. n /\ i \in DOMAIN drops'
          BY <1>4, <1>10
        <4>3. QED
          BY <1>11, <4>1, <4>2
      <3>2. CASE \E p \in live : Async(p) /\ Holding(p) /\ Kid(p) = f
        <4>1. PICK p \in live : Async(p) /\ Holding(p) /\ Kid(p) = f
          BY <3>2
        <4>2. CASE p = d
          <5>1. m = n + 1 /\ n + 1 \in DOMAIN drops' /\ drops'[n + 1].f = f
            BY <1>10, <2>2, <4>1, <4>2
          <5>2. QED
            BY <5>1
        <4>3. CASE p # d
          BY <1>3, <2>1, <4>1, <4>3 DEF Async, Kid
        <4>4. QED
          BY <4>2, <4>3
      <3>3. QED
        BY <1>3, <2>3, <3>1, <3>2 DEF OwnedInv
    <2>4. drops' # <<>>
      BY <1>4, <1>10
    <2>5. QED
      BY <1>3, <2>3, <2>4 DEF OwnedInv, Async
  <1>18. QED
    BY <1>13, <1>14, <1>15, <1>16, <1>17 DEF FutureInv

LEMMA FreeFrameKeepsInv ==
    ASSUME FutureInv, FreeFrame
    PROVE  FutureInv'
  <1>1. PICK d : d = Dropped.f
    OBVIOUS
  <1>2. PICK n \in Nat : n = Len(drops)
    BY DEF FutureInv, TypeOK
  <1>3. /\ TypeOK /\ TreeInv /\ StackInv /\ AnswerInv /\ DropsInv /\ RestInv /\ OwnedInv /\ drops # <<>>
        /\ Dropped.pc = "free" /\ UNCHANGED <<frames, stack, rc, client, orphans>> /\ live' = live \ {d}
    BY <1>1 DEF FutureInv, FreeFrame
  <1>4. /\ n \in 1 .. n /\ DOMAIN drops = 1 .. n /\ drops[n] = Dropped
        /\ d \in live /\ d \in DOMAIN frames /\ d \in Nat
        /\ \A i \in 1 .. n - 1 : drops[i].f < d /\ drops[i].f # d
        /\ \A i \in DOMAIN stack : stack[i].f # d
    BY <1>1, <1>2, <1>3, DroppedRests DEF Dropped, TypeOK
  <1>5. /\ drops' \in Seq(DropType) /\ Len(drops') = n - 1 /\ DOMAIN drops' = 1 .. n - 1
        /\ \A i \in 1 .. n - 1 : drops'[i] = drops[i]
    BY <1>2, <1>3, Popped DEF FreeFrame, TypeOK
  <1>6. \A i \in 1 .. n : i \in 1 .. n - 1 \/ i = n
    OBVIOUS
  <1>7. \A i \in 1 .. n - 1 : i \in DOMAIN drops /\ i + 1 \in 1 .. n /\ i < Len(drops)
    BY <1>2, <1>4
  (* The only frame that could hold d is the one being freed around it, or  *)
  (* the one whose body goes on.                                            *)
  <1>8. ASSUME NEW g \in DOMAIN frames, frames[g].made > 0, Kid(g) = d
        PROVE  /\ n = 1 => stack # <<>> /\ g = Top.f /\ Top.pc = "body"
               /\ n > 1 => g = drops[n - 1].f /\ drops[n - 1].pc = "free"
    <2>1. CASE n = 1
      <3>1. drops[1].f = d
        BY <1>1, <1>4, <2>1
      <3>2. d # 1
        BY <1>3, <1>8, KidIsYounger DEF TypeOK
      <3>3. stack # <<>> /\ Top.pc = "body" /\ frames[Top.f].made > 0 /\ Kid(Top.f) = d
        BY <1>3, <3>1, <3>2 DEF DropsInv
      <3>4. Top.f \in DOMAIN frames
        BY <1>3, <3>3, TopIsOne
      <3>5. QED
        BY <1>3, <1>8, <2>1, <3>3, <3>4, OneHolder
    <2>2. CASE n > 1
      <3>1. n - 1 \in 1 .. n - 1 /\ n - 1 + 1 = n
        BY <2>2
      <3>2. /\ drops[n - 1].pc = "free" /\ Kid(drops[n - 1].f) = d /\ Async(drops[n - 1].f)
            /\ frames[drops[n - 1].f].state > 0 /\ drops[n - 1].f \in DOMAIN frames
        <4>1. n - 1 \in DOMAIN drops /\ n - 1 < Len(drops)
          BY <1>7, <3>1
        <4>2. drops[n - 1].f \in DOMAIN frames
          BY <1>3, <4>1 DEF DropsInv, TypeOK
        <4>3. QED
          BY <1>1, <1>3, <1>4, <3>1, <4>1, <4>2 DEF DropsInv
      <3>3. frames[drops[n - 1].f].made > 0
        BY <1>3, <3>2 DEF TreeInv, FrameOK, Completed
      <3>4. QED
        BY <1>3, <1>8, <2>2, <3>2, <3>3, OneHolder
    <2>3. QED
      BY <2>1, <2>2
  <1>9. Top' = Top /\ (stack # <<>> => Top.pc = "body")
    BY <1>3 DEF Top, DropsInv
  <1>10. TypeOK' /\ TreeInv'
    BY <1>3, <1>5, SameTree DEF TypeOK
  <1>11. StackInv'
    <2>1. ASSUME NEW i \in DOMAIN stack PROVE ActivationOK(i)'
      <3>1. ActivationOK(i)
        BY <1>3 DEF StackInv
      <3>2. Awaiting(i) => Kid(stack[i].f) # d
        <4>1. Awaiting(i) => i \in 1 .. Len(stack) - 1
          <5>1. Awaiting(i) => i # Len(stack)
            BY <1>9 DEF Awaiting, Top
          <5>2. QED
            BY <1>3, <5>1 DEF TypeOK
        <4>2. i \in 1 .. Len(stack) - 1 => Kid(stack[i].f) = stack[i + 1].f /\ i + 1 \in DOMAIN stack
          BY <1>3, Below
        <4>3. QED
          BY <1>4, <4>1, <4>2
      <3>3. QED
        BY <1>3, <1>4, <3>1, <3>2 DEF ActivationOK, Awaiting, Kid, Async
    <2>2. QED
      BY <1>3, <2>1 DEF StackInv, Kid, Async
  <1>12. AnswerInv'
    BY <1>3, <1>9 DEF AnswerInv
  <1>13. DropsInv'
    <2>1. \A i \in 1 .. n - 1 : drops'[i].f \in live'
      BY <1>3, <1>4, <1>5, <1>7 DEF DropsInv
    <2>2. \A i, j \in 1 .. n - 1 : i < j => drops'[i].f < drops'[j].f
      BY <1>3, <1>5, <1>7 DEF DropsInv
    <2>3. ASSUME NEW i \in 1 .. n - 1, i < n - 1
          PROVE  /\ drops'[i].pc = "free" /\ Async(drops[i].f)' /\ frames'[drops'[i].f].state > 0
                 /\ drops'[i + 1].f = Kid(drops[i].f)'
      <3>1. i + 1 \in 1 .. n - 1 /\ drops'[i] = drops[i]
        BY <1>5, <2>3
      <3>2. drops'[i + 1] = drops[i + 1]
        BY <1>5, <3>1
      <3>3. QED
        BY <1>3, <1>7, <3>1, <3>2 DEF DropsInv, Async, Kid
    <2>4. drops' # <<>> => Kid(Dropped.f)' \notin live' /\ drops'[1] = drops[1]
      <3> SUFFICES ASSUME drops' # <<>> PROVE Kid(Dropped.f)' \notin live' /\ drops'[1] = drops[1]
        OBVIOUS
      <3>1. n - 1 \in 1 .. n - 1 /\ n - 1 + 1 = n /\ 1 \in 1 .. n - 1
        BY <1>5
      <3>2. Kid(drops[n - 1].f) = d /\ Dropped' = drops[n - 1]
        BY <1>1, <1>3, <1>4, <1>5, <1>7, <3>1 DEF DropsInv, Dropped
      <3>3. QED
        BY <1>3, <1>5, <3>1, <3>2 DEF Kid
    <2>5. drops' # <<>> =>
             \/ stack' = <<>> /\ drops'[1].f = 1 /\ client' = "gone"
             \/ stack' # <<>> /\ Top'.pc = "body" /\ (frames[Top.f].made)' > 0 /\ drops'[1].f = Kid(Top.f)'
      BY <1>3, <1>9, <2>4 DEF DropsInv, Kid
    <2>6. QED
      BY <1>5, <2>1, <2>2, <2>3, <2>4, <2>5 DEF DropsInv
  <1>14. ASSUME NEW f, f # d PROVE Resting(f)' <=> Resting(f)
    BY <1>1, <1>3, <1>4, <1>5, <1>6, <1>14 DEF Resting
  <1>15. RestInv'
    <2>1. ASSUME NEW f \in live, f # d, Async(f), Resting(f), frames[f].state > 0
          PROVE  Kid(f) # d
      <3>1. f \in DOMAIN frames /\ frames[f].made > 0
        <4>1. f \in DOMAIN frames
          BY <1>3, <2>1 DEF TypeOK
        <4>2. FrameOK(f)
          BY <1>3, <4>1 DEF TreeInv
        <4>3. QED
          BY <2>1, <4>1, <4>2 DEF FrameOK, Completed
      <3>2. ASSUME Kid(f) = d PROVE FALSE
        <4>1. CASE n = 1
          <5>1. stack # <<>> /\ f = Top.f /\ Top.pc = "body"
            BY <1>8, <3>1, <3>2, <4>1
          <5>2. Len(stack) \in DOMAIN stack
            BY <1>3, <5>1, TopIsOne
          <5>3. QED
            BY <2>1, <5>1, <5>2 DEF Resting, Top
        <4>2. CASE n # 1
          <5>1. n > 1 /\ n - 1 \in DOMAIN drops
            BY <1>4, <4>2
          <5>2. QED
            BY <1>8, <2>1, <3>1, <3>2, <5>1 DEF Resting
        <4>3. QED
          BY <4>1, <4>2
      <3>3. QED
        BY <3>2
    <2>2. QED
      BY <1>3, <1>14, <2>1 DEF RestInv, Async, Kid
  <1>16. OwnedInv'
    <2>1. ~Holding(d)
      <3>1. ~Resting(d)
        BY <1>1, <1>3, <1>4 DEF Resting
      <3>2. QED
        BY <1>4, <3>1 DEF Holding
    <2>2. ASSUME NEW p, p # d, Holding(p) PROVE Holding(p)'
      BY <1>3, <1>14, <2>2 DEF Holding, Awaiting
    <2>3. ASSUME NEW f \in live, f # d
          PROVE  \/ f = 1 \/ f \in orphans \/ \E i \in DOMAIN drops' : drops'[i].f = f
                 \/ \E p \in live' : Async(p)' /\ Holding(p)' /\ Kid(p)' = f
      <3>1. CASE \E i \in DOMAIN drops : drops[i].f = f
        BY <1>1, <1>4, <1>5, <1>6, <2>3, <3>1
      <3>2. CASE \E p \in live : Async(p) /\ Holding(p) /\ Kid(p) = f
        BY <1>3, <2>1, <2>2, <3>2 DEF Async, Kid
      <3>3. QED
        BY <1>3, <2>3, <3>1, <3>2 DEF OwnedInv
    <2>4. d = 1 => n = 1 /\ client = "gone"
      <3>1. ASSUME d = 1, n # 1 PROVE FALSE
        <4>1. 1 \in 1 .. n - 1
          BY <1>4, <3>1
        <4>2. drops[1].f < 1 /\ drops[1].f \in DOMAIN frames
          BY <1>3, <1>4, <1>7, <3>1, <4>1 DEF DropsInv, TypeOK
        <4>3. QED
          BY <1>3, <4>2 DEF TypeOK
      <3>2. ASSUME d = 1, n = 1 PROVE client = "gone"
        <4>1. drops[1].f = 1
          BY <1>1, <1>4, <3>2
        <4>2. stack # <<>> /\ frames[Top.f].made > 0 => Kid(Top.f) # 1
          <5>1. stack # <<>> => Top.f \in DOMAIN frames
            BY <1>3, TopIsOne
          <5>2. QED
            BY <1>3, <5>1, KidIsYounger DEF TypeOK
        <4>3. QED
          BY <1>3, <4>1, <4>2 DEF DropsInv
      <3>3. QED
        BY <3>1, <3>2
    <2>5. client = "gone" /\ drops' = <<>> => 1 \notin live'
      <3>1. drops' = <<>> => n = 1
        BY <1>4, <1>5
      <3>2. client = "gone" => drops[1].f = 1
        BY <1>3 DEF DropsInv, OwnedInv
      <3>3. QED
        BY <1>1, <1>3, <1>4, <3>1, <3>2
    <2>6. QED
      BY <1>3, <2>3, <2>4, <2>5 DEF OwnedInv, Async
  <1>17. QED
    BY <1>10, <1>11, <1>12, <1>13, <1>15, <1>16 DEF FutureInv

(* What the owner of the root future does, while nothing runs.              *)
LEMMA OwnerKeepsInv ==
    ASSUME FutureInv, BlockOn \/ BlockOnReturns \/ Poll \/ DropRoot
    PROVE  FutureInv'
  <1>1. /\ TypeOK /\ TreeInv /\ StackInv /\ AnswerInv /\ DropsInv /\ RestInv /\ OwnedInv
        /\ stack = <<>> /\ drops = <<>> /\ UNCHANGED <<frames, live, orphans>>
    BY DEF FutureInv, BlockOn, BlockOnReturns, Poll, DropRoot, AtRest
  <1>2. /\ client # "gone" /\ 1 \in live
        /\ client' \in {"owner", "blocked", "ok", "error", "gone"}
        /\ rc' \in {Nothing, Pending, Ready, Failed} /\ (rc' # Failed => rc # Failed)
        /\ Failed \notin {Nothing, Pending}
    <2>1. client # "gone"
      BY DEF BlockOn, BlockOnReturns, Poll, DropRoot
    <2>2. Failed \notin {Nothing, Pending}
      BY DEF Nothing, Pending, Failed
    <2>3. QED
      BY <1>1, <2>1, <2>2 DEF OwnedInv, TypeOK, BlockOn, BlockOnReturns, Poll, DropRoot
  <1>3. TreeInv'
    BY <1>1 DEF TreeInv, FrameOK, OneParent, Async
  (* It starts a poll of the root, or its drop, or neither.                 *)
  <1>4. ASSUME stack' = <<>> \/ (stack' = <<Activation(1)>> /\ rc' # Failed),
               drops' = <<>> \/ (drops' = <<Dropping(1)>> /\ client' = "gone"),
               stack' = <<>> \/ drops' = <<>>,
               client' = "gone" => stack' = <<>> /\ drops' # <<>>
        PROVE  FutureInv'
    <2>1. stack' # <<>> =>
             /\ stack' \in Seq(ActivationType) /\ Len(stack') = 1 /\ DOMAIN stack' = {1}
             /\ stack'[1].f = 1 /\ stack'[1].pc = "enter" /\ Top' = stack'[1]
      <3> DEFINE a == Activation(1)
      <3>1. a \in ActivationType /\ a.f = 1 /\ a.pc = "enter"
        BY DEF Activation, ActivationType
      <3>2. stack' # <<>> => stack' = <<a>>
        BY <1>4
      <3> HIDE DEF a
      <3>3. <<a>> \in Seq(ActivationType) /\ Len(<<a>>) = 1 /\ <<a>>[1] = a
        BY <3>1
      <3>4. DOMAIN <<a>> = {1}
        <4>1. 1 .. 1 = {1} /\ DOMAIN <<a>> = 1 .. Len(<<a>>)
          BY <3>3
        <4>2. QED
          BY <3>3, <4>1
      <3>5. QED
        BY <3>1, <3>2, <3>3, <3>4 DEF Top
    <2>2. drops' # <<>> =>
             /\ drops' \in Seq(DropType) /\ Len(drops') = 1 /\ DOMAIN drops' = {1}
             /\ drops'[1].f = 1 /\ drops'[1].pc = "switch" /\ Dropped' = drops'[1]
      <3> DEFINE a == Dropping(1)
      <3>1. a \in DropType /\ a.f = 1 /\ a.pc = "switch"
        BY DEF Dropping, DropType
      <3>2. drops' # <<>> => drops' = <<a>>
        BY <1>4
      <3> HIDE DEF a
      <3>3. <<a>> \in Seq(DropType) /\ Len(<<a>>) = 1 /\ <<a>>[1] = a
        BY <3>1
      <3>4. DOMAIN <<a>> = {1}
        <4>1. 1 .. 1 = {1} /\ DOMAIN <<a>> = 1 .. Len(<<a>>)
          BY <3>3
        <4>2. QED
          BY <3>3, <4>1
      <3>5. QED
        BY <3>1, <3>2, <3>3, <3>4 DEF Dropped
    <2>3. TypeOK'
      BY <1>1, <1>2, <1>4, <2>1, <2>2 DEF TypeOK
    <2>4. StackInv'
      <3>1. ASSUME NEW i \in DOMAIN stack' PROVE ActivationOK(i)'
        BY <1>1, <1>2, <2>1, <3>1 DEF ActivationOK, Awaiting
      <3>2. QED
        BY <2>1, <3>1 DEF StackInv
    <2>5. AnswerInv'
      BY <1>1, <1>2, <1>4, <2>1 DEF AnswerInv
    <2>6. DropsInv'
      <3>1. CASE drops' = <<>>
        BY <3>1 DEF DropsInv
      <3>2. CASE drops' # <<>>
        <4>1. stack' = <<>> /\ client' = "gone" /\ live' = live
          BY <1>1, <1>4, <3>2
        <4>2. \A i, j \in {1} : ~(i < j)
          OBVIOUS
        <4>3. drops'[1].f \in live' /\ Dropped'.pc # "free" /\ drops'[1].f = 1
          BY <1>2, <2>2, <3>2, <4>1
        <4>4. DOMAIN drops' = {1} /\ Len(drops') = 1
          BY <2>2, <3>2
        <4>5. QED
          BY <3>2, <4>1, <4>2, <4>3, <4>4 DEF DropsInv
      <3>3. QED
        BY <3>1, <3>2
    <2>7. ASSUME NEW f PROVE Resting(f)' /\ Resting(f)
      BY <1>1, <2>1, <2>2 DEF Resting
    <2>8. RestInv'
      BY <1>1, <1>2, <2>7 DEF RestInv, Async, Kid
    <2>9. OwnedInv'
      <3>1. ASSUME NEW p, Holding(p) PROVE Holding(p)'
        BY <1>1, <2>7, <3>1 DEF Holding
      <3>2. \A f \in live : f = 1 \/ f \in orphans \/ \E p \in live : Async(p)' /\ Holding(p)' /\ Kid(p)' = f
        <4>1. \A f \in live : f = 1 \/ f \in orphans \/ \E p \in live : Async(p) /\ Holding(p) /\ Kid(p) = f
          BY <1>1 DEF OwnedInv
        <4>2. QED
          BY <1>1, <3>1, <4>1 DEF Async, Kid
      <3>3. \A f \in orphans : /\ Async(f)' => frames'[f].state = 0
                               /\ \A i \in DOMAIN stack' : stack'[i].f # f
        BY <1>1, <2>1 DEF OwnedInv, TypeOK, Async
      <3>4. QED
        BY <1>1, <1>2, <1>4, <3>2, <3>3 DEF OwnedInv
    <2>10. QED
      BY <1>3, <2>3, <2>4, <2>5, <2>6, <2>8, <2>9 DEF FutureInv
  <1>5. CASE BlockOn \/ BlockOnReturns
    BY <1>1, <1>4, <1>5 DEF BlockOn, BlockOnReturns
  <1>6. CASE Poll
    <2>1. rc' # Failed /\ stack' = <<Activation(1)>> /\ drops' = <<>> /\ client' # "gone"
      BY <1>1, <1>2, <1>6 DEF Poll, Nothing, Failed
    <2>2. QED
      BY <1>4, <2>1
  <1>7. CASE DropRoot
    <2>1. drops' = <<Dropping(1)>> /\ client' = "gone" /\ stack' = <<>>
      BY <1>1, <1>7 DEF DropRoot
    <2>2. QED
      BY <1>4, <2>1
  <1>8. QED
    BY <1>5, <1>6, <1>7

LEMMA InitFutureInv == FutureAssumption /\ FutureInit => FutureInv
  <1> SUFFICES ASSUME FutureAssumption, FutureInit PROVE FutureInv
    OBVIOUS
  <1>1. NewFrame(Main) \in FrameType
    <2>1. ASSUME Main \in DOMAIN Bodies PROVE [n \in DOMAIN Bodies[Main] |-> 0] \in Seq(Nat)
      <3>1. Len(Bodies[Main]) \in Nat /\ DOMAIN Bodies[Main] = 1 .. Len(Bodies[Main])
        BY <2>1 DEF FutureAssumption
      <3>2. QED
        BY <3>1
    <2>2. Main \in Callees /\ <<>> \in Seq(Nat)
      BY DEF Callees
    <2>3. QED
      BY <2>1, <2>2 DEF NewFrame, FrameType
  <1> DEFINE r == NewFrame(Main)
  <1>2. /\ r.fn = Main /\ r.state = 0 /\ r.made = 0
        /\ r.kids = IF Main \in DOMAIN Bodies THEN [n \in DOMAIN Bodies[Main] |-> 0] ELSE <<>>
    BY DEF NewFrame
  <1>3. frames = <<r>>
    BY DEF FutureInit
  <1> HIDE DEF r
  <1>4. /\ frames \in Seq(FrameType) /\ frames[1] = r /\ DOMAIN frames = {1} /\ live = {1}
        /\ stack = <<>> /\ drops = <<>> /\ rc = Nothing /\ client = "owner" /\ orphans = {}
    BY <1>1, <1>3 DEF FutureInit, r
  <1>5. TypeOK
    BY <1>4 DEF TypeOK
  <1>6. TreeInv
    <2>1. ASSUME Main \in DOMAIN Bodies
          PROVE  Len([n \in DOMAIN Bodies[Main] |-> 0]) = Len(Bodies[Main]) /\ 0 <= Len(Bodies[Main])
      <3>1. Len(Bodies[Main]) \in Nat /\ DOMAIN Bodies[Main] = 1 .. Len(Bodies[Main])
        BY <2>1 DEF FutureAssumption
      <3>2. QED
        BY <3>1
    <2>2. FrameOK(1)
      <3>1. \A n \in 1 .. 0 : FALSE
        OBVIOUS
      <3>2. 0 # Completed
        BY DEF Completed
      <3>3. QED
        BY <1>2, <1>4, <2>1, <3>1, <3>2 DEF FrameOK, Async
    <2>3. OneParent
      BY <1>2, <1>4 DEF OneParent
    <2>4. QED
      BY <1>4, <2>2, <2>3 DEF TreeInv
  <1>7. StackInv /\ DropsInv
    BY <1>4 DEF StackInv, DropsInv
  <1>8. AnswerInv
    BY <1>4 DEF AnswerInv, Nothing, Failed
  <1>9. RestInv
    BY <1>2, <1>4 DEF RestInv
  <1>10. OwnedInv
    BY <1>4 DEF OwnedInv
  <1>11. QED
    BY <1>5, <1>6, <1>7, <1>8, <1>9, <1>10 DEF FutureInv

(* A poll returns: of the frames that wait below only the caller can get a  *)
(* child that has just answered pending.                                    *)
LEMMA ReturnKeepsWait ==
    ASSUME FutureInv, WaitInv, stack # <<>>, StateOnly, NEW r, Return(r), NEW t, t = Top.f,
           Async(t) => frames'[t].state \in {0, Completed} \/ t \in waited'
    PROVE  WaitInv'
  <1>1. /\ TypeOK /\ StackInv /\ TreeInv /\ t \in DOMAIN frames /\ Len(stack) \in Nat
        /\ DOMAIN stack' = 1 .. Len(stack) - 1 /\ DOMAIN stack = 1 .. Len(stack)
        /\ Len(stack') = Len(stack) - 1 /\ rc' = r
        /\ \A i \in 1 .. Len(stack) - 1 : stack'[i] = stack[i]
    BY TopIsOne, ReturnShape DEF FutureInv, TypeOK
  <1>0. Len(stack) \in Nat /\ Len(stack') = Len(stack) - 1
    BY <1>1
  <1>2. /\ waited \subseteq waited' /\ waited' \subseteq waited \cup {t}
        /\ t \in waited' => t \in waited \/ r = Pending
    BY DEF Return
  <1>3. \A f \in DOMAIN frames : (Async(f)' <=> Async(f)) /\ Kid(f)' = Kid(f)
    BY DEF StateOnly, Async, Kid
  <1>4. waited' \subseteq DOMAIN frames'
    BY <1>1, <1>2 DEF WaitInv, StateOnly
  <1>5. ASSUME NEW f \in DOMAIN frames, Async(f), f \notin waited'
        PROVE  frames'[f].state \in {0, Completed}
    <2>1. CASE f = t
      BY <1>5, <2>1
    <2>2. CASE f # t
      BY <1>2, <1>5, <2>2 DEF StateOnly, WaitInv
    <2>3. QED
      BY <2>1, <2>2
  <1>6. ASSUME NEW i \in 1 .. Len(stack) - 1, Kid(stack[i].f) \in waited'
        PROVE  frames'[stack[i].f].state > 0 \/ Answered(i)'
    <2>1. /\ i \in DOMAIN stack /\ i + 1 \in DOMAIN stack /\ stack[i].f \in DOMAIN frames
          /\ stack[i].f # Top.f /\ stack[i].pc = "wait" /\ Kid(stack[i].f) = stack[i + 1].f
      BY <1>1, Below
    <2>2. frames'[stack[i].f] = frames[stack[i].f] /\ i # Len(stack)
      BY <1>0, <2>1 DEF StateOnly
    <2>3. CASE Kid(stack[i].f) \in waited
      BY <2>1, <2>2, <2>3 DEF WaitInv, Awaiting, Answered
    <2>4. CASE Kid(stack[i].f) \notin waited
      <3>1. Kid(stack[i].f) = t /\ r = Pending
        BY <1>2, <1>6, <2>4
      <3>2. i + 1 \in 1 .. Len(stack) - 1 => stack[i + 1].f # Top.f
        BY <1>1, Below
      <3>3. i + 1 \notin 1 .. Len(stack) - 1
        BY <2>1, <3>1, <3>2
      <3>5. i = Len(stack')
        BY <1>0, <3>3
      <3>4. QED
        BY <1>1, <2>1, <3>1, <3>5 DEF Answered
    <2>5. QED
      BY <2>3, <2>4
  <1>7. ASSUME NEW i \in DOMAIN stack', Kid(stack[i].f)' \in waited'
        PROVE  frames'[stack'[i].f].state > 0 \/ Answered(i)'
    <2>1. i \in 1 .. Len(stack) - 1 /\ stack'[i] = stack[i]
      BY <1>1
    <2>2. stack[i].f \in DOMAIN frames
      BY <1>1, <2>1, Below
    <2>3. Kid(stack[i].f)' = Kid(stack'[i].f)
      BY <2>1, <2>2 DEF StateOnly, Kid
    <2>4. QED
      BY <1>6, <1>7, <2>1, <2>3
  <1>8. DOMAIN frames' = DOMAIN frames
    BY DEF StateOnly
  <1>9. \A f \in DOMAIN frames' : Async(f)' /\ f \notin waited' => frames'[f].state \in {0, Completed}
    BY <1>3, <1>5, <1>8
  <1>10. QED
    BY <1>4, <1>7, <1>9 DEF WaitInv

(* The innermost activation goes to the body, or to an await that its state *)
(* word has the number of.                                                  *)
LEMMA GotoKeepsWait ==
    ASSUME FutureInv, WaitInv, stack # <<>>, StateOnly, UNCHANGED waited,
           NEW pc \in {"body", "await"}, NEW at \in Nat, Goto(pc, at), NEW t, t = Top.f,
           frames'[t].state \in {0, Completed} \/ frames'[t].state = frames[t].state,
           pc = "await" => frames'[t].state > 0
    PROVE  WaitInv'
  <1>1. /\ TypeOK /\ StackInv /\ TreeInv /\ t \in DOMAIN frames /\ Len(stack) \in Nat
        /\ DOMAIN stack' = 1 .. Len(stack) /\ DOMAIN stack = 1 .. Len(stack) /\ Len(stack') = Len(stack)
        /\ \A i \in 1 .. Len(stack) : i # Len(stack) => stack'[i] = stack[i]
        /\ stack'[Len(stack)].f = t /\ stack'[Len(stack)].pc = pc
    <2>1. /\ TypeOK /\ StackInv /\ TreeInv /\ t \in DOMAIN frames /\ Len(stack) \in Nat
          /\ DOMAIN stack = 1 .. Len(stack)
      BY TopIsOne DEF FutureInv, TypeOK
    <2>2. pc \in {"enter", "body", "await", "wait"}
      OBVIOUS
    <2>3. QED
      BY <2>1, <2>2, GotoShape
  <1>0. Len(stack) \in Nat
    BY <1>1
  <1>2. \A f \in DOMAIN frames : (Async(f)' <=> Async(f)) /\ Kid(f)' = Kid(f)
    BY DEF StateOnly, Async, Kid
  <1>3. DOMAIN frames' = DOMAIN frames /\ \A f \in DOMAIN frames : f # t => frames'[f] = frames[f]
    BY DEF StateOnly
  <1>4. ASSUME NEW f \in DOMAIN frames, Async(f), f \notin waited
        PROVE  frames'[f].state \in {0, Completed}
    BY <1>3, <1>4 DEF WaitInv
  <1>5. ASSUME NEW i \in 1 .. Len(stack), i # Len(stack), Kid(stack[i].f) \in waited
        PROVE  frames'[stack[i].f].state > 0
    <2>1. i \in 1 .. Len(stack) - 1
      BY <1>0, <1>5
    <2>2. i \in DOMAIN stack /\ stack[i].f \in DOMAIN frames /\ stack[i].f # t /\ Awaiting(i) /\ ~Answered(i)
      BY <1>1, <1>5, <2>1, Below DEF Awaiting, Answered
    <2>3. QED
      BY <1>3, <1>5, <2>2 DEF WaitInv
  <1>6. ASSUME NEW i \in DOMAIN stack', Awaiting(i)', Kid(stack[i].f)' \in waited
        PROVE  frames'[stack'[i].f].state > 0
    <2>1. CASE i = Len(stack)
      <3>1. pc = "await"
        BY <1>1, <1>6, <2>1 DEF Awaiting
      <3>2. QED
        BY <1>1, <2>1, <3>1
    <2>2. CASE i # Len(stack)
      <3>0. i \in 1 .. Len(stack) /\ stack'[i] = stack[i]
        BY <1>1, <2>2
      <3>1. i \in 1 .. Len(stack) - 1
        BY <1>0, <2>2, <3>0
      <3>2. stack[i].f \in DOMAIN frames
        BY <1>1, <3>1, Below
      <3>3. Kid(stack[i].f)' = Kid(stack[i].f)
        BY <3>0, <3>2 DEF StateOnly, Kid
      <3>4. QED
        BY <1>5, <1>6, <2>2, <3>0, <3>3
    <2>3. QED
      BY <2>1, <2>2
  <1>7. waited' \subseteq DOMAIN frames'
    BY <1>3 DEF WaitInv
  <1>8. \A f \in DOMAIN frames' : Async(f)' /\ f \notin waited' => frames'[f].state \in {0, Completed}
    BY <1>2, <1>3, <1>4
  <1>9. QED
    BY <1>6, <1>7, <1>8 DEF WaitInv

(* A new child has not answered yet.                                        *)
LEMMA BodyKeepsWait ==
    ASSUME FutureAssumption, FutureInv, WaitInv, RunBody
    PROVE  WaitInv'
  <1>1. PICK t : t = Top.f
    OBVIOUS
  <1>2. PICK at : at = Top.at
    OBVIOUS
  <1>3. PICK new : new = Len(frames) + 1
    OBVIOUS
  <1>4. TypeOK /\ TreeInv /\ StackInv /\ stack # <<>> /\ drops = <<>> /\ Top.pc = "body"
    BY DEF FutureInv, RunBody, Running
  <1>5. /\ t \in DOMAIN frames /\ Async(t) /\ frames[t].state = 0 /\ frames[t] \in FrameType
        /\ at = frames[t].made + 1 /\ at \in Nat /\ frames[t].made = at - 1
    BY <1>1, <1>2, <1>4, TopIsOne DEF ActivationOK, Top, FrameType
  <1>6. CASE Top.at > Len(Body)
    <2>1. SetState(Completed) /\ Return(Ready) /\ Completed \in Int
      BY <1>6 DEF RunBody, Completed
    <2>2. StateOnly /\ frames'[t].state = Completed
      BY <1>1, <1>4, <2>1, SetStateShape, IsStateOnly
    <2>3. QED
      BY <1>1, <1>4, <2>1, <2>2, ReturnKeepsWait
  <1>7. CASE ~(Top.at > Len(Body))
    <2>1. at \in DOMAIN Bodies[frames[t].fn]
      <3>1. Bodies[frames[t].fn] \in Seq(Callees) /\ Body = Bodies[frames[t].fn] /\ frames[t].made \in Nat
        BY <1>1, <1>5 DEF FutureAssumption, Async, Body, FrameType
      <3>2. QED
        BY <1>2, <1>5, <1>7, <3>1
    <2>2. frames' = WithChild(t, at, new) /\ Goto("await", at) /\ UNCHANGED <<rc, waited>>
      BY <1>1, <1>2, <1>3, <1>7 DEF RunBody, Body, WithChild
    <2>3. ChildMade(t, at, new)
      BY <1>3, <1>4, <1>5, <2>1, <2>2, MakesChild
    <2>4. /\ DOMAIN frames' = DOMAIN frames \cup {new} /\ new \notin DOMAIN frames /\ new \notin waited
          /\ \A f \in DOMAIN frames : f # t => frames'[f] = frames[f]
          /\ frames'[t].fn = frames[t].fn /\ frames'[t].state = 0 /\ Kid(t)' = new
          /\ frames'[new].state = 0
      <3>1. DOMAIN frames' = DOMAIN frames \cup {new} /\ new \notin DOMAIN frames /\ new \notin waited
        BY <1>5, <2>3 DEF ChildMade, WaitInv
      <3>2. \A f \in DOMAIN frames : f # t => frames'[f] = frames[f]
        BY <2>3 DEF ChildMade
      <3>3. /\ frames'[t].fn = frames[t].fn /\ frames'[t].state = 0 /\ Kid(t)' = new
            /\ frames'[new].state = 0
        BY <1>5, <2>3 DEF ChildMade, Kid, NewFrame
      <3>4. QED
        BY <3>1, <3>2, <3>3
    <2>5. /\ DOMAIN stack' = 1 .. Len(stack) /\ DOMAIN stack = 1 .. Len(stack) /\ Len(stack) \in Nat
          /\ Len(stack') = Len(stack) /\ stack'[Len(stack)].f = t
          /\ \A i \in 1 .. Len(stack) : i # Len(stack) => stack'[i] = stack[i]
      <3>1. DOMAIN stack = 1 .. Len(stack) /\ Len(stack) \in Nat
        BY <1>4, TopIsOne DEF TypeOK
      <3>2. QED
        BY <1>1, <1>4, <1>5, <2>2, <3>1, GotoShape
    <2>6. ASSUME NEW f \in DOMAIN frames', Async(f)', f \notin waited
          PROVE  frames'[f].state \in {0, Completed}
      <3>1. CASE f = new \/ f = t
        BY <2>4, <3>1
      <3>2. CASE f \in DOMAIN frames /\ f # t
        BY <2>4, <2>6, <3>2 DEF WaitInv, Async
      <3>3. QED
        BY <2>4, <3>1, <3>2
    <2>7. ASSUME NEW i \in DOMAIN stack', Kid(stack[i].f)' \in waited
          PROVE  frames'[stack'[i].f].state > 0
      <3>1. i # Len(stack)
        <4>1. ASSUME i = Len(stack) PROVE Kid(stack[i].f)' = new
          <5>1. stack'[i].f = t
            BY <2>5, <4>1
          <5>2. QED
            BY <2>4, <5>1 DEF Kid
        <4>2. QED
          BY <2>4, <2>7, <4>1
      <3>0. i \in 1 .. Len(stack) /\ Len(stack) \in Nat
        BY <2>5
      <3>2. i \in 1 .. Len(stack) - 1
        BY <3>0, <3>1
      <3>3. /\ stack'[i] = stack[i] /\ stack[i].f \in DOMAIN frames /\ stack[i].f # t
            /\ i \in DOMAIN stack /\ Awaiting(i) /\ ~Answered(i)
        BY <1>1, <1>4, <2>5, <3>1, <3>2, Below DEF Awaiting, Answered
      <3>4. frames'[stack[i].f] = frames[stack[i].f] /\ Kid(stack[i].f)' = Kid(stack[i].f)
        BY <2>4, <3>3 DEF Kid
      <3>5. frames[stack[i].f].state > 0
        BY <2>7, <3>3, <3>4 DEF WaitInv
      <3>6. QED
        BY <3>3, <3>4, <3>5
    <2>8. waited \subseteq DOMAIN frames'
      BY <2>4 DEF WaitInv
    <2>9. waited' = waited
      BY <2>2
    <2>10. QED
      BY <2>6, <2>7, <2>8, <2>9 DEF WaitInv
  <1>8. QED
    BY <1>6, <1>7

(* What the state words say of the past stays true.                         *)
LEMMA WaitInvInductive == FutureAssumption /\ FutureInv /\ WaitInv /\ [FutureNext]_futureVars => WaitInv'
  <1> SUFFICES ASSUME FutureAssumption, FutureInv, WaitInv, [FutureNext]_futureVars PROVE WaitInv'
    OBVIOUS
  <1>1. TypeOK /\ TreeInv /\ StackInv
    BY DEF FutureInv
  <1>2. ASSUME UNCHANGED <<frames, waited>>, UNCHANGED <<stack, rc>> \/ \A i \in DOMAIN stack' : ~Awaiting(i)'
        PROVE  WaitInv'
    BY <1>2 DEF WaitInv, Awaiting, Answered, Async, Kid
  <1>3. CASE UNCHANGED futureVars
    BY <1>2, <1>3 DEF futureVars
  <1>4. CASE Enter
    <2>1. /\ stack # <<>> /\ Async(Top.f) /\ Top.f \in DOMAIN frames /\ frames[Top.f] \in FrameType
          /\ UNCHANGED frames /\ frames[Top.f].state \in Int /\ FrameOK(Top.f)
      BY <1>1, <1>4, TopIsOne DEF Enter, Running, FrameType, TreeInv
    <2>2. StateOnly
      BY <1>1, <2>1, IsStateOnly
    <2>3. CASE frames[Top.f].state = Completed
      <3>1. Return(Ready)
        BY <1>4, <2>3 DEF Enter, Completed
      <3>2. QED
        BY <2>1, <2>2, <2>3, <3>1, ReturnKeepsWait
    <2>4. CASE frames[Top.f].state = 0
      <3>1. Goto("body", 1) /\ UNCHANGED waited
        <4>1. frames[Top.f].state \notin 1 .. Len(Body) /\ frames[Top.f].state # Completed
          BY <2>4 DEF Completed
        <4>2. QED
          BY <1>4, <2>4, <4>1 DEF Enter
      <3>2. QED
        BY <2>1, <2>2, <2>4, <3>1, GotoKeepsWait
    <2>5. CASE frames[Top.f].state \notin {Completed, 0}
      <3>1. /\ frames[Top.f].state = frames[Top.f].made /\ frames[Top.f].state > 0
            /\ frames[Top.f].state \in 1 .. Len(Body) /\ frames[Top.f].state \in Nat
        <4>1. /\ frames[Top.f].made \in Nat /\ frames[Top.f].state = frames[Top.f].made
              /\ frames[Top.f].made <= Len(frames[Top.f].kids) /\ Len(frames[Top.f].kids) = Len(Body)
          BY <2>1, <2>5 DEF FrameOK, FrameType, Body
        <4>2. Len(Body) \in Nat
          BY <2>1 DEF FutureAssumption, Async, Body
        <4>3. QED
          BY <2>5, <4>1, <4>2
      <3>2. Goto("await", frames[Top.f].state) /\ UNCHANGED waited
        BY <1>4, <2>5, <3>1 DEF Enter
      <3>3. QED
        BY <2>1, <2>2, <3>1, <3>2, GotoKeepsWait
    <2>6. QED
      BY <2>3, <2>4, <2>5
  <1>5. CASE RunBody
    BY <1>5, BodyKeepsWait
  <1>6. CASE PollChild
    <2>1. stack # <<>> /\ Top.pc = "await" /\ UNCHANGED <<frames, rc, waited>> /\ Len(stack) \in Nat
      BY <1>1, <1>6 DEF PollChild, Running, TypeOK
    <2>2. /\ DOMAIN stack' = 1 .. Len(stack) + 1 /\ DOMAIN stack = 1 .. Len(stack)
          /\ \A i \in 1 .. Len(stack) - 1 : stack'[i] = stack[i]
          /\ stack'[Len(stack)].f = Top.f /\ stack'[Len(stack) + 1].pc = "enter"
      BY <1>1, <1>6, <2>1, TopIsOne, PollChildShape
    <2>3. ASSUME NEW i \in DOMAIN stack', Awaiting(i)', Kid(stack'[i].f) \in waited
          PROVE  frames[stack'[i].f].state > 0
      <3>1. i \in 1 .. Len(stack)
        BY <2>1, <2>2, <2>3 DEF Awaiting
      <3>2. stack'[i].f = stack[i].f
        BY <2>1, <2>2, <3>1 DEF Top
      <3>3. Awaiting(i) /\ ~Answered(i)
        <4>1. CASE i = Len(stack)
          BY <2>1, <4>1 DEF Awaiting, Answered, Top
        <4>2. CASE i # Len(stack)
          <5>1. i \in 1 .. Len(stack) - 1
            BY <2>1, <3>1, <4>2
          <5>2. QED
            BY <1>1, <2>1, <4>2, <5>1, Below DEF Awaiting, Answered
        <4>3. QED
          BY <4>1, <4>2
      <3>4. QED
        BY <2>2, <2>3, <3>1, <3>2, <3>3 DEF WaitInv
    <2>4. \A f : Kid(f)' = Kid(f) /\ (Async(f)' <=> Async(f))
      BY <2>1 DEF Kid, Async
    <2>5. QED
      BY <2>1, <2>3, <2>4 DEF WaitInv
  <1>7. CASE Suspend
    <2>1. /\ stack # <<>> /\ SetState(Top.at) /\ Return(Pending) /\ Top.at \in Int
      BY <1>1, <1>7, TopIsOne DEF Suspend, Running, ActivationType
    <2>2. StateOnly /\ Top.f \in waited'
      BY <1>1, <2>1, IsStateOnly DEF Return
    <2>3. QED
      BY <2>1, <2>2, ReturnKeepsWait
  <1>8. CASE Fail
    <2>1. /\ stack # <<>> /\ UNCHANGED frames /\ Return(rc) /\ Top.pc = "wait"
          /\ Top.f \in DOMAIN frames
      BY <1>1, <1>8, TopIsOne DEF Fail, Running
    <2>2. StateOnly /\ waited \subseteq waited'
      BY <1>1, <2>1, IsStateOnly DEF Return
    <2>3. QED
      BY <2>1, <2>2, ReturnKeepsWait DEF WaitInv
  <1>9. CASE Continue
    <2>1. /\ stack # <<>> /\ SetState(0) /\ Goto("body", Top.at + 1) /\ UNCHANGED waited
          /\ Top.at + 1 \in Nat /\ 0 \in Int
      BY <1>1, <1>9, TopIsOne DEF Continue, Running, ActivationType
    <2>2. StateOnly /\ frames'[Top.f].state = 0
      BY <1>1, <2>1, IsStateOnly, SetStateShape
    <2>3. QED
      BY <2>1, <2>2, GotoKeepsWait
  <1>10. CASE PollLeaf
    <2>1. stack # <<>> /\ ~Async(Top.f) /\ Top.f \in DOMAIN frames /\ frames[Top.f].state \in Int
      BY <1>1, <1>10, TopIsOne DEF PollLeaf, Running, FrameType
    <2>2. (\E s \in Int : SetState(s)) /\ \E r : Return(r)
      <3>1. PICK st : st = frames[Top.f].state
        OBVIOUS
      <3>2. \/ SetState(st + 1) /\ Return(Pending)
            \/ SetState(1) /\ Return(Pending)
            \/ SetState(st) /\ Return(Ready)
            \/ SetState(st) /\ Return(Failed)
        BY <1>10, <3>1 DEF PollLeaf
      <3>3. st \in Int /\ st + 1 \in Int /\ 1 \in Int
        BY <2>1, <3>1
      <3>4. QED
        BY <3>2, <3>3
    <2>3. StateOnly
      BY <1>1, <2>1, <2>2, IsStateOnly
    <2>4. QED
      BY <2>1, <2>2, <2>3, ReturnKeepsWait
  <1>11. CASE DropChild \/ FreeFrame \/ BlockOn \/ BlockOnReturns \/ DropRoot
    <2>1. CASE DropChild \/ FreeFrame
      BY <1>2, <2>1 DEF DropChild, FreeFrame
    <2>2. CASE BlockOn \/ BlockOnReturns \/ DropRoot
      <3>1. UNCHANGED <<frames, waited>> /\ stack' = <<>>
        BY <2>2 DEF BlockOn, BlockOnReturns, DropRoot, AtRest
      <3>2. QED
        BY <1>2, <3>1
    <2>3. QED
      BY <1>11, <2>1, <2>2
  <1>12. CASE Poll
    <2>1. stack' = <<Activation(1)>> /\ UNCHANGED <<frames, waited>>
      BY <1>12 DEF Poll
    <2>2. \A i \in DOMAIN stack' : stack'[i].pc = "enter"
      BY <2>1 DEF Activation
    <2>3. QED
      BY <1>2, <2>1, <2>2 DEF Awaiting
  <1>13. QED
    BY <1>3, <1>4, <1>5, <1>6, <1>7, <1>8, <1>9, <1>10, <1>11, <1>12 DEF FutureNext

LEMMA FutureInvInductive ==
    FutureAssumption /\ FutureInv /\ WaitInv /\ [FutureNext]_futureVars => FutureInv'
  <1> SUFFICES ASSUME FutureAssumption, FutureInv, WaitInv, [FutureNext]_futureVars PROVE FutureInv'
    OBVIOUS
  <1>1. CASE FutureNext
    BY <1>1, EnterKeepsInv, RunBodyKeepsInv, PollChildKeepsInv, SuspendKeepsInv, FailKeepsInv,
       ContinueKeepsInv, PollLeafKeepsInv, DropChildKeepsInv, FreeFrameKeepsInv, OwnerKeepsInv DEF FutureNext
  <1>2. CASE UNCHANGED futureVars
    <2>1. UNCHANGED <<frames, live, stack, drops, rc, client, orphans>>
      BY <1>2 DEF futureVars
    <2>2. TypeOK' /\ TreeInv'
      BY <2>1, SameTree DEF FutureInv, TypeOK
    <2>3. StackInv' /\ DropsInv'
      <3>1. StackInv'
        BY <2>1, SameStack DEF FutureInv
      <3>2. DropsInv'
        BY <2>1 DEF FutureInv, DropsInv, Dropped, Top, Async, Kid
      <3>3. QED
        BY <3>1, <3>2
    <2>4. AnswerInv'
      BY <2>1 DEF FutureInv, AnswerInv, Top, Async, Kid
    <2>5. \A f : (Resting(f)' <=> Resting(f)) /\ (Async(f)' <=> Async(f)) /\ Kid(f)' = Kid(f)
      BY <2>1 DEF Resting, Async, Kid
    <2>6. \A f : Holding(f)' <=> Holding(f)
      BY <2>1, <2>5 DEF Holding, Awaiting
    <2>7. RestInv'
      BY <2>1, <2>5 DEF FutureInv, RestInv
    <2>8. OwnedInv'
      BY <2>1, <2>5, <2>6 DEF FutureInv, OwnedInv
    <2>9. QED
      BY <2>2, <2>3, <2>4, <2>7, <2>8 DEF FutureInv
  <1>3. QED
    BY <1>1, <1>2

(* Both invariants hold in every reachable state.                           *)
LEMMA FutureInvariant ==
    ASSUME FutureAssumption
    PROVE  FutureSpec => [](FutureInv /\ WaitInv)
  <1>1. FutureInit => WaitInv
    <2> SUFFICES ASSUME FutureInit PROVE WaitInv
      OBVIOUS
    <2>1. waited = {} /\ stack = <<>> /\ frames = <<NewFrame(Main)>>
      BY DEF FutureInit
    <2>2. \A f \in DOMAIN frames : frames[f].state = 0
      BY <2>1 DEF NewFrame
    <2>3. QED
      BY <2>1, <2>2 DEF WaitInv
  <1>2. QED
    BY <1>1, InitFutureInv, FutureInvInductive, WaitInvInductive, PTL DEF FutureSpec

-----------------------------------------------------------------------------
(* No poll or drop of any future runs on a frame whose memory was given     *)
(* back, and a suspended future holds its unfinished child.                 *)
THEOREM FuturesFramesHeld ==
    ASSUME FutureAssumption
    PROVE  FutureSpec => []FramesHeld
  <1>1. FutureInv => FramesHeld
    <2> SUFFICES ASSUME FutureInv PROVE FramesHeld
      OBVIOUS
    <2>1. NoFreedFrame
      BY DEF FutureInv, StackInv, ActivationOK, DropsInv, NoFreedFrame
    <2>2. ASSUME AtRest, NEW f \in live, Async(f), frames[f].state > 0
          PROVE  AwaitedChild(f) \in live /\ frames[AwaitedChild(f)].state # Completed
      <3>1. Resting(f)
        BY <2>2 DEF AtRest, Resting
      <3>2. frames[f].state = frames[f].made
        <4>1. f \in DOMAIN frames /\ frames[f] \in FrameType
          BY DEF FutureInv, TypeOK
        <4>2. FrameOK(f)
          BY <4>1 DEF FutureInv, TreeInv
        <4>3. QED
          BY <2>2, <4>1, <4>2 DEF FrameOK, FrameType, Completed
      <3>3. AwaitedChild(f) = Kid(f)
        BY <3>2 DEF AwaitedChild, Kid
      <3>4. QED
        BY <2>2, <3>1, <3>3 DEF FutureInv, RestInv
    <2>3. QED
      BY <2>1, <2>2 DEF FramesHeld, HoldsItsChild
  <1>2. QED
    BY <1>1, FutureInvariant, PTL

(* The body of every async function is run once, whatever the suspensions.  *)
THEOREM FuturesRunOnce ==
    ASSUME FutureAssumption
    PROVE  FutureSpec => []RunsOnce
  <1>1. FutureInv => RunsOnce
    <2> SUFFICES ASSUME FutureInv PROVE RunsOnce
      OBVIOUS
    <2>1. Running("body") => frames[Top.f].made = Top.at - 1
      <3> SUFFICES ASSUME Running("body") PROVE frames[Top.f].made = Top.at - 1
        OBVIOUS
      <3>1. stack # <<>> /\ Top.pc = "body"
        BY DEF Running
      <3>2. ActivationOK(Len(stack)) /\ frames[Top.f] \in FrameType
        BY <3>1, TopIsOne DEF FutureInv
      <3>3. QED
        BY <3>1, <3>2 DEF ActivationOK, Top, FrameType
    <2>2. ASSUME NEW f \in DOMAIN frames, frames[f].state = Completed
          PROVE  frames[f].made = Len(frames[f].kids)
      BY <2>2 DEF FutureInv, TreeInv, FrameOK, Completed
    <2>3. QED
      BY <2>1, <2>2 DEF RunsOnce
  <1>2. QED
    BY <1>1, FutureInvariant, PTL

(* A nonempty set of natural numbers has a least element.                   *)
LEMMA Least ==
    ASSUME NEW T \in SUBSET Nat, T # {}
    PROVE  \E n \in T : \A m \in T : n <= m
  <1> DEFINE R == OpToRel(<, Nat)
  <1>1. IsWellFoundedOn(R, Nat)
    BY NatLessThanWellFounded
  <1>2. PICK n \in T : \A m \in T : ~(<<m, n>> \in R)
    <2> HIDE DEF R
    <2>1. QED
      BY <1>1, WFMin
  <1>3. \A m \in T : ~(m < n)
    BY <1>2 DEF OpToRel
  <1>4. QED
    BY <1>3

(* Once the root was dropped, the oldest frame left that is no orphan would *)
(* be held by an older one, which is no orphan either.                      *)
THEOREM FuturesNoFrameLeaks ==
    ASSUME FutureAssumption
    PROVE  FutureSpec => []NoFrameLeaks
  <1>1. FutureInv => NoFrameLeaks
    <2> SUFFICES ASSUME FutureInv, client = "gone", AtRest, live \ orphans # {}
                 PROVE  FALSE
      BY DEF NoFrameLeaks
    <2>1. live \ orphans \in SUBSET Nat
      BY DEF FutureInv, TypeOK
    <2>2. PICK f \in live \ orphans : \A g \in live \ orphans : f <= g
      BY <2>1, Least
    <2>3. f # 1 /\ drops = <<>> /\ stack = <<>>
      BY <2>2 DEF FutureInv, OwnedInv, AtRest
    <2>4. PICK p \in live : Async(p) /\ Holding(p) /\ Kid(p) = f
      BY <2>2, <2>3 DEF FutureInv, OwnedInv
    <2>5. frames[p].state > 0 /\ p \in DOMAIN frames
      BY <2>3, <2>4 DEF Holding, FutureInv, TypeOK
    <2>6. p \notin orphans
      BY <2>4, <2>5 DEF FutureInv, OwnedInv
    <2>7. frames[p].made > 0
      BY <2>4, <2>5 DEF FutureInv, TreeInv, FrameOK, Completed
    <2>8. p < f /\ p \in Nat /\ f \in Nat
      BY <2>1, <2>2, <2>4, <2>5, <2>7, KidIsYounger DEF FutureInv
    <2>9. QED
      BY <2>2, <2>4, <2>6, <2>8
  <1>2. QED
    BY <1>1, FutureInvariant, PTL
=============================================================================
