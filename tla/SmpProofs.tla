----------------------------- MODULE SmpProofs -----------------------------
(***************************************************************************)
(* Concurrency is propagated to exactly the functions that can be reached, *)
(* whatever the call graph and the order of the worklist, and a program    *)
(* that the checks accept has no plain race on a global and hands only     *)
(* Send values to concurrent functions.                                    *)
(***************************************************************************)
EXTENDS SmpContexts, FiniteSetTheorems, SequenceTheorems, TLAPS

Elems(q) == {q[i] : i \in DOMAIN q}

(* What is concurrent is what was declared and what was visited; a callee   *)
(* of what was visited was visited or is still to come.                     *)
Propagation ==
    /\ seen \subseteq concurrent /\ concurrent = declared \cup seen
    /\ declared \subseteq seen \cup Elems(work)
    /\ \A f \in seen : calls[f] \subseteq seen \cup Elems(work)
    /\ concurrent \cup Elems(work) \subseteq Reachable

(* What the two checks leave, and where the CPUs are.                       *)
Checked ==
    /\ phase # "propagate" => work = <<>>
    /\ phase \notin {"propagate", "rejected"} /\ errors = {} =>
           \A f \in concurrent \ Externs : \A use \in touches[f] : MayTouch(use)
    /\ phase = "accepted" => errors = {} /\ concurrent \cap NotSend \subseteq Externs
    /\ phase # "accepted" => \A c \in Cpus : at[c] = Off
    /\ \A c \in Cpus : at[c] \in concurrent \cup {Off}

TypeOK ==
    /\ calls \in Graphs /\ declared \in Roots /\ touches \in Touches
    /\ phase \in {"propagate", "boundaries", "accepted", "rejected"}
    /\ concurrent \subseteq Fns /\ seen \subseteq Fns
    /\ work \in Seq(Fns)
    /\ at \in [Cpus -> Fns \cup {Off}]

SmpInv == TypeOK /\ Propagation /\ Checked
-----------------------------------------------------------------------------
(* A walk over a set of functions is a sequence of them, and holds each.    *)
LEMMA OrdersAreSequences ==
    ASSUME NEW s \in SUBSET Fns, NEW q \in Orders(s)
    PROVE  q \in Seq(Fns) /\ Elems(q) = s
<1>1. Cardinality(s) \in Nat
  BY SmpAssumption, FS_Subset, FS_CardinalityType
<1>2. q \in [1 .. Cardinality(s) -> s] /\ Elems(q) = s
  BY DEF Orders, Elems
<1>3. q \in Seq(s)
  BY <1>1, <1>2, IsASeq
<1>4. QED
  BY <1>2, <1>3, SeqMonotonic

(* pop_back takes the last key and leaves the others.                       *)
LEMMA PopBack ==
    ASSUME NEW q \in Seq(Fns), q # <<>>
    PROVE  LET rest == SubSeq(q, 1, Len(q) - 1)
           IN  /\ rest \in Seq(Fns) /\ q[Len(q)] \in Fns
               /\ Elems(q) = Elems(rest) \cup {q[Len(q)]}
<1> DEFINE n == Len(q) - 1
           rest == SubSeq(q, 1, n)
<1>1. n \in Nat /\ DOMAIN q = 1 .. n + 1 /\ \A i \in 1 .. n + 1 : q[i] \in Fns
  BY EmptySeq, LenProperties, ElementOfSeq
<1>2. rest \in Seq(Fns) /\ Len(rest) = n /\ \A i \in 1 .. n : rest[i] = q[i]
  <2>1. /\ rest \in Seq(Fns)
        /\ Len(rest) = IF 1 <= n THEN n - 1 + 1 ELSE 0
        /\ \A i \in 1 .. n - 1 + 1 : rest[i] = q[1 + i - 1]
    BY <1>1, SubSeqProperties
  <2>2. QED
    BY <1>1, <2>1
<1>3. DOMAIN rest = 1 .. n
  BY <1>2, LenProperties
<1>4. q[Len(q)] = q[n + 1]
  BY <1>1
<1>5. Elems(q) = Elems(rest) \cup {q[n + 1]}
  <2>1. 1 .. n + 1 = (1 .. n) \cup {n + 1}
    BY <1>1
  <2>2. Elems(q) = {q[i] : i \in 1 .. n} \cup {q[n + 1]}
    BY <1>1, <2>1 DEF Elems
  <2>3. Elems(rest) = {q[i] : i \in 1 .. n}
    BY <1>2, <1>3 DEF Elems
  <2>4. QED
    BY <2>2, <2>3
<1>6. QED
  BY <1>1, <1>2, <1>4, <1>5

(* push_back of a whole walk adds its functions.                            *)
LEMMA PushAll ==
    ASSUME NEW p \in Seq(Fns), NEW q \in Seq(Fns)
    PROVE  p \o q \in Seq(Fns) /\ Elems(p \o q) = Elems(p) \cup Elems(q)
<1>1. /\ p \o q \in Seq(Fns)
      /\ Elems(p \o q) = Range(p \o q) /\ Elems(p) = Range(p) /\ Elems(q) = Range(q)
  BY ConcatProperties DEF Elems, Range
<1>2. QED
  BY <1>1, RangeConcatenation

(* What is reachable is closed under the calls, and nothing closed is       *)
(* smaller.                                                                 *)
LEMMA ReachableIsLeast ==
    ASSUME calls \in [Fns -> SUBSET Fns], declared \in SUBSET Fns
    PROVE  /\ Closed(Reachable)
           /\ \A s \in SUBSET Fns : Closed(s) => Reachable \subseteq s
<1>1. declared \subseteq Reachable
  BY DEF Reachable, Closed
<1>2. ASSUME NEW f \in Reachable
      PROVE  calls[f] \subseteq Reachable
  BY <1>2 DEF Reachable, Closed
<1>3. QED
  BY <1>1, <1>2 DEF Reachable, Closed
-----------------------------------------------------------------------------
LEMMA InitialInv == Init => SmpInv
<1> SUFFICES ASSUME Init PROVE SmpInv
  OBVIOUS
<1>1. calls \in [Fns -> SUBSET Fns] /\ declared \in SUBSET Fns
  BY SmpAssumption DEF Init
<1>2. work \in Seq(Fns) /\ Elems(work) = declared
  BY <1>1, OrdersAreSequences DEF Init
<1>3. TypeOK
  BY <1>1, <1>2 DEF Init, TypeOK
<1>4. Propagation
  BY <1>1, <1>2, ReachableIsLeast DEF Init, Propagation, Closed
<1>5. Checked
  BY DEF Init, Checked
<1>6. QED
  BY <1>3, <1>4, <1>5 DEF SmpInv

(* One turn of the worklist keeps the invariant.                            *)
LEMMA VisitKeepsInv ==
    ASSUME SmpInv, Visit
    PROVE  SmpInv'
<1> USE DEF SmpInv
<1> DEFINE key == work[Len(work)]
           rest == SubSeq(work, 1, Len(work) - 1)
<1>1. /\ phase = "propagate" /\ phase' = phase /\ work # <<>>
      /\ UNCHANGED <<calls, declared, touches, errors, at>>
  BY DEF Visit, program
<1>2. calls \in [Fns -> SUBSET Fns] /\ declared \in SUBSET Fns
  BY SmpAssumption DEF TypeOK
<1>3. rest \in Seq(Fns) /\ key \in Fns /\ Elems(work) = Elems(rest) \cup {key}
  BY <1>1, PopBack DEF TypeOK
<1>4. Reachable' = Reachable
  BY <1>1 DEF Reachable, Closed
<1>5. CASE key \in seen
  <2>1. work' = rest /\ seen' = seen /\ concurrent' = concurrent
    BY <1>5 DEF Visit
  <2>2. TypeOK'
    BY <1>1, <1>3, <2>1 DEF TypeOK
  <2>3. Elems(work') = Elems(rest)
    BY <2>1
  <2>4. Propagation'
    BY <1>1, <1>3, <1>4, <1>5, <2>1, <2>3 DEF Propagation
  <2>5. Checked'
    BY <1>1, <2>1 DEF Checked
  <2>6. QED
    BY <2>2, <2>4, <2>5
<1>6. CASE key \notin seen
  <2>1. seen' = seen \cup {key} /\ concurrent' = concurrent \cup {key}
    BY <1>6 DEF Visit
  <2>2. PICK order \in Orders(calls[key]) : work' = rest \o order
    BY <1>6 DEF Visit
  <2>3. calls[key] \in SUBSET Fns
    BY <1>2, <1>3
  <2>4. order \in Seq(Fns) /\ Elems(order) = calls[key]
    BY <2>2, <2>3, OrdersAreSequences
  <2>5. work' \in Seq(Fns) /\ Elems(work') = Elems(rest) \cup calls[key]
    BY <1>3, <2>2, <2>4, PushAll
  <2>6. TypeOK'
    BY <1>1, <1>3, <2>1, <2>5 DEF TypeOK
  <2>7. key \in Reachable /\ calls[key] \subseteq Reachable
    BY <1>2, <1>3, ReachableIsLeast DEF Propagation, Closed
  <2>8. Propagation'
    <3>1. seen' \subseteq concurrent' /\ concurrent' = declared' \cup seen'
      BY <1>1, <2>1 DEF Propagation
    <3>2. declared' \subseteq seen' \cup Elems(work')
      BY <1>1, <1>3, <2>1, <2>5 DEF Propagation
    <3>3. \A f \in seen' : calls'[f] \subseteq seen' \cup Elems(work')
      BY <1>1, <1>3, <2>1, <2>5 DEF Propagation
    <3>4. concurrent' \cup Elems(work') \subseteq Reachable'
      BY <1>3, <1>4, <2>1, <2>5, <2>7 DEF Propagation
    <3>5. QED
      BY <3>1, <3>2, <3>3, <3>4 DEF Propagation
  <2>9. Checked'
    BY <1>1, <2>1 DEF Checked
  <2>10. QED
    BY <2>6, <2>8, <2>9
<1>7. QED
  BY <1>5, <1>6

(* With an empty worklist, what is concurrent is what can be reached.       *)
LEMMA SettledIsReachable ==
    ASSUME TypeOK, Propagation, work = <<>>
    PROVE  concurrent = Reachable /\ \A f \in concurrent : calls[f] \subseteq concurrent
<1>1. calls \in [Fns -> SUBSET Fns] /\ declared \in SUBSET Fns
  BY SmpAssumption DEF TypeOK
<1>2. Elems(work) = {}
  BY DEF Elems
<1>3. concurrent = seen /\ Closed(concurrent)
  BY <1>2 DEF Propagation, Closed
<1>4. Reachable \subseteq concurrent
  BY <1>1, <1>3, ReachableIsLeast DEF TypeOK
<1>5. QED
  BY <1>3, <1>4 DEF Propagation, Closed

(* The checks and the CPUs keep it too.                                     *)
LEMMA InductiveInv == SmpInv /\ [Next]_smpVars => SmpInv'
<1> SUFFICES ASSUME SmpInv, [Next]_smpVars PROVE SmpInv'
  OBVIOUS
<1>1. CASE Visit
  BY <1>1, VisitKeepsInv
<1>2. CASE CheckBodies
  <2>1. /\ phase = "propagate" /\ work = <<>> /\ phase' = "boundaries"
        /\ UNCHANGED <<calls, declared, touches, concurrent, work, seen, at>>
        /\ errors' = {} => \A f \in concurrent \ Externs : \A use \in touches[f] : MayTouch(use)
    BY <1>2 DEF CheckBodies, program
  <2>2. TypeOK'
    BY <2>1 DEF TypeOK, SmpInv
  <2>3. Propagation'
    BY <2>1 DEF Propagation, SmpInv, Reachable, Closed
  <2>4. Checked'
    BY <2>1 DEF Checked, SmpInv, MayTouch
  <2>5. QED
    BY <2>2, <2>3, <2>4 DEF SmpInv
<1>3. CASE CheckBoundaries
  <2>1. /\ phase = "boundaries" /\ phase' \in {"accepted", "rejected"}
        /\ UNCHANGED <<calls, declared, touches, concurrent, work, seen, at>>
        /\ phase' = "accepted" => errors = {} /\ errors' = {} /\ concurrent \cap NotSend \subseteq Externs
    BY <1>3 DEF CheckBoundaries, program
  <2>2. TypeOK'
    BY <2>1 DEF TypeOK, SmpInv
  <2>3. Propagation'
    BY <2>1 DEF Propagation, SmpInv, Reachable, Closed
  <2>4. Checked'
    BY <2>1 DEF Checked, SmpInv, MayTouch
  <2>5. QED
    BY <2>2, <2>3, <2>4 DEF SmpInv
<1>4. ASSUME NEW c \in Cpus, Run(c)
      PROVE  SmpInv'
  <2>1. /\ phase = "accepted"
        /\ UNCHANGED <<calls, declared, touches, phase, concurrent, work, seen, errors>>
    BY <1>4 DEF Run, program
  <2>2. PICK f \in IF at[c] = Off THEN declared ELSE calls[at[c]] \cup {Off} :
             at' = [at EXCEPT ![c] = f]
    BY <1>4 DEF Run
  <2>3. declared \subseteq concurrent /\ \A g \in concurrent : calls[g] \subseteq concurrent
    BY <2>1, SettledIsReachable DEF SmpInv, Checked, Propagation
  <2>4. f \in concurrent \cup {Off}
    BY <2>2, <2>3 DEF SmpInv, Checked
  <2>5. TypeOK'
    BY <2>1, <2>2, <2>4 DEF TypeOK, SmpInv
  <2>6. Propagation'
    BY <2>1 DEF Propagation, SmpInv, Reachable, Closed
  <2>7. Checked'
    BY <2>1, <2>2, <2>4 DEF Checked, SmpInv, MayTouch, TypeOK
  <2>8. QED
    BY <2>5, <2>6, <2>7 DEF SmpInv
<1>5. CASE UNCHANGED smpVars
  BY <1>5 DEF SmpInv, smpVars, program, TypeOK, Propagation, Checked, Reachable, Closed, MayTouch
<1>6. QED
  BY <1>1, <1>2, <1>3, <1>4, <1>5 DEF Next

(* The invariant of the analysis and of the program it accepted.            *)
THEOREM SmpInvariant == Spec => []SmpInv
<1>1. QED
  BY InitialInv, InductiveInv, PTL DEF Spec

(* propagate_concurrency marks exactly the functions that can be reached    *)
(* from the declared ones, for every call graph and every order in which    *)
(* the containers are walked.                                               *)
THEOREM SmpPropagatesToAll == Spec => []PropagatesToAll
<1>1. SmpInv => PropagatesToAll
  BY SettledIsReachable DEF SmpInv, Checked, PropagatesToAll
<1>2. QED
  BY <1>1, SmpInvariant, PTL

(* A program without E0363 has no two CPUs at the same storage one of which *)
(* uses it plainly.                                                         *)
THEOREM SmpNoPlainRace == Spec => []NoPlainRace
<1>1. SmpInv => NoPlainRace
  <2> SUFFICES ASSUME SmpInv, NEW c \in Cpus, NEW d \in Cpus,
                      NEW a \in Uses(c), NEW b \in Uses(d), SameStorage(a, b)
               PROVE  Atomic(a) /\ Atomic(b)
    BY DEF NoPlainRace
  <2>1. ASSUME NEW e \in Cpus, NEW u \in Uses(e),
               ~u.local, Cells[u.cell].mut, ~Cells[u.cell].percpu
        PROVE  Atomic(u)
    <3>1. at[e] \in Fns \ Externs /\ u \in touches[at[e]]
      BY <2>1 DEF Uses
    <3>2. at[e] \in concurrent /\ phase = "accepted"
      BY <3>1, SmpAssumption DEF SmpInv, Checked
    <3>3. MayTouch(u)
      BY <3>1, <3>2 DEF SmpInv, Checked
    <3>4. u.field # Whole => Cells[u.cell].struct
      BY <3>1, FieldAssumption DEF SmpInv, TypeOK
    <3>5. QED
      BY <2>1, <3>3, <3>4 DEF MayTouch, Atomic
  <2>2. QED
    BY <2>1 DEF SameStorage
<1>2. QED
  BY <1>1, SmpInvariant, PTL

(* A program without E0362 runs no function with a body concurrently that   *)
(* takes what is not Send, however it was reached.                          *)
THEOREM SmpOnlySendIsTaken == Spec => []OnlySendIsTaken
<1>1. SmpInv => OnlySendIsTaken
  <2> SUFFICES ASSUME SmpInv, NEW c \in Cpus, at[c] \in NotSend \ Externs, at[c] # Off
               PROVE  FALSE
    BY SmpAssumption DEF OnlySendIsTaken
  <2>1. QED
    BY DEF SmpInv, Checked
<1>2. QED
  BY <1>1, SmpInvariant, PTL
=============================================================================
