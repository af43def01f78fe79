----------------------------- MODULE SmpContexts -----------------------------
(***************************************************************************)
(* Which functions may run concurrently and what they may touch:           *)
(* TypeChecker::propagate_concurrency and validate_concurrency_boundaries  *)
(* (src/sema_smp.cpp), and the accepted program on several CPUs.           *)
(*                                                                         *)
(* A program is who calls whom, which functions are declared concurrent,   *)
(* and what each body touches: globals, whole or one field, or locals that *)
(* have the name of a global.                                              *)
(***************************************************************************)
EXTENDS Integers, Sequences, FiniteSets

CONSTANTS Fns,           \* the functions
          Externs,       \* those without a body
          NotSend,       \* those with a parameter that is not Send
          Cells,         \* the globals: [mut, percpu, shared, struct : BOOLEAN]
          SharedFields,  \* the fields declared shared
          Cpus,          \* what enters the functions declared concurrent
          Graphs, Roots, Touches  \* the programs to analyse

Off == "off"      \* where a CPU is that runs none of the functions
Whole == "whole"  \* the field of a use that names no field

ASSUME SmpAssumption == /\ IsFiniteSet(Fns)
                        /\ Off \notin Fns
                        /\ Externs \subseteq Fns /\ NotSend \subseteq Fns
                        /\ Graphs \subseteq [Fns -> SUBSET Fns]
                        /\ Roots \subseteq SUBSET Fns
                        /\ \A g \in Graphs, f \in Externs : g[f] = {}

(* Only a structure has fields.                                             *)
ASSUME FieldAssumption ==
    \A t \in Touches : \A f \in Fns : \A use \in t[f] : use.field # Whole => Cells[use.cell].struct

VARIABLES calls, declared, touches,  \* the program
          phase,                     \* what the checker is doing
          concurrent,                \* the functions whose is_concurrent is set
          work, seen,                \* the worklist
          errors,
          at                         \* the function each CPU is in

program == <<calls, declared, touches>>
smpVars == <<program, phase, concurrent, work, seen, errors, at>>

(* Unordered containers are walked in any order.                            *)
Orders(s) == {q \in [1 .. Cardinality(s) -> s] : {q[i] : i \in DOMAIN q} = s}

Init == /\ calls \in Graphs /\ declared \in Roots /\ touches \in Touches
        /\ phase = "propagate"
        /\ concurrent = declared
        /\ work \in Orders(declared)
        /\ seen = {} /\ errors = {}
        /\ at = [c \in Cpus |-> Off]
-----------------------------------------------------------------------------
(* A plausible slip: the calls of a function that was declared concurrent   *)
(* are taken to have been followed.                                         *)
VisitUndeclared ==
    /\ phase = "propagate" /\ work # <<>>
    /\ LET key == work[Len(work)]
           rest == SubSeq(work, 1, Len(work) - 1)
       IN  IF key \in seen \/ (seen # {} /\ key \in concurrent)
           THEN work' = rest /\ UNCHANGED <<seen, concurrent>>
           ELSE /\ seen' = seen \cup {key}
                /\ concurrent' = concurrent \cup {key}
                /\ \E order \in Orders(calls[key]) : work' = rest \o order
    /\ UNCHANGED <<program, phase, errors, at>>

(* A plausible slip: what was visited is not remembered.                    *)
VisitAgain ==
    /\ phase = "propagate" /\ work # <<>>
    /\ LET key == work[Len(work)]
       IN  \E order \in Orders(calls[key]) :
              /\ work' = SubSeq(work, 1, Len(work) - 1) \o (IF Len(work) > 3 THEN <<key>> ELSE order)
              /\ concurrent' = concurrent \cup {key}
    /\ UNCHANGED <<program, phase, seen, errors, at>>

(* One turn of the worklist.  A key that was seen is dropped.               *)
Visit ==
    /\ phase = "propagate" /\ work # <<>>
    /\ LET key == work[Len(work)]
           rest == SubSeq(work, 1, Len(work) - 1)
       IN  IF key \in seen
           THEN work' = rest /\ UNCHANGED <<seen, concurrent>>
           ELSE /\ seen' = seen \cup {key}
                /\ concurrent' = concurrent \cup {key}
                /\ \E order \in Orders(calls[key]) : work' = rest \o order
    /\ UNCHANGED <<program, phase, errors, at>>

(* A plausible slip: a struct with a shared field may be touched as a whole. *)
MayTouchStruct(use) ==
    LET cell == Cells[use.cell]
    IN  use.local \/ ~cell.mut \/ cell.percpu \/ cell.shared
        \/ (cell.struct /\ SharedFields # {} /\ use.field \in SharedFields \cup {Whole})

(* check_expr: E0363 for a use of a mutable global that is neither percpu   *)
(* nor shared.  A field of a struct is judged by its own declaration.       *)
MayTouch(use) ==
    LET cell == Cells[use.cell]
    IN  \/ use.local \/ ~cell.mut \/ cell.percpu
        \/ IF use.field # Whole /\ cell.struct THEN use.field \in SharedFields ELSE cell.shared

(* The bodies of all concurrent functions.                                  *)
CheckBodies ==
    /\ phase = "propagate" /\ work = <<>>
    /\ phase' = "boundaries"
    /\ errors' = IF \A f \in concurrent \ Externs : \A use \in touches[f] : MayTouch(use)
                 THEN errors ELSE errors \cup {"E0363"}
    /\ UNCHANGED <<program, concurrent, work, seen, at>>

(* validate_concurrency_boundaries: the parameters of all concurrent        *)
(* functions, but for externs.                                              *)
CheckBoundaries ==
    /\ phase = "boundaries"
    /\ errors' = errors \cup (IF concurrent \cap NotSend \subseteq Externs THEN {} ELSE {"E0362"})
    /\ phase' = IF errors' = {} THEN "accepted" ELSE "rejected"
    /\ UNCHANGED <<program, concurrent, work, seen, at>>

(* A CPU enters a function declared concurrent, calls on and comes back.    *)
Run(c) == /\ phase = "accepted"
          /\ \E f \in IF at[c] = Off THEN declared ELSE calls[at[c]] \cup {Off} :
                at' = [at EXCEPT ![c] = f]
          /\ UNCHANGED <<program, phase, concurrent, work, seen, errors>>

Next == Visit \/ CheckBodies \/ CheckBoundaries \/ \E c \in Cpus : Run(c)

(* The analysis is one loop of one thread.                                  *)
Fairness == WF_smpVars(Visit) /\ WF_smpVars(CheckBodies)
Spec == Init /\ [][Next]_smpVars /\ Fairness
-----------------------------------------------------------------------------
(* The least set that holds the declared functions and is closed under the  *)
(* calls.                                                                   *)
Closed(s) == declared \subseteq s /\ \A f \in s : calls[f] \subseteq s
Reachable == {f \in Fns : \A s \in SUBSET Fns : Closed(s) => f \in s}

(* "Concurrency propagates through the visible call graph."                 *)
(* (docs/MEMORY_MODEL.md:80): whatever the cycles, and in whatever order    *)
(* the containers are walked, exactly what is reachable is concurrent.      *)
PropagatesToAll == phase # "propagate" => concurrent = Reachable

(* Two CPUs never are at uses of the same storage one of which is plain.    *)
Atomic(use) == IF use.field = Whole THEN Cells[use.cell].shared ELSE use.field \in SharedFields
SameStorage(a, b) ==
    /\ a.cell = b.cell /\ ~a.local /\ ~b.local
    /\ Cells[a.cell].mut /\ ~Cells[a.cell].percpu
    /\ a.field = b.field \/ Whole \in {a.field, b.field}
Uses(c) == IF at[c] \in Fns \ Externs THEN touches[at[c]] ELSE {}
NoPlainRace == \A c, d \in Cpus : c # d =>
    \A a \in Uses(c), b \in Uses(d) : SameStorage(a, b) => Atomic(a) /\ Atomic(b)

(* No CPU runs a function of the program that takes what is not Send.       *)
OnlySendIsTaken == \A c \in Cpus : at[c] \notin NotSend \ Externs

(* The propagation ends, whatever the cycles of calls.                      *)
PropagationEnds == (phase = "propagate") ~> (phase # "propagate")
=============================================================================
