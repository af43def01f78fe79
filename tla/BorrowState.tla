---------------------------- MODULE BorrowState ----------------------------
(***************************************************************************)
(* The forward state of the borrow checker and the operations on it        *)
(* (src/borrow_loans.cpp, src/borrow_places.cpp, src/borrow_flow.cpp).     *)
(* A state records the moved places, the loans, where each reference may   *)
(* point (orig), the scopes with the types of their bindings, whether the  *)
(* point is reachable, and the diagnostics reported on the way to it.      *)
(* Every operation maps a state to a state.  Source ranges are the labels  *)
(* `at` of the borrow and call expressions.                                *)
(*                                                                         *)
(* A place is the sequence of the components the code separates by dots:   *)
(* the binding, then field names, with AnyIdx for every dynamic index.     *)
(* The place `<external:p>`, the referent of a reference that came in from *)
(* outside, is External followed by p.                                     *)
(***************************************************************************)
EXTENDS Naturals, Sequences, FiniteSets, FiniteSetsExt

CONSTANT Types   \* type name -> [copy, ref, pointee, fields], from sema

ASSUME TypesAssumption ==
    \A t \in DOMAIN Types : /\ Types[t].copy \in BOOLEAN
                            /\ Types[t].ref \in {"none", "shared", "mut"}
                            /\ Types[t].ref # "none" => Types[t].pointee \in DOMAIN Types
                            /\ \A f \in DOMAIN Types[t].fields :
                                  Types[t].fields[f] \in DOMAIN Types

AnyIdx   == "[*]"
External == "<external>"

root_of(place) == place[1]
is_external(place) == root_of(place) = External

(* parent is a proper prefix of child, component by component.              *)
is_strict_child(parent, child) ==
    /\ Len(child) > Len(parent)
    /\ \A i \in 1 .. Len(parent) : child[i] = parent[i]

(* p itself or a place inside it.                                           *)
within(p, q) == q = p \/ is_strict_child(p, q)

(* Two places are disjoint when they part at a pair of distinct names; a    *)
(* dynamic index may be any element, and an external place may be anything. *)
places_disjoint(a, b) ==
    /\ ~is_external(a) /\ ~is_external(b)
    /\ \E i \in 1 .. Len(a) : /\ i <= Len(b)
                              /\ a[i] # b[i]
                              /\ a[i] # AnyIdx /\ b[i] # AnyIdx
                              /\ \A j \in 1 .. i - 1 : a[j] = b[j]

places_conflict(a, b) == ~places_disjoint(a, b)
-----------------------------------------------------------------------------
Temporary == <<"<temporary>">>
TwoPhase  == "<twophase>"

InitialState(params, async) ==
    [moved |-> {}, loans |-> {}, orig |-> <<>>, scopes |-> <<params>>,
     async |-> async, reach |-> TRUE, errs |-> {}]

report_error(st, code) == [st EXCEPT !.errs = @ \cup {code}]
-----------------------------------------------------------------------------
(* Types of places.                                                         *)
Locals(st) == UNION {DOMAIN st.scopes[i] : i \in DOMAIN st.scopes}
BindingType(root, st) ==
    st.scopes[CHOOSE i \in DOMAIN st.scopes : root \in DOMAIN st.scopes[i]][root]

(* A field of a reference is a field of what it points to.                  *)
FieldType(type, field) ==
    Types[IF Types[type].ref = "none" THEN type ELSE Types[type].pointee].fields[field]

type_of_place(place, st) ==
    LET type[i \in 1 .. Len(place)] ==
            IF i = 1 THEN BindingType(root_of(place), st)
                     ELSE FieldType(type[i - 1], place[i])
    IN  type[Len(place)]

is_copy_type(type) == Types[type].copy

RECURSIVE contains_reference(_)
contains_reference(type) ==
    \/ Types[type].ref # "none"
    \/ \E f \in DOMAIN Types[type].fields : contains_reference(Types[type].fields[f])

(* A binding belongs to the frame; what is reached through a reference      *)
(* binding does not.                                                        *)
is_stack_owned(place, st) ==
    /\ root_of(place) \in Locals(st)
    /\ ~(Len(place) > 1 /\ Types[BindingType(root_of(place), st)].ref # "none")
-----------------------------------------------------------------------------
(* Moves.                                                                   *)
(* Plausible slips: only the very place that was moved is gone.             *)
UnavailableExact(place, st) == place \in st.moved
MovedAncestorExact(place, st) == place \in st.moved

unavailable(place, st) == \E m \in st.moved : places_conflict(m, place)
has_moved_ancestor(place, st) == \E m \in st.moved : is_strict_child(m, place)
mark_initialized(place, st) ==
    [st EXCEPT !.moved = {m \in @ : ~within(place, m)}]
-----------------------------------------------------------------------------
(* Loans: place, borrower, kind ("shared", "mut", "reserved", "activated"). *)
(* Loan.mut is TRUE exactly for the last three kinds.                       *)
ActiveMut(loan) == loan.kind \in {"mut", "activated"}

kill_borrower(borrower, st) ==
    [st EXCEPT !.loans = {l \in @ : l.borrower # borrower}]
kill_borrowers_under(place, st) ==
    [st EXCEPT !.loans = {l \in @ : ~within(place, l.borrower)}]

(* What each kind of access reports when a loan stands in its way.          *)
Code == [read |-> "E0406", borrow_shared |-> "E0401", reserve |-> "E0402",
         borrow_mut |-> "E0402", write |-> "E0403", move |-> "E0403"]

(* A plausible slip: a write is only stopped by a mutable loan.             *)
BlocksLax(loan, access, via) ==
    CASE access = "borrow_mut"    -> loan.borrower \notin via
      [] access = "borrow_shared" -> ActiveMut(loan) /\ loan.borrower \notin via
      [] OTHER -> ActiveMut(loan)

Blocks(loan, access, via) ==
    CASE access = "read"          -> ActiveMut(loan)
      [] access = "borrow_shared" -> ActiveMut(loan) /\ loan.borrower \notin via
      [] access = "reserve"       -> ActiveMut(loan)
      [] access = "borrow_mut"    -> loan.borrower \notin via
      [] access \in {"write", "move"} -> TRUE

(* A by-value use of a Copy place is a read.                                *)
Effective(access, place, st) ==
    IF access = "move" /\ is_copy_type(type_of_place(place, st)) THEN "read" ELSE access

access_place(place, access0, st, via) ==
    LET access == Effective(access0, place, st)
        gone == IF access = "write" THEN has_moved_ancestor(place, st)
                                    ELSE unavailable(place, st)
        clash == \E l \in st.loans : places_conflict(place, l.place) /\ Blocks(l, access, via)
        checked == IF clash THEN report_error(st, Code[access]) ELSE st
    IN  IF gone THEN report_error(st, "E0400")
        ELSE IF access = "move" THEN [checked EXCEPT !.moved = @ \cup {place}]
        ELSE checked

AddLoan(place, borrower, kind, at, st) ==
    [st EXCEPT !.loans = @ \cup {[place |-> place, borrower |-> borrower, kind |-> kind, at |-> at]}]

begin_borrow(place, borrower, mut, at, st, via) ==
    AddLoan(place, borrower, IF mut THEN "mut" ELSE "shared", at,
            access_place(place, IF mut THEN "borrow_mut" ELSE "borrow_shared", st, via))

begin_two_phase_reservation(place, borrower, at, st) ==
    AddLoan(place, borrower, "reserved", at, access_place(place, "reserve", st, {}))

activate_two_phase(borrower, at, st) ==
    LET reserved == {l \in st.loans : l.borrower = borrower /\ l.kind = "reserved"}
        clash == \E l \in reserved : \E o \in st.loans \ {l} : places_conflict(l.place, o.place)
        activated == {[l EXCEPT !.kind = "activated", !.at = at] : l \in reserved}
        st1 == IF clash THEN report_error(st, "E0402") ELSE st
    IN  [st1 EXCEPT !.loans = (@ \ reserved) \cup activated]
-----------------------------------------------------------------------------
(* Origins: the places a reference may point to, with the references it     *)
(* was reborrowed through (via).  Two origins that differ only in via are   *)
(* one to the code, which keeps the first.                                  *)
same_origin(a, b) == a.place = b.place /\ a.mut = b.mut /\ a.at = b.at
Unique(os) == {o \in os : o = CHOOSE x \in os : same_origin(x, o)}
Merged(os, more) == os \cup {o \in Unique(more) : ~\E x \in os : same_origin(x, o)}

EraseOrigins(place, st) ==
    [st EXCEPT !.orig = [p \in {d \in DOMAIN @ : ~within(place, d)} |-> st.orig[p]]]

set_reference_origins(place, origins, st) ==
    LET erased == EraseOrigins(place, st)
    IN  IF origins = {} THEN erased
        ELSE [erased EXCEPT !.orig = [p \in DOMAIN @ \cup {place} |->
                 IF p = place THEN Unique(origins) ELSE erased.orig[p]]]

(* The loans of a new reference replace those of the temporary it was       *)
(* computed in; a reborrow also freezes the references it went through.     *)
promote_reference_value(borrower, origins, st) ==
    LET consumed(l) == /\ l.borrower = Temporary
                       /\ \E o \in origins : places_conflict(l.place, o.place) \/ l.place \in o.via
        lend(o, s) == FoldSet(LAMBDA p, s1 : begin_borrow(p, borrower, o.mut, o.at, s1,
                                                          o.via \cup {borrower}),
                              s, {o.place} \cup o.via)
    IN  FoldSet(lend, [st EXCEPT !.loans = {l \in @ : ~consumed(l)}], origins)
-----------------------------------------------------------------------------
(* Control flow.                                                            *)
MergeOrigins(f, g) ==
    [p \in DOMAIN f \cup DOMAIN g |->
        Merged(IF p \in DOMAIN f THEN f[p] ELSE {}, IF p \in DOMAIN g THEN g[p] ELSE {})]

(* A plausible slip: a place is moved only if it is moved on both sides.    *)
MergeMovedOnBoth(left, right) ==
    [left EXCEPT !.moved = @ \cap right.moved, !.loans = @ \cup right.loans,
                 !.orig = MergeOrigins(@, right.orig), !.errs = @ \cup right.errs,
                 !.reach = @ \/ right.reach]

(* An unreachable side contributes its diagnostics only.                    *)
merge_states(left, right) ==
    LET errs == left.errs \cup right.errs
    IN  IF ~right.reach THEN [left EXCEPT !.errs = errs]
        ELSE IF ~left.reach THEN [right EXCEPT !.errs = errs]
        ELSE [left EXCEPT !.moved = @ \cup right.moved,
                          !.loans = @ \cup right.loans,
                          !.orig = MergeOrigins(@, right.orig),
                          !.errs = errs]

(* Equal up to the via of their origins and the diagnostics.                *)
Shape(st) == <<st.reach, st.moved, st.loans, Len(st.scopes),
               [p \in DOMAIN st.orig |-> {<<o.place, o.mut, o.at>> : o \in st.orig[p]}]>>
states_equivalent(a, b) == Shape(a) = Shape(b)

(* Leaving a scope: a reference that stays behind must not point into it.   *)
PopScope(st) ==
    LET locals == DOMAIN st.scopes[Len(st.scopes)]
        stays == {p \in DOMAIN st.orig : root_of(p) \notin locals}
        dangling == \E p \in stays : \E o \in st.orig[p] : root_of(o.place) \in locals
        st1 == IF dangling THEN report_error(st, "E0405") ELSE st
    IN  [st1 EXCEPT !.scopes = SubSeq(@, 1, Len(@) - 1),
                    !.loans = {l \in @ : root_of(l.borrower) \notin locals},
                    !.moved = {m \in @ : root_of(m) \notin locals},
                    !.orig = [p \in stays |-> st.orig[p]]]

RECURSIVE truncate_scopes(_, _)
truncate_scopes(st, depth) ==
    IF Len(st.scopes) <= depth THEN st ELSE truncate_scopes(PopScope(st), depth)
=============================================================================
