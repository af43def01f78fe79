------------------------------- MODULE SendSync -------------------------------
(***************************************************************************)
(* Which values cross into a concurrent function.  A function              *)
(* func f[generics](value: param) is declared concurrent, a value is made  *)
(* with a struct literal and f is called with it: the boundary check of    *)
(* src/sema_smp.cpp, the literal and the call of src/sema_expr.cpp, and    *)
(* the solver of Send and Sync they share (src/sema_resolve.cpp).          *)
(***************************************************************************)
EXTENDS Types

CONSTANTS Structs,   \* name |-> its params, their bounds and its fields
          Programs,  \* the markers, what is declared and called
          MaxDepth   \* the solver's limit, 64 in the code

VARIABLES program, stage,
          errors,  \* the diagnostics so far
          subst    \* what the call gives the generics of the function

sendVars == <<program, stage, errors, subst>>
-----------------------------------------------------------------------------
(* TraitSolver::satisfies.  A struct has params, a sequence of names,       *)
(* bounds, names to sets of traits, and fields.  assumed is a set of pairs  *)
(* <<trait, generic>>; active the goals auto_trait is at work on.           *)
Args(struct, t) ==
    [n \in {struct.params[i] : i \in DOMAIN struct.params \cap DOMAIN t.args} |->
        t.args[CHOOSE i \in DOMAIN struct.params : struct.params[i] = n]]
(* The fields of a type; a plausible slip is to forget its arguments.       *)
DeclaredFields(struct, t) == {struct.fields[f] : f \in DOMAIN struct.fields}
FieldTypes(struct, t) == {substitute_type(struct.fields[f], Args(struct, t)) : f \in DOMAIN struct.fields}
Assumes(bounds) == UNION {{<<b, g>> : b \in bounds[g]} : g \in DOMAIN bounds}
Declared(struct, trait) == {a \in Assumes(struct.bounds) : a[1] = trait}

(* What a reference asks of its pointee; a plausible slip is to ask for the *)
(* trait itself.                                                            *)
SameTrait(trait, t) == trait
PointeeTrait(trait, t) == IF trait = "Send" /\ t.mut THEN "Send" ELSE "Sync"

RECURSIVE auto_trait(_, _, _, _)
auto_trait(t, trait, active, assumed) ==
    LET Solve(u, goal, more) == auto_trait(u, goal, active \cup {<<trait, t>>}, assumed \cup more)
    IN  \/ <<trait, t>> \in active
        \/ CASE t.k = "ptr" -> FALSE
             [] t.k = "ref" -> Solve(t.to, PointeeTrait(trait, t), {})
             [] t.k = "generic" -> <<trait, t.name>> \in assumed
             [] t.k = "named" -> /\ t.name \in DOMAIN Structs
                                 /\ \A f \in FieldTypes(Structs[t.name], t) :
                                        Solve(f, trait, Declared(Structs[t.name], trait))
             [] OTHER -> t.k = "str" \/ is_copy(t)

(* The markers first; a bound of a marker is solved one level deeper.  At   *)
(* every level auto_trait is asked about the type the caller asked about.   *)
RECURSIVE solve(_, _, _, _, _)
solve(markers, current, current_trait, depth, whole) ==
    /\ depth <= MaxDepth
    /\ \/ \E m \in markers :
             /\ m.trait = current_trait
             /\ LET u == unify(m.type, current, None)
                IN  /\ u[1]
                    /\ \A g \in DOMAIN m.bounds :
                          g \in DOMAIN u[2] /\ \A b \in m.bounds[g] : solve(markers, u[2][g], b, depth + 1, whole)
       \/ current_trait \in {"Send", "Sync"} /\ auto_trait(whole.type, whole.trait, {}, whole.assumed)

satisfies(markers, t, trait, bounds) ==
    IF trait = "Copy" THEN is_copy(t)
    ELSE /\ trait \in {"Send", "Sync"}
         /\ solve(markers, t, trait, 0, [type |-> t, trait |-> trait, assumed |-> Assumes(bounds)])
-----------------------------------------------------------------------------
(* The named types a value of type t is made of, each by a struct literal.  *)
RECURSIVE Made(_, _)
Made(t, seen) ==
    CASE t.k = "ref" -> Made(t.to, seen)
      [] t.k = "named" /\ t \notin seen ->
            seen \cup {t} \cup UNION {Made(f, seen \cup {t}) : f \in FieldTypes(Structs[t.name], t)}
      [] OTHER -> seen

Init == /\ program \in Programs
        /\ stage = "literals" /\ errors = {} /\ subst = None

(* The struct bounds of the literals that make the argument.                *)
StructLiterals ==
    /\ stage = "literals" /\ stage' = "call"
    /\ LET Kept(t) == LET struct == Structs[t.name]
                      IN  \A g \in DOMAIN struct.bounds : \A b \in struct.bounds[g] :
                             satisfies(program.markers, Args(struct, t)[g], b, None)
       IN  errors' = IF \A t \in Made(program.actual, {}) : Kept(t)
                     THEN errors ELSE errors \cup {"E0362 literal"}
    /\ UNCHANGED <<program, subst>>

(* check_call: the generics are inferred from the argument, or the argument *)
(* coerces to the parameter; every generic is known and keeps its bounds.   *)
Call ==
    /\ stage = "call" /\ stage' = "boundary"
    /\ LET u == unify(program.param, program.actual, None)
       IN  /\ subst' = u[2]
           /\ errors' = errors
                 \cup (IF u[1] \/ can_coerce(program.actual, program.param) THEN {} ELSE {"E0311"})
                 \cup (IF DOMAIN program.bounds \subseteq DOMAIN u[2] THEN {} ELSE {"E0312"})
                 \cup (IF \A g \in DOMAIN program.bounds \cap DOMAIN u[2] : \A b \in program.bounds[g] :
                             satisfies(program.markers, u[2][g], b, None)
                       THEN {} ELSE {"E0313"})
    /\ UNCHANGED program

(* validate_concurrency_boundaries.                                         *)
Boundary ==
    /\ stage = "boundary" /\ stage' = "checked"
    /\ errors' = IF satisfies(program.markers, program.param, "Send", program.bounds)
                 THEN errors ELSE errors \cup {"E0362"}
    /\ UNCHANGED <<program, subst>>

Next == StructLiterals \/ Call \/ Boundary
Spec == Init /\ [][Next]_sendVars
-----------------------------------------------------------------------------
(* What the traits mean: the greatest set of goals <<trait, type>> each of  *)
(* which a marker grants or follows from the goals of its parts.            *)
Parts(o) ==
    LET t == o[2] IN
    CASE t.k = "ref" -> IF o[1] = "Send" /\ t.mut THEN {<<"Send", t.to>>} ELSE {<<"Sync", t.to>>}
      [] t.k = "named" -> LET struct == Structs[t.name]
                          IN  {<<o[1], substitute_type(struct.fields[f], Args(struct, t))>> :
                                  f \in DOMAIN struct.fields}
      [] OTHER -> {}
Granted(markers, o, goals) ==
    \E m \in markers : /\ m.trait = o[1]
                         /\ unify(m.type, o[2], None)[1]
                         /\ \A g \in DOMAIN m.bounds : \A b \in m.bounds[g] :
                                <<b, unify(m.type, o[2], None)[2][g]>> \in goals
RECURSIVE Goals(_), Greatest(_, _)
Goals(goals) ==
    LET Arguments(o) == IF o[2].k = "named" THEN {<<trait, o[2].args[i]>> : trait \in {"Send", "Sync"},
                                                                          i \in DOMAIN o[2].args} ELSE {}
        more == UNION {Parts(o) \cup Arguments(o) : o \in goals}
    IN  IF more \subseteq goals THEN goals ELSE Goals(goals \cup more)
Greatest(markers, goals) ==
    LET kept == {o \in goals : Granted(markers, o, goals) \/ (o[2].k # "ptr" /\ Parts(o) \subseteq goals)}
    IN  IF kept = goals THEN goals ELSE Greatest(markers, kept)
Holds(markers, trait, t) == <<trait, t>> \in Greatest(markers, Goals({<<trait, t>>}))

(* No value that is not Send crosses into a concurrent function of an       *)
(* accepted program, whatever its generics are given.                       *)
OnlySendCrosses == stage = "checked" /\ errors = {} =>
    Holds(program.markers, "Send", substitute_type(program.param, subst))

(* A parameter without generics that is Send, because of its fields and     *)
(* recursive types included, is not turned away.                            *)
SendIsStructural == program.markers = {} /\ program.bounds = None =>
    ("E0362" \in errors => ~Holds({}, "Send", program.param))
=============================================================================
