-------------------------------- MODULE Types --------------------------------
(***************************************************************************)
(* The types of src/types.cpp as far as Send and Sync tell them apart, and *)
(* what a call does with them: substitution, matching and coercion.        *)
(***************************************************************************)
EXTENDS Integers, Sequences, FiniteSets
LOCAL INSTANCE SequencesExt

I64 == [k |-> "int"]
Str == [k |-> "str"]
Ptr(t) == [k |-> "ptr", to |-> t]
Ref(t) == [k |-> "ref", mut |-> FALSE, to |-> t]
MutRef(t) == [k |-> "ref", mut |-> TRUE, to |-> t]
Named(n, args) == [k |-> "named", name |-> n, args |-> args]
Generic(n) == [k |-> "generic", name |-> n]

Pointee(t) == t.k \in {"ptr", "ref"}
None == <<>>
With(s, n, t) == [m \in DOMAIN s \cup {n} |-> IF m = n THEN t ELSE s[m]]

RECURSIVE substitute_type(_, _)
substitute_type(t, s) ==
    CASE t.k = "generic" -> IF t.name \in DOMAIN s THEN s[t.name] ELSE t
      [] Pointee(t) -> [t EXCEPT !.to = substitute_type(@, s)]
      [] t.k = "named" -> [t EXCEPT !.args = [i \in DOMAIN @ |-> substitute_type(@[i], s)]]
      [] OTHER -> t

(* Matching a pattern leaves <<matches, substitution>>.                     *)
RECURSIVE unify(_, _, _)
unify(pattern, actual, s) ==
    IF pattern.k = "generic"
    THEN IF pattern.name \in DOMAIN s THEN <<s[pattern.name] = actual, s>>
         ELSE <<TRUE, With(s, pattern.name, actual)>>
    ELSE IF pattern.k # actual.k THEN <<FALSE, s>>
    ELSE CASE pattern.k = "ref" ->
                 IF pattern.mut # actual.mut THEN <<FALSE, s>> ELSE unify(pattern.to, actual.to, s)
           [] pattern.k = "ptr" -> unify(pattern.to, actual.to, s)
           [] pattern.k = "named" ->
                 IF pattern.name # actual.name THEN <<FALSE, s>>
                 ELSE FoldLeftDomain(LAMBDA u, i : IF u[1] THEN unify(pattern.args[i], actual.args[i], u[2]) ELSE u,
                                     <<TRUE, s>>, pattern.args)
           [] OTHER -> <<TRUE, s>>

RECURSIVE can_coerce(_, _)
can_coerce(f, t) ==
    \/ f = t
    \/ /\ Pointee(f) /\ f.k = t.k
       /\ f.k = "ref" => f.mut \/ ~t.mut
       /\ can_coerce(f.to, t.to)

is_copy(t) == t.k \in {"int", "ptr"} \/ (t.k = "ref" /\ ~t.mut)
=============================================================================
