--------------------------- MODULE SourceMeaning ---------------------------
(***************************************************************************)
(* What a function of the language means (docs/LANGUAGE_SPEC.md): the      *)
(* reference that the lowering and the optimizer are compared with.  Names *)
(* are bound lexically, a block's locals end with it, a value whose type   *)
(* implements Drop is destroyed once, when its scope is left and unless it *)
(* was moved, a range is a range of integers, && and || of operands        *)
(* without effects are conjunction and disjunction, and a shared place is  *)
(* read and written with the orderings of the SMP mode.                    *)
(*                                                                         *)
(* A state st holds the bindings, the memory, the events, the value v of   *)
(* the last expression and out: "running", or why the execution left its   *)
(* place ("break", "continue", "return", "trap", "cut").                   *)
(***************************************************************************)
EXTENDS MirLowering

Start(input, mode) ==
    [env |-> ("x" :> <<"s", 0>>) @@ ("xs" :> <<"s", 1>>) @@ Globals, next |-> 2,
     mem |-> (<<"s", 0>> :> <<input>>) @@ (<<"s", 1>> :> <<Code(Element(0))[1], 2>>) @@ ExternalMemory,
     res |-> {}, mode |-> mode, trace |-> <<>>, out |-> "running", v |-> <<>>]

With(st, v) == [st EXCEPT !.v = v]
Leave(st, why) == [st EXCEPT !.out = why]
Going(st) == st.out = "running"
Happens(st, e) == [st EXCEPT !.trace = Append(@, e),
                             !.out = IF Len(st.trace) + 1 >= MaxEvents THEN "cut" ELSE @]
Shared(e) == \/ e.k = "Name" /\ e.name = "flags"
             \/ e.k = "Member" /\ e.member = "b"
Order(st, weak) == IF st.mode = "Strict" THEN "seq_cst" ELSE weak
Convert(ty, st) == IF ty \in Integer /\ st.v # <<>> THEN With(st, <<Wrap(ty, st.v[1])>>) ELSE st

RECURSIVE Eval(_, _)
RECURSIVE EvalSeq(_, _, _, _)
RECURSIVE Place(_, _)

(* The value of st is the address of the place e.                           *)
FieldOf(e, b) == With(b, Code(<<IF e.member = "b" THEN "h" ELSE "f", Decode(b.v)[2]>>))
ElementOf(slice, i) ==
    CASE ~Going(i) -> i
      [] i.v[1] \in 0..(slice[2] - 1) -> With(i, <<slice[1] + i.v[1]>>)
      [] OTHER -> Leave(i, "trap")
IndexIn(e, b) == ElementOf(b.v, Eval(e.index, b))
Place(e, st) ==
    CASE e.k = "Name" -> With(st, Code(st.env[e.name]))
      [] e.k = "Unary" -> Eval(e.operand, st)
      [] e.k = "Member" /\ IsRef(e.base.ty) -> FieldOf(e, Eval(e.base, st))
      [] e.k = "Member" -> FieldOf(e, Place(e.base, st))
      [] e.k = "Index" -> IndexIn(e, Eval(e.base, st))

Content(p) == With(p, Get(p.mem, Decode(p.v)))
ReadAt(e, p) ==
    CASE ~Going(p) -> p
      [] Shared(e) -> Happens(With(p, Moment(p.trace)), <<"load", Order(p, "acquire"), Decode(p.v)[1]>>)
      [] OTHER -> Content(p)
Read(e, st) == ReadAt(e, Place(e, st))

(* The last state, and the values of several expressions, evaluated one     *)
(* after the other; vs are the values of those before the n-th.             *)
More(es, n, vs, st) == EvalSeq(es, n + 1, Append(vs, st.v), st)
EvalSeq(es, n, vs, st) == IF n > Len(es) THEN <<st, vs>> ELSE More(es, n, vs, Eval(es[n], st))

(* A shift by less than zero or by the width and more has no value.         *)
Combine(ty, op, l, r) == IF ShiftsOut(ty, op, r) THEN <<>> ELSE <<arithmetic_opcode(ty, op, l, r)>>
Operate(e, l, r) ==
    IF e.op \in Comparisons THEN <<compare_predicate(e.op, l[1], r[1])>>
    ELSE Combine(e.ty, e.op, l[1], r[1])
RightOf(e, l, r) == IF Going(r) THEN With(r, Operate(e, l, r.v)) ELSE r
LeftOf(e, l) == RightOf(e, l.v, Eval(e.rhs, l))

UnaryOf(e, v) ==
    CASE ~Going(v) -> v
      [] e.op \in {"!", "~"} -> With(v, <<Inverted(e.ty, v.v[1])>>)
      [] OTHER -> With(v, <<Wrap(e.ty, -v.v[1])>>)
Moved(p) == [Content(p) EXCEPT !.res = @ \ {Decode(p.v)}]

(* A call of an external function; its arguments are in the types it takes, *)
(* what the first one refers to is shown and changed.                       *)
Calling(f, st, vs) ==
    Happens([With(st, Moment(st.trace)) EXCEPT !.mem = Bump(@, PlainGlobal)], <<f>> \o vs)
CallingOn(f, st, a, vs) ==
    Calling(f, [st EXCEPT !.mem = Bump(@, a)], <<Get(st.mem, a)>> \o Tail(vs))
InvokeWith(f, st, vs) == IF IsRef(Params[f][1]) THEN CallingOn(f, st, Decode(vs[1]), vs) ELSE Calling(f, st, vs)
Passed(ty, v) == IF ty \in Integer THEN <<Wrap(ty, v[1])>> ELSE v
InvokeOn(f, ev) ==
    IF ~Going(ev[1]) THEN ev[1]
    ELSE InvokeWith(f, ev[1], [n \in DOMAIN ev[2] |-> Passed(Params[f][n], ev[2][n])])
Invoke(e, es, st) == InvokeOn(e.name, EvalSeq(es, 1, <<>>, st))

(* println(v): the digits, then the newline.                                *)
Printing(st, e) == IF Going(st) THEN [Happens(st, e) EXCEPT !.mem = Bump(@, PlainGlobal)] ELSE st
ShowValue(ty, v) ==
    Printing(Printing(v, <<CASE ty = "bool" -> "uinx_print_bool" [] ty = "byte" -> "uinx_print_u64"
                             [] OTHER -> "uinx_print_i64", v.v, <<1>> >>),
             <<"uinx_print_newline", <<1>> >>)

Literal(ev) == With(ev[1], FlattenSeq(ev[2]))
IsNotZero(v) == With(v, <<AsBool(v.v # <<0>>)>>)
Eval(e, st) ==
    CASE ~Going(st) -> st
      [] e.k = "Integer" -> With(st, <<Wrap(e.ty, e.text[1])>>)
      [] e.k = "Bool" -> With(st, <<e.text[1]>>)
      [] e.k \in {"Name", "Member", "Index"} -> Read(e, st)
      [] e.k = "StructLiteral" -> Literal(EvalSeq(e.fields, 1, <<>>, st))
      [] e.k = "Borrow" -> Place(e.target, st)
      [] e.k = "Unary" /\ e.op = "*" -> Content(Eval(e.operand, st))
      [] e.k = "Unary" /\ e.op = "move" -> Moved(Place(e.operand, st))
      [] e.k = "Unary" -> UnaryOf(e, Eval(e.operand, st))
      [] e.k = "Binary" -> LeftOf(e, Eval(e.lhs, st))
      [] e.k = "Cast" -> Convert(e.ty, Eval(e.value, st))
      [] e.k = "Builtin" /\ e.name = "println" -> ShowValue(e.args[1].ty, Eval(e.args[1], st))
      [] e.k = "Builtin" /\ e.name = "bool" -> IsNotZero(Eval(e.args[1], st))
      [] e.k = "Builtin" -> Eval(e.args[1], st)
      [] e.k = "Call" -> Invoke(e, e.args, st)
      [] e.k = "Method" -> Invoke(e, <<[k |-> "Borrow", ty |-> "refpair", target |-> e.base]>>
                                     \o e.args, st)
-----------------------------------------------------------------------------
(* A local of type ty with the value of st.                                 *)
BindAt(a, t, name, ty) ==
    [t EXCEPT !.env = (name :> a) @@ @, !.next = @ + 1, !.mem = Put(@, a, t.v),
              !.res = IF is_copy(ty) THEN @ ELSE @ \cup {a}]
Bind(st, name, ty) == IF Going(st) THEN BindAt(<<"s", st.next>>, Convert(ty, st), name, ty) ELSE st

(* The address, then the value, then one access of the place.               *)
NewValue(s, a, v) ==
    IF s.op = "" THEN v.v ELSE Combine(s.target.ty, s.op, Get(v.mem, a)[1], v.v[1])
AssignAt(s, a, v) ==
    CASE ~Going(v) -> v
      [] Shared(s.target) /\ s.op # "" -> Happens(v, <<"rmw", <<s.op, Order(v, "acq_rel")>>, a[1], v.v>>)
      [] Shared(s.target) -> Happens(v, <<"store", Order(v, "release"), a[1], v.v>>)
      [] OTHER -> [v EXCEPT !.mem = Put(@, a, NewValue(s, a, v))]
AssignIn(s, p) == IF ~Going(p) THEN p
                  ELSE AssignAt(s, Decode(p.v), Convert(s.target.ty, Eval(s.value, p)))
Assign(s, st) == AssignIn(s, Place(s.target, st))

(* The end of the scope that st entered and left as t: its locals that are  *)
(* still owned are dropped, the last first.                                 *)
DropOne(t, a) == [Happens(t, <<"drop", Get(t.mem, a)>>) EXCEPT !.res = @ \ {a}]
RECURSIVE Drops(_, _)
Drops(t, owned) ==
    IF owned = {} \/ t.out \in {"trap", "cut"} THEN t
    ELSE LET last == CHOOSE a \in owned : \A b \in owned : b[2] <= a[2]
         IN  Drops(DropOne(t, last), owned \ {last})
ScopeEnds(st, t) == [Drops(t, {a \in t.res : a[2] >= st.next}) EXCEPT !.env = st.env, !.next = st.next]

RECURSIVE Exec(_, _)
RECURSIVE ExecFrom(_, _, _)
RECURSIVE Repeat(_, _, _)
RECURSIVE Count(_, _, _, _)
ExecFrom(b, n, st) == IF n > Len(b) \/ ~Going(st) THEN st ELSE ExecFrom(b, n + 1, Exec(b[n], st))
ExecBlock(b, st) == ScopeEnds(st, ExecFrom(b, 1, st))

(* while and for: continue ends a turn, break the loop.                     *)
Resume(b) == IF b.out \in {"continue", "break"} THEN [b EXCEPT !.out = "running"] ELSE b
MoreTurns(b) == b.out \in {"running", "continue"}
NextTurn(cond, body, b) == IF MoreTurns(b) THEN Repeat(cond, body, Resume(b)) ELSE Resume(b)
Turn(cond, body, c) == IF ~Going(c) \/ c.v = <<0>> THEN c ELSE NextTurn(cond, body, ExecBlock(body, c))
Repeat(cond, body, st) == Turn(cond, body, Eval(cond, st))
NextCount(s, n, to, b) == IF MoreTurns(b) THEN Count(s, n + 1, to, Resume(b)) ELSE Resume(b)
Count(s, n, to, st) ==
    IF n > to THEN st
    ELSE NextCount(s, n, to, ScopeEnds(st, ExecBlock(s.body, Bind(With(st, <<n>>), s.name, s.from.ty))))
CountTo(s, from, t) ==
    IF ~Going(t) THEN t ELSE Count(s, from[1], IF s.inclusive THEN t.v[1] ELSE t.v[1] - 1, t)
CountFrom(s, f) == CountTo(s, f.v, Eval(s.to, f))

Choose(s, c) == IF ~Going(c) THEN c ELSE ExecBlock(IF c.v = <<1>> THEN s.yes ELSE s.no, c)
Result(v) == IF Going(v) THEN Leave(v, "return") ELSE v
Exec(s, st) ==
    CASE s.k = "Let" -> Bind(Eval(s.init, st), s.name, s.ty)
      [] s.k = "Assign" -> Assign(s, st)
      [] s.k = "Expr" -> Eval(s.expr, st)
      [] s.k = "Return" -> Result(IF s.value.k = "None" THEN With(st, <<>>) ELSE Eval(s.value, st))
      [] s.k = "Fence" -> Happens(st, <<IF s.compiler THEN "CompilerFence" ELSE "Fence", s.order>>)
      [] s.k = "Block" -> ExecBlock(s.body, st)
      [] s.k = "If" -> Choose(s, Eval(s.cond, st))
      [] s.k = "While" -> Repeat(s.cond, s.body, st)
      [] s.k = "Loop" -> Repeat([k |-> "Bool", ty |-> "bool", text |-> <<1, 1>>], s.body, st)
      [] s.k = "For" -> CountFrom(s, Eval(s.from, st))
      [] s.k \in {"Break", "Continue"} -> Leave(st, IF s.k = "Break" THEN "break" ELSE "continue")

(* The observable behaviour of function f, in the form of Run.              *)
Outcome(f, t) ==
    CASE t.out = "running" -> <<"return", <<>>, t.trace>>
      [] t.out = "return" -> <<"return", Convert(f.result, t).v, t.trace>>
      [] OTHER -> <<t.out, <<>>, t.trace>>
Meaning(f, mode, input) == Outcome(f, ExecBlock(f.body, Start(input, mode)))
=============================================================================
