---------------------------- MODULE MirLowering ----------------------------
(***************************************************************************)
(* MIRLowerer (src/mir.cpp, src/mir_expr.cpp, src/mir_stmt.cpp): from the  *)
(* checked syntax tree of one function to its MIR.                         *)
(*                                                                         *)
(* An expression is a record whose k is its ExprKind and whose ty is the   *)
(* type sema gave it; a statement is a record whose k is its StmtKind.     *)
(* Types are "byte", "int", "wide", "bool", "unit", "slice" (of int),      *)
(* "pair" (a structure of two int fields, the second one `shared`), "res"  *)
(* (a one-field structure that implements Drop), "ref" (to an int) and     *)
(* "refpair".  Every operator takes the lowering state s and returns the   *)
(* next one; the operand and type an expression yields are s.val, s.vty.   *)
(***************************************************************************)
EXTENDS Mir

(* FnState at the start of lower_function.                                  *)
FnState(result, mode) ==
    [blocks |-> << [label |-> 1, code |-> <<>>] >>, block |-> 1, temps |-> 0, slotn |-> 0,
     slots |-> <<>>, types |-> <<>>, scopes |-> << <<>> >>, loops |-> <<>>,
     mode |-> mode, result |-> result, errs |-> {}, val |-> None, vty |-> "unit"]

Error(s, code) == [s EXCEPT !.errs = @ \cup {code}, !.val = None]
Yield(s, v, ty) == [s EXCEPT !.val = v, !.vty = ty]

terminated(s) ==
    LET c == s.blocks[s.block].code IN c # <<>> /\ Last(c).op \in Terminators

(* emit drops what follows a terminator (warning W0500).                    *)
emit(s, i) == IF terminated(s) THEN s
              ELSE [s EXCEPT !.blocks[s.block].code = Append(@, i)]
Effect(s, op, ty, args, text, flag) == emit(s, Instruction(op, None, ty, args, text, flag))

(* An instruction with a fresh temporary as its result.                     *)
temp(s, op, ty, args, text, flag) ==
    LET r == <<"t", s.temps>>
    IN  Yield([emit(s, Instruction(op, r, ty, args, text, flag)) EXCEPT !.temps = @ + 1], r, ty)
Apply(s, op, ty, text, flag) == temp(s, op, ty, <<s.val>>, text, flag)

(* new_block, n times: the label of a block is its index.                   *)
new_block(s, n) ==
    [s EXCEPT !.blocks = @ \o [i \in 1..n |-> [label |-> Len(s.blocks) + i, code |-> <<>>]]]
Jump(s, l) == Effect(s, "Jump", "unit", << <<"b", l>> >>, "", FALSE)
JumpUnlessTerminated(s, l) == IF terminated(s) THEN s ELSE Jump(s, l)
CondJump(s, c, yes, no) ==
    Effect(s, "CondJump", "bool", <<c, <<"b", yes>>, <<"b", no>> >>, "", FALSE)
Enter(s, b) == [s EXCEPT !.block = b]

Scalar == Integer \cup {"bool"}

(* A plausible slip: the cast is left to the code generator.                *)
LeaveWidth(s, to) == s

(* coerce_value: a cast between scalar types, to an integer type.           *)
Cast(s, to) == Apply(s, "Cast", to, s.vty, FALSE)
coerce_value(s, to) ==
    IF s.vty = to \/ s.val = None \/ ~(s.vty \in Scalar /\ to \in Integer) THEN s ELSE Cast(s, to)
-----------------------------------------------------------------------------
(* The globals of the model, the layout of its structures, and the          *)
(* parameters of the functions it may call.                                 *)
Globals == ("plain" :> PlainGlobal) @@ ("flags" :> SharedGlobal)
Pointee(ty) == IF ty = "ref" THEN "int" ELSE "pair"
IsRef(ty) == ty \in {"ref", "refpair"}
Fields(ty) == CASE ty = "pair" -> <<"a", "b">> [] ty = "res" -> <<"id">> [] OTHER -> <<>>
FieldIndex(ty, f) == (CHOOSE n \in DOMAIN Fields(ty) : Fields(ty)[n] = f) - 1
Params == ("read" :> <<"int">>) @@ ("log" :> <<"wide">>) @@ ("touch" :> <<"ref">>)
          @@ ("swap" :> <<"refpair", "wide">>)
is_copy(ty) == ty # "res"

(* TraitSolver::satisfies answers for Copy, Send and Sync, and no to every  *)
(* other trait.                                                             *)
satisfies(ty, trait) == trait = "Copy" /\ is_copy(ty)

(* place_is_atomic: an integer in a shared global or in a shared field.     *)
place_is_atomic(e) ==
    /\ e.ty \in Integer
    /\ \/ e.k = "Name" /\ e.name = "flags"
       \/ e.k = "Member" /\ e.member = "b"

load_order(s) == IF s.mode = "Strict" THEN "seq_cst" ELSE "acquire"
store_order(s) == IF s.mode = "Strict" THEN "seq_cst" ELSE "release"
rmw_order(s) == IF s.mode = "Strict" THEN "seq_cst" ELSE "acq_rel"
-----------------------------------------------------------------------------
RECURSIVE lower_expr(_, _)
RECURSIVE lower_place_address(_, _)
RECURSIVE LowerFields(_, _, _, _)
RECURSIVE LowerArguments(_, _, _, _, _)

(* The address of a member's or an element's container: a reference is its  *)
(* own address.                                                             *)
LowerContainer(e, s) == IF IsRef(e.ty) THEN lower_expr(e, s) ELSE lower_place_address(e, s)

LowerMemberAddress(e, s) ==
    LET base == IF IsRef(e.base.ty) THEN Pointee(e.base.ty) ELSE e.base.ty
    IN  IF ~ \E n \in DOMAIN Fields(base) : Fields(base)[n] = e.member
        THEN Error(LowerContainer(e.base, s), "E0503")
        ELSE Apply(LowerContainer(e.base, s), "FieldAddr", e.ty, FieldIndex(base, e.member), FALSE)

(* The data pointer and the length are loaded before the index is computed. *)
LoadWord(c, ty, n) == Apply(temp(c, "FieldAddr", ty, <<c.val>>, n, FALSE), "Load", ty, "", FALSE)
IndexInto(e, data, len, i) == temp(i, "IndexAddr", e.ty, <<data, i.val, len>>, "", FALSE)
LowerIndex(e, data, l) == IndexInto(e, data, l.val, lower_expr(e.index, l))
LowerLength(e, slice, d) == LowerIndex(e, d.val, LoadWord(Yield(d, slice, "ptr"), "wide", 1))
LowerData(e, c) == LowerLength(e, c.val, LoadWord(c, "ptr", 0))
LowerIndexAddress(e, s) == IF e.base.ty # "slice" THEN Error(LowerContainer(e.base, s), "E0505")
                           ELSE LowerData(e, LowerContainer(e.base, s))

lower_place_address(e, s) ==
    CASE e.k = "Unary" /\ e.op = "*" -> lower_expr(e.operand, s)
      [] e.k = "Name" /\ e.name \in DOMAIN s.slots -> Yield(s, s.slots[e.name], e.ty)
      [] e.k = "Name" /\ e.name \in DOMAIN Globals -> Yield(s, Globals[e.name], e.ty)
      [] e.k = "Name" -> Error(s, "E0502")
      [] e.k = "Member" -> LowerMemberAddress(e, s)
      [] e.k = "Index" -> LowerIndexAddress(e, s)
      [] OTHER -> Error(s, "E0504")

(* A read of a name, a member or an element.                                *)
LowerRead(e, s) ==
    LET atomic == place_is_atomic(e)
    IN  Apply(lower_place_address(e, s), "Load", e.ty, IF atomic THEN load_order(s) ELSE "", atomic)

Negate(e, v, zero) == temp(zero, "Binary", e.ty, <<zero.val, v>>, "-", FALSE)
Unary(e, v) ==
    IF e.op = "-" THEN Negate(e, v.val, temp(v, "ConstInt", e.ty, <<>>, <<0, 0>>, FALSE))
    ELSE Apply(v, "Binary", e.ty, e.op, FALSE)
LowerOperand(e, v) ==
    CASE e.op = "move" -> Yield(v, v.val, e.ty)
      [] e.op = "*" -> Apply(v, "Load", e.ty, "", FALSE)
      [] OTHER -> Unary(e, IF v.vty = e.ty THEN v ELSE Cast(v, e.ty))
LowerUnary(e, s) == LowerOperand(e, lower_expr(e.operand, s))

Comparisons == {"==", "!=", "<", "<=", ">", ">="}

(* Both operands are evaluated, && and || too.  A comparison is made in the *)
(* type of the left operand, arithmetic in the type of the result.          *)
OperateOn(e, ty, left, right) ==
    [temp(right, IF e.op \in Comparisons THEN "Compare" ELSE "Binary", ty, <<left, right.val>>, e.op, FALSE)
        EXCEPT !.vty = e.ty]
CoerceRight(e, ty, r, left) == OperateOn(e, ty, left.val, coerce_value(Yield(left, r.val, r.vty), ty))
CoerceBoth(e, ty, l, r) == CoerceRight(e, ty, r, coerce_value(Yield(r, l.val, l.vty), ty))
LowerRight(e, l) == CoerceBoth(e, IF e.op \in Comparisons THEN l.vty ELSE e.ty, l, lower_expr(e.rhs, l))
LowerBinary(e, s) == LowerRight(e, lower_expr(e.lhs, s))

(* The arguments from the n-th on, coerced to the type of the parameter     *)
(* offset places further; vals are the operands of those before.            *)
Argument(e, p, a) == IF p \notin DOMAIN Params[e.name] THEN a ELSE coerce_value(a, Params[e.name][p])
MoreArguments(e, n, offset, vals, a) == LowerArguments(e, n + 1, offset, Append(vals, a.val), a)
LowerArguments(e, n, offset, vals, s) ==
    IF n > Len(e.args) THEN <<s, vals>>
    ELSE MoreArguments(e, n, offset, vals, Argument(e, n + offset, lower_expr(e.args[n], s)))

FinishCall(e, la) ==
    IF e.ty = "unit" THEN Yield(Effect(la[1], "Call", e.ty, la[2], e.name, FALSE), None, e.ty)
    ELSE temp(la[1], "Call", e.ty, la[2], e.name, FALSE)

LowerCall(e, s) == FinishCall(e, LowerArguments(e, 1, 0, <<>>, s))

(* A method call: a receiver that is taken by reference is its address.     *)
(* The offset to the parameters is the number of operands so far, which is  *)
(* one, less the number of arguments, modulo 2^64.                          *)
OnReceiver(e, r) == FinishCall(e, LowerArguments(e, 1, 1 - Len(e.args), <<r.val>>, r))
LowerMethod(e, s) ==
    OnReceiver(e, IF IsRef(Params[e.name][1]) /\ ~IsRef(e.base.ty)
                  THEN lower_place_address(e.base, s) ELSE lower_expr(e.base, s))

(* A structure literal: the fields in the order of their declaration.       *)
MoreFields(e, n, vals, f) == LowerFields(e, n + 1, Append(vals, f.val), f)
LowerFields(e, n, vals, s) ==
    IF n > Len(e.fields) THEN temp(s, "StructInit", e.ty, vals, "", FALSE)
    ELSE MoreFields(e, n, vals, coerce_value(lower_expr(e.fields[n], s), "int"))
LowerStruct(e, s) == LowerFields(e, 1, <<>>, s)

(* lower_builtin_call: bool(x) compares with zero, int(x) widens, and       *)
(* println(x) is a runtime call with the value widened, then the newline.   *)
Runtime(s, f, args) == Yield(Effect(s, "Call", "unit", args, f, FALSE), None, "unit")
PrintLine(fd, f, w) == Runtime(Runtime(w, f, <<w.val, fd>>), "uinx_print_newline", <<fd>>)
PrintValue(fd, x) ==
    PrintLine(fd, CASE x.vty = "bool" -> "uinx_print_bool" [] unsigned_integer(x.vty) -> "uinx_print_u64"
                    [] OTHER -> "uinx_print_i64",
              IF x.vty = "wide" THEN x ELSE Cast(x, "wide"))
PrintTo(e, fd) == PrintValue(fd.val, lower_expr(e.args[1], fd))
LowerPrint(e, s) == PrintTo(e, temp(s, "ConstInt", "int", <<>>, <<1, 1>>, FALSE))

NotZero(v, zero) == temp(zero, "Compare", "bool", <<v, zero.val>>, "!=", FALSE)
Converted(e, v) ==
    CASE e.name = "bool" /\ v.vty = "bool" -> v
      [] e.name = "bool" -> NotZero(v.val, temp(v, "ConstInt", v.vty, <<>>, <<0, 0>>, FALSE))
      [] e.name = "int" /\ v.vty = "wide" -> v
      [] e.name = "int" -> Cast(v, "wide")
      [] OTHER -> Error(v, "E0507")
LowerConversion(e, s) == Converted(e, lower_expr(e.args[1], s))

lower_builtin_call(e, s) == IF e.name = "println" THEN LowerPrint(e, s) ELSE LowerConversion(e, s)

lower_expr(e, s) ==
    CASE e.k = "Integer" -> temp(s, "ConstInt", e.ty, <<>>, e.text, FALSE)
      [] e.k = "Bool" -> temp(s, "ConstBool", e.ty, <<>>, e.text, FALSE)
      [] e.k \in {"Name", "Member", "Index"} -> LowerRead(e, s)
      [] e.k = "StructLiteral" -> LowerStruct(e, s)
      [] e.k = "Borrow" -> Apply(lower_place_address(e.target, s), "AddressOf", e.ty, "", FALSE)
      [] e.k = "Unary" -> LowerUnary(e, s)
      [] e.k = "Binary" -> LowerBinary(e, s)
      [] e.k = "Builtin" -> lower_builtin_call(e, s)
      [] e.k = "Call" -> LowerCall(e, s)
      [] e.k = "Method" -> LowerMethod(e, s)
      [] e.k = "Cast" -> Cast(lower_expr(e.value, s), e.ty)
-----------------------------------------------------------------------------
(* emit_scope_drops: the locals of the innermost scope, last first, that    *)
(* are found to implement Drop.                                             *)
emit_scope_drops(s) ==
    LET dropped == SelectSeq(Reverse(Last(s.scopes)),
                             LAMBDA n : ~is_copy(s.types[n]) /\ satisfies(s.types[n], "Drop"))
    IN  FoldLeft(LAMBDA t, n : Effect(t, "Drop", s.types[n], <<s.slots[n]>>, "", FALSE),
                 s, dropped)

(* A new local: its slot hides the slot of that name until the end of the   *)
(* function.                                                                *)
Declare(s, name, ty) ==
    LET sl == <<"s", s.slotn>>
        t == [s EXCEPT !.slotn = @ + 1, !.slots = (name :> sl) @@ @, !.types = (name :> ty) @@ @,
                       !.scopes[Len(s.scopes)] = Append(@, name)]
        a == emit(t, Instruction("Alloca", sl, ty, <<>>, "", FALSE))
    IN  Effect(a, "Store", ty, <<s.val, sl>>, "", FALSE)

LowerLet(st, s) == Declare(coerce_value(lower_expr(st.init, s), st.ty), st.name, st.ty)

(* Assignment: the address first, then the value.  A compound one on an     *)
(* atomic place is one atomicrmw, or an error for the operators LLVM has    *)
(* none for.                                                                *)
StoreTo(st, place, new) ==
    LET atomic == place_is_atomic(st.target)
    IN  Effect(new, "Store", st.target.ty, <<new.val, place>>, IF atomic THEN store_order(new) ELSE "", atomic)
Compound(st, place, v, old) ==
    StoreTo(st, place, temp(old, "Binary", st.target.ty, <<old.val, v>>, st.op, FALSE))
AssignValue(st, place, v) ==
    LET ty == st.target.ty
        atomic == place_is_atomic(st.target)
    IN  CASE atomic /\ st.op \in {"+", "-", "&", "|", "^"} ->
                 Effect(v, "AtomicRmw", ty, <<place, v.val>>, <<st.op, rmw_order(v)>>, TRUE)
          [] atomic /\ st.op # "" -> Error(v, "E0509")
          [] st.op = "" -> StoreTo(st, place, v)
          [] OTHER -> Compound(st, place, v.val, temp(v, "Load", ty, <<place>>, "", FALSE))
AssignTo(st, p) == AssignValue(st, p.val, coerce_value(lower_expr(st.value, p), st.target.ty))
LowerAssign(st, s) == AssignTo(st, lower_place_address(st.target, s))

(* return: the drops come before the value is computed.                     *)
ReturnValue(v) == Effect(v, "Return", v.result, <<v.val>>, "", FALSE)
LowerReturn(st, s) ==
    IF st.value.k = "None" THEN Effect(emit_scope_drops(s), "Return", "unit", <<>>, "", FALSE)
    ELSE ReturnValue(coerce_value(lower_expr(st.value, emit_scope_drops(s)), s.result))

RECURSIVE lower_stmt(_, _)
RECURSIVE LowerStmts(_, _, _)
LowerStmts(b, n, s) == IF n > Len(b) \/ terminated(s) THEN s
                       ELSE LowerStmts(b, n + 1, lower_stmt(b[n], s))
CloseScope(s) == [(IF terminated(s) THEN s ELSE emit_scope_drops(s)) EXCEPT !.scopes = Front(@)]
lower_block(b, s) == CloseScope(LowerStmts(b, 1, [s EXCEPT !.scopes = Append(@, <<>>)]))

Arm(b, s, n, end) == JumpUnlessTerminated(lower_block(b, Enter(s, n)), end)
Branch(st, c, n) ==
    Enter(Arm(st.no, Arm(st.yes, CondJump(new_block(c, 3), c.val, n + 1, n + 2), n + 1, n + 3), n + 2, n + 3), n + 3)
LowerIf(st, s) == Branch(st, lower_expr(st.cond, s), Len(s.blocks))

InLoop(body, s, next, end) ==
    JumpUnlessTerminated([lower_block(body, [s EXCEPT !.loops = Append(@, <<next, end>>)]) EXCEPT !.loops = s.loops],
                         next)

WhileBody(st, c, n) == InLoop(st.body, Enter(CondJump(c, c.val, n + 2, n + 3), n + 2), n + 1, n + 3)
LowerWhile(st, s) ==
    LET n == Len(s.blocks)
    IN  Enter(WhileBody(st, lower_expr(st.cond, Enter(Jump(new_block(s, 3), n + 1), n + 1)), n), n + 3)

(* for name in begin..end: the bounds once, the loop variable in the scope  *)
(* around the loop, a step block that continue jumps to.                    *)
ForNext(it, ty, old) ==
    LET one == temp(old, "ConstInt", ty, <<>>, <<1, 1>>, FALSE)
        next == temp(one, "Binary", ty, <<old.val, one.val>>, "+", FALSE)
    IN  Effect(next, "Store", ty, <<next.val, it>>, "", FALSE)
ForStep(s, it, ty) == ForNext(it, ty, temp(s, "Load", ty, <<it>>, "", FALSE))
ForBody(st, c, n) == InLoop(st.body, Enter(CondJump(c, c.val, n + 2, n + 4), n + 2), n + 3, n + 4)
ForCond(st, current, to) ==
    temp(current, "Compare", current.vty, <<current.val, to>>, IF st.inclusive THEN "<=" ELSE "<", FALSE)
ForLoop(st, s, ty, to) ==
    LET it == s.slots[st.name]
        n == Len(s.blocks)
        first == Enter(Jump(new_block(s, 4), n + 1), n + 1)
        c == ForCond(st, temp(first, "Load", ty, <<it>>, "", FALSE), to)
    IN  Enter(Jump(ForStep(Enter(ForBody(st, c, n), n + 3), it, ty), n + 1), n + 4)
ForFrom(st, from, to) == ForLoop(st, Declare(Yield(to, from.val, from.vty), st.name, from.vty), from.vty, to.val)
ForTo(st, from) == ForFrom(st, from, lower_expr(st.to, from))
LowerFor(st, s) == ForTo(st, lower_expr(st.from, s))

LowerLoop(st, s) ==
    LET n == Len(s.blocks)
    IN  Enter(InLoop(st.body, Enter(Jump(new_block(s, 2), n + 1), n + 1), n + 1, n + 2), n + 2)

(* break and continue: to the end and to the next step of the inner loop.   *)
LowerExit(s, which) ==
    IF s.loops = <<>> THEN s ELSE Jump(emit_scope_drops(s), Last(s.loops)[which])

lower_stmt(st, s) ==
    CASE st.k = "Let" -> LowerLet(st, s)
      [] st.k = "Assign" -> LowerAssign(st, s)
      [] st.k = "Expr" -> lower_expr(st.expr, s)
      [] st.k = "Return" -> LowerReturn(st, s)
      [] st.k = "Fence" -> Effect(s, IF st.compiler THEN "CompilerFence" ELSE "Fence", "unit",
                                  <<>>, st.order, FALSE)
      [] st.k = "Block" -> lower_block(st.body, s)
      [] st.k = "If" -> LowerIf(st, s)
      [] st.k = "While" -> LowerWhile(st, s)
      [] st.k = "For" -> LowerFor(st, s)
      [] st.k = "Loop" -> LowerLoop(st, s)
      [] st.k = "Break" -> LowerExit(s, 2)
      [] st.k = "Continue" -> LowerExit(s, 1)

(* lower_function, of a function with the parameters (x: int, xs: slice).   *)
(* The end of a function that returns a value must not be reached (E0501).  *)
CloseFunction(s) ==
    CASE terminated(s) -> s
      [] s.result = "unit" -> Effect(emit_scope_drops(s), "Return", "unit", <<>>, "", FALSE)
      [] OTHER -> Error(emit_scope_drops(s), "E0501")
lower_function(f, mode) ==
    LET s == FnState(f.result, mode)
        x == Declare(Yield(s, <<"a", 1>>, "int"), "x", "int")
        xs == [Declare(Yield(x, <<"a", 2>>, "slice"), "xs", "slice") EXCEPT !.scopes = s.scopes]
    IN  CloseFunction(lower_block(f.body, xs))
=============================================================================
