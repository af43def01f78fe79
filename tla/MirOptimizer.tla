--------------------------- MODULE MirOptimizer ---------------------------
(***************************************************************************)
(* MIROptimizer (src/mir_optimizer.cpp): the passes over the blocks of one *)
(* function, each an operator from a function to a function.               *)
(***************************************************************************)
EXTENDS Mir

(* The loops of the passes over the blocks of a function.                   *)
EachBlock(fn, f(_)) == [b \in DOMAIN fn |-> [fn[b] EXCEPT !.code = f(@)]]
-----------------------------------------------------------------------------
(* remove_unreachable: what the last instruction of a block may go to.  A   *)
(* block that does not end in a jump or a return goes on to the next one.   *)
Successors(fn, b) ==
    LET code == fn[b].code
        Targets(os) == {t \in DOMAIN fn : <<"b", fn[t].label>> \in os}
    IN  CASE code # <<>> /\ Last(code).op = "Jump" -> Targets({Last(code).args[1]})
          [] code # <<>> /\ Last(code).op = "CondJump" ->
                 Targets({Last(code).args[2], Last(code).args[3]})
          [] code # <<>> /\ Last(code).op = "Return" -> {}
          [] OTHER -> {b + 1} \cap DOMAIN fn

(* The worklist, emptied one round at a time.                               *)
RECURSIVE Reachable(_, _, _)
Reachable(fn, work, seen) ==
    IF work \subseteq seen THEN seen
    ELSE Reachable(fn, UNION {Successors(fn, b) : b \in work \ seen}, seen \cup work)

remove_unreachable(fn) ==
    LET keep == Reachable(fn, {1}, {})
    IN  SelectSeq(fn, LAMBDA b : \E k \in keep : fn[k].label = b.label)
-----------------------------------------------------------------------------
(* forward_local_loads, within a block: slots maps a slot to the operand    *)
(* last stored in it, aliases a removed load to the operand it read.  An    *)
(* alias is resolved when it is made, so its chain has one link.            *)
resolve(aliases, o) == IF o \in DOMAIN aliases THEN aliases[o] ELSE o
is_local_slot(o) == o[1] = "s"
Without(f, d) == [a \in DOMAIN f \ d |-> f[a]]

(* A plausible slip: a call leaves what is known of the slots.              *)
SlotsKeptOverCalls(slots, i) ==
    CASE i.op = "Store" /\ ~i.flag /\ is_local_slot(i.args[2]) -> (i.args[2] :> i.args[1]) @@ slots
      [] i.op \in {"Store", "AtomicRmw", "Fence", "CompilerFence"} -> <<>>
      [] i.op = "AddressOf" -> Without(slots, {i.args[1]})
      [] OTHER -> slots

(* What instruction i, its operands resolved, leaves of the known slots.    *)
SlotsAfter(slots, i) ==
    CASE i.op = "Store" /\ ~i.flag /\ is_local_slot(i.args[2]) -> (i.args[2] :> i.args[1]) @@ slots
      [] i.op \in {"Store", "Call", "AtomicRmw", "Fence", "CompilerFence"} -> <<>>
      [] i.op = "Load" /\ i.flag -> <<>>
      [] i.op = "AddressOf" -> Without(slots, {i.args[1]})
      [] OTHER -> slots

ForwardStep(f, raw) ==
    LET i == [raw EXCEPT !.args = [n \in DOMAIN @ |-> resolve(f.aliases, @[n])]]
    IN  IF i.op = "Load" /\ ~i.flag /\ i.args[1] \in DOMAIN f.slots
        THEN [f EXCEPT !.aliases = (i.res :> f.slots[i.args[1]]) @@ @]
        ELSE [f EXCEPT !.code = Append(@, i), !.slots = SlotsAfter(@, i)]

ForwardBlock(code) ==
    FoldLeft(ForwardStep, [code |-> <<>>, slots |-> <<>>, aliases |-> <<>>], code).code
forward_local_loads(fn) == EachBlock(fn, ForwardBlock)
-----------------------------------------------------------------------------
(* constant_fold computes with 64-bit integers, here "wide" ones, whatever  *)
(* the type of the instruction; only the operation knows if it is unsigned. *)
Unsigned(ty, n) == IF unsigned_integer(ty) THEN n % 2 ^ WideBits ELSE n

Folds(i, a, b) ==
    \/ i.text \in {"+", "-", "*", "&", "&&", "|", "||", "^"}
    \/ i.text \in {"/", "%"} /\ b # 0
    \/ i.text \in {"<<", ">>"} /\ b >= 0 /\ b < WideBits
Folded(i, a, b) ==
    CASE i.text \in {"/", "%"} ->
             arithmetic_opcode("wide", i.text, Unsigned(i.ty, a), Unsigned(i.ty, b))
      [] i.text = ">>" -> arithmetic_opcode("wide", i.text, Unsigned(i.ty, a), b)
      [] OTHER -> arithmetic_opcode("wide", i.text, a, b)
FoldedCompare(i, a, b) ==
    IF i.text \in {"==", "!="} THEN compare_predicate(i.text, a, b)
    ELSE compare_predicate(i.text, Unsigned(i.ty, a), Unsigned(i.ty, b))

Constant(i, op, ty, r) == [i EXCEPT !.op = op, !.ty = ty, !.args = <<>>, !.text = <<r, r>>]

(* f: the code so far and the value of the temporaries known to be constant.*)
FoldStep(f, i) ==
    LET known == \A n \in DOMAIN i.args : i.args[n] \in DOMAIN f.constants
        a == f.constants[i.args[1]]
        b == f.constants[i.args[2]]
        With(c) == [code |-> Append(f.code, c), constants |-> (i.res :> c.text[2]) @@ f.constants]
        not == IF i.ty = "bool" THEN 1 - a ELSE -a - 1  \* ~ is not folded
    IN  CASE i.op \in {"ConstInt", "ConstBool"} -> With(i)
          [] i.op = "Binary" /\ known /\ i.text = "!" ->
                 With(Constant(i, IF i.ty = "bool" THEN "ConstBool" ELSE "ConstInt", i.ty, not))
          [] i.op = "Binary" /\ known /\ i.text # "!" /\ Folds(i, a, b) ->
                 With(Constant(i, "ConstInt", i.ty, Folded(i, a, b)))
          [] i.op = "Compare" /\ known -> With(Constant(i, "ConstBool", "bool", FoldedCompare(i, a, b)))
          [] OTHER -> [f EXCEPT !.code = Append(@, i)]

FoldBlock(code) == FoldLeft(FoldStep, [code |-> <<>>, constants |-> <<>>], code).code
constant_fold(fn) == EachBlock(fn, FoldBlock)
-----------------------------------------------------------------------------
(* eliminate_dead_values: the instructions without effect whose result no   *)
(* instruction of the function uses, until there is none.                   *)
Uses(fn) == UNION {UNION {ToSet(fn[b].code[n].args) : n \in DOMAIN fn[b].code} : b \in DOMAIN fn}
Pure(i) == \/ i.op \in {"Alloca", "ConstInt", "ConstBool", "StructInit", "FieldAddr", "Binary",
                        "Compare", "Cast", "AddressOf"}
           \/ i.op = "Load" /\ ~i.flag

RECURSIVE eliminate_dead_values(_)
eliminate_dead_values(fn) ==
    LET uses == Uses(fn)
        Live(code) == SelectSeq(code, LAMBDA i : i.res = None \/ i.res \in uses \/ ~Pure(i))
        next == EachBlock(fn, Live)
    IN  IF \A b \in DOMAIN fn : Len(next[b].code) = Len(fn[b].code) THEN fn
        ELSE eliminate_dead_values(next)
-----------------------------------------------------------------------------
(* run: the passes of an optimization level, in their order.                *)
Passes(level) ==
    (IF level <= 0 THEN <<>> ELSE <<"unreachable", "forward", "fold", "dead">>)
    \o (IF level <= 1 THEN <<>> ELSE <<"forward", "dead">>)
=============================================================================
