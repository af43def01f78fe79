-------------------------------- MODULE Mir --------------------------------
(***************************************************************************)
(* MIR (include/uinx/mir.hpp) and what the code generator makes of it: a   *)
(* function is a sequence of labelled blocks of instructions over slots    *)
(* and numbered temporaries, and Run gives the observable behaviour of the *)
(* LLVM code that emit_function prints for it.                             *)
(*                                                                         *)
(* Integer types keep their signedness and differ in width as the real     *)
(* ones do: "byte" (u8) < "int" (i32) < "wide" (i64).  A value is a        *)
(* sequence of integers: one for a number, a bool or an address, one per   *)
(* word of a structure, none when it is undefined.                         *)
(***************************************************************************)
EXTENDS Integers, Sequences, SequencesExt, FiniteSets, TLC
LOCAL INSTANCE Bitwise

CONSTANTS ByteBits, IntBits, WideBits,  \* the widths
          MaxEvents                     \* a run stops after so many events

Integer == {"byte", "int", "wide"}
unsigned_integer(ty) == ty = "byte"
integer_bits(ty) == CASE ty = "byte" -> ByteBits [] ty = "int" -> IntBits [] OTHER -> WideBits

(* The value an integer type gives a mathematical integer.                  *)
Wrap(ty, n) ==
    LET m == 2 ^ integer_bits(ty)
    IN  IF unsigned_integer(ty) THEN n % m ELSE ((n + m \div 2) % m) - m \div 2

(* A constructor of instructions.  Operands are pairs: <<"t", n>> a         *)
(* temporary, <<"s", n>> a slot, <<"a", n>> an argument, <<"g", n>> a       *)
(* global, <<"b", n>> a block label.                                        *)
Instruction(op, res, ty, args, text, flag) ==
    [op |-> op, res |-> res, ty |-> ty, args |-> args, text |-> text, flag |-> flag]
None == <<"none", 0>>
Terminators == {"Return", "Jump", "CondJump"}
-----------------------------------------------------------------------------
(* Integer arithmetic of the emitted opcodes.  Division truncates, the      *)
(* bitwise ones see two's complement, a right shift keeps the sign of a     *)
(* signed type (ashr) and has none to keep in an unsigned one (lshr).       *)
Quotient(a, b) == IF (a < 0) = (b < 0) THEN (IF a < 0 THEN -a ELSE a) \div (IF b < 0 THEN -b ELSE b)
                  ELSE -((IF a < 0 THEN -a ELSE a) \div (IF b < 0 THEN -b ELSE b))
Both(a, b) == IF a = 1 /\ b = 1 THEN 1 ELSE 0
Either(a, b) == IF a = 1 \/ b = 1 THEN 1 ELSE 0
Bits(ty, n) == n % 2 ^ integer_bits(ty)
arithmetic_opcode(ty, op, a, b) ==
    CASE op = "+" -> Wrap(ty, a + b)
      [] op = "-" -> Wrap(ty, a - b)
      [] op = "*" -> Wrap(ty, a * b)
      [] op = "/" -> Wrap(ty, Quotient(a, b))
      [] op = "%" -> Wrap(ty, a - b * Quotient(a, b))
      [] op = "&&" -> Both(a, b)
      [] op = "||" -> Either(a, b)
      [] op = "&" -> Wrap(ty, Bits(ty, a) & Bits(ty, b))
      [] op = "|" -> Wrap(ty, Bits(ty, a) | Bits(ty, b))
      [] op = "^" -> Wrap(ty, Bits(ty, a) ^^ Bits(ty, b))
      [] op = "<<" -> Wrap(ty, a * 2 ^ b)
      [] op = ">>" -> Wrap(ty, a \div 2 ^ b)

(* ! and ~ are an xor with true or with -1.                                 *)
Inverted(ty, a) == IF ty = "bool" THEN 1 - a ELSE Wrap(ty, -a - 1)

(* A shift by less than zero or by the width and more has an undefined      *)
(* result in LLVM.                                                          *)
ShiftsOut(ty, op, b) == op \in {"<<", ">>"} /\ b \notin 0..(integer_bits(ty) - 1)

AsBool(p) == IF p THEN 1 ELSE 0
compare_predicate(op, a, b) ==
    AsBool(CASE op = "==" -> a = b  [] op = "!=" -> a # b  [] op = "<" -> a < b
             [] op = "<=" -> a <= b [] op = ">" -> a > b   [] op = ">=" -> a >= b)

(* The cast opcode for a pair of scalar types: a truncation wraps, an       *)
(* extension keeps the value.                                               *)
CastTo(ty, v) == IF ty \in Integer THEN <<Wrap(ty, v[1])>> ELSE v
-----------------------------------------------------------------------------
(* The world outside the function.  An external call is an event that shows *)
(* its operands; it returns a number that depends on the moment, adds one   *)
(* to what a reference it is given points to and to the plain global.  An   *)
(* atomic access is an event as well, and an atomic load sees what another  *)
(* CPU stored meanwhile.  Memory m maps addresses to values; the array      *)
(* behind a slice and the globals live in it from the start.                *)
PlainGlobal == <<"g", 1>>
SharedGlobal == <<"g", 2>>
Element(i) == <<"e", i>>
ExternalMemory == [a \in {PlainGlobal, Element(0), Element(1)} |-> <<a[2]>>]
Moment(trace) == <<Len(trace) % 2>>

(* An address is an operand; as a value it is one number.  The words of the *)
(* structure in slot n are <<"f", n>> and <<"h", n>>.                       *)
Kinds == <<"s", "g", "e", "f", "h">>
Code(a) == <<16 * (CHOOSE i \in DOMAIN Kinds : Kinds[i] = a[1]) + a[2]>>
Decode(v) == <<Kinds[v[1] \div 16], v[1] % 16>>
Word(a) == IF a[1] = "f" THEN 1 ELSE 2
Get(m, a) == CASE a[1] \in {"f", "h"} /\ <<"s", a[2]>> \in DOMAIN m ->
                      SubSeq(m[<<"s", a[2]>>], Word(a), Word(a))
               [] a \in DOMAIN m -> m[a]
               [] OTHER -> <<>>
Put(m, a, v) == IF a[1] \in {"f", "h"} THEN [m EXCEPT ![<<"s", a[2]>>][Word(a)] = v[1]]
                ELSE (a :> v) @@ m
Bump(m, a) == Put(m, a, [Get(m, a) EXCEPT ![1] = Wrap("int", @ + 1)])

(* A machine: where it is, its temporaries, memory, events and outcome.     *)
(* The arguments are a number and a slice of two elements.                  *)
Machine(input) ==
    [block |-> 1, at |-> 1, mem |-> ExternalMemory,
     temps |-> (<<"a", 1>> :> <<input>>) @@ (<<"a", 2>> :> <<Code(Element(0))[1], 2>>),
     trace |-> <<>>, out |-> "running", val |-> <<>>]
Stop(x, out, v) == [x EXCEPT !.out = out, !.val = v]
Define(x, i, v) == [x EXCEPT !.at = @ + 1, !.temps = IF i.res = None THEN @ ELSE (i.res :> v) @@ @]
Access(x, i, m) == [x EXCEPT !.at = @ + 1, !.mem = m]
Event(x, e) == [x EXCEPT !.trace = Append(@, e)]

(* value_of: slots and globals are addresses, anything else was defined by  *)
(* an instruction, or is undefined.                                         *)
value_of(x, o) == IF o[1] \in {"s", "g"} THEN Code(o)
                  ELSE IF o \in DOMAIN x.temps THEN x.temps[o] ELSE <<>>
Jumped(x, fn, l) == [x EXCEPT !.block = CHOOSE b \in DOMAIN fn : fn[b].label = l[2], !.at = 1]

(* emit_function, Op::Load and Op::Store: an atomic one is an event.        *)
Load(x, i, a) == IF i.flag THEN Event(Define(x, i, Moment(x.trace)), <<"load", i.text, a[1]>>)
                 ELSE Define(x, i, Get(x.mem, a))
Store(x, i, v, a) == IF i.flag THEN Event(Access(x, i, x.mem), <<"store", i.text, a[1], v>>)
                     ELSE Access(x, i, Put(x.mem, a, v))

(* Op::IndexAddr: the index is compared as an unsigned 64-bit number.       *)
IndexAddr(x, i, data, index, len) ==
    IF index[1] % 2 ^ WideBits < len[1] THEN Define(x, i, <<data[1] + index[1]>>)
    ELSE Stop(x, "trap", <<>>)

(* Op::Call of a function outside; References take one as first argument.   *)
References == {"touch", "swap"}
Call(x, i, vs) ==
    LET y == Define(x, i, Moment(x.trace))
        a == Decode(vs[1])
    IN  IF i.text \in References
        THEN Event([y EXCEPT !.mem = Bump(Bump(@, a), PlainGlobal)],
                   <<i.text, Get(x.mem, a)>> \o Tail(vs))
        ELSE Event([y EXCEPT !.mem = Bump(@, PlainGlobal)], <<i.text>> \o vs)

(* emit_function: the meaning of one instruction, all operands defined.     *)
Execute(x, fn, i, vs) ==
    CASE i.op = "Alloca" -> Access(x, i, Put(x.mem, i.res, <<>>))
      [] i.op = "ConstInt" -> Define(x, i, <<Wrap(i.ty, i.text[1])>>)
      [] i.op = "ConstBool" -> Define(x, i, <<i.text[1]>>)
      [] i.op = "StructInit" -> Define(x, i, FlattenSeq(vs))
      [] i.op = "Load" -> Load(x, i, Decode(vs[1]))
      [] i.op = "Store" -> Store(x, i, vs[1], Decode(vs[2]))
      [] i.op = "AtomicRmw" -> Event(Access(x, i, x.mem), <<"rmw", i.text, Decode(vs[1])[1], vs[2]>>)
      [] i.op \in {"Fence", "CompilerFence"} -> Event(Access(x, i, x.mem), <<i.op, i.text>>)
      [] i.op = "FieldAddr" -> Define(x, i, Code(<<Kinds[4 + i.text], Decode(vs[1])[2]>>))
      [] i.op = "IndexAddr" -> IndexAddr(x, i, vs[1], vs[2], vs[3])
      [] i.op = "AddressOf" -> Define(x, i, vs[1])
      [] i.op = "Binary" /\ i.text \in {"!", "~"} -> Define(x, i, <<Inverted(i.ty, vs[1][1])>>)
      [] i.op = "Binary" /\ i.text \in {"/", "%"} /\ vs[2][1] = 0 -> Stop(x, "trap", <<>>)
      [] i.op = "Binary" /\ ShiftsOut(i.ty, i.text, vs[2][1]) -> Define(x, i, <<>>)
      [] i.op = "Binary" -> Define(x, i, <<arithmetic_opcode(i.ty, i.text, vs[1][1], vs[2][1])>>)
      [] i.op = "Compare" -> Define(x, i, <<compare_predicate(i.text, vs[1][1], vs[2][1])>>)
      [] i.op = "Call" -> Call(x, i, vs)
      [] i.op = "Cast" -> Define(x, i, CastTo(i.ty, vs[1]))
      [] i.op = "Drop" -> Event(Access(x, i, x.mem), <<"drop", Get(x.mem, Decode(vs[1]))>>)
      [] i.op = "Jump" -> Jumped(x, fn, i.args[1])
      [] i.op = "CondJump" -> Jumped(x, fn, IF vs[1] = <<1>> THEN i.args[2] ELSE i.args[3])
      [] i.op = "Return" -> Stop(x, "return", IF vs = <<>> THEN <<>> ELSE vs[1])

(* One step of fn.  A block that runs out of instructions and an operand    *)
(* that no instruction has defined have no meaning in LLVM.                 *)
Step(x, fn) ==
    IF x.at > Len(fn[x.block].code) THEN Stop(x, "unterminated", <<>>)
    ELSE LET i == fn[x.block].code[x.at]
             vs == [n \in DOMAIN i.args |->
                       IF i.args[n][1] = "b" THEN <<0>> ELSE value_of(x, i.args[n])]
         IN  IF \E n \in DOMAIN vs : vs[n] = <<>> THEN Stop(x, "undefined", <<>>)
             ELSE Execute(x, fn, i, vs)

RECURSIVE Finish(_, _, _)
Finish(x, fn, fuel) ==
    IF x.out # "running" THEN x
    ELSE IF fuel = 0 \/ Len(x.trace) >= MaxEvents THEN Stop(x, "cut", <<>>)
    ELSE Finish(Step(x, fn), fn, fuel - 1)

(* The observable behaviour: outcome, returned value, events.  Fuel is an   *)
(* upper bound on the steps of the terminating functions of the instances.  *)
Fuel == 400
Behaviour(x) == <<x.out, x.val, x.trace>>
Run(fn, input) == Behaviour(Finish(Machine(input), fn, Fuel))
=============================================================================
