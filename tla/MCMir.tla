-------------------------------- MODULE MCMir --------------------------------
(***************************************************************************)
(* The way of one function through the compiler: it is lowered, then the   *)
(* passes of the optimization level run over it in order.  The functions   *)
(* are the ones below, with a literal left open, of the parameters         *)
(* (x: int, xs: slice).  After every step the MIR must still behave as the *)
(* source says, for every input.                                           *)
(***************************************************************************)
EXTENDS SourceMeaning, MirOptimizer

CONSTANTS Programs,   \* names of the functions below
          Literals,   \* values of the open literal
          Inputs,     \* values of the parameter x
          Levels,     \* optimization levels
          Modes       \* SMP modes

InputRange == -1..3  \* the inputs of the checked instances

VARIABLES prog, lit, level, mode, code, errs, done
vars == <<prog, lit, level, mode, code, errs, done>>
-----------------------------------------------------------------------------
(* Constructors of syntax trees.                                            *)
Lit(n) == [k |-> "Integer", ty |-> "int", text |-> <<n, n>>]
As(ty, n) == [Lit(n) EXCEPT !.ty = ty]
True == [k |-> "Bool", ty |-> "bool", text |-> <<1, 1>>]
Var(n, t) == [k |-> "Name", name |-> n, ty |-> t]
V(n) == Var(n, "int")
X == V("x")
Xs(i) == [k |-> "Index", ty |-> "int", base |-> Var("xs", "slice"), index |-> i]
Un(o, e) == [k |-> "Unary", op |-> o, operand |-> e, ty |-> e.ty]
Deref(e) == [Un("*", e) EXCEPT !.ty = "int"]
Bin(o, l, r) == [k |-> "Binary", op |-> o, lhs |-> l, rhs |-> r,
                 ty |-> IF o \in Comparisons THEN "bool" ELSE l.ty]
CastE(e, t) == [k |-> "Cast", value |-> e, ty |-> t]
Ref(e) == [k |-> "Borrow", target |-> e, ty |-> "ref"]
Pair(a, b) == [k |-> "StructLiteral", ty |-> "pair", fields |-> <<a, b>>]
Res(e) == [k |-> "StructLiteral", ty |-> "res", fields |-> <<e>>]
Field(e, f) == [k |-> "Member", base |-> e, member |-> f, ty |-> "int"]
CallE(f, as) == [k |-> "Call", name |-> f, args |-> as, ty |-> "int"]
MethodE(f, b, as) == [k |-> "Method", name |-> f, base |-> b, args |-> as, ty |-> "int"]
Builtin(f, e, t) == [k |-> "Builtin", name |-> f, args |-> <<e>>, ty |-> t]
LetS(n, t, e) == [k |-> "Let", name |-> n, ty |-> t, init |-> e]
Let(n, e) == LetS(n, e.ty, e)
Set(p, o, e) == [k |-> "Assign", target |-> p, op |-> o, value |-> e]
Do(e) == [k |-> "Expr", expr |-> e]
Ret(e) == [k |-> "Return", value |-> e]
RetUnit == Ret([k |-> "None"])
If(c, y, n) == [k |-> "If", cond |-> c, yes |-> y, no |-> n]
While(c, b) == [k |-> "While", cond |-> c, body |-> b]
For(n, f, t, incl, b) ==
    [k |-> "For", name |-> n, from |-> f, to |-> t, inclusive |-> incl, body |-> b]
LoopS(b) == [k |-> "Loop", body |-> b]
Block(b) == [k |-> "Block", body |-> b]
FenceS(o, c) == [k |-> "Fence", order |-> o, compiler |-> c]
Break == [k |-> "Break"]
Continue == [k |-> "Continue"]
Function(r, b) == [result |-> r, body |-> b]

Flags == V("flags")
Plain == V("plain")
P == Var("p", "pair")
-----------------------------------------------------------------------------
(* The functions.                                                           *)
Source(name, c) ==
    CASE name = "Arithmetic" -> Function("wide", <<
             Let("v", Bin("+", Bin("*", X, Lit(2)), Lit(c))),
             LetS("b", "byte", CastE(V("v"), "byte")),
             LetS("w", "wide", Un("-", Bin("*", Lit(3), Bin("/", Lit(5), Lit(2))))),
             If(Bin("!=", V("v"), Lit(0)),
                <<Let("q", Bin("/", Var("w", "wide"), CastE(V("v"), "wide"))),
                  Set(Var("w", "wide"), "%", CastE(V("v"), "wide")),
                  Set(Var("w", "wide"), "-", Var("q", "wide"))>>, <<>>),
             Ret(Bin("-", CastE(Var("b", "byte"), "wide"), Bin("*", Var("w", "wide"), As("wide", c))))>>)
      [] name = "Conditions" -> Function("int", <<
             Let("b", Bin("<", X, Lit(c))),
             If(Un("!", Bin("&&", Var("b", "bool"), Bin("<=", Lit(1), Lit(c)))),
                <<If(Bin("||", Bin("==", X, Lit(3)), Bin(">", Lit(2), Lit(c))),
                     <<Do(Builtin("println", Var("b", "bool"), "unit")), Ret(X)>>,
                     <<Do(Builtin("println", X, "unit"))>>)>>,
                <<Ret(Un("-", X))>>),
             Ret(Lit(c))>>)
      [] name = "While" -> Function("int", <<
             Let("n", Lit(0)),
             While(Bin("<", V("n"), Lit(3)), <<
                 Set(V("n"), "+", Lit(1)),
                 If(Bin("==", V("n"), X), <<Continue>>, <<>>),
                 If(Bin("==", V("n"), Lit(c)), <<Let("m", CallE("log", <<Lit(c)>>)), Break>>, <<>>),
                 Do(CallE("read", <<V("n")>>))>>),
             Ret(V("n"))>>)
      [] name = "For" -> Function("int", <<
             Let("t", Lit(0)),
             For("i", Lit(1), Lit(c), TRUE, <<
                 For("j", Lit(0), Lit(2), FALSE, <<
                     If(Bin("==", V("j"), X), <<Break>>, <<>>),
                     If(Bin("==", V("i"), Lit(2)), <<Continue>>, <<>>),
                     Set(V("t"), "+", Bin("+", V("i"), V("j")))>>),
                 Do(CallE("read", <<V("t")>>))>>),
             Ret(V("t"))>>)
      [] name = "Loop" -> Function("unit", <<
             LoopS(<<
                 Set(Flags, "+", Lit(c)),
                 Let("f", Flags),
                 If(Bin("==", V("f"), Lit(1)), <<RetUnit>>, <<FenceS("acquire", FALSE)>>),
                 Do(CallE("read", <<V("f")>>)),
                 If(Bin("<", X, V("f")), <<Break, Do(CallE("read", <<X>>))>>, <<>>)>>),
             Set(Flags, "", X),
             RetUnit,
             Do(CallE("read", <<X>>))>>)
      [] name = "Alias" -> Function("int", <<
             Let("v", Lit(c)), Let("w", X), Let("r", Ref(V("v"))),
             Set(V("v"), "", Lit(1)),
             Do(CallE("touch", <<Var("r", "ref")>>)),
             Set(V("w"), "+", V("v")),
             Set(V("v"), "", Lit(2)),
             Set(Deref(Var("r", "ref")), "", Bin("+", Deref(Var("r", "ref")), Lit(1))),
             Ret(Bin("+", V("v"), V("w")))>>)
      [] name = "Struct" -> Function("int", <<
             Let("p", Pair(X, Lit(c))), Let("q", P),
             Set(Field(P, "a"), "+", Lit(1)),
             Set(Field(P, "b"), "-", Lit(2)),
             Do(MethodE("swap", P, <<Lit(1)>>)),
             Let("y", Field(P, "a")),
             Let("z", Field(P, "b")),
             Ret(Bin("+", Bin("+", V("y"), V("z")), Field(Var("q", "pair"), "a")))>>)
      [] name = "Slice" -> Function("int", <<
             Set(Xs(Lit(0)), "", Lit(c)),
             Do(CallE("read", <<Xs(X)>>)),
             Do(Xs(Bin("-", X, Lit(1)))),
             Let("s", Xs(Lit(1))),
             Set(Xs(Lit(0)), "+", V("s")),
             Ret(Bin("+", Xs(Lit(0)), V("s")))>>)
      [] name = "Globals" -> Function("wide", <<
             Set(Plain, "", Lit(c)),
             Let("g", Plain),
             Do(CallE("read", <<Plain>>)),
             Set(Plain, "+", V("g")),
             FenceS("release", TRUE),
             Set(Flags, "", Plain),
             Let("h", Flags), Let("k", Flags),
             Ret(Builtin("int", Bin("+", Bin("*", V("h"), Lit(2)), V("k")), "wide"))>>)
      [] name = "Scopes" -> Function("unit", <<
             Let("a", X),
             Block(<<Let("b", Bin("+", V("a"), Lit(c))),
                     If(Bin(">", V("b"), Lit(1)),
                        <<Let("d", Un("move", V("b"))), Set(V("a"), "", V("d")), Do(CallE("log", <<Lit(c)>>))>>,
                        <<Let("e", Bin("*", V("a"), V("a"))), Do(CallE("read", <<V("e")>>)), RetUnit>>)>>),
             Do(CallE("read", <<V("a")>>)),
             If(True, <<RetUnit>>, <<Let("f", Lit(c)), RetUnit>>)>>)
      [] name = "Bits" -> Function("wide", <<
             Let("v", Bin("^", Un("~", X), Lit(c))),
             LetS("b", "byte", CastE(Bin("&", V("v"), Lit(3)), "byte")),
             Set(Var("b", "byte"), "|", As("byte", c)),
             LetS("w", "wide", Bin("<<", CastE(Var("b", "byte"), "wide"), As("wide", c))),
             Set(Var("w", "wide"), ">>", As("wide", 1)),
             If(Bin(">=", X, Lit(0)), <<Set(V("v"), "<<", X)>>, <<Set(V("v"), ">>", Lit(c))>>),
             Do(Bin(">>", V("v"), X)),
             Do(CallE("read", <<V("v")>>)),
             Set(Var("b", "byte"), ">>", As("byte", 1)),
             Ret(Bin("|", Bin("^", Var("w", "wide"), CastE(Var("b", "byte"), "wide")),
                          Bin("&", CastE(V("v"), "wide"), As("wide", 9))))>>)
      [] name = "Masks" -> Function("int", <<
             Set(Flags, "&", Lit(c)), Set(Flags, "|", X), Set(Flags, "^", Lit(1)),
             Let("n", Un("!", Bin("|", Lit(c), Lit(4)))),
             Set(V("n"), "&", X), Set(V("n"), "^", Lit(c)),
             Ret(V("n"))>>)
      [] name = "Shifts" -> Function("int", <<
             Let("k", Bin("<<", Lit(1), Lit(c))),
             Let("m", Bin(">>", Un("-", Lit(3)), Lit(c))),
             LetS("u", "byte", Bin(">>", As("byte", 3), As("byte", 1))),
             Do(Bin("<<", Lit(1), Bin("-", Lit(c), Lit(1)))),
             Do(Bin("<<", As("wide", 1), Bin("+", As("wide", 4), As("wide", c)))),
             Do(CallE("log", <<V("m")>>)),
             Ret(Bin("|", V("k"), CastE(Var("u", "byte"), "int")))>>)
      [] name = "Missing" -> Function("int", <<If(Bin("<", X, Lit(c)), <<Ret(X)>>, <<>>)>>)
      [] name = "Twice" -> Function("int", <<Set(Flags, "*", Lit(c)), Ret(X)>>)
      [] name = "RangeBound" -> Function("int", <<
             Let("t", Lit(0)), Let("n", Lit(c)),
             For("i", Lit(0), V("n"), FALSE, <<Set(V("t"), "+", V("i"))>>),
             Ret(V("t"))>>)
      [] name = "Owner" -> Function("int", <<
             LetS("o", "res", Res(Lit(c))),
             Ret(Field(Var("o", "res"), "id"))>>)
-----------------------------------------------------------------------------
TheSource == Source(prog, lit)

Init == /\ prog \in Programs /\ lit \in Literals /\ level \in Levels /\ mode \in Modes
        /\ code = <<>> /\ errs = {} /\ done = 0

(* MIRLowerer::lower: a function with errors is not compiled any further.   *)
Lower == /\ done = 0 /\ errs = {}
         /\ LET s == lower_function(TheSource, mode)
            IN  /\ errs' = s.errs
                /\ code' = IF s.errs = {} THEN s.blocks ELSE <<>>
                /\ done' = IF s.errs = {} THEN 1 ELSE 0
         /\ UNCHANGED <<prog, lit, level, mode>>

(* MIROptimizer::run, one pass.                                             *)
Pass(name, new) == /\ done \in 1..Len(Passes(level)) /\ Passes(level)[done] = name
                   /\ code' = new
                   /\ done' = done + 1
                   /\ UNCHANGED <<prog, lit, level, mode, errs>>
RemoveUnreachable == Pass("unreachable", remove_unreachable(code))
ForwardLocalLoads == Pass("forward", forward_local_loads(code))
ConstantFold == Pass("fold", constant_fold(code))
EliminateDeadValues == Pass("dead", eliminate_dead_values(code))

Next == Lower \/ RemoveUnreachable \/ ForwardLocalLoads \/ ConstantFold \/ EliminateDeadValues
Spec == Init /\ [][Next]_vars
-----------------------------------------------------------------------------
(* The MIR, as lowered and after every optimization pass, makes the same    *)
(* external calls, atomic accesses and fences in the same order and returns *)
(* the same value as the source, and never reads an undefined value.        *)
SameBehaviour == \A input \in Inputs :
    done > 0 => Run(code, input) = Meaning(TheSource, mode, input)

(* What emit_function and LLVM ask of a function: every block ends in its   *)
(* only terminator, labels are unique, and every target has a block.        *)
WellFormed ==
    /\ \A b \in DOMAIN code : \A n \in DOMAIN code[b].code :
           LET i == code[b].code[n]
           IN  /\ i.op \in Terminators <=> n = Len(code[b].code)
               /\ \A o \in ToSet(i.args) : o[1] = "b" =>
                      \E t \in DOMAIN code : code[t].label = o[2]
    /\ \A b \in DOMAIN code : code[b].code # <<>>
    /\ \A a, b \in DOMAIN code : code[a].label = code[b].label => a = b

(* The type in which an operand is defined; "any" for a constant, which is  *)
(* printed where it is used.                                                *)
Instructions == {<<b, n>> \in (DOMAIN code) \X (1..100) : n \in DOMAIN code[b].code}
At(p) == code[p[1]].code[p[2]]
TypeOf(o) ==
    CASE o = <<"a", 1>> -> "int"
      [] o = <<"a", 2>> -> "slice"
      [] o[1] # "t" \/ \E p \in Instructions : At(p).res = o /\ At(p).op \in {"ConstInt", "ConstBool"} -> "any"
      [] OTHER -> LET i == At(CHOOSE p \in Instructions : At(p).res = o)
                  IN  IF i.op = "Compare" THEN "bool" ELSE i.ty
Expected(i) ==
    CASE i.op \in {"Binary", "Compare"} -> [n \in DOMAIN i.args |-> i.ty]
      [] i.op \in {"Store", "Return"} /\ i.args # <<>> -> <<i.ty>>
      [] i.op = "AtomicRmw" -> <<"any", i.ty>>
      [] i.op = "Cast" -> <<i.text>>
      [] i.op = "CondJump" -> <<"bool", "any", "any">>
      [] i.op = "StructInit" -> [n \in DOMAIN i.args |-> "int"]
      [] i.op = "Call" /\ i.text \in DOMAIN Params -> Params[i.text]
      [] OTHER -> <<>>

(* Every operand has the type that its use prints for it: LLVM refuses the  *)
(* module otherwise.                                                        *)
WellTyped == \A p \in Instructions : \A n \in DOMAIN Expected(At(p)) :
    LET ty == TypeOf(At(p).args[n])
    IN  ty \in {"any", Expected(At(p))[n]} \/ Expected(At(p))[n] \in {"any", "ref", "refpair"}

(* LLVM accepts what is emitted after lowering and after every pass.        *)
ValidCode == WellFormed /\ WellTyped
=============================================================================
