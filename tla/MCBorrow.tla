------------------------------ MODULE MCBorrow ------------------------------
(***************************************************************************)
(* The functions the borrow checker is checked on.  Owners are x, a pair   *)
(* of a resource and a number, and y, a resource; r and q are references   *)
(* to a resource, shared or mutable.  Each family fixes a shape and fills  *)
(* its holes with every sema-correct statement.                            *)
(***************************************************************************)
EXTENDS SafeRefs

MCTypes ==
    LET Type(copy, ref, pointee, fields) ==
            [copy |-> copy, ref |-> ref, pointee |-> pointee, fields |-> fields]
    IN  [int    |-> Type(TRUE, "none", "int", <<>>),
         res    |-> Type(FALSE, "none", "res", <<>>),
         pair   |-> Type(FALSE, "none", "pair", [a |-> "res", n |-> "int"]),
         ref    |-> Type(TRUE, "shared", "res", <<>>),
         mutref |-> Type(FALSE, "mut", "res", <<>>),
         box    |-> Type(FALSE, "none", "box", [f |-> "ref", g |-> "ref"])]

MCSigs ==
    LET Sig(self, params, ret, from) ==
            [self |-> self, params |-> params, ret |-> ret, from |-> from]
    IN  [look |-> Sig("none", <<"ref">>, "int", 0),
         poke |-> Sig("none", <<"mutref">>, "int", 0),
         eat  |-> Sig("none", <<"res">>, "int", 0),
         gulp |-> Sig("none", <<"pair">>, "int", 0),
         keep |-> Sig("none", <<"ref">>, "ref", 1),
         pass |-> Sig("none", <<"mutref">>, "mutref", 1),
         mix  |-> Sig("none", <<"mutref", "int">>, "int", 0),
         grow |-> Sig("mut", <<"int">>, "int", 0),
         len  |-> Sig("shared", <<>>, "int", 0),
         view |-> Sig("shared", <<>>, "ref", 0),
         work |-> Sig("none", <<>>, "int", 0)]
-----------------------------------------------------------------------------
Fresh == [k |-> "fresh"]
P(p) == [k |-> "place", p |-> p]
Deref(v) == [k |-> "deref", e |-> P(<<v>>)]
Borrow(mut, p, at) == [k |-> "borrow", mut |-> mut, target |-> P(p), at |-> at]
Reborrow(mut, v, at) == [k |-> "borrow", mut |-> mut, target |-> Deref(v), at |-> at]
Call(f, args, at) == [k |-> "call", fn |-> f, recv |-> <<>>, args |-> args, at |-> at]
Method(p, f, args, at) == [k |-> "call", fn |-> f, recv |-> <<P(p)>>, args |-> args, at |-> at]
Await(e) == [k |-> "await", e |-> e]
New(fields) == [k |-> "struct", fields |-> fields]

Let(v, type, init) == [s |-> "let", var |-> v, type |-> type, init |-> init]
Set(p, e, at) == [s |-> "assign", op |-> "=", target |-> P(p), value |-> e, at |-> at]
Add(p, e, at) == [s |-> "assign", op |-> "+=", target |-> P(p), value |-> e, at |-> at]
SetThrough(v, e, at) == [s |-> "assign", op |-> "=", target |-> Deref(v), value |-> e, at |-> at]
Do(e) == [s |-> "expr", e |-> e]
Return(e) == [s |-> "return", e |-> e]
Block(b) == [s |-> "block", body |-> b]
If(t, e) == [s |-> "if", cond |-> Fresh, then |-> t, else |-> e]
While(b) == [s |-> "while", cond |-> Fresh, body |-> b]
For(b) == [s |-> "for", var |-> "i", range |-> Fresh, body |-> b]
Loop(b) == [s |-> "loop", body |-> b]
Break == [s |-> "break"]
Continue == [s |-> "continue"]

Hole(n) == [s |-> "hole", n |-> n]
Skeleton(async, body, holes) ==
    [params |-> <<>>, async |-> async, body |-> body, holes |-> holes]
WithParam(p, type, skeleton) == [skeleton EXCEPT !.params = p :> type]
-----------------------------------------------------------------------------
X == <<"x">>
XA == <<"x", "a">>
XN == <<"x", "n">>
Y == <<"y">>
Refs == {"r", "q"}
Other(v) == CHOOSE w \in Refs : w # v

(* m[v]: v is a mutref.                                                     *)
Kind(m, v) == IF m[v] THEN "mutref" ELSE "ref"
Use(m, v, at) == Do(Call(IF m[v] THEN "poke" ELSE "look", <<P(<<v>>)>>, at))

(* The values a reference can be given.                                     *)
Points(m, v, places, at) == {Borrow(m[v], p, at) : p \in places}
Derived(m, v, at) ==
    LET w == Other(v)
    IN  (IF m[v] = m[w] THEN {P(<<w>>)} ELSE {})
        \cup (IF m[v] => m[w] THEN {Reborrow(m[v], w, at)} ELSE {})
        \cup (IF m[v] \/ m[w] THEN {} ELSE {Call("keep", <<P(<<w>>)>>, at)})

OwnerStmts(at) ==
    {Set(X, Fresh, at), Set(XA, Fresh, at), Set(Y, Fresh, at), Set(Y, P(XA), at),
     Do(Call("eat", <<P(XA)>>, at)), Do(Call("eat", <<P(Y)>>, at)),
     Do(Call("gulp", <<P(X)>>, at)), Add(XN, P(XN), at),
     Do(Call("mix", <<Borrow(TRUE, Y, at \o "m"),
                      Call("look", <<Borrow(FALSE, Y, at \o "l")>>, at \o "i")>>, at)),
     Do(Method(Y, "grow", <<Method(Y, "len", <<>>, at \o "i")>>, at))}

RefStmts(m, at) ==
    UNION {{Set(<<v>>, e, at) : e \in Points(m, v, {XA, Y}, at) \cup Derived(m, v, at)}
           \cup {Use(m, v, at)}
           \cup (IF m[v] THEN {SetThrough(v, Fresh, at),
                               Do(Call("look", <<Reborrow(FALSE, v, at)>>, at \o "c"))} ELSE {})
           : v \in Refs}

Stmts(m, at) == OwnerStmts(at) \cup RefStmts(m, at)

Modes == [Refs -> BOOLEAN]
Owners == <<Let("x", "pair", Fresh), Let("y", "res", Fresh)>>
Bind(m, v, e) == Let(v, Kind(m, v), e)

Uses(m, at) == {Use(m, v, at) : v \in Refs}

(* References made and used with two arbitrary statements between.          *)
Straight ==
    UNION {{Skeleton(FALSE, Owners \o <<Bind(m, "r", e), Bind(m, "q", f), Hole(1), Hole(2), Hole(3)>>,
                     <<Stmts(m, "1"), Stmts(m, "2"), Uses(m, "3")>>) :
               e \in Points(m, "r", {XA, Y}, "r0"),
               f \in Points(m, "q", {XA, Y}, "q0") \cup Derived(m, "q", "q0")}
           : m \in Modes}

(* The same statements under branches, loops and scopes.  z is a resource   *)
(* of the inner scope.                                                      *)
Inner(m, at) == {Set(<<v>>, Borrow(m[v], <<"z">>, at), at) : v \in Refs}
                \cup {Do(Call("eat", <<P(<<"z">>)>>, at))}
Shapes ==
    {<<If(<<Hole(1)>>, <<Hole(2)>>), Hole(3)>>,
     <<If(<<Hole(1), Return(Fresh)>>, <<>>), Hole(2), Hole(3)>>,
     <<While(<<Hole(1), Hole(2)>>), Hole(3)>>,
     <<For(<<Hole(1), If(<<Continue>>, <<>>), Hole(2)>>), Hole(3)>>,
     <<Loop(<<Hole(1), If(<<Hole(2), Break>>, <<>>)>>), Hole(3)>>,
     <<While(<<If(<<Hole(1), Continue>>, <<Break>>)>>), Hole(2), Hole(3)>>,
     <<While(<<For(<<Hole(1)>>), Hole(2)>>), Hole(3)>>,
     <<Loop(<<While(<<Hole(1), If(<<Break>>, <<>>)>>), If(<<Hole(2), Break>>, <<>>)>>), Hole(3)>>}

Flow ==
    UNION {{Skeleton(FALSE, Owners \o <<Bind(m, "r", Borrow(m["r"], XA, "r0")), Bind(m, "q", f)>> \o b,
                     <<Stmts(m, "1"), Stmts(m, "2"), Uses(m, "3")>>) :
               b \in Shapes, f \in {Borrow(m["q"], Y, "q0")} \cup Derived(m, "q", "q0")}
           : m \in Modes}
    \cup {Skeleton(FALSE, Owners \o <<Bind(m, "r", Borrow(m["r"], XA, "r0")),
                                       Bind(m, "q", Borrow(m["q"], Y, "q0")),
                                       Block(<<Let("z", "res", Fresh), Hole(1), Hole(2)>>), Hole(3)>>,
                    <<Inner(m, "1"), Stmts(m, "2") \cup Inner(m, "2"), Stmts(m, "3")>>) : m \in Modes}

(* References that come from a parameter p or a method, kept across an      *)
(* await or returned.                                                       *)
Given(m, v, at) ==
    IF m[v] THEN {P(<<"p">>), Reborrow(TRUE, "p", at), Call("pass", <<P(<<"p">>)>>, at),
                  Call("pass", <<P(<<Other(v)>>)>>, at), Call("pass", <<Borrow(TRUE, Y, at)>>, at \o "c")}
    ELSE {P(<<"p">>), Call("keep", <<P(<<"p">>)>>, at), Reborrow(FALSE, "p", at),
          Method(Y, "view", <<>>, at), Method(<<Other(v)>>, "view", <<>>, at),
          Method(<<"p">>, "view", <<>>, at), Call("keep", <<Borrow(FALSE, XA, at)>>, at \o "c")}
FrameStmts(m, at) ==
    UNION {{Set(<<v>>, e, at) : e \in Points(m, v, {XA, Y}, at) \cup Given(m, v, at)}
           \cup {Use(m, v, at)} : v \in Refs}
    \cup {Set(XA, Fresh, at), Set(Y, Fresh, at), Do(Call("eat", <<P(Y)>>, at))}
Pause == {Do(Await(Call("work", <<>>, "w"))), Set(XN, Await(Call("work", <<>>, "w")), "w")}
ReturnStmts(m, at) ==
    {Return(e) : e \in {P(<<"r">>), P(<<"q">>), P(<<"p">>), Borrow(m["r"], XA, at)}
                       \cup (Given(m, "r", at))}
SameModes == {m \in Modes : m["r"] = m["q"]}

Frames ==
    UNION {{WithParam("p", Kind(m, "r"), k) :
            k \in UNION {{Skeleton(TRUE, b \o <<Hole(1), Hole(2), Hole(3)>>,
                                   <<FrameStmts(m, "1"), Pause, Uses(m, "3")>>),
                          Skeleton(TRUE, b \o <<While(<<Hole(1), Hole(2), Hole(3)>>)>>,
                                   <<FrameStmts(m, "1"), Pause, FrameStmts(m, "3")>>),
                          Skeleton(FALSE, b \o <<Hole(1), Hole(2), Hole(3)>>,
                                   <<FrameStmts(m, "1"), FrameStmts(m, "2"), ReturnStmts(m, "3")>>)} :
                         b \in {Owners \o <<Bind(m, "r", e), Bind(m, "q", f)>> :
                                   e \in {P(<<"p">>), Borrow(m["r"], XA, "r0")},
                                   f \in {P(<<"r">>), Borrow(m["q"], Y, "q0")}}}}
           : m \in SameModes}

(* Structs whose fields are references.  s and t are boxes.                 *)
S == <<"s">>
T == <<"t">>
SF == <<"s", "f">>
SG == <<"s", "g">>
Shared == [v \in Refs |-> FALSE]
Box(e, f) == New(<<[name |-> "f", value |-> e], [name |-> "g", value |-> f]>>)
Look(p, at) == Do(Call("look", <<P(p)>>, at))
BoxStmts(at) ==
    {Set(p, Borrow(FALSE, o, at), at) : p \in {SF, SG, <<"r">>}, o \in {XA, Y}}
    \cup {Set(SF, P(<<"r">>), at), Set(SF, P(SG), at), Set(<<"r">>, P(SF), at), Set(T, P(S), at),
          Set(S, Box(P(<<"r">>), Borrow(FALSE, Y, at)), at), Set(S, P(T), at), Look(SF, at),
          Look(<<"r">>, at), Set(SF, P(<<"t", "g">>), at),
          Set(XA, Fresh, at), Set(Y, Fresh, at), Set(Y, P(XA), at), Do(Call("eat", <<P(Y)>>, at))}
Boxed(owner) == Owners \o <<Bind(Shared, "r", Borrow(FALSE, XA, "r0")),
                            Let("s", "box", Box(Borrow(FALSE, owner, "s0"), Borrow(FALSE, Y, "s1"))),
                            Let("t", "box", Box(Borrow(FALSE, XA, "t0"), P(<<"r">>)))>>
BoxUses == {Look(p, "3") : p \in {SF, SG, <<"t", "f">>, <<"t", "g">>, <<"r">>}}
Boxes ==
    UNION {{Skeleton(FALSE, Boxed(o) \o <<Hole(1), Hole(2), Hole(3)>>,
                     <<BoxStmts("1"), BoxStmts("2"), BoxUses>>),
            Skeleton(FALSE, Boxed(o) \o <<If(<<Hole(1)>>, <<>>), Hole(2), Hole(3)>>,
                     <<BoxStmts("1"), BoxStmts("2"), BoxUses>>)} : o \in {XA, Y}}

(* The functions of the passing run.                                        *)
AllFunctions == Straight \cup Flow \cup Frames \cup Boxes
-----------------------------------------------------------------------------
(* Functions the checker accepts against its documentation.                 *)
(* A reference that is assigned itself.                                     *)
Selves ==
    {Skeleton(FALSE, Owners \o <<Bind(Shared, "r", Borrow(FALSE, XA, "r0")), Hole(1), Hole(2), Hole(3)>>,
              <<{Set(<<"r">>, e, "1") : e \in {P(<<"r">>), Call("keep", <<P(<<"r">>)>>, "1")}},
                OwnerStmts("2"), {Use(Shared, "r", "3")}>>)}
=============================================================================
