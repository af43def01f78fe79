---------------------------- MODULE SendPrograms ----------------------------
(***************************************************************************)
(* Structs and programs the solver of Send and Sync is checked on.         *)
(***************************************************************************)
EXTENDS Types

Struct(params, bounds, fields) == [params |-> params, bounds |-> bounds, fields |-> fields]
Free(names) == [n \in names |-> {}]
Library ==
    [Raw    |-> Struct(<<>>, None, [p |-> Ptr(I64)]),
     Link   |-> Struct(<<>>, None, [next |-> Ref(Named("Link", <<>>)), n |-> I64]),
     Ring   |-> Struct(<<>>, None, [back |-> MutRef(Named("Chain", <<>>))]),
     Chain  |-> Struct(<<>>, None, [on |-> Ref(Named("Ring", <<>>)), p |-> Ptr(I64)]),
     Owner  |-> Struct(<<>>, None, [p |-> Ptr(I64)]),
     Pair   |-> Struct(<<"A", "B">>, Free({"A", "B"}), [a |-> Generic("A"), b |-> Generic("B")]),
     Tagged |-> Struct(<<"T", "U">>, [T |-> {"Send"}, U |-> {}], [tag |-> Generic("T"), value |-> Generic("U")])]

(* A raw pointer whose owner is declared Send.                              *)
Owner == Named("Owner", <<>>)
OwnerIsSend == {[trait |-> "Send", type |-> Owner, bounds |-> None]}

Simple == {I64, Str, Ptr(I64), Owner} \cup {Named(n, <<>>) : n \in {"Raw", "Link", "Ring"}}
Around(s) == {Ref(t) : t \in s} \cup {MutRef(t) : t \in s}
             \cup {Named(n, <<I64, t>>) : n \in {"Pair", "Tagged"}, t \in s}
             \cup {Named(n, <<t, I64>>) : n \in {"Pair", "Tagged"}, t \in s}
Ground == Simple \cup Around(Simple) \cup Around({MutRef(Owner), Named("Tagged", <<I64, Named("Link", <<>>)>>)})
Shapes(g) == LET t == Generic(g) IN {t} \cup Around({t}) \cup Around({Named("Pair", <<t, I64>>)})

Function(param, bounds, actual, markers) ==
    [markers |-> markers, param |-> param, bounds |-> bounds, actual |-> actual]
Monomorphic == {Function(t, None, t, m) : t \in Ground, m \in {{}, OwnerIsSend}}
    \cup {Function(Ref(t), None, MutRef(t), OwnerIsSend) : t \in Simple}
Polymorphic(g) ==
    {Function(t, With(None, g, b), substitute_type(t, With(None, g, u)), OwnerIsSend) :
        t \in Shapes(g), b \in SUBSET {"Send", "Sync"}, u \in Simple}

AllPrograms == Monomorphic \cup Polymorphic("V")

(* The generic of the function has the name of a generic of Tagged.         *)
Captured == Polymorphic("T")
=============================================================================
