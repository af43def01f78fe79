------------------------------ MODULE SafeRefs ------------------------------
(***************************************************************************)
(* What the borrow checker promises, as a machine that runs the function   *)
(* it was given.  Each reference value is a tag: the place it points to,   *)
(* whether it is mutable, the tag it was reborrowed from, and whether it   *)
(* is still good.  A write or move of a place spoils every other tag that  *)
(* points into it or around it, a read spoils the mutable ones; only the   *)
(* tags the access itself goes through are spared.  Leaving a scope spoils *)
(* the tags into it, and an await those into the frame.  The machine is at *)
(* fault when it uses a spoilt tag or a moved place.                       *)
(*                                                                         *)
(* Step Check runs the checker; the machine then runs, whatever the        *)
(* verdict, every path of the function with at most Fuel loop iterations.  *)
(***************************************************************************)
EXTENDS BorrowChecker

CONSTANTS Skeletons,   \* [params, async, body, holes]: functions with three
                       \* holes and the statements each hole may take
          Fuel

VARIABLES fn,        \* the function
          verdict,   \* "none" before the check, then its diagnostics
          todo,      \* the statements still to run, with scope and loop marks
          mem        \* the memory, see InitialMemory

vars == <<fn, verdict, todo, mem>>

(* Memory: the types of the bindings in scope, the places moved out of,     *)
(* the tag in each place that holds a reference, the tags made so far and   *)
(* the faults committed.  A reference parameter points outside the frame.   *)
InitialMemory(params) ==
    LET refs == SetToSeq({v \in DOMAIN params : Types[params[v]].ref # "none"})
        slots == {<<refs[i]>> : i \in DOMAIN refs}
    IN  [types |-> params, gone |-> {}, fault |-> {}, fuel |-> Fuel,
         held |-> [p \in slots |-> CHOOSE i \in DOMAIN refs : p = <<refs[i]>>],
         tags |-> [i \in DOMAIN refs |-> [place |-> <<"outside", refs[i]>>, anc |-> {i},
                                          mut |-> Types[params[refs[i]]].ref = "mut",
                                          good |-> TRUE]]]

(* The body with statement h[i] in place of hole i.                         *)
RECURSIVE Fill(_, _), FillStmt(_, _)
FillStmt(s, h) ==
    CASE s.s = "hole" -> h[s.n]
      [] s.s = "if"   -> [s EXCEPT !.then = Fill(@, h), !.else = Fill(@, h)]
      [] s.s \in {"block", "while", "for", "loop"} -> [s EXCEPT !.body = Fill(@, h)]
      [] OTHER -> s
Fill(stmts, h) == [i \in DOMAIN stmts |-> FillStmt(stmts[i], h)]

Init == /\ \E k \in Skeletons : \E a \in k.holes[1], b \in k.holes[2], c \in k.holes[3] :
              fn = [params |-> k.params, async |-> k.async, body |-> Fill(k.body, <<a, b, c>>)]
        /\ verdict = {"unchecked"}
        /\ todo = <<>>
        /\ mem = InitialMemory(fn.params)
-----------------------------------------------------------------------------
Overlap(p, q) == IsPrefix(p, q) \/ IsPrefix(q, p)
TypeIn(p, m) == type_of_place(p, [scopes |-> <<m.types>>])
Fault(cond, what, m) == IF cond THEN [m EXCEPT !.fault = @ \cup {what}] ELSE m
Spoil(hit(_), m) ==
    [m EXCEPT !.tags = [i \in DOMAIN @ |-> [@[i] EXCEPT !.good = @ /\ ~hit(i)]]]

(* An access to a place, made through the tags in path.                     *)
Touch(place, kind, path, m) ==
    Spoil(LAMBDA i : /\ i \notin path
                     /\ Overlap(m.tags[i].place, place)
                     /\ kind = "write" \/ m.tags[i].mut, m)

(* An access through a tag.                                                 *)
UseTag(t, kind, m) ==
    Touch(m.tags[t].place, kind, m.tags[t].anc, Fault(~m.tags[t].good, "stale", m))

NewTag(place, mut, path, m) ==
    [m EXCEPT !.tags = Append(@, [place |-> place, mut |-> mut, good |-> TRUE,
                                  anc |-> path \cup {Len(m.tags) + 1}])]

(* Where a place lies and the tags that lead there: a field of a reference  *)
(* is a field of what its tag points to.                                    *)
RECURSIVE Resolve(_, _)
Resolve(p, m) ==
    LET base == Resolve(Front(p), m)
        isRef == base.place \in DOMAIN m.held
        t == m.held[base.place]
    IN  IF Len(p) = 1 THEN [place |-> p, path |-> {}]
        ELSE [place |-> Append(IF isRef THEN m.tags[t].place ELSE base.place, Last(p)),
              path |-> IF isRef THEN m.tags[t].anc ELSE base.path]

(* The tags in and under a place, by what follows it.                       *)
Value(place, m) ==
    LET slots == {p \in DOMAIN m.held : IsPrefix(place, p)}
        rest(p) == SubSeq(p, Len(place) + 1, Len(p))
    IN  [x \in {rest(p) : p \in slots} |-> m.held[place \o x]]

(* A use of a place: a faulty one if it was moved or a tag is spoilt.       *)
AccessPlace(p, kind, m) ==
    LET at == Resolve(p, m)
    IN  Touch(at.place, kind, at.path,
              Fault(\E t \in at.path : ~m.tags[t].good, "stale",
              Fault(\E g \in m.gone : Overlap(g, at.place), "moved", m)))

Store(p, val, m) ==
    LET at == Resolve(p, m)
        m1 == Touch(at.place, "write", at.path,
                    Fault(\E g \in m.gone : IsStrictPrefix(g, at.place), "moved", m))
        kept == {s \in DOMAIN m.held : ~IsPrefix(at.place, s)}
    IN  [m1 EXCEPT !.gone = {g \in @ : ~IsPrefix(at.place, g)},
                   !.held = [s \in kept |-> m.held[s]] @@
                            [s \in {at.place \o x : x \in DOMAIN val} |->
                                val[SubSeq(s, Len(at.place) + 1, Len(s))]]]
-----------------------------------------------------------------------------
(* Evaluation.  The result is the memory and the tags of the value.         *)
Result(m, val) == [m |-> m, val |-> val]
Reference(m) == Result(m, (<<>> :> Len(m.tags)))

MakeReference(p, mut, m) ==
    LET at == Resolve(p, m)
    IN  Reference(NewTag(at.place, mut, at.path,
                         AccessPlace(p, IF mut THEN "write" ELSE "read", m)))

(* A new reference to what the reference in r points to.                    *)
ReborrowFrom(r, mut, m) ==
    LET t == m.held[Resolve(r, m).place]
        m1 == UseTag(t, IF mut THEN "write" ELSE "read", AccessPlace(r, "read", m))
    IN  Reference(NewTag(m.tags[t].place, mut, m.tags[t].anc, m1))

AddField(name, v, val) ==
    Result(v.m, val @@ [x \in {<<name>> \o y : y \in DOMAIN v.val} |-> v.val[Tail(x)]])

(* The references into these bindings are gone.                             *)
SpoilUnder(roots, m) == Spoil(LAMBDA i : root_of(m.tags[i].place) \in roots, m)

RECURSIVE Eval(_, _), EvalCall(_, _)
Eval(e, m) ==
    CASE e.k = "place" ->
            LET at == Resolve(e.p, m)
                copy == is_copy_type(TypeIn(e.p, m))
                m1 == AccessPlace(e.p, IF copy THEN "read" ELSE "write", m)
            IN  Result(IF copy THEN m1 ELSE [m1 EXCEPT !.gone = @ \cup {at.place}],
                       Value(at.place, m))
      [] e.k = "borrow" /\ e.target.k = "place" -> MakeReference(e.target.p, e.mut, m)
      [] e.k = "borrow" -> ReborrowFrom(e.target.e.p, e.mut, m)
      [] e.k = "struct" ->
            FoldLeft(LAMBDA acc, f : AddField(f.name, Eval(f.value, acc.m), acc.val),
                     Result(m, <<>>), e.fields)
      [] e.k = "call"  -> EvalCall(e, m)
      [] e.k = "await" ->
            Result(SpoilUnder(DOMAIN m.types, Eval(e.e, m).m), <<>>)
      [] OTHER -> Result(m, <<>>)

(* A callee uses a reference it was given as its signature says.            *)
UseGiven(val, ref, m) ==
    FoldSet(LAMBDA x, m1 : UseTag(val[x], IF ref = "mut" THEN "write" ELSE "read", m1),
            m, DOMAIN val)

(* A borrowing receiver: a new reference to the place, or to what the       *)
(* reference in it points to.                                               *)
LendReceiver(p, mut, m) ==
    IF Types[TypeIn(p, m)].ref = "none" THEN MakeReference(p, mut, m) ELSE ReborrowFrom(p, mut, m)

(* The callee runs, with the values given and the receiver's.               *)
EnterCall(call, vals, self) ==
    LET sig == Sigs[call.fn]
        used == FoldLeft(LAMBDA m, i : UseGiven(vals[i], Types[sig.params[i]].ref, m),
                         self.m, [i \in DOMAIN call.args |-> i])
    IN  Result(UseGiven(self.val, sig.self, used),
               CASE ~contains_reference(sig.ret) -> <<>>
                 [] sig.from = 0 -> self.val
                 [] OTHER -> vals[sig.from])

(* Arguments are evaluated in order, except that the mutable borrows of     *)
(* places take effect when the call starts, as does a borrowing receiver.   *)
(* A mutref passed on is lent, not moved, unless the result may carry it.   *)
(* The callee then uses every reference it was given.                       *)
EvalCall(call, m) ==
    LET sig == Sigs[call.fn]
        late(i) == IsMutBorrow(call.args[i]) /\ call.args[i].target.k = "place"
        lent(i) == call.args[i].k = "place" /\ Types[sig.params[i]].ref = "mut"
                   /\ ~contains_reference(sig.ret)
        arg(i, m1) == IF lent(i)
                      THEN Result(AccessPlace(call.args[i].p, "read", m1),
                                  Value(Resolve(call.args[i].p, m1).place, m1))
                      ELSE Eval(call.args[i], m1)
        keep(acc, i, v) == [acc EXCEPT !.m = v.m, !.vals[i] = v.val]
        order == SelectSeq([i \in DOMAIN call.args |-> i], LAMBDA i : ~late(i))
                 \o SelectSeq([i \in DOMAIN call.args |-> i], late)
        receive(given) ==
            EnterCall(call, given.vals,
                      IF sig.self \in {"shared", "mut"}
                      THEN LendReceiver(call.recv[1].p, sig.self = "mut", given.m)
                      ELSE Result(given.m, given.self))
        give(self) ==
            receive(FoldLeft(LAMBDA acc, i : keep(acc, i, arg(i, acc.m)),
                             [m |-> self.m, self |-> self.val,
                              vals |-> [i \in DOMAIN call.args |-> <<>>]], order))
    IN  give(IF sig.self = "value" THEN Eval(call.recv[1], m) ELSE Result(m, <<>>))
-----------------------------------------------------------------------------
(* Statements.                                                              *)
Lets(stmts) == {stmts[i].var : i \in {j \in DOMAIN stmts : stmts[j].s = "let"}}
Scoped(stmts) == Append(stmts, [s |-> "exit", vars |-> Lets(stmts)])
Again(loop) == <<[s |-> "again", loop |-> loop], [s |-> "end"]>>
Iteration(loop) ==
    Scoped(IF loop.s = "for" THEN <<[s |-> "let", var |-> loop.var, type |-> "int",
                                     init |-> [k |-> "fresh"]]>> \o loop.body
                             ELSE loop.body)

Exit(locals, m) ==
    LET m1 == SpoilUnder(locals, m)
    IN  [m1 EXCEPT !.types = [v \in DOMAIN @ \ locals |-> m.types[v]],
                   !.gone = {g \in @ : root_of(g) \notin locals},
                   !.held = [p \in {q \in DOMAIN @ : root_of(q) \notin locals} |-> m.held[p]]]

(* Control leaves for the first mark of the given kind, through the scopes  *)
(* on the way.                                                              *)
Leave(mark, rest, m) ==
    LET n == CHOOSE i \in DOMAIN rest : /\ rest[i].s = mark
                                        /\ \A j \in 1 .. i - 1 : rest[j].s # mark
        left == {rest[i].vars : i \in {j \in 1 .. n : rest[j].s = "exit"}}
    IN  /\ todo' = SubSeq(rest, n, Len(rest))
        /\ mem' = Exit(UNION left, m)

Check == /\ verdict = {"unchecked"}
         /\ verdict' = check_function(fn)
         /\ todo' = Scoped(fn.body)
         /\ UNCHANGED <<fn, mem>>

(* What a statement does with its value v.                                  *)
Bound(s, v) == Store(<<s.var>>, v.val, [v.m EXCEPT !.types = (s.var :> s.type) @@ @])
Assigned(s, v) ==
    LET old == IF s.op = "=" THEN v.m ELSE AccessPlace(s.target.p, "read", v.m)
    IN  Store(s.target.p, v.val, old)
Through(r, m) == UseTag(m.held[Resolve(r, m).place], "write", m)
Returned(v) ==
    Fault(\E x \in DOMAIN v.val : root_of(v.m.tags[v.val[x]].place) \in DOMAIN v.m.types, "stale", v.m)

Simple(s, rest) ==
    /\ s.s \in {"let", "assign", "expr", "return", "exit", "end"}
    /\ todo' = IF s.s = "return" THEN <<>> ELSE rest
    /\ mem' =
        CASE s.s = "let" -> Bound(s, Eval(s.init, mem))
          [] s.s = "assign" /\ s.target.k = "place" -> Assigned(s, Eval(s.value, mem))
          [] s.s = "assign" ->
                Through(s.target.e.p, AccessPlace(s.target.e.p, "read", Eval(s.value, mem).m))
          [] s.s = "expr" -> Eval(s.e, mem).m
          [] s.s = "return" -> Returned(Eval(s.e, mem))
          [] s.s = "exit" -> Exit(s.vars, mem)
          [] s.s = "end"  -> mem

Branch(s, rest) ==
    \/ /\ s.s = "block"
       /\ todo' = Scoped(s.body) \o rest
       /\ UNCHANGED mem
    \/ /\ s.s = "if"
       /\ mem' = Eval(s.cond, mem).m
       /\ \E b \in {s.then, s.else} : todo' = Scoped(b) \o rest
    \/ /\ s.s \in {"while", "for", "loop"}
       /\ mem' = IF s.s = "for" THEN Eval(s.range, mem).m ELSE mem
       /\ todo' = Again(s) \o rest

Iterate(s, rest) ==
    /\ s.s = "again"
    /\ LET m1 == IF s.loop.s = "while" THEN Eval(s.loop.cond, mem).m ELSE mem
       IN  \/ /\ s.loop.s # "loop"
              /\ todo' = rest
              /\ mem' = m1
           \/ /\ mem.fuel > 0
              /\ todo' = Iteration(s.loop) \o <<s>> \o rest
              /\ mem' = [m1 EXCEPT !.fuel = @ - 1]

Run == /\ todo # <<>>
       /\ LET s == Head(todo)
              rest == Tail(todo)
          IN  \/ Simple(s, rest)
              \/ Branch(s, rest)
              \/ Iterate(s, rest)
              \/ s.s = "break" /\ Leave("end", rest, mem)
              \/ s.s = "continue" /\ Leave("again", rest, mem)
       /\ UNCHANGED <<fn, verdict>>

Next == Check \/ Run
Spec == Init /\ [][Next]_vars
-----------------------------------------------------------------------------
(* "a non-`Copy` place cannot be used after move until fully reinitialized" *)
(* and "a moved parent cannot be resurrected by initializing only one child *)
(* field" (docs/MEMORY_MODEL.md:39-40): no path of a function the checker   *)
(* accepts uses a moved place.                                              *)
NoUseAfterMove == verdict = {} => "moved" \notin mem.fault

(* "an active mutref excludes overlapping reads, writes, moves, and         *)
(* borrows; an active shared ref excludes overlapping writes/moves and      *)
(* mutable borrows; stack references cannot escape"                         *)
(* (docs/MEMORY_MODEL.md:41-42,58): no path of a function the checker       *)
(* accepts uses a reference that was spoilt meanwhile.                      *)
NoStaleReference == verdict = {} => "stale" \notin mem.fault

(* The dataflow always converges: the fail-closed E0408 is never reported,  *)
(* even with a small bound on the iterations.                               *)
Converges == "E0408" \notin verdict
=============================================================================
