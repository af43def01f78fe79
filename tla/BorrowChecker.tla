--------------------------- MODULE BorrowChecker ---------------------------
(***************************************************************************)
(* The borrow checker (src/borrow.cpp, src/borrow_flow.cpp,                *)
(* src/borrow_liveness.cpp): backward liveness of places, then a forward   *)
(* pass over the statements with a fixed point per loop.  An expression    *)
(* is a record with a kind k: "place" (a name with its fields and          *)
(* indexes), "fresh" (a literal or an expression without places),          *)
(* "borrow", "deref", "struct", "call" and "await".  A statement is a      *)
(* record with a kind s.                                                   *)
(***************************************************************************)
EXTENDS BorrowState, SequencesExt

CONSTANTS Sigs,           \* function -> [self, params, ret], from sema
          MaxIterations   \* kMaxDataflowIterations, 4096 in the code

ASSUME IterationsAssumption == MaxIterations \in Nat \ {0}

SetUnion(f(_), seq) == UNION {f(seq[i]) : i \in DOMAIN seq}
-----------------------------------------------------------------------------
(* What sema knows about an expression: the kind of reference it is, and    *)
(* whether its value can carry one.                                         *)
RefKind(e, st) ==
    CASE e.k = "place"  -> Types[type_of_place(e.p, st)].ref
      [] e.k = "borrow" -> IF e.mut THEN "mut" ELSE "shared"
      [] e.k = "call"   -> Types[Sigs[e.fn].ret].ref
      [] OTHER          -> "none"

RECURSIVE Carries(_, _)
Carries(e, st) ==
    CASE e.k = "place"  -> contains_reference(type_of_place(e.p, st))
      [] e.k = "borrow" -> TRUE
      [] e.k = "call"   -> contains_reference(Sigs[e.fn].ret)
      [] e.k = "struct" -> \E i \in DOMAIN e.fields : Carries(e.fields[i].value, st)
      [] OTHER          -> FALSE

(* `borrow deref r` reborrows through the place r.                          *)
is_reborrow(target) == target.k = "deref" /\ target.e.k = "place"

RECURSIVE place_origins(_, _), receiver_origins(_, _, _), reference_origins(_, _)
(* A plausible slip: only what is recorded for the place itself.            *)
OriginsExact(p, st) == IF p \in DOMAIN st.orig THEN st.orig[p] ELSE {}

(* What is known about the place, or else about what contains it.           *)
place_origins(p, st) ==
    LET known == UNION {st.orig[d] : d \in {d \in DOMAIN st.orig : within(p, d) \/ within(d, p)}}
    IN  IF known = {} /\ Len(p) > 1 THEN place_origins(Front(p), st) ELSE Unique(known)

(* A plausible slip: only the known origins of the receiver are carried.    *)
ReceiverKnownOnly(base, call, st) == reference_origins(base, st)

(* The result of a method on a place without known origins may point into   *)
(* the receiver, or outside the function when the receiver is a reference.  *)
receiver_origins(base, call, st) ==
    LET known == reference_origins(base, st)
        self == Sigs[call.fn].self
        place == IF RefKind(base, st) = "none" THEN base.p ELSE <<External>> \o base.p
    IN  IF known # {} \/ base.k # "place" \/ self = "value" THEN known
        ELSE {[place |-> place, mut |-> self = "mut", at |-> call.at, via |-> {}]}

reference_origins(e, st) ==
    CASE e.k = "borrow" /\ e.target.k = "place" ->
            {[place |-> e.target.p, mut |-> e.mut, at |-> e.at, via |-> {}]}
      [] e.k = "borrow" /\ is_reborrow(e.target) ->
            LET parent == e.target.e.p
                known == reference_origins(e.target, st)
                places == IF known = {} THEN {[place |-> <<External>> \o parent, via |-> {}]}
                                        ELSE known
            IN  {[place |-> o.place, mut |-> e.mut, at |-> e.at, via |-> o.via \cup {parent}] :
                    o \in places}
      [] e.k = "borrow" -> {[o EXCEPT !.mut = e.mut] : o \in reference_origins(e.target, st)}
      [] e.k = "place"  -> place_origins(e.p, st)
      [] e.k \in {"deref", "await"} -> reference_origins(e.e, st)
      [] e.k = "struct" ->
            Unique(SetUnion(LAMBDA f : reference_origins(f.value, st), e.fields))
      [] e.k = "call" /\ contains_reference(Sigs[e.fn].ret) ->
            Unique(SetUnion(LAMBDA r : receiver_origins(r, e, st), e.recv)
                   \cup SetUnion(LAMBDA a : reference_origins(a, st), e.args))
      [] OTHER -> {}

RECURSIVE bind_reference_expression(_, _, _)
(* The value of e is now in dest: dest's references borrow what e's did.    *)
(* Moving a place that is not Copy transfers its loans.                     *)
bind_reference_expression(dest, e, st) ==
    LET under == IF e.k # "place" THEN {} ELSE {d \in DOMAIN st.orig : within(e.p, d)}
        released == IF is_copy_type(type_of_place(e.p, st)) THEN st
                    ELSE EraseOrigins(e.p, kill_borrowers_under(e.p, st))
        rebind(target, os, s) ==
            set_reference_origins(target, os, promote_reference_value(target, os, s))
        origins == reference_origins(e, st)
    IN  CASE e.k = "struct" ->
                FoldLeft(LAMBDA s, f : bind_reference_expression(Append(dest, f.name), f.value, s),
                         st, e.fields)
          [] under # {} ->
                FoldSet(LAMBDA d, s : rebind(dest \o SubSeq(d, Len(e.p) + 1, Len(d)), st.orig[d], s),
                        released, under)
          [] OTHER -> IF origins = {} THEN st ELSE rebind(dest, origins, st)
-----------------------------------------------------------------------------
(* Expressions.                                                             *)
ArgName == <<"1", "2", "3", "4">>
IsMutBorrow(a) == a.k = "borrow" /\ a.mut

(* A plausible slip: a mutref passed on is always lent.                     *)
AlwaysLent(call, i, st) ==
    /\ call.args[i].k = "place"
    /\ RefKind(call.args[i], st) = "mut"
    /\ Types[Sigs[call.fn].params[i]].ref = "mut"

(* A mutref place passed to a mutref parameter is reborrowed for the call,  *)
(* unless the result may carry it.                                          *)
is_reborrow_argument(call, i, st) ==
    /\ call.args[i].k = "place"
    /\ RefKind(call.args[i], st) = "mut"
    /\ ~contains_reference(Sigs[call.fn].ret)
    /\ Types[Sigs[call.fn].params[i]].ref = "mut"

Guard(call, i) == <<"<reborrow>", call.at, ArgName[i]>>
release_call_guards(call, st) ==
    [st EXCEPT !.loans = {l \in @ : ~\E i \in DOMAIN call.args : l.borrower = Guard(call, i)}]

RECURSIVE inspect_expr(_, _, _), inspect_call_arguments(_, _, _), inspect_call(_, _)
inspect_expr(e, st, access) ==
    CASE ~st.reach -> st
      [] e.k = "place"  -> access_place(e.p, access, st, {})
      [] e.k = "deref"  -> inspect_expr(e.e, st, "read")
      [] e.k = "struct" -> FoldLeft(LAMBDA s, f : inspect_expr(f.value, s, "move"), st, e.fields)
      [] e.k = "borrow" /\ e.target.k = "place" ->
            begin_borrow(e.target.p, Temporary, e.mut, e.at, st, {})
      [] e.k = "borrow" /\ is_reborrow(e.target) ->
            FoldSet(LAMBDA o, s :
                        FoldSet(LAMBDA p, s1 : begin_borrow(p, Temporary, e.mut, e.at, s1,
                                                            o.via \cup {Temporary}),
                                s, {o.place} \cup o.via),
                    access_place(e.target.e.p, "read", st, {}), reference_origins(e, st))
      [] e.k = "borrow" ->
            LET origins == reference_origins(e.target, st)
            IN  IF origins = {} THEN inspect_expr(e.target, st, "read")
                ELSE FoldSet(LAMBDA o, s : begin_borrow(o.place, Temporary, e.mut, e.at, s, {}),
                             st, origins)
      [] e.k = "call"   -> inspect_call(e, st)
      [] e.k = "await"  ->
            LET live == \E l \in st.loans : l.borrower # Temporary /\ is_stack_owned(l.place, st)
            IN  inspect_expr(e.e, IF st.async /\ live THEN report_error(st, "E0407") ELSE st, "move")
      [] OTHER -> st

inspect_call_arguments(call, wanted, st) ==
    LET one(s, i) ==
            LET a == call.args[i]
            IN  IF i \notin wanted THEN s
                ELSE IF is_reborrow_argument(call, i, s)
                THEN begin_borrow(a.p, Guard(call, i), TRUE, call.at, inspect_expr(a, s, "read"), {})
                ELSE inspect_expr(a, s, IF RefKind(a, s) = "shared" THEN "read" ELSE "move")
    IN  release_call_guards(call, FoldLeft(one, st, [i \in DOMAIN call.args |-> i]))

(* A mutable receiver, or else the `borrow mut` arguments, are reserved     *)
(* first and activated after the other arguments; the receiver of any other *)
(* method is inspected before.                                              *)
inspect_call(call, st) ==
    LET self == Sigs[call.fn].self
        receiver == IF call.recv = <<>> THEN [k |-> "fresh"] ELSE call.recv[1]
        all == DOMAIN call.args
        mutArgs == {i \in all : IsMutBorrow(call.args[i])}
        placeArgs == {i \in mutArgs : call.args[i].target.k = "place"}
        id(i) == <<TwoPhase, call.at, ArgName[i]>>
        self_id == <<TwoPhase, call.at>>
        received == inspect_expr(receiver, st, IF self = "shared" THEN "borrow_shared" ELSE "move")
        reserved == FoldSet(LAMBDA i, s : begin_two_phase_reservation(call.args[i].target.p, id(i),
                                                                      call.at, s),
                            received, placeArgs)
        activated == FoldSet(LAMBDA i, s : activate_two_phase(id(i), call.at, s),
                             inspect_call_arguments(call, all \ mutArgs, reserved), placeArgs)
    IN  CASE self = "mut" /\ receiver.k = "place" ->
                kill_borrower(self_id, activate_two_phase(self_id, call.at,
                    inspect_call_arguments(call, all,
                        begin_two_phase_reservation(receiver.p, self_id, call.at, st))))
          [] self = "mut" ->
                inspect_call_arguments(call, all, inspect_expr(receiver, st, "borrow_shared"))
          [] placeArgs # {} -> FoldSet(LAMBDA i, s : kill_borrower(id(i), s), activated, placeArgs)
          [] OTHER -> inspect_call_arguments(call, all, received)
-----------------------------------------------------------------------------
(* Backward liveness.  The code runs one pass over roots and one over       *)
(* places; both kill at the same statements, and a use of a place is also   *)
(* a use of every prefix of it, so the live roots are the roots of the      *)
(* live places.                                                             *)
RECURSIVE expression_uses(_)
expression_uses(e) ==
    CASE e.k = "place"  -> {SubSeq(e.p, 1, n) : n \in 1 .. Len(e.p)}
      [] e.k = "borrow" -> expression_uses(e.target)
      [] e.k \in {"deref", "await"} -> expression_uses(e.e)
      [] e.k = "struct" -> SetUnion(LAMBDA f : expression_uses(f.value), e.fields)
      [] e.k = "call"   -> SetUnion(expression_uses, e.recv) \cup SetUnion(expression_uses, e.args)
      [] OTHER -> {}

KillRoot(root, live) == {p \in live : root_of(p) # root}

(* live: what is live after the statement; brk, cont: at the target of a    *)
(* break or continue.                                                       *)
RECURSIVE liveness_stmt(_, _, _, _), liveness_block(_, _, _, _), liveness_loop(_, _, _, _)
liveness_block(stmts, live, brk, cont) ==
    FoldRight(LAMBDA s, l : liveness_stmt(s, l, brk, cont), stmts, live)

(* A plausible slip: what is live after the loop is live at its back edge.  *)
LivenessNoBackEdge(loop, header, live, n) == [live |-> live, ok |-> TRUE]

liveness_loop(loop, header, live, n) ==
    LET body == liveness_block(loop.body, header, live, header)
        next == CASE loop.s = "while" -> live \cup body \cup expression_uses(loop.cond)
                  [] loop.s = "for"   -> live \cup KillRoot(loop.var, body)
                  [] loop.s = "loop"  -> body
    IN  IF next = header \/ n = MaxIterations THEN [live |-> header, ok |-> next = header]
        ELSE liveness_loop(loop, next, live, n + 1)

liveness_stmt(s, live, brk, cont) ==
    CASE s.s = "let"    -> KillRoot(s.var, live) \cup expression_uses(s.init)
      [] s.s = "assign" ->
            LET whole == s.op = "=" /\ s.target.k = "place" /\ Len(s.target.p) = 1
            IN  (IF whole THEN KillRoot(root_of(s.target.p), live)
                 ELSE live \cup expression_uses(s.target)) \cup expression_uses(s.value)
      [] s.s = "expr"   -> live \cup expression_uses(s.e)
      [] s.s = "return" -> expression_uses(s.e)
      [] s.s = "block"  -> liveness_block(s.body, live, brk, cont)
      [] s.s = "if"     -> liveness_block(s.then, live, brk, cont)
                           \cup liveness_block(s.else, live, brk, cont) \cup expression_uses(s.cond)
      [] s.s = "for"    -> KillRoot(s.var, liveness_loop(s, live, live, 1).live)
                           \cup expression_uses(s.range)
      [] s.s \in {"while", "loop"} -> liveness_loop(s, live, live, 1).live
      [] s.s = "break"    -> brk
      [] s.s = "continue" -> cont

(* A loan is live while its borrower, or anything overlapping it, is.       *)
loan_live_at(loan, live) ==
    \/ \E p \in live : root_of(p) = root_of(loan.borrower)
    \/ \E p \in live : places_conflict(p, loan.borrower)

expire_dead_loans(live, st) ==
    [st EXCEPT !.loans = {l \in @ : /\ l.borrower # Temporary
                                    /\ \/ root_of(l.borrower) = TwoPhase
                                       \/ loan_live_at(l, live)}]
-----------------------------------------------------------------------------
(* Statements.  cx holds the liveness after the statement and at the        *)
(* targets of break and continue, and the scope depth outside the innermost *)
(* loop.  The result holds the state after the statement and the states     *)
(* that leave by break and by continue.                                     *)
Plain(st) == [st |-> st, brk |-> {}, cont |-> {}]

(* The value of e, inspected in st, is stored in the initialized place.     *)
StoreValue(place, type, e, origins, st) ==
    LET st1 == set_reference_origins(place, {}, mark_initialized(place, st))
    IN  IF contains_reference(type) /\ origins # {} THEN bind_reference_expression(place, e, st1)
        ELSE st1

(* `val`, `var` and the assignment that introduces its binding.             *)
check_let(s, st) ==
    LET st1 == inspect_expr(s.init, st, "move")
        depth == Len(st.scopes)
        st2 == [st1 EXCEPT !.scopes[depth] = [v \in DOMAIN @ \cup {s.var} |->
                                                 IF v = s.var THEN s.type ELSE @[v]]]
    IN  StoreValue(<<s.var>>, s.type, s.init, reference_origins(s.init, st), st2)

(* `deref r = v`: loans on r are respected and a moved r rejected.          *)
write_through_reference(target, st) ==
    LET parent == target.e.p
        clash == \E l \in st.loans : ~is_external(l.place) /\ places_conflict(parent, l.place)
    IN  IF ~is_reborrow(target) THEN st
        ELSE IF unavailable(parent, st) THEN report_error(st, "E0400")
        ELSE IF clash THEN report_error(st, "E0403") ELSE st

check_assign(s, st) ==
    LET place == s.target.p
        id == <<TwoPhase, "assign", s.at>>
        isPlace == s.target.k = "place"
        plain == s.op = "="
        begun == CASE isPlace /\ plain -> kill_borrowers_under(place, st)
                   [] isPlace -> begin_two_phase_reservation(place, id, s.at, st)
                   [] plain   -> st
                   [] OTHER   -> inspect_expr(s.target, st, "read")
        written(st1) == access_place(place, "write",
                            IF plain THEN st1
                            ELSE kill_borrowers_under(place, kill_borrower(id,
                                     activate_two_phase(id, s.at, st1))), {})
        finish(st1) == IF isPlace
                       THEN StoreValue(place, type_of_place(place, st), s.value,
                                       reference_origins(s.value, st), written(st1))
                       ELSE write_through_reference(s.target, st1)
    IN  finish(inspect_expr(s.value, begun, "move"))

check_return(s, st) ==
    LET escapes == /\ Carries(s.e, st)
                   /\ \E o \in reference_origins(s.e, st) : is_stack_owned(o.place, st)
        st1 == IF escapes THEN report_error(st, "E0404") ELSE st
    IN  [inspect_expr(s.e, st1, "move") EXCEPT !.reach = FALSE]

(* The states that leave two statements that follow each other, or two      *)
(* branches of an `if`.                                                     *)
Followed(r1, r2) == [r2 EXCEPT !.brk = @ \cup r1.brk, !.cont = @ \cup r1.cont]
Joined(r1, r2) == [Followed(r1, r2) EXCEPT !.st = merge_states(r1.st, @)]

RECURSIVE check_stmt(_, _, _), check_rest(_, _, _), check_seq(_, _, _), check_block(_, _, _),
          check_if(_, _, _), check_loop(_), end_pass(_, _, _, _), check_live(_, _, _)
check_rest(r, stmts, cx) == Followed(r, check_seq(stmts, r.st, cx))

check_seq(stmts, st, cx) ==
    IF stmts = <<>> \/ ~st.reach THEN Plain(st)
    ELSE LET live == liveness_block(Tail(stmts), cx.live, cx.brk, cx.cont)
         IN  check_rest(check_stmt(Head(stmts), st, [cx EXCEPT !.live = live]), Tail(stmts), cx)

check_block(stmts, st, cx) ==
    LET r == check_seq(stmts, [st EXCEPT !.scopes = Append(@, <<>>)], cx)
    IN  IF ~st.reach THEN Plain(st) ELSE [r EXCEPT !.st = truncate_scopes(@, Len(st.scopes))]

Unreachable(st) == [st EXCEPT !.reach = FALSE]

(* A plausible slip: the next header is compared with the state on entry.   *)
SettledOnEntry(it, next, backedge) == states_equivalent(next, it.entry)

(* Another pass would see the same states.                                  *)
Settled(it, next, backedge) ==
    states_equivalent(next, it.header) \/ (it.loop.s = "loop" /\ ~backedge.reach)

(* Iteration it of a loop: its state on entry, what may hold at the top     *)
(* (header), the merged states of the breaks so far (exits), the liveness   *)
(* at the top and after the loop.                                           *)
FirstPass(loop, st, cx) ==
    [loop |-> loop, entry |-> st, header |-> st, exits |-> Unreachable(st), n |-> 1,
     live |-> liveness_loop(loop, cx.live, cx.live, 1), after |-> cx.live]

LoopTop(it) ==
    CASE it.loop.s = "while" -> inspect_expr(it.loop.cond, it.header, "move")
      [] it.loop.s = "for"   -> [it.header EXCEPT !.scopes = Append(@, it.loop.var :> "int")]
      [] it.loop.s = "loop"  -> it.header

BackEdge(it, r) == FoldSet(merge_states, truncate_scopes(r.st, Len(it.entry.scopes)), r.cont)
Exits(it, r) == [it EXCEPT !.exits = FoldSet(merge_states, @, r.brk)]

(* The state after the loop, if the pass that ended is the last.            *)
LoopExit(it, top, next) ==
    merge_states(CASE it.loop.s = "while" -> [top EXCEPT !.errs = @ \cup next.errs]
                   [] it.loop.s = "for"   -> next
                   [] it.loop.s = "loop"  -> Unreachable(next), it.exits)

end_pass(it, top, next, backedge) ==
    LET done == Settled(it, next, backedge)
    IN  IF ~done /\ it.n < MaxIterations
        THEN check_loop([it EXCEPT !.header = next, !.n = @ + 1])
        ELSE LET st == LoopExit(it, top, next)
             IN  IF done /\ it.live.ok THEN st ELSE report_error(st, "E0408")

(* One pass over the loop from the current header state.                    *)
check_loop(it) ==
    LET pass(top, r, backedge) ==
            end_pass(Exits(it, r), top, merge_states(it.entry, backedge), backedge)
        body(top, r) == pass(top, r, BackEdge(it, r))
        from(top) == body(top, check_block(it.loop.body, top,
                                           [live |-> it.live.live, brk |-> it.after,
                                            cont |-> it.live.live, depth |-> Len(it.entry.scopes)]))
    IN  from(LoopTop(it))

check_if(s, st, cx) == Joined(check_block(s.then, st, cx), check_block(s.else, st, cx))

check_live(s, st, cx) ==
    CASE s.s = "let"    -> Plain(check_let(s, st))
      [] s.s = "assign" -> Plain(check_assign(s, st))
      [] s.s = "expr"   -> Plain(inspect_expr(s.e, st, "move"))
      [] s.s = "return" -> Plain(check_return(s, st))
      [] s.s = "block"  -> check_block(s.body, st, cx)
      [] s.s = "if"     -> check_if(s, inspect_expr(s.cond, st, "move"), cx)
      [] s.s \in {"while", "for", "loop"} ->
            LET entry == IF s.s = "for" THEN inspect_expr(s.range, st, "move") ELSE st
            IN  Plain(check_loop(FirstPass(s, entry, cx)))
      [] s.s = "break"  ->
            [st |-> Unreachable(st), brk |-> {truncate_scopes(st, cx.depth)}, cont |-> {}]
      [] s.s = "continue" ->
            [st |-> Unreachable(st), brk |-> {}, cont |-> {truncate_scopes(st, cx.depth)}]

check_stmt(s, st, cx) ==
    check_live(s, expire_dead_loans(liveness_stmt(s, cx.live, cx.brk, cx.cont), st), cx)

(* The diagnostics for a function: params maps its parameters to types.     *)
check_function(fn) ==
    check_block(fn.body, InitialState(fn.params, fn.async),
                [live |-> {}, brk |-> {}, cont |-> {}, depth |-> 0]).st.errs
=============================================================================
