------------------------------- MODULE Parser -------------------------------
(***************************************************************************)
(* The parser (src/parser.cpp) from items down to statements, with its     *)
(* error recovery.  The head of a function up to its ':' is one token, and *)
(* so is that of a struct; suites are indented, not braced.  A step is one *)
(* turn of a loop: an item of the module, a statement of a block, a field  *)
(* of a struct, or the end of a suite.                                     *)
(***************************************************************************)
EXTENDS Lexer, FiniteSets

CONSTANT Sources

VARIABLES source,
          toks,    \* what the lexer made of it
          pos,     \* pos_
          open,    \* the suites being parsed, the innermost last
          failed,  \* a diagnostic was reported
          placed,  \* <<line, line of the construct it was parsed into>>
          phase

parseVars == <<source, toks, pos, open, failed, placed, phase>>

Init == /\ source \in Sources
        /\ toks = lex(source).out /\ failed = lex(source).failed
        /\ pos = 1 /\ open = <<>> /\ placed = {}
        /\ phase = IF failed THEN "refused" ELSE "parse"
-----------------------------------------------------------------------------
(* The helpers take and return c, where the parser is and if it failed.     *)
Kind(p) == toks[p].kind
At(c, kinds) == Kind(c.p) \in kinds
advance(c) == [c EXCEPT !.p = IF @ < Len(toks) THEN @ + 1 ELSE @]
error(c) == [c EXCEPT !.failed = TRUE]
expect(c, kind) == IF At(c, {kind}) THEN advance(c) ELSE error(c)
Ahead(p, stops) == CHOOSE q \in p .. Len(toks) : Kind(q) \in stops /\ \A r \in p .. q - 1 : Kind(r) \notin stops
skip_newlines(c) == [c EXCEPT !.p = Ahead(@, {Kind(n) : n \in DOMAIN toks} \ {"newline"})]
finish_line(c) == IF At(c, {"newline"}) THEN skip_newlines(c)
                  ELSE IF At(c, {"dedent", "end"}) THEN c ELSE error(c)

(* To the next line, to a Dedent, or to a word that starts an item.         *)
synchronize_item(c) ==
    LET q == Ahead(c.p, {"newline", "dedent", "end", "func", "struct"})
    IN  [c EXCEPT !.p = IF Kind(q) = "newline" THEN q + 1 ELSE q]

begin_suite(c) ==
    skip_newlines(expect(skip_newlines(expect(expect(c, ":"), "newline")), "indent"))
end_suite(c) == skip_newlines(expect(c, "dedent"))

(* Expressions: names and calls with one argument, joined by operators.     *)
(* What cannot start an expression is skipped with an error.                *)
RECURSIVE parse_expr(_)
parse_postfix(c) ==
    IF ~At(c, {"("}) THEN c
    ELSE expect(IF At(advance(c), {")"}) THEN advance(c) ELSE parse_expr(advance(c)), ")")
(* A plausible slip: what cannot start an expression is left to the caller. *)
ParsePrefixStays(c) == IF At(c, {"name"}) THEN advance(c) ELSE error(c)
parse_prefix(c) == IF At(c, {"name"}) THEN advance(c) ELSE advance(error(c))
parse_expr(c) ==
    LET lhs == parse_postfix(parse_prefix(c))
    IN  IF At(lhs, {"op"}) THEN parse_expr(advance(lhs)) ELSE lhs
-----------------------------------------------------------------------------
Cursor == [p |-> pos, failed |-> failed]
Move(c) == pos' = c.p /\ failed' = c.failed
Line == toks[pos].line
Top == open[Len(open)]
Owner == IF open = <<>> THEN 0 ELSE Top.line
Suite(kind) == [kind |-> kind, line |-> Line]
Place == placed' = placed \cup {<<Line, Owner>>}
suite_done == Kind(pos) \in {"dedent", "end"}
Parsing(kinds) == phase = "parse" /\ open # <<>> /\ Top.kind \in kinds

(* parse_module, one turn.                                                  *)
Item ==
    /\ phase = "parse" /\ open = <<>> /\ Kind(pos) # "end"
    /\ IF Kind(pos) \in {"func", "struct"}
       THEN /\ open' = <<Suite(Kind(pos))>>
            /\ Move(begin_suite(advance(Cursor)))
       ELSE /\ Move(skip_newlines(synchronize_item(error(Cursor))))
            /\ UNCHANGED open
    /\ Place /\ UNCHANGED <<source, toks, phase>>

(* parse_stmt: if opens a block, everything else is one line.               *)
Blocks == {"func", "then", "else"}
Statement ==
    /\ Parsing(Blocks) /\ ~suite_done
    /\ LET value == parse_expr(Cursor)
           all == IF At(value, {"="}) THEN parse_expr(advance(value)) ELSE value
       IN  IF Kind(pos) = "if"
           THEN /\ open' = Append(open, Suite("then"))
                /\ Move(begin_suite(parse_expr(advance(Cursor))))
           ELSE Move(skip_newlines(finish_line(all))) /\ UNCHANGED open
    /\ Place /\ UNCHANGED <<source, toks, phase>>

(* A field of parse_struct.                                                 *)
Field ==
    /\ Parsing({"struct"}) /\ ~suite_done
    /\ Move(skip_newlines(finish_line(expect(expect(expect(Cursor, "name"), ":"), "name"))))
    /\ Place /\ UNCHANGED <<source, toks, open, phase>>

(* A plausible slip: an else continues any suite.                           *)
EndSuiteElse ==
    /\ phase = "parse" /\ open # <<>> /\ suite_done
    /\ LET c == end_suite(Cursor)
           outer == SubSeq(open, 1, Len(open) - 1)
       IN  IF At(c, {"else"})
           THEN /\ open' = Append(outer, [kind |-> "else", line |-> toks[c.p].line])
                /\ Move(begin_suite(advance(c)))
                /\ placed' = placed \cup {<<toks[c.p].line, IF outer = <<>> THEN 0 ELSE outer[Len(outer)].line>>}
           ELSE open' = outer /\ Move(c) /\ UNCHANGED placed
    /\ UNCHANGED <<source, toks, phase>>

(* end_suite; after the first block of an if there may be an else.          *)
EndSuite ==
    /\ phase = "parse" /\ open # <<>> /\ suite_done
    /\ LET c == end_suite(Cursor)
           outer == SubSeq(open, 1, Len(open) - 1)
       IN  IF Top.kind = "then" /\ At(c, {"else"})
           THEN /\ open' = Append(outer, [kind |-> "else", line |-> toks[c.p].line])
                /\ Move(begin_suite(advance(c)))
                /\ placed' = placed \cup {<<toks[c.p].line, IF outer = <<>> THEN 0 ELSE outer[Len(outer)].line>>}
           ELSE open' = outer /\ Move(c) /\ UNCHANGED placed
    /\ UNCHANGED <<source, toks, phase>>

Finish == /\ phase = "parse" /\ open = <<>> /\ Kind(pos) = "end"
          /\ phase' = "done"
          /\ UNCHANGED <<source, toks, pos, open, failed, placed>>

Next == Item \/ Statement \/ Field \/ EndSuite \/ Finish

(* The parser runs in one thread that nothing stops.                        *)
Fairness == WF_parseVars(Next)
Spec == Init /\ [][Next]_parseVars /\ Fairness
-----------------------------------------------------------------------------
(* A source read by its indentation alone, without tokens.  A line that     *)
(* opens a bracket and the one that closes it are one; blank lines and      *)
(* comments count for nothing.                                              *)
Rows == {n \in DOMAIN source : source[n].toks # <<>> /\ source[n].kind # "close"}
Before(n) == {m \in Rows : m < n}
MaxOf(s) == IF s = {} THEN 0 ELSE CHOOSE m \in s : \A k \in s : k <= m
Previous(n) == MaxOf(Before(n))
Owns(n) == MaxOf({m \in Before(n) : source[m].w < source[n].w})
Sibling(n) == MaxOf({m \in Before(n) : source[m].w <= source[n].w})
KindOf(n) == IF n = 0 THEN "module" ELSE source[n].kind
Openers == {"func", "struct", "if", "else"}
Contents == [module |-> {"func", "struct"}, struct |-> {"field"},
             func |-> {"stmt", "open", "if", "else"}, if |-> {"stmt", "open", "if", "else"},
             else |-> {"stmt", "open", "if", "else"}]
Brackets ==
    LET Code == {n \in DOMAIN source : source[n].toks # <<>>}
    IN  \A n \in Code : LET p == MaxOf({m \in Code : m < n})
                            q == {m \in Code : m > n}
                        IN  /\ (source[n].kind = "close") = (KindOf(p) = "open")
                            /\ source[n].kind = "open" => q # {}
LaidOut ==
    /\ Brackets
    /\ \A n \in Rows :
        /\ Before(n) = {} => source[n].w = 0
        /\ (source[n].w > (IF Before(n) = {} THEN 0 ELSE source[Previous(n)].w)) = (KindOf(Previous(n)) \in Openers)
        /\ n = MaxOf(Rows) => source[n].kind \notin Openers
        /\ Sibling(n) # Owns(n) \/ Previous(n) = Owns(n)
        /\ KindOf(Owns(n)) \in DOMAIN Contents /\ KindOf(n) \in Contents[KindOf(Owns(n))]
        /\ KindOf(n) = "else" => Sibling(n) # Owns(n) /\ KindOf(Sibling(n)) = "if"

(* A source that is laid out is parsed to its end without an error.         *)
LaidOutIsParsed == (pos = 1 /\ LaidOut) ~> (phase = "done" /\ ~failed)

(* Recovery moves on from every token, so every source is parsed to its     *)
(* end, but for the two loops that turn at one token for ever: the items at *)
(* a Dedent, where synchronize_item stops, and the fields of a struct at a  *)
(* token that is no part of a field.                                        *)
Stuck == /\ phase = "parse"
         /\ IF open = <<>> THEN Kind(pos) = "dedent"
            ELSE Top.kind = "struct" /\ ~suite_done /\ Kind(pos) \notin {"name", ":", "newline"}
ParsingEnds == (pos = 1) ~> IF LaidOut THEN phase = "done" /\ ~failed
                            ELSE phase \in {"refused", "done"} \/ Stuck

(* What is parsed without an error is laid out, and every line is in the    *)
(* construct it is indented under.                                          *)
ParsedAsLaidOut == phase = "done" /\ ~failed =>
    LaidOut /\ placed = {<<n, Owns(n)>> : n \in Rows}
=============================================================================
