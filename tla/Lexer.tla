-------------------------------- MODULE Lexer --------------------------------
(***************************************************************************)
(* The layout of the lexer (src/lexer.cpp): which Newline, Indent and      *)
(* Dedent tokens lines of source become.                                   *)
(*                                                                         *)
(* A line has its indentation w, the kinds of its tokens, and blank, which *)
(* is TRUE of an empty line and of one with only a # or // comment.  A     *)
(* line with a block comment has no tokens either, but is not blank.       *)
(***************************************************************************)
EXTENDS Integers, Sequences
LOCAL INSTANCE SequencesExt

(* A token keeps the number of its line.                                    *)
Token(kind, line) == [kind |-> kind, line |-> line]

(* The lexer: tokens, indent_stack_, delimiter_depth_, and if it reported   *)
(* an error.                                                                *)
Start == [out |-> <<>>, indents |-> <<0>>, depth |-> 0, failed |-> FALSE]
Push(s, kind, line) == [s EXCEPT !.out = Append(@, Token(kind, line))]
Inner(s) == s.indents[Len(s.indents)]

(* One Dedent for each open block that is deeper than the line.             *)
CloseBlocks(s, w, line) ==
    LET kept == SelectSeq(s.indents, LAMBDA i : i <= w)
        closed == Len(s.indents) - Len(kept)
    IN  [s EXCEPT !.indents = kept, !.out = @ \o [n \in 1 .. closed |-> Token("dedent", line)]]

(* The indentation is only read outside brackets.                           *)
emit_indentation(s, w, line) ==
    LET c == CloseBlocks(s, w, line)
    IN  CASE s.depth # 0 \/ w = Inner(s) -> s
          [] s.depth = 0 /\ w > Inner(s) -> Push([s EXCEPT !.indents = Append(@, w)], "indent", line)
          [] s.depth = 0 /\ w < Inner(s) -> [c EXCEPT !.failed = @ \/ w # Inner(c)]

Layout == {"newline", "indent", "dedent"}
emit_newline(s, line) ==
    IF s.depth # 0 \/ s.out = <<>> \/ s.out[Len(s.out)].kind \in Layout THEN s
    ELSE Push(s, "newline", line)

LexToken(s, kind, line) ==
    [Push(s, kind, line) EXCEPT !.depth = CASE kind = "(" -> @ + 1
                                            [] kind = ")" /\ @ > 0 -> @ - 1
                                            [] OTHER -> @]
LexLine(s, source, n) ==
    LET l == source[n]
        at == emit_indentation(s, l.w, n)
    IN  IF l.blank THEN s
        ELSE emit_newline(FoldLeft(LAMBDA t, kind : LexToken(t, kind, n), at, l.toks), n)

(* lex: at the end the open blocks are closed.                              *)
lex(source) ==
    LET last == Len(source)
        s == FoldLeftDomain(LAMBDA t, n : LexLine(t, source, n), Start, source)
        line == IF s.out # <<>> /\ s.out[Len(s.out)].kind \notin Layout THEN Push(s, "newline", last) ELSE s
        dedents == [n \in 1 .. Len(s.indents) - 1 |-> Token("dedent", last)]
    IN  [out |-> line.out \o dedents \o <<Token("end", last)>>, failed |-> s.failed]
=============================================================================
