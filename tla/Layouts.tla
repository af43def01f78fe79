------------------------------- MODULE Layouts -------------------------------
(***************************************************************************)
(* The sources the lexer, the parser and the formatter are checked on.     *)
(* The lines of an open bracket are an "open" and a "close" line, comments *)
(* "remark" lines after # or // and "comment" lines between /* and */.     *)
(***************************************************************************)
EXTENDS Integers, Sequences

Written == [func |-> <<"func", ":">>, struct |-> <<"struct", ":">>, if |-> <<"if", "name", ":">>,
            else |-> <<"else", ":">>, stmt |-> <<"name", "=", "name", "op", "name">>,
            field |-> <<"name", ":", "name">>, open |-> <<"name", "(">>, close |-> <<"name", ")">>,
            blank |-> <<>>, remark |-> <<>>, comment |-> <<>>]
SourceLine(kind, w) ==
    [kind |-> kind, w |-> w, toks |-> Written[kind], blank |-> kind \in {"blank", "remark"}]
Lines(kinds, ws) == {SourceLine(k, w) : k \in kinds, w \in ws}

(* Three arbitrary lines; the same inside a function and inside an if.      *)
Any == Lines({"func", "struct", "stmt", "field"}, {0, 1, 2})
Inside == Lines({"if", "else", "stmt"}, {0, 1, 2})
          \cup Lines({"open", "close", "remark"}, {0, 2}) \cup {SourceLine("blank", 1), SourceLine("func", 0)}
AllSources == {<<a, b, c>> : a, b, c \in Any}
              \cup {<<SourceLine("func", 0), SourceLine("if", 1), a, b, c>> : a, b, c \in Inside}

(* A block comment on a line of its own, at several widths.                 *)
Commented == {<<SourceLine("func", 0), SourceLine("stmt", 1), SourceLine("comment", w), SourceLine("stmt", 1)>> :
                 w \in 0 .. 2}
=============================================================================
