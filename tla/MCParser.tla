------------------------------ MODULE MCParser ------------------------------
(***************************************************************************)
(* The front end and the formatter on the sources of Layouts.              *)
(***************************************************************************)
EXTENDS Parser, Formatter, Layouts

(* The code before and after line n, and the lines that are neither.        *)
After(n) == {m \in Rows : m > n}
Hanging == {n \in DOMAIN source : source[n].kind \in {"close", "remark"}}
InPlace(n) == \E m \in {Previous(n)} \cup (IF After(n) = {} THEN {} ELSE {CHOOSE m \in After(n) : \A k \in After(n) : m <= k}) :
                 m # 0 /\ source[n].w >= source[m].w

(* Formatting does not change what a source means: it becomes the same      *)
(* tokens, unless a comment or the continuation of a bracket is indented    *)
(* less than the code before and after it.                                  *)
FormatKeepsTree == phase = "done" /\ ~failed /\ (\A n \in Hanging : InPlace(n)) =>
    lex(format_file(source)) = lex(source)

(* uinx fmt may be run at any time: it keeps the tree, settles at once and  *)
(* keeps the steps of the indentation, whatever the source.                 *)
FormatPreserves == FormatKeepsTree /\ (pos = 1 => Settles(source) /\ KeepsSteps(source))
=============================================================================
