------------------------------ MODULE Formatter ------------------------------
(***************************************************************************)
(* uinx fmt (format_file of tools/uinx.cpp): every line is indented by its *)
(* depth.  It looks at the widths of the lines only, and knows neither     *)
(* brackets nor comments.  A line is a record with its kind, its width w   *)
(* and the rest of it.                                                     *)
(***************************************************************************)
EXTENDS Integers, Sequences

Indented(s, l, stack, w) == [out |-> Append(s.out, [l EXCEPT !.w = w]), indentation |-> stack]
Opened(stack, w) == IF w > stack[Len(stack)] THEN Append(stack, w) ELSE stack

(* The entries deeper than w go, the first one never does.                  *)
Kept(stack, w) ==
    SubSeq(stack, 1, CHOOSE n \in DOMAIN stack : /\ n = 1 \/ stack[n] <= w
                                                 /\ \A m \in n + 1 .. Len(stack) : stack[m] > w)

(* A plausible slip: a line closes one block at most.                       *)
FormatClosesOne(s, l) ==
    LET kept == IF l.w < s.indentation[Len(s.indentation)]
                THEN SubSeq(s.indentation, 1, Len(s.indentation) - 1) ELSE s.indentation
        stack == Opened(kept, l.w)
    IN  IF l.kind = "blank" THEN Indented(s, l, s.indentation, 0)
        ELSE Indented(s, l, stack, 4 * (Len(stack) - 1))

(* One line: the deeper entries of the stack go, a deeper line is pushed.   *)
FormatLine(s, l) ==
    LET stack == Opened(Kept(s.indentation, l.w), l.w)
    IN  IF l.kind = "blank" THEN Indented(s, l, s.indentation, 0)
        ELSE Indented(s, l, stack, 4 * (Len(stack) - 1))

(* The loop over the lines: what the first n of them become.                *)
format_file(lines) ==
    LET formatted[n \in 0 .. Len(lines)] ==
            IF n = 0 THEN [out |-> <<>>, indentation |-> <<0>>]
            ELSE FormatLine(formatted[n - 1], lines[n])
    IN  formatted[Len(lines)].out
-----------------------------------------------------------------------------
(* Formatting twice is formatting once: after uinx fmt the check of         *)
(* uinx fmt --check finds nothing.                                          *)
Settles(lines) == format_file(format_file(lines)) = format_file(lines)

(* Two lines of text with only blank lines between them.                    *)
Adjacent(lines, m, n) == /\ m < n /\ lines[m].kind # "blank" /\ lines[n].kind # "blank"
                         /\ \A k \in m + 1 .. n - 1 : lines[k].kind = "blank"

(* Formatting changes widths only.  A line is deeper than the one before it *)
(* exactly when it was, and then by one level; one as deep as the one       *)
(* before it stays so.                                                      *)
KeepsSteps(lines) ==
    LET out == format_file(lines)
    IN  /\ Len(out) = Len(lines)
        /\ \A n \in DOMAIN lines : out[n] = [lines[n] EXCEPT !.w = out[n].w]
        /\ \A m, n \in DOMAIN lines : Adjacent(lines, m, n) =>
               /\ lines[n].w > lines[m].w => out[n].w = out[m].w + 4
               /\ lines[n].w = lines[m].w => out[n].w = out[m].w
               /\ lines[n].w < lines[m].w => out[n].w <= out[m].w
=============================================================================
