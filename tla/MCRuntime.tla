------------------------------ MODULE MCRuntime ------------------------------
(***************************************************************************)
(* The data structures of the runtime for TLC.  A behaviour uses one of    *)
(* them, named by `use`; the others stay as they were initialized.         *)
(***************************************************************************)
EXTENDS Arc, HashMap, Vec, Utf8

(* Five keys for a table of four slots that can grow to eight: a and b      *)
(* share a home slot in both, d collides with them only in the small one,   *)
(* c starts at the last slot and wraps, to the home slot of e.              *)
FiveKeys == {"a", "b", "c", "d", "e"}
Homes == [a |-> 1, b |-> 9, c |-> 7, d |-> 5, e |-> 0]

(* The code points and bytes at which the code or the standard draws a      *)
(* line, with a neighbour on each side.                                     *)
BoundaryCodePoints ==
    UNION {{c - 1, c, c + 1} : c \in {1, 65, 127, 128, 2047, 2048, 4096, 55295, 57344, 65535, 65536,
                                      262144, 1114111}}
BoundaryBytes == {65, 127, 128, 143, 144, 159, 160, 191, 192, 193, 194, 223, 224, 225, 237, 238, 240, 243,
                  244, 245, 248, 255}

VARIABLE use
runtimeVars == <<use, vars, mapVars, vecVars, textVars>>

ASSUME RuntimeAssumption == MaxCap \in Nat /\ HashAssumption /\ VecAssumption /\ Utf8Assumption
-----------------------------------------------------------------------------
NoText == Start("bytes", -1, <<>>)

RuntimeInit ==
    /\ Init /\ MapInit /\ VecInit
    /\ \/ use \in {"Arc", "HashMap", "Vec"} /\ NoText
       \/ use = "Utf8" /\ (Encoded \/ Raw)

RuntimeNext ==
    \/ use = "Arc" /\ Next /\ UNCHANGED <<use, mapVars, vecVars, textVars>>
    \/ use = "HashMap" /\ MapNext /\ UNCHANGED <<use, vars, vecVars, textVars>>
    \/ use = "Vec" /\ VecNext /\ UNCHANGED <<use, vars, mapVars, textVars>>
    \/ use = "Utf8" /\ Validate /\ UNCHANGED <<use, vars, mapVars, vecVars>>

RuntimeSpec == RuntimeInit /\ [][RuntimeNext]_runtimeVars
=============================================================================
