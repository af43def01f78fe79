----------------------------- MODULE KeyValueMap -----------------------------
(***************************************************************************)
(* What a map promises: a partial function from keys to values.  A put     *)
(* that finds no memory changes nothing; get and remove never fail for     *)
(* want of memory, and answer from the function.                           *)
(***************************************************************************)
CONSTANTS Keys, Values

VARIABLES kv,    \* the value of each key, or Absent
          call,  \* the last call and its result
          live   \* the map exists

Answer(op, k, ret) == call' = [op |-> op, key |-> k, ret |-> ret]

Absent == "ENOENT"
Nothing == [k \in Keys |-> Absent]

Init == kv = Nothing /\ live = FALSE /\ call = [op |-> "none", key |-> "none", ret |-> "ok"]

New == /\ ~live
       /\ kv' = Nothing
       /\ \/ live' = TRUE /\ Answer("new", "none", "ok")
          \/ UNCHANGED live /\ Answer("new", "none", "NULL")

Put(k, v) == /\ live
             /\ \/ kv' = [kv EXCEPT ![k] = v] /\ Answer("put", k, "ok")
                \/ UNCHANGED kv /\ Answer("put", k, "ENOMEM")
             /\ UNCHANGED live

Get(k) == live /\ Answer("get", k, kv[k]) /\ UNCHANGED <<kv, live>>

Remove(k) == live /\ Answer("remove", k, kv[k]) /\ kv' = [kv EXCEPT ![k] = Absent] /\ UNCHANGED live

Drop == live /\ live' = FALSE /\ kv' = Nothing /\ Answer("drop", "none", "ok")

Next == \/ New \/ Drop
        \/ \E k \in Keys : Get(k) \/ Remove(k) \/ \E v \in Values : Put(k, v)

Spec == Init /\ [][Next]_<<kv, call, live>>
=============================================================================
