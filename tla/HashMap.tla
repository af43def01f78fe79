------------------------------- MODULE HashMap -------------------------------
(***************************************************************************)
(* The open-addressing hash map of the runtime (runtime/collections.c).    *)
(* A slot is empty (state 0), a tombstone (state 2) or an entry (state 1). *)
(* A probe runs from the hash of the key to the first slot that stops it;  *)
(* the code has no bound on the way, so it hangs where nothing stops it.   *)
(* Each allocation may fail, and fails once the table is MaxCap long.      *)
(***************************************************************************)
EXTENDS Integers, FiniteSets, FiniteSetsExt

CONSTANTS Keys, Values,
          Hash,        \* hash_bytes: key -> Nat
          InitialSlots,  \* 16 in the code
          MaxCap       \* a bound on the table

HashAssumption == /\ Hash \in [Keys -> Nat]
                  /\ InitialSlots \in Nat \ {0}
                  /\ "hang" \notin Values   \* what no call returns

VARIABLES slots,   \* entries: 0 .. cap - 1 -> slot; <<>> without a map
          mapLen, tombs,
          buffers, \* the key copies allocated and not freed
          call     \* the last call: [op, key, ret]

mapVars == <<slots, mapLen, tombs, buffers, call>>

Empty == [state |-> 0]
Tomb  == [state |-> 2]
Entry(k, v) == [state |-> 1, key |-> k, value |-> v]

mapCap == Cardinality(DOMAIN slots)
live == mapCap > 0
Full == {i \in DOMAIN slots : slots[i].state = 1}

Answer(op, k, ret) == call' = [op |-> op, key |-> k, ret |-> ret]

MapInit == /\ slots = <<>>
           /\ mapLen = 0 /\ tombs = 0 /\ buffers = 0
           /\ call = [op |-> "none", key |-> "none", ret |-> "ok"]
-----------------------------------------------------------------------------
Write(table, i, e) == [j \in DOMAIN table |-> IF j = i THEN e ELSE table[j]]

(* The slot d steps after the home slot of key k, in a table of c slots.    *)
Slot(k, d, c) == (Hash[k] + d) % c

key_eq(e, k) == e.state = 1 /\ e.key = k

(* The distances at which a probe for k stops, and the first of them.       *)
Stops(k, table, c) ==
    {d \in 0 .. c - 1 : LET e == table[Slot(k, d, c)] IN e.state = 0 \/ key_eq(e, k)}
Find(k, table, c) == Slot(k, Min(Stops(k, table, c)), c)
Hangs(k, table, c) == Stops(k, table, c) = {}

(* The table rebuilt with c slots: the entries in order, each in the first  *)
(* slot of its probe that holds none.                                       *)
Place(table, e, c) ==
    LET free == {d \in 0 .. c - 1 : table[Slot(e.key, d, c)].state # 1}
    IN  Write(table, Slot(e.key, Min(free), c), e)
map_resize(c) ==
    LET rebuilt[i \in 0 .. mapCap] ==
            IF i = 0 THEN [j \in 0 .. c - 1 |-> Empty]
            ELSE IF slots[i - 1].state = 1 THEN Place(rebuilt[i - 1], slots[i - 1], c)
            ELSE rebuilt[i - 1]
    IN  rebuilt[mapCap]

(* A plausible slip: tombstones do not count.                               *)
CrowdedByEntries == (mapLen + 1) * 10 >= mapCap * 7

Crowded == (mapLen + tombs + 1) * 10 >= mapCap * 7
-----------------------------------------------------------------------------
(* uinx_hashmap_new: one of its two allocations may fail.                   *)
hashmap_new ==
    /\ ~live
    /\ \/ /\ slots' = [i \in 0 .. InitialSlots - 1 |-> Empty]
          /\ Answer("new", "none", "ok")
       \/ /\ UNCHANGED slots
          /\ Answer("new", "none", "NULL")
    /\ mapLen' = 0 /\ tombs' = 0
    /\ UNCHANGED buffers

(* An entry that takes the place of a tombstone found on the way uses it    *)
(* up.                                                                      *)
TombsLeft(way, t) == IF way = {} THEN t ELSE t - 1

(* The part of uinx_hashmap_put after the growth, on a table of c slots     *)
(* with t tombstones.                                                       *)
Insert(k, v, table, c, t) ==
    LET idx == Find(k, table, c)
        way == {d \in 0 .. Min(Stops(k, table, c)) : table[Slot(k, d, c)].state = 2}
        dest == IF way = {} THEN idx ELSE Slot(k, Min(way), c)
    IN  IF Hangs(k, table, c)
        THEN /\ Answer("put", k, "hang")
             /\ slots' = table /\ tombs' = t
             /\ UNCHANGED <<mapLen, buffers>>
        ELSE IF key_eq(table[idx], k)
        THEN /\ slots' = Write(table, idx, Entry(k, v))
             /\ tombs' = t
             /\ Answer("put", k, "ok")
             /\ UNCHANGED <<mapLen, buffers>>
        ELSE \/ /\ slots' = Write(table, dest, Entry(k, v))
                /\ tombs' = TombsLeft(way, t)
                /\ mapLen' = mapLen + 1
                /\ buffers' = buffers + 1
                /\ Answer("put", k, "ok")
             \/ /\ slots' = table /\ tombs' = t
                /\ Answer("put", k, "ENOMEM")
                /\ UNCHANGED <<mapLen, buffers>>

(* uinx_hashmap_put                                                         *)
hashmap_put(k, v) ==
    /\ live
    /\ \/ /\ ~Crowded
          /\ Insert(k, v, slots, mapCap, tombs)
       \/ /\ Crowded /\ 2 * mapCap <= MaxCap
          /\ Insert(k, v, map_resize(2 * mapCap), 2 * mapCap, 0)
       \/ /\ Crowded
          /\ Answer("put", k, "ENOMEM")
          /\ UNCHANGED <<slots, mapLen, tombs, buffers>>

(* uinx_hashmap_get                                                         *)
hashmap_get(k) ==
    /\ live
    /\ LET e == slots[Find(k, slots, mapCap)]
       IN  Answer("get", k, IF Hangs(k, slots, mapCap) THEN "hang"
                            ELSE IF key_eq(e, k) THEN e.value ELSE "ENOENT")
    /\ UNCHANGED <<slots, mapLen, tombs, buffers>>

(* A plausible slip: the slot is emptied, not marked.                       *)
remove_empties(k) ==
    /\ live
    /\ LET idx == Find(k, slots, mapCap)
       IN  IF ~key_eq(slots[idx], k)
           THEN Answer("remove", k, "ENOENT") /\ UNCHANGED <<slots, mapLen, tombs, buffers>>
           ELSE /\ slots' = Write(slots, idx, Empty)
                /\ mapLen' = mapLen - 1 /\ buffers' = buffers - 1
                /\ Answer("remove", k, slots[idx].value)
                /\ UNCHANGED tombs

(* uinx_hashmap_remove                                                      *)
hashmap_remove(k) ==
    /\ live
    /\ LET idx == Find(k, slots, mapCap)
       IN  IF Hangs(k, slots, mapCap) \/ ~key_eq(slots[idx], k)
           THEN /\ Answer("remove", k, IF Hangs(k, slots, mapCap) THEN "hang" ELSE "ENOENT")
                /\ UNCHANGED <<slots, mapLen, tombs, buffers>>
           ELSE /\ slots' = Write(slots, idx, Tomb)
                /\ mapLen' = mapLen - 1 /\ tombs' = tombs + 1
                /\ buffers' = buffers - 1
                /\ Answer("remove", k, slots[idx].value)

(* uinx_hashmap_drop frees the keys of the entries.                         *)
hashmap_drop ==
    /\ live
    /\ buffers' = buffers - Cardinality(Full)
    /\ slots' = <<>>
    /\ Answer("drop", "none", "ok")
    /\ UNCHANGED <<mapLen, tombs>>

MapNext == \/ hashmap_new \/ hashmap_drop
           \/ \E k \in Keys : hashmap_get(k) \/ hashmap_remove(k) \/ \E v \in Values : hashmap_put(k, v)

MapSpec == MapInit /\ [][MapNext]_mapVars
-----------------------------------------------------------------------------
(* Every probe of uinx_hashmap_put, get and remove, and of the rehash, ends:*)
(* it runs until it meets an empty slot, and there always is one, since     *)
(* tombstones count towards growth and a failed growth stops the put.       *)
EveryProbeEnds == live => /\ \E i \in DOMAIN slots : slots[i].state = 0
                          /\ call.ret # "hang"

(* len and tombs are what they count, as the growth test and                *)
(* uinx_hashmap_len rely on, and every key copy belongs to one entry, so    *)
(* that drop leaves none behind.                                            *)
CountsMatch == /\ live => /\ mapLen = Cardinality(Full)
                          /\ tombs = Cardinality({i \in DOMAIN slots : slots[i].state = 2})
               /\ buffers = Cardinality(Full)

(* Any sequence of calls, with any allocation failing, leaves such a table. *)
TableSound == EveryProbeEnds /\ CountsMatch

(* The map implements a partial function: a key is in at most one slot, is  *)
(* found after any sequence of insertions, removals, growths and failed     *)
(* allocations, and a put that fails loses nothing.                         *)
Contents == [k \in Keys |->
                IF \E i \in Full : slots[i].key = k
                THEN slots[CHOOSE i \in Full : slots[i].key = k].value ELSE "ENOENT"]
KV == INSTANCE KeyValueMap WITH kv <- Contents
ImplementsMap == KV!Spec
=============================================================================
