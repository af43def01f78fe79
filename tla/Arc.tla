-------------------------------- MODULE Arc --------------------------------
(***************************************************************************)
(* The atomic reference count of runtime/collections.c: a control block    *)
(* (refs, data) created by uinx_arc_new_copy, shared by uinx_arc_clone,    *)
(* read through uinx_arc_data and given up by uinx_arc_release.  A handle  *)
(* is one owned pointer to the control block, in whatever thread.  The     *)
(* two deallocations of the last release are separate steps.               *)
(***************************************************************************)
EXTENDS Naturals, FiniteSets

CONSTANT Handles

ASSUME HandlesAssumption == IsFiniteSet(Handles)

VARIABLES refs,   \* the atomic counter
          ctl,    \* the control block: "none", "live", "freed", "twice"
          dat,    \* the data block, likewise
          pc      \* per handle: what its owner is doing with it

vars == <<refs, ctl, dat, pc>>

Blocks == {"none", "live", "freed", "twice"}
PCs == {"none", "new", "held", "last", "data_freed"}

Init == /\ refs = 0
        /\ ctl = "none"
        /\ dat = "none"
        /\ pc = [h \in Handles |-> "none"]

(* uinx_dealloc of a block that is not live is a double free.               *)
Dealloc(block) == IF block = "live" THEN "freed" ELSE "twice"

(* A plausible slip: the decrement tested for reaching one instead of zero. *)
ReleaseEarly(h) ==
    /\ pc[h] = "held"
    /\ refs' = refs - 1
    /\ pc' = [pc EXCEPT ![h] = IF refs <= 2 THEN "last" ELSE "none"]
    /\ UNCHANGED <<ctl, dat>>

(* A plausible slip: the failure path of uinx_arc_new_copy just returns.    *)
NewDataLeaks(h) ==
    /\ pc[h] = "new"
    /\ \/ /\ dat' = "live"
          /\ refs' = 1
          /\ pc' = [pc EXCEPT ![h] = "held"]
       \/ /\ pc' = [pc EXCEPT ![h] = "none"]
          /\ UNCHANGED <<dat, refs>>
    /\ UNCHANGED ctl

(* uinx_arc_new_copy: the control block is allocated (a failure returns     *)
(* NULL and changes nothing).                                               *)
NewControl(h) == /\ \A g \in Handles : pc[g] = "none"
                 /\ ctl' = "live"
                 /\ dat' = "none"
                 /\ pc' = [pc EXCEPT ![h] = "new"]
                 /\ UNCHANGED refs

(* uinx_arc_new_copy: the data block is allocated, filled and counted, or   *)
(* the allocation fails and the control block is given back.                *)
NewData(h) == /\ pc[h] = "new"
              /\ \/ /\ dat' = "live"
                    /\ refs' = 1
                    /\ pc' = [pc EXCEPT ![h] = "held"]
                    /\ UNCHANGED ctl
                 \/ /\ ctl' = Dealloc(ctl)
                    /\ pc' = [pc EXCEPT ![h] = "none"]
                    /\ UNCHANGED <<dat, refs>>

(* uinx_arc_clone: refs.fetch_add(1) through a handle its caller holds.     *)
Clone(h, g) == /\ pc[h] = "held"
               /\ pc[g] = "none"
               /\ refs' = refs + 1
               /\ pc' = [pc EXCEPT ![g] = "held"]
               /\ UNCHANGED <<ctl, dat>>

(* uinx_arc_release: refs.fetch_sub(1); whoever takes it from 1 destroys.   *)
Release(h) == /\ pc[h] = "held"
              /\ refs' = refs - 1
              /\ pc' = [pc EXCEPT ![h] = IF refs = 1 THEN "last" ELSE "none"]
              /\ UNCHANGED <<ctl, dat>>

FreeData(h) == /\ pc[h] = "last"
               /\ dat' = Dealloc(dat)
               /\ pc' = [pc EXCEPT ![h] = "data_freed"]
               /\ UNCHANGED <<refs, ctl>>

FreeControl(h) == /\ pc[h] = "data_freed"
                  /\ ctl' = Dealloc(ctl)
                  /\ pc' = [pc EXCEPT ![h] = "none"]
                  /\ UNCHANGED <<refs, dat>>

Next == \E h \in Handles : \/ NewControl(h) \/ NewData(h)
                           \/ Release(h) \/ FreeData(h) \/ FreeControl(h)
                           \/ \E g \in Handles : Clone(h, g)

Spec == Init /\ [][Next]_vars
-----------------------------------------------------------------------------
Held == {h \in Handles : pc[h] = "held"}
Busy == {h \in Handles : pc[h] # "none"}

(* Type invariant.                                                          *)
TypeOK == /\ refs \in Nat
          /\ ctl \in Blocks
          /\ dat \in Blocks
          /\ pc \in [Handles -> PCs]

(* No use after free and no double free: as long as anyone holds a handle   *)
(* uinx_arc_data may be dereferenced through it, and the blocks are freed   *)
(* once, by the one thread whose decrement was the last.                    *)
NoUseAfterFree == /\ Held # {} => ctl = "live" /\ dat = "live"
                  /\ ctl # "twice" /\ dat # "twice"

(* Nothing leaks: when no handle is left and no call is in progress, both   *)
(* blocks have been given back.                                             *)
NoLeak == Busy = {} => ctl # "live" /\ dat # "live"

(* The inductive invariant: the counter is the number of handles held, and  *)
(* a creation or a destruction in progress is the only thing in progress.   *)
ArcInv ==
    /\ TypeOK
    /\ refs = Cardinality(Held)
    /\ NoUseAfterFree
    /\ NoLeak
    /\ \A h \in Handles : pc[h] \in {"new", "last", "data_freed"} =>
          /\ \A g \in Handles : g # h => pc[g] = "none"
          /\ ctl = "live"
          /\ pc[h] = "last" <=> dat = "live"
=============================================================================
