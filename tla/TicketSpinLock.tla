--------------------------- MODULE TicketSpinLock ---------------------------
(***************************************************************************)
(* core::sync TicketSpinLock (stdlib/core/sync.ux): `next` hands out       *)
(* tickets, `serving` is the ticket admitted.  lock() takes a ticket and   *)
(* polls; try_lock() reads both words at different times and then claims   *)
(* the ticket by compare-exchange; unlock() is a separate load and store.  *)
(* Each atomic access is one step.                                         *)
(***************************************************************************)
EXTENDS Naturals, SyncThreads

CONSTANT MaxTickets   \* tickets handed out in a run; stands for 2^64

VARIABLES next, serving,
          pc,
          ticket,      \* the ticket a thread drew
          cur          \* local `cur` of try_lock() and unlock()

vars == <<next, serving, pc, ticket, cur>>

PCs == {"idle", "waiting", "try_next", "try_cas", "held", "unlocking"}

Init == /\ next = 0
        /\ serving = 0
        /\ pc = [t \in Threads |-> "idle"]
        /\ ticket = [t \in Threads |-> 0]
        /\ cur = [t \in Threads |-> 0]

(* A plausible slip: the ticket is read and bumped without being claimed.   *)
TakeTicketTwice(t) ==
    /\ pc[t] = "idle"
    /\ next < MaxTickets
    /\ ticket' = [ticket EXCEPT ![t] = next]
    /\ next' = next
    /\ pc' = [pc EXCEPT ![t] = "waiting"]
    /\ UNCHANGED <<serving, cur>>

(* A plausible slip: try_lock() claims the next ticket although the lock    *)
(* is busy (the `cur != nxt` test is dropped).                              *)
TryNextUnchecked(t) ==
    /\ pc[t] = "try_next"
    /\ pc' = [pc EXCEPT ![t] = "try_cas"]
    /\ cur' = [cur EXCEPT ![t] = next]
    /\ UNCHANGED <<next, serving, ticket>>

(* A plausible slip: a failed compare-exchange keeps the ticket anyway.     *)
TryCasLeaks(t) ==
    /\ pc[t] = "try_cas"
    /\ next < MaxTickets
    /\ next' = next + 1
    /\ ticket' = [ticket EXCEPT ![t] = cur[t]]
    /\ pc' = [pc EXCEPT ![t] = IF next = cur[t] THEN "held" ELSE "idle"]
    /\ UNCHANGED <<serving, cur>>

(* lock(): ticket = next.fetch_add(1).                                      *)
LockTake(t) == /\ pc[t] = "idle"
               /\ next < MaxTickets
               /\ ticket' = [ticket EXCEPT ![t] = next]
               /\ next' = next + 1
               /\ pc' = [pc EXCEPT ![t] = "waiting"]
               /\ UNCHANGED <<serving, cur>>

(* lock(): the poll that finds its ticket served; other polls change        *)
(* nothing.                                                                 *)
LockAdmitted(t) == /\ pc[t] = "waiting"
                   /\ serving = ticket[t]
                   /\ pc' = [pc EXCEPT ![t] = "held"]
                   /\ UNCHANGED <<next, serving, ticket, cur>>

(* try_lock(): cur = serving.load().                                        *)
TryServing(t) == /\ pc[t] = "idle"
                 /\ cur' = [cur EXCEPT ![t] = serving]
                 /\ pc' = [pc EXCEPT ![t] = "try_next"]
                 /\ UNCHANGED <<next, serving, ticket>>

(* try_lock(): nxt = next.load(); give up when it differs from cur.         *)
TryNext(t) == /\ pc[t] = "try_next"
              /\ pc' = [pc EXCEPT ![t] = IF next = cur[t] THEN "try_cas" ELSE "idle"]
              /\ UNCHANGED <<next, serving, ticket, cur>>

(* try_lock(): next.compare_exchange(nxt, nxt + 1), where nxt = cur.        *)
TryCas(t) == /\ pc[t] = "try_cas"
             /\ \/ /\ next = cur[t]
                   /\ next < MaxTickets
                   /\ next' = next + 1
                   /\ ticket' = [ticket EXCEPT ![t] = cur[t]]
                   /\ pc' = [pc EXCEPT ![t] = "held"]
                \/ /\ next # cur[t]
                   /\ pc' = [pc EXCEPT ![t] = "idle"]
                   /\ UNCHANGED <<next, ticket>>
             /\ UNCHANGED <<serving, cur>>

(* unlock(): cur = serving.load_relaxed().                                  *)
UnlockLoad(t) == /\ pc[t] = "held"
                 /\ cur' = [cur EXCEPT ![t] = serving]
                 /\ pc' = [pc EXCEPT ![t] = "unlocking"]
                 /\ UNCHANGED <<next, serving, ticket>>

(* unlock(): serving.store(cur + 1).                                        *)
UnlockStore(t) == /\ pc[t] = "unlocking"
                  /\ serving' = cur[t] + 1
                  /\ pc' = [pc EXCEPT ![t] = "idle"]
                  /\ UNCHANGED <<next, ticket, cur>>

Next == \E t \in Threads :
            \/ LockTake(t) \/ LockAdmitted(t)
            \/ TryServing(t) \/ TryNext(t) \/ TryCas(t)
            \/ UnlockLoad(t) \/ UnlockStore(t)

(* A thread that drew a ticket keeps polling and a holder leaves: the only  *)
(* steps a running CPU is assumed to take.                                  *)
Fairness == \A t \in Threads :
               /\ WF_vars(LockAdmitted(t))
               /\ WF_vars(UnlockLoad(t))
               /\ WF_vars(UnlockStore(t))

Spec == Init /\ [][Next]_vars /\ Fairness
-----------------------------------------------------------------------------
(* Type invariant.                                                          *)
TypeOK == /\ next \in Nat
          /\ serving \in Nat
          /\ pc \in [Threads -> PCs]
          /\ ticket \in [Threads -> Nat]
          /\ cur \in [Threads -> Nat]

(* The threads past admission, the unlock window included.                  *)
Holders == {t \in Threads : pc[t] \in {"held", "unlocking"}}

(* Threads that own a ticket not yet served to the end.                     *)
Ticketed == {t \in Threads : pc[t] \in {"waiting", "held", "unlocking"}}

(* At most one thread is between admission and the store that ends          *)
(* unlock(), however lock(), try_lock() and unlock() interleave.            *)
MutualExclusion == \A s, t \in Holders : s = t

(* The inductive invariant behind MutualExclusion: live tickets are         *)
(* distinct and lie between serving and next, the holder's ticket is the    *)
(* one being served, unlock()'s stale copy of serving is still current, and *)
(* try_lock()'s copy never ran ahead of serving.                            *)
TicketInv ==
    /\ TypeOK
    /\ serving <= next
    /\ \A t \in Ticketed : serving <= ticket[t] /\ ticket[t] < next
    /\ \A s, t \in Ticketed : ticket[s] = ticket[t] => s = t
    /\ \A t \in Holders : ticket[t] = serving
    /\ \A t \in Threads : pc[t] = "unlocking" => cur[t] = serving
    /\ \A t \in Threads : pc[t] \in {"try_next", "try_cas"} => cur[t] <= serving

(* The lock implements the abstract one.                                    *)
M == INSTANCE Mutex WITH holders <- Holders
ImplementsMutex == M!Spec

(* FIFO: a thread is admitted only if nobody who drew an earlier ticket is  *)
(* still waiting (`fair`, docs/MEMORY_MODEL.md).                            *)
InOrder == \A t \in Threads :
    t \notin Holders /\ t \in Holders' =>
        \A s \in Threads : pc[s] = "waiting" /\ s # t => ticket[s] > ticket'[t]
Fifo == [][InOrder]_vars

(* No starvation: every thread that draws a ticket gets the lock.           *)
NoStarvation == \A t \in Threads : pc[t] = "waiting" ~> pc[t] = "held"
=============================================================================
