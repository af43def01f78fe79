----------------------------- MODULE RwSpinLock -----------------------------
(***************************************************************************)
(* core::sync RwSpinLock (stdlib/core/sync.ux): one AtomicU32 word, the    *)
(* reader count below WriterFlag and the flag itself for a writer.  A      *)
(* reader enters by load and compare-exchange and leaves by load and       *)
(* store; a writer enters by compare-exchange of 0 and leaves by storing   *)
(* 0.  Each atomic access is one step.                                     *)
(***************************************************************************)
EXTENDS Naturals, FiniteSets

CONSTANTS Readers, Writers,   \* the threads that call read_* and write_*
          WriterFlag          \* 2147483648 in the code

ASSUME RwAssumption == /\ WriterFlag \in Nat \ {0}
                       /\ IsFiniteSet(Readers)
                       /\ Readers \cap Writers = {}

Callers == Readers \cup Writers

(* The word wraps at twice the flag: it is a u32 and the flag is bit 31.    *)
Word == 0 .. 2 * WriterFlag - 1
Wrap(n) == n % (2 * WriterFlag)

VARIABLES rwState,     \* the lock word
          rwPc,
          rwCur,       \* local `cur` of try_read() and read_unlock()
          blocking,    \* TRUE inside read_lock(), FALSE inside a bare try_read()
          lost         \* history: some read_unlock() stored over a word that had
                       \* changed since its load; no step of the lock reads it

rwVars == <<rwState, rwPc, rwCur, blocking, lost>>

RwPCs == {"idle", "read_load", "read_cas", "reading", "read_unlocking",
        "write_locking", "writing"}

RwInit == /\ rwState = 0
          /\ rwPc = [t \in Callers |-> "idle"]
          /\ rwCur = [t \in Callers |-> 0]
          /\ blocking = [t \in Callers |-> FALSE]
          /\ lost = FALSE

(* The store of read_unlock() writes over an update that came after its     *)
(* load when the word no longer is the copy.                                *)
RecordLoss(t) == lost' = (lost \/ rwState # rwCur[t])

(* A plausible slip: try_read() drops the test of the writer flag.          *)
ReadLoadUnchecked(t) ==
    /\ rwPc[t] = "read_load"
    /\ rwCur' = [rwCur EXCEPT ![t] = rwState]
    /\ rwPc' = [rwPc EXCEPT ![t] = "read_cas"]
    /\ UNCHANGED <<rwState, blocking, lost>>

(* A plausible slip: read_unlock() stores the count it loaded.              *)
ReadUnlockStoreSame(t) ==
    /\ rwPc[t] = "read_unlocking"
    /\ rwState' = rwCur[t]
    /\ RecordLoss(t)
    /\ rwPc' = [rwPc EXCEPT ![t] = "idle"]
    /\ UNCHANGED <<rwCur, blocking>>

(* read_lock() or try_read() is called.                                     *)
ReadCall(t) == /\ rwPc[t] = "idle"
               /\ \E b \in BOOLEAN : blocking' = [blocking EXCEPT ![t] = b]
               /\ rwPc' = [rwPc EXCEPT ![t] = "read_load"]
               /\ UNCHANGED <<rwState, rwCur, lost>>

(* After a refusal read_lock() goes round its loop, try_read() returns.     *)
Refused(t) == IF blocking[t] THEN "read_load" ELSE "idle"

(* try_read(): cur = state.load_relaxed(); refuse when a writer is in.      *)
ReadLoad(t) == /\ rwPc[t] = "read_load"
               /\ rwCur' = [rwCur EXCEPT ![t] = rwState]
               /\ rwPc' = [rwPc EXCEPT ![t] = IF rwState >= WriterFlag THEN Refused(t)
                                                                  ELSE "read_cas"]
               /\ UNCHANGED <<rwState, blocking, lost>>

(* try_read(): state.compare_exchange(cur, cur + 1).                        *)
ReadCas(t) == /\ rwPc[t] = "read_cas"
              /\ \/ /\ rwState = rwCur[t]
                    /\ rwState' = Wrap(rwCur[t] + 1)
                    /\ rwPc' = [rwPc EXCEPT ![t] = "reading"]
                 \/ /\ rwState # rwCur[t]
                    /\ rwPc' = [rwPc EXCEPT ![t] = Refused(t)]
                    /\ UNCHANGED rwState
              /\ UNCHANGED <<rwCur, blocking, lost>>

(* read_unlock(): cur = state.load_relaxed().                               *)
ReadUnlockLoad(t) == /\ rwPc[t] = "reading"
                     /\ rwCur' = [rwCur EXCEPT ![t] = rwState]
                     /\ rwPc' = [rwPc EXCEPT ![t] = "read_unlocking"]
                     /\ UNCHANGED <<rwState, blocking, lost>>

(* read_unlock(): state.store(cur - 1), on a u32.                           *)
ReadUnlockStore(t) == /\ rwPc[t] = "read_unlocking"
                      /\ rwState' = Wrap(rwCur[t] + 2 * WriterFlag - 1)
                      /\ RecordLoss(t)
                      /\ rwPc' = [rwPc EXCEPT ![t] = "idle"]
                      /\ UNCHANGED <<rwCur, blocking>>

(* write_lock() is called; it loops until the compare-exchange succeeds.    *)
WriteCall(t) == /\ rwPc[t] = "idle"
                /\ rwPc' = [rwPc EXCEPT ![t] = "write_locking"]
                /\ UNCHANGED <<rwState, rwCur, blocking, lost>>

(* state.compare_exchange(0, WriterFlag) succeeds, in write_lock() or in a  *)
(* bare try_write(); a failure changes nothing.                             *)
WriteCas(t) == /\ rwPc[t] \in {"idle", "write_locking"}
               /\ rwState = 0
               /\ rwState' = WriterFlag
               /\ rwPc' = [rwPc EXCEPT ![t] = "writing"]
               /\ UNCHANGED <<rwCur, blocking, lost>>

(* write_unlock(): state.store(0).                                          *)
WriteUnlock(t) == /\ rwPc[t] = "writing"
                  /\ rwState' = 0
                  /\ rwPc' = [rwPc EXCEPT ![t] = "idle"]
                  /\ UNCHANGED <<rwCur, blocking, lost>>

RwNext == \/ \E r \in Readers : \/ ReadCall(r) \/ ReadLoad(r) \/ ReadCas(r)
                                \/ ReadUnlockLoad(r) \/ ReadUnlockStore(r)
          \/ \E w \in Writers : WriteCall(w) \/ WriteCas(w) \/ WriteUnlock(w)

(* A CPU inside the lock's code keeps running, and whoever is inside the    *)
(* lock leaves it.                                                          *)
RwFairness == /\ \A r \in Readers : /\ WF_rwVars(ReadLoad(r) \/ ReadCas(r))
                                    /\ WF_rwVars(ReadUnlockLoad(r) \/ ReadUnlockStore(r))
              /\ \A w \in Writers : /\ WF_rwVars(rwPc[w] = "write_locking" /\ WriteCas(w))
                                    /\ WF_rwVars(WriteUnlock(w))

RwSpec == RwInit /\ [][RwNext]_rwVars /\ RwFairness
-----------------------------------------------------------------------------
Reading == {r \in Readers : rwPc[r] \in {"reading", "read_unlocking"}}
Writing == {w \in Writers : rwPc[w] = "writing"}

(* "exclusive writer": a writer inside the lock is alone.                   *)
ExclusiveWriter == Writing # {} => Reading = {} /\ \A v, w \in Writing : v = w

(* The inductive invariant, for any number of readers: as long as no        *)
(* read_unlock() has lost an update, the word is the number of readers, or  *)
(* the flag and nothing else while a writer is in.  It says nothing of the  *)
(* word once an update is lost.                                             *)
RwInv ==
    /\ rwState \in Word
    /\ rwPc \in [Callers -> RwPCs]
    /\ rwCur \in [Callers -> Word]
    /\ blocking \in [Callers -> BOOLEAN]
    /\ lost \in BOOLEAN
    /\ \A r \in Readers : /\ rwPc[r] \notin {"write_locking", "writing"}
                          /\ rwPc[r] = "read_cas" => rwCur[r] < WriterFlag
    /\ \A w \in Writers : rwPc[w] \in {"idle", "write_locking", "writing"}
    /\ ~lost => /\ ExclusiveWriter
                /\ rwState = IF Writing # {} THEN WriterFlag ELSE Cardinality(Reading)
                /\ rwState <= WriterFlag

(* RwSpinLock implements the abstract reader-writer lock, readers coming    *)
(* and going together and in any interleaving with the writers, up to the   *)
(* first read_unlock() whose store (sync.ux 89) overwrites what another     *)
(* reader did to the word after its load (sync.ux 88).  From there on the   *)
(* code promises nothing: RwSpinLockReaders checks ExclusiveWriter without  *)
(* the exemption and finds a writer beside a reader.                        *)
A == INSTANCE RwLock WITH reading <- Reading, writing <- Writing
ImplementsRwLock == A!Init /\ [][lost \/ A!Next]_<<Reading, Writing>>

(* A writer that waits in write_lock() finds the lock in use later on: it   *)
(* never spins forever on a lock that everybody has left.  Only a lost      *)
(* update excuses the code: a reader's increment of the word that another   *)
(* reader's read_unlock() overwrites, or a decrement it undoes, can leave   *)
(* the writers spinning on an empty lock whose word is not 0.               *)
WritersNotWedged ==
    (\E w \in Writers : rwPc[w] = "write_locking") ~> (Writing # {} \/ Reading # {} \/ lost)
=============================================================================
