----------------------------- MODULE LockProofs -----------------------------
(***************************************************************************)
(* The locks of core::sync, for every set of threads: TicketSpinLock and   *)
(* SpinLock implement the abstract Mutex, RwSpinLock with any finite set   *)
(* of readers the abstract RwLock until an update of the word is lost.     *)
(***************************************************************************)
EXTENDS TicketSpinLock, SpinLock, RwSpinLock, FiniteSetTheorems, TLAPS
-----------------------------------------------------------------------------
(* The ticket invariant is inductive: one step per atomic access of lock(), *)
(* try_lock() and unlock().                                                 *)
LEMMA TicketInvInductive == TicketInv /\ [Next]_vars => TicketInv'
<1> USE DEF TypeOK, PCs, Ticketed, Holders
<1> SUFFICES ASSUME TicketInv, [Next]_vars
             PROVE  TicketInv'
  OBVIOUS
<1>1. ASSUME NEW t \in Threads, LockTake(t)
      PROVE  TicketInv'
  BY <1>1 DEF TicketInv, LockTake
<1>2. ASSUME NEW t \in Threads, LockAdmitted(t)
      PROVE  TicketInv'
  BY <1>2 DEF TicketInv, LockAdmitted
<1>3. ASSUME NEW t \in Threads, TryServing(t)
      PROVE  TicketInv'
  BY <1>3 DEF TicketInv, TryServing
<1>4. ASSUME NEW t \in Threads, TryNext(t)
      PROVE  TicketInv'
  BY <1>4 DEF TicketInv, TryNext
<1>5. ASSUME NEW t \in Threads, TryCas(t)
      PROVE  TicketInv'
  <2>1. CASE next = cur[t]
    <3>1. serving = next
      \* cur is at most serving, serving at most next, and next = cur
      BY <1>5, <2>1 DEF TicketInv, TryCas
    <3>2. QED
      BY <1>5, <2>1, <3>1 DEF TicketInv, TryCas
  <2>2. CASE next # cur[t]
    BY <1>5, <2>2 DEF TicketInv, TryCas
  <2>3. QED
    BY <2>1, <2>2
<1>6. ASSUME NEW t \in Threads, UnlockLoad(t)
      PROVE  TicketInv'
  BY <1>6 DEF TicketInv, UnlockLoad
<1>7. ASSUME NEW t \in Threads, UnlockStore(t)
      PROVE  TicketInv'
  <2>1. /\ serving' = serving + 1
        /\ \A s \in Ticketed : s # t => serving < ticket[s]
    \* the unlocker's ticket is serving, and tickets are distinct
    BY <1>7 DEF TicketInv, UnlockStore
  <2>2. QED
    BY <1>7, <2>1 DEF TicketInv, UnlockStore
<1>8. CASE UNCHANGED vars
  BY <1>8 DEF TicketInv, vars
<1>9. QED
  BY <1>1, <1>2, <1>3, <1>4, <1>5, <1>6, <1>7, <1>8 DEF Next

(* The ticket invariant holds in every reachable state.                     *)
THEOREM TicketInvariant == Spec => []TicketInv
<1>1. Init => TicketInv
  BY DEF Init, TicketInv, TypeOK, PCs, Ticketed, Holders
<1>2. QED
  BY <1>1, TicketInvInductive, PTL DEF Spec

(* Two holders would both have the ticket being served, and tickets are     *)
(* distinct: at most one thread is past admission.                          *)
THEOREM TicketMutualExclusion == Spec => []MutualExclusion
<1>1. TicketInv => MutualExclusion
  BY DEF TicketInv, MutualExclusion, Holders, Ticketed
<1>2. QED
  BY <1>1, TicketInvariant, PTL

(* Admission is in ticket order: whoever is admitted has the ticket being   *)
(* served, below every other live ticket.                                   *)
THEOREM TicketFifo == Spec => Fifo
<1>1. TicketInv /\ [Next]_vars => [InOrder]_vars
  <2> SUFFICES ASSUME TicketInv, [Next]_vars,
                      NEW t \in Threads, t \notin Holders, t \in Holders',
                      NEW s \in Threads, pc[s] = "waiting", s # t
               PROVE  ticket[s] > ticket'[t]
    BY DEF vars, InOrder
  <2>1. LockAdmitted(t) \/ TryCas(t)
    BY DEF Holders, TicketInv, TypeOK, PCs, Next, vars, LockTake, LockAdmitted,
           TryServing, TryNext, TryCas, UnlockLoad, UnlockStore
  <2>2. CASE LockAdmitted(t)
    BY <2>2 DEF LockAdmitted, TicketInv, TypeOK, Ticketed, Holders
  <2>3. CASE TryCas(t)
    \* a successful try_lock() means the lock was free: nobody is waiting
    BY <2>3 DEF TryCas, TicketInv, TypeOK, Ticketed, Holders
  <2>4. QED
    BY <2>1, <2>2, <2>3
<1>2. QED
  BY <1>1, TicketInvariant, PTL DEF Spec, Fifo

(* TicketSpinLock implements Mutex: admission is Acquire, the store of      *)
(* unlock() is Release, every other access is a stuttering step.            *)
THEOREM TicketImplementsMutex == Spec => ImplementsMutex
<1> USE DEF Holders
<1>1. Init => M!Init
  BY DEF Init, M!Init
<1>2. TicketInv /\ TicketInv' /\ [Next]_vars => [M!Next]_Holders
  <2> SUFFICES ASSUME TicketInv, TicketInv', [Next]_vars
               PROVE  [M!Next]_Holders
    OBVIOUS
  <2> USE DEF TypeOK, PCs, Ticketed
  <2>1. \A s, u \in Holders : s = u
    BY DEF TicketInv
  <2>2. \A s, u \in Holders' : s = u
    BY DEF TicketInv
  <2>3. ASSUME NEW t \in Threads,
               LockTake(t) \/ TryServing(t) \/ TryNext(t) \/ UnlockLoad(t)
        PROVE  Holders' = Holders
    BY <2>3 DEF TicketInv, LockTake, TryServing, TryNext, UnlockLoad
  <2>4. ASSUME NEW t \in Threads, LockAdmitted(t)
        PROVE  M!Acquire(t)
    <3>1. t \in Holders' /\ \A u \in Holders : u \in Holders' /\ u # t
      BY <2>4 DEF LockAdmitted, TicketInv
    <3>2. QED
      BY <3>1, <2>2 DEF M!Acquire
  <2>5. ASSUME NEW t \in Threads, TryCas(t)
        PROVE  M!Acquire(t) \/ Holders' = Holders
    <3>1. CASE next = cur[t]
      <4>1. t \in Holders' /\ \A u \in Holders : u \in Holders' /\ u # t
        BY <2>5, <3>1 DEF TryCas, TicketInv
      <4>2. QED
        BY <4>1, <2>2 DEF M!Acquire
    <3>2. CASE next # cur[t]
      BY <2>5, <3>2 DEF TryCas, TicketInv
    <3>3. QED
      BY <3>1, <3>2
  <2>6. ASSUME NEW t \in Threads, UnlockStore(t)
        PROVE  M!Release(t)
    <3>1. t \in Holders /\ t \notin Holders' /\ \A u \in Holders' : u \in Holders
      BY <2>6 DEF UnlockStore, TicketInv
    <3>2. QED
      BY <3>1, <2>1 DEF M!Release
  <2>7. CASE UNCHANGED vars
    BY <2>7 DEF vars
  <2>8. QED
    BY <2>3, <2>4, <2>5, <2>6, <2>7 DEF Next, M!Next
<1>3. QED
  BY <1>1, <1>2, TicketInvariant, PTL DEF Spec, M!Spec, ImplementsMutex
-----------------------------------------------------------------------------
(* Every step of lock(), try_lock() and unlock() keeps the word and the     *)
(* holders in agreement.                                                    *)
LEMMA SpinInvInductive ==
    ASSUME SpinLimit \in Nat \ {0}, SpinInv, [SpinNext]_spinVars
    PROVE  SpinInv'
<1>1. ASSUME NEW t \in Threads, Lock(t)
      PROVE  SpinInv'
  BY <1>1 DEF Lock, SpinInv, SpinTypeOK, SpinHolders
<1>2. ASSUME NEW t \in Threads, TryLock(t)
      PROVE  SpinInv'
  BY <1>2 DEF TryLock, SpinInv, SpinTypeOK, SpinHolders
<1>3. ASSUME NEW t \in Threads, Spin(t)
      PROVE  SpinInv'
  <2>1. (spins[t] + 1) % SpinLimit \in 0 .. SpinLimit - 1
    BY DEF SpinInv, SpinTypeOK
  <2>2. QED
    BY <1>3, <2>1 DEF Spin, SpinInv, SpinTypeOK, SpinHolders
<1>4. ASSUME NEW t \in Threads, Unlock(t)
      PROVE  SpinInv'
  BY <1>4 DEF Unlock, SpinInv, SpinTypeOK, SpinHolders
<1>5. CASE UNCHANGED spinVars
  BY <1>5 DEF spinVars, SpinInv, SpinTypeOK, SpinHolders
<1>6. QED
  BY <1>1, <1>2, <1>3, <1>4, <1>5 DEF SpinNext

(* The word is 1 exactly while one thread is between its compare-exchange   *)
(* and the store of unlock(), for every set of threads.                     *)
THEOREM SpinInvariant == ASSUME SpinLimit \in Nat \ {0}
                         PROVE  SpinSpec => []SpinInv
<1>1. SpinInit => SpinInv
  BY DEF SpinInit, SpinInv, SpinTypeOK, SpinHolders
<1>2. SpinInv /\ [SpinNext]_spinVars => SpinInv'
  BY SpinInvInductive
<1>3. QED
  BY <1>1, <1>2, PTL DEF SpinSpec

(* SpinLock implements the abstract lock: a compare-exchange that succeeds  *)
(* acquires it when nobody has it, and only its holder's store releases it. *)
THEOREM SpinLockImplementsMutex == ASSUME SpinLimit \in Nat \ {0}
                                   PROVE  SpinSpec => SpinImplementsMutex
<1>1. SpinInit => SpinMutex!Init
  BY DEF SpinInit, SpinMutex!Init, SpinHolders
<1>2. SpinInv /\ [SpinNext]_spinVars => [SpinMutex!Next]_SpinHolders
  <2> SUFFICES ASSUME SpinInv, [SpinNext]_spinVars
               PROVE  SpinMutex!Next \/ UNCHANGED SpinHolders
    OBVIOUS
  <2>1. ASSUME NEW t \in Threads, Lock(t) \/ Spin(t)
        PROVE  UNCHANGED SpinHolders
    BY <2>1 DEF Lock, Spin, SpinInv, SpinTypeOK, SpinHolders
  <2>2. ASSUME NEW t \in Threads, TryLock(t)
        PROVE  SpinMutex!Next
    <3>1. SpinHolders = {} /\ SpinHolders' = {t}
      BY <2>2 DEF TryLock, SpinInv, SpinTypeOK, SpinHolders
    <3>2. QED
      BY <3>1 DEF SpinMutex!Next, SpinMutex!Acquire
  <2>3. ASSUME NEW t \in Threads, Unlock(t)
        PROVE  SpinMutex!Next
    <3>1. SpinHolders = {t} /\ SpinHolders' = {}
      BY <2>3 DEF Unlock, SpinInv, SpinTypeOK, SpinHolders
    <3>2. QED
      BY <3>1 DEF SpinMutex!Next, SpinMutex!Release
  <2>4. CASE UNCHANGED spinVars
    BY <2>4 DEF spinVars, SpinHolders
  <2>5. QED
    BY <2>1, <2>2, <2>3, <2>4 DEF SpinNext
<1>3. QED
  BY <1>1, <1>2, SpinInvariant, PTL DEF SpinSpec, SpinImplementsMutex, SpinMutex!Spec
-----------------------------------------------------------------------------
(* The readers inside are a finite set, counted by a natural number; one    *)
(* more or one less reader moves the count by one.                          *)
LEMMA ReadersCounted ==
    /\ IsFiniteSet(Reading) /\ Cardinality(Reading) \in Nat
    /\ Cardinality(Reading) = 0 <=> Reading = {}
    /\ \A r : r \notin Reading => Cardinality(Reading \cup {r}) = Cardinality(Reading) + 1
    /\ \A r : r \in Reading => Cardinality(Reading \ {r}) = Cardinality(Reading) - 1
<1>1. IsFiniteSet(Reading)
  BY RwAssumption, FS_Subset DEF Reading
<1>2. QED
  BY <1>1, FS_CardinalityType, FS_EmptySet, FS_AddElement, FS_RemoveElement

(* The arithmetic of the word: a count up to the flag does not wrap, on the *)
(* way up or down, and a wrapped number is a word.                          *)
LEMMA CountsWithoutWrap ==
    /\ \A n \in Nat : Wrap(n) \in Word
    /\ \A n \in 0 .. WriterFlag : n \in Word
    /\ \A n \in 0 .. WriterFlag - 1 : Wrap(n + 1) = n + 1
    /\ \A n \in 1 .. WriterFlag : Wrap(n + 2 * WriterFlag - 1) = n - 1
<1>1. WriterFlag \in Nat /\ WriterFlag > 0
  BY RwAssumption
<1>2. \A m \in Nat \ {0} : \A n \in Nat : n % m \in 0 .. m - 1
  OBVIOUS
<1>3. \A m \in Nat \ {0} : \A n \in 0 .. m - 1 : n % m = n /\ (n + m) % m = n
  OBVIOUS
<1>4. 2 * WriterFlag \in Nat \ {0}
  BY <1>1
<1>5. \A n \in Nat : Wrap(n) \in Word
  BY <1>2, <1>4 DEF Wrap, Word
<1>6. \A n \in 0 .. WriterFlag : n \in Word
  BY <1>1 DEF Word
<1>7. ASSUME NEW n \in 0 .. WriterFlag - 1
      PROVE  Wrap(n + 1) = n + 1
  <2>1. n + 1 \in 0 .. 2 * WriterFlag - 1
    BY <1>1
  <2>2. QED
    BY <1>3, <1>4, <2>1 DEF Wrap
<1>8. ASSUME NEW n \in 1 .. WriterFlag
      PROVE  Wrap(n + 2 * WriterFlag - 1) = n - 1
  <2>1. n - 1 \in 0 .. 2 * WriterFlag - 1 /\ n + 2 * WriterFlag - 1 = (n - 1) + 2 * WriterFlag
    BY <1>1
  <2>2. QED
    BY <1>3, <1>4, <2>1 DEF Wrap
<1>9. QED
  BY <1>5, <1>6, <1>7, <1>8

(* What the two sets of threads inside become in each step that moves a     *)
(* thread.                                                                  *)
LEMMA InsideAfterRead ==
    ASSUME RwInv, NEW r \in Readers
    PROVE  /\ ReadCall(r) \/ ReadLoad(r) \/ ReadUnlockLoad(r)
                => UNCHANGED <<Reading, Writing>>
           /\ ReadCas(r) /\ rwState # rwCur[r] => UNCHANGED <<Reading, Writing>>
           /\ ReadCas(r) /\ rwState = rwCur[r]
                => r \notin Reading /\ Reading' = Reading \cup {r} /\ UNCHANGED Writing
           /\ ReadUnlockStore(r)
                => r \in Reading /\ Reading' = Reading \ {r} /\ UNCHANGED Writing
<1> USE DEF RwInv, Callers, RwPCs, Reading, Writing
<1>0. \A w \in Writers : w # r
  BY RwAssumption
<1>1. ReadCall(r) => UNCHANGED <<Reading, Writing>>
  BY <1>0 DEF ReadCall
<1>2. ReadLoad(r) => UNCHANGED <<Reading, Writing>>
  BY <1>0 DEF ReadLoad, Refused
<1>3. ReadUnlockLoad(r) => UNCHANGED <<Reading, Writing>>
  BY <1>0 DEF ReadUnlockLoad
<1>4. ReadCas(r) /\ rwState # rwCur[r] => UNCHANGED <<Reading, Writing>>
  BY <1>0 DEF ReadCas, Refused
<1>5. ReadCas(r) /\ rwState = rwCur[r]
        => r \notin Reading /\ Reading' = Reading \cup {r} /\ UNCHANGED Writing
  BY <1>0 DEF ReadCas
<1>6. ReadUnlockStore(r) => r \in Reading /\ Reading' = Reading \ {r} /\ UNCHANGED Writing
  BY <1>0 DEF ReadUnlockStore
<1>7. QED
  BY <1>1, <1>2, <1>3, <1>4, <1>5, <1>6

LEMMA InsideAfterWrite ==
    ASSUME RwInv, NEW w \in Writers
    PROVE  /\ WriteCall(w) => UNCHANGED <<Reading, Writing>>
           /\ WriteCas(w) => Writing' = Writing \cup {w} /\ UNCHANGED Reading
           /\ WriteUnlock(w) => w \in Writing /\ Writing' = Writing \ {w} /\ UNCHANGED Reading
<1> USE DEF RwInv, Callers, RwPCs, Reading, Writing
<1>0. \A r \in Readers : w # r
  BY RwAssumption
<1>1. WriteCall(w) => UNCHANGED <<Reading, Writing>>
  BY <1>0 DEF WriteCall
<1>2. WriteCas(w) => Writing' = Writing \cup {w} /\ UNCHANGED Reading
  BY <1>0 DEF WriteCas
<1>3. WriteUnlock(w) => w \in Writing /\ Writing' = Writing \ {w} /\ UNCHANGED Reading
  BY <1>0 DEF WriteUnlock
<1>4. QED
  BY <1>1, <1>2, <1>3

(* The conjuncts of RwInv but the last, which relate no two threads.        *)
RwTyped == /\ rwState \in Word
           /\ rwPc \in [Callers -> RwPCs]
           /\ rwCur \in [Callers -> Word]
           /\ blocking \in [Callers -> BOOLEAN]
           /\ lost \in BOOLEAN
           /\ \A r \in Readers : /\ rwPc[r] \notin {"write_locking", "writing"}
                                 /\ rwPc[r] = "read_cas" => rwCur[r] < WriterFlag
           /\ \A w \in Writers : rwPc[w] \in {"idle", "write_locking", "writing"}

(* The last conjunct: the word is right until an update is lost.            *)
WordCounts == /\ ExclusiveWriter
              /\ rwState = IF Writing # {} THEN WriterFlag ELSE Cardinality(Reading)
              /\ rwState <= WriterFlag

LEMMA RwInvParts == RwInv <=> RwTyped /\ (~lost => WordCounts)
BY DEF RwInv, RwTyped, WordCounts

LEMMA ReaderKeepsTypes ==
    ASSUME RwTyped, NEW r \in Readers,
           ReadCall(r) \/ ReadLoad(r) \/ ReadCas(r) \/ ReadUnlockLoad(r) \/ ReadUnlockStore(r)
    PROVE  RwTyped'
<1> USE RwAssumption DEF RwTyped, Callers, RwPCs
<1>1. CASE ReadCall(r)
  BY <1>1 DEF ReadCall
<1>2. CASE ReadLoad(r)
  <2>1. \A n \in Word : ~(n >= WriterFlag) => n < WriterFlag
    BY DEF Word
  <2>2. QED
    BY <1>2, <2>1 DEF ReadLoad, Refused
<1>3. CASE ReadCas(r)
  <2>1. Wrap(rwCur[r] + 1) \in Word
    BY CountsWithoutWrap DEF Word
  <2>2. QED
    BY <1>3, <2>1 DEF ReadCas, Refused
<1>4. CASE ReadUnlockLoad(r)
  BY <1>4 DEF ReadUnlockLoad
<1>5. CASE ReadUnlockStore(r)
  <2>1. Wrap(rwCur[r] + 2 * WriterFlag - 1) \in Word
    BY CountsWithoutWrap DEF Word
  <2>2. lost' \in BOOLEAN
    BY <1>5 DEF ReadUnlockStore, RecordLoss
  <2>3. QED
    BY <1>5, <2>1, <2>2 DEF ReadUnlockStore
<1>6. QED
  BY <1>1, <1>2, <1>3, <1>4, <1>5

LEMMA WriterKeepsTypes ==
    ASSUME RwTyped, NEW w \in Writers, WriteCall(w) \/ WriteCas(w) \/ WriteUnlock(w)
    PROVE  RwTyped'
<1> USE RwAssumption DEF RwTyped, Callers, RwPCs
<1>1. CASE WriteCall(w)
  BY <1>1 DEF WriteCall
<1>2. CASE WriteCas(w)
  BY <1>2, CountsWithoutWrap DEF WriteCas
<1>3. CASE WriteUnlock(w)
  BY <1>3, CountsWithoutWrap DEF WriteUnlock
<1>4. QED
  BY <1>1, <1>2, <1>3

(* A reader's step that loses no update keeps the count.  A successful      *)
(* compare-exchange proves that no writer is in, for the copy is below the  *)
(* flag; the store of read_unlock() is right because the word still is the  *)
(* copy, even if others came and went in between.                           *)
LEMMA ReaderKeepsCount ==
    ASSUME RwInv, ~lost', NEW r \in Readers,
           ReadCall(r) \/ ReadLoad(r) \/ ReadCas(r) \/ ReadUnlockLoad(r) \/ ReadUnlockStore(r)
    PROVE  WordCounts'
<1>0. ~lost /\ WordCounts
  <2>1. lost => lost'
    <3>1. CASE ReadUnlockStore(r)
      BY <3>1, Zenon DEF ReadUnlockStore, RecordLoss
    <3>2. CASE ~ReadUnlockStore(r)
      BY <3>2, Zenon DEF ReadCall, ReadLoad, ReadCas, ReadUnlockLoad
    <3>3. QED
      BY <3>1, <3>2
  <2>2. QED
    BY <2>1, RwInvParts
<1>1. CASE ReadCall(r) \/ ReadLoad(r) \/ ReadUnlockLoad(r)
  <2>1. UNCHANGED <<Reading, Writing>>
    BY <1>1, InsideAfterRead
  <2>2. UNCHANGED rwState
    BY <1>1 DEF ReadCall, ReadLoad, ReadUnlockLoad
  <2>3. QED
    BY <1>0, <2>1, <2>2 DEF WordCounts, ExclusiveWriter
<1>2. CASE ReadCas(r) /\ rwState # rwCur[r]
  <2>1. UNCHANGED <<Reading, Writing>> /\ UNCHANGED rwState
    BY <1>2, InsideAfterRead DEF ReadCas
  <2>2. QED
    BY <1>0, <2>1 DEF WordCounts, ExclusiveWriter
<1>3. CASE ReadCas(r) /\ rwState = rwCur[r]
  <2>1. rwState < WriterFlag /\ rwState' = Wrap(rwState + 1)
    BY <1>3 DEF ReadCas, RwInv
  <2>2. Writing = {} /\ rwState = Cardinality(Reading)
    BY <1>0, <2>1, RwAssumption DEF WordCounts
  <2>3. r \notin Reading /\ Reading' = Reading \cup {r} /\ Writing' = {}
    BY <1>3, <2>2, InsideAfterRead
  <2>4. Cardinality(Reading') = rwState + 1
    BY <2>2, <2>3, ReadersCounted
  <2>5. rwState \in 0 .. WriterFlag - 1
    BY <2>1, <2>2, ReadersCounted, RwAssumption
  <2>6. rwState' = rwState + 1 /\ rwState + 1 <= WriterFlag
    BY <2>1, <2>5, CountsWithoutWrap, RwAssumption
  <2>7. QED
    BY <2>3, <2>4, <2>6 DEF WordCounts, ExclusiveWriter
<1>4. CASE ReadUnlockStore(r)
  <2>1. rwState' = Wrap(rwState + 2 * WriterFlag - 1)
    BY <1>4 DEF ReadUnlockStore, RecordLoss
  <2>2. r \in Reading /\ Reading' = Reading \ {r} /\ Writing' = Writing
    BY <1>4, InsideAfterRead
  <2>3. Writing = {} /\ rwState = Cardinality(Reading)
    BY <1>0, <2>2 DEF WordCounts, ExclusiveWriter
  <2>4. rwState \in 1 .. WriterFlag
    BY <1>0, <2>2, <2>3, ReadersCounted, RwAssumption DEF WordCounts
  <2>5. rwState' = rwState - 1 /\ rwState - 1 <= WriterFlag
    BY <2>1, <2>4, CountsWithoutWrap, RwAssumption
  <2>6. Cardinality(Reading') = rwState - 1
    BY <2>2, <2>3, ReadersCounted
  <2>7. QED
    BY <2>2, <2>3, <2>5, <2>6 DEF WordCounts, ExclusiveWriter
<1>5. QED
  BY <1>1, <1>2, <1>3, <1>4

(* A writer enters an empty lock, and alone: the word is 0.  Its store of 0 *)
(* is right because nobody else is in.                                      *)
LEMMA WriterKeepsCount ==
    ASSUME RwInv, ~lost', NEW w \in Writers, WriteCall(w) \/ WriteCas(w) \/ WriteUnlock(w)
    PROVE  WordCounts'
<1>0. ~lost /\ WordCounts
  BY RwInvParts DEF WriteCall, WriteCas, WriteUnlock
<1>1. CASE WriteCall(w)
  <2>1. UNCHANGED <<Reading, Writing>> /\ UNCHANGED rwState
    BY <1>1, InsideAfterWrite DEF WriteCall
  <2>2. QED
    BY <1>0, <2>1 DEF WordCounts, ExclusiveWriter
<1>2. CASE WriteCas(w)
  <2>1. Writing = {} /\ Reading = {}
    BY <1>0, <1>2, ReadersCounted, RwAssumption DEF WordCounts, WriteCas
  <2>2. Writing' = {w} /\ Reading' = {} /\ rwState' = WriterFlag
    BY <1>2, <2>1, InsideAfterWrite DEF WriteCas
  <2>3. QED
    BY <2>2, RwAssumption DEF WordCounts, ExclusiveWriter
<1>3. CASE WriteUnlock(w)
  <2>1. Writing = {w} /\ Reading = {}
    BY <1>0, <1>3, InsideAfterWrite DEF WordCounts, ExclusiveWriter, Writing
  <2>2. Writing' = {} /\ Reading' = {} /\ rwState' = 0
    BY <1>3, <2>1, InsideAfterWrite DEF WriteUnlock
  <2>3. QED
    BY <2>2, FS_EmptySet, RwAssumption DEF WordCounts, ExclusiveWriter
<1>4. QED
  BY <1>1, <1>2, <1>3

(* For every finite set of readers, whatever their number, and every set of *)
(* writers: until a read_unlock() loses an update, the word is the number   *)
(* of readers inside, or the flag while one writer is inside, alone.        *)
THEOREM RwInvariant == RwSpec => []RwInv
<1>1. RwInit => RwInv
  <2> SUFFICES ASSUME RwInit
               PROVE  RwInv
    OBVIOUS
  <2>1. Reading = {} /\ Writing = {}
    BY DEF RwInit, Reading, Writing, Callers
  <2>2. 0 \in Word
    BY RwAssumption, CountsWithoutWrap
  <2>3. RwTyped
    BY <2>2 DEF RwInit, RwTyped, Callers, RwPCs
  <2>4. WordCounts
    BY <2>1, FS_EmptySet, RwAssumption DEF RwInit, WordCounts, ExclusiveWriter
  <2>5. QED
    BY <2>3, <2>4, RwInvParts
<1>2. RwInv /\ [RwNext]_rwVars => RwInv'
  <2> SUFFICES ASSUME RwInv, [RwNext]_rwVars
               PROVE  RwInv'
    OBVIOUS
  <2>1. CASE UNCHANGED rwVars
    BY <2>1 DEF rwVars, RwInv, Reading, Writing, ExclusiveWriter
  <2>2. CASE RwNext
    <3>1. RwTyped'
      BY <2>2, RwInvParts, ReaderKeepsTypes, WriterKeepsTypes DEF RwNext
    <3>2. ~lost' => WordCounts'
      BY <2>2, ReaderKeepsCount, WriterKeepsCount DEF RwNext
    <3>3. QED
      BY <3>1, <3>2 DEF RwInv, RwTyped, WordCounts
  <2>3. QED
    BY <2>1, <2>2
<1>3. QED
  BY <1>1, <1>2, PTL DEF RwSpec

(* RwSpinLock implements the abstract reader-writer lock up to the first    *)
(* lost update, for every finite set of readers and every set of writers: a *)
(* writer is let in only when nobody is inside, a reader only when no       *)
(* writer is, however many readers enter and leave together.                *)
THEOREM RwLockImplemented == RwSpec => ImplementsRwLock
<1>1. RwInit => A!Init
  BY DEF RwInit, A!Init, Reading, Writing, Callers
<1>2. RwInv /\ [RwNext]_rwVars => [lost \/ A!Next]_<<Reading, Writing>>
  <2> SUFFICES ASSUME RwInv, [RwNext]_rwVars, ~lost
               PROVE  A!Next \/ UNCHANGED <<Reading, Writing>>
    OBVIOUS
  <2>0. WordCounts
    BY RwInvParts
  <2>1. ASSUME NEW r \in Readers, ReadCall(r) \/ ReadLoad(r) \/ ReadUnlockLoad(r)
        PROVE  UNCHANGED <<Reading, Writing>>
    BY <2>1, InsideAfterRead
  <2>2. ASSUME NEW r \in Readers, ReadCas(r)
        PROVE  A!ReadLock(r) \/ UNCHANGED <<Reading, Writing>>
    <3>1. CASE rwState = rwCur[r]
      <4>1. Writing = {}
        BY <2>0, <2>2, <3>1, RwAssumption DEF ReadCas, RwInv, WordCounts
      <4>2. QED
        BY <2>2, <3>1, <4>1, InsideAfterRead DEF A!ReadLock
    <3>2. QED
      BY <2>2, <3>1, InsideAfterRead
  <2>3. ASSUME NEW r \in Readers, ReadUnlockStore(r)
        PROVE  A!ReadUnlock(r)
    BY <2>3, InsideAfterRead DEF A!ReadUnlock
  <2>4. ASSUME NEW w \in Writers, WriteCall(w)
        PROVE  UNCHANGED <<Reading, Writing>>
    BY <2>4, InsideAfterWrite
  <2>5. ASSUME NEW w \in Writers, WriteCas(w)
        PROVE  A!WriteLock(w)
    <3>1. Writing = {} /\ Reading = {}
      BY <2>0, <2>5, ReadersCounted, RwAssumption DEF WordCounts, WriteCas
    <3>2. QED
      BY <2>5, <3>1, InsideAfterWrite DEF A!WriteLock
  <2>6. ASSUME NEW w \in Writers, WriteUnlock(w)
        PROVE  A!WriteUnlock(w)
    <3>1. Writing = {w}
      BY <2>0, <2>6, InsideAfterWrite DEF WordCounts, ExclusiveWriter
    <3>2. QED
      BY <2>6, <3>1, InsideAfterWrite DEF A!WriteUnlock
  <2>7. CASE UNCHANGED rwVars
    BY <2>7 DEF rwVars, Reading, Writing
  <2>8. QED
    BY <2>1, <2>2, <2>3, <2>4, <2>5, <2>6, <2>7 DEF RwNext, A!Next
<1>3. QED
  BY <1>1, <1>2, RwInvariant, PTL DEF RwSpec, ImplementsRwLock
=============================================================================
