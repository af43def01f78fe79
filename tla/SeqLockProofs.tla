--------------------------- MODULE SeqLockProofs ---------------------------
(***************************************************************************)
(* What read_retry() accepts, for any number of readers, words and         *)
(* critical sections: on an ordered target one section's value, on every   *)
(* target nothing older than the stamp.                                    *)
(***************************************************************************)
EXTENDS SeqLock, TLAPS

(* Halving a sequence number.                                               *)
LEMMA Half ==
    ASSUME NEW n \in Nat
    PROVE  /\ n \div 2 \in Nat
           /\ n % 2 \in {0, 1}
           /\ n % 2 = 0 => 2 * (n \div 2) = n /\ (n + 1) % 2 = 1
           /\ n % 2 = 1 => /\ n >= 1
                           /\ (n - 1) \div 2 \in Nat
                           /\ 2 * ((n - 1) \div 2) = n - 1
                           /\ (n + 1) % 2 = 0
  OBVIOUS

(* The number of the section in progress, doubled, is the even sequence     *)
(* number at its end.                                                       *)
LEMMA SectionEnd ==
    ASSUME TypeOK, WriterInv, wpc = "inside"
    PROVE  /\ Section \in Nat \ {0}
           /\ late => 2 * Section = seq + 2
           /\ ~late => 2 * Section = seq + 1
<1>1. seq \in Nat
  BY SeqLockAssumption DEF TypeOK
<1>2. CASE late
  BY <1>1, <1>2, Half DEF WriterInv, Section
<1>3. CASE ~late
  BY <1>1, <1>3, Half DEF WriterInv, Section
<1>4. QED
  BY <1>2, <1>3

(* The words are never older than the sequence word.                        *)
LEMMA DataCurrent ==
    ASSUME TypeOK, WriterInv, NEW w \in Words
    PROVE  /\ data[w] \in Nat
           /\ 2 * data[w] >= (IF seq % 2 = 0 THEN seq ELSE seq - 1)
           /\ ordered /\ seq % 2 = 0 => 2 * data[w] = seq
<1>1. CASE wpc = "inside"
  BY <1>1, SectionEnd, SeqLockAssumption DEF TypeOK, WriterInv
<1>2. CASE wpc = "outside"
  BY <1>2, SeqLockAssumption DEF TypeOK, WriterInv
<1>3. QED
  BY <1>1, <1>2 DEF TypeOK

(* The mark of "not loaded yet" is no sequence number.                      *)
LEMMA NotYetIsNot == /\ NotYet \in 0 .. NotYet
                     /\ \A n \in 0 .. 2 * MaxWrites : n \in 0 .. NotYet /\ n # NotYet
  BY SeqLockAssumption DEF NotYet

(* A step of a reader leaves the writer's part alone.                       *)
LEMMA WriterInvStable ==
    ASSUME WriterInv, UNCHANGED <<seq, writerVars>>
    PROVE  WriterInv'
<1>1. UNCHANGED <<seq, ordered, late, data, wpc, stored>>
  BY DEF writerVars
<1>2. Section' = Section
  BY <1>1 DEF Section
<1>3. QED
  BY <1>1, <1>2 DEF WriterInv

(* Every step keeps the invariant.                                          *)
LEMMA SeqInvInductive == SeqInv /\ [Next]_vars => SeqInv'
<1> SUFFICES ASSUME SeqInv, [Next]_vars
             PROVE  SeqInv'
  OBVIOUS
<1> USE SeqLockAssumption DEF writerVars, readerVars
<1>t. TypeOK /\ WriterInv /\ ReaderInv /\ (ordered => OrderedInv)
  BY DEF SeqInv
<1>s. seq \in Nat
  BY <1>t DEF TypeOK
<1>1. CASE WriteBegin
  <2> USE DEF WriteBegin
  <2>1. seq' \in 0 .. 2 * MaxWrites /\ seq' >= seq /\ late' \in BOOLEAN
    <3>1. CASE ordered
      <4>1. seq' = seq + 1 /\ late' = FALSE /\ seq < 2 * MaxWrites
        BY <1>1, <3>1
      <4>2. seq' \in 0 .. 2 * MaxWrites /\ seq' >= seq
        BY <1>s, <4>1
      <4>3. QED
        BY <4>1, <4>2
    <3>2. CASE ~ordered
      BY <1>1, <1>s, <3>2
    <3>3. QED
      BY <3>1, <3>2
  <2>2. TypeOK'
    BY <1>1, <1>t, <2>1 DEF TypeOK
  <2>3. seq % 2 = 0 /\ 2 * (seq \div 2) = seq /\ seq \div 2 \in Nat
    BY <1>1, <1>t, <1>s, Half DEF WriterInv
  <2>4. Section' = seq \div 2 + 1
    BY <1>1, <1>s DEF Section
  <2>5. \A w \in Words : data'[w] = Section' - 1
    <3>1. SUFFICES ASSUME NEW w \in Words
                   PROVE  data'[w] = Section' - 1
      OBVIOUS
    <3>2. data[w] \in Nat /\ 2 * data[w] = seq
      BY <1>1, <1>t DEF TypeOK, WriterInv
    <3>3. QED
      BY <1>1, <2>3, <2>4, <3>2
  <2>6. seq' % 2 = (IF wpc' = "inside" /\ ~late' THEN 1 ELSE 0)
    BY <1>1, <1>s, <2>3, Half
  <2>7. late' => wpc' = "inside" /\ ~ordered' /\ seq' < 2 * MaxWrites
    BY <1>1
  <2>8. WriterInv'
    BY <1>1, <2>5, <2>6, <2>7 DEF WriterInv
  <2>9. ReaderInv'
    BY <1>1, <1>t, <1>s, <2>1 DEF TypeOK, ReaderInv
  <2>10. ordered' => OrderedInv'
    BY <1>1, <1>t, <1>s, <2>1 DEF TypeOK, ReaderInv, OrderedInv, NoTornRead
  <2>11. QED
    BY <2>2, <2>8, <2>9, <2>10 DEF SeqInv
<1>2. CASE Surface
  <2> USE DEF Surface
  <2>1. wpc = "inside" /\ ~ordered /\ seq < 2 * MaxWrites /\ seq % 2 = 0
    BY <1>2, <1>t DEF WriterInv
  <2>2. seq' \in 0 .. 2 * MaxWrites
    BY <1>2, <1>s, <2>1
  <2>3. TypeOK'
    BY <1>2, <1>t, <2>2 DEF TypeOK
  <2>4. Section' = Section
    BY <1>2, <1>s DEF Section
  <2>5. seq' % 2 = 1
    BY <1>2, <1>s, <2>1, Half
  <2>6. WriterInv'
    BY <1>2, <1>t, <2>1, <2>4, <2>5 DEF WriterInv
  <2>7. ReaderInv'
    BY <1>2, <1>t, <1>s DEF TypeOK, ReaderInv
  <2>8. ordered' => OrderedInv'
    BY <1>2, <2>1
  <2>9. QED
    BY <2>3, <2>6, <2>7, <2>8 DEF SeqInv
<1>3. CASE WriteEnd
  <2> USE DEF WriteEnd
  <2>1. seq % 2 = 1 /\ seq' % 2 = 0
    BY <1>3, <1>t, <1>s, Half DEF WriterInv
  <2>2. seq' \in 0 .. 2 * MaxWrites
    <3>1. seq <= 2 * MaxWrites
      BY <1>t DEF TypeOK
    <3>2. seq # 2 * MaxWrites
      BY <2>1
    <3>3. QED
      BY <1>3, <1>s, <3>1, <3>2
  <2>3. TypeOK'
    BY <1>3, <1>t, <2>2 DEF TypeOK
  <2>4. Section \in Nat /\ 2 * Section = seq'
    BY <1>3, <1>t, SectionEnd
  <2>5. \A w \in Words : 2 * data'[w] = seq'
    BY <1>3, <1>t, <2>4 DEF WriterInv
  <2>6. WriterInv'
    BY <1>3, <2>1, <2>5 DEF WriterInv
  <2>7. ReaderInv'
    BY <1>3, <1>t, <1>s DEF TypeOK, ReaderInv
  <2>8. ordered' => OrderedInv'
    BY <1>3, <1>t, <1>s DEF TypeOK, ReaderInv, OrderedInv, NoTornRead
  <2>9. QED
    BY <2>3, <2>6, <2>7, <2>8 DEF SeqInv
<1>4. ASSUME NEW w \in Words, StoreWord(w)
      PROVE  SeqInv'
  <2>1. Section \in Nat /\ Section' = Section
    BY <1>4, <1>t, SectionEnd DEF StoreWord, Section
  <2>2. TypeOK'
    BY <1>4, <1>t, <2>1 DEF StoreWord, TypeOK
  <2>3. WriterInv'
    BY <1>4, <1>t, <2>1 DEF StoreWord, TypeOK, WriterInv
  <2>4. ReaderInv'
    BY <1>4, <1>t DEF StoreWord, TypeOK, ReaderInv
  <2>5. ordered' => OrderedInv'
    BY <1>4, <1>t DEF StoreWord, TypeOK, OrderedInv, NoTornRead
  <2>6. QED
    BY <2>2, <2>3, <2>4, <2>5 DEF SeqInv
<1>5. ASSUME NEW r \in Readers, ReadBegin(r)
      PROVE  SeqInv'
  <2>1. TypeOK'
    BY <1>5, <1>t, NotYetIsNot DEF ReadBegin, TypeOK
  <2>2. WriterInv'
    BY <1>5, <1>t, WriterInvStable DEF ReadBegin
  <2>3. ReaderInv'
    BY <1>5, <1>t DEF ReadBegin, TypeOK, ReaderInv
  <2>4. ordered' => OrderedInv'
    BY <1>5, <1>t DEF ReadBegin, TypeOK, OrderedInv, NoTornRead
  <2>5. QED
    BY <2>1, <2>2, <2>3, <2>4 DEF SeqInv
<1>6. ASSUME NEW r \in Readers, NEW w \in Words, LoadWord(r, w)
      PROVE  SeqInv'
  <2>1. data[w] \in Nat /\ stamp[r] <= 2 * data[w]
    <3>1. stamp[r] \in Nat /\ stamp[r] % 2 = 0 /\ stamp[r] <= seq
      BY <1>t DEF TypeOK, ReaderInv
    <3>2. CASE seq % 2 = 0
      BY <1>t, <1>s, <3>1, <3>2, DataCurrent
    <3>3. CASE seq % 2 # 0
      <4>1. stamp[r] # seq
        BY <3>1, <3>3
      <4>2. QED
        BY <1>t, <1>s, <3>1, <3>3, <4>1, DataCurrent
    <3>4. QED
      BY <3>2, <3>3
  <2>2. ordered /\ seq = stamp[r] => 2 * data[w] = stamp[r]
    BY <1>t, DataCurrent DEF ReaderInv
  <2>3. TypeOK'
    BY <1>6, <1>t, <2>1 DEF LoadWord, TypeOK
  <2>4. WriterInv'
    BY <1>6, <1>t, WriterInvStable DEF LoadWord
  <2>5. ReaderInv'
    BY <1>6, <1>t, <2>1 DEF LoadWord, TypeOK, ReaderInv
  <2>6. ordered' => OrderedInv'
    <3>1. SUFFICES ASSUME ordered
                   PROVE  OrderedInv'
      BY <1>6 DEF LoadWord
    <3>2. final[r] = NotYet /\ final[r] # stamp[r]
      BY <1>6, <1>t, <3>1, NotYetIsNot DEF LoadWord, TypeOK, OrderedInv
    <3>3. NoTornRead'
      BY <1>6, <1>t, <3>1 DEF LoadWord, TypeOK, OrderedInv, NoTornRead
    <3>4. ASSUME NEW q \in Readers, rpc'[q] = "reading", q # r
          PROVE  /\ final'[q] # NotYet => loaded'[q] = Words /\ final'[q] <= seq'
                 /\ (seq' = stamp'[q] \/ final'[q] = stamp'[q]) =>
                       \A v \in loaded'[q] : 2 * copy'[q][v] = stamp'[q]
      BY <1>6, <1>t, <3>1, <3>4 DEF LoadWord, TypeOK, OrderedInv
    <3>5. seq' = stamp'[r] => \A v \in loaded'[r] : 2 * copy'[r][v] = stamp'[r]
      BY <1>6, <1>t, <2>2, <3>1 DEF LoadWord, TypeOK, OrderedInv
    <3>6. QED
      BY <1>6, <3>2, <3>3, <3>4, <3>5 DEF LoadWord, OrderedInv
  <2>7. QED
    BY <2>3, <2>4, <2>5, <2>6 DEF SeqInv
<1>7. ASSUME NEW r \in Readers, RetryLoad(r)
      PROVE  SeqInv'
  <2>1. TypeOK'
    BY <1>7, <1>t, NotYetIsNot DEF RetryLoad, TypeOK
  <2>2. WriterInv'
    BY <1>7, <1>t, WriterInvStable DEF RetryLoad
  <2>3. ReaderInv'
    BY <1>7, <1>t DEF RetryLoad, TypeOK, ReaderInv
  <2>4. ordered' => OrderedInv'
    BY <1>7, <1>t DEF RetryLoad, TypeOK, OrderedInv, NoTornRead
  <2>5. QED
    BY <2>1, <2>2, <2>3, <2>4 DEF SeqInv
<1>8. ASSUME NEW r \in Readers, RetryReturn(r) \/ ReadDone(r)
      PROVE  SeqInv'
  <2>1. TypeOK'
    BY <1>8, <1>t DEF RetryReturn, ReadDone, TypeOK
  <2>2. WriterInv'
    BY <1>8, <1>t, WriterInvStable DEF RetryReturn, ReadDone
  <2>3. ReaderInv'
    BY <1>8, <1>t DEF RetryReturn, ReadDone, TypeOK, ReaderInv
  <2>4. ordered' => OrderedInv'
    <3>1. SUFFICES ASSUME ordered
                   PROVE  OrderedInv'
      BY <1>8 DEF RetryReturn, ReadDone
    <3>2. \A q \in Readers : rpc'[q] = "reading" => rpc[q] = "reading"
      BY <1>8, <1>t DEF RetryReturn, ReadDone, TypeOK
    <3>3. ASSUME NEW q \in Readers, rpc'[q] = "accepted", rpc[q] # "accepted"
          PROVE  \A w \in Words : 2 * copy[q][w] = stamp[q]
      <4>1. RetryReturn(q) /\ q = r
        BY <1>8, <1>t, <3>3 DEF RetryReturn, ReadDone, TypeOK
      <4>2. final[q] = stamp[q]
        BY <1>t, <3>3, <4>1 DEF RetryReturn, TypeOK
      <4>3. QED
        BY <1>t, <3>1, <4>1, <4>2 DEF RetryReturn, OrderedInv
    <3>4. NoTornRead'
      BY <1>8, <1>t, <3>1, <3>3 DEF RetryReturn, ReadDone, OrderedInv, NoTornRead
    <3>5. QED
      BY <1>8, <1>t, <3>1, <3>2, <3>4 DEF RetryReturn, ReadDone, OrderedInv
  <2>5. QED
    BY <2>1, <2>2, <2>3, <2>4 DEF SeqInv
<1>9. CASE UNCHANGED vars
  <2>1. WriterInv'
    BY <1>9, <1>t, WriterInvStable DEF vars
  <2>2. QED
    BY <1>9, <1>t, <2>1 DEF vars, SeqInv, TypeOK, ReaderInv, OrderedInv, NoTornRead
<1>10. QED
  BY <1>1, <1>2, <1>3, <1>4, <1>5, <1>6, <1>7, <1>8, <1>9 DEF Next

(* The invariant holds in every reachable state, on either kind of target.  *)
THEOREM SeqLockInvariant == Spec => []SeqInv
<1>1. Init => SeqInv
  <2> SUFFICES ASSUME Init
               PROVE  SeqInv
    OBVIOUS
  <2>1. 0 \in 0 .. 2 * MaxWrites
    BY SeqLockAssumption
  <2>2. TypeOK
    BY <2>1, NotYetIsNot DEF Init, TypeOK
  <2>3. WriterInv
    BY DEF Init, WriterInv
  <2>4. ReaderInv /\ OrderedInv
    BY DEF Init, ReaderInv, OrderedInv, NoTornRead
  <2>5. QED
    BY <2>2, <2>3, <2>4 DEF SeqInv
<1>2. QED
  BY <1>1, SeqInvInductive, PTL DEF Spec

(* On an ordered target an accepted copy is one section's value.            *)
THEOREM SeqLockNoTornRead == Spec => []NoTornReadOrdered
<1>1. SeqInv => NoTornReadOrdered
  BY DEF SeqInv, OrderedInv, NoTornReadOrdered
<1>2. QED
  BY <1>1, SeqLockInvariant, PTL

(* On every target an accepted copy is at least as new as its stamp.        *)
THEOREM SeqLockNeverStale == Spec => []NeverStale
<1>1. SeqInv => NeverStale
  BY DEF SeqInv, TypeOK, ReaderInv, NeverStale
<1>2. QED
  BY <1>1, SeqLockInvariant, PTL
=============================================================================
