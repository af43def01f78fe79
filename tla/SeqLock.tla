------------------------------ MODULE SeqLock ------------------------------
(***************************************************************************)
(* core::sync SeqLock (stdlib/core/sync.ux) and its client protocol: one   *)
(* writer (`mutref Self`) brackets plain stores to the protected words     *)
(* with write_begin() and write_end(); a reader loads the words between    *)
(* read_begin() and read_retry() and starts over when read_retry() is      *)
(* TRUE.                                                                   *)
(*                                                                         *)
(* compiler_fence restrains the compiler only (it lowers to a              *)
(* single-thread fence), so what the CPU may reorder is decided by the     *)
(* target.  An ordered target's atomic read-modify-write is a full fence   *)
(* and its loads stay in order (x86-64).  On the others an acq_rel         *)
(* read-modify-write lets later plain stores become visible before its own *)
(* store, and an acquire load lets earlier plain loads complete after it   *)
(* (AArch64, RISC-V64).                                                    *)
(***************************************************************************)
EXTENDS Naturals

CONSTANTS Readers,
          Words,       \* the protected words
          MaxWrites    \* critical sections the writer runs; bounds seq

ASSUME SeqLockAssumption == MaxWrites \in Nat

VARIABLES ordered,     \* what the target is, see above
          seq,         \* the sequence word, as other CPUs see it
          late,        \* write_begin()'s increment is not visible yet
          data,        \* the protected words
          wpc, stored, \* the writer: where it is, the words it has stored
          rpc, stamp, loaded, copy, final  \* each reader, see Init

vars == <<ordered, seq, late, data, wpc, stored, rpc, stamp, loaded, copy, final>>
writerVars == <<ordered, late, data, wpc, stored>>
readerVars == <<ordered, rpc, stamp, loaded, copy, final>>

(* The value of the k-th critical section is k in every word, so a torn     *)
(* copy is one whose words differ.  `final` is the sequence word as the     *)
(* load of read_retry() saw it, NotYet before that load.                    *)
NotYet == 2 * MaxWrites + 1

Init == /\ ordered \in BOOLEAN
        /\ seq = 0
        /\ late = FALSE
        /\ data = [w \in Words |-> 0]
        /\ wpc = "outside"
        /\ stored = {}
        /\ rpc = [r \in Readers |-> "idle"]
        /\ stamp = [r \in Readers |-> 0]
        /\ loaded = [r \in Readers |-> {}]
        /\ copy = [r \in Readers |-> [w \in Words |-> 0]]
        /\ final = [r \in Readers |-> NotYet]

(* write_begin(): seq.fetch_add(1); compiler_fence release.                 *)
WriteBegin == /\ wpc = "outside"
              /\ seq < 2 * MaxWrites
              /\ wpc' = "inside"
              /\ stored' = {}
              /\ IF ordered THEN seq' = seq + 1 /\ late' = FALSE
                            ELSE seq' = seq /\ late' = TRUE
              /\ UNCHANGED <<data, readerVars>>

(* The delayed increment of write_begin() becomes visible.                  *)
Surface == /\ late
           /\ late' = FALSE
           /\ seq' = seq + 1
           /\ UNCHANGED <<data, wpc, stored, readerVars>>

(* The client's plain store of one word inside the critical section.        *)
Section == (IF late THEN seq ELSE seq - 1) \div 2 + 1
StoreWord(w) == /\ wpc = "inside"
                /\ w \notin stored
                /\ data' = [data EXCEPT ![w] = Section]
                /\ stored' = stored \cup {w}
                /\ UNCHANGED <<seq, late, wpc, readerVars>>

(* A plausible slip: write_end() without its release, so that the sequence  *)
(* word turns even before the stores are visible.                           *)
WriteEndEarly ==
    /\ wpc = "inside"
    /\ ~late
    /\ seq' = seq + 1
    /\ wpc' = "outside"
    /\ UNCHANGED <<late, data, stored, readerVars>>

(* write_end(): compiler_fence release; seq.fetch_add(1).  Its release      *)
(* makes every earlier store visible first.                                 *)
WriteEnd == /\ wpc = "inside"
            /\ stored = Words
            /\ ~late
            /\ seq' = seq + 1
            /\ wpc' = "outside"
            /\ UNCHANGED <<late, data, stored, readerVars>>

(* read_begin(): the poll that sees an even sequence number.                *)
ReadBegin(r) == /\ rpc[r] = "idle"
                /\ seq % 2 = 0
                /\ stamp' = [stamp EXCEPT ![r] = seq]
                /\ loaded' = [loaded EXCEPT ![r] = {}]
                /\ final' = [final EXCEPT ![r] = NotYet]
                /\ rpc' = [rpc EXCEPT ![r] = "reading"]
                /\ UNCHANGED <<seq, writerVars, copy>>

(* The client's plain load of one word.                                     *)
LoadWord(r, w) == /\ rpc[r] = "reading"
                  /\ w \notin loaded[r]
                  /\ copy' = [copy EXCEPT ![r][w] = data[w]]
                  /\ loaded' = [loaded EXCEPT ![r] = @ \cup {w}]
                  /\ UNCHANGED <<seq, writerVars, rpc, stamp, final>>

(* read_retry(): the load of the sequence word, after the words on an       *)
(* ordered target, at any time after read_begin() on the others.            *)
RetryLoad(r) == /\ rpc[r] = "reading"
                /\ final[r] = NotYet
                /\ ordered => loaded[r] = Words
                /\ final' = [final EXCEPT ![r] = seq]
                /\ UNCHANGED <<seq, writerVars, rpc, stamp, loaded, copy>>

(* A plausible slip: read_retry() asks for a smaller number, not another.   *)
RetryUnlessSmaller(r) ==
    /\ rpc[r] = "reading"
    /\ loaded[r] = Words
    /\ final[r] # NotYet
    /\ rpc' = [rpc EXCEPT ![r] = IF final[r] >= stamp[r] THEN "idle" ELSE "accepted"]
    /\ UNCHANGED <<seq, writerVars, stamp, loaded, copy, final>>

(* read_retry() returns: TRUE sends the client back, FALSE accepts.         *)
RetryReturn(r) == /\ rpc[r] = "reading"
                  /\ loaded[r] = Words
                  /\ final[r] # NotYet
                  /\ rpc' = [rpc EXCEPT ![r] = IF final[r] # stamp[r] THEN "idle"
                                                                      ELSE "accepted"]
                  /\ UNCHANGED <<seq, writerVars, stamp, loaded, copy, final>>

(* The client is done with its copy and may read again.                     *)
ReadDone(r) == /\ rpc[r] = "accepted"
               /\ rpc' = [rpc EXCEPT ![r] = "idle"]
               /\ UNCHANGED <<seq, writerVars, stamp, loaded, copy, final>>

Next == \/ WriteBegin \/ Surface \/ WriteEnd
        \/ \E w \in Words : StoreWord(w)
        \/ \E r \in Readers : \/ ReadBegin(r) \/ RetryLoad(r) \/ RetryReturn(r) \/ ReadDone(r)
                              \/ \E w \in Words : LoadWord(r, w)

(* The writer, once inside, finishes, and a reader keeps running.           *)
Fairness == /\ WF_vars(Surface \/ WriteEnd \/ \E w \in Words : StoreWord(w))
            /\ \A r \in Readers :
                  /\ WF_vars(rpc[r] = "reading" /\ (RetryLoad(r) \/ RetryReturn(r)
                                                    \/ \E w \in Words : LoadWord(r, w)))
                  /\ WF_vars(ReadBegin(r))

Spec == Init /\ [][Next]_vars /\ Fairness
-----------------------------------------------------------------------------
(* Type invariant.                                                          *)
TypeOK == /\ ordered \in BOOLEAN
          /\ seq \in 0 .. 2 * MaxWrites
          /\ late \in BOOLEAN
          /\ data \in [Words -> Nat]
          /\ wpc \in {"outside", "inside"}
          /\ stored \in SUBSET Words
          /\ rpc \in [Readers -> {"idle", "reading", "accepted"}]
          /\ stamp \in [Readers -> 0 .. 2 * MaxWrites]
          /\ loaded \in [Readers -> SUBSET Words]
          /\ copy \in [Readers -> [Words -> Nat]]
          /\ final \in [Readers -> 0 .. NotYet]

(* No torn read: a copy that read_retry() accepts is the value of one       *)
(* critical section in every word, the last one ended when read_begin()     *)
(* took its stamp ("readers retry on concurrent writer", sync.ux:107).      *)
NoTornRead == \A r \in Readers : rpc[r] = "accepted" =>
                 \A w \in Words : 2 * copy[r][w] = stamp[r]

(* On an ordered target read_retry() accepts no torn copy.                  *)
NoTornReadOrdered == ordered => NoTornRead

(* On every target an accepted copy is never older than its stamp: the      *)
(* release of write_end() and the acquire of read_begin() publish the       *)
(* section the stamp counts, whatever else is reordered.                    *)
NeverStale == \A r \in Readers : rpc[r] = "accepted" =>
                 \A w \in Words : 2 * copy[r][w] >= stamp[r]

(* The inductive invariant, in three parts.  The writer, on every target:   *)
(* the visible sequence word is odd exactly while a critical section is     *)
(* visible, words already stored hold the section's value, the others the   *)
(* one before.                                                              *)
WriterInv ==
    /\ late => wpc = "inside" /\ ~ordered /\ seq < 2 * MaxWrites
    /\ seq % 2 = (IF wpc = "inside" /\ ~late THEN 1 ELSE 0)
    /\ \A w \in Words :
          /\ wpc = "outside" => 2 * data[w] = seq
          /\ wpc = "inside" => data[w] = IF w \in stored THEN Section ELSE Section - 1

(* The readers, on every target: a stamp is an even number of the past, and *)
(* what was loaded after it is no older.                                    *)
ReaderInv ==
    \A r \in Readers : /\ stamp[r] % 2 = 0
                       /\ stamp[r] <= seq
                       /\ rpc[r] = "accepted" => loaded[r] = Words
                       /\ rpc[r] \in {"reading", "accepted"} =>
                             \A w \in loaded[r] : 2 * copy[r][w] >= stamp[r]

(* The readers on an ordered target: the load of read_retry() comes last,   *)
(* and what was loaded is the stamp's section as long as the sequence word, *)
(* or its copy, still equals the stamp.                                     *)
OrderedInv ==
    /\ \A r \in Readers : rpc[r] = "reading" =>
          /\ final[r] # NotYet => loaded[r] = Words /\ final[r] <= seq
          /\ (seq = stamp[r] \/ final[r] = stamp[r]) =>
                \A w \in loaded[r] : 2 * copy[r][w] = stamp[r]
    /\ NoTornRead

SeqInv == TypeOK /\ WriterInv /\ ReaderInv /\ (ordered => OrderedInv)

(* Readers get through: once the writer has stopped for good, a reader that *)
(* started is eventually given a copy it accepts.                           *)
ReadersGetThrough == \A r \in Readers :
    (rpc[r] = "reading" /\ seq = 2 * MaxWrites) ~> (rpc[r] = "accepted")
=============================================================================
