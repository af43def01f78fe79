------------------------------- MODULE RwLock -------------------------------
(***************************************************************************)
(* What a reader-writer lock promises: any number of readers together, a   *)
(* writer alone.  RwSpinLock is compared with this specification.          *)
(***************************************************************************)
CONSTANTS Readers, Writers

VARIABLES reading,   \* the readers inside
          writing    \* the writers inside

Init == reading = {} /\ writing = {}

ReadLock(r) == /\ writing = {}
               /\ r \notin reading
               /\ reading' = reading \cup {r}
               /\ UNCHANGED writing

ReadUnlock(r) == /\ r \in reading
                 /\ reading' = reading \ {r}
                 /\ UNCHANGED writing

WriteLock(w) == /\ reading = {}
                /\ writing = {}
                /\ writing' = {w}
                /\ UNCHANGED reading

WriteUnlock(w) == /\ writing = {w}
                  /\ writing' = {}
                  /\ UNCHANGED reading

Next == \/ \E r \in Readers : ReadLock(r) \/ ReadUnlock(r)
        \/ \E w \in Writers : WriteLock(w) \/ WriteUnlock(w)

Spec == Init /\ [][Next]_<<reading, writing>>
=============================================================================
