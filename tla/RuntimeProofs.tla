---------------------------- MODULE RuntimeProofs ----------------------------
(***************************************************************************)
(* The reference count of runtime/collections.c is memory safe and leaks   *)
(* nothing, for any number of handles, and the decoder of                  *)
(* runtime/unicode.c accepts exactly the well-formed strings.              *)
(***************************************************************************)
EXTENDS Arc, Utf8, FiniteSetTheorems, SequenceTheorems, TLAPS

(* The handles held are finitely many.                                      *)
LEMMA HeldFinite == IsFiniteSet(Held) /\ Cardinality(Held) \in Nat
<1>1. Held \in SUBSET Handles
  BY DEF Held
<1>2. IsFiniteSet(Held)
  BY <1>1, HandlesAssumption, FS_Subset
<1>3. QED
  BY <1>2, FS_CardinalityType

(* The counter is the number of handles held, so it says when they are none *)
(* or only one.                                                             *)
LEMMA CountMeans ==
    ASSUME ArcInv
    PROVE  /\ refs = 0 <=> Held = {}
           /\ \A h \in Held : refs = 1 <=> Held = {h}
<1>1. refs = 0 <=> Held = {}
  BY HeldFinite, FS_EmptySet DEF ArcInv
<1>2. ASSUME NEW h \in Held
      PROVE  refs = 1 <=> Held = {h}
  <2>1. IsFiniteSet(Held \ {h}) /\ Cardinality(Held \ {h}) = Cardinality(Held) - 1
    BY HeldFinite, FS_RemoveElement
  <2>2. Cardinality(Held \ {h}) = 0 <=> Held \ {h} = {}
    BY <2>1, FS_EmptySet
  <2>3. refs = 1 <=> Cardinality(Held \ {h}) = 0
    BY <2>1, HeldFinite DEF ArcInv
  <2>4. Held \ {h} = {} <=> Held = {h}
    OBVIOUS
  <2>5. QED
    BY <2>2, <2>3, <2>4
<1>3. QED
  BY <1>1, <1>2

(* The invariant is inductive: one step per action of a caller of           *)
(* uinx_arc_new_copy, uinx_arc_clone and uinx_arc_release.                  *)
LEMMA ArcInvInductive == ArcInv /\ [Next]_vars => ArcInv'
<1> SUFFICES ASSUME ArcInv, [Next]_vars
             PROVE  ArcInv'
  OBVIOUS
<1> USE DEF TypeOK, PCs, Blocks, Busy, NoUseAfterFree, NoLeak, Dealloc
<1>1. ASSUME NEW h \in Handles, NewControl(h)
      PROVE  ArcInv'
  <2>1. Held' = Held /\ Held = {}
    BY <1>1 DEF NewControl, Held, ArcInv
  <2>2. QED
    BY <1>1, <2>1 DEF NewControl, ArcInv
<1>2. ASSUME NEW h \in Handles, NewData(h)
      PROVE  ArcInv'
  <2>1. Held = {} /\ pc \in [Handles -> PCs]
    BY <1>2 DEF NewData, Held, ArcInv
  <2>2. CASE dat' = "live" /\ refs' = 1 /\ pc' = [pc EXCEPT ![h] = "held"] /\ ctl' = ctl
    <3>1. Held' = {h}
      BY <2>1, <2>2, <1>2 DEF NewData, Held
    <3>2. Cardinality(Held') = 1
      BY <3>1, FS_Singleton
    <3>3. QED
      BY <1>2, <2>2, <3>1, <3>2 DEF NewData, ArcInv
  <2>3. CASE ctl' = Dealloc(ctl) /\ pc' = [pc EXCEPT ![h] = "none"] /\ UNCHANGED <<dat, refs>>
    <3>1. Held' = Held
      BY <2>1, <2>3, <1>2 DEF NewData, Held
    <3>2. QED
      BY <1>2, <2>1, <2>3, <3>1 DEF NewData, ArcInv
  <2>4. QED
    BY <1>2, <2>2, <2>3 DEF NewData
<1>3. ASSUME NEW h \in Handles, NEW g \in Handles, Clone(h, g)
      PROVE  ArcInv'
  <2>1. h \in Held /\ g \notin Held /\ Held' = Held \cup {g}
    BY <1>3 DEF Clone, Held, ArcInv
  <2>2. Cardinality(Held') = Cardinality(Held) + 1
    BY <2>1, HeldFinite, FS_AddElement
  <2>3. \A f \in Handles : pc[f] \notin {"new", "last", "data_freed"}
    BY <1>3 DEF Clone, ArcInv
  <2>4. QED
    BY <1>3, <2>1, <2>2, <2>3 DEF Clone, ArcInv
<1>4. ASSUME NEW h \in Handles, Release(h)
      PROVE  ArcInv'
  <2>1. h \in Held /\ Held' = Held \ {h}
    BY <1>4 DEF Release, Held, ArcInv
  <2>2. Cardinality(Held') = Cardinality(Held) - 1
    BY <2>1, HeldFinite, FS_RemoveElement
  <2>3. refs' = Cardinality(Held') /\ refs' \in Nat
    <3>1. refs # 0
      BY <2>1, CountMeans
    <3>2. QED
      BY <1>4, <2>2, <3>1, HeldFinite DEF Release, ArcInv
  <2>4. \A f \in Handles : pc[f] \in {"none", "held"}
    BY <1>4 DEF Release, ArcInv
  <2>5. ctl = "live" /\ dat = "live" /\ UNCHANGED <<ctl, dat>>
    BY <1>4, <2>1 DEF Release, ArcInv
  <2>6. CASE refs = 1
    <3>1. Held = {h}
      BY <2>1, <2>6, CountMeans
    <3>2. \A f \in Handles : f # h => pc[f] = "none"
      BY <2>4, <3>1 DEF Held
    <3>3. QED
      BY <1>4, <2>1, <2>3, <2>5, <2>6, <3>1, <3>2 DEF Release, ArcInv
  <2>7. CASE refs # 1
    <3>1. PICK f \in Held : f # h
      BY <2>1, <2>7, CountMeans
    <3>2. f \in Busy'
      BY <1>4, <3>1 DEF Release, Held, ArcInv
    <3>3. QED
      BY <1>4, <2>3, <2>4, <2>5, <2>7, <3>2 DEF Release, ArcInv
  <2>8. QED
    BY <2>6, <2>7
<1>5. ASSUME NEW h \in Handles, FreeData(h)
      PROVE  ArcInv'
  <2>1. Held' = Held /\ Held = {}
    BY <1>5 DEF FreeData, Held, ArcInv
  <2>2. QED
    BY <1>5, <2>1 DEF FreeData, ArcInv
<1>6. ASSUME NEW h \in Handles, FreeControl(h)
      PROVE  ArcInv'
  <2>1. Held' = Held /\ Held = {}
    BY <1>6 DEF FreeControl, Held, ArcInv
  <2>2. QED
    BY <1>6, <2>1 DEF FreeControl, ArcInv
<1>7. CASE UNCHANGED vars
  <2>1. Held' = Held
    BY <1>7 DEF vars, Held
  <2>2. QED
    BY <1>7, <2>1 DEF vars, ArcInv
<1>8. QED
  BY <1>1, <1>2, <1>3, <1>4, <1>5, <1>6, <1>7 DEF Next

(* The counter is the number of owners in every reachable state.            *)
THEOREM ArcInvariant == Spec => []ArcInv
<1>1. Init => ArcInv
  <2> SUFFICES ASSUME Init
               PROVE  ArcInv
    OBVIOUS
  <2>1. Held = {} /\ Cardinality(Held) = 0
    BY FS_EmptySet DEF Init, Held
  <2>2. QED
    BY <2>1 DEF Init, ArcInv, TypeOK, PCs, Blocks, Busy, NoUseAfterFree, NoLeak
<1>2. QED
  BY <1>1, ArcInvInductive, PTL DEF Spec

(* Whoever holds a handle can use the data, and no block is freed twice.    *)
THEOREM ArcNoUseAfterFree == Spec => []NoUseAfterFree
<1>1. ArcInv => NoUseAfterFree
  BY DEF ArcInv
<1>2. QED
  BY <1>1, ArcInvariant, PTL

(* With nobody left, both blocks have been given back, also when the second *)
(* allocation of uinx_arc_new_copy failed.                                  *)
THEOREM ArcNoLeak == Spec => []NoLeak
<1>1. ArcInv => NoLeak
  BY DEF ArcInv
<1>2. QED
  BY <1>1, ArcInvariant, PTL
-----------------------------------------------------------------------------
(* The bytes of a string.                                                   *)
Byte == 0 .. 255

(* The lead bytes of two, three and four bytes, and the values they make.   *)
Lead2 == 194 .. 223
Lead3 == 224 .. 239
Lead4 == 240 .. 244
Two(a, x) == (a - 192) * 64 + (x - 128)
Three(a, x, y) == ((a - 224) * 64 + (x - 128)) * 64 + (y - 128)
Four(a, x, y, z) == (((a - 240) * 64 + (x - 128)) * 64 + (y - 128)) * 64 + (z - 128)

(* What the lead byte says, by its range.                                   *)
LEMMA HeaderIs ==
    ASSUME NEW a \in Byte
    PROVE  /\ a < 128 => Header(a) = [v |-> a, need |-> 0]
           /\ a \in 194 .. 223 => Header(a) = [v |-> a - 192, need |-> 1]
           /\ a \in 224 .. 239 => Header(a) = [v |-> a - 224, need |-> 2]
           /\ a \in 240 .. 244 => Header(a) = [v |-> a - 240, need |-> 3]
           /\ a \in 128 .. 193 \/ a > 244 => Header(a).need = -1
  <1>1. ASSUME a < 128 PROVE a \div 32 # 6 /\ a \div 16 # 14 /\ a \div 8 # 30
    BY <1>1 DEF Byte
  <1>11. a < 128 => Header(a) = [v |-> a, need |-> 0]
    BY <1>1 DEF Header, Lead, Low
  <1>2. ASSUME a \in 192 .. 223 PROVE a \div 32 = 6 /\ a % 32 = a - 192 /\ a >= 128
    BY <1>2
  <1>3. ASSUME a \in 224 .. 239 PROVE a \div 32 # 6 /\ a \div 16 = 14 /\ a % 16 = a - 224 /\ a >= 128
    BY <1>3
  <1>4. ASSUME a \in 240 .. 247 PROVE a \div 32 # 6 /\ a \div 16 # 14 /\ a \div 8 = 30 /\ a % 8 = a - 240 /\ a >= 128
    BY <1>4
  <1>5. ASSUME a \in 128 .. 191 \/ a > 247
        PROVE  a \div 32 # 6 /\ a \div 16 # 14 /\ a \div 8 # 30 /\ a >= 128
    BY <1>5 DEF Byte
  <1>6. CASE a \in 192 .. 223
    BY <1>2, <1>6 DEF Header, Lead, Low
  <1>7. CASE a \in 224 .. 239
    BY <1>3, <1>7 DEF Header, Lead, Low
  <1>8. CASE a \in 240 .. 247
    BY <1>4, <1>8 DEF Header, Lead, Low
  <1>9. CASE a \in 128 .. 191 \/ a > 247
    <2>1. Header(a) = [v |-> 0, need |-> -1]
      BY <1>5, <1>9 DEF Header, Lead, Low, Byte
    <2>2. QED
      BY <1>9, <2>1 DEF Byte
  <1>10. QED
    BY <1>11, <1>6, <1>7, <1>8, <1>9 DEF Byte

(* How many bytes it asks for.                                             *)
LEMMA NeedIs ==
    ASSUME NEW a \in Byte, NEW h, h = Header(a)
    PROVE  /\ a < 128 => h.need = 0
           /\ a \in Lead2 => h.need = 1
           /\ a \in Lead3 => h.need = 2
           /\ a \in Lead4 => h.need = 3
           /\ a < 128 \/ a \in Lead2 \/ a \in Lead3 \/ a \in Lead4 \/ h.need = -1
  <1>1. a < 128 => h.need = 0
    BY HeaderIs
  <1>2. a \in 194 .. 223 => h.need = 1
    BY HeaderIs
  <1>3. a \in 224 .. 239 => h.need = 2
    BY HeaderIs
  <1>4. a \in 240 .. 244 => h.need = 3
    BY HeaderIs
  <1>5. a \in 128 .. 193 \/ a > 244 => h.need = -1
    BY HeaderIs
  <1>6. a < 128 \/ a \in 194 .. 223 \/ a \in 224 .. 239 \/ a \in 240 .. 244 \/ a \in 128 .. 193 \/ a > 244
    BY SMT DEF Byte
  <1>7. QED
    BY <1>1, <1>2, <1>3, <1>4, <1>5, <1>6 DEF Lead2, Lead3, Lead4

(* A byte that goes on has the bits 10 and six payload bits.                *)
LEMMA ContinuationIs ==
    ASSUME NEW b \in Byte
    PROVE  /\ Lead(b, 64) = 2 <=> b \in Cont
           /\ b \in Cont => Low(b, 64) = b - 128
  BY SMT DEF Lead, Low, Byte, Cont

(* The value of the loop, by the number of bytes asked for.                 *)
LEMMA ValueIs ==
    ASSUME NEW h, NEW d, NEW i
    PROVE  /\ h.need = 0 => Value(h, d, i) = h.v
           /\ h.need = 1 => Value(h, d, i) = Shifted(h.v, d[i + 2])
           /\ h.need = 2 => Value(h, d, i) = Shifted(Shifted(h.v, d[i + 2]), d[i + 3])
           /\ h.need = 3 => Value(h, d, i) = Shifted(Shifted(Shifted(h.v, d[i + 2]), d[i + 3]), d[i + 4])
  BY DEF Value

(* The bytes of each length: what the header asks for, the value of the     *)
(* loop, and what uinx_utf8_encode writes for that value.                   *)
LEMMA OneByte ==
    ASSUME NEW d, NEW i, NEW a \in Byte, a < 128, NEW h, h = Header(a)
    PROVE  h.need = 0 /\ Value(h, d, i) = a /\ Accepts(a, 0) /\ a \in Nat /\ utf8_encode(a) = <<a>>
  <1>1. h = [v |-> a, need |-> 0]
    BY HeaderIs
  <1>2. h.need = 0 /\ Value(h, d, i) = a
    BY <1>1, ValueIs
  <1>3. Accepts(a, 0) /\ a \in Nat
    BY SMT DEF Accepts, Invalid, Byte
  <1>4. utf8_encode(a) = <<a>>
    <2>1. ~Invalid(a)
      BY SMT DEF Invalid, Byte
    <2>2. QED
      BY <2>1 DEF utf8_encode
  <1>5. QED
    BY <1>2, <1>3, <1>4

LEMMA TwoBytes ==
    ASSUME NEW d, NEW i, NEW a \in Lead2, NEW h, h = Header(a), d[i + 2] \in Cont
    PROVE  /\ h.need = 1 /\ Value(h, d, i) = Two(a, d[i + 2])
           /\ Accepts(Two(a, d[i + 2]), 1) /\ Two(a, d[i + 2]) \in Nat
           /\ utf8_encode(Two(a, d[i + 2])) = <<a, d[i + 2]>>
  <1>1. PICK x \in Cont : x = d[i + 2]
    OBVIOUS
  <1>2. a \in Byte /\ x \in Byte
    BY SMT DEF Lead2, Cont, Byte
  <1>3. h = [v |-> a - 192, need |-> 1]
    BY <1>2, HeaderIs, SMT DEF Lead2
  <1>4. h.need = 1 /\ Value(h, d, i) = Shifted(a - 192, x)
    BY <1>1, <1>3, ValueIs
  <1>5. Low(x, 64) = x - 128
    BY <1>2, ContinuationIs
  <1>6. Shifted(a - 192, x) = Two(a, x)
    BY <1>5 DEF Shifted, Two
  <1>7. PICK c : c = Two(a, x)
    OBVIOUS
  <1>8. a \in Int /\ 194 <= a /\ a <= 223 /\ x \in Int /\ 128 <= x /\ x <= 191
    BY SMT DEF Lead2, Cont
  <1>9. c \in Int /\ c = (a - 192) * 64 + (x - 128)
    BY <1>7, <1>8, SMT DEF Two
  <1>10. 192 + c \div 64 = a /\ 128 + ((c \div 1) % 64) = x /\ 128 <= c /\ c < 2048
    BY <1>8, <1>9, SMT
  <1>11. utf8_encode(c) = <<a, x>> /\ Accepts(c, 1) /\ c \in Nat
    <2>1. ~Invalid(c) /\ c \in Nat
      <3>1. c \in Int /\ 128 <= c /\ c < 2048
        BY <1>9, <1>10
      <3>2. QED
        BY <3>1, SMT DEF Invalid
    <2>2. Accepts(c, 1)
      BY <2>1, SMT DEF Accepts
    <2>3. utf8_encode(c) = <<a, x>>
      BY <1>9, <1>10, <2>1, SMT DEF utf8_encode, Payload
    <2>4. QED
      BY <2>1, <2>2, <2>3
  <1>12. QED
    BY <1>1, <1>4, <1>6, <1>7, <1>11

LEMMA ThreeBytes ==
    ASSUME NEW d, NEW i, NEW a \in Lead3, NEW h, h = Header(a), d[i + 2] \in Cont, d[i + 3] \in Cont,
           NEW c, c = Three(a, d[i + 2], d[i + 3])
    PROVE  /\ h.need = 2 /\ Value(h, d, i) = c
           /\ Accepts(c, 2) => c \in Nat /\ utf8_encode(c) = <<a, d[i + 2], d[i + 3]>>
  <1>1. PICK x \in Cont, y \in Cont : x = d[i + 2] /\ y = d[i + 3]
    OBVIOUS
  <1>2. a \in Byte /\ x \in Byte /\ y \in Byte
    BY SMT DEF Lead3, Cont, Byte
  <1>3. h = [v |-> a - 224, need |-> 2]
    BY <1>2, HeaderIs, SMT DEF Lead3
  <1>4. h.need = 2 /\ Value(h, d, i) = Shifted(Shifted(a - 224, x), y)
    BY <1>1, <1>3, ValueIs
  <1>5. Low(x, 64) = x - 128 /\ Low(y, 64) = y - 128
    BY <1>2, ContinuationIs
  <1>6. Shifted(Shifted(a - 224, x), y) = Three(a, x, y)
    BY <1>5 DEF Shifted, Three
  <1>7. /\ a \in Int /\ 224 <= a /\ a <= 239 /\ x \in Int /\ 128 <= x /\ x <= 191
        /\ y \in Int /\ 128 <= y /\ y <= 191
    BY SMT DEF Lead3, Cont
  <1>8. c \in Int /\ c = ((a - 224) * 64 + (x - 128)) * 64 + (y - 128)
    BY <1>1, <1>7, SMT DEF Three
  <1>9. /\ 224 + c \div 4096 = a /\ 128 + ((c \div 64) % 64) = x /\ 128 + ((c \div 1) % 64) = y
        /\ c >= 0 /\ c < 65536
    BY <1>7, <1>8, SMT
  <1>10. Accepts(c, 2) => c \in Nat /\ utf8_encode(c) = <<a, x, y>>
    BY <1>8, <1>9, SMT DEF utf8_encode, Payload, Accepts
  <1>11. QED
    BY <1>1, <1>4, <1>6, <1>10

LEMMA FourBytes ==
    ASSUME NEW d, NEW i, NEW a \in Lead4, NEW h, h = Header(a),
           d[i + 2] \in Cont, d[i + 3] \in Cont, d[i + 4] \in Cont,
           NEW c, c = Four(a, d[i + 2], d[i + 3], d[i + 4])
    PROVE  /\ h.need = 3 /\ Value(h, d, i) = c
           /\ Accepts(c, 3) => c \in Nat /\ utf8_encode(c) = <<a, d[i + 2], d[i + 3], d[i + 4]>>
  <1>1. PICK x \in Cont, y \in Cont, z \in Cont : x = d[i + 2] /\ y = d[i + 3] /\ z = d[i + 4]
    OBVIOUS
  <1>2. a \in Byte /\ x \in Byte /\ y \in Byte /\ z \in Byte
    BY SMT DEF Lead4, Cont, Byte
  <1>3. h = [v |-> a - 240, need |-> 3]
    BY <1>2, HeaderIs, SMT DEF Lead4
  <1>4. h.need = 3 /\ Value(h, d, i) = Shifted(Shifted(Shifted(a - 240, x), y), z)
    BY <1>1, <1>3, ValueIs
  <1>5. Low(x, 64) = x - 128 /\ Low(y, 64) = y - 128 /\ Low(z, 64) = z - 128
    BY <1>2, ContinuationIs
  <1>6. Shifted(Shifted(Shifted(a - 240, x), y), z) = Four(a, x, y, z)
    BY <1>5 DEF Shifted, Four
  <1>7. /\ a \in Int /\ 240 <= a /\ a <= 244 /\ x \in Int /\ 128 <= x /\ x <= 191
        /\ y \in Int /\ 128 <= y /\ y <= 191 /\ z \in Int /\ 128 <= z /\ z <= 191
    BY SMT DEF Lead4, Cont
  <1>8. c \in Int /\ c = (((a - 240) * 64 + (x - 128)) * 64 + (y - 128)) * 64 + (z - 128)
    BY <1>1, <1>7, SMT DEF Four
  <1>9. /\ 240 + c \div 262144 = a /\ 128 + ((c \div 4096) % 64) = x
        /\ 128 + ((c \div 64) % 64) = y /\ 128 + ((c \div 1) % 64) = z /\ c >= 0
    BY <1>7, <1>8, SMT
  <1>10. Accepts(c, 3) => c \in Nat /\ utf8_encode(c) = <<a, x, y, z>>
    BY <1>8, <1>9, SMT DEF utf8_encode, Payload, Accepts
  <1>11. QED
    BY <1>1, <1>4, <1>6, <1>10

(* The string between two offsets, at most four bytes apart.                *)
LEMMA Piece ==
    ASSUME NEW d \in Seq(Byte), NEW i \in Nat, NEW k \in 1 .. 4, i + k <= Len(d)
    PROVE  /\ Len(SubSeq(d, i + 1, i + k)) = k
           /\ \A j \in 1 .. k : SubSeq(d, i + 1, i + k)[j] = d[i + j] /\ d[i + j] \in Byte
           /\ k = 1 => SubSeq(d, i + 1, i + k) = <<d[i + 1]>>
           /\ k = 2 => SubSeq(d, i + 1, i + k) = <<d[i + 1], d[i + 2]>>
           /\ k = 3 => SubSeq(d, i + 1, i + k) = <<d[i + 1], d[i + 2], d[i + 3]>>
           /\ k = 4 => SubSeq(d, i + 1, i + k) = <<d[i + 1], d[i + 2], d[i + 3], d[i + 4]>>
  <1>1. PICK s : s = SubSeq(d, i + 1, i + k)
    OBVIOUS
  <1>2. s \in Seq(Byte) /\ Len(s) = k /\ \A j \in 1 .. k : s[j] = d[i + j] /\ d[i + j] \in Byte
    <2>1. PICK m, n : m = i + 1 /\ n = i + k
      OBVIOUS
    <2>2. m \in 1 .. Len(d) /\ n \in m .. Len(d) /\ n - m + 1 = k /\ s = SubSeq(d, m, n)
      BY <1>1, <2>1, SMT
    <2>3. s \in Seq(Byte) /\ Len(s) = n - m + 1 /\ \A j \in 1 .. n - m + 1 : s[j] = d[m + j - 1]
      BY <2>2, SubSeqProperties
    <2>4. \A j \in 1 .. k : m + j - 1 = i + j /\ i + j \in 1 .. Len(d)
      BY <2>1, SMT
    <2>5. \A j \in 1 .. Len(d) : d[j] \in Byte
      BY SMT
    <2>6. QED
      BY <2>2, <2>3, <2>4, <2>5
  <1>3. k = 1 => s = <<d[i + 1]>>
    BY <1>2, SMT
  <1>4. k = 2 => s = <<d[i + 1], d[i + 2]>>
    BY <1>2, SMT
  <1>5. k = 3 => s = <<d[i + 1], d[i + 2], d[i + 3]>>
    BY <1>2, SMT
  <1>6. k = 4 => s = <<d[i + 1], d[i + 2], d[i + 3], d[i + 4]>>
    BY <1>2, SMT
  <1>7. QED
    BY <1>1, <1>2, <1>3, <1>4, <1>5, <1>6

(* When uinx_utf8_next succeeds, and with what.                             *)
Read(d, i, h) == /\ h.need >= 0 /\ i + 1 + h.need <= Len(d)
                 /\ \A j \in 1 .. h.need : Lead(d[i + 1 + j], 64) = 2
                 /\ Accepts(Value(h, d, i), h.need)

LEMMA NextIs ==
    ASSUME NEW d, NEW i, NEW h, h = Header(d[i + 1])
    PROVE  /\ Read(d, i, h) => utf8_next(d, i) = [used |-> h.need + 1, cp |-> Value(h, d, i)]
           /\ ~Read(d, i, h) => utf8_next(d, i) = [used |-> 0, cp |-> 0]
  BY DEF utf8_next, Read

(* What is read is what uinx_utf8_encode writes for the value.              *)
LEMMA NextReads ==
    ASSUME NEW d \in Seq(Byte), NEW i \in Nat, i < Len(d), NEW r, r = utf8_next(d, i), r.used # 0
    PROVE  /\ r.used \in 1 .. 4 /\ i + r.used <= Len(d) /\ r.cp \in Nat
           /\ SubSeq(d, i + 1, i + r.used) = utf8_encode(r.cp)
  <1>1. PICK a, h, c : a = d[i + 1] /\ h = Header(a) /\ c = Value(h, d, i)
    OBVIOUS
  <1>2. a \in Byte
    BY <1>1, SMT
  <1>3. Read(d, i, h) /\ r.used = h.need + 1 /\ r.cp = c
    BY <1>1, NextIs
  <1>4. i + 1 + h.need <= Len(d) /\ (\A j \in 1 .. h.need : Lead(d[i + 1 + j], 64) = 2) /\ Accepts(c, h.need)
    BY <1>1, <1>3 DEF Read
  <1>5. SUFFICES ASSUME NEW k \in 1 .. 4, h.need = k - 1 PROVE c \in Nat /\ SubSeq(d, i + 1, i + k) = utf8_encode(c)
    <2>1. h.need = 0 \/ h.need = 1 \/ h.need = 2 \/ h.need = 3
      <3>1. h.need >= 0
        BY <1>3 DEF Read
      <3>2. h.need # -1
        BY <3>1, SMT
      <3>3. QED
        BY <1>1, <1>2, <3>2, NeedIs
    <2>2. PICK k \in 1 .. 4 : h.need = k - 1
      BY <2>1, SMT
    <2>3. r.used = k
      BY <1>3, <2>2, SMT
    <2>4. i + k <= Len(d)
      BY <1>4, <2>2, SMT
    <2>5. QED
      BY <1>3, <1>5, <2>2, <2>3, <2>4
  <1>6. i + k <= Len(d)
    BY <1>4, <1>5, SMT
  <1>7. \A j \in 1 .. k - 1 : d[i + 1 + j] \in Cont
    <2> TAKE j \in 1 .. k - 1
    <2>1. d[i + 1 + j] \in Byte /\ j \in 1 .. h.need
      BY <1>5, <1>6, SMT
    <2>2. QED
      BY <1>4, <2>1, ContinuationIs
  <1>8. CASE a < 128
    <2>1. h.need = 0 /\ c = a /\ a \in Nat /\ utf8_encode(a) = <<a>>
      BY <1>1, <1>2, <1>8, OneByte
    <2>2. k = 1
      BY <1>5, <2>1, SMT
    <2>3. SubSeq(d, i + 1, i + k) = <<a>>
      BY <1>1, <1>6, <2>2, Piece
    <2>4. QED
      BY <2>1, <2>3
  <1>9. CASE a \in Lead2
    <2>1. h.need = 1 /\ a \in Lead2
      BY <1>1, <1>2, <1>9, NeedIs
    <2>2. k = 2
      BY <1>5, <2>1, SMT
    <2>3. d[i + 2] \in Cont
      <3>1. 1 \in 1 .. k - 1 /\ i + 1 + 1 = i + 2
        BY <2>2, SMT
      <3>2. QED
        BY <1>7, <3>1
    <2>4. c \in Nat /\ utf8_encode(c) = <<a, d[i + 2]>>
      BY <1>1, <2>1, <2>3, TwoBytes
    <2>5. SubSeq(d, i + 1, i + k) = <<a, d[i + 2]>>
      BY <1>1, <1>6, <2>2, Piece
    <2>6. QED
      BY <2>4, <2>5
  <1>10. CASE a \in Lead3
    <2>1. h.need = 2 /\ a \in Lead3
      BY <1>1, <1>2, <1>10, NeedIs
    <2>2. k = 3
      BY <1>5, <2>1, SMT
    <2>3. d[i + 2] \in Cont /\ d[i + 3] \in Cont
      <3>1. 1 \in 1 .. k - 1 /\ i + 1 + 1 = i + 2 /\ 2 \in 1 .. k - 1 /\ i + 1 + 2 = i + 3
        BY <2>2, SMT
      <3>2. QED
        BY <1>7, <3>1
    <2>4. c \in Nat /\ utf8_encode(c) = <<a, d[i + 2], d[i + 3]>>
      <3>1. PICK e : e = Three(a, d[i + 2], d[i + 3])
        OBVIOUS
      <3>2. c = e
        BY <1>1, <2>1, <2>3, <3>1, ThreeBytes
      <3>3. Accepts(e, 2)
        BY <1>4, <2>1, <3>2
      <3>4. QED
        BY <1>1, <2>1, <2>3, <3>1, <3>2, <3>3, ThreeBytes
    <2>5. SubSeq(d, i + 1, i + k) = <<a, d[i + 2], d[i + 3]>>
      BY <1>1, <1>6, <2>2, Piece
    <2>6. QED
      BY <2>4, <2>5
  <1>11. CASE a \in Lead4
    <2>1. h.need = 3 /\ a \in Lead4
      BY <1>1, <1>2, <1>11, NeedIs
    <2>2. k = 4
      BY <1>5, <2>1, SMT
    <2>3. d[i + 2] \in Cont /\ d[i + 3] \in Cont /\ d[i + 4] \in Cont
      <3>1. /\ 1 \in 1 .. k - 1 /\ i + 1 + 1 = i + 2 /\ 2 \in 1 .. k - 1 /\ i + 1 + 2 = i + 3
            /\ 3 \in 1 .. k - 1 /\ i + 1 + 3 = i + 4
        BY <2>2, SMT
      <3>2. QED
        BY <1>7, <3>1
    <2>4. c \in Nat /\ utf8_encode(c) = <<a, d[i + 2], d[i + 3], d[i + 4]>>
      <3>1. PICK e : e = Four(a, d[i + 2], d[i + 3], d[i + 4])
        OBVIOUS
      <3>2. c = e
        BY <1>1, <2>1, <2>3, <3>1, FourBytes
      <3>3. Accepts(e, 3)
        BY <1>4, <2>1, <3>2
      <3>4. QED
        BY <1>1, <2>1, <2>3, <3>1, <3>2, <3>3, FourBytes
    <2>5. SubSeq(d, i + 1, i + k) = <<a, d[i + 2], d[i + 3], d[i + 4]>>
      BY <1>1, <1>6, <2>2, Piece
    <2>6. QED
      BY <2>4, <2>5
  <1>12. h.need # -1
    BY <1>5, SMT
  <1>13. QED
    BY <1>1, <1>2, <1>8, <1>9, <1>10, <1>11, <1>12, NeedIs

(* Bytes that fit, and whose value passes the last test, are read.          *)
LEMMA Reads ==
    ASSUME NEW d \in Seq(Byte), NEW i \in Nat, NEW k \in 1 .. 4, i + k <= Len(d),
           NEW h, h = Header(d[i + 1]), h.need = k - 1,
           \A j \in 2 .. k : d[i + j] \in Cont, Accepts(Value(h, d, i), k - 1)
    PROVE  utf8_next(d, i) = [used |-> k, cp |-> Value(h, d, i)]
  <1>1. \A j \in 1 .. h.need : Lead(d[i + 1 + j], 64) = 2
    <2> TAKE j \in 1 .. h.need
    <2>1. j + 1 \in 2 .. k /\ i + (j + 1) = i + 1 + j /\ d[i + 1 + j] \in Byte
      BY SMT
    <2>2. d[i + 1 + j] \in Cont
      BY <2>1
    <2>3. QED
      BY <2>1, <2>2, ContinuationIs
  <1>2. h.need >= 0 /\ i + 1 + h.need <= Len(d) /\ h.need + 1 = k
    BY SMT
  <1>3. Read(d, i, h)
    BY <1>1, <1>2 DEF Read
  <1>4. QED
    BY <1>2, <1>3, NextIs

(* The rows of the standard's table pass the last test.                     *)
RowThree(a, x) == \/ a = 224 /\ x \in 160 .. 191
                  \/ a = 237 /\ x \in 128 .. 159
                  \/ a \in (225 .. 239) \ {237} /\ x \in Cont
RowFour(a, x) == \/ a = 240 /\ x \in 144 .. 191
                 \/ a \in 241 .. 243 /\ x \in Cont
                 \/ a = 244 /\ x \in 128 .. 143

LEMMA RowOfThree ==
    ASSUME NEW a, NEW x, NEW y \in Cont, RowThree(a, x)
    PROVE  a \in Lead3 /\ x \in Cont /\ Accepts(Three(a, x, y), 2)
  <1>1. a \in Lead3 /\ x \in Cont
    BY SMT DEF Lead3, Cont, RowThree
  <1>2. PICK c : c = Three(a, x, y)
    OBVIOUS
  <1>3. c \in Int /\ c = ((a - 224) * 64 + (x - 128)) * 64 + (y - 128)
    BY <1>1, <1>2, SMT DEF Three, Lead3, Cont
  <1>4. 2048 <= c /\ c <= 65535 /\ (c < 55296 \/ c > 57343)
    <2>1. y \in Int /\ 128 <= y /\ y <= 191
      BY SMT DEF Cont
    <2>2. CASE a = 224 /\ x \in 160 .. 191
      BY <1>3, <2>1, <2>2, SMT
    <2>3. CASE a = 237 /\ x \in 128 .. 159
      BY <1>3, <2>1, <2>3, SMT
    <2>4. CASE a \in (225 .. 239) \ {237} /\ x \in Cont
      BY <1>3, <2>1, <2>4, SMT DEF Cont
    <2>5. QED
      BY <2>2, <2>3, <2>4 DEF RowThree
  <1>5. Accepts(c, 2)
    <2>1. c \in Int
      BY <1>3
    <2>2. ~Invalid(c)
      BY <1>4, <2>1, SMT DEF Invalid
    <2>3. QED
      BY <1>4, <2>1, <2>2, SMT DEF Accepts
  <1>6. QED
    BY <1>1, <1>2, <1>5, SMT

LEMMA RowOfFour ==
    ASSUME NEW a, NEW x, NEW y \in Cont, NEW z \in Cont, RowFour(a, x)
    PROVE  a \in Lead4 /\ x \in Cont /\ Accepts(Four(a, x, y, z), 3)
  <1>1. a \in Lead4 /\ x \in Cont
    BY SMT DEF Lead4, Cont, RowFour
  <1>2. PICK c : c = Four(a, x, y, z)
    OBVIOUS
  <1>3. c \in Int /\ c = (((a - 240) * 64 + (x - 128)) * 64 + (y - 128)) * 64 + (z - 128)
    BY <1>1, <1>2, SMT DEF Four, Lead4, Cont
  <1>4. 65536 <= c /\ c <= 1114111
    <2>1. y \in Int /\ 128 <= y /\ y <= 191 /\ z \in Int /\ 128 <= z /\ z <= 191
      BY SMT DEF Cont
    <2>2. CASE a = 240 /\ x \in 144 .. 191
      BY <1>3, <2>1, <2>2, SMT
    <2>3. CASE a \in 241 .. 243 /\ x \in Cont
      BY <1>3, <2>1, <2>3, SMT DEF Cont
    <2>4. CASE a = 244 /\ x \in 128 .. 143
      BY <1>3, <2>1, <2>4, SMT
    <2>5. QED
      BY <2>2, <2>3, <2>4 DEF RowFour
  <1>5. Accepts(c, 3)
    <2>1. c \in Int
      BY <1>3
    <2>2. ~Invalid(c)
      BY <1>4, <2>1, SMT DEF Invalid
    <2>3. QED
      BY <1>4, <2>1, <2>2, SMT DEF Accepts
  <1>6. QED
    BY <1>1, <1>2, <1>5, SMT

(* Every well-formed sequence is read.                                      *)
LEMMA WellFormedIsRead ==
    ASSUME NEW d \in Seq(Byte), NEW i \in Nat, NEW n \in i + 1 .. Len(d), WellFormed(SubSeq(d, i + 1, n))
    PROVE  utf8_next(d, i).used # 0
  <1>1. PICK s, k : s = SubSeq(d, i + 1, n) /\ k = n - i
    OBVIOUS
  <1>2. Len(s) = k /\ n = i + k /\ k \in Nat
    BY <1>1, SMT
  <1>3. k \in 1 .. 4 /\ i + k <= Len(d)
    <2>1. Len(s) = 1 \/ Len(s) = 2 \/ Len(s) = 3 \/ Len(s) = 4
      BY <1>1 DEF WellFormed
    <2>2. QED
      BY <1>2, <2>1, SMT
  <1>4. \A j \in 1 .. k : s[j] = d[i + j] /\ d[i + j] \in Byte
    BY <1>1, <1>2, <1>3, Piece
  <1>5. PICK h : h = Header(d[i + 1])
    OBVIOUS
  <1>6. SUFFICES /\ h.need = k - 1 /\ (\A j \in 2 .. k : d[i + j] \in Cont)
                 /\ Accepts(Value(h, d, i), k - 1)
    <2>1. utf8_next(d, i) = [used |-> k, cp |-> Value(h, d, i)]
      BY <1>3, <1>5, <1>6, Reads
    <2>2. k # 0
      BY <1>3, SMT
    <2>3. QED
      BY <2>1, <2>2
  <1>7. WellFormed(s)
    BY <1>1
  <1>8. CASE Len(s) = 1 /\ s[1] < 128
    <2>1. k = 1 /\ k - 1 = 0 /\ 1 \in 1 .. k /\ \A j \in 2 .. k : FALSE
      BY <1>2, <1>8, SMT
    <2>2. d[i + 1] \in Byte /\ d[i + 1] < 128
      BY <1>4, <1>8, <2>1
    <2>3. h.need = 0 /\ Value(h, d, i) = d[i + 1] /\ Accepts(d[i + 1], 0)
      <3>1. PICK a \in Byte : a = d[i + 1]
        BY <2>2
      <3>2. a < 128 /\ h = Header(a)
        BY <1>5, <2>2, <3>1
      <3>3. h.need = 0 /\ Value(h, d, i) = a /\ Accepts(a, 0)
        BY <3>2, OneByte
      <3>4. QED
        BY <3>1, <3>3
    <2>4. QED
      BY <2>1, <2>3
  <1>9. CASE Len(s) = 2 /\ s[1] \in 194 .. 223 /\ s[2] \in Cont
    <2>1. k = 2 /\ k - 1 = 1 /\ 1 \in 1 .. k /\ 2 \in 1 .. k /\ \A j \in 2 .. k : j = 2
      BY <1>2, <1>9, SMT
    <2>2. d[i + 1] \in Lead2 /\ d[i + 2] \in Cont
      BY <1>4, <1>9, <2>1 DEF Lead2
    <2>3. h.need = 1 /\ Accepts(Value(h, d, i), 1)
      BY <1>5, <2>2, TwoBytes
    <2>4. QED
      BY <2>1, <2>2, <2>3
  <1>10. CASE Len(s) = 3 /\ s[3] \in Cont /\ RowThree(s[1], s[2])
    <2>1. /\ k = 3 /\ k - 1 = 2 /\ 1 \in 1 .. k /\ 2 \in 1 .. k /\ 3 \in 1 .. k
          /\ \A j \in 2 .. k : j = 2 \/ j = 3
      BY <1>2, <1>10, SMT
    <2>2. s[1] \in Lead3 /\ s[2] \in Cont /\ s[3] \in Cont /\ Accepts(Three(s[1], s[2], s[3]), 2)
      BY <1>10, RowOfThree
    <2>3. s[1] = d[i + 1] /\ s[2] = d[i + 2] /\ s[3] = d[i + 3]
      BY <1>4, <2>1
    <2>4. h.need = 2 /\ Value(h, d, i) = Three(d[i + 1], d[i + 2], d[i + 3])
      BY <1>5, <2>2, <2>3, ThreeBytes
    <2>5. QED
      BY <2>1, <2>2, <2>3, <2>4
  <1>11. CASE Len(s) = 4 /\ s[3] \in Cont /\ s[4] \in Cont /\ RowFour(s[1], s[2])
    <2>1. /\ k = 4 /\ k - 1 = 3 /\ 1 \in 1 .. k /\ 2 \in 1 .. k /\ 3 \in 1 .. k /\ 4 \in 1 .. k
          /\ \A j \in 2 .. k : j = 2 \/ j = 3 \/ j = 4
      BY <1>2, <1>11, SMT
    <2>2. /\ s[1] \in Lead4 /\ s[2] \in Cont /\ s[3] \in Cont /\ s[4] \in Cont
          /\ Accepts(Four(s[1], s[2], s[3], s[4]), 3)
      BY <1>11, RowOfFour
    <2>3. s[1] = d[i + 1] /\ s[2] = d[i + 2] /\ s[3] = d[i + 3] /\ s[4] = d[i + 4]
      BY <1>4, <2>1
    <2>4. h.need = 3 /\ Value(h, d, i) = Four(d[i + 1], d[i + 2], d[i + 3], d[i + 4])
      BY <1>5, <2>2, <2>3, FourBytes
    <2>5. QED
      BY <2>1, <2>2, <2>3, <2>4
  <1>12. QED
    BY <1>7, <1>8, <1>9, <1>10, <1>11 DEF WellFormed, RowThree, RowFour

(* What uinx_utf8_encode wrote is read as one code point, the same.         *)
LEMMA RoundTrip ==
    ASSUME NEW c \in Nat, ~Invalid(c), NEW d, d = utf8_encode(c)
    PROVE  d \in Seq(Byte) /\ Len(d) \in 1 .. 4 /\ utf8_next(d, 0) = [used |-> Len(d), cp |-> c]
  <1>1. PICK h : h = Header(d[1])
    OBVIOUS
  <1>2. \A j \in Nat : 0 + j = j
    OBVIOUS
  <1>3. CASE c < 128
    <2>1. d = <<c>> /\ c \in Byte
      BY <1>3, SMT DEF utf8_encode, Byte
    <2>2. d \in Seq(Byte) /\ Len(d) = 1 /\ d[1] = c /\ 0 + 1 <= Len(d) /\ 1 \in 1 .. 4 /\ 1 - 1 = 0
          /\ \A j \in 2 .. 1 : FALSE
      BY <2>1, SMT
    <2>3. h.need = 0 /\ Value(h, d, 0) = c /\ Accepts(c, 0)
      BY <1>1, <1>3, <2>1, <2>2, OneByte
    <2>4. utf8_next(d, 0) = [used |-> 1, cp |-> c]
      BY <1>1, <2>2, <2>3, Reads
    <2>5. QED
      BY <2>2, <2>4
  <1>4. CASE c >= 128 /\ c < 2048
    <2>1. PICK a, x : a = 192 + c \div 64 /\ x = 128 + ((c \div 1) % 64)
      OBVIOUS
    <2>2. d = <<a, x>>
      BY <1>4, <2>1, SMT DEF utf8_encode, Payload
    <2>3. a \in Lead2 /\ x \in Cont /\ a \in Byte /\ x \in Byte /\ Two(a, x) = c
      BY <1>4, <2>1, SMT DEF Lead2, Cont, Byte, Two
    <2>4. /\ d \in Seq(Byte) /\ Len(d) = 2 /\ d[0 + 1] = a /\ d[0 + 2] = x /\ 0 + 2 <= Len(d)
          /\ 2 \in 1 .. 4 /\ 2 - 1 = 1 /\ (\A j \in 2 .. 2 : j = 2) /\ d[1] = a
      BY <2>2, <2>3, SMT
    <2>5. h.need = 1 /\ Value(h, d, 0) = c /\ Accepts(c, 1)
      BY <1>1, <2>3, <2>4, TwoBytes
    <2>6. utf8_next(d, 0) = [used |-> 2, cp |-> c]
      BY <1>1, <2>3, <2>4, <2>5, Reads
    <2>7. QED
      BY <2>4, <2>6
  <1>5. CASE c >= 2048 /\ c < 65536
    <2>1. PICK a, x, y : a = 224 + c \div 4096 /\ x = 128 + ((c \div 64) % 64) /\ y = 128 + ((c \div 1) % 64)
      OBVIOUS
    <2>2. d = <<a, x, y>>
      BY <1>5, <2>1, SMT DEF utf8_encode, Payload
    <2>3. a \in Lead3 /\ x \in Cont /\ y \in Cont /\ a \in Byte /\ x \in Byte /\ y \in Byte /\ c = Three(a, x, y)
      <3>1. a \in Lead3 /\ a \in Byte
        BY <1>5, <2>1, SMT DEF Lead3, Byte
      <3>2. x \in Cont /\ x \in Byte
        BY <2>1, SMT DEF Cont, Byte
      <3>3. y \in Cont /\ y \in Byte
        BY <2>1, SMT DEF Cont, Byte
      <3>4. c = Three(a, x, y)
        BY <2>1, SMT DEF Three
      <3>5. QED
        BY <3>1, <3>2, <3>3, <3>4
    <2>4. /\ d \in Seq(Byte) /\ Len(d) = 3 /\ d[0 + 1] = a /\ d[0 + 2] = x /\ d[0 + 3] = y /\ 0 + 3 <= Len(d)
          /\ 3 \in 1 .. 4 /\ 3 - 1 = 2 /\ (\A j \in 2 .. 3 : j = 2 \/ j = 3) /\ d[1] = a
      BY <2>2, <2>3, SMT
    <2>5. h.need = 2 /\ Value(h, d, 0) = c
      <3>1. h = Header(a) /\ d[0 + 2] \in Cont /\ d[0 + 3] \in Cont /\ c = Three(a, d[0 + 2], d[0 + 3])
        BY <1>1, <2>3, <2>4
      <3>2. QED
        BY <2>3, <3>1, ThreeBytes
    <2>6. Accepts(c, 2)
      BY <1>5, SMT DEF Accepts
    <2>7. utf8_next(d, 0) = [used |-> 3, cp |-> c]
      BY <1>1, <2>3, <2>4, <2>5, <2>6, Reads
    <2>8. QED
      BY <2>4, <2>7
  <1>6. CASE c >= 65536
    <2>1. PICK a, x, y, z : /\ a = 240 + c \div 262144 /\ x = 128 + ((c \div 4096) % 64)
                            /\ y = 128 + ((c \div 64) % 64) /\ z = 128 + ((c \div 1) % 64)
      OBVIOUS
    <2>2. d = <<a, x, y, z>>
      BY <1>6, <2>1, SMT DEF utf8_encode, Payload
    <2>3. c <= 1114111
      BY SMT DEF Invalid
    <2>4. /\ a \in Lead4 /\ x \in Cont /\ y \in Cont /\ z \in Cont /\ a \in Byte /\ x \in Byte
          /\ y \in Byte /\ z \in Byte /\ c = Four(a, x, y, z)
      <3>1. a \in Lead4 /\ a \in Byte
        BY <1>6, <2>1, <2>3, SMT DEF Lead4, Byte
      <3>2. x \in Cont /\ x \in Byte
        BY <2>1, SMT DEF Cont, Byte
      <3>3. y \in Cont /\ y \in Byte
        BY <2>1, SMT DEF Cont, Byte
      <3>4. z \in Cont /\ z \in Byte
        BY <2>1, SMT DEF Cont, Byte
      <3>5. c = Four(a, x, y, z)
        BY <2>1, SMT DEF Four
      <3>6. QED
        BY <3>1, <3>2, <3>3, <3>4, <3>5
    <2>5. /\ d \in Seq(Byte) /\ Len(d) = 4 /\ d[0 + 1] = a /\ d[0 + 2] = x /\ d[0 + 3] = y /\ d[0 + 4] = z
          /\ 0 + 4 <= Len(d) /\ 4 \in 1 .. 4 /\ 4 - 1 = 3 /\ (\A j \in 2 .. 4 : j = 2 \/ j = 3 \/ j = 4)
          /\ d[1] = a
      BY <2>2, <2>4, SMT
    <2>6. h.need = 3 /\ Value(h, d, 0) = c
      <3>1. /\ h = Header(a) /\ d[0 + 2] \in Cont /\ d[0 + 3] \in Cont /\ d[0 + 4] \in Cont
            /\ c = Four(a, d[0 + 2], d[0 + 3], d[0 + 4])
        BY <1>1, <2>4, <2>5
      <3>2. QED
        BY <2>4, <3>1, FourBytes
    <2>7. Accepts(c, 3)
      BY <1>6, SMT DEF Accepts
    <2>8. utf8_next(d, 0) = [used |-> 4, cp |-> c]
      BY <1>1, <2>4, <2>5, <2>6, <2>7, Reads
    <2>9. QED
      BY <2>5, <2>8
  <1>7. QED
    BY <1>3, <1>4, <1>5, <1>6, SMT

(* The inductive invariant: what was read so far is what the code points    *)
(* encode to, a rejected string is one uinx_utf8_next rejects where it      *)
(* stopped, and an encoded string is unread or read as its code point.      *)
CharType == [cp : Nat, end : Nat]
TextInv ==
    /\ bytes \in Seq(Byte) /\ off \in 0 .. Len(bytes) /\ chars \in Seq(CharType)
    /\ status \in {"reading", "ok", "EILSEQ"}
    /\ DecodesWhatEncodes
    /\ status = "EILSEQ" => utf8_next(bytes, off).used = 0
    /\ from = "encode" =>
          /\ char \in Nat /\ ~Invalid(char) /\ bytes = utf8_encode(char)
          /\ \/ off = 0 /\ chars = <<>> /\ status = "reading"
             \/ off = Len(bytes) /\ Len(chars) = 1 /\ chars[1].cp = char /\ status # "EILSEQ"

(* Before the first turn of the loop nothing was read.                     *)
LEMMA NothingRead ==
    ASSUME off = 0, chars = <<>>
    PROVE  DecodesWhatEncodes /\ chars \in Seq(CharType)
  <1>1. DOMAIN chars = {} /\ Len(chars) = 0 /\ Len(chars) + 1 = 1 /\ chars \in Seq(CharType)
    BY SMT
  <1>2. QED
    BY <1>1 DEF DecodesWhatEncodes, Begin

(* Encoded and raw strings satisfy the invariant.                          *)
LEMMA TextInvInit ==
    ASSUME Utf8Assumption, Encoded \/ Raw
    PROVE  TextInv
  <1>1. CASE Encoded
    <2>1. PICK c \in CodePoints : ~Invalid(c) /\ Start("encode", c, utf8_encode(c))
      BY <1>1 DEF Encoded
    <2>2. c \in Nat
      BY <2>1 DEF Utf8Assumption
    <2>3. /\ from = "encode" /\ char = c /\ bytes = utf8_encode(c) /\ off = 0 /\ chars = <<>>
          /\ status = "reading"
      BY <2>1 DEF Start
    <2>4. bytes \in Seq(Byte)
      BY <2>1, <2>2, <2>3, RoundTrip
    <2>5. off \in 0 .. Len(bytes)
      BY <2>3, <2>4, SMT
    <2>6. QED
      BY <2>1, <2>2, <2>3, <2>4, <2>5, NothingRead DEF TextInv
  <1>2. CASE Raw
    <2>1. PICK n \in 1 .. MaxBytes : \E d \in [1 .. n -> Bytes] : Start("bytes", -1, d)
      BY <1>2 DEF Raw
    <2>2. PICK d \in [1 .. n -> Bytes] : Start("bytes", -1, d)
      BY <2>1
    <2>3. from = "bytes" /\ bytes = d /\ off = 0 /\ chars = <<>> /\ status = "reading"
      BY <2>2 DEF Start
    <2>4. d \in Seq(Byte)
      <3>1. n \in Nat /\ Bytes \subseteq Byte
        BY SMT DEF Utf8Assumption, Byte
      <3>2. d \in [1 .. n -> Byte]
        BY <3>1
      <3>3. QED
        BY <3>1, <3>2, SMT
    <2>5. off \in 0 .. Len(bytes)
      BY <2>3, <2>4, SMT
    <2>6. QED
      BY <2>3, <2>4, <2>5, NothingRead DEF TextInv
  <1>3. QED
    BY <1>1, <1>2

(* One more code point is read.                                             *)
LEMMA OneMore ==
    ASSUME TextInv, NEW r, r = utf8_next(bytes, off), r.used # 0, off < Len(bytes),
           off' = off + r.used, chars' = Append(chars, [cp |-> r.cp, end |-> off']), bytes' = bytes
    PROVE  /\ DecodesWhatEncodes' /\ chars' \in Seq(CharType) /\ off' \in 0 .. Len(bytes')
           /\ Len(chars') = Len(chars) + 1 /\ chars'[Len(chars) + 1].cp = r.cp
  <1>1. bytes \in Seq(Byte) /\ off \in Nat /\ chars \in Seq(CharType) /\ Len(chars) \in Nat
    BY SMT DEF TextInv
  <1>2. /\ r.used \in 1 .. 4 /\ off + r.used <= Len(bytes) /\ r.cp \in Nat
        /\ SubSeq(bytes, off + 1, off + r.used) = utf8_encode(r.cp)
    <2>1. PICK d \in Seq(Byte), i \in Nat : d = bytes /\ i = off
      BY <1>1
    <2>2. i < Len(d) /\ r = utf8_next(d, i)
      BY <2>1
    <2>3. /\ r.used \in 1 .. 4 /\ i + r.used <= Len(d) /\ r.cp \in Nat
          /\ SubSeq(d, i + 1, i + r.used) = utf8_encode(r.cp)
      BY <2>2, NextReads
    <2>4. QED
      BY <2>1, <2>3
  <1>3. off' \in 0 .. Len(bytes') /\ off' \in Nat
    <2>1. PICK u, l : u = r.used /\ l = Len(bytes)
      OBVIOUS
    <2>2. u \in 1 .. 4 /\ l \in Nat /\ off + u <= l
      BY <1>1, <1>2, <2>1
    <2>3. off + u \in 0 .. l /\ off + u \in Nat
      BY <1>1, <2>2, SMT
    <2>4. QED
      BY <2>1, <2>3
  <1>4. PICK n \in Nat : n = Len(chars)
    BY <1>1
  <1>5. PICK e : e = [cp |-> r.cp, end |-> off']
    OBVIOUS
  <1>6. e \in CharType /\ e.cp = r.cp /\ e.end = off'
    BY <1>2, <1>3, <1>5 DEF CharType
  <1>7. /\ chars' \in Seq(CharType) /\ Len(chars') = n + 1 /\ DOMAIN chars' = 1 .. n + 1
        /\ DOMAIN chars = 1 .. n
        /\ chars'[n + 1] = e /\ \A k \in 1 .. n : chars'[k] = chars[k]
    BY <1>1, <1>4, <1>5, <1>6, SMT
  <1>8. Begin(n + 1)' = off
    <2>1. off = Begin(n + 1)
      BY <1>4 DEF TextInv, DecodesWhatEncodes
    <2>2. CASE n = 0
      BY <2>1, <2>2 DEF Begin
    <2>3. CASE n # 0
      <3>1. n + 1 # 1 /\ (n + 1) - 1 = n /\ n \in 1 .. n
        BY <2>3, SMT
      <3>2. QED
        BY <1>7, <2>1, <3>1 DEF Begin
    <2>4. QED
      BY <2>2, <2>3
  <1>9. Begin(Len(chars) + 1)' = off'
    <2>1. Len(chars') + 1 = n + 2 /\ n + 2 # 1 /\ (n + 2) - 1 = n + 1
      BY <1>7, SMT
    <2>2. QED
      BY <1>6, <1>7, <2>1 DEF Begin
  <1>10. ASSUME NEW k \in 1 .. n + 1
         PROVE  SubSeq(bytes', Begin(k)' + 1, chars'[k].end) = utf8_encode(chars'[k].cp)
    <2>1. CASE k = n + 1
      BY <1>2, <1>6, <1>7, <1>8, <2>1
    <2>2. CASE k # n + 1
      <3>1. k \in 1 .. n /\ (k # 1 => k - 1 \in 1 .. n)
        BY <2>2, SMT
      <3>2. Begin(k)' = Begin(k)
        BY <1>7, <3>1 DEF Begin
      <3>3. SubSeq(bytes, Begin(k) + 1, chars[k].end) = utf8_encode(chars[k].cp)
        BY <1>7, <3>1 DEF TextInv, DecodesWhatEncodes
      <3>4. QED
        BY <1>7, <3>1, <3>2, <3>3
    <2>3. QED
      BY <2>1, <2>2
  <1>11. DecodesWhatEncodes'
    BY <1>7, <1>9, <1>10 DEF DecodesWhatEncodes
  <1>12. QED
    BY <1>3, <1>4, <1>6, <1>7, <1>11

(* A turn of the loop of uinx_utf8_validate keeps it.                       *)
LEMMA TextInvStep ==
    ASSUME TextInv, [Validate]_textVars
    PROVE  TextInv'
  <1>1. CASE UNCHANGED textVars
    BY <1>1 DEF TextInv, textVars, DecodesWhatEncodes, Begin
  <1>2. CASE Validate
    <2>1. status = "reading" /\ from' = from /\ char' = char /\ bytes' = bytes
      BY <1>2 DEF Validate
    <2>2. CASE off = Len(bytes) /\ status' = "ok" /\ off' = off /\ chars' = chars
      <3>1. DecodesWhatEncodes'
        BY <2>1, <2>2 DEF TextInv, DecodesWhatEncodes, Begin
      <3>2. from = "encode" => Len(bytes) # 0
        <4>1. from = "encode" => Len(bytes) \in 1 .. 4
          BY RoundTrip DEF TextInv
        <4>2. QED
          BY <4>1, SMT
      <3>3. QED
        BY <2>1, <2>2, <3>1, <3>2 DEF TextInv
    <2>3. CASE off # Len(bytes)
      <3>1. off < Len(bytes)
        BY <2>3, SMT DEF TextInv
      <3>2. PICK r : r = utf8_next(bytes, off)
        OBVIOUS
      <3>3. CASE r.used = 0 /\ status' = "EILSEQ" /\ off' = off /\ chars' = chars
        <4>1. DecodesWhatEncodes'
          BY <2>1, <3>3 DEF TextInv, DecodesWhatEncodes, Begin
        <4>2. from # "encode"
          <5>1. SUFFICES ASSUME from = "encode" PROVE FALSE
            OBVIOUS
          <5>2. off = 0 /\ char \in Nat /\ ~Invalid(char) /\ bytes = utf8_encode(char)
            BY <2>3, <5>1 DEF TextInv
          <5>3. Len(bytes) \in 1 .. 4 /\ r = [used |-> Len(bytes), cp |-> char]
            BY <3>2, <5>2, RoundTrip
          <5>4. r.used # 0
            BY <5>3, SMT
          <5>5. QED
            BY <3>3, <5>4
        <4>3. QED
          BY <2>1, <3>2, <3>3, <4>1, <4>2 DEF TextInv
      <3>4. CASE /\ r.used # 0 /\ off' = off + r.used
                 /\ chars' = Append(chars, [cp |-> r.cp, end |-> off']) /\ status' = status
        <4>1. /\ DecodesWhatEncodes' /\ chars' \in Seq(CharType) /\ off' \in 0 .. Len(bytes')
              /\ Len(chars') = Len(chars) + 1 /\ chars'[Len(chars) + 1].cp = r.cp
          BY <2>1, <3>1, <3>2, <3>4, OneMore
        <4>2. from = "encode" => off' = Len(bytes) /\ Len(chars') = 1 /\ chars'[1].cp = char
          <5>1. SUFFICES ASSUME from = "encode" PROVE off' = Len(bytes) /\ Len(chars') = 1 /\ chars'[1].cp = char
            OBVIOUS
          <5>2. off = 0 /\ chars = <<>> /\ char \in Nat /\ ~Invalid(char) /\ bytes = utf8_encode(char)
            BY <2>3, <5>1 DEF TextInv
          <5>3. Len(bytes) \in 1 .. 4 /\ r = [used |-> Len(bytes), cp |-> char]
            BY <3>2, <5>2, RoundTrip
          <5>4. off' = Len(bytes) /\ Len(chars) + 1 = 1
            BY <3>4, <5>2, <5>3, SMT
          <5>5. QED
            BY <4>1, <5>3, <5>4
        <4>3. QED
          BY <2>1, <3>4, <4>1, <4>2 DEF TextInv
      <3>5. QED
        BY <1>2, <2>3, <3>2, <3>3, <3>4 DEF Validate
    <2>4. QED
      BY <1>2, <2>2, <2>3 DEF Validate
  <1>3. QED
    BY <1>1, <1>2

(* uinx_utf8_validate accepts exactly the well-formed strings: what         *)
(* uinx_utf8_next reads, uinx_utf8_encode writes back byte for byte; what   *)
(* it rejects is ill-formed by the standard's table; and what was encoded   *)
(* decodes to its code point.  For every string and every code point.       *)
THEOREM TextDecodesExactly ==
    ASSUME Utf8Assumption
    PROVE  TextSpec => []DecodesExactly
  <1>1. TextInv => DecodesExactly
    <2> SUFFICES ASSUME TextInv PROVE DecodesExactly
      OBVIOUS
    <2>1. ASSUME status = "EILSEQ", NEW n \in off + 1 .. Len(bytes) PROVE ~WellFormed(SubSeq(bytes, off + 1, n))
      <3>1. bytes \in Seq(Byte) /\ off \in Nat /\ utf8_next(bytes, off).used = 0
        BY <2>1, SMT DEF TextInv
      <3>2. QED
        BY <3>1, WellFormedIsRead
    <2>2. from = "encode" /\ status # "reading" => status = "ok" /\ Len(chars) = 1 /\ chars[1].cp = char
      BY DEF TextInv
    <2>3. QED
      BY <2>1, <2>2 DEF TextInv, DecodesExactly, RejectsOnlyIllFormed
  <1>2. (Encoded \/ Raw) => TextInv
    BY TextInvInit
  <1>3. TextInv /\ [Validate]_textVars => TextInv'
    BY TextInvStep
  <1>4. QED
    BY <1>1, <1>2, <1>3, PTL DEF TextSpec
=============================================================================
