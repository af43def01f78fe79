--------------------------- MODULE CollectionProofs ---------------------------
(***************************************************************************)
(* The collections of the runtime (runtime/collections.c), for every width *)
(* of size_t, every table and every hash: the vector's elements lie in its *)
(* block, every probe of the hash map ends, and it implements a map.       *)
(***************************************************************************)
EXTENDS HashMap, Vec, FiniteSetTheorems, WellFoundedInduction, TLAPS
-----------------------------------------------------------------------------
(* Induction over the naturals, for a set in place of a predicate.          *)
LEMMA Least ==
    ASSUME NEW T \in SUBSET Nat, T # {}
    PROVE  \E n \in T : \A m \in T : n <= m
  <1>1. PICK R : R = OpToRel(<, Nat)
    OBVIOUS
  <1>2. IsWellFoundedOn(R, Nat)
    BY <1>1, NatLessThanWellFounded
  <1>3. PICK n \in T : \A m \in T : ~(<<m, n>> \in R)
    BY <1>2, WFMin
  <1>4. \A m \in T : ~(m < n)
    BY <1>1, <1>3 DEF OpToRel
  <1>5. QED
    BY <1>4

LEMMA SetInduction ==
    ASSUME NEW T \in SUBSET Nat, 0 \in T, \A n \in T : n + 1 \in T
    PROVE  T = Nat
  <1> SUFFICES ASSUME Nat \ T # {} PROVE FALSE
    OBVIOUS
  <1>1. PICK n \in Nat \ T : \A m \in Nat \ T : n <= m
    BY Least
  <1>2. n # 0 /\ n - 1 \in Nat /\ n - 1 \in T
    BY <1>1
  <1>3. QED
    BY <1>1, <1>2
-----------------------------------------------------------------------------
(* mul_overflow_size: a product that is said to fit does not wrap.          *)
LEMMA Fits ==
    ASSUME VecAssumption, NEW a \in 0 .. SizeMax, NEW b \in 0 .. SizeMax, ~mul_overflow_size(a, b)
    PROVE  a * b \in Nat /\ a * b <= SizeMax
  <1>1. CASE a = 0
    BY <1>1 DEF VecAssumption
  <1>2. CASE a # 0
    <2>1. PICK q \in Nat : q = SizeMax \div a
      BY <1>2 DEF VecAssumption
    <2>2. a * q <= SizeMax
      BY <1>2, <2>1 DEF VecAssumption
    <2>3. b <= q
      BY <1>2, <2>1 DEF mul_overflow_size
    <2>4. a * b <= a * q
      BY <1>2, <2>1, <2>3
    <2>5. QED
      BY <2>1, <2>2, <2>4 DEF VecAssumption
  <1>3. QED
    BY <1>1, <1>2

LEMMA NoWrap ==
    ASSUME VecAssumption, NEW a \in Nat, NEW b \in Nat, a * b <= SizeMax
    PROVE  Product(a, b) = a * b
  <1>1. PICK p \in Nat : p = a * b
    OBVIOUS
  <1>2. p % (SizeMax + 1) = p
    BY <1>1 DEF VecAssumption
  <1>3. QED
    BY <1>1, <1>2 DEF Product

(* reserve's loop: it is total, and ends at a capacity that is enough.      *)
LEMMA GrownEnough ==
    ASSUME VecAssumption, NEW need \in 1 .. SizeMax, cap \in 0 .. SizeMax
    PROVE  NewCap(need) \in need .. SizeMax
  <1> DEFINE Step(f, c) == IF c >= need THEN c
                           ELSE IF c > SizeMax \div 2 THEN need ELSE f[2 * c]
             From(m) == (SizeMax - m + 1) .. SizeMax
  <1>1. SizeMax \in Nat /\ From(0) = {} /\ From(SizeMax) = 1 .. SizeMax
    BY DEF VecAssumption
  <1>2. \A m \in Nat : m + 1 <= SizeMax =>
           /\ SizeMax - m \in 1 .. SizeMax
           /\ From(m + 1) = From(m) \cup {SizeMax - m}
           /\ From(m) \subseteq From(m + 1) /\ From(m) \subseteq 1 .. SizeMax
           /\ \A c \in From(m + 1) : ~(c >= need) /\ ~(c > SizeMax \div 2) => 2 * c \in From(m)
    BY <1>1
  <1>3. PICK f : f = [c \in 1 .. SizeMax |-> Step(f, c)]
    <2> DEFINE T == {m \in Nat : m <= SizeMax => \E f : f = [c \in From(m) |-> Step(f, c)]}
    <2>1. 0 \in T
      <3>1. PICK f : f = [c \in {} |-> c]
        OBVIOUS
      <3>2. f = [c \in From(0) |-> Step(f, c)]
        BY <1>1, <3>1
      <3>3. QED
        BY <3>2
    <2>2. ASSUME NEW m \in T PROVE m + 1 \in T
      <3> SUFFICES ASSUME m + 1 <= SizeMax
                   PROVE  \E g : g = [c \in From(m + 1) |-> Step(g, c)]
        OBVIOUS
      <3>1. PICK f : f = [c \in From(m) |-> Step(f, c)]
        BY <1>1
      <3>2. PICK g : g = [c \in From(m + 1) |-> Step(f, c)]
        OBVIOUS
      <3>3. PICK small, large : small = From(m) /\ large = From(m + 1)
        OBVIOUS
      <3>4. \A c \in small : g[c] = f[c]
        BY <1>2, <3>1, <3>2, <3>3
      <3>5. \A c \in large : Step(g, c) = Step(f, c)
        BY <1>2, <3>3, <3>4
      <3>6. g = [c \in large |-> Step(g, c)]
        BY <3>2, <3>3, <3>5
      <3>7. QED
        BY <3>3, <3>6
    <2>3. T = Nat
      <3> HIDE DEF T
      <3>1. QED
        BY <2>1, <2>2, SetInduction DEF T
    <2>4. PICK all : all = From(SizeMax)
      OBVIOUS
    <2>5. \E f : f = [c \in all |-> Step(f, c)]
      <3>1. SizeMax \in T
        BY <1>1, <2>3
      <3>2. \E f : f = [c \in From(SizeMax) |-> Step(f, c)]
        BY <1>1, <3>1
      <3>3. QED
        BY <2>4, <3>2
    <2>6. QED
      BY <1>1, <2>4, <2>5
  <1>4. PICK h : h = CHOOSE g : g = [c \in 1 .. SizeMax |-> Step(g, c)]
    OBVIOUS
  <1>5. h = [c \in 1 .. SizeMax |-> Step(h, c)]
    BY <1>3, <1>4
  <1>6. \A c \in 1 .. SizeMax : h[c] \in need .. SizeMax
    <2> DEFINE T == {m \in Nat : m <= SizeMax => \A c \in From(m) : h[c] \in need .. SizeMax}
    <2>1. 0 \in T
      BY <1>1
    <2>2. ASSUME NEW m \in T PROVE m + 1 \in T
      <3> SUFFICES ASSUME m + 1 <= SizeMax, NEW c \in From(m + 1)
                   PROVE  h[c] \in need .. SizeMax
        OBVIOUS
      <3>1. \A b \in From(m) : h[b] \in need .. SizeMax
        BY <1>1
      <3>2. c \in 1 .. SizeMax /\ (~(c >= need) /\ ~(c > SizeMax \div 2) => 2 * c \in From(m))
        BY <1>1, <1>2
      <3>3. h[c] = Step(h, c)
        BY <1>5, <3>2
      <3>4. QED
        BY <1>1, <3>1, <3>2, <3>3
    <2>3. T = Nat
      <3> HIDE DEF T
      <3>1. QED
        BY <2>1, <2>2, SetInduction DEF T
    <2>4. QED
      BY <1>1, <2>3
  <1>7. NewCap(need) = h[IF cap = 0 THEN InitialCap ELSE cap]
    BY <1>4 DEF NewCap
  <1>8. QED
    BY <1>6, <1>7 DEF VecAssumption
(* uinx_vec_reserve, whatever overflows and whatever allocation fails.      *)
LEMMA ReserveKeeps ==
    ASSUME VecAssumption, VecInv, elem_size # 0, UNCHANGED elem_size,
           NEW add \in 0 .. SizeMax, NEW n \in 0 .. len + add, Reserve(add, n)
    PROVE  VecInv'
  <1>1. PICK need : need = len + add
    OBVIOUS
  <1>2. SizeMax \in Nat /\ elem_size \in 1 .. SizeMax /\ cap \in 0 .. SizeMax /\ len \in 0 .. cap
        /\ need \in Nat
    BY <1>1 DEF VecAssumption, VecInv
  <1>3. CASE UNCHANGED <<len, cap, data, block, claimed, actual>>
    BY <1>2, <1>3 DEF VecInv
  <1>4. CASE need <= cap /\ len' = n /\ UNCHANGED <<cap, data, block, claimed, actual>>
    BY <1>1, <1>2, <1>4 DEF VecInv
  <1>5. CASE /\ add <= SizeMax - len /\ need > cap
             /\ ~mul_overflow_size(cap, elem_size) /\ ~mul_overflow_size(NewCap(need), elem_size)
             /\ Realloc(Product(NewCap(need), elem_size))
             /\ cap' = NewCap(need) /\ len' = n
    <2>1. PICK c : c = NewCap(need)
      OBVIOUS
    <2>2. need \in 1 .. SizeMax
      BY <1>1, <1>2, <1>5
    <2>3. c \in need .. SizeMax
      BY <1>2, <2>1, <2>2, GrownEnough
    <2>4. c \in 1 .. SizeMax /\ c \in Nat /\ elem_size \in Nat
      BY <1>2, <2>2, <2>3
    <2>5. c * elem_size <= SizeMax /\ Product(c, elem_size) = c * elem_size
      BY <1>2, <1>5, <2>1, <2>4, Fits, NoWrap
    <2>6. cap * elem_size <= SizeMax /\ Product(cap, elem_size) = cap * elem_size
      BY <1>2, NoWrap DEF VecInv
    <2>7. /\ claimed' = actual' /\ data' = "live" /\ block' = c * elem_size
      BY <1>5, <2>1, <2>5, <2>6 DEF Realloc, VecInv
    <2>8. cap' = c /\ len' = n /\ n \in 0 .. need /\ elem_size' = elem_size
      BY <1>1, <1>5, <2>1
    <2>9. len' \in 0 .. cap' /\ cap' > 0 /\ cap' \in 0 .. SizeMax
      BY <1>2, <2>2, <2>3, <2>4, <2>8
    <2>10. QED
      BY <1>2, <2>5, <2>7, <2>8, <2>9 DEF VecInv
  <1>6. CASE ReallocFails /\ UNCHANGED <<len, cap>>
    <2>1. data' = data /\ UNCHANGED <<block, claimed, actual>>
      BY <1>6 DEF ReallocFails, VecAssumption
    <2>2. QED
      BY <1>3, <1>6, <2>1
  <1>7. QED
    BY <1>1, <1>3, <1>4, <1>5, <1>6 DEF Reserve

(* Vector: over any sequence of calls neither an overflow of size_t nor an  *)
(* allocation that fails leaves an element outside the block, or tells the  *)
(* allocator a size the block does not have.                                *)
THEOREM VecElementsInBlock ==
    ASSUME VecAssumption
    PROVE  VecSpec => []VecSafe
  <1>1. VecInit => VecInv
    BY DEF VecInit, VecInv, VecAssumption
  <1>2. ASSUME VecInv, [VecNext]_(vecVars) PROVE VecInv'
    <2>1. SizeMax \in Nat /\ 1 \in 0 .. SizeMax
      BY DEF VecAssumption
    <2>2. ASSUME NEW n \in 0 .. SizeMax, vec_init(n) PROVE VecInv'
      BY <1>2, <2>1, <2>2 DEF vec_init, VecInv
    <2>3. ASSUME NEW n \in 0 .. SizeMax, vec_reserve(n) PROVE VecInv'
      <3>1. len \in 0 .. len + n
        BY <1>2, <2>1 DEF VecInv
      <3>2. QED
        BY <1>2, <2>3, <3>1, ReserveKeeps DEF vec_reserve
    <2>4. CASE vec_push
      <3>1. len + 1 \in 0 .. len + 1
        BY <1>2, <2>1 DEF VecInv
      <3>2. QED
        BY <1>2, <2>1, <2>4, <3>1, ReserveKeeps DEF vec_push
    <2>5. CASE vec_pop
      BY <1>2, <2>1, <2>5 DEF vec_pop, VecInv
    <2>6. CASE vec_clear
      BY <1>2, <2>1, <2>6 DEF vec_clear, VecInv
    <2>7. CASE vec_drop
      <3>1. Product(cap, elem_size) = block
        BY <1>2, <2>1, NoWrap DEF VecInv
      <3>2. claimed' = actual' /\ data' = "null" /\ block' = 0 /\ len' = 0 /\ cap' = 0
            /\ elem_size' = elem_size
        BY <1>2, <2>7, <3>1 DEF vec_drop, VecInv
      <3>3. QED
        BY <1>2, <2>1, <3>2 DEF VecInv
    <2>8. CASE UNCHANGED vecVars
      BY <1>2, <2>8 DEF vecVars, VecInv
    <2>9. QED
      BY <1>2, <2>2, <2>3, <2>4, <2>5, <2>6, <2>7, <2>8 DEF VecNext
  <1>3. VecInv /\ SizeMax \in Nat => VecSafe
    BY DEF VecInv, VecSafe, ElementsInBlock, SizedFree
  <1>4. QED
    BY <1>1, <1>2, <1>3, PTL DEF VecSpec, VecAssumption
-----------------------------------------------------------------------------
(* A table of c slots: entries of keys and values,                          *)
Table(t, c) ==
    /\ DOMAIN t = 0 .. c - 1
    /\ \A i \in 0 .. c - 1 : /\ t[i].state \in {0, 1, 2}
                             /\ t[i].state = 1 => t[i].key \in Keys /\ t[i].value \in Values

(* each on the probe of its key with no empty slot before it,               *)
Probed(t, c) ==
    \A i \in 0 .. c - 1 : t[i].state = 1 =>
        \E d \in 0 .. c - 1 : /\ Slot(t[i].key, d, c) = i
                              /\ \A b \in 0 .. d - 1 : t[Slot(t[i].key, b, c)].state # 0

(* and no two of the same key.                                              *)
OneSlot(t, c) ==
    \A i, j \in 0 .. c - 1 : t[i].state = 1 /\ t[j].state = 1 /\ t[i].key = t[j].key => i = j

Sound(t, c) == Table(t, c) /\ Probed(t, c) /\ OneSlot(t, c)

InState(t, c, s) == {i \in 0 .. c - 1 : t[i].state = s}

HashInv ==
    /\ mapCap \in Nat /\ Sound(slots, mapCap)
    /\ mapLen \in Nat /\ tombs \in Nat
    /\ live => /\ mapLen = Cardinality(InState(slots, mapCap, 1))
               /\ tombs = Cardinality(InState(slots, mapCap, 2))
               /\ mapLen + tombs < mapCap
    /\ buffers = Cardinality(InState(slots, mapCap, 1))
    /\ call.ret # "hang"
-----------------------------------------------------------------------------
(* The remainder is the one number below c that differs from x by a         *)
(* multiple of c.                                                           *)
LEMMA Remainder ==
    ASSUME NEW x \in Nat, NEW c \in Nat \ {0}, NEW q \in Nat, NEW r \in 0 .. c - 1, x = c * q + r
    PROVE  x % c = r
  <1>1. PICK m \in 0 .. c - 1 : m = x % c
    OBVIOUS
  <1>2. PICK p \in Nat : p = x \div c
    OBVIOUS
  <1>3. x = c * p + m
    BY <1>1, <1>2
  <1>4. CASE p >= q + 1
    <2>1. c * p >= c * (q + 1)
      BY <1>2, <1>4
    <2>2. c * (q + 1) = c * q + c
      OBVIOUS
    <2>3. QED
      BY <1>1, <1>2, <1>3, <2>1, <2>2
  <1>5. CASE q >= p + 1
    <2>1. c * q >= c * (p + 1)
      BY <1>2, <1>5
    <2>2. c * (p + 1) = c * p + c
      BY <1>2
    <2>3. QED
      BY <1>1, <1>2, <1>3, <2>1, <2>2
  <1>6. CASE p = q
    BY <1>1, <1>3, <1>6
  <1>7. QED
    BY <1>2, <1>4, <1>5, <1>6

(* A probe is a walk round the table: it starts at the home slot, and goes  *)
(* back to slot 0 after the last.                                           *)
LEMMA SlotAt ==
    ASSUME HashAssumption, NEW k \in Keys, NEW c \in Nat \ {0}
    PROVE  \E r \in 0 .. c - 1 : \A d \in 0 .. c - 1 : Slot(k, d, c) = IF r + d < c THEN r + d ELSE r + d - c
  <1>1. PICK h \in Nat : h = Hash[k]
    BY DEF HashAssumption
  <1>2. PICK r \in 0 .. c - 1, q \in Nat : h = c * q + r
    <2>1. PICK m \in 0 .. c - 1 : m = h % c
      OBVIOUS
    <2>2. PICK p \in Nat : p = h \div c
      OBVIOUS
    <2>3. h = c * p + m
      BY <2>1, <2>2
    <2>4. QED
      BY <2>1, <2>2, <2>3
  <1>3. ASSUME NEW d \in 0 .. c - 1 PROVE Slot(k, d, c) = IF r + d < c THEN r + d ELSE r + d - c
    <2>1. CASE r + d < c
      <3>1. h + d \in Nat /\ h + d = c * q + (r + d) /\ r + d \in 0 .. c - 1
        BY <1>1, <1>2, <2>1
      <3>2. (h + d) % c = r + d
        BY <3>1, <1>2, Remainder
      <3>3. QED
        BY <1>1, <2>1, <3>2 DEF Slot
    <2>2. CASE r + d >= c
      <3>1. h + d = c * q + c + (r + d - c) /\ r + d - c \in 0 .. c - 1 /\ h + d \in Nat
        BY <1>1, <1>2, <2>2
      <3>2. c * (q + 1) = c * q + c /\ q + 1 \in Nat
        BY <1>2
      <3>3. h + d = c * (q + 1) + (r + d - c)
        BY <3>1, <3>2
      <3>4. (h + d) % c = r + d - c
        BY <3>1, <3>2, <3>3, Remainder
      <3>5. QED
        BY <1>1, <1>2, <2>2, <3>4 DEF Slot
    <2>3. QED
      BY <1>2, <2>1, <2>2
  <1>4. QED
    BY <1>2, <1>3

LEMMA SlotProbe ==
    ASSUME HashAssumption, NEW k \in Keys, NEW c \in Nat \ {0}
    PROVE  /\ \A d \in 0 .. c - 1 : Slot(k, d, c) \in 0 .. c - 1
           /\ \A d, e \in 0 .. c - 1 : Slot(k, d, c) = Slot(k, e, c) => d = e
           /\ \A i \in 0 .. c - 1 : \E d \in 0 .. c - 1 : Slot(k, d, c) = i
  <1>1. PICK r \in 0 .. c - 1 : \A d \in 0 .. c - 1 : Slot(k, d, c) = IF r + d < c THEN r + d ELSE r + d - c
    BY SlotAt
  <1>2. \A d \in 0 .. c - 1 : Slot(k, d, c) \in 0 .. c - 1
    BY <1>1
  <1>3. \A d, e \in 0 .. c - 1 : Slot(k, d, c) = Slot(k, e, c) => d = e
    BY <1>1
  <1>4. ASSUME NEW i \in 0 .. c - 1 PROVE \E d \in 0 .. c - 1 : Slot(k, d, c) = i
    <2>1. CASE i >= r
      <3>1. i - r \in 0 .. c - 1 /\ r + (i - r) < c /\ r + (i - r) = i
        BY <1>1, <2>1
      <3>2. QED
        BY <1>1, <3>1
    <2>2. CASE i < r
      <3>1. i - r + c \in 0 .. c - 1 /\ ~(r + (i - r + c) < c) /\ r + (i - r + c) - c = i
        BY <1>1, <2>2
      <3>2. QED
        BY <1>1, <3>1
    <2>3. QED
      BY <1>1, <2>1, <2>2
  <1>5. QED
    BY <1>2, <1>3, <1>4

LEMMA MinOf ==
    ASSUME NEW T \in SUBSET Nat, T # {}
    PROVE  Min(T) \in T /\ \A d \in T : Min(T) <= d
  BY Least DEF Min
(* A probe for k stops, where the table has an empty slot, and stops at the *)
(* entry of k if there is one, else at an empty slot.                       *)
LEMMA ProbeStops ==
    ASSUME HashAssumption, NEW c \in Nat \ {0}, NEW t, Sound(t, c), InState(t, c, 0) # {}, NEW k \in Keys
    PROVE  /\ ~Hangs(k, t, c)
           /\ \E m \in 0 .. c - 1 :
                 /\ m = Min(Stops(k, t, c)) /\ Find(k, t, c) = Slot(k, m, c)
                 /\ t[Slot(k, m, c)].state = 0 \/ key_eq(t[Slot(k, m, c)], k)
                 /\ \A b \in 0 .. m - 1 : t[Slot(k, b, c)].state # 0 /\ ~key_eq(t[Slot(k, b, c)], k)
  <1>1. PICK S : S = Stops(k, t, c)
    OBVIOUS
  <1>2. \A d : d \in S <=> d \in 0 .. c - 1 /\ (t[Slot(k, d, c)].state = 0 \/ key_eq(t[Slot(k, d, c)], k))
    BY <1>1 DEF Stops
  <1>3. PICK i \in 0 .. c - 1 : t[i].state = 0
    BY DEF InState
  <1>4. PICK d \in 0 .. c - 1 : Slot(k, d, c) = i
    BY SlotProbe
  <1>5. d \in S /\ S \in SUBSET Nat /\ S # {}
    BY <1>2, <1>3, <1>4
  <1>6. PICK m : m = Min(S)
    OBVIOUS
  <1>7. m \in S /\ \A e \in S : m <= e
    BY <1>5, <1>6, MinOf
  <1>8. m \in 0 .. c - 1 /\ (t[Slot(k, m, c)].state = 0 \/ key_eq(t[Slot(k, m, c)], k))
    BY <1>2, <1>7
  <1>9. \A b \in 0 .. m - 1 : b \in 0 .. c - 1 /\ ~(m <= b)
    BY <1>8
  <1>10. \A b \in 0 .. m - 1 : t[Slot(k, b, c)].state # 0 /\ ~key_eq(t[Slot(k, b, c)], k)
    BY <1>2, <1>7, <1>9
  <1>11. Find(k, t, c) = Slot(k, m, c) /\ ~Hangs(k, t, c)
    BY <1>1, <1>5, <1>6 DEF Find, Hangs
  <1>12. QED
    BY <1>1, <1>6, <1>8, <1>10, <1>11

LEMMA FindsEntry ==
    ASSUME HashAssumption, NEW c \in Nat \ {0}, NEW t, Sound(t, c), InState(t, c, 0) # {},
           NEW i \in 0 .. c - 1, t[i].state = 1
    PROVE  Find(t[i].key, t, c) = i
  <1>1. PICK k \in Keys : k = t[i].key
    BY DEF Sound, Table
  <1>2. PICK d \in 0 .. c - 1 : Slot(k, d, c) = i /\ \A b \in 0 .. d - 1 : t[Slot(k, b, c)].state # 0
    BY <1>1 DEF Sound, Probed
  <1>3. PICK m \in 0 .. c - 1 :
                 /\ Find(k, t, c) = Slot(k, m, c)
                 /\ t[Slot(k, m, c)].state = 0 \/ key_eq(t[Slot(k, m, c)], k)
                 /\ \A b \in 0 .. m - 1 : t[Slot(k, b, c)].state # 0 /\ ~key_eq(t[Slot(k, b, c)], k)
    BY ProbeStops
  <1>4. key_eq(t[Slot(k, d, c)], k)
    BY <1>1, <1>2 DEF key_eq
  <1>5. ~(d < m)
    BY <1>3, <1>4
  <1>6. CASE t[Slot(k, m, c)].state = 0
    <2>1. ~(m < d)
      BY <1>2, <1>6
    <2>2. QED
      BY <1>1, <1>2, <1>3, <1>5, <2>1
  <1>7. CASE key_eq(t[Slot(k, m, c)], k)
    <2>1. Slot(k, m, c) \in 0 .. c - 1 /\ t[Slot(k, m, c)].state = 1 /\ t[Slot(k, m, c)].key = k
      BY <1>7, SlotProbe DEF key_eq
    <2>2. Slot(k, m, c) = i
      BY <1>1, <2>1 DEF Sound, OneSlot
    <2>3. QED
      BY <1>1, <1>3, <2>2
  <1>8. QED
    BY <1>3, <1>6, <1>7
-----------------------------------------------------------------------------
(* What the three ways to write a slot keep.  A new entry: at a slot of its *)
(* probe that holds none, with no empty slot before it.                     *)
EntryIn(t, c, s, e, w) ==
    /\ Sound(w, c) /\ s \in 0 .. c - 1
    /\ InState(w, c, 1) = InState(t, c, 1) \cup {s}
    /\ InState(w, c, 2) = InState(t, c, 2) \ {s}
    /\ \A i \in 0 .. c - 1 : w[i] = IF i = s THEN e ELSE t[i]

LEMMA WriteEntry ==
    ASSUME HashAssumption, NEW c \in Nat \ {0}, NEW t, Sound(t, c), NEW e, e.state = 1, e.key \in Keys,
           e.value \in Values, \A i \in 0 .. c - 1 : t[i].state = 1 => t[i].key # e.key,
           NEW m \in 0 .. c - 1, t[Slot(e.key, m, c)].state # 1,
           \A b \in 0 .. m - 1 : t[Slot(e.key, b, c)].state # 0
    PROVE  EntryIn(t, c, Slot(e.key, m, c), e, Write(t, Slot(e.key, m, c), e))
  <1>1. PICK k \in Keys : k = e.key
    OBVIOUS
  <1>2. PICK s \in 0 .. c - 1 : s = Slot(k, m, c)
    BY SlotProbe
  <1>3. PICK w : w = Write(t, s, e)
    OBVIOUS
  <1>4. DOMAIN w = 0 .. c - 1 /\ \A i \in 0 .. c - 1 : w[i] = IF i = s THEN e ELSE t[i]
    BY <1>3 DEF Write, Sound, Table
  <1>5. Table(w, c)
    BY <1>4 DEF Sound, Table
  <1>6. OneSlot(w, c)
    BY <1>4 DEF Sound, OneSlot
  <1>7. \A i \in 0 .. c - 1 : w[i].state = 0 => t[i].state = 0
    BY <1>4
  <1>8. ASSUME NEW i \in 0 .. c - 1, w[i].state = 1
        PROVE  \E d \in 0 .. c - 1 : /\ Slot(w[i].key, d, c) = i
                                     /\ \A b \in 0 .. d - 1 : w[Slot(w[i].key, b, c)].state # 0
    <2>1. PICK l \in Keys : l = w[i].key
      BY <1>5, <1>8 DEF Table
    <2>2. \A d \in 0 .. c - 1 : Slot(l, d, c) \in 0 .. c - 1
      BY SlotProbe
    <2>3. PICK d \in 0 .. c - 1 : Slot(l, d, c) = i /\ \A b \in 0 .. d - 1 : t[Slot(l, b, c)].state # 0
      <3>1. CASE i = s
        BY <1>1, <1>2, <1>4, <2>1, <3>1
      <3>2. CASE i # s
        BY <1>4, <1>8, <2>1, <3>2 DEF Sound, Probed
      <3>3. QED
        BY <3>1, <3>2
    <2>4. \A b \in 0 .. d - 1 : b \in 0 .. c - 1
      BY <2>3
    <2>5. \A b \in 0 .. d - 1 : w[Slot(l, b, c)].state # 0
      BY <1>7, <2>2, <2>3, <2>4
    <2>6. QED
      BY <2>1, <2>3, <2>5
  <1>9. Probed(w, c)
    BY <1>8 DEF Probed
  <1>10. InState(w, c, 1) = InState(t, c, 1) \cup {s}
    BY <1>2, <1>4 DEF InState
  <1>11. InState(w, c, 2) = InState(t, c, 2) \ {s}
    BY <1>4 DEF InState
  <1>12. QED
    BY <1>1, <1>2, <1>3, <1>4, <1>5, <1>6, <1>9, <1>10, <1>11 DEF Sound, EntryIn
(* An entry that is there: its value replaced, or a tombstone in its place. *)
LEMMA WriteOver ==
    ASSUME HashAssumption, NEW c \in Nat \ {0}, NEW t, Sound(t, c), NEW s \in 0 .. c - 1, t[s].state = 1,
           NEW e, \/ e.state = 1 /\ e.key = t[s].key /\ e.value \in Values
                  \/ e.state = 2
    PROVE  /\ Sound(Write(t, s, e), c)
           /\ \A i \in 0 .. c - 1 : Write(t, s, e)[i] = IF i = s THEN e ELSE t[i]
  <1>1. PICK w : w = Write(t, s, e)
    OBVIOUS
  <1>2. DOMAIN w = 0 .. c - 1 /\ \A i \in 0 .. c - 1 : w[i] = IF i = s THEN e ELSE t[i]
    BY <1>1 DEF Write, Sound, Table
  <1>3. Table(w, c)
    BY <1>2 DEF Sound, Table
  <1>4. \A i \in 0 .. c - 1 : w[i].state = 1 => t[i].state = 1 /\ t[i].key = w[i].key
    BY <1>2
  <1>5. OneSlot(w, c)
    BY <1>4 DEF Sound, OneSlot
  <1>6. \A i \in 0 .. c - 1 : t[i].state # 0 => w[i].state # 0
    BY <1>2
  <1>7. ASSUME NEW i \in 0 .. c - 1, w[i].state = 1
        PROVE  \E d \in 0 .. c - 1 : /\ Slot(w[i].key, d, c) = i
                                     /\ \A b \in 0 .. d - 1 : w[Slot(w[i].key, b, c)].state # 0
    <2>1. PICK l \in Keys : l = w[i].key
      BY <1>3, <1>7 DEF Table
    <2>2. \A d \in 0 .. c - 1 : Slot(l, d, c) \in 0 .. c - 1
      BY SlotProbe
    <2>3. PICK d \in 0 .. c - 1 : Slot(l, d, c) = i /\ \A b \in 0 .. d - 1 : t[Slot(l, b, c)].state # 0
      BY <1>4, <1>7, <2>1 DEF Sound, Probed
    <2>4. \A b \in 0 .. d - 1 : b \in 0 .. c - 1
      BY <2>3
    <2>5. \A b \in 0 .. d - 1 : w[Slot(l, b, c)].state # 0
      BY <1>6, <2>2, <2>3, <2>4
    <2>6. QED
      BY <2>1, <2>3, <2>5
  <1>8. Probed(w, c)
    BY <1>7 DEF Probed
  <1>9. QED
    BY <1>1, <1>2, <1>3, <1>5, <1>8 DEF Sound
-----------------------------------------------------------------------------
LEMMA StatesFinite ==
    ASSUME NEW c \in Nat, NEW t, NEW s
    PROVE  /\ IsFiniteSet(InState(t, c, s)) /\ Cardinality(InState(t, c, s)) \in Nat
           /\ Cardinality(InState(t, c, s)) <= c
           /\ Cardinality(0 .. c - 1) = c /\ IsFiniteSet(0 .. c - 1)
  <1>1. IsFiniteSet(0 .. c - 1) /\ Cardinality(0 .. c - 1) = c
    BY FS_Interval
  <1>2. InState(t, c, s) \subseteq 0 .. c - 1
    BY DEF InState
  <1>3. PICK A, B : A = InState(t, c, s) /\ B = 0 .. c - 1
    OBVIOUS
  <1>4. IsFiniteSet(A) /\ Cardinality(A) <= c
    BY <1>1, <1>2, <1>3, FS_Subset
  <1>5. Cardinality(A) \in Nat
    BY <1>4, FS_CardinalityType
  <1>6. QED
    BY <1>1, <1>3, <1>4, <1>5

(* Entries and tombstones that are fewer than the slots leave one empty.    *)
LEMMA EmptyLeft ==
    ASSUME NEW c \in Nat, NEW t, Table(t, c),
           Cardinality(InState(t, c, 1)) + Cardinality(InState(t, c, 2)) < c
    PROVE  InState(t, c, 0) # {}
  <1> SUFFICES ASSUME InState(t, c, 0) = {} PROVE FALSE
    OBVIOUS
  <1>1. InState(t, c, 1) \cup InState(t, c, 2) = 0 .. c - 1 /\ InState(t, c, 1) \cap InState(t, c, 2) = {}
    BY DEF Table, InState
  <1>2. Cardinality({}) = 0
    BY FS_EmptySet
  <1>3. PICK A, B : A = InState(t, c, 1) /\ B = InState(t, c, 2)
    OBVIOUS
  <1>4. Cardinality(A \cup B) = Cardinality(A) + Cardinality(B) - Cardinality(A \cap B)
    BY <1>3, StatesFinite, FS_Union
  <1>5. Cardinality(A) \in Nat /\ Cardinality(B) \in Nat
    BY <1>3, StatesFinite
  <1>6. Cardinality(A \cup B) = c
    <2>1. A \cup B = 0 .. c - 1
      BY <1>1, <1>3
    <2>2. QED
      BY <2>1, StatesFinite
  <1>7. Cardinality(A \cap B) = 0
    <2>1. A \cap B = {}
      BY <1>1, <1>3
    <2>2. QED
      BY <1>2, <2>1
  <1>8. Cardinality(A) + Cardinality(B) < c
    BY <1>3
  <1>9. QED
    BY <1>4, <1>5, <1>6, <1>7, <1>8
-----------------------------------------------------------------------------
(* c slots of t and d slots of u have the same entries.                     *)
Alike(t, c, u, d) ==
    \A x : (\E j \in 0 .. c - 1 : t[j].state = 1 /\ t[j] = x)
           <=> (\E j \in 0 .. d - 1 : u[j].state = 1 /\ u[j] = x)

(* map_resize after i of the old slots: the new table has their entries and *)
(* no others.                                                               *)
Rebuilt(t, c, i) ==
    /\ Sound(t, c) /\ InState(t, c, 2) = {}
    /\ Cardinality(InState(t, c, 1)) = Cardinality(InState(slots, i, 1))
    /\ Alike(t, c, slots, i)

LEMMA PlaceOne ==
    ASSUME HashAssumption, mapCap \in Nat, Sound(slots, mapCap), NEW c \in Nat, c > mapCap,
           NEW i \in 0 .. mapCap - 1, slots[i].state = 1, NEW t, Rebuilt(t, c, i)
    PROVE  Rebuilt(Place(t, slots[i], c), c, i + 1)
  <1>1. PICK e : e = slots[i]
    OBVIOUS
  <1>2. e.state = 1 /\ e.key \in Keys /\ e.value \in Values
    BY <1>1 DEF Sound, Table
  <1>3. \A j \in 0 .. c - 1 : t[j].state = 1 => t[j].key # e.key
    <2> SUFFICES ASSUME NEW j \in 0 .. c - 1, t[j].state = 1, t[j].key = e.key
                 PROVE  FALSE
      OBVIOUS
    <2>1. PICK l \in 0 .. i - 1 : slots[l].state = 1 /\ slots[l] = t[j]
      BY DEF Rebuilt, Alike
    <2>2. l \in 0 .. mapCap - 1 /\ l # i
      BY <2>1
    <2>3. QED
      BY <1>1, <2>1, <2>2 DEF Sound, OneSlot
  <1>4. PICK F : F = {d \in 0 .. c - 1 : t[Slot(e.key, d, c)].state # 1}
    OBVIOUS
  <1>5. F \in SUBSET Nat /\ F # {}
    <2>1. Cardinality(InState(slots, i, 1)) <= i
      BY StatesFinite
    <2>2. InState(t, c, 1) # 0 .. c - 1
      <3>1. Cardinality(InState(t, c, 1)) <= i
        BY <2>1 DEF Rebuilt, Alike
      <3>2. Cardinality(0 .. c - 1) = c
        BY StatesFinite
      <3>3. Cardinality(InState(t, c, 1)) # Cardinality(0 .. c - 1)
        BY <3>1, <3>2, StatesFinite
      <3>4. QED
        BY <3>3
    <2>3. PICK s \in 0 .. c - 1 : t[s].state # 1
      BY <2>2 DEF InState
    <2>4. PICK d \in 0 .. c - 1 : Slot(e.key, d, c) = s
      <3>1. c \in Nat \ {0}
        OBVIOUS
      <3>2. \A l \in 0 .. c - 1 : \E d \in 0 .. c - 1 : Slot(e.key, d, c) = l
        BY <1>2, <3>1, SlotProbe
      <3>3. QED
        BY <3>2
    <2>5. QED
      BY <1>4, <2>3, <2>4
  <1>6. PICK m : m = Min(F)
    OBVIOUS
  <1>7. m \in F /\ \A d \in F : m <= d
    BY <1>5, <1>6, MinOf
  <1>8. m \in 0 .. c - 1 /\ t[Slot(e.key, m, c)].state # 1
    BY <1>4, <1>7
  <1>9. \A b \in 0 .. m - 1 : t[Slot(e.key, b, c)].state # 0
    <2>1. \A b \in 0 .. m - 1 : b \in 0 .. c - 1 /\ ~(m <= b)
      BY <1>8
    <2>2. \A b \in 0 .. m - 1 : t[Slot(e.key, b, c)].state = 1
      BY <1>4, <1>7, <2>1
    <2>3. QED
      BY <2>2
  <1>10. PICK s : s = Slot(e.key, m, c)
    OBVIOUS
  <1>11. PICK w : w = Write(t, s, e)
    OBVIOUS
  <1>12. EntryIn(t, c, s, e, w)
    <2>1. c \in Nat \ {0} /\ Sound(t, c)
      BY DEF Rebuilt, Alike
    <2>2. EntryIn(t, c, Slot(e.key, m, c), e, Write(t, Slot(e.key, m, c), e))
      BY <1>2, <1>3, <1>8, <1>9, <2>1, WriteEntry
    <2>3. QED
      BY <1>10, <1>11, <2>2
  <1>13. InState(w, c, 2) = {}
    BY <1>12 DEF Rebuilt, Alike, EntryIn
  <1>14. Cardinality(InState(w, c, 1)) = Cardinality(InState(slots, i + 1, 1))
    <2>1. s \notin InState(t, c, 1)
      BY <1>8, <1>10 DEF InState
    <2>2. InState(slots, i + 1, 1) = InState(slots, i, 1) \cup {i} /\ i \notin InState(slots, i, 1)
      BY DEF InState
    <2>3. IsFiniteSet(InState(t, c, 1)) /\ IsFiniteSet(InState(slots, i, 1))
      BY StatesFinite
    <2>4. Cardinality(InState(t, c, 1) \cup {s}) = Cardinality(InState(t, c, 1)) + 1
      BY <2>1, <2>3, FS_AddElement
    <2>5. Cardinality(InState(slots, i, 1) \cup {i}) = Cardinality(InState(slots, i, 1)) + 1
      BY <2>2, <2>3, FS_AddElement
    <2>6. QED
      BY <1>12, <2>2, <2>4, <2>5 DEF Rebuilt, Alike, EntryIn
  <1>15. ASSUME NEW x
         PROVE (\E j \in 0 .. c - 1 : w[j].state = 1 /\ w[j] = x)
               <=> (\E j \in 0 .. i : slots[j].state = 1 /\ slots[j] = x)
    <2>1. (\E j \in 0 .. c - 1 : w[j].state = 1 /\ w[j] = x)
             <=> (x = e \/ \E j \in 0 .. c - 1 : t[j].state = 1 /\ t[j] = x)
      BY <1>2, <1>8, <1>10, <1>12 DEF EntryIn
    <2>2. 0 .. i = (0 .. i - 1) \cup {i}
      OBVIOUS
    <2>3. (\E j \in 0 .. i : slots[j].state = 1 /\ slots[j] = x)
             <=> (x = e \/ \E j \in 0 .. i - 1 : slots[j].state = 1 /\ slots[j] = x)
      BY <1>1, <2>2
    <2>4. QED
      BY <2>1, <2>3 DEF Rebuilt, Alike
  <1>16. Place(t, slots[i], c) = w
    BY <1>1, <1>4, <1>6, <1>10, <1>11 DEF Place
  <1>17. (i + 1) - 1 = i
    OBVIOUS
  <1>18. QED
    BY <1>12, <1>13, <1>14, <1>15, <1>16, <1>17 DEF Rebuilt, Alike, EntryIn

(* map_resize to more slots: the loop is total, and keeps every entry.      *)
LEMMA Resized ==
    ASSUME HashAssumption, mapCap \in Nat, Sound(slots, mapCap), NEW c \in Nat, c > mapCap
    PROVE  Rebuilt(map_resize(c), c, mapCap)
  <1> DEFINE Start == [j \in 0 .. c - 1 |-> Empty]
             Step(f, i) == IF i = 0 THEN Start
                           ELSE IF slots[i - 1].state = 1 THEN Place(f[i - 1], slots[i - 1], c)
                           ELSE f[i - 1]
  <1>1. PICK f : f = [i \in 0 .. mapCap |-> Step(f, i)]
    <2> DEFINE T == {n \in Nat : \E f : f = [i \in 0 .. n |-> Step(f, i)]}
    <2> HIDE DEF Start
    <2>1. 0 \in T
      <3>1. PICK f : f = [i \in 0 .. 0 |-> Start]
        OBVIOUS
      <3>2. f = [i \in 0 .. 0 |-> Step(f, i)]
        BY <3>1
      <3>3. QED
        BY <3>2
    <2>2. ASSUME NEW n \in T PROVE n + 1 \in T
      <3>1. PICK f : f = [i \in 0 .. n |-> Step(f, i)]
        OBVIOUS
      <3>2. PICK g : g = [i \in 0 .. n + 1 |-> Step(f, i)]
        OBVIOUS
      <3>3. n \in Nat /\ \A i \in 0 .. n + 1 : i # 0 => i - 1 \in 0 .. n
        OBVIOUS
      <3>4. \A i \in 0 .. n : g[i] = f[i]
        BY <3>1, <3>2, <3>3
      <3>5. \A i \in 0 .. n + 1 : Step(g, i) = Step(f, i)
        BY <3>3, <3>4
      <3>6. g = [i \in 0 .. n + 1 |-> Step(g, i)]
        BY <3>2, <3>5
      <3>7. QED
        BY <3>3, <3>6
    <2>3. T = Nat
      <3> HIDE DEF T
      <3>1. QED
        BY <2>1, <2>2, SetInduction DEF T
    <2>4. mapCap \in T
      BY <2>3
    <2>5. QED
      BY <2>4
  <1>2. PICK h : h = CHOOSE g : g = [i \in 0 .. mapCap |-> Step(g, i)]
    OBVIOUS
  <1>3. h = [i \in 0 .. mapCap |-> Step(h, i)]
    BY <1>1, <1>2
  <1>4. Rebuilt(Start, c, 0)
    <2>1. DOMAIN Start = 0 .. c - 1 /\ \A j \in 0 .. c - 1 : Start[j] = Empty /\ Start[j].state = 0
      BY DEF Empty
    <2> HIDE DEF Start
    <2>2. Sound(Start, c)
      BY <2>1 DEF Sound, Table, Probed, OneSlot
    <2>3. InState(Start, c, 2) = {} /\ InState(Start, c, 1) = {} /\ InState(slots, 0, 1) = {}
      BY <2>1 DEF InState
    <2>4. \A x : ~(\E j \in 0 .. c - 1 : Start[j].state = 1 /\ Start[j] = x)
      BY <2>1
    <2>5. \A x : ~(\E j \in 0 .. 0 - 1 : slots[j].state = 1 /\ slots[j] = x)
      OBVIOUS
    <2>6. QED
      BY <2>2, <2>3, <2>4, <2>5 DEF Rebuilt, Alike
  <1>5. ASSUME NEW i \in 0 .. mapCap - 1, slots[i].state # 1, NEW t, Rebuilt(t, c, i)
        PROVE  Rebuilt(t, c, i + 1)
    <2>1. InState(slots, i + 1, 1) = InState(slots, i, 1)
      BY <1>5 DEF InState
    <2>2. (i + 1) - 1 = i /\ 0 .. i = (0 .. i - 1) \cup {i}
      OBVIOUS
    <2>3. \A x : (\E j \in 0 .. i : slots[j].state = 1 /\ slots[j] = x)
                  <=> (\E j \in 0 .. i - 1 : slots[j].state = 1 /\ slots[j] = x)
      BY <1>5, <2>2
    <2>4. QED
      BY <1>5, <2>1, <2>2, <2>3 DEF Rebuilt, Alike
  <1>6. \A n \in 0 .. mapCap : Rebuilt(h[n], c, n)
    <2> DEFINE T == {n \in Nat : n <= mapCap => Rebuilt(h[n], c, n)}
    <2> HIDE DEF Start
    <2>1. 0 \in T
      <3>1. h[0] = Start
        BY <1>3
      <3>2. QED
        BY <1>4, <3>1
    <2>2. ASSUME NEW n \in T PROVE n + 1 \in T
      <3> SUFFICES ASSUME n + 1 <= mapCap PROVE Rebuilt(h[n + 1], c, n + 1)
        OBVIOUS
      <3>1. n \in 0 .. mapCap - 1 /\ n + 1 \in 0 .. mapCap /\ n + 1 # 0 /\ (n + 1) - 1 = n
        OBVIOUS
      <3>2. Rebuilt(h[n], c, n)
        BY <3>1
      <3>3. h[n + 1] = IF slots[n].state = 1 THEN Place(h[n], slots[n], c) ELSE h[n]
        BY <1>3, <3>1
      <3>4. CASE slots[n].state = 1
        BY <3>1, <3>2, <3>3, <3>4, PlaceOne
      <3>5. CASE slots[n].state # 1
        BY <1>5, <3>1, <3>2, <3>3, <3>5
      <3>6. QED
        BY <3>4, <3>5
    <2>3. T = Nat
      <3> HIDE DEF T
      <3>1. QED
        BY <2>1, <2>2, SetInduction DEF T
    <2>4. QED
      BY <2>3
  <1>7. map_resize(c) = h[mapCap]
    BY <1>2 DEF map_resize
  <1>8. QED
    BY <1>6, <1>7
-----------------------------------------------------------------------------
(* The map that a table stands for.                                         *)
ContentsOf(t, c) ==
    [k \in Keys |-> IF \E i \in InState(t, c, 1) : t[i].key = k
                    THEN t[CHOOSE i \in InState(t, c, 1) : t[i].key = k].value ELSE "ENOENT"]

LEMMA EntryValue ==
    ASSUME NEW c \in Nat, NEW t, Sound(t, c)
    PROVE  /\ \A i \in 0 .. c - 1 : t[i].state = 1 => ContentsOf(t, c)[t[i].key] = t[i].value
           /\ \A k \in Keys : (\A i \in 0 .. c - 1 : t[i].state = 1 => t[i].key # k)
                              => ContentsOf(t, c)[k] = "ENOENT"
           /\ ContentsOf(t, c) = [k \in Keys |-> ContentsOf(t, c)[k]]
  <1>1. ASSUME NEW i \in 0 .. c - 1, t[i].state = 1
        PROVE  ContentsOf(t, c)[t[i].key] = t[i].value
    <2>1. PICK k \in Keys : k = t[i].key
      BY <1>1 DEF Sound, Table
    <2>2. PICK j : j = CHOOSE l \in InState(t, c, 1) : t[l].key = k
      OBVIOUS
    <2>3. i \in InState(t, c, 1)
      BY <1>1 DEF InState
    <2>4. j \in InState(t, c, 1) /\ t[j].key = k
      BY <2>1, <2>2, <2>3
    <2>5. j = i
      BY <1>1, <2>1, <2>4 DEF Sound, OneSlot, InState
    <2>6. ContentsOf(t, c)[k] = t[j].value
      BY <2>2, <2>4 DEF ContentsOf
    <2>7. QED
      BY <2>1, <2>5, <2>6
  <1>2. ASSUME NEW k \in Keys, \A i \in 0 .. c - 1 : t[i].state = 1 => t[i].key # k
        PROVE  ContentsOf(t, c)[k] = "ENOENT"
    BY <1>2 DEF ContentsOf, InState
  <1>3. ContentsOf(t, c) = [k \in Keys |-> ContentsOf(t, c)[k]]
    BY DEF ContentsOf
  <1>4. QED
    BY <1>1, <1>2, <1>3

(* Two tables with the same entries stand for the same map.                 *)
LEMMA SameEntries ==
    ASSUME NEW c \in Nat, NEW t, Sound(t, c), NEW d \in Nat, NEW u, Sound(u, d), Alike(t, c, u, d)
    PROVE  ContentsOf(t, c) = ContentsOf(u, d)
  <1>1. ASSUME NEW k \in Keys PROVE ContentsOf(t, c)[k] = ContentsOf(u, d)[k]
    <2>1. CASE \E j \in 0 .. c - 1 : t[j].state = 1 /\ t[j].key = k
      <3>1. PICK j \in 0 .. c - 1 : t[j].state = 1 /\ t[j].key = k
        BY <2>1
      <3>2. PICK l \in 0 .. d - 1 : u[l].state = 1 /\ u[l] = t[j]
        BY <3>1 DEF Alike
      <3>3. QED
        BY <3>1, <3>2, EntryValue
    <2>2. CASE ~\E j \in 0 .. c - 1 : t[j].state = 1 /\ t[j].key = k
      <3>1. ~\E j \in 0 .. d - 1 : u[j].state = 1 /\ u[j].key = k
        BY <2>2 DEF Alike
      <3>2. QED
        BY <2>2, <3>1, EntryValue
    <2>3. QED
      BY <2>1, <2>2
  <1>2. QED
    BY <1>1, EntryValue

(* What one slot of another value does to the map: w is t but for slot s,   *)
(* which holds the only entry of k there is, or none.                       *)
Changed(t, w, c, s, k, x) ==
    /\ \A i \in 0 .. c - 1 : i # s => w[i] = t[i]
    /\ \A i \in 0 .. c - 1 : i # s /\ t[i].state = 1 => t[i].key # k
    /\ t[s].state = 1 => t[s].key = k
    /\ \/ w[s].state = 1 /\ w[s].key = k /\ w[s].value = x
       \/ w[s].state # 1 /\ x = "ENOENT"

LEMMA OneChange ==
    ASSUME NEW c \in Nat, NEW t, Sound(t, c), NEW w, Sound(w, c), NEW s \in 0 .. c - 1, NEW k \in Keys,
           NEW x, Changed(t, w, c, s, k, x)
    PROVE  ContentsOf(w, c) = [ContentsOf(t, c) EXCEPT ![k] = x]
  <1>1. PICK C, D : C = ContentsOf(t, c) /\ D = ContentsOf(w, c)
    OBVIOUS
  <1> USE DEF Changed
  <1>2. D[k] = x
    <2>1. CASE w[s].state = 1 /\ w[s].key = k /\ w[s].value = x
      BY <1>1, <2>1, EntryValue
    <2>2. CASE w[s].state # 1 /\ x = "ENOENT"
      <3>1. \A i \in 0 .. c - 1 : w[i].state = 1 => w[i].key # k
        BY <2>2
      <3>2. QED
        BY <1>1, <2>2, <3>1, EntryValue
    <2>3. QED
      BY <2>1, <2>2
  <1>3. ASSUME NEW l \in Keys, l # k PROVE D[l] = C[l]
    <2>1. CASE \E j \in 0 .. c - 1 : t[j].state = 1 /\ t[j].key = l
      <3>1. PICK j \in 0 .. c - 1 : t[j].state = 1 /\ t[j].key = l
        BY <2>1
      <3>2. j # s /\ w[j] = t[j]
        BY <1>3, <3>1
      <3>3. QED
        BY <1>1, <3>1, <3>2, EntryValue
    <2>2. CASE ~\E j \in 0 .. c - 1 : t[j].state = 1 /\ t[j].key = l
      <3>1. \A j \in 0 .. c - 1 : w[j].state = 1 => w[j].key # l
        BY <1>3, <2>2
      <3>2. QED
        BY <1>1, <2>2, <3>1, EntryValue
    <2>3. QED
      BY <2>1, <2>2
  <1>4. C = [l \in Keys |-> C[l]] /\ D = [l \in Keys |-> D[l]]
    BY <1>1, EntryValue
  <1>5. D = [C EXCEPT ![k] = x]
    BY <1>2, <1>3, <1>4
  <1>6. QED
    BY <1>1, <1>5
-----------------------------------------------------------------------------
(* The invariant of the table that a call leaves behind.                    *)
LEMMA TableInv ==
    ASSUME NEW c \in Nat, Sound(slots', c), mapLen' \in Nat, tombs' \in Nat,
           c > 0 => /\ mapLen' = Cardinality(InState(slots', c, 1))
                    /\ tombs' = Cardinality(InState(slots', c, 2))
                    /\ mapLen' + tombs' < c,
           buffers' = Cardinality(InState(slots', c, 1)), call'.ret # "hang"
    PROVE  HashInv' /\ mapCap' = c
  <1>1. DOMAIN slots' = 0 .. c - 1
    BY DEF Sound, Table
  <1>2. mapCap' = c
    BY <1>1, StatesFinite DEF mapCap
  <1>3. QED
    BY <1>2 DEF HashInv, live

(* The part of put after the growth, where it leaves an empty slot.         *)
LEMMA InsertKeeps ==
    ASSUME HashAssumption, NEW c \in Nat \ {0}, NEW t, Sound(t, c),
           NEW n \in Nat, n = Cardinality(InState(t, c, 2)),
           mapLen \in Nat, mapLen = Cardinality(InState(t, c, 1)), buffers = mapLen, mapLen + n + 1 < c,
           NEW k \in Keys, NEW v \in Values, Insert(k, v, t, c, n)
    PROVE  /\ HashInv' /\ mapCap' = c
           /\ \/ ContentsOf(slots', c) = [ContentsOf(t, c) EXCEPT ![k] = v] /\ Answer("put", k, "ok")
              \/ ContentsOf(slots', c) = ContentsOf(t, c) /\ Answer("put", k, "ENOMEM")
  <1>1. InState(t, c, 0) # {}
    BY EmptyLeft DEF Sound
  <1>2. PICK m \in 0 .. c - 1 :
           /\ m = Min(Stops(k, t, c)) /\ Find(k, t, c) = Slot(k, m, c)
           /\ t[Slot(k, m, c)].state = 0 \/ key_eq(t[Slot(k, m, c)], k)
           /\ \A b \in 0 .. m - 1 : t[Slot(k, b, c)].state # 0 /\ ~key_eq(t[Slot(k, b, c)], k)
    BY <1>1, ProbeStops
  <1>3. ~Hangs(k, t, c)
    BY <1>1, ProbeStops
  <1>4. PICK idx \in 0 .. c - 1 : idx = Slot(k, m, c)
    BY SlotProbe
  <1>5. PICK e : e = Entry(k, v)
    OBVIOUS
  <1>6. e.state = 1 /\ e.key = k /\ e.value = v
    BY <1>5 DEF Entry
  <1>7. PICK way : way = {d \in 0 .. m : t[Slot(k, d, c)].state = 2}
    OBVIOUS
  <1>8. PICK dest : dest = IF way = {} THEN idx ELSE Slot(k, Min(way), c)
    OBVIOUS
  <1>9. IF key_eq(t[idx], k)
        THEN /\ slots' = Write(t, idx, e) /\ tombs' = n
             /\ Answer("put", k, "ok") /\ UNCHANGED <<mapLen, buffers>>
        ELSE \/ /\ slots' = Write(t, dest, e)
                /\ tombs' = TombsLeft(way, n)
                /\ mapLen' = mapLen + 1 /\ buffers' = buffers + 1 /\ Answer("put", k, "ok")
             \/ /\ slots' = t /\ tombs' = n
                /\ Answer("put", k, "ENOMEM") /\ UNCHANGED <<mapLen, buffers>>
    BY <1>2, <1>3, <1>4, <1>5, <1>7, <1>8 DEF Insert
  <1>10. CASE key_eq(t[idx], k)
    <2>1. t[idx].state = 1 /\ t[idx].key = k
      BY <1>10 DEF key_eq
    <2>2. PICK w : w = Write(t, idx, e)
      OBVIOUS
    <2>3. Sound(w, c) /\ \A i \in 0 .. c - 1 : w[i] = IF i = idx THEN e ELSE t[i]
      BY <1>4, <1>6, <2>1, <2>2, WriteOver
    <2>4. InState(w, c, 1) = InState(t, c, 1) /\ InState(w, c, 2) = InState(t, c, 2)
      BY <1>6, <2>1, <2>3 DEF InState
    <2>5. \A i \in 0 .. c - 1 : i # idx /\ t[i].state = 1 => t[i].key # k
      BY <2>1 DEF Sound, OneSlot
    <2>6. ContentsOf(w, c) = [ContentsOf(t, c) EXCEPT ![k] = v]
      <3>1. Changed(t, w, c, idx, k, v)
        BY <1>6, <2>1, <2>3, <2>5 DEF Changed
      <3>2. QED
        BY <2>3, <3>1, OneChange
    <2>7. slots' = w /\ tombs' = n /\ Answer("put", k, "ok") /\ mapLen' = mapLen /\ buffers' = buffers
      BY <1>9, <1>10, <2>2
    <2>8. call'.ret # "hang"
      BY <2>7 DEF Answer
    <2>9. HashInv' /\ mapCap' = c
      BY <2>3, <2>4, <2>7, <2>8, TableInv
    <2>10. QED
      BY <2>6, <2>7, <2>9
  <1>11. CASE ~key_eq(t[idx], k) /\ slots' = t /\ tombs' = n
              /\ Answer("put", k, "ENOMEM") /\ UNCHANGED <<mapLen, buffers>>
    <2>1. call'.ret # "hang"
      BY <1>11 DEF Answer
    <2>2. HashInv' /\ mapCap' = c
      BY <1>11, <2>1, TableInv
    <2>3. QED
      BY <1>11, <2>2
  <1>12. CASE /\ ~key_eq(t[idx], k) /\ slots' = Write(t, dest, e)
              /\ tombs' = TombsLeft(way, n)
              /\ mapLen' = mapLen + 1 /\ buffers' = buffers + 1 /\ Answer("put", k, "ok")
    <2>1. t[idx].state = 0
      BY <1>2, <1>4, <1>12
    <2>2. \A i \in 0 .. c - 1 : t[i].state = 1 => t[i].key # k
      <3> SUFFICES ASSUME NEW i \in 0 .. c - 1, t[i].state = 1, t[i].key = k
                   PROVE  FALSE
        OBVIOUS
      <3>1. Find(k, t, c) = i
        BY <1>1, FindsEntry
      <3>2. QED
        BY <1>2, <1>4, <2>1, <3>1
    <2>3. PICK d \in 0 .. m : /\ dest = Slot(k, d, c)
                              /\ t[dest].state = IF way = {} THEN 0 ELSE 2
      <3>1. CASE way = {}
        BY <1>2, <1>4, <1>8, <2>1, <3>1
      <3>2. CASE way # {}
        <4>1. way \in SUBSET Nat
          BY <1>7
        <4>2. Min(way) \in way
          BY <3>2, <4>1, MinOf
        <4>3. QED
          BY <1>7, <1>8, <3>2, <4>2
      <3>3. QED
        BY <3>1, <3>2
    <2>4. d \in 0 .. c - 1 /\ \A b \in 0 .. d - 1 : b \in 0 .. m - 1
      BY <1>2, <2>3
    <2>5. PICK w : w = Write(t, dest, e)
      OBVIOUS
    <2>6. EntryIn(t, c, dest, e, w)
      <3>1. \A b \in 0 .. d - 1 : t[Slot(e.key, b, c)].state # 0
        BY <1>2, <1>6, <2>4
      <3>2. t[Slot(e.key, d, c)].state # 1 /\ dest = Slot(e.key, d, c)
        BY <1>6, <2>3
      <3>3. EntryIn(t, c, Slot(e.key, d, c), e, Write(t, Slot(e.key, d, c), e))
        BY <1>6, <2>2, <2>4, <3>1, <3>2, WriteEntry
      <3>4. QED
        BY <2>5, <3>2, <3>3
    <2>7. /\ Sound(w, c) /\ dest \in 0 .. c - 1
          /\ InState(w, c, 1) = InState(t, c, 1) \cup {dest}
          /\ InState(w, c, 2) = InState(t, c, 2) \ {dest}
          /\ \A i \in 0 .. c - 1 : w[i] = IF i = dest THEN e ELSE t[i]
      BY <2>6 DEF EntryIn
    <2>8. Cardinality(InState(w, c, 1)) = mapLen + 1
      <3>1. dest \notin InState(t, c, 1)
        BY <2>3 DEF InState
      <3>2. IsFiniteSet(InState(t, c, 1))
        BY StatesFinite
      <3>3. Cardinality(InState(t, c, 1) \cup {dest}) = Cardinality(InState(t, c, 1)) + 1
        BY <3>1, <3>2, FS_AddElement
      <3>4. QED
        BY <2>7, <3>3
    <2>9. Cardinality(InState(w, c, 2)) = TombsLeft(way, n) /\ TombsLeft(way, n) \in Nat
          /\ TombsLeft(way, n) <= n
      <3>1. dest \in InState(t, c, 2) <=> way # {}
        BY <2>3, <2>7 DEF InState
      <3>2. IsFiniteSet(InState(t, c, 2))
        BY StatesFinite
      <3>3. Cardinality(InState(t, c, 2) \ {dest})
               = IF dest \in InState(t, c, 2) THEN Cardinality(InState(t, c, 2)) - 1
                 ELSE Cardinality(InState(t, c, 2))
        BY <3>2, FS_RemoveElement
      <3>4. Cardinality(InState(w, c, 2)) = TombsLeft(way, n)
        BY <2>7, <3>1, <3>3 DEF TombsLeft
      <3>5. Cardinality(InState(w, c, 2)) \in Nat
        BY StatesFinite
      <3>6. QED
        BY <3>4, <3>5 DEF TombsLeft
    <2>10. ContentsOf(w, c) = [ContentsOf(t, c) EXCEPT ![k] = v]
      <3>1. Changed(t, w, c, dest, k, v)
        BY <1>6, <2>2, <2>3, <2>7 DEF Changed
      <3>2. QED
        BY <2>7, <3>1, OneChange
    <2>11. slots' = w /\ call'.ret # "hang"
      BY <1>12, <2>5 DEF Answer
    <2>12. mapLen' + tombs' < c /\ mapLen' \in Nat /\ tombs' \in Nat
      BY <1>12, <2>9
    <2>13. HashInv' /\ mapCap' = c
      BY <1>12, <2>7, <2>8, <2>9, <2>11, <2>12, TableInv
    <2>14. QED
      BY <1>12, <2>10, <2>11, <2>13
  <1>13. QED
    BY <1>9, <1>10, <1>11, <1>12
-----------------------------------------------------------------------------
(* One lemma per call: it keeps the invariant, and is a call of the         *)
(* abstract map.                                                            *)
LEMMA TableIs ==
    ASSUME HashInv
    PROVE  /\ mapCap \in Nat /\ DOMAIN slots = 0 .. mapCap - 1 /\ Sound(slots, mapCap)
           /\ Full = InState(slots, mapCap, 1) /\ Contents = ContentsOf(slots, mapCap)
           /\ live => mapCap \in Nat \ {0} /\ InState(slots, mapCap, 0) # {}
           /\ ~live => mapCap = 0 /\ Contents = KV!Nothing
  <1>1. mapCap \in Nat /\ DOMAIN slots = 0 .. mapCap - 1 /\ Sound(slots, mapCap)
    BY DEF HashInv, Sound, Table
  <1>2. Full = InState(slots, mapCap, 1)
    BY <1>1 DEF Full, InState
  <1>3. Contents = ContentsOf(slots, mapCap)
    BY <1>2 DEF Contents, ContentsOf
  <1>4. ASSUME live PROVE mapCap \in Nat \ {0} /\ InState(slots, mapCap, 0) # {}
    BY <1>1, <1>4, EmptyLeft DEF live, HashInv, Sound
  <1>5. ASSUME ~live PROVE mapCap = 0 /\ Contents = KV!Nothing
    <2>1. mapCap = 0
      BY <1>1, <1>5 DEF live
    <2>2. Full = {}
      BY <1>2, <2>1 DEF InState
    <2>3. QED
      BY <2>1, <2>2 DEF Contents, KV!Nothing, KV!Absent
  <1>6. QED
    BY <1>1, <1>2, <1>3, <1>4, <1>5

LEMMA NextTableIs ==
    ASSUME HashInv'
    PROVE  /\ Contents' = ContentsOf(slots', mapCap')
           /\ ~live' => Contents' = KV!Nothing
  <1>1. mapCap' \in Nat /\ DOMAIN slots' = 0 .. mapCap' - 1
    BY DEF HashInv, Sound, Table
  <1>2. Full' = InState(slots', mapCap', 1)
    BY <1>1 DEF Full, InState
  <1>3. Contents' = ContentsOf(slots', mapCap')
    BY <1>2 DEF Contents, ContentsOf
  <1>4. ASSUME ~live' PROVE Contents' = KV!Nothing
    <2>1. mapCap' = 0
      BY <1>1, <1>4 DEF live
    <2>2. Full' = {}
      BY <1>2, <2>1 DEF InState
    <2>3. QED
      BY <2>2 DEF Contents, KV!Nothing, KV!Absent
  <1>5. QED
    BY <1>3, <1>4

LEMMA PutStep ==
    ASSUME HashAssumption, HashInv, NEW k \in Keys, NEW v \in Values, hashmap_put(k, v)
    PROVE  HashInv' /\ KV!Put(k, v)
  <1>1. /\ live /\ mapCap \in Nat \ {0} /\ Sound(slots, mapCap) /\ Contents = ContentsOf(slots, mapCap)
        /\ mapLen \in Nat /\ tombs \in Nat /\ mapLen = Cardinality(InState(slots, mapCap, 1))
        /\ tombs = Cardinality(InState(slots, mapCap, 2)) /\ mapLen + tombs < mapCap /\ buffers = mapLen
    BY TableIs DEF hashmap_put, HashInv
  <1>2. ASSUME NEW c \in Nat \ {0}, NEW t, HashInv', mapCap' = c,
               ContentsOf(t, c) = ContentsOf(slots, mapCap),
               \/ ContentsOf(slots', c) = [ContentsOf(t, c) EXCEPT ![k] = v] /\ Answer("put", k, "ok")
               \/ ContentsOf(slots', c) = ContentsOf(t, c) /\ Answer("put", k, "ENOMEM")
        PROVE  KV!Put(k, v)
    <2>1. live' = live
      BY <1>1, <1>2 DEF live
    <2>2. Contents' = ContentsOf(slots', c)
      BY <1>2, NextTableIs
    <2>3. \/ Contents' = [Contents EXCEPT ![k] = v] /\ Answer("put", k, "ok")
          \/ Contents' = Contents /\ Answer("put", k, "ENOMEM")
      BY <1>1, <1>2, <2>2
    <2>4. QED
      BY <1>1, <2>1, <2>3 DEF KV!Put, KV!Answer, Answer
  <1>3. CASE ~Crowded /\ Insert(k, v, slots, mapCap, tombs)
    <2>1. mapLen + tombs + 1 < mapCap
      BY <1>1, <1>3 DEF Crowded
    <2>2. /\ HashInv' /\ mapCap' = mapCap
          /\ \/ ContentsOf(slots', mapCap) = [ContentsOf(slots, mapCap) EXCEPT ![k] = v] /\ Answer("put", k, "ok")
             \/ ContentsOf(slots', mapCap) = ContentsOf(slots, mapCap) /\ Answer("put", k, "ENOMEM")
      BY <1>1, <1>3, <2>1, InsertKeeps
    <2>3. QED
      BY <1>1, <1>2, <2>2
  <1>4. CASE Insert(k, v, map_resize(2 * mapCap), 2 * mapCap, 0)
    <2>1. PICK c : c = 2 * mapCap
      OBVIOUS
    <2>2. PICK t : t = map_resize(c)
      OBVIOUS
    <2>3. c \in Nat \ {0} /\ c > mapCap /\ mapLen + 0 + 1 < c
      BY <1>1, <2>1
    <2>4. Rebuilt(t, c, mapCap)
      BY <1>1, <2>2, <2>3, Resized
    <2>5. /\ Sound(t, c) /\ InState(t, c, 2) = {} /\ Cardinality(InState(t, c, 1)) = mapLen
      BY <1>1, <2>4 DEF Rebuilt
    <2>6. Cardinality(InState(t, c, 2)) = 0
      BY <2>5, FS_EmptySet
    <2>7. ContentsOf(t, c) = ContentsOf(slots, mapCap)
      BY <1>1, <2>3, <2>4, <2>5, SameEntries DEF Rebuilt
    <2>8. /\ HashInv' /\ mapCap' = c
          /\ \/ ContentsOf(slots', c) = [ContentsOf(t, c) EXCEPT ![k] = v] /\ Answer("put", k, "ok")
             \/ ContentsOf(slots', c) = ContentsOf(t, c) /\ Answer("put", k, "ENOMEM")
      BY <1>1, <1>4, <2>1, <2>2, <2>3, <2>5, <2>6, InsertKeeps
    <2>9. QED
      BY <1>2, <2>3, <2>7, <2>8
  <1>5. CASE Answer("put", k, "ENOMEM") /\ UNCHANGED <<slots, mapLen, tombs, buffers>>
    <2>1. call'.ret # "hang"
      BY <1>5 DEF Answer
    <2>2. HashInv' /\ mapCap' = mapCap
      BY <1>1, <1>5, <2>1, TableInv
    <2>3. QED
      BY <1>1, <1>2, <1>5, <2>2
  <1>6. QED
    BY <1>3, <1>4, <1>5 DEF hashmap_put

(* Where get and remove stop: at the entry of the key, which holds the      *)
(* value of the map, or at an empty slot, and the map has no such key.      *)
LEMMA Lookup ==
    ASSUME HashAssumption, HashInv, live, NEW k \in Keys
    PROVE  /\ ~Hangs(k, slots, mapCap) /\ Find(k, slots, mapCap) \in 0 .. mapCap - 1
           /\ key_eq(slots[Find(k, slots, mapCap)], k) =>
                 /\ Contents[k] = slots[Find(k, slots, mapCap)].value
                 /\ slots[Find(k, slots, mapCap)].value \in Values
           /\ ~key_eq(slots[Find(k, slots, mapCap)], k) => Contents[k] = "ENOENT"
  <1>1. /\ mapCap \in Nat \ {0} /\ Sound(slots, mapCap) /\ Contents = ContentsOf(slots, mapCap)
        /\ InState(slots, mapCap, 0) # {}
    BY TableIs
  <1>2. ~Hangs(k, slots, mapCap)
    BY <1>1, ProbeStops
  <1>3. PICK m \in 0 .. mapCap - 1 :
           /\ Find(k, slots, mapCap) = Slot(k, m, mapCap)
           /\ slots[Slot(k, m, mapCap)].state = 0 \/ key_eq(slots[Slot(k, m, mapCap)], k)
    BY <1>1, ProbeStops
  <1>4. PICK i \in 0 .. mapCap - 1 : i = Find(k, slots, mapCap) /\ (slots[i].state = 0 \/ key_eq(slots[i], k))
    BY <1>1, <1>3, SlotProbe
  <1>5. ASSUME key_eq(slots[i], k)
        PROVE  Contents[k] = slots[i].value /\ slots[i].value \in Values
    <2>1. slots[i].state = 1 /\ slots[i].key = k
      BY <1>5 DEF key_eq
    <2>2. QED
      BY <1>1, <1>4, <2>1, EntryValue DEF Sound, Table
  <1>6. ASSUME ~key_eq(slots[i], k) PROVE Contents[k] = "ENOENT"
    <2>1. slots[i].state = 0
      BY <1>4, <1>6
    <2>2. \A j \in 0 .. mapCap - 1 : slots[j].state = 1 => slots[j].key # k
      <3> SUFFICES ASSUME NEW j \in 0 .. mapCap - 1, slots[j].state = 1, slots[j].key = k
                   PROVE  FALSE
        OBVIOUS
      <3>1. Find(k, slots, mapCap) = j
        BY <1>1, FindsEntry
      <3>2. QED
        BY <1>4, <2>1, <3>1
    <2>3. QED
      BY <1>1, <2>2, EntryValue
  <1>7. QED
    BY <1>2, <1>4, <1>5, <1>6

LEMMA GetStep ==
    ASSUME HashAssumption, HashInv, NEW k \in Keys, hashmap_get(k)
    PROVE  HashInv' /\ KV!Get(k)
  <1>1. PICK idx : idx = Find(k, slots, mapCap)
    OBVIOUS
  <1>2. /\ live /\ ~Hangs(k, slots, mapCap)
        /\ UNCHANGED <<slots, mapLen, tombs, buffers>>
        /\ Answer("get", k, IF key_eq(slots[idx], k) THEN slots[idx].value ELSE "ENOENT")
    BY <1>1, Lookup DEF hashmap_get
  <1>3. /\ key_eq(slots[idx], k) => Contents[k] = slots[idx].value /\ slots[idx].value \in Values
        /\ ~key_eq(slots[idx], k) => Contents[k] = "ENOENT"
    BY <1>1, <1>2, Lookup
  <1>4. Answer("get", k, Contents[k]) /\ Contents[k] # "hang"
    BY <1>2, <1>3 DEF HashAssumption
  <1>5. call'.ret # "hang"
    BY <1>4 DEF Answer
  <1>6. HashInv' /\ mapCap' = mapCap
    <2>1. mapCap \in Nat /\ Sound(slots, mapCap)
      BY TableIs
    <2>2. QED
      BY <1>2, <1>5, <2>1, TableInv DEF HashInv, live
  <1>7. Contents' = Contents /\ live' = live
    BY <1>2, <1>6 DEF Contents, Full, live
  <1>8. QED
    BY <1>2, <1>4, <1>6, <1>7 DEF KV!Get, KV!Answer, Answer

LEMMA RemoveStep ==
    ASSUME HashAssumption, HashInv, NEW k \in Keys, hashmap_remove(k)
    PROVE  HashInv' /\ KV!Remove(k)
  <1>1. PICK idx : idx = Find(k, slots, mapCap)
    OBVIOUS
  <1>2. /\ live /\ ~Hangs(k, slots, mapCap) /\ idx \in 0 .. mapCap - 1
        /\ key_eq(slots[idx], k) => Contents[k] = slots[idx].value /\ slots[idx].value \in Values
        /\ ~key_eq(slots[idx], k) => Contents[k] = "ENOENT"
    BY <1>1, Lookup DEF hashmap_remove
  <1>3. /\ mapCap \in Nat \ {0} /\ Sound(slots, mapCap) /\ Contents = ContentsOf(slots, mapCap)
        /\ mapLen \in Nat /\ tombs \in Nat /\ mapLen = Cardinality(InState(slots, mapCap, 1))
        /\ tombs = Cardinality(InState(slots, mapCap, 2)) /\ mapLen + tombs < mapCap /\ buffers = mapLen
    BY <1>2, TableIs DEF HashInv
  <1>4. CASE /\ ~key_eq(slots[idx], k) /\ Answer("remove", k, "ENOENT")
             /\ UNCHANGED <<slots, mapLen, tombs, buffers>>
    <2>1. call'.ret # "hang"
      BY <1>4 DEF Answer
    <2>2. HashInv' /\ mapCap' = mapCap
      BY <1>3, <1>4, <2>1, TableInv
    <2>3. Contents' = Contents /\ live' = live
      BY <1>4, <2>2 DEF Contents, Full, live
    <2>4. [Contents EXCEPT ![k] = "ENOENT"] = Contents
      BY <1>2, <1>4 DEF Contents
    <2>5. QED
      BY <1>2, <1>4, <2>2, <2>3, <2>4 DEF KV!Remove, KV!Answer, KV!Absent, Answer
  <1>5. CASE /\ key_eq(slots[idx], k) /\ slots' = Write(slots, idx, Tomb)
             /\ mapLen' = mapLen - 1 /\ tombs' = tombs + 1 /\ buffers' = buffers - 1
             /\ Answer("remove", k, slots[idx].value)
    <2>1. slots[idx].state = 1 /\ slots[idx].key = k
      BY <1>5 DEF key_eq
    <2>2. PICK w : w = Write(slots, idx, Tomb)
      OBVIOUS
    <2>3. PICK e : e = Tomb
      OBVIOUS
    <2>4. e.state = 2
      BY <2>3 DEF Tomb
    <2>5. Sound(w, mapCap) /\ \A i \in 0 .. mapCap - 1 : w[i] = IF i = idx THEN e ELSE slots[i]
      BY <1>2, <1>3, <2>1, <2>2, <2>3, <2>4, WriteOver
    <2>6. Cardinality(InState(w, mapCap, 1)) = mapLen - 1 /\ mapLen - 1 \in Nat
      <3>1. InState(w, mapCap, 1) = InState(slots, mapCap, 1) \ {idx} /\ idx \in InState(slots, mapCap, 1)
        BY <1>2, <2>1, <2>4, <2>5 DEF InState
      <3>2. IsFiniteSet(InState(slots, mapCap, 1))
        BY <1>3, StatesFinite
      <3>3. Cardinality(InState(slots, mapCap, 1) \ {idx}) = Cardinality(InState(slots, mapCap, 1)) - 1
        BY <3>1, <3>2, FS_RemoveElement
      <3>4. Cardinality(InState(w, mapCap, 1)) \in Nat
        BY <1>3, StatesFinite
      <3>5. QED
        BY <1>3, <3>1, <3>3, <3>4
    <2>7. Cardinality(InState(w, mapCap, 2)) = tombs + 1
      <3>1. InState(w, mapCap, 2) = InState(slots, mapCap, 2) \cup {idx} /\ idx \notin InState(slots, mapCap, 2)
        BY <1>2, <2>1, <2>4, <2>5 DEF InState
      <3>2. IsFiniteSet(InState(slots, mapCap, 2))
        BY <1>3, StatesFinite
      <3>3. Cardinality(InState(slots, mapCap, 2) \cup {idx}) = Cardinality(InState(slots, mapCap, 2)) + 1
        BY <3>1, <3>2, FS_AddElement
      <3>4. QED
        BY <1>3, <3>1, <3>3
    <2>8. slots' = w /\ call'.ret # "hang"
      BY <1>2, <1>5, <2>2 DEF Answer, HashAssumption
    <2>9. mapLen' + tombs' < mapCap /\ mapLen' \in Nat /\ tombs' \in Nat
      BY <1>3, <1>5, <2>6
    <2>10. HashInv' /\ mapCap' = mapCap
      BY <1>3, <1>5, <2>5, <2>6, <2>7, <2>8, <2>9, TableInv
    <2>11. Changed(slots, w, mapCap, idx, k, "ENOENT")
      <3>1. \A i \in 0 .. mapCap - 1 : i # idx /\ slots[i].state = 1 => slots[i].key # k
        BY <1>2, <1>3, <2>1 DEF Sound, OneSlot
      <3>2. QED
        BY <1>2, <2>1, <2>4, <2>5, <3>1 DEF Changed
    <2>12. ContentsOf(w, mapCap) = [ContentsOf(slots, mapCap) EXCEPT ![k] = "ENOENT"]
      <3>1. PICK c \in Nat : c = mapCap
        BY <1>3
      <3>2. Sound(slots, c) /\ Sound(w, c) /\ idx \in 0 .. c - 1 /\ Changed(slots, w, c, idx, k, "ENOENT")
        BY <1>2, <1>3, <2>5, <2>11, <3>1
      <3>3. ContentsOf(w, c) = [ContentsOf(slots, c) EXCEPT ![k] = "ENOENT"]
        BY <3>2, OneChange
      <3>4. QED
        BY <3>1, <3>3
    <2>13. Contents' = [Contents EXCEPT ![k] = "ENOENT"]
      BY <1>3, <2>8, <2>10, <2>12, NextTableIs
    <2>14. live' = live
      BY <2>10 DEF live
    <2>15. QED
      BY <1>2, <1>5, <2>10, <2>13, <2>14 DEF KV!Remove, KV!Answer, KV!Absent, Answer
  <1>6. QED
    BY <1>1, <1>2, <1>4, <1>5 DEF hashmap_remove

LEMMA NewStep ==
    ASSUME HashAssumption, HashInv, hashmap_new
    PROVE  HashInv' /\ KV!New
  <1>1. /\ ~live /\ mapCap = 0 /\ Contents = KV!Nothing /\ mapLen' = 0 /\ tombs' = 0 /\ buffers' = buffers
        /\ Sound(slots, 0)
    BY TableIs DEF hashmap_new
  <1>2. buffers = 0
    <2>1. InState(slots, 0, 1) = {}
      BY DEF InState
    <2>2. QED
      BY <1>1, <2>1, FS_EmptySet DEF HashInv
  <1>3. CASE slots' = [i \in 0 .. InitialSlots - 1 |-> Empty] /\ Answer("new", "none", "ok")
    <2>1. InitialSlots \in Nat \ {0}
      BY DEF HashAssumption
    <2>2. DOMAIN slots' = 0 .. InitialSlots - 1 /\ \A i \in 0 .. InitialSlots - 1 : slots'[i].state = 0
      BY <1>3 DEF Empty
    <2>3. Sound(slots', InitialSlots)
      BY <2>2 DEF Sound, Table, Probed, OneSlot
    <2>4. InState(slots', InitialSlots, 1) = {} /\ InState(slots', InitialSlots, 2) = {}
      BY <2>2 DEF InState
    <2>5. Cardinality(InState(slots', InitialSlots, 1)) = 0 /\ Cardinality(InState(slots', InitialSlots, 2)) = 0
      BY <2>4, FS_EmptySet
    <2>6. call'.ret # "hang"
      BY <1>3 DEF Answer
    <2>7. HashInv' /\ mapCap' = InitialSlots
      BY <1>1, <1>2, <2>1, <2>3, <2>5, <2>6, TableInv
    <2>8. Contents' = KV!Nothing
      <3>1. ContentsOf(slots', InitialSlots) = KV!Nothing
        BY <2>4 DEF ContentsOf, KV!Nothing, KV!Absent
      <3>2. QED
        BY <2>7, <3>1, NextTableIs
    <2>9. live' = TRUE
      BY <2>1, <2>7 DEF live
    <2>10. QED
      BY <1>1, <1>3, <2>7, <2>8, <2>9 DEF KV!New, KV!Answer, Answer
  <1>4. CASE UNCHANGED slots /\ Answer("new", "none", "NULL")
    <2>1. call'.ret # "hang"
      BY <1>4 DEF Answer
    <2>2. InState(slots', 0, 1) = {} /\ Sound(slots', 0)
      BY <1>1, <1>4 DEF InState
    <2>3. HashInv' /\ mapCap' = 0
      BY <1>1, <1>2, <2>1, <2>2, TableInv, FS_EmptySet
    <2>4. live' = live /\ ~live'
      BY <1>1, <2>3 DEF live
    <2>5. Contents' = KV!Nothing
      BY <2>3, <2>4, NextTableIs
    <2>6. QED
      BY <1>1, <1>4, <2>3, <2>4, <2>5 DEF KV!New, KV!Answer, Answer
  <1>5. QED
    BY <1>3, <1>4 DEF hashmap_new

LEMMA DropStep ==
    ASSUME HashInv, hashmap_drop
    PROVE  HashInv' /\ KV!Drop
  <1>1. /\ live /\ slots' = <<>> /\ Answer("drop", "none", "ok") /\ mapLen' = mapLen /\ tombs' = tombs
        /\ buffers' = buffers - Cardinality(Full)
    BY DEF hashmap_drop
  <1>2. buffers' = 0
    <2>1. buffers = Cardinality(Full) /\ Cardinality(Full) \in Nat
      BY TableIs, StatesFinite DEF HashInv
    <2>2. QED
      BY <1>1, <2>1
  <1>3. DOMAIN slots' = 0 .. 0 - 1
    BY <1>1
  <1>4. Sound(slots', 0) /\ InState(slots', 0, 1) = {}
    BY <1>3 DEF Sound, Table, Probed, OneSlot, InState
  <1>5. call'.ret # "hang"
    BY <1>1 DEF Answer
  <1>6. HashInv' /\ mapCap' = 0
    <2>1. mapLen' \in Nat /\ tombs' \in Nat
      BY <1>1 DEF HashInv
    <2>2. buffers' = Cardinality(InState(slots', 0, 1))
      BY <1>2, <1>4, FS_EmptySet
    <2>3. PICK c \in Nat : c = 0
      OBVIOUS
    <2>4. Sound(slots', c) /\ buffers' = Cardinality(InState(slots', c, 1)) /\ ~(c > 0)
      BY <1>4, <2>2, <2>3
    <2>5. HashInv' /\ mapCap' = c
      BY <1>5, <2>1, <2>4, TableInv
    <2>6. QED
      BY <2>3, <2>5
  <1>7. live' = FALSE
    BY <1>6 DEF live
  <1>8. Contents' = KV!Nothing
    BY <1>6, <1>7, NextTableIs
  <1>9. QED
    BY <1>1, <1>6, <1>7, <1>8 DEF KV!Drop, KV!Answer, Answer

LEMMA HashInvInit ==
    ASSUME MapInit
    PROVE  HashInv /\ KV!Init
  <1>1. slots = <<>> /\ DOMAIN slots = {} /\ mapLen = 0 /\ tombs = 0 /\ buffers = 0
        /\ call = [op |-> "none", key |-> "none", ret |-> "ok"]
    BY DEF MapInit
  <1>2. mapCap = 0 /\ Cardinality({}) = 0
    BY <1>1, FS_EmptySet DEF mapCap
  <1>3. DOMAIN slots = 0 .. 0 - 1
    BY <1>1
  <1>4. Sound(slots, 0) /\ InState(slots, 0, 1) = {}
    BY <1>3 DEF Sound, Table, Probed, OneSlot, InState
  <1>5. ~live
    BY <1>2 DEF live
  <1>6. HashInv
    BY <1>1, <1>2, <1>4, <1>5 DEF HashInv
  <1>7. QED
    BY <1>1, <1>5, <1>6, TableIs DEF KV!Init

LEMMA HashStep ==
    ASSUME HashAssumption, HashInv, [MapNext]_mapVars
    PROVE  HashInv' /\ [KV!Next]_<<Contents, call, live>>
  <1>1. CASE UNCHANGED mapVars
    <2>1. UNCHANGED <<slots, mapLen, tombs, buffers, call>>
      BY <1>1 DEF mapVars
    <2>2. mapCap' = mapCap
      BY <2>1 DEF mapCap
    <2>3. Contents' = Contents /\ live' = live /\ HashInv'
      BY <2>1, <2>2 DEF Contents, Full, live, HashInv
    <2>4. QED
      BY <2>1, <2>3
  <1>2. QED
    BY <1>1, NewStep, DropStep, GetStep, RemoveStep, PutStep DEF MapNext, KV!Next

(* Hash map: every probe of put, get, remove and of the rehash ends, len    *)
(* and tombs are what they count, and every key copy belongs to an entry,   *)
(* over any sequence of calls, with any allocation failing.                 *)
THEOREM HashTableSound ==
    ASSUME HashAssumption
    PROVE  MapSpec => []TableSound
  <1>1. HashInv => TableSound
    <2> SUFFICES ASSUME HashInv PROVE TableSound
      OBVIOUS
    <2>1. /\ Full = InState(slots, mapCap, 1)
          /\ {i \in DOMAIN slots : slots[i].state = 2} = InState(slots, mapCap, 2)
      BY TableIs DEF InState
    <2>2. live => \E i \in DOMAIN slots : slots[i].state = 0
      BY TableIs DEF InState
    <2>3. QED
      BY <2>1, <2>2 DEF TableSound, EveryProbeEnds, CountsMatch, HashInv
  <1>2. QED
    BY <1>1, HashInvInit, HashStep, PTL DEF MapSpec

(* Hash map: it implements a partial function from keys to values; a put    *)
(* that fails changes nothing, and get and remove answer from the function, *)
(* whatever tombstones and growths came before.                             *)
THEOREM HashImplementsMap ==
    ASSUME HashAssumption
    PROVE  MapSpec => ImplementsMap
  <1>1. QED
    BY HashInvInit, HashStep, PTL DEF MapSpec, ImplementsMap, KV!Spec
=============================================================================
