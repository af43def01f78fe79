--------------------------------- MODULE Vec ---------------------------------
(***************************************************************************)
(* The raw vector of the runtime (runtime/collections.c) on the allocator  *)
(* hooks (runtime/runtime.c).  Lengths, capacities and byte counts are     *)
(* size_t, here 0 .. SizeMax; what the elements hold is left out.  An      *)
(* allocation may fail at any time.                                        *)
(***************************************************************************)
EXTENDS Naturals

CONSTANTS SizeMax,      \* SIZE_MAX, one less than a power of two
          InitialCap,   \* 8 in the code
          OverAligned   \* elem_align exceeds that of max_align_t

VARIABLES elem_size, len, cap,
          data,    \* "null", "live" or "freed": what v->data points to
          block,   \* the size of that block
          claimed, \* the last old size given to the allocator with a block,
          actual,  \* and the size the block had
          ret      \* the last result

vecVars == <<elem_size, len, cap, data, block, claimed, actual, ret>>

VecInit == /\ elem_size = 0 /\ len = 0 /\ cap = 0
           /\ data = "null" /\ block = 0
           /\ claimed = 0 /\ actual = 0
           /\ ret = "ok"
-----------------------------------------------------------------------------
(* The product wraps when it does not fit.  A plausible slip: nobody asks.  *)
Product(a, b) == (a * b) % (SizeMax + 1)
mul_never_overflows(a, b) == FALSE
mul_overflow_size(a, b) == a # 0 /\ b > SizeMax \div a

(* The capacity that reserve settles on: doubled until it is enough, or     *)
(* exactly enough where doubling would overflow.                            *)
NewCap(need) ==
    LET grown[c \in 1 .. SizeMax] ==
            IF c >= need THEN c
            ELSE IF c > SizeMax \div 2 THEN need
            ELSE grown[2 * c]
    IN  grown[IF cap = 0 THEN InitialCap ELSE cap]

(* uinx_vec_init *)
vec_init(size) ==
    /\ elem_size = 0
    /\ IF size = 0 THEN ret' = "EINVAL" /\ UNCHANGED elem_size
                   ELSE ret' = "ok" /\ elem_size' = size
    /\ UNCHANGED <<len, cap, data, block, claimed, actual>>

(* uinx_realloc: a block of size new in place of the present one.           *)
(* default_realloc returns an over-aligned old block even if it has no new. *)
Realloc(new) ==
    /\ claimed' = Product(cap, elem_size)
    /\ actual' = block
    /\ data' = "live"
    /\ block' = new
ReallocFails ==
    /\ data' = IF OverAligned /\ data = "live" THEN "freed" ELSE data
    /\ UNCHANGED <<block, claimed, actual>>

(* uinx_vec_reserve, called to make len newLen when it succeeds.            *)
Reserve(add, newLen) ==
    LET need == len + add
        newCap == NewCap(need)
    IN  \/ /\ add > SizeMax - len
           /\ ret' = "EOVERFLOW" /\ len' = len
           /\ UNCHANGED <<cap, data, block, claimed, actual>>
        \/ /\ add <= SizeMax - len /\ need <= cap
           /\ ret' = "ok" /\ len' = newLen
           /\ UNCHANGED <<cap, data, block, claimed, actual>>
        \/ /\ add <= SizeMax - len /\ need > cap
           /\ mul_overflow_size(cap, elem_size) \/ mul_overflow_size(newCap, elem_size)
           /\ ret' = "EOVERFLOW" /\ len' = len
           /\ UNCHANGED <<cap, data, block, claimed, actual>>
        \/ /\ add <= SizeMax - len /\ need > cap
           /\ ~(mul_overflow_size(cap, elem_size) \/ mul_overflow_size(newCap, elem_size))
           /\ \/ /\ Realloc(Product(newCap, elem_size))
                 /\ cap' = newCap
                 /\ ret' = "ok" /\ len' = newLen
              \/ /\ ReallocFails
                 /\ UNCHANGED cap
                 /\ ret' = "ENOMEM" /\ len' = len

vec_reserve(add) ==
    /\ elem_size # 0
    /\ Reserve(add, len)
    /\ UNCHANGED elem_size

(* uinx_vec_push *)
vec_push ==
    /\ elem_size # 0
    /\ Reserve(1, len + 1)
    /\ UNCHANGED elem_size

(* uinx_vec_pop *)
vec_pop ==
    /\ elem_size # 0
    /\ IF len = 0 THEN ret' = "ENOENT" /\ UNCHANGED len
                  ELSE ret' = "ok" /\ len' = len - 1
    /\ UNCHANGED <<elem_size, cap, data, block, claimed, actual>>

(* uinx_vec_clear *)
vec_clear ==
    /\ elem_size # 0
    /\ len' = 0
    /\ UNCHANGED <<elem_size, cap, data, block, claimed, actual, ret>>

(* uinx_vec_drop: the vector may be used again.                             *)
vec_drop ==
    /\ elem_size # 0
    /\ data' = "null" /\ block' = 0
    /\ claimed' = IF data = "null" THEN claimed ELSE Product(cap, elem_size)
    /\ actual' = IF data = "null" THEN actual ELSE block
    /\ len' = 0 /\ cap' = 0
    /\ UNCHANGED <<elem_size, ret>>

VecNext == \/ \E n \in 0 .. SizeMax : vec_init(n) \/ vec_reserve(n)
           \/ vec_push \/ vec_pop \/ vec_clear \/ vec_drop

VecSpec == VecInit /\ [][VecNext]_vecVars
-----------------------------------------------------------------------------
(* Every element lies in the block: push writes at len * elem_size, pop     *)
(* reads there, and neither reserve's arithmetic on size_t nor an           *)
(* allocation that fails leaves a capacity the block does not have.         *)
ElementsInBlock == /\ len <= cap
                   /\ cap > 0 => data = "live"
                   /\ cap * elem_size <= block

(* The allocator hooks are told the size a block really has, as a sized     *)
(* allocator installed with uinx_set_allocator relies on.                   *)
SizedFree == claimed = actual

(* Neither an overflow of size_t nor an allocation that fails breaks either *)
(* of them, over any sequence of calls.                                     *)
VecSafe == ElementsInBlock /\ SizedFree
-----------------------------------------------------------------------------
(* Where blocks are moved only by a realloc that keeps the old one when it  *)
(* fails, the block has the size the capacity says, without wrapping.       *)
VecAssumption == SizeMax \in Nat /\ InitialCap \in 1 .. SizeMax /\ ~OverAligned

VecInv == /\ elem_size \in 0 .. SizeMax /\ cap \in 0 .. SizeMax /\ len \in 0 .. cap
          /\ cap * elem_size <= SizeMax /\ block = cap * elem_size
          /\ cap > 0 => elem_size > 0
          /\ data = IF cap > 0 THEN "live" ELSE "null"
          /\ claimed = actual
=============================================================================
