-------------------------------- MODULE Utf8 --------------------------------
(***************************************************************************)
(* The UTF-8 primitives of the runtime (runtime/unicode.c).                *)
(* The machine takes a code point or raw bytes, has the runtime make a     *)
(* string of it, and validates the string one uinx_utf8_next at a time, as *)
(* uinx_utf8_validate does.                                                *)
(***************************************************************************)
EXTENDS Integers, Sequences

CONSTANTS CodePoints,  \* the u32 values that are converted
          Bytes,       \* the bytes raw input is made of
          MaxBytes     \* the length of raw input

Utf8Assumption == CodePoints \subseteq Nat /\ Bytes \subseteq 0 .. 255 /\ MaxBytes \in Nat

VARIABLES from,    \* "encode" or "bytes": how the string was made
          char,    \* the code point it was made of, -1 for raw bytes
          bytes,   \* the string
          off,     \* how much of it was read
          chars,   \* the code points read, each with the offset it ends at
          status   \* "reading", "ok" or "EILSEQ"

textVars == <<from, char, bytes, off, chars, status>>
-----------------------------------------------------------------------------
(* The bits of a byte below its lead, and the six payload bits of a code    *)
(* point at a place.  Masks and shifts are divisions by powers of two.      *)
Low(b, m) == b % m
Lead(b, m) == b \div m
Payload(c, m) == 128 + ((c \div m) % 64)

Invalid(c) == c > 1114111 \/ c \in 55296 .. 57343

utf8_encode(c) ==
    IF Invalid(c) THEN <<>>
    ELSE IF c < 128   THEN <<c>>
    ELSE IF c < 2048  THEN <<192 + c \div 64, Payload(c, 1)>>
    ELSE IF c < 65536 THEN <<224 + c \div 4096, Payload(c, 64), Payload(c, 1)>>
    ELSE <<240 + c \div 262144, Payload(c, 4096), Payload(c, 64), Payload(c, 1)>>

(* The payload of a lead byte and how many bytes it asks for; need = -1     *)
(* for a byte that cannot lead.                                             *)
Header(a) ==
    CASE a < 128          -> [v |-> a, need |-> 0]
      [] Lead(a, 32) = 6  -> [v |-> Low(a, 32), need |-> IF Low(a, 32) < 2 THEN -1 ELSE 1]
      [] Lead(a, 16) = 14 -> [v |-> Low(a, 16), need |-> 2]
      [] Lead(a, 8) = 30  -> [v |-> Low(a, 8), need |-> IF Low(a, 8) > 4 THEN -1 ELSE 3]
      [] OTHER            -> [v |-> 0, need |-> -1]

(* A plausible slip: overlong forms pass.                                   *)
AcceptsOverlong(v, need) == ~Invalid(v)
Accepts(v, need) == /\ ~(need = 2 /\ v < 2048)
                    /\ ~(need = 3 /\ v < 65536)
                    /\ ~Invalid(v)

(* The loop over the bytes that follow, at most three.                      *)
Shifted(v, b) == v * 64 + Low(b, 64)
Value(h, d, i) ==
    CASE h.need = 1 -> Shifted(h.v, d[i + 2])
      [] h.need = 2 -> Shifted(Shifted(h.v, d[i + 2]), d[i + 3])
      [] h.need = 3 -> Shifted(Shifted(Shifted(h.v, d[i + 2]), d[i + 3]), d[i + 4])
      [] OTHER      -> h.v

(* uinx_utf8_next at offset i: the bytes used, 0 for EILSEQ, and the value. *)
utf8_next(d, i) ==
    LET h == Header(d[i + 1])
    IN  IF /\ h.need >= 0 /\ i + 1 + h.need <= Len(d)
           /\ \A j \in 1 .. h.need : Lead(d[i + 1 + j], 64) = 2
           /\ Accepts(Value(h, d, i), h.need)
        THEN [used |-> h.need + 1, cp |-> Value(h, d, i)]
        ELSE [used |-> 0, cp |-> 0]
-----------------------------------------------------------------------------
Start(how, c, str) == /\ from = how /\ char = c /\ bytes = str
                      /\ off = 0 /\ chars = <<>> /\ status = "reading"

Encoded == \E c \in CodePoints : ~Invalid(c) /\ Start("encode", c, utf8_encode(c))
Raw == \E n \in 1 .. MaxBytes : \E d \in [1 .. n -> Bytes] : Start("bytes", -1, d)

(* One turn of the loop of uinx_utf8_validate.                              *)
Validate ==
    /\ status = "reading"
    /\ IF off = Len(bytes) THEN status' = "ok" /\ UNCHANGED <<off, chars>>
       ELSE LET r == utf8_next(bytes, off)
            IN  IF r.used = 0 THEN status' = "EILSEQ" /\ UNCHANGED <<off, chars>>
                ELSE /\ off' = off + r.used
                     /\ chars' = Append(chars, [cp |-> r.cp, end |-> off'])
                     /\ UNCHANGED status
    /\ UNCHANGED <<from, char, bytes>>

TextSpec == (Encoded \/ Raw) /\ [][Validate]_textVars
-----------------------------------------------------------------------------
(* The well-formed sequences by the Unicode standard (table 3-7).           *)
Cont == 128 .. 191
WellFormed(d) ==
    \/ Len(d) = 1 /\ d[1] < 128
    \/ Len(d) = 2 /\ d[1] \in 194 .. 223 /\ d[2] \in Cont
    \/ /\ Len(d) = 3 /\ d[3] \in Cont
       /\ \/ d[1] = 224 /\ d[2] \in 160 .. 191
          \/ d[1] = 237 /\ d[2] \in 128 .. 159
          \/ d[1] \in (225 .. 239) \ {237} /\ d[2] \in Cont
    \/ /\ Len(d) = 4 /\ d[3] \in Cont /\ d[4] \in Cont
       /\ \/ d[1] = 240 /\ d[2] \in 144 .. 191
          \/ d[1] \in 241 .. 243 /\ d[2] \in Cont
          \/ d[1] = 244 /\ d[2] \in 128 .. 143

(* What uinx_utf8_next reads, uinx_utf8_encode writes back byte for byte:   *)
(* no overlong form, surrogate or value past 10FFFF gets through, and a     *)
(* string has one decoding.                                                 *)
Begin(k) == IF k = 1 THEN 0 ELSE chars[k - 1].end
DecodesWhatEncodes ==
    /\ \A k \in DOMAIN chars :
          SubSeq(bytes, Begin(k) + 1, chars[k].end) = utf8_encode(chars[k].cp)
    /\ off = Begin(Len(chars) + 1)

(* uinx_utf8_validate only turns away a string that is ill-formed where it  *)
(* stopped, and never what uinx_utf8_encode wrote.                          *)
RejectsOnlyIllFormed ==
    /\ status = "EILSEQ" => \A n \in off + 1 .. Len(bytes) : ~WellFormed(SubSeq(bytes, off + 1, n))
    /\ from = "encode" /\ status # "reading" => status = "ok" /\ Len(chars) = 1 /\ chars[1].cp = char

(* The decoder accepts exactly the well-formed strings, and reads back what *)
(* the encoder wrote.                                                       *)
DecodesExactly == DecodesWhatEncodes /\ RejectsOnlyIllFormed
=============================================================================
