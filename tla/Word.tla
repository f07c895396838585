-------------------------------- MODULE Word --------------------------------
(***************************************************************************)
(* The machine word of waivm, wai_value (int64_t), and its conversions.    *)
(* The width is a parameter: a byte has ByteBits bits and a value has      *)
(* ValueSize bytes (8 and 8 in the program).  Integers keep that width:    *)
(* every arithmetic result is reduced by Signed, the cast (wai_value) of   *)
(* an unsigned word, which is also what gcc's code computes where C leaves *)
(* signed overflow undefined (add, sub and imul on x86-64 wrap, and        *)
(* update_zf reads the wrapped value).                                     *)
(***************************************************************************)
EXTENDS Integers

CONSTANTS
    ByteBits,   \* bits in a byte of vm->memory
    ValueSize   \* sizeof(wai_value), in bytes

ASSUME WordAssumption == ByteBits \in Nat \ {0} /\ ValueSize \in Nat \ {0}

WordBits == ByteBits * ValueSize

(* 2^k, for the shifts and masks of a word. *)
Place[k \in 0..WordBits] == IF k = 0 THEN 1 ELSE 2 * Place[k - 1]

Modulus == Place[WordBits]
Half == Place[WordBits - 1]
Value == -Half .. (Modulus - Half - 1)
Byte == 0 .. (Place[ByteBits] - 1)
ByteIndex == 0 .. (ValueSize - 1)
BitIndex == 0 .. (WordBits - 1)

MinValue == -Half

(* The casts (uint64_t)v and (wai_value)u. *)
Unsigned(v) == v % Modulus
Signed(u) == ((u + Half) % Modulus) - Half

----------------------------------------------------------------------------
(* The accumulator of a loop over term[0] .. term[n - 1]. *)
RunningSum(term, n) ==
    LET sum[k \in 0..n] == IF k = 0 THEN 0 ELSE sum[k - 1] + term[k - 1]
    IN  sum[n]

(* Mutant of ByteOf: the mask & 0xff is missing. *)
ByteUnmasked(v, i) == Unsigned(v) \div Place[ByteBits * i]

(* Little-endian bytes of a value: byte i is (raw >> (8 * i)) & 0xff, and  *)
(* the load loop accumulates byte i shifted by 8 * i.                      *)
ByteOf(v, i) == (Unsigned(v) \div Place[ByteBits * i]) % Place[ByteBits]

FromBytes(bytes) ==
    Signed(RunningSum([i \in ByteIndex |-> bytes[i] * Place[ByteBits * i]],
                      ValueSize))

----------------------------------------------------------------------------
(* Bitwise operators, by the set of one bits of the unsigned word. *)
BitsOf(v) == {k \in BitIndex : (Unsigned(v) \div Place[k]) % 2 = 1}

FromBits(S) ==
    Signed(RunningSum([k \in BitIndex |-> IF k \in S THEN Place[k] ELSE 0],
                      WordBits))

And(v, w) == FromBits(BitsOf(v) \cap BitsOf(w))
Or(v, w) == FromBits(BitsOf(v) \cup BitsOf(w))
Xor(v, w) == FromBits((BitsOf(v) \cup BitsOf(w)) \ (BitsOf(v) \cap BitsOf(w)))
Not(v) == FromBits(BitIndex \ BitsOf(v))

(* Shifts act on the unsigned word; shr is logical. *)
Shl(v, s) == Signed(Unsigned(v) * Place[s])
Shr(v, s) == Signed(Unsigned(v) \div Place[s])

----------------------------------------------------------------------------
(* C division truncates toward zero, and the remainder has the dividend's  *)
(* sign; the divisor is not zero.  MinValue / -1 has no result in Value.   *)
Abs(v) == IF v < 0 THEN -v ELSE v
Quot(v, w) ==
    IF (v < 0) = (w < 0) THEN Abs(v) \div Abs(w) ELSE -(Abs(v) \div Abs(w))

Rem(v, w) == IF v < 0 THEN -(Abs(v) % Abs(w)) ELSE Abs(v) % Abs(w)
DivOverflows(v, w) == v = MinValue /\ w = -1
=============================================================================
