----------------------------- MODULE WordProofs -----------------------------
(***************************************************************************)
(* Lemmas about Word for every byte width and value size: the recursive    *)
(* sums are well defined, and every conversion and operator yields a value *)
(* (or a byte), which is what the type invariant of the engines rests on.  *)
(* At the end, the bytes of a value recompose it, and loads, stores and    *)
(* instruction results stay inside the word.                               *)
(*                                                                         *)
(* Induction is over sets: a set of naturals that holds 0 and is closed    *)
(* under successor holds them all, because a least missing element would   *)
(* have a predecessor.                                                     *)
(***************************************************************************)
EXTENDS Machine, TLAPS, WellFoundedInduction, NaturalsInduction

(* Induction for a set S of naturals, from the well-foundedness of <. *)
LEMMA SetInduction ==
    ASSUME NEW S, 0 \in S, \A n \in Nat : n \in S => n + 1 \in S
    PROVE  \A n \in Nat : n \in S
<1> DEFINE Missing == {n \in Nat : n \notin S}
<1>1. SUFFICES ASSUME Missing # {} PROVE FALSE
  OBVIOUS
<1>2. PICK x \in Missing :
          \A y \in Missing : ~(<<y, x>> \in OpToRel(<, Nat))
  BY <1>1, WFMin, NatLessThanWellFounded
<1>3. x \in Nat /\ x # 0
  OBVIOUS
<1>4. x - 1 \in Nat /\ x - 1 < x /\ x = (x - 1) + 1
  BY <1>3
<1>5. <<x - 1, x>> \in OpToRel(<, Nat)
  BY <1>3, <1>4 DEF OpToRel
<1>6. x - 1 \in S
  BY <1>2, <1>4, <1>5
<1> QED
  BY <1>4, <1>6

(* A nonempty set of naturals has a least member. *)
LEMMA LeastExists ==
    ASSUME NEW S \in SUBSET Nat, S # {}
    PROVE  \E x \in S : \A y \in S : x <= y
<1>1. PICK x \in S : \A y \in S : ~(<<y, x>> \in OpToRel(<, Nat))
  BY WFMin, NatLessThanWellFounded
<1>2. ASSUME NEW y \in S PROVE x <= y
  <2>1. x \in Nat /\ y \in Nat /\ ~(y < x)
    BY <1>1 DEF OpToRel
  <2> QED
    BY <2>1
<1> QED
  BY <1>2

----------------------------------------------------------------------------
(* A running sum: sum[n] is sum[n - 1] plus term[n - 1].  Both loops of    *)
(* Word (over the bytes of a load, over the bits of a result) are such     *)
(* sums, and for natural terms the recursion has a solution and every      *)
(* partial sum is a natural.                                               *)
LEMMA RunningSumExists ==
    ASSUME NEW N \in Nat, NEW term, \A k \in 0..(N - 1) : term[k] \in Nat
    PROVE  \E s : s = [n \in 0..N |-> IF n = 0 THEN 0 ELSE s[n - 1] + term[n - 1]]
<1> DEFINE Rec(s, m) ==
             s = [n \in 0..m |-> IF n = 0 THEN 0 ELSE s[n - 1] + term[n - 1]]
           Solved == {m \in Nat : m <= N => \E s : Rec(s, m)}
<1>1. 0 \in Solved
  <2>1. Rec([n \in 0..0 |-> 0], 0)
    OBVIOUS
  <2> QED
    BY <2>1
<1>2. ASSUME NEW m \in Nat, m \in Solved PROVE m + 1 \in Solved
  <2>1. SUFFICES ASSUME m + 1 <= N PROVE \E s : Rec(s, m + 1)
    OBVIOUS
  <2>2. PICK s : Rec(s, m)
    BY <1>2, <2>1
  <2> DEFINE t == [n \in 0..(m + 1) |->
                      IF n <= m THEN s[n] ELSE s[m] + term[m]]
  <2>3. ASSUME NEW n \in 0..(m + 1)
        PROVE  t[n] = IF n = 0 THEN 0 ELSE t[n - 1] + term[n - 1]
    <3>1. CASE n = 0
      BY <2>2, <3>1
    <3>2. CASE n # 0 /\ n <= m
      BY <2>2, <3>2
    <3>3. CASE n = m + 1
      BY <2>2, <3>3
    <3> QED
      BY <3>1, <3>2, <3>3
  <2>4. Rec(t, m + 1)
    BY <2>3, Zenon
  <2> QED
    BY <2>4
<1>3. \A m \in Nat : m \in Solved
  <2> HIDE DEF Solved
  <2> QED
    BY <1>1, <1>2, SetInduction
<1> QED
  BY <1>3

LEMMA RunningSumNat ==
    ASSUME NEW N \in Nat, NEW term, \A k \in 0..(N - 1) : term[k] \in Nat,
           NEW s, s = [n \in 0..N |-> IF n = 0 THEN 0 ELSE s[n - 1] + term[n - 1]]
    PROVE  \A n \in 0..N : s[n] \in Nat
<1> DEFINE Good == {n \in Nat : n <= N => s[n] \in Nat}
<1>1. 0 \in Good
  OBVIOUS
<1>2. ASSUME NEW n \in Nat, n \in Good PROVE n + 1 \in Good
  <2>1. SUFFICES ASSUME n + 1 <= N PROVE s[n + 1] \in Nat
    OBVIOUS
  <2>2. s[n + 1] = s[n] + term[n]
    BY <2>1
  <2>3. s[n] \in Nat /\ term[n] \in Nat
    BY <1>2, <2>1
  <2> QED
    BY <2>2, <2>3
<1>3. \A n \in Nat : n \in Good
  <2> HIDE DEF Good
  <2> QED
    BY <1>1, <1>2, SetInduction
<1> QED
  BY <1>3

LEMMA RunningSumType ==
    ASSUME NEW N \in Nat, NEW term, \A k \in 0..(N - 1) : term[k] \in Nat
    PROVE  RunningSum(term, N) \in Nat
<1> DEFINE s == CHOOSE s : s = [k \in 0..N |-> IF k = 0 THEN 0 ELSE s[k - 1] + term[k - 1]]
<1>1. s = [k \in 0..N |-> IF k = 0 THEN 0 ELSE s[k - 1] + term[k - 1]]
  BY RunningSumExists
<1>2. RunningSum(term, N) = s[N]
  BY DEF RunningSum
<1> HIDE DEF s
<1>3. s[N] \in Nat
  BY <1>1, RunningSumNat
<1> QED
  BY <1>2, <1>3

----------------------------------------------------------------------------
(* Place is the function of powers of two. *)
LEMMA WordBitsType == WordBits \in Nat \ {0}
<1>1. \A m, n \in Nat \ {0} : m * n \in Nat \ {0}
  BY SMT
<1> QED
  BY <1>1, WordAssumption DEF WordBits

LEMMA PlaceRecursion ==
    Place = [k \in 0..WordBits |-> IF k = 0 THEN 1 ELSE 2 * Place[k - 1]]
<1> DEFINE Rec(p, m) == p = [k \in 0..m |-> IF k = 0 THEN 1 ELSE 2 * p[k - 1]]
           Solved == {m \in Nat : \E p : Rec(p, m)}
<1>1. 0 \in Solved
  <2>1. Rec([k \in 0..0 |-> 1], 0)
    OBVIOUS
  <2> QED
    BY <2>1
<1>2. ASSUME NEW m \in Nat, m \in Solved PROVE m + 1 \in Solved
  <2>1. PICK p : Rec(p, m)
    BY <1>2
  <2> DEFINE q == [k \in 0..(m + 1) |-> IF k <= m THEN p[k] ELSE 2 * p[m]]
  <2>2. ASSUME NEW k \in 0..(m + 1)
        PROVE  q[k] = IF k = 0 THEN 1 ELSE 2 * q[k - 1]
    <3>1. CASE k = 0
      BY <2>1, <3>1
    <3>2. CASE k # 0 /\ k <= m
      BY <2>1, <3>2
    <3>3. CASE k = m + 1
      BY <2>1, <3>3
    <3> QED
      BY <3>1, <3>2, <3>3
  <2>3. Rec(q, m + 1)
    BY <2>2, Zenon
  <2>4. \E s : Rec(s, m + 1)
    <3> HIDE DEF Rec, q
    <3> QED
      BY <2>3
  <2> HIDE DEF Rec
  <2> QED
    BY <2>4
<1>3. \A m \in Nat : m \in Solved
  <2> HIDE DEF Solved
  <2> QED
    BY <1>1, <1>2, SetInduction
<1>4. \E p : Rec(p, WordBits)
  BY <1>3, WordBitsType
<1> QED
  BY <1>4 DEF Place

LEMMA PlacePositive == \A k \in 0..WordBits : Place[k] \in Nat \ {0}
<1> DEFINE Good == {k \in Nat : k <= WordBits => Place[k] \in Nat \ {0}}
<1>1. 0 \in Good
  BY PlaceRecursion, WordBitsType
<1>2. ASSUME NEW k \in Nat, k \in Good PROVE k + 1 \in Good
  <2>1. SUFFICES ASSUME k + 1 <= WordBits PROVE Place[k + 1] \in Nat \ {0}
    OBVIOUS
  <2>2. Place[k + 1] = 2 * Place[k]
    BY <2>1, PlaceRecursion, WordBitsType
  <2>3. Place[k] \in Nat \ {0}
    BY <1>2, <2>1, WordBitsType
  <2> QED
    BY <2>2, <2>3
<1>3. \A k \in Nat : k \in Good
  <2> HIDE DEF Good
  <2> QED
    BY <1>1, <1>2, SetInduction
<1> QED
  BY <1>3, WordBitsType

----------------------------------------------------------------------------
(* The casts and the operators stay in Value. *)
LEMMA Widths ==
    /\ Modulus \in Nat \ {0}
    /\ Half \in Nat \ {0}
    /\ Modulus = 2 * Half
    /\ Value = -Half .. (Half - 1)
<1>1. WordBits - 1 \in 0..WordBits /\ WordBits \in 0..WordBits /\ WordBits # 0
  BY WordBitsType
<1>2. Modulus = 2 * Half
  BY <1>1, PlaceRecursion DEF Modulus, Half
<1>3. Modulus \in Nat \ {0} /\ Half \in Nat \ {0}
  BY <1>1, PlacePositive DEF Modulus, Half
<1> QED
  BY <1>2, <1>3 DEF Value

LEMMA ModuloRange ==
    ASSUME NEW x \in Int, NEW m \in Nat \ {0}
    PROVE  x % m \in 0..(m - 1)
OBVIOUS

LEMMA SignedType == \A x \in Int : Signed(x) \in Value
<1> SUFFICES ASSUME NEW x \in Int PROVE Signed(x) \in Value
  OBVIOUS
<1>1. (x + Half) % Modulus \in 0..(Modulus - 1)
  BY Widths, ModuloRange
<1> QED
  BY <1>1, Widths DEF Signed

LEMMA SignedOfSmall ==
    ASSUME NEW u \in 0 .. (Half - 1)
    PROVE  Signed(u) = u
BY Widths DEF Signed

LEMMA ZeroIsValue == 0 \in Value
BY Widths

LEMMA UnsignedType == \A v \in Value : Unsigned(v) \in 0..(Modulus - 1)
BY Widths, ModuloRange DEF Unsigned

LEMMA QuotientNat ==
    ASSUME NEW u \in Nat, NEW d \in Nat \ {0}
    PROVE  u \div d \in Nat /\ u \div d <= u
OBVIOUS

LEMMA FromBitsType == \A S : FromBits(S) \in Value
<1> SUFFICES ASSUME NEW S PROVE FromBits(S) \in Value
  OBVIOUS
<1> DEFINE term == [k \in BitIndex |-> IF k \in S THEN Place[k] ELSE 0]
<1>1. \A k \in 0..(WordBits - 1) : term[k] \in Nat
  BY PlacePositive, WordBitsType DEF BitIndex
<1>2. RunningSum(term, WordBits) \in Nat
  <2> HIDE DEF term
  <2> QED
    BY <1>1, RunningSumType, WordBitsType
<1> QED
  BY <1>2, SignedType DEF FromBits

LEMMA ByteBitsFit ==
    \A i \in ByteIndex : ByteBits * i \in 0..WordBits
<1> SUFFICES ASSUME NEW i \in ByteIndex PROVE ByteBits * i \in 0..WordBits
  OBVIOUS
<1>1. \A m, n \in Nat : \A j \in 0..n : m * j \in Nat /\ m * j <= m * n /\ m * n \in Nat
  BY SMT
<1> QED
  BY <1>1, WordAssumption DEF ByteIndex, WordBits

LEMMA ByteBitsInWord == ByteBits \in 0..WordBits
<1>1. \A m \in Nat : \A n \in Nat \ {0} : m <= m * n
  BY SMT
<1> QED
  BY <1>1, WordAssumption, WordBitsType DEF WordBits

LEMMA ByteOfType ==
    ASSUME NEW v \in Value, NEW i \in ByteIndex
    PROVE  ByteOf(v, i) \in Byte
<1>1. Unsigned(v) \in Nat
  BY UnsignedType, Widths
<1>2. Place[ByteBits * i] \in Nat \ {0} /\ Place[ByteBits] \in Nat \ {0}
  BY ByteBitsFit, ByteBitsInWord, PlacePositive
<1>3. Unsigned(v) \div Place[ByteBits * i] \in Int
  BY <1>1, <1>2, QuotientNat
<1> QED
  BY <1>2, <1>3, ModuloRange DEF ByteOf, Byte

LEMMA FromBytesType ==
    ASSUME NEW bytes \in [ByteIndex -> Byte]
    PROVE  FromBytes(bytes) \in Value
<1> DEFINE term == [i \in ByteIndex |-> bytes[i] * Place[ByteBits * i]]
<1>1. \A i \in 0..(ValueSize - 1) : term[i] \in Nat
  <2> SUFFICES ASSUME NEW i \in ByteIndex PROVE bytes[i] * Place[ByteBits * i] \in Nat
    BY DEF ByteIndex
  <2>1. Place[ByteBits * i] \in Nat
    BY ByteBitsFit, PlacePositive
  <2>2. bytes[i] \in Nat
    BY ByteBitsInWord, PlacePositive DEF Byte
  <2> QED
    BY <2>1, <2>2
<1>2. RunningSum(term, ValueSize) \in Nat
  <2> HIDE DEF term
  <2> QED
    BY <1>1, RunningSumType, WordAssumption
<1> QED
  BY <1>2, SignedType DEF FromBytes

LEMMA BitwiseType ==
    ASSUME NEW v, NEW w
    PROVE  And(v, w) \in Value /\ Or(v, w) \in Value /\ Xor(v, w) \in Value
             /\ Not(v) \in Value
BY FromBitsType DEF And, Or, Xor, Not

LEMMA ShiftType ==
    ASSUME NEW v \in Value, NEW s \in BitIndex
    PROVE  Shl(v, s) \in Value /\ Shr(v, s) \in Value
<1>1. Unsigned(v) \in Nat
  BY UnsignedType, Widths
<1>2. Place[s] \in Nat \ {0}
  BY PlacePositive, WordBitsType DEF BitIndex
<1>3. Unsigned(v) * Place[s] \in Int /\ Unsigned(v) \div Place[s] \in Int
  BY <1>1, <1>2, QuotientNat
<1> QED
  BY <1>3, SignedType DEF Shl, Shr

LEMMA ArithmeticType ==
    ASSUME NEW v \in Value, NEW w \in Value
    PROVE  Signed(v + w) \in Value /\ Signed(v - w) \in Value
             /\ Signed(v * w) \in Value
<1>1. v \in Int /\ w \in Int
  BY Widths
<1> QED
  BY <1>1, SignedType

(* Truncated division leaves Value only at the one overflow idiv traps on. *)
LEMMA DivisionType ==
    ASSUME NEW v \in Value, NEW w \in Value, w # 0, ~DivOverflows(v, w)
    PROVE  Quot(v, w) \in Value /\ Rem(v, w) \in Value
<1> DEFINE a == Abs(v)
           b == Abs(w)
<1>1. a \in 0..Half /\ b \in 1..Half
  BY Widths DEF Abs
<1>2. a \div b \in Nat /\ a \div b <= a
  BY <1>1, QuotientNat, Widths
<1>3. a % b \in 0..(b - 1)
  <2> HIDE DEF a, b
  <2>1. a \in Int /\ b \in Nat \ {0}
    BY <1>1, Widths
  <2> QED
    BY <2>1, ModuloRange
<1>4. Rem(v, w) \in Value
  <2> HIDE DEF a, b
  <2>1. Rem(v, w) = IF v < 0 THEN -(a % b) ELSE a % b
    BY DEF Rem, a, b
  <2> QED
    BY <2>1, <1>3, <1>1, Widths
<1>5. Quot(v, w) \in Value
  <2>1. CASE (v < 0) # (w < 0)
    <3>1. Quot(v, w) = -(a \div b)
      BY <2>1 DEF Quot
    <3> HIDE DEF a, b
    <3> QED
      BY <3>1, <1>1, <1>2, Widths
  <2>2. CASE v < 0 /\ w < 0
    <3>1. Quot(v, w) = a \div b
      BY <2>2 DEF Quot
    <3>2. a < Half \/ b >= 2
      BY <2>2, Widths DEF DivOverflows, MinValue, Abs
    <3>3. a \div b < Half
      <4>1. \A m \in Nat : \A n \in Nat : n >= 2 /\ m # 0 => m \div n < m
        BY SMT
      <4> HIDE DEF a, b
      <4> QED
        BY <3>2, <4>1, <1>1, <1>2, Widths
    <3> HIDE DEF a, b
    <3> QED
      BY <3>1, <3>3, <1>2, Widths
  <2>3. CASE v >= 0 /\ w >= 0
    <3>1. Quot(v, w) = a \div b
      BY <2>3, Widths DEF Quot
    <3>2. a < Half
      BY <2>3, Widths DEF Abs
    <3> HIDE DEF a, b
    <3> QED
      BY <3>1, <3>2, <1>1, <1>2, Widths
  <2> QED
    BY <2>1, <2>2, <2>3, Widths
<1> QED
  BY <1>4, <1>5

----------------------------------------------------------------------------
(* Arithmetic of digits, for the bytes of a word.                          *)
(* Place turns sums of exponents into products. *)
LEMMA PlaceSum ==
    ASSUME NEW j \in Nat, NEW k \in Nat, j + k <= WordBits
    PROVE  Place[j + k] = Place[j] * Place[k]
<1> DEFINE Good == {n \in Nat : j + n <= WordBits => Place[j + n] = Place[j] * Place[n]}
<1>1. 0 \in Good
  <2>1. j \in 0..WordBits /\ 0 \in 0..WordBits
    BY WordBitsType
  <2>2. Place[0] = 1 /\ Place[j] \in Nat
    BY <2>1, PlaceRecursion, PlacePositive
  <2> QED
    BY <2>2
<1>2. ASSUME NEW n \in Nat, n \in Good PROVE n + 1 \in Good
  <2>1. SUFFICES ASSUME j + (n + 1) <= WordBits
                 PROVE  Place[j + (n + 1)] = Place[j] * Place[n + 1]
    OBVIOUS
  <2>2. /\ Place[j + n + 1] = 2 * Place[j + n]
        /\ Place[n + 1] = 2 * Place[n]
    <3>1. j + n + 1 \in 1..WordBits /\ n + 1 \in 1..WordBits
      BY <2>1, WordBitsType
    <3>2. \A i \in 1..WordBits : Place[i] = 2 * Place[i - 1]
      BY PlaceRecursion, WordBitsType
    <3>3. j + n + 1 - 1 = j + n /\ n + 1 - 1 = n
      OBVIOUS
    <3> QED
      BY <3>1, <3>2, <3>3
  <2>3. Place[j + n] = Place[j] * Place[n]
    BY <1>2, <2>1, WordBitsType
  <2>4. Place[j] \in Nat /\ Place[n] \in Nat
    BY <2>1, PlacePositive, WordBitsType
  <2>5. \A x, y \in Nat : 2 * (x * y) = x * (2 * y)
    OBVIOUS
  <2>6. j + (n + 1) = j + n + 1
    OBVIOUS
  <2> QED
    BY <2>2, <2>3, <2>4, <2>5, <2>6
<1>3. \A n \in Nat : n \in Good
  <2> HIDE DEF Good
  <2> QED
    BY <1>1, <1>2, SetInduction
<1> QED
  BY <1>3

LEMMA DivMod ==
    ASSUME NEW u \in Nat, NEW d \in Nat \ {0}
    PROVE  u = d * (u \div d) + (u % d) /\ u \div d \in Nat /\ u % d \in 0 .. (d - 1)
OBVIOUS

LEMMA RemainderUnique ==
    ASSUME NEW d \in Nat \ {0}, NEW k \in Int, NEW r \in 0 .. (d - 1)
    PROVE  (d * k + r) % d = r
OBVIOUS

(* The digits of a number to the base q: below d come those of u % d, and  *)
(* the next one is (u \div d) % q.                                         *)
LEMMA NextDigit ==
    ASSUME NEW u \in Nat, NEW d \in Nat \ {0}, NEW q \in Nat \ {0}
    PROVE  u % (d * q) = (u % d) + ((u \div d) % q) * d
<1> DEFINE k == u \div d
           r == u % d
           m == k \div q
           s == k % q
<1>1. u = d * k + r /\ k \in Nat /\ r \in 0 .. (d - 1)
  BY DivMod
<1>2. k = q * m + s /\ m \in Nat /\ s \in 0 .. (q - 1)
  BY <1>1, DivMod
<1> HIDE DEF k, r, m, s
<1>3. d * q \in Nat \ {0} /\ d * s \in Nat /\ d * s <= d * (q - 1) /\ d * (q - 1) = d * q - d
  BY <1>2
<1>4. d * s + r \in 0 .. (d * q - 1)
  BY <1>1, <1>3
<1>5. u = (d * q) * m + (d * s + r)
  <2>1. d * (q * m + s) = (d * q) * m + d * s
    BY <1>2
  <2> QED
    BY <1>1, <1>2, <2>1, <1>3
<1>6. u % (d * q) = d * s + r
  <2> DEFINE n == d * q
             t == d * s + r
  <2>1. n \in Nat \ {0} /\ m \in Int /\ t \in 0 .. (n - 1) /\ u = n * m + t
    BY <1>2, <1>3, <1>4, <1>5
  <2> HIDE DEF n, t
  <2>2. u % n = t
    BY <2>1, RemainderUnique
  <2> QED
    BY <2>2 DEF n, t
<1>7. d * s = s * d
  BY <1>2
<1> QED
  BY <1>1, <1>2, <1>6, <1>7, <1>3 DEF k, r, s

(* A function that grows by the terms is the running sum. *)
LEMMA RunningSumSteps ==
    ASSUME NEW N \in Nat, NEW term, \A k \in 0..(N - 1) : term[k] \in Nat,
           NEW total, total[0] = 0,
           \A k \in 0..(N - 1) : total[k + 1] = total[k] + term[k]
    PROVE  RunningSum(term, N) = total[N]
<1> DEFINE s == CHOOSE s : s = [k \in 0..N |-> IF k = 0 THEN 0 ELSE s[k - 1] + term[k - 1]]
<1>1. s = [k \in 0..N |-> IF k = 0 THEN 0 ELSE s[k - 1] + term[k - 1]]
  BY RunningSumExists
<1>2. RunningSum(term, N) = s[N]
  BY DEF RunningSum
<1> HIDE DEF s
<1> DEFINE Good == {n \in Nat : n <= N => s[n] = total[n]}
<1>3. 0 \in Good
  BY <1>1
<1>4. ASSUME NEW n \in Nat, n \in Good PROVE n + 1 \in Good
  <2>1. SUFFICES ASSUME n + 1 <= N PROVE s[n + 1] = total[n + 1]
    OBVIOUS
  <2>2. s[n + 1] = s[n] + term[n]
    BY <1>1, <2>1
  <2> QED
    BY <1>4, <2>1, <2>2
<1>5. \A n \in Nat : n \in Good
  <2> HIDE DEF Good
  <2> QED
    BY <1>3, <1>4, SetInduction
<1> QED
  BY <1>2, <1>5

(* The two casts undo each other. *)
LEMMA SignedUnsigned == \A v \in Value : Signed(Unsigned(v)) = v
<1> SUFFICES ASSUME NEW v \in Value PROVE Signed(Unsigned(v)) = v
  OBVIOUS
<1>1. v \in Int /\ -Half <= v /\ v < Half /\ Modulus = 2 * Half /\ Half \in Nat \ {0}
  BY Widths
<1>2. CASE v >= 0
  <2>1. Unsigned(v) = v
    BY <1>1, <1>2 DEF Unsigned
  <2>2. (v + Half) % Modulus = v + Half
    BY <1>1, <1>2
  <2> QED
    BY <1>1, <2>1, <2>2 DEF Signed
<1>3. CASE v < 0
  <2>1. Unsigned(v) = v + Modulus
    <3>1. v + Modulus \in 0 .. (Modulus - 1) /\ v = Modulus * (-1) + (v + Modulus)
      BY <1>1, <1>3
    <3> QED
      BY <1>1, <3>1, RemainderUnique DEF Unsigned
  <2>2. (v + Modulus + Half) % Modulus = v + Half
    <3>1. v + Half \in 0 .. (Modulus - 1) /\ v + Modulus + Half = Modulus * 1 + (v + Half)
      BY <1>1, <1>3
    <3> QED
      BY <1>1, <3>1, RemainderUnique
  <2> QED
    BY <1>1, <2>1, <2>2 DEF Signed
<1> QED
  BY <1>1, <1>2, <1>3

(* The value assembled from the bytes of v is v: the partial sums are the  *)
(* remainders of the unsigned word by ever larger powers of two.           *)
LEMMA BytesRecompose ==
    ASSUME NEW v \in Value
    PROVE  FromBytes([i \in ByteIndex |-> ByteOf(v, i)]) = v
<1> DEFINE u == Unsigned(v)
           q == Place[ByteBits]
           bytes == [i \in ByteIndex |-> ByteOf(v, i)]
           term == [i \in ByteIndex |-> bytes[i] * Place[ByteBits * i]]
           total == [i \in 0..ValueSize |-> u % Place[ByteBits * i]]
<1>1. u \in Nat /\ u < Modulus /\ q \in Nat \ {0}
  BY UnsignedType, Widths, PlacePositive, ByteBitsInWord
<1>2. ASSUME NEW i \in ByteIndex
      PROVE  /\ i \in Nat /\ ByteBits * i \in 0..WordBits
             /\ Place[ByteBits * i] \in Nat \ {0}
             /\ ByteBits * (i + 1) = ByteBits * i + ByteBits
             /\ ByteBits * (i + 1) \in 0..WordBits
  <2>1. i \in 0..(ValueSize - 1) /\ ByteBits \in Nat /\ ValueSize \in Nat
    BY WordAssumption DEF ByteIndex
  <2>2. ByteBits * i \in 0..WordBits
    BY ByteBitsFit
  <2>3. \A m, n \in Nat : \A j \in 0..n : m * j \in Nat /\ m * j <= m * n /\ m * n \in Nat
    BY SMT
  <2>4. ByteBits * (i + 1) \in 0..WordBits
    BY <2>1, <2>3, WordBitsType DEF WordBits
  <2> QED
    BY <2>1, <2>2, <2>4, PlacePositive
<1>3. ASSUME NEW i \in ByteIndex
      PROVE  /\ term[i] = ((u \div Place[ByteBits * i]) % q) * Place[ByteBits * i]
             /\ term[i] \in Nat
  <2>1. bytes[i] = (u \div Place[ByteBits * i]) % q
    BY DEF ByteOf
  <2>2. bytes[i] \in Nat
    BY ByteOfType, PlacePositive, ByteBitsInWord DEF Byte
  <2> HIDE DEF u, q, bytes
  <2>3. term[i] = bytes[i] * Place[ByteBits * i]
    OBVIOUS
  <2> QED
    BY <2>1, <2>2, <2>3, <1>2
<1>4. ASSUME NEW i \in ByteIndex
      PROVE  u % Place[ByteBits * (i + 1)] = (u % Place[ByteBits * i]) + term[i]
  <2>1. Place[ByteBits * (i + 1)] = Place[ByteBits * i] * q
    BY <1>2, PlaceSum, WordAssumption
  <2> HIDE DEF u, q, term
  <2> DEFINE d == Place[ByteBits * i]
  <2>2. d \in Nat \ {0} /\ term[i] = ((u \div d) % q) * d
    BY <1>2, <1>3
  <2> HIDE DEF d
  <2>3. u % (d * q) = (u % d) + ((u \div d) % q) * d
    BY <1>1, <2>2, NextDigit
  <2>4. u % (d * q) = (u % d) + term[i]
    BY <2>2, <2>3
  <2> QED
    BY <2>1, <2>4 DEF d
<1> HIDE DEF u, q, term
<1>5. /\ total[0] = 0
      /\ \A i \in 0..(ValueSize - 1) : total[i + 1] = total[i] + term[i]
  <2>1. Place[ByteBits * 0] = 1
    BY PlaceRecursion, WordBitsType, WordAssumption
  <2>2. total[0] = u % 1
    BY <2>1, WordAssumption
  <2>3. total[0] = 0
    BY <1>1, <2>2
  <2>4. ASSUME NEW i \in 0..(ValueSize - 1) PROVE total[i + 1] = total[i] + term[i]
    <3>1. i \in ByteIndex /\ i \in 0..ValueSize /\ i + 1 \in 0..ValueSize
      BY WordAssumption DEF ByteIndex
    <3> QED
      BY <1>4, <3>1
  <2> QED
    BY <2>3, <2>4
<1>6. RunningSum(term, ValueSize) = total[ValueSize]
  <2> HIDE DEF total
  <2>1. \A i \in 0..(ValueSize - 1) : term[i] \in Nat
    BY <1>3 DEF ByteIndex
  <2> QED
    BY <1>5, <2>1, WordAssumption, RunningSumSteps
<1>7. total[ValueSize] = u
  <2>1. total[ValueSize] = u % Modulus
    BY WordAssumption DEF Modulus, WordBits
  <2> QED
    BY <1>1, <2>1, Widths
<1>8. FromBytes(bytes) = Signed(u)
  BY <1>6, <1>7 DEF FromBytes, term
<1> QED
  BY <1>8, SignedUnsigned DEF u

(* ... and in the other direction: every word is the cast of a value. *)
LEMMA UnsignedSigned == \A u \in 0 .. (Modulus - 1) : Unsigned(Signed(u)) = u
<1> SUFFICES ASSUME NEW u \in 0 .. (Modulus - 1) PROVE Unsigned(Signed(u)) = u
  OBVIOUS
<1>1. Modulus = 2 * Half /\ Half \in Nat \ {0} /\ u \in Nat /\ u < Modulus
  BY Widths
<1>2. CASE u < Half
  <2>1. (u + Half) % Modulus = u + Half
    BY <1>1, <1>2
  <2>2. Signed(u) = u
    BY <1>1, <2>1 DEF Signed
  <2> QED
    BY <1>1, <2>2 DEF Unsigned
<1>3. CASE u >= Half
  <2>1. (u + Half) % Modulus = u - Half
    <3>1. u - Half \in 0 .. (Modulus - 1) /\ u + Half = Modulus * 1 + (u - Half)
      BY <1>1, <1>3
    <3> QED
      BY <1>1, <3>1, RemainderUnique
  <2>2. Signed(u) = u - Modulus
    BY <1>1, <2>1 DEF Signed
  <2>3. (u - Modulus) % Modulus = u
    <3>1. u \in 0 .. (Modulus - 1) /\ u - Modulus = Modulus * (-1) + u
      BY <1>1
    <3> QED
      BY <1>1, <3>1, RemainderUnique
  <2> QED
    BY <2>2, <2>3 DEF Unsigned
<1> QED
  BY <1>1, <1>2, <1>3

(* A number is d times a digit and a remainder below d in one way only. *)
LEMMA DigitUnique ==
    ASSUME NEW d \in Nat \ {0}, NEW r \in 0 .. (d - 1), NEW s \in 0 .. (d - 1),
           NEW x \in Nat, NEW y \in Nat, r + x * d = s + y * d
    PROVE  r = s /\ x = y
<1>1. d * x + r = d * y + s
  <2>1. \A m, n \in Nat : m * n = n * m /\ m * n \in Nat
    OBVIOUS
  <2> QED
    BY <2>1
<1>2. (d * x + r) % d = r /\ (d * y + s) % d = s
  BY RemainderUnique
<1>3. d * x = d * y
  BY <1>1, <1>2
<1>4. \A m, n, p \in Nat : p # 0 /\ p * m = p * n => m = n
  BY SMT
<1> QED
  BY <1>1, <1>2, <1>3, <1>4

(* Bytes that were assembled to a value are the bytes of that value: the   *)
(* partial sums are the remainders of the whole sum, from the top digit    *)
(* down.                                                                   *)
LEMMA BytesDetermined ==
    ASSUME NEW bytes \in [ByteIndex -> Byte]
    PROVE  [i \in ByteIndex |-> ByteOf(FromBytes(bytes), i)] = bytes
<1> DEFINE q == Place[ByteBits]
           P(i) == Place[ByteBits * i]
           term == [i \in ByteIndex |-> bytes[i] * Place[ByteBits * i]]
           s == CHOOSE s : s = [k \in 0..ValueSize |->
                                  IF k = 0 THEN 0 ELSE s[k - 1] + term[k - 1]]
           u == Unsigned(FromBytes(bytes))
<1>1. q \in Nat \ {0} /\ Byte = 0 .. (q - 1) /\ ValueSize \in Nat \ {0}
  BY PlacePositive, ByteBitsInWord, WordAssumption DEF Byte
<1>2. ASSUME NEW i \in 0..ValueSize
      PROVE  i \in Nat /\ ByteBits * i \in 0..WordBits /\ P(i) \in Nat \ {0}
  <2>1. ByteBits \in Nat /\ ValueSize \in Nat
    BY WordAssumption
  <2>2. \A m, n \in Nat : \A j \in 0..n : m * j \in Nat /\ m * j <= m * n /\ m * n \in Nat
    BY SMT
  <2>3. ByteBits * i \in 0..WordBits
    BY <2>1, <2>2, WordBitsType DEF WordBits
  <2> QED
    BY <2>1, <2>3, PlacePositive
<1>3. ASSUME NEW i \in ByteIndex
      PROVE  /\ i \in 0..ValueSize /\ i + 1 \in 0..ValueSize /\ bytes[i] \in 0 .. (q - 1)
             /\ P(i + 1) = P(i) * q
  <2>1. i \in 0..ValueSize /\ i + 1 \in 0..ValueSize
    BY WordAssumption DEF ByteIndex
  <2>2. ByteBits * (i + 1) = ByteBits * i + ByteBits
    BY <2>1, WordAssumption
  <2>3. ByteBits * i + ByteBits \in 0..WordBits /\ ByteBits * i \in Nat /\ ByteBits \in Nat
    <3>1. ByteBits * i \in 0..WordBits /\ ByteBits * (i + 1) \in 0..WordBits
      BY <1>2, <2>1
    <3> QED
      BY <2>2, <3>1, WordAssumption, WordBitsType
  <2>4. P(i + 1) = P(i) * q
    BY <2>2, <2>3, PlaceSum
  <2> QED
    BY <1>1, <2>1, <2>4
<1>4. \A i \in 0..(ValueSize - 1) : term[i] = bytes[i] * P(i) /\ term[i] \in Nat
  <2> SUFFICES ASSUME NEW i \in ByteIndex PROVE bytes[i] * P(i) \in Nat
    BY DEF ByteIndex
  <2>1. bytes[i] \in Nat /\ P(i) \in Nat
    BY <1>1, <1>2, <1>3
  <2> HIDE DEF P
  <2> QED
    BY <2>1
<1>5. s = [k \in 0..ValueSize |-> IF k = 0 THEN 0 ELSE s[k - 1] + term[k - 1]]
  <2> HIDE DEF term
  <2> QED
    BY <1>4, WordAssumption, RunningSumExists
<1>6. FromBytes(bytes) = Signed(s[ValueSize])
  BY DEF FromBytes, RunningSum
<1> HIDE DEF s
<1>7. s[0] = 0 /\ \A i \in ByteIndex : s[i + 1] = s[i] + bytes[i] * P(i)
  <2>1. ASSUME NEW i \in ByteIndex PROVE s[i + 1] = s[i] + bytes[i] * P(i)
    <3>1. i + 1 \in 0..ValueSize /\ i + 1 # 0 /\ (i + 1) - 1 = i
      BY <1>3 DEF ByteIndex
    <3>2. term[i] = bytes[i] * P(i)
      OBVIOUS
    <3> HIDE DEF term, P
    <3> QED
      BY <1>5, <3>1, <3>2
  <2>2. 0 \in 0..ValueSize
    BY <1>1
  <2> HIDE DEF term
  <2> QED
    BY <1>5, <2>1, <2>2
<1> HIDE DEF P, q, term, u
<1>8. \A n \in 0..ValueSize : s[n] \in 0 .. (P(n) - 1)
  <2> DEFINE Good == {n \in Nat : n <= ValueSize => s[n] \in 0 .. (P(n) - 1)}
  <2>1. 0 \in Good
    BY <1>1, <1>2, <1>7
  <2>2. ASSUME NEW n \in Nat, n \in Good PROVE n + 1 \in Good
    <3>1. SUFFICES ASSUME n + 1 <= ValueSize PROVE s[n + 1] \in 0 .. (P(n + 1) - 1)
      OBVIOUS
    <3>2. n \in ByteIndex /\ n \in 0..ValueSize
      BY <1>1, <3>1 DEF ByteIndex
    <3>3. s[n] \in 0 .. (P(n) - 1) /\ P(n) \in Nat \ {0} /\ bytes[n] \in 0 .. (q - 1)
      BY <1>1, <1>2, <1>3, <2>2, <3>2
    <3>4. \A d, x, b, r \in Nat :
             x < d /\ b < r => x + b * d \in Nat /\ x + b * d < d * r
      <4> SUFFICES ASSUME NEW d \in Nat, NEW x \in Nat, NEW b \in Nat, NEW r \in Nat,
                          x < d, b < r
                   PROVE  x + b * d \in Nat /\ x + b * d < d * r
        OBVIOUS
      <4>1. b * d + d = (b + 1) * d /\ b * d \in Nat
        OBVIOUS
      <4>2. (b + 1) * d <= r * d /\ r * d = d * r /\ r * d \in Nat
        <5>1. \A k \in Nat : (b + 1) * d + k * d = (b + 1 + k) * d /\ k * d \in Nat
          OBVIOUS
        <5>2. r - (b + 1) \in Nat /\ r = b + 1 + (r - (b + 1))
          OBVIOUS
        <5> QED
          BY <5>1, <5>2
      <4> QED
        BY <4>1, <4>2
    <3>5. s[n] + bytes[n] * P(n) \in Nat /\ s[n] + bytes[n] * P(n) < P(n) * q
      <4> DEFINE x == s[n]
                 d == P(n)
                 b == bytes[n]
      <4>1. x \in Nat /\ d \in Nat /\ x < d /\ b \in Nat /\ q \in Nat /\ b < q
        BY <1>1, <3>3
      <4> HIDE DEF x, d, b
      <4>2. x + b * d \in Nat /\ x + b * d < d * q
        BY <3>4, <4>1
      <4> QED
        BY <4>2 DEF x, d, b
    <3>6. s[n + 1] = s[n] + bytes[n] * P(n) /\ P(n + 1) = P(n) * q
      BY <1>3, <1>7, <3>2
    <3>7. P(n) * q \in Nat
      BY <1>1, <3>3
    <3> QED
      BY <3>5, <3>6, <3>7
  <2> HIDE DEF Good
  <2>3. \A n \in Nat : n \in Good
    BY <2>1, <2>2, SetInduction
  <2> QED
    BY <1>1, <2>3 DEF Good
<1>9. u = s[ValueSize] /\ u \in Nat /\ P(ValueSize) = Modulus
  <2>1. P(ValueSize) = Modulus
    BY DEF P, Modulus, WordBits
  <2>2. s[ValueSize] \in 0 .. (Modulus - 1)
    BY <1>1, <1>8, <2>1
  <2> QED
    BY <1>6, <2>1, <2>2, UnsignedSigned, Widths DEF u
<1>10. ASSUME NEW i \in ByteIndex, u % P(i + 1) = s[i + 1]
       PROVE  u % P(i) = s[i] /\ (u \div P(i)) % q = bytes[i]
  <2> DEFINE d == P(i)
             digit == (u \div d) % q
  <2>1. i \in 0..ValueSize /\ d \in Nat \ {0} /\ P(i + 1) = d * q
    BY <1>2, <1>3
  <2>2. s[i] \in 0 .. (d - 1) /\ bytes[i] \in Nat
    BY <1>1, <1>3, <1>8, <2>1
  <2>3. u % d \in 0 .. (d - 1) /\ digit \in Nat
    <3> HIDE DEF d
    <3>1. u \div d \in Nat /\ u % d \in 0 .. (d - 1)
      BY <1>9, <2>1, DivMod
    <3> QED
      BY <1>1, <3>1, DivMod
  <2>4. u % (d * q) = (u % d) + digit * d
    <3> HIDE DEF d
    <3> QED
      BY <1>1, <1>9, <2>1, NextDigit
  <2>5. s[i + 1] = s[i] + bytes[i] * d
    BY <1>7
  <2> HIDE DEF d, digit
  <2>6. (u % d) + digit * d = s[i] + bytes[i] * d
    BY <1>10, <2>1, <2>4, <2>5
  <2>7. u % d = s[i] /\ digit = bytes[i]
    BY <2>1, <2>2, <2>3, <2>6, DigitUnique
  <2> QED
    BY <2>7 DEF d, digit
<1>11. \A n \in 0..ValueSize : u % P(n) = s[n]
  <2> DEFINE Good == {k \in Nat : k <= ValueSize => u % P(ValueSize - k) = s[ValueSize - k]}
  <2>1. 0 \in Good
    <3>1. s[ValueSize] \in 0 .. (Modulus - 1) /\ Modulus \in Nat \ {0}
      BY <1>1, <1>8, <1>9, Widths
    <3>2. u % Modulus = u
      BY <1>9, <3>1
    <3> QED
      BY <1>1, <1>9, <3>2
  <2>2. ASSUME NEW k \in Nat, k \in Good PROVE k + 1 \in Good
    <3>1. SUFFICES ASSUME k + 1 <= ValueSize
                   PROVE  u % P(ValueSize - (k + 1)) = s[ValueSize - (k + 1)]
      OBVIOUS
    <3> DEFINE n == ValueSize - (k + 1)
    <3>2. n \in ByteIndex /\ n + 1 = ValueSize - k /\ k <= ValueSize
      BY <1>1, <3>1 DEF ByteIndex
    <3>3. u % P(n + 1) = s[n + 1]
      BY <2>2, <3>2
    <3> QED
      BY <1>10, <3>2, <3>3
  <2> HIDE DEF Good
  <2>3. \A k \in Nat : k \in Good
    BY <2>1, <2>2, SetInduction
  <2>4. ASSUME NEW n \in 0..ValueSize PROVE u % P(n) = s[n]
    <3>1. ValueSize - n \in Nat /\ ValueSize - n <= ValueSize /\ ValueSize - (ValueSize - n) = n
      BY <1>1
    <3> QED
      BY <2>3, <3>1 DEF Good
  <2> QED
    BY <2>4
<1>12. ASSUME NEW i \in ByteIndex PROVE ByteOf(FromBytes(bytes), i) = bytes[i]
  <2>1. (u \div P(i)) % q = bytes[i]
    BY <1>3, <1>10, <1>11
  <2> QED
    BY <2>1 DEF u, P, q, ByteOf
<1> QED
  BY <1>12

----------------------------------------------------------------------------
(* What an instruction computes from values and bytes is a value again. *)

(* A multiple of d stays one when d is added or subtracted. *)
LEMMA MultipleHasNoRemainder ==
    ASSUME NEW x \in Int, NEW d \in Int, d > 0, NEW q \in Int, x = d * q
    PROVE  x % d = 0
OBVIOUS

LEMMA MultipleStep ==
    ASSUME NEW x \in Int, NEW d \in Int, d > 0, x % d = 0
    PROVE  (x + d) % d = 0 /\ (x - d) % d = 0
<1> DEFINE k == x \div d
<1>1. k \in Int /\ x = d * k
  OBVIOUS
<1> HIDE DEF k
<1>2. x + d = d * (k + 1) /\ x - d = d * (k - 1)
  BY <1>1
<1> QED
  BY <1>1, <1>2, MultipleHasNoRemainder

LEMMA LoadFromType ==
    ASSUME NEW m \in [Address -> Byte], NEW x \in Int, ~BadAddress(x)
    PROVE  LoadFrom(m, x) \in Value
<1>1. x \in 0 .. (MemorySize - ValueSize)
  BY MachineAssumption, WordAssumption DEF BadAddress
<1>2. \A i \in ByteIndex : x + i \in Address
  BY <1>1, MachineAssumption, WordAssumption DEF ByteIndex, Address
<1>3. [i \in ByteIndex |-> m[x + i]] \in [ByteIndex -> Byte]
  BY <1>2
<1> QED
  BY <1>3, FromBytesType DEF LoadFrom

LEMMA StoreToType ==
    ASSUME NEW m \in [Address -> Byte], NEW x, NEW v \in Value
    PROVE  StoreTo(m, x, v) \in [Address -> Byte]
BY ByteOfType DEF StoreTo

LEMMA AluResultType ==
    ASSUME NEW op \in AluOps, NEW v \in Value, NEW w \in Value
    PROVE  AluResult(op, v, w) \in Value
BY ArithmeticType, BitwiseType DEF AluResult, AluOps, ImmOps, RegOps

LEMMA DivResultType ==
    ASSUME NEW op, NEW v \in Value, NEW w \in Value, w # 0, ~DivOverflows(v, w)
    PROVE  DivResult(op, v, w) \in Value
BY DivisionType DEF DivResult

LEMMA ShiftResultType ==
    ASSUME NEW op, NEW v \in Value, NEW s \in Value, ~BadShift(s)
    PROVE  ShiftResult(op, v, s) \in Value
<1>1. s \in BitIndex
  BY Widths, WordBitsType DEF BadShift, BitIndex
<1> QED
  BY <1>1, ShiftType DEF ShiftResult
=============================================================================
