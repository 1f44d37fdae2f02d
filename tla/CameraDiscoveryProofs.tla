------------------------- MODULE CameraDiscoveryProofs -------------------------
(***************************************************************************)
(* Proofs about CameraDiscovery and the conversions of IpHelpers, for any  *)
(* cameras that come and go and any width of a byte: the list, the driver's *)
(* buffers and, with the arithmetic of words, bytes and bits that it takes, *)
(* the text of a static address.                                           *)
(***************************************************************************)
EXTENDS CameraDiscovery, FiniteSetTheorems, SequenceTheorems, WellFoundedInduction, TLAPS

-------------------------------------------------------------------------------
(* Powers of two. The provers know nothing of exponentiation: the theorems     *)
(* that need it have its defining equation as a hypothesis.                    *)

Exponentiation == \A n \in Nat : 2 ^ (n + 1) = 2 * 2 ^ n

\* Induction over the naturals, for a set in place of a predicate.
LEMMA Induction ==
  ASSUME NEW S, 0 \in S, \A n \in Nat : n \in S => n + 1 \in S
  PROVE  \A n \in Nat : n \in S
<1> DEFINE T == {n \in Nat : n \notin S}
<1> SUFFICES ASSUME T # {} PROVE FALSE
  OBVIOUS
<1> DEFINE R == OpToRel(<, Nat)
<1>1. IsWellFoundedOn(R, Nat)
  BY NatLessThanWellFounded
<1>2. \A m, n \in Nat : m < n => <<m, n>> \in R
  BY DEF OpToRel
<1> HIDE DEF R
<1>3. PICK x \in T : \A y \in T : <<y, x>> \notin R
  BY <1>1, WFMin
<1>4. x \in Nat /\ x # 0 /\ x - 1 \in T /\ x - 1 \in Nat /\ x - 1 < x
  OBVIOUS
<1>5. <<x - 1, x>> \in R
  BY <1>2, <1>4
<1> HIDE DEF T
<1> QED  BY <1>3, <1>4, <1>5

LEMMA PowerType == ASSUME Exponentiation PROVE \A n \in Nat : 2 ^ n \in Nat \ {0}
<1> DEFINE S == {n \in Nat : 2 ^ n \in Nat \ {0}}
<1>1. 0 \in S
  OBVIOUS
<1>2. ASSUME NEW n \in Nat, n \in S PROVE n + 1 \in S
  <2>1. 2 ^ (n + 1) = 2 * 2 ^ n /\ 2 ^ n \in Nat \ {0}
    BY <1>2 DEF Exponentiation
  <2>2. \A k \in Nat \ {0} : 2 * k \in Nat \ {0}
    OBVIOUS
  <2> QED  BY <2>1, <2>2
<1> HIDE DEF S
<1>3. \A n \in Nat : n \in S
  BY <1>1, <1>2, Induction
<1> QED  BY <1>3 DEF S

LEMMA PowerSum ==
  ASSUME Exponentiation, NEW m \in Nat
  PROVE  \A n \in Nat : 2 ^ (m + n) = 2 ^ m * 2 ^ n
<1> DEFINE S == {n \in Nat : 2 ^ (m + n) = 2 ^ m * 2 ^ n}
<1>1. 0 \in S
  <2>1. 2 ^ m * 1 = 2 ^ m /\ 2 ^ 0 = 1 /\ m + 0 = m
    BY PowerType
  <2> QED  BY <2>1
<1>2. ASSUME NEW n \in Nat, n \in S PROVE n + 1 \in S
  <2>1. 2 ^ (n + 1) = 2 * 2 ^ n /\ 2 ^ ((m + n) + 1) = 2 * 2 ^ (m + n)
    BY DEF Exponentiation
  <2>2. 2 ^ n \in Nat /\ 2 ^ m \in Nat /\ 2 ^ (m + n) = 2 ^ m * 2 ^ n
    BY <1>2, PowerType
  <2>3. \A a, b \in Nat : 2 * (a * b) = a * (2 * b)
    OBVIOUS
  <2>4. m + (n + 1) = (m + n) + 1
    OBVIOUS
  <2> QED  BY <2>1, <2>2, <2>3, <2>4
<1> HIDE DEF S
<1>3. \A n \in Nat : n \in S
  BY <1>1, <1>2, Induction
<1> QED  BY <1>3 DEF S

-------------------------------------------------------------------------------
(* Words and their bytes. *)

LEMMA Products ==
  ASSUME NEW a \in Nat, NEW b \in Nat
  PROVE  a * b \in Nat /\ (a # 0 /\ b # 0 => a * b # 0)
OBVIOUS

\* A digit more.
LEMMA Digits ==
  ASSUME NEW n \in Nat, NEW m \in Nat, NEW a \in 0 .. n - 1, NEW b \in 0 .. m - 1
  PROVE  a * m + b \in 0 .. n * m - 1
<1>1. n - (a + 1) \in Nat /\ a \in Nat /\ n = (a + 1) + (n - (a + 1))
  OBVIOUS
<1> DEFINE k == n - (a + 1)
<1> HIDE DEF k
<1>2. k \in Nat /\ n = (a + 1) + k
  BY <1>1 DEF k
<1>3. n * m = (a * m + m) + k * m
  BY <1>1, <1>2
<1>4. a * m \in Nat /\ k * m \in Nat /\ b \in Nat /\ b < m
  BY <1>1, <1>2
<1> QED  BY <1>3, <1>4

LEMMA Words ==
  ASSUME Exponentiation
  PROVE  /\ B \in Nat \ {0} /\ W \in Nat \ {0} /\ Byte \in Nat \ {0} /\ Word \in Nat \ {0}
         /\ 2 ^ B = Byte
         /\ 2 ^ (2 * B) = Byte * Byte
         /\ 2 ^ (3 * B) = (Byte * Byte) * Byte
         /\ Word = ((Byte * Byte) * Byte) * Byte
<1>1. B \in Nat \ {0} /\ W \in Nat \ {0} /\ W = 3 * B + B /\ 3 * B = 2 * B + B /\ 2 * B = B + B
  BY IpHelpersAssumption DEF W
<1>2. 2 * B \in Nat /\ 3 * B \in Nat
  BY <1>1
<1>3. 2 ^ (B + B) = 2 ^ B * 2 ^ B
  BY <1>1, PowerSum
<1>4. 2 ^ (2 * B + B) = 2 ^ (2 * B) * 2 ^ B
  BY <1>1, <1>2, PowerSum
<1>5. 2 ^ (3 * B + B) = 2 ^ (3 * B) * 2 ^ B
  BY <1>1, <1>2, PowerSum
<1>6. Byte \in Nat \ {0} /\ Word \in Nat \ {0}
  BY <1>1, PowerType DEF Byte, Word
<1> QED  BY <1>1, <1>3, <1>4, <1>5, <1>6 DEF Byte, Word

LEMMA BytesOfWord ==
  ASSUME Exponentiation, NEW dw \in Nat
  PROVE  ip_u32_little_endian_to_bytes(dw) \in [1 .. 4 -> 0 .. Byte - 1]
<1>1. B \in Nat /\ Byte \in Nat \ {0}
  BY Words
<1>2. ASSUME NEW i \in 1 .. 4 PROVE (dw \div 2 ^ (B * (i - 1))) % Byte \in 0 .. Byte - 1
  <2>1. B * (i - 1) \in Nat
    BY <1>1
  <2>2. 2 ^ (B * (i - 1)) \in Nat \ {0}
    BY <2>1, PowerType
  <2>3. \A p \in Nat \ {0} : dw \div p \in Nat
    OBVIOUS
  <2>4. \A a \in Nat : a % Byte \in 0 .. Byte - 1
    BY <1>1
  <2> QED  BY <2>2, <2>3, <2>4
<1> QED  BY <1>2 DEF ip_u32_little_endian_to_bytes

LEMMA Horner ==
  ASSUME NEW a \in Nat, NEW b \in Nat, NEW c \in Nat, NEW d \in Nat, NEW y \in Nat
  PROVE  ((a * ((y * y) * y) + b * (y * y)) + c * y) + d = ((a * y + b) * y + c) * y + d
<1>1. (a * y + b) * y + c = (a * (y * y) + b * y) + c
  OBVIOUS
<1>2. ((a * (y * y) + b * y) + c) * y = (a * ((y * y) * y) + b * (y * y)) + c * y
  OBVIOUS
<1> QED  BY <1>1, <1>2

LEMMA WordOfBytes ==
  ASSUME Exponentiation, NEW bytes \in [1 .. 4 -> 0 .. Byte - 1]
  PROVE  /\ ip_bytes_to_u32(bytes) =
              ((bytes[1] * Byte + bytes[2]) * Byte + bytes[3]) * Byte + bytes[4]
         /\ ip_bytes_to_u32(bytes) \in 0 .. Word - 1
<1> DEFINE b1 == bytes[1]  b2 == bytes[2]  b3 == bytes[3]  b4 == bytes[4]
<1>1. /\ b1 \in 0 .. Byte - 1 /\ b2 \in 0 .. Byte - 1
      /\ b3 \in 0 .. Byte - 1 /\ b4 \in 0 .. Byte - 1 /\ Byte \in Nat
  BY Words
<1>2. ip_bytes_to_u32(bytes) =
        ((b1 * ((Byte * Byte) * Byte) + b2 * (Byte * Byte)) + b3 * Byte) + b4
  BY Words DEF ip_bytes_to_u32
<1> HIDE DEF b1, b2, b3, b4
<1>3. ((b1 * ((Byte * Byte) * Byte) + b2 * (Byte * Byte)) + b3 * Byte) + b4
        = ((b1 * Byte + b2) * Byte + b3) * Byte + b4
  BY <1>1, Horner
<1>4. b1 * Byte + b2 \in 0 .. Byte * Byte - 1
  BY <1>1, Digits
<1>5. (b1 * Byte + b2) * Byte + b3 \in 0 .. (Byte * Byte) * Byte - 1
  BY <1>1, <1>4, Digits, Products
<1>6. ((b1 * Byte + b2) * Byte + b3) * Byte + b4 \in 0 .. ((Byte * Byte) * Byte) * Byte - 1
  BY <1>1, <1>5, Digits, Products
<1> QED  BY <1>2, <1>3, <1>6, Words DEF b1, b2, b3, b4

-------------------------------------------------------------------------------
(* Quotients, and the bits of a number. *)

LEMMA Division ==
  ASSUME NEW a \in Nat, NEW n \in Nat \ {0}
  PROVE  a \div n \in Nat /\ a % n \in 0 .. n - 1 /\ a = (a \div n) * n + (a % n)
OBVIOUS

LEMMA Monotonic ==
  ASSUME NEW a \in Nat, NEW b \in Nat, NEW n \in Nat, a < b
  PROVE  a * n + n <= b * n
<1> DEFINE k == b - (a + 1)
<1>1. k \in Nat /\ b = (a + 1) + k
  OBVIOUS
<1> HIDE DEF k
<1>2. ((a + 1) + k) * n = (a * n + n) + k * n
  BY <1>1
<1>3. k * n \in Nat /\ a * n \in Nat
  BY <1>1
<1> QED  BY <1>1, <1>2, <1>3

\* Quotient and remainder are the only ones.
LEMMA Quotient ==
  ASSUME NEW a \in Nat, NEW n \in Nat \ {0}, NEW q \in Nat, NEW r \in 0 .. n - 1, a = q * n + r
  PROVE  a \div n = q /\ a % n = r
<1> DEFINE d == a \div n  m == a % n
<1>1. d \in Nat /\ m \in 0 .. n - 1 /\ a = d * n + m
  BY Division
<1> HIDE DEF d, m
<1>2. d * n \in Nat /\ q * n \in Nat
  BY <1>1
<1>3. ~ d < q
  <2> SUFFICES ASSUME d < q PROVE FALSE
    OBVIOUS
  <2>1. d * n + n <= q * n
    BY <1>1, Monotonic
  <2> QED  BY <1>1, <1>2, <2>1
<1>4. ~ q < d
  <2> SUFFICES ASSUME q < d PROVE FALSE
    OBVIOUS
  <2>1. q * n + n <= d * n
    BY <1>1, Monotonic
  <2> QED  BY <1>1, <1>2, <2>1
<1>5. d = q
  BY <1>1, <1>3, <1>4
<1>6. m = r
  BY <1>1, <1>2, <1>5
<1> QED  BY <1>5, <1>6 DEF d, m

\* A quotient of a number below a multiple.
LEMMA QuotientBelow ==
  ASSUME NEW a \in Nat, NEW n \in Nat \ {0}, NEW m \in Nat, a < m * n
  PROVE  a \div n < m
<1> DEFINE q == a \div n
<1>1. q \in Nat /\ a % n \in 0 .. n - 1 /\ a = q * n + (a % n)
  BY Division
<1>2. q * n <= a
  <2>1. q * n \in Nat /\ a % n \in Nat
    BY <1>1, Products
  <2> HIDE DEF q
  <2> QED  BY <1>1, <2>1
<1> HIDE DEF q
<1>3. SUFFICES ASSUME m <= q PROVE FALSE
  BY <1>1 DEF q
<1>4. m * n <= q * n
  <2>1. CASE m = q
    BY <2>1
  <2>2. CASE m < q
    <3>1. m * n + n <= q * n
      BY <1>1, <2>2, Monotonic
    <3>2. m * n \in Nat /\ q * n \in Nat
      BY <1>1, Products
    <3> QED  BY <3>1, <3>2
  <2> QED  BY <1>1, <1>3, <2>1, <2>2
<1>5. m * n \in Nat /\ q * n \in Nat
  BY <1>1, Products
<1> QED  BY <1>2, <1>4, <1>5

LEMMA DivideTwice ==
  ASSUME NEW a \in Nat, NEW p \in Nat \ {0}, NEW q \in Nat \ {0}
  PROVE  a \div (q * p) = (a \div p) \div q
<1> DEFINE x == a \div p  r == a % p  y == x \div q  s == x % q
<1>1. x \in Nat /\ r \in 0 .. p - 1 /\ a = x * p + r
  BY Division
<1> HIDE DEF x, r
<1>2. y \in Nat /\ s \in 0 .. q - 1 /\ x = y * q + s
  BY <1>1, Division
<1> HIDE DEF y, s
<1>3. (y * q + s) * p + r = y * (q * p) + (s * p + r)
  BY <1>1, <1>2
<1>4. q * p \in Nat \ {0} /\ s * p + r \in 0 .. q * p - 1
  BY <1>1, <1>2, Digits, Products
<1>5. a = y * (q * p) + (s * p + r)
  BY <1>1, <1>2, <1>3
<1>6. a \div (q * p) = y
  BY <1>2, <1>4, <1>5, Quotient
<1> QED  BY <1>6 DEF x, y

LEMMA ScaledModulo ==
  ASSUME NEW u \in Nat, NEW p \in Nat \ {0}, NEW q \in Nat \ {0}
  PROVE  (u * p) % (q * p) = (u % q) * p
<1> DEFINE c == u \div q  r == u % q
<1>1. c \in Nat /\ r \in 0 .. q - 1 /\ u = c * q + r
  BY Division
<1> HIDE DEF c, r
<1>2. (c * q + r) * p = c * (q * p) + r * p
  BY <1>1
<1>3. r * p \in Nat /\ q * p \in Nat \ {0} /\ u * p \in Nat
  BY <1>1, Products
<1>4. r * p \in 0 .. q * p - 1
  <2>1. r * p + 0 \in 0 .. q * p - 1
    BY <1>1, Digits
  <2> QED  BY <1>3, <2>1
<1>5. (u * p) % (q * p) = r * p
  BY <1>1, <1>2, <1>3, <1>4, Quotient
<1> QED  BY <1>5 DEF r

\* Bit s of x, from the lowest on.
BitOf(x, s) == (x \div 2 ^ s) % 2

LEMMA Parity ==
  ASSUME NEW a \in Nat, NEW z \in Nat
  PROVE  (a * 2 + z) % 2 = z % 2
<1>1. z % 2 \in 0 .. 1 /\ z \div 2 \in Nat /\ z = (z \div 2) * 2 + (z % 2)
  BY Division
<1>2. a * 2 + z = (a + (z \div 2)) * 2 + (z % 2)
  BY <1>1
<1> QED  BY <1>1, <1>2, Quotient

LEMMA PowerSplit ==
  ASSUME Exponentiation, NEW n \in Nat, NEW s \in Nat, s <= n
  PROVE  /\ n - s \in Nat /\ 2 ^ n = 2 ^ (n - s) * 2 ^ s
         /\ 2 ^ n \in Nat \ {0} /\ 2 ^ s \in Nat \ {0} /\ 2 ^ (n - s) \in Nat \ {0}
<1>1. n - s \in Nat /\ (n - s) + s = n
  OBVIOUS
<1> QED  BY <1>1, PowerSum, PowerType

\* The bits of a remainder are the low ones.
LEMMA LowBits ==
  ASSUME Exponentiation, NEW x \in Nat, NEW n \in Nat, NEW s \in Nat, s < n
  PROVE  BitOf(x % 2 ^ n, s) = BitOf(x, s)
<1> DEFINE h == 2 ^ (n - s - 1)  p == 2 ^ s  q == 2 ^ n
           a == x \div q  y == x % q  z == y \div p  t == y % p
<1>1. p \in Nat \ {0} /\ h \in Nat \ {0} /\ q \in Nat \ {0}
  BY PowerType
<1>2. q = (2 * h) * p
  <2>1. n - s - 1 \in Nat /\ (n - s - 1) + 1 = n - s
    OBVIOUS
  <2>2. 2 ^ (n - s) = 2 * h
    BY <2>1 DEF Exponentiation
  <2>3. 2 ^ n = 2 ^ (n - s) * 2 ^ s
    BY PowerSplit
  <2> QED  BY <2>2, <2>3
<1>3. a \in Nat /\ y \in 0 .. q - 1 /\ x = a * q + y
  BY <1>1, Division
<1>4. z \in Nat /\ t \in 0 .. p - 1 /\ y = z * p + t
  <2>1. y \in Nat
    BY <1>1, <1>3
  <2> HIDE DEF y
  <2> QED  BY <1>1, <2>1, Division
<1>5. BitOf(x % 2 ^ n, s) = z % 2 /\ BitOf(x, s) = (x \div p) % 2
  BY DEF BitOf
<1> HIDE DEF h, p, q, a, y, z, t
<1>6. a * ((2 * h) * p) + (z * p + t) = ((a * h) * 2 + z) * p + t
  BY <1>1, <1>3, <1>4
<1>7. (a * h) * 2 + z \in Nat /\ a * h \in Nat
  BY <1>1, <1>3, <1>4, Products
<1>8. x \div p = (a * h) * 2 + z
  BY <1>1, <1>2, <1>3, <1>4, <1>6, <1>7, Quotient
<1> QED  BY <1>4, <1>5, <1>7, <1>8, Parity

\* Bits above.
LEMMA HighBits ==
  ASSUME Exponentiation, NEW x \in Nat, NEW n \in Nat, NEW s \in Nat
  PROVE  BitOf(x \div 2 ^ n, s) = BitOf(x, n + s)
<1>1. 2 ^ n \in Nat \ {0} /\ 2 ^ s \in Nat \ {0} /\ 2 ^ (s + n) = 2 ^ s * 2 ^ n /\ s + n = n + s
  BY PowerType, PowerSum
<1>2. (x \div 2 ^ n) \div 2 ^ s = x \div (2 ^ s * 2 ^ n)
  BY <1>1, DivideTwice
<1> QED  BY <1>1, <1>2 DEF BitOf

\* What a left shift by n of a word of w bits leaves: nothing, if the low w - n are 0.
LEMMA ShiftsOut ==
  ASSUME Exponentiation, NEW u \in Nat, NEW n \in Nat, n < W, NEW w
  PROVE  Shifted(u, n, w) = 0 <=> u % 2 ^ (W - n) = 0
<1>1. W \in Nat
  BY Words
<1>2. /\ W - n \in Nat /\ Word = 2 ^ (W - n) * 2 ^ n
      /\ 2 ^ n \in Nat \ {0} /\ 2 ^ (W - n) \in Nat \ {0}
  BY <1>1, PowerSplit DEF Word
<1>3. Shifted(u, n, w) = (u % 2 ^ (W - n)) * 2 ^ n
  BY <1>2, ScaledModulo DEF Shifted
<1>4. u % 2 ^ (W - n) \in Nat
  <2>1. u % 2 ^ (W - n) \in 0 .. 2 ^ (W - n) - 1
    BY <1>2, Division
  <2> QED  BY <1>2, <2>1
<1> QED  BY <1>2, <1>3, <1>4, Products

\* A byte of a word.
LEMMA ByteOfWord ==
  ASSUME Exponentiation, NEW dw \in Nat, NEW j \in 0 .. 3
  PROVE  ip_u32_little_endian_to_bytes(dw)[j + 1] = (dw \div 2 ^ (j * B)) % Byte
<1>1. j + 1 \in 1 .. 4 /\ (j + 1) - 1 = j /\ B * j = j * B
  BY Words
<1> QED  BY <1>1 DEF ip_u32_little_endian_to_bytes

\* The same byte of the word with the bytes in the other order.
LEMMA ByteOfMask ==
  ASSUME Exponentiation, NEW bytes \in [1 .. 4 -> 0 .. Byte - 1], NEW j \in 0 .. 3
  PROVE  /\ ip_bytes_to_u32(bytes) \in Nat
         /\ (ip_bytes_to_u32(bytes) \div 2 ^ ((3 - j) * B)) % Byte = bytes[j + 1]
<1> DEFINE u == ip_bytes_to_u32(bytes)
           b1 == bytes[1]  b2 == bytes[2]  b3 == bytes[3]  b4 == bytes[4]
<1>1. u = ((b1 * Byte + b2) * Byte + b3) * Byte + b4
  BY WordOfBytes
<1>2. /\ b1 \in 0 .. Byte - 1 /\ b2 \in 0 .. Byte - 1
      /\ b3 \in 0 .. Byte - 1 /\ b4 \in 0 .. Byte - 1
  OBVIOUS
<1>3. Byte \in Nat \ {0}
  BY Words
<1> HIDE DEF u, b1, b2, b3, b4
<1>4. /\ u \in Nat
      /\ u % Byte = b4 /\ (u \div Byte) % Byte = b3
      /\ (u \div (Byte * Byte)) % Byte = b2
      /\ (u \div ((Byte * Byte) * Byte)) % Byte = b1
  <2> DEFINE v1 == b1 * Byte + b2  v2 == v1 * Byte + b3
  <2>1. u = v2 * Byte + b4
    BY <1>1
  <2>2. v1 \in Nat /\ v1 \div Byte = b1 /\ v1 % Byte = b2
    <3>1. v1 \in Nat /\ b1 \in Nat
      BY <1>2, <1>3, Products
    <3> QED  BY <1>2, <1>3, <3>1, Quotient
  <2> HIDE DEF v1
  <2>3. v2 \in Nat /\ v2 \div Byte = v1 /\ v2 % Byte = b3
    <3>1. v2 \in Nat
      BY <1>2, <1>3, <2>2, Products
    <3> QED  BY <1>2, <1>3, <2>2, <3>1, Quotient
  <2> HIDE DEF v2
  <2>4. u \in Nat /\ u \div Byte = v2 /\ u % Byte = b4
    <3>1. u \in Nat
      BY <1>2, <1>3, <2>1, <2>3, Products
    <3> QED  BY <1>2, <1>3, <2>1, <2>3, <3>1, Quotient
  <2>5. u \div (Byte * Byte) = v1
    BY <1>3, <2>3, <2>4, DivideTwice
  <2>6. u \div ((Byte * Byte) * Byte) = b1
    <3>1. Byte * Byte \in Nat \ {0} /\ (Byte * Byte) * Byte = Byte * (Byte * Byte)
      BY <1>3, Products
    <3>2. u \div (Byte * (Byte * Byte)) = (u \div (Byte * Byte)) \div Byte
      BY <1>3, <2>4, <3>1, DivideTwice
    <3> QED  BY <2>2, <2>5, <3>1, <3>2
  <2>7. b1 % Byte = b1
    <3>1. b1 = 0 * Byte + b1 /\ b1 \in Nat
      BY <1>2, <1>3
    <3> QED  BY <1>2, <1>3, <3>1, Quotient
  <2> QED  BY <2>2, <2>3, <2>4, <2>5, <2>6, <2>7
<1>5. u \div 2 ^ (0 * B) = u
  <2>1. 0 * B = 0 /\ 2 ^ 0 = 1
    BY Words
  <2>2. u \div 1 = u
    BY <1>4
  <2> QED  BY <2>1, <2>2
<1>6. /\ (3 - 3) * B = 0 * B /\ (3 - 2) * B = B
      /\ (3 - 1) * B = 2 * B /\ (3 - 0) * B = 3 * B
  BY Words
<1>7. (u \div 2 ^ ((3 - j) * B)) % Byte = bytes[j + 1]
  <2>1. CASE j = 0
    BY <1>4, <1>6, <2>1, Words DEF b1
  <2>2. CASE j = 1
    BY <1>4, <1>6, <2>2, Words DEF b2
  <2>3. CASE j = 2
    BY <1>4, <1>6, <2>3, Words DEF b3
  <2>4. CASE j = 3
    BY <1>4, <1>5, <1>6, <2>4, Words DEF b4
  <2> QED  BY <2>1, <2>2, <2>3, <2>4
<1> QED  BY <1>4, <1>7 DEF u

\* Reading the bytes of an address gives the driver's word back.
LEMMA ReadAddress ==
  ASSUME Exponentiation, NEW dw \in 0 .. Word - 1
  PROVE  ip_bytes_to_u32_little_endian(ip_u32_little_endian_to_bytes(dw)) = dw
<1> DEFINE bytes == ip_u32_little_endian_to_bytes(dw)
           b1 == bytes[1]  b2 == bytes[2]  b3 == bytes[3]  b4 == bytes[4]
           q1 == dw \div Byte  q2 == q1 \div Byte  q3 == q2 \div Byte
<1>1. dw \in Nat /\ Byte \in Nat \ {0} /\ B \in Nat /\ dw < ((Byte * Byte) * Byte) * Byte
  BY Words
<1>2. /\ b1 = dw % Byte /\ b2 = (dw \div Byte) % Byte
      /\ b3 = (dw \div (Byte * Byte)) % Byte
      /\ b4 = (dw \div ((Byte * Byte) * Byte)) % Byte
  <2>1. bytes[0 + 1] = (dw \div 2 ^ (0 * B)) % Byte
    BY <1>1, ByteOfWord
  <2>2. bytes[1 + 1] = (dw \div 2 ^ (1 * B)) % Byte
    BY <1>1, ByteOfWord
  <2>3. bytes[2 + 1] = (dw \div 2 ^ (2 * B)) % Byte
    BY <1>1, ByteOfWord
  <2>4. bytes[3 + 1] = (dw \div 2 ^ (3 * B)) % Byte
    BY <1>1, ByteOfWord
  <2> HIDE DEF bytes
  <2>5. 0 * B = 0 /\ 1 * B = B /\ 2 ^ 0 = 1 /\ dw \div 1 = dw
    BY <1>1
  <2>6. 0 + 1 = 1 /\ 1 + 1 = 2 /\ 2 + 1 = 3 /\ 3 + 1 = 4
    OBVIOUS
  <2> QED  BY <2>1, <2>2, <2>3, <2>4, <2>5, <2>6, Words
<1>3. ip_bytes_to_u32_little_endian(bytes) =
        ((b4 * ((Byte * Byte) * Byte) + b3 * (Byte * Byte)) + b2 * Byte) + b1
  BY Words DEF ip_bytes_to_u32_little_endian
<1> HIDE DEF bytes, b1, b2, b3, b4
<1>4. q1 \in Nat /\ b1 \in Nat /\ dw = q1 * Byte + b1 /\ q1 < (Byte * Byte) * Byte
  <2>1. (Byte * Byte) * Byte \in Nat
    BY <1>1, Products
  <2>2. b1 \in 0 .. Byte - 1
    BY <1>1, <1>2, Division
  <2>3. q1 \in Nat /\ dw = q1 * Byte + b1
    BY <1>1, <1>2, Division
  <2>4. q1 < (Byte * Byte) * Byte
    BY <1>1, <2>1, QuotientBelow
  <2> QED  BY <1>1, <2>2, <2>3, <2>4
<1>5. dw \div (Byte * Byte) = q1 \div Byte
  BY <1>1, DivideTwice
<1>6. dw \div ((Byte * Byte) * Byte) = (q1 \div Byte) \div Byte
  <2>1. Byte * Byte \in Nat \ {0} /\ (Byte * Byte) * Byte = Byte * (Byte * Byte)
    BY <1>1, Products
  <2>2. dw \div (Byte * (Byte * Byte)) = (dw \div (Byte * Byte)) \div Byte
    BY <1>1, <2>1, DivideTwice
  <2> QED  BY <1>5, <2>1, <2>2
<1>7. b2 = q1 % Byte /\ b3 = q2 % Byte /\ b4 = q3 % Byte
  BY <1>2, <1>5, <1>6
<1> HIDE DEF q1
<1>8. q2 \in Nat /\ b2 \in Nat /\ q1 = q2 * Byte + b2 /\ q2 < Byte * Byte
  <2>1. Byte * Byte \in Nat
    BY <1>1, Products
  <2>2. b2 \in 0 .. Byte - 1
    BY <1>1, <1>4, <1>7, Division
  <2>3. q2 \in Nat /\ q1 = q2 * Byte + b2
    BY <1>1, <1>4, <1>7, Division
  <2>4. q2 < Byte * Byte
    BY <1>1, <1>4, <2>1, QuotientBelow
  <2> QED  BY <1>1, <2>2, <2>3, <2>4
<1> HIDE DEF q2
<1>9. q3 \in Nat /\ b3 \in Nat /\ q2 = q3 * Byte + b3 /\ q3 < Byte
  <2>1. b3 \in 0 .. Byte - 1
    BY <1>1, <1>7, <1>8, Division
  <2>2. q3 \in Nat /\ q2 = q3 * Byte + b3
    BY <1>1, <1>7, <1>8, Division
  <2>3. q3 < Byte
    BY <1>1, <1>8, QuotientBelow
  <2> QED  BY <1>1, <2>1, <2>2, <2>3
<1> HIDE DEF q3
<1>10. b4 = q3
  <2>1. q3 = 0 * Byte + q3 /\ q3 \in 0 .. Byte - 1
    BY <1>1, <1>9
  <2>2. q3 \in Nat /\ 0 \in Nat
    BY <1>9
  <2>3. q3 % Byte = q3
    BY <1>1, <2>1, <2>2, Quotient
  <2> QED  BY <1>7, <2>3
<1>11. ((b4 * ((Byte * Byte) * Byte) + b3 * (Byte * Byte)) + b2 * Byte) + b1 =
         ((b4 * Byte + b3) * Byte + b2) * Byte + b1
  BY <1>1, <1>4, <1>8, <1>9, <1>10, Horner
<1> QED  BY <1>3, <1>4, <1>8, <1>9, <1>10, <1>11 DEF bytes

-------------------------------------------------------------------------------
(* Netmasks. *)

LEMMA BitRange == ASSUME Exponentiation, NEW x \in Nat, NEW s \in Nat PROVE BitOf(x, s) \in 0 .. 1
<1>1. 2 ^ s \in Nat \ {0}
  BY PowerType
<1>2. x \div 2 ^ s \in Nat
  BY <1>1, Division
<1> QED  BY <1>2, Division DEF BitOf

\* The word that u32_to_cidr is given has the bits of the netmask in the order they
\* are written.
LEMMA BitOfMask ==
  ASSUME Exponentiation, NEW dw \in Nat, NEW k \in 1 .. W
  PROVE  Bit(dw, k) = BitOf(ip_bytes_to_u32(ip_u32_little_endian_to_bytes(dw)), W - k)
<1> DEFINE bytes == ip_u32_little_endian_to_bytes(dw)  u == ip_bytes_to_u32(bytes)
           j == (k - 1) \div B  r == (k - 1) % B  s == B - 1 - r
<1>1. B \in Nat \ {0} /\ W = 4 * B /\ k \in Nat /\ k - 1 \in Nat /\ k - 1 < 4 * B
  BY Words DEF W
<1>2. j \in Nat /\ r \in 0 .. B - 1 /\ k - 1 = j * B + r /\ j < 4
  BY <1>1, Division, QuotientBelow
<1>3. Bit(dw, k) = BitOf(dw \div 2 ^ (j * B), s)
  BY DEF Bit, BitOf
<1> HIDE DEF j, r, bytes, u
<1>4. j \in 0 .. 3 /\ s \in Nat /\ s < B
  BY <1>1, <1>2
<1>5. W - k = (3 - j) * B + s /\ (3 - j) * B \in Nat /\ j * B \in Nat
  <2>1. CASE j = 0
    BY <1>1, <1>2, <2>1
  <2>2. CASE j = 1
    BY <1>1, <1>2, <2>2
  <2>3. CASE j = 2
    BY <1>1, <1>2, <2>3
  <2>4. CASE j = 3
    BY <1>1, <1>2, <2>4
  <2> QED  BY <1>4, <2>1, <2>2, <2>3, <2>4
<1> HIDE DEF s
<1>6. bytes \in [1 .. 4 -> 0 .. Byte - 1]
  BY BytesOfWord DEF bytes
<1>7. u \in Nat /\ (u \div 2 ^ ((3 - j) * B)) % Byte = bytes[j + 1]
  BY <1>4, <1>6, ByteOfMask DEF u
<1>8. bytes[j + 1] = (dw \div 2 ^ (j * B)) % Byte
  BY <1>4, ByteOfWord DEF bytes
<1>9. ASSUME NEW x \in Nat, NEW n \in Nat
      PROVE  x \div 2 ^ n \in Nat /\ BitOf((x \div 2 ^ n) % Byte, s) = BitOf(x \div 2 ^ n, s)
  <2>1. x \div 2 ^ n \in Nat
    BY PowerType, Division
  <2> QED  BY <1>1, <1>4, <2>1, LowBits DEF Byte
<1>10. BitOf(dw \div 2 ^ (j * B), s) = BitOf(u \div 2 ^ ((3 - j) * B), s)
  <2>1. BitOf((dw \div 2 ^ (j * B)) % Byte, s) = BitOf(dw \div 2 ^ (j * B), s)
    BY <1>5, <1>9
  <2>2. BitOf((u \div 2 ^ ((3 - j) * B)) % Byte, s) = BitOf(u \div 2 ^ ((3 - j) * B), s)
    BY <1>5, <1>7, <1>9
  <2> QED  BY <1>7, <1>8, <2>1, <2>2
<1>11. BitOf(u \div 2 ^ ((3 - j) * B), s) = BitOf(u, (3 - j) * B + s)
  BY <1>4, <1>5, <1>7, HighBits
<1> QED  BY <1>3, <1>5, <1>10, <1>11 DEF u, bytes

\* What is 0 from bit p + 1 on and not from bit p on has its last bit there.
LEMMA LastBit ==
  ASSUME Exponentiation, NEW u \in Nat, NEW p, EndsAt(u, p)
  PROVE  /\ \A k \in 1 .. W : k > p => BitOf(u, W - k) = 0
         /\ p > 0 => BitOf(u, W - p) = 1
<1>1. W \in Nat /\ p \in 0 .. W /\ W - p \in Nat
  BY Words DEF EndsAt
<1>2. u % 2 ^ (W - p) = 0 /\ (p > 0 => u % 2 ^ (W - p + 1) # 0)
  BY DEF EndsAt
<1>3. ASSUME NEW k \in 1 .. W, k > p PROVE BitOf(u, W - k) = 0
  <2>1. W - k \in Nat /\ W - k < W - p
    BY <1>1, <1>3
  <2>2. BitOf(u % 2 ^ (W - p), W - k) = BitOf(u, W - k)
    BY <1>1, <2>1, LowBits
  <2>3. 0 \div 2 ^ (W - k) = 0
    <3>1. 2 ^ (W - k) \in Nat \ {0}
      BY <2>1, PowerType
    <3>2. \A n \in Nat \ {0} : 0 = 0 * n + 0 /\ 0 \in 0 .. n - 1 /\ 0 \in Nat
      OBVIOUS
    <3> QED  BY <3>1, <3>2, Quotient
  <2>4. BitOf(0, W - k) = 0
    BY <2>3 DEF BitOf
  <2> QED  BY <1>2, <2>2, <2>4
<1>4. ASSUME p > 0 PROVE BitOf(u, W - p) = 1
  <2> DEFINE n == 2 ^ (W - p)  x == u \div n  c == x \div 2
  <2>1. n \in Nat \ {0} /\ 2 ^ (W - p + 1) = 2 * n
    BY <1>1, PowerType DEF Exponentiation
  <2>2. x \in Nat /\ u = x * n + 0
    BY <1>2, <2>1, Division
  <2>3. BitOf(u, W - p) = x % 2
    BY DEF BitOf
  <2>4. u % 2 ^ (W - p + 1) # 0
    BY <1>2, <1>4
  <2> HIDE DEF n, x
  <2>5. x % 2 \in 0 .. 1 /\ c \in Nat /\ x = c * 2 + (x % 2)
    BY <2>2, Division
  <2> HIDE DEF c
  <2>6. ASSUME x % 2 = 0 PROVE FALSE
    <3>1. x = c * 2
      BY <2>5, <2>6
    <3>2. (c * 2) * n + 0 = c * (2 * n) + 0
      BY <2>1, <2>5
    <3>3. 2 * n \in Nat \ {0} /\ 0 \in 0 .. 2 * n - 1
      BY <2>1
    <3>4. u = c * (2 * n) + 0
      BY <2>2, <3>1, <3>2
    <3>5. u % (2 * n) = 0
      BY <2>5, <3>3, <3>4, Quotient
    <3> QED  BY <2>1, <2>4, <3>5
  <2> QED  BY <2>3, <2>5, <2>6
<1> QED  BY <1>3, <1>4

\* Where the loop of u32_to_cidr ends.
LEMMA LoopResult ==
  ASSUME Exponentiation, NEW u \in 0 .. Word - 1, NEW n \in Nat, NEW w \in BOOLEAN,
         \A m \in 0 .. n - 1 : Shifted(u, m, w) # 0, Shifted(u, n, w) = 0
  PROVE  EndsAt(u, n)
<1>1. W \in Nat \ {0} /\ u \in Nat /\ Word \in Nat \ {0}
  BY Words
<1>2. n <= W
  <2> SUFFICES ASSUME n > W PROVE FALSE
    BY <1>1
  <2>1. W \in 0 .. n - 1 /\ n % W \in 0 .. n - 1 /\ n % W < W /\ n % W \in Nat
    <3>1. n % W \in 0 .. W - 1
      BY <1>1, Division
    <3> HIDE DEF W
    <3> QED  BY <1>1, <3>1
  <2>2. CASE w
    <3>1. Shifted(u, n, w) = Shifted(u, n % W, w)
      BY <1>1, <2>1, <2>2 DEF Shifted
    <3> QED  BY <2>1, <3>1
  <2>3. CASE ~w
    <3>1. Shifted(u, W, w) = 0
      BY <1>1, <2>3 DEF Shifted
    <3> QED  BY <2>1, <3>1
  <2> QED  BY <2>2, <2>3
<1>3. u % 2 ^ (W - n) = 0
  <2>1. CASE n < W
    BY <1>1, <2>1, ShiftsOut
  <2>2. CASE n = W
    <3>1. W - n = 0 /\ 2 ^ 0 = 1 /\ u % 1 = 0
      BY <1>1, <2>2
    <3> QED  BY <3>1
  <2> QED  BY <1>1, <1>2, <2>1, <2>2
<1>4. n > 0 => u % 2 ^ (W - n + 1) # 0
  <2> SUFFICES ASSUME n > 0 PROVE u % 2 ^ (W - n + 1) # 0
    OBVIOUS
  <2>1. n - 1 \in 0 .. n - 1 /\ n - 1 \in Nat /\ n - 1 < W /\ W - (n - 1) = W - n + 1
    BY <1>1, <1>2
  <2>2. Shifted(u, n - 1, w) = 0 <=> u % 2 ^ (W - (n - 1)) = 0
    BY <1>1, <2>1, ShiftsOut
  <2> QED  BY <2>1, <2>2
<1> QED  BY <1>1, <1>2, <1>3, <1>4 DEF EndsAt

\* Below the last bit of a netmask without gaps every bit is set.
LEMMA BitsBelow ==
  ASSUME NEW dw, Contiguous(dw), \A k \in 1 .. W : Bit(dw, k) \in 0 .. 1,
         NEW p \in 1 .. W, Bit(dw, p) = 1, W \in Nat
  PROVE  \A k \in 1 .. p : Bit(dw, k) = 1
<1> DEFINE S == {i \in Nat : i < p => Bit(dw, p - i) = 1}
<1>1. 0 \in S
  <2>1. p - 0 = p
    OBVIOUS
  <2> QED  BY <2>1
<1>2. ASSUME NEW i \in Nat, i \in S PROVE i + 1 \in S
  <2> SUFFICES ASSUME i + 1 < p PROVE Bit(dw, p - (i + 1)) = 1
    OBVIOUS
  <2>1. Bit(dw, p - i) = 1
    BY <1>2
  <2>2. p - (i + 1) \in 1 .. W - 1 /\ p - (i + 1) \in 1 .. W /\ (p - (i + 1)) + 1 = p - i
    OBVIOUS
  <2>3. Bit(dw, p - (i + 1)) >= Bit(dw, (p - (i + 1)) + 1)
    BY <2>2 DEF Contiguous
  <2>4. Bit(dw, p - (i + 1)) \in 0 .. 1
    BY <2>2
  <2> QED  BY <2>1, <2>2, <2>3, <2>4
<1>3. \A i \in Nat : i \in S
  <2> HIDE DEF S
  <2> QED  BY <1>1, <1>2, Induction
<1>4. ASSUME NEW k \in 1 .. p PROVE Bit(dw, k) = 1
  <2>1. p - k \in Nat /\ p - k < p /\ p - (p - k) = k
    OBVIOUS
  <2> QED  BY <1>3, <2>1
<1> QED  BY <1>4

\* A word of ones, then zeros.
LEMMA OnesAndZeros ==
  ASSUME Exponentiation, NEW u \in 0 .. Word - 1, NEW p \in 0 .. W,
         \A k \in 1 .. p : BitOf(u, W - k) = 1, u % 2 ^ (W - p) = 0
  PROVE  u = (2 ^ p - 1) * 2 ^ (W - p)
<1>1. W \in Nat /\ u \in Nat /\ u < 1 * 2 ^ W /\ 2 ^ W \in Nat \ {0} /\ p \in Nat /\ W - p \in Nat
  BY Words DEF Word
<1> DEFINE S == {k \in Nat : k <= p => u \div 2 ^ (W - k) = 2 ^ k - 1}
<1>2. 0 \in S
  <2>1. W - 0 = W /\ 2 ^ 0 = 1 /\ 1 - 1 = 0
    BY <1>1
  <2>2. u \div 2 ^ W = 0
    <3>1. u \div 2 ^ W \in Nat
      BY <1>1, Division
    <3>2. u \div 2 ^ W < 1
      BY <1>1, QuotientBelow
    <3> QED  BY <3>1, <3>2
  <2> QED  BY <2>1, <2>2
<1>3. ASSUME NEW k \in Nat, k \in S PROVE k + 1 \in S
  <2> SUFFICES ASSUME k + 1 <= p PROVE u \div 2 ^ (W - (k + 1)) = 2 ^ (k + 1) - 1
    OBVIOUS
  <2> DEFINE n == 2 ^ (W - (k + 1))  x == u \div n  t == 2 ^ k
  <2>1. W - (k + 1) \in Nat /\ (W - (k + 1)) + 1 = W - k /\ k + 1 \in 1 .. p /\ k <= p
    BY <1>1
  <2>2. n \in Nat \ {0} /\ 2 ^ (W - k) = 2 * n
    BY <2>1, PowerType DEF Exponentiation
  <2> HIDE DEF n
  <2>3. u \div (2 * n) = x \div 2
    <3>1. u \in Nat /\ 2 \in Nat \ {0} /\ n \in Nat \ {0}
      BY <1>1, <2>2
    <3> QED  BY <3>1, DivideTwice
  <2>4. x \div 2 = t - 1 /\ t \in Nat \ {0} /\ 2 ^ (k + 1) = 2 * t
    BY <1>3, <2>1, <2>2, <2>3, PowerType DEF Exponentiation, n
  <2>5. x % 2 = 1
    BY <2>1 DEF BitOf, n
  <2>6. x \in Nat
    BY <1>1, <2>2, Division
  <2> HIDE DEF x, t
  <2>7. x = (x \div 2) * 2 + (x % 2)
    BY <2>6, Division
  <2>8. x = 2 * t - 1
    BY <2>4, <2>5, <2>6, <2>7
  <2> QED  BY <2>4, <2>8 DEF x, n, t
<1>4. p \in S
  <2> HIDE DEF S
  <2> QED  BY <1>1, <1>2, <1>3, Induction
<1>5. u \div 2 ^ (W - p) = 2 ^ p - 1
  BY <1>1, <1>4
<1>6. 2 ^ (W - p) \in Nat \ {0} /\ 2 ^ p \in Nat \ {0}
  BY <1>1, PowerType
<1>7. u = (u \div 2 ^ (W - p)) * 2 ^ (W - p) + 0
  BY <1>1, <1>6, Division
<1> QED  BY <1>5, <1>6, <1>7

\* It is what cidr_to_u32 makes.
LEMMA MaskOfPrefix ==
  ASSUME Exponentiation, NEW p \in 0 .. W
  PROVE  cidr_to_u32(p) = (2 ^ p - 1) * 2 ^ (W - p)
<1> DEFINE q == 2 ^ p  h == 2 ^ (W - p)
<1>1. W \in Nat /\ p \in Nat /\ W - p \in Nat
  BY Words
<1>2. Word = h * q /\ q \in Nat \ {0} /\ h \in Nat \ {0} /\ Word \in Nat \ {0}
  BY <1>1, PowerSplit DEF Word
<1>3. CASE p = 0
  <2>1. cidr_to_u32(p) = 0 /\ q = 1
    BY <1>3 DEF cidr_to_u32
  <2> HIDE DEF q, h
  <2>2. (1 - 1) * h = 0
    BY <1>2
  <2> QED  BY <2>1, <2>2 DEF q, h
<1>4. CASE p # 0
  <2>1. W - p < W
    BY <1>1, <1>4
  <2>2. cidr_to_u32(p) = ((Word - 1) * h) % Word
    BY <1>4, <2>1 DEF cidr_to_u32, Shifted
  <2> HIDE DEF q, h
  <2>3. q * h = Word /\ Word - 1 \in Nat
    BY <1>2
  <2>4. ((Word - 1) * h) % (q * h) = ((Word - 1) % q) * h
    BY <1>2, <2>3, ScaledModulo
  <2>5. (Word - 1) % q = q - 1
    <3>1. Word - 1 = (h - 1) * q + (q - 1)
      BY <1>2
    <3>2. h - 1 \in Nat /\ q - 1 \in 0 .. q - 1
      BY <1>2
    <3> QED  BY <1>2, <2>3, <3>1, <3>2, Quotient
  <2> QED  BY <2>2, <2>3, <2>4, <2>5 DEF q, h
<1> QED  BY <1>3, <1>4

-------------------------------------------------------------------------------
(* The driver's list. *)

LEMMA FunctionIsSequence ==
  ASSUME NEW S, NEW n \in Nat, NEW s \in [1 .. n -> S]
  PROVE  s \in Seq(S) /\ Len(s) = n
OBVIOUS

LEMMA FourNumbers ==
  ASSUME NEW b \in [1 .. 4 -> Nat]
  PROVE  b \in Seq(Nat) /\ Len(b) = 4
BY FunctionIsSequence

\* A finite set as a sequence: its elements, each of them once.
LEMMA Listing ==
  ASSUME NEW S, IsFiniteSet(S)
  PROVE  /\ Cardinality(S) \in Nat
         /\ SetToSeq(S) \in [1 .. Cardinality(S) -> S]
         /\ \A i, j \in 1 .. Cardinality(S) : SetToSeq(S)[i] = SetToSeq(S)[j] => i = j
         /\ \A c \in S : \E i \in 1 .. Cardinality(S) : SetToSeq(S)[i] = c
<1> DEFINE n == Cardinality(S)  f == SetToSeq(S)
<1>1. n \in Nat /\ ExistsBijection(1 .. n, S)
  BY FS_CardinalityType
<1>2. \E g \in [1 .. n -> S] : IsInjective(g)
  BY <1>1 DEF ExistsBijection, Bijection, Injection, IsInjective
<1>3. f \in [1 .. n -> S] /\ IsInjective(f)
  BY <1>2 DEF SetToSeq
<1> HIDE DEF f
<1>4. f \in Injection(1 .. n, S)
  BY <1>3 DEF Injection
<1>5. Cardinality(1 .. n) = n
  BY <1>1, FS_Interval
<1> HIDE DEF n
<1>6. f \in Surjection(1 .. n, S)
  BY <1>4, <1>5, FS_Injection DEF n
<1> QED  BY <1>1, <1>3, <1>6 DEF IsInjective, Surjection, n, f

\* What can be said of the cameras there are, now and then.
LEMMA Present ==
  ASSUME NEW S \in SUBSET Cameras
  PROVE  IsFiniteSet(S) /\ Cardinality(S) \in Nat /\ Cardinality(S) <= Cardinality(Cameras)
BY FS_Subset, FS_CardinalityType, CameraDiscoveryAssumption

LEMMA Leaving ==
  ASSUME NEW S \in SUBSET Cameras, NEW c \in S
  PROVE  Cardinality(S \ {c}) <= Cardinality(S)
BY Present, FS_RemoveElement

\* The list that is_GetCameraList fills.
LEMMA ReadList ==
  ASSUME Exponentiation, DInv, GetCameraList
  PROVE  /\ uci' \in Seq(Info) /\ Len(uci') = numCams
         /\ dwCount' = Filled /\ Filled \in Nat /\ Filled <= numCams
         /\ \A i, j \in 1 .. Filled : uci'[i].camera = uci'[j].camera => i = j
         /\ Found' \subseteq present
         /\ ~arrived => stayed \subseteq Found'
<1>1. /\ present \subseteq Cameras /\ inUse \subseteq Cameras
      /\ numCams \in 0 .. Cardinality(Cameras) /\ pc = "list" /\ dwCount' = Filled
      /\ ~arrived => stayed = present /\ Cardinality(present) <= numCams
  BY DEF DInv, ListInv, TypeOK, ListRead, GetCameraList
<1>2. PICK chosen \in SUBSET present, rest \in Info :
        /\ Cardinality(chosen) = Filled
        /\ uci' = [i \in 1 .. numCams |->
                     IF i <= Filled
                     THEN LET c == SetToSeq(chosen)[i] IN [camera |-> c, inUse |-> c \in inUse]
                     ELSE rest]
  BY DEF GetCameraList
<1> DEFINE n == Cardinality(chosen)  f == SetToSeq(chosen)
<1>3. IsFiniteSet(chosen) /\ chosen \in SUBSET Cameras
  BY <1>1, Present
<1>4. /\ n \in Nat /\ f \in [1 .. n -> chosen]
      /\ \A i, j \in 1 .. n : f[i] = f[j] => i = j
      /\ \A c \in chosen : \E i \in 1 .. n : f[i] = c
  BY <1>3, Listing
<1>5. Cardinality(present) \in Nat /\ numCams \in Nat /\ Cardinality(Cameras) \in Nat
  BY <1>1, Present, CameraDiscoveryAssumption, FS_CardinalityType
<1>6. Filled \in Nat /\ Filled <= numCams
  BY <1>5 DEF Filled
<1>7. n = Filled
  BY <1>2
<1> HIDE DEF f, n
<1>8. uci' = [i \in 1 .. numCams |-> IF i <= n THEN [camera |-> f[i], inUse |-> f[i] \in inUse]
                                               ELSE rest]
  BY <1>2, <1>7 DEF f
<1>9. uci' \in [1 .. numCams -> Info]
  <2>1. ASSUME NEW i \in 1 .. numCams
        PROVE  (IF i <= n THEN [camera |-> f[i], inUse |-> f[i] \in inUse] ELSE rest) \in Info
    <3>1. i <= n => i \in 1 .. n
      BY <1>4, <1>5
    <3>2. i <= n => f[i] \in Cameras
      BY <1>3, <1>4, <3>1
    <3> QED  BY <1>2, <3>2 DEF Info
  <2> QED  BY <1>8, <2>1
<1>10. uci' \in Seq(Info) /\ Len(uci') = numCams
  BY <1>5, <1>9, FunctionIsSequence
<1>11. \A i \in 1 .. n : uci'[i].camera = f[i]
  <2> TAKE i \in 1 .. n
  <2>1. i \in 1 .. numCams /\ i <= n
    BY <1>4, <1>5, <1>6, <1>7
  <2> QED  BY <1>8, <2>1
<1>12. Found' = {f[i] : i \in 1 .. n}
  BY <1>1, <1>7, <1>11 DEF Found
<1>13. ASSUME ~arrived PROVE stayed \subseteq Found'
  <2>1. n = Cardinality(present) /\ stayed = present
    BY <1>1, <1>5, <1>7, <1>13 DEF Filled
  <2>2. chosen = present
    BY <2>1, <1>1, FS_Subset, Present DEF n
  <2> QED  BY <1>4, <1>12, <2>1, <2>2
<1>14. Found' \subseteq present
  BY <1>4, <1>12
<1>15. \A i, j \in 1 .. n : uci'[i].camera = uci'[j].camera => i = j
  BY <1>4, <1>11
<1> QED  BY <1>1, <1>6, <1>7, <1>10, <1>13, <1>14, <1>15

-------------------------------------------------------------------------------
(* DInv is inductive. *)

LEMMA InitDInv == ASSUME Exponentiation, Init PROVE DInv
<1>1. kind \in [Cameras -> KindType] /\ present \subseteq Cameras /\ inUse \subseteq Cameras
  <2>1. \A c \in Cameras : kind[c] \in KindType
    BY CameraDiscoveryAssumption DEF Init
  <2>2. DOMAIN kind = Cameras /\ kind = [c \in DOMAIN kind |-> kind[c]]
    BY DEF Init
  <2> QED  BY <2>1, <2>2 DEF Init
<1>2. 0 \in 0 .. Word - 1 /\ Cardinality(Cameras) \in Nat /\ MaxCalls \in Nat /\ MaxMask \in Nat
  <2>1. Word \in Nat \ {0}
    BY Words
  <2>2. IsFiniteSet(Cameras) /\ MaxCalls \in Nat /\ MaxMask \in Nat
    BY CameraDiscoveryAssumption
  <2> QED  BY <2>1, <2>2, FS_CardinalityType
<1>3. TypeOK
  <2>1. /\ uci \in Seq(Info) /\ camList \in Seq(Entry) /\ dwCount = 0 /\ Len(uci) = 0
        /\ there \subseteq Cameras
    BY DEF Init
  <2>2. /\ pc = "idle" /\ outcome = "none"
        /\ wraps \in BOOLEAN /\ u32 \in 0 .. Word - 1 /\ mask \in 0 .. MaxMask
    BY <1>2 DEF Init
  <2>3. numCams \in 0 .. Cardinality(Cameras) /\ calls \in 0 .. MaxCalls /\ Len(uci) <= numCams
        /\ dwCount \in Nat /\ dwCount <= Len(uci)
    BY <1>2, <2>1 DEF Init
  <2>4. buffers \in Nat /\ losses \in Nat /\ stayed \subseteq present /\ arrived \in BOOLEAN
    BY DEF Init
  <2> QED  BY <1>1, <2>1, <2>2, <2>3, <2>4 DEF TypeOK
<1>4. ListComplete /\ ConnectionRight
  BY DEF Init, ListComplete, ConnectionRight, Listed
<1>5. ListRead /\ ListFollows /\ EntryKnown /\ FreedButForConnections
  BY DEF Init, ListRead, ListFollows, EntryKnown, FreedButForConnections, Asking, Found
<1> QED  BY <1>3, <1>4, <1>5 DEF DInv, ListInv

\* The cameras change under the calls.
LEMMA DriverStep == ASSUME DInv, Arrives \/ Leaves \/ OpenedOrClosed PROVE DInv'
<1> USE DEF DInv, ListInv, cidrVars, historyVars, driverVars
<1>1. /\ UNCHANGED <<kind, pc, numCams, uci, dwCount, camList, outcome, wraps, u32, mask, buffers,
                     losses, there, calls>>
      /\ stayed' \subseteq stayed
      /\ Found' = Found /\ Listed' = Listed
  BY DEF Arrives, Leaves, OpenedOrClosed, Found, Listed
<1>2. /\ present' \subseteq Cameras /\ inUse' \subseteq Cameras
      /\ stayed' \subseteq present' /\ arrived' \in BOOLEAN
      /\ arrived => arrived'
  BY DEF Arrives, Leaves, OpenedOrClosed, TypeOK
<1>3. TypeOK'
  BY <1>1, <1>2 DEF TypeOK
<1>4. ListComplete' /\ ConnectionRight' /\ FreedButForConnections' /\ ListFollows'
  BY <1>1, <1>2 DEF ListComplete, ConnectionRight, FreedButForConnections, ListFollows
<1>5. EntryKnown'
  BY <1>1 DEF EntryKnown, CurrentKind, Current
<1>6. ASSUME pc = "list", ~arrived' PROVE stayed' = present' /\ Cardinality(present') <= numCams
  <2>1. CASE Arrives
    BY <1>6, <2>1 DEF Arrives
  <2>2. CASE Leaves
    <3>1. PICK c \in present :
            present' = present \ {c} /\ stayed' = stayed \ {c} /\ arrived' = arrived
      BY <2>2 DEF Leaves
    <3>2. Cardinality(present') <= Cardinality(present) /\ stayed = present
          /\ Cardinality(present) <= numCams /\ numCams \in Nat
      BY <1>6, <3>1, Leaving DEF TypeOK, ListRead
    <3>3. Cardinality(present) \in Nat /\ Cardinality(present') \in Nat
      BY <1>2, Present DEF TypeOK
    <3> QED  BY <3>1, <3>2, <3>3
  <2>3. CASE OpenedOrClosed
    BY <1>6, <2>3 DEF OpenedOrClosed, ListRead
  <2> QED  BY <2>1, <2>2, <2>3
<1>7. ListRead'
  BY <1>1, <1>2, <1>6 DEF ListRead
<1> QED  BY <1>3, <1>4, <1>5, <1>7

\* The calls that come before there is a list, and the end.
LEMMA CallStep == ASSUME DInv, Call PROVE DInv'
<1> USE DEF DInv, ListInv
<1>1. /\ calls' = calls + 1 /\ calls < MaxCalls /\ pc = "idle" /\ pc' = "number"
      /\ camList' = <<>> /\ uci' = <<>> /\ dwCount' = 0 /\ numCams' = 0
      /\ UNCHANGED <<kind, present, inUse, outcome, buffers, losses, stayed, arrived, there, wraps,
                     u32, mask>>
  BY DEF Call, Goto, cidrVars, driverVars
<1>2. /\ uci' \in Seq(Info) /\ camList' \in Seq(Entry)
      /\ Len(uci') = 0 /\ Len(camList') = 0
  BY <1>1
<1>3. Cardinality(Cameras) \in Nat /\ MaxCalls \in Nat
  BY FS_CardinalityType, CameraDiscoveryAssumption
<1>4. TypeOK'
  BY <1>1, <1>2, <1>3 DEF TypeOK
<1>5. ListComplete' /\ ConnectionRight' /\ FreedButForConnections' /\ ListFollows'
  BY <1>1, <1>2 DEF ListComplete, Listed, ConnectionRight, FreedButForConnections, ListFollows,
                    Asking
<1>6. EntryKnown' /\ ListRead'
  BY <1>1, <1>2 DEF EntryKnown, ListRead, Asking, Found
<1> QED  BY <1>4, <1>5, <1>6

LEMMA NumberStep == ASSUME DInv, GetNumberOfCameras PROVE DInv'
<1> USE DEF DInv, ListInv
<1>1. /\ pc = "number" /\ numCams' = Cardinality(present)
      /\ stayed' = present /\ arrived' = FALSE
      /\ \/ pc' = "idle" /\ outcome' = "returned" /\ buffers' = buffers
         \/ pc' = "list" /\ buffers' = buffers + 1 /\ outcome' = outcome
      /\ UNCHANGED <<kind, present, inUse, uci, dwCount, camList, losses, there, calls, wraps, u32,
                     mask>>
  BY DEF GetNumberOfCameras, Goto, Return, cidrVars, driverVars
<1>2. Cardinality(present) \in 0 .. Cardinality(Cameras)
  BY Present, FS_CardinalityType, CameraDiscoveryAssumption DEF TypeOK
<1>3. uci = <<>> /\ camList = <<>> /\ Len(uci) = 0 /\ dwCount = 0 /\ Len(camList) = 0
  BY <1>1 DEF ListRead, TypeOK
<1>4. TypeOK'
  <2>1. numCams' \in 0 .. Cardinality(Cameras) /\ Len(uci') <= numCams'
    BY <1>1, <1>2, <1>3
  <2>2. stayed' \subseteq present' /\ arrived' \in BOOLEAN
    BY <1>1
  <2>3. buffers' \in Nat
    BY <1>1 DEF TypeOK
  <2> QED  BY <1>1, <2>1, <2>2, <2>3 DEF TypeOK
<1>5. FreedButForConnections'
  BY <1>1 DEF FreedButForConnections, TypeOK
<1>6. ListComplete' /\ ConnectionRight' /\ ListFollows'
  BY <1>1, <1>3 DEF ListComplete, Listed, ConnectionRight, ListFollows, Asking
<1>7. EntryKnown' /\ ListRead'
  BY <1>1, <1>2, <1>3 DEF EntryKnown, ListRead, Asking, Found
<1> QED  BY <1>4, <1>5, <1>6, <1>7

LEMMA ListStep == ASSUME Exponentiation, DInv, GetCameraList PROVE DInv'
<1> USE DEF DInv, ListInv
<1>1. /\ uci' \in Seq(Info) /\ Len(uci') = numCams
      /\ dwCount' = Filled /\ Filled \in Nat /\ Filled <= numCams
      /\ \A i, j \in 1 .. Filled : uci'[i].camera = uci'[j].camera => i = j
      /\ Found' \subseteq present
      /\ ~arrived => stayed \subseteq Found'
  BY ReadList
<1>2. /\ pc = "list" /\ camList = <<>> /\ camList' = <<>> /\ Len(camList') = 0
      /\ pc' = IF dwCount' = 0 THEN "free" ELSE "capabilities"
      /\ there' = present
      /\ UNCHANGED <<kind, present, inUse, numCams, outcome, wraps, u32, mask, buffers, losses,
                     stayed, arrived, calls>>
  BY DEF ListRead, GetCameraList, Count, Goto, cidrVars, driverVars
<1>3. TypeOK'
  BY <1>1, <1>2 DEF TypeOK
<1>4. ConnectionRight' /\ FreedButForConnections' /\ ListFollows'
  BY <1>1, <1>2 DEF ConnectionRight, FreedButForConnections, ListFollows, Asking
<1>5. ListRead' /\ EntryKnown'
  BY <1>1, <1>2 DEF EntryKnown, ListRead, Asking
<1>6. ListComplete'
  <2>1. pc' = "free" => Found' = {}
    BY <1>1, <1>2 DEF Found
  <2>2. Listed' = {}
    BY <1>2 DEF Listed
  <2> QED  BY <1>1, <1>2, <2>1, <2>2 DEF ListComplete
<1> QED  BY <1>3, <1>4, <1>5, <1>6

\* The ways out: the list is freed, or lost with an exception.
LEMMA EndStep == ASSUME DInv, CallFails \/ Free \/ ConnectionFails PROVE DInv'
<1> USE DEF DInv, ListInv
<1>1. /\ UNCHANGED <<kind, present, inUse, numCams, uci, dwCount, camList, wraps, u32, mask, stayed,
                     arrived, there, calls>>
      /\ pc' = "idle" /\ outcome' \in {"returned", "thrown"}
  BY DEF CallFails, Free, ConnectionFails, Goto, Return, Throw, cidrVars, driverVars
<1>2. buffers' = losses' /\ losses' \in Nat
  BY DEF TypeOK, FreedButForConnections, CallFails, Free, ConnectionFails, Cleanup
<1>3. TypeOK'
  BY <1>1, <1>2 DEF TypeOK
<1>4. FreedButForConnections'
  <2>1. pc' \in {"idle", "number"}
    BY <1>1
  <2>2. \A n \in Nat : n = n + 0
    OBVIOUS
  <2> QED  BY <1>2, <2>1, <2>2 DEF FreedButForConnections
<1>5. ConnectionRight' /\ ListFollows' /\ ListRead' /\ EntryKnown' /\ ListComplete'
  BY <1>1 DEF ConnectionRight, ListFollows, ListRead, EntryKnown, ListComplete, Asking, Found,
              Listed
<1> QED  BY <1>3, <1>4, <1>5

\* The entry that is asked about is one of a camera.
LEMMA Entries ==
  ASSUME DInv, pc \in Asking
  PROVE  /\ Len(camList) \in Nat /\ dwCount \in Nat /\ Len(camList) + 1 \in 1 .. dwCount
         /\ Current \in [camera : Cameras, inUse : BOOLEAN]
         /\ CurrentKind \in KindType
<1>1. /\ Len(camList) \in Nat /\ dwCount \in Nat /\ Len(camList) + 1 \in 1 .. dwCount
      /\ Len(camList) + 1 \in 1 .. Len(uci)
  BY DEF DInv, ListInv, TypeOK, ListFollows
<1>2. Current \in [camera : Cameras, inUse : BOOLEAN]
  BY <1>1, ElementOfSeq DEF DInv, ListInv, TypeOK, Current, Info
<1> QED  BY <1>1, <1>2 DEF DInv, ListInv, TypeOK, CurrentKind

\* It is listed as it is connected.
LEMMA AdvanceStep ==
  ASSUME DInv, pc \in Asking, NEW connection \in Connections, NEW text \in Seq(Nat),
         Fits(CurrentKind, connection), Advance(connection, text),
         UNCHANGED <<driverVars, numCams, uci, dwCount, outcome, wraps, historyVars>>,
         u32' \in 0 .. Word - 1, mask' \in 0 .. MaxMask
  PROVE  DInv'
<1> USE DEF DInv, ListInv
<1> DEFINE n == Len(camList)  e == NewEntry(connection, text)
<1>1. /\ n \in Nat /\ dwCount \in Nat /\ n + 1 \in 1 .. dwCount
      /\ Current \in [camera : Cameras, inUse : BOOLEAN]
  BY Entries
<1>2. e \in Entry /\ e.camera = Current.camera /\ e.connection = connection
  BY <1>1 DEF NewEntry, Entry
<1>3. camList' = Append(camList, e) /\ camList \in Seq(Entry)
  BY DEF Advance, TypeOK
<1>4. pc' = IF n + 1 = dwCount THEN "free" ELSE "capabilities"
  BY DEF Advance, Count, Goto
<1>5. UNCHANGED <<kind, present, inUse, numCams, uci, dwCount, outcome, wraps, buffers, losses,
                  stayed, arrived, there, calls>>
  BY DEF driverVars, historyVars
<1> HIDE DEF e
<1>6. /\ camList' \in Seq(Entry) /\ Len(camList') = n + 1 /\ camList'[n + 1] = e
      /\ \A i \in 1 .. n : camList'[i] = camList[i]
  BY <1>2, <1>3, AppendProperties
<1> HIDE DEF n
<1>7. TypeOK'
  BY <1>4, <1>5, <1>6 DEF TypeOK
<1>8. \A i \in 1 .. n + 1 : i \in 1 .. dwCount /\ (i \in 1 .. n \/ i = n + 1)
  BY <1>1
<1>9. \A i \in 1 .. n + 1 : camList'[i].camera = uci[i].camera
  BY <1>2, <1>6, <1>8 DEF ListFollows, Current, n
<1>10. ListFollows'
  BY <1>1, <1>4, <1>5, <1>6, <1>9 DEF ListFollows, Asking
<1>11. ListRead' /\ EntryKnown' /\ FreedButForConnections'
  BY <1>4, <1>5 DEF ListRead, EntryKnown, FreedButForConnections, Asking, Found
<1>12. ConnectionRight'
  <2>1. \A i \in 1 .. n : Fits(kind[camList'[i].camera], camList'[i].connection)
    BY <1>6 DEF ConnectionRight, n
  <2>2. Fits(kind[e.camera], e.connection)
    BY <1>2 DEF CurrentKind
  <2>3. \A i \in 1 .. n + 1 : Fits(kind[camList'[i].camera], camList'[i].connection)
    BY <1>6, <1>8, <2>1, <2>2
  <2> QED  BY <1>5, <1>6, <2>3 DEF ConnectionRight, Fits
<1>13. ListComplete'
  <2>1. \A i, j \in 1 .. n + 1 : camList'[i].camera = camList'[j].camera => i = j
    BY <1>8, <1>9 DEF ListRead
  <2>2. pc' = "free" => n + 1 = dwCount
    BY <1>4
  <2>3. n + 1 = dwCount => Found = Listed'
    BY <1>6, <1>9 DEF Found, Listed
  <2>4. arrived \/ stayed \subseteq Found
    BY DEF ListRead
  <2>5. Listed' \subseteq Found
    <3> SUFFICES ASSUME NEW i \in 1 .. n + 1 PROVE camList'[i].camera \in Found
      BY <1>6 DEF Listed
    <3> QED  BY <1>8, <1>9 DEF Found
  <2>6. Found \subseteq there
    BY DEF ListRead
  <2> QED  BY <1>5, <1>6, <2>1, <2>2, <2>3, <2>4, <2>5, <2>6 DEF ListComplete
<1> QED  BY <1>7, <1>10, <1>11, <1>12, <1>13

\* Another question about it.
LEMMA AskStep ==
  ASSUME DInv, pc \in Asking, pc' \in Asking,
         UNCHANGED <<driverVars, numCams, uci, dwCount, camList, outcome, wraps, historyVars>>,
         u32' \in 0 .. Word - 1, mask' \in 0 .. MaxMask, EntryKnown'
  PROVE  DInv'
<1> USE DEF DInv, ListInv
<1>1. UNCHANGED <<kind, present, inUse, numCams, uci, dwCount, camList, outcome, wraps, buffers,
                  losses, stayed, arrived, there, calls>>
  BY DEF driverVars, historyVars
<1>2. TypeOK'
  BY <1>1 DEF TypeOK, Asking
<1>3. ListRead' /\ ListFollows' /\ FreedButForConnections'
  BY <1>1 DEF ListRead, ListFollows, FreedButForConnections, Asking, Found
<1>4. ListComplete' /\ ConnectionRight'
  BY <1>1 DEF ListComplete, ConnectionRight, Asking, Listed
<1> QED  BY <1>2, <1>3, <1>4

LEMMA ConnectionStep ==
  ASSUME Exponentiation, DInv, getCameraConnectionInfo
  PROVE  DInv'
<1> USE DEF DInv, ListInv
<1>1. u32 \in 0 .. Word - 1 /\ mask \in 0 .. MaxMask /\ MaxMask \in Nat /\ Word \in Nat \ {0}
  BY CameraDiscoveryAssumption, Words DEF TypeOK
<1>2. <<>> \in Seq(Nat)
  OBVIOUS
<1>3. CASE QueryCapabilities
  <2>1. /\ pc = "capabilities" /\ pc \in Asking /\ u32' = u32 /\ mask' = mask
        /\ UNCHANGED <<driverVars, numCams, uci, dwCount, outcome, wraps, historyVars>>
    BY <1>3 DEF QueryCapabilities, Asking, cidrVars
  <2>2. CASE IsUsb(CurrentKind) /\ Advance("USB", <<>>)
    <3>1. Fits(CurrentKind, "USB") /\ "USB" \in Connections
      BY <2>1, <2>2, Entries DEF IsUsb, Fits, Connections, KindType
    <3> QED  BY <1>1, <1>2, <2>1, <2>2, <3>1, AdvanceStep
  <2>3. CASE ~IsUsb(CurrentKind) /\ UNCHANGED camList
    <3>1. pc' = IF CurrentKind.persistent THEN "persistent" ELSE "autoconfig"
      BY <1>3, <2>3 DEF QueryCapabilities, Goto
    <3>2. CurrentKind' = CurrentKind
      BY <2>1, <2>3 DEF CurrentKind, Current, driverVars
    <3>3. EntryKnown' /\ pc' \in Asking
      BY <2>1, <2>3, <3>1, <3>2, Entries DEF EntryKnown, IsUsb, Asking, KindType
    <3> QED  BY <1>1, <2>1, <2>3, <3>3, AskStep
  <2> QED  BY <1>3, <2>2, <2>3 DEF QueryCapabilities
<1>4. CASE GetPersistentIp
  <2>1. /\ pc = "persistent" /\ pc \in Asking
        /\ UNCHANGED <<driverVars, numCams, uci, dwCount, camList, outcome, wraps, historyVars>>
    BY <1>4 DEF GetPersistentIp, Asking
  <2>2. CurrentKind' = CurrentKind
    BY <2>1 DEF CurrentKind, Current, driverVars
  <2>3. CurrentKind.ip /\ CurrentKind.persistent
    BY <2>1 DEF EntryKnown, Asking
  <2>4. CASE IsStatic(CurrentKind) /\ pc' = "decode"
    <3>1. CurrentKind.dwMask \in Nat
      BY <1>1, <2>1, Entries DEF KindType
    <3>2. u32' \in 0 .. Word - 1 /\ mask' = 0
      BY <1>4, <2>1, <2>2, <2>4, <3>1, BytesOfWord, WordOfBytes DEF GetPersistentIp, Goto
    <3>3. EntryKnown' /\ pc' \in Asking
      BY <2>2, <2>3, <2>4 DEF EntryKnown, Asking, IsStatic
    <3> QED  BY <1>1, <2>1, <3>2, <3>3, AskStep
  <2>5. CASE ~IsStatic(CurrentKind) /\ pc' = "autoconfig"
    <3>1. u32' = u32 /\ mask' = mask
      BY <1>4, <2>5 DEF GetPersistentIp
    <3>2. EntryKnown' /\ pc' \in Asking
      BY <2>2, <2>3, <2>5, Entries DEF EntryKnown, Asking, IsStatic, KindType
    <3> QED  BY <1>1, <2>1, <3>1, <3>2, AskStep
  <2> QED  BY <1>4, <2>4, <2>5 DEF GetPersistentIp, Goto
<1>5. CASE CountBit
  <2>1. /\ pc = "decode" /\ pc' = pc /\ u32' = u32 /\ mask' \in 0 .. MaxMask
        /\ UNCHANGED <<driverVars, numCams, uci, dwCount, camList, outcome, wraps, historyVars>>
    BY <1>1, <1>5 DEF CountBit
  <2>2. CurrentKind' = CurrentKind
    BY <2>1 DEF CurrentKind, Current, driverVars
  <2>3. EntryKnown' /\ pc \in Asking
    BY <2>1, <2>2 DEF EntryKnown, Asking, IsStatic
  <2> QED  BY <1>1, <2>1, <2>3, AskStep
<1>6. CASE u32_to_cidr
  <2> DEFINE text == Append(ip_u32_little_endian_to_bytes(CurrentKind.dwAddr), mask)
  <2>1. /\ pc = "decode" /\ pc \in Asking /\ u32' = 0 /\ mask' = 0 /\ Advance("static", text)
        /\ UNCHANGED <<driverVars, numCams, uci, dwCount, outcome, wraps, historyVars>>
    BY <1>6 DEF u32_to_cidr, Asking
  <2>2. CurrentKind.dwAddr \in Nat /\ Byte \in Nat
    BY <1>1, <2>1, Entries, Words DEF KindType
  <2>3. ip_u32_little_endian_to_bytes(CurrentKind.dwAddr) \in [1 .. 4 -> 0 .. Byte - 1]
    BY <2>2, BytesOfWord
  <2>4. text \in Seq(Nat)
    <3>1. ip_u32_little_endian_to_bytes(CurrentKind.dwAddr) \in [1 .. 4 -> Nat]
      BY <2>2, <2>3
    <3>2. ip_u32_little_endian_to_bytes(CurrentKind.dwAddr) \in Seq(Nat)
      BY <3>1, FourNumbers
    <3>3. mask \in Nat
      BY <1>1
    <3> QED  BY <3>2, <3>3, AppendProperties
  <2>5. Fits(CurrentKind, "static") /\ "static" \in Connections
    BY <2>1 DEF EntryKnown, Asking, IsStatic, Fits, Connections
  <2> HIDE DEF text
  <2> QED  BY <1>1, <2>1, <2>4, <2>5, AdvanceStep
<1>7. CASE GetAutoconfig
  <2>1. /\ pc = "autoconfig" /\ pc \in Asking /\ u32' = u32 /\ mask' = mask
        /\ Advance("autoconfig", <<>>)
        /\ UNCHANGED <<driverVars, numCams, uci, dwCount, outcome, wraps, historyVars>>
    BY <1>7 DEF GetAutoconfig, Asking, cidrVars
  <2>2. Fits(CurrentKind, "autoconfig") /\ "autoconfig" \in Connections
    BY <2>1 DEF EntryKnown, Asking, Fits, Connections
  <2> QED  BY <1>1, <1>2, <2>1, <2>2, AdvanceStep
<1> QED  BY <1>3, <1>4, <1>5, <1>6, <1>7, EndStep DEF getCameraConnectionInfo

LEMMA DiscoveryStep == ASSUME Exponentiation, DInv, [Next]_vars PROVE DInv'
<1>1. CASE UNCHANGED vars
  BY <1>1 DEF vars, driverVars, historyVars, cidrVars, DInv, ListInv, TypeOK, ListComplete,
              ConnectionRight, FreedButForConnections, ListRead, ListFollows, EntryKnown,
              CurrentKind, Current, Found, Listed
<1> QED
  BY <1>1, DriverStep, CallStep, NumberStep, ListStep, EndStep, ConnectionStep
     DEF Next, getCameraList

-------------------------------------------------------------------------------
(* The text of a static address. *)

LEMMA NetmaskType ==
  ASSUME Exponentiation, NEW k \in KindType
  PROVE  /\ k.dwAddr \in 0 .. Word - 1 /\ k.dwMask \in 0 .. Word - 1
         /\ k.dwAddr \in Nat /\ k.dwMask \in Nat
         /\ NetmaskWord(k) \in 0 .. Word - 1 /\ NetmaskWord(k) \in Nat
<1>1. k.dwAddr \in 0 .. Word - 1 /\ k.dwMask \in 0 .. Word - 1 /\ Word \in Nat
  BY Words DEF KindType
<1>2. k.dwAddr \in Nat /\ k.dwMask \in Nat
  BY <1>1
<1>3. NetmaskWord(k) \in 0 .. Word - 1
  BY <1>2, BytesOfWord, WordOfBytes DEF NetmaskWord
<1> QED  BY <1>1, <1>2, <1>3

\* What is listed stays.
LEMMA TextKept ==
  ASSUME TextKnown, kind' = kind, camList' = camList \/ camList' = <<>>
  PROVE  TextKnown'
<1>1. CASE camList' = camList
  BY <1>1 DEF TextKnown, EndsAt, NetmaskWord
<1>2. CASE camList' = <<>>
  BY <1>2 DEF TextKnown
<1> QED  BY <1>1, <1>2

LEMMA TextAdded ==
  ASSUME DInv, TextKnown, pc \in Asking, kind' = kind,
         NEW connection \in Connections, NEW text \in Seq(Nat), Advance(connection, text),
         connection = "static" =>
           \E p \in 0 .. W :
             /\ EndsAt(NetmaskWord(CurrentKind), p)
             /\ text = Append(ip_u32_little_endian_to_bytes(CurrentKind.dwAddr), p)
  PROVE  TextKnown'
<1> DEFINE n == Len(camList)  e == NewEntry(connection, text)
           Text(x, k) == x.connection = "static" =>
                           \E p \in 0 .. W :
                             /\ EndsAt(NetmaskWord(k), p)
                             /\ x.ip = Append(ip_u32_little_endian_to_bytes(k.dwAddr), p)
<1>1. /\ n \in Nat /\ Current \in [camera : Cameras, inUse : BOOLEAN]
      /\ camList \in Seq(Entry)
  BY Entries DEF DInv, ListInv, TypeOK
<1>2. e \in Entry /\ e.camera = Current.camera /\ e.connection = connection /\ e.ip = text
  BY <1>1 DEF NewEntry, Entry
<1>3. camList' = Append(camList, e)
  BY DEF Advance
<1>4. Text(e, kind[e.camera])
  BY <1>2 DEF CurrentKind
<1>5. \A i \in 1 .. n : Text(camList[i], kind[camList[i].camera])
  BY DEF TextKnown
<1> HIDE DEF e, Text
<1>6. /\ Len(camList') = n + 1 /\ camList'[n + 1] = e
      /\ \A i \in 1 .. n : camList'[i] = camList[i]
  BY <1>1, <1>2, <1>3, AppendProperties
<1> HIDE DEF n
<1>7. \A i \in 1 .. n + 1 : i \in 1 .. n \/ i = n + 1
  BY <1>1
<1>8. \A i \in 1 .. Len(camList') : Text(camList'[i], kind[camList'[i].camera])
  BY <1>4, <1>5, <1>6, <1>7
<1> QED  BY <1>8 DEF TextKnown, Text

LEMMA TextStep ==
  ASSUME Exponentiation, TInv, [Next]_vars
  PROVE  Counting' /\ TextKnown'
<1> USE DEF TInv
<1>1. CASE UNCHANGED vars
  BY <1>1, TextKept DEF vars, driverVars, cidrVars, Counting, CurrentKind, Current
<1>2. CASE Arrives \/ Leaves \/ OpenedOrClosed
  <2>1. UNCHANGED <<kind, pc, uci, dwCount, camList, wraps, u32, mask>>
    BY <1>2 DEF Arrives, Leaves, OpenedOrClosed, cidrVars
  <2> QED  BY <2>1, TextKept DEF Counting, CurrentKind, Current
<1>3. CASE Call \/ GetNumberOfCameras \/ GetCameraList \/ CallFails \/ Free \/ ConnectionFails
  <2>1. kind' = kind /\ pc' # "decode" /\ (camList' = camList \/ camList' = <<>>)
    BY <1>3 DEF Call, GetNumberOfCameras, GetCameraList, CallFails, Free, ConnectionFails, Goto,
                Return, Throw, driverVars
  <2> QED  BY <2>1, TextKept DEF Counting
<1>4. <<>> \in Seq(Nat) /\ "USB" \in Connections /\ "autoconfig" \in Connections
      /\ "static" \in Connections
  BY DEF Connections
<1>5. CASE QueryCapabilities
  <2>1. kind' = kind /\ pc \in Asking /\ pc' # "decode"
    BY <1>5 DEF QueryCapabilities, Advance, Goto, driverVars, Asking
  <2>2. camList' = camList \/ Advance("USB", <<>>)
    BY <1>5 DEF QueryCapabilities
  <2>3. TextKnown'
    BY <1>4, <2>1, <2>2, TextKept, TextAdded
  <2> QED  BY <2>1, <2>3 DEF Counting
<1>6. CASE GetAutoconfig
  <2>1. kind' = kind /\ pc \in Asking /\ pc' # "decode" /\ Advance("autoconfig", <<>>)
    BY <1>6 DEF GetAutoconfig, Advance, Goto, driverVars, Asking
  <2>2. TextKnown'
    BY <1>4, <2>1, TextAdded
  <2> QED  BY <2>1, <2>2 DEF Counting
<1>7. CASE GetPersistentIp
  <2>1. UNCHANGED <<kind, uci, dwCount, camList, wraps>>
    BY <1>7 DEF GetPersistentIp, driverVars
  <2>2. pc' = "decode" => u32' = NetmaskWord(CurrentKind) /\ mask' = 0
    BY <1>7 DEF GetPersistentIp, Goto, NetmaskWord
  <2>3. CurrentKind' = CurrentKind
    BY <2>1 DEF CurrentKind, Current
  <2>4. 0 .. 0 - 1 = {}
    OBVIOUS
  <2>5. Counting'
    BY <2>2, <2>3, <2>4 DEF Counting, NetmaskWord
  <2> QED  BY <2>1, <2>5, TextKept
<1>8. CASE CountBit
  <2>1. /\ UNCHANGED <<kind, uci, dwCount, camList, wraps, u32>> /\ pc = "decode" /\ mask' = mask + 1
        /\ Shifted(u32, mask, wraps) # 0 /\ mask \in Nat
    BY <1>8, CameraDiscoveryAssumption DEF CountBit, driverVars, LoopEnds, DInv, ListInv, TypeOK
  <2>2. CurrentKind' = CurrentKind
    BY <2>1 DEF CurrentKind, Current
  <2>3. \A m \in 0 .. mask' - 1 : m \in 0 .. mask - 1 \/ m = mask
    BY <2>1
  <2>4. \A m \in 0 .. mask' - 1 : Shifted(u32, m, wraps) # 0
    BY <2>1, <2>3 DEF Counting
  <2>5. Counting'
    BY <2>1, <2>2, <2>4 DEF Counting, NetmaskWord
  <2> QED  BY <2>1, <2>5, TextKept
<1>9. CASE u32_to_cidr
  <2> DEFINE bytes == ip_u32_little_endian_to_bytes(CurrentKind.dwAddr)
  <2>1. /\ kind' = kind /\ pc = "decode" /\ pc \in Asking /\ pc' # "decode"
        /\ Shifted(u32, mask, wraps) = 0 /\ Advance("static", Append(bytes, mask))
    BY <1>9 DEF u32_to_cidr, driverVars, LoopEnds, Asking, Advance, Goto
  <2>2. mask \in Nat /\ u32 \in 0 .. Word - 1 /\ wraps \in BOOLEAN
    BY CameraDiscoveryAssumption DEF DInv, ListInv, TypeOK
  <2>3. EndsAt(u32, mask) /\ u32 = NetmaskWord(CurrentKind)
    BY <2>1, <2>2, LoopResult DEF Counting
  <2>4. mask \in 0 .. W
    BY <2>3 DEF EndsAt
  <2>5. CurrentKind.dwAddr \in Nat /\ Byte \in Nat
    BY <2>1, Entries, NetmaskType, Words
  <2>6. bytes \in [1 .. 4 -> 0 .. Byte - 1]
    BY <2>5, BytesOfWord
  <2>7. bytes \in [1 .. 4 -> Nat]
    BY <2>5, <2>6
  <2>8. bytes \in Seq(Nat)
    BY <2>7, FourNumbers
  <2>9. Append(bytes, mask) \in Seq(Nat)
    BY <2>2, <2>8, AppendProperties
  <2>10. TextKnown'
    BY <1>4, <2>1, <2>3, <2>4, <2>9, TextAdded
  <2> QED  BY <2>1, <2>10 DEF Counting
<1> QED
  BY <1>1, <1>2, <1>3, <1>5, <1>6, <1>7, <1>8, <1>9
     DEF Next, getCameraList, getCameraConnectionInfo

LEMMA Appended ==
  ASSUME NEW s \in Seq(Nat), NEW n \in Nat
  PROVE  /\ Append(s, n) \in Seq(Nat) /\ Len(Append(s, n)) = Len(s) + 1
         /\ \A i \in 1 .. Len(s) : Append(s, n)[i] = s[i]
         /\ Append(s, n)[Len(s) + 1] = n
BY AppendProperties

\* Five numbers, and what the functions for texts make of them.
LEMMA Reading ==
  ASSUME Exponentiation, NEW bytes \in [1 .. 4 -> 0 .. Byte - 1], NEW p \in Nat
  PROVE  /\ Append(bytes, p)[5] = p
         /\ ip_string_to_bytes(get_address_wo_netmask(Append(bytes, p))) = bytes
         /\ p < Byte => get_cidr_netmask(Append(bytes, p)) = p
<1>1. Byte \in Nat \ {0} /\ bytes \in [1 .. 4 -> Nat]
  BY Words
<1>2. bytes \in Seq(Nat) /\ Len(bytes) = 4
  BY <1>1, FourNumbers
<1> DEFINE text == Append(bytes, p)
<1> HIDE DEF text
<1>3. /\ text \in Seq(Nat) /\ Len(text) = 5 /\ text[5] = p
      /\ \A i \in 1 .. 4 : text[i] = bytes[i]
  <2>1. /\ text \in Seq(Nat) /\ Len(text) = Len(bytes) + 1
        /\ \A i \in 1 .. Len(bytes) : text[i] = bytes[i]
        /\ text[Len(bytes) + 1] = p
    BY <1>2, Appended DEF text
  <2>2. 4 + 1 = 5
    OBVIOUS
  <2> QED  BY <1>2, <2>1, <2>2 DEF text
<1> HIDE DEF text
<1>4. \A i \in 1 .. 4 : SubSeq(text, 1, 4)[i] = text[i]
  BY <1>3
<1>5. ASSUME NEW b \in Nat, b < Byte PROVE b % Byte = b
  <2>1. b = 0 * Byte + b /\ b \in 0 .. Byte - 1
    BY <1>1, <1>5
  <2> QED  BY <1>1, <2>1, Quotient
<1>6. \A i \in 1 .. 4 : SubSeq(text, 1, 4)[i] % Byte = bytes[i]
  <2> TAKE i \in 1 .. 4
  <2>1. SubSeq(text, 1, 4)[i] = bytes[i]
    BY <1>3, <1>4
  <2>2. bytes[i] \in Nat /\ bytes[i] < Byte
    BY <1>1
  <2> QED  BY <1>5, <2>1, <2>2
<1>7. ip_string_to_bytes(get_address_wo_netmask(text)) = bytes
  BY <1>6 DEF ip_string_to_bytes, get_address_wo_netmask
<1> QED  BY <1>3, <1>5, <1>7 DEF text, get_cidr_netmask

\* What is listed reads as it should.
LEMMA KnownTextRight == ASSUME Exponentiation, TInv PROVE TextRight
<1> SUFFICES ASSUME NEW e \in Statics
             PROVE  LET k == kind[e.camera] IN
                    /\ e.ip[5] \in 0 .. W
                    /\ \A i \in 1 .. W : i > e.ip[5] => Bit(k.dwMask, i) = 0
                    /\ e.ip[5] > 0 => Bit(k.dwMask, e.ip[5]) = 1
                    /\ ip_bytes_to_u32_little_endian(
                         ip_string_to_bytes(get_address_wo_netmask(e.ip))) = k.dwAddr
                    /\ e.ip[5] < Byte /\ Contiguous(k.dwMask) =>
                         cidr_to_u32(get_cidr_netmask(e.ip)) = NetmaskWord(k)
  BY DEF TextRight, PrefixRight, ReadsBack, NetmaskWord
<1> DEFINE k == kind[e.camera]  u == NetmaskWord(k)
           bytes == ip_u32_little_endian_to_bytes(k.dwAddr)
<1>1. k \in KindType
  <2>1. camList \in Seq(Entry) /\ kind \in [Cameras -> KindType]
    BY DEF TInv, DInv, ListInv, TypeOK
  <2>2. \A i \in 1 .. Len(camList) : camList[i] \in Entry
    BY <2>1, ElementOfSeq
  <2>3. e.camera \in Cameras
    BY <2>2 DEF Statics, Entry
  <2> QED  BY <2>1, <2>3
<1>2. PICK p \in 0 .. W : EndsAt(u, p) /\ e.ip = Append(bytes, p)
  BY DEF Statics, TInv, TextKnown
<1> HIDE DEF k
<1>3. /\ k.dwAddr \in 0 .. Word - 1 /\ k.dwAddr \in Nat /\ k.dwMask \in Nat
      /\ u \in 0 .. Word - 1 /\ u \in Nat
  BY <1>1, NetmaskType
<1>4. bytes \in [1 .. 4 -> 0 .. Byte - 1] /\ ip_bytes_to_u32_little_endian(bytes) = k.dwAddr
  BY <1>3, BytesOfWord, ReadAddress
<1>5. \A i \in 1 .. W : Bit(k.dwMask, i) = BitOf(u, W - i)
  BY <1>3, BitOfMask DEF NetmaskWord
<1> HIDE DEF u, bytes
<1>6. W \in Nat /\ p \in Nat
  BY Words
<1>7. /\ e.ip[5] = p
      /\ ip_string_to_bytes(get_address_wo_netmask(e.ip)) = bytes
      /\ p < Byte => get_cidr_netmask(e.ip) = p
  BY <1>2, <1>4, <1>6, Reading
<1>8. /\ \A i \in 1 .. W : i > p => BitOf(u, W - i) = 0
      /\ p > 0 => BitOf(u, W - p) = 1
  BY <1>2, <1>3, LastBit
<1>9. /\ \A i \in 1 .. W : i > p => Bit(k.dwMask, i) = 0
      /\ p > 0 => p \in 1 .. W /\ Bit(k.dwMask, p) = 1
  <2>1. p > 0 => p \in 1 .. W
    BY <1>6
  <2> QED  BY <1>5, <1>8, <2>1
<1>10. ASSUME Contiguous(k.dwMask) PROVE cidr_to_u32(p) = u
  <2>1. \A i \in 1 .. W : Bit(k.dwMask, i) \in 0 .. 1
    <3> TAKE i \in 1 .. W
    <3>1. W - i \in Nat
      BY <1>6
    <3> QED  BY <1>3, <1>5, <3>1, BitRange
  <2>2. \A i \in 1 .. p : BitOf(u, W - i) = 1
    <3>1. CASE p > 0
      <4>1. \A i \in 1 .. p : Bit(k.dwMask, i) = 1
        BY <1>6, <1>9, <1>10, <2>1, <3>1, BitsBelow
      <4>2. \A i \in 1 .. p : i \in 1 .. W
        BY <1>6
      <4> QED  BY <1>5, <4>1, <4>2
    <3>2. CASE ~ p > 0
      BY <1>6, <3>2
    <3> QED  BY <3>1, <3>2
  <2>3. u % 2 ^ (W - p) = 0
    BY <1>2 DEF EndsAt
  <2>4. u = (2 ^ p - 1) * 2 ^ (W - p)
    BY <1>3, <2>2, <2>3, OnesAndZeros
  <2> QED  BY <2>4, MaskOfPrefix
<1> QED  BY <1>4, <1>7, <1>9, <1>10 DEF u, k

-------------------------------------------------------------------------------
(* The theorems. *)

\* However the cameras come and go and whichever call fails, the lists and what is
\* known of the entry that is asked about stay in step: the inductive invariant of
\* getCameraList and getCameraConnectionInfo.
THEOREM DiscoveryInvariance == ASSUME Exponentiation PROVE Spec => []DInv
BY InitDInv, DiscoveryStep, PTL DEF Spec

\* getCameraList lists no camera twice and none that was not there when the driver's
\* list was read, every camera that stayed unless another took its place, and each one
\* as it is connected.
THEOREM ListIsRight == ASSUME Exponentiation PROVE Spec => []ListInv
<1>1. DInv => ListInv
  BY DEF DInv
<1> QED  BY <1>1, DiscoveryInvariance, PTL

\* getCameraList frees the driver's list on every way out but the exception for a
\* camera's connection.
THEOREM ListsLost == ASSUME Exponentiation PROVE Spec => []FreedButForConnections
<1>1. DInv => FreedButForConnections
  BY DEF DInv
<1> QED  BY <1>1, DiscoveryInvariance, PTL

\* Whatever the width of a byte, the build's shifts and the netmask, the prefix in a
\* static address is the netmask's last bit, and the functions for texts give the
\* driver's words back.
THEOREM StaticAddresses == ASSUME Exponentiation PROVE Spec => []TextRight
<1>1. Init => TInv
  <2> SUFFICES ASSUME Init PROVE TInv
    OBVIOUS
  <2>1. pc = "idle" /\ Len(camList) = 0
    BY DEF Init
  <2> QED  BY <2>1, InitDInv DEF TInv, Counting, TextKnown
<1>2. TInv /\ [Next]_vars => TInv'
  BY DiscoveryStep, TextStep DEF TInv
<1>3. TInv => TextRight
  BY KnownTextRight
<1> QED  BY <1>1, <1>2, <1>3, PTL DEF Spec
================================================================================
