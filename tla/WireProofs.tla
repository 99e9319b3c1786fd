----------------------------- MODULE WireProofs -----------------------------
(***************************************************************************)
(* The packet counters and the STUN messages of MCSequential, for every    *)
(* value of the constants.  Only one part moves, so each has an invariant  *)
(* of its own, guarded by part.                                            *)
(***************************************************************************)
EXTENDS SequentialProofs

-----------------------------------------------------------------------------
(* Keystream.                                                              *)

ByteMods == {4, 8, 16, 32, 64, 128, 256}

\* What the exclusive or of two bytes undoes.
XorUndone(a, b) ==
  Keys!Xor(a, b) \in 0..255 /\ Keys!Xor(Keys!Xor(a, b), a) = b /\ Keys!Xor(a, 0) = a /\ Keys!Xor(0, a) = a

Bit(a, w) == (a \div w) % 2
SumOf(p, q, r, s, t, u, v, w) == p + 2 * q + 4 * r + 8 * s + 16 * t + 32 * u + 64 * v + 128 * w

LEMMA BitsOf ==
  ASSUME NEW a \in 0..255
  PROVE  a = SumOf(Bit(a, 1), Bit(a, 2), Bit(a, 4), Bit(a, 8), Bit(a, 16), Bit(a, 32), Bit(a, 64), Bit(a, 128))
BY DEF SumOf, Bit

BitsAre(a, p, q, r, s, t, u, v, w) ==
  /\ a \in 0..255
  /\ Bit(a, 1) = p /\ Bit(a, 2) = q /\ Bit(a, 4) = r /\ Bit(a, 8) = s
  /\ Bit(a, 16) = t /\ Bit(a, 32) = u /\ Bit(a, 64) = v /\ Bit(a, 128) = w

Bits == {0, 1}

LEMMA SumBits ==
  ASSUME NEW p \in Bits, NEW q \in Bits, NEW r \in Bits, NEW s \in Bits,
         NEW t \in Bits, NEW u \in Bits, NEW v \in Bits, NEW w \in Bits
  PROVE  BitsAre(SumOf(p, q, r, s, t, u, v, w), p, q, r, s, t, u, v, w)
BY DEF SumOf, Bit, BitsAre, Bits

\* The exclusive or of the bits of a and b.
XorBits(a, b) ==
  SumOf((Bit(a, 1) + Bit(b, 1)) % 2, (Bit(a, 2) + Bit(b, 2)) % 2, (Bit(a, 4) + Bit(b, 4)) % 2,
        (Bit(a, 8) + Bit(b, 8)) % 2, (Bit(a, 16) + Bit(b, 16)) % 2, (Bit(a, 32) + Bit(b, 32)) % 2,
        (Bit(a, 64) + Bit(b, 64)) % 2, (Bit(a, 128) + Bit(b, 128)) % 2)

LEMMA XorIs == ASSUME NEW a \in 0..255, NEW b \in 0..255 PROVE Keys!Xor(a, b) = XorBits(a, b)
<1>1. \A w \in {1, 2, 4, 8, 16, 32, 64, 128} :
        ((a \div w) + (b \div w)) % 2 = (Bit(a, w) + Bit(b, w)) % 2
  BY DEF Bit
<1> QED
  BY <1>1 DEF Keys!Xor, SumOf, XorBits

BitSum(p) == SumOf(p[1], p[2], p[3], p[4], p[5], p[6], p[7], p[8])

BitsOfSum(p) == BitsAre(BitSum(p), p[1], p[2], p[3], p[4], p[5], p[6], p[7], p[8])

LEMMA SumOfBits == ASSUME NEW p \in [1..8 -> {0, 1}] PROVE BitsOfSum(p)
<1>1. /\ p[1] \in Bits /\ p[2] \in Bits /\ p[3] \in Bits /\ p[4] \in Bits
      /\ p[5] \in Bits /\ p[6] \in Bits /\ p[7] \in Bits /\ p[8] \in Bits
  BY DEF Bits
<1>2. BitsAre(SumOf(p[1], p[2], p[3], p[4], p[5], p[6], p[7], p[8]),
             p[1], p[2], p[3], p[4], p[5], p[6], p[7], p[8])
  BY <1>1, SumBits, Zenon
<1> QED
  BY <1>2, Zenon DEF BitsOfSum, BitSum

LEMMA XorSum ==
  ASSUME NEW p \in [1..8 -> {0, 1}], NEW q \in [1..8 -> {0, 1}], NEW r \in [1..8 -> {0, 1}],
         \A k \in 1..8 : r[k] = (p[k] + q[k]) % 2
  PROVE  Keys!Xor(BitSum(p), BitSum(q)) = BitSum(r)
<1>1. /\ r[1] = (p[1] + q[1]) % 2 /\ r[2] = (p[2] + q[2]) % 2 /\ r[3] = (p[3] + q[3]) % 2
      /\ r[4] = (p[4] + q[4]) % 2 /\ r[5] = (p[5] + q[5]) % 2 /\ r[6] = (p[6] + q[6]) % 2
      /\ r[7] = (p[7] + q[7]) % 2 /\ r[8] = (p[8] + q[8]) % 2
  OBVIOUS
<1>2. BitsOfSum(p) /\ BitsOfSum(q)
  BY SumOfBits
<1>3. BitSum(p) \in 0..255 /\ BitSum(q) \in 0..255
  BY <1>2, Zenon DEF BitsOfSum, BitsAre
<1>4. Keys!Xor(BitSum(p), BitSum(q)) = XorBits(BitSum(p), BitSum(q))
  BY <1>3, XorIs
<1>5. XorBits(BitSum(p), BitSum(q)) =
        SumOf((p[1] + q[1]) % 2, (p[2] + q[2]) % 2, (p[3] + q[3]) % 2, (p[4] + q[4]) % 2,
              (p[5] + q[5]) % 2, (p[6] + q[6]) % 2, (p[7] + q[7]) % 2, (p[8] + q[8]) % 2)
  BY <1>2, Zenon DEF BitsOfSum, BitsAre, XorBits
<1>6. BitSum(r) = SumOf((p[1] + q[1]) % 2, (p[2] + q[2]) % 2, (p[3] + q[3]) % 2, (p[4] + q[4]) % 2,
              (p[5] + q[5]) % 2, (p[6] + q[6]) % 2, (p[7] + q[7]) % 2, (p[8] + q[8]) % 2)
  BY <1>1, Zenon DEF BitSum
<1> QED
  BY <1>4, <1>5, <1>6, Zenon

LEMMA BitSums == ASSUME NEW a \in 0..255 PROVE \E p \in [1..8 -> {0, 1}] : a = BitSum(p)
<1> DEFINE p == [k \in 1..8 |-> CASE k = 1 -> Bit(a, 1) [] k = 2 -> Bit(a, 2) [] k = 3 -> Bit(a, 4)
                                [] k = 4 -> Bit(a, 8) [] k = 5 -> Bit(a, 16) [] k = 6 -> Bit(a, 32)
                                [] k = 7 -> Bit(a, 64) [] k = 8 -> Bit(a, 128)]
<1>1. /\ Bit(a, 1) \in {0, 1} /\ Bit(a, 2) \in {0, 1} /\ Bit(a, 4) \in {0, 1} /\ Bit(a, 8) \in {0, 1}
      /\ Bit(a, 16) \in {0, 1} /\ Bit(a, 32) \in {0, 1} /\ Bit(a, 64) \in {0, 1} /\ Bit(a, 128) \in {0, 1}
  BY DEF Bit
<1>2. /\ p[1] = Bit(a, 1) /\ p[2] = Bit(a, 2) /\ p[3] = Bit(a, 4) /\ p[4] = Bit(a, 8)
      /\ p[5] = Bit(a, 16) /\ p[6] = Bit(a, 32) /\ p[7] = Bit(a, 64) /\ p[8] = Bit(a, 128)
  OBVIOUS
<1>3. p = [k \in 1..8 |-> p[k]]
  BY SMT
<1> HIDE DEF p
<1>4. \A k \in 1..8 : p[k] \in {0, 1}
  <2>1. \A k \in 1..8 : k = 1 \/ k = 2 \/ k = 3 \/ k = 4 \/ k = 5 \/ k = 6 \/ k = 7 \/ k = 8
    OBVIOUS
  <2> QED
    BY <1>1, <1>2, <2>1, SMT
<1>5. p \in [1..8 -> {0, 1}]
  BY <1>3, <1>4, Zenon
<1>6. a = BitSum(p)
  BY <1>2, BitsOf, Zenon DEF BitSum
<1> QED
  BY <1>5, <1>6, Zenon

LEMMA XorUndoes == ASSUME NEW a \in 0..255, NEW b \in 0..255 PROVE XorUndone(a, b)
<1>1. PICK p \in [1..8 -> {0, 1}] : a = BitSum(p)
  BY BitSums
<1>2. PICK q \in [1..8 -> {0, 1}] : b = BitSum(q)
  BY BitSums
<1> DEFINE r == [k \in 1..8 |-> (p[k] + q[k]) % 2]
           z == [k \in 1..8 |-> 0]
<1>3. r \in [1..8 -> {0, 1}] /\ z \in [1..8 -> {0, 1}]
  OBVIOUS
<1>4. \A k \in 1..8 : r[k] = (p[k] + q[k]) % 2 /\ q[k] = (r[k] + p[k]) % 2 /\ z[k] = 0
  OBVIOUS
<1> HIDE DEF r, z
<1>5. BitSum(z) = 0
  BY <1>3, <1>4 DEF BitSum, SumOf
<1>6. BitSum(r) \in 0..255
  <2>1. BitsOfSum(r)
    BY <1>3, SumOfBits
  <2> QED
    BY <2>1, Zenon DEF BitsOfSum, BitsAre
<1>7. Keys!Xor(BitSum(p), BitSum(q)) = BitSum(r)
  BY <1>3, <1>4, XorSum
<1>8. Keys!Xor(BitSum(r), BitSum(p)) = BitSum(q)
  BY <1>3, <1>4, XorSum
<1>9. Keys!Xor(BitSum(p), BitSum(z)) = BitSum(p) /\ Keys!Xor(BitSum(z), BitSum(p)) = BitSum(p)
  <2>1. \A k \in 1..8 : p[k] = (p[k] + z[k]) % 2 /\ p[k] = (z[k] + p[k]) % 2
    BY <1>4
  <2> QED
    BY <1>3, <2>1, XorSum
<1> QED
  BY <1>1, <1>2, <1>5, <1>6, <1>7, <1>8, <1>9, Zenon DEF XorUndone

-----------------------------------------------------------------------------
\* The bytes of a shifted and of a truncated index are those of the index.
LEMMA Shifted ==
  ASSUME NEW B \in ByteMods, NEW x \in Nat
  PROVE  /\ (x * (B * B)) \div ((B * B) * (B * B)) = x \div (B * B)
         /\ (x * (B * B)) \div (B * B) = x
         /\ ((x * (B * B)) \div B) % B = 0 /\ (x * (B * B)) % B = 0
         /\ (x \div (B * B)) \div (B * B) = x \div ((B * B) * (B * B))
BY DEF ByteMods

LEMMA Truncated ==
  ASSUME NEW B \in ByteMods, NEW x \in Nat, NEW y, y = x % ((B * B) * (B * B))
  PROVE  /\ ((y \div (B * B)) \div B) % B = ((x \div (B * B)) \div B) % B
         /\ (y \div (B * B)) % B = (x \div (B * B)) % B
         /\ (y \div B) % B = (x \div B) % B /\ y % B = x % B
<1>1. CASE B = 4
  BY <1>1
<1>2. CASE B = 8
  BY <1>2
<1>3. CASE B = 16
  BY <1>3
<1>4. CASE B = 32
  BY <1>4
<1>5. CASE B = 64
  BY <1>5
<1>6. CASE B = 128
  BY <1>6
<1>7. CASE B = 256
  BY <1>7
<1> QED
  BY <1>1, <1>2, <1>3, <1>4, <1>5, <1>6, <1>7, Zenon DEF ByteMods

\* The index is put together again from its halves.
LEMMA Recombined ==
  ASSUME NEW B \in ByteMods, NEW x \in Nat
  PROVE  ((x \div (B * B)) * (B * B)) + (x % (B * B)) = x
<1>1. CASE B = 4
  BY <1>1
<1>2. CASE B = 8
  BY <1>2
<1>3. CASE B = 16
  BY <1>3
<1>4. CASE B = 32
  BY <1>4
<1>5. CASE B = 64
  BY <1>5
<1>6. CASE B = 128
  BY <1>6
<1>7. CASE B = 256
  BY <1>7
<1> QED
  BY <1>1, <1>2, <1>3, <1>4, <1>5, <1>6, <1>7, Zenon DEF ByteMods

-----------------------------------------------------------------------------
\* u is v, of n numbers, and then w, of m.
Behind(u, v, w, n, m) ==
  /\ u \in Seq(Int) /\ Len(u) = n + m
  /\ \A k \in 1..n : u[k] = v[k]
  /\ \A k \in 1..m : u[n + k] = w[k]

LEMMA Following ==
  ASSUME NEW v \in Seq(Int), NEW w \in Seq(Int), NEW n \in Nat, NEW m \in Nat, Len(v) = n, Len(w) = m
  PROVE  Behind(v \o w, v, w, n, m)
BY DEF Behind

LEMMA ZeroBytes ==
  ASSUME NEW n \in Nat
  PROVE  Keys!Zeros(n) \in Seq(Int) /\ Len(Keys!Zeros(n)) = n /\ \A k \in 1..n : Keys!Zeros(n)[k] = 0
BY DEF Keys!Zeros

ByteModIs == ByteMod \in ByteMods

LEMMA WordIs ==
  ASSUME ByteModIs, NEW k \in Nat
  PROVE  /\ Keys!Word(k) \in Seq(Int) /\ Len(Keys!Word(k)) = 2
         /\ Keys!Word(k)[1] = (k \div ByteMod) % ByteMod /\ Keys!Word(k)[2] = k % ByteMod
<1>1. (k \div ByteMod) % ByteMod \in Int /\ k % ByteMod \in Int
  BY DEF ByteModIs, ByteMods
<1> QED
  BY <1>1 DEF Keys!Word

\* The four bytes of k.
LongSays(v, k) ==
  /\ v \in Seq(Int) /\ Len(v) = 4
  /\ v[1] = ((k \div Keys!Turn) \div ByteMod) % ByteMod /\ v[2] = (k \div Keys!Turn) % ByteMod
  /\ v[3] = (k \div ByteMod) % ByteMod /\ v[4] = k % ByteMod

LEMMA LongIs == ASSUME ByteModIs, NEW k \in Nat PROVE LongSays(Keys!Long(k), k)
<1> DEFINE h == k \div Keys!Turn
<1>1. h \in Nat
  BY DEF ByteModIs, ByteMods, Keys!Turn
<1> HIDE DEF h
<1> DEFINE v == Keys!Word(h)
           w == Keys!Word(k)
<1>2. v \in Seq(Int) /\ Len(v) = 2 /\ v[1] = (h \div ByteMod) % ByteMod /\ v[2] = h % ByteMod
  BY <1>1, WordIs
<1>3. w \in Seq(Int) /\ Len(w) = 2 /\ w[1] = (k \div ByteMod) % ByteMod /\ w[2] = k % ByteMod
  BY WordIs
<1> DEFINE x == v \o w
<1> HIDE DEF v, w
<1>4. Behind(x, v, w, 2, 2)
  BY <1>2, <1>3, Following
<1> HIDE DEF x
<1>5. x \in Seq(Int) /\ Len(x) = 4 /\ x[1] = v[1] /\ x[2] = v[2] /\ x[3] = w[1] /\ x[4] = w[2]
  BY <1>4 DEF Behind
<1>6. x = Keys!Long(k)
  BY Zenon DEF x, v, w, h, Keys!Long
<1> QED
  BY <1>2, <1>3, <1>5, <1>6, Zenon DEF LongSays, h

\* The head of a packet's nonce: four zeros and the SSRC.
PacketHead(ssrc) == Keys!Zeros(4) \o Keys!Long(ssrc)

LEMMA HeadIs == ASSUME ByteModIs, NEW ssrc \in Nat PROVE PacketHead(ssrc) \in Seq(Int) /\ Len(PacketHead(ssrc)) = 8
<1>1. Keys!Long(ssrc) \in Seq(Int) /\ Len(Keys!Long(ssrc)) = 4
  BY LongIs DEF LongSays
<1>2. Keys!Zeros(4) \in Seq(Int) /\ Len(Keys!Zeros(4)) = 4
  BY ZeroBytes
<1>3. Behind(PacketHead(ssrc), Keys!Zeros(4), Keys!Long(ssrc), 4, 4)
  BY <1>1, <1>2, Following DEF PacketHead
<1> QED
  BY <1>3 DEF Behind

\* v is the head and then the six bytes of the index, the highest first.
NamesPacket(v, ssrc, index) ==
  /\ v \in Seq(Int) /\ Len(v) >= 14
  /\ \A k \in 1..8 : v[k] = PacketHead(ssrc)[k]
  /\ v[9] = ((index \div (Keys!Turn * Keys!Turn)) \div ByteMod) % ByteMod
  /\ v[10] = (index \div (Keys!Turn * Keys!Turn)) % ByteMod
  /\ v[11] = ((index \div Keys!Turn) \div ByteMod) % ByteMod /\ v[12] = (index \div Keys!Turn) % ByteMod
  /\ v[13] = (index \div ByteMod) % ByteMod /\ v[14] = index % ByteMod

ShortName(ssrc, index, low) ==
  Keys!Zeros(4) \o Keys!Long(ssrc) \o Keys!Word(index \div (Keys!Turn * Keys!Turn)) \o Keys!Long(low)

LEMMA NamedShort ==
  ASSUME ByteModIs, NEW ssrc \in Nat, NEW index \in Nat, NEW low \in Nat,
         low = index \/ low = index % (Keys!Turn * Keys!Turn),
         NEW v, v = ShortName(ssrc, index, low)
  PROVE  NamesPacket(v, ssrc, index) /\ Len(v) = 14
<1> DEFINE t == Keys!Turn
           top == index \div (t * t)
           h == PacketHead(ssrc)
           w == Keys!Word(top)
           x == h \o w
           l == Keys!Long(low)
<1>1. top \in Nat
  BY DEF ByteModIs, ByteMods, Keys!Turn
<1>2. h \in Seq(Int) /\ Len(h) = 8
  BY HeadIs
<1> HIDE DEF h
<1> HIDE DEF top
<1>3. w \in Seq(Int) /\ Len(w) = 2 /\ w[1] = (top \div ByteMod) % ByteMod /\ w[2] = top % ByteMod
  BY <1>1, WordIs
<1> HIDE DEF w, t
<1>4. Behind(x, h, w, 8, 2)
  BY <1>2, <1>3, Following
<1> HIDE DEF x
<1>5. x \in Seq(Int) /\ Len(x) = 10
  BY <1>4 DEF Behind
<1>6. LongSays(l, low)
  BY LongIs
<1> HIDE DEF l
<1>7. l \in Seq(Int) /\ Len(l) = 4
  BY <1>6 DEF LongSays
<1>8. Behind(x \o l, x, l, 10, 4)
  BY <1>5, <1>7, Following
<1>9. v = x \o l
  BY Zenon DEF x, h, w, l, top, t, PacketHead, ShortName
<1>10. Behind(v, x, l, 10, 4)
  BY <1>8, <1>9, Zenon
<1>11. /\ ((low \div t) \div ByteMod) % ByteMod = ((index \div t) \div ByteMod) % ByteMod
       /\ (low \div t) % ByteMod = (index \div t) % ByteMod
       /\ (low \div ByteMod) % ByteMod = (index \div ByteMod) % ByteMod /\ low % ByteMod = index % ByteMod
  <2>1. CASE low = index
    BY <2>1, Zenon
  <2>2. CASE low = index % (t * t)
    BY <2>2, Truncated DEF ByteModIs, Keys!Turn, t
  <2> QED
    BY <2>1, <2>2, Zenon DEF t
<1>12. v \in Seq(Int) /\ Len(v) = 14 /\ v[11] = l[1] /\ v[12] = l[2] /\ v[13] = l[3] /\ v[14] = l[4]
       /\ \A k \in 1..10 : v[k] = x[k]
  <2>1. v[10 + 1] = l[1] /\ v[10 + 2] = l[2] /\ v[10 + 3] = l[3] /\ v[10 + 4] = l[4]
    BY <1>10 DEF Behind
  <2>2. v \in Seq(Int) /\ Len(v) = 14 /\ \A k \in 1..10 : v[k] = x[k]
    BY <1>10 DEF Behind
  <2> QED
    BY <2>1, <2>2
<1>13. x[9] = w[1] /\ x[10] = w[2] /\ \A k \in 1..8 : x[k] = h[k]
  <2>1. x[8 + 1] = w[1] /\ x[8 + 2] = w[2] /\ \A k \in 1..8 : x[k] = h[k]
    BY <1>4 DEF Behind
  <2> QED
    BY <2>1
<1>14. v[9] = w[1] /\ v[10] = w[2] /\ Len(v) >= 14 /\ \A k \in 1..8 : v[k] = h[k]
  BY <1>12, <1>13
<1>15. /\ v[11] = ((index \div t) \div ByteMod) % ByteMod /\ v[12] = (index \div t) % ByteMod
       /\ v[13] = (index \div ByteMod) % ByteMod /\ v[14] = index % ByteMod
  BY <1>6, <1>11, <1>12, Zenon DEF LongSays, t
<1>16. v[9] = (top \div ByteMod) % ByteMod /\ v[10] = top % ByteMod
  BY <1>3, <1>14, Zenon
<1>17. /\ v[9] = ((index \div (Keys!Turn * Keys!Turn)) \div ByteMod) % ByteMod
       /\ v[10] = (index \div (Keys!Turn * Keys!Turn)) % ByteMod
  BY <1>16, Zenon DEF top, t
<1>18. /\ v[11] = ((index \div Keys!Turn) \div ByteMod) % ByteMod /\ v[12] = (index \div Keys!Turn) % ByteMod
       /\ v[13] = (index \div ByteMod) % ByteMod /\ v[14] = index % ByteMod
  BY <1>15, Zenon DEF t
<1>19. \A k \in 1..8 : v[k] = PacketHead(ssrc)[k]
  BY <1>14, Zenon DEF h
<1>20. v \in Seq(Int) /\ Len(v) >= 14 /\ Len(v) = 14
  BY <1>12, <1>14, Zenon
<1> QED
  BY <1>17, <1>18, <1>19, <1>20, Zenon DEF NamesPacket

\* The nonce of the hop-by-hop cipher ends in two zeros.
LEMMA NamedIcm ==
  ASSUME ByteModIs, NEW ssrc \in Nat, NEW index \in Nat, NEW v, v = Keys!BuildRtpICMNonce(ssrc, index)
  PROVE  NamesPacket(v, ssrc, index) /\ v[15] = 0 /\ v[16] = 0
<1> DEFINE t == Keys!Turn
           y == index * t
           a == y \div (t * t)
           h == PacketHead(ssrc)
           m == Keys!Long(a)
           l == Keys!Long(y)
           q == m \o l
<1>1. y \in Nat /\ a \in Nat
  BY DEF ByteModIs, ByteMods, Keys!Turn
<1>2. /\ a = index \div t /\ y \div t = index /\ (y \div ByteMod) % ByteMod = 0 /\ y % ByteMod = 0
      /\ a \div t = index \div (t * t)
  BY Shifted, Zenon DEF ByteModIs, Keys!Turn
<1>3. v = h \o q
  BY Zenon DEF h, q, m, l, a, y, t, PacketHead, Keys!BuildRtpICMNonce, Keys!Quad
<1> HIDE DEF a, y, t
<1>4. h \in Seq(Int) /\ Len(h) = 8
  BY HeadIs
<1>5. LongSays(m, a) /\ LongSays(l, y)
  BY <1>1, LongIs
<1> HIDE DEF h, m, l
<1>6. m \in Seq(Int) /\ Len(m) = 4 /\ l \in Seq(Int) /\ Len(l) = 4
  BY <1>5, Zenon DEF LongSays
<1>7. Behind(q, m, l, 4, 4)
  BY <1>6, Following
<1> HIDE DEF q
<1>8. q \in Seq(Int) /\ Len(q) = 8 /\ (\A k \in 1..4 : q[k] = m[k]) /\ \A k \in 1..4 : q[4 + k] = l[k]
  BY <1>7 DEF Behind
<1>9. Behind(h \o q, h, q, 8, 8)
  BY <1>4, <1>8, Following
<1>10. Behind(v, h, q, 8, 8)
  BY <1>3, <1>9, Zenon
<1>11. v \in Seq(Int) /\ Len(v) >= 14 /\ (\A k \in 1..8 : v[k] = h[k]) /\ \A k \in 1..8 : v[8 + k] = q[k]
  BY <1>10 DEF Behind
<1>12. /\ v[9] = m[1] /\ v[10] = m[2] /\ v[11] = m[3] /\ v[12] = m[4]
       /\ v[13] = l[1] /\ v[14] = l[2] /\ v[15] = l[3] /\ v[16] = l[4]
  <2>1. /\ v[8 + 1] = q[1] /\ v[8 + 2] = q[2] /\ v[8 + 3] = q[3] /\ v[8 + 4] = q[4]
        /\ v[8 + 5] = q[5] /\ v[8 + 6] = q[6] /\ v[8 + 7] = q[7] /\ v[8 + 8] = q[8]
    BY <1>11
  <2>2. /\ q[1] = m[1] /\ q[2] = m[2] /\ q[3] = m[3] /\ q[4] = m[4]
        /\ q[4 + 1] = l[1] /\ q[4 + 2] = l[2] /\ q[4 + 3] = l[3] /\ q[4 + 4] = l[4]
    BY <1>8
  <2> QED
    BY <2>1, <2>2
<1>13. /\ m[1] = ((a \div t) \div ByteMod) % ByteMod /\ m[2] = (a \div t) % ByteMod
       /\ m[3] = (a \div ByteMod) % ByteMod /\ m[4] = a % ByteMod
       /\ l[1] = ((y \div t) \div ByteMod) % ByteMod /\ l[2] = (y \div t) % ByteMod
       /\ l[3] = (y \div ByteMod) % ByteMod /\ l[4] = y % ByteMod
  BY <1>5, Zenon DEF LongSays, t
<1>14. /\ v[9] = ((index \div (t * t)) \div ByteMod) % ByteMod /\ v[10] = (index \div (t * t)) % ByteMod
       /\ v[11] = ((index \div t) \div ByteMod) % ByteMod /\ v[12] = (index \div t) % ByteMod
       /\ v[13] = (index \div ByteMod) % ByteMod /\ v[14] = index % ByteMod
       /\ v[15] = 0 /\ v[16] = 0
  BY <1>2, <1>12, <1>13, Zenon
<1>15. v[15] = 0 /\ v[16] = 0
  BY <1>14, Zenon
<1>16. NamesPacket(v, ssrc, index)
  BY <1>11, <1>14, Zenon DEF NamesPacket, t, h
<1> QED
  BY <1>15, <1>16, Zenon

\* So does that of the end-to-end cipher.
E2eNonce(ssrc, index) == ShortName(ssrc, index, index % (Keys!Turn * Keys!Turn)) \o Keys!Zeros(2)

LEMMA NamedE2e ==
  ASSUME ByteModIs, NEW ssrc \in Nat, NEW index \in Nat, NEW v, v = E2eNonce(ssrc, index)
  PROVE  NamesPacket(v, ssrc, index) /\ v[15] = 0 /\ v[16] = 0
<1> DEFINE low == index % (Keys!Turn * Keys!Turn)
           n == ShortName(ssrc, index, low)
           z == Keys!Zeros(2)
<1>1. low \in Nat
  BY DEF ByteModIs, ByteMods, Keys!Turn
<1>2. v = n \o z
  BY Zenon DEF E2eNonce
<1>3. NamesPacket(n, ssrc, index) /\ Len(n) = 14
  <2>1. low = index % (Keys!Turn * Keys!Turn)
    OBVIOUS
  <2> HIDE DEF low
  <2> QED
    BY <1>1, <2>1, NamedShort
<1> HIDE DEF n, low
<1>4. z \in Seq(Int) /\ Len(z) = 2 /\ \A k \in 1..2 : z[k] = 0
  BY ZeroBytes
<1> HIDE DEF z
<1>5. n \in Seq(Int) /\ Len(n) = 14
  BY <1>3, Zenon DEF NamesPacket
<1>6. Behind(n \o z, n, z, 14, 2)
  BY <1>4, <1>5, Following
<1>7. Behind(v, n, z, 14, 2)
  BY <1>2, <1>6, Zenon
<1>8. Behind(v, n, z, 14, 2) => /\ v \in Seq(Int) /\ Len(v) >= 14 /\ v[14 + 1] = z[1] /\ v[14 + 2] = z[2]
                               /\ \A k \in 1..14 : v[k] = n[k]
  BY DEF Behind
<1>9. v \in Seq(Int) /\ Len(v) >= 14 /\ v[15] = 0 /\ v[16] = 0 /\ \A k \in 1..14 : v[k] = n[k]
  BY <1>4, <1>7, <1>8
<1>10. /\ (\A k \in 1..8 : v[k] = n[k]) /\ v[9] = n[9] /\ v[10] = n[10] /\ v[11] = n[11] /\ v[12] = n[12]
       /\ v[13] = n[13] /\ v[14] = n[14]
  BY <1>9
<1>11. NamesPacket(v, ssrc, index)
  BY <1>3, <1>9, <1>10, Zenon DEF NamesPacket
<1> QED
  BY <1>9, <1>11, Zenon

\* The bytes that name a packet are bytes, and name no other one.
LEMMA NameFixed ==
  ASSUME NEW ssrc, NEW index, NEW v, NEW w, NamesPacket(v, ssrc, index), NamesPacket(w, ssrc, index)
  PROVE  \A k \in 1..14 : v[k] = w[k]
<1>1. \A k \in 1..14 : k \in 1..8 \/ k = 9 \/ k = 10 \/ k = 11 \/ k = 12 \/ k = 13 \/ k = 14
  OBVIOUS
<1>2. /\ (\A k \in 1..8 : v[k] = w[k]) /\ v[9] = w[9] /\ v[10] = w[10] /\ v[11] = w[11] /\ v[12] = w[12]
      /\ v[13] = w[13] /\ v[14] = w[14]
  BY Zenon DEF NamesPacket
<1> QED
  BY <1>1, <1>2, Zenon

LEMMA NameBytes ==
  ASSUME ByteModIs, NEW ssrc \in Nat, NEW index \in Nat, NEW v, NamesPacket(v, ssrc, index)
  PROVE  \A k \in 1..14 : v[k] \in 0..(ByteMod - 1)
<1>1. \A n \in Int : n % ByteMod \in 0..(ByteMod - 1)
  BY DEF ByteModIs, ByteMods
<1>2. Keys!Zeros(4) \in Seq(Int) /\ Len(Keys!Zeros(4)) = 4 /\ \A k \in 1..4 : Keys!Zeros(4)[k] = 0
  BY ZeroBytes
<1> DEFINE z == Keys!Zeros(4)
           l == Keys!Long(ssrc)
           h == PacketHead(ssrc)
<1>3. LongSays(l, ssrc)
  BY LongIs
<1>4. l \in Seq(Int) /\ Len(l) = 4
  BY <1>3, Zenon DEF LongSays
<1>5. \A k \in 1..4 : l[k] \in 0..(ByteMod - 1)
  <2>1. ((ssrc \div Keys!Turn) \div ByteMod) \in Int /\ ssrc \div Keys!Turn \in Int /\ ssrc \div ByteMod \in Int
    BY DEF ByteModIs, ByteMods, Keys!Turn
  <2> DEFINE a == (ssrc \div Keys!Turn) \div ByteMod
             b == ssrc \div Keys!Turn
             c == ssrc \div ByteMod
  <2>2. l[1] = a % ByteMod /\ l[2] = b % ByteMod /\ l[3] = c % ByteMod /\ l[4] = ssrc % ByteMod
    BY <1>3, Zenon DEF LongSays
  <2>4. a \in Int /\ b \in Int /\ c \in Int /\ ssrc \in Int
    BY <2>1
  <2> HIDE DEF a, b, c
  <2>3. l[1] \in 0..(ByteMod - 1) /\ l[2] \in 0..(ByteMod - 1) /\ l[3] \in 0..(ByteMod - 1) /\ l[4] \in 0..(ByteMod - 1)
    BY <1>1, <2>2, <2>4, Zenon
  <2>5. \A k \in 1..4 : k = 1 \/ k = 2 \/ k = 3 \/ k = 4
    OBVIOUS
  <2> QED
    BY <2>3, <2>5, Zenon
<1>6. Behind(h, z, l, 4, 4)
  <2> HIDE DEF z, l
  <2>1. Behind(z \o l, z, l, 4, 4)
    BY <1>2, <1>4, Following DEF z
  <2> QED
    BY <2>1, Zenon DEF h, z, l, PacketHead
<1> HIDE DEF h, l
<1>7. \A k \in 1..8 : h[k] \in 0..(ByteMod - 1)
  <2>0. 0 \in 0..(ByteMod - 1)
    BY DEF ByteModIs, ByteMods
  <2>1. (\A k \in 1..4 : h[k] = z[k]) /\ \A k \in 1..4 : h[4 + k] = l[k]
    BY <1>6, Zenon DEF Behind
  <2> HIDE DEF z
  <2>2. \A k \in 1..8 : k \in 1..4 \/ (k - 4 \in 1..4 /\ 4 + (k - 4) = k)
    OBVIOUS
  <2>3. \A k \in 1..4 : h[k] = 0
    BY <1>2, <2>1, Zenon DEF z
  <2>4. \A k \in 1..4 : h[4 + k] \in 0..(ByteMod - 1)
    BY <1>5, <2>1, Zenon
  <2> QED
    BY <2>0, <2>2, <2>3, <2>4, Zenon
<1>8. \A k \in 1..8 : v[k] \in 0..(ByteMod - 1)
  BY <1>7, Zenon DEF NamesPacket, h
<1> DEFINE p == (index \div (Keys!Turn * Keys!Turn)) \div ByteMod
           q == index \div (Keys!Turn * Keys!Turn)
           r == (index \div Keys!Turn) \div ByteMod
           s == index \div Keys!Turn
           u == index \div ByteMod
<1>9. p \in Int /\ q \in Int /\ r \in Int /\ s \in Int /\ u \in Int /\ index \in Int
  BY DEF ByteModIs, ByteMods, Keys!Turn
<1>10. /\ v[9] = p % ByteMod /\ v[10] = q % ByteMod /\ v[11] = r % ByteMod /\ v[12] = s % ByteMod
       /\ v[13] = u % ByteMod /\ v[14] = index % ByteMod
  BY Zenon DEF NamesPacket
<1> HIDE DEF p, q, r, s, u
<1>11. /\ v[9] \in 0..(ByteMod - 1) /\ v[10] \in 0..(ByteMod - 1) /\ v[11] \in 0..(ByteMod - 1)
       /\ v[12] \in 0..(ByteMod - 1) /\ v[13] \in 0..(ByteMod - 1) /\ v[14] \in 0..(ByteMod - 1)
  BY <1>1, <1>9, <1>10, Zenon
<1>12. \A k \in 1..14 : k \in 1..8 \/ k = 9 \/ k = 10 \/ k = 11 \/ k = 12 \/ k = 13 \/ k = 14
  OBVIOUS
<1> QED
  BY <1>8, <1>11, <1>12, Zenon

-----------------------------------------------------------------------------
\* v names the session key of a label.
NamesLabel(v, label) == v \in Seq(Int) /\ Len(v) >= 14 /\ \A k \in 1..14 : v[k] = IF k = 8 THEN label ELSE 0

LEMMA OneMore ==
  ASSUME NEW v \in Seq(Int), NEW n \in Nat, Len(v) = n, NEW a \in Int
  PROVE  Behind(v \o <<a>>, v, <<a>>, n, 1)
<1>1. <<a>> \in Seq(Int) /\ Len(<<a>>) = 1
  OBVIOUS
<1> QED
  BY <1>1, Following

ForLabel(label, n) == Keys!Zeros(7) \o <<label>> \o Keys!Zeros(n)

LEMMA NamedLabel ==
  ASSUME NEW label \in Nat, NEW n \in Nat, n >= 6, NEW v, v = ForLabel(label, n)
  PROVE  NamesLabel(v, label) /\ Len(v) = 8 + n /\ \A k \in 9..(8 + n) : v[k] = 0
<1> DEFINE z == Keys!Zeros(7)
           e == Keys!Zeros(n)
           x == z \o <<label>>
           y == x \o e
<1>0. v = y
  BY Zenon DEF ForLabel
<1>1. z \in Seq(Int) /\ Len(z) = 7 /\ \A k \in 1..7 : z[k] = 0
  BY ZeroBytes
<1>2. e \in Seq(Int) /\ Len(e) = n /\ \A k \in 1..n : e[k] = 0
  BY ZeroBytes
<1> HIDE DEF z, e
<1> DEFINE o == <<label>>
<1>3. x \in Seq(Int) /\ Len(x) = 8 /\ x[8] = label /\ \A k \in 1..7 : x[k] = 0
  <2>1. Behind(x, z, o, 7, 1)
    <3>1. label \in Int
      OBVIOUS
    <3> HIDE DEF o
    <3>2. Behind(z \o o, z, o, 7, 1)
      BY <1>1, <3>1, OneMore, Zenon DEF o
    <3> QED
      BY <3>2, Zenon DEF o
  <2>2. o[1] = label
    OBVIOUS
  <2> HIDE DEF x, o
  <2>3. x \in Seq(Int) /\ Len(x) = 8 /\ (\A k \in 1..7 : x[k] = z[k]) /\ x[7 + 1] = o[1]
    BY <2>1 DEF Behind
  <2> QED
    BY <1>1, <2>2, <2>3
<1> HIDE DEF x
<1>4. y \in Seq(Int) /\ Len(y) = 8 + n /\ (\A k \in 1..8 : y[k] = x[k]) /\ \A k \in 1..n : y[8 + k] = e[k]
  <2>1. Behind(y, x, e, 8, n)
    BY <1>2, <1>3, Following
  <2> HIDE DEF y
  <2> QED
    BY <2>1, Zenon DEF Behind
<1> HIDE DEF y
<1>5. \A k \in 9..(8 + n) : y[k] = 0
  <2>1. \A k \in 9..(8 + n) : k - 8 \in 1..n /\ 8 + (k - 8) = k
    OBVIOUS
  <2> QED
    BY <1>2, <1>4, <2>1, Zenon
<1>6. \A k \in 1..14 : y[k] = IF k = 8 THEN label ELSE 0
  <2>1. \A k \in 1..14 : k \in 1..7 \/ k = 8 \/ k \in 9..(8 + n)
    OBVIOUS
  <2>2. \A k \in 1..7 : k \in 1..8 /\ k # 8
    OBVIOUS
  <2>3. \A k \in 9..(8 + n) : k # 8
    OBVIOUS
  <2>4. \A k \in 1..7 : y[k] = 0
    BY <1>3, <1>4, <2>2, Zenon
  <2>5. y[8] = label
    BY <1>3, <1>4
  <2> QED
    BY <1>5, <2>1, <2>2, <2>3, <2>4, <2>5, SMT
<1>7. NamesLabel(y, label) /\ Len(y) = 8 + n
  BY <1>4, <1>6 DEF NamesLabel
<1> QED
  BY <1>0, <1>5, <1>7, Zenon

Salted == salt \in [1..14 -> 0..(ByteMod - 1)]
Padded == salt \o Keys!Zeros(2)

PaddedSays ==
  /\ Padded \in Seq(Int) /\ Len(Padded) = 16 /\ Padded[15] = 0 /\ Padded[16] = 0
  /\ \A k \in 1..14 : Padded[k] = salt[k]

LEMMA ByteOf ==
  ASSUME ByteModIs, NEW x \in 0..(ByteMod - 1)
  PROVE  x \in 0..255 /\ x \in Int
BY DEF ByteModIs, ByteMods

LEMMA FunctionIsSeq ==
  ASSUME NEW S, NEW n \in Nat, NEW f \in [1..n -> S]
  PROVE  f \in Seq(S) /\ Len(f) = n
OBVIOUS

LEMMA SeqIsFunction == ASSUME NEW S, NEW n \in Nat, NEW t \in Seq(S), Len(t) = n PROVE t \in [1..n -> S]
OBVIOUS

LEMMA SaltBytes ==
  ASSUME ByteModIs, Salted
  PROVE  salt \in Seq(Int) /\ Len(salt) = 14 /\ \A k \in 1..14 : salt[k] \in 0..255
<1>1. \A x \in 0..(ByteMod - 1) : x \in 0..255 /\ x \in Int
  BY ByteOf
<1>2. \A k \in 1..14 : salt[k] \in 0..(ByteMod - 1)
  BY DEF Salted
<1>3. salt \in [1..14 -> Int]
  BY <1>1 DEF Salted
<1>4. 14 \in Nat
  OBVIOUS
<1>5. salt \in Seq(Int) /\ Len(salt) = 14
  BY <1>3, <1>4, FunctionIsSeq, ZenonT(40)
<1>6. \A k \in 1..14 : salt[k] \in 0..255
  BY <1>1, <1>2
<1> QED
  BY <1>5, <1>6, Zenon

LEMMA PaddedIs == ASSUME ByteModIs, Salted PROVE PaddedSays
<1> DEFINE z == Keys!Zeros(2)
<1>1. z \in Seq(Int) /\ Len(z) = 2 /\ \A k \in 1..2 : z[k] = 0
  BY ZeroBytes
<1> HIDE DEF z
<1>2. salt \in Seq(Int) /\ Len(salt) = 14
  BY SaltBytes
<1>3. Behind(salt \o z, salt, z, 14, 2)
  BY <1>1, <1>2, Following
<1> DEFINE p == salt \o z
<1> HIDE DEF p
<1>4. Behind(p, salt, z, 14, 2)
  BY <1>3, Zenon DEF p
<1>5. p \in Seq(Int) /\ Len(p) = 16 /\ p[14 + 1] = z[1] /\ p[14 + 2] = z[2] /\ \A k \in 1..14 : p[k] = salt[k]
  BY <1>4 DEF Behind
<1>6. p[15] = 0 /\ p[16] = 0
  BY <1>1, <1>5
<1>7. p = Padded
  BY Zenon DEF p, z, Padded
<1> QED
  BY <1>5, <1>6, <1>7, Zenon DEF PaddedSays

\* c is the counter of the first block for the purpose p.
FirstFor(c, p) ==
  /\ c \in [1..16 -> Int] /\ c[15] = 0 /\ c[16] = 0
  /\ \A k \in 1..14 : c[k] = Keys!Xor(salt[k], p[k])

LEMMA MaskFirst ==
  ASSUME ByteModIs, Salted, NEW n, NEW p, \A k \in 1..14 : n[k] = p[k] /\ p[k] \in 0..(ByteMod - 1),
         n[15] = 0, n[16] = 0
  PROVE  FirstFor(Keys!Masked(Padded, n), p)
<1> DEFINE c == Keys!Masked(Padded, n)
<1>1. PaddedSays
  BY PaddedIs
<1>2. c = [k \in 1..16 |-> Keys!Xor(Padded[k], n[k])]
  BY <1>1, Zenon DEF Keys!Masked, PaddedSays
<1> HIDE DEF c
<1>3. \A k \in 1..14 : c[k] = Keys!Xor(salt[k], p[k])
  <2>1. \A k \in 1..14 : k \in 1..16
    OBVIOUS
  <2> QED
    BY <1>1, <1>2, <2>1, Zenon DEF PaddedSays
<1>4. Keys!Xor(0, 0) = 0
  <2>1. XorUndone(0, 0)
    <3>1. 0 \in 0..255
      OBVIOUS
    <3> QED
      BY <3>1, XorUndoes
  <2> QED
    BY <2>1, Zenon DEF XorUndone
<1>5. c[15] = 0 /\ c[16] = 0
  <2>1. 15 \in 1..16 /\ 16 \in 1..16
    OBVIOUS
  <2> QED
    BY <1>1, <1>2, <1>4, <2>1, Zenon DEF PaddedSays
<1>6. \A k \in 1..14 : Keys!Xor(salt[k], p[k]) \in Int
  <2> TAKE k \in 1..14
  <2>1. salt[k] \in 0..255 /\ p[k] \in 0..255
    BY SaltBytes, ByteOf, ZenonT(40)
  <2>2. XorUndone(salt[k], p[k])
    BY <2>1, XorUndoes, ZenonT(40)
  <2> QED
    BY <2>2 DEF XorUndone
<1>7. \A k \in 1..16 : k \in 1..14 \/ k = 15 \/ k = 16
  OBVIOUS
<1>8. \A k \in 1..16 : c[k] \in Int
  BY <1>3, <1>5, <1>6, <1>7
<1>9. c \in [1..16 -> Int]
  BY <1>2, <1>8
<1> QED
  BY <1>3, <1>5, <1>9, Zenon DEF FirstFor, c

LEMMA LabelFirst ==
  ASSUME ByteModIs, Salted, NEW label \in 0..2, NEW p, NamesLabel(p, label)
  PROVE  FirstFor(Keys!KdfIV(label), p)
<1> DEFINE c == Keys!KdfIV(label)
<1>1. PaddedSays
  BY PaddedIs
<1>2. c = [Padded EXCEPT ![8] = Keys!Xor(Padded[8], label)]
  BY Zenon DEF Keys!KdfIV, Padded
<1> DEFINE x == Keys!Xor(Padded[8], label)
<1>3. Padded[8] = salt[8] /\ salt[8] \in 0..255 /\ label \in 0..255
  <2>1. label \in 0..255 /\ 8 \in 1..14
    OBVIOUS
  <2>2. salt[8] \in 0..255
    BY <2>1, SaltBytes
  <2>3. Padded[8] = salt[8]
    BY <1>1, <2>1, Zenon DEF PaddedSays
  <2> QED
    BY <2>1, <2>2, <2>3, Zenon
<1>4. XorUndone(salt[8], label)
  BY <1>3, XorUndoes
<1>5. x \in Int /\ x = Keys!Xor(salt[8], label)
  <2>1. Keys!Xor(salt[8], label) \in Int
    BY <1>4 DEF XorUndone
  <2> QED
    BY <1>3, <2>1, Zenon
<1> HIDE DEF c, x
<1>6. c = [Padded EXCEPT ![8] = x]
  BY <1>2, Zenon DEF x
<1>7. Padded \in Seq(Int) /\ Len(Padded) = 16 /\ DOMAIN Padded = 1..16
  BY <1>1 DEF PaddedSays
<1> DEFINE q == Padded
<1>8. q \in [1..16 -> Int]
  <2>1. 16 \in Nat
    OBVIOUS
  <2> QED
    BY <1>7, <2>1, SeqIsFunction, Zenon
<1>9. c = [q EXCEPT ![8] = x]
  BY <1>6, Zenon
<1> HIDE DEF q
<1>10. c \in [1..16 -> Int] /\ c[8] = x /\ \A k \in 1..16 : k # 8 => c[k] = q[k]
  BY <1>5, <1>8, <1>9
<1>11. ASSUME NEW k \in 1..14 PROVE c[k] = Keys!Xor(salt[k], p[k])
  <2>1. CASE k = 8
    BY <2>1, <1>5, <1>10, Zenon DEF NamesLabel
  <2>2. CASE k # 8
    <3>0. k \in 1..16
      OBVIOUS
    <3>1. k \in 1..16 /\ p[k] = 0
      <4>1. \A l \in 1..14 : p[l] = IF l = 8 THEN label ELSE 0
        BY Zenon DEF NamesLabel
      <4> QED
        BY <3>0, <4>1, <2>2
    <3>2. c[k] = salt[k]
      BY <3>1, <2>2, <1>1, <1>10, Zenon DEF PaddedSays, q
    <3>3. salt[k] \in 0..255 /\ 0 \in 0..255
      <4>1. 0 \in 0..255
        OBVIOUS
      <4> QED
        BY <4>1, SaltBytes, Zenon
    <3>4. XorUndone(salt[k], 0)
      BY <3>3, XorUndoes, ZenonT(40)
    <3> QED
      BY <3>1, <3>2, <3>4, Zenon DEF XorUndone
  <2> QED
    BY <2>1, <2>2, Zenon
<1>12. c[15] = 0 /\ c[16] = 0
  <2>1. 15 \in 1..16 /\ 16 \in 1..16 /\ 15 # 8 /\ 16 # 8
    OBVIOUS
  <2> QED
    BY <1>1, <1>10, <2>1, Zenon DEF PaddedSays, q
<1> QED
  BY <1>10, <1>11, <1>12, Zenon DEF FirstFor, c

-----------------------------------------------------------------------------
\* The fourteen bytes of the salt under the counter, and the two of the block.
KeyInv ==
  /\ Salted /\ block \in 0..(Keys!Turn * ByteMod - 1) /\ input.blocks \in 0..(Keys!Turn * ByteMod)
  /\ Keys!Purpose \in Seq(Int) /\ Len(Keys!Purpose) = 14
  /\ \A k \in 1..14 : Keys!Purpose[k] \in 0..(ByteMod - 1)
  /\ icm \in [1..16 -> Int] /\ icm[15] = (block \div ByteMod) % ByteMod /\ icm[16] = block % ByteMod
  /\ \A k \in 1..14 : icm[k] = Keys!Xor(salt[k], Keys!Purpose[k])
  /\ ctr \in [1..16 -> Int] /\ ctr[15] = icm[15] /\ ctr[16] = icm[16]
  /\ ctr[14] = IF block < Keys!Turn THEN icm[14] ELSE (icm[14] + block \div Keys!Turn) % ByteMod
  /\ block < Keys!Turn => ctr = icm

\* Read over the salt, the hop-by-hop counter spells the purpose and the block.
LEMMA CounterSpells == ASSUME ByteModIs, KeyInv PROVE Keys!Spells(icm)
<1> DEFINE p == Keys!Purpose
           w == Keys!Word(block)
           m == Keys!Masked(icm, Padded)
           e == p \o w
<1>1. PaddedSays
  BY PaddedIs DEF KeyInv
<1>2. block \in Nat
  BY DEF KeyInv
<1>3. w \in Seq(Int) /\ Len(w) = 2 /\ w[1] = (block \div ByteMod) % ByteMod /\ w[2] = block % ByteMod
  BY <1>2, WordIs
<1>4. p \in Seq(Int) /\ Len(p) = 14
  BY Zenon DEF KeyInv
<1> HIDE DEF p, w
<1>5. Behind(e, p, w, 14, 2)
  BY <1>3, <1>4, Following
<1> HIDE DEF e
<1>6. e \in Seq(Int) /\ Len(e) = 16 /\ e[14 + 1] = w[1] /\ e[14 + 2] = w[2] /\ \A k \in 1..14 : e[k] = p[k]
  BY <1>5 DEF Behind
<1>7. e \in [1..16 -> Int] /\ e[15] = icm[15] /\ e[16] = icm[16] /\ \A k \in 1..14 : e[k] = p[k]
  <2>1. 16 \in Nat /\ 14 + 1 = 15 /\ 14 + 2 = 16
    OBVIOUS
  <2>2. e \in [1..16 -> Int]
    BY <1>6, <2>1, SeqIsFunction, Zenon
  <2> QED
    BY <1>3, <1>6, <2>1, <2>2, Zenon DEF KeyInv
<1>8. icm \in [1..16 -> Int] /\ Len(icm) = 16
  <2>1. 16 \in Nat
    OBVIOUS
  <2>2. icm \in [1..16 -> Int]
    BY Zenon DEF KeyInv
  <2> QED
    BY <2>1, <2>2, FunctionIsSeq, ZenonT(40)
<1>9. m = [k \in 1..16 |-> Keys!Xor(icm[k], Padded[k])]
  BY <1>8, Zenon DEF Keys!Masked
<1> HIDE DEF m
<1>10. ASSUME NEW k \in 1..14 PROVE m[k] = e[k]
  <2>1. salt[k] \in 0..255 /\ p[k] \in 0..255
    <3>1. p[k] \in 0..(ByteMod - 1)
      BY Zenon DEF KeyInv, p
    <3>2. Salted
      BY DEF KeyInv
    <3>3. \A j \in 1..14 : salt[j] \in 0..255
      BY <3>2, SaltBytes
    <3> QED
      BY <3>1, <3>3, ByteOf
  <2>2. XorUndone(salt[k], p[k])
    BY <2>1, XorUndoes
  <2>3. k \in 1..16
    OBVIOUS
  <2>4. m[k] = Keys!Xor(Keys!Xor(salt[k], p[k]), salt[k])
    BY <1>1, <1>9, <2>3, Zenon DEF KeyInv, PaddedSays, p
  <2> QED
    BY <1>7, <2>2, <2>4, Zenon DEF XorUndone
<1>11. ASSUME NEW k \in 15..16 PROVE m[k] = e[k]
  <2>1. k = 15 \/ k = 16
    OBVIOUS
  <2>2. (block \div ByteMod) % ByteMod \in 0..(ByteMod - 1) /\ block % ByteMod \in 0..(ByteMod - 1)
    BY <1>2 DEF ByteModIs, ByteMods
  <2>3. icm[k] \in 0..(ByteMod - 1)
    BY <2>1, <2>2, Zenon DEF KeyInv
  <2>4. icm[k] \in 0..255
    BY <2>3, ByteOf
  <2>5. 0 \in 0..255
    OBVIOUS
  <2>6. XorUndone(icm[k], 0)
    BY <2>4, <2>5, XorUndoes, ZenonT(40)
  <2>7. k \in 1..16
    OBVIOUS
  <2>8. m[k] = Keys!Xor(icm[k], 0)
    BY <1>1, <1>9, <2>1, <2>7, Zenon DEF PaddedSays
  <2> QED
    BY <1>7, <2>1, <2>6, <2>8, Zenon DEF XorUndone
<1>12. \A k \in 1..16 : m[k] = e[k]
  <2>1. \A k \in 1..16 : k \in 1..14 \/ k \in 15..16
    OBVIOUS
  <2> QED
    BY <1>10, <1>11, <2>1, Zenon
<1>13. m = e
  BY <1>7, <1>9, <1>12
<1> QED
  BY <1>13, Zenon DEF Keys!Spells, m, e, p, w, Padded

\* The end-to-end counter has left it when a third byte counts.
LEMMA CountersSplit ==
  ASSUME ByteModIs, KeyInv
  PROVE  ctr = icm <=> block < Keys!Turn
<1>1. block < Keys!Turn => ctr = icm
  BY DEF KeyInv
<1>2. ASSUME ~(block < Keys!Turn) PROVE ctr[14] # icm[14]
  <2>1. icm[14] \in Int
    BY DEF KeyInv
  <2>2. block \in 0..(Keys!Turn * ByteMod - 1)
    BY Zenon DEF KeyInv
  <2>3. ctr[14] = (icm[14] + block \div Keys!Turn) % ByteMod
    BY <1>2, SMT DEF KeyInv
  <2>4. block \div Keys!Turn \in 1..(ByteMod - 1)
    BY <1>2, <2>2 DEF ByteModIs, ByteMods, Keys!Turn
  <2>5. \A a \in Int, q \in 1..(ByteMod - 1) : (a + q) % ByteMod # a
    BY DEF ByteModIs, ByteMods
  <2> QED
    BY <2>1, <2>3, <2>4, <2>5, Zenon
<1> QED
  BY <1>1, <1>2, Zenon

LEMMA CountersAreExact == ASSUME ByteModIs, KeyInv PROVE Keys!CountersExact
BY CounterSpells, CountersSplit, Zenon DEF Keys!CountersExact

Full(c, k) == c[k] = ByteMod - 1

LEMMA IcmStep ==
  ASSUME ByteModIs, NEW c \in [1..16 -> Int], NEW d, d = Keys!IcmNext(c)
  PROVE  /\ d \in [1..16 -> Int] /\ d[16] = (c[16] + 1) % ByteMod
         /\ d[15] = IF Full(c, 16) THEN (c[15] + 1) % ByteMod ELSE c[15]
         /\ \A k \in 1..14 : d[k] = c[k]
<1> DEFINE x == (c[16] + 1) % ByteMod
           y == IF c[16] = ByteMod - 1 THEN (c[15] + 1) % ByteMod ELSE c[15]
<1>1. x \in Int /\ y \in Int
  BY DEF ByteModIs, ByteMods
<1>2. d = [c EXCEPT ![16] = x, ![15] = y]
  BY SMT DEF Keys!IcmNext
<1> HIDE DEF x, y
<1>3. d \in [1..16 -> Int] /\ d[16] = x /\ d[15] = y /\ \A k \in 1..14 : d[k] = c[k]
  BY <1>1, <1>2
<1> QED
  BY <1>3, Zenon DEF x, y, Full

LEMMA CtrStep ==
  ASSUME ByteModIs, NEW c \in [1..16 -> Int], NEW d, d = Keys!CtrNext(c)
  PROVE  /\ d \in [1..16 -> Int] /\ d[16] = (c[16] + 1) % ByteMod
         /\ d[15] = IF Full(c, 16) THEN (c[15] + 1) % ByteMod ELSE c[15]
         /\ d[14] = IF Full(c, 15) /\ Full(c, 16) THEN (c[14] + 1) % ByteMod ELSE c[14]
         /\ ~(Full(c, 15) /\ Full(c, 16)) => \A k \in 1..14 : d[k] = c[k]
<1> DEFINE carries(k) == \A l \in (k + 1)..16 : c[l] = ByteMod - 1
<1>1. d = [k \in 1..16 |-> IF carries(k) THEN (c[k] + 1) % ByteMod ELSE c[k]]
  BY Zenon DEF Keys!CtrNext
<1>2. carries(16) /\ (carries(15) <=> Full(c, 16)) /\ (carries(14) <=> Full(c, 15) /\ Full(c, 16))
  <2>1. (16 + 1)..16 = {} /\ (15 + 1)..16 = {16} /\ (14 + 1)..16 = {15, 16}
    OBVIOUS
  <2> QED
    BY <2>1, Zenon DEF Full
<1>3. ASSUME NEW k \in 1..14, carries(k) PROVE Full(c, 15) /\ Full(c, 16)
  <2>1. 15 \in (k + 1)..16 /\ 16 \in (k + 1)..16
    OBVIOUS
  <2> QED
    BY <1>3, <2>1, Zenon DEF Full
<1> HIDE DEF carries
<1>4. \A k \in 1..16 : (c[k] + 1) % ByteMod \in Int /\ c[k] \in Int
  BY DEF ByteModIs, ByteMods
<1>5. d \in [1..16 -> Int]
  BY <1>1, <1>4
<1>6. \A k \in 1..16 : d[k] = IF carries(k) THEN (c[k] + 1) % ByteMod ELSE c[k]
  BY <1>1, Zenon
<1>7. 14 \in 1..16 /\ 15 \in 1..16 /\ 16 \in 1..16
  OBVIOUS
<1>8. d[16] = (c[16] + 1) % ByteMod
  BY <1>2, <1>6, <1>7, SMT
<1>9. d[15] = IF Full(c, 16) THEN (c[15] + 1) % ByteMod ELSE c[15]
  BY <1>2, <1>6, <1>7, SMT
<1>10. d[14] = IF Full(c, 15) /\ Full(c, 16) THEN (c[14] + 1) % ByteMod ELSE c[14]
  BY <1>2, <1>6, <1>7, SMT
<1>11. ASSUME ~(Full(c, 15) /\ Full(c, 16)), NEW k \in 1..14 PROVE d[k] = c[k]
  <2>1. ~carries(k) /\ k \in 1..16
    BY <1>3, <1>11
  <2> QED
    BY <1>6, <2>1, SMT
<1> QED
  BY <1>5, <1>8, <1>9, <1>10, <1>11, Zenon

\* The last two bytes of a counter number the next block.
LEMMA BlockBytes ==
  ASSUME ByteModIs, NEW b \in Nat, NEW x, x = (b \div ByteMod) % ByteMod, NEW y, y = b % ByteMod
  PROVE  /\ (y + 1) % ByteMod = (b + 1) % ByteMod
         /\ (IF y = ByteMod - 1 THEN (x + 1) % ByteMod ELSE x) = ((b + 1) \div ByteMod) % ByteMod
         /\ (b + 1) \div Keys!Turn =
               (b \div Keys!Turn) + (IF x = ByteMod - 1 /\ y = ByteMod - 1 THEN 1 ELSE 0)
BY SMTT(30) DEF ByteModIs, ByteMods, Keys!Turn

LEMMA TurnOf ==
  ASSUME ByteModIs, NEW b \in Nat
  PROVE  b \div Keys!Turn \in Nat /\ (b < Keys!Turn <=> b \div Keys!Turn = 0)
BY DEF ByteModIs, ByteMods, Keys!Turn

LEMMA ByteAgain ==
  ASSUME ByteModIs, NEW a \in Int, NEW q \in Nat
  PROVE  (((a + q) % ByteMod) + 1) % ByteMod = (a + (q + 1)) % ByteMod
BY DEF ByteModIs, ByteMods

LEMMA CountsStay == ASSUME ByteModIs, KeyInv, Keys!NextBlock PROVE KeyInv'
<1>1. /\ block + 1 < input.blocks /\ block' = block + 1 /\ icm' = Keys!IcmNext(icm) /\ ctr' = Keys!CtrNext(ctr)
      /\ salt' = salt /\ input' = input
  BY Zenon DEF Keys!NextBlock
<1>2. /\ icm \in [1..16 -> Int] /\ ctr \in [1..16 -> Int] /\ ctr[15] = icm[15] /\ ctr[16] = icm[16]
      /\ icm[15] = (block \div ByteMod) % ByteMod /\ icm[16] = block % ByteMod
  BY Zenon DEF KeyInv
<1>3. block \in Nat /\ block' \in 0..(Keys!Turn * ByteMod - 1)
  <2>1. block \in 0..(Keys!Turn * ByteMod - 1) /\ input.blocks \in 0..(Keys!Turn * ByteMod)
    BY Zenon DEF KeyInv
  <2>2. Keys!Turn * ByteMod \in Nat
    BY DEF ByteModIs, ByteMods, Keys!Turn
  <2> QED
    BY <1>1, <2>1, <2>2
<1>4. Keys!Purpose' = Keys!Purpose
  BY <1>1, Zenon DEF Keys!Purpose
<1>5. /\ icm' \in [1..16 -> Int] /\ icm'[16] = (icm[16] + 1) % ByteMod
      /\ icm'[15] = IF Full(icm, 16) THEN (icm[15] + 1) % ByteMod ELSE icm[15]
      /\ \A k \in 1..14 : icm'[k] = icm[k]
  BY <1>1, <1>2, IcmStep
<1>6. /\ ctr' \in [1..16 -> Int] /\ ctr'[16] = (ctr[16] + 1) % ByteMod
      /\ ctr'[15] = IF Full(ctr, 16) THEN (ctr[15] + 1) % ByteMod ELSE ctr[15]
      /\ ctr'[14] = IF Full(ctr, 15) /\ Full(ctr, 16) THEN (ctr[14] + 1) % ByteMod ELSE ctr[14]
      /\ ~(Full(ctr, 15) /\ Full(ctr, 16)) => \A k \in 1..14 : ctr'[k] = ctr[k]
  BY <1>1, <1>2, CtrStep
<1> DEFINE carry == icm[15] = ByteMod - 1 /\ icm[16] = ByteMod - 1
           q == block \div Keys!Turn
<1>7. /\ (icm[16] + 1) % ByteMod = (block + 1) % ByteMod
      /\ (IF icm[16] = ByteMod - 1 THEN (icm[15] + 1) % ByteMod ELSE icm[15]) = ((block + 1) \div ByteMod) % ByteMod
      /\ (block + 1) \div Keys!Turn = q + (IF carry THEN 1 ELSE 0)
  BY <1>2, <1>3, BlockBytes
<1>8. icm'[15] = (block' \div ByteMod) % ByteMod /\ icm'[16] = block' % ByteMod
  BY <1>1, <1>5, <1>7, Zenon DEF Full
<1>9. ctr'[15] = icm'[15] /\ ctr'[16] = icm'[16]
  <2>1. Full(ctr, 16) <=> Full(icm, 16)
    BY <1>2, Zenon DEF Full
  <2>2. CASE Full(icm, 16)
    <3>1. icm'[15] = (icm[15] + 1) % ByteMod /\ ctr'[15] = (ctr[15] + 1) % ByteMod
      BY <2>1, <2>2, <1>5, <1>6, SMT
    <3> QED
      BY <3>1, <1>2, <1>5, <1>6, Zenon
  <2>3. CASE ~Full(icm, 16)
    <3>1. icm'[15] = icm[15] /\ ctr'[15] = ctr[15]
      BY <2>1, <2>3, <1>5, <1>6, SMT
    <3> QED
      BY <3>1, <1>2, <1>5, <1>6, Zenon
  <2> QED
    BY <2>2, <2>3, Zenon
<1>10. q \in Nat /\ (block < Keys!Turn <=> q = 0) /\ (block' < Keys!Turn <=> block' \div Keys!Turn = 0)
  BY <1>1, <1>3, TurnOf
<1>11. (Full(ctr, 15) /\ Full(ctr, 16)) <=> carry
  BY <1>2, Zenon DEF Full
<1>12. icm[14] \in Int /\ icm'[14] = icm[14] /\ ctr[14] = IF block < Keys!Turn THEN icm[14] ELSE (icm[14] + q) % ByteMod
  BY <1>5 DEF KeyInv
<1> HIDE DEF q, carry
<1>13. ctr'[14] = IF block' < Keys!Turn THEN icm'[14] ELSE (icm'[14] + block' \div Keys!Turn) % ByteMod
  <2>1. CASE carry
    <3>1. block' \div Keys!Turn = q + 1 /\ ~(block' < Keys!Turn)
      BY <1>1, <1>7, <1>10, <2>1
    <3>2. ctr'[14] = (ctr[14] + 1) % ByteMod
      BY <1>6, <1>11, <2>1, SMT
    <3>3. (ctr[14] + 1) % ByteMod = (icm[14] + (q + 1)) % ByteMod
      <4>1. CASE q = 0
        <5>1. ctr[14] = icm[14]
          BY <4>1, <1>10, <1>12
        <5> QED
          BY <4>1, <5>1
      <4>2. CASE q # 0
        <5>1. ctr[14] = (icm[14] + q) % ByteMod
          BY <4>2, <1>10, <1>12
        <5>2. (((icm[14] + q) % ByteMod) + 1) % ByteMod = (icm[14] + (q + 1)) % ByteMod
          BY <1>10, <1>12, ByteAgain
        <5> QED
          BY <5>1, <5>2, Zenon
      <4> QED
        BY <4>1, <4>2, Zenon
    <3> QED
      BY <1>12, <3>1, <3>2, <3>3, SMT
  <2>2. CASE ~carry
    <3>1. block' \div Keys!Turn = q
      BY <1>1, <1>7, <1>10, <2>2
    <3>2. ctr'[14] = ctr[14]
      BY <1>6, <1>11, <2>2, SMT
    <3>3. block' < Keys!Turn <=> block < Keys!Turn
      BY <1>10, <3>1, Zenon
    <3> QED
      BY <1>12, <3>1, <3>2, <3>3, SMT
  <2> QED
    BY <2>1, <2>2, Zenon
<1>14. ASSUME block' < Keys!Turn PROVE ctr' = icm'
  <2>1. ~carry
    BY <1>1, <1>7, <1>10, <1>14
  <2>2. block' \div Keys!Turn = q
    BY <1>1, <1>7, <1>10, <2>1
  <2>3. block < Keys!Turn
    BY <1>10, <1>14, <2>2, Zenon
  <2>4. ctr = icm
    BY <2>3, Zenon DEF KeyInv
  <2>5. \A k \in 1..14 : ctr'[k] = icm'[k]
    BY <1>5, <1>6, <1>11, <2>1, <2>4, Zenon
  <2>6. \A k \in 1..16 : k \in 1..14 \/ k = 15 \/ k = 16
    OBVIOUS
  <2>7. \A k \in 1..16 : ctr'[k] = icm'[k]
    BY <1>9, <2>5, <2>6, Zenon
  <2> QED
    BY <1>5, <1>6, <2>7
<1>15. \A k \in 1..14 : icm'[k] = Keys!Xor(salt[k], Keys!Purpose[k])
  BY <1>5, Zenon DEF KeyInv
<1>16. /\ Salted' /\ input'.blocks \in 0..(Keys!Turn * ByteMod)
       /\ Keys!Purpose' \in Seq(Int) /\ Len(Keys!Purpose') = 14
       /\ \A k \in 1..14 : Keys!Purpose'[k] \in 0..(ByteMod - 1)
       /\ \A k \in 1..14 : icm'[k] = Keys!Xor(salt'[k], Keys!Purpose'[k])
  BY <1>1, <1>4, <1>15, Zenon DEF KeyInv, Salted
<1>17. icm' \in [1..16 -> Int] /\ ctr' \in [1..16 -> Int]
  BY <1>5, <1>6, Zenon
<1> QED
  BY <1>3, <1>8, <1>9, <1>13, <1>14, <1>16, <1>17, Zenon DEF KeyInv, Keys!Turn

-----------------------------------------------------------------------------
\* KeyInv at the first block of m, with the purpose p and the counters c and e.
KeyFirst(m, p, c, e) ==
  /\ Salted /\ m \in 0..(Keys!Turn * ByteMod)
  /\ p \in Seq(Int) /\ Len(p) = 14 /\ \A k \in 1..14 : p[k] \in 0..(ByteMod - 1)
  /\ FirstFor(c, p) /\ e = c

LEMMA SameFirst == ASSUME NEW c, NEW e, NEW p, FirstFor(c, p), FirstFor(e, p) PROVE e = c
<1>1. c \in [1..16 -> Int] /\ e \in [1..16 -> Int]
  BY Zenon DEF FirstFor
<1>2. c[15] = e[15] /\ c[16] = e[16] /\ \A k \in 1..14 : c[k] = e[k]
  BY Zenon DEF FirstFor
<1>3. \A k \in 1..16 : k \in 1..14 \/ k = 15 \/ k = 16
  OBVIOUS
<1>4. \A k \in 1..16 : c[k] = e[k]
  BY <1>2, <1>3, Zenon
<1> QED
  BY <1>1, <1>4

LEMMA ZeroBlock ==
  ASSUME ByteModIs
  PROVE  /\ 0 \in 0..(Keys!Turn * ByteMod - 1) /\ 2 \in 0..(Keys!Turn * ByteMod) /\ 0 < Keys!Turn
         /\ (0 \div ByteMod) % ByteMod = 0 /\ 0 % ByteMod = 0
BY DEF ByteModIs, ByteMods, Keys!Turn

LEMMA KeyStarts ==
  ASSUME ByteModIs, block = 0, KeyFirst(input.blocks, Keys!Purpose, icm, ctr)
  PROVE  KeyInv
<1>1. ctr[14] = IF block < Keys!Turn THEN icm[14] ELSE (icm[14] + block \div Keys!Turn) % ByteMod
  BY ZeroBlock, SMT DEF KeyFirst
<1> QED
  BY <1>1, ZeroBlock, Zenon DEF KeyFirst, FirstFor, KeyInv

LEMMA KeyStartsNext ==
  ASSUME ByteModIs, salt' = salt, block' = 0, KeyFirst(input'.blocks, Keys!Purpose', icm', ctr')
  PROVE  KeyInv'
<1>1. ctr'[14] = IF block' < Keys!Turn THEN icm'[14] ELSE (icm'[14] + block' \div Keys!Turn) % ByteMod
  BY ZeroBlock, SMT DEF KeyFirst
<1>2. Keys!Turn' = Keys!Turn
  BY Zenon DEF Keys!Turn
<1> QED
  BY <1>1, <1>2, ZeroBlock, Zenon DEF KeyFirst, FirstFor, KeyInv, Salted

LabelSays(v, label, n) == NamesLabel(v, label) /\ Len(v) = 8 + n /\ \A k \in 9..(8 + n) : v[k] = 0

LEMMA LabelledBytes ==
  ASSUME NEW label \in Nat, NEW n \in Nat, n >= 6
  PROVE  LabelSays(ForLabel(label, n), label, n)
BY NamedLabel, Zenon DEF LabelSays

\* A session key.
LEMMA LabelKey ==
  ASSUME ByteModIs, Salted, NEW label \in 0..2
  PROVE  KeyFirst(2, ForLabel(label, 6), Keys!IcmFirst(Keys!LabelNonce(label)), Keys!KdfIV(label))
<1> DEFINE p == ForLabel(label, 6)
           n == Keys!LabelNonce(label)
<1>0. label \in Nat /\ 6 \in Nat /\ 8 \in Nat /\ 6 >= 6 /\ 8 >= 6
  OBVIOUS
<1>1. NamesLabel(p, label) /\ Len(p) = 8 + 6
  <2>1. LabelSays(ForLabel(label, 6), label, 6)
    BY <1>0, LabelledBytes, Zenon
  <2> QED
    BY <2>1, Zenon DEF LabelSays
<1>2. n = ForLabel(label, 8)
  BY Zenon DEF Keys!LabelNonce, ForLabel
<1> HIDE DEF p, n
<1>3. NamesLabel(n, label) /\ Len(n) = 8 + 8 /\ \A k \in 9..(8 + 8) : n[k] = 0
  <2>1. LabelSays(ForLabel(label, 8), label, 8)
    BY <1>0, LabelledBytes, Zenon
  <2> QED
    BY <1>2, <2>1, Zenon DEF LabelSays
<1>4. p \in Seq(Int) /\ Len(p) = 14
  <2>1. 8 + 6 = 14
    OBVIOUS
  <2> QED
    BY <1>1, <2>1, Zenon DEF NamesLabel
<1>5. \A k \in 1..14 : p[k] = n[k]
  BY <1>1, <1>3, Zenon DEF NamesLabel
<1>6. \A k \in 1..14 : p[k] \in 0..(ByteMod - 1)
  <2>1. 0 \in 0..(ByteMod - 1) /\ label \in 0..(ByteMod - 1)
    BY DEF ByteModIs, ByteMods
  <2>2. \A k \in 1..14 : p[k] = IF k = 8 THEN label ELSE 0
    BY <1>1, Zenon DEF NamesLabel
  <2> QED
    BY <2>1, <2>2, SMT
<1>7. n[15] = 0 /\ n[16] = 0
  <2>1. 15 \in 9..(8 + 8) /\ 16 \in 9..(8 + 8)
    OBVIOUS
  <2> QED
    BY <1>3, <2>1, Zenon
<1>8. FirstFor(Keys!Masked(Padded, n), p)
  BY <1>5, <1>6, <1>7, MaskFirst, Zenon
<1>9. FirstFor(Keys!KdfIV(label), p)
  BY <1>1, LabelFirst
<1>10. FirstFor(Keys!IcmFirst(n), p)
  BY <1>8, Zenon DEF Keys!IcmFirst, Padded
<1>11. Keys!KdfIV(label) = Keys!IcmFirst(n)
  BY <1>9, <1>10, SameFirst
<1>12. 2 \in 0..(Keys!Turn * ByteMod)
  BY ZeroBlock
<1> QED
  BY <1>4, <1>6, <1>10, <1>11, <1>12, Zenon DEF KeyFirst, p, n

\* A packet.
LEMMA PacketKey ==
  ASSUME ByteModIs, Salted, NEW ssrc \in Nat, NEW index \in Nat, MaxBlocks \in 0..(Keys!Turn * ByteMod)
  PROVE  KeyFirst(MaxBlocks, ShortName(ssrc, index, index), Keys!IcmFirst(Keys!BuildRtpICMNonce(ssrc, index)),
                  Keys!BuildE2eRtpIV(ssrc, index \div Keys!Turn, index % Keys!Turn))
<1> DEFINE p == ShortName(ssrc, index, index)
           n == Keys!BuildRtpICMNonce(ssrc, index)
           w == E2eNonce(ssrc, index)
           v == Keys!BuildE2eRtpIV(ssrc, index \div Keys!Turn, index % Keys!Turn)
<1>1. NamesPacket(p, ssrc, index) /\ Len(p) = 14
  BY NamedShort
<1>2. NamesPacket(n, ssrc, index) /\ n[15] = 0 /\ n[16] = 0
  BY NamedIcm
<1>3. NamesPacket(w, ssrc, index) /\ w[15] = 0 /\ w[16] = 0
  BY NamedE2e
<1>4. v = Keys!Masked(Padded, w)
  <2>1. ((index \div Keys!Turn) * Keys!Turn) + (index % Keys!Turn) = index
    BY Recombined DEF ByteModIs, Keys!Turn
  <2> DEFINE again == ((index \div Keys!Turn) * Keys!Turn) + (index % Keys!Turn)
  <2>2. v = Keys!Masked(Padded, E2eNonce(ssrc, again))
    BY Zenon DEF Keys!BuildE2eRtpIV, Padded, E2eNonce, ShortName
  <2> HIDE DEF v
  <2> QED
    BY <2>1, <2>2, Zenon
<1> HIDE DEF p, n, w, v
<1>5. \A k \in 1..14 : p[k] \in 0..(ByteMod - 1)
  BY <1>1, NameBytes
<1>6. \A k \in 1..14 : n[k] = p[k] /\ w[k] = p[k]
  BY <1>1, <1>2, <1>3, NameFixed
<1>7. FirstFor(Keys!Masked(Padded, n), p)
  BY <1>2, <1>5, <1>6, MaskFirst, Zenon
<1>8. FirstFor(Keys!Masked(Padded, w), p)
  BY <1>3, <1>5, <1>6, MaskFirst, Zenon
<1>9. FirstFor(Keys!IcmFirst(n), p)
  BY <1>7, Zenon DEF Keys!IcmFirst, Padded
<1>10. v = Keys!IcmFirst(n)
  BY <1>4, <1>8, <1>9, SameFirst, Zenon
<1>11. p \in Seq(Int) /\ Len(p) = 14
  BY <1>1, Zenon DEF NamesPacket
<1> QED
  BY <1>5, <1>9, <1>10, <1>11, Zenon DEF KeyFirst, p, n, v

\* What a key and a packet are told apart by.
LEMMA InputIs ==
  ASSUME NEW label, NEW ssrc, NEW index
  PROVE  /\ "label" \in DOMAIN Keys!Derived(label) /\ Keys!Derived(label).label = label
         /\ Keys!Derived(label).blocks = 2
         /\ "label" \notin DOMAIN Keys!Packet(ssrc, index) /\ Keys!Packet(ssrc, index).ssrc = ssrc
         /\ Keys!Packet(ssrc, index).index = index /\ Keys!Packet(ssrc, index).blocks = MaxBlocks
BY DEF Keys!Derived, Keys!DerivedBlocks, Keys!Packet

KeyConstants == ByteModIs /\ Ssrcs \subseteq Nat /\ Indexes \subseteq Nat /\ MaxBlocks \in 0..(Keys!Turn * ByteMod)

LEMMA KeysStay == ASSUME KeyConstants, KeyInv, [Keys!Next]_(Keys!vars) PROVE KeyInv'
<1>1. ByteModIs /\ Salted
  BY Zenon DEF KeyInv, KeyConstants
<1>2. ASSUME NEW label \in Keys!Labels, Keys!DeriveKey(label) PROVE KeyInv'
  <2>1. /\ input' = Keys!Derived(label) /\ block' = 0 /\ icm' = Keys!IcmFirst(Keys!LabelNonce(label))
        /\ ctr' = Keys!KdfIV(label) /\ salt' = salt
    BY <1>2, Zenon DEF Keys!DeriveKey
  <2>2. label \in 0..2
    BY DEF Keys!Labels
  <2>3. KeyFirst(2, ForLabel(label, 6), Keys!IcmFirst(Keys!LabelNonce(label)), Keys!KdfIV(label))
    BY <1>1, <2>2, LabelKey
  <2>4. "label" \in DOMAIN input' /\ input'.label = label /\ input'.blocks = 2
    BY <2>1, InputIs, Zenon
  <2>5. Keys!Purpose' = ForLabel(label, 6)
    <3>1. Keys!Purpose' = Keys!Zeros(7) \o <<input'.label>> \o Keys!Zeros(6)
      BY <2>4, Zenon DEF Keys!Purpose, Keys!Zeros
    <3> QED
      BY <2>4, <3>1, Zenon DEF ForLabel
  <2>6. KeyFirst(input'.blocks, Keys!Purpose', icm', ctr')
    BY <2>1, <2>3, <2>4, <2>5, Zenon
  <2> QED
    BY <1>1, <2>1, <2>6, KeyStartsNext
<1>3. ASSUME NEW ssrc \in Ssrcs, NEW index \in Indexes, Keys!CryptPayload(ssrc, index) PROVE KeyInv'
  <2>1. /\ input' = Keys!Packet(ssrc, index) /\ block' = 0
        /\ icm' = Keys!IcmFirst(Keys!BuildRtpICMNonce(ssrc, index))
        /\ ctr' = Keys!BuildE2eRtpIV(ssrc, index \div Keys!Turn, index % Keys!Turn) /\ salt' = salt
    BY <1>3, Zenon DEF Keys!CryptPayload
  <2>2. ssrc \in Nat /\ index \in Nat /\ MaxBlocks \in 0..(Keys!Turn * ByteMod)
    BY Zenon DEF KeyConstants
  <2>3. KeyFirst(MaxBlocks, ShortName(ssrc, index, index), Keys!IcmFirst(Keys!BuildRtpICMNonce(ssrc, index)),
                 Keys!BuildE2eRtpIV(ssrc, index \div Keys!Turn, index % Keys!Turn))
    BY <1>1, <2>2, PacketKey
  <2>4. "label" \notin DOMAIN input' /\ input'.ssrc = ssrc /\ input'.index = index /\ input'.blocks = MaxBlocks
    BY <2>1, InputIs, ZenonT(40)
  <2>5. Keys!Purpose' = ShortName(ssrc, index, index)
    <3>1. Keys!Purpose' = Keys!Zeros(4) \o Keys!Long(input'.ssrc)
                          \o Keys!Word(input'.index \div (Keys!Turn * Keys!Turn)) \o Keys!Long(input'.index)
      BY <2>4, Zenon DEF Keys!Purpose, Keys!Zeros, Keys!Long, Keys!Word, Keys!Turn
    <3> QED
      BY <2>4, <3>1, Zenon DEF ShortName
  <2>6. KeyFirst(input'.blocks, Keys!Purpose', icm', ctr')
    BY <2>1, <2>3, <2>4, <2>5, Zenon
  <2> QED
    BY <1>1, <2>1, <2>6, KeyStartsNext
<1>4. CASE Keys!NextBlock
  BY <1>1, <1>4, CountsStay
<1>5. CASE UNCHANGED Keys!vars
  <2>1. salt' = salt /\ input' = input /\ block' = block /\ icm' = icm /\ ctr' = ctr
    BY <1>5 DEF Keys!vars
  <2>2. Keys!Purpose' = Keys!Purpose
    BY <2>1, Zenon DEF Keys!Purpose
  <2>3. Keys!Turn' = Keys!Turn
    BY Zenon DEF Keys!Turn
  <2> QED
    BY <2>1, <2>2, <2>3, Zenon DEF KeyInv, Salted
<1> QED
  BY <1>2, <1>3, <1>4, <1>5, Zenon DEF Keys!Next

LEMMA KeysStart == ASSUME KeyConstants, Salts \subseteq [1..14 -> 0..(ByteMod - 1)], Keys!Init PROVE KeyInv
<1>1. /\ salt \in Salts /\ input = Keys!Derived(0) /\ block = 0 /\ icm = Keys!IcmFirst(Keys!LabelNonce(0))
      /\ ctr = Keys!KdfIV(0)
  BY Zenon DEF Keys!Init
<1>2. Salted /\ ByteModIs
  BY <1>1, Zenon DEF Salted, KeyConstants
<1>3. 0 \in 0..2
  OBVIOUS
<1>4. KeyFirst(2, ForLabel(0, 6), Keys!IcmFirst(Keys!LabelNonce(0)), Keys!KdfIV(0))
  BY <1>2, <1>3, LabelKey
<1>5. "label" \in DOMAIN input /\ input.label = 0 /\ input.blocks = 2
  BY <1>1, InputIs, Zenon
<1>6. Keys!Purpose = ForLabel(0, 6)
  <2>1. Keys!Purpose = Keys!Zeros(7) \o <<input.label>> \o Keys!Zeros(6)
    BY <1>5, Zenon DEF Keys!Purpose
  <2> QED
    BY <1>5, <2>1, Zenon DEF ForLabel
<1>7. KeyFirst(input.blocks, Keys!Purpose, icm, ctr)
  BY <1>1, <1>4, <1>5, <1>6, Zenon
<1> QED
  BY <1>1, <1>2, <1>7, KeyStarts

LEMMA KeysAssumed == KeyConstants /\ Salts \subseteq [1..14 -> 0..(ByteMod - 1)]
<1>1. Keys!KeystreamAssumption
  BY SequentialAssumption
<1>2. ByteMod \in ByteMods /\ Salts \subseteq [1..14 -> 0..(ByteMod - 1)] /\ MaxBlocks \in 0..(Keys!Turn * ByteMod)
  BY <1>1, Zenon DEF Keys!KeystreamAssumption, ByteMods
<1>3. Ssrcs \subseteq Nat /\ Indexes \subseteq Nat
  <2>1. Ssrcs \subseteq 0..(Keys!Turn * Keys!Turn - 1) /\ Indexes \subseteq 0..(Keys!Turn * Keys!Turn * Keys!Turn - 1)
    BY <1>1, Zenon DEF Keys!KeystreamAssumption
  <2>2. \A m : 0..m \subseteq Nat
    OBVIOUS
  <2> QED
    BY <2>1, <2>2, Zenon
<1> QED
  BY <1>2, <1>3, Zenon DEF KeyConstants, ByteModIs

\* Whatever the salt, the hop-by-hop cipher's counter tells the packet and the
\* block, and the end-to-end cipher uses the same one as long as two bytes can
\* number the blocks (hbh.go:95-199, e2e.go:24-138).
THEOREM CountersStayExact == SequentialSpec => []CountersExact
<1> DEFINE Inv == part = "Keystream" => KeyInv
<1>1. SequentialInit => Inv
  BY KeysAssumed, KeysStart DEF SequentialInit
<1>2. Inv /\ [SequentialNext]_allVars => Inv'
  <2> SUFFICES ASSUME Inv, [SequentialNext]_allVars, part = "Keystream" PROVE KeyInv'
    BY WirePartMoves
  <2>1. [Keys!Next]_(Keys!vars)
    BY WirePartMoves
  <2> QED
    BY <2>1, KeysAssumed, KeysStay
<1>3. Inv => CountersExact
  BY KeysAssumed, CountersAreExact DEF CountersExact, KeyConstants
<1> QED
  BY <1>1, <1>2, <1>3, PTL DEF SequentialSpec

-----------------------------------------------------------------------------
(* StunMessage.                                                            *)

Octet == 0..255

\* What the walk over attributes finds at off, w being the rest of it.
AttrsFrom(w, d, off) ==
  IF off + 4 <= Len(d) /\ off + 4 + Stun!WordAt(d, off + 2) <= Len(d)
  THEN <<[type |-> Stun!WordAt(d, off), value |-> SubSeq(d, off + 5, off + 4 + Stun!WordAt(d, off + 2))]>>
       \o w[off + 4 + Stun!WordAt(d, off + 2) + Stun!Pad4(Stun!WordAt(d, off + 2))]
  ELSE <<>>

WalksAttrs(w, d) == w = [off \in Nat |-> AttrsFrom(w, d, off)]

\* The same for the walk to an error code, which ends at end.
CodeFrom(w, d, end, off) ==
  CASE off + 4 > end -> Stun!None
    [] off + 4 <= end /\ Stun!CodeAt(d, off) -> Stun!At(d, off + 6) * 100 + Stun!At(d, off + 7)
    [] OTHER -> w[off + 4 + Stun!WordAt(d, off + 2) + Stun!Pad4(Stun!WordAt(d, off + 2))]

WalksCode(w, d, end) == w = [off \in Nat |-> CodeFrom(w, d, end, off)]

\* Where the announced body ends.
EndOf(d) == IF 20 + Stun!WordAt(d, 2) < Len(d) THEN 20 + Stun!WordAt(d, 2) ELSE Len(d)

\* The largest word.
MaxWord == 65535

\* A byte or a word read anywhere is a number, and one that is there a byte or a
\* word.
ReadAt(d, off) ==
  /\ Stun!At(d, off) \in Nat /\ Stun!WordAt(d, off) \in Nat
  /\ off + 1 <= Len(d) => Stun!At(d, off) <= 255
  /\ off + 2 <= Len(d) => Stun!WordAt(d, off) <= MaxWord

LEMMA PanicIs == Stun!Panic \in Nat /\ Stun!Panic > MaxWord
BY SMT DEF Stun!Panic, MaxWord

LEMMA RangeUpTo == ASSUME NEW m \in Nat PROVE \A n : n \in 0..m <=> n \in Nat /\ n <= m
OBVIOUS

LEMMA WordRange == \A n : n \in 0..MaxWord <=> n \in Nat /\ n <= MaxWord
<1>1. MaxWord \in Nat
  BY SMT DEF MaxWord
<1> QED
  BY <1>1, RangeUpTo, Zenon

LEMMA OctetIs == ASSUME NEW o \in Octet PROVE o \in Nat /\ o <= 255
BY SMT DEF Octet

LEMMA ReadThere ==
  ASSUME NEW d \in Seq(Octet), NEW off \in Nat
  PROVE  Stun!At(d, off) \in Nat /\ (off + 1 <= Len(d) => Stun!At(d, off) <= 255)
<1>1. Len(d) \in Nat /\ Stun!Panic \in Nat
  BY PanicIs
<1>0. Stun!At(d, off) = IF off < Len(d) THEN d[off + 1] ELSE Stun!Panic
  BY Zenon DEF Stun!At
<1>2. CASE off < Len(d)
  <2>1. d[off + 1] \in Octet
    BY <1>2, SMT
  <2>2. d[off + 1] \in Nat /\ d[off + 1] <= 255
    BY <2>1, OctetIs
  <2> QED
    BY <2>2, <1>0, <1>2, SMT
<1>3. CASE ~(off < Len(d))
  BY <1>0, <1>1, <1>3, SMT
<1> QED
  BY <1>2, <1>3

LEMMA Reads == ASSUME NEW d \in Seq(Octet), NEW off \in Nat PROVE ReadAt(d, off)
<1> DEFINE a == Stun!At(d, off)
           b == Stun!At(d, off + 1)
<1>1. a \in Nat /\ (off + 1 <= Len(d) => a <= 255)
  BY ReadThere
<1>2. b \in Nat /\ (off + 2 <= Len(d) => b <= 255)
  <2>1. off + 1 \in Nat
    OBVIOUS
  <2>2. b \in Nat /\ ((off + 1) + 1 <= Len(d) => b <= 255)
    BY <2>1, ReadThere
  <2>3. Len(d) \in Nat /\ (off + 1) + 1 = off + 2
    OBVIOUS
  <2> QED
    BY <2>2, <2>3, SMT
<1>3. Stun!WordAt(d, off) = a * 256 + b
  BY Zenon DEF Stun!WordAt
<1>6. Len(d) \in Nat
  OBVIOUS
<1> HIDE DEF a, b
<1>4. (off + 2 <= Len(d)) => a <= 255 /\ b <= 255
  BY <1>1, <1>2, <1>6, SMT
<1>5. a * 256 + b \in Nat /\ (off + 2 <= Len(d) => a * 256 + b <= MaxWord)
  BY <1>1, <1>2, <1>4, SMT DEF MaxWord
<1>7. Stun!At(d, off) = a
  BY DEF a
<1> QED
  BY <1>1, <1>3, <1>5, <1>7, SMT DEF ReadAt

\* A head that a walk finds within the packet is read from the packet.
LEMMA HeadThere ==
  ASSUME NEW d \in Seq(Octet), NEW off \in Nat, off + 4 <= Len(d)
  PROVE  Stun!WordAt(d, off + 2) \in Nat /\ ~(Stun!WordAt(d, off + 2) >= Stun!Panic)
<1>1. off + 2 \in Nat /\ (off + 2) + 2 <= Len(d)
  OBVIOUS
<1>2. ReadAt(d, off + 2)
  BY <1>1, Reads
<1>3. Stun!WordAt(d, off + 2) \in Nat /\ Stun!WordAt(d, off + 2) <= MaxWord
  BY <1>1, <1>2, Zenon DEF ReadAt
<1> QED
  BY <1>3, PanicIs, SMT DEF MaxWord

\* The step of the walk over attributes as the code takes it, which may panic.
AttrsStep(w, d, off) ==
  CASE ~Stun!HasHead(off, Len(d)) -> <<>>
    [] Stun!HasHead(off, Len(d)) /\ Stun!WordAt(d, off + 2) >= Stun!Panic -> <<Stun!Crash>>
    [] /\ Stun!HasHead(off, Len(d)) /\ Stun!WordAt(d, off + 2) < Stun!Panic
       /\ off + 4 + Stun!WordAt(d, off + 2) > Len(d) -> <<>>
    [] OTHER -> <<Stun!AttrAt(d, off, Stun!WordAt(d, off + 2))>>
                \o w[off + 4 + Stun!WordAt(d, off + 2) + Stun!Pad4(Stun!WordAt(d, off + 2))]

\* In a packet it does not.
LEMMA AttrsStepSafe ==
  ASSUME NEW d \in Seq(Octet), NEW off \in Nat, NEW w
  PROVE  AttrsStep(w, d, off) = AttrsFrom(w, d, off)
<1> DEFINE len == Stun!WordAt(d, off + 2)
<1>0. Len(d) \in Nat
  OBVIOUS
<1>1. CASE ~(off + 4 <= Len(d))
  <2>1. AttrsStep(w, d, off) = <<>>
    BY <1>1, Zenon DEF AttrsStep, Stun!HasHead
  <2>2. AttrsFrom(w, d, off) = <<>>
    BY <1>1, Zenon DEF AttrsFrom
  <2> QED
    BY <2>1, <2>2
<1>2. CASE off + 4 <= Len(d)
  <2>1. len \in Nat /\ ~(len >= Stun!Panic)
    BY <1>2, HeadThere
  <2>2. Stun!HasHead(off, Len(d))
    BY <1>2, Zenon DEF Stun!HasHead
  <2>3. CASE off + 4 + len <= Len(d)
    <3>1. ~(off + 4 + len > Len(d))
      BY <1>0, <2>1, <2>3, SMT
    <3>2. Stun!AttrAt(d, off, len) = [type |-> Stun!WordAt(d, off), value |-> SubSeq(d, off + 5, off + 4 + len)]
      BY <2>3, Zenon DEF Stun!AttrAt
    <3>3. AttrsStep(w, d, off) = <<Stun!AttrAt(d, off, len)>> \o w[off + 4 + len + Stun!Pad4(len)]
      BY <2>1, <2>2, <3>1, Zenon DEF AttrsStep
    <3> QED
      BY <1>2, <2>3, <3>2, <3>3, Zenon DEF AttrsFrom
  <2>4. CASE ~(off + 4 + len <= Len(d))
    <3>1. off + 4 + len > Len(d) /\ len < Stun!Panic
      <4>1. Stun!Panic \in Nat
        BY PanicIs
      <4> QED
        BY <1>0, <2>1, <2>4, <4>1, SMT
    <3>2. AttrsStep(w, d, off) = <<>>
      BY <2>1, <2>2, <3>1, Zenon DEF AttrsStep
    <3> QED
      BY <2>4, <3>2, Zenon DEF AttrsFrom
  <2> QED
    BY <2>3, <2>4
<1> QED
  BY <1>1, <1>2

LEMMA ParsesAttrs ==
  ASSUME NEW d \in Seq(Octet)
  PROVE  Stun!ParseStunAttributes(d) =
           IF Stun!IsStunPacket(d) /\ Len(d) >= 20 THEN (CHOOSE w : WalksAttrs(w, d))[20] ELSE <<>>
<1> DEFINE Steps(w) == w = [off \in Nat |-> AttrsStep(w, d, off)]
<1>1. Stun!ParseStunAttributes(d) =
        IF Stun!IsStunPacket(d) /\ Len(d) >= 20 THEN (CHOOSE w : Steps(w))[20] ELSE <<>>
  BY Zenon DEF Stun!ParseStunAttributes, AttrsStep
<1>2. ASSUME NEW w PROVE Steps(w) <=> WalksAttrs(w, d)
  <2>1. \A off \in Nat : AttrsStep(w, d, off) = AttrsFrom(w, d, off)
    BY AttrsStepSafe
  <2>2. [off \in Nat |-> AttrsStep(w, d, off)] = [off \in Nat |-> AttrsFrom(w, d, off)]
    BY <2>1, Zenon
  <2> QED
    BY <2>2, Zenon DEF WalksAttrs
<1> HIDE DEF Steps
<1>3. (CHOOSE w : Steps(w)) = (CHOOSE w : WalksAttrs(w, d))
  BY <1>2, Zenon
<1> QED
  BY <1>1, <1>3, Zenon

\* The same for the walk to an error code.
CodeStep(w, d, end, off) ==
  CASE ~Stun!HasHead(off, end) -> Stun!None
    [] Stun!HasHead(off, end) /\ Stun!WordAt(d, off + 2) >= Stun!Panic -> Stun!Panic
    [] Stun!HasHead(off, end) /\ Stun!WordAt(d, off + 2) < Stun!Panic /\ Stun!CodeAt(d, off) ->
         Stun!At(d, off + 6) * 100 + Stun!At(d, off + 7)
    [] OTHER -> w[off + 4 + Stun!WordAt(d, off + 2) + Stun!Pad4(Stun!WordAt(d, off + 2))]

LEMMA CodeStepSafe ==
  ASSUME NEW d \in Seq(Octet), NEW end \in Nat, end <= Len(d), NEW off \in Nat, NEW w
  PROVE  CodeStep(w, d, end, off) = CodeFrom(w, d, end, off)
<1> DEFINE len == Stun!WordAt(d, off + 2)
<1>0. Len(d) \in Nat
  OBVIOUS
<1>1. CASE off + 4 > end
  <2>1. ~(off + 4 <= end)
    BY <1>1, SMT
  <2>2. CodeStep(w, d, end, off) = Stun!None
    BY <2>1, Zenon DEF CodeStep, Stun!HasHead
  <2>3. CodeFrom(w, d, end, off) = Stun!None
    BY <1>1, <2>1, Zenon DEF CodeFrom
  <2> QED
    BY <2>2, <2>3
<1>2. CASE ~(off + 4 > end)
  <2>1. off + 4 <= end /\ off + 4 <= Len(d)
    BY <1>0, <1>2, SMT
  <2>2. len \in Nat /\ ~(len >= Stun!Panic)
    BY <2>1, HeadThere
  <2>3. len < Stun!Panic
    <3>1. Stun!Panic \in Nat
      BY PanicIs
    <3> QED
      BY <2>2, <3>1, SMT
  <2>4. Stun!HasHead(off, end)
    BY <2>1, Zenon DEF Stun!HasHead
  <2>5. CASE Stun!CodeAt(d, off)
    <3>1. CodeStep(w, d, end, off) = Stun!At(d, off + 6) * 100 + Stun!At(d, off + 7)
      BY <2>2, <2>3, <2>4, <2>5, Zenon DEF CodeStep
    <3>2. CodeFrom(w, d, end, off) = Stun!At(d, off + 6) * 100 + Stun!At(d, off + 7)
      BY <1>2, <2>1, <2>5, Zenon DEF CodeFrom
    <3> QED
      BY <3>1, <3>2
  <2>6. CASE ~Stun!CodeAt(d, off)
    <3>1. CodeStep(w, d, end, off) = w[off + 4 + len + Stun!Pad4(len)]
      BY <2>2, <2>4, <2>6, Zenon DEF CodeStep
    <3>2. CodeFrom(w, d, end, off) = w[off + 4 + len + Stun!Pad4(len)]
      BY <1>2, <2>6, Zenon DEF CodeFrom
    <3> QED
      BY <3>1, <3>2
  <2> QED
    BY <2>5, <2>6
<1> QED
  BY <1>1, <1>2

LEMMA EndIs == ASSUME NEW d \in Seq(Octet) PROVE EndOf(d) \in Nat /\ EndOf(d) <= Len(d)
<1>1. ReadAt(d, 2)
  BY Reads
<1>2. Len(d) \in Nat /\ Stun!WordAt(d, 2) \in Nat
  BY <1>1, SMT DEF ReadAt
<1> QED
  BY <1>2, SMT DEF EndOf

LEMMA ParsesCode ==
  ASSUME NEW d \in Seq(Octet)
  PROVE  Stun!ParseStunErrorCode(d) =
           IF Len(d) < 20 \/ Stun!StunMessageType(d) \notin {Stun!MsgAllocateError, Stun!MsgBindingError}
           THEN Stun!None ELSE (CHOOSE w : WalksCode(w, d, EndOf(d)))[20]
<1> DEFINE Steps(w) == w = [off \in Nat |-> CodeStep(w, d, EndOf(d), off)]
           NoError == Len(d) < 20 \/ Stun!StunMessageType(d) \notin {Stun!MsgAllocateError, Stun!MsgBindingError}
<1>1. Stun!ParseStunErrorCode(d) =
        IF NoError THEN Stun!None
        ELSE IF 20 + Stun!WordAt(d, 2) >= Stun!Panic THEN Stun!Panic ELSE (CHOOSE w : Steps(w))[20]
  BY Zenon DEF Stun!ParseStunErrorCode, CodeStep, EndOf
<1>2. ASSUME NEW w PROVE Steps(w) <=> WalksCode(w, d, EndOf(d))
  <2>1. \A off \in Nat : CodeStep(w, d, EndOf(d), off) = CodeFrom(w, d, EndOf(d), off)
    BY CodeStepSafe, EndIs
  <2>2. [off \in Nat |-> CodeStep(w, d, EndOf(d), off)] = [off \in Nat |-> CodeFrom(w, d, EndOf(d), off)]
    BY <2>1, Zenon
  <2> QED
    BY <2>2, Zenon DEF WalksCode
<1>3. ASSUME ~NoError PROVE ~(20 + Stun!WordAt(d, 2) >= Stun!Panic)
  <2>1. ~(Len(d) < 20)
    BY <1>3, Zenon
  <2>2. ReadAt(d, 2)
    BY Reads
  <2>3. 2 + 2 <= Len(d)
    BY <2>1
  <2>4. Stun!WordAt(d, 2) \in Nat /\ Stun!WordAt(d, 2) <= MaxWord
    BY <2>2, <2>3, Zenon DEF ReadAt
  <2> QED
    BY <2>4, SMT DEF MaxWord, Stun!Panic
<1> HIDE DEF Steps, NoError
<1>4. (CHOOSE w : Steps(w)) = (CHOOSE w : WalksCode(w, d, EndOf(d)))
  BY <1>2, Zenon
<1>5. Stun!ParseStunErrorCode(d) = IF NoError THEN Stun!None ELSE (CHOOSE w : WalksCode(w, d, EndOf(d)))[20]
  BY <1>1, <1>3, <1>4, Zenon
<1> QED
  BY <1>5, Zenon DEF NoError

LEMMA Padding == ASSUME NEW n \in Nat PROVE Stun!Pad4(n) \in 0..3
BY DEF Stun!Pad4

\* Where the attribute after the one at off starts.
AfterAt(d, off) == off + 4 + Stun!WordAt(d, off + 2) + Stun!Pad4(Stun!WordAt(d, off + 2))

LEMMA Further == ASSUME NEW d \in Seq(Octet), NEW off \in Nat PROVE AfterAt(d, off) \in Nat /\ AfterAt(d, off) >= off + 4
<1>0. off + 2 \in Nat
  OBVIOUS
<1>3. ReadAt(d, off + 2)
  BY <1>0, Reads
<1>1. Stun!WordAt(d, off + 2) \in Nat
  BY <1>3, SMT DEF ReadAt
<1>2. Stun!Pad4(Stun!WordAt(d, off + 2)) \in 0..3
  BY <1>1, Padding
<1> QED
  BY <1>1, <1>2 DEF AfterAt

\* Both walks look only further on.
LEMMA AttrsLocal ==
  ASSUME NEW d \in Seq(Octet), NEW off \in Nat, NEW v, NEW w, \A t \in Nat : t >= off + 4 => v[t] = w[t]
  PROVE  AttrsFrom(v, d, off) = AttrsFrom(w, d, off)
<1>1. v[AfterAt(d, off)] = w[AfterAt(d, off)]
  BY Further
<1> QED
  BY <1>1, Zenon DEF AttrsFrom, AfterAt

LEMMA CodeLocal ==
  ASSUME NEW d \in Seq(Octet), NEW end, NEW off \in Nat, NEW v, NEW w, \A t \in Nat : t >= off + 4 => v[t] = w[t]
  PROVE  CodeFrom(v, d, end, off) = CodeFrom(w, d, end, off)
<1>1. v[AfterAt(d, off)] = w[AfterAt(d, off)]
  BY Further
<1> QED
  BY <1>1 DEF CodeFrom, AfterAt

\* And stop at the end of the packet.
LEMMA AttrsStop ==
  ASSUME NEW d \in Seq(Octet), NEW off \in Nat, off + 4 > Len(d), NEW w
  PROVE  AttrsFrom(w, d, off) = <<>>
<1>1. Len(d) \in Nat
  OBVIOUS
<1>2. ~(off + 4 <= Len(d))
  BY <1>1
<1> QED
  BY <1>2, Zenon DEF AttrsFrom

LEMMA CodeStop ==
  ASSUME NEW d, NEW end \in Nat, NEW off \in Nat, off + 4 > end, NEW w
  PROVE  CodeFrom(w, d, end, off) = Stun!None
BY DEF CodeFrom

\* A walk over the last n offsets of the packet.
AttrsReached(w, d, n) ==
  w = [t \in Nat |-> w[t]] /\ \A off \in Nat : off + n >= Len(d) => w[off] = AttrsFrom(w, d, off)
CodeReached(w, d, end, n) ==
  w = [t \in Nat |-> w[t]] /\ \A off \in Nat : off + n >= Len(d) => w[off] = CodeFrom(w, d, end, off)

LEMMA AttrsWalked == ASSUME NEW d \in Seq(Octet) PROVE \E w : WalksAttrs(w, d)
<1> DEFINE S == {n \in Nat : \E w : AttrsReached(w, d, n)}
<1>0. Len(d) \in Nat
  OBVIOUS
<1>1. 0 \in S
  <2> DEFINE w == [t \in Nat |-> <<>>]
  <2>1. \A off \in Nat : off + 0 >= Len(d) => w[off] = AttrsFrom(w, d, off)
    <3> SUFFICES ASSUME NEW off \in Nat, off + 0 >= Len(d) PROVE w[off] = AttrsFrom(w, d, off)
      OBVIOUS
    <3>1. AttrsFrom(w, d, off) = <<>>
      BY <1>0, AttrsStop
    <3> QED
      BY <3>1
  <2>2. w = [t \in Nat |-> w[t]]
    OBVIOUS
  <2> HIDE DEF w
  <2>3. AttrsReached(w, d, 0)
    BY <2>1, <2>2 DEF AttrsReached
  <2> QED
    BY <2>3
<1>2. \A n \in Nat : n \in S => n + 1 \in S
  <2> SUFFICES ASSUME NEW n \in Nat, NEW v, AttrsReached(v, d, n) PROVE \E w : AttrsReached(w, d, n + 1)
    OBVIOUS
  <2> DEFINE w == [t \in Nat |-> IF t + n >= Len(d) THEN v[t] ELSE AttrsFrom(v, d, t)]
  <2>1. \A t \in Nat : t + n >= Len(d) => w[t] = v[t]
    OBVIOUS
  <2>2. \A t \in Nat : ~(t + n >= Len(d)) => w[t] = AttrsFrom(v, d, t)
    OBVIOUS
  <2>3. w = [t \in Nat |-> w[t]]
    OBVIOUS
  <2> HIDE DEF w
  <2>4. \A off \in Nat : off + n >= Len(d) => v[off] = AttrsFrom(v, d, off)
    BY DEF AttrsReached
  <2>5. ASSUME NEW off \in Nat, off + (n + 1) >= Len(d) PROVE w[off] = AttrsFrom(w, d, off)
    <3>1. \A t \in Nat : t >= off + 4 => w[t] = v[t]
      BY <1>0, <2>1, <2>5
    <3>2. AttrsFrom(w, d, off) = AttrsFrom(v, d, off)
      BY <3>1, AttrsLocal
    <3> QED
      BY <3>2, <2>1, <2>2, <2>4
  <2>6. AttrsReached(w, d, n + 1)
    BY <2>3, <2>5 DEF AttrsReached
  <2> QED
    BY <2>6
<1>3. Len(d) \in S
  <2> HIDE DEF S
  <2>1. Nat \subseteq S
    BY <1>1, <1>2, Induct
  <2> QED
    BY <2>1, <1>0
<1>4. PICK w : AttrsReached(w, d, Len(d))
  BY <1>3
<1>5. \A off \in Nat : w[off] = AttrsFrom(w, d, off)
  BY <1>4, <1>0 DEF AttrsReached
<1>6. w = [t \in Nat |-> w[t]]
  BY <1>4, Zenon DEF AttrsReached
<1>7. w = [t \in Nat |-> AttrsFrom(w, d, t)]
  BY <1>5, <1>6
<1> QED
  BY <1>7 DEF WalksAttrs

LEMMA CodeWalked ==
  ASSUME NEW d \in Seq(Octet), NEW end \in Nat, end <= Len(d)
  PROVE  \E w : WalksCode(w, d, end)
<1> DEFINE S == {n \in Nat : \E w : CodeReached(w, d, end, n)}
<1>0. Len(d) \in Nat
  OBVIOUS
<1>1. 0 \in S
  <2> DEFINE w == [t \in Nat |-> Stun!None]
  <2>1. \A off \in Nat : off + 0 >= Len(d) => w[off] = CodeFrom(w, d, end, off)
    <3> SUFFICES ASSUME NEW off \in Nat, off + 0 >= Len(d) PROVE w[off] = CodeFrom(w, d, end, off)
      OBVIOUS
    <3>1. CodeFrom(w, d, end, off) = Stun!None
      BY <1>0, CodeStop
    <3> QED
      BY <3>1
  <2>2. w = [t \in Nat |-> w[t]]
    OBVIOUS
  <2> HIDE DEF w
  <2>3. CodeReached(w, d, end, 0)
    BY <2>1, <2>2 DEF CodeReached
  <2> QED
    BY <2>3
<1>2. \A n \in Nat : n \in S => n + 1 \in S
  <2> SUFFICES ASSUME NEW n \in Nat, NEW v, CodeReached(v, d, end, n) PROVE \E w : CodeReached(w, d, end, n + 1)
    OBVIOUS
  <2> DEFINE w == [t \in Nat |-> IF t + n >= Len(d) THEN v[t] ELSE CodeFrom(v, d, end, t)]
  <2>1. \A t \in Nat : t + n >= Len(d) => w[t] = v[t]
    OBVIOUS
  <2>2. \A t \in Nat : ~(t + n >= Len(d)) => w[t] = CodeFrom(v, d, end, t)
    OBVIOUS
  <2>3. w = [t \in Nat |-> w[t]]
    OBVIOUS
  <2> HIDE DEF w
  <2>4. \A off \in Nat : off + n >= Len(d) => v[off] = CodeFrom(v, d, end, off)
    BY DEF CodeReached
  <2>5. ASSUME NEW off \in Nat, off + (n + 1) >= Len(d) PROVE w[off] = CodeFrom(w, d, end, off)
    <3>1. \A t \in Nat : t >= off + 4 => w[t] = v[t]
      BY <1>0, <2>1, <2>5
    <3>2. CodeFrom(w, d, end, off) = CodeFrom(v, d, end, off)
      BY <3>1, CodeLocal
    <3> QED
      BY <3>2, <2>1, <2>2, <2>4
  <2>6. CodeReached(w, d, end, n + 1)
    BY <2>3, <2>5 DEF CodeReached
  <2> QED
    BY <2>6
<1>3. Len(d) \in S
  <2> HIDE DEF S
  <2>1. Nat \subseteq S
    BY <1>1, <1>2, Induct
  <2> QED
    BY <2>1, <1>0
<1>4. PICK w : CodeReached(w, d, end, Len(d))
  BY <1>3
<1>5. \A off \in Nat : w[off] = CodeFrom(w, d, end, off)
  BY <1>4, <1>0 DEF CodeReached
<1>6. w = [t \in Nat |-> w[t]]
  BY <1>4, Zenon DEF CodeReached
<1>7. w = [t \in Nat |-> CodeFrom(w, d, end, t)]
  BY <1>5, <1>6
<1> QED
  BY <1>7 DEF WalksCode

\* What the walks give, wherever they start.
AttrsInside == [type : 0..MaxWord, value : Seq(Octet)]

LEMMA AttrsStayInside ==
  ASSUME NEW d \in Seq(Octet), NEW w, WalksAttrs(w, d)
  PROVE  \A off \in Nat : w[off] \in Seq(AttrsInside)
<1> DEFINE S == {n \in Nat : \A off \in Nat : off + n >= Len(d) => w[off] \in Seq(AttrsInside)}
<1>0. Len(d) \in Nat
  OBVIOUS
<1>w. \A off \in Nat : w[off] = AttrsFrom(w, d, off)
  BY DEF WalksAttrs
<1>1. 0 \in S
  <2>1. ASSUME NEW off \in Nat, off + 0 >= Len(d) PROVE w[off] \in Seq(AttrsInside)
    <3>1. AttrsFrom(w, d, off) = <<>>
      BY <1>0, <2>1, AttrsStop
    <3>2. w[off] = <<>>
      BY <3>1, <1>w
    <3> QED
      BY <3>2
  <2> QED
    BY <2>1
<1>2. \A n \in Nat : n \in S => n + 1 \in S
  <2>0. \A n \in Nat : n + 1 \in Nat
    OBVIOUS
  <2> SUFFICES ASSUME NEW n \in Nat, n \in S PROVE \A off \in Nat : off + (n + 1) >= Len(d) => w[off] \in Seq(AttrsInside)
    BY <2>0, Zenon
  <2>4. \A t \in Nat : t + n >= Len(d) => w[t] \in Seq(AttrsInside)
    BY Zenon
  <2> HIDE DEF S
  <2> SUFFICES ASSUME NEW off \in Nat, off + (n + 1) >= Len(d) PROVE w[off] \in Seq(AttrsInside)
    BY Zenon
  <2>1. CASE ~(off + 4 <= Len(d) /\ off + 4 + Stun!WordAt(d, off + 2) <= Len(d))
    <3>1. w[off] = <<>>
      BY <1>w, <2>1, Zenon DEF AttrsFrom
    <3> QED
      BY <3>1
  <2>2. CASE off + 4 <= Len(d) /\ off + 4 + Stun!WordAt(d, off + 2) <= Len(d)
    <3> DEFINE t == AfterAt(d, off)
               u == SubSeq(d, off + 5, off + 4 + Stun!WordAt(d, off + 2))
               a == [type |-> Stun!WordAt(d, off), value |-> u]
    <3>1. w[off] = <<a>> \o w[t]
      BY <1>w, <2>2, Zenon DEF AttrsFrom, AfterAt
    <3>2. t \in Nat /\ t >= off + 4
      BY Further
    <3>3. w[t] \in Seq(AttrsInside)
      BY <3>2, <1>0, <2>4
    <3>4. Stun!WordAt(d, off) \in 0..MaxWord
      <4>1. ReadAt(d, off)
        BY Reads
      <4>2. Stun!WordAt(d, off) \in Nat /\ Stun!WordAt(d, off) <= MaxWord
        BY <4>1, <2>2, <1>0, SMT DEF ReadAt
      <4> QED
        BY <4>2, WordRange
    <3>5. u \in Seq(Octet)
      <4>1. off + 2 \in Nat
        OBVIOUS
      <4>2. ReadAt(d, off + 2)
        BY <4>1, Reads
      <4>3. Stun!WordAt(d, off + 2) \in Nat
        BY <4>2, SMT DEF ReadAt
      <4> QED
        BY <4>3, <2>2
    <3>6. a \in AttrsInside
      BY <3>4, <3>5, Zenon DEF AttrsInside
    <3> HIDE DEF a, t
    <3> QED
      BY <3>1, <3>3, <3>6
  <2> QED
    BY <2>1, <2>2
<1>3. Len(d) \in S
  <2> HIDE DEF S
  <2>1. Nat \subseteq S
    BY <1>1, <1>2, Induct
  <2> QED
    BY <2>1, <1>0
<1> QED
  BY <1>3, <1>0

LEMMA CodeStaysInside ==
  ASSUME NEW d \in Seq(Octet), NEW end \in Nat, end <= Len(d), NEW w, WalksCode(w, d, end)
  PROVE  \A off \in Nat : w[off] < Stun!Panic
<1> DEFINE S == {n \in Nat : \A off \in Nat : off + n >= Len(d) => w[off] < Stun!Panic}
<1>0. Len(d) \in Nat
  OBVIOUS
<1>w. \A off \in Nat : w[off] = CodeFrom(w, d, end, off)
  BY DEF WalksCode
<1>n. Stun!None < Stun!Panic
  BY PanicIs, SMT DEF Stun!None
<1>1. 0 \in S
  <2>1. ASSUME NEW off \in Nat, off + 0 >= Len(d) PROVE w[off] < Stun!Panic
    <3>1. CodeFrom(w, d, end, off) = Stun!None
      BY <1>0, <2>1, CodeStop
    <3> QED
      BY <3>1, <1>w, <1>n
  <2> QED
    BY <2>1
<1>2. \A n \in Nat : n \in S => n + 1 \in S
  <2>0. \A n \in Nat : n + 1 \in Nat
    OBVIOUS
  <2> SUFFICES ASSUME NEW n \in Nat, n \in S PROVE \A off \in Nat : off + (n + 1) >= Len(d) => w[off] < Stun!Panic
    BY <2>0, Zenon
  <2>4. \A t \in Nat : t + n >= Len(d) => w[t] < Stun!Panic
    BY Zenon
  <2> HIDE DEF S
  <2> SUFFICES ASSUME NEW off \in Nat, off + (n + 1) >= Len(d) PROVE w[off] < Stun!Panic
    BY Zenon
  <2>1. CASE off + 4 > end
    <3>1. CodeFrom(w, d, end, off) = Stun!None
      BY <2>1, CodeStop
    <3> QED
      BY <3>1, <1>w, <1>n
  <2>2. CASE off + 4 <= end /\ Stun!CodeAt(d, off)
    <3>0. off + 8 <= Len(d)
      BY <2>2, Zenon DEF Stun!CodeAt
    <3> DEFINE x == Stun!At(d, off + 6)
               y == Stun!At(d, off + 7)
    <3>1. w[off] = x * 100 + y
      BY <1>w, <2>2 DEF CodeFrom
    <3>2. x \in Nat /\ x <= 255
      <4>1. off + 6 \in Nat /\ (off + 6) + 1 <= Len(d)
        BY <1>0, <3>0
      <4> QED
        BY <4>1, ReadThere
    <3>3. y \in Nat /\ y <= 255
      <4>1. off + 7 \in Nat /\ (off + 7) + 1 <= Len(d)
        BY <1>0, <3>0
      <4> QED
        BY <4>1, ReadThere
    <3> HIDE DEF x, y
    <3>4. x * 100 + y < Stun!Panic
      BY <3>2, <3>3, PanicIs, SMT DEF MaxWord
    <3> QED
      BY <3>1, <3>4
  <2>3. CASE off + 4 <= end /\ ~Stun!CodeAt(d, off)
    <3> DEFINE t == AfterAt(d, off)
    <3>1. w[off] = w[t]
      BY <1>w, <2>3 DEF CodeFrom, AfterAt
    <3>2. t \in Nat /\ t >= off + 4
      BY Further
    <3> HIDE DEF t
    <3>3. w[t] < Stun!Panic
      BY <3>2, <1>0, <2>4
    <3> QED
      BY <3>1, <3>3
  <2> QED
    BY <2>1, <2>2, <2>3
<1>3. Len(d) \in S
  <2> HIDE DEF S
  <2>1. Nat \subseteq S
    BY <1>1, <1>2, Induct
  <2> QED
    BY <2>1, <1>0
<1> QED
  BY <1>3, <1>0

\* Whatever arrives, both parsers stay inside it.
LEMMA ParsesInside ==
  ASSUME NEW d \in Seq(Octet)
  PROVE  /\ Stun!ParseStunErrorCode(d) < Stun!Panic
         /\ \A k \in 1..Len(Stun!ParseStunAttributes(d)) : Stun!ParseStunAttributes(d)[k].type < Stun!Panic
<1>1. Stun!ParseStunErrorCode(d) < Stun!Panic
  <2>1. EndOf(d) \in Nat /\ EndOf(d) <= Len(d)
    BY EndIs
  <2>2. \E w : WalksCode(w, d, EndOf(d))
    BY <2>1, CodeWalked
  <2> DEFINE w == CHOOSE w : WalksCode(w, d, EndOf(d))
  <2>3. WalksCode(w, d, EndOf(d))
    BY <2>2, Zenon
  <2> HIDE DEF w
  <2>4. w[20] < Stun!Panic
    <3>1. \A off \in Nat : w[off] < Stun!Panic
      BY <2>1, <2>3, CodeStaysInside
    <3> QED
      BY <3>1
  <2>5. Stun!None < Stun!Panic
    BY PanicIs, SMT DEF Stun!None
  <2>6. Stun!ParseStunErrorCode(d) \in {w[20], Stun!None}
    BY ParsesCode, Zenon DEF w
  <2> QED
    BY <2>4, <2>5, <2>6, Zenon
<1>2. Stun!ParseStunAttributes(d) \in Seq(AttrsInside)
  <2>2. \E w : WalksAttrs(w, d)
    BY AttrsWalked
  <2> DEFINE w == CHOOSE w : WalksAttrs(w, d)
  <2>3. WalksAttrs(w, d)
    BY <2>2, Zenon
  <2> HIDE DEF w
  <2>4. w[20] \in Seq(AttrsInside)
    <3>1. \A off \in Nat : w[off] \in Seq(AttrsInside)
      BY <2>3, AttrsStayInside
    <3> QED
      BY <3>1
  <2>5. Stun!ParseStunAttributes(d) \in {w[20], <<>>}
    BY ParsesAttrs, Zenon DEF w
  <2>6. <<>> \in Seq(AttrsInside)
    OBVIOUS
  <2> QED
    BY <2>4, <2>5, <2>6, Zenon
<1>3. \A a \in AttrsInside : a.type < Stun!Panic
  <2> SUFFICES ASSUME NEW a \in AttrsInside PROVE a.type < Stun!Panic
    OBVIOUS
  <2>1. a.type \in 0..MaxWord
    BY Zenon DEF AttrsInside
  <2>2. a.type \in Nat /\ a.type <= MaxWord
    BY <2>1, WordRange
  <2> QED
    BY <2>2, PanicIs, SMT DEF MaxWord
<1> DEFINE r == Stun!ParseStunAttributes(d)
<1> HIDE DEF r
<1>4. \A k \in 1..Len(r) : r[k] \in AttrsInside
  BY <1>2 DEF r
<1>5. \A k \in 1..Len(r) : r[k].type < Stun!Panic
  BY <1>3, <1>4
<1> QED
  BY <1>1, <1>5 DEF r

\* The attributes of a message.
Attribute == {a \in [type : 0..MaxWord, value : Seq(Octet)] : Len(a.value) <= 20}

\* Two bytes that spell n.
WordFor(v, n) == v \in Seq(Octet) /\ Len(v) = 2 /\ v[1] * 256 + v[2] = n

LEMMA WordsFor == ASSUME NEW n \in Nat, n <= MaxWord PROVE WordFor(Stun!Word(n), n)
<1> DEFINE a == (n \div 256) % 256
           b == n % 256
<1>1. a \in 0..255 /\ b \in 0..255
  OBVIOUS
<1>2. a * 256 + b = n
  BY SMT DEF MaxWord
<1>3. a \in Octet /\ b \in Octet
  BY <1>1, Zenon DEF Octet
<1>4. Stun!Word(n) = <<a, b>>
  BY Zenon DEF Stun!Word
<1> HIDE DEF a, b
<1>5. <<a, b>> \in Seq(Octet) /\ Len(<<a, b>>) = 2 /\ <<a, b>>[1] = a /\ <<a, b>>[2] = b
  BY <1>3
<1> QED
  BY <1>2, <1>4, <1>5 DEF WordFor

LEMMA NoBytes ==
  ASSUME NEW n \in Nat
  PROVE  Stun!Zeros(n) \in Seq(Octet) /\ Len(Stun!Zeros(n)) = n
<1>1. 0 \in Octet
  BY DEF Octet
<1> QED
  BY <1>1 DEF Stun!Zeros

\* The bytes t spell the attribute a.
SpellsAttr(t, a) ==
  /\ t \in Seq(Octet) /\ Len(t) = 4 + Len(a.value) + Stun!Pad4(Len(a.value))
  /\ t[1] * 256 + t[2] = a.type /\ t[3] * 256 + t[4] = Len(a.value)
  /\ \A j \in 1..Len(a.value) : t[4 + j] = a.value[j]

LEMMA AttrIs ==
  ASSUME NEW a \in Attribute
  PROVE  /\ a.type \in Nat /\ a.type <= MaxWord
         /\ a.value \in Seq(Octet) /\ Len(a.value) \in Nat /\ Len(a.value) <= 20
<1>1. a.type \in 0..MaxWord /\ a.value \in Seq(Octet) /\ Len(a.value) <= 20
  BY Zenon DEF Attribute
<1>2. a.type \in Nat /\ a.type <= MaxWord
  BY <1>1, WordRange, Zenon
<1>3. Len(a.value) \in Nat
  BY <1>1
<1> QED
  BY <1>1, <1>2, <1>3, Zenon

LEMMA AttrSpelled == ASSUME NEW a \in Attribute PROVE SpellsAttr(Stun!StunAttr(a.type, a.value), a)
<1> DEFINE n == Len(a.value)
           x == a.value
           u == Stun!Word(a.type)
           v == Stun!Word(n)
           z == Stun!Zeros(Stun!Pad4(n))
<1>1. /\ a.type \in Nat /\ a.type <= MaxWord
      /\ a.value \in Seq(Octet) /\ n \in Nat /\ n <= 20
  BY AttrIs, Zenon
<1>2. Stun!Pad4(n) \in Nat
  BY <1>1, Padding
<1>3. WordFor(u, a.type)
  BY <1>1, WordsFor
<1>4. WordFor(v, n)
  <2>1. n <= MaxWord
    BY <1>1, SMT DEF MaxWord
  <2> QED
    BY <1>1, <2>1, WordsFor
<1>5. z \in Seq(Octet) /\ Len(z) = Stun!Pad4(n)
  BY <1>2, NoBytes
<1>6. Stun!StunAttr(a.type, a.value) = u \o v \o x \o z
  BY Zenon DEF Stun!StunAttr
<1> DEFINE t == u \o v \o x \o z
<1>7. u \in Seq(Octet) /\ v \in Seq(Octet) /\ x \in Seq(Octet) /\ z \in Seq(Octet) /\ Len(u) = 2 /\ Len(v) = 2
  BY <1>1, <1>3, <1>4, <1>5, Zenon DEF WordFor
<1> HIDE DEF u, v, z, x
<1> DEFINE p == u \o v
           q == p \o x
<1>0. Both(p, u, v, Octet)
  BY <1>7, Halves
<1>d. p \in Seq(Octet)
  BY <1>0, Zenon DEF Both
<1>e. Both(q, p, x, Octet)
  BY <1>7, <1>d, Halves
<1>f. q \in Seq(Octet)
  BY <1>e, Zenon DEF Both
<1>g. Both(t, q, z, Octet)
  BY <1>7, <1>f, Halves
<1> HIDE DEF t, q, p
<1>a. p \in Seq(Octet) /\ Len(p) = 4 /\ p[1] = u[1] /\ p[2] = u[2] /\ p[3] = v[1] /\ p[4] = v[2]
  BY <1>0, <1>7, SMT DEF Both
<1>b. q \in Seq(Octet) /\ Len(q) = 4 + Len(x) /\ (\A j \in 1..4 : q[j] = p[j]) /\ (\A j \in 1..Len(x) : q[4 + j] = x[j])
  BY <1>a, <1>e DEF Both
<1>8. t \in Seq(Octet) /\ Len(t) = 4 + Len(x) + Len(z) /\ \A j \in 1..(4 + Len(x)) : t[j] = q[j]
  BY <1>b, <1>g DEF Both
<1>c. Len(x) \in Nat
  BY <1>7
<1>9. t[1] = u[1] /\ t[2] = u[2]
  BY <1>8, <1>a, <1>b, <1>c
<1>10. t[3] = v[1] /\ t[4] = v[2]
  BY <1>8, <1>a, <1>b, <1>c
<1>11. \A j \in 1..Len(x) : t[4 + j] = x[j]
  BY <1>8, <1>b, <1>c
<1>12. t[1] * 256 + t[2] = a.type /\ t[3] * 256 + t[4] = n
  BY <1>3, <1>4, <1>9, <1>10, Zenon DEF WordFor
<1> QED
  BY <1>5, <1>6, <1>8, <1>11, <1>12, Zenon DEF SpellsAttr, t, q, p, x

\* The bytes of the first k attributes.
FirstAttrs(A, k) == Stun!Encoded(SubSeq(A, 1, k))
BytesUpTo(A, k) == Len(FirstAttrs(A, k))

LEMMA SameFlatten == ASSUME NEW ss PROVE Stun!FlattenSeq(ss) = Video!FlattenSeq(ss)
BY Zenon DEF Stun!FlattenSeq, Video!FlattenSeq

LEMMA EncodedMore ==
  ASSUME NEW A \in Seq(Attribute), NEW a \in Attribute
  PROVE  Stun!Encoded(Append(A, a)) = Stun!Encoded(A) \o Stun!StunAttr(a.type, a.value)
<1> DEFINE f(B) == [k \in 1..Len(B) |-> Stun!StunAttr(B[k].type, B[k].value)]
           B == Append(A, a)
           x == Stun!StunAttr(a.type, a.value)
<1>1. Len(A) \in Nat /\ Len(B) = Len(A) + 1 /\ B[Len(A) + 1] = a /\ \A k \in 1..Len(A) : B[k] = A[k] /\ A[k] \in Attribute
  OBVIOUS
<1>2. \A b \in Attribute : Stun!StunAttr(b.type, b.value) \in Seq(Octet)
  BY AttrSpelled DEF SpellsAttr
<1>3. f(A) \in Seq(Seq(Octet)) /\ Len(f(A)) = Len(A)
  <2>1. \A k \in 1..Len(A) : Stun!StunAttr(A[k].type, A[k].value) \in Seq(Octet)
    BY <1>1, <1>2, Zenon
  <2> QED
    BY <1>1, <2>1
<1>4. x \in Seq(Octet)
  BY <1>2
<1>5. f(B) = Append(f(A), x)
  <2>1. Append(f(A), x) = [k \in 1..(Len(A) + 1) |-> IF k = Len(A) + 1 THEN x ELSE f(A)[k]]
    BY <1>1, <1>3
  <2>2. \A k \in 1..(Len(A) + 1) : f(B)[k] = IF k = Len(A) + 1 THEN x ELSE f(A)[k]
    BY <1>1
  <2>3. f(B) = [k \in 1..(Len(A) + 1) |-> f(B)[k]]
    BY <1>1
  <2> HIDE DEF f, x
  <2> QED
    BY <2>1, <2>2, <2>3
<1>6. Video!FlattenSeq(Append(f(A), x)) = Video!FlattenSeq(f(A)) \o x
  BY <1>3, <1>4, FlattenAppend
<1>7. Stun!Encoded(B) = Stun!FlattenSeq(f(B)) /\ Stun!Encoded(A) = Stun!FlattenSeq(f(A))
  BY Zenon DEF Stun!Encoded
<1> HIDE DEF f, x, B
<1>8. Stun!Encoded(B) = Video!FlattenSeq(f(B)) /\ Stun!Encoded(A) = Video!FlattenSeq(f(A))
  BY <1>7, SameFlatten, Zenon
<1>9. Stun!Encoded(B) = Stun!Encoded(A) \o x
  BY <1>5, <1>6, <1>8, Zenon
<1> QED
  BY <1>9 DEF B, x

LEMMA FirstNone == ASSUME NEW A \in Seq(Attribute) PROVE FirstAttrs(A, 0) = <<>>
<1> DEFINE B == SubSeq(A, 1, 0)
           f == [k \in 1..Len(B) |-> Stun!StunAttr(B[k].type, B[k].value)]
<1>1. Len(B) = 0
  OBVIOUS
<1>2. f = <<>>
  BY <1>1
<1>3. FirstAttrs(A, 0) = Stun!FlattenSeq(f)
  BY Zenon DEF FirstAttrs, Stun!Encoded
<1>4. Len(f) = 0
  BY <1>2
<1> HIDE DEF f
<1>5. Stun!FlattenSeq(f) = f
  BY <1>2, <1>4, Zenon DEF Stun!FlattenSeq
<1> QED
  BY <1>2, <1>3, <1>5, Zenon

LEMMA FirstMore ==
  ASSUME NEW A \in Seq(Attribute), NEW k \in Nat, k < Len(A)
  PROVE  FirstAttrs(A, k + 1) = FirstAttrs(A, k) \o Stun!StunAttr(A[k + 1].type, A[k + 1].value)
<1> DEFINE B == SubSeq(A, 1, k)
           a == A[k + 1]
<1>1. B \in Seq(Attribute) /\ a \in Attribute
  OBVIOUS
<1>2. SubSeq(A, 1, k + 1) = Append(B, a)
  <2> DEFINE C == SubSeq(A, 1, k + 1)
             D == Append(B, a)
  <2>1. C \in Seq(Attribute) /\ Len(C) = k + 1 /\ \A j \in 1..(k + 1) : C[j] = A[j]
    OBVIOUS
  <2>2. Len(B) = k /\ \A j \in 1..k : B[j] = A[j]
    OBVIOUS
  <2> HIDE DEF B
  <2>3. D \in Seq(Attribute) /\ Len(D) = k + 1 /\ D[k + 1] = a /\ \A j \in 1..k : D[j] = B[j]
    BY <1>1, <2>2
  <2>4. \A j \in 1..(k + 1) : C[j] = D[j]
    BY <2>1, <2>2, <2>3
  <2> HIDE DEF C, D
  <2>5. C = D
    BY <2>1, <2>3, <2>4
  <2> QED
    BY <2>5 DEF C, D
<1> HIDE DEF B, a
<1>3. Stun!Encoded(Append(B, a)) = Stun!Encoded(B) \o Stun!StunAttr(a.type, a.value)
  BY <1>1, EncodedMore
<1> QED
  BY <1>2, <1>3, Zenon DEF FirstAttrs, B, a

\* At the offset o of e, a is spelled.
SpellsAt(e, o, a) ==
  /\ e[o + 1] * 256 + e[o + 2] = a.type /\ e[o + 3] * 256 + e[o + 4] = Len(a.value)
  /\ \A j \in 1..Len(a.value) : e[o + (4 + j)] = a.value[j]

\* Where the bytes of a end that start at o.
ValueEnd(o, a) == o + 4 + Len(a.value)

LEMMA Within ==
  ASSUME NEW n \in Nat, NEW m \in Nat, NEW o \in Nat, o + 4 + n <= m
  PROVE  \A j \in 1..(4 + n) : o + j \in 1..m
OBVIOUS

LEMMA SpellsStill ==
  ASSUME NEW e \in Seq(Octet), NEW f, NEW t, Both(f, e, t, Octet), NEW o \in Nat, NEW a \in Attribute,
         SpellsAt(e, o, a), ValueEnd(o, a) <= Len(e)
  PROVE  SpellsAt(f, o, a)
<1>1. Len(a.value) \in Nat /\ Len(e) \in Nat
  BY AttrIs
<1>2. \A j \in 1..Len(e) : f[j] = e[j]
  BY Zenon DEF Both
<1>3. \A j \in 1..(4 + Len(a.value)) : o + j \in 1..Len(e)
  <2>1. o + 4 + Len(a.value) <= Len(e)
    BY Zenon DEF ValueEnd
  <2> QED
    BY <1>1, <2>1, Within
<1>4. \A j \in 1..(4 + Len(a.value)) : f[o + j] = e[o + j]
  BY <1>2, <1>3
<1>5. f[o + 1] = e[o + 1] /\ f[o + 2] = e[o + 2] /\ f[o + 3] = e[o + 3] /\ f[o + 4] = e[o + 4]
  <2>1. 1 \in 1..(4 + Len(a.value)) /\ 2 \in 1..(4 + Len(a.value)) /\ 3 \in 1..(4 + Len(a.value)) /\ 4 \in 1..(4 + Len(a.value))
    BY <1>1
  <2> QED
    BY <1>4, <2>1, Zenon
<1>6. \A j \in 1..Len(a.value) : f[o + (4 + j)] = e[o + (4 + j)]
  <2>1. \A j \in 1..Len(a.value) : 4 + j \in 1..(4 + Len(a.value))
    BY <1>1
  <2> QED
    BY <1>4, <2>1, Zenon
<1> QED
  BY <1>5, <1>6, Zenon DEF SpellsAt

LEMMA SpellsBehind ==
  ASSUME NEW h \in Seq(Octet), NEW e \in Seq(Octet), NEW d, Both(d, h, e, Octet), NEW o \in Nat, NEW a \in Attribute,
         SpellsAt(e, o, a), ValueEnd(o, a) <= Len(e)
  PROVE  SpellsAt(d, Len(h) + o, a)
<1>1. Len(a.value) \in Nat /\ Len(e) \in Nat /\ Len(h) \in Nat
  BY AttrIs
<1>2. \A j \in 1..Len(e) : d[Len(h) + j] = e[j]
  BY Zenon DEF Both
<1>3. \A j \in 1..(4 + Len(a.value)) : o + j \in 1..Len(e) /\ (Len(h) + o) + j = Len(h) + (o + j)
  <2>1. o + 4 + Len(a.value) <= Len(e)
    BY Zenon DEF ValueEnd
  <2>2. \A j \in 1..(4 + Len(a.value)) : o + j \in 1..Len(e)
    BY <1>1, <2>1, Within
  <2>3. \A j \in Int : (Len(h) + o) + j = Len(h) + (o + j)
    BY <1>1
  <2>4. \A j \in 1..(4 + Len(a.value)) : j \in Int
    BY <1>1
  <2> QED
    BY <2>2, <2>3, <2>4, Zenon
<1>4. \A j \in 1..(4 + Len(a.value)) : d[(Len(h) + o) + j] = e[o + j]
  BY <1>2, <1>3
<1> DEFINE s == Len(h) + o
<1>7. \A j \in 1..(4 + Len(a.value)) : d[s + j] = e[o + j]
  BY <1>4
<1> HIDE DEF s
<1>5. d[s + 1] = e[o + 1] /\ d[s + 2] = e[o + 2] /\ d[s + 3] = e[o + 3] /\ d[s + 4] = e[o + 4]
  <2>1. 1 \in 1..(4 + Len(a.value)) /\ 2 \in 1..(4 + Len(a.value)) /\ 3 \in 1..(4 + Len(a.value)) /\ 4 \in 1..(4 + Len(a.value))
    BY <1>1
  <2> QED
    BY <1>7, <2>1, Zenon
<1>6. \A j \in 1..Len(a.value) : d[s + (4 + j)] = e[o + (4 + j)]
  <2>1. \A j \in 1..Len(a.value) : 4 + j \in 1..(4 + Len(a.value))
    BY <1>1
  <2> QED
    BY <1>7, <2>1, Zenon
<1> QED
  BY <1>5, <1>6, Zenon DEF SpellsAt, s

LEMMA SpellsNew ==
  ASSUME NEW e \in Seq(Octet), NEW f, NEW t, Both(f, e, t, Octet), NEW a \in Attribute, SpellsAttr(t, a)
  PROVE  SpellsAt(f, Len(e), a)
<1>1. Len(a.value) \in Nat /\ Len(e) \in Nat
  BY AttrIs
<1>2. \A j \in 1..Len(t) : f[Len(e) + j] = t[j]
  BY Zenon DEF Both
<1>3. Len(t) \in Nat /\ Len(t) >= 4 + Len(a.value)
  <2>1. Stun!Pad4(Len(a.value)) \in 0..3
    BY <1>1, Padding
  <2>2. Len(t) = 4 + Len(a.value) + Stun!Pad4(Len(a.value))
    BY Zenon DEF SpellsAttr
  <2> QED
    BY <1>1, <2>1, <2>2
<1> DEFINE s == Len(e)
<1> HIDE DEF s
<1>4. \A j \in 1..(4 + Len(a.value)) : f[s + j] = t[j]
  BY <1>1, <1>2, <1>3 DEF s
<1>5. f[s + 1] = t[1] /\ f[s + 2] = t[2] /\ f[s + 3] = t[3] /\ f[s + 4] = t[4]
  <2>1. 1 \in 1..(4 + Len(a.value)) /\ 2 \in 1..(4 + Len(a.value)) /\ 3 \in 1..(4 + Len(a.value)) /\ 4 \in 1..(4 + Len(a.value))
    BY <1>1
  <2> QED
    BY <1>4, <2>1, Zenon
<1>6. \A j \in 1..Len(a.value) : f[s + (4 + j)] = t[4 + j]
  <2>1. \A j \in 1..Len(a.value) : 4 + j \in 1..(4 + Len(a.value))
    BY <1>1
  <2> QED
    BY <1>4, <2>1, Zenon
<1> QED
  BY <1>5, <1>6, Zenon DEF SpellsAt, SpellsAttr, s

\* The first n attributes of A in their bytes, one behind the other.
Steps(A, k) ==
  /\ BytesUpTo(A, k - 1) \in Nat
  /\ BytesUpTo(A, k) = ValueEnd(BytesUpTo(A, k - 1), A[k]) + Stun!Pad4(Len(A[k].value))
Placed(A, n) ==
  /\ FirstAttrs(A, n) \in Seq(Octet) /\ BytesUpTo(A, n) <= 27 * n
  /\ \A k \in 1..n : /\ Steps(A, k) /\ BytesUpTo(A, k) <= BytesUpTo(A, n)
                     /\ SpellsAt(FirstAttrs(A, n), BytesUpTo(A, k - 1), A[k])

LEMMA StepsOn ==
  ASSUME NEW A \in Seq(Attribute), NEW k \in 1..Len(A), Steps(A, k)
  PROVE  /\ BytesUpTo(A, k - 1) \in Nat /\ BytesUpTo(A, k) \in Nat
         /\ ValueEnd(BytesUpTo(A, k - 1), A[k]) \in Nat
         /\ BytesUpTo(A, k - 1) + 4 <= ValueEnd(BytesUpTo(A, k - 1), A[k])
         /\ ValueEnd(BytesUpTo(A, k - 1), A[k]) <= BytesUpTo(A, k)
         /\ BytesUpTo(A, k) <= BytesUpTo(A, k - 1) + 27
<1>1. A[k] \in Attribute
  OBVIOUS
<1>2. Len(A[k].value) \in Nat /\ Len(A[k].value) <= 20
  BY <1>1, AttrIs
<1>3. Stun!Pad4(Len(A[k].value)) \in 0..3
  BY <1>2, Padding
<1> DEFINE n == Len(A[k].value)
           q == Stun!Pad4(n)
           o == BytesUpTo(A, k - 1)
<1>4. /\ o \in Nat /\ BytesUpTo(A, k) = o + 4 + n + q /\ ValueEnd(o, A[k]) = o + 4 + n
  BY Zenon DEF Steps, ValueEnd
<1> HIDE DEF n, q, o
<1>5. n \in Nat /\ n <= 20 /\ q \in Nat /\ q <= 3
  BY <1>2, <1>3 DEF n, q
<1>6. /\ o \in Nat /\ BytesUpTo(A, k) \in Nat /\ ValueEnd(o, A[k]) \in Nat
      /\ o + 4 <= ValueEnd(o, A[k]) /\ ValueEnd(o, A[k]) <= BytesUpTo(A, k) /\ BytesUpTo(A, k) <= o + 27
  BY <1>4, <1>5, SMT
<1> QED
  BY <1>6, Zenon DEF o

LEMMA AllPlaced == ASSUME NEW A \in Seq(Attribute) PROVE \A n \in 0..Len(A) : Placed(A, n)
<1> DEFINE S == {n \in Nat : n <= Len(A) => Placed(A, n)}
<1>0. Len(A) \in Nat
  OBVIOUS
<1>1. 0 \in S
  <2>1. FirstAttrs(A, 0) = <<>>
    BY FirstNone
  <2>2. FirstAttrs(A, 0) \in Seq(Octet) /\ BytesUpTo(A, 0) <= 27 * 0
    <3>1. <<>> \in Seq(Octet) /\ Len(<<>>) = 0 /\ 0 <= 27 * 0
      OBVIOUS
    <3> QED
      BY <2>1, <3>1, Zenon DEF BytesUpTo
  <2>3. 1..0 = {}
    OBVIOUS
  <2>4. Placed(A, 0)
    BY <2>2, <2>3, Zenon DEF Placed
  <2> QED
    BY <2>4
<1>2. \A n \in Nat : n \in S => n + 1 \in S
  <2>0. \A n \in Nat : n + 1 \in Nat /\ (n + 1 <= Len(A) => n <= Len(A) /\ n < Len(A))
    BY <1>0
  <2> SUFFICES ASSUME NEW n \in Nat, Placed(A, n), n < Len(A) PROVE Placed(A, n + 1)
    BY <2>0, Zenon
  <2> DEFINE e == FirstAttrs(A, n)
             f == FirstAttrs(A, n + 1)
             a == A[n + 1]
             t == Stun!StunAttr(a.type, a.value)
  <2>1. a \in Attribute
    OBVIOUS
  <2>2. SpellsAttr(t, a)
    BY <2>1, AttrSpelled
  <2>3. e \in Seq(Octet) /\ BytesUpTo(A, n) <= 27 * n /\ Len(e) = BytesUpTo(A, n)
    BY Zenon DEF Placed, BytesUpTo
  <2>4. t \in Seq(Octet)
    BY <2>2, Zenon DEF SpellsAttr
  <2>5. f = e \o t
    BY FirstMore
  <2>6. Both(f, e, t, Octet)
    <3> HIDE DEF e, t, f
    <3> QED
      BY <2>3, <2>4, <2>5, Halves
  <2> HIDE DEF e, t, f, a
  <2>7. f \in Seq(Octet) /\ Len(f) = Len(e) + Len(t)
    BY <2>6, Zenon DEF Both
  <2>8. Len(f) = BytesUpTo(A, n + 1)
    BY Zenon DEF f, BytesUpTo
  <2>9. (n + 1) - 1 = n
    OBVIOUS
  <2>10. Steps(A, n + 1)
    <3>1. Len(t) = 4 + Len(a.value) + Stun!Pad4(Len(a.value))
      BY <2>2, Zenon DEF SpellsAttr
    <3>2. Len(a.value) \in Nat
      BY <2>1, AttrIs
    <3>3. Stun!Pad4(Len(a.value)) \in 0..3
      BY <3>2, Padding
    <3>4. BytesUpTo(A, n) \in Nat
      BY <2>3
    <3>5. BytesUpTo(A, n + 1) = BytesUpTo(A, n) + 4 + Len(a.value) + Stun!Pad4(Len(a.value))
      <4> DEFINE n4 == Len(a.value)
                 q == Stun!Pad4(n4)
      <4> HIDE DEF n4, q
      <4>1. n4 \in Nat /\ q \in Nat /\ Len(t) = 4 + n4 + q
        BY <3>1, <3>2, <3>3 DEF n4, q
      <4>2. BytesUpTo(A, n + 1) = BytesUpTo(A, n) + (4 + n4 + q)
        BY <2>3, <2>7, <2>8, <4>1, Zenon
      <4>3. BytesUpTo(A, n + 1) = BytesUpTo(A, n) + 4 + n4 + q
        BY <4>1, <4>2, <3>4
      <4> QED
        BY <4>3 DEF n4, q
    <3> QED
      BY <2>9, <3>4, <3>5, Zenon DEF Steps, ValueEnd, a
  <2>11. /\ BytesUpTo(A, n) \in Nat /\ BytesUpTo(A, n + 1) \in Nat
         /\ BytesUpTo(A, n) <= BytesUpTo(A, n + 1)
         /\ BytesUpTo(A, n + 1) <= BytesUpTo(A, n) + 27
    <3>1. n + 1 \in 1..Len(A)
      BY <1>0
    <3>2. /\ BytesUpTo(A, n) \in Nat /\ BytesUpTo(A, n + 1) \in Nat
          /\ ValueEnd(BytesUpTo(A, n), a) \in Nat
          /\ BytesUpTo(A, n) + 4 <= ValueEnd(BytesUpTo(A, n), a)
          /\ ValueEnd(BytesUpTo(A, n), a) <= BytesUpTo(A, n + 1)
          /\ BytesUpTo(A, n + 1) <= BytesUpTo(A, n) + 27
      BY <3>1, <2>9, <2>10, StepsOn, Zenon DEF a
    <3> QED
      BY <3>2
  <2>12. BytesUpTo(A, n + 1) <= 27 * (n + 1)
    BY <2>3, <2>11
  <2>13. ASSUME NEW k \in 1..(n + 1)
         PROVE  Steps(A, k) /\ BytesUpTo(A, k) <= BytesUpTo(A, n + 1) /\ SpellsAt(f, BytesUpTo(A, k - 1), A[k])
    <3>1. CASE k = n + 1
      <4>1. SpellsAt(f, Len(e), a)
        BY <2>1, <2>2, <2>3, <2>6, SpellsNew
      <4>2. SpellsAt(f, BytesUpTo(A, k - 1), A[k])
        BY <3>1, <4>1, <2>3, <2>9 DEF a
      <4> QED
        BY <3>1, <2>10, <2>11, <4>2
    <3>2. CASE k \in 1..n
      <4>1. Steps(A, k) /\ BytesUpTo(A, k) <= BytesUpTo(A, n) /\ SpellsAt(e, BytesUpTo(A, k - 1), A[k])
        BY <3>2, Zenon DEF Placed, e
      <4>2. k \in 1..Len(A) /\ A[k] \in Attribute
        BY <1>0, <3>2
      <4>3. /\ BytesUpTo(A, k - 1) \in Nat /\ BytesUpTo(A, k) \in Nat
            /\ ValueEnd(BytesUpTo(A, k - 1), A[k]) \in Nat
            /\ ValueEnd(BytesUpTo(A, k - 1), A[k]) <= BytesUpTo(A, k)
        BY <4>1, <4>2, StepsOn
      <4>4. ValueEnd(BytesUpTo(A, k - 1), A[k]) <= Len(e) /\ BytesUpTo(A, k) <= BytesUpTo(A, n + 1)
        BY <4>1, <4>3, <2>3, <2>11
      <4>5. SpellsAt(f, BytesUpTo(A, k - 1), A[k])
        BY <4>1, <4>2, <4>3, <4>4, <2>3, <2>6, SpellsStill
      <4> QED
        BY <4>1, <4>4, <4>5
    <3> QED
      BY <3>1, <3>2
  <2> QED
    BY <2>7, <2>12, <2>13, Zenon DEF Placed, f
<1>3. ASSUME NEW n \in 0..Len(A) PROVE Placed(A, n)
  <2> HIDE DEF S
  <2>1. Nat \subseteq S
    BY <1>1, <1>2, Induct
  <2>2. n \in Nat /\ n <= Len(A)
    BY <1>0
  <2> QED
    BY <2>1, <2>2, Zenon DEF S
<1> QED
  BY <1>3

\* The first twenty bytes of a message.
Heads(h, type, n) ==
  /\ h \in Seq(Octet) /\ Len(h) = 20
  /\ h[1] * 256 + h[2] = type /\ h[3] * 256 + h[4] = n
  /\ \A j \in 1..12 : h[8 + j] = Stun!TransactionID[j]

LEMMA HeaderHeads ==
  ASSUME NEW type \in Nat, type <= MaxWord, NEW n \in Nat, n <= MaxWord
  PROVE  Heads(Stun!StunHeader(type, n), type, n)
<1> DEFINE u == Stun!Word(type)
           v == Stun!Word(n)
           x == Stun!Magic
           y == Stun!TransactionID
           p == u \o v
           q == p \o x
           t == q \o y
<1>1. Stun!StunHeader(type, n) = t
  BY Zenon DEF Stun!StunHeader
<1>2. WordFor(u, type) /\ WordFor(v, n)
  BY WordsFor
<1>3. x \in Seq(Octet) /\ Len(x) = 4
  <2>1. 33 \in Octet /\ 18 \in Octet /\ 164 \in Octet /\ 66 \in Octet
    BY SMT DEF Octet
  <2>2. \A a, b, c, e \in Octet : <<a, b, c, e>> \in Seq(Octet) /\ Len(<<a, b, c, e>>) = 4
    OBVIOUS
  <2> QED
    BY <2>1, <2>2, Zenon DEF Stun!Magic
<1>4. y \in Seq(Octet) /\ Len(y) = 12
  <2>1. \A j \in 1..12 : 100 + j \in Octet
    BY SMT DEF Octet
  <2>2. y = [j \in 1..12 |-> 100 + j]
    BY Zenon DEF Stun!TransactionID
  <2>3. y \in [1..12 -> Octet]
    BY <2>1, <2>2
  <2> HIDE DEF y
  <2> QED
    BY <2>3, FunctionIsSeq
<1>5. u \in Seq(Octet) /\ v \in Seq(Octet) /\ Len(u) = 2 /\ Len(v) = 2
  BY <1>2, Zenon DEF WordFor
<1> HIDE DEF u, v, x, y
<1>6. Both(p, u, v, Octet)
  BY <1>5, Halves
<1>7. p \in Seq(Octet) /\ Len(p) = 4
  BY <1>5, <1>6, SMT DEF Both
<1> HIDE DEF p
<1>8. Both(q, p, x, Octet)
  BY <1>3, <1>7, Halves
<1>9. q \in Seq(Octet) /\ Len(q) = 8
  BY <1>3, <1>7, <1>8, SMT DEF Both
<1> HIDE DEF q
<1>10. Both(t, q, y, Octet)
  BY <1>4, <1>9, Halves
<1> HIDE DEF t
<1>11. t \in Seq(Octet) /\ Len(t) = 20 /\ \A j \in 1..12 : t[8 + j] = y[j]
  BY <1>4, <1>9, <1>10, SMT DEF Both
<1>12. p[1] = u[1] /\ p[2] = u[2] /\ p[3] = v[1] /\ p[4] = v[2]
  BY <1>5, <1>6, SMT DEF Both
<1>13. q[1] = p[1] /\ q[2] = p[2] /\ q[3] = p[3] /\ q[4] = p[4]
  BY <1>7, <1>8, SMT DEF Both
<1>14. t[1] = q[1] /\ t[2] = q[2] /\ t[3] = q[3] /\ t[4] = q[4]
  BY <1>9, <1>10, SMT DEF Both
<1>15. t[1] * 256 + t[2] = type /\ t[3] * 256 + t[4] = n
  BY <1>2, <1>12, <1>13, <1>14, Zenon DEF WordFor
<1> QED
  BY <1>1, <1>11, <1>15, Zenon DEF Heads, y

\* Where the k-th attribute of a message starts, and where its value ends.
StartOf(A, k) == 20 + BytesUpTo(A, k - 1)
EndsAt(A, k) == ValueEnd(StartOf(A, k), A[k])

\* d is a message with these attributes.
Layout(d, type, A) ==
  /\ d \in Seq(Octet) /\ Len(d) = StartOf(A, Len(A) + 1)
  /\ d[1] * 256 + d[2] = type /\ d[3] * 256 + d[4] = Len(d) - 20
  /\ \A j \in 1..12 : d[8 + j] = Stun!TransactionID[j]
  /\ \A k \in 1..Len(A) : SpellsAt(d, StartOf(A, k), A[k])

LEMMA LaidOut ==
  ASSUME NEW A \in Seq(Attribute), Len(A) <= 16, NEW type \in Nat, type <= MaxWord
  PROVE  Layout(Stun!StunHeader(type, Len(Stun!Encoded(A))) \o Stun!Encoded(A), type, A)
<1> DEFINE n == Len(A)
           e == Stun!Encoded(A)
           h == Stun!StunHeader(type, Len(e))
           d == h \o e
<1>1. n \in Nat /\ n \in 0..n /\ SubSeq(A, 1, n) = A
  OBVIOUS
<1>2. Placed(A, n)
  BY <1>1, AllPlaced
<1>3. e = FirstAttrs(A, n) /\ Len(e) = BytesUpTo(A, n)
  BY <1>1, Zenon DEF FirstAttrs, BytesUpTo
<1>4. e \in Seq(Octet) /\ Len(e) <= 27 * n
  BY <1>2, <1>3, Zenon DEF Placed
<1> HIDE DEF e
<1>5. Len(e) \in Nat /\ Len(e) <= MaxWord
  BY <1>1, <1>4, SMT DEF MaxWord
<1>6. Heads(h, type, Len(e))
  BY <1>5, HeaderHeads
<1> HIDE DEF h
<1>7. h \in Seq(Octet) /\ Len(h) = 20
  BY <1>6, Zenon DEF Heads
<1>8. Both(d, h, e, Octet)
  BY <1>4, <1>7, Halves
<1> HIDE DEF d
<1>9. d \in Seq(Octet) /\ Len(d) = 20 + Len(e) /\ \A j \in 1..20 : d[j] = h[j]
  BY <1>7, <1>8, SMT DEF Both
<1>10. d[1] = h[1] /\ d[2] = h[2] /\ d[3] = h[3] /\ d[4] = h[4] /\ \A j \in 1..12 : d[8 + j] = h[8 + j]
  BY <1>9
<1>11. d[1] * 256 + d[2] = type /\ d[3] * 256 + d[4] = Len(e) /\ \A j \in 1..12 : d[8 + j] = Stun!TransactionID[j]
  BY <1>6, <1>10, Zenon DEF Heads
<1>12. Len(e) = Len(d) - 20
  BY <1>5, <1>9
<1>13. Len(d) = StartOf(A, n + 1)
  <2>1. (n + 1) - 1 = n
    BY <1>1
  <2> QED
    BY <1>3, <1>9, <2>1, Zenon DEF StartOf
<1>14. ASSUME NEW k \in 1..n PROVE SpellsAt(d, StartOf(A, k), A[k])
  <2> DEFINE o == BytesUpTo(A, k - 1)
             a == A[k]
  <2>1. Steps(A, k) /\ BytesUpTo(A, k) <= Len(e) /\ SpellsAt(e, o, a) /\ a \in Attribute
    BY <1>2, <1>3 DEF Placed
  <2>2. o \in Nat /\ BytesUpTo(A, k) \in Nat /\ ValueEnd(o, a) \in Nat /\ ValueEnd(o, a) <= BytesUpTo(A, k)
    BY <2>1, StepsOn
  <2>3. ValueEnd(o, a) <= Len(e)
    BY <2>1, <2>2, <1>5
  <2> HIDE DEF o, a
  <2>4. SpellsAt(d, Len(h) + o, a)
    BY <1>4, <1>7, <1>8, <2>1, <2>2, <2>3, SpellsBehind
  <2> QED
    BY <1>7, <2>4, Zenon DEF StartOf, o, a
<1>15. Layout(d, type, A)
  BY <1>9, <1>11, <1>12, <1>13, <1>14, Zenon DEF Layout
<1> QED
  BY <1>15 DEF d, h, e

\* p is the first m bytes of d.
Part(p, d, m) == p \in Seq(Octet) /\ Len(p) = m /\ \A j \in 1..m : p[j] = d[j]

\* What is read of the attribute a that starts at s, as far as it has arrived.
ReadsOf(p, s, a, m) ==
  /\ s + 4 <= m => Stun!WordAt(p, s) = a.type /\ Stun!WordAt(p, s + 2) = Len(a.value)
  /\ ValueEnd(s, a) <= m => SubSeq(p, s + 5, ValueEnd(s, a)) = a.value
  /\ Len(a.value) >= 4 /\ s + 8 <= m =>
       Stun!At(p, s + 6) * 100 + Stun!At(p, s + 7) = a.value[3] * 100 + a.value[4]

LEMMA PartReads ==
  ASSUME NEW d \in Seq(Octet), NEW m \in Nat, NEW p, Part(p, d, m), NEW s \in Nat, NEW a \in Attribute, SpellsAt(d, s, a)
  PROVE  ReadsOf(p, s, a, m)
<1> DEFINE n == Len(a.value)
<1>1. n \in Nat /\ a.value \in Seq(Octet)
  BY AttrIs
<1>2. p \in Seq(Octet) /\ Len(p) = m /\ \A j \in 1..m : p[j] = d[j]
  BY Zenon DEF Part
<1>3. ASSUME NEW o \in Nat, o < m PROVE Stun!At(p, o) = d[o + 1]
  <2>1. Stun!At(p, o) = p[o + 1]
    BY <1>2, <1>3, Zenon DEF Stun!At
  <2>2. o + 1 \in 1..m
    BY <1>3
  <2> QED
    BY <1>2, <2>1, <2>2, Zenon
<1> HIDE DEF n
<1>4. ASSUME s + 4 <= m PROVE Stun!WordAt(p, s) = a.type /\ Stun!WordAt(p, s + 2) = n
  <2>1. s < m /\ s + 1 \in Nat /\ s + 1 < m /\ s + 2 \in Nat /\ s + 2 < m /\ s + 3 \in Nat /\ s + 3 < m
    BY <1>4
  <2>2. (s + 1) + 1 = s + 2 /\ (s + 2) + 1 = s + 3 /\ (s + 3) + 1 = s + 4
    OBVIOUS
  <2>3. Stun!At(p, s) = d[s + 1] /\ Stun!At(p, s + 1) = d[s + 2] /\ Stun!At(p, s + 2) = d[s + 3] /\ Stun!At(p, s + 3) = d[s + 4]
    BY <1>3, <2>1, <2>2, Zenon
  <2>4. Stun!WordAt(p, s) = d[s + 1] * 256 + d[s + 2] /\ Stun!WordAt(p, s + 2) = d[s + 3] * 256 + d[s + 4]
    BY <2>2, <2>3, Zenon DEF Stun!WordAt
  <2> QED
    BY <2>4, Zenon DEF SpellsAt, n
<1>5. ASSUME ValueEnd(s, a) <= m PROVE SubSeq(p, s + 5, ValueEnd(s, a)) = a.value
  <2> DEFINE v == a.value
             u == SubSeq(p, s + 5, s + 4 + n)
  <2>0. ValueEnd(s, a) = s + 4 + n
    BY Zenon DEF ValueEnd, n
  <2>1. s + 4 + n <= m
    BY <1>5, <2>0
  <2>2. \A j \in 1..n : s + (4 + j) \in 1..m /\ (s + 5) + j - 1 = s + (4 + j)
    <3>1. \A j \in 1..(4 + n) : s + j \in 1..m
      BY <1>1, <2>1, Within
    <3>2. \A j \in 1..n : 4 + j \in 1..(4 + n) /\ (s + 5) + j - 1 = s + (4 + j)
      BY <1>1
    <3> QED
      BY <3>1, <3>2, Zenon
  <2>3. u \in Seq(Octet) /\ Len(u) = n /\ \A j \in 1..n : u[j] = p[(s + 5) + j - 1]
    BY <1>1, <1>2, <2>1
  <2>4. \A j \in 1..n : u[j] = d[s + (4 + j)]
    BY <1>2, <2>2, <2>3, Zenon
  <2>5. \A j \in 1..n : d[s + (4 + j)] = v[j]
    BY Zenon DEF SpellsAt, n
  <2>6. v \in Seq(Octet) /\ Len(v) = n
    BY <1>1 DEF n
  <2> HIDE DEF u, v
  <2>7. u = v
    BY <2>3, <2>4, <2>5, <2>6
  <2> QED
    BY <2>0, <2>7, Zenon DEF u, v
<1>6. ASSUME n >= 4, s + 8 <= m PROVE Stun!At(p, s + 6) * 100 + Stun!At(p, s + 7) = a.value[3] * 100 + a.value[4]
  <2>1. s + 6 \in Nat /\ s + 6 < m /\ s + 7 \in Nat /\ s + 7 < m
    BY <1>6
  <2>2. (s + 6) + 1 = s + (4 + 3) /\ (s + 7) + 1 = s + (4 + 4) /\ 3 \in 1..n /\ 4 \in 1..n
    BY <1>1, <1>6
  <2>3. Stun!At(p, s + 6) = d[s + (4 + 3)] /\ Stun!At(p, s + 7) = d[s + (4 + 4)]
    BY <1>3, <2>1, <2>2, Zenon
  <2>4. d[s + (4 + 3)] = a.value[3] /\ d[s + (4 + 4)] = a.value[4]
    BY <2>2, Zenon DEF SpellsAt, n
  <2> QED
    BY <2>3, <2>4, Zenon
<1> QED
  BY <1>4, <1>5, <1>6, Zenon DEF ReadsOf, n

\* The k-th attribute lies behind those before it.
InOrder(A, k) ==
  /\ StartOf(A, k) \in Nat /\ EndsAt(A, k) \in Nat /\ StartOf(A, k + 1) \in Nat
  /\ StartOf(A, k) >= 20 /\ StartOf(A, k) + 4 <= EndsAt(A, k) /\ EndsAt(A, k) <= StartOf(A, k + 1)
  /\ StartOf(A, k + 1) = StartOf(A, k) + 4 + Len(A[k].value) + Stun!Pad4(Len(A[k].value))
  /\ \A l \in (k + 1)..Len(A) : StartOf(A, k + 1) <= StartOf(A, l)

LEMMA AllInOrder == ASSUME NEW A \in Seq(Attribute), NEW k \in 1..Len(A) PROVE InOrder(A, k)
<1> DEFINE o == BytesUpTo(A, k - 1)
           r == BytesUpTo(A, k)
           v == ValueEnd(o, A[k])
           n == Len(A[k].value)
           q == Stun!Pad4(n)
<1>0. Len(A) \in Nat /\ k \in 0..Len(A) /\ k \in 1..k /\ k \in Nat /\ (k + 1) - 1 = k
  OBVIOUS
<1>1. Placed(A, k)
  BY <1>0, AllPlaced
<1>2. Steps(A, k)
  BY <1>0, <1>1, Zenon DEF Placed
<1>3. o \in Nat /\ r \in Nat /\ v \in Nat /\ o + 4 <= v /\ v <= r
  BY <1>2, StepsOn, Zenon
<1>4. r = v + q /\ v = o + 4 + n
  BY <1>2, Zenon DEF Steps, ValueEnd
<1>5. A[k] \in Attribute
  OBVIOUS
<1>6. n \in Nat
  BY <1>5, AttrIs
<1>7. q \in Nat
  BY <1>6, Padding
<1>8. EndsAt(A, k) = 20 + o + 4 + n /\ StartOf(A, k) = 20 + o /\ StartOf(A, k + 1) = 20 + r
  BY <1>0, Zenon DEF EndsAt, StartOf, ValueEnd
<1>9. ASSUME NEW l \in (k + 1)..Len(A) PROVE StartOf(A, k + 1) <= StartOf(A, l)
  <2>1. l - 1 \in 0..Len(A) /\ k \in 1..(l - 1)
    BY <1>0
  <2>2. Placed(A, l - 1)
    BY <2>1, AllPlaced
  <2>3. r <= BytesUpTo(A, l - 1)
    BY <2>1, <2>2, Zenon DEF Placed
  <2>4. StartOf(A, l) = 20 + BytesUpTo(A, l - 1)
    BY Zenon DEF StartOf
  <2>5. FirstAttrs(A, l - 1) \in Seq(Octet)
    BY <2>2, Zenon DEF Placed
  <2>6. BytesUpTo(A, l - 1) \in Nat
    BY <2>5 DEF BytesUpTo
  <2> HIDE DEF r
  <2> QED
    BY <1>3, <1>8, <2>3, <2>4, <2>6
<1> HIDE DEF o, r, v, n, q
<1>10. /\ StartOf(A, k) \in Nat /\ EndsAt(A, k) \in Nat /\ StartOf(A, k + 1) \in Nat
       /\ StartOf(A, k) >= 20 /\ StartOf(A, k) + 4 <= EndsAt(A, k) /\ EndsAt(A, k) <= StartOf(A, k + 1)
       /\ StartOf(A, k + 1) = StartOf(A, k) + 4 + n + q
  BY <1>3, <1>4, <1>6, <1>7, <1>8, SMT
<1> QED
  BY <1>9, <1>10, Zenon DEF InOrder, n, q

\* What is read of p is A from its k-th attribute on, as far as it has arrived.
ReadFrom(r, A, k, m) ==
  \E c \in (k - 1)..Len(A) : r = SubSeq(A, k, c) /\ \A l \in k..Len(A) : l <= c <=> EndsAt(A, l) <= m

LEMMA ReadsNext ==
  ASSUME NEW A \in Seq(Attribute), NEW k \in 1..Len(A), NEW c \in k..Len(A)
  PROVE  <<A[k]>> \o SubSeq(A, k + 1, c) = SubSeq(A, k, c)
<1> DEFINE u == SubSeq(A, k + 1, c)
           v == <<A[k]>> \o u
           w == SubSeq(A, k, c)
<1>1. A[k] \in Attribute /\ Len(A) \in Nat
  OBVIOUS
<1>2. u \in Seq(Attribute) /\ Len(u) = c - k /\ \A j \in 1..(c - k) : u[j] = A[k + 1 + j - 1]
  OBVIOUS
<1> HIDE DEF u
<1>3. v \in Seq(Attribute) /\ Len(v) = c - k + 1 /\ v[1] = A[k] /\ \A j \in 1..(c - k) : v[1 + j] = u[j]
  BY <1>1, <1>2
<1>4. w \in Seq(Attribute) /\ Len(w) = c - k + 1 /\ \A j \in 1..(c - k + 1) : w[j] = A[k + j - 1]
  OBVIOUS
<1> HIDE DEF v, w
<1>5. ASSUME NEW j \in 1..(c - k + 1) PROVE v[j] = w[j]
  <2>1. CASE j = 1
    BY <2>1, <1>3, <1>4
  <2>2. CASE j # 1
    <3>1. j - 1 \in 1..(c - k) /\ 1 + (j - 1) = j /\ k + 1 + (j - 1) - 1 = k + j - 1
      BY <2>2
    <3>2. v[j] = u[j - 1] /\ u[j - 1] = A[k + j - 1]
      BY <1>2, <1>3, <3>1, Zenon
    <3> QED
      BY <1>4, <3>2
  <2> QED
    BY <2>1, <2>2
<1>6. v = w
  BY <1>3, <1>4, <1>5
<1> QED
  BY <1>6 DEF v, u, w

LEMMA AttrsWalk ==
  ASSUME NEW A \in Seq(Attribute), NEW type, NEW d, Layout(d, type, A),
         NEW m \in Nat, m <= Len(d), NEW p, Part(p, d, m), NEW w, WalksAttrs(w, p)
  PROVE  \A k \in 1..(Len(A) + 1) : ReadFrom(w[StartOf(A, k)], A, k, m)
<1> DEFINE R(k) == ReadFrom(w[StartOf(A, k)], A, k, m)
           S == {n \in Nat : n <= Len(A) => R(Len(A) + 1 - n)}
<1>0. Len(A) \in Nat
  OBVIOUS
<1>d. d \in Seq(Octet) /\ Len(d) = StartOf(A, Len(A) + 1) /\ \A k \in 1..Len(A) : SpellsAt(d, StartOf(A, k), A[k])
  BY Zenon DEF Layout
<1>p. p \in Seq(Octet) /\ Len(p) = m
  BY Zenon DEF Part
<1>w. \A off \in Nat : w[off] = AttrsFrom(w, p, off)
  BY DEF WalksAttrs
<1>1. R(Len(A) + 1)
  <2>1. StartOf(A, Len(A) + 1) \in Nat /\ StartOf(A, Len(A) + 1) + 4 > Len(p)
    BY <1>d, <1>p
  <2>2. w[StartOf(A, Len(A) + 1)] = <<>>
    BY <1>w, <1>p, <2>1, AttrsStop
  <2>3. SubSeq(A, Len(A) + 1, Len(A)) = <<>>
    BY <1>0
  <2>4. Len(A) \in ((Len(A) + 1) - 1)..Len(A) /\ (Len(A) + 1)..Len(A) = {}
    BY <1>0
  <2> QED
    BY <2>2, <2>3, <2>4, Zenon DEF ReadFrom
<1>2. ASSUME NEW k \in 1..Len(A), R(k + 1) PROVE R(k)
  <2> DEFINE s == StartOf(A, k)
             a == A[k]
             t == StartOf(A, k + 1)
  <2>1. InOrder(A, k)
    BY AllInOrder
  <2>2. s \in Nat /\ a \in Attribute /\ SpellsAt(d, s, a)
    BY <2>1, <1>d DEF InOrder
  <2>3. ReadsOf(p, s, a, m)
    <3> HIDE DEF s, a
    <3> QED
      BY <1>d, <2>2, PartReads
  <2>4. /\ t \in Nat /\ s + 4 <= EndsAt(A, k) /\ EndsAt(A, k) <= t /\ EndsAt(A, k) \in Nat
        /\ t = s + 4 + Len(a.value) + Stun!Pad4(Len(a.value))
        /\ \A l \in (k + 1)..Len(A) : t <= StartOf(A, l)
    BY <2>1, Zenon DEF InOrder
  <2>5. EndsAt(A, k) = ValueEnd(s, a) /\ ValueEnd(s, a) = s + 4 + Len(a.value)
    BY Zenon DEF EndsAt, ValueEnd
  <2>6. ASSUME NEW l \in k..Len(A) PROVE EndsAt(A, l) \in Nat /\ EndsAt(A, k) <= EndsAt(A, l)
    <3>1. CASE l = k
      BY <3>1, <2>4
    <3>2. CASE l # k
      <4>1. l \in (k + 1)..Len(A) /\ l \in 1..Len(A)
        BY <3>2, <1>0
      <4>2. InOrder(A, l)
        BY <4>1, AllInOrder
      <4>3. EndsAt(A, l) \in Nat /\ StartOf(A, l) \in Nat /\ StartOf(A, l) + 4 <= EndsAt(A, l) /\ t <= StartOf(A, l)
        BY <4>1, <4>2, <2>4, Zenon DEF InOrder
      <4> HIDE DEF t, s, a
      <4> QED
        BY <4>3, <2>4
    <3> QED
      BY <3>1, <3>2
  <2>7. CASE EndsAt(A, k) <= m
    <3>0. s + 4 <= m
      BY <2>2, <2>4, <2>7
    <3>1. /\ Stun!WordAt(p, s) = a.type /\ Stun!WordAt(p, s + 2) = Len(a.value)
          /\ SubSeq(p, s + 5, s + 4 + Len(a.value)) = a.value
      BY <2>3, <2>5, <2>7, <3>0, Zenon DEF ReadsOf
    <3>2. s + 4 <= Len(p) /\ s + 4 + Stun!WordAt(p, s + 2) <= Len(p)
      BY <1>p, <2>5, <2>7, <3>0, <3>1, Zenon
    <3>3. w[s] = <<[type |-> a.type, value |-> a.value]>> \o w[t]
      BY <1>w, <2>2, <2>4, <3>1, <3>2, Zenon DEF AttrsFrom
    <3>4. [type |-> a.type, value |-> a.value] = a
      BY <2>2 DEF Attribute
    <3>5. PICK c \in ((k + 1) - 1)..Len(A) :
            w[t] = SubSeq(A, k + 1, c) /\ \A l \in (k + 1)..Len(A) : l <= c <=> EndsAt(A, l) <= m
      BY <1>2, Zenon DEF ReadFrom
    <3>6. c \in k..Len(A)
      BY <1>0, <3>5
    <3>7. w[s] = SubSeq(A, k, c)
      BY <3>3, <3>4, <3>5, <3>6, ReadsNext, Zenon
    <3>8. c \in (k - 1)..Len(A) /\ \A l \in k..Len(A) : l <= c <=> EndsAt(A, l) <= m
      <4>1. c \in (k - 1)..Len(A)
        BY <1>0, <3>6
      <4>2. ASSUME NEW l \in k..Len(A) PROVE l <= c <=> EndsAt(A, l) <= m
        <5>1. CASE l = k
          BY <2>7, <3>6, <5>1
        <5>2. CASE l # k
          <6>1. l \in (k + 1)..Len(A)
            BY <5>2, <1>0
          <6> QED
            BY <3>5, <6>1, Zenon
        <5> QED
          BY <5>1, <5>2
      <4> QED
        BY <4>1, <4>2
    <3> HIDE DEF s
    <3>9. ReadFrom(w[s], A, k, m)
      BY <3>7, <3>8, Zenon DEF ReadFrom
    <3> QED
      BY <3>9 DEF s
  <2>8. CASE ~(EndsAt(A, k) <= m)
    <3>1. ~(s + 4 <= Len(p) /\ s + 4 + Stun!WordAt(p, s + 2) <= Len(p))
      <4> SUFFICES ASSUME s + 4 <= Len(p) PROVE ~(s + 4 + Stun!WordAt(p, s + 2) <= Len(p))
        BY Zenon
      <4>1. Stun!WordAt(p, s + 2) = Len(a.value)
        BY <1>p, <2>3, Zenon DEF ReadsOf
      <4> QED
        BY <4>1, <1>p, <2>5, <2>8, Zenon
    <3>2. w[s] = <<>>
      BY <1>w, <2>2, <3>1, Zenon DEF AttrsFrom
    <3>3. SubSeq(A, k, k - 1) = <<>>
      OBVIOUS
    <3>4. k - 1 \in (k - 1)..Len(A)
      BY <1>0
    <3>5. ASSUME NEW l \in k..Len(A) PROVE l <= k - 1 <=> EndsAt(A, l) <= m
      <4>1. ~(l <= k - 1)
        OBVIOUS
      <4>2. ~(EndsAt(A, l) <= m)
        BY <2>6, <2>4, <2>8
      <4> QED
        BY <4>1, <4>2
    <3> HIDE DEF s
    <3>6. ReadFrom(w[s], A, k, m)
      BY <3>2, <3>3, <3>4, <3>5, Zenon DEF ReadFrom
    <3> QED
      BY <3>6 DEF s
  <2> QED
    BY <2>7, <2>8
<1> HIDE DEF R
<1>3. 0 \in S
  <2>1. Len(A) + 1 - 0 = Len(A) + 1
    BY <1>0
  <2> QED
    BY <1>1, <2>1
<1>4. \A n \in Nat : n \in S => n + 1 \in S
  <2> SUFFICES ASSUME NEW n \in Nat, n \in S, n + 1 <= Len(A) PROVE R(Len(A) + 1 - (n + 1))
    <3>1. \A n \in Nat : n + 1 \in Nat
      OBVIOUS
    <3> QED
      BY <3>1, Zenon
  <2> DEFINE k == Len(A) + 1 - (n + 1)
  <2>1. k \in 1..Len(A) /\ k + 1 = Len(A) + 1 - n /\ n <= Len(A)
    BY <1>0
  <2>2. R(Len(A) + 1 - n)
    BY <2>1, Zenon
  <2> HIDE DEF k
  <2>3. R(k)
    BY <1>2, <2>1, <2>2, Zenon
  <2> QED
    BY <2>3 DEF k
<1>5. ASSUME NEW k \in 1..(Len(A) + 1) PROVE R(k)
  <2> DEFINE n == Len(A) + 1 - k
  <2>1. n \in Nat /\ n <= Len(A) /\ Len(A) + 1 - n = k
    BY <1>0
  <2> HIDE DEF n, S
  <2>2. n \in S
    BY <1>3, <1>4, <2>1, Induct
  <2> QED
    BY <2>1, <2>2, Zenon DEF S
<1> QED
  BY <1>5 DEF R

\* The error codes among the attributes, and what one of them says.
CodesOf(A) == {k \in 1..Len(A) : A[k].type = Stun!AttrErrorCode /\ Len(A[k].value) >= 4}
CodeOf(a) == a.value[3] * 100 + a.value[4]

\* The l-th attribute is the first code from the k-th attribute on.
FirstCode(A, k, l) == l \in CodesOf(A) /\ l >= k /\ \A j \in CodesOf(A) : j >= k => l <= j

\* What is read of p is the first code from the k-th attribute on, if it has arrived.
GivesCode(r, A, k, m) ==
  \/ \E l \in CodesOf(A) : FirstCode(A, k, l) /\ StartOf(A, l) + 8 <= m /\ r = CodeOf(A[l])
  \/ r = Stun!None /\ \A l \in CodesOf(A) : l >= k => ~(StartOf(A, l) + 8 <= m)

LEMMA CodeWalk ==
  ASSUME NEW A \in Seq(Attribute), NEW type, NEW d, Layout(d, type, A),
         NEW m \in Nat, m <= Len(d), NEW p, Part(p, d, m), NEW w, WalksCode(w, p, m)
  PROVE  \A k \in 1..(Len(A) + 1) : GivesCode(w[StartOf(A, k)], A, k, m)
<1> DEFINE R(k) == GivesCode(w[StartOf(A, k)], A, k, m)
           S == {n \in Nat : n <= Len(A) => R(Len(A) + 1 - n)}
<1>0. Len(A) \in Nat
  OBVIOUS
<1>d. d \in Seq(Octet) /\ Len(d) = StartOf(A, Len(A) + 1) /\ \A k \in 1..Len(A) : SpellsAt(d, StartOf(A, k), A[k])
  BY Zenon DEF Layout
<1>p. p \in Seq(Octet) /\ Len(p) = m
  BY Zenon DEF Part
<1>w. \A off \in Nat : w[off] = CodeFrom(w, p, m, off)
  BY DEF WalksCode
<1>c. \A l \in CodesOf(A) : l \in 1..Len(A) /\ A[l].type = Stun!AttrErrorCode /\ Len(A[l].value) >= 4
  BY Zenon DEF CodesOf
<1>1. R(Len(A) + 1)
  <2>1. StartOf(A, Len(A) + 1) \in Nat /\ StartOf(A, Len(A) + 1) + 4 > m
    BY <1>d
  <2>2. w[StartOf(A, Len(A) + 1)] = Stun!None
    BY <1>w, <2>1, CodeStop
  <2>3. \A l \in CodesOf(A) : ~(l >= Len(A) + 1)
    BY <1>0, <1>c
  <2> QED
    BY <2>2, <2>3, Zenon DEF GivesCode
<1>2. ASSUME NEW k \in 1..Len(A), R(k + 1) PROVE R(k)
  <2> DEFINE s == StartOf(A, k)
             a == A[k]
             t == StartOf(A, k + 1)
  <2>1. InOrder(A, k)
    BY AllInOrder
  <2>2. s \in Nat /\ a \in Attribute /\ SpellsAt(d, s, a)
    BY <2>1, <1>d DEF InOrder
  <2>3. ReadsOf(p, s, a, m)
    <3> HIDE DEF s, a
    <3> QED
      BY <1>d, <2>2, PartReads
  <2>4. /\ t \in Nat /\ s + 4 <= t
        /\ t = s + 4 + Len(a.value) + Stun!Pad4(Len(a.value))
        /\ \A l \in (k + 1)..Len(A) : t <= StartOf(A, l)
    <3>1. /\ t \in Nat /\ s + 4 <= EndsAt(A, k) /\ EndsAt(A, k) <= t /\ EndsAt(A, k) \in Nat
          /\ t = s + 4 + Len(a.value) + Stun!Pad4(Len(a.value))
          /\ \A l \in (k + 1)..Len(A) : t <= StartOf(A, l)
      BY <2>1, Zenon DEF InOrder
    <3>0. s \in Nat
      BY <2>2
    <3>2. s + 4 <= t
      <4>1. s + 4 <= EndsAt(A, k) /\ EndsAt(A, k) <= t /\ EndsAt(A, k) \in Nat /\ t \in Nat
        BY <3>1, Zenon
      <4> HIDE DEF s, t, a
      <4> QED
        BY <3>0, <4>1
    <3> QED
      BY <3>1, <3>2, Zenon
  <2>5. ASSUME NEW l \in CodesOf(A), l >= k PROVE StartOf(A, l) \in Nat /\ s <= StartOf(A, l) /\ (l = k \/ l >= k + 1)
    <3>1. CASE l = k
      BY <3>1, <2>2
    <3>2. CASE l # k
      <4>1. l \in (k + 1)..Len(A) /\ l \in 1..Len(A) /\ l >= k + 1
        BY <3>2, <2>5, <1>0, <1>c
      <4>2. InOrder(A, l)
        BY <4>1, AllInOrder
      <4>3. StartOf(A, l) \in Nat /\ t <= StartOf(A, l)
        BY <4>1, <4>2, <2>4, Zenon DEF InOrder
      <4>4. s \in Nat /\ t \in Nat /\ s + 4 <= t
        BY <2>2, <2>4, Zenon
      <4> HIDE DEF t, s, a
      <4>5. s <= StartOf(A, l)
        BY <4>3, <4>4
      <4> QED
        BY <4>1, <4>3, <4>5
    <3> QED
      BY <3>1, <3>2
  <2>6. CASE s + 4 > m
    <3>1. w[s] = Stun!None
      BY <1>w, <2>2, <2>6, CodeStop
    <3>2. ASSUME NEW l \in CodesOf(A), l >= k PROVE ~(StartOf(A, l) + 8 <= m)
      <4>1. StartOf(A, l) \in Nat /\ s <= StartOf(A, l)
        BY <2>5, <3>2
      <4> HIDE DEF s
      <4> QED
        BY <4>1, <2>2, <2>6
    <3> HIDE DEF s
    <3>3. GivesCode(w[s], A, k, m)
      BY <3>1, <3>2, Zenon DEF GivesCode
    <3> QED
      BY <3>3 DEF s
  <2>7. CASE s + 4 <= m
    <3>1. Stun!WordAt(p, s) = a.type /\ Stun!WordAt(p, s + 2) = Len(a.value)
      BY <2>3, <2>7, Zenon DEF ReadsOf
    <3>2. Stun!CodeAt(p, s) <=> k \in CodesOf(A) /\ s + 8 <= m
      BY <1>p, <3>1, Zenon DEF Stun!CodeAt, CodesOf
    <3>3. CASE k \in CodesOf(A) /\ s + 8 <= m
      <4>1. w[s] = Stun!At(p, s + 6) * 100 + Stun!At(p, s + 7)
        BY <1>w, <2>2, <2>7, <3>2, <3>3 DEF CodeFrom
      <4>2. Len(a.value) >= 4
        BY <3>3, <1>c, Zenon
      <4>3. w[s] = CodeOf(a)
        BY <4>1, <4>2, <2>3, <3>3, Zenon DEF ReadsOf, CodeOf
      <4>4. FirstCode(A, k, k)
        BY <3>3 DEF FirstCode
      <4>5. GivesCode(w[s], A, k, m)
        BY <3>3, <4>3, <4>4, Zenon DEF GivesCode
      <4> QED
        BY <4>5 DEF s
    <3>4. CASE ~(k \in CodesOf(A) /\ s + 8 <= m)
      <4>1. w[s] = w[t]
        BY <1>w, <2>2, <2>4, <2>7, <3>1, <3>2, <3>4, SMTT(30) DEF CodeFrom
      <4>2. GivesCode(w[t], A, k + 1, m)
        BY <1>2
      <4>3. CASE \E l \in CodesOf(A) : FirstCode(A, k + 1, l) /\ StartOf(A, l) + 8 <= m /\ w[t] = CodeOf(A[l])
        <5>1. PICK l \in CodesOf(A) : FirstCode(A, k + 1, l) /\ StartOf(A, l) + 8 <= m /\ w[t] = CodeOf(A[l])
          BY <4>3
        <5>2. l >= k + 1 /\ \A j \in CodesOf(A) : j >= k + 1 => l <= j
          BY <5>1, Zenon DEF FirstCode
        <5>3. l \in Nat /\ l >= k
          BY <5>2, <1>c, <1>0
        <5>4. StartOf(A, l) \in Nat /\ s <= StartOf(A, l)
          BY <2>5, <5>3
        <5>5. s + 8 <= m
          <6> HIDE DEF s
          <6> QED
            BY <5>1, <5>4, <2>2
        <5>6. k \notin CodesOf(A)
          BY <5>5, <3>4, Zenon
        <5>7. \A j \in CodesOf(A) : j >= k => j >= k + 1
          BY <2>5, <5>6, Zenon
        <5>8. FirstCode(A, k, l)
          BY <5>2, <5>3, <5>7, Zenon DEF FirstCode
        <5> HIDE DEF s, t
        <5>9. GivesCode(w[s], A, k, m)
          BY <4>1, <5>1, <5>8, Zenon DEF GivesCode
        <5> QED
          BY <5>9 DEF s
      <4>4. CASE w[t] = Stun!None /\ \A l \in CodesOf(A) : l >= k + 1 => ~(StartOf(A, l) + 8 <= m)
        <5>1. ASSUME NEW l \in CodesOf(A), l >= k PROVE ~(StartOf(A, l) + 8 <= m)
          <6>1. CASE l = k
            BY <6>1, <3>4, Zenon
          <6>2. CASE l >= k + 1
            BY <6>2, <4>4, Zenon
          <6> QED
            BY <2>5, <5>1, <6>1, <6>2, Zenon
        <5> HIDE DEF s, t
        <5>2. GivesCode(w[s], A, k, m)
          BY <4>1, <4>4, <5>1, Zenon DEF GivesCode
        <5> QED
          BY <5>2 DEF s
      <4> QED
        BY <4>2, <4>3, <4>4, Zenon DEF GivesCode
    <3> QED
      BY <3>3, <3>4
  <2>8. s + 4 > m \/ s + 4 <= m
    <3> HIDE DEF s
    <3> QED
      BY <2>2
  <2> QED
    BY <2>6, <2>7, <2>8, Zenon
<1> HIDE DEF R
<1>3. 0 \in S
  <2>1. Len(A) + 1 - 0 = Len(A) + 1
    BY <1>0
  <2> QED
    BY <1>1, <2>1
<1>4. \A n \in Nat : n \in S => n + 1 \in S
  <2> SUFFICES ASSUME NEW n \in Nat, n \in S, n + 1 <= Len(A) PROVE R(Len(A) + 1 - (n + 1))
    <3>1. \A n \in Nat : n + 1 \in Nat
      OBVIOUS
    <3> QED
      BY <3>1, Zenon
  <2> DEFINE k == Len(A) + 1 - (n + 1)
  <2>1. k \in 1..Len(A) /\ k + 1 = Len(A) + 1 - n /\ n <= Len(A)
    BY <1>0
  <2>2. R(Len(A) + 1 - n)
    BY <2>1, Zenon
  <2> HIDE DEF k
  <2>3. R(k)
    BY <1>2, <2>1, <2>2, Zenon
  <2> QED
    BY <2>3 DEF k
<1>5. ASSUME NEW k \in 1..(Len(A) + 1) PROVE R(k)
  <2> DEFINE n == Len(A) + 1 - k
  <2>1. n \in Nat /\ n <= Len(A) /\ Len(A) + 1 - n = k
    BY <1>0
  <2> HIDE DEF n, S
  <2>2. n \in S
    BY <1>3, <1>4, <2>1, Induct
  <2> QED
    BY <2>1, <2>2, Zenon DEF S
<1> QED
  BY <1>5 DEF R

LEMMA EncodedBytes ==
  ASSUME NEW A \in Seq(Attribute)
  PROVE  Stun!Encoded(A) \in Seq(Octet) /\ Len(Stun!Encoded(A)) \in Nat /\ Len(Stun!Encoded(A)) <= 27 * Len(A)
<1>1. Len(A) \in 0..Len(A) /\ SubSeq(A, 1, Len(A)) = A
  OBVIOUS
<1>2. Placed(A, Len(A))
  BY <1>1, AllPlaced
<1>3. Stun!Encoded(A) \in Seq(Octet) /\ Len(Stun!Encoded(A)) <= 27 * Len(A)
  BY <1>1, <1>2, Zenon DEF Placed, FirstAttrs, BytesUpTo
<1> HIDE DEF Attribute
<1> QED
  BY <1>3

\* The attribute that hashes body, into n bytes.
Seal(body, type, n) == [type |-> type, value |-> Stun!Word(Len(body) + 4 + n) \o Stun!Zeros(n - 2)]

SealSays(a, body, type, n) ==
  /\ a \in Attribute /\ a.type = type /\ Len(a.value) = n
  /\ Stun!WordAt(a.value, 0) = Len(body) + 4 + n
  /\ Stun!Sealed(body, type, n) = body \o Stun!StunAttr(a.type, a.value)

LEMMA SealIs ==
  ASSUME NEW body \in Seq(Octet), Len(body) <= 27 * 15, NEW type \in Nat, type <= MaxWord, NEW n \in {4, 20}
  PROVE  SealSays(Seal(body, type, n), body, type, n)
<1> DEFINE h == Len(body) + 4 + n
           u == Stun!Word(h)
           z == Stun!Zeros(n - 2)
           v == u \o z
           a == Seal(body, type, n)
<1>1. h \in Nat /\ h <= MaxWord /\ n - 2 \in Nat
  BY SMT DEF MaxWord
<1>2. WordFor(u, h)
  BY <1>1, WordsFor
<1>3. z \in Seq(Octet) /\ Len(z) = n - 2
  BY <1>1, NoBytes
<1>4. a = [type |-> type, value |-> v]
  BY Zenon DEF Seal
<1>5. Stun!Sealed(body, type, n) = body \o Stun!StunAttr(type, v)
  BY Zenon DEF Stun!Sealed
<1>6. u \in Seq(Octet) /\ Len(u) = 2 /\ u[1] * 256 + u[2] = h
  BY <1>2, Zenon DEF WordFor
<1> HIDE DEF u, z, a
<1>7. Both(v, u, z, Octet)
  BY <1>3, <1>6, Halves
<1> HIDE DEF v
<1>8. v \in Seq(Octet) /\ Len(v) = n /\ v[1] = u[1] /\ v[2] = u[2]
  BY <1>3, <1>6, <1>7, SMT DEF Both
<1>9. Stun!WordAt(v, 0) = h
  <2>1. 0 < Len(v) /\ 0 + 1 < Len(v) /\ 0 + 1 = 1 /\ (0 + 1) + 1 = 2 /\ 1 + 1 = 2 /\ 1 < Len(v)
    BY <1>8
  <2>2. Stun!At(v, 0) = v[1] /\ Stun!At(v, 0 + 1) = v[2]
    BY <2>1, Zenon DEF Stun!At
  <2> HIDE DEF h
  <2>3. v[1] * 256 + v[2] = h
    BY <1>6, <1>8, Zenon
  <2> QED
    BY <2>2, <2>3, Zenon DEF Stun!WordAt
<1>10. a.type = type /\ a.value = v
  BY <1>4
<1>11. a \in Attribute
  <2>1. type \in 0..MaxWord
    BY WordRange, Zenon
  <2>2. n <= 20
    OBVIOUS
  <2>3. a \in [type : 0..MaxWord, value : Seq(Octet)]
    BY <1>4, <1>8, <2>1, Zenon
  <2>4. Len(a.value) <= 20
    BY <1>8, <1>10, <2>2, Zenon
  <2> QED
    BY <2>3, <2>4, Zenon DEF Attribute
<1> QED
  BY <1>5, <1>8, <1>9, <1>10, <1>11, Zenon DEF SealSays, a

\* The k-th attribute is a hash over the bytes up to its own end.
HashAt(A, k) == Stun!WordAt(A[k].value, 0) = EndsAt(A, k) - 20

\* B is A with a hash behind.
SealedOn(A, B, type, n) ==
  /\ B \in Seq(Attribute) /\ Len(B) = Len(A) + 1 /\ B[Len(A) + 1].type = type
  /\ Stun!Encoded(B) = Stun!Sealed(Stun!Encoded(A), type, n)
  /\ HashAt(B, Len(A) + 1)
  /\ \A k \in 1..Len(A) : B[k] = A[k] /\ (HashAt(A, k) => HashAt(B, k))

LEMMA SealsOn ==
  ASSUME NEW A \in Seq(Attribute), Len(A) <= 15, NEW type \in Nat, type <= MaxWord, NEW n \in {4, 20}
  PROVE  SealedOn(A, Append(A, Seal(Stun!Encoded(A), type, n)), type, n)
<1> DEFINE body == Stun!Encoded(A)
           a == Seal(body, type, n)
           B == Append(A, a)
           m == Len(A)
<1>0. m \in Nat /\ SubSeq(A, 1, m) = A
  OBVIOUS
<1>1. body \in Seq(Octet) /\ Len(body) \in Nat /\ Len(body) <= 27 * m
  BY EncodedBytes
<1> HIDE DEF body
<1>2. Len(body) <= 27 * 15
  BY <1>0, <1>1
<1>3. SealSays(a, body, type, n)
  BY <1>1, <1>2, SealIs
<1> HIDE DEF a
<1>4. a \in Attribute /\ a.type = type /\ Len(a.value) = n
      /\ Stun!WordAt(a.value, 0) = Len(body) + 4 + n
      /\ Stun!Sealed(body, type, n) = body \o Stun!StunAttr(a.type, a.value)
  BY <1>3, Zenon DEF SealSays
<1>5. B \in Seq(Attribute) /\ Len(B) = m + 1 /\ B[m + 1] = a /\ \A k \in 1..m : B[k] = A[k]
  BY <1>4
<1>6. Stun!Encoded(B) = Stun!Sealed(body, type, n)
  <2>1. Stun!Encoded(B) = Stun!Encoded(A) \o Stun!StunAttr(a.type, a.value)
    BY <1>4, EncodedMore
  <2> QED
    BY <2>1, <1>4, Zenon DEF body
<1> HIDE DEF B
<1>7. ASSUME NEW k \in 1..(m + 1) PROVE BytesUpTo(B, k - 1) = BytesUpTo(A, k - 1)
  <2> DEFINE C == SubSeq(A, 1, k - 1)
             D == SubSeq(B, 1, k - 1)
  <2>1. C \in Seq(Attribute) /\ Len(C) = k - 1 /\ \A j \in 1..(k - 1) : C[j] = A[j]
    BY <1>0
  <2>2. D \in Seq(Attribute) /\ Len(D) = k - 1 /\ \A j \in 1..(k - 1) : D[j] = B[j]
    BY <1>0, <1>5
  <2>3. \A j \in 1..(k - 1) : C[j] = D[j]
    BY <1>0, <1>5, <2>1, <2>2
  <2> HIDE DEF C, D
  <2>4. C = D
    BY <2>1, <2>2, <2>3
  <2> QED
    BY <2>4, Zenon DEF BytesUpTo, FirstAttrs, C, D
<1>8. HashAt(B, m + 1)
  <2>1. m + 1 \in 1..(m + 1) /\ (m + 1) - 1 = m
    BY <1>0
  <2>2. BytesUpTo(B, (m + 1) - 1) = Len(body)
    BY <1>0, <1>7, <2>1, Zenon DEF BytesUpTo, FirstAttrs, body
  <2>3. EndsAt(B, m + 1) = 20 + Len(body) + 4 + n
    BY <1>4, <1>5, <2>2, Zenon DEF EndsAt, ValueEnd, StartOf
  <2>4. EndsAt(B, m + 1) - 20 = Len(body) + 4 + n
    BY <1>1, <2>3
  <2> QED
    BY <1>4, <1>5, <2>4, Zenon DEF HashAt
<1>9. ASSUME NEW k \in 1..m, HashAt(A, k) PROVE HashAt(B, k)
  <2>1. k \in 1..(m + 1)
    BY <1>0
  <2>2. EndsAt(B, k) = EndsAt(A, k)
    BY <1>5, <1>7, <2>1, Zenon DEF EndsAt, StartOf
  <2> QED
    BY <1>5, <1>9, <2>2, Zenon DEF HashAt
<1> QED
  BY <1>4, <1>5, <1>6, <1>8, <1>9, Zenon DEF SealedOn, B, a, body

\* Bound of a message type.
TypeBound == 16384

\* The message that is followed, with all its attributes: those given, and the
\* hashes behind them.
MessageOk(m) ==
  /\ m.type \in Nat /\ m.type < TypeBound
  /\ m.attrs \in Seq(Attribute) /\ Len(m.attrs) <= 14
  /\ m.integrity \in BOOLEAN /\ m.fingerprint \in BOOLEAN
  /\ m.bytes = Stun!EncodeStunRequest(m.type, Stun!Encoded(m.attrs), m.integrity, m.fingerprint)

Signed(m) ==
  IF m.integrity THEN Append(m.attrs, Seal(Stun!Encoded(m.attrs), Stun!AttrMessageIntegrity, 20)) ELSE m.attrs
AllAttrs(m) ==
  IF m.fingerprint THEN Append(Signed(m), Seal(Stun!Encoded(Signed(m)), Stun!AttrFingerprint, 4)) ELSE Signed(m)

\* The k-th attribute is a hash and no error code.
HashOnly(A, k) == HashAt(A, k) /\ A[k].type # Stun!AttrErrorCode

\* B begins with A, and the rest are hashes.
Extends(A, B) ==
  /\ B \in Seq(Attribute) /\ Len(A) <= Len(B)
  /\ \A k \in 1..Len(A) : B[k] = A[k]
  /\ \A k \in (Len(A) + 1)..Len(B) : HashOnly(B, k)

LEMMA SealTypes ==
  /\ Stun!AttrMessageIntegrity \in Nat /\ Stun!AttrMessageIntegrity <= MaxWord
  /\ Stun!AttrFingerprint \in Nat /\ Stun!AttrFingerprint <= MaxWord
  /\ Stun!AttrMessageIntegrity # Stun!AttrErrorCode /\ Stun!AttrFingerprint # Stun!AttrErrorCode
BY SMT DEF Stun!AttrMessageIntegrity, Stun!AttrFingerprint, Stun!AttrErrorCode, MaxWord

\* One hash more.
SealMore(C, A, B, type, n) ==
  /\ Extends(C, B) /\ Len(B) = Len(A) + 1 /\ B[Len(A) + 1].type = type
  /\ Stun!Encoded(B) = Stun!Sealed(Stun!Encoded(A), type, n)
  /\ \A k \in 1..Len(A) : B[k] = A[k]

LEMMA OneSeal ==
  ASSUME NEW C \in Seq(Attribute), NEW A \in Seq(Attribute), Len(A) <= 15, Extends(C, A),
         NEW type \in Nat, type <= MaxWord, type # Stun!AttrErrorCode, NEW n \in {4, 20}
  PROVE  SealMore(C, A, Append(A, Seal(Stun!Encoded(A), type, n)), type, n)
<1> DEFINE B == Append(A, Seal(Stun!Encoded(A), type, n))
<1> HIDE DEF B
<1>1. SealedOn(A, B, type, n)
  BY SealsOn, Zenon DEF B
<1>2. /\ B \in Seq(Attribute) /\ Len(B) = Len(A) + 1 /\ B[Len(A) + 1].type = type
      /\ Stun!Encoded(B) = Stun!Sealed(Stun!Encoded(A), type, n)
      /\ HashAt(B, Len(A) + 1)
  BY <1>1, Zenon DEF SealedOn
<1>3. \A k \in 1..Len(A) : B[k] = A[k] /\ (HashAt(A, k) => HashAt(B, k))
  BY <1>1, Zenon DEF SealedOn
<1>4. Len(C) <= Len(A) /\ (\A k \in 1..Len(C) : A[k] = C[k]) /\ \A k \in (Len(C) + 1)..Len(A) : HashOnly(A, k)
  BY Zenon DEF Extends
<1>5. Len(C) \in Nat /\ Len(A) \in Nat
  OBVIOUS
<1>6. Len(C) <= Len(B) /\ \A k \in 1..Len(C) : k \in 1..Len(A)
  BY <1>2, <1>4, <1>5
<1>7. \A k \in 1..Len(C) : B[k] = C[k]
  BY <1>3, <1>4, <1>6, Zenon
<1>8. ASSUME NEW k \in (Len(C) + 1)..Len(B) PROVE HashOnly(B, k)
  <2>1. CASE k = Len(A) + 1
    BY <1>2, <2>1, Zenon DEF HashOnly
  <2>2. CASE k # Len(A) + 1
    <3>1. k \in (Len(C) + 1)..Len(A) /\ k \in 1..Len(A)
      BY <1>2, <1>4, <1>5, <2>2
    <3> QED
      BY <1>3, <1>4, <3>1, Zenon DEF HashOnly
  <2> QED
    BY <2>1, <2>2
<1> QED
  BY <1>2, <1>3, <1>6, <1>7, <1>8, Zenon DEF Extends, SealMore, B

\* The types of the hashes behind the first n of A.
TypesBehind(A, n) == [k \in 1..(Len(A) - n) |-> A[n + k].type]

AllOk(m, A) ==
  /\ A \in Seq(Attribute) /\ Len(A) <= 16 /\ Extends(m.attrs, A)
  /\ m.bytes = Stun!StunHeader(m.type, Len(Stun!Encoded(A))) \o Stun!Encoded(A)
  /\ TypesBehind(A, Len(m.attrs)) = (IF m.integrity THEN <<Stun!AttrMessageIntegrity>> ELSE <<>>)
                                    \o (IF m.fingerprint THEN <<Stun!AttrFingerprint>> ELSE <<>>)

LEMMA TypesNone == ASSUME NEW A, NEW n \in Nat, Len(A) = n PROVE TypesBehind(A, n) = <<>>
BY DEF TypesBehind

LEMMA TypesOne ==
  ASSUME NEW A, NEW n \in Nat, Len(A) = n + 1
  PROVE  TypesBehind(A, n) = <<A[n + 1].type>>
BY DEF TypesBehind

LEMMA TypesTwo ==
  ASSUME NEW A, NEW n \in Nat, Len(A) = n + 1 + 1
  PROVE  TypesBehind(A, n) = <<A[n + 1].type, A[n + 1 + 1].type>>
BY DEF TypesBehind

LEMMA SealPairs ==
  ASSUME NEW a, NEW b
  PROVE  <<>> \o <<>> = <<>> /\ <<a>> \o <<>> = <<a>> /\ <<>> \o <<b>> = <<b>> /\ <<a>> \o <<b>> = <<a, b>>
<1>1. <<>> \o <<>> = <<>>
  OBVIOUS
<1>2. <<a>> \o <<>> = <<a>>
  OBVIOUS
<1>3. <<>> \o <<b>> = <<b>>
  OBVIOUS
<1>4. <<a>> \o <<b>> = <<a, b>>
  <2> DEFINE S == {a, b}
             u == <<a>>
             v == <<b>>
             w == u \o v
  <2>1. a \in S /\ b \in S
    OBVIOUS
  <2> HIDE DEF S
  <2>2. u \in Seq(S) /\ v \in Seq(S) /\ Len(u) = 1 /\ Len(v) = 1 /\ u[1] = a /\ v[1] = b
    BY <2>1
  <2> HIDE DEF u, v
  <2>6. Both(w, u, v, S)
    BY <2>2, Halves
  <2> HIDE DEF w
  <2>3. w \in Seq(S) /\ Len(w) = 2 /\ w[1] = a /\ w[2] = b
    BY <2>2, <2>6 DEF Both
  <2>4. \A t \in Seq(S) : Len(t) = 2 /\ t[1] = a /\ t[2] = b => t = <<a, b>>
    BY <2>1
  <2> HIDE DEF w
  <2>5. w = <<a, b>>
    BY <2>3, <2>4
  <2> QED
    BY <2>5 DEF w, u, v
<1> QED
  BY <1>1, <1>2, <1>3, <1>4, Zenon

LEMMA MessageAttrs == ASSUME NEW m, MessageOk(m) PROVE AllOk(m, AllAttrs(m))
<1> DEFINE C == m.attrs
           n == Len(C)
           A == Signed(m)
           B == AllAttrs(m)
           mi == Stun!AttrMessageIntegrity
           fp == Stun!AttrFingerprint
<1>0. m.integrity \in BOOLEAN /\ m.fingerprint \in BOOLEAN
  BY Zenon DEF MessageOk
<1>1. C \in Seq(Attribute) /\ n \in Nat /\ n <= 14
  <2>1. C \in Seq(Attribute) /\ n <= 14
    BY Zenon DEF MessageOk
  <2> QED
    BY <2>1
<1> HIDE DEF C
<1>2. Extends(C, C)
  <2>1. (Len(C) + 1)..Len(C) = {} /\ Len(C) <= Len(C)
    BY <1>1
  <2> QED
    BY <1>1, <2>1, Zenon DEF Extends
<1>3. /\ Extends(C, A)
      /\ Stun!Encoded(A) = IF m.integrity THEN Stun!Sealed(Stun!Encoded(C), mi, 20) ELSE Stun!Encoded(C)
      /\ m.integrity => Len(A) = n + 1 /\ A[n + 1].type = mi
      /\ ~m.integrity => Len(A) = n
  <2>1. CASE m.integrity
    <3>1. A = Append(C, Seal(Stun!Encoded(C), mi, 20))
      BY <2>1, Zenon DEF Signed, C
    <3>2. 20 \in {4, 20} /\ Len(C) <= 15
      BY <1>1
    <3> HIDE DEF A, mi
    <3>3. mi \in Nat /\ mi <= MaxWord /\ mi # Stun!AttrErrorCode
      BY SealTypes, Zenon DEF mi
    <3>4. Extends(C, A) /\ Len(A) = Len(C) + 1 /\ A[Len(C) + 1].type = mi
          /\ Stun!Encoded(A) = Stun!Sealed(Stun!Encoded(C), mi, 20)
      <4>1. SealMore(C, C, A, mi, 20)
        BY <1>1, <1>2, <3>1, <3>2, <3>3, OneSeal
      <4> QED
        BY <4>1, Zenon DEF SealMore
    <3> QED
      BY <2>1, <3>4, Zenon
  <2>2. CASE ~m.integrity
    <3>1. A = C
      BY <2>2, Zenon DEF Signed, C
    <3> QED
      BY <1>2, <2>2, <3>1, Zenon
  <2> QED
    BY <2>1, <2>2
<1>4. A \in Seq(Attribute) /\ Len(A) \in Nat /\ Len(A) <= 15
  <2>1. A \in Seq(Attribute)
    BY <1>3, Zenon DEF Extends
  <2>2. Len(A) = n + 1 \/ Len(A) = n
    BY <1>3, <1>0, Zenon
  <2> HIDE DEF A, n
  <2> QED
    BY <1>1, <2>1, <2>2 DEF n
<1>5. /\ Extends(C, B)
      /\ Stun!Encoded(B) = IF m.fingerprint THEN Stun!Sealed(Stun!Encoded(A), fp, 4) ELSE Stun!Encoded(A)
      /\ m.fingerprint => Len(B) = Len(A) + 1 /\ B[Len(A) + 1].type = fp /\ \A k \in 1..Len(A) : B[k] = A[k]
      /\ ~m.fingerprint => B = A
  <2>1. CASE m.fingerprint
    <3>1. B = Append(A, Seal(Stun!Encoded(A), fp, 4))
      BY <2>1, Zenon DEF AllAttrs
    <3>2. 4 \in {4, 20}
      OBVIOUS
    <3> HIDE DEF A, B, fp
    <3>3. fp \in Nat /\ fp <= MaxWord /\ fp # Stun!AttrErrorCode
      BY SealTypes, Zenon DEF fp
    <3>4. Extends(C, B) /\ Len(B) = Len(A) + 1 /\ B[Len(A) + 1].type = fp
          /\ Stun!Encoded(B) = Stun!Sealed(Stun!Encoded(A), fp, 4)
          /\ \A k \in 1..Len(A) : B[k] = A[k]
      <4>1. Extends(C, A)
        BY <1>3, Zenon
      <4>2. SealMore(C, A, B, fp, 4)
        BY <1>1, <1>4, <3>1, <3>2, <3>3, <4>1, OneSeal
      <4> QED
        BY <4>2, Zenon DEF SealMore
    <3> QED
      BY <2>1, <3>4, Zenon
  <2>2. CASE ~m.fingerprint
    <3>1. B = A
      BY <2>2, Zenon DEF AllAttrs
    <3> QED
      BY <1>3, <2>2, <3>1, Zenon
  <2> QED
    BY <2>1, <2>2
<1>6. B \in Seq(Attribute) /\ Len(B) <= 16
  <2>1. B \in Seq(Attribute)
    BY <1>5, Zenon DEF Extends
  <2>2. Len(B) = Len(A) + 1 \/ Len(B) = Len(A)
    BY <1>5, <1>0, Zenon
  <2> HIDE DEF A, B
  <2> QED
    BY <1>4, <2>1, <2>2
<1>7. m.bytes = Stun!StunHeader(m.type, Len(Stun!Encoded(B))) \o Stun!Encoded(B)
  <2>1. m.bytes = Stun!EncodeStunRequest(m.type, Stun!Encoded(C), m.integrity, m.fingerprint)
    BY Zenon DEF MessageOk, C
  <2> HIDE DEF A, B
  <2> QED
    BY <1>3, <1>5, <2>1, Zenon DEF Stun!EncodeStunRequest
<1> HIDE DEF A, B
<1>8. TypesBehind(B, n) = (IF m.integrity THEN <<mi>> ELSE <<>>) \o (IF m.fingerprint THEN <<fp>> ELSE <<>>)
  <2> HIDE DEF n, mi, fp
  <2>0. <<>> \o <<>> = <<>> /\ <<mi>> \o <<>> = <<mi>> /\ <<>> \o <<fp>> = <<fp>> /\ <<mi>> \o <<fp>> = <<mi, fp>>
    BY SealPairs
  <2>1. CASE m.integrity /\ m.fingerprint
    <3>1. Len(B) = n + 1 + 1 /\ B[n + 1 + 1].type = fp /\ Len(A) = n + 1 /\ n + 1 \in 1..Len(A)
      <4>1. Len(A) = n + 1 /\ n + 1 \in 1..(n + 1)
        BY <1>1, <1>3, <2>1
      <4> QED
        BY <1>5, <2>1, <4>1, Zenon
    <3>2. B[n + 1].type = mi
      BY <1>3, <1>5, <2>1, <3>1, Zenon
    <3>3. TypesBehind(B, n) = <<mi, fp>>
      BY <1>1, <3>1, <3>2, TypesTwo, Zenon
    <3> QED
      BY <2>0, <2>1, <3>3, Zenon
  <2>2. CASE m.integrity /\ ~m.fingerprint
    <3>1. TypesBehind(B, n) = <<mi>>
      BY <1>1, <1>3, <1>5, <2>2, TypesOne, Zenon
    <3> QED
      BY <2>0, <2>2, <3>1, Zenon
  <2>3. CASE ~m.integrity /\ m.fingerprint
    <3>1. TypesBehind(B, n) = <<fp>>
      BY <1>1, <1>3, <1>5, <2>3, TypesOne, Zenon
    <3> QED
      BY <2>0, <2>3, <3>1, Zenon
  <2>4. CASE ~m.integrity /\ ~m.fingerprint
    <3>1. TypesBehind(B, n) = <<>>
      BY <1>1, <1>3, <1>5, <2>4, TypesNone, Zenon
    <3> QED
      BY <2>0, <2>4, <3>1, Zenon
  <2> QED
    BY <1>0, <2>1, <2>2, <2>3, <2>4, Zenon
<1> QED
  BY <1>5, <1>6, <1>7, <1>8, Zenon DEF AllOk, C, B

LEMMA MessageLaid ==
  ASSUME NEW m, MessageOk(m), NEW A, A = AllAttrs(m)
  PROVE  A \in Seq(Attribute) /\ Layout(m.bytes, m.type, A)
<1>1. AllOk(m, A)
  BY MessageAttrs, Zenon
<1>2. A \in Seq(Attribute) /\ Len(A) <= 16 /\ m.bytes = Stun!StunHeader(m.type, Len(Stun!Encoded(A))) \o Stun!Encoded(A)
  BY <1>1, Zenon DEF AllOk
<1>3. m.type \in Nat /\ m.type < TypeBound
  BY Zenon DEF MessageOk
<1>4. m.type <= MaxWord
  BY <1>3, SMT DEF MaxWord, TypeBound
<1>5. Layout(Stun!StunHeader(m.type, Len(Stun!Encoded(A))) \o Stun!Encoded(A), m.type, A)
  BY <1>2, <1>3, <1>4, LaidOut
<1> QED
  BY <1>2, <1>5, Zenon

LEMMA WholePart == ASSUME NEW d \in Seq(Octet) PROVE Part(d, d, Len(d))
BY DEF Part

\* What the first twenty bytes say.
HeadRead(p, type, n) ==
  /\ Stun!IsStunPacket(p) /\ Stun!StunMessageType(p) = type
  /\ Stun!StunTransactionID(p) = Stun!TransactionID
  /\ Stun!WordAt(p, 2) = n

LEMMA HeadReads ==
  ASSUME NEW type \in Nat, type < TypeBound, NEW A, NEW d, Layout(d, type, A),
         NEW n \in Nat, 20 <= n, n <= Len(d), NEW p, Part(p, d, n)
  PROVE  HeadRead(p, type, Len(d) - 20)
<1>1. /\ d \in Seq(Octet)
      /\ d[1] * 256 + d[2] = type /\ d[3] * 256 + d[4] = Len(d) - 20
      /\ \A j \in 1..12 : d[8 + j] = Stun!TransactionID[j]
  BY Zenon DEF Layout
<1>2. p \in Seq(Octet) /\ Len(p) = n /\ \A j \in 1..n : p[j] = d[j]
  BY Zenon DEF Part
<1>3. 1 \in 1..n /\ 2 \in 1..n /\ 3 \in 1..n /\ 4 \in 1..n /\ 0 < n /\ 1 < n /\ 2 < n /\ 3 < n /\ ~(n < 2) /\ ~(n < 20) /\ n >= 2
      /\ 0 + 1 = 1 /\ 1 + 1 = 2 /\ 2 + 1 = 3 /\ 3 + 1 = 4
  OBVIOUS
<1>4. Stun!At(p, 0) = d[1] /\ Stun!At(p, 1) = d[2] /\ Stun!At(p, 2) = d[3] /\ Stun!At(p, 3) = d[4]
  BY <1>2, <1>3, Zenon DEF Stun!At
<1>5. Stun!WordAt(p, 2) = Len(d) - 20
  BY <1>1, <1>3, <1>4, ZenonT(40) DEF Stun!WordAt
<1> DEFINE a == d[1]
           b == d[2]
<1>6. a \in Nat /\ b \in Nat /\ b <= 255
  <2>3. Len(d) \in Nat
    BY <1>1
  <2>1. 1 \in 1..Len(d) /\ 2 \in 1..Len(d)
    BY <2>3
  <2>4. d \in Seq(Octet)
    BY <1>1, Zenon
  <2>2. a \in Octet /\ b \in Octet
    BY <2>1, <2>4
  <2> QED
    BY <2>2, OctetIs, Zenon
<1> HIDE DEF a, b
<1>7. a * 256 + b = type
  BY <1>1, Zenon DEF a, b
<1>8. a < 64
  BY <1>6, <1>7, SMT DEF TypeBound
<1>9. (a % 64) * 256 + b = type
  <2>1. a % 64 = a
    BY <1>6, <1>8, SMT
  <2> QED
    BY <1>7, <2>1
<1>10. Stun!IsStunPacket(p)
  BY <1>2, <1>3, <1>4, <1>8, SMT DEF Stun!IsStunPacket, a
<1>11. Stun!StunMessageType(p) = type
  BY <1>2, <1>3, <1>4, <1>9, Zenon DEF Stun!StunMessageType, a, b
<1>12. SubSeq(p, 9, 20) = Stun!TransactionID
  <2> DEFINE u == SubSeq(p, 9, 20)
             v == Stun!TransactionID
  <2>1. u \in Seq(Octet) /\ Len(u) = 12 /\ \A j \in 1..12 : u[j] = p[9 + j - 1]
    BY <1>2
  <2>2. \A j \in 1..12 : 9 + j - 1 = 8 + j /\ 8 + j \in 1..n
    OBVIOUS
  <2>3. ASSUME NEW j \in 1..12 PROVE u[j] = v[j]
    <3>1. u[j] = p[8 + j]
      BY <2>1, <2>2
    <3>2. p[8 + j] = d[8 + j] /\ d[8 + j] = v[j]
      BY <1>1, <1>2, <2>2
    <3> HIDE DEF u, v
    <3> QED
      BY <3>1, <3>2
  <2>4. u = [j \in 1..12 |-> u[j]]
    BY <2>1
  <2>5. v = [j \in 1..12 |-> v[j]]
    BY DEF Stun!TransactionID
  <2> HIDE DEF u, v
  <2>6. u = v
    BY <2>3, <2>4, <2>5
  <2> QED
    BY <2>6 DEF u, v
<1>13. Stun!StunTransactionID(p) = Stun!TransactionID
  BY <1>2, <1>3, <1>12, Zenon DEF Stun!StunTransactionID
<1> QED
  BY <1>5, <1>10, <1>11, <1>13, Zenon DEF HeadRead

LEMMA FirstStart == ASSUME NEW A \in Seq(Attribute) PROVE StartOf(A, 1) = 20
<1>1. FirstAttrs(A, 0) = <<>>
  BY FirstNone
<1>2. Len(<<>>) = 0 /\ 1 - 1 = 0 /\ 20 + 0 = 20
  OBVIOUS
<1> QED
  BY <1>1, <1>2, Zenon DEF StartOf, BytesUpTo

LEMMA AttributesRead ==
  ASSUME NEW A \in Seq(Attribute), NEW type \in Nat, type < TypeBound, NEW d, Layout(d, type, A),
         NEW n \in Nat, n <= Len(d), NEW p, Part(p, d, n)
  PROVE  ReadFrom(Stun!ParseStunAttributes(p), A, 1, n)
<1>0. Len(A) \in Nat /\ 1 \in 1..(Len(A) + 1)
  OBVIOUS
<1>1. p \in Seq(Octet) /\ Len(p) = n
  BY Zenon DEF Part
<1>2. CASE n >= 20
  <2> DEFINE w == CHOOSE w : WalksAttrs(w, p)
  <2>1. HeadRead(p, type, Len(d) - 20)
    BY <1>2, HeadReads
  <2>2. Stun!IsStunPacket(p)
    BY <2>1, Zenon DEF HeadRead
  <2>3. Stun!ParseStunAttributes(p) = w[20]
    BY <1>1, <1>2, <2>2, ParsesAttrs, Zenon
  <2>4. \E u : WalksAttrs(u, p)
    BY <1>1, AttrsWalked
  <2>5. WalksAttrs(w, p)
    BY <2>4, Zenon
  <2> HIDE DEF w
  <2>6. \A k \in 1..(Len(A) + 1) : ReadFrom(w[StartOf(A, k)], A, k, n)
    BY <2>5, AttrsWalk
  <2>7. ReadFrom(w[StartOf(A, 1)], A, 1, n)
    BY <1>0, <2>6, Zenon
  <2> QED
    BY <2>3, <2>7, FirstStart, Zenon
<1>3. CASE ~(n >= 20)
  <2>1. Stun!ParseStunAttributes(p) = <<>>
    BY <1>1, <1>3, ParsesAttrs, Zenon
  <2>2. SubSeq(A, 1, 0) = <<>> /\ 0 \in (1 - 1)..Len(A)
    BY <1>0
  <2>3. ASSUME NEW l \in 1..Len(A) PROVE l <= 0 <=> EndsAt(A, l) <= n
    <3>1. InOrder(A, l)
      BY AllInOrder
    <3>2. StartOf(A, l) \in Nat /\ EndsAt(A, l) \in Nat /\ StartOf(A, l) >= 20 /\ StartOf(A, l) + 4 <= EndsAt(A, l)
      BY <3>1, Zenon DEF InOrder
    <3> QED
      BY <1>3, <3>2
  <2> QED
    BY <2>1, <2>2, <2>3, Zenon DEF ReadFrom
<1> QED
  BY <1>2, <1>3

LEMMA WholeRead ==
  ASSUME NEW A \in Seq(Attribute), NEW type \in Nat, type < TypeBound, NEW d, Layout(d, type, A)
  PROVE  Stun!ParseStunAttributes(d) = A
<1>1. d \in Seq(Octet) /\ Len(d) \in Nat /\ Len(d) <= Len(d) /\ Len(d) = StartOf(A, Len(A) + 1)
  <2>1. d \in Seq(Octet) /\ Len(d) = StartOf(A, Len(A) + 1)
    BY Zenon DEF Layout
  <2> QED
    BY <2>1
<1>2. ReadFrom(Stun!ParseStunAttributes(d), A, 1, Len(d))
  BY <1>1, WholePart, AttributesRead
<1>3. PICK c \in (1 - 1)..Len(A) :
        Stun!ParseStunAttributes(d) = SubSeq(A, 1, c) /\ \A l \in 1..Len(A) : l <= c <=> EndsAt(A, l) <= Len(d)
  BY <1>2, Zenon DEF ReadFrom
<1>4. c = Len(A)
  <2>0. Len(A) \in Nat
    OBVIOUS
  <2>1. CASE Len(A) = 0
    BY <2>0, <2>1
  <2>2. CASE Len(A) # 0
    <3>1. Len(A) \in 1..Len(A)
      BY <2>0, <2>2
    <3>2. InOrder(A, Len(A))
      BY <3>1, AllInOrder
    <3>3. EndsAt(A, Len(A)) <= Len(d)
      BY <1>1, <3>2, Zenon DEF InOrder
    <3>4. Len(A) <= c
      BY <1>3, <3>1, <3>3, Zenon
    <3> QED
      BY <2>0, <3>4
  <2> QED
    BY <2>1, <2>2
<1>5. SubSeq(A, 1, Len(A)) = A
  OBVIOUS
<1> QED
  BY <1>3, <1>4, <1>5, Zenon

IsErrorType(type) == type \in {Stun!MsgAllocateError, Stun!MsgBindingError}

LEMMA CodeReads ==
  ASSUME NEW A \in Seq(Attribute), NEW type \in Nat, type < TypeBound, NEW d, Layout(d, type, A),
         NEW n \in Nat, n <= Len(d), NEW p, Part(p, d, n)
  PROVE  IF IsErrorType(type) THEN GivesCode(Stun!ParseStunErrorCode(p), A, 1, n)
         ELSE Stun!ParseStunErrorCode(p) = Stun!None
<1>0. Len(A) \in Nat /\ 1 \in 1..(Len(A) + 1)
  OBVIOUS
<1>1. p \in Seq(Octet) /\ Len(p) = n
  BY Zenon DEF Part
<1>d. d \in Seq(Octet)
  BY Zenon DEF Layout
<1>2. CASE n >= 20
  <2> DEFINE w == CHOOSE w : WalksCode(w, p, EndOf(p))
  <2>0. ~(n < 20)
    BY <1>2
  <2>1. HeadRead(p, type, Len(d) - 20)
    BY <1>2, HeadReads
  <2>2. Stun!StunMessageType(p) = type /\ Stun!WordAt(p, 2) = Len(d) - 20
    BY <2>1, Zenon DEF HeadRead
  <2>3. EndOf(p) = n
    <3>1. 20 + (Len(d) - 20) = Len(d) /\ ~(Len(d) < n)
      BY <1>d
    <3> QED
      BY <1>1, <2>2, <3>1, Zenon DEF EndOf
  <2>9. Stun!ParseStunErrorCode(p) =
          IF Len(p) < 20 \/ Stun!StunMessageType(p) \notin {Stun!MsgAllocateError, Stun!MsgBindingError}
          THEN Stun!None ELSE w[20]
    BY <1>1, ParsesCode, Zenon
  <2>10. ~(Len(p) < 20)
    BY <1>1, <2>0, Zenon
  <2>4. Stun!ParseStunErrorCode(p) = IF IsErrorType(type) THEN w[20] ELSE Stun!None
    <3> HIDE DEF w
    <3>1. CASE IsErrorType(type)
      <4>1. Stun!StunMessageType(p) \in {Stun!MsgAllocateError, Stun!MsgBindingError}
        BY <2>2, <3>1, Zenon DEF IsErrorType
      <4> QED
        BY <2>9, <2>10, <3>1, <4>1, Zenon
    <3>2. CASE ~IsErrorType(type)
      <4>1. ~(Stun!StunMessageType(p) \in {Stun!MsgAllocateError, Stun!MsgBindingError})
        BY <2>2, <3>2, Zenon DEF IsErrorType
      <4> QED
        BY <2>9, <3>2, <4>1, Zenon
    <3> QED
      BY <3>1, <3>2, Zenon
  <2>5. \E u : WalksCode(u, p, EndOf(p))
    <3>1. n <= Len(p)
      BY <1>1
    <3> QED
      BY <1>1, <2>3, <3>1, CodeWalked
  <2>6. WalksCode(w, p, n)
    BY <2>3, <2>5, Zenon
  <2> HIDE DEF w
  <2>7. \A k \in 1..(Len(A) + 1) : GivesCode(w[StartOf(A, k)], A, k, n)
    BY <2>6, CodeWalk
  <2>8. GivesCode(w[StartOf(A, 1)], A, 1, n)
    BY <1>0, <2>7, Zenon
  <2> QED
    BY <2>4, <2>8, FirstStart, Zenon
<1>3. CASE ~(n >= 20)
  <2>0. n < 20
    BY <1>3
  <2>1. Stun!ParseStunErrorCode(p) = Stun!None
    BY <1>1, <2>0, ParsesCode, Zenon
  <2>2. ASSUME NEW l \in CodesOf(A) PROVE ~(StartOf(A, l) + 8 <= n)
    <3>0. l \in 1..Len(A)
      BY Zenon DEF CodesOf
    <3>1. InOrder(A, l)
      BY <3>0, AllInOrder
    <3>2. StartOf(A, l) \in Nat /\ StartOf(A, l) >= 20
      BY <3>1, Zenon DEF InOrder
    <3> QED
      BY <2>0, <3>2
  <2> QED
    BY <2>1, <2>2, Zenon DEF GivesCode
<1> QED
  BY <1>2, <1>3

\* The inductive invariant: the message is one of those the code or the relay
\* encodes, and what arrived is no longer.
StunInv ==
  /\ MessageOk(message)
  /\ stunPacket \in Seq(Octet) /\ Len(stunPacket) <= Len(message.bytes)

LEMMA Least == ASSUME NEW S, S \subseteq Nat, S # {} PROVE \E k \in S : \A l \in S : k <= l
<1>1. IsWellFoundedOn(OpToRel(<, Nat), Nat)
  BY NatLessThanWellFounded, Zenon
<1>2. PICK k \in S : \A l \in S : ~(<<l, k>> \in OpToRel(<, Nat))
  BY <1>1, WFMin, Zenon
<1>3. ASSUME NEW l \in S PROVE k <= l
  <2>1. k \in Nat /\ l \in Nat
    OBVIOUS
  <2>2. l < k => <<l, k>> \in OpToRel(<, Nat)
    BY <2>1 DEF OpToRel
  <2>3. ~(l < k)
    BY <1>2, <2>2, Zenon
  <2> QED
    BY <2>1, <2>3
<1> QED
  BY <1>3

LEMMA InvPart ==
  ASSUME StunInv, Stun!Untouched
  PROVE  /\ Len(stunPacket) \in Nat /\ Len(stunPacket) <= Len(message.bytes)
         /\ Part(stunPacket, message.bytes, Len(stunPacket))
<1> DEFINE p == stunPacket
           d == message.bytes
           A == AllAttrs(message)
<1>1. p \in Seq(Octet) /\ Len(p) <= Len(d) /\ MessageOk(message)
  BY Zenon DEF StunInv
<1>2. p = SubSeq(d, 1, Len(p))
  BY Zenon DEF Stun!Untouched
<1>3. Layout(d, message.type, A)
  BY <1>1, MessageLaid
<1>4. d \in Seq(Octet)
  BY <1>3, Zenon DEF Layout
<1> HIDE DEF p, d, A
<1>5. Len(p) \in Nat /\ Len(d) \in Nat
  BY <1>1, <1>4
<1> DEFINE n == Len(p)
           u == SubSeq(d, 1, n)
<1>6. \A j \in 1..n : u[j] = d[j]
  BY <1>1, <1>4, <1>5
<1> HIDE DEF n, u
<1>7. \A j \in 1..n : p[j] = d[j]
  BY <1>2, <1>6, Zenon DEF u, n
<1> QED
  BY <1>1, <1>5, <1>7, Zenon DEF Part, p, d, n

\* All that is known of the message.
Known(A) ==
  /\ A \in Seq(Attribute) /\ message.type \in Nat /\ message.type < TypeBound
  /\ Layout(message.bytes, message.type, A) /\ Stun!Whole = A
  /\ AllOk(message, A) /\ message.attrs \in Seq(Attribute)

LEMMA MessageKnown == ASSUME StunInv PROVE Known(AllAttrs(message))
<1> DEFINE A == AllAttrs(message)
<1>1. MessageOk(message)
  BY Zenon DEF StunInv
<1>2. message.type \in Nat /\ message.type < TypeBound /\ message.attrs \in Seq(Attribute)
  BY <1>1, Zenon DEF MessageOk
<1>3. A \in Seq(Attribute) /\ Layout(message.bytes, message.type, A)
  BY <1>1, MessageLaid
<1>4. AllOk(message, A)
  BY <1>1, MessageAttrs
<1> HIDE DEF A
<1>5. Stun!ParseStunAttributes(message.bytes) = A
  BY <1>2, <1>3, WholeRead
<1>6. Stun!Whole = A
  BY <1>5, Zenon DEF Stun!Whole
<1> QED
  BY <1>2, <1>3, <1>4, <1>6, Zenon DEF Known, A

LEMMA StartIs == ASSUME NEW A, Stun!Whole = A PROVE \A k : Stun!Start(k) = StartOf(A, k) /\ Stun!End(k) = EndsAt(A, k)
<1>1. \A k : Stun!Start(k) = StartOf(A, k)
  BY Zenon DEF Stun!Start, StartOf, BytesUpTo, FirstAttrs
<1>2. \A k : Stun!End(k) = EndsAt(A, k)
  BY <1>1, Zenon DEF Stun!End, EndsAt, ValueEnd
<1> QED
  BY <1>1, <1>2, Zenon

LEMMA BackAttributes == ASSUME StunInv, Stun!Untouched PROVE Stun!AttributesReadBack
<1> DEFINE A == AllAttrs(message)
           C == message.attrs
           p == stunPacket
           d == message.bytes
           n == Len(p)
           r == Stun!ParseStunAttributes(p)
<1>1. Known(A)
  BY MessageKnown
<1> HIDE DEF A
<1>2. /\ A \in Seq(Attribute) /\ message.type \in Nat /\ message.type < TypeBound
      /\ Layout(d, message.type, A) /\ Stun!Whole = A
      /\ AllOk(message, A) /\ C \in Seq(Attribute)
  BY <1>1, Zenon DEF Known
<1>3. n \in Nat /\ n <= Len(d) /\ Part(p, d, n)
  BY InvPart, Zenon
<1> HIDE DEF p, d, n, C, r
<1>4. ReadFrom(r, A, 1, n)
  BY <1>2, <1>3, AttributesRead DEF r
<1>5. PICK c \in (1 - 1)..Len(A) : r = SubSeq(A, 1, c) /\ \A l \in 1..Len(A) : l <= c <=> EndsAt(A, l) <= n
  BY <1>4, Zenon DEF ReadFrom
<1>6. Len(r) = c
  <2>1. Len(SubSeq(A, 1, c)) = c
    BY <1>2
  <2> QED
    BY <1>5, <2>1, Zenon
<1>7. Len(C) \in Nat /\ Len(C) <= Len(A) /\ \A k \in 1..Len(C) : A[k] = C[k]
  <2>1. Extends(C, A)
    BY <1>2, Zenon DEF AllOk, C
  <2>2. Len(C) \in Nat
    BY <1>2
  <2> QED
    BY <2>1, <2>2, Zenon DEF Extends
<1>8. SubSeq(A, 1, Len(C)) = C
  <2> DEFINE u == SubSeq(A, 1, Len(C))
  <2>0. Len(A) \in Nat
    BY <1>2
  <2>1. u \in Seq(Attribute) /\ Len(u) = Len(C) /\ \A k \in 1..Len(C) : u[k] = A[k]
    BY <1>2, <1>7, <2>0
  <2>2. \A k \in 1..Len(C) : u[k] = C[k]
    BY <1>7, <2>1, Zenon
  <2>3. C \in Seq(Attribute)
    BY <1>2, Zenon
  <2> HIDE DEF u
  <2>4. u = C
    BY <2>1, <2>2, <2>3
  <2> QED
    BY <2>4 DEF u
<1>9. TypesBehind(A, Len(C)) = Stun!Seals
  BY <1>2, Zenon DEF AllOk, Stun!Seals, C
<1>10. [k \in 1..(Len(A) - Len(C)) |-> A[Len(C) + k].type] = Stun!Seals
  BY <1>9, Zenon DEF TypesBehind
<1>11. \A k \in 1..Len(A) : k <= Len(r) <=> EndsAt(A, k) <= n
  BY <1>5, <1>6, Zenon
<1>12. \A k : Stun!End(k) = EndsAt(A, k)
  BY <1>2, StartIs, Zenon
<1>13. Stun!Given = Len(C)
  BY Zenon DEF Stun!Given, C
<1>14. r = SubSeq(A, 1, Len(r))
  BY <1>5, <1>6, Zenon
<1> QED
  BY <1>2, <1>8, <1>10, <1>11, <1>12, <1>13, <1>14, Zenon DEF Stun!AttributesReadBack, r, p, C, n

\* The error codes among those given, and the first of them.
GivenCodes == {k \in 1..Stun!Given : message.attrs[k].type = Stun!AttrErrorCode /\ Len(message.attrs[k].value) >= 4}
FirstGiven == CHOOSE k \in GivenCodes : \A l \in GivenCodes : k <= l

LEMMA CodesGiven == ASSUME NEW A, Known(A) PROVE GivenCodes = CodesOf(A)
<1> DEFINE C == message.attrs
<1>1. A \in Seq(Attribute) /\ Extends(C, A) /\ C \in Seq(Attribute)
  BY Zenon DEF Known, AllOk
<1>2. /\ Len(C) <= Len(A) /\ (\A k \in 1..Len(C) : A[k] = C[k])
      /\ \A k \in (Len(C) + 1)..Len(A) : HashOnly(A, k)
  BY <1>1, Zenon DEF Extends
<1>3. GivenCodes = {k \in 1..Len(C) : C[k].type = Stun!AttrErrorCode /\ Len(C[k].value) >= 4}
  BY Zenon DEF GivenCodes, Stun!Given
<1>4. Len(C) \in Nat /\ Len(A) \in Nat
  BY <1>1
<1> HIDE DEF C
<1>5. ASSUME NEW k \in GivenCodes PROVE k \in CodesOf(A)
  <2>1. k \in 1..Len(C) /\ C[k].type = Stun!AttrErrorCode /\ Len(C[k].value) >= 4
    BY <1>3, Zenon
  <2>2. k \in 1..Len(A)
    BY <1>2, <1>4, <2>1
  <2>3. A[k] = C[k]
    BY <1>2, <2>1, Zenon
  <2> QED
    BY <2>1, <2>2, <2>3, Zenon DEF CodesOf
<1>6. ASSUME NEW k \in CodesOf(A) PROVE k \in GivenCodes
  <2>1. k \in 1..Len(A) /\ A[k].type = Stun!AttrErrorCode /\ Len(A[k].value) >= 4
    BY Zenon DEF CodesOf
  <2>2. ~(k \in (Len(C) + 1)..Len(A))
    BY <1>2, <2>1, Zenon DEF HashOnly
  <2>3. k \in 1..Len(C)
    BY <1>4, <2>1, <2>2
  <2>4. A[k] = C[k]
    BY <1>2, <2>3, Zenon
  <2> QED
    BY <1>3, <2>1, <2>3, <2>4, Zenon
<1> QED
  BY <1>5, <1>6, Zenon

LEMMA FirstGivenIs ==
  ASSUME NEW A, Known(A), CodesOf(A) # {}
  PROVE  FirstCode(A, 1, FirstGiven)
<1>1. GivenCodes = CodesOf(A)
  BY CodesGiven
<1>2. CodesOf(A) \subseteq Nat /\ \A k \in CodesOf(A) : k >= 1
  <2>1. \A k \in CodesOf(A) : k \in 1..Len(A)
    BY Zenon DEF CodesOf
  <2>2. Len(A) \in Nat
    <3>1. A \in Seq(Attribute)
      BY Zenon DEF Known
    <3> QED
      BY <3>1
  <2> QED
    BY <2>1, <2>2
<1>3. \E k \in GivenCodes : \A l \in GivenCodes : k <= l
  BY <1>1, <1>2, Least
<1>4. FirstGiven \in GivenCodes /\ \A l \in GivenCodes : FirstGiven <= l
  BY <1>3, Zenon DEF FirstGiven
<1> QED
  BY <1>1, <1>2, <1>4, Zenon DEF FirstCode

LEMMA BackCode == ASSUME StunInv, Stun!Untouched PROVE Stun!CodeReadBack
<1> DEFINE A == AllAttrs(message)
           C == message.attrs
           p == stunPacket
           d == message.bytes
           n == Len(p)
           r == Stun!ParseStunErrorCode(p)
           f == FirstGiven
           is == IsErrorType(message.type)
<1>1. Known(A)
  BY MessageKnown
<1> HIDE DEF A
<1>2. /\ A \in Seq(Attribute) /\ message.type \in Nat /\ message.type < TypeBound
      /\ Layout(d, message.type, A) /\ Stun!Whole = A /\ Extends(C, A)
  BY <1>1, Zenon DEF Known, AllOk
<1>3. n \in Nat /\ n <= Len(d) /\ Part(p, d, n)
  BY InvPart, Zenon
<1> HIDE DEF p, d, n, r
<1>4. IF is THEN GivesCode(r, A, 1, n) ELSE r = Stun!None
  BY <1>2, <1>3, CodeReads DEF r
<1> HIDE DEF f, is, C
<1>5. GivenCodes = CodesOf(A)
  BY <1>1, CodesGiven
<1>6. CodesOf(A) # {} => f \in CodesOf(A) /\ f >= 1 /\ \A j \in CodesOf(A) : j >= 1 => f <= j
  BY <1>1, FirstGivenIs, Zenon DEF FirstCode, f
<1>7. CodesOf(A) # {} => C[f] = A[f]
  <2>1. f \in CodesOf(A) => f \in 1..Stun!Given
    BY <1>5, Zenon DEF GivenCodes
  <2>2. \A k \in 1..Len(C) : A[k] = C[k]
    BY <1>2, Zenon DEF Extends
  <2> QED
    BY <1>6, <2>1, <2>2, Zenon DEF Stun!Given, C
<1>8. Stun!Start(f) = StartOf(A, f)
  BY <1>2, StartIs, Zenon
<1>9. r = IF is /\ CodesOf(A) # {} /\ StartOf(A, f) + 8 <= n THEN CodeOf(A[f]) ELSE Stun!None
  <2>1. CASE ~is
    BY <1>4, <2>1, Zenon
  <2>2. CASE is /\ \E l \in CodesOf(A) : FirstCode(A, 1, l) /\ StartOf(A, l) + 8 <= n /\ r = CodeOf(A[l])
    <3>1. PICK l \in CodesOf(A) : FirstCode(A, 1, l) /\ StartOf(A, l) + 8 <= n /\ r = CodeOf(A[l])
      BY <2>2, Zenon
    <3>2. l >= 1 /\ \A j \in CodesOf(A) : j >= 1 => l <= j
      BY <3>1, Zenon DEF FirstCode
    <3>3. CodesOf(A) # {} /\ l <= f /\ f <= l
      BY <3>1, <3>2, <1>6, Zenon
    <3>4. l \in Int /\ f \in Int
      <4>1. \A k \in CodesOf(A) : k \in 1..Len(A)
        BY Zenon DEF CodesOf
      <4>2. Len(A) \in Nat
        BY <1>2
      <4>3. f \in CodesOf(A)
        BY <1>6, <3>3, Zenon
      <4> QED
        BY <3>1, <4>1, <4>2, <4>3
    <3>5. l = f
      BY <3>3, <3>4
    <3> QED
      BY <2>2, <3>1, <3>3, <3>5, Zenon
  <2>3. CASE is /\ r = Stun!None /\ \A l \in CodesOf(A) : l >= 1 => ~(StartOf(A, l) + 8 <= n)
    BY <2>3, <1>6, Zenon
  <2> QED
    BY <1>4, <2>1, <2>2, <2>3, Zenon DEF GivesCode
<1>10. Stun!CodeReadBack <=>
         Stun!ParseStunErrorCode(stunPacket) =
           IF /\ message.type \in {Stun!MsgAllocateError, Stun!MsgBindingError}
              /\ GivenCodes # {} /\ Stun!Start(FirstGiven) + 8 <= Len(stunPacket)
           THEN message.attrs[FirstGiven].value[3] * 100 + message.attrs[FirstGiven].value[4]
           ELSE Stun!None
  BY Zenon DEF Stun!CodeReadBack, GivenCodes, FirstGiven
<1>11. CASE is /\ CodesOf(A) # {} /\ StartOf(A, f) + 8 <= n
  <2>1. r = CodeOf(C[f])
    BY <1>7, <1>9, <1>11, Zenon
  <2>2. /\ message.type \in {Stun!MsgAllocateError, Stun!MsgBindingError}
        /\ GivenCodes # {} /\ Stun!Start(FirstGiven) + 8 <= Len(stunPacket)
    BY <1>5, <1>8, <1>11, Zenon DEF is, IsErrorType, f, n, p
  <2>3. Stun!ParseStunErrorCode(stunPacket) =
          message.attrs[FirstGiven].value[3] * 100 + message.attrs[FirstGiven].value[4]
    BY <2>1, Zenon DEF r, p, CodeOf, f, C
  <2> QED
    BY <1>10, <2>2, <2>3, Zenon
<1>12. CASE ~(is /\ CodesOf(A) # {} /\ StartOf(A, f) + 8 <= n)
  <2>1. r = Stun!None
    BY <1>9, <1>12, Zenon
  <2>2. ~(/\ message.type \in {Stun!MsgAllocateError, Stun!MsgBindingError}
          /\ GivenCodes # {} /\ Stun!Start(FirstGiven) + 8 <= Len(stunPacket))
    BY <1>5, <1>8, <1>12, Zenon DEF is, IsErrorType, f, n, p
  <2>3. Stun!ParseStunErrorCode(stunPacket) = Stun!None
    BY <2>1, Zenon DEF r, p
  <2> QED
    BY <1>10, <2>2, <2>3, Zenon
<1> QED
  BY <1>11, <1>12

LEMMA BackAnswer == ASSUME StunInv, Stun!Untouched PROVE Stun!AnswerReadBack
<1> DEFINE A == AllAttrs(message)
           p == stunPacket
           d == message.bytes
           n == Len(p)
<1> SUFFICES ASSUME n >= 20 PROVE
      /\ Stun!IsAllocateOrBindingSuccess(p) <=> message.type \in {Stun!MsgAllocateSuccess, Stun!MsgBindingSuccess}
      /\ Stun!IsAllocateError(p) <=> message.type = Stun!MsgAllocateError
      /\ Stun!IsWhatsappPong(p, Stun!TransactionID) <=> message.type = Stun!MsgWhatsappPong
  BY Zenon DEF Stun!AnswerReadBack
<1>1. Known(A)
  BY MessageKnown
<1> HIDE DEF A
<1>2. A \in Seq(Attribute) /\ message.type \in Nat /\ message.type < TypeBound /\ Layout(d, message.type, A)
  BY <1>1, Zenon DEF Known
<1>3. n \in Nat /\ n <= Len(d) /\ Part(p, d, n)
  BY InvPart, Zenon
<1> HIDE DEF p, d
<1>4. 20 <= n
  BY <1>3
<1>5. HeadRead(p, message.type, Len(d) - 20)
  BY <1>2, <1>3, <1>4, HeadReads
<1>6. Stun!IsStunPacket(p) /\ Stun!StunMessageType(p) = message.type /\ Stun!StunTransactionID(p) = Stun!TransactionID
  BY <1>5, Zenon DEF HeadRead
<1>7. Stun!IsAllocateOrBindingSuccess(p) <=> message.type \in {Stun!MsgAllocateSuccess, Stun!MsgBindingSuccess}
  BY <1>6, Zenon DEF Stun!IsAllocateOrBindingSuccess
<1>8. Stun!IsAllocateError(p) <=> message.type = Stun!MsgAllocateError
  BY <1>6, Zenon DEF Stun!IsAllocateError
<1>9. Stun!IsWhatsappPong(p, Stun!TransactionID) <=> message.type = Stun!MsgWhatsappPong
  BY <1>6, Zenon DEF Stun!IsWhatsappPong
<1> QED
  BY <1>7, <1>8, <1>9, Zenon

LEMMA BackHashes == ASSUME StunInv PROVE Stun!HashesCoverThemselves
<1> DEFINE A == AllAttrs(message)
<1>1. Known(A)
  BY MessageKnown
<1> HIDE DEF A
<1>2. Stun!Whole = A /\ Extends(message.attrs, A)
  BY <1>1, Zenon DEF Known, AllOk
<1>3. \A k \in (Len(message.attrs) + 1)..Len(A) : HashAt(A, k)
  BY <1>2, Zenon DEF Extends, HashOnly
<1>4. \A k \in (Len(message.attrs) + 1)..Len(A) : Stun!WordAt(A[k].value, 0) = EndsAt(A, k) - 20
  BY <1>3, Zenon DEF HashAt
<1>5. \A k : Stun!End(k) = EndsAt(A, k)
  BY <1>2, StartIs, Zenon
<1> QED
  BY <1>2, <1>4, <1>5, Zenon DEF Stun!HashesCoverThemselves, Stun!Given

LEMMA ReadsBack == ASSUME StunInv PROVE Stun!StunReadBack
BY BackAttributes, BackCode, BackAnswer, BackHashes, Zenon DEF Stun!StunReadBack

LEMMA StaysInside == ASSUME StunInv PROVE Stun!WalkStaysInside
<1>1. stunPacket \in Seq(Octet)
  BY Zenon DEF StunInv
<1> QED
  BY <1>1, ParsesInside, Zenon DEF Stun!WalkStaysInside

\* The constants.
StunConstants ==
  /\ \A type \in MsgTypes : type \in Nat /\ type < TypeBound
  /\ AttrTypes \subseteq 0..MaxWord /\ ValueLens \subseteq 0..15
  /\ MaxAttrs \in Nat /\ MaxAttrs <= 14 /\ DamagedTo \subseteq Octet

LEMMA StunAssumed == StunConstants
<1>1. Stun!StunAssumption
  BY SequentialAssumption
<1>2. MsgTypes \subseteq Stun!StunTypes /\ AttrTypes \subseteq Stun!Words
  BY <1>1, Zenon DEF Stun!StunAssumption
<1>3. ValueLens \subseteq 0..15 /\ MaxAttrs \in 0..14 /\ DamagedTo \subseteq Stun!Bytes
  BY <1>1, Zenon DEF Stun!StunAssumption
<1>4. \A type \in Stun!StunTypes : type \in Nat /\ type < TypeBound
  BY SMT DEF Stun!StunTypes, TypeBound
<1>5. Stun!Words = 0..MaxWord
  BY SMT DEF Stun!Words, MaxWord
<1>6. Stun!Bytes = Octet
  BY SMT DEF Stun!Bytes, Octet
<1>7. \A n \in 0..14 : n \in Nat /\ n <= 14
  BY SMT
<1>8. \A type \in MsgTypes : type \in Nat /\ type < TypeBound
  BY <1>2, <1>4, Zenon
<1>9. AttrTypes \subseteq 0..MaxWord
  BY <1>2, <1>5, Zenon
<1>10. MaxAttrs \in Nat /\ MaxAttrs <= 14
  BY <1>3, <1>7, Zenon
<1>11. DamagedTo \subseteq Octet
  BY <1>3, <1>6, Zenon
<1> QED
  BY <1>3, <1>8, <1>9, <1>10, <1>11, Zenon DEF StunConstants

LEMMA ValueIs ==
  ASSUME NEW k \in 1..14, NEW n \in 0..15
  PROVE  Stun!Value(k, n) \in Seq(Octet) /\ Len(Stun!Value(k, n)) = n
<1>1. Stun!Value(k, n) = [j \in 1..n |-> 16 * k + j]
  BY Zenon DEF Stun!Value
<1>2. \A j \in 1..n : 16 * k + j \in Octet
  BY SMT DEF Octet
<1>3. [j \in 1..n |-> 16 * k + j] \in [1..n -> Octet] /\ n \in Nat
  BY <1>2
<1>4. \A v \in [1..n -> Octet] : v \in Seq(Octet) /\ Len(v) = n
  BY <1>3, FunctionIsSeq
<1> QED
  BY <1>1, <1>3, <1>4, Zenon

LEMMA NumberedIs ==
  ASSUME NEW n \in 0..14, NEW types, NEW lens, Len(types) = n,
         \A k \in 1..n : types[k] \in 0..MaxWord /\ lens[k] \in 0..15
  PROVE  Stun!Numbered(types, lens) \in Seq(Attribute) /\ Len(Stun!Numbered(types, lens)) = n
<1> DEFINE a(k) == [type |-> types[k], value |-> Stun!Value(k, lens[k])]
           s == [k \in 1..n |-> a(k)]
<1>1. Stun!Numbered(types, lens) = s
  BY Zenon DEF Stun!Numbered
<1>2. ASSUME NEW k \in 1..n PROVE a(k) \in Attribute
  <2> DEFINE v == Stun!Value(k, lens[k])
             b == [type |-> types[k], value |-> v]
  <2>1. types[k] \in 0..MaxWord /\ lens[k] \in 0..15
    BY Zenon
  <2>2. k \in 1..14
    BY SMT
  <2>3. \A m \in 0..15 : m <= 20
    BY SMT
  <2>4. lens[k] <= 20
    BY <2>1, <2>3, Zenon
  <2>5. v \in Seq(Octet) /\ Len(v) = lens[k]
    BY <2>1, <2>2, ValueIs
  <2> HIDE DEF v
  <2>6. b \in [type : 0..MaxWord, value : Seq(Octet)]
    BY <2>1, <2>5, Zenon
  <2>7. b.value = v
    OBVIOUS
  <2>8. a(k) = b
    BY Zenon DEF v
  <2> HIDE DEF b, a
  <2>9. Len(b.value) <= 20
    BY <2>4, <2>5, <2>7, Zenon
  <2>10. b \in Attribute
    BY <2>6, <2>9, Zenon DEF Attribute
  <2> QED
    BY <2>8, <2>10, Zenon
<1> HIDE DEF a
<1>3. s \in [1..n -> Attribute] /\ n \in Nat
  BY <1>2
<1> HIDE DEF s
<1>4. s \in Seq(Attribute) /\ Len(s) = n
  BY <1>3, FunctionIsSeq
<1> QED
  BY <1>1, <1>4, Zenon

LEMMA MessageIs ==
  ASSUME NEW type \in Nat, type < TypeBound, NEW C \in Seq(Attribute), Len(C) <= 14,
         NEW x \in BOOLEAN, NEW y \in BOOLEAN
  PROVE  MessageOk(Stun!Message(type, C, x, y))
<1> DEFINE m == Stun!Message(type, C, x, y)
           b == Stun!EncodeStunRequest(type, Stun!Encoded(C), x, y)
<1>1. m = [type |-> type, attrs |-> C, integrity |-> x, fingerprint |-> y, bytes |-> b]
  BY Zenon DEF Stun!Message
<1> HIDE DEF b, m
<1>2. m.type = type /\ m.attrs = C /\ m.integrity = x /\ m.fingerprint = y /\ m.bytes = b
  BY <1>1
<1> QED
  BY <1>2, Zenon DEF MessageOk, b, m

LEMMA RepliesOk == ASSUME StunConstants, NEW m \in Stun!Replies PROVE MessageOk(m)
<1>1. PICK n \in 0..MaxAttrs : \E type \in MsgTypes, types \in [1..n -> AttrTypes], lens \in [1..n -> ValueLens],
                                  hashed \in BOOLEAN : m = Stun!Message(type, Stun!Numbered(types, lens), hashed, hashed)
  BY DEF Stun!Replies
<1>2. PICK type \in MsgTypes, types \in [1..n -> AttrTypes], lens \in [1..n -> ValueLens], hashed \in BOOLEAN :
        m = Stun!Message(type, Stun!Numbered(types, lens), hashed, hashed)
  BY <1>1, Zenon
<1>3. n \in 0..14 /\ n \in Nat
  BY DEF StunConstants
<1>4. \A v \in [1..n -> AttrTypes] : Len(v) = n
  BY <1>3, FunctionIsSeq
<1>5. Len(types) = n
  BY <1>4, Zenon
<1>6. \A k \in 1..n : types[k] \in 0..MaxWord /\ lens[k] \in 0..15
  <2>1. \A k \in 1..n : types[k] \in AttrTypes /\ lens[k] \in ValueLens
    OBVIOUS
  <2> QED
    BY <2>1, Zenon DEF StunConstants
<1> DEFINE C == Stun!Numbered(types, lens)
<1>7. C \in Seq(Attribute) /\ Len(C) = n
  BY <1>3, <1>5, <1>6, NumberedIs
<1> HIDE DEF C
<1>8. Len(C) <= 14
  BY <1>3, <1>7
<1>9. type \in Nat /\ type < TypeBound
  BY Zenon DEF StunConstants
<1>10. MessageOk(Stun!Message(type, C, hashed, hashed))
  BY <1>7, <1>8, <1>9, MessageIs
<1> QED
  BY <1>2, <1>10, Zenon DEF C

LEMMA ThreeAttrs ==
  ASSUME NEW a \in 0..MaxWord, NEW b \in 0..MaxWord, NEW c \in 0..MaxWord,
         NEW u \in 0..15, NEW v \in 0..15, NEW w \in 0..15
  PROVE  Stun!Numbered(<<a, b, c>>, <<u, v, w>>) \in Seq(Attribute) /\ Len(Stun!Numbered(<<a, b, c>>, <<u, v, w>>)) <= 14
<1> DEFINE t == <<a, b, c>>
           l == <<u, v, w>>
<1>1. Len(t) = 3 /\ t[1] = a /\ t[2] = b /\ t[3] = c /\ l[1] = u /\ l[2] = v /\ l[3] = w
  OBVIOUS
<1> HIDE DEF t, l
<1>2. \A k \in 1..3 : t[k] \in 0..MaxWord /\ l[k] \in 0..15
  <2>1. \A k \in 1..3 : k = 1 \/ k = 2 \/ k = 3
    OBVIOUS
  <2> QED
    BY <1>1, <2>1, Zenon
<1>3. 3 \in 0..14 /\ 3 <= 14
  OBVIOUS
<1>4. Stun!Numbered(t, l) \in Seq(Attribute) /\ Len(Stun!Numbered(t, l)) = 3
  BY <1>1, <1>2, <1>3, NumberedIs
<1> QED
  BY <1>3, <1>4, Zenon DEF t, l

LEMMA RequestTypes ==
  /\ Stun!AttrRelayToken \in 0..MaxWord /\ Stun!AttrStreamDescriptors \in 0..MaxWord
  /\ Stun!AttrWasmRelayEndpoint \in 0..MaxWord /\ Stun!AttrSenderSubscriptionsV2 \in 0..MaxWord
  /\ Stun!MsgAllocateRequest \in Nat /\ Stun!MsgAllocateRequest < TypeBound
  /\ Stun!MsgWhatsappPing \in Nat /\ Stun!MsgWhatsappPing < TypeBound
BY SMT DEF Stun!AttrRelayToken, Stun!AttrStreamDescriptors, Stun!AttrWasmRelayEndpoint,
           Stun!AttrSenderSubscriptionsV2, Stun!MsgAllocateRequest, Stun!MsgWhatsappPing, MaxWord, TypeBound

LEMMA RequestsOk ==
  ASSUME NEW token \in 0..15, NEW subs \in 0..15, NEW x \in BOOLEAN, NEW y \in BOOLEAN
  PROVE  /\ MessageOk(Stun!BuildWasmStunAllocateRequest(token, x))
         /\ MessageOk(Stun!BuildAndroidStunAllocateRequest(token, subs, x, y))
<1>0. 12 \in 0..15 /\ 8 \in 0..15 /\ 11 \in 0..15 /\ FALSE \in BOOLEAN
  OBVIOUS
<1>1. MessageOk(Stun!BuildWasmStunAllocateRequest(token, x))
  <2> DEFINE C == Stun!Numbered(<<Stun!AttrRelayToken, Stun!AttrStreamDescriptors, Stun!AttrWasmRelayEndpoint>>,
                                <<token, 12, 8>>)
  <2>1. C \in Seq(Attribute) /\ Len(C) <= 14
    BY <1>0, RequestTypes, ThreeAttrs, Zenon
  <2> HIDE DEF C
  <2>2. MessageOk(Stun!Message(Stun!MsgAllocateRequest, C, x, FALSE))
    BY <1>0, <2>1, RequestTypes, MessageIs, Zenon
  <2> QED
    BY <2>2, Zenon DEF Stun!BuildWasmStunAllocateRequest, C
<1>2. MessageOk(Stun!BuildAndroidStunAllocateRequest(token, subs, x, y))
  <2> DEFINE C == Stun!Numbered(<<Stun!AttrRelayToken, Stun!AttrSenderSubscriptionsV2, Stun!AttrStreamDescriptors>>,
                                <<token, subs, 11>>)
  <2>1. C \in Seq(Attribute) /\ Len(C) <= 14
    BY <1>0, RequestTypes, ThreeAttrs, Zenon
  <2> HIDE DEF C
  <2>2. MessageOk(Stun!Message(Stun!MsgAllocateRequest, C, x, y))
    BY <2>1, RequestTypes, MessageIs, Zenon
  <2> QED
    BY <2>2, Zenon DEF Stun!BuildAndroidStunAllocateRequest, C
<1> QED
  BY <1>1, <1>2

LEMMA PingOk == MessageOk(Stun!BuildWhatsappPing)
<1> DEFINE m == Stun!BuildWhatsappPing
           h == Stun!StunHeader(Stun!MsgWhatsappPing, 0)
           e == Stun!Encoded(<<>>)
<1>1. m.type = Stun!MsgWhatsappPing /\ m.attrs = <<>> /\ m.integrity = FALSE /\ m.fingerprint = FALSE /\ m.bytes = h
  <2> HIDE DEF h
  <2> QED
    BY DEF Stun!BuildWhatsappPing, h
<1>2. <<>> \in Seq(Attribute) /\ Len(<<>>) = 0 /\ 0 <= 14 /\ SubSeq(<<>>, 1, 0) = <<>> /\ 0 \in Nat
  OBVIOUS
<1>3. e = <<>>
  <2>1. FirstAttrs(<<>>, 0) = <<>>
    BY <1>2, FirstNone
  <2> QED
    BY <1>2, <2>1, Zenon DEF FirstAttrs
<1>4. h \in Seq(Octet)
  <2>1. Stun!MsgWhatsappPing <= MaxWord /\ 0 <= MaxWord
    BY SMT DEF Stun!MsgWhatsappPing, MaxWord
  <2>2. Heads(h, Stun!MsgWhatsappPing, 0)
    BY <1>2, <2>1, RequestTypes, HeaderHeads, Zenon
  <2> QED
    BY <2>2, Zenon DEF Heads
<1>5. h \o <<>> = h
  <2> HIDE DEF h
  <2> QED
    BY <1>4
<1>6. Stun!EncodeStunRequest(Stun!MsgWhatsappPing, e, FALSE, FALSE) = Stun!StunHeader(Stun!MsgWhatsappPing, Len(e)) \o e
  <2> HIDE DEF e
  <2> QED
    BY Zenon DEF Stun!EncodeStunRequest
<1>7. m.bytes = Stun!EncodeStunRequest(m.type, Stun!Encoded(m.attrs), m.integrity, m.fingerprint)
  <2> HIDE DEF m
  <2> QED
    BY <1>1, <1>2, <1>3, <1>5, <1>6, Zenon
<1> HIDE DEF m
<1> QED
  BY <1>1, <1>2, <1>7, RequestTypes, Zenon DEF MessageOk, m

\* Whatever is sent or arrives.
LEMMA StunNow ==
  ASSUME NEW m, MessageOk(m), NEW p \in Seq(Octet), Len(p) <= Len(m.bytes), message' = m, stunPacket' = p
  PROVE  StunInv'
BY Zenon DEF StunInv

LEMMA StunSent == ASSUME NEW m, MessageOk(m), message' = m, stunPacket' = m.bytes PROVE StunInv'
<1>1. Layout(m.bytes, m.type, AllAttrs(m))
  BY MessageLaid
<1>2. m.bytes \in Seq(Octet)
  BY <1>1, Zenon DEF Layout
<1>3. Len(m.bytes) <= Len(m.bytes)
  BY <1>2
<1> QED
  BY <1>2, <1>3, StunNow, Zenon

LEMMA StunStays == ASSUME StunConstants, StunInv, [Stun!Next]_(Stun!vars) PROVE StunInv'
<1>0. MessageOk(message) /\ stunPacket \in Seq(Octet) /\ Len(stunPacket) <= Len(message.bytes)
  BY Zenon DEF StunInv
<1>1. CASE Stun!SendReply
  <2>1. PICK m \in Stun!Replies : Stun!Send(m)
    BY <1>1, Zenon DEF Stun!SendReply
  <2>2. message' = m /\ stunPacket' = m.bytes
    BY <2>1, Zenon DEF Stun!Send
  <2> QED
    BY <2>2, RepliesOk, StunSent
<1>2. CASE Stun!SendAllocate
  <2>1. PICK token \in ValueLens, subs \in ValueLens, x \in BOOLEAN, y \in BOOLEAN :
          \/ Stun!Send(Stun!BuildWasmStunAllocateRequest(token, x))
          \/ Stun!Send(Stun!BuildAndroidStunAllocateRequest(token, subs, x, y))
    BY <1>2, Zenon DEF Stun!SendAllocate
  <2>2. token \in 0..15 /\ subs \in 0..15
    BY Zenon DEF StunConstants
  <2>3. /\ MessageOk(Stun!BuildWasmStunAllocateRequest(token, x))
        /\ MessageOk(Stun!BuildAndroidStunAllocateRequest(token, subs, x, y))
    BY <2>2, RequestsOk
  <2>4. PICK m : MessageOk(m) /\ Stun!Send(m)
    BY <2>1, <2>3, Zenon
  <2>5. message' = m /\ stunPacket' = m.bytes
    BY <2>4, Zenon DEF Stun!Send
  <2> QED
    BY <2>4, <2>5, StunSent
<1>3. CASE Stun!Cut
  <2>1. PICK n \in 0..(Len(message.bytes) - 1) : stunPacket' = SubSeq(message.bytes, 1, n)
    BY <1>3, Zenon DEF Stun!Cut
  <2>2. message' = message /\ stunPacket = message.bytes
    BY <1>3, Zenon DEF Stun!Cut
  <2> DEFINE d == message.bytes
             u == SubSeq(d, 1, n)
  <2>3. d \in Seq(Octet)
    BY <1>0, <2>2
  <2> HIDE DEF d
  <2>4. n \in 0..(Len(d) - 1)
    BY DEF d
  <2>5. u \in Seq(Octet) /\ Len(u) <= Len(d)
    BY <2>3, <2>4
  <2> HIDE DEF u
  <2> QED
    BY <1>0, <2>1, <2>2, <2>5, StunNow, Zenon DEF u, d
<1>4. CASE Stun!Damage
  <2>1. PICK n \in 1..Len(stunPacket), b \in DamagedTo : stunPacket' = [stunPacket EXCEPT ![n] = b]
    BY <1>4, Zenon DEF Stun!Damage
  <2>2. message' = message
    BY <1>4, Zenon DEF Stun!Damage
  <2>3. b \in Octet
    BY Zenon DEF StunConstants
  <2> DEFINE p == stunPacket
             u == [p EXCEPT ![n] = b]
  <2>4. p \in Seq(Octet) /\ n \in 1..Len(p)
    BY <1>0
  <2> HIDE DEF p
  <2>5. u \in Seq(Octet) /\ Len(u) = Len(p)
    BY <2>3, <2>4
  <2> HIDE DEF u
  <2>6. Len(u) <= Len(message.bytes) /\ stunPacket' = u
    BY <1>0, <2>1, <2>5, Zenon DEF u, p
  <2> QED
    BY <1>0, <2>2, <2>5, <2>6, StunNow, Zenon
<1>5. CASE Stun!Encode
  <2>1. message' = message /\ stunPacket' = stunPacket
    BY <1>5, Zenon DEF Stun!Encode
  <2> QED
    BY <1>0, <2>1, StunNow, Zenon
<1>6. CASE UNCHANGED Stun!vars
  <2>1. message' = message /\ stunPacket' = stunPacket
    BY <1>6 DEF Stun!vars
  <2> QED
    BY <1>0, <2>1, StunNow, Zenon
<1> QED
  BY <1>1, <1>2, <1>3, <1>4, <1>5, <1>6, Zenon DEF Stun!Next

LEMMA StunStarts == ASSUME Stun!Init PROVE StunInv
<1> DEFINE m == Stun!BuildWhatsappPing
<1>1. message = m /\ stunPacket = m.bytes
  BY Zenon DEF Stun!Init
<1>2. MessageOk(m)
  BY PingOk
<1> HIDE DEF m
<1>3. Layout(m.bytes, m.type, AllAttrs(m))
  BY <1>2, MessageLaid
<1>4. m.bytes \in Seq(Octet)
  BY <1>3, Zenon DEF Layout
<1>5. Len(m.bytes) <= Len(m.bytes)
  BY <1>4
<1> QED
  BY <1>1, <1>2, <1>4, <1>5, Zenon DEF StunInv

LEMMA StunInvariant == SequentialSpec => [](part = "StunMessage" => StunInv)
<1> DEFINE Inv == part = "StunMessage" => StunInv
<1>1. SequentialInit => Inv
  BY StunStarts DEF SequentialInit
<1>2. Inv /\ [SequentialNext]_allVars => Inv'
  <2> SUFFICES ASSUME Inv, [SequentialNext]_allVars, part = "StunMessage" PROVE StunInv'
    BY WirePartMoves
  <2>1. [Stun!Next]_(Stun!vars)
    BY WirePartMoves
  <2> QED
    BY <2>1, StunAssumed, StunStays
<1> QED
  BY <1>1, <1>2, PTL DEF SequentialSpec

\* However a byte is damaged and wherever the packet ends, neither walk over
\* the attributes reads a byte that is not there (stun.go:272-328).
THEOREM WalksStayInside == SequentialSpec => []WalkStaysInside
<1>1. (part = "StunMessage" => StunInv) => WalkStaysInside
  BY StaysInside, Zenon DEF WalkStaysInside
<1> QED
  BY <1>1, StunInvariant, PTL

\* A message of any attributes, cut anywhere, is read as far as it goes, and
\* its hashes are over what stands before their own end (stun.go:77-123,
\* 205-343).
THEOREM StunComesBack == SequentialSpec => []StunReadBack
<1>1. (part = "StunMessage" => StunInv) => StunReadBack
  BY ReadsBack, Zenon DEF StunReadBack
<1> QED
  BY <1>1, StunInvariant, PTL
=============================================================================
