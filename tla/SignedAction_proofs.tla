--------------------------- MODULE SignedAction_proofs ---------------------------
(***************************************************************************)
(* Signed actions, for every request, room, key, digest, nonce and         *)
(* alignment, on every curve of which CurveAssumption is true. In turn:    *)
(* a signature of ecdsa_sign_digest verifies, and its sender is recovered  *)
(* from it; what pb_pack makes of a message in any room; what a node reads *)
(* from such a message; the two for the messages sent; and the call from   *)
(* its request to the bytes sent.                                          *)
(***************************************************************************)
EXTENDS SignedAction, Keccak_proofs, Foundations

Scalar == 1..(Order - 1)

(* One caller who signs a digest of any size whenever he is answered.      *)
EcdsaNext ==
    \/ EcdsaStep
    \/ signing # "try" /\ \E priv \in Scalar, hash \in Nat : Sign(priv, hash)

EcdsaSpec == EcdsaInit /\ [][EcdsaNext]_ecdsaVars

-----------------------------------------------------------------------------
(* Numbers modulo the order.                                               *)
LEMMA Remainder ==
    ASSUME NEW a \in Int
    PROVE  /\ a % Order \in 0..(Order - 1) /\ a \div Order \in Int
           /\ a = Order * (a \div Order) + (a % Order)
  BY EcdsaAssumption

LEMMA UniqueRemainder ==
    ASSUME NEW p \in Int, NEW q \in Int, NEW a \in 0..(Order - 1), NEW b \in 0..(Order - 1),
           Order * p + a = Order * q + b
    PROVE  a = b
  <1>1. CASE p < q
    <2>1. Order * (q - p) >= Order * 1
      BY <1>1, EcdsaAssumption
    <2>2. Order * q - Order * p = Order * (q - p)
      BY EcdsaAssumption
    <2> QED BY <2>1, <2>2, EcdsaAssumption
  <1>2. CASE q < p
    <2>1. Order * (p - q) >= Order * 1
      BY <1>2, EcdsaAssumption
    <2>2. Order * p - Order * q = Order * (p - q)
      BY EcdsaAssumption
    <2> QED BY <2>1, <2>2, EcdsaAssumption
  <1> QED BY <1>1, <1>2, EcdsaAssumption

(* a and b are the same number modulo the order.                           *)
Same(a, b) == a % Order = b % Order

LEMMA SameByMultiple ==
    ASSUME NEW a \in Int, NEW b \in Int, NEW q \in Int, a = b + q * Order
    PROVE  Same(a, b)
  <1> DEFINE p1 == a \div Order
             r1 == a % Order
             p2 == b \div Order
             r2 == b % Order
  <1>1. /\ p1 \in Int /\ r1 \in 0..(Order - 1) /\ a = Order * p1 + r1
        /\ p2 \in Int /\ r2 \in 0..(Order - 1) /\ b = Order * p2 + r2
    BY Remainder
  <1> HIDE DEF p1, r1, p2, r2
  <1>2. Order * p1 + r1 = Order * (p2 + q) + r2 /\ p2 + q \in Int
    BY <1>1, EcdsaAssumption
  <1>3. r1 = r2
    BY <1>1, <1>2, UniqueRemainder
  <1> QED BY <1>3 DEF r1, r2, Same

LEMMA MultipleBySame ==
    ASSUME NEW a \in Int, NEW b \in Int, Same(a, b)
    PROVE  \E q \in Int : a = b + q * Order
  <1> DEFINE p1 == a \div Order
             r1 == a % Order
             p2 == b \div Order
             r2 == b % Order
  <1>1. /\ p1 \in Int /\ r1 \in 0..(Order - 1) /\ a = Order * p1 + r1
        /\ p2 \in Int /\ r2 \in 0..(Order - 1) /\ b = Order * p2 + r2
    BY Remainder
  <1>2. r1 = r2
    BY DEF Same
  <1> HIDE DEF p1, r1, p2, r2
  <1>3. p1 - p2 \in Int /\ a = b + (p1 - p2) * Order
    BY <1>1, <1>2, EcdsaAssumption
  <1> QED BY <1>3

LEMMA SameProduct ==
    ASSUME NEW a \in Int, NEW b \in Int, NEW c \in Int, NEW d \in Int, Same(a, b), Same(c, d)
    PROVE  Same(a * c, b * d)
  <1>1. PICK p \in Int : a = b + p * Order
    BY MultipleBySame
  <1>2. PICK q \in Int : c = d + q * Order
    BY MultipleBySame
  <1> DEFINE m == b * q + p * d + p * q * Order
  <1>3. m \in Int /\ a * c = b * d + m * Order /\ a * c \in Int /\ b * d \in Int
    BY <1>1, <1>2, EcdsaAssumption
  <1> HIDE DEF m
  <1> QED BY <1>3, SameByMultiple

LEMMA SameSum ==
    ASSUME NEW a \in Int, NEW b \in Int, NEW c \in Int, NEW d \in Int, Same(a, b), Same(c, d)
    PROVE  Same(a + c, b + d)
  <1>1. PICK p \in Int : a = b + p * Order
    BY MultipleBySame
  <1>2. PICK q \in Int : c = d + q * Order
    BY MultipleBySame
  <1>3. p + q \in Int /\ a + c = b + d + (p + q) * Order /\ a + c \in Int /\ b + d \in Int
    BY <1>1, <1>2, EcdsaAssumption
  <1> QED BY <1>3, SameByMultiple

LEMMA SameReduced ==
    ASSUME NEW a \in Int
    PROVE  a % Order \in Int /\ Same(a % Order, a) /\ Same(a, a % Order)
  <1> DEFINE p == a \div Order
             r == a % Order
  <1>1. p \in Int /\ r \in 0..(Order - 1) /\ a = Order * p + r
    BY Remainder
  <1> HIDE DEF p, r
  <1>2. a = r + p * Order /\ r \in Int
    BY <1>1, EcdsaAssumption
  <1>3. Same(a, r)
    BY <1>1, <1>2, SameByMultiple
  <1>4. Same(r, a)
    BY <1>3 DEF Same
  <1> QED BY <1>2, <1>3, <1>4 DEF r

LEMMA SmallReduced ==
    ASSUME NEW a \in 0..(Order - 1)
    PROVE  a % Order = a
  <1> DEFINE p == a \div Order
             r == a % Order
  <1>1. p \in Int /\ r \in 0..(Order - 1) /\ a = Order * p + r
    BY Remainder
  <1> HIDE DEF p, r
  <1>2. Order * 0 + a = Order * p + r /\ 0 \in Int
    BY <1>1, EcdsaAssumption
  <1>3. a = r
    BY <1>1, <1>2, UniqueRemainder
  <1> QED BY <1>3 DEF r

LEMMA Transitive ==
    ASSUME NEW a, NEW b, NEW c, Same(a, b), Same(b, c)
    PROVE  Same(a, c) /\ Same(b, a)
  BY DEF Same

-----------------------------------------------------------------------------
(* Inverses.                                                               *)
LEMMA One == 1 \in Int /\ 1 % Order = 1
  <1>1. 1 \in 0..(Order - 1)
    BY EcdsaAssumption
  <1> QED BY <1>1, SmallReduced

LEMMA InverseIs ==
    ASSUME NEW a \in Scalar
    PROVE  /\ bn_inverse(a, Order) \in Scalar /\ bn_inverse(a, Order) \in Int /\ a \in Int
           /\ Same(a * bn_inverse(a, Order), 1)
  <1>1. \E b \in Scalar : (a * b) % Order = 1
    BY CurveAssumption DEF Scalar
  <1>2. bn_inverse(a, Order) \in Scalar /\ (a * bn_inverse(a, Order)) % Order = 1
    BY <1>1, Zenon DEF bn_inverse, Scalar
  <1> QED BY <1>2, One, EcdsaAssumption DEF Scalar, Same

(* What is invertible can be cancelled.                                    *)
LEMMA Cancelled ==
    ASSUME NEW a \in Scalar, NEW x \in Int, NEW y \in Int, Same(a * x, a * y)
    PROVE  Same(x, y)
  <1> DEFINE i == bn_inverse(a, Order)
  <1>1. i \in Int /\ a \in Int /\ Same(a * i, 1)
    BY InverseIs
  <1> HIDE DEF i
  <1>2. \A u \in Int : Same(i * (a * u), u)
    <2> TAKE u \in Int
    <2>1. Same((a * i) * u, 1 * u)
      <3>1. a * i \in Int /\ Same(u, u)
        BY <1>1 DEF Same
      <3> QED BY <1>1, <3>1, One, SameProduct
    <2>2. (a * i) * u = i * (a * u) /\ 1 * u = u
      BY <1>1
    <2> QED BY <2>1, <2>2
  <1>3. Same(i * (a * x), i * (a * y))
    <2>1. a * x \in Int /\ a * y \in Int /\ Same(i, i)
      BY <1>1 DEF Same
    <2> QED BY <1>1, <2>1, SameProduct
  <1>4. Same(x, i * (a * x)) /\ Same(i * (a * y), y)
    <2>1. Same(i * (a * x), x) /\ Same(i * (a * y), y)
      BY <1>2
    <2> QED BY <2>1 DEF Same
  <1> QED BY <1>3, <1>4, Transitive

LEMMA ProductScalar ==
    ASSUME NEW a \in Scalar, NEW b \in Scalar
    PROVE  (a * b) % Order \in Scalar
  <1>1. a \in Int /\ b \in Int /\ a * b \in Int
    BY EcdsaAssumption DEF Scalar
  <1>2. (a * b) % Order \in 0..(Order - 1)
    BY <1>1, Remainder
  <1>3. (a * b) % Order # 0
    <2> SUFFICES ASSUME (a * b) % Order = 0
                 PROVE  FALSE
      OBVIOUS
    <2>1. 0 % Order = 0 /\ b % Order = b
      <3>1. 0 \in 0..(Order - 1) /\ b \in 0..(Order - 1)
        BY EcdsaAssumption DEF Scalar
      <3> QED BY <3>1, SmallReduced
    <2>2. a * 0 = 0 /\ 0 \in Int
      BY <1>1
    <2>3. Same(a * b, a * 0)
      BY <2>1, <2>2 DEF Same
    <2>4. Same(b, 0)
      BY <1>1, <2>2, <2>3, Cancelled
    <2>5. b = 0
      BY <2>1, <2>4 DEF Same
    <2> QED BY <2>5 DEF Scalar
  <1> QED BY <1>2, <1>3 DEF Scalar

-----------------------------------------------------------------------------
(* s, times the nonce, is r times the key plus the digest: the blinding    *)
(* has cancelled out (ecdsa.c:708-716).                                    *)
LEMMA ScalarSIs ==
    ASSUME NEW k \in Scalar, NEW rand \in Scalar, NEW r \in Nat, NEW s, s = ScalarS(k, rand, r),
           priv_key \in Scalar, digest \in Nat
    PROVE  s \in 0..(Order - 1) /\ Same(s * k, r * priv_key + digest)
  <1> DEFINE t == r * priv_key + digest
             m == (rand * k) % Order
             i == bn_inverse(m, Order)
             v == (rand * t) % Order
  <1>1. k \in Int /\ rand \in Int /\ t \in Int
    BY EcdsaAssumption DEF Scalar
  <1>2. m \in Scalar /\ m \in Int /\ Same(m, rand * k) /\ rand * k \in Int
    BY <1>1, ProductScalar, SameReduced DEF Scalar
  <1>3. i \in Int /\ Same(m * i, 1)
    BY <1>2, InverseIs
  <1> HIDE DEF t
  <1>4. v \in Int /\ Same(v, rand * t) /\ rand * t \in Int
    BY <1>1, SameReduced
  <1>5. s = (i * v) % Order
    BY DEF ScalarS, t
  <1> HIDE DEF m, i, v
  <1>6. i * v \in Int
    BY <1>3, <1>4
  <1>7. s \in 0..(Order - 1) /\ s \in Int /\ Same(s, i * v)
    BY <1>5, <1>6, Remainder, SameReduced
  <1>8. Same(i * v, i * (rand * t))
    BY <1>3, <1>4, SameProduct DEF Same
  <1>9. Same(s, i * (rand * t)) /\ i * (rand * t) \in Int
    BY <1>3, <1>4, <1>7, <1>8, Transitive
  <1>10. Same(s * k, (i * (rand * t)) * k)
    BY <1>1, <1>7, <1>9, SameProduct DEF Same
  <1>11. (i * (rand * t)) * k = (rand * k) * (i * t)
    BY <1>1, <1>3
  <1>12. i * t \in Int /\ m * i \in Int
    BY <1>1, <1>2, <1>3
  <1>13. Same((rand * k) * (i * t), m * (i * t))
    <2>1. Same(rand * k, m) /\ Same(i * t, i * t)
      BY <1>2, Transitive DEF Same
    <2> QED BY <1>2, <1>12, <2>1, SameProduct
  <1>14. m * (i * t) = (m * i) * t
    BY <1>1, <1>2, <1>3
  <1>15. Same((m * i) * t, 1 * t)
    <2>1. Same(t, t)
      BY DEF Same
    <2> QED BY <1>1, <1>3, <1>12, <2>1, One, SameProduct
  <1>16. 1 * t = t
    BY <1>1
  <1>17. Same(s * k, t)
    BY <1>10, <1>11, <1>13, <1>14, <1>15, <1>16, Transitive
  <1> QED BY <1>7, <1>17 DEF t

-----------------------------------------------------------------------------
(* What the signer returns: sg is a signature of z with the key d, made    *)
(* with the nonce k; its s is the smaller one of two.                      *)
IsSignature(d, z, sg, k) ==
    /\ sg.r \in Scalar /\ sg.s \in 1..order_half
    /\ sg.r = scalar_multiply[k][1] % Order
    /\ sg.by = RecoveryByte(scalar_multiply[k])
    /\ Same(sg.s * k, sg.r * d + z)

LEMMA PointIs ==
    ASSUME NEW k \in Scalar
    PROVE  /\ scalar_multiply[k][1] \in 0..(Prime - 1)
           /\ scalar_multiply[k][2] \in 1..(Prime - 1)
           /\ Order - k \in Scalar
           /\ scalar_multiply[Order - k][1] = scalar_multiply[k][1]
           /\ scalar_multiply[Order - k][2] = Prime - scalar_multiply[k][2]
  <1>1. /\ scalar_multiply[k] \in (0..(Prime - 1)) \X (1..(Prime - 1))
        /\ scalar_multiply[Order - k] = <<scalar_multiply[k][1], Prime - scalar_multiply[k][2]>>
    BY CurveAssumption DEF Scalar
  <1>2. Order - k \in Scalar
    BY EcdsaAssumption DEF Scalar
  <1> QED BY <1>1, <1>2

(* Of the two points with the same x one has an even y, the other an odd.  *)
LEMMA OtherParity ==
    ASSUME NEW k \in Scalar
    PROVE  /\ scalar_multiply[Order - k][2] % 2 = 1 - (scalar_multiply[k][2] % 2)
           /\ scalar_multiply[k][2] % 2 \in {0, 1}
  <1> DEFINE y == scalar_multiply[k][2]
             z == scalar_multiply[Order - k][2]
  <1>1. y \in 1..(Prime - 1) /\ z = Prime - y /\ Prime \in Nat /\ Prime % 2 = 1
    BY PointIs, EcdsaAssumption, CurveAssumption
  <1> HIDE DEF y, z
  <1>2. z % 2 = 1 - (y % 2) /\ y % 2 \in {0, 1}
    BY <1>1
  <1> QED BY <1>2 DEF y, z

LEMMA FlippedByte ==
    ASSUME NEW k \in Scalar
    PROVE  RecoveryByte(scalar_multiply[Order - k]) = FlipParity(RecoveryByte(scalar_multiply[k]))
  <1> DEFINE y == scalar_multiply[k][2] % 2
             z == scalar_multiply[Order - k][2] % 2
             h == IF scalar_multiply[k][1] < Order THEN 0 ELSE 2
  <1>1. z = 1 - y /\ y \in {0, 1} /\ h \in {0, 2}
    BY OtherParity
  <1>2. /\ RecoveryByte(scalar_multiply[k]) = y + h
        /\ RecoveryByte(scalar_multiply[Order - k]) = z + h
    BY PointIs DEF RecoveryByte
  <1> HIDE DEF y, z, h
  <1>3. FlipParity(y + h) = z + h
    <2>1. y \in {0, 1} /\ h \in {0, 2} /\ z = 1 - y
      BY <1>1
    <2> QED BY <2>1 DEF FlipParity
  <1> QED BY <1>2, <1>3

(* Negating s is signing with the negative nonce. *)
LEMMA LowSIs ==
    ASSUME NEW k \in Scalar, NEW d \in Scalar, NEW z \in Nat, NEW r \in Scalar, NEW s \in Scalar,
           r = scalar_multiply[k][1] % Order, Same(s * k, r * d + z), NEW sg,
           sg = LowS(r, s, RecoveryByte(scalar_multiply[k]))
    PROVE  \E j \in Scalar : IsSignature(d, z, sg, j)
  <1>1. /\ order_half \in Nat /\ Order <= 2 * order_half + 1 /\ Order \in Nat
        /\ s \in Int /\ k \in Int /\ r * d + z \in Int
    BY EcdsaAssumption DEF order_half, Scalar
  <1>2. CASE ~ (order_half < s)
    <2>1. sg.r = r /\ sg.s = s /\ sg.by = RecoveryByte(scalar_multiply[k])
      BY <1>2 DEF LowS
    <2>2. s \in 1..order_half
      BY <1>1, <1>2 DEF Scalar
    <2> QED BY <2>1, <2>2 DEF IsSignature
  <1>3. CASE order_half < s
    <2>1. /\ sg.r = r /\ sg.s = Order - s
          /\ sg.by = FlipParity(RecoveryByte(scalar_multiply[k]))
      BY <1>3 DEF LowS
    <2>2. Order - s \in 1..order_half
      BY <1>1, <1>3 DEF Scalar
    <2>3. Order - k \in Scalar /\ scalar_multiply[Order - k][1] = scalar_multiply[k][1]
      BY PointIs
    <2>4. Same((Order - s) * (Order - k), r * d + z)
      <3>1. /\ (Order - s) * (Order - k) = s * k + ((Order - s) - k) * Order
            /\ (Order - s) * (Order - k) \in Int /\ s * k \in Int /\ (Order - s) - k \in Int
        BY <1>1
      <3>2. Same((Order - s) * (Order - k), s * k)
        BY <3>1, SameByMultiple
      <3> QED BY <3>2, Transitive
    <2>5. RecoveryByte(scalar_multiply[Order - k]) = sg.by
      BY <2>1, FlippedByte
    <2>6. IsSignature(d, z, sg, Order - k)
      BY <2>1, <2>2, <2>3, <2>4, <2>5 DEF IsSignature
    <2> QED BY <2>3, <2>6
  <1> QED BY <1>2, <1>3

(* A point's logarithm is the one scalar it is a multiple for.             *)
LEMMA LogIs ==
    ASSUME NEW d \in Scalar
    PROVE  Log(scalar_multiply[d]) = d
  <1> DEFINE P == scalar_multiply[d]
             y == P[2]
  <1>1. d \in 0..(Order - 1)
    BY EcdsaAssumption DEF Scalar
  <1>2. y \in 1..(Prime - 1) /\ Prime \in Nat /\ Prime % 2 = 1
    BY PointIs, EcdsaAssumption, CurveAssumption
  <1>3. \A j \in 0..(Order - 1) : scalar_multiply[j] = P => j = d
    <2> SUFFICES ASSUME NEW j \in 0..(Order - 1), scalar_multiply[j] = P
                 PROVE  j = d
      OBVIOUS
    <2>1. j # 0
      <3>1. scalar_multiply[0][2] = 0
        BY CurveAssumption DEF Infinity
      <3> QED BY <1>2, <3>1
    <2>2. j \in Scalar
      BY <2>1 DEF Scalar
    <2>3. scalar_multiply[j][1] = scalar_multiply[d][1]
      OBVIOUS
    <2>4. j \in {d, Order - d}
      BY <2>2, <2>3, CurveAssumption DEF Scalar
    <2>5. j # Order - d
      <3> SUFFICES ASSUME j = Order - d
                   PROVE  FALSE
        OBVIOUS
      <3>1. y = Prime - y
        BY PointIs
      <3> HIDE DEF y
      <3> QED BY <1>2, <3>1
    <2> QED BY <2>4, <2>5
  <1> HIDE DEF P
  <1>4. Log(P) = d
    BY <1>1, <1>3 DEF Log, P
  <1> QED BY <1>4 DEF P

LEMMA SameScalar ==
    ASSUME NEW a \in 0..(Order - 1), NEW b \in 0..(Order - 1), Same(a, b)
    PROVE  a = b
  BY SmallReduced DEF Same

LEMMA ScalarSmall ==
    ASSUME NEW a \in Scalar
    PROVE  a \in 0..(Order - 1) /\ a \in Int
  BY EcdsaAssumption DEF Scalar

LEMMA SignatureVerifies ==
    ASSUME NEW d \in Scalar, NEW z \in Nat, NEW k \in Scalar, NEW sg, IsSignature(d, z, sg, k)
    PROVE  Verifies(scalar_multiply[d], z, sg)
  <1> DEFINE r == sg.r
             s == sg.s
             w == bn_inverse(s, Order)
             t == r * d + z
             u == (w * (z + r * d)) % Order
  <1>1. r \in Scalar /\ s \in Scalar /\ Same(s * k, t) /\ r = scalar_multiply[k][1] % Order
    <2>1. order_half <= Order - 1 /\ order_half \in Nat
      BY EcdsaAssumption DEF order_half
    <2> QED BY <2>1, EcdsaAssumption DEF IsSignature, Scalar
  <1>2. w \in Int /\ Same(s * w, 1)
    BY <1>1, InverseIs
  <1>3. r \in Int /\ s \in Int /\ d \in Int /\ k \in Int /\ z \in Int
    BY <1>1, ScalarSmall
  <1> HIDE DEF w, r, s
  <1>4. t \in Int /\ w * (z + r * d) = w * t /\ w * t \in Int /\ s * k \in Int /\ s * w \in Int
    BY <1>2, <1>3
  <1>5. u \in 0..(Order - 1) /\ Same(u, w * t)
    BY <1>4, Remainder, SameReduced
  <1> HIDE DEF t, u
  <1>6. Same(w * t, w * (s * k))
    <2>1. Same(w, w) /\ Same(t, s * k)
      BY <1>1 DEF Same
    <2> QED BY <1>2, <1>4, <2>1, SameProduct
  <1>7. w * (s * k) = (s * w) * k /\ 1 * k = k
    BY <1>2, <1>3
  <1>8. Same((s * w) * k, 1 * k)
    <2>1. Same(k, k)
      BY DEF Same
    <2> QED BY <1>2, <1>3, <1>4, <2>1, One, SameProduct
  <1>9. Same(u, k)
    BY <1>5, <1>6, <1>7, <1>8, Transitive
  <1>10. u = k
    BY <1>5, <1>9, SameScalar, ScalarSmall
  <1>11. scalar_multiply[k] # Infinity
    <2>1. scalar_multiply[k][2] \in 1..(Prime - 1)
      BY PointIs
    <2> QED BY <2>1 DEF Infinity
  <1>12. Log(scalar_multiply[d]) = d
    BY LogIs
  <1> QED BY <1>1, <1>10, <1>11, <1>12 DEF Verifies, u, w, r, s

(* The nonce's point has r, or r and the order, as its x, and a y of the   *)
(* parity the recovery byte tells; no other point has.                     *)
LEMMA NonceFound ==
    ASSUME NEW d, NEW z, NEW k \in Scalar, NEW sg, IsSignature(d, z, sg, k), NEW x,
           x = sg.r + (IF sg.by \div 2 = 1 THEN Order ELSE 0)
    PROVE  (CHOOSE j \in 1..(Order - 1) :
                scalar_multiply[j][1] = x /\ scalar_multiply[j][2] % 2 = sg.by % 2) = k
  <1> DEFINE X == scalar_multiply[k][1]
             y == scalar_multiply[k][2] % 2
             h == IF X < Order THEN 0 ELSE 2
             by == sg.by
             r == sg.r
  <1>1. /\ X \in Nat /\ X < 2 * Order /\ Order \in Nat \ {0} /\ Order \in Int
    <2>1. X \in 0..(Prime - 1)
      BY PointIs
    <2>2. Prime \in Nat /\ Prime < 2 * Order /\ Order \in Nat \ {0}
      BY EcdsaAssumption, CurveAssumption
    <2> HIDE DEF X
    <2> QED BY <2>1, <2>2
  <1>2. y \in {0, 1} /\ by = y + h
    BY OtherParity DEF IsSignature, RecoveryByte
  <1>3. r = X % Order
    BY DEF IsSignature
  <1> HIDE DEF X, y, by, r
  <1>4. by % 2 = y /\ (by \div 2 = 1 <=> ~ (X < Order))
    <2>1. CASE X < Order
      BY <1>2, <2>1
    <2>2. CASE ~ (X < Order)
      BY <1>2, <2>2
    <2> QED BY <2>1, <2>2
  <1>5. x = X
    <2>1. CASE X < Order
      <3>1. X \in 0..(Order - 1)
        BY <1>1, <2>1
      <3>2. r = X
        BY <1>3, <3>1, SmallReduced
      <3> QED BY <1>1, <1>4, <2>1, <3>2 DEF by, r
    <2>2. CASE ~ (X < Order)
      <3>1. X - Order \in 0..(Order - 1) /\ X \in Int /\ X - Order \in Int
        BY <1>1, <2>2
      <3>2. X = (X - Order) + 1 * Order /\ 1 \in Int
        BY <1>1
      <3>3. Same(X, X - Order)
        BY <3>1, <3>2, SameByMultiple
      <3>4. r = X - Order
        BY <1>3, <3>1, <3>3, SmallReduced DEF Same
      <3> QED BY <1>1, <1>4, <2>2, <3>4 DEF by, r
    <2> QED BY <2>1, <2>2
  <1>6. scalar_multiply[k][1] = x /\ scalar_multiply[k][2] % 2 = sg.by % 2
    BY <1>4, <1>5 DEF X, y, by
  <1>7. ASSUME NEW j \in Scalar, scalar_multiply[j][1] = x, scalar_multiply[j][2] % 2 = sg.by % 2
        PROVE  j = k
    <2>1. j \in {k, Order - k}
      BY <1>6, <1>7, CurveAssumption DEF Scalar
    <2>2. CASE j = Order - k
      <3>1. scalar_multiply[j][2] % 2 = 1 - y /\ y \in {0, 1}
        BY <2>2, OtherParity DEF y
      <3>2. scalar_multiply[j][2] % 2 = y
        BY <1>4, <1>7 DEF by
      <3> HIDE DEF y
      <3>3. 1 - y # y
        BY <3>1
      <3> QED BY <3>1, <3>2, <3>3
    <2> QED BY <2>1, <2>2
  <1> QED BY <1>6, <1>7, Zenon DEF Scalar

LEMMA KeyRecovered ==
    ASSUME NEW d \in Scalar, NEW z \in Nat, NEW k \in Scalar, NEW sg, IsSignature(d, z, sg, k)
    PROVE  Recovered(z, sg) = scalar_multiply[d]
  <1> DEFINE r == sg.r
             s == sg.s
             w == bn_inverse(r, Order)
             e == s * k - z
             u == (w * e) % Order
  <1>1. r \in Scalar /\ s \in Int /\ Same(s * k, r * d + z)
    BY EcdsaAssumption DEF IsSignature, order_half
  <1>2. Recovered(z, sg) = scalar_multiply[u]
    <2> DEFINE x == sg.r + (IF sg.by \div 2 = 1 THEN Order ELSE 0)
               c == CHOOSE j \in 1..(Order - 1) :
                        scalar_multiply[j][1] = x /\ scalar_multiply[j][2] % 2 = sg.by % 2
    <2>1. c = k
      <3> HIDE DEF x
      <3> QED BY NonceFound DEF x
    <2>2. Recovered(z, sg)
            = scalar_multiply[(bn_inverse(sg.r, Order) * (sg.s * c - z)) % Order]
      BY Zenon DEF Recovered
    <2> HIDE DEF c
    <2> QED BY <2>1, <2>2
  <1>3. w \in Int /\ Same(r * w, 1)
    BY <1>1, InverseIs
  <1>4. r \in Int /\ d \in Int /\ k \in Int /\ z \in Int
    BY <1>1, ScalarSmall
  <1> HIDE DEF w, r, s
  <1>5. Same(e, r * d)
    <2>1. s * k \in Int /\ r * d + z \in Int /\ -z \in Int /\ Same(-z, -z)
      BY <1>1, <1>4 DEF Same
    <2>2. Same((s * k) + (-z), (r * d + z) + (-z))
      BY <1>1, <2>1, SameSum
    <2>3. (s * k) + (-z) = e /\ (r * d + z) + (-z) = r * d
      BY <1>1, <1>4
    <2> QED BY <2>2, <2>3
  <1>6. e \in Int /\ w * e \in Int /\ r * d \in Int /\ r * w \in Int
    BY <1>1, <1>3, <1>4
  <1>7. u \in 0..(Order - 1) /\ Same(u, w * e)
    BY <1>6, Remainder, SameReduced
  <1> HIDE DEF e, u
  <1>8. Same(w * e, w * (r * d))
    <2>1. Same(w, w)
      BY DEF Same
    <2> QED BY <1>3, <1>5, <1>6, <2>1, SameProduct
  <1>9. w * (r * d) = (r * w) * d /\ 1 * d = d
    BY <1>3, <1>4
  <1>10. Same((r * w) * d, 1 * d)
    <2>1. Same(d, d)
      BY DEF Same
    <2> QED BY <1>3, <1>4, <1>6, <2>1, One, SameProduct
  <1>11. Same(u, d)
    BY <1>7, <1>8, <1>9, <1>10, Transitive
  <1>12. u = d
    BY <1>7, <1>11, SameScalar, ScalarSmall
  <1> QED BY <1>2, <1>12

-----------------------------------------------------------------------------
Answered ==
    signing = "signed" => \E k \in Scalar : IsSignature(priv_key, digest, sig, k)

(* The state of the signer: in the loop there is a try left, and what it   *)
(* has answered is a signature.                                            *)
SignerInv ==
    /\ signing \in {"idle", "try", "signed", "failed"}
    /\ priv_key \in Scalar /\ digest \in Nat /\ tries \in 0..MaxTries
    /\ signing = "try" => tries < MaxTries
    /\ Answered

LEMMA SignerInit == EcdsaInit => SignerInv
  BY EcdsaAssumption DEF EcdsaInit, SignerInv, Answered, Scalar

LEMMA SignKeeps ==
    ASSUME NEW priv \in Scalar, NEW hash \in Nat, Sign(priv, hash)
    PROVE  SignerInv'
  BY EcdsaAssumption DEF Sign, SignerInv, Answered

LEMMA RetryKeeps ==
    ASSUME SignerInv, signing = "try", Retry
    PROVE  SignerInv'
  BY EcdsaAssumption DEF Retry, SignerInv, Answered

LEMMA SignedKeeps ==
    ASSUME SignerInv, NEW k \in Scalar, NEW rand \in Blinds, NEW r,
           r = scalar_multiply[k][1] % Order, NEW s, s = ScalarS(k, rand, r), r # 0, s # 0,
           Signed(r, s, RecoveryByte(scalar_multiply[k]))
    PROVE  SignerInv'
  <1>1. priv_key \in Scalar /\ digest \in Nat /\ rand \in Scalar
    BY EcdsaAssumption DEF SignerInv, Scalar
  <1>2. r \in Scalar /\ r \in Nat
    <2>1. scalar_multiply[k][1] \in Int
      BY PointIs, EcdsaAssumption
    <2>2. r \in 0..(Order - 1)
      BY <2>1, Remainder
    <2> QED BY <2>2 DEF Scalar
  <1>3. s \in 0..(Order - 1) /\ Same(s * k, r * priv_key + digest)
    BY <1>1, <1>2, ScalarSIs
  <1>4. s \in Scalar
    BY <1>3 DEF Scalar
  <1>5. sig' = LowS(r, s, RecoveryByte(scalar_multiply[k]))
    BY DEF Signed
  <1>6. \E j \in Scalar : IsSignature(priv_key, digest, sig', j)
    BY <1>1, <1>2, <1>3, <1>4, <1>5, LowSIs
  <1>7. /\ signing' = "signed" /\ priv_key' = priv_key /\ digest' = digest
        /\ tries' = tries
    BY DEF Signed
  <1>8. Answered'
    BY <1>6, <1>7 DEF Answered, IsSignature
  <1> QED BY <1>7, <1>8 DEF SignerInv

LEMMA SignerNext == SignerInv /\ [EcdsaNext]_ecdsaVars => SignerInv'
  <1> SUFFICES ASSUME SignerInv, [EcdsaNext]_ecdsaVars
               PROVE  SignerInv'
    OBVIOUS
  <1>1. CASE EcdsaStep
    <2>1. PICK k \in 0..WordMax, rand \in Blinds :
              IF k = 0 \/ ~ (k < Order) THEN Retry
              ELSE LET R == scalar_multiply[k]
                       r == R[1] % Order
                       s == ScalarS(k, rand, r)
                   IN  IF r = 0 \/ s = 0 THEN Retry ELSE Signed(r, s, RecoveryByte(R))
      BY <1>1 DEF EcdsaStep
    <2>2. signing = "try"
      BY <1>1 DEF EcdsaStep
    <2> DEFINE r == scalar_multiply[k][1] % Order
               s == ScalarS(k, rand, r)
    <2>3. CASE k = 0 \/ ~ (k < Order)
      BY <2>1, <2>2, <2>3, RetryKeeps
    <2>4. CASE ~ (k = 0 \/ ~ (k < Order)) /\ (r = 0 \/ s = 0)
      BY <2>1, <2>2, <2>4, RetryKeeps
    <2>5. CASE ~ (k = 0 \/ ~ (k < Order)) /\ ~ (r = 0 \/ s = 0)
      <3>1. k \in Scalar
        BY <2>5, EcdsaAssumption DEF Scalar
      <3>2. Signed(r, s, RecoveryByte(scalar_multiply[k]))
        BY <2>1, <2>5
      <3>3. r # 0 /\ s # 0
        BY <2>5
      <3> HIDE DEF r, s
      <3> QED BY <3>1, <3>2, <3>3, SignedKeeps DEF r, s
    <2> QED BY <2>3, <2>4, <2>5
  <1>2. CASE signing # "try" /\ \E priv \in Scalar, hash \in Nat : Sign(priv, hash)
    BY <1>2, SignKeeps
  <1>3. CASE UNCHANGED ecdsaVars
    BY <1>3 DEF ecdsaVars, SignerInv, Answered, IsSignature
  <1> QED BY <1>1, <1>2, <1>3 DEF EcdsaNext

(* The signer answers only with signatures by the nonce of one of its      *)
(* tries, with the smaller s, and never tries more often than it may       *)
(* (ecdsa.c:661-758).                                                      *)
THEOREM EcdsaInv == EcdsaSpec => []SignerInv
  BY SignerInit, SignerNext, PTL DEF EcdsaSpec

(* Whatever is signed verifies with the public key of the key it was       *)
(* signed with.                                                            *)
SignedVerifies ==
    signing = "signed" => Verifies(scalar_multiply[priv_key], digest, sig)

THEOREM EcdsaVerifies == EcdsaSpec => []SignedVerifies
  <1>1. SignerInv => SignedVerifies
    BY SignatureVerifies DEF SignerInv, Answered, SignedVerifies
  <1> QED BY <1>1, EcdsaInv, PTL

(* From r, s and the recovery byte that public key is recovered, whether s *)
(* was negated or not and whatever point the nonce led to.                 *)
SignedRecovers ==
    signing = "signed" => Recovered(digest, sig) = scalar_multiply[priv_key]

THEOREM EcdsaRecovers == EcdsaSpec => []SignedRecovers
  <1>1. SignerInv => SignedRecovers
    BY KeyRecovered DEF SignerInv, Answered, SignedRecovers
  <1> QED BY <1>1, EcdsaInv, PTL

-----------------------------------------------------------------------------
(* Digits128 is the function its recursion describes.                      *)
DigitsOf(f, v) == IF v < 128 THEN <<v>> ELSE <<v % 128>> \o f[v \div 128]

SevenBits == 0..127

(* The digits of a number, by whether there is more than one. *)
LEMMA DigitsCases ==
    ASSUME NEW f, NEW v \in Nat
    PROVE  /\ v < 128 => DigitsOf(f, v) = <<v>>
           /\ v >= 128 => DigitsOf(f, v) = <<v % 128>> \o f[v \div 128]
  <1>1. v < 128 => DigitsOf(f, v) = <<v>>
    BY Zenon DEF DigitsOf
  <1>2. ~ (v < 128) => DigitsOf(f, v) = <<v % 128>> \o f[v \div 128]
    BY Zenon DEF DigitsOf
  <1>3. v >= 128 => ~ (v < 128)
    OBVIOUS
  <1> QED BY <1>1, <1>2, <1>3, Zenon

(* The digits of a number behind its lowest one.                           *)
LEMMA HigherDigits ==
    ASSUME NEW v \in Nat, v >= 128
    PROVE  v \div 128 \in Nat /\ v \div 128 < v /\ v % 128 \in SevenBits
           /\ v = 128 * (v \div 128) + (v % 128)
  BY DEF SevenBits

(* A digit alone. *)
LEMMA OneDigit == \A d \in SevenBits : <<d>> \in Seq(SevenBits) /\ Len(<<d>>) = 1 /\ <<d>>[1] = d
  OBVIOUS

(* A number has one digit or more, each of seven bits. *)
LEMMA DigitsTyped ==
    ASSUME NEW f, NEW v \in Nat, v >= 128 => f[v \div 128] \in Seq(SevenBits)
    PROVE  DigitsOf(f, v) \in Seq(SevenBits)
  <1>1. CASE v < 128
    <2>1. v \in SevenBits
      BY <1>1 DEF SevenBits
    <2>2. <<v>> \in Seq(SevenBits)
      BY <2>1, OneDigit
    <2> QED BY <1>1, <2>2, DigitsCases, Zenon
  <1>2. CASE v >= 128
    <2> DEFINE d == v % 128
               more == f[v \div 128]
    <2>1. <<d>> \in Seq(SevenBits) /\ more \in Seq(SevenBits)
      BY <1>2, HigherDigits, OneDigit
    <2>2. DigitsOf(f, v) = <<d>> \o more
      BY <1>2, DigitsCases
    <2> HIDE DEF d, more
    <2> QED BY <2>1, <2>2, Concat
  <1> QED BY <1>1, <1>2

(* Digits128 is what its recursion says (pb_pack_varint, pb_pack.c). *)
LEMMA DigitsAre ==
    Digits128 \in [Nat -> Seq(SevenBits)] /\ \A v \in Nat : Digits128[v] = DigitsOf(Digits128, v)
  <1> DEFINE S == Seq(SevenBits)
             mu == [n \in Nat |-> n]
             step == [f \in [Nat -> S] |-> [v \in Nat |-> DigitsOf(f, v)]]
  <1>1. step \in [[Nat -> S] -> [Nat -> S]]
    <2>1. ASSUME NEW f \in [Nat -> S], NEW v \in Nat
          PROVE  DigitsOf(f, v) \in S
      <3>1. v >= 128 => f[v \div 128] \in Seq(SevenBits)
        BY HigherDigits
      <3> QED BY <3>1, DigitsTyped
    <2> HIDE DEF S
    <2> QED BY <2>1
  <1>2. ASSUME NEW f \in [Nat -> S], NEW g \in [Nat -> S], NEW v \in Nat, Below(Nat, mu, f, g, v)
        PROVE  step[f][v] = step[g][v]
    <2>1. v >= 128 => f[v \div 128] = g[v \div 128]
      BY <1>2, HigherDigits DEF Below
    <2>2. DigitsOf(f, v) = DigitsOf(g, v)
      <3>1. CASE v < 128
        BY <3>1, DigitsCases, Zenon
      <3>2. CASE v >= 128
        BY <2>1, <3>2, DigitsCases, ZenonT(30)
      <3> QED BY <3>1, <3>2
    <2> QED BY <2>2
  <1>3. Contracting(Nat, S, mu, step)
    <2> HIDE DEF step, mu, S
    <2> QED BY <1>1, <1>2 DEF Contracting
  <1>4. mu \in [Nat -> Nat] /\ S # {}
    <2>1. <<>> \in S
      OBVIOUS
    <2> QED BY <2>1
  <1>5. HasFixedPoint(Nat, S, step)
    <2> HIDE DEF step, mu, S
    <2> QED BY <1>3, <1>4, FixedPoint
  <1>6. PICK f \in [Nat -> S] : step[f] = f
    BY <1>5 DEF HasFixedPoint
  <1>7. f = [v \in Nat |-> DigitsOf(f, v)]
    BY <1>6
  <1>8. Digits128 = CHOOSE g : g = [v \in Nat |-> DigitsOf(g, v)]
    BY DEF Digits128, DigitsOf
  <1>9. Digits128 = [v \in Nat |-> DigitsOf(Digits128, v)]
    BY <1>7, <1>8, Zenon
  <1>10. \A v \in Nat : Digits128[v] = DigitsOf(Digits128, v)
    BY <1>9
  <1> DEFINE T == { n \in Nat : \A m \in Nat : m <= n => Digits128[m] \in S }
  <1>11. ASSUME NEW v \in Nat, \A m \in Nat : m < v => Digits128[m] \in S
         PROVE  Digits128[v] \in S
    <2>1. v >= 128 => Digits128[v \div 128] \in Seq(SevenBits)
      BY <1>11, HigherDigits
    <2>2. DigitsOf(Digits128, v) \in Seq(SevenBits)
      BY <2>1, DigitsTyped
    <2> QED BY <1>10, <2>2
  <1>12. 0 \in T
    BY <1>11
  <1>13. ASSUME NEW n \in Nat, n \in T
         PROVE  n + 1 \in T
    <2>1. \A m \in Nat : m < n + 1 => Digits128[m] \in S
      BY <1>13
    <2>2. Digits128[n + 1] \in S
      <3> HIDE DEF S
      <3> QED BY <1>11, <2>1
    <2>3. \A m \in Nat : m <= n + 1 => Digits128[m] \in S
      BY <2>1, <2>2
    <2> QED BY <2>3
  <1>14. \A n \in Nat : n \in T
    <2> HIDE DEF T
    <2> QED BY <1>12, <1>13, UpFromZero
  <1>15. \A v \in Nat : Digits128[v] \in S
    <2> HIDE DEF S
    <2> QED BY <1>14
  <1> HIDE DEF S
  <1> QED BY <1>9, <1>10, <1>15 DEF S

(* The digits of a number, those of its quotient behind its lowest one.    *)
LEMMA Digits ==
    ASSUME NEW v \in Nat
    PROVE  /\ Digits128[v] \in Seq(SevenBits) /\ Len(Digits128[v]) \in Nat \ {0}
           /\ v < 128 => Digits128[v] = <<v>> /\ Len(Digits128[v]) = 1
           /\ v >= 128 => /\ Len(Digits128[v]) = 1 + Len(Digits128[v \div 128])
                          /\ Digits128[v][1] = v % 128
                          /\ \A i \in 1..Len(Digits128[v \div 128]) :
                                 Digits128[v][1 + i] = Digits128[v \div 128][i]
  <1>1. CASE v < 128
    <2>1. Digits128[v] = <<v>>
      BY <1>1, DigitsAre, DigitsCases, Zenon
    <2>2. v \in SevenBits
      BY <1>1 DEF SevenBits
    <2> QED BY <1>1, <2>1, <2>2, OneDigit
  <1>2. CASE v >= 128
    <2> DEFINE d == v % 128
               more == Digits128[v \div 128]
    <2>1. <<d>> \in Seq(SevenBits) /\ more \in Seq(SevenBits) /\ Len(<<d>>) = 1 /\ <<d>>[1] = d
      BY <1>2, HigherDigits, OneDigit, DigitsAre
    <2>2. Digits128[v] = <<d>> \o more
      BY <1>2, DigitsAre, DigitsCases
    <2>3. ~ (v < 128) /\ 1 \in 1..1
      BY <1>2
    <2> HIDE DEF d, more
    <2>4. Joins(<<d>> \o more, SevenBits, <<d>>, 1, more, Len(more))
      BY <2>1, Joined, LenProperties
    <2>5. /\ Digits128[v] \in Seq(SevenBits) /\ Len(Digits128[v]) = 1 + Len(more)
          /\ Digits128[v][1] = d
          /\ \A i \in 1..Len(more) : Digits128[v][1 + i] = more[i]
      BY <2>1, <2>2, <2>3, <2>4 DEF Joins
    <2>6. Len(more) \in Nat
      BY <2>1, LenProperties
    <2> QED BY <2>3, <2>5, <2>6 DEF d, more
  <1> QED BY <1>1, <1>2

-----------------------------------------------------------------------------
(* A varint: the digits of a number, all but the last one marked.          *)
Marked(d) == [i \in 1..Len(d) |-> IF i < Len(d) THEN d[i] + PB_VARINT_MORE ELSE d[i]]

VarintBytes(v) == Marked(Digits128[v])

(* Marking keeps the number of digits and makes bytes of them. *)
LEMMA MarkedIs ==
    ASSUME NEW d \in Seq(SevenBits)
    PROVE  Marked(d) \in Seq(Byte) /\ Len(Marked(d)) = Len(d)
  <1>1. Len(d) \in Nat /\ \A i \in 1..Len(d) : d[i] \in 0..127
    BY LenProperties, ElementOfSeq DEF SevenBits
  <1> DEFINE byte(i) == IF i < Len(d) THEN d[i] + PB_VARINT_MORE ELSE d[i]
  <1>2. ASSUME NEW i \in 1..Len(d)
        PROVE  byte(i) \in Byte
    <2>1. d[i] \in Byte /\ d[i] + PB_VARINT_MORE \in Byte
      <3>1. d[i] \in 0..127
        BY <1>1
      <3>2. \A x \in 0..127 : x \in 0..255 /\ x + 128 \in 0..255
        OBVIOUS
      <3> QED BY <3>1, <3>2 DEF PB_VARINT_MORE, Byte
    <2>2. CASE i < Len(d)
      BY <2>1, <2>2, Zenon
    <2>3. CASE ~ (i < Len(d))
      BY <2>1, <2>3, Zenon
    <2> QED BY <2>2, <2>3
  <1>3. Marked(d) = [i \in 1..Len(d) |-> byte(i)]
    BY DEF Marked
  <1> HIDE DEF byte
  <1>4. Marked(d) \in [1..Len(d) -> Byte]
    BY <1>2, <1>3
  <1> HIDE DEF Marked
  <1> QED BY <1>1, <1>4

(* A varint has a byte for each digit of its number. *)
LEMMA VarintIs ==
    ASSUME NEW v \in Nat
    PROVE  /\ VarintBytes(v) \in Seq(Byte)
           /\ Len(VarintBytes(v)) = Len(Digits128[v])
           /\ Len(Digits128[v]) \in Nat \ {0}
  BY Digits, MarkedIs DEF VarintBytes

(* What there is room for of a varint.                                     *)
CutTo(n, size) == IF size <= 0 THEN 0 ELSE IF n < size THEN n ELSE size

(* pb_pack_varint writes as many bytes of the varint as there is room for. *)
LEMMA PackedVarint ==
    ASSUME NEW v \in Nat, v # 0, NEW size \in Int
    PROVE  /\ pb_pack_varint(v, size) \in Seq(Byte)
           /\ Len(pb_pack_varint(v, size)) = CutTo(Len(VarintBytes(v)), size)
           /\ Len(VarintBytes(v)) <= size => pb_pack_varint(v, size) = VarintBytes(v)
  <1> DEFINE all == Digits128[v]
             cut == IF v = 0 \/ size <= 0 THEN <<>>
                    ELSE SubSeq(all, 1, IF Len(all) < size THEN Len(all) ELSE size)
  <1>1. all \in Seq(SevenBits) /\ Len(all) \in Nat \ {0}
    BY Digits
  <1>2. pb_pack_varint(v, size) = Marked(cut)
    BY Zenon DEF pb_pack_varint, Marked
  <1>3. cut \in Seq(SevenBits) /\ Len(cut) = CutTo(Len(all), size)
    <2> HIDE DEF all
    <2>1. CASE size <= 0
      BY <2>1 DEF CutTo
    <2>2. CASE ~ (size <= 0)
      <3> DEFINE n == IF Len(all) < size THEN Len(all) ELSE size
      <3>1. n \in Nat /\ n = CutTo(Len(all), size) /\ 0 + n <= Len(all)
        BY <1>1, <2>2 DEF CutTo
      <3>2. cut = SubSeq(all, 1, n)
        BY <2>2
      <3> HIDE DEF n, cut
      <3>3. 1 = 0 + 1 /\ n = 0 + n
        BY <3>1
      <3>4. Slices(SubSeq(all, 1, n), SevenBits, all, 0, n)
        BY <1>1, <3>1, <3>3, Sliced
      <3> QED BY <3>1, <3>2, <3>4 DEF Slices
    <2> QED BY <2>1, <2>2
  <1>4. Len(all) <= size => cut = all
    <2> HIDE DEF all
    <2> SUFFICES ASSUME Len(all) <= size
                 PROVE  cut = all
      OBVIOUS
    <2>1. ~ (v = 0 \/ size <= 0) /\ (IF Len(all) < size THEN Len(all) ELSE size) = Len(all)
      BY <1>1
    <2>2. cut = SubSeq(all, 1, Len(all))
      BY <2>1
    <2> QED BY <1>1, <2>2, SubSeqFull
  <1>5. Len(VarintBytes(v)) = Len(all)
    BY VarintIs
  <1> HIDE DEF cut
  <1>6. Marked(cut) \in Seq(Byte) /\ Len(Marked(cut)) = Len(cut)
    BY <1>3, MarkedIs
  <1>7. Len(all) <= size => Marked(cut) = VarintBytes(v)
    BY <1>4, Zenon DEF VarintBytes
  <1> QED BY <1>2, <1>3, <1>5, <1>6, <1>7

(* pb_encode_varint writes the byte of a small number whatever the room. *)
LEMMA EncodedVarint ==
    ASSUME NEW v \in Nat, NEW size \in Int
    PROVE  /\ pb_encode_varint(v, size) \in Seq(Byte)
           /\ Len(VarintBytes(v)) <= size \/ v < 128 => pb_encode_varint(v, size) = VarintBytes(v)
           /\ v >= 128 => Len(pb_encode_varint(v, size)) = CutTo(Len(VarintBytes(v)), size)
  <1>1. CASE v < 128
    <2>1. v <= PB_VARINT_MASK
      BY <1>1 DEF PB_VARINT_MASK
    <2>2. pb_encode_varint(v, size) = <<v>>
      BY <2>1, Zenon DEF pb_encode_varint
    <2>3. Digits128[v] = <<v>>
      BY <1>1, Digits
    <2>4. Marked(<<v>>) = <<v>>
      BY DEF Marked
    <2>5. VarintBytes(v) = <<v>>
      BY <2>3, <2>4, Zenon DEF VarintBytes
    <2>6. ~ (v >= 128)
      BY <1>1
    <2> QED BY <1>1, <2>2, <2>5, <2>6, VarintIs
  <1>2. CASE v >= 128
    <2>1. ~ (v <= PB_VARINT_MASK) /\ v # 0 /\ ~ (v < 128)
      BY <1>2 DEF PB_VARINT_MASK
    <2>2. pb_encode_varint(v, size) = pb_pack_varint(v, size)
      BY <2>1, Zenon DEF pb_encode_varint
    <2> QED BY <2>1, <2>2, PackedVarint
  <1> QED BY <1>1, <1>2

-----------------------------------------------------------------------------
(* Packing that went well, and packing into limited room: a message is     *)
(* empty, leaves a byte of the buffer free, or is refused.                 *)
Ok(b) == [ret |-> Len(b), bytes |-> b]

Limited(b, size) == IF b = <<>> \/ Len(b) < size THEN Ok(b) ELSE Failed(PB_ERR_ENCBUF)

(* Negative rooms are huge ones.                                           *)
Negative == { size \in Int : size < 0 }

(* An item puts the bytes e into whatever buffer there is.                 *)
Puts(item, e) ==
    /\ e \in Seq(Byte)
    /\ \A size \in Nat, b \in Seq(Byte) : PackItem(Limited(b, size), item, size) = Limited(b \o e, size)
    /\ \A size \in Negative, b \in Seq(Byte) : \E c \in Seq(Byte) : PackItem(Ok(b), item, size) = Ok(c)

(* Packing that has failed stays failed. *)
LEMMA FailedStays ==
    ASSUME NEW item, NEW size
    PROVE  PackItem(Failed(PB_ERR_ENCBUF), item, size) = Failed(PB_ERR_ENCBUF)
  <1>1. Failed(PB_ERR_ENCBUF).ret < 0
    BY DEF Failed, PB_ERR_ENCBUF
  <1> QED BY <1>1, Zenon DEF PackItem

(* Nothing is gained by packing more.                                      *)
LEMMA LimitedStays ==
    ASSUME NEW b \in Seq(Byte), NEW e \in Seq(Byte), NEW size \in Nat,
           ~ (b = <<>> \/ Len(b) < size)
    PROVE  Limited(b, size) = Failed(PB_ERR_ENCBUF) /\ Limited(b \o e, size) = Failed(PB_ERR_ENCBUF)
  <1>1. Limited(b, size) = Failed(PB_ERR_ENCBUF)
    BY Zenon DEF Limited
  <1>2. b \o e \in Seq(Byte) /\ Len(b \o e) = Len(b) + Len(e) /\ Len(b) \in Nat /\ Len(e) \in Nat
    BY Concat
  <1>3. Len(b) # 0
    BY EmptySeq
  <1>4. Len(b \o e) # 0 /\ ~ (Len(b \o e) < size)
    BY <1>2, <1>3
  <1>5. b \o e # <<>>
    BY <1>4
  <1> QED BY <1>1, <1>4, <1>5, Zenon DEF Limited

(* Bytes are put behind those there, if one byte of the buffer stays free. *)
LEMMA ExtendedIs ==
    ASSUME NEW b \in Seq(Byte), NEW e \in Seq(Byte), e # <<>>, NEW size \in Int
    PROVE  /\ size >= 0 => Extended(Ok(b), e, size) = Limited(b \o e, size)
           /\ size < 0 => Extended(Ok(b), e, size) = Ok(b \o e)
  <1> DEFINE all == b \o e
  <1>1. all \in Seq(Byte) /\ Len(all) = Len(b) + Len(e) /\ Len(b) \in Nat /\ Len(e) \in Nat
    BY Concat
  <1>2. Len(e) # 0
    BY EmptySeq
  <1>3. Len(all) # 0 /\ Len(all) \in Nat
    BY <1>1, <1>2
  <1>4. all # <<>>
    BY <1>3
  <1>5. Ok(b).bytes \o e = all
    BY DEF Ok
  <1>6. Extended(Ok(b), e, size)
            = IF size >= 0 /\ Len(all) >= size THEN Failed(PB_ERR_ENCBUF) ELSE Ok(all)
    BY <1>5, Zenon DEF Extended, Ok
  <1> HIDE DEF all
  <1>7. CASE size >= 0
    <2>1. Len(all) >= size <=> ~ (Len(all) < size)
      BY <1>3
    <2>2. ~ (size < 0)
      BY <1>7
    <2> QED BY <1>4, <1>6, <1>7, <2>1, <2>2, Zenon DEF Limited, all
  <1>8. CASE size < 0
    <2>1. ~ (size >= 0)
      BY <1>8
    <2> QED BY <1>6, <1>8, <2>1, Zenon DEF all
  <1> QED BY <1>7, <1>8

(* Bytes that were cut for want of room are refused, as the whole is.      *)
LEMMA CutIsRefused ==
    ASSUME NEW b \in Seq(Byte), NEW e \in Seq(Byte), NEW c \in Seq(Byte), NEW size \in Nat,
           c # <<>>, Len(b) + Len(c) >= size, Len(b) + Len(e) >= size, e # <<>>
    PROVE  Extended(Ok(b), c, size) = Limited(b \o e, size)
  <1>1. /\ Len(b \o e) = Len(b) + Len(e) /\ Len(b \o c) = Len(b) + Len(c)
        /\ Len(b) \in Nat /\ Len(e) \in Nat /\ Len(c) \in Nat
    BY Concat
  <1>2. Len(e) # 0 /\ Len(c) # 0
    BY EmptySeq
  <1>3. ~ (Len(b \o e) < size) /\ ~ (Len(b \o c) < size) /\ Len(b \o e) # 0 /\ Len(b \o c) # 0
    BY <1>1, <1>2
  <1>4. b \o e # <<>> /\ b \o c # <<>>
    BY <1>3
  <1>5. Limited(b \o e, size) = Failed(PB_ERR_ENCBUF) /\ Limited(b \o c, size) = Failed(PB_ERR_ENCBUF)
    BY <1>3, <1>4, Zenon DEF Limited
  <1>6. Extended(Ok(b), c, size) = Limited(b \o c, size)
    BY ExtendedIs
  <1> QED BY <1>5, <1>6

-----------------------------------------------------------------------------
(* What becomes of one item.                                               *)
LEMMA Single == \A x \in Byte : <<x>> \in Seq(Byte) /\ Len(<<x>>) = 1 /\ <<x>>[1] = x
  OBVIOUS

(* The header of a field below 16 is the one byte of its key. *)
LEMMA HeaderIs ==
    ASSUME NEW field \in 1..15, NEW type \in {PB_WT_VARINT, PB_WT_LD, PB_WT_EMB}, NEW size
    PROVE  /\ pb_encode_header(size, type, field) = <<8 * field + PB_GET_WTYPE(type)>>
           /\ 8 * field + PB_GET_WTYPE(type) \in 1..126
           /\ PB_GET_WTYPE(type) \in {PB_WT_VARINT, PB_WT_LD}
           /\ type # PB_WT_EMB => PB_GET_WTYPE(type) = type
  <1>1. PB_GET_WTYPE(type) \in {0, 2} /\ (type # PB_WT_EMB => PB_GET_WTYPE(type) = type)
    BY DEF PB_GET_WTYPE, PB_WT_VARINT, PB_WT_LD, PB_WT_EMB
  <1> DEFINE w == PB_GET_WTYPE(type)
             key == field * 8 + w
  <1>2. key \in 1..126 /\ key = 8 * field + w /\ field # 0 /\ key < PB_VARINT_MASK
    <2> HIDE DEF w
    <2> QED BY <1>1 DEF PB_VARINT_MASK, w
  <1>3. pb_encode_header(size, type, field) = <<key>>
    BY <1>2, Zenon DEF pb_encode_header
  <1> QED BY <1>1, <1>2, <1>3 DEF PB_WT_VARINT, PB_WT_LD

(* What packing has given when it goes on.                                 *)
LEMMA OkIs ==
    ASSUME NEW b \in Seq(Byte)
    PROVE  Ok(b).ret = Len(b) /\ Ok(b).bytes = b /\ Len(b) \in Nat /\ ~ (Ok(b).ret < 0)
  <1>1. Ok(b).ret = Len(b) /\ Ok(b).bytes = b
    BY DEF Ok
  <1>2. Len(b) \in Nat
    BY LenProperties
  <1> QED BY <1>1, <1>2

(* A number or bytes: the value is encoded in what room is left. *)
LEMMA PlainStep ==
    ASSUME NEW b \in Seq(Byte), NEW item, item.type \in {PB_WT_VARINT, PB_WT_LD},
           item.field \in 1..15, ~ Skipped(item), NEW size \in Int,
           Encoded(item, size - Len(b) - 1) \in Seq(Byte)
    PROVE  PackItem(Ok(b), item, size)
               = Extended(Ok(b), <<8 * item.field + item.type>> \o Encoded(item, size - Len(b) - 1), size)
  <1> DEFINE key == 8 * item.field + item.type
             room == size - Len(b)
             header == pb_encode_header(room, item.type, item.field)
             coded == Encoded(item, room - 1)
  <1>1. header = <<key>> /\ PB_GET_WTYPE(item.type) = item.type /\ key \in Byte
    <2>1. item.type \in {PB_WT_VARINT, PB_WT_LD, PB_WT_EMB} /\ item.type # PB_WT_EMB
      BY DEF PB_WT_VARINT, PB_WT_LD, PB_WT_EMB
    <2>2. /\ header = <<8 * item.field + PB_GET_WTYPE(item.type)>>
          /\ 8 * item.field + PB_GET_WTYPE(item.type) \in 1..126
          /\ PB_GET_WTYPE(item.type) = item.type
      BY <2>1, HeaderIs, ZenonT(30)
    <2>3. key \in 1..126 /\ header = <<key>>
      BY <2>2
    <2> HIDE DEF key
    <2>4. key \in Byte
      BY <2>3 DEF Byte
    <2> QED BY <2>2, <2>3, <2>4
  <1>2. ~ (PB_GET_WTYPE(item.type) > PB_MAX_TYPE) /\ ~ IS_EMB_MSG(item.type)
    BY <1>1 DEF PB_WT_VARINT, PB_WT_LD, PB_MAX_TYPE, PB_WT_32, IS_EMB_MSG
  <1> HIDE DEF key
  <1>3. <<key>> \in Seq(Byte) /\ Len(<<key>>) = 1
    BY <1>1, Single
  <1>4. header # NULL /\ coded # NULL
    <2>1. <<key>> \in Seq(Nat)
      BY <1>1 DEF Byte
    <2>2. coded \in Seq(Nat)
      <3>1. Byte \subseteq Nat
        BY DEF Byte
      <3> QED BY <3>1, SeqMonotonic
    <2> QED BY <1>1, <2>1, <2>2, NullAssumption
  <1>5. size - Len(Ok(b).bytes) = room /\ ~ (Ok(b).ret < 0) /\ Ok(b).bytes = b
    BY OkIs
  <1>6. PackItem(Ok(b), item, size) = PackPlain(Ok(b), item, header, size)
    <2> HIDE DEF header, coded, room
    <2> QED BY <1>2, <1>4, <1>5, Zenon DEF PackItem, header
  <1>7. PackPlain(Ok(b), item, header, size) = Extended(Ok(b), header \o coded, size)
    <2>1. size - Len(Ok(b).bytes) - Len(header) = room - 1
      BY <1>1, <1>3, <1>5
    <2> HIDE DEF header, room
    <2> QED BY <1>4, <2>1, Zenon DEF PackPlain
  <1> QED BY <1>1, <1>6, <1>7 DEF key

(* A key and what is coded behind it are put, or refused, as the key and   *)
(* the whole bytes are.                                                    *)
AsTheWhole(b, key, whole, coded, size) ==
    /\ size >= 0 =>
           Extended(Ok(b), <<key>> \o coded, size) = Limited(b \o (<<key>> \o whole), size)
    /\ size < 0 => \E c \in Seq(Byte) : Extended(Ok(b), <<key>> \o coded, size) = Ok(c)
(* Bytes behind a key are the whole ones, or fill what room there is, and  *)
(* then the whole ones would too.                                          *)
LEMMA WholeOrCut ==
    ASSUME NEW b \in Seq(Byte), NEW key \in Byte, NEW whole \in Seq(Byte), NEW coded \in Seq(Byte),
           NEW size \in Int,
           coded = whole \/ (Len(coded) >= size - Len(b) - 1 /\ Len(whole) >= size - Len(b) - 1)
    PROVE  AsTheWhole(b, key, whole, coded, size)
  <1> SUFFICES /\ size >= 0 =>
                      Extended(Ok(b), <<key>> \o coded, size) = Limited(b \o (<<key>> \o whole), size)
               /\ size < 0 => \E c \in Seq(Byte) : Extended(Ok(b), <<key>> \o coded, size) = Ok(c)
    BY DEF AsTheWhole
  <1> DEFINE c == <<key>> \o coded
             e == <<key>> \o whole
  <1>1. /\ c \in Seq(Byte) /\ Len(c) = 1 + Len(coded) /\ Len(coded) \in Nat
        /\ e \in Seq(Byte) /\ Len(e) = 1 + Len(whole) /\ Len(whole) \in Nat
    BY Single, Concat
  <1>2. coded = whole => c = e
    OBVIOUS
  <1> HIDE DEF c, e
  <1>3. Len(b) \in Nat
    BY LenProperties
  <1>4. c # <<>> /\ e # <<>>
    BY <1>1
  <1>5. CASE size >= 0
    <2>1. size \in Nat
      BY <1>5
    <2>2. ASSUME coded = whole
          PROVE  Extended(Ok(b), c, size) = Limited(b \o e, size)
      <3>1. c = e
        BY <1>2, <2>2
      <3>2. Extended(Ok(b), e, size) = Limited(b \o e, size)
        BY <1>1, <1>4, <2>1, ExtendedIs
      <3> QED BY <3>1, <3>2, Zenon
    <2>3. ASSUME coded # whole
          PROVE  Extended(Ok(b), c, size) = Limited(b \o e, size)
      <3>1. Len(b) + Len(c) >= size /\ Len(b) + Len(e) >= size
        BY <1>1, <1>3, <2>3
      <3>2. Extended(Ok(b), c, size) = Limited(b \o e, size)
        <4>1. /\ b \in Seq(Byte) /\ e \in Seq(Byte) /\ c \in Seq(Byte) /\ size \in Nat
              /\ c # <<>> /\ e # <<>>
          BY <1>1, <1>4, <2>1
        <4> QED BY ONLY <3>1, <4>1, CutIsRefused, ZenonT(30)
      <3> QED BY <3>2
    <2>4. Extended(Ok(b), c, size) = Limited(b \o e, size) /\ ~ (size < 0)
      BY <1>5, <2>2, <2>3
    <2> QED BY <2>4 DEF c, e
  <1>6. CASE size < 0
    <2>1. Extended(Ok(b), c, size) = Ok(b \o c) /\ b \o c \in Seq(Byte)
      BY <1>1, <1>4, <1>6, ExtendedIs, Concat
    <2>2. ~ (size >= 0)
      BY <1>6
    <2> QED BY <2>1, <2>2 DEF c
  <1> QED BY <1>5, <1>6

Fits(b, size) == b = <<>> \/ Len(b) < size

(* A buffer that is full before an item is one behind it.                  *)
LEMMA PutsIf ==
    ASSUME NEW item, NEW e \in Seq(Byte),
           \A size \in Nat, b \in Seq(Byte) :
               Fits(b, size) => PackItem(Ok(b), item, size) = Limited(b \o e, size),
           \A size \in Negative, b \in Seq(Byte) : \E c \in Seq(Byte) : PackItem(Ok(b), item, size) = Ok(c)
    PROVE  Puts(item, e)
  <1>1. ASSUME NEW size \in Nat, NEW b \in Seq(Byte)
        PROVE  PackItem(Limited(b, size), item, size) = Limited(b \o e, size)
    <2>1. CASE Fits(b, size)
      <3>1. Limited(b, size) = Ok(b)
        BY <2>1, Zenon DEF Limited, Fits
      <3> QED BY <2>1, <3>1
    <2>2. CASE ~ Fits(b, size)
      <3>1. Limited(b, size) = Failed(PB_ERR_ENCBUF) /\ Limited(b \o e, size) = Failed(PB_ERR_ENCBUF)
        BY <2>2, LimitedStays DEF Fits
      <3> QED BY <3>1, FailedStays
    <2> QED BY <2>1, <2>2
  <1> QED BY <1>1 DEF Puts

(* e is all bytes or as many as there was room for. *)
WholeOrFull(e, whole, room) ==
    e \in Seq(Byte) /\ (e = whole \/ (Len(e) >= room /\ Len(whole) >= room))

(* An item whose value is envalue whole, or as far as there is room, is    *)
(* put.                                                                    *)
LEMMA PlainPuts ==
    ASSUME NEW item, item.type \in {PB_WT_VARINT, PB_WT_LD}, item.field \in 1..15, ~ Skipped(item),
           NEW whole \in Seq(Byte), \A room \in Int : WholeOrFull(Encoded(item, room), whole, room)
    PROVE  Puts(item, <<8 * item.field + item.type>> \o whole)
  <1> DEFINE key == 8 * item.field + item.type
  <1>1. key \in Byte
    <2>1. item.type \in {0, 2}
      BY DEF PB_WT_VARINT, PB_WT_LD
    <2>2. \A f \in 1..15, t \in {0, 2} : 8 * f + t \in 0..255
      OBVIOUS
    <2> QED BY <2>1, <2>2 DEF Byte
  <1>2. <<key>> \o whole \in Seq(Byte)
    BY <1>1, Single, Concat
  <1>3. ASSUME NEW size \in Int, NEW b \in Seq(Byte)
        PROVE  /\ size >= 0 => PackItem(Ok(b), item, size) = Limited(b \o (<<key>> \o whole), size)
               /\ size < 0 => \E c \in Seq(Byte) : PackItem(Ok(b), item, size) = Ok(c)
    <2> DEFINE room == size - Len(b) - 1
               coded == Encoded(item, room)
    <2>1. room \in Int
      BY OkIs
    <2>2. WholeOrFull(coded, whole, room)
      BY <2>1
    <2>3. /\ coded \in Seq(Byte)
          /\ coded = whole \/ (Len(coded) >= size - Len(b) - 1 /\ Len(whole) >= size - Len(b) - 1)
      BY <2>2 DEF WholeOrFull
    <2>4. PackItem(Ok(b), item, size) = Extended(Ok(b), <<key>> \o coded, size)
      BY <2>3, PlainStep
    <2> HIDE DEF key, coded, room
    <2>5. AsTheWhole(b, key, whole, coded, size)
      BY <1>1, <2>3, WholeOrCut
    <2> QED BY <2>4, <2>5 DEF AsTheWhole
  <1> HIDE DEF key
  <1>4. \A size \in Nat, b \in Seq(Byte) : PackItem(Ok(b), item, size) = Limited(b \o (<<key>> \o whole), size)
    BY <1>3
  <1>5. \A size \in Negative, b \in Seq(Byte) : \E c \in Seq(Byte) : PackItem(Ok(b), item, size) = Ok(c)
    BY <1>3 DEF Negative
  <1>6. Puts(item, <<key>> \o whole)
    BY <1>2, <1>4, <1>5, PutsIf
  <1> QED BY <1>6 DEF key

(* An item that is skipped puts nothing. *)
LEMMA SkippedPuts ==
    ASSUME NEW item, Skipped(item), item.type \in {PB_WT_VARINT, PB_WT_LD}
    PROVE  Puts(item, <<>>)
  <1>1. <<>> \in Seq(Byte)
    OBVIOUS
  <1>2. ~ (PB_GET_WTYPE(item.type) > PB_MAX_TYPE)
    BY DEF PB_GET_WTYPE, PB_MAX_TYPE, PB_WT_32, PB_WT_VARINT, PB_WT_LD
  <1>3. ASSUME NEW size, NEW b \in Seq(Byte)
        PROVE  PackItem(Ok(b), item, size) = Ok(b)
    BY <1>2, OkIs, Zenon DEF PackItem
  <1>4. ASSUME NEW size \in Nat, NEW b \in Seq(Byte), Fits(b, size)
        PROVE  PackItem(Ok(b), item, size) = Limited(b \o <<>>, size)
    <2>1. b \o <<>> = b
      BY ConcatEmptySeq
    <2>2. Limited(b, size) = Ok(b)
      BY <1>4, Zenon DEF Limited, Fits
    <2> QED BY <1>3, <2>1, <2>2
  <1>5. \A size \in Negative, b \in Seq(Byte) : \E c \in Seq(Byte) : PackItem(Ok(b), item, size) = Ok(c)
    BY <1>3
  <1> QED BY <1>1, <1>4, <1>5, PutsIf

-----------------------------------------------------------------------------
(* The bytes of a field: none for a number left out or zero, and for bytes *)
(* left out.                                                               *)
NumberField(field, v) == IF v = NULL \/ v = 0 THEN <<>> ELSE <<8 * field>> \o VarintBytes(v)

BytesField(field, b) == <<8 * field + 2>> \o (VarintBytes(Len(b)) \o b)

(* What an item has of bytes whose number it cannot hold.                  *)
Kept(b) == SubSeq(b, 1, Len(b) % 256)

(* A number is put as key and varint; NULL and 0 put nothing. *)
LEMMA VarintItemPuts ==
    ASSUME NEW field \in 1..15, NEW v, v = NULL \/ v \in Nat
    PROVE  Puts(VarintItem(field, v), NumberField(field, v))
  <1> DEFINE item == VarintItem(field, v)
  <1>1. item.type = PB_WT_VARINT /\ item.field = field /\ item.data = v
    BY DEF VarintItem
  <1>2. HasEncoder(item.type) /\ PB_GET_WTYPE(item.type) = PB_WT_VARINT
    BY <1>1 DEF HasEncoder, PB_GET_WTYPE, PB_WT_VARINT
  <1> HIDE DEF item
  <1>3. Skipped(item) <=> v = NULL \/ v = 0
    BY <1>1, <1>2, Zenon DEF Skipped
  <1>4. CASE v = NULL \/ v = 0
    <2>1. NumberField(field, v) = <<>>
      BY <1>4, Zenon DEF NumberField
    <2>2. Puts(item, <<>>)
      BY <1>1, <1>3, <1>4, SkippedPuts
    <2> QED BY <2>1, <2>2 DEF item
  <1>5. CASE ~ (v = NULL \/ v = 0)
    <2>1. NumberField(field, v) = <<8 * field>> \o VarintBytes(v)
      BY <1>5, Zenon DEF NumberField
    <2>2. v \in Nat /\ v # 0
      BY <1>5
    <2>3. ASSUME NEW room \in Int
          PROVE  WholeOrFull(Encoded(item, room), VarintBytes(v), room)
      <3>1. Encoded(item, room) = pb_pack_varint(v, room)
        BY <1>1, <1>2 DEF Encoded, PB_WT_LD, PB_WT_VARINT, PB_WT_64, PB_WT_32
      <3>2. VarintBytes(v) \in Seq(Byte) /\ Len(VarintBytes(v)) \in Nat
        BY <2>2, VarintIs, LenProperties
      <3> DEFINE n == Len(VarintBytes(v))
      <3>3. n <= room \/ (CutTo(n, room) >= room /\ n >= room)
        <4> HIDE DEF n
        <4> QED BY <3>2 DEF CutTo, n
      <3> QED BY <2>2, <3>1, <3>2, <3>3, PackedVarint DEF WholeOrFull
    <2>4. VarintBytes(v) \in Seq(Byte)
      BY <2>2, VarintIs
    <2>5. Puts(item, <<8 * item.field + item.type>> \o VarintBytes(v))
      <3>1. item.type \in {PB_WT_VARINT, PB_WT_LD} /\ item.field \in 1..15 /\ ~ Skipped(item)
        BY <1>1, <1>3, <1>5
      <3> QED BY <2>3, <2>4, <3>1, PlainPuts
    <2>6. 8 * item.field + item.type = 8 * field
      BY <1>1 DEF PB_WT_VARINT
    <2> QED BY <2>1, <2>5, <2>6 DEF item
  <1> QED BY <1>4, <1>5

(* At most 255 bytes are kept, all of them if there are no more. *)
LEMMA KeptIs ==
    ASSUME NEW b \in Seq(Byte)
    PROVE  /\ Kept(b) \in Seq(Byte) /\ Len(Kept(b)) = Len(b) % 256 /\ Len(Kept(b)) \in 0..255
           /\ Len(b) <= 255 => Kept(b) = b
  <1>1. Len(b) \in Nat
    BY LenProperties
  <1> DEFINE n == Len(b) % 256
  <1>2. n \in 0..255 /\ n <= Len(b) /\ (Len(b) <= 255 => n = Len(b))
    <2>1. \A m \in Nat : m % 256 \in 0..255 /\ m % 256 <= m /\ (m <= 255 => m % 256 = m)
      OBVIOUS
    <2> QED BY <1>1, <2>1
  <1> HIDE DEF n
  <1>3. Slices(SubSeq(b, 1, n), Byte, b, 0, n)
    <2>1. 0 + n <= Len(b) /\ 1 = 0 + 1 /\ n = 0 + n /\ n \in Nat
      BY <1>2
    <2> QED BY <2>1, Sliced
  <1>4. Kept(b) = SubSeq(b, 1, n)
    BY DEF Kept, n
  <1>5. Len(b) <= 255 => Kept(b) = b
    BY <1>2, <1>4, SubSeqFull
  <1> QED BY <1>2, <1>3, <1>4, <1>5 DEF Slices, n

(* Bytes are put as key, length and the bytes kept. *)
LEMMA BytesItemPuts ==
    ASSUME NEW field \in 1..15, NEW b \in Seq(Byte)
    PROVE  Puts(BytesItem(field, b), BytesField(field, Kept(b)))
  <1> DEFINE item == BytesItem(field, b)
             n == Len(b) % 256
             k == Kept(b)
             whole == VarintBytes(n) \o k
  <1>1. b # NULL
    <2>1. Byte \subseteq Nat
      BY DEF Byte
    <2> QED BY <2>1, SeqMonotonic, NullAssumption
  <1>2. item.type = PB_WT_LD /\ item.field = field /\ item.data = b /\ item.length = n
    BY <1>1 DEF BytesItem
  <1>3. HasEncoder(item.type) /\ PB_GET_WTYPE(item.type) = PB_WT_LD /\ PB_WT_LD # PB_WT_VARINT
    BY <1>2 DEF HasEncoder, PB_GET_WTYPE, PB_WT_LD, PB_WT_VARINT, PB_WT_64, PB_WT_32
  <1> HIDE DEF item
  <1>4. ~ Skipped(item)
    BY <1>1, <1>2, <1>3, Zenon DEF Skipped
  <1>5. k \in Seq(Byte) /\ Len(k) = n /\ n \in 0..255 /\ SubSeq(b, 1, n) = k
    BY KeptIs DEF Kept
  <1> HIDE DEF n, k
  <1>6. VarintBytes(n) \in Seq(Byte) /\ Len(VarintBytes(n)) \in Nat
    BY <1>5, VarintIs, LenProperties
  <1>7. whole \in Seq(Byte) /\ Len(whole) = Len(VarintBytes(n)) + n
    BY <1>5, <1>6, Concat
  <1>8. ASSUME NEW room \in Int
        PROVE  WholeOrFull(Encoded(item, room), whole, room)
    <2> DEFINE v == pb_encode_varint(n, room)
    <2>1. Encoded(item, room) = v \o k
      <3>1. Encoded(item, room) = pb_pack_ld(item, room)
        BY <1>3 DEF Encoded, PB_WT_LD, PB_WT_VARINT, PB_WT_64, PB_WT_32
      <3> QED BY <1>2, <1>5, <3>1 DEF pb_pack_ld
    <2>2. /\ v \in Seq(Byte)
          /\ Len(VarintBytes(n)) <= room \/ n < 128 => v = VarintBytes(n)
          /\ n >= 128 => Len(v) = CutTo(Len(VarintBytes(n)), room)
      <3>1. n \in Nat
        BY <1>5
      <3> QED BY <3>1, EncodedVarint
    <2> HIDE DEF v
    <2>3. v \o k \in Seq(Byte) /\ Len(v \o k) = Len(v) + n /\ Len(v) \in Nat
      BY <1>5, <2>2, Concat
    <2>4. CASE v = VarintBytes(n)
      BY <1>7, <2>1, <2>4 DEF WholeOrFull
    <2>5. CASE v # VarintBytes(n)
      <3>1. Len(v) = CutTo(Len(VarintBytes(n)), room) /\ ~ (Len(VarintBytes(n)) <= room)
        BY <1>5, <2>2, <2>5
      <3>2. Len(v) >= room /\ Len(VarintBytes(n)) >= room
        BY <1>6, <3>1 DEF CutTo
      <3>3. Len(v \o k) >= room /\ Len(whole) >= room
        BY <1>5, <1>6, <1>7, <2>3, <3>2
      <3> HIDE DEF whole
      <3> QED BY <2>1, <2>3, <3>3 DEF WholeOrFull
    <2> QED BY <2>4, <2>5
  <1> HIDE DEF whole
  <1>9. Puts(item, <<8 * item.field + item.type>> \o whole)
    <2>1. item.type \in {PB_WT_VARINT, PB_WT_LD} /\ item.field \in 1..15
      BY <1>2
    <2> QED BY <1>4, <1>7, <1>8, <2>1, PlainPuts
  <1>10. 8 * item.field + item.type = 8 * field + 2
    BY <1>2 DEF PB_WT_LD
  <1>11. BytesField(field, k) = <<8 * field + 2>> \o whole
    BY <1>5 DEF BytesField, whole
  <1> QED BY <1>9, <1>10, <1>11 DEF item, k

(* An optional field left out puts nothing. *)
LEMMA LeftOutPuts ==
    ASSUME NEW field
    PROVE  Puts(BytesItem(field, NULL), <<>>)
  <1> DEFINE item == BytesItem(field, NULL)
  <1>1. item.type = PB_WT_LD /\ item.data = NULL
    BY DEF BytesItem
  <1>2. Skipped(item) /\ item.type \in {PB_WT_VARINT, PB_WT_LD}
    BY <1>1 DEF Skipped
  <1> HIDE DEF item
  <1>3. Puts(item, <<>>)
    BY <1>2, SkippedPuts
  <1> QED BY <1>3 DEF item

(* An embedded message for which there is room. *)
LEMMA WhereFits ==
    ASSUME NEW x, NEW n, Fits(x, n)
    PROVE  Limited(x, n) = Ok(x)
  BY Zenon DEF Fits, Limited

(* An embedded message for which there is none. *)
LEMMA WhereFull ==
    ASSUME NEW x, NEW n, ~ Fits(x, n)
    PROVE  Limited(x, n) = Failed(PB_ERR_ENCBUF)
  BY Zenon DEF Fits, Limited

(* What is packed of an embedded message. *)
LEMMA WhereInner ==
    ASSUME NEW run, NEW header, NEW inner, NEW n
    PROVE  /\ inner.ret < 0 => PackedEmbedded(run, header, inner, n) = inner
           /\ ~ (inner.ret < 0) =>
                  PackedEmbedded(run, header, inner, n)
                      = Extended(run, (header \o pb_encode_varint(inner.ret, 8)) \o inner.bytes, n)
  BY Zenon DEF PackedEmbedded

(* The items pack to b, in any room there may be.                          *)
PacksTo(items, b) ==
    /\ b \in Seq(Byte)
    /\ \A size \in Nat : pb_pack(items, size) = Limited(b, size)
    /\ \A size \in Negative : \E c \in Seq(Byte) : pb_pack(items, size) = Ok(c)

(* A message of less than 16384 bytes takes a length of one or two.        *)
LEMMA VarintLength ==
    ASSUME NEW n \in Nat
    PROVE  Len(VarintBytes(n)) \in Nat \ {0} /\ (n < 16384 => Len(VarintBytes(n)) <= 2)
  <1>1. Len(VarintBytes(n)) = Len(Digits128[n]) /\ Len(Digits128[n]) \in Nat \ {0}
    BY VarintIs
  <1>2. ASSUME n < 16384
        PROVE  Len(Digits128[n]) <= 2
    <2>1. CASE n < 128
      <3>1. Len(Digits128[n]) = 1
        BY <2>1, Digits
      <3> QED BY <3>1
    <2>2. CASE n >= 128
      <3> DEFINE q == n \div 128
      <3>1. q \in Nat /\ q < 128
        BY <1>2, <2>2
      <3>2. Len(Digits128[n]) = 1 + Len(Digits128[q])
        BY <2>2, Digits
      <3> HIDE DEF q
      <3>3. Len(Digits128[q]) = 1
        BY <3>1, Digits
      <3> QED BY <3>2, <3>3
    <2> QED BY <2>1, <2>2
  <1> QED BY <1>1, <1>2

(* A length is written in front of a message, wherever there is room for   *)
(* eight bytes.                                                            *)
LEMMA LengthIs ==
    ASSUME NEW n \in Nat
    PROVE  /\ pb_encode_varint(n, 8) \in Seq(Byte) /\ Len(pb_encode_varint(n, 8)) \in Nat \ {0}
           /\ n < 16384 => pb_encode_varint(n, 8) = VarintBytes(n)
  <1> DEFINE v == pb_encode_varint(n, 8)
             m == Len(VarintBytes(n))
  <1>1. m \in Nat \ {0} /\ (n < 16384 => m <= 2)
    BY VarintLength
  <1>2. 8 \in Int
    OBVIOUS
  <1>3. /\ v \in Seq(Byte)
        /\ m <= 8 \/ n < 128 => v = VarintBytes(n)
        /\ n >= 128 => Len(v) = CutTo(m, 8)
    BY <1>2, EncodedVarint
  <1>4. v = VarintBytes(n) => Len(v) = m
    OBVIOUS
  <1> HIDE DEF v, m
  <1>5. CutTo(m, 8) \in Nat \ {0}
    BY <1>1 DEF CutTo
  <1>6. n < 16384 => v = VarintBytes(n)
    BY <1>1, <1>3
  <1>7. Len(v) \in Nat \ {0}
    BY <1>1, <1>3, <1>4, <1>5
  <1> QED BY <1>3, <1>6, <1>7 DEF v

(* An embedded message is packed two bytes behind what is there.           *)
Embedding(b, field, items, size) ==
    PackItem(Ok(b), MessageItem(field, items), size)
        = PackedEmbedded(Ok(b), <<8 * field + 2>>, pb_pack(items, size - Len(b) - 2), size)

(* Packing an embedded message, in the room behind its header and length   *)
(* byte.                                                                   *)
LEMMA EmbeddedStep ==
    ASSUME NEW field \in 1..15, NEW items, NEW m, PacksTo(items, m), NEW b \in Seq(Byte), NEW size \in Int
    PROVE  Embedding(b, field, items, size)
  <1> DEFINE item == MessageItem(field, items)
             key == 8 * field + 2
             room == size - Len(b)
             header == pb_encode_header(room, item.type, item.field)
  <1>1. /\ item.type = PB_WT_EMB /\ item.field = field
        /\ item.data = [s \in Int |-> pb_pack(items, s)]
    BY DEF MessageItem
  <1>2. header = <<key>> /\ PB_GET_WTYPE(item.type) = 2
    <2>1. PB_WT_EMB \in {PB_WT_VARINT, PB_WT_LD, PB_WT_EMB} /\ PB_GET_WTYPE(PB_WT_EMB) = 2
      BY DEF PB_WT_VARINT, PB_WT_LD, PB_WT_EMB, PB_GET_WTYPE
    <2>2. pb_encode_header(room, PB_WT_EMB, field) = <<8 * field + PB_GET_WTYPE(PB_WT_EMB)>>
      BY <2>1, HeaderIs
    <2> QED BY <1>1, <2>1, <2>2
  <1>3. item.data \in [Int -> Packing]
    <2>1. ASSUME NEW s \in Int
          PROVE  pb_pack(items, s) \in Packing
      <3>1. PICK c \in Seq(Byte) : pb_pack(items, s) \in {Ok(c), Failed(PB_ERR_ENCBUF)}
        <4>1. CASE s < 0
          BY <4>1 DEF PacksTo, Negative
        <4>2. CASE ~ (s < 0)
          <5>1. pb_pack(items, s) = Limited(m, s) /\ m \in Seq(Byte)
            BY <4>2 DEF PacksTo
          <5> QED BY <5>1, Zenon DEF Limited
        <4> QED BY <4>1, <4>2
      <3>2. c \in Seq(Nat) /\ Len(c) \in Int /\ <<>> \in Seq(Nat)
        <4>1. Byte \subseteq Nat
          BY DEF Byte
        <4>2. c \in Seq(Nat)
          BY <4>1, SeqMonotonic
        <4>3. Len(c) \in Int /\ <<>> \in Seq(Nat)
          BY LenProperties, EmptySeq
        <4> QED BY <4>2, <4>3
      <3>3. Ok(c) \in Packing
        BY <3>2 DEF Ok, Packing
      <3>4. Failed(PB_ERR_ENCBUF) \in Packing
        BY <3>2 DEF Failed, PB_ERR_ENCBUF, Packing
      <3> QED BY <3>1, <3>3, <3>4
    <2> QED BY <1>1, <2>1
  <1>4. item.data # NULL
    BY <1>3, NullAssumption
  <1>5. IS_EMB_MSG(item.type) /\ ~ (PB_GET_WTYPE(item.type) > PB_MAX_TYPE)
    BY <1>1, <1>2 DEF IS_EMB_MSG, PB_WT_EMB, PB_WT_LD, PB_MAX_TYPE, PB_WT_32
  <1>6. ~ Skipped(item)
    <2>1. HasEncoder(item.type) /\ PB_GET_WTYPE(item.type) # PB_WT_VARINT
      BY <1>2 DEF HasEncoder, PB_WT_LD, PB_WT_VARINT
    <2> HIDE DEF item
    <2> QED BY <1>4, <2>1, Zenon DEF Skipped
  <1>7. key \in Byte
    BY DEF Byte
  <1> HIDE DEF key
  <1>8. <<key>> \in Seq(Byte) /\ Len(<<key>>) = 1
    BY <1>7, Single
  <1>9. header # NULL /\ header # <<>> /\ Len(header) = 1
    <2>1. Byte \subseteq Nat
      BY DEF Byte
    <2>2. <<key>> \in Seq(Nat)
      BY <1>8, <2>1, SeqMonotonic
    <2>3. <<key>> # <<>>
      BY <1>8, EmptySeq
    <2> QED BY <1>2, <1>8, <2>2, <2>3, NullAssumption
  <1>10. size - Len(Ok(b).bytes) = room /\ ~ (Ok(b).ret < 0) /\ room \in Int
    BY OkIs
  <1>11. PackItem(Ok(b), item, size)
           = PackedEmbedded(Ok(b), header, item.data[room - Len(header) - 1], size)
    <2> HIDE DEF item, header, room
    <2> QED BY <1>5, <1>6, <1>9, <1>10, Zenon DEF PackItem, header
  <1>12. item.data[room - Len(header) - 1] = pb_pack(items, room - 2)
    <2> HIDE DEF item, room, header
    <2>1. room - Len(header) - 1 = room - 2 /\ room - 2 \in Int
      BY <1>9, <1>10
    <2> QED BY <1>1, <2>1
  <1> QED BY <1>2, <1>11, <1>12 DEF key, Embedding

(* An embedded message is put as key, length and its own bytes, although   *)
(* it is packed behind one byte of length and moved for a second           *)
(* (pb_pack.c:196-222).                                                    *)
LEMMA MessageItemPuts ==
    ASSUME NEW field \in 1..15, NEW items, NEW m \in Seq(Byte), Len(m) < 16384, PacksTo(items, m)
    PROVE  Puts(MessageItem(field, items), BytesField(field, m))
  <1> DEFINE item == MessageItem(field, items)
             key == 8 * field + 2
             whole == VarintBytes(Len(m)) \o m
  <1>1. key \in Byte
    BY DEF Byte
  <1>2. Len(m) \in Nat /\ VarintBytes(Len(m)) \in Seq(Byte) /\ Len(VarintBytes(Len(m))) \in Nat \ {0}
    BY VarintIs, LenProperties, VarintLength
  <1>3. whole \in Seq(Byte) /\ Len(whole) = Len(VarintBytes(Len(m))) + Len(m)
    BY <1>2, Concat
  <1>4. ASSUME NEW size \in Int, NEW b \in Seq(Byte)
        PROVE  \/ /\ size >= 0
                  /\ PackItem(Ok(b), item, size) = Limited(b \o (<<key>> \o whole), size)
               \/ /\ size < 0
                  /\ \E c \in Seq(Byte) : PackItem(Ok(b), item, size) = Ok(c)
    <2> DEFINE room == size - Len(b) - 2
               inner == pb_pack(items, room)
    <2>1. room \in Int /\ Len(b) \in Nat
      BY LenProperties
    <2>2. PackItem(Ok(b), item, size) = PackedEmbedded(Ok(b), <<key>>, inner, size)
      <3>1. Embedding(b, field, items, size)
        BY EmbeddedStep
      <3> QED BY <3>1 DEF Embedding
    <2>3. ASSUME NEW c \in Seq(Byte), inner = Ok(c),
                 c = m \/ (Len(c) >= size - Len(b) - 2 /\ Len(m) >= size - Len(b) - 2)
          PROVE  /\ size >= 0 => PackItem(Ok(b), item, size) = Limited(b \o (<<key>> \o whole), size)
                 /\ size < 0 => \E d \in Seq(Byte) : PackItem(Ok(b), item, size) = Ok(d)
      <3> DEFINE v == pb_encode_varint(Len(c), 8)
                 coded == v \o c
                 all == (<<key>> \o v) \o c
                 keyed == <<key>> \o coded
                 packed == Extended(Ok(b), all, size)
      <3>1. Ok(c).ret = Len(c) /\ Ok(c).bytes = c /\ Len(c) \in Nat /\ ~ (Ok(c).ret < 0)
        BY OkIs
      <3>2. v \in Seq(Byte) /\ Len(v) \in Nat \ {0} /\ (Len(c) < 16384 => v = VarintBytes(Len(c)))
        BY <3>1, LengthIs
      <3>3. PackItem(Ok(b), item, size) = packed
        <4>1. ~ (inner.ret < 0) /\ inner.ret = Len(c) /\ inner.bytes = c
          BY <2>3, <3>1
        <4> HIDE DEF item, inner, key
        <4> QED BY <2>2, <4>1, WhereInner
      <3>4. c = m => v = VarintBytes(Len(m))
        BY <3>2
      <3>5. c = m => coded = whole
        BY <3>4, SMTT(30)
      <3> HIDE DEF v
      <3>6. all = keyed
        <4>1. <<key>> \in Seq(Byte)
          BY <1>1, Single
        <4> HIDE DEF key
        <4> QED BY <3>2, <4>1, ConcatAssociative
      <3>7. coded \in Seq(Byte) /\ Len(coded) = Len(v) + Len(c)
        BY <3>2, Concat
      <3> HIDE DEF coded, whole, item, key
      <3>8. coded = whole \/ (Len(coded) >= size - Len(b) - 1 /\ Len(whole) >= size - Len(b) - 1)
        BY <1>2, <1>3, <2>1, <2>3, <3>1, <3>2, <3>5, <3>7
      <3>9. packed = Extended(Ok(b), keyed, size)
        <4> HIDE DEF keyed, all
        <4> QED BY <3>6
      <3>10. /\ size >= 0 =>
                   Extended(Ok(b), <<key>> \o coded, size) = Limited(b \o (<<key>> \o whole), size)
             /\ size < 0 => \E d \in Seq(Byte) : Extended(Ok(b), <<key>> \o coded, size) = Ok(d)
        <4>1. b \in Seq(Byte) /\ size \in Int
          OBVIOUS
        <4>2. AsTheWhole(b, key, whole, coded, size)
          BY ONLY <1>1, <1>3, <3>7, <3>8, <4>1, WholeOrCut
        <4> QED BY <4>2 DEF AsTheWhole
      <3> HIDE DEF packed
      <3> QED BY <3>3, <3>9, <3>10 DEF keyed
    <2>4. CASE room < 0
      <3>1. PICK c \in Seq(Byte) : inner = Ok(c)
        BY <2>1, <2>4 DEF PacksTo, Negative
      <3>2. Len(c) >= size - Len(b) - 2 /\ Len(m) >= size - Len(b) - 2
        <4>1. Len(c) \in Nat
          BY LenProperties
        <4> QED BY <1>2, <2>1, <2>4, <4>1
      <3>3. size >= 0 \/ size < 0
        OBVIOUS
      <3> HIDE DEF inner, item, key, whole, room
      <3> QED BY <2>3, <3>1, <3>2, <3>3
    <2>5. CASE ~ (room < 0)
      <3>1. inner = Limited(m, room) /\ size >= 0
        <4>1. room \in Nat /\ size >= 0
          BY <2>1, <2>5
        <4> HIDE DEF room
        <4> QED BY <4>1 DEF PacksTo
      <3>2. CASE Fits(m, room)
        <4>1. inner = Ok(m)
          BY <3>1, <3>2, WhereFits
        <4> HIDE DEF inner, item, key, whole, room
        <4> QED BY <2>3, <3>1, <4>1
      <3>3. CASE ~ Fits(m, room)
        <4>1. inner = Failed(PB_ERR_ENCBUF)
          BY <3>1, <3>3, WhereFull
        <4>2. inner.ret < 0
          BY <4>1 DEF Failed, PB_ERR_ENCBUF
        <4>3. PackItem(Ok(b), item, size) = Failed(PB_ERR_ENCBUF)
          <5> HIDE DEF inner, item, key
          <5> QED BY <2>2, <4>1, <4>2, WhereInner
        <4> DEFINE e == <<key>> \o whole
        <4>4. e \in Seq(Byte) /\ Len(e) = 1 + Len(whole)
          BY <1>1, <1>3, Single, Concat
        <4> HIDE DEF e
        <4>5. b \o e \in Seq(Byte) /\ Len(b \o e) = Len(b) + Len(e)
          BY <4>4, Concat
        <4>6. ~ (Len(m) < room)
          BY <3>3 DEF Fits
        <4>7. ~ (Len(b \o e) < size) /\ Len(b \o e) # 0
          BY <1>2, <1>3, <2>1, <4>4, <4>5, <4>6
        <4>8. b \o e # <<>>
          BY <4>7
        <4>9. Limited(b \o e, size) = Failed(PB_ERR_ENCBUF)
          <5>1. ~ Fits(b \o e, size)
            BY <4>7, <4>8, SMT DEF Fits
          <5> QED BY <5>1, WhereFull
        <4> QED BY <3>1, <4>3, <4>9 DEF e
      <3> QED BY <3>2, <3>3
    <2> QED BY <2>4, <2>5
  <1> DEFINE e == <<key>> \o whole
  <1>5. e \in Seq(Byte)
    BY <1>1, <1>3, Single, Concat
  <1>6. \A size \in Nat, b \in Seq(Byte) : PackItem(Ok(b), item, size) = Limited(b \o e, size)
    <2> TAKE size \in Nat, b \in Seq(Byte)
    <2>1. ~ (size < 0) /\ size \in Int
      OBVIOUS
    <2> HIDE DEF item, key, whole
    <2> QED BY <1>4, <2>1
  <1>7. \A size \in Negative, b \in Seq(Byte) : \E c \in Seq(Byte) : PackItem(Ok(b), item, size) = Ok(c)
    <2> TAKE size \in Negative, b \in Seq(Byte)
    <2>1. ~ (size >= 0) /\ size \in Int
      BY DEF Negative
    <2> HIDE DEF item, key, whole
    <2> QED BY <1>4, <2>1
  <1> HIDE DEF item, e
  <1>8. Puts(item, e)
    BY <1>5, <1>6, <1>7, PutsIf
  <1> QED BY <1>8 DEF item, e, BytesField

-----------------------------------------------------------------------------
(* A message of n items; b[i] is what the first i of them put.             *)
Prefixes(b, es, n) ==
    /\ b \in [0..n -> Seq(Byte)] /\ b[0] = <<>>
    /\ \A i \in 1..n : b[i] = b[i - 1] \o es[i]

(* A run of pb_pack through a message.                                     *)
PackRun(f, message, size, k) ==
    IF k = 0 THEN [ret |-> 0, bytes |-> <<>>] ELSE PackItem(f[k - 1], message[k], size)

IsPackRun(f, message, size, n) == f = [k \in 0..n |-> PackRun(f, message, size, k)]

(* pb_pack is the run of its items. *)
LEMMA PackRunIs ==
    ASSUME NEW message, NEW size, NEW n \in Nat, Len(message) = n, NEW f, IsPackRun(f, message, size, n)
    PROVE  \E g : g[n] = pb_pack(message, size) /\ IsPackRun(g, message, size, n)
  <1> DEFINE g == CHOOSE h : h = [k \in 0..n |-> PackRun(h, message, size, k)]
  <1>1. pb_pack(message, size)
          = (CHOOSE h : h = [k \in 0..Len(message) |-> PackRun(h, message, size, k)])[Len(message)]
    BY DEF pb_pack, PackRun
  <1>2. g[n] = pb_pack(message, size)
    BY <1>1
  <1>3. f = [k \in 0..n |-> PackRun(f, message, size, k)]
    BY DEF IsPackRun
  <1>4. g = [k \in 0..n |-> PackRun(g, message, size, k)]
    BY <1>3, Zenon
  <1> HIDE DEF g
  <1> QED BY <1>2, <1>4 DEF IsPackRun

(* A run is determined by its steps. *)
LEMMA PackRunSteps ==
    ASSUME NEW message, NEW size, NEW n \in Nat, NEW g, IsPackRun(g, message, size, n)
    PROVE  /\ g[0] = Ok(<<>>)
           /\ \A k \in 1..n : g[k] = PackItem(g[k - 1], message[k], size)
  <1>1. g = [k \in 0..n |-> PackRun(g, message, size, k)]
    BY DEF IsPackRun
  <1>2. \A k \in 0..n : g[k] = PackRun(g, message, size, k)
    BY <1>1, Zenon
  <1>3. PackRun(g, message, size, 0) = [ret |-> 0, bytes |-> <<>>]
    BY Zenon DEF PackRun
  <1>4. Ok(<<>>) = [ret |-> 0, bytes |-> <<>>]
    <2>1. Len(<<>>) = 0
      BY EmptySeq
    <2> QED BY <2>1, Zenon DEF Ok
  <1>5. ASSUME NEW k \in 1..n
        PROVE  g[k] = PackItem(g[k - 1], message[k], size)
    <2>1. k # 0 /\ k \in 0..n
      OBVIOUS
    <2>2. PackRun(g, message, size, k) = PackItem(g[k - 1], message[k], size)
      BY <2>1, Zenon DEF PackRun
    <2> QED BY <1>2, <2>1, <2>2
  <1> QED BY <1>2, <1>3, <1>4, <1>5

(* Items that each put their bytes make a message that is packed as those  *)
(* bytes, or refused for want of room, whatever the room is.               *)
LEMMA MessagePacks ==
    ASSUME NEW message, NEW n \in Nat, Len(message) = n, NEW es, NEW b, Prefixes(b, es, n),
           \A i \in 1..n : Puts(message[i], es[i])
    PROVE  PacksTo(message, b[n])
  <1>1. \A i \in 0..n : b[i] \in Seq(Byte)
    BY DEF Prefixes
  <1>2. ASSUME NEW size \in Nat
        PROVE  pb_pack(message, size) = Limited(b[n], size)
    <2> DEFINE f == [k \in 0..n |-> Limited(b[k], size)]
    <2>1. ASSUME NEW k \in 0..n
          PROVE  f[k] = PackRun(f, message, size, k)
      <3>1. CASE k = 0
        <4>1. b[0] = <<>> /\ Fits(<<>>, size)
          BY DEF Prefixes, Fits
        <4>2. Limited(b[0], size) = Ok(<<>>)
          BY <4>1, WhereFits
        <4>3. Ok(<<>>) = [ret |-> 0, bytes |-> <<>>]
          <5>1. Len(<<>>) = 0
            BY EmptySeq
          <5> QED BY <5>1, Zenon DEF Ok
        <4>4. f[k] = Limited(b[0], size)
          BY <3>1
        <4> HIDE DEF f
        <4> QED BY <3>1, <4>2, <4>3, <4>4, Zenon DEF PackRun
      <3>2. CASE k # 0
        <4>1. k \in 1..n /\ k - 1 \in 0..n
          BY <3>2
        <4>2. f[k] = Limited(b[k], size) /\ f[k - 1] = Limited(b[k - 1], size)
          BY <4>1
        <4>3. b[k] = b[k - 1] \o es[k]
          BY <4>1 DEF Prefixes
        <4>4. PackItem(Limited(b[k - 1], size), message[k], size) = Limited(b[k - 1] \o es[k], size)
          <5>1. Puts(message[k], es[k]) /\ b[k - 1] \in Seq(Byte)
            BY <1>1, <4>1
          <5> QED BY <5>1 DEF Puts
        <4> HIDE DEF f
        <4> QED BY <3>2, <4>2, <4>3, <4>4, Zenon DEF PackRun
      <3> QED BY <3>1, <3>2
    <2>2. f = [k \in 0..n |-> f[k]]
      OBVIOUS
    <2> HIDE DEF f
    <2>3. f = [k \in 0..n |-> PackRun(f, message, size, k)]
      BY <2>1, <2>2
    <2>4. PICK g : g[n] = pb_pack(message, size) /\ IsPackRun(g, message, size, n)
      BY <2>3, PackRunIs DEF IsPackRun
    <2>5. /\ g[0] = Ok(<<>>)
          /\ \A k \in 1..n : g[k] = PackItem(g[k - 1], message[k], size)
      BY <2>4, PackRunSteps
    <2> DEFINE T == { k \in Nat : k <= n => g[k] = Limited(b[k], size) }
    <2>6. 0 \in T
      <3>1. b[0] = <<>> /\ Fits(<<>>, size)
        BY DEF Prefixes, Fits
      <3> QED BY <2>5, <3>1, WhereFits
    <2>7. ASSUME NEW k \in Nat, k \in T
          PROVE  k + 1 \in T
      <3> SUFFICES ASSUME k + 1 <= n
                   PROVE  g[k + 1] = Limited(b[k + 1], size)
        OBVIOUS
      <3>1. k + 1 \in 1..n /\ k \in 0..n /\ (k + 1) - 1 = k
        OBVIOUS
      <3>2. g[k] = Limited(b[k], size)
        BY <2>7, <3>1
      <3>3. g[k + 1] = PackItem(g[k], message[k + 1], size) /\ b[k + 1] = b[k] \o es[k + 1]
        <4>1. g[k + 1] = PackItem(g[(k + 1) - 1], message[k + 1], size)
          BY <2>5, <3>1
        <4>2. b[k + 1] = b[(k + 1) - 1] \o es[k + 1]
          BY <3>1 DEF Prefixes
        <4> QED BY <3>1, <4>1, <4>2
      <3>4. Puts(message[k + 1], es[k + 1]) /\ b[k] \in Seq(Byte)
        BY <1>1, <3>1
      <3>5. PackItem(Limited(b[k], size), message[k + 1], size) = Limited(b[k] \o es[k + 1], size)
        BY <3>4 DEF Puts
      <3> QED BY <3>2, <3>3, <3>5
    <2>8. \A k \in Nat : k \in T
      <3> HIDE DEF T
      <3> QED BY <2>6, <2>7, UpFromZero
    <2>9. g[n] = Limited(b[n], size)
      BY <2>8
    <2> QED BY <2>4, <2>9
  <1>3. ASSUME NEW size \in Negative
        PROVE  \E c \in Seq(Byte) : pb_pack(message, size) = Ok(c)
    <2> DEFINE S == { Ok(c) : c \in Seq(Byte) }
               next == [k \in 1..n |-> [r \in S |-> PackItem(r, message[k], size)]]
    <2>1. ASSUME NEW k \in 1..n, NEW r \in S
          PROVE  PackItem(r, message[k], size) \in S
      <3>1. PICK c \in Seq(Byte) : r = Ok(c)
        OBVIOUS
      <3>2. Puts(message[k], es[k])
        OBVIOUS
      <3>3. \E d \in Seq(Byte) : PackItem(Ok(c), message[k], size) = Ok(d)
        BY <3>2 DEF Puts
      <3> QED BY <3>1, <3>3
    <2>2. next \in [1..n -> [S -> S]]
      <3> HIDE DEF S
      <3> QED BY <2>1
    <2>3. Ok(<<>>) \in S
      BY EmptySeq
    <2>4. HasLoop(S, n, Ok(<<>>), next)
      <3> HIDE DEF S, next
      <3> QED BY <2>2, <2>3, LoopExists
    <2>5. PICK f \in [0..n -> S] : IsLoop(f, n, Ok(<<>>), next)
      BY <2>4 DEF HasLoop
    <2>6. f = [k \in 0..n |-> IF k = 0 THEN Ok(<<>>) ELSE next[k][f[k - 1]]]
      BY <2>5 DEF IsLoop
    <2>7. ASSUME NEW k \in 0..n
          PROVE  (IF k = 0 THEN Ok(<<>>) ELSE next[k][f[k - 1]]) = PackRun(f, message, size, k)
      <3>1. CASE k = 0
        <4>1. Ok(<<>>) = [ret |-> 0, bytes |-> <<>>]
          <5>1. Len(<<>>) = 0
            BY EmptySeq
          <5> QED BY <5>1, Zenon DEF Ok
        <4> HIDE DEF next
        <4> QED BY <3>1, <4>1, Zenon DEF PackRun
      <3>2. CASE k # 0
        <4>1. k \in 1..n /\ k - 1 \in 0..n
          BY <3>2
        <4>2. f[k - 1] \in S
          <5> HIDE DEF S
          <5> QED BY <4>1
        <4>3. next[k][f[k - 1]] = PackItem(f[k - 1], message[k], size)
          <5> HIDE DEF S
          <5> QED BY <4>1, <4>2
        <4> HIDE DEF next
        <4> QED BY <3>2, <4>3, Zenon DEF PackRun
      <3> QED BY <3>1, <3>2
    <2>8. f = [k \in 0..n |-> PackRun(f, message, size, k)]
      <3> HIDE DEF next
      <3> QED BY <2>6, <2>7
    <2>9. PICK g : g[n] = pb_pack(message, size) /\ IsPackRun(g, message, size, n)
      <3>1. IsPackRun(f, message, size, n)
        BY <2>8 DEF IsPackRun
      <3> HIDE DEF next, S
      <3> QED BY <3>1, PackRunIs
    <2>10. /\ g[0] = Ok(<<>>)
           /\ \A k \in 1..n : g[k] = PackItem(g[k - 1], message[k], size)
      BY <2>9, PackRunSteps
    <2> DEFINE T == { k \in Nat : k <= n => g[k] \in S }
    <2>11. 0 \in T
      <3> HIDE DEF S
      <3> QED BY <2>3, <2>10
    <2>12. ASSUME NEW k \in Nat, k \in T
           PROVE  k + 1 \in T
      <3> SUFFICES ASSUME k + 1 <= n
                   PROVE  g[k + 1] \in S
        OBVIOUS
      <3>1. k + 1 \in 1..n /\ k <= n /\ (k + 1) - 1 = k
        OBVIOUS
      <3> HIDE DEF S
      <3>2. g[k] \in S
        BY <2>12, <3>1
      <3>3. g[k + 1] = PackItem(g[(k + 1) - 1], message[k + 1], size)
        BY <2>10, <3>1
      <3> QED BY <2>1, <3>1, <3>2, <3>3
    <2>13. \A k \in Nat : k \in T
      <3> HIDE DEF T
      <3> QED BY <2>11, <2>12, UpFromZero
    <2>14. g[n] \in S
      <3> HIDE DEF S
      <3> QED BY <2>13
    <2> QED BY <2>9, <2>14
  <1> QED BY <1>1, <1>2, <1>3 DEF PacksTo

-----------------------------------------------------------------------------
(* Varint is the function its recursion describes.                         *)
VarintOf(bytes, f, p) ==
    IF p > Len(bytes) THEN [number |-> 0, next |-> p]
    ELSE IF bytes[p] < 128 THEN [number |-> bytes[p], next |-> p + 1]
    ELSE [number |-> bytes[p] - 128 + 128 * f[p + 1].number, next |-> f[p + 1].next]

Places(bytes) == 1..(Len(bytes) + 1)

(* The bytes that end a varint, and those that do not. *)
LEMMA ByteCases ==
    \A x \in Byte : /\ x \in Nat /\ (x < 128 \/ x >= 128)
                    /\ x >= 128 => x - 128 \in Nat /\ ~ (x < 128)
                    /\ ~ (x < 128) => x >= 128
  BY DEF Byte

(* One step of reading a varint. *)
LEMMA VarintCases ==
    ASSUME NEW bytes \in Seq(Byte), NEW f, NEW p \in Places(bytes)
    PROVE  /\ p = Len(bytes) + 1 => VarintOf(bytes, f, p) = [number |-> 0, next |-> p]
           /\ p <= Len(bytes) /\ bytes[p] < 128 =>
                  VarintOf(bytes, f, p) = [number |-> bytes[p], next |-> p + 1]
           /\ p <= Len(bytes) /\ bytes[p] >= 128 =>
                  VarintOf(bytes, f, p)
                      = [number |-> bytes[p] - 128 + 128 * f[p + 1].number, next |-> f[p + 1].next]
  <1>1. Len(bytes) \in Nat /\ \A i \in 1..Len(bytes) : bytes[i] \in Byte
    BY LenProperties, ElementOfSeq
  <1>2. p > Len(bytes) <=> p = Len(bytes) + 1
    BY <1>1 DEF Places
  <1>3. p <= Len(bytes) => p \in 1..Len(bytes) /\ ~ (p > Len(bytes))
    BY <1>1 DEF Places
  <1>4. \A x \in Byte : x >= 128 <=> ~ (x < 128)
    BY ByteCases
  <1>5. p > Len(bytes) => VarintOf(bytes, f, p) = [number |-> 0, next |-> p]
    BY Zenon DEF VarintOf
  <1>6. ~ (p > Len(bytes)) /\ bytes[p] < 128 => VarintOf(bytes, f, p) = [number |-> bytes[p], next |-> p + 1]
    BY Zenon DEF VarintOf
  <1>7. ~ (p > Len(bytes)) /\ ~ (bytes[p] < 128) =>
            VarintOf(bytes, f, p)
                = [number |-> bytes[p] - 128 + 128 * f[p + 1].number, next |-> f[p + 1].next]
    BY Zenon DEF VarintOf
  <1>8. p <= Len(bytes) => bytes[p] \in Byte
    BY <1>1, <1>3
  <1> QED BY <1>2, <1>3, <1>4, <1>5, <1>6, <1>7, <1>8, Zenon

IsVarint(bytes, f) ==
    /\ f = [p \in Places(bytes) |-> VarintOf(bytes, f, p)]
    /\ \A p \in Places(bytes) :
           /\ f[p].number \in Nat /\ f[p].next \in Places(bytes)
           /\ p <= Len(bytes) => f[p].next > p

(* The reader of varints is what its recursion says. *)
LEMMA VarintRead == ASSUME NEW bytes \in Seq(Byte) PROVE IsVarint(bytes, Varint(bytes))
  <1> DEFINE D == Places(bytes)
             L == Len(bytes)
             S == [number : Nat, next : D]
             mu == [p \in D |-> L + 1 - p]
             step == [f \in [D -> S] |-> [p \in D |-> VarintOf(bytes, f, p)]]
  <1>1. L \in Nat /\ (\A i \in 1..L : bytes[i] \in Byte) /\ D = 1..(L + 1)
    BY LenProperties, ElementOfSeq DEF Places
  <1>2. \A p \in D : /\ p = L + 1 \/ p <= L
                     /\ p <= L => p \in 1..L /\ p + 1 \in D
    BY <1>1
  <1> HIDE DEF D, L
  <1>3. ASSUME NEW f, NEW p \in D, p <= L /\ bytes[p] >= 128 => f[p + 1] \in S
        PROVE  VarintOf(bytes, f, p) \in S
    <2>1. p = L + 1 \/ (p <= L /\ p \in 1..L /\ p + 1 \in D /\ bytes[p] \in Byte)
      BY <1>1, <1>2
    <2>2. CASE p = L + 1
      <3>1. VarintOf(bytes, f, p) = [number |-> 0, next |-> p]
        BY <2>2, VarintCases DEF D, L
      <3> QED BY <3>1
    <2>3. CASE p <= L /\ p + 1 \in D /\ bytes[p] \in Byte /\ bytes[p] < 128
      <3>1. VarintOf(bytes, f, p) = [number |-> bytes[p], next |-> p + 1]
        BY <2>3, VarintCases DEF D, L
      <3>2. bytes[p] \in Nat
        BY <2>3, ByteCases
      <3> QED BY <2>3, <3>1, <3>2
    <2>4. CASE p <= L /\ bytes[p] \in Byte /\ bytes[p] >= 128
      <3>1. VarintOf(bytes, f, p)
              = [number |-> bytes[p] - 128 + 128 * f[p + 1].number, next |-> f[p + 1].next]
        BY <2>4, VarintCases DEF D, L
      <3>2. f[p + 1].number \in Nat /\ f[p + 1].next \in D
        BY <1>3, <2>4
      <3>3. bytes[p] - 128 \in Nat
        BY <2>4, ByteCases
      <3>4. \A a, b \in Nat : a + 128 * b \in Nat
        OBVIOUS
      <3>5. bytes[p] - 128 + 128 * f[p + 1].number \in Nat
        BY <3>2, <3>3, <3>4
      <3> QED BY <3>1, <3>2, <3>5
    <2>5. \A x \in Byte : x < 128 \/ x >= 128
      BY DEF Byte
    <2> QED BY <2>1, <2>2, <2>3, <2>4, <2>5
  <1>4. step \in [[D -> S] -> [D -> S]]
    <2>1. ASSUME NEW f \in [D -> S], NEW p \in D
          PROVE  VarintOf(bytes, f, p) \in S
      <3>1. p <= L => f[p + 1] \in S
        BY <1>2
      <3> QED BY <1>3, <3>1
    <2> HIDE DEF S
    <2> QED BY <2>1
  <1>5. mu \in [D -> Nat] /\ S # {}
    <2>1. [number |-> 0, next |-> 1] \in S
      BY <1>1
    <2>2. \A p \in D : L + 1 - p \in Nat
      BY <1>1
    <2> QED BY <2>1, <2>2
  <1>6. ASSUME NEW f \in [D -> S], NEW g \in [D -> S], NEW p \in D, Below(D, mu, f, g, p)
        PROVE  step[f][p] = step[g][p]
    <2>1. p <= L => f[p + 1] = g[p + 1]
      <3> SUFFICES ASSUME p <= L
                   PROVE  f[p + 1] = g[p + 1]
        OBVIOUS
      <3>1. p + 1 \in D /\ L + 1 - (p + 1) < L + 1 - p
        BY <1>1, <1>2
      <3>2. mu[p + 1] < mu[p]
        BY <3>1
      <3> HIDE DEF mu
      <3> QED BY <1>6, <3>1, <3>2 DEF Below
    <2>2. p = L + 1 \/ p <= L
      BY <1>2
    <2>3. p <= L => bytes[p] < 128 \/ bytes[p] >= 128
      <3>1. p <= L => bytes[p] \in Byte
        BY <1>1, <1>2
      <3>2. \A x \in Byte : x < 128 \/ x >= 128
        BY DEF Byte
      <3> QED BY <3>1, <3>2
    <2>4. VarintOf(bytes, f, p) = VarintOf(bytes, g, p)
      <3>1. /\ p = L + 1 => VarintOf(bytes, f, p) = [number |-> 0, next |-> p]
            /\ p <= L /\ bytes[p] < 128 =>
                   VarintOf(bytes, f, p) = [number |-> bytes[p], next |-> p + 1]
            /\ p <= L /\ bytes[p] >= 128 =>
                   VarintOf(bytes, f, p)
                       = [number |-> bytes[p] - 128 + 128 * f[p + 1].number, next |-> f[p + 1].next]
        BY VarintCases DEF D, L
      <3>2. /\ p = L + 1 => VarintOf(bytes, g, p) = [number |-> 0, next |-> p]
            /\ p <= L /\ bytes[p] < 128 =>
                   VarintOf(bytes, g, p) = [number |-> bytes[p], next |-> p + 1]
            /\ p <= L /\ bytes[p] >= 128 =>
                   VarintOf(bytes, g, p)
                       = [number |-> bytes[p] - 128 + 128 * g[p + 1].number, next |-> g[p + 1].next]
        BY VarintCases DEF D, L
      <3> QED BY <2>1, <2>2, <2>3, <3>1, <3>2, Zenon
    <2> HIDE DEF S
    <2> QED BY <2>4
  <1>7. HasFixedPoint(D, S, step)
    <2>1. Contracting(D, S, mu, step)
      <3> HIDE DEF step, mu, S
      <3> QED BY <1>4, <1>6 DEF Contracting
    <2> HIDE DEF step, mu, S
    <2> QED BY <1>5, <2>1, FixedPoint
  <1>8. PICK f \in [D -> S] : step[f] = f
    BY <1>7 DEF HasFixedPoint
  <1>9. f = [p \in D |-> VarintOf(bytes, f, p)]
    BY <1>8
  <1>10. Varint(bytes) = CHOOSE g : g = [p \in 1..(Len(bytes) + 1) |-> VarintOf(bytes, g, p)]
    BY DEF Varint, VarintOf
  <1>11. Varint(bytes) = [p \in D |-> VarintOf(bytes, Varint(bytes), p)]
    BY <1>9, <1>10, Zenon DEF D, Places
  <1> DEFINE V == Varint(bytes)
             T == { n \in Nat : n <= L => /\ V[L + 1 - n] \in S
                                          /\ n > 0 => V[L + 1 - n].next > L + 1 - n }
  <1>12. \A p \in D : V[p] = VarintOf(bytes, V, p)
    BY <1>11
  <1> HIDE DEF V
  <1>13. 0 \in T
    <2>1. L + 1 \in D /\ L + 1 - 0 = L + 1 /\ ~ (L + 1 <= L)
      BY <1>1
    <2>2. V[L + 1] \in S
      BY <1>3, <1>12, <2>1
    <2> QED BY <2>1, <2>2
  <1>14. ASSUME NEW n \in Nat, n \in T
         PROVE  n + 1 \in T
    <2> SUFFICES ASSUME n + 1 <= L
                 PROVE  V[L + 1 - (n + 1)] \in S /\ V[L + 1 - (n + 1)].next > L + 1 - (n + 1)
      OBVIOUS
    <2> DEFINE p == L + 1 - (n + 1)
    <2>1. p \in D /\ p <= L /\ p + 1 = L + 1 - n /\ p \in 1..L /\ p \in Int /\ n <= L
      BY <1>1
    <2>2. V[p + 1] \in S /\ (n > 0 => V[p + 1].next > p + 1)
      BY <1>14, <2>1
    <2> HIDE DEF p
    <2>3. V[p] \in S
      BY <1>3, <1>12, <2>1, <2>2
    <2>4. V[p + 1].next > p
      <3>1. CASE n > 0
        <4>1. V[p + 1].next \in Int
          BY <1>1, <2>2, SMTT(30)
        <4>2. \A a, b \in Int : a > b + 1 => a > b
          OBVIOUS
        <4> QED BY <2>1, <2>2, <3>1, <4>1, <4>2
      <3>2. CASE n = 0
        <4>1. p + 1 = L + 1 /\ p + 1 \in D
          BY <1>1, <2>1, <3>2
        <4>2. VarintOf(bytes, V, p + 1) = [number |-> 0, next |-> p + 1]
          BY <4>1, VarintCases DEF D, L
        <4>3. V[p + 1].next = p + 1
          BY <1>12, <4>1, <4>2
        <4> QED BY <2>1, <4>3
      <3> QED BY <3>1, <3>2
    <2>5. V[p].next = p + 1 \/ V[p].next = V[p + 1].next
      <3>1. bytes[p] < 128 \/ bytes[p] >= 128
        <4>1. bytes[p] \in Byte
          BY <1>1, <2>1
        <4> QED BY <4>1, ByteCases
      <3>2. /\ bytes[p] < 128 => VarintOf(bytes, V, p) = [number |-> bytes[p], next |-> p + 1]
            /\ bytes[p] >= 128 =>
                   VarintOf(bytes, V, p)
                       = [number |-> bytes[p] - 128 + 128 * V[p + 1].number, next |-> V[p + 1].next]
        BY <2>1, VarintCases DEF D, L
      <3>3. V[p] = VarintOf(bytes, V, p)
        BY <1>12, <2>1
      <3> QED BY <3>1, <3>2, <3>3
    <2>6. p + 1 > p
      BY <2>1
    <2> QED BY <2>3, <2>4, <2>5, <2>6 DEF p
  <1>15. \A n \in Nat : n \in T
    <2> HIDE DEF T
    <2> QED BY <1>13, <1>14, UpFromZero
  <1>16. ASSUME NEW p \in D
         PROVE  V[p] \in S /\ (p <= L => V[p].next > p)
    <2>1. L + 1 - p \in Nat /\ L + 1 - (L + 1 - p) = p /\ L + 1 - p <= L
          /\ (p <= L => L + 1 - p > 0)
      BY <1>1
    <2>2. L + 1 - p \in T
      BY <1>15, <2>1
    <2> QED BY <2>1, <2>2
  <1>17. V = [p \in D |-> VarintOf(bytes, V, p)]
    BY <1>11 DEF V
  <1> QED BY <1>16, <1>17 DEF IsVarint, V, D, L

-----------------------------------------------------------------------------
(* At p bytes of a message stand the bytes e. *)
At(bytes, p, e) == p + Len(e) <= Len(bytes) /\ \A i \in 1..Len(e) : bytes[p + i] = e[i]

(* A varint of more than one byte is that of its quotient behind a marked  *)
(* digit.                                                                  *)
LEMMA VarintFirst ==
    ASSUME NEW v \in Nat
    PROVE  /\ v < 128 => VarintBytes(v) = <<v>>
           /\ v >= 128 =>
                  /\ Len(VarintBytes(v)) = 1 + Len(VarintBytes(v \div 128))
                  /\ VarintBytes(v)[1] = (v % 128) + 128
                  /\ \A i \in 1..Len(VarintBytes(v \div 128)) :
                         VarintBytes(v)[1 + i] = VarintBytes(v \div 128)[i]
  <1>1. ASSUME v < 128
        PROVE  VarintBytes(v) = <<v>>
    <2>1. Digits128[v] = <<v>>
      BY <1>1, Digits
    <2>2. Marked(<<v>>) = <<v>>
      BY DEF Marked
    <2> QED BY <2>1, <2>2, Zenon DEF VarintBytes
  <1>2. ASSUME v >= 128
        PROVE  /\ Len(VarintBytes(v)) = 1 + Len(VarintBytes(v \div 128))
               /\ VarintBytes(v)[1] = (v % 128) + 128
               /\ \A i \in 1..Len(VarintBytes(v \div 128)) :
                         VarintBytes(v)[1 + i] = VarintBytes(v \div 128)[i]
    <2> DEFINE q == v \div 128
               d == Digits128[v]
               e == Digits128[q]
    <2>1. q \in Nat
      BY HigherDigits, <1>2
    <2> HIDE DEF q
    <2>2. /\ Len(d) = 1 + Len(e) /\ d[1] = v % 128
          /\ \A i \in 1..Len(e) : d[1 + i] = e[i]
      BY <1>2, Digits DEF q
    <2>3. Len(e) \in Nat \ {0} /\ Len(VarintBytes(q)) = Len(e) /\ Len(VarintBytes(v)) = Len(d)
      BY <2>1, VarintIs, Digits
    <2>4. VarintBytes(v) = [i \in 1..Len(d) |-> IF i < Len(d) THEN d[i] + 128 ELSE d[i]]
      BY Zenon DEF VarintBytes, Marked, PB_VARINT_MORE
    <2>5. VarintBytes(q) = [i \in 1..Len(e) |-> IF i < Len(e) THEN e[i] + 128 ELSE e[i]]
      BY Zenon DEF VarintBytes, Marked, PB_VARINT_MORE
    <2> HIDE DEF d, e
    <2>6. VarintBytes(v)[1] = d[1] + 128
      <3>1. 1 \in 1..Len(d) /\ 1 < Len(d)
        BY <2>2, <2>3
      <3> QED BY <2>4, <3>1
    <2>7. ASSUME NEW i \in 1..Len(e)
          PROVE  VarintBytes(v)[1 + i] = VarintBytes(q)[i]
      <3>1. 1 + i \in 1..Len(d) /\ (1 + i < Len(d) <=> i < Len(e))
        BY <2>2, <2>3
      <3>2. VarintBytes(v)[1 + i] = IF 1 + i < Len(d) THEN d[1 + i] + 128 ELSE d[1 + i]
        BY <2>4, <3>1
      <3>3. VarintBytes(q)[i] = IF i < Len(e) THEN e[i] + 128 ELSE e[i]
        BY <2>5
      <3>4. d[1 + i] = e[i]
        BY <2>2
      <3> QED BY <3>1, <3>2, <3>3, <3>4, Zenon
    <2> QED BY <2>2, <2>3, <2>6, <2>7 DEF q
  <1> QED BY <1>1, <1>2

(* A varint is read as the number it was made of.                          *)
Decodes(bytes, v) ==
    \A p \in Nat : At(bytes, p, VarintBytes(v)) =>
        Varint(bytes)[p + 1] = [number |-> v, next |-> p + Len(VarintBytes(v)) + 1]

(* A varint in its place is read as its number. *)
LEMMA VarintDecoded ==
    ASSUME NEW bytes \in Seq(Byte)
    PROVE  \A v \in Nat : Decodes(bytes, v)
  <1>1. /\ Varint(bytes) = [p \in Places(bytes) |-> VarintOf(bytes, Varint(bytes), p)]
        /\ Len(bytes) \in Nat
    BY VarintRead, LenProperties DEF IsVarint
  <1>2. ASSUME NEW v \in Nat, \A w \in Nat : w < v => Decodes(bytes, w)
        PROVE  Decodes(bytes, v)
    <2> SUFFICES ASSUME NEW p \in Nat, At(bytes, p, VarintBytes(v))
                 PROVE  Varint(bytes)[p + 1] = [number |-> v, next |-> p + Len(VarintBytes(v)) + 1]
      BY DEF Decodes
    <2> DEFINE n == Len(VarintBytes(v))
               V == Varint(bytes)
    <2>1. n \in Nat \ {0}
      BY VarintIs
    <2>2. p + n <= Len(bytes) /\ \A i \in 1..n : bytes[p + i] = VarintBytes(v)[i]
      BY DEF At
    <2>3. p + 1 \in Places(bytes) /\ p + 1 <= Len(bytes) /\ bytes[p + 1] = VarintBytes(v)[1]
      <3> HIDE DEF n
      <3>1. p + 1 \in Places(bytes) /\ p + 1 <= Len(bytes) /\ 1 \in 1..n
        BY <1>1, <2>1, <2>2 DEF Places
      <3> QED BY <2>2, <3>1
    <2>4. V[p + 1] = VarintOf(bytes, V, p + 1)
      BY <1>1, <2>3
    <2> HIDE DEF V
    <2>5. CASE v < 128
      <3>1. VarintBytes(v) = <<v>>
        BY <2>5, VarintFirst
      <3>2. bytes[p + 1] = v /\ n = 1 /\ p + 1 + 1 = p + n + 1
        BY <2>3, <3>1
      <3>3. bytes[p + 1] < 128
        BY <2>5, <3>2
      <3> HIDE DEF n
      <3>4. VarintOf(bytes, V, p + 1) = [number |-> bytes[p + 1], next |-> (p + 1) + 1]
        BY <2>3, <3>3, VarintCases
      <3>5. V[p + 1] = [number |-> v, next |-> p + n + 1]
        BY <2>4, <3>2, <3>4
      <3> QED BY <3>5 DEF V, n
    <2>6. CASE v >= 128
      <3> DEFINE q == v \div 128
                 m == Len(VarintBytes(q))
      <3>1. q \in Nat /\ q < v /\ v % 128 \in Nat /\ v = 128 * q + (v % 128)
        BY <2>6, HigherDigits DEF SevenBits
      <3>2. /\ n = 1 + m /\ VarintBytes(v)[1] = (v % 128) + 128
            /\ \A i \in 1..m : VarintBytes(v)[1 + i] = VarintBytes(q)[i]
        BY <2>6, VarintFirst
      <3>3. m \in Nat
        BY <3>1, VarintIs
      <3> HIDE DEF n, m, q
      <3>4. bytes[p + 1] = (v % 128) + 128 /\ bytes[p + 1] >= 128
        BY <2>3, <3>1, <3>2
      <3>5. At(bytes, p + 1, VarintBytes(q))
        <4>1. p + 1 + m <= Len(bytes)
          BY <1>1, <2>2, <3>2, <3>3
        <4>2. ASSUME NEW i \in 1..m
              PROVE  bytes[(p + 1) + i] = VarintBytes(q)[i]
          <5>1. 1 + i \in 1..n /\ (p + 1) + i = p + (1 + i)
            BY <3>2, <3>3
          <5> QED BY <2>2, <3>2, <5>1
        <4> QED BY <4>1, <4>2 DEF At, m
      <3>6. Decodes(bytes, q)
        BY <1>2, <3>1
      <3>7. V[(p + 1) + 1] = [number |-> q, next |-> (p + 1) + m + 1]
        <4>1. p + 1 \in Nat
          OBVIOUS
        <4> QED BY <3>5, <3>6, <4>1 DEF Decodes, V, m
      <3> DEFINE s == p + 1
      <3>8. s \in Places(bytes) /\ s <= Len(bytes) /\ bytes[s] >= 128
        BY <2>3, <3>4
      <3>9. V[s] = VarintOf(bytes, V, s) /\ V[s + 1] = [number |-> q, next |-> s + m + 1]
        BY <2>4, <3>7
      <3> HIDE DEF s
      <3>10. VarintOf(bytes, V, s)
              = [number |-> bytes[s] - 128 + 128 * V[s + 1].number, next |-> V[s + 1].next]
        BY <3>8, VarintCases
      <3>11. V[s] = [number |-> bytes[s] - 128 + 128 * q, next |-> s + m + 1]
        BY <3>9, <3>10
      <3>12. bytes[s] - 128 + 128 * q = v /\ s + m + 1 = p + n + 1
        BY <3>1, <3>2, <3>3, <3>4 DEF s
      <3>13. V[p + 1] = [number |-> v, next |-> p + n + 1]
        BY <3>11, <3>12 DEF s
      <3> QED BY <3>13 DEF V, n
    <2> QED BY <2>5, <2>6
  <1> DEFINE T == { v \in Nat : \A w \in Nat : w <= v => Decodes(bytes, w) }
  <1>3. 0 \in T
    <2>1. Decodes(bytes, 0)
      BY <1>2
    <2>2. \A w \in Nat : w <= 0 => w = 0
      OBVIOUS
    <2> QED BY <2>1, <2>2
  <1>4. ASSUME NEW n \in Nat, n \in T
        PROVE  n + 1 \in T
    <2>1. \A w \in Nat : w < n + 1 => Decodes(bytes, w)
      BY <1>4
    <2>2. Decodes(bytes, n + 1)
      BY <1>2, <2>1
    <2>3. \A w \in Nat : w <= n + 1 => w < n + 1 \/ w = n + 1
      OBVIOUS
    <2> QED BY <2>1, <2>2, <2>3
  <1>5. \A n \in Nat : n \in T
    <2> HIDE DEF T
    <2> QED BY <1>3, <1>4, UpFromZero
  <1>6. ASSUME NEW v \in Nat
        PROVE  Decodes(bytes, v)
    <2>1. v \in T /\ v <= v
      BY <1>5
    <2> QED BY <2>1
  <1> QED BY <1>6

-----------------------------------------------------------------------------
(* An entry ends behind its beginning, within the message.                 *)
EntryEnds(bytes, p, entry) ==
    /\ entry.value \in Nat \cup Seq(Byte)
    /\ entry.next \in Places(bytes) /\ entry.next > p

(* The place behind an entry is behind it. *)
LEMMA EntryTyped ==
    ASSUME NEW bytes \in Seq(Byte), NEW p \in 1..Len(bytes)
    PROVE  EntryEnds(bytes, p, Entry(bytes, p))
  <1> DEFINE V == Varint(bytes)
             L == Len(bytes)
             k == V[p]
             val == V[k.next]
             last == IF val.next + val.number - 1 <= L THEN val.next + val.number - 1 ELSE L
  <1>1. L \in Nat /\ (\A i \in 1..L : bytes[i] \in Byte) /\ Places(bytes) = 1..(L + 1)
    BY LenProperties, ElementOfSeq DEF Places
  <1>2. /\ V = [q \in Places(bytes) |-> VarintOf(bytes, V, q)]
        /\ \A q \in Places(bytes) : /\ V[q].number \in Nat /\ V[q].next \in Places(bytes)
                                    /\ q <= L => V[q].next > q
    BY VarintRead DEF IsVarint
  <1> HIDE DEF V, L
  <1>3. V[L + 1].next = L + 1
    <2>1. L + 1 \in Places(bytes) /\ L + 1 = Len(bytes) + 1
      BY <1>1 DEF L
    <2>2. VarintOf(bytes, V, L + 1) = [number |-> 0, next |-> L + 1]
      BY <2>1, VarintCases
    <2>3. V[L + 1] = VarintOf(bytes, V, L + 1)
      BY <1>2, <2>1
    <2> QED BY <2>2, <2>3
  <1>4. \A q \in Places(bytes) : q = L + 1 \/ q <= L
    BY <1>1
  <1>5. p \in Places(bytes) /\ p <= L /\ p \in 1..L
    BY <1>1 DEF L
  <1>6. k.next \in Places(bytes) /\ k.next > p
    BY <1>2, <1>5
  <1> HIDE DEF k
  <1>7. val.number \in Nat /\ val.next \in Places(bytes) /\ (k.next <= L => val.next > k.next)
    BY <1>2, <1>6
  <1>8. k.next = L + 1 => val.next = L + 1
    BY <1>3
  <1> DEFINE kn == k.next
             vn == val.next
             num == val.number
  <1> HIDE DEF val
  <1>9. vn >= kn /\ vn > p /\ vn \in 1..(L + 1) /\ num \in Nat
    <2>1. kn \in 1..(L + 1) /\ vn \in 1..(L + 1) /\ kn > p /\ p \in Int /\ num \in Nat
      BY <1>1, <1>5, <1>6, <1>7
    <2>2. kn = L + 1 \/ (kn <= L /\ vn > kn)
      BY <1>4, <1>6, <1>7
    <2>3. kn = L + 1 => vn = L + 1
      BY <1>8
    <2> HIDE DEF kn, vn, num
    <2> QED BY <1>1, <2>1, <2>2, <2>3
  <1>10. last = IF vn + num - 1 <= L THEN vn + num - 1 ELSE L
    OBVIOUS
  <1> HIDE DEF kn, vn, num, last
  <1>11. last \in Int /\ last <= L /\ last + 1 >= vn /\ last + 1 \in 1..(L + 1)
    BY <1>1, <1>9, <1>10
  <1>12. SubSeq(bytes, vn, last) \in Seq(Byte)
    <2>1. \A i \in vn..last : bytes[i] \in Byte
      BY <1>1, <1>9, <1>11
    <2>2. vn \in Int
      BY <1>9
    <2> QED BY <1>11, <2>1, <2>2, SubSeqProperties
  <1>13. Entry(bytes, p)
           = IF PB_GET_WTYPE(k.number) = PB_WT_VARINT
             THEN [key |-> k.number, value |-> num, next |-> vn]
             ELSE [key |-> k.number, value |-> SubSeq(bytes, vn, last), next |-> last + 1]
    BY Zenon DEF Entry, last, num, vn, val, k, V, L
  <1>14. CASE PB_GET_WTYPE(k.number) = PB_WT_VARINT
    <2>1. Entry(bytes, p) = [key |-> k.number, value |-> num, next |-> vn]
      BY <1>13, <1>14
    <2>2. Entry(bytes, p).value = num /\ Entry(bytes, p).next = vn
      BY <2>1
    <2> QED BY <1>1, <1>9, <2>2 DEF EntryEnds
  <1>15. CASE PB_GET_WTYPE(k.number) # PB_WT_VARINT
    <2> DEFINE s == SubSeq(bytes, vn, last)
    <2>1. Entry(bytes, p) = [key |-> k.number, value |-> s, next |-> last + 1]
      BY <1>13, <1>15
    <2>2. s \in Seq(Byte)
      BY <1>12
    <2> HIDE DEF s
    <2>3. Entry(bytes, p).value = s /\ Entry(bytes, p).next = last + 1
      BY <2>1
    <2>4. last + 1 > p
      BY <1>1, <1>5, <1>9, <1>11
    <2> QED BY <1>1, <1>11, <2>2, <2>3, <2>4 DEF EntryEnds
  <1> QED BY <1>14, <1>15

-----------------------------------------------------------------------------
(* The values a key has from every place on.                               *)
ReadOf(f, bytes, key, default, p) ==
    IF p > Len(bytes) THEN default ELSE Lookup(Entry(bytes, p), key, f)

IsReading(f, bytes, key, default) ==
    f = [p \in Places(bytes) |-> ReadOf(f, bytes, key, default, p)]

(* Reading is what its recursion says. *)
LEMMA ReadingIs ==
    ASSUME NEW bytes \in Seq(Byte), NEW key, NEW default
    PROVE  \E f : IsReading(f, bytes, key, default) /\ Read(bytes, key, default) = f[1]
  <1> DEFINE D == Places(bytes)
             L == Len(bytes)
             S == Nat \cup Seq(Byte) \cup {default}
             mu == [p \in D |-> L + 1 - p]
             step == [f \in [D -> S] |-> [p \in D |-> ReadOf(f, bytes, key, default, p)]]
  <1>1. L \in Nat /\ D = 1..(L + 1)
    BY LenProperties DEF Places
  <1>2. ASSUME NEW p \in D, ~ (p > L)
        PROVE  /\ Entry(bytes, p).value \in Nat \cup Seq(Byte) /\ Entry(bytes, p).next \in D
               /\ mu[Entry(bytes, p).next] < mu[p]
    <2>1. p \in 1..Len(bytes)
      BY <1>1, <1>2
    <2>2. EntryEnds(bytes, p, Entry(bytes, p))
      BY <2>1, EntryTyped
    <2> DEFINE q == Entry(bytes, p).next
    <2>3. q \in D /\ q > p /\ Entry(bytes, p).value \in Nat \cup Seq(Byte)
      BY <2>2 DEF EntryEnds
    <2> HIDE DEF q
    <2>4. L + 1 - q < L + 1 - p
      BY <1>1, <2>3
    <2>5. mu[q] < mu[p]
      <3>1. mu[q] = L + 1 - q /\ mu[p] = L + 1 - p
        BY <2>3
      <3> HIDE DEF mu
      <3> QED BY <2>4, <3>1
    <2> QED BY <2>3, <2>5 DEF q
  <1> HIDE DEF D, L
  <1>3. ASSUME NEW f, NEW p \in D
        PROVE  /\ p > L => ReadOf(f, bytes, key, default, p) = default
               /\ ~ (p > L) /\ Entry(bytes, p).key = key =>
                      ReadOf(f, bytes, key, default, p) = Entry(bytes, p).value
               /\ ~ (p > L) /\ Entry(bytes, p).key # key =>
                      ReadOf(f, bytes, key, default, p) = f[Entry(bytes, p).next]
    BY Zenon DEF ReadOf, Lookup, L
  <1>4. step \in [[D -> S] -> [D -> S]]
    <2>1. ASSUME NEW f \in [D -> S], NEW p \in D
          PROVE  ReadOf(f, bytes, key, default, p) \in S
      <3>1. default \in S /\ Nat \cup Seq(Byte) \subseteq S
        OBVIOUS
      <3> HIDE DEF S, mu
      <3>2. ~ (p > L) => Entry(bytes, p).value \in S /\ Entry(bytes, p).next \in D
        BY <1>2, <3>1
      <3>3. ~ (p > L) => f[Entry(bytes, p).next] \in S
        BY <3>2
      <3> QED BY <1>3, <3>1, <3>2, <3>3
    <2> HIDE DEF S
    <2> QED BY <2>1
  <1>5. mu \in [D -> Nat] /\ S # {}
    <2>1. \A p \in D : L + 1 - p \in Nat
      BY <1>1
    <2> QED BY <2>1
  <1>6. ASSUME NEW f \in [D -> S], NEW g \in [D -> S], NEW p \in D, Below(D, mu, f, g, p)
        PROVE  step[f][p] = step[g][p]
    <2>1. ~ (p > L) => f[Entry(bytes, p).next] = g[Entry(bytes, p).next]
      <3> HIDE DEF mu, S
      <3> QED BY <1>2, <1>6 DEF Below
    <2>2. ReadOf(f, bytes, key, default, p) = ReadOf(g, bytes, key, default, p)
      <3> HIDE DEF mu, S
      <3> QED BY <1>3, <2>1, Zenon
    <2> HIDE DEF S
    <2> QED BY <2>2
  <1>7. HasFixedPoint(D, S, step)
    <2>1. Contracting(D, S, mu, step)
      <3> HIDE DEF step, mu, S
      <3> QED BY <1>4, <1>6 DEF Contracting
    <2> HIDE DEF step, mu, S
    <2> QED BY <1>5, <2>1, FixedPoint
  <1>8. PICK f \in [D -> S] : step[f] = f
    BY <1>7 DEF HasFixedPoint
  <1>9. f = [p \in D |-> ReadOf(f, bytes, key, default, p)]
    BY <1>8
  <1> DEFINE g == CHOOSE h : h = [p \in D |-> ReadOf(h, bytes, key, default, p)]
  <1>10. Read(bytes, key, default) = g[1]
    BY DEF Read, ReadOf, D, Places
  <1>11. g = [p \in D |-> ReadOf(g, bytes, key, default, p)]
    BY <1>9, Zenon
  <1> HIDE DEF g
  <1>12. IsReading(g, bytes, key, default)
    BY <1>11 DEF IsReading, D
  <1> QED BY <1>10, <1>12

(* One step of reading: the value of this entry, or what is read behind    *)
(* it.                                                                     *)
LEMMA ReadingCases ==
    ASSUME NEW f, NEW bytes \in Seq(Byte), NEW key, NEW default, IsReading(f, bytes, key, default),
           NEW p \in Places(bytes)
    PROVE  /\ p = Len(bytes) + 1 => f[p] = default
           /\ p <= Len(bytes) /\ Entry(bytes, p).key = key => f[p] = Entry(bytes, p).value
           /\ p <= Len(bytes) /\ Entry(bytes, p).key # key => f[p] = f[Entry(bytes, p).next]
  <1>1. f = [q \in Places(bytes) |-> ReadOf(f, bytes, key, default, q)]
    BY DEF IsReading
  <1>2. f[p] = ReadOf(f, bytes, key, default, p)
    BY <1>1, Zenon
  <1>3. Len(bytes) \in Nat
    BY LenProperties
  <1>4. (p > Len(bytes) <=> p = Len(bytes) + 1) /\ (~ (p > Len(bytes)) <=> p <= Len(bytes))
    BY <1>3 DEF Places
  <1>5. p > Len(bytes) => ReadOf(f, bytes, key, default, p) = default
    BY Zenon DEF ReadOf
  <1>6. ~ (p > Len(bytes)) =>
            ReadOf(f, bytes, key, default, p) = Lookup(Entry(bytes, p), key, f)
    BY Zenon DEF ReadOf
  <1>7. /\ Entry(bytes, p).key = key => Lookup(Entry(bytes, p), key, f) = Entry(bytes, p).value
        /\ Entry(bytes, p).key # key => Lookup(Entry(bytes, p), key, f) = f[Entry(bytes, p).next]
    BY Zenon DEF Lookup
  <1> QED BY <1>2, <1>4, <1>5, <1>6, <1>7, Zenon

-----------------------------------------------------------------------------
(* e is empty, or the field of key k with the value v.                     *)
IsField(e, k, v) ==
    \/ e = <<>>
    \/ k \in 1..127 /\ k % 8 = 0 /\ v \in Nat /\ e = <<k>> \o VarintBytes(v)
    \/ k \in 1..127 /\ k % 8 = 2 /\ v \in Seq(Byte) /\ e = <<k>> \o (VarintBytes(Len(v)) \o v)

(* Where two sequences are, the one is and the other is behind it. *)
LEMMA AtParts ==
    ASSUME NEW bytes, Len(bytes) \in Nat, NEW p \in Nat, NEW a \in Seq(Byte), NEW c \in Seq(Byte),
           At(bytes, p, a \o c)
    PROVE  At(bytes, p, a) /\ At(bytes, p + Len(a), c)
  <1> DEFINE e == a \o c
             m == Len(a)
             n == Len(c)
  <1>1. /\ Len(e) = m + n /\ m \in Nat /\ n \in Nat
        /\ \A i \in 1..m : e[i] = a[i]
        /\ \A i \in 1..n : e[m + i] = c[i]
    BY Concat
  <1>2. p + Len(e) <= Len(bytes) /\ \A i \in 1..Len(e) : bytes[p + i] = e[i]
    BY DEF At
  <1> HIDE DEF e, m, n
  <1>3. p + m <= Len(bytes) /\ (p + m) + n <= Len(bytes)
    BY <1>1, <1>2
  <1>4. \A i \in 1..m : bytes[p + i] = a[i]
    <2> TAKE i \in 1..m
    <2>1. i \in 1..Len(e)
      BY <1>1
    <2> QED BY <1>1, <1>2, <2>1
  <1>5. \A i \in 1..n : bytes[(p + m) + i] = c[i]
    <2> TAKE i \in 1..n
    <2>1. m + i \in 1..Len(e) /\ (p + m) + i = p + (m + i)
      BY <1>1
    <2> QED BY <1>1, <1>2, <2>1
  <1> QED BY <1>3, <1>4, <1>5 DEF At, m, n

(* The entry of a field in its place is its key and its value. *)
LEMMA EntryIs ==
    ASSUME NEW bytes \in Seq(Byte), NEW p \in Nat, NEW e, NEW k, NEW v, IsField(e, k, v), e # <<>>,
           At(bytes, p, e)
    PROVE  /\ Entry(bytes, p + 1) = [key |-> k, value |-> v, next |-> p + Len(e) + 1]
           /\ p + 1 <= Len(bytes)
  <1> DEFINE V == Varint(bytes)
             L == Len(bytes)
  <1>1. L \in Nat
    BY LenProperties
  <1>2. ASSUME NEW rest \in Seq(Byte), e = <<k>> \o rest, k \in 1..127
        PROVE  /\ V[p + 1] = [number |-> k, next |-> p + 2]
               /\ At(bytes, p + 1, rest)
               /\ Len(e) = 1 + Len(rest) /\ Len(rest) \in Nat
               /\ p + 1 <= L
    <2>1. k \in Byte /\ k \in Nat /\ k < 128
      BY <1>2 DEF Byte
    <2>2. <<k>> \in Seq(Byte) /\ Len(<<k>>) = 1
      BY <2>1, Single
    <2>3. At(bytes, p, <<k>>) /\ At(bytes, p + 1, rest)
      BY <1>1, <1>2, <2>2, AtParts
    <2>4. VarintBytes(k) = <<k>>
      BY <2>1, VarintFirst
    <2>5. V[p + 1] = [number |-> k, next |-> p + 1 + 1]
      BY <2>1, <2>2, <2>3, <2>4, VarintDecoded DEF Decodes
    <2>6. Len(e) = 1 + Len(rest) /\ Len(rest) \in Nat
      BY <1>2, <2>2, Concat
    <2>7. p + 1 <= L
      BY <2>2, <2>3 DEF At
    <2>8. p + 1 + 1 = p + 2
      OBVIOUS
    <2> QED BY <2>3, <2>5, <2>6, <2>7, <2>8
  <1>3. ASSUME k \in 1..127, k % 8 = 0, v \in Nat, e = <<k>> \o VarintBytes(v)
        PROVE  /\ Entry(bytes, p + 1) = [key |-> k, value |-> v, next |-> p + Len(e) + 1]
               /\ p + 1 <= L
    <2>1. VarintBytes(v) \in Seq(Byte)
      BY <1>3, VarintIs
    <2> DEFINE n == Len(VarintBytes(v))
    <2>2. /\ V[p + 1] = [number |-> k, next |-> p + 2]
          /\ At(bytes, p + 1, VarintBytes(v)) /\ Len(e) = 1 + n /\ n \in Nat /\ p + 1 <= L
      BY <1>2, <1>3, <2>1
    <2>3. V[(p + 1) + 1] = [number |-> v, next |-> (p + 1) + n + 1]
      <3>1. p + 1 \in Nat
        OBVIOUS
      <3> QED BY <1>3, <2>2, <3>1, VarintDecoded DEF Decodes
    <2>4. (p + 1) + 1 = p + 2 /\ (p + 1) + n + 1 = p + Len(e) + 1
      BY <2>2
    <2>5. V[p + 1].number = k /\ V[p + 1].next = p + 2
      BY <2>2
    <2>6. V[p + 2].number = v /\ V[p + 2].next = p + Len(e) + 1
      BY <2>3, <2>4
    <2>7. PB_GET_WTYPE(k) = PB_WT_VARINT
      BY <1>3 DEF PB_GET_WTYPE, PB_WT_VARINT
    <2> HIDE DEF V
    <2>8. Entry(bytes, p + 1) = [key |-> k, value |-> v, next |-> p + Len(e) + 1]
      BY <2>5, <2>6, <2>7, Zenon DEF Entry, V
    <2> QED BY <2>2, <2>8
  <1>4. ASSUME k \in 1..127, k % 8 = 2, v \in Seq(Byte), e = <<k>> \o (VarintBytes(Len(v)) \o v)
        PROVE  /\ Entry(bytes, p + 1) = [key |-> k, value |-> v, next |-> p + Len(e) + 1]
               /\ p + 1 <= L
    <2> DEFINE m == Len(v)
               a == VarintBytes(m)
               n == Len(a)
               rest == a \o v
    <2>1. m \in Nat /\ a \in Seq(Byte) /\ n \in Nat
      BY <1>4, VarintIs, LenProperties
    <2>2. rest \in Seq(Byte) /\ Len(rest) = n + m
      BY <1>4, <2>1, Concat
    <2>3. /\ V[p + 1] = [number |-> k, next |-> p + 2]
          /\ At(bytes, p + 1, rest) /\ Len(e) = 1 + (n + m) /\ p + 1 <= L
      BY <1>2, <1>4, <2>2
    <2>4. At(bytes, p + 1, a) /\ At(bytes, (p + 1) + n, v)
      <3>1. p + 1 \in Nat
        OBVIOUS
      <3> QED BY <1>1, <1>4, <2>1, <2>3, <3>1, AtParts
    <2>5. V[(p + 1) + 1] = [number |-> m, next |-> (p + 1) + n + 1]
      <3>1. p + 1 \in Nat
        OBVIOUS
      <3> QED BY <2>1, <2>4, <3>1, VarintDecoded DEF Decodes
    <2>6. V[p + 1].number = k /\ V[p + 1].next = p + 2
      BY <2>3
    <2>7. V[p + 2].number = m /\ V[p + 2].next = p + n + 2
      <3>1. (p + 1) + 1 = p + 2 /\ (p + 1) + n + 1 = p + n + 2
        BY <2>1
      <3> QED BY <2>5, <3>1
    <2>8. PB_GET_WTYPE(k) # PB_WT_VARINT
      BY <1>4 DEF PB_GET_WTYPE, PB_WT_VARINT
    <2> DEFINE lo == p + n + 2
               hi == p + n + 1 + m
    <2>9. /\ lo + m - 1 = hi /\ hi <= L /\ hi + 1 = p + Len(e) + 1 /\ ((p + 1) + n) + 1 = lo
          /\ (p + 1) + n \in Nat /\ ((p + 1) + n) + m = hi
      <3>1. ((p + 1) + n) + m <= L
        BY <2>4 DEF At
      <3> HIDE DEF m, n, L
      <3> QED BY <1>1, <2>1, <2>3, <3>1
    <2>10. SubSeq(bytes, lo, hi) = v
      <3> DEFINE q == (p + 1) + n
      <3>1. q \in Nat /\ q + m <= Len(bytes) /\ lo = q + 1 /\ hi = q + m
        BY <2>9
      <3>2. At(bytes, q, v)
        BY <2>4
      <3> HIDE DEF q, lo, hi
      <3>3. Slices(SubSeq(bytes, lo, hi), Byte, bytes, q, m)
        BY <2>1, <3>1, Sliced
      <3> DEFINE c == SubSeq(bytes, lo, hi)
      <3> HIDE DEF c
      <3>4. c \in Seq(Byte) /\ Len(c) = m /\ \A i \in 1..m : c[i] = bytes[q + i]
        BY <3>3 DEF Slices, c
      <3>5. \A i \in 1..m : bytes[q + i] = v[i]
        BY <3>2 DEF At
      <3>6. c = v
        BY <1>4, <3>4, <3>5, SameSequence
      <3> QED BY <3>6 DEF c
    <2> HIDE DEF V, m, n, lo, hi, L
    <2> DEFINE last == IF lo + m - 1 <= Len(bytes) THEN lo + m - 1 ELSE Len(bytes)
    <2>11. last = hi
      <3>1. L = Len(bytes)
        BY DEF L
      <3> QED BY <2>9, <3>1
    <2>12. Entry(bytes, p + 1) = [key |-> k, value |-> SubSeq(bytes, lo, last), next |-> last + 1]
      <3>1. V[V[p + 1].next].next = lo /\ V[V[p + 1].next].number = m
        BY <2>6, <2>7 DEF lo
      <3> QED BY <2>6, <2>8, <3>1, Zenon DEF Entry, V
    <2> HIDE DEF last
    <2>13. Entry(bytes, p + 1) = [key |-> k, value |-> v, next |-> p + Len(e) + 1]
      BY <2>9, <2>10, <2>11, <2>12
    <2> QED BY <2>3, <2>13 DEF L
  <1>5. /\ Entry(bytes, p + 1) = [key |-> k, value |-> v, next |-> p + Len(e) + 1]
        /\ p + 1 <= L
    <2> HIDE DEF L
    <2> QED BY <1>3, <1>4 DEF IsField
  <1> QED BY <1>5

-----------------------------------------------------------------------------
(* A field in its place is found, or passed over.                          *)
LEMMA FieldRead ==
    ASSUME NEW bytes \in Seq(Byte), NEW f, NEW key, NEW default, IsReading(f, bytes, key, default),
           NEW p \in Nat, NEW e \in Seq(Byte), NEW k, NEW v, IsField(e, k, v), At(bytes, p, e)
    PROVE  /\ e # <<>> /\ k = key => f[p + 1] = v
           /\ e = <<>> \/ k # key => f[p + 1] = f[p + Len(e) + 1]
  <1>1. CASE e = <<>>
    <2>1. Len(e) = 0 /\ p + 0 + 1 = p + 1
      BY <1>1, EmptySeq
    <2> QED BY <1>1, <2>1
  <1>2. CASE e # <<>>
    <2>1. /\ Entry(bytes, p + 1) = [key |-> k, value |-> v, next |-> p + Len(e) + 1]
          /\ p + 1 <= Len(bytes)
      BY <1>2, EntryIs
    <2>2. p + 1 \in Places(bytes)
      <3>1. Len(bytes) \in Nat
        BY LenProperties
      <3> QED BY <2>1, <3>1 DEF Places
    <2> DEFINE entry == Entry(bytes, p + 1)
    <2>3. entry.key = k /\ entry.value = v /\ entry.next = p + Len(e) + 1
      BY <2>1
    <2> HIDE DEF entry
    <2>4. /\ entry.key = key => f[p + 1] = entry.value
          /\ entry.key # key => f[p + 1] = f[entry.next]
      BY <2>1, <2>2, ReadingCases DEF entry
    <2> QED BY <1>2, <2>3, <2>4
  <1> QED BY <1>1, <1>2

(* What is appended is behind what was there. *)
LEMMA AtStart ==
    ASSUME NEW b \in Seq(Byte), NEW e \in Seq(Byte)
    PROVE  At(b \o e, Len(b), e)
  <1> DEFINE c == b \o e
             m == Len(b)
             n == Len(e)
  <1>1. /\ Len(c) = m + n /\ m \in Nat /\ n \in Nat
        /\ \A i \in 1..n : c[m + i] = e[i]
    BY Concat
  <1> HIDE DEF c, m, n
  <1>2. m + n <= Len(c)
    BY <1>1
  <1> QED BY <1>1, <1>2 DEF At, c, m, n

(* What was in a place is there when more is appended. *)
LEMMA AtLonger ==
    ASSUME NEW b \in Seq(Byte), NEW e \in Seq(Byte), NEW p \in Nat, NEW a \in Seq(Byte), At(b, p, a)
    PROVE  At(b \o e, p, a)
  <1> DEFINE c == b \o e
             m == Len(b)
             n == Len(e)
             l == Len(a)
  <1>1. /\ Len(c) = m + n /\ m \in Nat /\ n \in Nat
        /\ \A i \in 1..m : c[i] = b[i]
    BY Concat
  <1>2. p + l <= m /\ l \in Nat /\ \A i \in 1..l : b[p + i] = a[i]
    BY LenProperties DEF At
  <1> HIDE DEF c, m, n, l
  <1>3. p + l <= Len(c) /\ \A i \in 1..l : p + i \in 1..m
    BY <1>1, <1>2
  <1>4. \A i \in 1..l : c[p + i] = a[i]
    BY <1>1, <1>2, <1>3
  <1> QED BY <1>3, <1>4 DEF At, c, l

(* Every field of a message stands behind those before it.                 *)
LEMMA FieldsPlaced ==
    ASSUME NEW n \in Nat, NEW es \in [1..n -> Seq(Byte)], NEW b, Prefixes(b, es, n), NEW i \in 1..n
    PROVE  At(b[n], Len(b[i - 1]), es[i])
  <1> DEFINE p == Len(b[i - 1])
             T == { d \in Nat : i + d <= n => At(b[i + d], p, es[i]) }
  <1>1. \A j \in 0..n : b[j] \in Seq(Byte)
    BY DEF Prefixes
  <1>2. p \in Nat /\ i - 1 \in 0..n /\ es[i] \in Seq(Byte) /\ b[i - 1] \in Seq(Byte)
    <2>1. i - 1 \in 0..n
      OBVIOUS
    <2>2. b[i - 1] \in Seq(Byte)
      BY <1>1, <2>1
    <2> QED BY <2>1, <2>2, LenProperties
  <1>3. 0 \in T
    <2>1. b[i] = b[i - 1] \o es[i]
      BY DEF Prefixes
    <2>2. b[i] = b[i - 1] \o es[i] /\ i + 0 = i
      BY <2>1
    <2>3. At(b[i - 1] \o es[i], p, es[i])
      BY <1>2, AtStart
    <2> HIDE DEF p
    <2> QED BY <2>2, <2>3
  <1>4. ASSUME NEW d \in Nat, d \in T
        PROVE  d + 1 \in T
    <2> SUFFICES ASSUME i + (d + 1) <= n
                 PROVE  At(b[i + (d + 1)], p, es[i])
      OBVIOUS
    <2> DEFINE j == i + d
    <2>1. j + 1 \in 1..n /\ j \in 0..n /\ i + (d + 1) = j + 1 /\ j <= n /\ (j + 1) - 1 = j
      OBVIOUS
    <2>2. At(b[j], p, es[i])
      BY <1>4, <2>1
    <2> HIDE DEF j, p
    <2>3. b[j + 1] = b[(j + 1) - 1] \o es[j + 1] /\ es[j + 1] \in Seq(Byte)
      BY <2>1 DEF Prefixes
    <2>4. b[j + 1] = b[j] \o es[j + 1] /\ b[j] \in Seq(Byte)
      BY <1>1, <2>1, <2>3
    <2>5. At(b[j] \o es[j + 1], p, es[i])
      BY <1>2, <2>2, <2>3, <2>4, AtLonger
    <2> QED BY <2>1, <2>4, <2>5
  <1>5. \A d \in Nat : d \in T
    <2> HIDE DEF T
    <2> QED BY <1>3, <1>4, UpFromZero
  <1>6. n - i \in Nat /\ i + (n - i) = n /\ n <= n
    OBVIOUS
  <1>7. n - i \in T
    BY <1>5, <1>6
  <1>8. At(b[n], p, es[i])
    <2> HIDE DEF p
    <2> QED BY <1>6, <1>7
  <1> QED BY <1>8

(* A message of fields with keys ks and values vs.                         *)
IsMessage(es, ks, vs, n) ==
    /\ es \in [1..n -> Seq(Byte)]
    /\ \A i \in 1..n : IsField(es[i], ks[i], vs[i])

(* Of a message whose fields differ in their keys, each is read as its     *)
(* value, or as its default when it is left out.                           *)
LEMMA MessageRead ==
    ASSUME NEW n \in Nat, NEW es, NEW ks, NEW vs, IsMessage(es, ks, vs, n), NEW b, Prefixes(b, es, n),
           NEW j \in 1..n, \A i \in 1..n : i # j => ks[i] # ks[j],
           NEW default, es[j] = <<>> => vs[j] = default
    PROVE  Read(b[n], ks[j], default) = vs[j]
  <1> DEFINE bytes == b[n]
             key == ks[j]
             at(i) == Len(b[i])
  <1>1. es \in [1..n -> Seq(Byte)] /\ \A i \in 1..n : IsField(es[i], ks[i], vs[i])
    BY DEF IsMessage
  <1>2. \A i \in 0..n : b[i] \in Seq(Byte) /\ at(i) \in Nat
    BY LenProperties DEF Prefixes
  <1>3. bytes \in Seq(Byte) /\ Len(bytes) = at(n)
    BY <1>2
  <1>4. PICK f : IsReading(f, bytes, key, default) /\ Read(bytes, key, default) = f[1]
    <2> HIDE DEF bytes, key
    <2> QED BY <1>3, ReadingIs
  <1> HIDE DEF key
  <1>5. ASSUME NEW i \in 1..n
        PROVE  /\ es[i] # <<>> /\ ks[i] = key => f[at(i - 1) + 1] = vs[i]
               /\ es[i] = <<>> \/ ks[i] # key => f[at(i - 1) + 1] = f[at(i) + 1]
    <2>1. At(bytes, at(i - 1), es[i]) /\ IsField(es[i], ks[i], vs[i]) /\ es[i] \in Seq(Byte)
      BY <1>1, FieldsPlaced
    <2>2. i - 1 \in 0..n /\ i \in 0..n /\ at(i - 1) \in Nat /\ b[i - 1] \in Seq(Byte)
      BY <1>2
    <2>3. at(i) = at(i - 1) + Len(es[i])
      <3>1. b[i] = b[i - 1] \o es[i]
        BY DEF Prefixes
      <3> QED BY <2>1, <2>2, <3>1, Concat
    <2> DEFINE p == at(i - 1)
               e == es[i]
               k == ks[i]
               v == vs[i]
    <2>4. p \in Nat /\ e \in Seq(Byte) /\ IsField(e, k, v) /\ At(bytes, p, e) /\ at(i) = p + Len(e)
      BY <2>1, <2>2, <2>3
    <2> HIDE DEF at, bytes, p, e, k, v
    <2>5. /\ e # <<>> /\ k = key => f[p + 1] = v
          /\ e = <<>> \/ k # key => f[p + 1] = f[p + Len(e) + 1]
      BY <1>3, <1>4, <2>4, FieldRead
    <2>6. /\ e # <<>> /\ k = key => f[p + 1] = v
          /\ e = <<>> \/ k # key => f[p + 1] = f[at(i) + 1]
      BY <2>4, <2>5
    <2> QED BY <2>6 DEF p, e, k, v
  <1>6. f[at(n) + 1] = default
    <2>1. Len(bytes) + 1 \in Places(bytes)
      <3>1. Len(bytes) \in Nat
        BY <1>2, <1>3
      <3> HIDE DEF bytes
      <3> QED BY <3>1 DEF Places
    <2> HIDE DEF bytes, at
    <2> QED BY <1>3, <1>4, <2>1, ReadingCases
  <1> DEFINE T == { d \in Nat : d <= n => f[at(n - d) + 1] = IF n - d < j THEN vs[j] ELSE default }
  <1>7. 0 \in T
    <2>1. n - 0 = n /\ ~ (n < j)
      OBVIOUS
    <2> HIDE DEF at
    <2> QED BY <1>6, <2>1
  <1>8. ASSUME NEW d \in Nat, d \in T
        PROVE  d + 1 \in T
    <2> SUFFICES ASSUME d + 1 <= n
                 PROVE  f[at(n - (d + 1)) + 1] = IF n - (d + 1) < j THEN vs[j] ELSE default
      OBVIOUS
    <2> DEFINE i == n - d
    <2>1. i \in 1..n /\ n - (d + 1) = i - 1 /\ d <= n
      OBVIOUS
    <2> HIDE DEF at, bytes
    <2>2. f[at(i) + 1] = IF i < j THEN vs[j] ELSE default
      BY <1>8, <2>1
    <2> HIDE DEF i
    <2>3. /\ es[i] # <<>> /\ ks[i] = key => f[at(i - 1) + 1] = vs[i]
          /\ es[i] = <<>> \/ ks[i] # key => f[at(i - 1) + 1] = f[at(i) + 1]
      BY <1>5, <2>1
    <2>4. CASE i = j
      <3>1. ks[i] = key /\ ~ (i < j) /\ i - 1 < j
        BY <2>1, <2>4 DEF key
      <3>2. f[at(i - 1) + 1] = vs[j]
        BY <2>2, <2>3, <2>4, <3>1
      <3> QED BY <2>1, <3>1, <3>2
    <2>5. CASE i # j
      <3>1. ks[i] # key /\ (i < j <=> i - 1 < j)
        BY <2>1, <2>5 DEF key
      <3> QED BY <2>1, <2>2, <2>3, <3>1
    <2> QED BY <2>4, <2>5
  <1>9. \A d \in Nat : d \in T
    <2> HIDE DEF T
    <2> QED BY <1>7, <1>8, UpFromZero
  <1>10. f[at(0) + 1] = vs[j]
    <2>1. n - n = 0 /\ n <= n /\ 0 < j
      OBVIOUS
    <2>2. n \in T
      <3> HIDE DEF T
      <3> QED BY <1>9
    <2> HIDE DEF at
    <2> QED BY <2>1, <2>2
  <1>11. at(0) = 0
    BY EmptySeq DEF Prefixes
  <1>12. f[1] = vs[j]
    <2> HIDE DEF at
    <2> QED BY <1>10, <1>11
  <1> QED BY <1>4, <1>12 DEF key

-----------------------------------------------------------------------------
(* A number's bytes are those of its quotients.                            *)
LEMMA Quotient ==
    ASSUME NEW n \in Nat
    PROVE  /\ n \div 256 \in Nat /\ n \div 256 <= n /\ n % 256 \in Byte
           /\ n = 256 * (n \div 256) + (n % 256)
           /\ \A m \in Nat : m <= n => m \div 256 <= n \div 256
  <1>1. n \div 256 \in Nat /\ n \div 256 <= n /\ n % 256 \in 0..255 /\ n = 256 * (n \div 256) + (n % 256)
    OBVIOUS
  <1>2. ASSUME NEW m \in Nat, m <= n
        PROVE  m \div 256 <= n \div 256
    BY <1>2
  <1> QED BY <1>1, <1>2 DEF Byte

(* Left is what its recursion says: each place has the quotient of the     *)
(* next.                                                                   *)
LEMMA LeftIs ==
    ASSUME NEW n \in Nat
    PROVE  /\ Left(n)[32] = n
           /\ \A i \in 0..32 : Left(n)[i] \in Nat /\ Left(n)[i] <= n
           /\ \A i \in 0..31 : Left(n)[i] = Left(n)[i + 1] \div 256
  <1> DEFINE next == [k \in 1..32 |-> [x \in Nat |-> x \div 256]]
  <1>1. next \in [1..32 -> [Nat -> Nat]]
    BY Quotient
  <1>2. HasLoop(Nat, 32, n, next)
    <2> HIDE DEF next
    <2> QED BY <1>1, LoopExists
  <1>3. PICK f \in [0..32 -> Nat] : IsLoop(f, 32, n, next)
    BY <1>2 DEF HasLoop
  <1>4. f = [k \in 0..32 |-> IF k = 0 THEN n ELSE next[k][f[k - 1]]]
    BY <1>3 DEF IsLoop
  <1> DEFINE g == [i \in 0..32 |-> f[32 - i]]
             Body(h, i) == IF i = 32 THEN n ELSE h[i + 1] \div 256
  <1>5. ASSUME NEW i \in 0..32
        PROVE  g[i] = Body(g, i)
    <2> DEFINE k == 32 - i
    <2>1. k \in 0..32 /\ g[i] = f[k] /\ f[k] = IF k = 0 THEN n ELSE next[k][f[k - 1]]
      <3>1. k \in 0..32
        OBVIOUS
      <3> HIDE DEF next
      <3> QED BY <1>4, <3>1
    <2>2. CASE i = 32
      <3>1. k = 0
        BY <2>2
      <3> HIDE DEF next, g
      <3> QED BY <2>1, <2>2, <3>1
    <2>3. CASE i # 32
      <3>1. k # 0 /\ k \in 1..32 /\ k - 1 \in 0..32 /\ i + 1 \in 0..32 /\ 32 - (i + 1) = k - 1
        BY <2>3
      <3>2. f[k - 1] \in Nat /\ g[i + 1] = f[k - 1]
        BY <3>1
      <3>3. next[k][f[k - 1]] = f[k - 1] \div 256
        <4> HIDE DEF k
        <4> QED BY <3>1, <3>2
      <3> HIDE DEF next, g, k
      <3> QED BY <2>1, <2>3, <3>1, <3>2, <3>3
    <2> QED BY <2>2, <2>3
  <1>6. g = [i \in 0..32 |-> Body(g, i)]
    <2>1. g = [i \in 0..32 |-> g[i]]
      OBVIOUS
    <2> HIDE DEF g, Body
    <2> QED BY <1>5, <2>1
  <1>7. Left(n) = CHOOSE h : h = [i \in 0..32 |-> Body(h, i)]
    BY DEF Left
  <1>8. Left(n) = [i \in 0..32 |-> Body(Left(n), i)]
    <2> HIDE DEF g, Body
    <2> QED BY <1>6, <1>7, Zenon
  <1> DEFINE L == Left(n)
  <1>9. \A i \in 0..32 : L[i] = IF i = 32 THEN n ELSE L[i + 1] \div 256
    BY <1>8
  <1> HIDE DEF L
  <1>10. L[32] = n /\ \A i \in 0..31 : L[i] = L[i + 1] \div 256
    <2>1. 32 \in 0..32
      OBVIOUS
    <2>2. \A i \in 0..31 : i \in 0..32 /\ i # 32
      OBVIOUS
    <2> QED BY <1>9, <2>1, <2>2
  <1> DEFINE T == { d \in Nat : d <= 32 => L[32 - d] \in Nat /\ L[32 - d] <= n }
  <1>11. 0 \in T
    BY <1>10
  <1>12. ASSUME NEW d \in Nat, d \in T
         PROVE  d + 1 \in T
    <2> SUFFICES ASSUME d + 1 <= 32
                 PROVE  L[32 - (d + 1)] \in Nat /\ L[32 - (d + 1)] <= n
      OBVIOUS
    <2>1. 32 - (d + 1) \in 0..31 /\ (32 - (d + 1)) + 1 = 32 - d /\ d <= 32
      OBVIOUS
    <2> DEFINE x == L[32 - d]
    <2>2. x \in Nat /\ x <= n
      BY <1>12, <2>1
    <2>3. L[32 - (d + 1)] = x \div 256
      BY <1>10, <2>1
    <2> HIDE DEF x
    <2>4. x \div 256 \in Nat /\ x \div 256 <= x
      BY <2>2, Quotient
    <2> QED BY <2>2, <2>3, <2>4
  <1>13. \A d \in Nat : d \in T
    <2> HIDE DEF T
    <2> QED BY <1>11, <1>12, UpFromZero
  <1>14. ASSUME NEW i \in 0..32
         PROVE  L[i] \in Nat /\ L[i] <= n
    <2>1. 32 - i \in Nat /\ 32 - (32 - i) = i /\ 32 - i <= 32
      OBVIOUS
    <2>2. 32 - i \in T
      BY <1>13, <2>1
    <2> QED BY <2>1, <2>2
  <1> QED BY <1>10, <1>14 DEF L

(* A smaller number has smaller quotients.                                 *)
LEMMA LeftSmaller ==
    ASSUME NEW m \in Nat, NEW n \in Nat, m <= n
    PROVE  \A i \in 0..32 : Left(m)[i] <= Left(n)[i]
  <1> DEFINE f == Left(m)
             g == Left(n)
             T == { d \in Nat : d <= 32 => f[32 - d] <= g[32 - d] }
  <1>1. /\ f[32] = m /\ (\A i \in 0..32 : f[i] \in Nat) /\ \A i \in 0..31 : f[i] = f[i + 1] \div 256
        /\ g[32] = n /\ (\A i \in 0..32 : g[i] \in Nat) /\ \A i \in 0..31 : g[i] = g[i + 1] \div 256
    BY LeftIs
  <1> HIDE DEF f, g
  <1>2. 0 \in T
    BY <1>1
  <1>3. ASSUME NEW d \in Nat, d \in T
        PROVE  d + 1 \in T
    <2> SUFFICES ASSUME d + 1 <= 32
                 PROVE  f[32 - (d + 1)] <= g[32 - (d + 1)]
      OBVIOUS
    <2>1. 32 - (d + 1) \in 0..31 /\ (32 - (d + 1)) + 1 = 32 - d /\ d <= 32 /\ 32 - d \in 0..32
      OBVIOUS
    <2> DEFINE x == f[32 - d]
               y == g[32 - d]
    <2>2. x \in Nat /\ y \in Nat /\ x <= y
      BY <1>1, <1>3, <2>1
    <2>3. f[32 - (d + 1)] = x \div 256 /\ g[32 - (d + 1)] = y \div 256
      BY <1>1, <2>1
    <2> HIDE DEF x, y
    <2> QED BY <2>2, <2>3, Quotient
  <1>4. \A d \in Nat : d \in T
    <2> HIDE DEF T
    <2> QED BY <1>2, <1>3, UpFromZero
  <1>5. ASSUME NEW i \in 0..32
        PROVE  f[i] <= g[i]
    <2>1. 32 - i \in Nat /\ 32 - (32 - i) = i /\ 32 - i <= 32
      OBVIOUS
    <2>2. 32 - i \in T
      BY <1>4, <2>1
    <2> QED BY <2>1, <2>2
  <1> QED BY <1>5 DEF f, g

(* A function from 1 to n is a sequence. *)
LEMMA FunctionIsSeq ==
    ASSUME NEW S, NEW n \in Nat, NEW w \in [1..n -> S]
    PROVE  w \in Seq(S) /\ Len(w) = n
  OBVIOUS

(* 32 bytes hold every number up to WordMax.                               *)
LEMMA WordIs ==
    ASSUME NEW n \in Nat
    PROVE  /\ Word32(n) \in Seq(Byte) /\ Len(Word32(n)) = 32
           /\ \A i \in 1..32 : Word32(n)[i] = Left(n)[i] % 256
  <1>1. \A i \in 1..32 : Left(n)[i] % 256 \in Byte
    <2> TAKE i \in 1..32
    <2>1. i \in 0..32
      OBVIOUS
    <2>2. Left(n)[i] \in Nat
      BY <2>1, LeftIs
    <2> QED BY <2>2, Quotient
  <1>2. Word32(n) = [i \in 1..32 |-> Left(n)[i] % 256]
    BY Zenon DEF Word32
  <1> DEFINE w == Word32(n)
  <1> HIDE DEF w
  <1>3. w = [i \in 1..32 |-> Left(n)[i] % 256]
    BY <1>2 DEF w
  <1>4. w \in [1..32 -> Byte] /\ \A i \in 1..32 : w[i] = Left(n)[i] % 256
    BY <1>1, <1>3
  <1>5. w \in Seq(Byte) /\ Len(w) = 32
    <2>1. 32 \in Nat /\ w \in [1..32 -> Byte]
      BY <1>4
    <2> QED BY ONLY <2>1, FunctionIsSeq
  <1> QED BY <1>4, <1>5 DEF w

NumberBody(f, bytes, k) == IF k = 0 THEN 0 ELSE (256 * f[k - 1] + bytes[k]) % (WordMax + 1)

(* A number written by bn_write_be is read back by bn_read_be              *)
(* (bignum.c:81-116).                                                      *)
LEMMA WordRead ==
    ASSUME NEW n \in 0..WordMax
    PROVE  NumberOf(Word32(n)) = n
  <1> DEFINE bytes == Word32(n)
             next == [k \in 1..32 |-> [x \in Nat |-> (256 * x + bytes[k]) % (WordMax + 1)]]
             L == Left(n)
  <1>1. WordMax \in Nat /\ n \in Nat /\ n <= WordMax
    BY EcdsaAssumption
  <1>2. bytes \in Seq(Byte) /\ Len(bytes) = 32 /\ \A i \in 1..32 : bytes[i] = L[i] % 256 /\ bytes[i] \in Nat
    <2>1. bytes \in Seq(Byte) /\ Len(bytes) = 32 /\ \A i \in 1..32 : bytes[i] = L[i] % 256
      BY <1>1, WordIs
    <2>2. \A i \in 1..32 : bytes[i] \in Byte
      BY <2>1, ElementOfSeq
    <2> QED BY <2>1, <2>2, ByteCases
  <1>3. /\ L[32] = n /\ \A i \in 0..32 : L[i] \in Nat /\ L[i] <= n
        /\ \A i \in 0..31 : L[i] = L[i + 1] \div 256
    BY <1>1, LeftIs
  <1>4. L[0] = 0
    <2>1. L[0] <= Left(WordMax)[0]
      <3>1. 0 \in 0..32
        OBVIOUS
      <3> QED BY <1>1, <3>1, LeftSmaller
    <2>2. L[0] \in Nat
      BY <1>3
    <2>3. Left(WordMax)[0] = 0
      BY CallsAssumption
    <2> QED BY <2>1, <2>2, <2>3
  <1> HIDE DEF bytes, L
  <1>5. next \in [1..32 -> [Nat -> Nat]]
    <2>1. ASSUME NEW k \in 1..32, NEW x \in Nat
          PROVE  (256 * x + bytes[k]) % (WordMax + 1) \in Nat
      <3>1. WordMax + 1 \in Nat \ {0}
        BY <1>1
      <3>2. bytes[k] \in Nat /\ WordMax + 1 \in Nat \ {0}
        BY <1>2, <3>1
      <3>3. \A y, m \in Nat : m # 0 => (256 * x + y) % m \in Nat
        OBVIOUS
      <3> QED BY <3>2, <3>3
    <2> QED BY <2>1
  <1>6. HasLoop(Nat, 32, 0, next)
    <2> HIDE DEF next
    <2> QED BY <1>5, LoopExists
  <1>7. PICK f \in [0..32 -> Nat] : IsLoop(f, 32, 0, next)
    BY <1>6 DEF HasLoop
  <1>8. f = [k \in 0..32 |-> IF k = 0 THEN 0 ELSE next[k][f[k - 1]]]
    BY <1>7 DEF IsLoop
  <1>9. f = [k \in 0..32 |-> NumberBody(f, bytes, k)]
    <2>1. ASSUME NEW k \in 0..32
          PROVE  (IF k = 0 THEN 0 ELSE next[k][f[k - 1]]) = NumberBody(f, bytes, k)
      <3>1. CASE k = 0
        BY <3>1, Zenon DEF NumberBody
      <3>2. CASE k # 0
        <4>1. k \in 1..32 /\ k - 1 \in 0..32
          BY <3>2
        <4>2. f[k - 1] \in Nat
          BY <4>1
        <4>3. next[k][f[k - 1]] = (256 * f[k - 1] + bytes[k]) % (WordMax + 1)
          BY <4>1, <4>2
        <4> HIDE DEF next
        <4> QED BY <3>2, <4>3, Zenon DEF NumberBody
      <3> QED BY <3>1, <3>2
    <2> HIDE DEF next
    <2> QED BY <1>8, <2>1
  <1> DEFINE g == CHOOSE h : h = [k \in 0..32 |-> NumberBody(h, bytes, k)]
  <1>10. NumberOf(bytes) = (CHOOSE h : h = [k \in 0..Len(bytes) |-> NumberBody(h, bytes, k)])[Len(bytes)]
    BY DEF NumberOf, NumberBody
  <1>11. NumberOf(bytes) = g[32]
    BY <1>2, <1>10
  <1>12. g = [k \in 0..32 |-> NumberBody(g, bytes, k)]
    BY <1>9, Zenon
  <1> HIDE DEF g
  <1>13. \A k \in 0..32 : g[k] = NumberBody(g, bytes, k)
    BY <1>12, Zenon
  <1> DEFINE T == { k \in Nat : k <= 32 => g[k] = L[k] }
  <1>14. 0 \in T
    <2>1. NumberBody(g, bytes, 0) = 0
      BY Zenon DEF NumberBody
    <2>2. g[0] = NumberBody(g, bytes, 0)
      BY <1>13
    <2> QED BY <1>4, <2>1, <2>2
  <1>15. ASSUME NEW k \in Nat, k \in T
         PROVE  k + 1 \in T
    <2> SUFFICES ASSUME k + 1 <= 32
                 PROVE  g[k + 1] = L[k + 1]
      OBVIOUS
    <2>1. k \in 0..31 /\ k + 1 \in 1..32 /\ k + 1 \in 0..32 /\ k + 1 # 0 /\ (k + 1) - 1 = k /\ k <= 32
      OBVIOUS
    <2>2. g[k + 1] = (256 * g[(k + 1) - 1] + bytes[k + 1]) % (WordMax + 1)
      <3>1. NumberBody(g, bytes, k + 1) = (256 * g[(k + 1) - 1] + bytes[k + 1]) % (WordMax + 1)
        BY <2>1, Zenon DEF NumberBody
      <3> QED BY <1>13, <2>1, <3>1
    <2>3. g[k] = L[k]
      BY <1>15, <2>1
    <2> DEFINE x == L[k + 1]
    <2>4. x \in Nat /\ x <= n /\ L[k] = x \div 256 /\ bytes[k + 1] = x % 256
      BY <1>2, <1>3, <2>1, ZenonT(30)
    <2>5. g[k + 1] = (256 * (x \div 256) + (x % 256)) % (WordMax + 1)
      BY <2>1, <2>2, <2>3, <2>4
    <2> HIDE DEF x
    <2>6. 256 * (x \div 256) + (x % 256) = x
      BY <2>4, Quotient
    <2>7. x % (WordMax + 1) = x
      BY <1>1, <2>4
    <2> QED BY <2>5, <2>6, <2>7 DEF x
  <1>16. \A k \in Nat : k \in T
    <2> HIDE DEF T
    <2> QED BY <1>14, <1>15, UpFromZero
  <1>17. g[32] = L[32]
    BY <1>16
  <1> QED BY <1>3, <1>11, <1>17 DEF bytes

-----------------------------------------------------------------------------
(* Messages of three and of six items.                                     *)
Message3(e1, e2, e3) == ((<<>> \o e1) \o e2) \o e3

Message6(e1, e2, e3, e4, e5, e6) == (((Message3(e1, e2, e3)) \o e4) \o e5) \o e6

Prefixes3(e1, e2, e3) ==
    [i \in 0..3 |-> CASE i = 0 -> <<>>
                      [] i = 1 -> <<>> \o e1
                      [] i = 2 -> (<<>> \o e1) \o e2
                      [] i = 3 -> Message3(e1, e2, e3)]

Ends(b, es, n, m, length) ==
    Prefixes(b, es, n) /\ b[n] = m /\ m \in Seq(Byte) /\ Len(m) = length

(* The prefixes of a message of three fields. *)
LEMMA ThreePrefixes ==
    ASSUME NEW e1 \in Seq(Byte), NEW e2 \in Seq(Byte), NEW e3 \in Seq(Byte)
    PROVE  Ends(Prefixes3(e1, e2, e3), <<e1, e2, e3>>, 3, Message3(e1, e2, e3),
                Len(e1) + Len(e2) + Len(e3))
  <1> DEFINE a == <<>> \o e1
             b == a \o e2
             c == b \o e3
             f == Prefixes3(e1, e2, e3)
  <1>1. <<>> \in Seq(Byte) /\ Len(<<>>) = 0
    BY EmptySeq
  <1>2. a \in Seq(Byte) /\ Len(a) = 0 + Len(e1)
    BY <1>1, Concat
  <1>3. b \in Seq(Byte) /\ Len(b) = Len(a) + Len(e2)
    BY <1>2, Concat
  <1>4. c \in Seq(Byte) /\ Len(c) = Len(b) + Len(e3)
    BY <1>3, Concat
  <1>5. Message3(e1, e2, e3) = c
    BY DEF Message3
  <1>6. Len(e1) \in Nat /\ Len(e2) \in Nat /\ Len(e3) \in Nat
    BY LenProperties
  <1> HIDE DEF a, b, c
  <1>7. f = [i \in 0..3 |-> CASE i = 0 -> <<>> [] i = 1 -> a [] i = 2 -> b [] i = 3 -> c]
    BY <1>5 DEF Prefixes3, a, b
  <1> HIDE DEF f
  <1>8. f[0] = <<>> /\ f[1] = a /\ f[2] = b /\ f[3] = c
    BY <1>7
  <1>9. f \in [0..3 -> Seq(Byte)]
    <2>1. \A i \in 0..3 : i = 0 \/ i = 1 \/ i = 2 \/ i = 3
      OBVIOUS
    <2>2. \A i \in 0..3 : f[i] \in Seq(Byte)
      BY <1>1, <1>2, <1>3, <1>4, <1>8, <2>1
    <2>3. f = [i \in 0..3 |-> f[i]]
      BY <1>7
    <2> QED BY <2>2, <2>3
  <1>10. a = <<>> \o e1 /\ b = a \o e2 /\ c = b \o e3
    BY DEF a, b, c
  <1> DEFINE es == <<e1, e2, e3>>
  <1>11. es[1] = e1 /\ es[2] = e2 /\ es[3] = e3
    OBVIOUS
  <1> HIDE DEF es
  <1>12. \A i \in 1..3 : f[i] = f[i - 1] \o es[i]
    <2>1. \A i \in 1..3 : i = 1 \/ i = 2 \/ i = 3
      OBVIOUS
    <2>2. f[1] = f[0] \o es[1] /\ f[2] = f[1] \o es[2] /\ f[3] = f[2] \o es[3]
      BY <1>8, <1>10, <1>11, Zenon
    <2>3. 1 - 1 = 0 /\ 2 - 1 = 1 /\ 3 - 1 = 2
      OBVIOUS
    <2> QED BY <2>1, <2>2, <2>3
  <1>13. Prefixes(f, es, 3)
    BY <1>8, <1>9, <1>12 DEF Prefixes
  <1>14. Len(c) = Len(e1) + Len(e2) + Len(e3)
    BY <1>2, <1>3, <1>4, <1>6
  <1>15. Ends(f, es, 3, c, Len(e1) + Len(e2) + Len(e3))
    BY <1>4, <1>8, <1>13, <1>14 DEF Ends
  <1> QED BY <1>5, <1>15, Zenon DEF f, es

Prefixes6(e1, e2, e3, e4, e5, e6) ==
    [i \in 0..6 |-> CASE i \in 0..3 -> Prefixes3(e1, e2, e3)[i]
                      [] i = 4 -> Message3(e1, e2, e3) \o e4
                      [] i = 5 -> (Message3(e1, e2, e3) \o e4) \o e5
                      [] i = 6 -> Message6(e1, e2, e3, e4, e5, e6)]

(* The prefixes of a message of six fields. *)
LEMMA SixPrefixes ==
    ASSUME NEW e1 \in Seq(Byte), NEW e2 \in Seq(Byte), NEW e3 \in Seq(Byte),
           NEW e4 \in Seq(Byte), NEW e5 \in Seq(Byte), NEW e6 \in Seq(Byte)
    PROVE  Ends(Prefixes6(e1, e2, e3, e4, e5, e6), <<e1, e2, e3, e4, e5, e6>>, 6,
                Message6(e1, e2, e3, e4, e5, e6),
                Len(e1) + Len(e2) + Len(e3) + Len(e4) + Len(e5) + Len(e6))
  <1> DEFINE m == Message3(e1, e2, e3)
             a == m \o e4
             b == a \o e5
             c == b \o e6
             g == Prefixes3(e1, e2, e3)
             f == Prefixes6(e1, e2, e3, e4, e5, e6)
             es == <<e1, e2, e3, e4, e5, e6>>
  <1>1. /\ Prefixes(g, <<e1, e2, e3>>, 3) /\ g[3] = m /\ m \in Seq(Byte)
        /\ Len(m) = Len(e1) + Len(e2) + Len(e3)
    BY ThreePrefixes, ZenonT(30) DEF Ends
  <1> HIDE DEF m, g
  <1>2. a \in Seq(Byte) /\ Len(a) = Len(m) + Len(e4)
    <2>1. m \in Seq(Byte)
      BY <1>1
    <2> QED BY ONLY <2>1, Concat, e4 \in Seq(Byte)
  <1>3. b \in Seq(Byte) /\ Len(b) = Len(a) + Len(e5)
    BY <1>2, Concat
  <1>4. c \in Seq(Byte) /\ Len(c) = Len(b) + Len(e6)
    BY <1>3, Concat
  <1>5. Message6(e1, e2, e3, e4, e5, e6) = c
    BY DEF Message6, m
  <1>6. /\ Len(e1) \in Nat /\ Len(e2) \in Nat /\ Len(e3) \in Nat
        /\ Len(e4) \in Nat /\ Len(e5) \in Nat /\ Len(e6) \in Nat
    BY LenProperties
  <1>7. a = m \o e4 /\ b = a \o e5 /\ c = b \o e6
    OBVIOUS
  <1> HIDE DEF a, b, c
  <1>8. f = [i \in 0..6 |-> CASE i \in 0..3 -> g[i] [] i = 4 -> a [] i = 5 -> b [] i = 6 -> c]
    BY <1>5 DEF Prefixes6, a, b, g, m
  <1> HIDE DEF f
  <1>9. f[0] = g[0] /\ f[1] = g[1] /\ f[2] = g[2] /\ f[3] = g[3] /\ f[4] = a /\ f[5] = b /\ f[6] = c
    BY <1>8
  <1>10. /\ g[0] = <<>> /\ g[1] \in Seq(Byte) /\ g[2] \in Seq(Byte) /\ <<>> \in Seq(Byte)
         /\ g[1] = g[0] \o e1 /\ g[2] = g[1] \o e2 /\ g[3] = g[2] \o e3
    <2> DEFINE t == <<e1, e2, e3>>
    <2>1. t[1] = e1 /\ t[2] = e2 /\ t[3] = e3
      OBVIOUS
    <2> HIDE DEF t
    <2>2. /\ g \in [0..3 -> Seq(Byte)] /\ g[0] = <<>>
          /\ \A i \in 1..3 : g[i] = g[i - 1] \o t[i]
      BY <1>1 DEF Prefixes, t
    <2>3. /\ 1 \in 1..3 /\ 2 \in 1..3 /\ 3 \in 1..3
          /\ 1 - 1 = 0 /\ 2 - 1 = 1 /\ 3 - 1 = 2
      OBVIOUS
    <2>4. g[1] = g[0] \o t[1] /\ g[2] = g[1] \o t[2] /\ g[3] = g[2] \o t[3]
      BY <2>2, <2>3, Zenon
    <2>5. g[1] \in Seq(Byte) /\ g[2] \in Seq(Byte)
      BY <2>2
    <2> QED BY <2>1, <2>2, <2>4, <2>5, EmptySeq, Zenon
  <1>11. \A i \in 0..6 : i = 0 \/ i = 1 \/ i = 2 \/ i = 3 \/ i = 4 \/ i = 5 \/ i = 6
    OBVIOUS
  <1>12. f \in [0..6 -> Seq(Byte)]
    <2>1. \A i \in 0..6 : f[i] \in Seq(Byte)
      BY <1>1, <1>2, <1>3, <1>4, <1>9, <1>10, <1>11
    <2>2. f = [i \in 0..6 |-> f[i]]
      BY <1>8
    <2> QED BY <2>1, <2>2
  <1>13. es[1] = e1 /\ es[2] = e2 /\ es[3] = e3 /\ es[4] = e4 /\ es[5] = e5 /\ es[6] = e6
    OBVIOUS
  <1> HIDE DEF es
  <1>14. \A i \in 1..6 : f[i] = f[i - 1] \o es[i]
    <2>1. \A i \in 1..6 : i = 1 \/ i = 2 \/ i = 3 \/ i = 4 \/ i = 5 \/ i = 6
      OBVIOUS
    <2>2. /\ f[1] = f[0] \o es[1] /\ f[2] = f[1] \o es[2] /\ f[3] = f[2] \o es[3]
          /\ f[4] = f[3] \o es[4] /\ f[5] = f[4] \o es[5] /\ f[6] = f[5] \o es[6]
      BY <1>1, <1>7, <1>9, <1>10, <1>13
    <2>3. 1 - 1 = 0 /\ 2 - 1 = 1 /\ 3 - 1 = 2 /\ 4 - 1 = 3 /\ 5 - 1 = 4 /\ 6 - 1 = 5
      OBVIOUS
    <2> QED BY <2>1, <2>2, <2>3
  <1>15. Prefixes(f, es, 6)
    BY <1>9, <1>10, <1>12, <1>14 DEF Prefixes
  <1>16. Len(c) = Len(e1) + Len(e2) + Len(e3) + Len(e4) + Len(e5) + Len(e6)
    BY <1>1, <1>2, <1>3, <1>4, <1>6
  <1>17. Ends(f, es, 6, c, Len(e1) + Len(e2) + Len(e3) + Len(e4) + Len(e5) + Len(e6))
    BY <1>4, <1>9, <1>15, <1>16 DEF Ends
  <1> QED BY <1>5, <1>17, Zenon DEF f, es

(* Three items are packed as their three fields. *)
LEMMA ThreePack ==
    ASSUME NEW m1, NEW m2, NEW m3, NEW e1, NEW e2, NEW e3, Puts(m1, e1), Puts(m2, e2), Puts(m3, e3)
    PROVE  PacksTo(<<m1, m2, m3>>, Message3(e1, e2, e3))
  <1> DEFINE message == <<m1, m2, m3>>
             es == <<e1, e2, e3>>
             b == Prefixes3(e1, e2, e3)
  <1>1. e1 \in Seq(Byte) /\ e2 \in Seq(Byte) /\ e3 \in Seq(Byte)
    BY DEF Puts
  <1>2. Prefixes(b, es, 3) /\ b[3] = Message3(e1, e2, e3)
    BY <1>1, ThreePrefixes, Zenon DEF Ends
  <1>3. Len(message) = 3
    OBVIOUS
  <1>4. /\ message[1] = m1 /\ message[2] = m2 /\ message[3] = m3
        /\ es[1] = e1 /\ es[2] = e2 /\ es[3] = e3
    OBVIOUS
  <1> HIDE DEF message, es, b
  <1>5. \A i \in 1..3 : Puts(message[i], es[i])
    <2>1. \A i \in 1..3 : i = 1 \/ i = 2 \/ i = 3
      OBVIOUS
    <2> QED BY <1>4, <2>1
  <1>6. PacksTo(message, b[3])
    BY <1>2, <1>3, <1>5, MessagePacks
  <1> QED BY <1>2, <1>6 DEF message

(* Six items are packed as their six fields. *)
LEMMA SixPack ==
    ASSUME NEW m1, NEW m2, NEW m3, NEW m4, NEW m5, NEW m6,
           NEW e1, NEW e2, NEW e3, NEW e4, NEW e5, NEW e6,
           Puts(m1, e1), Puts(m2, e2), Puts(m3, e3), Puts(m4, e4), Puts(m5, e5), Puts(m6, e6)
    PROVE  PacksTo(<<m1, m2, m3, m4, m5, m6>>, Message6(e1, e2, e3, e4, e5, e6))
  <1> DEFINE message == <<m1, m2, m3, m4, m5, m6>>
             es == <<e1, e2, e3, e4, e5, e6>>
             b == Prefixes6(e1, e2, e3, e4, e5, e6)
  <1>1. /\ e1 \in Seq(Byte) /\ e2 \in Seq(Byte) /\ e3 \in Seq(Byte)
        /\ e4 \in Seq(Byte) /\ e5 \in Seq(Byte) /\ e6 \in Seq(Byte)
    BY DEF Puts
  <1>2. Prefixes(b, es, 6) /\ b[6] = Message6(e1, e2, e3, e4, e5, e6)
    <2>1. Ends(b, es, 6, Message6(e1, e2, e3, e4, e5, e6),
               Len(e1) + Len(e2) + Len(e3) + Len(e4) + Len(e5) + Len(e6))
      BY <1>1, SixPrefixes
    <2> QED BY <2>1, Zenon DEF Ends
  <1>3. Len(message) = 6
    OBVIOUS
  <1>4. /\ message[1] = m1 /\ message[2] = m2 /\ message[3] = m3
        /\ message[4] = m4 /\ message[5] = m5 /\ message[6] = m6
        /\ es[1] = e1 /\ es[2] = e2 /\ es[3] = e3 /\ es[4] = e4 /\ es[5] = e5 /\ es[6] = e6
    OBVIOUS
  <1> HIDE DEF message, es, b
  <1>5. \A i \in 1..6 : Puts(message[i], es[i])
    <2>1. \A i \in 1..6 : i = 1 \/ i = 2 \/ i = 3 \/ i = 4 \/ i = 5 \/ i = 6
      OBVIOUS
    <2> QED BY <1>4, <2>1
  <1>6. PacksTo(message, b[6])
    BY <1>2, <1>3, <1>5, MessagePacks
  <1> QED BY <1>2, <1>6 DEF message

(* A field, and what it is read as when it is left out.                    *)
Reads(e, k, v, default) == e \in Seq(Byte) /\ IsField(e, k, v) /\ (e = <<>> => v = default)

IsSought(n, b, es, ks, vs, j, default) ==
    /\ IsMessage(es, ks, vs, n) /\ Prefixes(b, es, n)
    /\ j \in 1..n /\ \A i \in 1..n : i # j => ks[i] # ks[j]
    /\ es[j] = <<>> => vs[j] = default

(* A field that is sought is read. *)
LEMMA SoughtIsRead ==
    ASSUME NEW n \in Nat, NEW b, NEW es, NEW ks, NEW vs, NEW j, NEW default,
           IsSought(n, b, es, ks, vs, j, default)
    PROVE  Read(b[n], ks[j], default) = vs[j]
  <1>1. IsMessage(es, ks, vs, n) /\ Prefixes(b, es, n)
    BY DEF IsSought
  <1>2. j \in 1..n /\ \A i \in 1..n : i # j => ks[i] # ks[j]
    BY DEF IsSought
  <1>3. es[j] = <<>> => vs[j] = default
    BY DEF IsSought
  <1> QED BY <1>1, <1>2, <1>3, MessageRead

(* Each of three fields is read. *)
LEMMA ThreeRead ==
    ASSUME NEW e1, NEW e2, NEW e3, NEW k1, NEW k2, NEW k3, NEW v1, NEW v2, NEW v3,
           NEW d1, NEW d2, NEW d3, Reads(e1, k1, v1, d1), Reads(e2, k2, v2, d2), Reads(e3, k3, v3, d3),
           k1 # k2, k1 # k3, k2 # k3
    PROVE  /\ Read(Message3(e1, e2, e3), k1, d1) = v1
           /\ Read(Message3(e1, e2, e3), k2, d2) = v2
           /\ Read(Message3(e1, e2, e3), k3, d3) = v3
  <1> DEFINE es == <<e1, e2, e3>>
             ks == <<k1, k2, k3>>
             vs == <<v1, v2, v3>>
             b == Prefixes3(e1, e2, e3)
             all == Message3(e1, e2, e3)
  <1>1. /\ e1 \in Seq(Byte) /\ e2 \in Seq(Byte) /\ e3 \in Seq(Byte)
        /\ IsField(e1, k1, v1) /\ IsField(e2, k2, v2) /\ IsField(e3, k3, v3)
        /\ (e1 = <<>> => v1 = d1) /\ (e2 = <<>> => v2 = d2) /\ (e3 = <<>> => v3 = d3)
    BY DEF Reads
  <1>2. Prefixes(b, es, 3) /\ b[3] = all
    BY <1>1, ThreePrefixes, Zenon DEF Ends
  <1>3. es \in [1..3 -> Seq(Byte)]
    BY <1>1
  <1>4. /\ es[1] = e1 /\ es[2] = e2 /\ es[3] = e3
        /\ ks[1] = k1 /\ ks[2] = k2 /\ ks[3] = k3
        /\ vs[1] = v1 /\ vs[2] = v2 /\ vs[3] = v3
    OBVIOUS
  <1> HIDE DEF es, ks, vs, b, all
  <1>5. \A i \in 1..3 : i = 1 \/ i = 2 \/ i = 3
    OBVIOUS
  <1>6. IsMessage(es, ks, vs, 3)
    BY <1>1, <1>3, <1>4, <1>5 DEF IsMessage
  <1>7. Read(b[3], ks[1], d1) = vs[1]
    <2>1. \A i \in 1..3 : i # 1 => ks[i] # ks[1]
      BY <1>4, <1>5
    <2>2. 1 \in 1..3 /\ 3 \in Nat /\ (es[1] = <<>> => vs[1] = d1)
      BY <1>1, <1>4
    <2>3. IsSought(3, b, es, ks, vs, 1, d1)
      BY <1>2, <1>6, <2>1, <2>2 DEF IsSought
    <2> QED BY <2>2, <2>3, SoughtIsRead
  <1>8. Read(b[3], ks[2], d2) = vs[2]
    <2>1. \A i \in 1..3 : i # 2 => ks[i] # ks[2]
      BY <1>4, <1>5
    <2>2. 2 \in 1..3 /\ 3 \in Nat /\ (es[2] = <<>> => vs[2] = d2)
      BY <1>1, <1>4
    <2>3. IsSought(3, b, es, ks, vs, 2, d2)
      BY <1>2, <1>6, <2>1, <2>2 DEF IsSought
    <2> QED BY <2>2, <2>3, SoughtIsRead
  <1>9. Read(b[3], ks[3], d3) = vs[3]
    <2>1. \A i \in 1..3 : i # 3 => ks[i] # ks[3]
      BY <1>4, <1>5
    <2>2. 3 \in 1..3 /\ 3 \in Nat /\ (es[3] = <<>> => vs[3] = d3)
      BY <1>1, <1>4
    <2>3. IsSought(3, b, es, ks, vs, 3, d3)
      BY <1>2, <1>6, <2>1, <2>2 DEF IsSought
    <2> QED BY <2>2, <2>3, SoughtIsRead
  <1> QED BY <1>2, <1>4, <1>7, <1>8, <1>9 DEF all

SixReads(e1, k1, v1, d1, e2, k2, v2, d2, e3, k3, v3, d3,
         e4, k4, v4, d4, e5, k5, v5, d5, e6, k6, v6, d6) ==
    /\ Reads(e1, k1, v1, d1) /\ Reads(e2, k2, v2, d2) /\ Reads(e3, k3, v3, d3)
    /\ Reads(e4, k4, v4, d4) /\ Reads(e5, k5, v5, d5) /\ Reads(e6, k6, v6, d6)
    /\ \A i, j \in 1..6 : i # j => <<k1, k2, k3, k4, k5, k6>>[i] # <<k1, k2, k3, k4, k5, k6>>[j]

(* Each of six fields is read. *)
LEMMA SixRead ==
    ASSUME NEW e1, NEW e2, NEW e3, NEW e4, NEW e5, NEW e6,
           NEW k1, NEW k2, NEW k3, NEW k4, NEW k5, NEW k6,
           NEW v1, NEW v2, NEW v3, NEW v4, NEW v5, NEW v6,
           NEW d1, NEW d2, NEW d3, NEW d4, NEW d5, NEW d6,
           SixReads(e1, k1, v1, d1, e2, k2, v2, d2, e3, k3, v3, d3,
                    e4, k4, v4, d4, e5, k5, v5, d5, e6, k6, v6, d6)
    PROVE  /\ Read(Message6(e1, e2, e3, e4, e5, e6), k1, d1) = v1
           /\ Read(Message6(e1, e2, e3, e4, e5, e6), k2, d2) = v2
           /\ Read(Message6(e1, e2, e3, e4, e5, e6), k3, d3) = v3
           /\ Read(Message6(e1, e2, e3, e4, e5, e6), k4, d4) = v4
           /\ Read(Message6(e1, e2, e3, e4, e5, e6), k5, d5) = v5
           /\ Read(Message6(e1, e2, e3, e4, e5, e6), k6, d6) = v6
  <1> DEFINE es == <<e1, e2, e3, e4, e5, e6>>
             ks == <<k1, k2, k3, k4, k5, k6>>
             vs == <<v1, v2, v3, v4, v5, v6>>
             ds == <<d1, d2, d3, d4, d5, d6>>
             b == Prefixes6(e1, e2, e3, e4, e5, e6)
             all == Message6(e1, e2, e3, e4, e5, e6)
  <1>1. /\ Reads(e1, k1, v1, d1) /\ Reads(e2, k2, v2, d2) /\ Reads(e3, k3, v3, d3)
        /\ Reads(e4, k4, v4, d4) /\ Reads(e5, k5, v5, d5) /\ Reads(e6, k6, v6, d6)
    BY Zenon DEF SixReads
  <1>2. /\ e1 \in Seq(Byte) /\ e2 \in Seq(Byte) /\ e3 \in Seq(Byte)
        /\ e4 \in Seq(Byte) /\ e5 \in Seq(Byte) /\ e6 \in Seq(Byte)
    BY <1>1 DEF Reads
  <1>3. /\ IsField(e1, k1, v1) /\ IsField(e2, k2, v2) /\ IsField(e3, k3, v3)
        /\ IsField(e4, k4, v4) /\ IsField(e5, k5, v5) /\ IsField(e6, k6, v6)
    BY <1>1 DEF Reads
  <1>4. /\ (e1 = <<>> => v1 = d1) /\ (e2 = <<>> => v2 = d2) /\ (e3 = <<>> => v3 = d3)
        /\ (e4 = <<>> => v4 = d4) /\ (e5 = <<>> => v5 = d5) /\ (e6 = <<>> => v6 = d6)
    BY <1>1 DEF Reads
  <1>5. Prefixes(b, es, 6) /\ b[6] = all
    <2>1. Ends(b, es, 6, Message6(e1, e2, e3, e4, e5, e6),
               Len(e1) + Len(e2) + Len(e3) + Len(e4) + Len(e5) + Len(e6))
      BY <1>2, SixPrefixes
    <2> QED BY <2>1, Zenon DEF Ends
  <1>6. es \in [1..6 -> Seq(Byte)]
    BY <1>2
  <1>7. /\ es[1] = e1 /\ es[2] = e2 /\ es[3] = e3 /\ es[4] = e4 /\ es[5] = e5 /\ es[6] = e6
        /\ ks[1] = k1 /\ ks[2] = k2 /\ ks[3] = k3 /\ ks[4] = k4 /\ ks[5] = k5 /\ ks[6] = k6
        /\ vs[1] = v1 /\ vs[2] = v2 /\ vs[3] = v3 /\ vs[4] = v4 /\ vs[5] = v5 /\ vs[6] = v6
        /\ ds[1] = d1 /\ ds[2] = d2 /\ ds[3] = d3 /\ ds[4] = d4 /\ ds[5] = d5 /\ ds[6] = d6
    OBVIOUS
  <1>8. \A i, j \in 1..6 : i # j => ks[i] # ks[j]
    BY Zenon DEF SixReads
  <1> HIDE DEF es, ks, vs, ds, b, all
  <1>9. \A i \in 1..6 : i = 1 \/ i = 2 \/ i = 3 \/ i = 4 \/ i = 5 \/ i = 6
    OBVIOUS
  <1>10. IsMessage(es, ks, vs, 6)
    BY <1>3, <1>6, <1>7, <1>9 DEF IsMessage
  <1>11. \A j \in 1..6 : es[j] = <<>> => vs[j] = ds[j]
    BY <1>4, <1>7, <1>9
  <1>12. ASSUME NEW j \in 1..6
         PROVE  Read(b[6], ks[j], ds[j]) = vs[j]
    <2>1. \A i \in 1..6 : i # j => ks[i] # ks[j]
      BY <1>8
    <2>2. 6 \in Nat /\ (es[j] = <<>> => vs[j] = ds[j])
      BY <1>11
    <2>3. IsSought(6, b, es, ks, vs, j, ds[j])
      BY <1>5, <1>10, <2>1, <2>2 DEF IsSought
    <2> QED BY <2>2, <2>3, SoughtIsRead
  <1>13. 1 \in 1..6 /\ 2 \in 1..6 /\ 3 \in 1..6 /\ 4 \in 1..6 /\ 5 \in 1..6 /\ 6 \in 1..6
    OBVIOUS
  <1>14. /\ Read(all, k1, d1) = v1 /\ Read(all, k2, d2) = v2 /\ Read(all, k3, d3) = v3
         /\ Read(all, k4, d4) = v4 /\ Read(all, k5, d5) = v5 /\ Read(all, k6, d6) = v6
    BY <1>5, <1>7, <1>12, <1>13
  <1> QED BY <1>14 DEF all

-----------------------------------------------------------------------------
(* The items of the messages sent: what each puts and is read as.          *)
GivenBytes(b) == IF b = NULL THEN <<>> ELSE Kept(b)

GivenField(field, b) == IF b = NULL THEN <<>> ELSE BytesField(field, Kept(b))

(* item puts e, of at most size bytes, which read as v.                    *)
Sends(item, e, k, v, default, size) ==
    Puts(item, e) /\ Reads(e, k, v, default) /\ Len(e) <= size

(* The keys of a field below 16. *)
LEMMA FieldKeys ==
    ASSUME NEW field \in 1..15
    PROVE  /\ 8 * field \in 1..127 /\ (8 * field) % 8 = 0
           /\ 8 * field + 2 \in 1..127 /\ (8 * field + 2) % 8 = 2
           /\ 8 * field \in Byte /\ 8 * field + 2 \in Byte
  BY DEF Byte

(* A key in front of a value. *)
LEMMA OneMore ==
    ASSUME NEW k \in Byte, NEW e \in Seq(Byte), NEW all, all = <<k>> \o e
    PROVE  all \in Seq(Byte) /\ Len(all) = Len(e) + 1 /\ all # <<>>
  <1> DEFINE one == <<k>>
  <1>1. one \in Seq(Byte) /\ Len(one) = 1
    BY DEF one
  <1> HIDE DEF one
  <1>2. one \o e \in Seq(Byte) /\ Len(one \o e) = Len(one) + Len(e)
    BY <1>1, Concat
  <1>3. Len(e) \in Nat
    BY LenProperties
  <1>4. all = one \o e
    BY DEF one
  <1>5. all \in Seq(Byte) /\ Len(all) = Len(e) + 1
    BY <1>1, <1>2, <1>3, <1>4
  <1>6. all # <<>>
    <2>1. Len(<<>>) = 0
      BY EmptySeq
    <2> QED BY <1>3, <1>5, <2>1
  <1> QED BY <1>5, <1>6

IsBytesField(e, field, b) ==
    /\ e \in Seq(Byte) /\ e # <<>> /\ Len(e) = 1 + Len(VarintBytes(Len(b))) + Len(b)
    /\ IsField(e, 8 * field + 2, b)

(* A field of bytes. *)
LEMMA BytesFieldIs ==
    ASSUME NEW field \in 1..15, NEW b \in Seq(Byte)
    PROVE  IsBytesField(BytesField(field, b), field, b)
  <1> DEFINE n == Len(b)
             rest == VarintBytes(n) \o b
             e == BytesField(field, b)
             k == 8 * field + 2
  <1>1. n \in Nat
    BY LenProperties
  <1>2. VarintBytes(n) \in Seq(Byte) /\ Len(VarintBytes(n)) \in Nat
    BY <1>1, VarintIs, LenProperties
  <1>3. rest \in Seq(Byte) /\ Len(rest) = Len(VarintBytes(n)) + n
    BY <1>2, Concat
  <1>4. e = <<k>> \o rest
    BY DEF BytesField
  <1>5. k \in Byte /\ k \in 1..127 /\ k % 8 = 2
    BY FieldKeys
  <1> HIDE DEF e, k, rest
  <1>6. e \in Seq(Byte) /\ Len(e) = Len(rest) + 1 /\ e # <<>>
    BY <1>3, <1>4, <1>5, OneMore
  <1>7. Len(e) = 1 + Len(VarintBytes(n)) + n
    <2> HIDE DEF n
    <2> QED BY <1>1, <1>2, <1>3, <1>6
  <1>8. IsField(e, k, b)
    BY <1>4, <1>5, Zenon DEF IsField, rest
  <1>9. IsBytesField(e, field, b)
    BY <1>6, <1>7, <1>8 DEF IsBytesField, n, k
  <1> QED BY <1>9 DEF e

(* What an item of bytes puts and how it is read. *)
LEMMA BytesSent ==
    ASSUME NEW field \in 1..15, NEW b, IsBytes(b)
    PROVE  Sends(BytesItem(field, b), GivenField(field, b), 8 * field + 2, GivenBytes(b), <<>>, 258)
  <1> DEFINE e == GivenField(field, b)
             v == GivenBytes(b)
             k == 8 * field + 2
  <1>1. CASE b = NULL
    <2>1. e = <<>> /\ v = <<>>
      BY <1>1 DEF GivenField, GivenBytes
    <2>2. Puts(BytesItem(field, b), <<>>)
      BY <1>1, LeftOutPuts
    <2>3. <<>> \in Seq(Byte) /\ Len(<<>>) = 0
      BY EmptySeq
    <2> HIDE DEF e, v, k
    <2>4. Reads(e, k, v, <<>>)
      BY <2>1, <2>3 DEF Reads, IsField
    <2>5. Len(e) <= 258
      BY <2>1, <2>3
    <2>6. Sends(BytesItem(field, b), e, k, v, <<>>, 258)
      BY <2>1, <2>2, <2>4, <2>5 DEF Sends
    <2> QED BY <2>6 DEF e, v, k
  <1>2. CASE b # NULL
    <2>1. b \in Seq(Byte)
      BY <1>2 DEF IsBytes
    <2>2. e = BytesField(field, Kept(b)) /\ v = Kept(b)
      BY <1>2 DEF GivenField, GivenBytes
    <2>3. v \in Seq(Byte) /\ Len(v) \in 0..255
      BY <2>1, <2>2, KeptIs
    <2>4. Puts(BytesItem(field, b), e)
      BY <2>1, <2>2, BytesItemPuts
    <2> HIDE DEF e, v
    <2>5. /\ e \in Seq(Byte) /\ e # <<>> /\ Len(e) = 1 + Len(VarintBytes(Len(v))) + Len(v)
          /\ IsField(e, k, v)
      BY <2>2, <2>3, BytesFieldIs, Zenon DEF IsBytesField, k
    <2> DEFINE n == Len(v)
               m == Len(VarintBytes(n))
    <2>6. Len(e) = 1 + m + n
      BY <2>5
    <2>7. n \in 0..255
      BY <2>3
    <2> HIDE DEF n
    <2>8. n \in Nat /\ n <= 255 /\ n < 16384
      BY <2>7
    <2>9. m \in Nat /\ m <= 2
      BY <2>8, VarintLength
    <2> HIDE DEF m
    <2>10. Len(e) <= 258
      BY <2>6, <2>8, <2>9
    <2> HIDE DEF k
    <2>11. Reads(e, k, v, <<>>)
      BY <2>5 DEF Reads
    <2>12. Sends(BytesItem(field, b), e, k, v, <<>>, 258)
      BY <2>4, <2>10, <2>11 DEF Sends
    <2> QED BY <2>12 DEF e, v, k
  <1> QED BY <1>1, <1>2

(* What an item of a number puts and how it is read: at most eleven bytes. *)
LEMMA NumberSent ==
    ASSUME NEW field \in 1..15, NEW n, IsNumber(n)
    PROVE  Sends(VarintItem(field, n), NumberField(field, n), 8 * field, OrDefault(n, 0), 0, 11)
  <1> DEFINE e == NumberField(field, n)
             v == OrDefault(n, 0)
             k == 8 * field
  <1>1. n = NULL \/ n \in Nat
    BY DEF IsNumber
  <1>2. Puts(VarintItem(field, n), e)
    BY <1>1, VarintItemPuts
  <1>3. CASE n = NULL \/ n = 0
    <2>1. e = <<>> /\ v = 0
      BY <1>3 DEF NumberField, OrDefault
    <2>2. <<>> \in Seq(Byte) /\ Len(<<>>) = 0
      BY EmptySeq
    <2> HIDE DEF e, v, k
    <2>3. Reads(e, k, v, 0)
      BY <2>1, <2>2 DEF Reads, IsField
    <2>4. Len(e) <= 11
      BY <2>1, <2>2
    <2>5. Sends(VarintItem(field, n), e, k, v, 0, 11)
      BY <1>2, <2>3, <2>4 DEF Sends
    <2> QED BY <2>5 DEF e, v, k
  <1>4. CASE ~ (n = NULL \/ n = 0)
    <2> DEFINE bytes == VarintBytes(n)
    <2>1. n \in Nat /\ Len(Digits128[n]) <= 10
      BY <1>1, <1>4 DEF IsNumber
    <2>2. e = <<k>> \o bytes /\ v = n
      BY <1>4 DEF NumberField, OrDefault
    <2>3. bytes \in Seq(Byte) /\ Len(bytes) = Len(Digits128[n]) /\ Len(bytes) \in Nat
      BY <2>1, VarintIs, LenProperties
    <2>4. k \in Byte /\ k \in 1..127 /\ k % 8 = 0
      BY FieldKeys
    <2> HIDE DEF e, v, k, bytes
    <2>5. e \in Seq(Byte) /\ Len(e) = Len(bytes) + 1 /\ e # <<>>
      BY <2>2, <2>3, <2>4, OneMore
    <2>6. Len(e) <= 11
      BY <2>1, <2>3, <2>5
    <2>7. IsField(e, k, v)
      BY <2>1, <2>2, <2>4, Zenon DEF IsField, bytes
    <2>8. Reads(e, k, v, 0)
      BY <2>5, <2>7 DEF Reads
    <2>9. Sends(VarintItem(field, n), e, k, v, 0, 11)
      BY <1>2, <2>6, <2>8 DEF Sends
    <2> QED BY <2>9 DEF e, v, k
  <1> QED BY <1>3, <1>4

(* What an item of a message puts and how it is read. *)
LEMMA MessageSent ==
    ASSUME NEW field \in 1..15, NEW items, NEW m \in Seq(Byte), Len(m) < 16384, PacksTo(items, m),
           NEW k, k = 8 * field + 2, NEW size, size = Len(m) + 3
    PROVE  Sends(MessageItem(field, items), BytesField(field, m), k, m, <<>>, size)
  <1> DEFINE e == BytesField(field, m)
  <1>1. Puts(MessageItem(field, items), e)
    BY MessageItemPuts
  <1>2. IsBytesField(e, field, m)
    BY BytesFieldIs
  <1> HIDE DEF e
  <1>3. e \in Seq(Byte) /\ e # <<>> /\ Len(e) = 1 + Len(VarintBytes(Len(m))) + Len(m)
    BY <1>2 DEF IsBytesField
  <1>4. IsField(e, k, m)
    BY <1>2 DEF IsBytesField
  <1>5. Len(m) \in Nat
    BY LenProperties
  <1>6. Len(VarintBytes(Len(m))) \in Nat /\ Len(VarintBytes(Len(m))) <= 2
    BY <1>5, VarintLength
  <1>7. Len(e) <= size
    BY <1>3, <1>5, <1>6
  <1>8. Reads(e, k, m, <<>>)
    BY <1>3, <1>4 DEF Reads
  <1>9. Sends(MessageItem(field, items), e, k, m, <<>>, size)
    BY <1>1, <1>7, <1>8 DEF Sends
  <1> QED BY <1>9 DEF e

-----------------------------------------------------------------------------
(* The messages sent.                                                      *)
IsRequest(req) ==
    /\ req.id \in {ACT_TRANSFER, ACT_EXECUTION}
    /\ IsNumber(req.version) /\ IsNumber(req.nonce)
    /\ IsNumber(req.gasLimit) /\ IsNumber(req.chainID)
    /\ IsBytes(req.gasPrice) /\ IsBytes(req.amount)
    /\ IsBytes(req.to) /\ IsBytes(req.data)

ActionBytes(req) ==
    Message3(GivenField(1, req.amount), GivenField(2, req.to), GivenField(3, req.data))

CoreBytes(req) ==
    Message6(NumberField(1, req.version), NumberField(2, req.nonce), NumberField(3, req.gasLimit),
             GivenField(4, req.gasPrice), NumberField(5, req.chainID),
             BytesField(req.id, ActionBytes(req)))

SignedBytes(req, public_key, signature) ==
    Message3(BytesField(1, CoreBytes(req)), BytesField(2, public_key), BytesField(3, signature))

(* items are packed as m, of at most size bytes.                           *)
Carries(items, m, size) == PacksTo(items, m) /\ m \in Seq(Byte) /\ Len(m) <= size

(* The parts of Sends. *)
LEMMA SendsIs ==
    ASSUME NEW m, NEW e, NEW k, NEW v, NEW d, NEW size, Sends(m, e, k, v, d, size)
    PROVE  Puts(m, e) /\ Reads(e, k, v, d) /\ e \in Seq(Byte) /\ Len(e) \in Nat /\ Len(e) <= size
  BY LenProperties DEF Sends, Reads

(* Three items, and six, that differ in their keys.                        *)
Three(m1, e1, k1, v1, d1, s1, m2, e2, k2, v2, d2, s2, m3, e3, k3, v3, d3, s3) ==
    /\ Sends(m1, e1, k1, v1, d1, s1) /\ Sends(m2, e2, k2, v2, d2, s2) /\ Sends(m3, e3, k3, v3, d3, s3)
    /\ s1 \in Nat /\ s2 \in Nat /\ s3 \in Nat
    /\ k1 # k2 /\ k1 # k3 /\ k2 # k3

Six(m1, e1, k1, v1, d1, s1, m2, e2, k2, v2, d2, s2, m3, e3, k3, v3, d3, s3,
    m4, e4, k4, v4, d4, s4, m5, e5, k5, v5, d5, s5, m6, e6, k6, v6, d6, s6) ==
    /\ Three(m1, e1, k1, v1, d1, s1, m2, e2, k2, v2, d2, s2, m3, e3, k3, v3, d3, s3)
    /\ Three(m4, e4, k4, v4, d4, s4, m5, e5, k5, v5, d5, s5, m6, e6, k6, v6, d6, s6)
    /\ \A i, j \in 1..6 : i # j => <<k1, k2, k3, k4, k5, k6>>[i] # <<k1, k2, k3, k4, k5, k6>>[j]

(* Three items with keys of their own are packed and read back. *)
LEMMA ThreeCarried ==
    ASSUME NEW m1, NEW e1, NEW k1, NEW v1, NEW d1, NEW s1, NEW m2, NEW e2, NEW k2, NEW v2, NEW d2, NEW s2,
           NEW m3, NEW e3, NEW k3, NEW v3, NEW d3, NEW s3,
           Three(m1, e1, k1, v1, d1, s1, m2, e2, k2, v2, d2, s2, m3, e3, k3, v3, d3, s3)
    PROVE  /\ Carries(<<m1, m2, m3>>, Message3(e1, e2, e3), s1 + s2 + s3)
           /\ Read(Message3(e1, e2, e3), k1, d1) = v1
           /\ Read(Message3(e1, e2, e3), k2, d2) = v2
           /\ Read(Message3(e1, e2, e3), k3, d3) = v3
  <1> DEFINE items == <<m1, m2, m3>>
             m == Message3(e1, e2, e3)
             n == Len(m)
             l1 == Len(e1)
             l2 == Len(e2)
             l3 == Len(e3)
  <1>1. /\ Sends(m1, e1, k1, v1, d1, s1) /\ Sends(m2, e2, k2, v2, d2, s2) /\ Sends(m3, e3, k3, v3, d3, s3)
        /\ s1 \in Nat /\ s2 \in Nat /\ s3 \in Nat
        /\ k1 # k2 /\ k1 # k3 /\ k2 # k3
    BY DEF Three
  <1>2. /\ Puts(m1, e1) /\ Puts(m2, e2) /\ Puts(m3, e3)
        /\ e1 \in Seq(Byte) /\ e2 \in Seq(Byte) /\ e3 \in Seq(Byte)
        /\ l1 \in Nat /\ l1 <= s1 /\ l2 \in Nat /\ l2 <= s2 /\ l3 \in Nat /\ l3 <= s3
    BY <1>1, SendsIs
  <1>3. PacksTo(items, m)
    BY <1>2, ThreePack
  <1>4. Ends(Prefixes3(e1, e2, e3), <<e1, e2, e3>>, 3, m, l1 + l2 + l3)
    BY <1>2, ThreePrefixes
  <1> HIDE DEF items, m, l1, l2, l3
  <1>5. m \in Seq(Byte) /\ n = l1 + l2 + l3
    BY <1>4, Zenon DEF Ends
  <1> HIDE DEF n
  <1>6. n <= s1 + s2 + s3
    BY <1>1, <1>2, <1>5
  <1>7. Carries(items, m, s1 + s2 + s3)
    BY <1>3, <1>5, <1>6 DEF Carries, n
  <1>8. Reads(e1, k1, v1, d1) /\ Reads(e2, k2, v2, d2) /\ Reads(e3, k3, v3, d3)
    BY <1>1, SendsIs
  <1>9. Read(m, k1, d1) = v1 /\ Read(m, k2, d2) = v2 /\ Read(m, k3, d3) = v3
    BY <1>1, <1>8, ThreeRead DEF m
  <1> QED BY <1>7, <1>9 DEF items, m

(* Six items with keys of their own are packed and read back. *)
LEMMA SixCarried ==
    ASSUME NEW m1, NEW e1, NEW k1, NEW v1, NEW d1, NEW s1, NEW m2, NEW e2, NEW k2, NEW v2, NEW d2, NEW s2,
           NEW m3, NEW e3, NEW k3, NEW v3, NEW d3, NEW s3, NEW m4, NEW e4, NEW k4, NEW v4, NEW d4, NEW s4,
           NEW m5, NEW e5, NEW k5, NEW v5, NEW d5, NEW s5, NEW m6, NEW e6, NEW k6, NEW v6, NEW d6, NEW s6,
           Six(m1, e1, k1, v1, d1, s1, m2, e2, k2, v2, d2, s2, m3, e3, k3, v3, d3, s3,
               m4, e4, k4, v4, d4, s4, m5, e5, k5, v5, d5, s5, m6, e6, k6, v6, d6, s6)
    PROVE  /\ Carries(<<m1, m2, m3, m4, m5, m6>>, Message6(e1, e2, e3, e4, e5, e6),
                      s1 + s2 + s3 + s4 + s5 + s6)
           /\ Read(Message6(e1, e2, e3, e4, e5, e6), k1, d1) = v1
           /\ Read(Message6(e1, e2, e3, e4, e5, e6), k2, d2) = v2
           /\ Read(Message6(e1, e2, e3, e4, e5, e6), k3, d3) = v3
           /\ Read(Message6(e1, e2, e3, e4, e5, e6), k4, d4) = v4
           /\ Read(Message6(e1, e2, e3, e4, e5, e6), k5, d5) = v5
           /\ Read(Message6(e1, e2, e3, e4, e5, e6), k6, d6) = v6
  <1> DEFINE items == <<m1, m2, m3, m4, m5, m6>>
             m == Message6(e1, e2, e3, e4, e5, e6)
             n == Len(m)
             l1 == Len(e1)
             l2 == Len(e2)
             l3 == Len(e3)
             l4 == Len(e4)
             l5 == Len(e5)
             l6 == Len(e6)
  <1>1. /\ Sends(m1, e1, k1, v1, d1, s1) /\ Sends(m2, e2, k2, v2, d2, s2) /\ Sends(m3, e3, k3, v3, d3, s3)
        /\ s1 \in Nat /\ s2 \in Nat /\ s3 \in Nat
    BY Zenon DEF Six, Three
  <1>2. /\ Sends(m4, e4, k4, v4, d4, s4) /\ Sends(m5, e5, k5, v5, d5, s5) /\ Sends(m6, e6, k6, v6, d6, s6)
         /\ s4 \in Nat /\ s5 \in Nat /\ s6 \in Nat
    BY Zenon DEF Six, Three
  <1>3. /\ Puts(m1, e1) /\ Puts(m2, e2) /\ Puts(m3, e3)
        /\ e1 \in Seq(Byte) /\ e2 \in Seq(Byte) /\ e3 \in Seq(Byte)
        /\ l1 \in Nat /\ l1 <= s1 /\ l2 \in Nat /\ l2 <= s2 /\ l3 \in Nat /\ l3 <= s3
    BY <1>1, SendsIs
  <1>4. /\ Puts(m4, e4) /\ Puts(m5, e5) /\ Puts(m6, e6)
        /\ e4 \in Seq(Byte) /\ e5 \in Seq(Byte) /\ e6 \in Seq(Byte)
        /\ l4 \in Nat /\ l4 <= s4 /\ l5 \in Nat /\ l5 <= s5 /\ l6 \in Nat /\ l6 <= s6
    BY <1>2, SendsIs
  <1>5. PacksTo(items, m)
    BY <1>3, <1>4, SixPack
  <1>6. Ends(Prefixes6(e1, e2, e3, e4, e5, e6), <<e1, e2, e3, e4, e5, e6>>, 6, m,
             l1 + l2 + l3 + l4 + l5 + l6)
    BY <1>3, <1>4, SixPrefixes
  <1> HIDE DEF items, m, l1, l2, l3, l4, l5, l6
  <1>7. m \in Seq(Byte) /\ n = l1 + l2 + l3 + l4 + l5 + l6
    BY <1>6, Zenon DEF Ends
  <1> HIDE DEF n
  <1>8. n <= s1 + s2 + s3 + s4 + s5 + s6
    BY <1>1, <1>2, <1>3, <1>4, <1>7
  <1>9. Carries(items, m, s1 + s2 + s3 + s4 + s5 + s6)
    BY <1>5, <1>7, <1>8 DEF Carries, n
  <1>10. /\ Reads(e1, k1, v1, d1) /\ Reads(e2, k2, v2, d2) /\ Reads(e3, k3, v3, d3)
        /\ Reads(e4, k4, v4, d4) /\ Reads(e5, k5, v5, d5) /\ Reads(e6, k6, v6, d6)
    BY <1>1, <1>2, SendsIs
  <1>11. /\ Read(m, k1, d1) = v1 /\ Read(m, k2, d2) = v2 /\ Read(m, k3, d3) = v3
        /\ Read(m, k4, d4) = v4 /\ Read(m, k5, d5) = v5 /\ Read(m, k6, d6) = v6
    <2>1. \A i, j \in 1..6 : i # j => <<k1, k2, k3, k4, k5, k6>>[i] # <<k1, k2, k3, k4, k5, k6>>[j]
      BY Zenon DEF Six
    <2>2. SixReads(e1, k1, v1, d1, e2, k2, v2, d2, e3, k3, v3, d3,
                   e4, k4, v4, d4, e5, k5, v5, d5, e6, k6, v6, d6)
      BY <1>10, <2>1, Zenon DEF SixReads
    <2> QED BY <2>2, SixRead DEF m
  <1> QED BY <1>9, <1>11 DEF items, m

-----------------------------------------------------------------------------
IsAction(req, items, m) ==
    /\ Carries(items, m, 774)
    /\ Bytes(m, 1) = GivenBytes(req.amount)
    /\ Bytes(m, 2) = GivenBytes(req.to)
    /\ Bytes(m, 3) = GivenBytes(req.data)

(* A transfer or an execution is packed as ActionBytes, from which its     *)
(* fields are read (gen_tx_message and gen_ex_message).                    *)
LEMMA ActionSent ==
    ASSUME NEW req, IsRequest(req)
    PROVE  IsAction(req, ActionItems(req), ActionBytes(req))
  <1> DEFINE a == req.amount
             b == req.to
             c == req.data
             m1 == BytesItem(1, a)
             m2 == BytesItem(2, b)
             m3 == BytesItem(3, c)
             e1 == GivenField(1, a)
             e2 == GivenField(2, b)
             e3 == GivenField(3, c)
             v1 == GivenBytes(a)
             v2 == GivenBytes(b)
             v3 == GivenBytes(c)
             m == Message3(e1, e2, e3)
             items == <<m1, m2, m3>>
  <1>1. IsBytes(a) /\ IsBytes(b) /\ IsBytes(c)
    BY DEF IsRequest
  <1>2. items = ActionItems(req) /\ m = ActionBytes(req)
    BY DEF ActionItems, ActionBytes
  <1> HIDE DEF a, b, c
  <1>3. 1 \in 1..15 /\ 2 \in 1..15 /\ 3 \in 1..15
    OBVIOUS
  <1>4. Sends(m1, e1, 8 * 1 + 2, v1, <<>>, 258)
    BY <1>1, <1>3, BytesSent
  <1>5. Sends(m2, e2, 8 * 2 + 2, v2, <<>>, 258)
    BY <1>1, <1>3, BytesSent
  <1>6. Sends(m3, e3, 8 * 3 + 2, v3, <<>>, 258)
    BY <1>1, <1>3, BytesSent
  <1> HIDE DEF m1, m2, m3, e1, e2, e3, v1, v2, v3
  <1>7. Three(m1, e1, 10, v1, <<>>, 258, m2, e2, 18, v2, <<>>, 258, m3, e3, 26, v3, <<>>, 258)
    BY <1>4, <1>5, <1>6 DEF Three
  <1>8. /\ Carries(items, m, 258 + 258 + 258)
        /\ Read(m, 10, <<>>) = v1 /\ Read(m, 18, <<>>) = v2 /\ Read(m, 26, <<>>) = v3
    BY <1>7, ThreeCarried
  <1> HIDE DEF items, m
  <1>9. Carries(items, m, 774)
    BY <1>8
  <1>10. Bytes(m, 1) = v1 /\ Bytes(m, 2) = v2 /\ Bytes(m, 3) = v3
    BY <1>8 DEF Bytes, PB_WT_LD
  <1>11. IsAction(req, items, m)
    BY <1>9, <1>10, Zenon DEF IsAction, a, b, c, v1, v2, v3
  <1> QED BY <1>2, <1>11, Zenon

IsCore(req, items, m) ==
    /\ Carries(items, m, 2000) /\ m # <<>>
    /\ Number(m, AC_VERSION) = OrDefault(req.version, 0)
    /\ Number(m, AC_NONCE) = OrDefault(req.nonce, 0)
    /\ Number(m, AC_GAS_LIMIT) = OrDefault(req.gasLimit, 0)
    /\ Bytes(m, AC_GAS_PRICE) = GivenBytes(req.gasPrice)
    /\ Number(m, AC_CHAIN_ID) = OrDefault(req.chainID, 0)
    /\ Bytes(m, req.id) = ActionBytes(req)

(* The core is packed as CoreBytes, from which its fields are read. *)
LEMMA CoreSent ==
    ASSUME NEW req, IsRequest(req)
    PROVE  IsCore(req, CoreItems(req), CoreBytes(req))
  <1> DEFINE a == req.version
             b == req.nonce
             c == req.gasLimit
             d == req.gasPrice
             e == req.chainID
             id == req.id
             action == ActionBytes(req)
             m1 == VarintItem(1, a)
             m2 == VarintItem(2, b)
             m3 == VarintItem(3, c)
             m4 == BytesItem(4, d)
             m5 == VarintItem(5, e)
             m6 == MessageItem(id, ActionItems(req))
             e1 == NumberField(1, a)
             e2 == NumberField(2, b)
             e3 == NumberField(3, c)
             e4 == GivenField(4, d)
             e5 == NumberField(5, e)
             e6 == BytesField(id, action)
             v1 == OrDefault(a, 0)
             v2 == OrDefault(b, 0)
             v3 == OrDefault(c, 0)
             v4 == GivenBytes(d)
             v5 == OrDefault(e, 0)
             k6 == 8 * id + 2
             m == Message6(e1, e2, e3, e4, e5, e6)
             items == <<m1, m2, m3, m4, m5, m6>>
  <1>1. /\ IsNumber(a) /\ IsNumber(b) /\ IsNumber(c) /\ IsBytes(d) /\ IsNumber(e)
        /\ id \in {10, 12}
    BY DEF IsRequest, ACT_TRANSFER, ACT_EXECUTION
  <1>2. items = CoreItems(req) /\ m = CoreBytes(req)
    BY DEF CoreItems, CoreBytes, AC_VERSION, AC_NONCE, AC_GAS_LIMIT, AC_GAS_PRICE, AC_CHAIN_ID
  <1>3. /\ PacksTo(ActionItems(req), action) /\ action \in Seq(Byte) /\ Len(action) <= 774
        /\ Len(action) \in Nat
    BY ActionSent, LenProperties DEF IsAction, Carries
  <1> HIDE DEF a, b, c, d, e, id, action
  <1>4. /\ 1 \in 1..15 /\ 2 \in 1..15 /\ 3 \in 1..15 /\ 4 \in 1..15 /\ 5 \in 1..15 /\ id \in 1..15
        /\ k6 \in {82, 98} /\ Len(action) < 16384
    BY <1>1, <1>3
  <1>5. Sends(m1, e1, 8 * 1, v1, 0, 11)
    BY <1>1, <1>4, NumberSent
  <1>6. Sends(m2, e2, 8 * 2, v2, 0, 11)
    BY <1>1, <1>4, NumberSent
  <1>7. Sends(m3, e3, 8 * 3, v3, 0, 11)
    BY <1>1, <1>4, NumberSent
  <1>8. Sends(m4, e4, 8 * 4 + 2, v4, <<>>, 258)
    BY <1>1, <1>4, BytesSent
  <1>9. Sends(m5, e5, 8 * 5, v5, 0, 11)
    BY <1>1, <1>4, NumberSent
  <1> DEFINE s6 == Len(action) + 3
  <1>10. Sends(m6, e6, k6, action, <<>>, s6)
    <2>1. PacksTo(ActionItems(req), action) /\ action \in Seq(Byte) /\ Len(action) < 16384
      BY <1>3, <1>4
    <2>2. s6 = Len(action) + 3
      OBVIOUS
    <2>3. CASE id = 10
      <3>1. 10 \in 1..15 /\ k6 = 8 * 10 + 2
        BY <2>3
      <3> HIDE DEF k6, s6
      <3>2. Sends(MessageItem(10, ActionItems(req)), BytesField(10, action), k6, action, <<>>, s6)
        BY <2>1, <2>2, <3>1, MessageSent
      <3> QED BY <2>3, <3>2
    <2>4. CASE id = 12
      <3>1. 12 \in 1..15 /\ k6 = 8 * 12 + 2
        BY <2>4
      <3> HIDE DEF k6, s6
      <3>2. Sends(MessageItem(12, ActionItems(req)), BytesField(12, action), k6, action, <<>>, s6)
        BY <2>1, <2>2, <3>1, MessageSent
      <3> QED BY <2>4, <3>2
    <2> QED BY <1>1, <2>3, <2>4
  <1>11. Len(e6) # 0
    <2>1. IsBytesField(e6, id, action)
      BY <1>3, <1>4, BytesFieldIs
    <2> HIDE DEF e6
    <2>2. e6 \in Seq(Byte) /\ e6 # <<>>
      BY <2>1 DEF IsBytesField
    <2> QED BY <2>2, EmptySeq
  <1>12. s6 \in Nat /\ s6 <= 777
    BY <1>3
  <1> HIDE DEF m1, m2, m3, m4, m5, m6, e1, e2, e3, e4, e5, e6, v1, v2, v3, v4, v5, k6, s6
  <1>13. \A i, j \in 1..6 : i # j => <<8, 16, 24, 34, 40, k6>>[i] # <<8, 16, 24, 34, 40, k6>>[j]
    <2> DEFINE ks == <<8, 16, 24, 34, 40, k6>>
    <2>1. ks[1] = 8 /\ ks[2] = 16 /\ ks[3] = 24 /\ ks[4] = 34 /\ ks[5] = 40 /\ ks[6] = k6
      OBVIOUS
    <2> HIDE DEF ks
    <2>2. \A i \in 1..6 : i = 1 \/ i = 2 \/ i = 3 \/ i = 4 \/ i = 5 \/ i = 6
      OBVIOUS
    <2>3. \A i, j \in 1..6 : i # j => ks[i] # ks[j]
      <3>1. k6 = 82 \/ k6 = 98
        BY <1>4
      <3> QED BY ONLY <2>1, <2>2, <3>1
    <2> QED BY <2>3 DEF ks
  <1>14. Three(m1, e1, 8, v1, 0, 11, m2, e2, 16, v2, 0, 11, m3, e3, 24, v3, 0, 11)
    BY <1>5, <1>6, <1>7 DEF Three
  <1>15. Three(m4, e4, 34, v4, <<>>, 258, m5, e5, 40, v5, 0, 11, m6, e6, k6, action, <<>>, s6)
    BY <1>4, <1>8, <1>9, <1>10, <1>12 DEF Three
  <1>16. Six(m1, e1, 8, v1, 0, 11, m2, e2, 16, v2, 0, 11, m3, e3, 24, v3, 0, 11,
             m4, e4, 34, v4, <<>>, 258, m5, e5, 40, v5, 0, 11, m6, e6, k6, action, <<>>, s6)
    BY <1>13, <1>14, <1>15, Zenon DEF Six
  <1>17. /\ Carries(items, m, 11 + 11 + 11 + 258 + 11 + s6)
         /\ Read(m, 8, 0) = v1 /\ Read(m, 16, 0) = v2 /\ Read(m, 24, 0) = v3
         /\ Read(m, 34, <<>>) = v4 /\ Read(m, 40, 0) = v5 /\ Read(m, k6, <<>>) = action
    BY <1>16, SixCarried
  <1>18. Ends(Prefixes6(e1, e2, e3, e4, e5, e6), <<e1, e2, e3, e4, e5, e6>>, 6, m,
              Len(e1) + Len(e2) + Len(e3) + Len(e4) + Len(e5) + Len(e6))
    <2>1. /\ e1 \in Seq(Byte) /\ e2 \in Seq(Byte) /\ e3 \in Seq(Byte)
          /\ e4 \in Seq(Byte) /\ e5 \in Seq(Byte) /\ e6 \in Seq(Byte)
      BY <1>5, <1>6, <1>7, <1>8, <1>9, <1>10, SendsIs
    <2> QED BY <2>1, SixPrefixes
  <1> HIDE DEF items, m
  <1>19. m # <<>>
    <2>1. Len(m) = Len(e1) + Len(e2) + Len(e3) + Len(e4) + Len(e5) + Len(e6)
      BY <1>18, Zenon DEF Ends
    <2>2. /\ Len(e1) \in Nat /\ Len(e2) \in Nat /\ Len(e3) \in Nat
          /\ Len(e4) \in Nat /\ Len(e5) \in Nat /\ Len(e6) \in Nat
      BY <1>5, <1>6, <1>7, <1>8, <1>9, <1>10, SendsIs
    <2>3. Len(m) # 0
      BY <1>11, <2>1, <2>2
    <2> QED BY <2>3, EmptySeq
  <1>20. Carries(items, m, 2000)
    <2>1. PacksTo(items, m) /\ m \in Seq(Byte) /\ Len(m) <= 11 + 11 + 11 + 258 + 11 + s6
      BY <1>17 DEF Carries
    <2>2. Len(m) \in Nat
      BY <2>1, LenProperties
    <2>3. Len(m) <= 2000
      BY <1>12, <2>1, <2>2
    <2> QED BY <2>1, <2>3 DEF Carries
  <1>21. /\ Number(m, AC_VERSION) = v1 /\ Number(m, AC_NONCE) = v2 /\ Number(m, AC_GAS_LIMIT) = v3
         /\ Bytes(m, AC_GAS_PRICE) = v4 /\ Number(m, AC_CHAIN_ID) = v5
    BY <1>17 DEF Number, Bytes, PB_WT_VARINT, PB_WT_LD, AC_VERSION, AC_NONCE, AC_GAS_LIMIT,
                 AC_GAS_PRICE, AC_CHAIN_ID
  <1>22. Bytes(m, id) = action
    BY <1>17, Zenon DEF Bytes, PB_WT_LD, k6
  <1>23. IsCore(req, items, m)
    <2>1. /\ Number(m, AC_VERSION) = OrDefault(req.version, 0)
          /\ Number(m, AC_NONCE) = OrDefault(req.nonce, 0)
          /\ Number(m, AC_GAS_LIMIT) = OrDefault(req.gasLimit, 0)
      BY <1>21 DEF a, b, c, v1, v2, v3
    <2>2. /\ Bytes(m, AC_GAS_PRICE) = GivenBytes(req.gasPrice)
          /\ Number(m, AC_CHAIN_ID) = OrDefault(req.chainID, 0)
      BY <1>21 DEF d, e, v4, v5
    <2>3. Bytes(m, req.id) = ActionBytes(req)
      BY <1>22 DEF id, action
    <2> QED BY <1>20, <1>19, <2>1, <2>2, <2>3 DEF IsCore
  <1> QED BY <1>2, <1>23, Zenon

-----------------------------------------------------------------------------
(* Public key and signature are 65 bytes, whatever they are.               *)
IsKeyText(b) == b \in Seq(Byte) /\ Len(b) = 65

SignedLength(req) == Len(BytesField(1, CoreBytes(req))) + 134

IsSigned(req, items, m, public_key, signature) ==
    /\ Carries(items, m, 3000) /\ Len(m) = SignedLength(req) /\ m # <<>>
    /\ Bytes(m, ACTION_CORE) = CoreBytes(req)
    /\ Bytes(m, ACTION_SND_PUBKEY) = public_key
    /\ Bytes(m, ACTION_SIGNATURE) = signature

(* The field of a public key or of a signature takes 67 bytes. *)
LEMMA KeyField ==
    ASSUME NEW field \in 1..15, NEW b, IsKeyText(b)
    PROVE  /\ Sends(BytesItem(field, b), BytesField(field, b), 8 * field + 2, b, <<>>, 258)
           /\ Len(BytesField(field, b)) = 67
           /\ BytesField(field, b) \in Seq(Byte)
  <1> DEFINE e == BytesField(field, b)
             m == Len(VarintBytes(65))
  <1>1. b \in Seq(Byte) /\ Len(b) = 65
    BY DEF IsKeyText
  <1>2. Kept(b) = b
    <2>1. Len(b) <= 255
      BY <1>1
    <2> QED BY <1>1, <2>1, KeptIs
  <1>3. b # NULL
    <2>1. Byte \subseteq Nat
      BY DEF Byte
    <2> QED BY <1>1, <2>1, SeqMonotonic, NullAssumption
  <1>4. GivenField(field, b) = e /\ GivenBytes(b) = b
    BY <1>2, <1>3 DEF GivenField, GivenBytes
  <1>5. IsBytes(b)
    BY <1>1 DEF IsBytes
  <1>6. Sends(BytesItem(field, b), e, 8 * field + 2, b, <<>>, 258)
    BY <1>4, <1>5, BytesSent
  <1>7. IsBytesField(e, field, b)
    BY <1>1, BytesFieldIs
  <1> HIDE DEF e
  <1>8. e \in Seq(Byte) /\ Len(e) = 1 + m + 65
    BY <1>1, <1>7 DEF IsBytesField
  <1>9. m = 1
    <2>1. 65 \in Nat /\ 65 < 128
      OBVIOUS
    <2>2. m = Len(Digits128[65])
      BY <2>1, VarintIs
    <2>3. Len(Digits128[65]) = 1
      BY <2>1, Digits
    <2> QED BY <2>2, <2>3
  <1> HIDE DEF m
  <1>10. Len(e) = 67
    BY <1>8, <1>9
  <1> QED BY <1>6, <1>8, <1>10 DEF e

(* The signed action is packed as SignedBytes, from which core, key and    *)
(* signature are read; its length does not depend on key and signature.    *)
LEMMA SignedSent ==
    ASSUME NEW req, IsRequest(req), NEW public_key, IsKeyText(public_key),
           NEW signature, IsKeyText(signature)
    PROVE  IsSigned(req, SignedItems(req, public_key, signature),
                    SignedBytes(req, public_key, signature), public_key, signature)
  <1> DEFINE core == CoreBytes(req)
             m1 == MessageItem(1, CoreItems(req))
             m2 == BytesItem(2, public_key)
             m3 == BytesItem(3, signature)
             e1 == BytesField(1, core)
             e2 == BytesField(2, public_key)
             e3 == BytesField(3, signature)
             m == Message3(e1, e2, e3)
             items == <<m1, m2, m3>>
  <1>1. items = SignedItems(req, public_key, signature) /\ m = SignedBytes(req, public_key, signature)
    BY DEF SignedItems, SignedBytes, ACTION_CORE, ACTION_SND_PUBKEY, ACTION_SIGNATURE
  <1>2. /\ PacksTo(CoreItems(req), core) /\ core \in Seq(Byte) /\ Len(core) <= 2000
        /\ Len(core) \in Nat
    BY CoreSent, LenProperties DEF IsCore, Carries
  <1> HIDE DEF core
  <1>3. 1 \in 1..15 /\ 2 \in 1..15 /\ 3 \in 1..15 /\ Len(core) < 16384
    BY <1>2
  <1> DEFINE s1 == Len(core) + 3
  <1>4. Sends(m1, e1, 10, core, <<>>, s1)
    <2>1. 10 = 8 * 1 + 2 /\ s1 = Len(core) + 3
      OBVIOUS
    <2> QED BY <1>2, <1>3, <2>1, MessageSent
  <1>5. Sends(m2, e2, 8 * 2 + 2, public_key, <<>>, 258) /\ Len(e2) = 67 /\ e2 \in Seq(Byte)
    BY <1>3, KeyField
  <1>6. Sends(m3, e3, 8 * 3 + 2, signature, <<>>, 258) /\ Len(e3) = 67 /\ e3 \in Seq(Byte)
    BY <1>3, KeyField
  <1>7. s1 \in Nat /\ s1 <= 2003
    BY <1>2
  <1>8. SignedLength(req) = Len(e1) + 134
    BY DEF SignedLength, core
  <1> HIDE DEF m1, m2, m3, e1, e2, e3, s1
  <1>9. e1 \in Seq(Byte)
    BY <1>4 DEF Sends, Reads
  <1>10. Three(m1, e1, 10, core, <<>>, s1, m2, e2, 18, public_key, <<>>, 258,
              m3, e3, 26, signature, <<>>, 258)
    BY <1>4, <1>5, <1>6, <1>7 DEF Three
  <1>11. /\ Carries(items, m, s1 + 258 + 258)
         /\ Read(m, 10, <<>>) = core /\ Read(m, 18, <<>>) = public_key /\ Read(m, 26, <<>>) = signature
    BY <1>10, ThreeCarried
  <1>12. Ends(Prefixes3(e1, e2, e3), <<e1, e2, e3>>, 3, m, Len(e1) + Len(e2) + Len(e3))
    BY <1>5, <1>6, <1>9, ThreePrefixes
  <1> HIDE DEF items, m
  <1>13. Len(m) = Len(e1) + Len(e2) + Len(e3) /\ m \in Seq(Byte)
    BY <1>12, Zenon DEF Ends
  <1>14. Len(e1) \in Nat /\ Len(m) \in Nat
    BY <1>9, <1>13, LenProperties
  <1>15. Len(m) = SignedLength(req)
    BY <1>5, <1>6, <1>13, <1>14, <1>8
  <1>16. m # <<>>
    <2>1. Len(m) # 0
      BY <1>5, <1>6, <1>13, <1>14
    <2> QED BY <2>1, EmptySeq
  <1>17. Carries(items, m, 3000)
    <2>1. PacksTo(items, m) /\ Len(m) <= s1 + 258 + 258
      BY <1>11 DEF Carries
    <2>2. Len(m) <= 3000
      BY <1>7, <1>14, <2>1
    <2> QED BY <1>13, <2>1, <2>2 DEF Carries
  <1>18. Bytes(m, 1) = core /\ Bytes(m, 2) = public_key /\ Bytes(m, 3) = signature
    BY <1>11 DEF Bytes, PB_WT_LD
  <1>19. IsSigned(req, items, m, public_key, signature)
    <2>1. Bytes(m, ACTION_CORE) = CoreBytes(req)
      BY <1>18 DEF core, ACTION_CORE
    <2>2. Bytes(m, ACTION_SND_PUBKEY) = public_key /\ Bytes(m, ACTION_SIGNATURE) = signature
      BY <1>18 DEF ACTION_SND_PUBKEY, ACTION_SIGNATURE
    <2> QED BY <1>15, <1>16, <1>17, <2>1, <2>2 DEF IsSigned
  <1> QED BY <1>1, <1>19, Zenon

-----------------------------------------------------------------------------
(* The texts of a public key and of a signature.                           *)
Within(all, p, e, lo, hi) ==
    /\ all \in Seq(Byte) /\ p \in Nat /\ e \in Seq(Byte) /\ At(all, p, e)
    /\ lo = p + 1 /\ hi = p + Len(e)

(* The part of a sequence where another one is, is that one. *)
LEMMA AtSub ==
    ASSUME NEW all, NEW p, NEW e, NEW lo, NEW hi, Within(all, p, e, lo, hi)
    PROVE  SubSeq(all, lo, hi) = e
  <1> DEFINE c == SubSeq(all, lo, hi)
             m == Len(e)
  <1>1. /\ all \in Seq(Byte) /\ p \in Nat /\ e \in Seq(Byte) /\ At(all, p, e)
        /\ lo = p + 1 /\ hi = p + Len(e)
    BY DEF Within
  <1>2. m \in Nat /\ p + m <= Len(all)
    BY <1>1, LenProperties DEF At
  <1>3. Slices(c, Byte, all, p, m)
    <2> HIDE DEF m
    <2>1. Slices(SubSeq(all, p + 1, p + m), Byte, all, p, m)
      BY <1>1, <1>2, Sliced
    <2>2. lo = p + 1 /\ hi = p + m
      BY <1>1 DEF m
    <2> QED BY <2>1, <2>2, Zenon
  <1> HIDE DEF c
  <1>4. c \in Seq(Byte) /\ Len(c) = m /\ \A i \in 1..m : c[i] = all[p + i]
    BY <1>3 DEF Slices
  <1>5. \A i \in 1..m : all[p + i] = e[i]
    BY <1>1 DEF At
  <1>6. c = e
    BY <1>1, <1>4, <1>5, SameSequence
  <1> QED BY <1>6 DEF c

PartsOf(all, a, b, c) ==
    /\ all \in Seq(Byte) /\ Len(all) = Len(a) + Len(b) + Len(c)
    /\ At(all, 0, a) /\ At(all, Len(a), b) /\ At(all, Len(a) + Len(b), c)

(* The places of three sequences in their concatenation. *)
LEMMA PartsAt ==
    ASSUME NEW a \in Seq(Byte), NEW b \in Seq(Byte), NEW c \in Seq(Byte),
           NEW all, all = (a \o b) \o c
    PROVE  PartsOf(all, a, b, c)
  <1> DEFINE ab == a \o b
             la == Len(a)
             lb == Len(b)
             lc == Len(c)
  <1>1. la \in Nat /\ lb \in Nat /\ lc \in Nat
    BY LenProperties
  <1>2. ab \in Seq(Byte) /\ Len(ab) = la + lb
    BY Concat
  <1> HIDE DEF ab, la, lb, lc
  <1>3. all = ab \o c
    BY DEF ab
  <1> DEFINE t == ab \o c
  <1>4. t \in Seq(Byte) /\ Len(t) = Len(ab) + lc
    BY <1>2, Concat DEF lc
  <1>5. At(t, 0, t)
    <2> HIDE DEF t
    <2>1. Len(t) \in Nat
      BY <1>4, LenProperties
    <2>2. \A i \in 1..Len(t) : 0 + i = i
      BY <2>1
    <2>3. 0 + Len(t) <= Len(t)
      BY <2>1
    <2> QED BY <2>2, <2>3 DEF At
  <1>6. At(t, 0, ab) /\ At(t, 0 + Len(ab), c)
    <2>1. Len(t) \in Nat /\ 0 \in Nat
      BY <1>4, LenProperties
    <2> QED BY <1>2, <1>5, <2>1, AtParts
  <1> HIDE DEF t
  <1>7. At(t, 0, a) /\ At(t, 0 + la, b)
    <2>1. Len(t) \in Nat /\ 0 \in Nat
      BY <1>4, LenProperties
    <2>2. At(t, 0, a \o b)
      BY <1>6 DEF ab
    <2> QED BY <2>1, <2>2, AtParts DEF la
  <1>8. 0 + la = la /\ 0 + Len(ab) = la + lb /\ Len(t) = la + lb + lc
    BY <1>1, <1>2, <1>4
  <1>9. all = t
    BY <1>3 DEF t
  <1>10. PartsOf(t, a, b, c)
    BY <1>4, <1>6, <1>7, <1>8 DEF PartsOf, la, lb, lc
  <1> QED BY <1>9, <1>10

ReadsKey(b, Q) ==
    /\ IsKeyText(b)
    /\ NumberOf(SubSeq(b, 2, 33)) = Q[1] /\ NumberOf(SubSeq(b, 34, 65)) = Q[2]

ReadsSignature(b, sg) ==
    /\ IsKeyText(b)
    /\ NumberOf(SubSeq(b, 1, 32)) = sg.r /\ NumberOf(SubSeq(b, 33, 64)) = sg.s /\ b[65] = sg.by

(* The coordinates are read from the text of a public key. *)
LEMMA KeyReadBack ==
    ASSUME NEW Q, Q[1] \in 0..WordMax, Q[2] \in 0..WordMax, NEW b,
           b = << 4 >> \o Word32(Q[1]) \o Word32(Q[2])
    PROVE  ReadsKey(b, Q)
  <1> DEFINE one == <<4>>
             x == Word32(Q[1])
             y == Word32(Q[2])
  <1>1. one \in Seq(Byte) /\ Len(one) = 1
    <2>1. 4 \in Byte
      BY DEF Byte
    <2> QED BY <2>1, Single
  <1>2. /\ Q[1] \in Nat /\ Q[2] \in Nat
        /\ NumberOf(x) = Q[1] /\ NumberOf(y) = Q[2]
    BY WordRead, EcdsaAssumption
  <1>3. x \in Seq(Byte) /\ Len(x) = 32 /\ y \in Seq(Byte) /\ Len(y) = 32
    BY <1>2, WordIs
  <1>4. b = (one \o x) \o y
    OBVIOUS
  <1> HIDE DEF one, x, y
  <1>5. /\ b \in Seq(Byte) /\ Len(b) = Len(one) + Len(x) + Len(y)
        /\ At(b, Len(one), x) /\ At(b, Len(one) + Len(x), y)
    <2>1. PartsOf(b, one, x, y)
      BY <1>1, <1>3, <1>4, PartsAt
    <2> QED BY <2>1 DEF PartsOf
  <1>6. Len(b) = 65 /\ At(b, 1, x) /\ At(b, 33, y)
    BY <1>1, <1>3, <1>5
  <1>7. SubSeq(b, 2, 33) = x
    <2>1. 2 = 1 + 1 /\ 33 = 1 + Len(x) /\ 1 \in Nat
      BY <1>3
    <2>2. Within(b, 1, x, 2, 33)
      BY <1>3, <1>5, <1>6, <2>1 DEF Within
    <2> QED BY <2>2, AtSub
  <1>8. SubSeq(b, 34, 65) = y
    <2>1. 34 = 33 + 1 /\ 65 = 33 + Len(y) /\ 33 \in Nat
      BY <1>3
    <2>2. Within(b, 33, y, 34, 65)
      BY <1>3, <1>5, <1>6, <2>1 DEF Within
    <2> QED BY <2>2, AtSub
  <1> QED BY <1>2, <1>5, <1>6, <1>7, <1>8 DEF ReadsKey, IsKeyText

(* r, s and the recovery byte are read from the text of a signature. *)
LEMMA SignatureReadBack ==
    ASSUME NEW sg, sg.r \in 0..WordMax, sg.s \in 0..WordMax, sg.by \in Byte, NEW b,
           b = SignatureBytes(sg)
    PROVE  ReadsSignature(b, sg)
  <1> DEFINE x == Word32(sg.r)
             y == Word32(sg.s)
             one == <<sg.by>>
  <1>1. one \in Seq(Byte) /\ Len(one) = 1 /\ one[1] = sg.by
    BY Single
  <1>2. /\ sg.r \in Nat /\ sg.s \in Nat
        /\ NumberOf(x) = sg.r /\ NumberOf(y) = sg.s
    BY WordRead, EcdsaAssumption
  <1>3. x \in Seq(Byte) /\ Len(x) = 32 /\ y \in Seq(Byte) /\ Len(y) = 32
    BY <1>2, WordIs
  <1>4. b = (x \o y) \o one
    BY DEF SignatureBytes
  <1> HIDE DEF one, x, y
  <1>5. /\ b \in Seq(Byte) /\ Len(b) = Len(x) + Len(y) + Len(one)
        /\ At(b, 0, x) /\ At(b, Len(x), y) /\ At(b, Len(x) + Len(y), one)
    <2>1. PartsOf(b, x, y, one)
      BY <1>1, <1>3, <1>4, PartsAt
    <2> QED BY <2>1 DEF PartsOf
  <1>6. Len(b) = 65 /\ At(b, 32, y) /\ At(b, 64, one)
    BY <1>1, <1>3, <1>5
  <1>7. SubSeq(b, 1, 32) = x
    <2>1. 1 = 0 + 1 /\ 32 = 0 + Len(x) /\ 0 \in Nat
      BY <1>3
    <2>2. Within(b, 0, x, 1, 32)
      BY <1>3, <1>5, <1>6, <2>1 DEF Within
    <2> QED BY <2>2, AtSub
  <1>8. SubSeq(b, 33, 64) = y
    <2>1. 33 = 32 + 1 /\ 64 = 32 + Len(y) /\ 32 \in Nat
      BY <1>3
    <2>2. Within(b, 32, y, 33, 64)
      BY <1>3, <1>5, <1>6, <2>1 DEF Within
    <2> QED BY <2>2, AtSub
  <1>9. b[65] = sg.by
    <2>1. 1 \in 1..Len(one) /\ 64 + 1 = 65
      BY <1>1
    <2>2. b[64 + 1] = one[1]
      BY <1>6, <2>1 DEF At
    <2> QED BY <1>1, <2>1, <2>2
  <1> QED BY <1>2, <1>5, <1>6, <1>7, <1>8, <1>9 DEF ReadsSignature, IsKeyText

-----------------------------------------------------------------------------
(* What CallsAssumption says of one call. *)
LEMMA CallIs ==
    ASSUME NEW c \in Calls
    PROVE  /\ IsRequest(c.req) /\ c.max_size \in Nat
           /\ KeyBytes(c.req.privateKey).ret = SIG_PRIVATE_KEY_SIZE =>
                  NumberOf(KeyBytes(c.req.privateKey).bytes) \in Scalar
  BY CallsAssumption DEF IsRequest, Scalar

(* The text of a public key is one of its point. *)
LEMMA PublicKeyIs ==
    ASSUME NEW d \in Scalar
    PROVE  ReadsKey(public_key65(d), scalar_multiply[d])
  <1> DEFINE Q == scalar_multiply[d]
             b == public_key65(d)
  <1>1. Q[1] \in 0..(Prime - 1) /\ Q[2] \in 1..(Prime - 1)
    BY PointIs
  <1>2. b = <<4>> \o Word32(Q[1]) \o Word32(Q[2])
    BY Zenon DEF public_key65
  <1> HIDE DEF Q, b
  <1>3. Prime \in Nat /\ WordMax \in Nat /\ Prime <= WordMax + 1
    BY EcdsaAssumption, CallsAssumption
  <1>4. Q[1] \in 0..WordMax /\ Q[2] \in 0..WordMax
    BY <1>1, <1>3
  <1>5. ReadsKey(b, Q)
    BY <1>2, <1>4, KeyReadBack
  <1> QED BY <1>5 DEF Q, b

(* The text of a signature is one of it: r and s are numbers of 32 bytes. *)
LEMMA SignatureIs ==
    ASSUME NEW d, NEW z, NEW sg, NEW k \in Scalar, IsSignature(d, z, sg, k)
    PROVE  ReadsSignature(SignatureBytes(sg), sg)
  <1>1. /\ Order \in Nat /\ WordMax \in Nat /\ Order <= WordMax + 1
    BY EcdsaAssumption, CallsAssumption
  <1>2. sg.r \in 1..(Order - 1) /\ sg.s \in 1..order_half /\ sg.by = RecoveryByte(scalar_multiply[k])
    BY DEF IsSignature, Scalar
  <1>3. sg.r \in 0..WordMax /\ sg.s \in 0..WordMax
    <2> DEFINE r == sg.r
               s == sg.s
               h == order_half
    <2>1. r \in 1..(Order - 1) /\ s \in 1..h
      BY <1>2
    <2>2. h \in Nat /\ h <= WordMax
      <3>1. h = Order \div 2 /\ Order # 0
        BY EcdsaAssumption DEF order_half
      <3> HIDE DEF h
      <3> QED BY <1>1, <3>1
    <2> HIDE DEF r, s, h
    <2>3. r \in 0..WordMax /\ s \in 0..WordMax
      BY <1>1, <2>1, <2>2
    <2> QED BY <2>3 DEF r, s
  <1>4. sg.by \in Byte
    <2> DEFINE y == scalar_multiply[k][2] % 2
               x == scalar_multiply[k][1]
    <2>1. y \in {0, 1}
      BY OtherParity
    <2>2. sg.by = y + (IF x < Order THEN 0 ELSE 2)
      BY <1>2 DEF RecoveryByte
    <2> HIDE DEF y
    <2>3. sg.by \in 0..3
      BY <2>1, <2>2
    <2> QED BY <2>3 DEF Byte
  <1> QED BY <1>3, <1>4, SignatureReadBack

(* A signature of zeros has a text, too. *)
LEMMA NoSigIs == IsKeyText(SignatureBytes(NoSig))
  <1>1. NoSig.r = 0 /\ NoSig.s = 0 /\ NoSig.by = 0
    BY DEF NoSig
  <1>2. 0 \in 0..WordMax /\ 0 \in Byte
    BY EcdsaAssumption DEF Byte
  <1>3. ReadsSignature(SignatureBytes(NoSig), NoSig)
    BY <1>1, <1>2, SignatureReadBack
  <1> QED BY <1>3 DEF ReadsSignature

(* A message is packed where there is room for it and a byte more. *)
LEMMA LimitedIs ==
    ASSUME NEW m \in Seq(Byte), m # <<>>, NEW size \in Nat
    PROVE  /\ Len(m) \in Nat
           /\ Len(m) < size => Limited(m, size) = Ok(m) /\ Ok(m).ret = Len(m) /\ Ok(m).bytes = m
           /\ ~ (Len(m) < size) =>
                  /\ Limited(m, size) = Failed(PB_ERR_ENCBUF)
                  /\ Failed(PB_ERR_ENCBUF).ret = -PB_ERR_ENCBUF /\ -PB_ERR_ENCBUF < 0
  <1>1. Len(m) \in Nat
    BY LenProperties
  <1>2. Len(m) < size => Limited(m, size) = Ok(m)
    BY Zenon DEF Limited
  <1>3. ~ (Len(m) < size) => Limited(m, size) = Failed(PB_ERR_ENCBUF)
    BY Zenon DEF Limited
  <1>4. Ok(m).ret = Len(m) /\ Ok(m).bytes = m
    BY DEF Ok
  <1>5. Failed(PB_ERR_ENCBUF).ret = -PB_ERR_ENCBUF /\ -PB_ERR_ENCBUF < 0
    BY DEF Failed, PB_ERR_ENCBUF
  <1> QED BY <1>1, <1>2, <1>3, <1>4, <1>5

(* The core is packed in any room, and is shorter than the signed action. *)
LEMMA CorePacked ==
    ASSUME NEW req, IsRequest(req)
    PROVE  /\ CoreBytes(req) \in Seq(Byte) /\ CoreBytes(req) # <<>>
           /\ SignedLength(req) \in Nat /\ Len(CoreBytes(req)) <= SignedLength(req)
           /\ SignedLength(req) < Ample
           /\ \A size \in Nat : pb_pack(CoreItems(req), size) = Limited(CoreBytes(req), size)
  <1>1. /\ CoreBytes(req) \in Seq(Byte) /\ Len(CoreBytes(req)) <= 2000
        /\ PacksTo(CoreItems(req), CoreBytes(req))
    BY CoreSent DEF IsCore, Carries
  <1>2. \A size \in Nat : pb_pack(CoreItems(req), size) = Limited(CoreBytes(req), size)
    BY <1>1 DEF PacksTo
  <1> DEFINE c == CoreBytes(req)
             e == BytesField(1, c)
  <1>3. IsBytesField(e, 1, c)
    BY <1>1, BytesFieldIs
  <1> HIDE DEF e
  <1>4. Len(c) \in Nat /\ SignedLength(req) = Len(e) + 134
    BY <1>1, LenProperties DEF SignedLength, e
  <1>5. Len(e) = 1 + Len(VarintBytes(Len(c))) + Len(c)
    BY <1>3 DEF IsBytesField
  <1>6. Len(VarintBytes(Len(c))) \in Nat /\ Len(VarintBytes(Len(c))) <= 2
    BY <1>1, <1>4, VarintLength
  <1>7. c # <<>>
    BY CoreSent DEF IsCore
  <1> QED BY <1>1, <1>2, <1>4, <1>5, <1>6, <1>7 DEF Ample

-----------------------------------------------------------------------------
Core == CoreBytes(call.req)

Whole == SignedBytes(call.req, public_key65(priv_key), SignatureBytes(sig))

IsCorePacked ==
    /\ PrivateKey.ret = SIG_PRIVATE_KEY_SIZE
    /\ Len(Core) < call.max_size /\ act_core = Ok(Core)

(* How an action ends: without a key, without room for its core, without a *)
(* signature, or signed.                                                   *)
IsRefused == PrivateKey.ret # SIG_PRIVATE_KEY_SIZE /\ result = Failed(1)

IsTooLarge ==
    /\ PrivateKey.ret = SIG_PRIVATE_KEY_SIZE /\ ~ (Len(Core) < call.max_size)
    /\ result = Failed(PB_ERR_ENCBUF)

IsUnsigned == signing = "failed" /\ result = Failed(1)

IsWhole ==
    /\ signing = "signed" /\ hashed = PaddedMessage(Core)
    /\ result = Limited(Whole, call.max_size)

Outcome == IsRefused \/ IsTooLarge \/ IsUnsigned \/ IsWhole

ActionInv ==
    /\ pc \in {"idle", "packed", "signing", "done"} /\ call \in Calls
    /\ SignerInv
    /\ pc \in {"packed", "signing"} => IsCorePacked
    /\ pc = "signing" => hashed = PaddedMessage(Core)
    /\ pc = "done" => Outcome

(* Initially no core is packed and nothing signed. *)
LEMMA ActionInit == Init => ActionInv
  BY SignerInit DEF Init, ActionInv

(* A step of the signer keeps SignerInv. *)
LEMMA SignerKeeps ==
    ASSUME SignerInv, EcdsaStep \/ UNCHANGED ecdsaVars
    PROVE  SignerInv'
  BY SignerNext DEF EcdsaNext

(* Refusing the key. *)
LEMMA RefusedKeeps == ASSUME ActionInv, KeyRefused PROVE ActionInv'
  <1>1. SignerInv'
    BY SignerKeeps DEF ActionInv, KeyRefused
  <1>2. /\ pc' = "done" /\ result' = Failed(1) /\ call' = call
        /\ PrivateKey.ret # SIG_PRIVATE_KEY_SIZE
    BY DEF KeyRefused, Return
  <1>3. IsRefused'
    BY <1>2 DEF IsRefused, PrivateKey
  <1>4. call' \in Calls
    BY <1>2 DEF ActionInv
  <1> QED BY <1>1, <1>2, <1>3, <1>4 DEF ActionInv, Outcome

(* Packing the core, or finding that there is no room for it. *)
LEMMA PackCoreKeeps == ASSUME ActionInv, PackCore PROVE ActionInv'
  <1>1. SignerInv'
    BY SignerKeeps DEF ActionInv, PackCore
  <1>2. /\ call' = call /\ call \in Calls /\ PrivateKey.ret = SIG_PRIVATE_KEY_SIZE
        /\ act_core' = pb_pack(CoreItems(call.req), call.max_size)
        /\ IF act_core'.ret < 0 THEN Return(act_core') ELSE pc' = "packed" /\ UNCHANGED result
    BY DEF ActionInv, PackCore
  <1>3. IsRequest(call.req) /\ call.max_size \in Nat
    BY <1>2, CallIs
  <1>4. act_core' = Limited(Core, call.max_size) /\ Core \in Seq(Byte) /\ Core # <<>>
    BY <1>2, <1>3, CorePacked DEF Core
  <1>5. Core' = Core /\ PrivateKey' = PrivateKey /\ call'.max_size = call.max_size
    BY <1>2 DEF Core, PrivateKey
  <1>6. CASE Len(Core) < call.max_size
    <2>1. act_core' = Ok(Core) /\ ~ (act_core'.ret < 0)
      <3>1. Limited(Core, call.max_size) = Ok(Core) /\ Ok(Core).ret = Len(Core) /\ Len(Core) \in Nat
        BY <1>3, <1>4, <1>6, LimitedIs
      <3> QED BY <1>4, <3>1
    <2>2. pc' = "packed"
      BY <1>2, <2>1
    <2>3. IsCorePacked'
      BY <1>2, <1>5, <1>6, <2>1 DEF IsCorePacked
    <2> QED BY <1>1, <1>2, <2>2, <2>3 DEF ActionInv
  <1>7. CASE ~ (Len(Core) < call.max_size)
    <2>1. act_core' = Failed(PB_ERR_ENCBUF) /\ act_core'.ret < 0
      <3>1. /\ Limited(Core, call.max_size) = Failed(PB_ERR_ENCBUF)
            /\ Failed(PB_ERR_ENCBUF).ret = -PB_ERR_ENCBUF /\ -PB_ERR_ENCBUF < 0
        BY <1>3, <1>4, <1>7, LimitedIs
      <3> QED BY <1>4, <3>1
    <2>2. pc' = "done" /\ result' = Failed(PB_ERR_ENCBUF)
      BY <1>2, <2>1 DEF Return
    <2>3. IsTooLarge'
      BY <1>2, <1>5, <1>7, <2>2 DEF IsTooLarge
    <2> QED BY <1>1, <1>2, <2>2, <2>3 DEF ActionInv, Outcome
  <1> QED BY <1>6, <1>7

(* Hashing the core, whose blocks are those of its padding                 *)
(* (MessageAbsorbed), with the key given.                                  *)
LEMMA HashKeeps == ASSUME ActionInv, Hash PROVE ActionInv'
  <1>1. IsCorePacked /\ call \in Calls
    BY DEF ActionInv, Hash
  <1>2. IsRequest(call.req) /\ NumberOf(PrivateKey.bytes) \in Scalar
    BY <1>1, CallIs DEF IsCorePacked, PrivateKey
  <1>3. PICK z \in Digests : Sign(NumberOf(PrivateKey.bytes), z)
    BY DEF Hash
  <1>4. SignerInv'
    <2>1. z \in Nat
      BY CallsAssumption, EcdsaAssumption
    <2> QED BY <1>2, <1>3, <2>1, SignKeeps
  <1>5. Core \in Seq(Byte)
    BY <1>2, CorePacked DEF Core
  <1>6. hashed' = PaddedMessage(Core)
    <2>1. PICK aligned \in BOOLEAN : hashed' = keccak_256(act_core.bytes, aligned)
      BY DEF Hash
    <2>2. act_core.bytes = Core
      BY <1>1, <1>5, OkIs DEF IsCorePacked
    <2> QED BY <1>5, <2>1, <2>2, MessageAbsorbed
  <1>7. pc' = "signing" /\ call' = call /\ act_core' = act_core
    BY DEF Hash
  <1>8. IsCorePacked' /\ Core' = Core
    BY <1>1, <1>7 DEF IsCorePacked, Core, PrivateKey
  <1> QED BY <1>1, <1>4, <1>6, <1>7, <1>8 DEF ActionInv

(* A round of the signer. *)
LEMMA SignStepKeeps == ASSUME ActionInv, SignStep PROVE ActionInv'
  <1>1. SignerInv'
    BY SignerKeeps DEF ActionInv, SignStep
  <1>2. /\ pc = "signing" /\ pc' = pc /\ call' = call /\ act_core' = act_core /\ hashed' = hashed
        /\ IsCorePacked /\ hashed = PaddedMessage(Core) /\ call \in Calls
    BY DEF ActionInv, SignStep
  <1>3. IsCorePacked' /\ Core' = Core
    BY <1>2 DEF IsCorePacked, Core, PrivateKey
  <1> QED BY <1>1, <1>2, <1>3 DEF ActionInv

(* A signer that has given up. *)
LEMMA NotSignedKeeps == ASSUME ActionInv, NotSigned PROVE ActionInv'
  <1>1. SignerInv'
    BY SignerKeeps DEF ActionInv, NotSigned
  <1>2. /\ pc' = "done" /\ call' = call /\ call \in Calls /\ signing' = "failed"
        /\ result' = Failed(1)
    BY DEF ActionInv, NotSigned, Return, ecdsaVars
  <1>3. IsUnsigned'
    BY <1>2 DEF IsUnsigned
  <1> QED BY <1>1, <1>2, <1>3 DEF ActionInv, Outcome

(* public_key65 and SignatureBytes of what has been signed.                *)
LEMMA SignedTexts ==
    ASSUME SignerInv, signing = "signed"
    PROVE  /\ IsKeyText(public_key65(priv_key)) /\ IsKeyText(SignatureBytes(sig))
           /\ ReadsKey(public_key65(priv_key), scalar_multiply[priv_key])
           /\ ReadsSignature(SignatureBytes(sig), sig)
  <1>1. priv_key \in Scalar /\ \E k \in Scalar : IsSignature(priv_key, digest, sig, k)
    BY DEF SignerInv, Answered
  <1>2. ReadsKey(public_key65(priv_key), scalar_multiply[priv_key])
    BY <1>1, PublicKeyIs
  <1>3. ReadsSignature(SignatureBytes(sig), sig)
    BY <1>1, SignatureIs
  <1> QED BY <1>2, <1>3 DEF ReadsKey, ReadsSignature

(* Packing the core again, with public key and signature. *)
LEMMA PackSignedKeeps == ASSUME ActionInv, PackSigned PROVE ActionInv'
  <1>1. SignerInv'
    BY SignerKeeps DEF ActionInv, PackSigned
  <1>2. /\ pc = "signing" /\ pc' = "done" /\ call' = call /\ call \in Calls /\ signing = "signed"
        /\ hashed' = hashed /\ hashed = PaddedMessage(Core) /\ SignerInv
        /\ signing' = signing /\ priv_key' = priv_key /\ sig' = sig
        /\ result' = pb_pack(SignedItems(call.req, public_key65(priv_key), SignatureBytes(sig)),
                             call.max_size)
    BY DEF ActionInv, PackSigned, Return, ecdsaVars
  <1>3. IsRequest(call.req) /\ call.max_size \in Nat
    BY <1>2, CallIs
  <1> DEFINE key == public_key65(priv_key)
             text == SignatureBytes(sig)
             items == SignedItems(call.req, key, text)
  <1>4. IsKeyText(key) /\ IsKeyText(text)
    BY <1>2, SignedTexts
  <1>5. PacksTo(items, Whole)
    <2> HIDE DEF key, text
    <2>1. IsSigned(call.req, SignedItems(call.req, key, text), SignedBytes(call.req, key, text), key, text)
      BY <1>3, <1>4, SignedSent
    <2>2. PacksTo(SignedItems(call.req, key, text), SignedBytes(call.req, key, text))
      BY <2>1 DEF IsSigned, Carries
    <2> QED BY <2>2, Zenon DEF Whole, key, text
  <1>6. result' = Limited(Whole, call.max_size)
    <2> HIDE DEF items
    <2>1. pb_pack(items, call.max_size) = Limited(Whole, call.max_size)
      BY <1>3, <1>5 DEF PacksTo
    <2> QED BY <1>2, <2>1, Zenon DEF items, key, text
  <1>7. Core' = Core /\ Whole' = Whole
    BY <1>2 DEF Core, Whole
  <1>8. IsWhole'
    BY <1>2, <1>6, <1>7 DEF IsWhole
  <1> QED BY <1>1, <1>2, <1>8 DEF ActionInv, Outcome

(* A step that changes nothing. *)
LEMMA NothingKeeps == ASSUME ActionInv, UNCHANGED vars PROVE ActionInv'
  <1>1. SignerInv'
    BY SignerKeeps DEF ActionInv, vars
  <1>2. /\ pc' = pc /\ call' = call /\ act_core' = act_core /\ hashed' = hashed /\ result' = result
        /\ signing' = signing /\ priv_key' = priv_key /\ sig' = sig
    BY DEF vars, ecdsaVars
  <1>3. Core' = Core /\ Whole' = Whole /\ PrivateKey' = PrivateKey
    BY <1>2 DEF Core, Whole, PrivateKey
  <1>4. IsCorePacked' = IsCorePacked
    BY <1>2, <1>3 DEF IsCorePacked
  <1>5. Outcome' = Outcome
    BY <1>2, <1>3 DEF Outcome, IsRefused, IsTooLarge, IsUnsigned, IsWhole
  <1> QED BY <1>1, <1>2, <1>3, <1>4, <1>5 DEF ActionInv

(* ActionInv is inductive: one step for every action. *)
LEMMA ActionNext == ActionInv /\ [Next]_vars => ActionInv'
  <1> SUFFICES ASSUME ActionInv, [Next]_vars
               PROVE  ActionInv'
    OBVIOUS
  <1>1. CASE KeyRefused
    BY <1>1, RefusedKeeps
  <1>2. CASE PackCore
    BY <1>2, PackCoreKeeps
  <1>3. CASE Hash
    BY <1>3, HashKeeps
  <1>4. CASE SignStep
    BY <1>4, SignStepKeeps
  <1>5. CASE NotSigned
    BY <1>5, NotSignedKeeps
  <1>6. CASE PackSigned
    BY <1>6, PackSignedKeeps
  <1>7. CASE Done \/ UNCHANGED vars
    BY <1>7, NothingKeeps DEF Done
  <1> QED BY <1>1, <1>2, <1>3, <1>4, <1>5, <1>6, <1>7 DEF Next

(* A call ends in one of four ways, and what is signed on the way is the   *)
(* core of its request: packed in the caller's buffer, hashed whole, and   *)
(* packed anew (proto_gen_action, pb_proto.c:175-228).                     *)
THEOREM ActionInvariant == Spec => []ActionInv
  BY ActionInit, ActionNext, PTL DEF Spec

-----------------------------------------------------------------------------
(* What a successful call has sent.                                        *)
IsSentWhole ==
    /\ IsRequest(call.req) /\ signing = "signed" /\ SignerInv
    /\ hashed = PaddedMessage(Core) /\ Sent = Whole
    /\ IsSigned(call.req, SignedItems(call.req, public_key65(priv_key), SignatureBytes(sig)), Whole,
                public_key65(priv_key), SignatureBytes(sig))

(* The signed action is packed in any room. *)
LEMMA WholeIs ==
    ASSUME NEW req, IsRequest(req), NEW key, IsKeyText(key), NEW text, IsKeyText(text), NEW size \in Nat
    PROVE  /\ SignedBytes(req, key, text) \in Seq(Byte) /\ SignedBytes(req, key, text) # <<>>
           /\ Len(SignedBytes(req, key, text)) = SignedLength(req)
           /\ pb_pack(SignedItems(req, key, text), size) = Limited(SignedBytes(req, key, text), size)
  <1>1. IsSigned(req, SignedItems(req, key, text), SignedBytes(req, key, text), key, text)
    BY SignedSent
  <1> DEFINE items == SignedItems(req, key, text)
             m == SignedBytes(req, key, text)
  <1> HIDE DEF items, m
  <1>2. IsSigned(req, items, m, key, text)
    BY <1>1, Zenon DEF items, m
  <1>3. m \in Seq(Byte) /\ m # <<>> /\ Len(m) = SignedLength(req) /\ PacksTo(items, m)
    BY <1>2 DEF IsSigned, Carries
  <1>4. pb_pack(items, size) = Limited(m, size)
    BY <1>3 DEF PacksTo
  <1> QED BY <1>3, <1>4, Zenon DEF items, m

(* A successful call has sent the signed action, whole. *)
LEMMA SentWhole ==
    ASSUME ActionInv, Success
    PROVE  IsSentWhole
  <1>1. pc = "done" /\ result.ret >= 0 /\ call \in Calls /\ SignerInv /\ Outcome
    BY DEF ActionInv, Success
  <1>2. \A code \in {1, PB_ERR_ENCBUF} : ~ (Failed(code).ret >= 0)
    BY DEF Failed, PB_ERR_ENCBUF
  <1>3. IsWhole
    BY <1>1, <1>2 DEF Outcome, IsRefused, IsTooLarge, IsUnsigned
  <1>4. IsRequest(call.req) /\ call.max_size \in Nat
    BY <1>1, CallIs
  <1> DEFINE key == public_key65(priv_key)
             text == SignatureBytes(sig)
             m == SignedBytes(call.req, key, text)
  <1>5. signing = "signed" /\ hashed = PaddedMessage(Core) /\ result = Limited(Whole, call.max_size)
    BY <1>3 DEF IsWhole
  <1>6. IsKeyText(key) /\ IsKeyText(text)
    BY <1>1, <1>5, SignedTexts
  <1> HIDE DEF key, text
  <1>7. m \in Seq(Byte) /\ m # <<>>
    BY <1>4, <1>6, WholeIs
  <1>8. IsSigned(call.req, SignedItems(call.req, key, text), m, key, text)
    BY <1>4, <1>6, SignedSent
  <1>9. Whole = m
    BY Zenon DEF Whole, key, text
  <1> HIDE DEF m
  <1>10. result.ret = Len(m) /\ result.bytes = m
    <2>1. result = Limited(m, call.max_size)
      BY <1>5, <1>9
    <2> QED BY <1>1, <1>2, <1>4, <1>7, <2>1, LimitedIs
  <1>11. Sent = m
    <2>1. Within(m, 0, m, 1, Len(m))
      <3>1. Len(m) \in Nat
        BY <1>7, LenProperties
      <3>2. At(m, 0, m)
        <4>1. \A i \in 1..Len(m) : 0 + i = i
          BY <3>1
        <4>2. 0 + Len(m) <= Len(m)
          BY <3>1
        <4> QED BY <4>1, <4>2 DEF At
      <3>3. 1 = 0 + 1 /\ Len(m) = 0 + Len(m) /\ 0 \in Nat
        BY <3>1
      <3> QED BY <1>7, <3>2, <3>3 DEF Within
    <2>2. SubSeq(m, 1, Len(m)) = m
      BY <2>1, AtSub
    <2> QED BY <1>10, <2>2, Zenon DEF Sent
  <1>12. IsSigned(call.req, SignedItems(call.req, public_key65(priv_key), SignatureBytes(sig)), Whole,
                  public_key65(priv_key), SignatureBytes(sig))
    BY <1>8, <1>9, Zenon DEF key, text
  <1> QED BY <1>1, <1>4, <1>5, <1>9, <1>11, <1>12, Zenon DEF IsSentWhole

(* The texts a node reads.                                                 *)
LEMMA SentFields ==
    ASSUME IsSentWhole
    PROVE  /\ Bytes(Sent, ACTION_CORE) = Core
           /\ Bytes(Sent, ACTION_SND_PUBKEY) = public_key65(priv_key)
           /\ Bytes(Sent, ACTION_SIGNATURE) = SignatureBytes(sig)
  BY DEF IsSentWhole, IsSigned, Core

(* The key and the signature that a node reads are the signer's. *)
LEMMA SentTexts ==
    ASSUME IsSentWhole
    PROVE  /\ SentKey = scalar_multiply[priv_key]
           /\ priv_key \in Scalar /\ digest \in Nat
           /\ \E k \in Scalar : IsSignature(priv_key, digest, SentSignature, k)
  <1>1. SignerInv /\ signing = "signed"
    BY DEF IsSentWhole
  <1>2. /\ priv_key \in Scalar /\ digest \in Nat
        /\ \E k \in Scalar : IsSignature(priv_key, digest, sig, k)
    BY <1>1 DEF SignerInv, Answered
  <1> DEFINE key == public_key65(priv_key)
             text == SignatureBytes(sig)
             Q == scalar_multiply[priv_key]
  <1>3. ReadsKey(key, Q) /\ ReadsSignature(text, sig)
    BY <1>1, SignedTexts
  <1>4. Bytes(Sent, ACTION_SND_PUBKEY) = key /\ Bytes(Sent, ACTION_SIGNATURE) = text
    BY SentFields
  <1>5. SentKey = <<NumberOf(SubSeq(key, 2, 33)), NumberOf(SubSeq(key, 34, 65))>>
    BY <1>4, Zenon DEF SentKey
  <1>6. SentSignature = [ r |-> NumberOf(SubSeq(text, 1, 32)), s |-> NumberOf(SubSeq(text, 33, 64)),
                          by |-> text[65] ]
    BY <1>4, Zenon DEF SentSignature
  <1> HIDE DEF key, text
  <1>7. SentKey = <<Q[1], Q[2]>>
    BY <1>3, <1>5, Zenon DEF ReadsKey
  <1>8. Q = <<Q[1], Q[2]>>
    <2>1. Q \in (0..(Prime - 1)) \X (1..(Prime - 1))
      BY <1>2, CurveAssumption DEF Scalar
    <2> HIDE DEF Q
    <2> QED BY <2>1
  <1>9. SentSignature.r = sig.r /\ SentSignature.s = sig.s /\ SentSignature.by = sig.by
    <2>1. SentSignature = [ r |-> sig.r, s |-> sig.s, by |-> sig.by ]
      BY <1>3, <1>6, Zenon DEF ReadsSignature
    <2> QED BY <2>1
  <1>10. \E k \in Scalar : IsSignature(priv_key, digest, SentSignature, k)
    <2>1. PICK k \in Scalar : IsSignature(priv_key, digest, sig, k)
      BY <1>2
    <2>2. IsSignature(priv_key, digest, SentSignature, k)
      BY <1>9, <2>1 DEF IsSignature
    <2> QED BY <2>2
  <1> QED BY <1>2, <1>7, <1>8, <1>10 DEF Q

-----------------------------------------------------------------------------
(* What was signed is what is sent, for every request, room and alignment: *)
(* the digest was taken from the core a node reads in the action, although *)
(* it was packed a second time, in another place and another room.         *)
THEOREM SignatureOfSentCore == Spec => []SignatureIsOfSentCore
  <1>1. ActionInv => SignatureIsOfSentCore
    <2> SUFFICES ASSUME ActionInv, Success
                 PROVE  hashed = PaddedMessage(Bytes(Sent, ACTION_CORE))
      BY DEF SignatureIsOfSentCore
    <2>1. IsSentWhole
      BY SentWhole
    <2> QED BY <2>1, SentFields DEF IsSentWhole
  <1> QED BY <1>1, ActionInvariant, PTL

(* The signature sent verifies with the public key sent, on every curve of *)
(* which CurveAssumption is true, for every key, digest and nonce.         *)
THEOREM ActionVerifies == Spec => []SentActionVerifies
  <1>1. ActionInv => SentActionVerifies
    <2> SUFFICES ASSUME ActionInv, Success
                 PROVE  Verifies(SentKey, digest, SentSignature)
      BY DEF SentActionVerifies
    <2>1. IsSentWhole
      BY SentWhole
    <2> QED BY <2>1, SentTexts, SignatureVerifies
  <1> QED BY <1>1, ActionInvariant, PTL

(* A node that recovers the sender's key from the signature and the        *)
(* recovery byte sent finds the key sent, also where s was negated.        *)
THEOREM SenderIsRecovered == Spec => []SenderRecovered
  <1>1. ActionInv => SenderRecovered
    <2> SUFFICES ASSUME ActionInv, Success
                 PROVE  Recovered(digest, SentSignature) = SentKey
      BY DEF SenderRecovered
    <2>1. IsSentWhole
      BY SentWhole
    <2> QED BY <2>1, SentTexts, KeyRecovered
  <1> QED BY <1>1, ActionInvariant, PTL

(* Bytes that an item can count are kept whole. *)
LEMMA GivenWhole ==
    ASSUME NEW b, IsBytes(b), Counted(b)
    PROVE  GivenBytes(b) = OrDefault(b, <<>>)
  <1>1. CASE b = NULL
    BY <1>1 DEF GivenBytes, OrDefault
  <1>2. CASE b # NULL
    <2>1. b \in Seq(Byte) /\ Len(b) <= 255
      BY <1>2 DEF IsBytes, Counted
    <2>2. Kept(b) = b
      BY <2>1, KeptIs
    <2> QED BY <1>2, <2>2 DEF GivenBytes, OrDefault
  <1> QED BY <1>1, <1>2

(* A node reads every field of the request as it was given, whichever are  *)
(* left out and however long they are, if the length of an item can count  *)
(* them (LengthsAssumption).                                               *)
THEOREM ActionWhole == Spec => []SentActionWhole
  <1>1. ActionInv => SentActionWhole
    <2> SUFFICES ASSUME ActionInv, Success
                 PROVE  SentActionWhole
      BY DEF SentActionWhole
    <2> DEFINE req == call.req
    <2>1. IsSentWhole
      BY SentWhole
    <2>2. IsRequest(req) /\ call \in Calls
      BY <2>1 DEF IsSentWhole, ActionInv
    <2>3. Bytes(Sent, ACTION_CORE) = CoreBytes(req)
      BY <2>1, SentFields DEF Core
    <2>4. IsCore(req, CoreItems(req), CoreBytes(req))
      BY <2>2, CoreSent
    <2>5. IsAction(req, ActionItems(req), ActionBytes(req))
      BY <2>2, ActionSent
    <2>6. /\ GivenBytes(req.gasPrice) = OrDefault(req.gasPrice, <<>>)
          /\ GivenBytes(req.amount) = OrDefault(req.amount, <<>>)
          /\ GivenBytes(req.to) = OrDefault(req.to, <<>>)
          /\ GivenBytes(req.data) = OrDefault(req.data, <<>>)
      BY <2>2, LengthsAssumption, GivenWhole DEF IsRequest
    <2> HIDE DEF req
    <2> DEFINE core == Bytes(Sent, ACTION_CORE)
               action == Bytes(core, req.id)
    <2>7. core = CoreBytes(req) /\ action = ActionBytes(req)
      BY <2>3, <2>4 DEF IsCore
    <2> HIDE DEF core, action
    <2>8. /\ Number(core, AC_VERSION)   = OrDefault(req.version, 0)
          /\ Number(core, AC_NONCE)     = OrDefault(req.nonce, 0)
          /\ Number(core, AC_GAS_LIMIT) = OrDefault(req.gasLimit, 0)
          /\ Bytes(core, AC_GAS_PRICE)  = OrDefault(req.gasPrice, <<>>)
          /\ Number(core, AC_CHAIN_ID)  = OrDefault(req.chainID, 0)
      BY <2>4, <2>6, <2>7 DEF IsCore
    <2>9. /\ Bytes(action, 1) = OrDefault(req.amount, <<>>)
          /\ Bytes(action, 2) = OrDefault(req.to, <<>>)
          /\ Bytes(action, 3) = OrDefault(req.data, <<>>)
      BY <2>5, <2>6, <2>7 DEF IsAction
    <2> QED BY <2>8, <2>9, Zenon DEF SentActionWhole, core, action, req
  <1> QED BY <1>1, ActionInvariant, PTL

(* The room an action needs does not depend on who signs it. *)
LEMMA NeededRoomIs ==
    ASSUME NEW req, IsRequest(req)
    PROVE  NeededRoom(req) = SignedLength(req)
  <1> DEFINE key == public_key65(1)
             text == SignatureBytes(NoSig)
             m == SignedBytes(req, key, text)
  <1>1. 1 \in Scalar /\ Ample \in Nat
    BY EcdsaAssumption DEF Scalar, Ample
  <1>2. IsKeyText(key) /\ IsKeyText(text)
    BY <1>1, PublicKeyIs, NoSigIs DEF ReadsKey
  <1> HIDE DEF key, text
  <1>3. /\ m \in Seq(Byte) /\ m # <<>> /\ Len(m) = SignedLength(req)
        /\ pb_pack(SignedItems(req, key, text), Ample) = Limited(m, Ample)
    BY <1>1, <1>2, WholeIs
  <1>4. NeededRoom(req) = pb_pack(SignedItems(req, key, text), Ample).ret
    BY Zenon DEF NeededRoom, key, text
  <1> HIDE DEF m
  <1>5. SignedLength(req) < Ample
    BY CorePacked
  <1>6. Limited(m, Ample).ret = Len(m)
    BY <1>1, <1>3, <1>5, LimitedIs
  <1> QED BY <1>3, <1>4, <1>6

(* A buffer is refused for its size if and only if the action would fill   *)
(* it: no packing on the way asks for more than the result takes.          *)
THEOREM RefusedForRoom == Spec => []RefusedOnlyForRoom
  <1>1. ActionInv => RefusedOnlyForRoom
    <2> SUFFICES ASSUME ActionInv, pc = "done", PrivateKey.ret = SIG_PRIVATE_KEY_SIZE,
                        signing # "failed"
                 PROVE  result.ret = -PB_ERR_ENCBUF <=> call.max_size <= NeededRoom(call.req)
      BY DEF RefusedOnlyForRoom
    <2> DEFINE max == call.max_size
               need == SignedLength(call.req)
    <2>1. IsRequest(call.req) /\ max \in Nat /\ SignerInv /\ (IsTooLarge \/ IsWhole)
      <3>1. call \in Calls /\ SignerInv /\ Outcome
        BY DEF ActionInv
      <3> QED BY <3>1, CallIs DEF Outcome, IsRefused, IsUnsigned
    <2>2. NeededRoom(call.req) = need
      BY <2>1, NeededRoomIs
    <2>3. /\ Core \in Seq(Byte) /\ Core # <<>> /\ Len(Core) <= need /\ need \in Nat
          /\ Len(Core) \in Nat
      BY <2>1, CorePacked, LenProperties DEF Core
    <2>4. CASE IsTooLarge
      <3>1. result.ret = -PB_ERR_ENCBUF /\ ~ (Len(Core) < max)
        BY <2>4 DEF IsTooLarge, Failed
      <3> HIDE DEF max, need
      <3>2. max <= need
        BY <2>1, <2>3, <3>1
      <3> QED BY <2>2, <3>1, <3>2 DEF max
    <2>5. CASE IsWhole
      <3> DEFINE key == public_key65(priv_key)
                 text == SignatureBytes(sig)
                 m == SignedBytes(call.req, key, text)
      <3>1. signing = "signed" /\ result = Limited(m, max)
        BY <2>5 DEF IsWhole, Whole
      <3>2. IsKeyText(key) /\ IsKeyText(text)
        BY <2>1, <3>1, SignedTexts
      <3> HIDE DEF key, text
      <3>3. m \in Seq(Byte) /\ m # <<>> /\ Len(m) = need
        BY <2>1, <3>2, WholeIs
      <3> HIDE DEF m, max, need
      <3>4. CASE need < max
        <4>1. result.ret = need
          BY <2>1, <3>1, <3>3, <3>4, LimitedIs
        <4>2. -PB_ERR_ENCBUF < 0
          BY DEF PB_ERR_ENCBUF
        <4>3. ~ (max <= need) /\ result.ret # -PB_ERR_ENCBUF
          BY <2>1, <2>3, <3>4, <4>1, <4>2 DEF PB_ERR_ENCBUF
        <4> QED BY <2>2, <4>3 DEF max
      <3>5. CASE ~ (need < max)
        <4>1. result.ret = -PB_ERR_ENCBUF
          BY <2>1, <3>1, <3>3, <3>5, LimitedIs
        <4>2. max <= need
          BY <2>1, <2>3, <3>5
        <4> QED BY <2>2, <4>1, <4>2 DEF max
      <3> QED BY <3>4, <3>5
    <2> QED BY <2>1, <2>4, <2>5
  <1> QED BY <1>1, ActionInvariant, PTL

=============================================================================
