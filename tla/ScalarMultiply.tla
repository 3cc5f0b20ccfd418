---------------------------- MODULE ScalarMultiply ----------------------------
(***************************************************************************)
(* scalar_multiply of src/crypto/ecdsa.c as it is built, with the table of *)
(* precomputed multiples (USE_PRECOMPUTED_CP): k * G is added up from odd  *)
(* digits of four bits, in Jacobian coordinates with a random denominator, *)
(* and the sum made affine by one inverse.  bn_inverse is the state        *)
(* machine of Inverse, which also runs on its own arguments.               *)
(***************************************************************************)
EXTENDS Inverse

CONSTANTS Prime, Order, A,   \* the curve's field, its order and its a
          Table,             \* curve->cp: rows of points as pairs of numbers
          Scalars,           \* what is multiplied with
          Blinds,            \* what generate_k_random answers
          Inverses           \* pairs of a number and a prime bn_inverse is given

VARIABLES pc,
          a,        \* what is left of the recoded scalar
          i,        \* the digit that is added next
          jres,     \* the sum so far
          res,      \* the result
          scalar    \* k as it was given

vars == <<pc, a, i, jres, res, scalar, inverseVars>>

Limbs(m) == bn_read_be([n \in 0..(NLimbs - 2) |->
                           (m \div Word^(NLimbs - 2 - n)) % Word])

prime == Limbs(Prime)
order == Limbs(Order)

NDigits == Bits \div 4     \* 64

cp(row, n) == [x |-> Limbs(Table[row + 1][n + 1][1]), y |-> Limbs(Table[row + 1][n + 1][2])]

Infinity == [x |-> Limbs(0), y |-> Limbs(0)]

-----------------------------------------------------------------------------
Times(p, q) == bn_multiply(p, q, prime)

(* 2 * prime - a. *)
Negated(n) ==
    Carried(Base, 1, [j \in Digits |-> Base - 1 + 2 * prime[j] - n[j]], Word)

conditional_negate(cond, n) == IF cond THEN Negated(n) ELSE n

(* What conditional_negate asserts of its argument and of its result.      *)
NegatesInRoom(cond, n) ==
    n[Top] < 2^(TopBits + 1) /\ conditional_negate(cond, n)[Top] < 2^(TopBits + 1)

curve_to_jacobian(p, z) ==
    LET zz == Times(z, z)
    IN  [x |-> Times(p.x, zz), y |-> Times(p.y, Times(z, zz)), z |-> z]

(* jacobian_to_curve, when bn_inverse has answered zi. *)
jacobian_to_curve(jp, zi) ==
    LET zz == Times(zi, zi)
    IN  [x |-> bn_mod(Times(jp.x, zz), prime),
         y |-> bn_mod(Times(jp.y, Times(zz, zi)), prime)]

(* x1' - x2 is a positive multiple of prime, which fast_mod makes prime.   *)
IsDoubling(h) == bn_is_equal(h, prime)

(* The affine p1 brought to the denominator z, and -a * z^4. *)
SameDenominator(p1, z) ==
    LET zz == Times(z, z)
    IN  [x  |-> Times(p1.x, zz), y |-> Times(p1.y, Times(zz, z)),
         az |-> bn_mult_k(Times(zz, zz), -A, prime)]

(* The line through both, or the tangent, has the slope r / (h * z2).      *)
Line(p1, p2) ==
    LET dx   == bn_fast_mod(bn_subtractmod(p1.x, p2.x, prime), prime)
        dy   == bn_subtractmod(p1.y, p2.y, prime)
        sumy == bn_add(p1.y, p2.y)
        xx3  == bn_mult_k(Times(p2.x, p2.x), 3, prime)
        tangent == IF A # 0 THEN bn_subtractmod(xx3, p1.az, prime) ELSE xx3
        is_doubling == IsDoubling(dx)
    IN  [r |-> bn_cmov(is_doubling, tangent, dy), h |-> bn_cmov(is_doubling, sumy, dx),
         sumx |-> bn_add(p1.x, p2.x), sumy |-> sumy]

WithPowers(line) ==
    LET hsq == Times(line.h, line.h)
    IN  [r |-> line.r, h |-> line.h, hsqx |-> Times(line.sumx, hsq),
         hcby |-> Times(line.sumy, Times(hsq, line.h))]

X3(line) == bn_fast_mod(bn_subtractmod(Times(line.r, line.r), line.hsqx, prime), prime)

Y3(line, x3) ==
    LET dx == bn_subtractmod(bn_subtractmod(line.hsqx, x3, prime), x3, prime)
        twice == bn_subtractmod(Times(line.r, dx), line.hcby, prime)
    IN  bn_fast_mod(bn_mult_half(twice, prime), prime)

Intersection(line, x3, z) == [x |-> x3, y |-> Y3(line, x3), z |-> Times(line.h, z)]

ThirdPoint(line, z) == Intersection(line, X3(line), z)

point_jacobian_add(p1, p2) ==
    ThirdPoint(WithPowers(Line(SameDenominator(p1, p2.z), p2)), p2.z)

-----------------------------------------------------------------------------
(* n + 2^256, less the order if that is even: an odd number. *)
Recoded(n) ==
    LET off(j) == IF n[0] % 2 = 0 THEN order[j] ELSE 0
        sum == Loop(Base, 1,
                    [j \in Digits |-> (IF j = Top THEN 2^TopBits ELSE Base) - 1 + n[j] - off(j)],
                    Word)
    IN  [sum.digits EXCEPT ![Top] = @ + Base * sum.carry]

ShiftedBy4(n) ==
    [j \in Digits |-> IF j = Top THEN n[j] \div 16
                      ELSE (n[j] \div 16) + (n[j + 1] % 16) * 2^(LimbBits - 4)]

Bit4(n) == (n[0] \div 16) % 2 = 1

(* The lowest digit: its half is the column of the table that has its      *)
(* absolute value, and it is even when the sum so far has the other sign.  *)
lowbits(n) == IF Bit4(n) THEN n[0] % 16 ELSE 15 - (n[0] % 16)

Idle ==
    /\ pc = "idle" /\ a = << >> /\ i = 0 /\ jres = << >> /\ res = << >> /\ scalar = 0

Init == Idle /\ Ready

StartInverse(n, m) ==
    /\ pc = "idle"
    /\ EnterInverse(Limbs(n), Limbs(m))
    /\ pc' = "inverting"
    /\ UNCHANGED <<a, i, jres, res, scalar>>

Start(n, z) ==
    /\ pc = "idle"
    /\ scalar' = n
    /\ LET limbs == Limbs(n)
       IN  IF ~ bn_is_less(limbs, order)
           THEN pc' = "aborted" /\ UNCHANGED <<a, i, jres, res>>
           ELSE IF bn_is_zero(limbs)
           THEN pc' = "done" /\ res' = Infinity /\ UNCHANGED <<a, i, jres>>
           ELSE /\ pc' = "adding"
                /\ a' = Recoded(limbs)
                /\ i' = 1
                /\ jres' = curve_to_jacobian(cp(0, lowbits(Recoded(limbs)) \div 2), Limbs(z))
                /\ UNCHANGED res
    /\ UNCHANGED inverseVars

(* Mutant: the sum keeps its sign when the digit's is the other one.       *)
AddDigitSign ==
    /\ pc = "adding" /\ i < NDigits
    /\ LET low == lowbits(ShiftedBy4(a))
       IN  jres' = point_jacobian_add(cp(i, low \div 2), jres)
    /\ a' = ShiftedBy4(a)
    /\ i' = i + 1
    /\ UNCHANGED <<pc, res, scalar, inverseVars>>

(* The sum takes the sign of the next digit, whose absolute value is added. *)
AddDigit ==
    /\ pc = "adding" /\ i < NDigits
    /\ LET low == lowbits(ShiftedBy4(a))
       IN  jres' = point_jacobian_add(cp(i, low \div 2),
                       [jres EXCEPT !.y = conditional_negate(low % 2 = 0, @)])
    /\ a' = ShiftedBy4(a)
    /\ i' = i + 1
    /\ UNCHANGED <<pc, res, scalar, inverseVars>>

(* Mutant: the sum keeps the sign it was added up with.                    *)
LastSignKept ==
    /\ pc = "adding" /\ i = NDigits
    /\ EnterInverse(jres.z, prime)
    /\ pc' = "inverting"
    /\ UNCHANGED <<a, i, jres, res, scalar>>

(* The result has the sign of the scalar's last digit.                     *)
LastSign ==
    /\ pc = "adding" /\ i = NDigits
    /\ jres' = [jres EXCEPT !.y = conditional_negate(~ Bit4(a), @)]
    /\ EnterInverse(jres.z, prime)
    /\ pc' = "inverting"
    /\ UNCHANGED <<a, i, res, scalar>>

Invert == pc = "inverting" /\ InverseStep /\ UNCHANGED <<pc, a, i, jres, res, scalar>>

Affine ==
    /\ pc = "inverting" /\ phase = "inverted"
    /\ pc' = "done"
    /\ res' = IF jres = << >> THEN res ELSE jacobian_to_curve(jres, inverse)
    /\ UNCHANGED <<a, i, jres, scalar, inverseVars>>

Next ==
    \/ \E p \in Inverses : StartInverse(p[1], p[2])
    \/ \E n \in Scalars, z \in Blinds : Start(n, z)
    \/ AddDigit \/ LastSign \/ Invert \/ Affine

Spec == Init /\ [][Next]_vars

-----------------------------------------------------------------------------
(* The curve's own arithmetic, on numbers and affine points.               *)
MulMod(p, q, m) ==
    LET half == 2^(Bits \div 2)
    IN  (((p * (q \div half)) % m) * half + p * (q % half)) % m

PowMod(p, n, m) ==
    LET power[j \in 0..n] ==
            IF j = 0 THEN 1
            ELSE LET half == power[j \div 2]
                     square == MulMod(half, half, m)
                 IN  IF j % 2 = 0 THEN square ELSE MulMod(square, p, m)
    IN  power[n]

InverseMod(p) == PowMod(p, Prime - 2, Prime)

O == <<0, 0>>

PointSum(p, q) ==
    LET slope == IF p = q THEN MulMod((3 * MulMod(p[1], p[1], Prime) + A) % Prime,
                                      InverseMod((2 * p[2]) % Prime), Prime)
                 ELSE MulMod((q[2] - p[2]) % Prime, InverseMod((q[1] - p[1]) % Prime), Prime)
        xr == (MulMod(slope, slope, Prime) - p[1] - q[1]) % Prime
    IN  IF p = O THEN q ELSE IF q = O THEN p
        ELSE IF p[1] = q[1] /\ (p[2] + q[2]) % Prime = 0 THEN O
        ELSE <<xr, (MulMod(slope, (p[1] - xr) % Prime, Prime) - p[2]) % Prime>>

Multiple(n) ==
    LET times[j \in 0..n] ==
            IF j = 0 THEN O
            ELSE LET half  == times[j \div 2]
                     twice == PointSum(half, half)
                 IN  IF j % 2 = 0 THEN twice ELSE PointSum(twice, Table[1][1])
    IN  times[n % Order]

(* A precondition on the table: cp[row][n] = (2 n + 1) * 16^row * G.       *)
TableOfMultiples ==
    \A row \in 0..(NDigits - 1), n \in 0..7 :
        Table[row + 1][n + 1] = Multiple((2 * n + 1) * 16^row)

-----------------------------------------------------------------------------
(* What the comment in the loop of bn_inverse promises of u, v, r, s and   *)
(* k, after every round and between its halves: no shift loses a bit of    *)
(* either number of a register.                                            *)
HalvesKept ==
    phase \in {"strip", "compare"} =>
        LET m == Number(mod)
            n == Number(x) % m
            u == First(regs.us)
            s == Second(regs.us)
            v == First(regs.vr)
            r == Second(regs.vr)
            pow == PowMod(2, k, m)
        IN  /\ u * s + v * r = m
            /\ MulMod(n, s % m, m) = MulMod(v % m, pow, m)
            /\ MulMod(n, r % m, m) = (-MulMod(u % m, pow, m)) % m
            /\ regs[odd].a[0] % 2 = 1 /\ regs[odd].a[Top] % 2 = 1
            /\ phase = "compare" => regs[even].a[0] % 2 = 1 /\ regs[even].a[Top] % 2 = 0

(* That leads to the inverse, fully reduced, of whatever the library asks  *)
(* for. It does not ask for the inverse of zero: no sum of digits of a     *)
(* scalar below the order is the point at infinity.                        *)
InverseRight ==
    /\ HalvesKept
    /\ phase = "strip" => FindsWord
    /\ phase = "inverted" =>
        /\ MulMod(Number(x) % Number(mod), Number(inverse), Number(mod)) = 1
        /\ Number(inverse) < Number(mod)

(* The comment in the loop of scalar_multiply: the sum so far is           *)
(* sign(a[i-1]) times the digits' multiples of G, whatever its             *)
(* denominator, and it is partly reduced, as its additions rely on.        *)
SumOfDigits ==
    pc = "adding" =>
        LET k0    == Number(Recoded(Limbs(scalar)))
            rest  == (k0 \div 16^i) + (IF Bit4(a) THEN 0 ELSE 1)
            sum   == k0 - rest * 16^i
            point == Multiple(IF Bit4(a) THEN sum % Order ELSE (-sum) % Order)
            z     == Number(jres.z) % Prime
            zz    == MulMod(z, z, Prime)
        IN  /\ Number(jres.x) % Prime = MulMod(point[1], zz, Prime)
            /\ Number(jres.y) % Prime = MulMod(point[2], MulMod(z, zz, Prime), Prime)
            /\ \A n \in {jres.x, jres.y, jres.z} : Normalized(n) /\ Number(n) < 2 * Prime
            /\ \A sign \in BOOLEAN : NegatesInRoom(sign, jres.y)

(* The result is k * G, fully reduced, for every scalar below the order.   *)
ResultIsMultiple ==
    pc = "done" /\ scalar # 0 =>
        <<Number(res.x), Number(res.y)>> = Multiple(scalar)
===============================================================================
