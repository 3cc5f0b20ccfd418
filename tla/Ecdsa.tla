--------------------------------- MODULE Ecdsa ---------------------------------
(***************************************************************************)
(* ecdsa_sign_digest of src/crypto/ecdsa.c on a curve y^2 = x^3 + b with   *)
(* its own arithmetic, small enough to be checked. The numbers of          *)
(* src/crypto/bignum.c are modelled by their values, the points by their   *)
(* affine coordinates.                                                     *)
(***************************************************************************)
EXTENDS Integers

CONSTANTS Prime, Order, G,  \* the curve's field, the prime order and the generator
          WordMax,          \* the largest number 32 bytes hold
          MaxTries,         \* 10000 in the code
          Blinds            \* what generate_k_random may answer

ASSUME EcdsaAssumption ==
    /\ Prime \in Nat /\ Order \in Nat \ {0, 1} /\ WordMax \in Nat
    /\ MaxTries \in Nat \ {0} /\ Blinds \subseteq 1..(Order - 1)

VARIABLES signing,  \* "idle", "try", "signed" or "failed"
          priv_key, digest,
          tries,
          sig       \* r, s and the recovery byte by

ecdsaVars == <<signing, priv_key, digest, tries, sig>>

-----------------------------------------------------------------------------
bn_inverse(a, m) == CHOOSE b \in 1..(m - 1) : (a * b) % m = 1

Infinity == <<0, 0>>

point_double(q) ==
    IF q = Infinity \/ q[2] = 0 THEN Infinity
    ELSE LET lambda == (3 * q[1] * q[1] * bn_inverse(2 * q[2], Prime)) % Prime
             xr == (lambda * lambda - 2 * q[1]) % Prime
         IN  <<xr, (lambda * (q[1] - xr) - q[2]) % Prime>>

point_add(p, q) ==
    IF p = Infinity THEN q
    ELSE IF q = Infinity THEN p
    ELSE IF p = q THEN point_double(q)
    ELSE IF p[1] = q[1] THEN Infinity
    ELSE LET lambda == ((q[2] - p[2]) * bn_inverse((q[1] - p[1]) % Prime, Prime)) % Prime
             xr == (lambda * lambda - p[1] - q[1]) % Prime
         IN  <<xr, (lambda * (p[1] - xr) - p[2]) % Prime>>

(* scalar_multiply, which adds multiples of G from a table, by its result. *)
scalar_multiply[k \in 0..(Order - 1)] ==
    IF k = 0 THEN Infinity ELSE point_add(G, scalar_multiply[k - 1])

(* What the signer relies on of its curve: the order is prime, there are   *)
(* two points to every x, each the other's negative, and none has y = 0;   *)
(* and x is less than twice the order, so that two bits recover it.        *)
ASSUME CurveAssumption ==
    /\ \A a \in 1..(Order - 1) : \E b \in 1..(Order - 1) : (a * b) % Order = 1
    /\ Prime % 2 = 1 /\ Prime < 2 * Order
    /\ scalar_multiply[0] = Infinity
    /\ \A k \in 1..(Order - 1) :
           /\ scalar_multiply[k] \in (0..(Prime - 1)) \X (1..(Prime - 1))
           /\ scalar_multiply[Order - k]
                  = <<scalar_multiply[k][1], Prime - scalar_multiply[k][2]>>
           /\ \A j \in 1..(Order - 1) :
                  scalar_multiply[j][1] = scalar_multiply[k][1] => j \in {k, Order - k}

order_half == Order \div 2

NoSig == [r |-> 0, s |-> 0, by |-> 0]

EcdsaInit ==
    /\ signing = "idle" /\ priv_key = 1 /\ digest = 0
    /\ tries = 0 /\ sig = NoSig

Sign(priv, hash) ==
    /\ signing' = "try"
    /\ priv_key' = priv /\ digest' = hash
    /\ tries' = 0 /\ sig' = NoSig

-----------------------------------------------------------------------------
(* continue: the next round of the loop, if there is one.                  *)
Retry ==
    /\ tries' = tries + 1
    /\ signing' = IF tries + 1 = MaxTries THEN "failed" ELSE "try"
    /\ UNCHANGED <<priv_key, digest, sig>>

(* The two bits that tell which point has r as its x: the parity of its y, *)
(* and whether x was larger than the order.                                *)
RecoveryByte(R) == (R[2] % 2) + (IF R[1] < Order THEN 0 ELSE 2)

(* Mutant: the blinding is not taken out again.                            *)
ScalarSBlinded(k, rand, r) ==
    (bn_inverse((rand * k) % Order, Order) * (r * priv_key + digest)) % Order

(* (k * rand)^-1 * rand * (r * priv + z): the blinding cancels out.        *)
ScalarS(k, rand, r) ==
    (bn_inverse((rand * k) % Order, Order)
        * (rand * (r * priv_key + digest) % Order)) % Order

FlipParity(by) == IF by % 2 = 0 THEN by + 1 ELSE by - 1

(* Mutant: s is negated, the recovery byte is not adjusted. *)
LowSParityKept(r, s, by) ==
    IF order_half < s THEN [r |-> r, s |-> Order - s, by |-> by]
    ELSE [r |-> r, s |-> s, by |-> by]

LowS(r, s, by) ==
    IF order_half < s THEN [r |-> r, s |-> Order - s, by |-> FlipParity(by)]
    ELSE [r |-> r, s |-> s, by |-> by]

Signed(r, s, by) ==
    /\ sig' = LowS(r, s, by) /\ signing' = "signed"
    /\ UNCHANGED <<priv_key, digest, tries>>

(* A round of the loop: not with a nonce k that is zero or too large, nor  *)
(* with an r or an s that is zero.                                         *)
EcdsaStep ==
    /\ signing = "try"
    /\ \E k \in 0..WordMax, rand \in Blinds :
           IF k = 0 \/ ~ (k < Order) THEN Retry
           ELSE LET R == scalar_multiply[k]
                    r == R[1] % Order
                    s == ScalarS(k, rand, r)
                IN  IF r = 0 \/ s = 0 THEN Retry ELSE Signed(r, s, RecoveryByte(R))

-----------------------------------------------------------------------------
(* What a receiver computes from a signature and a public key.             *)
Log(P) == CHOOSE k \in 0..(Order - 1) : scalar_multiply[k] = P

Verifies(Q, z, sg) ==
    LET w == bn_inverse(sg.s, Order)
        P == scalar_multiply[(w * (z + sg.r * Log(Q))) % Order]
    IN  P # Infinity /\ P[1] % Order = sg.r

(* The public key recovered from r, s and the recovery byte.               *)
Recovered(z, sg) ==
    LET x == sg.r + (IF sg.by \div 2 = 1 THEN Order ELSE 0)
        k == CHOOSE j \in 1..(Order - 1) :
                 scalar_multiply[j][1] = x /\ scalar_multiply[j][2] % 2 = sg.by % 2
    IN  scalar_multiply[(bn_inverse(sg.r, Order) * (sg.s * k - z)) % Order]

=============================================================================
