------------------------------ MODULE Arithmetic ------------------------------
(***************************************************************************)
(* Sequences of calls of src/crypto/bignum.c on one number, each call with *)
(* arguments its comment allows.  acc is the number; value and bound are   *)
(* not in the program: acc stands for value modulo mod, and the comments   *)
(* say that it is below bound * mod, so that bound = 2 is what they call   *)
(* partly reduced and bound = 1 fully reduced.                             *)
(***************************************************************************)
EXTENDS Bignum

CONSTANTS Moduli,    \* the primes
          Data,      \* what is read, as words
          MaxSteps   \* calls in a row

VARIABLES acc, value, bound, mod, steps

vars == <<acc, value, bound, mod, steps>>

(* What a number may be a multiple of prime for, below which it fits, and  *)
(* what two factors together may be: 2^14 and 2^15, and the comment of     *)
(* bn_multiply allows 180 for each of them.                                *)
Fits    == 2^(LimbBits - TopBits)
Factors == 2^(LimbBits - TopBits + 1)

Limbs(m) == bn_read_be([i \in 0..(NLimbs - 2) |->
                           (m \div Word^(NLimbs - 2 - i)) % Word])

Operands == { bn_read_be(d) : d \in Data }

(* a * b modulo m, by halves of b. *)
MulMod(a, b, m) ==
    LET half == 2^(Bits \div 2)
    IN  (((a * (b \div half)) % m) * half + a * (b % half)) % m

(* The odd m's inverse of two is (m + 1) / 2. *)
HalfMod(a, m) == IF a % 2 = 0 THEN a \div 2 ELSE (a + m) \div 2

-----------------------------------------------------------------------------
Init ==
    /\ mod \in { Limbs(m) : m \in Moduli }
    /\ acc \in Operands
    /\ value = Number(acc) % Number(mod)
    /\ bound = 2
    /\ steps = 0

Call(result, v, b) ==
    /\ steps < MaxSteps /\ steps' = steps + 1
    /\ b <= Fits
    /\ acc' = result
    /\ value' = v % Number(mod)
    /\ bound' = b
    /\ UNCHANGED mod

Multiply(y) ==
    /\ bound * 2 <= Factors
    /\ Call(bn_multiply(y, acc, mod),
            MulMod(value, Number(y) % Number(mod), Number(mod)), 2)

Square ==
    /\ bound * bound <= Factors
    /\ Call(bn_multiply(acc, acc, mod), MulMod(value, value, Number(mod)), 2)

Add(y) == Call(bn_add(acc, y), value + Number(y), bound + 2)

AddMod(y) == Call(bn_addmod(acc, y, mod), value + Number(y), 2)

SubtractFrom(y) ==
    /\ bound <= 2
    /\ Call(bn_subtractmod(y, acc, mod), Number(y) - value, 4)

Subtract(y) == Call(bn_subtractmod(acc, y, mod), value - Number(y), bound + 2)

SubtractSmall(b) ==
    /\ b <= mod[0]
    /\ Call(bn_subi(acc, b, mod), value - b, bound + 1)

Halve == Call(bn_mult_half(acc, mod), HalfMod(value, Number(mod)), (bound + 2) \div 2)

MultiplyBy(k) == Call(bn_mult_k(acc, k, mod), k * value, 2)

Shift == Call(bn_lshift(acc), 2 * value, 2 * bound)

FastMod == Call(bn_fast_mod(acc, mod), value, 2)

Mod == bound <= 2 /\ Call(bn_mod(acc, mod), value, 1)

Next ==
    \/ \E y \in Operands : Multiply(y) \/ Add(y) \/ AddMod(y) \/ Subtract(y) \/ SubtractFrom(y)
    \/ Square \/ Halve \/ Shift \/ FastMod \/ Mod
    \/ \E b \in 0..3 : SubtractSmall(b)
    \/ \E k \in 0..4 : MultiplyBy(k)

Spec == Init /\ [][Next]_vars

-----------------------------------------------------------------------------
(* No carry, borrow or reduction loses a digit: whatever is called in      *)
(* whatever order, the number stays congruent to what was computed, its    *)
(* digits are normalized, and it is below the multiple of prime that the   *)
(* comments guarantee and the next call relies on.                         *)
ResultKept ==
    /\ Number(acc) % Number(mod) = value
    /\ Normalized(acc) /\ Number(acc) < bound * Number(mod)

(* No call of bn_multiply the comments allow stops in an assertion.        *)
AssertionsHold ==
    /\ bound * 2 <= Factors => \A y \in Operands : MultiplyAsserts(y, acc, mod)
    /\ bound * bound <= Factors => MultiplyAsserts(acc, acc, mod)

(* What is fully reduced is written into the words it is read back from.   *)
WrittenReadBack == bound = 1 => bn_read_be(bn_write_be(acc)) = acc
===============================================================================
