-------------------------------- MODULE Bignum --------------------------------
(***************************************************************************)
(* The 256 bit arithmetic of src/crypto/bignum.c, limb by limb.  A         *)
(* bignum256 has NLimbs digits of LimbBits bits, each in a word that is    *)
(* two bits wider; 9 and 30 in the code, whose masks and shifts are all    *)
(* derived from these two.  A number read from NLimbs - 1 words of data    *)
(* leaves bits of the last digit free for what is not reduced yet.         *)
(*                                                                         *)
(* An operator has the name of the function and its value is what the      *)
(* function stores; mod is the argument prime.                             *)
(***************************************************************************)
EXTENDS Integers, SequencesExt, FiniteSetsExt

CONSTANTS NLimbs, LimbBits

ASSUME LimbsAssumption == NLimbs \in Nat \ {0, 1} /\ LimbBits \in Nat \ {0, 1}

WordBits == LimbBits + 2
Bits     == (NLimbs - 1) * WordBits         \* 256
TopBits  == Bits - (NLimbs - 1) * LimbBits  \* 16: the bits of the last digit

Base   == 2^LimbBits      \* 0x3FFFFFFF is Base - 1
Word   == 2^WordBits      \* what a uint32_t counts modulo
Double == 2^(2 * WordBits)  \* and a uint64_t

Digits == 0..(NLimbs - 1)
Top   == NLimbs - 1

Number(a) == MapThenSumSet(LAMBDA i : a[i] * Base^i, DOMAIN a)

Normalized(a) == \A i \in DOMAIN a : a[i] \in 0..(Base - 1)

-----------------------------------------------------------------------------
(* The loop of most functions: temp, of size 2^32 or 2^64, starts with     *)
(* carry, takes f[i] in, leaves its low part in digit i, the rest carries. *)
Loop(base, carry, f, size) ==
    FoldLeft(LAMBDA t, i :
                 LET temp == (t.carry + f[i]) % size
                 IN  [digits |-> t.digits @@ (i :> temp % base), carry |-> temp \div base],
             [digits |-> << >>, carry |-> carry],
             [n \in 1..Cardinality(DOMAIN f) |-> n - 1])

Carried(base, carry, f, size) == Loop(base, carry, f, size).digits

(* A digit that has a word of the data, the most significant word first.   *)
bn_read_be(data) ==
    LET limb(i) == data[NLimbs - 2 - i]
        temp(i) == IF i = 0 THEN 0 ELSE limb(i - 1) \div 2^(LimbBits - 2 * (i - 1))
    IN  [i \in Digits |-> IF i = Top THEN temp(i)
                          ELSE (temp(i) + ((limb(i) * 2^(2 * i)) % Word)) % Base]

(* Mutant: each digit gives its word the bits of the digit above's place.  *)
bn_write_be_aligned(a) ==
    [i \in 0..(NLimbs - 2) |->
        ((a[Top - i] * 2^(WordBits - TopBits)) % Word)
            + (a[Top - i - 1] \div 2^(TopBits - 2))]

bn_write_be(a) ==
    [i \in 0..(NLimbs - 2) |->
        ((a[Top - i] * 2^(WordBits - TopBits + 2 * i)) % Word)
            + (a[Top - i - 1] \div 2^(TopBits - 2 - 2 * i))]

bn_is_zero(a) == \A i \in Digits : a[i] = 0

bn_is_equal(a, b) == \A i \in Digits : a[i] = b[i]

bn_is_less(a, b) ==
    \E i \in Digits : a[i] < b[i] /\ \A j \in (i + 1)..Top : a[j] = b[j]

bn_cmov(cond, truecase, falsecase) == IF cond THEN truecase ELSE falsecase

bn_lshift(a) ==
    LET carry(i) == IF i = 0 THEN 0 ELSE a[i - 1] \div 2^(LimbBits - 1)
    IN  [i \in Digits |-> ((2 * a[i]) % Base) + carry(i)]

-----------------------------------------------------------------------------
(* Sums and differences.  A difference adds Base - 1 to every digit and    *)
(* one in the beginning, so that no digit is negative.                     *)
bn_add(a, b) == Carried(Base, 0, [i \in Digits |-> a[i] + b[i]], Word)

bn_subtract(a, b) ==
    Carried(Base, 1, [i \in Digits |-> Base - 1 + a[i] - b[i]], Word)

(* Mutant: prime is added once, as if b were fully reduced.                *)
bn_subtractmod_once(a, b, mod) ==
    Carried(Base, 1, [i \in Digits |-> Base - 1 + a[i] + mod[i] - b[i]], Word)

bn_subtractmod(a, b, mod) ==
    Carried(Base, 1, [i \in Digits |-> Base - 1 + a[i] + 2 * mod[i] - b[i]], Word)

bn_subi(a, b, mod) == bn_add([a EXCEPT ![0] = (@ - b) % Word], mod)

(* x / 2 modulo prime: prime is added first when x is odd.                 *)
bn_mult_half(x, mod) ==
    LET xodd == x[0] % 2 = 1
        sum(i) == IF xodd THEN x[i] + mod[i] ELSE x[i]
        low(i) == IF i < Top THEN (sum(i + 1) % 2) * 2^(LimbBits - 1) ELSE 0
    IN  Carried(Base, 0, [i \in Digits |-> (sum(i) \div 2) + low(i)], Word)

(* bn_mod: one subtraction, for what is partly reduced.                    *)
bn_mod(x, mod) == bn_cmov(bn_is_less(x, mod), x, bn_subtract(x, mod))

-----------------------------------------------------------------------------
(* Reductions subtract coef * prime from the digits k to k + Top, coef    *)
(* being what is above the bits of prime.  What each digit adds to stay    *)
(* positive the next one takes back: 2^61 and 0x1FFFFFFF80000000.          *)
Offset(i) == 2^(2 * LimbBits + 1) - (IF i = 0 THEN 0 ELSE 2^(LimbBits + 1))

LessMultiple(x, coef, mod) ==
    Carried(Base, 0,
        [i \in DOMAIN x |-> Offset(i) + x[i] - (IF i \in Digits THEN mod[i] * coef ELSE 0)],
        Double)

bn_fast_mod(x, mod) == LessMultiple(x, x[Top] \div 2^TopBits, mod)

bn_addmod(a, b, mod) == bn_fast_mod([i \in Digits |-> (a[i] + b[i]) % Word], mod)

bn_mult_k(x, k, mod) == bn_fast_mod([i \in Digits |-> (k * x[i]) % Word], mod)

bn_multiply_long(k, x) ==
    LET f == [i \in 0..(2 * NLimbs - 1) |->
                 MapThenSumSet(LAMBDA j : k[j] * x[i - j],
                               { j \in Digits : i - j \in Digits })]
    IN  Carried(Base, 0, f, Double)

(* Mutant: the digit above is forgotten in coef.                           *)
CoefLow(res, i) == res[i] \div 2^TopBits

Coef(res, i) == ((res[i] \div 2^TopBits) + res[i + 1] * 2^(LimbBits - TopBits)) % Word

bn_multiply_reduce_step(res, mod, i) ==
    LET low  == i - Top
        part == LessMultiple([j \in 0..NLimbs |-> res[low + j]], Coef(res, i), mod)
    IN  [j \in DOMAIN res |-> IF j \in low..(i + 1) THEN part[j - low] ELSE res[j]]

(* bn_multiply_reduce, and whether its assertions and its steps' held.     *)
Reduction(k, x, mod) ==
    FoldLeft(LAMBDA r, n :
                 LET i    == 2 * NLimbs - 1 - n
                     next == bn_multiply_reduce_step(r.res, mod, i)
                 IN  [res |-> next,
                      asserted |-> /\ r.asserted /\ next[i + 1] = 0
                                   /\ Coef(r.res, i) < 2^(LimbBits + 1)],
             [res |-> bn_multiply_long(k, x), asserted |-> TRUE],
             [n \in 1..NLimbs |-> n])

bn_multiply(k, x, mod) ==
    LET res == Reduction(k, x, mod).res IN [i \in Digits |-> res[i]]

MultiplyAsserts(k, x, mod) == Reduction(k, x, mod).asserted

===============================================================================
