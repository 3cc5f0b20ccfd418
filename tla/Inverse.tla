-------------------------------- MODULE Inverse --------------------------------
(***************************************************************************)
(* bn_inverse of src/crypto/bignum.c as it is built (USE_INVERSE_FAST).    *)
(* Two registers of NLimbs words each hold two numbers, us holds u and s,  *)
(* vr holds v and r: the first len1 words are u or v, the least            *)
(* significant first, the others are s or r, the most significant first.   *)
(* A step is half a round of the loop, and then a division by a power of   *)
(* two.                                                                    *)
(***************************************************************************)
EXTENDS Bignum

VARIABLES phase,    \* where bn_inverse stands
          x, mod,   \* its arguments, as they are given
          regs,     \* the registers us and vr
          even,     \* the name of the one even points to; odd is the other
          k

inverseVars == <<phase, x, mod, regs, even, k>>

odd == IF even = "us" THEN "vr" ELSE "us"

(* A number as words, the least significant first, and back. *)
ToWords(a) ==
    [i \in 0..(NLimbs - 2) |->
        (a[i] \div 2^(2 * i)) + ((a[i + 1] * 2^(LimbBits - 2 * i)) % Word)]

FromWords(w) == bn_read_be([i \in DOMAIN w |-> w[NLimbs - 2 - i]])

First(reg)  == MapThenSumSet(LAMBDA i : reg.a[i] * Word^i, 0..(reg.len1 - 1))
Second(reg) == MapThenSumSet(LAMBDA i : reg.a[i] * Word^(Top - i), reg.len1..Top)

Register(words, second) ==
    [a |-> [i \in Digits |-> IF i = Top THEN second ELSE words[i]], len1 |-> Top]

-----------------------------------------------------------------------------
(* Shifting the whole register by a word moves it from the first number to *)
(* the second one: v / 2^32 and r * 2^32.                                  *)
ShiftWords(reg, n) ==
    [a |-> [i \in Digits |-> IF i + n <= Top THEN reg.a[i + n] ELSE 0],
     len1 |-> reg.len1 - n]

(* Mutant: the second number is not shifted when the first one gets        *)
(* shorter by the shift.                                                   *)
ShiftBitsLen(reg, j) ==
    LET up(i)   == (reg.a[i] \div 2^j)
                     + (IF i + 1 < reg.len1 THEN (reg.a[i + 1] * 2^(WordBits - j)) % Word ELSE 0)
        half    == [i \in Digits |-> IF i < reg.len1 THEN up(i) ELSE reg.a[i]]
        down(i) == ((half[i] * 2^j) % Word)
                     + (IF i < Top THEN half[i + 1] \div 2^(WordBits - j) ELSE 0)
    IN  [a    |-> [i \in Digits |-> IF i < reg.len1 THEN half[i] ELSE down(i)],
         len1 |-> reg.len1]

(* The first number goes right by j bits, and may lose a word by it; the   *)
(* second one goes left.                                                   *)
ShiftBits(reg, j) ==
    LET up(i)   == (reg.a[i] \div 2^j)
                     + (IF i + 1 < reg.len1 THEN (reg.a[i + 1] * 2^(WordBits - j)) % Word ELSE 0)
        half    == [i \in Digits |-> IF i < reg.len1 THEN up(i) ELSE reg.a[i]]
        len     == IF half[reg.len1 - 1] = 0 THEN reg.len1 - 1 ELSE reg.len1
        down(i) == ((half[i] * 2^j) % Word)
                     + (IF i < Top THEN half[i + 1] \div 2^(WordBits - j) ELSE 0)
    IN  [a |-> [i \in Digits |-> IF i < len THEN half[i] ELSE down(i)], len1 |-> len]

(* The words at the end of the first number that are zero are not its own. *)
Trimmed(reg) ==
    [reg EXCEPT !.len1 = Max({ i + 1 : i \in { j \in 0..(@ - 1) : reg.a[j] # 0 } })]

LeadingZeros(reg) == Min({ i \in Digits : reg.a[i] # 0 })

TrailingZeroBits(w) == Min({ j \in 0..(WordBits - 1) : (w \div 2^j) % 2 = 1 })

-----------------------------------------------------------------------------
Ready == phase = "idle" /\ x = << >> /\ mod = << >> /\ regs = << >> /\ even = "vr" /\ k = 0

(* bn_inverse is entered: a is reduced, u = prime, v = a, s = 1, r = 0.    *)
EnterInverse(a, m) ==
    LET reduced == bn_mod(bn_fast_mod(a, m), m)
    IN  /\ phase' = "strip"
        /\ x' = a /\ mod' = m
        /\ regs' = [us |-> Register(ToWords(m), 1), vr |-> Register(ToWords(reduced), 0)]
        /\ even' = "vr"
        /\ k' = 0

(* The loop that looks for the last word of the first number: of zero it   *)
(* would read in front of the register.                                    *)
FindsWord == \E i \in 0..(regs[even].len1 - 1) : regs[even].a[i] # 0

(* even becomes odd, word by word and bit by bit, and k counts the bits.   *)
StripEven ==
    /\ phase = "strip" /\ FindsWord
    /\ LET trimmed == Trimmed(regs[even])
           n == LeadingZeros(trimmed)
           shifted == ShiftWords(trimmed, n)
           j == TrailingZeroBits(shifted.a[0])
       IN  /\ regs' = [regs EXCEPT ![even] = IF j > 0 THEN ShiftBits(shifted, j) ELSE shifted]
           /\ k' = k + WordBits * n + j
    /\ phase' = "compare"
    /\ UNCHANGED <<x, mod, even>>

Equal(p, q) == p.len1 = q.len1 /\ \A i \in 0..(p.len1 - 1) : p.a[i] = q.a[i]

Larger(p, q) ==
    \/ p.len1 > q.len1
    \/ /\ p.len1 = q.len1
       /\ \E i \in 0..(p.len1 - 1) :
              p.a[i] > q.a[i] /\ \A n \in (i + 1)..(p.len1 - 1) : p.a[n] = q.a[n]

(* u and v are both one. *)
BothOne ==
    /\ phase = "compare" /\ Equal(regs.us, regs.vr)
    /\ phase' = "divide"
    /\ UNCHANGED <<x, mod, regs, even, k>>

(* The larger first number less the smaller one, which is even. *)
Difference(big, small) ==
    LET d == Carried(Word, 1,
                 [i \in 0..(big.len1 - 1) |->
                     Word - 1 + big.a[i] - (IF i < small.len1 THEN small.a[i] ELSE 0)], Double)
    IN  [big EXCEPT !.a = [i \in Digits |-> IF i < big.len1 THEN d[i] ELSE @[i]]]

(* The second number of the smaller one takes in that of the larger one.   *)
Sum(small, big) ==
    LET s == Carried(Word, 0,
                 [n \in 0..(Top - small.len1) |->
                     small.a[Top - n] + (IF Top - n >= big.len1 THEN big.a[Top - n] ELSE 0)],
                 Double)
    IN  [small EXCEPT !.a = [i \in Digits |-> IF i >= small.len1 THEN s[Top - i] ELSE @[i]]]

(* The larger first number gives up the smaller one and is the even one    *)
(* next; the smaller one's second number takes in the larger one's.        *)
SubtractSmallerFrom(big, small) ==
    /\ phase = "compare" /\ ~ Equal(regs.us, regs.vr)
    /\ even' = big
    /\ regs' = [regs EXCEPT ![big]   = Difference(regs[big], regs[small]),
                            ![small] = Sum(regs[small], regs[big])]
    /\ phase' = "strip"
    /\ UNCHANGED <<x, mod, k>>

SubtractSmaller ==
    IF Larger(regs.us, regs.vr) THEN SubtractSmallerFrom("us", "vr")
    ELSE SubtractSmallerFrom("vr", "us")

-----------------------------------------------------------------------------
(* -1/prime modulo 2^32, of the last word of prime. *)
NegatedInverse(p0) ==
    LET iter[n \in 0..WordBits] ==
            IF n = 0 THEN <<p0 - 1, p0 - 2>>
            ELSE LET last  == iter[n - 1]
                     amone == (last[1] * last[1]) % Word
                 IN  <<amone, (last[2] * (amone + 1)) % Word>>
    IN  iter[WordBits][2]

SWords == [i \in 0..(NLimbs - 2) |-> regs.us.a[Top - i]]

StoreS(words) ==
    regs' = [regs EXCEPT !.us.a = [i \in Digits |-> IF i = 0 THEN @[0] ELSE words[Top - i]]]

(* s + factor * prime ends in a word of zeroes: s / 2^32 modulo prime.     *)
DivideWord ==
    /\ phase = "divide" /\ k >= WordBits
    /\ LET pp == ToWords(mod)
           factor == (NegatedInverse(pp[0]) * SWords[0]) % Word
           sum == Carried(Word, 0,
                      [i \in Digits |-> IF i = Top THEN 0 ELSE SWords[i] + pp[i] * factor],
                      Double)
       IN  StoreS([i \in 0..(NLimbs - 2) |-> sum[i + 1]])
    /\ k' = k - WordBits
    /\ UNCHANGED <<phase, x, mod, even>>

(* The same for what is left of k. *)
DivideBits ==
    /\ phase = "divide" /\ 0 < k /\ k < WordBits
    /\ LET pp == ToWords(mod)
           factor == (NegatedInverse(pp[0]) * SWords[0]) % 2^k
           low == (SWords[0] + pp[0] * factor) \div 2^k
           higher(i) == (SWords[i] + pp[i] * factor) * 2^(WordBits - k)
       IN  StoreS(Carried(Word, low,
                      [i \in 0..(NLimbs - 2) |-> IF i = NLimbs - 2 THEN 0 ELSE higher(i + 1)],
                      Double))
    /\ k' = 0
    /\ UNCHANGED <<phase, x, mod, even>>

Inverted ==
    /\ phase = "divide" /\ k = 0
    /\ phase' = "inverted"
    /\ UNCHANGED <<x, mod, regs, even, k>>

InverseStep ==
    \/ StripEven
    \/ BothOne \/ SubtractSmaller
    \/ DivideWord \/ DivideBits \/ Inverted

inverse == FromWords(SWords)

===============================================================================
