------------------------------- MODULE Amounts -------------------------------
(***************************************************************************)
(* The numbers of the API: uint128_t in its two builds (src/u128.c), the   *)
(* compiler's __uint128_t and the digit string of _NO_128INT_, and the     *)
(* conversion of rau to iotx (src/utils.c).                                *)
(*                                                                         *)
(* A text is the sequence of its characters before the terminating zero; a *)
(* digit is its value, and two more codes stand for the decimal point and  *)
(* for every other character.                                              *)
(***************************************************************************)
EXTENDS Naturals, Sequences, SequencesExt

CONSTANTS Modulus,          \* 2^128 in the code
          RawMaxLen,        \* UINT128_RAW_MAX_LEN, room for every number below Modulus
          TransformFactor,  \* 18 in the code
          NULL

ASSUME AmountsAssumption ==
    Modulus \in Nat \ {0} /\ RawMaxLen \in Nat \ {0} /\ TransformFactor \in Nat \ {0}

Point == 10
Other == 11

IsDigits(str) == \A i \in 1..Len(str) : str[i] \in 0..9

-----------------------------------------------------------------------------
(* str2u128 with __uint128_t: multiplication and addition wrap, a text that*)
(* is no number is 0.                                                      *)
str2u128(str) ==
    IF ~ IsDigits(str) THEN 0
    ELSE LET u128[n \in 0..Len(str)] ==
                 IF n = 0 THEN 0 ELSE (u128[n - 1] * 10 + str[n]) % Modulus
         IN  u128[Len(str)]

(* str2u128 with _NO_128INT_ keeps the text; raw is filled up with zeros.  *)
str2raw(str) ==
    IF Len(str) > RawMaxLen - 1 \/ ~ IsDigits(str) THEN <<0>> ELSE str

Numeral[n \in Nat] ==
    IF n < 10 THEN <<n>> ELSE Append(Numeral[n \div 10], n % 10)

ASSUME RoomAssumption == Len(Numeral[Modulus - 1]) < RawMaxLen

(* Mutant: the room for the terminating zero is forgotten.                 *)
u1282strUnterminated(num, max) == IF Len(Numeral[num]) > max THEN NULL ELSE Numeral[num]

(* u1282str: the digits and the terminating zero must fit.                 *)
u1282str(num, max) == IF Len(Numeral[num]) > max - 1 THEN NULL ELSE Numeral[num]

raw2str(raw, max) == IF max < Len(raw) + 1 THEN NULL ELSE raw

u128_is_less(a, b) == a < b

MemLess(a, b) ==
    \E i \in 1..Len(a) : a[i] < b[i] /\ \A j \in 1..(i - 1) : a[j] = b[j]

(* Mutant: the texts are compared from the front whatever their lengths.   *)
raw_is_less_by_text(a, b) ==
    IF Len(a) <= Len(b) THEN MemLess(a, b) \/ IsStrictPrefix(a, b) ELSE ~ MemLess(b, a)

(* u128_is_less of _NO_128INT_: the shorter text is less.                  *)
raw_is_less(a, b) == Len(a) < Len(b) \/ (Len(a) = Len(b) /\ MemLess(a, b))

-----------------------------------------------------------------------------
(* The decimal point goes behind the digit with r = decimal_point_pos, and *)
(* r is at least 1 when it is compared.                                    *)
Pointed(rau) ==
    LET decimal_point_pos == Len(rau) - TransformFactor
    IN  IF decimal_point_pos = 0 THEN rau ELSE InsertAt(rau, decimal_point_pos + 1, Point)

(* Mutant: one zero too few behind the point. *)
PaddedShort(rau) ==
    <<0, Point>> \o [i \in 1..(TransformFactor - Len(rau) - 1) |-> 0] \o rau

Padded(rau) == <<0, Point>> \o [i \in 1..(TransformFactor - Len(rau)) |-> 0] \o rau

(* Useless zeros at the end go, and then the point if it is the last.      *)
Trimmed(iotx) ==
    LET w == CHOOSE i \in 1..Len(iotx) :
                 iotx[i] # 0 /\ \A j \in (i + 1)..Len(iotx) : iotx[j] = 0
    IN  SubSeq(iotx, 1, IF iotx[w] = Point THEN w - 1 ELSE w)

rau_room(rau, max) == ~ (max < Len(rau) + 3 \/ max < TransformFactor + 3)

(* The result and how many characters of iotx, which is not NULL here, are *)
(* written on the way.                                                     *)
utils_rau2iotx(rau, max) ==
    IF ~ rau_room(rau, max) THEN NULL
    ELSE IF rau[1] = 0 THEN [text |-> <<0>>, written |-> 2]
    ELSE LET full == IF Len(rau) >= TransformFactor THEN Pointed(rau) ELSE Padded(rau)
             iotx == Trimmed(full)
         IN  [text    |-> iotx,
              written |-> IF Len(iotx) = Len(full) THEN Len(full) + 1 ELSE Len(full)]

=============================================================================
