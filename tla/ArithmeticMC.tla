----------------------------- MODULE ArithmeticMC -----------------------------
(***************************************************************************)
(* Numbers of three digits of eight bits, twenty bits in all, of which the *)
(* reduced ones leave four bits free; primes at both ends of the range the *)
(* comments of src/crypto/bignum.c ask for.                                *)
(***************************************************************************)
EXTENDS Arithmetic

MCModuli == {1048573, 1047589}

Words == {0, 1, 512, 1023}

MCData == [0..1 -> Words] \cup { bn_write_be(Limbs(m - d)) : m \in MCModuli, d \in 0..1 }

===============================================================================
