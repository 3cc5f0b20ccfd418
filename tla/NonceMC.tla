-------------------------------- MODULE NonceMC --------------------------------
(***************************************************************************)
(* Two keys and two digests of 32 bytes, the lengths at which a block of   *)
(* the first hash of update_k is filled, and answers of up to three rounds.*)
(***************************************************************************)
EXTENDS Nonce

CONSTANTS k1, k2, h1, h2

Plan(key, keyLen, hash, hashLen, lengths) ==
    [key |-> key, keyLen |-> keyLen, hash |-> hash, hashLen |-> hashLen, lengths |-> lengths]

Signatures == { Plan(k, 32, h, 32, <<32, 32, 32>>) : k \in {k1, k2}, h \in {h1, h2} }

Boundaries ==
    { Plan(k1, n, h1, m, <<32>>) :
        n \in {1, 22, 23, 30, 31, 32, 95}, m \in {0, 1, 23, 54, 64, 65} }

Lengths == { Plan(k1, 32, h2, 32, l) : l \in {<<1, 32>>, <<33, 32>>, <<64, 70>>, <<0, 32>>} }

MCPlans == Signatures \cup Boundaries \cup Lengths

===============================================================================
