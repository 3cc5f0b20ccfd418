-------------------------------- MODULE Sponge --------------------------------
(***************************************************************************)
(* One Keccak context and a caller that hands its input over in chunks.    *)
(***************************************************************************)
EXTENDS Keccak

CONSTANTS Chunks,   \* what the caller may hand to one Update
          MaxFed    \* the bound on the input of one digest

ASSUME SpongeAssumption == Chunks \subseteq Seq(Byte) /\ MaxFed \in Nat

VARIABLES ctx,   \* the context: hash, message (the block being filled) and rest (how far)
          fed    \* all bytes given to Update since Init

spongeVars == <<ctx, fed>>

SpongeInit == ctx = Cleared /\ fed = <<>>

(* A chunk may be aligned or not. *)
Update ==
    \E msg \in Chunks, aligned \in BOOLEAN :
        /\ Len(fed) + Len(msg) <= MaxFed
        /\ ctx' = sha3_Update(ctx, msg, aligned)
        /\ fed' = fed \o msg

(* keccak_Final clears the context, and the next digest begins with an Init. *)
Final == ctx' = Cleared /\ fed' = <<>>

SpongeNext == Update \/ Final

SpongeSpec == SpongeInit /\ [][SpongeNext]_spongeVars

-----------------------------------------------------------------------------
(* A context is never in its finalized state: it is cleared at once.       *)
SpongeTypeOK ==
    /\ ctx \in [hash : Seq(Byte), message : [1..BlockSize -> Byte], rest : 0..(BlockSize - 1)]
    /\ fed \in Seq(Byte)

(* Whatever the chunks, the blocks processed and the block begun hold all  *)
(* input, once and in order; no full block waits (sha3_Update).            *)
NothingLost ==
    /\ Len(ctx.hash) % BlockSize = 0
    /\ fed = ctx.hash \o SubSeq(ctx.message, 1, ctx.rest)

(* The digest depends on the input alone, not on how it was cut into       *)
(* chunks, how they were aligned, or what earlier blocks have left in the  *)
(* context (keccak_Final).                                                 *)
DigestOfInput == keccak_Final(ctx) = PaddedMessage(fed)

=============================================================================
