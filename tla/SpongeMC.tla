------------------------------- MODULE SpongeMC -------------------------------
(***************************************************************************)
(* A context of three-byte blocks and chunks of up to two blocks and one   *)
(* byte: they end before, on and behind the end of a block.                *)
(***************************************************************************)
EXTENDS Sponge, SequencesExt

MCChunks == BoundedSeq({7, 9}, 4) \cup { [i \in 1..n |-> i] : n \in 5..7 }

=============================================================================
