---------------------------- MODULE Sponge_proofs ----------------------------
(***************************************************************************)
(* The digest is taken from the padded input, for every size of block and  *)
(* every way to cut the input into chunks.                                 *)
(***************************************************************************)
EXTENDS Sponge, Keccak_proofs

(* NothingLost is inductive once the context has its type. *)
IInv == SpongeTypeOK /\ WholeBlocks(ctx.hash) /\ fed = Held(ctx)

LEMMA InitHolds == SpongeInit => IInv
  <1> SUFFICES ASSUME SpongeInit PROVE IInv
    OBVIOUS
  <1> QED BY ClearedHolds, EmptySeq DEF SpongeInit, IInv, SpongeTypeOK, Context

LEMMA StepHolds == IInv /\ [SpongeNext]_spongeVars => IInv'
  <1> SUFFICES ASSUME IInv, [SpongeNext]_spongeVars PROVE IInv'
    OBVIOUS
  <1>1. CASE Update
    <2>1. PICK msg \in Chunks, aligned \in BOOLEAN :
              ctx' = sha3_Update(ctx, msg, aligned) /\ fed' = fed \o msg
      BY <1>1 DEF Update
    <2>2. msg \in Seq(Byte) /\ ctx \in Context /\ fed \in Seq(Byte)
      BY SpongeAssumption DEF IInv, SpongeTypeOK, Context
    <2>3. ctx' \in Context /\ WholeBlocks(ctx'.hash) /\ Held(ctx') = Held(ctx) \o msg
      BY <2>1, <2>2, UpdateHolds DEF IInv
    <2>4. fed' \in Seq(Byte)
      BY <2>1, <2>2, ConcatProperties
    <2> QED BY <2>1, <2>3, <2>4 DEF IInv, SpongeTypeOK, Context, Held, WholeBlocks
  <1>2. CASE Final
    <2>1. SpongeInit'
      BY <1>2 DEF Final, SpongeInit
    <2> QED BY <2>1, InitHolds, PTL
  <1>3. CASE UNCHANGED spongeVars
    BY <1>3 DEF spongeVars, IInv, SpongeTypeOK, WholeBlocks, Held
  <1> QED BY <1>1, <1>2, <1>3 DEF SpongeNext

THEOREM IInvAlways == SpongeSpec => []IInv
  <1> QED BY InitHolds, StepHolds, PTL DEF SpongeSpec

(* A context keeps its type: rest stays inside the block, and no caller    *)
(* sees it finalized.                                                      *)
THEOREM ContextTypeCorrect == SpongeSpec => []SpongeTypeOK
  <1>1. IInv => SpongeTypeOK
    BY DEF IInv
  <1> QED BY <1>1, IInvAlways, PTL

(* The blocks processed and the block begun hold all input of sha3_Update. *)
THEOREM NothingIsLost == SpongeSpec => []NothingLost
  <1>1. IInv => NothingLost
    <2> SUFFICES ASSUME IInv PROVE NothingLost
      OBVIOUS
    <2>1. PICK q \in Nat : Len(ctx.hash) = q * BlockSize
      BY DEF IInv, WholeBlocks
    <2>2. (q * BlockSize + 0) % BlockSize = 0
      <3>1. 0 \in 0..(BlockSize - 1)
        BY KeccakAssumption
      <3> QED BY <3>1, BlockRemainder
    <2>3. q * BlockSize + 0 = q * BlockSize
      BY KeccakAssumption, SMT
    <2> QED BY <2>1, <2>2, <2>3 DEF IInv, NothingLost, Held
  <1> QED BY <1>1, IInvAlways, PTL

(* keccak_Final takes the digest from the padded input, however it was cut *)
(* into chunks and aligned.                                                *)
THEOREM DigestIsOfInput == SpongeSpec => []DigestOfInput
  <1>1. IInv => DigestOfInput
    <2> SUFFICES ASSUME IInv PROVE DigestOfInput
      OBVIOUS
    <2> QED BY FinalHolds DEF IInv, SpongeTypeOK, Context, DigestOfInput
  <1> QED BY <1>1, IInvAlways, PTL

=============================================================================
