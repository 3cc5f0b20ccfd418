---------------------------- MODULE Keccak_proofs ----------------------------
(***************************************************************************)
(* What the steps of a Keccak context do to the bytes it holds, for every  *)
(* size of block.                                                          *)
(***************************************************************************)
EXTENDS Keccak, SequenceTheorems, TLAPS

Context == [hash : Seq(Byte), message : [1..BlockSize -> Byte], rest : 0..(BlockSize - 1)]

WholeBlocks(hash) == \E q \in Nat : Len(hash) = q * BlockSize

(* The bytes a context holds: processed, or waiting for more. *)
Held(c) == c.hash \o SubSeq(c.message, 1, c.rest)

-----------------------------------------------------------------------------
LEMMA Division ==
    ASSUME NEW n \in Nat
    PROVE  /\ n \div BlockSize \in Nat
           /\ n - (n \div BlockSize) * BlockSize \in 0..(BlockSize - 1)
           /\ n % BlockSize = n - (n \div BlockSize) * BlockSize
           /\ (n \div BlockSize) * BlockSize \in 0..n
  <1>1. n \div BlockSize \in Nat /\ n % BlockSize \in 0..(BlockSize - 1)
    BY KeccakAssumption, SMT
  <1>2. n = (n \div BlockSize) * BlockSize + (n % BlockSize)
    BY KeccakAssumption, SMT
  <1>3. (n \div BlockSize) * BlockSize \in Nat
    BY <1>1, KeccakAssumption, SMT
  <1> QED BY <1>1, <1>2, <1>3, KeccakAssumption, SMT

LEMMA BlockRemainder ==
    ASSUME NEW q \in Nat, NEW r \in 0..(BlockSize - 1)
    PROVE  (q * BlockSize + r) % BlockSize = r
  BY KeccakAssumption, SMTT(60)

(* Blocks are sequences. *)
LEMMA BlockIsSeq ==
    ASSUME NEW m \in [1..BlockSize -> Byte]
    PROVE  m \in Seq(Byte) /\ Len(m) = BlockSize
  BY KeccakAssumption, SMT

(* memcpy leaves what is before idx and puts the data behind it. *)
LEMMA Copied ==
    ASSUME NEW m \in [1..BlockSize -> Byte], NEW idx \in 0..(BlockSize - 1),
           NEW data \in Seq(Byte), idx + Len(data) <= BlockSize
    PROVE  /\ CopiedTo(m, idx, data) \in [1..BlockSize -> Byte]
           /\ SubSeq(CopiedTo(m, idx, data), 1, idx + Len(data)) = SubSeq(m, 1, idx) \o data
  <1> DEFINE new == CopiedTo(m, idx, data)
             all == SubSeq(new, 1, idx + Len(data))
             old == SubSeq(m, 1, idx)
  <1>1. new \in [1..BlockSize -> Byte]
    BY KeccakAssumption DEF CopiedTo
  <1>2. new \in Seq(Byte) /\ Len(new) = BlockSize /\ m \in Seq(Byte) /\ Len(m) = BlockSize
    BY <1>1, BlockIsSeq
  <1>3. /\ all \in Seq(Byte) /\ Len(all) = idx + Len(data)
        /\ \A i \in 1..(idx + Len(data)) : all[i] = new[i]
    BY <1>2, KeccakAssumption, SMT
  <1>4. /\ old \in Seq(Byte) /\ Len(old) = idx
        /\ \A i \in 1..idx : old[i] = m[i]
    BY <1>2, KeccakAssumption, SMT
  <1>5. /\ old \o data \in Seq(Byte) /\ Len(old \o data) = idx + Len(data)
        /\ \A i \in 1..idx : (old \o data)[i] = old[i]
        /\ \A i \in (idx + 1)..(idx + Len(data)) : (old \o data)[i] = data[i - idx]
    BY <1>4, SMT
  <1>6. \A i \in 1..(idx + Len(data)) : all[i] = (old \o data)[i]
    <2> TAKE i \in 1..(idx + Len(data))
    <2>0. i \in 1..BlockSize BY KeccakAssumption
    <2>1. CASE i \in 1..idx
      <3>1. new[i] = m[i] BY <2>0, <2>1 DEF CopiedTo
      <3> QED BY <2>1, <3>1, <1>3, <1>4, <1>5
    <2>2. CASE i \in (idx + 1)..(idx + Len(data))
      <3>1. new[i] = data[i - idx] BY <2>0, <2>2 DEF CopiedTo
      <3> QED BY <2>2, <3>1, <1>3, <1>5
    <2> QED BY <2>1, <2>2
  <1> HIDE DEF new, all, old
  <1>7. all = old \o data
    BY <1>3, <1>5, <1>6, SeqEqual
  <1> QED BY <1>1, <1>7 DEF new, all, old

LEMMA Split ==
    ASSUME NEW msg \in Seq(Byte), NEW n \in 0..Len(msg)
    PROVE  /\ SubSeq(msg, 1, n) \in Seq(Byte) /\ Len(SubSeq(msg, 1, n)) = n
           /\ Dropped(msg, n) \in Seq(Byte) /\ Len(Dropped(msg, n)) = Len(msg) - n
           /\ SubSeq(msg, 1, n) \o Dropped(msg, n) = msg
  <1> DEFINE a == SubSeq(msg, 1, n)
             b == SubSeq(msg, n + 1, Len(msg))
  <1>1. a \in Seq(Byte) /\ Len(a) = n /\ \A i \in 1..n : a[i] = msg[i]
    BY SMT
  <1>2. b \in Seq(Byte) /\ Len(b) = Len(msg) - n /\ \A i \in 1..(Len(msg) - n) : b[i] = msg[n + i]
    BY SMT
  <1> HIDE DEF a, b
  <1>3. a \o b \in Seq(Byte) /\ Len(a \o b) = Len(msg)
    BY <1>1, <1>2, SMTT(30)
  <1>4. \A i \in 1..Len(msg) : (a \o b)[i] = msg[i]
    <2>1. \A i \in 1..Len(a) + Len(b) : (a \o b)[i] = IF i <= Len(a) THEN a[i] ELSE b[i - Len(a)]
      BY <1>1, <1>2, ConcatProperties
    <2> QED BY <2>1, <1>1, <1>2
  <1>5. a \o b = msg
    BY <1>3, <1>4, SeqEqual
  <1> QED BY <1>1, <1>2, <1>5 DEF a, b, Dropped

LEMMA Associative ==
    ASSUME NEW a \in Seq(Byte), NEW b \in Seq(Byte), NEW c \in Seq(Byte)
    PROVE  (a \o b) \o c = a \o (b \o c)
  BY ConcatAssociative

-----------------------------------------------------------------------------
(* A context between two blocks takes a message. *)
LEMMA AbsorbedHolds ==
    ASSUME NEW hash \in Seq(Byte), WholeBlocks(hash),
           NEW m \in [1..BlockSize -> Byte],
           NEW c, c = [hash |-> hash, message |-> m, rest |-> 0],
           NEW msg \in Seq(Byte), NEW aligned \in BOOLEAN
    PROVE  LET d == Absorbed(c, msg, aligned)
           IN  /\ d \in Context /\ WholeBlocks(d.hash)
               /\ Held(d) = hash \o msg
  <1> DEFINE whole == (Len(msg) \div BlockSize) * BlockSize
             last  == IF aligned \/ whole = 0 THEN m
                      ELSE SubSeq(msg, whole - BlockSize + 1, whole)
             tail  == Dropped(msg, whole)
             front == SubSeq(msg, 1, whole)
             d     == Absorbed(c, msg, aligned)
  <1>0. Len(msg) \in Nat
    BY LenProperties
  <1>1. /\ Len(msg) \div BlockSize \in Nat /\ whole \in 0..Len(msg)
        /\ Len(msg) - whole \in 0..(BlockSize - 1)
    BY <1>0, Division
  <1>2. /\ front \in Seq(Byte) /\ Len(front) = whole
        /\ tail \in Seq(Byte) /\ Len(tail) = Len(msg) - whole
        /\ front \o tail = msg
    BY <1>1, Split
  <1>3. last \in [1..BlockSize -> Byte]
    <2>1. CASE aligned \/ whole = 0
      BY <2>1
    <2>2. CASE ~ (aligned \/ whole = 0)
      <3>1. whole >= BlockSize
        BY <1>1, <2>2, KeccakAssumption, SMTT(30)
      <3>2. LET b == SubSeq(msg, whole - BlockSize + 1, whole)
            IN  b \in Seq(Byte) /\ Len(b) = BlockSize
        <4> DEFINE from == whole - BlockSize + 1
        <4>1. /\ from \in Int /\ whole \in Int /\ from <= whole /\ whole - from + 1 = BlockSize
              /\ \A i \in from..whole : i \in 1..Len(msg)
          BY <1>0, <1>1, <3>1, KeccakAssumption
        <4>2. \A i \in from..whole : msg[i] \in Byte
          BY <4>1, ElementOfSeq
        <4> HIDE DEF from, whole
        <4>3. SubSeq(msg, from, whole) \in Seq(Byte) /\ Len(SubSeq(msg, from, whole)) = BlockSize
          BY <4>1, <4>2, SubSeqProperties
        <4> QED BY <4>3 DEF from
      <3>3. SubSeq(msg, whole - BlockSize + 1, whole) \in [1..BlockSize -> Byte]
        BY <3>2, LenProperties
      <3> QED BY <2>2, <3>3
    <2> QED BY <2>1, <2>2
  <1>4. d = [ hash |-> hash \o front, message |-> CopiedTo(last, 0, tail),
              rest |-> Len(msg) - whole ]
    BY DEF Absorbed
  <1> HIDE DEF whole, last, tail, front, d
  <1>5. /\ CopiedTo(last, 0, tail) \in [1..BlockSize -> Byte]
        /\ SubSeq(CopiedTo(last, 0, tail), 1, Len(tail)) = SubSeq(last, 1, 0) \o tail
    <2>0. 0 \in 0..(BlockSize - 1)
      BY KeccakAssumption
    <2>1. Len(tail) \in Nat /\ 0 + Len(tail) <= BlockSize
      <3>1. Len(tail) \in 0..(BlockSize - 1)
        BY <1>1, <1>2, Zenon
      <3> QED BY <3>1, KeccakAssumption
    <2>2. /\ CopiedTo(last, 0, tail) \in [1..BlockSize -> Byte]
          /\ SubSeq(CopiedTo(last, 0, tail), 1, 0 + Len(tail)) = SubSeq(last, 1, 0) \o tail
      BY <2>0, <2>1, <1>2, <1>3, Copied
    <2>3. 0 + Len(tail) = Len(tail)
      BY <2>1
    <2> QED BY <2>2, <2>3
  <1>6. SubSeq(last, 1, 0) = <<>>
    BY SubSeqEmpty
  <1>7. SubSeq(d.message, 1, d.rest) = tail
    BY <1>2, <1>4, <1>5, <1>6, ConcatEmptySeq
  <1>8. d.hash = hash \o front /\ d.hash \in Seq(Byte) /\ Len(d.hash) = Len(hash) + whole
    BY <1>2, <1>4, ConcatProperties
  <1>9. d \in Context
    BY <1>1, <1>4, <1>5, <1>8 DEF Context
  <1>10. WholeBlocks(d.hash)
    <2>1. PICK q \in Nat : Len(hash) = q * BlockSize
      BY DEF WholeBlocks
    <2>2. Len(d.hash) = (q + (Len(msg) \div BlockSize)) * BlockSize
      BY <1>1, <1>8, <2>1, KeccakAssumption, SMT DEF whole
    <2> QED BY <1>1, <2>2 DEF WholeBlocks
  <1>11. Held(d) = hash \o msg
    <2>1. Held(d) = (hash \o front) \o tail
      BY <1>7, <1>8 DEF Held
    <2>2. (hash \o front) \o tail = hash \o (front \o tail)
      BY <1>2, Associative, ZenonT(30)
    <2> QED BY <1>2, <2>1, <2>2, Zenon
  <1> QED BY <1>9, <1>10, <1>11 DEF d

(* Whatever a context holds, it takes a message behind it.                 *)
LEMMA UpdateHolds ==
    ASSUME NEW c \in Context, WholeBlocks(c.hash),
           NEW msg \in Seq(Byte), NEW aligned \in BOOLEAN
    PROVE  LET d == sha3_Update(c, msg, aligned)
           IN  /\ d \in Context /\ WholeBlocks(d.hash)
               /\ Held(d) = Held(c) \o msg
  <1> DEFINE left  == BlockSize - c.rest
             first == SubSeq(msg, 1, left)
             full  == CopiedTo(c.message, c.rest, first)
             old   == SubSeq(c.message, 1, c.rest)
             d     == sha3_Update(c, msg, aligned)
  <1>1. /\ c.hash \in Seq(Byte) /\ c.message \in [1..BlockSize -> Byte]
        /\ c.rest \in 0..(BlockSize - 1) /\ c.rest # SHA3_FINALIZED
        /\ c = [hash |-> c.hash, message |-> c.message, rest |-> c.rest]
    BY DEF Context, SHA3_FINALIZED
  <1>2. old \in Seq(Byte) /\ Len(old) = c.rest
    BY <1>1, KeccakAssumption, SMTT(30)
  <1>0. Len(msg) \in Nat /\ left \in 1..BlockSize /\ c.rest + left = BlockSize
    BY <1>1, KeccakAssumption, LenProperties
  <1>3. CASE c.rest = 0
    <2>1. d = Absorbed(c, msg, aligned)
      BY <1>1, <1>3 DEF sha3_Update
    <2>2. d \in Context /\ WholeBlocks(d.hash) /\ Held(d) = c.hash \o msg
      BY <1>1, <1>3, <2>1, AbsorbedHolds
    <2>3. Held(c) = c.hash
      BY <1>1, <1>3, SubSeqEmpty, ConcatEmptySeq DEF Held
    <2> QED BY <2>2, <2>3
  <1>4. CASE c.rest # 0 /\ Len(msg) < left
    <2>1. d = [c EXCEPT !.message = CopiedTo(c.message, c.rest, msg), !.rest = c.rest + Len(msg)]
      BY <1>1, <1>4 DEF sha3_Update
    <2>2. c.rest + Len(msg) \in 0..(BlockSize - 1)
      BY <1>0, <1>1, <1>4, KeccakAssumption
    <2>3. /\ CopiedTo(c.message, c.rest, msg) \in [1..BlockSize -> Byte]
          /\ SubSeq(CopiedTo(c.message, c.rest, msg), 1, c.rest + Len(msg)) = old \o msg
      <3>1. c.rest + Len(msg) <= BlockSize
        BY <2>2, KeccakAssumption
      <3> QED BY <1>1, <3>1, Copied
    <2>4. /\ d.hash = c.hash /\ d.message = CopiedTo(c.message, c.rest, msg)
          /\ d.rest = c.rest + Len(msg) /\ d \in Context
      BY <1>1, <2>1, <2>2, <2>3 DEF Context
    <2>5. Held(d) = c.hash \o (old \o msg)
      BY <2>3, <2>4 DEF Held
    <2>6. (c.hash \o old) \o msg = c.hash \o (old \o msg)
      BY <1>1, <1>2, Associative
    <2>7. Held(d) = Held(c) \o msg
      BY <2>5, <2>6, Zenon DEF Held
    <2>8. WholeBlocks(d.hash)
      BY <2>4
    <2> QED BY <2>4, <2>7, <2>8
  <1>5. CASE c.rest # 0 /\ ~ (Len(msg) < left)
    <2> DEFINE e == [hash |-> sha3_process_block(c.hash, full), message |-> full, rest |-> 0]
               more == Dropped(msg, left)
    <2>1. d = Absorbed(e, more, aligned)
      BY <1>1, <1>5 DEF sha3_Update
    <2>2. left \in 0..Len(msg) /\ c.rest + left = BlockSize
      BY <1>0, <1>5
    <2>3. /\ first \in Seq(Byte) /\ Len(first) = left
          /\ more \in Seq(Byte) /\ first \o more = msg
      BY <2>2, Split
    <2>4. /\ full \in [1..BlockSize -> Byte]
          /\ SubSeq(full, 1, BlockSize) = old \o first
      <3>1. c.rest + Len(first) <= BlockSize /\ c.rest + Len(first) = BlockSize
        BY <2>2, <2>3, KeccakAssumption
      <3> HIDE DEF first, old
      <3>2. /\ full \in [1..BlockSize -> Byte]
            /\ SubSeq(full, 1, c.rest + Len(first)) = old \o first
        BY <1>1, <2>3, <3>1, Copied DEF old
      <3> QED BY <3>1, <3>2
    <2>5. full \in Seq(Byte) /\ Len(full) = BlockSize /\ full = old \o first
      BY <2>4, BlockIsSeq, SubSeqFull
    <2>6. e.hash = c.hash \o full /\ e.hash \in Seq(Byte) /\ Len(e.hash) = Len(c.hash) + BlockSize
      BY <1>1, <2>5, ConcatProperties DEF sha3_process_block
    <2>7. WholeBlocks(e.hash)
      <3>1. PICK q \in Nat : Len(c.hash) = q * BlockSize
        BY DEF WholeBlocks
      <3>2. Len(e.hash) = (q + 1) * BlockSize /\ q + 1 \in Nat
        BY <2>6, <3>1, KeccakAssumption, SMT
      <3> QED BY <3>2 DEF WholeBlocks
    <2>8. /\ d \in Context /\ WholeBlocks(d.hash)
          /\ Held(d) = e.hash \o more
      <3>1. e = [hash |-> e.hash, message |-> full, rest |-> 0]
        OBVIOUS
      <3> HIDE DEF e, full, more, d
      <3> QED BY <2>1, <2>3, <2>4, <2>6, <2>7, <3>1, AbsorbedHolds, ZenonT(30)
    <2> HIDE DEF e, full, more, first, old, d
    <2>9. e.hash \o more = (c.hash \o old) \o (first \o more)
      <3>1. (c.hash \o old) \o first = c.hash \o (old \o first)
        BY <1>1, <1>2, <2>3, Associative, SMTT(30)
      <3>2. e.hash = (c.hash \o old) \o first
        BY <2>5, <2>6, <3>1, Zenon
      <3>3. c.hash \o old \in Seq(Byte)
        BY <1>1, <1>2, ConcatProperties
      <3>4. ((c.hash \o old) \o first) \o more = (c.hash \o old) \o (first \o more)
        BY <2>3, <3>3, Associative
      <3> QED BY <3>2, <3>4, Zenon
    <2>10. Held(d) = Held(c) \o msg
      BY <2>3, <2>8, <2>9, Zenon DEF Held, old
    <2> QED BY <2>8, <2>10 DEF d
  <1> QED BY <1>3, <1>4, <1>5

-----------------------------------------------------------------------------
LEMMA ClearedHolds == Cleared \in Context /\ WholeBlocks(Cleared.hash) /\ Held(Cleared) = <<>>
  <1>1. Cleared.hash = <<>> /\ Cleared.rest = 0 /\ Cleared \in Context
    BY KeccakAssumption, EmptySeq DEF Cleared, Context, Byte
  <1>2. Len(<<>>) = 0 * BlockSize
    BY KeccakAssumption
  <1>3. WholeBlocks(Cleared.hash)
    BY <1>1, <1>2 DEF WholeBlocks
  <1>4. Held(Cleared) = <<>>
    BY <1>1, SubSeqEmpty, EmptySeq, ConcatEmptySeq DEF Held
  <1> QED BY <1>1, <1>3, <1>4

(* keccak_Final takes the digest from what a context holds, padded.        *)
LEMMA FinalHolds ==
    ASSUME NEW c \in Context, WholeBlocks(c.hash)
    PROVE  keccak_Final(c) = PaddedMessage(Held(c))
  <1> DEFINE rest == c.rest
             old  == SubSeq(c.message, 1, rest)
             pad  == Padding(rest)
             last == CopiedTo(c.message, rest, pad)
             fed  == Held(c)
  <1>1. /\ c.hash \in Seq(Byte) /\ c.message \in [1..BlockSize -> Byte]
        /\ rest \in 0..(BlockSize - 1) /\ rest # SHA3_FINALIZED
    BY DEF Context, SHA3_FINALIZED
  <1>2. old \in Seq(Byte) /\ Len(old) = rest
    BY <1>1, KeccakAssumption, SMT
  <1>3. pad \in Seq(Byte) /\ Len(pad) = BlockSize - rest
    <2>1. BlockSize - rest \in Nat
      BY <1>1, KeccakAssumption
    <2>2. pad \in [1..(BlockSize - rest) -> Byte]
      BY <2>1 DEF Padding, Byte
    <2> QED BY <2>1, <2>2
  <1>4. rest + Len(pad) = BlockSize /\ rest + Len(pad) <= BlockSize
    BY <1>1, <1>3, KeccakAssumption
  <1>5. last = old \o pad
    <2> HIDE DEF pad
    <2>1. last \in [1..BlockSize -> Byte] /\ SubSeq(last, 1, rest + Len(pad)) = old \o pad
      BY <1>1, <1>3, <1>4, Copied
    <2> HIDE DEF last, old
    <2>2. last \in Seq(Byte) /\ Len(last) = BlockSize
      BY <2>1, BlockIsSeq
    <2>3. SubSeq(last, 1, Len(last)) = last
      BY <2>2, SubSeqFull
    <2> QED BY <1>4, <2>1, <2>2, <2>3
  <1>6. fed = c.hash \o old
    BY DEF Held, fed
  <1>7. Len(fed) % BlockSize = rest
    <2>1. PICK q \in Nat : Len(c.hash) = q * BlockSize
      BY DEF WholeBlocks
    <2>2. Len(fed) = q * BlockSize + rest
      BY <1>1, <1>2, <1>6, <2>1, ConcatProperties
    <2> QED BY <1>1, <2>2, BlockRemainder
  <1>8. keccak_Final(c) = c.hash \o (old \o pad)
    BY <1>1, <1>5 DEF keccak_Final, sha3_process_block
  <1>9. PaddedMessage(fed) = (c.hash \o old) \o pad
    BY <1>6, <1>7 DEF PaddedMessage
  <1>10. (c.hash \o old) \o pad = c.hash \o (old \o pad)
    BY <1>1, <1>2, <1>3, Associative
  <1> QED BY <1>8, <1>9, <1>10, Zenon DEF fed

(* A message given at once, aligned or not, is what is absorbed.           *)
LEMMA MessageAbsorbed ==
    ASSUME NEW msg \in Seq(Byte), NEW aligned \in BOOLEAN
    PROVE  keccak_256(msg, aligned) = PaddedMessage(msg)
  <1> DEFINE d == sha3_Update(Cleared, msg, aligned)
  <1>1. d \in Context /\ WholeBlocks(d.hash) /\ Held(d) = Held(Cleared) \o msg
    BY ClearedHolds, UpdateHolds
  <1>2. Held(Cleared) \o msg = msg
    BY ClearedHolds, ConcatEmptySeq
  <1>3. keccak_Final(d) = PaddedMessage(Held(d))
    <2> HIDE DEF d
    <2> QED BY <1>1, FinalHolds
  <1> QED BY <1>1, <1>2, <1>3, Zenon DEF keccak_256

=============================================================================
