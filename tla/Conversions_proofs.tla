-------------------------- MODULE Conversions_proofs --------------------------
(***************************************************************************)
(* What the conversions promise of every argument: where a contract's      *)
(* reply is read, what is published, what an amount looks like, and what   *)
(* becomes of hexadecimal texts and decimal numbers.                       *)
(***************************************************************************)
EXTENDS Conversions, Foundations

Byte == 0..255

-----------------------------------------------------------------------------
(* Bytes and words.                                                        *)
LEMMA ZerosIs ==
    ASSUME NEW n \in Nat
    PROVE  /\ Zeros(n) \in Seq(Byte) /\ Len(Zeros(n)) = n
           /\ \A i \in 1..n : Zeros(n)[i] = 0
  <1>1. \A i \in 1..n : 0 \in Byte
    BY DEF Byte
  <1> QED BY <1>1 DEF Zeros

(* The four bytes of a number below 2^32.                                  *)
Quad(n) == << ((n \div (256 * 256)) \div 256) % 256, (n \div (256 * 256)) % 256,
              (n \div 256) % 256, n % 256 >>

LEMMA QuadIs ==
    ASSUME NEW n \in Nat
    PROVE  Quad(n) \in Seq(Byte) /\ Len(Quad(n)) = 4
  <1> DEFINE high == n \div (256 * 256)
  <1>1. /\ (high \div 256) % 256 \in Byte /\ high % 256 \in Byte
        /\ (n \div 256) % 256 \in Byte /\ n % 256 \in Byte
    <2>1. high \in Nat /\ high \div 256 \in Nat /\ n \div 256 \in Nat
      OBVIOUS
    <2> HIDE DEF high
    <2> QED BY <2>1 DEF Byte
  <1> QED BY <1>1 DEF Quad

LEMMA BigEndian64Is ==
    ASSUME NEW n \in Nat
    PROVE  Joins(BigEndian64(n), Byte, Zeros(4), 4, Quad(n), 4)
  <1>1. BigEndian64(n) = Zeros(4) \o Quad(n)
    BY DEF BigEndian64, Quad
  <1>2. Zeros(4) \in Seq(Byte) /\ Len(Zeros(4)) = 4 /\ 4 \in Nat
    BY ZerosIs
  <1> QED BY <1>1, <1>2, Joined, QuadIs

(* A contract's word. *)
LEMMA AbiWordIs ==
    ASSUME NEW n \in Nat
    PROVE  /\ AbiWord(n) \in Seq(Byte) /\ Len(AbiWord(n)) = 32
           /\ \A i \in 1..28 : AbiWord(n)[i] = 0
           /\ \A i \in 1..4 : AbiWord(n)[28 + i] = Quad(n)[i]
  <1> DEFINE b == BigEndian64(n)
             q == SubSeq(b, 5, 8)
             z == Zeros(28)
             c == AbiWord(n)
  <1>1. /\ b \in Seq(Byte) /\ Len(b) = 8
        /\ \A i \in 1..4 : b[4 + i] = Quad(n)[i]
    <2>1. Joins(b, Byte, Zeros(4), 4, Quad(n), 4)
      BY BigEndian64Is
    <2> HIDE DEF b
    <2> QED BY <2>1 DEF Joins
  <1>2. c = z \o q
    BY DEF AbiWord, Word
  <1> HIDE DEF b
  <1>3. Slices(q, Byte, b, 4, 4)
    <2>1. 4 \in Nat /\ 4 + 4 <= Len(b) /\ 5 = 4 + 1 /\ 8 = 4 + 4
      BY <1>1
    <2> QED BY <1>1, <2>1, Sliced
  <1>4. z \in Seq(Byte) /\ Len(z) = 28 /\ \A i \in 1..28 : z[i] = 0
    BY ZerosIs
  <1> HIDE DEF q, z, c
  <1>5. q \in Seq(Byte) /\ Len(q) = 4 /\ \A i \in 1..4 : q[i] = Quad(n)[i]
    BY <1>1, <1>3 DEF Slices
  <1>6. Joins(c, Byte, z, 28, q, 4)
    <2>1. 28 \in Nat /\ 4 \in Nat
      OBVIOUS
    <2> QED BY <1>2, <1>4, <1>5, <2>1, Joined
  <1> HIDE DEF c
  <1>7. /\ c \in Seq(Byte) /\ Len(c) = 32
        /\ \A i \in 1..28 : c[i] = 0
        /\ \A i \in 1..4 : c[28 + i] = Quad(n)[i]
    BY <1>4, <1>5, <1>6 DEF Joins
  <1> QED BY <1>7 DEF c

(* Turned twice, bytes are as they were: every machine reads the same.     *)
LEMMA LoadedIs ==
    ASSUME NEW host, NEW b \in Seq(Byte)
    PROVE  Loaded(host, b) = b
  <1>1. CASE endian_is_bigendian(host)
    BY <1>1 DEF Loaded
  <1>2. CASE ~ endian_is_bigendian(host)
    <2>0. Len(b) \in Nat /\ DOMAIN b = 1..Len(b) /\ \A i \in 1..Len(b) : b[i] \in Byte
      BY LenProperties, ElementOfSeq
    <2> DEFINE r == Reverse(b)
    <2>1. r = [i \in 1..Len(b) |-> b[(Len(b) - i) + 1]]
      BY DEF Reverse
    <2>2. \A i \in 1..Len(b) : (Len(b) - i) + 1 \in 1..Len(b)
                              /\ (Len(b) - ((Len(b) - i) + 1)) + 1 = i
      BY <2>0
    <2>3. Len(r) = Len(b)
      BY <2>0, <2>1
    <2>4. Reverse(r) = [i \in 1..Len(r) |-> r[(Len(r) - i) + 1]]
      BY DEF Reverse
    <2> HIDE DEF r
    <2>5. Reverse(r) = [i \in 1..Len(b) |-> b[i]]
      BY <2>1, <2>2, <2>3, <2>4
    <2>6. b = [i \in 1..Len(b) |-> b[i]]
      BY <2>0
    <2>7. Loaded(host, b) = Reverse(r)
      BY <1>2 DEF Loaded, endian_swap, r
    <2> QED BY <2>5, <2>6, <2>7
  <1> QED BY <1>1, <1>2

(* b is n bytes of the input from lo on, where it has them.                *)
Reads(b, input, lo, n) ==
    /\ b \in Seq(Byte) /\ Len(b) = n
    /\ \A k \in 1..n : lo + k <= Len(input) => b[k] = input[lo + k]

LEMMA BytesIs ==
    ASSUME NEW input \in Seq(Byte), NEW lo \in Nat, NEW n \in Nat, NEW hi, hi = lo + n - 1
    PROVE  Reads(Bytes(input, lo, hi), input, lo, n)
  <1>1. hi - lo + 1 = n
    OBVIOUS
  <1> DEFINE b == Bytes(input, lo, hi)
  <1>2. b = [k \in 1..n |-> IF lo + k <= Len(input) THEN input[lo + k] ELSE 0]
    BY <1>1 DEF Bytes
  <1>3. \A k \in 1..n : (IF lo + k <= Len(input) THEN input[lo + k] ELSE 0) \in Byte
    <2> TAKE k \in 1..n
    <2>1. CASE lo + k <= Len(input)
      <3>1. lo + k \in 1..Len(input)
        BY <2>1, LenProperties
      <3> QED BY <2>1, <3>1, ElementOfSeq
    <2>2. CASE ~ (lo + k <= Len(input))
      BY <2>2 DEF Byte
    <2> QED BY <2>1, <2>2
  <1> HIDE DEF b
  <1>4. b \in Seq(Byte) /\ Len(b) = n
    BY <1>2, <1>3
  <1>5. \A k \in 1..n : lo + k <= Len(input) => b[k] = input[lo + k]
    BY <1>2
  <1> QED BY <1>4, <1>5, Zenon DEF b, Reads

(* A 16-bit number of a reply, on either kind of machine.                  *)
U16At(host, input, lo, hi) == U16(Loaded(host, Bytes(input, lo, hi)))

LEMMA U16Is ==
    ASSUME NEW host, NEW input \in Seq(Byte), NEW lo \in Nat, NEW hi, hi = lo + 1
    PROVE  /\ U16At(host, input, lo, hi) \in Nat
           /\ lo + 2 <= Len(input) =>
                  U16At(host, input, lo, hi) = input[lo + 1] * 256 + input[lo + 2]
  <1> DEFINE b == Bytes(input, lo, hi)
  <1>2. /\ b \in Seq(Byte) /\ Len(b) = 2
        /\ \A k \in 1..2 : lo + k <= Len(input) => b[k] = input[lo + k]
    <2>1. hi = lo + 2 - 1 /\ 2 \in Nat
      OBVIOUS
    <2>2. Reads(b, input, lo, 2)
      BY <2>1, BytesIs
    <2> QED BY <2>2 DEF Reads
  <1>3. U16At(host, input, lo, hi) = b[1] * 256 + b[2]
    BY <1>2, LoadedIs DEF U16, U16At
  <1> HIDE DEF b
  <1>4. b[1] \in 0..255 /\ b[2] \in 0..255
    <2>1. 1 \in 1..Len(b) /\ 2 \in 1..Len(b)
      BY <1>2
    <2>2. b[1] \in Byte /\ b[2] \in Byte
      BY <1>2, <2>1, ElementOfSeq, Zenon
    <2> QED BY <2>2 DEF Byte
  <1>5. lo + 2 <= Len(input) => b[1] = input[lo + 1] /\ b[2] = input[lo + 2]
    BY <1>2, LenProperties
  <1>6. b[1] * 256 + b[2] \in Nat
    <2>1. \A x, y \in 0..255 : x * 256 + y \in Nat
      OBVIOUS
    <2> QED BY <1>4, <2>1
  <1> HIDE DEF U16At
  <1> QED BY <1>3, <1>5, <1>6

-----------------------------------------------------------------------------
(* Reading a contract's reply.                                             *)
LEMMA StringBytesInside ==
    ASSUME NEW input \in Seq(Byte), NEW start \in Nat, start <= Len(input),
           NEW length \in Nat, NEW memory
    PROVE  StringBytes(input, start, length, memory).reach <= Len(input)
  <1>0. Len(input) \in Nat
    BY LenProperties
  <1>1. CASE Len(input) < start + length \/ ~ memory
    BY <1>1 DEF StringBytes, Failed
  <1>2. CASE ~ (Len(input) < start + length \/ ~ memory)
    BY <1>0, <1>2 DEF StringBytes
  <1> QED BY <1>1, <1>2

LEMMA StringInside ==
    ASSUME NEW host, NEW input \in Seq(Byte), NEW offset \in Nat, NEW memory
    PROVE  StringAt(host, input, offset, memory).reach <= Len(input)
  <1> DEFINE n == U16At(host, input, offset + 30, offset + 31)
  <1>0. Len(input) \in Nat
    BY LenProperties
  <1>1. CASE Len(input) < offset + 32
    BY <1>0, <1>1 DEF StringAt, Failed
  <1>2. CASE ~ (Len(input) < offset + 32)
    <2>1. offset + 30 \in Nat /\ offset + 31 = (offset + 30) + 1
      OBVIOUS
    <2>2. n \in Nat
      BY <2>1, U16Is
    <2>3. StringAt(host, input, offset, memory) = StringBytes(input, offset + 32, n, memory)
      BY <1>2 DEF StringAt, U16At
    <2> HIDE DEF n
    <2> QED BY <1>0, <1>2, <2>2, <2>3, StringBytesInside
  <1> QED BY <1>1, <1>2

(* Whatever a reply of bytes claims, each part is read inside it.          *)
LEMMA OrderInside ==
    ASSUME NEW host, NEW input \in Seq(Byte), NEW memory
    PROVE  \A part \in DOMAIN abi_get_order(host, input, memory) :
               abi_get_order(host, input, memory)[part].reach <= Len(input)
  <1>0. Len(input) \in Nat
    BY LenProperties
  <1>1. abi_get_order_start(host, input).reach <= Len(input)
    BY <1>0 DEF abi_get_order_start, Failed
  <1>2. abi_get_order_duration(host, input).reach <= Len(input)
    BY <1>0 DEF abi_get_order_duration, Failed
  <1>3. abi_get_order_endpoint(host, input, memory).reach <= Len(input)
    <2> DEFINE at == U16At(host, input, 94, 95)
    <2>1. at \in Nat
      <3>1. 94 \in Nat /\ 95 = 94 + 1
        OBVIOUS
      <3> QED BY <3>1, U16Is
    <2>2. CASE Len(input) < 96
      BY <1>0, <2>2 DEF abi_get_order_endpoint, Failed
    <2>3. CASE ~ (Len(input) < 96)
      <3>1. abi_get_order_endpoint(host, input, memory) = StringAt(host, input, at, memory)
        BY <2>3 DEF abi_get_order_endpoint, U16At
      <3> QED BY <2>1, <3>1, StringInside
    <2> QED BY <2>2, <2>3
  <1>4. abi_get_order_token(host, input, memory).reach <= Len(input)
    <2> DEFINE at == U16At(host, input, 126, 127)
    <2>1. at \in Nat
      <3>1. 126 \in Nat /\ 127 = 126 + 1
        OBVIOUS
      <3> QED BY <3>1, U16Is
    <2>2. CASE Len(input) < 128
      BY <1>0, <2>2 DEF abi_get_order_token, Failed
    <2>3. CASE ~ (Len(input) < 128)
      <3>1. abi_get_order_token(host, input, memory) = StringAt(host, input, at, memory)
        BY <2>3 DEF abi_get_order_token, U16At
      <3> QED BY <2>1, <3>1, StringInside
    <2> QED BY <2>2, <2>3
  <1> QED BY <1>1, <1>2, <1>3, <1>4 DEF abi_get_order

LEMMA EncodeReplyBytes ==
    ASSUME NEW r \in Replies
    PROVE  EncodeReply(r) \in Seq(Byte)
  <1>1. r.offset \in Nat /\ r.length \in Nat /\ r.tail \in Nat
    BY RepliesAssumption
  <1>2. /\ Zeros(2 * Word) \in Seq(Byte) /\ AbiWord(r.offset) \in Seq(Byte)
        /\ AbiWord(r.length) \in Seq(Byte) /\ Zeros(r.tail) \in Seq(Byte)
    <2>1. 2 * Word \in Nat
      BY DEF Word
    <2> QED BY <1>1, <2>1, ZerosIs, AbiWordIs
  <1> QED BY <1>2 DEF EncodeReply

(* What a state of the system holds of a reply. *)
ReplyRead ==
    op = "reply" => \E host \in Endian, r \in Replies :
        args = <<host, r>> /\ out = abi_get_order(host, EncodeReply(r), TRUE)

(* No part of a reply is read beyond its end, whatever offsets and lengths *)
(* it claims (abi_read_contract.c:5-117).                                  *)
THEOREM ConversionsReadInside == Spec => []ReadsInsideReply
  <1>1. Init => ReplyRead
    BY DEF Init, ReplyRead
  <1>2. ReplyRead /\ [Next]_vars => ReplyRead'
    BY DEF ReplyRead, Next, vars, Call, CallRau2Iotx, CallU128, CallCompare, CallHex2Str,
           CallStr2Hex, CallReadContract, CallPublish, CallGetOrder, CallGetReply, Return
  <1>3. ReplyRead => ReadsInsideReply
    <2> SUFFICES ASSUME ReplyRead, op = "reply" 
                 PROVE  \A part \in DOMAIN out : out[part].reach <= Len(EncodeReply(args[2]))
      BY DEF ReadsInsideReply
    <2>1. PICK host \in Endian, r \in Replies :
              args = <<host, r>> /\ out = abi_get_order(host, EncodeReply(r), TRUE)
      BY DEF ReplyRead
    <2>2. args[2] = r /\ EncodeReply(r) \in Seq(Byte)
      BY <2>1, EncodeReplyBytes
    <2> QED BY <2>1, <2>2, OrderInside
  <1> QED BY <1>1, <1>2, <1>3, PTL DEF Spec

-----------------------------------------------------------------------------
(* Amounts: texts of digits with at most one point.                        *)
Sign == 0..10

(* p is the place of the only point, or behind the end.                    *)
PointAt(text, p) ==
    /\ text \in Seq(Sign)
    /\ p \in 1..(Len(text) + 1)
    /\ \A i \in 1..Len(text) : text[i] = Point <=> i = p

LEMMA PointFound ==
    ASSUME NEW text, NEW p, PointAt(text, p)
    PROVE  PointIn(text) = p
  <1>0. Len(text) \in Nat
    BY LenProperties DEF PointAt
  <1>1. CASE p \in 1..Len(text)
    <2>1. Contains(text, Point)
      BY <1>1 DEF Contains, PointAt
    <2>2. \A i \in 1..Len(text) : text[i] = Point <=> i = p
      BY DEF PointAt
    <2>3. (CHOOSE i \in 1..Len(text) : text[i] = Point) = p
      BY <1>1, <2>2
    <2> QED BY <2>1, <2>3 DEF PointIn
  <1>2. CASE p \notin 1..Len(text)
    <2>1. p = Len(text) + 1
      BY <1>0, <1>2 DEF PointAt
    <2>2. ~ Contains(text, Point)
      BY <1>2 DEF Contains, PointAt
    <2> QED BY <2>1, <2>2 DEF PointIn
  <1> QED BY <1>1, <1>2

(* The digits of one text are those of the other, with the same weights.   *)
LEMMA SameDenoted ==
    ASSUME NEW s, NEW p, PointAt(s, p), NEW t, NEW q, PointAt(t, q), NEW u, NEW v,
           \A i \in 1..Len(s) : s[i] \in 1..9 =>
               \E j \in 1..Len(t) : t[j] = s[i] /\ Weight(q, j, v) = Weight(p, i, u),
           \A j \in 1..Len(t) : t[j] \in 1..9 =>
               \E i \in 1..Len(s) : t[j] = s[i] /\ Weight(q, j, v) = Weight(p, i, u)
    PROVE  Denoted(s, u) = Denoted(t, v)
  <1>1. PointIn(s) = p /\ PointIn(t) = q
    BY PointFound
  <1>2. Denoted(s, u) \subseteq Denoted(t, v)
    <2> SUFFICES ASSUME NEW x \in Denoted(s, u) PROVE x \in Denoted(t, v)
      OBVIOUS
    <2>1. PICK i \in 1..Len(s) : s[i] \in 1..9 /\ x = <<Weight(p, i, u), s[i]>>
      BY <1>1 DEF Denoted
    <2>2. PICK j \in 1..Len(t) : t[j] = s[i] /\ Weight(q, j, v) = Weight(p, i, u)
      BY <2>1
    <2>3. x = <<Weight(q, j, v), t[j]>> /\ t[j] \in 1..9
      BY <2>1, <2>2
    <2> QED BY <1>1, <2>3 DEF Denoted
  <1>3. Denoted(t, v) \subseteq Denoted(s, u)
    <2> SUFFICES ASSUME NEW x \in Denoted(t, v) PROVE x \in Denoted(s, u)
      OBVIOUS
    <2>1. PICK j \in 1..Len(t) : t[j] \in 1..9 /\ x = <<Weight(q, j, v), t[j]>>
      BY <1>1 DEF Denoted
    <2>2. PICK i \in 1..Len(s) : t[j] = s[i] /\ Weight(q, j, v) = Weight(p, i, u)
      BY <2>1
    <2>3. x = <<Weight(p, i, u), s[i]>> /\ s[i] \in 1..9
      BY <2>1, <2>2
    <2> QED BY <1>1, <2>3 DEF Denoted
  <1> QED BY <1>2, <1>3

LEMMA LastNonzero ==
    ASSUME NEW n \in Nat, NEW t, \E i \in 1..n : t[i] # 0
    PROVE  \E w \in 1..n : t[w] # 0 /\ \A j \in (w + 1)..n : t[j] = 0
  <1> DEFINE less == OpToRel(<, Nat)
             T == { n - i : i \in { k \in 1..n : t[k] # 0 } }
  <1>1. less = { ss \in Nat \X Nat : ss[1] < ss[2] }
    BY Zenon DEF OpToRel
  <1>2. IsWellFoundedOn(less, Nat)
    BY NatLessThanWellFounded
  <1>3. T \subseteq Nat /\ T # {}
    <2>1. \A i \in 1..n : n - i \in Nat OBVIOUS
    <2> QED BY <2>1
  <1>4. \A i \in 1..n : t[i] # 0 => n - i \in T
    OBVIOUS
  <1> HIDE DEF less
  <1>5. PICK m \in T : \A y \in T : ~ (<<y, m>> \in less)
    BY <1>2, <1>3, WFMin
  <1>6. PICK w \in 1..n : t[w] # 0 /\ m = n - w
    OBVIOUS
  <1> HIDE DEF T
  <1>7. ASSUME NEW j \in (w + 1)..n, t[j] # 0
        PROVE  FALSE
    <2>1. j \in 1..n /\ n - j \in Nat /\ n - w \in Nat /\ n - j < n - w
      BY <1>6
    <2>2. n - j \in T
      BY <1>4, <1>7, <2>1
    <2>3. <<n - j, m>> \in Nat \X Nat
      BY <1>6, <2>1
    <2>4. <<n - j, m>> \in less
      BY <1>1, <1>6, <2>1, <2>3
    <2> QED BY <1>5, <2>2, <2>4
  <1> QED BY <1>6, <1>7

(* Trimming takes no digit but zeros behind the point.                     *)
LEMMA TrimmedIs ==
    ASSUME NEW full, NEW p, PointAt(full, p), p <= Len(full), NEW u
    PROVE  Denoted(Trimmed(full), u) = Denoted(full, u)
  <1> DEFINE n == Len(full)
             w == CHOOSE i \in 1..n : full[i] # 0 /\ \A j \in (i + 1)..n : full[j] = 0
             m == IF full[w] = Point THEN w - 1 ELSE w
             t == SubSeq(full, 1, m)
  <1>0. /\ full \in Seq(Sign) /\ n \in Nat /\ p \in 1..n /\ full[p] = Point /\ Point # 0
        /\ \A i \in 1..n : full[i] \in Sign
        /\ \A i \in 1..n : full[i] = Point <=> i = p
    BY LenProperties, ElementOfSeq DEF PointAt, Point
  <1>1. w \in 1..n /\ full[w] # 0 /\ \A j \in (w + 1)..n : full[j] = 0
    <2>1. \E i \in 1..n : full[i] # 0 /\ \A j \in (i + 1)..n : full[j] = 0
      <3> HIDE DEF n
      <3> QED BY <1>0, LastNonzero
    <2> QED BY <2>1
  <1>2. Trimmed(full) = t
    BY DEF Trimmed
  <1> HIDE DEF n, w
  <1>3. p <= w
    <2> SUFFICES ASSUME ~ (p <= w) PROVE FALSE
      OBVIOUS
    <2>1. p \in (w + 1)..n
      BY <1>0, <1>1
    <2> QED BY <1>0, <1>1, <2>1
  <1>4. /\ m \in 0..n /\ p - 1 <= m
        /\ \A i \in (m + 1)..n : full[i] \notin 1..9
        /\ m < p => m = p - 1
    <2>1. CASE full[w] = Point
      <3>1. w = p /\ m = p - 1
        BY <1>0, <1>1, <2>1
      <3>2. \A i \in (m + 1)..n : full[i] \notin 1..9
        <4> TAKE i \in (m + 1)..n
        <4>1. i = w \/ i \in (w + 1)..n
          BY <1>0, <1>1, <3>1
        <4> QED BY <1>1, <2>1, <4>1 DEF Point
      <3> QED BY <1>0, <3>1, <3>2
    <2>2. CASE full[w] # Point
      <3>1. m = w
        BY <2>2
      <3>2. \A i \in (m + 1)..n : full[i] \notin 1..9
        BY <1>1, <3>1
      <3> QED BY <1>0, <1>1, <1>3, <3>1, <3>2
    <2> QED BY <2>1, <2>2
  <1> HIDE DEF m
  <1>5. t \in Seq(Sign) /\ Len(t) = m /\ \A i \in 1..m : t[i] = full[i]
    <2>1. 0 \in Nat /\ m \in Nat /\ 0 + m <= Len(full) /\ 1 = 0 + 1 /\ m = 0 + m
      BY <1>0, <1>4 DEF n
    <2>2. Slices(t, Sign, full, 0, m)
      BY <1>0, <2>1, Sliced
    <2>3. \A i \in 1..m : 0 + i = i
      OBVIOUS
    <2> HIDE DEF t
    <2> QED BY <2>2, <2>3 DEF Slices
  <1> HIDE DEF t
  <1>6. PointAt(t, p)
    <2>1. p \in 1..(Len(t) + 1)
      BY <1>0, <1>4, <1>5
    <2>2. \A i \in 1..Len(t) : t[i] = Point <=> i = p
      BY <1>0, <1>4, <1>5
    <2> QED BY <1>5, <2>1, <2>2 DEF PointAt
  <1>7. \A i \in 1..Len(t) : t[i] \in 1..9 =>
            \E j \in 1..Len(full) : full[j] = t[i] /\ Weight(p, j, u) = Weight(p, i, u)
    BY <1>0, <1>4, <1>5 DEF n
  <1>8. \A j \in 1..Len(full) : full[j] \in 1..9 =>
            \E i \in 1..Len(t) : full[j] = t[i] /\ Weight(p, j, u) = Weight(p, i, u)
    <2> TAKE j \in 1..Len(full)
    <2> HAVE full[j] \in 1..9
    <2>1. j \in 1..m
      <3>1. j \in 1..n
        BY DEF n
      <3> QED BY <1>0, <1>4, <3>1
    <2> QED BY <1>5, <2>1
  <1>9. Denoted(t, u) = Denoted(full, u)
    BY <1>6, <1>7, <1>8, SameDenoted
  <1> QED BY <1>2, <1>9

LEMMA RauIs ==
    ASSUME NEW rau \in Seq(0..9)
    PROVE  /\ PointAt(rau, Len(rau) + 1) /\ Len(rau) \in Nat
           /\ \A i \in 1..Len(rau) : rau[i] \in 0..9
  <1>1. /\ Len(rau) \in Nat /\ DOMAIN rau = 1..Len(rau)
        /\ \A i \in 1..Len(rau) : rau[i] \in 0..9
    BY LenProperties, ElementOfSeq
  <1>2. rau \in Seq(Sign)
    BY <1>1 DEF Sign
  <1>3. \A i \in 1..Len(rau) : rau[i] # Point /\ i # Len(rau) + 1
    BY <1>1 DEF Point
  <1> QED BY <1>1, <1>2, <1>3 DEF PointAt

(* The point goes in front of the last TransformFactor digits.             *)
LEMMA PointedIs ==
    ASSUME NEW rau \in Seq(0..9), Len(rau) > TransformFactor
    PROVE  /\ PointAt(Pointed(rau), Len(rau) - TransformFactor + 1)
           /\ Len(Pointed(rau)) = Len(rau) + 1
           /\ Denoted(Pointed(rau), TransformFactor) = Denoted(rau, 0)
  <1> DEFINE n == Len(rau)
             p == n - TransformFactor + 1
             a == SubSeq(rau, 1, p - 1)
             b == SubSeq(rau, p, n)
             full == a \o <<Point>> \o b
  <1>0. /\ PointAt(rau, n + 1) /\ n \in Nat /\ TransformFactor \in Nat \ {0}
        /\ rau \in Seq(Sign)
        /\ \A i \in 1..n : rau[i] \in 0..9 /\ rau[i] \in Sign
    BY RauIs, AmountsAssumption DEF Sign, PointAt
  <1>1. Pointed(rau) = full
    <2>1. n - TransformFactor # 0 /\ (n - TransformFactor) + 1 = p
      BY <1>0
    <2> QED BY <2>1 DEF Pointed, InsertAt
  <1> HIDE DEF n
  <1>2. p \in 2..n /\ p \in Nat
    BY <1>0 DEF n
  <1>3. n - p = TransformFactor - 1
    BY <1>0
  <1> HIDE DEF p
  <1>4. a \in Seq(Sign) /\ Len(a) = p - 1 /\ \A i \in 1..(p - 1) : a[i] = rau[i]
    <2>1. 0 \in Nat /\ p - 1 \in Nat /\ 0 + (p - 1) <= Len(rau) /\ 1 = 0 + 1 /\ p - 1 = 0 + (p - 1)
      BY <1>0, <1>2 DEF n
    <2>2. Slices(a, Sign, rau, 0, p - 1)
      BY <1>0, <2>1, Sliced
    <2>3. \A i \in 1..(p - 1) : 0 + i = i
      OBVIOUS
    <2> HIDE DEF a
    <2> QED BY <2>2, <2>3 DEF Slices
  <1>5. /\ b \in Seq(Sign) /\ Len(b) = TransformFactor
        /\ \A i \in 1..TransformFactor : b[i] = rau[(p - 1) + i]
    <2>1. /\ p - 1 \in Nat /\ TransformFactor \in Nat /\ (p - 1) + TransformFactor <= Len(rau)
          /\ p = (p - 1) + 1 /\ n = (p - 1) + TransformFactor
      BY <1>0, <1>2, <1>3 DEF n
    <2>2. Slices(b, Sign, rau, p - 1, TransformFactor)
      BY <1>0, <2>1, Sliced
    <2> HIDE DEF b
    <2> QED BY <2>2 DEF Slices
  <1> DEFINE o == <<Point>>
             c == a \o o
  <1>6. o \in Seq(Sign) /\ Len(o) = 1 /\ o[1] = Point
    BY DEF Point, Sign
  <1> HIDE DEF a, b, o
  <1>7. /\ c \in Seq(Sign) /\ Len(c) = p /\ c[p] = Point
        /\ \A i \in 1..(p - 1) : c[i] = rau[i]
    <2>1. p - 1 \in Nat /\ 1 \in Nat /\ (p - 1) + 1 = p /\ 1 \in 1..1
      BY <1>2
    <2>2. Joins(c, Sign, a, p - 1, o, 1)
      BY <1>4, <1>6, <2>1, Joined
    <2> HIDE DEF c
    <2> QED BY <1>4, <1>6, <2>1, <2>2 DEF Joins
  <1>8. /\ full \in Seq(Sign) /\ Len(full) = n + 1 /\ full[p] = Point
        /\ \A i \in 1..(p - 1) : full[i] = rau[i]
        /\ \A i \in (p + 1)..(n + 1) : full[i] = rau[i - 1]
    <2>1. full = c \o b
      BY DEF c, o
    <2> HIDE DEF full, c
    <2>2. Joins(full, Sign, c, p, b, TransformFactor)
      BY <1>0, <1>2, <1>5, <1>7, <2>1, Joined
    <2>3. /\ full \in Seq(Sign) /\ Len(full) = p + TransformFactor
          /\ \A i \in 1..p : full[i] = c[i]
          /\ \A i \in 1..TransformFactor : full[p + i] = rau[(p - 1) + i]
      BY <1>5, <2>2 DEF Joins
    <2>4. \A i \in (p + 1)..(n + 1) : full[i] = rau[i - 1]
      <3> TAKE i \in (p + 1)..(n + 1)
      <3>1. i - p \in 1..TransformFactor /\ p + (i - p) = i /\ (p - 1) + (i - p) = i - 1
        BY <1>0, <1>2, <1>3
      <3>2. full[p + (i - p)] = rau[(p - 1) + (i - p)]
        BY <2>3, <3>1
      <3> QED BY <3>1, <3>2
    <2>5. p + TransformFactor = n + 1 /\ p \in 1..p /\ \A i \in 1..(p - 1) : i \in 1..p
      BY <1>0, <1>2, <1>3
    <2> QED BY <1>7, <2>3, <2>4, <2>5
  <1> HIDE DEF full
  <1>9. PointAt(full, p)
    <2>1. p \in 1..(Len(full) + 1)
      BY <1>0, <1>2, <1>8
    <2>2. ASSUME NEW i \in 1..Len(full), i # p
          PROVE  full[i] # Point
      <3>1. (i \in 1..(p - 1) /\ i \in 1..n) \/ (i \in (p + 1)..(n + 1) /\ i - 1 \in 1..n)
        BY <1>0, <1>2, <1>8, <2>2
      <3>2. \E j \in 1..n : full[i] = rau[j]
        BY <1>8, <3>1
      <3> QED BY <1>0, <3>2, SMTT(30) DEF Point
    <2> QED BY <1>8, <2>1, <2>2 DEF PointAt
  <1>10. \A i \in 1..Len(full) : full[i] \in 1..9 =>
             \E j \in 1..n : rau[j] = full[i]
                 /\ Weight(n + 1, j, 0) = Weight(p, i, TransformFactor)
    <2> TAKE i \in 1..Len(full)
    <2> HAVE full[i] \in 1..9
    <2>1. i # p
      BY <1>8 DEF Point
    <2>2. CASE i < p
      <3>1. full[i] = rau[i] /\ i \in 1..n
        BY <1>0, <1>2, <1>8, <2>2
      <3>2. Weight(n + 1, i, 0) = Weight(p, i, TransformFactor)
        BY <1>0, <1>2, <1>3, <2>2, <3>1 DEF Weight
      <3> QED BY <3>1, <3>2
    <2>3. CASE i > p
      <3>1. full[i] = rau[i - 1] /\ i - 1 \in 1..n
        BY <1>0, <1>2, <1>8, <2>3
      <3>2. Weight(n + 1, i - 1, 0) = Weight(p, i, TransformFactor)
        BY <1>0, <1>2, <1>3, <2>3, <3>1 DEF Weight
      <3> QED BY <3>1, <3>2
    <2> QED BY <1>2, <2>1, <2>2, <2>3
  <1>11. \A j \in 1..n : rau[j] \in 1..9 =>
             \E i \in 1..Len(full) : rau[j] = full[i]
                 /\ Weight(n + 1, j, 0) = Weight(p, i, TransformFactor)
    <2> TAKE j \in 1..n
    <2> HAVE rau[j] \in 1..9
    <2>1. CASE j < p
      <3>1. full[j] = rau[j] /\ j \in 1..Len(full)
        BY <1>0, <1>2, <1>8, <2>1
      <3>2. Weight(n + 1, j, 0) = Weight(p, j, TransformFactor)
        BY <1>0, <1>2, <1>3, <2>1 DEF Weight
      <3> QED BY <3>1, <3>2
    <2>2. CASE ~ (j < p)
      <3>1. (j + 1) - 1 = j /\ j + 1 \in (p + 1)..(n + 1) /\ j + 1 \in 1..Len(full)
        BY <1>0, <1>2, <1>8, <2>2
      <3>2. full[j + 1] = rau[j]
        BY <1>8, <3>1
      <3>3. Weight(n + 1, j, 0) = Weight(p, j + 1, TransformFactor)
        BY <1>0, <1>2, <1>3, <2>2 DEF Weight
      <3> QED BY <3>1, <3>2, <3>3
    <2> QED BY <2>1, <2>2
  <1>12. Denoted(full, TransformFactor) = Denoted(rau, 0)
    BY <1>0, <1>9, <1>10, <1>11, SameDenoted DEF n
  <1> QED BY <1>1, <1>8, <1>9, <1>12 DEF p, n

(* A shorter amount gets zeros in front, and the point behind the first.   *)
LEMMA PaddedIs ==
    ASSUME NEW rau \in Seq(0..9), Len(rau) < TransformFactor, Len(rau) # 0
    PROVE  /\ PointAt(Padded(rau), 2)
           /\ Len(Padded(rau)) = TransformFactor + 2
           /\ Denoted(Padded(rau), TransformFactor) = Denoted(rau, 0)
  <1> DEFINE n == Len(rau)
             d == TransformFactor - n
             z == [i \in 1..d |-> 0]
             h == <<0, Point>>
             full == h \o z \o rau
  <1>0. /\ PointAt(rau, n + 1) /\ n \in Nat /\ TransformFactor \in Nat \ {0}
        /\ rau \in Seq(Sign)
        /\ \A i \in 1..n : rau[i] \in 0..9
    BY RauIs, AmountsAssumption DEF PointAt
  <1>1. d \in Nat /\ n + d = TransformFactor
    BY <1>0
  <1>2. Padded(rau) = full
    BY DEF Padded
  <1> HIDE DEF d
  <1>3. z \in Seq(Sign) /\ Len(z) = d /\ \A i \in 1..d : z[i] = 0
    BY <1>1 DEF Sign
  <1>4. h \in Seq(Sign) /\ Len(h) = 2 /\ h[1] = 0 /\ h[2] = Point
    BY DEF Sign, Point
  <1> HIDE DEF n, z, h
  <1> DEFINE c == h \o z
  <1>5. c \in Seq(Sign) /\ Len(c) = d + 2 /\ c[1] = 0 /\ c[2] = Point
        /\ \A i \in 3..(d + 2) : c[i] = 0
    <2>1. Joins(c, Sign, h, 2, z, d)
      <3>1. 2 \in Nat
        OBVIOUS
      <3> QED BY <1>1, <1>3, <1>4, <3>1, Joined
    <2> HIDE DEF c
    <2>2. /\ c \in Seq(Sign) /\ Len(c) = 2 + d
          /\ \A i \in 1..2 : c[i] = h[i]
          /\ \A i \in 1..d : c[2 + i] = 0
      BY <1>3, <2>1 DEF Joins
    <2>3. \A i \in 3..(d + 2) : c[i] = 0
      <3> TAKE i \in 3..(d + 2)
      <3>1. i - 2 \in 1..d /\ 2 + (i - 2) = i
        BY <1>1
      <3>2. c[2 + (i - 2)] = 0
        BY <2>2, <3>1
      <3> QED BY <3>1, <3>2
    <2>4. 1 \in 1..2 /\ 2 \in 1..2 /\ 2 + d = d + 2
      BY <1>1
    <2> QED BY <1>4, <2>2, <2>3, <2>4
  <1>6. /\ full \in Seq(Sign) /\ Len(full) = TransformFactor + 2
        /\ full[1] = 0 /\ full[2] = Point
        /\ \A i \in 3..(d + 2) : full[i] = 0
        /\ \A i \in (d + 3)..(TransformFactor + 2) : full[i] = rau[i - (d + 2)]
    <2>1. full = c \o rau
      BY DEF c
    <2> HIDE DEF full, c
    <2>2. Joins(full, Sign, c, d + 2, rau, n)
      <3>1. d + 2 \in Nat /\ Len(rau) = n
        BY <1>1 DEF n
      <3> QED BY <1>0, <1>5, <2>1, <3>1, Joined
    <2>3. /\ full \in Seq(Sign) /\ Len(full) = (d + 2) + n
          /\ \A i \in 1..(d + 2) : full[i] = c[i]
          /\ \A i \in 1..n : full[(d + 2) + i] = rau[i]
      BY <2>2 DEF Joins
    <2>4. \A i \in (d + 3)..(TransformFactor + 2) : full[i] = rau[i - (d + 2)]
      <3> TAKE i \in (d + 3)..(TransformFactor + 2)
      <3>1. i - (d + 2) \in 1..n /\ (d + 2) + (i - (d + 2)) = i
        BY <1>0, <1>1
      <3>2. full[(d + 2) + (i - (d + 2))] = rau[i - (d + 2)]
        BY <2>3, <3>1
      <3> QED BY <3>1, <3>2
    <2>5. (d + 2) + n = TransformFactor + 2
      BY <1>0, <1>1
    <2>6. 1 \in 1..(d + 2) /\ 2 \in 1..(d + 2) /\ \A i \in 3..(d + 2) : i \in 1..(d + 2)
      BY <1>1
    <2> QED BY <1>5, <2>3, <2>4, <2>5, <2>6
  <1> HIDE DEF full
  <1>7. PointAt(full, 2)
    <2>1. 2 \in 1..(Len(full) + 1)
      BY <1>0, <1>6
    <2>2. ASSUME NEW i \in 1..Len(full), i # 2
          PROVE  full[i] # Point
      <3>1. CASE i \in 3..(d + 2) \/ i = 1
        BY <1>6, <3>1 DEF Point
      <3>2. CASE ~ (i \in 3..(d + 2) \/ i = 1)
        <4>1. i \in (d + 3)..(TransformFactor + 2) /\ i - (d + 2) \in 1..n
          BY <1>0, <1>1, <1>6, <2>2, <3>2
        <4>2. full[i] = rau[i - (d + 2)]
          BY <1>6, <4>1
        <4>3. rau[i - (d + 2)] \in 0..9
          BY <1>0, <4>1
        <4> QED BY <4>2, <4>3 DEF Point
      <3> QED BY <3>1, <3>2
    <2> QED BY <1>6, <2>1, <2>2 DEF PointAt
  <1>8. \A i \in 1..Len(full) : full[i] \in 1..9 =>
            \E j \in 1..n : rau[j] = full[i]
                /\ Weight(n + 1, j, 0) = Weight(2, i, TransformFactor)
    <2> TAKE i \in 1..Len(full)
    <2> HAVE full[i] \in 1..9
    <2>1. i \notin {1, 2} /\ i \notin 3..(d + 2)
      BY <1>6 DEF Point
    <2>2. i \in (d + 3)..(TransformFactor + 2) /\ i - (d + 2) \in 1..n
      BY <1>0, <1>1, <1>6, <2>1
    <2>3. Weight(n + 1, i - (d + 2), 0) = Weight(2, i, TransformFactor)
      BY <1>0, <1>1, <2>2 DEF Weight
    <2> QED BY <1>6, <2>2, <2>3
  <1>9. \A j \in 1..n : rau[j] \in 1..9 =>
            \E i \in 1..Len(full) : rau[j] = full[i]
                /\ Weight(n + 1, j, 0) = Weight(2, i, TransformFactor)
    <2> TAKE j \in 1..n
    <2> HAVE rau[j] \in 1..9
    <2> DEFINE i == j + (d + 2)
    <2>1. /\ i \in (d + 3)..(TransformFactor + 2) /\ i - (d + 2) = j
          /\ i \in 1..Len(full)
      BY <1>0, <1>1, <1>6
    <2>2. Weight(n + 1, j, 0) = Weight(2, i, TransformFactor)
      BY <1>0, <1>1, <2>1 DEF Weight
    <2> HIDE DEF i
    <2> QED BY <1>6, <2>1, <2>2
  <1>10. Denoted(full, TransformFactor) = Denoted(rau, 0)
    BY <1>0, <1>7, <1>8, <1>9, SameDenoted DEF n
  <1> QED BY <1>2, <1>6, <1>7, <1>10

(* utils_rau2iotx stays in its buffer, and keeps a canonical amount.       *)
LEMMA Rau2IotxKeeps ==
    ASSUME NEW rau \in Seq(0..9), rau # << >>, NEW max \in Nat, rau_room(rau, max)
    PROVE  /\ utils_rau2iotx(rau, max).written <= max
           /\ Canonical(rau) /\ Len(rau) # TransformFactor =>
                  Denoted(utils_rau2iotx(rau, max).text, TransformFactor) = Denoted(rau, 0)
  <1> DEFINE n == Len(rau)
             full == IF n >= TransformFactor THEN Pointed(rau) ELSE Padded(rau)
             iotx == Trimmed(full)
  <1>0. /\ n \in Nat /\ n # 0 /\ TransformFactor \in Nat \ {0}
        /\ ~ (max < n + 3) /\ ~ (max < TransformFactor + 3)
        /\ PointAt(rau, n + 1)
    BY RauIs, AmountsAssumption, EmptySeq DEF rau_room
  <1>1. CASE rau[1] = 0
    <2>1. utils_rau2iotx(rau, max) = [text |-> <<0>>, written |-> 2]
      BY <1>1 DEF utils_rau2iotx
    <2>2. ASSUME Canonical(rau)
          PROVE  Denoted(<<0>>, TransformFactor) = Denoted(rau, 0)
      <3>1. Len(rau) = 1 /\ rau[1] = 0
        BY <1>1, <2>2 DEF Canonical
      <3>2. Len(<<0>>) = 1 /\ <<0>>[1] = 0
        OBVIOUS
      <3>3. \A s : Len(s) = 1 /\ s[1] = 0 => { j \in 1..Len(s) : s[j] \in 1..9 } = {}
        OBVIOUS
      <3> QED BY <3>1, <3>2, <3>3 DEF Denoted
    <2> QED BY <1>0, <2>1, <2>2
  <1>2. CASE rau[1] # 0
    <2>1. /\ utils_rau2iotx(rau, max).text = iotx
          /\ utils_rau2iotx(rau, max).written \in {Len(full), Len(full) + 1}
      BY <1>2 DEF utils_rau2iotx
    <2>2. CASE n = TransformFactor
      <3>1. full = rau
        BY <1>0, <2>2 DEF Pointed
      <3> QED BY <1>0, <2>1, <2>2, <3>1
    <2>3. CASE n > TransformFactor
      <3>1. full = Pointed(rau)
        BY <1>0, <2>3
      <3>2. /\ PointAt(full, n - TransformFactor + 1) /\ Len(full) = n + 1
            /\ Denoted(full, TransformFactor) = Denoted(rau, 0)
        BY <2>3, <3>1, PointedIs
      <3>3. n - TransformFactor + 1 <= Len(full)
        BY <1>0, <3>2
      <3> HIDE DEF full
      <3>4. Denoted(Trimmed(full), TransformFactor) = Denoted(full, TransformFactor)
        BY <3>2, <3>3, TrimmedIs
      <3> QED BY <1>0, <2>1, <3>2, <3>4
    <2>4. CASE n < TransformFactor
      <3>1. full = Padded(rau)
        BY <1>0, <2>4
      <3>2. /\ PointAt(full, 2) /\ Len(full) = TransformFactor + 2
            /\ Denoted(full, TransformFactor) = Denoted(rau, 0)
        BY <1>0, <2>4, <3>1, PaddedIs
      <3>3. 2 <= Len(full)
        BY <1>0, <3>2
      <3> HIDE DEF full
      <3>4. Denoted(Trimmed(full), TransformFactor) = Denoted(full, TransformFactor)
        BY <3>2, <3>3, TrimmedIs
      <3> QED BY <1>0, <2>1, <3>2, <3>4
    <2> QED BY <1>0, <2>2, <2>3, <2>4
  <1> QED BY <1>1, <1>2

(* What a state of the system holds of a conversion of rau. *)
RauConverted ==
    op = "rau2iotx" => \E rau \in Raus, max \in Rooms :
        args = <<rau, max>> /\ out = utils_rau2iotx(rau, max)

(* No digit of an amount is lost or moved, and nothing is written behind   *)
(* the buffer, for every factor (utils.c:5-64).                            *)
THEOREM ConversionsRauKept == Spec => []RauKept
  <1>1. Init => RauConverted
    BY DEF Init, RauConverted
  <1>2. RauConverted /\ [Next]_vars => RauConverted'
    BY DEF RauConverted, Next, vars, Call, CallRau2Iotx, CallU128, CallCompare, CallHex2Str,
           CallStr2Hex, CallReadContract, CallPublish, CallGetOrder, CallGetReply, Return
  <1>3. RauConverted => RauKept
    <2> SUFFICES ASSUME RauConverted, op = "rau2iotx", out # NULL
                 PROVE  /\ Canonical(args[1]) /\ Len(args[1]) # TransformFactor => SameAmount
                        /\ out.written <= args[2]
      BY DEF RauKept
    <2>1. PICK rau \in Raus, max \in Rooms :
              args = <<rau, max>> /\ out = utils_rau2iotx(rau, max)
      BY DEF RauConverted
    <2>2. args[1] = rau /\ args[2] = max /\ rau \in Seq(0..9) /\ rau # << >> /\ max \in Nat
      BY <2>1, CallsAssumption
    <2>3. rau_room(rau, max)
      BY <2>1 DEF utils_rau2iotx
    <2>4. /\ out.written <= max
          /\ Canonical(rau) /\ Len(rau) # TransformFactor =>
                 Denoted(out.text, TransformFactor) = Denoted(rau, 0)
      BY <2>1, <2>2, <2>3, Rau2IotxKeeps
    <2> QED BY <2>2, <2>4 DEF SameAmount
  <1> QED BY <1>1, <1>2, <1>3, PTL DEF Spec

-----------------------------------------------------------------------------
(* Strings of a contract.                                                  *)
LEMMA QuadEnds ==
    ASSUME NEW n \in Nat, n < 256 * 256
    PROVE  Quad(n)[3] * 256 + Quad(n)[4] = n
  <1>1. Quad(n)[3] = (n \div 256) % 256 /\ Quad(n)[4] = n % 256
    BY DEF Quad
  <1> DEFINE q == n \div 256
             m == n % 256
  <1>2. n \in Nat /\ n < 256 * 256
    OBVIOUS
  <1>3. q \in Nat /\ m \in Nat /\ n = 256 * q + m
    BY <1>2
  <1>4. q % 256 = q
    <2> HIDE DEF q, m
    <2>1. 256 * q < 256 * 256
      BY <1>2, <1>3
    <2>2. q \in 0..255
      BY <1>3, <2>1
    <2> QED BY <2>2
  <1>5. Quad(n)[3] = q /\ Quad(n)[4] = m
    BY <1>1, <1>4
  <1> HIDE DEF q, m
  <1> QED BY <1>2, <1>3, <1>5

LEMMA AlignedIs ==
    ASSUME NEW n \in Nat
    PROVE  /\ Aligned(n) \in Nat /\ n <= Aligned(n) /\ Aligned(n) < n + 32
           /\ Aligned(n) % 32 = 0
  <1> DEFINE q == (n + 31) \div 32
  <1>1. q \in Nat /\ 32 * q <= n + 31 /\ n + 31 < 32 * q + 32
    OBVIOUS
  <1>2. Aligned(n) = q * 32
    <2>1. n + Word - 1 = n + 31 /\ Word = 32
      BY DEF Word
    <2> QED BY <2>1 DEF Aligned
  <1> HIDE DEF q
  <1>3. (q * 32) % 32 = 0
    BY <1>1
  <1> QED BY <1>1, <1>2, <1>3

(* A string is read if the input has all of it and there is memory.        *)
HasString(input, at, v) ==
    /\ at + 32 <= Len(input) => input[at + 31] * 256 + input[at + 32] = Len(v)
    /\ at + 32 + Len(v) <= Len(input) => \A i \in 1..Len(v) : input[at + 32 + i] = v[i]

(* What is read is v, if the input has all of it behind start.             *)
ReadAs(read, input, start, v, memory) ==
    read = IF start + Len(v) <= Len(input) /\ memory THEN v ELSE NULL

LEMMA StringRead ==
    ASSUME NEW host, NEW input \in Seq(Byte), NEW at \in Nat, NEW v \in Seq(Byte),
           NEW memory \in BOOLEAN, HasString(input, at, v)
    PROVE  ReadAs(StringAt(host, input, at, memory).value, input, at + 32, v, memory)
  <1> DEFINE size == Len(input)
             m    == Len(v)
             lo   == at + 30
             hi   == at + 31
             from == at + 32
             n    == U16At(host, input, lo, hi)
             s    == StringAt(host, input, at, memory)
  <1>0. size \in Nat /\ m \in Nat
    BY LenProperties
  <1>1. CASE size < at + 32
    <2>1. s.value = NULL
      BY <1>1 DEF StringAt, Failed
    <2>2. ~ (at + 32 + m <= size)
      BY <1>0, <1>1
    <2> QED BY <2>1, <2>2, Zenon DEF ReadAs
  <1>2. CASE ~ (size < at + 32)
    <2>1. n = m
      <3>1. /\ lo \in Nat /\ hi = lo + 1 /\ lo + 2 <= size
            /\ lo + 1 = at + 31 /\ lo + 2 = at + 32 /\ at + 32 <= size
        BY <1>0, <1>2
      <3> HIDE DEF lo, hi
      <3>2. n = input[lo + 1] * 256 + input[lo + 2]
        BY <3>1, U16Is
      <3>3. input[at + 31] * 256 + input[at + 32] = m
        BY <3>1 DEF HasString
      <3> HIDE DEF n, m
      <3> QED BY <3>1, <3>2, <3>3
    <2>2. s = StringBytes(input, from, m, memory)
      BY <1>2, <2>1 DEF StringAt, U16At
    <2>3. from \in Nat /\ from + m = at + 32 + m
      BY <1>0
    <2> HIDE DEF n, s
    <2>4. CASE size < from + m \/ ~ memory
      <3>1. s.value = NULL
        BY <2>2, <2>4 DEF StringBytes, Failed
      <3>2. ~ (at + 32 + m <= size /\ memory)
        BY <1>0, <2>3, <2>4
      <3> QED BY <3>1, <3>2, Zenon DEF s, ReadAs
    <2>5. CASE ~ (size < from + m \/ ~ memory)
      <3> DEFINE end == from + m - 1
                 b   == Bytes(input, from, end)
      <3>1. s.value = b
        BY <2>2, <2>5 DEF StringBytes
      <3>2. Reads(b, input, from, m)
        BY <1>0, <2>3, BytesIs
      <3>3. \A k \in 1..m : from + k = at + 32 + k /\ from + k <= size
        BY <1>0, <2>3, <2>5
      <3>4. at + 32 + m <= size /\ memory
        BY <1>0, <2>3, <2>5
      <3> HIDE DEF b, from
      <3>5. \A k \in 1..m : b[k] = v[k]
        <4> TAKE k \in 1..m
        <4>1. b[k] = input[from + k]
          BY <3>2, <3>3 DEF Reads
        <4>2. input[at + 32 + k] = v[k]
          BY <3>4 DEF HasString
        <4> QED BY <3>3, <4>1, <4>2
      <3>6. b = v
        <4>1. b \in Seq(Byte) /\ Len(b) = Len(v)
          BY <3>2 DEF Reads
        <4> HIDE DEF m
        <4>2. \A k \in 1..Len(b) : b[k] = v[k]
          BY <3>5, <4>1 DEF m
        <4> QED BY <4>1, <4>2, SameSequence
      <3> QED BY <3>1, <3>4, <3>6, Zenon DEF s, ReadAs
    <2> QED BY <2>4, <2>5
  <1> QED BY <1>1, <1>2

-----------------------------------------------------------------------------
(* The published data, byte by byte. *)
LEMMA HostToBigIs ==
    ASSUME NEW host, NEW n \in Nat
    PROVE  HostToBig(host, n) = BigEndian64(n)
  <1>1. BigEndian64(n) \in Seq(Byte)
    BY BigEndian64Is DEF Joins
  <1>2. HostToBig(host, n) = Loaded(host, BigEndian64(n))
    BY DEF HostToBig, InMemory, Loaded, endian_swap
  <1> QED BY <1>1, <1>2, LoadedIs

(* data is the input of n bytes as a call's argument.                     *)
IsPublished(data, input, n) ==
    /\ data \in Seq(Byte) /\ n \in Nat /\ Len(data) = 68 + Aligned(n)
    /\ \A i \in 1..31 : data[4 + i] = 0
    /\ data[36] = 32
    /\ \A i \in 1..24 : data[36 + i] = 0
    /\ \A i \in 1..8 : data[60 + i] = BigEndian64(n)[i]
    /\ \A i \in 1..n : data[68 + i] = input[i]
    /\ \A i \in (n + 1)..Aligned(n) : data[68 + i] = 0

LEMMA Published ==
    ASSUME NEW host, NEW input \in Seq(Byte), NEW data, NEW n, n = Len(input),
           data = abi_pack_publish(host, input, TRUE)
    PROVE  IsPublished(data, input, n)
  <1> DEFINE pad == Aligned(n) - n
             o  == <<32>>
             z1 == Zeros(31)
             z2 == Zeros(24)
             z3 == Zeros(pad)
             b  == BigEndian64(n)
             c1 == PublishSignature \o z1
             c2 == c1 \o o
             c3 == c2 \o z2
             c4 == c3 \o b
             c5 == c4 \o input
             c6 == c5 \o z3
  <1>0. n \in Nat /\ pad \in Nat /\ n + pad = Aligned(n)
    <2>1. n \in Nat
      BY LenProperties
    <2>2. Aligned(n) \in Nat /\ n <= Aligned(n)
      BY <2>1, AlignedIs
    <2> QED BY <2>1, <2>2
  <1>1. data = c6
    <2>1. HostToBig(host, n) = b
      BY <1>0, HostToBigIs
    <2>2. Word - 1 = 31 /\ Word - 8 = 24 /\ Word = 32
      BY DEF Word
    <2>3. data = PublishSignature \o Zeros(Word - 1) \o <<Word>> \o Zeros(Word - 8)
                 \o HostToBig(host, n) \o input \o Zeros(Aligned(n) - n)
      BY DEF abi_pack_publish
    <2> QED BY <2>1, <2>2, <2>3
  <1>2. PublishSignature \in Seq(Byte) /\ Len(PublishSignature) = 4
    BY DEF PublishSignature, Byte
  <1>3. o \in Seq(Byte) /\ Len(o) = 1 /\ o[1] = 32
    BY DEF Byte
  <1>4. /\ z1 \in Seq(Byte) /\ Len(z1) = 31 /\ \A i \in 1..31 : z1[i] = 0
        /\ z2 \in Seq(Byte) /\ Len(z2) = 24 /\ \A i \in 1..24 : z2[i] = 0
    BY ZerosIs
  <1>5. z3 \in Seq(Byte) /\ Len(z3) = pad /\ \A i \in 1..pad : z3[i] = 0
    BY <1>0, ZerosIs
  <1>6. b \in Seq(Byte) /\ Len(b) = 8
    <2>1. Joins(b, Byte, Zeros(4), 4, Quad(n), 4)
      BY <1>0, BigEndian64Is
    <2> HIDE DEF b
    <2> QED BY <2>1 DEF Joins
  <1>7. /\ 4 \in Nat /\ 31 \in Nat /\ 35 \in Nat /\ 1 \in Nat /\ 36 \in Nat /\ 24 \in Nat
        /\ 60 \in Nat /\ 8 \in Nat /\ 68 \in Nat /\ 68 + n \in Nat
    BY <1>0
  <1> HIDE DEF pad, o, z1, z2, z3, b
  <1>8. c1 \in Seq(Byte) /\ Len(c1) = 35 /\ \A i \in 1..31 : c1[4 + i] = 0
    <2>1. Joins(c1, Byte, PublishSignature, 4, z1, 31)
      BY <1>2, <1>4, <1>7, Joined
    <2> HIDE DEF c1
    <2> QED BY <1>4, <2>1 DEF Joins
  <1> HIDE DEF c1
  <1>9. /\ c2 \in Seq(Byte) /\ Len(c2) = 36 /\ \A i \in 1..35 : c2[i] = c1[i]
        /\ c2[36] = 32
    <2>1. Joins(c2, Byte, c1, 35, o, 1)
      BY <1>3, <1>7, <1>8, Joined
    <2> HIDE DEF c2
    <2>2. 1 \in 1..1 /\ 35 + 1 = 36
      OBVIOUS
    <2> QED BY <1>3, <2>1, <2>2 DEF Joins
  <1> HIDE DEF c2
  <1>10. /\ c3 \in Seq(Byte) /\ Len(c3) = 60 /\ \A i \in 1..36 : c3[i] = c2[i]
         /\ \A i \in 1..24 : c3[36 + i] = 0
    <2>1. Joins(c3, Byte, c2, 36, z2, 24)
      BY <1>4, <1>7, <1>9, Joined
    <2> HIDE DEF c3
    <2> QED BY <1>4, <2>1 DEF Joins
  <1> HIDE DEF c3
  <1>11. /\ c4 \in Seq(Byte) /\ Len(c4) = 68 /\ \A i \in 1..60 : c4[i] = c3[i]
         /\ \A i \in 1..8 : c4[60 + i] = b[i]
    <2>1. Joins(c4, Byte, c3, 60, b, 8)
      BY <1>6, <1>7, <1>10, Joined
    <2> HIDE DEF c4
    <2> QED BY <2>1 DEF Joins
  <1> HIDE DEF c4
  <1>12. /\ c5 \in Seq(Byte) /\ Len(c5) = 68 + n /\ \A i \in 1..68 : c5[i] = c4[i]
         /\ \A i \in 1..n : c5[68 + i] = input[i]
    <2>1. Joins(c5, Byte, c4, 68, input, n)
      <3>1. n \in Nat /\ Len(input) = n
        BY <1>0
      <3>2. c4 \in Seq(Byte) /\ Len(c4) = 68 /\ 68 \in Nat
        BY <1>11
      <3> QED BY <3>1, <3>2, Joined, Zenon
    <2> HIDE DEF c5
    <2> QED BY <2>1 DEF Joins
  <1> HIDE DEF c5
  <1>13. /\ c6 \in Seq(Byte) /\ Len(c6) = 68 + n + pad
         /\ \A i \in 1..(68 + n) : c6[i] = c5[i]
         /\ \A i \in 1..pad : c6[68 + n + i] = 0
    <2>1. Joins(c6, Byte, c5, 68 + n, z3, pad)
      BY <1>0, <1>5, <1>7, <1>12, Joined
    <2> HIDE DEF c6
    <2> QED BY <1>5, <2>1 DEF Joins
  <1> HIDE DEF c6
  <1>14. \A i \in 1..68 : c6[i] = c4[i]
    <2>1. \A i \in 1..68 : i \in 1..(68 + n)
      BY <1>0
    <2> QED BY <1>12, <1>13, <2>1
  <1>15. /\ \A i \in 1..31 : c6[4 + i] = 0
         /\ c6[36] = 32
         /\ \A i \in 1..24 : c6[36 + i] = 0
         /\ \A i \in 1..8 : c6[60 + i] = b[i]
    <2>1. \A i \in 1..60 : c6[i] = c3[i]
      <3>1. \A i \in 1..60 : i \in 1..68
        OBVIOUS
      <3> QED BY <1>11, <1>14, <3>1
    <2>2. \A i \in 1..36 : c6[i] = c2[i]
      <3>1. \A i \in 1..36 : i \in 1..60
        OBVIOUS
      <3> QED BY <1>10, <2>1, <3>1
    <2>3. \A i \in 1..35 : c6[i] = c1[i]
      <3>1. \A i \in 1..35 : i \in 1..36
        OBVIOUS
      <3> QED BY <1>9, <2>2, <3>1
    <2>4. /\ \A i \in 1..31 : 4 + i \in 1..35
          /\ 36 \in 1..36
          /\ \A i \in 1..24 : 36 + i \in 1..60
          /\ \A i \in 1..8 : 60 + i \in 1..68
      OBVIOUS
    <2>5. \A i \in 1..31 : c6[4 + i] = 0
      <3> TAKE i \in 1..31
      <3>1. c6[4 + i] = c1[4 + i]
        BY <2>3, <2>4
      <3> QED BY <1>8, <3>1
    <2>6. c6[36] = 32
      BY <1>9, <2>2, <2>4
    <2>7. \A i \in 1..24 : c6[36 + i] = 0
      <3> TAKE i \in 1..24
      <3>1. c6[36 + i] = c3[36 + i]
        BY <2>1, <2>4
      <3> QED BY <1>10, <3>1
    <2>8. \A i \in 1..8 : c6[60 + i] = b[i]
      BY <1>11, <1>14, <2>4
    <2> QED BY <2>5, <2>6, <2>7, <2>8
  <1>16. \A i \in 1..n : c6[68 + i] = input[i]
    <2>1. \A i \in 1..n : 68 + i \in 1..(68 + n)
      BY <1>0
    <2> QED BY <1>12, <1>13, <2>1
  <1>17. \A i \in (n + 1)..Aligned(n) : c6[68 + i] = 0
    <2> TAKE i \in (n + 1)..Aligned(n)
    <2>1. i - n \in 1..pad /\ 68 + n + (i - n) = 68 + i
      BY <1>0, AlignedIs
    <2> QED BY <1>13, <2>1
  <1>18. Len(c6) = 68 + Aligned(n)
    BY <1>0, <1>13
  <1>19. c6 = data
    BY <1>1
  <1> QED BY <1>0, <1>13, <1>15, <1>16, <1>17, <1>18, <1>19, Zenon DEF b, IsPublished

LEMMA BigEndianBytes ==
    ASSUME NEW n \in Nat
    PROVE  /\ \A i \in 1..4 : BigEndian64(n)[i] = 0
           /\ \A i \in 1..4 : BigEndian64(n)[4 + i] = Quad(n)[i]
  <1>1. Joins(BigEndian64(n), Byte, Zeros(4), 4, Quad(n), 4)
    BY BigEndian64Is
  <1>2. \A i \in 1..4 : Zeros(4)[i] = 0
    BY ZerosIs
  <1> QED BY <1>1, <1>2 DEF Joins

(* What stands behind the signature in published data. *)
IsArgument(body, input, n) ==
    /\ body \in Seq(Byte) /\ n \in Nat /\ Len(body) = 64 + Aligned(n)
    /\ \A i \in 1..31 : body[i] = 0
    /\ body[32] = 32
    /\ \A i \in 1..28 : body[32 + i] = 0
    /\ \A i \in 1..4 : body[60 + i] = Quad(n)[i]
    /\ \A i \in 1..n : body[64 + i] = input[i]
    /\ \A i \in (n + 1)..Aligned(n) : body[64 + i] = 0

LEMMA PublishedBody ==
    ASSUME NEW host, NEW input \in Seq(Byte), NEW data, NEW n, n = Len(input),
           data = abi_pack_publish(host, input, TRUE), NEW body,
           body = SubSeq(data, 5, Len(data))
    PROVE  IsArgument(body, input, n)
  <1> DEFINE size == Len(data)
             a    == Aligned(n)
             m    == 64 + a
  <1>1. /\ data \in Seq(Byte) /\ n \in Nat /\ Len(data) = 68 + Aligned(n)
        /\ \A i \in 1..31 : data[4 + i] = 0
        /\ data[36] = 32
        /\ \A i \in 1..24 : data[36 + i] = 0
        /\ \A i \in 1..8 : data[60 + i] = BigEndian64(n)[i]
        /\ \A i \in 1..n : data[68 + i] = input[i]
        /\ \A i \in (n + 1)..Aligned(n) : data[68 + i] = 0
    <2>1. IsPublished(data, input, n)
      BY Published
    <2> QED BY <2>1 DEF IsPublished
  <1>2. a \in Nat /\ n <= a /\ size = 68 + a
    BY <1>1, AlignedIs
  <1> HIDE DEF a, size
  <1>3. m \in Nat /\ 4 + m <= Len(data) /\ 5 = 4 + 1 /\ Len(data) = 4 + m /\ 4 \in Nat
    <2>1. m \in Nat /\ 4 + m = 68 + a
      BY <1>2
    <2>2. size = 4 + m /\ 4 + m <= size
      BY <1>2, <2>1
    <2>3. 5 = 4 + 1 /\ 4 \in Nat
      OBVIOUS
    <2> QED BY <2>1, <2>2, <2>3, Zenon DEF size
  <1>4. Slices(body, Byte, data, 4, m)
    <2> HIDE DEF m
    <2> QED BY <1>1, <1>3, Sliced
  <1>5. body \in Seq(Byte) /\ Len(body) = m /\ \A i \in 1..m : body[i] = data[4 + i]
    BY <1>4 DEF Slices
  <1>6. /\ \A i \in 1..n : i \in 1..a
        /\ \A i \in (n + 1)..a : i \in 1..a
    BY <1>1, <1>2
  <1>7. /\ \A i \in 1..a : 64 + i \in 1..m /\ 4 + (64 + i) = 68 + i
        /\ \A i \in 1..64 : i \in 1..m
    BY <1>1, <1>2
  <1> HIDE DEF m
  <1>8. /\ \A i \in 1..a : body[64 + i] = data[68 + i]
        /\ \A i \in 1..64 : body[i] = data[4 + i]
    BY <1>5, <1>7, ZenonT(30)
  <1>9. \A i \in 1..31 : body[i] = 0
    <2> TAKE i \in 1..31
    <2>1. i \in 1..64
      OBVIOUS
    <2>2. body[i] = data[4 + i]
      BY <1>8, <2>1
    <2> QED BY <1>1, <2>2
  <1>10. body[32] = 32
    <2>1. 32 \in 1..64 /\ 4 + 32 = 36
      OBVIOUS
    <2>2. body[32] = data[4 + 32]
      BY <1>8, <2>1, Zenon
    <2> QED BY <1>1, <2>1, <2>2, ZenonT(30)
  <1>11. \A i \in 1..28 : body[32 + i] = 0
    <2> TAKE i \in 1..28
    <2>1. body[32 + i] = data[36 + i]
      <3>1. 32 + i \in 1..64 /\ 4 + (32 + i) = 36 + i
        OBVIOUS
      <3> QED BY <1>8, <3>1
    <2>2. CASE i \in 1..24
      <3>1. data[36 + i] = 0
        BY <1>1, <2>2
      <3> QED BY <2>1, <3>1
    <2>3. CASE i \in 25..28
      <3>1. i - 24 \in 1..4 /\ i - 24 \in 1..8 /\ 60 + (i - 24) = 36 + i
        BY <2>3
      <3>2. data[60 + (i - 24)] = BigEndian64(n)[i - 24]
        BY <1>1, <3>1
      <3>3. BigEndian64(n)[i - 24] = 0
        BY <1>1, <3>1, BigEndianBytes
      <3> QED BY <2>1, <3>1, <3>2, <3>3
    <2>4. i \in 1..24 \/ i \in 25..28
      OBVIOUS
    <2> QED BY <2>2, <2>3, <2>4, Zenon
  <1>12. \A i \in 1..4 : body[60 + i] = Quad(n)[i]
    <2> TAKE i \in 1..4
    <2>1. 60 + i \in 1..64 /\ 4 + (60 + i) = 60 + (4 + i) /\ 4 + i \in 1..8
      OBVIOUS
    <2>2. body[60 + i] = data[60 + (4 + i)]
      BY <1>8, <2>1
    <2>3. data[60 + (4 + i)] = BigEndian64(n)[4 + i]
      BY <1>1, <2>1
    <2>4. BigEndian64(n)[4 + i] = Quad(n)[i]
      BY <1>1, BigEndianBytes
    <2> QED BY <2>2, <2>3, <2>4
  <1>13. \A i \in 1..n : body[64 + i] = input[i]
    BY <1>1, <1>6, <1>8
  <1>14. \A i \in (n + 1)..a : body[64 + i] = 0
    BY <1>1, <1>6, <1>8 DEF a
  <1> QED BY <1>1, <1>5, <1>9, <1>10, <1>11, <1>12, <1>13, <1>14 DEF a, m, IsArgument

(* Two words that agree in their zeros and in their last four bytes.       *)
HasWord(body, at, n) ==
    /\ \A i \in 1..28 : body[at + i] = 0
    /\ \A i \in 1..4 : body[at + 28 + i] = Quad(n)[i]

IsWord(c, n) == c = AbiWord(n)

LEMMA WordAt ==
    ASSUME NEW body \in Seq(Byte), NEW at \in Nat, at + 32 <= Len(body), NEW n \in Nat,
           NEW lo, lo = at + 1, NEW hi, hi = at + 32, HasWord(body, at, n)
    PROVE  IsWord(SubSeq(body, lo, hi), n)
  <1> DEFINE c == SubSeq(body, lo, hi)
             d == AbiWord(n)
  <1>1. Slices(c, Byte, body, at, 32)
    BY Sliced
  <1>2. d \in Seq(Byte) /\ Len(d) = 32
    BY AbiWordIs
  <1>3. /\ \A i \in 1..28 : d[i] = 0
        /\ \A i \in 1..4 : d[28 + i] = Quad(n)[i]
    BY AbiWordIs
  <1> HIDE DEF c, d
  <1>4. c \in Seq(Byte) /\ Len(c) = 32 /\ \A i \in 1..32 : c[i] = body[at + i]
    BY <1>1 DEF Slices
  <1>5. \A i \in 1..32 : c[i] = d[i]
    <2> TAKE i \in 1..32
    <2>1. CASE i \in 1..28
      BY <1>3, <1>4, <2>1, ZenonT(30) DEF HasWord
    <2>2. CASE i \in 29..32
      <3>1. i - 28 \in 1..4 /\ 28 + (i - 28) = i /\ at + 28 + (i - 28) = at + i
        BY <2>2
      <3>2. body[at + 28 + (i - 28)] = Quad(n)[i - 28]
        BY <3>1 DEF HasWord
      <3>3. d[28 + (i - 28)] = Quad(n)[i - 28]
        BY <1>3, <3>1
      <3> QED BY <1>4, <3>1, <3>2, <3>3
    <2>3. i \in 1..28 \/ i \in 29..32
      OBVIOUS
    <2> QED BY <2>1, <2>2, <2>3, Zenon
  <1>6. c = d
    BY <1>2, <1>4, <1>5, SameSequence
  <1> QED BY <1>6 DEF c, d, IsWord

LEMMA QuadWord ==
    Quad(32)[1] = 0 /\ Quad(32)[2] = 0 /\ Quad(32)[3] = 0 /\ Quad(32)[4] = 32
  <1>1. 32 \div 256 = 0 /\ 32 % 256 = 32 /\ 0 \div 256 = 0 /\ 0 % 256 = 0
    OBVIOUS
  <1>2. 32 \div (256 * 256) = 0
    OBVIOUS
  <1> QED BY <1>1, <1>2 DEF Quad

(* What a state of the system holds of published data. *)
InputPublished ==
    op = "publish" => \E host \in Endian, input \in Inputs, memory \in BOOLEAN :
        args = <<host, input, memory>> /\ out = abi_pack_publish(host, input, memory)

(* A contract finds in published data the input of any length, padded to   *)
(* whole words with zeros, on either kind of machine (abi_pack.c:13-72).   *)
THEOREM ConversionsPublishReadable == Spec => []PublishReadable
  <1>1. Init => InputPublished
    BY DEF Init, InputPublished
  <1>2. InputPublished /\ [Next]_vars => InputPublished'
    BY DEF InputPublished, Next, vars, Call, CallRau2Iotx, CallU128, CallCompare, CallHex2Str,
           CallStr2Hex, CallReadContract, CallPublish, CallGetOrder, CallGetReply, Return
  <1>3. InputPublished => PublishReadable
    <2> DEFINE body == SubSeq(out, 5, Len(out))
               n    == Len(args[2])
    <2> SUFFICES ASSUME InputPublished, op = "publish", out # NULL
                 PROVE  /\ Len(body) % Word = 0 /\ Len(body) < n + 3 * Word
                        /\ SubSeq(body, 1, Word) = AbiWord(Word)
                        /\ SubSeq(body, Word + 1, 2 * Word) = AbiWord(n)
                        /\ n < 256 * 256 => StringAt("big", body, Word, TRUE).value = args[2]
                        /\ \A i \in (2 * Word + n + 1)..Len(body) : body[i] = 0
      BY DEF PublishReadable
    <2>1. PICK host \in Endian, input \in Inputs, memory \in BOOLEAN :
              args = <<host, input, memory>> /\ out = abi_pack_publish(host, input, memory)
      BY DEF InputPublished
    <2>2. args[2] = input /\ n = Len(input) /\ input \in Seq(Byte)
      BY <2>1, InputsAssumption DEF Byte
    <2>3. memory = TRUE /\ out = abi_pack_publish(host, input, TRUE)
      BY <2>1 DEF abi_pack_publish
    <2> DEFINE a    == Aligned(n)
               size == Len(body)
    <2>13. IsArgument(body, input, n)
      BY <2>2, <2>3, PublishedBody
    <2>4. body \in Seq(Byte) /\ n \in Nat /\ size = 64 + a
      BY <2>13 DEF IsArgument
    <2>5. /\ \A i \in 1..31 : body[i] = 0
          /\ body[32] = 32
          /\ \A i \in 1..28 : body[32 + i] = 0
          /\ \A i \in 1..4 : body[60 + i] = Quad(n)[i]
          /\ \A i \in 1..n : body[64 + i] = input[i]
          /\ \A i \in (n + 1)..a : body[64 + i] = 0
      BY <2>13 DEF IsArgument
    <2>6. a \in Nat /\ n <= a /\ a < n + 32 /\ a % 32 = 0
      BY <2>4, AlignedIs
    <2>7. Word = 32 /\ 2 * Word = 64 /\ 3 * Word = 96 /\ Word + 1 = 33
      BY DEF Word
    <2> HIDE DEF body, n, a, size
    <2>8. size % 32 = 0 /\ size < n + 96
      BY <2>4, <2>6
    <2>9. SubSeq(body, 1, 32) = AbiWord(32)
      <3>1. /\ 0 + 32 <= size /\ 1 = 0 + 1 /\ 32 = 0 + 32 /\ 0 \in Nat /\ 32 \in Nat
            /\ \A i \in 1..28 : i \in 1..31 /\ 0 + i = i
        BY <2>4, <2>6
      <3>2. \A i \in 1..28 : body[0 + i] = 0
        BY <2>5, <3>1
      <3>3. \A i \in 1..4 : body[0 + 28 + i] = Quad(32)[i]
        <4>1. body[29] = 0 /\ body[30] = 0 /\ body[31] = 0 /\ body[32] = 32
          BY <2>5
        <4> QED BY <4>1, QuadWord
      <3>4. HasWord(body, 0, 32)
        BY <3>2, <3>3, Zenon DEF HasWord
      <3>5. IsWord(SubSeq(body, 1, 32), 32)
        BY <2>4, <3>1, <3>4, WordAt DEF size
      <3> QED BY <3>5 DEF IsWord
    <2>10. SubSeq(body, 33, 64) = AbiWord(n)
      <3>1. 32 + 32 <= size /\ 33 = 32 + 1 /\ 64 = 32 + 32 /\ 32 \in Nat
        BY <2>4, <2>6
      <3>2. \A i \in 1..4 : body[32 + 28 + i] = Quad(n)[i]
        BY <2>5
      <3>3. HasWord(body, 32, n)
        BY <2>5, <3>2, Zenon DEF HasWord
      <3>4. body \in Seq(Byte) /\ n \in Nat /\ 32 + 32 <= Len(body)
        BY <2>4, <3>1 DEF size
      <3>5. IsWord(SubSeq(body, 33, 64), n)
        BY <3>1, <3>3, <3>4, WordAt
      <3> QED BY <3>5 DEF IsWord
    <2>11. n < 256 * 256 => StringAt("big", body, 32, TRUE).value = input
      <3> SUFFICES ASSUME n < 256 * 256
                   PROVE  StringAt("big", body, 32, TRUE).value = input
        OBVIOUS
      <3>2. body[32 + 31] * 256 + body[32 + 32] = Len(input)
        <4>1. body[60 + 3] = Quad(n)[3] /\ body[60 + 4] = Quad(n)[4]
          BY <2>5
        <4>2. Quad(n)[3] * 256 + Quad(n)[4] = n
          BY <2>4, QuadEnds
        <4>3. body[63] = Quad(n)[3] /\ body[64] = Quad(n)[4]
          BY <4>1
        <4> QED BY <2>2, <4>2, <4>3
      <3>3. \A i \in 1..Len(input) : body[32 + 32 + i] = input[i]
        BY <2>2, <2>5
      <3>4. 32 + 32 + Len(input) <= Len(body)
        BY <2>2, <2>4, <2>6 DEF size
      <3>5. 32 \in Nat /\ TRUE \in BOOLEAN
        OBVIOUS
      <3>6. HasString(body, 32, input)
        BY <3>2, <3>3, Zenon DEF HasString
      <3>7. ReadAs(StringAt("big", body, 32, TRUE).value, body, 32 + 32, input, TRUE)
        BY <2>2, <2>4, <3>5, <3>6, StringRead
      <3> QED BY <3>4, <3>7 DEF ReadAs
    <2>12. \A i \in (64 + n + 1)..size : body[i] = 0
      <3> TAKE i \in (64 + n + 1)..size
      <3>1. i - 64 \in (n + 1)..a /\ 64 + (i - 64) = i
        BY <2>4, <2>6
      <3>2. body[64 + (i - 64)] = 0
        BY <2>5, <3>1
      <3> QED BY <3>1, <3>2
    <2> QED BY <2>2, <2>7, <2>8, <2>9, <2>10, <2>11, <2>12 DEF size
  <1> QED BY <1>1, <1>2, <1>3, PTL DEF Spec

-----------------------------------------------------------------------------
(* Orders. s, of length m, stands in c behind its first p elements.        *)
Holds(c, p, s, m) == \A i \in 1..m : c[p + i] = s[i]

LEMMA JoinHolds ==
    ASSUME NEW c, NEW S, NEW s, NEW m \in Nat, NEW t, NEW n \in Nat, Joins(c, S, s, m, t, n)
    PROVE  /\ Holds(c, 0, s, m) /\ Holds(c, m, t, n)
           /\ \A u : \A p, k \in Nat : Holds(s, p, u, k) /\ p + k <= m => Holds(c, p, u, k)
  BY DEF Joins, Holds

LEMMA HoldsInside ==
    ASSUME NEW c, NEW s, NEW p \in Nat, NEW m \in Nat, NEW u, NEW q \in Nat, NEW k \in Nat,
           Holds(c, p, s, m), Holds(s, q, u, k), q + k <= m, NEW at, at = p + q
    PROVE  Holds(c, at, u, k)
  BY DEF Holds

(* A string as the contract encodes it.                                    *)
LEMMA AbiStringIs ==
    ASSUME NEW s \in Seq(Byte), NEW n, n = Len(s)
    PROVE  /\ AbiString(s) \in Seq(Byte) /\ n \in Nat
           /\ Len(AbiString(s)) = 32 + Aligned(n)
           /\ Holds(AbiString(s), 0, AbiWord(n), 32)
           /\ Holds(AbiString(s), 32, s, n)
  <1> DEFINE a   == Aligned(n)
             pad == a - n
             w   == AbiWord(n)
             z   == Zeros(pad)
             c   == w \o s
             d   == c \o z
  <1>0. n \in Nat /\ Len(s) = n
    BY LenProperties
  <1>1. a \in Nat /\ n <= a
    BY <1>0, AlignedIs
  <1>2. pad \in Nat /\ n + pad = a /\ 32 + n \in Nat /\ 32 \in Nat
    <2> HIDE DEF a
    <2> QED BY <1>0, <1>1
  <1>3. w \in Seq(Byte) /\ Len(w) = 32
    BY <1>0, AbiWordIs
  <1>4. z \in Seq(Byte) /\ Len(z) = pad
    <2> HIDE DEF pad
    <2> QED BY <1>2, ZerosIs
  <1>5. AbiString(s) = d
    BY <1>0 DEF AbiString
  <1> HIDE DEF a, pad, w, z
  <1>6. Joins(c, Byte, w, 32, s, n)
    BY <1>0, <1>2, <1>3, Joined
  <1> HIDE DEF c
  <1>7. c \in Seq(Byte) /\ Len(c) = 32 + n
    BY <1>6 DEF Joins
  <1>8. Joins(d, Byte, c, 32 + n, z, pad)
    BY <1>2, <1>4, <1>7, Joined
  <1> HIDE DEF d
  <1>9. d \in Seq(Byte) /\ Len(d) = 32 + a
    BY <1>0, <1>2, <1>8 DEF Joins
  <1>10. Holds(c, 0, w, 32) /\ Holds(c, 32, s, n)
    BY <1>0, <1>2, <1>6, JoinHolds
  <1>11. Holds(d, 0, w, 32) /\ Holds(d, 32, s, n)
    <2>1. \A u : \A p, k \in Nat : Holds(c, p, u, k) /\ p + k <= 32 + n => Holds(d, p, u, k)
      BY <1>2, <1>8, JoinHolds
    <2>2. 0 \in Nat /\ 0 + 32 <= 32 + n /\ 32 + n <= 32 + n
      BY <1>0
    <2> QED BY <1>0, <1>2, <1>10, <2>1, <2>2
  <1> QED BY <1>0, <1>5, <1>9, <1>11 DEF a, w

(* Where the parts of an encoded order stand. *)
IsOrder(enc, o) ==
    LET a == Aligned(Len(o.endpoint))
    IN  /\ enc \in Seq(Byte) /\ Len(enc) = 192 + a + Aligned(Len(o.token))
        /\ Holds(enc, 0, AbiWord(o.start), 32)
        /\ Holds(enc, 32, AbiWord(o.duration), 32)
        /\ Holds(enc, 64, AbiWord(128), 32)
        /\ Holds(enc, 96, AbiWord(160 + a), 32)
        /\ Holds(enc, 128, AbiString(o.endpoint), 32 + a)
        /\ Holds(enc, 160 + a, AbiString(o.token), 32 + Aligned(Len(o.token)))

LEMMA OrderEncoded ==
    ASSUME NEW o, o.start \in Nat, o.duration \in Nat,
           o.endpoint \in Seq(Byte), o.token \in Seq(Byte)
    PROVE  IsOrder(EncodeOrder(o), o)
  <1> DEFINE a  == Aligned(Len(o.endpoint))
             b  == Aligned(Len(o.token))
             la == 32 + a
             lb == 32 + b
             m  == 160 + a
             w1 == AbiWord(o.start)
             w2 == AbiWord(o.duration)
             w3 == AbiWord(128)
             w4 == AbiWord(m)
             e  == AbiString(o.endpoint)
             t  == AbiString(o.token)
             c1 == w1 \o w2
             c2 == c1 \o w3
             c3 == c2 \o w4
             c4 == c3 \o e
             c5 == c4 \o t
  <1>1. /\ a \in Nat /\ b \in Nat
        /\ e \in Seq(Byte) /\ Len(e) = la /\ t \in Seq(Byte) /\ Len(t) = lb
    BY AbiStringIs, AlignedIs
  <1>2. EncodeOrder(o) = c5
    <2>1. 4 * Word = 128 /\ 5 * Word + a = m
      BY DEF Word
    <2> HIDE DEF a
    <2> QED BY <2>1 DEF EncodeOrder, a
  <1> HIDE DEF a, b
  <1>3. /\ m \in Nat /\ la \in Nat /\ lb \in Nat /\ 128 + la = m /\ m + lb = 192 + a + b
        /\ 128 \in Nat /\ 96 \in Nat /\ 64 \in Nat /\ 32 \in Nat /\ 0 \in Nat
    BY <1>1
  <1> HIDE DEF m, la, lb
  <1>4. /\ w1 \in Seq(Byte) /\ Len(w1) = 32 /\ w2 \in Seq(Byte) /\ Len(w2) = 32
        /\ w3 \in Seq(Byte) /\ Len(w3) = 32 /\ w4 \in Seq(Byte) /\ Len(w4) = 32
    <2>1. \A n \in Nat : AbiWord(n) \in Seq(Byte) /\ Len(AbiWord(n)) = 32
      BY AbiWordIs
    <2> QED BY <1>3, <2>1
  <1> HIDE DEF w1, w2, w3, w4, e, t
  <1>5. /\ c1 \in Seq(Byte) /\ Len(c1) = 64
        /\ Holds(c1, 0, w1, 32) /\ Holds(c1, 32, w2, 32)
    <2>1. Joins(c1, Byte, w1, 32, w2, 32)
      BY <1>3, <1>4, Joined
    <2> HIDE DEF c1
    <2>2. Holds(c1, 0, w1, 32) /\ Holds(c1, 32, w2, 32)
      BY <1>3, <2>1, JoinHolds
    <2> QED BY <2>1, <2>2 DEF Joins
  <1> HIDE DEF c1
  <1>6. /\ c2 \in Seq(Byte) /\ Len(c2) = 96
        /\ Holds(c2, 0, w1, 32) /\ Holds(c2, 32, w2, 32) /\ Holds(c2, 64, w3, 32)
    <2>1. Joins(c2, Byte, c1, 64, w3, 32)
      BY <1>3, <1>4, <1>5, Joined, ZenonT(30)
    <2> HIDE DEF c2
    <2>2. /\ Holds(c2, 64, w3, 32)
          /\ \A u : \A p, k \in Nat : Holds(c1, p, u, k) /\ p + k <= 64 => Holds(c2, p, u, k)
      BY <1>3, <2>1, JoinHolds
    <2> QED BY <1>3, <1>5, <2>1, <2>2 DEF Joins
  <1> HIDE DEF c2
  <1>7. /\ c3 \in Seq(Byte) /\ Len(c3) = 128
        /\ Holds(c3, 0, w1, 32) /\ Holds(c3, 32, w2, 32) /\ Holds(c3, 64, w3, 32)
        /\ Holds(c3, 96, w4, 32)
    <2> DEFINE l == 96
    <2>0. l \in Nat /\ c2 \in Seq(Byte) /\ Len(c2) = l
      BY <1>6
    <2> HIDE DEF l
    <2>3. Joins(c3, Byte, c2, l, w4, 32)
      <3>1. w4 \in Seq(Byte) /\ Len(w4) = 32 /\ 32 \in Nat
        BY <1>4
      <3> QED BY <2>0, <3>1, Joined
    <2>1. Joins(c3, Byte, c2, 96, w4, 32)
      BY <2>3, Zenon DEF l
    <2> HIDE DEF c3
    <2>2. /\ Holds(c3, 96, w4, 32)
          /\ \A u : \A p, k \in Nat : Holds(c2, p, u, k) /\ p + k <= 96 => Holds(c3, p, u, k)
      BY <1>3, <2>1, JoinHolds
    <2> QED BY <1>3, <1>6, <2>1, <2>2 DEF Joins
  <1> HIDE DEF c3
  <1>8. /\ c4 \in Seq(Byte) /\ Len(c4) = m
        /\ Holds(c4, 0, w1, 32) /\ Holds(c4, 32, w2, 32) /\ Holds(c4, 64, w3, 32)
        /\ Holds(c4, 96, w4, 32) /\ Holds(c4, 128, e, la)
    <2>1. Joins(c4, Byte, c3, 128, e, la)
      BY <1>1, <1>3, <1>7, Joined
    <2> HIDE DEF c4
    <2>2. /\ Holds(c4, 128, e, la)
          /\ \A u : \A p, k \in Nat : Holds(c3, p, u, k) /\ p + k <= 128 => Holds(c4, p, u, k)
      BY <1>3, <2>1, JoinHolds
    <2> QED BY <1>3, <1>7, <2>1, <2>2 DEF Joins
  <1> HIDE DEF c4
  <1>9. /\ c5 \in Seq(Byte) /\ Len(c5) = m + lb
        /\ Holds(c5, 0, w1, 32) /\ Holds(c5, 32, w2, 32) /\ Holds(c5, 64, w3, 32)
        /\ Holds(c5, 96, w4, 32) /\ Holds(c5, 128, e, la) /\ Holds(c5, m, t, lb)
    <2>1. Joins(c5, Byte, c4, m, t, lb)
      BY <1>1, <1>3, <1>8, Joined
    <2> HIDE DEF c5
    <2>2. /\ Holds(c5, m, t, lb)
          /\ \A u : \A p, k \in Nat : Holds(c4, p, u, k) /\ p + k <= m => Holds(c5, p, u, k)
      BY <1>3, <2>1, JoinHolds
    <2>3. 128 + la <= m /\ 96 + 32 <= m /\ 64 + 32 <= m /\ 32 + 32 <= m /\ 0 + 32 <= m
      BY <1>3
    <2> QED BY <1>3, <1>8, <2>1, <2>2, <2>3 DEF Joins
  <1> HIDE DEF c5
  <1> QED BY <1>2, <1>3, <1>9 DEF IsOrder, a, b, m, la, lb, w1, w2, w3, w4, e, t

(* The start of an encoded order as the contract's reader gets it.         *)
LEMMA WordEnds ==
    ASSUME NEW n \in Nat
    PROVE  /\ \A i \in 1..8 : AbiWord(n)[24 + i] = BigEndian64(n)[i]
           /\ SubSeq(BigEndian64(n), 5, 8) = Quad(n)
           /\ n < 256 * 256 => AbiWord(n)[31] * 256 + AbiWord(n)[32] = n
  <1> DEFINE b == BigEndian64(n)
             q == SubSeq(b, 5, 8)
             w == AbiWord(n)
             d == Quad(n)
  <1>1. /\ \A i \in 1..28 : w[i] = 0
        /\ \A i \in 1..4 : w[28 + i] = d[i]
    BY AbiWordIs
  <1>2. /\ \A i \in 1..4 : b[i] = 0
        /\ \A i \in 1..4 : b[4 + i] = d[i]
    BY BigEndianBytes
  <1>3. b \in Seq(Byte) /\ Len(b) = 8
    <2>1. Joins(b, Byte, Zeros(4), 4, Quad(n), 4)
      BY BigEndian64Is
    <2> HIDE DEF b
    <2> QED BY <2>1 DEF Joins
  <1>4. d \in Seq(Byte) /\ Len(d) = 4
    BY QuadIs
  <1>5. n < 256 * 256 => d[3] * 256 + d[4] = n
    BY QuadEnds
  <1> HIDE DEF b, w, d
  <1>6. \A i \in 1..8 : w[24 + i] = b[i]
    <2> TAKE i \in 1..8
    <2>1. CASE i \in 1..4
      <3>1. 24 + i \in 1..28
        BY <2>1
      <3> QED BY <1>1, <1>2, <2>1, <3>1
    <2>2. CASE i \in 5..8
      <3>1. i - 4 \in 1..4 /\ 28 + (i - 4) = 24 + i /\ 4 + (i - 4) = i
        BY <2>2
      <3>2. w[28 + (i - 4)] = d[i - 4] /\ b[4 + (i - 4)] = d[i - 4]
        BY <1>1, <1>2, <3>1
      <3> QED BY <3>1, <3>2
    <2>3. i \in 1..4 \/ i \in 5..8
      OBVIOUS
    <2> QED BY <2>1, <2>2, <2>3, Zenon
  <1>7. q = d
    <2>1. 4 \in Nat /\ 4 + 4 <= Len(b) /\ 5 = 4 + 1 /\ 8 = 4 + 4
      BY <1>3
    <2>2. Slices(q, Byte, b, 4, 4)
      BY <1>3, <2>1, Sliced
    <2> HIDE DEF q
    <2>3. q \in Seq(Byte) /\ Len(q) = 4 /\ \A i \in 1..4 : q[i] = d[i]
      BY <1>2, <2>2 DEF Slices
    <2> QED BY <1>4, <2>3, SameSequence
  <1>8. n < 256 * 256 => w[31] * 256 + w[32] = n
    <2>1. w[28 + 3] = d[3] /\ w[28 + 4] = d[4]
      BY <1>1
    <2>2. w[31] = d[3] /\ w[32] = d[4]
      BY <2>1
    <2> QED BY <1>5, <2>2
  <1> QED BY <1>6, <1>7, <1>8, Zenon DEF b, w, d, q

(* A word that stands in the input is found by its last two bytes.         *)
LEMMA NumberRead ==
    ASSUME NEW host, NEW input \in Seq(Byte), NEW at \in Nat, at + 32 <= Len(input),
           NEW n \in Nat, n < 256 * 256, Holds(input, at, AbiWord(n), 32),
           NEW lo, lo = at + 30, NEW hi, hi = at + 31
    PROVE  U16At(host, input, lo, hi) = n
  <1> DEFINE w == AbiWord(n)
             u == U16At(host, input, lo, hi)
  <1>1. w[31] * 256 + w[32] = n
    BY WordEnds
  <1> HIDE DEF w
  <1>2. input[at + 31] = w[31] /\ input[at + 32] = w[32]
    <2>1. \A i \in 1..32 : input[at + i] = w[i]
      BY DEF Holds, w
    <2> QED BY <2>1
  <1>3. u = input[lo + 1] * 256 + input[lo + 2]
    <2>1. lo \in Nat /\ hi = lo + 1 /\ lo + 2 <= Len(input)
      BY LenProperties
    <2>2. \A l, h : l \in Nat /\ h = l + 1 /\ l + 2 <= Len(input) =>
              U16At(host, input, l, h) = input[l + 1] * 256 + input[l + 2]
      BY U16Is
    <2> QED BY <2>1, <2>2
  <1>4. lo + 1 = at + 31 /\ lo + 2 = at + 32
    OBVIOUS
  <1> HIDE DEF u
  <1>5. u = n
    BY <1>1, <1>2, <1>3, <1>4
  <1> QED BY <1>5 DEF u

(* input is what has arrived of enc, its first size bytes.                 *)
Arrived(input, enc, size) ==
    /\ input \in Seq(Byte) /\ Len(input) = size /\ size \in Nat
    /\ \A i \in 1..size : input[i] = enc[i]

LEMMA ArrivedIs ==
    ASSUME NEW enc \in Seq(Byte), NEW size \in 0..Len(enc)
    PROVE  Arrived(SubSeq(enc, 1, size), enc, size)
  <1> DEFINE c == SubSeq(enc, 1, size)
  <1>1. size \in Nat /\ 0 + size <= Len(enc) /\ 1 = 0 + 1 /\ size = 0 + size /\ 0 \in Nat
    BY LenProperties
  <1>2. Slices(c, Byte, enc, 0, size)
    BY <1>1, Sliced
  <1> HIDE DEF c
  <1>3. \A i \in 1..size : c[i] = enc[0 + i] /\ 0 + i = i
    BY <1>1, <1>2 DEF Slices
  <1>4. Arrived(c, enc, size)
    BY <1>1, <1>2, <1>3 DEF Arrived, Slices
  <1> QED BY <1>4 DEF c

LEMMA ArrivedHolds ==
    ASSUME NEW input, NEW enc, NEW size, Arrived(input, enc, size), NEW p \in Nat,
           NEW m \in Nat, p + m <= size, NEW s, Holds(enc, p, s, m)
    PROVE  Holds(input, p, s, m)
  <1> SUFFICES ASSUME NEW i \in 1..m
               PROVE  input[p + i] = s[i]
    BY DEF Holds
  <1>1. p + i \in 1..size
    BY DEF Arrived
  <1>2. input[p + i] = enc[p + i]
    BY <1>1 DEF Arrived
  <1> QED BY <1>2 DEF Holds

(* The last eight or four bytes of a word, on either kind of machine.      *)
LEMMA StartRead ==
    ASSUME NEW host, NEW input, NEW enc, NEW size, Arrived(input, enc, size),
           NEW n \in Nat, Holds(enc, 0, AbiWord(n), 32)
    PROVE  abi_get_order_start(host, input).value
             = IF size >= 32 THEN BigEndian64(n) ELSE NULL
  <1> DEFINE b == Bytes(input, 24, 31)
             w == AbiWord(n)
             d == BigEndian64(n)
  <1>0. input \in Seq(Byte) /\ Len(input) = size /\ size \in Nat
    BY DEF Arrived
  <1>1. CASE size < 32
    BY <1>0, <1>1 DEF abi_get_order_start, Failed
  <1>2. CASE ~ (size < 32)
    <2>1. abi_get_order_start(host, input).value = Loaded(host, b)
      BY <1>0, <1>2 DEF abi_get_order_start
    <2>2. Reads(b, input, 24, 8)
      <3>1. 24 \in Nat /\ 8 \in Nat /\ 31 = 24 + 8 - 1
        OBVIOUS
      <3> QED BY <1>0, <3>1, BytesIs
    <2>3. Holds(input, 0, w, 32)
      <3>1. 0 \in Nat /\ 32 \in Nat /\ 0 + 32 <= size
        BY <1>0, <1>2
      <3> QED BY <3>1, ArrivedHolds
    <2>4. \A i \in 1..8 : w[24 + i] = d[i]
      BY WordEnds
    <2>5. d \in Seq(Byte) /\ Len(d) = 8
      <3>1. Joins(d, Byte, Zeros(4), 4, Quad(n), 4)
        BY BigEndian64Is
      <3> HIDE DEF d
      <3> QED BY <3>1 DEF Joins
    <2> HIDE DEF b, w, d
    <2>6. b \in Seq(Byte) /\ Len(b) = 8
      BY <2>2 DEF Reads
    <2>7. \A i \in 1..8 : b[i] = d[i]
      <3> TAKE i \in 1..8
      <3>1. 24 + i <= Len(input) /\ 24 + i \in 1..32 /\ 0 + (24 + i) = 24 + i
        BY <1>0, <1>2
      <3>2. b[i] = input[24 + i]
        BY <2>2, <3>1 DEF Reads
      <3>3. input[0 + (24 + i)] = w[24 + i]
        BY <2>3, <3>1 DEF Holds
      <3> QED BY <2>4, <3>1, <3>2, <3>3
    <2>8. b = d
      BY <2>5, <2>6, <2>7, SameSequence
    <2>9. Loaded(host, b) = b
      BY <2>6, LoadedIs
    <2>10. size >= 32
      BY <1>0, <1>2
    <2> QED BY <2>1, <2>8, <2>9, <2>10 DEF d
  <1> QED BY <1>0, <1>1, <1>2

LEMMA DurationRead ==
    ASSUME NEW host, NEW input, NEW enc, NEW size, Arrived(input, enc, size),
           NEW n \in Nat, Holds(enc, 32, AbiWord(n), 32)
    PROVE  abi_get_order_duration(host, input).value
             = IF size >= 64 THEN SubSeq(BigEndian64(n), 5, 8) ELSE NULL
  <1> DEFINE b == Bytes(input, 60, 63)
             w == AbiWord(n)
             d == Quad(n)
  <1>0. input \in Seq(Byte) /\ Len(input) = size /\ size \in Nat
    BY DEF Arrived
  <1>1. CASE size < 64
    BY <1>0, <1>1 DEF abi_get_order_duration, Failed
  <1>2. CASE ~ (size < 64)
    <2>1. abi_get_order_duration(host, input).value = Loaded(host, b)
      BY <1>0, <1>2 DEF abi_get_order_duration
    <2>2. Reads(b, input, 60, 4)
      <3>1. 60 \in Nat /\ 4 \in Nat /\ 63 = 60 + 4 - 1
        OBVIOUS
      <3> QED BY <1>0, <3>1, BytesIs
    <2>3. Holds(input, 32, w, 32)
      <3>1. 32 \in Nat /\ 32 + 32 <= size
        BY <1>0, <1>2
      <3> QED BY <3>1, ArrivedHolds
    <2>4. \A i \in 1..4 : w[28 + i] = d[i]
      BY AbiWordIs
    <2>5. d \in Seq(Byte) /\ Len(d) = 4 /\ SubSeq(BigEndian64(n), 5, 8) = d
      BY QuadIs, WordEnds
    <2> HIDE DEF b, w, d
    <2>6. b \in Seq(Byte) /\ Len(b) = 4
      BY <2>2 DEF Reads
    <2>7. \A i \in 1..4 : b[i] = d[i]
      <3> TAKE i \in 1..4
      <3>1. 60 + i <= Len(input) /\ 28 + i \in 1..32 /\ 32 + (28 + i) = 60 + i
        BY <1>0, <1>2
      <3>2. b[i] = input[60 + i]
        BY <2>2, <3>1 DEF Reads
      <3>3. input[32 + (28 + i)] = w[28 + i]
        BY <2>3, <3>1 DEF Holds
      <3> QED BY <2>4, <3>1, <3>2, <3>3
    <2>8. b = d
      BY <2>5, <2>6, <2>7, SameSequence
    <2>9. Loaded(host, b) = b
      BY <2>6, LoadedIs
    <2>10. size >= 64
      BY <1>0, <1>2
    <2> QED BY <2>1, <2>5, <2>8, <2>9, <2>10
  <1> QED BY <1>0, <1>1, <1>2

LEMMA StringArrived ==
    ASSUME NEW input, NEW enc, NEW size, Arrived(input, enc, size), NEW at \in Nat,
           NEW v \in Seq(Byte), Len(v) < 256 * 256,
           Holds(enc, at, AbiString(v), 32 + Aligned(Len(v)))
    PROVE  HasString(input, at, v)
  <1> DEFINE n  == Len(v)
             w  == AbiWord(n)
             s  == AbiString(v)
             a  == Aligned(n)
             la == 32 + a
  <1>0. input \in Seq(Byte) /\ Len(input) = size /\ size \in Nat /\ n \in Nat
    BY LenProperties DEF Arrived
  <1>1. /\ Holds(s, 0, w, 32) /\ Holds(s, 32, v, n)
    BY AbiStringIs
  <1>2. w[31] * 256 + w[32] = n
    BY <1>0, WordEnds
  <1>3. a \in Nat /\ n <= a /\ la \in Nat /\ 32 \in Nat /\ 0 \in Nat
        /\ 0 + 32 <= la /\ 32 + n <= la /\ at = at + 0 /\ at + 32 \in Nat
    <2>1. a \in Nat /\ n <= a
      BY <1>0, AlignedIs
    <2> HIDE DEF a, n
    <2> QED BY <1>0, <2>1
  <1>4. Holds(enc, at, s, la)
    OBVIOUS
  <1> HIDE DEF w, s, a, la, n
  <1>5. Holds(enc, at, w, 32)
    <2> SUFFICES ASSUME NEW i \in 1..32
                 PROVE  enc[at + i] = w[i]
      BY DEF Holds
    <2>1. i \in 1..la /\ 0 + i = i
      BY <1>3
    <2>2. enc[at + i] = s[i]
      BY <1>4, <2>1 DEF Holds
    <2>3. s[0 + i] = w[i]
      BY <1>1 DEF Holds
    <2> QED BY <2>1, <2>2, <2>3
  <1>6. Holds(enc, at + 32, v, n)
    BY <1>0, <1>1, <1>3, <1>4, HoldsInside
  <1>7. at + 32 <= size => input[at + 31] * 256 + input[at + 32] = n
    <2> SUFFICES ASSUME at + 32 <= size
                 PROVE  input[at + 31] * 256 + input[at + 32] = n
      OBVIOUS
    <2>1. Holds(input, at, w, 32)
      BY <1>3, <1>5, ArrivedHolds
    <2>2. input[at + 31] = w[31] /\ input[at + 32] = w[32]
      BY <2>1 DEF Holds
    <2> QED BY <1>2, <2>2
  <1>8. (at + 32) + n <= size => \A i \in 1..n : input[(at + 32) + i] = v[i]
    <2> SUFFICES ASSUME (at + 32) + n <= size
                 PROVE  \A i \in 1..n : input[(at + 32) + i] = v[i]
      OBVIOUS
    <2>1. Holds(input, at + 32, v, n)
      BY <1>0, <1>3, <1>6, ArrivedHolds
    <2> QED BY <2>1 DEF Holds
  <1>9. /\ at + 32 <= Len(input) => input[at + 31] * 256 + input[at + 32] = n
        /\ at + 32 + n <= Len(input) => \A i \in 1..n : input[at + 32 + i] = v[i]
    BY <1>0, <1>7, <1>8
  <1> QED BY <1>9 DEF HasString, n

(* A part at an offset that itself is read from the word at place.         *)
LEMMA PartRead ==
    ASSUME NEW host, NEW input, NEW enc, NEW size, Arrived(input, enc, size),
           NEW place \in Nat, place + 32 <= size, NEW lo, lo = place + 30, NEW hi, hi = place + 31,
           NEW at \in Nat, at < 256 * 256, Holds(enc, place, AbiWord(at), 32),
           NEW v \in Seq(Byte), Len(v) < 256 * 256,
           Holds(enc, at, AbiString(v), 32 + Aligned(Len(v))), NEW memory \in BOOLEAN
    PROVE  ReadAs(StringAt(host, input, U16At(host, input, lo, hi), memory).value,
                  input, at + 32, v, memory)
  <1>0. input \in Seq(Byte) /\ Len(input) = size /\ size \in Nat
    BY DEF Arrived
  <1>1. HasString(input, at, v)
    BY StringArrived
  <1>2. Holds(input, place, AbiWord(at), 32)
    <2>1. 32 \in Nat
      OBVIOUS
    <2> QED BY <2>1, ArrivedHolds
  <1>3. U16At(host, input, lo, hi) = at
    BY <1>0, <1>2, NumberRead
  <1>4. ReadAs(StringAt(host, input, at, memory).value, input, at + 32, v, memory)
    BY <1>0, <1>1, StringRead
  <1> QED BY <1>3, <1>4

LEMMA EndpointRead ==
    ASSUME NEW host, NEW input, NEW enc, NEW size, Arrived(input, enc, size),
           Holds(enc, 64, AbiWord(128), 32), NEW v \in Seq(Byte), Len(v) < 256 * 256,
           Holds(enc, 128, AbiString(v), 32 + Aligned(Len(v))), NEW memory \in BOOLEAN
    PROVE  abi_get_order_endpoint(host, input, memory).value
             = IF size >= 160 + Len(v) /\ memory THEN v ELSE NULL
  <1> DEFINE r == abi_get_order_endpoint(host, input, memory)
             n == Len(v)
  <1>0. input \in Seq(Byte) /\ Len(input) = size /\ size \in Nat /\ n \in Nat
    BY LenProperties DEF Arrived
  <1>1. CASE size < 96
    <2>1. r.value = NULL
      BY <1>0, <1>1 DEF abi_get_order_endpoint, Failed
    <2> HIDE DEF n, r
    <2>2. ~ (size >= 160 + n)
      BY <1>0, <1>1
    <2> QED BY <2>1, <2>2, Zenon DEF n, r
  <1>2. CASE ~ (size < 96)
    <2>1. r = StringAt(host, input, U16At(host, input, 94, 95), memory)
      BY <1>0, <1>2 DEF abi_get_order_endpoint, U16At
    <2> DEFINE place == 64
               lo    == 94
               hi    == 95
               at    == 128
    <2>2. /\ place \in Nat /\ place + 32 <= size /\ lo = place + 30 /\ hi = place + 31
          /\ at \in Nat /\ at < 256 * 256 /\ Holds(enc, place, AbiWord(at), 32)
          /\ Holds(enc, at, AbiString(v), 32 + Aligned(Len(v)))
      BY <1>0, <1>2
    <2> HIDE DEF place, lo, hi, at
    <2>6. ReadAs(StringAt(host, input, U16At(host, input, lo, hi), memory).value,
                 input, at + 32, v, memory)
      BY <2>2, PartRead
    <2>3. ReadAs(StringAt(host, input, U16At(host, input, 94, 95), memory).value,
                 input, 128 + 32, v, memory)
      BY <2>6, Zenon DEF lo, hi, at
    <2>4. r.value = IF 128 + 32 + n <= size /\ memory THEN v ELSE NULL
      BY <1>0, <2>1, <2>3 DEF ReadAs
    <2> HIDE DEF n, r
    <2>5. (128 + 32 + n <= size) = (size >= 160 + n)
      BY <1>0
    <2> QED BY <2>4, <2>5 DEF n, r
  <1>3. size < 96 \/ ~ (size < 96)
    OBVIOUS
  <1> QED BY <1>1, <1>2, <1>3, Zenon

LEMMA TokenRead ==
    ASSUME NEW host, NEW input, NEW enc, NEW size, Arrived(input, enc, size),
           NEW at \in Nat, at >= 96, at < 256 * 256, Holds(enc, 96, AbiWord(at), 32),
           NEW v \in Seq(Byte), Len(v) < 256 * 256,
           Holds(enc, at, AbiString(v), 32 + Aligned(Len(v))), NEW memory \in BOOLEAN
    PROVE  abi_get_order_token(host, input, memory).value
             = IF size >= at + 32 + Len(v) /\ memory THEN v ELSE NULL
  <1> DEFINE r == abi_get_order_token(host, input, memory)
             n == Len(v)
  <1>0. input \in Seq(Byte) /\ Len(input) = size /\ size \in Nat /\ n \in Nat
    BY LenProperties DEF Arrived
  <1>1. CASE size < 128
    <2>1. r.value = NULL
      BY <1>0, <1>1 DEF abi_get_order_token, Failed
    <2> HIDE DEF n, r
    <2>2. ~ (size >= at + 32 + n)
      BY <1>0, <1>1
    <2> QED BY <2>1, <2>2, Zenon DEF n, r
  <1>2. CASE ~ (size < 128)
    <2>1. r = StringAt(host, input, U16At(host, input, 126, 127), memory)
      BY <1>0, <1>2 DEF abi_get_order_token, U16At
    <2> DEFINE place == 96
               lo    == 126
               hi    == 127
    <2>2. /\ place \in Nat /\ place + 32 <= size /\ lo = place + 30 /\ hi = place + 31
          /\ at \in Nat /\ at < 256 * 256 /\ Holds(enc, place, AbiWord(at), 32)
          /\ Holds(enc, at, AbiString(v), 32 + Aligned(Len(v)))
      BY <1>0, <1>2
    <2> HIDE DEF place, lo, hi
    <2>6. ReadAs(StringAt(host, input, U16At(host, input, lo, hi), memory).value,
                 input, at + 32, v, memory)
      BY <2>2, PartRead
    <2>3. ReadAs(StringAt(host, input, U16At(host, input, 126, 127), memory).value,
                 input, at + 32, v, memory)
      BY <2>6, Zenon DEF lo, hi
    <2>4. r.value = IF at + 32 + n <= size /\ memory THEN v ELSE NULL
      BY <1>0, <2>1, <2>3 DEF ReadAs
    <2> HIDE DEF n, r
    <2>5. (at + 32 + n <= size) = (size >= at + 32 + n)
      BY <1>0
    <2> QED BY <2>4, <2>5 DEF n, r
  <1>3. size < 128 \/ ~ (size < 128)
    OBVIOUS
  <1> QED BY <1>1, <1>2, <1>3, Zenon

LEMMA OrderRead ==
    ASSUME NEW host, NEW o, o.start \in Nat, o.duration \in Nat, o.endpoint \in Seq(Byte),
           o.token \in Seq(Byte), FitsSixteenBits(o), NEW enc, IsOrder(enc, o),
           NEW size, NEW input, Arrived(input, enc, size), NEW memory \in BOOLEAN
    PROVE  /\ abi_get_order_start(host, input).value
                = IF size >= 32 THEN BigEndian64(o.start) ELSE NULL
           /\ abi_get_order_duration(host, input).value
                = IF size >= 64 THEN SubSeq(BigEndian64(o.duration), 5, 8) ELSE NULL
           /\ abi_get_order_endpoint(host, input, memory).value
                = IF size >= 160 + Len(o.endpoint) /\ memory THEN o.endpoint ELSE NULL
           /\ abi_get_order_token(host, input, memory).value
                = IF size >= 160 + Aligned(Len(o.endpoint)) + 32 + Len(o.token) /\ memory
                  THEN o.token ELSE NULL
  <1> DEFINE a  == Aligned(Len(o.endpoint))
             at == 160 + a
  <1>1. /\ Holds(enc, 0, AbiWord(o.start), 32)
        /\ Holds(enc, 32, AbiWord(o.duration), 32)
        /\ Holds(enc, 64, AbiWord(128), 32)
        /\ Holds(enc, 96, AbiWord(at), 32)
        /\ Holds(enc, 128, AbiString(o.endpoint), 32 + a)
        /\ Holds(enc, at, AbiString(o.token), 32 + Aligned(Len(o.token)))
    BY DEF IsOrder
  <1>2. a \in Nat /\ Len(o.endpoint) \in Nat /\ Len(o.endpoint) <= a
    BY AlignedIs, LenProperties
  <1>3. at < 256 * 256 /\ Len(o.token) < 256 * 256
    <2>1. 5 * Word + a = at
      BY DEF Word
    <2> QED BY <2>1 DEF FitsSixteenBits
  <1>4. Len(o.endpoint) < 256 * 256 /\ at \in Nat /\ at >= 96
    BY <1>2, <1>3
  <1>5. abi_get_order_start(host, input).value
          = IF size >= 32 THEN BigEndian64(o.start) ELSE NULL
    BY <1>1, StartRead
  <1>6. abi_get_order_duration(host, input).value
          = IF size >= 64 THEN SubSeq(BigEndian64(o.duration), 5, 8) ELSE NULL
    BY <1>1, DurationRead
  <1>7. abi_get_order_endpoint(host, input, memory).value
          = IF size >= 160 + Len(o.endpoint) /\ memory THEN o.endpoint ELSE NULL
    <2> DEFINE v == o.endpoint
    <2>1. /\ v \in Seq(Byte) /\ Len(v) < 256 * 256
          /\ Holds(enc, 64, AbiWord(128), 32) /\ Holds(enc, 128, AbiString(v), 32 + Aligned(Len(v)))
      BY <1>1, <1>4
    <2> HIDE DEF v
    <2>2. abi_get_order_endpoint(host, input, memory).value
            = IF size >= 160 + Len(v) /\ memory THEN v ELSE NULL
      BY <2>1, EndpointRead
    <2> QED BY <2>2 DEF v
  <1> HIDE DEF at
  <1>8. abi_get_order_token(host, input, memory).value
          = IF size >= at + 32 + Len(o.token) /\ memory THEN o.token ELSE NULL
    BY <1>1, <1>3, <1>4, TokenRead, ZenonT(30)
  <1> QED BY <1>5, <1>6, <1>7, <1>8 DEF at

(* What a state of the system holds of an order that is read back. *)
OrderAnswered ==
    op = "order" =>
        \E host \in Endian, o \in Orders, memory \in BOOLEAN :
        \E size \in 0..Len(EncodeOrder(o)) :
            /\ args = <<host, o, size, memory>>
            /\ out = abi_get_order(host, SubSeq(EncodeOrder(o), 1, size), memory)

(* From whatever prefix of an encoded order, of any texts and numbers, the *)
(* parts are read as encoded or refused (abi_read_contract.c).             *)
THEOREM ConversionsOrderReadBack == Spec => []OrderReadBack
  <1>1. Init => OrderAnswered
    BY DEF Init, OrderAnswered
  <1>2. OrderAnswered /\ [Next]_vars => OrderAnswered'
    BY DEF OrderAnswered, Next, vars, Call, CallRau2Iotx, CallU128, CallCompare, CallHex2Str,
           CallStr2Hex, CallReadContract, CallPublish, CallGetOrder, CallGetReply, Return
  <1>3. OrderAnswered => OrderReadBack
    <2> SUFFICES ASSUME OrderAnswered, op = "order", FitsSixteenBits(args[2])
                 PROVE  OrderReadBack
      BY DEF OrderReadBack
    <2>1. PICK host \in Endian, o \in Orders, memory \in BOOLEAN :
            \E size \in 0..Len(EncodeOrder(o)) :
              /\ args = <<host, o, size, memory>>
              /\ out = abi_get_order(host, SubSeq(EncodeOrder(o), 1, size), memory)
      BY DEF OrderAnswered
    <2>2. PICK size \in 0..Len(EncodeOrder(o)) :
              /\ args = <<host, o, size, memory>>
              /\ out = abi_get_order(host, SubSeq(EncodeOrder(o), 1, size), memory)
      BY <2>1
    <2> DEFINE enc   == EncodeOrder(o)
               input == SubSeq(enc, 1, size)
               e     == Len(o.endpoint)
               a     == Aligned(e)
               t     == Len(o.token)
    <2>3. args[2] = o /\ args[3] = size /\ args[4] = memory /\ FitsSixteenBits(o)
      BY <2>2
    <2>4. /\ o.start \in Nat /\ o.duration \in Nat
          /\ o.endpoint \in Seq(Byte) /\ o.token \in Seq(Byte)
      BY OrdersAssumption DEF Byte
    <2>5. IsOrder(enc, o)
      BY <2>4, OrderEncoded
    <2>6. Arrived(input, enc, size)
      <3>1. enc \in Seq(Byte)
        BY <2>5 DEF IsOrder
      <3> HIDE DEF enc
      <3> QED BY <3>1, ArrivedIs DEF enc
    <2>7. /\ out.start = abi_get_order_start(host, input)
          /\ out.duration = abi_get_order_duration(host, input)
          /\ out.endpoint = abi_get_order_endpoint(host, input, memory)
          /\ out.token = abi_get_order_token(host, input, memory)
      BY <2>2 DEF abi_get_order
    <2> HIDE DEF enc, input
    <2>8. /\ out.start.value = IF size >= 32 THEN BigEndian64(o.start) ELSE NULL
          /\ out.duration.value
               = IF size >= 64 THEN SubSeq(BigEndian64(o.duration), 5, 8) ELSE NULL
          /\ out.endpoint.value
               = IF size >= 160 + e /\ memory THEN o.endpoint ELSE NULL
          /\ out.token.value
               = IF size >= 160 + a + 32 + t /\ memory THEN o.token ELSE NULL
      BY <2>3, <2>4, <2>5, <2>6, <2>7, OrderRead
    <2>9. a \in Nat /\ t \in Nat /\ e \in Nat
      BY <2>4, AlignedIs, LenProperties
    <2>10. /\ Word = 32 /\ 2 * Word = 64 /\ 5 * Word + e = 160 + e
           /\ 6 * Word + a + t = 160 + a + 32 + t
      <3> HIDE DEF a, t, e
      <3> QED BY <2>9 DEF Word
    <2> HIDE DEF e, a, t
    <2>11. /\ out.start.value = IF size >= Word THEN BigEndian64(o.start) ELSE NULL
           /\ out.duration.value
                = IF size >= 2 * Word THEN SubSeq(BigEndian64(o.duration), 5, 8) ELSE NULL
           /\ out.endpoint.value
                = IF memory THEN IF size >= 5 * Word + e THEN o.endpoint ELSE NULL ELSE NULL
           /\ out.token.value
                = IF memory THEN IF size >= 6 * Word + a + t THEN o.token ELSE NULL ELSE NULL
      BY <2>8, <2>10
    <2> QED BY <2>3, <2>11 DEF OrderReadBack, e, a, t
  <1> QED BY <1>1, <1>2, <1>3, PTL DEF Spec

-----------------------------------------------------------------------------
(* Hexadecimal texts and decimal numbers of any length: what the loops of  *)
(* signer.c and u128.c make of them.                                       *)

(* The memory signer_str2hex works in, and how many bytes it has written.  *)
States(size) == [ret : Int, mem : [1..size -> Int]]

LEMMA ValueRange == \A c : value(c) \in -1..75
  BY DEF value, CodeOf

LEMMA ByteRange == \A a, b : OrByte(a, b) \in 0..255
  BY DEF OrByte

LEMMA StoredTyped ==
    ASSUME NEW size \in Nat, NEW run \in States(size), NEW at \in Int, NEW byte \in Int
    PROVE  Stored(run, at, byte) \in States(size) /\ Rejected(run) \in States(size)
  <1>1. run.mem \in [1..size -> Int] /\ run.ret \in Int
    BY DEF States
  <1>2. [run.mem EXCEPT ![at + run.ret + 1] = byte] \in [1..size -> Int]
    BY <1>1
  <1>3. Stored(run, at, byte) \in States(size)
    BY <1>1, <1>2 DEF Stored, States
  <1>4. Rejected(run) \in States(size)
    BY DEF Rejected, States
  <1> QED BY <1>3, <1>4

LEMMA ConvertTyped ==
    ASSUME NEW size \in Nat, NEW run \in States(size), NEW it, NEW len, NEW hexAt \in Int
    PROVE  Convert(run, it, len, hexAt) \in States(size)
  <1> DEFINE high == value(run.mem[it])
             low  == value(run.mem[it + 1])
             byte == OrByte(high * 16, low)
  <1>1. high \in Int /\ byte \in Int
    BY ValueRange, ByteRange
  <1>2. Convert(run, it, len, hexAt)
            = IF high = -1 THEN Rejected(run)
              ELSE IF it = len THEN Stored(run, hexAt, high)
              ELSE IF low = -1 THEN Rejected(run) ELSE Stored(run, hexAt, byte)
    BY Zenon DEF Convert
  <1> HIDE DEF high, low, byte
  <1> QED BY <1>1, <1>2, StoredTyped

IsRounds(C, size, mem, first, len, hexAt) ==
    /\ C \in [Nat -> States(size)]
    /\ C[0] = [ret |-> 0, mem |-> mem]
    /\ \A n \in Nat : C[n + 1] = Round(C[n], n + 1, first, len, hexAt)

LEMMA ConvertedRounds ==
    ASSUME NEW size \in Nat, NEW mem \in [1..size -> Int], NEW first, NEW len, NEW hexAt \in Int
    PROVE  IsRounds(Converted(mem, first, len, hexAt), size, mem, first, len, hexAt)
  <1> DEFINE S == States(size)
             start == [ret |-> 0, mem |-> mem]
             mu == [n \in Nat |-> n]
             Body(f, n) == IF n = 0 THEN start ELSE Round(f[n - 1], n, first, len, hexAt)
             step == [f \in [Nat -> S] |-> [n \in Nat |-> Body(f, n)]]
             C == Converted(mem, first, len, hexAt)
  <1>1. start \in S
    BY DEF States
  <1>2. ASSUME NEW f \in [Nat -> S], NEW n \in Nat
        PROVE  Body(f, n) \in S
    <2>1. CASE n = 0
      BY <1>1, <2>1
    <2>2. CASE n # 0
      <3>1. f[n - 1] \in S
        BY <2>2
      <3>2. Round(f[n - 1], n, first, len, hexAt) \in S
        BY <3>1, ConvertTyped DEF Round
      <3> QED BY <2>2, <3>2
    <2> QED BY <2>1, <2>2
  <1>3. Contracting(Nat, S, mu, step)
    <2>1. step \in [[Nat -> S] -> [Nat -> S]]
      BY <1>2
    <2>2. ASSUME NEW f \in [Nat -> S], NEW g \in [Nat -> S], NEW n \in Nat, Below(Nat, mu, f, g, n)
          PROVE  step[f][n] = step[g][n]
      <3>1. n # 0 => n - 1 \in Nat /\ f[n - 1] = g[n - 1]
        BY <2>2 DEF Below
      <3> QED BY <3>1
    <2> QED BY <2>1, <2>2 DEF Contracting
  <1>4. mu \in [Nat -> Nat] /\ S # {}
    BY <1>1
  <1>5. HasFixedPoint(Nat, S, step)
    <2> HIDE DEF S, mu, step
    <2> QED BY <1>3, <1>4, FixedPoint
  <1>51. PICK f \in [Nat -> S] : step[f] = f
    BY <1>5 DEF HasFixedPoint
  <1>6. f = [n \in Nat |-> Body(f, n)]
    BY <1>51
  <1>7. C = CHOOSE run : run = [n \in Nat |-> Body(run, n)]
    BY DEF Converted, Round
  <1>8. C = [n \in Nat |-> Body(C, n)]
    <2> HIDE DEF Body, C
    <2> QED BY <1>6, <1>7, Zenon
  <1> HIDE DEF C
  <1> QED
    <2>1. \A n \in Nat : n = 0 => C[n] = start
      BY <1>8
    <2>2. \A n \in Nat : C[n] = Body(C, n)
      BY <1>8
    <2> DEFINE T == { n \in Nat : C[n] \in S }
    <2>3. 0 \in T
      BY <1>1, <2>1
    <2>4. ASSUME NEW n \in Nat, n \in T
          PROVE  n + 1 \in T
      <3>1. C[n + 1] = Round(C[(n + 1) - 1], n + 1, first, len, hexAt)
        BY <2>2
      <3>2. (n + 1) - 1 = n /\ C[n] \in S
        BY <2>4
      <3>3. Round(C[n], n + 1, first, len, hexAt) \in S
        BY <3>2, ConvertTyped DEF Round
      <3> QED BY <3>1, <3>2, <3>3
    <2>5. \A n \in Nat : n \in T
      <3> HIDE DEF T
      <3> QED BY <2>3, <2>4, UpFromZero
    <2>6. C \in [Nat -> S]
      BY <1>8, <2>5
    <2>7. 0 \in Nat /\ \A n \in Nat : n + 1 \in Nat /\ n + 1 # 0 /\ (n + 1) - 1 = n
      OBVIOUS
    <2>8. \A n \in Nat : C[n + 1] = Round(C[n], n + 1, first, len, hexAt)
      BY <2>2, <2>7
    <2> QED BY <2>1, <2>6, <2>7, <2>8 DEF C, IsRounds

-----------------------------------------------------------------------------
(* Overwriting the text.                                                   *)

(* A round that is not rejected stores one byte behind those stored before.*)
StoredOne(after, before, at, byte) ==
    after = [ret |-> before.ret + 1, mem |-> [before.mem EXCEPT ![at + before.ret + 1] = byte]]

(* What a round makes of the digits it reads, the last one maybe single.   *)
RoundByte(high, low, single) == IF single THEN high ELSE OrByte(high * 16, low)

RoundRejects(high, low, single) == high = -1 \/ (~ single /\ low = -1)

RoundIs(after, run, hexAt, high, low, single) ==
    after = IF RoundRejects(high, low, single) THEN Rejected(run)
            ELSE Stored(run, hexAt, RoundByte(high, low, single))

LEMMA ConvertIs ==
    ASSUME NEW run, NEW it, NEW len, NEW hexAt, NEW single \in BOOLEAN, single <=> (it = len),
           NEW high, NEW low, high = value(run.mem[it]), single \/ low = value(run.mem[it + 1])
    PROVE  RoundIs(Convert(run, it, len, hexAt), run, hexAt, high, low, single)
  <1>1. CASE single
    BY <1>1, Zenon DEF Convert, RoundRejects, RoundByte, RoundIs
  <1>2. CASE ~ single
    BY <1>2, Zenon DEF Convert, RoundRejects, RoundByte, RoundIs
  <1> QED BY <1>1, <1>2

(* Two conversions of one text, one in place and one into memory behind it,*)
(* agree after n rounds: none has overwritten a digit that is still to be  *)
(* read, in place because n bytes came from at least 2n digits.            *)
Alike(a, b, text, n) ==
    /\ a.ret = b.ret
    /\ a.ret # -1 =>
          /\ a.ret = n
          /\ \A i \in 1..n : a.mem[i] = b.mem[Len(text) + i]
          /\ \A j \in (n + 1)..Len(text) : a.mem[j] = text[j]
          /\ \A j \in 1..Len(text) : b.mem[j] = text[j]

LEMMA RoundAlike ==
    ASSUME NEW text, NEW size \in Nat, Len(text) \in Nat, size <= Len(text),
           NEW a \in States(Len(text)), NEW b \in States(Len(text) + size),
           NEW n \in Nat, Alike(a, b, text, n), NEW first \in {1, 3},
           first + 2 * n <= Len(text), n < size
    PROVE  Alike(Round(a, n + 1, first, Len(text), 0),
                 Round(b, n + 1, first, Len(text), Len(text)), text, n + 1)
  <1> DEFINE len == Len(text)
             it  == first + 2 * n
             a1  == Round(a, n + 1, first, len, 0)
             b1  == Round(b, n + 1, first, len, len)
             high == value(text[it])
             low  == value(text[it + 1])
             single == it = len
             byte == RoundByte(high, low, single)
  <1>0. /\ len \in Nat /\ it \in Nat /\ n + 1 <= it /\ it <= len /\ first + 2 * ((n + 1) - 1) = it
        /\ (it # len => it + 1 <= len)
    OBVIOUS
  <1>1. CASE a.ret = -1
    <2>1. a1 = a /\ b1 = b
      BY <1>1 DEF Round, Alike
    <2> HIDE DEF a1, b1
    <2>2. Alike(a1, b1, text, n + 1)
      BY <1>1, <2>1 DEF Alike
    <2> QED BY <2>2 DEF a1, b1
  <1>2. CASE a.ret # -1
    <2>1. /\ b.ret = n /\ a.ret = n
          /\ \A i \in 1..n : a.mem[i] = b.mem[len + i]
          /\ \A j \in (n + 1)..len : a.mem[j] = text[j]
          /\ \A j \in 1..len : b.mem[j] = text[j]
      BY <1>2 DEF Alike
    <2>2. /\ a1 = Convert(a, it, len, 0) /\ b1 = Convert(b, it, len, len)
      BY <1>0, <1>2, <2>1 DEF Round
    <2>3. /\ a.mem[it] = text[it] /\ b.mem[it] = text[it]
          /\ it # len => a.mem[it + 1] = text[it + 1] /\ b.mem[it + 1] = text[it + 1]
      <3> HIDE DEF it, len
      <3>1. /\ it \in (n + 1)..len /\ it \in 1..len
            /\ (it # len => it + 1 \in (n + 1)..len /\ it + 1 \in 1..len)
        BY <1>0
      <3> QED BY <2>1, <3>1
    <2> HIDE DEF it, len, a1, b1
    <2>31. /\ high = value(a.mem[it]) /\ (single \/ low = value(a.mem[it + 1]))
           /\ high = value(b.mem[it]) /\ (single \/ low = value(b.mem[it + 1]))
           /\ single \in BOOLEAN /\ (single <=> (it = len))
      BY <2>3
    <2> HIDE DEF high, low, single
    <2>4. RoundIs(a1, a, 0, high, low, single)
      BY <2>2, <2>31, ConvertIs
    <2>5. RoundIs(b1, b, len, high, low, single)
      BY <2>2, <2>31, ConvertIs
    <2> HIDE DEF high, low, single, byte
    <2>6. CASE RoundRejects(high, low, single)
      <3>1. a1.ret = -1 /\ b1.ret = -1
        BY <2>4, <2>5, <2>6 DEF Rejected, States, RoundIs
      <3>2. Alike(a1, b1, text, n + 1)
        BY <3>1 DEF Alike
      <3> QED BY <3>2 DEF a1, b1, len
    <2>7. CASE ~ RoundRejects(high, low, single)
      <3>1. /\ a1.ret = n + 1 /\ a1.mem = [a.mem EXCEPT ![n + 1] = byte]
        BY <2>1, <2>4, <2>7 DEF Stored, RoundIs, byte
      <3>2. /\ b1.ret = n + 1 /\ b1.mem = [b.mem EXCEPT ![len + n + 1] = byte]
        BY <2>1, <2>5, <2>7 DEF Stored, RoundIs, byte
      <3>3. a.mem \in [1..len -> Int] /\ b.mem \in [1..(len + size) -> Int]
        BY DEF States, len
      <3>4. n + 1 \in 1..len /\ len + n + 1 \in 1..(len + size) /\ len + n + 1 = len + (n + 1)
        BY <1>0 DEF len
      <3>5. \A i \in 1..(n + 1) : a1.mem[i] = b1.mem[len + i]
        <4> TAKE i \in 1..(n + 1)
        <4>1. CASE i = n + 1
          <5>1. a1.mem[n + 1] = byte
            BY <3>1, <3>3, <3>4
          <5>2. b1.mem[len + n + 1] = byte
            BY <3>2, <3>3, <3>4
          <5> QED BY <4>1, <5>1, <5>2, <3>4
        <4>2. CASE i # n + 1
          <5>1. i \in 1..n /\ i \in 1..len /\ len + i \in 1..(len + size) /\ len + i # len + n + 1
            BY <1>0, <3>4, <4>2
          <5>2. a1.mem[i] = a.mem[i]
            BY <3>1, <3>3, <4>2, <5>1
          <5>3. b1.mem[len + i] = b.mem[len + i]
            BY <3>2, <3>3, <5>1
          <5> QED BY <2>1, <5>1, <5>2, <5>3
        <4> QED BY <4>1, <4>2
      <3>6. \A j \in ((n + 1) + 1)..len : a1.mem[j] = text[j]
        <4> TAKE j \in ((n + 1) + 1)..len
        <4>1. j \in (n + 1)..len /\ j \in 1..len /\ j # n + 1
          BY <1>0
        <4> QED BY <2>1, <3>1, <3>3, <4>1
      <3>7. \A j \in 1..len : b1.mem[j] = text[j]
        <4> TAKE j \in 1..len
        <4>1. j \in 1..(len + size) /\ j # len + n + 1
          BY <1>0
        <4> QED BY <2>1, <3>2, <3>3, <4>1
      <3>8. Alike(a1, b1, text, n + 1)
        BY <3>1, <3>2, <3>5, <3>6, <3>7 DEF Alike, len
      <3> QED BY <3>8 DEF a1, b1, len
    <2> QED BY <2>6, <2>7
  <1> QED BY <1>1, <1>2

LEMMA RoundsAlike ==
    ASSUME NEW text, Len(text) \in Nat, NEW size \in Nat, size <= Len(text),
           NEW mine \in [1..Len(text) -> Int], NEW apart \in [1..(Len(text) + size) -> Int],
           \A j \in 1..Len(text) : mine[j] = text[j] /\ apart[j] = text[j],
           NEW first \in {1, 3}, NEW total \in Nat, total <= size,
           total > 0 => first + 2 * (total - 1) <= Len(text)
    PROVE  Alike(Converted(mine, first, Len(text), 0)[total],
                 Converted(apart, first, Len(text), Len(text))[total], text, total)
  <1> DEFINE len == Len(text)
             A == Converted(mine, first, len, 0)
             B == Converted(apart, first, len, len)
             T == { n \in Nat : n <= total => Alike(A[n], B[n], text, n) }
  <1>1. /\ A \in [Nat -> States(len)]
        /\ A[0] = [ret |-> 0, mem |-> mine]
        /\ \A n \in Nat : A[n + 1] = Round(A[n], n + 1, first, len, 0)
    <2>1. IsRounds(A, len, mine, first, len, 0)
      <3>1. 0 \in Int
        OBVIOUS
      <3> QED BY <3>1, ConvertedRounds
    <2> HIDE DEF A
    <2> QED BY <2>1 DEF IsRounds
  <1>2. /\ B \in [Nat -> States(len + size)]
        /\ B[0] = [ret |-> 0, mem |-> apart]
        /\ \A n \in Nat : B[n + 1] = Round(B[n], n + 1, first, len, len)
    <2>1. IsRounds(B, len + size, apart, first, len, len)
      <3>1. len + size \in Nat /\ len \in Int
        OBVIOUS
      <3> QED BY <3>1, ConvertedRounds
    <2> HIDE DEF B
    <2> QED BY <2>1 DEF IsRounds
  <1> HIDE DEF A, B
  <1>3. 0 \in T
    <2>1. A[0].ret = 0 /\ B[0].ret = 0 /\ A[0].mem = mine /\ B[0].mem = apart
      BY <1>1, <1>2
    <2>2. \A i \in 1..0 : FALSE
      OBVIOUS
    <2>3. \A j \in (0 + 1)..Len(text) : j \in 1..Len(text)
      OBVIOUS
    <2>4. Alike(A[0], B[0], text, 0)
      BY <2>1, <2>2, <2>3 DEF Alike
    <2> QED BY <2>4
  <1>4. ASSUME NEW n \in Nat, n \in T
        PROVE  n + 1 \in T
    <2> SUFFICES ASSUME n + 1 <= total
                 PROVE  Alike(A[n + 1], B[n + 1], text, n + 1)
      OBVIOUS
    <2>1. Alike(A[n], B[n], text, n) /\ n < size /\ first + 2 * n <= Len(text)
      BY <1>4
    <2>2. A[n] \in States(Len(text)) /\ B[n] \in States(Len(text) + size)
      BY <1>1, <1>2
    <2>3. Alike(Round(A[n], n + 1, first, Len(text), 0),
                Round(B[n], n + 1, first, Len(text), Len(text)), text, n + 1)
      <3> DEFINE a == A[n]
                 b == B[n]
      <3> HIDE DEF a, b
      <3>1. Alike(a, b, text, n) /\ a \in States(Len(text)) /\ b \in States(Len(text) + size)
        BY <2>1, <2>2 DEF a, b
      <3>2. Alike(Round(a, n + 1, first, Len(text), 0),
                  Round(b, n + 1, first, Len(text), Len(text)), text, n + 1)
        BY <2>1, <3>1, RoundAlike
      <3> QED BY <3>2 DEF a, b
    <2>4. A[n + 1] = Round(A[n], n + 1, first, len, 0) /\ B[n + 1] = Round(B[n], n + 1, first, len, len)
      BY <1>1, <1>2
    <2> QED BY <2>3, <2>4
  <1>5. \A n \in Nat : n \in T
    <2> HIDE DEF T
    <2> QED BY <1>3, <1>4, UpFromZero
  <1> QED BY <1>5 DEF A, B

LEMMA IntTexts ==
    ASSUME NEW S, S \subseteq Int, NEW s \in Seq(S)
    PROVE  s \in [1..Len(s) -> Int] /\ s \in Seq(Int) /\ Len(s) \in Nat
  <1>1. s \in [1..Len(s) -> S] /\ Len(s) \in Nat
    BY LenProperties
  <1>2. \A i \in 1..Len(s) : s[i] \in Int
    BY <1>1
  <1>3. s = [i \in 1..Len(s) |-> s[i]]
    BY <1>1
  <1>4. [i \in 1..Len(s) |-> s[i]] \in [1..Len(s) -> Int]
    BY <1>2
  <1>5. s \in Seq(Int)
    BY <1>1, <1>2
  <1> QED BY <1>1, <1>3, <1>4, <1>5

(* The text and, apart from it, room for its bytes.                        *)
LEMMA Apart ==
    ASSUME NEW text \in Seq(1..255), NEW size \in Nat
    PROVE  /\ text \in [1..Len(text) -> Int] /\ Len(text) \in Nat
           /\ text \o Zeros(size) \in [1..(Len(text) + size) -> Int]
           /\ \A j \in 1..Len(text) : (text \o Zeros(size))[j] = text[j]
  <1> DEFINE z == Zeros(size)
             len == Len(text)
  <1>1. z \in Seq(Int) /\ Len(z) = size
    BY DEF Zeros
  <1>2. text \in [1..len -> Int] /\ len \in Nat /\ text \in Seq(Int)
    <2>1. 1..255 \subseteq Int
      OBVIOUS
    <2> QED BY <2>1, IntTexts
  <1> HIDE DEF z
  <1>3. /\ Len(text \o z) = len + size
        /\ \A j \in 1..len : (text \o z)[j] = text[j]
        /\ text \o z \in Seq(Int)
    <2>1. Joins(text \o z, Int, text, len, z, size)
      BY <1>1, <1>2, Joined
    <2> QED BY <2>1 DEF Joins
  <1>4. text \o z \in [1..(len + size) -> Int]
    BY <1>1, <1>2, <1>3, LenProperties
  <1> QED BY <1>2, <1>3, <1>4 DEF z

AgreesInPlace(result, text) ==
    /\ result.inPlace.ret = result.apart.ret
    /\ \A i \in 1..result.apart.ret :
           result.inPlace.mem[i] = result.apart.mem[Len(text) + i]

LEMMA TextInPlace ==
    ASSUME NEW text \in Seq(1..255), NEW size \in Nat, size <= Len(text)
    PROVE  AgreesInPlace([ inPlace |-> signer_str2hex(text, Len(text), 0, size),
                           apart   |-> signer_str2hex(text \o Zeros(size), Len(text), Len(text), size) ],
                         text)
  <1> DEFINE len   == Len(text)
             both  == text \o Zeros(size)
             first == IF Prefixed(text, len) THEN 3 ELSE 1
             total == (len - first + 2) \div 2
             A     == signer_str2hex(text, len, 0, size)
             B     == signer_str2hex(both, len, len, size)
             a     == Converted(text, first, len, 0)[total]
             b     == Converted(both, first, len, len)[total]
  <1>1. /\ text \in [1..len -> Int] /\ len \in Nat /\ both \in [1..(len + size) -> Int]
        /\ \A j \in 1..len : both[j] = text[j]
    BY Apart
  <1> HIDE DEF both
  <1>2. Prefixed(both, len) <=> Prefixed(text, len)
    BY <1>1 DEF Prefixed
  <1>3. CASE ~ StrRoom(size, len)
    <2>1. A.ret = -1 /\ B.ret = -1
      BY <1>3 DEF signer_str2hex
    <2> HIDE DEF A, B
    <2> QED BY <2>1 DEF AgreesInPlace, A, B, both
  <1>4. CASE StrRoom(size, len)
    <2>1. A = a /\ B = b
      BY <1>2, <1>4 DEF signer_str2hex, ConvertAll
    <2>2. first \in {1, 3} /\ (first = 3 => len >= 2)
      BY DEF Prefixed
    <2> HIDE DEF first
    <2>3. /\ total \in Nat /\ total <= size /\ (total > 0 => first + 2 * (total - 1) <= len)
      BY <1>1, <1>4, <2>2 DEF StrRoom
    <2> HIDE DEF total
    <2>4. Alike(a, b, text, total)
      <3>1. \A j \in 1..len : text[j] = text[j] /\ both[j] = text[j]
        BY <1>1
      <3> QED BY <1>1, <2>2, <2>3, <3>1, RoundsAlike
    <2> HIDE DEF a, b, A, B
    <2>5. \A i \in 1..b.ret : a.mem[i] = b.mem[len + i]
      <3>1. CASE a.ret = -1
        BY <2>4, <3>1 DEF Alike
      <3>2. CASE a.ret # -1
        BY <2>4, <3>2 DEF Alike
      <3> QED BY <3>1, <3>2
    <2> QED BY <2>1, <2>4, <2>5 DEF AgreesInPlace, Alike, A, B, both
  <1> QED BY <1>3, <1>4

TextConverted ==
    op = "str2hex" => \E text \in HexTexts, size \in Rooms :
        /\ size <= Len(text) /\ args = <<text, size>>
        /\ out = [ inPlace |-> signer_str2hex(text, Len(text), 0, size),
                   apart   |-> signer_str2hex(text \o Zeros(size), Len(text), Len(text), size) ]

(* A hexadecimal text of any length may be overwritten by its bytes while  *)
(* it is read, with and without prefix, whatever its number of digits      *)
(* (signer.c:53-99).                                                       *)
THEOREM TextsInPlace == Spec => []InPlaceAgrees
  <1>1. Init => TextConverted
    BY DEF Init, TextConverted
  <1>2. TextConverted /\ [Next]_vars => TextConverted'
    <2> SUFFICES ASSUME TextConverted, [Next]_vars
                 PROVE  TextConverted'
      OBVIOUS
    <2>1. CASE CallStr2Hex
      BY <2>1 DEF CallStr2Hex, Call, TextConverted
    <2>2. CASE UNCHANGED vars
      BY <2>2 DEF vars, TextConverted
    <2>3. CASE op' # "str2hex"
      BY <2>3 DEF TextConverted
    <2>4. Next => CallStr2Hex \/ op' # "str2hex"
      BY DEF Next, Call, CallRau2Iotx, CallU128, CallCompare, CallHex2Str, CallReadContract,
             CallPublish, CallGetOrder, CallGetReply, Return
    <2> QED BY <2>1, <2>2, <2>3, <2>4
  <1>3. TextConverted => InPlaceAgrees
    <2> SUFFICES ASSUME TextConverted, op = "str2hex"
                 PROVE  AgreesInPlace(out, args[1])
      BY DEF InPlaceAgrees, AgreesInPlace
    <2>1. PICK text \in HexTexts, size \in Rooms :
              /\ size <= Len(text) /\ args = <<text, size>>
              /\ out = [ inPlace |-> signer_str2hex(text, Len(text), 0, size),
                         apart   |-> signer_str2hex(text \o Zeros(size), Len(text), Len(text), size) ]
      BY DEF TextConverted
    <2>2. text \in Seq(1..255) /\ size \in Nat
      BY TextsAssumption, CallsAssumption
    <2>3. AgreesInPlace(out, text)
      BY <2>1, <2>2, TextInPlace
    <2> QED BY <2>1, <2>3
  <1> QED BY <1>1, <1>2, <1>3, PTL DEF Spec

-----------------------------------------------------------------------------
(* Contract data.                                                          *)
HexCodes == { hexmap(d) : d \in 0..15 }

LEMMA HexDigit ==
    ASSUME NEW c \in HexCodes
    PROVE  /\ value(c) \in 0..15 /\ hexmap(value(c)) = c
           /\ c \in 48..102 /\ c # 0 /\ c # CodeOf.x
  <1>0. CodeOf.x = 120
    BY DEF CodeOf
  <1>1. PICK d \in 0..15 : c = hexmap(d)
    BY DEF HexCodes
  <1>2. CASE d < 10
    <2>1. c = 48 + d
      BY <1>1, <1>2 DEF hexmap, CodeOf
    <2>2. value(c) = d
      BY <1>2, <2>1 DEF value, CodeOf
    <2>3. hexmap(value(c)) = c
      BY <1>1, <2>2, Zenon
    <2>4. c \in 48..102 /\ c # 0 /\ c # 120
      BY <1>2, <2>1
    <2>5. value(c) \in 0..15
      BY <2>2
    <2> QED BY <1>0, <2>3, <2>4, <2>5
  <1>3. CASE ~ (d < 10)
    <2>1. c = 87 + d
      BY <1>1, <1>3 DEF hexmap, CodeOf
    <2>2. value(c) = d
      BY <1>3, <2>1 DEF value, CodeOf
    <2>3. hexmap(value(c)) = c
      BY <1>1, <2>2, Zenon
    <2>4. c \in 48..102 /\ c # 0 /\ c # 120
      BY <1>3, <2>1
    <2>5. value(c) \in 0..15
      BY <2>2
    <2> QED BY <1>0, <2>3, <2>4, <2>5
  <1> QED BY <1>2, <1>3

LEMMA TwoDigits ==
    ASSUME NEW h \in 0..15, NEW l \in 0..15
    PROVE  /\ OrByte(h * 16, l) = h * 16 + l
           /\ (h * 16 + l) \div 16 = h /\ (h * 16 + l) % 16 = l
  <1> DEFINE a == h * 16
             Bit(w) == IF (a \div w) % 2 = 1 \/ (l \div w) % 2 = 1 THEN w ELSE 0
  <1>1. OrByte(a, l) = Bit(1) + Bit(2) + Bit(4) + Bit(8) + Bit(16) + Bit(32) + Bit(64) + Bit(128)
    BY DEF OrByte
  <1>2. /\ (a \div 1) % 2 = 0 /\ (a \div 2) % 2 = 0 /\ (a \div 4) % 2 = 0 /\ (a \div 8) % 2 = 0
        /\ a \div 16 = h /\ a \div 32 = h \div 2 /\ a \div 64 = h \div 4 /\ a \div 128 = h \div 8
    OBVIOUS
  <1>3. /\ l \div 16 = 0 /\ l \div 32 = 0 /\ l \div 64 = 0 /\ l \div 128 = 0
    OBVIOUS
  <1>4. Bit(1) + Bit(2) + Bit(4) + Bit(8) = l
    <2>1. /\ Bit(1) = IF (l \div 1) % 2 = 1 THEN 1 ELSE 0
          /\ Bit(2) = IF (l \div 2) % 2 = 1 THEN 2 ELSE 0
          /\ Bit(4) = IF (l \div 4) % 2 = 1 THEN 4 ELSE 0
          /\ Bit(8) = IF (l \div 8) % 2 = 1 THEN 8 ELSE 0
      BY <1>2
    <2> HIDE DEF Bit
    <2> QED BY <2>1
  <1>5. Bit(16) + Bit(32) + Bit(64) + Bit(128) = 16 * h
    <2>1. /\ Bit(16) = IF h % 2 = 1 THEN 16 ELSE 0
          /\ Bit(32) = IF (h \div 2) % 2 = 1 THEN 32 ELSE 0
          /\ Bit(64) = IF (h \div 4) % 2 = 1 THEN 64 ELSE 0
          /\ Bit(128) = IF (h \div 8) % 2 = 1 THEN 128 ELSE 0
      BY <1>2, <1>3
    <2> HIDE DEF Bit
    <2> QED BY <2>1
  <1>6. \A w \in Int : Bit(w) \in Int
    OBVIOUS
  <1> HIDE DEF Bit
  <1>7. OrByte(a, l) = h * 16 + l
    BY <1>1, <1>4, <1>5, <1>6
  <1> QED BY <1>7

(* Of the text's bytes the first n are written, the digits of the others   *)
(* are still there.                                                        *)
ByteOf(text, i) == value(text[2 * i - 1]) * 16 + value(text[2 * i])

Written(run, text, n) ==
    /\ run.ret = n
    /\ \A i \in 1..n : run.mem[i] = ByteOf(text, i)
    /\ \A j \in (n + 1)..Len(text) : run.mem[j] = text[j]

LEMMA RoundWrites ==
    ASSUME NEW text \in Seq(HexCodes), NEW size \in Nat, Len(text) <= size,
           NEW run \in States(size), NEW n \in Nat, Written(run, text, n),
           2 * (n + 1) <= Len(text)
    PROVE  Written(Round(run, n + 1, 1, Len(text), 0), text, n + 1)
  <1> DEFINE len == Len(text)
             it  == 2 * n + 1
             high == value(text[it])
             low  == value(text[it + 1])
             byte == OrByte(high * 16, low)
             after == Round(run, n + 1, 1, len, 0)
  <1>0. len \in Nat /\ it \in 1..len /\ it + 1 \in 1..len /\ it # len /\ 1 + 2 * ((n + 1) - 1) = it
    BY LenProperties
  <1>1. /\ run.ret = n
        /\ \A i \in 1..n : run.mem[i] = ByteOf(text, i)
        /\ \A j \in (n + 1)..len : run.mem[j] = text[j]
    BY DEF Written
  <1>2. after = Convert(run, it, len, 0)
    BY <1>0, <1>1 DEF Round
  <1>3. high \in 0..15 /\ low \in 0..15
    <2>1. text[it] \in HexCodes /\ text[it + 1] \in HexCodes
      BY <1>0, ElementOfSeq
    <2> QED BY <2>1, HexDigit
  <1>4. run.mem[it] = text[it] /\ run.mem[it + 1] = text[it + 1]
    <2>1. it \in (n + 1)..len /\ it + 1 \in (n + 1)..len
      BY <1>0
    <2> QED BY <1>1, <2>1
  <1>5. byte = high * 16 + low
    BY <1>3, TwoDigits
  <1> HIDE DEF after, len
  <1>6. after = Stored(run, 0, byte)
    <2> DEFINE single == FALSE
    <2>1. /\ single \in BOOLEAN /\ (single <=> (it = len))
          /\ high = value(run.mem[it]) /\ (single \/ low = value(run.mem[it + 1]))
      BY <1>0, <1>4
    <2> HIDE DEF single, high, low
    <2>2. RoundIs(after, run, 0, high, low, single)
      BY <1>2, <2>1, ConvertIs
    <2>3. ~ RoundRejects(high, low, single)
      BY <1>3 DEF RoundRejects
    <2>4. RoundByte(high, low, single) = byte
      BY DEF RoundByte, single
    <2> QED BY <2>2, <2>3, <2>4 DEF RoundIs
  <1> HIDE DEF high, low, byte
  <1>7. after.ret = n + 1 /\ after.mem = [run.mem EXCEPT ![n + 1] = byte]
    BY <1>1, <1>6 DEF Stored
  <1>8. run.mem \in [1..size -> Int] /\ n + 1 \in 1..size
    BY <1>0 DEF States, len
  <1>9. \A i \in 1..(n + 1) : after.mem[i] = ByteOf(text, i)
    <2> TAKE i \in 1..(n + 1)
    <2>1. CASE i = n + 1
      <3>1. after.mem[n + 1] = byte
        BY <1>7, <1>8
      <3>2. 2 * (n + 1) - 1 = it /\ 2 * (n + 1) = it + 1
        OBVIOUS
      <3>3. ByteOf(text, n + 1) = high * 16 + low
        BY <3>2 DEF ByteOf, high, low
      <3> QED BY <1>5, <2>1, <3>1, <3>3
    <2>2. CASE i # n + 1
      <3>1. i \in 1..n /\ i \in 1..size
        BY <1>8, <2>2
      <3> QED BY <1>1, <1>7, <1>8, <2>2, <3>1
    <2> QED BY <2>1, <2>2
  <1>10. \A j \in ((n + 1) + 1)..len : after.mem[j] = text[j]
    <2> TAKE j \in ((n + 1) + 1)..len
    <2>1. j \in (n + 1)..len /\ j \in 1..size /\ j # n + 1
      BY <1>0 DEF len
    <2> QED BY <1>1, <1>7, <1>8, <2>1
  <1>11. Written(after, text, n + 1)
    BY <1>7, <1>9, <1>10 DEF Written, len
  <1> QED BY <1>11 DEF after, len

LEMMA RoundsWrite ==
    ASSUME NEW text \in Seq(HexCodes), NEW size \in Nat, Len(text) <= size,
           NEW mem \in [1..size -> Int], \A j \in 1..Len(text) : mem[j] = text[j],
           NEW total \in Nat, 2 * total <= Len(text)
    PROVE  Written(Converted(mem, 1, Len(text), 0)[total], text, total)
  <1> DEFINE C == Converted(mem, 1, Len(text), 0)
             T == { n \in Nat : n <= total => Written(C[n], text, n) }
  <1>0. Len(text) \in Nat
    BY LenProperties
  <1>1. IsRounds(C, size, mem, 1, Len(text), 0)
    <2>1. 0 \in Int
      OBVIOUS
    <2> QED BY <2>1, ConvertedRounds
  <1> HIDE DEF C
  <1>2. 0 \in T
    <2>1. C[0].ret = 0 /\ C[0].mem = mem
      BY <1>1 DEF IsRounds
    <2>2. (\A i \in 1..0 : FALSE) /\ \A j \in (0 + 1)..Len(text) : j \in 1..Len(text)
      BY <1>0
    <2>3. Written(C[0], text, 0)
      BY <2>1, <2>2 DEF Written
    <2> QED BY <2>3
  <1>3. ASSUME NEW n \in Nat, n \in T
        PROVE  n + 1 \in T
    <2> SUFFICES ASSUME n + 1 <= total
                 PROVE  Written(C[n + 1], text, n + 1)
      OBVIOUS
    <2> DEFINE run == C[n]
    <2>1. C[n + 1] = Round(run, n + 1, 1, Len(text), 0) /\ run \in States(size)
      BY <1>1 DEF IsRounds
    <2>2. Written(run, text, n) /\ 2 * (n + 1) <= Len(text)
      BY <1>0, <1>3
    <2> HIDE DEF run
    <2>3. Written(Round(run, n + 1, 1, Len(text), 0), text, n + 1)
      BY <2>1, <2>2, RoundWrites
    <2> QED BY <2>1, <2>3
  <1>4. \A n \in Nat : n \in T
    <2> HIDE DEF T
    <2> QED BY <1>2, <1>3, UpFromZero
  <1> QED BY <1>4 DEF C

LEMMA LengthOf ==
    ASSUME NEW size \in Nat, NEW mem \in [1..size -> Int], NEW n \in Nat, n < size,
           mem[n + 1] = 0, \A j \in 1..n : mem[j] # 0
    PROVE  strlen(mem) = n
  <1> DEFINE Ends(i) == mem[i] = 0 /\ \A j \in 1..(i - 1) : mem[j] # 0
  <1>1. n + 1 \in 1..size /\ Ends(n + 1)
    OBVIOUS
  <1>2. \A i \in 1..size : Ends(i) => i = n + 1
    <2> TAKE i \in 1..size
    <2>1. i < n + 1 => mem[i] # 0
      OBVIOUS
    <2>2. i > n + 1 => n + 1 \in 1..(i - 1)
      OBVIOUS
    <2> QED BY <2>1, <2>2
  <1> DEFINE e == CHOOSE i \in 1..size : Ends(i)
  <1>3. e = n + 1
    <2> HIDE DEF Ends
    <2> QED BY <1>1, <1>2
  <1>4. strlen(mem) = (CHOOSE i \in DOMAIN mem : Ends(i)) - 1
    BY Zenon DEF strlen
  <1>5. DOMAIN mem = 1..size
    OBVIOUS
  <1> HIDE DEF Ends
  <1>6. strlen(mem) = e - 1
    BY <1>4, <1>5, Zenon
  <1> HIDE DEF e
  <1> QED BY <1>3, <1>6

(* What hex2str makes of a text's bytes is the text. *)
LEMMA TextReadable ==
    ASSUME NEW text \in Seq(HexCodes), NEW half \in Nat, Len(text) = 2 * half,
           NEW bytes, bytes \in Seq(Int), Len(bytes) = half,
           \A i \in 1..half : bytes[i] = ByteOf(text, i)
    PROVE  signer_hex2str(bytes, Len(text)).str = text
  <1> DEFINE n == Len(text)
             Digit(i) == IF i % 2 = 1 THEN hexmap(bytes[(i + 1) \div 2] \div 16)
                         ELSE hexmap(bytes[i \div 2] % 16)
  <1>1. signer_hex2str(bytes, n).str = [i \in 1..n |-> Digit(i)]
    <2>1. ~ (n < 2 * Len(bytes)) /\ 2 * Len(bytes) = n
      OBVIOUS
    <2> QED BY <2>1 DEF signer_hex2str
  <1>2. ASSUME NEW i \in 1..half
        PROVE  /\ hexmap(bytes[i] \div 16) = text[2 * i - 1]
               /\ hexmap(bytes[i] % 16) = text[2 * i]
    <2> DEFINE h == value(text[2 * i - 1])
               l == value(text[2 * i])
    <2>1. 2 * i - 1 \in 1..n /\ 2 * i \in 1..n
      OBVIOUS
    <2>2. text[2 * i - 1] \in HexCodes /\ text[2 * i] \in HexCodes
      BY <2>1, ElementOfSeq
    <2>3. /\ h \in 0..15 /\ hexmap(h) = text[2 * i - 1]
          /\ l \in 0..15 /\ hexmap(l) = text[2 * i]
      BY <2>2, HexDigit
    <2>4. bytes[i] = h * 16 + l
      BY DEF ByteOf
    <2> HIDE DEF h, l
    <2>5. (h * 16 + l) \div 16 = h /\ (h * 16 + l) % 16 = l
      BY <2>3, TwoDigits
    <2>6. bytes[i] \div 16 = h /\ bytes[i] % 16 = l
      BY <2>4, <2>5
    <2> QED BY <2>3, <2>6
  <1>3. ASSUME NEW i \in 1..n
        PROVE  Digit(i) = text[i]
    <2>1. CASE i % 2 = 1
      <3> DEFINE k == (i + 1) \div 2
      <3>1. k \in 1..half /\ i = 2 * k - 1
        BY <2>1
      <3>2. Digit(i) = hexmap(bytes[k] \div 16)
        BY <2>1
      <3> HIDE DEF k
      <3>3. hexmap(bytes[k] \div 16) = text[2 * k - 1]
        BY <1>2, <3>1
      <3> HIDE DEF Digit
      <3> QED BY <3>1, <3>2, <3>3
    <2>2. CASE i % 2 # 1
      <3> DEFINE k == i \div 2
      <3>1. k \in 1..half /\ i = 2 * k
        BY <2>2
      <3>2. Digit(i) = hexmap(bytes[k] % 16)
        BY <2>2
      <3> HIDE DEF k
      <3>3. hexmap(bytes[k] % 16) = text[2 * k]
        BY <1>2, <3>1
      <3> HIDE DEF Digit
      <3> QED BY <3>1, <3>2, <3>3
    <2> QED BY <2>1, <2>2
  <1> HIDE DEF Digit
  <1>4. text = [i \in 1..n |-> text[i]]
    BY LenProperties
  <1>5. [i \in 1..n |-> Digit(i)] = [i \in 1..n |-> text[i]]
    BY <1>3
  <1> QED BY <1>1, <1>4, <1>5

(* The structure a caller passes, with the reply's text in it.             *)
LEMMA MemoryIs ==
    ASSUME NEW data \in Seq(0..255), NEW n \in Nat, NEW text \in Seq(HexCodes),
           Len(text) < Len(data) \/ (Len(text) = Len(data) /\ n = 0)
    PROVE  LET mem == ContractBytes(Received(data, text), n)
           IN  /\ mem \in [1..(Len(data) + 3) -> Int] /\ Len(data) \in Nat
               /\ \A j \in 1..Len(text) : mem[j] = text[j]
               /\ mem[Len(text) + 1] = 0 /\ Len(text) \in Nat
  <1> DEFINE room == Len(data)
             len  == Len(text)
             d    == Received(data, text)
             s    == <<n % 256, n \div 256, 0>>
             mem  == ContractBytes(d, n)
  <1>1. room \in Nat /\ DOMAIN data = 1..room /\ len \in Nat /\ len <= room
    BY LenProperties
  <1>2. \A j \in 1..len : text[j] \in Int
    <2> TAKE j \in 1..len
    <2> DEFINE c == text[j]
    <2>1. c \in HexCodes
      BY ElementOfSeq
    <2> HIDE DEF c
    <2>2. c \in 48..102
      BY <2>1, HexDigit
    <2>3. c \in Int
      BY <2>2
    <2> QED BY <2>3 DEF c
  <1>3. d = [i \in 1..room |-> IF i <= len THEN text[i] ELSE 0]
    BY <1>1 DEF Received
  <1> HIDE DEF room, len
  <1>4. d \in Seq(Int) /\ Len(d) = room
    <2>1. \A i \in 1..room : (IF i <= len THEN text[i] ELSE 0) \in Int
      BY <1>1, <1>2
    <2> QED BY <1>1, <1>3, <2>1
  <1>5. /\ \A j \in 1..len : d[j] = text[j]
        /\ \A j \in (len + 1)..room : d[j] = 0
    BY <1>1, <1>3
  <1>6. s \in Seq(Int) /\ Len(s) = 3 /\ (n = 0 => s[1] = 0)
    <2>1. n % 256 \in Int /\ n \div 256 \in Int /\ 0 \in Int /\ (n = 0 => n % 256 = 0)
      OBVIOUS
    <2> QED BY <2>1
  <1> HIDE DEF d, s
  <1>7. mem = d \o s
    BY DEF ContractBytes, s
  <1>8. /\ mem \in Seq(Int) /\ Len(mem) = room + 3
        /\ \A i \in 1..room : mem[i] = d[i]
        /\ \A i \in 1..3 : mem[room + i] = s[i]
    <2>1. Joins(d \o s, Int, d, room, s, 3)
      BY <1>1, <1>4, <1>6, Joined
    <2> QED BY <1>7, <2>1 DEF Joins
  <1> HIDE DEF mem
  <1>9. mem \in [1..(room + 3) -> Int]
    BY <1>8, LenProperties
  <1>10. \A j \in 1..len : mem[j] = text[j]
    BY <1>1, <1>5, <1>8
  <1>11. mem[len + 1] = 0
    <2>1. CASE len < room
      <3>1. len + 1 \in 1..room /\ len + 1 \in (len + 1)..room
        BY <1>1, <2>1
      <3> QED BY <1>5, <1>8, <3>1
    <2>2. CASE len = room /\ n = 0
      <3>1. 1 \in 1..3
        OBVIOUS
      <3> QED BY <1>6, <1>8, <2>2, <3>1
    <2> QED BY <2>1, <2>2 DEF len, room
  <1> QED BY <1>1, <1>9, <1>10, <1>11 DEF mem, len, room, d

BytesKept(result, text) ==
    /\ result.ret = 0
    /\ signer_hex2str(SubSeq(result.data, 1, result.size), Len(text)).str = text

LEMMA ContractRead ==
    ASSUME NEW data \in Seq(0..255), NEW n \in Nat, NEW text \in Seq(HexCodes),
           Len(text) % 2 = 0,
           Len(text) < Len(data) \/ (Len(text) = Len(data) /\ n = 0)
    PROVE  BytesKept(read_contract([data |-> data, size |-> n], text), text)
  <1> DEFINE contract == [data |-> data, size |-> n]
             mem  == ContractBytes(Received(data, text), n)
             len  == Len(text)
             half == len \div 2
             size == Len(data) + 3
             run  == Converted(mem, 1, len, 0)[half]
             r    == read_contract(contract, text)
  <1>1. /\ mem \in [1..size -> Int] /\ Len(data) \in Nat /\ len \in Nat
        /\ \A j \in 1..len : mem[j] = text[j]
        /\ mem[len + 1] = 0
    BY MemoryIs
  <1>2. size \in Nat /\ len < size /\ half \in Nat /\ len = 2 * half /\ len <= size
    BY <1>1
  <1>3. \A j \in 1..len : text[j] \in HexCodes /\ mem[j] # 0 /\ text[j] # CodeOf.x
    <2> TAKE j \in 1..len
    <2>1. text[j] \in HexCodes
      BY ElementOfSeq
    <2> HIDE DEF mem
    <2> QED BY <1>1, <2>1, HexDigit
  <1>4. r = LET out1 == signer_str2hex(mem, strlen(mem), 0, strlen(mem) \div 2)
            IN  IF out1.ret < 0 THEN [ret |-> out1.ret, size |-> n, data |-> out1.mem]
                ELSE [ret |-> 0, size |-> strlen(mem) \div 2, data |-> out1.mem]
    BY DEF read_contract
  <1> HIDE DEF mem, r
  <1>5. strlen(mem) = len
    <2> HIDE DEF size, len, half
    <2> QED BY <1>1, <1>2, <1>3, LengthOf
  <1>6. signer_str2hex(mem, len, 0, half) = run
    <2>1. StrRoom(half, len)
      <3> HIDE DEF size, len, half
      <3>1. half \in Nat /\ len = 2 * half
        BY <1>2
      <3>2. half >= (len + 1) \div 2
        BY ONLY <3>1
      <3> QED BY <3>2, Zenon DEF StrRoom
    <2>2. ~ Prefixed(mem, len)
      <3>1. len >= 2 => mem[2] # CodeOf.x
        BY <1>1, <1>3
      <3> QED BY <3>1 DEF Prefixed
    <2>3. (len - 1 + 2) \div 2 = half
      <3> HIDE DEF size, len, half
      <3>1. half \in Nat /\ len = 2 * half
        BY <1>2
      <3> QED BY ONLY <3>1
    <2> HIDE DEF len, half
    <2>4. signer_str2hex(mem, len, 0, half) = ConvertAll(mem, len, 0)
      BY <2>1, Zenon DEF signer_str2hex
    <2>5. ConvertAll(mem, len, 0) = Converted(mem, 1, len, 0)[(len - 1 + 2) \div 2]
      BY <2>2, Zenon DEF ConvertAll
    <2> QED BY <2>3, <2>4, <2>5, Zenon
  <1>7. Written(run, text, half)
    <2>1. 2 * half <= Len(text) /\ Len(text) <= size /\ \A j \in 1..Len(text) : mem[j] = text[j]
      BY <1>1, <1>2
    <2> HIDE DEF size, half
    <2> QED BY <1>1, <1>2, <2>1, RoundsWrite
  <1>8. run \in States(size)
    <2>1. IsRounds(Converted(mem, 1, len, 0), size, mem, 1, len, 0)
      <3>1. 0 \in Int
        OBVIOUS
      <3> HIDE DEF size, len
      <3> QED BY <1>1, <1>2, <3>1, ConvertedRounds
    <2> HIDE DEF half
    <2> QED BY <1>2, <2>1 DEF IsRounds
  <1> HIDE DEF run
  <1>9. r.ret = 0 /\ r.size = half /\ r.data = run.mem
    <2>1. ~ (run.ret < 0)
      BY <1>2, <1>7 DEF Written
    <2> HIDE DEF half, len
    <2> QED BY <1>4, <1>5, <1>6, <2>1 DEF half
  <1> DEFINE bytes == SubSeq(run.mem, 1, half)
  <1>10. /\ bytes \in Seq(Int) /\ Len(bytes) = half
         /\ \A i \in 1..half : bytes[i] = run.mem[i]
    <2>1. run.mem \in Seq(Int) /\ Len(run.mem) = size /\ half <= size
      BY <1>2, <1>8, SMTT(30) DEF States
    <2> HIDE DEF half, size
    <2> QED BY <1>2, <2>1, SubSeqProperties
  <1> HIDE DEF bytes
  <1>11. \A i \in 1..half : bytes[i] = ByteOf(text, i)
    BY <1>7, <1>10 DEF Written
  <1>12. signer_hex2str(bytes, Len(text)).str = text
    <2> HIDE DEF half
    <2> QED BY <1>2, <1>10, <1>11, TextReadable
  <1>13. BytesKept(r, text)
    BY <1>9, <1>12 DEF BytesKept, bytes
  <1> QED BY <1>13 DEF r

ContractAnswered ==
    op = "read_contract" => \E text \in HexTexts, contract \in Contracts :
        args = <<text, contract>> /\ out = read_contract(contract, text)

(* The contract data a caller gets is the server's, for every text of pairs*)
(* of digits the buffer has room for, and whatever an earlier reply has    *)
(* left in it (iotex_emb.c:165-177, signer.c:53-99).                       *)
THEOREM ContractDataWhole == Spec => []ContractBytesWhole
  <1>1. Init => ContractAnswered
    BY DEF Init, ContractAnswered
  <1>2. ContractAnswered /\ [Next]_vars => ContractAnswered'
    <2> SUFFICES ASSUME ContractAnswered, [Next]_vars
                 PROVE  ContractAnswered'
      OBVIOUS
    <2>1. CASE CallReadContract
      BY <2>1 DEF CallReadContract, Call, ContractAnswered
    <2>2. CASE UNCHANGED vars
      BY <2>2 DEF vars, ContractAnswered
    <2>3. CASE op' # "read_contract"
      BY <2>3 DEF ContractAnswered
    <2>4. Next => CallReadContract \/ op' # "read_contract"
      BY DEF Next, Call, CallRau2Iotx, CallU128, CallCompare, CallHex2Str, CallStr2Hex,
             CallPublish, CallGetOrder, CallGetReply, Return
    <2> QED BY <2>1, <2>2, <2>3, <2>4
  <1>3. ContractAnswered => ContractBytesWhole
    <2> SUFFICES ASSUME ContractAnswered, op = "read_contract", IsHexText(args[1]),
                        Len(args[1]) % 2 = 0,
                        \/ Len(args[1]) < Len(args[2].data)
                        \/ Len(args[1]) = Len(args[2].data) /\ args[2].size = 0
                 PROVE  BytesKept(out, args[1])
      BY DEF ContractBytesWhole, BytesKept
    <2>1. PICK text \in HexTexts, contract \in Contracts :
              args = <<text, contract>> /\ out = read_contract(contract, text)
      BY DEF ContractAnswered
    <2>2. text \in Seq(1..255) /\ contract.data \in Seq(0..255) /\ contract.size \in Nat
      BY TextsAssumption
    <2>3. text \in Seq(HexCodes)
      <3>1. \A i \in 1..Len(text) : text[i] \in HexCodes
        BY <2>1 DEF IsHexText, HexCodes
      <3> QED BY <2>2, <3>1
    <2>4. read_contract(contract, text)
            = read_contract([data |-> contract.data, size |-> contract.size], text)
      BY DEF read_contract
    <2>5. BytesKept(read_contract([data |-> contract.data, size |-> contract.size], text), text)
      <3> DEFINE data == contract.data
                 n == contract.size
      <3>1. /\ data \in Seq(0..255) /\ n \in Nat /\ Len(text) % 2 = 0
            /\ Len(text) < Len(data) \/ (Len(text) = Len(data) /\ n = 0)
        BY <2>1, <2>2
      <3> HIDE DEF data, n
      <3>2. BytesKept(read_contract([data |-> data, size |-> n], text), text)
        BY <2>3, <3>1, ContractRead
      <3> QED BY <3>2 DEF data, n
    <2> QED BY <2>1, <2>4, <2>5
  <1> QED BY <1>1, <1>2, <1>3, PTL DEF Spec

-----------------------------------------------------------------------------
(* Decimal texts: the number after each of their digits.                   *)
Counts(count, str) ==
    /\ count \in [0..Len(str) -> Nat]
    /\ count[0] = 0
    /\ \A n \in 1..Len(str) : count[n] = count[n - 1] * 10 + str[n]

LEMMA DecimalCounts ==
    ASSUME NEW str \in Seq(0..9)
    PROVE  Counts(Decimal(str), str)
  <1> DEFINE k == Len(str)
             next == [n \in 1..k |-> [x \in Nat |-> x * 10 + str[n]]]
             Body(f, n) == IF n = 0 THEN 0 ELSE f[n - 1] * 10 + str[n]
             count == Decimal(str)
  <1>1. k \in Nat /\ \A n \in 1..k : str[n] \in Nat
    OBVIOUS
  <1>2. next \in [1..k -> [Nat -> Nat]]
    <2> HIDE DEF k
    <2> QED BY <1>1
  <1>3. HasLoop(Nat, k, 0, next)
    <2> HIDE DEF k, next
    <2> QED BY <1>1, <1>2, LoopExists
  <1>4. PICK f \in [0..k -> Nat] : IsLoop(f, k, 0, next)
    BY <1>3 DEF HasLoop
  <1>5. f = [n \in 0..k |-> Body(f, n)]
    <2> HIDE DEF k
    <2>1. f = [n \in 0..k |-> IF n = 0 THEN 0 ELSE next[n][f[n - 1]]]
      BY <1>4 DEF IsLoop
    <2>2. ASSUME NEW n \in 0..k
          PROVE  (IF n = 0 THEN 0 ELSE next[n][f[n - 1]]) = Body(f, n)
      <3>1. n # 0 => n \in 1..k /\ n - 1 \in 0..k
        BY <1>1
      <3>2. n # 0 => f[n - 1] \in Nat
        BY <3>1
      <3> QED BY <3>1, <3>2
    <2> HIDE DEF Body, next
    <2> QED BY <2>1, <2>2, Zenon
  <1>6. count = CHOOSE u : u = [n \in 0..k |-> Body(u, n)]
    BY DEF Decimal
  <1>7. count = [n \in 0..k |-> Body(count, n)]
    <2> HIDE DEF Body, count, k
    <2> QED BY <1>5, <1>6, Zenon
  <1> HIDE DEF count
  <1>8. \A n \in 0..k : count[n] = Body(count, n)
    BY <1>7
  <1> DEFINE T == { n \in Nat : n <= k => count[n] \in Nat }
  <1>9. 0 \in T
    BY <1>1, <1>8
  <1>10. ASSUME NEW n \in Nat, n \in T
         PROVE  n + 1 \in T
    <2> SUFFICES ASSUME n + 1 <= k
                 PROVE  count[n + 1] \in Nat
      OBVIOUS
    <2> HIDE DEF k
    <2>1. n + 1 \in 0..k /\ n + 1 # 0 /\ (n + 1) - 1 = n /\ n + 1 \in 1..k /\ count[n] \in Nat
      BY <1>1, <1>10
    <2>2. count[n + 1] = count[n] * 10 + str[n + 1]
      BY <1>8, <2>1
    <2> QED BY <1>1, <2>1, <2>2, SMTT(30)
  <1>11. \A n \in Nat : n \in T
    <2> HIDE DEF T
    <2> QED BY <1>9, <1>10, UpFromZero
  <1>12. count \in [0..k -> Nat]
    <2>1. \A n \in 0..k : count[n] \in Nat
      BY <1>11
    <2> HIDE DEF T, Body, k
    <2> QED BY <1>7, <2>1
  <1>13. \A n \in 1..k : count[n] = count[n - 1] * 10 + str[n]
    BY <1>8
  <1>14. count[0] = 0
    BY <1>1, <1>8
  <1> QED BY <1>12, <1>13, <1>14 DEF Counts, count

(* str2u128 counts with numbers below Modulus.                             *)
CountsBelow(count, str) ==
    /\ count \in [0..Len(str) -> Nat]
    /\ count[0] = 0
    /\ \A n \in 1..Len(str) : count[n] = (count[n - 1] * 10 + str[n]) % Modulus

LEMMA WrappedCounts ==
    ASSUME NEW str \in Seq(0..9)
    PROVE  \E count : CountsBelow(count, str) /\ str2u128(str) = count[Len(str)]
  <1> DEFINE k == Len(str)
             next == [n \in 1..k |-> [x \in Nat |-> (x * 10 + str[n]) % Modulus]]
             Body(f, n) == IF n = 0 THEN 0 ELSE (f[n - 1] * 10 + str[n]) % Modulus
             count == CHOOSE u : u = [n \in 0..k |-> Body(u, n)]
  <1>1. k \in Nat /\ \A n \in 1..k : str[n] \in Nat
    OBVIOUS
  <1>2. \A x \in Nat, n \in 1..k : (x * 10 + str[n]) % Modulus \in Nat
    <2> TAKE x \in Nat, n \in 1..k
    <2>1. x * 10 + str[n] \in Nat /\ Modulus \in Nat \ {0}
      BY <1>1, AmountsAssumption
    <2> QED BY <2>1
  <1>3. next \in [1..k -> [Nat -> Nat]]
    <2> HIDE DEF k
    <2> QED BY <1>2
  <1>4. HasLoop(Nat, k, 0, next)
    <2> HIDE DEF k, next
    <2> QED BY <1>1, <1>3, LoopExists
  <1>5. PICK f \in [0..k -> Nat] : IsLoop(f, k, 0, next)
    BY <1>4 DEF HasLoop
  <1>6. f = [n \in 0..k |-> Body(f, n)]
    <2> HIDE DEF k
    <2>1. f = [n \in 0..k |-> IF n = 0 THEN 0 ELSE next[n][f[n - 1]]]
      BY <1>5 DEF IsLoop
    <2>2. ASSUME NEW n \in 0..k
          PROVE  (IF n = 0 THEN 0 ELSE next[n][f[n - 1]]) = Body(f, n)
      <3>1. n # 0 => n \in 1..k /\ n - 1 \in 0..k
        BY <1>1
      <3>2. n # 0 => f[n - 1] \in Nat
        BY <3>1
      <3> QED BY <3>1, <3>2
    <2> HIDE DEF Body, next
    <2> QED BY <2>1, <2>2, Zenon
  <1>7. IsDigits(str)
    BY DEF IsDigits
  <1>8. str2u128(str) = count[k]
    BY <1>7 DEF str2u128
  <1>9. count = [n \in 0..k |-> Body(count, n)]
    <2> HIDE DEF Body, k
    <2> QED BY <1>6, Zenon
  <1> HIDE DEF count
  <1>10. \A n \in 0..k : count[n] = Body(count, n)
    BY <1>9
  <1> DEFINE T == { n \in Nat : n <= k => count[n] \in Nat }
  <1>11. 0 \in T
    BY <1>1, <1>10
  <1>12. ASSUME NEW n \in Nat, n \in T
         PROVE  n + 1 \in T
    <2> SUFFICES ASSUME n + 1 <= k
                 PROVE  count[n + 1] \in Nat
      OBVIOUS
    <2> HIDE DEF k
    <2>1. n + 1 \in 0..k /\ n + 1 # 0 /\ (n + 1) - 1 = n /\ n + 1 \in 1..k /\ count[n] \in Nat
      BY <1>1, <1>12
    <2>2. count[n + 1] = (count[n] * 10 + str[n + 1]) % Modulus
      BY <1>10, <2>1
    <2> QED BY <1>2, <2>1, <2>2
  <1>13. \A n \in Nat : n \in T
    <2> HIDE DEF T
    <2> QED BY <1>11, <1>12, UpFromZero
  <1>14. count \in [0..k -> Nat]
    <2>1. \A n \in 0..k : count[n] \in Nat
      BY <1>13
    <2> HIDE DEF T, Body, k
    <2> QED BY <1>9, <2>1
  <1>15. \A n \in 1..k : count[n] = (count[n - 1] * 10 + str[n]) % Modulus
    BY <1>10
  <1>16. count[0] = 0
    BY <1>1, <1>10
  <1>17. CountsBelow(count, str)
    BY <1>14, <1>15, <1>16 DEF CountsBelow
  <1> HIDE DEF k
  <1> QED BY <1>8, <1>17 DEF k

(* What a number of n digits is goes up with every digit more.             *)
LEMMA CountGrows ==
    ASSUME NEW str \in Seq(0..9), NEW count, Counts(count, str),
           NEW m \in 0..Len(str), NEW n \in m..Len(str)
    PROVE  count[m] <= count[n]
  <1> DEFINE T == { j \in Nat : m + j <= Len(str) => count[m] <= count[m + j] }
  <1>1. Len(str) \in Nat /\ count \in [0..Len(str) -> Nat]
    BY DEF Counts
  <1>2. 0 \in T
    BY <1>1
  <1>3. ASSUME NEW j \in Nat, j \in T
        PROVE  j + 1 \in T
    <2> SUFFICES ASSUME m + (j + 1) <= Len(str)
                 PROVE  count[m] <= count[m + (j + 1)]
      OBVIOUS
    <2>1. /\ m + (j + 1) \in 1..Len(str) /\ (m + (j + 1)) - 1 = m + j /\ m + j \in 0..Len(str)
          /\ m + (j + 1) \in 0..Len(str)
      BY <1>1
    <2>2. count[m + (j + 1)] = count[m + j] * 10 + str[m + (j + 1)]
      BY <2>1 DEF Counts
    <2>3. count[m] \in Nat /\ count[m + j] \in Nat /\ str[m + (j + 1)] \in Nat
      <3>1. m \in 0..Len(str)
        OBVIOUS
      <3>2. count[m] \in Nat /\ count[m + j] \in Nat
        BY <1>1, <2>1, <3>1
      <3>3. str[m + (j + 1)] \in 0..9
        BY <2>1, ElementOfSeq
      <3> QED BY <3>2, <3>3
    <2>4. count[m] <= count[m + j]
      BY <1>3, <2>1
    <2> QED BY <2>2, <2>3, <2>4
  <1>4. \A j \in Nat : j \in T
    <2> HIDE DEF T
    <2> QED BY <1>2, <1>3, UpFromZero
  <1>5. n - m \in Nat /\ m + (n - m) = n
    BY <1>1
  <1> QED BY <1>4, <1>5

(* A number below Modulus never wraps on the way.                          *)
LEMMA NeverWraps ==
    ASSUME NEW str \in Seq(0..9), PlainValue(str) < Modulus
    PROVE  str2u128(str) = PlainValue(str)
  <1> DEFINE count == Decimal(str)
  <1>1. Counts(count, str)
    BY DecimalCounts
  <1>2. PICK wrapped : CountsBelow(wrapped, str) /\ str2u128(str) = wrapped[Len(str)]
    BY WrappedCounts
  <1>3. count[Len(str)] = PlainValue(str)
    BY DEF PlainValue
  <1> HIDE DEF count
  <1>4. Len(str) \in Nat /\ Modulus \in Nat \ {0}
    BY AmountsAssumption
  <1> DEFINE T == { n \in Nat : n <= Len(str) => wrapped[n] = count[n] }
  <1>5. 0 \in T
    BY <1>1, <1>2 DEF Counts, CountsBelow
  <1>6. ASSUME NEW n \in Nat, n \in T
        PROVE  n + 1 \in T
    <2> SUFFICES ASSUME n + 1 <= Len(str)
                 PROVE  wrapped[n + 1] = count[n + 1]
      OBVIOUS
    <2>1. n + 1 \in 1..Len(str) /\ (n + 1) - 1 = n /\ n + 1 \in 0..Len(str) /\ wrapped[n] = count[n]
      BY <1>4, <1>6
    <2>2. wrapped[n + 1] = (count[n] * 10 + str[n + 1]) % Modulus
      BY <1>2, <2>1 DEF CountsBelow
    <2>3. count[n + 1] = count[n] * 10 + str[n + 1]
      BY <1>1, <2>1 DEF Counts
    <2>4. count[n + 1] \in Nat /\ count[Len(str)] \in Nat
      BY <1>1, <1>4, <2>1 DEF Counts
    <2>5. count[n + 1] <= count[Len(str)]
      <3>1. Len(str) \in (n + 1)..Len(str)
        BY <1>4, <2>1
      <3> QED BY <1>1, <2>1, <3>1, CountGrows
    <2>6. count[n + 1] \in 0..(Modulus - 1)
      BY <1>3, <1>4, <2>4, <2>5
    <2>7. \A x \in 0..(Modulus - 1) : x % Modulus = x
      BY <1>4
    <2> QED BY <2>2, <2>3, <2>6, <2>7
  <1>7. \A n \in Nat : n \in T
    <2> HIDE DEF T
    <2> QED BY <1>5, <1>6, UpFromZero
  <1> QED BY <1>2, <1>3, <1>4, <1>7

(* Numeral is the function its recursion describes.                        *)
NumeralOf(f, n) == IF n < 10 THEN <<n>> ELSE Append(f[n \div 10], n % 10)

LEMMA NumeralCases ==
    ASSUME NEW f, NEW n \in Nat
    PROVE  /\ n < 10 => NumeralOf(f, n) = <<n>>
           /\ n >= 10 => NumeralOf(f, n) = Append(f[n \div 10], n % 10)
  <1>1. n < 10 => NumeralOf(f, n) = <<n>>
    BY Zenon DEF NumeralOf
  <1>2. ~ (n < 10) => NumeralOf(f, n) = Append(f[n \div 10], n % 10)
    BY Zenon DEF NumeralOf
  <1>3. n >= 10 => ~ (n < 10)
    OBVIOUS
  <1> QED BY <1>1, <1>2, <1>3, Zenon

LEMMA NumeralTyped ==
    ASSUME NEW f \in [Nat -> Seq(Nat)], NEW n \in Nat
    PROVE  NumeralOf(f, n) \in Seq(Nat)
  <1>1. n \div 10 \in Nat /\ n % 10 \in Nat
    OBVIOUS
  <1>2. <<n>> \in Seq(Nat) /\ Append(f[n \div 10], n % 10) \in Seq(Nat)
    BY <1>1
  <1> QED BY <1>2 DEF NumeralOf

LEMMA NumeralIs ==
    Numeral \in [Nat -> Seq(Nat)] /\ \A n \in Nat : Numeral[n] = NumeralOf(Numeral, n)
  <1> DEFINE S == Seq(Nat)
             mu == [n \in Nat |-> n]
             step == [f \in [Nat -> S] |-> [n \in Nat |-> NumeralOf(f, n)]]
  <1>1. step \in [[Nat -> S] -> [Nat -> S]]
    BY NumeralTyped
  <1>2. ASSUME NEW f \in [Nat -> S], NEW g \in [Nat -> S], NEW n \in Nat, Below(Nat, mu, f, g, n)
        PROVE  step[f][n] = step[g][n]
    <2>1. n >= 10 => n \div 10 \in Nat /\ n \div 10 < n
      OBVIOUS
    <2>2. n >= 10 => f[n \div 10] = g[n \div 10]
      BY <1>2, <2>1 DEF Below
    <2>3. NumeralOf(f, n) = NumeralOf(g, n)
      BY <2>2 DEF NumeralOf
    <2> QED BY <2>3
  <1>3. Contracting(Nat, S, mu, step)
    <2> HIDE DEF step, mu, S
    <2> QED BY <1>1, <1>2 DEF Contracting
  <1>4. mu \in [Nat -> Nat] /\ S # {}
    <2>1. <<>> \in S
      OBVIOUS
    <2> QED BY <2>1
  <1>5. HasFixedPoint(Nat, S, step)
    <2> HIDE DEF step, mu, S
    <2> QED BY <1>3, <1>4, FixedPoint
  <1>6. PICK f \in [Nat -> S] : step[f] = f
    BY <1>5 DEF HasFixedPoint
  <1>7. f = [n \in Nat |-> NumeralOf(f, n)]
    BY <1>6
  <1>8. Numeral = CHOOSE g : g = [n \in Nat |-> NumeralOf(g, n)]
    BY DEF Numeral, NumeralOf
  <1>9. Numeral = [n \in Nat |-> NumeralOf(Numeral, n)]
    BY <1>7, <1>8, Zenon
  <1>10. \A n \in Nat : Numeral[n] = NumeralOf(Numeral, n)
    BY <1>9
  <1> DEFINE T == { n \in Nat : \A m \in Nat : m <= n => Numeral[m] \in S }
  <1>11. ASSUME NEW n \in Nat, \A m \in Nat : m < n => Numeral[m] \in S
         PROVE  Numeral[n] \in S
    <2>1. n < 10 => Numeral[n] = <<n>>
      BY <1>10, NumeralCases, Zenon
    <2>2. ASSUME n >= 10
          PROVE  Numeral[n] \in S
      <3>1. n \div 10 \in Nat /\ n \div 10 < n /\ n % 10 \in Nat
        BY <2>2
      <3> DEFINE front == Numeral[n \div 10]
                 last == n % 10
      <3>2. Numeral[n] = Append(front, last)
        BY <1>10, <2>2, NumeralCases, Zenon
      <3>3. front \in Seq(Nat) /\ last \in Nat
        BY <1>11, <3>1
      <3> HIDE DEF front, last
      <3>4. Append(front, last) \in Seq(Nat)
        BY <3>3
      <3> QED BY <3>2, <3>4
    <2>3. <<n>> \in Seq(Nat)
      OBVIOUS
    <2>4. n < 10 \/ n >= 10
      OBVIOUS
    <2> QED BY <2>1, <2>2, <2>3, <2>4, Zenon
  <1>12. 0 \in T
    BY <1>11
  <1>13. ASSUME NEW n \in Nat, n \in T
         PROVE  n + 1 \in T
    <2>1. \A m \in Nat : m < n + 1 => Numeral[m] \in S
      BY <1>13
    <2>2. Numeral[n + 1] \in S
      <3> HIDE DEF S
      <3> QED BY <1>11, <2>1
    <2>3. \A m \in Nat : m <= n + 1 => Numeral[m] \in S
      BY <2>1, <2>2
    <2> QED BY <2>3
  <1>14. \A n \in Nat : n \in T
    <2> HIDE DEF T
    <2> QED BY <1>12, <1>13, UpFromZero
  <1>15. \A n \in Nat : Numeral[n] \in S
    <2> HIDE DEF S
    <2> QED BY <1>14
  <1> HIDE DEF S
  <1> QED BY <1>9, <1>10, <1>15 DEF S

(* A number of more digits is no shorter.                                  *)
LEMMA NumeralGrows ==
    \A n \in Nat : \A m \in 0..n : Len(Numeral[m]) <= Len(Numeral[n])
  <1> DEFINE Grows(n) == \A m \in 0..n : Len(Numeral[m]) <= Len(Numeral[n])
             T == { n \in Nat : \A k \in 0..n : Grows(k) }
  <1>1. \A n \in Nat : /\ n < 10 => Len(Numeral[n]) = 1
                       /\ n >= 10 => Len(Numeral[n]) = Len(Numeral[n \div 10]) + 1
                       /\ Len(Numeral[n]) \in Nat
    <2> TAKE n \in Nat
    <2> DEFINE front == Numeral[n \div 10]
               last == n % 10
               whole == Numeral[n]
    <2>1. n < 10 => whole = <<n>>
      BY NumeralIs, NumeralCases, Zenon
    <2>2. n >= 10 => whole = Append(front, last)
      BY NumeralIs, NumeralCases, Zenon
    <2>3. front \in Seq(Nat) /\ whole \in Seq(Nat) /\ last \in Nat
      <3>1. n \div 10 \in Nat /\ last \in Nat
        OBVIOUS
      <3> QED BY <3>1, NumeralIs
    <2>4. n < 10 => Len(whole) = 1
      BY <2>1
    <2> HIDE DEF front, whole, last
    <2>5. n >= 10 => Len(whole) = Len(front) + 1
      BY <2>2, <2>3
    <2> QED BY <2>3, <2>4, <2>5 DEF front, whole
  <1>2. \A n \in Nat : Len(Numeral[n]) >= 1
    <2> TAKE n \in Nat
    <2>1. n \div 10 \in Nat
      OBVIOUS
    <2> QED BY <1>1, <2>1
  <1>3. ASSUME NEW n \in Nat, \A k \in Nat : k < n => Grows(k)
        PROVE  Grows(n)
    <2> SUFFICES ASSUME NEW m \in 0..n
                 PROVE  Len(Numeral[m]) <= Len(Numeral[n])
      OBVIOUS
    <2>1. CASE m < 10
      <3>1. m \in Nat /\ Len(Numeral[n]) \in Nat
        BY <1>1
      <3>2. Len(Numeral[m]) = 1 /\ Len(Numeral[n]) >= 1
        BY <1>1, <1>2, <2>1, <3>1
      <3> QED BY <3>1, <3>2
    <2>2. CASE m >= 10
      <3> DEFINE mq == m \div 10
                 nq == n \div 10
      <3>1. mq \in 0..nq /\ nq < n /\ nq \in Nat /\ n >= 10 /\ m \in Nat /\ mq \in Nat
        BY <2>2
      <3>2. Len(Numeral[m]) = Len(Numeral[mq]) + 1 /\ Len(Numeral[n]) = Len(Numeral[nq]) + 1
        BY <1>1, <2>2, <3>1
      <3> HIDE DEF mq, nq
      <3>3. Len(Numeral[mq]) <= Len(Numeral[nq])
        BY <1>3, <3>1
      <3>4. Len(Numeral[mq]) \in Nat /\ Len(Numeral[nq]) \in Nat
        BY <1>1, <3>1
      <3> QED BY <3>2, <3>3, <3>4
    <2> QED BY <2>1, <2>2
  <1> HIDE DEF Grows
  <1>4. 0 \in T
    BY <1>3
  <1>5. ASSUME NEW n \in Nat, n \in T
        PROVE  n + 1 \in T
    <2>1. \A k \in Nat : k < n + 1 => Grows(k)
      BY <1>5
    <2>2. Grows(n + 1)
      BY <1>3, <2>1
    <2>3. \A k \in 0..(n + 1) : Grows(k)
      BY <2>1, <2>2
    <2> QED BY <2>3
  <1>6. \A n \in Nat : n \in T
    <2> HIDE DEF T
    <2> QED BY <1>4, <1>5, UpFromZero
  <1>7. \A n \in Nat : Grows(n)
    BY <1>6
  <1> QED BY <1>7 DEF Grows

(* A canonical text is the numeral of the number it is.                    *)
LEMMA LongStartsAboveZero ==
    ASSUME NEW str \in Seq(0..9), Canonical(str), NEW count, Counts(count, str),
           Len(str) > 1, NEW n \in 1..Len(str)
    PROVE  count[n] >= 1
  <1>1. Len(str) \in Nat /\ 1 \in 1..Len(str) /\ str[1] \in 0..9 /\ count \in [0..Len(str) -> Nat]
    BY DEF Counts
  <1>2. str[1] # 0
    <2>1. str[1] = 0 => Len(str) = 1
      BY Zenon DEF Canonical
    <2>2. Len(str) # 1
      BY <1>1
    <2> QED BY <2>1, <2>2, Zenon
  <1>3. count[1] = count[0] * 10 + str[1] /\ count[0] = 0
    <2>1. 1 - 1 = 0
      OBVIOUS
    <2> QED BY <1>1, <2>1 DEF Counts
  <1>4. count[1] <= count[n]
    <2>1. 1 \in 0..Len(str) /\ n \in 1..Len(str)
      BY <1>1
    <2> QED BY <2>1, CountGrows
  <1>5. n \in 0..Len(str)
    BY <1>1
  <1> QED BY <1>1, <1>2, <1>3, <1>4, <1>5

(* An Append whose digits are known.                                       *)
LEMMA NextDigit ==
    ASSUME NEW str \in Seq(0..9), NEW n \in Nat, n + 1 <= Len(str)
    PROVE  Append(SubSeq(str, 1, n), str[n + 1]) = SubSeq(str, 1, n + 1)
  <1>1. Len(str) \in Nat /\ n + 1 \in 1..Len(str)
    OBVIOUS
  <1> DEFINE front == SubSeq(str, 1, n)
             whole == SubSeq(str, 1, n + 1)
  <1>2. front \in Seq(0..9) /\ Len(front) = n /\ \A i \in 1..n : front[i] = str[i]
    BY <1>1
  <1>3. whole \in Seq(0..9) /\ Len(whole) = n + 1 /\ \A i \in 1..(n + 1) : whole[i] = str[i]
    BY <1>1
  <1> HIDE DEF front, whole
  <1> DEFINE longer == Append(front, str[n + 1])
  <1>4. longer \in Seq(0..9) /\ Len(longer) = n + 1 /\ \A i \in 1..(n + 1) : longer[i] = str[i]
    BY <1>1, <1>2
  <1> HIDE DEF longer
  <1>5. longer = whole
    BY <1>3, <1>4
  <1> QED BY <1>5 DEF longer, front, whole

LEMMA TextIsNumeral ==
    ASSUME NEW str \in Seq(0..9), Canonical(str)
    PROVE  Numeral[PlainValue(str)] = str
  <1> DEFINE count == Decimal(str)
             k == Len(str)
  <1>1. Counts(count, str)
    BY DecimalCounts
  <1>2. PlainValue(str) = count[k]
    BY DEF PlainValue
  <1> HIDE DEF count
  <1>3. k \in Nat /\ k >= 1 /\ count \in [0..k -> Nat]
    BY <1>1 DEF Canonical, Counts
  <1> DEFINE T == { n \in Nat : n + 1 <= k => Numeral[count[n + 1]] = SubSeq(str, 1, n + 1) }
  <1>4. 0 \in T
    <2>1. 1 \in 1..k /\ 1 - 1 = 0 /\ str[1] \in 0..9 /\ str[1] \in Nat /\ str[1] < 10
      BY <1>3
    <2>2. count[1] = str[1]
      <3>1. count[1] = 0 * 10 + str[1]
        BY <1>1, <2>1 DEF Counts
      <3> QED BY <2>1, <3>1
    <2>3. Numeral[str[1]] = <<str[1]>>
      BY <2>1, NumeralIs, NumeralCases, Zenon
    <2>4. SubSeq(str, 1, 1) = <<str[1]>>
      BY <1>3
    <2>5. 0 + 1 = 1 /\ 0 \in Nat
      OBVIOUS
    <2> QED BY <2>2, <2>3, <2>4, <2>5
  <1>5. ASSUME NEW n \in Nat, n \in T
        PROVE  n + 1 \in T
    <2> SUFFICES ASSUME (n + 1) + 1 <= k
                 PROVE  Numeral[count[(n + 1) + 1]] = SubSeq(str, 1, (n + 1) + 1)
      OBVIOUS
    <2> DEFINE m == n + 1
               q == count[m]
               d == str[m + 1]
    <2>1. m \in Nat /\ m \in 1..k /\ m + 1 \in 1..k /\ (m + 1) - 1 = m /\ d \in 0..9 /\ k > 1
      BY <1>3
    <2> HIDE DEF m
    <2>2. count[m + 1] = q * 10 + d
      BY <1>1, <2>1 DEF Counts
    <2>3. q \in Nat /\ q >= 1
      <3>1. q >= 1
        BY <1>1, <2>1, LongStartsAboveZero
      <3>2. m \in 0..k
        BY <2>1
      <3> QED BY <1>3, <3>1, <3>2
    <2>4. Numeral[q] = SubSeq(str, 1, m)
      BY <1>5, <2>1 DEF m
    <2> HIDE DEF q, d
    <2>5. /\ q * 10 + d \in Nat /\ q * 10 + d >= 10
          /\ (q * 10 + d) \div 10 = q /\ (q * 10 + d) % 10 = d
      BY <2>1, <2>3
    <2> DEFINE v == q * 10 + d
    <2>6. Numeral[v] = Append(Numeral[v \div 10], v % 10)
      <3> HIDE DEF v
      <3>1. v \in Nat /\ v >= 10
        BY <2>5 DEF v
      <3> QED BY <3>1, NumeralIs, NumeralCases, Zenon
    <2>7. Numeral[v] = Append(SubSeq(str, 1, m), d)
      BY <2>4, <2>5, <2>6, Zenon
    <2>8. Append(SubSeq(str, 1, m), d) = SubSeq(str, 1, m + 1)
      <3>1. m + 1 <= Len(str)
        BY <2>1
      <3>2. Append(SubSeq(str, 1, m), str[m + 1]) = SubSeq(str, 1, m + 1)
        BY <2>1, <3>1, NextDigit
      <3> QED BY <3>2 DEF d
    <2> QED BY <2>2, <2>7, <2>8, Zenon DEF m
  <1>6. \A n \in Nat : n \in T
    <2> HIDE DEF T
    <2> QED BY <1>4, <1>5, UpFromZero
  <1>7. k - 1 \in Nat /\ (k - 1) + 1 = k
    BY <1>3
  <1>8. Numeral[count[k]] = SubSeq(str, 1, k)
    <2> DEFINE n == k - 1
    <2>1. n \in Nat /\ n + 1 = k /\ n + 1 <= k
      BY <1>7
    <2> HIDE DEF n, k
    <2>2. n + 1 <= k => Numeral[count[n + 1]] = SubSeq(str, 1, n + 1)
      BY <1>6, <2>1
    <2> QED BY <2>1, <2>2
  <1>9. SubSeq(str, 1, k) = str
    BY <1>3
  <1> QED BY <1>2, <1>8, <1>9

(* A text of the calls is one of digits, or no number at all.              *)
LEMMA DigitTexts ==
    ASSUME NEW str \in Seq(0..Other), IsDigits(str)
    PROVE  str \in Seq(0..9)
  <1>1. \A i \in 1..Len(str) : str[i] \in 0..9
    BY DEF IsDigits
  <1> QED BY <1>1

LEMMA ZeroText == <<0>> \in Seq(0..9) /\ IsDigits(<<0>>) /\ Numeral[0] = <<0>>
  <1>1. <<0>> \in Seq(0..9) /\ Len(<<0>>) = 1 /\ <<0>>[1] = 0
    OBVIOUS
  <1>2. IsDigits(<<0>>)
    BY <1>1 DEF IsDigits
  <1>3. 0 \in Nat /\ 0 < 10
    OBVIOUS
  <1>4. Numeral[0] = <<0>>
    BY <1>3, NumeralIs, NumeralCases, Zenon
  <1> QED BY <1>1, <1>2, <1>4

(* The text of the number that a text is taken for.                        *)
Taken(given) == IF IsDigits(given) THEN given ELSE <<0>>

LEMMA NumberReturned ==
    ASSUME NEW given \in Seq(0..Other), NEW max \in Nat, NEW str, str = Taken(given),
           Canonical(str), PlainValue(str) < Modulus
    PROVE  u1282str(str2u128(given), max) = IF Len(str) < max THEN str ELSE NULL
  <1>1. Numeral[str2u128(given)] = str
    <2>1. CASE IsDigits(given)
      <3>1. str = given /\ given \in Seq(0..9)
        BY <2>1, DigitTexts DEF Taken
      <3>2. str2u128(given) = PlainValue(given)
        BY <3>1, NeverWraps
      <3> QED BY <3>1, <3>2, TextIsNumeral
    <2>2. CASE ~ IsDigits(given)
      <3>1. str = <<0>> /\ str2u128(given) = 0
        BY <2>2, Zenon DEF str2u128, Taken
      <3> QED BY <3>1, ZeroText
    <2> QED BY <2>1, <2>2
  <1>2. Len(str) \in Nat
    BY ZeroText DEF Taken
  <1>3. u1282str(str2u128(given), max) = IF Len(str) > max - 1 THEN NULL ELSE str
    BY <1>1, Zenon DEF u1282str
  <1>4. (Len(str) > max - 1) <=> ~ (Len(str) < max)
    BY <1>2
  <1> QED BY <1>3, <1>4, Zenon

NumberAnswered ==
    op = "u128" => \E str \in Numbers, max \in Rooms :
        args = <<str, max>> /\ out = u1282str(str2u128(str), max)

(* A number below Modulus comes back from str2u128 and u1282str digit by   *)
(* digit, however many there are (u128.c:50-170).                          *)
THEOREM NumbersKept == Spec => []NumberKept
  <1>1. Init => NumberAnswered
    BY DEF Init, NumberAnswered
  <1>2. NumberAnswered /\ [Next]_vars => NumberAnswered'
    <2> SUFFICES ASSUME NumberAnswered, [Next]_vars
                 PROVE  NumberAnswered'
      OBVIOUS
    <2>1. CASE CallU128
      BY <2>1 DEF CallU128, Call, NumberAnswered
    <2>2. CASE UNCHANGED vars
      BY <2>2 DEF vars, NumberAnswered
    <2>3. CASE op' # "u128"
      BY <2>3 DEF NumberAnswered
    <2>4. Next => CallU128 \/ op' # "u128"
      BY DEF Next, Call, CallRau2Iotx, CallReadContract, CallCompare, CallHex2Str, CallStr2Hex,
             CallPublish, CallGetOrder, CallGetReply, Return
    <2> QED BY <2>1, <2>2, <2>3, <2>4
  <1>3. NumberAnswered => NumberKept
    <2> DEFINE text == Taken(args[1])
    <2> SUFFICES ASSUME NumberAnswered, op = "u128", Canonical(text), PlainValue(text) < Modulus
                 PROVE  out = IF Len(text) < args[2] THEN text ELSE NULL
      BY Zenon DEF NumberKept, Taken
    <2>1. PICK str \in Numbers, max \in Rooms :
              args = <<str, max>> /\ out = u1282str(str2u128(str), max)
      BY DEF NumberAnswered
    <2>2. str \in Seq(0..Other) /\ max \in Nat /\ args[1] = str /\ args[2] = max
      BY <2>1, TextsAssumption, CallsAssumption
    <2>3. text = Taken(str)
      BY <2>2
    <2> HIDE DEF text
    <2>4. u1282str(str2u128(str), max) = IF Len(text) < max THEN text ELSE NULL
      BY <2>2, <2>3, NumberReturned
    <2> QED BY <2>1, <2>2, <2>4
  <1> QED BY <1>1, <1>2, <1>3, PTL DEF Spec

-----------------------------------------------------------------------------
(* Numbers compared by their texts. What is less at some digit stays less, *)
(* whatever digits follow.                                                 *)
LEMMA StaysLess ==
    ASSUME NEW a \in Seq(0..9), NEW ca, Counts(ca, a), NEW b \in Seq(0..9), NEW cb, Counts(cb, b),
           NEW m \in Nat, NEW n \in Nat, ca[m] < cb[n],
           NEW rest \in Nat, m + rest <= Len(a), n + rest <= Len(b)
    PROVE  ca[m + rest] < cb[n + rest]
  <1> DEFINE T == { j \in Nat : j <= rest => ca[m + j] < cb[n + j] }
  <1>1. /\ Len(a) \in Nat /\ Len(b) \in Nat
        /\ ca \in [0..Len(a) -> Nat] /\ cb \in [0..Len(b) -> Nat]
    BY DEF Counts
  <1>2. 0 \in T
    OBVIOUS
  <1>3. ASSUME NEW j \in Nat, j \in T
        PROVE  j + 1 \in T
    <2> SUFFICES ASSUME j + 1 <= rest
                 PROVE  ca[m + (j + 1)] < cb[n + (j + 1)]
      OBVIOUS
    <2>1. /\ m + (j + 1) \in 1..Len(a) /\ (m + (j + 1)) - 1 = m + j /\ m + j \in 0..Len(a)
          /\ n + (j + 1) \in 1..Len(b) /\ (n + (j + 1)) - 1 = n + j /\ n + j \in 0..Len(b)
      BY <1>1
    <2>2. /\ ca[m + (j + 1)] = ca[m + j] * 10 + a[m + (j + 1)]
          /\ cb[n + (j + 1)] = cb[n + j] * 10 + b[n + (j + 1)]
      BY <2>1 DEF Counts
    <2> DEFINE x == ca[m + j]
               y == cb[n + j]
               d == a[m + (j + 1)]
               e == b[n + (j + 1)]
    <2>3. x \in Nat /\ y \in Nat
      BY <1>1, <2>1
    <2>4. d \in 0..9
      BY <2>1
    <2>5. e \in 0..9
      BY <2>1
    <2>6. x < y
      BY <1>3
    <2> HIDE DEF x, y, d, e
    <2>7. x * 10 + d < y * 10 + e
      BY <2>3, <2>4, <2>5, <2>6
    <2> QED BY <2>2, <2>7 DEF x, y, d, e
  <1>4. \A j \in Nat : j \in T
    <2> HIDE DEF T
    <2> QED BY <1>2, <1>3, UpFromZero
  <1> QED BY <1>4

(* A shorter number is less, as it has no zeros in front.                  *)
LEMMA ShorterIsLess ==
    ASSUME NEW a \in Seq(0..9), NEW b \in Seq(0..9), Canonical(b), a # <<>>, Len(a) < Len(b)
    PROVE  PlainValue(a) < PlainValue(b)
  <1> DEFINE ca == Decimal(a)
             cb == Decimal(b)
             k == Len(b) - Len(a)
  <1>1. Counts(ca, a) /\ Counts(cb, b)
    BY DecimalCounts
  <1>2. PlainValue(a) = ca[Len(a)] /\ PlainValue(b) = cb[Len(b)]
    BY DEF PlainValue
  <1> HIDE DEF ca, cb
  <1>3. /\ Len(a) \in Nat /\ Len(b) \in Nat /\ Len(a) >= 1 /\ Len(b) > 1
        /\ k \in Nat /\ k \in 1..Len(b) /\ k + Len(a) = Len(b) /\ 0 + Len(a) = Len(a)
    OBVIOUS
  <1> HIDE DEF k
  <1>4. cb[k] >= 1
    BY <1>1, <1>3, LongStartsAboveZero
  <1>5. ca[0] = 0 /\ cb[k] \in Nat
    <2>1. k \in 0..Len(b)
      BY <1>3
    <2> QED BY <1>1, <2>1 DEF Counts
  <1>6. 0 \in Nat /\ ca[0] < cb[k]
    BY <1>4, <1>5
  <1>7. ca[0 + Len(a)] < cb[k + Len(a)]
    <2>1. 0 + Len(a) <= Len(a) /\ k + Len(a) <= Len(b)
      BY <1>3
    <2> QED BY <1>1, <1>3, <1>6, <2>1, StaysLess
  <1> QED BY <1>2, <1>3, <1>7

(* Of two numbers of one length that is less whose first other digit is.   *)
LEMMA FrontIsLess ==
    ASSUME NEW a \in Seq(0..9), NEW b \in Seq(0..9), Len(a) = Len(b), MemLess(a, b)
    PROVE  PlainValue(a) < PlainValue(b)
  <1> DEFINE ca == Decimal(a)
             cb == Decimal(b)
  <1>1. Counts(ca, a) /\ Counts(cb, b)
    BY DecimalCounts
  <1>2. PlainValue(a) = ca[Len(a)] /\ PlainValue(b) = cb[Len(b)]
    BY DEF PlainValue
  <1> HIDE DEF ca, cb
  <1>3. /\ Len(a) \in Nat /\ Len(b) \in Nat
        /\ ca \in [0..Len(a) -> Nat] /\ cb \in [0..Len(b) -> Nat] /\ ca[0] = 0 /\ cb[0] = 0
    BY <1>1 DEF Counts
  <1>4. PICK i \in 1..Len(a) : a[i] < b[i] /\ \A j \in 1..(i - 1) : a[j] = b[j]
    BY DEF MemLess
  <1> DEFINE T == { j \in Nat : j < i => ca[j] = cb[j] }
  <1>5. 0 \in T
    BY <1>3
  <1>6. ASSUME NEW j \in Nat, j \in T
        PROVE  j + 1 \in T
    <2> SUFFICES ASSUME j + 1 < i
                 PROVE  ca[j + 1] = cb[j + 1]
      OBVIOUS
    <2>1. j + 1 \in 1..Len(a) /\ j + 1 \in 1..Len(b) /\ (j + 1) - 1 = j /\ j + 1 \in 1..(i - 1)
      BY <1>3
    <2>2. ca[j + 1] = ca[j] * 10 + a[j + 1] /\ cb[j + 1] = cb[j] * 10 + b[j + 1]
      BY <1>1, <2>1 DEF Counts
    <2>3. ca[j] = cb[j] /\ a[j + 1] = b[j + 1]
      BY <1>4, <1>6, <2>1
    <2> QED BY <2>2, <2>3
  <1>7. \A j \in Nat : j \in T
    <2> HIDE DEF T
    <2> QED BY <1>5, <1>6, UpFromZero
  <1>8. ca[i] < cb[i]
    <2>1. i - 1 \in Nat /\ i - 1 < i /\ i \in 1..Len(b) /\ i - 1 \in 0..Len(a) /\ i - 1 \in 0..Len(b)
      BY <1>3
    <2>2. ca[i - 1] = cb[i - 1]
      BY <1>7, <2>1
    <2>3. ca[i] = ca[i - 1] * 10 + a[i] /\ cb[i] = cb[i - 1] * 10 + b[i]
      BY <1>1, <2>1 DEF Counts
    <2>4. ca[i - 1] \in Nat
      BY <1>3, <2>1
    <2>5. a[i] \in Nat /\ b[i] \in Nat
      BY <1>4, <2>1
    <2> QED BY <1>4, <2>2, <2>3, <2>4, <2>5
  <1> DEFINE rest == Len(a) - i
  <1>9. rest \in Nat /\ i \in Nat /\ i + rest = Len(a) /\ i + rest = Len(b) /\ i + rest <= Len(a) /\ i + rest <= Len(b)
    BY <1>3
  <1> HIDE DEF rest
  <1>10. ca[i + rest] < cb[i + rest]
    BY <1>1, <1>8, <1>9, StaysLess
  <1> QED BY <1>2, <1>9, <1>10

LEMMA OneIsLess ==
    ASSUME NEW a \in Seq(0..9), NEW b \in Seq(0..9), Len(a) = Len(b), a # b
    PROVE  MemLess(a, b) \/ MemLess(b, a)
  <1> DEFINE Differs(i) == a[i] # b[i]
             T == { i \in 1..Len(a) : Differs(i) }
  <1>1. Len(a) \in Nat /\ T \subseteq Nat
    OBVIOUS
  <1>2. T # {}
    OBVIOUS
  <1>3. PICK i \in T : \A j \in T : i <= j
    <2> HIDE DEF T
    <2> QED BY <1>1, <1>2, LeastNumber
  <1>4. i \in 1..Len(a) /\ i \in 1..Len(b) /\ a[i] # b[i]
    OBVIOUS
  <1>5. \A j \in 1..(i - 1) : a[j] = b[j]
    <2> SUFFICES ASSUME NEW j \in 1..(i - 1), a[j] # b[j]
                 PROVE  FALSE
      OBVIOUS
    <2>1. j \in T
      BY <1>1, <1>4
    <2> QED BY <1>3, <1>4, <2>1
  <1>6. a[i] \in Int /\ b[i] \in Int
    BY <1>4
  <1>7. CASE a[i] < b[i]
    BY <1>4, <1>5, <1>7 DEF MemLess
  <1>8. CASE b[i] < a[i]
    BY <1>4, <1>5, <1>8 DEF MemLess
  <1> QED BY <1>4, <1>6, <1>7, <1>8

(* The order of the texts is the order of the numbers.                     *)
LEMMA OrderOfTexts ==
    ASSUME NEW a \in Seq(0..9), Canonical(a), NEW b \in Seq(0..9), Canonical(b)
    PROVE  raw_is_less(a, b) <=> PlainValue(a) < PlainValue(b)
  <1>1. a # <<>> /\ b # <<>> /\ Len(a) \in Nat /\ Len(b) \in Nat
    BY DEF Canonical
  <1>2. PlainValue(a) \in Nat /\ PlainValue(b) \in Nat
    <2>1. Decimal(a) \in [0..Len(a) -> Nat] /\ Decimal(b) \in [0..Len(b) -> Nat]
      BY DecimalCounts DEF Counts
    <2>2. Len(a) \in 0..Len(a) /\ Len(b) \in 0..Len(b)
      BY <1>1
    <2> QED BY <2>1, <2>2 DEF PlainValue
  <1>3. ASSUME raw_is_less(a, b)
        PROVE  PlainValue(a) < PlainValue(b)
    <2>1. CASE Len(a) < Len(b)
      BY <1>1, <2>1, ShorterIsLess
    <2>2. CASE Len(a) = Len(b) /\ MemLess(a, b)
      BY <2>2, FrontIsLess
    <2> QED BY <1>3, <2>1, <2>2 DEF raw_is_less
  <1>4. ASSUME ~ raw_is_less(a, b)
        PROVE  ~ (PlainValue(a) < PlainValue(b))
    <2>1. CASE Len(b) < Len(a)
      <3>1. PlainValue(b) < PlainValue(a)
        BY <1>1, <2>1, ShorterIsLess
      <3> QED BY <1>2, <3>1
    <2>2. CASE a = b
      BY <1>2, <2>2
    <2>3. CASE Len(a) = Len(b) /\ a # b
      <3>1. MemLess(b, a)
        BY <1>4, <2>3, OneIsLess DEF raw_is_less
      <3>2. PlainValue(b) < PlainValue(a)
        BY <2>3, <3>1, FrontIsLess
      <3> QED BY <1>2, <3>2
    <2>4. ~ (Len(a) < Len(b))
      BY <1>4 DEF raw_is_less
    <2>5. Len(b) < Len(a) \/ Len(a) = Len(b)
      BY <1>1, <2>4
    <2> QED BY <2>1, <2>2, <2>3, <2>5
  <1> QED BY <1>3, <1>4

(* Every number below Modulus fits raw as a text.                          *)
LEMMA TextFits ==
    ASSUME NEW a \in Seq(0..9), Canonical(a), PlainValue(a) < Modulus
    PROVE  /\ str2raw(a) = a /\ str2u128(a) = PlainValue(a)
           /\ raw2str(a, RawMaxLen) = a
           /\ u1282str(PlainValue(a), RawMaxLen) = a
  <1>1. Numeral[PlainValue(a)] = a /\ str2u128(a) = PlainValue(a)
    BY TextIsNumeral, NeverWraps
  <1>2. PlainValue(a) \in Nat
    <2>1. Decimal(a) \in [0..Len(a) -> Nat]
      BY DecimalCounts DEF Counts
    <2>2. Len(a) \in 0..Len(a)
      OBVIOUS
    <2> QED BY <2>1, <2>2 DEF PlainValue
  <1> DEFINE v == PlainValue(a)
             top == Modulus - 1
  <1>3. top \in Nat /\ v \in 0..top
    BY <1>2, AmountsAssumption
  <1>4. Len(Numeral[v]) <= Len(Numeral[top])
    <2> HIDE DEF v, top
    <2> QED BY <1>3, NumeralGrows
  <1>5. Len(Numeral[v]) = Len(a) /\ Len(a) \in Nat
    BY <1>1
  <1>6. Len(Numeral[top]) \in Nat /\ Len(Numeral[top]) < RawMaxLen /\ RawMaxLen \in Nat
    <2>1. Len(Numeral[top]) < RawMaxLen
      BY RoomAssumption
    <2>2. Numeral[top] \in Seq(Nat)
      <3> HIDE DEF top
      <3> QED BY <1>3, NumeralIs
    <2> HIDE DEF top
    <2> QED BY <2>1, <2>2, AmountsAssumption
  <1>7. Len(a) < RawMaxLen
    <2> HIDE DEF v, top
    <2> QED BY <1>4, <1>5, <1>6
  <1>8. ~ (Len(a) > RawMaxLen - 1) /\ ~ (RawMaxLen < Len(a) + 1)
    BY <1>5, <1>6, <1>7
  <1>9. IsDigits(a)
    BY DEF Canonical
  <1>10. str2raw(a) = a
    BY <1>8, <1>9, Zenon DEF str2raw
  <1>11. raw2str(a, RawMaxLen) = a
    BY <1>8, Zenon DEF raw2str
  <1>12. u1282str(PlainValue(a), RawMaxLen) = a
    BY <1>1, <1>8, Zenon DEF u1282str
  <1> QED BY <1>1, <1>10, <1>11, <1>12

(* What CallCompare returns of both builds.                                *)
Native(a, b) ==
    <<str2u128(a) = str2u128(b), u128_is_less(str2u128(a), str2u128(b)),
      u1282str(str2u128(a), RawMaxLen)>>

OfTexts(a, b) ==
    <<str2raw(a) = str2raw(b), raw_is_less(str2raw(a), str2raw(b)),
      raw2str(str2raw(a), RawMaxLen)>>

LEMMA SameAnswers ==
    ASSUME NEW a \in Seq(0..9), Canonical(a), PlainValue(a) < Modulus,
           NEW b \in Seq(0..9), Canonical(b), PlainValue(b) < Modulus
    PROVE  Native(a, b) = OfTexts(a, b)
  <1>1. /\ str2raw(a) = a /\ str2u128(a) = PlainValue(a)
        /\ str2raw(b) = b /\ str2u128(b) = PlainValue(b)
        /\ raw2str(a, RawMaxLen) = a /\ u1282str(PlainValue(a), RawMaxLen) = a
    BY TextFits
  <1>2. (PlainValue(a) = PlainValue(b)) <=> (a = b)
    BY TextIsNumeral
  <1>3. raw_is_less(a, b) <=> u128_is_less(PlainValue(a), PlainValue(b))
    BY OrderOfTexts DEF u128_is_less
  <1>4. (PlainValue(a) = PlainValue(b)) = (a = b)
    BY <1>2, Zenon
  <1>5. raw_is_less(a, b) = u128_is_less(PlainValue(a), PlainValue(b))
    BY <1>3, SMT DEF raw_is_less, u128_is_less
  <1>6. Native(a, b) = <<PlainValue(a) = PlainValue(b), u128_is_less(PlainValue(a), PlainValue(b)), a>>
    BY <1>1, Zenon DEF Native
  <1>7. OfTexts(a, b) = <<a = b, raw_is_less(a, b), a>>
    BY <1>1, Zenon DEF OfTexts
  <1> QED BY <1>4, <1>5, <1>6, <1>7, Zenon

CompareAnswered ==
    op = "compare" => \E a, b \in Compared :
        args = <<a, b>> /\ out = [native |-> Native(a, b), raw |-> OfTexts(a, b)]

(* The builds with and without 128-bit integers give the same answers on   *)
(* all numbers below Modulus: equal, less, and as a text (u128.c:11-35,    *)
(* 50-170).                                                                *)
THEOREM BothBuildsAgree == Spec => []BuildsAgree
  <1>1. Init => CompareAnswered
    BY DEF Init, CompareAnswered
  <1>2. CompareAnswered /\ [Next]_vars => CompareAnswered'
    <2> SUFFICES ASSUME CompareAnswered, [Next]_vars
                 PROVE  CompareAnswered'
      OBVIOUS
    <2>1. CASE CallCompare
      BY <2>1, Zenon DEF CallCompare, Call, CompareAnswered, Native, OfTexts
    <2>2. CASE UNCHANGED vars
      BY <2>2 DEF vars, CompareAnswered
    <2>3. CASE op' # "compare"
      BY <2>3 DEF CompareAnswered
    <2>4. Next => CallCompare \/ op' # "compare"
      BY DEF Next, Call, CallRau2Iotx, CallReadContract, CallU128, CallHex2Str, CallStr2Hex,
             CallPublish, CallGetOrder, CallGetReply, Return
    <2> QED BY <2>1, <2>2, <2>3, <2>4
  <1>3. CompareAnswered => BuildsAgree
    <2> SUFFICES ASSUME CompareAnswered, op = "compare",
                        \A k \in {1, 2} : Canonical(args[k]) /\ PlainValue(args[k]) < Modulus
                 PROVE  out.native = out.raw
      BY DEF BuildsAgree
    <2>1. PICK a, b \in Compared :
              args = <<a, b>> /\ out = [native |-> Native(a, b), raw |-> OfTexts(a, b)]
      BY DEF CompareAnswered
    <2>2. /\ Canonical(a) /\ PlainValue(a) < Modulus
          /\ Canonical(b) /\ PlainValue(b) < Modulus
      <3>1. args[1] = a /\ args[2] = b
        BY <2>1
      <3> QED BY <3>1
    <2>3. a \in Seq(0..9) /\ b \in Seq(0..9)
      <3>1. a \in Seq(0..Other) /\ b \in Seq(0..Other) /\ IsDigits(a) /\ IsDigits(b)
        BY <2>2, TextsAssumption DEF Canonical
      <3> QED BY <3>1, DigitTexts
    <2>4. Native(a, b) = OfTexts(a, b)
      BY <2>2, <2>3, SameAnswers
    <2>5. out.native = Native(a, b) /\ out.raw = OfTexts(a, b)
      BY <2>1
    <2> QED BY <2>4, <2>5
  <1> QED BY <1>1, <1>2, <1>3, PTL DEF Spec

=============================================================================
