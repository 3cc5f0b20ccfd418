----------------------------- MODULE Jsmn_proofs -----------------------------
(***************************************************************************)
(* What jsmn_parse promises.  Of every text, well formed or not: tokens    *)
(* stay within the room given for them, are pieces of the text that lie    *)
(* behind or inside each other, and no token claims a child that is not    *)
(* there.  Of every document: no part of an object or array is accepted    *)
(* for the whole, and the whole is tokenized as it was written.            *)
(***************************************************************************)
EXTENDS Jsmn, Foundations, FiniteSetTheorems

Parsers == [toks : Seq(Tokens), super : Nat,
            mode : {"value", "string", "escape", "hex", "primitive"},
            begin : Nat, digits : Int,
            outcome : {"running", "ok", "PART", "INVAL", "NOMEM"}]

(* Every token begins before b, and is open or ends before it.             *)
Before(toks, b) ==
    \A i \in 1..Len(toks) : IF toks[i].end = -1 THEN toks[i].start < b ELSE toks[i].end <= b

(* The later token begins behind the earlier one, or lies inside it.       *)
Apart(a, b) ==
    \/ (a.end # -1 /\ a.end <= b.start)
    \/ /\ a.type \in Containers
       /\ a.start < b.start
       /\ a.end = -1 \/ (b.end # -1 /\ b.end < a.end)

(* The tokens of a text of which n characters are read.                    *)
InPlace(toks, n) ==
    /\ Before(toks, n)
    /\ \A i \in 1..Len(toks) : IF toks[i].end = -1 THEN toks[i].type \in Containers
                               ELSE toks[i].start <= toks[i].end
    /\ \A i, j \in 1..Len(toks) : i < j => Apart(toks[i], toks[j])

(* A token has no more children than there are tokens behind it.           *)
ChildrenFollow(toks) == \A i \in 1..Len(toks) : toks[i].size <= Len(toks) - i

ParserOK(p, n) ==
    /\ p \in Parsers
    /\ p.super <= Len(p.toks)
    /\ Len(p.toks) <= room
    /\ InPlace(p.toks, n)
    /\ ChildrenFollow(p.toks)
    /\ p.mode # "value" => p.begin <= n /\ Before(p.toks, p.begin)
    /\ p.outcome = "ok" => OpenTokens(p) = {}

Inv ==
    /\ room \in Nat
    /\ text \in Seq(Characters)
    /\ ParserOK(parser, Len(text))

(* The children jsmn counts for a token are tokens of the array: the scan  *)
(* of parse.c, which takes size for the number of elements, is given no    *)
(* count that the rest of the array could not hold.                        *)
ChildCountsFit == ChildrenFollow(parser.toks)

-----------------------------------------------------------------------------
(* The last of a set of indices.                                           *)
LEMMA LastIsIn ==
    ASSUME NEW k \in Nat, NEW S, S \subseteq 1..k
    PROVE  /\ S = {} => LastOf(S) = 0
           /\ S # {} => LastOf(S) \in S /\ \A m \in S : m <= LastOf(S)
  <1>1. CASE S = {}
    BY <1>1 DEF LastOf
  <1>2. CASE S # {}
    <2> DEFINE less == OpToRel(<, Nat)
               T == { k - n : n \in S }
    <2>1. less = { ss \in Nat \X Nat : ss[1] < ss[2] }
      BY Zenon DEF OpToRel
    <2>2. IsWellFoundedOn(less, Nat)
      BY NatLessThanWellFounded
    <2>3. T \subseteq Nat /\ T # {}
      <3>1. \A n \in S : k - n \in Nat OBVIOUS
      <3> QED BY <1>2, <3>1
    <2>4. \A n \in S : k - n \in T
      OBVIOUS
    <2> HIDE DEF less
    <2>5. PICK t \in T : \A m \in T : ~ (<<m, t>> \in less)
      BY <2>2, <2>3, WFMin
    <2>6. PICK n \in S : t = k - n
      OBVIOUS
    <2> HIDE DEF T
    <2>7. \A m \in S : n >= m
      <3> TAKE m \in S
      <3>1. k - m \in T /\ k - m \in Nat /\ t \in Nat
        BY <2>3, <2>4, <2>5
      <3>2. <<k - m, t>> \in Nat \X Nat
        BY <3>1
      <3>3. <<k - m, t>> \notin less
        BY <2>5, <3>1
      <3>4. ~ (k - m < t)
        BY <2>1, <3>2, <3>3
      <3> QED BY <2>6, <3>1, <3>4
    <2>8. Max(S) \in S /\ \A m \in S : Max(S) >= m
      <3>1. \E x \in S : \A y \in S : x >= y
        BY <2>7
      <3> QED BY <3>1 DEF Max
    <2>9. LastOf(S) = Max(S)
      BY <1>2 DEF LastOf
    <2> QED BY <1>2, <2>8, <2>9
  <1> QED BY <1>1, <1>2

-----------------------------------------------------------------------------
(* The token array.                                                        *)
LEMMA TokenFields ==
    ASSUME NEW ts \in Seq(Tokens), NEW i \in 1..Len(ts)
    PROVE  /\ ts[i] \in Tokens
           /\ ts[i].start \in Nat /\ ts[i].end \in Nat \cup {-1} /\ ts[i].size \in Nat
           /\ i \in Nat \ {0} /\ Len(ts) \in Nat
  <1>1. ts[i] \in Tokens /\ Len(ts) \in Nat
    BY ElementOfSeq, LenProperties
  <1> QED BY <1>1 DEF Tokens

LEMMA PlaceGrows ==
    ASSUME NEW ts \in Seq(Tokens), NEW n \in Nat, InPlace(ts, n)
    PROVE  InPlace(ts, n + 1)
  <1>1. Before(ts, n + 1)
    BY TokenFields DEF InPlace, Before
  <1> QED BY <1>1 DEF InPlace

(* A token is added behind every token that has ended: a leaf or an open   *)
(* container.                                                              *)
LEMMA PlaceAppend ==
    ASSUME NEW ts \in Seq(Tokens), NEW n \in Nat, InPlace(ts, n),
           NEW t \in Tokens, Before(ts, t.start), NEW m \in Nat, n <= m,
           IF t.end = -1 THEN t.type \in Containers /\ t.start < m
           ELSE t.start <= t.end /\ t.end <= m
    PROVE  InPlace(Append(ts, t), m)
  <1> DEFINE us == Append(ts, t)
  <1>1. /\ Len(ts) \in Nat /\ Len(us) = Len(ts) + 1 /\ us[Len(ts) + 1] = t
        /\ \A i \in 1..Len(ts) : us[i] = ts[i]
    BY AppendProperties, LenProperties
  <1> HIDE DEF us
  <1>2. Before(us, m)
    <2> SUFFICES ASSUME NEW i \in 1..Len(us)
                 PROVE  IF us[i].end = -1 THEN us[i].start < m ELSE us[i].end <= m
      BY DEF Before
    <2>1. CASE i = Len(ts) + 1 BY <1>1, <2>1
    <2>2. CASE i # Len(ts) + 1
      <3>1. i \in 1..Len(ts) /\ us[i] = ts[i] BY <1>1, <2>2
      <3> QED BY <3>1, TokenFields DEF InPlace, Before
    <2> QED BY <2>1, <2>2
  <1>3. \A i \in 1..Len(us) : IF us[i].end = -1 THEN us[i].type \in Containers
                               ELSE us[i].start <= us[i].end
    <2> TAKE i \in 1..Len(us)
    <2>1. CASE i = Len(ts) + 1 BY <1>1, <2>1
    <2>2. CASE i # Len(ts) + 1
      <3>1. i \in 1..Len(ts) /\ us[i] = ts[i] BY <1>1, <2>2
      <3> QED BY <3>1 DEF InPlace
    <2> QED BY <2>1, <2>2
  <1>4. \A i, j \in 1..Len(us) : i < j => Apart(us[i], us[j])
    <2> SUFFICES ASSUME NEW i \in 1..Len(us), NEW j \in 1..Len(us), i < j
                 PROVE  Apart(us[i], us[j])
      OBVIOUS
    <2>1. i \in 1..Len(ts) /\ us[i] = ts[i]
      BY <1>1
    <2>2. CASE j = Len(ts) + 1
      <3>1. us[j] = t BY <1>1, <2>2
      <3>2. IF ts[i].end = -1 THEN ts[i].start < t.start ELSE ts[i].end <= t.start
        BY <2>1 DEF Before
      <3>3. ts[i].end = -1 => ts[i].type \in Containers
        BY <2>1 DEF InPlace
      <3> QED BY <2>1, <3>1, <3>2, <3>3 DEF Apart
    <2>3. CASE j # Len(ts) + 1
      <3>1. j \in 1..Len(ts) /\ us[j] = ts[j] BY <1>1, <2>3
      <3> QED BY <2>1, <3>1 DEF InPlace
    <2> QED BY <2>2, <2>3
  <1> QED BY <1>2, <1>3, <1>4 DEF InPlace, us

(* The last open token closes behind what is read.                         *)
LEMMA PlaceClose ==
    ASSUME NEW ts \in Seq(Tokens), NEW n \in Nat, InPlace(ts, n),
           NEW k \in 1..Len(ts), ts[k].end = -1,
           \A i \in 1..Len(ts) : ts[i].end = -1 => i <= k,
           NEW us, Len(us) = Len(ts),
           us[k].start = ts[k].start, us[k].type = ts[k].type, us[k].end = n + 1,
           \A i \in 1..Len(ts) : i # k => us[i] = ts[i]
    PROVE  InPlace(us, n + 1)
  <1>1. ts[k].start < n /\ ts[k].type \in Containers /\ ts[k].start \in Nat
    BY TokenFields DEF InPlace, Before
  <1>2. Before(us, n + 1)
    <2> SUFFICES ASSUME NEW i \in 1..Len(ts)
                 PROVE  IF us[i].end = -1 THEN us[i].start < n + 1 ELSE us[i].end <= n + 1
      BY DEF Before
    <2>1. CASE i = k BY <2>1
    <2>2. CASE i # k
      <3>1. us[i] = ts[i] BY <2>2
      <3> QED BY <3>1, TokenFields DEF InPlace, Before
    <2> QED BY <2>1, <2>2
  <1>3. \A i \in 1..Len(us) : IF us[i].end = -1 THEN us[i].type \in Containers
                               ELSE us[i].start <= us[i].end
    <2> TAKE i \in 1..Len(us)
    <2>1. CASE i = k BY <1>1, <2>1
    <2>2. CASE i # k BY <2>2 DEF InPlace
    <2> QED BY <2>1, <2>2
  <1>4. \A i, j \in 1..Len(us) : i < j => Apart(us[i], us[j])
    <2> SUFFICES ASSUME NEW i \in 1..Len(ts), NEW j \in 1..Len(ts), i < j
                 PROVE  Apart(us[i], us[j])
      OBVIOUS
    <2>0. Apart(ts[i], ts[j])
      BY DEF InPlace
    <2>1. CASE i = k
      <3>1. us[j] = ts[j] /\ ts[j].end # -1
        BY <2>1, TokenFields
      <3>2. ts[j].end \in Nat /\ ts[j].end <= n
        BY <3>1, TokenFields DEF InPlace, Before
      <3>3. ts[i].start < ts[j].start
        BY <2>0, <2>1 DEF Apart
      <3> QED BY <1>1, <2>1, <3>1, <3>2, <3>3 DEF Apart
    <2>2. CASE j = k
      <3>1. us[i] = ts[i]
        BY <2>2
      <3> QED BY <2>0, <2>2, <3>1 DEF Apart
    <2>3. CASE i # k /\ j # k
      BY <2>0, <2>3
    <2> QED BY <2>1, <2>2, <2>3
  <1> QED BY <1>2, <1>3, <1>4 DEF InPlace

-----------------------------------------------------------------------------
(* Only the child counts differ. *)
SameTokens(ts, us) ==
    /\ Len(us) = Len(ts)
    /\ \A i \in 1..Len(ts) :
          us[i].type = ts[i].type /\ us[i].start = ts[i].start /\ us[i].end = ts[i].end

LEMMA SamePlace ==
    ASSUME NEW ts, NEW us, SameTokens(ts, us), NEW n
    PROVE  /\ Before(ts, n) => Before(us, n)
           /\ InPlace(ts, n) => InPlace(us, n)
  <1>1. Before(ts, n) => Before(us, n)
    BY DEF Before, SameTokens
  <1>2. ASSUME InPlace(ts, n) PROVE InPlace(us, n)
    <2>1. \A i \in 1..Len(us) : IF us[i].end = -1 THEN us[i].type \in Containers
                                 ELSE us[i].start <= us[i].end
      BY <1>2 DEF InPlace, SameTokens
    <2>2. \A i, j \in 1..Len(us) : i < j => Apart(us[i], us[j])
      BY <1>2 DEF InPlace, SameTokens, Apart
    <2> QED BY <1>1, <1>2, <2>1, <2>2 DEF InPlace
  <1> QED BY <1>1, <1>2

-----------------------------------------------------------------------------
(* The parser.                                                             *)
LEMMA ParserFields ==
    ASSUME NEW p \in Parsers
    PROVE  /\ p.toks \in Seq(Tokens) /\ Len(p.toks) \in Nat /\ DOMAIN p.toks = 1..Len(p.toks)
           /\ p.super \in Nat /\ p.begin \in Nat /\ p.digits \in Int
           /\ p.mode \in {"value", "string", "escape", "hex", "primitive"}
           /\ p.outcome \in {"running", "ok", "PART", "INVAL", "NOMEM"}
  <1>1. p.toks \in Seq(Tokens)
    BY DEF Parsers
  <1>2. Len(p.toks) \in Nat /\ DOMAIN p.toks = 1..Len(p.toks)
    BY <1>1, LenProperties
  <1> QED BY <1>1, <1>2 DEF Parsers

(* The tokens and the token that counts are assigned together. *)
Assigned(p, ts, k) == [p EXCEPT !.toks = ts, !.super = k]

IsAssigned(q, p, ts, k) ==
    /\ q \in Parsers /\ q.toks = ts /\ q.super = k
    /\ q.mode = p.mode /\ q.outcome = p.outcome

LEMMA AssignedFields ==
    ASSUME NEW p \in Parsers, NEW ts \in Seq(Tokens), NEW k \in Nat
    PROVE  IsAssigned(Assigned(p, ts, k), p, ts, k)
  <1> DEFINE r == [p EXCEPT !.toks = ts]
             q == Assigned(p, ts, k)
  <1>1. r \in Parsers /\ r.toks = ts /\ r.mode = p.mode /\ r.outcome = p.outcome
    BY DEF Parsers
  <1>2. q = [r EXCEPT !.super = k]
    BY DEF Parsers, Assigned
  <1> HIDE DEF r, q
  <1>3. q \in Parsers /\ q.toks = ts /\ q.super = k /\ q.mode = p.mode /\ q.outcome = p.outcome
    BY <1>1, <1>2 DEF Parsers
  <1> QED BY <1>3 DEF IsAssigned, q

LEMMA ParserGrows ==
    ASSUME NEW p, NEW n \in Nat, ParserOK(p, n)
    PROVE  ParserOK(p, n + 1)
  <1>1. p.toks \in Seq(Tokens) /\ p.begin \in Nat
    BY ParserFields DEF ParserOK
  <1> QED BY <1>1, PlaceGrows DEF ParserOK

LEMMA RefuseOK ==
    ASSUME NEW p, NEW n \in Nat, ParserOK(p, n), NEW e \in {"PART", "INVAL", "NOMEM"}
    PROVE  ParserOK(Refuse(p, e), n) /\ ~ Running(Refuse(p, e))
  <1> DEFINE q == Refuse(p, e)
  <1>1. /\ q \in Parsers /\ q.toks = p.toks /\ q.super = p.super /\ q.mode = p.mode
        /\ q.begin = p.begin /\ q.outcome = e
    BY DEF Refuse, ParserOK, Parsers
  <1> HIDE DEF q
  <1> QED BY <1>1 DEF ParserOK, Running, q

Raised(size, counts) == IF counts THEN size + 1 ELSE size

LEMMA CountedTokens ==
    ASSUME NEW p \in Parsers, p.super <= Len(p.toks)
    PROVE  LET q == Counted(p)
           IN  /\ q \in Parsers /\ SameTokens(p.toks, q.toks)
               /\ \A i \in 1..Len(p.toks) : q.toks[i].size \in {p.toks[i].size, p.toks[i].size + 1}
               /\ \A i \in 1..Len(p.toks) : i > p.super => q.toks[i].size = p.toks[i].size
               /\ \A i \in 1..Len(p.toks) : q.toks[i].size = Raised(p.toks[i].size, i = p.super)
               /\ q.super = p.super /\ q.mode = p.mode /\ q.begin = p.begin /\ q.outcome = p.outcome
  <1>1. CASE p.super = 0
    BY <1>1 DEF Counted, SameTokens, Raised
  <1>2. CASE p.super # 0
    <2> DEFINE k == p.super
               t == [p.toks[k] EXCEPT !.size = @ + 1]
               us == [p.toks EXCEPT ![k] = t]
               q == [p EXCEPT !.toks = us]
    <2>1. k \in 1..Len(p.toks) /\ p.toks \in Seq(Tokens)
      BY <1>2, ParserFields
    <2>2. p.toks[k] \in Tokens
      BY <2>1, TokenFields
    <2>3. /\ t \in Tokens /\ t.type = p.toks[k].type /\ t.start = p.toks[k].start
          /\ t.end = p.toks[k].end /\ t.size = p.toks[k].size + 1
      <3> HIDE DEF k
      <3> QED BY <2>2 DEF Tokens
    <2>4. Counted(p) = q
      BY <1>2, <2>1, ParserFields DEF Counted, Parsers
    <2> HIDE DEF k, t
    <2>5. /\ us \in Seq(Tokens) /\ Len(us) = Len(p.toks)
          /\ \A i \in 1..Len(p.toks) : us[i] = IF i = k THEN t ELSE p.toks[i]
      BY <2>1, <2>3, ExceptSeq
    <2> HIDE DEF us
    <2>6. /\ q \in Parsers /\ q.toks = us /\ q.super = p.super /\ q.mode = p.mode
          /\ q.begin = p.begin /\ q.outcome = p.outcome
      BY <2>5 DEF Parsers
    <2> HIDE DEF q
    <2>7. SameTokens(p.toks, q.toks)
      BY <2>3, <2>5, <2>6 DEF SameTokens
    <2>8. /\ \A i \in 1..Len(p.toks) : q.toks[i].size \in {p.toks[i].size, p.toks[i].size + 1}
          /\ \A i \in 1..Len(p.toks) : i > k => q.toks[i].size = p.toks[i].size
          /\ \A i \in 1..Len(p.toks) : q.toks[i].size = Raised(p.toks[i].size, i = k)
      BY <2>1, <2>3, <2>5, <2>6 DEF Raised
    <2> QED BY <2>4, <2>6, <2>7, <2>8 DEF k
  <1> QED BY <1>1, <1>2

(* A token is appended and counted as a child of the token that counts.    *)
LEMMA AppendedOK ==
    ASSUME NEW ts \in Seq(Tokens), ChildrenFollow(ts), NEW t \in Tokens, t.size = 0,
           NEW us \in Seq(Tokens), Len(us) = Len(ts) + 1, NEW s \in 0..Len(ts),
           \A i \in 1..Len(ts) : us[i].size \in {ts[i].size, ts[i].size + 1},
           us[Len(ts) + 1].size = 0
    PROVE  ChildrenFollow(us)
  <1> SUFFICES ASSUME NEW i \in 1..Len(us) PROVE us[i].size <= Len(us) - i
    BY DEF ChildrenFollow
  <1>0. Len(ts) \in Nat
    BY LenProperties
  <1>1. CASE i = Len(us)
    BY <1>0, <1>1
  <1>2. CASE i # Len(us)
    <2>1. i \in 1..Len(ts)
      BY <1>0, <1>2
    <2>2. ts[i].size <= Len(ts) - i /\ ts[i].size \in Nat
      BY <2>1, TokenFields DEF ChildrenFollow
    <2> QED BY <1>0, <2>1, <2>2
  <1> QED BY <1>1, <1>2

LEMMA LeafOK ==
    ASSUME NEW p, NEW n \in Nat, room \in Nat, ParserOK(p, n), Running(p), p.mode # "value",
           NEW type \in {"string", "primitive"}
    PROVE  LET q == Leaf(p, type, n)
           IN  ParserOK(q, n) /\ (Running(q) => q.mode = "value")
  <1>0. /\ p \in Parsers /\ p.toks \in Seq(Tokens) /\ Len(p.toks) \in Nat
        /\ p.super \in 0..Len(p.toks) /\ p.begin \in Nat
    BY ParserFields DEF ParserOK
  <1>1. CASE Full(p)
    BY <1>1, RefuseOK DEF Leaf
  <1>2. CASE ~ Full(p)
    <2> DEFINE t == Token(type, p.begin, n)
               ts == Append(p.toks, t)
               r == [p EXCEPT !.toks = ts, !.mode = "value"]
               q == Counted(r)
    <2>1. t \in Tokens /\ t.start = p.begin /\ t.end = n /\ t.size = 0
      BY <1>0 DEF Token, Tokens
    <2> HIDE DEF t
    <2>2. /\ ts \in Seq(Tokens) /\ Len(ts) = Len(p.toks) + 1 /\ ts[Len(p.toks) + 1] = t
          /\ \A i \in 1..Len(p.toks) : ts[i] = p.toks[i]
      BY <1>0, <2>1, AppendProperties
    <2>3. InPlace(ts, n)
      <3>1. Before(p.toks, t.start) /\ InPlace(p.toks, n) /\ t.start <= n
        BY <2>1 DEF ParserOK
      <3>2. IF t.end = -1 THEN t.type \in Containers /\ t.start < n
            ELSE t.start <= t.end /\ t.end <= n
        BY <2>1, <3>1
      <3> QED BY <1>0, <2>1, <3>1, <3>2, PlaceAppend
    <2> HIDE DEF ts
    <2>4. /\ r \in Parsers /\ r.toks = ts /\ r.super = p.super /\ r.mode = "value"
          /\ r.begin = p.begin /\ r.outcome = "running"
      BY <1>0, <2>2 DEF Parsers, Running
    <2> HIDE DEF r
    <2>5. r.super <= Len(r.toks)
      BY <1>0, <2>2, <2>4
    <2>6. /\ q \in Parsers /\ SameTokens(ts, q.toks)
          /\ \A i \in 1..Len(ts) : q.toks[i].size \in {ts[i].size, ts[i].size + 1}
          /\ \A i \in 1..Len(ts) : i > p.super => q.toks[i].size = ts[i].size
          /\ q.super = p.super /\ q.mode = "value" /\ q.outcome = "running"
      BY <2>4, <2>5, CountedTokens
    <2>7. q.toks \in Seq(Tokens) /\ Len(q.toks) = Len(p.toks) + 1
      BY <2>2, <2>6, ParserFields DEF SameTokens
    <2>8. InPlace(q.toks, n)
      BY <2>3, <2>6, SamePlace
    <2>9. ChildrenFollow(q.toks)
      <3>1. \A i \in 1..Len(p.toks) : q.toks[i].size \in {p.toks[i].size, p.toks[i].size + 1}
        BY <1>0, <2>2, <2>6
      <3>2. q.toks[Len(p.toks) + 1].size = 0
        BY <1>0, <2>1, <2>2, <2>6
      <3>3. ChildrenFollow(p.toks)
        BY DEF ParserOK
      <3> HIDE DEF q
      <3> QED BY <1>0, <2>1, <2>7, <3>1, <3>2, <3>3, AppendedOK
    <2>10. Len(q.toks) <= room /\ q.super <= Len(q.toks)
      BY <1>0, <1>2, <2>6, <2>7 DEF Full
    <2>11. Leaf(p, type, n) = q
      BY <1>2 DEF Leaf, r, ts, t
    <2> HIDE DEF q
    <2>12. ParserOK(q, n)
      BY <2>6, <2>8, <2>9, <2>10 DEF ParserOK
    <2> QED BY <2>6, <2>11, <2>12
  <1> QED BY <1>1, <1>2

LEMMA OpenOK ==
    ASSUME NEW p, NEW n \in Nat, room \in Nat, ParserOK(p, n), Running(p), p.mode = "value",
           NEW type \in Containers
    PROVE  ParserOK(Open(p, type, n), n + 1)
  <1>0. /\ p \in Parsers /\ p.toks \in Seq(Tokens) /\ Len(p.toks) \in Nat
        /\ p.super \in 0..Len(p.toks)
    BY ParserFields DEF ParserOK
  <1>1. CASE Full(p)
    BY <1>1, RefuseOK, ParserGrows DEF Open
  <1>2. CASE ~ Full(p)
    <2> DEFINE t == Token(type, n, -1)
               q == Counted(p)
               ts == Append(q.toks, t)
               r == Assigned(q, ts, Len(p.toks) + 1)
    <2>1. t \in Tokens /\ t.start = n /\ t.end = -1 /\ t.size = 0 /\ t.type \in Containers
      BY DEF Token, Tokens
    <2> HIDE DEF t
    <2>2. /\ q \in Parsers /\ SameTokens(p.toks, q.toks)
          /\ \A i \in 1..Len(p.toks) : q.toks[i].size \in {p.toks[i].size, p.toks[i].size + 1}
          /\ q.mode = "value" /\ q.outcome = "running"
      BY <1>0, CountedTokens DEF Running
    <2> HIDE DEF q
    <2>3. q.toks \in Seq(Tokens) /\ Len(q.toks) = Len(p.toks)
      BY <2>2, ParserFields DEF SameTokens
    <2>4. /\ ts \in Seq(Tokens) /\ Len(ts) = Len(p.toks) + 1 /\ ts[Len(p.toks) + 1] = t
          /\ \A i \in 1..Len(p.toks) : ts[i] = q.toks[i]
      BY <1>0, <2>1, <2>3, AppendProperties
    <2>5. InPlace(ts, n + 1)
      <3>1. InPlace(q.toks, n) /\ Before(q.toks, n)
        BY <2>2, SamePlace DEF ParserOK, InPlace
      <3>2. n + 1 \in Nat /\ n <= n + 1 /\ t.start < n + 1 /\ Before(q.toks, t.start)
        BY <2>1, <3>1
      <3> QED BY <2>1, <2>3, <3>1, <3>2, PlaceAppend
    <2>6. ChildrenFollow(ts)
      <3>1. \A i \in 1..Len(p.toks) : ts[i].size \in {p.toks[i].size, p.toks[i].size + 1}
        BY <2>2, <2>4
      <3>2. ChildrenFollow(p.toks) /\ ts[Len(p.toks) + 1].size = 0
        BY <2>1, <2>4 DEF ParserOK
      <3> HIDE DEF ts
      <3> QED BY <1>0, <2>1, <2>4, <3>1, <3>2, AppendedOK
    <2> HIDE DEF ts
    <2>7. /\ r \in Parsers /\ r.toks = ts /\ r.super = Len(p.toks) + 1 /\ r.mode = "value"
          /\ r.outcome = "running"
      <3>1. Len(p.toks) + 1 \in Nat
        BY <1>0
      <3>2. IsAssigned(r, q, ts, Len(p.toks) + 1)
        BY <2>2, <2>4, <3>1, AssignedFields
      <3> QED BY <2>2, <3>2 DEF IsAssigned
    <2>8. Open(p, type, n) = r
      BY <1>2 DEF Open, Assigned, q, ts, t
    <2> HIDE DEF r
    <2>9. ParserOK(r, n + 1)
      BY <1>0, <1>2, <2>4, <2>5, <2>6, <2>7 DEF ParserOK, Full
    <2> QED BY <2>8, <2>9
  <1> QED BY <1>1, <1>2

LEMMA OpenTokensIn ==
    ASSUME NEW p \in Parsers
    PROVE  /\ OpenTokens(p) \subseteq 1..Len(p.toks) /\ Len(p.toks) \in Nat
           /\ \A i \in 1..Len(p.toks) : i \in OpenTokens(p) <=> p.toks[i].end = -1
  BY ParserFields DEF OpenTokens

LEMMA CloseOK ==
    ASSUME NEW p, NEW n \in Nat, ParserOK(p, n), Running(p), p.mode = "value", NEW type
    PROVE  ParserOK(Close(p, type, n), n + 1)
  <1> DEFINE last == LastOf(OpenTokens(p))
             below == LastOf(OpenTokens(p) \ {last})
  <1>0. /\ p \in Parsers /\ p.toks \in Seq(Tokens) /\ Len(p.toks) \in Nat
        /\ OpenTokens(p) \subseteq 1..Len(p.toks)
    BY ParserFields, OpenTokensIn DEF ParserOK
  <1>1. CASE last = 0 \/ p.toks[last].type # type
    BY <1>1, RefuseOK, ParserGrows DEF Close
  <1>2. CASE ~ (last = 0 \/ p.toks[last].type # type)
    <2>1. /\ last \in 1..Len(p.toks) /\ p.toks[last].end = -1
          /\ \A i \in 1..Len(p.toks) : p.toks[i].end = -1 => i <= last
      BY <1>0, <1>2, LastIsIn, OpenTokensIn
    <2>2. below \in 0..Len(p.toks)
      <3>1. OpenTokens(p) \ {last} \subseteq 1..Len(p.toks)
        BY <1>0
      <3>2. below = 0 \/ below \in OpenTokens(p) \ {last}
        BY <1>0, <3>1, LastIsIn
      <3> QED BY <1>0, <3>1, <3>2
    <2> HIDE DEF last, below
    <2> DEFINE t == [p.toks[last] EXCEPT !.end = n + 1]
               ts == [p.toks EXCEPT ![last] = t]
               q == Assigned(p, ts, below)
    <2>3. p.toks[last] \in Tokens
      BY <1>0, <2>1, TokenFields
    <2>4. /\ t \in Tokens /\ t.start = p.toks[last].start /\ t.type = p.toks[last].type
          /\ t.end = n + 1 /\ t.size = p.toks[last].size
      BY <2>3 DEF Tokens
    <2>5. Close(p, type, n) = q
      BY <1>0, <1>2, <2>1, ParserFields DEF Close, Assigned, Parsers, last, below
    <2> HIDE DEF t
    <2>6. /\ ts \in Seq(Tokens) /\ Len(ts) = Len(p.toks)
          /\ \A i \in 1..Len(p.toks) : ts[i] = IF i = last THEN t ELSE p.toks[i]
      BY <1>0, <2>1, <2>4, ExceptSeq
    <2> HIDE DEF ts
    <2>7. InPlace(ts, n + 1)
      BY <1>0, <2>1, <2>4, <2>6, PlaceClose DEF ParserOK
    <2>8. ChildrenFollow(ts)
      BY <2>4, <2>6 DEF ChildrenFollow, ParserOK
    <2>9. /\ q \in Parsers /\ q.toks = ts /\ q.super = below /\ q.mode = "value"
          /\ q.outcome = "running"
      <3>1. below \in Nat
        BY <1>0, <2>2
      <3>2. IsAssigned(q, p, ts, below)
        BY <1>0, <2>6, <3>1, AssignedFields
      <3> QED BY <3>2 DEF IsAssigned, Running
    <2> HIDE DEF q
    <2>10. ParserOK(q, n + 1)
      BY <1>0, <2>2, <2>6, <2>7, <2>8, <2>9 DEF ParserOK
    <2> QED BY <2>5, <2>10
  <1> QED BY <1>1, <1>2

(* Another token counts, and no token changes. *)
LEMMA SuperOK ==
    ASSUME NEW p, NEW n \in Nat, ParserOK(p, n), NEW k \in 0..Len(p.toks)
    PROVE  ParserOK([p EXCEPT !.super = k], n)
  <1> DEFINE q == [p EXCEPT !.super = k]
  <1>0. p \in Parsers /\ Len(p.toks) \in Nat
    BY ParserFields DEF ParserOK
  <1>1. /\ q \in Parsers /\ q.toks = p.toks /\ q.super = k /\ q.mode = p.mode
        /\ q.begin = p.begin /\ q.outcome = p.outcome
    BY <1>0 DEF Parsers
  <1> HIDE DEF q
  <1>2. OpenTokens(q) = OpenTokens(p)
    BY <1>1 DEF OpenTokens
  <1>3. ParserOK(q, n)
    BY <1>0, <1>1, <1>2 DEF ParserOK
  <1> QED BY <1>3 DEF q

LEMMA ColonOK ==
    ASSUME NEW p, NEW n \in Nat, ParserOK(p, n)
    PROVE  ParserOK(Colon(p), n)
  <1>1. Len(p.toks) \in 0..Len(p.toks)
    BY ParserFields DEF ParserOK
  <1> QED BY <1>1, SuperOK DEF Colon

LEMMA CommaOK ==
    ASSUME NEW p, NEW n \in Nat, ParserOK(p, n)
    PROVE  ParserOK(Comma(p), n)
  <1> DEFINE k == LastOf(OpenTokens(p))
  <1>1. p \in Parsers
    BY DEF ParserOK
  <1>2. k \in 0..Len(p.toks)
    <2>1. OpenTokens(p) \subseteq 1..Len(p.toks) /\ Len(p.toks) \in Nat
      BY <1>1, OpenTokensIn
    <2>2. k = 0 \/ k \in OpenTokens(p)
      BY <2>1, LastIsIn
    <2> QED BY <2>1, <2>2
  <1> HIDE DEF k
  <1>3. ParserOK([p EXCEPT !.super = k], n)
    BY <1>2, SuperOK
  <1>4. Comma(p) = p \/ Comma(p) = [p EXCEPT !.super = k]
    BY DEF Comma, k
  <1> QED BY <1>3, <1>4

(* A loop of its own reads a string, an escape or a primitive.             *)
LEMMA ModeOK ==
    ASSUME NEW p, NEW n \in Nat, ParserOK(p, n), Running(p), NEW q, q \in Parsers,
           q.toks = p.toks, q.super = p.super, q.outcome = p.outcome,
           q.begin <= n, Before(p.toks, q.begin)
    PROVE  ParserOK(q, n)
  BY DEF ParserOK, Running

LEMMA BeginsOK ==
    ASSUME NEW p, NEW n \in Nat, ParserOK(p, n), Running(p), p.mode = "value",
           NEW mode \in {"string", "primitive"}, NEW b \in {n, n + 1}
    PROVE  /\ ParserOK([p EXCEPT !.mode = mode, !.begin = b], n + 1)
           /\ Running([p EXCEPT !.mode = mode, !.begin = b])
  <1> DEFINE r == [p EXCEPT !.mode = mode]
             q == [p EXCEPT !.mode = mode, !.begin = b]
  <1>0. p \in Parsers /\ b \in Nat /\ b <= n + 1 /\ n <= b
    BY DEF ParserOK
  <1>1. r \in Parsers /\ r.toks = p.toks /\ r.super = p.super /\ r.outcome = p.outcome
    BY <1>0 DEF Parsers
  <1>2. q = [r EXCEPT !.begin = b]
    BY <1>0 DEF Parsers
  <1> HIDE DEF r, q
  <1>3. /\ q \in Parsers /\ q.toks = p.toks /\ q.super = p.super /\ q.outcome = p.outcome
        /\ q.begin = b
    BY <1>0, <1>1, <1>2 DEF Parsers
  <1>4. Before(p.toks, b)
    BY <1>0, TokenFields, ParserFields DEF ParserOK, InPlace, Before
  <1>5. ParserOK(q, n + 1) /\ Running(q)
    BY <1>0, <1>3, <1>4, ParserGrows, ModeOK DEF Running
  <1> QED BY <1>5 DEF q

LEMMA InPrimitiveOK ==
    ASSUME NEW p, NEW n \in Nat, ParserOK(p, n), NEW c
    PROVE  ParserOK(InPrimitive(p, c), n)
  BY RefuseOK DEF InPrimitive

LEMMA InValueOK ==
    ASSUME NEW p, NEW n \in Nat, room \in Nat, ParserOK(p, n), Running(p), p.mode = "value",
           NEW c \in Characters
    PROVE  ParserOK(InValue(p, c, n), n + 1)
  <1>0. n + 1 \in Nat /\ ParserOK(p, n + 1)
    BY ParserGrows
  <1>1. CASE c \in Opening
    <2>1. c \notin Closing \cup White \cup {"\"", ":", ","}
      BY <1>1 DEF Opening, Closing, White
    <2>2. InValue(p, c, n) = Open(p, TypeOf(c), n)
      BY <1>1, <2>1, Zenon DEF InValue
    <2>3. TypeOf(c) \in Containers
      BY DEF TypeOf, Containers
    <2> QED BY <2>2, <2>3, OpenOK
  <1>2. CASE c \in Closing
    <2>1. c \notin Opening \cup White \cup {"\"", ":", ","}
      BY <1>2 DEF Opening, Closing, White
    <2>2. InValue(p, c, n) = Close(p, TypeOf(c), n)
      BY <1>2, <2>1, Zenon DEF InValue
    <2> QED BY <2>2, CloseOK
  <1>3. CASE c = "\""
    <2>1. c \notin Opening /\ c \notin Closing /\ c \notin White /\ c # ":" /\ c # ","
      BY <1>3 DEF Opening, Closing, White
    <2>2. InValue(p, c, n) = [p EXCEPT !.mode = "string", !.begin = n + 1]
      BY <1>3, <2>1, Zenon DEF InValue
    <2>3. ParserOK([p EXCEPT !.mode = "string", !.begin = n + 1], n + 1)
      BY BeginsOK, Zenon
    <2> QED BY <2>2, <2>3
  <1>4. CASE c \in White
    <2>1. InValue(p, c, n) = p
      BY <1>4 DEF InValue, Opening, Closing, White
    <2> QED BY <1>0, <2>1
  <1>5. CASE c = ":"
    <2>1. InValue(p, c, n) = Colon(p)
      BY <1>5 DEF InValue, Opening, Closing, White
    <2> QED BY <1>0, <2>1, ColonOK
  <1>6. CASE c = ","
    <2>1. InValue(p, c, n) = Comma(p)
      BY <1>6 DEF InValue, Opening, Closing, White
    <2> QED BY <1>0, <2>1, CommaOK
  <1>7. CASE c \notin Opening \cup Closing \cup White \cup {"\"", ":", ","}
    <2>1. InValue(p, c, n) = InPrimitive([p EXCEPT !.mode = "primitive", !.begin = n], c)
      BY <1>7 DEF InValue
    <2>2. ParserOK([p EXCEPT !.mode = "primitive", !.begin = n], n + 1)
      BY BeginsOK
    <2> QED BY <1>0, <2>1, <2>2, InPrimitiveOK
  <1> QED BY <1>1, <1>2, <1>3, <1>4, <1>5, <1>6, <1>7

LEMMA EndPrimitiveOK ==
    ASSUME NEW p, NEW n \in Nat, room \in Nat, ParserOK(p, n), Running(p), p.mode = "primitive",
           NEW c \in Characters
    PROVE  ParserOK(EndPrimitive(p, c, n), n + 1)
  <1> DEFINE q == Leaf(p, "primitive", n)
  <1>1. ParserOK(q, n) /\ (Running(q) => q.mode = "value")
    BY LeafOK
  <1>2. EndPrimitive(p, c, n) = IF Running(q) THEN InValue(q, c, n) ELSE q
    BY DEF EndPrimitive
  <1> HIDE DEF q
  <1> QED BY <1>1, <1>2, InValueOK, ParserGrows

(* The loops of jsmn_parse_string. *)
LEMMA InStringOK ==
    ASSUME NEW p, NEW n \in Nat, room \in Nat, ParserOK(p, n), Running(p),
           p.mode \in {"string", "escape", "hex"}, NEW c
    PROVE  /\ p.mode = "string" => ParserOK(InString(p, c, n), n + 1)
           /\ p.mode = "escape" => ParserOK(InEscape(p, c), n + 1)
           /\ p.mode = "hex" => ParserOK(InHex(p, c), n + 1)
  <1>0. /\ p \in Parsers /\ p.digits \in Int /\ p.begin <= n /\ Before(p.toks, p.begin)
        /\ ParserOK(p, n + 1)
    BY ParserFields, ParserGrows DEF ParserOK
  <1>1. ASSUME NEW mode \in {"string", "escape", "hex"}
        PROVE  /\ [p EXCEPT !.mode = mode] \in Parsers
               /\ ParserOK([p EXCEPT !.mode = mode], n + 1)
    <2> DEFINE q == [p EXCEPT !.mode = mode]
    <2>1. /\ q \in Parsers /\ q.toks = p.toks /\ q.super = p.super /\ q.outcome = p.outcome
          /\ q.begin = p.begin
      BY <1>0 DEF Parsers
    <2> HIDE DEF q
    <2>2. ParserOK(q, n + 1)
      BY <1>0, <2>1, ModeOK, ParserGrows
    <2> QED BY <2>1, <2>2 DEF q
  <1>2. ASSUME NEW mode \in {"string", "escape", "hex"}, NEW d \in Int,
               NEW z, z = [[p EXCEPT !.mode = mode] EXCEPT !.digits = d]
        PROVE  ParserOK(z, n + 1)
    <2> DEFINE q == [p EXCEPT !.mode = mode]
    <2>1. /\ q \in Parsers /\ q.toks = p.toks /\ q.super = p.super /\ q.outcome = p.outcome
          /\ q.begin = p.begin
      BY <1>0 DEF Parsers
    <2>2. z = [q EXCEPT !.digits = d]
      BY <1>2
    <2> HIDE DEF q
    <2>3. /\ z \in Parsers /\ z.toks = p.toks /\ z.super = p.super /\ z.outcome = p.outcome
          /\ z.begin = p.begin
      BY <2>1, <2>2 DEF Parsers
    <2> QED BY <1>0, <2>3, ModeOK, ParserGrows
  <1>3. ASSUME p.mode = "string" PROVE ParserOK(InString(p, c, n), n + 1)
    <2>1. CASE c = "\""
      <3>1. ParserOK(Leaf(p, "string", n), n)
        BY <1>3, LeafOK
      <3>2. InString(p, c, n) = Leaf(p, "string", n)
        BY <2>1 DEF InString
      <3> QED BY <3>1, <3>2, ParserGrows
    <2>2. CASE c # "\""
      <3>1. InString(p, c, n) \in {[p EXCEPT !.mode = "escape"], p}
        BY <2>2 DEF InString
      <3> QED BY <1>0, <1>1, <3>1
    <2> QED BY <2>1, <2>2
  <1>4. ParserOK(InEscape(p, c), n + 1)
    <2>1. CASE c \in Escapable
      <3>1. c # "u"
        BY <2>1 DEF Escapable
      <3>2. InEscape(p, c) = [p EXCEPT !.mode = "string"]
        BY <2>1, <3>1, Zenon DEF InEscape
      <3> QED BY <1>1, <3>2
    <2>2. CASE c = "u"
      <3>1. InEscape(p, c) = [p EXCEPT !.mode = "hex", !.digits = 4]
        BY <2>2 DEF InEscape, Escapable
      <3> DEFINE z == [p EXCEPT !.mode = "hex", !.digits = 4]
      <3>2. z = [[p EXCEPT !.mode = "hex"] EXCEPT !.digits = 4] /\ 4 \in Int
        BY <1>0 DEF Parsers
      <3> HIDE DEF z
      <3>3. ParserOK(z, n + 1)
        BY <1>2, <3>2
      <3> QED BY <3>1, <3>3 DEF z
    <2>3. CASE c \notin Escapable /\ c # "u"
      <3>1. InEscape(p, c) = Refuse(p, "INVAL")
        BY <2>3 DEF InEscape
      <3> QED BY <1>0, <3>1, RefuseOK
    <2> QED BY <2>1, <2>2, <2>3
  <1>5. ParserOK(InHex(p, c), n + 1)
    <2>1. CASE c \notin HexDigits
      BY <1>0, <2>1, RefuseOK DEF InHex
    <2>2. CASE c \in HexDigits
      <3> DEFINE mode == IF p.digits = 1 THEN "string" ELSE "hex"
                 d == p.digits - 1
      <3>1. mode \in {"string", "escape", "hex"} /\ d \in Int
        BY <1>0
      <3>2. InHex(p, c) = [[p EXCEPT !.mode = mode] EXCEPT !.digits = d]
        BY <1>0, <2>2 DEF InHex, Parsers
      <3> HIDE DEF mode, d
      <3> QED BY <1>2, <3>1, <3>2
    <2> QED BY <2>1, <2>2
  <1> QED BY <1>3, <1>4, <1>5

LEMMA LoopOK ==
    ASSUME NEW p, NEW n \in Nat, room \in Nat, ParserOK(p, n), Running(p), NEW c \in Characters
    PROVE  ParserOK(Loop(p, c, n), n + 1)
  <1>0. p.mode \in {"value", "string", "escape", "hex", "primitive"}
    BY ParserFields DEF ParserOK
  <1>1. CASE p.mode = "value"
    BY <1>1, InValueOK DEF Loop
  <1>2. CASE p.mode = "primitive"
    <2>1. Loop(p, c, n) = IF c \in Delimiters THEN EndPrimitive(p, c, n) ELSE InPrimitive(p, c)
      BY <1>2 DEF Loop
    <2> QED BY <1>2, <2>1, EndPrimitiveOK, InPrimitiveOK, ParserGrows
  <1>3. CASE p.mode = "string"
    BY <1>3, InStringOK DEF Loop
  <1>4. CASE p.mode = "escape"
    BY <1>4, InStringOK DEF Loop
  <1>5. CASE p.mode = "hex"
    BY <1>5, InStringOK DEF Loop
  <1> QED BY <1>0, <1>1, <1>2, <1>3, <1>4, <1>5

(* Nothing may be left open at the end of the text.                        *)
LEMMA AtEndOK ==
    ASSUME NEW p, NEW n \in Nat, room \in Nat, ParserOK(p, n), Running(p)
    PROVE  ParserOK(AtEnd(p, n), n)
  <1>1. ASSUME NEW q, ParserOK(q, n)
        PROVE  ParserOK(Finish(q), n)
    <2>1. CASE ~ Running(q)
      BY <1>1, <2>1 DEF Finish
    <2>2. CASE Running(q) /\ OpenTokens(q) # {}
      BY <1>1, <2>2, RefuseOK DEF Finish
    <2>3. CASE Running(q) /\ OpenTokens(q) = {}
      <3> DEFINE r == Refuse(q, "ok")
      <3>1. Finish(q) = r
        BY <2>3 DEF Finish
      <3>2. /\ r \in Parsers /\ r.toks = q.toks /\ r.super = q.super /\ r.mode = q.mode
            /\ r.begin = q.begin
        BY <1>1 DEF Refuse, Parsers, ParserOK
      <3> HIDE DEF r
      <3>3. OpenTokens(r) = {}
        BY <2>3, <3>2 DEF OpenTokens
      <3>4. ParserOK(r, n)
        BY <1>1, <3>2, <3>3 DEF ParserOK
      <3> QED BY <3>1, <3>4
    <2> QED BY <2>1, <2>2, <2>3
  <1>2. CASE p.mode = "value"
    BY <1>1, <1>2 DEF AtEnd
  <1>3. CASE p.mode = "primitive"
    <2>1. AtEnd(p, n) = Finish(Leaf(p, "primitive", n))
      BY <1>3 DEF AtEnd
    <2>2. ParserOK(Leaf(p, "primitive", n), n)
      BY <1>3, LeafOK
    <2> QED BY <1>1, <2>1, <2>2
  <1>4. CASE p.mode \notin {"value", "primitive"}
    BY <1>4, RefuseOK DEF AtEnd
  <1> QED BY <1>2, <1>3, <1>4

-----------------------------------------------------------------------------
LEMMA InvStart ==
    ASSUME Init
    PROVE  Inv
  <1>1. NewParser \in Parsers
    <2>1. << >> \in Seq(Tokens)
      BY EmptySeq
    <2> QED BY <2>1 DEF NewParser, Parsers
  <1>2. Len(parser.toks) = 0 /\ parser = NewParser /\ text = << >> /\ room \in Nat
    BY RoomsAssumption DEF Init, NewParser
  <1>3. 1..0 = {}
    OBVIOUS
  <1>4. parser.super = 0 /\ parser.mode = "value" /\ parser.outcome = "running"
    BY <1>2 DEF NewParser
  <1>5. InPlace(parser.toks, 0) /\ ChildrenFollow(parser.toks)
    BY <1>2, <1>3 DEF InPlace, Before, ChildrenFollow
  <1>6. ParserOK(parser, 0)
    BY <1>1, <1>2, <1>4, <1>5 DEF ParserOK
  <1> QED BY <1>2, <1>6 DEF Inv

LEMMA InvKept ==
    ASSUME Inv, [Next]_vars
    PROVE  Inv'
  <1>0. Len(text) \in Nat /\ text \in Seq(Characters) /\ room \in Nat /\ ParserOK(parser, Len(text))
    BY LenProperties DEF Inv
  <1>1. ASSUME NEW c \in Characters, Read(c)
        PROVE  Inv'
    <2>1. text' \in Seq(Characters) /\ Len(text') = Len(text) + 1 /\ room' = room
      BY <1>0, <1>1, AppendProperties DEF Read
    <2>2. ParserOK(Loop(parser, c, Len(text)), Len(text) + 1)
      BY <1>0, <1>1, LoopOK DEF Read
    <2>3. ParserOK(parser, Len(text))'
      BY <1>1, <2>1, <2>2 DEF Read, ParserOK
    <2> QED BY <1>0, <2>1, <2>3 DEF Inv
  <1>2. CASE End
    <2>1. ParserOK(AtEnd(parser, Len(text)), Len(text))
      BY <1>0, <1>2, AtEndOK DEF End
    <2>2. text' = text /\ room' = room /\ parser' = AtEnd(parser, Len(text))
      BY <1>2 DEF End
    <2> QED BY <1>0, <2>1, <2>2 DEF Inv, ParserOK
  <1>3. CASE UNCHANGED vars
    BY <1>0, <1>3 DEF vars, Inv, ParserOK
  <1> QED BY <1>1, <1>2, <1>3 DEF Next

(* What is given for a read text is known by the invariant.                *)
LEMMA InvPlaces ==
    ASSUME Inv
    PROVE  TokensInPlace /\ ChildCountsFit
  <1>0. /\ ParserOK(parser, Len(text)) /\ Len(text) \in Nat /\ parser \in Parsers
        /\ DOMAIN parser.toks = 1..Len(parser.toks) /\ parser.toks \in Seq(Tokens)
    BY ParserFields, LenProperties DEF Inv, ParserOK
  <1>1. Len(parser.toks) <= room /\ ChildCountsFit
    BY <1>0 DEF ParserOK, ChildCountsFit
  <1>2. ASSUME parser.outcome = "ok", NEW i \in DOMAIN parser.toks, NEW j \in DOMAIN parser.toks
        PROVE  LET a == parser.toks[i]
                   b == parser.toks[j]
               IN  /\ 0 <= a.start /\ a.start <= a.end /\ a.end <= Len(text)
                   /\ i < j => \/ a.end <= b.start
                               \/ /\ a.type \in Containers
                                  /\ a.start < b.start /\ b.end < a.end
    <2> DEFINE a == parser.toks[i]
               b == parser.toks[j]
    <2>1. a.end # -1 /\ b.end # -1
      BY <1>0, <1>2 DEF ParserOK, OpenTokens
    <2>2. a.start \in Nat /\ a.start <= a.end /\ a.end <= Len(text)
      BY <1>0, <2>1, TokenFields DEF ParserOK, InPlace, Before
    <2>3. i < j => Apart(a, b)
      BY <1>0 DEF ParserOK, InPlace
    <2> HIDE DEF a, b
    <2>4. i < j => \/ a.end <= b.start
                   \/ a.type \in Containers /\ a.start < b.start /\ b.end < a.end
      BY <2>1, <2>3 DEF Apart
    <2> QED BY <2>2, <2>4 DEF a, b
  <1> QED BY <1>1, <1>2 DEF TokensInPlace

(* jsmn_parse on any text, of any length, with any token array.            *)
THEOREM JsmnInv == Spec => []Inv
  <1>1. Init => Inv
    BY InvStart
  <1>2. Inv /\ [Next]_vars => Inv'
    BY InvKept
  <1> QED BY <1>1, <1>2, PTL DEF Spec

(* No token is written behind the array, and the tokens of an accepted     *)
(* text are pieces of it that lie behind or inside each other.             *)
THEOREM JsmnTokensInPlace == Spec => []TokensInPlace
  <1>1. Inv => TokensInPlace
    BY InvPlaces
  <1> QED BY <1>1, JsmnInv, PTL

(* A token claims no more children than the array holds behind it.         *)
THEOREM JsmnChildCountsFit == Spec => []ChildCountsFit
  <1>1. Inv => ChildCountsFit
    BY InvPlaces
  <1> QED BY <1>1, JsmnInv, PTL

-----------------------------------------------------------------------------
(* The parser and the nesting of its text, place by place.                 *)
Places == [depth : Int, in : {"between", "word", "string", "escape"}]

LEMMA NestIs ==
    ASSUME NEW at \in Places, NEW c \in Characters
    PROVE  /\ Nest(at, c) \in Places
           /\ at.in = "escape" => Nest(at, c).depth = at.depth /\ Nest(at, c).in = "string"
           /\ at.in = "string" =>
                  /\ Nest(at, c).depth = at.depth
                  /\ Nest(at, c).in = IF c = "\"" THEN "between"
                                      ELSE IF c = "\\" THEN "escape" ELSE "string"
           /\ at.in = "word" /\ c \notin Delimiters => Nest(at, c) = at
           /\ at.in = "between" \/ (at.in = "word" /\ c \in Delimiters) =>
                  /\ Nest(at, c).depth = at.depth + Bracket(c)
                  /\ Nest(at, c).in = IF c = "\"" THEN "string"
                                      ELSE IF c \in Opening \cup Delimiters THEN "between" ELSE "word"
  <1>1. Bracket(c) \in Int
    BY DEF Bracket
  <1>2. at.in \in {"between", "word", "string", "escape"} /\ at.depth \in Int
    BY DEF Places
  <1> HIDE DEF Bracket
  <1>3. CASE at.in = "escape"
    <2>1. Nest(at, c) = [at EXCEPT !.in = "string"]
      BY <1>3 DEF Nest
    <2>2. /\ [at EXCEPT !.in = "string"] \in Places
          /\ [at EXCEPT !.in = "string"].depth = at.depth
          /\ [at EXCEPT !.in = "string"].in = "string"
      BY DEF Places
    <2>3. at.in # "string" /\ at.in # "word" /\ at.in # "between"
      BY <1>3
    <2> QED BY <2>1, <2>2, <2>3
  <1>4. CASE at.in = "string"
    <2> DEFINE m == IF c = "\"" THEN "between" ELSE IF c = "\\" THEN "escape" ELSE "string"
    <2>1. at.in # "escape" /\ at.in # "word" /\ at.in # "between"
      BY <1>4
    <2>2. Nest(at, c) = [at EXCEPT !.in = m]
      BY <1>4, <2>1 DEF Nest
    <2>3. m \in {"between", "word", "string", "escape"}
      OBVIOUS
    <2> HIDE DEF m
    <2>4. /\ [at EXCEPT !.in = m] \in Places
          /\ [at EXCEPT !.in = m].depth = at.depth
          /\ [at EXCEPT !.in = m].in = m
      BY <2>3 DEF Places
    <2> QED BY <2>1, <2>2, <2>4 DEF m
  <1>5. CASE at.in = "word" /\ c \notin Delimiters
    <2>1. at.in # "escape" /\ at.in # "string" /\ at.in # "between"
      BY <1>5
    <2>2. Nest(at, c) = at
      BY <1>5, <2>1 DEF Nest
    <2> QED BY <1>5, <2>1, <2>2
  <1>6. CASE at.in = "between" \/ (at.in = "word" /\ c \in Delimiters)
    <2> DEFINE m == IF c = "\"" THEN "string"
                    ELSE IF c \in Opening \cup Delimiters THEN "between" ELSE "word"
               d == at.depth + Bracket(c)
    <2>1. at.in # "escape" /\ at.in # "string" /\ ~ (at.in = "word" /\ c \notin Delimiters)
      BY <1>6
    <2>2. Nest(at, c) = [depth |-> d, in |-> m]
      BY <2>1 DEF Nest
    <2>3. m \in {"between", "word", "string", "escape"} /\ d \in Int
      BY <1>1, <1>2
    <2> HIDE DEF m, d
    <2>4. /\ Nest(at, c) \in Places
          /\ Nest(at, c).depth = d
          /\ Nest(at, c).in = m
      BY <2>2, <2>3 DEF Places
    <2> QED BY <2>1, <2>4 DEF m, d
  <1> QED BY <1>2, <1>3, <1>4, <1>5, <1>6

IsNesting(at, t) ==
    /\ at \in [0..Len(t) -> Places]
    /\ at[0] = [depth |-> 0, in |-> "between"]
    /\ \A n \in 1..Len(t) : at[n] = Nest(at[n - 1], t[n])

LEMMA NestingIs ==
    ASSUME NEW t \in Seq(Characters)
    PROVE  IsNesting(Nesting(t), t)
  <1> DEFINE start == [depth |-> 0, in |-> "between"]
             next == [n \in 1..Len(t) |-> [at \in Places |-> Nest(at, t[n])]]
             Body(f, n) == IF n = 0 THEN start ELSE Nest(f[n - 1], t[n])
             Is(f) == f = [n \in 0..Len(t) |-> Body(f, n)]
  <1>1. Len(t) \in Nat /\ start \in Places /\ \A n \in 1..Len(t) : t[n] \in Characters
    BY LenProperties, ElementOfSeq DEF Places
  <1>2. next \in [1..Len(t) -> [Places -> Places]]
    BY <1>1, NestIs
  <1>3. PICK f \in [0..Len(t) -> Places] : IsLoop(f, Len(t), start, next)
    <2> HIDE DEF start, next
    <2> QED BY <1>1, <1>2, LoopExists DEF HasLoop
  <1>4. Is(f)
    <2>1. ASSUME NEW n \in 0..Len(t)
          PROVE  (IF n = 0 THEN start ELSE next[n][f[n - 1]]) = Body(f, n)
      <3>1. n # 0 => n \in 1..Len(t) /\ f[n - 1] \in Places
        BY <1>1, <1>3
      <3>2. n # 0 => next[n][f[n - 1]] = Nest(f[n - 1], t[n])
        BY <3>1
      <3> HIDE DEF start, next
      <3> QED BY <3>2
    <2>2. f = [n \in 0..Len(t) |-> IF n = 0 THEN start ELSE next[n][f[n - 1]]]
      BY <1>3 DEF IsLoop
    <2> HIDE DEF start, next, Body
    <2> QED BY <2>1, <2>2
  <1>5. \E g : Is(g)
    BY <1>4
  <1> DEFINE N == CHOOSE g : Is(g)
  <1>6. Is(N)
    <2> HIDE DEF Is
    <2> QED BY <1>5, Zenon
  <1>7. N = Nesting(t)
    BY DEF Nesting
  <1> HIDE DEF N
  <1>8. /\ DOMAIN N = 0..Len(t) /\ N[0] = start
        /\ \A n \in 1..Len(t) : N[n] = Nest(N[n - 1], t[n])
    <2>1. \A n \in 0..Len(t) : N[n] = Body(N, n)
      <3> HIDE DEF Body
      <3> QED BY <1>6
    <2>2. DOMAIN N = 0..Len(t)
      <3> HIDE DEF Body
      <3> QED BY <1>6
    <2>3. N[0] = start
      BY <1>1, <2>1
    <2>4. ASSUME NEW n \in 1..Len(t)
          PROVE  N[n] = Nest(N[n - 1], t[n])
      <3>1. n \in 0..Len(t) /\ n # 0
        BY <1>1
      <3> QED BY <2>1, <3>1
    <2> QED BY <2>2, <2>3, <2>4
  <1>9. \A n \in 0..Len(t) : N[n] \in Places
    <2> DEFINE T == { n \in Nat : n <= Len(t) => N[n] \in Places }
    <2>1. 0 \in T
      BY <1>1, <1>8
    <2>2. \A n \in Nat : n \in T => n + 1 \in T
      <3> SUFFICES ASSUME NEW n \in Nat, n \in T, n + 1 <= Len(t)
                   PROVE  N[n + 1] \in Places
        OBVIOUS
      <3>1. n + 1 \in 1..Len(t) /\ (n + 1) - 1 = n /\ n <= Len(t)
        BY <1>1
      <3>2. N[n + 1] = Nest(N[n], t[n + 1]) /\ N[n] \in Places /\ t[n + 1] \in Characters
        BY <1>1, <1>8, <3>1
      <3>3. \A at \in Places, c \in Characters : Nest(at, c) \in Places
        BY NestIs
      <3> QED BY <3>2, <3>3
    <2>3. \A n \in Nat : n \in T
      <3> HIDE DEF T
      <3> QED BY <2>1, <2>2, UpFromZero
    <2> QED BY <1>1, <2>3
  <1>10. N \in [0..Len(t) -> Places]
    <2>1. N = [n \in 0..Len(t) |-> N[n]]
      <3> HIDE DEF Body
      <3> QED BY <1>6
    <2> QED BY <1>9, <2>1
  <1> QED BY <1>7, <1>8, <1>10 DEF IsNesting

(* How many tokens are open.                                               *)
Deep(p, d) == IsFiniteSet(OpenTokens(p)) /\ Cardinality(OpenTokens(p)) = d

LEMMA OpenAre ==
    ASSUME NEW p \in Parsers
    PROVE  OpenTokens(p) = { i \in 1..Len(p.toks) : p.toks[i].end = -1 }
  BY ParserFields DEF OpenTokens

(* A leaf is closed as soon as it is there.                                *)
LEMMA LeafDeep ==
    ASSUME NEW p, NEW n \in Nat, ParserOK(p, n), NEW type \in {"string", "primitive"},
           NEW d, Deep(p, d), Running(p), Running(Leaf(p, type, n))
    PROVE  Deep(Leaf(p, type, n), d) /\ Leaf(p, type, n).mode = "value"
  <1> DEFINE t == Token(type, p.begin, n)
             ts == Append(p.toks, t)
             r == [p EXCEPT !.toks = ts, !.mode = "value"]
             q == Counted(r)
  <1>0. /\ p \in Parsers /\ p.toks \in Seq(Tokens) /\ Len(p.toks) \in Nat
        /\ p.super \in 0..Len(p.toks) /\ p.begin \in Nat
    BY ParserFields DEF ParserOK
  <1>1. ~ Full(p)
    BY RefuseOK DEF Leaf
  <1>2. Leaf(p, type, n) = q
    BY <1>1 DEF Leaf
  <1>3. t \in Tokens /\ t.end = n
    BY <1>0 DEF Token, Tokens
  <1> HIDE DEF t
  <1>4. /\ ts \in Seq(Tokens) /\ Len(ts) = Len(p.toks) + 1 /\ ts[Len(p.toks) + 1] = t
        /\ \A i \in 1..Len(p.toks) : ts[i] = p.toks[i]
    BY <1>0, <1>3, AppendProperties
  <1> HIDE DEF ts
  <1>5. r \in Parsers /\ r.toks = ts /\ r.super = p.super /\ r.mode = "value"
    BY <1>0, <1>4 DEF Parsers
  <1> HIDE DEF r
  <1>6. q \in Parsers /\ SameTokens(ts, q.toks) /\ q.mode = "value"
    <2>1. r.super <= Len(r.toks)
      BY <1>0, <1>4, <1>5
    <2> QED BY <1>5, <2>1, CountedTokens
  <1> HIDE DEF q
  <1>7. OpenTokens(q) = OpenTokens(p)
    <2>0. 1..(Len(p.toks) + 1) = (1..Len(p.toks)) \cup {Len(p.toks) + 1}
      BY <1>0
    <2>1. ASSUME NEW i \in 1..Len(p.toks)
          PROVE  q.toks[i].end = p.toks[i].end
      <3>1. i \in 1..Len(ts) /\ ts[i] = p.toks[i]
        BY <1>4, <2>0
      <3> QED BY <1>6, <3>1 DEF SameTokens
    <2>2. q.toks[Len(p.toks) + 1].end # -1
      <3>1. Len(p.toks) + 1 \in 1..Len(ts)
        BY <1>4, <2>0
      <3>2. q.toks[Len(p.toks) + 1].end = n
        BY <1>3, <1>4, <1>6, <3>1 DEF SameTokens
      <3> QED BY <3>2
    <2>3. /\ OpenTokens(q) = { i \in 1..(Len(p.toks) + 1) : q.toks[i].end = -1 }
          /\ OpenTokens(p) = { i \in 1..Len(p.toks) : p.toks[i].end = -1 }
      BY <1>0, <1>4, <1>6, OpenAre DEF SameTokens
    <2>4. OpenTokens(q) \subseteq OpenTokens(p)
      BY <2>0, <2>1, <2>2, <2>3
    <2>5. OpenTokens(p) \subseteq OpenTokens(q)
      BY <2>0, <2>1, <2>3
    <2> QED BY <2>4, <2>5
  <1> QED BY <1>2, <1>6, <1>7 DEF Deep

LEMMA OpenDeep ==
    ASSUME NEW p, NEW n \in Nat, ParserOK(p, n), NEW type \in Containers,
           NEW d, Deep(p, d), Running(p), Running(Open(p, type, n))
    PROVE  Deep(Open(p, type, n), d + 1) /\ Open(p, type, n).mode = p.mode
  <1> DEFINE t == Token(type, n, -1)
             q == Counted(p)
             ts == Append(q.toks, t)
             r == Assigned(q, ts, Len(p.toks) + 1)
  <1>0. /\ p \in Parsers /\ p.toks \in Seq(Tokens) /\ Len(p.toks) \in Nat
        /\ p.super \in 0..Len(p.toks)
    BY ParserFields DEF ParserOK
  <1>1. ~ Full(p)
    BY RefuseOK DEF Open
  <1>2. Open(p, type, n) = r
    BY <1>1 DEF Open, Assigned
  <1>3. t \in Tokens /\ t.end = -1
    BY DEF Token, Tokens
  <1> HIDE DEF t
  <1>4. q \in Parsers /\ SameTokens(p.toks, q.toks) /\ q.mode = p.mode
    BY <1>0, CountedTokens
  <1> HIDE DEF q
  <1>5. q.toks \in Seq(Tokens) /\ Len(q.toks) = Len(p.toks)
    BY <1>4, ParserFields DEF SameTokens
  <1>6. /\ ts \in Seq(Tokens) /\ Len(ts) = Len(p.toks) + 1 /\ ts[Len(p.toks) + 1] = t
        /\ \A i \in 1..Len(p.toks) : ts[i] = q.toks[i]
    BY <1>0, <1>3, <1>5, AppendProperties
  <1> HIDE DEF ts
  <1>7. r \in Parsers /\ r.toks = ts /\ r.mode = p.mode
    <2>1. Len(p.toks) + 1 \in Nat
      BY <1>0
    <2>2. IsAssigned(r, q, ts, Len(p.toks) + 1)
      BY <1>4, <1>6, <2>1, AssignedFields
    <2> QED BY <1>4, <2>2 DEF IsAssigned
  <1> HIDE DEF r
  <1>8. OpenTokens(r) = OpenTokens(p) \cup {Len(p.toks) + 1}
    <2>1. ASSUME NEW i \in 1..Len(p.toks)
          PROVE  r.toks[i].end = p.toks[i].end /\ i # Len(p.toks) + 1
      <3>1. r.toks[i] = q.toks[i] /\ q.toks[i].end = p.toks[i].end
        BY <1>4, <1>6, <1>7 DEF SameTokens
      <3> QED BY <1>0, <3>1
    <2>2. /\ OpenTokens(r) = { i \in 1..(Len(p.toks) + 1) : r.toks[i].end = -1 }
          /\ OpenTokens(p) = { i \in 1..Len(p.toks) : p.toks[i].end = -1 }
      BY <1>0, <1>6, <1>7, OpenAre
    <2>3. r.toks[Len(p.toks) + 1].end = -1
      BY <1>3, <1>6, <1>7
    <2>4. 1..(Len(p.toks) + 1) = (1..Len(p.toks)) \cup {Len(p.toks) + 1}
      BY <1>0
    <2>5. OpenTokens(r) \subseteq OpenTokens(p) \cup {Len(p.toks) + 1}
      BY <2>1, <2>2, <2>4
    <2>6. OpenTokens(p) \cup {Len(p.toks) + 1} \subseteq OpenTokens(r)
      BY <2>1, <2>2, <2>3, <2>4
    <2> QED BY <2>5, <2>6
  <1>9. Len(p.toks) + 1 \notin OpenTokens(p)
    BY <1>0, OpenAre
  <1>10. Deep(r, d + 1)
    <2>1. /\ IsFiniteSet(OpenTokens(p) \cup {Len(p.toks) + 1})
          /\ Cardinality(OpenTokens(p) \cup {Len(p.toks) + 1}) = Cardinality(OpenTokens(p)) + 1
      BY <1>9, FS_AddElement DEF Deep
    <2> QED BY <1>8, <2>1 DEF Deep
  <1> QED BY <1>2, <1>7, <1>10

LEMMA CloseDeep ==
    ASSUME NEW p, NEW n \in Nat, ParserOK(p, n), NEW type,
           NEW d, Deep(p, d), Running(p), Running(Close(p, type, n))
    PROVE  Deep(Close(p, type, n), d - 1) /\ Close(p, type, n).mode = p.mode
  <1> DEFINE last == LastOf(OpenTokens(p))
             below == LastOf(OpenTokens(p) \ {last})
             t == [p.toks[last] EXCEPT !.end = n + 1]
             ts == [p.toks EXCEPT ![last] = t]
             q == Assigned(p, ts, below)
  <1>0. /\ p \in Parsers /\ p.toks \in Seq(Tokens) /\ Len(p.toks) \in Nat
        /\ OpenTokens(p) \subseteq 1..Len(p.toks)
    BY ParserFields, OpenTokensIn DEF ParserOK
  <1>1. ~ (last = 0 \/ p.toks[last].type # type)
    BY RefuseOK DEF Close
  <1>2. last \in OpenTokens(p) /\ last \in 1..Len(p.toks)
    BY <1>0, <1>1, LastIsIn
  <1>3. below \in Nat
    <2>1. OpenTokens(p) \ {last} \subseteq 1..Len(p.toks)
      BY <1>0
    <2>2. below = 0 \/ below \in OpenTokens(p) \ {last}
      BY <1>0, <2>1, LastIsIn
    <2> QED BY <1>0, <2>1, <2>2
  <1>4. Close(p, type, n) = q
    BY <1>0, <1>1, <1>2 DEF Close, Assigned, Parsers
  <1> HIDE DEF below
  <1>5. t \in Tokens /\ t.end = n + 1
    <2>1. p.toks[last] \in Tokens
      BY <1>0, <1>2, TokenFields
    <2> HIDE DEF last
    <2> QED BY <2>1 DEF Tokens
  <1> HIDE DEF t, last
  <1>6. /\ ts \in Seq(Tokens) /\ Len(ts) = Len(p.toks)
        /\ \A i \in 1..Len(p.toks) : ts[i] = IF i = last THEN t ELSE p.toks[i]
    BY <1>0, <1>2, <1>5, ExceptSeq
  <1> HIDE DEF ts
  <1>7. q \in Parsers /\ q.toks = ts /\ q.mode = p.mode
    <2>1. IsAssigned(q, p, ts, below)
      BY <1>0, <1>3, <1>6, AssignedFields
    <2> QED BY <2>1 DEF IsAssigned
  <1> HIDE DEF q
  <1>8. OpenTokens(q) = OpenTokens(p) \ {last}
    <2>1. \A i \in 1..Len(p.toks) : q.toks[i].end = -1 <=> i # last /\ p.toks[i].end = -1
      BY <1>0, <1>5, <1>6, <1>7
    <2> QED BY <1>0, <1>6, <1>7, <2>1, OpenAre
  <1>9. Deep(q, d - 1)
    BY <1>2, <1>8, FS_RemoveElement DEF Deep
  <1> QED BY <1>4, <1>7, <1>9

(* What stays the same when no token is touched. *)
LEMMA UntouchedDeep ==
    ASSUME NEW p, NEW q, q.toks = p.toks, NEW d, Deep(p, d)
    PROVE  Deep(q, d)
  <1>1. OpenTokens(q) = OpenTokens(p)
    BY DEF OpenTokens
  <1> QED BY <1>1 DEF Deep

ModeAfter(c) == IF c = "\"" THEN "string"
                ELSE IF c \in Opening \cup Delimiters THEN "value" ELSE "primitive"

LEMMA InValueDeep ==
    ASSUME NEW p, NEW n \in Nat, ParserOK(p, n), Running(p), p.mode = "value",
           NEW c \in Characters, NEW d \in Int, Deep(p, d), Running(InValue(p, c, n))
    PROVE  Deep(InValue(p, c, n), d + Bracket(c)) /\ InValue(p, c, n).mode = ModeAfter(c)
  <1>0. p \in Parsers
    BY DEF ParserOK
  <1>1. CASE c \in Opening
    <2>1. c \notin Closing \cup White \cup {"\"", ":", ","}
      BY <1>1 DEF Opening, Closing, White
    <2>2. InValue(p, c, n) = Open(p, TypeOf(c), n)
      BY <1>1, <2>1, Zenon DEF InValue
    <2>3. TypeOf(c) \in Containers
      BY DEF TypeOf, Containers
    <2>4. Deep(Open(p, TypeOf(c), n), d + 1) /\ Open(p, TypeOf(c), n).mode = "value"
      BY <2>2, <2>3, OpenDeep
    <2>5. Bracket(c) = 1 /\ ModeAfter(c) = "value"
      BY <1>1, <2>1 DEF Bracket, ModeAfter
    <2> QED BY <2>2, <2>4, <2>5
  <1>2. CASE c \in Closing
    <2>1. c \notin Opening \cup White \cup {"\"", ":", ","}
      BY <1>2 DEF Opening, Closing, White
    <2>2. InValue(p, c, n) = Close(p, TypeOf(c), n)
      BY <1>2, <2>1, Zenon DEF InValue
    <2>3. Deep(Close(p, TypeOf(c), n), d - 1) /\ Close(p, TypeOf(c), n).mode = "value"
      BY <2>2, CloseDeep
    <2>4. Bracket(c) = -1 /\ ModeAfter(c) = "value"
      BY <1>2, <2>1 DEF Bracket, ModeAfter, Delimiters
    <2>5. d + Bracket(c) = d - 1
      BY <2>4
    <2> QED BY <2>2, <2>3, <2>4, <2>5
  <1>3. CASE c \notin Opening \cup Closing
    <2>1. d + Bracket(c) = d
      BY <1>3 DEF Bracket
    <2>2. CASE c = "\""
      <3> DEFINE q == [p EXCEPT !.mode = "string", !.begin = n + 1]
      <3>1. c \notin White /\ c # ":" /\ c # ","
        BY <2>2 DEF White
      <3>2. InValue(p, c, n) = q
        BY <1>3, <2>2, <3>1, Zenon DEF InValue
      <3>3. q.toks = p.toks /\ q.mode = "string"
        BY <1>0 DEF Parsers
      <3> HIDE DEF q
      <3>4. Deep(q, d) /\ ModeAfter(c) = "string"
        BY <2>2, <3>3, UntouchedDeep DEF ModeAfter
      <3> QED BY <2>1, <3>2, <3>3, <3>4
    <2>3. CASE c \in White
      <3>1. InValue(p, c, n) = p
        BY <2>3 DEF InValue, Opening, Closing, White
      <3>2. ModeAfter(c) = "value"
        BY <2>3 DEF ModeAfter, Delimiters, White
      <3> QED BY <2>1, <3>1, <3>2
    <2>4. CASE c = ":"
      <3>1. InValue(p, c, n) = Colon(p)
        BY <2>4 DEF InValue, Opening, Closing, White
      <3>2. Colon(p).toks = p.toks /\ Colon(p).mode = "value"
        BY <1>0 DEF Colon, Parsers
      <3>3. Deep(Colon(p), d) /\ ModeAfter(c) = "value"
        BY <2>4, <3>2, UntouchedDeep DEF ModeAfter, Delimiters
      <3> QED BY <2>1, <3>1, <3>2, <3>3
    <2>5. CASE c = ","
      <3>1. InValue(p, c, n) = Comma(p)
        BY <2>5 DEF InValue, Opening, Closing, White
      <3>2. Comma(p).toks = p.toks /\ Comma(p).mode = "value"
        <4> DEFINE k == LastOf(OpenTokens(p))
        <4>1. Comma(p) = p \/ Comma(p) = [p EXCEPT !.super = k]
          BY DEF Comma
        <4> HIDE DEF k
        <4> QED BY <1>0, <4>1 DEF Parsers
      <3>3. Deep(Comma(p), d) /\ ModeAfter(c) = "value"
        BY <2>5, <3>2, UntouchedDeep DEF ModeAfter, Delimiters
      <3> QED BY <2>1, <3>1, <3>2, <3>3
    <2>6. CASE c \notin White \cup {"\"", ":", ","}
      <3> DEFINE q == [p EXCEPT !.mode = "primitive", !.begin = n]
      <3>1. InValue(p, c, n) = InPrimitive(q, c)
        BY <1>3, <2>6 DEF InValue
      <3>2. q.toks = p.toks /\ q.mode = "primitive"
        BY <1>0 DEF Parsers
      <3>3. ParserOK(q, n + 1)
        BY BeginsOK
      <3> HIDE DEF q
      <3>4. InPrimitive(q, c) = q
        BY <3>1, <3>3, RefuseOK DEF InPrimitive
      <3>5. Deep(q, d)
        BY <3>2, UntouchedDeep
      <3>6. ModeAfter(c) = "primitive"
        BY <1>3, <2>6 DEF ModeAfter, Delimiters
      <3> QED BY <2>1, <3>1, <3>2, <3>4, <3>5, <3>6
    <2> QED BY <2>2, <2>3, <2>4, <2>5, <2>6
  <1> QED BY <1>1, <1>2, <1>3

(* The parser stands where the text does. *)
InOf == [value |-> "between", primitive |-> "word", escape |-> "escape",
         string |-> "string", hex |-> "string"]

Follows(p, at) == Deep(p, at.depth) /\ at.in = InOf[p.mode]

LEMMA LoopFollows ==
    ASSUME NEW p, NEW n \in Nat, room \in Nat, ParserOK(p, n), Running(p), NEW c \in Characters,
           NEW at \in Places, Follows(p, at), Running(Loop(p, c, n))
    PROVE  Follows(Loop(p, c, n), Nest(at, c))
  <1> DEFINE d == at.depth
  <1>0. /\ p \in Parsers /\ d \in Int /\ Deep(p, d)
        /\ p.mode \in {"value", "string", "escape", "hex", "primitive"}
    BY ParserFields DEF ParserOK, Places, Follows
  <1>i. /\ InOf["value"] = "between" /\ InOf["escape"] = "escape"
        /\ InOf["string"] = "string" /\ InOf["hex"] = "string"
    BY DEF InOf
  <1>1. CASE p.mode = "value"
    <2>1. at.in = "between"
      BY <1>1 DEF Follows, InOf
    <2>2. Loop(p, c, n) = InValue(p, c, n)
      BY <1>1 DEF Loop
    <2>3. Deep(InValue(p, c, n), d + Bracket(c)) /\ InValue(p, c, n).mode = ModeAfter(c)
      BY <1>0, <1>1, <2>2, InValueDeep
    <2>4. /\ Nest(at, c).depth = d + Bracket(c)
          /\ Nest(at, c).in = IF c = "\"" THEN "string"
                              ELSE IF c \in Opening \cup Delimiters THEN "between" ELSE "word"
      BY <2>1, NestIs
    <2>5. Nest(at, c).in = InOf[ModeAfter(c)]
      BY <2>4 DEF InOf, ModeAfter
    <2> QED BY <2>2, <2>3, <2>4, <2>5 DEF Follows
  <1>2. CASE p.mode = "primitive"
    <2>1. at.in = "word"
      BY <1>2 DEF Follows, InOf
    <2>2. CASE c \in Delimiters
      <3> DEFINE q == Leaf(p, "primitive", n)
      <3>1. Loop(p, c, n) = IF Running(q) THEN InValue(q, c, n) ELSE q
        BY <1>2, <2>2 DEF Loop, EndPrimitive
      <3>2. Running(q) /\ Loop(p, c, n) = InValue(q, c, n)
        BY <3>1
      <3>3. Deep(q, d) /\ q.mode = "value"
        BY <1>0, <3>2, LeafDeep
      <3>4. ParserOK(q, n)
        BY <1>2, LeafOK
      <3> HIDE DEF q
      <3>5. Deep(InValue(q, c, n), d + Bracket(c)) /\ InValue(q, c, n).mode = ModeAfter(c)
        BY <1>0, <3>2, <3>3, <3>4, InValueDeep
      <3>6. /\ Nest(at, c).depth = d + Bracket(c)
            /\ Nest(at, c).in = IF c = "\"" THEN "string"
                                ELSE IF c \in Opening \cup Delimiters THEN "between" ELSE "word"
        BY <2>1, <2>2, NestIs
      <3>7. Nest(at, c).in = InOf[ModeAfter(c)]
        BY <3>6 DEF InOf, ModeAfter
      <3> QED BY <3>2, <3>5, <3>6, <3>7 DEF Follows
    <2>3. CASE c \notin Delimiters
      <3>1. Loop(p, c, n) = InPrimitive(p, c)
        BY <1>2, <2>3 DEF Loop
      <3>2. InPrimitive(p, c) = p
        BY <3>1, RefuseOK DEF InPrimitive
      <3>3. Nest(at, c) = at
        BY <2>1, <2>3, NestIs
      <3> QED BY <3>1, <3>2, <3>3
    <2> QED BY <2>2, <2>3
  <1>3. CASE p.mode = "string"
    <2>1. at.in = "string"
      BY <1>3 DEF Follows, InOf
    <2>2. /\ Nest(at, c).depth = d
          /\ Nest(at, c).in = IF c = "\"" THEN "between"
                              ELSE IF c = "\\" THEN "escape" ELSE "string"
      BY <2>1, NestIs
    <2>3. Loop(p, c, n) = InString(p, c, n)
      BY <1>3 DEF Loop
    <2>4. CASE c = "\""
      <3>1. InString(p, c, n) = Leaf(p, "string", n)
        BY <2>4 DEF InString
      <3>2. Deep(Leaf(p, "string", n), d) /\ Leaf(p, "string", n).mode = "value"
        BY <1>0, <2>3, <3>1, LeafDeep
      <3>3. Nest(at, c).in = "between"
        BY <2>2, <2>4
      <3> QED BY <1>i, <2>2, <2>3, <3>1, <3>2, <3>3 DEF Follows
    <2>5. CASE c = "\\"
      <3> DEFINE q == [p EXCEPT !.mode = "escape"]
      <3>1. InString(p, c, n) = q
        BY <2>5 DEF InString
      <3>2. q.toks = p.toks /\ q.mode = "escape"
        BY <1>0 DEF Parsers
      <3> HIDE DEF q
      <3>3. Deep(q, d)
        BY <1>0, <3>2, UntouchedDeep
      <3>4. Nest(at, c).in = "escape"
        BY <2>2, <2>5
      <3> QED BY <1>i, <2>2, <2>3, <3>1, <3>2, <3>3, <3>4 DEF Follows
    <2>6. CASE c # "\"" /\ c # "\\"
      <3>1. InString(p, c, n) = p
        BY <2>6 DEF InString
      <3>2. Nest(at, c).in = "string"
        BY <2>2, <2>6
      <3> QED BY <1>0, <1>i, <1>3, <2>2, <2>3, <3>1, <3>2 DEF Follows
    <2> QED BY <2>4, <2>5, <2>6
  <1>4. CASE p.mode = "escape"
    <2>1. at.in = "escape"
      BY <1>4 DEF Follows, InOf
    <2>2. Nest(at, c).depth = d /\ Nest(at, c).in = "string"
      BY <2>1, NestIs
    <2>3. Loop(p, c, n) = InEscape(p, c)
      BY <1>4 DEF Loop
    <2>4. InEscape(p, c) \in { [p EXCEPT !.mode = "string"], [p EXCEPT !.mode = "hex", !.digits = 4],
                               Refuse(p, "INVAL") }
      BY DEF InEscape
    <2>5. InEscape(p, c) # Refuse(p, "INVAL")
      BY <2>3, RefuseOK
    <2>6. InEscape(p, c).toks = p.toks /\ InEscape(p, c).mode \in {"string", "hex"}
      BY <1>0, <2>4, <2>5 DEF Parsers
    <2>7. Deep(InEscape(p, c), d)
      BY <1>0, <2>6, UntouchedDeep
    <2> QED BY <2>2, <2>3, <2>6, <2>7 DEF Follows, InOf
  <1>5. CASE p.mode = "hex"
    <2>1. at.in = "string"
      BY <1>5 DEF Follows, InOf
    <2>2. Loop(p, c, n) = InHex(p, c)
      BY <1>5 DEF Loop
    <2>3. c \in HexDigits
      BY <2>2, RefuseOK DEF InHex
    <2>4. c # "\"" /\ c # "\\"
      BY <2>3 DEF HexDigits
    <2>5. Nest(at, c).depth = d /\ Nest(at, c).in = "string"
      BY <2>1, <2>4, NestIs
    <2> DEFINE mode == IF p.digits = 1 THEN "string" ELSE "hex"
               q == [p EXCEPT !.digits = @ - 1, !.mode = mode]
    <2>6. InHex(p, c) = q
      BY <2>3 DEF InHex
    <2>7. q.toks = p.toks /\ q.mode = mode /\ mode \in {"string", "hex"}
      BY <1>0 DEF Parsers
    <2> HIDE DEF q, mode
    <2>8. Deep(q, d)
      BY <1>0, <2>7, UntouchedDeep
    <2> QED BY <2>2, <2>5, <2>6, <2>7, <2>8 DEF Follows, InOf
  <1> QED BY <1>0, <1>1, <1>2, <1>3, <1>4, <1>5

-----------------------------------------------------------------------------
(* A text is accepted at its end only. *)
Undecided(p) == p.outcome # "ok"

LEMMA AssigningDecides ==
    ASSUME NEW p \in Parsers, Undecided(p), NEW v, NEW w
    PROVE  /\ Undecided([p EXCEPT !.toks = v]) /\ Undecided([p EXCEPT !.super = v])
           /\ Undecided([p EXCEPT !.mode = v]) /\ Undecided([p EXCEPT !.toks = v, !.super = w])
           /\ Undecided([p EXCEPT !.toks = v, !.mode = w])
           /\ Undecided([p EXCEPT !.digits = v, !.mode = w])
           /\ Undecided([p EXCEPT !.mode = v, !.begin = w])
           /\ v # "ok" => Undecided(Refuse(p, v))
  BY DEF Parsers, Undecided, Refuse

LEMMA LeafUndecided ==
    ASSUME NEW p, NEW n \in Nat, ParserOK(p, n), Undecided(p), NEW type \in {"string", "primitive"}
    PROVE  Undecided(Leaf(p, type, n))
  <1> DEFINE ts == Append(p.toks, Token(type, p.begin, n))
             r == [p EXCEPT !.toks = ts, !.mode = "value"]
             us == [r.toks EXCEPT ![r.super].size = @ + 1]
  <1>0. p \in Parsers
    BY DEF ParserOK
  <1>1. Leaf(p, type, n) \in {Refuse(p, "NOMEM"), r, [r EXCEPT !.toks = us]}
    <2>1. Leaf(p, type, n) = Refuse(p, "NOMEM") \/ Leaf(p, type, n) = Counted(r)
      BY DEF Leaf
    <2>2. Counted(r) = r \/ Counted(r) = [r EXCEPT !.toks = us]
      <3> HIDE DEF r
      <3> QED BY DEF Counted
    <2> QED BY <2>1, <2>2
  <1>2. Undecided(r) /\ Undecided(Refuse(p, "NOMEM"))
    BY <1>0, AssigningDecides
  <1>3. Undecided([r EXCEPT !.toks = us])
    <2> HIDE DEF us
    <2>1. [r EXCEPT !.toks = us] = [p EXCEPT !.toks = us, !.mode = "value"]
      <3> HIDE DEF ts
      <3> QED BY <1>0 DEF Parsers
    <2> QED BY <1>0, <2>1, AssigningDecides
  <1> HIDE DEF r, us
  <1> QED BY <1>1, <1>2, <1>3
LEMMA OpenUndecided ==
    ASSUME NEW p \in Parsers, Undecided(p), NEW type, NEW n
    PROVE  Undecided(Open(p, type, n))
  <1> DEFINE us == [p.toks EXCEPT ![p.super].size = @ + 1]
             q == Counted(p)
             ts == Append(q.toks, Token(type, n, -1))
             k == Len(p.toks) + 1
  <1>1. Open(p, type, n) = Refuse(p, "NOMEM") \/ Open(p, type, n) = [q EXCEPT !.toks = ts, !.super = k]
    BY DEF Open
  <1>2. q = p \/ q = [p EXCEPT !.toks = us]
    BY DEF Counted
  <1> HIDE DEF us, q, ts, k
  <1>3. [q EXCEPT !.toks = ts, !.super = k] = [p EXCEPT !.toks = ts, !.super = k]
    <2>1. CASE q = p
      BY <2>1
    <2>2. CASE q = [p EXCEPT !.toks = us]
      BY <2>2 DEF Parsers
    <2> QED BY <1>2, <2>1, <2>2
  <1>4. Undecided([p EXCEPT !.toks = ts, !.super = k]) /\ Undecided(Refuse(p, "NOMEM"))
    BY AssigningDecides
  <1> QED BY <1>1, <1>3, <1>4

LEMMA CloseUndecided ==
    ASSUME NEW p \in Parsers, Undecided(p), NEW type, NEW n
    PROVE  Undecided(Close(p, type, n))
  <1> DEFINE last == LastOf(OpenTokens(p))
             k == LastOf(OpenTokens(p) \ {last})
             ts == [p.toks EXCEPT ![last].end = n + 1]
  <1>1. Close(p, type, n) \in {Refuse(p, "INVAL"), [p EXCEPT !.toks = ts, !.super = k]}
    <2> HIDE DEF last
    <2>1. [p EXCEPT !.toks[last].end = n + 1, !.super = k] = [p EXCEPT !.toks = ts, !.super = k]
      BY DEF Parsers
    <2> HIDE DEF k, ts
    <2> QED BY <2>1 DEF Close, last, k
  <1> HIDE DEF k, ts
  <1>2. Undecided([p EXCEPT !.toks = ts, !.super = k]) /\ Undecided(Refuse(p, "INVAL"))
    BY AssigningDecides
  <1> QED BY <1>1, <1>2

LEMMA InPrimitiveUndecided ==
    ASSUME NEW p \in Parsers, Undecided(p), NEW c
    PROVE  Undecided(InPrimitive(p, c))
  <1>1. InPrimitive(p, c) \in {p, Refuse(p, "INVAL")}
    BY DEF InPrimitive
  <1> QED BY <1>1, AssigningDecides

LEMMA InValueUndecided ==
    ASSUME NEW p \in Parsers, Undecided(p), NEW c, NEW n \in Nat
    PROVE  Undecided(InValue(p, c, n))
  <1> DEFINE k == LastOf(OpenTokens(p))
             super == Len(p.toks)
             begun == [p EXCEPT !.mode = "primitive", !.begin = n]
             string == [p EXCEPT !.mode = "string", !.begin = n + 1]
  <1>1. Undecided(Open(p, TypeOf(c), n)) /\ Undecided(Close(p, TypeOf(c), n))
    BY OpenUndecided, CloseUndecided
  <1>2. Undecided(Colon(p)) /\ Undecided(Comma(p))
    <2>1. Colon(p) = [p EXCEPT !.super = super] /\ Comma(p) \in {p, [p EXCEPT !.super = k]}
      BY DEF Colon, Comma
    <2> HIDE DEF k, super
    <2>2. Undecided([p EXCEPT !.super = super]) /\ Undecided([p EXCEPT !.super = k])
      BY AssigningDecides
    <2> QED BY <2>1, <2>2
  <1>3. Undecided(string)
    BY AssigningDecides
  <1>4. Undecided(InPrimitive(begun, c))
    <2>1. begun \in Parsers
      BY DEF Parsers
    <2>2. Undecided(begun)
      BY AssigningDecides
    <2> QED BY <2>1, <2>2, InPrimitiveUndecided
  <1>5. InValue(p, c, n) \in {Open(p, TypeOf(c), n), Close(p, TypeOf(c), n), string, p,
                              Colon(p), Comma(p), InPrimitive(begun, c)}
    BY DEF InValue
  <1> HIDE DEF string, begun
  <1> QED BY <1>1, <1>2, <1>3, <1>4, <1>5

LEMMA LoopUndecided ==
    ASSUME NEW p, NEW n \in Nat, room \in Nat, ParserOK(p, n), Running(p), NEW c \in Characters
    PROVE  Undecided(Loop(p, c, n))
  <1>0. /\ p \in Parsers /\ Undecided(p)
        /\ p.mode \in {"value", "string", "escape", "hex", "primitive"}
    BY ParserFields DEF ParserOK, Running, Undecided
  <1>1. CASE p.mode = "value"
    <2>1. Loop(p, c, n) = InValue(p, c, n)
      BY <1>1 DEF Loop
    <2> QED BY <1>0, <2>1, InValueUndecided
  <1>2. CASE p.mode = "primitive"
    <2> DEFINE q == Leaf(p, "primitive", n)
    <2>1. Loop(p, c, n) \in {InValue(q, c, n), q, InPrimitive(p, c)}
      BY <1>2 DEF Loop, EndPrimitive
    <2>2. Undecided(q) /\ ParserOK(q, n)
      BY <1>0, <1>2, LeafUndecided, LeafOK
    <2> HIDE DEF q
    <2>3. Undecided(InValue(q, c, n))
      BY <2>2, InValueUndecided DEF ParserOK
    <2>4. Undecided(InPrimitive(p, c))
      BY <1>0, InPrimitiveUndecided
    <2> QED BY <2>1, <2>2, <2>3, <2>4
  <1>3. CASE p.mode = "string"
    <2>1. Loop(p, c, n) \in {Leaf(p, "string", n), [p EXCEPT !.mode = "escape"], p}
      BY <1>3 DEF Loop, InString
    <2>2. Undecided(Leaf(p, "string", n)) /\ Undecided([p EXCEPT !.mode = "escape"])
      BY <1>0, LeafUndecided, AssigningDecides
    <2> QED BY <1>0, <2>1, <2>2
  <1>4. CASE p.mode = "escape"
    <2> DEFINE string == [p EXCEPT !.mode = "string"]
               hex == [p EXCEPT !.mode = "hex", !.digits = 4]
    <2>1. Loop(p, c, n) \in {string, hex, Refuse(p, "INVAL")}
      BY <1>4 DEF Loop, InEscape
    <2>2. hex = [p EXCEPT !.digits = 4, !.mode = "hex"]
      BY <1>0 DEF Parsers
    <2>3. Undecided(string) /\ Undecided(hex) /\ Undecided(Refuse(p, "INVAL"))
      <3> HIDE DEF hex
      <3> QED BY <1>0, <2>2, AssigningDecides
    <2> HIDE DEF string, hex
    <2> QED BY <2>1, <2>3
  <1>5. CASE p.mode = "hex"
    <2> DEFINE mode == IF p.digits = 1 THEN "string" ELSE "hex"
               left == p.digits - 1
               q == [p EXCEPT !.digits = left, !.mode = mode]
    <2>1. Loop(p, c, n) \in {Refuse(p, "INVAL"), q}
      BY <1>5 DEF Loop, InHex
    <2>2. Undecided(Refuse(p, "INVAL")) /\ Undecided(q)
      <3> HIDE DEF mode, left
      <3> QED BY <1>0, AssigningDecides
    <2> HIDE DEF q
    <2> QED BY <2>1, <2>2
  <1> QED BY <1>0, <1>1, <1>2, <1>3, <1>4, <1>5
LEMMA AtEndDeep ==
    ASSUME NEW p, NEW n \in Nat, room \in Nat, ParserOK(p, n), Running(p), NEW d, Deep(p, d)
    PROVE  /\ AtEnd(p, n).outcome = "ok" => d = 0
           /\ p.mode = "value" => AtEnd(p, n).toks = p.toks
           /\ ~ Running(AtEnd(p, n))
  <1>1. p \in Parsers /\ Undecided(p) /\ Running(p)
    BY DEF ParserOK, Running, Undecided
  <1>2. ASSUME NEW q \in Parsers, Undecided(q), Running(q) => Deep(q, d)
        PROVE  /\ Finish(q).outcome = "ok" => d = 0
               /\ Finish(q).toks = q.toks /\ ~ Running(Finish(q))
    <2>1. CASE ~ Running(q)
      BY <1>2, <2>1 DEF Finish, Undecided
    <2>2. CASE Running(q) /\ OpenTokens(q) # {}
      <3>1. Finish(q) = Refuse(q, "PART")
        BY <2>2 DEF Finish
      <3>2. /\ Refuse(q, "PART").toks = q.toks /\ Refuse(q, "PART").outcome = "PART"
        BY <1>2 DEF Refuse, Parsers
      <3> QED BY <3>1, <3>2 DEF Running
    <2>3. CASE Running(q) /\ OpenTokens(q) = {}
      <3>1. Finish(q) = Refuse(q, "ok")
        BY <2>3 DEF Finish
      <3>2. /\ Refuse(q, "ok").toks = q.toks /\ Refuse(q, "ok").outcome = "ok"
        BY <1>2 DEF Refuse, Parsers
      <3>3. d = 0
        BY <1>2, <2>3, FS_EmptySet DEF Deep
      <3> QED BY <3>1, <3>2, <3>3 DEF Running
    <2> QED BY <2>1, <2>2, <2>3
  <1>3. CASE p.mode = "value"
    <2>1. AtEnd(p, n) = Finish(p)
      BY <1>3 DEF AtEnd
    <2> QED BY <1>1, <1>2, <2>1
  <1>4. CASE p.mode = "primitive"
    <2> DEFINE q == Leaf(p, "primitive", n)
    <2>1. AtEnd(p, n) = Finish(q)
      BY <1>4 DEF AtEnd
    <2>2. Undecided(q) /\ q \in Parsers
      BY <1>1, <1>4, LeafUndecided, LeafOK DEF ParserOK
    <2>3. Running(q) => Deep(q, d)
      BY LeafDeep
    <2> HIDE DEF q
    <2> QED BY <1>2, <1>4, <2>1, <2>2, <2>3
  <1>5. CASE p.mode \notin {"value", "primitive"}
    <2>1. AtEnd(p, n) = Refuse(p, "PART")
      BY <1>5 DEF AtEnd
    <2>2. Refuse(p, "PART").outcome = "PART"
      BY <1>1 DEF Refuse, Parsers
    <2> QED BY <1>5, <2>1, <2>2 DEF Running
  <1> QED BY <1>3, <1>4, <1>5

-----------------------------------------------------------------------------
(* What was read begins the document, as many tokens are open as brackets  *)
(* are open in it, and an accepted text has none open.                     *)
Begins(s, t) == Len(s) <= Len(t) /\ \A n \in 1..Len(s) : s[n] = t[n]

CutInv ==
    /\ document \in Documents \cup {NoDocument}
    /\ document # NoDocument =>
           LET at == Nesting(document.text)[Len(text)]
           IN  /\ Begins(text, document.text)
               /\ text = << >> => parser.toks = << >>
               /\ Running(parser) => Follows(parser, at)
               /\ parser.outcome = "ok" => at.depth = 0

LEMMA PrefixBegins ==
    ASSUME NEW s \in Seq(Characters), NEW t \in Seq(Characters), NEW c \in Characters,
           IsPrefix(Append(s, c), t)
    PROVE  Begins(Append(s, c), t) /\ Len(Append(s, c)) = Len(s) + 1 /\ t[Len(s) + 1] = c
  <1> DEFINE u == Append(s, c)
             m == Len(u)
  <1>1. /\ u \in Seq(Characters) /\ Len(s) \in Nat /\ Len(t) \in Nat /\ Len(u) = Len(s) + 1
        /\ u[Len(s) + 1] = c
    BY AppendProperties, LenProperties
  <1> HIDE DEF u
  <1>2. Len(u) <= Len(t) /\ SubSeq(u, 1, m) = SubSeq(t, 1, m)
    BY DEF IsPrefix, u
  <1>3. ASSUME NEW n \in 1..m
        PROVE  u[n] = t[n]
    <2>1. SubSeq(u, 1, m)[n] = u[n] /\ SubSeq(t, 1, m)[n] = t[n]
      BY <1>1, <1>2
    <2> QED BY <1>2, <2>1
  <1>4. u[Len(s) + 1] = t[Len(s) + 1]
    BY <1>1, <1>3
  <1> QED BY <1>1, <1>2, <1>3, <1>4 DEF Begins, u

(* What is known of a document, from the assumption about its text. *)
LEMMA DocumentNesting ==
    ASSUME NEW doc \in Documents
    PROVE  /\ doc.text \in Seq(Characters) /\ Len(doc.text) \in Nat
           /\ IsNesting(Nesting(doc.text), doc.text)
           /\ doc.toks[1].type \in Containers =>
                  \A n \in 1..(Len(doc.text) - 1) : Nesting(doc.text)[n].depth > 0
  <1>1. doc.text \in Seq(Characters)
    BY DocumentsAssumption
  <1>2. doc.toks[1].type \in Containers =>
            \A n \in 1..(Len(doc.text) - 1) : Nesting(doc.text)[n].depth > 0
    BY DocumentsAssumption
  <1> QED BY <1>1, <1>2, NestingIs, LenProperties

LEMMA CutStart ==
    ASSUME Init
    PROVE  CutInv
  <1>1. /\ document \in Documents \cup {NoDocument} /\ text = << >> /\ parser = NewParser
    BY DEF Init
  <1>2. /\ parser.toks = << >> /\ parser.mode = "value" /\ Running(parser)
        /\ parser.outcome # "ok" /\ Len(text) = 0
    BY <1>1 DEF NewParser, Running
  <1>3. OpenTokens(parser) = {}
    BY <1>2 DEF OpenTokens
  <1>4. ASSUME document \in Documents
        PROVE  /\ Begins(text, document.text)
               /\ Follows(parser, Nesting(document.text)[0])
    <2>1. Nesting(document.text)[0] = [depth |-> 0, in |-> "between"]
      BY <1>4, DocumentNesting DEF IsNesting
    <2>2. Deep(parser, 0)
      BY <1>3, FS_EmptySet DEF Deep
    <2>3. InOf["value"] = "between"
      BY DEF InOf
    <2>4. Follows(parser, [depth |-> 0, in |-> "between"])
      BY <1>2, <2>2, <2>3 DEF Follows
    <2>5. Begins(text, document.text)
      BY <1>2, <1>4, DocumentNesting DEF Begins
    <2> QED BY <2>1, <2>4, <2>5
  <1> QED BY <1>1, <1>2, <1>4 DEF CutInv

LEMMA CutRead ==
    ASSUME Inv, CutInv, NEW c \in Characters, Read(c)
    PROVE  CutInv'
  <1> DEFINE n == Len(text)
             at == Nesting(document.text)
  <1>0. n \in Nat /\ text \in Seq(Characters) /\ room \in Nat /\ ParserOK(parser, n) /\ Running(parser)
    BY LenProperties DEF Inv, Read
  <1>1. /\ document' = document /\ text' = Append(text, c) /\ parser' = Loop(parser, c, n)
    BY DEF Read
  <1>2. CASE document = NoDocument
    BY <1>1, <1>2 DEF CutInv
  <1>3. CASE document # NoDocument
    <2>1. document \in Documents /\ Follows(parser, at[n])
      BY <1>0, <1>3 DEF CutInv
    <2>2. /\ document.text \in Seq(Characters) /\ Len(document.text) \in Nat
          /\ IsNesting(at, document.text)
      BY <2>1, DocumentNesting
    <2> HIDE DEF at
    <2>3. IsPrefix(Append(text, c), document.text)
      BY <1>3 DEF Read
    <2>4. Begins(text', document.text) /\ Len(text') = n + 1 /\ document.text[n + 1] = c
      BY <1>0, <1>1, <2>2, <2>3, PrefixBegins
    <2>5. n + 1 \in 1..Len(document.text) /\ n \in 0..Len(document.text) /\ (n + 1) - 1 = n
      BY <1>0, <2>2, <2>4 DEF Begins
    <2>6. at[n] \in Places /\ at[n + 1] = Nest(at[n], c)
      BY <2>2, <2>4, <2>5 DEF IsNesting
    <2>7. Running(Loop(parser, c, n)) => Follows(Loop(parser, c, n), at[n + 1])
      <3> DEFINE place == at[n]
      <3>1. place \in Places /\ Follows(parser, place) /\ at[n + 1] = Nest(place, c)
        BY <2>1, <2>6
      <3> HIDE DEF place
      <3> QED BY <1>0, <3>1, LoopFollows
    <2>8. Loop(parser, c, n).outcome # "ok"
      BY <1>0, LoopUndecided DEF Undecided
    <2>9. text' # << >>
      BY <1>0, <2>4
    <2>10. Running(parser') => Follows(parser', Nesting(document'.text)[Len(text')])
      BY <1>1, <2>4, <2>7 DEF at
    <2> QED BY <1>1, <1>3, <2>1, <2>4, <2>8, <2>9, <2>10 DEF CutInv, Running, Follows, Deep, OpenTokens
  <1> QED BY <1>2, <1>3

LEMMA CutEnd ==
    ASSUME Inv, CutInv, End
    PROVE  CutInv'
  <1> DEFINE n == Len(text)
             at == Nesting(document.text)
  <1>0. n \in Nat /\ room \in Nat /\ ParserOK(parser, n) /\ Running(parser)
    BY LenProperties DEF Inv, End
  <1>1. /\ document' = document /\ text' = text /\ parser' = AtEnd(parser, n)
    BY DEF End
  <1>2. CASE document = NoDocument
    BY <1>1, <1>2 DEF CutInv
  <1>3. CASE document # NoDocument
    <2>1. /\ document \in Documents /\ Follows(parser, at[n]) /\ Begins(text, document.text)
          /\ text = << >> => parser.toks = << >>
      BY <1>0, <1>3 DEF CutInv
    <2> HIDE DEF at
    <2>2. Deep(parser, at[n].depth)
      BY <2>1 DEF Follows
    <2>3. /\ AtEnd(parser, n).outcome = "ok" => at[n].depth = 0
          /\ parser.mode = "value" => AtEnd(parser, n).toks = parser.toks
          /\ ~ Running(AtEnd(parser, n))
      <3> DEFINE depth == at[n].depth
      <3>1. Deep(parser, depth)
        BY <2>2
      <3> HIDE DEF depth
      <3>2. /\ AtEnd(parser, n).outcome = "ok" => depth = 0
            /\ parser.mode = "value" => AtEnd(parser, n).toks = parser.toks
            /\ ~ Running(AtEnd(parser, n))
        BY <1>0, <3>1, AtEndDeep
      <3> QED BY <3>2 DEF depth
    <2>4. ASSUME text = << >>
          PROVE  parser.mode = "value"
      <3>1. at[n] = [depth |-> 0, in |-> "between"]
        BY <2>1, <2>4, DocumentNesting DEF IsNesting, at
      <3>2. InOf[parser.mode] = "between"
        BY <2>1, <3>1 DEF Follows
      <3>3. parser.mode \in {"value", "string", "escape", "hex", "primitive"}
        BY <1>0, ParserFields DEF ParserOK
      <3> QED BY <3>2, <3>3 DEF InOf
    <2>5. parser'.outcome = "ok" => Nesting(document'.text)[Len(text')].depth = 0
      BY <1>1, <2>3 DEF at
    <2>6. ~ Running(parser)' /\ (text' = << >> => parser'.toks = << >>)
      BY <1>1, <2>1, <2>3, <2>4 DEF Running
    <2> QED BY <1>1, <1>3, <2>1, <2>5, <2>6 DEF CutInv
  <1> QED BY <1>2, <1>3

LEMMA CutAccepted ==
    ASSUME Inv, CutInv
    PROVE  CutOffRefused
  <1> SUFFICES ASSUME document # NoDocument, document.toks[1].type \in Containers,
                      parser.outcome = "ok", parser.toks # << >>
               PROVE  text = document.text
    BY DEF CutOffRefused
  <1> DEFINE n == Len(text)
  <1>1. /\ document \in Documents /\ Begins(text, document.text) /\ text # << >>
        /\ Nesting(document.text)[n].depth = 0
    BY DEF CutInv
  <1>2. /\ text \in Seq(Characters) /\ n \in Nat /\ n # 0
    BY <1>1, LenProperties, EmptySeq DEF Inv
  <1>3. /\ document.text \in Seq(Characters) /\ Len(document.text) \in Nat
        /\ \A k \in 1..(Len(document.text) - 1) : Nesting(document.text)[k].depth > 0
    BY <1>1, DocumentNesting
  <1>4. n \notin 1..(Len(document.text) - 1)
    BY <1>1, <1>3
  <1>5. n = Len(document.text)
    BY <1>1, <1>2, <1>3, <1>4 DEF Begins
  <1>6. \A k \in 1..n : text[k] = document.text[k]
    BY <1>1 DEF Begins
  <1> QED BY <1>2, <1>3, <1>5, <1>6, SeqEqual

(* A response cut off on the way is refused wherever it was cut, for every *)
(* object and array the server may write and every token array.            *)
THEOREM JsmnCutOffRefused == Spec => []CutOffRefused
  <1>1. Init => CutInv
    BY CutStart
  <1>2. Inv /\ CutInv /\ [Next]_vars => CutInv'
    <2> SUFFICES ASSUME Inv, CutInv, [Next]_vars
                 PROVE  CutInv'
      OBVIOUS
    <2>1. ASSUME NEW c \in Characters, Read(c)
          PROVE  CutInv'
      BY <2>1, CutRead
    <2>2. CASE End
      BY <2>2, CutEnd
    <2>3. CASE UNCHANGED vars
      BY <2>3 DEF vars, CutInv, Running, Follows, Deep, OpenTokens
    <2> QED BY <2>1, <2>2, <2>3 DEF Next
  <1>3. Inv /\ CutInv => CutOffRefused
    BY CutAccepted
  <1> QED BY <1>1, <1>2, <1>3, JsmnInv, PTL DEF Spec

-----------------------------------------------------------------------------
(* One token more, which raises the count of token k. *)
Grown(ts, us, k, tok) ==
    /\ Len(us) = Len(ts) + 1 /\ us[Len(us)] = tok
    /\ \A i \in 1..Len(ts) :
           /\ us[i].type = ts[i].type /\ us[i].start = ts[i].start /\ us[i].end = ts[i].end
           /\ us[i].size = Raised(ts[i].size, i = k)

LEMMA LeafGrows ==
    ASSUME NEW p, NEW n \in Nat, ParserOK(p, n), Running(p), ~ Full(p),
           NEW type \in {"string", "primitive"}
    PROVE  LET q == Leaf(p, type, n)
           IN  /\ q \in Parsers /\ Grown(p.toks, q.toks, p.super, Token(type, p.begin, n))
               /\ q.super = p.super /\ q.mode = "value" /\ Running(q)
  <1> DEFINE t == Token(type, p.begin, n)
             ts == Append(p.toks, t)
             r == [p EXCEPT !.toks = ts, !.mode = "value"]
             q == Counted(r)
  <1>0. /\ p \in Parsers /\ p.toks \in Seq(Tokens) /\ Len(p.toks) \in Nat
        /\ p.super \in 0..Len(p.toks) /\ p.begin \in Nat
    BY ParserFields DEF ParserOK
  <1>1. Leaf(p, type, n) = q
    BY DEF Leaf
  <1>2. t \in Tokens /\ t.size = 0
    BY <1>0 DEF Token, Tokens
  <1> HIDE DEF t
  <1>3. /\ ts \in Seq(Tokens) /\ Len(ts) = Len(p.toks) + 1 /\ ts[Len(p.toks) + 1] = t
        /\ \A i \in 1..Len(p.toks) : ts[i] = p.toks[i]
    BY <1>0, <1>2, AppendProperties
  <1> HIDE DEF ts
  <1>4. r \in Parsers /\ r.toks = ts /\ r.super = p.super /\ r.mode = "value" /\ r.outcome = p.outcome
    BY <1>0, <1>3 DEF Parsers
  <1> HIDE DEF r
  <1>5. /\ q \in Parsers /\ SameTokens(ts, q.toks) /\ q.mode = "value" /\ q.super = p.super
        /\ q.outcome = p.outcome
        /\ \A i \in 1..Len(ts) : q.toks[i].size = Raised(ts[i].size, i = p.super)
    <2>1. r.super <= Len(r.toks)
      BY <1>0, <1>3, <1>4
    <2> QED BY <1>4, <2>1, CountedTokens
  <1> HIDE DEF q
  <1>6. Len(q.toks) = Len(p.toks) + 1
    BY <1>3, <1>5 DEF SameTokens
  <1>7. q.toks[Len(p.toks) + 1] = t
    <2> DEFINE k == Len(p.toks) + 1
    <2>1. k \in 1..Len(ts) /\ k # p.super /\ k \in 1..Len(q.toks)
      BY <1>0, <1>3, <1>6
    <2>2. q.toks[k].size = t.size /\ q.toks[k].type = t.type /\ q.toks[k].start = t.start
          /\ q.toks[k].end = t.end
      BY <1>3, <1>5, <2>1 DEF SameTokens, Raised
    <2>3. q.toks[k] \in Tokens
      BY <1>5, <2>1, ParserFields, ElementOfSeq
    <2> HIDE DEF k
    <2> QED BY <1>2, <2>2, <2>3 DEF k, Tokens
  <1>8. Grown(p.toks, q.toks, p.super, t)
    <2>1. \A i \in 1..Len(p.toks) : i \in 1..Len(ts) /\ ts[i] = p.toks[i]
      BY <1>0, <1>3
    <2> QED BY <1>5, <1>6, <1>7, <2>1 DEF Grown, SameTokens
  <1> QED BY <1>1, <1>5, <1>8 DEF Running, t

LEMMA OpenGrows ==
    ASSUME NEW p, NEW n \in Nat, ParserOK(p, n), Running(p), ~ Full(p), NEW type \in Containers
    PROVE  LET q == Open(p, type, n)
           IN  /\ q \in Parsers /\ Grown(p.toks, q.toks, p.super, Token(type, n, -1))
               /\ q.super = Len(p.toks) + 1 /\ q.mode = p.mode /\ Running(q)
  <1> DEFINE t == Token(type, n, -1)
             c == Counted(p)
             ts == Append(c.toks, t)
             k == Len(p.toks) + 1
             q == Assigned(c, ts, k)
  <1>0. /\ p \in Parsers /\ p.toks \in Seq(Tokens) /\ Len(p.toks) \in Nat
        /\ p.super \in 0..Len(p.toks)
    BY ParserFields DEF ParserOK
  <1>1. Open(p, type, n) = q
    BY DEF Open, Assigned
  <1>2. t \in Tokens
    BY DEF Token, Tokens
  <1>3. /\ c \in Parsers /\ SameTokens(p.toks, c.toks) /\ c.mode = p.mode /\ c.outcome = p.outcome
        /\ \A i \in 1..Len(p.toks) : c.toks[i].size = Raised(p.toks[i].size, i = p.super)
    BY <1>0, CountedTokens
  <1> HIDE DEF c, t
  <1>4. c.toks \in Seq(Tokens) /\ Len(c.toks) = Len(p.toks)
    BY <1>3, ParserFields DEF SameTokens
  <1>5. /\ ts \in Seq(Tokens) /\ Len(ts) = Len(p.toks) + 1 /\ ts[Len(p.toks) + 1] = t
        /\ \A i \in 1..Len(p.toks) : ts[i] = c.toks[i]
    BY <1>2, <1>4, AppendProperties
  <1> HIDE DEF ts
  <1>6. k \in Nat
    BY <1>0
  <1> HIDE DEF k
  <1>7. /\ q \in Parsers /\ q.toks = ts /\ q.super = k /\ q.mode = p.mode /\ q.outcome = p.outcome
    BY <1>3, <1>5, <1>6, AssignedFields DEF IsAssigned
  <1> HIDE DEF q
  <1>8. Grown(p.toks, q.toks, p.super, t)
    BY <1>0, <1>3, <1>5, <1>7 DEF Grown, SameTokens
  <1> QED BY <1>1, <1>7, <1>8 DEF Running, t, k

(* Of the tokens, k has ended in front of n. *)
Shut(p, q, k, n) ==
    /\ q \in Parsers /\ Len(q.toks) = Len(p.toks) /\ q.mode = p.mode /\ Running(q)
    /\ q.super = LastOf(OpenTokens(p) \ {k})
    /\ \A i \in 1..Len(p.toks) :
           /\ q.toks[i].type = p.toks[i].type /\ q.toks[i].start = p.toks[i].start
           /\ q.toks[i].size = p.toks[i].size
           /\ q.toks[i].end = IF i = k THEN n ELSE p.toks[i].end

LEMMA CloseShuts ==
    ASSUME NEW p \in Parsers, NEW n \in Nat, NEW k \in 1..Len(p.toks), Running(p),
           LastOf(OpenTokens(p)) = k
    PROVE  Shut(p, Close(p, p.toks[k].type, n), k, n + 1)
  <1> DEFINE t == [p.toks[k] EXCEPT !.end = n + 1]
             ts == [p.toks EXCEPT ![k] = t]
             super == LastOf(OpenTokens(p) \ {k})
             q == Assigned(p, ts, super)
             type == p.toks[k].type
  <1>0. /\ p.toks \in Seq(Tokens) /\ Len(p.toks) \in Nat /\ k # 0
        /\ OpenTokens(p) \subseteq 1..Len(p.toks)
    BY ParserFields DEF OpenTokens
  <1>1. Close(p, type, n) = q
    BY <1>0 DEF Close, Parsers, Assigned
  <1>2. super \in Nat
    BY <1>0, LastIsIn
  <1>3. p.toks[k] \in Tokens
    BY <1>0, TokenFields
  <1>4. /\ t \in Tokens /\ t.type = p.toks[k].type /\ t.start = p.toks[k].start
        /\ t.size = p.toks[k].size /\ t.end = n + 1
    BY <1>3 DEF Tokens
  <1> HIDE DEF t
  <1>5. /\ ts \in Seq(Tokens) /\ Len(ts) = Len(p.toks)
        /\ \A i \in 1..Len(p.toks) : ts[i] = IF i = k THEN t ELSE p.toks[i]
    BY <1>0, <1>4, ExceptSeq
  <1> HIDE DEF ts, super
  <1>6. /\ q \in Parsers /\ q.toks = ts /\ q.super = super /\ q.mode = p.mode /\ q.outcome = p.outcome
    BY <1>2, <1>5, AssignedFields DEF IsAssigned
  <1> HIDE DEF q
  <1> QED BY <1>1, <1>4, <1>5, <1>6 DEF super, Running, Shut
-----------------------------------------------------------------------------
(* A document: its text, how it nests and the tokens meant.                *)
Doc(t, at, T) ==
    /\ t \in Seq(Characters) /\ Len(t) \in Nat
    /\ T \in Seq(Tokens) /\ Len(T) \in Nat
    /\ IsTokenized(t, at, T)

(* A token meant is a piece of the text, and has ended.                    *)
Fits(t, tok) ==
    /\ tok.type \in Containers \cup {"string", "primitive"}
    /\ tok.start \in Nat /\ tok.end \in Nat /\ tok.size \in Nat
    /\ First(tok) \in Nat /\ First(tok) < Len(t) /\ tok.end <= Len(t)
    /\ tok.type = "string" => First(tok) = tok.start - 1
    /\ tok.type # "string" => First(tok) = tok.start
    /\ tok.type \in Containers => tok.start < tok.end
    /\ tok.start <= tok.end

LEMMA DocToken ==
    ASSUME NEW t, NEW at, NEW T, Doc(t, at, T), NEW k \in 1..Len(T)
    PROVE  Fits(t, T[k])
  <1>1. /\ T[k] \in Tokens /\ T[k].start \in Nat /\ T[k].end \in Nat \cup {-1}
        /\ T[k].size \in Nat /\ Len(t) \in Nat
    BY TokenFields DEF Doc
  <1>2. /\ First(T[k]) \in 0..(Len(t) - 1) /\ T[k].end <= Len(t)
        /\ IF T[k].type \in Containers THEN T[k].start < T[k].end
           ELSE T[k].start <= T[k].end
    BY DEF Doc, IsTokenized
  <1>3. T[k].type \in Containers \cup {"string", "primitive"}
    BY <1>1 DEF Tokens
  <1>4. /\ T[k].type = "string" => First(T[k]) = T[k].start - 1
        /\ T[k].type # "string" => First(T[k]) = T[k].start
    BY DEF First
  <1> QED BY <1>1, <1>2, <1>3, <1>4 DEF Fits

LEMMA FirstBefore ==
    ASSUME NEW t, NEW tok, Fits(t, tok)
    PROVE  First(tok) \in Nat /\ tok.end \in Nat /\ First(tok) <= tok.end
  <1> DEFINE first == First(tok)
  <1>1. /\ tok.start \in Nat /\ tok.end \in Nat /\ first \in Nat /\ tok.start <= tok.end
        /\ first = tok.start \/ first = tok.start - 1
    BY DEF Fits
  <1> HIDE DEF first
  <1>2. first <= tok.end
    BY <1>1
  <1> QED BY <1>1, <1>2 DEF first

(* A token is in front of another one or around it. *)
Placed(a, b) ==
    /\ First(a) < First(b)
    /\ \/ a.end < First(b)
       \/ a.type \in Containers /\ b.end < a.end

LEMMA DocOrdered ==
    ASSUME NEW t, NEW at, NEW T, Doc(t, at, T), NEW i \in 1..Len(T), NEW j \in 1..Len(T), i < j
    PROVE  Placed(T[i], T[j])
  <1>1. i \in 1..(j - 1) /\ Len(T) \in Nat
    BY DEF Doc
  <1>2. Ordered(T)
    BY DEF Doc, IsTokenized
  <1> QED BY <1>1, <1>2 DEF Ordered, Placed

(* What is said of the place n of the text. *)
LEMMA DocPlace ==
    ASSUME NEW t, NEW at, NEW T, Doc(t, at, T), NEW n \in Nat, n < Len(t)
    PROVE  /\ BeginsTokens(t, at, T, n) /\ EndsTokens(t, at, T, n)
           /\ Escapes(t, at, n) /\ Colons(t, at, T, n)
  <1>1. n \in 0..(Len(t) - 1)
    BY DEF Doc
  <1> QED BY <1>1 DEF Doc, IsTokenized

(* The tokens that begin in front of n are the first s.                    *)
Upto(T, s, n) ==
    /\ s \in 0..Len(T)
    /\ \A k \in 1..Len(T) : k <= s <=> First(T[k]) < n

LEMMA Starts ==
    ASSUME NEW t, NEW at, NEW T, Doc(t, at, T), NEW n \in Nat, n < Len(t), NEW s, Upto(T, s, n),
           Outside(at, t, n), t[n + 1] \notin Delimiters
    PROVE  /\ s + 1 \in 1..Len(T) /\ First(T[s + 1]) = n /\ T[s + 1].type = TypeAt(t[n + 1])
           /\ t[n + 1] # "ctl" /\ Upto(T, s + 1, n + 1)
  <1>0. s \in 0..Len(T) /\ Len(T) \in Nat /\ s \in Nat
    BY DEF Upto, Doc
  <1>1. BeginsTokens(t, at, T, n)
    BY DocPlace
  <1>2. t[n + 1] # "ctl"
    BY <1>1 DEF BeginsTokens
  <1>3. PICK k \in 1..Len(T) : First(T[k]) = n /\ T[k].type = TypeAt(t[n + 1])
    BY <1>1 DEF BeginsTokens
  <1>4. ~ (k <= s)
    BY <1>3 DEF Upto
  <1>5. s + 1 \in 1..Len(T)
    BY <1>0, <1>4
  <1>6. ~ (First(T[s + 1]) < n) /\ First(T[s + 1]) \in Nat
    BY <1>0, <1>5, DocToken DEF Upto, Fits
  <1>7. k = s + 1
    <2>1. CASE s + 1 < k
      BY <1>3, <1>5, <1>6, <2>1, DocOrdered DEF Placed
    <2> QED BY <1>0, <1>4, <2>1
  <1>8. ASSUME NEW j \in 1..Len(T)
        PROVE  j <= s + 1 <=> First(T[j]) < n + 1
    <2>0. First(T[j]) \in Nat
      BY DocToken DEF Fits
    <2>1. CASE j <= s
      BY <1>0, <2>0, <2>1 DEF Upto
    <2>2. CASE j = s + 1
      BY <1>3, <1>7, <2>2
    <2>3. CASE s + 1 < j
      BY <1>0, <1>3, <1>5, <1>7, <2>0, <2>3, DocOrdered DEF Placed
    <2> QED BY <1>0, <2>1, <2>2, <2>3
  <1> QED BY <1>2, <1>3, <1>5, <1>7, <1>8 DEF Upto

LEMMA Stays ==
    ASSUME NEW t, NEW at, NEW T, Doc(t, at, T), NEW n \in Nat, n < Len(t), NEW s, Upto(T, s, n),
           ~ (Outside(at, t, n) /\ t[n + 1] \notin Delimiters)
    PROVE  Upto(T, s, n + 1)
  <1>1. BeginsTokens(t, at, T, n)
    BY DocPlace
  <1>2. ASSUME NEW k \in 1..Len(T)
        PROVE  First(T[k]) # n /\ First(T[k]) \in Nat
    BY <1>1, DocToken DEF BeginsTokens, Fits
  <1>3. ASSUME NEW k \in 1..Len(T)
        PROVE  k <= s <=> First(T[k]) < n + 1
    <2>1. First(T[k]) # n /\ First(T[k]) \in Nat
      BY <1>2
    <2>2. k <= s <=> First(T[k]) < n
      BY DEF Upto
    <2> HIDE DEF First
    <2> QED BY <2>1, <2>2
  <1> QED BY <1>3 DEF Upto

(* The end of a token, -1 while n is in front of it. *)
Ended(tok, n) == IF tok.type \in Containers /\ n < tok.end THEN -1 ELSE tok.end

(* What was written of the tokens meant: as many as there are begun, ended *)
(* if their end is read, with the children begun so far.                   *)
Shown(tok, T, s, i, n) ==
    /\ tok.type = T[i].type /\ tok.start = T[i].start /\ tok.end = Ended(T[i], n)
    /\ tok.size = Cardinality(Children(T, s, i))

Shows(toks, T, n) ==
    /\ Len(toks) \in 0..Len(T)
    /\ \A i \in 1..Len(toks) : Shown(toks[i], T, Len(toks), i, n)

(* No container ends at n.                                                 *)
LEMMA EndsNone ==
    ASSUME NEW t, NEW at, NEW T, Doc(t, at, T), NEW n \in Nat, n < Len(t),
           ~ (Outside(at, t, n) /\ t[n + 1] \in Closing), NEW i \in 1..Len(T)
    PROVE  Ended(T[i], n + 1) = Ended(T[i], n)
  <1>1. ~ (T[i].type \in Containers /\ T[i].end = n + 1)
    BY DocPlace DEF EndsTokens
  <1>2. T[i].end \in Nat
    BY DocToken DEF Fits
  <1> QED BY <1>1, <1>2 DEF Ended

LEMMA ShowsOn ==
    ASSUME NEW t, NEW at, NEW T, Doc(t, at, T), NEW n \in Nat, n < Len(t), NEW toks,
           Shows(toks, T, n), ~ (Outside(at, t, n) /\ t[n + 1] \in Closing)
    PROVE  Shows(toks, T, n + 1)
  <1>1. ASSUME NEW i \in 1..Len(toks)
        PROVE  Shown(toks[i], T, Len(toks), i, n + 1)
    <2>1. i \in 1..Len(T)
      BY DEF Shows, Doc
    <2>2. Ended(T[i], n + 1) = Ended(T[i], n)
      BY <2>1, EndsNone
    <2> QED BY <2>2 DEF Shows, Shown
  <1> QED BY <1>1 DEF Shows
-----------------------------------------------------------------------------
(* The containers around token j. *)
Around(T, j) == { i \in 1..(j - 1) : T[i].type \in Containers /\ T[i].end > First(T[j]) }

LEMMA ParentIs ==
    ASSUME NEW t, NEW at, NEW T, Doc(t, at, T), NEW j \in 1..Len(T)
    PROVE  /\ j > 1 /\ IsKey(T[j - 1]) => Parent(T, j) = j - 1
           /\ ~ (j > 1 /\ IsKey(T[j - 1])) => Parent(T, j) = LastOf(Around(T, j))
           /\ Parent(T, j) \in 0..(j - 1)
  <1>1. /\ j > 1 /\ IsKey(T[j - 1]) => Parent(T, j) = j - 1
        /\ ~ (j > 1 /\ IsKey(T[j - 1])) => Parent(T, j) = LastOf(Around(T, j))
    BY DEF Parent, Around
  <1>2. j - 1 \in Nat /\ Around(T, j) \subseteq 1..(j - 1)
    BY DEF Around, Doc
  <1>3. LastOf(Around(T, j)) \in 0..(j - 1)
    BY <1>2, LastIsIn
  <1> QED BY <1>1, <1>2, <1>3

LEMMA ChildrenGrow ==
    ASSUME NEW t, NEW at, NEW T, Doc(t, at, T), NEW s \in Nat, s < Len(T)
    PROVE  /\ Cardinality(Children(T, s + 1, s + 1)) = 0
           /\ \A i \in 1..s : Cardinality(Children(T, s + 1, i))
                                = Raised(Cardinality(Children(T, s, i)), i = Parent(T, s + 1))
  <1>1. ASSUME NEW j \in 1..(s + 1)
        PROVE  Parent(T, j) \in 0..(j - 1)
    <2>1. j \in 1..Len(T)
      BY DEF Doc
    <2> QED BY <2>1, ParentIs
  <1>2. Children(T, s + 1, s + 1) = {}
    <2>1. ASSUME NEW j \in 1..(s + 1)
          PROVE  Parent(T, j) # s + 1
      BY <1>1
    <2> QED BY <2>1 DEF Children
  <1>3. ASSUME NEW i \in 1..s
        PROVE  Cardinality(Children(T, s + 1, i))
                 = Raised(Cardinality(Children(T, s, i)), i = Parent(T, s + 1))
    <2> DEFINE C == Children(T, s, i)
               D == Children(T, s + 1, i)
    <2>1. 1..(s + 1) = (1..s) \cup {s + 1}
      OBVIOUS
    <2>2. D = IF i = Parent(T, s + 1) THEN C \cup {s + 1} ELSE C
      BY <2>1 DEF Children
    <2>3. C \subseteq 1..s /\ s + 1 \notin C
      BY DEF Children
    <2> HIDE DEF C, D
    <2>4. IsFiniteSet(C)
      <3>1. IsFiniteSet(1..s) /\ C \subseteq 1..s
        BY <2>3, FS_Interval
      <3> QED BY <3>1, FS_Subset
    <2>5. CASE i = Parent(T, s + 1)
      <3>1. Cardinality(C \cup {s + 1}) = Cardinality(C) + 1
        BY <2>3, <2>4, FS_AddElement
      <3> QED BY <2>2, <2>5, <3>1 DEF Raised, C, D
    <2>6. CASE i # Parent(T, s + 1)
      BY <2>2, <2>6 DEF Raised, C, D
    <2> QED BY <2>5, <2>6
  <1>4. Cardinality(Children(T, s + 1, s + 1)) = 0
    BY <1>2, FS_EmptySet
  <1> QED BY <1>3, <1>4

(* The next token is written as it is meant to be. *)
Adds(T, n, ts, us, tok) ==
    /\ Shows(ts, T, n) /\ Len(ts) < Len(T) /\ Grown(ts, us, Parent(T, Len(ts) + 1), tok)
    /\ tok.type = T[Len(ts) + 1].type /\ tok.start = T[Len(ts) + 1].start
    /\ tok.size = 0 /\ tok.end = Ended(T[Len(ts) + 1], n)

LEMMA ShowsGrown ==
    ASSUME NEW t, NEW at, NEW T, Doc(t, at, T), NEW n, NEW ts, NEW us, NEW tok,
           Adds(T, n, ts, us, tok)
    PROVE  Shows(us, T, n) /\ Len(us) = Len(ts) + 1
  <1> DEFINE s == Len(ts)
             sup == Parent(T, s + 1)
  <1>1. /\ s \in Nat /\ s + 1 \in 1..Len(T) /\ Len(us) = s + 1 /\ us[s + 1] = tok
        /\ Len(us) \in 0..Len(T)
        /\ \A i \in 1..s : /\ us[i].type = ts[i].type /\ us[i].start = ts[i].start
                           /\ us[i].end = ts[i].end
                           /\ us[i].size = Raised(ts[i].size, i = sup)
        /\ \A i \in 1..s : Shown(ts[i], T, s, i, n)
    BY DEF Adds, Grown, Shows, Doc
  <1>2. /\ Cardinality(Children(T, s + 1, s + 1)) = 0
        /\ \A i \in 1..s : Cardinality(Children(T, s + 1, i))
                             = Raised(Cardinality(Children(T, s, i)), i = sup)
    BY <1>1, ChildrenGrow
  <1> HIDE DEF s, sup
  <1>3. ASSUME NEW i \in 1..s
        PROVE  Shown(us[i], T, s + 1, i, n)
    <2>1. Shown(ts[i], T, s, i, n)
      BY <1>1
    <2>2. /\ us[i].type = ts[i].type /\ us[i].start = ts[i].start /\ us[i].end = ts[i].end
          /\ us[i].size = Raised(ts[i].size, i = sup)
      BY <1>1
    <2>3. Cardinality(Children(T, s + 1, i)) = Raised(Cardinality(Children(T, s, i)), i = sup)
      BY <1>2
    <2> QED BY <2>1, <2>2, <2>3 DEF Shown
  <1>4. Shown(us[s + 1], T, s + 1, s + 1, n)
    BY <1>1, <1>2 DEF Adds, Shown, s
  <1>5. ASSUME NEW i \in 1..(s + 1)
        PROVE  Shown(us[i], T, s + 1, i, n)
    BY <1>1, <1>3, <1>4
  <1> QED BY <1>1, <1>5 DEF Shows, s

(* The open tokens are the containers that are around n. *)
LEMMA OpenShown ==
    ASSUME NEW t, NEW at, NEW T, Doc(t, at, T), NEW n \in Nat, NEW p \in Parsers,
           Shows(p.toks, T, n)
    PROVE  OpenTokens(p) = { i \in 1..Len(p.toks) : T[i].type \in Containers /\ T[i].end > n }
  <1>1. DOMAIN p.toks = 1..Len(p.toks) /\ Len(p.toks) \in Nat
    BY ParserFields
  <1>2. ASSUME NEW i \in 1..Len(p.toks)
        PROVE  p.toks[i].end = -1 <=> T[i].type \in Containers /\ T[i].end > n
    <2>1. i \in 1..Len(T) /\ p.toks[i].end = Ended(T[i], n)
      BY DEF Shows, Shown, Doc
    <2>2. T[i].end \in Nat
      BY <2>1, DocToken DEF Fits
    <2> QED BY <2>1, <2>2 DEF Ended
  <1> QED BY <1>1, <1>2 DEF OpenTokens
-----------------------------------------------------------------------------
(* The token that counts: a key once its colon is read, the innermost open *)
(* container otherwise, but a key still behind a bare value of its own.    *)
Keyed(t, at, T, s, n) == s > 0 /\ IsKey(T[s]) /\ Separates(t, at, Pairing, T[s].end, n)

Filled(t, at, T, s, n) ==
    /\ s > 1 /\ IsKey(T[s - 1]) /\ ~ IsKey(T[s]) /\ T[s].type \notin Containers
    /\ ~ Separates(t, at, Ending, T[s].end, n)

Counts(p, t, at, T, n) ==
    LET s == Len(p.toks)
    IN  IF Keyed(t, at, T, s, n) THEN p.super = s
        ELSE p.super = LastOf(OpenTokens(p)) \/ (Filled(t, at, T, s, n) /\ p.super = s - 1)

KeyAndValue(t, at, T, k) ==
    /\ k < Len(T) /\ ~ IsKey(T[k + 1])
    /\ Separates(t, at, Pairing, T[k].end, First(T[k + 1]))
    /\ ~ Separates(t, at, Parting, T[k].end, First(T[k + 1]))
    /\ \E i \in 1..(k - 1) : T[i].type \in Containers /\ T[i].end > T[k].end
    /\ \A i \in 1..(k - 1) : T[i].end > T[k].end => T[i].end > T[k + 1].end
    /\ k + 1 < Len(T) /\ T[k + 1].type \notin Containers =>
           Separates(t, at, Ending, T[k + 1].end, First(T[k + 2]))

LEMMA DocKey ==
    ASSUME NEW t, NEW at, NEW T, Doc(t, at, T), NEW k \in 1..Len(T), IsKey(T[k])
    PROVE  KeyAndValue(t, at, T, k)
  BY DEF Doc, IsTokenized, Members, KeyAndValue

LEMMA CountsParent ==
    ASSUME NEW t, NEW at, NEW T, Doc(t, at, T), NEW n \in Nat, NEW p \in Parsers,
           Shows(p.toks, T, n), Counts(p, t, at, T, n), Len(p.toks) + 1 \in 1..Len(T),
           First(T[Len(p.toks) + 1]) = n
    PROVE  p.super = Parent(T, Len(p.toks) + 1)
  <1> DEFINE s == Len(p.toks)
  <1>0. s \in Nat /\ Len(T) \in Nat /\ s + 1 \in 1..Len(T) /\ (s + 1) - 1 = s
    BY ParserFields DEF Doc
  <1>1. OpenTokens(p) = Around(T, s + 1)
    <2>1. 1..((s + 1) - 1) = 1..s
      BY <1>0
    <2> QED BY <2>1, OpenShown DEF Around
  <1>2. IF Keyed(t, at, T, s, n) THEN p.super = s
        ELSE p.super = LastOf(OpenTokens(p)) \/ (Filled(t, at, T, s, n) /\ p.super = s - 1)
    BY DEF Counts
  <1>3. /\ s > 0 /\ IsKey(T[s]) => Parent(T, s + 1) = s
        /\ ~ (s > 0 /\ IsKey(T[s])) => Parent(T, s + 1) = LastOf(Around(T, s + 1))
    <2>1. s + 1 > 1 <=> s > 0
      BY <1>0
    <2> QED BY <1>0, <2>1, ParentIs
  <1>f. First(T[s + 1]) = n
    OBVIOUS
  <1> HIDE DEF s
  <1>4. CASE s > 0 /\ IsKey(T[s])
    <2>1. KeyAndValue(t, at, T, s)
      BY <1>0, <1>4, DocKey
    <2>2. Keyed(t, at, T, s, n)
      BY <1>f, <1>4, <2>1 DEF KeyAndValue, Keyed
    <2> QED BY <1>2, <1>3, <1>4, <2>2 DEF s
  <1>5. CASE ~ (s > 0 /\ IsKey(T[s]))
    <2>1. ~ Keyed(t, at, T, s, n)
      BY <1>5 DEF Keyed
    <2>2. ~ Filled(t, at, T, s, n)
      <3> SUFFICES ASSUME Filled(t, at, T, s, n) PROVE FALSE
        OBVIOUS
      <3>1. /\ s > 1 /\ IsKey(T[s - 1]) /\ T[s].type \notin Containers
            /\ ~ Separates(t, at, Ending, T[s].end, n)
        BY DEF Filled
      <3>2. s - 1 \in 1..Len(T) /\ (s - 1) + 1 = s /\ (s - 1) + 2 = s + 1 /\ s < Len(T)
        BY <1>0, <3>1
      <3>3. KeyAndValue(t, at, T, s - 1)
        BY <3>1, <3>2, DocKey
      <3>4. Separates(t, at, Ending, T[s].end, First(T[s + 1]))
        BY <3>1, <3>2, <3>3 DEF KeyAndValue
      <3> QED BY <1>f, <3>1, <3>4
    <2> QED BY <1>1, <1>2, <1>3, <1>5, <2>1, <2>2 DEF s
  <1> QED BY <1>4, <1>5

LEMMA SeparatesOn ==
    ASSUME NEW t, NEW at, NEW marks, NEW from \in Nat, NEW n \in Nat
    PROVE  Separates(t, at, marks, from, n + 1)
             <=> \/ Separates(t, at, marks, from, n)
                 \/ from <= n /\ Outside(at, t, n) /\ t[n + 1] \in marks
  <1>1. ASSUME Separates(t, at, marks, from, n + 1)
        PROVE  \/ Separates(t, at, marks, from, n)
               \/ from <= n /\ Outside(at, t, n) /\ t[n + 1] \in marks
    <2>1. PICK m \in from..((n + 1) - 1) : Outside(at, t, m) /\ t[m + 1] \in marks
      BY <1>1 DEF Separates
    <2>2. CASE m = n
      BY <2>1, <2>2
    <2>3. CASE m # n
      <3>1. m \in from..(n - 1)
        BY <2>3
      <3> QED BY <2>1, <3>1 DEF Separates
    <2> QED BY <2>2, <2>3
  <1>2. ASSUME Separates(t, at, marks, from, n)
        PROVE  Separates(t, at, marks, from, n + 1)
    <2>1. PICK m \in from..(n - 1) : Outside(at, t, m) /\ t[m + 1] \in marks
      BY <1>2 DEF Separates
    <2>2. m \in from..((n + 1) - 1)
      OBVIOUS
    <2> QED BY <2>1, <2>2 DEF Separates
  <1>3. ASSUME from <= n, Outside(at, t, n), t[n + 1] \in marks
        PROVE  Separates(t, at, marks, from, n + 1)
    <2>1. n \in from..((n + 1) - 1)
      BY <1>3
    <2> QED BY <1>3, <2>1 DEF Separates
  <1> QED BY <1>1, <1>2, <1>3

(* A character that is no colon, comma or closing bracket changes nothing. *)
LEMMA CountsOn ==
    ASSUME NEW t, NEW at, NEW T, Doc(t, at, T), NEW n \in Nat, NEW p \in Parsers,
           Shows(p.toks, T, n), Counts(p, t, at, T, n),
           ~ (Outside(at, t, n) /\ t[n + 1] \in Pairing \cup Ending)
    PROVE  Counts(p, t, at, T, n + 1)
  <1> DEFINE s == Len(p.toks)
  <1>0. s \in Nat /\ s \in 0..Len(T) /\ Len(T) \in Nat
    BY ParserFields DEF Shows, Doc
  <1>c. IF Keyed(t, at, T, s, n) THEN p.super = s
        ELSE p.super = LastOf(OpenTokens(p)) \/ (Filled(t, at, T, s, n) /\ p.super = s - 1)
    BY DEF Counts
  <1> HIDE DEF s
  <1>1. ASSUME s > 0
        PROVE  /\ Separates(t, at, Pairing, T[s].end, n + 1) <=> Separates(t, at, Pairing, T[s].end, n)
               /\ Separates(t, at, Ending, T[s].end, n + 1)
                    <=> Separates(t, at, Ending, T[s].end, n)
    <2>1. s \in 1..Len(T)
      BY <1>0, <1>1
    <2>2. T[s].end \in Nat
      BY <2>1, DocToken DEF Fits
    <2>3. ~ (Outside(at, t, n) /\ t[n + 1] \in Pairing)
      OBVIOUS
    <2>4. ~ (Outside(at, t, n) /\ t[n + 1] \in Ending)
      OBVIOUS
    <2>5. Separates(t, at, Pairing, T[s].end, n + 1) <=> Separates(t, at, Pairing, T[s].end, n)
      BY <2>2, <2>3, SeparatesOn
    <2>6. Separates(t, at, Ending, T[s].end, n + 1)
            <=> Separates(t, at, Ending, T[s].end, n)
      BY <2>2, <2>4, SeparatesOn
    <2> QED BY <2>5, <2>6
  <1>2. Keyed(t, at, T, s, n + 1) <=> Keyed(t, at, T, s, n)
    BY <1>1 DEF Keyed
  <1>3. Filled(t, at, T, s, n + 1) <=> Filled(t, at, T, s, n)
    <2>1. s > 1 => s > 0
      BY <1>0
    <2> QED BY <1>1, <2>1 DEF Filled
  <1> QED BY <1>c, <1>2, <1>3 DEF Counts, s

(* Behind a token that has just ended nothing has been read that counts.   *)
Quiet(t, at, T, end, n) ==
    /\ ~ Separates(t, at, Pairing, end, n) /\ ~ Separates(t, at, Ending, end, n)
    /\ \A i \in 1..Len(T) : T[i].type \in Containers => (T[i].end > end <=> T[i].end > n)

LEMMA QuietHere ==
    ASSUME NEW t, NEW at, NEW T, NEW n \in Nat
    PROVE  Quiet(t, at, T, n, n)
  BY DEF Quiet, Separates

LEMMA QuietBehind ==
    ASSUME NEW t, NEW at, NEW T, Doc(t, at, T), NEW n \in Nat, n < Len(t), ~ Outside(at, t, n)
    PROVE  Quiet(t, at, T, n, n + 1)
  <1>1. ASSUME NEW marks
        PROVE  ~ Separates(t, at, marks, n, n + 1)
    <2>1. ~ Separates(t, at, marks, n, n)
      BY DEF Separates
    <2> QED BY <2>1, SeparatesOn
  <1>2. ASSUME NEW i \in 1..Len(T), T[i].type \in Containers
        PROVE  T[i].end > n <=> T[i].end > n + 1
    <2>1. T[i].end # n + 1
      BY <1>2, DocPlace DEF EndsTokens
    <2>2. T[i].end \in Nat
      BY DocToken DEF Fits
    <2> QED BY <2>1, <2>2
  <1> QED BY <1>1, <1>2 DEF Quiet

LEMMA LeafCounts ==
    ASSUME NEW t, NEW at, NEW T, Doc(t, at, T), NEW n \in Nat, NEW q \in Parsers,
           Shows(q.toks, T, n), NEW j \in 1..Len(T), Len(q.toks) = j, q.super = Parent(T, j),
           T[j].type \notin Containers, Quiet(t, at, T, T[j].end, n)
    PROVE  Counts(q, t, at, T, n)
  <1>0. j \in Nat /\ Len(T) \in Nat
    BY DEF Doc
  <1>1. ~ Keyed(t, at, T, j, n)
    BY DEF Keyed, Quiet
  <1>2. CASE j > 1 /\ IsKey(T[j - 1])
    <2>1. q.super = j - 1
      BY <1>2, ParentIs
    <2>2. j - 1 \in 1..Len(T) /\ (j - 1) + 1 = j
      BY <1>0, <1>2
    <2>3. ~ IsKey(T[j])
      BY <1>2, <2>2, DocKey DEF KeyAndValue
    <2>4. Filled(t, at, T, j, n)
      BY <1>2, <2>3 DEF Filled, Quiet
    <2> QED BY <1>1, <2>1, <2>4 DEF Counts
  <1>3. CASE ~ (j > 1 /\ IsKey(T[j - 1]))
    <2>1. q.super = LastOf(Around(T, j))
      BY <1>3, ParentIs
    <2>2. Around(T, j) = OpenTokens(q)
      <3>1. OpenTokens(q) = { i \in 1..j : T[i].type \in Containers /\ T[i].end > n }
        BY OpenShown
      <3>2. ASSUME NEW i \in 1..j
            PROVE  (i \in 1..(j - 1) /\ T[i].type \in Containers /\ T[i].end > First(T[j]))
                     <=> (T[i].type \in Containers /\ T[i].end > n)
        <4>0. i \in 1..Len(T) /\ Fits(t, T[i]) /\ Fits(t, T[j])
          BY <1>0, DocToken
        <4>1. T[i].end \in Nat /\ T[j].end \in Nat /\ First(T[j]) \in Nat /\ First(T[j]) <= T[j].end
          <5>1. First(T[j]) <= T[j].start
            BY <4>0 DEF Fits
          <5> QED BY <4>0, <5>1 DEF Fits
        <4>2. T[i].type \in Containers => (T[i].end > T[j].end <=> T[i].end > n)
          BY <4>0 DEF Quiet
        <4>3. CASE i = j
          BY <1>0, <4>3
        <4>4. CASE i # j
          <5>1. i \in 1..(j - 1) /\ i < j
            BY <1>0, <4>4
          <5>2. Placed(T[i], T[j])
            BY <4>0, <5>1, DocOrdered
          <5>3. T[i].end < First(T[j]) \/ T[j].end < T[i].end
            BY <5>2 DEF Placed
          <5> HIDE DEF First
          <5>4. T[i].end > First(T[j]) <=> T[i].end > T[j].end
            BY <4>1, <5>3
          <5> QED BY <4>2, <5>1, <5>4
        <4> QED BY <4>3, <4>4
      <3>3. 1..(j - 1) \subseteq 1..j
        BY <1>0
      <3> QED BY <3>1, <3>2, <3>3 DEF Around
    <2> QED BY <1>1, <2>1, <2>2 DEF Counts
  <1> QED BY <1>2, <1>3

(* The token that ends where a string or a word does is the last one.      *)
LEMMA LeafEnds ==
    ASSUME NEW t, NEW at, NEW T, Doc(t, at, T), NEW n \in Nat, NEW j \in 1..Len(T), Upto(T, j, n),
           NEW k \in 1..Len(T), T[k].type \notin Containers, T[k].end = n, First(T[k]) < n
    PROVE  k = j
  <1>1. k <= j /\ First(T[j]) < n
    BY DEF Upto, Doc
  <1>2. CASE k < j
    <2>1. n < First(T[j])
      BY <1>2, DocOrdered DEF Placed
    <2>2. First(T[j]) \in Nat
      BY DocToken DEF Fits
    <2> QED BY <1>1, <2>1, <2>2
  <1> QED BY <1>1, <1>2 DEF Doc
-----------------------------------------------------------------------------
(* The parser has written what the text it has read says: it stands        *)
(* between two tokens, or in a string or a bare word.                      *)
Between(p, t, at, T, n) ==
    /\ p.mode = "value"
    /\ Upto(T, Len(p.toks), n) /\ Shows(p.toks, T, n) /\ Counts(p, t, at, T, n)

HexAhead(t, digits, n) ==
    digits \in 1..4 /\ n + digits <= Len(t) /\ \A m \in (n + 1)..(n + digits) : t[m] \in HexDigits

LeafMode(type) == IF type = "primitive" THEN {"primitive"} ELSE {"string", "escape", "hex"}

InLeaf(p, t, at, T, n) ==
    LET j == Len(p.toks) + 1
    IN  /\ Upto(T, j, n) /\ Shows(p.toks, T, n) /\ p.super = Parent(T, j)
        /\ p.begin = T[j].start /\ T[j].type \in {"string", "primitive"}
        /\ p.mode \in LeafMode(T[j].type)
        /\ p.mode = "hex" => HexAhead(t, p.digits, n)

Tracks(p, t, at, T, n) == Between(p, t, at, T, n) \/ InLeaf(p, t, at, T, n)

(* There is room for all of the tokens.                                    *)
Roomy(p, t, at, T, n) ==
    /\ Doc(t, at, T) /\ n \in Nat
    /\ room \in Nat /\ Len(T) <= room
    /\ ParserOK(p, n) /\ Running(p)

(* A character of the document is read. *)
Ready(p, t, at, T, n) == Roomy(p, t, at, T, n) /\ n < Len(t)

Reading(p, t, at, T, n) ==
    Ready(p, t, at, T, n) /\ Between(p, t, at, T, n) /\ Outside(at, t, n)

LEMMA ReadingIs ==
    ASSUME NEW p, NEW t, NEW at, NEW T, NEW n, Reading(p, t, at, T, n)
    PROVE  /\ Doc(t, at, T) /\ n \in Nat /\ n < Len(t) /\ Outside(at, t, n)
           /\ p \in Parsers /\ Len(p.toks) \in Nat /\ Len(T) \in Nat
           /\ DOMAIN p.toks = 1..Len(p.toks) /\ p.super \in Nat
           /\ p.mode = "value" /\ p.outcome = "running"
           /\ Upto(T, Len(p.toks), n) /\ Shows(p.toks, T, n) /\ Counts(p, t, at, T, n)
  BY ParserFields DEF Reading, Ready, Roomy, Between, ParserOK, Running, Doc

LEMMA ReadOpen ==
    ASSUME NEW p, NEW t, NEW at, NEW T, NEW n, Reading(p, t, at, T, n), t[n + 1] \in Opening
    PROVE  LET q == Open(p, TypeOf(t[n + 1]), n)
           IN  Between(q, t, at, T, n + 1) /\ Running(q)
  <1> DEFINE type == TypeOf(t[n + 1])
             q == Open(p, type, n)
             s == Len(p.toks)
             tok == Token(type, n, -1)
  <1>0. /\ Doc(t, at, T) /\ n \in Nat /\ n < Len(t) /\ Outside(at, t, n)
        /\ p \in Parsers /\ s \in Nat /\ Len(T) \in Nat /\ p.mode = "value"
        /\ Upto(T, s, n) /\ Shows(p.toks, T, n) /\ Counts(p, t, at, T, n)
    BY ReadingIs
  <1>1. t[n + 1] \notin Delimiters /\ t[n + 1] \notin Closing
    BY DEF Opening, Delimiters, Closing, White
  <1>2. TypeAt(t[n + 1]) = type /\ type \in Containers
    BY DEF TypeAt, TypeOf, Containers
  <1>3. /\ s + 1 \in 1..Len(T) /\ First(T[s + 1]) = n /\ T[s + 1].type = type
        /\ Upto(T, s + 1, n + 1)
    BY <1>0, <1>1, <1>2, Starts
  <1>4. p.super = Parent(T, s + 1)
    BY <1>0, <1>3, CountsParent
  <1>5. ~ Full(p) /\ ParserOK(p, n) /\ Running(p)
    <2>1. s < Len(T) /\ Len(T) <= room /\ room \in Nat
      BY <1>0, <1>3 DEF Reading, Ready, Roomy
    <2> QED BY <1>0, <2>1 DEF Full, Reading, Ready, Roomy
  <1>6. /\ q \in Parsers /\ Grown(p.toks, q.toks, p.super, tok)
        /\ q.super = s + 1 /\ q.mode = p.mode /\ Running(q)
    BY <1>0, <1>2, <1>5, OpenGrows
  <1>7. Shows(p.toks, T, n + 1)
    BY <1>0, <1>1, ShowsOn
  <1>8. /\ T[s + 1].start = n /\ Ended(T[s + 1], n + 1) = -1
    <2>1. Fits(t, T[s + 1])
      BY <1>0, <1>3, DocToken
    <2>2. type # "string"
      BY <1>2 DEF Containers
    <2>3. T[s + 1].start = n /\ n < T[s + 1].end /\ T[s + 1].end \in Nat
      BY <1>2, <1>3, <2>1, <2>2 DEF Fits
    <2>4. Ended(T[s + 1], n + 1) = Ended(T[s + 1], n)
      BY <1>0, <1>1, <1>3, EndsNone
    <2> QED BY <1>2, <1>3, <2>3, <2>4 DEF Ended
  <1>9. tok.type = T[s + 1].type /\ tok.start = T[s + 1].start /\ tok.size = 0
        /\ tok.end = Ended(T[s + 1], n + 1) /\ tok.end = -1
    BY <1>3, <1>8 DEF Token
  <1>10. s < Len(T) /\ n + 1 \in Nat
    BY <1>0, <1>3
  <1> HIDE DEF q, tok
  <1>11. Shows(q.toks, T, n + 1) /\ Len(q.toks) = s + 1
    <2>1. Grown(p.toks, q.toks, Parent(T, s + 1), tok)
      BY <1>4, <1>6
    <2>2. Adds(T, n + 1, p.toks, q.toks, tok)
      BY <1>7, <1>9, <1>10, <2>1 DEF Adds
    <2> QED BY <1>0, <2>2, ShowsGrown
  <1>12. LastOf(OpenTokens(q)) = s + 1
    <2>1. DOMAIN q.toks = 1..(s + 1)
      BY <1>6, <1>11, ParserFields
    <2>2. q.toks[s + 1].end = -1
      BY <1>6, <1>9, <1>11 DEF Grown
    <2>3. OpenTokens(q) \subseteq 1..(s + 1) /\ s + 1 \in OpenTokens(q)
      BY <1>0, <2>1, <2>2 DEF OpenTokens
    <2>4. s + 1 \in Nat
      BY <1>0
    <2>5. LastOf(OpenTokens(q)) \in 1..(s + 1) /\ s + 1 <= LastOf(OpenTokens(q))
      BY <2>3, <2>4, LastIsIn
    <2> QED BY <1>0, <2>5
  <1>13. ~ Keyed(t, at, T, s + 1, n + 1)
    BY <1>2, <1>3 DEF Keyed, IsKey, Containers
  <1>14. Counts(q, t, at, T, n + 1)
    BY <1>6, <1>11, <1>12, <1>13 DEF Counts
  <1>15. Upto(T, Len(q.toks), n + 1)
    BY <1>3, <1>11
  <1> QED BY <1>0, <1>6, <1>11, <1>14, <1>15 DEF Between, q

LEMMA ReadSpace ==
    ASSUME NEW p, NEW t, NEW at, NEW T, NEW n, Reading(p, t, at, T, n), t[n + 1] \in White
    PROVE  Between(p, t, at, T, n + 1)
  <1>0. /\ Doc(t, at, T) /\ n \in Nat /\ n < Len(t)
        /\ p \in Parsers /\ p.mode = "value"
        /\ Upto(T, Len(p.toks), n) /\ Shows(p.toks, T, n) /\ Counts(p, t, at, T, n)
    BY ReadingIs
  <1>1. t[n + 1] \in Delimiters
    BY DEF Delimiters
  <1>2. t[n + 1] \notin Closing
    BY DEF White, Closing
  <1>3. t[n + 1] \notin Pairing \cup Ending
    <2>1. t[n + 1] \notin Pairing BY DEF White, Pairing
    <2>2. t[n + 1] \notin Parting BY DEF White, Parting
    <2> QED BY <1>2, <2>1, <2>2 DEF Ending
  <1>4. Upto(T, Len(p.toks), n + 1)
    BY <1>0, <1>1, Stays
  <1>5. Shows(p.toks, T, n + 1)
    BY <1>0, <1>2, ShowsOn
  <1>6. Counts(p, t, at, T, n + 1)
    BY <1>0, <1>3, CountsOn
  <1> QED BY <1>0, <1>4, <1>5, <1>6 DEF Between
(* A closing bracket ends the innermost container. *)
Innermost(T, s, k, n) ==
    /\ k \in 1..s /\ T[k].type \in Containers /\ T[k].end = n + 1
    /\ \A i \in 1..s : T[i].type \in Containers /\ T[i].end > n
                           => i = k \/ (i < k /\ T[i].end > n + 1)

LEMMA BracketEnds ==
    ASSUME NEW t, NEW at, NEW T, Doc(t, at, T), NEW n \in Nat, n < Len(t), NEW s, Upto(T, s, n),
           Outside(at, t, n), t[n + 1] \in Closing
    PROVE  \E k \in 1..s : Innermost(T, s, k, n) /\ T[k].type = TypeOf(t[n + 1])
  <1>0. s \in 0..Len(T) /\ Len(T) \in Nat /\ s \in Nat
    BY DEF Upto, Doc
  <1>1. PICK k \in 1..Len(T) : T[k].end = n + 1 /\ T[k].type = TypeOf(t[n + 1])
    <2>1. EndsTokens(t, at, T, n)
      BY DocPlace
    <2> QED BY <2>1 DEF EndsTokens
  <1>2. T[k].type \in Containers
    BY <1>1 DEF TypeOf, Containers
  <1>3. First(T[k]) # n
    <2>1. t[n + 1] \in Delimiters
      BY DEF Delimiters
    <2> QED BY <2>1, DocPlace DEF BeginsTokens
  <1>4. First(T[k]) \in Nat /\ First(T[k]) < n
    <2>1. Fits(t, T[k])
      BY DocToken
    <2>2. T[k].type # "string"
      BY <1>2 DEF Containers
    <2>3. First(T[k]) \in Nat /\ First(T[k]) < n + 1
      BY <1>1, <1>2, <2>1, <2>2 DEF Fits
    <2> HIDE DEF First
    <2> QED BY <1>3, <2>3
  <1>5. k \in 1..s
    BY <1>0, <1>4 DEF Upto
  <1>6. ASSUME NEW i \in 1..s, T[i].type \in Containers, T[i].end > n, i # k
        PROVE  i < k /\ T[i].end > n + 1
    <2>1. i \in 1..Len(T) /\ First(T[i]) < n
      BY <1>0 DEF Upto
    <2>2. First(T[i]) \in Nat /\ T[i].end \in Nat
      BY <2>1, DocToken DEF Fits
    <2>3. CASE k < i
      <3>1. Placed(T[k], T[i])
        BY <2>1, <2>3, DocOrdered
      <3> HIDE DEF First
      <3> QED BY <1>1, <1>6, <2>1, <2>2, <3>1 DEF Placed
    <2>4. CASE i < k
      <3>1. Placed(T[i], T[k])
        BY <2>1, <2>4, DocOrdered
      <3> HIDE DEF First
      <3> QED BY <1>1, <1>4, <1>6, <2>2, <2>4, <3>1 DEF Placed
    <2> QED BY <1>5, <1>6, <2>3, <2>4
  <1>7. Innermost(T, s, k, n)
    BY <1>1, <1>2, <1>5, <1>6 DEF Innermost
  <1> QED BY <1>1, <1>5, <1>7

LEMMA ReadClose ==
    ASSUME NEW p, NEW t, NEW at, NEW T, NEW n, Reading(p, t, at, T, n), t[n + 1] \in Closing
    PROVE  LET q == Close(p, TypeOf(t[n + 1]), n)
           IN  Between(q, t, at, T, n + 1) /\ Running(q)
  <1> DEFINE type == TypeOf(t[n + 1])
             q == Close(p, type, n)
             s == Len(p.toks)
  <1>0. /\ Doc(t, at, T) /\ n \in Nat /\ n < Len(t) /\ Outside(at, t, n)
        /\ p \in Parsers /\ s \in Nat /\ Len(T) \in Nat /\ p.mode = "value"
        /\ p.outcome = "running" /\ Upto(T, s, n) /\ Shows(p.toks, T, n)
    BY ReadingIs
  <1>1. s \in 0..Len(T) /\ Upto(T, s, n + 1)
    <2>1. t[n + 1] \in Delimiters
      BY DEF Delimiters
    <2>2. Upto(T, s, n + 1)
      BY <1>0, <2>1, Stays
    <2> QED BY <2>2 DEF Upto
  <1>2. PICK k \in 1..s : Innermost(T, s, k, n) /\ T[k].type = type
    BY <1>0, BracketEnds
  <1>3. OpenTokens(p) = { i \in 1..s : T[i].type \in Containers /\ T[i].end > n }
    BY <1>0, OpenShown
  <1>4. LastOf(OpenTokens(p)) = k
    <2>1. OpenTokens(p) \subseteq 1..s /\ k \in OpenTokens(p) /\ \A i \in OpenTokens(p) : i <= k
      BY <1>0, <1>2, <1>3 DEF Innermost
    <2>2. LastOf(OpenTokens(p)) \in OpenTokens(p) /\ k <= LastOf(OpenTokens(p))
      BY <1>0, <2>1, LastIsIn
    <2> QED BY <1>0, <2>1, <2>2
  <1>5. \A i \in 1..s : Shown(p.toks[i], T, s, i, n) /\ i \in 1..Len(T)
    BY <1>0, <1>1 DEF Shows
  <1>6. /\ q \in Parsers /\ Len(q.toks) = s /\ q.mode = "value" /\ Running(q)
        /\ q.super = LastOf(OpenTokens(p) \ {k})
        /\ \A i \in 1..s :
               /\ q.toks[i].type = p.toks[i].type /\ q.toks[i].start = p.toks[i].start
               /\ q.toks[i].size = p.toks[i].size
               /\ q.toks[i].end = IF i = k THEN n + 1 ELSE p.toks[i].end
    <2>1. p.toks[k].type = type
      BY <1>2, <1>5 DEF Shown
    <2>2. k \in 1..Len(p.toks) /\ Running(p)
      BY <1>0 DEF Running
    <2>3. Shut(p, Close(p, p.toks[k].type, n), k, n + 1)
      BY <1>0, <1>4, <2>2, CloseShuts
    <2> HIDE DEF type
    <2> QED BY <1>0, <2>1, <2>3 DEF Shut
  <1> HIDE DEF q, s
  <1>7. ASSUME NEW i \in 1..s
        PROVE  Ended(T[i], n + 1) = (IF i = k THEN n + 1 ELSE Ended(T[i], n))
               /\ (T[i].type \in Containers /\ T[i].end > n + 1
                     <=> T[i].type \in Containers /\ T[i].end > n /\ i # k)
    <2>1. T[i].end \in Nat
      BY <1>0, <1>5, DocToken DEF Fits
    <2> QED BY <1>0, <1>2, <2>1 DEF Innermost, Ended
  <1>8. Shows(q.toks, T, n + 1)
    <2>1. ASSUME NEW i \in 1..s
          PROVE  Shown(q.toks[i], T, s, i, n + 1)
      BY <1>5, <1>6, <1>7 DEF Shown
    <2> QED BY <1>1, <1>6, <2>1 DEF Shows
  <1>9. OpenTokens(q) = OpenTokens(p) \ {k}
    <2>1. OpenTokens(q) = { i \in 1..s : T[i].type \in Containers /\ T[i].end > n + 1 }
      BY <1>0, <1>6, <1>8, OpenShown
    <2> QED BY <1>3, <1>7, <2>1
  <1>10. ~ Keyed(t, at, T, s, n + 1)
    <2> SUFFICES ASSUME s > 0, IsKey(T[s])
                 PROVE  FALSE
      BY DEF Keyed
    <2>1. s \in 1..Len(T) /\ s \in 1..s
      BY <1>0, <1>1
    <2>2. KeyAndValue(t, at, T, s)
      BY <1>0, <2>1, DocKey
    <2>3. s + 1 \in 1..Len(T)
      BY <1>0, <2>1, <2>2 DEF KeyAndValue
    <2>4. k # s /\ k < s /\ k \in 1..(s - 1) /\ k \in 1..Len(T)
      <3>1. T[s].type \notin Containers
        BY DEF IsKey, Containers
      <3>2. k # s
        BY <1>2, <3>1 DEF Innermost
      <3> QED BY <1>0, <1>1, <3>2
    <2>5. /\ First(T[s]) \in Nat /\ First(T[s]) < n + 1 /\ T[s].end \in Nat
          /\ T[k].end = n + 1
      BY <1>0, <1>1, <1>2, <2>1, DocToken DEF Upto, Fits, Innermost
    <2>6. T[s].end < T[k].end
      <3>1. Placed(T[k], T[s])
        BY <1>0, <2>1, <2>4, DocOrdered
      <3> HIDE DEF First
      <3> QED BY <1>0, <2>5, <3>1 DEF Placed
    <2>7. T[s + 1].end < T[k].end
      BY <2>2, <2>4, <2>6 DEF KeyAndValue
    <2>8. First(T[s + 1]) \in Nat /\ T[s + 1].end \in Nat /\ First(T[s + 1]) <= T[s + 1].end
      <3>1. Fits(t, T[s + 1])
        BY <1>0, <2>3, DocToken
      <3>2. First(T[s + 1]) <= T[s + 1].start
        BY <3>1 DEF Fits
      <3> QED BY <3>1, <3>2 DEF Fits
    <2>9. ~ (First(T[s + 1]) < n + 1)
      BY <1>0, <1>1, <2>3 DEF Upto
    <2> HIDE DEF First
    <2> QED BY <1>0, <2>5, <2>7, <2>8, <2>9
  <1>11. Counts(q, t, at, T, n + 1)
    BY <1>6, <1>9, <1>10 DEF Counts
  <1> QED BY <1>1, <1>6, <1>8, <1>11 DEF Between, q
LEMMA ReadColon ==
    ASSUME NEW p, NEW t, NEW at, NEW T, NEW n, Reading(p, t, at, T, n), t[n + 1] \in Pairing
    PROVE  Between(Colon(p), t, at, T, n + 1) /\ Running(Colon(p))
  <1> DEFINE q == Colon(p)
             s == Len(p.toks)
  <1>0. /\ Doc(t, at, T) /\ n \in Nat /\ n < Len(t) /\ Outside(at, t, n)
        /\ p \in Parsers /\ s \in Nat /\ Len(T) \in Nat /\ p.mode = "value"
        /\ p.outcome = "running" /\ Upto(T, s, n) /\ Shows(p.toks, T, n)
    BY ReadingIs
  <1>1. t[n + 1] \in Delimiters /\ t[n + 1] \notin Closing
    BY DEF Delimiters, Closing, Pairing
  <1>2. Upto(T, s, n + 1) /\ Shows(p.toks, T, n + 1)
    BY <1>0, <1>1, Stays, ShowsOn
  <1>3. /\ q.toks = p.toks /\ q.super = s /\ q.mode = "value" /\ q.outcome = "running"
    BY <1>0 DEF Colon, Parsers
  <1> HIDE DEF q, s
  <1>4. Keyed(t, at, T, s, n + 1)
    <2>1. Colons(t, at, T, n)
      BY <1>0, DocPlace
    <2>2. PICK k \in 1..(Len(T) - 1) : IsKey(T[k]) /\ T[k].end < n /\ n < First(T[k + 1])
      BY <1>0, <2>1 DEF Colons, Pairing
    <2>3. /\ k \in 1..Len(T) /\ k + 1 \in 1..Len(T)
      BY <1>0
    <2>4. First(T[k]) \in Nat /\ T[k].end \in Nat /\ First(T[k]) <= T[k].end
          /\ First(T[k + 1]) \in Nat
      <3>1. Fits(t, T[k]) /\ Fits(t, T[k + 1])
        BY <1>0, <2>3, DocToken
      <3>2. First(T[k + 1]) \in Nat
        BY <3>1 DEF Fits
      <3>3. First(T[k]) \in Nat /\ T[k].end \in Nat /\ First(T[k]) <= T[k].end
        BY <3>1, FirstBefore
      <3> QED BY <3>2, <3>3
    <2>5. First(T[k]) < n /\ ~ (First(T[k + 1]) < n)
      <3> HIDE DEF First
      <3> QED BY <1>0, <2>2, <2>4
    <2>6. k <= s /\ ~ (k + 1 <= s)
      BY <1>0, <2>3, <2>5 DEF Upto
    <2>7. k = s
      BY <1>0, <2>3, <2>6
    <2>8. t[n + 1] \in Pairing /\ T[k].end <= n
      BY <1>0, <2>2, <2>4
    <2>9. Separates(t, at, Pairing, T[k].end, n + 1)
      BY <1>0, <2>4, <2>8, SeparatesOn
    <2> QED BY <1>0, <2>2, <2>7, <2>9 DEF Keyed
  <1>5. Counts(q, t, at, T, n + 1)
    BY <1>3, <1>4 DEF Counts, s
  <1> QED BY <1>2, <1>3, <1>5 DEF Between, Running, q, s

LEMMA ReadComma ==
    ASSUME NEW p, NEW t, NEW at, NEW T, NEW n, Reading(p, t, at, T, n), t[n + 1] \in Parting
    PROVE  Between(Comma(p), t, at, T, n + 1) /\ Running(Comma(p))
  <1> DEFINE q == Comma(p)
             s == Len(p.toks)
             last == LastOf(OpenTokens(p))
  <1>0. /\ Doc(t, at, T) /\ n \in Nat /\ n < Len(t) /\ Outside(at, t, n)
        /\ p \in Parsers /\ s \in Nat /\ Len(T) \in Nat /\ p.mode = "value"
        /\ p.outcome = "running" /\ Upto(T, s, n) /\ Shows(p.toks, T, n)
        /\ Counts(p, t, at, T, n) /\ s \in 0..Len(T) /\ p.super \in Nat
    BY ReadingIs DEF Upto
  <1>1. t[n + 1] \in Delimiters /\ t[n + 1] \notin Closing
    BY Zenon DEF Delimiters, Closing, Parting
  <1>2. Upto(T, s, n + 1) /\ Shows(p.toks, T, n + 1)
    BY <1>0, <1>1, Stays, ShowsOn
  <1>3. OpenTokens(p) = { i \in 1..s : T[i].type \in Containers /\ T[i].end > n }
    BY <1>0, OpenShown
  <1>4. \A i \in 1..s : i \in 1..Len(T) /\ p.toks[i].type = T[i].type
    BY <1>0 DEF Shows, Shown
  <1>5. ASSUME s > 0, IsKey(T[s])
        PROVE  FALSE
    <2>1. s \in 1..Len(T) /\ KeyAndValue(t, at, T, s)
      BY <1>0, <1>5, DocKey
    <2>2. s + 1 \in 1..Len(T)
      BY <1>0, <2>1 DEF KeyAndValue
    <2>3. First(T[s + 1]) \in Nat /\ ~ (First(T[s + 1]) < n + 1) /\ T[s].end \in Nat
      BY <1>0, <1>2, <2>1, <2>2, DocToken DEF Fits, Upto
    <2>4. T[s].end <= n
      <3>1. p.toks[s].end = T[s].end
        <4>1. s \in 1..Len(p.toks) /\ T[s].type \notin Containers
          BY <1>0, <1>5 DEF IsKey, Containers
        <4> QED BY <1>0, <4>1 DEF Shows, Shown, Ended
      <3>2. Before(p.toks, n)
        BY DEF Reading, Ready, Roomy, ParserOK, InPlace
      <3>3. s \in 1..Len(p.toks)
        BY <1>0, <1>5
      <3>4. p.toks[s].end # -1
        BY <2>3, <3>1
      <3>5. p.toks[s].end <= n
        BY <3>2, <3>3, <3>4 DEF Before
      <3> QED BY <3>1, <3>5
    <2>5. n \in T[s].end..(First(T[s + 1]) - 1) /\ t[n + 1] \in Parting
      <3> HIDE DEF First
      <3> QED BY <1>0, <2>3, <2>4
    <2>6. Separates(t, at, Parting, T[s].end, First(T[s + 1]))
      BY <1>0, <2>5 DEF Separates
    <2> QED BY <2>1, <2>6 DEF KeyAndValue
  <1>6. ~ Keyed(t, at, T, s, n) /\ ~ Keyed(t, at, T, s, n + 1)
    BY <1>5 DEF Keyed
  <1>7. p.super = last \/ (Filled(t, at, T, s, n) /\ p.super = s - 1)
    BY <1>0, <1>6 DEF Counts
  <1>8. last = 0 \/ (last \in 1..s /\ T[last].type \in Containers)
    <2>1. OpenTokens(p) \subseteq 1..s
      BY <1>3
    <2>2. OpenTokens(p) # {} => last \in OpenTokens(p)
      BY <1>0, <2>1, LastIsIn
    <2>3. OpenTokens(p) = {} => last = 0
      BY DEF LastOf
    <2> QED BY <1>3, <2>2, <2>3
  <1>9. ASSUME Filled(t, at, T, s, n)
        PROVE  OpenTokens(p) # {} /\ s - 1 \in 1..s /\ T[s - 1].type \notin Containers /\ s - 1 # 0
    <2>1. /\ s > 1 /\ IsKey(T[s - 1]) /\ T[s].type \notin Containers
          /\ ~ Separates(t, at, Ending, T[s].end, n)
      BY <1>9 DEF Filled
    <2>2. s - 1 \in 1..Len(T) /\ (s - 1) + 1 = s /\ s - 1 \in 1..s /\ s \in 1..Len(T) /\ s - 1 # 0
      <3>1. s > 1 /\ s \in Nat /\ s \in 0..Len(T) /\ Len(T) \in Nat
        BY <1>0, <2>1
      <3> HIDE DEF s
      <3> QED BY <3>1
    <2>3. KeyAndValue(t, at, T, s - 1)
      BY <1>0, <2>1, <2>2, DocKey
    <2>4. PICK i \in 1..((s - 1) - 1) : T[i].type \in Containers /\ T[i].end > T[s - 1].end
      BY <2>3 DEF KeyAndValue
    <2>5. T[i].end > T[s].end
      BY <2>2, <2>3, <2>4 DEF KeyAndValue
    <2>6. i \in 1..Len(T) /\ i \in 1..s
      BY <1>0, <2>1
    <2>7. T[i].end \in Nat /\ T[s].end \in Nat /\ T[i].end <= Len(t) /\ Len(t) \in Nat
      BY <1>0, <2>2, <2>6, DocToken DEF Fits, Doc
    <2>8. T[i].end > n
      <3> SUFFICES ASSUME ~ (T[i].end > n) PROVE FALSE
        OBVIOUS
      <3> DEFINE m == T[i].end - 1
      <3>1. m \in Nat /\ m < Len(t) /\ T[i].end = m + 1 /\ m \in T[s].end..(n - 1)
        <4> DEFINE e == T[i].end
                   f == T[s].end
        <4>1. e \in Nat /\ f \in Nat /\ e > f /\ ~ (e > n) /\ e <= Len(t) /\ Len(t) \in Nat /\ n \in Nat
          BY <1>0, <2>5, <2>7
        <4> HIDE DEF e, f
        <4>2. e - 1 \in Nat /\ e = (e - 1) + 1 /\ e - 1 < Len(t) /\ e - 1 \in f..(n - 1)
          BY <4>1
        <4> QED BY <4>2 DEF e, f
      <3> HIDE DEF m
      <3>2. EndsTokens(t, at, T, m)
        BY <1>0, <3>1, DocPlace
      <3>3. Outside(at, t, m) /\ t[m + 1] \in Closing
        BY <2>4, <2>6, <3>1, <3>2 DEF EndsTokens
      <3>4. t[m + 1] \in Ending
        BY <3>3 DEF Ending
      <3>5. Separates(t, at, Ending, T[s].end, n)
        BY <3>1, <3>3, <3>4 DEF Separates
      <3> QED BY <2>1, <3>5
    <2>9. i \in OpenTokens(p)
      BY <1>3, <2>4, <2>6, <2>8
    <2>10. T[s - 1].type \notin Containers
      BY <2>1 DEF IsKey, Containers
    <2> QED BY <2>2, <2>9, <2>10
  <1>10. last \in Nat
    BY <1>0, <1>8
  <1>11. /\ q.toks = p.toks /\ q.super = last /\ q.mode = "value" /\ q.outcome = "running"
    <2>1. CASE p.super = last
      <3>1. p.super = 0 \/ p.toks[p.super].type \in Containers
        BY <1>4, <1>8, <2>1
      <3>2. q = p
        BY <3>1 DEF Comma
      <3> QED BY <1>0, <2>1, <3>2
    <2>2. CASE Filled(t, at, T, s, n) /\ p.super = s - 1
      <3>1. OpenTokens(p) # {} /\ p.super # 0 /\ p.toks[p.super].type \notin Containers
        BY <1>4, <1>9, <2>2
      <3>2. q = [p EXCEPT !.super = last]
        BY <3>1 DEF Comma
      <3> HIDE DEF last
      <3>3. q.toks = p.toks /\ q.super = last /\ q.mode = p.mode /\ q.outcome = p.outcome
        BY <1>0, <3>2 DEF Parsers
      <3> QED BY <1>0, <3>3
    <2> QED BY <1>7, <2>1, <2>2
  <1> HIDE DEF q
  <1>12. OpenTokens(q) = OpenTokens(p)
    BY <1>11 DEF OpenTokens
  <1>13. Counts(q, t, at, T, n + 1)
    BY <1>6, <1>11, <1>12 DEF Counts
  <1> QED BY <1>2, <1>11, <1>13 DEF Between, Running, q

Quote == {"\""}

(* A string or a bare word begins.                                         *)
LEMMA ReadBegins ==
    ASSUME NEW p, NEW t, NEW at, NEW T, NEW n, Reading(p, t, at, T, n),
           t[n + 1] \notin Delimiters \cup Opening, NEW q, q.toks = p.toks, q.super = p.super,
           IF t[n + 1] \in Quote THEN q.mode = "string" /\ q.begin = n + 1
           ELSE q.mode = "primitive" /\ q.begin = n
    PROVE  InLeaf(q, t, at, T, n + 1) /\ t[n + 1] # "ctl"
  <1> DEFINE s == Len(p.toks)
  <1>0. /\ Doc(t, at, T) /\ n \in Nat /\ n < Len(t) /\ Outside(at, t, n)
        /\ p \in Parsers /\ s \in Nat /\ Len(T) \in Nat
        /\ Upto(T, s, n) /\ Shows(p.toks, T, n) /\ Counts(p, t, at, T, n)
    BY ReadingIs
  <1>1. t[n + 1] \notin Delimiters /\ t[n + 1] \notin Closing /\ t[n + 1] \notin Opening
    BY DEF Delimiters
  <1>2. /\ s + 1 \in 1..Len(T) /\ First(T[s + 1]) = n /\ T[s + 1].type = TypeAt(t[n + 1])
        /\ t[n + 1] # "ctl" /\ Upto(T, s + 1, n + 1)
    BY <1>0, <1>1, Starts
  <1>3. q.super = Parent(T, s + 1)
    BY <1>0, <1>2, CountsParent
  <1>4. Shows(q.toks, T, n + 1)
    BY <1>0, <1>1, ShowsOn
  <1>5. T[s + 1].type = IF t[n + 1] \in Quote THEN "string" ELSE "primitive"
    BY Zenon, <1>1, <1>2 DEF TypeAt, Quote
  <1>6. T[s + 1].start = IF t[n + 1] \in Quote THEN n + 1 ELSE n
    <2>1. Fits(t, T[s + 1])
      BY <1>0, <1>2, DocToken
    <2>2. T[s + 1].type = "string" => T[s + 1].start = n + 1
      BY <1>0, <1>2, <2>1 DEF Fits
    <2>3. T[s + 1].type # "string" => T[s + 1].start = n
      BY <1>0, <1>2, <2>1 DEF Fits
    <2> QED BY <1>5, <2>2, <2>3
  <1>7. q.begin = T[s + 1].start /\ T[s + 1].type \in {"string", "primitive"}
        /\ q.mode \in LeafMode(T[s + 1].type) /\ q.mode # "hex"
    BY <1>5, <1>6 DEF LeafMode
  <1> QED BY <1>2, <1>3, <1>4, <1>7 DEF InLeaf
LEMMA InValueTracks ==
    ASSUME NEW p, NEW t, NEW at, NEW T, NEW n, Reading(p, t, at, T, n)
    PROVE  Tracks(InValue(p, t[n + 1], n), t, at, T, n + 1) /\ Running(InValue(p, t[n + 1], n))
  <1> DEFINE c == t[n + 1]
  <1>0. p \in Parsers /\ p.outcome = "running" /\ n \in Nat
    BY ReadingIs
  <1>1. CASE c \in Opening
    <2>1. c \notin Closing \cup White \cup {"\"", ":", ","}
      BY <1>1 DEF Opening, Closing, White
    <2>2. InValue(p, c, n) = Open(p, TypeOf(c), n)
      BY <1>1, <2>1, Zenon DEF InValue
    <2> QED BY <1>1, <2>2, ReadOpen DEF Tracks
  <1>2. CASE c \in Closing
    <2>1. c \notin Opening \cup White \cup {"\"", ":", ","}
      BY <1>2 DEF Opening, Closing, White
    <2>2. InValue(p, c, n) = Close(p, TypeOf(c), n)
      BY <1>2, <2>1, Zenon DEF InValue
    <2> QED BY <1>2, <2>2, ReadClose DEF Tracks
  <1>3. CASE c \in White
    <2>1. InValue(p, c, n) = p
      BY <1>3 DEF InValue, Opening, Closing, White
    <2>2. Between(p, t, at, T, n + 1) /\ Running(p)
      BY <1>3, <1>0, ReadSpace DEF Running
    <2> QED BY <2>1, <2>2 DEF Tracks
  <1>4. CASE c \in Pairing
    <2>1. InValue(p, c, n) = Colon(p)
      BY <1>4 DEF InValue, Opening, Closing, White, Pairing
    <2> QED BY <1>4, <2>1, ReadColon DEF Tracks
  <1>5. CASE c \in Parting
    <2>1. InValue(p, c, n) = Comma(p)
      BY <1>5 DEF InValue, Opening, Closing, White, Parting
    <2> QED BY <1>5, <2>1, ReadComma DEF Tracks
  <1>6. CASE c \in Quote
    <2> DEFINE q == [p EXCEPT !.mode = "string", !.begin = n + 1]
    <2>1. InValue(p, c, n) = q
      BY <1>6 DEF InValue, Opening, Closing, White, Quote
    <2>2. /\ q.toks = p.toks /\ q.super = p.super /\ q.mode = "string" /\ q.begin = n + 1
          /\ q.outcome = "running"
      BY <1>0 DEF Parsers
    <2> HIDE DEF q
    <2>3. c \notin Delimiters \cup Opening
      BY <1>6 DEF Delimiters, Opening, Closing, White, Quote
    <2>4. IF c \in Quote THEN q.mode = "string" /\ q.begin = n + 1
          ELSE q.mode = "primitive" /\ q.begin = n
      BY <1>6, <2>2
    <2>5. InLeaf(q, t, at, T, n + 1)
      BY <2>2, <2>3, <2>4, ReadBegins
    <2> QED BY <2>1, <2>2, <2>5 DEF Tracks, Running
  <1>7. CASE c \notin Delimiters \cup Opening \cup Quote
    <2> DEFINE q == [p EXCEPT !.mode = "primitive", !.begin = n]
    <2>1. c \notin Opening \cup Closing \cup White \cup {"\"", ":", ","}
      BY <1>7 DEF Delimiters, Quote
    <2>2. InValue(p, c, n) = InPrimitive(q, c)
      BY <2>1, Zenon DEF InValue
    <2>3. /\ q.toks = p.toks /\ q.super = p.super /\ q.mode = "primitive" /\ q.begin = n
          /\ q.outcome = "running"
      BY <1>0 DEF Parsers
    <2> HIDE DEF q
    <2>4. c \notin Delimiters \cup Opening
      BY <1>7
    <2>5. IF c \in Quote THEN q.mode = "string" /\ q.begin = n + 1
          ELSE q.mode = "primitive" /\ q.begin = n
      BY <1>7, <2>3
    <2>6. InLeaf(q, t, at, T, n + 1) /\ c # "ctl"
      BY <2>3, <2>4, <2>5, ReadBegins
    <2>7. InPrimitive(q, c) = q
      BY <2>6 DEF InPrimitive
    <2> QED BY <2>2, <2>3, <2>6, <2>7 DEF Tracks, Running
  <1>8. c \in Opening \cup Closing \cup White \cup Pairing \cup Parting \cup Quote
        \/ c \notin Delimiters \cup Opening \cup Quote
    BY Zenon DEF Delimiters, Pairing, Parting
  <1> QED BY <1>1, <1>2, <1>3, <1>4, <1>5, <1>6, <1>7, <1>8

-----------------------------------------------------------------------------
(* Inside a string or a bare word.                                         *)
LEMMA InLeafIs ==
    ASSUME NEW p, NEW t, NEW at, NEW T, NEW n, Roomy(p, t, at, T, n), InLeaf(p, t, at, T, n)
    PROVE  LET j == Len(p.toks) + 1
           IN  /\ Doc(t, at, T) /\ n \in Nat /\ p \in Parsers /\ Len(p.toks) \in Nat
               /\ j \in 1..Len(T) /\ Len(T) \in Nat /\ ~ Full(p)
               /\ Upto(T, j, n) /\ Shows(p.toks, T, n) /\ p.super = Parent(T, j)
               /\ p.begin = T[j].start /\ T[j].type \in {"string", "primitive"}
               /\ p.mode \in LeafMode(T[j].type) /\ p.outcome = "running"
  <1> DEFINE j == Len(p.toks) + 1
  <1>1. /\ Doc(t, at, T) /\ n \in Nat /\ p \in Parsers /\ Len(p.toks) \in Nat /\ Len(T) \in Nat
        /\ room \in Nat /\ Len(T) <= room
        /\ Upto(T, j, n) /\ Shows(p.toks, T, n) /\ p.super = Parent(T, j)
        /\ p.begin = T[j].start /\ T[j].type \in {"string", "primitive"}
        /\ p.mode \in LeafMode(T[j].type) /\ p.outcome = "running"
    BY ParserFields DEF Roomy, ParserOK, Running, Doc, InLeaf
  <1>2. j \in 1..Len(T)
    BY <1>1 DEF Upto
  <1>3. ~ Full(p)
    BY <1>1, <1>2 DEF Full
  <1> QED BY <1>1, <1>2, <1>3

(* The token is written when it has ended at n, and m is read.             *)
LEMMA LeafWritten ==
    ASSUME NEW p, NEW t, NEW at, NEW T, NEW n, Roomy(p, t, at, T, n), InLeaf(p, t, at, T, n),
           T[Len(p.toks) + 1].end = n, NEW m \in Nat, Quiet(t, at, T, n, m),
           Upto(T, Len(p.toks) + 1, m), Shows(p.toks, T, m)
    PROVE  LET q == Leaf(p, T[Len(p.toks) + 1].type, n)
           IN  Between(q, t, at, T, m) /\ Running(q)
  <1> DEFINE j == Len(p.toks) + 1
             type == T[j].type
             tok == Token(type, p.begin, n)
             q == Leaf(p, type, n)
  <1>1. /\ Doc(t, at, T) /\ n \in Nat /\ p \in Parsers /\ Len(p.toks) \in Nat
        /\ j \in 1..Len(T) /\ Len(T) \in Nat /\ ~ Full(p) /\ p.super = Parent(T, j)
        /\ p.begin = T[j].start /\ type \in {"string", "primitive"}
    BY InLeafIs
  <1>2. type \notin Containers /\ ParserOK(p, n) /\ Running(p)
    BY <1>1 DEF Containers, Roomy
  <1>3. /\ q \in Parsers /\ Grown(p.toks, q.toks, p.super, tok)
        /\ q.super = p.super /\ q.mode = "value" /\ Running(q)
    <2> HIDE DEF type
    <2> QED BY <1>1, <1>2, LeafGrows
  <1>4. /\ tok.type = T[j].type /\ tok.start = T[j].start /\ tok.size = 0 /\ tok.end = T[j].end
    BY <1>1 DEF Token
  <1>5. T[j].end = Ended(T[j], m)
    BY <1>2 DEF Ended
  <1> HIDE DEF q, tok
  <1>6. Adds(T, m, p.toks, q.toks, tok)
    <2>1. Len(p.toks) < Len(T)
      BY <1>1
    <2> QED BY <1>1, <1>3, <1>4, <1>5, <2>1 DEF Adds
  <1>7. Shows(q.toks, T, m) /\ Len(q.toks) = j
    BY <1>1, <1>6, ShowsGrown
  <1> HIDE DEF j
  <1>8. q.super = Parent(T, j) /\ T[j].type \notin Containers /\ Quiet(t, at, T, T[j].end, m)
        /\ Upto(T, j, m)
    BY <1>1, <1>2, <1>3 DEF j
  <1>9. Counts(q, t, at, T, m)
    BY <1>1, <1>3, <1>7, <1>8, LeafCounts
  <1> QED BY <1>3, <1>7, <1>8, <1>9 DEF Between, q, j
InsideLeaf(p, t, at, T, n) ==
    Ready(p, t, at, T, n) /\ InLeaf(p, t, at, T, n) /\ at[n].in = InOf[p.mode]

(* The loop goes on with the same token. *)
LEMMA LeafOn ==
    ASSUME NEW p, NEW t, NEW at, NEW T, NEW n, InsideLeaf(p, t, at, T, n), ~ Outside(at, t, n),
           NEW q, q.toks = p.toks, q.super = p.super, q.begin = p.begin,
           q.mode \in LeafMode(T[Len(p.toks) + 1].type),
           q.mode = "hex" => HexAhead(t, q.digits, n + 1)
    PROVE  InLeaf(q, t, at, T, n + 1)
  <1> DEFINE j == Len(p.toks) + 1
  <1>1. /\ Doc(t, at, T) /\ n \in Nat /\ n < Len(t)
        /\ Upto(T, j, n) /\ Shows(p.toks, T, n) /\ p.super = Parent(T, j)
        /\ p.begin = T[j].start /\ T[j].type \in {"string", "primitive"}
    <2>1. Roomy(p, t, at, T, n) /\ n < Len(t) /\ InLeaf(p, t, at, T, n)
      BY DEF InsideLeaf, Ready
    <2> QED BY <2>1, InLeafIs
  <1> HIDE DEF j
  <1>2. Upto(T, j, n + 1) /\ Shows(q.toks, T, n + 1)
    BY <1>1, Stays, ShowsOn
  <1> QED BY <1>1, <1>2 DEF InLeaf, j

LEMMA StringEnds ==
    ASSUME NEW p, NEW t, NEW at, NEW T, NEW n, InsideLeaf(p, t, at, T, n), at[n].in = "string",
           t[n + 1] \in Quote
    PROVE  LET q == Leaf(p, "string", n)
           IN  Between(q, t, at, T, n + 1) /\ Running(q)
  <1> DEFINE j == Len(p.toks) + 1
  <1>1. /\ Roomy(p, t, at, T, n) /\ n < Len(t) /\ InLeaf(p, t, at, T, n)
    BY DEF InsideLeaf, Ready
  <1>2. /\ Doc(t, at, T) /\ n \in Nat /\ j \in 1..Len(T) /\ Upto(T, j, n) /\ Shows(p.toks, T, n)
    BY <1>1, InLeafIs
  <1>3. PICK k \in 1..Len(T) : T[k].end = n /\ T[k].type = "string"
    <2>1. EndsTokens(t, at, T, n)
      BY <1>1, <1>2, DocPlace
    <2> QED BY <2>1 DEF EndsTokens, Quote
  <1> HIDE DEF j
  <1>4. T[k].type \notin Containers /\ First(T[k]) < n
    <2>1. Fits(t, T[k])
      BY <1>2, DocToken
    <2>2. First(T[k]) = T[k].start - 1 /\ T[k].start <= n /\ T[k].start \in Nat
      BY <1>3, <2>1 DEF Fits
    <2>3. First(T[k]) < n
      <3> HIDE DEF First
      <3> QED BY <1>2, <2>2
    <2> QED BY <1>3, <2>3 DEF Containers
  <1>5. k = j
    BY <1>2, <1>3, <1>4, LeafEnds
  <1>6. ~ Outside(at, t, n)
    BY DEF Outside
  <1>7. Upto(T, j, n + 1) /\ Shows(p.toks, T, n + 1) /\ Quiet(t, at, T, n, n + 1) /\ n + 1 \in Nat
    BY <1>1, <1>2, <1>6, Stays, ShowsOn, QuietBehind
  <1>8. T[j].end = n /\ T[j].type = "string"
    BY <1>3, <1>5
  <1> QED BY <1>1, <1>7, <1>8, LeafWritten DEF j

LEMMA WordEnds ==
    ASSUME NEW p, NEW t, NEW at, NEW T, NEW n, Roomy(p, t, at, T, n), InLeaf(p, t, at, T, n),
           NEW k \in 1..Len(T), T[k].end = n, T[k].type = "primitive", First(T[k]) # n
    PROVE  LET q == Leaf(p, "primitive", n)
           IN  Between(q, t, at, T, n) /\ Running(q)
  <1> DEFINE j == Len(p.toks) + 1
  <1>2. /\ Doc(t, at, T) /\ n \in Nat /\ j \in 1..Len(T) /\ Upto(T, j, n) /\ Shows(p.toks, T, n)
    BY InLeafIs
  <1> HIDE DEF j
  <1>4. T[k].type \notin Containers /\ First(T[k]) < n
    <2>1. Fits(t, T[k])
      BY <1>2, DocToken
    <2>2. First(T[k]) <= n /\ First(T[k]) \in Nat
      BY <2>1 DEF Fits
    <2>3. First(T[k]) < n
      <3> HIDE DEF First
      <3> QED BY <1>2, <2>2
    <2> QED BY <2>3 DEF Containers
  <1>5. k = j
    BY <1>2, <1>4, LeafEnds
  <1>6. T[j].end = n /\ T[j].type = "primitive" /\ Quiet(t, at, T, n, n)
    BY <1>2, <1>5, QuietHere
  <1> QED BY <1>2, <1>6, LeafWritten DEF j

LEMMA PrimitiveTracks ==
    ASSUME NEW p, NEW t, NEW at, NEW T, NEW n, InsideLeaf(p, t, at, T, n), p.mode = "primitive"
    PROVE  LET q == Loop(p, t[n + 1], n) IN Tracks(q, t, at, T, n + 1) /\ Running(q)
  <1> DEFINE c == t[n + 1]
             j == Len(p.toks) + 1
  <1>1. /\ Roomy(p, t, at, T, n) /\ n < Len(t) /\ InLeaf(p, t, at, T, n) /\ at[n].in = "word"
    BY DEF InsideLeaf, Ready, InOf
  <1>2. Doc(t, at, T) /\ n \in Nat /\ p.mode \in LeafMode(T[j].type) /\ p.outcome = "running"
    BY <1>1, InLeafIs
  <1>3. EndsTokens(t, at, T, n) /\ BeginsTokens(t, at, T, n)
    BY <1>1, <1>2, DocPlace
  <1>4. Loop(p, c, n) = IF c \in Delimiters THEN EndPrimitive(p, c, n) ELSE InPrimitive(p, c)
    BY DEF Loop
  <1>5. CASE c \in Delimiters
    <2> DEFINE q == Leaf(p, "primitive", n)
    <2>1. PICK k \in 1..Len(T) : T[k].end = n /\ T[k].type = "primitive"
      BY <1>1, <1>3, <1>5 DEF EndsTokens
    <2>2. First(T[k]) # n
      BY <1>3, <1>5 DEF BeginsTokens
    <2>3. Between(q, t, at, T, n) /\ Running(q)
      BY <1>1, <2>1, <2>2, WordEnds
    <2>4. ParserOK(q, n)
      BY <1>1, LeafOK DEF Roomy
    <2>5. Loop(p, c, n) = InValue(q, c, n)
      BY <1>4, <1>5, <2>3 DEF EndPrimitive
    <2> HIDE DEF q
    <2>6. Outside(at, t, n)
      BY <1>1, <1>5 DEF Outside
    <2>7. Reading(q, t, at, T, n)
      BY <1>1, <2>3, <2>4, <2>6 DEF Reading, Ready, Roomy
    <2> QED BY <2>5, <2>7, InValueTracks
  <1>6. CASE c \notin Delimiters
    <2>1. c # "ctl"
      BY <1>1, <1>3, <1>6 DEF EndsTokens
    <2>2. Loop(p, c, n) = p
      BY <1>4, <1>6, <2>1 DEF InPrimitive
    <2>3. ~ Outside(at, t, n)
      BY <1>1, <1>6 DEF Outside
    <2>4. InLeaf(p, t, at, T, n + 1)
      BY <1>2, <2>3, LeafOn
    <2> QED BY <1>2, <2>2, <2>4 DEF Tracks, Running
  <1> QED BY <1>5, <1>6

LEMMA StringTracks ==
    ASSUME NEW p, NEW t, NEW at, NEW T, NEW n, InsideLeaf(p, t, at, T, n),
           p.mode \in {"string", "escape", "hex"}
    PROVE  LET q == Loop(p, t[n + 1], n) IN Tracks(q, t, at, T, n + 1) /\ Running(q)
  <1> DEFINE c == t[n + 1]
             j == Len(p.toks) + 1
  <1>1. /\ Roomy(p, t, at, T, n) /\ n < Len(t) /\ InLeaf(p, t, at, T, n)
        /\ at[n].in = InOf[p.mode]
    BY DEF InsideLeaf, Ready
  <1>2. /\ Doc(t, at, T) /\ n \in Nat /\ p \in Parsers /\ p.outcome = "running"
        /\ LeafMode(T[j].type) = {"string", "escape", "hex"} /\ Len(t) \in Nat
    <2>1. p.mode \in LeafMode(T[j].type)
      BY <1>1, InLeafIs
    <2>2. LeafMode(T[j].type) = {"string", "escape", "hex"}
      BY <2>1 DEF LeafMode
    <2> QED BY <1>1, <2>2, InLeafIs DEF Doc
  <1> HIDE DEF j
  <1>3. ~ Outside(at, t, n)
    BY <1>1 DEF InOf, Outside
  <1>4. CASE p.mode = "string"
    <2>1. at[n].in = "string" /\ Loop(p, c, n) = InString(p, c, n)
      BY <1>1, <1>4 DEF InOf, Loop
    <2>2. CASE c \in Quote
      <3>1. InString(p, c, n) = Leaf(p, "string", n)
        BY <2>2 DEF InString, Quote
      <3> QED BY <2>1, <2>2, <3>1, StringEnds DEF Tracks
    <2>3. CASE c = "\\"
      <3> DEFINE q == [p EXCEPT !.mode = "escape"]
      <3>1. InString(p, c, n) = q
        BY <2>3 DEF InString
      <3>2. /\ q.toks = p.toks /\ q.super = p.super /\ q.begin = p.begin /\ q.mode = "escape"
            /\ q.outcome = "running"
        BY <1>2 DEF Parsers
      <3> HIDE DEF q
      <3>3. InLeaf(q, t, at, T, n + 1)
        BY <1>2, <1>3, <3>2, LeafOn DEF j
      <3> QED BY <2>1, <3>1, <3>2, <3>3 DEF Tracks, Running
    <2>4. CASE c \notin Quote /\ c # "\\"
      <3>1. InString(p, c, n) = p
        BY <2>4 DEF InString, Quote
      <3>2. InLeaf(p, t, at, T, n + 1)
        BY <1>2, <1>3, <1>4, LeafOn DEF j
      <3> QED BY <1>2, <2>1, <3>1, <3>2 DEF Tracks, Running
    <2> QED BY <2>2, <2>3, <2>4
  <1>5. CASE p.mode = "escape"
    <2>1. at[n].in = "escape" /\ Loop(p, c, n) = InEscape(p, c)
      BY <1>1, <1>5 DEF InOf, Loop
    <2>2. \/ c \in Escapable
          \/ c = "u" /\ n + 5 <= Len(t) /\ \A m \in (n + 2)..(n + 5) : t[m] \in HexDigits
      BY <1>1, <1>2, <2>1, DocPlace DEF Escapes
    <2>3. CASE c \in Escapable
      <3> DEFINE q == [p EXCEPT !.mode = "string"]
      <3>1. c # "u"
        BY <2>3 DEF Escapable
      <3>2. InEscape(p, c) = q
        BY <2>3, <3>1, Zenon DEF InEscape
      <3>3. /\ q.toks = p.toks /\ q.super = p.super /\ q.begin = p.begin /\ q.mode = "string"
            /\ q.outcome = "running"
        BY <1>2 DEF Parsers
      <3> HIDE DEF q
      <3>4. InLeaf(q, t, at, T, n + 1)
        BY <1>2, <1>3, <3>3, LeafOn DEF j
      <3> QED BY <2>1, <3>2, <3>3, <3>4 DEF Tracks, Running
    <2>4. CASE c = "u" /\ n + 5 <= Len(t) /\ \A m \in (n + 2)..(n + 5) : t[m] \in HexDigits
      <3> DEFINE r == [p EXCEPT !.mode = "hex"]
                 q == [p EXCEPT !.mode = "hex", !.digits = 4]
      <3>1. InEscape(p, c) = q
        BY <2>4 DEF InEscape, Escapable
      <3>2. /\ r.toks = p.toks /\ r.super = p.super /\ r.begin = p.begin /\ r.mode = "hex"
            /\ r.outcome = "running" /\ r \in Parsers
        BY <1>2 DEF Parsers
      <3>3. q = [r EXCEPT !.digits = 4]
        BY <1>2 DEF Parsers
      <3> HIDE DEF q, r
      <3>4. /\ q.toks = p.toks /\ q.super = p.super /\ q.begin = p.begin /\ q.mode = "hex"
            /\ q.outcome = "running" /\ q.digits = 4
        BY <3>2, <3>3 DEF Parsers
      <3>5. HexAhead(t, 4, n + 1)
        <4>1. \A m \in ((n + 1) + 1)..((n + 1) + 4) : m \in (n + 2)..(n + 5)
          BY <1>2
        <4>2. (n + 1) + 4 <= Len(t)
          BY <1>2, <2>4
        <4> QED BY <2>4, <4>1, <4>2 DEF HexAhead
      <3>6. InLeaf(q, t, at, T, n + 1)
        BY <1>2, <1>3, <3>4, <3>5, LeafOn DEF j
      <3> QED BY <2>1, <3>1, <3>4, <3>6 DEF Tracks, Running
    <2> QED BY <2>2, <2>3, <2>4
  <1>6. CASE p.mode = "hex"
    <2> DEFINE mode == IF p.digits = 1 THEN "string" ELSE "hex"
               d == p.digits - 1
               r == [p EXCEPT !.mode = mode]
               q == [r EXCEPT !.digits = d]
    <2>1. HexAhead(t, p.digits, n) /\ Loop(p, c, n) = InHex(p, c)
      BY <1>1, <1>6 DEF Loop, InLeaf
    <2>2. /\ p.digits \in 1..4 /\ n + p.digits <= Len(t)
          /\ \A m \in (n + 1)..(n + p.digits) : t[m] \in HexDigits
      BY <2>1 DEF HexAhead
    <2>3. c \in HexDigits
      <3>1. n + 1 \in (n + 1)..(n + p.digits)
        BY <1>2, <2>2
      <3> QED BY <2>2, <3>1
    <2>4. InHex(p, c) = q
      BY <1>2, <2>3 DEF InHex, Parsers
    <2>5. mode \in {"string", "hex"} /\ (mode = "hex" => HexAhead(t, d, n + 1)) /\ d \in Int
      <3>1. mode \in {"string", "hex"} /\ d \in Int
        BY <2>2
      <3>2. ASSUME mode = "hex" PROVE HexAhead(t, d, n + 1)
        <4>1. p.digits # 1
          BY <3>2
        <4>2. d \in 1..4 /\ (n + 1) + d <= Len(t)
          BY <1>2, <2>2, <4>1
        <4>3. \A m \in ((n + 1) + 1)..((n + 1) + d) : m \in (n + 1)..(n + p.digits)
          BY <1>2, <2>2
        <4> HIDE DEF d
        <4> QED BY <2>2, <4>2, <4>3 DEF HexAhead
      <3> QED BY <3>1, <3>2
    <2> HIDE DEF mode, d
    <2>6. /\ r.toks = p.toks /\ r.super = p.super /\ r.begin = p.begin /\ r.mode = mode
          /\ r.outcome = "running" /\ r \in Parsers
      BY <1>2, <2>5 DEF Parsers
    <2> HIDE DEF r
    <2>7. /\ q.toks = p.toks /\ q.super = p.super /\ q.begin = p.begin /\ q.mode = mode
          /\ q.outcome = "running" /\ q.digits = d
      BY <2>5, <2>6 DEF Parsers
    <2> HIDE DEF q
    <2>8. InLeaf(q, t, at, T, n + 1)
      <3>1. q.mode = "hex" => HexAhead(t, q.digits, n + 1)
        BY <2>5, <2>7
      <3>2. q.mode \in LeafMode(T[Len(p.toks) + 1].type)
        BY <1>2, <2>5, <2>7 DEF j
      <3> QED BY <1>3, <2>7, <3>1, <3>2, LeafOn
    <2> QED BY <2>1, <2>4, <2>7, <2>8 DEF Tracks, Running
  <1> QED BY <1>4, <1>5, <1>6
LEMMA LoopTracks ==
    ASSUME NEW p, NEW t, NEW at, NEW T, NEW n, Ready(p, t, at, T, n), Tracks(p, t, at, T, n),
           at[n].in = InOf[p.mode]
    PROVE  LET q == Loop(p, t[n + 1], n) IN Tracks(q, t, at, T, n + 1) /\ Running(q)
  <1>0. p.mode \in {"value", "string", "escape", "hex", "primitive"}
    BY ParserFields DEF Ready, Roomy, ParserOK
  <1>1. CASE p.mode = "value"
    <2>1. Between(p, t, at, T, n)
      <3>1. p.mode \notin LeafMode(T[Len(p.toks) + 1].type)
        BY <1>1 DEF LeafMode
      <3> QED BY <3>1 DEF Tracks, InLeaf
    <2>2. Outside(at, t, n)
      BY <1>1 DEF InOf, Outside
    <2>3. Reading(p, t, at, T, n)
      BY <2>1, <2>2 DEF Reading
    <2>4. Loop(p, t[n + 1], n) = InValue(p, t[n + 1], n)
      BY <1>1 DEF Loop
    <2> QED BY <2>3, <2>4, InValueTracks
  <1>2. CASE p.mode # "value"
    <2>1. InsideLeaf(p, t, at, T, n)
      BY <1>2 DEF Tracks, Between, InsideLeaf
    <2> QED BY <1>0, <1>2, <2>1, PrimitiveTracks, StringTracks
  <1> QED BY <1>1, <1>2

-----------------------------------------------------------------------------
(* At the end of the document every token is written and has ended. *)
LEMMA AllShown ==
    ASSUME NEW p \in Parsers, NEW t, NEW at, NEW T, Doc(t, at, T), Between(p, t, at, T, Len(t))
    PROVE  p.toks = T /\ OpenTokens(p) = {}
  <1> DEFINE s == Len(p.toks)
             n == Len(t)
  <1>0. /\ s \in 0..Len(T) /\ s \in Nat /\ Len(T) \in Nat /\ n \in Nat
        /\ Upto(T, s, n) /\ Shows(p.toks, T, n)
    BY ParserFields DEF Between, Upto, Doc
  <1>1. s = Len(T)
    <2>1. CASE Len(T) = 0
      BY <1>0, <2>1
    <2>2. CASE Len(T) # 0
      <3>1. Len(T) \in 1..Len(T)
        BY <1>0, <2>2
      <3>2. First(T[Len(T)]) < n
        BY <3>1, DocToken DEF Fits
      <3>3. Len(T) <= s
        BY <1>0, <3>1, <3>2 DEF Upto
      <3> QED BY <1>0, <3>3
    <2> QED BY <2>1, <2>2
  <1>2. ASSUME NEW i \in 1..s
        PROVE  p.toks[i] = T[i] /\ ~ (T[i].type \in Containers /\ T[i].end > n)
    <2>1. i \in 1..Len(T)
      BY <1>1
    <2>2. T[i] \in Tokens /\ p.toks[i] \in Tokens
      BY <2>1, TokenFields, ParserFields DEF Doc
    <2>3. T[i].end <= n /\ T[i].end \in Nat
      BY <2>1, DocToken DEF Fits
    <2>4. Ended(T[i], n) = T[i].end
      BY <1>0, <2>3 DEF Ended
    <2>5. T[i].size = Cardinality(Children(T, s, i))
      BY <1>1, <2>1 DEF Doc, IsTokenized, Ordered
    <2>6. /\ p.toks[i].type = T[i].type /\ p.toks[i].start = T[i].start
          /\ p.toks[i].end = T[i].end /\ p.toks[i].size = T[i].size
      BY <1>0, <2>4, <2>5 DEF Shows, Shown
    <2>7. p.toks[i] = T[i]
      <3> DEFINE a == p.toks[i]
                 b == T[i]
      <3>1. a \in Tokens /\ b \in Tokens /\ a.type = b.type /\ a.start = b.start
            /\ a.end = b.end /\ a.size = b.size
        BY <2>2, <2>6
      <3> HIDE DEF a, b
      <3>2. a = b
        BY <3>1 DEF Tokens
      <3> QED BY <3>2 DEF a, b
    <2> QED BY <1>0, <2>3, <2>7
  <1>3. p.toks = T
    <2>1. p.toks \in Seq(Tokens) /\ T \in Seq(Tokens)
      BY ParserFields DEF Doc
    <2> QED BY <1>1, <1>2, <2>1, SameSequence
  <1>4. OpenTokens(p) = {}
    <2>1. OpenTokens(p) = { i \in 1..s : T[i].type \in Containers /\ T[i].end > n }
      BY <1>0, OpenShown
    <2> QED BY <1>2, <2>1
  <1> QED BY <1>3, <1>4

LEMMA FinishTracks ==
    ASSUME NEW p, NEW t, NEW at, NEW T, NEW n, Doc(t, at, T), p \in Parsers, Running(p),
           n = Len(t) => Between(p, t, at, T, n)
    PROVE  LET q == Finish(p)
           IN  /\ q.outcome \in {"ok", "PART"}
               /\ n = Len(t) => q.outcome = "ok" /\ q.toks = T
  <1> DEFINE error == IF OpenTokens(p) = {} THEN "ok" ELSE "PART"
  <1>1. Finish(p) = Refuse(p, error)
    BY DEF Finish
  <1>2. error \in {"ok", "PART"} /\ (OpenTokens(p) = {} => error = "ok")
    OBVIOUS
  <1> HIDE DEF error
  <1>3. Refuse(p, error).outcome = error /\ Refuse(p, error).toks = p.toks
    BY DEF Refuse, Parsers
  <1>4. n = Len(t) => p.toks = T /\ OpenTokens(p) = {}
    BY AllShown
  <1> QED BY <1>1, <1>2, <1>3, <1>4

LEMMA AtEndTracks ==
    ASSUME NEW p, NEW t, NEW at, NEW T, NEW n, Roomy(p, t, at, T, n), n <= Len(t),
           Tracks(p, t, at, T, n), at[n].in = InOf[p.mode]
    PROVE  LET q == AtEnd(p, n)
           IN  /\ q.outcome \in {"ok", "PART"}
               /\ n = Len(t) => q.outcome = "ok" /\ q.toks = T
  <1> DEFINE j == Len(p.toks) + 1
  <1>0. /\ p.mode \in {"value", "string", "escape", "hex", "primitive"}
        /\ p \in Parsers /\ Doc(t, at, T) /\ ParserOK(p, n) /\ Running(p) /\ n \in Nat
        /\ Len(t) \in Nat
    BY ParserFields DEF Roomy, ParserOK, Doc
  <1>1. CASE p.mode = "value"
    <2>1. Between(p, t, at, T, n)
      <3>1. p.mode \notin LeafMode(T[j].type)
        BY <1>1 DEF LeafMode
      <3> QED BY <3>1 DEF Tracks, InLeaf
    <2>2. AtEnd(p, n) = Finish(p)
      BY <1>1 DEF AtEnd
    <2> QED BY <1>0, <2>1, <2>2, FinishTracks
  <1>2. CASE p.mode = "primitive"
    <2> DEFINE q == Leaf(p, "primitive", n)
    <2>1. AtEnd(p, n) = Finish(q)
      BY <1>2 DEF AtEnd
    <2>2. InLeaf(p, t, at, T, n)
      BY <1>2 DEF Tracks, Between
    <2>3. ~ Full(p)
      BY <2>2, InLeafIs
    <2>4. q \in Parsers /\ Running(q)
      BY <1>0, <2>3, LeafGrows
    <2>5. ASSUME n = Len(t)
          PROVE  Between(q, t, at, T, n)
      <3>1. at[Len(t)].in = "word"
        BY <1>2, <2>5 DEF InOf
      <3>2. PICK k \in 1..Len(T) : T[k].end = Len(t) /\ T[k].type = "primitive"
        BY <1>0, <3>1 DEF Doc, IsTokenized
      <3>3. First(T[k]) # n
        <4>1. First(T[k]) \in Nat /\ First(T[k]) < Len(t)
          BY <1>0, DocToken DEF Fits
        <4> HIDE DEF First
        <4> QED BY <2>5, <4>1
      <3>4. T[k].end = n
        BY <2>5, <3>2
      <3> QED BY <2>2, <3>2, <3>3, <3>4, WordEnds
    <2> HIDE DEF q
    <2> QED BY <1>0, <2>1, <2>4, <2>5, FinishTracks
  <1>3. CASE p.mode \in {"string", "escape", "hex"}
    <2>1. AtEnd(p, n) = Refuse(p, "PART")
      BY <1>3 DEF AtEnd
    <2>2. Refuse(p, "PART").outcome = "PART"
      BY <1>0 DEF Refuse, Parsers
    <2>3. n # Len(t)
      <3>1. at[Len(t)].in \in {"between", "word"}
        BY <1>0 DEF Doc, IsTokenized
      <3>2. at[n].in \in {"string", "escape"}
        BY <1>3 DEF InOf
      <3> QED BY <3>1, <3>2
    <2> QED BY <2>1, <2>2, <2>3
  <1> QED BY <1>0, <1>1, <1>2, <1>3

-----------------------------------------------------------------------------
(* The parser tracks the document as far as it is read. *)
Enough == document # NoDocument /\ Len(document.toks) <= room

TokInv ==
    Enough =>
        LET at == Nesting(document.text)
        IN  /\ Running(parser) => Tracks(parser, document.text, at, document.toks, Len(text))
            /\ parser.outcome \notin {"NOMEM", "INVAL"}
            /\ text = document.text /\ ~ Running(parser) =>
                   parser.outcome = "ok" /\ parser.toks = document.toks

LEMMA DocumentIs ==
    ASSUME NEW doc \in Documents
    PROVE  Doc(doc.text, Nesting(doc.text), doc.toks)
  <1>1. doc.text \in Seq(Characters) /\ Len(doc.text) \in Nat
    BY DocumentNesting
  <1>2. doc.toks \in Seq(Tokens) /\ IsTokenized(doc.text, Nesting(doc.text), doc.toks)
    BY DocumentsAssumption
  <1>3. Len(doc.toks) \in Nat
    BY <1>2, LenProperties
  <1> QED BY <1>1, <1>2, <1>3 DEF Doc

LEMMA TokStart ==
    ASSUME Init
    PROVE  TokInv
  <1>1. /\ document \in Documents \cup {NoDocument} /\ text = << >> /\ parser = NewParser
    BY DEF Init
  <1>2. /\ parser.toks = << >> /\ parser.mode = "value" /\ parser.super = 0
        /\ parser.outcome = "running" /\ Len(text) = 0 /\ Len(parser.toks) = 0
    BY <1>1 DEF NewParser
  <1>3. SUFFICES ASSUME document \in Documents
                 PROVE  Tracks(parser, document.text, Nesting(document.text), document.toks, 0)
    BY <1>1, <1>2 DEF TokInv, Enough, Running
  <1> DEFINE t == document.text
             at == Nesting(document.text)
             T == document.toks
  <1>4. Doc(t, at, T)
    BY <1>3, DocumentIs
  <1> HIDE DEF t, at, T
  <1>5. Upto(T, 0, 0)
    <2>1. \A k \in 1..Len(T) : First(T[k]) \in Nat
      BY <1>4, DocToken DEF Fits
    <2>2. 0 \in 0..Len(T)
      BY <1>4 DEF Doc
    <2> HIDE DEF First
    <2> QED BY <2>1, <2>2 DEF Upto
  <1>6. Shows(parser.toks, T, 0)
    BY <1>2, <1>4 DEF Shows, Doc
  <1>7. Counts(parser, t, at, T, 0)
    <2>1. OpenTokens(parser) = {}
      BY <1>2 DEF OpenTokens
    <2>2. LastOf(OpenTokens(parser)) = 0
      BY <2>1 DEF LastOf
    <2>3. ~ Keyed(t, at, T, 0, 0)
      BY DEF Keyed
    <2> QED BY <1>2, <2>2, <2>3 DEF Counts
  <1>8. Tracks(parser, t, at, T, 0)
    BY <1>2, <1>5, <1>6, <1>7 DEF Tracks, Between
  <1> QED BY <1>8 DEF t, at, T

LEMMA TokRead ==
    ASSUME Inv, CutInv, TokInv, NEW c \in Characters, Read(c)
    PROVE  TokInv'
  <1> DEFINE n == Len(text)
             t == document.text
             at == Nesting(document.text)
             T == document.toks
             q == Loop(parser, c, n)
  <1>0. n \in Nat /\ text \in Seq(Characters) /\ room \in Nat /\ ParserOK(parser, n) /\ Running(parser)
    BY LenProperties DEF Inv, Read
  <1>1. /\ document' = document /\ room' = room /\ text' = Append(text, c) /\ parser' = q
    BY DEF Read
  <1>2. CASE ~ Enough
    BY <1>1, <1>2 DEF TokInv, Enough
  <1>3. CASE Enough
    <2>1. document \in Documents /\ Follows(parser, at[n]) /\ Len(T) <= room
          /\ Tracks(parser, t, at, T, n)
      BY <1>0, <1>3 DEF CutInv, TokInv, Enough
    <2>2. Doc(t, at, T) /\ t \in Seq(Characters) /\ Len(t) \in Nat
      BY <2>1, DocumentIs, DocumentNesting
    <2>3. IsPrefix(Append(text, c), t)
      BY <1>3 DEF Read, Enough
    <2>4. Len(text') = n + 1 /\ t[n + 1] = c /\ n < Len(t)
      <3>1. Begins(Append(text, c), t) /\ Len(Append(text, c)) = n + 1 /\ t[n + 1] = c
        BY <1>0, <2>2, <2>3, PrefixBegins
      <3> QED BY <1>0, <1>1, <2>2, <3>1 DEF Begins
    <2>5. at[n].in = InOf[parser.mode]
      BY <2>1 DEF Follows
    <2> HIDE DEF at, t, T
    <2>6. Ready(parser, t, at, T, n)
      BY <1>0, <2>1, <2>2, <2>4 DEF Ready, Roomy
    <2>7. Tracks(q, t, at, T, n + 1) /\ Running(q)
      BY <2>1, <2>4, <2>5, <2>6, LoopTracks
    <2>8. Tracks(parser', document'.text, Nesting(document'.text), document'.toks, Len(text'))
          /\ Running(parser')
      BY <1>1, <2>4, <2>7 DEF t, at, T
    <2> QED BY <2>8 DEF TokInv, Running, Tracks, Between, InLeaf, Counts, OpenTokens
  <1> QED BY <1>2, <1>3
LEMMA TokEnd ==
    ASSUME Inv, CutInv, TokInv, End
    PROVE  TokInv'
  <1> DEFINE n == Len(text)
             t == document.text
             at == Nesting(document.text)
             T == document.toks
             q == AtEnd(parser, n)
  <1>0. n \in Nat /\ text \in Seq(Characters) /\ room \in Nat /\ ParserOK(parser, n) /\ Running(parser)
    BY LenProperties DEF Inv, End
  <1>1. /\ document' = document /\ room' = room /\ text' = text /\ parser' = q
    BY DEF End
  <1>2. CASE ~ Enough
    BY <1>1, <1>2 DEF TokInv, Enough
  <1>3. CASE Enough
    <2>1. /\ document \in Documents /\ Follows(parser, at[n]) /\ Len(T) <= room
          /\ Tracks(parser, t, at, T, n) /\ Begins(text, t)
      BY <1>0, <1>3 DEF CutInv, TokInv, Enough
    <2>2. Doc(t, at, T)
      BY <2>1, DocumentIs
    <2>3. at[n].in = InOf[parser.mode]
      BY <2>1 DEF Follows
    <2>4. n <= Len(t)
      BY <2>1 DEF Begins
    <2> HIDE DEF at, t, T
    <2>5. Roomy(parser, t, at, T, n)
      BY <1>0, <2>1, <2>2 DEF Roomy
    <2>6. /\ q.outcome \in {"ok", "PART"}
          /\ n = Len(t) => q.outcome = "ok" /\ q.toks = T
      BY <2>1, <2>3, <2>4, <2>5, AtEndTracks
    <2> HIDE DEF q
    <2>7. /\ parser'.outcome \in {"ok", "PART"}
          /\ text' = document'.text => parser'.outcome = "ok" /\ parser'.toks = document'.toks
      BY <1>1, <2>6 DEF t, T
    <2>8. ~ (parser'.outcome = "running") /\ parser'.outcome \notin {"NOMEM", "INVAL"}
      BY <2>7
    <2> QED BY <2>7, <2>8 DEF TokInv, Running
  <1> QED BY <1>2, <1>3

(* Between two tokens the parser tracks the document, so the token that    *)
(* counts is the parent of the next one; in a string or a bare word the    *)
(* next one has begun.                                                     *)
LEMMA TokSuperior ==
    ASSUME Inv, CutInv, TokInv
    PROVE  SuperiorIsParent
  <1> DEFINE n == Len(text)
             t == document.text
             at == Nesting(document.text)
             T == document.toks
             next == Len(parser.toks) + 1
  <1>1. SUFFICES ASSUME document # NoDocument, Len(T) <= room, Running(parser),
                        next <= Len(T), First(T[next]) = n
                 PROVE  parser.super = Parent(T, next)
    BY DEF SuperiorIsParent
  <1>2. n \in Nat /\ parser \in Parsers /\ Len(parser.toks) \in Nat
    BY ParserFields, LenProperties DEF Inv, ParserOK
  <1>3. document \in Documents /\ Tracks(parser, t, at, T, n)
    BY <1>1 DEF CutInv, TokInv, Enough
  <1>4. Doc(t, at, T)
    BY <1>3, DocumentIs
  <1> HIDE DEF n, t, at, T
  <1>5. Len(T) \in Nat /\ next \in 1..Len(T)
    BY <1>1, <1>2, <1>4 DEF Doc
  <1>6. CASE Between(parser, t, at, T, n)
    <2>1. Shows(parser.toks, T, n) /\ Counts(parser, t, at, T, n)
      BY <1>6 DEF Between
    <2> QED BY <1>1, <1>2, <1>4, <1>5, <2>1, CountsParent
  <1>7. CASE InLeaf(parser, t, at, T, n)
    <2>1. Upto(T, next, n)
      BY <1>7 DEF InLeaf
    <2> HIDE DEF next
    <2>2. First(T[next]) < n
      BY <1>5, <2>1 DEF Upto
    <2> QED BY <1>1, <1>2, <2>2
  <1> QED BY <1>3, <1>6, <1>7 DEF Tracks

(* Two more invariants: how the brackets open in the text are the tokens   *)
(* open, and how far the document is written.                              *)
THEOREM JsmnTracks == Spec => [](Inv /\ CutInv /\ TokInv)
  <1>1. Init => CutInv /\ TokInv
    BY CutStart, TokStart
  <1>2. Inv /\ CutInv /\ TokInv /\ [Next]_vars => TokInv' /\ CutInv'
    <2> SUFFICES ASSUME Inv, CutInv, TokInv, [Next]_vars
                 PROVE  TokInv' /\ CutInv'
      OBVIOUS
    <2>1. ASSUME NEW c \in Characters, Read(c)
          PROVE  TokInv' /\ CutInv'
      BY <2>1, CutRead, TokRead
    <2>2. CASE End
      BY <2>2, CutEnd, TokEnd
    <2>3. CASE UNCHANGED vars
      <3>1. /\ document' = document /\ text' = text /\ room' = room /\ parser' = parser
        BY <2>3 DEF vars
      <3>2. CutInv'
        BY <3>1 DEF CutInv, Running, Follows, Deep, OpenTokens
      <3>3. TokInv'
        BY <3>1 DEF TokInv, Enough, Running, Tracks, Between, InLeaf, Counts, OpenTokens
      <3> QED BY <3>2, <3>3
    <2> QED BY <2>1, <2>2, <2>3 DEF Next
  <1> QED BY <1>1, <1>2, JsmnInv, PTL DEF Spec

(* Every document for which there is room is tokenized as it was written,  *)
(* child counts included, and no part of it is refused before its end.     *)
THEOREM JsmnDocumentsTokenized == Spec => []DocumentsTokenized
  <1>1. TokInv => DocumentsTokenized
    BY DEF TokInv, Enough, DocumentsTokenized
  <1> QED BY <1>1, JsmnTracks, PTL

(* While a document is read, the token that counts children is the parent  *)
(* of the next token whenever one begins (jsmn.h:384, 428, 432).           *)
THEOREM JsmnSuperior == Spec => []SuperiorIsParent
  <1>1. Inv /\ CutInv /\ TokInv => SuperiorIsParent
    BY TokSuperior
  <1> QED BY <1>1, JsmnTracks, PTL

=============================================================================
