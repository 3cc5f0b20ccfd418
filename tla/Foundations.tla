----------------------------- MODULE Foundations ----------------------------
(***************************************************************************)
(* Induction and recursion as facts about sets and functions, for proofs   *)
(* about the recursive functions of the other modules. A recursive         *)
(* function f[x \in D] == e stands for some f = [x \in D |-> e]; that      *)
(* there is one has to be shown before e can be used.                      *)
(***************************************************************************)
EXTENDS Integers, Sequences, SequenceTheorems, WellFoundedInduction, TLAPS

(* What holds of 0 and, with every number, of the next holds of all.       *)
LEMMA UpFromZero ==
    ASSUME NEW T, 0 \in T, \A n \in Nat : n \in T => n + 1 \in T
    PROVE  \A n \in Nat : n \in T
  <1> DEFINE R == { rr \in Nat \X Nat : rr[1] < rr[2] }
  <1>1. IsWellFoundedOn(R, Nat)
    BY NatLessThanWellFounded DEF OpToRel
  <1> SUFFICES ASSUME NEW n \in Nat, n \notin T
               PROVE  FALSE
    OBVIOUS
  <1> DEFINE Missing == { m \in Nat : m \notin T }
  <1>2. PICK m \in Missing : \A k \in Missing : ~ (<<k, m>> \in R)
    <2>1. Missing \subseteq Nat /\ Missing # {}
      OBVIOUS
    <2> HIDE DEF R, Missing
    <2> QED BY <1>1, <2>1, WFMin
  <1>3. \A k \in Missing : ~ (k < m)
    BY <1>2
  <1>4. m # 0 /\ m \in Nat /\ m - 1 \in Nat /\ (m - 1) + 1 = m
    OBVIOUS
  <1>5. m - 1 \in T
    BY <1>3, <1>4
  <1> QED BY <1>4, <1>5

(* A set of naturals has a least element.                                  *)
LEMMA LeastNumber ==
    ASSUME NEW T, T \subseteq Nat, T # {}
    PROVE  \E n \in T : \A m \in T : n <= m
  <1> DEFINE R == { rr \in Nat \X Nat : rr[1] < rr[2] }
  <1>1. IsWellFoundedOn(R, Nat)
    BY NatLessThanWellFounded DEF OpToRel
  <1>2. PICK n \in T : \A m \in T : ~ (<<m, n>> \in R)
    <2> HIDE DEF R
    <2> QED BY <1>1, WFMin
  <1>3. \A m \in T : ~ (m < n)
    BY <1>2
  <1> QED BY <1>3

-----------------------------------------------------------------------------
(* step makes of a function on D one whose value at x depends on the given *)
(* one's at smaller arguments only. Then it has a fixed point.             *)
Below(D, mu, f, g, x) == \A y \in D : mu[y] < mu[x] => f[y] = g[y]

Contracting(D, S, mu, step) ==
    /\ step \in [[D -> S] -> [D -> S]]
    /\ \A f, g \in [D -> S], x \in D : Below(D, mu, f, g, x) => step[f][x] = step[g][x]

HasFixedPoint(D, S, step) == \E f \in [D -> S] : step[f] = f

(* f is fixed up to measure n. *)
FixedTo(D, mu, step, f, n) == \A x \in D : mu[x] < n => step[f][x] = f[x]

LEMMA FixedAlike ==
    ASSUME NEW D, NEW S, NEW mu \in [D -> Nat], NEW step, Contracting(D, S, mu, step),
           NEW f \in [D -> S], NEW g \in [D -> S], NEW n \in Nat,
           FixedTo(D, mu, step, f, n), FixedTo(D, mu, step, g, n)
    PROVE  \A x \in D : mu[x] < n => f[x] = g[x]
  <1> DEFINE T == { m \in Nat : \A x \in D : mu[x] < n /\ mu[x] < m => f[x] = g[x] }
  <1>1. 0 \in T
    OBVIOUS
  <1>2. \A m \in Nat : m \in T => m + 1 \in T
    <2> SUFFICES ASSUME NEW m \in Nat, m \in T, NEW x \in D, mu[x] < n, mu[x] < m + 1
                 PROVE  f[x] = g[x]
      OBVIOUS
    <2>1. \A y \in D : mu[y] < mu[x] => f[y] = g[y]
      OBVIOUS
    <2>2. step[f][x] = step[g][x]
      BY <2>1 DEF Contracting, Below
    <2> QED BY <2>2 DEF FixedTo
  <1>3. \A m \in Nat : m \in T
    <2> HIDE DEF T
    <2> QED BY <1>1, <1>2, UpFromZero
  <1> QED BY <1>3

LEMMA FixedFurther ==
    ASSUME NEW D, NEW S, NEW mu \in [D -> Nat], NEW step, Contracting(D, S, mu, step),
           NEW f \in [D -> S], NEW n \in Nat, FixedTo(D, mu, step, f, n)
    PROVE  step[f] \in [D -> S] /\ FixedTo(D, mu, step, step[f], n + 1)
  <1> DEFINE g == step[f]
  <1>1. g \in [D -> S]
    BY DEF Contracting
  <1>2. ASSUME NEW x \in D, mu[x] < n + 1
        PROVE  step[g][x] = g[x]
    <2>1. \A y \in D : mu[y] < mu[x] => g[y] = f[y]
      BY <1>2 DEF FixedTo
    <2>2. step[g][x] = step[f][x]
      BY <1>1, <2>1 DEF Contracting, Below
    <2> QED BY <2>2
  <1> QED BY <1>1, <1>2 DEF FixedTo

LEMMA FixedExists ==
    ASSUME NEW D, NEW S, S # {}, NEW mu \in [D -> Nat], NEW step, Contracting(D, S, mu, step)
    PROVE  \A n \in Nat : \E f \in [D -> S] : FixedTo(D, mu, step, f, n)
  <1> DEFINE T == { n \in Nat : \E f \in [D -> S] : FixedTo(D, mu, step, f, n) }
  <1>1. 0 \in T
    <2>1. PICK s \in S : TRUE
      OBVIOUS
    <2>2. [x \in D |-> s] \in [D -> S]
      OBVIOUS
    <2>3. FixedTo(D, mu, step, [x \in D |-> s], 0)
      BY DEF FixedTo
    <2> QED BY <2>2, <2>3
  <1>2. \A n \in Nat : n \in T => n + 1 \in T
    <2> SUFFICES ASSUME NEW n \in Nat, n \in T
                 PROVE  n + 1 \in T
      OBVIOUS
    <2>1. PICK f \in [D -> S] : FixedTo(D, mu, step, f, n)
      OBVIOUS
    <2>2. step[f] \in [D -> S] /\ FixedTo(D, mu, step, step[f], n + 1)
      BY <2>1, FixedFurther
    <2> QED BY <2>2
  <1>3. \A n \in Nat : n \in T
    <2> HIDE DEF T
    <2> QED BY <1>1, <1>2, UpFromZero
  <1> QED BY <1>3

(* A step that looks at smaller arguments only defines a function.         *)
LEMMA FixedPoint ==
    ASSUME NEW D, NEW S, S # {}, NEW mu \in [D -> Nat], NEW step, Contracting(D, S, mu, step)
    PROVE  HasFixedPoint(D, S, step)
  <1> DEFINE To(n) == CHOOSE f : f \in [D -> S] /\ FixedTo(D, mu, step, f, n)
             F == [x \in D |-> To(mu[x] + 1)[x]]
  <1>1. \A n \in Nat : To(n) \in [D -> S] /\ FixedTo(D, mu, step, To(n), n)
    <2> TAKE n \in Nat
    <2>1. \E f : f \in [D -> S] /\ FixedTo(D, mu, step, f, n)
      BY FixedExists
    <2> QED BY <2>1, Zenon
  <1> HIDE DEF To
  <1>2. F \in [D -> S]
    BY <1>1
  <1>3. ASSUME NEW x \in D
        PROVE  step[F][x] = F[x]
    <2> DEFINE n == mu[x] + 1
               f == To(n)
    <2>1. n \in Nat /\ f \in [D -> S] /\ FixedTo(D, mu, step, f, n) /\ F[x] = f[x]
      BY <1>1
    <2>2. ASSUME NEW y \in D, mu[y] < mu[x]
          PROVE  F[y] = f[y]
      <3> DEFINE m == mu[y] + 1
                 g == To(m)
      <3>1. m \in Nat /\ g \in [D -> S] /\ FixedTo(D, mu, step, g, m) /\ F[y] = g[y] /\ m < n
        BY <1>1, <2>2
      <3> HIDE DEF g, f
      <3>2. FixedTo(D, mu, step, f, m)
        BY <2>1, <3>1 DEF FixedTo
      <3>3. mu[y] < m
        OBVIOUS
      <3>4. \A z \in D : mu[z] < m => g[z] = f[z]
        <4> HIDE DEF m
        <4> QED BY <2>1, <3>1, <3>2, FixedAlike
      <3> QED BY <3>1, <3>3, <3>4
    <2> HIDE DEF F, f
    <2>3. step[F][x] = step[f][x]
      BY <1>2, <2>1, <2>2 DEF Contracting, Below
    <2>4. step[f][x] = f[x]
      BY <2>1 DEF FixedTo
    <2> QED BY <2>1, <2>3, <2>4
  <1>4. step[F] \in [D -> S]
    <2> HIDE DEF F
    <2> QED BY <1>2 DEF Contracting
  <1>5. step[F] = F
    <2> HIDE DEF F
    <2> QED BY <1>2, <1>3, <1>4
  <1> QED BY <1>2, <1>5 DEF HasFixedPoint

-----------------------------------------------------------------------------
(* What a loop of k rounds leaves: next[n] is what round n makes of the    *)
(* value before it.                                                        *)
IsLoop(f, k, start, next) ==
    f = [n \in 0..k |-> IF n = 0 THEN start ELSE next[n][f[n - 1]]]

HasLoop(S, k, start, next) == \E f \in [0..k -> S] : IsLoop(f, k, start, next)

LEMMA LoopExists ==
    ASSUME NEW S, NEW start \in S, NEW k \in Nat, NEW next \in [1..k -> [S -> S]]
    PROVE  HasLoop(S, k, start, next)
  <1> DEFINE D == 0..k
             mu == [n \in D |-> n]
             Body(f, n) == IF n = 0 THEN start ELSE next[n][f[n - 1]]
             step == [f \in [D -> S] |-> [n \in D |-> Body(f, n)]]
  <1>1. ASSUME NEW f \in [D -> S], NEW n \in D
        PROVE  Body(f, n) \in S
    <2>1. CASE n = 0
      BY <2>1
    <2>2. CASE n # 0
      <3>1. n \in 1..k /\ n - 1 \in D
        BY <2>2
      <3> QED BY <2>2, <3>1
    <2> QED BY <2>1, <2>2
  <1>2. step \in [[D -> S] -> [D -> S]]
    <2> HIDE DEF Body, D
    <2> QED BY <1>1
  <1>3. ASSUME NEW f \in [D -> S], NEW g \in [D -> S], NEW n \in D, Below(D, mu, f, g, n)
        PROVE  step[f][n] = step[g][n]
    <2>1. n # 0 => n - 1 \in D /\ f[n - 1] = g[n - 1]
      BY <1>3 DEF Below
    <2>2. Body(f, n) = Body(g, n)
      BY <2>1
    <2> HIDE DEF Body, D
    <2> QED BY <2>2
  <1>4. mu \in [D -> Nat] /\ S # {}
    OBVIOUS
  <1>5. HasFixedPoint(D, S, step)
    <2>1. Contracting(D, S, mu, step)
      <3> HIDE DEF step, D, mu
      <3> QED BY <1>2, <1>3 DEF Contracting
    <2> HIDE DEF step, D, mu
    <2> QED BY <1>4, <2>1, FixedPoint
  <1>6. PICK f \in [D -> S] : step[f] = f
    BY <1>5 DEF HasFixedPoint
  <1>7. IsLoop(f, k, start, next)
    BY <1>6 DEF IsLoop
  <1> QED BY <1>7 DEF HasLoop

-----------------------------------------------------------------------------
(* Sequences, element by element.                                          *)
LEMMA Concat ==
    ASSUME NEW S, NEW s \in Seq(S), NEW t \in Seq(S)
    PROVE  /\ s \o t \in Seq(S) /\ Len(s \o t) = Len(s) + Len(t)
           /\ Len(s) \in Nat /\ Len(t) \in Nat
           /\ \A i \in 1..Len(s) : (s \o t)[i] = s[i]
           /\ \A i \in 1..Len(t) : (s \o t)[Len(s) + i] = t[i]
  <1>1. Len(s) \in Nat /\ Len(t) \in Nat
    BY LenProperties
  <1>2. /\ s \o t \in Seq(S) /\ Len(s \o t) = Len(s) + Len(t)
        /\ \A i \in 1 .. Len(s) + Len(t) :
              (s \o t)[i] = IF i <= Len(s) THEN s[i] ELSE t[i - Len(s)]
    BY ConcatProperties
  <1>3. \A i \in 1..Len(s) : (s \o t)[i] = s[i]
    BY <1>1, <1>2
  <1>4. \A i \in 1..Len(t) : (s \o t)[Len(s) + i] = t[i]
    <2> TAKE i \in 1..Len(t)
    <2>1. Len(s) + i \in 1..(Len(s) + Len(t)) /\ ~ (Len(s) + i <= Len(s))
          /\ (Len(s) + i) - Len(s) = i
      BY <1>1
    <2> QED BY <1>2, <2>1
  <1> QED BY <1>1, <1>2, <1>3, <1>4

LEMMA SameSequence ==
    ASSUME NEW S, NEW s \in Seq(S), NEW t \in Seq(S), Len(s) = Len(t),
           \A i \in 1..Len(s) : s[i] = t[i]
    PROVE  s = t
  BY SeqEqual

(* c is s, of length m, followed by t, of length n.                        *)
Joins(c, S, s, m, t, n) ==
    /\ c \in Seq(S) /\ Len(c) = m + n
    /\ \A i \in 1..m : c[i] = s[i]
    /\ \A i \in 1..n : c[m + i] = t[i]

LEMMA Joined ==
    ASSUME NEW S, NEW s \in Seq(S), NEW t \in Seq(S), NEW m \in Nat, NEW n \in Nat,
           Len(s) = m, Len(t) = n
    PROVE  Joins(s \o t, S, s, m, t, n)
  <1> DEFINE c == s \o t
  <1>1. c \in Seq(S)
    BY Concat
  <1>2. Len(c) = m + n
    BY Concat
  <1>3. \A i \in 1..m : c[i] = s[i]
    BY Concat
  <1>4. \A i \in 1..n : c[m + i] = t[i]
    BY Concat
  <1> HIDE DEF c
  <1>5. Joins(c, S, s, m, t, n)
    BY <1>1, <1>2, <1>3, <1>4 DEF Joins
  <1> QED BY <1>5 DEF c

(* c is the n elements of s behind the first m.                            *)
Slices(c, S, s, m, n) ==
    /\ c \in Seq(S) /\ Len(c) = n
    /\ \A i \in 1..n : c[i] = s[m + i]

LEMMA Sliced ==
    ASSUME NEW S, NEW s \in Seq(S), NEW m \in Nat, NEW n \in Nat, m + n <= Len(s),
           NEW lo, lo = m + 1, NEW hi, hi = m + n
    PROVE  Slices(SubSeq(s, lo, hi), S, s, m, n)
  <1> DEFINE c == SubSeq(s, lo, hi)
  <1>0. Len(s) \in Nat /\ \A i \in 1..Len(s) : s[i] \in S
    BY LenProperties, ElementOfSeq
  <1>1. lo \in Int /\ hi \in Int /\ \A i \in lo..hi : s[i] \in S
    BY <1>0
  <1>2. c \in Seq(S)
    BY <1>1, SubSeqProperties
  <1>3. Len(c) = IF lo <= hi THEN hi - lo + 1 ELSE 0
    BY <1>1, SubSeqProperties
  <1>4. \A i \in 1..(hi - lo + 1) : c[i] = s[lo + i - 1]
    BY <1>1, SubSeqProperties
  <1> HIDE DEF c
  <1>5. Len(c) = n
    BY <1>3
  <1>6. \A i \in 1..n : c[i] = s[m + i]
    <2> TAKE i \in 1..n
    <2>1. i \in 1..(hi - lo + 1) /\ lo + i - 1 = m + i
      OBVIOUS
    <2> QED BY <1>4, <2>1
  <1>7. Slices(c, S, s, m, n)
    BY <1>2, <1>5, <1>6 DEF Slices
  <1> QED BY <1>7 DEF c

=============================================================================
