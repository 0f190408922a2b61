--------------------------- MODULE SequenceLemmas ---------------------------
(***************************************************************************)
(* Facts about sequences, finite sets and natural numbers that the proofs  *)
(* of several components cite.  They say nothing of the system.            *)
(***************************************************************************)
EXTENDS Integers, SequencesExt, FiniteSetTheorems, SequenceTheorems, TLAPS

-----------------------------------------------------------------------------
(* Induction over the naturals, for a set of numbers *)

\* A set of naturals that is not empty has a least element.
LEMMA LeastNatural ==
  ASSUME NEW T \in SUBSET Nat, T # {}
  PROVE  \E m \in T : \A k \in T : m <= k
<1>1. \E x \in T : \A y \in T : ~ (<<y, x>> \in OpToRel(<, Nat))
  BY WFMin, NatLessThanWellFounded
<1>2. PICK x \in T : \A y \in T : ~ (<<y, x>> \in OpToRel(<, Nat))
  BY <1>1
<1>3. \A y \in T : ~ (y < x)
  BY <1>2 DEF OpToRel
<1> QED BY <1>3

\* A set that has 0, and n + 1 when it has n, has every natural.
LEMMA SetInduction ==
  ASSUME NEW T \in SUBSET Nat, 0 \in T, \A n \in T : n + 1 \in T
  PROVE  T = Nat
<1>1. SUFFICES ASSUME Nat \ T # {} PROVE FALSE
  OBVIOUS
<1>2. PICK m \in Nat \ T : \A k \in Nat \ T : m <= k
  BY <1>1, LeastNatural
<1>3. m - 1 \in Nat /\ m - 1 \in T
  BY <1>2
<1> QED BY <1>2, <1>3

-----------------------------------------------------------------------------
(* The elements of a sequence, and sequences without repetition *)

LEMMA SequenceFacts ==
  ASSUME NEW S, NEW s \in Seq(S)
  PROVE  /\ Len(s) \in Nat /\ DOMAIN s = 1..Len(s) /\ s \in [1..Len(s) -> S]
         /\ ToSet(s) = {s[i] : i \in 1..Len(s)}
         /\ ToSet(s) \subseteq S
         /\ s = << >> <=> Len(s) = 0
         /\ s = << >> <=> ToSet(s) = {}
<1>1. Len(s) \in Nat /\ DOMAIN s = 1..Len(s) /\ s \in [1..Len(s) -> S]
  BY LenProperties
<1>2. ToSet(s) = {s[i] : i \in 1..Len(s)} /\ ToSet(s) \subseteq S
  BY <1>1 DEF ToSet
<1>3. s = << >> <=> Len(s) = 0
  BY EmptySeq
<1>4. Len(s) = 0 <=> ToSet(s) = {}
  <2>1. ASSUME Len(s) # 0 PROVE s[1] \in ToSet(s)
    BY <1>1, <1>2, <2>1
  <2>2. ASSUME Len(s) = 0 PROVE ToSet(s) = {}
    <3>1. 1..Len(s) = {}
      BY <2>2
    <3> QED BY <1>2, <3>1
  <2> QED BY <2>1, <2>2
<1> QED BY <1>1, <1>2, <1>3, <1>4

\* A function on 1..n is a sequence of length n.
LEMMA FunctionIsSequence ==
  ASSUME NEW S, NEW n \in Nat, NEW g \in [1..n -> S]
  PROVE  g \in Seq(S) /\ Len(g) = n /\ DOMAIN g = 1..n
<1>1. g \in Seq(S) /\ DOMAIN g = 1..n
  BY SeqDef
<1> QED BY <1>1, LenProperties

LEMMA ConcatElements ==
  ASSUME NEW S, NEW s \in Seq(S), NEW t \in Seq(S)
  PROVE  /\ s \o t \in Seq(S)
         /\ ToSet(s \o t) = ToSet(s) \cup ToSet(t)
         /\ IsInjective(s \o t) <=>
              IsInjective(s) /\ IsInjective(t) /\ ToSet(s) \cap ToSet(t) = {}
<1> DEFINE u == s \o t
<1>1. /\ u \in Seq(S) /\ Len(u) = Len(s) + Len(t)
      /\ \A i \in 1..Len(s) + Len(t) :
           u[i] = IF i <= Len(s) THEN s[i] ELSE t[i - Len(s)]
  BY ConcatProperties
<1>2. /\ Len(s) \in Nat /\ DOMAIN s = 1..Len(s) /\ ToSet(s) = {s[i] : i \in 1..Len(s)}
      /\ Len(t) \in Nat /\ DOMAIN t = 1..Len(t) /\ ToSet(t) = {t[i] : i \in 1..Len(t)}
      /\ DOMAIN u = 1..Len(u) /\ ToSet(u) = {u[i] : i \in 1..Len(u)}
  BY <1>1, SequenceFacts
<1>3. \A i \in 1..Len(s) : i \in 1..Len(u) /\ u[i] = s[i]
  BY <1>1, <1>2
<1>4. \A i \in 1..Len(t) : i + Len(s) \in 1..Len(u) /\ u[i + Len(s)] = t[i]
  BY <1>1, <1>2
<1>5. \A i \in 1..Len(u) : \/ i \in 1..Len(s) /\ u[i] = s[i]
                           \/ i - Len(s) \in 1..Len(t) /\ u[i] = t[i - Len(s)]
  BY <1>1, <1>2
<1>6. ToSet(u) = ToSet(s) \cup ToSet(t)
  <2> HIDE DEF u
  <2>1. ASSUME NEW x \in ToSet(u) PROVE x \in ToSet(s) \cup ToSet(t)
    <3>1. PICK i \in 1..Len(u) : x = u[i]
      BY <1>2
    <3> QED BY <1>2, <1>5, <3>1
  <2>2. ASSUME NEW x \in ToSet(s) PROVE x \in ToSet(u)
    BY <1>2, <1>3
  <2>3. ASSUME NEW x \in ToSet(t) PROVE x \in ToSet(u)
    BY <1>2, <1>4
  <2> QED BY <2>1, <2>2, <2>3
<1>7. ASSUME IsInjective(u)
      PROVE  IsInjective(s) /\ IsInjective(t) /\ ToSet(s) \cap ToSet(t) = {}
  <2> HIDE DEF u
  <2>1. \A i, j \in 1..Len(u) : u[i] = u[j] => i = j
    BY <1>2, <1>7 DEF IsInjective
  <2>2. ASSUME NEW i \in 1..Len(s), NEW j \in 1..Len(s), s[i] = s[j] PROVE i = j
    BY <1>3, <2>1, <2>2
  <2>3. ASSUME NEW i \in 1..Len(t), NEW j \in 1..Len(t), t[i] = t[j] PROVE i = j
    BY <1>2, <1>4, <2>1, <2>3
  <2>4. ASSUME NEW i \in 1..Len(s), NEW j \in 1..Len(t), s[i] = t[j] PROVE FALSE
    <3>1. i = j + Len(s)
      BY <1>3, <1>4, <2>1, <2>4
    <3> QED BY <1>2, <3>1
  <2> QED BY <1>2, <2>2, <2>3, <2>4 DEF IsInjective
<1>8. ASSUME IsInjective(s), IsInjective(t), ToSet(s) \cap ToSet(t) = {}
      PROVE  IsInjective(u)
  <2> HIDE DEF u
  <2>1. /\ \A i, j \in 1..Len(s) : s[i] = s[j] => i = j
        /\ \A i, j \in 1..Len(t) : t[i] = t[j] => i = j
        /\ \A i \in 1..Len(s), j \in 1..Len(t) : s[i] # t[j]
    BY <1>2, <1>8, SMTT(20) DEF IsInjective
  <2>2. ASSUME NEW i \in 1..Len(u), NEW j \in 1..Len(u), u[i] = u[j] PROVE i = j
    <3>1. CASE i \in 1..Len(s) /\ u[i] = s[i] /\ j \in 1..Len(s) /\ u[j] = s[j]
      BY <2>1, <2>2, <3>1
    <3>2. CASE /\ i - Len(s) \in 1..Len(t) /\ u[i] = t[i - Len(s)]
               /\ j - Len(s) \in 1..Len(t) /\ u[j] = t[j - Len(s)]
      <4>1. i - Len(s) = j - Len(s)
        BY <2>1, <2>2, <3>2
      <4> QED BY <1>2, <4>1
    <3>3. CASE i \in 1..Len(s) /\ u[i] = s[i] /\ j - Len(s) \in 1..Len(t) /\ u[j] = t[j - Len(s)]
      BY <2>1, <2>2, <3>3
    <3>4. CASE j \in 1..Len(s) /\ u[j] = s[j] /\ i - Len(s) \in 1..Len(t) /\ u[i] = t[i - Len(s)]
      BY <2>1, <2>2, <3>4
    <3> QED BY <1>5, <3>1, <3>2, <3>3, <3>4
  <2> QED BY <1>2, <2>2 DEF IsInjective
<1> QED BY <1>1, <1>6, <1>7, <1>8

LEMMA SingletonElements ==
  ASSUME NEW S, NEW e \in S
  PROVE  /\ <<e>> \in Seq(S) /\ Len(<<e>>) = 1 /\ <<e>>[1] = e
         /\ ToSet(<<e>>) = {e} /\ IsInjective(<<e>>)
  BY DEF ToSet, IsInjective

LEMMA EmptyElements ==
  /\ ToSet(<< >>) = {} /\ IsInjective(<< >>) /\ Len(<< >>) = 0
  /\ \A S : << >> \in Seq(S)
  BY DEF ToSet, IsInjective

LEMMA AppendElements ==
  ASSUME NEW S, NEW s \in Seq(S), NEW e \in S
  PROVE  /\ Append(s, e) \in Seq(S) /\ Len(Append(s, e)) = Len(s) + 1
         /\ \A i \in 1..Len(s) : Append(s, e)[i] = s[i]
         /\ Append(s, e)[Len(s) + 1] = e
         /\ ToSet(Append(s, e)) = ToSet(s) \cup {e}
         /\ IsInjective(Append(s, e)) <=> IsInjective(s) /\ e \notin ToSet(s)
<1>1. Append(s, e) = s \o <<e>>
  BY AppendIsConcat
<1>2. <<e>> \in Seq(S) /\ ToSet(<<e>>) = {e} /\ IsInjective(<<e>>)
  BY SingletonElements
<1>3. /\ ToSet(s \o <<e>>) = ToSet(s) \cup {e}
      /\ IsInjective(s \o <<e>>) <=> IsInjective(s) /\ ToSet(s) \cap {e} = {}
  BY <1>2, ConcatElements
<1> QED BY <1>1, <1>3, AppendProperties

\* A sequence is what it begins with and the rest.
LEMMA SplitElements ==
  ASSUME NEW S, NEW s \in Seq(S), NEW n \in 0..Len(s)
  PROVE  LET a == SubSeq(s, 1, n)
             b == SubSeq(s, n + 1, Len(s))
         IN /\ a \in Seq(S) /\ b \in Seq(S) /\ s = a \o b
            /\ Len(a) = n /\ Len(b) = Len(s) - n
            /\ \A i \in 1..n : a[i] = s[i]
            /\ \A i \in 1..Len(s) - n : b[i] = s[n + i]
            /\ ToSet(s) = ToSet(a) \cup ToSet(b)
            /\ IsInjective(s) <=>
                 IsInjective(a) /\ IsInjective(b) /\ ToSet(a) \cap ToSet(b) = {}
<1> DEFINE a == SubSeq(s, 1, n)
           b == SubSeq(s, n + 1, Len(s))
<1>1. Len(s) \in Nat /\ \A i \in 1..Len(s) : s[i] \in S
  BY SequenceFacts
<1>2. /\ a \in Seq(S) /\ Len(a) = n /\ \A i \in 1..n : a[i] = s[i]
      /\ b \in Seq(S) /\ Len(b) = Len(s) - n /\ \A i \in 1..Len(s) - n : b[i] = s[n + i]
  <2>1. /\ a \in Seq(S) /\ Len(a) = (IF 1 <= n THEN n - 1 + 1 ELSE 0)
        /\ \A i \in 1..(n - 1 + 1) : a[i] = s[1 + i - 1]
    BY <1>1, SubSeqProperties
  <2>2. /\ b \in Seq(S) /\ Len(b) = (IF n + 1 <= Len(s) THEN Len(s) - (n + 1) + 1 ELSE 0)
        /\ \A i \in 1..(Len(s) - (n + 1) + 1) : b[i] = s[n + 1 + i - 1]
    BY <1>1, SubSeqProperties
  <2> QED BY <1>1, <2>1, <2>2
<1>3. s = a \o b
  <2> HIDE DEF a, b
  <2>1. /\ a \o b \in Seq(S) /\ Len(a \o b) = Len(s)
        /\ \A i \in 1..Len(s) : (a \o b)[i] = IF i <= n THEN a[i] ELSE b[i - n]
    <3>1. /\ a \o b \in Seq(S) /\ Len(a \o b) = Len(a) + Len(b)
          /\ \A i \in 1..Len(a) + Len(b) :
               (a \o b)[i] = IF i <= Len(a) THEN a[i] ELSE b[i - Len(a)]
      BY <1>2, ConcatProperties
    <3>2. Len(a) + Len(b) = Len(s) /\ Len(a) = n
      BY <1>1, <1>2
    <3> QED BY <3>1, <3>2
  <2>2. ASSUME NEW i \in 1..Len(s) PROVE (a \o b)[i] = s[i]
    <3>1. CASE i <= n
      <4>1. i \in 1..n
        BY <1>1, <3>1
      <4> QED BY <1>2, <2>1, <3>1, <4>1
    <3>2. CASE i > n
      <4>1. i - n \in 1..Len(s) - n /\ n + (i - n) = i
        BY <1>1, <3>2
      <4> QED BY <1>2, <2>1, <3>2, <4>1
    <3>3. i <= n \/ i > n
      BY <1>1
    <3> QED BY <3>1, <3>2, <3>3
  <2> QED BY <2>1, <2>2, SeqEqual
<1>4. /\ ToSet(s) = ToSet(a) \cup ToSet(b)
      /\ IsInjective(s) <=>
           IsInjective(a) /\ IsInjective(b) /\ ToSet(a) \cap ToSet(b) = {}
  <2> HIDE DEF a, b
  <2>1. /\ ToSet(a \o b) = ToSet(a) \cup ToSet(b)
        /\ IsInjective(a \o b) <=>
             IsInjective(a) /\ IsInjective(b) /\ ToSet(a) \cap ToSet(b) = {}
    BY <1>2, ConcatElements
  <2> QED BY <1>3, <2>1
<1> QED BY <1>2, <1>3, <1>4

LEMMA HeadElements ==
  ASSUME NEW S, NEW s \in Seq(S), s # << >>
  PROVE  /\ Head(s) \in S /\ Head(s) = s[1] /\ Tail(s) \in Seq(S)
         /\ Len(s) > 0 /\ Len(Tail(s)) = Len(s) - 1
         /\ \A i \in 1..Len(s) - 1 : Tail(s)[i] = s[i + 1]
         /\ ToSet(s) = {Head(s)} \cup ToSet(Tail(s))
         /\ IsInjective(s) <=> IsInjective(Tail(s)) /\ Head(s) \notin ToSet(Tail(s))
<1>1. Len(s) \in Nat \ {0}
  BY SequenceFacts
<1>2. /\ Head(s) \in S /\ Tail(s) \in Seq(S) /\ Len(Tail(s)) = Len(s) - 1
      /\ \A i \in 1..Len(s) - 1 : Tail(s)[i] = s[i + 1]
  BY HeadTailProperties
<1>3. Head(s) = s[1]
  OBVIOUS
<1>4. <<s[1]>> = SubSeq(s, 1, 1) /\ Tail(s) = SubSeq(s, 2, Len(s))
  <2>1. SubSeq(s, 1, 1) \in Seq(S) /\ Len(SubSeq(s, 1, 1)) = 1 /\ SubSeq(s, 1, 1)[1] = s[1]
    BY <1>1, SplitElements
  <2>2. <<s[1]>> \in Seq(S) /\ Len(<<s[1]>>) = 1 /\ <<s[1]>>[1] = s[1]
    BY <1>2, <1>3
  <2> QED BY <2>1, <2>2, SeqEqual, TailIsSubSeq
<1>5. /\ ToSet(s) = ToSet(<<s[1]>>) \cup ToSet(Tail(s))
      /\ IsInjective(s) <=> /\ IsInjective(<<s[1]>>) /\ IsInjective(Tail(s))
                            /\ ToSet(<<s[1]>>) \cap ToSet(Tail(s)) = {}
  <2> DEFINE a == SubSeq(s, 1, 1)
             b == SubSeq(s, 1 + 1, Len(s))
  <2>1. 1 \in 0..Len(s) /\ b = SubSeq(s, 2, Len(s))
    BY <1>1
  <2>2. /\ ToSet(s) = ToSet(a) \cup ToSet(b)
        /\ IsInjective(s) <=> IsInjective(a) /\ IsInjective(b) /\ ToSet(a) \cap ToSet(b) = {}
    BY <2>1, SplitElements
  <2>3. a = <<s[1]>> /\ b = Tail(s)
    BY <1>4, <2>1
  <2> HIDE DEF a, b
  <2> QED BY <2>2, <2>3
<1>6. ToSet(<<s[1]>>) = {s[1]} /\ IsInjective(<<s[1]>>)
  BY <1>2, <1>3, SingletonElements
<1> QED BY <1>1, <1>2, <1>3, <1>5, <1>6

-----------------------------------------------------------------------------
(* Recursion over the naturals, with the step as a function *)

Iterates(f, base, step) == f[0] = base /\ \A n \in Nat : f[n + 1] = step[<<f[n], n>>]

LEMMA NaturalRecursion ==
  ASSUME NEW S, NEW base \in S, NEW step \in [S \X Nat -> S]
  PROVE  \E f \in [Nat -> S] : Iterates(f, base, step)
<1> DEFINE Rec(h, n) == /\ h \in [0..n -> S] /\ h[0] = base
                        /\ \A i \in 0..n - 1 : h[i + 1] = step[<<h[i], i>>]
<1>1. \A n \in Nat : \E h : Rec(h, n)
  <2> DEFINE T == {n \in Nat : \E h : Rec(h, n)}
  <2>1. 0 \in T
    <3>1. Rec([i \in 0..0 |-> base], 0)
      OBVIOUS
    <3> QED BY <3>1
  <2>2. ASSUME NEW n \in T PROVE n + 1 \in T
    <3>1. PICK h : Rec(h, n)
      BY <2>2
    <3>2. n \in Nat /\ h[n] \in S /\ step[<<h[n], n>>] \in S
      BY <3>1, <2>2
    <3> DEFINE g == [i \in 0..n + 1 |-> IF i = n + 1 THEN step[<<h[n], n>>] ELSE h[i]]
    <3>3. g \in [0..n + 1 -> S]
      BY <3>1, <3>2
    <3>4. g[0] = base
      BY <3>1, <3>2
    <3>5. ASSUME NEW i \in 0..n + 1 - 1 PROVE g[i + 1] = step[<<g[i], i>>]
      <4>1. CASE i = n
        <5>1. g[n + 1] = step[<<h[n], n>>] /\ g[n] = h[n]
          BY <3>2
        <5> HIDE DEF g
        <5> QED BY <4>1, <5>1
      <4>2. CASE i # n
        <5>1. i \in 0..n - 1 /\ i + 1 \in 0..n
          BY <3>2, <3>5, <4>2
        <5>2. g[i + 1] = h[i + 1] /\ g[i] = h[i]
          BY <3>2, <5>1
        <5> QED BY <3>1, <5>1, <5>2
      <4> QED BY <4>1, <4>2
    <3> HIDE DEF g
    <3>6. Rec(g, n + 1)
      BY <3>3, <3>4, <3>5
    <3> HIDE DEF Rec
    <3> QED BY <3>2, <3>6
  <2> HIDE DEF T
  <2>3. T \in SUBSET Nat
    BY DEF T
  <2>4. T = Nat
    BY <2>1, <2>2, <2>3, SetInduction
  <2> QED BY <2>4 DEF T
<1>2. ASSUME NEW m \in Nat, NEW g, Rec(g, m)
      PROVE  \A n \in Nat : \A h : n <= m /\ Rec(h, n) => h[n] = g[n]
  <2> DEFINE T == {n \in Nat : \A h : n <= m /\ Rec(h, n) => h[n] = g[n]}
  <2>1. 0 \in T
    BY <1>2
  <2>2. ASSUME NEW n \in T PROVE n + 1 \in T
    <3>1. ASSUME NEW h, n + 1 <= m, Rec(h, n + 1) PROVE h[n + 1] = g[n + 1]
      <4>1. n \in Nat
        BY <2>2
      <4> DEFINE k == [i \in 0..n |-> h[i]]
      <4>2. Rec(k, n)
        <5>1. k \in [0..n -> S]
          BY <3>1, <4>1
        <5>2. k[0] = base
          BY <3>1, <4>1
        <5>3. ASSUME NEW i \in 0..n - 1 PROVE k[i + 1] = step[<<k[i], i>>]
          BY <3>1, <4>1, <5>3
        <5> QED BY <5>1, <5>2, <5>3
      <4>3. k[n] = g[n] /\ k[n] = h[n]
        <5>1. n <= m /\ \A x : n <= m /\ Rec(x, n) => x[n] = g[n]
          BY <2>2, <3>1, <4>1
        <5>2. k[n] = h[n]
          BY <4>1
        <5> HIDE DEF k, Rec
        <5> QED BY <4>2, <5>1, <5>2
      <4>4. n \in 0..n + 1 - 1 /\ n \in 0..m - 1
        BY <3>1, <4>1
      <4>5. h[n + 1] = step[<<h[n], n>>]
        BY <3>1, <4>4
      <4>6. g[n + 1] = step[<<g[n], n>>]
        BY <1>2, <4>4
      <4> QED BY <4>3, <4>5, <4>6
    <3> QED BY <2>2, <3>1
  <2> HIDE DEF T
  <2>3. T \in SUBSET Nat
    BY DEF T
  <2>4. T = Nat
    BY <2>1, <2>2, <2>3, SetInduction
  <2> QED BY <2>4 DEF T
<1> DEFINE H(n) == CHOOSE h : Rec(h, n)
           f == [n \in Nat |-> H(n)[n]]
<1>3. \A n \in Nat : Rec(H(n), n)
  <2> HIDE DEF Rec
  <2> QED BY <1>1
<1>4. f \in [Nat -> S]
  <2>1. ASSUME NEW n \in Nat PROVE H(n)[n] \in S
    <3>1. Rec(H(n), n)
      BY <1>3
    <3> HIDE DEF H
    <3> QED BY <3>1
  <2> HIDE DEF H
  <2> QED BY <2>1
<1>5. f[0] = base
  BY <1>3
<1>6. ASSUME NEW n \in Nat PROVE f[n + 1] = step[<<f[n], n>>]
  <2>1. Rec(H(n), n) /\ Rec(H(n + 1), n + 1)
    <3> HIDE DEF Rec, H
    <3>1. n + 1 \in Nat
      OBVIOUS
    <3> QED BY <1>3, <3>1
  <2>2. H(n)[n] = H(n + 1)[n]
    <3> HIDE DEF Rec, H
    <3> QED BY <1>2, <2>1
  <2>3. n \in 0..n + 1 - 1
    OBVIOUS
  <2>4. H(n + 1)[n + 1] = step[<<H(n + 1)[n], n>>]
    <3> HIDE DEF H
    <3> QED BY <2>1, <2>3
  <2> HIDE DEF H
  <2> QED BY <2>2, <2>4
<1>7. Iterates(f, base, step)
  <2> HIDE DEF f
  <2> QED BY <1>5, <1>6 DEF Iterates
<1> HIDE DEF f
<1> QED BY <1>4, <1>7

-----------------------------------------------------------------------------
(* Folding a sequence *)

LEMMA MaxOfPrefix ==
  ASSUME NEW n \in Nat
  PROVE  1..n + 1 # {} /\ Max(1..n + 1) = n + 1 /\ (1..n + 1) \ {n + 1} = 1..n
<1>1. n + 1 \in 1..n + 1 /\ \A y \in 1..n + 1 : n + 1 >= y
  OBVIOUS
<1>2. Max(1..n + 1) \in 1..n + 1 /\ \A y \in 1..n + 1 : Max(1..n + 1) >= y
  BY <1>1 DEF Max
<1>3. Max(1..n + 1) = n + 1
  BY <1>1, <1>2
<1> QED BY <1>3

\* A set of numbers up to n that is not empty has a greatest element.
LEMMA MaxInSet ==
  ASSUME NEW n \in Nat, NEW s \in SUBSET (1..n), s # {}
  PROVE  Max(s) \in s /\ \A y \in s : Max(s) >= y
<1> DEFINE T == {n - x : x \in s}
<1>1. T \in SUBSET Nat /\ T # {}
  <2>1. \A x \in s : n - x \in Nat
    OBVIOUS
  <2>2. PICK x \in s : TRUE
    OBVIOUS
  <2>3. n - x \in T
    OBVIOUS
  <2> QED BY <2>1, <2>3
<1>2. PICK m \in T : \A k \in T : m <= k
  <2> HIDE DEF T
  <2> QED BY <1>1, LeastNatural
<1>3. PICK x \in s : m = n - x
  BY <1>2
<1>4. \A y \in s : x >= y
  <2>1. ASSUME NEW y \in s PROVE x >= y
    <3>1. n - y \in T /\ n - x <= n - y
      BY <1>2, <1>3
    <3>2. x \in Int /\ y \in Int
      OBVIOUS
    <3> HIDE DEF T
    <3> QED BY <3>1, <3>2
  <2> QED BY <2>1
<1> QED BY <1>4 DEF Max

\* Among some sets of numbers up to n there is one that no other extends by a number.
LEMMA LargestSet ==
  ASSUME NEW n \in Nat, NEW family \in SUBSET (SUBSET (1..n)), family # {}
  PROVE  \E set \in family : \A x \in 1..n \ set : set \cup {x} \notin family
<1> DEFINE Missing(set) == n - Cardinality(set)
           sizes == {Missing(set) : set \in family}
<1>1. IsFiniteSet(1..n) /\ Cardinality(1..n) = n
  BY FS_Interval
<1>2. ASSUME NEW set \in SUBSET (1..n)
      PROVE  IsFiniteSet(set) /\ Cardinality(set) \in Nat /\ Missing(set) \in Nat
  <2> DEFINE all == 1..n
  <2>0. set \in SUBSET all /\ IsFiniteSet(all) /\ Cardinality(all) = n
    BY <1>1
  <2> HIDE DEF all
  <2>1. IsFiniteSet(set) /\ Cardinality(set) <= n
    BY <2>0, FS_Subset
  <2>2. Cardinality(set) \in Nat
    BY <2>1, FS_CardinalityType
  <2> QED BY <2>1, <2>2
<1>3. sizes \in SUBSET Nat /\ sizes # {}
  BY <1>2
<1>4. PICK least \in sizes : \A size \in sizes : least <= size
  <2> HIDE DEF sizes
  <2> QED BY <1>3, LeastNatural
<1>5. PICK set \in family : least = Missing(set)
  BY <1>4
<1>6. ASSUME NEW x \in 1..n \ set, set \cup {x} \in family PROVE FALSE
  <2>1. Missing(set) <= Missing(set \cup {x})
    BY <1>4, <1>5, <1>6
  <2>2. Cardinality(set \cup {x}) = Cardinality(set) + 1
    BY <1>2, <1>6, FS_AddElement
  <2>3. Cardinality(set) \in Nat
    BY <1>2
  <2> QED BY <2>1, <2>2, <2>3
<1> QED BY <1>6

\* The recursion by which FoldLeft goes through the positions of a sequence.
Folds(it, op, base, seq) ==
  \A s \in SUBSET DOMAIN seq :
    it[s] = IF s = {} THEN base ELSE op[<<it[s \ {Max(s)}], seq[Max(s)]>>]

LEMMA FoldRecursion ==
  ASSUME NEW S, NEW T, NEW seq \in Seq(T), NEW base \in S, NEW op \in [S \X T -> S]
  PROVE  \E it \in [SUBSET DOMAIN seq -> S] : Folds(it, op, base, seq)
<1> DEFINE n == Len(seq)
           D == 1..n
<1>1. n \in Nat /\ DOMAIN seq = D /\ \A i \in D : seq[i] \in T
  BY SequenceFacts
<1> DEFINE V == [SUBSET D -> S]
           Step(v) == [s \in SUBSET D |-> IF s = {} THEN base
                                          ELSE op[<<v[s \ {Max(s)}], seq[Max(s)]>>]]
           start == [s \in SUBSET D |-> base]
           step == [p \in V \X Nat |-> Step(p[1])]
<1> HIDE DEF n
<1>2. ASSUME NEW s \in SUBSET D, s # {} PROVE Max(s) \in s /\ s \ {Max(s)} \in SUBSET D
  BY <1>1, <1>2, MaxInSet
<1>3. \A v \in V : Step(v) \in V
  <2> SUFFICES ASSUME NEW v \in V PROVE Step(v) \in V
    OBVIOUS
  <2>1. ASSUME NEW s \in SUBSET D, s # {} PROVE op[<<v[s \ {Max(s)}], seq[Max(s)]>>] \in S
    <3>1. Max(s) \in D /\ s \ {Max(s)} \in SUBSET D
      BY <1>2, <2>1
    <3>2. v[s \ {Max(s)}] \in S /\ seq[Max(s)] \in T
      BY <1>1, <3>1
    <3> QED BY <3>2
  <2> QED BY <2>1
<1>4. start \in V
  OBVIOUS
<1>5. step \in [V \X Nat -> V]
  <2> HIDE DEF V, Step
  <2> QED BY <1>3
<1>6. PICK f \in [Nat -> V] : f[0] = start /\ \A k \in Nat : f[k + 1] = step[<<f[k], k>>]
  <2> HIDE DEF D, Step, V, start, step
  <2>1. start \in V /\ step \in [V \X Nat -> V]
    BY <1>4, <1>5
  <2>2. PICK h \in [Nat -> V] : Iterates(h, start, step)
    BY <2>1, NaturalRecursion
  <2> QED BY <2>2 DEF Iterates
<1>7. \A k \in Nat : f[k] \in V /\ f[k + 1] = Step(f[k])
  <2> HIDE DEF V, Step
  <2> QED BY <1>6
\* From the k-th round on, the value for a set of positions up to k stays.
<1>8. \A k \in Nat : \A s \in SUBSET D : s \subseteq 1..k => f[k + 1][s] = f[k][s]
  <2> DEFINE G == {k \in Nat : \A s \in SUBSET D : s \subseteq 1..k => f[k + 1][s] = f[k][s]}
  <2>1. 0 \in G
    <3>1. ASSUME NEW s \in SUBSET D, s \subseteq 1..0 PROVE f[0 + 1][s] = f[0][s]
      <4>1. s = {}
        BY <3>1
      <4>2. f[0 + 1] = Step(f[0])
        BY <1>7
      <4> QED BY <1>6, <4>1, <4>2
    <3> QED BY <3>1
  <2>2. ASSUME NEW k \in G PROVE k + 1 \in G
    <3>1. k \in Nat /\ k + 1 \in Nat
      BY <2>2
    <3>2. ASSUME NEW s \in SUBSET D, s \subseteq 1..k + 1 PROVE f[k + 1 + 1][s] = f[k + 1][s]
      <4> DEFINE r == s \ {Max(s)}
      <4>1. f[k + 1 + 1] = Step(f[k + 1]) /\ f[k + 1] = Step(f[k])
        BY <1>7, <3>1
      <4>2. CASE s = {}
        BY <4>1, <4>2
      <4>3. CASE s # {}
        <5>1. Max(s) \in s /\ \A y \in s : Max(s) >= y
          BY <1>1, <4>3, MaxInSet
        <5>2. r \in SUBSET D /\ r \subseteq 1..k
          <6>1. ASSUME NEW y \in r PROVE y \in 1..k
            <7>1. y \in 1..k + 1 /\ Max(s) \in 1..k + 1 /\ Max(s) >= y /\ y # Max(s)
              BY <3>2, <5>1, <6>1
            <7> HIDE DEF r
            <7> QED BY <3>1, <7>1
          <6> QED BY <6>1
        <5>3. f[k + 1][r] = f[k][r]
          <6> HIDE DEF r
          <6> QED BY <2>2, <5>2
        <5>4. f[k + 1 + 1][s] = op[<<f[k + 1][r], seq[Max(s)]>>]
          BY <4>1, <4>3
        <5>5. f[k + 1][s] = op[<<f[k][r], seq[Max(s)]>>]
          BY <4>1, <4>3
        <5> HIDE DEF r
        <5> QED BY <5>3, <5>4, <5>5
      <4> QED BY <4>2, <4>3
    <3> QED BY <3>1, <3>2
  <2> HIDE DEF G
  <2>3. G \in SUBSET Nat
    BY DEF G
  <2>4. G = Nat
    BY <2>1, <2>2, <2>3, SetInduction
  <2> QED BY <2>4 DEF G
<1>9. f[n] \in V
  BY <1>1, <1>7
<1>10. ASSUME NEW s \in SUBSET D
       PROVE  f[n][s] = IF s = {} THEN base ELSE op[<<f[n][s \ {Max(s)}], seq[Max(s)]>>]
  <2>1. f[n + 1][s] = f[n][s]
    BY <1>1, <1>8
  <2>2. f[n + 1] = Step(f[n])
    BY <1>1, <1>7
  <2> QED BY <2>1, <2>2
<1>11. Folds(f[n], op, base, seq)
  BY <1>1, <1>10 DEF Folds
<1>12. f[n] \in [SUBSET DOMAIN seq -> S]
  BY <1>1, <1>9
<1> QED BY <1>11, <1>12

\* What the fold has accumulated after each prefix of the sequence.
Accumulates(p, op, base, seq) ==
  p[0] = base /\ \A k \in 0..Len(seq) - 1 : p[k + 1] = op[<<p[k], seq[k + 1]>>]

FoldsIn(S, it, op, base, seq) == it \in [SUBSET DOMAIN seq -> S] /\ Folds(it, op, base, seq)

LEMMA FoldPrefixes ==
  ASSUME NEW S, NEW T, NEW seq \in Seq(T), NEW base, NEW op,
         NEW it, FoldsIn(S, it, op, base, seq),
         NEW p, p = [k \in 0..Len(seq) |-> it[1..k]]
  PROVE  /\ p \in [0..Len(seq) -> S] /\ Accumulates(p, op, base, seq)
         /\ p[Len(seq)] = it[DOMAIN seq]
<1> DEFINE n == Len(seq)
<1> USE DEF FoldsIn
<1>1. n \in Nat /\ DOMAIN seq = 1..n
  BY SequenceFacts
<1> HIDE DEF n
<1>2. \A k \in 0..n : 1..k \in SUBSET DOMAIN seq
  BY <1>1
<1>3. p \in [0..n -> S] /\ p[n] = it[DOMAIN seq]
  BY <1>1, <1>2
<1>4. p[0] = base
  <2>1. 1..0 = {} /\ 0 \in 0..n /\ {} \in SUBSET DOMAIN seq
    BY <1>1
  <2> QED BY <2>1 DEF Folds
<1>5. ASSUME NEW k \in 0..n - 1 PROVE p[k + 1] = op[<<p[k], seq[k + 1]>>]
  <2>1. k \in Nat /\ k \in 0..n /\ k + 1 \in 0..n /\ 1..k + 1 \in SUBSET DOMAIN seq
    BY <1>1
  <2>2. 1..k + 1 # {} /\ Max(1..k + 1) = k + 1 /\ (1..k + 1) \ {k + 1} = 1..k
    BY <2>1, MaxOfPrefix
  <2>3. it[1..k + 1] = op[<<it[1..k], seq[k + 1]>>]
    BY <2>1, <2>2 DEF Folds
  <2>4. p[k] = it[1..k] /\ p[k + 1] = it[1..k + 1]
    BY <2>1 DEF n
  <2> QED BY <2>3, <2>4
<1> QED BY <1>3, <1>4, <1>5 DEF Accumulates, n

-----------------------------------------------------------------------------
(* Sums that do not depend on the order *)

\* p[k] is the sum of the first k of the n numbers h.
Sums(p, n, h) ==
  p \in [0..n -> Nat] /\ p[0] = 0 /\ \A k \in 0..n - 1 : p[k + 1] = p[k] + h[k + 1]

LEMMA SumsExist ==
  ASSUME NEW n \in Nat, NEW h \in [1..n -> Nat]
  PROVE  \E p : Sums(p, n, h)
<1> DEFINE add == [x \in Nat \X Nat |-> x[1] + IF x[2] + 1 <= n THEN h[x[2] + 1] ELSE 0]
<1>1. add \in [Nat \X Nat -> Nat]
  <2>1. ASSUME NEW v \in Nat, NEW k \in Nat
        PROVE  v + (IF k + 1 <= n THEN h[k + 1] ELSE 0) \in Nat
    <3>1. CASE k + 1 <= n
      <4>1. h[k + 1] \in Nat
        BY <3>1
      <4> QED BY <3>1, <4>1
    <3> QED BY <3>1
  <2> QED BY <2>1
<1>2. PICK f \in [Nat -> Nat] : Iterates(f, 0, add)
  <2> HIDE DEF add
  <2> QED BY <1>1, NaturalRecursion
<1> DEFINE p == [k \in 0..n |-> f[k]]
<1>3. p \in [0..n -> Nat] /\ p[0] = 0
  BY <1>2 DEF Iterates
<1>4. ASSUME NEW k \in 0..n - 1 PROVE p[k + 1] = p[k] + h[k + 1]
  <2>1. k \in Nat /\ k + 1 <= n /\ f[k] \in Nat
    BY <1>2
  <2>2. f[k + 1] = add[<<f[k], k>>]
    BY <1>2, <2>1 DEF Iterates
  <2>3. add[<<f[k], k>>] = f[k] + h[k + 1]
    BY <2>1
  <2>4. k \in 0..n /\ k + 1 \in 0..n
    BY <2>1
  <2> HIDE DEF add
  <2> QED BY <2>2, <2>3, <2>4
<1> QED BY <1>3, <1>4 DEF Sums

LEMMA SumsUnique ==
  ASSUME NEW n \in Nat, NEW h, NEW p, NEW q, Sums(p, n, h), Sums(q, n, h)
  PROVE  p[n] = q[n]
<1> DEFINE G == {k \in Nat : k <= n => p[k] = q[k]}
<1>1. 0 \in G
  BY DEF Sums
<1>2. ASSUME NEW k \in G PROVE k + 1 \in G
  <2>1. k \in Nat /\ k + 1 \in Nat
    BY <1>2
  <2>2. CASE k + 1 <= n
    <3>1. k \in 0..n - 1 /\ p[k] = q[k]
      BY <1>2, <2>1, <2>2
    <3> QED BY <2>1, <3>1 DEF Sums
  <2> QED BY <2>1, <2>2
<1> HIDE DEF G
<1>3. G = Nat
  <2>1. G \in SUBSET Nat
    BY DEF G
  <2> QED BY <1>1, <1>2, <2>1, SetInduction
<1> QED BY <1>3 DEF G

\* The k-th of n + 1 numbers taken out.
Skipping(h, k, n) == [i \in 1..n |-> IF i < k THEN h[i] ELSE h[i + 1]]

LEMMA SumWithout ==
  ASSUME NEW n \in Nat, NEW h \in [1..n + 1 -> Nat], NEW k \in 1..n + 1,
         NEW p, Sums(p, n + 1, h), NEW q, Sums(q, n, Skipping(h, k, n))
  PROVE  p[n + 1] = q[n] + h[k]
<1> DEFINE g == Skipping(h, k, n)
           G == {j \in Nat : j <= n + 1 => p[j] = IF j < k THEN q[j] ELSE q[j - 1] + h[k]}
<1>1. Sums(p, n + 1, h) /\ Sums(q, n, g)
  OBVIOUS
<1>2. g \in [1..n -> Nat] /\ \A i \in 1..n : g[i] = IF i < k THEN h[i] ELSE h[i + 1]
  BY DEF Skipping
<1> HIDE DEF g
<1>3. 0 \in G
  BY <1>1 DEF Sums
<1>4. ASSUME NEW j \in G PROVE j + 1 \in G
  <2>1. j \in Nat /\ j + 1 \in Nat
    BY <1>4
  <2>2. SUFFICES ASSUME j + 1 <= n + 1
                 PROVE  p[j + 1] = IF j + 1 < k THEN q[j + 1] ELSE q[j + 1 - 1] + h[k]
    BY <2>1
  <2>3. p[j] = IF j < k THEN q[j] ELSE q[j - 1] + h[k]
    BY <1>4, <2>1, <2>2
  <2>4. j \in 0..n + 1 - 1 /\ j + 1 \in 1..n + 1 /\ j \in 0..n
    BY <2>1, <2>2
  <2>5. p[j + 1] = p[j] + h[j + 1] /\ h[j + 1] \in Nat /\ h[k] \in Nat
    BY <1>1, <2>4 DEF Sums
  <2>6. CASE j + 1 < k
    <3>1. j \in 0..n - 1 /\ j + 1 \in 1..n
      BY <2>1, <2>6
    <3>2. q[j + 1] = q[j] + g[j + 1] /\ g[j + 1] = h[j + 1]
      BY <1>1, <1>2, <2>1, <2>6, <3>1 DEF Sums
    <3> QED BY <2>1, <2>3, <2>5, <2>6, <3>2
  <2>7. CASE j + 1 = k
    <3>1. q[j] \in Nat /\ j + 1 - 1 = j
      BY <1>1, <2>1, <2>4 DEF Sums
    <3> QED BY <2>1, <2>3, <2>5, <2>7, <3>1
  <2>8. CASE j + 1 > k
    <3>1. j \in 1..n /\ j - 1 \in 0..n - 1 /\ ~ (j < k) /\ j - 1 \in 0..n /\ j - 1 + 1 = j /\ j + 1 - 1 = j
      BY <2>1, <2>2, <2>8
    <3>2. q[j - 1 + 1] = q[j - 1] + g[j - 1 + 1]
      BY <1>1, <3>1 DEF Sums
    <3>3. g[j] = h[j + 1] /\ q[j - 1] \in Nat
      BY <1>1, <1>2, <3>1 DEF Sums
    <3>4. q[j] = q[j - 1] + h[j + 1] /\ p[j] = q[j - 1] + h[k]
      BY <2>3, <3>1, <3>2, <3>3
    <3>5. p[j + 1] = q[j] + h[k]
      BY <2>5, <3>3, <3>4
    <3> QED BY <2>1, <2>8, <3>1, <3>5
  <2> QED BY <2>1, <2>6, <2>7, <2>8
<1> HIDE DEF G
<1>5. G = Nat
  <2>1. G \in SUBSET Nat
    BY DEF G
  <2> QED BY <1>3, <1>4, <2>1, SetInduction
<1>6. n + 1 \in G /\ ~ (n + 1 < k) /\ n + 1 - 1 = n
  BY <1>5
<1> QED BY <1>6 DEF G

Permutation(p, n) ==
  /\ p \in [1..n -> 1..n]
  /\ \A i, j \in 1..n : p[i] = p[j] => i = j
  /\ \A j \in 1..n : \E i \in 1..n : p[i] = j

\* A permutation without the place that goes to the last one.
LEMMA PermutationWithout ==
  ASSUME NEW n \in Nat, NEW p, Permutation(p, n + 1), NEW k \in 1..n + 1, p[k] = n + 1
  PROVE  Permutation([i \in 1..n |-> IF i < k THEN p[i] ELSE p[i + 1]], n)
<1> DEFINE q == [i \in 1..n |-> IF i < k THEN p[i] ELSE p[i + 1]]
<1>1. ASSUME NEW i \in 1..n PROVE q[i] \in 1..n
  <2>1. i \in 1..n + 1 /\ i + 1 \in 1..n + 1
    OBVIOUS
  <2>2. CASE i < k
    <3>1. p[i] \in 1..n + 1 /\ p[i] # n + 1
      <4>1. i # k
        BY <2>2
      <4> QED BY <2>1, <4>1 DEF Permutation
    <3> QED BY <2>2, <3>1
  <2>3. CASE ~ (i < k)
    <3>1. p[i + 1] \in 1..n + 1 /\ p[i + 1] # n + 1
      <4>1. i + 1 # k
        BY <2>3
      <4> QED BY <2>1, <4>1 DEF Permutation
    <3> QED BY <2>3, <3>1
  <2> QED BY <2>2, <2>3
<1>2. ASSUME NEW i \in 1..n, NEW j \in 1..n, q[i] = q[j] PROVE i = j
  <2>1. i \in 1..n + 1 /\ i + 1 \in 1..n + 1 /\ j \in 1..n + 1 /\ j + 1 \in 1..n + 1
    OBVIOUS
  <2>2. \A a, b \in 1..n + 1 : p[a] = p[b] => a = b
    BY DEF Permutation
  <2> QED BY <1>2, <2>1, <2>2
<1>3. ASSUME NEW j \in 1..n PROVE \E i \in 1..n : q[i] = j
  <2>1. PICK i \in 1..n + 1 : p[i] = j
    BY DEF Permutation
  <2>2. i # k
    BY <2>1
  <2>3. CASE i < k
    <3>1. i \in 1..n /\ q[i] = j
      BY <2>1, <2>3
    <3> QED BY <3>1
  <2>4. CASE i > k
    <3>1. i - 1 \in 1..n /\ ~ (i - 1 < k) /\ i - 1 + 1 = i
      BY <2>4
    <3>2. q[i - 1] = j
      BY <2>1, <3>1
    <3> QED BY <3>1, <3>2
  <2> QED BY <2>2, <2>3, <2>4
<1> QED BY <1>1, <1>2, <1>3 DEF Permutation

\* The sum of n numbers is the same in any order.
LEMMA SumPermuted ==
  ASSUME NEW m \in Nat
  PROVE  \A h \in [1..m -> Nat] : \A pi, p, q :
           Permutation(pi, m) /\ Sums(p, m, h) /\ Sums(q, m, [i \in 1..m |-> h[pi[i]]])
             => p[m] = q[m]
<1> DEFINE Same(n) == \A h \in [1..n -> Nat] : \A pi, p, q :
             Permutation(pi, n) /\ Sums(p, n, h) /\ Sums(q, n, [i \in 1..n |-> h[pi[i]]])
               => p[n] = q[n]
           G == {n \in Nat : Same(n)}
<1>1. 0 \in G
  BY DEF Sums
<1>2. ASSUME NEW n \in G PROVE n + 1 \in G
  <2>1. n \in Nat /\ Same(n) /\ n + 1 \in Nat
    BY <1>2, SMTT(20)
  <2> HIDE DEF Same
  <2>2. ASSUME NEW h \in [1..n + 1 -> Nat], NEW pi, NEW p, NEW q,
               Permutation(pi, n + 1), Sums(p, n + 1, h),
               Sums(q, n + 1, [i \in 1..n + 1 |-> h[pi[i]]])
        PROVE  p[n + 1] = q[n + 1]
    <3> DEFINE H == [i \in 1..n + 1 |-> h[pi[i]]]
    <3>1. H \in [1..n + 1 -> Nat] /\ Sums(q, n + 1, H)
      BY <2>2 DEF Permutation
    <3>2. n + 1 \in 1..n + 1
      BY <2>1
    <3>3. PICK k \in 1..n + 1 : pi[k] = n + 1
      BY <2>2, <3>2 DEF Permutation
    <3> DEFINE sigma == [i \in 1..n |-> IF i < k THEN pi[i] ELSE pi[i + 1]]
               short == [i \in 1..n |-> h[i]]
               G2 == [i \in 1..n |-> short[sigma[i]]]
               H2 == Skipping(H, k, n)
               low == [j \in 0..n |-> p[j]]
    <3>4. Permutation(sigma, n)
      BY <2>1, <2>2, <3>3, PermutationWithout
    <3>5. short \in [1..n -> Nat] /\ H2 = G2
      <4>1. short \in [1..n -> Nat]
        BY <2>1
      <4>2. ASSUME NEW i \in 1..n PROVE H2[i] = G2[i]
        <5>1. i \in 1..n + 1 /\ i + 1 \in 1..n + 1 /\ sigma[i] \in 1..n
          BY <2>1, <3>4 DEF Permutation
        <5>2. short[sigma[i]] = h[sigma[i]]
          <6> HIDE DEF sigma
          <6> QED BY <5>1
        <5>3. H2[i] = h[sigma[i]]
          BY <5>1 DEF Skipping
        <5> QED BY <5>2, <5>3
      <4> QED BY <4>1, <4>2 DEF Skipping
    <3>6. H2 \in [1..n -> Nat]
      BY <2>1, <3>1 DEF Skipping
    <3>7. PICK r : Sums(r, n, H2)
      <4> HIDE DEF H2
      <4> QED BY <2>1, <3>6, SumsExist
    <3>8. q[n + 1] = r[n] + H[k]
      <4> HIDE DEF H
      <4>1. n \in Nat /\ H \in [1..n + 1 -> Nat] /\ k \in 1..n + 1
        BY <2>1, <3>1, <3>3
      <4>2. \A a, b : Sums(a, n + 1, H) /\ Sums(b, n, Skipping(H, k, n)) => a[n + 1] = b[n] + H[k]
        BY <4>1, SumWithout, ZenonT(30)
      <4> QED BY <3>1, <3>7, <4>2
    <3>9. H[k] = h[n + 1]
      BY <3>3
    <3>10. Sums(low, n, short)
      <4>1. low \in [0..n -> Nat] /\ low[0] = 0
        BY <2>1, <2>2 DEF Sums
      <4>2. ASSUME NEW j \in 0..n - 1 PROVE low[j + 1] = low[j] + short[j + 1]
        <5>1. j \in 0..n + 1 - 1 /\ j \in 0..n /\ j + 1 \in 0..n /\ j + 1 \in 1..n
          BY <2>1
        <5>2. p[j + 1] = p[j] + h[j + 1]
          BY <2>2, <5>1 DEF Sums
        <5> QED BY <5>1, <5>2
      <4> HIDE DEF low, short
      <4> QED BY <4>1, <4>2 DEF Sums
    <3>11. low[n] = r[n]
      <4>1. Sums(r, n, G2)
        BY <3>5, <3>7
      <4> HIDE DEF low, short, sigma
      <4> QED BY <2>1, <3>4, <3>5, <3>10, <4>1 DEF Same
    <3>12. p[n + 1] = p[n] + h[n + 1] /\ low[n] = p[n]
      <4>1. n \in 0..n + 1 - 1 /\ n \in 0..n
        BY <2>1
      <4> QED BY <2>2, <4>1 DEF Sums
    <3> QED BY <3>8, <3>9, <3>11, <3>12
  <2>3. Same(n + 1)
    BY <2>2 DEF Same
  <2> QED BY <2>1, <2>3
<1> HIDE DEF G, Same
<1>3. G = Nat
  <2>1. G \in SUBSET Nat
    BY DEF G
  <2> QED BY <1>1, <1>2, <2>1, SetInduction
<1> QED BY <1>3 DEF G, Same

Rearranges(p, s, t) == Permutation(p, Len(s)) /\ \A i \in 1..Len(s) : t[i] = s[p[i]]

\* Two sequences with the same elements, as often each, are permutations of each other.
LEMMA SameBagPermutes ==
  ASSUME NEW S, NEW s \in Seq(S), NEW t \in Seq(S), ToBag(t) = ToBag(s), Len(t) = Len(s)
  PROVE  \E pi : Rearranges(pi, s, t)
<1> DEFINE n == Len(s)
           At(u, x) == {i \in 1..n : u[i] = x}
           beta(x) == CHOOSE b : b \in Bijection(At(t, x), At(s, x))
           pi == [i \in 1..n |-> beta(t[i])[i]]
<1>1. n \in Nat /\ DOMAIN s = 1..n /\ DOMAIN t = 1..n
  BY SequenceFacts
<1>2. \A x : IsFiniteSet(At(s, x)) /\ IsFiniteSet(At(t, x))
  <2>1. IsFiniteSet(1..n)
    BY <1>1, FS_Interval
  <2> HIDE DEF n
  <2> QED BY <2>1, FS_Subset
<1>3. Range(s) = Range(t)
  <2>1. DOMAIN ToBag(s) = Range(s) /\ DOMAIN ToBag(t) = Range(t)
    BY DEF ToBag
  <2> QED BY <2>1
<1>4. ASSUME NEW x \in Range(s) PROVE beta(x) \in Bijection(At(t, x), At(s, x))
  <2>1. ToBag(s)[x] = Cardinality(At(s, x)) /\ ToBag(t)[x] = Cardinality(At(t, x))
    BY <1>1, <1>3 DEF ToBag
  <2> HIDE DEF At
  <2>2. Bijection(At(t, x), At(s, x)) # {}
    BY <1>2, <2>1, FS_SameCardinalityBij DEF ExistsBijection
  <2> QED BY <2>2
<1>5. \A i \in 1..n : t[i] \in Range(s) /\ s[i] \in Range(s)
  BY <1>1, <1>3 DEF Range
<1>6. ASSUME NEW i \in 1..n PROVE pi[i] \in 1..n /\ t[i] = s[pi[i]]
  <2>1. beta(t[i]) \in [At(t, t[i]) -> At(s, t[i])]
    BY <1>4, <1>5 DEF Bijection, Injection
  <2>2. i \in At(t, t[i])
    OBVIOUS
  <2>3. pi[i] \in At(s, t[i])
    <3> HIDE DEF beta, At
    <3> QED BY <2>1, <2>2
  <2> QED BY <2>3
<1>7. ASSUME NEW i \in 1..n, NEW j \in 1..n, pi[i] = pi[j] PROVE i = j
  <2>1. t[i] = t[j]
    BY <1>6, <1>7
  <2>2. \A a, b \in At(t, t[i]) : beta(t[i])[a] = beta(t[i])[b] => a = b
    <3> HIDE DEF beta, At
    <3>1. beta(t[i]) \in Bijection(At(t, t[i]), At(s, t[i]))
      BY <1>4, <1>5
    <3> QED BY <3>1 DEF Bijection, Injection, IsInjective
  <2>3. beta(t[i])[i] = beta(t[i])[j]
    BY <1>7, <2>1
  <2>4. i \in At(t, t[i]) /\ j \in At(t, t[i])
    BY <2>1
  <2> HIDE DEF beta, At
  <2> QED BY <2>2, <2>3, <2>4
<1>8. ASSUME NEW j \in 1..n PROVE \E i \in 1..n : pi[i] = j
  <2>1. j \in At(s, s[j])
    OBVIOUS
  <2>2. PICK i \in At(t, s[j]) : beta(s[j])[i] = j
    <3> HIDE DEF beta, At
    <3> QED BY <1>4, <1>5, <2>1 DEF Bijection, Surjection
  <2>3. i \in 1..n /\ t[i] = s[j]
    OBVIOUS
  <2>4. pi[i] = beta(s[j])[i]
    BY <2>3
  <2> HIDE DEF pi
  <2> QED BY <2>2, <2>3, <2>4
<1>9. pi \in [1..n -> 1..n]
  BY <1>6
<1>10. Permutation(pi, n)
  <2> HIDE DEF pi, n
  <2> QED BY <1>7, <1>8, <1>9 DEF Permutation
<1> HIDE DEF pi
<1> QED BY <1>6, <1>10 DEF Rearranges

-----------------------------------------------------------------------------
(* Where the elements of a sequence are *)

\* g finds for every place in P the position, up to n, of its element in src.
IsTrace(g, P, at, src, n) ==
  /\ g \in [P -> 1..n]
  /\ \A p, q \in P : g[p] = g[q] => p = q
  /\ \A j \in 1..n : \E p \in P : g[p] = j
  /\ \A p \in P : at[p] = src[g[p]]

Traced(P, at, src, n) == \E g : IsTrace(g, P, at, src, n)

\* Nothing is lost when every place has its element from a place of its own before.
LEMMA TraceRenamed ==
  ASSUME NEW P, NEW at, NEW src, NEW n, Traced(P, at, src, n),
         NEW P2, NEW at2, NEW h \in [P2 -> P],
         \A p, q \in P2 : h[p] = h[q] => p = q,
         \A p \in P : \E q \in P2 : h[q] = p,
         \A p \in P2 : at2[p] = at[h[p]]
  PROVE  Traced(P2, at2, src, n)
<1>1. PICK g : IsTrace(g, P, at, src, n)
  BY DEF Traced
<1> DEFINE g2 == [p \in P2 |-> g[h[p]]]
<1>2. g2 \in [P2 -> 1..n]
  BY <1>1 DEF IsTrace
<1>3. \A p, q \in P2 : g2[p] = g2[q] => p = q
  BY <1>1 DEF IsTrace
<1>4. ASSUME NEW j \in 1..n PROVE \E q \in P2 : g2[q] = j
  <2>1. PICK p \in P : g[p] = j
    BY <1>1 DEF IsTrace
  <2>2. PICK q \in P2 : h[q] = p
    OBVIOUS
  <2> QED BY <2>1, <2>2
<1>5. \A p \in P2 : at2[p] = src[g2[p]]
  BY <1>1 DEF IsTrace
<1> HIDE DEF g2
<1>6. IsTrace(g2, P2, at2, src, n)
  BY <1>2, <1>3, <1>4, <1>5 DEF IsTrace
<1> QED BY <1>6 DEF Traced

\* An element moves from place a to place b.
LEMMA TraceMoved ==
  ASSUME NEW P, NEW at, NEW src, NEW n, Traced(P, at, src, n),
         NEW a \in P, NEW b, b \notin P,
         NEW P2, P2 = (P \ {a}) \cup {b},
         NEW at2, at2[b] = at[a], \A p \in P \ {a} : at2[p] = at[p]
  PROVE  Traced(P2, at2, src, n)
<1> DEFINE h == [p \in P2 |-> IF p = b THEN a ELSE p]
<1>1. h \in [P2 -> P]
  OBVIOUS
<1>2. \A p, q \in P2 : h[p] = h[q] => p = q
  OBVIOUS
<1>3. \A p \in P : \E q \in P2 : h[q] = p
  <2>1. h[b] = a /\ b \in P2
    OBVIOUS
  <2>2. \A p \in P \ {a} : p \in P2 /\ h[p] = p
    OBVIOUS
  <2> HIDE DEF h
  <2> QED BY <2>1, <2>2
<1>4. \A p \in P2 : at2[p] = at[h[p]]
  OBVIOUS
<1> HIDE DEF h
<1> QED BY <1>1, <1>2, <1>3, <1>4, TraceRenamed

\* One more element gets a place.
LEMMA TraceAdded ==
  ASSUME NEW P, NEW at, NEW src, NEW n \in Nat, Traced(P, at, src, n),
         NEW b, b \notin P, NEW P2, P2 = P \cup {b},
         NEW at2, at2[b] = src[n + 1], \A p \in P : at2[p] = at[p]
  PROVE  Traced(P2, at2, src, n + 1)
<1>1. PICK g : IsTrace(g, P, at, src, n)
  BY DEF Traced
<1> DEFINE g2 == [p \in P2 |-> IF p = b THEN n + 1 ELSE g[p]]
<1>2. g2[b] = n + 1 /\ \A p \in P : g2[p] = g[p] /\ g[p] \in 1..n
  BY <1>1 DEF IsTrace
<1>3. g2 \in [P2 -> 1..n + 1]
  BY <1>2
<1> HIDE DEF g2
<1>4. ASSUME NEW p \in P2, NEW q \in P2, g2[p] = g2[q] PROVE p = q
  <2>1. \A r \in P : g2[r] # n + 1
    BY <1>2
  <2>2. CASE p \in P /\ q \in P
    BY <1>1, <1>2, <1>4, <2>2 DEF IsTrace
  <2> QED BY <1>2, <1>4, <2>1, <2>2
<1>5. ASSUME NEW j \in 1..n + 1 PROVE \E q \in P2 : g2[q] = j
  <2>1. CASE j = n + 1
    BY <1>2, <2>1
  <2>2. CASE j \in 1..n
    <3>1. PICK p \in P : g[p] = j
      BY <1>1, <2>2 DEF IsTrace
    <3> QED BY <1>2, <3>1
  <2> QED BY <2>1, <2>2
<1>6. \A p \in P2 : at2[p] = src[g2[p]]
  BY <1>1, <1>2 DEF IsTrace
<1>7. IsTrace(g2, P2, at2, src, n + 1)
  BY <1>3, <1>4, <1>5, <1>6 DEF IsTrace
<1> QED BY <1>7 DEF Traced

\* When the places e hold what has been delivered of src, the other places hold what
\* remains of it.
LEMMA RemainingPlaces ==
  ASSUME NEW S, NEW src \in Seq(S), NEW out \in Seq(S), NEW P, NEW at,
         Traced(P, at, src, Len(src)),
         NEW e \in [1..Len(out) -> P], \A i, j \in 1..Len(out) : e[i] = e[j] => i = j,
         \A i \in 1..Len(out) : at[e[i]] = out[i],
         NEW x
  PROVE  x \in DOMAIN (ToBag(src) (-) ToBag(out)) <=>
           \E p \in P : at[p] = x /\ \A i \in 1..Len(out) : e[i] # p
<1>1. PICK g : IsTrace(g, P, at, src, Len(src))
  BY DEF Traced
<1>2. /\ Len(src) \in Nat /\ DOMAIN src = 1..Len(src)
      /\ Len(out) \in Nat /\ DOMAIN out = 1..Len(out)
  BY SequenceFacts
<1> DEFINE A == {i \in DOMAIN src : src[i] = x}
           B == {i \in DOMAIN out : out[i] = x}
           f == [i \in B |-> g[e[i]]]
<1>3. IsFiniteSet(A) /\ IsFiniteSet(B)
  <2>1. IsFiniteSet(DOMAIN src) /\ IsFiniteSet(DOMAIN out)
    BY <1>2, FS_Interval
  <2> QED BY <2>1, FS_Subset
<1>4. Cardinality(A) \in Nat /\ Cardinality(B) \in Nat
  BY <1>3, FS_CardinalityType
<1>5. f \in Injection(B, A)
  <2>1. ASSUME NEW i \in B PROVE f[i] \in A
    <3>1. i \in 1..Len(out) /\ out[i] = x /\ e[i] \in P /\ at[e[i]] = x
      BY <1>2
    <3>2. g[e[i]] \in 1..Len(src) /\ src[g[e[i]]] = x
      BY <1>1, <3>1 DEF IsTrace
    <3> QED BY <1>2, <3>2
  <2>2. ASSUME NEW i \in B, NEW j \in B, f[i] = f[j] PROVE i = j
    <3>1. i \in 1..Len(out) /\ j \in 1..Len(out) /\ e[i] \in P /\ e[j] \in P
      BY <1>2
    <3>2. e[i] = e[j]
      BY <1>1, <2>2, <3>1 DEF IsTrace
    <3> QED BY <3>1, <3>2
  <2>3. f \in [B -> A]
    BY <2>1
  <2> HIDE DEF f
  <2> QED BY <2>2, <2>3 DEF Injection, IsInjective
<1>6. Cardinality(B) <= Cardinality(A) /\ (Cardinality(B) = Cardinality(A) <=> f \in Surjection(B, A))
  <2> HIDE DEF A, B, f
  <2> QED BY <1>3, <1>5, FS_Injection
<1>7. x \in DOMAIN (ToBag(src) (-) ToBag(out)) <=> Cardinality(A) > Cardinality(B)
  <2>1. /\ DOMAIN ToBag(src) = Range(src) /\ (x \in Range(src) => ToBag(src)[x] = Cardinality(A))
        /\ DOMAIN ToBag(out) = Range(out) /\ (x \in Range(out) => ToBag(out)[x] = Cardinality(B))
    BY DEF ToBag
  <2>2. (x \in Range(src) <=> A # {}) /\ (x \in Range(out) <=> B # {})
    BY DEF Range
  <2>3. (A = {} <=> Cardinality(A) = 0) /\ (B = {} <=> Cardinality(B) = 0)
    BY <1>3, FS_EmptySet
  <2>4. x \in DOMAIN (ToBag(src) (-) ToBag(out)) <=>
          /\ x \in DOMAIN ToBag(src)
          /\ (IF x \in DOMAIN ToBag(out) THEN ToBag(src)[x] - ToBag(out)[x] ELSE ToBag(src)[x]) > 0
    <3> DEFINE b == ToBag(src)
               c == ToBag(out)
               D == [y \in DOMAIN b |-> IF y \in DOMAIN c THEN b[y] - c[y] ELSE b[y]]
    <3>1. DOMAIN (b (-) c) = {y \in DOMAIN D : D[y] > 0}
      BY DEF (-)
    <3> HIDE DEF b, c
    <3>2. x \in DOMAIN (b (-) c) <=>
            x \in DOMAIN b /\ (IF x \in DOMAIN c THEN b[x] - c[x] ELSE b[x]) > 0
      <4>1. x \in {y \in DOMAIN D : D[y] > 0} <=> x \in DOMAIN D /\ D[x] > 0
        OBVIOUS
      <4>2. DOMAIN D = DOMAIN b
        OBVIOUS
      <4>3. x \in DOMAIN b => D[x] = IF x \in DOMAIN c THEN b[x] - c[x] ELSE b[x]
        OBVIOUS
      <4> HIDE DEF D
      <4> QED BY <3>1, <4>1, <4>2, <4>3
    <3> QED BY <3>2 DEF b, c
  <2> HIDE DEF A, B
  <2> QED BY <1>4, <2>1, <2>2, <2>3, <2>4
<1>8. Cardinality(A) > Cardinality(B) <=> f \notin Surjection(B, A)
  <2> HIDE DEF A, B, f
  <2> QED BY <1>4, <1>6
<1>9. f \notin Surjection(B, A) <=> \E i \in A : \A k \in B : g[e[k]] # i
  <2>1. f \in [B -> A]
    <3> HIDE DEF A, B, f
    <3> QED BY <1>5 DEF Injection
  <2>2. \A k \in B : f[k] = g[e[k]]
    OBVIOUS
  <2> HIDE DEF A, B, f
  <2> QED BY <2>1, <2>2 DEF Surjection
<1>10. ASSUME NEW i \in A, \A k \in B : g[e[k]] # i
       PROVE  \E p \in P : at[p] = x /\ \A k \in 1..Len(out) : e[k] # p
  <2>1. PICK p \in P : g[p] = i
    BY <1>1, <1>2 DEF IsTrace
  <2>2. at[p] = x
    BY <1>1, <2>1 DEF IsTrace
  <2>3. ASSUME NEW k \in 1..Len(out), e[k] = p PROVE FALSE
    <3>1. k \in B
      BY <1>2, <2>2, <2>3
    <3> QED BY <1>10, <2>1, <2>3, <3>1
  <2> QED BY <2>2, <2>3
<1>11. ASSUME NEW p \in P, at[p] = x, \A k \in 1..Len(out) : e[k] # p
       PROVE  \E i \in A : \A k \in B : g[e[k]] # i
  <2>1. g[p] \in A
    BY <1>1, <1>2, <1>11 DEF IsTrace
  <2>2. ASSUME NEW k \in B, g[e[k]] = g[p] PROVE FALSE
    <3>1. k \in 1..Len(out) /\ e[k] \in P
      BY <1>2
    <3> QED BY <1>1, <1>11, <2>2, <3>1 DEF IsTrace
  <2> QED BY <2>1, <2>2
<1> QED BY <1>7, <1>8, <1>9, <1>10, <1>11

-----------------------------------------------------------------------------
(* Flattening a sequence of sequences *)

\* What the first k sequences give, one after the other.
FlatSoFar(f, S, seqs) ==
  /\ f \in [0..Len(seqs) -> Seq(S)] /\ f[0] = << >>
  /\ \A b \in 0..Len(seqs) - 1 : f[b + 1] = f[b] \o seqs[b + 1]

LEMMA FlatPrefixes ==
  ASSUME NEW S, NEW seqs \in Seq(Seq(S))
  PROVE  \E f : FlatSoFar(f, S, seqs) /\ f[Len(seqs)] = FlattenSeq(seqs)
<1> DEFINE n == Len(seqs)
           add == [q \in Seq(S) \X Nat |->
                     IF q[2] + 1 <= n THEN q[1] \o seqs[q[2] + 1] ELSE q[1]]
<1>1. n \in Nat /\ \A i \in 1..n : seqs[i] \in Seq(S)
  BY SequenceFacts
<1>2. add \in [Seq(S) \X Nat -> Seq(S)]
  <2>1. ASSUME NEW v \in Seq(S), NEW k \in Nat
        PROVE  (IF k + 1 <= n THEN v \o seqs[k + 1] ELSE v) \in Seq(S)
    <3>1. CASE k + 1 <= n
      <4>1. seqs[k + 1] \in Seq(S)
        BY <1>1, <3>1
      <4>2. v \o seqs[k + 1] \in Seq(S)
        BY <4>1, ConcatProperties
      <4> QED BY <3>1, <4>2
    <3> QED BY <3>1
  <2> HIDE DEF n
  <2> QED BY <2>1
<1>3. PICK h \in [Nat -> Seq(S)] : Iterates(h, << >>, add)
  <2>1. << >> \in Seq(S)
    BY EmptyElements
  <2> HIDE DEF add
  <2> QED BY <1>2, <2>1, NaturalRecursion
<1> DEFINE f == [k \in 0..n |-> h[k]]
<1>4. f \in [0..n -> Seq(S)] /\ f[0] = << >>
  BY <1>1, <1>3 DEF Iterates
<1>5. ASSUME NEW b \in 0..n - 1 PROVE f[b + 1] = f[b] \o seqs[b + 1]
  <2>1. b \in Nat /\ b \in 0..n /\ b + 1 \in 0..n /\ b + 1 <= n
    BY <1>1
  <2>2. h[b + 1] = add[<<h[b], b>>] /\ h[b] \in Seq(S)
    <3> HIDE DEF add
    <3> QED BY <1>3, <2>1 DEF Iterates
  <2>3. add[<<h[b], b>>] = h[b] \o seqs[b + 1]
    BY <2>1, <2>2
  <2>4. f[b + 1] = h[b + 1] /\ f[b] = h[b]
    BY <2>1
  <2> QED BY <2>2, <2>3, <2>4
<1> HIDE DEF f
<1>6. FlatSoFar(f, S, seqs)
  BY <1>4, <1>5 DEF FlatSoFar
<1>7. f[n] = FlattenSeq(seqs)
  <2>1. CASE n = 0
    <3>1. seqs = << >>
      BY <2>1, SequenceFacts
    <3> QED BY <1>4, <2>1, <3>1 DEF FlattenSeq
  <2>2. CASE n # 0
    <3> DEFINE IsFlat(g) == g = [i \in 1..n |-> IF i = 1 THEN seqs[i] ELSE g[i - 1] \o seqs[i]]
               flat == CHOOSE g : IsFlat(g)
               e == [i \in 1..n |-> f[i]]
    <3>1. FlattenSeq(seqs) = flat[n]
      BY <2>2 DEF FlattenSeq
    <3>2. IsFlat(e)
      <4> DEFINE z == [i \in 1..n |-> IF i = 1 THEN seqs[i] ELSE e[i - 1] \o seqs[i]]
      <4>1. ASSUME NEW i \in 1..n PROVE e[i] = z[i]
        <5>1. PICK b \in 0..n - 1 : i = b + 1
          BY <1>1
        <5>2. f[b + 1] = f[b] \o seqs[b + 1] /\ e[i] = f[b + 1] /\ seqs[b + 1] \in Seq(S)
          BY <1>1, <1>5, <5>1
        <5>3. CASE i = 1
          <6>1. b = 0
            BY <5>1, <5>3
          <6>2. << >> \o seqs[b + 1] = seqs[b + 1]
            BY <5>2, ConcatEmptySeq
          <6>3. z[i] = seqs[i]
            BY <5>3
          <6> QED BY <1>4, <5>1, <5>2, <6>1, <6>2, <6>3
        <5>4. CASE i # 1
          <6>1. i - 1 \in 1..n /\ i - 1 = b
            BY <1>1, <5>1, <5>4
          <6>2. e[i - 1] = f[b]
            BY <6>1
          <6>3. z[i] = e[i - 1] \o seqs[i]
            BY <5>4
          <6> QED BY <5>1, <5>2, <6>2, <6>3
        <5> QED BY <5>3, <5>4
      <4>2. e = [i \in 1..n |-> e[i]] /\ z = [i \in 1..n |-> z[i]]
        OBVIOUS
      <4> HIDE DEF e, z, n
      <4>3. e = z
        BY <4>1, <4>2
      <4> QED BY <4>3 DEF z
    <3>3. IsFlat(flat)
      <4> HIDE DEF IsFlat
      <4> QED BY <3>2
    <3>4. ASSUME NEW g, IsFlat(g)
          PROVE  /\ g[1] = seqs[1]
                 /\ \A k \in 1..n - 1 : g[k + 1] = g[k] \o seqs[k + 1]
      <4>1. g[1] = seqs[1]
        BY <1>1, <2>2, <3>4
      <4>2. ASSUME NEW k \in 1..n - 1 PROVE g[k + 1] = g[k] \o seqs[k + 1]
        <5>1. PICK i \in 1..n : i = k + 1 /\ i # 1 /\ i - 1 = k
          BY <1>1
        <5>2. g[i] = g[i - 1] \o seqs[i]
          BY <3>4, <5>1
        <5> QED BY <5>1, <5>2
      <4> QED BY <4>1, <4>2
    <3> HIDE DEF IsFlat, flat
    <3> DEFINE G == {k \in Nat : k + 1 <= n => flat[k + 1] = e[k + 1]}
    <3>5. 0 \in G
      <4>1. flat[1] = seqs[1] /\ e[1] = seqs[1]
        <5> HIDE DEF e, G
        <5> QED BY <3>2, <3>3, <3>4
      <4>2. 0 + 1 = 1
        OBVIOUS
      <4> HIDE DEF e
      <4> QED BY <4>1, <4>2
    <3>6. ASSUME NEW k \in G PROVE k + 1 \in G
      <4>1. SUFFICES ASSUME k + 1 + 1 <= n PROVE flat[k + 1 + 1] = e[k + 1 + 1]
        BY <3>6
      <4>2. k \in Nat /\ k + 1 <= n /\ k + 1 \in 1..n - 1
        <5>1. k \in Nat /\ n \in Nat
          BY <1>1, <3>6
        <5> HIDE DEF n, e, flat
        <5> QED BY <4>1, <5>1
      <4>3. flat[k + 1] = e[k + 1]
        <5> HIDE DEF e, flat, n
        <5> QED BY <3>6, <4>2
      <4> HIDE DEF e, G
      <4> QED BY <3>2, <3>3, <3>4, <4>2, <4>3
    <3> HIDE DEF G
    <3>7. G = Nat
      <4>1. G \in SUBSET Nat
        BY DEF G
      <4> QED BY <3>5, <3>6, <4>1, SetInduction
    <3>8. n - 1 \in G /\ n - 1 + 1 = n
      BY <1>1, <2>2, <3>7
    <3>9. flat[n] = e[n]
      BY <3>8, SMTT(20) DEF G
    <3> QED BY <1>1, <2>2, <3>1, <3>9
  <2> QED BY <2>1, <2>2
<1> QED BY <1>6, <1>7

\* Two sequences of prefixes agree as far as the sequences they flatten do.
LEMMA FlatSoFarAgree ==
  ASSUME NEW S, NEW s \in Seq(Seq(S)), NEW t \in Seq(Seq(S)), NEW f, NEW g,
         FlatSoFar(f, S, s), FlatSoFar(g, S, t), NEW n \in Nat,
         n <= Len(s), n <= Len(t), \A i \in 1..n : s[i] = t[i]
  PROVE  f[n] = g[n]
<1>0. Len(s) \in Nat /\ Len(t) \in Nat
  BY SequenceFacts
<1> DEFINE T == {k \in Nat : k <= n => f[k] = g[k]}
<1>1. 0 \in T
  BY DEF FlatSoFar
<1>2. ASSUME NEW k \in T PROVE k + 1 \in T
  <2> SUFFICES ASSUME k + 1 <= n PROVE f[k + 1] = g[k + 1]
    OBVIOUS
  <2>1. k \in Nat /\ f[k] = g[k] /\ k + 1 \in 1..n
    OBVIOUS
  <2>2. k \in 0..Len(s) - 1 /\ k \in 0..Len(t) - 1
    BY <1>0, <2>1
  <2>3. f[k + 1] = f[k] \o s[k + 1] /\ g[k + 1] = g[k] \o t[k + 1]
    BY <2>2 DEF FlatSoFar
  <2> QED BY <2>1, <2>3
<1>3. T \in SUBSET Nat
  OBVIOUS
<1> HIDE DEF T
<1>4. n \in T
  BY <1>1, <1>2, <1>3, SetInduction
<1> QED BY <1>4 DEF T

LEMMA FlattenEmpty ==
  FlattenSeq(<< >>) = << >>
  BY DEF FlattenSeq

LEMMA FlattenAppend ==
  ASSUME NEW S, NEW s \in Seq(Seq(S)), NEW e \in Seq(S)
  PROVE  /\ FlattenSeq(s) \in Seq(S)
         /\ FlattenSeq(Append(s, e)) = FlattenSeq(s) \o e
<1> DEFINE t == Append(s, e)
<1>1. /\ t \in Seq(Seq(S)) /\ Len(s) \in Nat /\ Len(t) = Len(s) + 1
      /\ \A i \in 1..Len(s) : s[i] = t[i]
      /\ t[Len(s) + 1] = e
  BY SequenceFacts, AppendProperties
<1> HIDE DEF t
<1>2. PICK f : FlatSoFar(f, S, s) /\ f[Len(s)] = FlattenSeq(s)
  BY FlatPrefixes
<1>3. PICK g : FlatSoFar(g, S, t) /\ g[Len(t)] = FlattenSeq(t)
  BY <1>1, FlatPrefixes
<1>4. PICK n \in Nat : n = Len(s)
  BY <1>1
<1>5. f[n] = g[n]
  <2>1. n <= Len(s) /\ n <= Len(t) /\ \A i \in 1..n : s[i] = t[i]
    BY <1>1, <1>4
  <2> QED BY <1>1, <1>2, <1>3, <2>1, FlatSoFarAgree
<1>6. g[n + 1] = g[n] \o t[n + 1]
  <2>1. n \in 0..Len(t) - 1
    BY <1>1, <1>4
  <2> QED BY <1>3, <2>1 DEF FlatSoFar
<1>7. f[n] \in Seq(S)
  BY <1>2, <1>4 DEF FlatSoFar
<1> QED BY <1>1, <1>2, <1>3, <1>4, <1>5, <1>6, <1>7 DEF t

LEMMA FlattenConcat ==
  ASSUME NEW S, NEW s \in Seq(Seq(S)), NEW t \in Seq(Seq(S))
  PROVE  FlattenSeq(s \o t) = FlattenSeq(s) \o FlattenSeq(t)
<1> DEFINE Good(k) == \A u \in Seq(Seq(S)) :
                        Len(u) = k => FlattenSeq(s \o u) = FlattenSeq(s) \o FlattenSeq(u)
           T == {k \in Nat : Good(k)}
<1>0. FlattenSeq(s) \in Seq(S)
  <2>1. << >> \in Seq(S)
    BY EmptySeq
  <2> QED BY <2>1, FlattenAppend
<1>1. 0 \in T
  <2> SUFFICES ASSUME NEW u \in Seq(Seq(S)), Len(u) = 0
               PROVE  FlattenSeq(s \o u) = FlattenSeq(s) \o FlattenSeq(u)
    OBVIOUS
  <2>1. u = << >> /\ s \o u = s
    BY SequenceFacts, ConcatEmptySeq
  <2> QED BY <1>0, <2>1, FlattenEmpty, ConcatEmptySeq
<1>2. ASSUME NEW k \in T PROVE k + 1 \in T
  <2> SUFFICES ASSUME NEW u \in Seq(Seq(S)), Len(u) = k + 1
               PROVE  FlattenSeq(s \o u) = FlattenSeq(s) \o FlattenSeq(u)
    OBVIOUS
  <2>1. k \in Nat /\ Good(k)
    OBVIOUS
  <2>2. u # << >>
    BY <2>1, SequenceFacts
  <2>3. PICK v \in Seq(Seq(S)), e \in Seq(S) : u = Append(v, e)
    BY <2>2, SequenceEmptyOrAppend
  <2>4. Len(v) = k
    <3>1. Len(v) \in Nat /\ Len(u) = Len(v) + 1
      BY <2>3, SequenceFacts, AppendProperties
    <3> QED BY <2>1, <3>1
  <2>5. FlattenSeq(s \o v) = FlattenSeq(s) \o FlattenSeq(v)
    BY <2>1, <2>4
  <2>6. FlattenSeq(u) = FlattenSeq(v) \o e /\ FlattenSeq(v) \in Seq(S)
    BY <2>3, FlattenAppend
  <2>7. s \o v \in Seq(Seq(S)) /\ s \o u = Append(s \o v, e)
    <3>1. u = v \o <<e>> /\ <<e>> \in Seq(Seq(S)) /\ s \o v \in Seq(Seq(S))
      BY <2>3, AppendIsConcat, SingletonElements, ConcatProperties
    <3>2. s \o u = (s \o v) \o <<e>>
      BY <3>1, ConcatAssociative
    <3> QED BY <3>1, <3>2, AppendIsConcat
  <2>8. FlattenSeq(s \o u) = FlattenSeq(s \o v) \o e
    BY <2>7, FlattenAppend
  <2>9. (FlattenSeq(s) \o FlattenSeq(v)) \o e = FlattenSeq(s) \o (FlattenSeq(v) \o e)
    <3>1. FlattenSeq(s) \in Seq(S) /\ FlattenSeq(v) \in Seq(S) /\ e \in Seq(S)
      BY <1>0, <2>3, <2>6
    <3> QED BY ONLY <3>1, ConcatAssociative, SMTT(20)
  <2> QED BY <2>5, <2>6, <2>8, <2>9
<1>3. T \in SUBSET Nat
  OBVIOUS
<1>4. PICK n \in Nat : n = Len(t)
  BY SequenceFacts
<1>5. n \in T
  <2> HIDE DEF T
  <2> QED BY <1>1, <1>2, <1>3, SetInduction
<1> QED BY <1>4, <1>5

\* The head and the tail of a sequence put behind one element.
LEMMA HeadOfConcat ==
  ASSUME NEW S, NEW e \in S, NEW s \in Seq(S)
  PROVE  /\ <<e>> \o s # << >>
         /\ Head(<<e>> \o s) = e
         /\ Tail(<<e>> \o s) = s
<1> DEFINE u == <<e>> \o s
<1>1. <<e>> \in Seq(S) /\ Len(<<e>>) = 1 /\ <<e>>[1] = e
  BY SingletonElements
<1>2. Len(s) \in Nat
  BY SequenceFacts
<1>3. /\ u \in Seq(S) /\ Len(u) = 1 + Len(s)
      /\ \A i \in 1..1 + Len(s) : u[i] = IF i <= 1 THEN <<e>>[i] ELSE s[i - 1]
  BY <1>1, ConcatProperties
<1> HIDE DEF u
<1>4. u # << >>
  BY <1>2, <1>3, SequenceFacts
<1>5. u[1] = e
  BY <1>1, <1>2, <1>3
<1>6. Head(u) = e
  BY <1>3, <1>4, <1>5, HeadElements
<1>7. Tail(u) = s
  <2>1. /\ Tail(u) \in Seq(S) /\ Len(Tail(u)) = Len(s)
        /\ \A i \in 1..Len(u) - 1 : Tail(u)[i] = u[i + 1]
    BY <1>2, <1>3, <1>4, HeadElements
  <2>2. ASSUME NEW i \in 1..Len(Tail(u)) PROVE Tail(u)[i] = s[i]
    <3>1. i \in 1..Len(u) - 1 /\ i + 1 \in 1..1 + Len(s) /\ ~(i + 1 <= 1) /\ (i + 1) - 1 = i
      BY <1>2, <1>3, <2>1
    <3> QED BY <1>3, <2>1, <3>1
  <2> QED BY <2>1, <2>2, SeqEqual
<1> QED BY <1>4, <1>6, <1>7 DEF u

\* A sequence that repeats no element has as many elements as its length.
LEMMA ElementsCounted ==
  ASSUME NEW S, NEW s \in Seq(S), IsInjective(s)
  PROVE  IsFiniteSet(ToSet(s)) /\ Cardinality(ToSet(s)) = Len(s)
<1>1. Len(s) \in Nat /\ s \in [1..Len(s) -> S] /\ DOMAIN s = 1..Len(s)
  OBVIOUS
<1>2. s \in Bijection(1..Len(s), ToSet(s))
  <2>1. s \in Surjection(1..Len(s), ToSet(s))
    BY <1>1 DEF Surjection, ToSet
  <2>2. s \in Injection(1..Len(s), ToSet(s))
    BY <1>1 DEF Injection, ToSet, IsInjective
  <2> QED BY <2>1, <2>2 DEF Bijection
<1>3. ExistsBijection(1..Len(s), ToSet(s))
  BY <1>2 DEF ExistsBijection
<1> QED BY <1>1, <1>3, FS_CountingElements, FS_NatBijection
=============================================================================
