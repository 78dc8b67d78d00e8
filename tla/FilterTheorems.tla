--------------------------- MODULE FilterTheorems ----------------------------
(* What Kept gives for every sequence.                                        *)
(*                                                                            *)
(* Facts about all sequences are shown by InductiveSeqs: a set of sequences   *)
(* that has the empty one, and with each its extensions by one entry, is the  *)
(* set of all.  Its proof takes a shortest counterexample (LeastNumber).      *)
EXTENDS Filter, SequenceTheorems, WellFoundedInduction, TLAPS

\* A nonempty set of numbers has a least one.
LEMMA LeastNumber ==
    ASSUME NEW T, T \subseteq Nat, T # {}
    PROVE  \E n \in T : \A m \in T : n <= m
<1>1. PICK R : IsWellFoundedOn(R, Nat) /\ \A n, m \in Nat : m < n => <<m, n>> \in R
  <2>1. IsWellFoundedOn(OpToRel(<, Nat), Nat)  BY NatLessThanWellFounded
  <2>2. \A n, m \in Nat : m < n => <<m, n>> \in OpToRel(<, Nat)  BY DEF OpToRel
  <2> QED  BY <2>1, <2>2, Zenon
<1>2. PICK n \in T : \A m \in T : <<m, n>> \notin R  BY <1>1, WFMin
<1>3. \A m \in T : ~ (m < n)  BY <1>1, <1>2
<1> QED  BY <1>3

\* Induction over numbers, for a set rather than a predicate.
LEMMA InductiveSet ==
    ASSUME NEW T, T \subseteq Nat, 0 \in T, \A n \in T : n + 1 \in T
    PROVE  T = Nat
<1> SUFFICES ASSUME Nat \ T # {} PROVE FALSE  OBVIOUS
<1>1. PICK n \in Nat \ T : \A m \in Nat \ T : n <= m  BY LeastNumber
<1>2. n # 0 /\ n - 1 \in T  BY <1>1
<1> QED  BY <1>1, <1>2

\* Induction over sequences.
LEMMA InductiveSeqs ==
    ASSUME NEW S, NEW T, T \subseteq Seq(S), <<>> \in T,
           \A s \in T, x \in S : Append(s, x) \in T
    PROVE  T = Seq(S)
<1> DEFINE N == {n \in Nat : \A s \in Seq(S) : Len(s) = n => s \in T}
<1>1. 0 \in N
  <2>1. \A s \in Seq(S) : Len(s) = 0 => s = <<>>  OBVIOUS
  <2> QED  BY <2>1
<1>2. ASSUME NEW n \in N PROVE n + 1 \in N
  <2> SUFFICES ASSUME NEW s \in Seq(S), Len(s) = n + 1 PROVE s \in T  OBVIOUS
  <2>1. PICK t \in Seq(S), x \in S : s = Append(t, x)
    <3>1. s # <<>>  BY EmptySeq
    <3> QED  BY <3>1, SequenceEmptyOrAppend, Zenon
  <2>2. Len(t) = n  BY <2>1, AppendProperties, LenProperties
  <2> QED  BY <2>1, <2>2
<1>3. N = Nat
  <2> HIDE DEF N
  <2>1. N \subseteq Nat  BY DEF N
  <2> QED  BY <1>1, <1>2, <2>1, InductiveSet
<1>4. \A s \in Seq(S) : Len(s) \in N  BY <1>3, LenProperties
<1> QED  BY <1>4

-----------------------------------------------------------------------------
(* Kept is well defined, and its equations.                                   *)

\* The equation of Kept's recursive function.
Rec(f, s, keep) == [i \in 0 .. Len(s) |->
    IF i = 0 THEN <<>> ELSE IF s[i] \in keep THEN Append(f[i - 1], s[i]) ELSE f[i - 1]]

\* It has a solution, which KeptIsRec shows Kept to be.
LEMMA RecExists == ASSUME NEW S, NEW keep PROVE \A s \in Seq(S) : \E f : f = Rec(f, s, keep)
<1> DEFINE T == {s \in Seq(S) : \E f : f = Rec(f, s, keep)}
<1>1. <<>> \in T
  <2> DEFINE f == [i \in 0 .. 0 |-> <<>>]
  <2>1. f = Rec(f, <<>>, keep)  BY DEF Rec
  <2> HIDE DEF f
  <2> QED  BY <2>1
<1>2. ASSUME NEW s \in T, NEW x \in S PROVE Append(s, x) \in T
  <2>1. PICK f : f = Rec(f, s, keep)  OBVIOUS
  <2> DEFINE n == Len(s)
             t == Append(s, x)
             g == [i \in 0 .. n + 1 |->
                     IF i <= n THEN f[i] ELSE IF x \in keep THEN Append(f[n], x) ELSE f[n]]
  <2>2. n \in Nat /\ Len(t) = n + 1 /\ t[n + 1] = x /\ \A i \in 1 .. n : t[i] = s[i]  OBVIOUS
  <2>3. \A i \in 0 .. n : f[i] = IF i = 0 THEN <<>> ELSE IF s[i] \in keep THEN Append(f[i - 1], s[i]) ELSE f[i - 1]
    BY <2>1 DEF Rec
  <2> HIDE DEF t
  <2>4. ASSUME NEW i \in 0 .. n + 1
        PROVE  g[i] = IF i = 0 THEN <<>> ELSE IF t[i] \in keep THEN Append(g[i - 1], t[i]) ELSE g[i - 1]
    <3>1. CASE i <= n  BY <2>2, <2>3, <3>1
    <3>2. CASE i = n + 1  BY <2>2, <3>2
    <3> QED  BY <2>2, <3>1, <3>2
  <2>5. g = [i \in 0 .. n + 1 |->
               IF i = 0 THEN <<>> ELSE IF t[i] \in keep THEN Append(g[i - 1], t[i]) ELSE g[i - 1]]
    BY <2>4
  <2>6. g = Rec(g, t, keep)  
    <3> HIDE DEF g
    <3> QED BY <2>2, <2>5 DEF Rec
  <2>7. \E h : h = Rec(h, t, keep) 
    <3> HIDE DEF g
    <3> QED BY <2>6
  <2> QED  BY <2>7 DEF t
<1> HIDE DEF T
<1>3. T = Seq(S)  
  <2>1. T \subseteq Seq(S) BY DEF T
  <2> QED BY <1>1, <1>2, <2>1, InductiveSeqs
<1> QED  BY <1>3 DEF T

LEMMA KeptIsRec ==
    ASSUME NEW S, NEW s \in Seq(S), NEW keep
    PROVE  \E f : f = Rec(f, s, keep) /\ Kept(s, keep) = f[Len(s)]
<1> DEFINE f == CHOOSE f : f = Rec(f, s, keep)
<1>1. f = Rec(f, s, keep)  BY RecExists
<1>2. Kept(s, keep) = f[Len(s)]  BY DEF Kept, Rec
<1> QED  BY <1>1, <1>2

LEMMA KeptEmpty == ASSUME NEW keep PROVE Kept(<<>>, keep) = <<>>
<1>1. <<>> \in Seq({}) /\ Len(<<>>) = 0  BY EmptySeq
<1>2. PICK f : f = Rec(f, <<>>, keep) /\ Kept(<<>>, keep) = f[0]  BY <1>1, KeptIsRec
<1> QED  BY <1>1, <1>2 DEF Rec

\* Two sequences that agree up to a place have the same entries kept up to it.
LEMMA RecAgrees ==
    ASSUME NEW S, NEW s \in Seq(S), NEW x \in S, NEW keep, NEW f, NEW g,
           f = Rec(f, s, keep), g = Rec(g, Append(s, x), keep)
    PROVE  /\ f[Len(s)] = g[Len(s)]
           /\ g[Len(s) + 1] = IF x \in keep THEN Append(g[Len(s)], x) ELSE g[Len(s)]
<1> DEFINE n == Len(s)
           t == Append(s, x)
           N == {i \in Nat : i <= n => f[i] = g[i]}
<1>1. n \in Nat /\ Len(t) = n + 1 /\ t[n + 1] = x /\ \A i \in 1 .. n : t[i] = s[i]
  BY AppendProperties, LenProperties
<1> HIDE DEF n, t
<1>2. /\ \A i \in 0 .. n : f[i] = IF i = 0 THEN <<>>
                                  ELSE IF s[i] \in keep THEN Append(f[i - 1], s[i]) ELSE f[i - 1]
      /\ \A i \in 0 .. n + 1 : g[i] = IF i = 0 THEN <<>>
                                  ELSE IF t[i] \in keep THEN Append(g[i - 1], t[i]) ELSE g[i - 1]
  BY <1>1 DEF Rec, n, t
<1>3. 0 \in N  BY <1>1, <1>2
<1>4. ASSUME NEW i \in N PROVE i + 1 \in N  BY <1>1, <1>2
<1>5. N \subseteq Nat  OBVIOUS
<1> HIDE DEF N
<1>6. n \in N  BY <1>1, <1>3, <1>4, <1>5, InductiveSet
<1>7. f[n] = g[n]  BY <1>6 DEF N
<1>8. g[n + 1] = IF x \in keep THEN Append(g[n], x) ELSE g[n]  BY <1>1, <1>2
<1> QED  BY <1>7, <1>8 DEF n

LEMMA KeptAppend ==
    ASSUME NEW S, NEW s \in Seq(S), NEW x \in S, NEW keep
    PROVE  Kept(Append(s, x), keep) = IF x \in keep THEN Append(Kept(s, keep), x) ELSE Kept(s, keep)
<1>1. PICK f : f = Rec(f, s, keep) /\ Kept(s, keep) = f[Len(s)]  BY KeptIsRec
<1>2. Append(s, x) \in Seq(S) /\ Len(Append(s, x)) = Len(s) + 1  BY AppendProperties
<1>3. PICK g : g = Rec(g, Append(s, x), keep) /\ Kept(Append(s, x), keep) = g[Len(s) + 1]
  BY <1>2, KeptIsRec
<1> QED  BY <1>1, <1>3, RecAgrees

-----------------------------------------------------------------------------
(* What is kept.                                                              *)

LEMMA KeptSeq ==
    ASSUME NEW S, NEW keep
    PROVE  \A s \in Seq(S) : Kept(s, keep) \in Seq(S \cap keep)
<1> DEFINE T == {s \in Seq(S) : Kept(s, keep) \in Seq(S \cap keep)}
<1>1. <<>> \in T  BY KeptEmpty, EmptySeq
<1>2. ASSUME NEW s \in T, NEW x \in S PROVE Append(s, x) \in T
  <2> DEFINE k == Kept(s, keep)
  <2>1. k \in Seq(S \cap keep) /\ Append(s, x) \in Seq(S)  BY AppendProperties
  <2>2. Kept(Append(s, x), keep) = IF x \in keep THEN Append(k, x) ELSE k  BY KeptAppend, Zenon
  <2> HIDE DEF k
  <2>3. x \in keep => Append(k, x) \in Seq(S \cap keep)  BY <2>1, AppendProperties
  <2> QED  BY <2>1, <2>2, <2>3, Zenon
<1>3. T \subseteq Seq(S)  OBVIOUS
<1> HIDE DEF T
<1>4. T = Seq(S)  BY <1>1, <1>2, <1>3, InductiveSeqs
<1> QED  BY <1>4 DEF T

LEMMA KeptConcat ==
    ASSUME NEW S, NEW s \in Seq(S), NEW keep
    PROVE  \A t \in Seq(S) : Kept(s \o t, keep) = Kept(s, keep) \o Kept(t, keep)
<1> DEFINE T == {t \in Seq(S) : Kept(s \o t, keep) = Kept(s, keep) \o Kept(t, keep)}
<1>0. Kept(s, keep) \in Seq(S \cap keep)  BY KeptSeq
<1>1. <<>> \in T
  BY <1>0, KeptEmpty, ConcatEmptySeq, EmptySeq
<1>2. ASSUME NEW t \in T, NEW x \in S PROVE Append(t, x) \in T
  <2>1. s \o t \in Seq(S) /\ s \o Append(t, x) = Append(s \o t, x)
    <3>1. s \o t \in Seq(S) /\ <<x>> \in Seq(S)  BY ConcatProperties
    <3>2. Append(t, x) = t \o <<x>> /\ Append(s \o t, x) = (s \o t) \o <<x>>  BY <3>1, AppendIsConcat
    <3> QED  BY <3>1, <3>2, ConcatAssociative
  <2>2. Kept(t, keep) \in Seq(S \cap keep)  BY KeptSeq
  <2>3. CASE x \in keep
    <3>1. Kept(s \o Append(t, x), keep) = Append(Kept(s, keep) \o Kept(t, keep), x)
      BY <2>1, <2>3, KeptAppend
    <3>2. Append(Kept(s, keep) \o Kept(t, keep), x) = Kept(s, keep) \o Append(Kept(t, keep), x)
      <4> DEFINE a == Kept(s, keep)
                 b == Kept(t, keep)
      <4>1. a \in Seq(S \cap keep) /\ b \in Seq(S \cap keep) /\ x \in S \cap keep
        BY <1>0, <2>2, <2>3
      <4> HIDE DEF a, b
      <4>2. a \o b \in Seq(S \cap keep) /\ <<x>> \in Seq(S \cap keep)  BY <4>1, ConcatProperties
      <4>3. Append(b, x) = b \o <<x>> /\ Append(a \o b, x) = (a \o b) \o <<x>>
        BY <4>1, <4>2, AppendIsConcat
      <4>4. Append(a \o b, x) = a \o Append(b, x)
        BY <4>1, <4>2, <4>3, ConcatAssociative
      <4> QED  BY <4>4 DEF a, b
    <3> QED  BY <2>3, <3>1, <3>2, KeptAppend, AppendProperties
  <2>4. CASE x \notin keep
    <3>1. Kept(s \o Append(t, x), keep) = Kept(s \o t, keep)
      <4>1. \A u \in Seq(S) : Kept(Append(u, x), keep) = Kept(u, keep)
        BY <2>4, KeptAppend, Zenon
      <4> QED  BY <2>1, <4>1
    <3>2. Kept(Append(t, x), keep) = Kept(t, keep)  BY <2>4, KeptAppend, Zenon
    <3>3. Append(t, x) \in Seq(S)  BY AppendProperties
    <3> QED  BY <3>1, <3>2, <3>3, Zenon
  <2> QED  BY <2>3, <2>4
<1>3. T \subseteq Seq(S)  OBVIOUS
<1> HIDE DEF T
<1>4. T = Seq(S)  BY <1>1, <1>2, <1>3, InductiveSeqs
<1> QED  BY <1>4 DEF T

LEMMA KeptKept ==
    ASSUME NEW S, NEW a, NEW b
    PROVE  \A s \in Seq(S) : Kept(Kept(s, a), b) = Kept(s, a \cap b)
<1> DEFINE T == {s \in Seq(S) : Kept(Kept(s, a), b) = Kept(s, a \cap b)}
<1>1. <<>> \in T  BY KeptEmpty, EmptySeq
<1>2. ASSUME NEW s \in T, NEW x \in S PROVE Append(s, x) \in T
  <2>1. Kept(s, a) \in Seq(S \cap a) BY KeptSeq
  <2>2. CASE x \in a
    <3> DEFINE k == Kept(s, a)
    <3>0. Kept(k, b) = Kept(s, a \cap b)  OBVIOUS
    <3>1. Kept(Append(s, x), a) = Append(k, x)  BY <2>2, KeptAppend, Zenon
    <3> HIDE DEF k
    <3>2. k \in Seq(S \cap a) /\ x \in S \cap a  BY <2>1, <2>2 DEF k
    <3>3. Kept(Append(k, x), b) = IF x \in b THEN Append(Kept(k, b), x) ELSE Kept(k, b)
      <4> DEFINE R == S \cap a
      <4> HIDE DEF R
      <4>1. k \in Seq(R) /\ x \in R  BY <3>2 DEF R
      <4> QED  BY <4>1, KeptAppend, Zenon
    <3>4. Kept(Append(s, x), a \cap b)
            = IF x \in a \cap b THEN Append(Kept(s, a \cap b), x) ELSE Kept(s, a \cap b)
      BY KeptAppend, Zenon
    <3>5. Kept(Kept(Append(s, x), a), b) = Kept(Append(s, x), a \cap b)
      BY <2>2, <3>0, <3>1, <3>3, <3>4, Zenon
    <3> QED  BY <3>5, AppendProperties
  <2>3. CASE x \notin a
    <3>1. Kept(Append(s, x), a) = Kept(s, a) /\ Kept(Append(s, x), a \cap b) = Kept(s, a \cap b)
      BY <2>3, KeptAppend, Zenon
    <3> QED  BY <3>1, AppendProperties
  <2> QED  BY <2>2, <2>3
<1>3. T \subseteq Seq(S)  OBVIOUS
<1> HIDE DEF T
<1>4. T = Seq(S)  BY <1>1, <1>2, <1>3, InductiveSeqs
<1> QED  BY <1>4 DEF T

\* Nothing is kept of what has nothing to keep, and no more than is there.
LEMMA KeptNothing ==
    ASSUME NEW S, NEW keep
    PROVE  \A s \in Seq(S) : Kept(s, keep) = <<>> <=> \A i \in 1 .. Len(s) : s[i] \notin keep
<1> DEFINE None(s) == \A i \in 1 .. Len(s) : s[i] \notin keep
           T == {s \in Seq(S) : Kept(s, keep) = <<>> <=> None(s)}
<1>1. <<>> \in T  BY KeptEmpty, EmptySeq
<1>2. ASSUME NEW s \in T, NEW x \in S PROVE Append(s, x) \in T
  <2>1. None(Append(s, x)) <=> None(s) /\ x \notin keep  BY AppendProperties, LenProperties
  <2>2. Kept(s, keep) \in Seq(S \cap keep)  BY KeptSeq
  <2>3. CASE x \in keep
    <3>1. Kept(Append(s, x), keep) # <<>>  BY <2>2, <2>3, KeptAppend, AppendProperties
    <3> QED  BY <2>1, <2>3, <3>1, AppendProperties
  <2>4. CASE x \notin keep  BY <2>1, <2>4, KeptAppend, AppendProperties
  <2> QED  BY <2>3, <2>4
<1>3. T \subseteq Seq(S)  OBVIOUS
<1> HIDE DEF T
<1>4. T = Seq(S)  BY <1>1, <1>2, <1>3, InductiveSeqs
<1> QED  BY <1>4 DEF T

LEMMA KeptAll ==
    ASSUME NEW S, NEW keep
    PROVE  \A s \in Seq(S) : Kept(s, keep) = s <=> \A i \in 1 .. Len(s) : s[i] \in keep
<1> DEFINE Every(s) == \A i \in 1 .. Len(s) : s[i] \in keep
           T == {s \in Seq(S) : Len(Kept(s, keep)) <= Len(s) /\ (Kept(s, keep) = s <=> Every(s))}
<1>1. <<>> \in T  BY KeptEmpty, EmptySeq
<1>2. ASSUME NEW s \in T, NEW x \in S PROVE Append(s, x) \in T
  <2>1. Every(Append(s, x)) <=> Every(s) /\ x \in keep  BY AppendProperties, LenProperties
  <2>2. Kept(s, keep) \in Seq(S \cap keep) /\ Kept(s, keep) \in Seq(S)  BY KeptSeq, SeqMonotonic
  <2>3. CASE x \in keep
    <3> DEFINE k == Kept(s, keep)
    <3>0. k \in Seq(S) /\ (k = s <=> Every(s)) /\ Len(k) <= Len(s)  BY <2>2
    <3>1. Kept(Append(s, x), keep) = Append(k, x)  BY <2>3, KeptAppend, Zenon
    <3> HIDE DEF k
    <3>2. Append(k, x) = Append(s, x) <=> k = s
      <4>1. \A u, v \in Seq(S) : Append(u, x) = Append(v, x) => u = v  BY AppendInjective
      <4>2. s \in Seq(S)  OBVIOUS
      <4> QED  BY <3>0, <4>1, <4>2, Zenon
    <3>3. Len(Append(k, x)) <= Len(Append(s, x))  BY <3>0, AppendProperties, LenProperties
    <3>4. Append(s, x) \in Seq(S)  BY AppendProperties
    <3> HIDE DEF Every
    <3>5. Every(Append(s, x)) <=> Every(s)  BY <2>1, <2>3
    <3> QED  BY <3>0, <3>1, <3>2, <3>3, <3>4, <3>5
  <2>4. CASE x \notin keep
    <3> DEFINE k == Kept(s, keep)
    <3>0. k \in Seq(S) /\ Len(k) <= Len(s)  BY <2>2
    <3>1. Kept(Append(s, x), keep) = k  BY <2>4, KeptAppend, Zenon
    <3> HIDE DEF k
    <3>2. Len(k) < Len(Append(s, x))  BY <3>0, AppendProperties, LenProperties
    <3>3. k # Append(s, x) /\ Len(k) <= Len(Append(s, x))
      BY <3>0, <3>2, AppendProperties, LenProperties
    <3>4. Append(s, x) \in Seq(S)  BY AppendProperties
    <3> HIDE DEF Every
    <3>5. ~ Every(Append(s, x))  BY <2>1, <2>4
    <3> QED  BY <3>1, <3>3, <3>4, <3>5
  <2> QED  BY <2>3, <2>4
<1>3. T \subseteq Seq(S)  OBVIOUS
<1> HIDE DEF T
<1>4. T = Seq(S)  BY <1>1, <1>2, <1>3, InductiveSeqs
<1> QED  BY <1>4 DEF T

\* The entries kept are those there that are to be kept.
LEMMA KeptEntries ==
    ASSUME NEW S, NEW s \in Seq(S), NEW keep
    PROVE  /\ \A i \in 1 .. Len(Kept(s, keep)) :
                 Kept(s, keep)[i] \in keep /\ \E j \in 1 .. Len(s) : s[j] = Kept(s, keep)[i]
           /\ \A j \in 1 .. Len(s) : s[j] \in keep =>
                 \E i \in 1 .. Len(Kept(s, keep)) : Kept(s, keep)[i] = s[j]
<1> DEFINE R == {s[j] : j \in 1 .. Len(s)}
<1>1. s \in Seq(R)  BY LenProperties, SeqOfRange, RangeEquality
<1>2. Kept(s, keep) \in Seq(R \cap keep)  BY <1>1, KeptSeq
<1>3. ASSUME NEW i \in 1 .. Len(Kept(s, keep))
      PROVE  Kept(s, keep)[i] \in keep /\ \E j \in 1 .. Len(s) : s[j] = Kept(s, keep)[i]
  BY <1>2, ElementOfSeq
<1>4. ASSUME NEW j \in 1 .. Len(s), s[j] \in keep
      PROVE  \E i \in 1 .. Len(Kept(s, keep)) : Kept(s, keep)[i] = s[j]
  <2>1. Kept(Kept(s, keep), {s[j]}) = Kept(s, {s[j]})
    <3>1. keep \cap {s[j]} = {s[j]}  BY <1>4
    <3> QED  BY <3>1, KeptKept
  <2>2. Kept(s, {s[j]}) # <<>>  BY KeptNothing
  <2> QED  BY <1>2, <2>1, <2>2, KeptNothing
<1> QED  BY <1>3, <1>4

\* No entry occurs twice.
Distinct(s) == \A i, j \in 1 .. Len(s) : s[i] = s[j] => i = j

LEMMA AppendDistinct ==
    ASSUME NEW S, NEW s \in Seq(S), NEW x \in S
    PROVE  Distinct(Append(s, x)) <=> Distinct(s) /\ \A i \in 1 .. Len(s) : s[i] # x
<1> DEFINE n == Len(s)
           t == Append(s, x)
<1>1. n \in Nat /\ Len(t) = n + 1 /\ t[n + 1] = x /\ \A i \in 1 .. n : t[i] = s[i]
  BY AppendProperties, LenProperties
<1> HIDE DEF t
<1>2. ASSUME Distinct(t) PROVE Distinct(s) /\ \A i \in 1 .. n : s[i] # x
  <2>1. Distinct(s)  BY <1>1, <1>2 DEF Distinct
  <2>2. ASSUME NEW i \in 1 .. n, s[i] = x PROVE FALSE
    <3>1. i \in 1 .. n + 1 /\ n + 1 \in 1 .. n + 1 /\ t[i] = t[n + 1] /\ i # n + 1  BY <1>1, <2>2
    <3> QED  BY <1>1, <1>2, <3>1 DEF Distinct
  <2> QED  BY <2>1, <2>2
<1>3. ASSUME Distinct(s), \A i \in 1 .. n : s[i] # x PROVE Distinct(t)
  BY <1>1, <1>3 DEF Distinct
<1> QED  BY <1>2, <1>3 DEF t

\* What is kept of distinct entries is distinct.
LEMMA KeptDistinct ==
    ASSUME NEW S, NEW keep
    PROVE  \A s \in Seq(S) : Distinct(s) => Distinct(Kept(s, keep))
<1> DEFINE T == {s \in Seq(S) : Distinct(s) => Distinct(Kept(s, keep))}
<1>1. <<>> \in T  BY KeptEmpty, EmptySeq
<1>2. ASSUME NEW s \in T, NEW x \in S PROVE Append(s, x) \in T
  <2> DEFINE k == Kept(s, keep)
             t == Append(s, x)
  <2>0. s \in Seq(S) /\ t \in Seq(S) /\ (Distinct(s) => Distinct(k))  BY AppendProperties
  <2> HIDE DEF T
  <2>1. Kept(t, keep) = IF x \in keep THEN Append(k, x) ELSE k  BY <2>0, KeptAppend, Zenon
  <2>2. k \in Seq(S)
    <3>1. k \in Seq(S \cap keep)  BY <2>0, KeptSeq, Zenon
    <3> QED  BY <3>1, SeqMonotonic
  <2>3. \A i \in 1 .. Len(k) : \E j \in 1 .. Len(s) : s[j] = k[i]  BY <2>0, KeptEntries
  <2> HIDE DEF k
  <2>4. Distinct(t) => Distinct(s) /\ \A i \in 1 .. Len(s) : s[i] # x  BY <2>0, AppendDistinct
  <2>5. Distinct(t) => Distinct(Append(k, x))  BY <2>0, <2>2, <2>3, <2>4, AppendDistinct
  <2>6. Distinct(t) => Distinct(Kept(t, keep))  BY <2>0, <2>1, <2>4, <2>5
  <2> QED  BY <2>0, <2>6 DEF T
<1>3. T \subseteq Seq(S)  OBVIOUS
<1> HIDE DEF T
<1>4. T = Seq(S)  BY <1>1, <1>2, <1>3, InductiveSeqs
<1> QED  BY <1>4 DEF T
=============================================================================
