----------------------------- MODULE Inductions -----------------------------
(***************************************************************************)
(* Induction without an operator as a parameter: the set of the numbers    *)
(* that are good holds 0 and with a number its successor, so it holds them *)
(* all.  From that, what FlattenSeq computes.                              *)
(***************************************************************************)
EXTENDS Integers, Sequences, SequencesExt, SequenceTheorems,
        WellFoundedInduction, TLAPS

\* A set of natural numbers has a least element.
LEMMA LeastNat ==
    ASSUME NEW T, T \subseteq Nat, T # {}
    PROVE  \E n \in T : \A m \in T : n <= m
<1> DEFINE R == OpToRel(<, Nat)
<1>1. IsWellFoundedOn(R, Nat)
  BY Zenon, NatLessThanWellFounded
<1>2. \A x, y \in Nat : y < x => <<y, x>> \in R
  BY DEF OpToRel
<1> HIDE DEF R
<1>3. PICK x \in T : \A y \in T : <<y, x>> \notin R
  BY Zenon, <1>1, WFMin
<1>4. \A y \in T : x <= y
  <2> TAKE y \in T
  <2>1. x \in Nat /\ y \in Nat /\ ~(y < x)
    BY Zenon, <1>2, <1>3
  <2> QED BY <2>1
<1> QED BY <1>3, <1>4, Zenon

\* Induction over a set.
LEMMA InductiveSet ==
    ASSUME NEW G, 0 \in G, \A n \in Nat : n \in G => n + 1 \in G
    PROVE  Nat \subseteq G
<1> SUFFICES ASSUME Nat \ G # {} PROVE FALSE
  OBVIOUS
<1>1. PICK n \in Nat \ G : \A m \in Nat \ G : n <= m
  BY Zenon, LeastNat
<1>2. n # 0 /\ n - 1 \in Nat
  BY <1>1
<1>3. n - 1 \in G
  BY <1>1, <1>2
<1> QED BY <1>1, <1>2, <1>3

\* The same up to a number.
LEMMA InductiveUpTo ==
    ASSUME NEW N \in Nat, NEW G, 0 \in G, \A n \in 0..N-1 : n \in G => n + 1 \in G
    PROVE  0..N \subseteq G
<1> DEFINE H == G \cup {n \in Nat : n > N}
<1>1. 0 \in H
  OBVIOUS
<1>2. \A n \in Nat : n \in H => n + 1 \in H
  OBVIOUS
<1>3. Nat \subseteq H
  <2> HIDE DEF H
  <2> QED BY <1>1, <1>2, InductiveSet
<1> QED BY <1>3

\* Induction over the sequences of a set: the empty one, and one more element.
LEMMA InductiveSequences ==
    ASSUME NEW S, NEW G, <<>> \in G, \A s \in Seq(S), e \in S : s \in G => Append(s, e) \in G
    PROVE  Seq(S) \subseteq G
<1> DEFINE H == {n \in Nat : \A s \in Seq(S) : Len(s) = n => s \in G}
<1>1. 0 \in H
  <2>1. \A s \in Seq(S) : Len(s) = 0 => s = <<>>
    BY EmptySeq
  <2> QED BY <2>1
<1>2. ASSUME NEW n \in Nat, n \in H PROVE n + 1 \in H
  <2> SUFFICES ASSUME NEW s \in Seq(S), Len(s) = n + 1 PROVE s \in G
    OBVIOUS
  <2>1. s # <<>>
    BY EmptySeq
  <2>2. PICK t \in Seq(S), e \in S : s = Append(t, e)
    BY <2>1, SequenceEmptyOrAppend
  <2>3. Len(t) = n
    BY <2>2, AppendProperties, LenProperties
  <2> QED BY <1>2, <2>2, <2>3
<1>3. Nat \subseteq H
  <2> HIDE DEF H
  <2> QED BY <1>1, <1>2, InductiveSet
<1>4. \A s \in Seq(S) : Len(s) \in Nat
  BY LenProperties
<1> QED BY <1>3, <1>4

-----------------------------------------------------------------------------
(* FlattenSeq *)

\* The recursive function that it is defined with exists.
LEMMA FlattenIs ==
    ASSUME NEW S, NEW ss \in Seq(Seq(S)), Len(ss) # 0
    PROVE  \E f : /\ f[1] = ss[1]
                  /\ \A i \in 1..Len(ss)-1 : f[i+1] = f[i] \o ss[i+1]
                  /\ FlattenSeq(ss) = f[Len(ss)]
<1> DEFINE Good(n) == \E f : f = [i \in 1..n |-> IF i = 1 THEN ss[i] ELSE f[i-1] \o ss[i]]
           G == {n \in Nat : Good(n)}
<1>1. 0 \in G
  <2>1. [i \in 1..0 |-> 0] = [i \in 1..0 |-> IF i = 1 THEN ss[i] ELSE [j \in 1..0 |-> 0][i-1] \o ss[i]]
    OBVIOUS
  <2> QED BY Zenon, <2>1
<1>2. ASSUME NEW n \in Nat, n \in G PROVE n + 1 \in G
  <2>1. PICK f : f = [i \in 1..n |-> IF i = 1 THEN ss[i] ELSE f[i-1] \o ss[i]]
    BY Zenon, <1>2
  <2> DEFINE h == [i \in 1..n+1 |-> IF i = n + 1 THEN IF i = 1 THEN ss[i] ELSE f[i-1] \o ss[i] ELSE f[i]]
  <2>2. h = [i \in 1..n+1 |-> IF i = 1 THEN ss[i] ELSE h[i-1] \o ss[i]]
    <3> SUFFICES ASSUME NEW i \in 1..n+1 PROVE h[i] = IF i = 1 THEN ss[i] ELSE h[i-1] \o ss[i]
      BY Zenon
    <3>1. i # 1 => i - 1 \in 1..n
      OBVIOUS
    <3>2. \A j \in 1..n : h[j] = f[j]
      OBVIOUS
    <3>3. \A j \in 1..n : f[j] = IF j = 1 THEN ss[j] ELSE f[j-1] \o ss[j]
      BY Zenon, <2>1
    <3>4. CASE i = n + 1
      <4>1. h[i] = IF i = 1 THEN ss[i] ELSE f[i-1] \o ss[i]
        BY <3>4
      <4> QED BY <4>1, <3>1, <3>2 DEF h
    <3>5. CASE i # n + 1
      <4>1. i \in 1..n /\ h[i] = f[i]
        BY <3>5
      <4> HIDE DEF h
      <4> QED BY <4>1, <3>1, <3>2, <3>3
    <3> QED BY <3>4, <3>5
  <2>3. Good(n + 1)
    BY <2>2, Zenon
  <2> HIDE DEF Good
  <2> QED BY <2>3
<1>3. Good(Len(ss))
  <2>1. Nat \subseteq G
    <3> HIDE DEF G
    <3> QED BY Zenon, <1>1, <1>2, InductiveSet
  <2>2. Len(ss) \in G
    <3> HIDE DEF G
    <3> QED BY <2>1
  <2> QED BY <2>2, Zenon
<1> DEFINE F == CHOOSE f : f = [i \in 1..Len(ss) |-> IF i = 1 THEN ss[i] ELSE f[i-1] \o ss[i]]
<1>4. F = [i \in 1..Len(ss) |-> IF i = 1 THEN ss[i] ELSE F[i-1] \o ss[i]]
  BY <1>3, Zenon
<1>5. FlattenSeq(ss) = F[Len(ss)]
  BY Zenon DEF FlattenSeq
<1> HIDE DEF F
<1>6. \A i \in 1..Len(ss) : F[i] = IF i = 1 THEN ss[i] ELSE F[i-1] \o ss[i]
  BY <1>4, Zenon
<1>7. F[1] = ss[1] /\ \A i \in 1..Len(ss)-1 : F[i+1] = F[i] \o ss[i+1]
  <2>1. F[1] = ss[1]
    BY <1>6
  <2>2. ASSUME NEW i \in 1..Len(ss)-1 PROVE F[i+1] = F[i] \o ss[i+1]
    <3>1. i + 1 \in 1..Len(ss) /\ i + 1 # 1 /\ (i + 1) - 1 = i
      OBVIOUS
    <3> QED BY Zenon, <1>6, <3>1
  <2> QED BY Zenon, <2>1, <2>2
<1> QED BY Zenon, <1>5, <1>7

\* Nothing comes of nothing.
LEMMA FlattenEmpty == FlattenSeq(<<>>) = <<>>
BY DEF FlattenSeq

\* One more sequence comes at the end.
LEMMA FlattenAppend ==
    ASSUME NEW S, NEW ss \in Seq(Seq(S)), NEW s \in Seq(S)
    PROVE  FlattenSeq(Append(ss, s)) = FlattenSeq(ss) \o s
<1> DEFINE tt == Append(ss, s)
<1>0. /\ tt \in Seq(Seq(S)) /\ Len(tt) = Len(ss) + 1 /\ Len(ss) \in Nat
      /\ tt[Len(ss)+1] = s
      /\ \A i \in 1..Len(ss) : tt[i] = ss[i]
  BY AppendProperties, LenProperties
<1> HIDE DEF tt
<1>1. PICK g : /\ g[1] = tt[1]
               /\ \A i \in 1..Len(tt)-1 : g[i+1] = g[i] \o tt[i+1]
               /\ FlattenSeq(tt) = g[Len(tt)]
  <2>1. Len(tt) # 0
    BY <1>0
  <2> QED BY <1>0, <2>1, FlattenIs, Zenon
<1>2. CASE Len(ss) = 0
  <2>1. ss = <<>>
    BY <1>2, EmptySeq
  <2>2. FlattenSeq(tt) = s
    BY <1>0, <1>1, <1>2
  <2>3. FlattenSeq(ss) \o s = s
    BY <2>1, FlattenEmpty, ConcatEmptySeq, Zenon
  <2> QED BY <2>2, <2>3 DEF tt
<1>3. CASE Len(ss) # 0
  <2>1. PICK f : /\ f[1] = ss[1]
                 /\ \A i \in 1..Len(ss)-1 : f[i+1] = f[i] \o ss[i+1]
                 /\ FlattenSeq(ss) = f[Len(ss)]
    BY <1>3, FlattenIs, Zenon
  <2> DEFINE G == {n \in Nat : n \in 1..Len(ss) => g[n] = f[n]}
  <2>2. 0 \in G
    OBVIOUS
  <2>3. ASSUME NEW n \in Nat, n \in G PROVE n + 1 \in G
    <3> SUFFICES ASSUME n + 1 \in 1..Len(ss) PROVE g[n+1] = f[n+1]
      OBVIOUS
    <3>1. CASE n = 0
      <4>1. n + 1 = 1 /\ 1 \in 1..Len(ss)
        BY <3>1
      <4>2. g[1] = f[1]
        BY <1>0, <1>1, <2>1, <4>1, Zenon
      <4> QED BY <4>1, <4>2
    <3>2. CASE n # 0
      <4>1. n \in 1..Len(ss) /\ n \in 1..Len(ss)-1 /\ n \in 1..Len(tt)-1
        BY <1>0, <3>2
      <4>2. g[n] = f[n] /\ f[n+1] = f[n] \o ss[n+1] /\ g[n+1] = g[n] \o tt[n+1]
        BY Zenon, <1>1, <2>1, <2>3, <4>1
      <4> QED BY Zenon, <1>0, <4>2
    <3> QED BY <3>1, <3>2
  <2>4. Len(ss) \in G
    <3>1. Nat \subseteq G
      <4> HIDE DEF G
      <4> QED BY <2>2, <2>3, InductiveSet
    <3> HIDE DEF G
    <3> QED BY <1>0, <3>1
  <2>5. g[Len(ss)] = f[Len(ss)]
    BY <1>0, <1>3, <2>4
  <2>6. Len(ss) \in 1..Len(tt)-1
    BY <1>0, <1>3
  <2>7. g[Len(ss)+1] = g[Len(ss)] \o s
    BY Zenon, <1>0, <1>1, <2>6
  <2> QED BY <1>0, <1>1, <2>1, <2>5, <2>7, Zenon DEF tt
<1> QED BY <1>2, <1>3

\* Flattening sequences of S gives a sequence of S.
LEMMA FlattenType ==
    ASSUME NEW S, NEW ss \in Seq(Seq(S))
    PROVE  FlattenSeq(ss) \in Seq(S)
<1> DEFINE G == {tt \in Seq(Seq(S)) : FlattenSeq(tt) \in Seq(S)}
<1>1. <<>> \in G
  BY FlattenEmpty, EmptySeq, Zenon
<1>2. ASSUME NEW tt \in Seq(Seq(S)), NEW s \in Seq(S), tt \in G PROVE Append(tt, s) \in G
  <2>1. FlattenSeq(Append(tt, s)) = FlattenSeq(tt) \o s
    BY FlattenAppend
  <2> QED BY Zenon, <1>2, <2>1, ConcatProperties, AppendProperties
<1>3. Seq(Seq(S)) \subseteq G
  <2> HIDE DEF G
  <2> QED BY <1>1, <1>2, InductiveSequences
<1> QED BY <1>3

\* A sequence of one is what it holds.
LEMMA FlattenOne ==
    ASSUME NEW S, NEW s \in Seq(S)
    PROVE  FlattenSeq(<<s>>) = s
<1>1. <<>> \in Seq(Seq(S)) /\ <<s>> = Append(<<>>, s)
  OBVIOUS
<1>2. <<>> \o s = s
  BY ConcatEmptySeq
<1> QED BY <1>1, <1>2, FlattenAppend, FlattenEmpty, Zenon

\* Concatenation of the sequences over S is associative.
Assoc(S) == \A a, b, c \in Seq(S) : (a \o b) \o c = a \o (b \o c)

\* It is, over every set.
LEMMA Associative ==
    ASSUME NEW S
    PROVE  Assoc(S)
<1> SUFFICES ASSUME NEW a \in Seq(S), NEW b \in Seq(S), NEW c \in Seq(S)
             PROVE  (a \o b) \o c = a \o (b \o c)
  BY DEF Assoc
<1> QED BY ConcatAssociative

\* A sequence that is one sequence and then another is their concatenation.
LEMMA ConcatIs ==
    ASSUME NEW S, NEW a \in Seq(S), NEW b \in Seq(S), NEW c \in Seq(S),
           Len(c) = Len(a) + Len(b),
           \A i \in 1..Len(a) : c[i] = a[i],
           \A i \in 1..Len(b) : c[Len(a) + i] = b[i]
    PROVE  c = a \o b
<1>1. a \o b \in Seq(S) /\ Len(a \o b) = Len(c)
  OBVIOUS
<1>2. ASSUME NEW i \in 1..Len(c) PROVE c[i] = (a \o b)[i]
  <2>1. CASE i <= Len(a)
    BY <2>1
  <2>2. CASE ~(i <= Len(a))
    <3>1. i - Len(a) \in 1..Len(b) /\ Len(a) + (i - Len(a)) = i
      BY <2>2
    <3>2. (a \o b)[i] = b[i - Len(a)]
      BY <2>2
    <3>3. c[Len(a) + (i - Len(a))] = b[i - Len(a)]
      BY <3>1
    <3> QED BY <3>1, <3>2, <3>3
  <2> QED BY <2>1, <2>2
<1> QED BY <1>1, <1>2, SeqEqual

\* Flattening a concatenation concatenates.
LEMMA FlattenConcat ==
    ASSUME NEW S, NEW ss \in Seq(Seq(S)), NEW tt \in Seq(Seq(S))
    PROVE  FlattenSeq(ss \o tt) = FlattenSeq(ss) \o FlattenSeq(tt)
<1> DEFINE G == {uu \in Seq(Seq(S)) : FlattenSeq(ss \o uu) = FlattenSeq(ss) \o FlattenSeq(uu)}
<1>0. FlattenSeq(ss) \in Seq(S)
  BY FlattenType
<1>1. <<>> \in G
  <2>1. ss \o <<>> = ss /\ FlattenSeq(ss) \o <<>> = FlattenSeq(ss)
    BY <1>0, ConcatEmptySeq
  <2> QED BY <2>1, FlattenEmpty, EmptySeq, Zenon
<1>2. ASSUME NEW uu \in Seq(Seq(S)), NEW s \in Seq(S), uu \in G PROVE Append(uu, s) \in G
  <2>1. ss \o uu \in Seq(Seq(S)) /\ Append(uu, s) \in Seq(Seq(S))
    BY ConcatProperties, AppendProperties
  <2>2. ss \o Append(uu, s) = Append(ss \o uu, s)
    OBVIOUS
  <2>3. FlattenSeq(Append(ss \o uu, s)) = (FlattenSeq(ss) \o FlattenSeq(uu)) \o s
    BY Zenon, <1>2, <2>1, FlattenAppend
  <2>4. FlattenSeq(uu) \in Seq(S) /\ FlattenSeq(Append(uu, s)) = FlattenSeq(uu) \o s
    BY FlattenAppend, FlattenType
  <2>5. (FlattenSeq(ss) \o FlattenSeq(uu)) \o s = FlattenSeq(ss) \o (FlattenSeq(uu) \o s)
    <3>1. Assoc(S)
      BY Associative
    <3> QED BY <1>0, <2>4, <3>1, Zenon DEF Assoc
  <2> QED BY <2>1, <2>2, <2>3, <2>4, <2>5, Zenon
<1>3. Seq(Seq(S)) \subseteq G
  <2> HIDE DEF G
  <2> QED BY <1>1, <1>2, InductiveSequences
<1> QED BY <1>3

Holds(s, x) == \E p \in 1..Len(s) : s[p] = x

\* What a sequence holds are the members of its set.
LEMMA HoldsToSet ==
    ASSUME NEW S, NEW s \in Seq(S), NEW x
    PROVE  Holds(s, x) <=> x \in ToSet(s)
<1>1. DOMAIN s = 1..Len(s)
  OBVIOUS
<1> QED BY <1>1, Zenon DEF Holds, ToSet

\* What a concatenation holds is what its parts hold.
LEMMA ConcatHolds ==
    ASSUME NEW S, NEW s \in Seq(S), NEW t \in Seq(S), NEW x
    PROVE  Holds(s \o t, x) <=> Holds(s, x) \/ Holds(t, x)
<1>1. \A p \in 1..Len(s) : p \in 1..Len(s \o t) /\ (s \o t)[p] = s[p]
  OBVIOUS
<1>2. \A p \in 1..Len(t) : p + Len(s) \in 1..Len(s \o t) /\ (s \o t)[p + Len(s)] = t[p]
  OBVIOUS
<1>3. \A p \in 1..Len(s \o t) : \/ p \in 1..Len(s) /\ (s \o t)[p] = s[p]
                                \/ p - Len(s) \in 1..Len(t) /\ (s \o t)[p] = t[p - Len(s)]
  OBVIOUS
<1> QED BY <1>1, <1>2, <1>3, Zenon DEF Holds

\* What a flattened sequence holds is what its members hold.
LEMMA FlattenHolds ==
    ASSUME NEW S, NEW ss \in Seq(Seq(S)), NEW x
    PROVE  Holds(FlattenSeq(ss), x) <=> \E i \in 1..Len(ss) : Holds(ss[i], x)
<1> DEFINE Some(uu) == \E i \in 1..Len(uu) : Holds(uu[i], x)
           G == {uu \in Seq(Seq(S)) : Holds(FlattenSeq(uu), x) <=> Some(uu)}
<1>1. <<>> \in G
  BY FlattenEmpty, EmptySeq DEF Holds
<1>2. ASSUME NEW uu \in Seq(Seq(S)), NEW s \in Seq(S), uu \in G PROVE Append(uu, s) \in G
  <2>1. FlattenSeq(Append(uu, s)) = FlattenSeq(uu) \o s /\ FlattenSeq(uu) \in Seq(S)
    BY FlattenAppend, FlattenType
  <2>2. Holds(FlattenSeq(uu) \o s, x) <=> Holds(FlattenSeq(uu), x) \/ Holds(s, x)
    BY <2>1, ConcatHolds
  <2>3. Some(Append(uu, s)) <=> Some(uu) \/ Holds(s, x)
    <3> DEFINE vv == Append(uu, s)
    <3>1. /\ \A i \in 1..Len(uu) : i \in 1..Len(vv) /\ vv[i] = uu[i]
          /\ Len(uu) + 1 \in 1..Len(vv) /\ vv[Len(uu)+1] = s
          /\ \A i \in 1..Len(vv) : i \in 1..Len(uu) \/ i = Len(uu) + 1
      OBVIOUS
    <3> HIDE DEF vv
    <3>2. Some(vv) <=> Some(uu) \/ Holds(s, x)
      BY <3>1, Zenon
    <3> QED BY <3>2 DEF vv
  <2>4. Append(uu, s) \in Seq(Seq(S))
    BY AppendProperties
  <2> HIDE DEF Some
  <2> QED BY <1>2, <2>1, <2>2, <2>3, <2>4, Zenon
<1>3. Seq(Seq(S)) \subseteq G
  <2> HIDE DEF G
  <2> QED BY <1>1, <1>2, InductiveSequences
<1> QED BY <1>3, Zenon
=============================================================================
