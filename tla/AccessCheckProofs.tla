------------------------- MODULE AccessCheckProofs --------------------------
(***************************************************************************)
(* The searches of the two trees of patterns, and what an access check     *)
(* grants, for any alphabet, any length and number of patterns.            *)
(***************************************************************************)
EXTENDS AccessCheck, Inductions

-----------------------------------------------------------------------------
(* Words *)

\* u is the beginning of v.
Begins(u, v) == Len(u) <= Len(v) /\ \A i \in 1..Len(u) : u[i] = v[i]

\* u and v differ, and the first letter that differs is smaller in u.
Before(u, v) ==
    \E i \in 1..Len(u) : i <= Len(v) /\ u[i] < v[i] /\ \A j \in 1..i-1 : u[j] = v[j]

\* A word is a sequence of numbers.
LEMMA WordType ==
    ASSUME NEW u \in Word
    PROVE  u \in Seq(Nat) /\ Len(u) \in Nat /\ Len(u) <= MaxLen
<1>1. PICK m \in 0..MaxLen : u \in [1..m -> Letter]
  BY DEF Word, BoundedSeq, SeqOf
<1>2. m \in Nat /\ m <= MaxLen
  BY TreesAssumption
<1>3. u \in [1..m -> Nat]
  BY <1>1, TreesAssumption, Zenon
<1> QED BY <1>2, <1>3

\* IsPrefix, letter by letter.
LEMMA PrefixIs ==
    ASSUME NEW u \in Seq(Nat), NEW v \in Seq(Nat)
    PROVE  IsPrefix(u, v) <=> Begins(u, v)
BY DEF IsPrefix, Begins

\* Words that begin with each other are equal.
LEMMA BeginsEqual ==
    ASSUME NEW u \in Seq(Nat), NEW v \in Seq(Nat), Begins(u, v), Len(u) = Len(v)
    PROVE  u = v
BY SeqEqual DEF Begins

\* Two words differ at some letter, or one of them begins the other; never both.
LEMMA WordsCompare ==
    ASSUME NEW u \in Seq(Nat), NEW v \in Seq(Nat)
    PROVE  /\ Before(u, v) \/ Before(v, u) \/ Begins(u, v) \/ Begins(v, u)
           /\ ~(Before(u, v) /\ Before(v, u))
           /\ ~(Before(u, v) /\ Begins(u, v))
           /\ ~(Before(u, v) /\ Begins(v, u))
<1>1. Before(u, v) \/ Before(v, u) \/ Begins(u, v) \/ Begins(v, u)
  <2> DEFINE D == {i \in Nat : i \in 1..Len(u) /\ i \in 1..Len(v) /\ u[i] # v[i]}
  <2>1. CASE D = {}
    <3>1. \A i \in 1..Len(u) : i \in 1..Len(v) => u[i] = v[i]
      BY <2>1
    <3>2. CASE Len(u) <= Len(v)
      BY <3>1, <3>2 DEF Begins
    <3>3. CASE Len(v) <= Len(u)
      BY <3>1, <3>3 DEF Begins
    <3> QED BY <3>2, <3>3
  <2>2. CASE D # {}
    <3>1. PICK i \in D : \A j \in D : i <= j
      <4> HIDE DEF D
      <4>1. D \subseteq Nat
        BY DEF D
      <4> QED BY <2>2, <4>1, LeastNat, Zenon
    <3>2. ASSUME NEW j \in 1..i-1 PROVE u[j] = v[j]
      <4>0. i \in 1..Len(u) /\ i \in 1..Len(v)
        BY <3>1
      <4>1. j \in 1..Len(u) /\ j \in 1..Len(v) /\ ~(i <= j)
        <5> HIDE DEF D
        <5>1. Len(u) \in Nat /\ Len(v) \in Nat /\ j \in 1..i-1
          OBVIOUS
        <5> QED BY <4>0, <5>1
      <4>2. j \notin D
        BY <3>1, <4>1
      <4> QED BY <4>1, <4>2
    <3>3. i \in 1..Len(u) /\ i \in 1..Len(v) /\ u[i] # v[i] /\ u[i] \in Nat /\ v[i] \in Nat
      BY <3>1
    <3>4. u[i] < v[i] \/ v[i] < u[i]
      BY <3>3
    <3> QED BY <3>2, <3>3, <3>4 DEF Before
  <2> QED BY <2>1, <2>2
<1>2. ~(Before(u, v) /\ Before(v, u))
  <2> SUFFICES ASSUME Before(u, v), Before(v, u) PROVE FALSE
    OBVIOUS
  <2>1. PICK i \in 1..Len(u) : i <= Len(v) /\ u[i] < v[i] /\ \A j \in 1..i-1 : u[j] = v[j]
    BY DEF Before
  <2>2. PICK k \in 1..Len(v) : k <= Len(u) /\ v[k] < u[k] /\ \A j \in 1..k-1 : v[j] = u[j]
    BY Zenon DEF Before
  <2>3. i = k \/ i \in 1..k-1 \/ k \in 1..i-1
    OBVIOUS
  <2> QED BY <2>1, <2>2, <2>3
<1>3. ~(Before(u, v) /\ Begins(u, v)) /\ ~(Before(u, v) /\ Begins(v, u))
  BY DEF Before, Begins
<1> QED BY <1>1, <1>2, <1>3

\* The order of the first difference goes on.
LEMMA BeforeTransitive ==
    ASSUME NEW u \in Seq(Nat), NEW v \in Seq(Nat), NEW w \in Seq(Nat), Before(u, v), Before(v, w)
    PROVE  Before(u, w)
<1>1. PICK i \in 1..Len(u) : i <= Len(v) /\ u[i] < v[i] /\ \A j \in 1..i-1 : u[j] = v[j]
  BY DEF Before
<1>2. PICK k \in 1..Len(v) : k <= Len(w) /\ v[k] < w[k] /\ \A j \in 1..k-1 : v[j] = w[j]
  BY Zenon DEF Before
<1>3. CASE i <= k
  <2>1. i \in 1..Len(w) /\ i \in 1..Len(v)
    BY <1>1, <1>2, <1>3
  <2>2. u[i] < w[i]
    <3>1. u[i] \in Nat /\ v[i] \in Nat /\ w[i] \in Nat
      BY <2>1, ElementOfSeq, Zenon
    <3>2. CASE i = k
      <4>1. u[i] < v[i] /\ v[i] < w[i]
        BY <1>1, <1>2, <3>2, Zenon
      <4> QED BY <3>1, <4>1
    <3>3. CASE i \in 1..k-1
      BY <1>1, <1>2, <3>3
    <3> QED BY <1>3, <3>2, <3>3
  <2>3. ASSUME NEW j \in 1..i-1 PROVE u[j] = w[j]
    <3>1. j \in 1..k-1
      BY <1>3
    <3> QED BY <1>1, <1>2, <3>1
  <2> QED BY <2>1, <2>2, <2>3 DEF Before
<1>4. CASE k < i
  <2>1. k \in 1..i-1 /\ k \in 1..Len(u) /\ k <= Len(w)
    BY <1>2, <1>4
  <2>2. u[k] < w[k]
    BY <1>1, <1>2, <2>1
  <2>3. ASSUME NEW j \in 1..k-1 PROVE u[j] = w[j]
    <3>1. j \in 1..i-1
      BY <1>4
    <3> QED BY <1>1, <1>2, <3>1
  <2> QED BY <2>1, <2>2, <2>3 DEF Before
<1> QED BY <1>3, <1>4

\* What comes before a beginning comes before the word.
LEMMA BeforeBegins ==
    ASSUME NEW u \in Seq(Nat), NEW v \in Seq(Nat), NEW w \in Seq(Nat), Before(u, v), Begins(v, w)
    PROVE  Before(u, w)
<1>1. PICK i \in 1..Len(u) : i <= Len(v) /\ u[i] < v[i] /\ \A j \in 1..i-1 : u[j] = v[j]
  BY DEF Before
<1>2. i <= Len(w) /\ u[i] < w[i] /\ \A j \in 1..i-1 : u[j] = w[j]
  BY <1>1 DEF Begins
<1> QED BY <1>2 DEF Before

\* The beginning of a word that comes before another does so too, or begins that one.
LEMMA BeginsBefore ==
    ASSUME NEW u \in Seq(Nat), NEW v \in Seq(Nat), NEW w \in Seq(Nat), Begins(u, v), Before(v, w)
    PROVE  Before(u, w) \/ (Begins(u, w) /\ Len(u) < Len(w))
<1>1. PICK i \in 1..Len(v) : i <= Len(w) /\ v[i] < w[i] /\ \A j \in 1..i-1 : v[j] = w[j]
  BY DEF Before
<1>2. CASE i <= Len(u)
  <2>1. i \in 1..Len(u) /\ u[i] < w[i] /\ \A j \in 1..i-1 : u[j] = w[j]
    BY <1>1, <1>2 DEF Begins
  <2> QED BY <1>1, <2>1 DEF Before
<1>3. CASE Len(u) < i
  BY <1>1, <1>3 DEF Begins
<1> QED BY <1>2, <1>3

\* Beginnings of beginnings, and two beginnings of one word.
LEMMA BeginsTransitive ==
    ASSUME NEW u \in Seq(Nat), NEW v \in Seq(Nat), NEW w \in Seq(Nat)
    PROVE  /\ Begins(u, u)
           /\ Begins(u, v) /\ Begins(v, w) => Begins(u, w)
           /\ Begins(u, w) /\ Begins(v, w) /\ Len(u) <= Len(v) => Begins(u, v)
BY DEF Begins

-----------------------------------------------------------------------------
(* The comparator *)

\* What strncmp looks at.
Take(u, n) == SubSeq(u, 1, Min({n, Len(u)}))

\* The first n letters, or all of them.
LEMMA TakeIs ==
    ASSUME NEW u \in Seq(Nat), NEW n \in Nat
    PROVE  /\ Take(u, n) \in Seq(Nat)
           /\ Len(Take(u, n)) = IF n <= Len(u) THEN n ELSE Len(u)
           /\ \A i \in 1..Len(Take(u, n)) : Take(u, n)[i] = u[i]
<1> DEFINE k == IF n <= Len(u) THEN n ELSE Len(u)
<1>1. Len(u) \in Nat /\ k \in Nat /\ k <= Len(u)
  OBVIOUS
<1>2. Min({n, Len(u)}) = k
  BY <1>1 DEF Min
<1> HIDE DEF k
<1>3. Take(u, n) = SubSeq(u, 1, k)
  BY Zenon, <1>2 DEF Take
<1>4. SubSeq(u, 1, k) \in Seq(Nat) /\ Len(SubSeq(u, 1, k)) = k /\ \A i \in 1..k : SubSeq(u, 1, k)[i] = u[i]
  BY <1>1
<1> QED BY <1>3, <1>4 DEF k

\* strncmp is the order of a dictionary on these.
LEMMA StrncmpIs ==
    ASSUME NEW u \in Seq(Nat), NEW v \in Seq(Nat), NEW n \in Nat,
           NEW a, NEW b, a = Take(u, n), b = Take(v, n)
    PROVE  /\ strncmp(u, v, n) \in {-1, 0, 1}
           /\ strncmp(u, v, n) = 0 <=> a = b
           /\ strncmp(u, v, n) = -1 <=> (Before(a, b) \/ (Begins(a, b) /\ a # b))
           /\ strncmp(u, v, n) = 1 <=> (Before(b, a) \/ (Begins(b, a) /\ a # b))
<1>1. a \in Seq(Nat) /\ b \in Seq(Nat)
  BY TakeIs
<1> DEFINE L == \/ IsStrictPrefix(a, b)
                \/ \E i \in DOMAIN a \cap DOMAIN b : SubSeq(a, 1, i - 1) = SubSeq(b, 1, i - 1) /\ a[i] < b[i]
<1>2. strncmp(u, v, n) = CASE a = b -> 0 [] L -> -1 [] OTHER -> 1
  BY Zenon DEF strncmp, Take
<1>3. L <=> Before(a, b) \/ (Begins(a, b) /\ a # b)
  <2>1. IsStrictPrefix(a, b) <=> Begins(a, b) /\ a # b
    BY <1>1, PrefixIs DEF IsStrictPrefix
  <2>2. ASSUME NEW i \in 1..Len(a), i <= Len(b)
        PROVE  SubSeq(a, 1, i - 1) = SubSeq(b, 1, i - 1) <=> \A j \in 1..i-1 : a[j] = b[j]
    BY <1>1, <2>2
  <2>3. DOMAIN a = 1..Len(a) /\ DOMAIN b = 1..Len(b) /\ Len(a) \in Nat /\ Len(b) \in Nat
    BY <1>1
  <2>4. \A i \in DOMAIN a \cap DOMAIN b : i \in 1..Len(a) /\ i <= Len(b)
    BY <2>3
  <2>5. \A i \in 1..Len(a) : i <= Len(b) => i \in DOMAIN a \cap DOMAIN b
    BY <2>3
  <2>6. (\E i \in DOMAIN a \cap DOMAIN b : SubSeq(a, 1, i - 1) = SubSeq(b, 1, i - 1) /\ a[i] < b[i]) <=> Before(a, b)
    BY <2>2, <2>4, <2>5, Zenon DEF Before
  <2> QED BY <2>1, <2>6, Zenon
<1> HIDE DEF L
<1>4. a = b => ~Before(a, b) /\ ~Before(b, a)
  BY <1>1, WordsCompare
<1>5. a # b => (~L <=> Before(b, a) \/ Begins(b, a))
  <2>1. ASSUME Begins(a, b), Begins(b, a) PROVE a = b
    <3>1. Len(a) = Len(b)
      BY <1>1, <2>1 DEF Begins
    <3> QED BY <1>1, <2>1, <3>1, BeginsEqual
  <2>2. /\ Before(a, b) \/ Before(b, a) \/ Begins(a, b) \/ Begins(b, a)
        /\ ~(Before(a, b) /\ Before(b, a))
        /\ ~(Before(a, b) /\ Begins(a, b)) /\ ~(Before(a, b) /\ Begins(b, a))
        /\ ~(Before(b, a) /\ Begins(a, b)) /\ ~(Before(b, a) /\ Begins(b, a))
    BY <1>1, WordsCompare
  <2> QED BY <1>3, <2>1, <2>2, Zenon
<1>6. CASE a = b
  <2>1. strncmp(u, v, n) = 0
    BY <1>2, <1>3, <1>4, <1>6
  <2> QED BY <1>4, <1>6, <2>1
<1>7. CASE a # b /\ L
  BY <1>2, <1>3, <1>5, <1>7
<1>8. CASE a # b /\ ~L
  BY <1>2, <1>3, <1>5, <1>8
<1> QED BY <1>6, <1>7, <1>8

\* Compared in full.
LEMMA CompareAll ==
    ASSUME NEW u \in Seq(Nat), NEW v \in Seq(Nat), NEW n \in Nat, Len(u) <= n, Len(v) <= n
    PROVE  /\ strncmp(u, v, n) \in {-1, 0, 1}
           /\ strncmp(u, v, n) = 0 <=> u = v
           /\ strncmp(u, v, n) = -1 <=> (Before(u, v) \/ (Begins(u, v) /\ u # v))
           /\ strncmp(u, v, n) = 1 <=> (Before(v, u) \/ (Begins(v, u) /\ u # v))
<1>1. ASSUME NEW x \in Seq(Nat), Len(x) <= n PROVE Take(x, n) = x
  <2>1. Take(x, n) \in Seq(Nat) /\ Len(Take(x, n)) = Len(x) /\ \A i \in 1..Len(x) : Take(x, n)[i] = x[i]
    BY <1>1, TakeIs
  <2> QED BY <2>1, SeqEqual
<1>2. Take(u, n) = u /\ Take(v, n) = v
  BY <1>1
<1> QED BY <1>2, StrncmpIs

\* Compared as far as the second goes.
LEMMA CompareSecond ==
    ASSUME NEW u \in Seq(Nat), NEW v \in Seq(Nat)
    PROVE  /\ strncmp(u, v, Len(v)) \in {-1, 0, 1}
           /\ strncmp(u, v, Len(v)) = 0 <=> Begins(v, u)
           /\ strncmp(u, v, Len(v)) = -1 <=> (Before(u, v) \/ (Begins(u, v) /\ Len(u) < Len(v)))
           /\ strncmp(u, v, Len(v)) = 1 <=> Before(v, u)
<1> DEFINE a == Take(u, Len(v))
           b == Take(v, Len(v))
<1>0. Len(u) \in Nat /\ Len(v) \in Nat
  OBVIOUS
<1>1. /\ a \in Seq(Nat) /\ Len(a) = (IF Len(v) <= Len(u) THEN Len(v) ELSE Len(u))
      /\ \A i \in 1..Len(a) : a[i] = u[i]
  BY <1>0, TakeIs
<1>2. b = v
  <2>1. b \in Seq(Nat) /\ Len(b) = Len(v) /\ \A i \in 1..Len(v) : b[i] = v[i]
    BY <1>0, TakeIs
  <2> HIDE DEF b
  <2> QED BY <2>1, SeqEqual
<1>3. /\ strncmp(u, v, Len(v)) \in {-1, 0, 1}
      /\ strncmp(u, v, Len(v)) = 0 <=> a = b
      /\ strncmp(u, v, Len(v)) = -1 <=> (Before(a, b) \/ (Begins(a, b) /\ a # b))
      /\ strncmp(u, v, Len(v)) = 1 <=> (Before(b, a) \/ (Begins(b, a) /\ a # b))
  BY <1>0, StrncmpIs
<1> HIDE DEF a, b
<1>4. a = v <=> Begins(v, u)
  <2>1. a = v => Begins(v, u)
    BY <1>0, <1>1 DEF Begins
  <2>2. ASSUME Begins(v, u) PROVE a = v
    <3>1. Len(a) = Len(v) /\ \A i \in 1..Len(v) : a[i] = v[i]
      BY <1>0, <1>1, <2>2 DEF Begins
    <3> QED BY <1>1, <3>1, SeqEqual
  <2> QED BY <2>1, <2>2
<1>5. Before(a, v) <=> Before(u, v)
  <2>1. ASSUME NEW i \in 1..Len(v) PROVE i \in 1..Len(a) <=> i \in 1..Len(u)
    BY <1>0, <1>1
  <2>2. ASSUME NEW i \in 1..Len(v), i \in 1..Len(a)
        PROVE  a[i] = u[i] /\ ((\A j \in 1..i-1 : a[j] = v[j]) <=> (\A j \in 1..i-1 : u[j] = v[j]))
    BY <1>0, <1>1, <2>2
  <2>3. \A i \in 1..Len(u) : i <= Len(v) => i \in 1..Len(v)
    BY <1>0
  <2>4. \A i \in 1..Len(a) : i <= Len(v) /\ i \in 1..Len(v)
    BY <1>0, <1>1
  <2> QED BY <2>1, <2>2, <2>3, <2>4, Zenon DEF Before
<1>6. Before(v, a) <=> Before(v, u)
  <2>1. ASSUME NEW i \in 1..Len(v) PROVE i <= Len(a) <=> i <= Len(u)
    BY <1>0, <1>1
  <2>2. ASSUME NEW i \in 1..Len(v), i <= Len(a)
        PROVE  a[i] = u[i] /\ ((\A j \in 1..i-1 : v[j] = a[j]) <=> (\A j \in 1..i-1 : v[j] = u[j]))
    BY <1>0, <1>1, <2>2
  <2> QED BY <2>1, <2>2, Zenon DEF Before
<1>7. Begins(a, v) /\ a # v <=> Begins(u, v) /\ Len(u) < Len(v)
  <2>1. CASE Len(u) < Len(v)
    <3>1. Len(a) = Len(u) /\ a # v
      BY <1>0, <1>1, <2>1
    <3>2. Begins(a, v) <=> Begins(u, v)
      BY <1>0, <1>1, <2>1, <3>1 DEF Begins
    <3> QED BY <2>1, <3>1, <3>2
  <2>2. CASE Len(v) <= Len(u)
    <3>1. Len(a) = Len(v)
      BY <1>0, <1>1, <2>2
    <3>2. Begins(a, v) => a = v
      BY <1>1, <3>1, BeginsEqual
    <3> QED BY <1>0, <2>2, <3>2
  <2> QED BY <1>0, <2>1, <2>2
<1>8. ~(Begins(v, a) /\ a # v)
  BY <1>0, <1>1, BeginsEqual DEF Begins
<1> QED BY <1>2, <1>3, <1>4, <1>5, <1>6, <1>7, <1>8, Zenon

\* strncmp the other way round is the opposite.
LEMMA StrncmpSwaps ==
    ASSUME NEW u \in Seq(Nat), NEW v \in Seq(Nat), NEW n \in Nat
    PROVE  /\ strncmp(u, v, n) = 0 <=> strncmp(v, u, n) = 0
           /\ strncmp(u, v, n) = -1 <=> strncmp(v, u, n) = 1
           /\ strncmp(u, v, n) = 1 <=> strncmp(v, u, n) = -1
<1> DEFINE a == Take(u, n)
           b == Take(v, n)
<1>1. /\ strncmp(u, v, n) = 0 <=> a = b
      /\ strncmp(u, v, n) = -1 <=> (Before(a, b) \/ (Begins(a, b) /\ a # b))
      /\ strncmp(u, v, n) = 1 <=> (Before(b, a) \/ (Begins(b, a) /\ a # b))
  BY StrncmpIs
<1>2. /\ strncmp(v, u, n) = 0 <=> b = a
      /\ strncmp(v, u, n) = -1 <=> (Before(b, a) \/ (Begins(b, a) /\ b # a))
      /\ strncmp(v, u, n) = 1 <=> (Before(a, b) \/ (Begins(a, b) /\ b # a))
  BY StrncmpIs
<1> QED BY <1>1, <1>2, Zenon

\* Compared as far as the first goes.
LEMMA CompareFirst ==
    ASSUME NEW u \in Seq(Nat), NEW v \in Seq(Nat)
    PROVE  /\ strncmp(u, v, Len(u)) \in {-1, 0, 1}
           /\ strncmp(u, v, Len(u)) = 0 <=> Begins(u, v)
           /\ strncmp(u, v, Len(u)) = -1 <=> Before(u, v)
           /\ strncmp(u, v, Len(u)) = 1 <=> (Before(v, u) \/ (Begins(v, u) /\ Len(v) < Len(u)))
<1>1. Len(u) \in Nat
  OBVIOUS
<1>2. strncmp(u, v, Len(u)) \in {-1, 0, 1}
  BY <1>1, StrncmpIs
<1>3. /\ strncmp(u, v, Len(u)) = 0 <=> strncmp(v, u, Len(u)) = 0
      /\ strncmp(u, v, Len(u)) = -1 <=> strncmp(v, u, Len(u)) = 1
      /\ strncmp(u, v, Len(u)) = 1 <=> strncmp(v, u, Len(u)) = -1
  BY <1>1, StrncmpSwaps
<1>4. /\ strncmp(v, u, Len(u)) = 0 <=> Begins(u, v)
      /\ strncmp(v, u, Len(u)) = -1 <=> (Before(v, u) \/ (Begins(v, u) /\ Len(v) < Len(u)))
      /\ strncmp(v, u, Len(u)) = 1 <=> Before(u, v)
  BY CompareSecond
<1> QED BY <1>2, <1>3, <1>4, Zenon

-----------------------------------------------------------------------------
(* Patterns *)

\* p comes before q and has nothing in common with it.
Less(p, q) ==
    \/ Before(p.w, q.w)
    \/ ~p.star /\ Begins(p.w, q.w) /\ (p.w # q.w \/ (p.w = <<>> /\ q.star))

\* q stands for everything that p stands for.
Within(p, q) == IF q.star THEN Begins(q.w, p.w) /\ (p.star \/ p.w # <<>>) ELSE p = q

\* Only the empty pattern has no length.
LEMMA StrlenIs ==
    ASSUME NEW p \in Pattern
    PROVE  strlen(p) \in Nat /\ (strlen(p) # 0 <=> Len(p.w) # 0 \/ p.star)
<1>1. Len(p.w) \in Nat
  BY WordType DEF Pattern
<1>2. CASE p.star
  BY <1>1, <1>2 DEF strlen
<1>3. CASE ~p.star
  BY <1>1, <1>3 DEF strlen
<1> QED BY <1>2, <1>3

\* The result of the comparator: it calls patterns equal if one stands for all of the other.
LEMMA CompIs ==
    ASSUME NEW p \in Pattern, NEW q \in Pattern
    PROVE  /\ path_comp(p, q) \in Int
           /\ path_comp(p, q) = 0 <=> (Within(p, q) \/ Within(q, p))
           /\ path_comp(p, q) < 0 <=> Less(p, q)
           /\ path_comp(p, q) > 0 <=> Less(q, p)
<1> DEFINE u == p.w
           v == q.w
<1>1. /\ u \in Seq(Nat) /\ Len(u) \in Nat /\ Len(u) <= MaxLen
      /\ v \in Seq(Nat) /\ Len(v) \in Nat /\ Len(v) <= MaxLen
      /\ p.star \in BOOLEAN /\ q.star \in BOOLEAN /\ MaxLen \in Nat
  BY WordType, TreesAssumption DEF Pattern
<1>2. p = q <=> u = v /\ p.star = q.star
  BY DEF Pattern
<1>3. /\ strlen(p) = Len(u) + (IF p.star THEN 1 ELSE 0) /\ strlen(q) = Len(v) + (IF q.star THEN 1 ELSE 0)
      /\ u = <<>> <=> Len(u) = 0
      /\ v = <<>> <=> Len(v) = 0
  BY <1>1, EmptySeq DEF strlen
<1>3a. strlen(p) \in Nat /\ (strlen(p) # 0 => Len(u) # 0 \/ p.star)
  BY StrlenIs
<1>3b. strlen(q) \in Nat /\ (strlen(q) # 0 => Len(v) # 0 \/ q.star)
  BY StrlenIs
<1>4. /\ Less(p, q) <=> Before(u, v) \/ (~p.star /\ Begins(u, v) /\ (u # v \/ (u = <<>> /\ q.star)))
      /\ Less(q, p) <=> Before(v, u) \/ (~q.star /\ Begins(v, u) /\ (v # u \/ (v = <<>> /\ p.star)))
      /\ Within(p, q) <=> IF q.star THEN Begins(v, u) /\ (p.star \/ u # <<>>) ELSE p = q
      /\ Within(q, p) <=> IF p.star THEN Begins(u, v) /\ (q.star \/ v # <<>>) ELSE q = p
  BY DEF Less, Within
<1> DEFINE K == CASE ~p.star /\ ~q.star -> MaxLen
                  [] p.star # q.star -> Len(IF p.star THEN u ELSE v)
                  [] p.star /\ q.star -> Min({Len(u), Len(v)})
<1>5. /\ strlen(p) = 0 \/ strlen(q) = 0 => path_comp(p, q) = strlen(p) - strlen(q)
      /\ ~(strlen(p) = 0 \/ strlen(q) = 0) => path_comp(p, q) = strncmp(u, v, K)
  BY Zenon DEF path_comp
<1>5a. /\ ~p.star /\ ~q.star => K = MaxLen
       /\ ~p.star /\ q.star => K = Len(v)
       /\ p.star /\ ~q.star => K = Len(u)
       /\ p.star /\ q.star => K = Min({Len(u), Len(v)})
  <2> HIDE DEF u, v
  <2> QED BY <1>1
<1> HIDE DEF K
<1> HIDE DEF u, v
<1>6. Begins(u, v) /\ Len(u) = Len(v) => u = v
  BY <1>1, BeginsEqual
<1>6a. Begins(v, u) /\ Len(u) = Len(v) => u = v
  BY <1>1, BeginsEqual
<1>6b. (Begins(u, v) => Len(u) <= Len(v)) /\ (Begins(v, u) => Len(v) <= Len(u))
  BY DEF Begins
<1>6c. (Begins(u, v) /\ u # v <=> Begins(u, v) /\ Len(u) < Len(v)) /\ (Begins(v, u) /\ u # v <=> Begins(v, u) /\ Len(v) < Len(u))
  BY <1>1, <1>6, <1>6a, <1>6b
<1>6d. /\ Len(u) = 0 => Begins(u, v) /\ ~Before(u, v) /\ ~Before(v, u)
       /\ Len(v) = 0 => Begins(v, u) /\ ~Before(u, v) /\ ~Before(v, u)
  BY <1>1 DEF Begins, Before
<1>7. CASE strlen(p) = 0 \/ strlen(q) = 0
  <2>1. path_comp(p, q) = strlen(p) - strlen(q)
    BY <1>5, <1>7
  <2>2. CASE strlen(p) = 0
    <3>1. Len(u) = 0 /\ ~p.star /\ u = <<>>
      BY <1>1, <1>3, <2>2
    <3>2. CASE strlen(q) = 0
      BY <1>1, <1>2, <1>3, <1>4, <1>6d, <2>1, <2>2, <3>1, <3>2
    <3>3. CASE strlen(q) # 0
      <4>1. path_comp(p, q) \in Int /\ path_comp(p, q) < 0 /\ (Len(v) # 0 \/ q.star)
        BY <1>3a, <1>3b, <2>1, <2>2, <3>3
      <4>2. Less(p, q) /\ ~Less(q, p) /\ ~Within(p, q) /\ ~Within(q, p)
        BY <1>2, <1>3, <1>4, <1>6b, <1>6d, <3>1, <4>1
      <4> QED BY <4>1, <4>2
    <3> QED BY <3>2, <3>3
  <2>3. CASE strlen(p) # 0 /\ strlen(q) = 0
    <3>1. Len(v) = 0 /\ ~q.star /\ v = <<>>
      BY <1>1, <1>3, <2>3
    <3>2. path_comp(p, q) \in Int /\ path_comp(p, q) > 0 /\ (Len(u) # 0 \/ p.star)
      BY <1>3a, <1>3b, <2>1, <2>3
    <3>3. Less(q, p) /\ ~Less(p, q) /\ ~Within(p, q) /\ ~Within(q, p)
      BY <1>2, <1>3, <1>4, <1>6b, <1>6d, <3>1, <3>2
    <3> QED BY <3>2, <3>3
  <2> QED BY <1>7, <2>2, <2>3
<1> DEFINE c == path_comp(p, q)
<1> HIDE DEF c
<1>8. SUFFICES ASSUME strlen(p) # 0, strlen(q) # 0
               PROVE  c \in {-1, 0, 1} /\ (c = 0 <=> (Within(p, q) \/ Within(q, p))) /\ (c = -1 <=> Less(p, q)) /\ (c = 1 <=> Less(q, p))
  BY <1>7 DEF c
<1>8a. (~p.star => u # <<>>) /\ (~q.star => v # <<>>)
  BY <1>3, <1>8
<1>9. CASE ~p.star /\ ~q.star
  <2>1. c = strncmp(u, v, MaxLen)
    BY <1>5, <1>5a, <1>8, <1>9, Zenon DEF c
  <2>2. /\ c \in {-1, 0, 1} /\ (c = 0 <=> u = v)
        /\ c = -1 <=> (Before(u, v) \/ (Begins(u, v) /\ u # v))
        /\ c = 1 <=> (Before(v, u) \/ (Begins(v, u) /\ u # v))
    BY <1>1, <2>1, CompareAll
  <2>3. p = q <=> u = v
    <3>1. p.star = q.star
      BY <1>1, <1>9
    <3> QED BY <1>2, <3>1
  <2> QED BY <1>4, <1>9, <2>2, <2>3, Zenon
<1>10. CASE ~p.star /\ q.star
  <2>1. c = strncmp(u, v, Len(v))
    BY <1>5, <1>5a, <1>8, <1>10, Zenon DEF c
  <2>2. /\ c \in {-1, 0, 1} /\ (c = 0 <=> Begins(v, u))
        /\ c = -1 <=> (Before(u, v) \/ (Begins(u, v) /\ Len(u) < Len(v)))
        /\ c = 1 <=> Before(v, u)
    BY <1>1, <2>1, CompareSecond
  <2> QED BY <1>2, <1>4, <1>6c, <1>8a, <1>10, <2>2
<1>11. CASE p.star /\ ~q.star
  <2>1. c = strncmp(u, v, Len(u))
    BY <1>5, <1>5a, <1>8, <1>11, Zenon DEF c
  <2>2. /\ c \in {-1, 0, 1} /\ (c = 0 <=> Begins(u, v))
        /\ c = -1 <=> Before(u, v)
        /\ c = 1 <=> (Before(v, u) \/ (Begins(v, u) /\ Len(v) < Len(u)))
    BY <1>1, <2>1, CompareFirst
  <2> QED BY <1>2, <1>4, <1>6c, <1>8a, <1>11, <2>2
<1>12. CASE p.star /\ q.star
  <2>1. c = strncmp(u, v, Min({Len(u), Len(v)}))
    BY <1>5, <1>5a, <1>8, <1>12, Zenon DEF c
  <2>2. CASE Len(u) <= Len(v)
    <3>1. Min({Len(u), Len(v)}) = Len(u)
      BY <1>1, <2>2 DEF Min
    <3>2. /\ c \in {-1, 0, 1} /\ (c = 0 <=> Begins(u, v))
          /\ c = -1 <=> Before(u, v)
          /\ c = 1 <=> (Before(v, u) \/ (Begins(v, u) /\ Len(v) < Len(u)))
      BY <1>1, <2>1, <3>1, CompareFirst
    <3>3. (Begins(v, u) => u = v) /\ Begins(v, v)
      BY <1>1, <1>6a, <1>6b, <2>2 DEF Begins
    <3> QED BY <1>1, <1>4, <1>12, <2>2, <3>2, <3>3
  <2>3. CASE Len(v) <= Len(u)
    <3>1. Min({Len(u), Len(v)}) = Len(v)
      BY <1>1, <2>3 DEF Min
    <3>2. /\ c \in {-1, 0, 1} /\ (c = 0 <=> Begins(v, u))
          /\ c = -1 <=> (Before(u, v) \/ (Begins(u, v) /\ Len(u) < Len(v)))
          /\ c = 1 <=> Before(v, u)
      BY <1>1, <2>1, <3>1, CompareSecond
    <3>3. (Begins(u, v) => u = v) /\ Begins(u, u)
      BY <1>1, <1>6, <1>6b, <2>3 DEF Begins
    <3> QED BY <1>1, <1>4, <1>12, <2>3, <3>2, <3>3
  <2> QED BY <1>1, <2>2, <2>3
<1> QED BY <1>1, <1>9, <1>10, <1>11, <1>12

\* A pattern has a word and says whether it is one.
LEMMA PatternType ==
    ASSUME NEW p \in Pattern
    PROVE  p.w \in Seq(Nat) /\ Len(p.w) \in Nat /\ p.star \in BOOLEAN /\ (p.w = <<>> <=> Len(p.w) = 0)
BY WordType, EmptySeq DEF Pattern

\* On patterns that have nothing in common the comparator is an order.
LEMMA LessTransitive ==
    ASSUME NEW p \in Pattern, NEW q \in Pattern, NEW r \in Pattern, Less(p, q), Less(q, r)
    PROVE  Less(p, r)
<1>1. /\ p.w \in Seq(Nat) /\ Len(p.w) \in Nat /\ p.star \in BOOLEAN /\ (p.w = <<>> <=> Len(p.w) = 0)
      /\ q.w \in Seq(Nat) /\ Len(q.w) \in Nat /\ q.star \in BOOLEAN /\ (q.w = <<>> <=> Len(q.w) = 0)
      /\ r.w \in Seq(Nat) /\ Len(r.w) \in Nat /\ r.star \in BOOLEAN /\ (r.w = <<>> <=> Len(r.w) = 0)
  BY PatternType
<1>2. CASE Before(p.w, q.w) /\ Before(q.w, r.w)
  BY <1>1, <1>2, BeforeTransitive DEF Less
<1>3. CASE Before(p.w, q.w) /\ Begins(q.w, r.w)
  BY <1>1, <1>3, BeforeBegins DEF Less
<1>4. CASE ~p.star /\ Begins(p.w, q.w) /\ Before(q.w, r.w)
  <2>1. Before(p.w, r.w) \/ (Begins(p.w, r.w) /\ Len(p.w) < Len(r.w))
    BY <1>1, <1>4, BeginsBefore
  <2>2. Len(p.w) < Len(r.w) => p.w # r.w
    BY <1>1
  <2> QED BY <1>4, <2>1, <2>2, Zenon DEF Less
<1>5. CASE /\ ~p.star /\ Begins(p.w, q.w) /\ (p.w # q.w \/ (p.w = <<>> /\ q.star))
           /\ ~q.star /\ Begins(q.w, r.w)
  <2>1. Len(p.w) # Len(q.w) /\ Len(p.w) <= Len(q.w) /\ Len(q.w) <= Len(r.w)
    BY Zenon, <1>1, <1>5, BeginsEqual DEF Begins
  <2>2. p.w # r.w
    BY <1>1, <2>1
  <2>3. Begins(p.w, r.w)
    BY <1>1, <1>5, BeginsTransitive
  <2> QED BY <1>5, <2>2, <2>3, Zenon DEF Less
<1> QED BY <1>2, <1>3, <1>4, <1>5, Zenon DEF Less

\* Standing for more is transitive and reflexive.
LEMMA WithinTransitive ==
    ASSUME NEW p \in Pattern, NEW q \in Pattern, NEW r \in Pattern
    PROVE  Within(p, p) /\ (Within(p, q) /\ Within(q, r) => Within(p, r))
<1>1. p.w \in Seq(Nat) /\ q.w \in Seq(Nat) /\ r.w \in Seq(Nat)
  BY PatternType
<1>2. Within(p, p)
  BY <1>1, BeginsTransitive, Zenon DEF Within
<1>3. ASSUME Within(p, q), Within(q, r) PROVE Within(p, r)
  <2>1. CASE q.star /\ r.star
    <3>1. Begins(q.w, p.w) /\ Begins(r.w, q.w) /\ (p.star \/ p.w # <<>>)
      BY <1>3, <2>1, Zenon DEF Within
    <3>2. Begins(r.w, p.w)
      BY <1>1, <3>1, BeginsTransitive
    <3> QED BY <2>1, <3>1, <3>2, Zenon DEF Within
  <2>2. CASE ~q.star \/ ~r.star
    BY <1>3, <2>2, Zenon DEF Within
  <2> QED BY <2>1, <2>2, Zenon
<1> QED BY <1>2, <1>3

\* Of two patterns that compare equal, broader_pattern tells which one stands for the other.
LEMMA BroaderIs ==
    ASSUME NEW p \in Pattern, NEW q \in Pattern, path_comp(p, q) = 0
    PROVE  /\ TRUE \in broader_pattern(q, p) => Within(p, q)
           /\ FALSE \in broader_pattern(q, p) => Within(q, p)
<1>1. /\ p.w \in Seq(Nat) /\ Len(p.w) \in Nat /\ p.star \in BOOLEAN
      /\ q.w \in Seq(Nat) /\ Len(q.w) \in Nat /\ q.star \in BOOLEAN
  BY PatternType
<1>2. Within(p, q) \/ Within(q, p)
  BY CompIs
<1>3. CASE ~p.star /\ ~q.star
  BY <1>2, <1>3, Zenon DEF Within
<1>4. CASE p.star # q.star
  <2>1. strlen(q) # 0
    <3>1. CASE q.star
      BY <3>1, StrlenIs
    <3>2. CASE ~q.star
      <4>1. p.star
        BY <1>1, <1>4, <3>2
      <4>2. Within(q, p)
        BY <1>2, <3>2, <4>1, Zenon DEF Within
      <4>3. q.w # <<>>
        BY <3>2, <4>1, <4>2, Zenon DEF Within
      <4> QED BY <4>3, StrlenIs, PatternType
    <3> QED BY <3>1, <3>2
  <2>2. CASE q.star /\ ~p.star
    <3>1. FALSE \notin broader_pattern(q, p)
      BY Zenon, <2>1, <2>2 DEF broader_pattern
    <3>2. Within(p, q)
      BY <1>2, <2>2, Zenon DEF Within
    <3> QED BY Zenon, <3>1, <3>2
  <2>3. CASE ~q.star /\ p.star
    <3>1. TRUE \notin broader_pattern(q, p)
      BY Zenon, <2>1, <2>3 DEF broader_pattern
    <3>2. Within(q, p)
      BY <1>2, <2>3, Zenon DEF Within
    <3> QED BY Zenon, <3>1, <3>2
  <2>4. (q.star /\ ~p.star) \/ (~q.star /\ p.star)
    <3>1. (p.star = TRUE \/ p.star = FALSE) /\ (q.star = TRUE \/ q.star = FALSE)
      BY <1>1
    <3>2. CASE p.star = TRUE
      BY Zenon, <1>4, <3>1, <3>2
    <3>3. CASE p.star = FALSE
      BY Zenon, <1>4, <3>1, <3>3
    <3> QED BY Zenon, <3>1, <3>2, <3>3
  <2> QED BY <2>2, <2>3, <2>4, Zenon
<1>5. CASE p.star /\ q.star
  <2>1. strlen(q) # 0
    BY <1>5, StrlenIs
  <2>2. broader_pattern(q, p) = {Len(q.w) <= Len(p.w)}
    BY <1>5, <2>1 DEF broader_pattern
  <2>3. (Begins(q.w, p.w) => Within(p, q)) /\ (Begins(p.w, q.w) => Within(q, p))
    BY <1>5, Zenon DEF Within
  <2>4. Begins(q.w, p.w) \/ Begins(p.w, q.w)
    BY <1>2, <1>5, Zenon DEF Within
  <2>5. CASE Len(q.w) <= Len(p.w)
    <3>1. Begins(p.w, q.w) => Begins(q.w, p.w)
      BY <1>1, <2>5 DEF Begins
    <3> QED BY Zenon, <2>2, <2>3, <2>4, <2>5, <3>1
  <2>6. CASE ~(Len(q.w) <= Len(p.w))
    <3>1. ~Begins(q.w, p.w)
      BY <2>6 DEF Begins
    <3> QED BY Zenon, <2>2, <2>3, <2>4, <2>6, <3>1
  <2> QED BY Zenon, <2>5, <2>6
<1> QED BY <1>1, <1>3, <1>4, <1>5, Zenon

\* A name compares equal to the patterns that stand for it.
LEMMA CoversIs ==
    ASSUME NEW n \in Name
    PROVE  /\ n \in Pattern
           /\ \A q \in Pattern : path_comp(n, q) = 0 <=> Covers(q, n)
           /\ \A p, q \in Pattern : Covers(p, n) /\ Within(p, q) => Covers(q, n)
<1>1. n \in Pattern /\ n.w \in Word /\ n.w # <<>> /\ n.star = FALSE
  <2>1. PICK v \in Word \ {<<>>} : n = [w |-> v, star |-> FALSE]
    BY DEF Name
  <2> QED BY <2>1 DEF Pattern
<1>2. ASSUME NEW q \in Pattern PROVE Covers(q, n) <=> Within(n, q)
  <2>1. n.w \in Seq(Nat) /\ q.w \in Seq(Nat)
    BY <1>1, PatternType
  <2>2. IsPrefix(q.w, n.w) <=> Begins(q.w, n.w)
    BY <2>1, PrefixIs
  <2>3. CASE q.star
    BY <1>1, <2>2, <2>3, Zenon DEF Covers, Within
  <2>4. CASE ~q.star
    <3>1. n = q <=> n.w = q.w
      BY <1>1, <2>4 DEF Pattern
    <3> QED BY <2>4, <3>1, Zenon DEF Covers, Within
  <2> QED BY <2>3, <2>4
<1>3. ASSUME NEW q \in Pattern PROVE Within(q, n) => Within(n, q)
  <2>1. Within(q, n) => q = n
    BY <1>1, Zenon DEF Within
  <2>2. Within(n, n)
    BY <1>1, WithinTransitive
  <2> QED BY <2>1, <2>2
<1>4. \A q \in Pattern : path_comp(n, q) = 0 <=> Covers(q, n)
  BY <1>1, <1>2, <1>3, CompIs
<1>5. \A p, q \in Pattern : Covers(p, n) /\ Within(p, q) => Covers(q, n)
  <2> TAKE p, q \in Pattern
  <2> QED BY <1>1, <1>2, WithinTransitive
<1> QED BY <1>1, <1>4, <1>5

-----------------------------------------------------------------------------
(* Trees *)

\* The keys from left to right have nothing in common and are in order.
Sorted(t) == \A i, j \in 1..Len(t) : i < j => Less(t[i], t[j])

\* The three results of a comparison exclude each other.
LEMMA CompareOne ==
    ASSUME NEW p \in Pattern, NEW q \in Pattern
    PROVE  /\ path_comp(p, q) = 0 => ~Less(p, q) /\ ~Less(q, p)
           /\ path_comp(p, q) # 0 => Less(p, q) \/ Less(q, p)
           /\ ~(Less(p, q) /\ Less(q, p))
BY CompIs

\* Where a search ends does not depend on the shape of the tree: at an equal key if there
\* is one.
LEMMA SearchExact ==
    ASSUME NEW t \in Seq(Pattern), Sorted(t), NEW k \in Pattern
    PROVE  Hits(t, k) = {} <=> Misses(t, k) # {}
<1>0. Len(t) \in Nat /\ DOMAIN t = 1..Len(t) /\ \A i \in 1..Len(t) : t[i] \in Pattern
  OBVIOUS
<1>1. ASSUME NEW m \in Hits(t, k), NEW at \in Misses(t, k) PROVE FALSE
  <2>1. m \in 1..Len(t) /\ path_comp(k, t[m]) = 0
    BY <1>0 DEF Hits
  <2>2. /\ at \in 1..Len(t) + 1
        /\ at # 1 => path_comp(k, t[at - 1]) > 0
        /\ at # Len(t) + 1 => path_comp(k, t[at]) < 0
    BY DEF Misses
  <2>3. ~Less(k, t[m]) /\ ~Less(t[m], k)
    BY <1>0, <2>1, CompareOne
  <2>4. CASE at <= m
    <3>1. at \in 1..Len(t) /\ at # Len(t) + 1
      BY <1>0, <2>1, <2>2, <2>4
    <3>2. Less(k, t[at])
      BY <1>0, <2>2, <3>1, CompIs
    <3>3. at = m \/ Less(t[at], t[m])
      BY <2>1, <2>4, <3>1 DEF Sorted
    <3> QED BY <1>0, <2>1, <2>3, <3>1, <3>2, <3>3, LessTransitive
  <2>5. CASE m < at
    <3>1. at - 1 \in 1..Len(t) /\ at # 1 /\ m <= at - 1
      BY <1>0, <2>1, <2>2, <2>5
    <3>2. Less(t[at - 1], k)
      BY <1>0, <2>2, <3>1, CompIs
    <3>3. at - 1 = m \/ Less(t[m], t[at - 1])
      BY <2>1, <3>1 DEF Sorted
    <3> QED BY <1>0, <2>1, <2>3, <3>1, <3>2, <3>3, LessTransitive
  <2> QED BY <2>1, <2>2, <2>4, <2>5
<1>2. ASSUME Hits(t, k) = {} PROVE Misses(t, k) # {}
  <2> DEFINE G == {m \in Nat : m = Len(t) + 1 \/ (m \in 1..Len(t) /\ Less(k, t[m]))}
  <2>1. G \subseteq Nat /\ G # {}
    BY <1>0
  <2>2. PICK at \in G : \A m \in G : at <= m
    <3> HIDE DEF G
    <3> QED BY <2>1, LeastNat, Zenon
  <2>3. at \in 1..Len(t) + 1 /\ (at # Len(t) + 1 => at \in 1..Len(t) /\ Less(k, t[at]))
    BY <1>0, <2>2
  <2>4. at # Len(t) + 1 => path_comp(k, t[at]) < 0
    BY <1>0, <2>3, CompIs
  <2>5. ASSUME at # 1 PROVE path_comp(k, t[at - 1]) > 0
    <3>1. at - 1 \in 1..Len(t) /\ at - 1 \in Nat /\ ~(at <= at - 1)
      BY <1>0, <2>3, <2>5
    <3>2. ~Less(k, t[at - 1])
      BY <2>2, <3>1
    <3>3. path_comp(k, t[at - 1]) # 0
      BY <1>0, <1>2, <3>1 DEF Hits
    <3> QED BY <1>0, <3>1, <3>2, <3>3, CompareOne, CompIs
  <2>6. at \in Misses(t, k)
    <3> HIDE DEF G
    <3> QED BY <2>3, <2>4, <2>5 DEF Misses
  <2> QED BY <2>6
<1> QED BY <1>1, <1>2

\* A name is found exactly if a key stands for it.
LEMMA FindIs ==
    ASSUME NEW t \in Seq(Pattern), Sorted(t), NEW n \in Name
    PROVE  avl_find(t, n) = {\E p \in ToSet(t) : Covers(p, n)}
<1>1. n \in Pattern /\ \A q \in Pattern : path_comp(n, q) = 0 <=> Covers(q, n)
  BY CoversIs
<1>2. DOMAIN t = 1..Len(t) /\ \A i \in 1..Len(t) : t[i] \in Pattern
  OBVIOUS
<1>3. Hits(t, n) # {} <=> \E p \in ToSet(t) : Covers(p, n)
  BY <1>1, <1>2 DEF Hits, ToSet
<1>4. Hits(t, n) = {} <=> Misses(t, n) # {}
  BY <1>1, SearchExact
<1>5. CASE Hits(t, n) # {}
  <2>1. avl_find(t, n) = {TRUE}
    BY Zenon, <1>4, <1>5 DEF avl_find
  <2> QED BY Zenon, <1>3, <1>5, <2>1
<1>6. CASE Hits(t, n) = {}
  <2>1. avl_find(t, n) = {FALSE}
    BY Zenon, <1>4, <1>6 DEF avl_find
  <2> QED BY Zenon, <1>3, <1>6, <2>1
<1> QED BY Zenon, <1>5, <1>6

\* An insertion keeps the order.
LEMMA InsertSorted ==
    ASSUME NEW t \in Seq(Pattern), Sorted(t), NEW k \in Pattern, NEW at \in Misses(t, k)
    PROVE  /\ InsertAt(t, at, k) \in Seq(Pattern)
           /\ Sorted(InsertAt(t, at, k))
           /\ ToSet(InsertAt(t, at, k)) = ToSet(t) \cup {k}
<1>0. Len(t) \in Nat /\ DOMAIN t = 1..Len(t) /\ \A i \in 1..Len(t) : t[i] \in Pattern
  OBVIOUS
<1>1. /\ at \in 1..Len(t) + 1
      /\ at # 1 => path_comp(k, t[at - 1]) > 0
      /\ at # Len(t) + 1 => path_comp(k, t[at]) < 0
  BY DEF Misses
<1> DEFINE u == InsertAt(t, at, k)
<1>2. /\ u \in Seq(Pattern) /\ Len(u) = Len(t) + 1
      /\ \A i \in 1..at-1 : u[i] = t[i]
      /\ u[at] = k
      /\ \A i \in at+1..Len(t)+1 : u[i] = t[i - 1]
  <2> DEFINE a == SubSeq(t, 1, at - 1)
             b == SubSeq(t, at, Len(t))
             c == a \o <<k>>
  <2>1. a \in Seq(Pattern) /\ Len(a) = at - 1 /\ \A i \in 1..at-1 : a[i] = t[i]
    BY <1>0, <1>1
  <2>2. b \in Seq(Pattern) /\ Len(b) = Len(t) + 1 - at /\ \A i \in 1..Len(b) : b[i] = t[at - 1 + i]
    BY <1>0, <1>1
  <2>3. u = c \o b
    BY DEF InsertAt
  <2> HIDE DEF a, b, u
  <2>4. /\ c \in Seq(Pattern) /\ Len(c) = at
        /\ \A i \in 1..at-1 : c[i] = t[i]
        /\ c[at] = k
    BY <1>1, <2>1
  <2> HIDE DEF c
  <2>5. /\ u \in Seq(Pattern) /\ Len(u) = Len(t) + 1
        /\ \A i \in 1..at : u[i] = c[i]
        /\ \A i \in at+1..Len(t)+1 : u[i] = b[i - at]
    <3>1. /\ u \in Seq(Pattern) /\ Len(u) = Len(c) + Len(b)
          /\ \A i \in 1..Len(c) + Len(b) : u[i] = IF i <= Len(c) THEN c[i] ELSE b[i - Len(c)]
      BY <2>2, <2>3, <2>4, ConcatProperties
    <3> QED BY <1>0, <1>1, <2>2, <2>4, <3>1
  <2>6. \A i \in at+1..Len(t)+1 : u[i] = t[i - 1]
    <3> TAKE i \in at+1..Len(t)+1
    <3>1. i - at \in 1..Len(b) /\ at - 1 + (i - at) = i - 1
      BY <1>0, <1>1, <2>2
    <3> QED BY <2>2, <2>5, <3>1
  <2>7. u[at] = k /\ \A i \in 1..at-1 : u[i] = t[i]
    BY <1>1, <2>4, <2>5
  <2> QED BY <2>5, <2>6, <2>7
<1> HIDE DEF u
<1>3. ASSUME NEW i \in 1..at-1 PROVE i \in 1..Len(t) /\ Less(t[i], k)
  <2>1. at - 1 \in 1..Len(t) /\ i \in 1..Len(t) /\ at # 1 /\ i <= at - 1
    BY <1>0, <1>1
  <2>2. Less(t[at - 1], k)
    BY <1>0, <1>1, <2>1, CompIs
  <2>3. i = at - 1 \/ Less(t[i], t[at - 1])
    BY <2>1 DEF Sorted
  <2> QED BY <1>0, <2>1, <2>2, <2>3, LessTransitive
<1>4. ASSUME NEW i \in at+1..Len(t)+1 PROVE i - 1 \in 1..Len(t) /\ Less(k, t[i - 1])
  <2>1. at \in 1..Len(t) /\ i - 1 \in 1..Len(t) /\ at # Len(t) + 1 /\ at <= i - 1
    BY <1>0, <1>1
  <2>2. Less(k, t[at])
    BY <1>0, <1>1, <2>1, CompIs
  <2>3. i - 1 = at \/ Less(t[at], t[i - 1])
    BY <2>1 DEF Sorted
  <2> QED BY <1>0, <2>1, <2>2, <2>3, LessTransitive
<1>5. Sorted(u)
  <2> SUFFICES ASSUME NEW i \in 1..Len(u), NEW j \in 1..Len(u), i < j PROVE Less(u[i], u[j])
    BY DEF Sorted
  <2>1. /\ i \in 1..at-1 \/ i = at \/ i \in at+1..Len(t)+1
        /\ j \in 1..at-1 \/ j = at \/ j \in at+1..Len(t)+1
    BY <1>0, <1>1, <1>2
  <2>2. CASE i \in 1..at-1 /\ j \in 1..at-1
    <3>1. i \in 1..Len(t) /\ j \in 1..Len(t) /\ u[i] = t[i] /\ u[j] = t[j]
      BY <1>2, <1>3, <2>2
    <3> QED BY <3>1 DEF Sorted
  <2>3. CASE i \in 1..at-1 /\ j = at
    BY <1>2, <1>3, <2>3
  <2>4. CASE i \in 1..at-1 /\ j \in at+1..Len(t)+1
    <3>1. i \in 1..Len(t) /\ j - 1 \in 1..Len(t) /\ u[i] = t[i] /\ u[j] = t[j - 1] /\ i < j - 1
      BY <1>1, <1>2, <1>3, <1>4, <2>4
    <3> QED BY <3>1 DEF Sorted
  <2>5. CASE i = at /\ j \in at+1..Len(t)+1
    BY <1>2, <1>4, <2>5
  <2>6. CASE i \in at+1..Len(t)+1 /\ j \in at+1..Len(t)+1
    <3>1. i - 1 \in 1..Len(t) /\ j - 1 \in 1..Len(t) /\ u[i] = t[i - 1] /\ u[j] = t[j - 1] /\ i - 1 < j - 1
      BY <1>1, <1>2, <1>4, <2>6
    <3> QED BY <3>1 DEF Sorted
  <2> QED BY <1>1, <2>1, <2>2, <2>3, <2>4, <2>5, <2>6
<1>6. ToSet(u) = ToSet(t) \cup {k}
  <2>0. DOMAIN u = 1..Len(t)+1
    BY <1>2
  <2>1. ASSUME NEW i \in 1..Len(t)+1 PROVE u[i] \in ToSet(t) \cup {k}
    <3>1. CASE i \in 1..at-1
      BY <1>0, <1>2, <1>3, <3>1 DEF ToSet
    <3>2. CASE i = at
      BY <1>2, <3>2
    <3>3. CASE i \in at+1..Len(t)+1
      BY <1>0, <1>2, <1>4, <3>3 DEF ToSet
    <3> QED BY <1>1, <3>1, <3>2, <3>3
  <2>2. ASSUME NEW i \in 1..Len(t) PROVE t[i] \in ToSet(u)
    <3>1. CASE i \in 1..at-1
      <4>1. u[i] = t[i] /\ i \in DOMAIN u
        BY <1>0, <1>2, <2>0, <3>1
      <4> QED BY <4>1, Zenon DEF ToSet
    <3>2. CASE i >= at
      <4>1. u[i + 1] = t[i] /\ i + 1 \in DOMAIN u
        BY <1>0, <1>1, <1>2, <2>0, <3>2
      <4> QED BY <4>1, Zenon DEF ToSet
    <3> QED BY <1>1, <3>1, <3>2
  <2>3. k \in ToSet(u)
    <3>1. at \in DOMAIN u /\ u[at] = k
      BY <1>1, <1>2, <2>0
    <3> QED BY <3>1, Zenon DEF ToSet
  <2>4. ToSet(u) \subseteq ToSet(t) \cup {k}
    BY <2>0, <2>1, Zenon DEF ToSet
  <2>5. ToSet(t) \subseteq ToSet(u)
    BY <1>0, <2>2, Zenon DEF ToSet
  <2> QED BY <2>3, <2>4, <2>5, Zenon
<1> QED BY <1>2, <1>5, <1>6 DEF u

\* A removal keeps the order.
LEMMA RemoveSorted ==
    ASSUME NEW t \in Seq(Pattern), Sorted(t), NEW m \in 1..Len(t)
    PROVE  /\ RemoveAt(t, m) \in Seq(Pattern)
           /\ Sorted(RemoveAt(t, m))
           /\ ToSet(RemoveAt(t, m)) \subseteq ToSet(t)
           /\ ToSet(t) \subseteq ToSet(RemoveAt(t, m)) \cup {t[m]}
<1>0. Len(t) \in Nat /\ DOMAIN t = 1..Len(t) /\ \A i \in 1..Len(t) : t[i] \in Pattern
  OBVIOUS
<1> DEFINE u == RemoveAt(t, m)
<1>1. /\ u \in Seq(Pattern) /\ Len(u) = Len(t) - 1 /\ DOMAIN u = 1..Len(t)-1
      /\ \A i \in 1..m-1 : u[i] = t[i]
      /\ \A i \in m..Len(t)-1 : u[i] = t[i + 1]
  <2> DEFINE a == SubSeq(t, 1, m - 1)
             b == SubSeq(t, m + 1, Len(t))
  <2>1. a \in Seq(Pattern) /\ Len(a) = m - 1 /\ \A i \in 1..m-1 : a[i] = t[i]
    BY <1>0
  <2>2. b \in Seq(Pattern) /\ Len(b) = Len(t) - m /\ \A i \in 1..Len(b) : b[i] = t[m + i]
    <3>1. /\ b \in Seq(Pattern)
          /\ Len(b) = IF m + 1 <= Len(t) THEN Len(t) - (m + 1) + 1 ELSE 0
          /\ \A i \in 1..Len(t) - (m + 1) + 1 : b[i] = t[m + 1 + i - 1]
      BY <1>0, SubSeqProperties
    <3> HIDE DEF b
    <3>2. Len(b) = Len(t) - m
      <4>1. \A l \in Nat : \A x \in 1..l : (IF x + 1 <= l THEN l - (x + 1) + 1 ELSE 0) = l - x
        OBVIOUS
      <4> QED BY Zenon, <1>0, <3>1, <4>1
    <3>3. ASSUME NEW i \in 1..Len(b) PROVE b[i] = t[m + i]
      <4>1. i \in 1..Len(t) - (m + 1) + 1 /\ m + 1 + i - 1 = m + i
        BY <1>0, <3>2
      <4> QED BY <3>1, <4>1
    <3> QED BY <3>1, <3>2, <3>3
  <2>3. u = a \o b
    BY DEF RemoveAt
  <2> HIDE DEF a, b, u
  <2>4. /\ u \in Seq(Pattern) /\ Len(u) = Len(t) - 1 /\ DOMAIN u = 1..Len(t)-1
        /\ \A i \in 1..m-1 : u[i] = a[i]
        /\ \A i \in m..Len(t)-1 : u[i] = b[i - (m - 1)]
    <3>1. /\ u \in Seq(Pattern) /\ Len(u) = Len(a) + Len(b)
          /\ \A i \in 1..Len(a) + Len(b) : u[i] = IF i <= Len(a) THEN a[i] ELSE b[i - Len(a)]
      BY <2>1, <2>2, <2>3, ConcatProperties
    <3>2. Len(u) = Len(t) - 1 /\ DOMAIN u = 1..Len(t)-1
      BY <1>0, <2>1, <2>2, <3>1
    <3>3. \A i \in 1..m-1 : i \in 1..Len(a) + Len(b) /\ i <= Len(a)
      BY <1>0, <2>1, <2>2
    <3>4. \A i \in m..Len(t)-1 : i \in 1..Len(a) + Len(b) /\ ~(i <= Len(a)) /\ i - Len(a) = i - (m - 1)
      BY <1>0, <2>1, <2>2
    <3> QED BY <3>1, <3>2, <3>3, <3>4, Zenon
  <2>5. \A i \in m..Len(t)-1 : u[i] = t[i + 1]
    <3> TAKE i \in m..Len(t)-1
    <3>1. i - (m - 1) \in 1..Len(b) /\ m + (i - (m - 1)) = i + 1
      BY <1>0, <2>2
    <3> QED BY <2>2, <2>4, <3>1
  <2> QED BY <2>1, <2>4, <2>5
<1> HIDE DEF u
<1>2. Sorted(u)
  <2> SUFFICES ASSUME NEW i \in 1..Len(u), NEW j \in 1..Len(u), i < j PROVE Less(u[i], u[j])
    BY DEF Sorted
  <2>1. \E x, y \in 1..Len(t) : x < y /\ u[i] = t[x] /\ u[j] = t[y]
    <3>1. CASE j < m
      <4>1. i \in 1..Len(t) /\ j \in 1..Len(t) /\ u[i] = t[i] /\ u[j] = t[j]
        BY <1>0, <1>1, <3>1
      <4> QED BY <4>1
    <3>2. CASE i < m /\ m <= j
      <4>1. i \in 1..Len(t) /\ j + 1 \in 1..Len(t) /\ i < j + 1 /\ u[i] = t[i] /\ u[j] = t[j + 1]
        BY <1>0, <1>1, <3>2
      <4> QED BY <4>1
    <3>3. CASE m <= i
      <4>1. i + 1 \in 1..Len(t) /\ j + 1 \in 1..Len(t) /\ i + 1 < j + 1 /\ u[i] = t[i + 1] /\ u[j] = t[j + 1]
        BY <1>0, <1>1, <3>3
      <4> QED BY <4>1
    <3> QED BY <3>1, <3>2, <3>3
  <2> QED BY <2>1 DEF Sorted
<1>3. ASSUME NEW i \in 1..Len(t)-1 PROVE u[i] \in ToSet(t)
  <2>1. \E x \in DOMAIN t : u[i] = t[x]
    <3>1. CASE i < m
      <4>1. i \in DOMAIN t /\ u[i] = t[i]
        BY <1>0, <1>1, <3>1
      <4> QED BY <4>1
    <3>2. CASE m <= i
      <4>1. i + 1 \in DOMAIN t /\ u[i] = t[i + 1]
        BY <1>0, <1>1, <3>2
      <4> QED BY <4>1
    <3> QED BY <3>1, <3>2
  <2> QED BY <2>1, Zenon DEF ToSet
<1>4. ASSUME NEW i \in 1..Len(t), i # m PROVE t[i] \in ToSet(u)
  <2>1. \E x \in DOMAIN u : t[i] = u[x]
    <3>1. CASE i < m
      <4>1. i \in DOMAIN u /\ u[i] = t[i]
        BY <1>0, <1>1, <3>1
      <4> QED BY <4>1
    <3>2. CASE m < i
      <4>1. i - 1 \in DOMAIN u /\ u[i - 1] = t[i]
        BY <1>0, <1>1, <3>2
      <4> QED BY <4>1
    <3> QED BY <1>4, <3>1, <3>2
  <2> QED BY <2>1, Zenon DEF ToSet
<1>5. ToSet(u) \subseteq ToSet(t)
  BY <1>1, <1>3, Zenon DEF ToSet
<1>6. ToSet(t) \subseteq ToSet(u) \cup {t[m]}
  BY <1>0, <1>4, Zenon DEF ToSet
<1> QED BY <1>1, <1>2, <1>5, <1>6 DEF u

-----------------------------------------------------------------------------
(* The loop that removes muted patterns *)

\* The recursive function of the rounds exists.
LEMMA MutedIs ==
    ASSUME NEW t \in Seq(Pattern), NEW p
    PROVE  /\ Muted(t, p)[0] = {t}
           /\ \A n \in 0..Len(t)-1 : Muted(t, p)[n + 1] = Round(Muted(t, p)[n], p)
<1>0. Len(t) \in Nat
  OBVIOUS
<1> DEFINE Good(n) == \E f : f = [i \in 0..n |-> IF i = 0 THEN {t} ELSE Round(f[i - 1], p)]
           G == {n \in Nat : Good(n)}
<1>1. 0 \in G
  <2> DEFINE h == [i \in 0..0 |-> {t}]
  <2>1. h = [i \in 0..0 |-> IF i = 0 THEN {t} ELSE Round(h[i - 1], p)]
    <3>1. \A i \in 0..0 : i = 0
      OBVIOUS
    <3> QED BY <3>1, Zenon
  <2>2. Good(0)
    BY <2>1, Zenon
  <2> HIDE DEF Good
  <2> QED BY <2>2
<1>2. ASSUME NEW n \in Nat, n \in G PROVE n + 1 \in G
  <2>1. PICK f : f = [i \in 0..n |-> IF i = 0 THEN {t} ELSE Round(f[i - 1], p)]
    BY Zenon, <1>2
  <2> DEFINE h == [i \in 0..n+1 |-> IF i = n + 1 THEN Round(f[i - 1], p) ELSE f[i]]
  <2>2. ASSUME NEW i \in 0..n+1 PROVE h[i] = IF i = 0 THEN {t} ELSE Round(h[i - 1], p)
    <3>1. i # 0 => i - 1 \in 0..n
      OBVIOUS
    <3>2. \A j \in 0..n : h[j] = f[j]
      OBVIOUS
    <3>3. CASE i = n + 1
      <4>1. h[i] = Round(f[i - 1], p) /\ i # 0
        BY <3>3
      <4> HIDE DEF h
      <4> QED BY <3>1, <3>2, <4>1, Zenon
    <3>4. CASE i # n + 1
      <4>1. i \in 0..n
        BY <3>4
      <4>2. f[i] = IF i = 0 THEN {t} ELSE Round(f[i - 1], p)
        BY <2>1, <4>1, Zenon
      <4> HIDE DEF h
      <4> QED BY <3>1, <3>2, <4>1, <4>2, Zenon
    <3> QED BY <3>3, <3>4
  <2>3. h = [i \in 0..n+1 |-> IF i = 0 THEN {t} ELSE Round(h[i - 1], p)]
    BY <2>2, Zenon
  <2>4. Good(n + 1)
    BY <2>3, Zenon
  <2> HIDE DEF Good
  <2> QED BY <2>4
<1>3. Good(Len(t))
  <2>1. Len(t) \in G
    <3> HIDE DEF G
    <3> QED BY <1>0, <1>1, <1>2, InductiveSet
  <2> QED BY <2>1, Zenon
<1> DEFINE F == CHOOSE f : f = [i \in 0..Len(t) |-> IF i = 0 THEN {t} ELSE Round(f[i - 1], p)]
<1>4. F = [i \in 0..Len(t) |-> IF i = 0 THEN {t} ELSE Round(F[i - 1], p)]
  BY <1>3, Zenon
<1>5. Muted(t, p) = F
  BY Zenon DEF Muted
<1> HIDE DEF F
<1>6. \A i \in 0..Len(t) : F[i] = IF i = 0 THEN {t} ELSE Round(F[i - 1], p)
  BY <1>4, Zenon
<1>7. F[0] = {t}
  BY <1>0, <1>6
<1>8. ASSUME NEW n \in 0..Len(t)-1 PROVE F[n + 1] = Round(F[n], p)
  <2>1. n + 1 \in 0..Len(t) /\ n + 1 # 0 /\ (n + 1) - 1 = n
    BY <1>0
  <2> QED BY <1>6, <2>1, Zenon
<1> QED BY <1>5, <1>7, <1>8, Zenon

\* What the rounds leave of a tree: it is in order, and p stands for what is gone.
Remains(t, p, u) ==
    /\ u \in Seq(Pattern)
    /\ Sorted(u)
    /\ ToSet(u) \subseteq ToSet(t)
    /\ \A q \in ToSet(t) : q \in ToSet(u) \/ Within(q, p)

\* One round.
LEMMA RoundKeeps ==
    ASSUME NEW t \in Seq(Pattern), NEW p \in Pattern, NEW U, \A u \in U : Remains(t, p, u),
           NEW v \in Round(U, p)
    PROVE  Remains(t, p, v)
<1>1. PICK u \in U : v \in {RemoveAt(u, m) : m \in {m \in Hits(u, p) : FALSE \in broader_pattern(u[m], p)}}
  BY Zenon DEF Round
<1>2. PICK m \in Hits(u, p) : FALSE \in broader_pattern(u[m], p) /\ v = RemoveAt(u, m)
  BY <1>1, Zenon
<1>3. u \in Seq(Pattern) /\ Sorted(u) /\ ToSet(u) \subseteq ToSet(t) /\ \A q \in ToSet(t) : q \in ToSet(u) \/ Within(q, p)
  BY Zenon DEF Remains
<1>4. m \in 1..Len(u) /\ u[m] \in Pattern /\ path_comp(p, u[m]) = 0
  BY <1>3 DEF Hits
<1>5. Within(u[m], p)
  BY <1>2, <1>4, BroaderIs, Zenon
<1>6. /\ v \in Seq(Pattern) /\ Sorted(v) /\ ToSet(v) \subseteq ToSet(u)
      /\ ToSet(u) \subseteq ToSet(v) \cup {u[m]}
  BY <1>2, <1>3, <1>4, RemoveSorted, Zenon
<1> QED BY <1>3, <1>5, <1>6, Zenon DEF Remains

\* All of them.
LEMMA MutedKeeps ==
    ASSUME NEW t \in Seq(Pattern), Sorted(t), NEW p \in Pattern
    PROVE  \A n \in 0..Len(t) : \A u \in Muted(t, p)[n] : Remains(t, p, u)
<1> DEFINE G == {n \in Nat : \A u \in Muted(t, p)[n] : Remains(t, p, u)}
<1>0. Len(t) \in Nat
  OBVIOUS
<1>1. 0 \in G
  <2>1. Remains(t, p, t)
    BY Zenon DEF Remains
  <2>2. \A u \in Muted(t, p)[0] : Remains(t, p, u)
    BY <2>1, MutedIs, Zenon
  <2> QED BY <2>2
<1>2. ASSUME NEW n \in 0..Len(t)-1, n \in G PROVE n + 1 \in G
  <2>1. Muted(t, p)[n + 1] = Round(Muted(t, p)[n], p)
    BY MutedIs, Zenon
  <2>2. \A u \in Muted(t, p)[n] : Remains(t, p, u)
    BY <1>2, Zenon
  <2>3. \A v \in Round(Muted(t, p)[n], p) : Remains(t, p, v)
    BY <2>2, RoundKeeps, Zenon
  <2> QED BY <2>1, <2>3
<1>3. 0..Len(t) \subseteq G
  <2> HIDE DEF G
  <2> QED BY <1>0, <1>1, <1>2, InductiveUpTo
<1> QED BY <1>3, Zenon

\* After the loop a pattern stands for each of those that were there and for the new one,
\* and no other pattern came in.
LEMMA MutedTreesAre ==
    ASSUME NEW t \in Seq(Pattern), Sorted(t), NEW p \in Pattern, NEW u \in MutedTrees(t, p)
    PROVE  /\ u \in Seq(Pattern) /\ Sorted(u)
           /\ ToSet(u) \subseteq ToSet(t) \cup {p}
           /\ \A q \in ToSet(t) \cup {p} : \E r \in ToSet(u) : Within(q, r)
<1>1. PICK n \in 0..Len(t) : \E x \in Muted(t, p)[n] :
        \/ \E m \in Hits(x, p) : TRUE \in broader_pattern(x[m], p) /\ u = x
        \/ \E at \in Misses(x, p) : u = InsertAt(x, at, p)
  BY Zenon DEF MutedTrees
<1>1a. PICK v \in Muted(t, p)[n] :
        \/ \E m \in Hits(v, p) : TRUE \in broader_pattern(v[m], p) /\ u = v
        \/ \E at \in Misses(v, p) : u = InsertAt(v, at, p)
  BY <1>1, Zenon
<1>2. Remains(t, p, v)
  BY MutedKeeps, Zenon
<1>3. v \in Seq(Pattern) /\ Sorted(v) /\ ToSet(v) \subseteq ToSet(t) /\ \A q \in ToSet(t) : q \in ToSet(v) \/ Within(q, p)
  BY <1>2, Zenon DEF Remains
<1>4. \A q \in ToSet(t) : q \in Pattern
  BY DEF ToSet
<1>5. p \in Pattern /\ \A q \in Pattern : Within(q, q)
  BY WithinTransitive
<1>6. CASE \E m \in Hits(v, p) : TRUE \in broader_pattern(v[m], p) /\ u = v
  <2>1. PICK m \in Hits(v, p) : TRUE \in broader_pattern(v[m], p) /\ u = v
    BY Zenon, <1>6
  <2>2. m \in DOMAIN v /\ v[m] \in Pattern /\ path_comp(p, v[m]) = 0
    BY <1>3 DEF Hits
  <2>3. Within(p, v[m]) /\ v[m] \in ToSet(v)
    <3>1. Within(p, v[m])
      BY <2>1, <2>2, BroaderIs, Zenon
    <3>2. v[m] \in ToSet(v)
      BY <2>2, Zenon DEF ToSet
    <3> QED BY <3>1, <3>2
  <2>4. \A q \in Pattern : Within(q, p) => Within(q, v[m])
    BY <2>2, <2>3, WithinTransitive, Zenon
  <2> QED BY <1>3, <1>4, <1>5, <2>1, <2>3, <2>4, Zenon
<1>7. CASE \E at \in Misses(v, p) : u = InsertAt(v, at, p)
  <2>1. PICK at \in Misses(v, p) : u = InsertAt(v, at, p)
    BY <1>7
  <2>2. u \in Seq(Pattern) /\ Sorted(u) /\ ToSet(u) = ToSet(v) \cup {p}
    BY <1>3, <2>1, InsertSorted, Zenon
  <2> QED BY <1>3, <1>4, <1>5, <2>2, Zenon
<1> QED BY Zenon, <1>1a, <1>6, <1>7

-----------------------------------------------------------------------------
(* The trees *)

\* Both trees are in order.  In paths_tree a pattern that was added stands for each that was
\* added; uxacl_objects has only patterns that were listed, and some if any were.
TreesInv ==
    /\ paths \in Seq(Pattern) /\ Sorted(paths)
    /\ added \subseteq Pattern
    /\ ToSet(paths) \subseteq added
    /\ \A p \in added : \E q \in ToSet(paths) : Within(p, q)
    /\ uxacl \in Seq(Pattern) /\ Sorted(uxacl)
    /\ listed \in Seq(Pattern)
    /\ ToSet(uxacl) \subseteq ToSet(listed)
    /\ uxacl = <<>> => listed = <<>>

\* It is so at the start.
LEMMA TreesInitInv == TreesInit => TreesInv
BY DEF TreesInit, TreesInv, Sorted, ToSet

\* Adding a pattern keeps it.
LEMMA AddPatternInv == TreesInv /\ AddPattern => TreesInv'
<1> SUFFICES ASSUME TreesInv, NEW p \in Pattern,
                    wsubus_client_path_pattern_add(p) \/ ubusx_acl__add_object(p)
             PROVE  TreesInv'
  BY Zenon DEF AddPattern
<1>1. CASE wsubus_client_path_pattern_add(p)
  <2>1. paths' \in MutedTrees(paths, p) /\ added' = added \cup {p} /\ UNCHANGED <<uxacl, listed>>
    BY <1>1 DEF wsubus_client_path_pattern_add
  <2>2. /\ paths \in Seq(Pattern) /\ Sorted(paths) /\ added \subseteq Pattern /\ ToSet(paths) \subseteq added
        /\ \A q \in added : \E r \in ToSet(paths) : Within(q, r)
    BY Zenon DEF TreesInv
  <2>3. \A u \in MutedTrees(paths, p) :
            /\ u \in Seq(Pattern) /\ Sorted(u)
            /\ ToSet(u) \subseteq ToSet(paths) \cup {p}
            /\ \A q \in ToSet(paths) \cup {p} : \E r \in ToSet(u) : Within(q, r)
    BY <2>2, MutedTreesAre, Zenon
  <2>4. /\ paths' \in Seq(Pattern) /\ Sorted(paths)'
        /\ ToSet(paths') \subseteq ToSet(paths) \cup {p}
        /\ \A q \in ToSet(paths) \cup {p} : \E r \in ToSet(paths') : Within(q, r)
    <3>1. \A u : Sorted(u) /\ u = paths' => Sorted(paths)'
      BY DEF Sorted
    <3> QED BY <2>1, <2>3, <3>1, Zenon
  <2>5. ToSet(paths') \subseteq Pattern
    BY <2>4 DEF ToSet
  <2>6. ASSUME NEW q \in added' PROVE \E r \in ToSet(paths') : Within(q, r)
    <3>1. CASE q = p
      BY <2>4, <3>1, Zenon
    <3>2. CASE q \in added
      <4>1. PICK r \in ToSet(paths) : Within(q, r)
        BY <2>2, <3>2, Zenon
      <4>2. PICK s \in ToSet(paths') : Within(r, s)
        BY <2>4, Zenon
      <4>3. q \in Pattern /\ r \in Pattern /\ s \in Pattern
        BY <2>2, <2>5, <3>2, Zenon
      <4>4. Within(q, s)
        BY <4>1, <4>2, <4>3, WithinTransitive, Zenon
      <4> QED BY <4>4
    <3> QED BY <2>1, <3>1, <3>2
  <2>7. added' \subseteq Pattern /\ ToSet(paths') \subseteq added'
    BY <2>1, <2>2, <2>4, Zenon
  <2>8. ToSet(paths)' = ToSet(paths')
    BY DEF ToSet
  <2>9. (/\ uxacl \in Seq(Pattern) /\ Sorted(uxacl)
         /\ listed \in Seq(Pattern)
         /\ ToSet(uxacl) \subseteq ToSet(listed)
         /\ uxacl = <<>> => listed = <<>>)'
    <3>1. uxacl' = uxacl /\ listed' = listed
      BY <2>1
    <3> QED BY Zenon, <3>1 DEF TreesInv, Sorted, ToSet
  <2> QED BY <2>4, <2>6, <2>7, <2>8, <2>9, Zenon DEF TreesInv
<1>2. CASE ubusx_acl__add_object(p)
  <2>1. uxacl' \in avl_insert(uxacl, p) /\ listed' = Append(listed, p) /\ paths' = paths /\ added' = added
    BY <1>2 DEF ubusx_acl__add_object
  <2>2. /\ uxacl \in Seq(Pattern) /\ Sorted(uxacl) /\ listed \in Seq(Pattern) /\ ToSet(uxacl) \subseteq ToSet(listed)
    BY Zenon DEF TreesInv
  <2>3. ToSet(Append(listed, p)) = ToSet(listed) \cup {p} /\ Append(listed, p) \in Seq(Pattern)
    <3> DEFINE u == Append(listed, p)
               l == Len(listed)
    <3>1. /\ u \in Seq(Pattern) /\ l \in Nat /\ DOMAIN u = 1..l+1 /\ DOMAIN listed = 1..l
          /\ \A i \in 1..l : u[i] = listed[i]
          /\ u[l + 1] = p
      BY <2>2
    <3> HIDE DEF u, l
    <3>2. l + 1 \in 1..l+1 /\ \A i \in 1..l+1 : i \in 1..l \/ i = l + 1
      BY <3>1
    <3>3. 1..l \subseteq 1..l+1
      BY <3>1
    <3>4. ToSet(u) = ToSet(listed) \cup {p}
      BY <3>1, <3>2, <3>3, Zenon DEF ToSet
    <3> QED BY <3>1, <3>4 DEF u
  <2>4. ASSUME NEW u \in avl_insert(uxacl, p)
        PROVE  u \in Seq(Pattern) /\ Sorted(u) /\ ToSet(u) \subseteq ToSet(listed) \cup {p} /\ u # <<>>
    <3>1. CASE Hits(uxacl, p) # {} /\ u = uxacl
      <4>1. u # <<>>
        BY <2>2, <3>1 DEF Hits
      <4> QED BY <2>2, <3>1, <4>1, Zenon
    <3>2. ASSUME NEW at \in Misses(uxacl, p), u = InsertAt(uxacl, at, p)
          PROVE  u \in Seq(Pattern) /\ Sorted(u) /\ ToSet(u) \subseteq ToSet(listed) \cup {p} /\ u # <<>>
      <4>1. u \in Seq(Pattern) /\ Sorted(u) /\ ToSet(u) = ToSet(uxacl) \cup {p}
        BY <2>2, <3>2, InsertSorted, Zenon
      <4>2. u # <<>>
        <5>1. ToSet(<<>>) = {}
          BY DEF ToSet
        <5> QED BY <4>1, <5>1, Zenon
      <4> QED BY <2>2, <4>1, <4>2, Zenon
    <3> QED BY <3>1, <3>2, Zenon DEF avl_insert
  <2>5. uxacl' \in Seq(Pattern) /\ Sorted(uxacl)' /\ ToSet(uxacl') \subseteq ToSet(listed) \cup {p} /\ uxacl' # <<>>
    <3>1. \A u : Sorted(u) /\ u = uxacl' => Sorted(uxacl)'
      BY DEF Sorted
    <3> QED BY <2>1, <2>4, <3>1, Zenon
  <2>6. ToSet(uxacl)' = ToSet(uxacl') /\ ToSet(listed)' = ToSet(listed')
    BY DEF ToSet
  <2>7. (/\ paths \in Seq(Pattern) /\ Sorted(paths)
         /\ added \subseteq Pattern
         /\ ToSet(paths) \subseteq added
         /\ \A q \in added : \E r \in ToSet(paths) : Within(q, r))'
    BY <2>1 DEF TreesInv, Sorted, ToSet
  <2> QED BY <2>1, <2>3, <2>5, <2>6, <2>7, Zenon DEF TreesInv
<1> QED BY <1>1, <1>2

\* What the trees answer follows from it.
LEMMA TreesExact == TreesInv => PathsExact /\ AclSearchExact
<1> SUFFICES ASSUME TreesInv PROVE PathsExact /\ AclSearchExact
  OBVIOUS
<1>1. ASSUME NEW n \in Name
      PROVE  wsubus_client_match_pattern(n) = {added = {} \/ \E p \in added : Covers(p, n)}
  <2>1. CASE paths = <<>>
    <3>1. added = {}
      BY <2>1 DEF TreesInv, ToSet
    <3> QED BY Zenon, <2>1, <3>1 DEF wsubus_client_match_pattern
  <2>2. CASE paths # <<>>
    <3>1. added # {}
      <4>1. 1 \in DOMAIN paths
        BY <2>2, EmptySeq DEF TreesInv
      <4> QED BY Zenon, <4>1 DEF TreesInv, ToSet
    <3>2. (\E p \in added : Covers(p, n)) <=> (\E q \in ToSet(paths) : Covers(q, n))
      <4>1. \A p, q \in Pattern : Covers(p, n) /\ Within(p, q) => Covers(q, n)
        BY CoversIs
      <4> QED BY <4>1, Zenon DEF TreesInv
    <3>3. avl_find(paths, n) = {\E q \in ToSet(paths) : Covers(q, n)}
      BY FindIs, Zenon DEF TreesInv
    <3>4. wsubus_client_match_pattern(n) = avl_find(paths, n)
      BY <2>2 DEF wsubus_client_match_pattern
    <3> QED BY Zenon, <3>1, <3>2, <3>3, <3>4
  <2> QED BY <2>1, <2>2
<1>2. ASSUME NEW n \in Name
      PROVE  ubusx_acl__allow_object(n) = {uxacl = <<>> \/ \E p \in ToSet(uxacl) : Covers(p, n)}
  <2>1. CASE uxacl = <<>>
    BY Zenon, <2>1 DEF ubusx_acl__allow_object
  <2>2. CASE uxacl # <<>>
    <3>1. avl_find(uxacl, n) = {\E p \in ToSet(uxacl) : Covers(p, n)}
      BY FindIs, Zenon DEF TreesInv
    <3> QED BY Zenon, <2>2, <3>1 DEF ubusx_acl__allow_object
  <2> QED BY <2>1, <2>2
<1> QED BY <1>1, <1>2, Zenon DEF PathsExact, AclSearchExact, TreesInv

-----------------------------------------------------------------------------
(* The check *)

\* Why a decision made here may let the request through.
AllowedHere(i) ==
    IF i.sid = "X-tls" /\ i.conn # "plain"
    THEN /\ i.conn = "verified"
         /\ uxacl = <<>> \/ \E p \in ToSet(uxacl) : Covers(p, IF i.path = NoName THEN i.object ELSE i.path)
    ELSE i.login = "listed"

\* Who may be asked instead.
LeftToRpcd(i) == ~(i.sid = "X-tls" /\ i.conn # "plain") /\ i.login = "free"

\* The tag tells which callback is waited for; a deferred grant has its reason, and while
\* rpcd is asked, the result is what it said last.
CheckInv ==
    /\ result \in BOOLEAN /\ timer \in BOOLEAN /\ request \in BOOLEAN
    /\ said \in [access : BOOLEAN, ok : BOOLEAN]
    /\ state = "new" => tag = "UBUS" /\ result = said.access
    /\ state = "deferred" => tag = "DEFER" /\ (result /\ ~Misread(input) => AllowedHere(input))
    /\ state = "asked" => tag = "UBUS" /\ result = said.access /\ LeftToRpcd(input)
    /\ CallbackExact
    /\ GrantedForAReason

\* A decision to let a request through has its reason, and one to ask rpcd is made only
\* where it is asked.
LEMMA DecisionsHaveReasons ==
    ASSUME TreesInv, NEW i \in Input, NEW d \in Decisions(i)
    PROVE  /\ d = "ALLOW" /\ ~Misread(i) => AllowedHere(i)
           /\ d = "NEXT" => LeftToRpcd(i)
<1>1. /\ i.sid \in {"rpcd", "X-mgmt", "X-tls"} /\ i.conn \in {"plain", "nocert", "unverified", "verified"}
      /\ i.kind \in {"call", "callObj", "event", "eventObj"}
      /\ i.object \in Object /\ i.path \in Object \cup {NoName}
      /\ i.login \in {"free", "listed", "unlisted"}
      /\ i.path # NoName => i.kind = "eventObj"
  BY Zenon DEF Input
<1>2. PICK e \in Extended(i) : d \in IF e = "NEXT" THEN wsu_ext_restrict_interface(i) ELSE {e}
  BY Zenon DEF Decisions
<1>3. /\ d \in wsu_ext_restrict_interface(i) /\ d = "ALLOW" => i.login = "listed"
      /\ d \in wsu_ext_restrict_interface(i) /\ d = "NEXT" => i.login = "free"
  BY <1>1 DEF wsu_ext_restrict_interface
<1>4. CASE i.sid # "X-tls"
  <2>1. e = "NEXT"
    BY <1>1, <1>4 DEF Extended, wsu_ext_check_interface
  <2> QED BY <1>2, <1>3, <1>4, <2>1 DEF AllowedHere, LeftToRpcd
<1>5. CASE i.sid = "X-tls"
  <2>1. PICK n \in CheckedNames(i) : e \in wsu_ext_check_tls(i.conn, n)
    BY <1>5 DEF Extended
  <2>2. CASE i.conn = "plain"
    <3>1. e = "NEXT"
      BY <2>1, <2>2 DEF wsu_ext_check_tls
    <3> QED BY <1>2, <1>3, <2>2, <3>1 DEF AllowedHere, LeftToRpcd
  <2>3. CASE i.conn \in {"nocert", "unverified"}
    <3>1. e = "DENY"
      BY <2>1, <2>3 DEF wsu_ext_check_tls
    <3> QED BY <1>2, <3>1
  <2>4. CASE i.conn = "verified"
    <3>1. PICK allowed \in ubusx_acl__allow_object(n) : e = IF allowed THEN "ALLOW" ELSE "DENY"
      BY <2>1, <2>4 DEF wsu_ext_check_tls
    <3>2. d = e /\ e # "NEXT"
      BY <1>2, <3>1
    <3>3. ASSUME d = "ALLOW", ~Misread(i) PROVE AllowedHere(i)
      <4>1. allowed
        BY <3>1, <3>2, <3>3
      <4>2. i.kind # "callObj"
        BY <1>5, <3>3 DEF Misread
      <4>3. n = IF i.path = NoName THEN i.object ELSE i.path
        BY <1>1, <4>2 DEF CheckedNames
      <4>4. n \in Name
        BY <1>1, <4>3, CheckAssumption
      <4>5. ubusx_acl__allow_object(n) = {uxacl = <<>> \/ \E p \in ToSet(uxacl) : Covers(p, n)}
        BY <4>4, TreesExact, Zenon DEF AclSearchExact
      <4>6. uxacl = <<>> \/ \E p \in ToSet(uxacl) : Covers(p, n)
        BY <4>1, <4>5, Zenon
      <4> QED BY <1>5, <2>4, <4>3, <4>6, Zenon DEF AllowedHere
    <3> QED BY <3>2, <3>3
  <2> QED BY <1>1, <2>2, <2>3, <2>4
<1> QED BY <1>4, <1>5

\* It is so at the start.
LEMMA CheckInitInv == CheckInit => CheckInv
<1> SUFFICES ASSUME CheckInit PROVE CheckInv
  OBVIOUS
<1>1. /\ state = "new" /\ tag = "UBUS" /\ result = FALSE /\ timer = FALSE /\ request = FALSE
      /\ said = [access |-> FALSE, ok |-> FALSE]
  BY Zenon DEF CheckInit, Nothing
<1>2. state # "deferred" /\ state # "asked" /\ state # "granted"
  BY <1>1
<1>3. said \in [access : BOOLEAN, ok : BOOLEAN] /\ said.access = FALSE
  BY <1>1
<1>4. CallbackExact /\ GrantedForAReason
  BY <1>1, <1>2, Zenon DEF CallbackExact, GrantedForAReason
<1> QED BY <1>1, <1>2, <1>3, <1>4, Zenon DEF CheckInv

\* Both invariants are kept by a step that changes the trees, which no check has read yet.
LEMMA ConfigureInv == TreesInv /\ CheckInv /\ Configure => TreesInv' /\ CheckInv'
<1> SUFFICES ASSUME TreesInv, CheckInv, Configure PROVE TreesInv' /\ CheckInv'
  OBVIOUS
<1>1. TreesInv'
  BY AddPatternInv, Zenon DEF Configure
<1>2. state = "new" /\ UNCHANGED <<input, state, tag, result, timer, request, said>>
  BY DEF Configure, checkVars
<1>3. CheckInv'
  BY <1>2 DEF CheckInv, CallbackExact, GrantedForAReason
<1> QED BY <1>1, <1>3

\* The trees do not change in any other step.
LEMMA TreesStay ==
    ASSUME TreesInv, UNCHANGED treeVars
    PROVE  TreesInv' /\ uxacl' = uxacl
BY DEF TreesInv, treeVars, Sorted, ToSet

\* The check begins: the decisions of the chain have their reasons.
LEMMA BeginInv ==
    ASSUME TreesInv, CheckInv, NEW i \in Input, wsubus_access_check_(i)
    PROVE  TreesInv' /\ CheckInv'
<1>1. /\ state = "new" /\ input' = i /\ UNCHANGED treeVars /\ said' = said
      /\ tag = "UBUS" /\ result = said.access /\ timer = FALSE /\ request = FALSE
      /\ result \in BOOLEAN /\ said \in [access : BOOLEAN, ok : BOOLEAN]
  BY Zenon DEF wsubus_access_check_, CheckInv, CallbackExact
<1>2. TreesInv' /\ uxacl' = uxacl
  BY <1>1, TreesStay
<1>3. AllowedHere(input)' <=> AllowedHere(i)
  BY <1>1, <1>2 DEF AllowedHere, ToSet, Covers
<1>4. (Misread(input)' <=> Misread(i)) /\ (LeftToRpcd(input)' <=> LeftToRpcd(i))
  BY <1>1 DEF Misread, LeftToRpcd
<1>5. ASSUME NEW d \in Decisions(i), d = "NEXT", wsubus_access_check_via_session(i) PROVE CheckInv'
  <2>1. LeftToRpcd(i)
    BY <1>5, DecisionsHaveReasons
  <2>2. /\ tag' = tag /\ result' = result /\ timer' = timer
        /\ (request' = TRUE /\ state' = "asked") \/ (request' = FALSE /\ state' = "failed")
    BY <1>5 DEF wsubus_access_check_via_session
  <2>3. CallbackExact' /\ GrantedForAReason'
    BY Zenon, <1>1, <2>2 DEF CallbackExact, GrantedForAReason
  <2> QED BY Zenon, <1>1, <1>4, <2>1, <2>2, <2>3 DEF CheckInv
<1>6. ASSUME NEW d \in Decisions(i), defer_callback(d = "ALLOW") PROVE CheckInv'
  <2>1. d = "ALLOW" /\ ~Misread(i) => AllowedHere(i)
    BY DecisionsHaveReasons
  <2>2. tag' = "DEFER" /\ result' = (d = "ALLOW") /\ timer' = TRUE /\ state' = "deferred" /\ request' = request
    BY <1>6 DEF defer_callback
  <2>3. CallbackExact' /\ GrantedForAReason'
    BY Zenon, <1>1, <2>2 DEF CallbackExact, GrantedForAReason
  <2> QED BY <1>1, <1>3, <1>4, <2>1, <2>2, <2>3 DEF CheckInv
<1>7. ASSUME state' = "crashed", UNCHANGED <<tag, result, timer, request>> PROVE CheckInv'
  BY <1>1, <1>7 DEF CheckInv, CallbackExact, GrantedForAReason
<1> QED BY <1>2, <1>5, <1>6, <1>7, Zenon DEF wsubus_access_check_

\* The timer of a deferral: the answer is the result that was decided.
LEMMA DeferralInv == TreesInv /\ CheckInv /\ deferral_cb => TreesInv' /\ CheckInv'
<1> SUFFICES ASSUME TreesInv, CheckInv, deferral_cb PROVE TreesInv' /\ CheckInv'
  OBVIOUS
<1>1. /\ state = "deferred" /\ request = FALSE /\ timer' = FALSE /\ UNCHANGED treeVars
      /\ UNCHANGED <<input, tag, result, request, said>>
      /\ state' = IF result THEN "granted" ELSE "denied"
      /\ result /\ ~Misread(input) => AllowedHere(input)
  BY Zenon DEF deferral_cb, Answer, CheckInv, CallbackExact
<1>2. TreesInv' /\ uxacl' = uxacl
  BY <1>1, TreesStay
<1>3. CallbackExact'
  BY Zenon, <1>1 DEF CallbackExact
<1>4. GrantedForAReason'
  <2> SUFFICES ASSUME state' = "granted", ~Misread(input) PROVE GrantedForAReason'
    BY <1>1 DEF GrantedForAReason, Misread
  <2>1. AllowedHere(input)
    BY <1>1
  <2> QED BY <1>1, <1>2, <2>1 DEF GrantedForAReason, AllowedHere, Subject, Misread, ToSet, Covers
<1>5. CheckInv'
  BY Zenon, <1>1, <1>3, <1>4 DEF CheckInv
<1> QED BY <1>2, <1>5

\* The last word of rpcd is the result.
LEMMA OnRetInv ==
    ASSUME TreesInv, CheckInv, NEW b \in BOOLEAN, wsubus_access_check__on_ret(b)
    PROVE  TreesInv' /\ CheckInv'
<1>1. /\ state = "asked" /\ request = TRUE /\ timer = FALSE /\ UNCHANGED treeVars
      /\ UNCHANGED <<input, state, tag, timer, request>>
      /\ result' = b /\ said' = [said EXCEPT !.access = b]
      /\ said \in [access : BOOLEAN, ok : BOOLEAN]
      /\ tag = "UBUS" /\ LeftToRpcd(input)
  BY Zenon DEF wsubus_access_check__on_ret, CheckInv, CallbackExact
<1>2. TreesInv' /\ uxacl' = uxacl
  BY <1>1, TreesStay
<1>3. said' \in [access : BOOLEAN, ok : BOOLEAN] /\ said'.access = b
  BY <1>1
<1>4. CallbackExact' /\ GrantedForAReason'
  BY Zenon, <1>1 DEF CallbackExact, GrantedForAReason
<1>5. CheckInv'
  BY <1>1, <1>3, <1>4 DEF CheckInv, LeftToRpcd
<1> QED BY <1>2, <1>5

\* The end of the call answers with the result if the call ended well.
LEMMA CbInv ==
    ASSUME TreesInv, CheckInv, NEW b \in BOOLEAN, wsubus_access_check__cb(b)
    PROVE  TreesInv' /\ CheckInv'
<1>1. /\ state = "asked" /\ request' = FALSE /\ timer = FALSE /\ UNCHANGED treeVars
      /\ UNCHANGED <<input, tag, result, timer>>
      /\ said' = [said EXCEPT !.ok = b]
      /\ state' = IF result /\ b THEN "granted" ELSE "denied"
      /\ said \in [access : BOOLEAN, ok : BOOLEAN]
      /\ result = said.access /\ LeftToRpcd(input)
  BY Zenon DEF wsubus_access_check__cb, Answer, CheckInv, CallbackExact
<1>2. TreesInv' /\ uxacl' = uxacl
  BY <1>1, TreesStay
<1>3. said' \in [access : BOOLEAN, ok : BOOLEAN] /\ said'.ok = b /\ said'.access = said.access
  BY <1>1
<1>4. CallbackExact'
  BY Zenon, <1>1 DEF CallbackExact
<1>5. GrantedForAReason'
  BY <1>1, <1>3 DEF GrantedForAReason, LeftToRpcd
<1>6. CheckInv'
  BY Zenon, <1>1, <1>3, <1>4, <1>5 DEF CheckInv
<1> QED BY <1>2, <1>6

\* Cancelling takes away what is waited for.
LEMMA CancelInv == TreesInv /\ CheckInv /\ wsubus_access_check__cancel => TreesInv' /\ CheckInv'
<1> SUFFICES ASSUME TreesInv, CheckInv, wsubus_access_check__cancel PROVE TreesInv' /\ CheckInv'
  OBVIOUS
<1>1. /\ state' = "cancelled" /\ timer' = FALSE /\ request' = FALSE /\ UNCHANGED treeVars
      /\ UNCHANGED <<input, tag, result, said>>
  BY Zenon DEF wsubus_access_check__cancel, CheckInv, CallbackExact
<1>2. TreesInv' /\ uxacl' = uxacl
  BY <1>1, TreesStay
<1>3. CallbackExact' /\ GrantedForAReason'
  BY Zenon, <1>1 DEF CallbackExact, GrantedForAReason
<1>4. CheckInv'
  BY Zenon, <1>1, <1>3 DEF CheckInv
<1> QED BY <1>2, <1>4

\* Nothing changes.
LEMMA NothingInv == TreesInv /\ CheckInv /\ UNCHANGED accessVars => TreesInv' /\ CheckInv'
<1> SUFFICES ASSUME TreesInv, CheckInv, UNCHANGED accessVars PROVE TreesInv' /\ CheckInv'
  OBVIOUS
<1>1. UNCHANGED treeVars /\ UNCHANGED <<input, state, tag, result, timer, request, said>>
  BY DEF accessVars, checkVars
<1>2. TreesInv' /\ uxacl' = uxacl
  BY <1>1, TreesStay
<1>3. AllowedHere(input)' <=> AllowedHere(input)
  BY <1>1, <1>2 DEF AllowedHere, ToSet, Covers
<1>4. CallbackExact' /\ GrantedForAReason'
  BY <1>1, <1>2 DEF CheckInv, CallbackExact, GrantedForAReason, Misread, Subject, ToSet, Covers
<1>5. CheckInv'
  BY <1>1, <1>3, <1>4 DEF CheckInv, Misread, LeftToRpcd
<1> QED BY <1>2, <1>5

\* All that follows rests on this.
LEMMA AccessInductive == CheckSpec => [](TreesInv /\ CheckInv)
<1>1. CheckInit => TreesInv /\ CheckInv
  BY CheckInitInv, TreesInitInv, Zenon DEF CheckInit
<1>2. TreesInv /\ CheckInv /\ [CheckNext]_accessVars => TreesInv' /\ CheckInv'
  BY ConfigureInv, BeginInv, DeferralInv, OnRetInv, CbInv, CancelInv, NothingInv, Zenon DEF CheckNext
<1> QED BY <1>1, <1>2, PTL DEF CheckSpec

-----------------------------------------------------------------------------
(* The properties *)

\* Which remote objects get a stub is decided by the patterns that were configured, not by
\* their order, by what was muted, or by the shape of the tree.
THEOREM PathsCorrect == CheckSpec => []PathsExact
<1>1. TreesInv => PathsExact
  BY TreesExact
<1> QED BY <1>1, AccessInductive, PTL

\* A search of the ACL finds the pattern that stands for an object in every shape of the tree.
THEOREM AclSearchCorrect == CheckSpec => []AclSearchExact
<1>1. TreesInv => AclSearchExact
  BY TreesExact
<1> QED BY <1>1, AccessInductive, PTL

\* Access is granted only for one of the three reasons.
THEOREM GrantsCorrect == CheckSpec => []GrantedForAReason
<1>1. CheckInv => GrantedForAReason
  BY DEF CheckInv
<1> QED BY <1>1, AccessInductive, PTL

\* A check that is over or cancelled has nothing that would call back.
THEOREM CallbackCorrect == CheckSpec => []CallbackExact
<1>1. CheckInv => CallbackExact
  BY DEF CheckInv
<1> QED BY <1>1, AccessInductive, PTL
=============================================================================
