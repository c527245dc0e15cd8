-------------------------- MODULE AlgorithmProofs --------------------------
(***************************************************************************)
(* Proofs about the pure parts of the program for inputs of any length and *)
(* for every value of the constants: the texts relayed between servers     *)
(* (Framing), the streaming of SHA-256 and URLDecode (NPUtil), what the    *)
(* clients send and show (ChatClient), and the configuration (Properties). *)
(* They are inductions over the input.  The principle of induction is not  *)
(* taken from the library, whose theorem has an operator for a parameter,  *)
(* but derived from WFMin: a set of sequences that holds the empty one and *)
(* every continuation of its members holds all.                            *)
(***************************************************************************)
EXTENDS MCAlgorithms, WellFoundedInduction, TLAPS

(***************************************************************************)
(* Induction, folds and flattened sequences                                *)
(***************************************************************************)
\* Every set of numbers that is not empty has a least one.
LEMMA Least ==
  ASSUME NEW T \in SUBSET Nat, T # {}
  PROVE  \E m \in T : \A k \in T : m <= k
<1> DEFINE R == OpToRel(<, Nat)
<1>1. IsWellFoundedOn(R, Nat)
  BY NatLessThanWellFounded, Zenon
<1>h. \A x, y \in Nat : x < y => <<x, y>> \in R
  BY DEF OpToRel
<1> HIDE DEF R
<1>2. \E x \in T : \A y \in T : ~ (<<y, x>> \in R)
  BY <1>1, WFMin
<1>3. PICK x \in T : \A y \in T : ~ (<<y, x>> \in R)
  BY <1>2
<1>4. \A y \in T : ~ (y < x)
  BY <1>3, <1>h
<1> QED BY <1>4

\* Induction over the numbers, for a set.
LEMMA SetInduction ==
  ASSUME NEW S \in SUBSET Nat, 0 \in S, \A n \in S : n + 1 \in S
  PROVE  S = Nat
<1> SUFFICES ASSUME Nat \ S # {} PROVE FALSE OBVIOUS
<1>1. PICK m \in Nat \ S : \A k \in Nat \ S : m <= k
  BY Least
<1>2. m - 1 \in S
  BY <1>1
<1> QED BY <1>1, <1>2

\* Max of the community modules, for numbers up to n.
LEMMA MaxOf ==
  ASSUME NEW n \in Nat, NEW s \in SUBSET (1 .. n), s # {}
  PROVE  Max(s) \in s /\ \A y \in s : y <= Max(s)
<1> DEFINE T == {k \in Nat : \A y \in s : y <= k}
<1>1. n \in T
  OBVIOUS
<1>2. PICK m \in T : \A k \in T : m <= k
  BY <1>1, Least
<1>3. m \in s
  <2> SUFFICES ASSUME m \notin s PROVE FALSE OBVIOUS
  <2>1. \A y \in s : y <= m - 1
    OBVIOUS
  <2>2. m # 0
    <3>1. PICK y \in s : TRUE
      OBVIOUS
    <3>2. y >= 1 /\ y <= m
      BY <3>1
    <3> QED BY <3>2
  <2>3. m - 1 \in T
    BY <2>1, <2>2
  <2> QED BY <2>3, <1>2
<1>4. \E x \in s : \A y \in s : x >= y
  BY <1>3
<1>5. Max(s) \in s /\ \A y \in s : Max(s) >= y
  BY <1>4, Zenon DEF Max
<1> QED BY <1>5

Iterates(Op(_, _), base, seq, n, f) ==
  f = [s \in SUBSET (1 .. n) |->
         IF s = {} THEN base ELSE Op(f[s \ {Max(s)}], seq[Max(s)])]

Agree(f, g, n) == \A s \in SUBSET (1 .. n) : f[s] = g[s]

\* The function that MapThenFoldSet defines is unique.
LEMMA IteratesUnique ==
  ASSUME NEW Op(_, _), NEW base, NEW seq, NEW m \in Nat, NEW n \in Nat, m <= n,
         NEW f, NEW g
  PROVE  Iterates(Op, base, seq, m, f) /\ Iterates(Op, base, seq, n, g)
           => Agree(f, g, m)
<1> SUFFICES ASSUME Iterates(Op, base, seq, m, f), Iterates(Op, base, seq, n, g)
             PROVE  \A s \in SUBSET (1 .. m) : f[s] = g[s]
  BY DEF Agree
<1> DEFINE S == {k \in Nat : \A s \in SUBSET (1 .. m) : s \subseteq 1 .. k => f[s] = g[s]}
<1>0. SUBSET (1 .. m) \subseteq SUBSET (1 .. n)
  OBVIOUS
<1>1. 0 \in S
  <2>1. \A s : s \subseteq 1 .. 0 => s = {}
    OBVIOUS
  <2>2. {} \in SUBSET (1 .. m) /\ {} \in SUBSET (1 .. n)
    OBVIOUS
  <2>3. f[{}] = base /\ g[{}] = base
    BY <2>2 DEF Iterates
  <2> QED BY <2>1, <2>3
<1>2. ASSUME NEW k \in S PROVE k + 1 \in S
  <2>0. k \in Nat /\ k + 1 \in Nat
    OBVIOUS
  <2> SUFFICES ASSUME NEW s \in SUBSET (1 .. m), s \subseteq 1 .. k + 1
               PROVE  f[s] = g[s]
    BY <2>0, Zenon
  <2>1. CASE s = {}
    <3>1. {} \in SUBSET (1 .. m) /\ {} \in SUBSET (1 .. n)
      OBVIOUS
    <3> QED BY <2>1, <3>1 DEF Iterates
  <2>2. CASE s # {}
    <3> DEFINE x == Max(s)
    <3>1. x \in s /\ \A y \in s : y <= x
      BY <2>2, MaxOf
    <3> HIDE DEF x
    <3>2. s \ {x} \subseteq 1 .. k
      BY <2>0, <3>1
    <3>3. s \ {x} \in SUBSET (1 .. m)
      OBVIOUS
    <3>4. f[s \ {x}] = g[s \ {x}]
      BY <3>2, <3>3
    <3>5. f[s] = Op(f[s \ {x}], seq[x])
      BY <2>2 DEF Iterates, x
    <3>a. s \in SUBSET (1 .. n)
      BY <1>0
    <3>6. g[s] = Op(g[s \ {x}], seq[x])
      BY <2>2, <3>a DEF Iterates, x
    <3> QED BY <3>4, <3>5, <3>6
  <2> QED BY <2>1, <2>2
<1> HIDE DEF S
<1>3. S = Nat
  <2>1. S \in SUBSET Nat
    BY DEF S
  <2> QED BY <1>1, <1>2, <2>1, SetInduction
<1> QED BY <1>3 DEF S

\* ... and exists.
LEMMA IteratesExist ==
  ASSUME NEW Op(_, _), NEW base, NEW seq, NEW n \in Nat
  PROVE  \E f : Iterates(Op, base, seq, n, f)
<1> DEFINE S == {k \in Nat : \E f : Iterates(Op, base, seq, k, f)}
<1>1. 0 \in S
  <2> DEFINE f == [s \in SUBSET (1 .. 0) |-> base]
  <2>1. \A s \in SUBSET (1 .. 0) : s = {}
    OBVIOUS
  <2>2. Iterates(Op, base, seq, 0, f)
    BY <2>1 DEF Iterates
  <2> HIDE DEF f
  <2> QED BY <2>2
<1>2. ASSUME NEW k \in S PROVE k + 1 \in S
  <2>0. k \in Nat /\ k + 1 \in Nat
    OBVIOUS
  <2>1. PICK f : Iterates(Op, base, seq, k, f)
    OBVIOUS
  <2> DEFINE g == [s \in SUBSET (1 .. k + 1) |->
                     IF k + 1 \in s THEN Op(f[s \ {k + 1}], seq[k + 1]) ELSE f[s]]
  <2>2. ASSUME NEW s \in SUBSET (1 .. k + 1)
        PROVE  g[s] = IF s = {} THEN base ELSE Op(g[s \ {Max(s)}], seq[Max(s)])
    <3>1. CASE s = {}
      <4>1. g[s] = f[s]
        BY <3>1
      <4>2. f[s] = base
        BY <2>1, <3>1 DEF Iterates
      <4> QED BY <4>1, <4>2, <3>1
    <3>2. CASE s # {}
      <4> DEFINE x == Max(s)
      <4>1. x \in s /\ \A y \in s : y <= x
        BY <3>2, <2>0, MaxOf
      <4> HIDE DEF x
      <4>2. k + 1 \notin s \ {x}
        BY <4>1, <2>0
      <4>3. s \ {x} \in SUBSET (1 .. k + 1)
        OBVIOUS
      <4>4. g[s \ {x}] = f[s \ {x}]
        BY <4>2, <4>3
      <4>5. CASE k + 1 \in s
        <5>1. x = k + 1
          BY <4>1, <4>5
        <5> QED BY <5>1, <4>4, <4>5, <3>2 DEF x
      <4>6. CASE k + 1 \notin s
        <5>1. s \in SUBSET (1 .. k)
          BY <4>6
        <5>2. f[s] = Op(f[s \ {x}], seq[x])
          BY <5>1, <3>2, <2>1 DEF Iterates, x
        <5> QED BY <5>2, <4>4, <4>6, <3>2 DEF x
      <4> QED BY <4>5, <4>6
    <3> QED BY <3>1, <3>2
  <2>3. Iterates(Op, base, seq, k + 1, g)
    <3> DEFINE h == [s \in SUBSET (1 .. k + 1) |-> IF s = {} THEN base ELSE Op(g[s \ {Max(s)}], seq[Max(s)])]
    <3>1. \A s \in SUBSET (1 .. k + 1) : g[s] = h[s]
      BY <2>2
    <3>2. g = h
      BY <3>1
    <3> QED BY <3>2 DEF Iterates
  <2> HIDE DEF g
  <2> QED BY <2>3
<1> HIDE DEF S
<1>3. S = Nat
  <2>1. S \in SUBSET Nat
    BY DEF S
  <2> QED BY <1>1, <1>2, <2>1, SetInduction
<1> QED BY <1>3 DEF S

\* ... and gives FoldLeft.
LEMMA FoldLeftIterates ==
  ASSUME NEW Op(_, _), NEW base, NEW V, NEW seq \in Seq(V), NEW f,
         Iterates(Op, base, seq, Len(seq), f)
  PROVE  FoldLeft(Op, base, seq) = f[1 .. Len(seq)]
<1> DEFINE n == Len(seq)
<1>1. DOMAIN seq = 1 .. n /\ n \in Nat
  OBVIOUS
<1> DEFINE P(g) == g = [s \in SUBSET DOMAIN seq |->
         IF s = {} THEN base ELSE Op(g[s \ {Max(s)}], seq[Max(s)])]
<1> DEFINE c == CHOOSE g : P(g)
<1>2. FoldLeft(Op, base, seq) = c[DOMAIN seq]
  BY DEF FoldLeft, MapThenFoldSet
<1>3. P(f)
  BY <1>1 DEF Iterates
<1> HIDE DEF P
<1>4. P(c)
  BY <1>3
<1>5. Iterates(Op, base, seq, n, c)
  BY <1>4, <1>1 DEF P, Iterates
<1> HIDE DEF c
<1>e. n <= n /\ n \in Nat
  BY <1>1
<1> HIDE DEF n
<1>f. Iterates(Op, base, seq, n, f)
  BY DEF n
<1>6. Agree(c, f, n)
  BY <1>5, <1>e, <1>f, IteratesUnique, Zenon
<1> QED BY <1>2, <1>6, <1>1 DEF n, Agree

\* Nothing to fold.
LEMMA FoldLeftEmpty ==
  ASSUME NEW Op(_, _), NEW base
  PROVE  FoldLeft(Op, base, << >>) = base
<1>1. PICK f : Iterates(Op, base, << >>, 0, f)
  BY IteratesExist
<1>2. << >> \in Seq({}) /\ Len(<< >>) = 0 /\ 1 .. 0 = {}
  OBVIOUS
<1>3. FoldLeft(Op, base, << >>) = f[{}]
  BY <1>1, <1>2, FoldLeftIterates
<1>4. f[{}] = base
  BY <1>1 DEF Iterates
<1> QED BY <1>3, <1>4

Folds(Op(_, _), base, seq, v) ==
  FoldLeft(Op, base, Append(seq, v)) = Op(FoldLeft(Op, base, seq), v)

\* One more element to fold.
LEMMA FoldLeftAppend ==
  ASSUME NEW Op(_, _), NEW base, NEW V, NEW seq \in Seq(V), NEW v \in V
  PROVE  Folds(Op, base, seq, v)
<1> DEFINE n == Len(seq)
           longer == Append(seq, v)
<1>1. n \in Nat /\ longer \in Seq(V) /\ Len(longer) = n + 1 /\ longer[n + 1] = v
      /\ \A i \in 1 .. n : longer[i] = seq[i]
  OBVIOUS
<1> HIDE DEF longer, n
<1>a. n + 1 \in Nat /\ n <= n + 1
  BY <1>1
<1>2. PICK f : Iterates(Op, base, longer, n + 1, f)
  BY <1>a, IteratesExist
<1>3. PICK g : Iterates(Op, base, longer, n, g)
  BY <1>1, IteratesExist
<1>4. Agree(g, f, n)
  <2>1. n \in Nat
    BY <1>1
  <2> QED BY <2>1, <1>a, <1>2, <1>3, IteratesUnique, Zenon
<1>5. ASSUME NEW s \in SUBSET (1 .. n), s # {}
      PROVE  longer[Max(s)] = seq[Max(s)]
  BY <1>1, <1>5, MaxOf
<1>6. Iterates(Op, base, seq, n, g)
  BY <1>3, <1>5 DEF Iterates
<1>7. FoldLeft(Op, base, seq) = g[1 .. n]
  BY <1>6, FoldLeftIterates DEF n
<1>8. FoldLeft(Op, base, longer) = f[1 .. n + 1]
  BY <1>1, <1>2, FoldLeftIterates
<1>9. Max(1 .. n + 1) = n + 1
  <2>0. n \in Nat
    BY <1>1
  <2>a. n + 1 \in 1 .. n + 1
    BY <2>0
  <2>1. 1 .. n + 1 # {} /\ n + 1 \in 1 .. n + 1
    BY <2>a
  <2>2. Max(1 .. n + 1) \in 1 .. n + 1 /\ \A y \in 1 .. n + 1 : y <= Max(1 .. n + 1)
    BY <2>1, <1>a, MaxOf
  <2> QED BY <1>1, <2>1, <2>2
<1>10. f[1 .. n + 1] = Op(f[(1 .. n + 1) \ {n + 1}], longer[n + 1])
  <2>1. 1 .. n + 1 # {} /\ 1 .. n + 1 \in SUBSET (1 .. n + 1)
    BY <1>1
  <2>2. f[1 .. n + 1] = Op(f[(1 .. n + 1) \ {Max(1 .. n + 1)}], longer[Max(1 .. n + 1)])
    BY <2>1, <1>2 DEF Iterates
  <2> QED BY <2>2, <1>9
<1>11. (1 .. n + 1) \ {n + 1} = 1 .. n
  BY <1>1
<1> QED BY <1>1, <1>4, <1>7, <1>8, <1>10, <1>11 DEF longer, Agree, Folds

\* Induction over sequences, for a set.
LEMMA SeqInduction ==
  ASSUME NEW V, NEW S, << >> \in S, \A s \in S \cap Seq(V), v \in V : Append(s, v) \in S
  PROVE  Seq(V) \subseteq S
<1> DEFINE T == {n \in Nat : \A s \in Seq(V) : Len(s) = n => s \in S}
<1>1. 0 \in T
  OBVIOUS
<1>2. ASSUME NEW n \in T PROVE n + 1 \in T
  <2>0. n \in Nat /\ n + 1 \in Nat
    OBVIOUS
  <2> SUFFICES ASSUME NEW s \in Seq(V), Len(s) = n + 1 PROVE s \in S
    BY <2>0
  <2> DEFINE front == SubSeq(s, 1, n)
  <2>1. front \in Seq(V) /\ Len(front) = n /\ \A i \in 1 .. n : front[i] = s[i]
    BY <2>0
  <2>2. s[n + 1] \in V
    BY <2>0
  <2>3. front \in S
    BY <2>1
  <2> HIDE DEF front
  <2>4. Append(front, s[n + 1]) = s
    BY <2>0, <2>1, <2>2
  <2>5. Append(front, s[n + 1]) \in S
    BY <2>1, <2>2, <2>3
  <2> QED BY <2>4, <2>5
<1> HIDE DEF T
<1>3. T = Nat
  <2>1. T \in SUBSET Nat
    BY DEF T
  <2> QED BY <1>1, <1>2, <2>1, SetInduction
<1> QED BY <1>3 DEF T

Flattens(ss, n, f) ==
  f = [i \in 1 .. n |-> IF i = 1 THEN ss[i] ELSE f[i - 1] \o ss[i]]

\* The function that FlattenSeq defines is unique.
LEMMA FlattensUnique ==
  ASSUME NEW ss, NEW m \in Nat, NEW n \in Nat, m <= n, NEW f, NEW g,
         Flattens(ss, m, f), Flattens(ss, n, g)
  PROVE  \A i \in 1 .. m : f[i] = g[i]
<1> DEFINE S == {k \in Nat : k \in 1 .. m => f[k] = g[k]}
<1>1. 0 \in S
  OBVIOUS
<1>2. ASSUME NEW k \in S PROVE k + 1 \in S
  <2>0. k \in Nat /\ k + 1 \in Nat
    OBVIOUS
  <2> SUFFICES ASSUME k + 1 \in 1 .. m PROVE f[k + 1] = g[k + 1]
    BY <2>0
  <2>1. k + 1 \in 1 .. n /\ (k + 1 # 1 => k \in 1 .. m) /\ (k + 1) - 1 = k
    BY <2>0
  <2>2. f[k + 1] = IF k + 1 = 1 THEN ss[k + 1] ELSE f[(k + 1) - 1] \o ss[k + 1]
    BY DEF Flattens
  <2>3. g[k + 1] = IF k + 1 = 1 THEN ss[k + 1] ELSE g[(k + 1) - 1] \o ss[k + 1]
    BY <2>1 DEF Flattens
  <2> QED BY <2>1, <2>2, <2>3
<1> HIDE DEF S
<1>3. S = Nat
  <2>1. S \in SUBSET Nat
    BY DEF S
  <2> QED BY <1>1, <1>2, <2>1, SetInduction
<1> QED BY <1>3 DEF S

\* ... and exists.
LEMMA FlattensExist ==
  ASSUME NEW ss, NEW n \in Nat
  PROVE  \E f : Flattens(ss, n, f)
<1> DEFINE S == {k \in Nat : \E f : Flattens(ss, k, f)}
<1>1. 0 \in S
  <2> DEFINE f == [i \in 1 .. 0 |-> 0]
  <2>1. Flattens(ss, 0, f)
    BY DEF Flattens
  <2> HIDE DEF f
  <2> QED BY <2>1
<1>2. ASSUME NEW k \in S PROVE k + 1 \in S
  <2>0. k \in Nat /\ k + 1 \in Nat
    OBVIOUS
  <2>1. PICK f : Flattens(ss, k, f)
    OBVIOUS
  <2> DEFINE g == [i \in 1 .. k + 1 |->
                     IF i = 1 THEN ss[i] ELSE f[i - 1] \o ss[i]]
  <2>2. ASSUME NEW i \in 1 .. k PROVE g[i] = f[i]
    <3>1. f[i] = IF i = 1 THEN ss[i] ELSE f[i - 1] \o ss[i]
      BY <2>1 DEF Flattens
    <3>2. i \in 1 .. k + 1
      BY <2>0
    <3> QED BY <3>1, <3>2
  <2>3. ASSUME NEW i \in 1 .. k + 1
        PROVE  g[i] = IF i = 1 THEN ss[i] ELSE g[i - 1] \o ss[i]
    <3>1. CASE i = 1
      BY <3>1
    <3>2. CASE i # 1
      <4>1. i - 1 \in 1 .. k
        BY <2>0, <3>2
      <4>2. g[i] = f[i - 1] \o ss[i]
        BY <3>2
      <4> HIDE DEF g
      <4> QED BY <4>1, <4>2, <2>2, <3>2
    <3> QED BY <3>1, <3>2
  <2>4. Flattens(ss, k + 1, g)
    <3> DEFINE h == [i \in 1 .. k + 1 |-> IF i = 1 THEN ss[i] ELSE g[i - 1] \o ss[i]]
    <3>1. \A i \in 1 .. k + 1 : g[i] = h[i]
      BY <2>3
    <3>2. g = h
      BY <3>1
    <3> QED BY <3>2 DEF Flattens
  <2> HIDE DEF g
  <2> QED BY <2>0, <2>4
<1> HIDE DEF S
<1>3. S = Nat
  <2>1. S \in SUBSET Nat
    BY DEF S
  <2> QED BY <1>1, <1>2, <2>1, SetInduction
<1> QED BY <1>3 DEF S

\* ... and gives FlattenSeq.
LEMMA FlattenSeqFlattens ==
  ASSUME NEW V, NEW ss \in Seq(V), ss # << >>, NEW f, Flattens(ss, Len(ss), f)
  PROVE  FlattenSeq(ss) = f[Len(ss)]
<1> DEFINE n == Len(ss)
           P(g) == g = [i \in 1 .. n |-> IF i = 1 THEN ss[i] ELSE g[i - 1] \o ss[i]]
           c == CHOOSE g : P(g)
<1>1. n \in Nat /\ n # 0 /\ n \in 1 .. n /\ n <= n
  OBVIOUS
<1>2. FlattenSeq(ss) = c[n]
  BY <1>1 DEF FlattenSeq
<1>3. P(f)
  BY DEF Flattens
<1> HIDE DEF P
<1>4. P(c)
  BY <1>3
<1>5. Flattens(ss, n, c)
  BY <1>4 DEF P, Flattens
<1> HIDE DEF c
<1>6. c[n] = f[n]
  BY <1>1, <1>5, FlattensUnique
<1> QED BY <1>2, <1>6

\* Nothing to flatten.
LEMMA FlattenEmpty == FlattenSeq(<< >>) = << >>
BY DEF FlattenSeq

\* One sequence.
LEMMA FlattenOne ==
  ASSUME NEW V, NEW s \in V
  PROVE  FlattenSeq(<<s>>) = s
<1>1. PICK f : Flattens(<<s>>, 1, f)
  BY FlattensExist
<1>2. f[1] = s
  BY <1>1 DEF Flattens
<1>3. <<s>> \in Seq(V) /\ <<s>> # << >> /\ Len(<<s>>) = 1
  OBVIOUS
<1> QED BY <1>1, <1>2, <1>3, FlattenSeqFlattens

\* One more sequence, behind others.
LEMMA FlattenStep ==
  ASSUME NEW V, NEW ss \in Seq(V), ss # << >>, NEW s \in V
  PROVE  FlattenSeq(Append(ss, s)) = FlattenSeq(ss) \o s
<1> DEFINE n == Len(ss)
           longer == Append(ss, s)
<1>1. n \in Nat /\ n # 0 /\ n + 1 \in Nat /\ n <= n + 1 /\ (n + 1) - 1 = n
  OBVIOUS
<1>2. /\ longer \in Seq(V) /\ Len(longer) = n + 1 /\ longer # << >>
      /\ longer[n + 1] = s /\ \A i \in 1 .. n : longer[i] = ss[i]
  OBVIOUS
<1> HIDE DEF longer
<1>3. PICK f : Flattens(longer, n + 1, f)
  BY <1>1, FlattensExist
<1>4. PICK g : Flattens(ss, n, g)
  BY <1>1, FlattensExist
<1>5. Flattens(longer, n, g)
  BY <1>2, <1>4 DEF Flattens
<1>6. g[n] = f[n]
  BY <1>1, <1>3, <1>5, FlattensUnique
<1>7. f[n + 1] = f[(n + 1) - 1] \o longer[n + 1]
  <2>1. n + 1 \in 1 .. n + 1 /\ n + 1 # 1
    BY <1>1
  <2> QED BY <2>1, <1>3 DEF Flattens
<1>8. FlattenSeq(ss) = g[n]
  BY <1>4, FlattenSeqFlattens
<1>9. FlattenSeq(longer) = f[n + 1]
  BY <1>2, <1>3, FlattenSeqFlattens
<1> QED BY <1>1, <1>2, <1>6, <1>7, <1>8, <1>9 DEF longer

\* One more sequence.
LEMMA FlattenAppend ==
  ASSUME NEW V, NEW ss \in Seq(Seq(V)), NEW s \in Seq(V)
  PROVE  FlattenSeq(Append(ss, s)) = FlattenSeq(ss) \o s
<1>1. CASE ss = << >>
  <2>1. Append(ss, s) = <<s>> /\ << >> \o s = s
    BY <1>1
  <2> QED BY <1>1, <2>1, FlattenEmpty, FlattenOne
<1>2. CASE ss # << >>
  BY <1>2, FlattenStep
<1> QED BY <1>1, <1>2

\* The elements stay the same.
LEMMA FlattenType ==
  ASSUME NEW V
  PROVE  \A ss \in Seq(Seq(V)) : FlattenSeq(ss) \in Seq(V)
<1> DEFINE S == {ss \in Seq(Seq(V)) : FlattenSeq(ss) \in Seq(V)}
<1>1. << >> \in S
  <2>1. << >> \in Seq(Seq(V)) /\ << >> \in Seq(V)
    OBVIOUS
  <2> QED BY <2>1, FlattenEmpty
<1>2. ASSUME NEW ss \in S \cap Seq(Seq(V)), NEW s \in Seq(V) PROVE Append(ss, s) \in S
  <2>1. FlattenSeq(Append(ss, s)) = FlattenSeq(ss) \o s
    BY FlattenAppend
  <2>2. Append(ss, s) \in Seq(Seq(V)) /\ FlattenSeq(ss) \o s \in Seq(V)
    OBVIOUS
  <2> QED BY <2>1, <2>2
<1> HIDE DEF S
<1>3. Seq(Seq(V)) \subseteq S
  BY <1>1, <1>2, SeqInduction
<1> QED BY <1>3 DEF S

(***************************************************************************)
(* Sequences and numbers                                                   *)
(***************************************************************************)
\* A part of a sequence.
LEMMA SliceFacts ==
  ASSUME NEW V, NEW s \in Seq(V), NEW a \in Nat, NEW m \in Nat, a + m <= Len(s)
  PROVE  /\ SubSeq(s, a + 1, a + m) \in Seq(V)
         /\ Len(SubSeq(s, a + 1, a + m)) = m
         /\ \A k \in 1 .. m : SubSeq(s, a + 1, a + m)[k] = s[a + k]
<1>1. \A k \in a + 1 .. a + m : s[k] \in V
  OBVIOUS
<1> QED BY <1>1

\* A function on 1 .. n is a sequence.
LEMMA FunctionIsSeq ==
  ASSUME NEW V, NEW n \in Nat, NEW f \in [1 .. n -> V]
  PROVE  f \in Seq(V) /\ Len(f) = n /\ DOMAIN f = 1 .. n
OBVIOUS

\* Two sequences, element by element.
LEMMA ConcatFacts ==
  ASSUME NEW V, NEW s \in Seq(V), NEW t \in Seq(V)
  PROVE  /\ s \o t \in Seq(V) /\ Len(s \o t) = Len(s) + Len(t)
         /\ \A i \in 1 .. Len(s) : (s \o t)[i] = s[i]
         /\ \A i \in 1 .. Len(t) : (s \o t)[Len(s) + i] = t[i]
OBVIOUS

\* The elements of a sequence.
LEMMA ElementOf ==
  ASSUME NEW V, NEW s \in Seq(V), NEW i \in 1 .. Len(s)
  PROVE  s[i] \in V
OBVIOUS

\* Sequences with the same elements are the same.
LEMMA SameSeq ==
  ASSUME NEW V, NEW s \in Seq(V), NEW t \in Seq(V), Len(s) = Len(t),
         \A i \in 1 .. Len(s) : s[i] = t[i]
  PROVE  s = t
OBVIOUS

\* The beginning of a sequence.
LEMMA SliceFront ==
  ASSUME NEW V, NEW s \in Seq(V), NEW n \in Nat, n <= Len(s)
  PROVE  /\ SubSeq(s, 1, n) \in Seq(V) /\ Len(SubSeq(s, 1, n)) = n
         /\ \A k \in 1 .. n : SubSeq(s, 1, n)[k] = s[k]
OBVIOUS

\* The rest of a sequence.
LEMMA SliceRest ==
  ASSUME NEW V, NEW s \in Seq(V), NEW a \in Nat, a <= Len(s)
  PROVE  /\ SubSeq(s, a + 1, Len(s)) \in Seq(V)
         /\ Len(SubSeq(s, a + 1, Len(s))) = Len(s) - a
         /\ \A k \in 1 .. Len(s) - a : SubSeq(s, a + 1, Len(s))[k] = s[a + k]
<1>1. \A k \in a + 1 .. Len(s) : s[k] \in V
  OBVIOUS
<1> QED BY <1>1

\* The rest of a rest.
LEMMA SliceSlice ==
  ASSUME NEW V, NEW s \in Seq(V), NEW a \in Nat, NEW n \in Nat, a + n <= Len(s)
  PROVE  LET rest == SubSeq(s, a + 1, Len(s))
         IN  SubSeq(rest, n + 1, Len(rest)) = SubSeq(s, a + n + 1, Len(s))
<1> DEFINE L == Len(s)
           rest == SubSeq(s, a + 1, Len(s))
           u == SubSeq(rest, n + 1, Len(rest))
<1>1. L \in Nat /\ a <= L /\ a + n <= L /\ a + n \in Nat /\ n <= L - a
  OBVIOUS
<1>2. rest \in Seq(V) /\ Len(rest) = L - a /\ \A k \in 1 .. L - a : rest[k] = s[a + k]
  BY <1>1, SliceRest
<1> HIDE DEF rest
<1>3. u \in Seq(V) /\ Len(u) = Len(rest) - n
      /\ \A k \in 1 .. Len(rest) - n : u[k] = rest[n + k]
  BY <1>1, <1>2, SliceRest
<1>4. PICK b \in Nat : b = a + n
  OBVIOUS
<1> DEFINE v == SubSeq(s, b + 1, Len(s))
<1>5. v \in Seq(V) /\ Len(v) = L - b /\ \A k \in 1 .. L - b : v[k] = s[b + k]
  <2>1. b <= Len(s)
    BY <1>4, <1>1
  <2> QED BY <2>1, SliceRest
<1> HIDE DEF u, v, L
<1>6. Len(u) = L - b
  BY <1>1, <1>2, <1>3, <1>4
<1>7. ASSUME NEW k \in 1 .. L - b PROVE u[k] = v[k]
  <2>1. k \in 1 .. (L - a) - n /\ n + k \in 1 .. L - a /\ a + (n + k) = b + k
    BY <1>1, <1>4
  <2>2. u[k] = rest[n + k] /\ rest[n + k] = s[a + (n + k)]
    BY <1>2, <1>3, <2>1
  <2> QED BY <2>1, <2>2, <1>5
<1>8. u = v
  BY <1>3, <1>5, <1>6, <1>7, SameSeq
<1> QED BY <1>8, <1>4 DEF u, v, rest

\* One more element.
LEMMA AppendFacts ==
  ASSUME NEW V, NEW s \in Seq(V), NEW e \in V
  PROVE  /\ Append(s, e) \in Seq(V) /\ Len(Append(s, e)) = Len(s) + 1
         /\ \A i \in 1 .. Len(s) : Append(s, e)[i] = s[i]
         /\ Append(s, e)[Len(s) + 1] = e
OBVIOUS

\* A sequence over a smaller set.
LEMMA SeqSubset ==
  ASSUME NEW V, NEW W, V \subseteq W, NEW s \in Seq(V)
  PROVE  s \in Seq(W)
<1>1. s \in [1 .. Len(s) -> V] /\ Len(s) \in Nat
  OBVIOUS
<1>2. s \in [1 .. Len(s) -> W]
  BY <1>1
<1> QED BY <1>1, <1>2, FunctionIsSeq

Joins(s, t, x) ==
  /\ Len(x) = Len(s) + Len(t)
  /\ \A i \in 1 .. Len(s) : x[i] = s[i]
  /\ \A i \in 1 .. Len(t) : x[Len(s) + i] = t[i]

\* The same, as one fact.
LEMMA ConcatJoins ==
  ASSUME NEW V, NEW s \in Seq(V), NEW t \in Seq(V)
  PROVE  s \o t \in Seq(V) /\ Joins(s, t, s \o t)
BY DEF Joins

Slices(s, a, n, x) == Len(x) = n /\ \A k \in 1 .. n : x[k] = s[a + k]

\* The same, as one fact.
LEMMA SliceSlices ==
  ASSUME NEW V, NEW s \in Seq(V), NEW a \in Nat, NEW n \in Nat, a + n <= Len(s)
  PROVE  SubSeq(s, a + 1, a + n) \in Seq(V) /\ Slices(s, a, n, SubSeq(s, a + 1, a + n))
BY SliceFacts DEF Slices

\* Concatenation is associative.
LEMMA ConcatAssoc ==
  ASSUME NEW V, NEW s \in Seq(V), NEW t \in Seq(V), NEW u \in Seq(V)
  PROVE  (s \o t) \o u = s \o (t \o u)
<1> DEFINE a == Len(s)
           b == Len(t)
           c == Len(u)
           x == (s \o t) \o u
           y == s \o (t \o u)
<1>1. a \in Nat /\ b \in Nat /\ c \in Nat
  OBVIOUS
<1>2. /\ s \o t \in Seq(V) /\ Len(s \o t) = a + b
      /\ \A i \in 1 .. a : (s \o t)[i] = s[i]
      /\ \A i \in 1 .. b : (s \o t)[a + i] = t[i]
  BY ConcatFacts
<1>3. /\ t \o u \in Seq(V) /\ Len(t \o u) = b + c
      /\ \A i \in 1 .. b : (t \o u)[i] = t[i]
      /\ \A i \in 1 .. c : (t \o u)[b + i] = u[i]
  BY ConcatFacts
<1>4. /\ x \in Seq(V) /\ Len(x) = (a + b) + c
      /\ \A i \in 1 .. a + b : x[i] = (s \o t)[i]
      /\ \A i \in 1 .. c : x[(a + b) + i] = u[i]
  BY <1>2, ConcatFacts
<1>5. /\ y \in Seq(V) /\ Len(y) = a + (b + c)
      /\ \A i \in 1 .. a : y[i] = s[i]
      /\ \A i \in 1 .. b + c : y[a + i] = (t \o u)[i]
  BY <1>3, ConcatFacts
<1> HIDE DEF a, b, c, x, y
<1>6. ASSUME NEW i \in 1 .. Len(x) PROVE x[i] = y[i]
  <2>1. CASE i \in 1 .. a
    <3>1. i \in 1 .. a + b
      BY <1>1, <2>1
    <3> QED BY <2>1, <3>1, <1>2, <1>4, <1>5
  <2>2. CASE i > a /\ i <= a + b
    <3>1. PICK j \in 1 .. b : i = a + j
      BY <1>1, <2>2, <1>4
    <3>2. a + j \in 1 .. a + b /\ j \in 1 .. b + c
      BY <1>1
    <3>3. x[a + j] = (s \o t)[a + j] /\ (s \o t)[a + j] = t[j]
      BY <3>2, <1>2, <1>4
    <3>4. y[a + j] = (t \o u)[j] /\ (t \o u)[j] = t[j]
      BY <3>2, <1>3, <1>5
    <3> QED BY <3>1, <3>3, <3>4
  <2>3. CASE i > a + b
    <3>1. PICK j \in 1 .. c : i = (a + b) + j
      <4>1. i \in Nat /\ i <= (a + b) + c
        BY <1>1, <1>4
      <4>2. i - (a + b) \in 1 .. c /\ i = (a + b) + (i - (a + b))
        BY <1>1, <2>3, <4>1
      <4> QED BY <4>2
    <3>2. b + j \in 1 .. b + c /\ (a + b) + j = a + (b + j)
      BY <1>1
    <3>3. x[(a + b) + j] = u[j]
      BY <1>4
    <3>4. y[a + (b + j)] = (t \o u)[b + j] /\ (t \o u)[b + j] = u[j]
      BY <3>2, <1>3, <1>5
    <3> QED BY <3>1, <3>2, <3>3, <3>4
  <2> QED BY <1>1, <1>4, <2>1, <2>2, <2>3
<1>7. Len(x) = Len(y)
  BY <1>1, <1>4, <1>5
<1>8. x = y
  BY <1>4, <1>5, <1>6, <1>7, SameSeq
<1> QED BY <1>8 DEF x, y

Associates(s, t, u) == (s \o t) \o u = s \o (t \o u)

\* The same, as one fact.
LEMMA AssociatesAlways ==
  ASSUME NEW V, NEW s \in Seq(V), NEW t \in Seq(V), NEW u \in Seq(V)
  PROVE  Associates(s, t, u)
BY ConcatAssoc DEF Associates

\* A sequence is its beginning and its rest.
LEMMA CutSeq ==
  ASSUME NEW V, NEW s \in Seq(V), NEW n \in Nat, n <= Len(s)
  PROVE  SubSeq(s, 1, n) \o SubSeq(s, n + 1, Len(s)) = s
<1> DEFINE f == SubSeq(s, 1, n)
           r == SubSeq(s, n + 1, Len(s))
           x == f \o r
<1>1. f \in Seq(V) /\ Len(f) = n /\ \A k \in 1 .. n : f[k] = s[k]
  BY SliceFront
<1>2. r \in Seq(V) /\ Len(r) = Len(s) - n /\ \A k \in 1 .. Len(s) - n : r[k] = s[n + k]
  BY SliceRest
<1>0. Len(s) \in Nat
  OBVIOUS
<1> HIDE DEF f, r
<1>3. /\ x \in Seq(V) /\ Len(x) = Len(f) + Len(r)
      /\ \A i \in 1 .. Len(f) : x[i] = f[i]
      /\ \A i \in 1 .. Len(r) : x[Len(f) + i] = r[i]
  BY <1>1, <1>2, ConcatFacts
<1> HIDE DEF x
<1>4. ASSUME NEW i \in 1 .. Len(x) PROVE x[i] = s[i]
  <2>1. CASE i \in 1 .. n
    BY <2>1, <1>1, <1>3
  <2>2. CASE i > n
    <3>1. PICK j \in 1 .. Len(s) - n : i = n + j
      BY <1>0, <1>1, <1>2, <1>3, <2>2
    <3> QED BY <3>1, <1>1, <1>2, <1>3
  <2> QED BY <1>0, <2>1, <2>2
<1>5. Len(x) = Len(s)
  BY <1>0, <1>1, <1>2, <1>3
<1>6. x = s
  BY <1>3, <1>4, <1>5, SameSeq
<1> QED BY <1>6 DEF x, f, r

\* Quotient and remainder.
LEMMA DivMod ==
  ASSUME NEW n \in Nat, NEW m \in Nat, m > 0
  PROVE  n \div m \in Nat /\ n % m \in 0 .. m - 1 /\ n = (n \div m) * m + (n % m)
OBVIOUS

\* ... are unique.
LEMMA DivModOf ==
  ASSUME NEW n \in Nat, NEW m \in Nat, NEW k \in 0 .. m - 1
  PROVE  (n * m + k) \div m = n /\ (n * m + k) % m = k
OBVIOUS

(***************************************************************************)
(* Framing                                                                 *)
(***************************************************************************)
Packet == {p \in Seq(Nat) : Len(p) >= PDUHEADERSIZE /\ Len(p) = PDUHEADERSIZE + p[2]}

Stream(ps, k) == FlattenSeq(SubSeq(ps, 1, k))

\* The stream of the first k + 1 packets.
LEMMA StreamNext ==
  ASSUME NEW ps \in Seq(Seq(Nat)), NEW k \in Nat, k < Len(ps)
  PROVE  /\ Stream(ps, k) \in Seq(Nat)
         /\ Stream(ps, k + 1) = Stream(ps, k) \o ps[k + 1]
<1>1. SubSeq(ps, 1, k) \in Seq(Seq(Nat)) /\ ps[k + 1] \in Seq(Nat)
  OBVIOUS
<1>2. SubSeq(ps, 1, k + 1) = Append(SubSeq(ps, 1, k), ps[k + 1])
  OBVIOUS
<1> QED BY <1>1, <1>2, FlattenAppend, FlattenType DEF Stream

\* The stream of all packets, and of none.
LEMMA StreamWhole ==
  ASSUME NEW ps \in Seq(Seq(Nat))
  PROVE  Stream(ps, Len(ps)) = FlattenSeq(ps) /\ Stream(ps, 0) = << >>
<1>1. SubSeq(ps, 1, Len(ps)) = ps /\ SubSeq(ps, 1, 0) = << >>
  OBVIOUS
<1> QED BY <1>1, FlattenEmpty DEF Stream

Begins(s, t) == Len(s) <= Len(t) /\ \A j \in 1 .. Len(s) : t[j] = s[j]

\* A beginning of t is one of t and what follows.
LEMMA BeginsConcat ==
  ASSUME NEW s \in Seq(Nat), NEW t \in Seq(Nat), NEW u \in Seq(Nat), Begins(s, t)
  PROVE  Begins(s, t \o u)
BY DEF Begins

\* The stream of fewer packets is a beginning of that of more.
LEMMA StreamPrefix ==
  ASSUME NEW ps \in Seq(Seq(Nat)), NEW k \in 0 .. Len(ps)
  PROVE  \A m \in k .. Len(ps) : Begins(Stream(ps, k), Stream(ps, m))
<1> DEFINE n == Len(ps)
           T == {d \in Nat : k + d <= n => Begins(Stream(ps, k), Stream(ps, k + d))}
<1>0. n \in Nat /\ k \in Nat
  OBVIOUS
<1>t. \A m \in 0 .. n : Stream(ps, m) \in Seq(Nat)
  <2> TAKE m \in 0 .. n
  <2>1. SubSeq(ps, 1, m) \in Seq(Seq(Nat))
    OBVIOUS
  <2> QED BY <2>1, FlattenType DEF Stream
<1>1. 0 \in T
  <2>1. k + 0 = k
    BY <1>0
  <2>2. Begins(Stream(ps, k), Stream(ps, k))
    BY <1>t DEF Begins
  <2> QED BY <2>1, <2>2
<1>2. ASSUME NEW d \in T PROVE d + 1 \in T
  <2>0. d \in Nat /\ d + 1 \in Nat /\ k + (d + 1) = (k + d) + 1
    BY <1>0
  <2> SUFFICES ASSUME k + (d + 1) <= n
               PROVE  Begins(Stream(ps, k), Stream(ps, k + (d + 1)))
    BY <2>0
  <2>1. k + d \in Nat /\ k + d < n /\ k + d <= n
    BY <1>0, <2>0
  <2>2. Begins(Stream(ps, k), Stream(ps, k + d))
    BY <2>1
  <2>3. Stream(ps, (k + d) + 1) = Stream(ps, k + d) \o ps[(k + d) + 1]
    BY <2>1, StreamNext
  <2>4. Stream(ps, k) \in Seq(Nat) /\ Stream(ps, k + d) \in Seq(Nat)
        /\ ps[(k + d) + 1] \in Seq(Nat)
    BY <2>1, <1>0, <1>t
  <2> QED BY <2>0, <2>2, <2>3, <2>4, BeginsConcat
<1> HIDE DEF T
<1>3. T = Nat
  <2>1. T \in SUBSET Nat
    BY DEF T
  <2> QED BY <1>1, <1>2, <2>1, SetInduction
<1> SUFFICES ASSUME NEW m \in k .. n PROVE Begins(Stream(ps, k), Stream(ps, m))
  OBVIOUS
<1>4. m - k \in T /\ k + (m - k) = m /\ m <= n
  BY <1>0, <1>3
<1> QED BY <1>4 DEF T

\* No packet is empty.
LEMMA StreamLong ==
  ASSUME NEW ps \in Seq(Packet)
  PROVE  \A k \in 0 .. Len(ps) : k <= Len(Stream(ps, k))
<1> DEFINE n == Len(ps)
           T == {k \in Nat : k <= n => k <= Len(Stream(ps, k))}
<1>0. ps \in Seq(Seq(Nat)) /\ n \in Nat
  BY DEF Packet
<1>1. 0 \in T
  BY <1>0, StreamWhole
<1>2. ASSUME NEW k \in T PROVE k + 1 \in T
  <2>0. k \in Nat /\ k + 1 \in Nat
    OBVIOUS
  <2> SUFFICES ASSUME k + 1 <= n PROVE k + 1 <= Len(Stream(ps, k + 1))
    BY <2>0
  <2>1. k < n /\ k <= Len(Stream(ps, k))
    BY <2>0, <1>0
  <2>2. Stream(ps, k) \in Seq(Nat) /\ Stream(ps, k + 1) = Stream(ps, k) \o ps[k + 1]
    BY <1>0, <2>0, <2>1, StreamNext
  <2>3. ps[k + 1] \in Seq(Nat) /\ Len(ps[k + 1]) >= 1
    <3>1. ps[k + 1] \in Packet
      BY <2>0, <1>0
    <3> QED BY <3>1 DEF Packet, PDUHEADERSIZE
  <2>4. Len(Stream(ps, k + 1)) = Len(Stream(ps, k)) + Len(ps[k + 1])
    BY <2>2, <2>3
  <2> QED BY <2>0, <2>1, <2>2, <2>3, <2>4
<1> HIDE DEF T
<1>3. T = Nat
  <2>1. T \in SUBSET Nat
    BY DEF T
  <2> QED BY <1>1, <1>2, <2>1, SetInduction
<1> SUFFICES ASSUME NEW k \in 0 .. n PROVE k <= Len(Stream(ps, k))
  OBVIOUS
<1>4. k \in T /\ k <= n
  BY <1>0, <1>3
<1> QED BY <1>4 DEF T

\* The stream of the first k packets is a beginning of the whole.
LEMMA StreamInside ==
  ASSUME NEW ps \in Seq(Packet), NEW k \in 0 .. Len(ps)
  PROVE  /\ FlattenSeq(ps) \in Seq(Nat) /\ Stream(ps, k) \in Seq(Nat)
         /\ Begins(Stream(ps, k), FlattenSeq(ps))
<1>1. ps \in Seq(Seq(Nat))
  BY DEF Packet
<1>2. Len(ps) \in k .. Len(ps)
  OBVIOUS
<1>3. SubSeq(ps, 1, k) \in Seq(Seq(Nat))
  BY <1>1
<1>4. FlattenSeq(ps) \in Seq(Nat) /\ Stream(ps, k) \in Seq(Nat)
  BY <1>1, <1>3, FlattenType DEF Stream
<1>5. Begins(Stream(ps, k), Stream(ps, Len(ps)))
  BY <1>1, <1>2, StreamPrefix
<1> QED BY <1>1, <1>4, <1>5, StreamWhole

\* GetPacket takes the packet at the front and leaves the rest.
LEMMA FirstPacket ==
  ASSUME NEW buffer \in Seq(Nat), NEW a \in Nat, NEW p \in Packet,
         a + Len(p) <= Len(buffer), \A j \in 1 .. Len(p) : buffer[a + j] = p[j]
  PROVE  LET rest == SubSeq(buffer, a + 1, Len(buffer))
         IN  /\ rest # << >>
             /\ GetPacket(rest) = [packet |-> p,
                                   rest |-> SubSeq(buffer, a + Len(p) + 1, Len(buffer))]
<1> DEFINE L == Len(buffer)
           rest == SubSeq(buffer, a + 1, L)
           n == Len(p)
<1>0. /\ p \in Seq(Nat) /\ n \in Nat /\ n >= 2 /\ n = 2 + p[2]
  BY DEF Packet, PDUHEADERSIZE
<1>1. L \in Nat /\ a + n <= L /\ \A j \in 1 .. n : buffer[a + j] = p[j]
  OBVIOUS
<1>2. rest \in Seq(Nat) /\ Len(rest) = L - a /\ \A j \in 1 .. L - a : rest[j] = buffer[a + j]
  <2>1. a <= Len(buffer)
    BY <1>0, <1>1
  <2> QED BY <2>1, SliceRest
<1>3. SubSeq(rest, n + 1, Len(rest)) = SubSeq(buffer, a + n + 1, L)
  <2>1. a + n <= Len(buffer) /\ n \in Nat
    BY <1>0, <1>1
  <2> QED BY <2>1, SliceSlice
<1> HIDE DEF L, rest, n
<1>4. n <= Len(rest) /\ \A j \in 1 .. n : rest[j] = p[j]
  <2>0. n \in Nat /\ L \in Nat /\ a + n <= L
    BY <1>0, <1>1
  <2>1. n <= L - a /\ \A j \in 1 .. n : j \in 1 .. L - a
    BY <2>0
  <2> QED BY <2>1, <1>1, <1>2
<1>5. SubSeq(rest, 1, n) = p
  <2>1. SubSeq(rest, 1, n) \in Seq(Nat) /\ Len(SubSeq(rest, 1, n)) = n
        /\ \A j \in 1 .. n : SubSeq(rest, 1, n)[j] = rest[j]
    BY <1>0, <1>2, <1>4, SliceFront
  <2>2. \A j \in 1 .. n : SubSeq(rest, 1, n)[j] = p[j]
    BY <2>1, <1>4
  <2>3. Len(p) = n
    BY DEF n
  <2> QED BY <2>1, <2>2, <2>3, <1>0, SameSeq
<1>6. rest # << >>
  BY <1>0, <1>2, <1>4
<1>7. rest[2] = p[2]
  BY <1>0, <1>4
<1>8. PDUHEADERSIZE + rest[2] = n
  BY <1>0, <1>7 DEF PDUHEADERSIZE
<1>9. GetPacket(rest) = [packet |-> p, rest |-> SubSeq(buffer, a + n + 1, L)]
  BY <1>3, <1>5, <1>8 DEF GetPacket
<1> QED BY <1>6, <1>9 DEF rest, n, L

Turns(k) == [i \in 1 .. k |-> i]

\* One more turn of the loop.
LEMMA TurnsNext ==
  ASSUME NEW k \in Nat
  PROVE  Turns(k) \in Seq(Nat) /\ Turns(k + 1) = Append(Turns(k), k + 1) /\ Turns(0) = << >>
<1>1. Turns(k) \in Seq(Nat) /\ Len(Turns(k)) = k
  BY DEF Turns
<1>2. Turns(0) = << >>
  BY DEF Turns
<1>3. Turns(k + 1) = Append(Turns(k), k + 1)
  BY <1>1 DEF Turns
<1> QED BY <1>1, <1>2, <1>3

\* What is left of a stream of packets when k have been taken, and all turns after the
\* last packet.
After(ps, k) ==
  IF k <= Len(ps)
  THEN [out |-> SubSeq(ps, 1, k),
        rest |-> SubSeq(FlattenSeq(ps), Len(Stream(ps, k)) + 1, Len(FlattenSeq(ps)))]
  ELSE [out |-> ps, rest |-> << >>]

\* A turn while bytes are left.
LEMMA TakePacketSome ==
  ASSUME NEW r, NEW turn, r.rest # << >>
  PROVE  TakePacket(r, turn) = [out |-> Append(r.out, GetPacket(r.rest).packet),
                                rest |-> GetPacket(r.rest).rest]
BY DEF TakePacket

\* After k turns the first k packets are out.
LEMMA TakePacketNext ==
  ASSUME NEW ps \in Seq(Packet), NEW k \in Nat
  PROVE  TakePacket(After(ps, k), k + 1) = After(ps, k + 1)
<1> DEFINE n == Len(ps)
           buffer == FlattenSeq(ps)
<1>0. n \in Nat /\ ps \in Seq(Seq(Nat))
  BY DEF Packet
<1>1. CASE k < n
  <2>1. k \in 0 .. n /\ k + 1 \in 0 .. n /\ k <= n /\ k + 1 <= n /\ k + 1 \in 1 .. n
    BY <1>0, <1>1
  <2> DEFINE a == Len(Stream(ps, k))
             p == ps[k + 1]
  <2>2. p \in Packet /\ p \in Seq(Nat)
    BY <2>1 DEF Packet
  <2>3. /\ buffer \in Seq(Nat) /\ Stream(ps, k) \in Seq(Nat) /\ a \in Nat
        /\ Begins(Stream(ps, k + 1), buffer)
    BY <2>1, StreamInside
  <2>4. Stream(ps, k + 1) = Stream(ps, k) \o p
    BY <1>0, <1>1, StreamNext
  <2>5. Len(Stream(ps, k + 1)) = a + Len(p)
        /\ \A j \in 1 .. Len(p) : Stream(ps, k + 1)[a + j] = p[j]
    BY <2>2, <2>3, <2>4
  <2> HIDE DEF a, p, buffer
  <2>6. a + Len(p) <= Len(buffer) /\ \A j \in 1 .. Len(p) : buffer[a + j] = p[j]
    <3>1. a + Len(p) <= Len(buffer)
      BY <2>3, <2>5 DEF Begins
    <3>2. ASSUME NEW j \in 1 .. Len(p) PROVE buffer[a + j] = p[j]
      <4>1. Len(p) \in Nat
        BY <2>2
      <4>2. a + j \in 1 .. Len(Stream(ps, k + 1))
        BY <2>3, <2>5, <4>1
      <4> QED BY <2>3, <2>5, <4>2 DEF Begins
    <3> QED BY <3>1, <3>2
  <2> DEFINE rest == SubSeq(buffer, a + 1, Len(buffer))
  <2>7. /\ rest # << >>
        /\ GetPacket(rest) = [packet |-> p, rest |-> SubSeq(buffer, a + Len(p) + 1, Len(buffer))]
    BY <2>2, <2>3, <2>6, FirstPacket
  <2> HIDE DEF rest
  <2>8. After(ps, k) = [out |-> SubSeq(ps, 1, k), rest |-> rest]
    BY <2>1 DEF After, rest, a, buffer
  <2>9. Append(SubSeq(ps, 1, k), p) = SubSeq(ps, 1, k + 1)
    BY <2>1, <1>0 DEF p
  <2>10. After(ps, k + 1) = [out |-> SubSeq(ps, 1, k + 1),
                             rest |-> SubSeq(buffer, a + Len(p) + 1, Len(buffer))]
    BY <2>1, <2>5 DEF After, buffer
  <2>11. After(ps, k).rest = rest /\ After(ps, k).out = SubSeq(ps, 1, k)
    BY <2>8
  <2>12. TakePacket(After(ps, k), k + 1)
           = [out |-> Append(SubSeq(ps, 1, k), p),
              rest |-> SubSeq(buffer, a + Len(p) + 1, Len(buffer))]
    <3>1. After(ps, k).rest # << >>
      BY <2>7, <2>11
    <3>2. TakePacket(After(ps, k), k + 1)
            = [out |-> Append(After(ps, k).out, GetPacket(After(ps, k).rest).packet),
               rest |-> GetPacket(After(ps, k).rest).rest]
      BY <3>1, TakePacketSome
    <3>3. /\ GetPacket(After(ps, k).rest).packet = p
          /\ GetPacket(After(ps, k).rest).rest = SubSeq(buffer, a + Len(p) + 1, Len(buffer))
      BY <2>7, <2>11
    <3> QED BY <2>11, <3>2, <3>3
  <2> QED BY <2>9, <2>10, <2>12
<1>2. CASE k >= n
  <2>1. After(ps, k) = [out |-> ps, rest |-> << >>]
    <3>1. CASE k = n
      <4>1. Stream(ps, n) = buffer /\ buffer \in Seq(Nat)
        BY <1>0, StreamWhole, FlattenType
      <4>2. SubSeq(ps, 1, n) = ps
        OBVIOUS
      <4>3. SubSeq(buffer, Len(buffer) + 1, Len(buffer)) = << >>
        BY <4>1
      <4> QED BY <3>1, <4>1, <4>2, <4>3 DEF After
    <3>2. CASE k # n
      BY <1>0, <1>2, <3>2 DEF After
    <3> QED BY <3>1, <3>2
  <2>2. After(ps, k + 1) = [out |-> ps, rest |-> << >>]
    BY <1>0, <1>2 DEF After
  <2> QED BY <2>1, <2>2 DEF TakePacket
<1> QED BY <1>0, <1>1, <1>2

\* After as many turns as there are packets nothing is left.
LEMMA PacketsTaken ==
  ASSUME NEW ps \in Seq(Packet)
  PROVE  \A k \in Nat :
           FoldLeft(TakePacket, [out |-> << >>, rest |-> FlattenSeq(ps)], Turns(k)) = After(ps, k)
<1> DEFINE base == [out |-> << >>, rest |-> FlattenSeq(ps)]
           T == {k \in Nat : FoldLeft(TakePacket, base, Turns(k)) = After(ps, k)}
<1>0. ps \in Seq(Seq(Nat)) /\ Len(ps) \in Nat
  BY DEF Packet
<1>1. 0 \in T
  <2>1. Turns(0) = << >>
    BY TurnsNext
  <2>2. FoldLeft(TakePacket, base, << >>) = base
    BY FoldLeftEmpty
  <2>3. Stream(ps, 0) = << >> /\ FlattenSeq(ps) \in Seq(Nat)
    BY <1>0, StreamWhole, FlattenType
  <2>4. SubSeq(ps, 1, 0) = << >> /\ 0 <= Len(ps) /\ Len(<< >>) + 1 = 1
        /\ SubSeq(FlattenSeq(ps), 1, Len(FlattenSeq(ps))) = FlattenSeq(ps)
    BY <1>0, <2>3
  <2>5. After(ps, 0) = base
    BY <2>3, <2>4 DEF After
  <2> QED BY <2>1, <2>2, <2>5
<1> HIDE DEF base
<1>2. ASSUME NEW k \in T PROVE k + 1 \in T
  <2>0. k \in Nat /\ k + 1 \in Nat /\ FoldLeft(TakePacket, base, Turns(k)) = After(ps, k)
    OBVIOUS
  <2>1. Turns(k) \in Seq(Nat) /\ Turns(k + 1) = Append(Turns(k), k + 1)
    BY <2>0, TurnsNext
  <2>2. Folds(TakePacket, base, Turns(k), k + 1)
    BY <2>0, <2>1, FoldLeftAppend
  <2>3. FoldLeft(TakePacket, base, Append(Turns(k), k + 1))
          = TakePacket(FoldLeft(TakePacket, base, Turns(k)), k + 1)
    BY <2>2 DEF Folds
  <2> QED BY <2>0, <2>1, <2>3, TakePacketNext
<1> HIDE DEF T
<1>3. T = Nat
  <2>1. T \in SUBSET Nat
    BY DEF T
  <2> QED BY <1>1, <1>2, <2>1, SetInduction
<1> QED BY <1>3 DEF T, base

\* A stream of packets is cut where it was put together.
LEMMA PacketsOfStream ==
  ASSUME NEW ps \in Seq(Packet)
  PROVE  Packets(FlattenSeq(ps)) = ps
<1> DEFINE buffer == FlattenSeq(ps)
           n == Len(ps)
<1>0. n \in Nat /\ n \in 0 .. n /\ ps \in Seq(Seq(Nat))
  BY DEF Packet
<1>1. buffer \in Seq(Nat) /\ Stream(ps, n) = buffer
  BY <1>0, FlattenType, StreamWhole
<1>2. n <= Len(buffer)
  BY <1>0, <1>1, StreamLong
<1>3. Len(buffer) \in Nat
  BY <1>1
<1> HIDE DEF buffer
<1>4. FoldLeft(TakePacket, [out |-> << >>, rest |-> buffer], Turns(Len(buffer))) = After(ps, Len(buffer))
  BY <1>3, PacketsTaken DEF buffer
<1>5. After(ps, Len(buffer)).out = ps
  <2>1. CASE Len(buffer) = n
    <3>1. SubSeq(ps, 1, n) = ps
      OBVIOUS
    <3> QED BY <2>1, <3>1, <1>0 DEF After
  <2>2. CASE Len(buffer) # n
    BY <2>2, <1>0, <1>2, <1>3 DEF After
  <2> QED BY <2>1, <2>2
<1> QED BY <1>4, <1>5 DEF Packets, Turns, buffer

Texts == {t \in Seq(Nat) : Len(t) \in 1 .. MAX_MESSAGE_SIZE}

ToManager(text, uniqId) == MessageBroadcastToManagers(UserMessage(text), uniqId)

\* What MessageBroadcastToManagers writes is one packet: the length of the id is
\* counted, nothing behind the message is written, and no length wraps.
LEMMA ToManagerPacket ==
  ASSUME NEW text \in Texts, NEW uniqId \in Nat
  PROVE  LET p == ToManager(text, uniqId)
         IN  /\ p \in Packet /\ Len(p) = PDUHEADERSIZE + IdSize + Len(text)
             /\ \A j \in 1 .. Len(text) : p[PDUHEADERSIZE + IdSize + j] = text[j]
<1> DEFINE size == Len(text)
           length == size + IdSize
           ids == [i \in 1 .. IdSize |-> uniqId]
           zeros == [i \in 1 .. PDUBODYSIZE |-> 0]
           header == <<cmd_CHAT_BROADCAST, length>>
           whole == header \o ids \o text \o zeros
           p == SubSeq(whole, 1, PDUHEADERSIZE + length)
<1>1. /\ size \in Nat /\ size >= 1 /\ size <= MAX_MESSAGE_SIZE /\ text \in Seq(Nat)
      /\ IdSize \in Nat /\ MAX_MESSAGE_SIZE \in Nat /\ PDUBODYSIZE \in Nat
      /\ length \in Nat /\ length <= PDUBODYSIZE
  BY FramingAssumption DEF FramingAssumption, Texts
<1>2. 2 ^ LengthBits \in Int /\ length < 2 ^ LengthBits
  <2>1. PDUBODYSIZE < 2 ^ LengthBits /\ 2 ^ LengthBits \in Int
    BY FramingAssumption DEF FramingAssumption
  <2> QED BY <2>1, <1>1
<1>3. HeaderLength(size) = length
  <2>1. \A x, m \in Int : 0 <= x /\ x < m => x % m = x
    OBVIOUS
  <2>2. length \in Int /\ 0 <= length
    BY <1>1
  <2>3. length % 2 ^ LengthBits = length
    BY <1>2, <2>1, <2>2
  <2> QED BY <2>3 DEF HeaderLength
<1>4. ToManager(text, uniqId) = p
  BY <1>3 DEF ToManager, MessageBroadcastToManagers, UserMessage
<1> HIDE DEF length
<1>5. header \in Seq(Nat) /\ Len(header) = 2 /\ header[2] = length
  BY <1>1 DEF cmd_CHAT_BROADCAST
<1>6. ids \in Seq(Nat) /\ Len(ids) = IdSize /\ zeros \in Seq(Nat) /\ Len(zeros) = PDUBODYSIZE
  BY <1>1
<1> HIDE DEF header, ids, zeros
<1>7. /\ whole \in Seq(Nat) /\ Len(whole) = 2 + IdSize + size + PDUBODYSIZE
      /\ whole[2] = length
      /\ \A j \in 1 .. size : whole[2 + IdSize + j] = text[j]
  <2> DEFINE a == header \o ids
             b == a \o text
  <2>1. a \in Seq(Nat) /\ Len(a) = 2 + IdSize /\ a[2] = length
    <3>1. 2 \in 1 .. Len(header)
      BY <1>5
    <3>2. /\ a \in Seq(Nat) /\ Len(a) = Len(header) + Len(ids)
          /\ \A i \in 1 .. Len(header) : a[i] = header[i]
      BY <1>5, <1>6, ConcatFacts
    <3> HIDE DEF a, b
    <3> QED BY <1>5, <1>6, <3>1, <3>2
  <2> HIDE DEF a
  <2>2. /\ b \in Seq(Nat) /\ Len(b) = 2 + IdSize + size /\ b[2] = length
        /\ \A j \in 1 .. size : b[2 + IdSize + j] = text[j]
    <3>1. 2 \in 1 .. Len(a) /\ text \in Seq(Nat)
      BY <1>1, <2>1
    <3>2. /\ b \in Seq(Nat) /\ Len(b) = Len(a) + Len(text)
          /\ \A j \in 1 .. Len(a) : b[j] = a[j]
          /\ \A j \in 1 .. Len(text) : b[Len(a) + j] = text[j]
      <4>1. a \in Seq(Nat) /\ text \in Seq(Nat)
        BY <2>1, <3>1
      <4> QED BY <4>1, ConcatFacts
    <3> HIDE DEF b
    <3> QED BY <2>1, <3>1, <3>2
  <2> HIDE DEF b
  <2>3. whole = b \o zeros
    BY DEF b, a
  <2>4. b \o zeros \in Seq(Nat) /\ Len(b \o zeros) = 2 + IdSize + size + PDUBODYSIZE
    <3>1. b \o zeros \in Seq(Nat) /\ Len(b \o zeros) = Len(b) + Len(zeros)
      BY <1>6, <2>2, ConcatFacts
    <3> QED BY <1>6, <2>2, <3>1
  <2>5. \A j \in 1 .. Len(b) : (b \o zeros)[j] = b[j]
    BY <1>6, <2>2, ConcatFacts
  <2>6. 2 \in 1 .. Len(b) /\ \A j \in 1 .. size : 2 + IdSize + j \in 1 .. Len(b)
    BY <1>1, <2>2
  <2> QED BY <2>2, <2>3, <2>4, <2>5, <2>6
<1> HIDE DEF whole
<1>8. PDUHEADERSIZE + length = 2 + IdSize + size
  BY <1>1 DEF length, PDUHEADERSIZE
<1>9. /\ p \in Seq(Nat) /\ Len(p) = 2 + IdSize + size
      /\ \A k \in 1 .. 2 + IdSize + size : p[k] = whole[k]
  <2>1. 2 + IdSize + size \in Nat /\ 2 + IdSize + size <= Len(whole)
    BY <1>1, <1>7
  <2> QED BY <1>7, <1>8, <2>1, SliceFront
<1> HIDE DEF p
<1>10. p[2] = length /\ \A j \in 1 .. size : p[2 + IdSize + j] = text[j]
  <2>1. 2 \in 1 .. 2 + IdSize + size
        /\ \A j \in 1 .. size : 2 + IdSize + j \in 1 .. 2 + IdSize + size
    BY <1>1
  <2> QED BY <2>1, <1>7, <1>9
<1>11. p \in Packet /\ Len(p) = PDUHEADERSIZE + IdSize + size
  BY <1>1, <1>8, <1>9, <1>10 DEF Packet, PDUHEADERSIZE
<1> QED BY <1>4, <1>10, <1>11 DEF PDUHEADERSIZE

\* A packet is passed on unchanged.
LEMMA PassedOn ==
  ASSUME NEW p \in Packet
  PROVE  MessageBroadcast(p) = p
<1>1. p \in Seq(Nat) /\ PDUHEADERSIZE + p[2] = Len(p)
  BY DEF Packet
<1>2. SubSeq(p, 1, Len(p)) = p
  BY <1>1
<1> QED BY <1>1, <1>2 DEF MessageBroadcast

Stamped(text) == [text EXCEPT ![Len(text)] = 0]

\* The text is taken from its packet, with 0 for its last byte.
LEMMA TextRelayed ==
  ASSUME NEW text \in Texts, NEW uniqId \in Nat
  PROVE  RelayedMessage(ToManager(text, uniqId)).message = Stamped(text)
<1> DEFINE p == ToManager(text, uniqId)
           a == PDUHEADERSIZE + IdSize
           size == Len(text)
<1>1. /\ p \in Packet /\ Len(p) = PDUHEADERSIZE + IdSize + Len(text)
      /\ \A j \in 1 .. Len(text) : p[PDUHEADERSIZE + IdSize + j] = text[j]
  BY ToManagerPacket
<1>2. /\ size \in Nat /\ size >= 1 /\ text \in Seq(Nat) /\ a \in Nat /\ IdSize \in Nat
  BY FramingAssumption DEF FramingAssumption, Texts, PDUHEADERSIZE
<1> HIDE DEF p
<1>3. p \in Seq(Nat) /\ Len(p) = a + size /\ p[2] - IdSize = size
  BY <1>1, <1>2 DEF Packet, PDUHEADERSIZE
<1> HIDE DEF a
<1> DEFINE t == SubSeq(p, a + 1, Len(p))
<1>4. t \in Seq(Nat) /\ Len(t) = size /\ \A j \in 1 .. size : t[j] = p[a + j]
  <2>1. a <= Len(p) /\ Len(p) - a = size
    BY <1>2, <1>3
  <2>2. /\ t \in Seq(Nat) /\ Len(t) = Len(p) - a
        /\ \A j \in 1 .. Len(p) - a : t[j] = p[a + j]
    BY <1>2, <1>3, <2>1, SliceRest
  <2> QED BY <2>1, <2>2
<1> HIDE DEF t
<1>5. t = text
  BY <1>1, <1>2, <1>4, SameSeq DEF a
<1>6. SubSeq(text, 1, size) = text
  BY <1>2
<1>7. RelayedMessage(p) = SetMessage(t, p[2] - IdSize)
  BY DEF RelayedMessage, t, a
<1>8. SetMessage(text, size).message = Stamped(text)
  BY <1>6 DEF SetMessage, Stamped
<1> QED BY <1>3, <1>5, <1>7, <1>8 DEF p

\* For every sequence of texts, however many and whatever their bytes: each arrives once,
\* in its place and with its length (ChatServer.cpp:372, Client.cpp:129, ChatManager.cpp:283,
\* BroadcastMessage.cpp:28).
THEOREM EveryTextRelayed ==
  \A texts \in Seq(Seq(Nat)), uniqId \in Nat : RelayedText(texts, uniqId)
<1> SUFFICES ASSUME NEW texts \in Seq(Seq(Nat)), NEW uniqId \in Nat,
                    \A i \in DOMAIN texts : Len(texts[i]) \in 1 .. MAX_MESSAGE_SIZE
             PROVE  Arrives(texts, uniqId)
                      = [i \in DOMAIN texts |-> [texts[i] EXCEPT ![Len(texts[i])] = 0]]
  BY DEF RelayedText
<1> DEFINE n == Len(texts)
           ps == [i \in DOMAIN texts |->
                    MessageBroadcastToManagers(UserMessage(texts[i]), uniqId)]
           relayed == Packets(FlattenSeq(ps))
           again == [i \in DOMAIN relayed |-> MessageBroadcast(relayed[i])]
           received == Packets(FlattenSeq(again))
<1>0. n \in Nat /\ DOMAIN texts = 1 .. n
  OBVIOUS
<1>1. ASSUME NEW i \in 1 .. n PROVE texts[i] \in Texts
  <2>1. texts[i] \in Seq(Nat)
    BY <1>1, ElementOf
  <2>2. Len(texts[i]) \in 1 .. MAX_MESSAGE_SIZE
    BY <1>0, <1>1
  <2> QED BY <2>1, <2>2 DEF Texts
<1>2. \A i \in 1 .. n : ps[i] = ToManager(texts[i], uniqId) /\ ps[i] \in Packet
  <2> TAKE i \in 1 .. n
  <2>1. ps[i] = ToManager(texts[i], uniqId)
    BY <1>0 DEF ToManager
  <2>2. ToManager(texts[i], uniqId) \in Packet
    BY <1>1, ToManagerPacket
  <2> QED BY <2>1, <2>2
<1>3. ps \in Seq(Packet) /\ Len(ps) = n /\ DOMAIN ps = 1 .. n
  <2>1. ps \in [1 .. n -> Packet]
    BY <1>0, <1>2
  <2> HIDE DEF ps
  <2> QED BY <1>0, <2>1, FunctionIsSeq
<1>4. relayed = ps
  BY <1>3, PacketsOfStream
<1>5. again = ps
  <2>1. again = [i \in 1 .. n |-> MessageBroadcast(ps[i])]
    BY <1>3, <1>4
  <2>2. \A i \in 1 .. n : MessageBroadcast(ps[i]) = ps[i]
    BY <1>2, PassedOn
  <2>3. ps = [i \in 1 .. n |-> ps[i]]
    BY <1>0
  <2> HIDE DEF ps, again
  <2> QED BY <2>1, <2>2, <2>3
<1>6. received = ps
  BY <1>3, <1>5, PacketsOfStream
<1>7. Arrives(texts, uniqId) = [i \in DOMAIN received |-> RelayedMessage(received[i]).message]
  BY DEF Arrives
<1>8. \A i \in 1 .. n : RelayedMessage(ps[i]).message = Stamped(texts[i])
  BY <1>1, <1>2, TextRelayed
<1> HIDE DEF ps, relayed, again, received
<1>9. Arrives(texts, uniqId) = [i \in 1 .. n |-> Stamped(texts[i])]
  BY <1>3, <1>6, <1>7, <1>8
<1> QED BY <1>0, <1>9 DEF Stamped

(***************************************************************************)
(* URLDecode                                                               *)
(***************************************************************************)

Byte == 0 .. 255

Decoder == [state : {0, 1, 2}, code : Nat, dst : Seq(Nat), ret : {-1, 0}]

Refused(d) == d \in Decoder /\ d.ret = -1
Idle(d, text) == d \in Decoder /\ d.ret = 0 /\ d.state = 0 /\ d.dst = text

\* What is refused stays refused.
LEMMA RefusedStays ==
  ASSUME NEW d, Refused(d), NEW c
  PROVE  DecodeStep(d, c) = d
<1>1. d.ret < 0 /\ d.ret # 0
  BY DEF Refused, Decoder
<1> QED BY <1>1 DEF DecodeStep

\* A plain character.
LEMMA StepPlain ==
  ASSUME NEW text \in Seq(Nat), NEW d, Idle(d, text), NEW c \in Nat, c # Percent
  PROVE  Idle(DecodeStep(d, c), Append(text, c))
<1>1. d \in Decoder /\ d.ret = 0 /\ d.state = 0 /\ d.dst = text
  BY DEF Idle
<1>2. DecodeStep(d, c) = [d EXCEPT !.dst = Append(@, c)]
  BY <1>1 DEF DecodeStep
<1>3. Append(text, c) \in Seq(Nat)
  OBVIOUS
<1>4. [d EXCEPT !.dst = Append(text, c)] \in Decoder
  BY <1>1, <1>3 DEF Decoder
<1>5. /\ [d EXCEPT !.dst = Append(text, c)].ret = 0 /\ [d EXCEPT !.dst = Append(text, c)].state = 0
      /\ [d EXCEPT !.dst = Append(text, c)].dst = Append(text, c)
  BY <1>1 DEF Decoder
<1> QED BY <1>1, <1>2, <1>4, <1>5 DEF Idle

\* The beginning of an escape.
LEMMA StepPercent ==
  ASSUME NEW text \in Seq(Nat), NEW d, Idle(d, text)
  PROVE  LET e == DecodeStep(d, Percent)
         IN  e \in Decoder /\ e.ret = 0 /\ e.state = 1 /\ e.dst = text
<1>1. d \in Decoder /\ d.ret = 0 /\ d.state = 0 /\ d.dst = text
  BY DEF Idle
<1>2. DecodeStep(d, Percent) = [d EXCEPT !.state = 1]
  BY <1>1 DEF DecodeStep
<1> QED BY <1>1, <1>2 DEF Decoder

\* The first digit of an escape.
LEMMA StepFirst ==
  ASSUME NEW text \in Seq(Nat), NEW e \in Decoder, e.ret = 0, e.state = 1, e.dst = text, NEW c \in Nat
  PROVE  LET f == DecodeStep(e, c)
         IN  /\ isdigit(c) => f \in Decoder /\ f.ret = 0 /\ f.state = 2 /\ f.dst = text /\ f.code = c - 48
             /\ ~isdigit(c) => Refused(f)
<1>1. DecodeStep(e, c) = IF isdigit(c) THEN [e EXCEPT !.state = 2, !.code = c - 48]
                         ELSE [e EXCEPT !.ret = -1]
  BY DEF DecodeStep
<1>2. CASE isdigit(c)
  <2>1. c - 48 \in Nat
    BY <1>2 DEF isdigit
  <2> QED BY <1>1, <1>2, <2>1 DEF Decoder
<1>3. CASE ~isdigit(c)
  BY <1>1, <1>3 DEF Decoder, Refused
<1> QED BY <1>2, <1>3

\* The second digit of an escape.
LEMMA StepSecond ==
  ASSUME NEW text \in Seq(Nat), NEW f \in Decoder, f.ret = 0, f.state = 2, f.dst = text,
         NEW c \in Nat, isalnum(c), NEW b \in Nat, (f.code * 16 + HexValue(c)) % 256 = b
  PROVE  Idle(DecodeStep(f, c), Append(text, b))
<1>0. DecodeStep(f, c) = [f EXCEPT !.state = 0, !.dst = Append(@, (f.code * 16 + HexValue(c)) % 256)]
  <2>1. ~(f.ret < 0) /\ f.ret = 0 /\ f.state # 0 /\ f.state # 1 /\ f.state = 2
    OBVIOUS
  <2> QED BY <2>1, Zenon DEF DecodeStep
<1>1. DecodeStep(f, c) = [f EXCEPT !.state = 0, !.dst = Append(@, b)]
  BY <1>0
<1>2. Append(text, b) \in Seq(Nat)
  OBVIOUS
<1>3. DecodeStep(f, c) = [f EXCEPT !.state = 0, !.dst = Append(text, b)]
  BY <1>1 DEF Decoder
<1>4. [f EXCEPT !.state = 0, !.dst = Append(text, b)] \in Decoder
  BY <1>2 DEF Decoder
<1> QED BY <1>3, <1>4 DEF Idle, Decoder

\* One escaped byte: below 160 it is decoded, from 160 on it is refused.
LEMMA StepEscape ==
  ASSUME NEW text \in Seq(Nat), NEW d, Idle(d, text), NEW b \in Byte
  PROVE  LET g == DecodeStep(DecodeStep(DecodeStep(d, Percent), HexDigit(b \div 16)), HexDigit(b % 16))
         IN  IF b < 160 THEN Idle(g, Append(text, b)) ELSE Refused(g)
<1> DEFINE h == b \div 16
           l == b % 16
           e == DecodeStep(d, Percent)
           f == DecodeStep(e, HexDigit(h))
           g == DecodeStep(f, HexDigit(l))
<1>1. h \in 0 .. 15 /\ l \in 0 .. 15 /\ b = 16 * h + l /\ (b < 160 <=> h < 10) /\ b \in Nat
  BY DEF Byte
<1> HIDE DEF h, l
<1>2. HexDigit(h) \in Nat /\ HexDigit(l) \in Nat
      /\ (h < 10 => isdigit(HexDigit(h)) /\ HexDigit(h) - 48 = h)
      /\ (h >= 10 => ~isdigit(HexDigit(h)))
  BY <1>1 DEF HexDigit, isdigit
<1>3. isalnum(HexDigit(l)) /\ HexValue(HexDigit(l)) = l
  BY <1>1 DEF HexDigit, isdigit, isalnum, HexValue
<1>4. e \in Decoder /\ e.ret = 0 /\ e.state = 1 /\ e.dst = text
  BY StepPercent
<1> HIDE DEF e
<1>5. /\ isdigit(HexDigit(h)) => f \in Decoder /\ f.ret = 0 /\ f.state = 2 /\ f.dst = text
                                 /\ f.code = HexDigit(h) - 48
      /\ ~isdigit(HexDigit(h)) => Refused(f)
  BY <1>2, <1>4, StepFirst
<1> HIDE DEF f
<1>6. CASE b < 160
  <2>1. f \in Decoder /\ f.ret = 0 /\ f.state = 2 /\ f.dst = text /\ f.code = h
    BY <1>1, <1>2, <1>5, <1>6
  <2>2. (h * 16 + l) % 256 = b
    BY <1>1, <1>6
  <2>3. (f.code * 16 + HexValue(HexDigit(l))) % 256 = b
    BY <2>1, <2>2, <1>3
  <2>4. Idle(g, Append(text, b))
    BY <1>1, <1>2, <1>3, <2>1, <2>3, StepSecond
  <2> QED BY <1>6, <2>4 DEF e, f, h, l
<1>7. CASE ~(b < 160)
  <2>1. Refused(f)
    BY <1>1, <1>2, <1>5, <1>7
  <2>2. Refused(g)
    BY <2>1, RefusedStays
  <2> QED BY <1>7, <2>2 DEF e, f, h, l
<1> QED BY <1>6, <1>7

Escaped(b) == IF isalnum(b) THEN <<b>> ELSE <<Percent, HexDigit(b \div 16), HexDigit(b % 16)>>

\* The encoding of a byte.
LEMMA EscapedType ==
  ASSUME NEW b \in Byte
  PROVE  Escaped(b) \in Seq(Nat) /\ b \in Nat /\ HexDigit(b \div 16) \in Nat /\ HexDigit(b % 16) \in Nat
<1>1. b \in Nat /\ b \div 16 \in Nat /\ b % 16 \in Nat
  BY DEF Byte
<1>2. HexDigit(b \div 16) \in Nat /\ HexDigit(b % 16) \in Nat
  BY <1>1 DEF HexDigit
<1> QED BY <1>1, <1>2 DEF Escaped, Percent

\* The encoding of one more byte.
LEMMA EncodedNext ==
  ASSUME NEW bytes \in Seq(Byte), NEW b \in Byte
  PROVE  /\ Encoded(bytes) \in Seq(Nat)
         /\ Encoded(Append(bytes, b)) = Encoded(bytes) \o Escaped(b)
<1> DEFINE n == Len(bytes)
           es == [i \in 1 .. n |-> Escaped(bytes[i])]
           longer == Append(bytes, b)
           ls == [i \in 1 .. n + 1 |-> Escaped(longer[i])]
<1>0. n \in Nat /\ Len(longer) = n + 1 /\ longer[n + 1] = b /\ \A i \in 1 .. n : longer[i] = bytes[i]
  OBVIOUS
<1>1. \A i \in 1 .. n : Escaped(bytes[i]) \in Seq(Nat)
  <2> TAKE i \in 1 .. n
  <2>1. bytes[i] \in Byte
    BY ElementOf
  <2> QED BY <2>1, EscapedType
<1>2. es \in Seq(Seq(Nat)) /\ Len(es) = n
  <2>1. es \in [1 .. n -> Seq(Nat)]
    BY <1>1
  <2> HIDE DEF es, n
  <2> QED BY <1>0, <2>1, FunctionIsSeq
<1>3. Escaped(b) \in Seq(Nat)
  BY EscapedType
<1>4. ls = Append(es, Escaped(b))
  <2> DEFINE as == Append(es, Escaped(b))
  <2>1. \A i \in 1 .. n : es[i] = Escaped(bytes[i])
    OBVIOUS
  <2>2. \A i \in 1 .. n + 1 : ls[i] = Escaped(longer[i])
    OBVIOUS
  <2>3. ls \in [1 .. n + 1 -> Seq(Nat)]
    <3> SUFFICES ASSUME NEW i \in 1 .. n + 1 PROVE Escaped(longer[i]) \in Seq(Nat)
      OBVIOUS
    <3> HIDE DEF n, longer
    <3>1. i \in 1 .. n \/ i = n + 1
      BY <1>0
    <3> QED BY <3>1, <1>0, <1>1, <1>3
  <2> HIDE DEF es, ls, n, longer
  <2>4. ls \in Seq(Seq(Nat)) /\ Len(ls) = n + 1
    <3>1. n + 1 \in Nat
      BY <1>0
    <3> QED BY <2>3, <3>1, FunctionIsSeq
  <2>5. /\ as \in Seq(Seq(Nat)) /\ Len(as) = n + 1
        /\ \A i \in 1 .. n : as[i] = es[i]
        /\ as[n + 1] = Escaped(b)
    BY <1>2, <1>3, AppendFacts
  <2> HIDE DEF as
  <2>6. ASSUME NEW i \in 1 .. n + 1 PROVE ls[i] = as[i]
    <3>1. i \in 1 .. n \/ i = n + 1
      BY <1>0
    <3> QED BY <3>1, <1>0, <2>1, <2>2, <2>5
  <2>7. ls = as
    BY <2>4, <2>5, <2>6, SameSeq
  <2> QED BY <2>7 DEF as
<1>5. Encoded(bytes) = FlattenSeq(es)
  BY DEF Encoded, Escaped
<1>6. Encoded(longer) = FlattenSeq(ls)
  BY <1>0 DEF Encoded, Escaped
<1> HIDE DEF es, ls, longer
<1> QED BY <1>2, <1>3, <1>4, <1>5, <1>6, FlattenAppend, FlattenType DEF longer

Decoded(s) == FoldLeft(DecodeStep, DecodeStart, s)

\* One more character.
LEMMA DecodedAppend ==
  ASSUME NEW s \in Seq(Nat), NEW c \in Nat
  PROVE  Decoded(Append(s, c)) = DecodeStep(Decoded(s), c)
<1>1. Folds(DecodeStep, DecodeStart, s, c)
  BY FoldLeftAppend
<1> QED BY <1>1 DEF Folds, Decoded

\* One more byte, encoded.
LEMMA DecodedEscaped ==
  ASSUME NEW s \in Seq(Nat), NEW b \in Byte
  PROVE  Decoded(s \o Escaped(b)) =
           IF isalnum(b) THEN DecodeStep(Decoded(s), b)
           ELSE DecodeStep(DecodeStep(DecodeStep(Decoded(s), Percent), HexDigit(b \div 16)), HexDigit(b % 16))
<1> DEFINE x == HexDigit(b \div 16)
           y == HexDigit(b % 16)
<1>1. b \in Nat /\ x \in Nat /\ y \in Nat /\ Percent \in Nat
  BY EscapedType DEF Percent
<1> HIDE DEF x, y
<1>2. CASE isalnum(b)
  <2>1. s \o <<b>> = Append(s, b)
    OBVIOUS
  <2> QED BY <1>1, <1>2, <2>1, DecodedAppend DEF Escaped
<1>3. CASE ~isalnum(b)
  <2> DEFINE p == Percent
  <2>0. p \in Nat
    BY <1>1
  <2> HIDE DEF p
  <2>1. s \o <<p, x, y>> = Append(Append(Append(s, p), x), y)
    BY <1>1, <2>0
  <2>2. Append(s, p) \in Seq(Nat) /\ Append(Append(s, p), x) \in Seq(Nat)
    BY <1>1, <2>0
  <2>3. Decoded(Append(s, p)) = DecodeStep(Decoded(s), p)
    BY <2>0, DecodedAppend
  <2>4. Decoded(Append(Append(s, p), x)) = DecodeStep(Decoded(Append(s, p)), x)
    BY <1>1, <2>2, DecodedAppend
  <2>5. Decoded(Append(Append(Append(s, p), x), y)) = DecodeStep(Decoded(Append(Append(s, p), x)), y)
    BY <1>1, <2>2, DecodedAppend
  <2>6. Escaped(b) = <<p, x, y>>
    BY <1>3 DEF Escaped, p, x, y
  <2> QED BY <1>3, <2>1, <2>3, <2>4, <2>5, <2>6 DEF p, x, y
<1> QED BY <1>2, <1>3

Below160(bytes) == \A i \in 1 .. Len(bytes) : bytes[i] < 160

\* By induction over the text.
LEMMA DecodedEncoded ==
  \A bytes \in Seq(Byte) :
    IF Below160(bytes) THEN Idle(Decoded(Encoded(bytes)), bytes) ELSE Refused(Decoded(Encoded(bytes)))
<1> DEFINE Right(bytes) ==
             IF Below160(bytes) THEN Idle(Decoded(Encoded(bytes)), bytes)
             ELSE Refused(Decoded(Encoded(bytes)))
           S == {bytes \in Seq(Byte) : Right(bytes)}
<1>1. << >> \in S
  <2>1. Encoded(<< >>) = << >>
    <3>1. FlattenSeq([i \in 1 .. Len(<< >>) |->
            IF isalnum(<< >>[i]) THEN <<(<< >>[i])>>
            ELSE <<Percent, HexDigit(<< >>[i] \div 16), HexDigit(<< >>[i] % 16)>>]) = << >>
      <4>1. [i \in 1 .. Len(<< >>) |->
            IF isalnum(<< >>[i]) THEN <<(<< >>[i])>>
            ELSE <<Percent, HexDigit(<< >>[i] \div 16), HexDigit(<< >>[i] % 16)>>] = << >>
        OBVIOUS
      <4> QED BY <4>1, FlattenEmpty
    <3> QED BY <3>1 DEF Encoded
  <2>2. Decoded(<< >>) = DecodeStart
    BY FoldLeftEmpty DEF Decoded
  <2>3. Idle(DecodeStart, << >>) /\ Below160(<< >>)
    BY DEF Idle, DecodeStart, Decoder, Below160
  <2> QED BY <2>1, <2>2, <2>3
<1>2. ASSUME NEW bytes \in S \cap Seq(Byte), NEW b \in Byte PROVE Append(bytes, b) \in S
  <2> DEFINE d == Decoded(Encoded(bytes))
             g == Decoded(Encoded(Append(bytes, b)))
  <2>0. bytes \in Seq(Byte) /\ Right(bytes) /\ b \in Nat
    BY EscapedType
  <2>1. /\ Encoded(bytes) \in Seq(Nat)
        /\ g = IF isalnum(b) THEN DecodeStep(d, b)
               ELSE DecodeStep(DecodeStep(DecodeStep(d, Percent), HexDigit(b \div 16)), HexDigit(b % 16))
    BY EncodedNext, DecodedEscaped
  <2>2. Below160(Append(bytes, b)) <=> Below160(bytes) /\ b < 160
    <3>1. Len(Append(bytes, b)) = Len(bytes) + 1 /\ Append(bytes, b)[Len(bytes) + 1] = b
          /\ \A i \in 1 .. Len(bytes) : Append(bytes, b)[i] = bytes[i]
      OBVIOUS
    <3>2. Len(bytes) \in Nat
      OBVIOUS
    <3> QED BY <3>1, <3>2 DEF Below160
  <2>3. Append(bytes, b) \in Seq(Byte)
    OBVIOUS
  <2>4. bytes \in Seq(Nat)
    <3>1. Byte \subseteq Nat
      BY DEF Byte
    <3> QED BY <2>0, <3>1, SeqSubset
  <2> HIDE DEF d, g
  <2>5. CASE Below160(bytes)
    <3>1. Idle(d, bytes)
      BY <2>0, <2>5 DEF d
    <3>2. CASE isalnum(b)
      <4>1. b # Percent /\ b < 160
        BY <2>0, <3>2 DEF isalnum, isdigit, Percent
      <4>2. Idle(g, Append(bytes, b))
        BY <2>0, <2>1, <2>4, <3>1, <3>2, <4>1, StepPlain
      <4> QED BY <2>2, <2>3, <2>5, <4>1, <4>2 DEF g
    <3>3. CASE ~isalnum(b)
      <4>1. IF b < 160 THEN Idle(g, Append(bytes, b)) ELSE Refused(g)
        BY <2>1, <2>4, <3>1, <3>3, StepEscape
      <4> QED BY <2>2, <2>3, <2>5, <4>1 DEF g
    <3> QED BY <3>2, <3>3
  <2>6. CASE ~Below160(bytes)
    <3>1. Refused(d)
      BY <2>0, <2>6 DEF d
    <3>2. g = d
      BY <2>1, <3>1, RefusedStays
    <3> QED BY <2>2, <2>3, <2>6, <3>1, <3>2 DEF g
  <2> QED BY <2>5, <2>6
<1> HIDE DEF S
<1>3. Seq(Byte) \subseteq S
  BY <1>1, <1>2, SeqInduction
<1> QED BY <1>3 DEF S

\* For every text: URLDecode inverts the encoding when all its bytes are below 160, and
\* refuses it otherwise (NPUtil.cpp:641).
THEOREM DecodeInverts == \A bytes \in Seq(Byte) : DecodeInvertsEncode(bytes)
<1> TAKE bytes \in Seq(Byte)
<1>1. URLDecode(Encoded(bytes)) = [ret |-> Decoded(Encoded(bytes)).ret, dst |-> Decoded(Encoded(bytes)).dst]
  BY DEF URLDecode, Decoded
<1>2. IF Below160(bytes) THEN Idle(Decoded(Encoded(bytes)), bytes) ELSE Refused(Decoded(Encoded(bytes)))
  BY DecodedEncoded
<1> QED BY <1>1, <1>2 DEF DecodeInvertsEncode, Idle, Refused, Below160

(***************************************************************************)
(* SHA-256                                                                 *)
(***************************************************************************)
\* The bytes of a block.
BlockOf == [1 .. Block -> Nat]

\* The i-th block of a message.
BlockAt(m, i) == [k \in 1 .. Block |-> m[(i - 1) * Block + k]]

\* The i-th block lies within the message.
LEMMA BlockSlice ==
  ASSUME NEW m \in Seq(Nat), NEW i \in 1 .. Len(m) \div Block
  PROVE  /\ SubSeq(m, (i - 1) * Block + 1, i * Block) = BlockAt(m, i)
         /\ BlockAt(m, i) \in BlockOf
         /\ (i - 1) * Block \in Nat /\ i * Block = (i - 1) * Block + Block /\ i * Block <= Len(m)
<1> DEFINE q == Len(m) \div Block
           r == Len(m) % Block
<1>0. Block \in Nat /\ Block > 0 /\ Len(m) \in Nat
  BY NPUtilAssumption
<1>1. q \in Nat /\ r \in Nat /\ Len(m) = q * Block + r
  BY <1>0, DivMod
<1> HIDE DEF q, r
<1>2. i \in Nat /\ i >= 1 /\ i <= q
  BY <1>1 DEF q
<1>3. PICK j \in Nat : i = j + 1
  BY <1>2
<1>4. PICK e \in Nat : q = i + e
  BY <1>1, <1>2
<1>5. PICK p \in Nat : p = j * Block
  BY <1>0
<1>6. i * Block = p + Block
  BY <1>0, <1>3, <1>5
<1>7. q * Block = i * Block + e * Block /\ e * Block \in Nat
  BY <1>0, <1>2, <1>4
<1>8. p + Block <= Len(m)
  BY <1>0, <1>1, <1>5, <1>6, <1>7
<1>9. (i - 1) * Block = p
  BY <1>3, <1>5
<1> DEFINE s == SubSeq(m, p + 1, p + Block)
<1>10. /\ s \in Seq(Nat) /\ Len(s) = Block
       /\ \A k \in 1 .. Block : s[k] = m[p + k]
  <2>1. s \in Seq(Nat) /\ Slices(m, p, Block, s)
    BY <1>0, <1>8, SliceSlices, Zenon
  <2> QED BY <2>1 DEF Slices
<1> HIDE DEF s
<1> DEFINE b == [k \in 1 .. Block |-> m[p + k]]
<1>11. ASSUME NEW k \in 1 .. Block PROVE m[p + k] \in Nat
  <2>1. p + k \in 1 .. Len(m)
    BY <1>0, <1>8
  <2> QED BY <2>1, ElementOf
<1>12. b \in [1 .. Block -> Nat]
  BY <1>11
<1>13. b \in Seq(Nat) /\ Len(b) = Block
  BY <1>0, <1>12, FunctionIsSeq
<1>14. \A k \in 1 .. Block : s[k] = b[k]
  BY <1>10
<1> HIDE DEF b
<1>15. s = b
  BY <1>10, <1>13, <1>14, SameSeq
<1>16. BlockAt(m, i) = b
  BY <1>9 DEF BlockAt, b
<1> QED BY <1>6, <1>8, <1>9, <1>12, <1>15, <1>16, <1>0 DEF s, BlockOf

\* WholeBlocks and Leftover, element by element.
LEMMA BlocksFacts ==
  ASSUME NEW m \in Seq(Nat)
  PROVE  /\ WholeBlocks(m) \in Seq(BlockOf) /\ Len(WholeBlocks(m)) = Len(m) \div Block
         /\ Len(m) \div Block \in Nat
         /\ \A i \in 1 .. Len(m) \div Block : WholeBlocks(m)[i] = BlockAt(m, i)
<1> DEFINE q == Len(m) \div Block
<1>0. q \in Nat
  BY DivMod, NPUtilAssumption
<1>1. WholeBlocks(m) = [i \in 1 .. q |-> BlockAt(m, i)]
  BY BlockSlice DEF WholeBlocks
<1>2. WholeBlocks(m) \in [1 .. q -> BlockOf]
  BY <1>1, BlockSlice
<1> HIDE DEF q
<1>3. WholeBlocks(m) \in Seq(BlockOf) /\ Len(WholeBlocks(m)) = q
  BY <1>0, <1>2, FunctionIsSeq
<1>4. \A i \in 1 .. q : WholeBlocks(m)[i] = BlockAt(m, i)
  BY <1>1
<1> QED BY <1>0, <1>3, <1>4 DEF q

\* What is left of a message behind its whole blocks.
LEMMA LeftoverFacts ==
  ASSUME NEW m \in Seq(Nat)
  PROVE  /\ Leftover(m) \in Seq(Nat) /\ Len(Leftover(m)) = Len(m) % Block
         /\ Len(m) % Block \in 0 .. Block - 1
         /\ (Len(m) \div Block) * Block \in Nat
         /\ SubSeq(m, 1, (Len(m) \div Block) * Block) \in Seq(Nat)
         /\ Len(SubSeq(m, 1, (Len(m) \div Block) * Block)) = (Len(m) \div Block) * Block
         /\ SubSeq(m, 1, (Len(m) \div Block) * Block) \o Leftover(m) = m
<1>0. Block \in Nat /\ Block > 0 /\ Len(m) \in Nat
  BY NPUtilAssumption
<1>1. /\ Len(m) \div Block \in Nat /\ Len(m) % Block \in 0 .. Block - 1
      /\ Len(m) = (Len(m) \div Block) * Block + (Len(m) % Block)
  BY <1>0, DivMod
<1>2. PICK a : a = (Len(m) \div Block) * Block
  OBVIOUS
<1>3. a \in Nat
  BY <1>0, <1>1, <1>2
<1>4. a <= Len(m) /\ Len(m) - a = Len(m) % Block
  BY <1>0, <1>1, <1>2, <1>3
<1>5. SubSeq(m, a + 1, Len(m)) \in Seq(Nat) /\ Len(SubSeq(m, a + 1, Len(m))) = Len(m) - a
  BY <1>3, <1>4, SliceRest
<1>6. SubSeq(m, 1, a) \in Seq(Nat) /\ Len(SubSeq(m, 1, a)) = a
  BY <1>3, <1>4, SliceFront
<1>7. SubSeq(m, 1, a) \o SubSeq(m, a + 1, Len(m)) = m
  BY <1>3, <1>4, CutSeq
<1>8. Leftover(m) = SubSeq(m, a + 1, Len(m))
  BY <1>2 DEF Leftover
<1> QED BY <1>1, <1>2, <1>3, <1>4, <1>5, <1>6, <1>7, <1>8

\* A message that begins with whole blocks.
LEMMA BlocksConcat ==
  ASSUME NEW u \in Seq(Nat), NEW a \in Nat, Len(u) = a * Block, NEW v \in Seq(Nat)
  PROVE  /\ WholeBlocks(u \o v) = WholeBlocks(u) \o WholeBlocks(v)
         /\ Leftover(u \o v) = Leftover(v)
         /\ Len(WholeBlocks(u)) = a
<1> DEFINE m == u \o v
           b == Len(v) \div Block
           r == Len(v) % Block
           L == a * Block
<1>0. Block \in Nat /\ Block > 0 /\ L \in Nat /\ Len(v) \in Nat
  BY NPUtilAssumption
<1>1. b \in Nat /\ r \in 0 .. Block - 1 /\ Len(v) = b * Block + r
  BY <1>0, DivMod
<1>2. /\ m \in Seq(Nat) /\ Len(m) = L + Len(v)
      /\ \A i \in 1 .. L : m[i] = u[i]
      /\ \A i \in 1 .. Len(v) : m[L + i] = v[i]
  <2>1. m \in Seq(Nat) /\ Joins(u, v, m)
    BY ConcatJoins, Zenon
  <2> QED BY <2>1 DEF Joins
<1>3. Len(u) \div Block = a
  <2>1. 0 \in 0 .. Block - 1 /\ a * Block + 0 = a * Block
    BY <1>0
  <2> QED BY <1>0, <2>1, DivModOf
<1> HIDE DEF m, b, r
<1>4. Len(m) \div Block = a + b /\ Len(m) % Block = r
  <2>1. Len(m) = (a + b) * Block + r
    BY <1>0, <1>1, <1>2
  <2>2. a + b \in Nat
    BY <1>1
  <2>3. /\ ((a + b) * Block + r) \div Block = a + b
        /\ ((a + b) * Block + r) % Block = r
    BY <1>0, <1>1, <2>2, DivModOf, Zenon
  <2> QED BY <2>1, <2>3, Zenon
<1>5. WholeBlocks(u) \in Seq(BlockOf) /\ Len(WholeBlocks(u)) = a
      /\ \A i \in 1 .. a : WholeBlocks(u)[i] = BlockAt(u, i)
  BY <1>3, BlocksFacts
<1>6. WholeBlocks(v) \in Seq(BlockOf) /\ Len(WholeBlocks(v)) = b
      /\ \A i \in 1 .. b : WholeBlocks(v)[i] = BlockAt(v, i)
  BY BlocksFacts DEF b
<1>7. WholeBlocks(m) \in Seq(BlockOf) /\ Len(WholeBlocks(m)) = a + b
      /\ \A i \in 1 .. a + b : WholeBlocks(m)[i] = BlockAt(m, i)
  BY <1>2, <1>4, BlocksFacts
<1>8. ASSUME NEW i \in 1 .. a PROVE BlockAt(m, i) = BlockAt(u, i)
  <2>1. i \in 1 .. Len(u) \div Block
    BY <1>3
  <2>2. (i - 1) * Block \in Nat /\ i * Block = (i - 1) * Block + Block /\ i * Block <= Len(u)
    BY <2>1, BlockSlice
  <2>3. PICK p \in Nat : p = (i - 1) * Block
    BY <2>2
  <2>4. p + Block <= L
    BY <2>2, <2>3
  <2> HIDE DEF L
  <2>5. \A k \in 1 .. Block : p + k \in 1 .. L
    BY <1>0, <2>4
  <2>6. \A k \in 1 .. Block : m[p + k] = u[p + k]
    BY <1>2, <2>5
  <2> QED BY <2>3, <2>6 DEF BlockAt
<1>9. ASSUME NEW i \in 1 .. b PROVE BlockAt(m, a + i) = BlockAt(v, i)
  <2>1. i \in 1 .. Len(v) \div Block
    BY DEF b
  <2>2. (i - 1) * Block \in Nat /\ i * Block = (i - 1) * Block + Block /\ i * Block <= Len(v)
    BY <2>1, BlockSlice
  <2>3. PICK p \in Nat : p = (i - 1) * Block
    BY <2>2
  <2>4. p + Block <= Len(v)
    BY <2>2, <2>3
  <2>5. ((a + i) - 1) * Block = L + p
    BY <1>0, <1>1, <2>3
  <2> HIDE DEF L
  <2>6. \A k \in 1 .. Block : p + k \in 1 .. Len(v) /\ (L + p) + k = L + (p + k)
    BY <1>0, <2>4
  <2>7. \A k \in 1 .. Block : m[(L + p) + k] = v[p + k]
    BY <1>2, <2>6
  <2> QED BY <2>3, <2>5, <2>7 DEF BlockAt
<1>10. WholeBlocks(m) = WholeBlocks(u) \o WholeBlocks(v)
  <2> DEFINE x == WholeBlocks(u) \o WholeBlocks(v)
             y == WholeBlocks(m)
  <2>1. /\ x \in Seq(BlockOf) /\ Len(x) = a + b
        /\ \A i \in 1 .. a : x[i] = WholeBlocks(u)[i]
        /\ \A i \in 1 .. b : x[a + i] = WholeBlocks(v)[i]
    <3>1. x \in Seq(BlockOf) /\ Joins(WholeBlocks(u), WholeBlocks(v), x)
      BY <1>5, <1>6, ConcatJoins, Zenon
    <3>2. Len(WholeBlocks(u)) = a /\ Len(WholeBlocks(v)) = b
      BY <1>5, <1>6
    <3> QED BY <3>1, <3>2 DEF Joins
  <2>0. y \in Seq(BlockOf) /\ Len(y) = a + b /\ \A i \in 1 .. a + b : y[i] = BlockAt(m, i)
    BY <1>7
  <2> HIDE DEF x, y
  <2>2. ASSUME NEW i \in 1 .. Len(y) PROVE y[i] = x[i]
    <3>1. CASE i \in 1 .. a
      BY <3>1, <2>0, <2>1, <1>5, <1>8
    <3>2. CASE i > a
      <4>1. PICK j \in 1 .. b : i = a + j
        BY <1>1, <2>0, <3>2
      <4>2. y[i] = BlockAt(m, a + j)
        BY <4>1, <2>0
      <4> QED BY <4>1, <4>2, <2>1, <1>6, <1>9
    <3> QED BY <1>1, <2>0, <3>1, <3>2
  <2>3. y = x
    BY <2>0, <2>1, <2>2, SameSeq
  <2> QED BY <2>3 DEF x, y
<1>11. Leftover(m) = Leftover(v)
  <2>1. PICK p \in Nat : p = b * Block
    BY <1>0, <1>1
  <2>2. (Len(m) \div Block) * Block = L + p
    <3>1. (a + b) * Block = L + p
      BY <1>0, <1>1, <2>1
    <3> QED BY <1>4, <3>1, Zenon
  <2> DEFINE x == SubSeq(m, (L + p) + 1, Len(m))
             y == SubSeq(v, p + 1, Len(v))
  <2> HIDE DEF L
  <2>3. p <= Len(v) /\ Len(v) - p = r /\ L + p <= Len(m) /\ Len(m) - (L + p) = r /\ L + p \in Nat
    <3>1. Len(v) = p + r /\ r \in Nat /\ Len(m) = L + Len(v) /\ L \in Nat
      BY <1>0, <1>1, <1>2, <2>1
    <3> QED BY <3>1
  <2>4. x \in Seq(Nat) /\ Len(x) = r /\ \A k \in 1 .. r : x[k] = m[(L + p) + k]
    <3>1. /\ x \in Seq(Nat) /\ Len(x) = Len(m) - (L + p)
          /\ \A k \in 1 .. Len(m) - (L + p) : x[k] = m[(L + p) + k]
      BY <1>2, <2>3, SliceRest, Zenon
    <3> QED BY <2>3, <3>1, Zenon
  <2>5. y \in Seq(Nat) /\ Len(y) = r /\ \A k \in 1 .. r : y[k] = v[p + k]
    BY <2>3, SliceRest
  <2>6. x = Leftover(m) /\ y = Leftover(v)
    BY <2>1, <2>2 DEF Leftover, b
  <2> HIDE DEF x, y
  <2>7. ASSUME NEW k \in 1 .. r PROVE x[k] = y[k]
    <3>1. p + k \in 1 .. Len(v) /\ (L + p) + k = L + (p + k)
      BY <1>0, <1>1, <2>3
    <3> QED BY <3>1, <2>4, <2>5, <1>2
  <2>8. x = y
    BY <2>4, <2>5, <2>7, SameSeq
  <2> QED BY <2>6, <2>8
<1> QED BY <1>5, <1>10, <1>11 DEF m

\* A message of one block.
LEMMA OneBlock ==
  ASSUME NEW b \in Seq(Nat), Len(b) = Block
  PROVE  WholeBlocks(b) = <<b>> /\ b \in BlockOf
<1>0. Block \in Nat /\ Block > 0
  BY NPUtilAssumption
<1>1. Block \div Block = 1
  <2>1. 0 \in 0 .. Block - 1 /\ 1 \in Nat /\ 1 * Block + 0 = Block
    BY <1>0
  <2> QED BY <1>0, <2>1, DivModOf
<1>2. b \in [1 .. Block -> Nat] /\ b = [k \in 1 .. Block |-> b[k]]
  OBVIOUS
<1>3. BlockAt(b, 1) = b
  <2>1. \A k \in 1 .. Block : (1 - 1) * Block + k = k
    BY <1>0
  <2> QED BY <1>2, <2>1 DEF BlockAt
<1>4. /\ WholeBlocks(b) \in Seq(BlockOf) /\ Len(WholeBlocks(b)) = 1
      /\ WholeBlocks(b)[1] = b
  <2>1. /\ WholeBlocks(b) \in Seq(BlockOf) /\ Len(WholeBlocks(b)) = 1
        /\ \A i \in 1 .. 1 : WholeBlocks(b)[i] = BlockAt(b, i)
    BY <1>1, BlocksFacts
  <2> QED BY <2>1, <1>3
<1>5. <<b>> \in Seq(BlockOf) /\ Len(<<b>>) = 1 /\ <<b>>[1] = b
  BY <1>2 DEF BlockOf
<1>6. WholeBlocks(b) = <<b>>
  <2> DEFINE x == WholeBlocks(b)
             y == <<b>>
  <2>1. x \in Seq(BlockOf) /\ y \in Seq(BlockOf) /\ Len(x) = 1 /\ Len(y) = 1 /\ x[1] = y[1]
    BY <1>4, <1>5
  <2> HIDE DEF x, y
  <2>2. x = y
    BY <2>1
  <2> QED BY <2>2 DEF x, y
<1> QED BY <1>2, <1>6 DEF BlockOf

\* A message that is shorter than a block.
LEMMA NoBlock ==
  ASSUME NEW s \in Seq(Nat), Len(s) < Block
  PROVE  WholeBlocks(s) = << >> /\ Leftover(s) = s
<1>0. Block \in Nat /\ Block > 0 /\ Len(s) \in 0 .. Block - 1
  BY NPUtilAssumption
<1>1. Len(s) \div Block = 0
  <2>1. 0 \in Nat /\ 0 * Block + Len(s) = Len(s)
    BY <1>0
  <2> QED BY <1>0, <2>1, DivModOf
<1>2. WholeBlocks(s) \in Seq(BlockOf) /\ Len(WholeBlocks(s)) = 0
  BY <1>1, BlocksFacts
<1>3. Leftover(s) = SubSeq(s, 1, Len(s))
  <2>1. 0 * Block + 1 = 1
    BY <1>0
  <2> QED BY <1>1, <2>1 DEF Leftover
<1>4. SubSeq(s, 1, Len(s)) = s
  OBVIOUS
<1> QED BY <1>2, <1>3, <1>4

\* A message that grows: only what is held back is cut again.
LEMMA BlocksExtend ==
  ASSUME NEW m \in Seq(Nat), NEW x \in Seq(Nat)
  PROVE  /\ WholeBlocks(m \o x) = WholeBlocks(m) \o WholeBlocks(Leftover(m) \o x)
         /\ Leftover(m \o x) = Leftover(Leftover(m) \o x)
         /\ Leftover(m) \o x \in Seq(Nat)
<1> DEFINE q == Len(m) \div Block
           l == Leftover(m)
           f == SubSeq(m, 1, q * Block)
<1>0. q \in Nat
  BY BlocksFacts
<1>1. l \in Seq(Nat) /\ Len(l) < Block
  BY LeftoverFacts, NPUtilAssumption
<1>2. f \in Seq(Nat) /\ Len(f) = q * Block /\ f \o l = m
  BY LeftoverFacts
<1> HIDE DEF f, l, q
<1>3. WholeBlocks(f \o l) = WholeBlocks(f) \o WholeBlocks(l)
  BY <1>0, <1>1, <1>2, BlocksConcat, Zenon
<1>4. WholeBlocks(f) \in Seq(BlockOf)
  BY <1>2, BlocksFacts
<1>5. WholeBlocks(m) = WholeBlocks(f)
  <2>1. WholeBlocks(l) = << >>
    BY <1>1, NoBlock
  <2>2. WholeBlocks(f) \o << >> = WholeBlocks(f)
    BY <1>4
  <2> QED BY <1>2, <1>3, <2>1, <2>2
<1>6. l \o x \in Seq(Nat)
  BY <1>1
<1>7. m \o x = f \o (l \o x)
  <2>1. Associates(f, l, x)
    BY <1>1, <1>2, AssociatesAlways, Zenon
  <2> QED BY <1>2, <2>1 DEF Associates
<1>8. /\ WholeBlocks(f \o (l \o x)) = WholeBlocks(f) \o WholeBlocks(l \o x)
      /\ Leftover(f \o (l \o x)) = Leftover(l \o x)
  BY <1>0, <1>2, <1>6, BlocksConcat, Zenon
<1> QED BY <1>5, <1>6, <1>7, <1>8 DEF l

Holds(buffer, held) == \A i \in 1 .. Len(held) : buffer[i] = held[i]

\* memcpy behind what the buffer holds.
LEMMA CopyHolds ==
  ASSUME NEW buffer, NEW h \in Seq(Nat), NEW x \in Seq(Nat), Holds(buffer, h), Len(h) + Len(x) <= Block
  PROVE  /\ Holds(CopyTo(buffer, Len(h), x), h \o x)
         /\ Len(h) + Len(x) = Block => CopyTo(buffer, Len(h), x) = h \o x
<1> DEFINE c == CopyTo(buffer, Len(h), x)
           y == h \o x
           a == Len(h)
           n == Len(x)
<1>0. Block \in Nat /\ a \in Nat /\ n \in Nat /\ a + n <= Block
  BY NPUtilAssumption
<1>1. y \in Seq(Nat) /\ Len(y) = a + n /\ (\A i \in 1 .. a : y[i] = h[i]) /\ \A i \in 1 .. n : y[a + i] = x[i]
  BY ConcatFacts
<1>2. c = [i \in 1 .. Block |-> IF i \in a + 1 .. a + n THEN x[i - a] ELSE buffer[i]]
  BY DEF CopyTo
<1> HIDE DEF c, y, a, n
<1>3. ASSUME NEW i \in 1 .. a + n PROVE c[i] = y[i]
  <2>0. i \in 1 .. Block
    BY <1>0
  <2>1. CASE i \in 1 .. a
    <3>1. i \notin a + 1 .. a + n
      BY <1>0, <2>1
    <3>2. c[i] = buffer[i]
      BY <1>2, <2>0, <3>1
    <3>3. buffer[i] = h[i]
      BY <2>1 DEF Holds, a
    <3> QED BY <2>1, <3>2, <3>3, <1>1
  <2>2. CASE i > a
    <3>1. i \in a + 1 .. a + n /\ i - a \in 1 .. n /\ a + (i - a) = i
      BY <1>0, <2>2
    <3>2. c[i] = x[i - a]
      BY <1>2, <2>0, <3>1
    <3>3. y[a + (i - a)] = x[i - a]
      BY <1>1, <3>1
    <3> QED BY <3>1, <3>2, <3>3
  <2> QED BY <1>0, <2>1, <2>2
<1>4. Holds(c, y)
  BY <1>1, <1>3 DEF Holds
<1>5. CASE a + n = Block
  <2>1. y = [i \in 1 .. Block |-> y[i]]
    BY <1>1, <1>5
  <2>2. DOMAIN c = 1 .. Block /\ c = [i \in 1 .. Block |-> c[i]]
    BY <1>2
  <2>3. \A i \in 1 .. Block : c[i] = y[i]
    BY <1>3, <1>5
  <2>4. c = y
    BY <2>1, <2>2, <2>3
  <2> QED BY <1>4, <2>4 DEF c, y, a, n
<1> QED BY <1>4, <1>5 DEF c, y, a, n

Appends(s, t, v) == Append(s \o t, v) = s \o Append(t, v)

\* One more element at the end.
LEMMA AppendConcat ==
  ASSUME NEW V, NEW s \in Seq(V), NEW t \in Seq(V), NEW v \in V
  PROVE  Appends(s, t, v)
<1>1. <<v>> \in Seq(V) /\ s \o t \in Seq(V)
  OBVIOUS
<1>2. (s \o t) \o <<v>> = s \o (t \o <<v>>)
  <2>1. Associates(s, t, <<v>>)
    BY <1>1, AssociatesAlways, Zenon
  <2> QED BY <2>1 DEF Associates
<1>3. Append(t, v) = t \o <<v>>
  OBVIOUS
<1>4. Append(s \o t, v) = (s \o t) \o <<v>>
  BY <1>1
<1> QED BY <1>2, <1>3, <1>4 DEF Appends

Processed(blocks, s) == FoldLeft(sha256_process, blocks, s)

\* The blocks are processed one after the other.
LEMMA ProcessedAll ==
  ASSUME NEW blocks \in Seq(BlockOf)
  PROVE  \A s \in Seq(BlockOf) : Processed(blocks, s) = blocks \o s
<1> DEFINE S == {s \in Seq(BlockOf) : Processed(blocks, s) = blocks \o s}
<1>1. << >> \in S
  <2>1. Processed(blocks, << >>) = blocks
    BY FoldLeftEmpty DEF Processed
  <2> QED BY <2>1
<1>2. ASSUME NEW s \in S \cap Seq(BlockOf), NEW v \in BlockOf PROVE Append(s, v) \in S
  <2>1. Folds(sha256_process, blocks, s, v)
    BY FoldLeftAppend
  <2>2. Processed(blocks, Append(s, v)) = Append(Processed(blocks, s), v)
    BY <2>1 DEF Folds, Processed, sha256_process
  <2>3. s \in Seq(BlockOf) /\ Processed(blocks, s) = blocks \o s
    OBVIOUS
  <2> HIDE DEF S
  <2>4. Append(blocks \o s, v) = blocks \o Append(s, v)
    <3>1. Appends(blocks, s, v)
      BY <2>3, AppendConcat, Zenon
    <3> QED BY <3>1 DEF Appends
  <2>5. Append(s, v) \in Seq(BlockOf)
    BY <2>3
  <2>6. Processed(blocks, Append(s, v)) = blocks \o Append(s, v)
    BY <2>2, <2>3, <2>4
  <2> QED BY <2>5, <2>6 DEF S
<1> HIDE DEF S
<1>3. Seq(BlockOf) \subseteq S
  BY <1>1, <1>2, SeqInduction
<1> QED BY <1>3 DEF S

\* total[0] and total[1] count n bytes.
Total(n) == <<n % Word, (n \div Word) % Word>>

\* The remainder by Block can be taken from the low word.
LEMMA WordFacts ==
  /\ Word \in Nat /\ Word > Block /\ Block \in Nat /\ Block > 2
  /\ \A n \in Nat : (n % Word) % Block = n % Block
<1>0. Word \in Nat /\ Word > Block /\ Block \in Nat /\ Block > 2 /\ Word % Block = 0
  BY NPUtilAssumption
<1>1. PICK w \in Nat : Word = w * Block
  <2>1. Word \div Block \in Nat /\ Word = (Word \div Block) * Block + (Word % Block)
    BY <1>0, DivMod
  <2>2. Word = (Word \div Block) * Block
    BY <1>0, <2>1
  <2> QED BY <2>1, <2>2
<1>2. ASSUME NEW n \in Nat PROVE (n % Word) % Block = n % Block
  <2>1. PICK h \in Nat, t \in Nat : n = h * Word + t /\ t = n % Word
    <3>1. n \div Word \in Nat /\ n % Word \in Nat /\ n = (n \div Word) * Word + (n % Word)
      BY <1>0, DivMod
    <3> QED BY <3>1
  <2>2. PICK g \in Nat, r \in 0 .. Block - 1 : t = g * Block + r
    <3>1. t \div Block \in Nat /\ t % Block \in 0 .. Block - 1 /\ t = (t \div Block) * Block + (t % Block)
      BY <1>0, DivMod
    <3> QED BY <3>1
  <2>3. PICK j \in Nat : j = h * w
    OBVIOUS
  <2> DEFINE k == j + g
  <2>4. n = k * Block + r
    <3>1. h * Word = j * Block
      <4>1. h * (w * Block) = (h * w) * Block
        BY <1>0
      <4> QED BY <1>1, <2>3, <4>1, Zenon
    <3>2. k * Block = j * Block + g * Block
      BY <1>0
    <3>3. j * Block \in Nat /\ g * Block \in Nat
      BY <1>0
    <3>4. n = j * Block + (g * Block + r)
      BY <2>1, <2>2, <3>1, Zenon
    <3> HIDE DEF k
    <3> QED BY <3>2, <3>3, <3>4
  <2>5. t % Block = r
    BY <1>0, <2>2, DivModOf
  <2>6. n % Block = r
    <3>1. k \in Nat
      OBVIOUS
    <3> HIDE DEF k
    <3> QED BY <1>0, <2>4, <3>1, DivModOf
  <2> QED BY <2>1, <2>5, <2>6
<1> QED BY <1>0, <1>2

\* The carry from total[0] to total[1].
LEMMA TotalGrows ==
  ASSUME NEW L \in Nat, NEW n \in Nat, n < Word
  PROVE  LET low  == ((L % Word) + n) % Word
         IN  Total(L + n) = <<low, IF low < n THEN (((L \div Word) % Word) + 1) % Word ELSE (L \div Word) % Word>>
<1>0. Word \in Nat /\ Word > 0
  BY WordFacts
<1>1. PICK h \in Nat, t \in 0 .. Word - 1 : L = h * Word + t /\ h = L \div Word /\ t = L % Word
  BY <1>0, DivMod
<1>2. CASE t + n < Word
  <2>1. t + n \in 0 .. Word - 1 /\ L + n = h * Word + (t + n) /\ ~(t + n < n)
    BY <1>0, <1>1, <1>2
  <2>2. (L + n) % Word = t + n /\ (L + n) \div Word = h
    BY <1>0, <2>1, DivModOf
  <2>3. (t + n) % Word = t + n
    <3>1. 0 \in Nat /\ 0 * Word + (t + n) = t + n
      BY <1>0, <2>1
    <3> QED BY <1>0, <2>1, <3>1, DivModOf
  <2> QED BY <1>1, <2>1, <2>2, <2>3 DEF Total
<1>3. CASE t + n >= Word
  <2> DEFINE u == (t + n) - Word
  <2>1. u \in 0 .. Word - 1 /\ L + n = (h + 1) * Word + u /\ u < n /\ t + n = 1 * Word + u /\ h + 1 \in Nat
    BY <1>0, <1>1, <1>3
  <2> HIDE DEF u
  <2>2. (L + n) % Word = u /\ (L + n) \div Word = h + 1
    BY <1>0, <2>1, DivModOf
  <2>3. (t + n) % Word = u
    BY <1>0, <2>1, DivModOf
  <2>4. ((h % Word) + 1) % Word = (h + 1) % Word
    <3>1. PICK g \in Nat, s \in 0 .. Word - 1 : h = g * Word + s /\ s = h % Word
      BY <1>0, DivMod
    <3>2. CASE s + 1 < Word
      <4>1. s + 1 \in 0 .. Word - 1 /\ h + 1 = g * Word + (s + 1) /\ s + 1 = 0 * Word + (s + 1)
        BY <1>0, <3>1, <3>2
      <4>2. (h + 1) % Word = s + 1 /\ (s + 1) % Word = s + 1
        <5>1. /\ (g * Word + (s + 1)) % Word = s + 1 /\ (0 * Word + (s + 1)) % Word = s + 1
          BY <1>0, <3>1, <4>1, 0 \in Nat, DivModOf, Zenon
        <5> QED BY <4>1, <5>1, Zenon
      <4> QED BY <3>1, <4>2
    <3>3. CASE s + 1 = Word
      <4>1. 0 \in 0 .. Word - 1 /\ h + 1 = (g + 1) * Word + 0 /\ s + 1 = 1 * Word + 0 /\ g + 1 \in Nat
        BY <1>0, <3>1, <3>3
      <4>2. (h + 1) % Word = 0 /\ (s + 1) % Word = 0
        <5>1. /\ ((g + 1) * Word + 0) % Word = 0 /\ (1 * Word + 0) % Word = 0
          <6>1. PICK z \in 0 .. Word - 1 : z = 0
            BY <4>1
          <6>2. PICK c \in Nat, d \in Nat : c = g + 1 /\ d = 1
            BY <4>1
          <6>3. (c * Word + z) % Word = z /\ (d * Word + z) % Word = z
            BY <1>0, DivModOf, Zenon
          <6> QED BY <6>1, <6>2, <6>3, Zenon
        <5> QED BY <4>1, <5>1, Zenon
      <4> QED BY <3>1, <4>2
    <3> QED BY <1>0, <3>2, <3>3
  <2> QED BY <1>1, <2>1, <2>2, <2>3, <2>4 DEF Total
<1> QED BY <1>0, <1>2, <1>3

\* The context has taken in m: it counts its bytes, has processed its whole blocks and
\* holds the rest.
Absorbed(ctx, m) ==
  /\ m \in Seq(Nat)
  /\ ctx.total = Total(Len(m))
  /\ ctx.blocks = WholeBlocks(m)
  /\ Holds(ctx.buffer, Leftover(m))

\* The first bytes of the input complete the block that is held.
LEMMA UpdateFills ==
  ASSUME NEW buffer, NEW l \in Seq(Nat), NEW x \in Seq(Nat), Holds(buffer, l),
         Len(l) < Block, NEW first \in Nat, first = Block - Len(l), first <= Len(x)
  PROVE  LET buf  == CopyTo(buffer, Len(l), SubSeq(x, 1, first))
             rest == SubSeq(x, first + 1, Len(x))
         IN  /\ <<buf>> \o WholeBlocks(rest) = WholeBlocks(l \o x)
             /\ Holds(CopyTo(buf, 0, Leftover(rest)), Leftover(l \o x))
<1> DEFINE f == SubSeq(x, 1, first)
           buf == CopyTo(buffer, Len(l), f)
           rest == SubSeq(x, first + 1, Len(x))
           b == l \o f
<1>0. Block \in Nat /\ Block > 0 /\ Len(l) \in Nat /\ Len(x) \in Nat
  BY NPUtilAssumption
<1>1. f \in Seq(Nat) /\ Len(f) = first
  BY SliceFront
<1>2. rest \in Seq(Nat)
  BY SliceRest
<1>3. f \o rest = x
  BY CutSeq
<1> HIDE DEF f, rest
<1>4. b \in Seq(Nat) /\ Len(b) = Block
  BY <1>0, <1>1
<1>5. buf = b
  <2>1. Len(l) + Len(f) = Block /\ Len(l) + Len(f) <= Block
    BY <1>0, <1>1
  <2> QED BY <1>1, <2>1, CopyHolds, Zenon
<1> HIDE DEF b, buf
<1>6. l \o x = b \o rest
  <2>1. Associates(l, f, rest)
    BY <1>1, <1>2, AssociatesAlways, Zenon
  <2> QED BY <2>1, <1>3 DEF Associates, b
<1>7. /\ WholeBlocks(b \o rest) = WholeBlocks(b) \o WholeBlocks(rest)
      /\ Leftover(b \o rest) = Leftover(rest)
  <2>1. PICK a \in Nat : a = 1
    OBVIOUS
  <2>2. Len(b) = a * Block
    BY <1>0, <1>4, <2>1
  <2> QED BY <1>2, <1>4, <2>2, BlocksConcat, Zenon
<1>8. WholeBlocks(b) = <<b>>
  BY <1>4, OneBlock
<1>9. Holds(CopyTo(buf, 0, Leftover(rest)), Leftover(rest))
  <2>1. Leftover(rest) \in Seq(Nat) /\ Len(Leftover(rest)) < Block
    BY <1>0, <1>2, LeftoverFacts
  <2>2. << >> \in Seq(Nat) /\ Len(<< >>) = 0 /\ Holds(buf, << >>) /\ 0 + Len(Leftover(rest)) <= Block
    BY <1>0, <2>1 DEF Holds
  <2>3. Holds(CopyTo(buf, Len(<< >>), Leftover(rest)), << >> \o Leftover(rest))
    BY <2>1, <2>2, CopyHolds
  <2>4. << >> \o Leftover(rest) = Leftover(rest)
    BY <2>1
  <2> QED BY <2>2, <2>3, <2>4
<1>10. <<buf>> \o WholeBlocks(rest) = WholeBlocks(l \o x)
  BY <1>5, <1>6, <1>7, <1>8
<1>11. Leftover(l \o x) = Leftover(rest)
  BY <1>6, <1>7
<1> QED BY <1>9, <1>10, <1>11 DEF buf, f, rest

\* Otherwise: nothing is held, or the input does not complete the block.
LEMMA UpdateKeeps ==
  ASSUME NEW buffer, NEW l \in Seq(Nat), NEW x \in Seq(Nat), Holds(buffer, l),
         Len(l) < Block, Len(l) = 0 \/ Len(x) < Block - Len(l)
  PROVE  LET buf  == CopyTo(buffer, Len(l), SubSeq(x, 1, 0))
         IN  /\ << >> \o WholeBlocks(x) = WholeBlocks(l \o x)
             /\ Holds(CopyTo(buf, Len(l), Leftover(x)), Leftover(l \o x))
<1> DEFINE buf == CopyTo(buffer, Len(l), SubSeq(x, 1, 0))
<1>0. Block \in Nat /\ Block > 0 /\ Len(l) \in Nat /\ Len(x) \in Nat
  BY NPUtilAssumption
<1>1. SubSeq(x, 1, 0) = << >> /\ << >> \in Seq(Nat) /\ Len(<< >>) = 0 /\ l \o << >> = l
      /\ << >> \o x = x
  OBVIOUS
<1>2. Holds(buf, l)
  <2>1. Len(l) + Len(<< >>) <= Block
    BY <1>0, <1>1
  <2>2. Holds(CopyTo(buffer, Len(l), << >>), l \o << >>)
    BY <1>1, <2>1, CopyHolds
  <2> QED BY <1>1, <2>2
<1> HIDE DEF buf
<1>3. WholeBlocks(x) \in Seq(BlockOf)
  BY BlocksFacts
<1>4. << >> \o WholeBlocks(x) = WholeBlocks(x)
  BY <1>3
<1>5. Leftover(x) \in Seq(Nat) /\ Len(Leftover(x)) < Block
  BY <1>0, LeftoverFacts
<1>6. CASE Len(l) = 0
  <2>1. l = << >>
    BY <1>6
  <2>2. l \o Leftover(x) = Leftover(x)
    BY <1>5, <2>1
  <2>3. Len(l) + Len(Leftover(x)) <= Block
    BY <1>0, <1>5, <1>6
  <2>4. Holds(CopyTo(buf, Len(l), Leftover(x)), l \o Leftover(x))
    BY <1>2, <1>5, <2>3, CopyHolds
  <2>5. l \o x = x
    BY <2>1
  <2> QED BY <1>4, <2>2, <2>4, <2>5 DEF buf
<1>7. CASE Len(x) < Block - Len(l)
  <2>1. WholeBlocks(x) = << >> /\ Leftover(x) = x
    <3>1. Len(x) < Block
      BY <1>0, <1>7
    <3> QED BY <3>1, NoBlock
  <2>2. l \o x \in Seq(Nat) /\ Len(l \o x) < Block
    BY <1>0, <1>7
  <2>3. WholeBlocks(l \o x) = << >> /\ Leftover(l \o x) = l \o x
    BY <2>2, NoBlock
  <2>4. Len(l) + Len(x) <= Block
    BY <1>0, <1>7
  <2>5. Holds(CopyTo(buf, Len(l), x), l \o x)
    BY <1>2, <2>4, CopyHolds
  <2> QED BY <1>4, <2>1, <2>3, <2>5 DEF buf
<1> QED BY <1>6, <1>7

\* One call of sha256_update.
LEMMA UpdateAbsorbs ==
  ASSUME NEW ctx, NEW m, Absorbed(ctx, m), NEW x \in Seq(Nat), Len(x) < Word
  PROVE  Absorbed(sha256_update(ctx, x), m \o x)
<1> DEFINE n == Len(x)
           l == Leftover(m)
           left == ctx.total[1] % Block
           fill == Block - left
           low == (ctx.total[1] + n) % Word
           high == IF low < n THEN (ctx.total[2] + 1) % Word ELSE ctx.total[2]
           first == IF left > 0 /\ n >= fill THEN fill ELSE 0
           buf == CopyTo(ctx.buffer, left, SubSeq(x, 1, first))
           rest == SubSeq(x, first + 1, n)
           mid == (IF first > 0 THEN <<buf>> ELSE << >>) \o WholeBlocks(rest)
           held == CopyTo(buf, LeftAfter(left, first), Leftover(rest))
           u == sha256_update(ctx, x)
<1>1. /\ m \in Seq(Nat) /\ ctx.total = Total(Len(m)) /\ ctx.blocks = WholeBlocks(m)
      /\ Holds(ctx.buffer, l)
  BY DEF Absorbed
<1>2. Block \in Nat /\ Block > 0 /\ n \in Nat /\ Len(m) \in Nat
  BY <1>1, NPUtilAssumption
<1>3. l \in Seq(Nat) /\ Len(l) = Len(m) % Block /\ Len(l) < Block /\ Len(l) \in Nat
  <2>1. l \in Seq(Nat) /\ Len(l) = Len(m) % Block /\ Len(m) % Block \in 0 .. Block - 1
    BY <1>1, LeftoverFacts, Zenon
  <2>2. Len(l) \in 0 .. Block - 1
    BY <2>1, Zenon
  <2> HIDE DEF l
  <2> QED BY <1>2, <2>1, <2>2
<1>4. left = Len(l)
  <2>1. ctx.total[1] = Len(m) % Word
    BY <1>1 DEF Total
  <2> QED BY <1>2, <1>3, <2>1, WordFacts
<1>5. m \o x \in Seq(Nat) /\ Len(m \o x) = Len(m) + n
  BY <1>1
<1>6. CASE n = 0
  <2>1. m \o x = m
    BY <1>1, <1>6
  <2>2. u = ctx
    BY <1>6 DEF sha256_update
  <2> QED BY <2>1, <2>2
<1>7. CASE n # 0
  <2>1. u = [total |-> <<low, high>>, blocks |-> Processed(ctx.blocks, mid), buffer |-> held]
    BY <1>7, Zenon DEF sha256_update, Processed
  <2>2. <<low, high>> = Total(Len(m) + n)
    <3>1. ctx.total[1] = Len(m) % Word /\ ctx.total[2] = (Len(m) \div Word) % Word
      BY <1>1 DEF Total
    <3>2. Total(Len(m) + n) =
            <<((Len(m) % Word) + n) % Word,
              IF ((Len(m) % Word) + n) % Word < n THEN (((Len(m) \div Word) % Word) + 1) % Word
              ELSE (Len(m) \div Word) % Word>>
      BY <1>2, TotalGrows, Zenon
    <3> QED BY <3>1, <3>2, Zenon
  <2>3. mid = WholeBlocks(l \o x) /\ Holds(held, Leftover(l \o x))
    <3>1. CASE left > 0 /\ n >= fill
      <4>1. first = Block - Len(l) /\ first \in Nat /\ first > 0 /\ first <= Len(x)
        <5>1. first = fill
          BY <3>1
        <5> HIDE DEF first, left, n
        <5> QED BY <5>1, <3>1, <1>2, <1>3, <1>4 DEF n
      <4>2. LeftAfter(left, first) = 0
        BY <4>1 DEF LeftAfter
      <4>3. mid = <<buf>> \o WholeBlocks(rest) /\ held = CopyTo(buf, 0, Leftover(rest))
        BY <4>1, <4>2, Zenon
      <4> HIDE DEF first, mid, held
      <4>4. /\ <<CopyTo(ctx.buffer, Len(l), SubSeq(x, 1, first))>> \o WholeBlocks(SubSeq(x, first + 1, Len(x)))
                 = WholeBlocks(l \o x)
            /\ Holds(CopyTo(CopyTo(ctx.buffer, Len(l), SubSeq(x, 1, first)), 0,
                            Leftover(SubSeq(x, first + 1, Len(x)))), Leftover(l \o x))
        BY <4>1, <1>1, <1>3, UpdateFills, Zenon
      <4> QED BY <4>3, <4>4, <1>4, Zenon
    <3>2. CASE ~(left > 0 /\ n >= fill)
      <4>1. first = 0 /\ ~(first > 0)
        BY <3>2
      <4>2. LeftAfter(left, first) = left
        BY <4>1 DEF LeftAfter
      <4>3. rest = x
        BY <4>1, <1>2
      <4>4. mid = << >> \o WholeBlocks(x) /\ held = CopyTo(buf, left, Leftover(x))
        BY <4>1, <4>2, <4>3, Zenon
      <4>5. buf = CopyTo(ctx.buffer, left, SubSeq(x, 1, 0))
        BY <4>1, Zenon
      <4> HIDE DEF first, mid, held, buf
      <4>6. Len(l) = 0 \/ Len(x) < Block - Len(l)
        <5> HIDE DEF left
        <5> QED BY <3>2, <1>2, <1>3, <1>4
      <4>7. /\ << >> \o WholeBlocks(x) = WholeBlocks(l \o x)
            /\ Holds(CopyTo(CopyTo(ctx.buffer, Len(l), SubSeq(x, 1, 0)), Len(l), Leftover(x)), Leftover(l \o x))
        BY <4>6, <1>1, <1>3, UpdateKeeps, Zenon
      <4> QED BY <4>4, <4>5, <4>7, <1>4, Zenon
    <3> QED BY <3>1, <3>2
  <2> HIDE DEF mid, held, low, high, u
  <2>4. Processed(ctx.blocks, mid) = WholeBlocks(m) \o mid
    <3>1. WholeBlocks(m) \in Seq(BlockOf)
      BY <1>1, BlocksFacts
    <3>2. l \o x \in Seq(Nat)
      BY <1>3
    <3>3. mid \in Seq(BlockOf)
      BY <2>3, <3>2, BlocksFacts
    <3> QED BY <1>1, <3>1, <3>3, ProcessedAll, Zenon
  <2>5. WholeBlocks(m \o x) = WholeBlocks(m) \o mid /\ Leftover(m \o x) = Leftover(l \o x)
    BY <1>1, <2>3, BlocksExtend, Zenon
  <2>6. u.total = Total(Len(m \o x)) /\ u.blocks = WholeBlocks(m \o x) /\ u.buffer = held
    BY <2>1, <2>2, <2>4, <2>5, <1>5
  <2> QED BY <1>5, <2>3, <2>5, <2>6, Zenon DEF Absorbed, u
<1> QED BY <1>6, <1>7

\* What one call of sha256_update takes: its length is a word.
Chunk == {c \in Seq(Nat) : Len(c) < Word}

\* A new context has taken in nothing.
LEMMA StartsAbsorbed == Absorbed(sha256_starts, << >>)
<1>1. << >> \in Seq(Nat) /\ Len(<< >>) = 0 /\ Len(<< >>) < Block
  BY NPUtilAssumption
<1>2. WholeBlocks(<< >>) = << >> /\ Leftover(<< >>) = << >>
  BY <1>1, NoBlock
<1>3. Total(0) = <<0, 0>>
  <2>1. Word \in Nat /\ 0 \in 0 .. Word - 1 /\ 0 * Word + 0 = 0
    BY WordFacts
  <2>2. 0 \div Word = 0 /\ 0 % Word = 0
    BY <2>1, DivModOf
  <2> QED BY <2>2 DEF Total
<1>4. Holds(sha256_starts.buffer, << >>)
  BY <1>1 DEF Holds
<1> QED BY <1>1, <1>2, <1>3, <1>4 DEF Absorbed, sha256_starts

Taken(chunks) == FoldLeft(sha256_update, sha256_starts, chunks)

\* By induction over the calls.
LEMMA ChunksAbsorbed ==
  \A chunks \in Seq(Chunk) : Absorbed(Taken(chunks), FlattenSeq(chunks))
<1> DEFINE S == {chunks \in Seq(Chunk) : Absorbed(Taken(chunks), FlattenSeq(chunks))}
<1>1. << >> \in S
  <2>1. Taken(<< >>) = sha256_starts
    BY FoldLeftEmpty DEF Taken
  <2>2. << >> \in Seq(Chunk)
    OBVIOUS
  <2> QED BY <2>1, <2>2, FlattenEmpty, StartsAbsorbed
<1>2. ASSUME NEW chunks \in S \cap Seq(Chunk), NEW x \in Chunk PROVE Append(chunks, x) \in S
  <2>1. chunks \in Seq(Chunk) /\ Absorbed(Taken(chunks), FlattenSeq(chunks))
    OBVIOUS
  <2> HIDE DEF S
  <2>2. x \in Seq(Nat) /\ Len(x) < Word
    BY DEF Chunk
  <2>3. Taken(Append(chunks, x)) = sha256_update(Taken(chunks), x)
    <3>1. Folds(sha256_update, sha256_starts, chunks, x)
      BY <2>1, FoldLeftAppend
    <3> QED BY <3>1 DEF Folds, Taken
  <2>4. FlattenSeq(Append(chunks, x)) = FlattenSeq(chunks) \o x
    <3>1. Chunk \subseteq Seq(Nat)
      BY DEF Chunk
    <3>2. chunks \in Seq(Seq(Nat))
      BY <2>1, <3>1, SeqSubset
    <3> QED BY <2>2, <3>2, FlattenAppend
  <2>5. Absorbed(Taken(Append(chunks, x)), FlattenSeq(Append(chunks, x)))
    BY <2>1, <2>2, <2>3, <2>4, UpdateAbsorbs
  <2>6. Append(chunks, x) \in Seq(Chunk)
    BY <2>1
  <2> QED BY <2>5, <2>6 DEF S
<1> HIDE DEF S
<1>3. Seq(Chunk) \subseteq S
  BY <1>1, <1>2, SeqInduction
<1> QED BY <1>3 DEF S

\* The two words of the length in bits.
LEMMA LengthWords ==
  ASSUME NEW L \in Nat
  PROVE  /\ msglen(Total(L)) = <<((L * 8) \div Word) % Word, (L * 8) % Word>>
         /\ msglen(Total(L)) \in Seq(Nat) /\ Len(msglen(Total(L))) = 2
<1>0. Word \in Nat /\ Word > 0 /\ Word % 8 = 0
  BY NPUtilAssumption
<1> DEFINE e == Word \div 8
<1>1. e \in Nat /\ Word = 8 * e /\ e > 0
  BY <1>0
<1>2. PICK h \in Nat, t \in 0 .. Word - 1 : L = h * Word + t /\ h = L \div Word /\ t = L % Word
  BY <1>0, DivMod
<1>3. PICK g \in Nat, s \in 0 .. Word - 1 : h = g * Word + s /\ s = h % Word
  BY <1>0, DivMod
<1> HIDE DEF e
<1>4. PICK a \in Nat, r \in 0 .. e - 1 : t = a * e + r /\ a = t \div e /\ r = t % e
  BY <1>1, DivMod
<1>5. PICK b \in Nat, v \in 0 .. e - 1 : s = b * e + v /\ b = s \div e /\ v = s % e
  BY <1>1, DivMod
<1>6. a < 8
  <2>1. CASE a >= 8
    <3>1. PICK d \in Nat : a = 8 + d
      BY <2>1
    <3>2. a * e = 8 * e + d * e /\ d * e \in Nat
      BY <1>1, <3>1
    <3>3. PICK k \in Nat : k = d * e
      BY <3>2
    <3>4. t = (Word + k) + r
      <4>1. t = (8 * e + k) + r
        BY <1>4, <3>2, <3>3, Zenon
      <4> QED BY <1>1, <4>1
    <3> QED BY <1>0, <3>4
  <2> QED BY <2>1
<1>7. 8 * t = a * Word + 8 * r /\ 8 * r \in 0 .. Word - 1
  <2>1. 8 * (a * e) = a * (8 * e)
    BY <1>1
  <2>2. 8 * t = 8 * (a * e) + 8 * r
    BY <1>1, <1>4
  <2> QED BY <1>1, <2>1, <2>2
<1>8. 8 * s = b * Word + 8 * v /\ 8 * v \in 0 .. Word - 1 /\ 8 * v + a \in 0 .. Word - 1
  <2>1. 8 * (b * e) = b * (8 * e)
    BY <1>1
  <2>2. 8 * s = 8 * (b * e) + 8 * v
    BY <1>1, <1>5
  <2>3. 8 * v \in 0 .. Word - 1 /\ 8 * v + a \in 0 .. Word - 1
    BY <1>1, <1>6
  <2> QED BY <1>1, <2>1, <2>2, <2>3
<1>9. L * 8 = (8 * h + a) * Word + 8 * r
  <2>1. PICK k \in Nat : k = h * Word
    BY <1>0
  <2>2. (8 * h + a) * Word = 8 * k + a * Word
    <3>1. (8 * h + a) * Word = 8 * (h * Word) + a * Word
      BY <1>0
    <3> QED BY <2>1, <3>1
  <2>3. L = k + t
    BY <1>2, <2>1
  <2>4. a * Word \in Nat
    BY <1>0
  <2>5. L * 8 = 8 * k + 8 * t
    BY <2>3
  <2> QED BY <1>7, <2>2, <2>4, <2>5
<1>10. 8 * h + a = (8 * g + b) * Word + (8 * v + a)
  <2>1. PICK k \in Nat : k = g * Word
    BY <1>0
  <2>2. (8 * g + b) * Word = 8 * k + b * Word
    <3>1. (8 * g + b) * Word = 8 * (g * Word) + b * Word
      BY <1>0
    <3> QED BY <2>1, <3>1
  <2>3. h = k + s
    BY <1>3, <2>1
  <2>4. PICK p \in Nat : p = b * Word
    BY <1>0
  <2>5. 8 * h = 8 * k + 8 * s
    BY <2>3
  <2>6. (8 * g + b) * Word = 8 * k + p /\ 8 * s = p + 8 * v
    BY <1>8, <2>2, <2>4, Zenon
  <2>7. PICK q : q = (8 * g + b) * Word
    OBVIOUS
  <2>8. q = 8 * k + p
    BY <2>6, <2>7
  <2>9. 8 * h + a = q + (8 * v + a)
    BY <2>5, <2>6, <2>8
  <2> QED BY <2>7, <2>9
<1>11. (L * 8) \div Word = 8 * h + a /\ (L * 8) % Word = 8 * r
  <2>1. PICK n \in Nat, z \in 0 .. Word - 1 : n = 8 * h + a /\ z = 8 * r
    BY <1>7
  <2>2. (n * Word + z) \div Word = n /\ (n * Word + z) % Word = z
    BY <1>0, DivModOf, Zenon
  <2> QED BY <1>9, <2>1, <2>2, Zenon
<1>12. (8 * h + a) % Word = 8 * v + a
  <2>1. PICK n \in Nat, z \in 0 .. Word - 1 : n = 8 * g + b /\ z = 8 * v + a
    BY <1>8
  <2>2. (n * Word + z) % Word = z
    BY <1>0, DivModOf, Zenon
  <2> QED BY <1>10, <2>1, <2>2, Zenon
<1>13. (8 * t) % Word = 8 * r /\ (8 * s) % Word = 8 * v
  <2>1. PICK y \in 0 .. Word - 1, z \in 0 .. Word - 1 : y = 8 * r /\ z = 8 * v
    BY <1>7, <1>8
  <2>2. (a * Word + y) % Word = y /\ (b * Word + z) % Word = z
    BY <1>0, DivModOf, Zenon
  <2> QED BY <1>7, <1>8, <2>1, <2>2, Zenon
<1>14. t * 8 = 8 * t /\ s * 8 = 8 * s
  OBVIOUS
<1>15. Total(L) = <<t, s>>
  BY <1>2, <1>3, Zenon DEF Total
<1>16. msglen(Total(L)) = <<a + 8 * v, 8 * r>>
  <2>1. msglen(<<t, s>>) = <<(t \div e) + ((s * 8) % Word), (t * 8) % Word>>
    BY DEF msglen, e
  <2>2. t \div e = a /\ (s * 8) % Word = 8 * v /\ (t * 8) % Word = 8 * r
    BY <1>4, <1>13, <1>14, Zenon
  <2> QED BY <1>15, <2>1, <2>2, Zenon
<1>17. a + 8 * v = 8 * v + a /\ a + 8 * v \in Nat /\ 8 * r \in Nat
  OBVIOUS
<1>18. <<a + 8 * v, 8 * r>> = <<((L * 8) \div Word) % Word, (L * 8) % Word>>
  BY <1>11, <1>12, <1>17, Zenon
<1>19. \A p, q \in Nat : <<p, q>> \in Seq(Nat) /\ Len(<<p, q>>) = 2
  OBVIOUS
<1> QED BY <1>16, <1>17, <1>18, <1>19, Zenon

\* The zeros of the padded message are those that PadLength leaves room for.
LEMMA PaddingLength ==
  ASSUME NEW L \in Nat
  PROVE  LET p == PadLength(L % Block)
         IN  /\ p \in 1 .. Block
             /\ \A z \in 0 .. Block - 1 : (L + 1 + z + LenBytes) % Block = 0 <=> z = p - 1
<1> DEFINE r == L % Block
           q == L \div Block
           p == PadLength(r)
<1>0. Block \in Nat /\ Block > 2 /\ LenBytes = 2
  BY NPUtilAssumption DEF LenBytes
<1>1. q \in Nat /\ r \in 0 .. Block - 1 /\ L = q * Block + r
  BY <1>0, DivMod
<1> HIDE DEF q, r
<1>2. PICK Q \in Nat : Q = q * Block
  BY <1>0, <1>1
<1>3. \/ r + p = Block - 2 /\ r < Block - 2 /\ p \in 1 .. Block
      \/ r + p = 2 * Block - 2 /\ r >= Block - 2 /\ p \in 1 .. Block
  BY <1>0, <1>1 DEF PadLength
<1> HIDE DEF p
<1>4. ASSUME NEW z \in 0 .. Block - 1
      PROVE  (L + 1 + z + LenBytes) % Block = 0 <=> z = p - 1
  <2> DEFINE x == L + 1 + z + LenBytes
  <2>0. x = Q + (r + z + 3)
    BY <1>0, <1>1, <1>2
  <2>1. CASE r + z + 3 < Block
    <3>1. PICK k \in 0 .. Block - 1 : k = r + z + 3 /\ k > 0
      BY <1>0, <1>1, <2>1
    <3>2. x = q * Block + k
      BY <2>0, <1>2, <3>1
    <3>3. x % Block = k
      BY <1>0, <1>1, <3>2, DivModOf
    <3>4. z # p - 1
      BY <1>0, <1>1, <1>3, <2>1
    <3> QED BY <3>1, <3>3, <3>4
  <2>2. CASE r + z + 3 >= Block /\ r + z + 3 < 2 * Block
    <3>1. PICK k \in 0 .. Block - 1 : r + z + 3 = Block + k
      <4>1. (r + z + 3) - Block \in 0 .. Block - 1 /\ r + z + 3 = Block + ((r + z + 3) - Block)
        BY <1>0, <1>1, <2>2
      <4> QED BY <4>1
    <3>2. (q + 1) * Block = Q + Block /\ q + 1 \in Nat
      BY <1>0, <1>1, <1>2
    <3>3. x = (q + 1) * Block + k
      BY <2>0, <3>1, <3>2, <1>0
    <3>4. x % Block = k
      <4>1. PICK w \in Nat : w = q + 1
        BY <3>2
      <4>2. (w * Block + k) % Block = k
        BY <1>0, DivModOf, Zenon
      <4> QED BY <3>3, <4>1, <4>2, Zenon
    <3>5. k = 0 <=> z = p - 1
      BY <1>0, <1>1, <1>3, <3>1
    <3> QED BY <3>4, <3>5
  <2>3. CASE r + z + 3 >= 2 * Block
    <3>1. PICK k \in 0 .. Block - 1 : r + z + 3 = 2 * Block + k
      <4>1. (r + z + 3) - 2 * Block \in 0 .. Block - 1
            /\ r + z + 3 = 2 * Block + ((r + z + 3) - 2 * Block)
        BY <1>0, <1>1, <2>3
      <4> QED BY <4>1
    <3>2. (q + 2) * Block = Q + 2 * Block /\ q + 2 \in Nat
      BY <1>0, <1>1, <1>2
    <3>3. x = (q + 2) * Block + k
      BY <2>0, <3>1, <3>2, <1>0
    <3>4. x % Block = k
      <4>1. PICK w \in Nat : w = q + 2
        BY <3>2
      <4>2. (w * Block + k) % Block = k
        BY <1>0, DivModOf, Zenon
      <4> QED BY <3>3, <4>1, <4>2, Zenon
    <3>5. k = 0 <=> z = p - 1
      BY <1>0, <1>1, <1>3, <3>1
    <3> QED BY <3>4, <3>5
  <2> QED BY <1>0, <1>1, <2>1, <2>2, <2>3
<1>5. p \in 1 .. Block
  BY <1>3
<1> QED BY <1>4, <1>5 DEF p, r

\* A message with the padding and the length behind it is the padded message.
LEMMA PaddedRight ==
  ASSUME NEW m \in Seq(Nat)
  PROVE  LET pad == SubSeq(sha256_padding, 1, PadLength(Len(m) % Block))
             len == msglen(Total(Len(m)))
         IN  /\ pad \in Seq(Nat) /\ Len(pad) < Word
             /\ len \in Seq(Nat) /\ Len(len) < Word
             /\ (m \o pad) \o len = Padded(m)
<1> DEFINE L == Len(m)
           p == PadLength(L % Block)
           pad == SubSeq(sha256_padding, 1, p)
           len == msglen(Total(L))
           zeros == CHOOSE z \in 0 .. Block - 1 : (L + 1 + z + LenBytes) % Block = 0
           zs == [i \in 1 .. zeros |-> 0]
<1>0. L \in Nat /\ Block \in Nat /\ Block > 2 /\ Word \in Nat /\ Word > Block
  BY NPUtilAssumption
<1>1. p \in 1 .. Block /\ \A z \in 0 .. Block - 1 : (L + 1 + z + LenBytes) % Block = 0 <=> z = p - 1
  BY <1>0, PaddingLength
<1>2. /\ len = <<((L * 8) \div Word) % Word, (L * 8) % Word>>
      /\ len \in Seq(Nat) /\ Len(len) = 2
  BY <1>0, LengthWords
<1> HIDE DEF p, len, L
<1>3. zeros = p - 1
  <2>1. p - 1 \in 0 .. Block - 1
    BY <1>0, <1>1
  <2> QED BY <1>1, <2>1
<1> HIDE DEF zeros
<1>4. sha256_padding \in Seq(Nat) /\ Len(sha256_padding) = Block
      /\ \A i \in 1 .. Block : sha256_padding[i] = IF i = 1 THEN 128 ELSE 0
  <2>1. sha256_padding \in [1 .. Block -> Nat]
    BY DEF sha256_padding
  <2>2. sha256_padding \in Seq(Nat) /\ Len(sha256_padding) = Block
    BY <1>0, <2>1, FunctionIsSeq
  <2> QED BY <2>2 DEF sha256_padding
<1>5. pad \in Seq(Nat) /\ Len(pad) = p /\ \A i \in 1 .. p : pad[i] = sha256_padding[i]
  BY <1>0, <1>1, <1>4, SliceFront
<1> HIDE DEF pad
<1>6. zs \in Seq(Nat) /\ Len(zs) = p - 1 /\ \A i \in 1 .. p - 1 : zs[i] = 0
  <2>1. p - 1 \in Nat
    BY <1>0, <1>1
  <2>2. zs \in [1 .. p - 1 -> Nat]
    BY <1>3
  <2>3. \A i \in 1 .. p - 1 : zs[i] = 0
    BY <1>3
  <2> HIDE DEF zs
  <2> QED BY <2>1, <2>2, <2>3, FunctionIsSeq
<1> HIDE DEF zs
<1>7. <<128>> \o zs = pad
  <2> DEFINE y == <<128>> \o zs
  <2>1. y \in Seq(Nat) /\ Len(y) = p /\ y[1] = 128 /\ \A i \in 2 .. p : y[i] = 0
    <3>1. <<128>> \in Seq(Nat) /\ Len(<<128>>) = 1 /\ <<128>>[1] = 128
      OBVIOUS
    <3>2. y \in Seq(Nat) /\ Joins(<<128>>, zs, y)
      BY <1>6, <3>1, ConcatJoins, Zenon
    <3>3. Len(y) = 1 + (p - 1) /\ y[1] = 128 /\ \A i \in 1 .. p - 1 : y[1 + i] = 0
      <4> HIDE DEF y
      <4>1. 1 \in 1 .. 1
        OBVIOUS
      <4> QED BY <1>6, <3>1, <3>2, <4>1 DEF Joins
    <3> HIDE DEF y
    <3>4. ASSUME NEW i \in 2 .. p PROVE y[i] = 0
      <4>1. i - 1 \in 1 .. p - 1 /\ 1 + (i - 1) = i
        BY <1>0, <1>1
      <4>2. y[1 + (i - 1)] = 0
        BY <3>3, <4>1
      <4> QED BY <4>1, <4>2
    <3> QED BY <1>0, <1>1, <3>2, <3>3, <3>4
  <2> HIDE DEF y
  <2>2. ASSUME NEW i \in 1 .. p PROVE y[i] = pad[i]
    <3>1. i \in 1 .. Block /\ (i = 1 \/ i \in 2 .. p)
      BY <1>0, <1>1
    <3>2. pad[i] = IF i = 1 THEN 128 ELSE 0
      BY <1>4, <1>5, <3>1
    <3> QED BY <2>1, <3>1, <3>2
  <2>3. y = pad
    BY <1>5, <2>1, <2>2, SameSeq
  <2> QED BY <2>3 DEF y
<1>8. Padded(m) = ((m \o <<128>>) \o zs) \o len
  BY <1>2, Zenon DEF Padded, zs, zeros, L
<1>9. (m \o <<128>>) \o zs = m \o pad
  <2>1. <<128>> \in Seq(Nat)
    OBVIOUS
  <2>2. Associates(m, <<128>>, zs)
    BY <1>6, <2>1, AssociatesAlways, Zenon
  <2> QED BY <1>7, <2>2, Zenon DEF Associates
<1>10. Len(pad) < Word /\ Len(len) < Word
  BY <1>0, <1>1, <1>2, <1>5
<1> QED BY <1>2, <1>5, <1>8, <1>9, <1>10, Zenon DEF pad, p, len, L

\* sha256_finish has compressed the padded message.
LEMMA FinishPads ==
  ASSUME NEW ctx, NEW m, Absorbed(ctx, m)
  PROVE  sha256_finish(ctx) = WholeBlocks(Padded(m))
<1> DEFINE pad == SubSeq(sha256_padding, 1, PadLength(Len(m) % Block))
           len == msglen(Total(Len(m)))
           c == sha256_update(ctx, pad)
           d == sha256_update(c, len)
<1>1. m \in Seq(Nat) /\ ctx.total = Total(Len(m))
  BY DEF Absorbed
<1>2. ctx.total[1] % Block = Len(m) % Block
  <2>1. Len(m) \in Nat
    BY <1>1
  <2>2. ctx.total[1] = Len(m) % Word
    BY <1>1 DEF Total
  <2> QED BY <2>1, <2>2, WordFacts
<1>3. sha256_finish(ctx) = d.blocks
  BY <1>1, <1>2, Zenon DEF sha256_finish
<1>4. /\ pad \in Seq(Nat) /\ Len(pad) < Word
      /\ len \in Seq(Nat) /\ Len(len) < Word
      /\ (m \o pad) \o len = Padded(m)
  BY <1>1, PaddedRight
<1> HIDE DEF pad, len
<1>5. Absorbed(c, m \o pad)
  BY <1>4, UpdateAbsorbs, Zenon
<1> HIDE DEF c
<1>6. Absorbed(d, (m \o pad) \o len)
  BY <1>4, <1>5, UpdateAbsorbs, Zenon
<1> QED BY <1>3, <1>4, <1>6, Zenon DEF Absorbed

\* For every message and every way to cut it into calls of sha256_update, each shorter than a
\* word counts: the blocks that are compressed are those of the padded message
\* (NPUtil.cpp:856, NPUtil.cpp:903).
THEOREM EveryCutStreams ==
  \A chunks \in Seq(Chunk) : Sha256Streams(chunks)
<1> TAKE chunks \in Seq(Chunk)
<1> DEFINE m == FlattenSeq(chunks)
<1>1. Absorbed(Taken(chunks), m)
  BY ChunksAbsorbed
<1>2. sha256_finish(Taken(chunks)) = WholeBlocks(Padded(m))
  BY <1>1, FinishPads
<1>3. ASSUME Len(m) < Word PROVE GoSha256(m) = WholeBlocks(Padded(m))
  <2>1. m \in Seq(Nat)
    BY <1>1 DEF Absorbed
  <2> HIDE DEF m
  <2>2. Absorbed(sha256_update(sha256_starts, m), << >> \o m)
    BY <1>3, <2>1, StartsAbsorbed, UpdateAbsorbs
  <2>3. << >> \o m = m
    BY <2>1
  <2> QED BY <2>2, <2>3, FinishPads DEF GoSha256
<1> QED BY <1>2, <1>3 DEF Sha256Streams, Taken

(***************************************************************************)
(* The clients                                                             *)
(***************************************************************************)
\* What can be typed: bytes other than NUL.
Typed == Nat \ {NUL}

\* Min of the community modules.
LEMMA MinIs ==
  ASSUME NEW s \in SUBSET Nat, NEW k \in s, \A y \in s : k <= y
  PROVE  Min(s) = k
<1>1. \E x \in s : \A y \in s : x <= y
  OBVIOUS
<1>2. Min(s) \in s /\ \A y \in s : Min(s) <= y
  BY <1>1, Zenon DEF Min
<1>3. Min(s) <= k /\ k <= Min(s) /\ Min(s) \in Nat
  BY <1>2
<1> QED BY <1>3

\* Where the line ends, or 0.
LEMMA NewlineAt ==
  ASSUME NEW stdin \in Seq(Typed)
  PROVE  SelectInSeq(stdin, LAMBDA c : c = Newline) \in 0 .. Len(stdin)
<1> DEFINE I == {i \in 1 .. Len(stdin) : stdin[i] = Newline}
<1>1. SelectInSeq(stdin, LAMBDA c : c = Newline) = IF I # {} THEN Min(I) ELSE 0
  BY DEF SelectInSeq
<1>2. ASSUME I # {} PROVE Min(I) \in 1 .. Len(stdin)
  <2>1. I \in SUBSET Nat /\ I \subseteq 1 .. Len(stdin)
    OBVIOUS
  <2> HIDE DEF I
  <2>2. PICK m \in I : \A k \in I : m <= k
    BY <1>2, <2>1, Least
  <2>3. Min(I) = m
    BY <2>1, <2>2, MinIs
  <2> QED BY <2>1, <2>3
<1> HIDE DEF I
<1>3. Len(stdin) \in Nat
  OBVIOUS
<1> QED BY <1>1, <1>2, <1>3

\* fgets takes the input apart, and takes something of it.
LEMMA FgetsFacts ==
  ASSUME NEW stdin \in Seq(Typed), NEW n \in Nat, n > 1
  PROVE  LET line == fgets(stdin, n)
         IN  /\ line.text \in Seq(Typed) /\ line.rest \in Seq(Typed)
             /\ line.text \o line.rest = stdin
             /\ Len(line.text) <= n - 1
             /\ stdin # << >> => Len(line.text) >= 1 /\ Len(line.rest) < Len(stdin)
             /\ Len(line.rest) <= Len(stdin)
<1> DEFINE nl == SelectInSeq(stdin, LAMBDA c : c = Newline)
           k == IF nl = 0 \/ nl > n - 1 THEN n - 1 ELSE nl
           L == Len(stdin)
           j == IF k < L THEN k ELSE L
           text == SubSeq(stdin, 1, j)
           rest == SubSeq(stdin, k + 1, L)
           cut == SubSeq(stdin, j + 1, L)
<1>0. L \in Nat
  OBVIOUS
<1>1. nl \in 0 .. L
  BY NewlineAt
<1>2. fgets(stdin, n) = [text |-> text, rest |-> rest]
  BY Zenon DEF fgets
<1> HIDE DEF nl
<1>3. k \in 1 .. n - 1
  BY <1>1, <1>0
<1> HIDE DEF k
<1>4. j \in Nat /\ j <= L /\ j <= n - 1 /\ (L > 0 => j >= 1)
  BY <1>0, <1>3
<1>5. rest = cut
  <2>1. CASE k < L
    BY <2>1
  <2>2. CASE ~(k < L)
    <3>1. rest = << >> /\ cut = << >>
      BY <1>0, <1>3, <2>2
    <3> QED BY <3>1
  <2> QED BY <2>1, <2>2
<1> HIDE DEF j, rest
<1>6. text \in Seq(Typed) /\ Len(text) = j
  BY <1>4, SliceFront
<1>7. cut \in Seq(Typed) /\ Len(cut) = L - j
  BY <1>4, SliceRest
<1>8. text \o cut = stdin
  BY <1>4, CutSeq
<1> HIDE DEF text, cut
<1>9. stdin # << >> => L > 0
  OBVIOUS
<1>10. (stdin # << >> => Len(text) >= 1 /\ Len(rest) < L) /\ Len(rest) <= L
  <2> HIDE DEF L
  <2> QED BY <1>0, <1>4, <1>5, <1>6, <1>7, <1>9
<1>11. Len(text) <= n - 1
  BY <1>4, <1>6
<1>12. text \o rest = stdin /\ rest \in Seq(Typed)
  BY <1>5, <1>7, <1>8
<1>13. fgets(stdin, n).text = text /\ fgets(stdin, n).rest = rest
  BY <1>2
<1> QED BY <1>6, <1>10, <1>11, <1>12, <1>13

\* A message as send_message puts it together.
Messages(prompt) ==
  {x \in Seq(Nat) : \E t \in Seq(Typed) : Len(t) \in 1 .. MESSAGE_BUFFER - 1 /\ x = (prompt \o t) \o <<NUL>>}

TextOf(prompt, x) == SubSeq(x, Len(prompt) + 1, Len(x) - 1)

\* A text that ends with its only NUL.
Terminated(x) ==
  /\ x \in Seq(Nat) /\ Len(x) >= 1
  /\ x[Len(x)] = NUL
  /\ \A i \in 1 .. Len(x) - 1 : x[i] # NUL

\* The parts of a message.
LEMMA MessageFacts ==
  ASSUME NEW prompt \in Seq(Typed), NEW t \in Seq(Typed), Len(t) \in 1 .. MESSAGE_BUFFER - 1
  PROVE  LET x == (prompt \o t) \o <<NUL>>
         IN  /\ x \in Messages(prompt) /\ TextOf(prompt, x) = t
             /\ Len(x) = Len(prompt) + Len(t) + 1
             /\ IsPrefix(prompt, x) /\ Terminated(x)
<1> DEFINE a == Len(prompt)
           b == Len(t)
           y == prompt \o t
           z == <<NUL>>
           x == y \o z
<1>0. a \in Nat /\ b \in Nat /\ MESSAGE_BUFFER \in Nat
  BY ClientAssumption
<1>1. /\ y \in Seq(Typed) /\ Len(y) = a + b
      /\ \A i \in 1 .. a : y[i] = prompt[i]
      /\ \A i \in 1 .. b : y[a + i] = t[i]
  BY ConcatFacts
<1>2. Typed \subseteq Nat
  BY DEF Typed
<1>3. y \in Seq(Nat) /\ z \in Seq(Nat) /\ Len(z) = 1 /\ z[1] = NUL
  <2>1. y \in Seq(Nat)
    BY <1>1, <1>2, SeqSubset
  <2>2. NUL \in Nat
    BY DEF NUL
  <2> HIDE DEF y
  <2> QED BY <2>1, <2>2
<1>4. \A i \in 1 .. a + b : y[i] # NUL
  <2> SUFFICES ASSUME NEW i \in 1 .. a + b PROVE y[i] # NUL
    OBVIOUS
  <2>1. y[i] \in Typed
    BY <1>1, ElementOf
  <2> QED BY <2>1 DEF Typed
<1> HIDE DEF y, z
<1>5. /\ x \in Seq(Nat) /\ Len(x) = (a + b) + 1
      /\ \A i \in 1 .. a + b : x[i] = y[i]
      /\ x[(a + b) + 1] = NUL
  <2>1. x \in Seq(Nat) /\ Joins(y, z, x)
    BY <1>3, ConcatJoins, Zenon
  <2> HIDE DEF x
  <2>2. 1 \in 1 .. 1
    OBVIOUS
  <2> QED BY <1>1, <1>3, <2>1, <2>2 DEF Joins
<1> HIDE DEF x, a, b
<1>6. TextOf(prompt, x) = t
  <2> DEFINE u == SubSeq(x, a + 1, a + b)
  <2>1. u \in Seq(Nat) /\ Slices(x, a, b, u)
    <3>1. a + b <= Len(x)
      BY <1>0, <1>5
    <3> QED BY <1>0, <1>5, <3>1, SliceSlices, Zenon
  <2> HIDE DEF u
  <2>2. t \in Seq(Nat)
    BY <1>2, SeqSubset
  <2>3. ASSUME NEW i \in 1 .. b PROVE u[i] = t[i]
    <3>1. a + i \in 1 .. a + b
      BY <1>0
    <3> QED BY <3>1, <2>1, <1>1, <1>5 DEF Slices
  <2>4. u = t
    <3>1. Len(u) = b /\ Len(t) = b
      BY <2>1 DEF Slices, b
    <3> QED BY <2>1, <2>2, <2>3, <3>1, SameSeq
  <2>5. Len(x) - 1 = a + b
    BY <1>0, <1>5
  <2> QED BY <2>4, <2>5 DEF TextOf, u, a
<1>7. IsPrefix(prompt, x)
  <2> DEFINE v == SubSeq(x, 1, a)
  <2>1. v \in Seq(Nat) /\ Len(v) = a /\ \A i \in 1 .. a : v[i] = x[i]
    <3>1. a <= Len(x)
      BY <1>0, <1>5
    <3> QED BY <1>0, <1>5, <3>1, SliceFront
  <2> HIDE DEF v
  <2>2. prompt \in Seq(Nat) /\ Len(prompt) = a
    BY <1>2, SeqSubset DEF a
  <2>3. \A i \in 1 .. a : v[i] = prompt[i]
    <3>1. \A i \in 1 .. a : i \in 1 .. a + b
      BY <1>0
    <3> QED BY <3>1, <2>1, <1>1, <1>5
  <2>4. v = prompt
    BY <2>1, <2>2, <2>3, SameSeq
  <2>5. SubSeq(prompt, 1, Len(prompt)) = prompt
    OBVIOUS
  <2>6. Len(prompt) <= Len(x)
    BY <1>0, <1>5, <2>2
  <2> QED BY <2>2, <2>4, <2>5, <2>6, Zenon DEF IsPrefix, v
<1>8. Terminated(x)
  <2>1. Len(x) - 1 = a + b /\ Len(x) >= 1
    BY <1>0, <1>5
  <2> QED BY <1>4, <1>5, <2>1 DEF Terminated
<1>9. x \in Messages(prompt)
  BY <1>5 DEF Messages, x, y, z
<1>10. Len(x) = a + b + 1
  BY <1>0, <1>5
<1> QED BY <1>6, <1>7, <1>8, <1>9, <1>10 DEF x, y, z, a, b

TextsOf(prompt, sent) == FlattenSeq([i \in 1 .. Len(sent) |-> TextOf(prompt, sent[i])])

\* One more message.
LEMMA TextsOfAppend ==
  ASSUME NEW prompt \in Seq(Typed), NEW sent \in Seq(Messages(prompt)), NEW x \in Messages(prompt)
  PROVE  /\ TextsOf(prompt, sent) \in Seq(Typed)
         /\ TextOf(prompt, x) \in Seq(Typed)
         /\ TextsOf(prompt, Append(sent, x)) = TextsOf(prompt, sent) \o TextOf(prompt, x)
<1> DEFINE n == Len(sent)
           ts == [i \in 1 .. n |-> TextOf(prompt, sent[i])]
           longer == Append(sent, x)
           ls == [i \in 1 .. n + 1 |-> TextOf(prompt, longer[i])]
           as == Append(ts, TextOf(prompt, x))
<1>0. /\ n \in Nat /\ n + 1 \in Nat /\ longer \in Seq(Messages(prompt)) /\ Len(longer) = n + 1
      /\ longer[n + 1] = x /\ \A i \in 1 .. n : longer[i] = sent[i]
  BY AppendFacts
<1>t. ASSUME NEW y \in Messages(prompt) PROVE TextOf(prompt, y) \in Seq(Typed)
  <2>1. PICK t \in Seq(Typed) : Len(t) \in 1 .. MESSAGE_BUFFER - 1 /\ y = (prompt \o t) \o <<NUL>>
    BY DEF Messages
  <2> QED BY <2>1, MessageFacts
<1>1. ts \in [1 .. n -> Seq(Typed)]
  BY <1>t, ElementOf
<1>2. ls \in [1 .. n + 1 -> Seq(Typed)]
  <2> HIDE DEF longer, n
  <2>1. \A i \in 1 .. n + 1 : longer[i] \in Messages(prompt)
    BY <1>0, ElementOf
  <2> QED BY <2>1, <1>t
<1>3. \A i \in 1 .. n + 1 : ls[i] = TextOf(prompt, longer[i])
  OBVIOUS
<1>4. \A i \in 1 .. n : ts[i] = TextOf(prompt, sent[i])
  OBVIOUS
<1>5. TextsOf(prompt, sent) = FlattenSeq(ts) /\ TextsOf(prompt, longer) = FlattenSeq(ls)
  BY <1>0 DEF TextsOf
<1> HIDE DEF ts, ls, longer, n
<1>6. ts \in Seq(Seq(Typed)) /\ Len(ts) = n
  BY <1>0, <1>1, FunctionIsSeq
<1>7. ls \in Seq(Seq(Typed)) /\ Len(ls) = n + 1
  BY <1>0, <1>2, FunctionIsSeq
<1>8. TextOf(prompt, x) \in Seq(Typed)
  BY <1>t
<1>9. /\ as \in Seq(Seq(Typed)) /\ Len(as) = n + 1
      /\ (\A i \in 1 .. n : as[i] = ts[i]) /\ as[n + 1] = TextOf(prompt, x)
  BY <1>6, <1>8, AppendFacts
<1> HIDE DEF as
<1>10. ASSUME NEW i \in 1 .. n + 1 PROVE ls[i] = as[i]
  <2>1. i \in 1 .. n \/ i = n + 1
    BY <1>0
  <2> QED BY <2>1, <1>0, <1>3, <1>4, <1>9
<1>11. ls = as
  BY <1>7, <1>9, <1>10, SameSeq
<1>12. FlattenSeq(as) = FlattenSeq(ts) \o TextOf(prompt, x) /\ FlattenSeq(ts) \in Seq(Typed)
  BY <1>6, <1>8, FlattenAppend, FlattenType DEF as
<1> QED BY <1>5, <1>8, <1>11, <1>12 DEF longer

\* What has been typed is what has been sent and what is still to be read.
Sending(s, prompt, typed) ==
  /\ s \in [prompt : {prompt}, stdin : Seq(Typed), quit : BOOLEAN, sent : Seq(Messages(prompt))]
  /\ ~s.quit => TextsOf(prompt, s.sent) \o s.stdin = typed
  /\ s.quit => \E r \in Seq(Typed) : r # << >> /\ r[1] = Quit /\ TextsOf(prompt, s.sent) \o r = typed

\* Nothing sent.
LEMMA TextsOfNone ==
  TextsOf(<< >>, << >>) = << >> /\ \A prompt : TextsOf(prompt, << >>) = << >>
<1>1. ASSUME NEW prompt PROVE TextsOf(prompt, << >>) = << >>
  <2>1. [i \in 1 .. Len(<< >>) |-> TextOf(prompt, << >>[i])] = << >>
    OBVIOUS
  <2> QED BY <2>1, FlattenEmpty DEF TextsOf
<1> QED BY <1>1

\* One turn of the loop of send_message.
LEMMA SendOneNext ==
  ASSUME NEW prompt \in Seq(Typed), NEW typed, NEW s, Sending(s, prompt, typed), NEW turn
  PROVE  LET u == SendOne(s, turn)
         IN  /\ Sending(u, prompt, typed)
             /\ s.stdin = << >> \/ s.quit => u = s
             /\ s.stdin # << >> /\ ~s.quit => Len(u.stdin) < Len(s.stdin)
<1> DEFINE line == fgets(s.stdin, MESSAGE_BUFFER)
           u == SendOne(s, turn)
           x == (prompt \o line.text) \o <<NUL>>
<1>1. /\ s.prompt = prompt /\ s.stdin \in Seq(Typed) /\ s.quit \in BOOLEAN
      /\ s.sent \in Seq(Messages(prompt))
      /\ s = [prompt |-> s.prompt, stdin |-> s.stdin, quit |-> s.quit, sent |-> s.sent]
  BY DEF Sending
<1>2. CASE s.stdin = << >> \/ s.quit
  <2>1. u = s
    BY <1>2 DEF SendOne
  <2> QED BY <1>2, <2>1
<1>3. CASE s.stdin # << >> /\ ~s.quit
  <2>1. MESSAGE_BUFFER \in Nat /\ MESSAGE_BUFFER > 1
    BY ClientAssumption
  <2>2. /\ line.text \in Seq(Typed) /\ line.rest \in Seq(Typed)
        /\ line.text \o line.rest = s.stdin
        /\ Len(line.text) \in 1 .. MESSAGE_BUFFER - 1 /\ Len(line.rest) < Len(s.stdin)
    <3>1. /\ line.text \in Seq(Typed) /\ line.rest \in Seq(Typed)
          /\ line.text \o line.rest = s.stdin
          /\ Len(line.text) <= MESSAGE_BUFFER - 1
          /\ Len(line.text) >= 1 /\ Len(line.rest) < Len(s.stdin)
      BY <1>1, <1>3, <2>1, FgetsFacts
    <3> HIDE DEF line
    <3> QED BY <2>1, <3>1
  <2>3. TextsOf(prompt, s.sent) \o s.stdin = typed
    BY <1>3 DEF Sending
  <2>4. TextsOf(prompt, s.sent) \in Seq(Typed)
    <3>1. \E y : y \in Messages(prompt)
      BY <2>2, MessageFacts
    <3> QED BY <1>1, <3>1, TextsOfAppend
  <2>5. u = IF line.text[1] = Quit THEN [s EXCEPT !.quit = TRUE, !.stdin = line.rest]
            ELSE [s EXCEPT !.stdin = line.rest, !.sent = Append(@, x)]
    <3>1. u = IF line.text[1] = Quit THEN [s EXCEPT !.quit = TRUE, !.stdin = line.rest]
              ELSE [s EXCEPT !.stdin = line.rest, !.sent = Append(@, (s.prompt \o line.text) \o <<NUL>>)]
      BY <1>3, Zenon DEF SendOne
    <3> QED BY <1>1, <3>1, Zenon
  <2> HIDE DEF line, u
  <2>6. CASE line.text[1] = Quit
    <3>1. u = [prompt |-> prompt, stdin |-> line.rest, quit |-> TRUE, sent |-> s.sent]
      BY <1>1, <2>5, <2>6
    <3>2. s.stdin # << >> /\ s.stdin[1] = Quit
      BY <2>2, <2>6
    <3>3. /\ u \in [prompt : {prompt}, stdin : Seq(Typed), quit : BOOLEAN, sent : Seq(Messages(prompt))]
          /\ u.quit /\ u.sent = s.sent /\ u.stdin = line.rest
      BY <1>1, <2>2, <3>1
    <3>4. Sending(u, prompt, typed)
      BY <1>1, <2>3, <3>2, <3>3 DEF Sending
    <3> QED BY <1>3, <2>2, <3>3, <3>4 DEF u
  <2>7. CASE line.text[1] # Quit
    <3>1. u = [prompt |-> prompt, stdin |-> line.rest, quit |-> FALSE, sent |-> Append(s.sent, x)]
      <4> HIDE DEF x
      <4> QED BY <1>1, <1>3, <2>5, <2>7
    <3>2. x \in Messages(prompt) /\ TextOf(prompt, x) = line.text
      BY <2>2, MessageFacts
    <3> HIDE DEF x
    <3>3. Append(s.sent, x) \in Seq(Messages(prompt))
      BY <1>1, <3>2, AppendFacts
    <3>4. /\ u \in [prompt : {prompt}, stdin : Seq(Typed), quit : BOOLEAN, sent : Seq(Messages(prompt))]
          /\ ~u.quit /\ u.sent = Append(s.sent, x) /\ u.stdin = line.rest
      BY <2>2, <3>1, <3>3
    <3>5. TextsOf(prompt, u.sent) = TextsOf(prompt, s.sent) \o line.text
      <4>1. TextsOf(prompt, Append(s.sent, x)) = TextsOf(prompt, s.sent) \o TextOf(prompt, x)
        BY <1>1, <3>2, TextsOfAppend
      <4> QED BY <3>2, <3>4, <4>1, Zenon
    <3>6. (TextsOf(prompt, s.sent) \o line.text) \o line.rest = TextsOf(prompt, s.sent) \o s.stdin
      <4>1. Associates(TextsOf(prompt, s.sent), line.text, line.rest)
        BY <2>2, <2>4, AssociatesAlways, Zenon
      <4> QED BY <2>2, <4>1, Zenon DEF Associates
    <3>7. Sending(u, prompt, typed)
      BY <2>3, <3>4, <3>5, <3>6, Zenon DEF Sending
    <3> QED BY <1>3, <2>2, <3>4, <3>7 DEF u
  <2> QED BY <2>6, <2>7
<1> QED BY <1>2, <1>3

\* The loop of send_message.
LEMMA SendingAlways ==
  ASSUME NEW prompt \in Seq(Typed), NEW typed, NEW start, Sending(start, prompt, typed)
  PROVE  \A k \in Nat :
           LET s == FoldLeft(SendOne, start, Turns(k))
           IN  /\ Sending(s, prompt, typed)
               /\ s.stdin = << >> \/ s.quit \/ Len(s.stdin) + k <= Len(start.stdin)
<1> DEFINE S(k) == FoldLeft(SendOne, start, Turns(k))
           Right(s, k) == /\ Sending(s, prompt, typed)
                          /\ s.stdin = << >> \/ s.quit \/ Len(s.stdin) + k <= Len(start.stdin)
           T == {k \in Nat : Right(S(k), k)}
<1>0. \A s : Sending(s, prompt, typed) => s.stdin \in Seq(Typed)
  BY DEF Sending
<1>1. 0 \in T
  <2>1. S(0) = start
    BY TurnsNext, FoldLeftEmpty
  <2>2. start.stdin \in Seq(Typed)
    BY <1>0
  <2>3. Len(start.stdin) + 0 <= Len(start.stdin)
    BY <2>2
  <2> QED BY <2>1, <2>3
<1>2. ASSUME NEW k \in T PROVE k + 1 \in T
  <2>0. k \in Nat /\ k + 1 \in Nat /\ Right(S(k), k)
    OBVIOUS
  <2>1. Turns(k) \in Seq(Nat) /\ Turns(k + 1) = Append(Turns(k), k + 1)
    BY <2>0, TurnsNext
  <2>2. Folds(SendOne, start, Turns(k), k + 1)
    BY <2>0, <2>1, FoldLeftAppend
  <2>3. S(k + 1) = SendOne(S(k), k + 1)
    BY <2>1, <2>2 DEF Folds
  <2>4. PICK s : s = S(k)
    OBVIOUS
  <2>5. PICK u : u = SendOne(s, k + 1)
    OBVIOUS
  <2> HIDE DEF S
  <2>6. /\ Sending(u, prompt, typed)
        /\ s.stdin = << >> \/ s.quit => u = s
        /\ s.stdin # << >> /\ ~s.quit => Len(u.stdin) < Len(s.stdin)
    BY <2>0, <2>4, <2>5, SendOneNext, Zenon
  <2>7. s.stdin \in Seq(Typed) /\ u.stdin \in Seq(Typed) /\ start.stdin \in Seq(Typed)
    BY <1>0, <2>0, <2>4, <2>6
  <2>8. Len(s.stdin) \in Nat /\ Len(u.stdin) \in Nat /\ Len(start.stdin) \in Nat
    BY <2>7
  <2>9. Right(u, k + 1)
    <3>1. CASE s.stdin = << >> \/ s.quit
      BY <2>6, <3>1
    <3>2. CASE s.stdin # << >> /\ ~s.quit
      <4>1. Len(s.stdin) + k <= Len(start.stdin)
        BY <2>0, <2>4, <3>2
      <4>2. Len(u.stdin) + (k + 1) <= Len(start.stdin)
        <5>1. Len(u.stdin) < Len(s.stdin)
          BY <2>6, <3>2
        <5>2. PICK a \in Nat, b \in Nat, c \in Nat :
                a = Len(u.stdin) /\ b = Len(s.stdin) /\ c = Len(start.stdin)
          BY <2>8
        <5>3. a < b /\ b + k <= c
          BY <4>1, <5>1, <5>2
        <5>4. a + (k + 1) <= c
          BY <2>0, <5>3
        <5> QED BY <5>2, <5>4
      <4> QED BY <2>6, <4>2
    <3> QED BY <3>1, <3>2
  <2>10. u = S(k + 1)
    BY <2>3, <2>4, <2>5
  <2> HIDE DEF Right
  <2> QED BY <2>0, <2>9, <2>10
<1> HIDE DEF T
<1>3. T = Nat
  <2>1. T \in SUBSET Nat
    BY DEF T
  <2> QED BY <1>1, <1>2, <2>1, SetInduction
<1> QED BY <1>3 DEF T

\* The prompt is short.
LEMMA PromptFacts ==
  ASSUME NEW stdin \in Seq(Typed)
  PROVE  PromptOf(stdin) \in Seq(Typed) /\ Len(PromptOf(stdin)) <= USERNAME_BUFFER
<1> DEFINE name == fgets(stdin, USERNAME_BUFFER).text
           front == SubSeq(name, 1, Len(name) - 1)
<1>0. USERNAME_BUFFER \in Nat /\ USERNAME_BUFFER > 1
  BY ClientAssumption
<1>1. name \in Seq(Typed) /\ Len(name) <= USERNAME_BUFFER - 1
  BY <1>0, FgetsFacts
<1> HIDE DEF name
<1>2. front \in Seq(Typed) /\ Len(front) <= USERNAME_BUFFER - 2
  <2>1. CASE Len(name) = 0
    <3>1. front = << >>
      <4>1. Len(name) - 1 = -1 /\ SubSeq(name, 1, -1) = << >>
        BY <1>1, <2>1
      <4> QED BY <4>1
    <3>2. << >> \in Seq(Typed) /\ Len(<< >>) = 0 /\ 0 <= USERNAME_BUFFER - 2
      BY <1>0
    <3> HIDE DEF front
    <3> QED BY <3>1, <3>2
  <2>2. CASE Len(name) # 0
    <3>1. PICK n \in Nat : n = Len(name) - 1 /\ n <= Len(name)
      BY <1>1, <2>2
    <3>2. SubSeq(name, 1, n) \in Seq(Typed) /\ Len(SubSeq(name, 1, n)) = n
      BY <1>1, <3>1, SliceFront
    <3> QED BY <1>0, <1>1, <3>1, <3>2
  <2> QED BY <2>1, <2>2
<1> HIDE DEF front
<1>3. Prompt \in Seq(Typed) /\ Len(Prompt) = 2
  BY DEF Prompt, Typed, NUL
<1>4. front \o Prompt \in Seq(Typed) /\ Len(front \o Prompt) = Len(front) + 2
  <2>1. front \o Prompt \in Seq(Typed) /\ Joins(front, Prompt, front \o Prompt)
    BY <1>2, <1>3, ConcatJoins, Zenon
  <2> QED BY <1>3, <2>1 DEF Joins
<1>5. PromptOf(stdin) = front \o Prompt
  BY DEF PromptOf, front, name
<1>6. Len(front) \in Nat
  BY <1>2
<1> HIDE DEF front
<1> QED BY <1>0, <1>2, <1>4, <1>5, <1>6

\* What send_message has done when it ends.
LEMMA SentFacts ==
  ASSUME NEW stdin \in Seq(Typed)
  PROVE  LET sent   == send_message(stdin)
             prompt == PromptOf(stdin)
             typed  == fgets(stdin, USERNAME_BUFFER).rest
         IN  /\ sent \in Seq(Messages(prompt)) /\ typed \in Seq(Typed)
             /\ \E r \in Seq(Typed) : TextsOf(prompt, sent) \o r = typed /\ (r = << >> \/ r[1] = Quit)
<1> DEFINE prompt == PromptOf(stdin)
           typed == fgets(stdin, USERNAME_BUFFER).rest
           start == [prompt |-> prompt, stdin |-> typed, quit |-> FALSE, sent |-> << >>]
           n == Len(stdin)
           s == FoldLeft(SendOne, start, Turns(n))
<1>0. n \in Nat /\ USERNAME_BUFFER \in Nat /\ USERNAME_BUFFER > 1
  BY ClientAssumption
<1>1. prompt \in Seq(Typed)
  BY PromptFacts
<1>2. typed \in Seq(Typed) /\ Len(typed) <= n
  BY <1>0, FgetsFacts
<1>3. send_message(stdin) = s.sent
  BY Zenon DEF send_message, Turns
<1> HIDE DEF prompt, typed, n
<1>4. Sending(start, prompt, typed)
  <2>1. TextsOf(prompt, << >>) = << >> /\ << >> \o typed = typed /\ << >> \in Seq(Messages(prompt))
    BY <1>2, TextsOfNone
  <2> QED BY <1>2, <2>1 DEF Sending
<1>5. start.stdin = typed
  OBVIOUS
<1> HIDE DEF start
<1>6. /\ Sending(s, prompt, typed)
      /\ s.stdin = << >> \/ s.quit \/ Len(s.stdin) + n <= Len(typed)
  BY <1>0, <1>1, <1>4, <1>5, SendingAlways
<1> HIDE DEF s
<1>7. s.sent \in Seq(Messages(prompt)) /\ s.stdin \in Seq(Typed) /\ s.quit \in BOOLEAN
  BY <1>6 DEF Sending
<1>8. s.stdin = << >> \/ s.quit
  <2>1. Len(s.stdin) \in Nat /\ Len(typed) \in Nat /\ (Len(s.stdin) = 0 => s.stdin = << >>)
    BY <1>2, <1>7
  <2> QED BY <1>0, <1>2, <1>6, <2>1
<1>9. \E r \in Seq(Typed) : TextsOf(prompt, s.sent) \o r = typed /\ (r = << >> \/ r[1] = Quit)
  <2>1. CASE s.quit
    BY <1>6, <2>1 DEF Sending
  <2>2. CASE ~s.quit
    BY <1>6, <1>7, <1>8, <2>2 DEF Sending
  <2> QED BY <1>7, <2>1, <2>2
<1> QED BY <1>2, <1>3, <1>7, <1>9 DEF prompt, typed

\* For everything that can be typed: it is sent once and in its order, in messages that fit
\* and carry the prompt (chat_client.c:32).
THEOREM EverythingTypedSent == \A stdin \in Seq(Typed) : ClientSends(stdin)
<1> TAKE stdin \in Seq(Typed)
<1> DEFINE sent == send_message(stdin)
           prompt == PromptOf(stdin)
           typed == fgets(stdin, USERNAME_BUFFER).rest
           texts == FlattenSeq([i \in 1 .. Len(sent) |->
                      SubSeq(sent[i], Len(prompt) + 1, Len(sent[i]) - 1)])
           k == Len(texts)
<1>1. /\ sent \in Seq(Messages(prompt)) /\ typed \in Seq(Typed)
      /\ \E r \in Seq(Typed) : TextsOf(prompt, sent) \o r = typed /\ (r = << >> \/ r[1] = Quit)
  BY SentFacts
<1>2. prompt \in Seq(Typed) /\ Len(prompt) <= USERNAME_BUFFER
  BY PromptFacts
<1>3. texts = TextsOf(prompt, sent)
  BY DEF TextsOf, TextOf
<1>4. ClientSends(stdin) =
        (/\ texts = SubSeq(typed, 1, k)
         /\ k < Len(typed) => typed[k + 1] = Quit
         /\ \A i \in 1 .. Len(sent) :
              /\ Len(sent[i]) <= MESSAGE_BUFFER + USERNAME_BUFFER + 1
              /\ IsPrefix(prompt, sent[i]))
  BY Zenon DEF ClientSends
<1> HIDE DEF sent, prompt, typed, texts
<1>5. texts \in Seq(Typed)
  <2>1. CASE sent = << >>
    <3>1. texts = << >>
      BY <1>3, <2>1, TextsOfNone
    <3> QED BY <3>1
  <2>2. CASE sent # << >>
    <3>1. 1 \in 1 .. Len(sent)
      BY <1>1, <2>2
    <3>2. sent[1] \in Messages(prompt)
      BY <1>1, <3>1, ElementOf
    <3> QED BY <1>1, <1>2, <1>3, <3>2, TextsOfAppend
  <2> QED BY <2>1, <2>2
<1>6. PICK r \in Seq(Typed) : texts \o r = typed /\ (r = << >> \/ r[1] = Quit)
  BY <1>1, <1>3
<1>7. k \in Nat /\ Len(r) \in Nat
  BY <1>5
<1>8. /\ Len(typed) = k + Len(r)
      /\ (\A i \in 1 .. k : typed[i] = texts[i]) /\ \A i \in 1 .. Len(r) : typed[k + i] = r[i]
  BY <1>5, <1>6, ConcatFacts
<1>9. texts = SubSeq(typed, 1, k)
  <2> DEFINE f == SubSeq(typed, 1, k)
  <2>1. f \in Seq(Typed) /\ Len(f) = k /\ \A i \in 1 .. k : f[i] = typed[i]
    <3>1. k <= Len(typed)
      BY <1>7, <1>8
    <3> QED BY <1>1, <1>7, <3>1, SliceFront
  <2> HIDE DEF f
  <2>2. texts = f
    BY <1>5, <1>8, <2>1, SameSeq
  <2> QED BY <2>2 DEF f
<1>10. k < Len(typed) => typed[k + 1] = Quit
  <2> SUFFICES ASSUME k < Len(typed) PROVE typed[k + 1] = Quit
    OBVIOUS
  <2>1. r # << >> /\ 1 \in 1 .. Len(r)
    <3>1. Len(r) >= 1
      BY <1>7, <1>8
    <3> QED BY <1>7, <3>1
  <2> QED BY <1>6, <1>8, <2>1
<1>11. ASSUME NEW i \in 1 .. Len(sent)
       PROVE  Len(sent[i]) <= MESSAGE_BUFFER + USERNAME_BUFFER + 1 /\ IsPrefix(prompt, sent[i])
  <2>1. sent[i] \in Messages(prompt)
    BY <1>1, ElementOf
  <2>2. PICK t \in Seq(Typed) : Len(t) \in 1 .. MESSAGE_BUFFER - 1 /\ sent[i] = (prompt \o t) \o <<NUL>>
    BY <2>1 DEF Messages
  <2>3. Len(sent[i]) = Len(prompt) + Len(t) + 1 /\ IsPrefix(prompt, sent[i])
    BY <1>2, <2>2, MessageFacts
  <2>4. MESSAGE_BUFFER \in Nat /\ USERNAME_BUFFER \in Nat /\ Len(prompt) \in Nat
    BY <1>2, ClientAssumption
  <2> QED BY <1>2, <2>2, <2>3, <2>4
<1> QED BY <1>4, <1>9, <1>10, <1>11, Zenon

\* The first NUL of a buffer.
LEMMA ShownUpToNUL ==
  ASSUME NEW x, Terminated(x), NEW y \in Seq(Nat)
  PROVE  Shown(x \o y) = SubSeq(x, 1, Len(x) - 1)
<1> DEFINE b == x \o y
           I == {i \in 1 .. Len(b) : b[i] = NUL}
           n == Len(x)
<1>1. x \in Seq(Nat) /\ n >= 1 /\ x[n] = NUL /\ n \in Nat /\ \A i \in 1 .. n - 1 : x[i] # NUL
  BY DEF Terminated
<1>2. /\ b \in Seq(Nat) /\ Len(b) = n + Len(y) /\ Len(y) \in Nat
      /\ \A i \in 1 .. n : b[i] = x[i]
  BY <1>1, ConcatFacts
<1>3. SelectInSeq(b, LAMBDA c : c = NUL) = IF I # {} THEN Min(I) ELSE 0
  BY DEF SelectInSeq
<1>s. Shown(b) = LET k == SelectInSeq(b, LAMBDA c : c = NUL)
                 IN IF k > 0 THEN SubSeq(b, 1, k - 1)
                    ELSE IF Len(b) < MESSAGE_BUFFER THEN b ELSE Append(b, Unread)
  BY Zenon DEF Shown
<1> HIDE DEF b, n
<1>4. n \in I
  BY <1>1, <1>2
<1>5. I \in SUBSET Nat /\ \A i \in I : n <= i
  <2>1. ASSUME NEW i \in I, i < n PROVE FALSE
    <3>1. i \in 1 .. n - 1 /\ i \in 1 .. n /\ b[i] = NUL
      BY <1>1, <2>1
    <3> QED BY <1>1, <1>2, <3>1
  <2>2. I \in SUBSET Nat
    OBVIOUS
  <2> HIDE DEF I
  <2> QED BY <1>1, <2>1, <2>2
<1> HIDE DEF I
<1>6. Min(I) = n
  BY <1>4, <1>5, MinIs
<1>7. Shown(b) = SubSeq(b, 1, n - 1)
  <2>1. SelectInSeq(b, LAMBDA c : c = NUL) = n /\ n > 0
    BY <1>1, <1>3, <1>4, <1>6
  <2> QED BY <1>s, <2>1
<1>8. SubSeq(b, 1, n - 1) = SubSeq(x, 1, n - 1)
  <2>1. PICK m \in Nat : m = n - 1
    BY <1>1
  <2> DEFINE u == SubSeq(b, 1, m)
             v == SubSeq(x, 1, m)
  <2>2. m <= n /\ m <= Len(b) /\ n = Len(x)
    BY <1>1, <1>2, <2>1 DEF n
  <2>3. u \in Seq(Nat) /\ Len(u) = m /\ \A i \in 1 .. m : u[i] = b[i]
    BY <1>2, <2>2, SliceFront
  <2>4. v \in Seq(Nat) /\ Len(v) = m /\ \A i \in 1 .. m : v[i] = x[i]
    BY <1>1, <2>2, SliceFront
  <2> HIDE DEF u, v
  <2>5. \A i \in 1 .. m : u[i] = v[i]
    <3>1. \A i \in 1 .. m : i \in 1 .. n
      BY <1>1, <2>2
    <3> QED BY <1>2, <2>3, <2>4, <3>1
  <2>6. u = v
    BY <2>3, <2>4, <2>5, SameSeq
  <2> QED BY <2>1, <2>6 DEF u, v
<1> QED BY <1>7, <1>8 DEF b, n

\* A full buffer without NUL.
LEMMA ShownBeyond ==
  ASSUME NEW x \in Seq(Nat), Len(x) >= MESSAGE_BUFFER, \A i \in 1 .. Len(x) : x[i] # NUL
  PROVE  Last(Shown(x)) = Unread
<1> DEFINE I == {i \in 1 .. Len(x) : x[i] = NUL}
<1>1. SelectInSeq(x, LAMBDA c : c = NUL) = IF I # {} THEN Min(I) ELSE 0
  BY DEF SelectInSeq
<1>2. I = {}
  OBVIOUS
<1>3. SelectInSeq(x, LAMBDA c : c = NUL) = 0
  BY <1>1, <1>2
<1>4. Shown(x) = Append(x, Unread)
  <2>1. ~(Len(x) < MESSAGE_BUFFER) /\ ~(0 > 0)
    BY ClientAssumption
  <2> QED BY <1>3, <2>1, Zenon DEF Shown
<1>5. x \in Seq(Int) /\ Unread \in Int
  <2>1. Nat \subseteq Int
    OBVIOUS
  <2> QED BY <2>1, SeqSubset DEF Unread
<1>6. Len(Append(x, Unread)) = Len(x) + 1 /\ Append(x, Unread)[Len(x) + 1] = Unread
  BY <1>5, AppendFacts
<1> QED BY <1>4, <1>6 DEF Last

\* The definition of receive, for a step of the next lemma.
LEMMA ReceiveIs ==
  ASSUME NEW x
  PROVE  receive(x) =
           [i \in 1 .. (Len(x) + MESSAGE_BUFFER - 1) \div MESSAGE_BUFFER |->
              Shown(SubSeq(x, (i - 1) * MESSAGE_BUFFER + 1,
                           IF i * MESSAGE_BUFFER < Len(x) THEN i * MESSAGE_BUFFER ELSE Len(x)))]
BY DEF receive

\* What is received at once, and the first part of what is longer than the buffer.
LEMMA ReceiveFacts ==
  ASSUME NEW x \in Seq(Nat), Len(x) >= 1
  PROVE  /\ Len(x) <= MESSAGE_BUFFER => receive(x) = <<Shown(x)>>
         /\ Len(x) > MESSAGE_BUFFER => receive(x)[1] = Shown(SubSeq(x, 1, MESSAGE_BUFFER))
<1> DEFINE M == MESSAGE_BUFFER
           L == Len(x)
           q == (L + M - 1) \div M
           part(i) == SubSeq(x, (i - 1) * M + 1, IF i * M < L THEN i * M ELSE L)
<1>0. M \in Nat /\ M > 1 /\ L \in Nat /\ L >= 1
  BY ClientAssumption
<1>1. receive(x) = [i \in 1 .. q |-> Shown(part(i))]
  BY ReceiveIs
<1>2. q \in Nat /\ (L <= M => q = 1) /\ q >= 1
  <2> HIDE DEF L, M, q
  <2>1. PICK n \in Nat : n = L + M - 1 /\ n >= M
    BY <1>0
  <2>2. q = n \div M
    BY <2>1 DEF q
  <2>3. PICK r \in 0 .. M - 1 : n \div M \in Nat /\ n = (n \div M) * M + r
    <3>1. M > 0
      BY <1>0
    <3>2. n \div M \in Nat /\ n % M \in 0 .. M - 1 /\ n = (n \div M) * M + (n % M)
      BY <1>0, <3>1, DivMod, Zenon
    <3> QED BY <3>2, Zenon
  <2>4. q \in Nat /\ n = q * M + r
    BY <2>2, <2>3, Zenon
  <2>5. q >= 1
    <3>1. CASE q = 0
      <4>1. q * M = 0
        BY <1>0, <3>1
      <4>2. n = r
        BY <1>0, <2>3, <2>4, <4>1
      <4> QED BY <1>0, <2>1, <4>2
    <3> QED BY <2>4, <3>1
  <2>6. ASSUME L <= M PROVE q = 1
    <3>1. n < 2 * M
      BY <1>0, <2>1, <2>6
    <3>2. CASE q >= 2
      <4>1. PICK e \in Nat : q = 2 + e
        BY <2>4, <3>2
      <4>2. q * M = 2 * M + e * M /\ e * M \in Nat
        BY <1>0, <4>1
      <4>3. PICK z \in Nat : z = e * M
        BY <4>2
      <4>4. n = (2 * M + z) + r
        BY <2>4, <4>2, <4>3, Zenon
      <4> QED BY <1>0, <3>1, <4>4
    <3> QED BY <2>4, <2>5, <3>2
  <2> QED BY <2>4, <2>5, <2>6
<1> HIDE DEF q
<1>3. part(1) = SubSeq(x, 1, IF M < L THEN M ELSE L)
  <2>1. (1 - 1) * M + 1 = 1 /\ 1 * M = M
    BY <1>0
  <2> QED BY <2>1
<1>4. 1 \in 1 .. q
  BY <1>2
<1>5. receive(x)[1] = Shown(part(1))
  BY <1>1, <1>4
<1>6. ASSUME L <= M PROVE receive(x) = <<Shown(x)>>
  <2>1. part(1) = SubSeq(x, 1, L)
    <3>1. (IF M < L THEN M ELSE L) = L
      <4> HIDE DEF M, L
      <4> QED BY <1>0, <1>6
    <3> QED BY <1>3, <3>1, Zenon
  <2>2. SubSeq(x, 1, L) = x
    OBVIOUS
  <2>3. q = 1 /\ part(1) = x
    BY <1>2, <1>6, <2>1, <2>2
  <2> HIDE DEF part
  <2>4. receive(x) = [i \in 1 .. 1 |-> Shown(part(i))]
    BY <1>1, <2>3
  <2>5. \A i \in 1 .. 1 : i = 1
    OBVIOUS
  <2>6. \A i \in 1 .. 1 : Shown(part(i)) = Shown(x)
    BY <2>3, <2>5
  <2>7. [i \in 1 .. 1 |-> Shown(part(i))] = [i \in 1 .. 1 |-> Shown(x)]
    BY <2>6
  <2>8. \A v : [i \in 1 .. 1 |-> v] = <<v>>
    OBVIOUS
  <2> QED BY <2>4, <2>7, <2>8
<1>7. ASSUME L > M PROVE receive(x)[1] = Shown(SubSeq(x, 1, M))
  BY <1>0, <1>3, <1>5, <1>7
<1> QED BY <1>6, <1>7

\* For everything that can be typed: a message reaches the users of another server with all
\* its text, and is shown in full when it is received alone and fits (chat_client.c:60).
THEOREM EverythingSentShown == \A stdin \in Seq(Typed) : ClientShows(stdin)
<1> TAKE stdin \in Seq(Typed)
<1> DEFINE out == send_message(stdin)
           prompt == PromptOf(stdin)
           sent == Append(out, send_hi)
           got == Arrives(sent, 7)
           n == Len(sent)
           text == [i \in 1 .. n |-> SubSeq(sent[i], 1, Len(sent[i]) - 1)]
<1>1. out \in Seq(Messages(prompt)) /\ prompt \in Seq(Typed)
  BY SentFacts, PromptFacts
<1> DEFINE Fits == \A i \in 1 .. n : Len(sent[i]) <= MAX_MESSAGE_SIZE
<1>2. SUFFICES ASSUME Fits
               PROVE  /\ got = sent
                      /\ \A i \in 1 .. Len(got) :
                           IF Len(got[i]) <= MESSAGE_BUFFER THEN receive(got[i]) = <<text[i]>>
                           ELSE Last(receive(got[i])[1]) = Unread
                      /\ \A i \in 1 .. Len(got) - 1 :
                           Len(got[i] \o got[i + 1]) <= MESSAGE_BUFFER =>
                             receive(got[i] \o got[i + 1]) = <<text[i]>>
  BY Zenon DEF ClientShows
<1>3. Terminated(send_hi)
  <2>1. send_hi \in Seq(Nat) /\ Len(send_hi) = 3 /\ send_hi[3] = NUL /\ send_hi[1] = 104 /\ send_hi[2] = 105
    BY DEF send_hi, NUL
  <2>2. \A i \in 1 .. 2 : i = 1 \/ i = 2
    OBVIOUS
  <2>3. \A i \in 1 .. Len(send_hi) - 1 : send_hi[i] # NUL
    <3>1. Len(send_hi) - 1 = 2 /\ NUL # 104 /\ NUL # 105
      BY <2>1 DEF NUL
    <3> QED BY <2>1, <2>2, <3>1
  <2> QED BY <2>1, <2>3 DEF Terminated
<1> HIDE DEF out, prompt
<1>4. ASSUME NEW x \in Messages(prompt) PROVE Terminated(x)
  <2>1. PICK t \in Seq(Typed) : Len(t) \in 1 .. MESSAGE_BUFFER - 1 /\ x = (prompt \o t) \o <<NUL>>
    BY DEF Messages
  <2> QED BY <1>1, <2>1, MessageFacts
<1>5. sent \in Seq(Seq(Nat)) /\ n \in Nat /\ \A i \in 1 .. n : Terminated(sent[i])
  <2> DEFINE V == {x \in Seq(Nat) : Terminated(x)}
  <2>1. Messages(prompt) \subseteq V
    <3>1. Messages(prompt) \subseteq Seq(Nat)
      BY DEF Messages
    <3> QED BY <1>4, <3>1
  <2>2. send_hi \in V
    BY <1>3 DEF Terminated
  <2>3. V \subseteq Seq(Nat) /\ \A x \in V : Terminated(x)
    OBVIOUS
  <2> HIDE DEF V
  <2>4. out \in Seq(V)
    BY <1>1, <2>1, SeqSubset
  <2>5. sent \in Seq(V)
    BY <2>2, <2>4, AppendFacts
  <2> HIDE DEF sent
  <2>6. \A i \in 1 .. n : sent[i] \in V
    BY <2>5, ElementOf
  <2>7. sent \in Seq(Seq(Nat))
    BY <2>3, <2>5, SeqSubset
  <2> QED BY <2>3, <2>5, <2>6, <2>7
<1> HIDE DEF sent
<1>6. got = sent
  <2>1. DOMAIN sent = 1 .. n
    BY <1>5
  <2>2. \A i \in DOMAIN sent : Len(sent[i]) \in 1 .. MAX_MESSAGE_SIZE
    <3> SUFFICES ASSUME NEW i \in 1 .. n PROVE Len(sent[i]) \in 1 .. MAX_MESSAGE_SIZE
      BY <2>1
    <3>1. Terminated(sent[i]) /\ Len(sent[i]) <= MAX_MESSAGE_SIZE
      BY <1>2, <1>5
    <3>2. Len(sent[i]) \in Nat /\ Len(sent[i]) >= 1 /\ MAX_MESSAGE_SIZE \in Nat
      BY <3>1, FramingAssumption DEF Terminated
    <3> QED BY <3>1, <3>2
  <2>3. got = [i \in DOMAIN sent |-> [sent[i] EXCEPT ![Len(sent[i])] = 0]]
    <3>1. RelayedText(sent, 7)
      BY <1>5, EveryTextRelayed
    <3> QED BY <2>2, <3>1, Zenon DEF RelayedText
  <2>4. \A i \in 1 .. n : [sent[i] EXCEPT ![Len(sent[i])] = 0] = sent[i]
    <3> SUFFICES ASSUME NEW i \in 1 .. n PROVE [sent[i] EXCEPT ![Len(sent[i])] = 0] = sent[i]
      OBVIOUS
    <3>1. PICK x : x = sent[i]
      OBVIOUS
    <3>2. x \in Seq(Nat) /\ x[Len(x)] = 0
      BY <1>5, <3>1 DEF Terminated, NUL
    <3>3. [x EXCEPT ![Len(x)] = 0] = x
      BY <3>2
    <3> QED BY <3>1, <3>3
  <2>5. got = [i \in 1 .. n |-> sent[i]]
    BY <2>1, <2>3, <2>4
  <2>6. sent = [i \in 1 .. n |-> sent[i]]
    BY <1>5
  <2> QED BY <2>5, <2>6
<1> HIDE DEF got
<1>7. ASSUME NEW i \in 1 .. n
      PROVE  IF Len(sent[i]) <= MESSAGE_BUFFER THEN receive(sent[i]) = <<text[i]>>
             ELSE Last(receive(sent[i])[1]) = Unread
  <2>1. PICK x : x = sent[i]
    OBVIOUS
  <2>2. Terminated(x) /\ x \in Seq(Nat) /\ Len(x) >= 1 /\ Len(x) \in Nat /\ MESSAGE_BUFFER \in Nat
        /\ \A j \in 1 .. Len(x) - 1 : x[j] # NUL
    BY <1>5, <2>1, ClientAssumption DEF Terminated
  <2>3. text[i] = SubSeq(x, 1, Len(x) - 1)
    BY <2>1
  <2>4. CASE Len(x) <= MESSAGE_BUFFER
    <3>1. x \o << >> = x /\ << >> \in Seq(Nat)
      BY <2>2
    <3>2. Shown(x) = SubSeq(x, 1, Len(x) - 1)
      BY <2>2, <3>1, ShownUpToNUL
    <3>3. receive(x) = <<Shown(x)>>
      BY <2>2, <2>4, ReceiveFacts
    <3> QED BY <2>1, <2>3, <2>4, <3>2, <3>3, Zenon
  <2>5. CASE ~(Len(x) <= MESSAGE_BUFFER)
    <3> DEFINE b == SubSeq(x, 1, MESSAGE_BUFFER)
    <3>1. b \in Seq(Nat) /\ Len(b) = MESSAGE_BUFFER /\ \A j \in 1 .. MESSAGE_BUFFER : b[j] = x[j]
      BY <2>2, <2>5, SliceFront
    <3>2. receive(x)[1] = Shown(b)
      BY <2>2, <2>5, ReceiveFacts
    <3> HIDE DEF b
    <3>3. \A j \in 1 .. Len(b) : b[j] # NUL
      <4>1. \A j \in 1 .. MESSAGE_BUFFER : j \in 1 .. Len(x) - 1
        BY <2>2, <2>5
      <4> QED BY <2>2, <3>1, <4>1
    <3>4. Last(Shown(b)) = Unread
      BY <2>2, <3>1, <3>3, ShownBeyond
    <3> QED BY <2>1, <2>5, <3>2, <3>4, Zenon
  <2> QED BY <2>4, <2>5
<1>8. ASSUME NEW i \in 1 .. n - 1, Len(sent[i] \o sent[i + 1]) <= MESSAGE_BUFFER
      PROVE  receive(sent[i] \o sent[i + 1]) = <<text[i]>>
  <2>0. i \in 1 .. n /\ i + 1 \in 1 .. n
    BY <1>5
  <2>1. PICK x, y : x = sent[i] /\ y = sent[i + 1]
    OBVIOUS
  <2>2. Terminated(x) /\ x \in Seq(Nat) /\ y \in Seq(Nat) /\ Len(x) >= 1
    BY <1>5, <2>0, <2>1 DEF Terminated
  <2>3. text[i] = SubSeq(x, 1, Len(x) - 1)
    BY <2>0, <2>1
  <2>4. x \o y \in Seq(Nat) /\ Len(x \o y) >= 1
    BY <2>2
  <2>5. receive(x \o y) = <<Shown(x \o y)>>
    BY <1>8, <2>1, <2>4, ReceiveFacts
  <2>6. Shown(x \o y) = SubSeq(x, 1, Len(x) - 1)
    BY <2>2, ShownUpToNUL
  <2> QED BY <2>1, <2>3, <2>5, <2>6, Zenon
<1> HIDE DEF text, n
<1> QED BY <1>6, <1>7, <1>8, Zenon DEF n

(***************************************************************************)
(* The configuration                                                       *)
(***************************************************************************)
\* Where a search finds something first: First and Final are those of SelectInSeq and
\* SelectLastInSeq of the community modules.
First(I) == IF I # {} THEN Min(I) ELSE 0
Final(I) == IF I # {} THEN Max(I) ELSE 0

\* The first of what was found.
LEMMA FirstIs ==
  ASSUME NEW n \in Nat, NEW I \in SUBSET (1 .. n)
  PROVE  /\ First(I) \in 0 .. n
         /\ First(I) = 0 <=> I = {}
         /\ I # {} => First(I) \in I /\ \A y \in I : First(I) <= y
<1>1. I \in SUBSET Nat /\ I \subseteq 1 .. n
  OBVIOUS
<1>2. CASE I = {}
  BY <1>2 DEF First
<1>3. CASE I # {}
  <2>1. PICK m \in I : \A k \in I : m <= k
    BY <1>1, <1>3, Least
  <2>2. Min(I) = m
    BY <1>1, <2>1, MinIs
  <2> QED BY <1>1, <1>3, <2>1, <2>2 DEF First
<1> QED BY <1>2, <1>3

\* The last of what was found.
LEMMA FinalIs ==
  ASSUME NEW n \in Nat, NEW I \in SUBSET (1 .. n)
  PROVE  /\ Final(I) \in 0 .. n
         /\ Final(I) = 0 <=> I = {}
         /\ I # {} => Final(I) \in I /\ \A y \in I : y <= Final(I)
<1>1. CASE I = {}
  BY <1>1 DEF Final
<1>2. CASE I # {}
  <2>1. Max(I) \in I /\ \A y \in I : y <= Max(I)
    BY <1>2, MaxOf
  <2>2. PICK m : m = Final(I)
    OBVIOUS
  <2>3. m \in I /\ \A y \in I : y <= m
    BY <1>2, <2>1, <2>2 DEF Final
  <2> QED BY <1>2, <2>2, <2>3
<1> QED BY <1>1, <1>2

\* The first token that is not blank.
LEMMA LTrimIs ==
  ASSUME NEW V, NEW s \in Seq(V)
  PROVE  \/ LTrim(s) = << >> /\ \A i \in 1 .. Len(s) : isspace(s[i])
         \/ \E a \in 0 .. Len(s) - 1 :
              /\ LTrim(s) = SubSeq(s, a + 1, Len(s)) /\ ~isspace(s[a + 1])
              /\ \A i \in 1 .. a : isspace(s[i])
<1> DEFINE I == {i \in 1 .. Len(s) : ~isspace(s[i])}
           k == SelectInSeq(s, LAMBDA c : ~isspace(c))
<1>1. k = First(I)
  BY DEF SelectInSeq, First
<1>2. LTrim(s) = IF k = 0 THEN << >> ELSE SubSeq(s, k, Len(s))
  BY DEF LTrim
<1>3. Len(s) \in Nat /\ I \in SUBSET (1 .. Len(s))
  OBVIOUS
<1> HIDE DEF k
<1>4. /\ k \in 0 .. Len(s) /\ (k = 0 <=> I = {})
      /\ I # {} => k \in I /\ \A y \in I : k <= y
  <2> HIDE DEF I
  <2> QED BY <1>1, <1>3, FirstIs
<1>5. CASE I = {}
  <2>1. LTrim(s) = << >>
    BY <1>2, <1>4, <1>5
  <2> QED BY <1>5, <2>1
<1>6. CASE I # {}
  <2>1. k \in 1 .. Len(s) /\ ~isspace(s[k]) /\ \A y \in I : k <= y
    BY <1>4, <1>6
  <2>2. PICK a \in 0 .. Len(s) - 1 : k = a + 1
    BY <1>3, <2>1
  <2>3. \A i \in 1 .. a : i \in 1 .. Len(s) /\ ~(k <= i)
    BY <1>3, <2>2
  <2>4. \A i \in 1 .. a : isspace(s[i])
    BY <2>1, <2>3
  <2>5. LTrim(s) = SubSeq(s, a + 1, Len(s))
    BY <1>2, <2>1, <2>2
  <2> QED BY <2>1, <2>2, <2>4, <2>5
<1> QED BY <1>5, <1>6

\* The last token that is not blank.
LEMMA RTrimIs ==
  ASSUME NEW V, NEW s \in Seq(V), s # << >>, ~isspace(s[1])
  PROVE  \E l \in 1 .. Len(s) :
           /\ RTrim(s) = SubSeq(s, 1, l) /\ ~isspace(s[l])
           /\ \A i \in l + 1 .. Len(s) : isspace(s[i])
<1> DEFINE I == {i \in 1 .. Len(s) : ~isspace(s[i])}
           k == SelectLastInSeq(s, LAMBDA c : ~isspace(c))
<1>1. k = Final(I)
  BY DEF SelectLastInSeq, Final
<1>2. RTrim(s) = SubSeq(s, 1, k)
  BY DEF RTrim
<1>3. Len(s) \in Nat /\ I \in SUBSET (1 .. Len(s)) /\ 1 \in I
  OBVIOUS
<1> HIDE DEF k
<1>4. k \in I /\ \A y \in I : y <= k
  <2> HIDE DEF I
  <2> QED BY <1>1, <1>3, FinalIs
<1>5. \A i \in k + 1 .. Len(s) : i \in 1 .. Len(s) /\ ~(i <= k)
  BY <1>3, <1>4
<1>6. \A i \in k + 1 .. Len(s) : isspace(s[i])
  BY <1>4, <1>5
<1> QED BY <1>2, <1>4, <1>6

\* A text without the blanks around it.
Trim(s) == RTrim(LTrim(s))

\* What is left lies between the blanks.
LEMMA TrimIs ==
  ASSUME NEW V, NEW s \in Seq(V)
  PROVE  \/ Trim(s) = << >> /\ LTrim(s) = << >> /\ \A i \in 1 .. Len(s) : isspace(s[i])
         \/ \E a \in 0 .. Len(s) - 1 : \E l \in 1 .. Len(s) - a :
              /\ LTrim(s) = SubSeq(s, a + 1, Len(s))
              /\ Trim(s) = SubSeq(LTrim(s), 1, l)
              /\ ~isspace(s[a + 1]) /\ ~isspace(s[a + l])
              /\ \A i \in 1 .. a : isspace(s[i])
              /\ \A i \in a + l + 1 .. Len(s) : isspace(s[i])
<1>1. CASE LTrim(s) = << >> /\ \A i \in 1 .. Len(s) : isspace(s[i])
  <2>1. RTrim(<< >>) = << >>
    BY DEF RTrim
  <2> QED BY <1>1, <2>1 DEF Trim
<1>2. ASSUME NEW a \in 0 .. Len(s) - 1, LTrim(s) = SubSeq(s, a + 1, Len(s)), ~isspace(s[a + 1]),
             \A i \in 1 .. a : isspace(s[i])
      PROVE  \E l \in 1 .. Len(s) - a :
              /\ Trim(s) = SubSeq(LTrim(s), 1, l) /\ ~isspace(s[a + l])
              /\ \A i \in a + l + 1 .. Len(s) : isspace(s[i])
  <2>1. PICK L \in Nat : L = Len(s)
    OBVIOUS
  <2>2. PICK u : u = LTrim(s)
    OBVIOUS
  <2>3. a \in Nat /\ a < L
    BY <2>1
  <2>4. u \in Seq(V) /\ Len(u) = L - a /\ \A k \in 1 .. L - a : u[k] = s[a + k]
    BY <1>2, <2>1, <2>2, <2>3, SliceRest
  <2>5. u # << >> /\ ~isspace(u[1])
    <3>1. 1 \in 1 .. L - a
      BY <2>1, <2>3
    <3> QED BY <1>2, <2>4, <3>1
  <2>6. PICK l \in 1 .. Len(u) :
          /\ RTrim(u) = SubSeq(u, 1, l) /\ ~isspace(u[l])
          /\ \A i \in l + 1 .. Len(u) : isspace(u[i])
    BY <2>4, <2>5, RTrimIs
  <2>7. l \in 1 .. L - a /\ ~isspace(s[a + l])
    BY <2>4, <2>6
  <2>8. ASSUME NEW i \in a + l + 1 .. L PROVE isspace(s[i])
    <3>1. PICK k \in l + 1 .. L - a : i = a + k
      <4>1. i - a \in l + 1 .. L - a /\ i = a + (i - a)
        BY <2>1, <2>3, <2>7
      <4> QED BY <4>1
    <3>2. k \in 1 .. L - a /\ k \in l + 1 .. Len(u)
      BY <2>1, <2>3, <2>4, <2>7
    <3> QED BY <2>4, <2>6, <3>1, <3>2
  <2> QED BY <2>1, <2>2, <2>6, <2>7, <2>8 DEF Trim
<1> QED BY <1>1, <1>2, LTrimIs

\* Nothing is left of blanks.
LEMMA TrimEmpty ==
  ASSUME NEW V, NEW s \in Seq(V)
  PROVE  Trim(s) = << >> <=> \A i \in 1 .. Len(s) : isspace(s[i])
<1>1. CASE \A i \in 1 .. Len(s) : isspace(s[i])
  <2>1. ASSUME NEW a \in 0 .. Len(s) - 1 PROVE isspace(s[a + 1])
    <3>1. a + 1 \in 1 .. Len(s)
      OBVIOUS
    <3> QED BY <1>1, <3>1
  <2> QED BY <1>1, <2>1, TrimIs
<1>2. ASSUME NEW a \in 0 .. Len(s) - 1, NEW l \in 1 .. Len(s) - a,
             LTrim(s) = SubSeq(s, a + 1, Len(s)), Trim(s) = SubSeq(LTrim(s), 1, l)
      PROVE  Trim(s) # << >>
  <2>1. PICK u : u = LTrim(s)
    OBVIOUS
  <2>2. a \in Nat /\ a <= Len(s) /\ l \in Nat /\ 1 <= l /\ l <= Len(s) - a
    OBVIOUS
  <2>3. u \in Seq(V) /\ Len(u) = Len(s) - a
    BY <1>2, <2>1, <2>2, SliceRest
  <2>4. Len(SubSeq(u, 1, l)) = l
    BY <2>2, <2>3, SliceFront
  <2>5. PICK t : t = Trim(s)
    OBVIOUS
  <2>6. Len(t) = l
    BY <1>2, <2>1, <2>4, <2>5
  <2>7. t # << >>
    BY <2>2, <2>6
  <2> QED BY <2>5, <2>7
<1> QED BY <1>1, <1>2, TrimIs

\* What is left when only blanks are around a name.
LEMMA TrimName ==
  ASSUME NEW V, NEW s \in Seq(V), NEW x, ~isspace(x)
  PROVE  Trim(s) = <<x>> <=>
           \E m \in 1 .. Len(s) : s[m] = x /\ \A e \in 1 .. Len(s) : e # m => isspace(s[e])
<1>1. PICK L \in Nat : L = Len(s)
  OBVIOUS
<1>2. CASE Trim(s) = << >> /\ \A i \in 1 .. Len(s) : isspace(s[i])
  BY <1>2
<1>3. ASSUME NEW a \in 0 .. Len(s) - 1, NEW l \in 1 .. Len(s) - a,
             LTrim(s) = SubSeq(s, a + 1, Len(s)), Trim(s) = SubSeq(LTrim(s), 1, l),
             ~isspace(s[a + 1]), ~isspace(s[a + l]),
             \A i \in 1 .. a : isspace(s[i]), \A i \in a + l + 1 .. Len(s) : isspace(s[i])
      PROVE  Trim(s) = <<x>> <=>
               \E m \in 1 .. Len(s) : s[m] = x /\ \A e \in 1 .. Len(s) : e # m => isspace(s[e])
  <2>1. PICK u : u = LTrim(s)
    OBVIOUS
  <2>2. a \in Nat /\ a < L /\ l \in Nat /\ 1 <= l /\ l <= L - a
    BY <1>1
  <2>3. u \in Seq(V) /\ Len(u) = L - a /\ \A k \in 1 .. L - a : u[k] = s[a + k]
    BY <1>1, <1>3, <2>1, <2>2, SliceRest
  <2>4. PICK t : t = Trim(s)
    OBVIOUS
  <2>5. t \in Seq(V) /\ Len(t) = l /\ \A k \in 1 .. l : t[k] = u[k]
    BY <1>3, <2>1, <2>2, <2>3, <2>4, SliceFront
  <2>6. t[1] = s[a + 1] /\ a + 1 \in 1 .. L /\ a + l \in 1 .. L
    BY <2>2, <2>3, <2>5
  <2>7. ASSUME t = <<x>>
        PROVE  \E m \in 1 .. L : s[m] = x /\ \A e \in 1 .. L : e # m => isspace(s[e])
    <3>1. l = 1 /\ s[a + 1] = x
      BY <2>5, <2>6, <2>7
    <3>2. \A e \in 1 .. L : e # a + 1 => e \in 1 .. a \/ e \in a + l + 1 .. L
      BY <2>2, <3>1
    <3> QED BY <1>1, <1>3, <2>6, <3>1, <3>2
  <2>8. ASSUME NEW m \in 1 .. L, s[m] = x, \A e \in 1 .. L : e # m => isspace(s[e])
        PROVE  t = <<x>>
    <3>1. a + 1 = m /\ a + l = m
      BY <1>3, <2>6, <2>8
    <3>2. l = 1
      BY <2>2, <3>1
    <3>3. t[1] = x
      BY <2>6, <2>8, <3>1
    <3> QED BY <2>5, <3>2, <3>3
  <2> QED BY <1>1, <2>4, <2>7, <2>8
<1>4. CASE \E a \in 0 .. Len(s) - 1 : \E l \in 1 .. Len(s) - a :
              /\ LTrim(s) = SubSeq(s, a + 1, Len(s))
              /\ Trim(s) = SubSeq(LTrim(s), 1, l)
              /\ ~isspace(s[a + 1]) /\ ~isspace(s[a + l])
              /\ \A i \in 1 .. a : isspace(s[i])
              /\ \A i \in a + l + 1 .. Len(s) : isspace(s[i])
  BY <1>3, <1>4, Zenon
<1> QED BY <1>2, <1>4, TrimIs, Zenon

CountsAsDigit(c) == c \in DOMAIN DigitValue

\* A blank is no digit.
LEMMA BlankNoDigit == \A c : isspace(c) => ~CountsAsDigit(c)
<1>1. DOMAIN DigitValue = {"0", "1", "2", "3", "9"}
  BY DEF DigitValue
<1> QED BY <1>1 DEF isspace, CountsAsDigit

\* The digits end at the first character that is none, or with the text.
LEMMA DigitsIs ==
  ASSUME NEW V, NEW s \in Seq(V)
  PROVE  \E p \in 0 .. Len(s) :
           /\ Digits(s) = SubSeq(s, 1, p) /\ \A i \in 1 .. p : CountsAsDigit(s[i])
           /\ p < Len(s) => ~CountsAsDigit(s[p + 1])
<1> DEFINE I == {i \in 1 .. Len(s) : s[i] \notin DOMAIN DigitValue}
           k == SelectInSeq(s, LAMBDA c : c \notin DOMAIN DigitValue)
<1>1. k = First(I)
  BY DEF SelectInSeq, First
<1>2. Digits(s) = IF k = 0 THEN s ELSE SubSeq(s, 1, k - 1)
  BY DEF Digits
<1>3. Len(s) \in Nat /\ I \in SUBSET (1 .. Len(s))
  OBVIOUS
<1>4. \A i \in 1 .. Len(s) : i \in I <=> ~CountsAsDigit(s[i])
  BY DEF CountsAsDigit
<1> HIDE DEF k, I
<1>5. /\ k \in 0 .. Len(s) /\ (k = 0 <=> I = {})
      /\ I # {} => k \in I /\ \A y \in I : k <= y
  BY <1>1, <1>3, FirstIs
<1>6. CASE I = {}
  <2>1. \A i \in 1 .. Len(s) : CountsAsDigit(s[i])
    BY <1>4, <1>6
  <2>2. Len(s) <= Len(s) /\ Len(s) \in 0 .. Len(s)
    BY <1>3
  <2>3. SubSeq(s, 1, Len(s)) = s
    <3>1. /\ SubSeq(s, 1, Len(s)) \in Seq(V) /\ Len(SubSeq(s, 1, Len(s))) = Len(s)
          /\ \A j \in 1 .. Len(s) : SubSeq(s, 1, Len(s))[j] = s[j]
      BY <1>3, <2>2, SliceFront
    <3> QED BY <3>1, SameSeq
  <2>4. Digits(s) = s
    BY <1>2, <1>5, <1>6
  <2>5. PICK p : p = Len(s)
    OBVIOUS
  <2>6. /\ p \in 0 .. Len(s) /\ ~(p < Len(s)) /\ Digits(s) = SubSeq(s, 1, p)
        /\ \A i \in 1 .. p : CountsAsDigit(s[i])
    <3>1. p \in 0 .. Len(s) /\ ~(p < Len(s))
      BY <1>3, <2>5
    <3>2. Digits(s) = SubSeq(s, 1, p)
      BY <2>3, <2>4, <2>5
    <3> QED BY <2>1, <2>5, <3>1, <3>2
  <2> QED BY <2>6
<1>7. CASE I # {}
  <2>1. k \in 1 .. Len(s) /\ ~CountsAsDigit(s[k]) /\ \A y \in I : k <= y
    BY <1>3, <1>4, <1>5, <1>7
  <2>2. PICK p \in 0 .. Len(s) : k = p + 1 /\ p = k - 1
    BY <1>3, <2>1
  <2>3. \A i \in 1 .. p : i \in 1 .. Len(s) /\ ~(k <= i)
    BY <1>3, <2>2
  <2>4. \A i \in 1 .. p : CountsAsDigit(s[i])
    BY <1>4, <2>1, <2>3
  <2>5. Digits(s) = SubSeq(s, 1, p)
    BY <1>2, <2>1, <2>2
  <2> QED BY <2>1, <2>2, <2>4, <2>5
<1> QED BY <1>6, <1>7

\* atoi stops at the blanks that RTrim removes.
LEMMA DigitsTrim ==
  ASSUME NEW V, NEW s \in Seq(V)
  PROVE  Digits(Trim(s)) = Digits(LTrim(s))
<1>1. CASE Trim(s) = << >> /\ LTrim(s) = << >>
  BY <1>1
<1>2. ASSUME NEW a \in 0 .. Len(s) - 1, NEW l \in 1 .. Len(s) - a,
             LTrim(s) = SubSeq(s, a + 1, Len(s)), Trim(s) = SubSeq(LTrim(s), 1, l),
             \A i \in a + l + 1 .. Len(s) : isspace(s[i])
      PROVE  Digits(Trim(s)) = Digits(LTrim(s))
  <2>0. PICK L \in Nat : L = Len(s)
    OBVIOUS
  <2>1. PICK u : u = LTrim(s)
    OBVIOUS
  <2>2. a \in Nat /\ a < L /\ l \in Nat /\ 1 <= l /\ l <= L - a
    BY <2>0
  <2>3. u \in Seq(V) /\ Len(u) = L - a /\ \A k \in 1 .. L - a : u[k] = s[a + k]
    BY <1>2, <2>0, <2>1, <2>2, SliceRest
  <2>4. PICK t : t = Trim(s)
    OBVIOUS
  <2>5. t \in Seq(V) /\ Len(t) = l /\ \A k \in 1 .. l : t[k] = u[k]
    BY <1>2, <2>1, <2>2, <2>3, <2>4, SliceFront
  <2>6. l < Len(u) => ~CountsAsDigit(u[l + 1])
    <3>1. ASSUME l < L - a PROVE ~CountsAsDigit(u[l + 1])
      <4>1. l + 1 \in 1 .. L - a /\ a + (l + 1) \in a + l + 1 .. L
        BY <2>0, <2>2, <3>1
      <4> QED BY <1>2, <2>0, <2>3, <4>1, BlankNoDigit
    <3> QED BY <2>3, <3>1
  <2>7. PICK p \in 0 .. Len(t) :
          /\ Digits(t) = SubSeq(t, 1, p) /\ \A i \in 1 .. p : CountsAsDigit(t[i])
          /\ p < Len(t) => ~CountsAsDigit(t[p + 1])
    BY <2>5, DigitsIs
  <2>8. PICK q \in 0 .. Len(u) :
          /\ Digits(u) = SubSeq(u, 1, q) /\ \A i \in 1 .. q : CountsAsDigit(u[i])
          /\ q < Len(u) => ~CountsAsDigit(u[q + 1])
    BY <2>3, DigitsIs
  <2>9. l <= Len(u) /\ Len(u) \in Nat
    BY <2>2, <2>3
  <2>10. CASE p < q
    <3>1. CASE p = l
      <4>1. l + 1 \in 1 .. q
        BY <2>2, <2>8, <2>9, <2>10, <3>1
      <4>2. l < Len(u)
        BY <2>2, <2>8, <2>9, <2>10, <3>1
      <4> QED BY <2>6, <2>8, <4>1, <4>2
    <3>2. CASE p < l
      <4>1. p + 1 \in 1 .. l /\ p + 1 \in 1 .. q
        BY <2>2, <2>7, <2>8, <2>10, <3>2
      <4>2. ~CountsAsDigit(t[p + 1])
        BY <2>5, <2>7, <3>2
      <4> QED BY <2>5, <2>8, <4>1, <4>2
    <3> QED BY <2>2, <2>5, <2>7, <3>1, <3>2
  <2>11. CASE q < p
    <3>1. q + 1 \in 1 .. p /\ q + 1 \in 1 .. l /\ q < Len(u)
      BY <2>2, <2>5, <2>7, <2>8, <2>9, <2>11
    <3> QED BY <2>5, <2>7, <2>8, <3>1
  <2>12. CASE p = q
    <3>1. p \in Nat /\ p <= Len(t) /\ p <= Len(u)
      BY <2>2, <2>5, <2>7, <2>8, <2>9, <2>12
    <3>2. /\ SubSeq(t, 1, p) \in Seq(V) /\ Len(SubSeq(t, 1, p)) = p
          /\ \A k \in 1 .. p : SubSeq(t, 1, p)[k] = t[k]
      BY <2>5, <3>1, SliceFront
    <3>3. /\ SubSeq(u, 1, p) \in Seq(V) /\ Len(SubSeq(u, 1, p)) = p
          /\ \A k \in 1 .. p : SubSeq(u, 1, p)[k] = u[k]
      BY <2>3, <3>1, SliceFront
    <3>4. \A k \in 1 .. p : k \in 1 .. l
      BY <2>2, <2>5, <3>1
    <3>5. SubSeq(t, 1, p) = SubSeq(u, 1, p)
      <4>1. PICK x, y : x = SubSeq(t, 1, p) /\ y = SubSeq(u, 1, p)
        OBVIOUS
      <4>2. x \in Seq(V) /\ y \in Seq(V) /\ Len(x) = p /\ Len(y) = p
        BY <3>2, <3>3, <4>1
      <4>3. \A k \in 1 .. Len(x) : x[k] = y[k]
        BY <2>5, <3>2, <3>3, <3>4, <4>1
      <4>4. x = y
        BY <4>2, <4>3, SameSeq
      <4> QED BY <4>1, <4>4
    <3> QED BY <2>1, <2>4, <2>7, <2>8, <2>12, <3>5
  <2> QED BY <2>2, <2>5, <2>7, <2>8, <2>9, <2>10, <2>11, <2>12
<1>3. CASE \E a \in 0 .. Len(s) - 1 : \E l \in 1 .. Len(s) - a :
              /\ LTrim(s) = SubSeq(s, a + 1, Len(s))
              /\ Trim(s) = SubSeq(LTrim(s), 1, l)
              /\ ~isspace(s[a + 1]) /\ ~isspace(s[a + l])
              /\ \A i \in 1 .. a : isspace(s[i])
              /\ \A i \in a + l + 1 .. Len(s) : isspace(s[i])
  BY <1>2, <1>3, Zenon
<1> QED BY <1>1, <1>3, TrimIs, Zenon

\* The first "=" of a line, or 0.
Equals(line) == SelectInSeq(line, LAMBDA c : c = "=")
NameOf(line) == SubSeq(line, 1, Equals(line) - 1)
ValueOf(line) == SubSeq(line, Equals(line) + 1, Len(line))

\* No "=" comes before the first.
LEMMA EqualsIs ==
  ASSUME NEW V, NEW s \in Seq(V)
  PROVE  /\ Equals(s) \in 0 .. Len(s)
         /\ Equals(s) = 0 => \A i \in 1 .. Len(s) : s[i] # "="
         /\ Equals(s) # 0 => s[Equals(s)] = "=" /\ \A i \in 1 .. Equals(s) - 1 : s[i] # "="
<1> DEFINE I == {i \in 1 .. Len(s) : s[i] = "="}
           k == Equals(s)
<1>1. k = First(I)
  BY DEF SelectInSeq, First, Equals
<1>3. Len(s) \in Nat /\ I \in SUBSET (1 .. Len(s))
  OBVIOUS
<1>4. \A i \in 1 .. Len(s) : i \in I <=> s[i] = "="
  OBVIOUS
<1> HIDE DEF k, I
<1>5. /\ k \in 0 .. Len(s) /\ (k = 0 <=> I = {})
      /\ I # {} => k \in I /\ \A y \in I : k <= y
  BY <1>1, <1>3, FirstIs
<1>6. CASE I = {}
  BY <1>4, <1>5, <1>6 DEF k
<1>7. CASE I # {}
  <2>1. k \in 1 .. Len(s) /\ s[k] = "=" /\ \A y \in I : k <= y
    BY <1>3, <1>4, <1>5, <1>7
  <2>2. \A i \in 1 .. k - 1 : i \in 1 .. Len(s) /\ ~(k <= i)
    BY <1>3, <2>1
  <2>3. \A i \in 1 .. k - 1 : s[i] # "="
    BY <1>4, <2>1, <2>2
  <2> QED BY <1>5, <2>1, <2>3 DEF k
<1> QED BY <1>6, <1>7

\* The text before and behind the first "=".
LEMMA LineParts ==
  ASSUME NEW V, NEW line \in Seq(V), Equals(line) # 0
  PROVE  /\ NameOf(line) \in Seq(V) /\ Len(NameOf(line)) = Equals(line) - 1
         /\ \A i \in 1 .. Equals(line) - 1 : NameOf(line)[i] = line[i]
         /\ ValueOf(line) \in Seq(V) /\ Len(ValueOf(line)) = Len(line) - Equals(line)
<1>1. PICK d : d = Equals(line)
  OBVIOUS
<1>2. PICK L \in Nat : L = Len(line)
  OBVIOUS
<1>3. d \in 1 .. L
  BY <1>1, <1>2, EqualsIs
<1>4. d - 1 \in Nat /\ d - 1 <= Len(line) /\ d \in Nat /\ d <= Len(line)
  BY <1>2, <1>3
<1>5. /\ SubSeq(line, 1, d - 1) \in Seq(V) /\ Len(SubSeq(line, 1, d - 1)) = d - 1
      /\ \A i \in 1 .. d - 1 : SubSeq(line, 1, d - 1)[i] = line[i]
  BY <1>4, SliceFront
<1>6. /\ SubSeq(line, d + 1, Len(line)) \in Seq(V)
      /\ Len(SubSeq(line, d + 1, Len(line))) = Len(line) - d
  BY <1>4, SliceRest
<1> QED BY <1>1, <1>5, <1>6 DEF NameOf, ValueOf

\* What a line does that is no comment, when its name and its value fit.
LEMMA AddMapIs ==
  ASSUME NEW V, NEW line \in Seq(V), NEW map, LineFits(line)
  PROVE  AddMap(map, line) =
           IF Equals(line) = 0 \/ NameOf(line) = << >> \/ ValueOf(line) = << >> THEN map
           ELSE Store(map, Trim(NameOf(line)), Trim(ValueOf(line)))
<1>1. PICK d : d = Equals(line)
  OBVIOUS
<1>2. PICK n, v : n = NameOf(line) /\ v = ValueOf(line)
  OBVIOUS
<1>3. AddMap(map, line) =
        IF d = 0 \/ Copied(n, MAX_KEY_SIZE) = << >> \/ Copied(v, MAX_VALUE_SIZE) = << >> THEN map
        ELSE Store(map, Trim(Copied(n, MAX_KEY_SIZE)), Trim(Copied(v, MAX_VALUE_SIZE)))
  BY <1>1, <1>2 DEF AddMap, Equals, NameOf, ValueOf, Trim
<1>4. CASE d = 0
  BY <1>1, <1>3, <1>4
<1>5. CASE d # 0
  <2>1. Len(n) = d - 1 /\ Len(v) = Len(line) - d
    BY <1>1, <1>2, <1>5, LineParts
  <2>2. d \in 1 .. Len(line) /\ line[d] = "=" /\ \A e \in 1 .. d - 1 : line[e] # "="
    <3>1. Len(line) \in Nat
      OBVIOUS
    <3> QED BY <1>1, <1>5, <3>1, EqualsIs
  <2>3. Len(n) < MAX_KEY_SIZE /\ Len(v) < MAX_VALUE_SIZE
    BY <2>1, <2>2 DEF LineFits
  <2>4. Copied(n, MAX_KEY_SIZE) = n /\ Copied(v, MAX_VALUE_SIZE) = v
    BY <2>3 DEF Copied
  <2> QED BY <1>1, <1>2, <1>3, <2>4
<1> QED BY <1>4, <1>5

\* A name of a setting.
IsKey(key) == key \notin {" ", "\t", "=", "#"}

\* A line that gives a key a value is stored under it, and no other line is.
LEMMA AssignsIs ==
  ASSUME NEW V, NEW line \in Seq(V), NEW key, IsKey(key)
  PROVE  Assigns(line, key) <=>
           /\ line # << >> /\ line[1] # "#" /\ Equals(line) # 0
           /\ NameOf(line) # << >> /\ ValueOf(line) # << >> /\ Trim(NameOf(line)) = <<key>>
<1>1. PICK d : d = Equals(line)
  OBVIOUS
<1>2. PICK L \in Nat : L = Len(line)
  OBVIOUS
<1>3. /\ d \in 0 .. L
      /\ d = 0 => \A i \in 1 .. L : line[i] # "="
      /\ d # 0 => line[d] = "=" /\ \A i \in 1 .. d - 1 : line[i] # "="
  BY <1>1, <1>2, EqualsIs
<1>k. ~isspace(key)
  BY DEF IsKey, isspace
<1> DEFINE Named(n) == \E m \in 1 .. n : line[m] = key /\ \A e \in 1 .. n : e # m => isspace(line[e])
<1>4. ASSUME d # 0 PROVE Trim(NameOf(line)) = <<key>> <=> Named(d - 1)
  <2>1. PICK s : s = NameOf(line)
    OBVIOUS
  <2>2. s \in Seq(V) /\ Len(s) = d - 1 /\ \A i \in 1 .. d - 1 : s[i] = line[i]
    BY <1>1, <1>4, <2>1, LineParts
  <2>3. Trim(s) = <<key>> <=>
          \E m \in 1 .. Len(s) : s[m] = key /\ \A e \in 1 .. Len(s) : e # m => isspace(s[e])
    BY <1>k, <2>2, TrimName
  <2> QED BY <2>1, <2>2, <2>3
<1>5. ASSUME d # 0 PROVE (NameOf(line) # << >> <=> d >= 2) /\ (ValueOf(line) # << >> <=> d <= L - 1)
  <2>1. PICK s, v : s = NameOf(line) /\ v = ValueOf(line)
    OBVIOUS
  <2>2. s \in Seq(V) /\ Len(s) = d - 1 /\ v \in Seq(V) /\ Len(v) = L - d
    BY <1>1, <1>2, <1>5, <2>1, LineParts
  <2> QED BY <1>2, <1>3, <2>1, <2>2
<1>6. Assigns(line, key) <=>
        \E c \in 2 .. L - 1 : line[1] # "#" /\ line[c] = "=" /\ (\A e \in 1 .. c - 1 : line[e] # "=") /\ Named(c - 1)
  BY <1>2 DEF Assigns
<1> HIDE DEF Named
<1>7. ASSUME NEW c \in 2 .. L - 1, line[c] = "=", \A e \in 1 .. c - 1 : line[e] # "="
      PROVE  c = d
  <2>1. d # 0
    BY <1>3, <1>7
  <2>2. CASE c < d
    BY <1>3, <1>7, <2>1, <2>2
  <2>3. CASE d < c
    BY <1>3, <1>7, <2>1, <2>3
  <2> QED BY <1>2, <1>3, <2>2, <2>3
<1>8. line # << >> <=> L # 0
  BY <1>2
<1>9. Assigns(line, key) <=> d \in 2 .. L - 1 /\ line[1] # "#" /\ Named(d - 1)
  BY <1>2, <1>3, <1>6, <1>7
<1> QED BY <1>1, <1>2, <1>3, <1>4, <1>5, <1>8, <1>9

\* What the map holds under a key when these lines have been read.
KeyHeld(map, lines, key) ==
  LET I == {i \in 1 .. Len(lines) : Assigns(lines[i], key)}
  IN  /\ I = {} => <<key>> \notin DOMAIN map
      /\ \A i \in I : (\A j \in I : j <= i) =>
           <<key>> \in DOMAIN map /\ map[<<key>>] = Trim(ValueOf(lines[i]))

\* One more line.
LEMMA LoadLineIs ==
  ASSUME NEW V, NEW line \in Seq(V), NEW key, IsKey(key), NEW map, LineFits(line)
  PROVE  LET m == LoadLine(map, line)
         IN  IF Assigns(line, key)
             THEN <<key>> \in DOMAIN m /\ m[<<key>>] = Trim(ValueOf(line))
             ELSE /\ <<key>> \in DOMAIN m <=> <<key>> \in DOMAIN map
                  /\ <<key>> \in DOMAIN map => m[<<key>>] = map[<<key>>]
<1>1. CASE line = << >> \/ line[1] = "#" \/ Equals(line) = 0 \/ NameOf(line) = << >> \/ ValueOf(line) = << >>
  <2>1. ~Assigns(line, key)
    BY <1>1, AssignsIs
  <2>2. LoadLine(map, line) = map
    BY <1>1, AddMapIs DEF LoadLine
  <2> QED BY <2>1, <2>2
<1>2. CASE ~(line = << >> \/ line[1] = "#" \/ Equals(line) = 0 \/ NameOf(line) = << >> \/ ValueOf(line) = << >>)
  <2>1. PICK n, v : n = Trim(NameOf(line)) /\ v = Trim(ValueOf(line))
    OBVIOUS
  <2>2. LoadLine(map, line) = Store(map, n, v)
    BY <1>2, <2>1, AddMapIs DEF LoadLine
  <2>3. Assigns(line, key) <=> n = <<key>>
    BY <1>2, <2>1, AssignsIs
  <2>4. PICK k : k = <<key>>
    OBVIOUS
  <2>5. PICK m : m = Store(map, n, v)
    OBVIOUS
  <2>6. IF n = k THEN k \in DOMAIN m /\ m[k] = v
        ELSE (k \in DOMAIN m <=> k \in DOMAIN map) /\ (k \in DOMAIN map => m[k] = map[k])
    BY <2>5 DEF Store
  <2> QED BY <2>1, <2>2, <2>3, <2>4, <2>5, <2>6
<1> QED BY <1>1, <1>2

\* The map is right with one more line.
LEMMA HoldsNext ==
  ASSUME NEW V, NEW lines \in Seq(Seq(V)), NEW line \in Seq(V), NEW key, IsKey(key), NEW map,
         LineFits(line), KeyHeld(map, lines, key)
  PROVE  KeyHeld(LoadLine(map, line), Append(lines, line), key)
<1>1. PICK n \in Nat : n = Len(lines)
  OBVIOUS
<1>2. PICK more : more = Append(lines, line)
  OBVIOUS
<1>3. Len(more) = n + 1 /\ more[n + 1] = line /\ \A i \in 1 .. n : more[i] = lines[i]
  BY <1>1, <1>2
<1>4. PICK m : m = LoadLine(map, line)
  OBVIOUS
<1>5. PICK k : k = <<key>>
  OBVIOUS
<1>6. IF Assigns(line, key)
      THEN k \in DOMAIN m /\ m[k] = Trim(ValueOf(line))
      ELSE /\ k \in DOMAIN m <=> k \in DOMAIN map
           /\ k \in DOMAIN map => m[k] = map[k]
  BY <1>4, <1>5, LoadLineIs
<1> DEFINE I == {i \in 1 .. n : Assigns(lines[i], key)}
           J == {i \in 1 .. n + 1 : Assigns(more[i], key)}
<1>7. /\ I = {} => k \notin DOMAIN map
      /\ \A i \in I : (\A j \in I : j <= i) => k \in DOMAIN map /\ map[k] = Trim(ValueOf(lines[i]))
  BY <1>1, <1>5 DEF KeyHeld
<1>8. J = IF Assigns(line, key) THEN I \cup {n + 1} ELSE I
  BY <1>3
<1>9. I \subseteq 1 .. n
  OBVIOUS
<1> HIDE DEF I, J
<1>10. J = {} => k \notin DOMAIN m
  BY <1>6, <1>7, <1>8
<1>11. ASSUME NEW i \in J, \A j \in J : j <= i
       PROVE  k \in DOMAIN m /\ m[k] = Trim(ValueOf(more[i]))
  <2>1. CASE Assigns(line, key)
    <3>1. i = n + 1
      BY <1>8, <1>9, <1>11, <2>1
    <3> QED BY <1>3, <1>6, <2>1, <3>1
  <2>2. CASE ~Assigns(line, key)
    <3>1. k \in DOMAIN map /\ map[k] = Trim(ValueOf(lines[i]))
      BY <1>7, <1>8, <1>11, <2>2
    <3>2. more[i] = lines[i]
      BY <1>3, <1>8, <1>9, <2>2
    <3> QED BY <1>6, <2>2, <3>1, <3>2
  <2> QED BY <2>1, <2>2
<1>12. KeyHeld(m, more, key)
  BY <1>3, <1>5, <1>10, <1>11 DEF KeyHeld, J
<1> QED BY <1>2, <1>4, <1>12

\* Every name and every value leaves room for a NUL.
AllFit(lines) == \A i \in 1 .. Len(lines) : LineFits(lines[i])

\* By induction over the lines.
LEMMA LinesHeld ==
  ASSUME NEW V, NEW key, IsKey(key)
  PROVE  \A lines \in Seq(Seq(V)) : AllFit(lines) => KeyHeld(FoldLeft(LoadLine, << >>, lines), lines, key)
<1> DEFINE Held(lines) == KeyHeld(FoldLeft(LoadLine, << >>, lines), lines, key)
           S == {lines \in Seq(Seq(V)) : AllFit(lines) => Held(lines)}
<1>1. << >> \in S
  <2>1. FoldLeft(LoadLine, << >>, << >>) = << >>
    BY FoldLeftEmpty
  <2>2. DOMAIN << >> = {} /\ Len(<< >>) = 0 /\ << >> \in Seq(Seq(V))
    OBVIOUS
  <2>3. KeyHeld(<< >>, << >>, key)
    BY <2>2 DEF KeyHeld
  <2> QED BY <2>1, <2>2, <2>3
<1>2. ASSUME NEW lines \in S \cap Seq(Seq(V)), NEW line \in Seq(V) PROVE Append(lines, line) \in S
  <2>1. Folds(LoadLine, << >>, lines, line)
    BY FoldLeftAppend
  <2>2. FoldLeft(LoadLine, << >>, Append(lines, line)) = LoadLine(FoldLeft(LoadLine, << >>, lines), line)
    BY <2>1 DEF Folds
  <2>3. PICK more \in Seq(Seq(V)) : more = Append(lines, line)
    <3>1. Append(lines, line) \in Seq(Seq(V))
      OBVIOUS
    <3> QED BY <3>1
  <2>4. ASSUME AllFit(more) PROVE Held(more)
    <3>1. Len(more) = Len(lines) + 1 /\ more[Len(lines) + 1] = line /\ Len(lines) \in Nat
      BY <2>3
    <3>2. \A i \in 1 .. Len(lines) : i \in 1 .. Len(more) /\ more[i] = lines[i]
      BY <2>3
    <3>3. AllFit(lines) /\ LineFits(line)
      <4>1. Len(lines) + 1 \in 1 .. Len(more)
        BY <3>1
      <4> QED BY <2>4, <3>1, <3>2, <4>1 DEF AllFit
    <3>4. Held(lines)
      BY <3>3
    <3>5. KeyHeld(LoadLine(FoldLeft(LoadLine, << >>, lines), line), Append(lines, line), key)
      BY <3>3, <3>4, HoldsNext
    <3> QED BY <2>2, <2>3, <3>5
  <2> HIDE DEF Held
  <2> QED BY <2>3, <2>4
<1> HIDE DEF S
<1>3. Seq(Seq(V)) \subseteq S
  BY <1>1, <1>2, SeqInduction
<1> QED BY <1>3 DEF S

\* The lines before the first that is too long.
LEMMA ReadableIs ==
  ASSUME NEW V, NEW file \in Seq(Seq(V))
  PROVE  /\ Readable(file) \in Seq(Seq(V))
         /\ \A i \in 1 .. Len(Readable(file)) : Readable(file)[i] = file[i]
         /\ \A i \in Nat : i \in 1 .. Len(Readable(file)) <=>
              i \in 1 .. Len(file) /\ \A j \in 1 .. i : Len(file[j]) < MAX_LINE_SIZE
<1> DEFINE I == {i \in 1 .. Len(file) : Len(file[i]) >= MAX_LINE_SIZE}
           k == SelectInSeq(file, LAMBDA line : Len(line) >= MAX_LINE_SIZE)
<1>1. k = First(I)
  BY DEF SelectInSeq, First
<1>2. Readable(file) = IF k = 0 THEN file ELSE SubSeq(file, 1, k - 1)
  BY DEF Readable
<1>3. PICK L \in Nat : L = Len(file)
  OBVIOUS
<1>4. I \in SUBSET (1 .. L)
  BY <1>3
<1>5. \A i \in 1 .. L : i \notin I <=> Len(file[i]) < MAX_LINE_SIZE
  <2>1. \A i \in 1 .. L : Len(file[i]) \in Nat
    BY <1>3
  <2> QED BY <1>3, <2>1, PropertiesAssumption
<1> HIDE DEF k, I
<1>6. /\ k \in 0 .. L /\ (k = 0 <=> I = {})
      /\ I # {} => k \in I /\ \A y \in I : k <= y
  BY <1>1, <1>3, <1>4, FirstIs
<1>7. CASE I = {}
  <2>1. Readable(file) = file
    BY <1>2, <1>6, <1>7
  <2>2. \A i \in Nat : i \in 1 .. L => \A j \in 1 .. i : j \in 1 .. L
    BY <1>3
  <2> QED BY <1>3, <1>5, <1>7, <2>1, <2>2
<1>8. CASE I # {}
  <2>1. k \in 1 .. L /\ k \in I /\ \A y \in I : k <= y
    BY <1>3, <1>6, <1>8
  <2>2. k - 1 \in Nat /\ k - 1 <= Len(file)
    BY <1>3, <2>1
  <2>3. PICK r : r = Readable(file)
    OBVIOUS
  <2>4. r = SubSeq(file, 1, k - 1)
    BY <1>2, <2>1, <2>3
  <2>5. r \in Seq(Seq(V)) /\ Len(r) = k - 1 /\ \A i \in 1 .. k - 1 : r[i] = file[i]
    BY <2>2, <2>4, SliceFront
  <2>6. ASSUME NEW i \in Nat
        PROVE  i \in 1 .. k - 1 <=> i \in 1 .. L /\ \A j \in 1 .. i : Len(file[j]) < MAX_LINE_SIZE
    <3>1. ASSUME i \in 1 .. k - 1 PROVE i \in 1 .. L /\ \A j \in 1 .. i : Len(file[j]) < MAX_LINE_SIZE
      <4>1. \A j \in 1 .. i : j \in 1 .. L /\ ~(k <= j)
        BY <1>3, <2>1, <3>1
      <4> QED BY <1>3, <1>5, <2>1, <3>1, <4>1
    <3>2. ASSUME i \in 1 .. L, \A j \in 1 .. i : Len(file[j]) < MAX_LINE_SIZE PROVE i \in 1 .. k - 1
      <4>1. k \notin 1 .. i
        BY <1>5, <2>1, <3>2
      <4> QED BY <1>3, <2>1, <3>2, <4>1
    <3> QED BY <3>1, <3>2
  <2> QED BY <1>3, <2>3, <2>5, <2>6
<1> QED BY <1>7, <1>8

\* They fit when what the file says is defined.
LEMMA ReadableFits ==
  ASSUME NEW V, NEW file \in Seq(Seq(V)), Defined(file)
  PROVE  AllFit(Readable(file))
<1>1. PICK r : r = Readable(file)
  OBVIOUS
<1>2. /\ r \in Seq(Seq(V)) /\ \A i \in 1 .. Len(r) : r[i] = file[i]
      /\ \A i \in Nat : i \in 1 .. Len(r) <=>
           i \in 1 .. Len(file) /\ \A j \in 1 .. i : Len(file[j]) < MAX_LINE_SIZE
  BY <1>1, ReadableIs
<1>3. \A i \in 1 .. Len(r) : i \in Nat /\ i \in 1 .. Len(file) /\ Reached(file, i)
  BY <1>2 DEF Reached
<1> QED BY <1>1, <1>2, <1>3 DEF AllFit, Defined

\* The number a process takes from a file.
LEMMA NumberRead ==
  ASSUME NEW V, NEW file \in Seq(Seq(V)), NEW key, IsKey(key), NEW default, Defined(file)
  PROVE  Member(Load(file), key, default) = Number(file, key, default)
<1>1. PICK r : r = Readable(file)
  OBVIOUS
<1>2. /\ r \in Seq(Seq(V)) /\ \A i \in 1 .. Len(r) : r[i] = file[i]
      /\ \A i \in Nat : i \in 1 .. Len(r) <=>
           i \in 1 .. Len(file) /\ \A j \in 1 .. i : Len(file[j]) < MAX_LINE_SIZE
  BY <1>1, ReadableIs
<1>3. PICK map : map = Load(file)
  OBVIOUS
<1>4. KeyHeld(map, r, key)
  <2>1. AllFit(r)
    BY <1>1, ReadableFits
  <2> QED BY <1>1, <1>2, <1>3, <2>1, LinesHeld DEF Load
<1> DEFINE I == {i \in 1 .. Len(file) : Gives(file, key, i)}
<1>5. I = {i \in 1 .. Len(r) : Assigns(r[i], key)}
  BY <1>2 DEF Gives, Reached
<1>6. PICK k : k = <<key>>
  OBVIOUS
<1>7. PICK p : p = GetProperty(map, key)
  OBVIOUS
<1>8. p = IF k \in DOMAIN map THEN map[k] ELSE << >>
  BY <1>6, <1>7 DEF GetProperty
<1>9. /\ I = {} => k \notin DOMAIN map
      /\ \A i \in I : (\A j \in I : j <= i) => k \in DOMAIN map /\ map[k] = Trim(ValueOf(r[i]))
  BY <1>4, <1>5, <1>6 DEF KeyHeld
<1>10. Member(map, key, default) = IF p = << >> THEN default ELSE atoi(p)
  BY <1>7 DEF Member
<1> DEFINE last == CHOOSE i \in I : \A j \in I : j <= i
           value == ValueOf(file[last])
<1>11. Number(file, key, default) =
         IF I = {} \/ \A i \in 1 .. Len(value) : isspace(value[i]) THEN default ELSE atoi(LTrim(value))
  BY Zenon DEF Number, ValueOf, Equals
<1>12. I \subseteq 1 .. Len(r) /\ Len(r) \in Nat
  BY <1>2, <1>5
<1> HIDE DEF I
<1>13. CASE I = {}
  BY <1>3, <1>8, <1>9, <1>10, <1>11, <1>13
<1>14. CASE I # {}
  <2>1. \E i \in I : \A j \in I : j <= i
    <3>1. I \in SUBSET (1 .. Len(r))
      BY <1>12
    <3> QED BY <1>12, <1>14, <3>1, MaxOf
  <2>2. last \in I /\ \A j \in I : j <= last
    BY <2>1, Zenon
  <2> HIDE DEF last
  <2>3. r[last] = file[last] /\ file[last] \in Seq(V) /\ Assigns(file[last], key)
    BY <1>2, <1>5, <1>12, <2>2
  <2>4. value \in Seq(V)
    <3>1. Equals(file[last]) # 0
      BY <2>3, AssignsIs
    <3> QED BY <2>3, <3>1, LineParts
  <2>5. p = Trim(value)
    BY <1>8, <1>9, <2>2, <2>3
  <2> HIDE DEF value
  <2>6. p = << >> <=> \A i \in 1 .. Len(value) : isspace(value[i])
    BY <2>4, <2>5, TrimEmpty
  <2>7. Digits(p) = Digits(LTrim(value))
    BY <2>4, <2>5, DigitsTrim
  <2>8. atoi(p) = atoi(LTrim(value))
    BY <2>7 DEF atoi
  <2> QED BY <1>3, <1>10, <1>11, <1>14, <2>6, <2>8
<1> QED BY <1>13, <1>14

\* Every name under which the processes look for a number or a list.
LEMMA Keys ==
  \A key \in {"THREAD_RECEIVER", "SERVER_PORT_DNMGR", "DN_CNT", "DNMGR_SERVER_IPs"} : IsKey(key)
BY DEF IsKey

\* For every file whose names and values fit into AddMap's buffers, with any number of lines
\* in any order: the processes start with the numbers of its last valid lines, and a list of managers that no line gives is what the memory held
\* (Properties.cpp:21, ServerInfoDNMgr.cpp:63).
THEOREM EveryFileRead ==
  ASSUME NEW V
  PROVE  \A file \in Seq(Seq(V)) : \A memory : ConfigAsWritten(file, memory)
<1> SUFFICES ASSUME NEW file \in Seq(Seq(V)), NEW memory PROVE ConfigAsWritten(file, memory)
  OBVIOUS
<1> SUFFICES ASSUME Defined(file)
             PROVE  LET dn == ServerInfoDN(Load(file), memory)  mgr == ServerInfoDNMgr(Load(file), memory)
                    IN /\ dn.THREAD_RECEIVER = Number(file, "THREAD_RECEIVER", -1)
                       /\ dn.SERVER_PORT_MGR = Number(file, "SERVER_PORT_DNMGR", -1)
                       /\ mgr.SERVER_PORT = dn.SERVER_PORT_MGR
                       /\ mgr.DNCnt = Number(file, "DN_CNT", memory)
                       /\ (\A i \in 1 .. Len(file) : ~Gives(file, "DNMGR_SERVER_IPs", i)) =>
                            dn.ManagerIpAddresses = <<memory>>
  BY Zenon DEF ConfigAsWritten
<1>1. PICK map : map = Load(file)
  OBVIOUS
<1>2. PICK dn : dn = ServerInfoDN(map, memory)
  OBVIOUS
<1>3. PICK mgr : mgr = ServerInfoDNMgr(map, memory)
  OBVIOUS
<1>4. /\ dn.THREAD_RECEIVER = Member(map, "THREAD_RECEIVER", -1)
      /\ dn.SERVER_PORT_MGR = Member(map, "SERVER_PORT_DNMGR", -1)
      /\ mgr.SERVER_PORT = Member(map, "SERVER_PORT_DNMGR", -1)
      /\ mgr.DNCnt = Member(map, "DN_CNT", memory)
  BY <1>2, <1>3 DEF ServerInfoDN, ServerInfoDNMgr, Find, Member
<1>5. /\ Member(map, "THREAD_RECEIVER", -1) = Number(file, "THREAD_RECEIVER", -1)
      /\ Member(map, "SERVER_PORT_DNMGR", -1) = Number(file, "SERVER_PORT_DNMGR", -1)
      /\ Member(map, "DN_CNT", memory) = Number(file, "DN_CNT", memory)
  BY <1>1, NumberRead, Keys
<1>6. ASSUME \A i \in 1 .. Len(file) : ~Gives(file, "DNMGR_SERVER_IPs", i)
      PROVE  dn.ManagerIpAddresses = <<memory>>
  <2>1. PICK r : r = Readable(file)
    OBVIOUS
  <2>2. /\ r \in Seq(Seq(V)) /\ \A i \in 1 .. Len(r) : r[i] = file[i]
        /\ \A i \in Nat : i \in 1 .. Len(r) <=>
             i \in 1 .. Len(file) /\ \A j \in 1 .. i : Len(file[j]) < MAX_LINE_SIZE
    BY <2>1, ReadableIs
  <2>3. KeyHeld(map, r, "DNMGR_SERVER_IPs")
    <3>1. AllFit(r)
      BY <2>1, ReadableFits
    <3> QED BY <1>1, <2>1, <2>2, <3>1, LinesHeld, Keys DEF Load
  <2>4. \A i \in 1 .. Len(r) : ~Assigns(r[i], "DNMGR_SERVER_IPs")
    BY <1>6, <2>2 DEF Gives, Reached
  <2>5. <<"DNMGR_SERVER_IPs">> \notin DOMAIN map
    BY <2>3, <2>4 DEF KeyHeld
  <2>6. GetProperty(map, "DNMGR_SERVER_IPs") = << >>
    BY <2>5 DEF GetProperty
  <2> QED BY <1>2, <2>6 DEF ServerInfoDN
<1>7. /\ dn.THREAD_RECEIVER = Number(file, "THREAD_RECEIVER", -1)
      /\ dn.SERVER_PORT_MGR = Number(file, "SERVER_PORT_DNMGR", -1)
      /\ mgr.SERVER_PORT = dn.SERVER_PORT_MGR
      /\ mgr.DNCnt = Number(file, "DN_CNT", memory)
  BY <1>4, <1>5
<1> QED BY <1>1, <1>2, <1>3, <1>6, <1>7, Zenon

\* The names of a list with the commas between them.
Joined(comma, names) ==
  FlattenSeq([i \in 1 .. Len(names) |-> IF i = 1 THEN names[i] ELSE <<comma>> \o names[i]])

\* One more name.
LEMMA JoinedAppend ==
  ASSUME NEW V, NEW comma \in V, NEW names \in Seq(Seq(V)), NEW x \in Seq(V)
  PROVE  Joined(comma, Append(names, x)) = IF names = << >> THEN x ELSE Joined(comma, names) \o (<<comma>> \o x)
<1> DEFINE Part(ns, i) == IF i = 1 THEN ns[i] ELSE <<comma>> \o ns[i]
           Parts(ns) == [i \in 1 .. Len(ns) |-> Part(ns, i)]
           more == Append(names, x)
           y == IF names = << >> THEN x ELSE <<comma>> \o x
<1>1. PICK n \in Nat : n = Len(names)
  OBVIOUS
<1>2. /\ more \in Seq(Seq(V)) /\ Len(more) = n + 1 /\ more[n + 1] = x
      /\ \A i \in 1 .. n : more[i] = names[i]
  BY <1>1
<1>3. names = << >> <=> n = 0
  BY <1>1
<1>4. y \in Seq(V)
  <2>1. <<comma>> \in Seq(V)
    OBVIOUS
  <2> QED BY <2>1
<1>5. ASSUME NEW i \in 1 .. n PROVE Part(names, i) \in Seq(V)
  <2>1. names[i] \in Seq(V)
    BY <1>1
  <2>2. <<comma>> \in Seq(V)
    OBVIOUS
  <2> QED BY <2>1, <2>2
<1>6. Parts(names) \in Seq(Seq(V)) /\ Len(Parts(names)) = n
  <2>1. Parts(names) \in [1 .. n -> Seq(V)]
    BY <1>1, <1>5
  <2> HIDE DEF Parts
  <2> QED BY <1>1, <2>1, FunctionIsSeq
<1>7. Parts(more) = Append(Parts(names), y)
  <2>1. \A i \in 1 .. n : Part(more, i) = Part(names, i)
    BY <1>1, <1>2
  <2>2. Part(more, n + 1) = y
    BY <1>1, <1>2, <1>3
  <2>3. PICK p : p = Parts(names)
    OBVIOUS
  <2>4. \A i \in 1 .. n : p[i] = Part(names, i)
    BY <1>1, <2>3
  <2>5. PICK q : q = Append(p, y)
    OBVIOUS
  <2>6. q \in Seq(Seq(V)) /\ Len(q) = n + 1 /\ q[n + 1] = y /\ \A i \in 1 .. n : q[i] = p[i]
    BY <1>4, <1>6, <2>3, <2>5, AppendFacts
  <2> HIDE DEF Part, y, more
  <2>7. \A i \in 1 .. n + 1 : q[i] = Part(more, i)
    <3>1. \A i \in 1 .. n + 1 : i \in 1 .. n \/ i = n + 1
      BY <1>1
    <3> QED BY <2>1, <2>2, <2>4, <2>6, <3>1
  <2>8. q = [i \in 1 .. n + 1 |-> Part(more, i)]
    <3>1. q = [i \in 1 .. n + 1 |-> q[i]]
      BY <2>6
    <3> QED BY <2>7, <3>1
  <2> QED BY <1>2, <2>3, <2>5, <2>8
<1>8. Joined(comma, names) = FlattenSeq(Parts(names)) /\ Joined(comma, more) = FlattenSeq(Parts(more))
  BY Zenon DEF Joined
<1> HIDE DEF Parts
<1>9. FlattenSeq(Append(Parts(names), y)) = FlattenSeq(Parts(names)) \o y
  BY <1>4, <1>6, FlattenAppend
<1>10. CASE names = << >>
  <2>1. Parts(names) = << >>
    BY <1>3, <1>6, <1>10
  <2>2. FlattenSeq(Parts(names)) \o y = x
    BY <1>10, <2>1, FlattenEmpty
  <2> QED BY <1>7, <1>8, <1>9, <1>10, <2>2
<1>11. CASE names # << >>
  BY <1>7, <1>8, <1>9, <1>11
<1> QED BY <1>10, <1>11

\* A list of names is a text.
LEMMA JoinedType ==
  ASSUME NEW V, NEW comma \in V
  PROVE  \A names \in Seq(Seq(V)) : Joined(comma, names) \in Seq(V)
<1> DEFINE S == {names \in Seq(Seq(V)) : Joined(comma, names) \in Seq(V)}
<1>1. << >> \in S
  <2>1. [i \in 1 .. Len(<< >>) |-> IF i = 1 THEN << >>[i] ELSE <<comma>> \o << >>[i]] = << >>
    OBVIOUS
  <2>2. Joined(comma, << >>) = << >>
    BY <2>1, FlattenEmpty DEF Joined
  <2>3. << >> \in Seq(Seq(V)) /\ << >> \in Seq(V)
    OBVIOUS
  <2> QED BY <2>2, <2>3
<1>2. ASSUME NEW names \in S \cap Seq(Seq(V)), NEW x \in Seq(V) PROVE Append(names, x) \in S
  <2>1. Joined(comma, Append(names, x)) = IF names = << >> THEN x ELSE Joined(comma, names) \o (<<comma>> \o x)
    BY JoinedAppend
  <2>2. Joined(comma, names) \in Seq(V) /\ <<comma>> \in Seq(V) /\ Append(names, x) \in Seq(Seq(V))
    OBVIOUS
  <2>3. Joined(comma, names) \o (<<comma>> \o x) \in Seq(V)
    BY <2>2, ConcatFacts
  <2>4. Joined(comma, Append(names, x)) \in Seq(V)
    BY <2>1, <2>3
  <2> QED BY <2>2, <2>4
<1> HIDE DEF S
<1>3. Seq(Seq(V)) \subseteq S
  BY <1>1, <1>2, SeqInduction
<1> QED BY <1>3 DEF S

\* The loop of split has taken s apart.
Splitting(comma, V, r, s) ==
  \E res \in Seq(Seq(V)), token \in Seq(V) :
    /\ r = [delimiter |-> comma, res |-> res, token |-> token]
    /\ \A i \in 1 .. Len(res) : comma \notin ToSet(res[i])
    /\ comma \notin ToSet(token)
    /\ Joined(comma, Append(res, token)) = s

\* One more character of the list.
LEMMA SplittingNext ==
  ASSUME NEW V, NEW comma \in V, NEW r, NEW s \in Seq(V), NEW c \in V, Splitting(comma, V, r, s)
  PROVE  Splitting(comma, V, Tokens(r, c), Append(s, c))
<1>1. PICK res \in Seq(Seq(V)), token \in Seq(V) :
        /\ r = [delimiter |-> comma, res |-> res, token |-> token]
        /\ \A i \in 1 .. Len(res) : comma \notin ToSet(res[i])
        /\ comma \notin ToSet(token)
        /\ Joined(comma, Append(res, token)) = s
  BY DEF Splitting
<1>2. CASE c = comma
  <2>1. PICK more : more = Append(res, token)
    OBVIOUS
  <2>2. Tokens(r, c) = [delimiter |-> comma, res |-> more, token |-> << >>]
    BY <1>1, <1>2, <2>1 DEF Tokens
  <2>3. more \in Seq(Seq(V)) /\ more # << >> /\ << >> \in Seq(V)
    BY <2>1
  <2>4. Joined(comma, Append(more, << >>)) = Joined(comma, more) \o (<<comma>> \o << >>)
    BY <2>3, JoinedAppend
  <2>5. s \o (<<comma>> \o << >>) = Append(s, c)
    BY <1>2
  <2>6. \A i \in 1 .. Len(more) : comma \notin ToSet(more[i])
    BY <1>1, <2>1
  <2>7. comma \notin ToSet(<< >>)
    BY DEF ToSet
  <2> QED BY <1>1, <2>1, <2>2, <2>3, <2>4, <2>5, <2>6, <2>7 DEF Splitting
<1>3. CASE c # comma
  <2>1. PICK longer : longer = Append(token, c)
    OBVIOUS
  <2>2. Tokens(r, c) = [delimiter |-> comma, res |-> res, token |-> longer]
    BY <1>1, <1>3, <2>1 DEF Tokens
  <2>3. longer \in Seq(V) /\ <<comma>> \in Seq(V)
    BY <2>1
  <2>4. comma \notin ToSet(longer)
    BY <1>1, <1>3, <2>1 DEF ToSet
  <2>5. Joined(comma, Append(res, longer)) = Append(s, c)
    <3>1. CASE res = << >>
      <4>1. Joined(comma, Append(res, longer)) = longer /\ Joined(comma, Append(res, token)) = token
        BY <2>3, <3>1, JoinedAppend
      <4> QED BY <1>1, <2>1, <4>1
    <3>2. CASE res # << >>
      <4>1. PICK j \in Seq(V) : j = Joined(comma, res)
        BY JoinedType
      <4>2. /\ Joined(comma, Append(res, longer)) = j \o (<<comma>> \o longer)
            /\ Joined(comma, Append(res, token)) = j \o (<<comma>> \o token)
        BY <2>3, <3>2, <4>1, JoinedAppend
      <4>3. PICK t \in Seq(V) : t = <<comma>> \o token
        BY <2>3, ConcatFacts
      <4>4. <<comma>> \o Append(token, c) = Append(t, c)
        BY <4>3
      <4>5. j \o Append(t, c) = Append(j \o t, c)
        BY <4>1, <4>3
      <4> QED BY <1>1, <2>1, <4>2, <4>3, <4>4, <4>5
    <3> QED BY <3>1, <3>2
  <2> QED BY <1>1, <2>2, <2>3, <2>4, <2>5 DEF Splitting
<1> QED BY <1>2, <1>3

\* split gives the names between the commas.
LEMMA SplitIs ==
  ASSUME NEW V, NEW comma \in V
  PROVE  \A s \in Seq(V) : LET names == split(s, comma)
                          IN  /\ names # << >> /\ \A i \in 1 .. Len(names) : comma \notin ToSet(names[i])
                              /\ Joined(comma, names) = s
<1> DEFINE base == [delimiter |-> comma, res |-> << >>, token |-> << >>]
           Run(s) == FoldLeft(Tokens, base, s)
           S == {s \in Seq(V) : Splitting(comma, V, Run(s), s)}
<1>1. << >> \in S
  <2>1. Run(<< >>) = base
    BY FoldLeftEmpty
  <2>2. << >> \in Seq(Seq(V)) /\ << >> \in Seq(V) /\ Len(<< >>) = 0
    OBVIOUS
  <2>3. Joined(comma, Append(<< >>, << >>)) = << >>
    BY <2>2, JoinedAppend
  <2>4. comma \notin ToSet(<< >>)
    BY DEF ToSet
  <2>5. Splitting(comma, V, base, << >>)
    <3>1. PICK e : e = << >>
      OBVIOUS
    <3>2. /\ e \in Seq(Seq(V)) /\ e \in Seq(V) /\ \A i \in 1 .. Len(e) : comma \notin ToSet(e[i])
          /\ comma \notin ToSet(e) /\ Joined(comma, Append(e, e)) = e
      BY <2>2, <2>3, <2>4, <3>1
    <3>3. base = [delimiter |-> comma, res |-> e, token |-> e]
      BY <3>1
    <3> HIDE DEF base
    <3>4. Splitting(comma, V, base, e)
      BY <3>2, <3>3 DEF Splitting
    <3> QED BY <3>1, <3>4
  <2> QED BY <2>1, <2>2, <2>5
<1>2. ASSUME NEW s \in S \cap Seq(V), NEW c \in V PROVE Append(s, c) \in S
  <2>1. Folds(Tokens, base, s, c)
    BY FoldLeftAppend
  <2>2. Run(Append(s, c)) = Tokens(Run(s), c)
    BY <2>1 DEF Folds
  <2>3. Splitting(comma, V, Run(s), s)
    OBVIOUS
  <2>4. Append(s, c) \in Seq(V)
    OBVIOUS
  <2> HIDE DEF Run
  <2>5. Splitting(comma, V, Tokens(Run(s), c), Append(s, c))
    BY <2>3, SplittingNext
  <2> QED BY <2>2, <2>4, <2>5
<1> HIDE DEF S
<1>3. Seq(V) \subseteq S
  BY <1>1, <1>2, SeqInduction
<1> SUFFICES ASSUME NEW s \in Seq(V)
             PROVE  LET names == split(s, comma)
                    IN  /\ names # << >> /\ \A i \in 1 .. Len(names) : comma \notin ToSet(names[i])
                        /\ Joined(comma, names) = s
  OBVIOUS
<1>4. Splitting(comma, V, Run(s), s)
  BY <1>3 DEF S
<1>5. PICK res \in Seq(Seq(V)), token \in Seq(V) :
        /\ Run(s) = [delimiter |-> comma, res |-> res, token |-> token]
        /\ \A i \in 1 .. Len(res) : comma \notin ToSet(res[i])
        /\ comma \notin ToSet(token)
        /\ Joined(comma, Append(res, token)) = s
  BY <1>4 DEF Splitting
<1>6. PICK names : names = Append(res, token)
  OBVIOUS
<1>7. split(s, comma) = names
  BY <1>5, <1>6 DEF split
<1>8. names # << >> /\ \A i \in 1 .. Len(names) : comma \notin ToSet(names[i])
  <2>1. PICK n \in Nat : n = Len(res)
    OBVIOUS
  <2>2. Len(names) = n + 1 /\ names[n + 1] = token /\ \A i \in 1 .. n : names[i] = res[i]
    BY <1>6, <2>1
  <2>3. \A i \in 1 .. n + 1 : i \in 1 .. n \/ i = n + 1
    BY <2>1
  <2>4. names # << >>
    BY <2>1, <2>2
  <2>5. ASSUME NEW i \in 1 .. n + 1 PROVE comma \notin ToSet(names[i])
    BY <1>5, <2>1, <2>2, <2>3
  <2> QED BY <2>2, <2>4, <2>5
<1>9. Joined(comma, names) = s
  BY <1>5, <1>6
<1> QED BY <1>7, <1>8, <1>9

\* For every list: the names are those between the commas (ChatServer.cpp:152).
THEOREM EveryListSplit ==
  ASSUME NEW V, "," \in V
  PROVE  \A s \in Seq(V) : SplitInverts(s)
<1> SUFFICES ASSUME NEW s \in Seq(V) PROVE SplitInverts(s)
  OBVIOUS
<1> DEFINE names == split(s, ",")
<1>1. names # << >> /\ (\A i \in 1 .. Len(names) : "," \notin ToSet(names[i])) /\ Joined(",", names) = s
  BY SplitIs, Zenon
<1> HIDE DEF names
<1> QED BY <1>1, Zenon DEF SplitInverts, Joined, names

(***************************************************************************)
(* The runs                                                                *)
(***************************************************************************)
\* The run puts an input of its topic together, piece by piece.
InputInv == topic \in DOMAIN Pieces /\ input \in Seq(Pieces[topic])

\* Extend appends a piece of the topic, which stays.
LEMMA InputAlways == Spec => []InputInv
<1>1. Init => InputInv
  BY DEF Init, InputInv
<1>2. InputInv /\ [Next]_vars => InputInv'
  <2> SUFFICES ASSUME InputInv, [Next]_vars PROVE InputInv'
    OBVIOUS
  <2>1. ASSUME NEW t \in DOMAIN Pieces, Extend(t) PROVE InputInv'
    <3>1. topic = t /\ topic' = topic
      BY <2>1 DEF Extend
    <3>2. PICK p \in Pieces[t] : input' = Append(input, p)
      BY <2>1 DEF Extend
    <3> DEFINE V == Pieces[t]
    <3>3. input \in Seq(V) /\ p \in V
      BY <3>1 DEF InputInv
    <3> HIDE DEF V
    <3>4. input' \in Seq(V)
      BY <3>2, <3>3
    <3> QED BY <2>1, <3>1, <3>4 DEF InputInv, V
  <2>2. CASE UNCHANGED vars
    BY <2>2 DEF vars, InputInv
  <2> QED BY <2>1, <2>2 DEF Next
<1> QED BY <1>1, <1>2, PTL DEF Spec

\* The pieces of the run.
LEMMA BytesType == \A n \in Nat : Bytes(n) \in Seq(Nat) /\ Len(Bytes(n)) = n
<1> TAKE n \in Nat
<1>1. Bytes(n) \in [1 .. n -> Nat]
  BY DEF Bytes
<1> QED BY <1>1, FunctionIsSeq

\* The pieces of the topics are texts, bytes and chunks, as the theorems above want them.
LEMMA PiecesType ==
  /\ Pieces["frames"] \subseteq Seq(Nat)
  /\ Pieces["url"] \subseteq Byte
  /\ Pieces["sha"] \subseteq Chunk
  /\ Pieces["client"] \subseteq Typed
<1>1. Pieces["frames"] \subseteq Seq(Nat)
  <2>1. MAX_MESSAGE_SIZE \in Nat /\ 1 \in Nat /\ 2 \in Nat
    BY FramingAssumption
  <2>2. Pieces["frames"] = {Bytes(n) : n \in {1, 2, MAX_MESSAGE_SIZE}}
    BY DEF Pieces
  <2> QED BY <2>1, <2>2, BytesType
<1>2. Pieces["url"] \subseteq Byte
  <2>1. Pieces["url"] = {32, 37, 65, 97, 43, 159, 160, 255}
    BY DEF Pieces
  <2> QED BY <2>1 DEF Byte
<1>3. Pieces["sha"] \subseteq Chunk
  <2>1. Pieces["sha"] = {Bytes(n) : n \in {0, 1, 3, 5, 8, 17}}
    BY DEF Pieces
  <2>2. Word \in Nat /\ \A n \in {0, 1, 3, 5, 8, 17} : n \in Nat /\ n < Word
    BY WordFacts, MCAlgorithmsAssumption
  <2>3. \A n \in {0, 1, 3, 5, 8, 17} : Bytes(n) \in Chunk
    BY <2>2, BytesType DEF Chunk
  <2> QED BY <2>1, <2>3
<1>4. Pieces["client"] \subseteq Typed
  <2>1. Pieces["client"] = {97, Newline, Quit}
    BY DEF Pieces
  <2> QED BY <2>1 DEF Typed, Newline, Quit, NUL
<1> QED BY <1>1, <1>2, <1>3, <1>4

\* In every state of the run, with no bound on the number of texts: each text arrives at the
\* users of another server (ChatServer.cpp:372, Client.cpp:129, ChatManager.cpp:283).
THEOREM TextsRelayedAlways == Spec => []TextsRelayed
<1>1. InputInv => TextsRelayed
  <2> SUFFICES ASSUME InputInv, topic = "frames" PROVE RelayedText(input, 7)
    BY DEF TextsRelayed
  <2>1. input \in Seq(Pieces["frames"])
    BY DEF InputInv
  <2>2. input \in Seq(Seq(Nat))
    BY <2>1, PiecesType, SeqSubset
  <2> QED BY <2>2, EveryTextRelayed
<1> QED BY <1>1, InputAlways, PTL

\* In every state of the run, with no bound on the number of chunks or bytes: the blocks that
\* are hashed are those of the padded message (NPUtil.cpp:856), and URLDecode inverts the
\* encoding or refuses (NPUtil.cpp:624).
THEOREM UtilitiesRightAlways == Spec => []UtilitiesRight
<1>1. InputInv => UtilitiesRight
  <2>1. ASSUME InputInv, topic = "sha" PROVE Sha256Streams(input)
    <3>1. input \in Seq(Pieces["sha"])
      BY <2>1 DEF InputInv
    <3>2. input \in Seq(Chunk)
      BY <3>1, PiecesType, SeqSubset
    <3> QED BY <3>2, EveryCutStreams
  <2>2. ASSUME InputInv, topic = "url" PROVE DecodeInvertsEncode(input)
    <3>1. input \in Seq(Pieces["url"])
      BY <2>2 DEF InputInv
    <3>2. input \in Seq(Byte)
      BY <3>1, PiecesType, SeqSubset
    <3> QED BY <3>2, DecodeInverts
  <2> QED BY <2>1, <2>2 DEF UtilitiesRight
<1> QED BY <1>1, InputAlways, PTL

\* In every state of the run, with no bound on what is typed: it is sent, and shown to the
\* users of another server (chat_client.c:32 and 60).
THEOREM TypedShownAlways == Spec => []TypedShown
<1>1. InputInv => TypedShown
  <2> SUFFICES ASSUME InputInv, topic = "client" PROVE ClientSends(input) /\ ClientShows(input)
    BY DEF TypedShown
  <2>1. input \in Seq(Pieces["client"])
    BY DEF InputInv
  <2>2. input \in Seq(Typed)
    BY <2>1, PiecesType, SeqSubset
  <2> QED BY <2>2, EverythingTypedSent, EverythingSentShown
<1> QED BY <1>1, InputAlways, PTL

\* The characters and names of the lines.
Chars == {" ", "#", "=", "1", "2", "3", "9", "x", "DN_CNT", "THREAD_RECEIVER", "SERVER_PORT_DNMGR"}

\* The lines of the run are texts.
LEMMA LinesType == Lines \subseteq Seq(Chars)
<1>1. \A a \in Chars : <<a>> \in Seq(Chars)
  OBVIOUS
<1>2. \A a, b \in Chars : <<a, b>> \in Seq(Chars)
  OBVIOUS
<1>3. \A a, b, c \in Chars : <<a, b, c>> \in Seq(Chars)
  OBVIOUS
<1>4. \A a, b, c, d \in Chars : <<a, b, c, d>> \in Seq(Chars)
  OBVIOUS
<1>5. \A a, b, c, d, e \in Chars : <<a, b, c, d, e>> \in Seq(Chars)
  OBVIOUS
<1>6. \A a, b, c, d, e, f \in Chars : <<a, b, c, d, e, f>> \in Seq(Chars)
  OBVIOUS
<1>7. \A a, b, c, d, e, f, g, h \in Chars : <<a, b, c, d, e, f, g, h>> \in Seq(Chars)
  OBVIOUS
<1>8. << >> \in Seq(Chars)
  OBVIOUS
<1>9. /\ " " \in Chars /\ "#" \in Chars /\ "=" \in Chars /\ "1" \in Chars /\ "2" \in Chars /\ "3" \in Chars
      /\ "9" \in Chars /\ "x" \in Chars /\ "DN_CNT" \in Chars /\ "THREAD_RECEIVER" \in Chars
      /\ "SERVER_PORT_DNMGR" \in Chars
  BY DEF Chars
<1> HIDE DEF Chars
<1>10. <<"#", "DN_CNT", "=", "3">> \in Seq(Chars)
  BY <1>4, <1>9, Zenon
<1>11. <<"DN_CNT">> \in Seq(Chars)
  BY <1>1, <1>9, Zenon
<1>12. <<"DN_CNT", "=">> \in Seq(Chars)
  BY <1>2, <1>9, Zenon
<1>13. <<"=", "3">> \in Seq(Chars)
  BY <1>2, <1>9, Zenon
<1>14. <<"DN_CNT", "=", "1", "2">> \in Seq(Chars)
  BY <1>4, <1>9, Zenon
<1>15. <<" ", "DN_CNT", " ", "=", " ", "3">> \in Seq(Chars)
  BY <1>6, <1>9, Zenon
<1>16. <<"DN_CNT", "=", " ">> \in Seq(Chars)
  BY <1>3, <1>9, Zenon
<1>17. <<"THREAD_RECEIVER", "=", "2", "=", "3">> \in Seq(Chars)
  BY <1>5, <1>9, Zenon
<1>18. <<"THREAD_RECEIVER", "=", "x">> \in Seq(Chars)
  BY <1>3, <1>9, Zenon
<1>19. <<"SERVER_PORT_DNMGR", "=", "9", "9", " ">> \in Seq(Chars)
  BY <1>5, <1>9, Zenon
<1>20. <<"DN_CNT", "=", "1", " ", " ", " ", " ", " ">> \in Seq(Chars)
  BY <1>7, <1>9, Zenon
<1>21. <<"DN_CNT", "=", "1", "2", "3", "9">> \in Seq(Chars)
  BY <1>6, <1>9, Zenon
<1>22. <<"THREAD_RECEIVER", " ", " ", " ", "=", "1">> \in Seq(Chars)
  BY <1>6, <1>9, Zenon
<1> QED BY <1>8, <1>10, <1>11, <1>12, <1>13, <1>14, <1>15, <1>16, <1>17, <1>18, <1>19, <1>20, <1>21, <1>22,
           Zenon DEF Lines

\* In every state of the run, with no bound on the number of lines or of tokens: when its names
\* and values fit into AddMap's buffers, the processes start with what the file says, and split gives the names of the list (Properties.cpp:9,
\* ChatServer.cpp:152).
THEOREM ConfigReadAlways == Spec => []ConfigRead
<1>1. InputInv => ConfigRead
  <2>1. ASSUME InputInv, topic = "config" PROVE ConfigAsWritten(input, garbage)
    <3>1. input \in Seq(Pieces["config"])
      BY <2>1 DEF InputInv
    <3>2. Pieces["config"] = Lines
      BY DEF Pieces
    <3>3. input \in Seq(Seq(Chars))
      BY <3>1, <3>2, LinesType, SeqSubset
    <3> QED BY <3>3, EveryFileRead
  <2>2. ASSUME InputInv, topic = "split" PROVE SplitInverts(input)
    <3> DEFINE V == Pieces["split"]
    <3>1. input \in Seq(V)
      BY <2>2 DEF InputInv
    <3>2. V = {"host1", "host2", ","}
      BY DEF Pieces
    <3>3. "," \in V
      BY <3>2, Zenon
    <3> HIDE DEF V
    <3> QED BY <3>1, <3>3, EveryListSplit, Zenon
  <2> QED BY <2>1, <2>2 DEF ConfigRead
<1> QED BY <1>1, InputAlways, PTL
=============================================================================
