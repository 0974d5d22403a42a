---------------------------- MODULE SequenceFacts ----------------------------
(***************************************************************************)
(* Facts of sequences and numbers that the proofs share: induction over    *)
(* the natural numbers as a fact about sets, and, by it, what recursive    *)
(* functions over 0..n and FlattenSeq return.                              *)
(*                                                                         *)
(* The library's induction takes the predicate as an operator, which the   *)
(* installed provers cannot instantiate; here it is the set of numbers     *)
(* that have it, and the well-foundedness of < on Nat is cited instead.    *)
(***************************************************************************)
EXTENDS Integers, Selection, SequenceTheorems, WellFoundedInduction, TLAPS

\* A set of numbers that holds 0 and the successor of its members holds them all.
LEMMA NatSetInduction ==
  ASSUME NEW S, 0 \in S, \A n \in Nat : n \in S => n + 1 \in S
  PROVE  Nat \subseteq S
<1> DEFINE T == Nat \ S
<1> SUFFICES ASSUME T # {}
             PROVE  FALSE
  OBVIOUS
<1>1. PICK x \in T : \A y \in T : ~ (<<y, x>> \in OpToRel(<, Nat))
  BY NatLessThanWellFounded, WFMin
<1>2. OpToRel(<, Nat) = {ss \in Nat \X Nat : ss[1] < ss[2]}
  BY Zenon DEF OpToRel
<1>3. \A y \in T : ~ (y < x)
  BY <1>1, <1>2
<1>4. x # 0 /\ x \in Nat
  OBVIOUS
<1>5. x - 1 \in Nat /\ x - 1 < x /\ x - 1 \notin T
  BY <1>3, <1>4
<1>6. x - 1 \in S
  BY <1>5
<1>7. (x - 1) + 1 \in S
  BY <1>5, <1>6
<1>8. (x - 1) + 1 = x
  BY <1>4
<1> QED BY <1>7, <1>8

\* A nonempty set of numbers up to a bound has a greatest member.
LEMMA BoundedSetHasMax ==
  ASSUME NEW T, T \subseteq Nat, T # {}, NEW n \in Nat, \A t \in T : t <= n
  PROVE  \E x \in T : \A y \in T : x >= y
<1> DEFINE S == {k \in Nat : (\A t \in T : t <= k) => \E x \in T : \A y \in T : x >= y}
<1>1. 0 \in S
  <2>1. (\A t \in T : t <= 0) => \A t \in T : t = 0
    OBVIOUS
  <2> QED BY <2>1
<1>2. ASSUME NEW k \in Nat, k \in S
      PROVE  k + 1 \in S
  <2> SUFFICES ASSUME \A t \in T : t <= k + 1
               PROVE  \E x \in T : \A y \in T : x >= y
    OBVIOUS
  <2>1. CASE k + 1 \in T
    BY <2>1
  <2>2. CASE k + 1 \notin T
    <3>1. \A t \in T : t <= k
      BY <2>2
    <3> QED BY <1>2, <3>1
  <2> QED BY <2>1, <2>2
<1> HIDE DEF S
<1>3. Nat \subseteq S
  BY <1>1, <1>2, NatSetInduction
<1> QED BY <1>3 DEF S
-------------------------------------------------------------------------------
\* h begins with d and goes on by step.
Recurs(h, D, d, step) ==
  /\ h \in [Nat -> D] /\ h[0] = d
  /\ \A n \in Nat : h[n + 1] = step[n][h[n]]

\* A start and a step define a function on the natural numbers.
LEMMA NatRecursion ==
  ASSUME NEW D, NEW d \in D, NEW step \in [Nat -> [D -> D]]
  PROVE  \E h : Recurs(h, D, d, step)
<1> DEFINE Upto(n, f) == /\ f \in [0..n -> D] /\ f[0] = d
                         /\ \A i \in 0..(n - 1) : f[i + 1] = step[i][f[i]]
           S == {n \in Nat : \E f : Upto(n, f)}
<1>1. 0 \in S
  <2> DEFINE f == [i \in 0..0 |-> d]
  <2>1. Upto(0, f)
    OBVIOUS
  <2> QED BY <2>1
<1>2. ASSUME NEW n \in Nat, n \in S
      PROVE  n + 1 \in S
  <2>1. PICK f : Upto(n, f)
    BY <1>2
  <2> DEFINE g == [i \in 0..(n + 1) |-> IF i = n + 1 THEN step[n][f[n]] ELSE f[i]]
  <2>2. f[n] \in D /\ step[n][f[n]] \in D
    <3>1. f[n] \in D
      BY <2>1
    <3> QED BY <3>1
  <2>3. g \in [0..(n + 1) -> D]
    BY <2>1, <2>2
  <2>4. g[0] = d /\ g[n + 1] = step[n][f[n]] /\ \A i \in 0..n : g[i] = f[i]
    BY <2>1
  <2> HIDE DEF g
  <2>5. ASSUME NEW i \in 0..n
        PROVE  g[i + 1] = step[i][g[i]]
    <3>1. CASE i = n
      BY <2>4, <3>1
    <3>2. CASE i # n
      <4>1. i \in 0..(n - 1) /\ i + 1 \in 0..n /\ i \in 0..n
        BY <3>2
      <4>2. f[i + 1] = step[i][f[i]]
        BY <2>1, <4>1
      <4> QED BY <2>4, <4>1, <4>2
    <3> QED BY <3>1, <3>2
  <2>6. Upto(n + 1, g)
    BY <2>3, <2>4, <2>5
  <2> HIDE DEF Upto
  <2> QED BY <2>6
<1> HIDE DEF S
<1>3. Nat \subseteq S
  BY <1>1, <1>2, NatSetInduction
<1>4. \A n \in Nat : \E f : Upto(n, f)
  BY <1>3 DEF S
<1> DEFINE F == [n \in Nat |-> CHOOSE f : Upto(n, f)]
<1>5. \A n \in Nat : Upto(n, F[n])
  <2> HIDE DEF Upto
  <2> QED BY <1>4
<1> HIDE DEF F
\* Two such functions agree where both are defined.
<1>6. ASSUME NEW n \in Nat
      PROVE  F[n + 1][n] = F[n][n]
  <2> DEFINE A == {i \in Nat : i <= n => F[n + 1][i] = F[n][i]}
             f == F[n]
             g == F[n + 1]
  <2>1. Upto(n, f) /\ Upto(n + 1, g)
    BY <1>5
  <2> HIDE DEF f, g
  <2>2. f[0] = g[0]
    BY <2>1
  <2>3. ASSUME NEW i \in Nat, i <= n => g[i] = f[i], i + 1 <= n
        PROVE  g[i + 1] = f[i + 1]
    <3>1. i \in 0..(n - 1) /\ i \in 0..((n + 1) - 1) /\ i <= n
      BY <2>3
    <3>2. f[i + 1] = step[i][f[i]]
      BY <2>1, <3>1
    <3>3. g[i + 1] = step[i][g[i]]
      BY <2>1, <3>1
    <3> QED BY <2>3, <3>1, <3>2, <3>3
  <2>4. 0 \in A /\ \A i \in Nat : i \in A => i + 1 \in A
    BY <2>2, <2>3 DEF f, g
  <2> HIDE DEF A
  <2>5. Nat \subseteq A
    BY <2>4, NatSetInduction
  <2> QED BY <2>5 DEF A
<1> DEFINE h == [n \in Nat |-> F[n][n]]
<1>7. h \in [Nat -> D]
  BY <1>5
<1>8. h[0] = d
  BY <1>5
<1>9. ASSUME NEW n \in Nat
      PROVE  h[n + 1] = step[n][h[n]]
  <2>1. F[n + 1][n + 1] = step[n][F[n + 1][n]]
    <3>1. Upto(n + 1, F[n + 1])
      <4> HIDE DEF Upto
      <4>1. n + 1 \in Nat
        OBVIOUS
      <4> QED BY <1>5, <4>1
    <3>2. n \in 0..((n + 1) - 1)
      OBVIOUS
    <3> QED BY <3>1, <3>2
  <2> QED BY <2>1, <1>6
<1> HIDE DEF h
<1> QED BY <1>7, <1>8, <1>9 DEF Recurs
-------------------------------------------------------------------------------
\* f joins the sequences of seqs one after another.
Joins(f, seqs, S) ==
  /\ f \in [0..Len(seqs) -> Seq(S)] /\ f[0] = <<>>
  /\ \A i \in 1..Len(seqs) : f[i] = f[i - 1] \o seqs[i]

\* What was joined of two sequences is the same as far as they are.
LEMMA JoinsAgree ==
  ASSUME NEW S, NEW s \in Seq(Seq(S)), NEW t \in Seq(Seq(S)), NEW f, NEW g,
         Joins(f, s, S), Joins(g, t, S),
         NEW n \in Nat, n <= Len(s), n <= Len(t), \A i \in 1..n : s[i] = t[i]
  PROVE  f[n] = g[n]
<1> DEFINE A == {i \in Nat : i <= n => f[i] = g[i]}
<1>1. f[0] = g[0]
  BY DEF Joins
<1>2. ASSUME NEW i \in Nat, i <= n => f[i] = g[i], i + 1 <= n
      PROVE  f[i + 1] = g[i + 1]
  <2>1. i + 1 \in 1..Len(s) /\ i + 1 \in 1..Len(t) /\ i + 1 \in 1..n /\ (i + 1) - 1 = i /\ i <= n
    BY <1>2
  <2>2. f[i + 1] = f[i] \o s[i + 1]
    BY <2>1 DEF Joins
  <2>3. g[i + 1] = g[i] \o t[i + 1]
    BY <2>1 DEF Joins
  <2> QED BY <1>2, <2>1, <2>2, <2>3
<1>3. 0 \in A /\ \A i \in Nat : i \in A => i + 1 \in A
  BY <1>1, <1>2
<1> HIDE DEF A
<1>4. Nat \subseteq A
  BY <1>3, NatSetInduction
<1> QED BY <1>4 DEF A

\* FlattenSeq joins.
LEMMA FlattenJoins ==
  ASSUME NEW S, NEW seqs \in Seq(Seq(S))
  PROVE  \E f : Joins(f, seqs, S) /\ FlattenSeq(seqs) = f[Len(seqs)]
<1> DEFINE n == Len(seqs)
           D == Seq(S)
           d == <<>>
           step == [i \in Nat |-> [s \in D |->
                      s \o IF i + 1 \in 1..n THEN seqs[i + 1] ELSE <<>>]]
<1>0. n \in Nat /\ \A i \in 1..n : seqs[i] \in Seq(S)
  OBVIOUS
<1> HIDE DEF n
<1>1. d \in D /\ step \in [Nat -> [D -> D]]
  BY <1>0
<1>2. \A i \in Nat, s \in D : i + 1 \in 1..n => step[i][s] = s \o seqs[i + 1]
  OBVIOUS
<1> HIDE DEF D, step, d
<1>r. PICK h : Recurs(h, D, d, step)
  BY <1>1, NatRecursion
<1>3. h \in [Nat -> D] /\ h[0] = <<>> /\ \A i \in Nat : h[i + 1] = step[i][h[i]]
  BY <1>r DEF Recurs, d
<1>4. ASSUME NEW i \in 1..n
      PROVE  h[i] = h[i - 1] \o seqs[i]
  <2>1. i - 1 \in Nat /\ (i - 1) + 1 = i
    OBVIOUS
  <2>2. h[(i - 1) + 1] = step[i - 1][h[i - 1]]
    BY <1>3, <2>1
  <2> QED BY <1>2, <1>3, <2>1, <2>2
<1> DEFINE f == [i \in 0..n |-> h[i]]
<1>5. Joins(f, seqs, S)
  <2>1. f \in [0..n -> Seq(S)] /\ f[0] = <<>>
    BY <1>0, <1>3 DEF D
  <2>2. ASSUME NEW i \in 1..n
        PROVE  f[i] = f[i - 1] \o seqs[i]
    <3>1. i \in 0..n /\ i - 1 \in 0..n
      BY <1>0
    <3>2. f[i] = h[i] /\ f[i - 1] = h[i - 1]
      BY <3>1
    <3> QED BY <1>4, <3>2
  <2> HIDE DEF f
  <2> QED BY <2>1, <2>2 DEF Joins, n
<1>6. CASE n = 0
  <2>1. seqs = <<>>
    BY <1>6 DEF n
  <2>2. FlattenSeq(seqs) = seqs
    BY <1>6 DEF FlattenSeq, n
  <2>3. f[n] = <<>>
    BY <1>3, <1>6
  <2> HIDE DEF f
  <2> QED BY <1>5, <2>1, <2>2, <2>3 DEF n
<1>7. CASE n # 0
  <2> DEFINE Def(e) == [i \in 1..n |-> IF i = 1 THEN seqs[i] ELSE e[i - 1] \o seqs[i]]
             made == [i \in 1..n |-> h[i]]
             flat == CHOOSE e : e = Def(e)
  <2>0. h[1] = seqs[1]
    <3>1. 1 \in 1..n /\ 1 - 1 = 0 /\ h[0] = <<>> /\ seqs[1] \in Seq(S)
      BY <1>0, <1>3, <1>7
    <3>2. h[1] = h[0] \o seqs[1]
      BY <1>4, <3>1
    <3> QED BY <3>1, <3>2, ConcatEmptySeq
  <2>1. made = Def(made)
    <3>1. \A i \in 1..n : i # 1 => i - 1 \in 1..n
      BY <1>0
    <3>2. h[1] = seqs[1]
      BY <2>0
    <3> QED BY <1>4, <3>1, <3>2
  <2> HIDE DEF Def, made
  <2>2. flat = Def(flat)
    BY <2>1
  <2> HIDE DEF flat
  <2> USE DEF Def
  <2> DEFINE A == {i \in Nat : i \in 1..n => flat[i] = h[i]}
  <2>3. 0 \in A
    OBVIOUS
  <2>4. ASSUME NEW i \in Nat, i \in A
        PROVE  i + 1 \in A
    <3> SUFFICES ASSUME i + 1 \in 1..n
                 PROVE  flat[i + 1] = h[i + 1]
      OBVIOUS
    <3>1. flat[i + 1] = IF i + 1 = 1 THEN seqs[i + 1] ELSE flat[(i + 1) - 1] \o seqs[i + 1]
      BY <2>2
    <3>2. h[i + 1] = h[(i + 1) - 1] \o seqs[i + 1]
      BY <1>4
    <3>3. CASE i = 0
      BY <2>0, <3>1, <3>3
    <3>4. CASE i # 0
      <4>1. i \in 1..n /\ (i + 1) - 1 = i /\ i + 1 # 1
        BY <1>0, <3>4
      <4>2. flat[i] = h[i]
        BY <2>4, <4>1
      <4>3. flat[i + 1] = flat[i] \o seqs[i + 1]
        BY <3>1, <4>1
      <4>4. h[i + 1] = h[i] \o seqs[i + 1]
        BY <3>2, <4>1
      <4> QED BY <4>2, <4>3, <4>4
    <3> QED BY <3>3, <3>4
  <2> HIDE DEF A
  <2>5. Nat \subseteq A
    BY <2>3, <2>4, NatSetInduction
  <2>6. flat[n] = h[n]
    <3>1. n \in Nat /\ n \in 1..n
      BY <1>0, <1>7
    <3> QED BY <2>5, <3>1 DEF A
  <2>7. FlattenSeq(seqs) = flat[n]
    BY <1>7 DEF FlattenSeq, n, flat
  <2>8. f[n] = h[n]
    BY <1>0
  <2> HIDE DEF f
  <2> QED BY <1>5, <2>6, <2>7, <2>8 DEF n
<1> QED BY <1>6, <1>7

\* FlattenSeq of sequences over a set.
LEMMA FlattenType ==
  ASSUME NEW S, NEW seqs \in Seq(Seq(S))
  PROVE  FlattenSeq(seqs) \in Seq(S)
<1>1. PICK f : Joins(f, seqs, S) /\ FlattenSeq(seqs) = f[Len(seqs)]
  BY FlattenJoins
<1>2. Len(seqs) \in 0..Len(seqs)
  OBVIOUS
<1> QED BY <1>1, <1>2 DEF Joins

\* FlattenSeq of nothing.
LEMMA FlattenEmpty == FlattenSeq(<<>>) = <<>>
BY DEF FlattenSeq

\* FlattenSeq of one more sequence.
LEMMA FlattenAppend ==
  ASSUME NEW S, NEW seqs \in Seq(Seq(S)), NEW s \in Seq(S)
  PROVE  FlattenSeq(Append(seqs, s)) = FlattenSeq(seqs) \o s
<1> DEFINE more == Append(seqs, s)
           n == Len(seqs)
<1>1. /\ more \in Seq(Seq(S)) /\ Len(more) = n + 1 /\ more[n + 1] = s
      /\ \A i \in 1..n : more[i] = seqs[i]
  OBVIOUS
<1>2. n \in Nat
  OBVIOUS
<1> HIDE DEF more
<1>3. PICK f : Joins(f, seqs, S) /\ FlattenSeq(seqs) = f[n]
  BY FlattenJoins
<1>4. PICK g : Joins(g, more, S) /\ FlattenSeq(more) = g[n + 1]
  BY <1>1, FlattenJoins
<1>5. g[n + 1] = g[n] \o s
  <2>1. n + 1 \in 1..Len(more) /\ (n + 1) - 1 = n
    BY <1>1, <1>2
  <2> QED BY <1>1, <1>4, <2>1 DEF Joins
<1>6. f[n] = g[n]
  <2>1. n <= n /\ n <= Len(more) /\ \A i \in 1..n : seqs[i] = more[i]
    <3>1. n <= n /\ n <= Len(more)
      BY <1>1, <1>2
    <3>2. \A i \in 1..n : seqs[i] = more[i]
      BY <1>1
    <3> QED BY <3>1, <3>2
  <2>2. n <= Len(seqs) /\ more \in Seq(Seq(S)) /\ Joins(f, seqs, S) /\ Joins(g, more, S)
    BY <1>1, <1>2, <1>3, <1>4
  <2> HIDE DEF n
  <2> QED BY <1>2, <2>1, <2>2, JoinsAgree
<1> QED BY <1>3, <1>4, <1>5, <1>6 DEF more
-------------------------------------------------------------------------------
\* What comes after the first b elements of a sequence.
LEMMA RestOfSeq ==
  ASSUME NEW S, NEW s \in Seq(S), NEW b \in Nat, b <= Len(s)
  PROVE  /\ SubSeq(s, b + 1, Len(s)) \in Seq(S)
         /\ Len(SubSeq(s, b + 1, Len(s))) = Len(s) - b
         /\ \A i \in 1..(Len(s) - b) : SubSeq(s, b + 1, Len(s))[i] = s[b + i]
<1>1. PICK n \in Nat : n = Len(s)
  OBVIOUS
<1>2. \A i \in (b + 1)..n : s[i] \in S
  BY <1>1
<1>3. b + 1 \in Int /\ n \in Int
  OBVIOUS
<1>4. /\ SubSeq(s, b + 1, n) \in Seq(S)
      /\ Len(SubSeq(s, b + 1, n)) = IF b + 1 <= n THEN n - (b + 1) + 1 ELSE 0
      /\ \A i \in 1..(n - (b + 1) + 1) : SubSeq(s, b + 1, n)[i] = s[(b + 1) + i - 1]
  BY ONLY <1>2, <1>3, SubSeqProperties
<1>5. /\ (IF b + 1 <= n THEN n - (b + 1) + 1 ELSE 0) = n - b
      /\ n - (b + 1) + 1 = n - b
      /\ \A i \in 1..(n - b) : (b + 1) + i - 1 = b + i
  BY <1>1
<1> QED BY <1>1, <1>4, <1>5

\* It grows with the sequence.
LEMMA RestGrows ==
  ASSUME NEW S, NEW s \in Seq(S), NEW x \in S, NEW b \in Nat, b <= Len(s)
  PROVE  SubSeq(Append(s, x), b + 1, Len(Append(s, x)))
           = Append(SubSeq(s, b + 1, Len(s)), x)
<1> DEFINE more == Append(s, x)
           rest == SubSeq(s, b + 1, Len(s))
           new  == SubSeq(more, b + 1, Len(more))
<1>1. PICK n \in Nat : n = Len(s)
  OBVIOUS
<1>2. /\ more \in Seq(S) /\ Len(more) = n + 1 /\ more[n + 1] = x
      /\ \A i \in 1..n : more[i] = s[i]
  BY <1>1
<1> HIDE DEF more
<1>3. rest \in Seq(S) /\ Len(rest) = n - b /\ \A i \in 1..(n - b) : rest[i] = s[b + i]
  BY <1>1, RestOfSeq
<1>4. /\ new \in Seq(S) /\ Len(new) = n + 1 - b
      /\ \A i \in 1..(n + 1 - b) : new[i] = more[b + i]
  <2>1. b <= Len(more) /\ Len(more) - b = n + 1 - b
    BY <1>1, <1>2
  <2> QED BY <1>2, <2>1, RestOfSeq
<1> HIDE DEF rest, new
<1> DEFINE app == Append(rest, x)
<1>5. /\ app \in Seq(S) /\ Len(app) = n + 1 - b /\ app[n + 1 - b] = x
      /\ \A i \in 1..(n - b) : app[i] = rest[i]
  <2>1. /\ app \in Seq(S) /\ Len(app) = Len(rest) + 1 /\ app[Len(rest) + 1] = x
        /\ \A i \in 1..Len(rest) : app[i] = rest[i]
    BY <1>3, AppendProperties
  <2>2. n - b \in Nat /\ (n - b) + 1 = n + 1 - b
    BY <1>1
  <2> HIDE DEF app
  <2> QED BY <1>3, <2>1, <2>2
<1> HIDE DEF app
<1>6. ASSUME NEW i \in 1..(n + 1 - b)
      PROVE  new[i] = app[i]
  <2>1. CASE i = n + 1 - b
    <3>1. b + i = n + 1
      BY <1>1, <2>1
    <3> QED BY <1>2, <1>4, <1>5, <2>1, <3>1
  <2>2. CASE i # n + 1 - b
    <3>1. i \in 1..(n - b) /\ b + i \in 1..n
      BY <1>1, <2>2
    <3> QED BY <1>2, <1>3, <1>4, <1>5, <3>1
  <2> QED BY <2>1, <2>2
<1>7. new = app
  <2>1. n + 1 - b \in Nat
    BY <1>1
  <2> QED BY <1>4, <1>5, <1>6, SeqEqual
<1> QED BY <1>7 DEF app, rest, new, more

\* Nothing comes after the last element.
LEMMA RestOfAll ==
  ASSUME NEW s, NEW b \in Nat
  PROVE  SubSeq(s, b + 1, b) = <<>>
OBVIOUS

\* The first n elements of a sequence.
LEMMA FrontOfSeq ==
  ASSUME NEW S, NEW s \in Seq(S), NEW n \in Nat, n <= Len(s)
  PROVE  /\ SubSeq(s, 1, n) \in Seq(S) /\ Len(SubSeq(s, 1, n)) = n
         /\ \A i \in 1..n : SubSeq(s, 1, n)[i] = s[i]
<1>1. \A i \in 1..n : s[i] \in S
  OBVIOUS
<1>2. /\ SubSeq(s, 1, n) \in Seq(S)
      /\ Len(SubSeq(s, 1, n)) = IF 1 <= n THEN n - 1 + 1 ELSE 0
      /\ \A i \in 1..(n - 1 + 1) : SubSeq(s, 1, n)[i] = s[1 + i - 1]
  <2>1. 1 \in Int /\ n \in Int
    OBVIOUS
  <2> QED BY ONLY <1>1, <2>1, SubSeqProperties
<1>3. (IF 1 <= n THEN n - 1 + 1 ELSE 0) = n /\ n - 1 + 1 = n /\ \A i \in 1..n : 1 + i - 1 = i
  OBVIOUS
<1> QED BY <1>2, <1>3

\* One element more is the next one.
LEMMA FrontGrows ==
  ASSUME NEW S, NEW s \in Seq(S), NEW n \in Nat, n < Len(s)
  PROVE  SubSeq(s, 1, n + 1) = Append(SubSeq(s, 1, n), s[n + 1])
<1> DEFINE front == SubSeq(s, 1, n)
           more  == SubSeq(s, 1, n + 1)
           app   == Append(front, s[n + 1])
<1>1. front \in Seq(S) /\ Len(front) = n /\ \A i \in 1..n : front[i] = s[i]
  BY FrontOfSeq
<1>2. more \in Seq(S) /\ Len(more) = n + 1 /\ \A i \in 1..(n + 1) : more[i] = s[i]
  <2>1. n + 1 \in Nat /\ n + 1 <= Len(s)
    OBVIOUS
  <2> QED BY <2>1, FrontOfSeq
<1>3. s[n + 1] \in S
  OBVIOUS
<1> HIDE DEF front, more
<1>4. /\ app \in Seq(S) /\ Len(app) = n + 1 /\ app[n + 1] = s[n + 1]
      /\ \A i \in 1..n : app[i] = front[i]
  BY <1>1, <1>3, AppendProperties
<1> HIDE DEF app
<1>5. \A i \in 1..(n + 1) : more[i] = app[i]
  BY <1>1, <1>2, <1>4
<1>6. more = app
  BY <1>2, <1>4, <1>5, SeqEqual
<1> QED BY <1>6 DEF more, app, front

\* Appending to the second of two sequences.
LEMMA ConcatAppend ==
  ASSUME NEW S, NEW s \in Seq(S), NEW t \in Seq(S), NEW x \in S
  PROVE  s \o Append(t, x) = Append(s \o t, x)
OBVIOUS

\* What stands in a sequence stands there too when more follows.
LEMMA SubSeqOfPrefix ==
  ASSUME NEW S, NEW s \in Seq(S), NEW t \in Seq(S),
         NEW a \in Nat \ {0}, NEW b \in Int, b <= Len(s)
  PROVE  SubSeq(s \o t, a, b) = SubSeq(s, a, b)
<1> DEFINE all == s \o t
           n   == Len(s)
<1>1. /\ all \in Seq(S) /\ Len(all) = n + Len(t) /\ n \in Nat /\ Len(t) \in Nat
      /\ \A i \in 1..n : all[i] = s[i]
  OBVIOUS
<1> HIDE DEF all
<1>2. \A i \in a..b : i \in 1..n /\ all[i] \in S /\ s[i] \in S /\ all[i] = s[i]
  BY <1>1
<1>3. /\ SubSeq(s, a, b) \in Seq(S)
      /\ Len(SubSeq(s, a, b)) = IF a <= b THEN b - a + 1 ELSE 0
      /\ \A i \in 1..(b - a + 1) : SubSeq(s, a, b)[i] = s[a + i - 1]
  BY ONLY <1>2, a \in Int, b \in Int, SubSeqProperties
<1>4. /\ SubSeq(all, a, b) \in Seq(S)
      /\ Len(SubSeq(all, a, b)) = IF a <= b THEN b - a + 1 ELSE 0
      /\ \A i \in 1..(b - a + 1) : SubSeq(all, a, b)[i] = all[a + i - 1]
  BY ONLY <1>2, a \in Int, b \in Int, SubSeqProperties
<1> DEFINE x == SubSeq(all, a, b)
           y == SubSeq(s, a, b)
<1>5. CASE a <= b
  <2>1. Len(x) = b - a + 1 /\ Len(y) = b - a + 1 /\ b - a + 1 \in Nat
    BY <1>3, <1>4, <1>5
  <2>2. \A i \in 1..(b - a + 1) : x[i] = y[i]
    <3> SUFFICES ASSUME NEW i \in 1..(b - a + 1)
                 PROVE  x[i] = y[i]
      OBVIOUS
    <3>1. a + i - 1 \in a..b
      OBVIOUS
    <3>2. x[i] = all[a + i - 1] /\ y[i] = s[a + i - 1]
      BY <1>3, <1>4
    <3> QED BY <1>2, <3>1, <3>2
  <2>3. x \in Seq(S) /\ y \in Seq(S)
    BY <1>3, <1>4
  <2> HIDE DEF x, y
  <2>4. x = y
    BY <2>1, <2>2, <2>3, SeqEqual
  <2> QED BY <2>4 DEF x, y, all
<1>6. CASE ~(a <= b)
  <2>1. x \in Seq(S) /\ y \in Seq(S) /\ Len(x) = 0 /\ Len(y) = 0
    BY <1>3, <1>4, <1>6
  <2> HIDE DEF x, y
  <2>2. x = y
    BY <2>1, SeqEqual
  <2> QED BY <2>2 DEF x, y, all
<1> QED BY <1>5, <1>6

\* What stands between a beginning and an end.
LEMMA MiddleOfConcat ==
  ASSUME NEW S, NEW s \in Seq(S), NEW t \in Seq(S), NEW u \in Seq(S)
  PROVE  SubSeq((s \o t) \o u, Len(s) + 1, Len(s) + Len(t)) = t
<1>1. PICK n \in Nat, m \in Nat : n = Len(s) /\ m = Len(t)
  OBVIOUS
<1> DEFINE st  == s \o t
           mid == SubSeq(st, n + 1, n + m)
<1>2. st \in Seq(S) /\ Len(st) = n + m /\ \A i \in 1..m : st[n + i] = t[i]
  BY <1>1
<1> HIDE DEF st
<1>3. SubSeq(st \o u, n + 1, n + m) = mid
  <2>1. n + 1 \in Nat \ {0} /\ n + m \in Int /\ n + m <= Len(st)
    BY <1>2
  <2> QED BY <1>2, <2>1, SubSeqOfPrefix
<1>4. mid \in Seq(S) /\ Len(mid) = m /\ \A i \in 1..m : mid[i] = st[n + i]
  <2>1. n <= Len(st) /\ Len(st) - n = m
    BY <1>2
  <2>2. /\ SubSeq(st, n + 1, Len(st)) \in Seq(S)
        /\ Len(SubSeq(st, n + 1, Len(st))) = Len(st) - n
        /\ \A i \in 1..(Len(st) - n) : SubSeq(st, n + 1, Len(st))[i] = st[n + i]
    BY <1>2, <2>1, RestOfSeq
  <2> QED BY <1>2, <2>1, <2>2
<1> HIDE DEF mid
<1>5. \A i \in 1..m : mid[i] = t[i]
  BY <1>2, <1>4
<1>6. mid = t
  BY <1>1, <1>4, <1>5, SeqEqual
<1> QED BY <1>1, <1>3, <1>6 DEF st

\* The elements of two sequences one after another, with their lengths as numbers.
LEMMA ConcatElements ==
  ASSUME NEW S, NEW s \in Seq(S), NEW t \in Seq(S), NEW n \in Nat, NEW m \in Nat,
         Len(s) = n, Len(t) = m
  PROVE  /\ s \o t \in Seq(S) /\ Len(s \o t) = n + m
         /\ \A i \in 1..n : (s \o t)[i] = s[i]
         /\ \A i \in 1..m : (s \o t)[n + i] = t[i]
OBVIOUS
\* p has the elements of the first m sequences, and no others.
HasElements(p, seqs, m) ==
  /\ \A k \in 1..Len(p) : \E i \in 1..m : \E j \in 1..Len(seqs[i]) : p[k] = seqs[i][j]
  /\ \A i \in 1..m : \A j \in 1..Len(seqs[i]) : \E k \in 1..Len(p) : p[k] = seqs[i][j]

\* One sequence more.
LEMMA ElementsOfOneMore ==
  ASSUME NEW S, NEW seqs \in Seq(Seq(S)), NEW m \in Nat, m + 1 <= Len(seqs),
         NEW p \in Seq(S), NEW q, q = seqs[m + 1], HasElements(p, seqs, m)
  PROVE  HasElements(p \o q, seqs, m + 1)
<1>1. q \in Seq(S)
  OBVIOUS
<1>2. PICK a \in Nat : Len(p) = a
  OBVIOUS
<1>3. PICK b \in Nat : Len(q) = b
  BY <1>1
<1>4. PICK r : r = p \o q
  OBVIOUS
<1>5. /\ Len(r) = a + b
      /\ \A i \in 1..a : r[i] = p[i]
      /\ \A i \in 1..b : r[a + i] = q[i]
  <2>1. /\ Len(p \o q) = a + b
        /\ \A i \in 1..a : (p \o q)[i] = p[i]
    BY <1>1, <1>2, <1>3
  <2>2. \A i \in 1..b : (p \o q)[a + i] = q[i]
    BY <1>1, <1>2, <1>3
  <2> QED BY <2>1, <2>2, <1>4
<1>6. ASSUME NEW k \in 1..Len(r)
      PROVE  \E i \in 1..(m + 1) : \E j \in 1..Len(seqs[i]) : r[k] = seqs[i][j]
  <2>1. CASE k <= a
    <3>1. k \in 1..Len(p)
      BY <1>2, <1>5, <2>1
    <3>2. PICK i \in 1..m : \E j \in 1..Len(seqs[i]) : p[k] = seqs[i][j]
      BY <3>1 DEF HasElements
    <3> QED BY <3>1, <3>2, <1>2, <1>5
  <2>2. CASE k > a
    <3>1. k - a \in 1..b /\ a + (k - a) = k
      BY <1>5, <2>2
    <3>2. r[k] = q[k - a]
      BY <1>5, <3>1
    <3> QED BY <3>1, <3>2, <1>3
  <2> QED BY <2>1, <2>2, <1>5
<1>7. ASSUME NEW i \in 1..(m + 1), NEW j \in 1..Len(seqs[i])
      PROVE  \E k \in 1..Len(r) : r[k] = seqs[i][j]
  <2>1. CASE i = m + 1
    <3>1. j \in 1..b
      BY <1>3, <2>1
    <3>2. a + j \in 1..(a + b)
      BY <3>1
    <3> QED BY <2>1, <3>1, <3>2, <1>5
  <2>2. CASE i # m + 1
    <3>1. i \in 1..m
      BY <2>2
    <3>2. PICK k \in 1..Len(p) : p[k] = seqs[i][j]
      BY <3>1 DEF HasElements
    <3> QED BY <3>2, <1>2, <1>5
  <2> QED BY <2>1, <2>2
<1> QED BY <1>4, <1>6, <1>7 DEF HasElements

\* FlattenSeq has the elements of its sequences, and no others.
LEMMA FlattenElements ==
  ASSUME NEW S, NEW seqs \in Seq(Seq(S))
  PROVE  HasElements(FlattenSeq(seqs), seqs, Len(seqs))
<1>1. PICK f : Joins(f, seqs, S) /\ FlattenSeq(seqs) = f[Len(seqs)]
  BY FlattenJoins
<1>2. PICK n \in Nat : Len(seqs) = n
  OBVIOUS
<1>3. /\ f \in [0..n -> Seq(S)] /\ f[0] = <<>>
      /\ \A i \in 1..n : f[i] = f[i - 1] \o seqs[i]
  BY <1>1, <1>2 DEF Joins
<1> DEFINE A == {m \in Nat : m <= n => HasElements(f[m], seqs, m)}
<1>4. HasElements(f[0], seqs, 0)
  BY <1>3 DEF HasElements
<1>5. ASSUME NEW m \in Nat, m <= n => HasElements(f[m], seqs, m), m + 1 <= n
      PROVE  HasElements(f[m + 1], seqs, m + 1)
  <2>1. m <= n /\ m \in 0..n /\ m + 1 \in 1..n /\ (m + 1) - 1 = m
    BY <1>5
  <2>2. f[m + 1] = f[m] \o seqs[m + 1] /\ f[m] \in Seq(S)
    BY <1>3, <2>1
  <2>3. HasElements(f[m] \o seqs[m + 1], seqs, m + 1)
    BY <1>2, <1>5, <2>1, <2>2, ElementsOfOneMore
  <2> QED BY <2>2, <2>3
<1>6. 0 \in A /\ \A m \in Nat : m \in A => m + 1 \in A
  BY <1>4, <1>5
<1> HIDE DEF A
<1>7. n \in A
  BY <1>6, NatSetInduction
<1> QED BY <1>1, <1>2, <1>7 DEF A
-------------------------------------------------------------------------------
(***************************************************************************)
(* Selections.                                                             *)
(***************************************************************************)
Increasing(f, lo, hi) == \A i, j \in lo..hi : i < j => f[i] < f[j]

\* p is what stands in s at the positions P, each at its g.
Selects(g, s, P, p) ==
  /\ g \in [1..Len(p) -> 1..Len(s)]
  /\ Increasing(g, 1, Len(p))
  /\ \A r \in 1..Len(p) : g[r] \in P /\ p[r] = s[g[r]]
  /\ \A i \in 1..Len(s) : i \in P => \E r \in 1..Len(p) : g[r] = i

\* The same of the first k elements.
SelectsUpto(g, k, s, P, p) ==
  /\ g \in [1..Len(p) -> 1..k]
  /\ Increasing(g, 1, Len(p))
  /\ \A r \in 1..Len(p) : g[r] \in P /\ p[r] = s[g[r]]
  /\ \A i \in 1..k : i \in P => \E r \in 1..Len(p) : g[r] = i

\* One element more, that is selected or not.
LEMMA SelectsOneMore ==
  ASSUME NEW S, NEW s \in Seq(S), NEW k \in Nat, k + 1 <= Len(s), NEW P,
         NEW p \in Seq(S), NEW g, SelectsUpto(g, k, s, P, p)
  PROVE  \E h : SelectsUpto(h, k + 1, s, P,
                            p \o IF k + 1 \in P THEN <<s[k + 1]>> ELSE <<>>)
<1> PICK n \in Nat : n = Len(p)
  OBVIOUS
<1>1. /\ g \in [1..n -> 1..k]
      /\ \A i, j \in 1..n : i < j => g[i] < g[j]
      /\ \A r \in 1..n : g[r] \in P /\ p[r] = s[g[r]]
      /\ \A i \in 1..k : i \in P => \E r \in 1..n : g[r] = i
  BY DEF SelectsUpto, Increasing
<1>2. \A i \in 1..(k + 1) : i = k + 1 \/ i \in 1..k
  OBVIOUS
<1>3. CASE k + 1 \in P
  <2> DEFINE x == s[k + 1]
             q == p \o <<x>>
             h == [r \in 1..(n + 1) |-> IF r = n + 1 THEN k + 1 ELSE g[r]]
  <2>1. x \in S
    OBVIOUS
  <2>2. Len(q) = n + 1 /\ q[n + 1] = x /\ \A r \in 1..n : q[r] = p[r]
    <3> HIDE DEF x
    <3> QED BY <2>1
  <2>3. \A r \in 1..(n + 1) : r = n + 1 \/ r \in 1..n
    OBVIOUS
  <2>4. h[n + 1] = k + 1 /\ \A r \in 1..n : h[r] = g[r]
    OBVIOUS
  <2>5. h \in [1..(n + 1) -> 1..(k + 1)]
    BY <1>1, <2>3
  <2> HIDE DEF h, q
  <2>6. Increasing(h, 1, n + 1)
    <3> SUFFICES ASSUME NEW i \in 1..(n + 1), NEW j \in 1..(n + 1), i < j
                 PROVE  h[i] < h[j]
      BY DEF Increasing
    <3>1. i \in 1..n /\ g[i] \in 1..k
      BY <1>1
    <3> QED BY SMTT(20), <1>1, <2>3, <2>4, <3>1
  <2>7. \A r \in 1..(n + 1) : h[r] \in P /\ q[r] = s[h[r]]
    <3> SUFFICES ASSUME NEW r \in 1..(n + 1)
                 PROVE  h[r] \in P /\ q[r] = s[h[r]]
      OBVIOUS
    <3>1. CASE r = n + 1
      BY <1>3, <2>2, <2>4, <3>1
    <3>2. CASE r \in 1..n
      BY <1>1, <2>2, <2>4, <3>2
    <3> QED BY <2>3, <3>1, <3>2
  <2>8. \A i \in 1..(k + 1) : i \in P => \E r \in 1..(n + 1) : h[r] = i
    <3> SUFFICES ASSUME NEW i \in 1..(k + 1), i \in P
                 PROVE  \E r \in 1..(n + 1) : h[r] = i
      OBVIOUS
    <3>1. n + 1 \in 1..(n + 1) /\ \A r \in 1..n : r \in 1..(n + 1)
      OBVIOUS
    <3> QED BY <1>1, <1>2, <2>4, <3>1
  <2>9. SelectsUpto(h, k + 1, s, P, q)
    BY <2>2, <2>5, <2>6, <2>7, <2>8 DEF SelectsUpto
  <2> QED BY <1>3, <2>9 DEF q
<1>4. CASE k + 1 \notin P
  <2>1. p \o <<>> = p
    OBVIOUS
  <2>2. g \in [1..n -> 1..(k + 1)]
    BY <1>1
  <2>3. SelectsUpto(g, k + 1, s, P, p)
    BY <1>1, <1>2, <1>4, <2>2 DEF SelectsUpto, Increasing
  <2> QED BY <1>4, <2>1, <2>3
<1> QED BY <1>3, <1>4

\* A selection keeps the order, and leaves out nothing that is to be kept.
LEMMA SelectedElements ==
  ASSUME NEW S, NEW s \in Seq(S), NEW P
  PROVE  /\ Selected(s, P) \in Seq(S)
         /\ \E g : Selects(g, s, P, Selected(s, P))
<1> PICK n \in Nat : n = Len(s)
  OBVIOUS
<1> DEFINE part(i) == IF i \in P THEN <<s[i]>> ELSE <<>>
           parts   == [i \in DOMAIN s |-> part(i)]
<1>1. parts \in Seq(Seq(S)) /\ Len(parts) = n /\ \A i \in 1..n : parts[i] = part(i)
  <2>1. \A i \in 1..n : part(i) \in Seq(S)
    OBVIOUS
  <2>2. parts \in [1..n -> Seq(S)]
    BY <2>1
  <2> QED BY <2>2
<1>2. Selected(s, P) = FlattenSeq(parts)
  BY DEF Selected
<1> HIDE DEF parts
<1>3. PICK f : Joins(f, parts, S) /\ FlattenSeq(parts) = f[n]
  BY <1>1, FlattenJoins
<1>4. /\ f \in [0..n -> Seq(S)] /\ f[0] = <<>>
      /\ \A i \in 1..n : f[i] = f[i - 1] \o part(i)
  BY <1>1, <1>3 DEF Joins
<1> DEFINE A == {k \in Nat : k <= n => \E g : SelectsUpto(g, k, s, P, f[k])}
<1>5. 0 \in A
  <2> DEFINE g == [r \in 1..0 |-> 0]
  <2>1. SelectsUpto(g, 0, s, P, <<>>)
    BY DEF SelectsUpto, Increasing
  <2> QED BY <1>4, <2>1
<1>6. ASSUME NEW k \in Nat, k \in A
      PROVE  k + 1 \in A
  <2> SUFFICES ASSUME k + 1 <= n
               PROVE  \E g : SelectsUpto(g, k + 1, s, P, f[k + 1])
    OBVIOUS
  <2>1. k + 1 \in 1..n /\ (k + 1) - 1 = k /\ k \in 0..n
    OBVIOUS
  <2>2. f[k + 1] = f[k] \o part(k + 1) /\ f[k] \in Seq(S)
    BY <1>4, <2>1
  <2>3. PICK g : SelectsUpto(g, k, s, P, f[k])
    BY <1>6, <2>1
  <2> DEFINE p == f[k]
  <2> HIDE DEF p
  <2>4. \E h : SelectsUpto(h, k + 1, s, P, p \o IF k + 1 \in P THEN <<s[k + 1]>> ELSE <<>>)
    <3>1. p \in Seq(S) /\ SelectsUpto(g, k, s, P, p) /\ k + 1 <= Len(s)
      BY <2>2, <2>3 DEF p
    <3> QED BY <3>1, SelectsOneMore
  <2> QED BY <2>2, <2>4 DEF p
<1> HIDE DEF A
<1>7. Nat \subseteq A
  BY <1>5, <1>6, NatSetInduction
<1>8. \E g : SelectsUpto(g, n, s, P, f[n])
  <2>1. n \in A
    BY <1>7
  <2> QED BY <2>1 DEF A
<1>9. f[n] \in Seq(S)
  BY <1>4
<1> QED BY <1>2, <1>3, <1>8, <1>9 DEF SelectsUpto, Selects

\* As many different places need as many elements.
LEMMA IncreasingCounts ==
  ASSUME NEW lo \in Nat, NEW hi \in Nat, NEW m \in Nat,
         NEW f \in [lo..hi -> 1..m], Increasing(f, lo, hi), lo <= hi
  PROVE  hi - lo + 1 <= m
<1> DEFINE A == {k \in Nat : lo + k <= hi => f[lo + k] >= k + 1}
<1>1. 0 \in A
  <2>1. f[lo] \in 1..m
    OBVIOUS
  <2> QED BY <2>1
<1>2. ASSUME NEW k \in Nat, k \in A
      PROVE  k + 1 \in A
  <2> SUFFICES ASSUME lo + (k + 1) <= hi
               PROVE  f[lo + (k + 1)] >= (k + 1) + 1
    OBVIOUS
  <2>1. lo + k \in lo..hi /\ lo + (k + 1) \in lo..hi /\ lo + k < lo + (k + 1) /\ lo + k <= hi
    OBVIOUS
  <2>2. f[lo + k] < f[lo + (k + 1)] /\ f[lo + k] \in 1..m /\ f[lo + (k + 1)] \in 1..m
    BY <2>1 DEF Increasing
  <2>3. f[lo + k] >= k + 1
    BY <1>2, <2>1
  <2> QED BY <2>2, <2>3
<1> HIDE DEF A
<1>3. Nat \subseteq A
  BY <1>1, <1>2, NatSetInduction
<1>4. PICK k \in Nat : k = hi - lo
  <2>1. hi - lo \in Nat
    OBVIOUS
  <2> QED BY <2>1
<1>5. lo + k = hi /\ k \in A
  BY <1>3, <1>4
<1>6. f[hi] >= k + 1 /\ f[hi] \in 1..m
  BY <1>5 DEF A
<1> QED BY <1>4, <1>6

\* f gives every number from lo to hi a place of s of its own, in order.
Placing(f, s, lo, hi) == f \in [lo..hi -> 1..Len(s)] /\ Increasing(f, lo, hi)

\* What stood at selected places stands in the selection, in the same order.
LEMMA SelectedKeeps ==
  ASSUME NEW S, NEW s \in Seq(S), NEW P, NEW lo \in Nat, NEW hi \in Nat,
         NEW f, Placing(f, s, lo, hi), \A i \in lo..hi : f[i] \in P
  PROVE  \E h : /\ Placing(h, Selected(s, P), lo, hi)
                /\ \A i \in lo..hi : Selected(s, P)[h[i]] = s[f[i]]
<1> USE DEF Placing
<1> PICK p \in Seq(S) : p = Selected(s, P)
  BY SelectedElements
<1> PICK m \in Nat : m = Len(p)
  OBVIOUS
<1>1. PICK g : Selects(g, s, P, p)
  BY SelectedElements
<1>2. /\ g \in [1..m -> 1..Len(s)]
      /\ \A i, j \in 1..m : i < j => g[i] < g[j]
      /\ \A r \in 1..m : g[r] \in P /\ p[r] = s[g[r]]
      /\ \A i \in 1..Len(s) : i \in P => \E r \in 1..m : g[r] = i
  BY <1>1 DEF Selects, Increasing
<1> DEFINE h == [i \in lo..hi |-> CHOOSE r \in 1..m : g[r] = f[i]]
<1>3. \A i \in lo..hi : h[i] \in 1..m /\ g[h[i]] = f[i]
  <2>1. \A i \in lo..hi : \E r \in 1..m : g[r] = f[i]
    BY <1>2
  <2> QED BY <2>1
<1>4. h \in [lo..hi -> 1..m]
  BY <1>3
<1> HIDE DEF h
<1>5. Increasing(h, lo, hi)
  <2> SUFFICES ASSUME NEW i \in lo..hi, NEW j \in lo..hi, i < j
               PROVE  h[i] < h[j]
    BY DEF Increasing
  <2>1. PICK a \in 1..m, b \in 1..m : a = h[i] /\ b = h[j]
    BY <1>3
  <2>2. g[a] < g[b] /\ g[a] \in 1..Len(s) /\ g[b] \in 1..Len(s)
    BY SMTT(20), <1>2, <1>3, <2>1 DEF Increasing
  <2>3. ~(b < a) /\ a # b
    BY <1>2, <2>2
  <2> QED BY <2>1, <2>3
<1>6. ASSUME NEW i \in lo..hi
      PROVE  p[h[i]] = s[f[i]]
  <2>1. PICK r \in 1..m : r = h[i]
    BY <1>3
  <2>2. p[r] = s[g[r]] /\ g[r] = f[i]
    BY <1>2, <1>3, <2>1
  <2> QED BY <2>1, <2>2
<1> QED BY <1>4, <1>5, <1>6

ElementsAt(s, P) == {s[i] : i \in P}

\* A selection has the elements at the selected positions, and no others.
LEMMA SelectedSet ==
  ASSUME NEW S, NEW s \in Seq(S), NEW P, P \subseteq 1..Len(s)
  PROVE  ElementsAt(Selected(s, P), 1..Len(Selected(s, P))) = ElementsAt(s, P)
<1> PICK p : p = Selected(s, P)
  OBVIOUS
<1>1. PICK g : Selects(g, s, P, p)
  BY SelectedElements
<1>2. /\ \A r \in 1..Len(p) : g[r] \in P /\ p[r] = s[g[r]]
      /\ \A i \in 1..Len(s) : i \in P => \E r \in 1..Len(p) : g[r] = i
  BY <1>1 DEF Selects
<1>3. ASSUME NEW r \in 1..Len(p)
      PROVE  \E i \in P : p[r] = s[i]
  BY <1>2
<1>4. ASSUME NEW i \in P
      PROVE  \E r \in 1..Len(p) : s[i] = p[r]
  <2>1. PICK r \in 1..Len(p) : g[r] = i
    BY <1>2
  <2>2. p[r] = s[g[r]]
    BY <1>2
  <2> QED BY <2>1, <2>2
<1>5. {p[r] : r \in 1..Len(p)} \subseteq {s[i] : i \in P}
  BY <1>3
<1>6. {s[i] : i \in P} \subseteq {p[r] : r \in 1..Len(p)}
  BY <1>4
<1>7. ElementsAt(p, 1..Len(p)) = ElementsAt(s, P)
  BY <1>5, <1>6 DEF ElementsAt
<1> QED BY <1>7

\* One element more, which is selected or not.
LEMMA SelectedAppend ==
  ASSUME NEW S, NEW s \in Seq(S), NEW x \in S, NEW n \in Nat, n = Len(s), NEW P, NEW Q,
         \A i \in 1..n : i \in P <=> i \in Q
  PROVE  Selected(Append(s, x), Q) =
           IF n + 1 \in Q THEN Append(Selected(s, P), x) ELSE Selected(s, P)
<1> DEFINE more == Append(s, x)
           old  == [i \in DOMAIN s |-> IF i \in P THEN <<s[i]>> ELSE <<>>]
           new  == [i \in DOMAIN more |-> IF i \in Q THEN <<more[i]>> ELSE <<>>]
<1>1. n \in Nat /\ Len(s) = n
  OBVIOUS
<1>2. PICK e : e = IF n + 1 \in Q THEN <<x>> ELSE <<>>
  OBVIOUS
<1>3. e \in Seq(S)
  BY <1>2
<1>4. DOMAIN s = 1..n /\ DOMAIN more = 1..(n + 1) /\ more[n + 1] = x
      /\ \A i \in 1..n : more[i] = s[i]
  BY <1>1
<1>5. old \in Seq(Seq(S)) /\ Len(old) = n
  <2>1. old \in [1..n -> Seq(S)]
    BY <1>1, <1>4
  <2> QED BY <2>1
<1> HIDE DEF more
<1>6. Append(old, e) = new
  <2>1. Append(old, e) \in [1..(n + 1) -> Seq(S)]
    <3>1. Append(old, e) \in Seq(Seq(S))
      BY <1>3, <1>5
    <3>2. Len(Append(old, e)) = n + 1
      BY <1>3, <1>5
    <3>3. Append(old, e) \in [1..Len(Append(old, e)) -> Seq(S)]
      BY ONLY <3>1, LenProperties
    <3> QED BY ONLY <3>2, <3>3
  <2>2. new \in [1..(n + 1) -> Seq(S)]
    BY <1>1, <1>2, <1>3, <1>4
  <2>3. ASSUME NEW i \in 1..(n + 1)
        PROVE  Append(old, e)[i] = new[i]
    <3>1. CASE i = n + 1
      BY <3>1, <1>2, <1>4, <1>5
    <3>2. CASE i \in 1..n
      <4>1. Append(old, e)[i] = old[i]
        BY <3>2, <1>5
      <4>2. i \in P <=> i \in Q
        BY <3>2, <1>1
      <4> QED BY <4>1, <4>2, <3>2, <1>4
    <3> QED BY <3>1, <3>2, <1>1
  <2> QED BY <2>1, <2>2, <2>3
<1> HIDE DEF old, new
<1>7. FlattenSeq(new) = FlattenSeq(old) \o e
  BY <1>3, <1>5, <1>6, FlattenAppend
<1>8. FlattenSeq(old) \in Seq(S)
  BY <1>5, FlattenType
<1>9. Selected(more, Q) = FlattenSeq(new) /\ Selected(s, P) = FlattenSeq(old)
  BY DEF Selected, old, new
<1>10. FlattenSeq(old) \o e = IF n + 1 \in Q THEN Append(FlattenSeq(old), x) ELSE FlattenSeq(old)
  BY <1>2, <1>8
<1> QED BY <1>1, <1>7, <1>9, <1>10 DEF more

\* Nothing is selected from nothing.
LEMMA SelectedEmpty == \A P : Selected(<<>>, P) = <<>>
<1>1. \A P : [i \in DOMAIN <<>> |-> IF i \in P THEN <<(<<>>)[i]>> ELSE <<>>] = <<>>
  OBVIOUS
<1> QED BY <1>1, FlattenEmpty DEF Selected

-------------------------------------------------------------------------------
(* Sets with keys.                                                         *)

\* Where there are keys up to n, one of them is the greatest.
LEMMA GreatestExists ==
  ASSUME NEW R, R # {}, NEW key, NEW n \in Nat, \A r \in R : key[r] \in 0..n
  PROVE  \E m \in R : \A r \in R : key[m] >= key[r]
<1> DEFINE A == {k \in Nat : (\E r \in R : key[r] + k >= n) =>
                               \E m \in R : \A r \in R : key[m] >= key[r]}
<1>1. 0 \in A
  OBVIOUS
<1>2. ASSUME NEW k \in Nat, k \in A
      PROVE  k + 1 \in A
  <2> SUFFICES ASSUME NEW r \in R, key[r] + (k + 1) >= n
               PROVE  \E m \in R : \A q \in R : key[m] >= key[q]
    OBVIOUS
  <2>1. CASE \A q \in R : key[r] >= key[q]
    BY <2>1
  <2>2. CASE \E q \in R : ~(key[r] >= key[q])
    <3>1. PICK q \in R : ~(key[r] >= key[q])
      BY <2>2
    <3>2. key[q] + k >= n
      BY <3>1
    <3> QED BY <1>2, <3>2
  <2> QED BY <2>1, <2>2
<1> HIDE DEF A
<1>3. Nat \subseteq A
  BY <1>1, <1>2, NatSetInduction
<1>4. \E r \in R : key[r] + n >= n
  OBVIOUS
<1>5. n \in A
  BY <1>3
<1> QED BY <1>4, <1>5 DEF A
=============================================================================
