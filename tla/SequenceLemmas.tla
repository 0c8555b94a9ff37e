--------------------------- MODULE SequenceLemmas ---------------------------
(***************************************************************************)
(* What the proofs about texts and documents need of natural numbers and   *)
(* of the operators on sequences: induction, functions defined by          *)
(* recursion, the least and the largest of a set, and FlattenSeq.          *)
(*                                                                         *)
(* The induction theorems of the library take an operator, which is beyond *)
(* the provers; so induction is stated here for a set, from the fact that  *)
(* < is well-founded.                                                      *)
(***************************************************************************)
EXTENDS Naturals, Sequences, SequencesExt, SequenceTheorems,
        WellFoundedInduction, TLAPS

-----------------------------------------------------------------------------
(* Induction and recursion *)

\* Every set of numbers has a smallest one.
LEMMA SmallestExists ==
  ASSUME NEW T, T \subseteq Nat, T # {}
  PROVE  \E x \in T : \A y \in T : x <= y
<1>1. PICK x \in T : \A y \in T : ~ (<<y, x>> \in OpToRel(<, Nat))
  BY NatLessThanWellFounded, WFMin
<1>2. ASSUME NEW y \in T PROVE x <= y
  <2>1. ~ (y < x)
    BY <1>1 DEF OpToRel
  <2>2. QED
    BY <2>1
<1>3. QED
  BY <1>2

\* Induction for a set
LEMMA Induction ==
  ASSUME NEW S, 0 \in S, \A n \in Nat : n \in S => n + 1 \in S
  PROVE  Nat \subseteq S
<1> DEFINE T == {n \in Nat : n \notin S}
<1>1. SUFFICES ASSUME T # {} PROVE FALSE
  OBVIOUS
<1>2. PICK x \in T : \A y \in T : x <= y
  BY <1>1, SmallestExists
<1>3. x # 0 /\ x - 1 \in Nat
  OBVIOUS
<1>4. x - 1 \in S
  BY <1>2, <1>3
<1>5. (x - 1) + 1 \in S
  BY <1>3, <1>4
<1>6. QED
  BY <1>5

\* Induction up to a number
LEMMA InductionUpTo ==
  ASSUME NEW n \in Nat, NEW S, 0 \in S,
         \A k \in 1 .. n : k - 1 \in S => k \in S
  PROVE  0 .. n \subseteq S
<1> DEFINE T == {k \in Nat : k <= n => k \in S}
<1>1. 0 \in T
  OBVIOUS
<1>2. ASSUME NEW k \in Nat, k \in T PROVE k + 1 \in T
  <2>1. SUFFICES ASSUME k + 1 <= n PROVE k + 1 \in S
    OBVIOUS
  <2>2. k \in S
    BY <1>2, <2>1
  <2>3. k + 1 \in 1 .. n /\ (k + 1) - 1 = k
    BY <2>1
  <2>4. QED
    BY <2>2, <2>3
<1> HIDE DEF T
<1>3. Nat \subseteq T
  BY <1>1, <1>2, Induction
<1>4. QED
  BY <1>3 DEF T

\* There is a function with the value base at 0, and at k what G makes of its
\* value at k - 1.
HasIterates(V, base, N, G) ==
  \E f \in [0 .. N -> V] :
    f[0] = base /\ \A k \in 1 .. N : f[k] = G[k][f[k - 1]]

\* A function may be defined by recursion.
LEMMA Recursion ==
  ASSUME NEW V, NEW base \in V, NEW N \in Nat, NEW G \in [1 .. N -> [V -> V]]
  PROVE  HasIterates(V, base, N, G)
<1> DEFINE P(n) == \E f \in [0 .. n -> V] :
                     f[0] = base /\ \A k \in 1 .. n : f[k] = G[k][f[k - 1]]
           S == {n \in Nat : n <= N => P(n)}
<1>1. 0 \in S
  <2>1. P(0)
    <3>1. [k \in 0 .. 0 |-> base] \in [0 .. 0 -> V]
      OBVIOUS
    <3> WITNESS [k \in 0 .. 0 |-> base] \in [0 .. 0 -> V]
    <3> QED
      OBVIOUS
  <2> HIDE DEF P
  <2>2. QED
    BY <2>1
<1>2. \A n \in Nat : n \in S => n + 1 \in S
  <2> HIDE DEF P
  <2>1. SUFFICES ASSUME NEW n \in Nat, n \in S, n + 1 <= N PROVE P(n + 1)
    OBVIOUS
  <2>2. P(n)
    BY <2>1
  <2> USE DEF P
  <2>3. PICK f \in [0 .. n -> V] :
          f[0] = base /\ \A k \in 1 .. n : f[k] = G[k][f[k - 1]]
    BY <2>2
  <2> DEFINE g == [k \in 0 .. n + 1 |->
                     IF k = n + 1 THEN G[n + 1][f[n]] ELSE f[k]]
  <2>4. G[n + 1][f[n]] \in V
    BY <2>1
  <2>5. g \in [0 .. n + 1 -> V] /\ g[0] = base
    BY <2>3, <2>4
  <2>6. ASSUME NEW k \in 1 .. n + 1 PROVE g[k] = G[k][g[k - 1]]
    <3>1. CASE k = n + 1
      <4>1. k - 1 = n /\ n # n + 1
        BY <3>1
      <4>2. g[k - 1] = f[n] /\ g[k] = G[n + 1][f[n]]
        BY <3>1, <4>1
      <4>3. QED
        BY <3>1, <4>2
    <3>2. CASE k # n + 1
      <4>1. k \in 1 .. n /\ k - 1 \in 0 .. n /\ k - 1 # n + 1
        BY <3>2
      <4>2. g[k - 1] = f[k - 1] /\ g[k] = f[k]
        BY <3>2, <4>1
      <4>3. QED
        BY <2>3, <4>1, <4>2
    <3>3. QED
      BY <3>1, <3>2
  <2> HIDE DEF g
  <2>7. QED
    BY <2>5, <2>6
<1> HIDE DEF P
<1>3. N \in S
  BY <1>1, <1>2, Induction
<1>4. QED
  BY <1>3 DEF P, HasIterates

-----------------------------------------------------------------------------
(* The least and the largest of a set of numbers *)

\* Min is the least one.
LEMMA MinIs ==
  ASSUME NEW S, S \subseteq Nat, S # {}
  PROVE  Min(S) \in S /\ \A y \in S : Min(S) <= y
BY SmallestExists DEF Min

\* Max is the largest one.
LEMMA MaxIs ==
  ASSUME NEW S, NEW n \in Nat, S \subseteq 0 .. n, S # {}
  PROVE  Max(S) \in S /\ \A y \in S : Max(S) >= y
<1> DEFINE T == {m \in Nat : n - m \in S}
<1>1. T \subseteq Nat /\ T # {}
  <2>1. PICK s \in S : TRUE
    OBVIOUS
  <2>2. n - s \in Nat /\ n - (n - s) = s
    OBVIOUS
  <2>3. n - s \in T
    BY <2>2
  <2>4. QED
    BY <2>3
<1>2. PICK x \in T : \A y \in T : x <= y
  BY <1>1, SmallestExists
<1>3. ASSUME NEW y \in S PROVE n - x >= y
  <2>1. n - y \in T
    <3>1. n - y \in Nat /\ n - (n - y) = y
      OBVIOUS
    <3>2. QED
      BY <3>1
  <2>2. x <= n - y
    BY <1>2, <2>1
  <2>3. QED
    BY <2>2
<1>4. n - x \in S
  OBVIOUS
<1>5. QED
  BY <1>3, <1>4 DEF Max

\* The smallest of a set of positions is where nothing of it is before.
LEMMA FirstIs ==
  ASSUME NEW n \in Nat, NEW S, S \subseteq 1 .. n,
         NEW k \in S, \A j \in 1 .. k - 1 : j \notin S
  PROVE  Min(S) = k
<1>1. S \subseteq Nat /\ S # {}
  OBVIOUS
<1>2. Min(S) \in S /\ Min(S) <= k
  BY <1>1, MinIs
<1>3. ~ (Min(S) \in 1 .. k - 1)
  BY <1>2
<1>4. Min(S) \in 1 .. n /\ k \in 1 .. n
  BY <1>2
<1>5. QED
  BY <1>2, <1>3, <1>4

-----------------------------------------------------------------------------
(* Sequences of sequences *)

LastExtended(seqs, x) == [seqs EXCEPT ![Len(seqs)] = Append(@, x)]

\* ... which lets the last one grow.
LEMMA LastExtendedIs ==
  ASSUME NEW X, NEW seqs \in Seq(Seq(X)), NEW s \in Seq(X), NEW x \in X
  PROVE  LastExtended(Append(seqs, s), x) = Append(seqs, Append(s, x))
<1> DEFINE old == Append(seqs, s)
           left == [old EXCEPT ![Len(old)] = Append(@, x)]
           right == Append(seqs, Append(s, x))
<1>1. /\ old \in Seq(Seq(X)) /\ Len(old) = Len(seqs) + 1
      /\ old[Len(old)] = s
      /\ \A k \in 1 .. Len(seqs) : old[k] = seqs[k]
  OBVIOUS
<1>2. /\ right \in Seq(Seq(X)) /\ Len(right) = Len(seqs) + 1
      /\ right[Len(old)] = Append(s, x)
      /\ \A k \in 1 .. Len(seqs) : right[k] = seqs[k]
  BY <1>1
<1>3. /\ DOMAIN left = 1 .. Len(old)
      /\ left[Len(old)] = Append(s, x)
      /\ \A k \in 1 .. Len(seqs) : left[k] = seqs[k]
  <2> HIDE DEF old
  <2>1. Len(seqs) \in Nat /\ DOMAIN old = 1 .. Len(old) /\ Len(old) \in 1 .. Len(old)
    BY <1>1
  <2>2. QED
    BY <1>1, <2>1
<1>4. left \in Seq(Seq(X)) /\ Len(left) = Len(old)
  <2> HIDE DEF old
  <2>1. Append(s, x) \in Seq(X) /\ Len(old) \in 1 .. Len(old)
    BY <1>1
  <2>2. QED
    BY <1>1, <2>1, ExceptSeq
<1> HIDE DEF left, right, old
<1>5. left = right
  <2>1. ASSUME NEW k \in 1 .. Len(left) PROVE left[k] = right[k]
    <3>1. k \in 1 .. Len(seqs) \/ k = Len(old)
      BY <1>1, <1>4, <2>1
    <3>2. QED
      BY <1>2, <1>3, <3>1
  <2>2. QED
    BY <1>1, <1>2, <1>4, <2>1, SeqEqual
<1>6. QED
  BY <1>5 DEF left, right, old, LastExtended

\* The first elements, and one more
LEMMA SubSeqNext ==
  ASSUME NEW X, NEW s \in Seq(X), NEW k \in 1 .. Len(s)
  PROVE  /\ SubSeq(s, 1, k - 1) \in Seq(X) /\ Len(SubSeq(s, 1, k - 1)) = k - 1
         /\ s[k] \in X
         /\ SubSeq(s, 1, k) = Append(SubSeq(s, 1, k - 1), s[k])
  OBVIOUS

\* Appending to what is concatenated
LEMMA ConcatAppend ==
  ASSUME NEW X, NEW s \in Seq(X), NEW t \in Seq(X), NEW x \in X
  PROVE  s \o t \in Seq(X) /\ s \o Append(t, x) = Append(s \o t, x)
  OBVIOUS

\* Its length, and its last element
LEMMA LastExtendedElement ==
  ASSUME NEW X, NEW seqs \in Seq(Seq(X)), NEW x \in X, Len(seqs) # 0
  PROVE  /\ Len(LastExtended(seqs, x)) = Len(seqs)
         /\ LastExtended(seqs, x)[Len(seqs)] = Append(seqs[Len(seqs)], x)
<1>1. Len(seqs) \in 1 .. Len(seqs) /\ DOMAIN seqs = 1 .. Len(seqs)
  OBVIOUS
<1>2. Append(seqs[Len(seqs)], x) \in Seq(X)
  BY <1>1
<1>3. LastExtended(seqs, x) \in Seq(Seq(X)) /\ Len(LastExtended(seqs, x)) = Len(seqs)
  BY <1>1, <1>2, ExceptSeq DEF LastExtended
<1>4. QED
  BY <1>1, <1>3 DEF LastExtended

\* Induction over sequences: what holds of the empty one, and of every one
\* with an element more.
LEMMA SequencesInduction ==
  ASSUME NEW X, NEW S, <<>> \in S,
         \A s \in Seq(X), x \in X : s \in S => Append(s, x) \in S
  PROVE  Seq(X) \subseteq S
<1> SUFFICES ASSUME NEW s \in Seq(X) PROVE s \in S
  OBVIOUS
<1> DEFINE N == Len(s)
           T == {k \in 0 .. N : SubSeq(s, 1, k) \in S}
<1>1. N \in Nat
  OBVIOUS
<1>2. 0 \in T
  <2>1. SubSeq(s, 1, 0) = <<>>
    OBVIOUS
  <2>2. SubSeq(s, 1, 0) \in S
    BY <2>1, Zenon
  <2>3. QED
    BY <1>1, <2>2
<1>3. ASSUME NEW k \in 1 .. N, k - 1 \in T PROVE k \in T
  <2>1. /\ SubSeq(s, 1, k) = Append(SubSeq(s, 1, k - 1), s[k])
        /\ SubSeq(s, 1, k - 1) \in Seq(X) /\ s[k] \in X
    BY SubSeqNext
  <2>2. SubSeq(s, 1, k - 1) \in S
    BY <1>3
  <2>3. SubSeq(s, 1, k) \in S
    BY <2>1, <2>2
  <2>4. QED
    BY <1>1, <2>3
<1>4. N \in T
  <2> HIDE DEF T
  <2>1. 0 .. N \subseteq T
    BY <1>1, <1>2, <1>3, InductionUpTo
  <2>2. QED
    BY <1>1, <2>1
<1>5. SubSeq(s, 1, N) = s
  OBVIOUS
<1>6. QED
  BY <1>4, <1>5

\* Appending an element
LEMMA AppendIs ==
  ASSUME NEW V, NEW s \in Seq(V), NEW e \in V
  PROVE  /\ Append(s, e) \in Seq(V) /\ Len(Append(s, e)) = Len(s) + 1
         /\ Append(s, e)[Len(s) + 1] = e
OBVIOUS

\* Two more of the same, of which the last one grows twice
TwoParts(parts, e, x, y) ==
  LastExtended(LastExtended(Append(Append(parts, e), e), x), y)
LEMMA TwoMore ==
  ASSUME NEW X, NEW parts \in Seq(Seq(X)), NEW e \in Seq(X),
         NEW x \in X, NEW y \in X
  PROVE  /\ Len(TwoParts(parts, e, x, y)) = Len(parts) + 2
         /\ TwoParts(parts, e, x, y)[Len(TwoParts(parts, e, x, y))]
              = Append(Append(e, x), y)
<1> DEFINE two == Append(parts, e)
           ex == Append(e, x)
           exy == Append(ex, y)
           V == Seq(X)
<1>1. two \in Seq(V) /\ Len(two) = Len(parts) + 1
  <2> HIDE DEF V
  <2>1. parts \in Seq(V) /\ e \in V
    BY DEF V
  <2>2. two \in Seq(V) /\ Len(two) = Len(parts) + 1
    BY <2>1, AppendIs, Zenon
  <2> HIDE DEF two
  <2>3. QED
    BY <2>2
<1>2. ex \in V /\ exy \in V /\ e \in V
  OBVIOUS
<1> HIDE DEF two
<1>3. LastExtended(Append(two, e), x) = Append(two, ex)
  <2>1. two \in Seq(Seq(X))
    BY <1>1
  <2>2. QED
    BY <2>1, LastExtendedIs
<1> HIDE DEF ex
<1>4. LastExtended(Append(two, ex), y) = Append(two, exy)
  <2>1. two \in Seq(Seq(X)) /\ ex \in Seq(X)
    BY <1>1, <1>2
  <2>2. QED
    BY <2>1, LastExtendedIs
<1> HIDE DEF exy, V
<1>5. /\ Len(Append(two, exy)) = Len(parts) + 2
      /\ Append(two, exy)[Len(Append(two, exy))] = exy
  <2>1. /\ Len(Append(two, exy)) = Len(two) + 1
        /\ Append(two, exy)[Len(two) + 1] = exy
    BY <1>1, <1>2, AppendIs, Zenon
  <2>2. Len(two) + 1 = Len(parts) + 2
    <3>1. PICK m \in Nat : m = Len(parts)
      OBVIOUS
    <3>2. QED
      BY <1>1, <3>1
  <2>3. QED
    BY <2>1, <2>2
<1>6. QED
  BY <1>3, <1>4, <1>5 DEF two, ex, exy, TwoParts

\* Concatenation with a sequence of one or none
LEMMA ConcatOne ==
  ASSUME NEW X, NEW s \in Seq(X), NEW x \in X
  PROVE  s \o <<x>> = Append(s, x) /\ s \o <<>> = s /\ Append(s, x) \in Seq(X)
  OBVIOUS

\* The elements of a concatenation
LEMMA ConcatElements ==
  ASSUME NEW X, NEW s \in Seq(X), NEW t \in Seq(X)
  PROVE  /\ s \o t \in Seq(X) /\ Len(s \o t) = Len(s) + Len(t)
         /\ \A k \in 1 .. Len(s) : (s \o t)[k] = s[k]
         /\ \A k \in 1 .. Len(t) : (s \o t)[Len(s) + k] = t[k]
  OBVIOUS

\* The elements of sequences of two to four
LEMMA ShortSequences ==
  ASSUME NEW X, NEW a \in X, NEW b \in X, NEW c \in X, NEW d \in X
  PROVE  /\ Append(<<a>>, d) \in Seq(X) /\ Append(Append(<<a>>, b), d) \in Seq(X)
         /\ Append(Append(Append(<<a>>, b), c), d) \in Seq(X)
         /\ Len(Append(<<a>>, d)) = 2
         /\ Append(<<a>>, d)[1] = a /\ Append(<<a>>, d)[2] = d
         /\ Len(Append(Append(<<a>>, b), d)) = 3
         /\ Append(Append(<<a>>, b), d)[1] = a
         /\ Append(Append(<<a>>, b), d)[2] = b
         /\ Append(Append(<<a>>, b), d)[3] = d
         /\ Len(Append(Append(Append(<<a>>, b), c), d)) = 4
         /\ Append(Append(Append(<<a>>, b), c), d)[1] = a
         /\ Append(Append(Append(<<a>>, b), c), d)[2] = b
         /\ Append(Append(Append(<<a>>, b), c), d)[3] = c
         /\ Append(Append(Append(<<a>>, b), c), d)[4] = d
  OBVIOUS

\* A sequence is the function of its elements.
LEMMA SequenceIs ==
  ASSUME NEW X, NEW s \in Seq(X)
  PROVE  s = [k \in 1 .. Len(s) |-> s[k]]
  OBVIOUS

-----------------------------------------------------------------------------
(* FlattenSeq *)

\* FlattenSeq as a function of the prefixes of its argument
LEMMA FlattenFunction ==
  ASSUME NEW X, NEW seqs \in Seq(Seq(X)), Len(seqs) # 0
  PROVE  \E f \in [1 .. Len(seqs) -> Seq(X)] :
           /\ FlattenSeq(seqs) = f[Len(seqs)]
           /\ \A i \in 1 .. Len(seqs) :
                f[i] = IF i = 1 THEN seqs[i] ELSE f[i - 1] \o seqs[i]
<1> DEFINE N == Len(seqs)
           V == Seq(X)
           G == [i \in 1 .. N |->
                   [v \in V |-> IF i = 1 THEN seqs[i] ELSE v \o seqs[i]]]
           Flattens(f) ==
             f = [i \in 1 .. N |-> IF i = 1 THEN seqs[i] ELSE f[i - 1] \o seqs[i]]
           base == <<>>
<1>1. N \in Nat /\ N \in 1 .. N /\ \A i \in 1 .. N : seqs[i] \in V
  OBVIOUS
<1>2. base \in V /\ G \in [1 .. N -> [V -> V]]
  BY <1>1
<1>3. PICK h \in [0 .. N -> V] :
        h[0] = base /\ \A i \in 1 .. N : h[i] = G[i][h[i - 1]]
  <2> HIDE DEF G, V, N, base
  <2>1. HasIterates(V, base, N, G)
    BY <1>1, <1>2, Recursion
  <2>2. QED
    BY <2>1 DEF HasIterates
<1> DEFINE f == [i \in 1 .. N |-> h[i]]
<1>4. ASSUME NEW i \in 1 .. N
      PROVE  f[i] = IF i = 1 THEN seqs[i] ELSE f[i - 1] \o seqs[i]
  <2>1. h[i - 1] \in V
    OBVIOUS
  <2>2. h[i] = IF i = 1 THEN seqs[i] ELSE h[i - 1] \o seqs[i]
    BY <1>3, <2>1
  <2>3. QED
    BY <2>2
<1>5. Flattens(f)
  <2> HIDE DEF f
  <2>1. f = [i \in 1 .. N |-> f[i]]
    BY DEF f
  <2>2. QED
    BY <1>4, <2>1
<1>6. Flattens(CHOOSE g : Flattens(g))
  <2> HIDE DEF f, Flattens
  <2>1. QED
    BY <1>5
<1> DEFINE g == CHOOSE g : Flattens(g)
<1>7. FlattenSeq(seqs) = g[N]
  BY DEF FlattenSeq
<1> HIDE DEF g
<1>8. \A i \in 1 .. N : g[i] = IF i = 1 THEN seqs[i] ELSE g[i - 1] \o seqs[i]
  BY <1>6 DEF g
<1>9. ASSUME NEW i \in Nat PROVE i \in 1 .. N => g[i] \in V
  <2> DEFINE S == {k \in Nat : k \in 1 .. N => g[k] \in V}
  <2>1. 0 \in S
    OBVIOUS
  <2>2. ASSUME NEW k \in Nat, k \in S PROVE k + 1 \in S
    <3>1. SUFFICES ASSUME k + 1 \in 1 .. N PROVE g[k + 1] \in V
      OBVIOUS
    <3>2. CASE k = 0
      BY <1>1, <1>8, <3>1, <3>2
    <3>3. CASE k # 0
      <4>1. k \in 1 .. N /\ k + 1 # 1 /\ (k + 1) - 1 = k
        BY <3>1, <3>3
      <4>2. g[k] \in V /\ g[k + 1] = g[k] \o seqs[k + 1]
        BY <1>8, <2>2, <3>1, <4>1
      <4>3. QED
        BY <1>1, <3>1, <4>2
    <3>4. QED
      BY <3>2, <3>3
  <2> HIDE DEF S
  <2>3. i \in S
    BY <2>1, <2>2, Induction
  <2>4. QED
    BY <2>3 DEF S
<1>10. g \in [1 .. N -> V]
  <2>1. g = [i \in 1 .. N |-> IF i = 1 THEN seqs[i] ELSE g[i - 1] \o seqs[i]]
    BY <1>6 DEF g
  <2>2. \A i \in 1 .. N : g[i] \in V
    BY <1>1, <1>9
  <2> HIDE DEF V
  <2>3. QED
    BY <2>1, <2>2
<1>11. QED
  BY <1>7, <1>8, <1>10

\* Functions that begin alike and go on alike are alike.
LEMMA FlattenAppend ==
  ASSUME NEW X, NEW seqs \in Seq(Seq(X)), NEW s \in Seq(X)
  PROVE  /\ FlattenSeq(seqs) \in Seq(X)
         /\ FlattenSeq(Append(seqs, s)) = FlattenSeq(seqs) \o s
<1> DEFINE N == Len(seqs)
           more == Append(seqs, s)
<1>1. /\ more \in Seq(Seq(X))
      /\ Len(more) = N + 1 /\ N \in Nat /\ Len(more) # 0
      /\ more[N + 1] = s
      /\ \A i \in 1 .. N : more[i] = seqs[i]
  OBVIOUS
<1> HIDE DEF more, N
<1>2. PICK g \in [1 .. Len(more) -> Seq(X)] :
        /\ FlattenSeq(more) = g[Len(more)]
        /\ \A i \in 1 .. Len(more) :
             g[i] = IF i = 1 THEN more[i] ELSE g[i - 1] \o more[i]
  BY <1>1, FlattenFunction
<1>3. CASE N = 0
  <2>1. seqs = <<>> /\ FlattenSeq(seqs) = <<>>
    BY <1>3 DEF FlattenSeq, N
  <2>2. FlattenSeq(more) = s
    BY <1>1, <1>2, <1>3
  <2>3. <<>> \o s = s /\ <<>> \in Seq(X)
    OBVIOUS
  <2>4. FlattenSeq(more) = FlattenSeq(seqs) \o s /\ FlattenSeq(seqs) \in Seq(X)
    BY <2>1, <2>2, <2>3
  <2>5. QED
    BY <2>4 DEF more
<1>4. CASE N # 0
  <2>1. PICK f \in [1 .. N -> Seq(X)] :
          /\ FlattenSeq(seqs) = f[N]
          /\ \A i \in 1 .. N :
               f[i] = IF i = 1 THEN seqs[i] ELSE f[i - 1] \o seqs[i]
    BY <1>4, FlattenFunction DEF N
  <2> DEFINE S == {k \in Nat : k \in 1 .. N => f[k] = g[k]}
  <2>2. 0 \in S
    OBVIOUS
  <2>3. ASSUME NEW k \in Nat, k \in S PROVE k + 1 \in S
    <3>1. SUFFICES ASSUME k + 1 \in 1 .. N PROVE f[k + 1] = g[k + 1]
      OBVIOUS
    <3>2. k + 1 \in 1 .. Len(more) /\ more[k + 1] = seqs[k + 1]
      BY <1>1, <3>1
    <3>3. CASE k = 0
      <4>1. k + 1 = 1
        BY <3>3
      <4>2. f[k + 1] = seqs[k + 1] /\ g[k + 1] = more[k + 1]
        BY <1>2, <2>1, <3>1, <3>2, <4>1
      <4>3. QED
        BY <3>2, <4>2
    <3>4. CASE k # 0
      <4>1. k \in 1 .. N /\ k + 1 # 1 /\ (k + 1) - 1 = k
        BY <1>1, <3>1, <3>4
      <4>2. f[k] = g[k]
        BY <2>3, <4>1
      <4>3. f[k + 1] = f[k] \o seqs[k + 1] /\ g[k + 1] = g[k] \o more[k + 1]
        BY <1>2, <2>1, <3>1, <3>2, <4>1
      <4>4. QED
        BY <3>2, <4>2, <4>3
    <3>5. QED
      BY <3>3, <3>4
  <2> HIDE DEF S
  <2>4. N \in S
    BY <1>1, <2>2, <2>3, Induction
  <2>5. f[N] = g[N]
    BY <1>1, <1>4, <2>4 DEF S
  <2>6. g[N + 1] = g[N] \o s
    <3>1. N + 1 \in 1 .. Len(more) /\ N + 1 # 1 /\ (N + 1) - 1 = N
      BY <1>1, <1>4
    <3>2. QED
      BY <1>1, <1>2, <3>1
  <2>7. f[N] \in Seq(X)
    BY <1>1, <1>4, <2>1
  <2>8. QED
    BY <1>1, <1>2, <2>1, <2>5, <2>6, <2>7 DEF more
<1>5. QED
  BY <1>3, <1>4
=============================================================================
