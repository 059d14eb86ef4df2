----------------------------- MODULE ListTheorems -----------------------------
(***************************************************************************)
(* What the proofs need of numbers, of sequences and of functions that are *)
(* computed step by step, beyond the library's theorems.  Induction is by  *)
(* the smallest counterexample.                                            *)
(***************************************************************************)
EXTENDS Integers, Sequences, TLAPS, WellFoundedInduction, SequenceTheorems

\* A set of numbers has a smallest one.
LEMMA SmallestExists ==
    ASSUME NEW S, S \subseteq Nat, S # {}
    PROVE  \E x \in S : \A y \in S : x <= y
<1>1. \E x \in S : \A y \in S : ~(<<y, x>> \in OpToRel(<, Nat))
  BY NatLessThanWellFounded, WFMin
<1>2. PICK x \in S : \A y \in S : ~(<<y, x>> \in OpToRel(<, Nat))
  BY <1>1
<1>3. ASSUME NEW y \in S PROVE x <= y
  <2>1. SUFFICES ASSUME y < x PROVE FALSE
    OBVIOUS
  <2>2. <<y, x>> \in OpToRel(<, Nat)
    BY <2>1 DEF OpToRel
  <2>3. QED
    BY <1>2, <2>2
<1>4. QED
  BY <1>3

\* A set of places in a list has a last one.
LEMMA LastPlace ==
    ASSUME NEW n \in Nat, NEW S \in SUBSET (1..n), S # {}
    PROVE  \E i \in S : \A j \in S : j <= i
<1> DEFINE T == {n - i : i \in S}
<1>0. \A i \in S : n - i \in Nat
  OBVIOUS
<1>1. T \subseteq Nat /\ T # {}
  BY <1>0, Zenon
<1> HIDE DEF T
<1>2. PICK x \in T : \A y \in T : x <= y
  BY <1>1, SmallestExists
<1>3. PICK i \in S : x = n - i
  BY DEF T
<1>4. \A j \in S : j <= i
  <2>1. SUFFICES ASSUME NEW j \in S PROVE j <= i
    OBVIOUS
  <2>2. n - j \in T
    BY DEF T
  <2>3. QED
    BY <1>2, <1>3, <2>2
<1>5. QED
  BY <1>4

\* A part of a sequence, element by element.
LEMMA PartOf ==
    ASSUME NEW S, NEW s \in Seq(S), NEW m \in Nat, NEW n \in Nat,
           1 <= m, m <= n + 1, n <= Len(s)
    PROVE  /\ SubSeq(s, m, n) \in Seq(S) /\ Len(SubSeq(s, m, n)) = n - m + 1
           /\ \A i \in 1..(n - m + 1) : SubSeq(s, m, n)[i] = s[m + i - 1]
<1>1. \A i \in m..n : s[i] \in S
  BY LenProperties, ElementOfSeq
<1>2. m \in Int /\ n \in Int
  OBVIOUS
<1>3. /\ SubSeq(s, m, n) \in Seq(S)
      /\ Len(SubSeq(s, m, n)) = (IF m <= n THEN n - m + 1 ELSE 0)
      /\ \A i \in 1..(n - m + 1) : SubSeq(s, m, n)[i] = s[m + i - 1]
  BY <1>1, <1>2, SubSeqProperties
<1>4. QED
  BY <1>3

\* The beginning of a sequence, element by element.
LEMMA BeginningOf ==
    ASSUME NEW S, NEW s \in Seq(S), NEW n \in Nat, n <= Len(s)
    PROVE  /\ SubSeq(s, 1, n) \in Seq(S) /\ Len(SubSeq(s, 1, n)) = n
           /\ \A i \in 1..n : SubSeq(s, 1, n)[i] = s[i]
<1>1. \A i \in 1..n : s[i] \in S
  BY LenProperties, ElementOfSeq
<1>2. 1 \in Int /\ n \in Int
  OBVIOUS
<1>3. /\ SubSeq(s, 1, n) \in Seq(S)
      /\ Len(SubSeq(s, 1, n)) = (IF 1 <= n THEN n - 1 + 1 ELSE 0)
      /\ \A i \in 1..(n - 1 + 1) : SubSeq(s, 1, n)[i] = s[1 + i - 1]
  BY <1>1, <1>2, SubSeqProperties
<1> DEFINE p == SubSeq(s, 1, n)
<1> HIDE DEF p
<1>4. p \in Seq(S) /\ Len(p) = n /\ \A i \in 1..n : p[i] = s[i]
  <2>1. /\ p \in Seq(S) /\ Len(p) = (IF 1 <= n THEN n - 1 + 1 ELSE 0)
        /\ \A i \in 1..(n - 1 + 1) : p[i] = s[1 + i - 1]
    BY <1>3, Zenon DEF p
  <2>2. QED
    BY <2>1
<1>5. QED
  BY <1>4, Zenon DEF p

\* What holds at the start and is kept by each step holds after any number of steps.
LEMMA Reached ==
    ASSUME NEW m \in Nat, NEW g, NEW P, g[0] \in P,
           \A n \in 1..m : g[n - 1] \in P => g[n] \in P
    PROVE  \A n \in 0..m : g[n] \in P
<1> DEFINE bad == {n \in 0..m : g[n] \notin P}
<1>1. SUFFICES ASSUME bad # {} PROVE FALSE
  OBVIOUS
<1>2. bad \subseteq Nat
  OBVIOUS
<1> HIDE DEF bad
<1>3. PICK x \in bad : \A y \in bad : x <= y
  BY <1>1, <1>2, SmallestExists
<1>4. x \in 1..m /\ g[x] \notin P
  BY DEF bad
<1>5. x - 1 \in 0..m /\ x - 1 < x /\ x - 1 \in Nat /\ x \in Nat
  BY <1>4
<1>6. x - 1 \notin bad
  BY <1>3, <1>5
<1>7. g[x - 1] \in P
  BY <1>5, <1>6 DEF bad
<1>8. QED
  BY <1>4, <1>7

\* A set of numbers that goes on from each number to the next holds all of them.
LEMMA GoesOn ==
    ASSUME NEW m \in Nat, NEW S, 0 \in S, \A n \in 1..m : n - 1 \in S => n \in S
    PROVE  \A n \in 0..m : n \in S
<1> DEFINE g == [n \in 0..m |-> n]
<1>1. \A n \in 0..m : g[n] = n
  OBVIOUS
<1>2. g[0] \in S
  BY <1>1
<1>3. \A n \in 1..m : g[n - 1] \in S => g[n] \in S
  BY <1>1
<1> HIDE DEF g
<1>4. \A n \in 0..m : g[n] \in S
  BY <1>2, <1>3, Reached
<1>5. QED
  BY <1>1, <1>4

\* The values after each of m steps F, from x on.
Values(g, X, x, m, F) ==
    /\ g \in [0..m -> X]
    /\ g[0] = x
    /\ \A n \in 1..m : g[n] = F[<<g[n - 1], n>>]

\* A value that is computed step by step exists.
LEMMA Computed ==
    ASSUME NEW X, NEW x \in X, NEW m \in Nat, NEW F \in [X \X (1..m) -> X]
    PROVE  \E g : Values(g, X, x, m, F)
<1> DEFINE Up(k) == \E g \in [0..k -> X] : g[0] = x /\ \A n \in 1..k : g[n] = F[<<g[n - 1], n>>]
           bad == {k \in 0..m : ~Up(k)}
<1>1. Up(0)
  <2> DEFINE g == [n \in 0..0 |-> x]
  <2>1. g \in [0..0 -> X] /\ g[0] = x /\ \A n \in 1..0 : g[n] = F[<<g[n - 1], n>>]
    OBVIOUS
  <2>2. QED
    BY <2>1
<1>2. ASSUME NEW k \in 1..m, Up(k - 1) PROVE Up(k)
  <2>1. PICK g \in [0..(k - 1) -> X] :
               g[0] = x /\ \A n \in 1..(k - 1) : g[n] = F[<<g[n - 1], n>>]
    BY <1>2
  <2> DEFINE last == F[<<g[k - 1], k>>]
             h == [n \in 0..k |-> IF n = k THEN last ELSE g[n]]
  <2>2. k - 1 \in 0..(k - 1) /\ k \in Nat /\ k - 1 \in Nat
    OBVIOUS
  <2>3. last \in X
    BY <2>2
  <2> HIDE DEF last
  <2>4. \A n \in 0..k : n = k \/ n \in 0..(k - 1)
    BY <2>2
  <2>5. h \in [0..k -> X]
    BY <2>3, <2>4
  <2>6. h[0] = x
    BY <2>1, <2>2
  <2>7. ASSUME NEW n \in 1..k PROVE h[n] = F[<<h[n - 1], n>>]
    <3>1. n - 1 \in 0..k /\ n - 1 # k /\ n \in 0..k
      BY <2>2
    <3>2. h[n - 1] = g[n - 1]
      BY <3>1
    <3>3. CASE n = k
      BY <3>1, <3>2, <3>3 DEF last
    <3>4. CASE n # k
      <4>1. n \in 1..(k - 1)
        BY <2>2, <3>4
      <4>2. h[n] = g[n]
        BY <3>1, <3>4
      <4>3. QED
        BY <2>1, <3>2, <4>1, <4>2
    <3>5. QED
      BY <3>3, <3>4
  <2> HIDE DEF h
  <2>8. QED
    BY <2>5, <2>6, <2>7
<1> HIDE DEF Up
<1>3. SUFFICES ASSUME bad # {} PROVE FALSE
  <2>1. m \in 0..m
    OBVIOUS
  <2>2. Up(m)
    BY <1>3, <2>1
  <2>3. QED
    BY <2>2 DEF Up, Values
<1>4. bad \subseteq Nat
  OBVIOUS
<1> HIDE DEF bad
<1>5. PICK k \in bad : \A y \in bad : k <= y
  BY <1>3, <1>4, SmallestExists
<1>6. k \in 1..m /\ ~Up(k)
  BY <1>1 DEF bad
<1>7. k - 1 \in 0..m /\ k - 1 < k /\ k - 1 \in Nat /\ k \in Nat
  BY <1>6
<1>8. k - 1 \notin bad
  BY <1>5, <1>7
<1>9. Up(k - 1)
  BY <1>7, <1>8 DEF bad
<1>10. QED
  BY <1>2, <1>6, <1>9

\* What is left of a list, element by element.
LEMMA RestOf ==
    ASSUME NEW S, NEW s \in Seq(S), NEW k \in Nat, Len(s) = k, NEW n \in 0..k
    PROVE  /\ SubSeq(s, n + 1, k) \in Seq(S) /\ Len(SubSeq(s, n + 1, k)) = k - n
           /\ \A i \in 1..(k - n) : SubSeq(s, n + 1, k)[i] = s[n + i]
<1>1. n + 1 \in Nat /\ 1 <= n + 1 /\ n + 1 <= k + 1 /\ k <= Len(s)
  OBVIOUS
<1>2. /\ SubSeq(s, n + 1, k) \in Seq(S) /\ Len(SubSeq(s, n + 1, k)) = k - (n + 1) + 1
      /\ \A i \in 1..(k - (n + 1) + 1) : SubSeq(s, n + 1, k)[i] = s[(n + 1) + i - 1]
  BY <1>1, PartOf
<1> DEFINE r == SubSeq(s, n + 1, k)
<1> HIDE DEF r
<1>3. r \in Seq(S) /\ Len(r) = k - n /\ \A i \in 1..(k - n) : r[i] = s[n + i]
  <2>1. /\ r \in Seq(S) /\ Len(r) = k - (n + 1) + 1
        /\ \A i \in 1..(k - (n + 1) + 1) : r[i] = s[(n + 1) + i - 1]
    BY <1>2 DEF r
  <2>2. k - (n + 1) + 1 = k - n
    OBVIOUS
  <2>3. ASSUME NEW i \in 1..(k - n) PROVE r[i] = s[n + i]
    <3>1. (n + 1) + i - 1 = n + i /\ i \in 1..(k - (n + 1) + 1)
      OBVIOUS
    <3>2. r[i] = s[(n + 1) + i - 1]
      BY <2>1, <3>1, Zenon
    <3>3. QED
      BY <3>1, <3>2, Zenon
  <2>4. QED
    BY <2>1, <2>2, <2>3, Zenon
<1>4. QED
  BY <1>3 DEF r

\* What is left of a list begins with the next element, and goes on with what is left then.
LEMMA RestGoesOn ==
    ASSUME NEW S, NEW s \in Seq(S), NEW k \in Nat, Len(s) = k, NEW n \in 0..k
    PROVE  /\ n = 0 => SubSeq(s, n + 1, k) = s
           /\ n = k => SubSeq(s, n + 1, k) = <<>>
           /\ n < k => /\ SubSeq(s, n + 1, k) # <<>>
                       /\ Head(SubSeq(s, n + 1, k)) = s[n + 1]
                       /\ Tail(SubSeq(s, n + 1, k)) = SubSeq(s, n + 1 + 1, k)
<1> DEFINE r == SubSeq(s, n + 1, k)
<1>1. r \in Seq(S) /\ Len(r) = k - n /\ \A i \in 1..(k - n) : r[i] = s[n + i]
  BY RestOf
<1> HIDE DEF r
<1>2. ASSUME n = 0 PROVE r = s
  BY <1>1, <1>2, SeqEqual
<1>3. ASSUME n = k PROVE r = <<>>
  BY <1>1, <1>3, EmptySeq
<1>4. ASSUME n < k
      PROVE  r # <<>> /\ Head(r) = s[n + 1] /\ Tail(r) = SubSeq(s, n + 1 + 1, k)
  <2> DEFINE t == SubSeq(s, n + 1 + 1, k)
  <2>1. n + 1 \in 0..k
    BY <1>4
  <2>2. t \in Seq(S) /\ Len(t) = k - (n + 1) /\ \A i \in 1..(k - (n + 1)) : t[i] = s[n + 1 + i]
    <3>1. \A m \in 0..k : LET u == SubSeq(s, m + 1, k)
                         IN  u \in Seq(S) /\ Len(u) = k - m /\ \A i \in 1..(k - m) : u[i] = s[m + i]
      BY RestOf
    <3>2. QED
      BY <2>1, <3>1, Zenon
  <2> HIDE DEF t
  <2>3. Len(r) # 0 /\ Len(r) - 1 = Len(t)
    BY <1>1, <1>4, <2>2
  <2>4. r # <<>>
    BY <2>3, EmptySeq
  <2>5. /\ Head(r) = r[1] /\ Tail(r) \in Seq(S) /\ Len(Tail(r)) = Len(r) - 1
        /\ \A i \in 1..Len(Tail(r)) : Tail(r)[i] = r[i + 1]
    BY <1>1, <2>4, HeadTailProperties
  <2>6. Head(r) = s[n + 1]
    BY <1>1, <1>4, <2>5
  <2>7. \A i \in 1..Len(Tail(r)) : Tail(r)[i] = t[i]
    <3>1. SUFFICES ASSUME NEW i \in 1..Len(Tail(r)) PROVE Tail(r)[i] = t[i]
      OBVIOUS
    <3>2. i \in 1..(k - (n + 1)) /\ i + 1 \in 1..(k - n) /\ n + (i + 1) = n + 1 + i
      BY <1>1, <2>5
    <3>3. r[i + 1] = s[n + (i + 1)] /\ t[i] = s[n + 1 + i] /\ Tail(r)[i] = r[i + 1]
      BY <1>1, <2>2, <2>5, <3>2, Zenon
    <3>4. QED
      BY <3>2, <3>3, Zenon
  <2>8. Tail(r) = t
    BY <2>2, <2>3, <2>5, <2>7, SeqEqual
  <2>9. QED
    BY <2>4, <2>6, <2>8 DEF t
<1>5. QED
  BY <1>2, <1>3, <1>4, Zenon DEF r

-----------------------------------------------------------------------------
(* Going over a list element by element.                                   *)

\* The steps of going over s from x, and what is reached at its end.
Steps(h, F, x, s) == [n \in 0..Len(s) |-> IF n = 0 THEN x ELSE F[<<h[n - 1], s[n]>>]]

Run(F, x, s) ==
    LET h == CHOOSE g : g = Steps(g, F, x, s) IN h[Len(s)]

\* A step from elements of X, one for each element of Y; a way through s.
IsStep(F, X, Y) == F \in [X \X Y -> X]

Goes(h, F, x, s) == h[0] = x /\ \A n \in 1..Len(s) : h[n] = F[<<h[n - 1], s[n]>>]

Way(h, F, X, x, s) ==
    h \in [0..Len(s) -> X] /\ Goes(h, F, x, s) /\ h[Len(s)] = Run(F, x, s)

\* The steps exist, stay in X and reach Run.
LEMMA RunSteps ==
    ASSUME NEW X, NEW Y, NEW F, IsStep(F, X, Y), NEW x \in X, NEW s \in Seq(Y)
    PROVE  \E h : Way(h, F, X, x, s)
<1> DEFINE m == Len(s)
           G == [p \in X \X (1..m) |-> F[<<p[1], s[p[2]]>>]]
           h == CHOOSE g : g = Steps(g, F, x, s)
<1>1. m \in Nat /\ DOMAIN s = 1..m /\ \A n \in 1..m : s[n] \in Y
  BY LenProperties, ElementOfSeq
<1>2. G \in [X \X (1..m) -> X] /\ \A y \in X, n \in 1..m : G[<<y, n>>] = F[<<y, s[n]>>]
  BY <1>1 DEF IsStep
<1> HIDE DEF G, m
<1>3. PICK g \in [0..m -> X] : g[0] = x /\ \A n \in 1..m : g[n] = G[<<g[n - 1], n>>]
  <2>1. \E g : Values(g, X, x, m, G)
    BY <1>1, <1>2, Computed, Zenon
  <2>2. QED
    BY <2>1, Zenon DEF Values
<1>4. \A n \in 0..m : n = 0 \/ (n \in 1..m /\ n - 1 \in 0..m)
  BY <1>1
<1>5. g = Steps(g, F, x, s)
  <2>1. \A n \in 0..m : g[n] = IF n = 0 THEN x ELSE F[<<g[n - 1], s[n]>>]
    BY <1>2, <1>3, <1>4
  <2>2. QED
    BY <2>1 DEF Steps, m
<1>6. h = Steps(h, F, x, s)
  BY <1>5, Zenon
<1>7. Run(F, x, s) = h[m]
  BY Zenon DEF Run, m
<1> HIDE DEF h
<1>8. h = [n \in 0..m |-> IF n = 0 THEN x ELSE F[<<h[n - 1], s[n]>>]]
  BY <1>6, Zenon DEF Steps, m
<1>9. h[0] = x
  BY <1>1, <1>8
<1>10. \A n \in 1..m : h[n] = F[<<h[n - 1], s[n]>>]
  <2>1. \A n \in 1..m : n \in 0..m /\ n # 0
    BY <1>1
  <2>2. QED
    BY <1>8, <2>1
<1>11. ASSUME NEW n \in 1..m, h[n - 1] \in X PROVE h[n] \in X
  BY <1>1, <1>10, <1>11 DEF IsStep
<1>12. \A n \in 0..m : h[n] \in X
  BY <1>1, <1>9, <1>11, Reached
<1>13. h \in [0..m -> X]
  BY <1>8, <1>12
<1>14. QED
  BY <1>7, <1>9, <1>10, <1>13, Zenon DEF Way, Goes, m

\* There is only one way to go.
LEMMA RunIs ==
    ASSUME NEW X, NEW Y, NEW F, IsStep(F, X, Y), NEW x \in X, NEW s \in Seq(Y),
           NEW g, Goes(g, F, x, s)
    PROVE  g[Len(s)] = Run(F, x, s)
<1> DEFINE m == Len(s)
<1>1. m \in Nat
  BY LenProperties
<1>2. PICK h : Way(h, F, X, x, s)
  BY RunSteps, Zenon
<1>2a. /\ h \in [0..m -> X]
       /\ h[0] = x
       /\ \A n \in 1..m : h[n] = F[<<h[n - 1], s[n]>>]
       /\ h[m] = Run(F, x, s)
  BY <1>2, Zenon DEF Way, Goes, m
<1> DEFINE same == [n \in 0..m |-> IF g[n] = h[n] THEN 0 ELSE 1]
<1>3. g[0] = x /\ \A n \in 1..m : g[n] = F[<<g[n - 1], s[n]>>]
  BY Zenon DEF Goes, m
<1> HIDE DEF m
<1>4. \A n \in 0..m : same[n] \in {0} <=> g[n] = h[n]
  OBVIOUS
<1> HIDE DEF same
<1>5. 0 \in 0..m /\ m \in 0..m /\ \A n \in 1..m : n \in 0..m /\ n - 1 \in 0..m
  BY <1>1
<1>6. same[0] \in {0}
  BY <1>2a, <1>3, <1>4, <1>5
<1>7. ASSUME NEW n \in 1..m, same[n - 1] \in {0} PROVE same[n] \in {0}
  <2>1. g[n - 1] = h[n - 1]
    BY <1>4, <1>5, <1>7
  <2>2. g[n] = F[<<g[n - 1], s[n]>>] /\ h[n] = F[<<h[n - 1], s[n]>>]
    BY <1>2a, <1>3
  <2>3. g[n] = h[n]
    BY <2>1, <2>2, Zenon
  <2>4. QED
    BY <1>4, <1>5, <2>3
<1>8. \A n \in 0..m : same[n] \in {0}
  BY <1>1, <1>6, <1>7, Reached
<1>9. g[m] = h[m] /\ h[m] = Run(F, x, s)
  BY <1>2a, <1>4, <1>5, <1>8
<1>10. QED
  BY <1>9 DEF m

\* Going over nothing, over one element, and over one list after another.
LEMMA RunEmpty ==
    ASSUME NEW X, NEW Y, NEW F, IsStep(F, X, Y), NEW x \in X
    PROVE  Run(F, x, <<>>) = x
<1>1. <<>> \in Seq(Y) /\ Len(<<>>) = 0
  BY EmptySeq
<1>2. PICK h : Way(h, F, X, x, <<>>)
  BY <1>1, RunSteps, Zenon
<1>3. h[0] = x /\ h[Len(<<>>)] = Run(F, x, <<>>)
  BY <1>2, Zenon DEF Way, Goes
<1>4. QED
  BY <1>1, <1>3, Zenon

\* A run stays among the values of its steps.
LEMMA RunStays ==
    ASSUME NEW X, NEW Y, NEW F, IsStep(F, X, Y), NEW x \in X, NEW s \in Seq(Y)
    PROVE  Run(F, x, s) \in X
<1>1. Len(s) \in 0..Len(s)
  BY LenProperties
<1>2. PICK h : Way(h, F, X, x, s)
  BY RunSteps, Zenon
<1>3. h \in [0..Len(s) -> X] /\ h[Len(s)] = Run(F, x, s)
  BY <1>2, Zenon DEF Way
<1>4. QED
  BY <1>1, <1>3

\* A run over two sequences is one over the second from where the first ends.
LEMMA RunConcat ==
    ASSUME NEW X, NEW Y, NEW F, IsStep(F, X, Y), NEW x \in X, NEW s \in Seq(Y), NEW t \in Seq(Y)
    PROVE  Run(F, x, s \o t) = Run(F, Run(F, x, s), t)
<1> DEFINE k == Len(s)
           l == Len(t)
           y == Run(F, x, s)
           u == s \o t
<1>1. k \in Nat /\ l \in Nat
  BY LenProperties
<1>2. /\ u \in Seq(Y) /\ Len(u) = k + l
      /\ \A i \in 1..(k + l) : u[i] = IF i <= k THEN s[i] ELSE t[i - k]
  BY ConcatProperties
<1>3. y \in X
  BY RunStays, Zenon DEF y
<1>4. PICK g : Way(g, F, X, x, s)
  BY RunSteps, Zenon
<1>4a. /\ g \in [0..k -> X]
       /\ g[0] = x
       /\ \A n \in 1..k : g[n] = F[<<g[n - 1], s[n]>>]
       /\ g[k] = y
  BY <1>4, Zenon DEF Way, Goes, k, y
<1> HIDE DEF y
<1>5. PICK h : Way(h, F, X, y, t)
  BY <1>3, RunSteps, Zenon
<1>5a. /\ h \in [0..l -> X]
       /\ h[0] = y
       /\ \A n \in 1..l : h[n] = F[<<h[n - 1], t[n]>>]
       /\ h[l] = Run(F, y, t)
  BY <1>5, Zenon DEF Way, Goes, l
<1> HIDE DEF k, l, u
<1> DEFINE f == [n \in 0..(k + l) |-> IF n <= k THEN g[n] ELSE h[n - k]]
<1>5b. \A n \in 0..(k + l) : f[n] = IF n <= k THEN g[n] ELSE h[n - k]
  OBVIOUS
<1> HIDE DEF f
<1>6. f[0] = x
  BY <1>1, <1>4a, <1>5b
<1>7. ASSUME NEW n \in 1..(k + l) PROVE f[n] = F[<<f[n - 1], u[n]>>]
  <2>1. n \in Int /\ n \in 0..(k + l) /\ n - 1 \in 0..(k + l)
    BY <1>1
  <2>2. CASE n <= k
    <3>1. n \in 1..k /\ n - 1 <= k
      BY <1>1, <2>1, <2>2
    <3>2. f[n] = g[n] /\ f[n - 1] = g[n - 1] /\ u[n] = s[n]
      BY <1>2, <1>5b, <2>1, <2>2, <3>1
    <3>3. QED
      BY <1>4a, <3>1, <3>2, Zenon
  <2>3. CASE n = k + 1
    <3>1. 1 \in 1..l /\ n - 1 = k /\ ~(n <= k) /\ n - k = 1 /\ k <= k /\ 1 - 1 = 0
      BY <1>1, <2>1, <2>3
    <3>2. f[n] = h[1] /\ f[n - 1] = g[k] /\ u[n] = t[1]
      BY <1>2, <1>5b, <2>1, <3>1
    <3>3. h[1] = F[<<h[0], t[1]>>]
      BY <1>5a, <3>1
    <3>4. QED
      BY <1>4a, <1>5a, <3>2, <3>3, Zenon
  <2>4. CASE n > k + 1
    <3>1. /\ n - k \in 1..l /\ ~(n <= k) /\ ~(n - 1 <= k) /\ (n - 1) - k = (n - k) - 1
      BY <1>1, <2>1, <2>4
    <3>2. f[n] = h[n - k] /\ f[n - 1] = h[(n - k) - 1] /\ u[n] = t[n - k]
      BY <1>2, <1>5b, <2>1, <3>1
    <3>3. QED
      BY <1>5a, <3>1, <3>2, Zenon
  <2>5. QED
    BY <1>1, <2>1, <2>2, <2>3, <2>4
<1>8. f[k + l] = Run(F, y, t)
  <2>0. k + l \in 0..(k + l)
    BY <1>1
  <2>1. CASE l = 0
    <3>1. k + l = k /\ k <= k
      BY <1>1, <2>1
    <3>2. f[k + l] = g[k] /\ h[l] = h[0]
      BY <1>5b, <2>0, <2>1, <3>1
    <3>3. QED
      BY <1>4a, <1>5a, <3>2, Zenon
  <2>2. CASE l # 0
    <3>1. ~(k + l <= k) /\ (k + l) - k = l
      BY <1>1, <2>2
    <3>2. f[k + l] = h[l]
      BY <1>5b, <2>0, <3>1
    <3>3. QED
      BY <1>5a, <3>2, Zenon
  <2>3. QED
    BY <2>1, <2>2
<1>9. Goes(f, F, x, u)
  BY <1>2, <1>6, <1>7 DEF Goes
<1>10. f[Len(u)] = Run(F, x, u)
  BY <1>2, <1>9, RunIs
<1>11. QED
  BY <1>2, <1>8, <1>10, Zenon DEF y, u

\* A run over one value is one step.
LEMMA RunOne ==
    ASSUME NEW X, NEW Y, NEW F, IsStep(F, X, Y), NEW x \in X, NEW b \in Y
    PROVE  Run(F, x, <<b>>) = F[<<x, b>>]
<1> DEFINE s == <<b>>
<1>1. s \in Seq(Y) /\ Len(s) = 1 /\ s[1] = b
  OBVIOUS
<1> HIDE DEF s
<1>2. PICK h : Way(h, F, X, x, s)
  BY <1>1, RunSteps, Zenon
<1>2a. /\ h \in [0..Len(s) -> X]
       /\ h[0] = x
       /\ \A n \in 1..Len(s) : h[n] = F[<<h[n - 1], s[n]>>]
       /\ h[Len(s)] = Run(F, x, s)
  BY <1>2, Zenon DEF Way, Goes
<1>3. h[1] = F[<<h[0], s[1]>>]
  BY <1>1, <1>2a
<1>4. QED
  BY <1>1, <1>2a, <1>3 DEF s

\* One more value is one more step.
LEMMA RunAppend ==
    ASSUME NEW X, NEW Y, NEW F, IsStep(F, X, Y), NEW x \in X, NEW s \in Seq(Y), NEW b \in Y
    PROVE  Run(F, x, Append(s, b)) = F[<<Run(F, x, s), b>>]
<1> DEFINE t == <<b>>
<1>0. t \in Seq(Y)
  OBVIOUS
<1>1. Run(F, x, s) \in X
  BY RunStays, Zenon
<1>2. Append(s, b) = s \o t
  BY AppendIsConcat, Zenon
<1>3. Run(F, Run(F, x, s), t) = F[<<Run(F, x, s), b>>]
  BY <1>1, RunOne
<1> HIDE DEF t
<1>4. Run(F, x, s \o t) = Run(F, Run(F, x, s), t)
  BY <1>0, RunConcat
<1>5. QED
  BY <1>2, <1>3, <1>4

\* A way that another one follows step by step.
Follows(A, F, G, X, Z)   == \A x \in X, b \in Z : A[F[<<x, b>>]] = G[<<A[x], b>>]
SameEnd(A, F, G, x, s) == A[Run(F, x, s)] = Run(G, A[x], s)

\* Runs whose steps follow each other end in values that do.
LEMMA RunFollows ==
    ASSUME NEW X, NEW U, NEW Y, NEW Z \in SUBSET Y,
           NEW F, IsStep(F, X, Y), NEW G, IsStep(G, U, Y), NEW A \in [X -> U],
           Follows(A, F, G, X, Z),
           NEW x \in X, NEW s \in Seq(Y), \A i \in DOMAIN s : s[i] \in Z
    PROVE  SameEnd(A, F, G, x, s)
<1> DEFINE m == Len(s)
<1>1. m \in Nat /\ DOMAIN s = 1..m
  BY LenProperties
<1>2. PICK h : Way(h, F, X, x, s)
  BY RunSteps, Zenon
<1>2a. /\ h \in [0..m -> X]
       /\ h[0] = x
       /\ \A n \in 1..m : h[n] = F[<<h[n - 1], s[n]>>]
       /\ h[m] = Run(F, x, s)
  BY <1>2, Zenon DEF Way, Goes, m
<1> HIDE DEF m
<1> DEFINE f == [n \in 0..m |-> A[h[n]]]
<1>3. f[0] = A[x] /\ f[m] = A[Run(F, x, s)] /\ A[x] \in U
  BY <1>1, <1>2a
<1>4. ASSUME NEW n \in 1..m PROVE f[n] = G[<<f[n - 1], s[n]>>]
  <2>1. n \in 0..m /\ n - 1 \in 0..m /\ s[n] \in Z
    BY <1>1
  <2>2. h[n - 1] \in X /\ h[n] = F[<<h[n - 1], s[n]>>]
    BY <1>2a, <2>1
  <2>3. A[h[n]] = G[<<A[h[n - 1]], s[n]>>]
    BY <2>1, <2>2 DEF Follows
  <2>4. f[n] = A[h[n]] /\ f[n - 1] = A[h[n - 1]]
    BY <2>1
  <2>5. QED
    BY <2>3, <2>4, Zenon
<1> HIDE DEF f
<1>5. Goes(f, G, A[x], s)
  BY <1>3, <1>4 DEF Goes, m
<1>6. f[Len(s)] = Run(G, A[x], s)
  BY <1>3, <1>5, RunIs
<1>7. QED
  BY <1>3, <1>6 DEF m, SameEnd

-----------------------------------------------------------------------------
(* Cutting lists.                                                          *)

\* The two parts of a list make it up.
LEMMA TwoParts ==
    ASSUME NEW S, NEW s \in Seq(S), NEW k \in 0..Len(s)
    PROVE  /\ SubSeq(s, 1, k) \in Seq(S) /\ SubSeq(s, k + 1, Len(s)) \in Seq(S)
           /\ Len(SubSeq(s, 1, k)) = k /\ Len(SubSeq(s, k + 1, Len(s))) = Len(s) - k
           /\ SubSeq(s, 1, k) \o SubSeq(s, k + 1, Len(s)) = s
<1> DEFINE m == Len(s)
           a == SubSeq(s, 1, k)
           b == SubSeq(s, k + 1, m)
<1>1. m \in Nat
  BY LenProperties
<1>2. a \in Seq(S) /\ Len(a) = k /\ \A i \in 1..k : a[i] = s[i]
  <2>1. k \in Nat /\ k <= Len(s)
    BY <1>1
  <2>2. QED
    BY <2>1, BeginningOf
<1>3. b \in Seq(S) /\ Len(b) = m - k /\ \A i \in 1..(m - k) : b[i] = s[k + i]
  <2>1. m = Len(s) /\ k \in 0..m
    OBVIOUS
  <2> HIDE DEF m
  <2>2. QED
    BY <1>1, <2>1, RestOf
<1> HIDE DEF a, b
<1>4. /\ a \o b \in Seq(S) /\ Len(a \o b) = k + (m - k)
      /\ \A i \in 1..(k + (m - k)) : (a \o b)[i] = IF i <= k THEN a[i] ELSE b[i - k]
  BY <1>2, <1>3, ConcatProperties
<1> DEFINE c == a \o b
<1>5. c \in Seq(S) /\ Len(c) = m
  BY <1>1, <1>4
<1>6. ASSUME NEW i \in 1..m PROVE c[i] = s[i]
  <2>1. CASE i <= k
    BY <1>1, <1>2, <1>4, <2>1
  <2>2. CASE ~(i <= k)
    <3>1. i - k \in 1..(m - k) /\ k + (i - k) = i /\ i \in 1..(k + (m - k))
      BY <1>1, <2>2
    <3>2. QED
      BY <1>3, <1>4, <2>2, <3>1
  <2>3. QED
    BY <2>1, <2>2
<1> HIDE DEF c
<1>7. c = s
  BY <1>5, <1>6, SeqEqual
<1>8. QED
  BY <1>2, <1>3, <1>7 DEF a, b, c

\* Putting lists together associates.
Associates(x, y, z) == (x \o y) \o z = x \o (y \o z)

\* It does not matter which two of three sequences are put together first.
LEMMA ConcatsAssociate ==
    ASSUME NEW S, NEW x \in Seq(S), NEW y \in Seq(S), NEW z \in Seq(S)
    PROVE  Associates(x, y, z)
BY ConcatAssociative DEF Associates

\* A list that goes on with another one, of which first a piece is taken off.
CutFine(S, p, w, n, k) ==
    LET full == p \o SubSeq(w, 1, n)
        left == SubSeq(full, k + 1, Len(full))
        rest == SubSeq(w, n + 1, Len(w))
    IN  /\ full \in Seq(S) /\ SubSeq(full, 1, k) \in Seq(S)
        /\ left \in Seq(S) /\ rest \in Seq(S)
        /\ SubSeq(full, 1, k) \o (left \o rest) = p \o w

\* A sequence that is cut anywhere, its first part first, is put together again.
LEMMA CutAnywhere ==
    ASSUME NEW S, NEW p \in Seq(S), NEW w \in Seq(S), NEW n \in 0..Len(w),
           NEW k \in 0..Len(p \o SubSeq(w, 1, n))
    PROVE  CutFine(S, p, w, n, k)
<1> DEFINE c == SubSeq(w, 1, n)
           rest == SubSeq(w, n + 1, Len(w))
           full == p \o c
           a == SubSeq(full, 1, k)
           left == SubSeq(full, k + 1, Len(full))
<1>1. c \in Seq(S) /\ rest \in Seq(S) /\ c \o rest = w
  BY TwoParts
<1> HIDE DEF c, rest
<1>2. full \in Seq(S)
  BY <1>1, ConcatProperties
<1>3. k \in 0..Len(full)
  BY DEF c
<1> HIDE DEF full
<1>4. a \in Seq(S) /\ left \in Seq(S) /\ a \o left = full
  BY <1>2, <1>3, TwoParts
<1> HIDE DEF a, left
<1>5. Associates(a, left, rest)
  BY <1>1, <1>4, ConcatsAssociate, Zenon
<1>6. Associates(p, c, rest)
  BY <1>1, ConcatsAssociate, Zenon
<1>7. a \o (left \o rest) = p \o w
  BY <1>1, <1>4, <1>5, <1>6, Zenon DEF full, Associates
<1>8. QED
  BY <1>1, <1>2, <1>4, <1>7 DEF CutFine, a, left, full, c, rest

\* A list without its last element.
Shorter(s) == SubSeq(s, 1, Len(s) - 1)

\* A sequence without its last element.
LEMMA ShorterIs ==
    ASSUME NEW S, NEW s \in Seq(S)
    PROVE  /\ Shorter(s) \in Seq(S)
           /\ s = <<>> => Shorter(s) = <<>>
           /\ s # <<>> => /\ Len(Shorter(s)) = Len(s) - 1
                          /\ \A i \in 1..(Len(s) - 1) : Shorter(s)[i] = s[i]
<1>1. CASE s = <<>>
  <2>1. Len(s) = 0
    BY <1>1, EmptySeq
  <2>2. Len(s) - 1 < 1 /\ Len(s) - 1 \in Int /\ 1 \in Int
    BY <2>1
  <2>3. Shorter(s) = <<>>
    BY <2>2, SubSeqEmpty DEF Shorter
  <2>4. QED
    BY <1>1, <2>3
<1>2. CASE s # <<>>
  <2>1. Len(s) - 1 \in Nat /\ Len(s) - 1 <= Len(s)
    BY <1>2, EmptySeq
  <2>2. QED
    BY <1>2, <2>1, BeginningOf DEF Shorter
<1>3. QED
  BY <1>1, <1>2

\* Taking the last element off the second part takes it off the whole.
LEMMA ShorterWhole ==
    ASSUME NEW S, NEW s \in Seq(S), NEW t \in Seq(S)
    PROVE  /\ t # <<>> => s \o Shorter(t) = Shorter(s \o t)
           /\ t = <<>> => s \o t = s
<1>1. ASSUME t # <<>> PROVE s \o Shorter(t) = Shorter(s \o t)
  <2> DEFINE m == Len(s)
             n == Len(t)
             r == Shorter(t)
             x == s \o r
             u == s \o t
             y == Shorter(u)
  <2>1. m \in Nat /\ n \in Nat /\ n # 0
    BY <1>1, LenProperties, EmptySeq
  <2>2. r \in Seq(S) /\ Len(r) = n - 1 /\ \A i \in 1..(n - 1) : r[i] = t[i]
    BY <1>1, ShorterIs
  <2> HIDE DEF r
  <2>3. /\ x \in Seq(S) /\ Len(x) = m + (n - 1)
        /\ \A i \in 1..(m + (n - 1)) : x[i] = IF i <= m THEN s[i] ELSE r[i - m]
    <3>1. /\ x \in Seq(S) /\ Len(x) = Len(s) + Len(r)
          /\ \A i \in 1..(Len(s) + Len(r)) : x[i] = IF i <= Len(s) THEN s[i] ELSE r[i - Len(s)]
      BY <2>2, ConcatProperties
    <3> HIDE DEF x
    <3>2. QED
      BY <2>1, <2>2, <3>1
  <2>4. /\ u \in Seq(S) /\ Len(u) = m + n
        /\ \A i \in 1..(m + n) : u[i] = IF i <= m THEN s[i] ELSE t[i - m]
    BY ConcatProperties
  <2> HIDE DEF x, u, m, n
  <2>5. u # <<>>
    BY <2>1, <2>4, EmptySeq
  <2>6. /\ y \in Seq(S) /\ Len(y) = (m + n) - 1
        /\ \A i \in 1..((m + n) - 1) : y[i] = u[i]
    BY <2>4, <2>5, ShorterIs
  <2> HIDE DEF y
  <2>7. Len(x) = Len(y)
    BY <2>1, <2>3, <2>6
  <2>8. ASSUME NEW i \in 1..Len(x) PROVE x[i] = y[i]
    <3>1. /\ i \in 1..(m + (n - 1)) /\ i \in 1..(m + n) /\ i \in 1..((m + n) - 1) /\ i \in Nat
          /\ ~(i <= m) => i - m \in 1..(n - 1)
      BY <2>1, <2>3, <2>8
    <3>2. y[i] = IF i <= m THEN s[i] ELSE t[i - m]
      BY <2>4, <2>6, <3>1
    <3>3. x[i] = IF i <= m THEN s[i] ELSE r[i - m]
      BY <2>3, <3>1
    <3>4. QED
      BY <2>2, <3>1, <3>2, <3>3
  <2>9. x = y
    BY <2>3, <2>6, <2>7, <2>8, SeqEqual
  <2>10. QED
    BY <2>9 DEF x, y, r, u
<1>2. t = <<>> => s \o t = s
  BY ConcatEmptySeq
<1>3. QED
  BY <1>1, <1>2

\* What is added to the second part is added to the whole.
LEMMA AppendWhole ==
    ASSUME NEW S, NEW s \in Seq(S), NEW t \in Seq(S), NEW b \in S
    PROVE  s \o Append(t, b) = Append(s \o t, b)
<1> DEFINE o == <<b>>
<1>1. o \in Seq(S) /\ s \o t \in Seq(S)
  BY ConcatProperties
<1>2. Append(t, b) = t \o o /\ Append(s \o t, b) = (s \o t) \o o
  BY <1>1, AppendIsConcat
<1> HIDE DEF o
<1>3. Associates(s, t, o)
  BY <1>1, ConcatsAssociate
<1>4. QED
  BY <1>2, <1>3, Zenon DEF Associates

\* The numbers up to one.
UpTo(n) == [i \in 1..n |-> i]

\* One more number is appended to them.
LEMMA UpToGrows ==
    ASSUME NEW n \in Nat
    PROVE  /\ UpTo(n) \in Seq(Nat) /\ Append(UpTo(n), n + 1) = UpTo(n + 1)
<1>1. UpTo(n) \in Seq(Nat) /\ Len(UpTo(n)) = n
  BY DEF UpTo
<1>2. UpTo(n + 1) \in Seq(Nat) /\ Len(UpTo(n + 1)) = n + 1
  BY DEF UpTo
<1>3. n + 1 \in Nat
  OBVIOUS
<1> DEFINE a == Append(UpTo(n), n + 1)
<1>4. /\ a \in Seq(Nat) /\ Len(a) = n + 1
      /\ \A i \in 1..n : a[i] = UpTo(n)[i]
      /\ a[n + 1] = n + 1
  BY <1>1, <1>3, AppendProperties
<1> HIDE DEF a
<1>5. ASSUME NEW i \in 1..(n + 1) PROVE a[i] = UpTo(n + 1)[i]
  <2>1. i \in 1..n \/ i = n + 1
    OBVIOUS
  <2>2. UpTo(n + 1)[i] = i /\ (i \in 1..n => UpTo(n)[i] = i)
    BY DEF UpTo
  <2>3. QED
    BY <1>4, <2>1, <2>2
<1>6. a = UpTo(n + 1)
  BY <1>2, <1>4, <1>5, SeqEqual
<1>7. QED
  BY <1>1, <1>6 DEF a

\* A list of three parts: its last part, its middle or its first two may change together.
PartAdded(x, y, z, k) == (x \o y) \o Append(z, k) = Append((x \o y) \o z, k)
PartMoved(x, y, b, c) == (x \o (y \o b)) \o c = (x \o y) \o (b \o c)
PartRead(x, y, z)     == (Append(x, y[1]) \o Tail(y)) \o z = (x \o y) \o z

\* What moves from part to part leaves the whole as it was.
LEMMA ThreeParts ==
    ASSUME NEW S, NEW x \in Seq(S), NEW y \in Seq(S), NEW z \in Seq(S)
    PROVE  /\ \A k \in S : PartAdded(x, y, z, k)
           /\ \A b \in Seq(S), c \in Seq(S) : PartMoved(x, y, b, c)
           /\ y # <<>> => PartRead(x, y, z)
<1>1. x \o y \in Seq(S)
  BY ConcatProperties
<1>2. ASSUME NEW k \in S PROVE PartAdded(x, y, z, k)
  <2> DEFINE o == <<k>>
             w == x \o y
  <2>1. o \in Seq(S) /\ w \in Seq(S) /\ w \o z \in Seq(S)
    BY <1>1, ConcatProperties
  <2>2. Append(z, k) = z \o o /\ Append(w \o z, k) = (w \o z) \o o
    BY <2>1, AppendIsConcat
  <2> HIDE DEF o, w
  <2>3. Associates(w, z, o)
    BY <2>1, ConcatsAssociate
  <2>4. QED
    BY <2>2, <2>3, Zenon DEF Associates, PartAdded, w
<1>3. ASSUME NEW b \in Seq(S), NEW c \in Seq(S) PROVE PartMoved(x, y, b, c)
  <2>1. Associates(x, y, b) /\ Associates(x \o y, b, c)
    BY <1>1, ConcatsAssociate
  <2>2. QED
    BY <2>1, Zenon DEF Associates, PartMoved
<1>4. ASSUME y # <<>> PROVE PartRead(x, y, z)
  <2> DEFINE o == <<y[1]>>
             r == Tail(y)
  <2>1. Len(y) \in Nat \ {0}
    BY <1>4, EmptySeq
  <2>2. y[1] \in S /\ r \in Seq(S) /\ Len(r) = Len(y) - 1 /\ \A i \in 1..Len(r) : r[i] = y[i + 1]
    BY <1>4, <2>1, HeadTailProperties, ElementOfSeq
  <2>3. o \in Seq(S) /\ Len(o) = 1 /\ o[1] = y[1]
    BY <2>2
  <2>4. Append(x, y[1]) = x \o o
    BY <2>2, AppendIsConcat
  <2> HIDE DEF o, r
  <2> DEFINE w == o \o r
  <2>5. /\ w \in Seq(S) /\ Len(w) = Len(o) + Len(r)
        /\ \A i \in 1..(Len(o) + Len(r)) : w[i] = IF i <= Len(o) THEN o[i] ELSE r[i - Len(o)]
    <3>1. o \in Seq(S) /\ r \in Seq(S)
      BY <2>2, <2>3
    <3>2. QED
      BY <3>1, ConcatProperties
  <2> HIDE DEF w
  <2>6. Len(w) = Len(y)
    BY <2>1, <2>2, <2>3, <2>5
  <2>7. ASSUME NEW i \in 1..Len(w) PROVE w[i] = y[i]
    <3>1. i \in Nat /\ i \in 1..(Len(o) + Len(r))
      BY <2>1, <2>5, <2>6
    <3>2. CASE i = 1
      BY <2>3, <2>5, <3>1, <3>2
    <3>3. CASE i # 1
      <4>1. ~(i <= Len(o)) /\ i - Len(o) \in 1..Len(r) /\ (i - Len(o)) + 1 = i
        BY <2>1, <2>2, <2>3, <2>6, <3>1, <3>3
      <4>2. QED
        BY <2>2, <2>5, <3>1, <4>1
    <3>4. QED
      BY <3>2, <3>3
  <2>8. w = y
    BY <2>5, <2>6, <2>7, SeqEqual
  <2>9. Associates(x, o, r)
    BY <2>2, <2>3, ConcatsAssociate
  <2>10. QED
    BY <2>4, <2>8, <2>9, Zenon DEF Associates, PartRead, w, r
<1>5. QED
  BY <1>2, <1>3, <1>4


=============================================================================
