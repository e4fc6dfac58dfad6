---------------------------- MODULE SliceProofs ----------------------------
(***************************************************************************)
(* Proofs about module Slices: what filtering a slice returns.             *)
(*                                                                         *)
(* What the recursive function Kept returns for every slice is proved by   *)
(* induction over sets of numbers (Steps): the theorems of the library     *)
(* that take a predicate as a parameter cannot be used here, but the       *)
(* well-foundedness of < on Nat, which is a fact about a set, can.         *)
(***************************************************************************)
EXTENDS Slices, SequenceTheorems, WellFoundedInduction, TLAPS

(***************************************************************************)
(* Induction over sets of numbers                                          *)
(***************************************************************************)
LEMMA Less ==
  ASSUME NEW m \in Nat, NEW n \in Nat, m < n PROVE <<m, n>> \in OpToRel(<, Nat)
<1> DEFINE p == <<m, n>>
<1>1. p \in Nat \X Nat /\ p[1] < p[2]
  OBVIOUS
<1> HIDE DEF p
<1>2. p \in {ss \in Nat \X Nat : ss[1] < ss[2]}
  BY <1>1, Zenon
<1>3. p \in OpToRel(<, Nat)
  BY <1>2, Zenon DEF OpToRel
<1> QED
  BY <1>3, Zenon DEF p

LEMMA Least ==
  ASSUME NEW T, T \subseteq Nat, T # {}
  PROVE  \E n \in T : \A m \in T : ~(m < n)
<1>1. \E n \in T : \A m \in T : <<m, n>> \notin OpToRel(<, Nat)
  BY WFMin, NatLessThanWellFounded, Zenon
<1> QED
  BY <1>1, Less, Zenon

\* A set that has 0, and n + 1 with every n below top, has all of 0..top: the least
\* number that it lacks would follow one it has.
LEMMA Steps ==
  ASSUME NEW top \in Nat, NEW T, 0 \in T,
         \A n \in 0..top : n < top /\ n \in T => n + 1 \in T
  PROVE  0..top \subseteq T
<1> DEFINE Lacks == {n \in 0..top : n \notin T}
<1>1. SUFFICES ASSUME Lacks # {} PROVE FALSE
  OBVIOUS
<1>2. Lacks \subseteq Nat
  OBVIOUS
<1>3. PICK n \in Lacks : \A m \in Lacks : ~(m < n)
  <2> HIDE DEF Lacks
  <2> QED
    BY <1>1, <1>2, Least
<1>4. n \in Nat /\ n # 0 /\ n <= top /\ n \notin T
  BY <1>3
<1>5. n - 1 \in 0..top /\ n - 1 < top /\ n - 1 < n /\ (n - 1) + 1 = n
  BY <1>4
<1>6. n - 1 \in T
  BY <1>3, <1>5
<1> QED
  BY <1>4, <1>5, <1>6

(***************************************************************************)
(* Filtering a slice                                                       *)
(***************************************************************************)
Grown(seq, set, kept, i) ==
  IF i = 0 THEN <<>>
  ELSE IF seq[i] \in set THEN Append(kept[i - 1], seq[i]) ELSE kept[i - 1]

\* The recursion of Kept has a solution on the first n elements of a slice, and with
\* it one on the first n + 1.
LEMMA KeptExists ==
  ASSUME NEW seq, IsSlice(seq), NEW set
  PROVE  \E kept : kept = [i \in 0..Len(seq) |-> Grown(seq, set, kept, i)]
<1> DEFINE Solves(n) == \E kept : kept = [i \in 0..n |-> Grown(seq, set, kept, i)]
           T == {n \in 0..Len(seq) : Solves(n)}
<1>1. Len(seq) \in Nat
  BY DEF IsSlice
<1>2. 0 \in T
  <2> DEFINE k == [i \in 0..0 |-> <<>>]
  <2>1. k = [i \in 0..0 |-> Grown(seq, set, k, i)]
    BY DEF Grown
  <2> QED
    BY <1>1, <2>1
<1>3. ASSUME NEW n \in 0..Len(seq), n < Len(seq), n \in T PROVE n + 1 \in T
  <2>1. PICK k : k = [i \in 0..n |-> Grown(seq, set, k, i)]
    BY <1>3
  <2> DEFINE h == [i \in 0..(n + 1) |-> IF i = n + 1 THEN Grown(seq, set, k, n + 1) ELSE k[i]]
  <2>2. ASSUME NEW i \in 0..(n + 1) PROVE h[i] = Grown(seq, set, h, i)
    <3>1. CASE i = n + 1
      <4>1. h[i - 1] = k[i - 1]
        BY <3>1, <1>1
      <4>2. h[i] = Grown(seq, set, k, i)
        BY <3>1
      <4> HIDE DEF h
      <4> QED
        BY <4>1, <4>2 DEF Grown
    <3>2. CASE i # n + 1
      <4>1. i \in 0..n /\ h[i] = k[i]
        BY <3>2, <1>1
      <4>2. i # 0 => h[i - 1] = k[i - 1]
        BY <3>2, <1>1
      <4>3. k[i] = Grown(seq, set, k, i)
        BY <2>1, <4>1
      <4> HIDE DEF h
      <4> QED
        BY <4>1, <4>2, <4>3 DEF Grown
    <3> QED
      BY <3>1, <3>2
  <2>3. h = [i \in 0..(n + 1) |-> Grown(seq, set, h, i)]
    BY <2>2
  <2> HIDE DEF h
  <2>4. Solves(n + 1)
    BY <2>3
  <2> QED
    BY <1>1, <1>3, <2>4
<1>4. 0..Len(seq) \subseteq T
  <2> HIDE DEF T
  <2> QED
    BY <1>1, <1>2, <1>3, Steps
<1> QED
  BY <1>1, <1>4

LEMMA KeptIs ==
  ASSUME NEW seq, IsSlice(seq), NEW set
  PROVE  /\ Len(seq) \in Nat /\ Kept(seq, set)[0] = <<>>
         /\ \A i \in 0..Len(seq) : i < Len(seq) =>
              Kept(seq, set)[i + 1] = IF seq[i + 1] \in set
                                      THEN Append(Kept(seq, set)[i], seq[i + 1])
                                      ELSE Kept(seq, set)[i]
<1>1. Len(seq) \in Nat
  BY DEF IsSlice
<1> DEFINE k == Kept(seq, set)
<1>2. k = CHOOSE kept : kept = [i \in 0..Len(seq) |-> Grown(seq, set, kept, i)]
  BY Zenon DEF Kept, Grown
<1>3. k = [i \in 0..Len(seq) |-> Grown(seq, set, k, i)]
  <2> HIDE DEF k
  <2> QED
    BY <1>2, KeptExists, Zenon
<1>4. \A i \in 0..Len(seq) : k[i] = Grown(seq, set, k, i)
  <2> HIDE DEF k
  <2> QED
    BY <1>3
<1>5. k[0] = <<>>
  BY <1>1, <1>4 DEF Grown
<1>6. ASSUME NEW i \in 0..Len(seq), i < Len(seq)
      PROVE  k[i + 1] = IF seq[i + 1] \in set THEN Append(k[i], seq[i + 1]) ELSE k[i]
  <2>1. i + 1 \in 0..Len(seq) /\ i + 1 # 0 /\ (i + 1) - 1 = i
    BY <1>1, <1>6
  <2> HIDE DEF k
  <2> QED
    BY <1>4, <2>1 DEF Grown
<1> QED
  BY <1>1, <1>5, <1>6

LEMMA Grows ==
  ASSUME NEW E, NEW s \in Seq(E), NEW e \in E
  PROVE  Elems(Append(s, e)) = Elems(s) \cup {e}
<1>1. Len(s) \in Nat /\ DOMAIN Append(s, e) = 1..(Len(s) + 1) /\ DOMAIN s = 1..Len(s)
  OBVIOUS
<1>2. \A i \in 1..Len(s) : Append(s, e)[i] = s[i]
  OBVIOUS
<1>3. Append(s, e)[Len(s) + 1] = e
  OBVIOUS
<1> DEFINE h == Append(s, e)
<1> HIDE DEF h
<1>4. Elems(h) \subseteq Elems(s) \cup {e}
  BY <1>1, <1>2, <1>3 DEF Elems, h
<1>5. Elems(s) \subseteq Elems(h)
  BY <1>1, <1>2 DEF Elems, h
<1>6. e \in Elems(h)
  BY <1>1, <1>3 DEF Elems, h
<1> QED
  BY <1>4, <1>5, <1>6 DEF h

\* The first n elements of a slice.
Heads(seq, n) == {seq[j] : j \in 1..n}

\* What is kept of the first i elements is a slice of those of them that are in the set.
LEMMA KeptHolds ==
  ASSUME NEW seq, IsSlice(seq), NEW set, NEW i \in 0..Len(seq)
  PROVE  /\ Kept(seq, set)[i] \in Seq(Elems(seq))
         /\ Elems(Kept(seq, set)[i]) = Heads(seq, i) \cap set
<1> DEFINE k == Kept(seq, set)
           Good(n) == k[n] \in Seq(Elems(seq)) /\ Elems(k[n]) = Heads(seq, n) \cap set
           T == {n \in 0..Len(seq) : Good(n)}
<1>1. Len(seq) \in Nat /\ k[0] = <<>>
      /\ \A n \in 0..Len(seq) : n < Len(seq) =>
           k[n + 1] = IF seq[n + 1] \in set THEN Append(k[n], seq[n + 1]) ELSE k[n]
  BY KeptIs
<1> HIDE DEF k
<1>2. 0 \in T
  <2>1. Elems(<<>>) = {} /\ <<>> \in Seq(Elems(seq))
    BY DEF Elems
  <2>2. Heads(seq, 0) = {}
    BY DEF Heads
  <2>3. Elems(k[0]) = {} /\ k[0] \in Seq(Elems(seq))
    BY <1>1, <2>1, Zenon
  <2>4. Good(0)
    <3>1. Heads(seq, 0) \cap set = {}
      BY <2>2, Zenon
    <3> QED
      BY <2>3, <3>1, Zenon
  <2> HIDE DEF Good
  <2> QED
    BY <1>1, <2>4
<1>3. ASSUME NEW n \in 0..Len(seq), n < Len(seq), n \in T PROVE n + 1 \in T
  <2>1. n + 1 \in 0..Len(seq) /\ n + 1 \in DOMAIN seq /\ seq[n + 1] \in Elems(seq)
    BY <1>1, <1>3 DEF IsSlice, Elems
  <2>2. Heads(seq, n + 1) = Heads(seq, n) \cup {seq[n + 1]}
    BY <1>1 DEF Heads
  <2>3. k[n] \in Seq(Elems(seq)) /\ Elems(k[n]) = Heads(seq, n) \cap set
    BY <1>3
  <2>4. CASE seq[n + 1] \in set
    <3>1. k[n + 1] = Append(k[n], seq[n + 1])
      BY <1>1, <1>3, <2>4
    <3>2. k[n + 1] \in Seq(Elems(seq))
      BY <3>1, <2>1, <2>3
    <3>3. Elems(Append(k[n], seq[n + 1])) = Elems(k[n]) \cup {seq[n + 1]}
      BY <2>3, <2>1, Grows
    <3> QED
      BY <2>1, <2>2, <2>3, <2>4, <3>1, <3>2, <3>3
  <2>5. CASE seq[n + 1] \notin set
    <3>1. k[n + 1] = k[n]
      BY <1>1, <1>3, <2>5
    <3> QED
      BY <2>1, <2>2, <2>3, <2>5, <3>1
  <2> QED
    BY <2>4, <2>5
<1>4. 0..Len(seq) \subseteq T
  <2> HIDE DEF T
  <2> QED
    BY <1>1, <1>2, <1>3, Steps
<1> QED
  BY <1>4 DEF k

\* Filtering a slice gives a slice of the elements that are in the set.
LEMMA SelectHolds ==
  ASSUME NEW seq, IsSlice(seq), NEW set
  PROVE  /\ Select(seq, set) \in Seq(Elems(seq)) /\ IsSlice(Select(seq, set))
         /\ Elems(Select(seq, set)) = Elems(seq) \cap set
<1>1. Len(seq) \in 0..Len(seq) /\ Heads(seq, Len(seq)) = Elems(seq)
  BY DEF IsSlice, Elems, Heads
<1> DEFINE out == Select(seq, set)
<1>2. out \in Seq(Elems(seq)) /\ Elems(out) = Elems(seq) \cap set
  <2>1. out = Kept(seq, set)[Len(seq)]
    BY DEF Select
  <2> HIDE DEF out
  <2> QED
    BY <1>1, <2>1, KeptHolds
<1> HIDE DEF out
<1>3. IsSlice(out)
  BY <1>2 DEF IsSlice, Elems
<1> QED
  BY <1>2, <1>3 DEF out

\* Two slices one after the other are a slice of the elements of both.
LEMMA JoinHolds ==
  ASSUME NEW a, NEW b, IsSlice(a), IsSlice(b)
  PROVE  IsSlice(a \o b) /\ Elems(a \o b) = Elems(a) \cup Elems(b)
<1> DEFINE E == Elems(a) \cup Elems(b)
<1>1. a \in Seq(E) /\ b \in Seq(E)
  BY DEF IsSlice, Elems
<1>2. a \o b \in Seq(E) /\ Len(a) \in Nat /\ Len(b) \in Nat /\ Len(a \o b) = Len(a) + Len(b)
      /\ DOMAIN (a \o b) = 1..(Len(a) + Len(b)) /\ DOMAIN a = 1..Len(a) /\ DOMAIN b = 1..Len(b)
  BY <1>1
<1>3. \A i \in 1..Len(a) : (a \o b)[i] = a[i]
  BY <1>1
<1>4. \A i \in 1..Len(b) : (a \o b)[Len(a) + i] = b[i]
  BY <1>1
<1>5. Elems(a \o b) \subseteq E
  <2>1. \A i \in 1..Len(a \o b) : (a \o b)[i] \in E
    <3> DEFINE c == a \o b
    <3>1. c \in Seq(E)
      BY <1>2
    <3> HIDE DEF c, E
    <3>2. \A i \in 1..Len(c) : c[i] \in E
      BY <3>1
    <3> QED
      BY <3>2 DEF c
  <2> QED
    BY <2>1, <1>2 DEF Elems
<1>6. Elems(a) \subseteq Elems(a \o b)
  BY <1>2, <1>3 DEF Elems
<1>7. Elems(b) \subseteq Elems(a \o b)
  <2>1. ASSUME NEW i \in 1..Len(b) PROVE b[i] \in Elems(a \o b)
    <3>1. Len(a) + i \in DOMAIN (a \o b)
      BY <1>2
    <3>2. (a \o b)[Len(a) + i] = b[i]
      BY <1>4
    <3> QED
      BY <3>1, <3>2 DEF Elems
  <2> QED
    BY <2>1, <1>2 DEF Elems
<1>8. Elems(a \o b) = E
  BY <1>5, <1>6, <1>7
<1> QED
  BY <1>2, <1>8 DEF IsSlice

\* A slice is empty exactly when it has no elements.
LEMMA EmptyHolds ==
  ASSUME NEW seq, IsSlice(seq) PROVE seq = <<>> <=> Elems(seq) = {}
<1>1. Len(seq) \in Nat /\ DOMAIN seq = 1..Len(seq) /\ (Len(seq) = 0 => seq = <<>>)
  BY DEF IsSlice
<1>2. CASE Len(seq) = 0
  BY <1>1, <1>2 DEF Elems
<1>3. CASE Len(seq) # 0
  <2>1. 1 \in DOMAIN seq
    BY <1>1, <1>3
  <2>2. seq[1] \in Elems(seq)
    BY <2>1 DEF Elems
  <2>3. Elems(<<>>) = {}
    BY DEF Elems
  <2> QED
    BY <2>2, <2>3
<1> QED
  BY <1>2, <1>3

\* What is kept of the first elements does not depend on the ones that follow.
LEMMA PrefixHolds ==
  ASSUME NEW short, NEW long, IsSlice(short), IsSlice(long), Len(short) <= Len(long),
         \A i \in 1..Len(short) : long[i] = short[i], NEW set
  PROVE  Kept(long, set)[Len(short)] = Select(short, set)
<1> DEFINE k == Kept(long, set)
           l == Kept(short, set)
           T == {n \in 0..Len(short) : k[n] = l[n]}
<1>1. /\ Len(long) \in Nat /\ k[0] = <<>>
      /\ \A n \in 0..Len(long) : n < Len(long) =>
           k[n + 1] = IF long[n + 1] \in set THEN Append(k[n], long[n + 1]) ELSE k[n]
  BY KeptIs
<1>2. /\ Len(short) \in Nat /\ l[0] = <<>>
      /\ \A n \in 0..Len(short) : n < Len(short) =>
           l[n + 1] = IF short[n + 1] \in set THEN Append(l[n], short[n + 1]) ELSE l[n]
  BY KeptIs
<1>3. Select(short, set) = l[Len(short)]
  BY DEF Select
<1> HIDE DEF k, l
<1>4. 0 \in T
  BY <1>1, <1>2
<1>5. ASSUME NEW n \in 0..Len(short), n < Len(short), n \in T PROVE n + 1 \in T
  <2>1. n \in 0..Len(long) /\ n < Len(long) /\ long[n + 1] = short[n + 1]
        /\ n + 1 \in 0..Len(short)
    BY <1>1, <1>2, <1>5
  <2>2. k[n] = l[n]
    BY <1>5
  <2>3. k[n + 1] = l[n + 1]
    BY <1>1, <1>2, <1>5, <2>1, <2>2
  <2> QED
    BY <2>1, <2>3
<1>6. 0..Len(short) \subseteq T
  <2> HIDE DEF T
  <2> QED
    BY <1>2, <1>4, <1>5, Steps
<1> QED
  BY <1>2, <1>3, <1>6 DEF k

LEMMA SelectAppend ==
  ASSUME NEW seq, IsSlice(seq), NEW e, NEW set
  PROVE  /\ e \in set => Select(Append(seq, e), set) = Append(Select(seq, set), e)
         /\ e \notin set => Select(Append(seq, e), set) = Select(seq, set)
<1> DEFINE E == Elems(seq) \cup {e}
           long == Append(seq, e)
<1>1. seq \in Seq(E) /\ e \in E
  BY DEF IsSlice, Elems
<1>2. Elems(long) = E /\ long \in Seq(E)
  BY <1>1, Grows
<1>3. IsSlice(long)
  BY <1>2 DEF IsSlice
<1>4. Len(seq) \in Nat /\ Len(long) = Len(seq) + 1 /\ long[Len(seq) + 1] = e
      /\ \A i \in 1..Len(seq) : long[i] = seq[i]
  BY <1>1
<1> HIDE DEF long, E
<1>5. Kept(long, set)[Len(seq)] = Select(seq, set)
  BY <1>3, <1>4, PrefixHolds
<1>6. Select(long, set) = Kept(long, set)[Len(seq) + 1]
  BY <1>4 DEF Select
<1>7. Kept(long, set)[Len(seq) + 1] = IF e \in set THEN Append(Kept(long, set)[Len(seq)], e)
                                      ELSE Kept(long, set)[Len(seq)]
  BY <1>3, <1>4, KeptIs
<1>8. /\ e \in set => Select(long, set) = Append(Select(seq, set), e)
      /\ e \notin set => Select(long, set) = Select(seq, set)
  BY <1>5, <1>6, <1>7
<1> QED
  BY <1>8 DEF long

\* Filtering twice, first by a set with everything the second keeps, is filtering once.
LEMMA SelectTwice ==
  ASSUME NEW seq, IsSlice(seq), NEW wide, NEW set, Elems(seq) \cap set \subseteq wide
  PROVE  Select(Select(seq, wide), set) = Select(seq, set)
<1> DEFINE w == Kept(seq, wide)
           s == Kept(seq, set)
           T == {n \in 0..Len(seq) : Select(w[n], set) = s[n]}
<1>1. /\ Len(seq) \in Nat /\ w[0] = <<>>
      /\ \A n \in 0..Len(seq) : n < Len(seq) =>
           w[n + 1] = IF seq[n + 1] \in wide THEN Append(w[n], seq[n + 1]) ELSE w[n]
  BY KeptIs
<1>2. /\ s[0] = <<>>
      /\ \A n \in 0..Len(seq) : n < Len(seq) =>
           s[n + 1] = IF seq[n + 1] \in set THEN Append(s[n], seq[n + 1]) ELSE s[n]
  BY KeptIs
<1>3. \A n \in 0..Len(seq) : IsSlice(w[n])
  <2> SUFFICES ASSUME NEW n \in 0..Len(seq) PROVE IsSlice(w[n])
    OBVIOUS
  <2>1. Kept(seq, wide)[n] \in Seq(Elems(seq))
    BY KeptHolds
  <2> HIDE DEF w
  <2>2. \A x : x \in Seq(Elems(seq)) => IsSlice(x)
    BY DEF IsSlice, Elems
  <2> QED
    BY <2>1, <2>2, Zenon DEF w
<1>4. Select(Select(seq, wide), set) = Select(w[Len(seq)], set) /\ Select(seq, set) = s[Len(seq)]
  BY DEF Select
<1> HIDE DEF w, s
<1>5. 0 \in T
  <2>1. IsSlice(<<>>) /\ Len(<<>>) = 0
    BY DEF IsSlice
  <2>2. Select(<<>>, set) = <<>>
    BY <2>1, KeptIs, Zenon DEF Select
  <2> QED
    BY <1>1, <1>2, <2>2
<1>6. ASSUME NEW n \in 0..Len(seq), n < Len(seq), n \in T PROVE n + 1 \in T
  <2> DEFINE e == seq[n + 1]
  <2>1. n + 1 \in 0..Len(seq) /\ n + 1 \in DOMAIN seq /\ e \in Elems(seq)
    BY <1>1, <1>6 DEF IsSlice, Elems
  <2>2. Select(w[n], set) = s[n] /\ IsSlice(w[n])
    BY <1>3, <1>6
  <2>3. /\ e \in set => Select(Append(w[n], e), set) = Append(s[n], e)
        /\ e \notin set => Select(Append(w[n], e), set) = s[n]
    <3>1. /\ e \in set => Select(Append(w[n], e), set) = Append(Select(w[n], set), e)
          /\ e \notin set => Select(Append(w[n], e), set) = Select(w[n], set)
      BY <2>2, SelectAppend
    <3> QED
      BY <2>2, <3>1
  <2>4. w[n + 1] = IF e \in wide THEN Append(w[n], e) ELSE w[n]
    BY <1>1, <1>6
  <2>5. s[n + 1] = IF e \in set THEN Append(s[n], e) ELSE s[n]
    BY <1>2, <1>6
  <2>6. e \in set => e \in wide
    BY <2>1
  <2> HIDE DEF e
  <2>7. Select(w[n + 1], set) = s[n + 1]
    BY <2>2, <2>3, <2>4, <2>5, <2>6
  <2> QED
    BY <2>1, <2>7
<1>7. 0..Len(seq) \subseteq T
  <2> HIDE DEF T
  <2> QED
    BY <1>1, <1>5, <1>6, Steps
<1> QED
  BY <1>1, <1>4, <1>7

LEMMA SelectNone ==
  ASSUME NEW seq, IsSlice(seq), NEW set, Elems(seq) \cap set = {}
  PROVE  Select(seq, set) = <<>>
BY SelectHolds, EmptyHolds

LEMMA Sums ==
  /\ 0 + 0 = 0
  /\ \A p, q, n \in Nat : p + q = n => (p + 1) + q = n + 1 /\ p + (q + 1) = n + 1
OBVIOUS

\* Every element of a slice is in the part that is kept or in the rest.
LEMMA SelectCounts ==
  ASSUME NEW seq, IsSlice(seq), NEW set
  PROVE  Len(Select(seq, set)) + Len(Select(seq, Elems(seq) \ set)) = Len(seq)
<1> DEFINE rest == Elems(seq) \ set
           a == Kept(seq, set)
           b == Kept(seq, rest)
           T == {n \in 0..Len(seq) : Len(a[n]) + Len(b[n]) = n}
<1>1. /\ Len(seq) \in Nat /\ a[0] = <<>>
      /\ \A n \in 0..Len(seq) : n < Len(seq) =>
           a[n + 1] = IF seq[n + 1] \in set THEN Append(a[n], seq[n + 1]) ELSE a[n]
  BY KeptIs
<1>2. /\ b[0] = <<>>
      /\ \A n \in 0..Len(seq) : n < Len(seq) =>
           b[n + 1] = IF seq[n + 1] \in rest THEN Append(b[n], seq[n + 1]) ELSE b[n]
  BY KeptIs
<1>3. \A n \in 0..Len(seq) : a[n] \in Seq(Elems(seq)) /\ b[n] \in Seq(Elems(seq))
  BY KeptHolds
<1>4. Select(seq, set) = a[Len(seq)] /\ Select(seq, rest) = b[Len(seq)]
  BY DEF Select
<1>5. Len(<<>>) = 0
  OBVIOUS
<1> HIDE DEF a, b
<1>6. 0 \in T
  <2>1. Len(a[0]) = 0 /\ Len(b[0]) = 0
    BY <1>1, <1>2, <1>5, Zenon
  <2>2. Len(a[0]) + Len(b[0]) = 0
    BY <2>1, Sums, Zenon
  <2>3. 0 \in 0..Len(seq)
    BY <1>1
  <2> QED
    BY <2>2, <2>3, Zenon
<1>7. ASSUME NEW n \in 0..Len(seq), n < Len(seq), n \in T PROVE n + 1 \in T
  <2> DEFINE e == seq[n + 1]
  <2>1. n + 1 \in 0..Len(seq) /\ n + 1 \in DOMAIN seq /\ e \in Elems(seq)
    BY <1>1, <1>7 DEF IsSlice, Elems
  <2>2. a[n + 1] = IF e \in set THEN Append(a[n], e) ELSE a[n]
    BY <1>1, <1>7
  <2>3. b[n + 1] = IF e \in rest THEN Append(b[n], e) ELSE b[n]
    BY <1>2, <1>7
  <2>4. e \in set <=> e \notin rest
    BY <2>1
  <2>5. a[n] \in Seq(Elems(seq)) /\ b[n] \in Seq(Elems(seq)) /\ Len(a[n]) + Len(b[n]) = n
    BY <1>3, <1>7
  <2> HIDE DEF e, rest
  <2>6. /\ Len(Append(a[n], e)) = Len(a[n]) + 1 /\ Len(Append(b[n], e)) = Len(b[n]) + 1
        /\ Len(a[n]) \in Nat /\ Len(b[n]) \in Nat
    BY <2>1, <2>5
  <2>7. n \in Nat
    BY <1>1
  <2>8. Len(a[n + 1]) + Len(b[n + 1]) = n + 1
    <3>0. /\ (Len(a[n]) + 1) + Len(b[n]) = n + 1
          /\ Len(a[n]) + (Len(b[n]) + 1) = n + 1
      <4>1. Len(a[n]) \in Nat /\ Len(b[n]) \in Nat
        BY <2>6
      <4> QED
        BY <4>1, <2>5, <2>7, Sums, Zenon
    <3>1. CASE e \in set
      <4>1. Len(a[n + 1]) = Len(a[n]) + 1 /\ Len(b[n + 1]) = Len(b[n])
        BY <3>1, <2>2, <2>3, <2>4, <2>6, Zenon
      <4> QED
        BY <4>1, <3>0, Zenon
    <3>2. CASE e \notin set
      <4>1. Len(a[n + 1]) = Len(a[n]) /\ Len(b[n + 1]) = Len(b[n]) + 1
        BY <3>2, <2>2, <2>3, <2>4, <2>6, Zenon
      <4> QED
        BY <4>1, <3>0, Zenon
    <3> QED
      BY <3>1, <3>2
  <2> QED
    BY <2>1, <2>8
<1>8. 0..Len(seq) \subseteq T
  <2> HIDE DEF T
  <2> QED
    BY <1>1, <1>6, <1>7, Steps
<1>9. Len(a[Len(seq)]) + Len(b[Len(seq)]) = Len(seq)
  <2>1. Len(seq) \in 0..Len(seq)
    BY <1>1
  <2> QED
    BY <1>8, <2>1, Zenon
<1> QED
  BY <1>4, <1>9, Zenon

LEMMA SelectJoin ==
  ASSUME NEW a, NEW b, IsSlice(a), IsSlice(b), NEW set
  PROVE  Select(a \o b, set) = Select(a, set) \o Select(b, set)
<1> DEFINE c == a \o b
           k == Kept(c, set)
           l == Kept(b, set)
           s == Select(a, set)
           E == Elems(a) \cup Elems(b)
           T == {n \in 0..Len(b) : k[Len(a) + n] = s \o l[n]}
<1>1. a \in Seq(E) /\ b \in Seq(E) /\ Len(a) \in Nat
  BY DEF IsSlice, Elems
<1>2. IsSlice(c) /\ Len(c) = Len(a) + Len(b)
  BY <1>1, JoinHolds
<1>3. \A i \in 1..Len(a) : c[i] = a[i]
  BY <1>1
<1>4. \A i \in 1..Len(b) : c[Len(a) + i] = b[i]
  BY <1>1
<1> HIDE DEF c
<1>5. \A n \in 0..Len(c) : n < Len(c) =>
           k[n + 1] = IF c[n + 1] \in set THEN Append(k[n], c[n + 1]) ELSE k[n]
  BY <1>2, KeptIs
<1>6. /\ Len(b) \in Nat /\ l[0] = <<>>
      /\ \A n \in 0..Len(b) : n < Len(b) =>
           l[n + 1] = IF b[n + 1] \in set THEN Append(l[n], b[n + 1]) ELSE l[n]
  BY KeptIs
<1>7. k[Len(a)] = s
  <2>1. Len(a) <= Len(c)
    BY <1>1, <1>2, <1>6
  <2> HIDE DEF s
  <2> QED
    BY <1>2, <1>3, <2>1, PrefixHolds DEF s
<1>8. s \in Seq(E)
  <2>1. s \in Seq(Elems(a))
    BY SelectHolds
  <2> HIDE DEF s
  <2> QED
    BY <2>1
<1>9. \A n \in 0..Len(b) : l[n] \in Seq(E)
  <2> SUFFICES ASSUME NEW n \in 0..Len(b) PROVE l[n] \in Seq(E)
    OBVIOUS
  <2>1. Kept(b, set)[n] \in Seq(Elems(b))
    BY KeptHolds
  <2>2. \A x : x \in Seq(Elems(b)) => x \in Seq(E)
    OBVIOUS
  <2> HIDE DEF l, E
  <2> QED
    BY <2>1, <2>2, Zenon DEF l
<1>10. Select(c, set) = k[Len(a) + Len(b)] /\ Select(b, set) = l[Len(b)]
  BY <1>2 DEF Select
<1> HIDE DEF k, l, s
<1>11. 0 \in T
  <2>1. s \o <<>> = s
    BY <1>8, ConcatEmptySeq
  <2>2. k[Len(a) + 0] = s \o l[0]
    BY <1>1, <1>6, <1>7, <2>1
  <2>3. 0 \in 0..Len(b)
    BY <1>6
  <2> QED
    BY <2>2, <2>3, Zenon
<1>12. ASSUME NEW n \in 0..Len(b), n < Len(b), n \in T PROVE n + 1 \in T
  <2> DEFINE e == b[n + 1]
             m == Len(a) + n
  <2>1. n + 1 \in 0..Len(b) /\ n + 1 \in 1..Len(b) /\ e \in E
    BY <1>1, <1>6, <1>12
  <2>2. m \in 0..Len(c) /\ m < Len(c) /\ m + 1 = Len(a) + (n + 1)
    BY <1>1, <1>2, <1>6, <1>12
  <2>3. c[m + 1] = e
    BY <1>4, <2>1, <2>2
  <2>4. k[m] = s \o l[n] /\ l[n] \in Seq(E)
    BY <1>9, <1>12
  <2> HIDE DEF m, e, E
  <2>5. k[m + 1] = IF e \in set THEN Append(k[m], e) ELSE k[m]
    BY <1>5, <2>2, <2>3
  <2>6. l[n + 1] = IF e \in set THEN Append(l[n], e) ELSE l[n]
    BY <1>6, <1>12 DEF e
  <2>7. Append(s \o l[n], e) = s \o Append(l[n], e)
    <3>1. s \o l[n] \in Seq(E) /\ <<e>> \in Seq(E)
      BY <1>8, <2>1, <2>4
    <3>2. Append(s \o l[n], e) = (s \o l[n]) \o <<e>>
      BY <2>1, <3>1, AppendIsConcat
    <3>3. Append(l[n], e) = l[n] \o <<e>>
      BY <2>1, <2>4, AppendIsConcat
    <3>4. (s \o l[n]) \o <<e>> = s \o (l[n] \o <<e>>)
      <4>1. s \in Seq(E) /\ l[n] \in Seq(E) /\ <<e>> \in Seq(E)
        BY <1>8, <2>4, <3>1
      <4> DEFINE x == l[n]
                 y == <<e>>
      <4>2. x \in Seq(E) /\ y \in Seq(E)
        BY <4>1
      <4> HIDE DEF x, y
      <4>3. (s \o x) \o y = s \o (x \o y)
        BY <4>1, <4>2, ConcatAssociative
      <4> QED
        BY <4>3 DEF x, y
    <3> QED
      BY <3>2, <3>3, <3>4, Zenon
  <2>8. k[m + 1] = s \o l[n + 1]
    BY <2>4, <2>5, <2>6, <2>7, Zenon
  <2>9. k[Len(a) + (n + 1)] = s \o l[n + 1]
    BY <2>2, <2>8, Zenon
  <2> QED
    BY <2>1, <2>9
<1>13. 0..Len(b) \subseteq T
  <2> HIDE DEF T
  <2> QED
    BY <1>6, <1>11, <1>12, Steps
<1>14. k[Len(a) + Len(b)] = s \o l[Len(b)]
  <2>1. Len(b) \in 0..Len(b)
    BY <1>6
  <2> QED
    BY <1>13, <2>1, Zenon
<1> QED
  BY <1>10, <1>14, Zenon DEF c, s

LEMMA Joined ==
  ASSUME NEW E, NEW a \in Seq(E), NEW b \in Seq(E)
  PROVE  /\ Len(a) \in Nat /\ Len(b) \in Nat /\ DOMAIN (a \o b) = 1..(Len(a) + Len(b))
         /\ \A n \in 1..Len(a) : (a \o b)[n] \in Elems(a)
         /\ \A n \in 1..(Len(a) + Len(b)) : n > Len(a) => (a \o b)[n] \in Elems(b)
<1>1. Len(a) \in Nat /\ Len(b) \in Nat /\ DOMAIN (a \o b) = 1..(Len(a) + Len(b))
  OBVIOUS
<1>2. \A n \in 1..Len(a) : (a \o b)[n] = a[n]
  OBVIOUS
<1>3. \A n \in 1..Len(a) : (a \o b)[n] \in Elems(a)
  <2>1. \A n \in 1..Len(a) : a[n] \in Elems(a)
    BY DEF Elems
  <2> QED
    BY <1>2, <2>1, Zenon
<1>4. ASSUME NEW n \in 1..(Len(a) + Len(b)), n > Len(a) PROVE (a \o b)[n] \in Elems(b)
  <2>1. n - Len(a) \in 1..Len(b)
    BY <1>1, <1>4
  <2>2. (a \o b)[n] = b[n - Len(a)]
    BY <1>1, <1>4
  <2> QED
    BY <2>1, <2>2 DEF Elems
<1> QED
  BY <1>1, <1>3, <1>4, Zenon

\* The part of a slice from a to b, where one more element does not reach it, and
\* where it does.
LEMMA PartHolds ==
  ASSUME NEW seq, IsSlice(seq), NEW a \in Nat \ {0}, NEW b \in Nat, b <= Len(seq)
  PROVE  /\ IsSlice(SubSeq(seq, a, b))
         /\ \A e : SubSeq(Append(seq, e), a, b) = SubSeq(seq, a, b)
<1> SUFFICES ASSUME NEW e
             PROVE  IsSlice(SubSeq(seq, a, b)) /\ SubSeq(Append(seq, e), a, b) = SubSeq(seq, a, b)
  OBVIOUS
<1> DEFINE E == Elems(seq) \cup {e}
           long == Append(seq, e)
           n == IF a <= b THEN b - a + 1 ELSE 0
<1>1. seq \in Seq(E) /\ e \in E /\ seq \in Seq(Elems(seq))
  BY DEF IsSlice, Elems
<1>2. /\ long \in Seq(E) /\ Len(seq) \in Nat /\ Len(long) = Len(seq) + 1
      /\ \A i \in 1..Len(seq) : long[i] = seq[i] /\ seq[i] \in Elems(seq)
  BY <1>1
<1> HIDE DEF E, long
<1>3. \A i \in a..b : i \in 1..Len(seq)
  BY <1>2
<1> DEFINE x == SubSeq(long, a, b)
           y == SubSeq(seq, a, b)
<1>4. y \in Seq(Elems(seq)) /\ Len(y) = n /\ \A i \in 1..(b - a + 1) : y[i] = seq[a + i - 1]
  <2>1. \A i \in a..b : seq[i] \in Elems(seq)
    BY <1>2, <1>3
  <2> QED
    BY <2>1, SubSeqProperties
<1>5. x \in Seq(Elems(seq)) /\ Len(x) = n /\ \A i \in 1..(b - a + 1) : x[i] = long[a + i - 1]
  <2>1. \A i \in a..b : long[i] \in Elems(seq)
    BY <1>2, <1>3
  <2> QED
    BY <2>1, SubSeqProperties
<1> HIDE DEF x, y
<1>6. ASSUME NEW i \in 1..n PROVE x[i] = y[i]
  <2>1. a <= b
    OBVIOUS
  <2>2. a + i - 1 \in a..b /\ i \in 1..(b - a + 1)
    BY <2>1
  <2>3. long[a + i - 1] = seq[a + i - 1]
    BY <1>2, <1>3, <2>2
  <2> QED
    BY <1>4, <1>5, <2>2, <2>3
<1>7. x = y
  <2>1. \A i \in 1..Len(x) : x[i] = y[i]
    BY <1>5, <1>6
  <2> QED
    BY <1>4, <1>5, <2>1, SeqEqual
<1>8. IsSlice(y)
  BY <1>4 DEF IsSlice, Elems
<1> QED
  BY <1>7, <1>8 DEF x, y, long

LEMMA PartGrows ==
  ASSUME NEW seq, IsSlice(seq), NEW e, NEW a \in Nat \ {0}, a <= Len(seq) + 1
  PROVE  SubSeq(Append(seq, e), a, Len(seq) + 1) = Append(SubSeq(seq, a, Len(seq)), e)
<1> DEFINE E == Elems(seq) \cup {e}
           long == Append(seq, e)
           b == Len(seq) + 1
<1>1. seq \in Seq(E) /\ e \in E
  BY DEF IsSlice, Elems
<1>2. /\ long \in Seq(E) /\ Len(seq) \in Nat /\ Len(long) = b /\ long[b] = e
      /\ \A i \in 1..Len(seq) : long[i] = seq[i]
  BY <1>1
<1> HIDE DEF long, E
<1>3. b - 1 = Len(seq) /\ a \in 1..Len(long) /\ b \in a..Len(long)
  BY <1>2
<1> HIDE DEF b
<1>4. SubSeq(long, a, b) = SubSeq(long, a, Len(seq)) \o <<e>>
  <2>1. SubSeq(long, a, b) = SubSeq(long, a, b - 1) \o <<long[b]>>
    BY <1>2, <1>3, SubSeqRecursiveSecond
  <2> QED
    BY <1>2, <1>3, <2>1
<1>5. SubSeq(long, a, Len(seq)) = SubSeq(seq, a, Len(seq)) /\ IsSlice(SubSeq(seq, a, Len(seq)))
  BY <1>2, PartHolds DEF long
<1> DEFINE y == SubSeq(seq, a, Len(seq))
<1> HIDE DEF y
<1>6. y \o <<e>> = Append(y, e)
  <2>1. y \in Seq(Elems(y) \cup {e})
    BY <1>5 DEF y, IsSlice
  <2> QED
    BY <2>1
<1>7. SubSeq(long, a, b) = Append(y, e)
  BY <1>4, <1>5, <1>6 DEF y
<1> QED
  BY <1>7 DEF long, y, b
=============================================================================
