------------------------------- MODULE Slices -------------------------------
(***************************************************************************)
(* Go slices as sequences: their elements, the first one that a loop with  *)
(* a break finds, and what a loop with append keeps of them.               *)
(***************************************************************************)
EXTENDS Naturals, Sequences

Elems(seq) == {seq[i] : i \in DOMAIN seq}
IsSlice(seq) == seq \in Seq(Elems(seq))

\* The first element with P, {} when there is none.
First(seq, P(_)) == {seq[i] : i \in {i \in DOMAIN seq : P(seq[i]) /\ \A j \in 1..(i - 1) : ~P(seq[j])}}

\* The elements of seq that are in set, in their order; kept[i] is what is left of
\* the first i.
Kept(seq, set) ==
  LET kept[i \in 0..Len(seq)] ==
        IF i = 0 THEN <<>>
        ELSE IF seq[i] \in set THEN Append(kept[i - 1], seq[i]) ELSE kept[i - 1]
  IN kept
Select(seq, set) == Kept(seq, set)[Len(seq)]
=============================================================================
