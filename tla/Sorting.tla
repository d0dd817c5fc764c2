------------------------------- MODULE Sorting -------------------------------
(***************************************************************************)
(* What the program sorts and groups with: a stable sort, and the distinct *)
(* values of a sequence in the order they come.                            *)
(***************************************************************************)
EXTENDS Naturals, Sequences, SequencesExt, FiniteSets

(* sort_by: seq in an order in which Less never points backwards; elements *)
(* that neither precede each other keep their order.                       *)
SortedBy(seq, Less(_, _)) ==
    LET Rank(i) == 1 + Cardinality({j \in 1..Len(seq) :
                         Less(seq[j], seq[i]) \/ (j < i /\ ~Less(seq[i], seq[j]))})
        at == [i \in 1..Len(seq) |-> Rank(i)]
    IN  [r \in 1..Len(seq) |-> seq[CHOOSE i \in 1..Len(seq) : at[i] = r]]

Distinct(seq) ==
    FoldLeft(LAMBDA seen, x : IF Contains(seen, x) THEN seen ELSE Append(seen, x), <<>>, seq)
CountOf(seq, x) == Cardinality({i \in 1..Len(seq) : seq[i] = x})
=============================================================================
