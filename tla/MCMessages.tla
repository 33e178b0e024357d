------------------------------ MODULE MCMessages ------------------------------
(****************************************************************************)
(* The stations of a message for TLC: one run explores each of them alone,  *)
(* on all of its inputs; the others stay as they are.                       *)
(****************************************************************************)
EXTENDS Messages, TLC

ClientSymmetry == Permutations(Client)

Xs(n) == [k \in 1..n |-> "x"]

\* All texts of up to three bytes, and plain texts around the size of a block.
AllTexts == UNION {[1..n -> Byte] : n \in 0..3} \union {Xs(n) : n \in 3..6}

=============================================================================
