----------------------------- MODULE MCRegistration -----------------------------
(****************************************************************************)
(* Values of the constants of EventRegistration for TLC.                    *)
(****************************************************************************)
EXTENDS EventRegistration

ClientSymmetry == Permutations(Client)

=============================================================================
