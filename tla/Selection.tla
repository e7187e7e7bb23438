----------------------------- MODULE Selection -----------------------------
(***************************************************************************)
(* The elements of a sequence that are in a set, in their order: SelectSeq *)
(* by means of a recursive function, which a proof can reason about.       *)
(***************************************************************************)
EXTENDS Naturals, Sequences, SequencesExt

Select(s, set) == FlattenSeq([i \in DOMAIN s |-> IF s[i] \in set THEN <<s[i]>> ELSE <<>>])
=============================================================================
