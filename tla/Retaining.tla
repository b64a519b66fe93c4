------------------------------ MODULE Retaining ------------------------------
(***************************************************************************)
(* Vec::retain and the filters of iterators: what of a sequence is in a set, *)
(* in order.  A fold rather than SelectSeq, of which nothing can be proved.  *)
(***************************************************************************)
EXTENDS Sequences, SequencesExt

Retain(s, S) ==
  FoldLeft(LAMBDA kept, e : IF e \in S THEN Append(kept, e) ELSE kept, <<>>, s)
=============================================================================
