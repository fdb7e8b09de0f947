------------------------------- MODULE Lookup -------------------------------
(***************************************************************************)
(* The order in which a plugin looks into the places a credential may be   *)
(* in: of the places it knows, those that have one, in their order.        *)
(***************************************************************************)
EXTENDS Sequences, SequencesExt

(* The members of order that are in S, in its order.                       *)
Among(order, S) ==
  FoldLeft(LAMBDA found, x : IF x \in S THEN Append(found, x) ELSE found, <<>>, order)

First(s) == IF s = <<>> THEN s ELSE <<Head(s)>>
=============================================================================
