-------------------------- MODULE MCOracleBlindness --------------------------
(* The contract of MCController under two oracles that expect different
   results; the visible gates accept one of the two. *)
EXTENDS OracleBlindness, MCContract

MCOtherAccepts ==
  [MCAccepts EXCEPT !["result_equals"] =
     {p \in MCProposals : p[A] = "1" /\ p[B] = "0" /\ p[C] = "1"}]
=============================================================================
