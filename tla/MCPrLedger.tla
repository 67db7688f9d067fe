-------------------------------- MODULE MCPrLedger --------------------------------
(* Instances of PrLedger for TLC: PRs and processes are model values.      *)
EXTENDS PrLedger, TLC

PrSymmetry == Permutations(PRs) \cup Permutations(Procs)
==================================================================================
