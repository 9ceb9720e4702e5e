------------------------------ MODULE MCWsHost ------------------------------
(* WsHost for TLC: callers of the same side are interchangeable.           *)
EXTENDS WsHost, TLC
CallerSymmetry == Permutations(CliCallers) \cup Permutations(SrvCallers)
=============================================================================
