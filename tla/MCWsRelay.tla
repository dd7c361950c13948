----------------------------- MODULE MCWsRelay -----------------------------
(* TLC instance of WsRelay: payloads are interchangeable model values.     *)
EXTENDS WsRelay, TLC

MCDataSymmetry == Permutations(Data)
=============================================================================
