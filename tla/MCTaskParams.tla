----------------------------- MODULE MCTaskParams -----------------------------
(***************************************************************************)
(* TaskParams with values for TLC: two pairs that are accepted, one of     *)
(* them only because 322 is cut to 'B', and three that are not.            *)
(***************************************************************************)
EXTENDS TaskParams_proofs

MCSetArgs == {<<65, 1>>, <<322, 2>>, <<64, 1>>, <<91, 1>>, <<65, 0>>}
================================================================================
