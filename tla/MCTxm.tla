------------------------------- MODULE MCTxm -------------------------------
(***************************************************************************)
(* Model-checking instances of Txm.                                        *)
(***************************************************************************)
EXTENDS Txm

DistinctPayload == [j \in Id |-> j]
MCSignature == Id \X (0..MaxFee)
=============================================================================
