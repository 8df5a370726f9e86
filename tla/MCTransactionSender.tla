------------------------ MODULE MCTransactionSender ------------------------
(***************************************************************************)
(* Model-checking instance of TransactionSender.                           *)
(***************************************************************************)
EXTENDS TransactionSender

SomeResults == {Result("Successful", "nil"), Result("Retryable", "rpc"),
                Result("Fatal", "rpc")}
=============================================================================
