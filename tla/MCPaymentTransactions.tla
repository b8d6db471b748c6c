------------------------ MODULE MCPaymentTransactions ------------------------
(* Two requests of any kind: the second may be the first one sent again. *)
EXTENDS PaymentTransactions
=============================================================================
