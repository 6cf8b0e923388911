-------------------------- MODULE MCPaymentJournal --------------------------
(* PaymentJournal with one payment, for TLC. *)
EXTENDS PaymentJournal
=============================================================================
