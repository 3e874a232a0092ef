--------------------------- MODULE MCPaymentRetries ---------------------------
(***************************************************************************)
(* Lifetimes in units of two and a half minutes; two attempts at each level, so that *)
(* one may be late while the other is made.                                *)
(***************************************************************************)
EXTENDS PaymentRetries
===============================================================================
