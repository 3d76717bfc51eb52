---------------------------- MODULE MCSmtpClient ----------------------------
(***************************************************************************)
(* A small instance of SmtpClient: a message in two chunks, one with an    *)
(* ordinary body and two recipients, and one without a valid address.      *)
(***************************************************************************)
EXTENDS SmtpClient

CONSTANTS m1, m2, m3

MCChunksOf     == (m1 :> 2) @@ (m2 :> 0) @@ (m3 :> 0)
MCRecipientsOf == (m1 :> 1) @@ (m2 :> 2) @@ (m3 :> 1)
=============================================================================
