------------------------------- MODULE MCAccounts -------------------------------
(***************************************************************************)
(* Instances of Accounts for TLC.                                          *)
(***************************************************************************)
EXTENDS Accounts, TLC

\* Requests are interchangeable, and so are the random values.
MCSymmetry == Permutations(Handler) \cup Permutations(Token)
===============================================================================
