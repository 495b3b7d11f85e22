---------------------------- MODULE MCBankStore ----------------------------
(* The instance of BankStore that TLC checks: builders are alike, and numbers. *)
EXTENDS BankStore, TLC

MCAlike == Permutations(Builders) \cup Permutations(Numbers)
=============================================================================
