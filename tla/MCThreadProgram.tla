-------------------------- MODULE MCThreadProgram ---------------------------
EXTENDS ThreadProgram

(* The bank operations of sample_execution.sh, none, a withdrawal that is  *)
(* covered only after the deposit, and a deposit that overflows an int.    *)
MCBankArgs == {0, 200, 1800, -600, -900}
=============================================================================
