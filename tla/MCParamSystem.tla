---------------------------- MODULE MCParamSystem -----------------------------
(* An instance of ParamSystem for TLC *)
EXTENDS ParamSystem

CONSTANTS t1, t2, factory, zero

OneTask == {t1}
OneUser == {t2}
TwoValues == {factory, zero}
=============================================================================
