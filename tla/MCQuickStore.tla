---------------------------- MODULE MCQuickStore ----------------------------
(* QuickStore with one key more than its small ring can hold.  *)
EXTENDS QuickStore

CONSTANTS k1, k2, k3, k4, v1, v2

MCKey == {k1, k2, k3, k4}
MCValue == {v1, v2}
=============================================================================
