---------------------------- MODULE MCAccountGate ----------------------------
(* Model-checking instance of AccountGate: calls of two accounts.           *)
EXTENDS AccountGate

CONSTANTS o1, o2, o3, o4, o5, a1, a2

MCOps == {o1, o2, o3, o4, o5}
MCAccounts == {a1, a2}
MCAccountOf == [o \in MCOps |-> IF o \in {o1, o2, o3} THEN a1 ELSE a2]
==============================================================================
