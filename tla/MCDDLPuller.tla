---------------------------- MODULE MCDDLPuller ----------------------------
EXTENDS DDLPuller

(* Two jobs finished at ts 2 and 3, so that a resolved ts can fall before, *)
(* between and after them.                                                 *)
TwoJobTs == [j \in 1..2 |-> j + 1]
====
