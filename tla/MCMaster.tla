------------------------------ MODULE MCMaster ------------------------------
(* Instances of the Master.                                                  *)
EXTENDS MasterProperties, TLC

OneTrain == [a \in Applies |-> "t"]
OneData  == [a \in Applies |-> "d"]

(* Calls of a kind are alike.                                                *)
Symmetric == Permutations(Applies) \cup Permutations(Reports)
=============================================================================
