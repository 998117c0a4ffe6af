----------------------------- MODULE MCDataNode -----------------------------
(* Instances of the Data Node: calls p and q of SendToDatabase.             *)
EXTENDS DataNodeProperties, TLC

(* Two calls that name one id, one after the other or together.             *)
OneId == [r \in Regs |-> "x"]

(* Two calls, each with an id of its own.                                   *)
TwoIds == [r \in Regs |-> IF r = "p" THEN "x" ELSE "y"]

(* The rows of a selection, by their sample counts.                         *)
OneRow    == [r \in Regs |-> <<1>>]
TwoRows   == [r \in Regs |-> <<1, 1>>]
Ones      == [r \in Regs |-> 1]
Twos      == [r \in Regs |-> 2]
Threes    == [r \in Regs |-> 3]

(* The calls of one kind are alike.                                         *)
Alike == Permutations(Regs) \cup Permutations(CancelCalls)

CancelX == [c \in CancelCalls |-> "x"]
=============================================================================
