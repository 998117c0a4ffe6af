---------------------------- MODULE MCTaskManager ----------------------------
(* Instances of the task manager: tasks a and b, and calls named by a       *)
(* letter for their kind and the id they name.                              *)
EXTENDS TaskManagerProperties

(* Every SendToTrain brings an id of its own.                               *)
DistinctIds == [t \in Tasks |-> [a |-> "x", b |-> "y"][t]]

(* A retried SendToTrain: both tasks have one id.                           *)
OneId == [t \in Tasks |-> "x"]

CallIds == [call_ \in SendCalls \cup FinishCalls \cup ErrorCalls |->
    [sx1 |-> "x", sx2 |-> "x", sy1 |-> "y", sy2 |-> "y",
     fx |-> "x", fy |-> "y", ex |-> "x"][call_]]

(* Bounds of the runs.  TaskData: the interrupt and the batch sx2 come only  *)
(* while task b has not been submitted.  TaskLeaves: b repeats the id of a,  *)
(* so it comes after a; and a batch that has begun before b is submitted is  *)
(* over by then, and none begins later.                                      *)
RareAlone ==
    submit["b"] = "new" \/ (closing = "open" /\ call["sx2"].pc = "new")

RepeatedLater ==
    \/ submit["b"] = "new"
    \/ /\ submit["a"] # "new"
       /\ \A c \in SendCalls : call[c].pc \in {"new"} \cup Answered
=============================================================================
