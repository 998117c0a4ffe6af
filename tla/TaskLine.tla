------------------------------ MODULE TaskLine ------------------------------
(***************************************************************************)
(* What the Training Node promises about the order of its work, without    *)
(* threads, queues or events: accepted tasks stand in one line; one at a   *)
(* time the task at its head trains; a task may drop out of the line; a    *)
(* task that has trained or dropped out is gone for good.                  *)
(***************************************************************************)
EXTENDS Naturals, Sequences

CONSTANTS Tasks, NoTask

VARIABLES line,       \* the accepted tasks that have not begun to train, in order
          training,   \* the task in training, or NoTask
          gone        \* the tasks that are over

vars == <<line, training, gone>>

InLine == {line[i] : i \in DOMAIN line}

Init == line = <<>> /\ training = NoTask /\ gone = {}

Accept(t) ==
    /\ t \notin InLine \cup {training} \cup gone
    /\ line' = Append(line, t)
    /\ UNCHANGED <<training, gone>>

DropOut(i) ==
    /\ line' = SubSeq(line, 1, i - 1) \o SubSeq(line, i + 1, Len(line))
    /\ gone' = gone \cup {line[i]}
    /\ UNCHANGED training

Begin ==
    /\ training = NoTask
    /\ line # <<>>
    /\ training' = Head(line)
    /\ line' = Tail(line)
    /\ UNCHANGED gone

End ==
    /\ training # NoTask
    /\ training' = NoTask
    /\ gone' = gone \cup {training}
    /\ UNCHANGED line

Next == \/ \E t \in Tasks : Accept(t)
        \/ \E i \in DOMAIN line : DropOut(i)
        \/ Begin \/ End

Spec == Init /\ [][Next]_vars
=============================================================================
