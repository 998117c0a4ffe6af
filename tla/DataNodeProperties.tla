------------------------- MODULE DataNodeProperties -------------------------
(***************************************************************************)
(* What should be true of the Data Node.                                   *)
(***************************************************************************)
EXTENDS DataNode

Optional(S) == S \cup {None}

RegisterPCs == {"new", "recorded", "entered", "listed", "accepted", "refused"}
CancelPCs   == {"new", "hangUp", "release", "pop", "find", "remove", "ok", "stuck", "refused"}
BeginPCs    == {"next", "page", "row", "drain", "get", "append", "count", "hire", "put", "pop",
                "find", "remove", "hangUp", "release", "stuck", "ended"}
WorkerPCs   == {"idle", "handle", "count", "send", "announce", "finish", "pop", "report",
                "stop", "unrecord", "gone"}

Index    == Nat \cup {-1}
Channels == DOMAIN chans

Cancels == [pc : CancelPCs, reg : Optional(Regs), at : Nat]
Begins  == [pc : BeginPCs, todo : Seq(Ids), reg : Optional(Regs), cursor : Nat, page : Seq(Rows),
            row : Optional(Rows), at : Index, seen : Seq(Channels), drain : Nat]
Workers == [pc : WorkerPCs, wid : Nat, chan : Channels, reg : Regs, row : Optional(Rows),
            errors : Nat, sends : BOOLEAN]

TablesOK ==
    /\ records \in [Ids -> Optional([of : Regs, occurred : Nat])]
    /\ relate \in [Ids -> Optional(Regs)]
    /\ \A i \in Ids : relate[i] # None => IdOf[relate[i]] = i
    /\ cancelled \subseteq Regs

(* Top never gets ahead of Number. *)
ListOK ==
    /\ list \in Seq(Ids) /\ fetched \in Int /\ fetched < Len(list)
    /\ listLocked \in BOOLEAN

ControllerOK ==
    /\ chans \in Seq(Seq(Rows))
    /\ taskList \in Seq(Channels) /\ top \in Index
    /\ singles \in Seq(Nat)

OthersOK ==
    /\ offline \subseteq Regs /\ dbClosed \subseteq Regs
    /\ {semClosed, up} \subseteq BOOLEAN
    /\ run \in {"wait", "fetch"}
    /\ register \in [Regs -> RegisterPCs]
    /\ cancel \in [CancelCalls -> Cancels]

HistoryOK ==
    /\ counted \in [Regs -> Nat] /\ verdicts \in [Regs -> Nat]
    /\ handled \in [Rows -> Nat]
    /\ finished \subseteq Regs

(* Every variable keeps to the values the code can give it. *)
TypeOK ==
    /\ TablesOK /\ ListOK /\ ControllerOK /\ OthersOK /\ HistoryOK
    /\ begun \in Seq(Begins) /\ worker \in Seq(Workers)

-----------------------------------------------------------------------------
(* An id can be freed: an error record, which makes SendToDatabase refuse its *)
(* id (errortable.go 35), is there only while the task's entry is, through    *)
(* which both can be removed, or while a call is between the two inserts      *)
(* (receiver.go 106-122).  Calls for one id may overlap.  The entry of a      *)
(* task that is stopped may stay, and refuse its id, until it is cancelled.   *)
NoOrphanRecord == \A i \in Ids :
    records[i] # None =>
        \/ relate[i] # None
        \/ \E r \in Regs : IdOf[r] = i /\ register[r] = "recorded"

(* The workers of a task count its errors together (worker.go 100-115): its   *)
(* record is found at the threshold once at most, and exactly when the errors *)
(* counted in it have come to 40 per cent; no error is lost in the count.     *)
ThresholdExact == \A r \in Regs :
    /\ verdicts[r] <= 1
    /\ verdicts[r] = 1 => counted[r] >= Threshold(r)
    /\ counted[r] >= Threshold(r) /\ counted[r] > 0 => verdicts[r] = 1

(* Another call has named the id of r; and an id has been taken off the list. *)
IdUsedAgain(r) == \E q \in Regs \ {r} : IdOf[q] = IdOf[r] /\ register[q] # "new"
TakenOff == semClosed \/ \E d \in DOMAIN begun : begun[d].pc \in {"hangUp", "release", "stuck"}

(* No row is handled twice, though ids are fetched by a mark (idmanager.go),  *)
(* pages by a cursor, and the rows of an idle worker are dispatched again:    *)
(* unless the task's id is used again, or a task that was stopped has been    *)
(* taken off the list, which moves the mark (idmanager.go 79-93).             *)
HandledOnce == \A row \in Rows :
    handled[row] > 1 => IdUsedAgain(row.reg) \/ TakenOff

(* As long as a task is not stopped its errors are counted: its record exists *)
(* or its threshold verdict is on its way to Stop (worker.go 100-115), unless *)
(* its id is used again, by a call whose workers name the same record.        *)
RunningTaskCounted == \A i \in Ids :
    relate[i] # None /\ relate[i] \notin cancelled =>
        \/ IdUsedAgain(relate[i])
        \/ records[i] # None
        \/ \E w \in DOMAIN worker :
             worker[w].reg = relate[i] /\ worker[w].pc \in {"report", "stop"}

(* A task that has a worker comes to a conclusion, though its workers share   *)
(* channels, table and announcements with those of other tasks: the Training  *)
(* Node has acknowledged its Finish, or the task has been stopped or hung up  *)
(* (worker.go 58-115).  Excepted are an id in use again, a panic, and idle    *)
(* workers that nobody hears any more: the announcements stay full for ever.  *)
(* A task whose rows went to the workers of another has none of its own, and  *)
(* nothing is said of it (controller.go 112-117).                             *)
Unheard == Len(singles) = Announcements

HasWorker(r) == \E w \in DOMAIN worker : worker[w].reg = r

EveryWorkerConcludes ==
    \/ <>[]Unheard
    \/ \A r \in Regs : HasWorker(r) ~>
         r \in finished \cup cancelled \cup offline \/ IdUsedAgain(r) \/ ~up

-----------------------------------------------------------------------------
(* send/totrain.proto:10 says of Finish that it tells the Training Node that  *)
(* all data of a task has been sent.                                          *)
FinishAfterAllRows == \A r \in finished : \A row \in Rows :
    row.reg = r => handled[row] > 0

(* send/totrain.proto:30 says of the Id of a message that it names the task   *)
(* the data belongs to.  What did not fail of the row a worker handles is     *)
(* sent by the worker's sender, under the id of its task (worker.go 67-74,    *)
(* sender.go 87); that has to be the task of the row.                         *)
DataNamesItsTask == [][\A w \in DOMAIN worker :
    worker[w].pc = "handle" /\ worker'[w].sends =>
        IdOf[worker[w].reg] = IdOf[worker[w].row.reg]]_vars
=============================================================================
