-------------------------- MODULE MasterProperties --------------------------
(***************************************************************************)
(* What should be true of the Master.                                      *)
(***************************************************************************)
EXTENDS Master

Optional(S) == S \cup {None}

CheckPlaces == {"count", "flag", "load1", "load2", "stop", "set1", "set2", "setStop"}

ApplyPlaces == {"first", "rest", "store", "dial", "insert", "get", "send", "sending", "link",
                "linking", "addTrain", "addData"}

ReportPlaces == {"lookup", "record", "pop", "give", "leaveTrain", "leaveData"}

Places == {"new", "enter"} \cup CheckPlaces \cup ApplyPlaces \cup ReportPlaces \cup Ended

MainPlaces == {"serve", "cancel", "close", "save", "create", "write", "down", "crashed"}

ControlOK ==
    /\ main \in MainPlaces /\ now \in Nat
    /\ at \in [Handlers -> Places]
    /\ \A p \in Handlers : at[p] \in ApplyPlaces => p \in Applies
    /\ \A p \in Handlers : at[p] \in ReportPlaces => p \in Reports
    /\ {single1, single2, closed, stopping, overlapped} \subseteq BOOLEAN

LocalsOK ==
    /\ id \in [Handlers -> Optional(IdValues)]
    /\ element \in [Handlers -> Optional(Applies)]
    /\ rest \in [Applies -> Seq(Counters)]
    /\ number \in [Handlers -> Nat]

TablesOK ==
    /\ pool \in Seq(Counters)
    /\ Listed \subseteq IdValues /\ list \in [Listed -> Applies]
    /\ UNION {nodes, entries, file} \subseteq NodeValues
    /\ files \subseteq RecordValues(IdValues, Applies)
    /\ hungUp \subseteq Applies \X {"train", "data"}

(* A handler that works on an id has one, and one that works on an element   *)
(* got it from the table.                                                    *)
HasId(p) == at[p] \in (ApplyPlaces \ {"first"}) \cup ReportPlaces

HasElement(p) ==
    at[p] \in {"send", "sending", "link", "linking"} \cup (ReportPlaces \ {"lookup"})

TypeOK ==
    /\ ControlOK /\ LocalsOK /\ TablesOK
    /\ training \subseteq Applies /\ gone \subseteq Applies
    /\ about \in [Reports -> Optional(Applies)]
    /\ \A p \in Handlers : HasId(p) => id[p] # None
    /\ \A p \in Handlers : HasElement(p) => element[p] # None

-----------------------------------------------------------------------------
(* An apply that has put its element into the table finds it there, under    *)
(* its own id, until a report takes it out or main closes the table, even    *)
(* when GetId has given the same id to two applies (Idmanager.go 30), and    *)
(* whether or not the apply goes on to fail (server.go 168).                 *)
HasEntry(a) == at[a] \in {"get", "send", "sending", "link", "linking", "addTrain", "addData"}

ApplyKeepsItsEntry ==
    \A a \in Applies :
        HasEntry(a) /\ a \notin gone => id[a] \in Listed /\ list[id[a]] = a

(* A task that the Training Node has accepted is in the table until a report *)
(* of its own end has been handled, or its process is over: nothing else may *)
(* take it out, not even the failure of its apply, or its end would not be   *)
(* recorded (reciever.go 101).  One exception is the code's own: Pop goes by *)
(* the id (reciever.go 113), so a report of the end of another task of the   *)
(* same id may take this one out.                                            *)
Reported(a) ==
    \E r \in Reports : about[r] = a /\ at[r] \notin {"new", "lookup", "record", "pop", "dead"}

ProcessOver(a) ==
    id[a].second # now \/ main \in {"save", "create", "write", "down", "crashed"}

Mistaken(a) == \E b \in Applies \ {a} : id[b] = id[a] /\ Reported(b)

AcceptedStaysListed ==
    \A a \in training : a \in Elements \/ Reported(a) \/ ProcessOver(a) \/ Mistaken(a)

(* The table is one of tasks, not of ids: whatever ids applies are given     *)
(* (Idmanager.go 30), no task is entered over another, a report takes out    *)
(* one at most (manager.go 58, 68), and none that is out comes back.         *)
Table == INSTANCE TaskTable WITH Tasks <- Applies, running <- Elements, over <- gone

ImplementsTaskTable == Table!Spec

(* While applies come one after another, each has an id of its own, also     *)
(* across a restart, which fills the pool again: the date in the id tells    *)
(* the processes apart (Idmanager.go 35).                                    *)
IdsTellTasksApart ==
    ~overlapped => \A a, b \in training : id[a] = id[b] => a = b

(* The file of a Master that has ended in order holds its registry: no call  *)
(* changes the registry once it is being saved (main.go 70).                 *)
SavedOnExit == main = "down" => file = nodes

(* The server is not stopped under a console that nobody has told to exit.   *)
(* A restart begins anew.                                                    *)
OnlyExitStops == stopping => \E x \in Exits : at[x] # "new"

(* A report that has been taken up is answered, however long the apply of    *)
(* its task is busy with the other node, unless a handler of the console's   *)
(* calls is inside GracefulStop or the process ends.                         *)
Stuck == \E c \in Calls : at[c] \in {"stop", "setStop"}

ReportAnswered ==
    \A r \in Reports :
        at[r] = "lookup" ~> (at[r] \in Ended \/ Stuck)

(* When the console has gone and one task is left, the report of its end     *)
(* ends the process.  Quiet: no other handler is in the middle of something. *)
QuietExcept(r) == \A p \in Handlers \ {r} : ~Active(p)

LastReport(r) ==
    /\ Serving /\ ~single1 /\ ~stopping
    /\ QuietExcept(r)
    /\ at[r] = "lookup" /\ Listed = {id[r]}

LastTaskStopsMaster ==
    \A r \in Reports :
        LastReport(r) ~> (main = "down" \/ \E c \in Calls : Active(c))

-----------------------------------------------------------------------------
(* README.md 140: "exit: Exit the console".  The console waits for the       *)
(* answer to its Exit call before it ends (cmd/main.go 88).                  *)
ExitIsAnswered == \A x \in Exits : at[x] = "enter" ~> at[x] \in Ended
=============================================================================
