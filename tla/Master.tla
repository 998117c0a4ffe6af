------------------------------- MODULE Master -------------------------------
(***************************************************************************)
(* The Master: the handlers of the console's calls (server/server.go), the *)
(* clients of the two nodes (sender/sender.go, Database/database.go), the  *)
(* table of running tasks (manager/manager.go), the handler of the nodes'  *)
(* reports (receiveremote/reciever.go), the switch that ends the process   *)
(* (Single), and main (main.go).  It composes the id pool, the node        *)
(* registry and the task records.                                          *)
(*                                                                         *)
(* Granularity.  One step is a critical section, a load or store of an     *)
(* atomic flag, a read or write of the pool's slice, or an outcome of a    *)
(* call to a node with its retries.                                        *)
(*                                                                         *)
(* Abstraction.  Every call of the console is a constant, used once; a     *)
(* retry is another call.  Each ApplyManager makes clients of its own, so  *)
(* the element it puts in the table is named by the call.  Log files,      *)
(* texts and the configuration's contents other than the two addresses     *)
(* are left out; where one may fail, the failure is a choice.              *)
(*                                                                         *)
(* A definition called a variant is the one that follows it with a         *)
(* plausible mistake; no action uses it.                                   *)
(***************************************************************************)
EXTENDS IdManager, NodeRegistry, TaskDb, Sequences

CONSTANTS
    Applies,    \* the ApplyManager calls, and the elements they make
    Attaches,   \* the CheckManager calls
    Exits,      \* the Exit calls
    Others,     \* the calls about tasks (CancelManager, TaskManager), nodes (JoinNode,
                \* DeleteNode) and records (ViewTaskDb, DeleteTaskDb)
    Reports,    \* the TrainRemote calls with a final status
    TrainUrl,   \* train_backend_url of each apply
    DataUrl,    \* db.Address and db.Port of each apply
    MaxNow      \* bound: the last second of the model

Kinds == <<Applies, Attaches, Exits, Others, Reports>>

ASSUME MasterAssumption ==
    /\ \A j, k \in DOMAIN Kinds : j # k => Kinds[j] \cap Kinds[k] = {}
    /\ \A k \in DOMAIN Kinds : None \notin Kinds[k]
    /\ TrainUrl \in [Applies -> Urls]
    /\ DataUrl \in [Applies -> Urls]
    /\ MaxNow \in Nat

VARIABLES
    main,       \* where the main goroutine is
    at,         \* where each handler is
    list,       \* DefaultManager.List
    single1,    \* Single.Single1: a console is attached
    single2,    \* Single.Single2: there are tasks
    closed,     \* Single.Closed
    stopping,   \* GracefulStop has been called
    id,         \* the id each handler works on
    element,    \* the element each handler got from the table
    rest,       \* what each apply read as Number[1:]
    number,     \* what GetNumber returned to each handler
    hungUp,     \* the connections that have been closed, by element and node
    training,   \* external: the calls whose task the Training Node has accepted
    about,      \* history: the call whose task's end each report tells
    gone,       \* history: the elements that have left the table, by a report or with
                \* their process
    overlapped  \* history: two applies were in progress at one time

switch  == <<single1, single2, closed, stopping>>
tables  == <<list, pool, files, hungUp>>
locals  == <<id, element, rest, number>>
outside == <<training, about, gone, overlapped>>
persist == <<nodes, entries, file>>
vars == <<main, at, now, switch, tables, locals, outside, persist>>

Calls    == Applies \cup Attaches \cup Exits \cup Others
Handlers == Calls \cup Reports

(* How a handler can end: with success, with a failure, with its process.    *)
Ended == {"done", "failed", "dead"}

Active(p) == at[p] \notin Ended \cup {"new"}

Goes(p, place) == at' = [at EXCEPT ![p] = place]

Serving == main = "serve"

(* The context of an element is that of the call that made it, and ends with *)
(* the handler.                                                              *)
Over(e) == ~Active(e)

Init ==
    /\ main = "serve" /\ now = 0
    /\ at = [p \in Handlers |-> "new"]
    /\ training = {} /\ gone = {} /\ overlapped = FALSE
    /\ about = [r \in Reports |-> None]
    /\ pool = FullPool /\ list = [i \in {} |-> None] /\ files = {} /\ hungUp = {}
    /\ single1 = TRUE /\ single2 = FALSE /\ closed = FALSE /\ stopping = FALSE
    /\ id = [p \in Handlers |-> None]
    /\ element = [p \in Handlers |-> None]
    /\ rest = [a \in Applies |-> <<>>]
    /\ number = [p \in Handlers |-> 0]
    /\ nodes = {} /\ entries = {} /\ file = {}

(* An unrecovered panic in a handler ends the process.                       *)
Killed == [p \in Handlers |-> IF Active(p) THEN "dead" ELSE at[p]]

Panics ==
    /\ main' = "crashed" /\ at' = Killed
    /\ UNCHANGED <<now, switch, tables, locals, outside, persist>>

-----------------------------------------------------------------------------
(* The table of running tasks *)

Listed == DOMAIN list

Elements == {list[i] : i \in Listed}

Put(i, e) == [j \in Listed \cup {i} |-> IF j = i THEN e ELSE list[j]]

Drop(i) == [j \in Listed \ {i} |-> list[j]]

GetNumber == Cardinality(Listed)

-----------------------------------------------------------------------------
(* The console's calls arrive while the server accepts them.                 *)

CallEnters(c) ==
    /\ Serving /\ ~stopping
    /\ at[c] = "new"
    /\ Goes(c, "enter")
    /\ overlapped' = (overlapped \/ (c \in Applies /\ \E a \in Applies : Active(a)))
    /\ UNCHANGED <<main, now, switch, tables, locals, training, about, gone, persist>>

(* Every handler first asks whether its context is done: the connection may  *)
(* have broken.                                                              *)
CallIsOver(c) ==
    /\ at[c] = "enter"
    /\ Goes(c, "failed")
    /\ UNCHANGED <<main, now, switch, tables, locals, outside, persist>>

-----------------------------------------------------------------------------
(* Single: a handler counts the tasks, stores the answer and stops the       *)
(* server when neither flag is up.  SetSingle1 stores the other flag and     *)
(* does the same; after it Exit goes on to Check.                            *)

Counts(p) ==
    /\ at[p] = "count"
    /\ number' = [number EXCEPT ![p] = GetNumber]
    /\ Goes(p, "flag")
    /\ UNCHANGED <<main, now, switch, tables, id, element, rest, outside, persist>>

Flags(p) ==
    /\ at[p] = "flag"
    /\ single2' = (number[p] > 0)
    /\ number' = [number EXCEPT ![p] = 0]
    /\ Goes(p, "load1")
    /\ UNCHANGED <<main, now, single1, closed, stopping, tables, id, element, rest, outside, persist>>

SetSingle1(p) ==
    /\ p \in Attaches \cup Exits
    /\ at[p] = "enter"
    /\ single1' = (p \in Attaches)
    /\ Goes(p, "set1")
    /\ UNCHANGED <<main, now, single2, closed, stopping, tables, locals, outside, persist>>

(* Where a handler goes when it need not stop the server.                    *)
AfterSwitch(p) == IF at[p] \in {"set1", "set2", "setStop"} /\ p \in Exits THEN "count" ELSE "done"

Loads1Blindly(p) ==   \* a variant
    /\ at[p] \in {"load1", "set1"}
    /\ Goes(p, IF at[p] = "set1" THEN "set2" ELSE "load2")
    /\ UNCHANGED <<main, now, switch, tables, locals, outside, persist>>

Loads1(p) ==
    /\ at[p] \in {"load1", "set1"}
    /\ Goes(p, IF single1 THEN AfterSwitch(p) ELSE IF at[p] = "set1" THEN "set2" ELSE "load2")
    /\ UNCHANGED <<main, now, switch, tables, locals, outside, persist>>

Loads2(p) ==
    /\ at[p] \in {"load2", "set2"}
    /\ IF single2 \/ closed
          THEN Goes(p, AfterSwitch(p)) /\ UNCHANGED stopping
          ELSE Goes(p, IF at[p] = "set2" THEN "setStop" ELSE "stop") /\ stopping' = TRUE
    /\ UNCHANGED <<main, now, single1, single2, closed, tables, locals, outside, persist>>

(* GracefulStop waits for every handler of the console's calls, its caller   *)
(* included when that is one of them.                                        *)
DrainedAtOnce == TRUE   \* a variant

Drained == \A c \in Calls : ~Active(c)

Stops(p) ==
    /\ at[p] \in {"stop", "setStop"} /\ Drained
    /\ closed' = TRUE
    /\ Goes(p, AfterSwitch(p))
    /\ UNCHANGED <<main, now, single1, single2, stopping, tables, locals, outside, persist>>

Switches(p) == Counts(p) \/ Flags(p) \/ SetSingle1(p) \/ Loads1(p) \/ Loads2(p) \/ Stops(p)

-----------------------------------------------------------------------------
(* ApplyManager *)

ApplyReadsConfig(a) ==
    /\ a \in Applies /\ at[a] = "enter"
    /\ \E place \in {"first", "failed"} : Goes(a, place)
    /\ UNCHANGED <<main, now, switch, tables, locals, outside, persist>>

(* GetId *)
DrawsFirst(a) ==
    /\ at[a] = "first" /\ pool # <<>>
    /\ id' = [id EXCEPT ![a] = NewId(FirstCounter)]
    /\ Goes(a, "rest")
    /\ UNCHANGED <<main, now, switch, tables, element, rest, number, outside, persist>>

DrawsRest(a) ==
    /\ at[a] = "rest" /\ pool # <<>>
    /\ rest' = [rest EXCEPT ![a] = RestOfPool]
    /\ Goes(a, "store")
    /\ UNCHANGED <<main, now, switch, tables, id, element, number, outside, persist>>

DrawPanics(a) ==
    /\ at[a] \in {"first", "rest"} /\ pool = <<>>
    /\ Panics

DrawsStore(a) ==
    /\ at[a] = "store"
    /\ pool' = rest[a]
    /\ rest' = [rest EXCEPT ![a] = <<>>]
    /\ Goes(a, "dial")
    /\ UNCHANGED <<main, now, switch, list, files, hungUp, id, element, number, outside, persist>>

(* NewDefaultClient and NewDefaultDatabaseHandler refuse an address they     *)
(* cannot parse; the id is gone then.                                        *)
ApplyDials(a) ==
    /\ at[a] = "dial"
    /\ \E place \in {"insert", "failed"} : Goes(a, place)
    /\ UNCHANGED <<main, now, switch, tables, locals, outside, persist>>

InsertsAnyway(a) ==   \* a variant
    /\ at[a] = "insert"
    /\ list' = Put(id[a], a) /\ Goes(a, "get")
    /\ UNCHANGED <<main, now, switch, pool, files, hungUp, locals, outside, persist>>

ApplyInserts(a) ==
    /\ at[a] = "insert"
    /\ IF id[a] \in Listed
          THEN Goes(a, "failed") /\ UNCHANGED list
          ELSE Goes(a, "get") /\ list' = Put(id[a], a)
    /\ UNCHANGED <<main, now, switch, pool, files, hungUp, locals, outside, persist>>

ApplyGets(a) ==
    /\ at[a] = "get"
    /\ IF id[a] \in Listed
          THEN Goes(a, "send") /\ element' = [element EXCEPT ![a] = list[id[a]]]
          ELSE Goes(a, "failed") /\ UNCHANGED element
    /\ UNCHANGED <<main, now, switch, tables, id, rest, number, outside, persist>>

(* The command "apply": Send, then Link, then the two addresses.  A client   *)
(* asks first whether its context is done, and it opens its log file: the    *)
(* connection may have broken, or the file may not open.                     *)
Asks(a, from, to) ==
    /\ at[a] = from
    /\ \/ ~Over(element[a]) /\ Goes(a, to)
       \/ Goes(a, "failed")
    /\ UNCHANGED <<main, now, switch, tables, locals, outside, persist>>

ApplySends(a) == Asks(a, "send", "sending")

ApplyLinks(a) == Asks(a, "link", "linking")

(* A call on a closed connection fails.  Otherwise the node may have         *)
(* accepted what looks like a failure to the Master.                         *)
Sent(a) ==
    /\ at[a] = "sending" /\ <<element[a], "train">> \notin hungUp
    /\ training' = training \cup {a}
    /\ \E place \in {"link", "failed"} : Goes(a, place)
    /\ UNCHANGED <<main, now, switch, tables, locals, about, gone, overlapped, persist>>

Linked(a) ==
    /\ at[a] = "linking" /\ <<element[a], "data">> \notin hungUp
    /\ \E place \in {"addTrain", "failed"} : Goes(a, place)
    /\ UNCHANGED <<main, now, switch, tables, locals, outside, persist>>

NotReachedForgotten(a) ==   \* a variant
    /\ at[a] \in {"sending", "linking"}
    /\ Goes(a, "failed")
    /\ list' = Drop(id[a])
    /\ UNCHANGED <<main, now, switch, pool, files, hungUp, locals, outside, persist>>

NotReached(a) ==
    /\ at[a] \in {"sending", "linking"}
    /\ Goes(a, "failed")
    /\ UNCHANGED <<main, now, switch, tables, locals, outside, persist>>

(* An apply that failed leaves its id and its entry where they are.          *)
ApplyAddsTrain(a) ==
    /\ at[a] = "addTrain"
    /\ Add(TrainUrl[a], "TRAIN")
    /\ Goes(a, "addData")
    /\ UNCHANGED <<main, now, switch, tables, locals, outside, entries, file>>

ApplyAddsData(a) ==
    /\ at[a] = "addData"
    /\ Add(DataUrl[a], "DATA")
    /\ Goes(a, "count")
    /\ UNCHANGED <<main, now, switch, tables, locals, outside, entries, file>>

ApplyNext(a) ==
    \/ ApplyReadsConfig(a) \/ DrawsFirst(a) \/ DrawsRest(a) \/ DrawPanics(a) \/ DrawsStore(a)
    \/ ApplyDials(a) \/ ApplyInserts(a) \/ ApplyGets(a) \/ ApplySends(a) \/ ApplyLinks(a)
    \/ Sent(a) \/ Linked(a) \/ NotReached(a) \/ ApplyAddsTrain(a) \/ ApplyAddsData(a)

-----------------------------------------------------------------------------
(* The other calls of the console *)

(* The console names these commands "cancel" and "Task"; the table of        *)
(* commands holds "cancelTask" and "task", and a name that is not in it is a *)
(* call of a nil function.  With no task in the table nothing is looked up.  *)
(* The table of commands itself is filled by CommandLogger.Init, which       *)
(* nothing calls (command.go 36): these models begin where it has been       *)
(* called, as every command of the Master requires.                         *)
CommandMisses(c) ==
    /\ c \in Others /\ at[c] = "enter"
    /\ \E place \in {"failed"} \cup (IF Listed = {} THEN {"done"} ELSE {}) : Goes(c, place)
    /\ UNCHANGED <<main, now, switch, tables, locals, outside, persist>>

CommandPanics(c) ==
    /\ c \in Others /\ at[c] = "enter"
    /\ Listed # {}
    /\ Panics

NodeJoins(c) ==
    /\ c \in Others /\ at[c] = "enter"
    /\ \E u \in Urls, t \in NodeTypes : Add(u, t)
    /\ Goes(c, "done")
    /\ UNCHANGED <<main, now, switch, tables, locals, outside, entries, file>>

NodeLeaves(c) ==
    /\ c \in Others /\ at[c] = "enter"
    /\ \E u \in Urls : Remove(u)
    /\ Goes(c, "done")
    /\ UNCHANGED <<main, now, switch, tables, locals, outside, entries, file>>

(* CheckNode asks the nodes of one task, if the table has it, or all that    *)
(* are registered; a node that does not answer fails nothing.                *)
NodesChecked(c) ==
    /\ c \in Others /\ at[c] = "enter"
    /\ \E place \in {"done", "failed"} : Goes(c, place)
    /\ UNCHANGED <<main, now, switch, tables, locals, outside, persist>>

(* View and Delete of the key and the time of a record.                      *)
RecordViewed(c) ==
    /\ c \in Others /\ at[c] = "enter"
    /\ \E r \in files : Goes(c, IF CheckExist(r.key, r.file.time) THEN "done" ELSE "failed")
    /\ UNCHANGED <<main, now, switch, tables, locals, outside, persist>>

RecordDeleted(c) ==
    /\ c \in Others /\ at[c] = "enter"
    /\ \E r \in files :
        IF CheckExist(r.key, r.file.time)
           THEN Goes(c, "done") /\ DeleteRecord(r.key, r.file.time)
           ELSE Goes(c, "failed") /\ UNCHANGED files
    /\ UNCHANGED <<main, now, switch, list, pool, hungUp, locals, outside, persist>>

CommandNext(c) ==
    \/ CommandMisses(c) \/ CommandPanics(c) \/ NodeJoins(c) \/ NodeLeaves(c)
    \/ NodesChecked(c) \/ RecordViewed(c) \/ RecordDeleted(c)

-----------------------------------------------------------------------------
(* TrainRemote with a final status, and finalize *)

(* External: the Training Node reports the end of a task it has accepted, to *)
(* whatever process serves its Master's address then.                        *)
ReportArrives(r) ==
    /\ r \in Reports /\ at[r] = "new"
    /\ main \notin {"crashed", "down"}
    /\ \E a \in training : id' = [id EXCEPT ![r] = id[a]] /\ about' = [about EXCEPT ![r] = a]
    /\ Goes(r, "lookup")
    /\ UNCHANGED <<main, now, switch, tables, element, rest, number, training, gone, overlapped,
                   persist>>

ReportLooksUpBlindly(r) ==   \* a variant
    /\ at[r] = "lookup"
    /\ Goes(r, "record")
    /\ element' = [element EXCEPT ![r] = IF id[r] \in Listed THEN list[id[r]] ELSE None]
    /\ UNCHANGED <<main, now, switch, tables, id, rest, number, outside, persist>>

ReportLooksUp(r) ==
    /\ at[r] = "lookup"
    /\ IF id[r] \in Listed
          THEN Goes(r, "record") /\ element' = [element EXCEPT ![r] = list[id[r]]]
          ELSE Goes(r, "done") /\ UNCHANGED element
    /\ UNCHANGED <<main, now, switch, tables, id, rest, number, outside, persist>>

(* The error of Insert is ignored, and with the process's context done it    *)
(* writes nothing.                                                           *)
ReportRecords(r) ==
    /\ at[r] = "record"
    /\ \/ main \in {"serve", "cancel"} /\ InsertRecord(id[r], now, element[r])
       \/ UNCHANGED files
    /\ Goes(r, "pop")
    /\ UNCHANGED <<main, now, switch, list, pool, hungUp, locals, outside, persist>>

(* Pop goes by the id; that it may not be there any more is ignored.         *)
ReportPops(r) ==
    /\ at[r] = "pop"
    /\ list' = Drop(id[r])
    /\ gone' = gone \cup {list[i] : i \in Listed \cap {id[r]}}
    /\ Goes(r, "give")
    /\ UNCHANGED <<main, now, switch, pool, files, hungUp, locals, training, about, overlapped, persist>>

(* GetId reads and writes the pool under the read lock, InsertId under the   *)
(* write lock.                                                               *)
GetIdInside == \E a \in Applies : at[a] \in {"rest", "store"}

ReportGivesBack(r) ==
    /\ at[r] = "give"
    /\ LET c == ExtractCounter(id[r])
       IN  IF c # None THEN ~GetIdInside /\ InsertId(c) ELSE UNCHANGED pool
    /\ Goes(r, "leaveTrain")
    /\ UNCHANGED <<main, now, switch, list, files, hungUp, locals, outside, persist>>

(* Disconnect waits for the calls of its client, then closes.                *)
InFlightForEver(e, n) ==   \* a variant
    \E a \in Applies : element[a] = e
                       /\ at[a] \in (IF n = "train" THEN {"sending"} ELSE {"linking", "failed"})

InFlight(e, n) ==
    \E a \in Applies : element[a] = e
                       /\ at[a] = (IF n = "train" THEN "sending" ELSE "linking")

Disconnects(r, from, n, to) ==
    /\ at[r] = from
    /\ ~InFlight(element[r], n)
    /\ hungUp' = hungUp \cup {<<element[r], n>>}
    /\ Goes(r, to)
    /\ UNCHANGED <<main, now, switch, list, pool, files, locals, outside, persist>>

ReportLeavesTrain(r) == Disconnects(r, "leaveTrain", "train", "leaveData")

ReportLeavesDataUnchecked(r) == Disconnects(r, "leaveData", "data", "done")   \* a variant

ReportLeavesData(r) == Disconnects(r, "leaveData", "data", "count")

ReportNext(r) ==
    \/ ReportArrives(r) \/ ReportLooksUp(r) \/ ReportRecords(r) \/ ReportPops(r)
    \/ ReportGivesBack(r) \/ ReportLeavesTrain(r) \/ ReportLeavesData(r)

-----------------------------------------------------------------------------
(* main, from the end of Run to the end of the process *)

(* Serve returns when GracefulStop has done its work.                        *)
MainReturns ==
    /\ Serving /\ stopping /\ Drained
    /\ main' = "cancel"
    /\ UNCHANGED <<at, now, switch, tables, locals, outside, persist>>

(* cancel and TaskDb.Close: the records take no more.                        *)
MainCancels ==
    /\ main = "cancel"
    /\ main' = "close"
    /\ UNCHANGED <<at, now, switch, tables, locals, outside, persist>>

(* Manager.Close walks the table without its lock.  A Pop meanwhile may be   *)
(* found by the runtime, which ends the process.                             *)
MainClosesTasks ==
    /\ main = "close"
    /\ main' = "save"
    /\ list' = [i \in {} |-> None]
    /\ hungUp' = hungUp \cup {<<e, n>> : e \in Elements, n \in {"train", "data"}}
    /\ gone' = gone \cup Elements
    /\ UNCHANGED <<at, now, switch, pool, files, locals, training, about, overlapped, persist>>

MainClosePanics ==
    /\ main = "close" /\ Listed # {}
    /\ \E r \in Reports : at[r] = "pop"
    /\ Panics

MainCollects ==
    /\ main = "save"
    /\ main' = "create"
    /\ CollectEntries
    /\ UNCHANGED <<at, now, switch, tables, locals, outside, nodes, file>>

MainCreates ==
    /\ main = "create"
    /\ main' = "write"
    /\ CreateFile
    /\ UNCHANGED <<at, now, switch, tables, locals, outside, nodes, entries>>

MainWrites ==
    /\ main = "write"
    /\ main' = "down"
    /\ WriteFile
    /\ at' = Killed
    /\ UNCHANGED <<now, switch, tables, locals, outside, nodes, entries>>

MainNext ==
    \/ MainReturns \/ MainCancels \/ MainClosesTasks \/ MainClosePanics
    \/ MainCollects \/ MainCreates \/ MainWrites

(* A console that cannot reach the Master starts it; it has tried for        *)
(* seconds by then (cmd/main.go 33-37, five tries five seconds apart).  The  *)
(* clock moves only here: within one process ids collide most when all are   *)
(* of one second.                                                            *)
Restarts ==
    /\ main \in {"down", "crashed"} /\ now < MaxNow
    /\ main' = "serve" /\ now' = now + 1
    /\ pool' = FullPool /\ list' = [i \in {} |-> None]
    /\ single1' = TRUE /\ single2' = FALSE /\ closed' = FALSE /\ stopping' = FALSE
    /\ gone' = gone \cup Elements
    /\ Load /\ entries' = {}
    /\ UNCHANGED <<at, files, hungUp, locals, training, about, overlapped, file>>

-----------------------------------------------------------------------------

(* What a handler that has begun goes on to do.                              *)
HandlerNext(p) ==
    \/ CallIsOver(p) \/ Switches(p) \/ ApplyNext(p) \/ CommandNext(p)
    \/ Active(p) /\ ReportNext(p)

Next ==
    \/ \E c \in Calls : CallEnters(c) \/ CallIsOver(c) \/ CommandNext(c)
    \/ \E p \in Handlers : Switches(p)
    \/ \E a \in Applies : ApplyNext(a)
    \/ \E r \in Reports : ReportNext(r)
    \/ MainNext \/ Restarts

Spec == Init /\ [][Next]_vars

(* The Go scheduler runs every goroutine that can go on; a call to a node    *)
(* ends after six tries.  Nobody is obliged to call, and no clock to tick.   *)
Fairness == WF_vars(MainNext) /\ \A p \in Handlers : WF_vars(HandlerNext(p))

FairSpec == Spec /\ Fairness
=============================================================================
