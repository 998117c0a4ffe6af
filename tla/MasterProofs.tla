---------------------------- MODULE MasterProofs ----------------------------
(***************************************************************************)
(* Theorems about the Master, for any calls, reports, number of counters   *)
(* and restarts.                                                           *)
(***************************************************************************)
EXTENDS MasterProperties, FiniteSetTheorems, SequenceTheorems, TLAPS

IdPlaces == (ApplyPlaces \ {"first"}) \cup ReportPlaces

ElementPlaces == {"send", "sending", "link", "linking"} \cup (ReportPlaces \ {"lookup"})

(* What the place of a handler says of the handler and of its variables.     *)
HandlersOK ==
    /\ at \in [Handlers -> Places]
    /\ \A p \in Handlers :
          /\ at[p] \in ApplyPlaces => p \in Applies
          /\ at[p] \in ReportPlaces => p \in Reports
          /\ at[p] \in IdPlaces => id[p] # None
          /\ at[p] \in ElementPlaces => element[p] # None

OthersOK ==
    /\ main \in MainPlaces /\ now \in Nat
    /\ {single1, single2, closed, stopping, overlapped} \subseteq BOOLEAN
    /\ training \subseteq Applies /\ gone \subseteq Applies
    /\ about \in [Reports -> Optional(Applies)]

(* The type invariant, and that the table is finite, for GetNumber.          *)
TInv ==
    /\ HandlersOK /\ OthersOK /\ LocalsOK /\ TablesOK
    /\ IsFiniteSet(Listed)

TrainedHaveIds == \A a \in training : id[a] # None

-----------------------------------------------------------------------------
(* The parts of a step *)

LEMMA Kinds5 ==
    /\ Applies \cap Reports = {} /\ Applies \cap Others = {} /\ Applies \cap Exits = {}
    /\ Applies \cap Attaches = {} /\ Reports \cap Others = {} /\ Reports \cap Exits = {}
    /\ Reports \cap Attaches = {}
    /\ None \notin Applies
<1>1. \A j, k \in {1, 2, 3, 4, 5} : j # k => Kinds[j] \cap Kinds[k] = {}
  BY MasterAssumption DEF Kinds
<1>2. /\ Kinds[1] = Applies /\ Kinds[2] = Attaches /\ Kinds[3] = Exits
      /\ Kinds[4] = Others /\ Kinds[5] = Reports
  BY DEF Kinds
<1>3. Kinds[1] \cap Kinds[5] = {} /\ Kinds[1] \cap Kinds[4] = {} /\ Kinds[1] \cap Kinds[3] = {}
      /\ Kinds[1] \cap Kinds[2] = {} /\ Kinds[5] \cap Kinds[4] = {} /\ Kinds[5] \cap Kinds[3] = {}
      /\ Kinds[5] \cap Kinds[2] = {}
  BY <1>1
<1>4. None \notin Kinds[1]
  BY MasterAssumption DEF Kinds
<1> QED
  BY <1>2, <1>3, <1>4

(* A handler goes to a place for which it has what the place needs.          *)
LEMMA GoesKeeps ==
    ASSUME HandlersOK, NEW p \in Handlers, NEW to \in Places, Goes(p, to),
           \A q \in Handlers : q # p => id'[q] = id[q] /\ element'[q] = element[q],
           to \in ApplyPlaces => p \in Applies,
           to \in ReportPlaces => p \in Reports,
           to \in IdPlaces => id'[p] # None,
           to \in ElementPlaces => element'[p] # None
    PROVE  HandlersOK'
<1>1. at' \in [Handlers -> Places] /\ at'[p] = to
  BY DEF Goes, HandlersOK
<1>2. \A q \in Handlers : q # p => at'[q] = at[q]
  BY DEF Goes, HandlersOK
<1>3. ASSUME NEW q \in Handlers
      PROVE  /\ at'[q] \in ApplyPlaces => q \in Applies
             /\ at'[q] \in ReportPlaces => q \in Reports
             /\ at'[q] \in IdPlaces => id'[q] # None
             /\ at'[q] \in ElementPlaces => element'[q] # None
  BY <1>1, <1>2 DEF HandlersOK
<1> QED
  BY <1>1, <1>3 DEF HandlersOK

LEMMA KilledKeeps ==
    ASSUME HandlersOK, at' = Killed, UNCHANGED <<id, element>>
    PROVE  HandlersOK'
<1>1. "dead" \in Places /\ "dead" \notin ApplyPlaces \cup ReportPlaces \cup IdPlaces \cup ElementPlaces
  BY DEF Places, Ended, ApplyPlaces, ReportPlaces, IdPlaces, ElementPlaces
<1>2. at' \in [Handlers -> Places]
  BY <1>1 DEF Killed, HandlersOK
<1>3. \A q \in Handlers : at'[q] = at[q] \/ at'[q] = "dead"
  BY DEF Killed
<1> QED
  BY <1>1, <1>2, <1>3 DEF HandlersOK


LEMMA GoesPlainly ==
    ASSUME HandlersOK, NEW p \in Handlers, NEW to \in Places, Goes(p, to),
           UNCHANGED <<id, element>>,
           to \in ApplyPlaces => p \in Applies,
           to \in ReportPlaces => p \in Reports,
           to \in IdPlaces => id[p] # None,
           to \in ElementPlaces => element[p] # None
    PROVE  HandlersOK'
BY GoesKeeps

LEMMA PartsKept ==
    ASSUME TInv
    PROVE  /\ UNCHANGED <<main, now, switch, outside>> => OthersOK'
           /\ UNCHANGED locals => LocalsOK'
           /\ UNCHANGED tables /\ UNCHANGED persist => TablesOK' /\ IsFiniteSet(Listed)'
BY DEF TInv, OthersOK, LocalsOK, TablesOK, switch, outside, locals, tables, persist, Listed

(* The places that need nothing.                                             *)
LEMMA FreePlaces ==
    \A to \in {"enter"} \cup CheckPlaces \cup Ended :
        /\ to \in Places
        /\ to \notin ApplyPlaces /\ to \notin ReportPlaces
        /\ to \notin IdPlaces /\ to \notin ElementPlaces
BY DEF Places, Ended, CheckPlaces, ApplyPlaces, ReportPlaces, IdPlaces, ElementPlaces

LEMMA GoesFree ==
    ASSUME HandlersOK, NEW p \in Handlers, NEW to \in {"enter"} \cup CheckPlaces \cup Ended,
           Goes(p, to), UNCHANGED <<id, element>>
    PROVE  HandlersOK'
BY GoesPlainly, FreePlaces

LEMMA PanicsTyped == TInv /\ Panics => TInv'
<1> SUFFICES ASSUME TInv, Panics PROVE TInv'
  OBVIOUS
<1>1. HandlersOK'
  BY KilledKeeps DEF TInv, Panics, locals
<1>2. OthersOK'
  BY DEF TInv, OthersOK, Panics, switch, outside, MainPlaces
<1> QED
  BY <1>1, <1>2, PartsKept DEF Panics, TInv

-----------------------------------------------------------------------------
(* The types, action by action *)

LEMMA CallTyped ==
    ASSUME TInv, NEW c \in Calls, CallEnters(c) \/ CallIsOver(c) \/ CommandNext(c)
    PROVE  TInv'
<1>c. c \in Handlers
  BY DEF Handlers
<1>1. CASE CallEnters(c)
  <2>1. HandlersOK'
    BY <1>1, <1>c, GoesFree DEF CallEnters, TInv, locals
  <2>2. OthersOK'
    BY <1>1 DEF CallEnters, TInv, OthersOK, switch
  <2> QED
    BY <1>1, <2>1, <2>2, PartsKept DEF CallEnters, TInv
<1>2. CASE CallIsOver(c)
  <2>1. HandlersOK'
    BY <1>2, <1>c, GoesFree DEF CallIsOver, TInv, locals, Ended
  <2> QED
    BY <1>2, <2>1, PartsKept DEF CallIsOver, TInv, outside
<1>3. CASE CommandMisses(c)
  <2>1. PICK to \in Ended : Goes(c, to)
    BY <1>3 DEF CommandMisses, Ended
  <2>2. HandlersOK'
    BY <1>3, <1>c, <2>1, GoesFree DEF CommandMisses, TInv, locals
  <2> QED
    BY <1>3, <2>2, PartsKept DEF CommandMisses, TInv, outside
<1>4. CASE CommandPanics(c)
  BY <1>4, PanicsTyped DEF CommandPanics
<1>5. CASE NodeJoins(c)
  <2>1. HandlersOK'
    BY <1>5, <1>c, GoesFree DEF NodeJoins, TInv, locals, Ended
  <2>2. TablesOK' /\ IsFiniteSet(Listed)'
    BY <1>5 DEF NodeJoins, Add, Without, NodeValues, TInv, TablesOK, tables, Listed
  <2> QED
    BY <1>5, <2>1, <2>2, PartsKept DEF NodeJoins, TInv, outside
<1>6. CASE NodeLeaves(c)
  <2>1. HandlersOK'
    BY <1>6, <1>c, GoesFree DEF NodeLeaves, TInv, locals, Ended
  <2>2. TablesOK' /\ IsFiniteSet(Listed)'
    BY <1>6 DEF NodeLeaves, Remove, Without, NodeValues, TInv, TablesOK, tables, Listed
  <2> QED
    BY <1>6, <2>1, <2>2, PartsKept DEF NodeLeaves, TInv, outside
<1>7. CASE NodesChecked(c)
  <2>1. PICK to \in Ended : Goes(c, to)
    BY <1>7 DEF NodesChecked, Ended
  <2>2. HandlersOK'
    BY <1>7, <1>c, <2>1, GoesFree DEF NodesChecked, TInv, locals
  <2> QED
    BY <1>7, <2>2, PartsKept DEF NodesChecked, TInv, outside
<1>8. CASE RecordViewed(c)
  <2>1. PICK to \in Ended : Goes(c, to)
    BY <1>8 DEF RecordViewed, Ended
  <2>2. HandlersOK'
    BY <1>8, <1>c, <2>1, GoesFree DEF RecordViewed, TInv, locals
  <2> QED
    BY <1>8, <2>2, PartsKept DEF RecordViewed, TInv, outside
<1>9. CASE RecordDeleted(c)
  <2>1. PICK to \in Ended : Goes(c, to)
    BY <1>9 DEF RecordDeleted, Ended
  <2>2. HandlersOK'
    BY <1>9, <1>c, <2>1, GoesFree DEF RecordDeleted, TInv, locals
  <2>3. files' \subseteq RecordValues(IdValues, Applies)
    <3>1. files \subseteq RecordValues(IdValues, Applies)
      BY DEF TInv, TablesOK
    <3>2. ASSUME NEW e \in RecordValues(IdValues, Applies)
          PROVE  [e EXCEPT !.deleted = TRUE] \in RecordValues(IdValues, Applies)
      BY <3>2 DEF RecordValues
    <3>3. ASSUME NEW k, NEW t, DeleteRecord(k, t)
          PROVE  files' \subseteq RecordValues(IdValues, Applies)
      BY <3>1, <3>2, <3>3 DEF DeleteRecord, Holds
    <3> QED
      BY <1>9, <3>1, <3>3 DEF RecordDeleted
  <2>4. TablesOK' /\ IsFiniteSet(Listed)'
    BY <1>9, <2>3 DEF RecordDeleted, TInv, TablesOK, Listed, persist
  <2> QED
    BY <1>9, <2>2, <2>4, PartsKept DEF RecordDeleted, TInv, outside
<1> QED
  BY <1>1, <1>2, <1>3, <1>4, <1>5, <1>6, <1>7, <1>8, <1>9 DEF CommandNext

LEMMA SwitchTyped ==
    ASSUME TInv, NEW p \in Handlers, Switches(p)
    PROVE  TInv'
<1>a. AfterSwitch(p) \in CheckPlaces \cup Ended
  BY DEF AfterSwitch, CheckPlaces, Ended
<1>1. CASE Counts(p)
  <2>1. HandlersOK'
    BY <1>1, GoesFree DEF Counts, TInv, CheckPlaces
  <2>2. LocalsOK'
    <3>1. GetNumber \in Nat
      BY FS_CardinalityType DEF GetNumber, TInv
    <3> QED
      BY <1>1, <3>1 DEF Counts, TInv, LocalsOK
  <2> QED
    BY <1>1, <2>1, <2>2, PartsKept DEF Counts, TInv, outside
<1>2. CASE Flags(p)
  <2>1. HandlersOK'
    BY <1>2, GoesFree DEF Flags, TInv, CheckPlaces
  <2>2. LocalsOK'
    BY <1>2 DEF Flags, TInv, LocalsOK
  <2>3. single2' \in BOOLEAN
    BY <1>2 DEF Flags
  <2>4. OthersOK'
    BY <1>2, <2>3 DEF Flags, TInv, OthersOK, outside
  <2> QED
    BY <1>2, <2>1, <2>2, <2>4, PartsKept DEF Flags, TInv
<1>3. CASE SetSingle1(p)
  <2>1. HandlersOK'
    BY <1>3, GoesFree DEF SetSingle1, TInv, CheckPlaces, locals
  <2>2. OthersOK'
    BY <1>3 DEF SetSingle1, TInv, OthersOK, outside
  <2> QED
    BY <1>3, <2>1, <2>2, PartsKept DEF SetSingle1, TInv
<1>4. CASE Loads1(p)
  <2>1. PICK to \in CheckPlaces \cup Ended : Goes(p, to)
    BY <1>4, <1>a DEF Loads1, CheckPlaces
  <2>2. HandlersOK'
    BY <1>4, <2>1, GoesFree DEF Loads1, TInv, locals
  <2> QED
    BY <1>4, <2>2, PartsKept DEF Loads1, TInv, outside
<1>5. CASE Loads2(p)
  <2>1. PICK to \in CheckPlaces \cup Ended : Goes(p, to)
    BY <1>5, <1>a DEF Loads2, CheckPlaces
  <2>2. HandlersOK'
    BY <1>5, <2>1, GoesFree DEF Loads2, TInv, locals
  <2>3. OthersOK'
    BY <1>5 DEF Loads2, TInv, OthersOK, outside
  <2> QED
    BY <1>5, <2>2, <2>3, PartsKept DEF Loads2, TInv
<1>6. CASE Stops(p)
  <2>1. HandlersOK'
    BY <1>6, <1>a, GoesFree DEF Stops, TInv, locals
  <2>2. OthersOK'
    BY <1>6 DEF Stops, TInv, OthersOK, outside
  <2> QED
    BY <1>6, <2>1, <2>2, PartsKept DEF Stops, TInv
<1> QED
  BY <1>1, <1>2, <1>3, <1>4, <1>5, <1>6 DEF Switches


(* An apply goes to a place of its own, or ends or counts the tasks.         *)
LEMMA GoesApplying ==
    ASSUME HandlersOK, NEW a \in Applies, NEW to \in ApplyPlaces \cup {"count", "failed"},
           Goes(a, to), UNCHANGED <<id, element>>,
           to \in IdPlaces => id[a] # None,
           to \in ElementPlaces => element[a] # None
    PROVE  HandlersOK'
<1>1. a \in Handlers
  BY DEF Handlers, Calls
<1>2. to \in Places /\ to \notin ReportPlaces
  BY DEF Places, CheckPlaces, Ended, ApplyPlaces, ReportPlaces
<1> QED
  BY <1>1, <1>2, GoesPlainly

LEMMA ApplyTyped ==
    ASSUME TInv, NEW a \in Applies, ApplyNext(a)
    PROVE  TInv'
<1>a. a \in Handlers
  BY DEF Handlers, Calls
<1> DEFINE Own == ApplyPlaces \cup {"count", "failed"}
<1>i. at[a] \in IdPlaces => id[a] # None
  BY <1>a DEF TInv, HandlersOK
<1>e. at[a] \in ElementPlaces => element[a] # None
  BY <1>a DEF TInv, HandlersOK
<1>1. CASE ApplyReadsConfig(a)
  <2>1. PICK to \in {"first", "failed"} : Goes(a, to)
    BY <1>1 DEF ApplyReadsConfig
  <2>2. to \in Own /\ to \notin IdPlaces /\ to \notin ElementPlaces
    BY DEF ApplyPlaces, IdPlaces, ElementPlaces, ReportPlaces
  <2>3. HandlersOK'
    BY <1>1, <2>1, <2>2, GoesApplying DEF ApplyReadsConfig, TInv, locals
  <2> QED
    BY <1>1, <2>3, PartsKept DEF ApplyReadsConfig, TInv, outside
<1>2. CASE DrawsFirst(a)
  <2>1. NewId(FirstCounter) \in IdValues
    BY <1>2, LenProperties DEF DrawsFirst, TInv, TablesOK, OthersOK, NewId, FirstCounter, IdValues
  <2>2. None \notin IdValues
    BY IdAssumption
  <2>3. id' = [id EXCEPT ![a] = NewId(FirstCounter)] /\ id \in [Handlers -> Optional(IdValues)]
    BY <1>2 DEF DrawsFirst, TInv, LocalsOK
  <2>4. id'[a] # None /\ \A q \in Handlers : q # a => id'[q] = id[q]
    BY <1>a, <2>1, <2>2, <2>3
  <2>5. id' \in [Handlers -> Optional(IdValues)]
    BY <2>1, <2>3 DEF Optional
  <2>6. "rest" \in Places /\ "rest" \notin ReportPlaces /\ "rest" \notin ElementPlaces
    BY DEF Places, ApplyPlaces, ReportPlaces, ElementPlaces
  <2>7. HandlersOK'
    BY <1>2, <1>a, <2>4, <2>6, GoesKeeps DEF DrawsFirst, TInv
  <2>8. LocalsOK'
    BY <1>2, <2>5 DEF DrawsFirst, TInv, LocalsOK
  <2> QED
    BY <1>2, <2>7, <2>8, PartsKept DEF DrawsFirst, TInv, outside
<1>3. CASE DrawsRest(a)
  <2>1. HandlersOK'
    <3>1. at[a] \in IdPlaces /\ "store" \in Own /\ "store" \notin ElementPlaces
      BY <1>3 DEF DrawsRest, IdPlaces, ApplyPlaces, ReportPlaces, ElementPlaces
    <3> QED
      BY <1>3, <1>i, <3>1, GoesApplying DEF DrawsRest, TInv
  <2>2. LocalsOK'
    <3>1. RestOfPool \in Seq(Counters)
      BY <1>3, HeadTailProperties DEF DrawsRest, TInv, TablesOK, RestOfPool
    <3> QED
      BY <1>3, <3>1 DEF DrawsRest, TInv, LocalsOK
  <2> QED
    BY <1>3, <2>1, <2>2, PartsKept DEF DrawsRest, TInv, outside
<1>4. CASE DrawPanics(a)
  BY <1>4, PanicsTyped DEF DrawPanics
<1>5. CASE DrawsStore(a)
  <2>1. HandlersOK'
    <3>1. at[a] \in IdPlaces /\ "dial" \in Own /\ "dial" \notin ElementPlaces
      BY <1>5 DEF DrawsStore, IdPlaces, ApplyPlaces, ReportPlaces, ElementPlaces
    <3> QED
      BY <1>5, <1>i, <3>1, GoesApplying DEF DrawsStore, TInv
  <2>2. LocalsOK'
    <3>1. <<>> \in Seq(Counters)
      BY EmptySeq
    <3> QED
      BY <1>5, <3>1 DEF DrawsStore, TInv, LocalsOK
  <2>3. TablesOK' /\ IsFiniteSet(Listed)'
    BY <1>5 DEF DrawsStore, TInv, TablesOK, LocalsOK, Listed, persist
  <2> QED
    BY <1>5, <2>1, <2>2, <2>3, PartsKept DEF DrawsStore, TInv, outside
<1>6. CASE ApplyDials(a)
  <2>1. PICK to \in {"insert", "failed"} : Goes(a, to)
    BY <1>6 DEF ApplyDials
  <2>2. to \in Own /\ at[a] \in IdPlaces /\ to \notin ElementPlaces
    BY <1>6 DEF ApplyDials, ApplyPlaces, IdPlaces, ElementPlaces, ReportPlaces
  <2>3. HandlersOK'
    BY <1>6, <1>i, <2>1, <2>2, GoesApplying DEF ApplyDials, TInv, locals
  <2> QED
    BY <1>6, <2>3, PartsKept DEF ApplyDials, TInv, outside
<1>7. CASE ApplyInserts(a)
  <2>1. PICK to \in {"get", "failed"} : Goes(a, to)
    BY <1>7 DEF ApplyInserts
  <2>2. to \in Own /\ at[a] \in IdPlaces /\ to \notin ElementPlaces
    BY <1>7 DEF ApplyInserts, ApplyPlaces, IdPlaces, ElementPlaces, ReportPlaces
  <2>3. HandlersOK'
    BY <1>7, <1>i, <2>1, <2>2, GoesApplying DEF ApplyInserts, TInv, locals
  <2>4. id[a] \in IdValues
    BY <1>a, <1>i, <2>2 DEF TInv, LocalsOK, Optional
  <2>5. TablesOK' /\ IsFiniteSet(Listed)'
    <3>1. CASE UNCHANGED list
      BY <1>7, <3>1 DEF ApplyInserts, TInv, TablesOK, Listed, persist
    <3>2. CASE list' = Put(id[a], a)
      <4>1. Listed' = Listed \cup {id[a]} /\ list' \in [Listed' -> Applies]
        BY <3>2 DEF Put, Listed, TInv, TablesOK
      <4>2. IsFiniteSet(Listed)'
        BY <4>1, FS_AddElement DEF TInv
      <4> QED
        BY <1>7, <2>4, <4>1, <4>2 DEF ApplyInserts, TInv, TablesOK, persist
    <3> QED
      BY <1>7, <3>1, <3>2 DEF ApplyInserts
  <2> QED
    BY <1>7, <2>3, <2>5, PartsKept DEF ApplyInserts, TInv, outside
<1>8. CASE ApplyGets(a)
  <2>1. CASE id[a] \in Listed
    <3>1. list[id[a]] \in Applies
      BY <2>1 DEF TInv, TablesOK
    <3>2. element' = [element EXCEPT ![a] = list[id[a]]] /\ element \in [Handlers -> Optional(Applies)]
      BY <1>8, <2>1 DEF ApplyGets, TInv, LocalsOK
    <3>3. element'[a] # None /\ \A q \in Handlers : q # a => element'[q] = element[q]
      BY <1>a, <3>1, <3>2, Kinds5
    <3>4. at[a] \in IdPlaces /\ "send" \in Places /\ "send" \notin ReportPlaces
      BY <1>8 DEF ApplyGets, IdPlaces, ApplyPlaces, ReportPlaces, Places
    <3>5. HandlersOK'
      BY <1>8, <1>a, <1>i, <2>1, <3>3, <3>4, GoesKeeps DEF ApplyGets, TInv
    <3>6. LocalsOK'
      BY <1>8, <3>1, <3>2 DEF ApplyGets, TInv, LocalsOK, Optional
    <3> QED
      BY <1>8, <3>5, <3>6, PartsKept DEF ApplyGets, TInv, outside
  <2>2. CASE id[a] \notin Listed
    <3>1. HandlersOK'
      BY <1>8, <1>a, <2>2, GoesFree DEF ApplyGets, TInv, Ended
    <3>2. LocalsOK'
      BY <1>8, <2>2, PartsKept DEF ApplyGets, locals
    <3> QED
      BY <1>8, <3>1, <3>2, PartsKept DEF ApplyGets, TInv, outside
  <2> QED
    BY <2>1, <2>2
<1>9. ASSUME ApplySends(a) \/ ApplyLinks(a)
      PROVE  TInv'
  <2>1. PICK to \in {"sending", "linking", "failed"} : Goes(a, to)
    BY <1>9 DEF ApplySends, ApplyLinks, Asks
  <2>2. to \in Own /\ at[a] \in IdPlaces /\ at[a] \in ElementPlaces
    BY <1>9 DEF ApplySends, ApplyLinks, Asks, ApplyPlaces, IdPlaces, ElementPlaces
  <2>3. HandlersOK'
    BY <1>9, <1>i, <1>e, <2>1, <2>2, GoesApplying DEF ApplySends, ApplyLinks, Asks, TInv, locals
  <2> QED
    BY <1>9, <2>3, PartsKept DEF ApplySends, ApplyLinks, Asks, TInv, outside
<1>10. ASSUME Sent(a) \/ Linked(a) \/ NotReached(a)
       PROVE  TInv'
  <2>1. PICK to \in {"link", "addTrain", "failed"} : Goes(a, to)
    BY <1>10 DEF Sent, Linked, NotReached
  <2>2. to \in Own /\ at[a] \in IdPlaces /\ at[a] \in ElementPlaces
    BY <1>10 DEF Sent, Linked, NotReached, ApplyPlaces, IdPlaces, ElementPlaces
  <2>3. HandlersOK'
    BY <1>10, <1>i, <1>e, <2>1, <2>2, GoesApplying DEF Sent, Linked, NotReached, TInv, locals
  <2>4. OthersOK'
    BY <1>10 DEF Sent, Linked, NotReached, TInv, OthersOK, switch, outside
  <2> QED
    BY <1>10, <2>3, <2>4, PartsKept DEF Sent, Linked, NotReached, TInv
<1>11. CASE ApplyAddsTrain(a)
  <2>1. "addData" \in Own /\ at[a] \in IdPlaces /\ "addData" \notin ElementPlaces
    BY <1>11 DEF ApplyAddsTrain, ApplyPlaces, IdPlaces, ElementPlaces, ReportPlaces
  <2>2. HandlersOK'
    BY <1>11, <1>i, <2>1, GoesApplying DEF ApplyAddsTrain, TInv, locals
  <2>3. [url |-> TrainUrl[a], type |-> "TRAIN"] \in NodeValues
    BY MasterAssumption DEF NodeValues, NodeTypes
  <2>4. TablesOK' /\ IsFiniteSet(Listed)'
    BY <1>11, <2>3 DEF ApplyAddsTrain, Add, Without, TInv, TablesOK, tables, Listed
  <2> QED
    BY <1>11, <2>2, <2>4, PartsKept DEF ApplyAddsTrain, TInv, outside
<1>12. CASE ApplyAddsData(a)
  <2>1. "count" \in Own /\ "count" \notin IdPlaces /\ "count" \notin ElementPlaces
    BY DEF ApplyPlaces, IdPlaces, ElementPlaces, ReportPlaces
  <2>2. HandlersOK'
    BY <1>12, <2>1, GoesApplying DEF ApplyAddsData, TInv, locals
  <2>3. [url |-> DataUrl[a], type |-> "DATA"] \in NodeValues
    BY MasterAssumption DEF NodeValues, NodeTypes
  <2>4. TablesOK' /\ IsFiniteSet(Listed)'
    BY <1>12, <2>3 DEF ApplyAddsData, Add, Without, TInv, TablesOK, tables, Listed
  <2> QED
    BY <1>12, <2>2, <2>4, PartsKept DEF ApplyAddsData, TInv, outside
<1> QED
  BY <1>1, <1>2, <1>3, <1>4, <1>5, <1>6, <1>7, <1>8, <1>9, <1>10, <1>11, <1>12 DEF ApplyNext


(* A report goes to a place of its own, or ends or counts the tasks.         *)
LEMMA GoesReporting ==
    ASSUME HandlersOK, NEW r \in Reports, NEW to \in ReportPlaces \cup {"count", "done"},
           Goes(r, to), UNCHANGED <<id, element>>,
           at[r] \in ReportPlaces \ {"lookup"}
    PROVE  HandlersOK'
<1>1. r \in Handlers
  BY DEF Handlers
<1>2. to \in Places /\ to \notin ApplyPlaces
  BY DEF Places, CheckPlaces, Ended, ApplyPlaces, ReportPlaces
<1>3. id[r] # None /\ element[r] # None
  BY <1>1 DEF HandlersOK, IdPlaces, ElementPlaces
<1> QED
  BY <1>1, <1>2, <1>3, GoesPlainly

LEMMA NothingGivenBack == \A i : ExtractCounter(i) = None
BY DEF ExtractCounter, LastField, Atoi

LEMMA ReportTyped ==
    ASSUME TInv, TrainedHaveIds, NEW r \in Reports, ReportNext(r)
    PROVE  TInv'
<1>r. r \in Handlers
  BY DEF Handlers
<1> DEFINE Own == ReportPlaces \cup {"count", "done"}
           Working == ReportPlaces \ {"lookup"}
<1>i. at[r] \in ReportPlaces => id[r] \in IdValues
  BY <1>r DEF TInv, HandlersOK, IdPlaces, LocalsOK, Optional
<1>e. at[r] \in Working => element[r] \in Applies
  BY <1>r DEF TInv, HandlersOK, ElementPlaces, LocalsOK, Optional
<1>1. CASE ReportArrives(r)
  <2>1. PICK a \in training : id' = [id EXCEPT ![r] = id[a]] /\ about' = [about EXCEPT ![r] = a]
    BY <1>1 DEF ReportArrives
  <2>2. a \in Handlers
    BY DEF TInv, OthersOK, Handlers, Calls
  <2>3. id \in [Handlers -> Optional(IdValues)]
    BY DEF TInv, LocalsOK
  <2>4. LocalsOK'
    BY <1>1, <2>1, <2>2, <2>3 DEF ReportArrives, TInv, LocalsOK
  <2>5. id[a] # None
    BY DEF TrainedHaveIds
  <2>6. "lookup" \in Places /\ "lookup" \notin ApplyPlaces /\ "lookup" \notin ElementPlaces
    BY DEF Places, ApplyPlaces, ReportPlaces, ElementPlaces
  <2>7. HandlersOK'
    BY <1>1, <1>r, <2>1, <2>3, <2>5, <2>6, GoesKeeps DEF ReportArrives, TInv
  <2>8. about' \in [Reports -> Optional(Applies)]
    <3>1. a \in Optional(Applies) /\ about \in [Reports -> Optional(Applies)]
      BY DEF TInv, OthersOK, Optional
    <3> QED
      BY <2>1, <3>1
  <2>9. OthersOK'
    BY <1>1, <2>8 DEF ReportArrives, TInv, OthersOK, switch
  <2> QED
    BY <1>1, <2>4, <2>7, <2>9, PartsKept DEF ReportArrives, TInv
<1>2. CASE ReportLooksUp(r)
  <2>0. at[r] = "lookup" /\ at[r] \in ReportPlaces
    BY <1>2 DEF ReportLooksUp, ReportPlaces
  <2>1. CASE id[r] \in Listed
    <3>1. list[id[r]] \in Applies
      BY <2>1 DEF TInv, TablesOK
    <3>2. element' = [element EXCEPT ![r] = list[id[r]]] /\ element \in [Handlers -> Optional(Applies)]
      BY <1>2, <2>1 DEF ReportLooksUp, TInv, LocalsOK
    <3>3. element'[r] # None /\ \A q \in Handlers : q # r => element'[q] = element[q]
      BY <1>r, <3>1, <3>2, Kinds5
    <3>4. "record" \in Places /\ "record" \notin ApplyPlaces
      BY DEF ApplyPlaces, ReportPlaces, Places
    <3>5. id[r] # None
      BY <2>0, <1>i, IdAssumption
    <3>6. HandlersOK'
      BY <1>2, <1>r, <2>1, <3>3, <3>4, <3>5, GoesKeeps DEF ReportLooksUp, TInv
    <3>7. LocalsOK'
      BY <1>2, <3>1, <3>2 DEF ReportLooksUp, TInv, LocalsOK, Optional
    <3> QED
      BY <1>2, <3>6, <3>7, PartsKept DEF ReportLooksUp, TInv, outside
  <2>2. CASE id[r] \notin Listed
    <3>1. HandlersOK'
      BY <1>2, <1>r, <2>2, GoesFree DEF ReportLooksUp, TInv, Ended
    <3>2. LocalsOK'
      BY <1>2, <2>2, PartsKept DEF ReportLooksUp, locals
    <3> QED
      BY <1>2, <3>1, <3>2, PartsKept DEF ReportLooksUp, TInv, outside
  <2> QED
    BY <2>1, <2>2
<1>3. CASE ReportRecords(r)
  <2>1. at[r] \in Working /\ "pop" \in Own
    BY <1>3 DEF ReportRecords, ReportPlaces
  <2>2. HandlersOK'
    BY <1>3, <2>1, GoesReporting DEF ReportRecords, TInv, locals
  <2>3. [file |-> WrittenFile(now), key |-> id[r], of |-> element[r], deleted |-> FALSE]
          \in RecordValues(IdValues, Applies)
    BY <2>1, <1>i, <1>e DEF RecordValues, WrittenFile, TInv, OthersOK
  <2>4. files' \subseteq RecordValues(IdValues, Applies)
    BY <1>3, <2>3 DEF ReportRecords, InsertRecord, Holds, TInv, TablesOK
  <2>5. TablesOK' /\ IsFiniteSet(Listed)'
    BY <1>3, <2>4 DEF ReportRecords, TInv, TablesOK, Listed, persist
  <2> QED
    BY <1>3, <2>2, <2>5, PartsKept DEF ReportRecords, TInv, outside
<1>4. CASE ReportPops(r)
  <2>1. at[r] \in Working /\ "give" \in Own
    BY <1>4 DEF ReportPops, ReportPlaces
  <2>2. HandlersOK'
    BY <1>4, <2>1, GoesReporting DEF ReportPops, TInv, locals
  <2>3. OthersOK'
    BY <1>4 DEF ReportPops, TInv, OthersOK, TablesOK, switch
  <2>4. TablesOK' /\ IsFiniteSet(Listed)'
    <3>1. Listed' = Listed \ {id[r]} /\ list' \in [Listed' -> Applies]
      BY <1>4 DEF ReportPops, Drop, Listed, TInv, TablesOK
    <3>2. IsFiniteSet(Listed)'
      BY <3>1, FS_RemoveElement DEF TInv
    <3> QED
      BY <1>4, <3>1, <3>2 DEF ReportPops, TInv, TablesOK, persist
  <2> QED
    BY <1>4, <2>2, <2>3, <2>4, PartsKept DEF ReportPops, TInv
<1>5. CASE ReportGivesBack(r)
  <2>1. at[r] \in Working /\ "leaveTrain" \in Own
    BY <1>5 DEF ReportGivesBack, ReportPlaces
  <2>2. HandlersOK'
    BY <1>5, <2>1, GoesReporting DEF ReportGivesBack, TInv, locals
  <2>3. UNCHANGED tables
    BY <1>5, NothingGivenBack DEF ReportGivesBack, tables
  <2> QED
    BY <1>5, <2>2, <2>3, PartsKept DEF ReportGivesBack, TInv, outside
<1>6. ASSUME ReportLeavesTrain(r) \/ ReportLeavesData(r)
      PROVE  TInv'
  <2>1. PICK to \in {"leaveData", "count"} : Goes(r, to)
    BY <1>6 DEF ReportLeavesTrain, ReportLeavesData, Disconnects
  <2>2. at[r] \in Working /\ to \in Own
    BY <1>6 DEF ReportLeavesTrain, ReportLeavesData, Disconnects, ReportPlaces
  <2>3. HandlersOK'
    BY <1>6, <2>1, <2>2, GoesReporting DEF ReportLeavesTrain, ReportLeavesData, Disconnects, TInv, locals
  <2>4. PICK n \in {"train", "data"} : hungUp' = hungUp \cup {<<element[r], n>>}
    BY <1>6 DEF ReportLeavesTrain, ReportLeavesData, Disconnects
  <2>5. <<element[r], n>> \in Applies \X {"train", "data"}
    BY <2>2, <1>e
  <2>6. TablesOK' /\ IsFiniteSet(Listed)'
    BY <1>6, <2>4, <2>5 DEF ReportLeavesTrain, ReportLeavesData, Disconnects, TInv, TablesOK, Listed, persist
  <2> QED
    BY <1>6, <2>3, <2>6, PartsKept DEF ReportLeavesTrain, ReportLeavesData, Disconnects, TInv, outside
<1> QED
  BY <1>1, <1>2, <1>3, <1>4, <1>5, <1>6 DEF ReportNext

LEMMA MainTyped ==
    ASSUME TInv, MainNext \/ Restarts
    PROVE  TInv'
<1>f. FullPool \in Seq(Counters)
  BY IdAssumption DEF FullPool, Counters
<1>0. LET none == [i \in {} |-> None] IN none \in [{} -> Applies] /\ DOMAIN none = {} /\ IsFiniteSet({})
  BY FS_EmptySet
<1>1. ASSUME MainReturns \/ MainCancels
      PROVE  TInv'
  <2>1. OthersOK'
    BY <1>1 DEF MainReturns, MainCancels, TInv, OthersOK, MainPlaces, switch, outside
  <2>2. HandlersOK'
    BY <1>1 DEF MainReturns, MainCancels, TInv, HandlersOK, locals
  <2> QED
    BY <1>1, <2>1, <2>2, PartsKept DEF MainReturns, MainCancels, TInv
<1>2. CASE MainClosesTasks
  <2>1. Elements \subseteq Applies
    BY DEF Elements, TInv, TablesOK
  <2>2. OthersOK'
    BY <1>2, <2>1 DEF MainClosesTasks, TInv, OthersOK, MainPlaces, switch
  <2>3. HandlersOK'
    BY <1>2 DEF MainClosesTasks, TInv, HandlersOK, locals
  <2>4. hungUp' \subseteq Applies \X {"train", "data"}
    BY <1>2, <2>1 DEF MainClosesTasks, TInv, TablesOK
  <2>5. TablesOK' /\ IsFiniteSet(Listed)'
    BY <1>2, <1>0, <2>4 DEF MainClosesTasks, TInv, TablesOK, Listed, persist
  <2> QED
    BY <1>2, <2>2, <2>3, <2>5, PartsKept DEF MainClosesTasks, TInv
<1>3. CASE MainClosePanics
  BY <1>3, PanicsTyped DEF MainClosePanics
<1>4. ASSUME MainCollects \/ MainCreates
      PROVE  TInv'
  <2>1. OthersOK'
    BY <1>4 DEF MainCollects, MainCreates, TInv, OthersOK, MainPlaces, switch, outside
  <2>2. HandlersOK'
    BY <1>4 DEF MainCollects, MainCreates, TInv, HandlersOK, locals
  <2>3. TablesOK' /\ IsFiniteSet(Listed)'
    BY <1>4 DEF MainCollects, MainCreates, CollectEntries, CreateFile, TInv, TablesOK, Listed, tables
  <2> QED
    BY <1>4, <2>1, <2>2, <2>3, PartsKept DEF MainCollects, MainCreates, TInv
<1>5. CASE MainWrites
  <2>1. OthersOK'
    BY <1>5 DEF MainWrites, TInv, OthersOK, MainPlaces, switch, outside
  <2>2. HandlersOK'
    BY <1>5, KilledKeeps DEF MainWrites, TInv, locals
  <2>3. TablesOK' /\ IsFiniteSet(Listed)'
    BY <1>5 DEF MainWrites, WriteFile, TInv, TablesOK, Listed, tables
  <2> QED
    BY <1>5, <2>1, <2>2, <2>3, PartsKept DEF MainWrites, TInv
<1>6. CASE Restarts
  <2>1. Elements \subseteq Applies
    BY DEF Elements, TInv, TablesOK
  <2>2. OthersOK'
    <3>1. now' \in Nat
      BY <1>6 DEF Restarts, TInv, OthersOK
    <3>2. {single1', single2', closed', stopping'} \subseteq BOOLEAN
      BY <1>6 DEF Restarts
    <3>3. main' \in MainPlaces /\ UNCHANGED <<overlapped, training, about>>
      BY <1>6 DEF Restarts, MainPlaces
    <3>4. gone' \subseteq Applies
      BY <1>6, <2>1 DEF Restarts, TInv, OthersOK
    <3> QED
      BY <3>1, <3>2, <3>3, <3>4 DEF TInv, OthersOK
  <2>3. HandlersOK'
    BY <1>6 DEF Restarts, TInv, HandlersOK, locals
  <2>4. TablesOK' /\ IsFiniteSet(Listed)'
    BY <1>6, <1>0, <1>f DEF Restarts, Load, TInv, TablesOK, Listed
  <2> QED
    BY <1>6, <2>2, <2>3, <2>4, PartsKept DEF Restarts, TInv
<1> QED
  BY <1>1, <1>2, <1>3, <1>4, <1>5, <1>6 DEF MainNext

-----------------------------------------------------------------------------
(* The types, of the specification *)

(* What changes ids, and what the Training Node has accepted.                *)
LEMMA IdChanges ==
    ASSUME Next
    PROVE  /\ UNCHANGED id \/ (\E a \in Applies : DrawsFirst(a)) \/ (\E r \in Reports : ReportArrives(r))
           /\ UNCHANGED training \/ \E a \in Applies : Sent(a)
<1>1. ASSUME NEW c \in Calls, CallEnters(c) \/ CallIsOver(c) \/ CommandNext(c)
      PROVE  UNCHANGED <<id, training>>
  BY <1>1 DEF CallEnters, CallIsOver, CommandNext, CommandMisses, CommandPanics, Panics, NodeJoins,
     NodeLeaves, NodesChecked, RecordViewed, RecordDeleted, locals, outside
<1>2. ASSUME NEW p \in Handlers, Switches(p)
      PROVE  UNCHANGED <<id, training>>
  BY <1>2 DEF Switches, Counts, Flags, SetSingle1, Loads1, Loads2, Stops, locals, outside
<1>3. ASSUME NEW a \in Applies, ApplyNext(a)
      PROVE  (UNCHANGED id \/ DrawsFirst(a)) /\ (UNCHANGED training \/ Sent(a))
  BY <1>3 DEF ApplyNext, ApplyReadsConfig, DrawsFirst, DrawsRest, DrawPanics, Panics, DrawsStore,
     ApplyDials, ApplyInserts, ApplyGets, ApplySends, ApplyLinks, Asks, Sent, Linked, NotReached,
     ApplyAddsTrain, ApplyAddsData, locals, outside
<1>4. ASSUME NEW r \in Reports, ReportNext(r)
      PROVE  (UNCHANGED id \/ ReportArrives(r)) /\ UNCHANGED training
  BY <1>4 DEF ReportNext, ReportArrives, ReportLooksUp, ReportRecords, ReportPops, ReportGivesBack,
     ReportLeavesTrain, ReportLeavesData, Disconnects, locals, outside
<1>5. ASSUME MainNext \/ Restarts
      PROVE  UNCHANGED <<id, training>>
  BY <1>5 DEF MainNext, MainReturns, MainCancels, MainClosesTasks, MainClosePanics, Panics,
     MainCollects, MainCreates, MainWrites, Restarts, locals, outside
<1> QED
  BY <1>1, <1>2, <1>3, <1>4, <1>5 DEF Next

LEMMA TrainedKeepIds == TInv /\ TrainedHaveIds /\ [Next]_vars => TrainedHaveIds'
<1> SUFFICES ASSUME TInv, TrainedHaveIds, [Next]_vars, NEW b \in training' PROVE id'[b] # None
  BY DEF TrainedHaveIds
<1>1. CASE UNCHANGED <<id, training>>
  BY <1>1 DEF TrainedHaveIds
<1>t. training \subseteq Applies /\ id \in [Handlers -> Optional(IdValues)] /\ Applies \subseteq Handlers
  BY DEF TInv, OthersOK, LocalsOK, Handlers, Calls
<1>2. ASSUME NEW a \in Applies, DrawsFirst(a)
      PROVE  id'[b] # None
  <2>1. NewId(FirstCounter) \in IdValues
    BY <1>2, LenProperties DEF DrawsFirst, TInv, TablesOK, OthersOK, NewId, FirstCounter, IdValues
  <2> QED
    BY <1>2, <1>t, <2>1, IdAssumption DEF DrawsFirst, outside, TrainedHaveIds
<1>3. ASSUME NEW r \in Reports, ReportArrives(r)
      PROVE  id'[b] # None
  BY <1>3, <1>t, Kinds5 DEF ReportArrives, outside, TrainedHaveIds
<1>4. ASSUME NEW a \in Applies, Sent(a)
      PROVE  id'[b] # None
  <2>1. a \in Handlers /\ at[a] \in IdPlaces
    BY <1>4, <1>t DEF Sent, IdPlaces, ApplyPlaces
  <2>2. id[a] # None
    BY <2>1 DEF TInv, HandlersOK
  <2> QED
    BY <1>4, <2>2 DEF Sent, locals, TrainedHaveIds
<1> QED
  BY <1>1, <1>2, <1>3, <1>4, IdChanges DEF vars, locals, outside

LEMMA InitTyped == Init => TInv
<1> SUFFICES ASSUME Init PROVE TInv
  OBVIOUS
<1>1. "new" \in Places /\ "new" \notin ApplyPlaces \cup ReportPlaces \cup IdPlaces \cup ElementPlaces
  BY DEF Places, ApplyPlaces, ReportPlaces, IdPlaces, ElementPlaces
<1>2. HandlersOK
  BY <1>1 DEF Init, HandlersOK
<1>3. OthersOK
  BY DEF Init, OthersOK, MainPlaces, Optional
<1>4. LocalsOK
  BY EmptySeq DEF Init, LocalsOK, Optional
<1>5. FullPool \in Seq(Counters)
  BY IdAssumption DEF FullPool, Counters
<1>6. TablesOK /\ IsFiniteSet(Listed)
  BY <1>5, FS_EmptySet DEF Init, TablesOK, Listed
<1> QED
  BY <1>2, <1>3, <1>4, <1>6 DEF TInv

LEMMA NextTyped == TInv /\ TrainedHaveIds /\ [Next]_vars => TInv'
<1> SUFFICES ASSUME TInv, TrainedHaveIds, [Next]_vars PROVE TInv'
  OBVIOUS
<1>1. CASE UNCHANGED vars
  <2>1. HandlersOK'
    BY <1>1 DEF vars, locals, TInv, HandlersOK
  <2> QED
    BY <1>1, <2>1, PartsKept DEF vars, outside, TInv
<1>2. ASSUME NEW c \in Calls, CallEnters(c) \/ CallIsOver(c) \/ CommandNext(c)
      PROVE  TInv'
  BY <1>2, CallTyped
<1>3. ASSUME NEW p \in Handlers, Switches(p)
      PROVE  TInv'
  BY <1>3, SwitchTyped
<1>4. ASSUME NEW a \in Applies, ApplyNext(a)
      PROVE  TInv'
  BY <1>4, ApplyTyped
<1>5. ASSUME NEW r \in Reports, ReportNext(r)
      PROVE  TInv'
  BY <1>5, ReportTyped
<1>6. ASSUME MainNext \/ Restarts
      PROVE  TInv'
  BY <1>6, MainTyped
<1> QED
  BY <1>1, <1>2, <1>3, <1>4, <1>5, <1>6 DEF Next

LEMMA SpecTyped == Spec => [](TInv /\ TrainedHaveIds)
<1>1. Init => TrainedHaveIds
  BY DEF Init, TrainedHaveIds
<1> QED
  BY <1>1, InitTyped, NextTyped, TrainedKeepIds, PTL DEF Spec

(* Every handler is at a place of its kind, and one that works on an id or   *)
(* on an entry of the table has it, whatever the calls and reports do to the *)
(* table meanwhile.                                                          *)
THEOREM MasterTypesKept == Spec => []TypeOK
<1>1. TInv => TypeOK
  BY DEF TInv, TypeOK, HandlersOK, OthersOK, ControlOK, HasId, HasElement, IdPlaces, ElementPlaces
<1> QED
  BY <1>1, SpecTyped, PTL

-----------------------------------------------------------------------------
(* The table of running tasks *)

(* What changes the table.                                                   *)
LEMMA TableChanges ==
    ASSUME Next
    PROVE  \/ UNCHANGED <<list, gone>>
           \/ \E a \in Applies : ApplyInserts(a)
           \/ \E r \in Reports : ReportPops(r)
           \/ MainClosesTasks \/ Restarts
<1>1. ASSUME NEW c \in Calls, CallEnters(c) \/ CallIsOver(c) \/ CommandNext(c)
      PROVE  UNCHANGED <<list, gone>>
  BY <1>1 DEF CallEnters, CallIsOver, CommandNext, CommandMisses, CommandPanics, Panics, NodeJoins,
     NodeLeaves, NodesChecked, RecordViewed, RecordDeleted, tables, outside
<1>2. ASSUME NEW p \in Handlers, Switches(p)
      PROVE  UNCHANGED <<list, gone>>
  BY <1>2 DEF Switches, Counts, Flags, SetSingle1, Loads1, Loads2, Stops, tables, outside
<1>3. ASSUME NEW a \in Applies, ApplyNext(a)
      PROVE  UNCHANGED <<list, gone>> \/ ApplyInserts(a)
  BY <1>3 DEF ApplyNext, ApplyReadsConfig, DrawsFirst, DrawsRest, DrawPanics, Panics, DrawsStore,
     ApplyDials, ApplyGets, ApplySends, ApplyLinks, Asks, Sent, Linked, NotReached,
     ApplyAddsTrain, ApplyAddsData, tables, outside
<1>4. ASSUME NEW r \in Reports, ReportNext(r)
      PROVE  UNCHANGED <<list, gone>> \/ ReportPops(r)
  BY <1>4 DEF ReportNext, ReportArrives, ReportLooksUp, ReportRecords, ReportGivesBack,
     ReportLeavesTrain, ReportLeavesData, Disconnects, tables, outside
<1>5. ASSUME MainNext
      PROVE  UNCHANGED <<list, gone>> \/ MainClosesTasks
  BY <1>5 DEF MainNext, MainReturns, MainCancels, MainClosePanics, Panics,
     MainCollects, MainCreates, MainWrites, tables, outside
<1> QED
  BY <1>1, <1>2, <1>3, <1>4, <1>5 DEF Next

(* A step of one handler moves no other.                                     *)
LEMMA OneMoves ==
    ASSUME HandlersOK, NEW p, NEW to, Goes(p, to), NEW a \in Handlers, a # p
    PROVE  at'[a] = at[a]
BY DEF HandlersOK, Goes

EntryPlaces == {"get", "send", "sending", "link", "linking", "addTrain", "addData"}

(* An apply comes to work on its entry only by putting it in the table, and  *)
(* keeps its id.                                                             *)
LEMMA EntryBegins ==
    ASSUME TInv, Next, NEW a \in Applies, HasEntry(a)'
    PROVE  UNCHANGED id[a] /\ (HasEntry(a) \/ ApplyInserts(a))
<1>a. a \in Handlers /\ at'[a] \in EntryPlaces /\ HandlersOK /\ id \in [Handlers -> Optional(IdValues)]
  BY DEF Handlers, Calls, HasEntry, EntryPlaces, TInv, LocalsOK
<1>h. HasEntry(a) <=> at[a] \in EntryPlaces
  BY DEF HasEntry, EntryPlaces
<1>f. EntryPlaces \cap ({"enter", "dead"} \cup CheckPlaces \cup Ended \cup ReportPlaces \cup {"first", "rest"}) = {}
  BY DEF EntryPlaces, CheckPlaces, Ended, ReportPlaces
<1>k. at' = Killed => UNCHANGED at[a]
  BY <1>a, <1>f DEF Killed
<1>1. ASSUME NEW c \in Calls, CallEnters(c) \/ CallIsOver(c) \/ CommandNext(c)
      PROVE  UNCHANGED <<id[a], at[a]>>
  <2>1. UNCHANGED id
    BY <1>1 DEF CallEnters, CallIsOver, CommandNext, CommandMisses, CommandPanics, Panics, NodeJoins,
       NodeLeaves, NodesChecked, RecordViewed, RecordDeleted, locals
  <2>2. at' = Killed \/ \E to \in {"enter"} \cup Ended : Goes(c, to)
    BY <1>1 DEF CallEnters, CallIsOver, CommandNext, CommandMisses, CommandPanics, Panics, NodeJoins,
       NodeLeaves, NodesChecked, RecordViewed, RecordDeleted, Ended
  <2>3. CASE at' = Killed
    BY <2>1, <2>3, <1>k
  <2>4. ASSUME NEW to \in {"enter"} \cup Ended, Goes(c, to)
        PROVE  UNCHANGED at[a]
    <3>1. c \in Handlers /\ at'[c] = to
      BY <2>4, <1>a DEF Handlers, HandlersOK, Goes
    <3> QED
      BY <3>1, <2>4, <1>a, <1>f, OneMoves
  <2> QED
    BY <2>1, <2>2, <2>3, <2>4
<1>2. ASSUME NEW p \in Handlers, Switches(p)
      PROVE  UNCHANGED <<id[a], at[a]>>
  <2>1. UNCHANGED id
    BY <1>2 DEF Switches, Counts, Flags, SetSingle1, Loads1, Loads2, Stops, locals
  <2>2. PICK to \in CheckPlaces \cup Ended : Goes(p, to)
    BY <1>2 DEF Switches, Counts, Flags, SetSingle1, Loads1, Loads2, Stops, AfterSwitch, CheckPlaces, Ended
  <2>3. at'[p] = to
    BY <2>2, <1>a DEF HandlersOK, Goes
  <2> QED
    BY <2>1, <2>2, <2>3, <1>a, <1>f, OneMoves
<1>3. ASSUME NEW b \in Applies, ApplyNext(b)
      PROVE  UNCHANGED id[a] /\ (at[a] \in EntryPlaces \/ ApplyInserts(a))
  <2>b. b \in Handlers
    BY DEF Handlers, Calls
  <2>1. CASE DrawPanics(b)
    BY <2>1, <1>k, <1>a DEF DrawPanics, Panics, locals
  <2>2. ASSUME ~DrawPanics(b)
        PROVE  /\ \E to : Goes(b, to)
               /\ \A to : Goes(b, to) /\ to \in EntryPlaces => at[b] \in EntryPlaces \/ ApplyInserts(b)
               /\ UNCHANGED id \/ DrawsFirst(b)
    <3>1. \A to : Goes(b, to) => to = at'[b]
      BY <2>b, <1>a DEF HandlersOK, Goes
    <3>2. CASE at[b] \in EntryPlaces \/ ApplyInserts(b)
      BY <2>2, <1>3, <3>2 DEF ApplyNext, ApplyReadsConfig, DrawsFirst, DrawsRest, DrawsStore,
         ApplyDials, ApplyInserts, ApplyGets, ApplySends, ApplyLinks, Asks, Sent, Linked, NotReached,
         ApplyAddsTrain, ApplyAddsData, locals
    <3>3. CASE at[b] \notin EntryPlaces /\ ~ApplyInserts(b)
      <4>1. PICK to \in {"first", "failed", "rest", "store", "dial", "insert"} :
                Goes(b, to) /\ (UNCHANGED id \/ DrawsFirst(b))
        BY <2>2, <1>3, <3>3 DEF ApplyNext, ApplyReadsConfig, DrawsFirst, DrawsRest, DrawsStore,
           ApplyDials, ApplyGets, ApplySends, ApplyLinks, Asks, Sent, Linked, NotReached,
           ApplyAddsTrain, ApplyAddsData, locals, EntryPlaces
      <4> QED
        BY <4>1, <3>1 DEF EntryPlaces
    <3> QED
      BY <3>2, <3>3
  <2>3. CASE ~DrawPanics(b) /\ a # b
    <3>1. UNCHANGED at[a]
      BY <2>2, <2>3, <1>a, OneMoves
    <3>2. UNCHANGED id[a]
      BY <2>2, <2>3, <1>a DEF DrawsFirst
    <3> QED
      BY <3>1, <3>2, <1>a
  <2>4. CASE ~DrawPanics(b) /\ a = b
    <3>1. PICK to : Goes(b, to)
      BY <2>2, <2>4
    <3>2. to = at'[b]
      BY <3>1, <2>b, <1>a DEF HandlersOK, Goes
    <3>3. ~DrawsFirst(b)
      BY <3>1, <3>2, <2>4, <2>b, <1>a, <1>f DEF DrawsFirst, Goes, HandlersOK
    <3> QED
      BY <2>2, <2>4, <3>1, <3>2, <3>3, <1>a
  <2> QED
    BY <2>1, <2>3, <2>4
<1>4. ASSUME NEW r \in Reports, ReportNext(r)
      PROVE  UNCHANGED <<id[a], at[a]>>
  <2>1. a # r
    BY Kinds5
  <2>2. \E to : Goes(r, to)
    BY <1>4 DEF ReportNext, ReportArrives, ReportLooksUp, ReportRecords, ReportPops, ReportGivesBack,
       ReportLeavesTrain, ReportLeavesData, Disconnects
  <2>3. UNCHANGED id \/ ReportArrives(r)
    BY <1>4 DEF ReportNext, ReportLooksUp, ReportRecords, ReportPops, ReportGivesBack,
       ReportLeavesTrain, ReportLeavesData, Disconnects, locals
  <2>4. UNCHANGED id[a]
    BY <2>1, <2>3, <1>a DEF ReportArrives
  <2> QED
    BY <2>1, <2>2, <2>4, <1>a, OneMoves
<1>5. ASSUME MainNext \/ Restarts
      PROVE  UNCHANGED <<id[a], at[a]>>
  <2>1. UNCHANGED id /\ (UNCHANGED at \/ at' = Killed)
    BY <1>5 DEF MainNext, MainReturns, MainCancels, MainClosesTasks, MainClosePanics, Panics,
       MainCollects, MainCreates, MainWrites, Restarts, locals
  <2> QED
    BY <2>1, <1>k
<1> QED
  BY <1>1, <1>2, <1>3, <1>4, <1>5, <1>a, <1>h DEF Next

LEMMA EntryKept == TInv /\ ApplyKeepsItsEntry /\ [Next]_vars => ApplyKeepsItsEntry'
<1> SUFFICES ASSUME TInv, ApplyKeepsItsEntry, [Next]_vars,
                    NEW a \in Applies, HasEntry(a)', a \notin gone'
             PROVE  id'[a] \in Listed' /\ list'[id'[a]] = a
  BY DEF ApplyKeepsItsEntry, HasEntry
<1>1. CASE UNCHANGED vars
  BY <1>1 DEF vars, tables, locals, outside, ApplyKeepsItsEntry, HasEntry, Listed
<1>2. CASE Next
  <2>1. UNCHANGED id[a] /\ (HasEntry(a) \/ ApplyInserts(a))
    BY <1>2, EntryBegins
  <2>2. HasEntry(a) /\ a \notin gone => id[a] \in Listed /\ list[id[a]] = a
    BY DEF ApplyKeepsItsEntry
  <2>3. CASE UNCHANGED <<list, gone>> /\ ~ApplyInserts(a)
    BY <2>1, <2>2, <2>3 DEF Listed
  <2>4. ASSUME NEW b \in Applies, ApplyInserts(b)
        PROVE  id'[a] \in Listed' /\ list'[id'[a]] = a
    <3>1. UNCHANGED gone
      BY <2>4 DEF ApplyInserts, outside
    <3>2. CASE UNCHANGED list
      <4>1. HasEntry(a)
        <5>1. CASE ApplyInserts(a)
          <6>1. id[a] \in Listed
            BY <3>2, <5>1 DEF ApplyInserts, Put, Listed
          <6>2. at'[a] = "failed"
            BY <5>1, <6>1 DEF ApplyInserts, Goes, TInv, HandlersOK, Handlers, Calls
          <6> QED
            BY <6>2 DEF HasEntry
        <5> QED
          BY <5>1, <2>1
      <4> QED
        BY <4>1, <2>1, <2>2, <3>1, <3>2 DEF Listed
    <3>3. CASE list' = Put(id[b], b) /\ id[b] \notin Listed
      <4>1. Listed' = Listed \cup {id[b]}
        BY <3>3 DEF Put, Listed
      <4>2. \A i \in Listed' : list'[i] = IF i = id[b] THEN b ELSE list[i]
        BY <3>3, <4>1 DEF Put, Listed
      <4>3. CASE a = b
        BY <4>1, <4>2, <4>3, <2>1
      <4>4. CASE a # b
        <5>1. at'[b] = "get" /\ at[b] = "insert" /\ at'[a] = at[a]
          BY <2>4, <3>3, <4>4, OneMoves DEF ApplyInserts, Goes, TInv, HandlersOK, Handlers, Calls
        <5>2. HasEntry(a)
          BY <5>1 DEF HasEntry
        <5> QED
          BY <5>2, <2>1, <2>2, <3>1, <3>3, <4>1, <4>2
      <4> QED
        BY <4>3, <4>4
    <3> QED
      BY <2>4, <3>2, <3>3 DEF ApplyInserts
  <2>5. ASSUME NEW r \in Reports, ReportPops(r)
        PROVE  id'[a] \in Listed' /\ list'[id'[a]] = a
    <3>1. HasEntry(a)
      <4>1. at'[a] = at[a]
        BY <2>5, OneMoves, Kinds5 DEF ReportPops, TInv, HandlersOK, Handlers, Calls
      <4> QED
        BY <4>1 DEF HasEntry
    <3>2. a \notin gone /\ a \notin {list[i] : i \in Listed \cap {id[r]}}
      BY <2>5 DEF ReportPops
    <3>3. id[a] \in Listed \ {id[r]}
      BY <3>1, <3>2, <2>2
    <3> QED
      BY <2>1, <2>2, <2>5, <3>1, <3>2, <3>3 DEF ReportPops, Drop, Listed
  <2>6. ASSUME MainClosesTasks \/ Restarts
        PROVE  id'[a] \in Listed' /\ list'[id'[a]] = a
    <3>1. HasEntry(a)
      <4>1. at' = at
        BY <2>6 DEF MainClosesTasks, Restarts
      <4> QED
        BY <4>1 DEF HasEntry
    <3>2. a \notin gone /\ a \notin Elements
      BY <2>6 DEF MainClosesTasks, Restarts
    <3> QED
      BY <3>1, <3>2, <2>2 DEF Elements
  <2> QED
    BY <1>2, <2>3, <2>4, <2>5, <2>6, TableChanges
<1> QED
  BY <1>1, <1>2

(* Although GetId may give one id to two applies, no apply ever finds its    *)
(* entry missing or replaced by that of another, unless a report or the end  *)
(* of the process has taken it out.                                          *)
THEOREM EntryIsTheCallersOwn == Spec => []ApplyKeepsItsEntry
<1>1. Init => ApplyKeepsItsEntry
  BY DEF Init, ApplyKeepsItsEntry, HasEntry, Handlers, Calls
<1> QED
  BY <1>1, SpecTyped, EntryKept, PTL DEF Spec

(* An accepted task has been in the table, and is there unless it was taken  *)
(* out.                                                                      *)
AcceptedKnown == training \subseteq gone \cup Elements

LEMMA AcceptedKept ==
    TInv /\ ApplyKeepsItsEntry /\ AcceptedKnown /\ [Next]_vars => AcceptedKnown'
<1> SUFFICES ASSUME TInv, ApplyKeepsItsEntry, AcceptedKnown, [Next]_vars
             PROVE  AcceptedKnown'
  OBVIOUS
<1>1. CASE UNCHANGED vars
  BY <1>1 DEF vars, tables, outside, AcceptedKnown, Elements, Listed
<1>2. CASE Next
  <2>1. gone \cup Elements \subseteq gone' \cup Elements'
    <3>1. CASE UNCHANGED <<list, gone>>
      BY <3>1 DEF Elements, Listed
    <3>2. ASSUME NEW b \in Applies, ApplyInserts(b), ~UNCHANGED list
          PROVE  gone \cup Elements \subseteq gone' \cup Elements'
      <4>1. list' = Put(id[b], b) /\ id[b] \notin Listed /\ UNCHANGED gone
        BY <3>2 DEF ApplyInserts, outside
      <4>2. \A i \in Listed : i \in Listed' /\ list'[i] = list[i]
        BY <4>1 DEF Put, Listed
      <4> QED
        BY <4>1, <4>2 DEF Elements
    <3>3. ASSUME NEW r \in Reports, ReportPops(r)
          PROVE  gone \cup Elements \subseteq gone' \cup Elements'
      <4>1. gone' = gone \cup {list[i] : i \in Listed \cap {id[r]}} /\ list' = Drop(id[r])
        BY <3>3 DEF ReportPops
      <4>2. \A i \in Listed : i = id[r] \/ (i \in Listed' /\ list'[i] = list[i])
        BY <4>1 DEF Drop, Listed
      <4> QED
        BY <4>1, <4>2 DEF Elements
    <3>4. ASSUME MainClosesTasks \/ Restarts
          PROVE  gone \cup Elements \subseteq gone' \cup Elements'
      BY <3>4 DEF MainClosesTasks, Restarts
    <3>5. ASSUME NEW b \in Applies, ApplyInserts(b)
          PROVE  UNCHANGED gone
      BY <3>5 DEF ApplyInserts, outside
    <3> QED
      BY <1>2, <3>1, <3>2, <3>3, <3>4, <3>5, TableChanges
  <2>2. ASSUME NEW a \in Applies, Sent(a)
        PROVE  a \in gone \cup Elements
    BY <2>2 DEF Sent, ApplyKeepsItsEntry, HasEntry, Elements
  <2>3. ASSUME NEW b \in training'
        PROVE  b \in gone \cup Elements
    <3>1. b \in training \/ \E a \in Applies : Sent(a) /\ b = a
      BY <1>2, <2>3, IdChanges DEF Sent
    <3> QED
      BY <3>1, <2>2 DEF AcceptedKnown
  <2> QED
    BY <2>1, <2>3 DEF AcceptedKnown
<1> QED
  BY <1>1, <1>2

-----------------------------------------------------------------------------
(* The pool *)

Distinct(s) == \A j, k \in DOMAIN s : s[j] = s[k] => j = k

(* A caller of GetId writes back what it has read, so that must be without   *)
(* repetition as well.                                                       *)
PoolInv == Distinct(pool) /\ \A a \in Applies : Distinct(rest[a])

LEMMA TailDistinct ==
    ASSUME NEW S, NEW s \in Seq(S), s # <<>>, Distinct(s)
    PROVE  Distinct(Tail(s))
<1>1. /\ Len(s) \in Nat \ {0} /\ DOMAIN s = 1 .. Len(s)
      /\ Tail(s) \in Seq(S) /\ DOMAIN Tail(s) = 1 .. (Len(s) - 1)
      /\ \A i \in 1 .. (Len(s) - 1) : Tail(s)[i] = s[i + 1]
  BY HeadTailProperties, LenProperties, EmptySeq
<1> QED
  BY <1>1 DEF Distinct

LEMMA PoolChanges ==
    ASSUME Next
    PROVE  \/ UNCHANGED <<pool, rest>>
           \/ \E a \in Applies : DrawsRest(a) \/ DrawsStore(a)
           \/ Restarts
<1>1. ASSUME NEW c \in Calls, CallEnters(c) \/ CallIsOver(c) \/ CommandNext(c)
      PROVE  UNCHANGED <<pool, rest>>
  BY <1>1 DEF CallEnters, CallIsOver, CommandNext, CommandMisses, CommandPanics, Panics, NodeJoins,
     NodeLeaves, NodesChecked, RecordViewed, RecordDeleted, tables, locals
<1>2. ASSUME NEW p \in Handlers, Switches(p)
      PROVE  UNCHANGED <<pool, rest>>
  BY <1>2 DEF Switches, Counts, Flags, SetSingle1, Loads1, Loads2, Stops, tables, locals
<1>3. ASSUME NEW a \in Applies, ApplyNext(a)
      PROVE  UNCHANGED <<pool, rest>> \/ DrawsRest(a) \/ DrawsStore(a)
  BY <1>3 DEF ApplyNext, ApplyReadsConfig, DrawsFirst, DrawPanics, Panics,
     ApplyDials, ApplyInserts, ApplyGets, ApplySends, ApplyLinks, Asks, Sent, Linked, NotReached,
     ApplyAddsTrain, ApplyAddsData, tables, locals
<1>4. ASSUME NEW r \in Reports, ReportNext(r)
      PROVE  UNCHANGED <<pool, rest>>
  BY <1>4, NothingGivenBack DEF ReportNext, ReportArrives, ReportLooksUp, ReportRecords, ReportPops,
     ReportGivesBack, ReportLeavesTrain, ReportLeavesData, Disconnects, tables, locals
<1>5. ASSUME MainNext
      PROVE  UNCHANGED <<pool, rest>>
  BY <1>5 DEF MainNext, MainReturns, MainCancels, MainClosesTasks, MainClosePanics, Panics,
     MainCollects, MainCreates, MainWrites, tables, locals
<1> QED
  BY <1>1, <1>2, <1>3, <1>4, <1>5 DEF Next

LEMMA FullPoolDistinct == Distinct(FullPool)
BY IdAssumption DEF Distinct, FullPool

LEMMA PoolKept == TInv /\ PoolInv /\ [Next]_vars => PoolInv'
<1> SUFFICES ASSUME TInv, PoolInv, [Next]_vars PROVE PoolInv'
  OBVIOUS
<1>r. rest \in [Applies -> Seq(Counters)] /\ pool \in Seq(Counters)
  BY DEF TInv, LocalsOK, TablesOK
<1>1. CASE UNCHANGED <<pool, rest>>
  BY <1>1 DEF PoolInv, Distinct
<1>2. ASSUME NEW a \in Applies, DrawsRest(a)
      PROVE  PoolInv'
  <2>1. Distinct(Tail(pool))
    BY <1>2, <1>r, TailDistinct DEF DrawsRest, PoolInv
  <2>2. rest' = [rest EXCEPT ![a] = Tail(pool)] /\ pool' = pool
    BY <1>2 DEF DrawsRest, RestOfPool, tables
  <2>3. \A b \in Applies : Distinct(rest'[b])
    BY <2>1, <2>2, <1>r DEF PoolInv
  <2> QED
    BY <2>2, <2>3 DEF PoolInv, Distinct
<1>3. ASSUME NEW a \in Applies, DrawsStore(a)
      PROVE  PoolInv'
  <2>1. rest' = [rest EXCEPT ![a] = <<>>] /\ pool' = rest[a]
    BY <1>3 DEF DrawsStore
  <2>2. Distinct(<<>>)
    BY DEF Distinct
  <2>3. \A b \in Applies : Distinct(rest'[b])
    BY <2>1, <2>2, <1>r DEF PoolInv
  <2> QED
    BY <2>1, <2>3 DEF PoolInv, Distinct
<1>4. CASE Restarts
  <2>1. pool' = FullPool /\ rest' = rest
    BY <1>4 DEF Restarts, locals
  <2> QED
    BY <2>1, FullPoolDistinct DEF PoolInv, Distinct
<1> QED
  BY <1>1, <1>2, <1>3, <1>4, PoolChanges DEF vars, tables, locals

LEMMA PoolInitially == Init => PoolInv
<1>1. Distinct(<<>>)
  BY DEF Distinct
<1> QED
  BY <1>1, FullPoolDistinct DEF Init, PoolInv

-----------------------------------------------------------------------------
(* The end of the process *)

(* The places of a handler that is about to stop the server.                 *)
StopPlaces == {"load2", "set2", "stop", "setStop"}

(* How a step moves a handler: only one that has begun, or begins.           *)
Moves(p) ==
    \E to \in Places :
        /\ Goes(p, to) /\ to # "new"
        /\ Active(p) \/ (p \in Calls /\ CallEnters(p)) \/ (p \in Reports /\ ReportArrives(p))
        /\ to \in StopPlaces => Loads1(p) \/ Loads2(p)

LEMMA StepMoves ==
    ASSUME Next
    PROVE  UNCHANGED at \/ at' = Killed \/ \E p \in Handlers : Moves(p)
<1>h. Calls \subseteq Handlers /\ Applies \subseteq Handlers /\ Reports \subseteq Handlers
  BY DEF Handlers, Calls
<1> DEFINE Quiet == Places \ (StopPlaces \cup {"new"})
<1>q. ({"enter", "count", "flag", "load1", "set1"} \cup Ended \cup ApplyPlaces \cup ReportPlaces) \subseteq Quiet
  BY DEF Places, CheckPlaces, StopPlaces, Ended, ApplyPlaces, ReportPlaces
<1>s. StopPlaces \subseteq Places /\ "new" \notin StopPlaces
  BY DEF Places, CheckPlaces, StopPlaces
<1>1. ASSUME NEW c \in Calls, CallEnters(c) \/ CallIsOver(c) \/ CommandNext(c)
      PROVE  at' = Killed \/ Moves(c)
  <2>1. CASE CommandPanics(c)
    BY <2>1 DEF CommandPanics, Panics
  <2>2. CASE CallEnters(c)
    BY <2>2, <1>q DEF CallEnters, Moves
  <2>3. CASE ~CommandPanics(c) /\ ~CallEnters(c)
    <3>1. at[c] = "enter" /\ \E to \in Ended : Goes(c, to)
      BY <1>1, <2>3 DEF CallIsOver, CommandNext, CommandMisses, NodeJoins, NodeLeaves, NodesChecked, RecordViewed, RecordDeleted, Ended
    <3>2. Active(c)
      BY <3>1 DEF Active, Ended
    <3> QED
      BY <3>1, <3>2, <1>q DEF Moves
  <2> QED
    BY <2>1, <2>2, <2>3
<1>2. ASSUME NEW p \in Handlers, Switches(p)
      PROVE  Moves(p)
  <2>1. Active(p)
    BY <1>2 DEF Switches, Counts, Flags, SetSingle1, Loads1, Loads2, Stops, Active, Ended
  <2>a. AfterSwitch(p) \in Quiet
    BY <1>q DEF AfterSwitch, Ended
  <2>2. CASE Loads1(p) \/ Loads2(p)
    <3>1. \E to \in Quiet \cup StopPlaces : Goes(p, to)
      BY <2>2, <2>a DEF Loads1, Loads2, StopPlaces
    <3> QED
      BY <3>1, <2>1, <2>2, <1>s DEF Moves
  <2>3. CASE ~Loads1(p) /\ ~Loads2(p)
    <3>1. \E to \in Quiet : Goes(p, to)
      BY <1>2, <2>3, <2>a, <1>q DEF Switches, Counts, Flags, SetSingle1, Stops
    <3> QED
      BY <3>1, <2>1 DEF Moves
  <2> QED
    BY <2>2, <2>3
<1>3. ASSUME NEW a \in Applies, ApplyNext(a)
      PROVE  at' = Killed \/ Moves(a)
  <2>1. CASE DrawPanics(a)
    BY <2>1 DEF DrawPanics, Panics
  <2>2. CASE ~DrawPanics(a)
    <3>1. Active(a)
      BY <1>3, <2>2 DEF ApplyNext, ApplyReadsConfig, DrawsFirst, DrawsRest, DrawsStore, ApplyDials,
         ApplyInserts, ApplyGets, ApplySends, ApplyLinks, Asks, Sent, Linked, NotReached,
         ApplyAddsTrain, ApplyAddsData, Active, Ended
    <3>2. \E to \in ApplyPlaces \cup {"count", "failed"} : Goes(a, to)
      BY <1>3, <2>2 DEF ApplyNext, ApplyReadsConfig, DrawsFirst, DrawsRest, DrawsStore, ApplyDials,
         ApplyInserts, ApplyGets, ApplySends, ApplyLinks, Asks, Sent, Linked, NotReached,
         ApplyAddsTrain, ApplyAddsData, ApplyPlaces
    <3>3. \A to \in ApplyPlaces \cup {"count", "failed"} : to \in Quiet
      BY <1>q DEF Ended
    <3> QED
      BY <3>1, <3>2, <3>3 DEF Moves
  <2> QED
    BY <2>1, <2>2
<1>4. ASSUME NEW r \in Reports, ReportNext(r)
      PROVE  Moves(r)
  <2>1. Active(r) \/ ReportArrives(r)
    BY <1>4 DEF ReportNext, ReportLooksUp, ReportRecords, ReportPops, ReportGivesBack,
       ReportLeavesTrain, ReportLeavesData, Disconnects, Active, Ended
  <2>2. \E to \in ReportPlaces \cup {"count", "done"} : Goes(r, to)
    BY <1>4 DEF ReportNext, ReportArrives, ReportLooksUp, ReportRecords, ReportPops, ReportGivesBack,
       ReportLeavesTrain, ReportLeavesData, Disconnects, ReportPlaces
  <2>3. \A to \in ReportPlaces \cup {"count", "done"} : to \in Quiet
    BY <1>q DEF Ended
  <2> QED
    BY <2>1, <2>2, <2>3 DEF Moves
<1>5. ASSUME MainNext \/ Restarts
      PROVE  UNCHANGED at \/ at' = Killed
  BY <1>5 DEF MainNext, MainReturns, MainCancels, MainClosesTasks, MainClosePanics, Panics,
     MainCollects, MainCreates, MainWrites, Restarts
<1> QED
  BY <1>1, <1>2, <1>3, <1>4, <1>5, <1>h DEF Next

(* A call that is not in progress begins only while the server accepts it,   *)
(* and nothing that has begun is new again.                                  *)
LEMMA CallsBegin ==
    ASSUME TInv, Next, NEW c \in Calls
    PROVE  /\ ~Active(c) /\ ~Serving => UNCHANGED at[c]
           /\ at[c] # "new" => at'[c] # "new"
<1>c. c \in Handlers /\ HandlersOK /\ c \notin Reports
  BY Kinds5 DEF Handlers, TInv, Calls
<1>1. CASE UNCHANGED at
  BY <1>1
<1>2. CASE at' = Killed
  BY <1>2, <1>c DEF Killed
<1>3. ASSUME NEW p \in Handlers, Moves(p)
      PROVE  /\ ~Active(c) /\ ~Serving => UNCHANGED at[c]
             /\ at[c] # "new" => at'[c] # "new"
  <2>1. PICK to \in Places : Goes(p, to) /\ to # "new"
    BY <1>3 DEF Moves
  <2>2. CASE c # p
    BY <2>1, <2>2, <1>c, OneMoves
  <2>3. CASE c = p
    <3>1. at'[c] = to
      BY <2>1, <2>3, <1>c DEF Goes, HandlersOK
    <3>2. Active(c) \/ CallEnters(c)
      BY <1>3, <2>3, <1>c DEF Moves
    <3>3. CallEnters(c) => Serving
      BY DEF CallEnters
    <3> QED
      BY <2>1, <3>1, <3>2, <3>3
  <2> QED
    BY <2>2, <2>3
<1> QED
  BY <1>1, <1>2, <1>3, StepMoves

LEMMA StaysDrained == TInv /\ Drained /\ ~Serving /\ Next => Drained'
<1> SUFFICES ASSUME TInv, Drained, ~Serving, Next, NEW c \in Calls PROVE ~Active(c)'
  BY DEF Drained
<1>1. UNCHANGED at[c]
  BY CallsBegin DEF Drained
<1> QED
  BY <1>1 DEF Drained, Active

(* What changes the registry and its file.                                   *)
LEMMA RegistryChanges ==
    ASSUME Next, Drained
    PROVE  UNCHANGED persist \/ MainCollects \/ MainCreates \/ MainWrites \/ Restarts
<1>1. ASSUME NEW c \in Calls, CallEnters(c) \/ CallIsOver(c) \/ CommandNext(c)
      PROVE  UNCHANGED persist
  <2>1. ~Active(c)
    BY DEF Drained
  <2> QED
    BY <1>1, <2>1 DEF CallEnters, CallIsOver, CommandNext, CommandMisses, CommandPanics, Panics, NodeJoins,
       NodeLeaves, NodesChecked, RecordViewed, RecordDeleted, Active, Ended
<1>2. ASSUME NEW p \in Handlers, Switches(p)
      PROVE  UNCHANGED persist
  BY <1>2 DEF Switches, Counts, Flags, SetSingle1, Loads1, Loads2, Stops
<1>3. ASSUME NEW a \in Applies, ApplyNext(a)
      PROVE  UNCHANGED persist
  <2>1. ~Active(a)
    BY DEF Drained, Calls
  <2> QED
    BY <1>3, <2>1 DEF ApplyNext, ApplyReadsConfig, DrawsFirst, DrawsRest, DrawPanics, Panics, DrawsStore,
       ApplyDials, ApplyInserts, ApplyGets, ApplySends, ApplyLinks, Asks, Sent, Linked, NotReached,
       ApplyAddsTrain, ApplyAddsData, Active, Ended
<1>4. ASSUME NEW r \in Reports, ReportNext(r)
      PROVE  UNCHANGED persist
  BY <1>4 DEF ReportNext, ReportArrives, ReportLooksUp, ReportRecords, ReportPops, ReportGivesBack,
     ReportLeavesTrain, ReportLeavesData, Disconnects
<1>5. ASSUME MainNext
      PROVE  UNCHANGED persist \/ MainCollects \/ MainCreates \/ MainWrites
  BY <1>5 DEF MainNext, MainReturns, MainCancels, MainClosesTasks, MainClosePanics, Panics
<1> QED
  BY <1>1, <1>2, <1>3, <1>4, <1>5 DEF Next

(* Once Run has returned no call is in progress, so what Save has collected  *)
(* is still the registry when it is written.                                 *)
EndInv ==
    /\ main \in {"cancel", "close", "save", "create", "write", "down"} => Drained
    /\ main \in {"create", "write"} => entries = nodes
    /\ main = "down" => file = nodes

LEMMA MainChanges ==
    ASSUME Next, main' # main
    PROVE  MainNext \/ Restarts \/ main' = "crashed"
<1>1. ASSUME NEW c \in Calls, CallEnters(c) \/ CallIsOver(c) \/ CommandNext(c)
      PROVE  main' = "crashed"
  BY <1>1 DEF CallEnters, CallIsOver, CommandNext, CommandMisses, CommandPanics, Panics, NodeJoins,
     NodeLeaves, NodesChecked, RecordViewed, RecordDeleted
<1>2. ASSUME NEW p \in Handlers, Switches(p)
      PROVE  FALSE
  BY <1>2 DEF Switches, Counts, Flags, SetSingle1, Loads1, Loads2, Stops
<1>3. ASSUME NEW a \in Applies, ApplyNext(a)
      PROVE  main' = "crashed"
  BY <1>3 DEF ApplyNext, ApplyReadsConfig, DrawsFirst, DrawsRest, DrawPanics, Panics, DrawsStore,
     ApplyDials, ApplyInserts, ApplyGets, ApplySends, ApplyLinks, Asks, Sent, Linked, NotReached,
     ApplyAddsTrain, ApplyAddsData
<1>4. ASSUME NEW r \in Reports, ReportNext(r)
      PROVE  FALSE
  BY <1>4 DEF ReportNext, ReportArrives, ReportLooksUp, ReportRecords, ReportPops, ReportGivesBack,
     ReportLeavesTrain, ReportLeavesData, Disconnects
<1> QED
  BY <1>1, <1>2, <1>3, <1>4 DEF Next

LEMMA EndKept == TInv /\ EndInv /\ [Next]_vars => EndInv'
<1> SUFFICES ASSUME TInv, EndInv, [Next]_vars PROVE EndInv'
  OBVIOUS
<1>1. CASE UNCHANGED vars
  BY <1>1 DEF vars, persist, EndInv, Drained, Active
<1>2. CASE Next /\ UNCHANGED main
  <2>1. main \in {"cancel", "close", "save", "create", "write", "down"} => ~Serving
    BY DEF Serving
  <2>2. ~Restarts /\ ~MainCollects /\ ~MainCreates /\ ~MainWrites
    BY <1>2 DEF Restarts, MainCollects, MainCreates, MainWrites
  <2>3. CASE main \in {"cancel", "close", "save", "create", "write", "down"}
    <3>1. Drained' /\ UNCHANGED persist
      BY <1>2, <2>1, <2>2, <2>3, StaysDrained, RegistryChanges DEF EndInv
    <3> QED
      BY <1>2, <2>3, <3>1 DEF EndInv, persist
  <2>4. CASE main \notin {"cancel", "close", "save", "create", "write", "down"}
    BY <1>2, <2>4 DEF EndInv
  <2> QED
    BY <2>3, <2>4
<1>3. CASE Next /\ main' = "crashed"
  BY <1>3 DEF EndInv
<1>4. CASE Restarts
  BY <1>4 DEF Restarts, EndInv
<1>5. CASE MainNext
  <2>1. CASE MainReturns \/ MainCancels \/ MainClosesTasks
    <3>1. Drained /\ UNCHANGED at /\ main' \in {"cancel", "close", "save"}
      BY <2>1 DEF MainReturns, MainCancels, MainClosesTasks, EndInv
    <3> QED
      BY <3>1 DEF EndInv, Drained, Active
  <2>2. CASE MainClosePanics
    BY <2>2 DEF MainClosePanics, Panics, EndInv
  <2>3. CASE MainCollects
    <3>1. Drained /\ UNCHANGED <<at, nodes>> /\ main' = "create" /\ entries' = nodes
      BY <2>3 DEF MainCollects, CollectEntries, EndInv
    <3> QED
      BY <3>1 DEF EndInv, Drained, Active
  <2>4. CASE MainCreates
    <3>1. Drained /\ UNCHANGED <<at, nodes, entries>> /\ main' = "write" /\ entries = nodes
      BY <2>4 DEF MainCreates, EndInv
    <3> QED
      BY <3>1 DEF EndInv, Drained, Active
  <2>5. CASE MainWrites
    <3>1. Drained /\ UNCHANGED nodes /\ main' = "down" /\ file' = nodes
      BY <2>5 DEF MainWrites, WriteFile, EndInv
    <3>2. \A c \in Calls : at'[c] = at[c]
      BY <2>5, <3>1 DEF MainWrites, Killed, Drained, Handlers
    <3> QED
      BY <3>1, <3>2 DEF EndInv, Drained, Active
  <2> QED
    BY <1>5, <2>1, <2>2, <2>3, <2>4, <2>5 DEF MainNext
<1> QED
  BY <1>1, <1>2, <1>3, <1>4, <1>5, MainChanges

(* A Master that ends in order leaves its registry in its file, whatever     *)
(* calls were on their way when it was told to stop.                         *)
THEOREM RegistrySaved == Spec => []SavedOnExit
<1>1. Init => EndInv
  BY DEF Init, EndInv
<1>2. EndInv => SavedOnExit
  BY DEF EndInv, SavedOnExit
<1> QED
  BY <1>1, <1>2, SpecTyped, EndKept, PTL DEF Spec

ExitBegun == \E x \in Exits : at[x] # "new"

(* Nobody is about to stop the server before a console has said Exit.        *)
StopInv == ExitBegun \/ (single1 /\ ~stopping /\ \A p \in Handlers : at[p] \notin StopPlaces)

LEMMA StopKept == TInv /\ StopInv /\ [Next]_vars => StopInv'
<1> SUFFICES ASSUME TInv, StopInv, [Next]_vars PROVE StopInv'
  OBVIOUS
<1>1. CASE UNCHANGED vars
  BY <1>1 DEF vars, switch, StopInv, ExitBegun
<1>2. CASE Next /\ ExitBegun
  <2>1. PICK x \in Exits : at[x] # "new"
    BY <1>2 DEF ExitBegun
  <2>2. at'[x] # "new"
    BY <1>2, <2>1, CallsBegin DEF Calls
  <2> QED
    BY <2>2 DEF StopInv, ExitBegun
<1>3. CASE Next /\ ~ExitBegun
  <2>1. single1 /\ ~stopping /\ \A p \in Handlers : at[p] \notin StopPlaces
    BY <1>3 DEF StopInv
  <2>2. \A p \in Handlers : ~Loads2(p)
    BY <2>1 DEF Loads2, StopPlaces
  <2>3. \A p \in Handlers : Loads1(p) => Goes(p, AfterSwitch(p))
    BY <2>1 DEF Loads1
  <2>4. \A p \in Handlers : AfterSwitch(p) \notin StopPlaces
    BY DEF AfterSwitch, StopPlaces
  <2>5. single1' /\ ~stopping'
    <3>1. ASSUME NEW c \in Calls, CallEnters(c) \/ CallIsOver(c) \/ CommandNext(c)
          PROVE  UNCHANGED <<single1, stopping>>
      BY <3>1 DEF CallEnters, CallIsOver, CommandNext, CommandMisses, CommandPanics, Panics, NodeJoins,
         NodeLeaves, NodesChecked, RecordViewed, RecordDeleted, switch
    <3>2. ASSUME NEW p \in Handlers, Switches(p)
          PROVE  single1' /\ ~stopping'
      <4>1. CASE Counts(p) \/ Flags(p) \/ Loads1(p)
        <5>1. single1' = single1 /\ stopping' = stopping
          BY <4>1 DEF Counts, Flags, Loads1, switch
        <5> QED
          BY <5>1, <2>1
      <4>2. CASE SetSingle1(p)
        <5>1. p \in Attaches
          BY <1>3, <4>2 DEF SetSingle1, ExitBegun
        <5>2. single1' = (p \in Attaches) /\ stopping' = stopping
          BY <4>2 DEF SetSingle1
        <5> QED
          BY <5>1, <5>2, <2>1
      <4>3. ~Loads2(p) /\ ~Stops(p)
        BY <2>1, <2>2 DEF Stops, StopPlaces
      <4> QED
        BY <3>2, <4>1, <4>2, <4>3 DEF Switches
    <3>3. ASSUME NEW a \in Applies, ApplyNext(a)
          PROVE  UNCHANGED <<single1, stopping>>
      BY <3>3 DEF ApplyNext, ApplyReadsConfig, DrawsFirst, DrawsRest, DrawPanics, Panics, DrawsStore,
         ApplyDials, ApplyInserts, ApplyGets, ApplySends, ApplyLinks, Asks, Sent, Linked, NotReached,
         ApplyAddsTrain, ApplyAddsData, switch
    <3>4. ASSUME NEW r \in Reports, ReportNext(r)
          PROVE  UNCHANGED <<single1, stopping>>
      BY <3>4 DEF ReportNext, ReportArrives, ReportLooksUp, ReportRecords, ReportPops, ReportGivesBack,
         ReportLeavesTrain, ReportLeavesData, Disconnects, switch
    <3>5. ASSUME MainNext
          PROVE  UNCHANGED <<single1, stopping>>
      BY <3>5 DEF MainNext, MainReturns, MainCancels, MainClosesTasks, MainClosePanics, Panics,
         MainCollects, MainCreates, MainWrites, switch
    <3>6. Restarts => single1' /\ ~stopping'
      BY DEF Restarts
    <3>7. ASSUME UNCHANGED <<single1, stopping>>
          PROVE  single1' /\ ~stopping'
      <4>1. single1' = single1 /\ stopping' = stopping
        BY <3>7
      <4> QED
        BY <4>1, <2>1
    <3>8. Next
      BY <1>3
    <3> QED
      BY <3>8, <3>1, <3>2, <3>3, <3>4, <3>5, <3>6, <3>7 DEF Next
  <2>6. ASSUME NEW q \in Handlers
        PROVE  at'[q] \notin StopPlaces
    <3>h. HandlersOK
      BY DEF TInv
    <3>1. CASE UNCHANGED at
      BY <3>1, <2>1
    <3>2. CASE at' = Killed
      BY <3>2, <2>1 DEF Killed, StopPlaces
    <3>3. ASSUME NEW p \in Handlers, Moves(p)
          PROVE  at'[q] \notin StopPlaces
      <4>1. PICK to \in Places : Goes(p, to) /\ (to \in StopPlaces => Loads1(p) \/ Loads2(p))
        BY <3>3 DEF Moves
      <4>2. CASE q # p
        BY <4>1, <4>2, <3>h, <2>1, OneMoves
      <4>3. CASE q = p
        <5>1. at'[p] = to /\ \A other : Goes(p, other) => at'[p] = other
          BY <4>1, <3>h DEF Goes, HandlersOK
        <5> QED
          BY <4>1, <4>3, <5>1, <2>2, <2>3, <2>4
      <4> QED
        BY <4>2, <4>3
    <3> QED
      BY <1>3, <3>1, <3>2, <3>3, StepMoves
  <2> QED
    BY <2>5, <2>6 DEF StopInv
<1> QED
  BY <1>1, <1>2, <1>3

(* However attaching consoles, counting handlers and restarts overlap, the   *)
(* server stops only after a console has said Exit.                          *)
THEOREM StopsOnlyWhenTold == Spec => []OnlyExitStops
<1>1. Init => StopInv
  BY DEF Init, StopInv, StopPlaces
<1>2. StopInv => OnlyExitStops
  BY DEF StopInv, OnlyExitStops, ExitBegun
<1> QED
  BY <1>1, <1>2, SpecTyped, StopKept, PTL DEF Spec

-----------------------------------------------------------------------------
(* Ids *)

Drawing == {"rest", "store"}

(* An apply is inside GetId only from its first read to its write.           *)
LEMMA DrawMoves ==
    ASSUME TInv, Next, NEW a \in Applies
    PROVE  \/ DrawsFirst(a) \/ DrawsRest(a) \/ DrawsStore(a)
           \/ at' = Killed
           \/ at[a] \in Drawing \/ at'[a] \in Drawing => UNCHANGED at[a]
<1>a. a \in Handlers /\ HandlersOK /\ a \notin Reports
  BY Kinds5 DEF Handlers, Calls, TInv
<1> DEFINE Elsewhere == Places \ Drawing
<1>e. ({"new", "enter"} \cup CheckPlaces \cup Ended \cup ReportPlaces) \subseteq Elsewhere
  BY DEF Places, CheckPlaces, Ended, ReportPlaces, Drawing
<1>m. ASSUME NEW p \in Handlers, NEW to \in Elsewhere, Goes(p, to), p = a => at[p] \notin Drawing
      PROVE  at[a] \in Drawing \/ at'[a] \in Drawing => UNCHANGED at[a]
  <2>1. CASE p # a
    BY <1>m, <2>1, <1>a, OneMoves
  <2>2. CASE p = a
    <3>1. at'[a] = to
      BY <1>m, <2>2, <1>a DEF HandlersOK, Goes
    <3> QED
      BY <1>m, <2>2, <3>1
  <2> QED
    BY <2>1, <2>2
<1>1. ASSUME NEW c \in Calls, CallEnters(c) \/ CallIsOver(c) \/ CommandNext(c)
      PROVE  at' = Killed \/ (at[a] \in Drawing \/ at'[a] \in Drawing => UNCHANGED at[a])
  <2>1. at' = Killed \/ (at[c] \in {"new", "enter"} /\ \E to \in {"enter"} \cup Ended : Goes(c, to))
    BY <1>1 DEF CallEnters, CallIsOver, CommandNext, CommandMisses, CommandPanics, Panics, NodeJoins,
       NodeLeaves, NodesChecked, RecordViewed, RecordDeleted, Ended
  <2> QED
    BY <2>1, <1>m, <1>e DEF Handlers, Drawing
<1>2. ASSUME NEW p \in Handlers, Switches(p)
      PROVE  at[a] \in Drawing \/ at'[a] \in Drawing => UNCHANGED at[a]
  <2>1. \E to \in CheckPlaces \cup Ended : Goes(p, to)
    BY <1>2 DEF Switches, Counts, Flags, SetSingle1, Loads1, Loads2, Stops, AfterSwitch, CheckPlaces, Ended
  <2>2. at[p] \notin Drawing
    BY <1>2 DEF Switches, Counts, Flags, SetSingle1, Loads1, Loads2, Stops, Drawing
  <2> QED
    BY <2>1, <2>2, <1>m, <1>e
<1>3. ASSUME NEW b \in Applies, ApplyNext(b)
      PROVE  \/ DrawsFirst(a) \/ DrawsRest(a) \/ DrawsStore(a)
             \/ at' = Killed
             \/ at[a] \in Drawing \/ at'[a] \in Drawing => UNCHANGED at[a]
  <2>b. b \in Handlers
    BY DEF Handlers, Calls
  <2>1. CASE DrawPanics(b)
    BY <2>1 DEF DrawPanics, Panics
  <2>2. CASE ~DrawPanics(b) /\ b # a
    <3>1. \E to : Goes(b, to)
      BY <2>2, <1>3 DEF ApplyNext, ApplyReadsConfig, DrawsFirst, DrawsRest, DrawsStore,
         ApplyDials, ApplyInserts, ApplyGets, ApplySends, ApplyLinks, Asks, Sent, Linked, NotReached,
         ApplyAddsTrain, ApplyAddsData
    <3> QED
      BY <3>1, <2>2, <1>a, <2>b, OneMoves
  <2>3. CASE ~DrawPanics(b) /\ b = a /\ ~DrawsFirst(a) /\ ~DrawsRest(a) /\ ~DrawsStore(a)
    <3>1. /\ at[a] \notin Drawing
          /\ \E to \in (ApplyPlaces \ Drawing) \cup {"count", "failed"} : Goes(a, to)
      BY <2>3, <1>3 DEF ApplyNext, ApplyReadsConfig, ApplyDials, ApplyInserts, ApplyGets, ApplySends,
         ApplyLinks, Asks, Sent, Linked, NotReached, ApplyAddsTrain, ApplyAddsData, ApplyPlaces, Drawing
    <3>2. (ApplyPlaces \ Drawing) \cup {"count", "failed"} \subseteq Elsewhere
      BY DEF Places, CheckPlaces, Ended, Drawing
    <3> QED
      BY <3>1, <3>2, <1>m, <1>a
  <2> QED
    BY <2>1, <2>2, <2>3
<1>4. ASSUME NEW r \in Reports, ReportNext(r)
      PROVE  at[a] \in Drawing \/ at'[a] \in Drawing => UNCHANGED at[a]
  <2>1. \E to : Goes(r, to)
    BY <1>4 DEF ReportNext, ReportArrives, ReportLooksUp, ReportRecords, ReportPops, ReportGivesBack,
       ReportLeavesTrain, ReportLeavesData, Disconnects
  <2> QED
    BY <2>1, <1>a, OneMoves
<1>5. ASSUME MainNext \/ Restarts
      PROVE  UNCHANGED at \/ at' = Killed
  BY <1>5 DEF MainNext, MainReturns, MainCancels, MainClosesTasks, MainClosePanics, Panics,
     MainCollects, MainCreates, MainWrites, Restarts
<1> QED
  BY <1>1, <1>2, <1>3, <1>4, <1>5 DEF Next

(* The clock moves, and applies meet, in one kind of step each.              *)
LEMMA ClockChanges ==
    ASSUME Next
    PROVE  /\ UNCHANGED now \/ Restarts
           /\ UNCHANGED overlapped \/ \E c \in Calls : CallEnters(c)
<1>1. ASSUME NEW c \in Calls, CallEnters(c) \/ CallIsOver(c) \/ CommandNext(c)
      PROVE  UNCHANGED now /\ (UNCHANGED overlapped \/ CallEnters(c))
  BY <1>1 DEF CallIsOver, CommandNext, CommandMisses, CommandPanics, Panics, NodeJoins,
     NodeLeaves, NodesChecked, RecordViewed, RecordDeleted, outside, CallEnters
<1>2. ASSUME NEW p \in Handlers, Switches(p)
      PROVE  UNCHANGED <<now, overlapped>>
  BY <1>2 DEF Switches, Counts, Flags, SetSingle1, Loads1, Loads2, Stops, outside
<1>3. ASSUME NEW a \in Applies, ApplyNext(a)
      PROVE  UNCHANGED <<now, overlapped>>
  BY <1>3 DEF ApplyNext, ApplyReadsConfig, DrawsFirst, DrawsRest, DrawPanics, Panics, DrawsStore,
     ApplyDials, ApplyInserts, ApplyGets, ApplySends, ApplyLinks, Asks, Sent, Linked, NotReached,
     ApplyAddsTrain, ApplyAddsData, outside
<1>4. ASSUME NEW r \in Reports, ReportNext(r)
      PROVE  UNCHANGED <<now, overlapped>>
  BY <1>4 DEF ReportNext, ReportArrives, ReportLooksUp, ReportRecords, ReportPops, ReportGivesBack,
     ReportLeavesTrain, ReportLeavesData, Disconnects, outside
<1>5. ASSUME MainNext \/ Restarts
      PROVE  (UNCHANGED now \/ Restarts) /\ UNCHANGED overlapped
  BY <1>5 DEF MainNext, MainReturns, MainCancels, MainClosesTasks, MainClosePanics, Panics,
     MainCollects, MainCreates, MainWrites, Restarts, outside
<1> QED
  BY <1>1, <1>2, <1>3, <1>4, <1>5 DEF Next

In(c, s) == \E k \in DOMAIN s : s[k] = c

OneApply == \A a, b \in Applies : Active(a) /\ Active(b) => a = b

DrawnOnce == \A a, b \in Applies : id[a] # None /\ id[a] = id[b] => a = b

(* What the pool, or what an apply is about to write to it, no longer holds. *)
Taken(a) ==
    /\ at[a] \in Drawing =>
          /\ id[a] # None /\ id[a].second = now
          /\ pool # <<>> /\ ~In(id[a].counter, Tail(pool))
    /\ at[a] = "store" => rest[a] = Tail(pool)
    /\ id[a] # None =>
          /\ id[a].second =< now
          /\ main \notin {"crashed", "down"} /\ id[a].second = now /\ at[a] \notin Drawing =>
                ~In(id[a].counter, pool)

(* While applies do not overlap, the id of each is its own: its counter is   *)
(* out of the pool as long as its second lasts.                              *)
ApartInv ==
    /\ main = "crashed" => Drained
    /\ ~overlapped => OneApply /\ DrawnOnce /\ \A a \in Applies : Taken(a)

LEMMA CrashedIsDrained == TInv /\ ApartInv /\ [Next]_vars => (main = "crashed" => Drained)'
<1> SUFFICES ASSUME TInv, ApartInv, [Next]_vars, main' = "crashed" PROVE Drained'
  OBVIOUS
<1>1. CASE UNCHANGED vars
  BY <1>1 DEF vars, ApartInv, Drained, Active
<1>2. CASE Next /\ main = "crashed"
  BY <1>2, StaysDrained DEF ApartInv, Serving
<1>3. CASE Next /\ main # "crashed"
  <2>1. at' = Killed
    <3>1. ASSUME NEW c \in Calls, CallEnters(c) \/ CallIsOver(c) \/ CommandNext(c)
          PROVE  at' = Killed
      BY <1>3, <3>1 DEF CallEnters, CallIsOver, CommandNext, CommandMisses, CommandPanics, Panics, NodeJoins,
         NodeLeaves, NodesChecked, RecordViewed, RecordDeleted
    <3>2. ASSUME NEW p \in Handlers, Switches(p)
          PROVE  FALSE
      BY <1>3, <3>2 DEF Switches, Counts, Flags, SetSingle1, Loads1, Loads2, Stops
    <3>3. ASSUME NEW a \in Applies, ApplyNext(a)
          PROVE  at' = Killed
      BY <1>3, <3>3 DEF ApplyNext, ApplyReadsConfig, DrawsFirst, DrawsRest, DrawPanics, Panics, DrawsStore,
         ApplyDials, ApplyInserts, ApplyGets, ApplySends, ApplyLinks, Asks, Sent, Linked, NotReached,
         ApplyAddsTrain, ApplyAddsData
    <3>4. ASSUME NEW r \in Reports, ReportNext(r)
          PROVE  FALSE
      BY <1>3, <3>4 DEF ReportNext, ReportArrives, ReportLooksUp, ReportRecords, ReportPops, ReportGivesBack,
         ReportLeavesTrain, ReportLeavesData, Disconnects
    <3>5. ASSUME MainNext \/ Restarts
          PROVE  at' = Killed
      BY <1>3, <3>5 DEF MainNext, MainReturns, MainCancels, MainClosesTasks, MainClosePanics, Panics,
         MainCollects, MainCreates, MainWrites, Restarts
    <3> QED
      BY <1>3, <3>1, <3>2, <3>3, <3>4, <3>5 DEF Next
  <2>2. \A c \in Calls : at'[c] \in Ended \cup {"new"}
    BY <2>1 DEF Killed, Active, Ended, Handlers
  <2> QED
    BY <2>2 DEF Drained, Active
<1> QED
  BY <1>1, <1>2, <1>3

LEMMA OneApplyKept == TInv /\ ApartInv /\ Next /\ ~overlapped' => ~overlapped /\ OneApply'
<1> SUFFICES ASSUME TInv, ApartInv, Next, ~overlapped' PROVE ~overlapped /\ OneApply'
  OBVIOUS
<1>b. overlapped \in BOOLEAN
  BY DEF TInv, OthersOK
<1>1. ~overlapped
  BY <1>b, ClockChanges DEF CallEnters
<1>2. ASSUME NEW a \in Applies, Active(a)'
      PROVE  Active(a) \/ CallEnters(a)
  <2>a. a \in Handlers /\ a \notin Reports /\ HandlersOK
    BY Kinds5 DEF Handlers, Calls, TInv
  <2>1. CASE UNCHANGED at
    BY <1>2, <2>1 DEF Active
  <2>2. CASE at' = Killed
    BY <1>2, <2>2, <2>a DEF Killed, Active, Ended
  <2>3. ASSUME NEW p \in Handlers, Moves(p)
        PROVE  Active(a) \/ CallEnters(a)
    <3>1. PICK to \in Places : Goes(p, to)
      BY <2>3 DEF Moves
    <3>2. CASE p # a
      <4>1. at'[a] = at[a]
        BY <3>1, <3>2, <2>a, OneMoves
      <4> QED
        BY <1>2, <4>1 DEF Active
    <3>3. CASE p = a
      BY <2>3, <3>3, <2>a DEF Moves
    <3> QED
      BY <3>2, <3>3
  <2> QED
    BY <2>1, <2>2, <2>3, StepMoves
<1>3. ASSUME NEW a \in Applies, CallEnters(a)
      PROVE  \A b \in Applies : ~Active(b)
  BY <1>b, <1>1, <1>3 DEF CallEnters
<1>4. ASSUME NEW a \in Applies, NEW b \in Applies, Active(a)', Active(b)'
      PROVE  a = b
  <2>1. CASE Active(a) /\ Active(b)
    BY <1>1, <2>1 DEF ApartInv, OneApply
  <2>2. CASE CallEnters(a) \/ CallEnters(b)
    <3>1. CallEnters(a) /\ CallEnters(b) => a = b
      <4> SUFFICES ASSUME CallEnters(a), CallEnters(b), a # b PROVE FALSE
        OBVIOUS
      <4>1. at'[b] = at[b] /\ at'[b] = "enter" /\ at[b] = "new"
        BY OneMoves DEF CallEnters, TInv, HandlersOK, Handlers, Calls, Goes
      <4> QED
        BY <4>1
    <3>2. CallEnters(a) \/ Active(a)
      BY <1>2, <1>4
    <3>3. CallEnters(b) \/ Active(b)
      BY <1>2, <1>4
    <3> QED
      BY <2>2, <3>1, <3>2, <3>3, <1>3
  <2> QED
    BY <2>1, <2>2, <1>2, <1>4
<1> QED
  BY <1>1, <1>4 DEF OneApply

(* Handlers are killed only with the process.                                *)
LEMMA KillersEnd ==
    ASSUME TInv, Next, NEW a \in Applies, at[a] \in Drawing, at'[a] \notin Drawing, at' = Killed
    PROVE  main' \in {"crashed", "down"}
<1>a. a \in Handlers /\ HandlersOK /\ a \notin Reports /\ at[a] \in Drawing
  BY Kinds5 DEF Handlers, Calls, TInv
<1>d. at'[a] = "dead"
  BY <1>a DEF Killed
<1>g. ASSUME NEW p \in Handlers, NEW to, Goes(p, to), to # "dead"
      PROVE  FALSE
  BY <1>g, <1>a, <1>d DEF Goes, HandlersOK, Drawing
<1>1. ASSUME NEW c \in Calls, CallEnters(c) \/ CallIsOver(c) \/ CommandNext(c)
      PROVE  main' = "crashed"
  BY <1>1, <1>g DEF CallEnters, CallIsOver, CommandNext, CommandMisses, CommandPanics, Panics, NodeJoins,
     NodeLeaves, NodesChecked, RecordViewed, RecordDeleted, Handlers
<1>2. ASSUME NEW p \in Handlers, Switches(p)
      PROVE  FALSE
  BY <1>2, <1>g DEF Switches, Counts, Flags, SetSingle1, Loads1, Loads2, Stops, AfterSwitch
<1>3. ASSUME NEW b \in Applies, ApplyNext(b)
      PROVE  main' = "crashed"
  <2>1. b \in Handlers
    BY DEF Handlers, Calls
  <2> QED
    BY <1>3, <2>1, <1>g DEF ApplyNext, ApplyReadsConfig, DrawsFirst, DrawsRest, DrawPanics, Panics,
       DrawsStore, ApplyDials, ApplyInserts, ApplyGets, ApplySends, ApplyLinks, Asks, Sent, Linked,
       NotReached, ApplyAddsTrain, ApplyAddsData
<1>4. ASSUME NEW r \in Reports, ReportNext(r)
      PROVE  FALSE
  BY <1>4, <1>g DEF ReportNext, ReportArrives, ReportLooksUp, ReportRecords, ReportPops, ReportGivesBack,
     ReportLeavesTrain, ReportLeavesData, Disconnects, Handlers
<1>5. ASSUME MainNext \/ Restarts
      PROVE  main' \in {"crashed", "down"}
  BY <1>5, <1>a, <1>d DEF MainNext, MainReturns, MainCancels, MainClosesTasks, MainClosePanics, Panics,
     MainCollects, MainCreates, MainWrites, Restarts, Drawing
<1> QED
  BY <1>1, <1>2, <1>3, <1>4, <1>5 DEF Next

LEMMA TailHolds ==
    ASSUME NEW S, NEW s \in Seq(S), s # <<>>
    PROVE  /\ s[1] \in S /\ Tail(s) \in Seq(S)
           /\ \A c : In(c, Tail(s)) => In(c, s)
           /\ Distinct(s) => ~In(s[1], Tail(s))
<1>1. /\ Len(s) \in Nat \ {0} /\ DOMAIN s = 1 .. Len(s)
      /\ Tail(s) \in Seq(S) /\ DOMAIN Tail(s) = 1 .. (Len(s) - 1)
      /\ \A i \in 1 .. (Len(s) - 1) : Tail(s)[i] = s[i + 1]
  BY HeadTailProperties, LenProperties, EmptySeq
<1>2. s[1] \in S
  BY <1>1
<1>3. ASSUME NEW c, In(c, Tail(s))
      PROVE  In(c, s)
  <2>1. PICK i \in 1 .. (Len(s) - 1) : Tail(s)[i] = c
    BY <1>3, <1>1 DEF In
  <2>2. i + 1 \in DOMAIN s /\ s[i + 1] = c
    BY <2>1, <1>1
  <2> QED
    BY <2>2 DEF In
<1>4. ASSUME Distinct(s), In(s[1], Tail(s))
      PROVE  FALSE
  <2>1. PICK i \in 1 .. (Len(s) - 1) : Tail(s)[i] = s[1]
    BY <1>4, <1>1 DEF In
  <2>2. i + 1 \in DOMAIN s /\ s[i + 1] = s[1] /\ 1 \in DOMAIN s /\ i + 1 # 1
    BY <2>1, <1>1
  <2> QED
    BY <1>4, <2>2 DEF Distinct
<1> QED
  BY <1>1, <1>2, <1>3, <1>4

(* A step that leaves the ids, the pool and who is inside GetId alone.       *)
LEMMA TakenStays ==
    ASSUME NEW a \in Applies, Taken(a), UNCHANGED <<now, pool, rest>>, UNCHANGED id[a],
           at[a] \in Drawing \/ at'[a] \in Drawing => UNCHANGED at[a],
           main' \notin {"crashed", "down"} => main \notin {"crashed", "down"}
    PROVE  Taken(a)'
BY DEF Taken, Drawing, In

LEMMA ApartKept ==
    TInv /\ PoolInv /\ EndInv /\ ApartInv /\ [Next]_vars /\ TInv' => ApartInv'
<1> SUFFICES ASSUME TInv, PoolInv, EndInv, ApartInv, [Next]_vars, TInv'
             PROVE  ApartInv'
  OBVIOUS
<1>c. (main = "crashed" => Drained)'
  BY CrashedIsDrained
<1>1. CASE UNCHANGED vars
  <2>1. UNCHANGED <<now, pool, rest, id, at, main, overlapped>>
    BY <1>1 DEF vars, tables, locals, outside
  <2> QED
    BY <2>1, <1>c DEF ApartInv, OneApply, DrawnOnce, Taken, Active, In
<1>2. CASE Next /\ overlapped'
  BY <1>2, <1>c DEF ApartInv
<1>3. CASE Next /\ ~overlapped'
  <2>a. ~overlapped /\ OneApply' /\ OneApply /\ DrawnOnce /\ \A a \in Applies : Taken(a)
    BY <1>3, OneApplyKept DEF ApartInv
  <2>t. /\ id \in [Handlers -> Optional(IdValues)] /\ id' \in [Handlers -> Optional(IdValues)]
        /\ rest \in [Applies -> Seq(Counters)] /\ pool \in Seq(Counters) /\ now \in Nat
        /\ HandlersOK /\ HandlersOK' /\ Applies \subseteq Handlers /\ Applies \cap Reports = {}
    BY Kinds5 DEF TInv, OthersOK, LocalsOK, TablesOK, Handlers, Calls
  <2>d. \A a \in Applies : at[a] \in Drawing => Active(a)
    BY DEF Active, Drawing, Ended
  <2>m. main' \notin {"crashed", "down"} /\ ~Restarts => main \notin {"crashed", "down"}
    <3>1. MainNext => main \notin {"crashed", "down"}
      BY DEF MainNext, MainReturns, MainCancels, MainClosesTasks, MainClosePanics, MainCollects,
         MainCreates, MainWrites, Serving
    <3> QED
      BY <1>3, <3>1, MainChanges
  <2>i. ASSUME NEW b \in Applies, ~DrawsFirst(b)
        PROVE  UNCHANGED id[b]
    <3>1. CASE UNCHANGED id
      BY <3>1
    <3>2. ASSUME NEW a \in Applies, DrawsFirst(a)
          PROVE  UNCHANGED id[b]
      BY <3>2, <2>i, <2>t DEF DrawsFirst
    <3>3. ASSUME NEW r \in Reports, ReportArrives(r)
          PROVE  UNCHANGED id[b]
      BY <3>3, <2>t DEF ReportArrives
    <3> QED
      BY <1>3, <3>1, <3>2, <3>3, IdChanges
  <2>o. (\A a \in Applies : ~DrawsFirst(a)) => DrawnOnce'
    BY <2>i, <2>a DEF DrawnOnce
  <2>1. ASSUME NEW a \in Applies, DrawsFirst(a)
        PROVE  DrawnOnce' /\ \A b \in Applies : Taken(b)'
    <3> DEFINE i == NewId(FirstCounter)
    <3>1. /\ UNCHANGED <<main, now, pool, rest>> /\ pool # <<>> /\ at[a] = "first"
          /\ id'[a] = i /\ \A b \in Applies : b # a => id'[b] = id[b]
      BY <2>1, <2>t DEF DrawsFirst, tables
    <3>2. at'[a] = "rest" /\ \A b \in Applies : b # a => at'[b] = at[b]
      BY <2>1, <2>t DEF DrawsFirst, Goes, HandlersOK
    <3>3. i.second = now /\ i.counter = pool[1] /\ i # None
      <4>1. i \in IdValues
        BY <3>1, <2>t, TailHolds DEF NewId, FirstCounter, IdValues
      <4> QED
        BY <4>1, IdAssumption DEF NewId, FirstCounter
    <3>4. ASSUME NEW b \in Applies, b # a
          PROVE  at[b] \notin Drawing
      BY <3>1, <3>4, <2>a, <2>d DEF OneApply, Active, Ended
    <3>5. main \notin {"crashed", "down"}
      <4>1. Active(a) /\ a \in Calls
        BY <3>1 DEF Active, Ended, Calls
      <4> QED
        BY <4>1 DEF ApartInv, EndInv, Drained
    <3>6. In(pool[1], pool) /\ ~In(pool[1], Tail(pool))
      <4>1. 1 \in DOMAIN pool
        BY <3>1, <2>t, LenProperties, EmptySeq
      <4> QED
        BY <4>1, <3>1, <2>t, TailHolds DEF PoolInv, In
    <3>7. ASSUME NEW b \in Applies, b # a
          PROVE  id[b] # i
      <4>1. id[b] = i => id[b] # None /\ id[b].second = now /\ id[b].counter = pool[1]
        BY <3>3
      <4>2. id[b] # None /\ id[b].second = now => ~In(id[b].counter, pool)
        BY <3>4, <3>5, <3>7, <2>a DEF Taken
      <4> QED
        BY <4>1, <4>2, <3>6
    <3>8. DrawnOnce'
      BY <3>1, <3>7, <2>a DEF DrawnOnce
    <3>9. Taken(a)'
      <4>1. at'[a] \in Drawing /\ at'[a] # "store" /\ now =< now
        BY <3>2, <2>t DEF Drawing
      <4>2. id'[a] # None /\ id'[a].second = now' /\ pool' # <<>> /\ Tail(pool') = Tail(pool)
        BY <3>1, <3>3
      <4>3. ~(\E k \in DOMAIN Tail(pool') : Tail(pool')[k] = id'[a].counter)
        BY <3>1, <3>3, <3>6, <4>2 DEF In
      <4>4. now' =< now'
        BY <3>1, <2>t
      <4> QED
        BY <4>1, <4>2, <4>3, <4>4 DEF Taken, In
    <3>10. ASSUME NEW b \in Applies, b # a
           PROVE  Taken(b)'
      BY <3>1, <3>2, <3>10, <2>a, TakenStays
    <3> QED
      BY <3>8, <3>9, <3>10
  <2>2. ASSUME NEW a \in Applies, DrawsRest(a)
        PROVE  DrawnOnce' /\ \A b \in Applies : Taken(b)'
    <3>1. /\ UNCHANGED <<main, now, pool, id>> /\ at[a] = "rest"
          /\ rest' = [rest EXCEPT ![a] = Tail(pool)] /\ Goes(a, "store")
      BY <2>2 DEF DrawsRest, RestOfPool, tables
    <3>2. at'[a] = "store" /\ \A b \in Applies : b # a => at'[b] = at[b]
      BY <3>1, <2>t DEF Goes, HandlersOK
    <3>3. rest'[a] = Tail(pool) /\ \A b \in Applies : b # a => rest'[b] = rest[b]
      BY <3>1, <2>t
    <3>4. DrawnOnce'
      BY <3>1, <2>a DEF DrawnOnce
    <3>5. ASSUME NEW b \in Applies
          PROVE  Taken(b)'
      <4>1. CASE b = a
        BY <4>1, <3>1, <3>2, <3>3, <2>a DEF Taken, Drawing, In
      <4>2. CASE b # a
        BY <4>2, <3>1, <3>2, <3>3, <2>a DEF Taken, Drawing, In
      <4> QED
        BY <4>1, <4>2
    <3> QED
      BY <3>4, <3>5
  <2>3. ASSUME NEW a \in Applies, DrawsStore(a)
        PROVE  DrawnOnce' /\ \A b \in Applies : Taken(b)'
    <3>1. /\ UNCHANGED <<main, now, id>> /\ at[a] = "store"
          /\ pool' = rest[a] /\ Goes(a, "dial")
      BY <2>3 DEF DrawsStore
    <3>2. at'[a] = "dial" /\ \A b \in Applies : b # a => at'[b] = at[b]
      BY <3>1, <2>t DEF Goes, HandlersOK
    <3>3. pool' = Tail(pool) /\ pool # <<>> /\ ~In(id[a].counter, Tail(pool)) /\ id[a].second =< now
      BY <3>1, <2>a DEF Taken, Drawing
    <3>4. DrawnOnce'
      BY <3>1, <2>a DEF DrawnOnce
    <3>5. \A c : (\E k \in DOMAIN pool' : pool'[k] = c) => In(c, pool)
      BY <3>3, <2>t, TailHolds DEF In
    <3>6. Taken(a)'
      <4>1. at'[a] \notin Drawing
        BY <3>2 DEF Drawing
      <4>2. ~(\E k \in DOMAIN pool' : pool'[k] = id'[a].counter)
        BY <3>1, <3>3 DEF In
      <4>3. id'[a].second =< now'
        BY <3>1, <3>3
      <4> QED
        BY <4>1, <4>2, <4>3 DEF Taken, Drawing, In
    <3>7. ASSUME NEW b \in Applies, b # a
          PROVE  Taken(b)'
      <4>1. at[b] \notin Drawing /\ at'[b] \notin Drawing
        BY <3>1, <3>2, <3>7, <2>a, <2>d DEF OneApply, Active, Ended
      <4>2. ~In(id[b].counter, pool) => ~(\E k \in DOMAIN pool' : pool'[k] = id'[b].counter)
        BY <3>1, <3>5 DEF In
      <4>3. at'[b] # "store"
        BY <4>1 DEF Drawing
      <4>4. id[b] # None =>
              /\ id[b].second =< now
              /\ main \notin {"crashed", "down"} /\ id[b].second = now => ~In(id[b].counter, pool)
        BY <4>1, <2>a DEF Taken
      <4> QED
        BY <4>1, <4>2, <4>3, <4>4, <3>1 DEF Taken, In
    <3> QED
      BY <3>4, <3>6, <3>7
  <2>4. ASSUME Restarts
        PROVE  DrawnOnce' /\ \A b \in Applies : Taken(b)'
    <3>1. UNCHANGED <<at, id, rest>> /\ now' = now + 1 /\ main \in {"down", "crashed"}
      BY <2>4 DEF Restarts, locals
    <3>2. Drained
      BY <3>1 DEF EndInv, ApartInv
    <3>3. \A b \in Applies : at'[b] \notin Drawing
      BY <3>1, <3>2, <2>d DEF Drained, Calls
    <3>4. ASSUME NEW b \in Applies, id'[b] # None
          PROVE  id'[b].second =< now' /\ id'[b].second # now'
      <4>1. id[b].second \in Nat /\ id[b].second =< now
        BY <3>1, <3>4, <2>a, <2>t DEF Taken, Optional, IdValues
      <4> QED
        BY <4>1, <3>1, <2>t
    <3>5. \A b \in Applies : Taken(b)'
      BY <3>3, <3>4 DEF Taken, Drawing
    <3> QED
      BY <3>1, <3>5, <2>a DEF DrawnOnce
  <2>5. ASSUME \A a \in Applies : ~DrawsFirst(a) /\ ~DrawsRest(a) /\ ~DrawsStore(a), ~Restarts
        PROVE  DrawnOnce' /\ \A b \in Applies : Taken(b)'
    <3>1. UNCHANGED <<now, pool, rest>>
      BY <1>3, <2>5, ClockChanges, PoolChanges
    <3>2. ASSUME NEW b \in Applies
          PROVE  Taken(b)'
      <4>1. UNCHANGED id[b]
        BY <2>5, <2>i
      <4>2. CASE at[b] \in Drawing \/ at'[b] \in Drawing => UNCHANGED at[b]
        BY <4>1, <4>2, <3>1, <2>m, <2>5, <2>a, TakenStays
      <4>3. CASE at' = Killed /\ ~(at[b] \in Drawing \/ at'[b] \in Drawing => UNCHANGED at[b])
        <5>1. at'[b] \notin Drawing /\ at[b] \in Drawing
          BY <4>3, <2>t DEF Killed, Drawing
        <5>2. main' \in {"crashed", "down"}
          BY <1>3, <4>3, <5>1, <2>5, KillersEnd
        <5> QED
          BY <5>1, <5>2, <4>1, <3>1, <2>a DEF Taken, Drawing, In
      <4> QED
        BY <1>3, <2>5, <4>2, <4>3, DrawMoves
    <3> QED
      BY <3>2, <2>5, <2>o
  <2> QED
    BY <1>c, <2>a, <2>1, <2>2, <2>3, <2>4, <2>5 DEF ApartInv
<1> QED
  BY <1>1, <1>2, <1>3

(* For any number of counters and restarts: applies that come one after      *)
(* another have an id each, whatever becomes of them.                        *)
THEOREM OneIdOneTask == Spec => []IdsTellTasksApart
<1>1. Init => PoolInv /\ EndInv /\ ApartInv
  <2>2. \A a \in Applies : at[a] = "new" /\ id[a] = None => ~Active(a) /\ Taken(a)
    BY DEF Active, Taken, Drawing
  <2>3. Init => \A a \in Applies : at[a] = "new" /\ id[a] = None
    BY DEF Init, Handlers, Calls
  <2>4. Init => PoolInv
    BY PoolInitially
  <2>5. Init => EndInv /\ main = "serve"
    BY DEF Init, EndInv
  <2> QED
    BY <2>2, <2>3, <2>4, <2>5 DEF ApartInv, OneApply, DrawnOnce
<1>2. TInv /\ TrainedHaveIds /\ ApartInv => IdsTellTasksApart
  BY DEF TInv, OthersOK, TrainedHaveIds, ApartInv, DrawnOnce, IdsTellTasksApart
<1> QED
  BY <1>1, <1>2, SpecTyped, PoolKept, EndKept, ApartKept, PTL DEF Spec

-----------------------------------------------------------------------------
(* The table as one of tasks *)

Before == {"new", "enter", "first", "rest", "store", "dial", "insert"}

(* An apply that has got as far as its entry never comes back to before it.  *)
LEMMA BeforeIsLeft ==
    ASSUME TInv, Next, NEW a \in Applies, at'[a] \in Before
    PROVE  at[a] \in Before
<1>a. a \in Handlers /\ HandlersOK /\ a \notin Reports
  BY Kinds5 DEF Handlers, Calls, TInv
<1> DEFINE After == Places \ Before
<1>e. CheckPlaces \cup Ended \cup ReportPlaces \subseteq After
  BY DEF Places, CheckPlaces, Ended, ReportPlaces, Before
<1>o. ASSUME NEW p \in Handlers, NEW to, Goes(p, to), at[p] \in Before \/ to \notin Before \/ p # a
      PROVE  at[a] \in Before
  <2>1. CASE p # a
    BY <1>o, <2>1, <1>a, OneMoves
  <2>2. CASE p = a
    <3>1. at'[a] = to
      BY <1>o, <2>2, <1>a DEF HandlersOK, Goes
    <3> QED
      BY <1>o, <2>2, <3>1
  <2> QED
    BY <2>1, <2>2
<1>k. UNCHANGED at \/ at' = Killed => at[a] \in Before
  BY <1>a DEF Killed, Before
<1>1. ASSUME NEW c \in Calls, CallEnters(c) \/ CallIsOver(c) \/ CommandNext(c)
      PROVE  at[a] \in Before
  <2>1. at' = Killed \/ (at[c] \in {"new", "enter"} /\ \E to : Goes(c, to))
    BY <1>1 DEF CallEnters, CallIsOver, CommandNext, CommandMisses, CommandPanics, Panics, NodeJoins,
       NodeLeaves, NodesChecked, RecordViewed, RecordDeleted
  <2> QED
    BY <2>1, <1>k, <1>o DEF Handlers, Before
<1>2. ASSUME NEW p \in Handlers, Switches(p)
      PROVE  at[a] \in Before
  <2>1. \E to \in CheckPlaces \cup Ended : Goes(p, to)
    BY <1>2 DEF Switches, Counts, Flags, SetSingle1, Loads1, Loads2, Stops, AfterSwitch, CheckPlaces, Ended
  <2> QED
    BY <2>1, <1>e, <1>o
<1>3. ASSUME NEW b \in Applies, ApplyNext(b)
      PROVE  at[a] \in Before
  <2>b. b \in Handlers
    BY DEF Handlers, Calls
  <2>1. CASE DrawPanics(b)
    BY <2>1, <1>k DEF DrawPanics, Panics
  <2>2. CASE ~DrawPanics(b) /\ at[b] \in Before
    <3>1. \E to : Goes(b, to)
      BY <2>2, <1>3 DEF ApplyNext, ApplyReadsConfig, DrawsFirst, DrawsRest, DrawsStore,
         ApplyDials, ApplyInserts, ApplyGets, ApplySends, ApplyLinks, Asks, Sent, Linked, NotReached,
         ApplyAddsTrain, ApplyAddsData
    <3> QED
      BY <3>1, <2>2, <2>b, <1>o
  <2>3. CASE ~DrawPanics(b) /\ at[b] \notin Before
    <3>1. \E to \in {"send", "sending", "link", "linking", "addTrain", "addData", "count", "failed"} : Goes(b, to)
      BY <2>3, <1>3 DEF ApplyNext, ApplyReadsConfig, DrawsFirst, DrawsRest, DrawsStore,
         ApplyDials, ApplyInserts, ApplyGets, ApplySends, ApplyLinks, Asks, Sent, Linked, NotReached,
         ApplyAddsTrain, ApplyAddsData, Before
    <3> QED
      BY <3>1, <2>b, <1>o DEF Before
  <2> QED
    BY <2>1, <2>2, <2>3
<1>4. ASSUME NEW r \in Reports, ReportNext(r)
      PROVE  at[a] \in Before
  <2>1. \E to : Goes(r, to)
    BY <1>4 DEF ReportNext, ReportArrives, ReportLooksUp, ReportRecords, ReportPops, ReportGivesBack,
       ReportLeavesTrain, ReportLeavesData, Disconnects
  <2> QED
    BY <2>1, <1>a, <1>o DEF Handlers
<1>5. ASSUME MainNext \/ Restarts
      PROVE  UNCHANGED at \/ at' = Killed
  BY <1>5 DEF MainNext, MainReturns, MainCancels, MainClosesTasks, MainClosePanics, Panics,
     MainCollects, MainCreates, MainWrites, Restarts
<1> QED
  BY <1>1, <1>2, <1>3, <1>4, <1>5, <1>k DEF Next

(* Every entry is under the id of the task it is for, so no task has two;    *)
(* only a task that has been entered is in the table or out of it.           *)
EnteredInv ==
    /\ \A i \in Listed : id[list[i]] = i /\ list[i] \notin gone
    /\ \A a \in gone \cup Elements : at[a] \notin Before

(* What a step does to the table of tasks.                                   *)
LEMMA TableStep ==
    ASSUME TInv, EnteredInv, Next
    PROVE  /\ Table!Next \/ UNCHANGED <<Elements, gone>>
           /\ \A i \in Listed' : (id[list'[i]] = i \/ UNCHANGED list) /\ list'[i] \notin gone'
           /\ \A a \in gone' \cup Elements' : a \in gone \cup Elements \/ (a \in Applies /\ at'[a] = "get")
<1>t. list \in [Listed -> Applies] /\ HandlersOK /\ Elements \subseteq Applies
  BY DEF TInv, TablesOK, Elements
<1>1. CASE UNCHANGED <<list, gone>>
  BY <1>1 DEF Elements, Listed, EnteredInv
<1>2. ASSUME NEW a \in Applies, ApplyInserts(a), ~UNCHANGED <<list, gone>>
      PROVE  /\ Table!Enter(a)
             /\ \A i \in Listed' : id[list'[i]] = i /\ list'[i] \notin gone'
             /\ Elements' = Elements \cup {a} /\ UNCHANGED gone /\ at'[a] = "get"
  <2>1. /\ list' = Put(id[a], a) /\ id[a] \notin Listed /\ UNCHANGED gone
        /\ at[a] = "insert" /\ Goes(a, "get")
    BY <1>2 DEF ApplyInserts, outside
  <2>2. Listed' = Listed \cup {id[a]} /\ list'[id[a]] = a /\ \A i \in Listed : list'[i] = list[i]
    BY <2>1 DEF Put, Listed
  <2>3. Elements' = Elements \cup {a}
    BY <2>2 DEF Elements
  <2>4. a \notin gone \cup Elements
    BY <2>1 DEF EnteredInv, Before
  <2>5. at'[a] = "get"
    BY <2>1, <1>t DEF Goes, HandlersOK, Handlers, Calls
  <2>6. \A i \in Listed' : id[list'[i]] = i /\ list'[i] \notin gone'
    BY <2>1, <2>2, <2>4 DEF EnteredInv
  <2> QED
    BY <2>1, <2>3, <2>4, <2>5, <2>6 DEF Table!Enter
<1>3. ASSUME NEW r \in Reports, ReportPops(r), ~UNCHANGED <<list, gone>>
      PROVE  /\ \E e \in Elements : Table!Leave({e})
             /\ \A i \in Listed' : id[list'[i]] = i /\ list'[i] \notin gone'
             /\ gone' \cup Elements' \subseteq gone \cup Elements
  <2>1. list' = Drop(id[r]) /\ gone' = gone \cup {list[i] : i \in Listed \cap {id[r]}}
    BY <1>3 DEF ReportPops
  <2>2. Listed' = Listed \ {id[r]} /\ \A i \in Listed' : list'[i] = list[i]
    BY <2>1 DEF Drop, Listed
  <2>3. id[r] \in Listed
    <3> SUFFICES ASSUME id[r] \notin Listed PROVE FALSE
      OBVIOUS
    <3>1. gone' = gone
      BY <2>1
    <3>2. list' = list
      BY <2>1, <1>t DEF Drop
    <3> QED
      BY <3>1, <3>2, <1>3
  <2> DEFINE e == list[id[r]]
  <2>4. e \in Elements /\ gone' = gone \cup {e}
    BY <2>1, <2>3 DEF Elements
  <2>5. \A i \in Listed' : list[i] # e
    BY <2>2, <2>3 DEF EnteredInv
  <2>6. Elements' = Elements \ {e}
    BY <2>2, <2>5, <2>3 DEF Elements
  <2>7. \A i \in Listed' : id[list'[i]] = i /\ list'[i] \notin gone'
    BY <2>2, <2>4, <2>5 DEF EnteredInv
  <2> QED
    BY <2>4, <2>6, <2>7 DEF Table!Leave
<1>4. ASSUME MainClosesTasks \/ Restarts
      PROVE  /\ Elements' = {} /\ Listed' = {} /\ gone' = gone \cup Elements
  BY <1>4 DEF MainClosesTasks, Restarts, Elements, Listed
<1>5. CASE MainClosesTasks \/ Restarts
  <2>1. CASE Elements = {}
    BY <1>4, <1>5, <2>1
  <2>2. CASE Elements # {}
    <3>1. Table!Leave(Elements)
      BY <1>4, <1>5, <2>2 DEF Table!Leave
    <3> QED
      BY <1>4, <1>5, <3>1, <1>t DEF Table!Next
  <2> QED
    BY <2>1, <2>2
<1>6. CASE \E a \in Applies : ApplyInserts(a)
  BY <1>1, <1>2, <1>6 DEF Table!Next
<1>7. CASE \E r \in Reports : ReportPops(r)
  BY <1>1, <1>3, <1>7, <1>t DEF Table!Next
<1> QED
  BY <1>1, <1>5, <1>6, <1>7, TableChanges

LEMMA EnteredKept == TInv /\ EnteredInv /\ [Next]_vars => EnteredInv'
<1> SUFFICES ASSUME TInv, EnteredInv, [Next]_vars PROVE EnteredInv'
  OBVIOUS
<1>1. CASE UNCHANGED vars
  <2>1. UNCHANGED <<list, gone, id, at>>
    BY <1>1 DEF vars, tables, locals, outside
  <2> QED
    BY <2>1 DEF EnteredInv, Listed, Elements
<1>2. CASE Next
  <2>t. list \in [Listed -> Applies] /\ Applies \subseteq Handlers /\ gone \subseteq Applies
        /\ id \in [Handlers -> Optional(IdValues)] /\ Applies \cap Reports = {}
    BY Kinds5 DEF TInv, TablesOK, LocalsOK, OthersOK, Handlers, Calls
  <2>e. Elements \subseteq Applies
    BY <2>t DEF Elements
  <2>1. \A a \in gone' \cup Elements' : a \in gone \cup Elements \/ (a \in Applies /\ at'[a] = "get")
    BY <1>2, TableStep
  <2>2. ASSUME NEW a \in gone' \cup Elements'
        PROVE  a \in Applies /\ at'[a] \notin Before
    <3>1. CASE a \in gone \cup Elements
      <4>1. a \in Applies /\ at[a] \notin Before
        BY <3>1, <2>t, <2>e DEF EnteredInv
      <4> QED
        BY <1>2, <4>1, BeforeIsLeft
    <3>2. CASE a \in Applies /\ at'[a] = "get"
      BY <3>2 DEF Before
    <3> QED
      BY <2>1, <3>1, <3>2
  <2>3. ASSUME NEW i \in Listed'
        PROVE  id'[list'[i]] = i /\ list'[i] \notin gone'
    <3>1. (id[list'[i]] = i \/ UNCHANGED list) /\ list'[i] \notin gone'
      BY <1>2, TableStep
    <3>2. id[list'[i]] = i
      BY <3>1 DEF EnteredInv, Listed
    <3>3. list'[i] \in Elements'
      BY DEF Elements
    <3>4. list'[i] \in Applies /\ at'[list'[i]] \notin Before
      BY <2>2, <3>3
    <3>5. id'[list'[i]] = id[list'[i]]
      <4> DEFINE a == list'[i]
      <4>1. ~DrawsFirst(a)
        BY <3>4, <2>t DEF DrawsFirst, Goes, TInv, HandlersOK, Before
      <4>2. CASE UNCHANGED id
        BY <4>2
      <4>3. ASSUME NEW b \in Applies, DrawsFirst(b)
            PROVE  id'[a] = id[a]
        BY <4>1, <4>3, <2>t, <3>4 DEF DrawsFirst
      <4>4. ASSUME NEW r \in Reports, ReportArrives(r)
            PROVE  id'[a] = id[a]
        BY <4>4, <2>t, <3>4 DEF ReportArrives
      <4> QED
        BY <1>2, <4>2, <4>3, <4>4, IdChanges
    <3> QED
      BY <3>1, <3>2, <3>5
  <2> QED
    BY <2>2, <2>3 DEF EnteredInv
<1> QED
  BY <1>1, <1>2

(* The Master's table implements the abstract one: whatever ids overlapping  *)
(* applies draw, a task is entered once, over nobody, and is out for good.   *)
THEOREM TableRefinement == Spec => ImplementsTaskTable
<1>1. Init => Table!Init /\ EnteredInv
  BY DEF Init, Table!Init, EnteredInv, Elements, Listed
<1>2. TInv /\ EnteredInv /\ [Next]_vars => [Table!Next]_(Table!vars)
  <2>1. UNCHANGED vars => UNCHANGED <<Elements, gone>>
    BY DEF vars, tables, outside, Elements, Listed
  <2> QED
    BY <2>1, TableStep DEF Table!vars
<1> QED
  BY <1>1, <1>2, SpecTyped, EnteredKept, PTL DEF Spec, ImplementsTaskTable, Table!Spec

-----------------------------------------------------------------------------
(* Who takes an accepted task out of the table *)

Early == {"new", "lookup", "record", "pop", "dead"}

Stopped == {"save", "create", "write", "down", "crashed"}

(* A report is of the end of an accepted task, and works on its id.          *)
ReportsInv ==
    /\ \A r \in Reports : about[r] # None => about[r] \in training
    /\ \A r \in Reports : at[r] \in ReportPlaces => about[r] # None /\ id[about[r]] = id[r]

PastInv == \A a \in Applies : id[a] # None => id[a].second <= now

(* The property to show, of every task that has left the table.              *)
GoneInv ==
    \A a \in gone :
        /\ id[a] # None
        /\ Reported(a) \/ ProcessOver(a) \/ Mistaken(a)

LEMMA IdStays ==
    ASSUME TInv, Next, NEW a \in Applies, at[a] \notin Before
    PROVE  UNCHANGED id[a]
<1>1. ~DrawsFirst(a)
  BY DEF DrawsFirst, Before
<1>t. Applies \subseteq Handlers /\ id \in [Handlers -> Optional(IdValues)] /\ Applies \cap Reports = {}
  BY Kinds5 DEF TInv, LocalsOK, Handlers, Calls
<1>2. CASE UNCHANGED id
  BY <1>2
<1>3. ASSUME NEW b \in Applies, DrawsFirst(b)
      PROVE  UNCHANGED id[a]
  BY <1>1, <1>3, <1>t DEF DrawsFirst
<1>4. ASSUME NEW r \in Reports, ReportArrives(r)
      PROVE  UNCHANGED id[a]
  BY <1>4, <1>t DEF ReportArrives
<1> QED
  BY <1>2, <1>3, <1>4, IdChanges

LEMMA AboutChanges ==
    ASSUME Next
    PROVE  UNCHANGED about \/ \E r \in Reports : ReportArrives(r)
<1>1. ASSUME NEW c \in Calls, CallEnters(c) \/ CallIsOver(c) \/ CommandNext(c)
      PROVE  UNCHANGED about
  BY <1>1 DEF CallEnters, CallIsOver, CommandNext, CommandMisses, CommandPanics, Panics, NodeJoins,
     NodeLeaves, NodesChecked, RecordViewed, RecordDeleted, outside
<1>2. ASSUME NEW p \in Handlers, Switches(p)
      PROVE  UNCHANGED about
  BY <1>2 DEF Switches, Counts, Flags, SetSingle1, Loads1, Loads2, Stops, outside
<1>3. ASSUME NEW a \in Applies, ApplyNext(a)
      PROVE  UNCHANGED about
  BY <1>3 DEF ApplyNext, ApplyReadsConfig, DrawsFirst, DrawsRest, DrawPanics, Panics, DrawsStore,
     ApplyDials, ApplyInserts, ApplyGets, ApplySends, ApplyLinks, Asks, Sent, Linked, NotReached,
     ApplyAddsTrain, ApplyAddsData, outside
<1>4. ASSUME NEW r \in Reports, ReportNext(r)
      PROVE  UNCHANGED about \/ ReportArrives(r)
  BY <1>4 DEF ReportNext, ReportLooksUp, ReportRecords, ReportPops, ReportGivesBack,
     ReportLeavesTrain, ReportLeavesData, Disconnects, outside
<1>5. ASSUME MainNext \/ Restarts
      PROVE  UNCHANGED about
  BY <1>5 DEF MainNext, MainReturns, MainCancels, MainClosesTasks, MainClosePanics, Panics,
     MainCollects, MainCreates, MainWrites, Restarts, outside
<1> QED
  BY <1>1, <1>2, <1>3, <1>4, <1>5 DEF Next

(* A process that has closed its table only goes on to its end.              *)
LEMMA StaysStopped ==
    ASSUME Next, main \in Stopped, ~Restarts
    PROVE  main' \in Stopped
<1>1. CASE main' = main \/ main' = "crashed"
  BY <1>1 DEF Stopped
<1>2. CASE MainNext
  BY <1>2 DEF MainNext, MainReturns, MainCancels, MainClosesTasks, MainClosePanics, Panics,
     MainCollects, MainCreates, MainWrites, Serving, Stopped
<1> QED
  BY <1>1, <1>2, MainChanges

(* How a report may move while its process goes on.                          *)
LEMMA ReportMoves ==
    ASSUME TInv, Next, NEW r \in Reports
    PROVE  /\ at[r] \notin Early => at'[r] \notin Early \/ main' \in Stopped
           /\ at'[r] \in ReportPlaces => at[r] \in ReportPlaces \/ ReportArrives(r)
<1>r. r \in Handlers /\ HandlersOK /\ r \notin Calls /\ r \notin Applies
  BY Kinds5 DEF Handlers, Calls, TInv
<1>o. ASSUME NEW p, NEW to, Goes(p, to), p # r
      PROVE  UNCHANGED at[r]
  BY <1>o, <1>r, OneMoves
<1>k. at' = Killed => UNCHANGED at[r] \/ at'[r] = "dead"
  BY <1>r DEF Killed
<1>1. ASSUME NEW c \in Calls, CallEnters(c) \/ CallIsOver(c) \/ CommandNext(c)
      PROVE  UNCHANGED at[r] \/ (at'[r] = "dead" /\ main' \in Stopped)
  <2>1. (main' = "crashed" /\ at' = Killed) \/ \E to : Goes(c, to)
    BY <1>1 DEF CallEnters, CallIsOver, CommandNext, CommandMisses, CommandPanics, Panics, NodeJoins,
       NodeLeaves, NodesChecked, RecordViewed, RecordDeleted
  <2> QED
    BY <2>1, <1>o, <1>r, <1>k DEF Stopped
<1>2. ASSUME NEW p \in Handlers, Switches(p)
      PROVE  UNCHANGED at[r] \/ (at'[r] \notin Early /\ at'[r] \notin ReportPlaces)
  <2>1. PICK to \in CheckPlaces \cup {"done"} : Goes(p, to)
    BY <1>2 DEF Switches, Counts, Flags, SetSingle1, Loads1, Loads2, Stops, AfterSwitch, CheckPlaces
  <2>2. CASE p # r
    BY <2>1, <2>2, <1>o
  <2>3. CASE p = r
    <3>1. at'[r] = to
      BY <2>1, <2>3, <1>r DEF Goes, HandlersOK
    <3> QED
      BY <3>1 DEF CheckPlaces, Early, ReportPlaces
  <2> QED
    BY <2>2, <2>3
<1>3. ASSUME NEW a \in Applies, ApplyNext(a)
      PROVE  UNCHANGED at[r] \/ (at'[r] = "dead" /\ main' \in Stopped)
  <2>1. (main' = "crashed" /\ at' = Killed) \/ \E to : Goes(a, to)
    BY <1>3 DEF ApplyNext, ApplyReadsConfig, DrawsFirst, DrawsRest, DrawPanics, Panics, DrawsStore,
       ApplyDials, ApplyInserts, ApplyGets, ApplySends, ApplyLinks, Asks, Sent, Linked, NotReached,
       ApplyAddsTrain, ApplyAddsData
  <2> QED
    BY <2>1, <1>o, <1>r, <1>k DEF Stopped
<1>4. ASSUME NEW q \in Reports, ReportNext(q)
      PROVE  /\ at[r] \notin Early => at'[r] \notin Early
             /\ at'[r] \in ReportPlaces => at[r] \in ReportPlaces \/ ReportArrives(r)
  <2>1. CASE q # r
    <3>1. \E to : Goes(q, to)
      BY <1>4 DEF ReportNext, ReportArrives, ReportLooksUp, ReportRecords, ReportPops, ReportGivesBack,
         ReportLeavesTrain, ReportLeavesData, Disconnects
    <3> QED
      BY <3>1, <2>1, <1>o
  <2>2. CASE q = r /\ ReportArrives(r)
    BY <2>2 DEF ReportArrives, Early
  <2>3. CASE q = r /\ ~ReportArrives(r)
    <3>1. at[r] \in ReportPlaces
      BY <1>4, <2>3 DEF ReportNext, ReportLooksUp, ReportRecords, ReportPops, ReportGivesBack,
         ReportLeavesTrain, ReportLeavesData, Disconnects, ReportPlaces
    <3>2. at[r] \in Early \/ \E to \in {"leaveTrain", "leaveData", "count"} : Goes(r, to)
      BY <1>4, <2>3 DEF ReportNext, ReportLooksUp, ReportRecords, ReportPops, ReportGivesBack,
         ReportLeavesTrain, ReportLeavesData, Disconnects, Early
    <3>3. \A to : Goes(r, to) => at'[r] = to
      BY <1>r DEF Goes, HandlersOK
    <3> QED
      BY <3>1, <3>2, <3>3 DEF Early
  <2> QED
    BY <2>1, <2>2, <2>3
<1>5. ASSUME MainNext \/ Restarts
      PROVE  UNCHANGED at[r] \/ (at'[r] = "dead" /\ main' \in Stopped)
  <2>1. UNCHANGED at \/ (main' \in Stopped /\ at' = Killed)
    BY <1>5 DEF MainNext, MainReturns, MainCancels, MainClosesTasks, MainClosePanics, Panics,
       MainCollects, MainCreates, MainWrites, Restarts, Stopped
  <2> QED
    BY <2>1, <1>k
<1>6. "dead" \notin ReportPlaces
  BY DEF ReportPlaces
<1> QED
  BY <1>1, <1>2, <1>3, <1>4, <1>5, <1>6 DEF Next

(* The end of a task that has been reported stays so, until its process is   *)
(* over.                                                                     *)
LEMMA ReportedStays ==
    ASSUME TInv, Next, main' \notin Stopped, NEW a \in Applies, Reported(a)
    PROVE  Reported(a)'
<1>1. PICK r \in Reports : about[r] = a /\ at[r] \notin Early
  BY DEF Reported, Early
<1>2. at'[r] \notin Early
  BY <1>1, ReportMoves
<1>3. about'[r] = a
  <2>1. ~ReportArrives(r)
    BY <1>1 DEF ReportArrives, Early
  <2>2. ASSUME NEW q \in Reports, ReportArrives(q)
        PROVE  about'[r] = a
    BY <2>1, <2>2, <1>1 DEF ReportArrives, TInv, OthersOK
  <2> QED
    BY <2>2, <1>1, AboutChanges
<1> QED
  BY <1>2, <1>3 DEF Reported, Early

LEMMA ReportsKept ==
    TInv /\ AcceptedKnown /\ EnteredInv /\ ReportsInv /\ [Next]_vars => ReportsInv'
<1> SUFFICES ASSUME TInv, AcceptedKnown, EnteredInv, ReportsInv, [Next]_vars
             PROVE  ReportsInv'
  OBVIOUS
<1>1. CASE UNCHANGED vars
  <2>1. UNCHANGED <<about, training, at, id>>
    BY <1>1 DEF vars, outside, locals
  <2> QED
    BY <2>1 DEF ReportsInv
<1>2. CASE Next
  <2>t. /\ about \in [Reports -> Optional(Applies)] /\ training \subseteq Applies
        /\ id \in [Handlers -> Optional(IdValues)] /\ Reports \subseteq Handlers
        /\ Applies \subseteq Handlers /\ Applies \cap Reports = {} /\ None \notin Applies
    BY Kinds5 DEF TInv, OthersOK, LocalsOK, Handlers, Calls
  <2>a. training \subseteq training'
    BY <1>2, IdChanges DEF Sent
  <2>i. ASSUME NEW a \in training
        PROVE  UNCHANGED id[a]
    BY <1>2, <2>t, IdStays DEF AcceptedKnown, EnteredInv
  <2>1. ASSUME NEW r \in Reports, ReportArrives(r)
        PROVE  /\ about'[r] \in training /\ id'[about'[r]] = id'[r]
               /\ \A q \in Reports \ {r} : UNCHANGED <<about[q], id[q]>>
    <3>1. PICK a \in training : id' = [id EXCEPT ![r] = id[a]] /\ about' = [about EXCEPT ![r] = a]
      BY <2>1 DEF ReportArrives
    <3> QED
      BY <3>1, <2>t
  <2>2. ASSUME NEW r \in Reports, ~ReportArrives(r)
        PROVE  UNCHANGED <<about[r], id[r]>>
    <3>1. ASSUME NEW q \in Reports, ReportArrives(q)
          PROVE  UNCHANGED <<about[r], id[r]>>
      BY <3>1, <2>1, <2>2
    <3>2. ASSUME NEW a \in Applies, DrawsFirst(a)
          PROVE  UNCHANGED id[r]
      BY <3>2, <2>t DEF DrawsFirst
    <3> QED
      BY <1>2, <3>1, <3>2, AboutChanges, IdChanges
  <2>3. ASSUME NEW r \in Reports
        PROVE  /\ about'[r] # None => about'[r] \in training'
               /\ at'[r] \in ReportPlaces => about'[r] # None /\ id'[about'[r]] = id'[r]
    <3>1. CASE ReportArrives(r)
      BY <3>1, <2>1, <2>a, <2>t
    <3>2. CASE ~ReportArrives(r)
      <4>1. about'[r] # None => about'[r] \in training'
        BY <3>2, <2>2, <2>a DEF ReportsInv
      <4>2. ASSUME at'[r] \in ReportPlaces
            PROVE  about'[r] # None /\ id'[about'[r]] = id'[r]
        <5>1. at[r] \in ReportPlaces
          BY <1>2, <3>2, <4>2, ReportMoves
        <5>2. about[r] \in training /\ id[about[r]] = id[r] /\ about[r] # None
          BY <5>1 DEF ReportsInv
        <5> QED
          BY <5>2, <2>2, <3>2, <2>i
      <4> QED
        BY <4>1, <4>2
    <3> QED
      BY <3>1, <3>2
  <2> QED
    BY <2>3 DEF ReportsInv
<1> QED
  BY <1>1, <1>2

LEMMA PastKept == TInv /\ PastInv /\ [Next]_vars => PastInv'
<1> SUFFICES ASSUME TInv, PastInv, [Next]_vars, NEW a \in Applies, id'[a] # None
             PROVE  id'[a].second <= now'
  BY DEF PastInv
<1>t. /\ now \in Nat /\ Applies \subseteq Handlers /\ Applies \cap Reports = {}
      /\ id \in [Handlers -> Optional(IdValues)] /\ None \notin IdValues
  BY Kinds5, IdAssumption DEF TInv, OthersOK, LocalsOK, Handlers, Calls
<1>1. CASE UNCHANGED <<id, now>>
  BY <1>1 DEF PastInv
<1>2. CASE Next
  <2>n. now' \in Nat /\ now <= now'
    <3>1. now' = now \/ now' = now + 1
      BY <1>2, ClockChanges DEF Restarts
    <3> QED
      BY <3>1, <1>t
  <2>1. CASE UNCHANGED id[a]
    <3>1. id[a] \in IdValues /\ id[a].second <= now
      BY <2>1, <1>t DEF PastInv, Optional
    <3>2. id[a].second \in Nat
      BY <3>1 DEF IdValues
    <3> QED
      BY <2>1, <2>n, <3>1, <3>2, <1>t
  <2>2. CASE DrawsFirst(a)
    <3>1. id'[a] = NewId(FirstCounter) /\ now' = now
      BY <2>2, <1>t DEF DrawsFirst
    <3> QED
      BY <3>1, <1>t DEF NewId
  <2>3. ASSUME NEW b \in Applies, DrawsFirst(b), b # a
        PROVE  UNCHANGED id[a]
    BY <2>3, <1>t DEF DrawsFirst
  <2>4. ASSUME NEW r \in Reports, ReportArrives(r)
        PROVE  UNCHANGED id[a]
    BY <2>4, <1>t DEF ReportArrives
  <2> QED
    BY <1>2, <2>1, <2>2, <2>3, <2>4, IdChanges
<1> QED
  BY <1>1, <1>2 DEF vars, locals

LEMMA GoneKept ==
    /\ TInv /\ TrainedHaveIds /\ AcceptedKnown /\ EnteredInv /\ ReportsInv /\ PastInv
    /\ GoneInv /\ [Next]_vars
    => GoneInv'
<1> SUFFICES ASSUME TInv, TrainedHaveIds, AcceptedKnown, EnteredInv, ReportsInv, PastInv,
                    GoneInv, [Next]_vars, NEW a \in gone'
             PROVE  id'[a] # None /\ (Reported(a)' \/ ProcessOver(a)' \/ Mistaken(a)')
  BY DEF GoneInv, Mistaken, Reported, ProcessOver
<1>t. /\ gone \subseteq Applies /\ training \subseteq Applies /\ Elements \subseteq Applies
      /\ Applies \subseteq Handlers /\ Reports \subseteq Handlers /\ now \in Nat
      /\ id \in [Handlers -> Optional(IdValues)] /\ None \notin IdValues /\ HandlersOK
      /\ Listed \subseteq IdValues
  BY IdAssumption DEF TInv, OthersOK, LocalsOK, TablesOK, Elements, Handlers, Calls
<1>1. CASE UNCHANGED vars
  <2>1. UNCHANGED <<about, gone, at, id, now, main>>
    BY <1>1 DEF vars, outside, locals
  <2> QED
    BY <2>1 DEF GoneInv, Reported, ProcessOver, Mistaken
<1>2. CASE Next
  <2>e. ASSUME NEW b \in gone \cup Elements
        PROVE  b \in Applies /\ UNCHANGED id[b] /\ id[b] \in IdValues /\ id[b].second <= now
    <3>1. b \in Applies /\ at[b] \notin Before
      BY <1>t DEF EnteredInv
    <3>2. id[b] # None
      BY <1>t DEF GoneInv, EnteredInv, Elements
    <3> QED
      BY <1>2, <1>t, <3>1, <3>2, IdStays DEF PastInv, Optional
  <2>f. a \in gone \cup Elements
    <3>1. CASE UNCHANGED gone
      BY <3>1
    <3>2. ASSUME NEW r \in Reports, ReportPops(r)
          PROVE  a \in gone \cup Elements
      BY <3>2 DEF ReportPops, Elements
    <3>3. CASE MainClosesTasks \/ Restarts
      BY <3>3 DEF MainClosesTasks, Restarts
    <3>4. ASSUME NEW b \in Applies, ApplyInserts(b)
          PROVE  UNCHANGED gone
      BY <3>4 DEF ApplyInserts, outside
    <3> QED
      BY <1>2, <3>1, <3>2, <3>3, <3>4, TableChanges
  <2>g. id'[a] = id[a] /\ id[a] \in IdValues /\ id[a].second <= now /\ a \in Applies
    BY <2>e, <2>f
  <2>1. CASE main' \in Stopped
    BY <2>1, <2>g, <1>t DEF Stopped, ProcessOver
  <2>2. CASE Restarts
    <3>1. id[a].second \in Nat
      BY <2>g DEF IdValues
    <3>2. id[a].second # now'
      BY <2>2, <2>g, <3>1, <1>t DEF Restarts
    <3> QED
      BY <3>2, <2>g, <1>t DEF ProcessOver
  <2>3. CASE main' \notin Stopped /\ ~Restarts /\ a \in gone
    <3>1. main \notin Stopped
      BY <1>2, <2>3, StaysStopped
    <3>2. now' = now
      BY <1>2, <2>3, ClockChanges
    <3>3. CASE Reported(a)
      BY <1>2, <2>3, <2>g, <1>t, <3>3, ReportedStays
    <3>4. CASE ProcessOver(a)
      <4>1. id[a].second # now
        BY <3>1, <3>4 DEF ProcessOver, Stopped
      <4> QED
        BY <4>1, <3>2, <2>g, <1>t DEF ProcessOver
    <3>5. CASE Mistaken(a)
      <4>1. PICK b \in Applies \ {a} : id[b] = id[a] /\ Reported(b)
        BY <3>5 DEF Mistaken
      <4>2. Reported(b)'
        BY <1>2, <2>3, <4>1, ReportedStays
      <4>3. b \in training
        BY <4>1, <1>t, MasterAssumption, Kinds5 DEF Reported, ReportsInv
      <4>4. id'[b] = id[b]
        BY <2>e, <4>3 DEF AcceptedKnown
      <4> QED
        BY <4>1, <4>2, <4>4, <2>g, <1>t DEF Mistaken
    <3> QED
      BY <2>3, <3>3, <3>4, <3>5 DEF GoneInv
  <2>4. CASE main' \notin Stopped /\ ~Restarts /\ a \notin gone
    <3>1. ~MainClosesTasks
      BY <2>4 DEF MainClosesTasks, Stopped
    <3>2. ASSUME NEW b \in Applies, ApplyInserts(b)
          PROVE  UNCHANGED gone
      BY <3>2 DEF ApplyInserts, outside
    <3>3. PICK r \in Reports : ReportPops(r)
      BY <1>2, <2>4, <3>1, <3>2, TableChanges
    <3>4. id[r] \in Listed /\ a = list[id[r]]
      BY <2>4, <3>3 DEF ReportPops
    <3>5. id[a] = id[r]
      BY <3>4 DEF EnteredInv
    <3>6. about[r] \in training /\ id[about[r]] = id[r]
      BY <3>3 DEF ReportPops, ReportPlaces, ReportsInv
    <3>7. at'[r] = "give" /\ about'[r] = about[r]
      BY <3>3, <1>t DEF ReportPops, Goes, HandlersOK
    <3>8. \E q \in Reports : about'[q] = about[r]
                             /\ at'[q] \notin {"new", "lookup", "record", "pop", "dead"}
      BY <3>7
    <3>9. id'[about[r]] = id[about[r]] /\ about[r] \in Applies
      BY <2>e, <3>6, <1>t DEF AcceptedKnown
    <3>10. CASE about[r] = a
      BY <3>8, <3>10, <2>g, <1>t DEF Reported
    <3>11. CASE about[r] # a
      BY <3>11, <3>5, <3>6, <3>8, <3>9, <2>g, <1>t DEF Mistaken, Reported
    <3> QED
      BY <3>10, <3>11
  <2> QED
    BY <2>1, <2>2, <2>3, <2>4
<1> QED
  BY <1>1, <1>2

(* A task the Training Node has accepted stays known to the Master until its *)
(* own end has been reported or its process is over, however its apply goes  *)
(* on and however many reports there are; the only other way out is the      *)
(* report of a task that was given the same id.                              *)
THEOREM NoAcceptedTaskForgotten == Spec => []AcceptedStaysListed
<1>1. Init => ApplyKeepsItsEntry /\ AcceptedKnown /\ EnteredInv /\ ReportsInv /\ PastInv /\ GoneInv
  BY DEF Init, ApplyKeepsItsEntry, AcceptedKnown, HasEntry, Handlers, Calls, EnteredInv, Elements,
     Listed, ReportsInv, ReportPlaces, PastInv, GoneInv
<1>2. AcceptedKnown /\ GoneInv => AcceptedStaysListed
  BY DEF AcceptedKnown, GoneInv, AcceptedStaysListed
<1> QED
  BY <1>1, <1>2, SpecTyped, EntryKept, AcceptedKept, EnteredKept, ReportsKept, PastKept, GoneKept,
     PTL DEF Spec
=============================================================================
