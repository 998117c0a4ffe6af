--------------------------- MODULE DataNodeProofs ---------------------------
(***************************************************************************)
(* Theorems about the Data Node, for any calls, ids, selections and        *)
(* capacities.                                                             *)
(***************************************************************************)
EXTENDS DataNodeProperties, SequenceTheorems, TLAPS

(* What the places of the goroutines say of their local variables: a step   *)
(* uses only what an earlier step has set.                                  *)
BeginSound(b, channels, last) ==
    /\ b.drain <= channels
    /\ b.pc \notin {"next", "ended"} => b.reg \in Regs /\ b.todo # <<>>
    /\ b.pc \in {"get", "append", "count", "hire", "put"} => b.row \in Rows
    /\ b.pc \in {"put", "remove"} => b.at \in Nat
    /\ b.pc = "hire" => last >= 0

BegunOK   ==
    /\ begun \in Seq(Begins)
    /\ \A d \in DOMAIN begun : BeginSound(begun[d], Len(chans), top)
WorkersOK ==
    /\ worker \in Seq(Workers)
    /\ \A w \in DOMAIN worker : worker[w].pc = "handle" => worker[w].row \in Rows
CancelsOK == \A c \in CancelCalls :
    cancel[c].pc \in {"hangUp", "release"} => cancel[c].reg \in Regs

IInv ==
    /\ TablesOK /\ ListOK /\ ControllerOK /\ OthersOK /\ HistoryOK
    /\ CancelsOK /\ BegunOK /\ WorkersOK

-----------------------------------------------------------------------------
(* Sequences                                                                 *)

LEMMA Replaced ==
    ASSUME NEW S, NEW s \in Seq(S), NEW i \in DOMAIN s, NEW e \in S
    PROVE  /\ [s EXCEPT ![i] = e] \in Seq(S)
           /\ DOMAIN [s EXCEPT ![i] = e] = DOMAIN s
           /\ Len([s EXCEPT ![i] = e]) = Len(s)
           /\ \A j \in DOMAIN s : [s EXCEPT ![i] = e][j] = IF j = i THEN e ELSE s[j]
<1>1. i \in 1..Len(s) /\ DOMAIN s = 1..Len(s)
    BY LenProperties
<1> QED
    BY <1>1, ExceptSeq, LenProperties

LEMMA Extended ==
    ASSUME NEW S, NEW s \in Seq(S), NEW e \in S
    PROVE  /\ Append(s, e) \in Seq(S)
           /\ Len(Append(s, e)) = Len(s) + 1
           /\ DOMAIN Append(s, e) = 1..(Len(s) + 1)
           /\ DOMAIN s = 1..Len(s) /\ Len(s) \in Nat
           /\ \A j \in DOMAIN Append(s, e) :
                Append(s, e)[j] = IF j = Len(s) + 1 THEN e ELSE s[j]
BY AppendProperties, LenProperties

LEMMA Member ==
    ASSUME NEW S, NEW s \in Seq(S), NEW i \in DOMAIN s
    PROVE  s[i] \in S
BY LenProperties

LEMMA HeadTail ==
    ASSUME NEW S, NEW s \in Seq(S), s # <<>>
    PROVE  Head(s) \in S /\ Tail(s) \in Seq(S)
BY HeadTailProperties

(* A place taken out of a sequence.                                          *)
LEMMA Removed ==
    ASSUME NEW S, NEW s \in Seq(S), NEW k \in Nat, k <= Len(s)
    PROVE  LET t == SubSeq(s, 1, k - 1) \o SubSeq(s, k + 1, Len(s))
           IN  t \in Seq(S) /\ Len(t) >= Len(s) - 1
<1> DEFINE a == SubSeq(s, 1, k - 1)
           b == SubSeq(s, k + 1, Len(s))
<1>1. Len(s) \in Nat /\ \A i \in 1..Len(s) : s[i] \in S
    BY LenProperties, ElementOfSeq
<1>2. a \in Seq(S) /\ Len(a) = IF 1 <= k - 1 THEN (k - 1) - 1 + 1 ELSE 0
    <2>1. 1 \in Int /\ k - 1 \in Int /\ \A i \in 1..(k - 1) : s[i] \in S
        BY <1>1
    <2> QED
        BY <2>1, SubSeqProperties
<1>3. b \in Seq(S) /\ Len(b) = IF k + 1 <= Len(s) THEN Len(s) - (k + 1) + 1 ELSE 0
    <2>1. k + 1 \in Int /\ Len(s) \in Int /\ \A i \in (k + 1)..Len(s) : s[i] \in S
        BY <1>1
    <2> QED
        BY <2>1, SubSeqProperties
<1> HIDE DEF a, b
<1>4. a \o b \in Seq(S) /\ Len(a \o b) = Len(a) + Len(b)
    BY <1>2, <1>3, ConcatProperties
<1>5. Len(a \o b) >= Len(s) - 1
    <2>1. Len(s) \in Nat /\ Len(a) = IF 1 <= k - 1 THEN k - 1 ELSE 0
        BY <1>1, <1>2
    <2>2. Len(b) = IF k + 1 <= Len(s) THEN Len(s) - k ELSE 0
        BY <1>1, <1>3
    <2>3. Len(a \o b) = Len(a) + Len(b)
        BY <1>4
    <2>4. CASE k = 0
        BY <2>1, <2>2, <2>3, <2>4
    <2>5. CASE k # 0
        <3>1. Len(a) = k - 1
            BY <2>1, <2>5
        <3>2. Len(b) = Len(s) - k
            BY <2>1, <2>2, <2>5
        <3> QED
            BY <2>1, <2>3, <3>1, <3>2
    <2> QED
        BY <2>4, <2>5
<1> QED
    BY <1>4, <1>5 DEF a, b

-----------------------------------------------------------------------------
(* The channels only grow in number, so what was typed stays typed; Top may  *)
(* be set back by a late writer, but not below the first place.              *)
Grows ==
    /\ Len(chans') >= Len(chans) /\ chans' \in Seq(Seq(Rows))
    /\ top' \in Index /\ (top' >= 0 \/ top' = top)

LEMMA TypesGrow ==
    ASSUME ControllerOK, Grows
    PROVE  Channels \subseteq Channels' /\ Begins \subseteq Begins' /\ Workers \subseteq Workers'
<1>1. Channels \subseteq Channels'
    <2>1. DOMAIN chans = 1..Len(chans) /\ Len(chans) \in Nat
        BY LenProperties DEF ControllerOK
    <2>2. DOMAIN chans' = 1..Len(chans') /\ Len(chans') \in Nat
        BY LenProperties DEF Grows
    <2> QED
        BY <2>1, <2>2 DEF Grows, Channels
<1>2. Seq(Channels) \subseteq Seq(Channels')
    BY <1>1, SeqMonotonic
<1> QED
    BY <1>1, <1>2 DEF Begins, Workers

LEMMA SoundGrows ==
    ASSUME IInv, Grows, NEW b \in Begins,
           BeginSound(b, Len(chans), top)
    PROVE  BeginSound(b, Len(chans'), top')
<1>1. Len(chans) \in Nat /\ Len(chans') \in Nat
    BY LenProperties DEF IInv, ControllerOK, Grows
<1>2. b.drain \in Nat /\ top \in Int /\ top' \in Int
    BY DEF Begins, Index, IInv, ControllerOK, Grows
<1> QED
    BY <1>1, <1>2 DEF BeginSound, Grows

LEMMA BegunKept ==
    ASSUME IInv, Grows, UNCHANGED begun
    PROVE  BegunOK'
<1>1. begun \in Seq(Begins')
    BY TypesGrow, SeqMonotonic DEF IInv, BegunOK
<1>2. ASSUME NEW d \in DOMAIN begun PROVE BeginSound(begun'[d], Len(chans'), top')
    <2>1. begun[d] \in Begins /\ BeginSound(begun[d], Len(chans), top)
        BY Member DEF IInv, BegunOK
    <2>2. PICK c : c = begun[d]
        OBVIOUS
    <2>3. BeginSound(c, Len(chans'), top')
        BY <2>1, <2>2, SoundGrows
    <2> QED
        BY <2>2, <2>3 DEF BeginSound
<1> QED
    BY <1>1, <1>2 DEF BegunOK

LEMMA BegunMoves ==
    ASSUME IInv, Grows, NEW d \in DOMAIN begun,
           NEW b \in Begins', BeginSound(b, Len(chans'), top'), begun' = [begun EXCEPT ![d] = b]
    PROVE  BegunOK'
<1>1. begun \in Seq(Begins')
    BY TypesGrow, SeqMonotonic DEF IInv, BegunOK
<1>2. begun' \in Seq(Begins') /\ DOMAIN begun' = DOMAIN begun
      /\ \A e \in DOMAIN begun : begun'[e] = IF e = d THEN b ELSE begun[e]
    BY <1>1, Replaced
<1>3. ASSUME NEW e \in DOMAIN begun PROVE BeginSound(begun'[e], Len(chans'), top')
    <2>1. CASE e = d
        BY <1>2, <2>1 DEF BeginSound
    <2>2. CASE e # d
        <3>1. begun[e] \in Begins /\ BeginSound(begun[e], Len(chans), top)
            BY Member DEF IInv, BegunOK
        <3>2. PICK c : c = begun[e]
            OBVIOUS
        <3>3. BeginSound(c, Len(chans'), top')
            BY <3>1, <3>2, SoundGrows
        <3>4. begun'[e] = c
            BY <1>2, <2>2, <3>2
        <3> QED
            BY <3>3, <3>4 DEF BeginSound
    <2> QED
        BY <2>1, <2>2
<1> QED
    BY <1>2, <1>3 DEF BegunOK

LEMMA WorkersKept ==
    ASSUME IInv, Grows, UNCHANGED worker
    PROVE  WorkersOK'
<1>1. worker \in Seq(Workers')
    BY TypesGrow, SeqMonotonic DEF IInv, WorkersOK
<1> QED
    BY <1>1 DEF IInv, WorkersOK

LEMMA WorkerMoves ==
    ASSUME IInv, NEW w \in DOMAIN worker, NEW v \in Workers,
           v.pc = "handle" => v.row \in Rows, worker' = [worker EXCEPT ![w] = v],
           Grows
    PROVE  WorkersOK'
<1>1. worker' \in Seq(Workers) /\ DOMAIN worker' = DOMAIN worker
      /\ \A x \in DOMAIN worker : worker'[x] = IF x = w THEN v ELSE worker[x]
    BY Replaced DEF IInv, WorkersOK
<1>2. worker' \in Seq(Workers')
    BY <1>1, TypesGrow, SeqMonotonic DEF IInv
<1>3. ASSUME NEW x \in DOMAIN worker, worker'[x].pc = "handle" PROVE worker'[x].row \in Rows
    BY <1>1, <1>3 DEF IInv, WorkersOK
<1> QED
    BY <1>1, <1>2, <1>3 DEF WorkersOK

(* A step that leaves the controller alone.                                  *)
LEMMA ControllerKept ==
    ASSUME IInv, UNCHANGED controller
    PROVE  Grows /\ ControllerOK'
<1>1. Len(chans) \in Nat
    BY LenProperties DEF IInv, ControllerOK
<1> QED
    BY <1>1 DEF IInv, ControllerOK, controller, Grows, Channels

LEMMA GoroutinesKept ==
    ASSUME IInv, UNCHANGED <<controller, begun, worker>>
    PROVE  ControllerOK' /\ BegunOK' /\ WorkersOK'
<1>1. Grows /\ ControllerOK'
    BY ControllerKept
<1> QED
    BY <1>1, BegunKept, WorkersKept

(* The shared tables.                                                        *)
LEMMA PopTyped ==
    ASSUME IInv, NEW i, PopEntry(i)
    PROVE  TablesOK'
BY DEF IInv, TablesOK, PopEntry, Optional

LEMMA CountingTyped ==
    ASSUME IInv, NEW i \in Ids, NEW n \in Nat, AddErrors(i, n),
           UNCHANGED <<relate, cancelled, handled, finished>>
    PROVE  TablesOK' /\ HistoryOK'
<1>1. CASE records[i] = None
    BY <1>1 DEF AddErrors, IInv, TablesOK, HistoryOK
<1>2. CASE records[i] # None
    <2> DEFINE rec == records[i]
               more == [rec EXCEPT !.occurred = @ + n]
    <2>1. rec \in [of : Regs, occurred : Nat]
        BY <1>2 DEF IInv, TablesOK, Optional
    <2>2. more \in [of : Regs, occurred : Nat]
        BY <2>1
    <2>3. records' \in [Ids -> Optional([of : Regs, occurred : Nat])]
        <3>1. CASE records' = [records EXCEPT ![i] = None]
            BY <3>1 DEF IInv, TablesOK, Optional
        <3>2. CASE records' = [records EXCEPT ![i] = more]
            <4> HIDE DEF more
            <4> QED
                BY <2>2, <3>2 DEF IInv, TablesOK, Optional
        <3> QED
            BY <1>2, <3>1, <3>2 DEF AddErrors
    <2>4. TablesOK'
        BY <2>3 DEF IInv, TablesOK
    <2>5. counted' = [counted EXCEPT ![rec.of] = @ + n]
          /\ (verdicts' = [verdicts EXCEPT ![rec.of] = @ + 1] \/ UNCHANGED verdicts)
        BY <1>2 DEF AddErrors
    <2>6. HistoryOK'
        BY <2>1, <2>5 DEF IInv, HistoryOK
    <2> QED
        BY <2>4, <2>6
<1> QED
    BY <1>1, <1>2

LEMMA RemovePlaceTyped ==
    ASSUME IInv, NEW i, NEW k \in Nat, k <= Len(list), RemovePlace(i, k)
    PROVE  ListOK'
<1>1. list \in Seq(Ids) /\ Len(list) \in Nat /\ fetched \in Int /\ fetched < Len(list)
    BY LenProperties DEF IInv, ListOK
<1>2. list' \in Seq(Ids) /\ Len(list') >= Len(list) - 1
    BY <1>1, Removed DEF RemovePlace
<1>3. fetched' \in Int /\ fetched' < Len(list')
    <2>1. Len(list') \in Nat /\ fetched' = fetched - 1
        BY <1>2, LenProperties DEF RemovePlace
    <2> QED
        BY <1>1, <1>2, <2>1
<1>4. listLocked' \in BOOLEAN
    BY DEF RemovePlace, MatchesAgain
<1> QED
    BY <1>2, <1>3, <1>4 DEF ListOK

LEMMA PanicTyped == IInv /\ Panics => IInv'
<1> SUFFICES ASSUME IInv, Panics PROVE IInv'
    OBVIOUS
<1> USE DEF Panics
<1>1. ControllerOK' /\ BegunOK' /\ WorkersOK'
    BY GoroutinesKept
<1>2. TablesOK' /\ ListOK' /\ OthersOK' /\ HistoryOK' /\ CancelsOK'
    BY DEF IInv, TablesOK, ListOK, OthersOK, HistoryOK, CancelsOK, tables, idManager, resources,
           calls, history
<1> QED
    BY <1>1, <1>2 DEF IInv

-----------------------------------------------------------------------------
LEMMA InitTyped == Init => IInv
<1> SUFFICES ASSUME Init PROVE IInv
    OBVIOUS
<1>1. TablesOK
    BY DEF Init, TablesOK, Optional
<1>2. ListOK
    <2>1. list \in Seq(Ids) /\ Len(list) = 0
        BY EmptySeq DEF Init
    <2>2. fetched = -1 /\ listLocked = FALSE
        BY DEF Init
    <2>3. fetched \in Int /\ fetched < Len(list)
        BY <2>1, <2>2
    <2>4. listLocked \in BOOLEAN
        BY <2>2
    <2> QED
        BY <2>1, <2>3, <2>4 DEF ListOK
<1>3. ControllerOK
    BY EmptySeq DEF Init, ControllerOK, Index
<1>4. OthersOK
    BY DEF Init, OthersOK, Cancels, RegisterPCs, CancelPCs, Optional
<1>5. HistoryOK
    BY DEF Init, HistoryOK
<1>6. CancelsOK
    BY DEF Init, CancelsOK
<1>7. BegunOK /\ WorkersOK
    <2>1. begun \in Seq(Begins) /\ DOMAIN begun = {} /\ worker \in Seq(Workers) /\ DOMAIN worker = {}
        BY EmptySeq DEF Init
    <2> QED
        BY <2>1 DEF BegunOK, WorkersOK
<1> QED
    BY <1>1, <1>2, <1>3, <1>4, <1>5, <1>6, <1>7 DEF IInv

LEMMA RegisterTyped ==
    ASSUME IInv, NEW r \in Regs, RegisterNext(r)
    PROVE  IInv'
<1>1. PICK from \in RegisterPCs, to \in RegisterPCs : RegisterAt(r, from, to)
    BY DEF RegisterNext, RegisterPCs, RegisterRecord, RegisterRefused, RegisterEntry,
           RegisterExists, RegisterList, RegisterOffer
<1>2. ControllerOK' /\ BegunOK' /\ WorkersOK'
    BY <1>1, GoroutinesKept DEF RegisterAt
<1>3. HistoryOK' /\ CancelsOK'
    BY <1>1 DEF IInv, RegisterAt, HistoryOK, CancelsOK, history
<1>4. register' \in [Regs -> RegisterPCs]
    BY <1>1 DEF IInv, RegisterAt, OthersOK
<1>5. run' \in {"wait", "fetch"}
    BY DEF RegisterNext, IInv, OthersOK, RegisterRecord, RegisterRefused, RegisterEntry,
           RegisterExists, RegisterList, RegisterOffer
<1>6. OthersOK'
    BY <1>1, <1>4, <1>5 DEF IInv, OthersOK, RegisterAt, resources
<1>7. TablesOK' /\ ListOK'
    <2>1. IdOf[r] \in Ids /\ r # None
        BY DataAssumption
    <2>2. CASE RegisterRecord(r)
        BY <2>1, <2>2 DEF RegisterRecord, IInv, TablesOK, Optional, ListOK, idManager
    <2>3. CASE RegisterRefused(r)
        BY <2>3 DEF RegisterRefused, IInv, TablesOK, ListOK, tables, idManager
    <2>4. CASE RegisterEntry(r)
        <3>1. relate' = [relate EXCEPT ![IdOf[r]] = r] /\ UNCHANGED <<records, cancelled, idManager>>
            BY <2>4 DEF RegisterEntry
        <3>2. TablesOK'
            BY <2>1, <3>1 DEF IInv, TablesOK, Optional
        <3> QED
            BY <3>1, <3>2 DEF IInv, ListOK, idManager
    <2>5. CASE RegisterExists(r)
        BY <2>5 DEF RegisterExists, IInv, TablesOK, ListOK, tables, idManager
    <2>6. CASE RegisterList(r)
        <3>1. list' \in Seq(Ids) /\ Len(list') = Len(list) + 1 /\ Len(list) \in Nat
            BY <2>1, <2>6, Extended DEF RegisterList, IInv, ListOK
        <3>2. fetched < Len(list')
            BY <2>6, <3>1 DEF RegisterList, IInv, ListOK
        <3> QED
            BY <2>6, <3>1, <3>2 DEF RegisterList, IInv, TablesOK, ListOK, tables
    <2>7. CASE RegisterOffer(r)
        BY <2>7 DEF RegisterOffer, IInv, TablesOK, ListOK, tables, idManager
    <2> QED
        BY <2>2, <2>3, <2>4, <2>5, <2>6, <2>7 DEF RegisterNext
<1> QED
    BY <1>2, <1>3, <1>6, <1>7 DEF IInv

(* A Cancel call keeps its record typed, whatever place it moves to.         *)
LEMMA CancelMoves ==
    ASSUME IInv, NEW c \in CancelCalls, NEW b \in Cancels,
           b.pc \in {"hangUp", "release"} => b.reg \in Regs,
           cancel' = [cancel EXCEPT ![c] = b]
    PROVE  cancel' \in [CancelCalls -> Cancels] /\ CancelsOK'
BY DEF IInv, OthersOK, CancelsOK, Cancels

LEMMA CancelTyped ==
    ASSUME IInv, NEW c \in CancelCalls, CancelNext(c)
    PROVE  IInv'
<1> DEFINE v == cancel[c]
           i == CancelId[c]
<1>1. v \in Cancels /\ (v.pc \in {"hangUp", "release"} => v.reg \in Regs) /\ i \in Ids
      /\ cancel \in [CancelCalls -> Cancels]
    BY DataAssumption DEF IInv, OthersOK, CancelsOK
<1>2. v.at \in Nat /\ v.reg \in Optional(Regs)
    BY <1>1 DEF Cancels
<1>3. CASE CancelPanics(c)
    BY <1>3, PanicTyped DEF CancelPanics
<1> SUFFICES ASSUME ~CancelPanics(c) PROVE IInv'
    BY <1>3
<1>4. UNCHANGED <<controller, begun, worker, history, register, run, up>>
    BY DEF CancelNext, CancelFinds, CancelHangsUp, CancelReleases, CancelPops, CancelFindsPlace,
           CancelRemoves, CancelAt
<1>5. ControllerOK' /\ BegunOK' /\ WorkersOK' /\ HistoryOK'
    BY <1>4, GoroutinesKept DEF IInv, HistoryOK, history
<1>6. ASSUME NEW from, NEW p \in CancelPCs, CancelAt(c, from, p),
             from = "hangUp" \/ p \notin {"hangUp", "release"}
      PROVE  cancel' \in [CancelCalls -> Cancels] /\ CancelsOK'
    <2> DEFINE b == [v EXCEPT !.pc = p]
    <2>1. v.pc = from /\ cancel' = [cancel EXCEPT ![c] = b]
        BY <1>6 DEF CancelAt
    <2>2. b \in Cancels /\ b.pc = p /\ b.reg = v.reg
        BY <1>1 DEF Cancels
    <2>3. p \in {"hangUp", "release"} => v.reg \in Regs
        BY <1>1, <1>6, <2>1
    <2> HIDE DEF b, v
    <2> QED
        BY <2>1, <2>2, <2>3, CancelMoves
<1>7. cancel' \in [CancelCalls -> Cancels] /\ CancelsOK'
    <2>1. CASE CancelFinds(c)
        <3> DEFINE r == relate[i]
                   p == IF r = None THEN "refused" ELSE "hangUp"
                   b == [v EXCEPT !.pc = p, !.reg = r]
        <3>1. r \in Optional(Regs)
            BY <1>1 DEF IInv, TablesOK
        <3>2. p \in CancelPCs /\ (p \in {"hangUp", "release"} => r \in Regs)
            BY <3>1 DEF CancelPCs, Optional
        <3>3. cancel' = [cancel EXCEPT ![c] = b]
            BY <2>1 DEF CancelFinds
        <3> HIDE DEF p, r
        <3>4. b \in Cancels /\ b.pc = p /\ b.reg = r
            BY <1>1, <3>1, <3>2 DEF Cancels
        <3> HIDE DEF b
        <3> QED
            BY <3>2, <3>3, <3>4, CancelMoves
    <2>2. CASE CancelHangsUp(c)
        BY <1>6, <2>2 DEF CancelHangsUp, CancelPCs
    <2>3. CASE CancelReleases(c)
        BY <1>6, <2>3 DEF CancelReleases, CancelPCs
    <2>4. CASE CancelPops(c)
        BY <1>6, <2>4 DEF CancelPops, CancelPCs
    <2>5. CASE CancelFindsPlace(c)
        <3>1. CASE cancel' = [cancel EXCEPT ![c].pc = "ok"]
            <4> DEFINE b == [v EXCEPT !.pc = "ok"]
            <4>1. cancel' = [cancel EXCEPT ![c] = b]
                BY <3>1
            <4>2. b \in Cancels /\ b.pc = "ok"
                BY <1>1 DEF Cancels, CancelPCs
            <4> HIDE DEF b
            <4> QED
                BY <4>1, <4>2, CancelMoves
        <3>2. ASSUME NEW k \in Places(i), cancel' = [cancel EXCEPT ![c].pc = "remove", ![c].at = k]
              PROVE  cancel' \in [CancelCalls -> Cancels] /\ CancelsOK'
            <4>1. k \in Nat
                BY <3>2, LenProperties DEF IInv, ListOK, Places
            <4> DEFINE b == [v EXCEPT !.pc = "remove", !.at = k]
            <4>2. cancel' = [cancel EXCEPT ![c] = b]
                BY <3>2
            <4>3. b \in Cancels /\ b.pc = "remove"
                BY <1>1, <4>1 DEF Cancels, CancelPCs
            <4> HIDE DEF b
            <4> QED
                BY <4>2, <4>3, CancelMoves
        <3> QED
            BY <2>5, <3>1, <3>2 DEF CancelFindsPlace
    <2>6. CASE CancelRemoves(c)
        BY <1>6, <2>6 DEF CancelRemoves, CancelPCs
    <2> QED
        BY <2>1, <2>2, <2>3, <2>4, <2>5, <2>6 DEF CancelNext
<1>8. TablesOK' /\ ListOK'
    <2>1. CASE CancelPops(c)
        BY <2>1, PopTyped DEF CancelPops, IInv, ListOK, idManager
    <2>2. CASE CancelRemoves(c)
        BY <1>2, <2>2, RemovePlaceTyped DEF CancelRemoves, IInv, TablesOK, tables
    <2>3. CASE UNCHANGED <<tables, idManager>>
        BY <2>3 DEF IInv, TablesOK, ListOK, tables, idManager
    <2> QED
        BY <2>1, <2>2, <2>3 DEF CancelNext, CancelFinds, CancelHangsUp, CancelReleases,
           CancelFindsPlace, CancelAt
<1>9. OthersOK'
    <2>1. offline' \subseteq Regs /\ dbClosed' \subseteq Regs /\ semClosed' \in BOOLEAN
        <3>1. CASE CancelHangsUp(c)
            BY <1>1, <3>1 DEF CancelHangsUp, CancelAt, IInv, OthersOK
        <3>2. CASE CancelReleases(c)
            BY <1>1, <3>2 DEF CancelReleases, CancelAt, IInv, OthersOK
        <3>3. CASE UNCHANGED resources
            BY <3>3 DEF IInv, OthersOK, resources
        <3> QED
            BY <3>1, <3>2, <3>3 DEF CancelNext, CancelFinds, CancelPops, CancelRemoves,
               CancelFindsPlace
    <2> QED
        BY <1>4, <1>7, <2>1 DEF IInv, OthersOK
<1> QED
    BY <1>5, <1>7, <1>8, <1>9 DEF IInv

LEMMA RunTyped ==
    ASSUME IInv, RunNext
    PROVE  IInv'
<1>1. CASE FetchPanics
    BY <1>1, PanicTyped DEF FetchPanics
<1>2. CASE FetchNothing
    <2>1. ControllerOK' /\ BegunOK' /\ WorkersOK'
        BY <1>2, GoroutinesKept DEF FetchNothing, Fetch
    <2>2. TablesOK' /\ ListOK' /\ HistoryOK' /\ OthersOK' /\ CancelsOK'
        BY <1>2 DEF FetchNothing, Fetch, IInv, TablesOK, ListOK, HistoryOK, OthersOK, CancelsOK,
           tables, history, resources, calls
    <2> QED
        BY <2>1, <2>2 DEF IInv
<1>3. CASE FetchIds
    <2> DEFINE ids == SubSeq(list, fetched + 2, Len(list))
    <2>1. TablesOK' /\ HistoryOK' /\ OthersOK' /\ CancelsOK'
        BY <1>3 DEF FetchIds, Fetch, IInv, TablesOK, HistoryOK, OthersOK, CancelsOK,
           tables, history, resources, calls
    <2>2. list \in Seq(Ids) /\ Len(list) \in Nat /\ DOMAIN list = 1..Len(list) /\ fetched \in Int
        BY LenProperties DEF IInv, ListOK
    <2>3. ListOK'
        <3>1. list' = list /\ listLocked' = listLocked /\ fetched' = Len(list) - 1
            BY <1>3 DEF FetchIds, Fetch
        <3>2. fetched' \in Int /\ fetched' < Len(list')
            BY <2>2, <3>1
        <3> QED
            BY <3>1, <3>2 DEF IInv, ListOK
    <2>4. ids \in Seq(Ids)
        <3>1. fetched >= -1
            BY <1>3 DEF FetchIds
        <3>2. fetched + 2 \in Int /\ \A k \in (fetched + 2)..Len(list) : list[k] \in Ids
            BY <2>2, <3>1, ElementOfSeq
        <3> QED
            BY <2>2, <3>2, SubSeqProperties
    <2> HIDE DEF ids
    <2>5. NewBegin(ids) \in Begins /\ BeginSound(NewBegin(ids), Len(chans), top)
        <3>1. <<>> \in Seq(Rows) /\ <<>> \in Seq(Channels)
            BY EmptySeq
        <3>2. Len(chans) \in Nat
            BY LenProperties DEF IInv, ControllerOK
        <3> QED
            BY <2>4, <3>1, <3>2 DEF NewBegin, Begins, BeginPCs, Index, Optional, BeginSound
    <2>6. begun' = Append(begun, NewBegin(ids)) /\ UNCHANGED <<controller, worker>>
        BY <1>3 DEF FetchIds, Fetch, ids
    <2>7. begun' \in Seq(Begins) /\ \A d \in DOMAIN begun' : BeginSound(begun'[d], Len(chans), top)
        BY <2>5, <2>6, Extended DEF IInv, BegunOK
    <2>8. Begins' = Begins /\ ControllerOK' /\ WorkersOK'
        BY <2>6, ControllerKept, WorkersKept DEF controller, Begins, Channels
    <2>9. BegunOK'
        BY <2>6, <2>7, <2>8 DEF BegunOK, BeginSound, controller
    <2> QED
        BY <2>1, <2>3, <2>8, <2>9 DEF IInv
<1> QED
    BY <1>1, <1>2, <1>3 DEF RunNext

-----------------------------------------------------------------------------
(* A dispatch goroutine moves to a typed and sound record.                   *)
LEMMA BeginStep ==
    ASSUME IInv, Grows, NEW d \in DOMAIN begun, NEW from, NEW b \in Begins',
           BeginSound(b, Len(chans'), top'), BeginAt(d, from, b)
    PROVE  BegunOK' /\ CancelsOK' /\ HistoryOK'
<1>1. BegunOK'
    BY BegunMoves DEF BeginAt
<1>2. CancelsOK' /\ HistoryOK'
    BY DEF IInv, CancelsOK, HistoryOK, BeginAt, calls
<1> QED
    BY <1>1, <1>2

LEMMA BeginOthers ==
    ASSUME IInv, NEW d, NEW from, NEW b, BeginAt(d, from, b), UNCHANGED resources
    PROVE  OthersOK'
BY DEF IInv, OthersOK, BeginAt, calls, resources

LEMMA TablesKept ==
    ASSUME IInv
    PROVE  /\ UNCHANGED tables => TablesOK'
           /\ UNCHANGED idManager => ListOK'
BY DEF IInv, TablesOK, ListOK, tables, idManager

(* Steps that touch nothing but the goroutine.                               *)
LEMMA BeginInternal ==
    ASSUME IInv, NEW d \in DOMAIN begun, NEW from, NEW b \in Begins,
           BeginSound(b, Len(chans), top), BeginAt(d, from, b), Internal
    PROVE  IInv'
<1>1. Grows /\ ControllerOK' /\ UNCHANGED <<chans, top>>
    BY ControllerKept DEF Internal, controller
<1>2. b \in Begins' /\ BeginSound(b, Len(chans'), top')
    BY <1>1, TypesGrow DEF IInv
<1>3. BegunOK' /\ CancelsOK' /\ HistoryOK'
    BY <1>1, <1>2, BeginStep
<1>4. OthersOK' /\ TablesOK' /\ ListOK' /\ WorkersOK'
    BY <1>1, BeginOthers, TablesKept, WorkersKept DEF Internal
<1> QED
    BY <1>1, <1>3, <1>4 DEF IInv

LEMMA BeginRecord ==
    ASSUME IInv, NEW d \in DOMAIN begun
    PROVE  begun[d] \in Begins /\ BeginSound(begun[d], Len(chans), top)
BY Member DEF IInv, BegunOK

(* A page is a sequence of rows.                                             *)
LEMMA RowTyped ==
    ASSUME NEW row \in Rows
    PROVE  row.reg \in Regs /\ row.n \in DOMAIN Samples[row.reg] /\ row.n \in Nat
<1>1. PICK r \in Regs : row \in {[reg |-> r, n |-> k] : k \in DOMAIN Samples[r]}
    BY DEF Rows
<1>2. PICK k \in DOMAIN Samples[r] : row = [reg |-> r, n |-> k]
    BY <1>1
<1>3. k \in Nat
    BY DataAssumption, LenProperties
<1> QED
    BY <1>2, <1>3

LEMMA PageTyped ==
    ASSUME NEW r \in Regs, NEW cursor \in Nat, NEW page \in Pages(r, cursor)
    PROVE  page \in Seq(Rows)
<1> DEFINE n == Len(Samples[r])
           f == [k \in 1..n |-> [reg |-> r, n |-> k]]
           m == IF cursor + PageSize < n THEN cursor + PageSize ELSE n
<1>1. n \in Nat /\ DOMAIN Samples[r] = 1..n /\ PageSize \in Nat
    BY DataAssumption, LenProperties
<1>2. \A k \in 1..n : [reg |-> r, n |-> k] \in Rows
    <2> TAKE k \in 1..n
    <2> DEFINE own == {[reg |-> r, n |-> j] : j \in DOMAIN Samples[r]}
    <2>1. [reg |-> r, n |-> k] \in own
        BY <1>1
    <2> QED
        BY <2>1 DEF Rows
<1>3. PageAfter(r, cursor) = SubSeq(f, cursor + 1, m)
    BY DEF PageAfter
<1>4. m \in Int /\ m <= n
    BY <1>1
<1>5. \A k \in (cursor + 1)..m : f[k] \in Rows
    <2>1. \A k \in (cursor + 1)..m : k \in 1..n
        BY <1>1, <1>4
    <2>2. \A k \in 1..n : f[k] = [reg |-> r, n |-> k]
        OBVIOUS
    <2> QED
        BY <1>2, <2>1, <2>2
<1>6. SubSeq(f, cursor + 1, m) \in Seq(Rows)
    <2> HIDE DEF f, m, n
    <2>1. cursor + 1 \in Int
        OBVIOUS
    <2> QED
        BY <1>4, <1>5, <2>1, SubSeqProperties
<1>7. <<>> \in Seq(Rows)
    BY EmptySeq
<1> QED
    BY <1>3, <1>6, <1>7 DEF Pages

(* The steps of a dispatch goroutine that move only itself.                  *)
BeginMoves(d) ==
    BeginTask(d) \/ BeginPage(d) \/ BeginPageOver(d) \/ BeginRow(d) \/ BeginGets(d)
    \/ BeginMakes(d) \/ BeginStopped(d) \/ BeginFindsPlace(d)

LEMMA BeginMovesTyped ==
    ASSUME IInv, NEW d \in DOMAIN begun, BeginMoves(d)
    PROVE  IInv'
<1> DEFINE b == begun[d]
<1>1. b \in Begins /\ BeginSound(b, Len(chans), top)
    BY BeginRecord
<1>2. b.todo \in Seq(Ids) /\ b.page \in Seq(Rows) /\ b.cursor \in Nat /\ b.drain \in Nat
    BY <1>1 DEF Begins
<1>3. ASSUME b.pc \notin {"next", "ended"} PROVE b.reg \in Regs /\ b.todo # <<>>
    BY <1>1, <1>3 DEF BeginSound
<1> HIDE DEF b
<1>4. CASE BeginTask(d)
    <2>1. CASE b.todo = <<>> \/ relate[Head(b.todo)] = None
        <3> DEFINE c == [b EXCEPT !.pc = "ended"]
        <3>1. BeginAt(d, "next", c) /\ Internal
            BY <1>4, <2>1 DEF BeginTask, b
        <3>2. c \in Begins /\ BeginSound(c, Len(chans), top)
            BY <1>1 DEF Begins, BeginPCs, BeginSound
        <3> HIDE DEF c
        <3> QED
            BY <3>1, <3>2, BeginInternal
    <2>2. CASE ~(b.todo = <<>> \/ relate[Head(b.todo)] = None)
        <3> DEFINE r == relate[Head(b.todo)]
                   c == [b EXCEPT !.pc = "page", !.reg = r, !.cursor = 0]
        <3>1. BeginAt(d, "next", c) /\ Internal
            BY <1>4, <2>2 DEF BeginTask, b
        <3>2. r \in Regs
            <4>1. Head(b.todo) \in Ids
                BY <1>2, <2>2, HeadTail
            <4> QED
                BY <2>2, <4>1 DEF IInv, TablesOK, Optional
        <3> HIDE DEF r
        <3>3. c \in Begins /\ BeginSound(c, Len(chans), top)
            BY <1>1, <2>2, <3>2 DEF Begins, BeginPCs, BeginSound, Optional
        <3> HIDE DEF c
        <3> QED
            BY <3>1, <3>3, BeginInternal
    <2> QED
        BY <2>1, <2>2
<1>5. CASE BeginPage(d)
    <2>1. b.pc = "page" /\ b.reg \in Regs /\ b.todo # <<>> /\ Internal
        BY <1>3, <1>5 DEF BeginPage, b
    <2>2. PICK page \in Pages(b.reg, b.cursor) : BeginAt(d, "page",
            IF page = <<>> THEN NextTask(b)
            ELSE [b EXCEPT !.pc = "row", !.page = page, !.cursor = page[Len(page)].n])
        BY <1>5 DEF BeginPage, b
    <2>3. page \in Seq(Rows)
        BY <1>2, <2>1, <2>2, PageTyped
    <2>4. CASE page = <<>>
        <3>1. Tail(b.todo) \in Seq(Ids)
            BY <1>2, <2>1, HeadTail
        <3>2. NextTask(b) \in Begins /\ BeginSound(NextTask(b), Len(chans), top)
            BY <1>1, <3>1 DEF NextTask, Begins, BeginPCs, BeginSound
        <3> QED
            BY <2>1, <2>2, <2>4, <3>2, BeginInternal
    <2>5. CASE page # <<>>
        <3> DEFINE k == page[Len(page)].n
                   c == [b EXCEPT !.pc = "row", !.page = page, !.cursor = k]
        <3>1. BeginAt(d, "page", c)
            BY <2>2, <2>5
        <3>2. k \in Nat
            <4>1. page[Len(page)] \in Rows
                BY <2>3, <2>5, LenProperties, EmptySeq
            <4> QED
                BY <4>1, RowTyped
        <3> HIDE DEF k
        <3>3. c \in Begins /\ BeginSound(c, Len(chans), top)
            BY <1>1, <2>1, <2>3, <3>2 DEF Begins, BeginPCs, BeginSound
        <3> HIDE DEF c
        <3> QED
            BY <2>1, <3>1, <3>3, BeginInternal
    <2> QED
        BY <2>4, <2>5
<1>6. CASE BeginPageOver(d)
    <2> DEFINE c == [b EXCEPT !.pc = "page"]
    <2>1. b.pc = "row" /\ BeginAt(d, "row", c) /\ Internal
        BY <1>6 DEF BeginPageOver, BeginAt, b
    <2>2. c \in Begins /\ BeginSound(c, Len(chans), top)
        BY <1>1, <2>1 DEF Begins, BeginPCs, BeginSound
    <2> HIDE DEF c
    <2> QED
        BY <2>1, <2>2, BeginInternal
<1>7. CASE BeginRow(d)
    <2> DEFINE row == Head(b.page)
               page == Tail(b.page)
               c == [b EXCEPT !.pc = "get", !.row = row, !.page = page]
    <2>1. b.pc = "row" /\ b.page # <<>> /\ BeginAt(d, "row", c) /\ Internal
        BY <1>7 DEF BeginRow, BeginAt, b
    <2>2. row \in Rows /\ page \in Seq(Rows)
        BY <1>2, <2>1, HeadTail
    <2> HIDE DEF row, page
    <2>3. c \in Begins /\ BeginSound(c, Len(chans), top)
        BY <1>1, <2>1, <2>2 DEF Begins, BeginPCs, BeginSound, Optional
    <2> HIDE DEF c
    <2> QED
        BY <2>1, <2>3, BeginInternal
<1>8. CASE BeginGets(d)
    <2>1. PICK k \in HasRoom : BeginAt(d, "get", [b EXCEPT !.pc = "put", !.at = k - 1])
        BY <1>8 DEF BeginGets, b
    <2> DEFINE c == [b EXCEPT !.pc = "put", !.at = k - 1]
    <2>2. k - 1 \in Nat
        <3>1. DOMAIN taskList = 1..Len(taskList)
            BY LenProperties DEF IInv, ControllerOK
        <3> QED
            BY <3>1 DEF HasRoom
    <2>3. b.pc = "get" /\ BeginAt(d, "get", c) /\ Internal
        BY <1>8, <2>1 DEF BeginGets, BeginAt, b
    <2>4. c \in Begins /\ BeginSound(c, Len(chans), top)
        BY <1>1, <2>2, <2>3 DEF Begins, BeginPCs, BeginSound, Index
    <2> HIDE DEF c
    <2> QED
        BY <2>3, <2>4, BeginInternal
<1>9. CASE BeginMakes(d)
    <2> DEFINE c == [b EXCEPT !.pc = "append", !.seen = taskList]
    <2>1. b.pc = "get" /\ BeginAt(d, "get", c) /\ Internal
        BY <1>9 DEF BeginMakes, BeginAt, b
    <2>2. taskList \in Seq(Channels)
        BY DEF IInv, ControllerOK
    <2>3. c \in Begins /\ BeginSound(c, Len(chans), top)
        BY <1>1, <2>1, <2>2 DEF Begins, BeginPCs, BeginSound
    <2> HIDE DEF c
    <2> QED
        BY <2>1, <2>3, BeginInternal
<1>10. CASE BeginStopped(d)
    <2> DEFINE c == [b EXCEPT !.pc = "pop", !.page = <<>>]
    <2>1. b.pc = "row" /\ BeginAt(d, "row", c) /\ Internal
        BY <1>10 DEF BeginStopped, BeginAt, b
    <2>2. <<>> \in Seq(Rows)
        BY EmptySeq
    <2>3. c \in Begins /\ BeginSound(c, Len(chans), top)
        BY <1>1, <2>1, <2>2 DEF Begins, BeginPCs, BeginSound
    <2> HIDE DEF c
    <2> QED
        BY <2>1, <2>3, BeginInternal
<1>11. CASE BeginFindsPlace(d)
    <2>1. b.pc = "find" /\ Internal
        BY <1>11 DEF BeginFindsPlace, b
    <2>2. CASE BeginAt(d, "find", [b EXCEPT !.pc = "hangUp"])
        <3>1. [b EXCEPT !.pc = "hangUp"] \in Begins
              /\ BeginSound([b EXCEPT !.pc = "hangUp"], Len(chans), top)
            BY <1>1, <2>1 DEF Begins, BeginPCs, BeginSound
        <3> QED
            BY <2>1, <2>2, <3>1, BeginInternal
    <2>3. ASSUME NEW k \in Places(Head(b.todo)),
                 BeginAt(d, "find", [b EXCEPT !.pc = "remove", !.at = k])
          PROVE  IInv'
        <3> DEFINE c == [b EXCEPT !.pc = "remove", !.at = k]
        <3>1. k \in Nat
            BY LenProperties DEF IInv, ListOK, Places
        <3>2. c \in Begins /\ BeginSound(c, Len(chans), top)
            BY <1>1, <2>1, <3>1 DEF Begins, BeginPCs, BeginSound, Index
        <3> HIDE DEF c
        <3>3. BeginAt(d, "find", c)
            BY <2>3 DEF c
        <3> QED
            BY <2>1, <3>2, <3>3, BeginInternal
    <2> QED
        BY <1>11, <2>2, <2>3 DEF BeginFindsPlace, b
<1> QED
    BY <1>4, <1>5, <1>6, <1>7, <1>8, <1>9, <1>10, <1>11 DEF BeginMoves

(* The steps of a dispatch goroutine at the controller's fields.             *)
BeginShares(d) ==
    BeginDrain(d) \/ BeginAgain(d) \/ BeginAppends(d) \/ BeginCounts(d) \/ BeginHires(d)
    \/ BeginPuts(d)

LEMMA BeginController ==
    ASSUME IInv, Grows, ControllerOK', WorkersOK', NEW d \in DOMAIN begun, NEW from,
           NEW b \in Begins, BeginSound(b, Len(chans'), top'), BeginAt(d, from, b),
           UNCHANGED <<tables, idManager, resources>>
    PROVE  IInv'
<1>1. b \in Begins'
    BY TypesGrow DEF IInv
<1>2. BegunOK' /\ CancelsOK' /\ HistoryOK'
    BY <1>1, BeginStep
<1>3. OthersOK' /\ TablesOK' /\ ListOK'
    BY BeginOthers, TablesKept
<1> QED
    BY <1>2, <1>3 DEF IInv

(* A channel is filled or emptied: none is added.                            *)
LEMMA ContentChanges ==
    ASSUME IInv, NEW ch \in Channels, NEW content \in Seq(Rows),
           chans' = [chans EXCEPT ![ch] = content], UNCHANGED <<taskList, top, singles>>
    PROVE  Grows /\ ControllerOK' /\ Len(chans') = Len(chans)
<1>1. chans' \in Seq(Seq(Rows)) /\ Len(chans') = Len(chans) /\ Channels' = Channels
    BY Replaced DEF IInv, ControllerOK, Channels
<1>2. Len(chans) \in Nat
    BY LenProperties DEF IInv, ControllerOK
<1> QED
    BY <1>1, <1>2 DEF IInv, ControllerOK, Grows

LEMMA BeginSharesTyped ==
    ASSUME IInv, NEW d \in DOMAIN begun, BeginShares(d)
    PROVE  IInv'
<1> DEFINE b == begun[d]
<1>1. b \in Begins /\ BeginSound(b, Len(chans), top)
    BY BeginRecord
<1>2. b.todo \in Seq(Ids) /\ b.page \in Seq(Rows) /\ b.drain \in Nat /\ b.at \in Index
    BY <1>1 DEF Begins
<1>3. ASSUME b.pc \notin {"next", "ended"} PROVE b.reg \in Regs /\ b.todo # <<>>
    BY <1>1, <1>3 DEF BeginSound
<1>4. /\ chans \in Seq(Seq(Rows)) /\ Len(chans) \in Nat /\ Channels = 1..Len(chans)
      /\ taskList \in Seq(Channels) /\ Len(taskList) \in Nat /\ DOMAIN taskList = 1..Len(taskList)
      /\ singles \in Seq(Nat) /\ top \in Index
    BY LenProperties DEF IInv, ControllerOK, Channels
<1>5. \A k \in Nat : k < Len(taskList) => taskList[k + 1] \in Channels
    <2> TAKE k \in Nat
    <2> HAVE k < Len(taskList)
    <2>1. k + 1 \in DOMAIN taskList
        BY <1>4
    <2> QED
        BY <1>4, <2>1, Member
<1> HIDE DEF b
<1>6. CASE BeginDrain(d)
    <2> DEFINE ch == taskList[Head(singles) + 1]
               page == Tail(b.page)
               c == [b EXCEPT !.pc = "drain", !.page = page, !.drain = ch]
    <2>1. b.pc = "row" /\ b.page # <<>> /\ singles # <<>> /\ Head(singles) < Len(taskList)
          /\ singles' = Tail(singles) /\ BeginAt(d, "row", c)
          /\ UNCHANGED <<tables, idManager, taskList, top, chans, resources, worker>>
        BY <1>6 DEF BeginDrain, BeginAt, b
    <2>2. page \in Seq(Rows) /\ ch \in Channels /\ Tail(singles) \in Seq(Nat)
        BY <1>2, <1>4, <1>5, <2>1, HeadTail
    <2>3. ch \in Nat /\ ch <= Len(chans)
        BY <1>4, <2>2
    <2>4. Grows /\ ControllerOK'
        BY <1>4, <2>1, <2>2 DEF Grows, ControllerOK, Channels
    <2> HIDE DEF ch, page
    <2>5. c \in Begins /\ BeginSound(c, Len(chans'), top')
        BY <1>1, <1>3, <2>1, <2>2, <2>3 DEF Begins, BeginPCs, BeginSound
    <2> HIDE DEF c
    <2> QED
        BY <2>1, <2>4, <2>5, WorkersKept, BeginController
<1>7. CASE BeginAgain(d)
    <2> DEFINE row == Head(chans[b.drain])
               left == Tail(chans[b.drain])
               c == [b EXCEPT !.pc = "get", !.row = row]
    <2>1. b.pc = "drain" /\ b.drain # 0 /\ chans[b.drain] # <<>>
          /\ chans' = [chans EXCEPT ![b.drain] = left] /\ BeginAt(d, "drain", c)
          /\ UNCHANGED <<tables, idManager, taskList, top, singles, resources, worker>>
        BY <1>7 DEF BeginAgain, BeginAt, b
    <2>2. b.drain \in Channels
        BY <1>1, <1>2, <1>4, <2>1 DEF BeginSound
    <2>3. chans[b.drain] \in Seq(Rows)
        BY <1>4, <2>2, Member DEF Channels
    <2>4. row \in Rows /\ left \in Seq(Rows)
        BY <2>1, <2>3, HeadTail
    <2> HIDE DEF row, left
    <2>5. Grows /\ ControllerOK' /\ Len(chans') = Len(chans)
        BY <2>1, <2>2, <2>4, ContentChanges
    <2>6. c \in Begins /\ BeginSound(c, Len(chans'), top')
        BY <1>1, <1>3, <2>1, <2>4, <2>5 DEF Begins, BeginPCs, BeginSound, Optional
    <2> HIDE DEF c
    <2> QED
        BY <2>1, <2>5, <2>6, WorkersKept, BeginController
<1>8. CASE BeginAppends(d)
    <2> DEFINE c == [b EXCEPT !.pc = "count", !.seen = <<>>, !.at = top]
    <2>1. b.pc = "append" /\ chans' = Append(chans, <<>>) /\ BeginAt(d, "append", c)
          /\ taskList' = Append(b.seen, Len(chans'))
          /\ UNCHANGED <<tables, idManager, top, singles, resources, worker>>
        BY <1>8 DEF BeginAppends, BeginAt, b
    <2>2. chans' \in Seq(Seq(Rows)) /\ Len(chans') = Len(chans) + 1 /\ DOMAIN chans' = 1..Len(chans')
        BY <1>4, <2>1, EmptySeq, Extended
    <2>3. Grows
        BY <1>4, <2>1, <2>2 DEF Grows
    <2>4. taskList' \in Seq(Channels')
        <3>1. b.seen \in Seq(Channels) /\ Channels \subseteq Channels'
            BY <1>1, <2>3, TypesGrow DEF Begins, IInv
        <3>2. b.seen \in Seq(Channels') /\ Len(chans') \in Channels'
            BY <1>4, <2>2, <3>1, SeqMonotonic DEF Channels
        <3> QED
            BY <2>1, <3>2, Extended
    <2>5. ControllerOK'
        BY <1>4, <2>1, <2>2, <2>4 DEF ControllerOK
    <2>6. <<>> \in Seq(Channels)
        BY EmptySeq
    <2>7. c \in Begins /\ BeginSound(c, Len(chans'), top')
        <3>1. c \in Begins
            BY <1>1, <1>4, <2>6 DEF Begins, BeginPCs
        <3>2. c.pc = "count" /\ c.drain = b.drain /\ c.reg = b.reg /\ c.todo = b.todo /\ c.row = b.row
            BY <1>1 DEF Begins
        <3>3. b.drain <= Len(chans')
            BY <1>1, <1>2, <1>4, <2>2 DEF BeginSound
        <3> QED
            BY <1>1, <2>1, <3>1, <3>2, <3>3 DEF BeginSound
    <2> HIDE DEF c
    <2> QED
        BY <2>1, <2>3, <2>5, <2>7, WorkersKept, BeginController
<1>9. CASE BeginCounts(d)
    <2> DEFINE c == [b EXCEPT !.pc = "hire"]
    <2>1. b.pc = "count" /\ top' = b.at + 1 /\ BeginAt(d, "count", c)
          /\ UNCHANGED <<tables, idManager, taskList, singles, chans, resources, worker>>
        BY <1>9 DEF BeginCounts, BeginAt, b
    <2>2. top' \in Nat
        BY <1>2, <2>1 DEF Index
    <2>3. Grows /\ ControllerOK'
        BY <1>4, <2>1, <2>2 DEF Grows, ControllerOK, Index, Channels
    <2>4. c \in Begins /\ BeginSound(c, Len(chans'), top')
        <3>1. c \in Begins
            BY <1>1 DEF Begins, BeginPCs
        <3>2. c.pc = "hire" /\ c.drain = b.drain /\ c.reg = b.reg /\ c.todo = b.todo /\ c.row = b.row
            BY <1>1 DEF Begins
        <3> HIDE DEF c
        <3> QED
            BY <1>1, <1>3, <2>1, <2>2, <3>1, <3>2 DEF BeginSound
    <2> HIDE DEF c
    <2> QED
        BY <2>1, <2>3, <2>4, WorkersKept, BeginController
<1>10. CASE BeginHires(d)
    <2> DEFINE c == [b EXCEPT !.pc = "put", !.at = top]
               ch == taskList[top + 1]
               v == NewWorker(top, ch, b.reg)
    <2>1. b.pc = "hire" /\ top < Len(taskList) /\ BeginAt(d, "hire", c)
          /\ worker' = Append(worker, v) /\ UNCHANGED <<tables, idManager, controller, resources>>
        BY <1>10 DEF BeginHires, BeginAt, b
    <2>2. top \in Nat /\ b.reg \in Regs
        BY <1>1, <1>3, <1>4, <2>1 DEF BeginSound, Index
    <2>3. ch \in Channels
        BY <1>5, <2>1, <2>2
    <2>4. v \in Workers /\ v.pc = "idle"
        BY <2>2, <2>3 DEF NewWorker, Workers, WorkerPCs, Optional
    <2>5. Grows /\ ControllerOK' /\ Workers' = Workers
        BY <2>1, ControllerKept DEF controller, Workers, Channels
    <2> HIDE DEF v, ch
    <2>6. WorkersOK'
        BY <2>1, <2>4, <2>5, Extended DEF IInv, WorkersOK
    <2>7. c \in Begins /\ BeginSound(c, Len(chans'), top')
        <3>1. c \in Begins
            BY <1>1, <2>2 DEF Begins, BeginPCs, Index
        <3>2. c.pc = "put" /\ c.at = top /\ c.drain = b.drain /\ c.reg = b.reg /\ c.todo = b.todo
              /\ c.row = b.row
            BY <1>1 DEF Begins
        <3> HIDE DEF c
        <3> QED
            BY <1>1, <1>3, <2>1, <2>2, <3>1, <3>2 DEF BeginSound, controller
    <2> HIDE DEF c
    <2> QED
        BY <2>1, <2>5, <2>6, <2>7, BeginController
<1>11. CASE BeginPuts(d)
    <2> DEFINE p == IF b.drain = 0 THEN "row" ELSE "drain"
               c == [b EXCEPT !.pc = p, !.row = None, !.at = 0]
               ch == taskList[b.at + 1]
               content == Append(chans[ch], b.row)
    <2>1. b.pc = "put" /\ b.at < Len(taskList) /\ chans' = [chans EXCEPT ![ch] = content]
          /\ BeginAt(d, "put", c)
          /\ UNCHANGED <<tables, idManager, taskList, top, singles, resources, worker>>
        BY <1>11 DEF BeginPuts, BeginAt, b
    <2>2. b.at \in Nat /\ b.row \in Rows
        BY <1>1, <2>1 DEF BeginSound
    <2>3. ch \in Channels
        BY <1>5, <2>1, <2>2
    <2>4. content \in Seq(Rows)
        <3>1. chans[ch] \in Seq(Rows)
            BY <1>4, <2>3, Member DEF Channels
        <3> QED
            BY <2>2, <3>1, Extended
    <2> HIDE DEF ch, content
    <2>5. Grows /\ ControllerOK' /\ Len(chans') = Len(chans)
        BY <2>1, <2>3, <2>4, ContentChanges
    <2>6. p \in {"row", "drain"}
        OBVIOUS
    <2> HIDE DEF p
    <2>7. c \in Begins /\ BeginSound(c, Len(chans'), top')
        BY <1>1, <1>3, <2>1, <2>5, <2>6 DEF Begins, BeginPCs, BeginSound, Optional, Index
    <2> HIDE DEF c
    <2> QED
        BY <2>1, <2>5, <2>7, WorkersKept, BeginController
<1> QED
    BY <1>6, <1>7, <1>8, <1>9, <1>10, <1>11 DEF BeginShares

(* The steps with which a dispatch goroutine clears a stopped task away.     *)
LEMMA BeginClears ==
    ASSUME IInv, NEW d \in DOMAIN begun,
           BeginPops(d) \/ BeginRemoves(d) \/ BeginHangsUp(d) \/ BeginReleases(d)
    PROVE  IInv'
<1> DEFINE b == begun[d]
<1>1. b \in Begins /\ BeginSound(b, Len(chans), top)
    BY BeginRecord
<1>2. UNCHANGED <<controller, worker>>
    BY DEF BeginPops, BeginRemoves, BeginHangsUp, BeginReleases
<1>3. Grows /\ ControllerOK' /\ WorkersOK' /\ UNCHANGED <<chans, top>>
    BY <1>2, ControllerKept, WorkersKept DEF controller
<1>4. ASSUME NEW from, NEW c \in Begins, BeginSound(c, Len(chans), top), BeginAt(d, from, c)
      PROVE  BegunOK' /\ CancelsOK' /\ HistoryOK'
    <2>1. c \in Begins' /\ BeginSound(c, Len(chans'), top')
        BY <1>3, <1>4, TypesGrow DEF IInv
    <2> QED
        BY <1>3, <1>4, <2>1, BeginStep
<1> HIDE DEF b
<1>5. CASE BeginPops(d)
    <2> DEFINE c == [b EXCEPT !.pc = "find"]
    <2>1. b.pc = "pop" /\ BeginAt(d, "pop", c) /\ UNCHANGED <<idManager, resources>>
        BY <1>5 DEF BeginPops, BeginAt, b
    <2>2. c \in Begins /\ BeginSound(c, Len(chans), top)
        BY <1>1, <2>1 DEF Begins, BeginPCs, BeginSound
    <2> HIDE DEF c
    <2>3. TablesOK' /\ ListOK' /\ OthersOK'
        BY <1>5, <2>1, PopTyped, TablesKept, BeginOthers DEF BeginPops
    <2> QED
        BY <1>3, <1>4, <2>1, <2>2, <2>3 DEF IInv
<1>6. CASE BeginRemoves(d)
    <2> DEFINE p == IF MatchesAgain(Head(b.todo), b.at) THEN "stuck" ELSE "hangUp"
               c == [b EXCEPT !.pc = p]
    <2>1. b.pc = "remove" /\ b.at <= Len(list) /\ BeginAt(d, "remove", c)
          /\ RemovePlace(Head(b.todo), b.at) /\ UNCHANGED <<tables, resources>>
        BY <1>6 DEF BeginRemoves, BeginAt, b
    <2>2. p \in {"stuck", "hangUp"}
        OBVIOUS
    <2> HIDE DEF p
    <2>3. c \in Begins /\ BeginSound(c, Len(chans), top)
        BY <1>1, <2>1, <2>2 DEF Begins, BeginPCs, BeginSound
    <2> HIDE DEF c
    <2>4. b.at \in Nat
        BY <1>1, <2>1 DEF BeginSound
    <2>5. TablesOK' /\ ListOK' /\ OthersOK'
        BY <2>1, <2>4, RemovePlaceTyped, TablesKept, BeginOthers
    <2> QED
        BY <1>3, <1>4, <2>1, <2>3, <2>5 DEF IInv
<1>7. CASE BeginHangsUp(d)
    <2> DEFINE c == [b EXCEPT !.pc = "release"]
    <2>1. b.pc = "hangUp" /\ BeginAt(d, "hangUp", c) /\ offline' = offline \cup {b.reg}
          /\ UNCHANGED <<tables, idManager, dbClosed, semClosed>>
        BY <1>7 DEF BeginHangsUp, BeginAt, b
    <2>2. b.reg \in Regs /\ c \in Begins /\ BeginSound(c, Len(chans), top)
        BY <1>1, <2>1 DEF Begins, BeginPCs, BeginSound
    <2> HIDE DEF c
    <2>3. OthersOK'
        BY <2>1, <2>2 DEF BeginAt, IInv, OthersOK, calls
    <2> QED
        BY <1>3, <1>4, <2>1, <2>2, <2>3, TablesKept DEF IInv
<1>8. CASE BeginReleases(d)
    <2> DEFINE c == NextTask(b)
    <2>1. b.pc = "release" /\ BeginAt(d, "release", c) /\ dbClosed' = dbClosed \cup {b.reg}
          /\ semClosed' = TRUE /\ UNCHANGED <<tables, idManager, offline>>
        BY <1>8 DEF BeginReleases, BeginAt, b
    <2>2. b.reg \in Regs /\ b.todo # <<>>
        BY <1>1, <2>1 DEF BeginSound
    <2>3. c \in Begins /\ BeginSound(c, Len(chans), top)
        <3>1. Tail(b.todo) \in Seq(Ids)
            BY <1>1, <2>2, HeadTail DEF Begins
        <3> QED
            BY <1>1, <3>1 DEF NextTask, Begins, BeginPCs, BeginSound
    <2> HIDE DEF c
    <2>4. OthersOK'
        BY <2>1, <2>2 DEF BeginAt, IInv, OthersOK, calls
    <2> QED
        BY <1>3, <1>4, <2>1, <2>3, <2>4, TablesKept DEF IInv
<1> QED
    BY <1>5, <1>6, <1>7, <1>8

LEMMA BeginTyped ==
    ASSUME IInv, NEW d \in DOMAIN begun, BeginNext(d)
    PROVE  IInv'
<1>1. CASE BeginPanics(d)
    BY <1>1, PanicTyped DEF BeginPanics
<1> QED
    BY <1>1, BeginMovesTyped, BeginSharesTyped, BeginClears DEF BeginNext, BeginMoves, BeginShares

-----------------------------------------------------------------------------
(* The steps of a worker.                                                    *)
LEMMA WorkerStep ==
    ASSUME IInv, NEW w \in DOMAIN worker, NEW from, NEW v \in Workers,
           v.pc = "handle" => v.row \in Rows, WorkerAt(w, from, v), Grows
    PROVE  WorkersOK' /\ BegunOK' /\ OthersOK' /\ CancelsOK' /\ ListOK'
<1>1. WorkersOK' /\ BegunOK'
    BY WorkerMoves, BegunKept DEF WorkerAt
<1>2. OthersOK' /\ CancelsOK' /\ ListOK'
    BY TablesKept DEF IInv, OthersOK, CancelsOK, WorkerAt, calls, resources
<1> QED
    BY <1>1, <1>2

LEMMA WorkerTyped ==
    ASSUME IInv, NEW w \in DOMAIN worker, WorkerNext(w)
    PROVE  IInv'
<1> DEFINE v == worker[w]
<1>1. v \in Workers /\ (v.pc = "handle" => v.row \in Rows)
    BY Member DEF IInv, WorkersOK
<1>2. v.reg \in Regs /\ v.chan \in Channels /\ v.wid \in Nat /\ v.errors \in Nat /\ IdOf[v.reg] \in Ids
    BY <1>1, DataAssumption DEF Workers
<1>3. chans \in Seq(Seq(Rows)) /\ Len(chans) \in Nat /\ singles \in Seq(Nat)
    BY LenProperties DEF IInv, ControllerOK
<1>4. UNCHANGED chans /\ UNCHANGED <<taskList, top>> => Grows
    BY <1>3 DEF IInv, ControllerOK, Grows
<1>5. UNCHANGED controller => ControllerOK' /\ Grows
    BY ControllerKept
(* A worker that only moves.                                                 *)
<1>6. ASSUME NEW from, NEW u \in Workers, u.pc = "handle" => u.row \in Rows,
             WorkerAt(w, from, u), UNCHANGED <<singles, chans>>, TablesOK', HistoryOK'
      PROVE  IInv'
    BY <1>5, <1>6, WorkerStep DEF WorkerAt, controller, IInv
<1>7. UNCHANGED tables => TablesOK'
    BY TablesKept
<1>8. UNCHANGED history => HistoryOK'
    BY DEF IInv, HistoryOK, history
<1>9. ASSUME NEW from, NEW p \in WorkerPCs \ {"handle"} PROVE
        WorkerGoes(w, from, p) => \E u \in Workers : u.pc = p /\ WorkerAt(w, from, u)
    <2> DEFINE u == [v EXCEPT !.pc = p]
    <2>1. u \in Workers /\ u.pc = p
        BY <1>1 DEF Workers
    <2> QED
        BY <2>1 DEF WorkerGoes
<1>10. ASSUME NEW from, NEW p \in WorkerPCs \ {"handle"}, WorkerGoes(w, from, p),
              UNCHANGED <<singles, chans>>, TablesOK', HistoryOK'
       PROVE  IInv'
    BY <1>6, <1>9, <1>10
<1> HIDE DEF v
<1>11. CASE WorkerTakes(w)
    <2> DEFINE ch == v.chan
               row == Head(chans[ch])
               left == Tail(chans[ch])
               u == [v EXCEPT !.pc = "handle", !.row = row]
    <2>1. chans[ch] # <<>> /\ chans' = [chans EXCEPT ![ch] = left] /\ WorkerAt(w, "idle", u)
          /\ UNCHANGED <<tables, singles, history, taskList, top>>
        BY <1>11 DEF WorkerTakes, WorkerAt, v
    <2>2. chans[ch] \in Seq(Rows)
        BY <1>2, <1>3, Member DEF Channels
    <2>3. row \in Rows /\ left \in Seq(Rows)
        BY <2>1, <2>2, HeadTail
    <2> HIDE DEF row, left
    <2>4. Grows /\ ControllerOK'
        BY <1>2, <2>1, <2>3, ContentChanges
    <2>5. u \in Workers /\ u.row \in Rows
        BY <1>1, <2>3 DEF Workers, WorkerPCs, Optional
    <2> HIDE DEF u
    <2>6. WorkersOK' /\ BegunOK' /\ OthersOK' /\ CancelsOK' /\ ListOK'
        BY <2>1, <2>4, <2>5, WorkerStep
    <2> QED
        BY <1>7, <1>8, <2>1, <2>4, <2>6 DEF IInv
<1>12. CASE WorkerHandles(w)
    <2> DEFINE row == v.row
               n == Samples[row.reg][row.n]
    <2>1. row \in Rows /\ n \in Nat
        <3>1. v.pc = "handle"
            BY <1>12 DEF WorkerHandles, v
        <3>2. row \in Rows
            BY <1>1, <3>1
        <3>3. row.reg \in Regs /\ row.n \in DOMAIN Samples[row.reg]
            BY <3>2, RowTyped
        <3>4. Samples[row.reg] \in Seq(Nat)
            BY <3>3, DataAssumption
        <3> QED
            BY <3>2, <3>3, <3>4, Member
    <2> HIDE DEF row
    <2> DEFINE p(failed, some) == IF failed > 0 THEN "count" ELSE IF some THEN "send" ELSE "idle"
               u(failed, some) == [v EXCEPT !.row = None, !.errors = failed, !.sends = some,
                                            !.pc = p(failed, some)]
    <2>2. PICK failed \in (0..MostErrors) \cup {1, n}, some \in BOOLEAN :
              WorkerAt(w, "handle", u(failed, some))
        BY <1>12 DEF WorkerHandles, v, row
    <2>3. handled' = [handled EXCEPT ![row] = @ + 1]
          /\ UNCHANGED <<tables, singles, chans, counted, verdicts, finished>>
        BY <1>12 DEF WorkerHandles, v, row
    <2>4. p(failed, some) \in WorkerPCs \ {"handle"}
        BY DEF WorkerPCs
    <2>5. failed \in Nat
        BY <2>1
    <2> HIDE DEF n, p
    <2>7. u(failed, some) \in Workers /\ u(failed, some).pc # "handle"
        BY <1>1, <2>4, <2>5 DEF Workers, Optional
    <2> HIDE DEF u
    <2>8. HistoryOK'
        BY <2>1, <2>3 DEF IInv, HistoryOK
    <2> QED
        BY <1>6, <1>7, <2>2, <2>3, <2>7, <2>8
<1>13. CASE WorkerPanics(w)
    BY <1>13, PanicTyped DEF WorkerPanics
<1>14. CASE WorkerCounts(w)
    <2> DEFINE i == IdOf[v.reg]
               n == v.errors
               p == IF Reached(i, n) THEN "report" ELSE IF v.sends THEN "send" ELSE "idle"
               u == [v EXCEPT !.errors = 0, !.sends = FALSE, !.pc = p]
    <2>1. WorkerAt(w, "count", u) /\ AddErrors(i, n)
          /\ UNCHANGED <<relate, cancelled, singles, chans, handled, finished>>
        BY <1>14 DEF WorkerCounts, v
    <2>2. p \in WorkerPCs \ {"handle"}
        BY DEF WorkerPCs
    <2> HIDE DEF p
    <2>3. u \in Workers /\ u.pc # "handle"
        BY <1>1, <2>2 DEF Workers
    <2>4. TablesOK' /\ HistoryOK'
        BY <1>2, <2>1, CountingTyped
    <2> HIDE DEF u
    <2> QED
        BY <1>6, <2>1, <2>3, <2>4
<1>15. CASE WorkerSends(w)
    <2> DEFINE u == [v EXCEPT !.pc = "idle", !.sends = FALSE]
    <2>1. WorkerAt(w, "send", u) /\ Quiet
        BY <1>15 DEF WorkerSends, v
    <2>2. u \in Workers /\ u.pc # "handle"
        BY <1>1 DEF Workers, WorkerPCs
    <2> HIDE DEF u
    <2> QED
        BY <1>6, <1>7, <1>8, <2>1, <2>2 DEF Quiet
<1>16. CASE WorkerSendFails(w)
    <2> DEFINE u == [v EXCEPT !.pc = "count", !.errors = 1, !.sends = FALSE]
    <2>1. WorkerAt(w, "send", u) /\ Quiet
        BY <1>16 DEF WorkerSendFails, v
    <2>2. u \in Workers /\ u.pc # "handle"
        BY <1>1 DEF Workers, WorkerPCs
    <2> HIDE DEF u
    <2> QED
        BY <1>6, <1>7, <1>8, <2>1, <2>2 DEF Quiet
<1>17. CASE WorkerUnknown(w)
    <2> DEFINE u == [v EXCEPT !.pc = "stop", !.sends = FALSE]
    <2>1. WorkerAt(w, v.pc, u) /\ Quiet
        BY <1>17 DEF WorkerUnknown, v
    <2>2. u \in Workers /\ u.pc # "handle"
        BY <1>1 DEF Workers, WorkerPCs
    <2> HIDE DEF u
    <2> QED
        BY <1>6, <1>7, <1>8, <2>1, <2>2 DEF Quiet
<1>18. CASE WorkerTimesOut(w) \/ WorkerFinishFails(w) \/ WorkerReports(w)
    BY <1>7, <1>8, <1>10, <1>18 DEF WorkerTimesOut, WorkerFinishFails, WorkerReports, Quiet, WorkerPCs
<1>19. CASE WorkerAnnounces(w)
    <2>1. WorkerGoes(w, "announce", "finish") /\ singles' = Append(singles, v.wid)
          /\ UNCHANGED <<tables, chans, history>>
        BY <1>19 DEF WorkerAnnounces, v
    <2>2. PICK u \in Workers : u.pc = "finish" /\ WorkerAt(w, "announce", u)
        BY <1>9, <2>1 DEF WorkerPCs
    <2>3. singles' \in Seq(Nat)
        BY <1>2, <1>3, <2>1, Extended
    <2>4. Grows /\ ControllerOK'
        BY <1>4, <2>1, <2>2, <2>3 DEF IInv, ControllerOK, WorkerAt, Channels
    <2>5. WorkersOK' /\ BegunOK' /\ OthersOK' /\ CancelsOK' /\ ListOK'
        BY <2>2, <2>4, WorkerStep
    <2> QED
        BY <1>7, <1>8, <2>1, <2>4, <2>5 DEF IInv
<1>20. CASE WorkerFinishes(w)
    <2>1. WorkerGoes(w, "finish", "pop") /\ finished' = finished \cup {v.reg}
          /\ UNCHANGED <<tables, singles, chans, counted, verdicts, handled>>
        BY <1>20 DEF WorkerFinishes, v
    <2>2. HistoryOK'
        BY <1>2, <2>1 DEF IInv, HistoryOK
    <2> QED
        BY <1>7, <1>10, <2>1, <2>2 DEF WorkerPCs
<1>21. CASE WorkerPops(w)
    <2>1. TablesOK'
        BY <1>21, PopTyped DEF WorkerPops
    <2> QED
        BY <1>8, <1>10, <1>21, <2>1 DEF WorkerPops, WorkerPCs
<1>22. CASE WorkerStops(w)
    <2> DEFINE r == relate[IdOf[v.reg]]
               p == IF r = None THEN "gone" ELSE "unrecord"
    <2>1. WorkerGoes(w, "stop", p) /\ cancelled' = cancelled \cup ({r} \ {None})
          /\ UNCHANGED <<records, relate, singles, chans, history>>
        BY <1>22 DEF WorkerStops, v
    <2>2. r \in Optional(Regs)
        BY <1>2 DEF IInv, TablesOK
    <2>3. TablesOK'
        BY <2>1, <2>2 DEF IInv, TablesOK, Optional
    <2>4. p \in WorkerPCs \ {"handle"}
        BY DEF WorkerPCs
    <2> HIDE DEF p
    <2> QED
        BY <1>8, <1>10, <2>1, <2>3, <2>4
<1>23. CASE WorkerUnrecords(w)
    <2>1. TablesOK'
        BY <1>23 DEF WorkerUnrecords, IInv, TablesOK, Optional
    <2> QED
        BY <1>8, <1>10, <1>23, <2>1 DEF WorkerUnrecords, WorkerPCs
<1> QED
    BY <1>11, <1>12, <1>13, <1>14, <1>15, <1>16, <1>17, <1>18, <1>19, <1>20, <1>21, <1>22, <1>23
    DEF WorkerNext

-----------------------------------------------------------------------------
LEMMA NextTyped == IInv /\ [Next]_vars => IInv'
<1> SUFFICES ASSUME IInv, [Next]_vars PROVE IInv'
    OBVIOUS
<1>1. CASE UNCHANGED vars
    <2>1. ControllerOK' /\ BegunOK' /\ WorkersOK'
        BY <1>1, GoroutinesKept DEF vars
    <2>2. TablesOK' /\ ListOK' /\ OthersOK' /\ HistoryOK' /\ CancelsOK'
        BY <1>1, TablesKept DEF vars, IInv, OthersOK, HistoryOK, CancelsOK, resources, calls, history
    <2> QED
        BY <2>1, <2>2 DEF IInv
<1> QED
    BY <1>1, RegisterTyped, CancelTyped, RunTyped, BeginTyped, WorkerTyped DEF Next

(* Every variable of the Data Node keeps to its type: no list is indexed out  *)
(* of its range, no channel is used that was not made, and Top never gets     *)
(* ahead of Number, whatever the goroutines do to the fields they share       *)
(* without a lock (controller.go 153-162, idmanager.go 59-90).                *)
THEOREM DataTypesKept == Spec => []TypeOK
<1>1. IInv => TypeOK
    BY DEF IInv, TypeOK, BegunOK, WorkersOK
<1> QED
    BY <1>1, InitTyped, NextTyped, PTL DEF Spec

-----------------------------------------------------------------------------
(* Error records and entries                                                 *)

LEMMA PopLeavesNoOrphan ==
    ASSUME IInv, NoOrphanRecord, NEW i \in Ids, PopEntry(i), UNCHANGED register
    PROVE  NoOrphanRecord'
<1>1. ASSUME NEW j \in Ids, records'[j] # None
      PROVE  records[j] # None /\ relate'[j] = relate[j]
    BY <1>1 DEF PopEntry, IInv, TablesOK
<1> QED
    BY <1>1 DEF NoOrphanRecord

LEMMA RegisterLeavesNoOrphan ==
    ASSUME IInv, NoOrphanRecord, NEW r \in Regs, RegisterNext(r)
    PROVE  NoOrphanRecord'
<1>1. /\ r # None /\ IdOf[r] \in Ids
      /\ records \in [Ids -> Optional([of : Regs, occurred : Nat])]
      /\ relate \in [Ids -> Optional(Regs)] /\ register \in [Regs -> RegisterPCs]
    BY DataAssumption DEF IInv, TablesOK, OthersOK
<1>2. CASE RegisterRecord(r)
    <2>1. relate' = relate /\ register' = [register EXCEPT ![r] = "recorded"]
          /\ register[r] = "new"
          /\ records' = [records EXCEPT ![IdOf[r]] = [of |-> r, occurred |-> 0]]
        BY <1>2 DEF RegisterRecord, RegisterAt
    <2> QED
        BY <1>1, <2>1 DEF NoOrphanRecord
<1>3. CASE RegisterRefused(r)
    <2>1. UNCHANGED <<records, relate>> /\ register' = [register EXCEPT ![r] = "refused"]
          /\ register[r] = "new"
        BY <1>3 DEF RegisterRefused, RegisterAt, tables
    <2> QED
        BY <1>1, <2>1 DEF NoOrphanRecord
<1>4. CASE RegisterEntry(r)
    <2>1. records' = records /\ register' = [register EXCEPT ![r] = "entered"]
          /\ relate' = [relate EXCEPT ![IdOf[r]] = r]
        BY <1>4 DEF RegisterEntry, RegisterAt
    <2> QED
        BY <1>1, <2>1 DEF NoOrphanRecord
<1>5. CASE RegisterExists(r)
    <2>1. UNCHANGED <<records, relate>> /\ register' = [register EXCEPT ![r] = "refused"]
          /\ relate[IdOf[r]] # None
        BY <1>5 DEF RegisterExists, RegisterAt, tables
    <2> QED
        BY <1>1, <2>1 DEF NoOrphanRecord
<1>6. CASE RegisterList(r) \/ RegisterOffer(r)
    <2>1. PICK to : register' = [register EXCEPT ![r] = to] /\ register[r] # "recorded"
        BY <1>6 DEF RegisterList, RegisterOffer, RegisterAt
    <2>2. UNCHANGED <<records, relate>>
        BY <1>6 DEF RegisterList, RegisterOffer, tables
    <2> QED
        BY <1>1, <2>1, <2>2 DEF NoOrphanRecord
<1> QED
    BY <1>2, <1>3, <1>4, <1>5, <1>6 DEF RegisterNext

(* A record that goes, or a count that rises, leaves no orphan.              *)
LEMMA FewerRecords ==
    ASSUME NoOrphanRecord, UNCHANGED <<relate, register>>,
           \A j \in Ids : records'[j] # None => records[j] # None
    PROVE  NoOrphanRecord'
BY DEF NoOrphanRecord

LEMMA WorkerLeavesNoOrphan ==
    ASSUME IInv, NoOrphanRecord, NEW w \in DOMAIN worker, WorkerNext(w)
    PROVE  NoOrphanRecord'
<1>1. register' = register
    BY DEF WorkerNext, WorkerTakes, WorkerHandles, WorkerPanics, WorkerCounts, WorkerSends,
           WorkerSendFails, WorkerUnknown, WorkerTimesOut, WorkerAnnounces, WorkerFinishes,
           WorkerFinishFails, WorkerPops, WorkerReports, WorkerStops, WorkerUnrecords,
           WorkerGoes, WorkerAt, Panics, calls
<1>2. IdOf[worker[w].reg] \in Ids
    <2>1. worker[w] \in Workers
        BY Member DEF IInv, WorkersOK
    <2> QED
        BY <2>1, DataAssumption DEF Workers
<1>3. CASE WorkerPops(w)
    BY <1>1, <1>2, <1>3, PopLeavesNoOrphan DEF WorkerPops
<1>4. CASE WorkerCounts(w)
    <2>1. AddErrors(IdOf[worker[w].reg], worker[w].errors) /\ relate' = relate
        BY <1>4 DEF WorkerCounts
    <2>2. \A j \in Ids : records'[j] # None => records[j] # None
        BY <1>2, <2>1 DEF AddErrors, IInv, TablesOK
    <2> QED
        BY <1>1, <2>1, <2>2, FewerRecords
<1>5. CASE WorkerUnrecords(w)
    <2>1. records' = [records EXCEPT ![IdOf[worker[w].reg]] = None] /\ relate' = relate
        BY <1>5 DEF WorkerUnrecords
    <2>2. \A j \in Ids : records'[j] # None => records[j] # None
        BY <1>2, <2>1 DEF IInv, TablesOK
    <2> QED
        BY <1>1, <2>1, <2>2, FewerRecords
<1>6. CASE UNCHANGED <<records, relate>>
    BY <1>1, <1>6, FewerRecords
<1> QED
    BY <1>3, <1>4, <1>5, <1>6
    DEF WorkerNext, WorkerTakes, WorkerHandles, WorkerPanics, WorkerSends, WorkerSendFails,
        WorkerUnknown, WorkerTimesOut, WorkerAnnounces, WorkerFinishes, WorkerFinishFails,
        WorkerReports, WorkerStops, Quiet, Panics, tables

LEMMA NextLeavesNoOrphan ==
    ASSUME IInv, NoOrphanRecord, [Next]_vars
    PROVE  NoOrphanRecord'
<1>1. CASE UNCHANGED <<records, relate, register>>
    BY <1>1, FewerRecords
<1>2. ASSUME NEW c \in CancelCalls, CancelNext(c) PROVE NoOrphanRecord'
    <2>1. CASE CancelPops(c)
        BY <2>1, DataAssumption, PopLeavesNoOrphan DEF CancelPops, CancelAt
    <2> QED
        BY <1>1, <1>2, <2>1 DEF CancelNext, CancelFinds, CancelHangsUp, CancelReleases,
           CancelFindsPlace, CancelRemoves, CancelPanics, CancelAt, Panics, tables, calls
<1>3. ASSUME NEW d \in DOMAIN begun, BeginNext(d) PROVE NoOrphanRecord'
    <2>1. CASE BeginPops(d)
        <3>1. Head(begun[d].todo) \in Ids
            <4>1. begun[d].pc = "pop"
                BY <2>1 DEF BeginPops, BeginAt
            <4>2. begun[d].todo \in Seq(Ids) /\ begun[d].todo # <<>>
                BY <4>1, BeginRecord DEF Begins, BeginSound
            <4> QED
                BY <4>2, HeadTail
        <3> QED
            BY <2>1, <3>1, PopLeavesNoOrphan DEF BeginPops, BeginAt, calls
    <2> QED
        BY <1>1, <1>3, <2>1 DEF BeginNext, BeginTask, BeginPage, BeginPageOver, BeginRow,
           BeginDrain, BeginAgain, BeginGets, BeginMakes, BeginAppends, BeginCounts, BeginHires,
           BeginPuts, BeginStopped, BeginFindsPlace, BeginRemoves, BeginHangsUp, BeginReleases,
           BeginPanics, BeginAt, Internal, Panics, tables, calls
<1>4. CASE RunNext
    BY <1>1, <1>4 DEF RunNext, FetchNothing, FetchIds, FetchPanics, Fetch, Panics, tables, calls
<1>5. CASE UNCHANGED vars
    BY <1>1, <1>5 DEF vars, tables, calls
<1> QED
    BY <1>2, <1>3, <1>4, <1>5, RegisterLeavesNoOrphan, WorkerLeavesNoOrphan DEF Next

(* No id is refused for ever: an error record is there only while the entry   *)
(* of its task is, or while a call is between the two inserts (receiver.go    *)
(* 106-122), however registrations, cancellations, dispatch goroutines and    *)
(* workers of one id overlap.                                                 *)
THEOREM NoIdRefusedForEver == Spec => []NoOrphanRecord
<1>1. Init => NoOrphanRecord
    BY DEF Init, NoOrphanRecord
<1>2. IInv /\ NoOrphanRecord /\ [Next]_vars => IInv' /\ NoOrphanRecord'
    BY NextTyped, NextLeavesNoOrphan
<1> QED
    BY <1>1, <1>2, InitTyped, PTL DEF Spec

-----------------------------------------------------------------------------
(* The error threshold                                                       *)

(* A record holds exactly the errors counted for the call that inserted it,   *)
(* is below its threshold (or untouched) and has not been found at it; and a *)
(* call that has not begun has none.                                         *)
RecordSound(i) == LET r == records[i].of IN
    /\ IdOf[r] = i /\ register[r] # "new"
    /\ counted[r] = records[i].occurred /\ verdicts[r] = 0
    /\ counted[r] < Threshold(r) \/ counted[r] = 0

Counting ==
    /\ \A i \in Ids : records[i] # None => RecordSound(i)
    /\ \A r \in Regs : register[r] = "new" => counted[r] = 0 /\ verdicts[r] = 0
    /\ ThresholdExact

(* Records may go, and calls may move on, without a count.                   *)
LEMMA CountingKept ==
    ASSUME Counting, IInv, UNCHANGED <<counted, verdicts>>,
           \A j \in Ids : records'[j] # None => records'[j] = records[j] /\ records[j] # None,
           \A r \in Regs : register'[r] = "new" <=> register[r] = "new"
    PROVE  Counting'
<1>1. ASSUME NEW j \in Ids, records'[j] # None PROVE RecordSound(j)'
    <2>1. records'[j] = records[j] /\ records[j] # None
        BY <1>1
    <2>2. RecordSound(j) /\ records[j].of \in Regs
        BY <2>1 DEF Counting, IInv, TablesOK, Optional
    <2> QED
        BY <2>1, <2>2 DEF RecordSound
<1>2. \A r \in Regs : register'[r] = "new" => counted'[r] = 0 /\ verdicts'[r] = 0
    BY DEF Counting
<1>3. ThresholdExact'
    BY DEF Counting, ThresholdExact
<1> QED
    BY <1>1, <1>2, <1>3 DEF Counting

LEMMA RegisterCounting ==
    ASSUME Counting, IInv, NEW r \in Regs, RegisterNext(r)
    PROVE  Counting'
<1>1. /\ IdOf[r] \in Ids /\ register \in [Regs -> RegisterPCs]
      /\ records \in [Ids -> Optional([of : Regs, occurred : Nat])]
    BY DataAssumption DEF IInv, OthersOK, TablesOK
<1>2. UNCHANGED <<counted, verdicts>>
    BY DEF RegisterNext, RegisterRecord, RegisterRefused, RegisterEntry, RegisterExists,
           RegisterList, RegisterOffer, RegisterAt, history
<1>3. CASE RegisterRecord(r)
    <2>1. records' = [records EXCEPT ![IdOf[r]] = [of |-> r, occurred |-> 0]]
          /\ register[r] = "new" /\ register' = [register EXCEPT ![r] = "recorded"]
          /\ records[IdOf[r]] = None
        BY <1>3 DEF RegisterRecord, RegisterAt
    <2>2. counted[r] = 0 /\ verdicts[r] = 0
        BY <2>1 DEF Counting
    <2>3. ASSUME NEW j \in Ids, records'[j] # None PROVE RecordSound(j)'
        <3>1. CASE j = IdOf[r]
            <4>1. records'[j] = [of |-> r, occurred |-> 0] /\ register'[r] = "recorded"
                BY <1>1, <2>1, <3>1
            <4> QED
                BY <1>2, <2>2, <3>1, <4>1 DEF RecordSound
        <3>2. CASE j # IdOf[r]
            <4>1. records'[j] = records[j] /\ records[j] # None
                BY <1>1, <2>1, <2>3, <3>2
            <4>2. RecordSound(j) /\ records[j].of \in Regs
                BY <1>1, <4>1 DEF Counting, Optional
            <4>3. register'[records[j].of] # "new"
                BY <1>1, <2>1, <4>2 DEF RecordSound
            <4> QED
                BY <1>2, <4>1, <4>2, <4>3 DEF RecordSound
        <3> QED
            BY <3>1, <3>2
    <2>4. \A q \in Regs : register'[q] = "new" => counted'[q] = 0 /\ verdicts'[q] = 0
        BY <1>1, <1>2, <2>1 DEF Counting
    <2>5. ThresholdExact'
        BY <1>2 DEF Counting, ThresholdExact
    <2> QED
        BY <2>3, <2>4, <2>5 DEF Counting
<1>4. CASE RegisterRefused(r)
    <2>1. records' = records /\ register' = [register EXCEPT ![r] = "refused"]
        BY <1>4 DEF RegisterRefused, RegisterAt, tables
    <2>2. ASSUME NEW j \in Ids, records'[j] # None PROVE RecordSound(j)'
        <3>1. RecordSound(j) /\ records[j].of \in Regs
            BY <1>1, <2>1, <2>2 DEF Counting, Optional
        <3>2. register'[records[j].of] # "new"
            BY <1>1, <2>1, <3>1 DEF RecordSound
        <3> QED
            BY <1>2, <2>1, <3>1, <3>2 DEF RecordSound
    <2>3. \A q \in Regs : register'[q] = "new" => counted'[q] = 0 /\ verdicts'[q] = 0
        BY <1>1, <1>2, <2>1 DEF Counting
    <2>4. ThresholdExact'
        BY <1>2 DEF Counting, ThresholdExact
    <2> QED
        BY <2>2, <2>3, <2>4 DEF Counting
<1>5. CASE RegisterEntry(r) \/ RegisterExists(r) \/ RegisterList(r) \/ RegisterOffer(r)
    <2>1. PICK to : register' = [register EXCEPT ![r] = to] /\ to # "new" /\ register[r] # "new"
        BY <1>5 DEF RegisterEntry, RegisterExists, RegisterList, RegisterOffer, RegisterAt
    <2>2. records' = records
        BY <1>5 DEF RegisterEntry, RegisterExists, RegisterList, RegisterOffer, tables
    <2>3. \A q \in Regs : register'[q] = "new" <=> register[q] = "new"
        BY <1>1, <2>1
    <2> QED
        BY <1>2, <2>2, <2>3, CountingKept
<1> QED
    BY <1>3, <1>4, <1>5 DEF RegisterNext

LEMMA PopCounting ==
    ASSUME Counting, IInv, NEW i \in Ids, PopEntry(i), UNCHANGED <<register, counted, verdicts>>
    PROVE  Counting'
<1>1. \A j \in Ids : records'[j] # None => records'[j] = records[j] /\ records[j] # None
    BY DEF PopEntry, IInv, TablesOK
<1> QED
    BY <1>1, CountingKept

LEMMA AddErrorsCounting ==
    ASSUME Counting, IInv, NEW i \in Ids, NEW n \in Nat, AddErrors(i, n), UNCHANGED register
    PROVE  Counting'
<1> DEFINE r == records[i].of
<1>1. CASE records[i] = None
    BY <1>1, CountingKept DEF AddErrors
<1>2. CASE records[i] # None
    <2>1. r \in Regs /\ records[i].occurred \in Nat /\ records[i] \in [of : Regs, occurred : Nat]
        BY <1>2 DEF IInv, TablesOK, Optional
    <2>2. /\ IdOf[r] = i /\ register[r] # "new"
          /\ counted[r] = records[i].occurred /\ verdicts[r] = 0
        BY <1>2 DEF Counting, RecordSound
    <2>3. /\ records \in [Ids -> Optional([of : Regs, occurred : Nat])]
          /\ counted \in [Regs -> Nat] /\ verdicts \in [Regs -> Nat]
        BY DEF IInv, TablesOK, HistoryOK
    <2>4. Threshold(r) \in Int
        <3>1. Total[r] \in Nat
            BY <2>1, DataAssumption
        <3> QED
            BY <3>1 DEF Threshold
    <2>5. counted' = [counted EXCEPT ![r] = @ + n]
        BY <1>2 DEF AddErrors
    <2>6. counted'[r] = records[i].occurred + n /\ counted'[r] \in Nat
          /\ \A q \in Regs \ {r} : counted'[q] = counted[q]
        BY <2>1, <2>2, <2>3, <2>5
    <2> DEFINE reached == records[i].occurred + n >= Threshold(r)
    <2>7. CASE reached
        <3>1. records' = [records EXCEPT ![i] = None] /\ verdicts' = [verdicts EXCEPT ![r] = @ + 1]
            BY <1>2, <2>7 DEF AddErrors, Reached
        <3>2. verdicts'[r] = 1 /\ \A q \in Regs \ {r} : verdicts'[q] = verdicts[q]
            BY <2>1, <2>2, <2>3, <3>1
        <3>3. ASSUME NEW j \in Ids, records'[j] # None PROVE RecordSound(j)'
            <4>1. j # i /\ records'[j] = records[j] /\ records[j] # None
                BY <2>3, <3>1, <3>3
            <4>2. RecordSound(j) /\ records[j].of \in Regs
                BY <2>3, <4>1 DEF Counting, Optional
            <4>3. records[j].of # r
                BY <2>2, <4>1, <4>2 DEF RecordSound
            <4> QED
                BY <2>6, <3>2, <4>1, <4>2, <4>3 DEF RecordSound
        <3>4. ASSUME NEW q \in Regs, register'[q] = "new" PROVE counted'[q] = 0 /\ verdicts'[q] = 0
            BY <2>2, <2>6, <3>2, <3>4 DEF Counting
        <3>5. ThresholdExact'
            <4> SUFFICES ASSUME NEW q \in Regs
                         PROVE  /\ verdicts'[q] <= 1
                                /\ verdicts'[q] = 1 => counted'[q] >= Threshold(q)
                                /\ counted'[q] >= Threshold(q) /\ counted'[q] > 0 => verdicts'[q] = 1
                BY DEF ThresholdExact
            <4>1. CASE q = r
                BY <2>6, <2>7, <3>2, <4>1
            <4>2. CASE q # r
                BY <2>6, <3>2, <4>2 DEF Counting, ThresholdExact
            <4> QED
                BY <4>1, <4>2
        <3> QED
            BY <3>3, <3>4, <3>5 DEF Counting
    <2>8. CASE ~reached
        <3>1. records' = [records EXCEPT ![i].occurred = @ + n] /\ verdicts' = verdicts
            BY <1>2, <2>8 DEF AddErrors, Reached
        <3>2. records'[i].of = r /\ records'[i].occurred = records[i].occurred + n
              /\ \A j \in Ids \ {i} : records'[j] = records[j]
            BY <2>1, <2>3, <3>1
        <3>3. ASSUME NEW j \in Ids, records'[j] # None PROVE RecordSound(j)'
            <4>1. CASE j = i
                <5>1. counted'[r] < Threshold(r)
                    BY <2>1, <2>4, <2>6, <2>8
                <5> QED
                    BY <2>2, <2>6, <3>1, <3>2, <4>1, <5>1 DEF RecordSound
            <4>2. CASE j # i
                <5>1. records'[j] = records[j] /\ records[j] # None
                    BY <3>2, <3>3, <4>2
                <5>2. RecordSound(j) /\ records[j].of \in Regs
                    BY <2>3, <5>1 DEF Counting, Optional
                <5>3. records[j].of # r
                    BY <2>2, <4>2, <5>2 DEF RecordSound
                <5> QED
                    BY <2>6, <3>1, <5>1, <5>2, <5>3 DEF RecordSound
            <4> QED
                BY <4>1, <4>2
        <3>4. ASSUME NEW q \in Regs, register'[q] = "new" PROVE counted'[q] = 0 /\ verdicts'[q] = 0
            BY <2>2, <2>6, <3>1, <3>4 DEF Counting
        <3>5. ThresholdExact'
            <4> SUFFICES ASSUME NEW q \in Regs
                         PROVE  /\ verdicts'[q] <= 1
                                /\ verdicts'[q] = 1 => counted'[q] >= Threshold(q)
                                /\ counted'[q] >= Threshold(q) /\ counted'[q] > 0 => verdicts'[q] = 1
                BY DEF ThresholdExact
            <4>1. CASE q = r
                BY <2>1, <2>2, <2>4, <2>6, <2>8, <3>1, <4>1
            <4>2. CASE q # r
                BY <2>6, <3>1, <4>2 DEF Counting, ThresholdExact
            <4> QED
                BY <4>1, <4>2
        <3> QED
            BY <3>3, <3>4, <3>5 DEF Counting
    <2> QED
        BY <2>7, <2>8
<1> QED
    BY <1>1, <1>2

LEMMA WorkerCounting ==
    ASSUME Counting, IInv, NEW w \in DOMAIN worker, WorkerNext(w)
    PROVE  Counting'
<1>1. register' = register
    BY DEF WorkerNext, WorkerTakes, WorkerHandles, WorkerPanics, WorkerCounts, WorkerSends,
           WorkerSendFails, WorkerUnknown, WorkerTimesOut, WorkerAnnounces, WorkerFinishes,
           WorkerFinishFails, WorkerPops, WorkerReports, WorkerStops, WorkerUnrecords,
           WorkerGoes, WorkerAt, Panics, calls
<1>2. IdOf[worker[w].reg] \in Ids /\ worker[w].errors \in Nat
    <2>1. worker[w] \in Workers
        BY Member DEF IInv, WorkersOK
    <2> QED
        BY <2>1, DataAssumption DEF Workers
<1>3. CASE WorkerPops(w)
    BY <1>1, <1>2, <1>3, PopCounting DEF WorkerPops, history
<1>4. CASE WorkerCounts(w)
    BY <1>1, <1>2, <1>4, AddErrorsCounting DEF WorkerCounts
<1>5. CASE WorkerUnrecords(w)
    <2>1. records' = [records EXCEPT ![IdOf[worker[w].reg]] = None]
          /\ UNCHANGED <<counted, verdicts>>
        BY <1>5 DEF WorkerUnrecords, history
    <2>2. \A j \in Ids : records'[j] # None => records'[j] = records[j] /\ records[j] # None
        BY <1>2, <2>1 DEF IInv, TablesOK
    <2> QED
        BY <1>1, <2>1, <2>2, CountingKept
<1>6. CASE UNCHANGED <<records, counted, verdicts>>
    BY <1>1, <1>6, CountingKept
<1> QED
    BY <1>3, <1>4, <1>5, <1>6
    DEF WorkerNext, WorkerTakes, WorkerHandles, WorkerPanics, WorkerSends, WorkerSendFails,
        WorkerUnknown, WorkerTimesOut, WorkerAnnounces, WorkerFinishes, WorkerFinishFails,
        WorkerReports, WorkerStops, Quiet, Panics, tables, history

LEMMA NextCounting ==
    ASSUME Counting, IInv, [Next]_vars
    PROVE  Counting'
<1>1. CASE UNCHANGED <<records, register, counted, verdicts>>
    BY <1>1, CountingKept
<1>2. ASSUME NEW c \in CancelCalls, CancelNext(c) PROVE Counting'
    <2>1. CASE CancelPops(c)
        BY <2>1, DataAssumption, PopCounting DEF CancelPops, CancelAt, history
    <2> QED
        BY <1>1, <1>2, <2>1 DEF CancelNext, CancelFinds, CancelHangsUp, CancelReleases,
           CancelFindsPlace, CancelRemoves, CancelPanics, CancelAt, Panics, tables, calls, history
<1>3. ASSUME NEW d \in DOMAIN begun, BeginNext(d) PROVE Counting'
    <2>1. CASE BeginPops(d)
        <3>1. begun[d].pc = "pop" /\ begun[d] \in Begins /\ BeginSound(begun[d], Len(chans), top)
            BY <2>1, BeginRecord DEF BeginPops, BeginAt
        <3>2. Head(begun[d].todo) \in Ids
            BY <3>1, HeadTail DEF Begins, BeginSound
        <3> QED
            BY <2>1, <3>2, PopCounting DEF BeginPops, BeginAt, calls
    <2> QED
        BY <1>1, <1>3, <2>1 DEF BeginNext, BeginTask, BeginPage, BeginPageOver, BeginRow,
           BeginDrain, BeginAgain, BeginGets, BeginMakes, BeginAppends, BeginCounts, BeginHires,
           BeginPuts, BeginStopped, BeginFindsPlace, BeginRemoves, BeginHangsUp, BeginReleases,
           BeginPanics, BeginAt, Internal, Panics, tables, calls, history
<1>4. CASE RunNext
    BY <1>1, <1>4 DEF RunNext, FetchNothing, FetchIds, FetchPanics, Fetch, Panics, tables, calls,
       history
<1>5. CASE UNCHANGED vars
    BY <1>1, <1>5 DEF vars, tables, calls, history
<1> QED
    BY <1>2, <1>3, <1>4, <1>5, RegisterCounting, WorkerCounting DEF Next

(* However many workers count the errors of a task, its record is found at    *)
(* the threshold once at most, and exactly when the errors counted in it have *)
(* come to it (errortable.go 42-55, worker.go 100-115).                       *)
THEOREM ThresholdFoundOnce == Spec => []ThresholdExact
<1>1. Init => Counting
    BY DEF Init, Counting, ThresholdExact
<1>2. IInv /\ Counting /\ [Next]_vars => IInv' /\ Counting'
    BY NextTyped, NextCounting
<1>3. Counting => ThresholdExact
    BY DEF Counting
<1> QED
    BY <1>1, <1>2, <1>3, InitTyped, PTL DEF Spec
=============================================================================
