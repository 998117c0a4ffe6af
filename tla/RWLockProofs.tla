---------------------------- MODULE RWLockProofs ----------------------------
(***************************************************************************)
(* RWLock excludes, loses no wakeup and implements SharedLock, for every    *)
(* finite set of threads.  The invariant that carries all three is          *)
(* CountersAgree: the three counters of the code tell the truth about the   *)
(* threads, so a test of a counter is a test of the threads.                *)
(***************************************************************************)
EXTENDS RWLock, FiniteSetTheorems, TLAPS

(* Only finitely many threads read, write or wait. *)
LEMMA FiniteAt == IsFiniteSet(Reading) /\ IsFiniteSet(Waiting)
  BY ThreadsAssumption, FS_Subset DEF Reading, Waiting

(* How the sets of readers, writers and waiting writers change when one     *)
(* thread moves, whether or not the others are woken: waking takes nobody   *)
(* from one of the sets to another.                                         *)
LEMMA MoveOne ==
  ASSUME NEW t \in Threads, NEW place \in PCs, pc \in [Threads -> PCs],
         pc' = [pc EXCEPT ![t] = place]
  PROVE  /\ Reading' = IF place = "reading" THEN Reading \cup {t} ELSE Reading \ {t}
         /\ Writing' = IF place = "writing" THEN Writing \cup {t} ELSE Writing \ {t}
         /\ Waiting' = IF place \in {"sleepW", "wokenW"}
                              THEN Waiting \cup {t} ELSE Waiting \ {t}
  BY DEF Reading, Writing, Waiting

LEMMA MoveAndNotify ==
  ASSUME NEW t \in Threads, pc \in [Threads -> PCs], NotifyAll(t)
  PROVE  Reading' = Reading \ {t} /\ Writing' = Writing \ {t} /\ Waiting' = Waiting \ {t}
  <1>1. \A u \in Threads \ {t} : pc'[u] = Wake(pc[u])
    BY DEF NotifyAll
  <1>2. pc'[t] = "outside"
    BY DEF NotifyAll
  <1> QED
    BY <1>1, <1>2 DEF Reading, Writing, Waiting, Wake

(* Cardinalities when one thread enters or leaves a set of places. *)
LEMMA CardEnter ==
  ASSUME NEW S, NEW t, IsFiniteSet(S), t \notin S
  PROVE  Cardinality(S \cup {t}) = Cardinality(S) + 1 /\ Cardinality(S) \in Nat
  BY FS_AddElement, FS_CardinalityType

LEMMA CardLeave ==
  ASSUME NEW S, NEW t, IsFiniteSet(S), t \in S
  PROVE  Cardinality(S \ {t}) = Cardinality(S) - 1 /\ Cardinality(S) \in Nat \ {0}
  BY FS_RemoveElement, FS_CardinalityType, FS_EmptySet

LEMMA CardSame ==
  ASSUME NEW S, NEW t, t \notin S
  PROVE  S \ {t} = S
  OBVIOUS
-----------------------------------------------------------------------------
IInv == TypeOK /\ CountersAgree /\ Exclusion /\ NoLostWakeup

LEMMA InitIInv == Init => IInv
  <1> SUFFICES ASSUME Init PROVE IInv
    OBVIOUS
  <1>1. Reading = {} /\ Waiting = {} /\ Writing = {}
    BY DEF Init, Reading, Writing, Waiting
  <1>2. CountersAgree
    BY <1>1, FS_EmptySet DEF Init, CountersAgree
  <1> QED
    BY <1>2 DEF Init, IInv, TypeOK, PCs, Exclusion, NoLostWakeup

(* What the counters say about the threads, in the form the steps use. *)
LEMMA CountersMean ==
  ASSUME IInv
  PROVE  /\ readers = 0 <=> Reading = {}
         /\ waitingWriters = 0 <=> Waiting = {}
         /\ readers > 0 => ~writer
  <1>1. /\ IsFiniteSet(Reading)
        /\ IsFiniteSet(Waiting)
    BY FiniteAt
  <1>2. /\ readers = 0 <=> Reading = {}
        /\ waitingWriters = 0 <=> Waiting = {}
    BY <1>1, FS_EmptySet DEF IInv, CountersAgree
  <1>3. Reading # {} => Writing = {}
    BY DEF IInv, Exclusion, Reading, Writing, Waiting
  <1> QED
    BY <1>2, <1>3 DEF IInv, CountersAgree, TypeOK

(* The invariant is inductive: one step per action, and under it one per    *)
(* conjunct of CountersAgree.                                               *)
LEMMA NextIInv == IInv /\ [Next]_vars => IInv'
  <1> SUFFICES ASSUME IInv, [Next]_vars PROVE IInv'
    OBVIOUS
  <1>m. /\ readers = 0 <=> Reading = {}
        /\ waitingWriters = 0 <=> Waiting = {}
        /\ readers > 0 => ~writer
    BY CountersMean
  <1>f. IsFiniteSet(Reading) /\ IsFiniteSet(Waiting)
    BY FiniteAt
  <1>t. TypeOK /\ CountersAgree /\ Exclusion /\ NoLostWakeup
    BY DEF IInv
  <1>1. ASSUME NEW t \in Threads, ReadWait(t) PROVE IInv'
    <2>1. Reading' = Reading \ {t} /\ Writing' = Writing \ {t} /\ Waiting' = Waiting \ {t}
      BY <1>1, <1>t, MoveOne DEF ReadWait, TypeOK, PCs
    <2>2. t \notin Reading /\ t \notin Writing /\ t \notin Waiting
      BY <1>1 DEF ReadWait, Reading, Writing, Waiting
    <2>3. CountersAgree'
      BY <1>1, <1>t, <2>1, <2>2, CardSame DEF CountersAgree, ReadWait
    <2> QED
      BY <1>1, <1>t, <2>3
      DEF IInv, ReadWait, TypeOK, PCs, Exclusion, NoLostWakeup, ReadAllowed, WriteAllowed
  <1>2. ASSUME NEW t \in Threads, ReadAcquire(t) PROVE IInv'
    <2>1. Reading' = Reading \cup {t} /\ Writing' = Writing \ {t} /\ Waiting' = Waiting \ {t}
      BY <1>2, <1>t, MoveOne DEF ReadAcquire, TypeOK, PCs
    <2>2. t \notin Reading /\ t \notin Writing /\ t \notin Waiting
      BY <1>2 DEF ReadAcquire, Reading, Writing, Waiting
    <2>3. Writing = {} /\ Waiting = {}
      BY <1>2, <1>t, <1>m DEF ReadAcquire, ReadAllowed, CountersAgree
    <2>4. CountersAgree'
      BY <1>2, <1>t, <1>f, <2>1, <2>2, CardSame, CardEnter DEF CountersAgree, ReadAcquire
    <2>5. \A u \in Threads : pc[u] # "writing" /\ pc[u] # "sleepW"
      BY <2>3 DEF Reading, Writing, Waiting
    <2> QED
      BY <1>2, <1>t, <2>4, <2>5
      DEF IInv, ReadAcquire, TypeOK, PCs, Exclusion, NoLostWakeup, ReadAllowed, WriteAllowed
  <1>3. ASSUME NEW t \in Threads, ReadRelease(t) PROVE IInv'
    <2>1. Reading' = Reading \ {t} /\ Writing' = Writing \ {t} /\ Waiting' = Waiting \ {t}
      <3>1. CASE NotifyAll(t)
        BY <3>1, <1>t, MoveAndNotify DEF TypeOK
      <3>2. CASE pc' = [pc EXCEPT ![t] = "outside"]
        BY <3>2, <1>t, MoveOne DEF TypeOK, PCs
      <3> QED
        BY <1>3, <3>1, <3>2 DEF ReadRelease
    <2>2. t \in Reading /\ t \notin Writing /\ t \notin Waiting
      BY <1>3 DEF ReadRelease, Reading, Writing, Waiting
    <2>a. /\ Cardinality(Reading \ {t}) = Cardinality(Reading) - 1
          /\ Cardinality(Reading) \in Nat \ {0}
      BY <1>f, <2>2, CardLeave
    <2>b. readers' = readers - 1 /\ UNCHANGED <<writer, waitingWriters>>
      BY <1>3 DEF ReadRelease
    <2>c. readers' = Cardinality(Reading') /\ readers' \in Nat
      BY <1>t, <2>1, <2>a, <2>b DEF CountersAgree
    <2>d. Writing' = Writing /\ Waiting' = Waiting
      BY <2>1, <2>2
    <2>3. CountersAgree' /\ readers' \in Nat
      BY <1>t, <2>b, <2>c, <2>d DEF CountersAgree
    <2>4. pc' \in [Threads -> PCs]
      BY <1>3, <1>t DEF ReadRelease, NotifyAll, Wake, TypeOK, PCs
    <2>5. Exclusion'
      BY <1>3, <1>t DEF ReadRelease, NotifyAll, Wake, TypeOK, PCs, Exclusion
    <2>6. NoLostWakeup'
      <3>1. CASE readers' = 0
        BY <1>3, <1>t, <3>1 DEF ReadRelease, NotifyAll, Wake, TypeOK, PCs, NoLostWakeup
      <3>2. CASE readers' # 0
        BY <1>3, <1>t, <3>2
        DEF ReadRelease, TypeOK, PCs, NoLostWakeup, ReadAllowed, WriteAllowed
      <3> QED
        BY <3>1, <3>2
    <2> QED
      BY <1>3, <1>t, <2>3, <2>4, <2>5, <2>6 DEF IInv, ReadRelease, TypeOK
  <1>4. ASSUME NEW t \in Threads, WriteWait(t) PROVE IInv'
    <2>1. Reading' = Reading \ {t} /\ Writing' = Writing \ {t} /\ Waiting' = Waiting \cup {t}
      BY <1>4, <1>t, MoveOne DEF WriteWait, TypeOK, PCs
    <2>2. t \notin Reading /\ t \notin Writing /\ (t \in Waiting <=> pc[t] = "wokenW")
      BY <1>4 DEF WriteWait, Reading, Writing, Waiting
    <2>3. Cardinality(Waiting') = IF t \in Waiting THEN Cardinality(Waiting)
                                                 ELSE Cardinality(Waiting) + 1
      BY <1>f, <2>1, FS_AddElement
    <2>4. CountersAgree'
      BY <1>4, <1>t, <2>1, <2>2, <2>3, CardSame DEF CountersAgree, WriteWait
    <2> QED
      BY <1>4, <1>t, <2>4
      DEF IInv, WriteWait, TypeOK, PCs, Exclusion, NoLostWakeup, ReadAllowed, WriteAllowed
  <1>5. ASSUME NEW t \in Threads, WriteAcquire(t) PROVE IInv'
    <2>1. Reading' = Reading \ {t} /\ Writing' = Writing \cup {t} /\ Waiting' = Waiting \ {t}
      BY <1>5, <1>t, MoveOne DEF WriteAcquire, TypeOK, PCs
    <2>2. t \notin Reading /\ (t \in Waiting <=> pc[t] = "wokenW")
      BY <1>5 DEF WriteAcquire, Reading, Writing, Waiting
    <2>3. Reading = {} /\ Writing = {}
      BY <1>5, <1>t, <1>m DEF WriteAcquire, WriteAllowed, CountersAgree
    <2>a. Reading' = Reading /\ readers' = readers /\ (writer' <=> Writing' # {})
      BY <1>5, <2>1, <2>2 DEF WriteAcquire
    <2>b. waitingWriters' = Cardinality(Waiting') /\ waitingWriters' \in Nat
      <3>1. CASE pc[t] = "wokenW"
        <4>1. /\ Cardinality(Waiting \ {t}) = Cardinality(Waiting) - 1
              /\ Cardinality(Waiting) \in Nat \ {0}
          BY <1>f, <2>2, <3>1, CardLeave
        <4>2. waitingWriters' = waitingWriters - 1
          BY <1>5, <3>1 DEF WriteAcquire
        <4>3. waitingWriters = Cardinality(Waiting) /\ Waiting' = Waiting \ {t}
          BY <1>t, <2>1 DEF CountersAgree
        <4> QED
          BY <4>1, <4>2, <4>3
      <3>2. CASE pc[t] # "wokenW"
        <4>1. Waiting' = Waiting /\ waitingWriters' = waitingWriters
          BY <1>5, <2>1, <2>2, <3>2 DEF WriteAcquire
        <4> QED
          BY <1>t, <4>1 DEF CountersAgree, TypeOK
      <3> QED
        BY <3>1, <3>2
    <2>4. CountersAgree' /\ waitingWriters' \in Nat
      BY <1>t, <2>a, <2>b DEF CountersAgree
    <2>5. \A u \in Threads : pc[u] \notin {"reading", "writing"}
      BY <2>3 DEF Reading, Writing, Waiting
    <2> QED
      BY <1>5, <1>t, <2>4, <2>5
      DEF IInv, WriteAcquire, TypeOK, PCs, Exclusion, NoLostWakeup, ReadAllowed, WriteAllowed
  <1>6. ASSUME NEW t \in Threads, WriteRelease(t) PROVE IInv'
    <2>1. Reading' = Reading \ {t} /\ Writing' = Writing \ {t} /\ Waiting' = Waiting \ {t}
      BY <1>6, <1>t, MoveAndNotify DEF WriteRelease, TypeOK
    <2>2. Writing = {t} /\ t \notin Reading /\ t \notin Waiting
      BY <1>6, <1>t DEF WriteRelease, Exclusion, Reading, Writing, Waiting
    <2>3. CountersAgree'
      BY <1>6, <1>t, <2>1, <2>2, CardSame DEF CountersAgree, WriteRelease
    <2>4. pc' \in [Threads -> PCs]
      BY <1>6, <1>t DEF WriteRelease, NotifyAll, Wake, TypeOK, PCs
    <2>5. Exclusion'
      BY <1>6, <1>t DEF WriteRelease, NotifyAll, Wake, TypeOK, PCs, Exclusion
    <2>6. NoLostWakeup'
      BY <1>6, <1>t DEF WriteRelease, NotifyAll, Wake, TypeOK, PCs, NoLostWakeup
    <2> QED
      BY <1>6, <1>t, <2>3, <2>4, <2>5, <2>6 DEF IInv, WriteRelease, TypeOK
  <1>7. CASE UNCHANGED vars
    BY <1>t, <1>7 DEF IInv, vars, TypeOK, CountersAgree, Reading, Writing, Waiting, Exclusion,
       NoLostWakeup, ReadAllowed, WriteAllowed
  <1> QED
    BY <1>1, <1>2, <1>3, <1>4, <1>5, <1>6, <1>7 DEF Next

LEMMA SpecIInv == Spec => []IInv
  BY InitIInv, NextIInv, PTL DEF Spec

(* The counters and the places of the threads keep their types. *)
THEOREM TypeCorrect == Spec => []TypeOK
  BY SpecIInv, PTL DEF IInv

(* The counters count the threads at the places they stand for, so that a   *)
(* test of a counter is a test of the threads.                              *)
THEOREM CountersTellTheTruth == Spec => []CountersAgree
  BY SpecIInv, PTL DEF IInv

(* Appending to a spool file and reading it back never overlap, however     *)
(* many handler threads there are.                                          *)
THEOREM LockExcludes == Spec => []Exclusion
  BY SpecIInv, PTL DEF IInv

(* A thread asleep in wait() always has something left to wait for.         *)
THEOREM WakeupsKept == Spec => []NoLostWakeup
  BY SpecIInv, PTL DEF IInv
-----------------------------------------------------------------------------
(* Every step of the lock is a step of SharedLock or leaves its sets alone. *)
LEMMA StepImplements == IInv /\ [Next]_vars => [Abstract!Next]_(Abstract!vars)
  <1> SUFFICES ASSUME IInv, [Next]_vars PROVE [Abstract!Next]_(Abstract!vars)
    OBVIOUS
  <1>t. TypeOK /\ CountersAgree /\ Exclusion
    BY DEF IInv
  <1>m. /\ readers = 0 <=> Reading = {}
        /\ waitingWriters = 0 <=> Waiting = {}
        /\ writer <=> Writing # {}
    BY <1>t, CountersMean DEF CountersAgree
  <1>1. ASSUME NEW t \in Threads, ReadWait(t) PROVE UNCHANGED <<Reading, Writing, Waiting>>
    <2>1. Reading' = Reading \ {t} /\ Writing' = Writing \ {t} /\ Waiting' = Waiting \ {t}
      BY <1>1, <1>t, MoveOne DEF ReadWait, TypeOK, PCs
    <2> QED
      BY <1>1, <2>1 DEF ReadWait, Reading, Writing, Waiting
  <1>2. ASSUME NEW t \in Threads, ReadAcquire(t) PROVE Abstract!AcquireShared(t)
    <2>1. Reading' = Reading \cup {t} /\ Writing' = Writing \ {t} /\ Waiting' = Waiting \ {t}
      BY <1>2, <1>t, MoveOne DEF ReadAcquire, TypeOK, PCs
    <2>2. Writing = {} /\ Waiting = {} /\ t \notin Reading
      BY <1>2, <1>m DEF ReadAcquire, ReadAllowed, Reading, Writing, Waiting
    <2> QED
      BY <2>1, <2>2 DEF Abstract!AcquireShared, Abstract!Outside
  <1>3. ASSUME NEW t \in Threads, ReadRelease(t) PROVE Abstract!ReleaseShared(t)
    <2>1. Reading' = Reading \ {t} /\ Writing' = Writing \ {t} /\ Waiting' = Waiting \ {t}
      <3>1. CASE NotifyAll(t)
        BY <3>1, <1>t, MoveAndNotify DEF TypeOK
      <3>2. CASE pc' = [pc EXCEPT ![t] = "outside"]
        BY <3>2, <1>t, MoveOne DEF TypeOK, PCs
      <3> QED
        BY <1>3, <3>1, <3>2 DEF ReadRelease
    <2>2. t \in Reading /\ t \notin Writing /\ t \notin Waiting
      BY <1>3 DEF ReadRelease, Reading, Writing, Waiting
    <2> QED
      BY <2>1, <2>2 DEF Abstract!ReleaseShared
  <1>4. ASSUME NEW t \in Threads, WriteWait(t)
        PROVE  Abstract!AskExclusive(t) \/ UNCHANGED <<Reading, Writing, Waiting>>
    <2>1. Reading' = Reading \ {t} /\ Writing' = Writing \ {t} /\ Waiting' = Waiting \cup {t}
      BY <1>4, <1>t, MoveOne DEF WriteWait, TypeOK, PCs
    <2>2. t \notin Reading /\ t \notin Writing /\ (Reading # {} \/ Writing # {})
      BY <1>4, <1>m DEF WriteWait, WriteAllowed, Reading, Writing, Waiting
    <2> QED
      BY <2>1, <2>2 DEF Abstract!AskExclusive, Abstract!Outside
  <1>5. ASSUME NEW t \in Threads, WriteAcquire(t) PROVE Abstract!AcquireExclusive(t)
    <2>1. Reading' = Reading \ {t} /\ Writing' = Writing \cup {t} /\ Waiting' = Waiting \ {t}
      BY <1>5, <1>t, MoveOne DEF WriteAcquire, TypeOK, PCs
    <2>2. Reading = {} /\ Writing = {}
      BY <1>5, <1>m DEF WriteAcquire, WriteAllowed
    <2> QED
      BY <2>1, <2>2 DEF Abstract!AcquireExclusive, Abstract!Outside
  <1>6. ASSUME NEW t \in Threads, WriteRelease(t) PROVE Abstract!ReleaseExclusive(t)
    <2>1. Reading' = Reading \ {t} /\ Writing' = Writing \ {t} /\ Waiting' = Waiting \ {t}
      BY <1>6, <1>t, MoveAndNotify DEF WriteRelease, TypeOK
    <2>2. t \in Writing /\ t \notin Reading /\ t \notin Waiting
      BY <1>6 DEF WriteRelease, Reading, Writing, Waiting
    <2> QED
      BY <2>1, <2>2 DEF Abstract!ReleaseExclusive
  <1>7. CASE UNCHANGED vars
    BY <1>7 DEF vars, Abstract!vars, Reading, Writing, Waiting
  <1> QED
    BY <1>1, <1>2, <1>3, <1>4, <1>5, <1>6, <1>7 DEF Next, Abstract!Next, Abstract!vars

(* The condition-variable lock of the code implements the abstract lock: a  *)
(* reader enters only beside readers and with no writer waiting, a writer   *)
(* only alone.                                                              *)
THEOREM LockRefinement == Spec => ImplementsSharedLock
  <1>1. Init => Abstract!Init
    BY DEF Init, Abstract!Init, Reading, Writing, Waiting
  <1> QED
    BY <1>1, SpecIInv, StepImplements, PTL DEF Spec, Abstract!Spec, ImplementsSharedLock
=============================================================================
