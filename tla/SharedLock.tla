----------------------------- MODULE SharedLock -----------------------------
(***************************************************************************)
(* What a shared/exclusive lock with writer preference promises, without   *)
(* counters, flags or a condition variable: who holds it, and which        *)
(* writers it keeps waiting.  RWLock, the lock of a spool file in the      *)
(* Training Node, implements this specification.                           *)
(***************************************************************************)
CONSTANT Threads

VARIABLES shared,      \* the threads holding the lock for reading
          exclusive,   \* the threads holding it for writing
          waiting      \* the writers that found the lock taken

vars == <<shared, exclusive, waiting>>

Init == shared = {} /\ exclusive = {} /\ waiting = {}

Outside(t) == t \notin shared \cup exclusive \cup waiting

AcquireShared(t) ==
    /\ Outside(t)
    /\ exclusive = {} /\ waiting = {}
    /\ shared' = shared \cup {t}
    /\ UNCHANGED <<exclusive, waiting>>

ReleaseShared(t) ==
    /\ t \in shared
    /\ shared' = shared \ {t}
    /\ UNCHANGED <<exclusive, waiting>>

AskExclusive(t) ==
    /\ Outside(t)
    /\ shared # {} \/ exclusive # {}
    /\ waiting' = waiting \cup {t}
    /\ UNCHANGED <<shared, exclusive>>

AcquireExclusive(t) ==
    /\ t \in waiting \/ Outside(t)
    /\ shared = {} /\ exclusive = {}
    /\ exclusive' = {t}
    /\ waiting' = waiting \ {t}
    /\ UNCHANGED shared

ReleaseExclusive(t) ==
    /\ t \in exclusive
    /\ exclusive' = exclusive \ {t}
    /\ UNCHANGED <<shared, waiting>>

Next == \E t \in Threads :
    \/ AcquireShared(t) \/ ReleaseShared(t)
    \/ AskExclusive(t) \/ AcquireExclusive(t) \/ ReleaseExclusive(t)

Spec == Init /\ [][Next]_vars
=============================================================================
