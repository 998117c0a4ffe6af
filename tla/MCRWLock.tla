------------------------------ MODULE MCRWLock ------------------------------
(* RWLock on a few threads, each of which may come as a reader or a writer,  *)
(* any number of times.                                                      *)
EXTENDS RWLock
=============================================================================
