---------------------------- MODULE MCIfdHandler ----------------------------
(***************************************************************************)
(* IfdHandler with two host threads, enough for any two entry points to   *)
(* overlap, and with three, so that a mutex holder can be overtaken by a   *)
(* caller of an unlocked entry point while a third waits for the mutex.    *)
(***************************************************************************)
EXTENDS IfdHandler

CONSTANTS t1, t2, t3

MCThreads == {t1, t2}

MCThreads3 == {t1, t2, t3}
=============================================================================
