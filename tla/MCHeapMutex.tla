---------------------------- MODULE MCHeapMutex ----------------------------
(***************************************************************************)
(* HeapMutex with three threads, one more than mutex.c starts: the lock    *)
(* can be reset by a second thread while a third one enters.               *)
(***************************************************************************)
EXTENDS HeapMutex

CONSTANTS t1, t2, t3

MCThreads == {t1, t2, t3}
=============================================================================
