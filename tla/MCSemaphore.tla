---------------------------- MODULE MCSemaphore -----------------------------
(* semaphore.Semaphore with a few goroutines that use and misuse it.       *)
EXTENDS Semaphore
=============================================================================
