---------------------------- MODULE MCSemaphore ----------------------------
(* Four waiters at two permits, one of them kept from low; two tickets    *)
(* that groups of them share.                                               *)
EXTENDS Semaphore
=============================================================================
