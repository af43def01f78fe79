----------------------------- MODULE SyncThreads -----------------------------
(* The CPUs or threads that share a primitive of core::sync.                *)
CONSTANT Threads
=============================================================================
