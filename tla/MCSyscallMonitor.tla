-------------------------- MODULE MCSyscallMonitor --------------------------
(* Small instances of SyscallMonitor for TLC.                              *)
EXTENDS SyscallMonitor

(* Processes 1 and 2 belong to root, 3 and 4 to users of their own.        *)
Owners == [p \in Procs |-> IF p <= 2 THEN 0 ELSE p]
=============================================================================
