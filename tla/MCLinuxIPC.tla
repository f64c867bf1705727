----------------------------- MODULE MCLinuxIPC -----------------------------
(* A small instance of LinuxIPC for TLC.                                   *)
EXTENDS LinuxIPC, TLC

CONSTANTS u, v, w
MCWords == {u, v, w}

(* A word in bucket 0, for which clients do not wait, two in bucket 1.     *)
MCHash == u :> 0 @@ v :> 1 @@ w :> 1
=============================================================================
