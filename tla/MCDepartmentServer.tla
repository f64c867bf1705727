------------------------- MODULE MCDepartmentServer -------------------------
EXTENDS DepartmentServer

(* Ana is in IT and connects twice, Dan is in MANAGEMENT.                  *)
MCLevel == [c \in Clients |-> IF c = "ana" THEN 2 ELSE 3]
MCUser == [c \in Connections |-> IF c = "dan1" THEN "dan" ELSE "ana"]
=============================================================================
