------------------------------ MODULE Dictionary ------------------------------
(* What LinuxIPC offers its clients: a set of words, on which commands take
   effect once each, in the order in which they were sent.                 *)
EXTENDS Sequences
CONSTANT Commands
VARIABLES todo, dict

DictInit == todo = <<>> /\ dict = {}

Submit == /\ \E m \in Commands : todo' = Append(todo, m)
          /\ UNCHANGED dict

Effect(m, d) == CASE m.kind = "A" -> d \cup {m.word}
                  [] m.kind = "R" -> d \ {m.word}
                  [] m.kind = "C" -> {}
                  [] OTHER -> d

Serve == /\ todo # <<>> /\ todo' = Tail(todo)
         /\ dict' = Effect(Head(todo), dict)

DictSpec == DictInit /\ [][Submit \/ Serve]_<<todo, dict>>
=============================================================================
