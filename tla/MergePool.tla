------------------------------ MODULE MergePool ------------------------------
(***************************************************************************)
(* What the sorting service promises: the numbers of the input, cut into   *)
(* blocks, are only ever sorted block by block and merged two ordered      *)
(* blocks at a time, possibly from the start again; whatever is written    *)
(* out is the whole input in order, and it is written at most once.        *)
(***************************************************************************)
EXTENDS SortTasks

VARIABLES pool,   \* the blocks the input is in
          output  \* the output file

poolVars == <<pool, output>>

BlocksOf(tasks) == {tasks[i].b1 : i \in DOMAIN tasks}
FirstPool == BlocksOf(OwnTasks(0)) \cup BlocksOf(OwnTasks(1))

PoolInit == pool = FirstPool /\ output = NoBlock

SortOne == \E b \in pool :
  /\ pool' = (pool \ {b}) \cup {[b EXCEPT !.sorted = TRUE]}
  /\ UNCHANGED output

MergeTwo == \E a, b \in pool :
  /\ a # b /\ a.sorted /\ b.sorted
  /\ pool' = (pool \ {a, b})
              \cup {[items |-> a.items \cup b.items, sorted |-> TRUE]}
  /\ UNCHANGED output

Restart == pool' = FirstPool /\ output = NoBlock /\ UNCHANGED output

Deliver ==
  /\ output = NoBlock
  /\ UNION {b.items : b \in pool} = Input
  /\ output' = [items |-> Input, sorted |-> TRUE]
  /\ pool' = {output'}

PoolNext == SortOne \/ MergeTwo \/ Restart \/ Deliver
PoolSpec == PoolInit /\ [][PoolNext]_poolVars
=============================================================================
