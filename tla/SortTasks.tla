------------------------------ MODULE SortTasks ------------------------------
(***************************************************************************)
(* The tasks of FaultTolerantService (task_manager.h, task_manager.cpp)    *)
(* and the way main() cuts the input file into them (manager.cpp).         *)
(*                                                                         *)
(* A number of the input file is known by its position.  An array of       *)
(* numbers is a block: the positions it holds and whether they are in      *)
(* ascending order, which is all the masters and the workers tell apart.   *)
(***************************************************************************)
EXTENDS Integers, Sequences, FiniteSets

CONSTANTS NumNumbers,  \* int's in the input file
          OptimSize    \* get_optim_buffer_size(): numbers in one packet

ASSUME SizesAssumption ==
  /\ NumNumbers \in Nat \ {0}
  /\ OptimSize \in Nat \ {0}

Input == 0 .. NumNumbers - 1

Block == [items : SUBSET Input, sorted : BOOLEAN]
NoBlock == [items |-> {}, sorted |-> TRUE]

(* A SortTask uses only b1; a MergeTask holds m_data1 in b1, m_data2 in b2.
   "none" is the NULL pointer and "garbage" a task read from bytes that were
   never written as one.                                                   *)
Task == [kind : {"sort", "merge"}, b1 : Block, b2 : Block]
SortTask(b) == [kind |-> "sort", b1 |-> b, b2 |-> NoBlock]
MergeTask(b1, b2) == [kind |-> "merge", b1 |-> b1, b2 |-> b2]
NoTask == [kind |-> "none", b1 |-> NoBlock, b2 |-> NoBlock]
Garbage == [kind |-> "garbage", b1 |-> NoBlock, b2 |-> NoBlock]

Items(t) == t.b1.items \cup t.b2.items

computeResult_unsorted(t) ==
  [items |-> Items(t), sorted |-> t.b1.sorted /\ t.b2.sorted]

(* Insertion sort orders any array; merging orders two ordered arrays.     *)
computeResult(t) ==
  [items  |-> Items(t),
   sorted |-> t.kind = "sort" \/ (t.b1.sorted /\ t.b2.sorted)]

-----------------------------------------------------------------------------
(* The input file is shared by OrigSize masters; rank 0 takes the numbers
   that do not divide evenly.                                              *)
OrigSize == 2

MyNumbers(rank) ==
  (NumNumbers \div OrigSize)
    + (IF rank = 0 THEN NumNumbers % OrigSize ELSE 0)

MyOffset(rank) ==
  IF rank = 0 THEN 0 ELSE (MyNumbers(rank) * rank) + (NumNumbers % OrigSize)

NPackets(rank) ==
  IF MyNumbers(rank) % OptimSize = 0
    THEN MyNumbers(rank) \div OptimSize
    ELSE MyNumbers(rank) \div OptimSize + 1

(* The task of the k-th call of next_task(), counting from 0.              *)
next_task(rank, k) ==
  LET from == k * OptimSize
      to == IF from + OptimSize <= MyNumbers(rank) THEN from + OptimSize
                                                   ELSE MyNumbers(rank)
  IN  SortTask([items  |-> {MyOffset(rank) + i : i \in from .. to - 1},
                sorted |-> FALSE])

OwnTasks(rank) == [i \in 1 .. NPackets(rank) |-> next_task(rank, i - 1)]
=============================================================================
