------------------------------ MODULE Partition ------------------------------
(***************************************************************************)
(* partition of parsort.c, one step for each turn of its loop.             *)
(*                                                                         *)
(* Indices are unsigned long: an index that is decremented below 0 becomes *)
(* the largest one, Words - 1.  What is read                               *)
(* outside the array is undefined: any value, or the process is killed by  *)
(* a signal; what is written there does not concern the array.             *)
(***************************************************************************)
EXTENDS Arrays

CONSTANT Words   \* number of values of an unsigned long

ASSUME WordsAssumption == Words \in Nat /\ Words > N

VARIABLES
  input,         \* the array as partition was called with it
  arr,
  start, end,    \* the region
  pivot_val,
  left_index, right_index,
  pc

vars == <<input, arr, start, end, pivot_val, left_index, right_index, pc>>
parameters == <<input, start, end>>

TypeOK ==
  /\ input \in [Index -> Values]
  /\ arr \in [Index -> Values]
  /\ start \in Index
  /\ end \in 1 .. N
  /\ pivot_val \in Values
  /\ left_index \in 0 .. Words - 1
  /\ right_index \in 0 .. Words - 1
  /\ pc \in {"stash", "loop", "done", "killed"}

\* Any array and any region the assertions let through.  The local variables
\* are not initialized.
Init ==
  /\ input \in [Index -> Values]
  /\ arr = input
  /\ start \in Index
  /\ end \in start + 2 .. N
  /\ pivot_val \in Values
  /\ left_index = 0
  /\ right_index = 0
  /\ pc = "stash"

-----------------------------------------------------------------------------
\* ++ and -- of an unsigned long.
Up(i) == IF i = Words - 1 THEN 0 ELSE i + 1
Down(i) == IF i = 0 THEN Words - 1 ELSE i - 1

\* Mutant: the stashed pivot is taken for one more element to compare.
StashInRegion ==
  /\ pc = "stash"
  /\ pivot_val' = arr[Middle(start, end)]
  /\ arr' = Swap(arr, Middle(start, end), end - 1)
  /\ left_index' = start
  /\ right_index' = start + (end - start - 1)
  /\ pc' = "loop"
  /\ UNCHANGED parameters

\* Choose the middle element and stash it at the end of the region.
Stash ==
  /\ pc = "stash"
  /\ pivot_val' = arr[Middle(start, end)]
  /\ arr' = Swap(arr, Middle(start, end), end - 1)
  /\ left_index' = start
  /\ right_index' = start + (end - start - 2)
  /\ pc' = "loop"
  /\ UNCHANGED parameters

\* What a read of arr[i] may give.
ReadAt(i) == IF i \in Index THEN {arr[i]} ELSE Values

\* The condition of the loop.
InLoop == pc = "loop" /\ left_index <= right_index

\* Mutant: an element equal to the pivot goes to the left.
ExtendLeftEqual ==
  /\ InLoop
  /\ \E l \in ReadAt(left_index) : l <= pivot_val
  /\ left_index' = Up(left_index)
  /\ UNCHANGED <<parameters, arr, pivot_val, right_index, pc>>

ExtendLeft ==
  /\ InLoop
  /\ \E l \in ReadAt(left_index) : l < pivot_val
  /\ left_index' = Up(left_index)
  /\ UNCHANGED <<parameters, arr, pivot_val, right_index, pc>>

\* Mutant: an element equal to the pivot does not stay on the right.
ExtendRightGreater ==
  /\ InLoop
  /\ \E l \in ReadAt(left_index) : l >= pivot_val
  /\ \E r \in ReadAt(right_index) : r > pivot_val
  /\ right_index' = Down(right_index)
  /\ UNCHANGED <<parameters, arr, pivot_val, left_index, pc>>

ExtendRight ==
  /\ InLoop
  /\ \E l \in ReadAt(left_index) : l >= pivot_val
  /\ \E r \in ReadAt(right_index) : r >= pivot_val
  /\ right_index' = Down(right_index)
  /\ UNCHANGED <<parameters, arr, pivot_val, left_index, pc>>

\* Both are on the wrong side.
Exchange ==
  /\ InLoop
  /\ \E l \in ReadAt(left_index), r \in ReadAt(right_index) :
       /\ l >= pivot_val
       /\ r < pivot_val
       /\ arr' = [i \in Index |-> CASE i = left_index  -> r
                                    [] i = right_index -> l
                                    [] OTHER           -> arr[i]]
  /\ UNCHANGED <<parameters, pivot_val, left_index, right_index, pc>>

\* A read outside the array is a page fault.
Fault ==
  /\ InLoop
  /\ left_index \notin Index \/ right_index \notin Index
  /\ pc' = "killed"
  /\ UNCHANGED <<parameters, arr, pivot_val, left_index, right_index>>

\* The pivot goes between the two parts, and its index is returned.
Place ==
  /\ pc = "loop"
  /\ left_index > right_index
  /\ \E l \in ReadAt(left_index) :
       arr' = [i \in Index |-> CASE i = left_index -> arr[end - 1]
                                 [] i = end - 1    -> l
                                 [] OTHER          -> arr[i]]
  /\ pc' = "done"
  /\ UNCHANGED <<parameters, pivot_val, left_index, right_index>>

Next == Stash \/ ExtendLeft \/ ExtendRight \/ Exchange \/ Fault \/ Place

SafeSpec == Init /\ [][Next]_vars
Spec == SafeSpec /\ WF_vars(Next)

-----------------------------------------------------------------------------
(***************************************************************************)
(* Properties.                                                             *)
(***************************************************************************)
HasStop == ~HasNoStop(input, start, end)

\* What the comment over partition says it returns, of every region that does
\* not begin the array or has an element less than its pivot.
ReturnsPartition ==
  pc = "done" /\ HasStop => IsPartition(arr, input, start, end, left_index)

\* Of such a region, neither index leaves what is left of it without the
\* stashed pivot, and the decrement of right_index does not wrap.
StaysInRegion ==
  InLoop /\ HasStop => {left_index, right_index} \subseteq Region(start, end - 1)

\* The loop ends.
Returns == HasStop ~> (pc = "done")

(***************************************************************************)
(* The inductive invariant behind the first two.                           *)
(***************************************************************************)

\* What is behind either index is on its side of the pivot, and while neither
\* has passed the other there is an element to stop at.
LoopInv ==
  /\ left_index \in Region(start, end)
  /\ right_index \in start - 1 .. end - 2
  /\ left_index <= right_index + 1
  /\ \A i \in Region(start, left_index) : arr[i] < pivot_val
  /\ \A i \in right_index + 1 .. end - 1 : arr[i] >= pivot_val
  /\ arr[end - 1] = pivot_val
  /\ pivot_val = input[Middle(start, end)]
  /\ start = 0 => \E i \in Region(start, end - 1) : arr[i] < pivot_val
  /\ IsPermutation(arr, input)
  /\ OnlyTouched(arr, input, start, end)

IndInv ==
  /\ TypeOK
  /\ start + 2 <= end
  /\ pc = "stash" => arr = input
  /\ HasStop => pc # "killed"
  /\ pc = "loop" /\ HasStop => LoopInv
  /\ ReturnsPartition

-----------------------------------------------------------------------------
\* "the only reason that sorting should fail is if a child process can't be
\* created or if there is any other system call failure" (parsort.c, quicksort):
\* a partition does not kill its process.
NeverKilled == pc # "killed"
=============================================================================
