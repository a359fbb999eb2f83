------------------------------- MODULE Sorting -------------------------------
(***************************************************************************)
(* What parsort promises whoever runs it: when it reports success, the     *)
(* array is sorted, has the elements it had, and is left alone from then   *)
(* on.  Before that, and after a failure, it may be in any state.          *)
(***************************************************************************)
EXTENDS Arrays

VARIABLES input,    \* the array before
          arr,
          result    \* "none" until parsort ends

vars == <<input, arr, result>>

Init == input \in [Index -> Values] /\ arr = input /\ result = "none"

Write ==
  /\ result # "success"
  /\ arr' \in [Index -> Values]
  /\ UNCHANGED <<input, result>>

Succeed ==
  /\ result = "none"
  /\ IsSorted(arr, 0, N)
  /\ IsPermutation(arr, input)
  /\ result' = "success"
  /\ UNCHANGED <<input, arr>>

\* It may be killed in the middle of a write.
Fail ==
  /\ result = "none"
  /\ result' = "failure"
  /\ arr' \in [Index -> Values]
  /\ UNCHANGED input

Next == Write \/ Succeed \/ Fail

Spec == Init /\ [][Next]_vars
=============================================================================
