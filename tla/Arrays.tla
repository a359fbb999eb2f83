-------------------------------- MODULE Arrays --------------------------------
(***************************************************************************)
(* The array that parsort (csf_assign04) maps from its file, and what its  *)
(* functions do to a region of it: the elements from start (inclusive) to  *)
(* end (exclusive).                                                        *)
(***************************************************************************)
EXTENDS Integers, FiniteSets

CONSTANTS
  N,       \* number of elements of the file
  Values   \* the values of an element

ASSUME ArrayAssumption == N \in Nat /\ Values \subseteq Int

Index == 0 .. N - 1
Region(start, end) == start .. end - 1

\* swap, for two elements of the array.
Swap(a, i, j) == [a EXCEPT ![i] = a[j], ![j] = a[i]]

\* Where partition takes its pivot from.
Middle(start, end) == start + (end - start) \div 2

\* a has the elements of b, each as often, in any order.
Places(a, v) == {i \in Index : a[i] = v}
IsPermutation(a, b) == \A v \in Values : Cardinality(Places(a, v)) = Cardinality(Places(b, v))

OnlyTouched(a, b, start, end) == \A i \in Index \ Region(start, end) : a[i] = b[i]

\* Every array that differs from a in the region only.
Rewrites(a, start, end) ==
  {[i \in Index |-> IF i \in Region(start, end) THEN f[i] ELSE a[i]] :
     f \in [Region(start, end) -> Values]}

IsSorted(a, start, end) ==
  \A i, j \in Region(start, end) : i < j => a[i] <= a[j]

\* a is the partition of b around the element that is now at mid.
IsPartition(a, b, start, end, mid) ==
  /\ OnlyTouched(a, b, start, end)
  /\ mid \in Region(start, end)
  /\ a[mid] = b[Middle(start, end)]
  /\ \A i \in Region(start, mid) : a[i] < a[mid]
  /\ \A i \in Region(mid, end) : a[i] >= a[mid]
  /\ IsPermutation(a, b)

\* The region begins the array and no element is less than its pivot: the index
\* that runs down from its end finds nothing to stop at.
HasNoStop(a, start, end) ==
  start = 0 /\ \A i \in Region(start, end) : a[i] >= a[Middle(start, end)]
=============================================================================
