--------------------------- MODULE PartitionProofs ---------------------------
(***************************************************************************)
(* Proofs about Partition, for arrays of any length: except on a region    *)
(* that begins the array and has no element less than its pivot, partition *)
(* stays in its region and returns what it says.                           *)
(***************************************************************************)
EXTENDS Partition, FiniteSetTheorems, FunctionTheorems, TLAPS

USE ArrayAssumption, WordsAssumption

(***************************************************************************)
(* Arrays.                                                                 *)
(***************************************************************************)

\* An array is a permutation of itself.
LEMMA SamePermutes ==
  ASSUME NEW a \in [Index -> Values]
  PROVE  IsPermutation(a, a)
BY DEF IsPermutation

\* Swapping two elements of an array keeps it a permutation of what it was a
\* permutation of.
LEMMA SwapPermutes ==
  ASSUME NEW a \in [Index -> Values], NEW b \in [Index -> Values],
         NEW i \in Index, NEW j \in Index, IsPermutation(a, b)
  PROVE  IsPermutation(Swap(a, i, j), b)
<1> SUFFICES ASSUME NEW v \in Values
             PROVE  Cardinality(Places(Swap(a, i, j), v)) = Cardinality(Places(a, v))
  BY DEF IsPermutation
<1> DEFINE Moved(k) == IF k = i THEN j ELSE IF k = j THEN i ELSE k
           f == [k \in Places(a, v) |-> Moved(k)]
<1>1. \A k \in Index : Moved(k) \in Index /\ Moved(Moved(k)) = k
  OBVIOUS
<1>2. \A k \in Index : Swap(a, i, j)[k] = a[Moved(k)]
  BY DEF Swap
<1>3. f \in [Places(a, v) -> Places(Swap(a, i, j), v)]
  BY <1>1, <1>2 DEF Places
<1>4. \A k, l \in Places(a, v) : f[k] = f[l] => k = l
  BY <1>1 DEF Places
<1>5. \A l \in Places(Swap(a, i, j), v) : \E k \in Places(a, v) : f[k] = l
  <2> SUFFICES ASSUME NEW l \in Places(Swap(a, i, j), v)
               PROVE  Moved(l) \in Places(a, v) /\ f[Moved(l)] = l
    OBVIOUS
  <2> QED  BY <1>1, <1>2 DEF Places
<1>6. ExistsBijection(Places(a, v), Places(Swap(a, i, j), v))
  BY <1>3, <1>4, <1>5, Fun_IsBij DEF ExistsBijection
<1>7. IsFiniteSet(Places(a, v))
  <2>1. IsFiniteSet(Index) /\ Places(a, v) \in SUBSET Index
    BY FS_Interval DEF Places, Index
  <2> QED  BY <2>1, FS_Subset
<1> QED  BY <1>6, <1>7, FS_Bijection

\* Swapping two elements of a region touches nothing outside it.
LEMMA SwapTouches ==
  ASSUME NEW a \in [Index -> Values], NEW b \in [Index -> Values],
         NEW s \in Int, NEW e \in Int,
         NEW i \in Index \cap Region(s, e), NEW j \in Index \cap Region(s, e),
         OnlyTouched(a, b, s, e)
  PROVE  OnlyTouched(Swap(a, i, j), b, s, e)
BY DEF OnlyTouched, Swap

\* The pivot is taken from the region.
LEMMA MiddleInside ==
  ASSUME NEW s \in Nat, NEW e \in Nat, s + 2 <= e
  PROVE  Middle(s, e) \in Region(s, e)
BY DEF Middle, Region

-----------------------------------------------------------------------------
(***************************************************************************)
(* The invariant.                                                          *)
(***************************************************************************)

\* partition is called with an array and a region of at least two elements.
LEMMA InitInd == Init => IndInv
<1> SUFFICES ASSUME Init PROVE IndInv
  OBVIOUS
<1>1. start \in Nat /\ end \in Nat /\ start + 2 <= end /\ end <= N
  BY DEF Init, Index
<1>2. TypeOK
  BY <1>1 DEF Init, TypeOK, Index
<1> QED  BY <1>1, <1>2 DEF Init, IndInv, ReturnsPartition

\* Every step keeps every variable within its type.
LEMMA NextTypes ==
  ASSUME TypeOK, start + 2 <= end, Next
  PROVE  TypeOK' /\ UNCHANGED parameters
<1>1. /\ \A i \in 0 .. Words - 1 : /\ Up(i) \in 0 .. Words - 1
                                   /\ Down(i) \in 0 .. Words - 1
                                   /\ ReadAt(i) \subseteq Values
      /\ end - 1 \in Index
      /\ arr[end - 1] \in Values
  BY DEF TypeOK, Up, Down, ReadAt, Index
<1>2. Middle(start, end) \in Index
  BY MiddleInside DEF TypeOK, Index, Region
<1>3. CASE Stash
  <2>1. arr' \in [Index -> Values]
    BY <1>1, <1>2, <1>3 DEF Stash, TypeOK, Swap
  <2>2. /\ start \in 0 .. Words - 1
        /\ start + (end - start - 2) \in 0 .. Words - 1
    BY DEF TypeOK, Index
  <2> QED  BY <1>2, <1>3, <2>1, <2>2 DEF Stash, TypeOK, parameters
<1>4. CASE ExtendLeft
  BY <1>1, <1>4 DEF ExtendLeft, InLoop, TypeOK, parameters
<1>5. CASE ExtendRight
  BY <1>1, <1>5 DEF ExtendRight, InLoop, TypeOK, parameters
<1>6. CASE Exchange
  BY <1>1, <1>6 DEF Exchange, InLoop, TypeOK, parameters
<1>7. CASE Fault
  BY <1>7 DEF Fault, TypeOK, parameters
<1>8. CASE Place
  BY <1>1, <1>8 DEF Place, TypeOK, parameters
<1> QED  BY <1>3, <1>4, <1>5, <1>6, <1>7, <1>8 DEF Next

\* The region is part of the array, and so are both indices while the loop goes
\* on; nothing is undefined and nothing wraps.
LEMMA IndicesInside ==
  ASSUME TypeOK, start + 2 <= end, LoopInv, left_index <= right_index
  PROVE  /\ start \in Nat /\ end \in Nat /\ end <= N
         /\ left_index \in Region(start, end - 1)
         /\ right_index \in Region(start, end - 1)
         /\ left_index \in Index /\ right_index \in Index
         /\ ReadAt(left_index) = {arr[left_index]}
         /\ ReadAt(right_index) = {arr[right_index]}
         /\ Up(left_index) = left_index + 1
         /\ arr[left_index] \in Int /\ arr[right_index] \in Int /\ pivot_val \in Int
<1>1. /\ start \in Nat /\ end \in Nat /\ end <= N
      /\ left_index \in Region(start, end - 1)
      /\ right_index \in Region(start, end - 1)
  BY DEF TypeOK, LoopInv, Region, Index
<1>2. left_index \in Index /\ right_index \in Index
  BY <1>1 DEF Region, Index
<1>3. /\ arr[left_index] \in Int /\ arr[right_index] \in Int /\ pivot_val \in Int
      /\ ReadAt(left_index) = {arr[left_index]}
      /\ ReadAt(right_index) = {arr[right_index]}
  BY <1>2 DEF TypeOK, ReadAt
<1>4. Up(left_index) = left_index + 1
  BY <1>2 DEF Up, Index
<1> QED  BY <1>1, <1>2, <1>3, <1>4

\* The pivot is stashed, and what is less than it, if there must be something,
\* is still in front of it.
LEMMA StashStarts ==
  ASSUME IndInv, HasStop, Stash
  PROVE  LoopInv'
<1> DEFINE m == Middle(start, end)
<1>1. /\ start \in Nat /\ end \in Nat /\ start + 2 <= end /\ end <= N
      /\ arr = input /\ arr \in [Index -> Values]
  BY DEF IndInv, TypeOK, Stash, Index
<1>2. m \in Region(start, end) /\ m \in Index /\ end - 1 \in Index
  BY <1>1, MiddleInside DEF Region, Index
<1>3. arr' = Swap(arr, m, end - 1)
  BY DEF Stash
<1>4. /\ \A i \in Index : arr'[i] = IF i = m THEN arr[end - 1]
                                    ELSE IF i = end - 1 THEN arr[m] ELSE arr[i]
      /\ pivot_val' = arr[m] /\ left_index' = start /\ right_index' = end - 2
      /\ start' = start /\ end' = end /\ input' = input
  BY <1>1, <1>2, <1>3 DEF Stash, Swap, parameters
<1>5. IsPermutation(arr', input)
  BY <1>1, <1>2, <1>3, SamePermutes, SwapPermutes
<1>6. OnlyTouched(arr', input, start, end)
  BY <1>1, <1>2, <1>4 DEF OnlyTouched, Region, Index
<1>7. start = 0 => \E i \in Region(start, end - 1) : arr'[i] < pivot_val'
  <2> HAVE start = 0
  <2>1. PICK k \in Region(start, end) : ~(arr[k] >= arr[m])
    BY <1>1 DEF HasStop, HasNoStop
  <2>2. k \in Index /\ arr[k] \in Int /\ arr[m] \in Int /\ arr[k] < arr[m] /\ k # m
    <3> HIDE DEF m
    <3>1. k \in Index
      BY <1>1 DEF Region, Index
    <3>2. arr[k] \in Int /\ arr[m] \in Int
      BY <1>1, <1>2, <3>1
    <3> QED  BY <2>1, <3>1, <3>2
  <2>3. CASE k = end - 1
    <3>1. m \in Region(start, end - 1)
      BY <1>1, <1>2, <2>2, <2>3 DEF Region
    <3> QED  BY <3>1, <1>2, <1>4, <2>2, <2>3
  <2>4. CASE k # end - 1
    <3>1. k \in Region(start, end - 1)
      BY <1>1, <2>1, <2>4 DEF Region
    <3> QED  BY <3>1, <1>4, <2>2, <2>4
  <2> QED  BY <2>3, <2>4
<1>8. /\ start \in Region(start, end)
      /\ end - 2 \in start - 1 .. end - 2
      /\ start <= (end - 2) + 1
      /\ \A i \in Region(start, start) : arr'[i] < pivot_val'
  BY <1>1 DEF Region
<1>9. /\ \A i \in (end - 2) + 1 .. end - 1 : arr'[i] >= pivot_val'
      /\ arr'[end - 1] = pivot_val'
  <2>1. arr'[end - 1] = arr[m] /\ arr[m] \in Int
    BY <1>1, <1>2, <1>4
  <2>2. \A i \in (end - 2) + 1 .. end - 1 : i = end - 1
    BY <1>1
  <2> QED  BY <1>4, <2>1, <2>2
<1> QED  BY <1>1, <1>4, <1>5, <1>6, <1>7, <1>8, <1>9 DEF LoopInv

\* The left part grows by an element less than the pivot.
LEMMA LeftGrows ==
  ASSUME IndInv, HasStop, ExtendLeft
  PROVE  LoopInv'
<1>1. TypeOK /\ start + 2 <= end /\ LoopInv /\ left_index <= right_index
  BY DEF IndInv, ExtendLeft, InLoop
<1>2. /\ arr[left_index] < pivot_val /\ left_index' = left_index + 1
      /\ UNCHANGED <<parameters, arr, pivot_val, right_index>>
  BY <1>1, IndicesInside DEF ExtendLeft
<1>3. \A i \in Region(start, left_index + 1) :
        i \in Region(start, left_index) \/ i = left_index
  BY <1>1, IndicesInside DEF Region
<1>4. left_index + 1 \in Region(start, end) /\ left_index + 1 <= right_index + 1
  BY <1>1, IndicesInside DEF Region
<1> QED  BY <1>1, <1>2, <1>3, <1>4 DEF LoopInv, parameters

\* The right part grows by an element that is not less than the pivot; in a
\* region that begins the array there is another element in front of it.
LEMMA RightGrows ==
  ASSUME IndInv, HasStop, ExtendRight
  PROVE  LoopInv'
<1>1. TypeOK /\ start + 2 <= end /\ LoopInv /\ left_index <= right_index
  BY DEF IndInv, ExtendRight, InLoop
<1>2. /\ arr[left_index] >= pivot_val /\ arr[right_index] >= pivot_val
      /\ right_index' = Down(right_index)
      /\ UNCHANGED <<parameters, arr, pivot_val, left_index>>
  BY <1>1, IndicesInside DEF ExtendRight
<1>3. \A i \in right_index .. end - 1 : arr[i] >= pivot_val
  <2>1. \A i \in right_index .. end - 1 : i = right_index \/ i \in right_index + 1 .. end - 1
    BY <1>1, IndicesInside DEF Region
  <2> QED  BY <1>1, <1>2, <2>1 DEF LoopInv
<1>4. right_index # 0
  <2> SUFFICES ASSUME right_index = 0 PROVE FALSE
    OBVIOUS
  <2>1. start = 0
    BY <1>1, IndicesInside DEF Region
  <2>2. PICK i \in Region(start, end - 1) : arr[i] < pivot_val
    BY <1>1, <2>1 DEF LoopInv
  <2>3. i \in Index /\ i \in right_index .. end - 1
    BY <1>1, <2>1, <2>2, IndicesInside DEF Region, Index
  <2>4. arr[i] \in Int /\ pivot_val \in Int
    BY <1>1, <2>3 DEF TypeOK
  <2> QED  BY <1>3, <2>2, <2>3, <2>4
<1>5. /\ right_index' = right_index - 1
      /\ right_index - 1 \in start - 1 .. end - 2
      /\ (right_index - 1) + 1 = right_index
  BY <1>1, <1>2, <1>4, IndicesInside DEF Down, Region
<1>6. left_index <= right_index
  BY <1>1
<1> QED  BY <1>1, <1>2, <1>3, <1>5, <1>6 DEF LoopInv, parameters

\* The two elements that are on the wrong side change places.
LEMMA WrongSidesExchanged ==
  ASSUME IndInv, HasStop, Exchange
  PROVE  LoopInv'
<1>1. TypeOK /\ start + 2 <= end /\ LoopInv /\ left_index <= right_index
  BY DEF IndInv, Exchange, InLoop
<1>2. /\ arr[left_index] >= pivot_val /\ arr[right_index] < pivot_val
      /\ arr' = [i \in Index |-> CASE i = left_index  -> arr[right_index]
                                   [] i = right_index -> arr[left_index]
                                   [] OTHER           -> arr[i]]
      /\ UNCHANGED <<parameters, pivot_val, left_index, right_index>>
  BY <1>1, IndicesInside DEF Exchange
<1>3. left_index < right_index
  BY <1>1, <1>2, IndicesInside DEF Region
<1>4. arr' = Swap(arr, left_index, right_index)
  BY <1>1, <1>2, <1>3, IndicesInside DEF Swap, TypeOK
<1>5. arr \in [Index -> Values] /\ input \in [Index -> Values]
  BY <1>1 DEF TypeOK
<1>6. IsPermutation(arr', input)
  BY <1>1, <1>4, <1>5, IndicesInside, SwapPermutes DEF LoopInv
<1>7. left_index \in Region(start, end) /\ right_index \in Region(start, end)
  BY <1>1, IndicesInside DEF Region
<1>8. OnlyTouched(arr', input, start, end)
  BY <1>1, <1>4, <1>5, <1>7, IndicesInside, SwapTouches DEF LoopInv
<1>9. \A i \in Index \ {left_index, right_index} : arr'[i] = arr[i]
  BY <1>2
<1>10. \A i \in Region(start, left_index) : i \in Index \ {left_index, right_index}
  BY <1>1, <1>3, IndicesInside DEF Region, Index
<1>11. \A i \in right_index + 1 .. end - 1 : i \in Index \ {left_index, right_index}
  BY <1>1, <1>3, IndicesInside DEF Region, Index
<1>12. \E i \in Region(start, end - 1) : arr'[i] < pivot_val
  BY <1>1, <1>2, IndicesInside
<1>13. end - 1 \in right_index + 1 .. end - 1
  BY <1>1, IndicesInside DEF Region
<1>14. arr'[end - 1] = pivot_val
  BY <1>1, <1>9, <1>11, <1>13 DEF LoopInv
<1> QED
  BY <1>1, <1>2, <1>6, <1>8, <1>9, <1>10, <1>11, <1>12, <1>14 DEF LoopInv, parameters

\* When the indices have passed each other, the pivot goes where the right part
\* begins, and the comment over partition is true.
LEMMA PlaceReturns ==
  ASSUME IndInv, HasStop, Place
  PROVE  IsPartition(arr', input, start, end, left_index)
<1>1. TypeOK /\ start + 2 <= end /\ LoopInv /\ left_index > right_index
  BY DEF IndInv, Place
<1>2. /\ start \in Nat /\ end \in Nat /\ end <= N
      /\ left_index \in Region(start, end) /\ left_index \in Index
      /\ end - 1 \in Region(start, end) /\ end - 1 \in Index
      /\ left_index = right_index + 1
      /\ arr \in [Index -> Values] /\ input \in [Index -> Values]
      /\ pivot_val \in Int
  BY <1>1 DEF TypeOK, LoopInv, Region, Index
<1>3. arr' = [i \in Index |-> CASE i = left_index -> arr[end - 1]
                                [] i = end - 1    -> arr[left_index]
                                [] OTHER          -> arr[i]]
  BY <1>2 DEF Place, ReadAt
<1>4. arr' = Swap(arr, left_index, end - 1)
  BY <1>2, <1>3 DEF Swap
<1>5. IsPermutation(arr', input)
  BY <1>1, <1>2, <1>4, SwapPermutes DEF LoopInv
<1>6. OnlyTouched(arr', input, start, end)
  BY <1>1, <1>2, <1>4, SwapTouches DEF LoopInv
<1>7. arr'[left_index] = pivot_val /\ pivot_val = input[Middle(start, end)]
  BY <1>1, <1>2, <1>3 DEF LoopInv
<1>8. \A i \in Region(start, left_index) : arr'[i] < arr'[left_index]
  <2> SUFFICES ASSUME NEW i \in Region(start, left_index)
               PROVE  arr'[i] < arr'[left_index]
    OBVIOUS
  <2>1. i \in Index /\ i # left_index /\ i # end - 1
    BY <1>2 DEF Region, Index
  <2> QED  BY <1>1, <1>3, <1>7, <2>1 DEF LoopInv
<1>9. \A i \in Region(left_index, end) : arr'[i] >= arr'[left_index]
  <2> SUFFICES ASSUME NEW i \in Region(left_index, end)
               PROVE  arr'[i] >= arr'[left_index]
    OBVIOUS
  <2>1. i \in Index /\ i \in right_index + 1 .. end - 1
    BY <1>2 DEF Region, Index
  <2>2. \A j \in right_index + 1 .. end - 1 : arr[j] >= pivot_val
    BY <1>1 DEF LoopInv
  <2>3. left_index \in right_index + 1 .. end - 1
    BY <1>2 DEF Region
  <2>4. CASE i = left_index
    BY <1>2, <1>7, <2>4
  <2>5. CASE i # left_index /\ i = end - 1
    BY <1>2, <1>3, <1>7, <2>2, <2>3, <2>5
  <2>6. CASE i # left_index /\ i # end - 1
    BY <1>3, <1>7, <2>1, <2>2, <2>6
  <2> QED  BY <2>4, <2>5, <2>6
<1> QED  BY <1>2, <1>5, <1>6, <1>7, <1>8, <1>9 DEF IsPartition

\* Every step keeps the invariant.
LEMMA NextInd ==
  ASSUME IndInv, Next
  PROVE  IndInv'
<1>1. TypeOK' /\ UNCHANGED parameters
  BY NextTypes DEF IndInv
<1>2. (start + 2 <= end)' /\ HasStop' = HasStop
  BY <1>1 DEF IndInv, parameters, HasStop
<1>3. (pc = "stash" => arr = input)'
  BY DEF Next, Stash, ExtendLeft, ExtendRight, Exchange, Fault, Place, InLoop
<1>4. HasStop => pc' # "killed"
  <2>1. ~(HasStop /\ Fault)
    BY IndicesInside DEF IndInv, Fault, InLoop
  <2> QED  BY <2>1
           DEF IndInv, Next, Stash, ExtendLeft, ExtendRight, Exchange, Place, InLoop
<1>5. pc' = "loop" /\ HasStop => LoopInv'
  BY StashStarts, LeftGrows, RightGrows, WrongSidesExchanged DEF Next, Fault, Place
<1>6. ReturnsPartition'
  <2> SUFFICES ASSUME pc' = "done", HasStop'
               PROVE  IsPartition(arr, input, start, end, left_index)'
    BY DEF ReturnsPartition
  <2>1. Place
    BY DEF Next, Stash, ExtendLeft, ExtendRight, Exchange, Fault, InLoop
  <2> QED  BY <1>1, <1>2, <2>1, PlaceReturns DEF Place, parameters
<1> QED  BY <1>1, <1>2, <1>3, <1>4, <1>5, <1>6 DEF IndInv

-----------------------------------------------------------------------------
\* The invariant holds of every call of partition.
THEOREM Invariance == SafeSpec => []IndInv
<1>1. IndInv /\ UNCHANGED vars => IndInv'
  BY DEF vars, IndInv, TypeOK, HasStop, LoopInv, ReturnsPartition
<1> QED  BY <1>1, InitInd, NextInd, PTL DEF SafeSpec

\* Every variable of partition stays within its type.
THEOREM TypeCorrect == SafeSpec => []TypeOK
<1>1. IndInv => TypeOK
  BY DEF IndInv
<1> QED  BY <1>1, Invariance, PTL

\* partition returns what its comment says, of an array of any length.
THEOREM PartitionCorrect == SafeSpec => []ReturnsPartition
<1>1. IndInv => ReturnsPartition
  BY DEF IndInv
<1> QED  BY <1>1, Invariance, PTL

\* Neither index leaves the region and right_index does not wrap.
THEOREM NoWrap == SafeSpec => []StaysInRegion
<1>1. IndInv => StaysInRegion
  BY IndicesInside DEF IndInv, StaysInRegion, InLoop
<1> QED  BY <1>1, Invariance, PTL
=============================================================================
