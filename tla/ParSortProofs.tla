---------------------------- MODULE ParSortProofs ----------------------------
(***************************************************************************)
(* parsort sorts: the safety properties of ParSort, and that it implements *)
(* Sorting, for arrays of any length with any elements, any threshold and  *)
(* any number of processes that are killed or fail to fork.                *)
(*                                                                         *)
(* The inductive invariant IndInv has six parts, each of which needs the   *)
(* ones before it:                                                         *)
(*   TreeInv     the processes form a tree, and so do their regions: no    *)
(*               two that have started overlap, but for one within a part  *)
(*               of the other;                                             *)
(*   WaitInv     what a splitter knows of its children is true, whichever  *)
(*               of its forks failed, and no failure lacks a cause;        *)
(*   Settled     whoever ends well ends after all that are below it;       *)
(*   SortedInv   pivots stay in their places and sorted regions stay       *)
(*               sorted;                                                   *)
(*   PermInv     the elements stay those of the input;                     *)
(*   CheckerInv  what is_sorted has read is what is still there.           *)
(***************************************************************************)
EXTENDS ParSort, FiniteSetTheorems, TLAPS

USE ArrayAssumption, ParSortAssumption

\* The process that forked a splitter.
SorterOf(s) == <<"sort", s[2], s[3]>>

\* A process is a kind and a region of the array.
LEMMA ProcessParts ==
  ASSUME NEW p \in Processes
  PROVE  /\ p[1] \in {"sort", "split"}
         /\ p[2] \in Nat /\ p[3] \in Nat
         /\ p[2] <= p[3] /\ p[3] <= N
         /\ p = <<p[1], p[2], p[3]>>
BY DEF Processes, Regions

\* A kind and a region make a process.
LEMMA ProcessMade ==
  ASSUME NEW k \in {"sort", "split"}, NEW s \in Nat, NEW e \in Nat, s <= e, e <= N
  PROVE  <<k, s, e>> \in Processes
<1>1. <<s, e>> \in Regions
  BY DEF Regions
<1> QED BY <1>1 DEF Processes

\* Every process is a sorter or a splitter, a region has one of each, and a pid
\* of -1 is neither.
LEMMA Pairs ==
  /\ Main \in Sorters
  /\ Processes = Sorters \cup Splitters /\ Sorters \cap Splitters = {}
  /\ \A p \in Sorters : /\ SplitterOf(p) \in Splitters
                        /\ SplitterOf(p)[2] = p[2] /\ SplitterOf(p)[3] = p[3]
                        /\ SorterOf(SplitterOf(p)) = p
  /\ \A s \in Splitters : /\ SorterOf(s) \in Sorters
                          /\ SorterOf(s)[2] = s[2] /\ SorterOf(s)[3] = s[3]
                          /\ SplitterOf(SorterOf(s)) = s
  /\ Failed \notin Processes
<1>1. Main \in Sorters
  BY ProcessMade DEF Main, Sorters
<1>2. Processes = Sorters \cup Splitters /\ Sorters \cap Splitters = {}
  BY ProcessParts DEF Sorters, Splitters
<1>3. ASSUME NEW p \in Sorters
      PROVE  /\ SplitterOf(p) \in Splitters
             /\ SplitterOf(p)[2] = p[2] /\ SplitterOf(p)[3] = p[3]
             /\ SorterOf(SplitterOf(p)) = p
  BY ProcessParts, ProcessMade DEF SplitterOf, SorterOf, Sorters, Splitters
<1>4. ASSUME NEW s \in Splitters
      PROVE  /\ SorterOf(s) \in Sorters
             /\ SorterOf(s)[2] = s[2] /\ SorterOf(s)[3] = s[3]
             /\ SplitterOf(SorterOf(s)) = s
  BY ProcessParts, ProcessMade DEF SplitterOf, SorterOf, Sorters, Splitters
<1>5. Failed \notin Processes
  BY ProcessParts DEF Failed
<1> QED BY <1>1, <1>2, <1>3, <1>4, <1>5

\* The part of Pairs that most steps need.
LEMMA Kinds ==
  /\ Main \in Sorters
  /\ \A p \in Sorters : p \in Processes /\ SplitterOf(p) \in Splitters /\ p \notin Splitters
  /\ \A s \in Splitters : s \in Processes
BY Pairs

\* The part of a region on either side of its pivot is a smaller region.
LEMMA PartMade ==
  ASSUME NEW s \in Splitters, NEW x \in Sides, mid[s] \in Region(s[2], s[3])
  PROVE  /\ Part(s, x) \in Sorters
         /\ Part(s, x)[2] = IF x = "left" THEN s[2] ELSE mid[s] + 1
         /\ Part(s, x)[3] = IF x = "left" THEN mid[s] ELSE s[3]
         /\ Part(s, x) # SorterOf(s) /\ Part(s, x) # Main
<1>1. s[2] \in Nat /\ s[3] \in Nat /\ s[2] <= s[3] /\ s[3] <= N /\ mid[s] \in Nat
      /\ s[2] <= mid[s] /\ mid[s] + 1 <= s[3]
  BY ProcessParts DEF Splitters, Region
<1>2. Part(s, x) \in Sorters
  BY <1>1, ProcessMade DEF Part, Sorters
<1>3. Part(s, x) # SorterOf(s)
  BY <1>1 DEF Part, SorterOf
<1>4. Part(s, x) # Main
  BY <1>1 DEF Part, Main
<1> QED BY <1>2, <1>3, <1>4 DEF Part

\* A rewritten region leaves the rest of the array as it was.
LEMMA RewriteTypes ==
  ASSUME NEW a \in [Index -> Values], NEW s, NEW e, NEW b \in Rewrites(a, s, e)
  PROVE  b \in [Index -> Values] /\ OnlyTouched(b, a, s, e)
BY DEF Rewrites, OnlyTouched

\* Processes that have been forked, ended ones included.
Started(p) == pc[p] # "none"

\* Where a sorter may be.  The child that it forked is there while it waits for
\* it and after it; when the sorter goes on or ends by itself, it has waited for
\* that child.
SorterControl(p) ==
  /\ pc[p] \in {"none"} \cup MainPC \cup SortPC \cup Ended
  /\ pc[p] \in MainPC => p = Main
  /\ pc[p] = "fork" => mid[p] \in Region(p[2], p[3])
  /\ pc[p] = "wait" => Started(SplitterOf(p))
  /\ Started(SplitterOf(p)) =>
       /\ pc[p] \in {"wait", "munmap"} \cup Ended
       /\ pc[p] \in {"munmap", "ok", "failed"} => SplitterOf(p) \in reaped

\* Where a splitter may be.  The pids it holds are those of the two parts, it has
\* them once it has forked them, and they name processes that have started.
SplitterControl(s) ==
  /\ pc[s] \in {"none"} \cup SplitPC \cup Ended
  /\ Started(s) => mid[s] \in Region(s[2], s[3])
  /\ \A x \in Sides :
       pid[s][x] # Failed => /\ Started(s)
                             /\ pid[s][x] = Part(s, x)
                             /\ Started(pid[s][x])
  /\ pc[s] = "fork left" => pid[s]["left"] = Failed
  /\ pc[s] \in {"fork left", "fork right"} => pid[s]["right"] = Failed

\* Where every process may be.
Control ==
  /\ Started(Main)
  /\ \A q \in reaped : pc[q] \in Ended
  /\ \A p \in Sorters : SorterControl(p)
  /\ \A s \in Splitters : SplitterControl(s)

\* Two regions with at least one element, the pivot of an ancestor, between them.
Apart(p, q) == p[3] < q[2] \/ q[3] < p[2]

\* The region of p is a part of that of q.
Within(p, q) == q[2] <= p[2] /\ p[3] <= q[3]

\* p is one of the children forked for q's parts, or is in the region of one.
InPart(kids, p, q) ==
  \E x \in Sides : /\ kids[SplitterOf(q)][x] # Failed
                   /\ Within(p, kids[SplitterOf(q)][x])

\* Any two sorters that have started are apart, or one is in a part that was
\* forked for the other.
Laminar ==
  \A p, q \in Sorters :
    Started(p) /\ Started(q) /\ p # q => Apart(p, q) \/ InPart(pid, p, q) \/ InPart(pid, q, p)

\* What is_sorted holds.
CheckerType ==
  checker \in [read : 0 .. N, prev : Int, says : {"nothing", "sorted", "not sorted", "empty"}]

\* The parts of TypeOK that most steps need.
LEMMA Types ==
  ASSUME TypeOK
  PROVE  /\ pc \in [Processes -> {"none"} \cup MainPC \cup SortPC \cup SplitPC \cup Ended]
         /\ arr \in [Index -> Values]
         /\ input \in [Index -> Values]
         /\ pid \in [Splitters -> [Sides -> Sorters \cup {Failed}]]
         /\ exit \in [Splitters -> [Sides -> Ended \cup {"unknown"}]]
         /\ \A s \in Splitters, x \in Sides : pid[s][x] \in Sorters \cup {Failed}
<1>1. pid \in [Splitters -> [Sides -> Sorters \cup {Failed}]]
  BY DEF TypeOK
<1>2. \A s \in Splitters, x \in Sides : pid[s][x] \in Sorters \cup {Failed}
  BY <1>1, Zenon
<1> QED BY <1>1, <1>2 DEF TypeOK

\* At first every variable has its type.
LEMMA InitTypes == Init => TypeOK /\ CheckerType
<1> SUFFICES ASSUME Init PROVE TypeOK /\ CheckerType
  OBVIOUS
<1>1. pc \in [Processes -> {"none"} \cup MainPC \cup SortPC \cup SplitPC \cup Ended]
  BY DEF Init, MainPC
<1>2. arr \in [Index -> Values] /\ input \in Inputs /\ kills \in 0 .. MaxKills
  BY DEF Init
<1>3. mid \in [Processes -> 0 .. N] /\ pid \in [Splitters -> [Sides -> Sorters \cup {Failed}]]
      /\ exit \in [Splitters -> [Sides -> Ended \cup {"unknown"}]]
  BY DEF Init
<1>4. checker = [read |-> 0, prev |-> 0, says |-> "nothing"] /\ 0 \in 0 .. N
  BY DEF Init
<1>5. CheckerType
  BY <1>4 DEF CheckerType
<1>6. reaped \subseteq Processes /\ rest \in Rests /\ faults \in BOOLEAN /\ wild \in BOOLEAN
  BY DEF Init
<1>7. /\ checker.read \in 0 .. N
      /\ checker.read > 0 => checker.prev \in Values
      /\ checker.says \in {"nothing", "sorted", "not sorted", "empty"}
  BY <1>4
<1> QED BY <1>1, <1>2, <1>3, <1>5, <1>6, <1>7 DEF TypeOK

\* Every step keeps every variable within its type.
LEMMA NextTypes ==
  ASSUME TypeOK, CheckerType, Control, [Next]_vars
  PROVE  TypeOK' /\ CheckerType'
<1> USE DEF historyVars, splitVars
<1>a. ASSUME NEW p \in Processes, NEW from, NEW to, Goto(p, from, to),
             to \in MainPC \cup SortPC \cup SplitPC \cup Ended
      PROVE  pc' \in [Processes -> {"none"} \cup MainPC \cup SortPC \cup SplitPC \cup Ended]
  BY <1>a DEF TypeOK, Goto
<1>b. ASSUME NEW p, NEW b \in BOOLEAN PROVE Return(p, b) \in MainPC \cup Ended
  BY DEF Return, MainPC, Ended
<1>1. CASE Open \/ Fstat \/ Mmap \/ Munmap
  <2>1. pc' \in [Processes -> {"none"} \cup MainPC \cup SortPC \cup SplitPC \cup Ended]
    BY <1>1, Kinds, <1>a DEF Open, Fstat, Mmap, Munmap, MainPC, SortPC, Ended
  <2> QED BY <1>1, <2>1 DEF Open, Fstat, Mmap, Munmap, TypeOK, CheckerType
<1>2. CASE SystemCallFails
  <2>1. pc' \in [Processes -> {"none"} \cup MainPC \cup SortPC \cup SplitPC \cup Ended]
    BY <1>2, Kinds, <1>a DEF SystemCallFails, Ended
  <2> QED BY <1>2, <2>1 DEF SystemCallFails, TypeOK, CheckerType
<1>3. ASSUME NEW p \in Sorters, ReturnShort(p) \/ Choose(p) PROVE TypeOK' /\ CheckerType'
  <2>1. pc' \in [Processes -> {"none"} \cup MainPC \cup SortPC \cup SplitPC \cup Ended]
    BY <1>3, Kinds, <1>a, <1>b DEF ReturnShort, Choose, SortPC, Ended
  <2> QED BY <1>3, <2>1 DEF ReturnShort, Choose, TypeOK, CheckerType
<1>4. ASSUME NEW p \in Sorters, QSort(p) PROVE TypeOK' /\ CheckerType'
  <2>1. pc' \in [Processes -> {"none"} \cup MainPC \cup SortPC \cup SplitPC \cup Ended]
    BY <1>4, Kinds, <1>a, <1>b DEF QSort
  <2>2. arr' \in [Index -> Values]
    BY <1>4, RewriteTypes DEF QSort, TypeOK
  <2> QED BY <1>4, <2>1, <2>2 DEF QSort, TypeOK, CheckerType
<1>5. ASSUME NEW p \in Sorters, Partition(p) PROVE TypeOK' /\ CheckerType'
  <2>1. pc' \in [Processes -> {"none"} \cup MainPC \cup SortPC \cup SplitPC \cup Ended]
    BY <1>5, Kinds, <1>a DEF Partition, SortPC
  <2>2. PICK m \in Region(p[2], p[3]) : /\ mid' = [mid EXCEPT ![p] = m]
                                       /\ arr' \in Rewrites(arr, p[2], p[3])
    BY <1>5 DEF Partition
  <2>3. arr' \in [Index -> Values]
    BY <2>2, RewriteTypes DEF TypeOK
  <2>4. m \in 0 .. N
    BY ProcessParts DEF Sorters, Region
  <2> QED BY <1>5, <2>1, <2>2, <2>3, <2>4 DEF Partition, TypeOK, CheckerType
<1>6. ASSUME NEW p \in Sorters, GoWild(p) PROVE TypeOK' /\ CheckerType'
  BY <1>6 DEF GoWild, TypeOK, CheckerType
<1>7. ASSUME NEW p \in Processes, Die(p), kills' \in 0 .. MaxKills
      PROVE  TypeOK' /\ CheckerType'
  <2>1. arr' \in [Index -> Values]
    BY <1>7, RewriteTypes DEF Die, TypeOK
  <2>2. pc' \in [Processes -> {"none"} \cup MainPC \cup SortPC \cup SplitPC \cup Ended]
    BY <1>7 DEF Die, TypeOK, Ended
  <2> QED BY <1>7, <2>1, <2>2 DEF Die, TypeOK, CheckerType
<1>8. ASSUME NEW p \in Sorters, Segfault(p) PROVE TypeOK' /\ CheckerType'
  BY <1>7, <1>8, Kinds DEF Segfault, TypeOK
<1>9. ASSUME NEW p \in Processes, Kill(p) PROVE TypeOK' /\ CheckerType'
  <2>1. kills' \in 0 .. MaxKills
    <3>1. kills \in 0 .. MaxKills /\ kills < MaxKills /\ kills' = kills + 1
      BY <1>9 DEF Kill, TypeOK
    <3> QED BY <3>1
  <2> QED BY <1>7, <1>9, <2>1 DEF Kill
<1>10. ASSUME NEW p \in Sorters, Fork(p) PROVE TypeOK' /\ CheckerType'
  <2>1. p \in Processes /\ SplitterOf(p) \in Processes
    BY Kinds
  <2> QED BY <1>10, <2>1 DEF Fork, TypeOK, SortPC, SplitPC, CheckerType
<1>11. ASSUME NEW p \in Sorters, ForkFails(p) PROVE TypeOK' /\ CheckerType'
  <2>1. pc' \in [Processes -> {"none"} \cup MainPC \cup SortPC \cup SplitPC \cup Ended]
    BY <1>11, Kinds, <1>a, <1>b DEF ForkFails
  <2> QED BY <1>11, <2>1 DEF ForkFails, TypeOK, CheckerType
<1>12. ASSUME NEW p \in Sorters, Wait(p) PROVE TypeOK' /\ CheckerType'
  <2>1. pc' \in [Processes -> {"none"} \cup MainPC \cup SortPC \cup SplitPC \cup Ended]
    BY <1>12, Kinds, <1>a, <1>b DEF Wait
  <2>2. reaped' \subseteq Processes
    BY <1>12, Kinds DEF Wait, TypeOK
  <2> QED BY <1>12, <2>1, <2>2 DEF Wait, TypeOK, CheckerType
<1>13. ASSUME NEW s \in Splitters, NEW x \in Sides, ForkPart(s, x)
       PROVE TypeOK' /\ CheckerType'
  <2>0. Part(s, x) \in Sorters
    <3>1. SplitterControl(s) /\ pc[s] # "none"
      BY <1>13 DEF Control, ForkPart, At, ForkAt, Sides
    <3> QED BY <3>1, PartMade DEF SplitterControl, Started
  <2>1. pc' \in [Processes -> {"none"} \cup MainPC \cup SortPC \cup SplitPC \cup Ended]
    BY <1>13, <2>0, Kinds DEF ForkPart, AfterFork, TypeOK, SortPC, SplitPC
  <2>2. pid' \in [Splitters -> [Sides -> Sorters \cup {Failed}]]
    BY <1>13, <2>0 DEF ForkPart, TypeOK
  <2> QED BY <1>13, <2>1, <2>2 DEF ForkPart, TypeOK, CheckerType
<1>14. ASSUME NEW s \in Splitters, NEW x \in Sides, ForkPartFails(s, x)
       PROVE  TypeOK' /\ CheckerType'
  <2>1. pc' \in [Processes -> {"none"} \cup MainPC \cup SortPC \cup SplitPC \cup Ended]
    BY <1>14, Kinds, <1>a DEF ForkPartFails, AfterFork, SplitPC
  <2> QED BY <1>14, <2>1 DEF ForkPartFails, TypeOK, CheckerType
<1>15. ASSUME NEW s \in Splitters, NEW x \in Sides, WaitPart(s, x)
       PROVE  TypeOK' /\ CheckerType'
  <2>1. pc' \in [Processes -> {"none"} \cup MainPC \cup SortPC \cup SplitPC \cup Ended]
    BY <1>15, Kinds, <1>a DEF WaitPart, AfterWait, SplitPC
  <2>2. PICK c \in WaitedFor(s, x) : /\ pc[c] \in Ended
                                    /\ exit' = [exit EXCEPT ![s][x] = pc[c]]
                                    /\ reaped' = reaped \cup {c}
    BY <1>15 DEF WaitPart
  <2>3. c \in Processes
    <3>1. c \in Unreaped(s)
      BY DEF WaitedFor
    <3>2. PICK y \in Sides : c = pid[s][y] /\ c # Failed
      BY <3>1 DEF Unreaped
    <3>3. pid[s][y] \in Sorters \cup {Failed}
      BY Types
    <3> QED BY <3>2, <3>3, Kinds
  <2>4. exit' \in [Splitters -> [Sides -> Ended \cup {"unknown"}]]
    BY <2>2 DEF TypeOK
  <2>5. reaped' \subseteq Processes
    BY <2>2, <2>3 DEF TypeOK
  <2> QED BY <1>15, <2>1, <2>4, <2>5 DEF WaitPart, TypeOK, CheckerType
<1>16. ASSUME NEW s \in Splitters, NEW x \in Sides, WaitPartFails(s, x)
       PROVE  TypeOK' /\ CheckerType'
  <2>1. pc' \in [Processes -> {"none"} \cup MainPC \cup SortPC \cup SplitPC \cup Ended]
    BY <1>16, Kinds, <1>a DEF WaitPartFails, AfterWait, SplitPC
  <2> QED BY <1>16, <2>1 DEF WaitPartFails, TypeOK, CheckerType
<1>17. ASSUME NEW s \in Splitters, Check(s) PROVE TypeOK' /\ CheckerType'
  <2>1. pc' \in [Processes -> {"none"} \cup MainPC \cup SortPC \cup SplitPC \cup Ended]
    BY <1>17, Kinds, <1>a DEF Check, Ended
  <2> QED BY <1>17, <2>1 DEF Check, TypeOK, CheckerType
<1>18. CASE ReadElement
  <2>1. checker.read \in 0 .. N /\ checker.read + 1 \in 0 .. N /\ arr[checker.read] \in Values
        /\ checker.read \in Index
    <3>1. checker.read \in 0 .. N /\ checker.read < N
      BY <1>18 DEF ReadElement, TypeOK
    <3> DEFINE k == checker.read
    <3> HIDE DEF k
    <3>2. k \in Index /\ k + 1 \in 0 .. N
      BY <3>1 DEF Index, k
    <3> USE DEF k
    <3> QED BY <3>1, <3>2 DEF TypeOK
  <2>2. checker' \in [read : 0 .. N, prev : Int, says : {"nothing", "sorted", "not sorted", "empty"}]
    BY <1>18, <2>1 DEF ReadElement, CheckerType
  <2>3. checker'.prev = checker.prev \/ checker'.prev \in Values
    BY <1>18, <2>1 DEF ReadElement, CheckerType
  <2>4. checker.read > 0 \/ checker'.prev \in Values
    BY <1>18, <2>1 DEF ReadElement, CheckerType
  <2> QED BY <1>18, <2>1, <2>2, <2>3, <2>4 DEF ReadElement, processVars, TypeOK, CheckerType
<1>19. CASE ReadEnd
  BY <1>19 DEF ReadEnd, processVars, TypeOK, CheckerType
<1>20. CASE UNCHANGED vars
  BY <1>20 DEF vars, TypeOK, CheckerType
<1> QED
  BY <1>1, <1>2, <1>3, <1>4, <1>5, <1>6, <1>8, <1>9, <1>10, <1>11, <1>12, <1>13, <1>14,
     <1>15, <1>16, <1>17, <1>18, <1>19, <1>20
     DEF Next, RunsMain, Sorts, Splits

\* What any step of a sorter does to it, unless it forks.
SorterMoves(p) ==
  /\ pc[p] \notin Ended \cup {"none"}
  /\ pc' = [pc EXCEPT ![p] = pc'[p]]
  /\ pc'[p] \in (MainPC \cup SortPC \cup Ended) \ {"wait"}
  /\ pc'[p] \in MainPC => p = Main
  /\ pc'[p] = "fork" => mid'[p] \in Region(p[2], p[3])
  /\ Started(SplitterOf(p)) =>
       /\ pc'[p] \in {"munmap"} \cup Ended
       /\ pc'[p] = "signal" \/ SplitterOf(p) \in reaped'
  /\ \A q \in Processes \ {p} : mid'[q] = mid[q]
  /\ reaped' = reaped \/ (reaped' = reaped \cup {SplitterOf(p)} /\ pc[SplitterOf(p)] \in Ended)
  /\ pid' = pid /\ exit' = exit
  /\ pc'[p] = "signal" => faults' /\ (kills' > 0 \/ pc[p] = "partition")
  /\ pc'[p] = "failed" => faults' \/ (p = Main /\ rest # 0) \/ Wait(p)
  /\ pc[p] = "wait" /\ pc'[p] # "signal" => Wait(p)
  /\ pc'[p] = "fork" => Partition(p)
  /\ pc'[p] \in {"ok", "munmap"} => pc[p] = "munmap" \/ ReturnShort(p) \/ QSort(p) \/ Wait(p)

\* What any step of a splitter does to it, unless it forks.
SplitterMoves(s) ==
  /\ pc[s] \notin Ended \cup {"none"}
  /\ pc' = [pc EXCEPT ![s] = pc'[s]]
  /\ pc'[s] \in (SplitPC \cup Ended) \ {"fork left"}
  /\ pc'[s] = "fork right" => pid[s]["right"] = Failed
  /\ mid' = mid
  /\ reaped' = reaped \/ \E c \in Unreaped(s) : reaped' = reaped \cup {c} /\ pc[c] \in Ended
  /\ pid' = pid
  /\ \A q \in Splitters \ {s} : exit'[q] = exit[q]
  /\ \/ pc'[s] = "signal" /\ faults' /\ kills' > 0
     \/ Check(s)
     \/ \E x \in Sides : ForkPartFails(s, x) \/ WaitPart(s, x) \/ WaitPartFails(s, x)

\* Every step is one of these, a fork, or leaves all processes as they are.
LEMMA StepKinds ==
  ASSUME TypeOK, Control, Next
  PROVE  \/ \E p \in Sorters : SorterMoves(p) \/ Fork(p)
         \/ \E s \in Splitters : SplitterMoves(s) \/ \E x \in Sides : ForkPart(s, x)
         \/ UNCHANGED <<pc, mid, pid, exit, reaped>>
<1> DEFINE Kind ==
         \/ \E p \in Sorters : SorterMoves(p) \/ Fork(p)
         \/ \E s \in Splitters : SplitterMoves(s) \/ \E x \in Sides : ForkPart(s, x)
         \/ UNCHANGED <<pc, mid, pid, exit, reaped>>
<1>a. ASSUME NEW p \in Processes, NEW from, NEW to, Goto(p, from, to)
      PROVE  pc[p] = from /\ pc' = [pc EXCEPT ![p] = pc'[p]] /\ pc'[p] = to
  BY <1>a, Types DEF Goto, At
<1> USE DEF historyVars, splitVars
<1>b. \A p \in Sorters : SorterControl(p)
  BY DEF Control
<1>c. \A s \in Splitters : SplitterControl(s)
  BY DEF Control
<1>1. CASE Open \/ Fstat \/ Mmap \/ Munmap \/ SystemCallFails
  <2>1. Main \in Processes /\ Main \in Sorters /\ SorterControl(Main)
    BY Kinds, <1>b
  <2>2. /\ pc[Main] \in MainPC
        /\ pc' = [pc EXCEPT ![Main] = pc'[Main]]
        /\ pc'[Main] \in {"fstat", "mmap", "quicksort", "failed", "ok"}
        /\ pc[Main] # "munmap" \/ pc'[Main] \in Ended
        /\ mid' = mid /\ pid' = pid /\ exit' = exit /\ reaped' = reaped
        /\ pc'[Main] = "failed" => faults' \/ rest # 0
        /\ pc'[Main] = "ok" => pc[Main] = "munmap"
    BY <1>1, <2>1, <1>a DEF Open, Fstat, Mmap, Munmap, SystemCallFails, MainPC, Ended
  <2>3. SorterMoves(Main)
    BY <2>1, <2>2 DEF SorterMoves, SorterControl, MainPC, SortPC, Ended
  <2> QED BY <2>1, <2>3
<1>2. ASSUME NEW p \in Sorters, ReturnShort(p) \/ Choose(p) \/ QSort(p) \/ ForkFails(p)
      PROVE  SorterMoves(p)
  <2>1. p \in Processes /\ SorterControl(p)
    BY Kinds, <1>b
  <2>2. /\ pc[p] \in {"quicksort", "qsort", "fork"}
        /\ pc' = [pc EXCEPT ![p] = pc'[p]]
        /\ pc'[p] \in {"qsort", "partition", "failed", "ok", "munmap"}
        /\ pc'[p] = "munmap" => p = Main
        /\ mid' = mid /\ pid' = pid /\ exit' = exit /\ reaped' = reaped
        /\ pc'[p] = "failed" => faults'
        /\ pc'[p] \in {"ok", "munmap"} => ReturnShort(p) \/ QSort(p)
    BY <1>2, <2>1, <1>a DEF ReturnShort, Choose, QSort, ForkFails, Return
  <2> QED BY <2>1, <2>2 DEF SorterMoves, SorterControl, MainPC, SortPC, Ended
<1>3. ASSUME NEW p \in Sorters, Partition(p)
      PROVE  SorterMoves(p)
  <2>1. p \in Processes /\ SorterControl(p)
    BY Kinds, <1>b
  <2>2. PICK m \in Region(p[2], p[3]) : mid' = [mid EXCEPT ![p] = m]
    BY <1>3 DEF Partition
  <2>3. mid'[p] = m /\ \A q \in Processes \ {p} : mid'[q] = mid[q]
    BY <2>1, <2>2 DEF TypeOK
  <2>4. /\ pc[p] = "partition"
        /\ pc' = [pc EXCEPT ![p] = pc'[p]]
        /\ pc'[p] = "fork"
        /\ pid' = pid /\ exit' = exit /\ reaped' = reaped
    BY <1>3, <2>1, <1>a DEF Partition
  <2> QED BY <1>3, <2>1, <2>3, <2>4 DEF SorterMoves, SorterControl, MainPC, SortPC, Ended
<1>4. ASSUME NEW p \in Sorters, Wait(p)
      PROVE  SorterMoves(p)
  <2>1. p \in Processes /\ SorterControl(p)
    BY Kinds, <1>b
  <2>2. /\ pc[p] = "wait" /\ pc[SplitterOf(p)] \in Ended
        /\ pc' = [pc EXCEPT ![p] = pc'[p]]
        /\ pc'[p] \in {"failed", "ok", "munmap"}
        /\ pc'[p] = "munmap" => p = Main
        /\ mid' = mid /\ pid' = pid /\ exit' = exit /\ reaped' = reaped \cup {SplitterOf(p)}
    BY <1>4, <2>1, <1>a DEF Wait, Return
  <2> QED BY <1>4, <2>1, <2>2 DEF SorterMoves, SorterControl, MainPC, SortPC, Ended
<1>5. ASSUME NEW p \in Processes, Die(p), pc[p] \notin Ended \cup {"none"},
             kills' > 0 \/ (pc[p] = "partition" /\ p \in Sorters)
      PROVE  Kind
  <2>1. pc' = [pc EXCEPT ![p] = pc'[p]] /\ pc'[p] = "signal" /\ faults' = TRUE
        /\ mid' = mid /\ pid' = pid /\ exit' = exit /\ reaped' = reaped
    BY <1>5, Types DEF Die
  <2>2. CASE p \in Sorters
    <3>1. SorterMoves(p)
      BY <2>1, <2>2, <1>5, Kinds DEF SorterMoves, MainPC, SortPC, Ended
    <3> QED BY <2>2, <3>1
  <2>3. CASE p \in Splitters
    <3>1. SplitterMoves(p)
      BY <2>1, <2>3, <1>5, Kinds DEF SplitterMoves, SplitPC, Ended
    <3> QED BY <2>3, <3>1
  <2> QED BY <2>2, <2>3, Pairs
<1>6. ASSUME NEW p \in Sorters, Segfault(p) PROVE Kind
  BY <1>5, <1>6, Kinds DEF Segfault, At, Ended
<1>7. ASSUME NEW p \in Processes, Kill(p) PROVE Kind
  <2>1. kills \in 0 .. MaxKills
    BY DEF TypeOK
  <2>2. kills' > 0
    BY <1>7, <2>1 DEF Kill
  <2> QED BY <1>5, <1>7, <2>2 DEF Kill
<1>8. ASSUME NEW s \in Splitters, NEW x \in Sides, ForkPartFails(s, x) \/ WaitPartFails(s, x)
      PROVE  SplitterMoves(s)
  <2>1. s \in Processes /\ SplitterControl(s)
    BY Kinds, <1>c
  <2>2. /\ pc[s] \in {"fork left", "fork right", "wait left", "wait right"}
        /\ pc' = [pc EXCEPT ![s] = pc'[s]]
        /\ pc'[s] \in {"fork right", "wait left", "wait right", "check"}
        /\ pc'[s] = "fork right" => pc[s] = "fork left"
        /\ mid' = mid /\ pid' = pid /\ exit' = exit /\ reaped' = reaped
    <3>1. CASE ForkPartFails(s, x)
      <4>1. Goto(s, ForkAt(x), AfterFork(x))
        BY <3>1 DEF ForkPartFails
      <4>2. pc[s] = ForkAt(x) /\ pc' = [pc EXCEPT ![s] = pc'[s]] /\ pc'[s] = AfterFork(x)
        BY <4>1, <2>1, <1>a
      <4> QED BY <3>1, <4>2 DEF ForkPartFails, Sides, ForkAt, AfterFork
    <3>2. CASE WaitPartFails(s, x)
      <4>1. Goto(s, WaitAt(x), AfterWait(x))
        BY <3>2 DEF WaitPartFails
      <4>2. pc[s] = WaitAt(x) /\ pc' = [pc EXCEPT ![s] = pc'[s]] /\ pc'[s] = AfterWait(x)
        BY <4>1, <2>1, <1>a
      <4> QED BY <3>2, <4>2 DEF WaitPartFails, Sides, WaitAt, AfterWait
    <3> QED BY <1>8, <3>1, <3>2
  <2> QED BY <1>8, <2>1, <2>2 DEF SplitterMoves, SplitterControl, SplitPC, Ended
<1>9. ASSUME NEW s \in Splitters, NEW x \in Sides, WaitPart(s, x)
      PROVE  SplitterMoves(s)
  <2>1. s \in Processes
    BY Kinds
  <2>2. /\ pc[s] \in {"wait left", "wait right"}
        /\ pc' = [pc EXCEPT ![s] = pc'[s]]
        /\ pc'[s] \in {"wait right", "check"}
        /\ mid' = mid /\ pid' = pid
    BY <1>9, <2>1, <1>a DEF WaitPart, Sides, WaitAt, AfterWait
  <2>3. PICK c \in WaitedFor(s, x) : /\ pc[c] \in Ended
                                    /\ exit' = [exit EXCEPT ![s][x] = pc[c]]
                                    /\ reaped' = reaped \cup {c}
    BY <1>9 DEF WaitPart
  <2>4. c \in Unreaped(s)
    BY DEF WaitedFor
  <2>5. \A q \in Splitters \ {s} : exit'[q] = exit[q]
    BY <2>3, Types
  <2> QED BY <1>9, <2>2, <2>3, <2>4, <2>5 DEF SplitterMoves, SplitPC, Ended
<1>10. ASSUME NEW s \in Splitters, Check(s)
      PROVE  SplitterMoves(s)
  <2>1. s \in Processes
    BY Kinds
  <2>2. /\ pc[s] = "check"
        /\ pc' = [pc EXCEPT ![s] = pc'[s]]
        /\ pc'[s] \in {"ok", "failed"}
        /\ mid' = mid /\ pid' = pid /\ exit' = exit /\ reaped' = reaped
    BY <1>10, <2>1, <1>a DEF Check
  <2> QED BY <1>10, <2>1, <2>2 DEF SplitterMoves, SplitPC, Ended
<1>11. CASE ReadElement \/ ReadEnd \/ \E p \in Sorters : GoWild(p)
  BY <1>11 DEF ReadElement, ReadEnd, GoWild, processVars
<1> QED
  BY <1>1, <1>2, <1>3, <1>4, <1>6, <1>7, <1>8, <1>9, <1>10, <1>11
     DEF Next, RunsMain, Sorts, Splits

\* A step of a sorter keeps every process where it may be.
LEMMA SorterMovesControl ==
  ASSUME TypeOK, Control, NEW p \in Sorters, SorterMoves(p)
  PROVE  Control'
<1>1. \A q \in Processes : pc'[q] = IF q = p THEN pc'[p] ELSE pc[q]
  BY Types DEF SorterMoves
<1>2. p \in Processes /\ pc'[p] # "none"
  BY Kinds DEF SorterMoves, MainPC, SortPC, Ended
<1>3. Started(Main)'
  BY <1>1, <1>2, Kinds DEF Control, Started
<1>4. \A q \in reaped' : pc'[q] \in Ended
  <2>1. \A q \in reaped' : q \in Processes /\ pc[q] \in Ended
    <3>1. reaped' = reaped \/ (reaped' = reaped \cup {SplitterOf(p)} /\ pc[SplitterOf(p)] \in Ended)
      BY DEF SorterMoves
    <3>2. reaped \subseteq Processes /\ \A q \in reaped : pc[q] \in Ended
      BY DEF Control, TypeOK
    <3> QED BY <3>1, <3>2, Kinds
  <2> QED BY <1>1, <2>1 DEF SorterMoves
<1>5. ASSUME NEW q \in Sorters PROVE SorterControl(q)'
  <2>1. /\ SorterControl(q) /\ q \in Processes
        /\ SplitterOf(q) \in Processes /\ SplitterOf(q) # p
        /\ pc'[SplitterOf(q)] = pc[SplitterOf(q)]
    BY <1>1, Kinds DEF Control
  <2>2. CASE q = p
    BY <2>1, <2>2, <1>2 DEF SorterMoves, SorterControl, Started, MainPC, SortPC, Ended
  <2>3. CASE q # p
    <3>1. pc'[q] = pc[q] /\ mid'[q] = mid[q] /\ reaped \subseteq reaped'
      BY <1>1, <2>1, <2>3 DEF SorterMoves
    <3> QED BY <2>1, <3>1 DEF SorterControl, Started
  <2> QED BY <2>2, <2>3
<1>6. ASSUME NEW s \in Splitters PROVE SplitterControl(s)'
  <2>1. /\ SplitterControl(s) /\ s \in Processes /\ s # p
        /\ pc'[s] = pc[s] /\ mid'[s] = mid[s] /\ pid' = pid
    BY <1>1, Kinds DEF Control, SorterMoves
  <2>2. \A x \in Sides : Part(s, x)' = Part(s, x)
    BY <2>1 DEF Part
  <2>3. \A x \in Sides : pid[s][x] # Failed => pid[s][x] \in Processes
    BY Types, Kinds
  <2> QED BY <1>1, <1>2, <2>1, <2>2, <2>3 DEF SplitterControl, Started
<1> QED BY <1>3, <1>4, <1>5, <1>6 DEF Control

\* A step of a splitter keeps every process where it may be.
LEMMA SplitterMovesControl ==
  ASSUME TypeOK, Control, NEW t \in Splitters, SplitterMoves(t)
  PROVE  Control'
<1>1. \A q \in Processes : pc'[q] = IF q = t THEN pc'[t] ELSE pc[q]
  BY Types DEF SplitterMoves
<1>2. t \in Processes /\ pc'[t] # "none" /\ t \notin Sorters
  BY Kinds DEF SplitterMoves, SplitPC, Ended
<1>3. Started(Main)'
  BY <1>1, <1>2, Kinds DEF Control, Started
<1>4. \A q \in reaped' : pc'[q] \in Ended
  <2>1. \A c \in Unreaped(t) : c \in Processes
    BY Types, Kinds DEF Unreaped
  <2>2. \A q \in reaped' : q \in Processes /\ pc[q] \in Ended
    BY <2>1 DEF SplitterMoves, Control, TypeOK
  <2> QED BY <1>1, <2>2 DEF SplitterMoves
<1>5. ASSUME NEW q \in Sorters PROVE SorterControl(q)'
  <2>1. /\ SorterControl(q) /\ q \in Processes
        /\ SplitterOf(q) \in Processes
        /\ pc'[q] = pc[q] /\ mid' = mid /\ reaped \subseteq reaped'
        /\ pc'[SplitterOf(q)] # "none" <=> pc[SplitterOf(q)] # "none"
    BY <1>1, <1>2, Kinds DEF Control, SplitterMoves
  <2> QED BY <2>1 DEF SorterControl, Started
<1>6. ASSUME NEW s \in Splitters PROVE SplitterControl(s)'
  <2>1. /\ SplitterControl(s) /\ s \in Processes
        /\ mid' = mid /\ pid' = pid
        /\ pc'[s] # "none" <=> pc[s] # "none"
    BY <1>1, <1>2, Kinds DEF Control, SplitterMoves
  <2>2. \A x \in Sides : Part(s, x)' = Part(s, x)
    BY <2>1 DEF Part
  <2>3. \A x \in Sides : pid[s][x] # Failed => /\ pid[s][x] \in Processes
                                             /\ pc'[pid[s][x]] = pc[pid[s][x]]
    BY <1>1, <1>2, Types, Kinds
  <2>4. CASE s = t
    <3>1. pc'[s] \in (SplitPC \cup Ended) \ {"fork left"} /\ (pc'[s] = "fork right" => pid[s]["right"] = Failed)
      BY <2>4 DEF SplitterMoves
    <3>2. pc[s] # "none" /\ pc'[s] # "none"
      BY <1>2, <2>1, <2>4
    <3> QED BY <2>1, <2>2, <2>3, <3>1, <3>2 DEF SplitterControl, Started
  <2>5. CASE s # t
    BY <1>1, <2>1, <2>2, <2>3, <2>5 DEF SplitterControl, Started
  <2> QED BY <2>4, <2>5
<1> QED BY <1>3, <1>4, <1>5, <1>6 DEF Control

\* So does the fork in quicksort.
LEMMA ForkControl ==
  ASSUME TypeOK, Control, NEW p \in Sorters, Fork(p)
  PROVE  Control'
<1> DEFINE t == SplitterOf(p)
<1>1. /\ p \in Processes /\ t \in Splitters /\ t \in Processes /\ p # t
      /\ pc[p] = "fork" /\ pc[t] = "none" /\ t[2] = p[2] /\ t[3] = p[3]
      /\ mid[p] \in Region(p[2], p[3])
  BY Kinds, Pairs DEF Fork, At, Control, SorterControl, Ended, Started
<1> HIDE DEF t
<1>2. /\ \A q \in Processes : pc'[q] = IF q = t THEN "fork left" ELSE IF q = p THEN "wait" ELSE pc[q]
      /\ \A q \in Processes : mid'[q] = IF q = t THEN mid[p] ELSE mid[q]
      /\ pid' = pid /\ reaped' = reaped
  BY <1>1 DEF Fork, t, TypeOK, splitVars
<1>3. Started(Main)'
  BY <1>1, <1>2, Kinds DEF Control, Started
<1>4. \A q \in reaped' : pc'[q] \in Ended
  BY <1>1, <1>2 DEF Control, TypeOK, Ended
<1>5. ASSUME NEW q \in Sorters PROVE SorterControl(q)'
  <2>1. /\ SorterControl(q) /\ q \in Processes
        /\ SplitterOf(q) \in Processes /\ SplitterOf(q) # p
        /\ q # t /\ (SplitterOf(q) = t <=> q = p)
    BY <1>1, Kinds, Pairs DEF Control, t
  <2>2. CASE q = p
    BY <2>1, <2>2, <1>1, <1>2 DEF SorterControl, Started, MainPC, SortPC, Ended
  <2>3. CASE q # p
    BY <2>1, <2>3, <1>1, <1>2 DEF SorterControl, Started
  <2> QED BY <2>2, <2>3
<1>6. ASSUME NEW s \in Splitters PROVE SplitterControl(s)'
  <2>1. /\ SplitterControl(s) /\ s \in Processes /\ s # p
    BY <1>1, Kinds DEF Control
  <2>2. \A x \in Sides : pid[s][x] # Failed => pid[s][x] \in Processes
    BY Types, Kinds
  <2>3. CASE s = t
    <3>1. \A x \in Sides : pid[s][x] = Failed
      BY <1>1, <2>1, <2>3 DEF SplitterControl, Started
    <3> QED BY <1>1, <1>2, <2>1, <2>3, <3>1 DEF SplitterControl, SplitPC, Sides
  <2>4. CASE s # t
    <3>1. pc'[s] = pc[s] /\ mid'[s] = mid[s]
      BY <1>2, <2>1, <2>4
    <3>2. \A x \in Sides : Part(s, x)' = Part(s, x)
      BY <3>1 DEF Part
    <3> QED BY <1>1, <1>2, <2>1, <2>2, <3>1, <3>2 DEF SplitterControl, Started
  <2> QED BY <2>3, <2>4
<1> QED BY <1>3, <1>4, <1>5, <1>6 DEF Control

\* What is forked for a part has not been there before: processes may be named by
\* their regions.
LEMMA Fresh ==
  ASSUME TypeOK, Control, Laminar, NEW s \in Splitters, NEW x \in Sides, pc[s] = ForkAt(x)
  PROVE  /\ SplitterControl(s) /\ Started(s) /\ Started(SorterOf(s))
         /\ Part(s, x) \in Sorters /\ Part(s, x) # Main /\ Part(s, x) # SorterOf(s)
         /\ pid[s][x] = Failed
         /\ pc[Part(s, x)] = "none" /\ pc[SplitterOf(Part(s, x))] = "none"
<1> DEFINE q == Part(s, x)
           p == SorterOf(s)
<1>1. SplitterControl(s) /\ Started(s) /\ mid[s] \in Region(s[2], s[3])
  BY DEF Control, SplitterControl, Started, ForkAt
<1>2. /\ q \in Sorters /\ q # Main /\ q # p
      /\ q[2] = IF x = "left" THEN s[2] ELSE mid[s] + 1
      /\ q[3] = IF x = "left" THEN mid[s] ELSE s[3]
  BY <1>1, PartMade
<1>3. p \in Sorters /\ p[2] = s[2] /\ p[3] = s[3] /\ SplitterOf(p) = s
  BY Pairs
<1>4. pid[s][x] = Failed
  BY <1>1 DEF SplitterControl, ForkAt, Sides
<1>5. Started(p)
  BY <1>1, <1>3 DEF Control, SorterControl, Started, Ended
<1> HIDE DEF p, q
<1>6. /\ s[2] \in Nat /\ s[3] \in Nat /\ mid[s] \in Nat /\ s[2] <= mid[s] /\ mid[s] < s[3]
  BY <1>1, ProcessParts, Kinds DEF Region
<1>7. ASSUME Started(q) PROVE FALSE
  <2>1. Apart(p, q) \/ InPart(pid, p, q) \/ InPart(pid, q, p)
    BY <1>2, <1>3, <1>5, <1>7 DEF Laminar
  <2>2. ~Apart(p, q)
    BY <1>2, <1>3, <1>6 DEF Apart
  <2>3. ~InPart(pid, q, p)
    <3> SUFFICES ASSUME NEW y \in Sides, pid[s][y] # Failed, Within(q, pid[s][y]) PROVE FALSE
      BY <1>3 DEF InPart
    <3>1. y = "left" /\ x = "right"
      BY <1>1, <1>4 DEF SplitterControl, ForkAt, Sides
    <3>2. pid[s][y] = Part(s, y) /\ Part(s, y)[3] = mid[s]
      BY <3>1, <1>1, PartMade DEF SplitterControl
    <3> QED BY <1>2, <1>6, <3>1, <3>2 DEF Within
  <2>4. ~InPart(pid, p, q)
    <3> SUFFICES ASSUME NEW y \in Sides, pid[SplitterOf(q)][y] # Failed,
                        Within(p, pid[SplitterOf(q)][y]) PROVE FALSE
      BY DEF InPart
    <3> DEFINE t == SplitterOf(q)
    <3>1. t \in Splitters /\ t[2] = q[2] /\ t[3] = q[3]
      BY <1>2, Pairs
    <3>2. pid[t][y] = Part(t, y) /\ mid[t] \in Region(t[2], t[3])
      BY <3>1 DEF Control, SplitterControl
    <3>3. /\ Part(t, y)[2] = IF y = "left" THEN q[2] ELSE mid[t] + 1
          /\ Part(t, y)[3] = IF y = "left" THEN mid[t] ELSE q[3]
          /\ mid[t] \in Int /\ q[2] <= mid[t] /\ mid[t] < q[3]
      BY <3>1, <3>2, PartMade, ProcessParts, Kinds DEF Region
    <3> HIDE DEF t
    <3> QED BY <1>2, <1>3, <1>6, <3>2, <3>3 DEF Within, t
  <2> QED BY <2>1, <2>2, <2>3, <2>4
<1>8. pc[q] = "none"
  BY <1>7 DEF Started
<1>9. pc[SplitterOf(q)] = "none"
  BY <1>2, <1>8 DEF Control, SorterControl, Started, Ended
<1> QED BY <1>1, <1>2, <1>4, <1>5, <1>8, <1>9 DEF p, q

\* A fork for a part keeps every process where it may be.
LEMMA ForkPartControl ==
  ASSUME TypeOK, Control, Laminar, NEW t \in Splitters, NEW x \in Sides, ForkPart(t, x)
  PROVE  Control'
<1> DEFINE p == Part(t, x)
<1>1. /\ SplitterControl(t) /\ p \in Sorters /\ p # Main
      /\ pid[t][x] = Failed
      /\ pc[p] = "none" /\ pc[SplitterOf(p)] = "none"
      /\ pc[t] = ForkAt(x)
  BY Fresh DEF ForkPart, At
<1>2. t \in Processes /\ p \in Processes /\ p # t
  BY <1>1, Kinds
<1>3. /\ \A q \in Processes : pc'[q] = IF q = p THEN "quicksort" ELSE IF q = t THEN AfterFork(x) ELSE pc[q]
      /\ \A s \in Splitters, y \in Sides : pid'[s][y] = IF s = t /\ y = x THEN p ELSE pid[s][y]
      /\ mid' = mid /\ reaped' = reaped
  BY <1>2, Types DEF ForkPart
<1> HIDE DEF p
<1>4. Started(Main)'
  BY <1>1, <1>2, <1>3, Kinds DEF Control, Started, AfterFork
<1>5. \A q \in reaped' : pc'[q] \in Ended
  BY <1>1, <1>2, <1>3 DEF Control, TypeOK, Ended, ForkAt
<1>6. ASSUME NEW q \in Sorters PROVE SorterControl(q)'
  <2>1. /\ SorterControl(q) /\ q \in Processes
        /\ SplitterOf(q) \in Processes /\ SplitterOf(q) # p /\ q # t
        /\ (pc'[SplitterOf(q)] # "none" <=> pc[SplitterOf(q)] # "none")
    BY <1>1, <1>3, Kinds DEF Control, AfterFork, ForkAt
  <2>2. CASE q = p
    BY <2>1, <2>2, <1>1, <1>3 DEF SorterControl, Started, MainPC, SortPC, Ended
  <2>3. CASE q # p
    <3>1. pc'[q] = pc[q]
      BY <1>3, <2>1, <2>3
    <3> QED BY <2>1, <3>1, <1>3 DEF SorterControl, Started
  <2> QED BY <2>2, <2>3
<1>7. ASSUME NEW s \in Splitters PROVE SplitterControl(s)'
  <2>1. /\ SplitterControl(s) /\ s \in Processes /\ s # p
    BY <1>1, Kinds DEF Control
  <2>2. \A y \in Sides : Part(s, y)' = Part(s, y)
    BY <1>3 DEF Part
  <2>3. \A y \in Sides : pid[s][y] # Failed => /\ pid[s][y] \in Processes
                                             /\ pc'[pid[s][y]] # "none"
    <3> SUFFICES ASSUME NEW y \in Sides, pid[s][y] # Failed
                 PROVE  pid[s][y] \in Processes /\ pc'[pid[s][y]] # "none"
      OBVIOUS
    <3>1. pid[s][y] \in Processes
      BY Types, Kinds
    <3>2. pc[pid[s][y]] # "none"
      BY <2>1 DEF SplitterControl, Started
    <3> QED BY <1>3, <3>1, <3>2 DEF AfterFork
  <2>4. CASE s = t
    <3>1. pc'[s] = AfterFork(x)
      BY <1>2, <1>3, <2>1, <2>4
    <3>2. pc'[s] \in SplitPC /\ pc[s] # "none" /\ pc'[s] # "none"
      BY <3>1, <1>1, <2>4 DEF AfterFork, SplitPC, ForkAt
    <3>3. \A y \in Sides : pid'[s][y] # Failed => /\ pid'[s][y] = Part(s, y)
                                                /\ pc'[pid'[s][y]] # "none"
      BY <1>2, <1>3, <2>1, <2>3, <2>4 DEF SplitterControl, p
    <3>4. pc'[s] # "fork left" /\ (pc'[s] = "fork right" => x = "left" /\ pid'[s]["right"] = Failed)
      BY <3>1, <1>1, <1>3, <2>4, <2>1 DEF AfterFork, ForkAt, Sides, SplitterControl
    <3>5. mid'[s] \in Region(s[2], s[3])
      BY <1>3, <2>1, <3>2 DEF SplitterControl, Started
    <3> QED BY <2>2, <3>2, <3>3, <3>4, <3>5 DEF SplitterControl, Started
  <2>5. CASE s # t
    <3>1. pc'[s] = pc[s] /\ \A y \in Sides : pid'[s][y] = pid[s][y]
      BY <1>3, <2>1, <2>5
    <3>2. "left" \in Sides /\ "right" \in Sides
      BY DEF Sides
    <3> QED BY <1>3, <2>1, <2>2, <2>3, <3>1, <3>2 DEF SplitterControl, Started
  <2> QED BY <2>4, <2>5
<1> QED BY <1>4, <1>5, <1>6, <1>7 DEF Control

\* The bounds of a sorter's region.
LEMMA Bounds ==
  ASSUME NEW p \in Sorters
  PROVE  p[2] \in Nat /\ p[3] \in Nat /\ p[2] <= p[3] /\ p[3] <= N
BY ProcessParts, Kinds

\* Where the child is that a splitter forked for a side.
LEMMA ChildPlace ==
  ASSUME TypeOK, Control, NEW p \in Sorters, NEW x \in Sides, pid[SplitterOf(p)][x] # Failed
  PROVE  LET c == pid[SplitterOf(p)][x]
             m == mid[SplitterOf(p)]
         IN  /\ c \in Sorters /\ Started(c) /\ Started(SplitterOf(p))
             /\ m \in Nat /\ p[2] <= m /\ m < p[3]
             /\ c = Part(SplitterOf(p), x)
             /\ c[2] = IF x = "left" THEN p[2] ELSE m + 1
             /\ c[3] = IF x = "left" THEN m ELSE p[3]
<1>1. /\ SplitterOf(p) \in Splitters
      /\ SplitterOf(p)[2] = p[2] /\ SplitterOf(p)[3] = p[3]
  BY Pairs
<1>2. SplitterControl(SplitterOf(p))
  BY <1>1 DEF Control
<1>3. mid[SplitterOf(p)] \in Nat /\ p[2] <= mid[SplitterOf(p)] /\ mid[SplitterOf(p)] < p[3]
  <2>1. mid[SplitterOf(p)] \in Region(p[2], p[3])
    BY <1>1, <1>2 DEF SplitterControl
  <2> QED BY <2>1, Bounds DEF Region
<1>4. /\ Part(SplitterOf(p), x) \in Sorters
      /\ Part(SplitterOf(p), x)[2] = IF x = "left" THEN p[2] ELSE mid[SplitterOf(p)] + 1
      /\ Part(SplitterOf(p), x)[3] = IF x = "left" THEN mid[SplitterOf(p)] ELSE p[3]
  BY <1>1, <1>2, PartMade DEF SplitterControl
<1> QED BY <1>1, <1>2, <1>3, <1>4 DEF SplitterControl

\* A fork for a part keeps any two sorters apart or one within a part of the other.
LEMMA ForkPartLaminar ==
  ASSUME TypeOK, Control, Laminar, NEW s \in Splitters, NEW x \in Sides, ForkPart(s, x)
  PROVE  Laminar'
<1> DEFINE c == Part(s, x)
           p == SorterOf(s)
<1>1. /\ SplitterControl(s) /\ Started(s) /\ Started(p) /\ c \in Sorters /\ c # Main /\ c # p
      /\ pid[s][x] = Failed
      /\ pc[c] = "none" /\ pc[SplitterOf(c)] = "none"
      /\ pc[s] = ForkAt(x)
  BY Fresh DEF ForkPart, At
<1>2. s \in Processes /\ c \in Processes /\ c # s
  BY <1>1, Kinds
<1>3. p \in Sorters /\ p[2] = s[2] /\ p[3] = s[3] /\ SplitterOf(p) = s
  BY Pairs
<1>4. /\ \A q \in Processes : pc'[q] = IF q = c THEN "quicksort" ELSE IF q = s THEN AfterFork(x) ELSE pc[q]
      /\ \A t \in Splitters, y \in Sides : pid'[t][y] = IF t = s /\ y = x THEN c ELSE pid[t][y]
  BY <1>2, Types DEF ForkPart
<1>5. /\ c[2] = IF x = "left" THEN p[2] ELSE mid[s] + 1
      /\ c[3] = IF x = "left" THEN mid[s] ELSE p[3]
      /\ p[2] \in Nat /\ p[3] \in Nat /\ mid[s] \in Nat /\ p[2] <= mid[s] /\ mid[s] < p[3]
  <2>1. mid[s] \in Region(p[2], p[3])
    BY <1>1, <1>3 DEF SplitterControl
  <2>2. p[2] \in Nat /\ p[3] \in Nat /\ mid[s] \in Nat /\ p[2] <= mid[s] /\ mid[s] < p[3]
    BY <1>3, <2>1, Bounds DEF Region
  <2>3. /\ c[2] = IF x = "left" THEN s[2] ELSE mid[s] + 1
        /\ c[3] = IF x = "left" THEN mid[s] ELSE s[3]
    BY <2>1, <1>3, PartMade
  <2> QED BY <1>3, <2>2, <2>3
<1> HIDE DEF p, c
<1>6. c # Failed
  BY <1>2, Pairs
<1>7. ASSUME NEW q \in Sorters, NEW r \in Sorters, InPart(pid, q, r)
      PROVE  InPart(pid', q, r)
  <2>1. PICK y \in Sides : pid[SplitterOf(r)][y] # Failed /\ Within(q, pid[SplitterOf(r)][y])
    BY <1>7 DEF InPart
  <2>2. pid'[SplitterOf(r)][y] = pid[SplitterOf(r)][y]
    BY <1>1, <1>4, <2>1, Kinds
  <2> QED BY <2>1, <2>2 DEF InPart, Within
<1>8. InPart(pid', c, p)
  <2>1. pid'[s][x] = c
    BY <1>4
  <2> QED BY <1>3, <1>5, <1>6, <2>1 DEF InPart, Within
<1>9. ASSUME NEW r \in Sorters, Started(r), r # c
      PROVE  Apart(c, r) \/ InPart(pid', c, r) \/ InPart(pid', r, c)
  <2>0. r[2] \in Nat /\ r[3] \in Nat /\ r[2] <= r[3]
    BY Bounds
  <2>1. CASE r = p
    BY <2>1, <1>8
  <2>2. CASE r # p /\ Apart(p, r)
    BY <2>2, <2>0, <1>5 DEF Apart
  <2>3. CASE InPart(pid, p, r)
    <3>1. PICK y \in Sides : pid[SplitterOf(r)][y] # Failed /\ Within(p, pid[SplitterOf(r)][y])
      BY <2>3 DEF InPart
    <3>2. Within(c, pid[SplitterOf(r)][y])
      <4> DEFINE d == pid[SplitterOf(r)][y]
      <4>1. d \in Sorters
        BY <3>1, ChildPlace
      <4>2. d[2] \in Nat /\ d[3] \in Nat
        BY <4>1, Bounds
      <4> HIDE DEF d
      <4> QED BY <1>5, <3>1, <4>2 DEF Within, d
    <3>3. InPart(pid, c, r)
      BY <3>1, <3>2 DEF InPart
    <3> QED BY <1>1, <1>7, <3>3
  <2>4. CASE InPart(pid, r, p)
    <3>1. PICK y \in Sides : pid[s][y] # Failed /\ Within(r, pid[s][y])
      BY <2>4, <1>3 DEF InPart
    <3>2. y # x
      BY <3>1, <1>1
    <3>3. /\ pid[s][y][2] = IF y = "left" THEN p[2] ELSE mid[s] + 1
          /\ pid[s][y][3] = IF y = "left" THEN mid[s] ELSE p[3]
      BY <3>1, <1>3, ChildPlace
    <3>4. Apart(c, r)
      BY <3>1, <3>2, <3>3, <1>5, <2>0 DEF Sides, Apart, Within
    <3> QED BY <3>4
  <2> QED BY <1>1, <1>3, <1>9, <2>1, <2>2, <2>3, <2>4 DEF Laminar
<1>10. ASSUME NEW q \in Sorters, NEW r \in Sorters, Started(q)', Started(r)', q # r
       PROVE  Apart(q, r) \/ InPart(pid', q, r) \/ InPart(pid', r, q)
  <2>1. /\ q = c \/ Started(q)
        /\ r = c \/ Started(r)
    BY <1>10, <1>1, <1>4, Kinds DEF Started
  <2>2. CASE q = c
    BY <1>9, <1>10, <2>1, <2>2
  <2>3. CASE r = c
    <3>1. Apart(c, q) \/ InPart(pid', c, q) \/ InPart(pid', q, c)
      BY <1>9, <1>10, <2>1, <2>3
    <3> QED BY <3>1, <2>3 DEF Apart
  <2>4. CASE Started(q) /\ Started(r)
    BY <1>7, <1>10, <2>4 DEF Laminar
  <2> QED BY <2>1, <2>2, <2>3, <2>4
<1> QED BY <1>10 DEF Laminar, Apart

\* So does any step in which no sorter starts.
LEMMA SameLaminar ==
  ASSUME Laminar, pid' = pid, \A p \in Sorters : Started(p)' => Started(p)
  PROVE  Laminar'
<1>1. \A p, q \in Sorters : InPart(pid', p, q) = InPart(pid, p, q)
  BY DEF InPart, Within
<1> QED BY <1>1 DEF Laminar, Apart

\* The processes form a tree, of regions as of children.
TreeInv == TypeOK /\ CheckerType /\ Control /\ Laminar

\* At first main is the only process.
LEMMA InitTree == Init => TreeInv
<1> SUFFICES ASSUME Init PROVE TreeInv
  OBVIOUS
<1>1. TypeOK /\ CheckerType
  BY InitTypes
<1>2. /\ \A p \in Processes : pc[p] = IF p = Main THEN "open" ELSE "none"
      /\ \A s \in Splitters, x \in Sides : pid[s][x] = Failed
      /\ reaped = {}
  BY DEF Init
<1>3. ASSUME NEW p \in Sorters PROVE SorterControl(p)
  <2>1. p \in Processes /\ SplitterOf(p) \in Processes /\ SplitterOf(p) # Main
    BY Kinds
  <2> QED BY <2>1, <1>2 DEF SorterControl, Started, MainPC, SortPC, Ended
<1>4. ASSUME NEW s \in Splitters PROVE SplitterControl(s)
  <2>1. s \in Processes /\ s # Main
    BY Kinds
  <2> QED BY <2>1, <1>2 DEF SplitterControl, Started, Sides
<1>5. Laminar
  BY <1>2, Kinds DEF Laminar, Started
<1>6. Started(Main)
  BY <1>2, Kinds DEF Started
<1> QED BY <1>1, <1>2, <1>3, <1>4, <1>5, <1>6 DEF TreeInv, Control

\* Every step keeps the tree.
LEMMA NextTree ==
  ASSUME TreeInv, [Next]_vars
  PROVE  TreeInv'
<1>1. TypeOK /\ CheckerType /\ Control /\ Laminar
  BY DEF TreeInv
<1>2. TypeOK' /\ CheckerType'
  BY <1>1, NextTypes
<1>3. ASSUME NEW p \in Sorters, SorterMoves(p) PROVE Control' /\ Laminar'
  <2>1. \A q \in Sorters : Started(q)' => Started(q)
    BY <1>1, <1>3, Types, Kinds DEF SorterMoves, Started
  <2> QED BY <1>1, <1>3, <2>1, SorterMovesControl, SameLaminar DEF SorterMoves
<1>4. ASSUME NEW p \in Sorters, Fork(p) PROVE Control' /\ Laminar'
  <2>1. \A q \in Sorters : Started(q)' => Started(q)
    <3>1. pc[p] = "fork" /\ p \in Processes /\ SplitterOf(p) \in Processes
      BY <1>4, Kinds DEF Fork, At
    <3>2. \A q \in Sorters : pc'[q] = IF q = p THEN "wait" ELSE pc[q]
      BY <1>1, <1>4, <3>1, Types, Kinds DEF Fork
    <3> QED BY <3>1, <3>2 DEF Started
  <2> QED BY <1>1, <1>4, <2>1, ForkControl, SameLaminar DEF Fork, splitVars
<1>5. ASSUME NEW s \in Splitters, SplitterMoves(s) PROVE Control' /\ Laminar'
  <2>1. \A q \in Sorters : Started(q)' => Started(q)
    BY <1>1, <1>5, Types, Kinds DEF SplitterMoves, Started
  <2> QED BY <1>1, <1>5, <2>1, SplitterMovesControl, SameLaminar DEF SplitterMoves
<1>6. ASSUME NEW s \in Splitters, NEW x \in Sides, ForkPart(s, x) PROVE Control' /\ Laminar'
  BY <1>1, <1>6, ForkPartControl, ForkPartLaminar
<1>7. ASSUME UNCHANGED <<pc, mid, pid, exit, reaped>> PROVE Control' /\ Laminar'
  <2>1. Laminar'
    BY <1>1, <1>7, SameLaminar DEF Started
  <2>2. Control'
    BY <1>1, <1>7 DEF Control, SorterControl, SplitterControl, Started, Part
  <2> QED BY <2>1, <2>2
<1>8. ASSUME UNCHANGED vars PROVE Control' /\ Laminar'
  BY <1>7, <1>8 DEF vars
<1>9. Control' /\ Laminar'
  BY <1>1, <1>3, <1>4, <1>5, <1>6, <1>7, <1>8, StepKinds
<1> QED BY <1>2, <1>9 DEF TreeInv

\* The parts of TreeInv, for one process.
LEMMA TreeFacts ==
  ASSUME TreeInv
  PROVE  /\ TypeOK /\ Control /\ Laminar
         /\ \A p \in Sorters : SorterControl(p) /\ p \in Processes
         /\ \A s \in Splitters : SplitterControl(s) /\ s \in Processes
BY Kinds DEF TreeInv, Control

\* A started process whose region is a part of another's is in one of its parts.
LEMMA PartPlace ==
  ASSUME TreeInv, NEW p \in Sorters, NEW q \in Sorters, InPart(pid, p, q)
  PROVE  /\ Started(SplitterOf(q)) /\ Within(p, q) /\ ~Within(q, p)
<1>1. PICK x \in Sides : pid[SplitterOf(q)][x] # Failed /\ Within(p, pid[SplitterOf(q)][x])
  BY DEF InPart
<1> DEFINE c == pid[SplitterOf(q)][x]
           m == mid[SplitterOf(q)]
<1>2. /\ Started(SplitterOf(q))
      /\ m \in Nat /\ q[2] <= m /\ m < q[3]
      /\ c[2] = IF x = "left" THEN q[2] ELSE m + 1
      /\ c[3] = IF x = "left" THEN m ELSE q[3]
  BY <1>1, TreeFacts, ChildPlace
<1> HIDE DEF c, m
<1>3. /\ p[2] \in Nat /\ p[3] \in Nat /\ p[2] <= p[3]
      /\ q[2] \in Nat /\ q[3] \in Nat
      /\ c[2] <= p[2] /\ p[3] <= c[3]
  BY <1>1, Bounds DEF Within, c
<1> QED BY <1>2, <1>3 DEF Within

\* Two processes never write the same element at a time.
LEMMA TreeNoOverlap == TreeInv => NoOverlap
<1> SUFFICES ASSUME TreeInv, NEW p \in Sorters, NEW q \in Sorters, p # q,
                    pc[p] \in {"qsort", "partition"}, pc[q] \in {"qsort", "partition"}
             PROVE  Region(p[2], p[3]) \cap Region(q[2], q[3]) = {}
  BY DEF NoOverlap
<1>1. Started(p) /\ Started(q)
  BY DEF Started
<1>2. ~Started(SplitterOf(p)) /\ ~Started(SplitterOf(q))
  BY TreeFacts DEF SorterControl, Ended
<1>3. Apart(p, q)
  BY <1>1, <1>2, TreeFacts, PartPlace DEF Laminar
<1> QED BY <1>3, Bounds DEF Apart, Region

-----------------------------------------------------------------------------

\* No process is the child of two.
LEMMA UniqueParent ==
  ASSUME TreeInv, NEW s \in Splitters, NEW t \in Splitters, NEW x \in Sides, NEW y \in Sides,
         pid[s][x] # Failed, pid[t][y] = pid[s][x]
  PROVE  s = t
<1> SUFFICES ASSUME s # t PROVE FALSE
  OBVIOUS
<1> DEFINE c == pid[s][x]
           p == SorterOf(s)
           q == SorterOf(t)
<1>1. /\ p \in Sorters /\ q \in Sorters /\ p # q
      /\ SplitterOf(p) = s /\ SplitterOf(q) = t
  BY Pairs
<1>2. /\ c \in Sorters /\ Started(s) /\ Started(t)
      /\ c[2] = IF x = "left" THEN p[2] ELSE mid[s] + 1
      /\ c[3] = IF x = "left" THEN mid[s] ELSE p[3]
      /\ c[2] = IF y = "left" THEN q[2] ELSE mid[t] + 1
      /\ c[3] = IF y = "left" THEN mid[t] ELSE q[3]
      /\ mid[s] \in Nat /\ p[2] <= mid[s] /\ mid[s] < p[3]
      /\ mid[t] \in Nat /\ q[2] <= mid[t] /\ mid[t] < q[3]
  BY <1>1, TreeFacts, ChildPlace
<1>3. Started(p) /\ Started(q)
  BY <1>1, <1>2, TreeFacts DEF SorterControl, Started, Ended
<1>4. Apart(p, q) \/ InPart(pid, p, q) \/ InPart(pid, q, p)
  BY <1>1, <1>3, TreeFacts DEF Laminar
<1>5. ASSUME NEW a \in Sorters, NEW b \in Sorters, InPart(pid, a, b),
             NEW u \in Sides, NEW v \in Sides,
             pid[SplitterOf(a)][u] = c, pid[SplitterOf(b)][v] = c
      PROVE  FALSE
  <2>1. PICK z \in Sides : pid[SplitterOf(b)][z] # Failed /\ Within(a, pid[SplitterOf(b)][z])
    BY <1>5 DEF InPart
  <2> DEFINE d == pid[SplitterOf(b)][z]
             m == mid[SplitterOf(b)]
             n == mid[SplitterOf(a)]
  <2>2. /\ m \in Nat /\ b[2] <= m /\ m < b[3]
        /\ d[2] = IF z = "left" THEN b[2] ELSE m + 1
        /\ d[3] = IF z = "left" THEN m ELSE b[3]
    BY <2>1, TreeFacts, ChildPlace
  <2>3. /\ n \in Nat /\ a[2] <= n /\ n < a[3]
        /\ c[2] = IF u = "left" THEN a[2] ELSE n + 1
        /\ c[3] = IF u = "left" THEN n ELSE a[3]
    BY <1>5, TreeFacts, ChildPlace
  <2>4. /\ c[2] = IF v = "left" THEN b[2] ELSE m + 1
        /\ c[3] = IF v = "left" THEN m ELSE b[3]
    BY <1>5, TreeFacts, ChildPlace
  <2>5. d[2] <= a[2] /\ a[3] <= d[3]
    BY <2>1 DEF Within
  <2>6. a[2] \in Nat /\ a[3] \in Nat /\ b[2] \in Nat /\ b[3] \in Nat
    BY Bounds
  <2> HIDE DEF c, d, m, n
  <2> QED BY <2>2, <2>3, <2>4, <2>5, <2>6 DEF Sides
<1>6. ~Apart(p, q)
  <2>1. /\ p[2] \in Nat /\ p[3] \in Nat /\ q[2] \in Nat /\ q[3] \in Nat
    BY <1>1, Bounds
  <2> HIDE DEF c, p, q
  <2> QED BY <1>2, <2>1 DEF Apart
<1>7. pid[SplitterOf(p)][x] = c /\ pid[SplitterOf(q)][y] = c
  BY <1>1
<1> HIDE DEF c, p, q
<1> QED BY <1>1, <1>4, <1>5, <1>6, <1>7

\* The two children of a splitter are not the same.
LEMMA TwoChildren ==
  ASSUME TreeInv, NEW s \in Splitters, pid[s]["left"] = pid[s]["right"]
  PROVE  pid[s]["left"] = Failed
<1> SUFFICES ASSUME pid[s]["left"] # Failed PROVE FALSE
  OBVIOUS
<1> DEFINE p == SorterOf(s)
<1>1. p \in Sorters /\ SplitterOf(p) = s /\ "left" \in Sides /\ "right" \in Sides
  BY Pairs DEF Sides
<1>2. /\ pid[s]["left"][3] = mid[s] /\ pid[s]["right"][3] = p[3]
      /\ mid[s] \in Nat /\ mid[s] < p[3]
  BY <1>1, TreeFacts, ChildPlace
<1>3. p[3] \in Nat
  BY <1>1, Bounds
<1> HIDE DEF p
<1> QED BY <1>2, <1>3

\* What has ended has ended, and what was waited for was waited for.
LEMMA EndedStays ==
  ASSUME TreeInv, [Next]_vars
  PROVE  /\ \A q \in Processes : pc[q] \in Ended => pc'[q] = pc[q]
         /\ reaped \subseteq reaped'
<1>1. ASSUME NEW p \in Sorters, SorterMoves(p)
      PROVE  /\ \A q \in Processes : pc[q] \in Ended => pc'[q] = pc[q]
             /\ reaped \subseteq reaped'
  BY <1>1, TreeFacts, Types DEF SorterMoves
<1>2. ASSUME NEW s \in Splitters, SplitterMoves(s)
      PROVE  /\ \A q \in Processes : pc[q] \in Ended => pc'[q] = pc[q]
             /\ reaped \subseteq reaped'
  BY <1>2, TreeFacts, Types DEF SplitterMoves
<1>3. ASSUME NEW p \in Sorters, Fork(p)
      PROVE  /\ \A q \in Processes : pc[q] \in Ended => pc'[q] = pc[q]
             /\ reaped \subseteq reaped'
  <2>1. pc[p] = "fork" /\ pc[SplitterOf(p)] = "none"
    BY <1>3, TreeFacts DEF Fork, At, SorterControl, Started, Ended
  <2> QED BY <1>3, <2>1, TreeFacts, Types, Kinds DEF Fork, Ended
<1>4. ASSUME NEW s \in Splitters, NEW x \in Sides, ForkPart(s, x)
      PROVE  /\ \A q \in Processes : pc[q] \in Ended => pc'[q] = pc[q]
             /\ reaped \subseteq reaped'
  <2>1. pc[s] = ForkAt(x) /\ pc[Part(s, x)] = "none"
    BY <1>4, TreeFacts, Fresh DEF ForkPart, At
  <2>2. pc[s] \notin Ended
    BY <2>1 DEF ForkAt, Ended
  <2> QED BY <1>4, <2>1, <2>2, TreeFacts, Types, Kinds DEF ForkPart, Ended
<1> QED BY <1>1, <1>2, <1>3, <1>4, TreeFacts, StepKinds DEF vars

\* What no step changes or takes back.
LEMMA History ==
  ASSUME TypeOK, [Next]_vars
  PROVE  /\ input' = input /\ rest' = rest
         /\ faults => faults'
         /\ kills' \in Nat /\ (kills' = 0 => kills = 0)
<1> USE DEF historyVars, processVars, splitVars
<1>0. kills \in Nat
  <2>1. kills \in 0 .. MaxKills
    BY DEF TypeOK
  <2> QED BY <2>1
<1> DEFINE Kept == /\ input' = input /\ rest' = rest
                   /\ faults => faults'
                   /\ kills' \in Nat /\ (kills' = 0 => kills = 0)
<1>1. ASSUME NEW p \in Processes, Kill(p) PROVE Kept
  BY <1>0, <1>1 DEF Kill, Die
<1>2. ASSUME NEW p \in Sorters, Sorts(p) PROVE Kept
  <2>1. CASE ReturnShort(p) \/ Choose(p) \/ QSort(p)
    BY <1>0, <2>1 DEF ReturnShort, Choose, QSort, Goto, Return
  <2>2. CASE Partition(p) \/ GoWild(p)
    BY <1>0, <2>2 DEF Partition, GoWild
  <2>3. CASE Segfault(p)
    BY <1>0, <2>3 DEF Segfault, Die
  <2>4. CASE Fork(p)
    BY <1>0, <2>4 DEF Fork
  <2>5. CASE ForkFails(p)
    BY <1>0, <2>5 DEF ForkFails, Goto
  <2>6. CASE Wait(p)
    <3>1. UNCHANGED historyVars
      BY <2>6, Zenon DEF Wait
    <3> QED BY <1>0, <3>1
  <2> QED BY <1>2, <2>1, <2>2, <2>3, <2>4, <2>5, <2>6 DEF Sorts
<1>3. ASSUME NEW s \in Splitters, Splits(s) PROVE Kept
  <2>1. ASSUME NEW x \in Sides, ForkPart(s, x) \/ ForkPartFails(s, x) PROVE Kept
    BY <1>0, <2>1 DEF ForkPart, ForkPartFails
  <2>2. ASSUME NEW x \in Sides, WaitPart(s, x) \/ WaitPartFails(s, x) PROVE Kept
    BY <1>0, <2>2 DEF WaitPart, WaitPartFails
  <2>3. CASE Check(s)
    BY <1>0, <2>3 DEF Check
  <2> QED BY <1>3, <2>1, <2>2, <2>3 DEF Splits
<1>4. CASE RunsMain
  BY <1>0, <1>4 DEF RunsMain, Open, Fstat, Mmap, Munmap, SystemCallFails
<1>5. CASE ReadElement \/ ReadEnd \/ UNCHANGED vars
  BY <1>0, <1>5 DEF ReadElement, ReadEnd, vars
<1> QED BY <1>1, <1>2, <1>3, <1>4, <1>5 DEF Next

-----------------------------------------------------------------------------
(***************************************************************************)
(* What a splitter has waited for, and what it knows of its children.      *)
(***************************************************************************)

\* A splitter in each place: what it has waited for, what it knows of its
\* children's ends, and that a fork has failed if it lacks a child.
Waits(s) ==
  LET l == pid[s]["left"]
      r == pid[s]["right"]
  IN
  /\ pc[s] \in {"none", "fork left", "fork right", "wait left"} =>
       /\ exit[s]["left"] = "unknown" /\ exit[s]["right"] = "unknown"
       /\ l \notin reaped /\ r \notin reaped
  /\ pc[s] = "wait right" =>
       /\ exit[s]["right"] = "unknown"
       /\ l # Failed => l \in reaped /\ exit[s]["left"] = pc[l] /\ r \notin reaped
       /\ l = Failed /\ r # Failed => r \in reaped
  /\ pc[s] \in {"check", "ok", "failed"} => Unreaped(s) = {}
  /\ pc[s] = "check" =>
       /\ (\A x \in Sides : exit[s][x] = "ok") =>
            \A x \in Sides : pid[s][x] # Failed /\ pc[pid[s][x]] = "ok"
       /\ (\E x \in Sides : exit[s][x] # "ok") => faults
  /\ pc[s] \in {"fork right", "wait left", "wait right"} /\ l = Failed => faults
  /\ pc[s] \in {"wait left", "wait right"} /\ r = Failed => faults

\* Every splitter waits right, and failures have causes.
WaitInv ==
  /\ \A s \in Splitters : Waits(s)
  /\ FailureHasCause

\* The children of a splitter that does nothing.
LEMMA WaitsKept ==
  ASSUME TreeInv, [Next]_vars, NEW s \in Splitters, Waits(s),
         pc'[s] = pc[s], exit'[s] = exit[s],
         \A x \in Sides : pid'[s][x] = pid[s][x],
         \A x \in Sides : pid[s][x] \in reaped' => pid[s][x] \in reaped
  PROVE  Waits(s)'
<1>1. /\ \A x \in Sides : pid[s][x] # Failed => pid[s][x] \in Processes
      /\ \A x \in Sides : pid[s][x] \in reaped => pid[s][x] \in Processes /\ pc[pid[s][x]] \in Ended
      /\ reaped \subseteq reaped' /\ (faults => faults')
      /\ "left" \in Sides /\ "right" \in Sides
  BY TreeFacts, Types, Kinds, EndedStays, History DEF Control, TypeOK, Sides
<1>2. \A x \in Sides : pid[s][x] # Failed /\ pc[pid[s][x]] \in Ended => pc'[pid[s][x]] = pc[pid[s][x]]
  BY <1>1, EndedStays
<1>3. Unreaped(s) = {} => Unreaped(s)' = {}
  BY <1>1 DEF Unreaped
<1>4. \A x \in Sides : pid[s][x] # Failed /\ pid[s][x] \in reaped => pc'[pid[s][x]] = pc[pid[s][x]]
  BY <1>1, <1>2
<1>5. \A x \in Sides : pid[s][x] # Failed /\ pc[pid[s][x]] = "ok" => pc'[pid[s][x]] = "ok"
  BY <1>2 DEF Ended
<1> QED BY <1>1, <1>3, <1>4, <1>5 DEF Waits

\* A child is not main, and if it did not end well there is a cause.
LEMMA ChildFate ==
  ASSUME TreeInv, FailureHasCause, NEW s \in Splitters, NEW x \in Sides, pid[s][x] # Failed
  PROVE  /\ pid[s][x] \in Processes /\ pid[s][x] \notin Splitters
         /\ pc[pid[s][x]] \in Ended => pc[pid[s][x]] = "ok" \/ faults
<1>1. pid[s][x] \in Sorters
  BY Types, TreeFacts
<1>2. pid[s][x] # Main
  BY TreeFacts, PartMade DEF SplitterControl
<1>3. pid[s][x] \in Processes /\ pid[s][x] \notin Splitters
  BY <1>1, Kinds
<1> DEFINE c == pid[s][x]
<1> HIDE DEF c
<1>4. c \in Processes /\ c # Main
  BY <1>2, <1>3 DEF c
<1>5. pc[c] \in Ended => pc[c] = "ok" \/ faults
  BY <1>4 DEF FailureHasCause, Ended
<1> QED BY <1>3, <1>5 DEF c

\* A fork for a part keeps what the splitter knows true.
LEMMA ForkPartWaits ==
  ASSUME TreeInv, WaitInv, NEW s \in Splitters, NEW x \in Sides, ForkPart(s, x)
  PROVE  Waits(s)'
<1> DEFINE c == Part(s, x)
<1>1. pc[s] = ForkAt(x) /\ pc[c] = "none" /\ c \in Sorters
  BY TreeFacts, Fresh DEF ForkPart, At
<1>2. c \notin reaped /\ c \in Processes /\ s \in Processes /\ c # s /\ c # Failed
  BY <1>1, TreeFacts, Kinds, Pairs DEF Control, Ended
<1>3. /\ pc'[s] = AfterFork(x)
      /\ \A y \in Sides : pid'[s][y] = IF y = x THEN c ELSE pid[s][y]
      /\ exit' = exit /\ reaped' = reaped /\ faults' = faults
  BY <1>2, TreeFacts, Types DEF ForkPart, historyVars
<1>4. Waits(s) /\ "left" \in Sides /\ "right" \in Sides
  BY DEF WaitInv, Sides
<1> HIDE DEF c
<1>5. CASE x = "left"
  BY <1>1, <1>2, <1>3, <1>4, <1>5 DEF Waits, ForkAt, AfterFork
<1>6. CASE x = "right"
  BY <1>1, <1>2, <1>3, <1>4, <1>6 DEF Waits, ForkAt, AfterFork
<1> QED BY <1>5, <1>6 DEF Sides

\* So does one that fails.
LEMMA ForkPartFailsWaits ==
  ASSUME TreeInv, WaitInv, NEW s \in Splitters, NEW x \in Sides, ForkPartFails(s, x)
  PROVE  Waits(s)'
<1>1. s \in Processes
  BY Kinds
<1>2. /\ pc[s] = ForkAt(x) /\ pc'[s] = AfterFork(x)
      /\ pid' = pid /\ exit' = exit /\ reaped' = reaped /\ faults' = TRUE
  BY <1>1, TreeFacts, Types DEF ForkPartFails, Goto, At, splitVars
<1>3. Waits(s)
  BY DEF WaitInv
<1> QED BY <1>2, <1>3 DEF Waits, ForkAt, AfterFork, Sides

\* What waitpid returns is the end of a child of the splitter; with a pid of -1 it
\* is that of the other side, which is then waited for in vain.
LEMMA WaitPartWaits ==
  ASSUME TreeInv, WaitInv, NEW s \in Splitters, NEW x \in Sides, WaitPart(s, x)
  PROVE  Waits(s)'
<1> DEFINE l == pid[s]["left"]
           r == pid[s]["right"]
<1>1. PICK c \in WaitedFor(s, x) : /\ pc[c] \in Ended
                                  /\ exit' = [exit EXCEPT ![s][x] = pc[c]]
                                  /\ reaped' = reaped \cup {c}
  BY DEF WaitPart
<1>2. s \in Processes /\ "left" \in Sides /\ "right" \in Sides
  BY Kinds DEF Sides
<1>3. /\ pc[s] = WaitAt(x)
      /\ \A q \in Processes : pc'[q] = IF q = s THEN AfterWait(x) ELSE pc[q]
      /\ pid' = pid /\ faults' = faults
      /\ \A y \in Sides : exit'[s][y] = IF y = x THEN pc[c] ELSE exit[s][y]
  BY <1>1, <1>2, TreeFacts, Types DEF WaitPart, Goto, At, historyVars
<1>4. Waits(s) /\ FailureHasCause
  BY DEF WaitInv
<1>5. \A y \in Sides : pid[s][y] # Failed =>
        /\ pid[s][y] \in Processes /\ pid[s][y] # s /\ pc'[pid[s][y]] = pc[pid[s][y]]
        /\ pc[pid[s][y]] \in Ended => pc[pid[s][y]] = "ok" \/ faults
  BY <1>3, <1>4, ChildFate
<1>6. l = r => l = Failed
  BY TwoChildren
<1>7. /\ c \in {l, r} /\ c \notin reaped /\ c # Failed
      /\ pid[s][x] # Failed => c = pid[s][x]
  BY <1>1 DEF WaitedFor, Unreaped, Sides
<1>8. Unreaped(s)' = {l, r} \ (reaped' \cup {Failed})
  BY <1>3 DEF Unreaped, Sides
<1> HIDE DEF l, r
<1>9. CASE x = "left"
  <2>1. pc[s] = "wait left" /\ pc'[s] = "wait right"
    BY <1>2, <1>3, <1>9 DEF WaitAt, AfterWait
  <2>2. /\ exit[s]["right"] = "unknown" /\ l \notin reaped /\ r \notin reaped
        /\ (l = Failed => faults) /\ (r = Failed => faults)
    BY <1>4, <2>1 DEF Waits, l, r
  <2>3. exit'[s]["right"] = "unknown" /\ exit'[s]["left"] = pc[c]
    BY <1>2, <1>3, <1>9, <2>2
  <2>4. l # Failed => c = l /\ l \in reaped' /\ r \notin reaped' /\ pc'[l] = pc[c]
    <3>1. l # Failed => c = l /\ pc'[l] = pc[l]
      BY <1>2, <1>5, <1>7, <1>9 DEF l
    <3> QED BY <1>1, <1>6, <2>2, <3>1
  <2>5. l = Failed => c = r /\ r \in reaped'
    BY <1>1, <1>7
  <2> QED BY <1>3, <2>1, <2>2, <2>3, <2>4, <2>5 DEF Waits, l, r
<1>10. CASE x = "right"
  <2>1. pc[s] = "wait right" /\ pc'[s] = "check"
    BY <1>2, <1>3, <1>10 DEF WaitAt, AfterWait
  <2>2. /\ l # Failed => l \in reaped /\ exit[s]["left"] = pc[l]
        /\ l = Failed /\ r # Failed => r \in reaped
    BY <1>4, <2>1 DEF Waits, l, r
  <2>3. l # Failed /\ r # Failed /\ c = r
    BY <1>2, <1>7, <1>10, <2>2 DEF r
  <2>4. exit'[s]["left"] = pc[l] /\ exit'[s]["right"] = pc[r]
    BY <1>2, <1>3, <1>10, <2>2, <2>3
  <2>5. Unreaped(s)' = {}
    BY <1>1, <1>8, <2>2, <2>3
  <2>6. pc[l] \in Ended /\ pc[r] \in Ended
    BY <1>1, <2>2, <2>3, TreeFacts DEF Control
  <2>7. (\A y \in Sides : exit'[s][y] = "ok") => \A y \in Sides : pid[s][y] # Failed /\ pc'[pid[s][y]] = "ok"
    <3>1. pc'[l] = pc[l] /\ pc'[r] = pc[r]
      BY <1>2, <1>5, <2>3 DEF l, r
    <3> QED BY <1>2, <2>3, <2>4, <3>1 DEF Sides, l, r
  <2>8. (\E y \in Sides : exit'[s][y] # "ok") => faults
    BY <1>2, <1>5, <2>3, <2>4, <2>6 DEF Sides, l, r
  <2> QED BY <1>3, <2>1, <2>5, <2>7, <2>8 DEF Waits
<1> QED BY <1>9, <1>10 DEF Sides

\* A waitpid that finds no child leaves none to wait for.
LEMMA WaitPartFailsWaits ==
  ASSUME TreeInv, WaitInv, NEW s \in Splitters, NEW x \in Sides, WaitPartFails(s, x)
  PROVE  Waits(s)'
<1> DEFINE l == pid[s]["left"]
           r == pid[s]["right"]
<1>1. s \in Processes /\ "left" \in Sides /\ "right" \in Sides
  BY Kinds DEF Sides
<1>2. /\ pc[s] = WaitAt(x) /\ pc'[s] = AfterWait(x)
      /\ pid' = pid /\ exit' = exit /\ reaped' = reaped /\ faults' = faults
  BY <1>1, TreeFacts, Types DEF WaitPartFails, Goto, At, splitVars, historyVars
<1>3. WaitedFor(s, x) = {} /\ Waits(s)
  BY DEF WaitPartFails, WaitInv
<1>4. Unreaped(s) = {l, r} \ (reaped \cup {Failed}) /\ Unreaped(s)' = Unreaped(s)
  BY <1>2 DEF Unreaped, Sides
<1>5. /\ pid[s][x] # Failed => pid[s][x] \in reaped
      /\ pid[s][x] = Failed => Unreaped(s) = {}
  BY <1>3, <1>4 DEF WaitedFor, Sides
<1> HIDE DEF l, r
<1>6. CASE x = "left"
  <2>1. pc[s] = "wait left" /\ pc'[s] = "wait right"
    BY <1>2, <1>6 DEF WaitAt, AfterWait
  <2>2. /\ exit[s]["right"] = "unknown" /\ l \notin reaped /\ r \notin reaped
        /\ (l = Failed => faults) /\ (r = Failed => faults)
    BY <1>3, <2>1 DEF Waits, l, r
  <2>3. l = Failed /\ r = Failed
    BY <1>4, <1>5, <1>6, <2>2 DEF l
  <2> QED BY <1>2, <2>1, <2>2, <2>3 DEF Waits, l, r
<1>7. CASE x = "right"
  <2>1. pc[s] = "wait right" /\ pc'[s] = "check"
    BY <1>2, <1>7 DEF WaitAt, AfterWait
  <2>2. /\ exit[s]["right"] = "unknown"
        /\ l # Failed => l \in reaped /\ r \notin reaped
        /\ l = Failed /\ r # Failed => r \in reaped
        /\ (l = Failed => faults)
    BY <1>3, <2>1 DEF Waits, l, r
  <2>3. faults /\ Unreaped(s) = {}
    <3>1. CASE l # Failed
      <4>1. r = Failed
        BY <1>5, <1>7, <2>2, <3>1 DEF r
      <4>2. faults
        BY <1>3, <2>1, <4>1 DEF Waits, r
      <4> QED BY <1>4, <2>2, <3>1, <4>1, <4>2
    <3>2. CASE l = Failed
      BY <1>4, <2>2, <3>2
    <3> QED BY <3>1, <3>2
  <2>4. exit[s]["right"] # "ok"
    BY <2>2
  <2> QED BY <1>1, <1>2, <1>4, <2>1, <2>3, <2>4 DEF Waits
<1> QED BY <1>6, <1>7 DEF Sides

\* Nobody waits for the children of another.
LEMMA OthersWait ==
  ASSUME TreeInv, NEW s \in Splitters, NEW t \in Splitters, s # t,
         NEW c \in Unreaped(t), reaped' = reaped \cup {c}
  PROVE  \A x \in Sides : pid[s][x] \in reaped' => pid[s][x] \in reaped
<1>1. PICK y \in Sides : c = pid[t][y] /\ c # Failed
  BY DEF Unreaped
<1> QED BY <1>1, UniqueParent

\* Every step keeps what every splitter knows true.
LEMMA NextWaits ==
  ASSUME TreeInv, WaitInv, [Next]_vars
  PROVE  \A s \in Splitters : Waits(s)'
<1> SUFFICES ASSUME NEW s \in Splitters PROVE Waits(s)'
  OBVIOUS
<1>0. Waits(s) /\ s \in Processes /\ TypeOK
  BY Kinds, TreeFacts DEF WaitInv
<1>1. ASSUME NEW p \in Sorters, SorterMoves(p) PROVE Waits(s)'
  <2>1. pc'[s] = pc[s] /\ exit' = exit /\ pid' = pid
    BY <1>0, <1>1, Types, Kinds DEF SorterMoves
  <2>2. \A x \in Sides : pid[s][x] # SplitterOf(p)
    BY <1>0, Types, Kinds, Pairs
  <2>3. \A x \in Sides : pid[s][x] \in reaped' => pid[s][x] \in reaped
    BY <1>1, <2>2 DEF SorterMoves
  <2> QED BY <1>0, <2>1, <2>3, WaitsKept
<1>2. ASSUME NEW p \in Sorters, Fork(p) PROVE Waits(s)'
  <2>1. /\ pid' = pid /\ exit' = exit /\ reaped' = reaped
        /\ \A q \in Processes : pc'[q] = IF q = SplitterOf(p) THEN "fork left" ELSE IF q = p THEN "wait" ELSE pc[q]
    BY <1>0, <1>2, Types, Kinds DEF Fork, splitVars
  <2>2. CASE s # SplitterOf(p)
    <3>1. pc'[s] = pc[s]
      BY <1>0, <2>1, <2>2, Kinds
    <3> QED BY <1>0, <2>1, <3>1, WaitsKept
  <2>3. CASE s = SplitterOf(p)
    <3>1. pc[s] = "none" /\ pc'[s] = "fork left"
      BY <1>0, <1>2, <2>1, <2>3, TreeFacts DEF Fork, At, SorterControl, Started, Ended
    <3> QED BY <1>0, <2>1, <3>1 DEF Waits
  <2> QED BY <2>2, <2>3
<1>3. ASSUME NEW t \in Splitters, t # s, SplitterMoves(t) PROVE Waits(s)'
  <2>1. pc'[s] = pc[s] /\ exit'[s] = exit[s] /\ pid' = pid
    BY <1>0, <1>3, Types, Kinds DEF SplitterMoves
  <2>2. \A x \in Sides : pid[s][x] \in reaped' => pid[s][x] \in reaped
    BY <1>3, OthersWait DEF SplitterMoves
  <2> QED BY <1>0, <2>1, <2>2, WaitsKept
<1>4. ASSUME NEW t \in Splitters, t # s, NEW x \in Sides, ForkPart(t, x) PROVE Waits(s)'
  <2>1. Part(t, x) \in Sorters
    BY <1>4, TreeFacts, Fresh DEF ForkPart, At
  <2>2. /\ pc'[s] = pc[s] /\ exit' = exit /\ reaped' = reaped
        /\ \A y \in Sides : pid'[s][y] = pid[s][y]
    BY <1>0, <1>4, <2>1, Types, Kinds DEF ForkPart
  <2> QED BY <1>0, <2>2, WaitsKept
<1>5. ASSUME NEW x \in Sides, ForkPart(s, x) PROVE Waits(s)'
  BY <1>5, ForkPartWaits
<1>6. ASSUME SplitterMoves(s) PROVE Waits(s)'
  <2>1. CASE Check(s)
    <3>1. /\ pc[s] = "check" /\ pc'[s] \in {"ok", "failed"}
          /\ pid' = pid /\ reaped' = reaped
      BY <1>0, <2>1, Types DEF Check, Goto, At, splitVars
    <3>2. Unreaped(s) = {} /\ Unreaped(s)' = Unreaped(s)
      BY <1>0, <3>1 DEF Waits, Unreaped
    <3> QED BY <3>1, <3>2 DEF Waits
  <2>2. CASE pc'[s] = "signal"
    BY <2>2 DEF Waits
  <2> QED BY <1>6, <2>1, <2>2, ForkPartFailsWaits, WaitPartWaits, WaitPartFailsWaits
     DEF SplitterMoves
<1>7. ASSUME UNCHANGED <<pc, mid, pid, exit, reaped>> PROVE Waits(s)'
  BY <1>0, <1>7, WaitsKept
<1> QED BY <1>0, <1>1, <1>2, <1>3, <1>4, <1>5, <1>6, <1>7, TreeFacts, StepKinds DEF vars

\* Whoever fails, or is killed, has a cause.
LEMMA NextCause ==
  ASSUME TreeInv, WaitInv, [Next]_vars
  PROVE  FailureHasCause'
<1> SUFFICES ASSUME NEW p \in Processes, pc'[p] \in {"failed", "signal"}, ~faults',
                    ~(p = Main /\ rest # 0)
             PROVE  FALSE
  BY TreeFacts, History DEF FailureHasCause
<1>0. TypeOK /\ FailureHasCause /\ ~faults /\ faults' = faults
  BY TreeFacts, History, NextTree DEF WaitInv, TypeOK, TreeInv
<1>1. pc[p] \notin {"failed", "signal"}
  BY <1>0 DEF FailureHasCause
<1>2. ASSUME NEW q \in Sorters, SorterMoves(q) PROVE FALSE
  <2>1. q = p
    BY <1>0, <1>1, <1>2, Types DEF SorterMoves
  <2>2. Wait(p)
    BY <1>0, <1>2, <2>1 DEF SorterMoves
  <2>3. pc[SplitterOf(p)] \in Ended /\ pc[SplitterOf(p)] # "ok"
    BY <1>0, <1>1, <2>2, Types DEF Wait, Goto, Return, Ended
  <2> QED BY <1>0, <1>2, <2>1, <2>3, Kinds DEF FailureHasCause, Ended
<1>3. ASSUME NEW q \in Sorters, Fork(q) PROVE FALSE
  BY <1>0, <1>1, <1>3, Types, Kinds DEF Fork
<1>4. ASSUME NEW s \in Splitters, SplitterMoves(s) PROVE FALSE
  <2>1. s = p
    BY <1>0, <1>1, <1>4, Types DEF SplitterMoves
  <2>2. Check(s)
    <3>1. ASSUME NEW x \in Sides, ForkPartFails(s, x) \/ WaitPart(s, x) \/ WaitPartFails(s, x)
          PROVE  pc'[s] \notin {"failed", "signal"}
      BY <1>0, <2>1, <3>1, Types
         DEF ForkPartFails, WaitPart, WaitPartFails, Goto, AfterFork, AfterWait
    <3> QED BY <1>0, <1>4, <2>1, <3>1 DEF SplitterMoves
  <2>3. pc[s] = "check" /\ \E x \in Sides : exit[s][x] # "ok"
    BY <1>0, <2>1, <2>2, Types DEF Check, Goto, At
  <2> QED BY <1>0, <2>3 DEF WaitInv, Waits
<1>5. ASSUME NEW s \in Splitters, NEW x \in Sides, ForkPart(s, x) PROVE FALSE
  <2>1. Part(s, x) \in Processes
    BY <1>5, TreeFacts, Fresh, Kinds DEF ForkPart, At
  <2> QED BY <1>0, <1>1, <1>5, <2>1, Types DEF ForkPart, AfterFork
<1> QED BY <1>1, <1>2, <1>3, <1>4, <1>5, TreeFacts, StepKinds DEF vars

\* At first no splitter has started.
LEMMA InitWaits == Init => WaitInv
<1> SUFFICES ASSUME Init PROVE WaitInv
  OBVIOUS
<1>1. \A s \in Splitters : s \in Processes /\ s # Main
  BY Kinds
<1>2. \A s \in Splitters : Waits(s)
  BY <1>1 DEF Init, Waits, Sides
<1> QED BY <1>2 DEF WaitInv, FailureHasCause, Init

\* A process that ends by itself leaves no child behind.
LEMMA TreeNoChildLeft == TreeInv /\ WaitInv => NoChildLeft
<1> SUFFICES ASSUME TreeInv, WaitInv, NEW p \in Processes, pc[p] \in {"ok", "failed"}
             PROVE  IF p \in Splitters THEN Unreaped(p) = {}
                    ELSE pc[SplitterOf(p)] = "none" \/ SplitterOf(p) \in reaped
  BY DEF NoChildLeft
<1>1. CASE p \in Splitters
  BY <1>1 DEF WaitInv, Waits
<1>2. CASE p \notin Splitters
  BY <1>2, TreeFacts, Pairs DEF SorterControl, Started
<1> QED BY <1>1, <1>2

-----------------------------------------------------------------------------
(***************************************************************************)
(* Who has ended, or is about to, has nobody below it that still runs.     *)
(***************************************************************************)

\* quicksort has returned 1.
Good(p) == pc[p] \in {"ok", "munmap"}

\* Processes below which all is over: they have ended well, or no process was
\* killed and they have ended.
Over(p) == Good(p) \/ (kills = 0 /\ pc[p] \in Ended)

\* All below p have ended and were waited for, and have ended well if p has.
SettledAt(p) ==
  \A q \in Below(p) :
    Started(q) => /\ pc[q] \in Ended /\ q \in reaped
                  /\ Good(p) => pc[q] = "ok"

\* A process ends after all that are below it.
Settled == \A p \in Processes : Over(p) => SettledAt(p)

\* Below a sorter are the child forked in it and whatever is below that.
LEMMA BelowSplitter ==
  ASSUME NEW p \in Sorters
  PROVE  /\ Below(p) = Below(SplitterOf(p)) \cup {SplitterOf(p)}
         /\ p \notin Below(p) /\ p \notin Below(SplitterOf(p))
<1>1. /\ SplitterOf(p) \in Processes /\ SplitterOf(p)[1] = "split" /\ SplitterOf(p) # p
      /\ SplitterOf(p)[2] = p[2] /\ SplitterOf(p)[3] = p[3]
      /\ p[1] = "sort" /\ p = <<"sort", p[2], p[3]>>
  BY Kinds, ProcessParts, Pairs DEF Sorters, SplitterOf
<1>2. p[2] \in Nat /\ p[3] \in Nat
  BY Bounds
<1> QED BY <1>1, <1>2 DEF Below

\* Whoever is below a process that has started is the child forked in it, or
\* below that child's children.
LEMMA BelowStarted ==
  ASSUME TreeInv, NEW p \in Sorters, Started(p), NEW q \in Below(p), Started(q)
  PROVE  /\ Started(SplitterOf(p))
         /\ \/ q = SplitterOf(p)
            \/ \E x \in Sides : LET c == pid[SplitterOf(p)][x]
                               IN  c # Failed /\ (q = c \/ q \in Below(c))
<1>1. q \in Processes /\ p[2] <= q[2] /\ q[3] <= p[3] /\ q # p
  BY DEF Below
<1> DEFINE r == IF q \in Sorters THEN q ELSE SorterOf(q)
<1>2. r \in Sorters /\ r[2] = q[2] /\ r[3] = q[3] /\ (q = r \/ (q \notin Sorters /\ q = SplitterOf(r)))
  BY <1>1, Pairs
<1> HIDE DEF r
<1>3. Started(r)
  BY <1>2, TreeFacts DEF SorterControl, Started, Ended
<1>4. /\ p[2] \in Nat /\ p[3] \in Nat /\ r[2] \in Nat /\ r[3] \in Nat /\ r[2] <= r[3]
      /\ p[2] <= r[2] /\ r[3] <= p[3]
  BY <1>1, <1>2, Bounds
<1>5. CASE r = p
  <2>1. q = SplitterOf(p)
    BY <1>1, <1>2, <1>5
  <2> QED BY <2>1
<1>6. CASE r # p
  <2>1. Apart(p, r) \/ InPart(pid, p, r) \/ InPart(pid, r, p)
    BY <1>2, <1>3, <1>6, TreeFacts DEF Laminar
  <2>2. ~Apart(p, r)
    BY <1>4 DEF Apart
  <2>3. ~InPart(pid, p, r)
    <3>1. Within(r, p)
      BY <1>4 DEF Within
    <3> QED BY <3>1, <1>2, PartPlace
  <2>4. PICK x \in Sides : pid[SplitterOf(p)][x] # Failed /\ Within(r, pid[SplitterOf(p)][x])
    BY <2>1, <2>2, <2>3 DEF InPart
  <2> DEFINE c == pid[SplitterOf(p)][x]
  <2>5. c \in Sorters /\ Started(SplitterOf(p))
    BY <2>4, TreeFacts, ChildPlace
  <2>6. c \in Sorters /\ c[1] = "sort" /\ c[2] <= q[2] /\ q[3] <= c[3]
    BY <1>2, <2>4, <2>5 DEF Within, Sorters
  <2> HIDE DEF c
  <2>7. q = c \/ q \in Below(c)
    BY <1>1, <2>6 DEF Below
  <2> QED BY <2>4, <2>5, <2>7 DEF c
<1> QED BY <1>5, <1>6

\* Nobody starts below a process that is over.
LEMMA NoneStarts ==
  ASSUME TreeInv, Settled, [Next]_vars, NEW p \in Processes, Over(p), NEW q \in Below(p),
         pc[q] = "none"
  PROVE  pc'[q] = "none"
<1>1. /\ q \in Processes /\ p[2] <= q[2] /\ q[3] <= p[3] /\ q # p /\ SettledAt(p)
      /\ TypeOK /\ Control /\ Laminar
  BY TreeFacts DEF Below, Settled
<1> DEFINE a == IF p \in Sorters THEN p ELSE SorterOf(p)
<1>2. a \in Sorters /\ a[2] = p[2] /\ a[3] = p[3] /\ (p = a \/ (p \notin Sorters /\ p = SplitterOf(a)))
  BY Pairs
<1> HIDE DEF a
<1>3. Started(p) /\ Started(a)
  BY <1>1, <1>2, TreeFacts DEF Over, Good, SorterControl, Started, Ended
<1>4. \A r \in Processes : a[2] <= r[2] /\ r[3] <= a[3] /\ Started(r) /\ r # p /\ r # a => pc[r] \in Ended
  <2> SUFFICES ASSUME NEW r \in Processes, a[2] <= r[2], r[3] <= a[3], Started(r), r # p, r # a
               PROVE  pc[r] \in Ended
    OBVIOUS
  <2>1. r \in Below(p)
    <3>1. p[1] = "split" => <<"sort", p[2], p[3]>> = a
      BY <1>2, ProcessParts, Pairs DEF Sorters, SorterOf
    <3> QED BY <3>1, <1>2 DEF Below
  <2> QED BY <1>1, <2>1 DEF SettledAt
<1>5. ASSUME NEW r \in Sorters, Fork(r) PROVE pc'[q] = "none"
  <2> SUFFICES ASSUME q = SplitterOf(r) PROVE FALSE
    BY <1>1, <1>5, Types, Kinds DEF Fork, At
  <2>1. pc[r] = "fork" /\ Started(r) /\ r[2] = q[2] /\ r[3] = q[3] /\ r \in Processes
    BY <1>5, Pairs, Kinds DEF Fork, At, Started
  <2>2. r # p
    BY <2>1 DEF Over, Good, Ended
  <2>3. r # a
    BY <2>2, <1>2, <1>1
  <2> QED BY <1>1, <1>2, <1>4, <2>1, <2>2, <2>3 DEF Ended
<1>6. ASSUME NEW s \in Splitters, NEW x \in Sides, ForkPart(s, x) PROVE pc'[q] = "none"
  <2>1. /\ pc[s] = ForkAt(x) /\ Part(s, x) \in Sorters
        /\ SplitterControl(s) /\ Started(s) /\ Started(SorterOf(s))
        /\ pid[s][x] = Failed
    BY <1>1, <1>6, Fresh DEF ForkPart, At
  <2> SUFFICES ASSUME q = Part(s, x) PROVE FALSE
    BY <1>1, <1>6, <2>1, Types, Kinds DEF ForkPart, ForkAt
  <2> DEFINE b == SorterOf(s)
  <2>2. b \in Sorters /\ b[2] = s[2] /\ b[3] = s[3] /\ SplitterOf(b) = s /\ s \in Processes
    BY Pairs
  <2>3. mid[s] \in Region(b[2], b[3])
    BY <2>1, <2>2 DEF SplitterControl
  <2>4. /\ q[2] = IF x = "left" THEN b[2] ELSE mid[s] + 1
        /\ q[3] = IF x = "left" THEN mid[s] ELSE b[3]
    BY <2>2, <2>3, PartMade
  <2>5. /\ mid[s] \in Nat /\ b[2] <= mid[s] /\ mid[s] < b[3] /\ b[2] \in Nat /\ b[3] \in Nat
        /\ a[2] \in Nat /\ a[3] \in Nat /\ a[2] <= q[2] /\ q[3] <= a[3]
    BY <1>1, <1>2, <2>2, <2>3, Bounds DEF Region
  <2>6. pc[s] \notin Ended /\ ~Over(s)
    BY <2>1 DEF ForkAt, Ended, Over, Good
  <2>7. s # p /\ s # a
    BY <1>2, <2>6, Kinds
  <2> HIDE DEF b
  <2>8. ~(a[2] <= b[2] /\ b[3] <= a[3])
    BY <1>4, <2>1, <2>2, <2>6, <2>7
  <2>9. Started(b)
    BY <2>1 DEF b
  <2>10. Apart(a, b) \/ InPart(pid, a, b) \/ InPart(pid, b, a)
    BY <1>1, <1>2, <1>3, <2>2, <2>5, <2>8, <2>9 DEF Laminar
  <2>11. ~InPart(pid, b, a)
    BY <1>2, <2>2, <2>8, PartPlace DEF Within
  <2>12. ~Apart(a, b)
    BY <2>4, <2>5 DEF Apart
  <2>13. PICK y \in Sides : pid[s][y] # Failed /\ Within(a, pid[s][y])
    BY <2>2, <2>10, <2>11, <2>12 DEF InPart
  <2>14. y # x
    BY <2>1, <2>13
  <2>15. /\ pid[s][y][2] = IF y = "left" THEN b[2] ELSE mid[s] + 1
         /\ pid[s][y][3] = IF y = "left" THEN mid[s] ELSE b[3]
    BY <1>1, <2>2, <2>13, ChildPlace
  <2>16. q[2] <= q[3]
    BY <2>1, Bounds
  <2> QED BY <2>4, <2>5, <2>13, <2>14, <2>15, <2>16 DEF Sides, Within
<1>7. ASSUME NEW r \in Sorters, SorterMoves(r) PROVE pc'[q] = "none"
  BY <1>1, <1>7, Types DEF SorterMoves
<1>8. ASSUME NEW s \in Splitters, SplitterMoves(s) PROVE pc'[q] = "none"
  BY <1>1, <1>8, Types DEF SplitterMoves
<1> QED BY <1>5, <1>6, <1>7, <1>8, TreeFacts, StepKinds DEF vars

\* Nobody below a process that is over takes a step.
LEMMA BelowFrozen ==
  ASSUME TreeInv, Settled, [Next]_vars, NEW p \in Processes, Over(p), NEW q \in Below(p)
  PROVE  pc'[q] = pc[q]
<1>1. q \in Processes /\ (pc[q] = "none" \/ pc[q] \in Ended)
  BY DEF Below, Settled, SettledAt, Started
<1> QED BY <1>1, NoneStarts, EndedStays

\* Every step leaves those below an ended process ended.
LEMMA NextSettled ==
  ASSUME TreeInv, WaitInv, Settled, [Next]_vars
  PROVE  Settled'
<1> SUFFICES ASSUME NEW p \in Processes, Over(p)' PROVE SettledAt(p)'
  BY DEF Settled
<1>0. /\ TypeOK /\ kills \in Nat /\ kills' \in Nat /\ (kills' = 0 => kills = 0)
      /\ reaped \subseteq reaped'
  <2>1. kills \in 0 .. MaxKills
    BY TreeFacts DEF TypeOK
  <2> QED BY <2>1, TreeFacts, History, EndedStays
<1>1. ASSUME Over(p), Good(p)' => Good(p) PROVE SettledAt(p)'
  <2> SUFFICES ASSUME NEW q \in Below(p), pc'[q] # "none"
               PROVE  pc'[q] \in Ended /\ q \in reaped' /\ (Good(p)' => pc'[q] = "ok")
    BY DEF SettledAt, Below, Started
  <2>1. pc'[q] = pc[q]
    BY <1>1, BelowFrozen
  <2>2. pc[q] \in Ended /\ q \in reaped /\ (Good(p) => pc[q] = "ok")
    BY <1>1, <2>1 DEF Settled, SettledAt, Started
  <2> QED BY <1>0, <1>1, <2>1, <2>2
<1>2. ASSUME pc'[p] = pc[p] PROVE SettledAt(p)'
  <2>1. Over(p) /\ (Good(p)' => Good(p))
    BY <1>0, <1>2 DEF Over, Good
  <2> QED BY <1>1, <2>1
<1>3. ASSUME p \in Sorters, SorterMoves(p) PROVE SettledAt(p)'
  <2>1. \A q \in Processes : q # p => pc'[q] = pc[q]
    BY <1>0, <1>3, Types DEF SorterMoves
  <2>2. CASE pc[p] = "munmap"
    BY <1>1, <2>2 DEF Over, Good
  <2>3. CASE pc[p] \notin {"munmap", "wait"}
    <3>1. Started(p) /\ ~Started(SplitterOf(p))
      BY <1>3, <2>3, TreeFacts DEF SorterMoves, SorterControl, Started, Ended
    <3>2. \A q \in Below(p) : q \in Processes /\ q # p /\ pc[q] = "none"
      BY <1>3, <3>1, BelowStarted DEF Below, Started
    <3> QED BY <2>1, <3>2 DEF SettledAt, Below, Started
  <2>4. CASE pc[p] = "wait"
    <3> DEFINE s == SplitterOf(p)
    <3>1. pc'[p] # "signal"
      BY <1>0, <1>3, <2>4 DEF SorterMoves, Over, Good
    <3>2. Wait(p)
      BY <1>3, <2>4, <3>1 DEF SorterMoves
    <3>3. /\ pc[s] \in Ended /\ reaped' = reaped \cup {s} /\ kills' = kills
          /\ pc'[p] = Return(p, pc[s] = "ok")
      BY <1>0, <3>2, Types DEF Wait, Goto, historyVars
    <3>4. Good(p)' => pc[s] = "ok"
      BY <3>3 DEF Return, Good
    <3>5. Over(s) /\ (Good(p)' => Good(s))
      BY <1>0, <3>3, <3>4 DEF Over, Good
    <3>6. SettledAt(s) /\ Below(p) = Below(s) \cup {s}
      BY <1>3, <3>5, Kinds, BelowSplitter DEF Settled
    <3>7. ASSUME NEW q \in Below(p), pc'[q] # "none"
          PROVE  pc'[q] \in Ended /\ q \in reaped' /\ (Good(p)' => pc'[q] = "ok")
      <4>1. q \in Processes /\ q # p /\ pc'[q] = pc[q]
        BY <2>1 DEF Below
      <4>2. CASE q = s
        BY <3>3, <3>4, <4>1, <4>2
      <4>3. CASE q \in Below(s)
        BY <1>0, <3>5, <3>6, <3>7, <4>1, <4>3 DEF SettledAt, Started
      <4> QED BY <3>6, <4>2, <4>3
    <3> QED BY <3>7 DEF SettledAt, Below, Started
  <2> QED BY <2>2, <2>3, <2>4
<1>4. ASSUME p \in Splitters, SplitterMoves(p) PROVE SettledAt(p)'
  <2>1. \A q \in Processes : q # p => pc'[q] = pc[q]
    BY <1>0, <1>4, Types DEF SplitterMoves
  <2>2. Check(p)
    <3>1. ASSUME NEW x \in Sides, ForkPartFails(p, x) \/ WaitPart(p, x) \/ WaitPartFails(p, x)
          PROVE  pc'[p] \notin {"munmap"} \cup Ended
      BY <1>0, <3>1, Types
         DEF ForkPartFails, WaitPart, WaitPartFails, Goto, AfterFork, AfterWait, Ended
    <3>2. pc'[p] \in {"munmap"} \cup Ended /\ ~(pc'[p] = "signal" /\ kills' > 0)
      BY <1>0 DEF Over, Good, Ended
    <3> QED BY <1>4, <3>1, <3>2 DEF SplitterMoves
  <2>3. /\ pc[p] = "check" /\ reaped' = reaped /\ kills' = kills
        /\ pc'[p] = IF \A x \in Sides : exit[p][x] = "ok" THEN "ok" ELSE "failed"
    BY <1>0, <2>2, Types DEF Check, Goto, At, historyVars
  <2>4. /\ Unreaped(p) = {}
        /\ Good(p)' => \A x \in Sides : pid[p][x] # Failed => pc[pid[p][x]] = "ok"
    BY <1>4, <2>3 DEF WaitInv, Waits, Good
  <2> DEFINE a == SorterOf(p)
  <2>5. a \in Sorters /\ SplitterOf(a) = p
    BY <1>4, Pairs
  <2> HIDE DEF a
  <2>6. Started(a)
    BY <2>3, <2>5, TreeFacts DEF SorterControl, Started, Ended
  <2>7. ASSUME NEW q \in Below(p), pc'[q] # "none"
        PROVE  pc'[q] \in Ended /\ q \in reaped' /\ (Good(p)' => pc'[q] = "ok")
    <3>1. q \in Processes /\ q # p /\ pc'[q] = pc[q] /\ q \in Below(a)
      BY <2>1, <2>5, BelowSplitter DEF Below
    <3>2. PICK x \in Sides : LET c == pid[p][x]
                             IN  c # Failed /\ (q = c \/ q \in Below(c))
      BY <2>5, <2>6, <2>7, <3>1, BelowStarted DEF Started
    <3> DEFINE c == pid[p][x]
    <3>3. c \in reaped /\ c \in Processes
      BY <1>0, <1>4, <2>4, <3>2, Types, Kinds DEF Unreaped
    <3>4. pc[c] \in Ended /\ (Good(p)' => pc[c] = "ok")
      BY <2>4, <3>2, <3>3, TreeFacts DEF Control
    <3>5. Over(c) /\ (Good(p)' => Good(c))
      BY <1>0, <2>3, <3>4 DEF Over, Good
    <3>6. SettledAt(c)
      BY <3>3, <3>5 DEF Settled
    <3> HIDE DEF c
    <3>7. CASE q = c
      BY <2>3, <3>1, <3>3, <3>4, <3>7
    <3>8. CASE q \in Below(c)
      BY <2>3, <2>7, <3>1, <3>5, <3>6, <3>8 DEF SettledAt, Started
    <3> QED BY <3>2, <3>7, <3>8 DEF c
  <2> QED BY <2>7 DEF SettledAt, Below, Started
<1>5. ASSUME NEW r \in Processes, r # p, SorterMoves(r) \/ SplitterMoves(r)
      PROVE  SettledAt(p)'
  BY <1>0, <1>2, <1>5, Types DEF SorterMoves, SplitterMoves
<1>6. ASSUME NEW r \in Sorters, Fork(r) PROVE SettledAt(p)'
  <2>1. pc'[p] = pc[p]
    BY <1>0, <1>6, Types, Kinds DEF Fork, Over, Good, Ended
  <2> QED BY <1>2, <2>1
<1>7. ASSUME NEW s \in Splitters, NEW x \in Sides, ForkPart(s, x) PROVE SettledAt(p)'
  <2>1. Part(s, x) \in Processes
    BY <1>7, TreeFacts, Fresh, Kinds DEF ForkPart, At
  <2>2. pc'[p] = pc[p]
    BY <1>0, <1>7, <2>1, Types, Kinds DEF ForkPart, AfterFork, Over, Good, Ended
  <2> QED BY <1>2, <2>2
<1> QED BY <1>2, <1>3, <1>4, <1>5, <1>6, <1>7, Kinds, TreeFacts, StepKinds DEF vars

\* At first no process has ended.
LEMMA InitSettled == Init => Settled
BY DEF Init, Settled, Over, Good, Ended

-----------------------------------------------------------------------------
(***************************************************************************)
(* What is in the array.                                                   *)
(***************************************************************************)

\* Of a region that was rewritten with the elements it had, every element was
\* in the region before.
LEMMA Shuffled ==
  ASSUME NEW a \in [Index -> Values], NEW b \in [Index -> Values], NEW s \in Nat, NEW e \in Nat,
         e <= N, OnlyTouched(a, b, s, e), IsPermutation(a, b), NEW i \in Region(s, e)
  PROVE  \E j \in Region(s, e) : a[i] = b[j]
<1> SUFFICES ASSUME \A j \in Region(s, e) : a[i] # b[j] PROVE FALSE
  OBVIOUS
<1> DEFINE v == a[i]
<1>1. i \in Index /\ v \in Values
  BY DEF Region, Index
<1>2. Places(b, v) \subseteq Places(a, v)
  <2> SUFFICES ASSUME NEW k \in Index, b[k] = v PROVE a[k] = v
    BY DEF Places
  <2>1. k \notin Region(s, e)
    OBVIOUS
  <2> QED BY <2>1 DEF OnlyTouched
<1>3. i \in Places(a, v) /\ i \notin Places(b, v)
  BY <1>1 DEF Places
<1>4. IsFiniteSet(Places(a, v))
  <2>1. IsFiniteSet(Index) /\ Places(a, v) \in SUBSET Index
    BY FS_Interval DEF Places, Index
  <2> QED BY <2>1, FS_Subset
<1>5. Cardinality(Places(a, v)) = Cardinality(Places(b, v))
  BY <1>1 DEF IsPermutation
<1> HIDE DEF v
<1> QED BY <1>2, <1>3, <1>4, <1>5, FS_Subset

\* The element at m is in its place within p's region.
PivotedAt(a, p, m) ==
  /\ \A i \in Region(p[2], m) : a[i] <= a[m]
  /\ \A i \in Region(m + 1, p[3]) : a[m] <= a[i]

\* Around a pivot in its place, two sorted parts make a sorted region.
LEMMA SortedParts ==
  ASSUME NEW a \in [Index -> Values], NEW p \in Sorters, NEW m \in Region(p[2], p[3]),
         PivotedAt(a, p, m), IsSorted(a, p[2], m), IsSorted(a, m + 1, p[3])
  PROVE  IsSorted(a, p[2], p[3])
<1> SUFFICES ASSUME NEW i \in Region(p[2], p[3]), NEW j \in Region(p[2], p[3]), i < j
             PROVE  a[i] <= a[j]
  BY DEF IsSorted
<1>1. /\ i \in Index /\ j \in Index /\ m \in Index
      /\ p[2] <= i /\ i < p[3] /\ p[2] <= j /\ j < p[3]
  BY Bounds DEF Region, Index
<1>2. a[i] \in Int /\ a[j] \in Int /\ a[m] \in Int
  BY <1>1
<1>3. CASE j < m
  <2>1. i \in Region(p[2], m) /\ j \in Region(p[2], m)
    BY <1>1, <1>3, Bounds DEF Region, Index
  <2> QED BY <2>1 DEF IsSorted
<1>4. CASE i > m
  <2>1. i \in Region(m + 1, p[3]) /\ j \in Region(m + 1, p[3])
    BY <1>1, <1>4, Bounds DEF Region, Index
  <2> QED BY <2>1 DEF IsSorted
<1>5. CASE i <= m /\ m <= j
  <2>1. a[i] <= a[m]
    <3>1. i = m \/ i \in Region(p[2], m)
      BY <1>1, <1>5, Bounds DEF Region, Index
    <3> QED BY <1>2, <3>1 DEF PivotedAt
  <2>2. a[m] <= a[j]
    <3>1. j = m \/ j \in Region(m + 1, p[3])
      BY <1>1, <1>5, Bounds DEF Region, Index
    <3> QED BY <1>2, <3>1 DEF PivotedAt
  <2> QED BY <1>2, <2>1, <2>2
<1>6. j < m \/ i > m \/ (i <= m /\ m <= j)
  BY <1>1 DEF Index
<1> QED BY <1>3, <1>4, <1>5, <1>6

\* Who writes: a process in qsort or partition, to its region.
Writes(p) ==
  /\ pc[p] \in {"qsort", "partition"}
  /\ arr' \in [Index -> Values]
  /\ OnlyTouched(arr', arr, p[2], p[3])
  /\ IsPermutation(arr', arr) \/ pc'[p] = "signal"

\* The array changes only by a sorter that is in qsort or partition.
LEMMA ArrayChanges ==
  ASSUME TreeInv, [Next]_vars
  PROVE  arr' = arr \/ \E p \in Sorters : Writes(p) /\ SorterMoves(p)
<1>0. TypeOK /\ arr \in [Index -> Values]
  BY TreeFacts, Types
<1>1. ASSUME NEW p \in Processes, Kill(p) PROVE arr' = arr \/ (p \in Sorters /\ Writes(p))
  <2>1. CASE pc[p] \in {"qsort", "partition"}
    <3>1. arr' \in Rewrites(arr, p[2], p[3]) /\ pc'[p] = "signal"
      BY <1>0, <1>1, <2>1, Types DEF Kill, Die
    <3>2. p \in Sorters
      BY <2>1, Kinds, Pairs, TreeFacts DEF SplitterControl, SplitPC, Ended
    <3> QED BY <1>0, <2>1, <3>1, <3>2, RewriteTypes DEF Writes
  <2>2. CASE pc[p] \notin {"qsort", "partition"}
    BY <1>1, <2>2 DEF Kill, Die
  <2> QED BY <2>1, <2>2
<1>2. ASSUME NEW p \in Sorters, Segfault(p) PROVE Writes(p)
  <2>1. arr' \in Rewrites(arr, p[2], p[3]) /\ pc'[p] = "signal" /\ pc[p] = "partition"
    BY <1>0, <1>2, Types, Kinds DEF Segfault, Die, At
  <2> QED BY <1>0, <2>1, RewriteTypes DEF Writes
<1>3. ASSUME NEW p \in Sorters, QSort(p) PROVE Writes(p)
  <2>1. arr' \in Rewrites(arr, p[2], p[3]) /\ IsPermutation(arr', arr) /\ pc[p] = "qsort"
    BY <1>3 DEF QSort, Goto, At
  <2> QED BY <1>0, <2>1, RewriteTypes DEF Writes
<1>4. ASSUME NEW p \in Sorters, Partition(p) PROVE Writes(p)
  <2>1. arr' \in Rewrites(arr, p[2], p[3]) /\ IsPermutation(arr', arr) /\ pc[p] = "partition"
    BY <1>4 DEF Partition, Goto, At, IsPartition
  <2> QED BY <1>0, <2>1, RewriteTypes DEF Writes
<1>5. ASSUME NEW p \in Sorters, Writes(p), Next, pc'[p] # pc[p] PROVE SorterMoves(p)
  <2>1. ASSUME NEW q \in Sorters, SorterMoves(q) PROVE SorterMoves(p)
    <3>1. q = p
      BY <1>0, <1>5, <2>1, Types, Kinds DEF SorterMoves
    <3> QED BY <2>1, <3>1
  <2>2. ASSUME NEW q \in Splitters, SplitterMoves(q) PROVE FALSE
    BY <1>0, <1>5, <2>2, Types, Kinds DEF SplitterMoves
  <2>3. ASSUME NEW q \in Sorters, Fork(q) PROVE FALSE
    BY <1>0, <1>5, <2>3, Types, Kinds DEF Fork, Writes, At
  <2>4. ASSUME NEW s \in Splitters, NEW x \in Sides, ForkPart(s, x) PROVE FALSE
    <3>1. Part(s, x) \in Sorters /\ pc[Part(s, x)] = "none"
      BY <2>4, TreeFacts, Fresh DEF ForkPart, At
    <3> QED BY <1>0, <1>5, <2>4, <3>1, Types, Kinds DEF ForkPart, Writes
  <2> QED BY <1>5, <2>1, <2>2, <2>3, <2>4, TreeFacts, StepKinds
<1>6. ASSUME NEW p \in Processes, Kill(p) PROVE pc'[p] # pc[p]
  BY <1>0, <1>6, Types DEF Kill, Die, Ended
<1>7. ASSUME NEW p \in Sorters, Segfault(p) \/ QSort(p) \/ Partition(p) PROVE pc'[p] # pc[p]
  BY <1>0, <1>7, Types, Kinds DEF Segfault, Die, At, QSort, Partition, Goto, Return
<1>8. ASSUME NEW p \in Sorters, ReturnShort(p) \/ Choose(p) \/ GoWild(p) \/ Fork(p)
                               \/ ForkFails(p) \/ Wait(p)
      PROVE  arr' = arr
  BY <1>8, Zenon DEF ReturnShort, Choose, GoWild, Fork, ForkFails, Wait
<1>9. ASSUME NEW s \in Splitters, Splits(s) PROVE arr' = arr
  BY <1>9, Zenon DEF Splits, ForkPart, ForkPartFails, WaitPart, WaitPartFails, Check
<1>10. CASE RunsMain \/ ReadElement \/ ReadEnd \/ UNCHANGED vars
  BY <1>10, Zenon
     DEF RunsMain, Open, Fstat, Mmap, Munmap, SystemCallFails, ReadElement, ReadEnd,
                      processVars, vars
<1> QED BY <1>1, <1>2, <1>3, <1>4, <1>5, <1>6, <1>7, <1>8, <1>9, <1>10 DEF Next, Sorts

\* A region that was partitioned stays so around its pivot while its parts are
\* sorted, unless somebody in it was killed, and the region of a process that has
\* ended well is sorted.
SortedInv ==
  /\ \A p \in Sorters : pc[p] = "fork" => PivotedAt(arr, p, mid[p])
  /\ \A s \in Splitters : Started(s) =>
       PivotedAt(arr, s, mid[s]) \/ \E q \in Below(s) : pc[q] = "signal"
  /\ \A p \in Processes : Good(p) => IsSorted(arr, p[2], p[3])

\* Where a process may be that has started when another writes.
LEMMA WriterPlace ==
  ASSUME TreeInv, NEW w \in Sorters, pc[w] \in {"qsort", "partition"},
         NEW a \in Sorters, Started(a), a # w
  PROVE  Apart(w, a) \/ InPart(pid, w, a)
<1>1. Started(w) /\ ~Started(SplitterOf(w))
  BY TreeFacts DEF SorterControl, Started, Ended
<1> QED BY <1>1, TreeFacts, PartPlace DEF Laminar

\* Nobody writes to the region of a process that has ended well.
LEMMA GoodUntouched ==
  ASSUME TreeInv, Settled, NEW w \in Sorters, pc[w] \in {"qsort", "partition"},
         NEW p \in Processes, Good(p)
  PROVE  Region(w[2], w[3]) \cap Region(p[2], p[3]) = {}
<1> DEFINE a == IF p \in Sorters THEN p ELSE SorterOf(p)
<1>1. a \in Sorters /\ a[2] = p[2] /\ a[3] = p[3] /\ (p = a \/ (p \notin Sorters /\ p = SplitterOf(a)))
  BY Pairs
<1> HIDE DEF a
<1>2. Started(p) /\ Started(a)
  BY <1>1, TreeFacts DEF Good, SorterControl, Started, Ended
<1>3. a # w
  <2>1. ~Started(SplitterOf(w)) /\ ~Good(w)
    BY TreeFacts DEF SorterControl, Started, Ended, Good
  <2> QED BY <1>1, <1>2, <2>1
<1>4. ~InPart(pid, w, a)
  <2> SUFFICES ASSUME InPart(pid, w, a) PROVE FALSE
    OBVIOUS
  <2>1. a[2] <= w[2] /\ w[3] <= a[3]
    BY <1>1, PartPlace DEF Within
  <2>2. w \in Below(a) /\ w # SplitterOf(a)
    BY <1>1, <1>3, <2>1, Kinds DEF Below, Sorters
  <2>3. w \in Below(p)
    BY <1>1, <2>2, BelowSplitter
  <2> QED BY <2>3 DEF Settled, SettledAt, Over, Started, Ended
<1>5. Apart(w, a)
  BY <1>1, <1>2, <1>3, <1>4, WriterPlace
<1> QED BY <1>1, <1>5, Bounds DEF Apart, Region

\* The elements of a region that nobody writes to.
LEMMA GoodStaysSorted ==
  ASSUME TreeInv, Settled, [Next]_vars, NEW p \in Processes, Good(p), IsSorted(arr, p[2], p[3])
  PROVE  IsSorted(arr', p[2], p[3])
<1>1. CASE arr' = arr
  BY <1>1
<1>2. ASSUME NEW w \in Sorters, Writes(w) PROVE IsSorted(arr', p[2], p[3])
  <2>1. Region(w[2], w[3]) \cap Region(p[2], p[3]) = {}
    BY <1>2, GoodUntouched DEF Writes
  <2>2. \A i \in Region(p[2], p[3]) : i \in Index /\ i \notin Region(w[2], w[3])
    BY <2>1, ProcessParts DEF Region, Index
  <2>3. \A i \in Region(p[2], p[3]) : arr'[i] = arr[i]
    BY <1>2, <2>2 DEF Writes, OnlyTouched
  <2> QED BY <2>3 DEF IsSorted
<1> QED BY <1>1, <1>2, ArrayChanges

\* A splitter that ends well leaves its region sorted.
LEMMA CheckSorts ==
  ASSUME TreeInv, WaitInv, Settled, SortedInv, NEW s \in Splitters, Check(s), pc'[s] = "ok"
  PROVE  IsSorted(arr, s[2], s[3])
<1> DEFINE a == SorterOf(s)
           l == pid[s]["left"]
           r == pid[s]["right"]
<1>1. a \in Sorters /\ SplitterOf(a) = s /\ a[2] = s[2] /\ a[3] = s[3] /\ "left" \in Sides /\ "right" \in Sides
  BY Pairs DEF Sides
<1> HIDE DEF a
<1>2. pc[s] = "check" /\ \A x \in Sides : exit[s][x] = "ok"
  BY TreeFacts, Types DEF Check, Goto, At
<1>3. \A x \in Sides : pid[s][x] # Failed /\ pc[pid[s][x]] = "ok"
  BY <1>2 DEF WaitInv, Waits
<1>4. Started(s) /\ Started(a)
  BY <1>1, <1>2, TreeFacts DEF SorterControl, Started, Ended
<1>5. /\ l \in Sorters /\ l[2] = s[2] /\ l[3] = mid[s] /\ Good(l)
      /\ r \in Sorters /\ r[2] = mid[s] + 1 /\ r[3] = s[3] /\ Good(r)
  BY <1>1, <1>3, TreeFacts, ChildPlace DEF Good
<1>6. IsSorted(arr, s[2], mid[s]) /\ IsSorted(arr, mid[s] + 1, s[3])
  BY <1>5, Kinds DEF SortedInv
<1>7. ASSUME NEW q \in Below(s), pc[q] = "signal" PROVE FALSE
  <2>1. q \in Below(a) /\ q # s /\ Started(q)
    BY <1>1, <1>7, BelowSplitter DEF Started, Below
  <2>2. PICK x \in Sides : LET c == pid[s][x]
                           IN  c # Failed /\ (q = c \/ q \in Below(c))
    BY <1>1, <1>4, <2>1, BelowStarted
  <2> DEFINE c == pid[s][x]
  <2>3. c \in Processes /\ pc[c] = "ok"
    BY <1>3, <2>2, TreeFacts, Types, Kinds
  <2>4. Good(c) /\ Over(c) /\ SettledAt(c)
    BY <2>3 DEF Good, Over, Settled
  <2> HIDE DEF c
  <2>5. CASE q = c
    BY <1>7, <2>3, <2>5
  <2>6. CASE q \in Below(c)
    BY <1>7, <2>1, <2>4, <2>6 DEF SettledAt
  <2> QED BY <2>2, <2>5, <2>6 DEF c
<1>8. PivotedAt(arr, a, mid[s])
  BY <1>1, <1>4, <1>7 DEF SortedInv, PivotedAt
<1>9. mid[s] \in Region(a[2], a[3])
  BY <1>1, <1>4, TreeFacts DEF SplitterControl
<1> QED BY <1>1, <1>6, <1>8, <1>9, SortedParts, TreeFacts, Types

\* A splitter's region stays parted while its parts are sorted.
LEMMA PartsStay ==
  ASSUME TreeInv, [Next]_vars, NEW s \in Splitters, Started(s), PivotedAt(arr, s, mid[s])
  PROVE  PivotedAt(arr', s, mid[s]) \/ \E q \in Below(s) : pc'[q] = "signal"
<1> DEFINE a == SorterOf(s)
           m == mid[s]
<1>1. a \in Sorters /\ SplitterOf(a) = s /\ a[2] = s[2] /\ a[3] = s[3]
  BY Pairs
<1>2. m \in Region(a[2], a[3]) /\ Started(a)
  BY <1>1, TreeFacts DEF SplitterControl, SorterControl, Started, Ended
<1> HIDE DEF a
<1>3. CASE arr' = arr
  BY <1>3
<1>4. ASSUME NEW w \in Sorters, Writes(w), pc'[w] # "signal" \/ w \notin Below(s)
      PROVE PivotedAt(arr', s, mid[s])
  <2>1. a # w
    BY <1>1, <1>4, TreeFacts DEF Writes, SorterControl, Started, Ended
  <2>2. Apart(w, a) \/ InPart(pid, w, a)
    BY <1>1, <1>2, <1>4, <2>1, WriterPlace DEF Writes
  <2>3. /\ a[2] \in Nat /\ a[3] \in Nat /\ a[3] <= N /\ a[2] <= m /\ m < a[3] /\ m \in Nat
        /\ w[2] \in Nat /\ w[3] \in Nat /\ w[3] <= N /\ w[2] <= w[3]
    BY <1>1, <1>2, Bounds DEF Region
  <2>4. arr \in [Index -> Values] /\ arr' \in [Index -> Values] /\ OnlyTouched(arr', arr, w[2], w[3])
    BY <1>4, TreeFacts, Types DEF Writes
  <2> HIDE DEF m
  <2>5. CASE Apart(w, a)
    <3>1. \A i \in Region(a[2], a[3]) : i \in Index /\ i \notin Region(w[2], w[3])
      BY <2>3, <2>5 DEF Apart, Region, Index
    <3>2. \A i \in Region(a[2], a[3]) : arr'[i] = arr[i]
      BY <2>4, <3>1 DEF OnlyTouched
    <3>3. \A i \in Region(a[2], m) \cup Region(m + 1, a[3]) \cup {m} : i \in Region(a[2], a[3])
      BY <2>3 DEF Region
    <3> QED BY <1>1, <3>2, <3>3 DEF PivotedAt, m
  <2>6. CASE InPart(pid, w, a)
    <3>1. PICK x \in Sides : pid[s][x] # Failed /\ Within(w, pid[s][x])
      BY <1>1, <2>6 DEF InPart
    <3>2. /\ pid[s][x][2] = IF x = "left" THEN a[2] ELSE m + 1
          /\ pid[s][x][3] = IF x = "left" THEN m ELSE a[3]
      BY <1>1, <3>1, TreeFacts, ChildPlace DEF m
    <3>3. /\ x = "left" => a[2] <= w[2] /\ w[3] <= m
          /\ x = "right" => m + 1 <= w[2] /\ w[3] <= a[3]
      BY <3>1, <3>2 DEF Within
    <3>4. w \in Below(s)
      <4>1. w \in Below(a) /\ w # s
        BY <1>1, <2>1, <2>6, PartPlace, Kinds DEF Within, Below, Sorters
      <4> QED BY <1>1, <4>1, BelowSplitter
    <3>5. IsPermutation(arr', arr)
      BY <1>4, <3>4 DEF Writes
    <3>6. \A i \in Region(w[2], w[3]) : \E j \in Region(w[2], w[3]) : arr'[i] = arr[j]
      BY <2>3, <2>4, <3>5, Shuffled
    <3>7. \A i \in Index \ Region(w[2], w[3]) : arr'[i] = arr[i]
      BY <2>4 DEF OnlyTouched
    <3>8. m \in Index /\ m \notin Region(w[2], w[3]) /\ arr'[m] = arr[m]
      <4>1. m \in Index /\ m \notin Region(w[2], w[3])
        BY <2>3, <3>3 DEF Sides, Region, Index
      <4> QED BY <3>7, <4>1
    <3>9. ASSUME NEW i \in Region(a[2], m) PROVE arr'[i] <= arr'[m]
      <4>1. CASE i \in Region(w[2], w[3])
        <5>1. PICK j \in Region(w[2], w[3]) : arr'[i] = arr[j]
          BY <3>6, <4>1
        <5>2. j \in Region(a[2], m)
          BY <2>3, <3>3, <4>1 DEF Sides, Region
        <5> QED BY <1>1, <3>8, <5>1, <5>2 DEF PivotedAt, m
      <4>2. CASE i \notin Region(w[2], w[3])
        <5>1. i \in Index
          BY <2>3 DEF Region, Index
        <5> QED BY <1>1, <3>7, <3>8, <4>2, <5>1 DEF PivotedAt, m
      <4> QED BY <4>1, <4>2
    <3>10. ASSUME NEW i \in Region(m + 1, a[3]) PROVE arr'[m] <= arr'[i]
      <4>1. CASE i \in Region(w[2], w[3])
        <5>1. PICK j \in Region(w[2], w[3]) : arr'[i] = arr[j]
          BY <3>6, <4>1
        <5>2. j \in Region(m + 1, a[3])
          BY <2>3, <3>3, <4>1 DEF Sides, Region
        <5> QED BY <1>1, <3>8, <5>1, <5>2 DEF PivotedAt, m
      <4>2. CASE i \notin Region(w[2], w[3])
        <5>1. i \in Index
          BY <2>3 DEF Region, Index
        <5> QED BY <1>1, <3>7, <3>8, <4>2, <5>1 DEF PivotedAt, m
      <4> QED BY <4>1, <4>2
    <3> QED BY <1>1, <3>9, <3>10 DEF PivotedAt, m
  <2> QED BY <2>2, <2>5, <2>6
<1> QED BY <1>3, <1>4, ArrayChanges

\* Every step keeps what was partitioned and what was sorted.
LEMMA NextSorted ==
  ASSUME TreeInv, WaitInv, Settled, SortedInv, [Next]_vars
  PROVE  SortedInv'
<1>0. TypeOK /\ arr \in [Index -> Values] /\ TreeInv'
  BY TreeFacts, Types, NextTree
<1>1. ASSUME NEW p \in Sorters, pc'[p] = "fork" PROVE PivotedAt(arr', p, mid'[p])
  <2>1. CASE Partition(p)
    <3>1. PICK m \in Region(p[2], p[3]) : mid' = [mid EXCEPT ![p] = m]
                                        /\ IsPartition(arr', arr, p[2], p[3], m)
      BY <2>1 DEF Partition
    <3>2. mid'[p] = m
      BY <1>0, <3>1, Kinds DEF TypeOK
    <3>a. arr' \in [Index -> Values]
      <4>1. TypeOK'
        BY <1>0 DEF TreeInv
      <4> QED BY <4>1 DEF TypeOK
    <3>3. arr' \in [Index -> Values] /\ m \in Index /\ m \in Nat /\ p[2] <= m /\ p[2] \in Nat
          /\ p[3] \in Nat /\ p[3] <= N
      BY <3>a, Bounds, Kinds DEF Region, Index
    <3>4. ASSUME NEW i \in Region(p[2], m) PROVE arr'[i] <= arr'[m]
      <4>1. i \in Index
        BY <3>3 DEF Region, Index
      <4>2. arr'[i] < arr'[m] /\ arr'[i] \in Int /\ arr'[m] \in Int
        BY <3>1, <3>3, <4>1 DEF IsPartition
      <4> QED BY <4>2
    <3>5. ASSUME NEW i \in Region(m + 1, p[3]) PROVE arr'[m] <= arr'[i]
      <4>1. i \in Index /\ i \in Region(m, p[3])
        BY <3>3 DEF Region, Index
      <4>2. arr'[i] >= arr'[m] /\ arr'[i] \in Int /\ arr'[m] \in Int
        BY <3>1, <3>3, <4>1 DEF IsPartition
      <4> QED BY <4>2
    <3> QED BY <3>2, <3>4, <3>5 DEF PivotedAt
  <2>2. CASE pc[p] = "fork" /\ pc'[p] = pc[p] /\ mid'[p] = mid[p]
    <3>1. PivotedAt(arr, p, mid[p]) /\ Started(p) /\ ~Started(SplitterOf(p))
          /\ mid[p] \in Region(p[2], p[3])
      BY <2>2, TreeFacts DEF SortedInv, SorterControl, Started, Ended
    <3>2. CASE arr' = arr
      BY <2>2, <3>1, <3>2
    <3>3. ASSUME NEW w \in Sorters, Writes(w) PROVE PivotedAt(arr', p, mid'[p])
      <4>1. Apart(w, p)
        BY <2>2, <3>1, <3>3, WriterPlace, PartPlace DEF Writes
      <4>2. \A i \in Region(p[2], p[3]) : i \in Index /\ i \notin Region(w[2], w[3])
        BY <4>1, Bounds DEF Apart, Region, Index
      <4>3. \A i \in Region(p[2], p[3]) : arr'[i] = arr[i]
        BY <3>3, <4>2 DEF OnlyTouched, Writes
      <4> DEFINE m == mid[p]
      <4>4. \A i \in Region(p[2], m) \cup Region(m + 1, p[3]) \cup {m} : i \in Region(p[2], p[3])
        BY <3>1, Bounds DEF Region
      <4> HIDE DEF m
      <4>5. PivotedAt(arr', p, m)
        BY <3>1, <4>3, <4>4 DEF PivotedAt, m
      <4> QED BY <2>2, <4>5 DEF m
    <3> QED BY <3>2, <3>3, ArrayChanges
  <2>3. ASSUME NEW q \in Sorters, SorterMoves(q) PROVE PivotedAt(arr', p, mid'[p])
    <3>1. CASE q = p
      BY <1>1, <2>1, <2>3, <3>1 DEF SorterMoves
    <3>2. CASE q # p
      BY <1>0, <1>1, <2>2, <2>3, <3>2, Types, Kinds DEF SorterMoves
    <3> QED BY <3>1, <3>2
  <2>4. ASSUME NEW s \in Splitters, SplitterMoves(s) PROVE PivotedAt(arr', p, mid'[p])
    BY <1>0, <1>1, <2>2, <2>4, Types, Kinds DEF SplitterMoves
  <2>5. ASSUME NEW q \in Sorters, Fork(q) PROVE PivotedAt(arr', p, mid'[p])
    <3>1. pc[p] = pc'[p]
      BY <1>0, <1>1, <2>5, Types, Kinds DEF Fork
    <3>2. mid'[p] = mid[p]
      BY <1>0, <2>5, Kinds DEF Fork, TypeOK
    <3> QED BY <1>1, <2>2, <3>1, <3>2
  <2>6. ASSUME NEW s \in Splitters, NEW x \in Sides, ForkPart(s, x)
        PROVE  PivotedAt(arr', p, mid'[p])
    <3>1. Part(s, x) \in Sorters
      BY <2>6, TreeFacts, Fresh DEF ForkPart, At
    <3> QED BY <1>0, <1>1, <2>2, <2>6, <3>1, Types, Kinds DEF ForkPart
  <2>7. ASSUME UNCHANGED <<pc, mid>> PROVE PivotedAt(arr', p, mid'[p])
    BY <1>1, <2>2, <2>7
  <2> QED BY <2>3, <2>4, <2>5, <2>6, <2>7, TreeFacts, StepKinds DEF vars
<1>2. ASSUME NEW s \in Splitters, pc'[s] # "none"
      PROVE  PivotedAt(arr', s, mid'[s]) \/ \E q \in Below(s) : pc'[q] = "signal"
  <2>1. CASE Started(s) /\ mid'[s] = mid[s]
    <3>1. CASE PivotedAt(arr, s, mid[s])
      BY <2>1, <3>1, PartsStay
    <3>2. CASE \E q \in Below(s) : pc[q] = "signal"
      BY <3>2, EndedStays DEF Below, Ended
    <3> QED BY <2>1, <3>1, <3>2 DEF SortedInv
  <2>2. ASSUME NEW p \in Sorters, Fork(p), s = SplitterOf(p)
        PROVE  PivotedAt(arr', s, mid'[s]) \/ \E q \in Below(s) : pc'[q] = "signal"
    <3>1. pc[p] = "fork" /\ arr' = arr
      BY <2>2 DEF Fork, At
    <3>2. mid'[s] = mid[p]
      BY <1>0, <2>2, Kinds DEF Fork, TypeOK
    <3> QED BY <2>2, <3>1, <3>2, Pairs DEF SortedInv, PivotedAt
  <2>3. ASSUME NEW p \in Sorters, Fork(p), s # SplitterOf(p)
        PROVE  Started(s) /\ mid'[s] = mid[s]
    <3>1. pc'[s] = pc[s]
      BY <1>0, <2>3, Types, Kinds DEF Fork
    <3>2. mid'[s] = mid[s]
      BY <1>0, <2>3, Kinds DEF Fork, TypeOK
    <3> QED BY <1>2, <3>1, <3>2 DEF Started
  <2>4. ASSUME NEW p \in Sorters, SorterMoves(p) PROVE Started(s) /\ mid'[s] = mid[s]
    BY <1>0, <1>2, <2>4, Types, Kinds DEF SorterMoves, Started
  <2>5. ASSUME NEW t \in Splitters, SplitterMoves(t) PROVE Started(s) /\ mid'[s] = mid[s]
    BY <1>0, <1>2, <2>5, Types, Kinds DEF SplitterMoves, Started, Ended
  <2>6. ASSUME NEW t \in Splitters, NEW x \in Sides, ForkPart(t, x)
        PROVE  Started(s) /\ mid'[s] = mid[s]
    <3>1. Part(t, x) \in Sorters /\ pc[t] # "none"
      BY <2>6, TreeFacts, Fresh DEF ForkPart, At, Started
    <3> QED BY <1>0, <1>2, <2>6, <3>1, Types, Kinds DEF ForkPart, Started
  <2>7. ASSUME UNCHANGED <<pc, mid>> PROVE Started(s) /\ mid'[s] = mid[s]
    BY <1>2, <2>7 DEF Started
  <2> QED BY <2>1, <2>2, <2>3, <2>4, <2>5, <2>6, <2>7, TreeFacts, StepKinds DEF vars
<1>3. ASSUME NEW p \in Processes, pc'[p] \in {"ok", "munmap"}
      PROVE  IsSorted(arr', p[2], p[3])
  <2>1. CASE Good(p)
    BY <2>1, GoodStaysSorted DEF SortedInv
  <2>2. CASE p \in Sorters /\ SorterMoves(p) /\ ~Good(p)
    <3>1. ReturnShort(p) \/ QSort(p) \/ Wait(p)
      BY <1>3, <2>2 DEF SorterMoves, Good
    <3>2. CASE ReturnShort(p)
      <4>1. p[3] - p[2] < 2
        BY <3>2 DEF ReturnShort, Length
      <4> QED BY <2>2, <4>1, Bounds DEF IsSorted, Region
    <3>3. CASE QSort(p)
      BY <3>3 DEF QSort
    <3>4. CASE Wait(p)
      <4>1. arr' = arr /\ pc'[p] = Return(p, pc[SplitterOf(p)] = "ok")
        BY <1>0, <3>4, Types DEF Wait, Goto
      <4>2. Good(SplitterOf(p))
        BY <1>3, <4>1 DEF Return, Good
      <4> QED BY <2>2, <4>1, <4>2, Pairs, Kinds DEF SortedInv
    <3> QED BY <3>1, <3>2, <3>3, <3>4
  <2>3. CASE p \in Splitters /\ SplitterMoves(p)
    <3>1. ASSUME NEW x \in Sides, ForkPartFails(p, x) \/ WaitPart(p, x) \/ WaitPartFails(p, x)
          PROVE  pc'[p] \notin {"munmap"} \cup Ended
      BY <1>0, <3>1, Types
         DEF ForkPartFails, WaitPart, WaitPartFails, Goto, AfterFork, AfterWait, Ended
    <3>2. Check(p)
      BY <1>3, <2>3, <3>1 DEF SplitterMoves, Ended
    <3>3. pc'[p] = "ok" /\ arr' = arr
      BY <1>0, <1>3, <3>2, Types DEF Check, Goto
    <3> QED BY <2>3, <3>2, <3>3, CheckSorts
  <2>4. ASSUME NEW q \in Processes, q # p, SorterMoves(q) \/ SplitterMoves(q) PROVE Good(p)
    BY <1>0, <1>3, <2>4, Types DEF SorterMoves, SplitterMoves, Good
  <2>5. ASSUME NEW q \in Sorters, Fork(q) PROVE Good(p)
    BY <1>0, <1>3, <2>5, Types, Kinds DEF Fork, Good
  <2>6. ASSUME NEW s \in Splitters, NEW x \in Sides, ForkPart(s, x) PROVE Good(p)
    <3>1. Part(s, x) \in Processes
      BY <2>6, TreeFacts, Fresh, Kinds DEF ForkPart, At
    <3> QED BY <1>0, <1>3, <2>6, <3>1, Types, Kinds DEF ForkPart, AfterFork, Good
  <2>7. ASSUME UNCHANGED pc PROVE Good(p)
    BY <1>3, <2>7 DEF Good
  <2> QED BY <2>1, <2>2, <2>3, <2>4, <2>5, <2>6, <2>7, Kinds, TreeFacts, StepKinds DEF vars
<1> QED BY <1>1, <1>2, <1>3 DEF SortedInv, Started, Good, Below

\* At first nothing was partitioned or sorted.
LEMMA InitSorted == Init => SortedInv
<1> SUFFICES ASSUME Init PROVE SortedInv
  OBVIOUS
<1>1. \A p \in Processes : pc[p] \in {"none", "open"}
  BY DEF Init
<1>2. \A s \in Splitters : ~Started(s)
  BY Kinds DEF Init, Started
<1> QED BY <1>1, <1>2, Kinds DEF SortedInv, Good

-----------------------------------------------------------------------------
\* While nobody was killed, the array has the elements it had.
PermInv == (\A p \in Processes : pc[p] # "signal") => IsPermutation(arr, input)

\* No step but a death changes which elements there are.
LEMMA NextPerm ==
  ASSUME TreeInv, PermInv, [Next]_vars
  PROVE  PermInv'
<1> SUFFICES ASSUME \A p \in Processes : pc'[p] # "signal" PROVE IsPermutation(arr', input')
  BY DEF PermInv
<1>1. IsPermutation(arr, input) /\ input' = input
  BY TreeFacts, EndedStays, History DEF PermInv, Ended
<1>2. arr' = arr \/ IsPermutation(arr', arr)
  BY ArrayChanges, Kinds DEF Writes
<1> QED BY <1>1, <1>2 DEF IsPermutation

\* At first the array has the elements it has.
LEMMA InitPerm == Init => PermInv
BY DEF Init, PermInv, IsPermutation

-----------------------------------------------------------------------------
(***************************************************************************)
(* After main has ended: nobody writes any more, and is_sorted judges what *)
(* is there.                                                               *)
(***************************************************************************)

\* Once main has ended well, or badly with nobody killed, the array is left alone.
LEMMA MainOver ==
  ASSUME TreeInv, Settled, [Next]_vars, Over(Main)
  PROVE  arr' = arr
<1> SUFFICES ASSUME NEW w \in Sorters, Writes(w) PROVE FALSE
  BY ArrayChanges
<1>1. w # Main
  BY <1>1 DEF Writes, Over, Good, Ended
<1>2. w \in Below(Main)
  <2>1. w[2] \in Nat /\ w[3] \in Nat /\ w[3] <= N
    BY Bounds
  <2>2. 0 <= w[2]
    BY <2>1
  <2> QED BY <1>1, <2>1, <2>2, Kinds DEF Below, Main
<1>3. pc[w] \in Ended
  BY <1>2, Kinds DEF Settled, SettledAt, Started, Writes
<1> QED BY <1>3 DEF Writes, Ended

\* What is_sorted knows of the elements it has read, and what its verdict means.
CheckerKnows ==
  /\ checker.says = "nothing" =>
       /\ IsSorted(arr, 0, checker.read)
       /\ checker.read > 0 => checker.prev = arr[checker.read - 1]
  /\ checker.says = "sorted" => IsSorted(arr, 0, N)
  /\ checker.says = "not sorted" => ~IsSorted(arr, 0, N)
  /\ checker.says = "empty" => N = 0

\* While nobody is killed, is_sorted reads an array that nobody writes.
CheckerInv ==
  kills = 0 =>
    /\ checker.read > 0 \/ checker.says # "nothing" => pc[Main] \in Ended
    /\ CheckerKnows

\* A sorted prefix grows by an element that is no less than its last.
LEMMA PrefixGrows ==
  ASSUME NEW a \in [Index -> Values], NEW n \in 0 .. N, n < N, IsSorted(a, 0, n),
         n > 0 => a[n - 1] <= a[n]
  PROVE  IsSorted(a, 0, n + 1)
<1> SUFFICES ASSUME NEW i \in Region(0, n + 1), NEW j \in Region(0, n + 1), i < j
             PROVE  a[i] <= a[j]
  BY DEF IsSorted
<1>1. i \in Index /\ j \in Index /\ i \in Region(0, n) /\ n \in Index
  BY DEF Region, Index
<1>2. a[i] \in Int /\ a[j] \in Int /\ a[n] \in Int
  BY <1>1
<1>3. CASE j < n
  <2>1. j \in Region(0, n)
    BY <1>3 DEF Region
  <2> QED BY <1>1, <2>1 DEF IsSorted
<1>4. CASE j = n
  <2>1. n - 1 \in Region(0, n) /\ n - 1 \in Index
    BY <1>1, <1>4 DEF Region, Index
  <2>2. i = n - 1 \/ i < n - 1
    BY <1>1, <1>4 DEF Region
  <2>a. a[n - 1] \in Int
    BY <2>1
  <2>3. a[i] <= a[n - 1]
    BY <1>1, <1>2, <2>a, <2>1, <2>2 DEF IsSorted
  <2>4. a[n - 1] <= a[n]
    BY <1>1, <1>4 DEF Region
  <2> QED BY <1>2, <1>4, <2>a, <2>3, <2>4
<1> QED BY <1>3, <1>4 DEF Region

\* Only is_sorted changes what it knows.
LEMMA CheckerSteps ==
  ASSUME [Next]_vars
  PROVE  checker' = checker \/ ReadElement \/ ReadEnd
<1> USE DEF historyVars, splitVars
<1>1. ASSUME NEW p \in Processes, Kill(p) PROVE checker' = checker
  BY <1>1 DEF Kill, Die
<1>2. ASSUME NEW p \in Sorters, Sorts(p) PROVE checker' = checker
  BY <1>2, Zenon
     DEF Sorts, ReturnShort, Choose, QSort, Partition, GoWild, Segfault, Die, Fork,
                     ForkFails, Wait
<1>3. ASSUME NEW s \in Splitters, Splits(s) PROVE checker' = checker
  BY <1>3, Zenon DEF Splits, ForkPart, ForkPartFails, WaitPart, WaitPartFails, Check
<1>4. CASE RunsMain
  BY <1>4 DEF RunsMain, Open, Fstat, Mmap, Munmap, SystemCallFails
<1>5. CASE UNCHANGED vars
  BY <1>5 DEF vars
<1> QED BY <1>1, <1>2, <1>3, <1>4, <1>5 DEF Next

\* Every step of parsort and of is_sorted keeps the verdict true.
LEMMA NextChecker ==
  ASSUME TreeInv, Settled, CheckerInv, [Next]_vars
  PROVE  CheckerInv'
<1> SUFFICES ASSUME kills' = 0
             PROVE  /\ checker'.read > 0 \/ checker'.says # "nothing" => pc'[Main] \in Ended
                    /\ CheckerKnows'
  BY DEF CheckerInv
<1>1. /\ kills = 0 /\ CheckerKnows
      /\ checker.read > 0 \/ checker.says # "nothing" => pc[Main] \in Ended
  BY TreeFacts, History DEF CheckerInv
<1>2. pc[Main] \in Ended => pc'[Main] \in Ended /\ arr' = arr
  BY <1>1, EndedStays, MainOver, Kinds DEF Over
<1>3. /\ arr \in [Index -> Values]
      /\ checker \in [read : 0 .. N, prev : Int, says : {"nothing", "sorted", "not sorted", "empty"}]
  BY TreeFacts, Types DEF TreeInv, CheckerType
<1>a. checker.read \in 0 .. N /\ checker.prev \in Int
  BY <1>3
<1>4. CASE checker' = checker
  <2>1. CASE pc[Main] \in Ended
    BY <1>1, <1>2, <1>4, <2>1 DEF CheckerKnows, IsSorted
  <2>2. CASE pc[Main] \notin Ended
    <3>1. checker.read = 0 /\ checker.says = "nothing"
      BY <1>1, <1>a, <2>2
    <3>2. IsSorted(arr', 0, 0)
      BY DEF IsSorted, Region
    <3> QED BY <1>4, <2>2, <3>1, <3>2 DEF CheckerKnows
  <2> QED BY <2>1, <2>2
<1>5. CASE ReadElement
  <2> DEFINE n == checker.read
  <2>1. /\ pc[Main] \in Ended /\ checker.says = "nothing" /\ n \in 0 .. N /\ n < N /\ n \in Index
    BY <1>a, <1>5 DEF ReadElement, Index
  <2>b. n > 0 => n - 1 \in Index
    BY <2>1 DEF Index
  <2>c. arr[n] \in Int /\ (n > 0 => arr[n - 1] \in Int)
    BY <1>3, <2>1, <2>b
  <2>2. /\ IsSorted(arr, 0, n) /\ arr[n] \in Int
        /\ n > 0 => n - 1 \in Index /\ checker.prev = arr[n - 1] /\ arr[n - 1] \in Int
    BY <1>1, <2>1, <2>b, <2>c DEF CheckerKnows
  <2>3. CASE n > 0 /\ arr[n] < checker.prev
    <3>1. checker'.read = n + 1 /\ checker'.says = "not sorted"
      BY <1>3, <1>5, <2>3 DEF ReadElement
    <3>2. n \in Region(0, N) /\ n - 1 \in Region(0, N) /\ n - 1 < n
      BY <2>1, <2>3 DEF Region
    <3>3. ~ (arr[n - 1] <= arr[n])
      BY <2>2, <2>3
    <3>4. ~IsSorted(arr, 0, N)
      BY <3>2, <3>3 DEF IsSorted
    <3> QED BY <1>2, <2>1, <3>1, <3>4 DEF CheckerKnows
  <2>4. CASE ~(n > 0 /\ arr[n] < checker.prev)
    <3>1. checker'.read = n + 1 /\ checker'.says = "nothing" /\ checker'.prev = arr[n]
      BY <1>3, <1>5, <2>1, <2>4 DEF ReadElement
    <3>2. n > 0 => arr[n - 1] <= arr[n]
      BY <2>2, <2>4
    <3>3. IsSorted(arr, 0, n + 1)
      BY <1>3, <2>1, <2>2, <3>2, PrefixGrows
    <3>4. (n + 1) - 1 = n
      BY <2>1
    <3> QED BY <1>2, <2>1, <3>1, <3>3, <3>4 DEF CheckerKnows
  <2> QED BY <2>3, <2>4
<1>6. CASE ReadEnd
  <2>1. pc[Main] \in Ended /\ checker.says = "nothing" /\ checker.read = N
        /\ checker' = [checker EXCEPT !.says = IF N = 0 THEN "empty" ELSE "sorted"]
    BY <1>6 DEF ReadEnd
  <2>2. checker'.says = IF N = 0 THEN "empty" ELSE "sorted"
    BY <1>3, <2>1
  <2> QED BY <1>1, <1>2, <2>1, <2>2 DEF CheckerKnows
<1> QED BY <1>4, <1>5, <1>6, CheckerSteps

\* At first is_sorted has read nothing.
LEMMA InitChecker == Init => CheckerInv
BY DEF Init, CheckerInv, CheckerKnows, IsSorted, Region

-----------------------------------------------------------------------------
(***************************************************************************)
(* The invariant, and what follows from it.                                *)
(***************************************************************************)

\* The inductive invariant.
IndInv == TreeInv /\ WaitInv /\ Settled /\ SortedInv /\ PermInv /\ CheckerInv

\* What holds of the processes, of the array and of the verdict holds always.
THEOREM Invariance == SafeSpec => []IndInv
<1>1. Init => IndInv
  BY InitTree, InitWaits, InitSettled, InitSorted, InitPerm, InitChecker DEF IndInv
<1>2. IndInv /\ [Next]_vars => IndInv'
  <2> SUFFICES ASSUME IndInv, [Next]_vars PROVE IndInv'
    OBVIOUS
  <2>1. TreeInv /\ WaitInv /\ Settled /\ SortedInv /\ PermInv /\ CheckerInv
    BY DEF IndInv
  <2>2. TreeInv' /\ Settled' /\ SortedInv' /\ PermInv' /\ CheckerInv'
    BY <2>1, NextTree, NextSettled, NextSorted, NextPerm, NextChecker
  <2>3. WaitInv'
    BY <2>1, NextWaits, NextCause DEF WaitInv
  <2> QED BY <2>2, <2>3 DEF IndInv
<1> QED BY <1>1, <1>2, PTL DEF SafeSpec

\* Every variable has its type.
THEOREM TypeCorrect == SafeSpec => []TypeOK
<1>1. IndInv => TypeOK
  BY DEF IndInv, TreeInv
<1> QED BY <1>1, Invariance, PTL

\* Two processes never write the same element at a time.
THEOREM NoOverlapHolds == SafeSpec => []NoOverlap
<1>1. IndInv => NoOverlap
  BY TreeNoOverlap DEF IndInv
<1> QED BY <1>1, Invariance, PTL

\* A process that has ended well has sorted its region, and everybody below it
\* has ended well too and was waited for.
THEOREM SuccessIsCompleteHolds == SafeSpec => []SuccessIsComplete
<1>1. IndInv => SuccessIsComplete
  <2> SUFFICES ASSUME IndInv, NEW p \in Processes, pc[p] = "ok"
               PROVE  /\ IsSorted(arr, p[2], p[3])
                      /\ \A q \in Below(p) : pc[q] = "none" \/ (pc[q] = "ok" /\ q \in reaped)
    BY DEF SuccessIsComplete
  <2>1. Good(p) /\ Over(p)
    BY DEF Good, Over
  <2> QED BY <2>1 DEF IndInv, SortedInv, Settled, SettledAt, Started
<1> QED BY <1>1, Invariance, PTL

\* A process that ends by itself leaves no child behind.
THEOREM NoChildLeftHolds == SafeSpec => []NoChildLeft
<1>1. IndInv => NoChildLeft
  BY TreeNoChildLeft DEF IndInv
<1> QED BY <1>1, Invariance, PTL

\* quicksort fails only when a fork fails or a process is killed.
THEOREM FailureHasCauseHolds == SafeSpec => []FailureHasCause
<1>1. IndInv => FailureHasCause
  BY DEF IndInv, WaitInv
<1> QED BY <1>1, Invariance, PTL

\* While nobody is killed is_sorted says what is true of the array.
THEOREM VerdictIsTrueHolds == SafeSpec => []VerdictIsTrue
<1>1. IndInv => VerdictIsTrue
  <2> SUFFICES ASSUME IndInv, kills = 0, checker.says # "nothing", N > 0
               PROVE  checker.says = "sorted" <=> IsSorted(arr, 0, N)
    BY DEF VerdictIsTrue
  <2>1. CheckerKnows /\ checker.says \in {"nothing", "sorted", "not sorted", "empty"}
    BY DEF IndInv, CheckerInv, TreeInv, CheckerType
  <2>2. N # 0
    OBVIOUS
  <2> QED BY <2>1, <2>2 DEF CheckerKnows
<1> QED BY <1>1, Invariance, PTL

-----------------------------------------------------------------------------
(***************************************************************************)
(* The refinement: Munmap is Succeed, main's other ends are Fail, and what *)
(* any process writes before, or after a failure, is Write.                *)
(***************************************************************************)

\* main ends well by unmapping the file, with the array sorted.
LEMMA MainSucceeds ==
  ASSUME IndInv, IndInv', [Next]_vars, pc[Main] # "ok", pc'[Main] = "ok"
  PROVE  /\ pc[Main] = "munmap" /\ arr' = arr
         /\ IsSorted(arr, 0, N) /\ IsPermutation(arr, input)
<1>1. TreeInv /\ Settled /\ SortedInv /\ TypeOK
  BY TreeFacts DEF IndInv
<1>2. pc[Main] = "munmap"
  <2>1. ASSUME NEW p \in Sorters, SorterMoves(p) PROVE pc[Main] = "munmap"
    <3>1. p = Main
      BY <1>1, <2>1, Types, Kinds DEF SorterMoves
    <3>2. Main \in Processes
      BY Kinds
    <3>3. pc'[Main] = "munmap" \/ pc[Main] = "munmap"
      <4>1. CASE ReturnShort(Main) \/ QSort(Main)
        BY <1>1, <3>2, <4>1, Types DEF ReturnShort, QSort, Goto, Return
      <4>2. CASE Wait(Main)
        BY <1>1, <3>2, <4>2, Types DEF Wait, Goto, Return
      <4> QED BY <2>1, <3>1, <4>1, <4>2 DEF SorterMoves
    <3> QED BY <3>3
  <2>2. ASSUME NEW p \in Sorters, Fork(p) PROVE FALSE
    BY <1>1, <2>2, Types, Kinds DEF Fork
  <2>3. ASSUME NEW s \in Splitters, SplitterMoves(s) PROVE FALSE
    BY <1>1, <2>3, Types, Kinds DEF SplitterMoves
  <2>4. ASSUME NEW s \in Splitters, NEW x \in Sides, ForkPart(s, x) PROVE FALSE
    <3>1. Part(s, x) \in Sorters
      BY <1>1, <2>4, TreeFacts, Fresh DEF ForkPart, At
    <3> QED BY <1>1, <2>4, <3>1, Types, Kinds DEF ForkPart
  <2> QED BY <1>1, <2>1, <2>2, <2>3, <2>4, TreeFacts, StepKinds DEF vars
<1>3. Good(Main) /\ Over(Main)
  BY <1>2 DEF Good, Over
<1>4. arr' = arr
  BY <1>1, <1>3, MainOver
<1>5. IsSorted(arr, 0, N)
  <2>1. IsSorted(arr, Main[2], Main[3])
    BY <1>1, <1>3, Kinds DEF SortedInv
  <2> QED BY <2>1 DEF Main
<1>6. \A q \in Processes : pc[q] # "signal"
  <2>1. ASSUME NEW q \in Processes, q # Main, pc[q] = "signal" PROVE FALSE
    <3>1. q[2] \in Nat /\ q[3] \in Nat /\ q[3] <= N /\ 0 <= q[2]
      BY ProcessParts
    <3>2. q \in Below(Main)
      BY <2>1, <3>1 DEF Below, Main
    <3> QED BY <1>1, <1>3, <2>1, <3>2, Kinds DEF Settled, SettledAt, Started
  <2> QED BY <1>2, <2>1
<1> QED BY <1>2, <1>4, <1>5, <1>6 DEF IndInv, PermInv

\* Every step of parsort is a step of Sorting or leaves it as it is.
LEMMA SortStep == IndInv /\ IndInv' /\ [Next]_vars => [Sort!Next]_(Sort!vars)
<1> SUFFICES ASSUME IndInv, IndInv', [Next]_vars PROVE [Sort!Next]_(Sort!vars)
  OBVIOUS
<1>1. /\ input' = input
      /\ pc[Main] \in Ended => pc'[Main] = pc[Main]
  BY TreeFacts, History, EndedStays, Kinds DEF IndInv
<1>2. arr' \in [Index -> Values]
  <2>1. TypeOK'
    BY DEF IndInv, TreeInv
  <2> QED BY <2>1 DEF TypeOK
<1>3. CASE pc[Main] = "ok"
  <2>1. arr' = arr
    BY <1>3, MainOver DEF IndInv, Over, Good
  <2> QED BY <1>1, <1>3, <2>1 DEF Sort!vars, Ended
<1>4. CASE pc[Main] \in {"failed", "signal"}
  <2>1. Sort!Write
    BY <1>1, <1>2, <1>4 DEF Sort!Write, Sort!Index, Index, Ended
  <2> QED BY <2>1 DEF Sort!Next
<1>5. CASE pc[Main] \notin Ended /\ pc'[Main] = "ok"
  <2>0. \A S : Sort!Cardinality(S) = Cardinality(S)
    BY DEF Sort!Cardinality, Cardinality
  <2>1. Sort!Succeed
    BY <1>1, <1>5, <2>0, MainSucceeds
       DEF Sort!Succeed, Sort!IsSorted, Sort!IsPermutation, Sort!Places, Sort!Index, Sort!Region,
           IsSorted, IsPermutation, Places, Index, Region, Ended
  <2> QED BY <2>1 DEF Sort!Next
<1>6. CASE pc[Main] \notin Ended /\ pc'[Main] \in {"failed", "signal"}
  <2>1. Sort!Fail
    BY <1>1, <1>2, <1>6 DEF Sort!Fail, Sort!Index, Index, Ended
  <2> QED BY <2>1 DEF Sort!Next
<1>7. CASE pc[Main] \notin Ended /\ pc'[Main] \notin Ended
  <2>1. Sort!Write
    BY <1>1, <1>2, <1>7 DEF Sort!Write, Sort!Index, Index, Ended
  <2> QED BY <2>1 DEF Sort!Next
<1> QED BY <1>3, <1>4, <1>5, <1>6, <1>7 DEF Ended

\* What main reports is true, although any process below it may fail to fork or
\* be killed.
THEOREM ImplementsSorting == SafeSpec => SortSpec
<1>1. Init => Sort!Init
  BY Kinds DEF Init, Sort!Init, Sort!Index, Index
<1> QED BY <1>1, SortStep, Invariance, PTL DEF SafeSpec, SortSpec, Sort!Spec

=============================================================================
