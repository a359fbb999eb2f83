------------------------------- MODULE ParSort -------------------------------
(***************************************************************************)
(* The processes of parsort.c.  quicksort of a long region partitions it,  *)
(* forks and waits; the child forks once for each of the two parts, each   *)
(* of which calls quicksort again, and waits for both.  The array is       *)
(* mapped shared, so that all write the same memory.                       *)
(*                                                                         *)
(* main maps the file before and unmaps it after, and is_sorted may be run *)
(* on the file once main has ended.                                        *)
(*                                                                         *)
(* A process is named by what it does and the region it does it to: a      *)
(* "sort" process calls quicksort, a "split" process is the child forked   *)
(* in it.  partition and qsort are a step each, and a process that is      *)
(* killed in the middle of one leaves anything in its region.              *)
(***************************************************************************)
EXTENDS Arrays

CONSTANTS
  Inputs,          \* the arrays to sort
  Rests,           \* numbers of bytes a file may have behind its last element
  par_threshold,
  MaxKills         \* bound: number of processes killed from outside

ASSUME ParSortAssumption ==
  /\ Inputs \subseteq [Index -> Values]
  /\ Rests \subseteq 0 .. 7
  /\ par_threshold \in Nat
  /\ MaxKills \in Nat

Regions == {r \in (0 .. N) \X (0 .. N) : r[1] <= r[2]}
Processes == {<<k, r[1], r[2]>> : k \in {"sort", "split"}, r \in Regions}
Sorters == {p \in Processes : p[1] = "sort"}
Splitters == {p \in Processes : p[1] = "split"}
Main == <<"sort", 0, N>>

Sides == {"left", "right"}

\* A pid_t of -1.
Failed == <<>>

VARIABLES
  input,     \* the array before
  rest,      \* the number of bytes behind it in the file
  arr,
  pc,        \* what each process does next, or how it ended
  mid,       \* mid[p]: where p's region is split
  pid,       \* pid[p][side]: the child that p forked for a side
  exit,      \* exit[p][side]: how that child ended, "unknown" (-1) at first
  reaped,    \* processes that were waited for
  kills,     \* number of processes killed from outside
  faults,    \* has a system call failed or a process been killed by a signal?
  wild,      \* has partition gone on outside the array?
  checker    \* is_sorted: the elements read, the last of them, and what it says

vars == <<input, rest, arr, pc, mid, pid, exit, reaped, kills, faults, wild, checker>>

\* Ends of a process: exit(0), exit(1), or a signal.
Ended == {"ok", "failed", "signal"}
MainPC == {"open", "fstat", "mmap", "munmap"}
SortPC == {"quicksort", "qsort", "partition", "fork", "wait"}
SplitPC == {"fork left", "fork right", "wait left", "wait right", "check"}

TypeOK ==
  /\ input \in Inputs
  /\ rest \in Rests
  /\ arr \in [Index -> Values]
  /\ pc \in [Processes -> {"none"} \cup MainPC \cup SortPC \cup SplitPC \cup Ended]
  /\ mid \in [Processes -> 0 .. N]
  /\ pid \in [Splitters -> [Sides -> Sorters \cup {Failed}]]
  /\ exit \in [Splitters -> [Sides -> Ended \cup {"unknown"}]]
  /\ reaped \subseteq Processes
  /\ kills \in 0 .. MaxKills
  /\ faults \in BOOLEAN
  /\ wild \in BOOLEAN
  /\ checker.read \in 0 .. N
  /\ checker.read > 0 => checker.prev \in Values
  /\ checker.says \in {"nothing", "sorted", "not sorted", "empty"}

Init ==
  /\ input \in Inputs
  /\ rest \in Rests
  /\ arr = input
  /\ pc = [p \in Processes |-> IF p = Main THEN "open" ELSE "none"]
  /\ mid = [p \in Processes |-> 0]
  /\ pid = [p \in Splitters |-> [x \in Sides |-> Failed]]
  /\ exit = [p \in Splitters |-> [x \in Sides |-> "unknown"]]
  /\ reaped = {}
  /\ kills = 0
  /\ faults = FALSE
  /\ wild = FALSE
  /\ checker = [read |-> 0, prev |-> 0, says |-> "nothing"]

-----------------------------------------------------------------------------
Length(p) == p[3] - p[2]

\* Nothing is said of what comes after partition has gone on outside the array.
At(p, place) == pc[p] = place /\ ~wild
Goto(p, from, to) == At(p, from) /\ pc' = [pc EXCEPT ![p] = to]

splitVars == <<pid, exit>>
historyVars == <<input, rest, kills, faults, wild, checker>>

(***************************************************************************)
(* main, before and after quicksort.                                       *)
(***************************************************************************)
Open ==
  /\ Goto(Main, "open", "fstat")
  /\ UNCHANGED <<arr, mid, splitVars, reaped, historyVars>>

\* fstat succeeds, and main looks at the size.
Fstat ==
  /\ Goto(Main, "fstat", IF rest = 0 THEN "mmap" ELSE "failed")
  /\ UNCHANGED <<arr, mid, splitVars, reaped, historyVars>>

\* An empty file is not mapped.
Mmap ==
  /\ N > 0
  /\ Goto(Main, "mmap", "quicksort")
  /\ UNCHANGED <<arr, mid, splitVars, reaped, historyVars>>

Munmap ==
  /\ Goto(Main, "munmap", "ok")
  /\ UNCHANGED <<arr, mid, splitVars, reaped, historyVars>>

SystemCallFails ==
  /\ \E place \in MainPC : Goto(Main, place, "failed")
  /\ faults' = TRUE
  /\ UNCHANGED <<input, rest, arr, mid, splitVars, reaped, kills, wild, checker>>

\* What follows when quicksort returns 1, or 0, to the process that called it.
Return(p, success) ==
  IF ~success THEN "failed" ELSE IF p = Main THEN "munmap" ELSE "ok"

(***************************************************************************)
(* quicksort, in the process that calls it: main, or a child of            *)
(* quicksort_subproc, which ends with what it returns.                     *)
(***************************************************************************)

ReturnShort(p) ==
  /\ Length(p) < 2
  /\ Goto(p, "quicksort", Return(p, TRUE))
  /\ UNCHANGED <<arr, mid, splitVars, reaped, historyVars>>

Choose(p) ==
  /\ Length(p) >= 2
  /\ Goto(p, "quicksort", IF Length(p) <= par_threshold THEN "qsort" ELSE "partition")
  /\ UNCHANGED <<arr, mid, splitVars, reaped, historyVars>>

QSort(p) ==
  /\ Goto(p, "qsort", Return(p, TRUE))
  /\ arr' \in {a \in Rewrites(arr, p[2], p[3]) : IsSorted(a, p[2], p[3])
                                                  /\ IsPermutation(a, arr)}
  /\ UNCHANGED <<mid, splitVars, reaped, historyVars>>

\* Module Partition shows what partition returns, and when it does not.
Partition(p) ==
  /\ ~HasNoStop(arr, p[2], p[3])
  /\ Goto(p, "partition", "fork")
  /\ \E m \in Region(p[2], p[3]) :
       /\ mid' = [mid EXCEPT ![p] = m]
       /\ arr' \in {a \in Rewrites(arr, p[2], p[3]) : IsPartition(a, arr, p[2], p[3], m)}
  /\ UNCHANGED <<splitVars, reaped, historyVars>>

\* Outside the array anything may happen.
GoWild(p) ==
  /\ At(p, "partition")
  /\ HasNoStop(arr, p[2], p[3])
  /\ wild' = TRUE
  /\ UNCHANGED <<input, rest, arr, pc, mid, splitVars, reaped, kills, faults, checker>>

SplitterOf(p) == <<"split", p[2], p[3]>>

\* The child inherits mid.
Fork(p) ==
  /\ At(p, "fork")
  /\ pc' = [pc EXCEPT ![p] = "wait", ![SplitterOf(p)] = "fork left"]
  /\ mid' = [mid EXCEPT ![SplitterOf(p)] = mid[p]]
  /\ UNCHANGED <<arr, splitVars, reaped, historyVars>>

ForkFails(p) ==
  /\ Goto(p, "fork", Return(p, FALSE))
  /\ faults' = TRUE
  /\ UNCHANGED <<input, rest, arr, mid, splitVars, reaped, kills, wild, checker>>

\* Mutant: the status of the child is not looked at.
WaitIgnoresStatus(p) ==
  /\ pc[SplitterOf(p)] \in Ended
  /\ Goto(p, "wait", Return(p, TRUE))
  /\ reaped' = reaped \cup {SplitterOf(p)}
  /\ UNCHANGED <<arr, mid, splitVars, historyVars>>

Wait(p) ==
  /\ pc[SplitterOf(p)] \in Ended
  /\ Goto(p, "wait", Return(p, pc[SplitterOf(p)] = "ok"))
  /\ reaped' = reaped \cup {SplitterOf(p)}
  /\ UNCHANGED <<arr, mid, splitVars, historyVars>>

-----------------------------------------------------------------------------
(***************************************************************************)
(* The child forked in quicksort.                                          *)
(***************************************************************************)

\* Mutant: the left part is taken to end where the pivot was stashed.
PartToStash(p, side) ==
  IF side = "left" THEN <<"sort", p[2], p[3] - 1>> ELSE <<"sort", mid[p] + 1, p[3]>>

\* The quicksort_subproc of a side.
Part(p, side) ==
  IF side = "left" THEN <<"sort", p[2], mid[p]>> ELSE <<"sort", mid[p] + 1, p[3]>>

ForkAt(side) == IF side = "left" THEN "fork left" ELSE "fork right"
AfterFork(side) == IF side = "left" THEN "fork right" ELSE "wait left"

ForkPart(p, side) ==
  /\ At(p, ForkAt(side))
  /\ pc' = [pc EXCEPT ![p] = AfterFork(side), ![Part(p, side)] = "quicksort"]
  /\ pid' = [pid EXCEPT ![p][side] = Part(p, side)]
  /\ UNCHANGED <<arr, mid, exit, reaped, historyVars>>

\* Mutant: the process gives up at once.
ForkPartFailsAndExits(p, side) ==
  /\ Goto(p, ForkAt(side), "failed")
  /\ faults' = TRUE
  /\ UNCHANGED <<input, rest, arr, mid, splitVars, reaped, kills, wild, checker>>

ForkPartFails(p, side) ==
  /\ Goto(p, ForkAt(side), AfterFork(side))
  /\ faults' = TRUE
  /\ UNCHANGED <<input, rest, arr, mid, splitVars, reaped, kills, wild, checker>>

\* The children of p that were not waited for yet.
Unreaped(p) == {pid[p][x] : x \in Sides} \ (reaped \cup {Failed})

\* What waitpid(pid) waits for: that child, or any when pid is -1.
WaitedFor(p, side) ==
  IF pid[p][side] = Failed THEN Unreaped(p) ELSE Unreaped(p) \cap {pid[p][side]}

WaitAt(side) == IF side = "left" THEN "wait left" ELSE "wait right"
AfterWait(side) == IF side = "left" THEN "wait right" ELSE "check"

\* Mutant: waitpid with WNOHANG.
WaitPartNoHang(p, side) ==
  /\ WaitedFor(p, side) # {}
  /\ Goto(p, WaitAt(side), AfterWait(side))
  /\ \E c \in WaitedFor(p, side) :
       IF pc[c] \in Ended
       THEN /\ exit' = [exit EXCEPT ![p][side] = pc[c]]
            /\ reaped' = reaped \cup {c}
       ELSE UNCHANGED <<exit, reaped>>
  /\ UNCHANGED <<arr, mid, pid, historyVars>>

WaitPart(p, side) ==
  /\ Goto(p, WaitAt(side), AfterWait(side))
  /\ \E c \in WaitedFor(p, side) :
       /\ pc[c] \in Ended
       /\ exit' = [exit EXCEPT ![p][side] = pc[c]]
       /\ reaped' = reaped \cup {c}
  /\ UNCHANGED <<arr, mid, pid, historyVars>>

\* Mutant: waitpid is called again until it succeeds.
WaitPartRetries(p, side) ==
  /\ WaitedFor(p, side) = {}
  /\ Goto(p, WaitAt(side), WaitAt(side))
  /\ UNCHANGED <<arr, mid, splitVars, reaped, historyVars>>

\* waitpid finds no child to wait for: the status remains unknown.
WaitPartFails(p, side) ==
  /\ WaitedFor(p, side) = {}
  /\ Goto(p, WaitAt(side), AfterWait(side))
  /\ UNCHANGED <<arr, mid, splitVars, reaped, historyVars>>

\* Mutant: one part that was sorted is enough.
CheckEither(p) ==
  /\ Goto(p, "check", IF \E x \in Sides : exit[p][x] = "ok" THEN "ok" ELSE "failed")
  /\ UNCHANGED <<arr, mid, splitVars, reaped, historyVars>>

Check(p) ==
  /\ Goto(p, "check", IF \A x \in Sides : exit[p][x] = "ok" THEN "ok" ELSE "failed")
  /\ UNCHANGED <<arr, mid, splitVars, reaped, historyVars>>

-----------------------------------------------------------------------------
(***************************************************************************)
(* Signals.  The children of a process that is killed live on.             *)
(***************************************************************************)
Die(p) ==
  /\ pc' = [pc EXCEPT ![p] = "signal"]
  /\ IF pc[p] \in {"qsort", "partition"}
     THEN arr' \in Rewrites(arr, p[2], p[3])
     ELSE UNCHANGED arr
  /\ faults' = TRUE
  /\ UNCHANGED <<input, rest, mid, splitVars, reaped, wild, checker>>

\* partition reads outside the array, where nothing is mapped.
Segfault(p) ==
  /\ At(p, "partition")
  /\ HasNoStop(arr, p[2], p[3])
  /\ Die(p)
  /\ UNCHANGED kills

Kill(p) ==
  /\ pc[p] \notin Ended \cup {"none"}
  /\ ~wild
  /\ kills < MaxKills
  /\ kills' = kills + 1
  /\ Die(p)

-----------------------------------------------------------------------------
(***************************************************************************)
(* is_sorted.c, run on the file after parsort has ended.                   *)
(***************************************************************************)
processVars == <<input, rest, arr, pc, mid, splitVars, reaped, kills, faults, wild>>

\* Mutant: every element is compared with the first.
ReadElementKeepsFirst ==
  /\ pc[Main] \in Ended /\ ~wild
  /\ checker.says = "nothing" /\ checker.read < N
  /\ checker' = IF checker.read > 0 /\ arr[checker.read] < checker.prev
                THEN [checker EXCEPT !.read = @ + 1, !.says = "not sorted"]
                ELSE [checker EXCEPT !.read = @ + 1,
                                     !.prev = IF checker.read = 0 THEN arr[0] ELSE @]
  /\ UNCHANGED processVars

ReadElement ==
  /\ pc[Main] \in Ended /\ ~wild
  /\ checker.says = "nothing" /\ checker.read < N
  /\ checker' = IF checker.read > 0 /\ arr[checker.read] < checker.prev
                THEN [checker EXCEPT !.read = @ + 1, !.says = "not sorted"]
                ELSE [checker EXCEPT !.read = @ + 1, !.prev = arr[checker.read]]
  /\ UNCHANGED processVars

\* What remains is no whole element.
ReadEnd ==
  /\ pc[Main] \in Ended /\ ~wild
  /\ checker.says = "nothing" /\ checker.read = N
  /\ checker' = [checker EXCEPT !.says = IF N = 0 THEN "empty" ELSE "sorted"]
  /\ UNCHANGED processVars

-----------------------------------------------------------------------------
\* What a process does by itself.
RunsMain == Open \/ Fstat \/ Mmap \/ Munmap \/ SystemCallFails

Sorts(p) ==
  \/ ReturnShort(p) \/ Choose(p) \/ QSort(p)
  \/ Partition(p) \/ GoWild(p) \/ Segfault(p)
  \/ Fork(p) \/ ForkFails(p) \/ Wait(p)

Splits(p) ==
  \/ \E side \in Sides :
       \/ ForkPart(p, side) \/ ForkPartFails(p, side)
       \/ WaitPart(p, side) \/ WaitPartFails(p, side)
  \/ Check(p)

Next ==
  \/ RunsMain
  \/ \E p \in Sorters : Sorts(p)
  \/ \E p \in Splitters : Splits(p)
  \/ \E p \in Processes : Kill(p)
  \/ ReadElement \/ ReadEnd

SafeSpec == Init /\ [][Next]_vars

\* Every process keeps running until it ends or waits.
Fairness ==
  /\ WF_vars(RunsMain)
  /\ \A p \in Sorters : WF_vars(Sorts(p))
  /\ \A p \in Splitters : WF_vars(Splits(p))

Spec == SafeSpec /\ Fairness

-----------------------------------------------------------------------------
(***************************************************************************)
(* Properties.                                                             *)
(***************************************************************************)

\* parsort implements Sorting: what main reports is true, although any process
\* below it may fail to fork or be killed.
Sort == INSTANCE Sorting WITH
          result <- CASE pc[Main] = "ok"                  -> "success"
                      [] pc[Main] \in {"failed", "signal"} -> "failure"
                      [] OTHER                            -> "none"

SortSpec == Sort!Spec

\* Two processes never write the same element at a time.
NoOverlap ==
  \A p, q \in Sorters :
    p # q /\ {pc[p], pc[q]} \subseteq {"qsort", "partition"} =>
      Region(p[2], p[3]) \cap Region(q[2], q[3]) = {}

\* The processes that p and its children started: their regions are parts of p's.
Below(p) ==
  {q \in Processes : /\ p[2] <= q[2] /\ q[3] <= p[3]
                     /\ q # p
                     /\ p[1] = "split" => q # <<"sort", p[2], p[3]>>}

\* "children are recursively sorted" (quicksort): once a process has ended well,
\* its region is sorted, and everybody below it has ended well too and was
\* waited for.
SuccessIsComplete ==
  \A p \in Processes : pc[p] = "ok" =>
    /\ IsSorted(arr, p[2], p[3])
    /\ \A q \in Below(p) : pc[q] = "none" \/ (pc[q] = "ok" /\ q \in reaped)

\* A process that ends by itself leaves no child behind, whichever of its forks
\* failed: none runs on, and none remains as a zombie.
NoChildLeft ==
  \A p \in Processes : pc[p] \in {"ok", "failed"} =>
    IF p \in Splitters THEN Unreaped(p) = {}
    ELSE pc[SplitterOf(p)] = "none" \/ SplitterOf(p) \in reaped

\* "the only reason that sorting should fail is if a child process can't be
\* created or if there is any other system call failure" (quicksort): while every
\* fork succeeds and no process is killed, partition's page faults included,
\* quicksort does not report a failure; main refuses a file that has a part of
\* an element at its end, too.
FailureHasCause ==
  \A p \in Processes : pc[p] \in {"failed", "signal"} => faults \/ (p = Main /\ rest # 0)

\* is_sorted judges the array that is there, after a failed sort as well as after
\* a good one: unless a process was killed, and so left children behind, nobody
\* writes while it reads or afterwards.
VerdictIsTrue ==
  kills = 0 /\ checker.says # "nothing" /\ N > 0 =>
    (checker.says = "sorted" <=> IsSorted(arr, 0, N))

\* parsort ends: nobody waits for ever, whatever fails.
Ends == <>(pc[Main] \in Ended \/ wild)
=============================================================================
