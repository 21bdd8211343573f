---------------------------- MODULE ParallelSort ----------------------------
(***************************************************************************)
(* parsort (csf_assign04/parsort.c): a merge sort of a file mapped into    *)
(* memory that the processes of a fork tree share.  A call of              *)
(* parallel_merge_sort is named by its range <<begin, end>>; it forks a    *)
(* process for its left half, sorts its right half itself, waits for the   *)
(* child and merges.  A process is named by the first call it runs.        *)
(*                                                                         *)
(* Processes are cut at every system call and at every element that merge  *)
(* reads or the loop after it writes.  Any process may be killed, by a     *)
(* signal or because malloc failed, and any fork may fail.                 *)
(***************************************************************************)
EXTENDS Integers, Sequences, FiniteSets

CONSTANTS Size,       \* elements in the file
          Threshold,  \* the second argument
          Values,     \* what an element can be
          MaxFaults   \* bound: failed forks and killed processes

(* main refuses an empty file: mmap of no bytes fails *)
ASSUME SizeAssumption == Size \in Nat \ {0}
(* 0 is accepted and never stops forking, see the README *)
ASSUME ThresholdAssumption == Threshold \in Nat \ {0}
ASSUME ValuesAssumption == Values \subseteq Int /\ MaxFaults \in Nat

Ranges == {c \in (0..Size) \X (0..Size) : c[1] < c[2]}
Root == <<0, Size>>
Length(c) == c[2] - c[1]
Mid(c) == (c[1] + c[2]) \div 2
Left(c) == <<c[1], Mid(c)>>
Right(c) == <<Mid(c), c[2]>>
Indices(c) == c[1] .. c[2] - 1

VARIABLES
  arr,     \* the mapped file
  orig,    \* history: the file before
  pc,      \* pc[c]: where call c is
  proc,    \* proc[c]: the process that runs call c
  status,  \* status[p]: process p is running, or how it ended
  left,    \* left[c], right[c]: the elements merge is at
  right,
  temp,    \* temp[c]: what merge wrote to temp_arr
  i,       \* i[c]: elements copied back
  faults

locals == <<left, right, temp, i>>
vars == <<arr, orig, pc, proc, status, locals, faults>>

Init ==
  /\ arr \in [0..Size - 1 -> Values]
  /\ orig = arr
  /\ pc = [c \in Ranges |-> IF c = Root THEN "called" ELSE "none"]
  /\ proc = [c \in Ranges |-> Root]
  /\ status = [p \in Ranges |-> IF p = Root THEN "running" ELSE "none"]
  /\ left = [c \in Ranges |-> 0]
  /\ right = [c \in Ranges |-> 0]
  /\ temp = [c \in Ranges |-> << >>]
  /\ i = [c \in Ranges |-> 0]
  /\ faults = 0

Goto(c, label) == pc' = [pc EXCEPT ![c] = label]
At(c, label) == pc[c] = label /\ status[proc[c]] = "running"
Ends(p, how) == status' = [status EXCEPT ![p] = how]

compare_i64(a, b) == IF a < b THEN -1 ELSE IF a = b THEN 0 ELSE 1

IsSorted(f, S) == \A j, k \in S : j <= k => compare_i64(f[j], f[k]) <= 0

Count(f, S, v) == Cardinality({j \in S : f[j] = v})
SameElements(f, g, S) == \A v \in Values : Count(f, S, v) = Count(g, S, v)
-----------------------------------------------------------------------------
(* int parallel_merge_sort(arr, begin, end, threshold) *)

(* fork: the child calls itself on the left half, the parent on the right *)
Fork(c) ==
  /\ At(c, "called")
  /\ Length(c) > Threshold
  /\ pc' = [pc EXCEPT ![c] = "right", ![Left(c)] = "called", ![Right(c)] = "called"]
  /\ proc' = [proc EXCEPT ![Left(c)] = Left(c), ![Right(c)] = proc[c]]
  /\ Ends(Left(c), "running")
  /\ UNCHANGED <<arr, orig, locals, faults>>

ForkFails(c) ==
  /\ At(c, "called")
  /\ Length(c) > Threshold
  /\ faults < MaxFaults
  /\ faults' = faults + 1
  /\ Ends(proc[c], "failed")
  /\ UNCHANGED <<arr, orig, pc, proc, locals>>

(* sequential_merge_sort: qsort leaves the range sorted by compare_i64 *)
Sort(c) ==
  /\ At(c, "called")
  /\ Length(c) <= Threshold
  /\ \E f \in [Indices(c) -> Values] :
       /\ IsSorted(f, Indices(c)) /\ SameElements(f, arr, Indices(c))
       /\ arr' = [j \in DOMAIN arr |-> IF j \in Indices(c) THEN f[j] ELSE arr[j]]
  /\ Goto(c, "returned")
  /\ UNCHANGED <<orig, proc, status, locals, faults>>

RightReturns(c) ==
  /\ At(c, "right")
  /\ pc[Right(c)] = "returned"
  /\ Goto(c, "wait")
  /\ UNCHANGED <<arr, orig, proc, status, locals, faults>>

StartMerge(c) ==
  /\ Goto(c, "merge")
  /\ left' = [left EXCEPT ![c] = c[1]]
  /\ right' = [right EXCEPT ![c] = Mid(c)]
  /\ temp' = [temp EXCEPT ![c] = << >>]

(* mutant: the parent does not wait for the child *)
Wait_Not(c) ==
  /\ At(c, "wait")
  /\ StartMerge(c)
  /\ UNCHANGED <<arr, orig, proc, status, i, faults>>

(* mutant: the status of the child is not looked at *)
Wait_IgnoresStatus(c) ==
  /\ At(c, "wait")
  /\ status[Left(c)] # "running"
  /\ StartMerge(c)
  /\ UNCHANGED <<arr, orig, proc, status, i, faults>>

(* waitpid; a child that was killed or did not exit with 0 is an error *)
Wait(c) ==
  /\ At(c, "wait")
  /\ status[Left(c)] # "running"
  /\ IF status[Left(c)] = "ok"
     THEN StartMerge(c) /\ UNCHANGED status
     ELSE Ends(proc[c], "failed") /\ UNCHANGED <<pc, left, right, temp>>
  /\ UNCHANGED <<arr, orig, proc, i, faults>>

(* void merge(arr, begin, mid, end, temparr): one turn of its loop *)
TakeLeft(c) ==
  /\ left[c] < Mid(c)
  /\ right[c] < c[2] => compare_i64(arr[left[c]], arr[right[c]]) <= 0
  /\ temp' = [temp EXCEPT ![c] = Append(@, arr[left[c]])]
  /\ left' = [left EXCEPT ![c] = @ + 1]
  /\ UNCHANGED right

TakeRight(c) ==
  /\ right[c] < c[2]
  /\ left[c] < Mid(c) => compare_i64(arr[left[c]], arr[right[c]]) > 0
  /\ temp' = [temp EXCEPT ![c] = Append(@, arr[right[c]])]
  /\ right' = [right EXCEPT ![c] = @ + 1]
  /\ UNCHANGED left

Merge(c) ==
  /\ At(c, "merge")
  /\ TakeLeft(c) \/ TakeRight(c)
  /\ UNCHANGED <<arr, orig, pc, proc, status, i, faults>>

MergeEnds(c) ==
  /\ At(c, "merge")
  /\ left[c] >= Mid(c) /\ right[c] >= c[2]
  /\ i' = [i EXCEPT ![c] = 0]
  /\ Goto(c, "copy")
  /\ UNCHANGED <<arr, orig, proc, status, left, right, temp, faults>>

(* mutant: i <= length, the loop copies what is behind temp_arr *)
CopyBack_OnePast(c) ==
  /\ At(c, "copy")
  /\ i[c] <= Length(c)
  /\ \E v \in Values :
       /\ i[c] < Length(c) => v = temp[c][i[c] + 1]
       /\ arr' = [arr EXCEPT ![c[1] + i[c]] = v]
  /\ i' = [i EXCEPT ![c] = @ + 1]
  /\ UNCHANGED <<orig, pc, proc, status, left, right, temp, faults>>

CopyBack(c) ==
  /\ At(c, "copy")
  /\ i[c] < Length(c)
  /\ arr' = [arr EXCEPT ![c[1] + i[c]] = temp[c][i[c] + 1]]
  /\ i' = [i EXCEPT ![c] = @ + 1]
  /\ UNCHANGED <<orig, pc, proc, status, left, right, temp, faults>>

(* free(temp_arr) and return *)
Return(c) ==
  /\ At(c, "copy")
  /\ i[c] = Length(c)
  /\ Goto(c, "returned")
  /\ temp' = [temp EXCEPT ![c] = << >>]
  /\ UNCHANGED <<arr, orig, proc, status, left, right, i, faults>>

(* mutant: the child returns into the code of its parent *)
Exit_Forgotten(p) ==
  /\ At(p, "returned")
  /\ proc[p] = p
  /\ p = Root
  /\ Ends(p, "ok")
  /\ UNCHANGED <<arr, orig, pc, proc, locals, faults>>

(* the child exits; main writes the file, unmaps it and exits *)
Exit(p) ==
  /\ At(p, "returned")
  /\ proc[p] = p
  /\ Ends(p, "ok")
  /\ UNCHANGED <<arr, orig, pc, proc, locals, faults>>

Killed(p) ==
  /\ status[p] = "running"
  /\ faults < MaxFaults
  /\ faults' = faults + 1
  /\ Ends(p, "failed")
  /\ UNCHANGED <<arr, orig, pc, proc, locals>>

Call(c) ==
  \/ Fork(c) \/ Sort(c) \/ RightReturns(c) \/ Wait(c)
  \/ Merge(c) \/ MergeEnds(c) \/ CopyBack(c) \/ Return(c) \/ Exit(c)

Next == \E c \in Ranges : Call(c) \/ ForkFails(c) \/ Killed(c)

(* The kernel runs some process that can run: every behaviour is finite, so *)
(* that is enough.                                                          *)
Fairness == WF_vars(\E c \in Ranges : Call(c))

Safety == Init /\ [][Next]_vars
Spec == Safety /\ Fairness
-----------------------------------------------------------------------------
TypeOK ==
  /\ arr \in [0..Size - 1 -> Values] /\ orig \in [0..Size - 1 -> Values]
  /\ pc \in [Ranges -> {"none", "called", "right", "wait", "merge", "copy", "returned"}]
  /\ proc \in [Ranges -> Ranges]
  /\ status \in [Ranges -> {"none", "running", "ok", "failed"}]
  /\ left \in [Ranges -> 0..Size] /\ right \in [Ranges -> 0..Size]
  /\ temp \in [Ranges -> Seq(Values)]
  /\ i \in [Ranges -> 0..Size]
  /\ faults \in 0..MaxFaults

(* A call of a running process that reads or writes its whole range. *)
Working(c) ==
  /\ status[proc[c]] = "running"
  /\ \/ pc[c] = "called" /\ Length(c) <= Threshold
     \/ pc[c] \in {"merge", "copy"}

(* The processes share the mapping without a lock: those that work on it at *)
(* the same time, orphans of a failed parent included, are in disjoint      *)
(* ranges.                                                                  *)
DisjointWork ==
  \A c, d \in {w \in Ranges : Working(w)} :
    c # d => Indices(c) \cap Indices(d) = {}

(* Exit status 0 means what it says: the file is sorted, holds what it held *)
(* before, every process has ended with 0 and nothing writes to it any more.*)
SuccessMeansSorted ==
  status[Root] = "ok" =>
    /\ IsSorted(arr, DOMAIN arr)
    /\ SameElements(arr, orig, DOMAIN arr)
    /\ \A p \in Ranges : status[p] \in {"none", "ok"}

(* Whatever fails, only a copy that was cut short can lose an element: with *)
(* no call in its copy loop the file holds what it held before.             *)
NothingLost ==
  (\A c \in Ranges : pc[c] # "copy") => SameElements(arr, orig, DOMAIN arr)

(* The sort ends, and so does every process it started, the orphans of one  *)
(* that failed included.                                                    *)
ProcessesEnd == <>[](\A p \in Ranges : status[p] # "running")
=============================================================================
