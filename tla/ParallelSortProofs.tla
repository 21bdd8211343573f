-------------------------- MODULE ParallelSortProofs --------------------------
(***************************************************************************)
(* Proofs about ParallelSort, for any length of the file, any threshold,   *)
(* any values and any number of faults: the ranges that processes work on, *)
(* then the elements of the file.                                          *)
(***************************************************************************)
EXTENDS ParallelSort, FiniteSetTheorems, TLAPS

Overlap(c, d) == c[1] < d[2] /\ d[1] < c[2]
Inside(d, c) == c[1] <= d[1] /\ d[2] <= c[2]
Below(d, c) == Inside(d, Left(c)) \/ Inside(d, Right(c))

(* The calls made so far form a tree of halves, a call that has not forked  *)
(* has nothing below it, and what is below a call that merges has returned, *)
(* whether the processes that ran it live or not.                           *)
Laminar ==
  \A c, d \in Ranges :
    pc[c] # "none" /\ pc[d] # "none" /\ c # d /\ Overlap(c, d)
      => Below(c, d) \/ Below(d, c)

DoneBelow ==
  \A c, d \in Ranges :
    pc[d] # "none" /\ c # d /\ Inside(d, c) =>
      /\ pc[c] # "called"
      /\ pc[c] \in {"merge", "copy", "returned"} => pc[d] = "returned"
      /\ pc[c] = "wait" /\ Inside(d, Right(c)) => pc[d] = "returned"

TreeInv ==
  /\ Laminar
  /\ DoneBelow
  /\ \A c \in Ranges : pc[c] \in {"right", "wait", "merge", "copy"} => Length(c) > Threshold
  /\ \A p \in Ranges : status[p] = "ok" => pc[p] = "returned"

(* The locals of a call that merges or copies. *)
LocalInv ==
  \A c \in Ranges :
    /\ pc[c] = "merge" =>
         /\ left[c] \in c[1]..Mid(c) /\ right[c] \in Mid(c)..c[2]
         /\ Len(temp[c]) = (left[c] - c[1]) + (right[c] - Mid(c))
    /\ pc[c] = "copy" =>
         i[c] <= Length(c) /\ Len(temp[c]) = Length(c)

IInv == TypeOK /\ LocalInv /\ TreeInv
-----------------------------------------------------------------------------
(* Ranges and their halves *)

LEMMA Halves ==
  ASSUME NEW c \in Ranges, Length(c) > Threshold
  PROVE  /\ Left(c) \in Ranges /\ Right(c) \in Ranges
         /\ Left(c) # c /\ Right(c) # c /\ Left(c) # Right(c)
         /\ c[1] < Mid(c) /\ Mid(c) < c[2] /\ Mid(c) \in Nat
         /\ Left(c)[1] = c[1] /\ Left(c)[2] = Mid(c)
         /\ Right(c)[1] = Mid(c) /\ Right(c)[2] = c[2]
<1>1. c \in (0..Size) \X (0..Size) /\ c[1] \in 0..Size /\ c[2] \in 0..Size /\ c[1] < c[2]
  BY DEF Ranges
<1>2. c[2] - c[1] >= 2
  BY <1>1, ThresholdAssumption, SizeAssumption DEF Length
<1>3. Mid(c) \in Nat /\ c[1] < Mid(c) /\ Mid(c) < c[2]
  BY <1>1, <1>2, SizeAssumption DEF Mid
<1>4. Left(c) = <<c[1], Mid(c)>> /\ Right(c) = <<Mid(c), c[2]>>
  BY DEF Left, Right
<1>5. Left(c) \in Ranges /\ Right(c) \in Ranges
  BY <1>1, <1>3, <1>4, SizeAssumption DEF Ranges
<1> QED BY <1>1, <1>3, <1>4, <1>5

LEMMA RangeType ==
  ASSUME NEW c \in Ranges
  PROVE  c = <<c[1], c[2]>> /\ c[1] \in 0..Size /\ c[2] \in 0..Size /\ c[1] < c[2]
BY DEF Ranges

LEMMA MidType ==
  ASSUME NEW c \in Ranges
  PROVE  Mid(c) \in c[1]..c[2] /\ Mid(c) \in 0..Size
BY RangeType, SizeAssumption DEF Mid
-----------------------------------------------------------------------------
(* Types and locals *)

LEMMA TypeInit == Init => TypeOK /\ LocalInv
<1> SUFFICES ASSUME Init PROVE TypeOK /\ LocalInv
  OBVIOUS
<1>1. Root \in Ranges
  BY SizeAssumption DEF Root, Ranges
<1>2. TypeOK
  BY <1>1, SizeAssumption, ValuesAssumption DEF Init, TypeOK
<1>3. LocalInv
  BY <1>1 DEF Init, LocalInv
<1> QED BY <1>2, <1>3

LEMMA TypeStep ==
  ASSUME TypeOK, LocalInv, TreeInv, [Next]_vars
  PROVE  TypeOK' /\ LocalInv'
<1> USE SizeAssumption, ValuesAssumption
<1>1. ASSUME NEW c \in Ranges, Fork(c) PROVE TypeOK' /\ LocalInv'
  <2>1. Left(c) \in Ranges /\ Right(c) \in Ranges
    BY <1>1, Halves DEF Fork
  <2>2. TypeOK'
    BY <1>1, <2>1 DEF Fork, TypeOK, locals, Ends
  <2>3. \A d \in Ranges : pc'[d] \in {"merge", "copy"} => pc'[d] = pc[d]
    BY <1>1, <2>1 DEF Fork, TypeOK
  <2>4. LocalInv'
    BY <1>1, <2>3 DEF Fork, LocalInv, locals
  <2> QED BY <2>2, <2>4
<1>2. ASSUME NEW c \in Ranges, Sort(c) PROVE TypeOK' /\ LocalInv'
  <2>1. arr' \in [0..Size - 1 -> Values]
    BY <1>2 DEF Sort, TypeOK
  <2>2. TypeOK'
    BY <1>2, <2>1 DEF Sort, TypeOK, locals, Goto
  <2>3. \A d \in Ranges : pc'[d] \in {"merge", "copy"} => pc'[d] = pc[d]
    BY <1>2 DEF Sort, TypeOK, Goto
  <2>4. LocalInv'
    BY <1>2, <2>3 DEF Sort, LocalInv, locals
  <2> QED BY <2>2, <2>4
<1>3. ASSUME NEW c \in Ranges, RightReturns(c) PROVE TypeOK' /\ LocalInv'
  <2>2. TypeOK'
    BY <1>3 DEF RightReturns, TypeOK, locals, Goto
  <2>3. \A d \in Ranges : pc'[d] \in {"merge", "copy"} => pc'[d] = pc[d]
    BY <1>3 DEF RightReturns, TypeOK, Goto
  <2>4. LocalInv'
    BY <1>3, <2>3 DEF RightReturns, LocalInv, locals
  <2> QED BY <2>2, <2>4
<1>4. ASSUME NEW c \in Ranges, Wait(c) PROVE TypeOK' /\ LocalInv'
  <2>1. CASE StartMerge(c) /\ UNCHANGED status
    <3>1. Mid(c) \in c[1]..c[2] /\ Mid(c) \in 0..Size /\ c[1] \in 0..Size
      BY MidType, RangeType
    <3>2. << >> \in Seq(Values) /\ Len(<< >>) = 0
      OBVIOUS
    <3>3. TypeOK'
      BY <1>4, <2>1, <3>1, <3>2 DEF Wait, StartMerge, Goto, TypeOK
    <3>4. pc' = [pc EXCEPT ![c] = "merge"] /\ left' = [left EXCEPT ![c] = c[1]]
          /\ right' = [right EXCEPT ![c] = Mid(c)] /\ temp' = [temp EXCEPT ![c] = << >>]
          /\ i' = i
      BY <1>4, <2>1 DEF Wait, StartMerge, Goto
    <3>5. LocalInv'
      <4> SUFFICES ASSUME NEW d \in Ranges
                   PROVE  /\ pc'[d] = "merge" =>
                               /\ left'[d] \in d[1]..Mid(d) /\ right'[d] \in Mid(d)..d[2]
                               /\ Len(temp'[d]) = (left'[d] - d[1]) + (right'[d] - Mid(d))
                          /\ pc'[d] = "copy" =>
                               i'[d] <= Length(d) /\ Len(temp'[d]) = Length(d)
        BY DEF LocalInv, Length, Mid
      <4>1. CASE d = c
        BY <3>1, <3>2, <3>4, <4>1, RangeType DEF TypeOK
      <4>2. CASE d # c
        BY <3>4, <4>2 DEF TypeOK, LocalInv
      <4> QED BY <4>1, <4>2
    <3> QED BY <3>3, <3>5
  <2>2. CASE Ends(proc[c], "failed") /\ UNCHANGED <<pc, left, right, temp>>
    BY <1>4, <2>2 DEF Wait, Ends, TypeOK, LocalInv
  <2> QED BY <1>4, <2>1, <2>2 DEF Wait
<1>5. ASSUME NEW c \in Ranges, Merge(c) PROVE TypeOK' /\ LocalInv'
  <2>1. /\ pc[c] = "merge" /\ c[1] \in 0..Size /\ c[2] \in 0..Size /\ Mid(c) \in c[1]..c[2]
        /\ left[c] \in c[1]..Mid(c) /\ right[c] \in Mid(c)..c[2]
        /\ temp[c] \in Seq(Values)
        /\ Len(temp[c]) = (left[c] - c[1]) + (right[c] - Mid(c))
    BY <1>5, MidType, RangeType DEF Merge, At, LocalInv, TypeOK
  <2>2. PICK v \in Values :
          /\ temp' = [temp EXCEPT ![c] = Append(@, v)]
          /\ \/ left[c] < Mid(c) /\ left' = [left EXCEPT ![c] = @ + 1] /\ right' = right
             \/ right[c] < c[2] /\ right' = [right EXCEPT ![c] = @ + 1] /\ left' = left
    <3>1. CASE TakeLeft(c)
      <4>1. arr[left[c]] \in Values
        BY <2>1, <3>1 DEF TakeLeft, TypeOK
      <4> QED BY <3>1, <4>1 DEF TakeLeft
    <3>2. CASE TakeRight(c)
      <4>1. arr[right[c]] \in Values
        BY <2>1, <3>2 DEF TakeRight, TypeOK
      <4> QED BY <3>2, <4>1 DEF TakeRight
    <3> QED BY <1>5, <3>1, <3>2 DEF Merge
  <2>3. Append(temp[c], v) \in Seq(Values) /\ Len(Append(temp[c], v)) = Len(temp[c]) + 1
    BY <2>1
  <2>4. /\ left'[c] \in c[1]..Mid(c) /\ right'[c] \in Mid(c)..c[2]
        /\ Len(temp'[c]) = (left'[c] - c[1]) + (right'[c] - Mid(c))
        /\ temp'[c] \in Seq(Values)
    <3>0. /\ c[1] \in Int /\ c[2] \in Int /\ Mid(c) \in Int
          /\ left[c] \in Int /\ right[c] \in Int
      BY <2>1
    <3>01. Len(temp[c]) = (left[c] - c[1]) + (right[c] - Mid(c))
      BY <2>1
    <3>1. temp'[c] = Append(temp[c], v) /\ Len(temp'[c]) = Len(temp[c]) + 1
          /\ temp'[c] \in Seq(Values)
      BY <2>2, <2>3 DEF TypeOK
    <3>2. CASE left[c] < Mid(c) /\ left' = [left EXCEPT ![c] = @ + 1] /\ right' = right
      <4>1. left'[c] = left[c] + 1 /\ right'[c] = right[c]
        BY <3>2 DEF TypeOK
      <4>2. left'[c] \in c[1]..Mid(c) /\ right'[c] \in Mid(c)..c[2]
        BY <2>1, <3>0, <3>2, <4>1
      <4>3. Len(temp'[c]) = (left'[c] - c[1]) + (right'[c] - Mid(c))
        BY <3>0, <3>01, <3>1, <4>1
      <4> QED BY <3>1, <4>2, <4>3
    <3>3. CASE right[c] < c[2] /\ right' = [right EXCEPT ![c] = @ + 1] /\ left' = left
      <4>1. right'[c] = right[c] + 1 /\ left'[c] = left[c]
        BY <3>3 DEF TypeOK
      <4>2. left'[c] \in c[1]..Mid(c) /\ right'[c] \in Mid(c)..c[2]
        BY <2>1, <3>0, <3>3, <4>1
      <4>3. Len(temp'[c]) = (left'[c] - c[1]) + (right'[c] - Mid(c))
        BY <3>0, <3>01, <3>1, <4>1
      <4> QED BY <3>1, <4>2, <4>3
    <3> QED BY <2>2, <3>2, <3>3
  <2>5. /\ left' \in [Ranges -> 0..Size] /\ right' \in [Ranges -> 0..Size]
        /\ temp' \in [Ranges -> Seq(Values)]
    <3>1. left[c] < Mid(c) => left[c] + 1 \in 0..Size
      BY <2>1
    <3>2. right[c] < c[2] => right[c] + 1 \in 0..Size
      BY <2>1
    <3>3. left' \in [Ranges -> 0..Size] /\ right' \in [Ranges -> 0..Size]
      <4>1. CASE left[c] < Mid(c) /\ left' = [left EXCEPT ![c] = @ + 1] /\ right' = right
        BY <3>1, <4>1 DEF TypeOK
      <4>2. CASE right[c] < c[2] /\ right' = [right EXCEPT ![c] = @ + 1] /\ left' = left
        BY <3>2, <4>2 DEF TypeOK
      <4> QED BY <2>2, <4>1, <4>2
    <3>4. temp' \in [Ranges -> Seq(Values)]
      BY <2>2, <2>3 DEF TypeOK
    <3> QED BY <3>3, <3>4
  <2>6. TypeOK'
    BY <1>5, <2>5 DEF Merge, TypeOK
  <2>7. \A d \in Ranges : d # c => left'[d] = left[d] /\ right'[d] = right[d] /\ temp'[d] = temp[d]
    BY <2>2 DEF TypeOK
  <2>8. LocalInv'
    BY <1>5, <2>1, <2>4, <2>7 DEF Merge, LocalInv, Mid, Length
  <2> QED BY <2>6, <2>8
<1>6. ASSUME NEW c \in Ranges, MergeEnds(c) PROVE TypeOK' /\ LocalInv'
  <2>1. /\ pc[c] = "merge" /\ left[c] = Mid(c) /\ right[c] = c[2]
        /\ Len(temp[c]) = (left[c] - c[1]) + (right[c] - Mid(c))
    BY <1>6, MidType, RangeType DEF MergeEnds, At, LocalInv
  <2>2. Len(temp[c]) = Length(c) /\ 0 <= Length(c)
    BY <2>1, MidType, RangeType DEF Length
  <2>3. TypeOK'
    BY <1>6 DEF MergeEnds, Goto, TypeOK
  <2>4. LocalInv'
    <3>1. i'[c] = 0 /\ pc'[c] = "copy" /\ UNCHANGED <<left, right, temp>>
      BY <1>6 DEF MergeEnds, Goto, TypeOK
    <3>2. \A d \in Ranges : d # c => pc'[d] = pc[d] /\ i'[d] = i[d]
      BY <1>6 DEF MergeEnds, Goto, TypeOK
    <3> QED BY <2>2, <3>1, <3>2 DEF LocalInv, Length, Mid
  <2> QED BY <2>3, <2>4
<1>7. ASSUME NEW c \in Ranges, CopyBack(c) PROVE TypeOK' /\ LocalInv'
  <2>1. /\ pc[c] = "copy" /\ i[c] \in 0..Size /\ i[c] < Length(c) /\ Length(c) <= Size
        /\ Len(temp[c]) = Length(c) /\ temp[c] \in Seq(Values)
    BY <1>7, RangeType DEF CopyBack, At, LocalInv, TypeOK, Length
  <2>2. temp[c][i[c] + 1] \in Values
    <3>1. i[c] + 1 \in 1..Len(temp[c])
      BY <2>1, RangeType DEF Length
    <3> QED BY <2>1, <3>1
  <2>3. arr' \in [0..Size - 1 -> Values]
    BY <1>7, <2>2 DEF CopyBack, TypeOK
  <2>4. i' = [i EXCEPT ![c] = @ + 1] /\ i[c] + 1 \in 0..Size /\ i[c] + 1 <= Length(c)
    <3>1. i' = [i EXCEPT ![c] = @ + 1]
      BY <1>7 DEF CopyBack
    <3>2. Size \in Nat /\ Length(c) \in Int
      BY <2>1, RangeType DEF Length
    <3>3. i[c] + 1 \in 0..Size /\ i[c] + 1 <= Length(c)
      BY <2>1, <3>2
    <3> QED BY <3>1, <3>3
  <2>5. TypeOK'
    BY <1>7, <2>3, <2>4 DEF CopyBack, TypeOK
  <2>6. \A d \in Ranges : i'[d] = IF d = c THEN i[c] + 1 ELSE i[d]
    BY <2>4 DEF TypeOK
  <2>7. LocalInv'
    BY <1>7, <2>4, <2>6 DEF CopyBack, LocalInv, Length, Mid
  <2> QED BY <2>5, <2>7
<1>8. ASSUME NEW c \in Ranges, Return(c) PROVE TypeOK' /\ LocalInv'
  <2>1. TypeOK'
    BY <1>8 DEF Return, Goto, TypeOK
  <2>2. pc'[c] = "returned" /\ \A d \in Ranges : d # c => pc'[d] = pc[d] /\ temp'[d] = temp[d]
    BY <1>8 DEF Return, Goto, TypeOK
  <2>3. LocalInv'
    BY <1>8, <2>2 DEF Return, LocalInv, Length, Mid
  <2> QED BY <2>1, <2>3
<1>9. ASSUME NEW c \in Ranges, Exit(c) \/ ForkFails(c) \/ Killed(c)
      PROVE  TypeOK' /\ LocalInv'
  <2>1. TypeOK'
    <3>1. /\ \E p \in Ranges, how \in {"ok", "failed"} : status' = [status EXCEPT ![p] = how]
          /\ faults' \in 0..MaxFaults
      BY <1>9 DEF Exit, ForkFails, Killed, Ends, TypeOK
    <3>2. UNCHANGED <<arr, orig, pc, proc, left, right, temp, i>>
      BY <1>9 DEF Exit, ForkFails, Killed, locals
    <3> QED BY <3>1, <3>2 DEF TypeOK
  <2>2. UNCHANGED <<pc, locals>>
    BY <1>9 DEF Exit, ForkFails, Killed
  <2>3. LocalInv'
    BY <2>2 DEF LocalInv, locals, Length, Mid
  <2> QED BY <2>1, <2>3
<1>10. CASE UNCHANGED vars
  <2>1. TypeOK'
    BY <1>10 DEF vars, locals, TypeOK
  <2>2. LocalInv'
    BY <1>10 DEF vars, locals, LocalInv
  <2> QED BY <2>1, <2>2
<1> QED BY <1>1, <1>2, <1>3, <1>4, <1>5, <1>6, <1>7, <1>8, <1>9, <1>10 DEF Next, Call
-----------------------------------------------------------------------------
(* The tree of calls *)

LEMMA BelowInside ==
  ASSUME NEW c \in Ranges, NEW d \in Ranges, Below(d, c)
  PROVE  Inside(d, c) /\ Overlap(c, d)
BY RangeType, MidType DEF Below, Inside, Overlap, Left, Right

LEMMA BelowTransitive ==
  ASSUME NEW c \in Ranges, NEW d \in Ranges, NEW e \in Ranges,
         Below(c, e), Inside(d, c)
  PROVE  Below(d, e)
BY RangeType, MidType DEF Below, Inside, Left, Right

LEMMA TreeInit == Init => TreeInv
<1> SUFFICES ASSUME Init PROVE TreeInv
  OBVIOUS
<1>1. \A c \in Ranges : pc[c] # "none" => c = Root /\ pc[c] = "called"
  BY DEF Init
<1>2. ASSUME NEW c \in Ranges, Inside(c, Root), Inside(Root, c) PROVE c = Root
  BY <1>2, RangeType, SizeAssumption DEF Inside, Root
<1>3. \A c \in Ranges : Inside(Root, c) => c = Root
  BY <1>2, RangeType, SizeAssumption DEF Inside, Root
<1>4. Laminar /\ DoneBelow
  BY <1>1, <1>3 DEF Laminar, DoneBelow
<1>5. \A p \in Ranges : status[p] # "ok"
  BY DEF Init
<1> QED BY <1>1, <1>4, <1>5 DEF TreeInv

(* A step that moves one call on, with everything below it in order. *)
LEMMA Advance ==
  ASSUME TypeOK, TreeInv, NEW c \in Ranges,
         NEW label \in {"right", "wait", "merge", "copy", "returned"},
         pc[c] \notin {"none", "returned"},
         pc' = [pc EXCEPT ![c] = label],
         status' = status,
         label # "returned" => Length(c) > Threshold,
         label \in {"merge", "copy", "returned"} =>
           \A d \in Ranges : pc[d] # "none" /\ d # c /\ Inside(d, c) => pc[d] = "returned",
         label = "wait" =>
           \A d \in Ranges : pc[d] # "none" /\ d # c /\ Inside(d, Right(c)) => pc[d] = "returned"
  PROVE  TreeInv'
<1>1. pc'[c] = label /\ \A d \in Ranges : d # c => pc'[d] = pc[d]
  BY DEF TypeOK
<1>2. \A d \in Ranges : pc'[d] # "none" <=> pc[d] # "none"
  BY <1>1
<1>3. Laminar'
  BY <1>2 DEF TreeInv, Laminar, Overlap, Below, Inside, Left, Right, Mid
<1>4. DoneBelow'
  <2> SUFFICES ASSUME NEW e \in Ranges, NEW d \in Ranges,
                      pc'[d] # "none", e # d, Inside(d, e)
               PROVE  /\ pc'[e] # "called"
                      /\ pc'[e] \in {"merge", "copy", "returned"} => pc'[d] = "returned"
                      /\ pc'[e] = "wait" /\ Inside(d, Right(e)) => pc'[d] = "returned"
    BY DEF DoneBelow, Inside, Right, Mid
  <2>1. CASE e = c
    BY <1>1, <1>2, <2>1
  <2>2. CASE e # c
    <3>1. /\ pc[e] # "called"
          /\ pc[e] \in {"merge", "copy", "returned"} => pc[d] = "returned"
          /\ pc[e] = "wait" /\ Inside(d, Right(e)) => pc[d] = "returned"
      BY <1>2 DEF TreeInv, DoneBelow
    <3>2. pc'[e] = pc[e] /\ (pc[d] = "returned" => pc'[d] = "returned")
      BY <1>1, <2>2
    <3> QED BY <3>1, <3>2
  <2> QED BY <2>1, <2>2
<1>5. \A d \in Ranges : pc'[d] \in {"right", "wait", "merge", "copy"} => Length(d) > Threshold
  BY <1>1 DEF TreeInv
<1>6. \A p \in Ranges : status'[p] = "ok" => pc'[p] = "returned"
  BY <1>1 DEF TreeInv
<1> QED BY <1>3, <1>4, <1>5, <1>6 DEF TreeInv, Length

(* A fork gives a call without anything below it its two halves. *)
LEMMA ForkStep ==
  ASSUME TypeOK, TreeInv, NEW c \in Ranges, Fork(c)
  PROVE  /\ pc[c] = "called" /\ pc[Left(c)] = "none" /\ pc[Right(c)] = "none"
         /\ Length(c) > Threshold
         /\ pc'[c] = "right" /\ pc'[Left(c)] = "called" /\ pc'[Right(c)] = "called"
         /\ \A d \in Ranges : d \notin {c, Left(c), Right(c)} => pc'[d] = pc[d]
         /\ \A d \in Ranges : pc[d] # "none" /\ d # c => ~Inside(d, c)
         /\ \A d \in Ranges : pc[d] # "none" /\ d # c /\ Overlap(c, d) => Below(c, d)
<1>1. pc[c] = "called" /\ Length(c) > Threshold
  BY DEF Fork, At
<1>2. \A d \in Ranges : pc[d] # "none" /\ d # c => ~Inside(d, c)
  BY <1>1 DEF TreeInv, DoneBelow
<1>3. /\ Left(c) \in Ranges /\ Right(c) \in Ranges /\ Left(c) # c /\ Right(c) # c
      /\ Left(c) # Right(c)
  BY <1>1, Halves
<1>4. Inside(Left(c), c) /\ Inside(Right(c), c)
  BY <1>1, Halves, RangeType DEF Inside
<1>5. /\ pc'[c] = "right" /\ pc'[Left(c)] = "called" /\ pc'[Right(c)] = "called"
      /\ \A d \in Ranges : d \notin {c, Left(c), Right(c)} => pc'[d] = pc[d]
  BY <1>3 DEF Fork, TypeOK
<1>6. \A d \in Ranges : pc[d] # "none" /\ d # c /\ Overlap(c, d) => Below(c, d)
  BY <1>1, <1>2, BelowInside DEF TreeInv, Laminar
<1> QED BY <1>1, <1>2, <1>3, <1>4, <1>5, <1>6

LEMMA ForkKeepsTree ==
  ASSUME TypeOK, TreeInv, NEW c \in Ranges, Fork(c)
  PROVE  TreeInv'
<1> DEFINE L == Left(c)
           R == Right(c)
<1>1. /\ pc[c] = "called" /\ pc[L] = "none" /\ pc[R] = "none" /\ Length(c) > Threshold
      /\ pc'[c] = "right" /\ pc'[L] = "called" /\ pc'[R] = "called"
      /\ \A d \in Ranges : d \notin {c, L, R} => pc'[d] = pc[d]
      /\ \A d \in Ranges : pc[d] # "none" /\ d # c => ~Inside(d, c)
      /\ \A d \in Ranges : pc[d] # "none" /\ d # c /\ Overlap(c, d) => Below(c, d)
  BY ForkStep
<1>2. /\ L \in Ranges /\ R \in Ranges /\ L # c /\ R # c /\ L # R
      /\ Inside(L, c) /\ Inside(R, c) /\ ~Inside(L, R) /\ ~Inside(R, L)
      /\ ~Inside(c, L) /\ ~Inside(c, R)
      /\ ~Overlap(L, R) /\ ~Overlap(R, L) /\ Below(L, c) /\ Below(R, c)
  <2>1. /\ L \in Ranges /\ R \in Ranges /\ L # c /\ R # c /\ L # R
        /\ c[1] < Mid(c) /\ Mid(c) < c[2] /\ Mid(c) \in Nat
        /\ L[1] = c[1] /\ L[2] = Mid(c) /\ R[1] = Mid(c) /\ R[2] = c[2]
    BY <1>1, Halves
  <2>2. /\ Inside(L, c) /\ Inside(R, c) /\ ~Inside(L, R) /\ ~Inside(R, L)
        /\ ~Inside(c, L) /\ ~Inside(c, R)
        /\ ~Overlap(L, R) /\ ~Overlap(R, L)
    <3> HIDE DEF L, R
    <3> QED BY <2>1, RangeType DEF Inside, Overlap
  <2>3. Inside(L, L) /\ Inside(R, R)
    <3> HIDE DEF L, R
    <3> QED BY <2>1, RangeType DEF Inside
  <2> QED BY <2>1, <2>2, <2>3 DEF Below
<1>3. \A d, e \in Ranges : Overlap(d, e) /\ Inside(d, c) => Overlap(c, e)
  BY RangeType DEF Overlap, Inside
<1>4. \A d, e \in Ranges : Overlap(d, e) => Overlap(e, d)
  BY DEF Overlap
<1>5. \A a \in {L, R}, d \in Ranges :
        pc[d] # "none" /\ d # c /\ Overlap(a, d) => Below(a, d)
  BY <1>1, <1>2, <1>3, BelowTransitive
<1> HIDE DEF L, R
<1>6. Laminar'
  <2> SUFFICES ASSUME NEW a \in Ranges, NEW b \in Ranges,
                      pc'[a] # "none", pc'[b] # "none", a # b, Overlap(a, b)
               PROVE  Below(a, b) \/ Below(b, a)
    BY DEF Laminar, Overlap, Below, Inside, Left, Right, Mid
  <2>1. CASE a \in {L, R} /\ b \in {L, R}
    BY <1>2, <2>1
  <2>2. CASE a \in {L, R} /\ b \notin {L, R}
    BY <1>1, <1>2, <1>5, <2>2
  <2>3. CASE a \notin {L, R} /\ b \in {L, R}
    BY <1>1, <1>2, <1>4, <1>5, <2>3
  <2>4. CASE a \notin {L, R} /\ b \notin {L, R}
    BY <1>1, <2>4 DEF TreeInv, Laminar
  <2> QED BY <2>1, <2>2, <2>3, <2>4
<1>7. \A d, e \in Ranges : Inside(d, e) => Overlap(d, e)
  BY RangeType DEF Inside, Overlap
<1>8. \A d, e \in Ranges : Inside(d, e) /\ Inside(e, c) => Inside(d, c)
  BY RangeType DEF Inside
<1>9. \A d, e \in Ranges : Inside(d, c) /\ Inside(c, Left(e)) => ~Inside(d, Right(e))
  BY RangeType, MidType DEF Inside, Left, Right
<1>10. DoneBelow'
  <2> SUFFICES ASSUME NEW e \in Ranges, NEW d \in Ranges,
                      pc'[d] # "none", e # d, Inside(d, e)
               PROVE  /\ pc'[e] # "called"
                      /\ pc'[e] \in {"merge", "copy", "returned"} => pc'[d] = "returned"
                      /\ pc'[e] = "wait" /\ Inside(d, Right(e)) => pc'[d] = "returned"
    BY DEF DoneBelow, Inside, Right, Mid
  <2>1. CASE e = c
    BY <1>1, <2>1
  <2>2. CASE e \in {L, R}
    <3>1. d # c /\ d \notin {L, R}
      BY <1>2, <2>2
    <3>2. pc[d] # "none" /\ Inside(d, c)
      BY <1>1, <1>2, <1>8, <2>2, <3>1
    <3> QED BY <1>1, <3>1, <3>2
  <2>3. CASE e \notin {c, L, R} /\ d \in {L, R}
    <3>1. pc'[e] = pc[e] /\ pc'[d] = "called"
      BY <1>1, <2>3
    <3>2. CASE pc[e] = "none"
      BY <3>1, <3>2
    <3>3. CASE pc[e] # "none"
      <4>1. Below(c, e)
        BY <1>1, <1>2, <1>3, <1>7, <2>3, <3>3
      <4>2. Inside(c, e)
        BY <4>1, BelowInside
      <4>3. /\ pc[e] \notin {"called", "merge", "copy", "returned"}
            /\ pc[e] = "wait" => ~Inside(c, Right(e))
        BY <1>1, <2>3, <4>2 DEF TreeInv, DoneBelow
      <4>4. pc[e] = "wait" => ~Inside(d, Right(e))
        BY <1>2, <1>9, <2>3, <4>1, <4>3 DEF Below
      <4> QED BY <3>1, <4>3, <4>4
    <3> QED BY <3>2, <3>3
  <2>4. CASE e \notin {c, L, R} /\ d \notin {L, R}
    <3>1. /\ pc[e] # "called"
          /\ pc[e] \in {"merge", "copy", "returned"} => pc[d] = "returned"
          /\ pc[e] = "wait" /\ Inside(d, Right(e)) => pc[d] = "returned"
      BY <1>1, <2>4 DEF TreeInv, DoneBelow
    <3>2. pc'[e] = pc[e] /\ (pc[d] = "returned" => pc'[d] = "returned")
      BY <1>1, <2>4
    <3> QED BY <3>1, <3>2
  <2> QED BY <2>1, <2>2, <2>3, <2>4
<1>11. \A d \in Ranges : pc'[d] \in {"right", "wait", "merge", "copy"} => Length(d) > Threshold
  BY <1>1, <1>2 DEF TreeInv
<1>12. \A p \in Ranges : status'[p] = "ok" => pc'[p] = "returned"
  <2>1. \A p \in Ranges : status'[p] = "ok" => status[p] = "ok"
    BY <1>2 DEF Fork, Ends, TypeOK
  <2>2. \A p \in Ranges : pc[p] = "returned" => pc'[p] = "returned"
    BY <1>1
  <2> QED BY <2>1, <2>2 DEF TreeInv
<1> QED BY <1>6, <1>10, <1>11, <1>12 DEF TreeInv, Length

LEMMA TreeStep ==
  ASSUME TypeOK, LocalInv, TreeInv, [Next]_vars
  PROVE  TreeInv'
<1>1. ASSUME NEW c \in Ranges, Fork(c) PROVE TreeInv'
  BY <1>1, ForkKeepsTree
<1>2. ASSUME NEW c \in Ranges, Sort(c) PROVE TreeInv'
  <2>1. \A d \in Ranges : pc[d] # "none" /\ d # c /\ Inside(d, c) => pc[d] = "returned"
    BY <1>2 DEF Sort, At, TreeInv, DoneBelow
  <2>2. pc[c] = "called" /\ pc' = [pc EXCEPT ![c] = "returned"] /\ status' = status
    BY <1>2 DEF Sort, At, Goto
  <2> QED BY <2>1, <2>2, Advance
<1>3. ASSUME NEW c \in Ranges, RightReturns(c) PROVE TreeInv'
  <2>1. pc[c] = "right" /\ pc' = [pc EXCEPT ![c] = "wait"] /\ status' = status
        /\ pc[Right(c)] = "returned" /\ Length(c) > Threshold
    BY <1>3 DEF RightReturns, At, Goto, TreeInv
  <2>2. Right(c) \in Ranges
    BY <2>1, Halves
  <2>3. \A d \in Ranges : pc[d] # "none" /\ d # c /\ Inside(d, Right(c)) => pc[d] = "returned"
    BY <2>1, <2>2 DEF TreeInv, DoneBelow
  <2> QED BY <2>1, <2>3, Advance
<1>4. ASSUME NEW c \in Ranges, Wait(c) PROVE TreeInv'
  <2>1. CASE status[Left(c)] = "ok"
    <3>1. pc[c] = "wait" /\ pc' = [pc EXCEPT ![c] = "merge"] /\ status' = status
          /\ Length(c) > Threshold
      BY <1>4, <2>1 DEF Wait, At, StartMerge, Goto, TreeInv
    <3>2. Left(c) \in Ranges /\ pc[Left(c)] = "returned"
      BY <2>1, <3>1, Halves DEF TreeInv
    <3>3. ASSUME NEW d \in Ranges, pc[d] # "none", d # c, Inside(d, c)
          PROVE  pc[d] = "returned"
      <4>1. Below(d, c)
        <5>1. Overlap(c, d) /\ ~Below(c, d)
          BY <3>3, RangeType, MidType DEF Overlap, Below, Inside, Left, Right
        <5> QED BY <3>1, <3>3, <5>1 DEF TreeInv, Laminar
      <4>2. CASE Inside(d, Left(c))
        BY <3>2, <3>3, <4>2 DEF TreeInv, DoneBelow
      <4>3. CASE Inside(d, Right(c))
        BY <3>1, <3>3, <4>3 DEF TreeInv, DoneBelow
      <4> QED BY <4>1, <4>2, <4>3 DEF Below
    <3> QED BY <3>1, <3>3, Advance
  <2>2. CASE status[Left(c)] # "ok"
    <3>1. pc' = pc /\ \A p \in Ranges : status'[p] = "ok" => status[p] = "ok"
      BY <1>4, <2>2 DEF Wait, Ends, TypeOK
    <3> QED BY <3>1 DEF TreeInv, Laminar, DoneBelow, Length, Overlap, Inside, Below,
                        Left, Right, Mid
  <2> QED BY <2>1, <2>2
<1>5. ASSUME NEW c \in Ranges, MergeEnds(c) PROVE TreeInv'
  <2>1. pc[c] = "merge" /\ pc' = [pc EXCEPT ![c] = "copy"] /\ status' = status
        /\ Length(c) > Threshold
    BY <1>5 DEF MergeEnds, At, Goto, TreeInv
  <2>2. \A d \in Ranges : pc[d] # "none" /\ d # c /\ Inside(d, c) => pc[d] = "returned"
    BY <2>1 DEF TreeInv, DoneBelow
  <2> QED BY <2>1, <2>2, Advance
<1>6. ASSUME NEW c \in Ranges, Return(c) PROVE TreeInv'
  <2>1. pc[c] = "copy" /\ pc' = [pc EXCEPT ![c] = "returned"] /\ status' = status
    BY <1>6 DEF Return, At, Goto
  <2>2. \A d \in Ranges : pc[d] # "none" /\ d # c /\ Inside(d, c) => pc[d] = "returned"
    BY <2>1 DEF TreeInv, DoneBelow
  <2> QED BY <2>1, <2>2, Advance
<1>7. ASSUME NEW c \in Ranges,
             Merge(c) \/ CopyBack(c) \/ Exit(c) \/ ForkFails(c) \/ Killed(c)
      PROVE  TreeInv'
  <2>1. pc' = pc /\ \A p \in Ranges : status'[p] = "ok" => pc[p] = "returned"
    BY <1>7 DEF Merge, CopyBack, Exit, ForkFails, Killed, At, Ends, TypeOK, TreeInv
  <2> QED BY <2>1 DEF TreeInv, Laminar, DoneBelow, Length, Overlap, Inside, Below,
                      Left, Right, Mid
<1>8. CASE UNCHANGED vars
  BY <1>8 DEF vars, TreeInv, Laminar, DoneBelow, Length, Overlap, Inside, Below, Left, Right, Mid
<1> QED BY <1>1, <1>2, <1>3, <1>4, <1>5, <1>6, <1>7, <1>8 DEF Next, Call
-----------------------------------------------------------------------------
THEOREM SortInvariant == Safety => []IInv
<1>1. Init => IInv
  BY TypeInit, TreeInit DEF IInv
<1>2. IInv /\ [Next]_vars => IInv'
  BY TypeStep, TreeStep DEF IInv
<1> QED BY <1>1, <1>2, PTL DEF Safety

(* Every variable of the sort keeps its type: the loops of merge and of the *)
(* copy never leave the range of their call.                                *)
THEOREM SortTypeCorrect == Safety => []TypeOK
<1>1. IInv => TypeOK
  BY DEF IInv
<1> QED BY <1>1, SortInvariant, PTL

(* parsort.c:82-110: for every length and threshold, and whatever forks     *)
(* fail and processes are killed, running processes that read or write      *)
(* their ranges are in disjoint ones, so that the lock the shared file does *)
(* not have is not needed.                                                  *)
THEOREM WorkIsDisjoint == Safety => []DisjointWork
<1>1. IInv => DisjointWork
  <2> SUFFICES ASSUME IInv, NEW c \in Ranges, NEW d \in Ranges,
                      Working(c), Working(d), c # d
               PROVE  Indices(c) \cap Indices(d) = {}
    BY DEF DisjointWork
  <2>1. /\ pc[c] \in {"called", "merge", "copy"} /\ pc[d] \in {"called", "merge", "copy"}
    BY DEF Working
  <2>2. ~Inside(c, d) /\ ~Inside(d, c)
    BY <2>1 DEF IInv, TreeInv, DoneBelow
  <2>3. ~Overlap(c, d)
    BY <2>1, <2>2, BelowInside DEF IInv, TreeInv, Laminar
  <2> QED BY <2>3, RangeType DEF Overlap, Indices
<1> QED BY <1>1, SortInvariant, PTL
-----------------------------------------------------------------------------
(***************************************************************************)
(* What the calls do to the elements of the file: none is lost but in a    *)
(* copy that was cut short, and success means sorted.                      *)
(***************************************************************************)
Dom == 0..Size - 1
Copies(c, j) == pc[c] = "copy" /\ j \in Indices(c)

(* The file as it will be when the copies in progress are complete: what    *)
(* they overwrite is in their temp_arr.                                     *)
Held ==
  [j \in Dom |->
     IF \E c \in Ranges : Copies(c, j)
     THEN LET c == CHOOSE c \in Ranges : Copies(c, j) IN temp[c][j - c[1] + 1]
     ELSE arr[j]]

HeldInv == SameElements(Held, orig, Dom)

(* The elements a merge has written are those it has taken. *)
WrittenPart(c, v) ==
  {j \in Indices(c) : j - c[1] < Len(temp[c]) /\ temp[c][j - c[1] + 1] = v}
TakenPart(c, v) ==
  {j \in Indices(c) : (j < left[c] \/ (Mid(c) <= j /\ j < right[c])) /\ arr[j] = v}

MergeInv ==
  \A c \in Ranges : pc[c] = "merge" =>
    \A v \in Values : Cardinality(WrittenPart(c, v)) = Cardinality(TakenPart(c, v))

CopyInv ==
  \A c \in Ranges : pc[c] = "copy" =>
    \A k \in 0..i[c] - 1 : arr[c[1] + k] = temp[c][k + 1]

LossInv == MergeInv /\ CopyInv /\ HeldInv

(* A call that has forked has two halves; a range that has returned stays   *)
(* sorted until a call around it starts to copy.                            *)
HalvesCalled ==
  \A c \in Ranges : pc[c] \in {"right", "wait", "merge", "copy"} =>
    /\ pc[Left(c)] # "none" /\ pc[Right(c)] # "none"
    /\ proc[Right(c)] = proc[c] /\ proc[Left(c)] = Left(c)

Settled(c) ==
  /\ pc[c] = "returned"
  /\ \A d \in Ranges :
       pc[d] # "none" /\ d # c /\ Inside(c, d) => pc[d] \in {"right", "wait", "merge"}

Ascending(f, S) == \A j, k \in S : j <= k => f[j] <= f[k]

SortedInv ==
  /\ \A c \in Ranges : Settled(c) => Ascending(arr, Indices(c))
  /\ \A c \in Ranges : pc[c] \in {"merge", "copy"} => Ascending(temp[c], 1..Len(temp[c]))
  /\ \A c \in Ranges : pc[c] = "merge" =>
       \A k \in 1..Len(temp[c]) :
         /\ \A j \in left[c]..Mid(c) - 1 : temp[c][k] <= arr[j]
         /\ \A j \in right[c]..c[2] - 1 : temp[c][k] <= arr[j]

(* Processes are calls that were made; below a call that merges all of them *)
(* have ended well.                                                         *)
ProcInv ==
  /\ \A c \in Ranges : pc[c] # "none" => Inside(c, proc[c])
  /\ \A p \in Ranges : status[p] # "none" => pc[p] # "none" /\ proc[p] = p
  /\ \A c, p \in Ranges : p # c /\ Inside(p, c) /\ pc[c] \in {"merge", "copy", "returned"}
       => status[p] \in {"none", "ok"}
  /\ \A c, p \in Ranges : Inside(p, Right(c)) /\ pc[c] = "wait"
       => status[p] \in {"none", "ok"}
-----------------------------------------------------------------------------
(* Counting *)

LEMMA CountSplit ==
  ASSUME NEW S, IsFiniteSet(S), NEW T, T \subseteq S, NEW f, NEW g, NEW v,
         \A j \in S \ T : f[j] = g[j],
         Count(f, T, v) = Count(g, T, v)
  PROVE  Count(f, S, v) = Count(g, S, v)
<1> DEFINE In(h) == {j \in T : h[j] = v}
           Out(h) == {j \in S \ T : h[j] = v}
<1>1. Out(f) = Out(g)
  OBVIOUS
<1>2. ASSUME NEW h
      PROVE  Cardinality({j \in S : h[j] = v}) = Cardinality(In(h)) + Cardinality(Out(h))
  <2>1. {j \in S : h[j] = v} = In(h) \cup Out(h) /\ In(h) \cap Out(h) = {}
    OBVIOUS
  <2>2. In(h) \subseteq S /\ Out(h) \subseteq S
    OBVIOUS
  <2> HIDE DEF In, Out
  <2>3. IsFiniteSet(In(h)) /\ IsFiniteSet(Out(h))
    BY <2>2, FS_Subset
  <2>4. Cardinality(In(h) \cup Out(h)) =
          Cardinality(In(h)) + Cardinality(Out(h)) - Cardinality(In(h) \cap Out(h))
    BY <2>3, FS_Union
  <2>5. Cardinality(In(h)) \in Nat /\ Cardinality(Out(h)) \in Nat /\ Cardinality({}) = 0
    BY <2>3, FS_CardinalityType, FS_EmptySet
  <2>6. Cardinality(In(h) \cap Out(h)) = 0
    BY <2>1, <2>5
  <2>7. Cardinality(In(h) \cup Out(h)) = Cardinality(In(h)) + Cardinality(Out(h))
    BY <2>4, <2>5, <2>6
  <2> QED BY <2>1, <2>7
<1>3. Cardinality(In(f)) = Cardinality(In(g))
  BY DEF Count
<1> HIDE DEF In, Out
<1> QED BY <1>1, <1>2, <1>3 DEF Count

LEMMA DomFinite == IsFiniteSet(Dom) /\ \A c \in Ranges : Indices(c) \subseteq Dom
<1>1. IsFiniteSet(Dom)
  BY FS_Interval, SizeAssumption DEF Dom
<1>2. \A c \in Ranges : Indices(c) \subseteq Dom
  BY RangeType, SizeAssumption DEF Indices, Dom
<1> QED BY <1>1, <1>2
-----------------------------------------------------------------------------
(* The virtual file *)

LEMMA BusyDisjoint ==
  ASSUME TypeOK, TreeInv, NEW c \in Ranges, NEW d \in Ranges, c # d,
         pc[c] \in {"called", "merge", "copy"}, pc[d] \in {"called", "merge", "copy"}
  PROVE  Indices(c) \cap Indices(d) = {}
<1>1. ~Inside(c, d) /\ ~Inside(d, c)
  BY DEF TreeInv, DoneBelow
<1>2. ~Overlap(c, d)
  BY <1>1, BelowInside DEF TreeInv, Laminar
<1> QED BY <1>2, RangeType DEF Overlap, Indices

HeldFacts ==
  \A j \in Dom :
    /\ \A c \in Ranges : Copies(c, j) => Held[j] = temp[c][j - c[1] + 1]
    /\ (\A c \in Ranges : ~Copies(c, j)) => Held[j] = arr[j]

LEMMA HeldAt == TypeOK /\ TreeInv => HeldFacts
<1> SUFFICES ASSUME TypeOK, TreeInv, NEW j \in Dom
             PROVE  /\ \A c \in Ranges : Copies(c, j) => Held[j] = temp[c][j - c[1] + 1]
                    /\ (\A c \in Ranges : ~Copies(c, j)) => Held[j] = arr[j]
  BY DEF HeldFacts
<1>1. ASSUME NEW c \in Ranges, Copies(c, j) PROVE Held[j] = temp[c][j - c[1] + 1]
  <2> DEFINE e == CHOOSE d \in Ranges : Copies(d, j)
  <2>1. e \in Ranges /\ Copies(e, j)
    BY <1>1
  <2>2. Held[j] = temp[e][j - e[1] + 1]
    BY <1>1 DEF Held
  <2> HIDE DEF e
  <2>3. e = c
    BY <1>1, <2>1, BusyDisjoint DEF Copies
  <2> QED BY <2>2, <2>3
<1>2. ASSUME \A c \in Ranges : ~Copies(c, j) PROVE Held[j] = arr[j]
  BY <1>2 DEF Held
<1> QED BY <1>1, <1>2

LEMMA HeldAtNext == TypeOK' /\ TreeInv' => HeldFacts'
BY HeldAt, PTL

(* A step that starts and ends no copy and leaves temp_arr of those in      *)
(* progress alone is seen only where nothing is copied.                     *)
LEMMA HeldOutside ==
  ASSUME TypeOK, TreeInv, TypeOK', TreeInv',
         \A c \in Ranges : pc'[c] = "copy" <=> pc[c] = "copy",
         \A c \in Ranges : pc[c] = "copy" => temp'[c] = temp[c],
         NEW j \in Dom,
         (\A c \in Ranges : ~Copies(c, j)) => arr'[j] = arr[j]
  PROVE  Held'[j] = Held[j]
<1>1. HeldFacts /\ HeldFacts'
  BY HeldAt, HeldAtNext
<1>2. \A c \in Ranges : Copies(c, j)' <=> Copies(c, j)
  BY DEF Copies, Indices
<1>3. CASE \E c \in Ranges : Copies(c, j)
  <2>1. PICK c \in Ranges : Copies(c, j)
    BY <1>3
  <2>2. Held[j] = temp[c][j - c[1] + 1]
    BY <1>1, <2>1 DEF HeldFacts
  <2>3. Held'[j] = temp'[c][j - c[1] + 1]
    BY <1>1, <1>2, <2>1 DEF HeldFacts, Dom
  <2> QED BY <2>1, <2>2, <2>3 DEF Copies
<1>4. CASE \A c \in Ranges : ~Copies(c, j)
  <2>1. Held[j] = arr[j]
    BY <1>1, <1>4 DEF HeldFacts
  <2>2. Held'[j] = arr'[j]
    BY <1>1, <1>2, <1>4 DEF HeldFacts, Dom
  <2> QED BY <1>4, <2>1, <2>2
<1> QED BY <1>3, <1>4

LEMMA HeldKept ==
  ASSUME HeldInv, orig' = orig, \A j \in Dom : Held'[j] = Held[j]
  PROVE  HeldInv'
<1>1. ASSUME NEW v PROVE Count(Held', Dom, v) = Count(Held, Dom, v)
  <2>1. {j \in Dom : Held'[j] = v} = {j \in Dom : Held[j] = v}
    OBVIOUS
  <2> QED BY <2>1 DEF Count
<1> QED BY <1>1 DEF HeldInv, SameElements, Count, Dom

(* A step may permute the elements of one range. *)
LEMMA HeldPermuted ==
  ASSUME HeldInv, orig' = orig, NEW c \in Ranges,
         \A j \in Dom \ Indices(c) : Held'[j] = Held[j],
         \A v \in Values : Count(Held', Indices(c), v) = Count(Held, Indices(c), v)
  PROVE  HeldInv'
<1>1. \A v \in Values : Count(Held', Dom, v) = Count(Held, Dom, v)
  BY CountSplit, DomFinite
<1> QED BY <1>1 DEF HeldInv, SameElements, Count, Dom
-----------------------------------------------------------------------------
(* Nothing is lost *)

LEMMA LossInit == Init => LossInv
<1> SUFFICES ASSUME Init PROVE LossInv
  OBVIOUS
<1>1. \A c \in Ranges : pc[c] \notin {"merge", "copy"}
  BY DEF Init
<1>2. \A j \in Dom : Held[j] = arr[j]
  BY <1>1, HeldAt, TypeInit, TreeInit DEF HeldFacts, Copies
<1>3. \A v : {j \in Dom : Held[j] = v} = {j \in Dom : orig[j] = v}
  BY <1>2 DEF Init
<1> QED BY <1>1, <1>3 DEF LossInv, MergeInv, CopyInv, HeldInv, SameElements, Count

(* A merge and a copy do not see what the others do to the file. *)
LEMMA MergeKept ==
  ASSUME MergeInv, NEW c \in Ranges, pc[c] = "merge",
         left'[c] = left[c], right'[c] = right[c], temp'[c] = temp[c],
         \A j \in Indices(c) : arr'[j] = arr[j],
         NEW v \in Values
  PROVE  Cardinality(WrittenPart(c, v)') = Cardinality(TakenPart(c, v)')
<1>1. WrittenPart(c, v)' = WrittenPart(c, v)
  BY DEF WrittenPart, Indices
<1>2. TakenPart(c, v)' = TakenPart(c, v)
  BY DEF TakenPart, Indices, Mid
<1> QED BY <1>1, <1>2 DEF MergeInv

LEMMA CopyKept ==
  ASSUME TypeOK, LocalInv, CopyInv, NEW c \in Ranges, pc[c] = "copy",
         i'[c] = i[c], temp'[c] = temp[c],
         \A j \in Indices(c) : arr'[j] = arr[j],
         NEW k \in 0..i'[c] - 1
  PROVE  arr'[c[1] + k] = temp'[c][k + 1]
<1>1. i[c] <= Length(c) /\ i[c] \in Int /\ c[1] \in Int /\ c[2] \in Int
  BY RangeType DEF LocalInv, TypeOK
<1>2. c[1] + k \in Indices(c)
  BY <1>1 DEF Indices, Length
<1> QED BY <1>2 DEF CopyInv

(* One turn of the loop of merge moves one element from the halves to temp. *)
LEMMA MergeTurn ==
  ASSUME TypeOK, LocalInv, MergeInv, NEW c \in Ranges, Merge(c), NEW v \in Values
  PROVE  Cardinality(WrittenPart(c, v)') = Cardinality(TakenPart(c, v)')
<1> DEFINE n == Len(temp[c])
<1>1. PICK x \in Indices(c) :
        /\ temp' = [temp EXCEPT ![c] = Append(@, arr[x])]
        /\ \/ x = left[c] /\ left'[c] = left[c] + 1 /\ right'[c] = right[c] /\ x < Mid(c)
           \/ x = right[c] /\ right'[c] = right[c] + 1 /\ left'[c] = left[c] /\ Mid(c) <= x
  <2>1. /\ left[c] \in c[1]..Mid(c) /\ right[c] \in Mid(c)..c[2]
        /\ c[1] \in Int /\ c[2] \in Int /\ Mid(c) \in c[1]..c[2]
    BY MidType, RangeType DEF Merge, At, LocalInv
  <2>2. CASE TakeLeft(c)
    <3>1. left[c] \in Indices(c) /\ left[c] < Mid(c)
      BY <2>1, <2>2 DEF TakeLeft, Indices
    <3>2. temp' = [temp EXCEPT ![c] = Append(@, arr[left[c]])]
          /\ left'[c] = left[c] + 1 /\ right'[c] = right[c]
      BY <2>2 DEF TakeLeft, TypeOK
    <3> QED BY <3>1, <3>2
  <2>3. CASE TakeRight(c)
    <3>1. right[c] \in Indices(c) /\ Mid(c) <= right[c]
      BY <2>1, <2>3 DEF TakeRight, Indices
    <3>2. temp' = [temp EXCEPT ![c] = Append(@, arr[right[c]])]
          /\ right'[c] = right[c] + 1 /\ left'[c] = left[c]
      BY <2>3 DEF TakeRight, TypeOK
    <3> QED BY <3>1, <3>2
  <2> QED BY <2>2, <2>3 DEF Merge
<1>2. /\ left[c] \in c[1]..Mid(c) /\ right[c] \in Mid(c)..c[2]
      /\ c[1] \in Int /\ c[2] \in Int /\ Mid(c) \in c[1]..c[2]
      /\ n = (left[c] - c[1]) + (right[c] - Mid(c)) /\ n \in Nat
      /\ temp[c] \in Seq(Values) /\ arr[x] \in Values
  BY MidType, RangeType, DomFinite DEF Merge, At, LocalInv, TypeOK, Dom
<1>3. /\ Len(temp'[c]) = n + 1 /\ temp'[c][n + 1] = arr[x]
      /\ \A k \in 1..n : temp'[c][k] = temp[c][k]
  <2>1. temp'[c] = Append(temp[c], arr[x])
    BY <1>1 DEF TypeOK
  <2> QED BY <1>2, <2>1
<1> DEFINE y == c[1] + n
<1>4. y \in Indices(c) /\ y \in Int /\ x \in Int
  <2>1. x < c[2] /\ c[1] <= x /\ x \in Int
    BY <1>1, <1>2 DEF Indices
  <2>2. left[c] \in Int /\ right[c] \in Int /\ Mid(c) \in Int /\ left[c] <= Mid(c)
        /\ right[c] <= c[2]
    BY <1>2
  <2>3. CASE x = left[c] /\ x < Mid(c)
    <3>1. n < c[2] - c[1]
      BY <1>2, <2>2, <2>3
    <3> QED BY <1>2, <2>1, <3>1 DEF Indices
  <2>4. CASE x = right[c]
    <3>1. n < c[2] - c[1]
      BY <1>2, <2>1, <2>2, <2>4
    <3> QED BY <1>2, <2>1, <3>1 DEF Indices
  <2> QED BY <1>1, <2>3, <2>4
<1>5. arr' = arr
  BY DEF Merge
<1>6. WrittenPart(c, v)' = IF arr[x] = v THEN WrittenPart(c, v) \cup {y} ELSE WrittenPart(c, v)
  <2>1. ASSUME NEW j \in Indices(c)
        PROVE  j \in WrittenPart(c, v)' <=> j \in WrittenPart(c, v) \/ (j = y /\ arr[x] = v)
    <3>0. j \in Int /\ c[1] <= j
      BY <1>2 DEF Indices
    <3>1. CASE j = y
      <4>1. j - c[1] = n /\ j - c[1] < n + 1 /\ ~(j - c[1] < n) /\ j - c[1] + 1 = n + 1
        BY <1>2, <3>0, <3>1
      <4> QED BY <1>3, <3>1, <4>1 DEF WrittenPart, Indices
    <3>2. CASE j # y
      <4>0. c[1] \in Int /\ n \in Int /\ j # c[1] + n
        BY <1>2, <3>2
      <4>1. j - c[1] < n + 1 <=> j - c[1] < n
        <5> HIDE DEF n
        <5> QED BY <3>0, <4>0
      <4>2. j - c[1] < n => j - c[1] + 1 \in 1..n
        BY <1>2, <3>0
      <4> QED BY <1>3, <3>2, <4>1, <4>2 DEF WrittenPart, Indices
    <3> QED BY <3>1, <3>2
  <2>2. WrittenPart(c, v)' \subseteq Indices(c) /\ WrittenPart(c, v) \subseteq Indices(c)
    BY DEF WrittenPart, Indices
  <2> QED BY <1>4, <2>1, <2>2
<1>7. TakenPart(c, v)' = IF arr[x] = v THEN TakenPart(c, v) \cup {x} ELSE TakenPart(c, v)
  <2>1. ASSUME NEW j \in Indices(c)
        PROVE  j \in TakenPart(c, v)' <=> j \in TakenPart(c, v) \/ (j = x /\ arr[x] = v)
    <3>0. j \in Int /\ c[1] <= j /\ left[c] \in Int /\ right[c] \in Int /\ Mid(c) \in Int
      BY <1>2 DEF Indices
    <3>1. (j < left'[c] \/ (Mid(c) <= j /\ j < right'[c]))
            <=> (j < left[c] \/ (Mid(c) <= j /\ j < right[c])) \/ j = x
      <4>1. left[c] <= Mid(c) /\ Mid(c) <= right[c]
        BY <1>2
      <4>2. CASE x = left[c] /\ left'[c] = left[c] + 1 /\ right'[c] = right[c]
        BY <3>0, <4>1, <4>2
      <4>3. CASE x = right[c] /\ right'[c] = right[c] + 1 /\ left'[c] = left[c]
        BY <3>0, <4>1, <4>3
      <4> QED BY <1>1, <4>2, <4>3
    <3> QED BY <1>5, <3>1 DEF TakenPart, Indices, Mid
  <2>2. TakenPart(c, v)' \subseteq Indices(c) /\ TakenPart(c, v) \subseteq Indices(c)
    BY DEF TakenPart, Indices
  <2> QED BY <1>1, <2>1, <2>2
<1>8. y \notin WrittenPart(c, v) /\ x \notin TakenPart(c, v)
  <2>1. ~(y - c[1] < n)
    BY <1>2
  <2>2. ~(x < left[c] \/ (Mid(c) <= x /\ x < right[c]))
    BY <1>1, <1>2, <1>4
  <2> QED BY <2>1, <2>2 DEF WrittenPart, TakenPart
<1>9. IsFiniteSet(WrittenPart(c, v)) /\ IsFiniteSet(TakenPart(c, v))
  BY DomFinite, FS_Subset DEF WrittenPart, TakenPart
<1>10. Cardinality(WrittenPart(c, v)) = Cardinality(TakenPart(c, v))
  BY DEF MergeInv, Merge, At
<1> HIDE DEF n, y
<1>11. CASE arr[x] = v
  <2>1. Cardinality(WrittenPart(c, v)') = Cardinality(WrittenPart(c, v)) + 1
    BY <1>6, <1>8, <1>9, <1>11, FS_AddElement
  <2>2. Cardinality(TakenPart(c, v)') = Cardinality(TakenPart(c, v)) + 1
    BY <1>7, <1>8, <1>9, <1>11, FS_AddElement
  <2> QED BY <1>10, <2>1, <2>2
<1> QED BY <1>6, <1>7, <1>10, <1>11

(* A step that leaves the variables of calls that merge or copy alone, and  *)
(* their ranges, keeps both invariants of theirs.                           *)
LEMMA OthersKept ==
  ASSUME TypeOK, LocalInv, MergeInv, CopyInv, NEW c \in Ranges,
         left'[c] = left[c], right'[c] = right[c], temp'[c] = temp[c], i'[c] = i[c],
         pc'[c] \in {"merge", "copy"} => pc'[c] = pc[c] /\ \A j \in Indices(c) : arr'[j] = arr[j]
  PROVE  /\ pc'[c] = "merge" =>
              \A v \in Values : Cardinality(WrittenPart(c, v)') = Cardinality(TakenPart(c, v)')
         /\ pc'[c] = "copy" => \A k \in 0..i'[c] - 1 : arr'[c[1] + k] = temp'[c][k + 1]
<1>1. CASE pc'[c] = "merge"
  BY <1>1, MergeKept
<1>2. CASE pc'[c] = "copy"
  BY <1>2, CopyKept
<1> QED BY <1>1, <1>2

LEMMA PartsKept ==
  ASSUME TypeOK, LocalInv, MergeInv, CopyInv,
         UNCHANGED <<left, right, temp, i>>,
         \A c \in Ranges : pc'[c] \in {"merge", "copy"} =>
           pc'[c] = pc[c] /\ \A j \in Indices(c) : arr'[j] = arr[j]
  PROVE  MergeInv' /\ CopyInv'
BY OthersKept DEF MergeInv, CopyInv, WrittenPart, TakenPart, Indices, Mid

(* Steps that neither write to the file nor start or end a loop. *)
LEMMA LossQuiet ==
  ASSUME IInv, IInv', LossInv, UNCHANGED <<arr, orig, left, right, temp, i>>,
         \A c \in Ranges : pc'[c] \in {"merge", "copy"} \/ pc[c] \in {"merge", "copy"}
           => pc'[c] = pc[c]
  PROVE  LossInv'
<1>1. MergeInv' /\ CopyInv'
  BY PartsKept DEF IInv, LossInv
<1>2. \A j \in Dom : Held'[j] = Held[j]
  BY HeldOutside DEF IInv
<1> QED BY <1>1, <1>2, HeldKept DEF LossInv

LEMMA LossSort ==
  ASSUME IInv, IInv', LossInv, NEW c \in Ranges, Sort(c)
  PROVE  LossInv'
<1>1. PICK f \in [Indices(c) -> Values] :
        /\ SameElements(f, arr, Indices(c))
        /\ arr' = [j \in DOMAIN arr |-> IF j \in Indices(c) THEN f[j] ELSE arr[j]]
  BY DEF Sort
<1>2. /\ pc[c] = "called" /\ pc'[c] = "returned"
      /\ \A d \in Ranges : d # c => pc'[d] = pc[d]
      /\ UNCHANGED <<orig, left, right, temp, i>>
  BY DEF Sort, At, Goto, IInv, TypeOK, locals
<1>3. \A j \in Dom : arr'[j] = IF j \in Indices(c) THEN f[j] ELSE arr[j]
  BY <1>1 DEF IInv, TypeOK, Dom
<1>4. \A d \in Ranges : pc'[d] \in {"merge", "copy"} =>
        pc'[d] = pc[d] /\ Indices(d) \cap Indices(c) = {}
  BY <1>2, BusyDisjoint DEF IInv
<1>5. MergeInv' /\ CopyInv'
  <2>1. \A d \in Ranges : pc'[d] \in {"merge", "copy"} =>
          pc'[d] = pc[d] /\ \A j \in Indices(d) : arr'[j] = arr[j]
    BY <1>3, <1>4, DomFinite
  <2> QED BY <1>2, <2>1, PartsKept DEF IInv, LossInv
<1>6. \A j \in Dom \ Indices(c) : Held'[j] = Held[j]
  <2> SUFFICES ASSUME NEW j \in Dom \ Indices(c) PROVE Held'[j] = Held[j]
    OBVIOUS
  <2>1. arr'[j] = arr[j]
    BY <1>3
  <2> QED BY <1>2, <2>1, HeldOutside DEF IInv
<1>7. \A j \in Indices(c) : Held[j] = arr[j] /\ Held'[j] = f[j]
  <2>1. \A j \in Indices(c), d \in Ranges : ~Copies(d, j) /\ ~Copies(d, j)'
    BY <1>2, <1>4, BusyDisjoint DEF Copies, IInv, Indices
  <2>2. HeldFacts /\ HeldFacts'
    BY HeldAt, HeldAtNext DEF IInv
  <2>3. \A j \in Indices(c) : Held[j] = arr[j]
    BY <2>1, <2>2, DomFinite DEF HeldFacts
  <2>4. \A j \in Indices(c) : Held'[j] = arr'[j]
    BY <2>1, <2>2, DomFinite DEF HeldFacts, Dom
  <2> QED BY <1>3, <2>3, <2>4, DomFinite
<1>8. \A v \in Values : Count(Held', Indices(c), v) = Count(Held, Indices(c), v)
  <2> SUFFICES ASSUME NEW v \in Values
               PROVE  Count(Held', Indices(c), v) = Count(Held, Indices(c), v)
    OBVIOUS
  <2>1. {j \in Indices(c) : Held'[j] = v} = {j \in Indices(c) : f[j] = v}
    BY <1>7
  <2>2. {j \in Indices(c) : Held[j] = v} = {j \in Indices(c) : arr[j] = v}
    BY <1>7
  <2> QED BY <1>1, <2>1, <2>2 DEF SameElements, Count
<1> QED BY <1>2, <1>5, <1>6, <1>8, HeldPermuted DEF LossInv

LEMMA LossWait ==
  ASSUME IInv, IInv', LossInv, NEW c \in Ranges, Wait(c)
  PROVE  LossInv'
<1>1. CASE StartMerge(c) /\ UNCHANGED status
  <2>1. /\ pc[c] = "wait" /\ pc'[c] = "merge" /\ temp'[c] = << >>
        /\ left'[c] = c[1] /\ right'[c] = Mid(c)
        /\ \A d \in Ranges : d # c =>
             /\ pc'[d] = pc[d] /\ left'[d] = left[d] /\ right'[d] = right[d]
             /\ temp'[d] = temp[d]
        /\ UNCHANGED <<arr, orig, i>>
    BY <1>1 DEF Wait, At, StartMerge, Goto, IInv, TypeOK
  <2>2. \A v : WrittenPart(c, v)' = {} /\ TakenPart(c, v)' = {}
    <3>1. \A j \in Indices(c) : ~(j - c[1] < 0) /\ ~(j < c[1])
                                /\ ~(Mid(c) <= j /\ j < Mid(c))
      BY RangeType, MidType DEF Indices
    <3> QED BY <2>1, <3>1 DEF WrittenPart, TakenPart, Indices, Mid
  <2>3. MergeInv'
    <3> SUFFICES ASSUME NEW d \in Ranges, pc'[d] = "merge", NEW v \in Values
                 PROVE  Cardinality(WrittenPart(d, v)') = Cardinality(TakenPart(d, v)')
      BY DEF MergeInv, WrittenPart, TakenPart, Indices, Mid
    <3>1. CASE d = c
      BY <2>2, <3>1
    <3>2. CASE d # c
      BY <2>1, <3>2, MergeKept DEF LossInv
    <3> QED BY <3>1, <3>2
  <2>4. CopyInv'
    <3> SUFFICES ASSUME NEW d \in Ranges, pc'[d] = "copy", NEW k \in 0..i'[d] - 1
                 PROVE  arr'[d[1] + k] = temp'[d][k + 1]
      BY DEF CopyInv
    <3> QED BY <2>1, CopyKept DEF IInv, LossInv
  <2>5. \A j \in Dom : Held'[j] = Held[j]
    BY <2>1, HeldOutside DEF IInv
  <2> QED BY <2>1, <2>3, <2>4, <2>5, HeldKept DEF LossInv
<1>2. CASE UNCHANGED <<pc, left, right, temp>>
  BY <1>2, LossQuiet DEF Wait
<1> QED BY <1>1, <1>2 DEF Wait

LEMMA LossMerge ==
  ASSUME IInv, IInv', LossInv, NEW c \in Ranges, Merge(c)
  PROVE  LossInv'
<1>1. /\ pc[c] = "merge" /\ UNCHANGED <<arr, orig, pc, i>>
      /\ \A d \in Ranges : d # c =>
           left'[d] = left[d] /\ right'[d] = right[d] /\ temp'[d] = temp[d]
  <2>1. pc[c] = "merge" /\ UNCHANGED <<arr, orig, pc, i>> /\ TypeOK
    BY DEF Merge, At, IInv
  <2>2. CASE TakeLeft(c)
    BY <2>1, <2>2 DEF TakeLeft, TypeOK
  <2>3. CASE TakeRight(c)
    BY <2>1, <2>3 DEF TakeRight, TypeOK
  <2> QED BY <2>1, <2>2, <2>3 DEF Merge
<1>2. MergeInv'
  <2> SUFFICES ASSUME NEW d \in Ranges, pc'[d] = "merge", NEW v \in Values
               PROVE  Cardinality(WrittenPart(d, v)') = Cardinality(TakenPart(d, v)')
    BY DEF MergeInv, WrittenPart, TakenPart, Indices, Mid
  <2>1. CASE d = c
    BY <2>1, MergeTurn DEF IInv, LossInv
  <2>2. CASE d # c
    BY <1>1, <2>2, MergeKept DEF LossInv
  <2> QED BY <2>1, <2>2
<1>3. CopyInv'
  <2> SUFFICES ASSUME NEW d \in Ranges, pc'[d] = "copy", NEW k \in 0..i'[d] - 1
               PROVE  arr'[d[1] + k] = temp'[d][k + 1]
    BY DEF CopyInv
  <2> QED BY <1>1, CopyKept DEF IInv, LossInv
<1>4. \A j \in Dom : Held'[j] = Held[j]
  BY <1>1, HeldOutside DEF IInv
<1> QED BY <1>1, <1>2, <1>3, <1>4, HeldKept DEF LossInv

(* When merge is done the copy may begin: temp_arr holds what the range does. *)
LEMMA LossMergeEnds ==
  ASSUME IInv, IInv', LossInv, NEW c \in Ranges, MergeEnds(c)
  PROVE  LossInv'
<1>1. /\ pc[c] = "merge" /\ pc'[c] = "copy" /\ i'[c] = 0
      /\ \A d \in Ranges : d # c => pc'[d] = pc[d] /\ i'[d] = i[d]
      /\ UNCHANGED <<arr, orig, left, right, temp>>
  BY DEF MergeEnds, At, Goto, IInv, TypeOK
<1>2. /\ left[c] = Mid(c) /\ right[c] = c[2] /\ Len(temp[c]) = c[2] - c[1]
      /\ c[1] \in Int /\ c[2] \in Int /\ Mid(c) \in Int
  <2>1. /\ left[c] \in c[1]..Mid(c) /\ right[c] \in Mid(c)..c[2]
        /\ c[1] \in Int /\ c[2] \in Int /\ Mid(c) \in c[1]..c[2]
        /\ Len(temp[c]) = (left[c] - c[1]) + (right[c] - Mid(c))
        /\ left[c] >= Mid(c) /\ right[c] >= c[2]
    BY <1>1, MidType, RangeType DEF MergeEnds, IInv, LocalInv
  <2>2. left[c] = Mid(c) /\ right[c] = c[2] /\ Mid(c) \in Int
    BY <2>1
  <2> QED BY <2>1, <2>2
<1>3. MergeInv'
  <2> SUFFICES ASSUME NEW d \in Ranges, pc'[d] = "merge", NEW v \in Values
               PROVE  Cardinality(WrittenPart(d, v)') = Cardinality(TakenPart(d, v)')
    BY DEF MergeInv, WrittenPart, TakenPart, Indices, Mid
  <2> QED BY <1>1, MergeKept DEF LossInv
<1>4. CopyInv'
  <2> SUFFICES ASSUME NEW d \in Ranges, pc'[d] = "copy", NEW k \in 0..i'[d] - 1
               PROVE  arr'[d[1] + k] = temp'[d][k + 1]
    BY DEF CopyInv
  <2>1. CASE d = c
    BY <1>1, <2>1
  <2>2. CASE d # c
    BY <1>1, <2>2, CopyKept DEF IInv, LossInv
  <2> QED BY <2>1, <2>2
<1>5. \A d \in Ranges, j \in Dom : d # c => (Copies(d, j)' <=> Copies(d, j))
  BY <1>1 DEF Copies, Indices
<1>6. \A j \in Indices(c), d \in Ranges : ~Copies(d, j)
  BY <1>1, BusyDisjoint DEF Copies, IInv
<1>7. HeldFacts /\ HeldFacts'
  BY HeldAt, HeldAtNext DEF IInv
<1>8. \A j \in Indices(c) : Held[j] = arr[j] /\ Held'[j] = temp[c][j - c[1] + 1]
  <2>1. \A j \in Indices(c) : Copies(c, j)'
    BY <1>1 DEF Copies, Indices
  <2>2. \A j \in Indices(c) : Held'[j] = temp'[c][j - c[1] + 1]
    BY <1>7, <2>1, DomFinite DEF HeldFacts, Dom
  <2> QED BY <1>1, <1>6, <1>7, <2>2, DomFinite DEF HeldFacts
<1>9. ASSUME NEW j \in Dom \ Indices(c) PROVE Held'[j] = Held[j]
  <2>1. ~Copies(c, j) /\ ~Copies(c, j)'
    BY DEF Copies, Indices
  <2>2. CASE \E d \in Ranges : Copies(d, j)
    <3>1. PICK d \in Ranges : Copies(d, j)
      BY <2>2
    <3>2. Copies(d, j)'
      BY <1>5, <2>1, <3>1
    <3>3. Held[j] = temp[d][j - d[1] + 1]
      BY <1>7, <3>1 DEF HeldFacts
    <3>4. Held'[j] = temp'[d][j - d[1] + 1]
      BY <1>7, <3>2 DEF HeldFacts, Dom
    <3> QED BY <1>1, <3>3, <3>4
  <2>3. CASE \A d \in Ranges : ~Copies(d, j)
    <3>1. \A d \in Ranges : ~Copies(d, j)'
      BY <1>5, <2>1, <2>3
    <3>2. Held[j] = arr[j]
      BY <1>7, <2>3 DEF HeldFacts
    <3>3. Held'[j] = arr'[j]
      BY <1>7, <3>1 DEF HeldFacts, Dom
    <3> QED BY <1>1, <3>2, <3>3
  <2> QED BY <2>2, <2>3
<1>10. \A v \in Values : Count(Held', Indices(c), v) = Count(Held, Indices(c), v)
  <2> SUFFICES ASSUME NEW v \in Values
               PROVE  Count(Held', Indices(c), v) = Count(Held, Indices(c), v)
    OBVIOUS
  <2>0. \A j \in Indices(c) :
          /\ j - c[1] < Len(temp[c])
          /\ j < left[c] \/ (Mid(c) <= j /\ j < right[c])
    BY <1>2 DEF Indices
  <2>1. {j \in Indices(c) : Held'[j] = v} = WrittenPart(c, v)
    BY <1>8, <2>0 DEF WrittenPart
  <2>2. {j \in Indices(c) : Held[j] = v} = TakenPart(c, v)
    BY <1>8, <2>0 DEF TakenPart
  <2> QED BY <1>1, <2>1, <2>2 DEF LossInv, MergeInv, Count
<1> QED BY <1>1, <1>3, <1>4, <1>9, <1>10, HeldPermuted DEF LossInv

LEMMA LossCopyBack ==
  ASSUME IInv, IInv', LossInv, NEW c \in Ranges, CopyBack(c)
  PROVE  LossInv'
<1> DEFINE x == c[1] + i[c]
<1>1. /\ pc[c] = "copy" /\ i[c] < Length(c) /\ i'[c] = i[c] + 1
      /\ arr' = [arr EXCEPT ![x] = temp[c][i[c] + 1]]
      /\ \A d \in Ranges : d # c => i'[d] = i[d]
      /\ UNCHANGED <<orig, pc, left, right, temp>>
  BY DEF CopyBack, At, IInv, TypeOK
<1>2. i[c] \in Nat /\ c[1] \in Int /\ c[2] \in Int
  BY RangeType DEF IInv, TypeOK
<1>3. x \in Indices(c)
  BY <1>1, <1>2 DEF Indices, Length
<1>4. /\ arr'[x] = temp[c][i[c] + 1]
      /\ \A j \in Dom : j # x => arr'[j] = arr[j]
  BY <1>1, <1>3, DomFinite DEF IInv, TypeOK, Dom
<1>5. \A d \in Ranges : d # c /\ pc[d] \in {"merge", "copy"} =>
        \A j \in Indices(d) : arr'[j] = arr[j]
  <2> HIDE DEF x
  <2> SUFFICES ASSUME NEW d \in Ranges, d # c, pc[d] \in {"merge", "copy"}, NEW j \in Indices(d)
               PROVE  arr'[j] = arr[j]
    OBVIOUS
  <2>1. Indices(d) \cap Indices(c) = {}
    BY <1>1, BusyDisjoint DEF IInv
  <2> QED BY <1>3, <1>4, <2>1, DomFinite
<1>6. MergeInv'
  <2> SUFFICES ASSUME NEW d \in Ranges, pc'[d] = "merge", NEW v \in Values
               PROVE  Cardinality(WrittenPart(d, v)') = Cardinality(TakenPart(d, v)')
    BY DEF MergeInv, WrittenPart, TakenPart, Indices, Mid
  <2>1. d # c /\ pc[d] = "merge"
    BY <1>1
  <2> QED BY <1>1, <1>5, <2>1, MergeKept DEF LossInv
<1>7. CopyInv'
  <2> SUFFICES ASSUME NEW d \in Ranges, pc'[d] = "copy", NEW k \in 0..i'[d] - 1
               PROVE  arr'[d[1] + k] = temp'[d][k + 1]
    BY DEF CopyInv
  <2>1. CASE d = c /\ k = i[c]
    BY <1>1, <1>4, <2>1
  <2>2. CASE d = c /\ k # i[c]
    <3>0. k \in Int /\ 0 <= k /\ k <= i[c]
      BY <1>1, <1>2, <2>2
    <3>1. k \in 0..i[c] - 1
      BY <1>2, <2>2, <3>0
    <3>2. c[1] + k # x /\ c[1] + k \in Indices(c)
      BY <1>1, <1>2, <2>2, <3>0, <3>1 DEF Indices, Length
    <3>3. arr[c[1] + k] = temp[c][k + 1]
      BY <1>1, <3>1 DEF LossInv, CopyInv
    <3> QED BY <1>1, <1>4, <2>2, <3>2, <3>3, DomFinite
  <2>3. CASE d # c
    BY <1>1, <1>5, <2>3, CopyKept DEF IInv, LossInv
  <2> QED BY <2>1, <2>2, <2>3
<1>8. \A j \in Dom : Held'[j] = Held[j]
  <2> SUFFICES ASSUME NEW j \in Dom PROVE Held'[j] = Held[j]
    OBVIOUS
  <2>1. (\A d \in Ranges : ~Copies(d, j)) => arr'[j] = arr[j]
    BY <1>1, <1>3, <1>4 DEF Copies
  <2> QED BY <1>1, <2>1, HeldOutside DEF IInv
<1> QED BY <1>1, <1>6, <1>7, <1>8, HeldKept DEF LossInv

LEMMA LossReturn ==
  ASSUME IInv, IInv', LossInv, NEW c \in Ranges, Return(c)
  PROVE  LossInv'
<1>1. /\ pc[c] = "copy" /\ pc'[c] = "returned" /\ i[c] = Length(c)
      /\ \A d \in Ranges : d # c => pc'[d] = pc[d] /\ temp'[d] = temp[d]
      /\ UNCHANGED <<arr, orig, left, right, i>>
  BY DEF Return, At, Goto, IInv, TypeOK
<1>2. MergeInv'
  <2> SUFFICES ASSUME NEW d \in Ranges, pc'[d] = "merge", NEW v \in Values
               PROVE  Cardinality(WrittenPart(d, v)') = Cardinality(TakenPart(d, v)')
    BY DEF MergeInv, WrittenPart, TakenPart, Indices, Mid
  <2> QED BY <1>1, MergeKept DEF LossInv
<1>3. CopyInv'
  <2> SUFFICES ASSUME NEW d \in Ranges, pc'[d] = "copy", NEW k \in 0..i'[d] - 1
               PROVE  arr'[d[1] + k] = temp'[d][k + 1]
    BY DEF CopyInv
  <2> QED BY <1>1, CopyKept DEF IInv, LossInv
<1>4. HeldFacts /\ HeldFacts'
  BY HeldAt, HeldAtNext DEF IInv
<1>5. \A d \in Ranges, j \in Dom : d # c => (Copies(d, j)' <=> Copies(d, j))
  BY <1>1 DEF Copies, Indices
<1>6. \A j \in Dom : ~Copies(c, j)'
  BY <1>1 DEF Copies
<1>7. ASSUME NEW j \in Dom PROVE Held'[j] = Held[j]
  <2>1. CASE j \in Indices(c)
    <3>1. \A d \in Ranges : ~Copies(d, j)'
      BY <1>1, <1>5, <1>6, <2>1, BusyDisjoint DEF Copies, IInv
    <3>2. Held'[j] = arr'[j]
      BY <1>4, <3>1 DEF HeldFacts, Dom
    <3>3. Held[j] = temp[c][j - c[1] + 1]
      BY <1>1, <1>4, <2>1 DEF HeldFacts, Copies
    <3>4. j - c[1] \in 0..i[c] - 1 /\ c[1] + (j - c[1]) = j
      BY <1>1, <2>1, RangeType DEF Indices, Length
    <3>5. arr[c[1] + (j - c[1])] = temp[c][(j - c[1]) + 1]
      BY <1>1, <3>4 DEF LossInv, CopyInv
    <3> QED BY <1>1, <3>2, <3>3, <3>4, <3>5
  <2>2. CASE j \notin Indices(c) /\ \E d \in Ranges : Copies(d, j)
    <3>1. PICK d \in Ranges : Copies(d, j)
      BY <2>2
    <3>2. d # c /\ Copies(d, j)'
      BY <1>5, <2>2, <3>1 DEF Copies
    <3>3. Held[j] = temp[d][j - d[1] + 1]
      BY <1>4, <3>1 DEF HeldFacts
    <3>4. Held'[j] = temp'[d][j - d[1] + 1]
      BY <1>4, <3>2 DEF HeldFacts, Dom
    <3> QED BY <1>1, <3>2, <3>3, <3>4
  <2>3. CASE \A d \in Ranges : ~Copies(d, j)
    <3>1. \A d \in Ranges : ~Copies(d, j)'
      BY <1>5, <1>6, <2>3
    <3>2. Held[j] = arr[j]
      BY <1>4, <2>3 DEF HeldFacts
    <3>3. Held'[j] = arr'[j]
      BY <1>4, <3>1 DEF HeldFacts, Dom
    <3> QED BY <1>1, <3>2, <3>3
  <2> QED BY <2>1, <2>2, <2>3
<1> QED BY <1>1, <1>2, <1>3, <1>7, HeldKept DEF LossInv

LEMMA LossStep ==
  ASSUME IInv, IInv', LossInv, [Next]_vars
  PROVE  LossInv'
<1>1. ASSUME NEW c \in Ranges, Fork(c) PROVE LossInv'
  <2>1. /\ pc[c] = "called" /\ pc[Left(c)] = "none" /\ pc[Right(c)] = "none"
        /\ pc'[c] = "right" /\ pc'[Left(c)] = "called" /\ pc'[Right(c)] = "called"
        /\ \A d \in Ranges : d \notin {c, Left(c), Right(c)} => pc'[d] = pc[d]
    BY <1>1, ForkStep DEF IInv
  <2>2. \A d \in Ranges : pc'[d] \in {"merge", "copy"} \/ pc[d] \in {"merge", "copy"}
          => pc'[d] = pc[d]
    BY <2>1
  <2> QED BY <1>1, <2>2, LossQuiet DEF Fork, locals
<1>2. ASSUME NEW c \in Ranges, RightReturns(c) PROVE LossInv'
  <2>1. \A d \in Ranges : pc'[d] \in {"merge", "copy"} \/ pc[d] \in {"merge", "copy"}
          => pc'[d] = pc[d]
    BY <1>2 DEF RightReturns, At, Goto, IInv, TypeOK
  <2> QED BY <1>2, <2>1, LossQuiet DEF RightReturns, locals
<1>3. ASSUME NEW c \in Ranges, Exit(c) \/ ForkFails(c) \/ Killed(c) PROVE LossInv'
  BY <1>3, LossQuiet DEF Exit, ForkFails, Killed, locals
<1>4. CASE UNCHANGED vars
  BY <1>4, LossQuiet DEF vars, locals
<1> QED BY <1>1, <1>2, <1>3, <1>4, LossSort, LossWait, LossMerge, LossMergeEnds,
           LossCopyBack, LossReturn DEF Next, Call

LEMMA LossInvariant == Safety => []LossInv
<1>1. Init => LossInv
  BY LossInit
<1>2. IInv /\ IInv' /\ LossInv /\ [Next]_vars => LossInv'
  BY LossStep
<1> QED BY <1>1, <1>2, SortInvariant, PTL DEF Safety

(* parsort.c:37-58, 112-131: for every length, threshold and values, and    *)
(* whatever forks fail and processes are killed, an element of the file is  *)
(* lost only in a loop that copies temp_arr back and was cut short: when no *)
(* call is in that loop the file holds exactly the elements it held before. *)
THEOREM NothingIsLost == Safety => []NothingLost
<1>1. IInv /\ LossInv => NothingLost
  <2> SUFFICES ASSUME IInv, LossInv, \A c \in Ranges : pc[c] # "copy", NEW v \in Values
               PROVE  Count(arr, DOMAIN arr, v) = Count(orig, DOMAIN arr, v)
    BY DEF NothingLost, SameElements
  <2>1. DOMAIN arr = Dom
    BY DEF IInv, TypeOK, Dom
  <2>2. \A j \in Dom : Held[j] = arr[j]
    BY HeldAt DEF IInv, HeldFacts, Copies
  <2>3. {j \in Dom : Held[j] = v} = {j \in Dom : arr[j] = v}
    BY <2>2
  <2> QED BY <2>1, <2>3 DEF LossInv, HeldInv, SameElements, Count
<1> QED BY <1>1, SortInvariant, LossInvariant, PTL
-----------------------------------------------------------------------------
(* The halves of a call *)

LEMMA HalvesStep ==
  ASSUME IInv, HalvesCalled, [Next]_vars
  PROVE  HalvesCalled'
<1>1. ASSUME NEW c \in Ranges, Fork(c) PROVE HalvesCalled'
  <2> DEFINE L == Left(c)
             R == Right(c)
  <2>1. /\ pc[c] = "called" /\ pc[L] = "none" /\ pc[R] = "none"
        /\ pc'[c] = "right" /\ pc'[L] = "called" /\ pc'[R] = "called"
        /\ \A d \in Ranges : d \notin {c, L, R} => pc'[d] = pc[d]
    BY <1>1, ForkStep DEF IInv
  <2>2. L \in Ranges /\ R \in Ranges /\ L # R /\ L # c /\ R # c
    BY <1>1, Halves DEF Fork
  <2>3. /\ proc'[L] = L /\ proc'[R] = proc[c] /\ proc'[c] = proc[c]
        /\ \A d \in Ranges : d \notin {L, R} => proc'[d] = proc[d]
    BY <1>1, <2>2 DEF Fork, IInv, TypeOK
  <2> SUFFICES ASSUME NEW d \in Ranges, pc'[d] \in {"right", "wait", "merge", "copy"}
               PROVE  /\ pc'[Left(d)] # "none" /\ pc'[Right(d)] # "none"
                      /\ proc'[Right(d)] = proc'[d] /\ proc'[Left(d)] = Left(d)
    BY DEF HalvesCalled, Left, Right, Mid
  <2>4. CASE d = c
    BY <2>1, <2>3, <2>4
  <2>5. CASE d # c
    <3>1. d \notin {L, R} /\ pc[d] = pc'[d] /\ proc'[d] = proc[d]
      BY <2>1, <2>3, <2>5
    <3>2. Left(d) \in Ranges /\ Right(d) \in Ranges
      BY <3>1, Halves DEF IInv, TreeInv
    <3>3. /\ pc[Left(d)] # "none" /\ pc[Right(d)] # "none"
          /\ proc[Right(d)] = proc[d] /\ proc[Left(d)] = Left(d)
      BY <3>1 DEF HalvesCalled
    <3> HIDE DEF L, R
    <3> QED BY <2>1, <2>3, <3>1, <3>2, <3>3
  <2> QED BY <2>4, <2>5
<1>2. CASE /\ proc' = proc
           /\ \A d \in Ranges : pc[d] # "none" => pc'[d] # "none"
           /\ \A d \in Ranges : pc'[d] \in {"right", "wait", "merge", "copy"}
                => pc[d] \in {"right", "wait", "merge", "copy"}
  <2>1. \A d \in Ranges : pc[d] \in {"right", "wait", "merge", "copy"} =>
          Left(d) \in Ranges /\ Right(d) \in Ranges
    BY Halves DEF IInv, TreeInv
  <2> SUFFICES ASSUME NEW d \in Ranges, pc'[d] \in {"right", "wait", "merge", "copy"}
               PROVE  /\ pc'[Left(d)] # "none" /\ pc'[Right(d)] # "none"
                      /\ proc'[Right(d)] = proc'[d] /\ proc'[Left(d)] = Left(d)
    BY DEF HalvesCalled, Left, Right, Mid
  <2> QED BY <1>2, <2>1 DEF HalvesCalled
<1>3. ASSUME NEW c \in Ranges,
             Sort(c) \/ RightReturns(c) \/ MergeEnds(c) \/ Return(c)
      PROVE  HalvesCalled'
  <2>1. proc' = proc /\ \E label \in {"wait", "copy", "returned"} :
          /\ pc' = [pc EXCEPT ![c] = label]
          /\ label # "returned" => pc[c] \in {"right", "merge"}
    BY <1>3 DEF Sort, RightReturns, MergeEnds, Return, Goto, At
  <2> QED BY <1>2, <2>1 DEF IInv, TypeOK
<1>4. ASSUME NEW c \in Ranges, Wait(c) PROVE HalvesCalled'
  <2>1. proc' = proc /\ pc[c] = "wait" /\ (pc' = pc \/ pc' = [pc EXCEPT ![c] = "merge"])
    BY <1>4 DEF Wait, StartMerge, Goto, At
  <2> QED BY <1>2, <2>1 DEF IInv, TypeOK
<1>5. ASSUME NEW c \in Ranges,
             Merge(c) \/ CopyBack(c) \/ Exit(c) \/ ForkFails(c) \/ Killed(c)
      PROVE  HalvesCalled'
  <2>1. proc' = proc /\ pc' = pc
    BY <1>5 DEF Merge, CopyBack, Exit, ForkFails, Killed
  <2> QED BY <1>2, <2>1
<1>6. CASE UNCHANGED vars
  BY <1>2, <1>6 DEF vars
<1> QED BY <1>1, <1>3, <1>4, <1>5, <1>6 DEF Next, Call

LEMMA HalvesInvariant == Safety => []HalvesCalled
<1>1. Init => HalvesCalled
  BY DEF Init, HalvesCalled
<1>2. IInv /\ HalvesCalled /\ [Next]_vars => HalvesCalled'
  BY HalvesStep
<1> QED BY <1>1, <1>2, SortInvariant, PTL DEF Safety
-----------------------------------------------------------------------------
(* What is settled is sorted *)

LEMMA Compare ==
  ASSUME NEW a \in Int, NEW b \in Int
  PROVE  (compare_i64(a, b) <= 0 <=> a <= b) /\ (compare_i64(a, b) > 0 <=> b < a)
<1>1. CASE a < b
  BY <1>1 DEF compare_i64
<1>2. CASE a = b
  BY <1>2 DEF compare_i64
<1>3. CASE b < a
  BY <1>3 DEF compare_i64
<1> QED BY <1>1, <1>2, <1>3

LEMMA PcSteps ==
  ASSUME IInv, [Next]_vars, NEW d \in Ranges
  PROVE  /\ pc[d] # "none" => pc'[d] # "none"
         /\ pc'[d] \in {"right", "wait", "merge"} => pc[d] \in {"called", "right", "wait", "merge"}
         /\ pc'[d] = "returned" => pc[d] = "returned" \/ Sort(d) \/ Return(d)
<1>1. ASSUME NEW c \in Ranges, Fork(c)
      PROVE  /\ pc[d] # "none" => pc'[d] # "none"
             /\ pc'[d] \in {"right", "wait", "merge"} => pc[d] \in {"called", "right", "wait", "merge"}
             /\ pc'[d] = "returned" => pc[d] = "returned"
  <2>1. /\ pc[c] = "called" /\ pc[Left(c)] = "none" /\ pc[Right(c)] = "none"
        /\ pc'[c] = "right" /\ pc'[Left(c)] = "called" /\ pc'[Right(c)] = "called"
        /\ \A e \in Ranges : e \notin {c, Left(c), Right(c)} => pc'[e] = pc[e]
    BY <1>1, ForkStep DEF IInv
  <2> QED BY <2>1
<1>2. ASSUME NEW c \in Ranges, Sort(c) \/ Return(c) PROVE pc' = [pc EXCEPT ![c] = "returned"]
  BY <1>2 DEF Sort, Return, Goto
<1>3. ASSUME NEW c \in Ranges, RightReturns(c)
      PROVE  pc' = [pc EXCEPT ![c] = "wait"] /\ pc[c] = "right"
  BY <1>3 DEF RightReturns, Goto, At
<1>4. ASSUME NEW c \in Ranges, Wait(c)
      PROVE  pc[c] = "wait" /\ (pc' = pc \/ pc' = [pc EXCEPT ![c] = "merge"])
  BY <1>4 DEF Wait, StartMerge, Goto, At
<1>5. ASSUME NEW c \in Ranges, MergeEnds(c) PROVE pc' = [pc EXCEPT ![c] = "copy"]
  BY <1>5 DEF MergeEnds, Goto
<1>6. ASSUME NEW c \in Ranges,
             Merge(c) \/ CopyBack(c) \/ Exit(c) \/ ForkFails(c) \/ Killed(c)
      PROVE  pc' = pc
  BY <1>6 DEF Merge, CopyBack, Exit, ForkFails, Killed
<1>7. CASE UNCHANGED vars
  BY <1>7 DEF vars
<1>8. CASE \E c \in Ranges : Fork(c)
  BY <1>1, <1>8
<1>9. CASE \E c \in Ranges : Sort(c) \/ Return(c)
  BY <1>2, <1>9 DEF IInv, TypeOK
<1>10. CASE \E c \in Ranges : RightReturns(c) \/ Wait(c) \/ MergeEnds(c)
  BY <1>3, <1>4, <1>5, <1>10 DEF IInv, TypeOK
<1>11. CASE \E c \in Ranges :
              Merge(c) \/ CopyBack(c) \/ Exit(c) \/ ForkFails(c) \/ Killed(c)
  BY <1>6, <1>11
<1> QED BY <1>7, <1>8, <1>9, <1>10, <1>11 DEF Next, Call

(* Only a sort of a short range and a copy write to the file, where they are. *)
LEMMA WhoWrites ==
  ASSUME IInv, [Next]_vars, arr' # arr
  PROVE  \E e \in Ranges : /\ pc[e] \in {"called", "copy"}
                           /\ Sort(e) \/ CopyBack(e)
                           /\ \A j \in Dom \ Indices(e) : arr'[j] = arr[j]
<1>1. PICK e \in Ranges : Sort(e) \/ CopyBack(e)
  BY DEF Next, Call, Fork, RightReturns, Wait, Merge, MergeEnds, Return, Exit,
         ForkFails, Killed, vars
<1>2. pc[e] \in {"called", "copy"}
  BY <1>1 DEF Sort, CopyBack, At
<1>3. \A j \in Dom \ Indices(e) : arr'[j] = arr[j]
  <2>1. CASE Sort(e)
    BY <2>1 DEF Sort, IInv, TypeOK, Dom
  <2>2. CASE CopyBack(e)
    <3>2. i[e] \in Nat /\ i[e] < Length(e) /\ e[1] \in Int /\ e[2] \in Int
      BY <2>2, RangeType DEF CopyBack, IInv, TypeOK
    <3>3. e[1] + i[e] \in Indices(e)
      BY <3>2 DEF Indices, Length
    <3>4. arr' = [arr EXCEPT ![e[1] + i[e]] = temp[e][i[e] + 1]]
      BY <2>2 DEF CopyBack
    <3> QED BY <3>3, <3>4 DEF IInv, TypeOK, Dom
  <2> QED BY <1>1, <2>1, <2>2
<1> QED BY <1>1, <1>2, <1>3

(* The range of a call that merges, and of one that is settled, is written  *)
(* by no other.                                                             *)
LEMMA MergeUnseen ==
  ASSUME IInv, [Next]_vars, NEW c \in Ranges, pc[c] = "merge"
  PROVE  \A j \in Indices(c) : arr'[j] = arr[j]
<1>1. CASE arr' = arr
  BY <1>1
<1>2. CASE arr' # arr
  <2>1. PICK e \in Ranges : /\ pc[e] \in {"called", "copy"}
                            /\ \A j \in Dom \ Indices(e) : arr'[j] = arr[j]
    BY <1>2, WhoWrites
  <2>2. Indices(c) \cap Indices(e) = {}
    BY <2>1, BusyDisjoint DEF IInv
  <2> QED BY <2>1, <2>2, DomFinite
<1> QED BY <1>1, <1>2

LEMMA SettledUnseen ==
  ASSUME IInv, [Next]_vars, NEW c \in Ranges, Settled(c)
  PROVE  \A j \in Indices(c) : arr'[j] = arr[j]
<1>1. CASE arr' = arr
  BY <1>1
<1>2. CASE arr' # arr
  <2>1. PICK e \in Ranges : /\ pc[e] \in {"called", "copy"}
                            /\ \A j \in Dom \ Indices(e) : arr'[j] = arr[j]
    BY <1>2, WhoWrites
  <2>2. e # c /\ pc[c] = "returned"
    BY <2>1 DEF Settled
  <2>3. ~Inside(e, c)
    BY <2>1, <2>2 DEF IInv, TreeInv, DoneBelow
  <2>4. ~Inside(c, e)
    BY <2>1, <2>2 DEF Settled
  <2>5. ~Overlap(c, e)
    BY <2>1, <2>2, <2>3, <2>4, BelowInside DEF IInv, TreeInv, Laminar
  <2>6. Indices(c) \cap Indices(e) = {}
    BY <2>5, RangeType DEF Overlap, Indices
  <2> QED BY <2>1, <2>6, DomFinite
<1> QED BY <1>1, <1>2

LEMMA SettledBefore ==
  ASSUME IInv, [Next]_vars, NEW c \in Ranges, Settled(c)', pc[c] = "returned"
  PROVE  Settled(c)
<1> SUFFICES ASSUME NEW d \in Ranges, pc[d] # "none", d # c, Inside(c, d)
             PROVE  pc[d] \in {"right", "wait", "merge"}
  BY DEF Settled
<1>1. pc'[d] # "none"
  BY PcSteps
<1>2. pc'[d] \in {"right", "wait", "merge"}
  BY <1>1 DEF Settled, Inside
<1>3. pc[d] \in {"called", "right", "wait", "merge"}
  BY <1>2, PcSteps
<1>4. pc[d] # "called"
  BY DEF IInv, TreeInv, DoneBelow
<1> QED BY <1>3, <1>4

LEMMA HalvesSettled ==
  ASSUME IInv, HalvesCalled, NEW c \in Ranges, pc[c] = "merge"
  PROVE  Settled(Left(c)) /\ Settled(Right(c))
<1>1. /\ Left(c) \in Ranges /\ Right(c) \in Ranges
      /\ Left(c) # c /\ Right(c) # c
      /\ c[1] < Mid(c) /\ Mid(c) < c[2] /\ Mid(c) \in Nat
      /\ Left(c)[1] = c[1] /\ Left(c)[2] = Mid(c)
      /\ Right(c)[1] = Mid(c) /\ Right(c)[2] = c[2]
  BY Halves DEF IInv, TreeInv
<1>2. /\ Inside(Left(c), c) /\ Inside(Right(c), c)
      /\ pc[Left(c)] # "none" /\ pc[Right(c)] # "none"
  BY <1>1, RangeType DEF Inside, HalvesCalled
<1>3. pc[Left(c)] = "returned" /\ pc[Right(c)] = "returned"
  BY <1>1, <1>2 DEF IInv, TreeInv, DoneBelow
<1>4. ASSUME NEW h \in {Left(c), Right(c)}, NEW d \in Ranges,
             pc[d] # "none", d # h, Inside(h, d)
      PROVE  pc[d] \in {"right", "wait", "merge"}
  <2>1. CASE d = c
    BY <2>1
  <2>2. CASE d # c
    <3>1. Overlap(c, d)
      BY <1>1, <1>4, RangeType DEF Inside, Overlap
    <3>2. ~Below(d, c)
      <4> SUFFICES ASSUME NEW g \in {Left(c), Right(c)}, Inside(d, g) PROVE FALSE
        BY DEF Below
      <4>1. Inside(h, g) /\ h \in Ranges /\ g \in Ranges
        BY <1>1, <1>4, RangeType DEF Inside
      <4>2. h = g
        <5>1. h[1] < h[2] /\ g[1] < g[2] /\ g[1] <= h[1] /\ h[2] <= g[2]
              /\ h[1] \in Int /\ h[2] \in Int /\ g[1] \in Int /\ g[2] \in Int
          BY <4>1, RangeType DEF Inside
        <5>2. ~(h[2] <= g[1]) /\ ~(g[2] <= h[1])
          BY <5>1
        <5>3. Left(c)[2] = Right(c)[1]
          BY <1>1
        <5>4. h = Left(c) /\ g = Right(c) => FALSE
          BY <5>2, <5>3, <5>1
        <5>5. h = Right(c) /\ g = Left(c) => FALSE
          BY <5>2, <5>3, <5>1
        <5> QED BY <5>4, <5>5
      <4>3. h[1] = d[1] /\ h[2] = d[2]
        BY <1>4, <4>1, <4>2, RangeType DEF Inside
      <4> QED BY <1>4, <4>1, <4>3, RangeType
    <3>3. Below(c, d)
      BY <1>4, <2>2, <3>1, <3>2 DEF IInv, TreeInv, Laminar
    <3>4. Inside(c, d)
      BY <3>3, BelowInside
    <3>5. pc[d] \notin {"called", "merge", "copy", "returned"}
      BY <2>2, <3>4 DEF IInv, TreeInv, DoneBelow
    <3> QED BY <1>4, <3>5 DEF IInv, TypeOK
  <2> QED BY <2>1, <2>2
<1> QED BY <1>3, <1>4 DEF Settled

LEMMA SettledStep ==
  ASSUME IInv, IInv', LossInv, SortedInv, [Next]_vars, NEW c \in Ranges, Settled(c)'
  PROVE  Ascending(arr', Indices(c))
<1>1. CASE pc[c] = "returned"
  <2>1. Settled(c)
    BY <1>1, SettledBefore
  <2>2. \A j \in Indices(c) : arr'[j] = arr[j]
    BY <2>1, SettledUnseen
  <2> QED BY <2>1, <2>2 DEF SortedInv, Ascending
<1>2. CASE Sort(c)
  <2>1. PICK f \in [Indices(c) -> Values] :
          /\ IsSorted(f, Indices(c))
          /\ arr' = [j \in DOMAIN arr |-> IF j \in Indices(c) THEN f[j] ELSE arr[j]]
    BY <1>2 DEF Sort
  <2>2. \A j \in Indices(c) : arr'[j] = f[j] /\ f[j] \in Int
    BY <2>1, DomFinite, ValuesAssumption DEF IInv, TypeOK, Dom
  <2>3. \A j, k \in Indices(c) : j <= k => f[j] <= f[k]
    BY <2>1, <2>2, Compare DEF IsSorted
  <2> QED BY <2>2, <2>3 DEF Ascending
<1>3. CASE Return(c)
  <2>1. /\ pc[c] = "copy" /\ i[c] = Length(c) /\ arr' = arr
        /\ Len(temp[c]) = Length(c)
    BY <1>3 DEF Return, At, IInv, LocalInv
  <2>2. c[1] \in Int /\ c[2] \in Int
    BY RangeType
  <2>3. ASSUME NEW j \in Indices(c)
        PROVE  arr[j] = temp[c][j - c[1] + 1] /\ j - c[1] + 1 \in 1..Len(temp[c])
    <3>1. j - c[1] \in 0..i[c] - 1 /\ c[1] + (j - c[1]) = j
      BY <2>1, <2>2 DEF Indices, Length
    <3>2. j - c[1] + 1 \in 1..Len(temp[c])
      BY <2>1, <2>2 DEF Indices, Length
    <3>3. arr[c[1] + (j - c[1])] = temp[c][(j - c[1]) + 1]
      BY <2>1, <3>1 DEF LossInv, CopyInv
    <3> QED BY <3>1, <3>2, <3>3
  <2>4. Ascending(temp[c], 1..Len(temp[c]))
    BY <2>1 DEF SortedInv
  <2> SUFFICES ASSUME NEW j \in Indices(c), NEW k \in Indices(c), j <= k
               PROVE  arr'[j] <= arr'[k]
    BY DEF Ascending
  <2>5. j - c[1] + 1 <= k - c[1] + 1
    BY <2>2 DEF Indices
  <2>6. temp[c][j - c[1] + 1] <= temp[c][k - c[1] + 1]
    BY <2>3, <2>4, <2>5 DEF Ascending
  <2> QED BY <2>1, <2>3, <2>6
<1> QED BY <1>1, <1>2, <1>3, PcSteps DEF Settled

(* What a call that merges or copies does in a step. *)
LEMMA MergerSteps ==
  ASSUME IInv, [Next]_vars, NEW c \in Ranges, pc'[c] \in {"merge", "copy"}
  PROVE  \/ temp'[c] = << >>
         \/ Merge(c)
         \/ /\ pc[c] \in {"merge", "copy"} /\ (pc'[c] = "merge" => pc[c] = "merge")
            /\ temp'[c] = temp[c] /\ left'[c] = left[c] /\ right'[c] = right[c]
<1>1. ASSUME NEW d \in Ranges, Fork(d)
      PROVE  pc'[c] = pc[c] /\ temp' = temp /\ left' = left /\ right' = right
  BY <1>1, ForkStep DEF IInv, Fork, locals
<1>2. ASSUME NEW d \in Ranges, Sort(d) \/ RightReturns(d)
      PROVE  pc'[c] = pc[c] /\ temp' = temp /\ left' = left /\ right' = right
  BY <1>2 DEF Sort, RightReturns, Goto, IInv, TypeOK, locals
<1>3. ASSUME NEW d \in Ranges, Wait(d)
      PROVE  \/ temp'[c] = << >>
             \/ pc'[c] = pc[c] /\ temp'[c] = temp[c] /\ left'[c] = left[c] /\ right'[c] = right[c]
  <2>1. CASE StartMerge(d)
    BY <2>1 DEF StartMerge, Goto, IInv, TypeOK
  <2>2. CASE UNCHANGED <<pc, left, right, temp>>
    BY <2>2
  <2> QED BY <1>3, <2>1, <2>2 DEF Wait
<1>4. ASSUME NEW d \in Ranges, Merge(d), d # c
      PROVE  pc'[c] = pc[c] /\ temp'[c] = temp[c] /\ left'[c] = left[c] /\ right'[c] = right[c]
  <2>1. CASE TakeLeft(d)
    BY <1>4, <2>1 DEF Merge, TakeLeft, IInv, TypeOK
  <2>2. CASE TakeRight(d)
    BY <1>4, <2>2 DEF Merge, TakeRight, IInv, TypeOK
  <2> QED BY <1>4, <2>1, <2>2 DEF Merge
<1>5. ASSUME NEW d \in Ranges, MergeEnds(d)
      PROVE  /\ pc[c] \in {"merge", "copy"} /\ (pc'[c] = "merge" => pc[c] = "merge")
             /\ temp' = temp /\ left' = left /\ right' = right
  BY <1>5 DEF MergeEnds, Goto, At, IInv, TypeOK
<1>6. ASSUME NEW d \in Ranges, Return(d)
      PROVE  pc'[c] = pc[c] /\ temp'[c] = temp[c] /\ left' = left /\ right' = right
  BY <1>6 DEF Return, Goto, IInv, TypeOK
<1>7. ASSUME NEW d \in Ranges, CopyBack(d) \/ Exit(d) \/ ForkFails(d) \/ Killed(d)
      PROVE  pc' = pc /\ temp' = temp /\ left' = left /\ right' = right
  BY <1>7 DEF CopyBack, Exit, ForkFails, Killed, locals
<1>8. CASE UNCHANGED vars
  BY <1>8 DEF vars, locals
<1>9. CASE \E d \in Ranges : Fork(d) \/ Sort(d) \/ RightReturns(d) \/ Wait(d) \/ Merge(d)
  BY <1>1, <1>2, <1>3, <1>4, <1>9
<1>10. CASE \E d \in Ranges : MergeEnds(d) \/ Return(d) \/ CopyBack(d) \/ Exit(d)
                              \/ ForkFails(d) \/ Killed(d)
  BY <1>5, <1>6, <1>7, <1>10
<1> QED BY <1>8, <1>9, <1>10 DEF Next, Call

(* One turn of the loop of merge: the element taken is at most those that   *)
(* remain in either half, and at least those taken before.                  *)
LEMMA TurnSorted ==
  ASSUME IInv, HalvesCalled, SortedInv, NEW c \in Ranges, Merge(c)
  PROVE  /\ Ascending(temp'[c], 1..Len(temp'[c]))
         /\ \A k \in 1..Len(temp'[c]) :
              /\ \A j \in left'[c]..Mid(c) - 1 : temp'[c][k] <= arr[j]
              /\ \A j \in right'[c]..c[2] - 1 : temp'[c][k] <= arr[j]
<1>1. /\ left[c] \in c[1]..Mid(c) /\ right[c] \in Mid(c)..c[2]
      /\ c[1] \in Int /\ c[2] \in Int /\ Mid(c) \in c[1]..c[2]
      /\ pc[c] = "merge" /\ temp[c] \in Seq(Values)
  BY MidType, RangeType DEF Merge, At, IInv, LocalInv, TypeOK
<1>2. \A j \in Indices(c) : arr[j] \in Int /\ arr[j] \in Values
  BY DomFinite, ValuesAssumption DEF IInv, TypeOK, Dom
<1>3. /\ left[c] \in Int /\ right[c] \in Int /\ Mid(c) \in Int
      /\ c[1] <= left[c] /\ left[c] <= Mid(c) /\ Mid(c) <= right[c] /\ right[c] <= c[2]
  BY <1>1
<1>4. /\ \A j, k \in Int : c[1] <= j /\ j <= k /\ k < Mid(c) => arr[j] <= arr[k]
      /\ \A j, k \in Int : Mid(c) <= j /\ j <= k /\ k < c[2] => arr[j] <= arr[k]
  <2>1. /\ Left(c) \in Ranges /\ Right(c) \in Ranges
        /\ Left(c)[1] = c[1] /\ Left(c)[2] = Mid(c)
        /\ Right(c)[1] = Mid(c) /\ Right(c)[2] = c[2]
    BY <1>1, Halves DEF IInv, TreeInv
  <2>2. Ascending(arr, Indices(Left(c))) /\ Ascending(arr, Indices(Right(c)))
    BY <1>1, <2>1, HalvesSettled DEF SortedInv
  <2>3. Indices(Left(c)) = c[1]..Mid(c) - 1 /\ Indices(Right(c)) = Mid(c)..c[2] - 1
    BY <2>1 DEF Indices
  <2>4. \A j, k \in Int : c[1] <= j /\ j <= k /\ k < Mid(c)
                          => j \in c[1]..Mid(c) - 1 /\ k \in c[1]..Mid(c) - 1
    BY <1>1, <1>3
  <2>5. \A j, k \in Int : Mid(c) <= j /\ j <= k /\ k < c[2]
                          => j \in Mid(c)..c[2] - 1 /\ k \in Mid(c)..c[2] - 1
    BY <1>1, <1>3
  <2> QED BY <2>2, <2>3, <2>4, <2>5 DEF Ascending
<1>5. PICK x \in Indices(c) :
        /\ temp'[c] = Append(temp[c], arr[x])
        /\ \A k \in 1..Len(temp[c]) : temp[c][k] <= arr[x]
        /\ left[c] <= left'[c] /\ right[c] <= right'[c]
        /\ left'[c] \in Int /\ right'[c] \in Int
        /\ \A j \in left'[c]..Mid(c) - 1 : arr[x] <= arr[j]
        /\ \A j \in right'[c]..c[2] - 1 : arr[x] <= arr[j]
  <2>1. CASE TakeLeft(c)
    <3>1. /\ temp'[c] = Append(temp[c], arr[left[c]])
          /\ left'[c] = left[c] + 1 /\ right'[c] = right[c] /\ left[c] < Mid(c)
          /\ right[c] < c[2] => compare_i64(arr[left[c]], arr[right[c]]) <= 0
      BY <2>1 DEF TakeLeft, IInv, TypeOK
    <3>2. left[c] \in Indices(c) /\ (right[c] < c[2] => right[c] \in Indices(c))
      BY <1>1, <1>3, <3>1 DEF Indices
    <3>3. right[c] < c[2] => arr[left[c]] <= arr[right[c]]
      BY <1>2, <3>1, <3>2, Compare
    <3>4. ASSUME NEW j \in left'[c]..Mid(c) - 1 PROVE arr[left[c]] <= arr[j]
      <4>1. j \in Int /\ left[c] <= j /\ j < Mid(c)
        BY <1>3, <3>1
      <4> QED BY <1>3, <1>4, <4>1
    <3>5. ASSUME NEW j \in right'[c]..c[2] - 1 PROVE arr[left[c]] <= arr[j]
      <4>1. j \in Int /\ right[c] <= j /\ j < c[2] /\ right[c] < c[2] /\ j \in Indices(c)
        BY <1>1, <1>3, <3>1 DEF Indices
      <4>2. arr[right[c]] <= arr[j]
        BY <1>3, <1>4, <4>1
      <4>3. arr[left[c]] \in Int /\ arr[right[c]] \in Int /\ arr[j] \in Int
        BY <1>2, <3>2, <4>1
      <4> QED BY <3>3, <4>1, <4>2, <4>3
    <3>6. \A k \in 1..Len(temp[c]) : temp[c][k] <= arr[left[c]]
      <4>1. left[c] \in left[c]..Mid(c) - 1
        BY <1>3, <3>1
      <4> QED BY <1>1, <4>1 DEF SortedInv
    <3>7. left[c] <= left'[c] /\ right[c] <= right'[c] /\ left'[c] \in Int /\ right'[c] \in Int
      BY <1>3, <3>1
    <3> QED BY <3>1, <3>2, <3>4, <3>5, <3>6, <3>7
  <2>2. CASE TakeRight(c)
    <3>1. /\ temp'[c] = Append(temp[c], arr[right[c]])
          /\ right'[c] = right[c] + 1 /\ left'[c] = left[c] /\ right[c] < c[2]
          /\ left[c] < Mid(c) => compare_i64(arr[left[c]], arr[right[c]]) > 0
      BY <2>2 DEF TakeRight, IInv, TypeOK
    <3>2. right[c] \in Indices(c) /\ (left[c] < Mid(c) => left[c] \in Indices(c))
      BY <1>1, <1>3, <3>1 DEF Indices
    <3>3. left[c] < Mid(c) => arr[right[c]] <= arr[left[c]]
      <4>1. left[c] < Mid(c) => arr[right[c]] < arr[left[c]]
        BY <1>2, <3>1, <3>2, Compare
      <4> QED BY <1>2, <3>2, <4>1
    <3>4. ASSUME NEW j \in right'[c]..c[2] - 1 PROVE arr[right[c]] <= arr[j]
      <4>1. j \in Int /\ right[c] <= j /\ j < c[2]
        BY <1>1, <1>3, <3>1
      <4> QED BY <1>3, <1>4, <4>1
    <3>5. ASSUME NEW j \in left'[c]..Mid(c) - 1 PROVE arr[right[c]] <= arr[j]
      <4>1. j \in Int /\ left[c] <= j /\ j < Mid(c) /\ left[c] < Mid(c) /\ j \in Indices(c)
        BY <1>1, <1>3, <3>1 DEF Indices
      <4>2. arr[left[c]] <= arr[j]
        BY <1>3, <1>4, <4>1
      <4>3. arr[left[c]] \in Int /\ arr[right[c]] \in Int /\ arr[j] \in Int
        BY <1>2, <3>2, <4>1
      <4> QED BY <3>3, <4>1, <4>2, <4>3
    <3>6. \A k \in 1..Len(temp[c]) : temp[c][k] <= arr[right[c]]
      <4>1. right[c] \in right[c]..c[2] - 1
        BY <1>1, <1>3, <3>1
      <4> QED BY <1>1, <4>1 DEF SortedInv
    <3>7. left[c] <= left'[c] /\ right[c] <= right'[c] /\ left'[c] \in Int /\ right'[c] \in Int
      BY <1>3, <3>1
    <3> QED BY <3>1, <3>2, <3>4, <3>5, <3>6, <3>7
  <2> QED BY <2>1, <2>2 DEF Merge
<1> DEFINE n == Len(temp[c])
<1>6. /\ n \in Nat /\ Len(temp'[c]) = n + 1 /\ temp'[c][n + 1] = arr[x]
      /\ \A k \in 1..n : temp'[c][k] = temp[c][k]
  BY <1>1, <1>2, <1>5
<1>7. \A k \in 1..n + 1 : k \in 1..n \/ k = n + 1
  BY <1>6
<1>8. Ascending(temp'[c], 1..n + 1)
  <2> SUFFICES ASSUME NEW j \in 1..n + 1, NEW k \in 1..n + 1, j <= k
               PROVE  temp'[c][j] <= temp'[c][k]
    BY DEF Ascending
  <2>1. CASE k \in 1..n
    <3>1. j \in 1..n
      BY <1>6, <2>1
    <3>2. temp[c][j] <= temp[c][k]
      BY <1>1, <2>1, <3>1 DEF SortedInv, Ascending
    <3> QED BY <1>6, <2>1, <3>1, <3>2
  <2>2. CASE k = n + 1 /\ j \in 1..n
    BY <1>5, <1>6, <2>2
  <2>3. CASE k = n + 1 /\ j = n + 1
    BY <1>2, <1>6, <2>3
  <2> QED BY <1>7, <2>1, <2>2, <2>3
<1>9. ASSUME NEW k \in 1..n + 1
      PROVE  /\ \A j \in left'[c]..Mid(c) - 1 : temp'[c][k] <= arr[j]
             /\ \A j \in right'[c]..c[2] - 1 : temp'[c][k] <= arr[j]
  <2>1. CASE k \in 1..n
    <3>1. /\ \A j \in left[c]..Mid(c) - 1 : temp[c][k] <= arr[j]
          /\ \A j \in right[c]..c[2] - 1 : temp[c][k] <= arr[j]
      BY <1>1, <2>1 DEF SortedInv
    <3>2. /\ \A j \in left'[c]..Mid(c) - 1 : j \in left[c]..Mid(c) - 1
          /\ \A j \in right'[c]..c[2] - 1 : j \in right[c]..c[2] - 1
      BY <1>1, <1>3, <1>5
    <3> QED BY <1>6, <2>1, <3>1, <3>2
  <2>2. CASE k = n + 1
    BY <1>5, <1>6, <2>2
  <2> QED BY <1>7, <2>1, <2>2
<1> QED BY <1>6, <1>8, <1>9

LEMMA SortedStep ==
  ASSUME IInv, IInv', LossInv, HalvesCalled, SortedInv, [Next]_vars
  PROVE  SortedInv'
<1>1. \A c \in Ranges : Settled(c)' => Ascending(arr', Indices(c))
  BY SettledStep
<1>2. ASSUME NEW c \in Ranges, pc'[c] \in {"merge", "copy"}
      PROVE  /\ Ascending(temp'[c], 1..Len(temp'[c]))
             /\ pc'[c] = "merge" =>
                  \A k \in 1..Len(temp'[c]) :
                    /\ \A j \in left'[c]..Mid(c) - 1 : temp'[c][k] <= arr'[j]
                    /\ \A j \in right'[c]..c[2] - 1 : temp'[c][k] <= arr'[j]
  <2>1. CASE temp'[c] = << >>
    BY <2>1 DEF Ascending
  <2>2. CASE Merge(c)
    <3>1. arr' = arr
      BY <2>2 DEF Merge
    <3> QED BY <2>2, <3>1, TurnSorted
  <2>3. CASE /\ pc[c] \in {"merge", "copy"} /\ (pc'[c] = "merge" => pc[c] = "merge")
             /\ temp'[c] = temp[c] /\ left'[c] = left[c] /\ right'[c] = right[c]
    <3>1. Ascending(temp'[c], 1..Len(temp'[c]))
      BY <2>3 DEF SortedInv
    <3>2. CASE pc'[c] = "merge"
      <4>1. /\ left[c] \in c[1]..Mid(c) /\ right[c] \in Mid(c)..c[2]
            /\ c[1] \in Int /\ c[2] \in Int /\ Mid(c) \in c[1]..c[2]
        BY <2>3, <3>2, MidType, RangeType DEF IInv, LocalInv
      <4>2. /\ left[c]..Mid(c) - 1 \subseteq Indices(c)
            /\ right[c]..c[2] - 1 \subseteq Indices(c)
        BY <4>1 DEF Indices
      <4>3. \A j \in Indices(c) : arr'[j] = arr[j]
        BY <2>3, <3>2, MergeUnseen
      <4> QED BY <2>3, <3>1, <3>2, <4>2, <4>3 DEF SortedInv
    <3> QED BY <3>1, <3>2
  <2> QED BY <1>2, <2>1, <2>2, <2>3, MergerSteps
<1>3. /\ \A c \in Ranges : pc'[c] \in {"merge", "copy"} => Ascending(temp'[c], 1..Len(temp'[c]))
      /\ \A c \in Ranges : pc'[c] = "merge" =>
           \A k \in 1..Len(temp'[c]) :
             /\ \A j \in left'[c]..Mid(c) - 1 : temp'[c][k] <= arr'[j]
             /\ \A j \in right'[c]..c[2] - 1 : temp'[c][k] <= arr'[j]
  BY <1>2
<1> QED BY <1>1, <1>3 DEF SortedInv, Mid, Ascending, Indices

LEMMA SortedInvariant == Safety => [](HalvesCalled /\ SortedInv)
<1>1. Init => SortedInv
  BY DEF Init, SortedInv, Settled
<1>2. IInv /\ IInv' /\ LossInv /\ HalvesCalled /\ SortedInv /\ [Next]_vars => SortedInv'
  BY SortedStep
<1> QED BY <1>1, <1>2, SortInvariant, LossInvariant, HalvesInvariant, PTL DEF Safety
-----------------------------------------------------------------------------
(* Processes *)

LEMMA ProcFork ==
  ASSUME IInv, IInv', ProcInv, NEW c \in Ranges, Fork(c)
  PROVE  ProcInv'
<1> DEFINE L == Left(c)
           R == Right(c)
<1>1. /\ pc[c] = "called" /\ pc[L] = "none" /\ pc[R] = "none"
      /\ pc'[c] = "right" /\ pc'[L] = "called" /\ pc'[R] = "called"
      /\ \A d \in Ranges : d \notin {c, L, R} => pc'[d] = pc[d]
  BY ForkStep DEF IInv
<1>2. /\ L \in Ranges /\ R \in Ranges /\ L # R /\ L # c /\ R # c
      /\ Inside(L, L) /\ Inside(R, c)
  <2>1. /\ L \in Ranges /\ R \in Ranges /\ L # R /\ L # c /\ R # c
        /\ c[1] < Mid(c) /\ Mid(c) < c[2] /\ Mid(c) \in Nat
        /\ L[1] = c[1] /\ R[1] = Mid(c) /\ R[2] = c[2]
    BY Halves DEF Fork
  <2> HIDE DEF L, R
  <2> QED BY <2>1, RangeType DEF Inside
<1>3. /\ proc'[L] = L /\ proc'[R] = proc[c]
      /\ \A d \in Ranges : d \notin {L, R} => proc'[d] = proc[d]
      /\ status'[L] = "running" /\ \A d \in Ranges : d # L => status'[d] = status[d]
      /\ proc[c] \in Ranges
  BY <1>2 DEF Fork, Ends, IInv, TypeOK
<1> HIDE DEF L, R
<1>4. \A d \in Ranges : pc'[d] # "none" => Inside(d, proc'[d])
  <2> SUFFICES ASSUME NEW d \in Ranges, pc'[d] # "none" PROVE Inside(d, proc'[d])
    OBVIOUS
  <2>1. CASE d = R
    <3>1. Inside(c, proc[c])
      BY <1>1 DEF ProcInv
    <3>2. Inside(R, proc[c])
      BY <1>2, <1>3, <3>1, RangeType DEF Inside
    <3> QED BY <1>3, <2>1, <3>2
  <2>2. CASE d # R
    BY <1>1, <1>2, <1>3, <2>2 DEF ProcInv
  <2> QED BY <2>1, <2>2
<1>5. \A p \in Ranges : status'[p] # "none" => pc'[p] # "none" /\ proc'[p] = p
  BY <1>1, <1>2, <1>3 DEF ProcInv
<1>6. \A d \in Ranges : pc'[d] \in {"wait", "merge", "copy", "returned"} => pc[d] = pc'[d]
  BY <1>1
<1>7. ASSUME NEW d \in Ranges, NEW p \in Ranges, p # d, Inside(p, d),
             pc'[d] \in {"merge", "copy", "returned"}
      PROVE  status'[p] \in {"none", "ok"}
  <2>1. p # L
    BY <1>1, <1>2, <1>7 DEF IInv, TreeInv, DoneBelow, Inside
  <2> QED BY <1>3, <1>6, <1>7, <2>1 DEF ProcInv
<1>8. ASSUME NEW d \in Ranges, NEW p \in Ranges, Inside(p, Right(d)), pc'[d] = "wait"
      PROVE  status'[p] \in {"none", "ok"}
  <2>1. p # L
    <3>1. Inside(p, d)
      BY <1>8, RangeType, MidType DEF Inside, Right
    <3>2. Inside(p, d)' /\ Inside(p, Right(d))'
      BY <1>8, <3>1 DEF Inside, Right, Mid
    <3> QED BY <1>1, <1>2, <1>8, <3>1, <3>2 DEF IInv, TreeInv, DoneBelow
  <2> QED BY <1>3, <1>6, <1>8, <2>1 DEF ProcInv
<1> QED BY <1>4, <1>5, <1>7, <1>8 DEF ProcInv, Inside, Right, Mid

(* A step within a call changes no process. *)
LEMMA ProcMove ==
  ASSUME IInv, ProcInv, NEW c \in Ranges,
         NEW label \in {"wait", "merge", "copy", "returned"},
         pc[c] # "none", pc' = [pc EXCEPT ![c] = label], UNCHANGED <<proc, status>>,
         label \in {"merge", "copy", "returned"} =>
           \A p \in Ranges : p # c /\ Inside(p, c) => status[p] \in {"none", "ok"},
         label = "wait" =>
           \A p \in Ranges : Inside(p, Right(c)) => status[p] \in {"none", "ok"}
  PROVE  ProcInv'
<1>1. pc'[c] = label /\ \A d \in Ranges : d # c => pc'[d] = pc[d]
  BY DEF IInv, TypeOK
<1>2. \A d \in Ranges : pc'[d] # "none" <=> pc[d] # "none"
  BY <1>1
<1>3. \A d, p \in Ranges : p # d /\ Inside(p, d) /\ pc'[d] \in {"merge", "copy", "returned"}
        => status[p] \in {"none", "ok"}
  BY <1>1 DEF ProcInv
<1>4. \A d, p \in Ranges : Inside(p, Right(d)) /\ pc'[d] = "wait"
        => status[p] \in {"none", "ok"}
  BY <1>1 DEF ProcInv
<1> QED BY <1>2, <1>3, <1>4 DEF ProcInv, Inside, Right, Mid

(* A process that ends was running: it is nowhere a call that merges has    *)
(* below it.                                                                *)
LEMMA ProcEnds ==
  ASSUME IInv, ProcInv, NEW p \in Ranges, status[p] = "running",
         NEW how \in {"ok", "failed"}, Ends(p, how), UNCHANGED <<pc, proc>>
  PROVE  ProcInv'
<1>1. status'[p] = how /\ \A q \in Ranges : q # p => status'[q] = status[q]
  BY DEF Ends, IInv, TypeOK
<1>2. \A q \in Ranges : status'[q] # "none" => pc[q] # "none" /\ proc[q] = q
  BY <1>1 DEF ProcInv
<1>3. \A d, q \in Ranges : q # d /\ Inside(q, d) /\ pc[d] \in {"merge", "copy", "returned"}
        => status'[q] \in {"none", "ok"}
  BY <1>1 DEF ProcInv
<1>4. \A d, q \in Ranges : Inside(q, Right(d)) /\ pc[d] = "wait"
        => status'[q] \in {"none", "ok"}
  BY <1>1 DEF ProcInv
<1> QED BY <1>2, <1>3, <1>4 DEF ProcInv, Inside, Right, Mid

LEMMA ProcStep ==
  ASSUME IInv, IInv', HalvesCalled, ProcInv, [Next]_vars
  PROVE  ProcInv'
<1>1. ASSUME NEW c \in Ranges, Sort(c) PROVE ProcInv'
  <2>1. /\ pc[c] = "called" /\ pc' = [pc EXCEPT ![c] = "returned"]
        /\ UNCHANGED <<proc, status>>
    BY <1>1 DEF Sort, At, Goto
  <2>2. \A p \in Ranges : p # c /\ Inside(p, c) => status[p] = "none"
    BY <2>1 DEF ProcInv, IInv, TreeInv, DoneBelow
  <2> QED BY <2>1, <2>2, ProcMove
<1>2. ASSUME NEW c \in Ranges, RightReturns(c) PROVE ProcInv'
  <2>1. /\ pc[c] = "right" /\ pc' = [pc EXCEPT ![c] = "wait"]
        /\ UNCHANGED <<proc, status>> /\ pc[Right(c)] = "returned"
    BY <1>2 DEF RightReturns, At, Goto
  <2>2. Right(c) \in Ranges /\ c[1] < Right(c)[1]
    BY <2>1, Halves DEF IInv, TreeInv
  <2>3. status[Right(c)] = "none"
    <3>1. proc[Right(c)] = proc[c] /\ Inside(c, proc[c])
      BY <2>1 DEF HalvesCalled, ProcInv
    <3>2. ~Inside(c, Right(c))
      BY <2>2, RangeType DEF Inside
    <3> QED BY <2>2, <3>1, <3>2 DEF ProcInv
  <2>4. \A p \in Ranges : Inside(p, Right(c)) => status[p] \in {"none", "ok"}
    BY <2>1, <2>2, <2>3 DEF ProcInv
  <2> QED BY <2>1, <2>4, ProcMove
<1>3. ASSUME NEW c \in Ranges, Wait(c) PROVE ProcInv'
  <2>1. CASE status[Left(c)] = "ok"
    <3>1. /\ pc[c] = "wait" /\ pc' = [pc EXCEPT ![c] = "merge"]
          /\ UNCHANGED <<proc, status>>
      BY <1>3, <2>1 DEF Wait, At, StartMerge, Goto
    <3>2. Left(c) \in Ranges /\ pc[Left(c)] = "returned"
      BY <2>1, <3>1, Halves DEF IInv, TreeInv
    <3>3. ASSUME NEW p \in Ranges, p # c, Inside(p, c)
          PROVE  status[p] \in {"none", "ok"}
      <4>1. CASE pc[p] = "none"
        BY <4>1 DEF ProcInv
      <4>2. CASE Inside(p, Left(c))
        BY <2>1, <3>2, <4>2 DEF ProcInv
      <4>3. CASE Inside(p, Right(c))
        BY <3>1, <4>3 DEF ProcInv
      <4>4. CASE pc[p] # "none"
        <5>1. Overlap(c, p) /\ ~Below(c, p)
          BY <3>3, RangeType, MidType DEF Overlap, Below, Inside, Left, Right
        <5>2. Below(p, c)
          BY <3>1, <3>3, <4>4, <5>1 DEF IInv, TreeInv, Laminar
        <5> QED BY <4>2, <4>3, <5>2 DEF Below
      <4> QED BY <4>1, <4>4
    <3> QED BY <3>1, <3>3, ProcMove
  <2>2. CASE status[Left(c)] # "ok"
    <3>1. /\ Ends(proc[c], "failed") /\ UNCHANGED <<pc, proc>>
          /\ status[proc[c]] = "running" /\ proc[c] \in Ranges
      BY <1>3, <2>2 DEF Wait, At, IInv, TypeOK
    <3> QED BY <3>1, ProcEnds
  <2> QED BY <2>1, <2>2
<1>4. ASSUME NEW c \in Ranges, MergeEnds(c) PROVE ProcInv'
  <2>1. /\ pc[c] = "merge" /\ pc' = [pc EXCEPT ![c] = "copy"]
        /\ UNCHANGED <<proc, status>>
    BY <1>4 DEF MergeEnds, At, Goto
  <2>2. \A p \in Ranges : p # c /\ Inside(p, c) => status[p] \in {"none", "ok"}
    BY <2>1 DEF ProcInv
  <2> QED BY <2>1, <2>2, ProcMove
<1>5. ASSUME NEW c \in Ranges, Return(c) PROVE ProcInv'
  <2>1. /\ pc[c] = "copy" /\ pc' = [pc EXCEPT ![c] = "returned"]
        /\ UNCHANGED <<proc, status>>
    BY <1>5 DEF Return, At, Goto
  <2>2. \A p \in Ranges : p # c /\ Inside(p, c) => status[p] \in {"none", "ok"}
    BY <2>1 DEF ProcInv
  <2> QED BY <2>1, <2>2, ProcMove
<1>6. ASSUME NEW c \in Ranges, Exit(c) PROVE ProcInv'
  <2>1. status[c] = "running" /\ Ends(c, "ok") /\ UNCHANGED <<pc, proc>>
    BY <1>6 DEF Exit, At
  <2> QED BY <2>1, ProcEnds
<1>7. ASSUME NEW c \in Ranges, ForkFails(c) \/ Killed(c) PROVE ProcInv'
  <2>1. \E p \in Ranges : status[p] = "running" /\ Ends(p, "failed") /\ UNCHANGED <<pc, proc>>
    BY <1>7 DEF ForkFails, Killed, At, IInv, TypeOK
  <2> QED BY <2>1, ProcEnds
<1>8. CASE UNCHANGED <<pc, proc, status>>
  BY <1>8 DEF ProcInv, Inside, Right, Mid
<1>9. ASSUME NEW c \in Ranges, Merge(c) \/ CopyBack(c) PROVE ProcInv'
  BY <1>8, <1>9 DEF Merge, CopyBack
<1>10. CASE UNCHANGED vars
  BY <1>8, <1>10 DEF vars
<1> QED BY <1>1, <1>2, <1>3, <1>4, <1>5, <1>6, <1>7, <1>9, <1>10, ProcFork DEF Next, Call

LEMMA ProcInvariant == Safety => []ProcInv
<1>1. Init => ProcInv
  <2> SUFFICES ASSUME Init PROVE ProcInv
    OBVIOUS
  <2>1. /\ \A c \in Ranges : pc[c] # "none" => c = Root /\ pc[c] = "called"
        /\ \A p \in Ranges : status[p] # "none" => p = Root
        /\ \A c \in Ranges : proc[c] = Root
        /\ Root \in Ranges => pc[Root] = "called"
    BY DEF Init
  <2>2. \A c \in Ranges : Inside(c, Root)
    BY RangeType, SizeAssumption DEF Inside, Root
  <2> QED BY <2>1, <2>2 DEF ProcInv
<1>2. IInv /\ IInv' /\ HalvesCalled /\ ProcInv /\ [Next]_vars => ProcInv'
  BY ProcStep
<1> QED BY <1>1, <1>2, SortInvariant, HalvesInvariant, PTL DEF Safety

(* parsort.c:60-134, 186-228: exit status 0 is the truth, for every length, *)
(* threshold and values and whatever forks fail and processes are killed:   *)
(* the file is sorted and holds what it held, and every process of the tree *)
(* has ended with 0.                                                        *)
THEOREM SuccessIsSorted == Safety => []SuccessMeansSorted
<1>1. IInv /\ SortedInv /\ ProcInv /\ NothingLost => SuccessMeansSorted
  <2> SUFFICES ASSUME IInv, SortedInv, ProcInv, NothingLost, status[Root] = "ok"
               PROVE  /\ IsSorted(arr, DOMAIN arr)
                      /\ SameElements(arr, orig, DOMAIN arr)
                      /\ \A p \in Ranges : status[p] \in {"none", "ok"}
    BY DEF SuccessMeansSorted
  <2>1. Root \in Ranges /\ Indices(Root) = Dom /\ DOMAIN arr = Dom
    BY SizeAssumption DEF Root, Ranges, Indices, Dom, IInv, TypeOK
  <2>2. \A c \in Ranges : Inside(c, Root) /\ (Inside(Root, c) => c = Root)
    BY RangeType, SizeAssumption DEF Inside, Root
  <2>3. pc[Root] = "returned"
    BY <2>1 DEF IInv, TreeInv
  <2>4. Settled(Root)
    BY <2>2, <2>3 DEF Settled
  <2>5. Ascending(arr, Dom)
    BY <2>1, <2>4 DEF SortedInv
  <2>6. \A j \in Dom : arr[j] \in Int
    BY ValuesAssumption DEF IInv, TypeOK, Dom
  <2>7. IsSorted(arr, DOMAIN arr)
    BY <2>1, <2>5, <2>6, Compare DEF IsSorted, Ascending
  <2>8. \A c \in Ranges : pc[c] # "copy"
    BY <2>1, <2>2, <2>3 DEF IInv, TreeInv, DoneBelow
  <2>9. SameElements(arr, orig, DOMAIN arr)
    BY <2>8 DEF NothingLost
  <2>10. \A p \in Ranges : status[p] \in {"none", "ok"}
    BY <2>1, <2>2, <2>3 DEF ProcInv
  <2> QED BY <2>7, <2>9, <2>10
<1> QED BY <1>1, SortInvariant, SortedInvariant, ProcInvariant, NothingIsLost, PTL
=============================================================================
