--------------------------- MODULE TaskRunProofs ---------------------------
(***************************************************************************)
(* Proofs about TaskRun, for every set of graphs, every request, every     *)
(* number of tasks and every number of nested runs.                        *)
(***************************************************************************)
EXTENDS TaskRun, SequenceTheorems, TLAPS

(* The inductive invariant. A frame's plan is ordered and what it has      *)
(* passed has completed; the record and the history agree; outside a run   *)
(* there is no frame.                                                      *)

Ordered(tasks, plan) ==
  \A i \in DOMAIN plan : Prerequisites(tasks, plan[i]) \subseteq Before(plan, i)

FrameOK(tasks, record, frame) ==
  /\ Ordered(tasks, frame.plan)
  /\ frame.index <= Len(frame.plan) + 1
  /\ frame.busy => frame.index <= Len(frame.plan)
  /\ \A i \in 1..(frame.index - 1) : record[frame.plan[i]] = "completed"

FramesOK == \A k \in 1..Len(stack) : FrameOK(graph, progress, stack[k])
DoneIsCompleted == \A slot \in Slots : slot \in done <=> progress[slot] = "completed"
IdleOutside == phase # "running" => stack = <<>>

\* RunningIsTheStack, in the form the steps preserve.
RunningHasFrame ==
  \A slot \in Slots : progress[slot] = "running" =>
    \E k \in 1..Len(stack) : stack[k].busy /\ Current(stack[k]) = slot
FrameIsRunning ==
  \A k \in 1..Len(stack) : stack[k].busy => progress[Current(stack[k])] = "running"
FramesDiffer ==
  \A k, l \in 1..Len(stack) :
    stack[k].busy /\ stack[l].busy /\ Current(stack[k]) = Current(stack[l]) => k = l
OnlyTopIdle == \A k \in 1..Len(stack) : k < Len(stack) => stack[k].busy

IInv == /\ TypeOK
        /\ FramesOK
        /\ DoneIsCompleted
        /\ IdleOutside
        /\ RunningHasFrame
        /\ FrameIsRunning
        /\ FramesDiffer
        /\ OnlyTopIdle
        /\ PrerequisitesFirst

-----------------------------------------------------------------------------
(* Lemmas about plans and about the stack.                                 *)

\* A plan is a sequence of slots whose prerequisites come first.
LEMMA PlanIsOrdered ==
  ASSUME NEW goal \in Names, NEW plan \in Plans(graph, goal)
  PROVE  /\ plan \in Seq(Slots)
         /\ Ordered(graph, plan)
         /\ Listed(plan) = Closure(graph, goal)
<1>1. Closure(graph, goal) \subseteq Slots
  BY DEF Closure
<1>2. PICK length \in 0..NodeCount : plan \in [1..length -> Closure(graph, goal)]
  BY DEF Plans
<1>3. plan \in [1..length -> Slots] /\ length \in Nat
  BY <1>1, <1>2, NodeCountAssumption
<1>4. plan \in Seq(Slots)
  BY <1>3
<1>5. Orders(graph, Closure(graph, goal), plan)
  BY DEF Plans
<1> QED
  BY <1>4, <1>5 DEF Orders, Ordered

\* Replacing the innermost frame.
LEMMA WithTopFrames ==
  ASSUME stack \in Seq(Frame), stack # <<>>, NEW frame \in Frame
  PROVE  /\ WithTop(frame) \in Seq(Frame)
         /\ Len(WithTop(frame)) = Len(stack)
         /\ WithTop(frame)[Len(stack)] = frame
         /\ \A k \in 1..(Len(stack) - 1) : WithTop(frame)[k] = stack[k]
BY DEF WithTop, Depth

\* Returning from the innermost frame.
LEMMA BelowFrames ==
  ASSUME stack \in Seq(Frame), stack # <<>>
  PROVE  /\ Below \in Seq(Frame)
         /\ Len(Below) = Len(stack) - 1
         /\ \A k \in 1..(Len(stack) - 1) : Below[k] = stack[k]
         /\ Len(stack) = 1 => Below = <<>>
<1>1. Len(stack) \in Nat /\ Len(stack) >= 1 /\ \A k \in 1..Len(stack) : stack[k] \in Frame
  OBVIOUS
<1>2. /\ Below \in Seq(Frame)
      /\ Len(Below) = Len(stack) - 1
      /\ \A k \in 1..(Len(stack) - 1) : Below[k] = stack[k]
  <2> DEFINE last == Len(stack) - 1
  <2>1. last \in Int /\ 1 \in Int /\ \A i \in 1..last : stack[i] \in Frame
    BY <1>1
  <2> HIDE DEF last
  <2>2. /\ SubSeq(stack, 1, last) \in Seq(Frame)
        /\ Len(SubSeq(stack, 1, last)) = IF 1 <= last THEN last - 1 + 1 ELSE 0
        /\ \A i \in 1..(last - 1 + 1) : SubSeq(stack, 1, last)[i] = stack[1 + i - 1]
    BY <2>1, SubSeqProperties
  <2>3. last \in Nat
    BY <1>1 DEF last
  <2>4. Len(SubSeq(stack, 1, last)) = last
    BY <2>2, <2>3
  <2>5. \A i \in 1..last : SubSeq(stack, 1, last)[i] = stack[i]
    BY <2>2, <2>3
  <2>6. Below = SubSeq(stack, 1, last)
    BY DEF Below, Depth, last
  <2> QED
    BY <2>2, <2>4, <2>5, <2>6 DEF last
<1>3. Len(stack) = 1 => Below = <<>>
  BY <1>2
<1> QED
  BY <1>2, <1>3

\* Calling run_plan from the innermost frame.
LEMMA PushedFrames ==
  ASSUME stack \in Seq(Frame), NEW frame \in Frame
  PROVE  /\ Append(stack, frame) \in Seq(Frame)
         /\ Len(Append(stack, frame)) = Len(stack) + 1
         /\ Append(stack, frame)[Len(stack) + 1] = frame
         /\ \A k \in 1..Len(stack) : Append(stack, frame)[k] = stack[k]
OBVIOUS

\* The innermost frame of a run in progress, and the task it is at.
LEMMA TopFrame ==
  ASSUME TypeOK, Stepping
  PROVE  /\ Len(stack) \in Nat /\ Len(stack) >= 1
         /\ Depth = Len(stack)
         /\ Top = stack[Len(stack)]
         /\ Top \in Frame
         /\ Top.plan \in Seq(Slots) /\ Top.index \in Nat /\ Top.index >= 1
         /\ Top.busy \in BOOLEAN
         /\ Top.index <= Len(Top.plan) => Current(Top) \in Slots
<1>1. stack \in Seq(Frame) /\ stack # <<>>
  BY DEF TypeOK, Stepping
<1>2. Len(stack) \in Nat /\ Len(stack) >= 1 /\ stack[Len(stack)] \in Frame
  BY <1>1
<1>3. Depth = Len(stack) /\ Top = stack[Len(stack)]
  BY DEF Depth, Top
<1>4. Top.plan \in Seq(Slots) /\ Top.index \in Nat /\ Top.index >= 1 /\ Top.busy \in BOOLEAN
  BY <1>2, <1>3 DEF Frame
<1> QED
  BY <1>2, <1>3, <1>4 DEF Current

-----------------------------------------------------------------------------
(* The steps of run_plan, one lemma each: what it does to the frames, then *)
(* one step per conjunct of the invariant.                                 *)

\* A command starts with no task entered, so the invariant holds.
THEOREM InitIInv == Init => IInv
<1> SUFFICES ASSUME Init PROVE IInv
  OBVIOUS
<1>1. graph \in [Slots -> Node] /\ goals \in Requests /\ at \in DOMAIN goals
  BY RunAssumption DEF Init
<1>2. TypeOK
  <2>1. stack \in Seq(Frame) /\ calls \in 0..MaxCalls
    BY RunAssumption DEF Init
  <2>2. wrote \in BOOLEAN
    BY DEF Init
  <2>3. progress \in [Slots -> Progress] /\ starts \in [Slots -> Nat] /\ done \in SUBSET Slots
    BY DEF Init, Progress, Fresh
  <2>4. phase \in Phases
    BY DEF Init, Phases
  <2> QED
    BY <1>1, <2>1, <2>3, <2>4, <2>2 DEF TypeOK
<1>3. stack = <<>> /\ Len(stack) = 0
  BY DEF Init
<1>4. \A slot \in Slots : progress[slot] = "not_started" /\ slot \notin done
  BY DEF Init, Fresh
<1> QED
  BY <1>2, <1>3, <1>4 DEF IInv, FramesOK, DoneIsCompleted, IdleOutside,
     RunningHasFrame, FrameIsRunning, FramesDiffer, OnlyTopIdle, PrerequisitesFirst

LEMMA SkipPreserves == IInv /\ SkipCompleted => IInv'
<1> SUFFICES ASSUME IInv, SkipCompleted PROVE IInv'
  OBVIOUS
<1> USE DEF IInv
<1>1. Stepping /\ ~Top.busy /\ ~AtEnd(Top) /\ progress[Current(Top)] = "completed"
  BY DEF SkipCompleted, Looping
<1>2. /\ Len(stack) \in Nat /\ Len(stack) >= 1
      /\ Top = stack[Len(stack)] /\ Top \in Frame
      /\ Top.plan \in Seq(Slots) /\ Top.index \in Nat /\ Top.index >= 1
  BY <1>1, TopFrame
<1>3. Top.index <= Len(Top.plan)
  BY <1>1, <1>2 DEF AtEnd
<1> DEFINE frame == Moved(Top)
<1>4. /\ frame \in Frame /\ frame.plan = Top.plan /\ frame.busy = FALSE
      /\ frame.index = Top.index + 1
  BY <1>2 DEF Moved, Frame
<1>5. stack \in Seq(Frame) /\ stack # <<>>
  BY <1>1 DEF TypeOK, Stepping
<1>6. /\ stack' \in Seq(Frame) /\ Len(stack') = Len(stack)
      /\ stack'[Len(stack)] = frame
      /\ \A k \in 1..(Len(stack) - 1) : stack'[k] = stack[k]
  BY <1>4, <1>5, WithTopFrames DEF SkipCompleted
<1>7. UNCHANGED <<graph, goals, phase, at, progress, calls, wrote, done, starts>>
  BY DEF SkipCompleted, inputs
<1>8. FrameOK(graph, progress, frame)
  <2>1. FrameOK(graph, progress, Top)
    BY <1>2 DEF FramesOK
  <2>2. \A i \in 1..(frame.index - 1) : i \in 1..(Top.index - 1) \/ i = Top.index
    BY <1>2, <1>4
  <2>3. \A i \in 1..(frame.index - 1) : progress[frame.plan[i]] = "completed"
    BY <1>1, <1>4, <2>1, <2>2 DEF FrameOK, Current
  <2> QED
    BY <1>2, <1>3, <1>4, <2>1, <2>3 DEF FrameOK
<1>9. TypeOK'
  BY <1>6, <1>7 DEF TypeOK
<1>10. FramesOK'
  <2> SUFFICES ASSUME NEW k \in 1..Len(stack) PROVE FrameOK(graph, progress, stack'[k])
    BY <1>6, <1>7 DEF FramesOK
  <2>1. CASE k = Len(stack)
    BY <1>6, <1>8, <2>1
  <2>2. CASE k # Len(stack)
    BY <1>2, <1>6, <2>2 DEF FramesOK
  <2> QED
    BY <2>1, <2>2
<1>11. DoneIsCompleted' /\ IdleOutside' /\ PrerequisitesFirst'
  BY <1>1, <1>7 DEF DoneIsCompleted, IdleOutside, PrerequisitesFirst, Stepping
<1>12. \A k \in 1..Len(stack) :
         /\ stack'[k].busy <=> stack[k].busy
         /\ stack[k].busy => stack'[k] = stack[k]
  <2> TAKE k \in 1..Len(stack)
  <2>1. CASE k = Len(stack)
    BY <1>1, <1>2, <1>4, <1>6, <2>1
  <2>2. CASE k # Len(stack)
    BY <1>2, <1>6, <2>2
  <2> QED
    BY <2>1, <2>2
<1>13. RunningHasFrame' /\ FrameIsRunning' /\ FramesDiffer' /\ OnlyTopIdle'
  BY <1>6, <1>7, <1>12 DEF RunningHasFrame, FrameIsRunning, FramesDiffer, OnlyTopIdle
<1> QED
  BY <1>9, <1>10, <1>11, <1>13

LEMMA StartPreserves == IInv /\ StartTask => IInv'
<1> SUFFICES ASSUME IInv, StartTask PROVE IInv'
  OBVIOUS
<1> USE DEF IInv
<1> DEFINE task  == Current(Top)
           frame == Entered(Top)
<1>1. Stepping /\ ~Top.busy /\ ~AtEnd(Top) /\ progress[task] = "not_started"
  BY DEF StartTask, Looping
<1>2. /\ Len(stack) \in Nat /\ Len(stack) >= 1
      /\ Top = stack[Len(stack)] /\ Top \in Frame
      /\ Top.plan \in Seq(Slots) /\ Top.index \in Nat /\ Top.index >= 1
  BY <1>1, TopFrame
<1>3. Top.index <= Len(Top.plan) /\ task \in Slots
  BY <1>1, <1>2, TopFrame DEF AtEnd
<1>4. /\ frame \in Frame /\ frame.plan = Top.plan /\ frame.busy = TRUE
      /\ frame.index = Top.index /\ Current(frame) = task
  BY <1>2 DEF Entered, Frame, Current
<1>5. stack \in Seq(Frame) /\ stack # <<>>
  BY <1>1 DEF TypeOK, Stepping
<1>6. /\ stack' \in Seq(Frame) /\ Len(stack') = Len(stack)
      /\ stack'[Len(stack)] = frame
      /\ \A k \in 1..(Len(stack) - 1) : stack'[k] = stack[k]
  BY <1>4, <1>5, WithTopFrames DEF StartTask
<1>7. UNCHANGED <<graph, goals, phase, at, calls, wrote, done>>
  BY DEF StartTask, inputs
<1>8. /\ progress' = [progress EXCEPT ![task] = "running"]
      /\ progress \in [Slots -> Progress]
  BY DEF StartTask, TypeOK
<1>9. /\ progress' \in [Slots -> Progress]
      /\ progress'[task] = "running"
      /\ \A slot \in Slots : slot # task => progress'[slot] = progress[slot]
  BY <1>3, <1>8 DEF Progress
<1>10. TypeOK'
  BY <1>3, <1>6, <1>7, <1>9 DEF TypeOK, StartTask
<1>11. \A x \in Slots : progress[x] = "completed" => progress'[x] = "completed"
  BY <1>1, <1>9
<1>12. ASSUME NEW k \in 1..Len(stack)
       PROVE  FrameOK(graph, progress', stack[k])
  <2>1. FrameOK(graph, progress, stack[k]) /\ stack[k] \in Frame
    BY <1>5 DEF FramesOK
  <2>2. stack[k].plan \in Seq(Slots) /\ stack[k].index \in Nat
    BY <2>1 DEF Frame
  <2>3. \A i \in 1..(stack[k].index - 1) : stack[k].plan[i] \in Slots
    BY <2>1, <2>2 DEF FrameOK
  <2> QED
    BY <1>11, <2>1, <2>3 DEF FrameOK
<1>13. FrameOK(graph, progress', frame)
  BY <1>2, <1>3, <1>4, <1>12 DEF FrameOK
<1>14. FramesOK'
  BY <1>2, <1>6, <1>7, <1>12, <1>13 DEF FramesOK
<1>15. DoneIsCompleted' /\ IdleOutside'
  BY <1>1, <1>7, <1>9 DEF DoneIsCompleted, IdleOutside, Stepping
<1>16. PrerequisitesFirst'
  <2>1. FrameOK(graph, progress, Top)
    BY <1>2 DEF FramesOK
  <2>2. Prerequisites(graph, task) \subseteq Before(Top.plan, Top.index)
    BY <1>2, <1>3, <2>1 DEF FrameOK, Ordered, Current
  <2>3. \A i \in 1..(Top.index - 1) : Top.plan[i] \in Slots /\ progress[Top.plan[i]] = "completed"
    BY <1>2, <1>3, <2>1 DEF FrameOK
  <2>4. Before(Top.plan, Top.index) \subseteq done
    BY <2>3 DEF Before, DoneIsCompleted
  <2> QED
    BY <1>7, <1>9, <2>2, <2>4 DEF PrerequisitesFirst
<1>17. \A k \in 1..Len(stack) : stack[k].busy => Current(stack[k]) # task
  BY <1>1 DEF FrameIsRunning
<1>18. \A k \in 1..Len(stack) : k < Len(stack) => stack[k].busy /\ Current(stack[k]) \in Slots
  <2> SUFFICES ASSUME NEW k \in 1..Len(stack), k < Len(stack)
               PROVE  stack[k].busy /\ Current(stack[k]) \in Slots
    OBVIOUS
  <2>1. stack[k].busy /\ FrameOK(graph, progress, stack[k]) /\ stack[k] \in Frame
    BY <1>5 DEF OnlyTopIdle, FramesOK
  <2>2. stack[k].plan \in Seq(Slots) /\ stack[k].index \in 1..Len(stack[k].plan)
    BY <2>1 DEF Frame, FrameOK
  <2> QED
    BY <2>1, <2>2 DEF Current
<1>19. RunningHasFrame'
  <2> SUFFICES ASSUME NEW slot \in Slots, progress'[slot] = "running"
               PROVE  \E k \in 1..Len(stack) : stack'[k].busy /\ Current(stack'[k]) = slot
    BY <1>6 DEF RunningHasFrame
  <2>1. CASE slot = task
    BY <1>2, <1>4, <1>6, <2>1
  <2>2. CASE slot # task
    <3>1. PICK k \in 1..Len(stack) : stack[k].busy /\ Current(stack[k]) = slot
      BY <1>9, <2>2 DEF RunningHasFrame
    <3>2. k \in 1..(Len(stack) - 1)
      BY <1>1, <1>2, <3>1
    <3> QED
      BY <1>6, <3>1, <3>2
  <2> QED
    BY <2>1, <2>2
<1>20. FrameIsRunning'
  <2> SUFFICES ASSUME NEW k \in 1..Len(stack), stack'[k].busy
               PROVE  progress'[Current(stack'[k])] = "running"
    BY <1>6 DEF FrameIsRunning
  <2>1. CASE k = Len(stack)
    BY <1>4, <1>6, <1>9, <2>1
  <2>2. CASE k # Len(stack)
    BY <1>2, <1>6, <1>9, <1>17, <1>18, <2>2 DEF FrameIsRunning
  <2> QED
    BY <2>1, <2>2
<1>21. FramesDiffer'
  <2> SUFFICES ASSUME NEW k \in 1..Len(stack), NEW l \in 1..Len(stack),
                      stack'[k].busy, stack'[l].busy,
                      Current(stack'[k]) = Current(stack'[l]), k < l
               PROVE  FALSE
    BY <1>2, <1>6 DEF FramesDiffer
  <2>1. k \in 1..(Len(stack) - 1) /\ stack'[k] = stack[k] /\ stack[k].busy
    BY <1>2, <1>6
  <2>2. CASE l = Len(stack)
    BY <1>4, <1>6, <1>17, <2>1, <2>2
  <2>3. CASE l # Len(stack)
    BY <1>2, <1>6, <2>1, <2>3 DEF FramesDiffer
  <2> QED
    BY <2>2, <2>3
<1>22. OnlyTopIdle'
  BY <1>2, <1>6, <1>18 DEF OnlyTopIdle
<1> QED
  BY <1>10, <1>14, <1>15, <1>16, <1>19, <1>20, <1>21, <1>22

\* What a frame other than the innermost looks like: inside one of its tasks,
\* and a different one from that of any other frame.
LEMMA LowerFrames ==
  ASSUME IInv, NEW k \in 1..Len(stack), k < Len(stack)
  PROVE  /\ stack[k].busy
         /\ Current(stack[k]) \in Slots
         /\ progress[Current(stack[k])] = "running"
<1> USE DEF IInv
<1>1. stack[k].busy /\ FrameOK(graph, progress, stack[k]) /\ stack[k] \in Frame
  BY DEF OnlyTopIdle, FramesOK, TypeOK
<1>2. stack[k].plan \in Seq(Slots) /\ stack[k].index \in 1..Len(stack[k].plan)
  BY <1>1 DEF Frame, FrameOK
<1>3. progress[Current(stack[k])] = "running"
  BY <1>1 DEF FrameIsRunning
<1> QED
  BY <1>1, <1>2, <1>3 DEF Current

\* Returning from a plan that is in no task changes nothing but the stack.
LEMMA ReturnPreserves ==
  ASSUME IInv, Stepping, ~Top.busy, stack' = Below, phase' \in Phases,
         Len(stack) = 1 \/ phase' = phase,
         UNCHANGED <<graph, goals, at, progress, calls, wrote, done, starts>>
  PROVE  IInv'
<1> USE DEF IInv
<1>1. /\ Len(stack) \in Nat /\ Len(stack) >= 1 /\ Top = stack[Len(stack)]
      /\ stack \in Seq(Frame) /\ stack # <<>>
  BY TopFrame DEF TypeOK, Stepping
<1>2. /\ stack' \in Seq(Frame) /\ Len(stack') = Len(stack) - 1
      /\ \A k \in 1..(Len(stack) - 1) : stack'[k] = stack[k]
      /\ Len(stack) = 1 => stack' = <<>>
  BY <1>1, BelowFrames
<1>3. TypeOK'
  BY <1>2 DEF TypeOK
<1>4. FramesOK' /\ DoneIsCompleted' /\ PrerequisitesFirst'
  BY <1>1, <1>2 DEF FramesOK, DoneIsCompleted, PrerequisitesFirst
<1>5. IdleOutside'
  BY <1>2 DEF IdleOutside, Stepping
<1>6. RunningHasFrame'
  <2> SUFFICES ASSUME NEW slot \in Slots, progress[slot] = "running"
               PROVE  \E k \in 1..(Len(stack) - 1) : stack'[k].busy /\ Current(stack'[k]) = slot
    BY <1>2 DEF RunningHasFrame
  <2>1. PICK k \in 1..Len(stack) : stack[k].busy /\ Current(stack[k]) = slot
    BY DEF RunningHasFrame
  <2>2. k \in 1..(Len(stack) - 1)
    BY <1>1, <2>1
  <2> QED
    BY <1>2, <2>1, <2>2
<1>7. FrameIsRunning' /\ FramesDiffer' /\ OnlyTopIdle'
  BY <1>1, <1>2 DEF FrameIsRunning, FramesDiffer, OnlyTopIdle
<1> QED
  BY <1>3, <1>4, <1>5, <1>6, <1>7

LEMMA RefusePreserves == IInv /\ RefuseRunning => IInv'
<1> SUFFICES ASSUME IInv, RefuseRunning PROVE IInv'
  OBVIOUS
<1>1. Stepping /\ ~Top.busy
  BY DEF RefuseRunning, Looping
<1>2. stack' = Below /\ (Len(stack) = 1 \/ phase' = phase) /\ phase' \in Phases
  BY DEF RefuseRunning, ReturnFailure, Depth, IInv, TypeOK, Phases
<1>3. UNCHANGED <<graph, goals, at, progress, calls, wrote, done, starts>>
  BY DEF RefuseRunning, inputs
<1> QED
  BY <1>1, <1>2, <1>3, ReturnPreserves

LEMMA ReturnToCallbackPreserves == IInv /\ ReturnToCallback => IInv'
<1> SUFFICES ASSUME IInv, ReturnToCallback PROVE IInv'
  OBVIOUS
<1>1. Stepping /\ ~Top.busy /\ stack' = Below
  BY DEF ReturnToCallback
<1>2. phase' = phase /\ phase' \in Phases
  BY DEF ReturnToCallback, IInv, TypeOK
<1>3. UNCHANGED <<graph, goals, at, progress, calls, wrote, done, starts>>
  BY DEF ReturnToCallback, inputs
<1> QED
  BY <1>1, <1>2, <1>3, ReturnPreserves

\* The task of a frame that is inside one, which is what finishes or fails.
LEMMA BusyFrame ==
  ASSUME IInv, Stepping, Top.busy
  PROVE  /\ Len(stack) \in Nat /\ Len(stack) >= 1
         /\ stack \in Seq(Frame) /\ stack # <<>>
         /\ Top = stack[Len(stack)] /\ Top \in Frame
         /\ Top.plan \in Seq(Slots) /\ Top.index \in 1..Len(Top.plan)
         /\ FrameOK(graph, progress, Top)
         /\ Current(Top) \in Slots
         /\ progress[Current(Top)] = "running"
         /\ \A k \in 1..(Len(stack) - 1) : Current(stack[k]) # Current(Top)
<1> USE DEF IInv
<1>1. /\ Len(stack) \in Nat /\ Len(stack) >= 1
      /\ Top = stack[Len(stack)] /\ Top \in Frame
      /\ Top.plan \in Seq(Slots) /\ Top.index \in Nat /\ Top.index >= 1
  BY TopFrame
<1>2. stack \in Seq(Frame) /\ stack # <<>>
  BY DEF TypeOK, Stepping
<1>3. FrameOK(graph, progress, Top)
  BY <1>1 DEF FramesOK
<1>4. Top.index \in 1..Len(Top.plan) /\ Current(Top) \in Slots
  BY <1>1, <1>3 DEF FrameOK, Current
<1>5. progress[Current(Top)] = "running"
  BY <1>1 DEF FrameIsRunning
<1>6. \A k \in 1..(Len(stack) - 1) : Current(stack[k]) # Current(Top)
  BY <1>1 DEF FramesDiffer, OnlyTopIdle
<1> QED
  BY <1>1, <1>2, <1>3, <1>4, <1>5, <1>6

LEMMA FinishPreserves == IInv /\ FinishTask => IInv'
<1> SUFFICES ASSUME IInv, FinishTask PROVE IInv'
  OBVIOUS
<1> DEFINE task  == Current(Top)
           frame == Moved(Top)
<1>1. Stepping /\ Top.busy
  BY DEF FinishTask
<1>2. /\ Len(stack) \in Nat /\ Len(stack) >= 1
      /\ stack \in Seq(Frame) /\ stack # <<>>
      /\ Top = stack[Len(stack)] /\ Top \in Frame
      /\ Top.plan \in Seq(Slots) /\ Top.index \in 1..Len(Top.plan)
      /\ FrameOK(graph, progress, Top)
      /\ task \in Slots /\ progress[task] = "running"
      /\ \A k \in 1..(Len(stack) - 1) : Current(stack[k]) # task
  BY <1>1, BusyFrame
<1> USE DEF IInv
<1>3. /\ frame \in Frame /\ frame.plan = Top.plan /\ frame.busy = FALSE
      /\ frame.index = Top.index + 1
  BY <1>2 DEF Moved, Frame
<1>4. /\ stack' \in Seq(Frame) /\ Len(stack') = Len(stack)
      /\ stack'[Len(stack)] = frame
      /\ \A k \in 1..(Len(stack) - 1) : stack'[k] = stack[k]
  BY <1>2, <1>3, WithTopFrames DEF FinishTask
<1>5. UNCHANGED <<graph, goals, phase, at, calls, wrote, starts>> /\ done' = done \cup {task}
  BY DEF FinishTask, inputs
<1>6. /\ progress' \in [Slots -> Progress]
      /\ progress'[task] = "completed"
      /\ \A slot \in Slots : slot # task => progress'[slot] = progress[slot]
  BY <1>2 DEF FinishTask, TypeOK, Progress
<1>7. TypeOK'
  BY <1>2, <1>4, <1>5, <1>6 DEF TypeOK
<1>8. \A slot \in Slots : progress[slot] = "completed" => progress'[slot] = "completed"
  BY <1>6
<1>9. ASSUME NEW k \in 1..(Len(stack) - 1)
      PROVE  FrameOK(graph, progress', stack[k])
  <2>1. FrameOK(graph, progress, stack[k]) /\ stack[k] \in Frame
    BY <1>2 DEF FramesOK
  <2>2. stack[k].plan \in Seq(Slots) /\ stack[k].index \in Nat
    BY <2>1 DEF Frame
  <2>3. \A i \in 1..(stack[k].index - 1) : stack[k].plan[i] \in Slots
    BY <2>1, <2>2 DEF FrameOK
  <2> QED
    BY <1>8, <2>1, <2>3 DEF FrameOK
<1>10. FrameOK(graph, progress', frame)
  <2>1. \A i \in 1..(frame.index - 1) : frame.plan[i] \in Slots /\ (i \in 1..(Top.index - 1) \/ i = Top.index)
    BY <1>2, <1>3
  <2>2. \A i \in 1..(Top.index - 1) : progress[frame.plan[i]] = "completed"
    BY <1>2, <1>3 DEF FrameOK
  <2>3. frame.plan[Top.index] = task
    BY <1>3 DEF Current
  <2>4. \A i \in 1..(frame.index - 1) : progress'[frame.plan[i]] = "completed"
    BY <1>6, <1>8, <2>1, <2>2, <2>3
  <2> QED
    BY <1>2, <1>3, <2>4 DEF FrameOK
<1>11. FramesOK'
  BY <1>2, <1>4, <1>5, <1>9, <1>10 DEF FramesOK
<1>12. DoneIsCompleted' /\ IdleOutside'
  BY <1>1, <1>2, <1>5, <1>6 DEF DoneIsCompleted, IdleOutside, Stepping
<1>13. PrerequisitesFirst'
  BY <1>2, <1>5, <1>6 DEF PrerequisitesFirst
<1>14. RunningHasFrame'
  <2> SUFFICES ASSUME NEW slot \in Slots, progress'[slot] = "running"
               PROVE  \E k \in 1..Len(stack) : stack'[k].busy /\ Current(stack'[k]) = slot
    BY <1>4 DEF RunningHasFrame
  <2>1. slot # task /\ progress[slot] = "running"
    BY <1>6
  <2>2. PICK k \in 1..Len(stack) : stack[k].busy /\ Current(stack[k]) = slot
    BY <2>1 DEF RunningHasFrame
  <2>3. k \in 1..(Len(stack) - 1)
    BY <1>2, <2>1, <2>2
  <2> QED
    BY <1>4, <2>2, <2>3
<1>15. \A k \in 1..Len(stack) : stack'[k].busy => k \in 1..(Len(stack) - 1)
  BY <1>2, <1>3, <1>4
<1>16. FrameIsRunning'
  <2> SUFFICES ASSUME NEW k \in 1..Len(stack), stack'[k].busy
               PROVE  progress'[Current(stack'[k])] = "running"
    BY <1>4 DEF FrameIsRunning
  <2>1. k \in 1..(Len(stack) - 1) /\ k < Len(stack) /\ stack'[k] = stack[k]
    BY <1>2, <1>4, <1>15
  <2> QED
    BY <1>2, <1>6, <2>1, LowerFrames
<1>17. FramesDiffer'
  BY <1>2, <1>4, <1>15 DEF FramesDiffer
<1>18. OnlyTopIdle'
  BY <1>2, <1>4 DEF OnlyTopIdle
<1> QED
  BY <1>7, <1>11, <1>12, <1>13, <1>14, <1>16, <1>17, <1>18

LEMMA FailPreserves == IInv /\ FailTask => IInv'
<1> SUFFICES ASSUME IInv, FailTask PROVE IInv'
  OBVIOUS
<1> DEFINE task == Current(Top)
<1>1. Stepping /\ Top.busy
  BY DEF FailTask
<1>2. /\ Len(stack) \in Nat /\ Len(stack) >= 1
      /\ stack \in Seq(Frame) /\ stack # <<>>
      /\ Top = stack[Len(stack)]
      /\ task \in Slots /\ progress[task] = "running"
      /\ \A k \in 1..(Len(stack) - 1) : Current(stack[k]) # task
  BY <1>1, BusyFrame
<1> USE DEF IInv
<1>3. /\ stack' \in Seq(Frame) /\ Len(stack') = Len(stack) - 1
      /\ \A k \in 1..(Len(stack) - 1) : stack'[k] = stack[k]
      /\ Len(stack) = 1 => stack' = <<>>
  BY <1>2, BelowFrames DEF FailTask, ReturnFailure
<1>4. UNCHANGED <<graph, goals, at, calls, wrote, done, starts>>
  BY DEF FailTask, inputs
<1>5. phase' \in Phases /\ (Len(stack) = 1 \/ phase' = phase)
  BY DEF FailTask, ReturnFailure, Depth, TypeOK, Phases
<1>6. /\ progress' \in [Slots -> Progress]
      /\ progress'[task] = "not_started"
      /\ \A slot \in Slots : slot # task => progress'[slot] = progress[slot]
  BY <1>2 DEF FailTask, TypeOK, Progress
<1>7. TypeOK'
  BY <1>3, <1>4, <1>5, <1>6 DEF TypeOK
<1>8. \A slot \in Slots : progress[slot] = "completed" => progress'[slot] = "completed"
  BY <1>2, <1>6
<1>9. FramesOK'
  <2> SUFFICES ASSUME NEW k \in 1..(Len(stack) - 1)
               PROVE  FrameOK(graph, progress', stack[k])
    BY <1>3, <1>4 DEF FramesOK
  <2>1. FrameOK(graph, progress, stack[k]) /\ stack[k] \in Frame
    BY <1>2 DEF FramesOK
  <2>2. stack[k].plan \in Seq(Slots) /\ stack[k].index \in Nat
    BY <2>1 DEF Frame
  <2>3. \A i \in 1..(stack[k].index - 1) : stack[k].plan[i] \in Slots
    BY <2>1, <2>2 DEF FrameOK
  <2> QED
    BY <1>8, <2>1, <2>3 DEF FrameOK
<1>10. DoneIsCompleted' /\ PrerequisitesFirst'
  BY <1>2, <1>4, <1>6 DEF DoneIsCompleted, PrerequisitesFirst
<1>11. IdleOutside'
  BY <1>1, <1>3, <1>5 DEF IdleOutside, Stepping
<1>12. RunningHasFrame'
  <2> SUFFICES ASSUME NEW slot \in Slots, progress'[slot] = "running"
               PROVE  \E k \in 1..(Len(stack) - 1) : stack'[k].busy /\ Current(stack'[k]) = slot
    BY <1>3 DEF RunningHasFrame
  <2>1. slot # task /\ progress[slot] = "running"
    BY <1>6
  <2>2. PICK k \in 1..Len(stack) : stack[k].busy /\ Current(stack[k]) = slot
    BY <2>1 DEF RunningHasFrame
  <2>3. k \in 1..(Len(stack) - 1)
    BY <1>2, <2>1, <2>2
  <2> QED
    BY <1>3, <2>2, <2>3
<1>13. FrameIsRunning'
  <2> SUFFICES ASSUME NEW k \in 1..(Len(stack) - 1)
               PROVE  progress'[Current(stack[k])] = "running"
    BY <1>2, <1>3 DEF FrameIsRunning
  <2>1. k \in 1..Len(stack) /\ k < Len(stack)
    BY <1>2
  <2> QED
    BY <1>2, <1>6, <2>1, LowerFrames
<1>14. FramesDiffer' /\ OnlyTopIdle'
  BY <1>2, <1>3 DEF FramesDiffer, OnlyTopIdle
<1> QED
  BY <1>7, <1>9, <1>10, <1>11, <1>12, <1>13, <1>14

\* The steps that leave an empty stack and a fresh record.
LEMMA FreshRecord ==
  ASSUME TypeOK', progress' = Fresh, done' = {}, stack' = <<>>
  PROVE  IInv'
<1>1. \A slot \in Slots : progress'[slot] = "not_started" /\ slot \notin done'
  BY DEF Fresh
<1>2. Len(stack') = 0
  OBVIOUS
<1> QED
  BY <1>1, <1>2 DEF IInv, FramesOK, DoneIsCompleted, IdleOutside, RunningHasFrame,
     FrameIsRunning, FramesDiffer, OnlyTopIdle, PrerequisitesFirst

LEMMA FreshIsARecord == Fresh \in [Slots -> Progress]
BY DEF Fresh, Progress

\* at stays on a goal: only the last goal ends the command.
LEMMA NextGoal ==
  ASSUME TypeOK, at # Len(goals)
  PROVE  at + 1 \in DOMAIN goals
<1>1. goals \in Seq(Names)
  BY RunAssumption DEF TypeOK
<1> QED
  BY <1>1 DEF TypeOK

LEMMA GoalDonePreserves == IInv /\ GoalDone => IInv'
<1> SUFFICES ASSUME IInv, GoalDone PROVE IInv'
  OBVIOUS
<1> USE DEF IInv
<1>1. progress' = Fresh /\ done' = {} /\ stack' = <<>>
  BY DEF GoalDone
<1>2. phase' \in Phases /\ at' \in DOMAIN goals
  BY NextGoal DEF GoalDone, TypeOK, Phases
<1>3. UNCHANGED <<graph, goals, calls, wrote, starts>>
  BY DEF GoalDone, inputs
<1>4. TypeOK'
  BY <1>1, <1>2, <1>3, FreshIsARecord DEF TypeOK
<1> QED
  BY <1>1, <1>4, FreshRecord

LEMMA PlanAndSyncPreserve == IInv /\ (PlanGoal \/ Sync) => IInv'
<1> SUFFICES ASSUME IInv, PlanGoal \/ Sync PROVE IInv'
  OBVIOUS
<1> USE DEF IInv
<1>1. UNCHANGED <<graph, goals, progress, stack, calls, done, starts>>
  BY DEF PlanGoal, Sync, inputs
<1>2. stack = <<>>
  BY DEF PlanGoal, Sync, IdleOutside
<1>3. phase' \in Phases /\ at' \in DOMAIN goals /\ wrote' \in BOOLEAN
  <2>1. CASE PlanGoal
    <3>1. goals \in Seq(Names) /\ Len(goals) > 0
      BY RunAssumption DEF TypeOK
    <3>2. 1 \in DOMAIN goals
      BY <3>1
    <3> QED
      BY <2>1, <3>2, NextGoal DEF PlanGoal, TypeOK, Phases
  <2>2. CASE Sync
    BY <2>2 DEF Sync, TypeOK, Phases
  <2> QED
    BY <2>1, <2>2
<1>4. TypeOK'
  BY <1>1, <1>3 DEF TypeOK
<1> QED
  BY <1>1, <1>2, <1>4 DEF FramesOK, DoneIsCompleted, IdleOutside, RunningHasFrame,
     FrameIsRunning, FramesDiffer, OnlyTopIdle, PrerequisitesFirst

\* The frame of a plan that has just been called.
LEMMA CalledFrame ==
  ASSUME NEW goal \in Names, NEW plan \in Plans(graph, goal), NEW record
  PROVE  /\ Called(plan) \in Frame
         /\ FrameOK(graph, record, Called(plan))
         /\ Called(plan).busy = FALSE
         /\ Called(plan).plan = plan
<1>1. plan \in Seq(Slots) /\ Ordered(graph, plan)
  BY PlanIsOrdered
<1>2. /\ Called(plan).plan = plan /\ Called(plan).index = 1 /\ Called(plan).busy = FALSE
      /\ Called(plan) \in Frame
  BY <1>1 DEF Called, Frame
<1> QED
  BY <1>1, <1>2 DEF FrameOK

LEMMA StartGoalPreserves == IInv /\ StartGoal => IInv'
<1> SUFFICES ASSUME IInv, StartGoal PROVE IInv'
  OBVIOUS
<1> USE DEF IInv
<1>1. goals[at] \in Names
  <2>1. goals \in Seq(Names) /\ at \in DOMAIN goals
    BY RunAssumption DEF TypeOK
  <2> QED
    BY <2>1
<1>2. PICK plan \in Plans(graph, goals[at]) : stack' = <<Called(plan)>>
  BY DEF StartGoal
<1>3. /\ Called(plan) \in Frame /\ FrameOK(graph, progress', Called(plan))
      /\ Called(plan).busy = FALSE
  BY <1>1, CalledFrame
<1>4. stack' \in Seq(Frame) /\ Len(stack') = 1 /\ stack'[1] = Called(plan)
  BY <1>2, <1>3
<1>5. /\ UNCHANGED <<graph, goals, phase, at, calls, wrote, starts>>
      /\ progress' = Fresh /\ done' = {} /\ phase = "running"
  BY DEF StartGoal, inputs
<1>6. TypeOK'
  BY <1>4, <1>5, FreshIsARecord DEF TypeOK
<1>7. \A slot \in Slots : progress'[slot] = "not_started" /\ slot \notin done'
  BY <1>5 DEF Fresh
<1>8. FramesOK'
  BY <1>3, <1>4, <1>5 DEF FramesOK
<1>9. FrameIsRunning' /\ FramesDiffer' /\ OnlyTopIdle'
  BY <1>3, <1>4 DEF FrameIsRunning, FramesDiffer, OnlyTopIdle
<1>10. DoneIsCompleted' /\ IdleOutside' /\ RunningHasFrame' /\ PrerequisitesFirst'
  BY <1>5, <1>7 DEF DoneIsCompleted, IdleOutside, RunningHasFrame, PrerequisitesFirst
<1> QED
  BY <1>6, <1>8, <1>9, <1>10

LEMMA RunNestedPreserves ==
  ASSUME IInv, NEW goal \in Names, RunNested(goal)
  PROVE  IInv'
<1> USE DEF IInv
<1>1. Stepping /\ Top.busy /\ calls < MaxCalls /\ calls' = calls + 1
  BY DEF RunNested, Calling
<1>2. PICK plan \in Plans(graph, goal) : stack' = Append(stack, Called(plan))
  BY DEF RunNested
<1>3. /\ Called(plan) \in Frame /\ FrameOK(graph, progress, Called(plan))
      /\ Called(plan).busy = FALSE
  BY CalledFrame
<1>4. /\ Len(stack) \in Nat /\ Len(stack) >= 1 /\ stack \in Seq(Frame)
      /\ Top = stack[Len(stack)]
  BY <1>1, BusyFrame
<1>5. /\ stack' \in Seq(Frame) /\ Len(stack') = Len(stack) + 1
      /\ stack'[Len(stack) + 1] = Called(plan)
      /\ \A k \in 1..Len(stack) : stack'[k] = stack[k]
  BY <1>2, <1>3, <1>4, PushedFrames
<1>6. UNCHANGED <<graph, goals, phase, at, progress, wrote, done, starts>>
  BY DEF RunNested, inputs
<1>7. TypeOK'
  BY <1>1, <1>5, <1>6, RunAssumption DEF TypeOK
<1>8. \A k \in 1..(Len(stack) + 1) : k \in 1..Len(stack) \/ k = Len(stack) + 1
  BY <1>4
<1>9. FramesOK'
  BY <1>3, <1>5, <1>6, <1>8 DEF FramesOK
<1>10. \A k \in 1..(Len(stack) + 1) : stack'[k].busy => k \in 1..Len(stack)
  BY <1>3, <1>5, <1>8
<1>11. FrameIsRunning' /\ FramesDiffer'
  BY <1>5, <1>6, <1>10 DEF FrameIsRunning, FramesDiffer
<1>12. RunningHasFrame'
  <2> SUFFICES ASSUME NEW slot \in Slots, progress[slot] = "running"
               PROVE  \E k \in 1..(Len(stack) + 1) : stack'[k].busy /\ Current(stack'[k]) = slot
    BY <1>5, <1>6 DEF RunningHasFrame
  <2>1. PICK k \in 1..Len(stack) : stack[k].busy /\ Current(stack[k]) = slot
    BY DEF RunningHasFrame
  <2> QED
    BY <1>4, <1>5, <2>1
<1>13. OnlyTopIdle'
  BY <1>1, <1>4, <1>5 DEF OnlyTopIdle
<1>14. DoneIsCompleted' /\ IdleOutside' /\ PrerequisitesFirst'
  BY <1>1, <1>6 DEF DoneIsCompleted, IdleOutside, PrerequisitesFirst, Stepping
<1> QED
  BY <1>7, <1>9, <1>11, <1>12, <1>13, <1>14

LEMMA StutterPreserves ==
  ASSUME IInv, UNCHANGED <<graph, goals, phase, at, progress, stack, wrote, done, starts>>,
         calls' \in 0..MaxCalls
  PROVE  IInv'
BY DEF IInv, TypeOK, FramesOK, DoneIsCompleted, IdleOutside, RunningHasFrame,
   FrameIsRunning, FramesDiffer, OnlyTopIdle, PrerequisitesFirst

\* Every step of a command keeps the invariant.
THEOREM NextPreservesIInv == IInv /\ [Next]_vars => IInv'
<1> SUFFICES ASSUME IInv, [Next]_vars PROVE IInv'
  OBVIOUS
<1>1. CASE PlanGoal \/ Sync
  BY <1>1, PlanAndSyncPreserve
<1>2. CASE StartGoal
  BY <1>2, StartGoalPreserves
<1>3. CASE SkipCompleted
  BY <1>3, SkipPreserves
<1>4. CASE StartTask
  BY <1>4, StartPreserves
<1>5. CASE RefuseRunning
  BY <1>5, RefusePreserves
<1>6. CASE FinishTask
  BY <1>6, FinishPreserves
<1>7. CASE FailTask
  BY <1>7, FailPreserves
<1>8. CASE ReturnToCallback
  BY <1>8, ReturnToCallbackPreserves
<1>9. CASE GoalDone
  BY <1>9, GoalDonePreserves
<1>10. ASSUME NEW goal \in Names, RunNested(goal)
       PROVE  IInv'
  BY <1>10, RunNestedPreserves
<1>11. ASSUME NEW goal \in Names, RefuseNested(goal)
       PROVE  IInv'
  <2>1. calls' \in 0..MaxCalls
    BY <1>11, RunAssumption DEF RefuseNested, Calling, IInv, TypeOK
  <2>2. UNCHANGED <<graph, goals, phase, at, progress, stack, wrote, done, starts>>
    BY <1>11 DEF RefuseNested, inputs
  <2> QED
    BY <2>1, <2>2, StutterPreserves
<1>12. CASE UNCHANGED vars
  <2>1. UNCHANGED <<graph, goals, phase, at, progress, stack, wrote, done, starts>>
    BY <1>12 DEF vars
  <2>2. calls' \in 0..MaxCalls
    BY <1>12 DEF vars, IInv, TypeOK
  <2> QED
    BY <2>1, <2>2, StutterPreserves
<1> QED
  BY <1>1, <1>2, <1>3, <1>4, <1>5, <1>6, <1>7, <1>8, <1>9, <1>10, <1>11, <1>12
     DEF Next, RunPlan, RunTask

\* The invariant holds of every command.
THEOREM IInvHolds == Spec => []IInv
BY InitIInv, NextPreservesIInv, PTL DEF Spec

\* The variables of a command keep their types.
THEOREM RunTypeCorrect == Spec => []TypeOK
<1>1. IInv => TypeOK
  BY DEF IInv
<1> QED
  BY <1>1, IInvHolds, PTL

\* No task runs before everything it waits for has succeeded, whatever plans
\* and nested runs got it going.
THEOREM RunPrerequisitesFirst == Spec => []PrerequisitesFirst
<1>1. IInv => PrerequisitesFirst
  BY DEF IInv
<1> QED
  BY <1>1, IInvHolds, PTL

\* The record of running tasks is the stack of run_plan calls, so no task is
\* entered while it is running and none is left running.
THEOREM RunRunningIsTheStack == Spec => []RunningIsTheStack
<1>1. ASSUME IInv PROVE RunningIsTheStack
  <2> USE <1>1 DEF IInv
  <2>1. stack \in Seq(Frame) /\ Len(stack) \in Nat /\ DOMAIN stack = 1..Len(stack)
    BY DEF TypeOK
  <2>2. \A k \in 1..Len(stack) : stack[k].busy => Current(stack[k]) \in Slots
    <3> SUFFICES ASSUME NEW k \in 1..Len(stack), stack[k].busy
                 PROVE  Current(stack[k]) \in Slots
      OBVIOUS
    <3>1. stack[k] \in Frame /\ FrameOK(graph, progress, stack[k])
      BY <2>1 DEF FramesOK
    <3>2. stack[k].plan \in Seq(Slots) /\ stack[k].index \in 1..Len(stack[k].plan)
      BY <3>1 DEF Frame, FrameOK
    <3> QED
      BY <3>2 DEF Current
  <2>3. {slot \in Slots : progress[slot] = "running"}
          = {Current(stack[k]) : k \in {k \in DOMAIN stack : stack[k].busy}}
    BY <2>1, <2>2 DEF RunningHasFrame, FrameIsRunning
  <2> QED
    BY <2>1, <2>3 DEF RunningIsTheStack, FramesDiffer, OnlyTopIdle
<1> QED
  BY <1>1, IInvHolds, PTL

-----------------------------------------------------------------------------
(* The command as a whole: what is known of the goals at each phase, and    *)
(* which goal the outermost plan is for.                                    *)

AllPlannable == \A n \in DOMAIN goals : Plannable(graph, goals[n])
Untouched    == ~wrote /\ done = {} /\ \A slot \in Slots : starts[slot] = 0

CommandInv ==
  /\ phase \in {"planning", "syncing"} => Untouched
  /\ phase \in {"running", "succeeded"} => wrote
  /\ phase = "syncing" => at = 1
  /\ phase = "planning" => \A n \in 1..(at - 1) : Plannable(graph, goals[n])
  /\ phase \in {"syncing", "running", "succeeded"} => AllPlannable
  /\ NothingBeforeThePlan
  /\ phase = "running" /\ stack = <<>> => done = {}
  /\ phase = "running" /\ stack # <<>> =>
       Listed(stack[1].plan) = Closure(graph, goals[at])

\* A step of run_plan keeps the goal, and the outermost plan while there is one.
LEMMA RunPlanKeepsGoal ==
  ASSUME IInv, SkipCompleted \/ StartTask \/ RefuseRunning \/ FinishTask \/ FailTask
                 \/ ReturnToCallback \/ \E goal \in Names : RunNested(goal)
  PROVE  /\ UNCHANGED <<graph, goals, at, wrote>>
         /\ phase = "running" /\ phase' \in {"running", "failed"}
         /\ phase' = "running" => stack' # <<>> /\ stack'[1].plan = stack[1].plan
<1>1. Stepping
  BY DEF SkipCompleted, StartTask, RefuseRunning, FinishTask, FailTask, ReturnToCallback,
     RunNested, Calling, Looping
<1>2. UNCHANGED <<graph, goals, at, wrote>>
  BY DEF SkipCompleted, StartTask, RefuseRunning, FinishTask, FailTask, ReturnToCallback,
     RunNested, inputs
<1>3. phase = "running" /\ phase' \in {"running", "failed"}
  BY <1>1 DEF SkipCompleted, StartTask, RefuseRunning, FinishTask, FailTask, ReturnToCallback,
     RunNested, Stepping, ReturnFailure
<1>4. /\ Len(stack) \in Nat /\ Len(stack) >= 1 /\ stack \in Seq(Frame) /\ stack # <<>>
      /\ Depth = Len(stack) /\ Top = stack[Len(stack)] /\ Top \in Frame
      /\ Top.plan \in Seq(Slots) /\ Top.index \in Nat /\ Top.index >= 1
  BY <1>1, TopFrame DEF IInv, TypeOK, Stepping
<1>5. ASSUME NEW frame \in Frame, frame.plan = Top.plan, stack' = WithTop(frame)
      PROVE  stack' # <<>> /\ stack'[1].plan = stack[1].plan
  <2>1. /\ stack' \in Seq(Frame) /\ Len(stack') = Len(stack)
        /\ stack'[Len(stack)] = frame
        /\ \A k \in 1..(Len(stack) - 1) : stack'[k] = stack[k]
    BY <1>4, <1>5, WithTopFrames
  <2>2. CASE Len(stack) = 1
    BY <1>4, <1>5, <2>1, <2>2
  <2>3. CASE Len(stack) # 1
    BY <1>4, <2>1, <2>3
  <2> QED
    BY <2>2, <2>3
<1>6. ASSUME stack' = Below, Depth # 1
      PROVE  stack' # <<>> /\ stack'[1].plan = stack[1].plan
  BY <1>4, <1>6, BelowFrames
<1>7. CASE SkipCompleted \/ FinishTask
  <2>1. Moved(Top) \in Frame /\ Moved(Top).plan = Top.plan
    BY <1>4 DEF Moved, Frame
  <2> QED
    BY <1>2, <1>3, <1>5, <1>7, <2>1 DEF SkipCompleted, FinishTask
<1>8. CASE StartTask
  <2>1. Entered(Top) \in Frame /\ Entered(Top).plan = Top.plan
    BY <1>4 DEF Entered, Frame
  <2> QED
    BY <1>2, <1>3, <1>5, <1>8, <2>1 DEF StartTask
<1>9. CASE RefuseRunning \/ FailTask \/ ReturnToCallback
  <2>1. stack' = Below /\ (phase' = "running" => Depth # 1)
    BY <1>4, <1>9 DEF RefuseRunning, FailTask, ReturnToCallback, ReturnFailure
  <2> QED
    BY <1>2, <1>3, <1>6, <2>1
<1>10. ASSUME NEW goal \in Names, RunNested(goal)
       PROVE  stack' # <<>> /\ stack'[1].plan = stack[1].plan
  <2>1. PICK plan \in Plans(graph, goal) : stack' = Append(stack, Called(plan))
    BY <1>10 DEF RunNested
  <2>2. Called(plan) \in Frame
    BY CalledFrame
  <2>3. Len(stack') = Len(stack) + 1 /\ stack'[1] = stack[1] /\ stack' \in Seq(Frame)
    BY <1>4, <2>1, <2>2, PushedFrames
  <2> QED
    BY <1>4, <2>3
<1> QED
  BY <1>2, <1>3, <1>7, <1>8, <1>9, <1>10

\* A command starts with its first goal to be planned.
THEOREM InitCommandInv == Init => CommandInv
<1> SUFFICES ASSUME Init PROVE CommandInv
  OBVIOUS
<1>1. phase = "planning" /\ at = 1 /\ stack = <<>>
  BY DEF Init
<1>2. Untouched
  BY DEF Init, Untouched
<1>3. NothingBeforeThePlan
  BY <1>2 DEF NothingBeforeThePlan, Untouched
<1> QED
  BY <1>1, <1>2, <1>3 DEF CommandInv

\* Every step keeps what ties the phase of a command to its goals.
THEOREM NextPreservesCommandInv == IInv /\ CommandInv /\ [Next]_vars => CommandInv'
<1> SUFFICES ASSUME IInv, CommandInv, [Next]_vars PROVE CommandInv'
  OBVIOUS
<1> USE DEF CommandInv
<1>0. goals \in Seq(Names) /\ at \in DOMAIN goals /\ starts \in [Slots -> Nat]
  BY RunAssumption DEF IInv, TypeOK
<1>1. CASE PlanGoal
  <2>1. /\ phase = "planning" /\ Untouched /\ UNCHANGED <<graph, goals>>
        /\ UNCHANGED <<stack, wrote, done, starts>>
    BY <1>1 DEF PlanGoal, inputs
  <2>2. Untouched' /\ NothingBeforeThePlan'
    BY <1>0, <2>1 DEF Untouched, NothingBeforeThePlan
  <2>3. CASE ~Plannable(graph, goals[at])
    BY <1>1, <2>1, <2>2, <2>3 DEF PlanGoal
  <2>4. CASE Plannable(graph, goals[at]) /\ at = Len(goals)
    <3>1. AllPlannable'
      BY <1>0, <2>1, <2>4 DEF AllPlannable
    <3> QED
      BY <1>1, <2>1, <2>2, <2>4, <3>1 DEF PlanGoal
  <2>5. CASE Plannable(graph, goals[at]) /\ at # Len(goals)
    <3>1. at' = at + 1 /\ phase' = "planning"
      BY <1>1, <2>1, <2>5 DEF PlanGoal
    <3>2. \A n \in 1..(at' - 1) : Plannable(graph, goals[n])
      BY <1>0, <2>1, <2>5, <3>1
    <3> QED
      BY <2>1, <2>2, <3>1, <3>2
  <2> QED
    BY <2>3, <2>4, <2>5
<1>2. CASE Sync
  <2>1. /\ AllPlannable /\ Untouched /\ at = 1 /\ stack = <<>> /\ done = {}
        /\ UNCHANGED <<graph, goals, at, stack, done, starts>>
        /\ wrote' = TRUE /\ phase' \in {"running", "failed"}
    BY <1>2 DEF Sync, inputs, IInv, IdleOutside, Untouched
  <2>2. AllPlannable' /\ NothingBeforeThePlan'
    BY <2>1 DEF AllPlannable, NothingBeforeThePlan
  <2> QED
    BY <2>1, <2>2
<1>3. CASE StartGoal
  <2>1. goals[at] \in Names
    BY <1>0
  <2>2. PICK plan \in Plans(graph, goals[at]) : stack' = <<Called(plan)>>
    BY <1>3 DEF StartGoal
  <2>3. Listed(plan) = Closure(graph, goals[at])
    BY <2>1, PlanIsOrdered
  <2>4. Called(plan).plan = plan
    BY DEF Called
  <2>5. /\ UNCHANGED <<graph, goals, phase, at, wrote, starts>>
        /\ phase = "running" /\ AllPlannable
    BY <1>3 DEF StartGoal, inputs
  <2>6. AllPlannable' /\ NothingBeforeThePlan'
    BY <2>5 DEF AllPlannable, NothingBeforeThePlan
  <2> QED
    BY <2>2, <2>3, <2>4, <2>5, <2>6
<1>4. CASE GoalDone
  <2>1. /\ phase = "running" /\ AllPlannable /\ wrote
        /\ stack' = <<>> /\ done' = {} /\ phase' \in {"running", "succeeded"}
        /\ UNCHANGED <<graph, goals, wrote>>
    BY <1>4 DEF GoalDone, Stepping, inputs
  <2>2. AllPlannable' /\ NothingBeforeThePlan'
    BY <2>1 DEF AllPlannable, NothingBeforeThePlan
  <2> QED
    BY <2>1, <2>2
<1>5. CASE \/ SkipCompleted \/ StartTask \/ RefuseRunning \/ FinishTask \/ FailTask
           \/ ReturnToCallback \/ \E goal \in Names : RunNested(goal)
  <2>1. /\ UNCHANGED <<graph, goals, at, wrote>>
        /\ phase = "running" /\ phase' \in {"running", "failed"}
        /\ phase' = "running" => stack' # <<>> /\ stack'[1].plan = stack[1].plan
    BY <1>5, RunPlanKeepsGoal
  <2>2. AllPlannable /\ wrote /\ stack # <<>>
    BY <1>5, <2>1 DEF SkipCompleted, StartTask, RefuseRunning, FinishTask, FailTask,
       ReturnToCallback, RunNested, Calling, Looping, Stepping
  <2>3. AllPlannable' /\ NothingBeforeThePlan'
    BY <2>1, <2>2 DEF AllPlannable, NothingBeforeThePlan
  <2> QED
    BY <2>1, <2>2, <2>3
<1>6. CASE UNCHANGED vars \/ \E goal \in Names : RefuseNested(goal)
  <2>1. UNCHANGED <<graph, goals, phase, at, stack, wrote, done, starts>>
    BY <1>6 DEF vars, RefuseNested, inputs
  <2>2. AllPlannable' <=> AllPlannable
    BY <2>1 DEF AllPlannable
  <2>3. Untouched' <=> Untouched
    BY <2>1 DEF Untouched
  <2>4. NothingBeforeThePlan'
    BY <2>1 DEF NothingBeforeThePlan
  <2> QED
    BY <2>1, <2>2, <2>3, <2>4
<1> QED
  BY <1>1, <1>2, <1>3, <1>4, <1>5, <1>6 DEF Next, RunPlan, RunTask

\* The phase of every command fits its goals.
THEOREM CommandInvHolds == Spec => []CommandInv
BY InitCommandInv, NextPreservesCommandInv, IInvHolds, PTL DEF Spec

\* The project is not written and no task runs unless every selected goal can
\* be planned.
THEOREM RunNothingBeforeThePlan == Spec => []NothingBeforeThePlan
<1>1. CommandInv => NothingBeforeThePlan
  BY DEF CommandInv
<1> QED
  BY <1>1, CommandInvHolds, PTL

-----------------------------------------------------------------------------
(* The command implements BuildOrder: planning and failing before the sync  *)
(* are steps of its verdict, a finished task is a Build, the end of an      *)
(* outermost plan a Deliver, and everything else stutters.                  *)

Delivered == IF ~wrote THEN 0 ELSE IF phase = "succeeded" THEN at ELSE at - 1
Verdict   == IF phase \in {"planning", "syncing"} THEN "considering"
             ELSE IF phase = "running" THEN "building" ELSE phase

\* At the end of the outermost plan the goal's whole closure has succeeded.
LEMMA ClosureIsDone ==
  ASSUME IInv, CommandInv, GoalDone
  PROVE  Closure(graph, goals[at]) \subseteq done
<1>1. Stepping /\ Depth = 1 /\ ~Top.busy /\ AtEnd(Top)
  BY DEF GoalDone
<1>2. /\ Top = stack[1] /\ Len(stack) = 1
      /\ Top.plan \in Seq(Slots) /\ Top.index \in Nat
  BY <1>1, TopFrame DEF IInv
<1>3. FrameOK(graph, progress, Top)
  BY <1>2 DEF IInv, FramesOK
<1>4. \A i \in DOMAIN Top.plan : Top.plan[i] \in Slots /\ progress[Top.plan[i]] = "completed"
  BY <1>1, <1>2, <1>3 DEF FrameOK, AtEnd
<1>5. Listed(Top.plan) \subseteq done
  BY <1>4 DEF Listed, IInv, DoneIsCompleted
<1>6. Listed(Top.plan) = Closure(graph, goals[at])
  BY <1>1, <1>2 DEF CommandInv, Stepping
<1> QED
  BY <1>5, <1>6

\* The instance's graph operators are these.
LEMMA SameSlots == Order!Slots = Slots
BY DEF Order!Slots, Slots

LEMMA SamePrerequisites ==
  ASSUME NEW tasks, NEW slot
  PROVE  Order!Prerequisites(tasks, slot) = Prerequisites(tasks, slot)
BY SameSlots DEF Order!Prerequisites, Prerequisites, Order!Joiners, Joiners, Order!Listed, Listed

LEMMA SameClosure ==
  ASSUME NEW tasks, NEW goal
  PROVE  Order!Closure(tasks, goal) = Closure(tasks, goal)
<1>1. \A slots : Order!Closed(tasks, slots) <=> Closed(tasks, slots)
  BY SamePrerequisites DEF Order!Closed, Closed
<1> QED
  BY <1>1, SameSlots DEF Order!Closure, Closure

LEMMA SamePlannable ==
  ASSUME NEW tasks, NEW goal
  PROVE  Order!Plannable(tasks, goal) <=> Plannable(tasks, goal)
<1>1. Order!EveryEdgeDeclared(tasks) <=> EveryEdgeDeclared(tasks)
  BY SameSlots DEF Order!EveryEdgeDeclared, EveryEdgeDeclared, Order!Listed, Listed
<1>2. Order!Cyclic(tasks, goal) <=> Cyclic(tasks, goal)
  BY SameClosure, SamePrerequisites DEF Order!Cyclic, Cyclic
<1> QED
  BY <1>1, <1>2, SameSlots DEF Order!Plannable, Plannable

LEMMA InitImplementsOrder == Init => Order!Init
BY DEF Init, Order!Init

LEMMA NextImplementsOrder ==
  IInv /\ CommandInv /\ [Next]_vars => [Order!Next]_(Order!orderVars)
<1> SUFFICES ASSUME IInv, CommandInv, [Next]_vars
             PROVE  [Order!Next]_(Order!orderVars)
  OBVIOUS
<1>0. /\ goals \in Seq(Names) /\ at \in Nat /\ at >= 1 /\ at <= Len(goals)
      /\ Len(goals) \in Nat /\ DOMAIN goals = 1..Len(goals)
  BY RunAssumption DEF IInv, TypeOK
<1> DEFINE Stutter == UNCHANGED <<graph, goals, done, Delivered, Verdict>>
<1>1. Stutter => [Order!Next]_(Order!orderVars)
  BY DEF Order!orderVars, Delivered, Verdict
<1>2. CASE PlanGoal
  <2>1. /\ phase = "planning" /\ ~wrote /\ UNCHANGED <<graph, goals, done, wrote>>
        /\ phase' \in {"planning", "syncing", "failed"}
    BY <1>2 DEF PlanGoal, inputs, CommandInv, Untouched
  <2>2. CASE phase' \in {"planning", "syncing"}
    BY <1>1, <2>1, <2>2 DEF Delivered, Verdict
  <2>3. CASE phase' = "failed"
    <3>1. Order!Fail
      BY <2>1, <2>3 DEF Order!Fail
    <3> QED
      BY <3>1 DEF Order!Next
  <2> QED
    BY <2>1, <2>2, <2>3
<1>3. CASE Sync
  <2>1. /\ phase = "syncing" /\ ~wrote /\ wrote' = TRUE /\ at = 1 /\ AllPlannable
        /\ phase' \in {"running", "failed"} /\ UNCHANGED <<graph, goals, done, at>>
    BY <1>3 DEF Sync, inputs, CommandInv, Untouched
  <2>2. CASE phase' = "running"
    <3>1. Order!Accept
      BY <2>1, <2>2, SamePlannable DEF Order!Accept, AllPlannable
    <3> QED
      BY <3>1 DEF Order!Next
  <2>3. CASE phase' = "failed"
    <3>1. Order!Fail
      BY <2>1, <2>3 DEF Order!Fail
    <3> QED
      BY <3>1 DEF Order!Next
  <2> QED
    BY <2>1, <2>2, <2>3
<1>4. CASE StartGoal
  <2>1. Stutter
    BY <1>4 DEF StartGoal, inputs, CommandInv, Delivered, Verdict
  <2> QED
    BY <1>1, <2>1
<1>5. CASE FinishTask
  <2>1. Stepping /\ Top.busy /\ done' = done \cup {Current(Top)}
    BY <1>5 DEF FinishTask
  <2>2. Current(Top) \in Slots /\ progress[Current(Top)] = "running"
    BY <2>1, BusyFrame
  <2>3. Current(Top) \notin done /\ Prerequisites(graph, Current(Top)) \subseteq done
    BY <2>2 DEF IInv, DoneIsCompleted, PrerequisitesFirst
  <2>4. phase = "running" /\ wrote /\ UNCHANGED <<graph, goals, phase, at, wrote>>
    BY <1>5 DEF FinishTask, Stepping, CommandInv, inputs
  <2>5. Order!Build(Current(Top))
    BY <1>0, <2>1, <2>3, <2>4, SamePrerequisites DEF Order!Build
  <2> QED
    BY <2>2, <2>5, SameSlots DEF Order!Next
<1>6. CASE GoalDone
  <2>1. /\ phase = "running" /\ wrote /\ done' = {} /\ UNCHANGED <<graph, goals, wrote>>
        /\ IF at = Len(goals) THEN phase' = "succeeded" /\ at' = at
                              ELSE phase' = "running" /\ at' = at + 1
    BY <1>6 DEF GoalDone, Stepping, CommandInv, inputs
  <2>2. Closure(graph, goals[at]) \subseteq done
    BY <1>6, ClosureIsDone
  <2>3. Delivered = at - 1 /\ Verdict = "building"
    BY <2>1 DEF Delivered, Verdict
  <2>4. wrote'
    BY <2>1
  <2>5. Delivered' = at
    <3>1. CASE at = Len(goals)
      BY <2>1, <2>4, <3>1 DEF Delivered
    <3>2. CASE at # Len(goals)
      <4>1. Delivered' = at' - 1 /\ at' = at + 1
        BY <2>1, <2>4, <3>2 DEF Delivered
      <4> QED
        BY <1>0, <4>1
    <3> QED
      BY <3>1, <3>2
  <2>6. Verdict' = IF at = Len(goals) THEN "succeeded" ELSE "building"
    BY <2>1 DEF Verdict
  <2>7. Order!Closure(graph, goals[Delivered + 1]) \subseteq done
    BY <1>0, <2>2, <2>3, SameClosure
  <2>8. Delivered < Len(goals) /\ Delivered' = Delivered + 1
    BY <1>0, <2>3, <2>5
  <2>9. Order!Deliver
    BY <2>1, <2>3, <2>6, <2>7, <2>8, <2>5 DEF Order!Deliver, Delivered, Verdict
  <2> QED
    BY <2>9 DEF Order!Next
<1>7. CASE SkipCompleted \/ StartTask \/ RefuseRunning \/ FailTask \/ ReturnToCallback
           \/ \E goal \in Names : RunNested(goal)
  <2>1. /\ phase = "running" /\ phase' \in {"running", "failed"} /\ wrote
        /\ UNCHANGED <<graph, goals, at, wrote>>
    BY <1>7, RunPlanKeepsGoal DEF CommandInv
  <2>2. UNCHANGED done
    BY <1>7 DEF SkipCompleted, StartTask, RefuseRunning, FailTask, ReturnToCallback, RunNested
  <2>3. CASE phase' = "running"
    BY <1>1, <2>1, <2>2, <2>3 DEF Delivered, Verdict
  <2>4. CASE phase' = "failed"
    <3>1. Order!Fail
      BY <2>1, <2>2, <2>4 DEF Order!Fail
    <3> QED
      BY <3>1 DEF Order!Next
  <2> QED
    BY <2>1, <2>3, <2>4
<1>8. CASE UNCHANGED vars \/ \E goal \in Names : RefuseNested(goal)
  <2>1. Stutter
    BY <1>8 DEF vars, RefuseNested, inputs, Delivered, Verdict
  <2> QED
    BY <1>1, <2>1
<1> QED
  BY <1>2, <1>3, <1>4, <1>5, <1>6, <1>7, <1>8 DEF Next, RunPlan, RunTask

\* Whatever the tasks run from inside each other, the command builds in
\* dependency order and delivers each goal only when its closure succeeded.
THEOREM RunBuildsInOrder == Spec => BuildsInOrder
<1>1. Init => Order!Init
  BY InitImplementsOrder
<1>2. IInv /\ CommandInv /\ [Next]_vars => [Order!Next]_(Order!orderVars)
  BY NextImplementsOrder
<1> QED
  BY <1>1, <1>2, IInvHolds, CommandInvHolds, PTL DEF Spec, BuildsInOrder, Order!Spec
=============================================================================
