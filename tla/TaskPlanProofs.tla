--------------------------- MODULE TaskPlanProofs ---------------------------
(***************************************************************************)
(* Proofs about TaskPlan, for every set of tasks and every graph over it:  *)
(* what the walk returns is a plan, a cycle it reports is a cycle, and its *)
(* stack never outgrows the array it is kept in.                           *)
(***************************************************************************)
EXTENDS TaskPlan, SequenceTheorems, FiniteSetTheorems, WellFoundedInduction, TLAPS

-----------------------------------------------------------------------------
(* What visit goes through is what the task waits for.                     *)

\* What is listed by two sequences, one after the other.
LEMMA ListedTogether ==
  ASSUME NEW S, NEW first \in Seq(S), NEW second \in Seq(S)
  PROVE  Listed(first \o second) = Listed(first) \cup Listed(second)
<1> DEFINE both == first \o second
<1>1. /\ both \in Seq(S) /\ Len(both) = Len(first) + Len(second)
      /\ \A i \in 1..(Len(first) + Len(second)) :
           both[i] = IF i <= Len(first) THEN first[i] ELSE second[i - Len(first)]
  BY ConcatProperties
<1>2. /\ Len(first) \in Nat /\ Len(second) \in Nat
      /\ DOMAIN first = 1..Len(first) /\ DOMAIN second = 1..Len(second)
  OBVIOUS
<1> HIDE DEF both
<1>3. DOMAIN both = 1..(Len(first) + Len(second))
  BY <1>1
<1>4. ASSUME NEW i \in 1..Len(first)
      PROVE  \E j \in DOMAIN both : both[j] = first[i]
  <2>1. i \in 1..(Len(first) + Len(second)) /\ i <= Len(first)
    BY <1>2
  <2> QED
    BY <1>1, <1>3, <2>1
<1>5. ASSUME NEW i \in 1..Len(second)
      PROVE  \E j \in DOMAIN both : both[j] = second[i]
  <2> DEFINE j == Len(first) + i
  <2>1. j \in 1..(Len(first) + Len(second)) /\ ~(j <= Len(first)) /\ j - Len(first) = i
    BY <1>2
  <2> HIDE DEF j
  <2>2. both[j] = second[j - Len(first)]
    BY <1>1, <2>1
  <2> QED
    BY <1>3, <2>1, <2>2
<1>6. ASSUME NEW j \in DOMAIN both
      PROVE  \/ \E i \in 1..Len(first) : both[j] = first[i]
             \/ \E i \in 1..Len(second) : both[j] = second[i]
  <2>1. CASE j <= Len(first)
    BY <1>1, <1>2, <1>3, <2>1
  <2>2. CASE ~(j <= Len(first))
    <3>1. j - Len(first) \in 1..Len(second) /\ both[j] = second[j - Len(first)]
      BY <1>1, <1>2, <1>3, <2>2
    <3> QED
      BY <3>1
  <2> QED
    BY <2>1, <2>2
<1>7. ASSUME NEW x PROVE x \in Listed(both) <=> x \in Listed(first) \cup Listed(second)
  <2>1. x \in Listed(both) <=> \E j \in DOMAIN both : both[j] = x
    BY DEF Listed
  <2>2. x \in Listed(first) <=> \E i \in 1..Len(first) : first[i] = x
    BY <1>2 DEF Listed
  <2>3. x \in Listed(second) <=> \E i \in 1..Len(second) : second[i] = x
    BY <1>2 DEF Listed
  <2> QED
    BY <1>4, <1>5, <1>6, <2>1, <2>2, <2>3
<1> QED
  BY <1>7 DEF both

\* A sequence that lists only members of a set is a sequence over it.
LEMMA ListedWithin ==
  ASSUME NEW S, NEW T, NEW list \in Seq(S), Listed(list) \subseteq T
  PROVE  list \in Seq(T)
<1>1. list \in [1..Len(list) -> S] /\ Len(list) \in Nat
  BY LenProperties
<1>2. list \in [1..Len(list) -> T]
  BY <1>1 DEF Listed
<1> QED
  BY <1>1, <1>2, IsASeq

\* A task's edges, then the whole set in order.
LEMMA CandidatesShape ==
  ASSUME graph \in [Slots -> Node], EveryEdgeDeclared(graph), NEW slot \in Slots
  PROVE  /\ Edges(slot) \in Seq(Slots) /\ Len(Edges(slot)) \in Nat
         /\ Listed(Edges(slot)) =
              Listed(graph[slot].dependsOn) \cup Listed(graph[slot].extraDependsOn)
         /\ Candidates(slot) \in Seq(Slots)
         /\ Len(Candidates(slot)) = Len(Edges(slot)) + NodeCount
         /\ \A i \in 1..Len(Edges(slot)) : Candidates(slot)[i] = Edges(slot)[i]
         /\ \A other \in Slots : Candidates(slot)[Len(Edges(slot)) + other] = other
<1> DEFINE set == [other \in Slots |-> other]
<1>1. graph[slot].dependsOn \in Seq(Slots) /\ graph[slot].extraDependsOn \in Seq(Slots)
  <2>1. graph[slot].dependsOn \in Seq(Names) /\ graph[slot].extraDependsOn \in Seq(Names)
    BY DEF Node
  <2>2. Listed(graph[slot].dependsOn) \subseteq Slots /\ Listed(graph[slot].extraDependsOn) \subseteq Slots
    BY DEF EveryEdgeDeclared
  <2> QED
    BY <2>1, <2>2, ListedWithin
<1>2. /\ Edges(slot) \in Seq(Slots)
      /\ Listed(Edges(slot)) =
           Listed(graph[slot].dependsOn) \cup Listed(graph[slot].extraDependsOn)
  BY <1>1, ConcatProperties, ListedTogether DEF Edges
<1>3. set \in Seq(Slots) /\ Len(set) = NodeCount /\ \A i \in Slots : set[i] = i
  BY NodeCountAssumption DEF Slots
<1> HIDE DEF set
<1>4. /\ Edges(slot) \o set \in Seq(Slots)
      /\ Len(Edges(slot) \o set) = Len(Edges(slot)) + Len(set)
      /\ \A i \in 1..(Len(Edges(slot)) + Len(set)) :
           (Edges(slot) \o set)[i] = IF i <= Len(Edges(slot)) THEN Edges(slot)[i]
                                     ELSE set[i - Len(Edges(slot))]
  BY <1>2, <1>3, ConcatProperties
<1>5. Candidates(slot) = Edges(slot) \o set
  BY DEF Candidates, set
<1>6. Len(Edges(slot)) \in Nat
  BY <1>2
<1>7. \A i \in 1..Len(Edges(slot)) : Candidates(slot)[i] = Edges(slot)[i]
  BY <1>3, <1>4, <1>5, <1>6, NodeCountAssumption
<1>8. ASSUME NEW other \in Slots
      PROVE  Candidates(slot)[Len(Edges(slot)) + other] = other
  <2> DEFINE i == Len(Edges(slot)) + other
  <2>1. /\ i \in 1..(Len(Edges(slot)) + Len(set)) /\ ~(i <= Len(Edges(slot)))
        /\ i - Len(Edges(slot)) = other
    BY <1>3, <1>6, NodeCountAssumption DEF Slots
  <2> QED
    BY <1>3, <1>4, <1>5, <2>1
<1> QED
  BY <1>2, <1>3, <1>4, <1>5, <1>6, <1>7, <1>8

\* The candidates are slots, and the ones that lead somewhere are exactly the
\* prerequisites.
LEMMA CandidatesArePrerequisites ==
  ASSUME graph \in [Slots -> Node], EveryEdgeDeclared(graph), NEW slot \in Slots
  PROVE  /\ Candidates(slot) \in Seq(Slots)
         /\ \A i \in 1..Len(Candidates(slot)) :
              Leads(slot, i) => Candidates(slot)[i] \in Prerequisites(graph, slot)
         /\ \A other \in Prerequisites(graph, slot) :
              \E i \in 1..Len(Candidates(slot)) :
                Leads(slot, i) /\ Candidates(slot)[i] = other
<1> DEFINE count == Len(Edges(slot))
<1>1. /\ Edges(slot) \in Seq(Slots) /\ count \in Nat
      /\ Listed(Edges(slot)) =
           Listed(graph[slot].dependsOn) \cup Listed(graph[slot].extraDependsOn)
      /\ Candidates(slot) \in Seq(Slots)
      /\ Len(Candidates(slot)) = count + NodeCount
      /\ \A i \in 1..count : Candidates(slot)[i] = Edges(slot)[i]
      /\ \A other \in Slots : Candidates(slot)[count + other] = other
  BY CandidatesShape
<1>2. \A i \in 1..Len(Candidates(slot)) : Candidates(slot)[i] \in Slots
  BY <1>1
<1>3. ASSUME NEW i \in 1..Len(Candidates(slot)), Leads(slot, i)
      PROVE  Candidates(slot)[i] \in Prerequisites(graph, slot)
  <2>1. CASE i <= count
    <3>1. i \in 1..count /\ i \in DOMAIN Edges(slot)
      BY <1>1, <2>1, NodeCountAssumption
    <3>2. Candidates(slot)[i] \in Listed(Edges(slot))
      BY <1>1, <3>1 DEF Listed
    <3> QED
      BY <1>1, <1>2, <3>2 DEF Prerequisites
  <2>2. CASE ~(i <= count)
    <3>1. slot \in graph[Candidates(slot)[i]].partOf
      BY <1>3, <2>2 DEF Leads
    <3> QED
      BY <1>2, <3>1 DEF Prerequisites, Joiners
  <2> QED
    BY <2>1, <2>2
<1>4. ASSUME NEW other \in Prerequisites(graph, slot)
      PROVE  \E i \in 1..Len(Candidates(slot)) :
               Leads(slot, i) /\ Candidates(slot)[i] = other
  <2>1. other \in Slots /\ (other \in Listed(Edges(slot)) \/ slot \in graph[other].partOf)
    BY <1>1 DEF Prerequisites, Joiners
  <2>2. CASE other \in Listed(Edges(slot))
    <3>1. PICK i \in DOMAIN Edges(slot) : Edges(slot)[i] = other
      BY <2>2 DEF Listed
    <3>2. i \in 1..count /\ i \in 1..Len(Candidates(slot)) /\ i <= count
      BY <1>1, <3>1, NodeCountAssumption
    <3>3. Candidates(slot)[i] = other /\ Leads(slot, i)
      BY <1>1, <3>1, <3>2 DEF Leads
    <3> QED
      BY <3>2, <3>3
  <2>3. CASE slot \in graph[other].partOf
    <3>1. count + other \in 1..Len(Candidates(slot)) /\ Candidates(slot)[count + other] = other
      BY <1>1, <2>1, NodeCountAssumption DEF Slots
    <3>2. Leads(slot, count + other)
      BY <2>3, <3>1 DEF Leads
    <3> QED
      BY <3>1, <3>2
  <2> QED
    BY <2>1, <2>2, <2>3
<1> QED
  BY <1>1, <1>3, <1>4

-----------------------------------------------------------------------------
(* The inductive invariant: the stack is a path of prerequisites, of tasks *)
(* each on it once; what a frame has passed is done, but for the call it   *)
(* waits for; and the plan lists what is done, prerequisites first. It is  *)
(* stated of the graph and the walk as arguments.                          *)

EdgesIn(tasks, slot) == tasks[slot].dependsOn \o tasks[slot].extraDependsOn
CandidatesIn(tasks, slot) == EdgesIn(tasks, slot) \o [other \in Slots |-> other]
LeadsIn(tasks, slot, index) ==
  index <= Len(EdgesIn(tasks, slot)) \/ slot \in tasks[CandidatesIn(tasks, slot)[index]].partOf

Frame == [slot : Slots, next : Nat \ {0}]

OnceEach(stack) ==
  \A i, j \in 1..Len(stack) : stack[i].slot = stack[j].slot => i = j
StackIsMarked(marks, stack) ==
  /\ \A i \in 1..Len(stack) : marks[stack[i].slot] = "on_stack"
  /\ \A slot \in Slots : marks[slot] = "on_stack" => \E i \in 1..Len(stack) : stack[i].slot = slot
StackIsAPath(tasks, stack) ==
  \A i, j \in 1..Len(stack) :
    j = i + 1 => stack[j].slot \in Prerequisites(tasks, stack[i].slot)
Passed(tasks, marks, stack) ==
  \A i \in 1..Len(stack) : \A index \in 1..Len(CandidatesIn(tasks, stack[i].slot)) :
    index < stack[i].next /\ LeadsIn(tasks, stack[i].slot, index) =>
      \/ marks[CandidatesIn(tasks, stack[i].slot)[index]] = "done"
      \/ \E j \in 1..Len(stack) :
           j = i + 1 /\ CandidatesIn(tasks, stack[i].slot)[index] = stack[j].slot
WithinClosure(tasks, name, marks) ==
  \A slot \in Slots : marks[slot] # "unvisited" => slot \in Closure(tasks, name)
PlanIsDone(marks, list) ==
  /\ \A slot \in Slots : marks[slot] = "done" <=> \E i \in 1..Len(list) : list[i] = slot
  /\ \A i, j \in 1..Len(list) : list[i] = list[j] => i = j
PlanIsOrdered(tasks, list) ==
  \A i \in 1..Len(list) : Prerequisites(tasks, list[i]) \subseteq Before(list, i)

WalkInv ==
  /\ OnceEach(frames)
  /\ StackIsMarked(state, frames)
  /\ StackIsAPath(graph, frames)
  /\ Passed(graph, state, frames)
  /\ WithinClosure(graph, goal, state)
PlanInv ==
  outcome \in {"walking", "planned"} => PlanIsDone(state, plan) /\ PlanIsOrdered(graph, plan)
OutcomeInv ==
  /\ outcome = "checking" => /\ frames = <<>> /\ plan = <<>>
                             /\ \A slot \in Slots : state[slot] = "unvisited"
  /\ outcome \in {"walking", "planned", "cycle"} => EveryEdgeDeclared(graph) /\ goal \in Slots
  /\ outcome = "walking" => frames # <<>> /\ state[goal] # "unvisited"
  /\ outcome = "planned" => frames = <<>> /\ state[goal] = "done"
  /\ outcome = "edge_undeclared" => ~EveryEdgeDeclared(graph)
  /\ outcome = "goal_undeclared" => EveryEdgeDeclared(graph) /\ goal \notin Slots
  /\ outcome = "cycle" => Cyclic(graph, goal)

IInv == TypeOK /\ WalkInv /\ PlanInv /\ OutcomeInv

-----------------------------------------------------------------------------
LEMMA SameCandidates ==
  ASSUME NEW slot
  PROVE  /\ Candidates(slot) = CandidatesIn(graph, slot)
         /\ \A index : Leads(slot, index) <=> LeadsIn(graph, slot, index)
BY DEF Candidates, CandidatesIn, Edges, EdgesIn, Leads, LeadsIn

LEMMA CandidatesInSlots ==
  ASSUME graph \in [Slots -> Node], EveryEdgeDeclared(graph), NEW slot \in Slots,
         NEW index \in 1..Len(CandidatesIn(graph, slot))
  PROVE  CandidatesIn(graph, slot)[index] \in Slots
<1>1. CandidatesIn(graph, slot) \in Seq(Slots)
  BY SameCandidates, CandidatesShape
<1> QED
  BY <1>1

\* The closure holds the goal and the prerequisites of what it holds.
LEMMA ClosureIsClosed ==
  ASSUME NEW tasks, NEW name
  PROVE  /\ name \in Slots => name \in Closure(tasks, name)
         /\ \A slot \in Closure(tasks, name) : Prerequisites(tasks, slot) \subseteq Closure(tasks, name)
         /\ Closure(tasks, name) \subseteq Slots
<1>1. name \in Slots => name \in Closure(tasks, name)
  BY DEF Closure
<1>2. ASSUME NEW slot \in Closure(tasks, name), NEW other \in Prerequisites(tasks, slot)
      PROVE  other \in Closure(tasks, name)
  <2>1. other \in Slots
    BY DEF Prerequisites
  <2> SUFFICES ASSUME NEW closed \in SUBSET Slots, name \in closed, Closed(tasks, closed)
               PROVE  other \in closed
    BY <2>1 DEF Closure
  <2>2. slot \in closed
    BY DEF Closure
  <2> QED
    BY <2>2 DEF Closed
<1>3. Closure(tasks, name) \subseteq Slots
  BY DEF Closure
<1> QED
  BY <1>1, <1>2, <1>3

\* The innermost frame, while the walk goes on.
LEMMA TopFrame ==
  ASSUME TypeOK, frames # <<>>
  PROVE  /\ Len(frames) \in Nat /\ Len(frames) >= 1 /\ frames \in Seq(Frame)
         /\ Top = frames[Len(frames)] /\ Top \in Frame
         /\ Top.slot \in Slots /\ Top.next \in Nat /\ Top.next >= 1
<1>1. frames \in Seq(Frame)
  BY DEF TypeOK, Frame
<1>2. Len(frames) \in Nat /\ Len(frames) >= 1 /\ frames[Len(frames)] \in Frame
  BY <1>1
<1>3. Top = frames[Len(frames)]
  BY DEF Top
<1> QED
  BY <1>1, <1>2, <1>3 DEF Frame

\* The frames when the innermost's index moves on.
LEMMA AdvancedFrames ==
  ASSUME TypeOK, frames # <<>>
  PROVE  /\ Advanced \in Seq(Frame) /\ Len(Advanced) = Len(frames)
         /\ Advanced[Len(frames)] = [slot |-> Top.slot, next |-> Top.next + 1]
         /\ \A k \in 1..(Len(frames) - 1) : Advanced[k] = frames[k]
<1>1. /\ Len(frames) \in Nat /\ Len(frames) >= 1 /\ frames \in Seq(Frame)
      /\ Top.slot \in Slots /\ Top.next \in Nat /\ Top.next >= 1
  BY TopFrame
<1> DEFINE frame == [slot |-> Top.slot, next |-> Top.next + 1]
<1>2. frame \in Frame
  BY <1>1 DEF Frame
<1>3. Advanced = [frames EXCEPT ![Len(frames)] = frame]
  BY DEF Advanced
<1> HIDE DEF frame
<1>4. Len(frames) \in 1..Len(frames)
  BY <1>1
<1>5. /\ Advanced \in Seq(Frame) /\ Len(Advanced) = Len(frames)
      /\ \A j \in 1..Len(frames) : Advanced[j] = IF j = Len(frames) THEN frame ELSE frames[j]
  BY <1>1, <1>2, <1>3, <1>4, ExceptSeq
<1> QED
  BY <1>1, <1>4, <1>5 DEF frame

\* The frames below the innermost.
LEMMA FramesBelow ==
  ASSUME TypeOK, frames # <<>>
  PROVE  LET below == SubSeq(frames, 1, Len(frames) - 1) IN
         /\ below \in Seq(Frame) /\ Len(below) = Len(frames) - 1
         /\ \A k \in 1..(Len(frames) - 1) : below[k] = frames[k]
         /\ Len(frames) = 1 => below = <<>>
<1> DEFINE last == Len(frames) - 1
<1>1. /\ Len(frames) \in Nat /\ Len(frames) >= 1 /\ frames \in Seq(Frame)
  BY TopFrame
<1>2. last \in Int /\ 1 \in Int /\ last \in Nat /\ \A i \in 1..last : frames[i] \in Frame
  BY <1>1
<1> HIDE DEF last
<1>3. /\ SubSeq(frames, 1, last) \in Seq(Frame)
      /\ Len(SubSeq(frames, 1, last)) = IF 1 <= last THEN last - 1 + 1 ELSE 0
      /\ \A i \in 1..(last - 1 + 1) : SubSeq(frames, 1, last)[i] = frames[1 + i - 1]
  BY <1>2, SubSeqProperties
<1>4. Len(SubSeq(frames, 1, last)) = last
  BY <1>2, <1>3
<1>5. \A i \in 1..last : SubSeq(frames, 1, last)[i] = frames[i]
  BY <1>2, <1>3
<1>6. last = 0 => SubSeq(frames, 1, last) = <<>>
  BY <1>3, <1>4
<1>7. Len(frames) = 1 => last = 0
  BY DEF last
<1>8. last = Len(frames) - 1
  BY DEF last
<1> QED
  BY <1>3, <1>4, <1>5, <1>6, <1>7, <1>8

\* What visit is at.
LEMMA TurnFacts ==
  ASSUME IInv, Turn
  PROVE  /\ frames # <<>> /\ EveryEdgeDeclared(graph) /\ goal \in Slots
         /\ graph \in [Slots -> Node]
         /\ Top.next \in 1..Len(Candidates(Top.slot)) /\ Candidate \in Slots
         /\ Leads(Top.slot, Top.next) => Candidate \in Prerequisites(graph, Top.slot)
<1>1. /\ frames # <<>> /\ EveryEdgeDeclared(graph) /\ goal \in Slots /\ graph \in [Slots -> Node]
  BY DEF IInv, OutcomeInv, Turn, TypeOK
<1>2. Top.slot \in Slots /\ Top.next \in Nat /\ Top.next >= 1
  BY <1>1, TopFrame DEF IInv
<1>3. /\ Candidates(Top.slot) \in Seq(Slots)
      /\ \A i \in 1..Len(Candidates(Top.slot)) :
           Leads(Top.slot, i) => Candidates(Top.slot)[i] \in Prerequisites(graph, Top.slot)
  BY <1>1, <1>2, CandidatesArePrerequisites
<1>4. Len(Candidates(Top.slot)) \in Nat
  BY <1>3
<1>5. Top.next \in 1..Len(Candidates(Top.slot))
  BY <1>2, <1>4 DEF Turn, Exhausted
<1> QED
  BY <1>1, <1>3, <1>5 DEF Candidate

-----------------------------------------------------------------------------
(* The steps, one lemma each.                                              *)

LEMMA InitIInv == Init => IInv
<1> SUFFICES ASSUME Init PROVE IInv
  OBVIOUS
<1>1. TypeOK
  BY GraphsAssumption DEF Init, TypeOK, States, Outcomes
<1>2. frames = <<>> /\ Len(frames) = 0 /\ plan = <<>> /\ outcome = "checking"
      /\ \A slot \in Slots : state[slot] = "unvisited"
  BY DEF Init
<1>3. WalkInv
  BY <1>2 DEF WalkInv, OnceEach, StackIsMarked, StackIsAPath, Passed, WithinClosure
<1>4. PlanInv /\ OutcomeInv
  BY <1>2 DEF PlanInv, OutcomeInv
<1> QED
  BY <1>1, <1>3, <1>4 DEF IInv

\* A refusal leaves the walk as it is and frees the plan.
LEMMA RefusePreserves ==
  ASSUME IInv, NEW reason \in Refusals, Refuse(reason), OutcomeInv'
  PROVE  IInv'
<1>1. /\ outcome' = reason /\ plan' = <<>>
      /\ graph' = graph /\ goal' = goal /\ state' = state /\ frames' = frames
  BY DEF Refuse
<1>2. TypeOK'
  BY <1>1 DEF IInv, TypeOK, Refusals, Outcomes
<1>3. WalkInv'
  BY <1>1 DEF IInv, WalkInv
<1>4. PlanInv'
  BY <1>1 DEF PlanInv, Refusals
<1> QED
  BY <1>2, <1>3, <1>4 DEF IInv

LEMMA CheckingPreserves ==
  IInv /\ (RefuseDanglingEdge \/ RefuseUnknownGoal) => IInv'
<1>1. ASSUME IInv, RefuseDanglingEdge PROVE IInv'
  <2>1. Refuse("edge_undeclared") /\ ~EveryEdgeDeclared(graph)
    BY <1>1 DEF RefuseDanglingEdge
  <2>2. OutcomeInv'
    BY <2>1 DEF Refuse, OutcomeInv
  <2> QED
    BY <1>1, <2>1, <2>2, RefusePreserves DEF Refusals
<1>2. ASSUME IInv, RefuseUnknownGoal PROVE IInv'
  <2>1. Refuse("goal_undeclared") /\ EveryEdgeDeclared(graph) /\ goal \notin Slots
    BY <1>2 DEF RefuseUnknownGoal
  <2>2. OutcomeInv'
    BY <2>1 DEF Refuse, OutcomeInv
  <2> QED
    BY <1>2, <2>1, <2>2, RefusePreserves DEF Refusals
<1> QED
  BY <1>1, <1>2

LEMMA BeginWalkPreserves == IInv /\ BeginWalk => IInv'
<1> SUFFICES ASSUME IInv, BeginWalk PROVE IInv'
  OBVIOUS
<1>1. /\ EveryEdgeDeclared(graph) /\ goal \in Slots /\ outcome = "checking"
      /\ state' = [state EXCEPT ![goal] = "on_stack"]
      /\ frames' = Append(frames, [slot |-> goal, next |-> 1])
      /\ outcome' = "walking" /\ graph' = graph /\ goal' = goal /\ plan' = plan
  BY DEF BeginWalk, Enter
<1>2. /\ frames = <<>> /\ plan = <<>> /\ \A slot \in Slots : state[slot] = "unvisited"
      /\ state \in [Slots -> States]
  BY <1>1 DEF IInv, OutcomeInv, TypeOK
<1>3. frames' = <<[slot |-> goal, next |-> 1]>>
  BY <1>1, <1>2
<1>4. /\ frames' # <<>> /\ Len(frames') = 1 /\ frames'[1].slot = goal /\ frames'[1].next = 1
      /\ frames' \in Seq(Frame)
  <2> DEFINE frame == [slot |-> goal, next |-> 1]
  <2>1. frame \in Frame
    BY <1>1 DEF Frame
  <2>2. frame.slot = goal /\ frame.next = 1
    OBVIOUS
  <2>3. frames' = <<frame>>
    BY <1>3
  <2> HIDE DEF frame
  <2> QED
    BY <2>1, <2>2, <2>3
<1>5. TypeOK'
  BY <1>1, <1>4 DEF IInv, TypeOK, States, Outcomes, Frame
<1>6. \A slot \in Slots : state'[slot] = IF slot = goal THEN "on_stack" ELSE "unvisited"
  BY <1>1, <1>2
<1>7. WalkInv'
  <2>1. OnceEach(frames') /\ StackIsAPath(graph', frames')
    BY <1>4 DEF OnceEach, StackIsAPath
  <2>2. StackIsMarked(state', frames')
    BY <1>1, <1>4, <1>6 DEF StackIsMarked
  <2>3. Passed(graph', state', frames')
    BY <1>4 DEF Passed
  <2>4. WithinClosure(graph', goal', state')
    BY <1>1, <1>6, ClosureIsClosed DEF WithinClosure
  <2> QED
    BY <2>1, <2>2, <2>3, <2>4 DEF WalkInv
<1>8. PlanInv'
  BY <1>1, <1>2, <1>6 DEF PlanInv, PlanIsDone, PlanIsOrdered
<1>9. OutcomeInv'
  BY <1>1, <1>4, <1>6 DEF OutcomeInv
<1> QED
  BY <1>5, <1>7, <1>8, <1>9 DEF IInv

LEMMA DescendPreserves == IInv /\ Descend => IInv'
<1> SUFFICES ASSUME IInv, Descend PROVE IInv'
  OBVIOUS
<1> DEFINE n == Len(frames)
           here == Top.slot
           next == Top.next
           there == Candidate
<1>1. /\ Turn /\ Leads(here, next) /\ state[there] = "unvisited"
      /\ state' = [state EXCEPT ![there] = "on_stack"]
      /\ frames' = Append(Advanced, [slot |-> there, next |-> 1])
      /\ graph' = graph /\ goal' = goal /\ plan' = plan /\ outcome' = outcome
  BY DEF Descend, Enter
<1>2. /\ frames # <<>> /\ EveryEdgeDeclared(graph) /\ goal \in Slots
      /\ next \in 1..Len(CandidatesIn(graph, here)) /\ there \in Slots
      /\ there \in Prerequisites(graph, here)
      /\ there = CandidatesIn(graph, here)[next]
  BY <1>1, TurnFacts, SameCandidates DEF Candidate
<1>3. /\ n \in Nat /\ n >= 1 /\ frames[n].slot = here /\ frames[n].next = next
      /\ here \in Slots /\ next \in Nat
  BY <1>2, TopFrame DEF IInv
<1>4. /\ Advanced \in Seq(Frame) /\ Len(Advanced) = n
      /\ Advanced[n] = [slot |-> here, next |-> next + 1]
      /\ \A k \in 1..(n - 1) : Advanced[k] = frames[k]
  BY <1>2, AdvancedFrames DEF IInv
<1>5. [slot |-> there, next |-> 1] \in Frame
  BY <1>2 DEF Frame
<1>6. /\ frames' \in Seq(Frame) /\ Len(frames') = n + 1
      /\ frames'[n + 1] = [slot |-> there, next |-> 1]
      /\ frames'[n] = [slot |-> here, next |-> next + 1]
      /\ \A k \in 1..(n - 1) : frames'[k] = frames[k]
  BY <1>1, <1>3, <1>4, <1>5
<1>7. /\ \A k \in 1..n : frames'[k].slot = frames[k].slot
      /\ frames'[n + 1].slot = there
  BY <1>3, <1>6
<1>8. /\ state \in [Slots -> States] /\ state'[there] = "on_stack"
      /\ \A slot \in Slots : slot # there => state'[slot] = state[slot]
  BY <1>1, <1>2 DEF IInv, TypeOK
<1>9. \A k \in 1..n : frames[k].slot \in Slots /\ frames[k].slot # there
  <2>1. \A k \in 1..n : frames[k].slot \in Slots
    <3>1. frames \in Seq(Frame)
      BY <1>2, TopFrame DEF IInv
    <3>2. \A k \in 1..n : frames[k] \in Frame
      BY <3>1
    <3> QED
      BY <3>2 DEF Frame
  <2>2. \A k \in 1..n : state[frames[k].slot] = "on_stack"
    BY DEF IInv, WalkInv, StackIsMarked
  <2> QED
    BY <1>1, <2>1, <2>2
<1>10. TypeOK'
  BY <1>1, <1>2, <1>6, <1>8 DEF IInv, TypeOK, States, Frame
<1> HIDE DEF n, here, next, there
<1>11. OnceEach(frames')
  <2> SUFFICES ASSUME NEW i \in 1..(n + 1), NEW j \in 1..(n + 1),
                      frames'[i].slot = frames'[j].slot
               PROVE  i = j
    BY <1>6 DEF OnceEach
  <2>1. \A k \in 1..(n + 1) : k \in 1..n \/ k = n + 1
    BY <1>3
  <2>2. \A k, l \in 1..n : frames[k].slot = frames[l].slot => k = l
    BY DEF IInv, WalkInv, OnceEach, n
  <2> QED
    BY <1>7, <1>9, <2>1, <2>2
<1>12. StackIsMarked(state', frames')
  <2>1. \A k \in 1..(n + 1) : k \in 1..n \/ k = n + 1
    BY <1>3
  <2>2. \A k \in 1..n : state[frames[k].slot] = "on_stack"
    BY DEF IInv, WalkInv, StackIsMarked, n
  <2>3. \A k \in 1..(n + 1) : state'[frames'[k].slot] = "on_stack"
    BY <1>7, <1>8, <1>9, <2>1, <2>2
  <2>4. ASSUME NEW slot \in Slots, state'[slot] = "on_stack"
        PROVE  \E k \in 1..(n + 1) : frames'[k].slot = slot
    <3>1. CASE slot = there
      BY <1>3, <1>7, <3>1
    <3>2. CASE slot # there
      <4>1. PICK k \in 1..n : frames[k].slot = slot
        BY <1>8, <2>4, <3>2 DEF IInv, WalkInv, StackIsMarked, n
      <4>2. k \in 1..(n + 1)
        BY <1>3
      <4> QED
        BY <1>7, <4>1, <4>2
    <3> QED
      BY <3>1, <3>2
  <2> QED
    BY <1>6, <2>3, <2>4 DEF StackIsMarked
<1>13. StackIsAPath(graph, frames')
  <2> SUFFICES ASSUME NEW i \in 1..(n + 1), NEW j \in 1..(n + 1), j = i + 1
               PROVE  frames'[j].slot \in Prerequisites(graph, frames'[i].slot)
    BY <1>6 DEF StackIsAPath
  <2>1. CASE i = n
    BY <1>2, <1>3, <1>7, <2>1
  <2>2. CASE i # n
    <3>1. i \in 1..n /\ j \in 1..n
      BY <1>3, <2>2
    <3>2. frames[j].slot \in Prerequisites(graph, frames[i].slot)
      BY <3>1 DEF IInv, WalkInv, StackIsAPath, n
    <3> QED
      BY <1>7, <3>1, <3>2
  <2> QED
    BY <2>1, <2>2
<1>14. Passed(graph, state', frames')
  <2> SUFFICES ASSUME NEW i \in 1..(n + 1),
                      NEW index \in 1..Len(CandidatesIn(graph, frames'[i].slot)),
                      index < frames'[i].next, LeadsIn(graph, frames'[i].slot, index)
               PROVE  \/ state'[CandidatesIn(graph, frames'[i].slot)[index]] = "done"
                      \/ \E j \in 1..(n + 1) :
                           j = i + 1 /\ CandidatesIn(graph, frames'[i].slot)[index] = frames'[j].slot
    BY <1>6 DEF Passed
  <2>1. CASE i = n + 1
    BY <1>6, <2>1
  <2>2. CASE i = n
    <3>1. frames'[i].slot = here /\ frames'[i].next = next + 1 /\ frames[n].slot = here
      BY <1>3, <1>6, <2>2
    <3>2. CASE index = next
      <4>1. CandidatesIn(graph, frames'[i].slot)[index] = frames'[n + 1].slot
        BY <1>2, <1>7, <3>1, <3>2
      <4>2. n + 1 \in 1..(n + 1)
        BY <1>3
      <4> QED
        BY <2>2, <4>1, <4>2
    <3>3. CASE index # next
      <4>1. index < frames[n].next /\ index \in 1..Len(CandidatesIn(graph, frames[n].slot))
            /\ LeadsIn(graph, frames[n].slot, index) /\ n \in 1..n
        BY <1>3, <3>1, <3>3
      <4>2. \/ state[CandidatesIn(graph, frames[n].slot)[index]] = "done"
            \/ \E j \in 1..n : j = n + 1
        BY <4>1 DEF IInv, WalkInv, Passed, n
      <4>3. state[CandidatesIn(graph, here)[index]] = "done"
        BY <1>3, <4>2
      <4>4. CandidatesIn(graph, here)[index] # there
        BY <1>1, <4>3 DEF there
      <4>5. CandidatesIn(graph, here)[index] \in Slots
        BY <1>8, <4>3, <3>1, <1>2, <1>3, CandidatesInSlots DEF IInv, TypeOK
      <4> QED
        BY <1>8, <3>1, <4>3, <4>4, <4>5
    <3> QED
      BY <3>2, <3>3
  <2>3. CASE i \in 1..(n - 1)
    <3>1. frames'[i] = frames[i] /\ i \in 1..n
      BY <1>3, <1>6, <2>3
    <3>2. \/ state[CandidatesIn(graph, frames[i].slot)[index]] = "done"
          \/ \E j \in 1..n : j = i + 1 /\ CandidatesIn(graph, frames[i].slot)[index] = frames[j].slot
      BY <3>1 DEF IInv, WalkInv, Passed, n
    <3>3. CandidatesIn(graph, frames[i].slot)[index] \in Slots
      BY <1>2, <1>9, <3>1, CandidatesInSlots DEF IInv, TypeOK
    <3>4. CASE state[CandidatesIn(graph, frames[i].slot)[index]] = "done"
      BY <1>1, <1>8, <3>1, <3>3, <3>4 DEF there
    <3>5. CASE \E j \in 1..n : j = i + 1 /\ CandidatesIn(graph, frames[i].slot)[index] = frames[j].slot
      <4>1. PICK j \in 1..n : j = i + 1 /\ CandidatesIn(graph, frames[i].slot)[index] = frames[j].slot
        BY <3>5
      <4>2. j \in 1..(n + 1)
        BY <1>3
      <4> QED
        BY <1>7, <3>1, <4>1, <4>2
    <3> QED
      BY <3>2, <3>4, <3>5
  <2> QED
    BY <1>3, <2>1, <2>2, <2>3
<1>15. WithinClosure(graph, goal, state')
  <2>1. here \in Closure(graph, goal)
    <3>1. state[here] = "on_stack"
      BY <1>3 DEF IInv, WalkInv, StackIsMarked, n
    <3> QED
      BY <1>3, <3>1 DEF IInv, WalkInv, WithinClosure
  <2>2. there \in Closure(graph, goal)
    BY <1>2, <2>1, ClosureIsClosed
  <2>3. \A slot \in Slots : state[slot] # "unvisited" => slot \in Closure(graph, goal)
    BY DEF IInv, WalkInv, WithinClosure
  <2> QED
    BY <1>8, <2>2, <2>3 DEF WithinClosure
<1>16. WalkInv'
  BY <1>1, <1>11, <1>12, <1>13, <1>14, <1>15 DEF WalkInv
<1>17. PlanInv'
  <2>1. PlanIsDone(state, plan) /\ PlanIsOrdered(graph, plan)
    BY <1>1 DEF IInv, PlanInv, Turn
  <2>2. \A slot \in Slots : state'[slot] = "done" <=> state[slot] = "done"
    BY <1>1, <1>8 DEF there
  <2>3. PlanIsDone(state', plan)
    BY <2>1, <2>2 DEF PlanIsDone
  <2> QED
    BY <1>1, <2>1, <2>3 DEF PlanInv
<1>18. OutcomeInv'
  <2>1. frames' # <<>>
    BY <1>3, <1>6
  <2>2. outcome = "walking" /\ state[goal] # "unvisited"
    BY <1>1 DEF IInv, OutcomeInv, Turn
  <2>3. state'[goal] # "unvisited"
    BY <1>2, <1>8, <2>2
  <2> QED
    BY <1>1, <1>2, <2>1, <2>2, <2>3 DEF OutcomeInv
<1> QED
  BY <1>10, <1>16, <1>17, <1>18 DEF IInv

LEMMA PassOverPreserves == IInv /\ PassOver => IInv'
<1> SUFFICES ASSUME IInv, PassOver PROVE IInv'
  OBVIOUS
<1> DEFINE n == Len(frames)
           here == Top.slot
           next == Top.next
<1>1. /\ Turn /\ (Leads(here, next) => state[Candidate] = "done") /\ frames' = Advanced
      /\ graph' = graph /\ goal' = goal /\ state' = state /\ plan' = plan /\ outcome' = outcome
  BY DEF PassOver
<1>2. /\ frames # <<>> /\ EveryEdgeDeclared(graph) /\ goal \in Slots
      /\ next \in 1..Len(CandidatesIn(graph, here))
      /\ Candidate = CandidatesIn(graph, here)[next]
  BY <1>1, TurnFacts, SameCandidates DEF Candidate
<1>3. /\ n \in Nat /\ n >= 1 /\ frames[n].slot = here /\ frames[n].next = next
      /\ here \in Slots /\ next \in Nat
  BY <1>2, TopFrame DEF IInv
<1>4. /\ frames' \in Seq(Frame) /\ Len(frames') = n
      /\ frames'[n] = [slot |-> here, next |-> next + 1]
      /\ \A k \in 1..(n - 1) : frames'[k] = frames[k]
  BY <1>1, <1>2, AdvancedFrames DEF IInv
<1>5. \A k \in 1..n : frames'[k].slot = frames[k].slot
  BY <1>3, <1>4
<1>6. TypeOK'
  BY <1>1, <1>4 DEF IInv, TypeOK, Frame
<1> HIDE DEF n, here, next
<1>7. OnceEach(frames') /\ StackIsMarked(state, frames') /\ StackIsAPath(graph, frames')
  <2>1. OnceEach(frames) /\ StackIsMarked(state, frames) /\ StackIsAPath(graph, frames)
    BY DEF IInv, WalkInv
  <2>2. OnceEach(frames')
    BY <1>4, <1>5, <2>1 DEF OnceEach, n
  <2>3. StackIsMarked(state, frames')
    BY <1>4, <1>5, <2>1 DEF StackIsMarked, n
  <2>4. StackIsAPath(graph, frames')
    BY <1>4, <1>5, <2>1 DEF StackIsAPath, n
  <2> QED
    BY <2>2, <2>3, <2>4
<1>8. Passed(graph, state, frames')
  <2> SUFFICES ASSUME NEW i \in 1..n,
                      NEW index \in 1..Len(CandidatesIn(graph, frames'[i].slot)),
                      index < frames'[i].next, LeadsIn(graph, frames'[i].slot, index)
               PROVE  \/ state[CandidatesIn(graph, frames'[i].slot)[index]] = "done"
                      \/ \E j \in 1..n :
                           j = i + 1 /\ CandidatesIn(graph, frames'[i].slot)[index] = frames'[j].slot
    BY <1>4 DEF Passed
  <2>1. frames'[i].slot = frames[i].slot
    BY <1>5
  <2>2. CASE i = n /\ index = next
    <3>1. Leads(here, next)
      BY <1>3, <2>1, <2>2, SameCandidates
    <3> QED
      BY <1>1, <1>2, <1>3, <2>1, <2>2, <3>1
  <2>3. CASE ~(i = n /\ index = next)
    <3>1. index < frames[i].next
      <4>1. CASE i = n
        BY <1>3, <1>4, <2>3, <4>1
      <4>2. CASE i # n
        BY <1>3, <1>4, <4>2
      <4> QED
        BY <4>1, <4>2
    <3>2. \/ state[CandidatesIn(graph, frames[i].slot)[index]] = "done"
          \/ \E j \in 1..n : j = i + 1 /\ CandidatesIn(graph, frames[i].slot)[index] = frames[j].slot
      BY <2>1, <3>1 DEF IInv, WalkInv, Passed, n
    <3> QED
      BY <1>5, <2>1, <3>2
  <2> QED
    BY <2>2, <2>3
<1>9. WalkInv'
  BY <1>1, <1>7, <1>8 DEF IInv, WalkInv
<1>10. PlanInv'
  BY <1>1 DEF IInv, PlanInv
<1>11. OutcomeInv'
  <2>1. frames' # <<>>
    BY <1>3, <1>4
  <2>2. outcome = "walking" /\ state[goal] # "unvisited"
    BY <1>1 DEF IInv, OutcomeInv, Turn
  <2> QED
    BY <1>1, <1>2, <2>1, <2>2 DEF OutcomeInv
<1> QED
  BY <1>6, <1>9, <1>10, <1>11 DEF IInv

\* The tasks of the stack from the candidate up each wait for the next, and the
\* innermost for the candidate.
LEMMA RefuseCyclePreserves == IInv /\ RefuseCycle => IInv'
<1> SUFFICES ASSUME IInv, RefuseCycle PROVE IInv'
  OBVIOUS
<1> DEFINE n == Len(frames)
<1>1. /\ Turn /\ Leads(Top.slot, Top.next) /\ state[Candidate] = "on_stack" /\ Refuse("cycle")
  BY DEF RefuseCycle
<1>2. /\ frames # <<>> /\ EveryEdgeDeclared(graph) /\ goal \in Slots /\ Candidate \in Slots
      /\ Candidate \in Prerequisites(graph, Top.slot)
  BY <1>1, TurnFacts
<1>3. n \in Nat /\ n >= 1 /\ frames[n].slot = Top.slot /\ frames \in Seq(Frame)
  BY <1>2, TopFrame DEF IInv
<1>4. PICK c \in 1..n : frames[c].slot = Candidate
  BY <1>1, <1>2 DEF IInv, WalkInv, StackIsMarked
<1>5. \A k \in 1..n : frames[k].slot \in Closure(graph, goal)
  <2>1. \A k \in 1..n : frames[k] \in Frame
    BY <1>3
  <2>2. \A k \in 1..n : frames[k].slot \in Slots /\ state[frames[k].slot] = "on_stack"
    BY <2>1 DEF Frame, IInv, WalkInv, StackIsMarked
  <2> QED
    BY <2>2 DEF IInv, WalkInv, WithinClosure
<1> HIDE DEF n
<1> DEFINE knot == {frames[k].slot : k \in c..n}
<1>6. \A k \in c..n : k \in 1..n
  BY <1>3, <1>4
<1>7. knot \in SUBSET Closure(graph, goal) /\ knot # {}
  <2>1. c \in c..n
    BY <1>3, <1>4
  <2> QED
    BY <1>5, <1>6, <2>1
<1>8. ASSUME NEW slot \in knot PROVE Prerequisites(graph, slot) \cap knot # {}
  <2>1. PICK k \in c..n : frames[k].slot = slot
    OBVIOUS
  <2>2. CASE k = n
    <3>1. c \in c..n
      BY <1>3, <1>4
    <3>2. Candidate \in knot
      BY <1>4, <3>1
    <3> QED
      BY <1>2, <1>3, <2>1, <2>2, <3>2
  <2>3. CASE k # n
    <3>1. k + 1 \in c..n /\ k \in 1..n /\ k + 1 \in 1..n
      BY <1>3, <1>4, <2>1, <2>3
    <3>2. frames[k + 1].slot \in Prerequisites(graph, frames[k].slot)
      BY <3>1 DEF IInv, WalkInv, StackIsAPath, n
    <3>3. frames[k + 1].slot \in knot
      BY <3>1
    <3> QED
      BY <2>1, <3>2, <3>3
  <2> QED
    BY <2>2, <2>3
<1>9. Cyclic(graph, goal)
  BY <1>7, <1>8 DEF Cyclic
<1>10. OutcomeInv'
  BY <1>1, <1>2, <1>9 DEF Refuse, OutcomeInv
<1> QED
  BY <1>1, <1>10, RefusePreserves DEF Refusals

\* When a task is left, everything it waits for is done.
LEMMA LeaveFacts ==
  ASSUME IInv, outcome = "walking", Exhausted
  PROVE  \A other \in Prerequisites(graph, Top.slot) : other \in Slots /\ state[other] = "done"
<1> SUFFICES ASSUME NEW other \in Prerequisites(graph, Top.slot)
             PROVE  other \in Slots /\ state[other] = "done"
  OBVIOUS
<1>1. frames # <<>> /\ EveryEdgeDeclared(graph) /\ graph \in [Slots -> Node]
  BY DEF IInv, OutcomeInv, TypeOK
<1>2. /\ Len(frames) \in Nat /\ Len(frames) >= 1 /\ frames[Len(frames)] = Top
      /\ Top.slot \in Slots /\ Top.next \in Nat
  BY <1>1, TopFrame DEF IInv
<1>3. PICK i \in 1..Len(Candidates(Top.slot)) :
        Leads(Top.slot, i) /\ Candidates(Top.slot)[i] = other
  BY <1>1, <1>2, CandidatesArePrerequisites
<1>4. /\ i \in 1..Len(CandidatesIn(graph, Top.slot)) /\ LeadsIn(graph, Top.slot, i)
      /\ CandidatesIn(graph, Top.slot)[i] = other
  BY <1>3, SameCandidates
<1>5. i < Top.next
  <2>1. Candidates(Top.slot) \in Seq(Slots)
    BY <1>1, <1>2, CandidatesArePrerequisites
  <2>2. Len(Candidates(Top.slot)) \in Nat
    BY <2>1
  <2> QED
    BY <1>2, <1>3, <2>2 DEF Exhausted
<1>6. Len(frames) \in 1..Len(frames)
  BY <1>2
<1>7. state[other] = "done" \/ \E j \in 1..Len(frames) : j = Len(frames) + 1
  BY <1>2, <1>4, <1>5, <1>6 DEF IInv, WalkInv, Passed
<1> QED
  BY <1>2, <1>7 DEF Prerequisites

LEMMA LeavePreserves == IInv /\ Leave => IInv'
<1> SUFFICES ASSUME IInv, Leave PROVE IInv'
  OBVIOUS
<1> DEFINE n == Len(frames)
           here == Top.slot
           m == Len(plan)
<1>1. /\ outcome = "walking" /\ Exhausted
      /\ state' = [state EXCEPT ![here] = "done"]
      /\ plan' = Append(plan, here)
      /\ frames' = SubSeq(frames, 1, Len(frames) - 1)
      /\ outcome' = IF n = 1 THEN "planned" ELSE "walking"
      /\ graph' = graph /\ goal' = goal
  BY DEF Leave
<1>2. frames # <<>> /\ EveryEdgeDeclared(graph) /\ goal \in Slots /\ state[goal] # "unvisited"
  BY <1>1 DEF IInv, OutcomeInv
<1>3. n \in Nat /\ n >= 1 /\ frames[n].slot = here /\ here \in Slots
  BY <1>2, TopFrame DEF IInv
<1>4. /\ frames' \in Seq(Frame) /\ Len(frames') = n - 1
      /\ \A k \in 1..(n - 1) : frames'[k] = frames[k]
      /\ n = 1 => frames' = <<>>
  BY <1>1, <1>2, FramesBelow DEF IInv
<1>5. /\ plan \in Seq(Slots) /\ m \in Nat /\ plan' \in Seq(Slots) /\ Len(plan') = m + 1
      /\ plan'[m + 1] = here /\ \A i \in 1..m : plan'[i] = plan[i] /\ plan[i] \in Slots
  BY <1>1, <1>3 DEF IInv, TypeOK
<1>6. /\ state \in [Slots -> States] /\ state'[here] = "done"
      /\ \A slot \in Slots : slot # here => state'[slot] = state[slot]
  BY <1>1, <1>3 DEF IInv, TypeOK
<1>7. TypeOK'
  BY <1>1, <1>3, <1>4, <1>5 DEF IInv, TypeOK, States, Outcomes, Frame
<1>8. \A k \in 1..n : frames[k].slot \in Slots
  <2>1. frames \in Seq(Frame)
    BY <1>2, TopFrame DEF IInv
  <2>2. \A k \in 1..n : frames[k] \in Frame
    BY <2>1
  <2> QED
    BY <2>2 DEF Frame
<1> HIDE DEF n, here, m
<1>9. \A k \in 1..(n - 1) : k \in 1..n /\ k # n
  BY <1>3
<1>10. OnceEach(frames) /\ StackIsMarked(state, frames) /\ StackIsAPath(graph, frames)
  BY DEF IInv, WalkInv
<1>11. \A k \in 1..(n - 1) : frames[k].slot # here
  BY <1>3, <1>9, <1>10 DEF OnceEach, n
<1>12. OnceEach(frames')
  BY <1>4, <1>9, <1>10 DEF OnceEach, n
<1>13. StackIsMarked(state', frames')
  <2>1. \A k \in 1..(n - 1) : state'[frames'[k].slot] = "on_stack"
    BY <1>4, <1>6, <1>8, <1>9, <1>10, <1>11 DEF StackIsMarked, n
  <2>2. ASSUME NEW slot \in Slots, state'[slot] = "on_stack"
        PROVE  \E k \in 1..(n - 1) : frames'[k].slot = slot
    <3>1. slot # here /\ state[slot] = "on_stack"
      BY <1>6, <2>2
    <3>2. PICK k \in 1..n : frames[k].slot = slot
      BY <1>10, <3>1 DEF StackIsMarked, n
    <3>3. k \in 1..(n - 1)
      BY <1>3, <3>1, <3>2
    <3> QED
      BY <1>4, <3>2, <3>3
  <2> QED
    BY <1>4, <2>1, <2>2 DEF StackIsMarked
<1>14. StackIsAPath(graph, frames')
  BY <1>4, <1>9, <1>10 DEF StackIsAPath, n
<1>15. Passed(graph, state', frames')
  <2> SUFFICES ASSUME NEW i \in 1..(n - 1),
                      NEW index \in 1..Len(CandidatesIn(graph, frames'[i].slot)),
                      index < frames'[i].next, LeadsIn(graph, frames'[i].slot, index)
               PROVE  \/ state'[CandidatesIn(graph, frames'[i].slot)[index]] = "done"
                      \/ \E j \in 1..(n - 1) :
                           j = i + 1 /\ CandidatesIn(graph, frames'[i].slot)[index] = frames'[j].slot
    BY <1>4 DEF Passed
  <2> DEFINE there == CandidatesIn(graph, frames[i].slot)[index]
  <2>1. frames'[i] = frames[i] /\ i \in 1..n
    BY <1>4, <1>9
  <2>2. there \in Slots
    BY <1>2, <1>8, <2>1, CandidatesInSlots DEF IInv, TypeOK
  <2>3. state[there] = "done" \/ \E j \in 1..n : j = i + 1 /\ there = frames[j].slot
    BY <2>1 DEF IInv, WalkInv, Passed, n
  <2> HIDE DEF there
  <2>4. CASE state[there] = "done"
    <3>1. state'[there] = "done"
      BY <1>6, <2>2, <2>4
    <3> QED
      BY <2>1, <3>1 DEF there
  <2>5. ASSUME NEW j \in 1..n, j = i + 1, there = frames[j].slot
        PROVE  \/ state'[there] = "done"
               \/ \E l \in 1..(n - 1) : l = i + 1 /\ there = frames'[l].slot
    <3>1. CASE j = n
      BY <1>3, <1>6, <2>5, <3>1
    <3>2. CASE j # n
      <4>1. j \in 1..(n - 1)
        BY <1>3, <3>2
      <4> QED
        BY <1>4, <2>5, <4>1
    <3> QED
      BY <3>1, <3>2
  <2> QED
    BY <2>1, <2>3, <2>4, <2>5 DEF there
<1>16. WithinClosure(graph, goal, state')
  <2>1. state[here] = "on_stack"
    BY <1>3, <1>10 DEF StackIsMarked, n
  <2> QED
    BY <1>3, <1>6, <2>1 DEF IInv, WalkInv, WithinClosure
<1>17. WalkInv'
  BY <1>1, <1>12, <1>13, <1>14, <1>15, <1>16 DEF WalkInv
<1>18. PlanInv'
  <2>1. PlanIsDone(state, plan) /\ PlanIsOrdered(graph, plan)
    BY <1>1 DEF IInv, PlanInv
  <2>2. state[here] # "done"
    BY <1>3, <1>10 DEF StackIsMarked, n
  <2>3. \A i \in 1..m : plan[i] # here
    BY <1>3, <2>1, <2>2 DEF PlanIsDone, m
  <2>4. \A i \in 1..(m + 1) : i \in 1..m \/ i = m + 1
    BY <1>5
  <2>5. \A i \in 1..m : i \in 1..(m + 1)
    BY <1>5
  <2>6. PlanIsDone(state', plan')
    <3>1. ASSUME NEW slot \in Slots
          PROVE  state'[slot] = "done" <=> \E i \in 1..(m + 1) : plan'[i] = slot
      <4>1. CASE slot = here
        <5>1. m + 1 \in 1..(m + 1)
          BY <1>5
        <5> QED
          BY <1>5, <1>6, <4>1, <5>1
      <4>2. CASE slot # here
        <5>1. state'[slot] = "done" <=> \E i \in 1..m : plan[i] = slot
          BY <1>6, <2>1, <4>2 DEF PlanIsDone, m
        <5> QED
          BY <1>5, <2>4, <2>5, <4>2, <5>1
      <4> QED
        BY <4>1, <4>2
    <3>2. ASSUME NEW i \in 1..(m + 1), NEW j \in 1..(m + 1), plan'[i] = plan'[j]
          PROVE  i = j
      BY <1>5, <2>1, <2>3, <2>4, <3>2 DEF PlanIsDone, m
    <3> QED
      BY <1>5, <3>1, <3>2 DEF PlanIsDone
  <2>7. PlanIsOrdered(graph, plan')
    <3> SUFFICES ASSUME NEW i \in 1..(m + 1), NEW other \in Prerequisites(graph, plan'[i])
                 PROVE  \E earlier \in 1..(i - 1) : plan'[earlier] = other
      BY <1>5 DEF PlanIsOrdered, Before
    <3>1. CASE i = m + 1
      <4>1. other \in Slots /\ state[other] = "done"
        BY <1>1, <1>5, <3>1, LeaveFacts DEF here
      <4>2. PICK earlier \in 1..m : plan[earlier] = other
        BY <2>1, <4>1 DEF PlanIsDone, m
      <4>3. earlier \in 1..(i - 1)
        BY <1>5, <3>1
      <4> QED
        BY <1>5, <4>2, <4>3
    <3>2. CASE i # m + 1
      <4>1. i \in 1..m
        BY <2>4, <3>2
      <4>2. other \in Before(plan, i)
        BY <1>5, <2>1, <4>1 DEF PlanIsOrdered, m
      <4>3. PICK earlier \in 1..(i - 1) : plan[earlier] = other
        BY <4>2 DEF Before
      <4>4. earlier \in 1..m
        BY <1>5, <4>1
      <4> QED
        BY <1>5, <4>3, <4>4
    <3> QED
      BY <3>1, <3>2
  <2> QED
    BY <1>1, <2>6, <2>7 DEF PlanInv
<1>19. OutcomeInv'
  <2>1. state'[goal] # "unvisited"
    BY <1>2, <1>6
  <2>2. CASE n = 1
    <3>1. frames' = <<>> /\ outcome' = "planned" /\ Len(frames') = 0
      BY <1>1, <1>4, <2>2
    <3>2. state'[goal] # "on_stack"
      BY <1>2, <1>13, <3>1 DEF StackIsMarked
    <3>3. state'[goal] = "done"
      BY <1>2, <1>7, <2>1, <3>2 DEF TypeOK, States
    <3> QED
      BY <1>1, <1>2, <3>1, <3>3 DEF OutcomeInv
  <2>3. CASE n # 1
    <3>1. frames' # <<>> /\ outcome' = "walking"
      BY <1>1, <1>3, <1>4, <2>3
    <3> QED
      BY <1>1, <1>2, <2>1, <3>1 DEF OutcomeInv
  <2> QED
    BY <2>2, <2>3
<1> QED
  BY <1>7, <1>17, <1>18, <1>19 DEF IInv

LEMMA NextPreservesIInv == IInv /\ [Next]_vars => IInv'
<1>1. ASSUME IInv, UNCHANGED vars PROVE IInv'
  BY <1>1 DEF IInv, TypeOK, WalkInv, PlanInv, OutcomeInv, vars
<1>2. ASSUME IInv, Finished PROVE IInv'
  BY <1>1, <1>2 DEF Finished
<1> QED
  BY <1>1, <1>2, CheckingPreserves, BeginWalkPreserves, DescendPreserves, PassOverPreserves,
     RefuseCyclePreserves, LeavePreserves DEF Next

LEMMA SpecIInv == Spec => []IInv
<1> QED
  BY InitIInv, NextPreservesIInv, PTL DEF Spec

-----------------------------------------------------------------------------
(* What follows.                                                           *)

\* A nonempty set of naturals has a least member.
LEMMA LeastMember ==
  ASSUME NEW S \in SUBSET Nat, S # {}
  PROVE  \E least \in S : \A i \in S : least <= i
<1>1. PICK least \in S : \A i \in S : ~(<<i, least>> \in OpToRel(<, Nat))
  BY NatLessThanWellFounded, WFMin
<1>2. ASSUME NEW i \in S PROVE least <= i
  <2>1. ~(i < least)
    BY <1>1 DEF OpToRel
  <2> QED
    BY <2>1
<1> QED
  BY <1>2

\* Tasks that can be put in order have no knot: its first could not wait for
\* another of it.
LEMMA OrderedIsAcyclic ==
  ASSUME PlanIsDone(state, plan), PlanIsOrdered(graph, plan), plan \in Seq(Slots),
         \A slot \in Closure(graph, goal) : state[slot] = "done"
  PROVE  ~Cyclic(graph, goal)
<1> SUFFICES ASSUME NEW knot \in SUBSET Closure(graph, goal), knot # {},
                    \A slot \in knot : Prerequisites(graph, slot) \cap knot # {}
             PROVE  FALSE
  BY DEF Cyclic
<1> DEFINE places == {i \in 1..Len(plan) : plan[i] \in knot}
<1>1. \A slot \in knot : \E i \in 1..Len(plan) : plan[i] = slot
  BY ClosureIsClosed DEF PlanIsDone
<1>2. places \in SUBSET Nat /\ places # {}
  BY <1>1
<1>3. PICK first \in places : \A i \in places : first <= i
  BY <1>2, LeastMember
<1>4. PICK other \in knot : other \in Prerequisites(graph, plan[first])
  BY <1>3
<1>5. PICK earlier \in 1..(first - 1) : plan[earlier] = other
  BY <1>3, <1>4 DEF PlanIsOrdered, Before
<1>6. Len(plan) \in Nat
  OBVIOUS
<1>7. earlier \in 1..Len(plan) /\ earlier < first
  BY <1>3, <1>5, <1>6
<1>8. earlier \in places
  BY <1>4, <1>5, <1>7
<1> QED
  BY <1>2, <1>3, <1>7, <1>8

\* At the end what is done is the closure.
LEMMA DoneIsClosure ==
  ASSUME IInv, outcome = "planned"
  PROVE  \A slot \in Slots : state[slot] = "done" <=> slot \in Closure(graph, goal)
<1>1. /\ PlanIsDone(state, plan) /\ PlanIsOrdered(graph, plan) /\ plan \in Seq(Slots)
      /\ goal \in Slots /\ state[goal] = "done" /\ frames = <<>>
  BY DEF IInv, PlanInv, OutcomeInv, TypeOK
<1>2. ASSUME NEW slot \in Slots, state[slot] = "done"
      PROVE  slot \in Closure(graph, goal)
  BY <1>2 DEF IInv, WalkInv, WithinClosure
<1>3. ASSUME NEW slot \in Closure(graph, goal)
      PROVE  state[slot] = "done"
  <2> DEFINE done == {other \in Slots : state[other] = "done"}
  <2>1. goal \in done
    BY <1>1
  <2>2. ASSUME NEW one \in done, NEW other \in Prerequisites(graph, one)
        PROVE  other \in done
    <3>1. PICK i \in 1..Len(plan) : plan[i] = one
      BY <1>1 DEF PlanIsDone
    <3>2. PICK earlier \in 1..(i - 1) : plan[earlier] = other
      BY <1>1, <3>1 DEF PlanIsOrdered, Before
    <3>3. earlier \in 1..Len(plan)
      <4>1. Len(plan) \in Nat
        BY <1>1
      <4> QED
        BY <4>1
    <3>4. other \in Slots
      BY DEF Prerequisites
    <3> QED
      BY <1>1, <3>2, <3>3, <3>4 DEF PlanIsDone
  <2>3. Closed(graph, done)
    BY <2>2 DEF Closed
  <2> HIDE DEF done
  <2>4. done \in SUBSET Slots
    BY DEF done
  <2>5. slot \in done
    BY <2>1, <2>3, <2>4 DEF Closure
  <2> QED
    BY <2>5 DEF done
<1> QED
  BY <1>2, <1>3

\* The walk of fr_tasks_plan keeps its types: every slot it goes through is one
\* of the collected set.
THEOREM PlanTypeCorrect == Spec => []TypeOK
<1>1. IInv => TypeOK
  BY DEF IInv
<1> QED
  BY <1>1, SpecIInv, PTL

\* What fr_tasks_plan returns is, for any number of tasks and any edges, the
\* goal's closure, each task once, every prerequisite ahead of what waits for it.
THEOREM PlanPlannedIsAPlan == Spec => []PlannedIsAPlan
<1>1. IInv => PlannedIsAPlan
  <2> SUFFICES ASSUME IInv, outcome = "planned" PROVE IsPlan(graph, goal, plan)
    BY DEF PlannedIsAPlan
  <2>1. PlanIsDone(state, plan) /\ PlanIsOrdered(graph, plan) /\ plan \in Seq(Slots)
    BY DEF IInv, PlanInv, TypeOK
  <2>2. DOMAIN plan = 1..Len(plan) /\ \A i \in 1..Len(plan) : plan[i] \in Slots
    BY <2>1
  <2>3. Listed(plan) = Closure(graph, goal)
    <3>1. \A slot \in Slots : slot \in Listed(plan) <=> state[slot] = "done"
      BY <2>1, <2>2 DEF PlanIsDone, Listed
    <3>2. Listed(plan) \subseteq Slots /\ Closure(graph, goal) \subseteq Slots
      BY <2>2, ClosureIsClosed DEF Listed
    <3> QED
      BY <3>1, <3>2, DoneIsClosure
  <2> QED
    BY <2>1, <2>2, <2>3 DEF IsPlan, Orders, PlanIsDone, PlanIsOrdered
<1> QED
  BY <1>1, SpecIInv, PTL

\* Each refusal of fr_tasks_plan is deserved, the reported cycle is one, and a
\* goal that cannot be planned is never given a plan.
THEOREM PlanRefusalsAreExact == Spec => []RefusalsAreExact
<1>1. IInv => RefusalsAreExact
  <2> SUFFICES ASSUME IInv PROVE RefusalsAreExact
    OBVIOUS
  <2>1. ASSUME outcome = "planned" PROVE Plannable(graph, goal)
    <3>1. PlanIsDone(state, plan) /\ PlanIsOrdered(graph, plan) /\ plan \in Seq(Slots)
          /\ EveryEdgeDeclared(graph) /\ goal \in Slots
      BY <2>1 DEF IInv, PlanInv, OutcomeInv, TypeOK
    <3>2. \A slot \in Closure(graph, goal) : state[slot] = "done"
      BY <2>1, DoneIsClosure, ClosureIsClosed
    <3> QED
      BY <3>1, <3>2, OrderedIsAcyclic DEF Plannable
  <2> QED
    BY <2>1 DEF IInv, OutcomeInv, RefusalsAreExact
<1> QED
  BY <1>1, SpecIInv, PTL

\* The stack the walk writes without looking at its size is never longer than
\* the set, which is how long it was allocated.
THEOREM PlanStackFits == Spec => []StackFits
<1>1. IInv => StackFits
  <2> SUFFICES ASSUME IInv PROVE Len(frames) <= NodeCount
    BY DEF StackFits
  <2> DEFINE slotOf == [k \in 1..Len(frames) |-> frames[k].slot]
  <2>1. frames \in Seq(Frame) /\ Len(frames) \in Nat
    BY DEF IInv, TypeOK, Frame
  <2>2. slotOf \in [1..Len(frames) -> Slots]
    <3>1. \A k \in 1..Len(frames) : frames[k] \in Frame
      BY <2>1
    <3> QED
      BY <3>1 DEF Frame
  <2>3. \A j, k \in 1..Len(frames) : slotOf[j] = slotOf[k] => j = k
    BY DEF IInv, WalkInv, OnceEach
  <2>4. /\ IsFiniteSet(1..Len(frames)) /\ Cardinality(1..Len(frames)) = Len(frames)
        /\ IsFiniteSet(Slots) /\ Cardinality(Slots) = NodeCount
    <3>1. \A count \in Nat : IsFiniteSet(1..count) /\ Cardinality(1..count) = count
      <4> SUFFICES ASSUME NEW count \in Nat
                   PROVE  IsFiniteSet(1..count) /\ Cardinality(1..count) = count
        OBVIOUS
      <4>1. /\ IsFiniteSet(1..count)
            /\ Cardinality(1..count) = IF 1 > count THEN 0 ELSE count - 1 + 1
        BY FS_Interval
      <4> QED
        BY <4>1
    <3> QED
      BY <2>1, <3>1, NodeCountAssumption DEF Slots
  <2> HIDE DEF slotOf
  <2> QED
    BY <2>1, <2>2, <2>3, <2>4, FS_PigeonHole, NodeCountAssumption
<1> QED
  BY <1>1, SpecIInv, PTL
=============================================================================
