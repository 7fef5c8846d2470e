------------------------------ MODULE TaskPlan ------------------------------
(***************************************************************************)
(* fr_tasks_plan (src/project/tasks_plan.c): the depth-first walk that     *)
(* turns a goal into a plan. The C recursion is an explicit stack of       *)
(* frames; a frame remembers how far its task's loops have come.           *)
(***************************************************************************)
EXTENDS TaskGraph

CONSTANTS Graphs                    \* the collected sets considered
ASSUME GraphsAssumption == Graphs \subseteq [Slots -> Node]

VARIABLES graph, goal,              \* the inputs, fixed by Init
          state,                    \* walk.state: per slot, where the walk is
          frames,                   \* the calls of visit, and walk.stack
          plan,                     \* walk.plan
          outcome                   \* what the call returned, or how far it is
vars == <<graph, goal, state, frames, plan, outcome>>

States   == {"unvisited", "on_stack", "done"}
Outcomes == {"checking", "walking", "planned",
             "edge_undeclared", "goal_undeclared", "cycle"}
Refusals == {"edge_undeclared", "goal_undeclared", "cycle"}

Edges(slot) == graph[slot].dependsOn \o graph[slot].extraDependsOn

\* Mutant of Candidates: the reverse edges are never joined.
CandidatesUnjoined(slot) == Edges(slot)

\* What visit goes through: the task's edges, then, in visit_joiners, the whole
\* set in declaration order, for the tasks that are part of this one.
Candidates(slot) == Edges(slot) \o [other \in Slots |-> other]

Leads(slot, index) ==
  index <= Len(Edges(slot)) \/ slot \in graph[Candidates(slot)[index]].partOf

Top       == frames[Len(frames)]
Exhausted == Top.next > Len(Candidates(Top.slot))
Candidate == Candidates(Top.slot)[Top.next]
Turn      == outcome = "walking" /\ ~Exhausted

\* The loop index moves on before the call is made.
Advanced ==
  [frames EXCEPT ![Len(frames)] = [slot |-> Top.slot, next |-> Top.next + 1]]

Enter(slot, stack) ==
  /\ state'  = [state EXCEPT ![slot] = "on_stack"]
  /\ frames' = Append(stack, [slot |-> slot, next |-> 1])

Refuse(reason) ==
  /\ outcome' = reason
  /\ plan'    = <<>>                \* fr_tasks_plan_free
  /\ UNCHANGED <<graph, goal, state, frames>>

Init ==
  /\ graph \in Graphs
  /\ goal \in Names
  /\ state = [slot \in Slots |-> "unvisited"]
  /\ frames = <<>>
  /\ plan = <<>>
  /\ outcome = "checking"

RefuseDanglingEdge ==
  outcome = "checking" /\ ~EveryEdgeDeclared(graph) /\ Refuse("edge_undeclared")

RefuseUnknownGoal ==
  /\ outcome = "checking" /\ EveryEdgeDeclared(graph)
  /\ goal \notin Slots
  /\ Refuse("goal_undeclared")

BeginWalk ==
  /\ outcome = "checking" /\ EveryEdgeDeclared(graph)
  /\ goal \in Slots
  /\ Enter(goal, frames)
  /\ outcome' = "walking"
  /\ UNCHANGED <<graph, goal, plan>>

\* Mutant of Descend: a task on the stack is visited again.
DescendAgain ==
  /\ Turn /\ Leads(Top.slot, Top.next)
  /\ state[Candidate] # "done"
  /\ Enter(Candidate, Advanced)
  /\ UNCHANGED <<graph, goal, plan, outcome>>

Descend ==
  /\ Turn /\ Leads(Top.slot, Top.next)
  /\ state[Candidate] = "unvisited"
  /\ Enter(Candidate, Advanced)
  /\ UNCHANGED <<graph, goal, plan, outcome>>

\* Mutant of PassOver: the loop index is not moved on.
PassOverInPlace == Turn /\ UNCHANGED vars

\* A task already done, or one that is no part of this one.
PassOver ==
  /\ Turn
  /\ Leads(Top.slot, Top.next) => state[Candidate] = "done"
  /\ frames' = Advanced
  /\ UNCHANGED <<graph, goal, state, plan, outcome>>

\* Mutant of RefuseCycle: any visited task, not only one on the stack.
RefuseDiamond ==
  /\ Turn /\ Leads(Top.slot, Top.next)
  /\ state[Candidate] # "unvisited"
  /\ Refuse("cycle")

RefuseCycle ==
  /\ Turn /\ Leads(Top.slot, Top.next)
  /\ state[Candidate] = "on_stack"
  /\ Refuse("cycle")

Leave ==
  /\ outcome = "walking" /\ Exhausted
  /\ state' = [state EXCEPT ![Top.slot] = "done"]
  /\ plan' = Append(plan, Top.slot)
  /\ frames' = SubSeq(frames, 1, Len(frames) - 1)
  /\ outcome' = IF Len(frames) = 1 THEN "planned" ELSE "walking"
  /\ UNCHANGED <<graph, goal>>

Finished == outcome \in Refusals \cup {"planned"} /\ UNCHANGED vars

Next == \/ RefuseDanglingEdge \/ RefuseUnknownGoal \/ BeginWalk
        \/ Descend \/ PassOver \/ RefuseCycle \/ Leave
        \/ Finished

Spec     == Init /\ [][Next]_vars
FairSpec == Spec /\ WF_vars(Next)   \* the walk is one call: it keeps stepping

-----------------------------------------------------------------------------
TypeOK ==
  /\ graph \in [Slots -> Node]
  /\ goal \in Names
  /\ state \in [Slots -> States]
  /\ frames \in Seq([slot : Slots, next : Nat \ {0}])
  /\ plan \in Seq(Slots)
  /\ outcome \in Outcomes

\* What the walk returns is a plan: exactly the goal's closure, no task twice,
\* every prerequisite ahead of what waits for it (tasks.h: "orders it so that
\* every edge runs before the task it points at").
PlannedIsAPlan == outcome = "planned" => IsPlan(graph, goal, plan)

\* The three refusals say what is wrong with the graph, and nothing else is
\* refused: in particular a cycle outside the goal's closure is not, and a
\* dangling edge outside it is.
RefusalsAreExact ==
  /\ outcome = "edge_undeclared" => ~EveryEdgeDeclared(graph)
  /\ outcome = "goal_undeclared" => EveryEdgeDeclared(graph) /\ goal \notin Slots
  /\ outcome = "cycle" => EveryEdgeDeclared(graph) /\ Cyclic(graph, goal)
  /\ outcome = "planned" => Plannable(graph, goal)

\* walk.stack is allocated with one entry per task of the set and written
\* without a bound check, so the walk must never be deeper than the set is long.
StackFits == Len(frames) <= NodeCount

\* The recursion ends on every graph, the cyclic ones included.
WalkEnds == <>(outcome \in Refusals \cup {"planned"})
=============================================================================
