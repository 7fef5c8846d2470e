----------------------------- MODULE TaskGraph -----------------------------
(***************************************************************************)
(* The task graph of src/project/tasks_plan.c, and what a plan for a goal  *)
(* is. A collected task set is an array; a task is its slot in the array,  *)
(* and an edge names a slot or, when nothing declares the name, Nowhere.   *)
(*                                                                         *)
(* Everything here is a pure operator, and none is RECURSIVE: closures and *)
(* cycles are defined by quantifying over sets of slots, so that theorems  *)
(* can be stated about them.                                               *)
(***************************************************************************)
EXTENDS Naturals, Sequences

CONSTANT NodeCount                  \* the tasks fr_tasks_collect gathered
ASSUME NodeCountAssumption == NodeCount \in Nat

Slots   == 1..NodeCount
Nowhere == 0                        \* a name fr_tasks_find does not find
Names   == Slots \cup {Nowhere}

\* Two lists of edges (the plugin's, and the ones a manifest block added), the
\* at most two tasks this one is part of, and what running it does: a plugin
\* callback, a program, or nothing.
Kinds == {"plugin", "program", "nothing"}
Node  == [dependsOn : Seq(Names), extraDependsOn : Seq(Names),
          partOf : SUBSET Names, kind : Kinds]

Listed(s) == {s[i] : i \in DOMAIN s}

Joiners(graph, slot) == {other \in Slots : slot \in graph[other].partOf}

Prerequisites(graph, slot) ==
  (Listed(graph[slot].dependsOn) \cup Listed(graph[slot].extraDependsOn)
     \cup Joiners(graph, slot)) \cap Slots

EveryEdgeDeclared(graph) ==
  \A slot \in Slots :
    /\ graph[slot].partOf \subseteq Slots
    /\ Listed(graph[slot].dependsOn) \subseteq Slots
    /\ Listed(graph[slot].extraDependsOn) \subseteq Slots

-----------------------------------------------------------------------------
(* What a plan is.                                                         *)

Closed(graph, slots) == \A slot \in slots : Prerequisites(graph, slot) \subseteq slots

\* goal and everything it waits for, directly or through others.
Closure(graph, goal) ==
  {slot \in Slots : \A closed \in SUBSET Slots :
                      goal \in closed /\ Closed(graph, closed) => slot \in closed}

\* A set of tasks each of which waits for one of the set can never start.
Cyclic(graph, goal) ==
  \E knot \in SUBSET Closure(graph, goal) :
    /\ knot # {}
    /\ \A slot \in knot : Prerequisites(graph, slot) \cap knot # {}

Plannable(graph, goal) ==
  EveryEdgeDeclared(graph) /\ goal \in Slots /\ ~Cyclic(graph, goal)

Before(plan, index) == {plan[earlier] : earlier \in 1..(index - 1)}

\* plan runs the tasks of closure, each once, prerequisites first.
Orders(graph, closure, plan) ==
  /\ Listed(plan) = closure
  /\ \A i, j \in DOMAIN plan : plan[i] = plan[j] => i = j
  /\ \A i \in DOMAIN plan : Prerequisites(graph, plan[i]) \subseteq Before(plan, i)

IsPlan(graph, goal, plan) == Orders(graph, Closure(graph, goal), plan)

Plans(graph, goal) ==
  LET closure == Closure(graph, goal)
  IN  {plan \in UNION {[1..length -> closure] : length \in 0..NodeCount} :
         Orders(graph, closure, plan)}
=============================================================================
