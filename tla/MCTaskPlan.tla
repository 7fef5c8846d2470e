----------------------------- MODULE MCTaskPlan -----------------------------
(* Every graph of three tasks with at most one edge of each kind a task.   *)
EXTENDS TaskPlan

Lone(depends, extra, part) ==
  [dependsOn |-> depends, extraDependsOn |-> extra, partOf |-> part, kind |-> "nothing"]

\* A dangling name is tried in each kind of edge; two edges of one task are
\* tried in every pair of kinds, over declared names.
MCNodes ==
  {Lone(<<>>, <<>>, {})}
    \cup {Lone(<<name>>, <<>>, {}) : name \in Names}
    \cup {Lone(<<>>, <<>>, {name}) : name \in Names}
    \cup {Lone(<<edge[1]>>, <<edge[2]>>, {}) : edge \in {p \in Slots \X Names : p[1] # p[2]}}
    \cup {Lone(<<edge[1]>>, <<>>, {edge[2]}) : edge \in Slots \X Slots}

MCGraphs == [Slots -> MCNodes]
=============================================================================
