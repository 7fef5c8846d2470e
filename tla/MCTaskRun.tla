----------------------------- MODULE MCTaskRun ------------------------------
(* Every graph of three tasks with at most one edge a task, cyclic ones     *)
(* included, under every request of one or two goals.                       *)
EXTENDS TaskRun

Task(depends, part, what) ==
  [dependsOn |-> depends, extraDependsOn |-> <<>>, partOf |-> part, kind |-> what]

MCEdges ==
  {<<<<>>, {}>>} \cup {<<<<slot>>, {}>> : slot \in Slots}
                 \cup {<<<<>>, {slot}>> : slot \in Slots}

\* Only the last task's kind varies: the graphs are closed under renaming.
MCKind(slot) == IF slot = NodeCount THEN {"nothing", "program", "plugin"} ELSE {"plugin"}

MCGraphs ==
  {[slot \in Slots |-> Task(edges[slot][1], edges[slot][2],
                            IF slot = NodeCount THEN what ELSE "plugin")] :
     edges \in [Slots -> MCEdges], what \in MCKind(NodeCount)}

MCRequests == {<<goal>> : goal \in Names} \cup {<<1, 2>>, <<2, 3>>, <<1, 0>>}
=============================================================================
