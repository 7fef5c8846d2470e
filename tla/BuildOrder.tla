----------------------------- MODULE BuildOrder -----------------------------
(***************************************************************************)
(* What `daukle <task>` and `daukle publish` promise, whatever order the   *)
(* tasks run in and however they run each other: nothing is built unless   *)
(* every goal can be planned; a task is built only when all it waits for   *)
(* is; a goal is delivered only when its whole closure is built; goals are *)
(* delivered in order, each from a clean slate.                            *)
(***************************************************************************)
EXTENDS TaskGraph

CONSTANTS Graphs,                   \* as in TaskRun
          Requests                  \* sequences of goals

VARIABLES graph, goals,
          built,                    \* tasks that succeeded for the current goal
          delivered,                \* how many goals are done
          verdict
orderVars == <<graph, goals, built, delivered, verdict>>

Verdicts == {"considering", "building", "succeeded", "failed"}

Init ==
  /\ graph \in Graphs
  /\ goals \in Requests
  /\ built = {}
  /\ delivered = 0
  /\ verdict = "considering"

Accept ==
  /\ verdict = "considering"
  /\ \A n \in DOMAIN goals : Plannable(graph, goals[n])
  /\ verdict' = "building"
  /\ UNCHANGED <<graph, goals, built, delivered>>

Build(slot) ==
  /\ verdict = "building" /\ delivered < Len(goals)
  /\ slot \notin built
  /\ Prerequisites(graph, slot) \subseteq built
  /\ built' = built \cup {slot}
  /\ UNCHANGED <<graph, goals, delivered, verdict>>

Deliver ==
  /\ verdict = "building" /\ delivered < Len(goals)
  /\ Closure(graph, goals[delivered + 1]) \subseteq built
  /\ built' = {}
  /\ delivered' = delivered + 1
  /\ verdict' = IF delivered' = Len(goals) THEN "succeeded" ELSE "building"
  /\ UNCHANGED <<graph, goals>>

Fail ==
  /\ verdict \in {"considering", "building"}
  /\ verdict' = "failed"
  /\ UNCHANGED <<graph, goals, built, delivered>>

Next == Accept \/ (\E slot \in Slots : Build(slot)) \/ Deliver \/ Fail

Spec == Init /\ [][Next]_orderVars
=============================================================================
