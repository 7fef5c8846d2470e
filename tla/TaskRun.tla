------------------------------ MODULE TaskRun ------------------------------
(***************************************************************************)
(* One invocation of `daukle <task>` or `daukle publish`: every goal is    *)
(* planned, the project is synced, and the goals run in order, where a     *)
(* running plugin task may run further tasks through daukle.run_task       *)
(* (src/project/tasks_run.c, src/cli/cli_tasks.c,                          *)
(* src/lua/lua_verbs_run_task.c).                                          *)
(*                                                                         *)
(* fr_tasks_plan is used through what TaskPlan checks of it: it refuses    *)
(* exactly the goals that are not Plannable, and returns one of Plans.     *)
(* run_plan and the callbacks that re-enter it are a stack of frames.      *)
(***************************************************************************)
EXTENDS TaskGraph

CONSTANTS Graphs,                   \* the collected sets considered
          Requests,                 \* <<goal>> for a task, one goal per selected
                                    \* destination for a publish
          MaxCalls                  \* bound: run_task calls an invocation makes
ASSUME RunAssumption ==
  /\ Graphs \subseteq [Slots -> Node]
  /\ Requests \subseteq Seq(Names)
  /\ \A request \in Requests : Len(request) > 0
  /\ MaxCalls \in Nat

VARIABLES graph, goals,             \* the inputs, fixed by Init
          phase,                    \* how far the command is
          at,                       \* the goal being planned, then being run
          progress,                 \* task_run.progress, one record a goal
          stack,                    \* calls of run_plan, the outermost first
          calls,                    \* run_task calls so far
          wrote,                    \* whether fr_sync_session has been called
          done,                     \* history: tasks whose run_node returned
                                    \* FR_OK since the goal was started
          starts                    \* history: how often each task was started
vars == <<graph, goals, phase, at, progress, stack, calls, wrote, done, starts>>
inputs == <<graph, goals>>

Progress == {"not_started", "running", "completed"}
Phases   == {"planning", "syncing", "running", "succeeded", "failed"}

\* One call of run_plan: the plan, its loop index, and whether run_node is
\* being called for the task the index is at.
Frame == [plan : Seq(Slots), index : Nat \ {0}, busy : BOOLEAN]

Fresh == [slot \in Slots |-> "not_started"]

Depth       == Len(stack)
Top         == stack[Depth]
Below       == SubSeq(stack, 1, Depth - 1)
Current(frame) == frame.plan[frame.index]
\* Mutant of AtEnd: the loop stops one task short.
AtLast(frame)  == frame.index >= Len(frame.plan)
AtEnd(frame)   == frame.index > Len(frame.plan)
WithTop(frame) == [stack EXCEPT ![Depth] = frame]
Called(plan)   == [plan |-> plan, index |-> 1, busy |-> FALSE]
Entered(frame) == [plan |-> frame.plan, index |-> frame.index, busy |-> TRUE]
Moved(frame)   == [plan |-> frame.plan, index |-> frame.index + 1, busy |-> FALSE]
Stepping       == phase = "running" /\ stack # <<>>
Looping        == Stepping /\ ~Top.busy /\ ~AtEnd(Top)

Init ==
  /\ graph \in Graphs
  /\ goals \in Requests
  /\ phase = "planning"
  /\ at = 1
  /\ progress = Fresh
  /\ stack = <<>>
  /\ calls = 0
  /\ wrote = FALSE
  /\ done = {}
  /\ starts = [slot \in Slots |-> 0]

-----------------------------------------------------------------------------
(* The command: plan everything, sync, run each goal.                      *)

\* Mutant of PlanGoal: the destinations after the first are left for later.
PlanFirstGoalOnly ==
  /\ phase = "planning"
  /\ IF at = 1 => Plannable(graph, goals[at])
     THEN IF at = Len(goals) THEN phase' = "syncing" /\ at' = 1
                             ELSE at' = at + 1 /\ UNCHANGED phase
     ELSE phase' = "failed" /\ UNCHANGED at
  /\ UNCHANGED <<inputs, progress, stack, calls, wrote, done, starts>>

\* fr_tasks_check_publish, or the one fr_tasks_plan of fr_cli_run_task.
PlanGoal ==
  /\ phase = "planning"
  /\ IF Plannable(graph, goals[at])
     THEN IF at = Len(goals) THEN phase' = "syncing" /\ at' = 1
                             ELSE at' = at + 1 /\ UNCHANGED phase
     ELSE phase' = "failed" /\ UNCHANGED at
  /\ UNCHANGED <<inputs, progress, stack, calls, wrote, done, starts>>

\* fr_sync_session with write set; its failure ends the command.
Sync ==
  /\ phase = "syncing"
  /\ wrote' = TRUE
  /\ phase' \in {"running", "failed"}
  /\ UNCHANGED <<inputs, at, progress, stack, calls, done, starts>>

\* fr_tasks_run: a fresh record, and run_plan on a plan for the goal.
StartGoal ==
  /\ phase = "running" /\ stack = <<>>
  /\ progress' = Fresh
  /\ done' = {}
  /\ \E plan \in Plans(graph, goals[at]) :
       stack' = <<Called(plan)>>
  /\ UNCHANGED <<inputs, phase, at, calls, wrote, starts>>

-----------------------------------------------------------------------------
(* run_plan, on the innermost frame.                                       *)

SkipCompleted ==
  /\ Looping
  /\ progress[Current(Top)] = "completed"
  /\ stack' = WithTop(Moved(Top))
  /\ UNCHANGED <<inputs, phase, at, progress, calls, wrote, done, starts>>

StartTask ==
  /\ Looping
  /\ progress[Current(Top)] = "not_started"
  /\ progress' = [progress EXCEPT ![Current(Top)] = "running"]
  /\ stack' = WithTop(Entered(Top))
  /\ starts' = [starts EXCEPT ![Current(Top)] = @ + 1]
  /\ UNCHANGED <<inputs, phase, at, calls, wrote, done>>

\* run_plan returned FR_ERR: the command ends, or the callback below gets
\* FALSE from daukle.run_task and carries on.
ReturnFailure ==
  /\ stack' = Below
  /\ phase' = IF Depth = 1 THEN "failed" ELSE phase

\* Mutant of RefuseRunning: the nested plan waits for the task to finish.
AwaitRunning ==
  /\ Looping
  /\ progress[Current(Top)] = "running"
  /\ UNCHANGED vars

RefuseRunning ==
  /\ Looping
  /\ progress[Current(Top)] = "running"
  /\ ReturnFailure
  /\ UNCHANGED <<inputs, at, progress, calls, wrote, done, starts>>

\* run_node returned FR_OK.
FinishTask ==
  /\ Stepping /\ Top.busy
  /\ progress' = [progress EXCEPT ![Current(Top)] = "completed"]
  /\ done' = done \cup {Current(Top)}
  /\ stack' = WithTop(Moved(Top))
  /\ UNCHANGED <<inputs, phase, at, calls, wrote, starts>>

\* Mutant of FailTask: a failed task is recorded as though it had completed.
FailAsCompleted ==
  /\ Stepping /\ Top.busy
  /\ graph[Current(Top)].kind # "nothing"
  /\ ReturnFailure
  /\ progress' = [progress EXCEPT ![Current(Top)] = "completed"]
  /\ UNCHANGED <<inputs, at, calls, wrote, done, starts>>

\* Mutant of FailTask: the failed task's record stays "running".
FailUnrecorded ==
  /\ Stepping /\ Top.busy
  /\ graph[Current(Top)].kind # "nothing"
  /\ ReturnFailure
  /\ UNCHANGED <<inputs, at, progress, calls, wrote, done, starts>>

\* run_node failed: preparing the derived directory, resolving, the callback
\* itself or the program. A task that runs nothing cannot fail.
FailTask ==
  /\ Stepping /\ Top.busy
  /\ graph[Current(Top)].kind # "nothing"
  /\ ReturnFailure
  /\ progress' = [progress EXCEPT ![Current(Top)] = "not_started"]
  /\ UNCHANGED <<inputs, at, calls, wrote, done, starts>>

\* The innermost plan is finished: daukle.run_task returns TRUE.
ReturnToCallback ==
  /\ Stepping /\ ~Top.busy /\ AtEnd(Top) /\ Depth > 1
  /\ stack' = Below
  /\ UNCHANGED <<inputs, phase, at, progress, calls, wrote, done, starts>>

\* The outermost plan is finished: fr_tasks_run frees the record, and a
\* publish goes on with the next destination.
GoalDone ==
  /\ Stepping /\ Depth = 1 /\ ~Top.busy /\ AtEnd(Top)
  /\ stack' = <<>>
  /\ progress' = Fresh
  /\ done' = {}
  /\ IF at = Len(goals) THEN phase' = "succeeded" /\ UNCHANGED at
                        ELSE at' = at + 1 /\ UNCHANGED phase
  /\ UNCHANGED <<inputs, calls, wrote, starts>>

-----------------------------------------------------------------------------
(* daukle.run_task, called by the innermost running plugin callback.       *)

Calling ==
  /\ Stepping /\ Top.busy
  /\ graph[Current(Top)].kind = "plugin"
  /\ calls < MaxCalls
  /\ calls' = calls + 1

RunNested(goal) ==
  /\ Calling
  /\ Plannable(graph, goal)
  /\ \E plan \in Plans(graph, goal) :
       stack' = Append(stack, Called(plan))
  /\ UNCHANGED <<inputs, phase, at, progress, wrote, done, starts>>

\* fr_tasks_plan refuses the name: the callback gets FALSE and the reason.
RefuseNested(goal) ==
  /\ Calling
  /\ ~Plannable(graph, goal)
  /\ UNCHANGED <<inputs, phase, at, progress, stack, wrote, done, starts>>

Ended == phase \in {"succeeded", "failed"}

RunPlan == SkipCompleted \/ StartTask \/ RefuseRunning \/ FinishTask \/ FailTask
             \/ ReturnToCallback \/ GoalDone
RunTask == \E goal \in Names : RunNested(goal) \/ RefuseNested(goal)

Next == \/ PlanGoal \/ Sync \/ StartGoal
        \/ RunPlan
        \/ RunTask
        \/ Ended /\ UNCHANGED vars

Spec == Init /\ [][Next]_vars

\* One thread, and every callback and program returns: the process steps.
FairSpec == Spec /\ WF_vars(Next)

-----------------------------------------------------------------------------
TypeOK ==
  /\ graph \in [Slots -> Node]
  /\ goals \in Requests
  /\ phase \in Phases
  /\ at \in DOMAIN goals
  /\ progress \in [Slots -> Progress]
  /\ stack \in Seq(Frame)
  /\ calls \in 0..MaxCalls
  /\ wrote \in BOOLEAN
  /\ done \in SUBSET Slots
  /\ starts \in [Slots -> Nat]

\* Whatever plan or callback got it going, a task runs only when everything it
\* depends on and everything that is part of it has succeeded, and that stays
\* true while it runs and after (tasks.h: "every edge runs before the task it
\* points at"; nested runs share one record in run_plan, and may fail midway).
PrerequisitesFirst ==
  \A slot \in Slots :
    progress[slot] # "not_started" => Prerequisites(graph, slot) \subseteq done

\* The running tasks are exactly the ones the calls of run_plan are inside of,
\* each once, and every call below the innermost is inside one: the record
\* agrees with the C stack, so no task is re-entered from inside itself and
\* none is left "running" by a failure (wiki/02-plugins.md: "A task that is
\* running right now is refused, itself or any task below it").
RunningIsTheStack ==
  /\ {slot \in Slots : progress[slot] = "running"}
       = {Current(stack[k]) : k \in {k \in DOMAIN stack : stack[k].busy}}
  /\ \A k, l \in DOMAIN stack :
       stack[k].busy /\ stack[l].busy /\ Current(stack[k]) = Current(stack[l]) => k = l
  /\ \A k \in DOMAIN stack : k < Len(stack) => stack[k].busy

\* Nothing is written and no task runs unless every selected goal can be
\* planned (cli_tasks.c: "The plan is known good before anything is written";
\* tasks.h: "the first upload must not happen on a run whose third destination
\* was never going to resolve").
NothingBeforeThePlan ==
  wrote \/ (\E slot \in Slots : starts[slot] > 0) =>
    \A n \in DOMAIN goals : Plannable(graph, goals[n])

\* Every command comes to an end: a nested run that would wait for a task that
\* is running is refused rather than entered.
CommandEnds == <>Ended

\* The nested and interleaved runs amount to building in dependency order, one
\* task at a time, each goal delivered only when all of its closure completed.
Order == INSTANCE BuildOrder WITH
  built     <- done,
  delivered <- IF ~wrote THEN 0 ELSE IF phase = "succeeded" THEN at ELSE at - 1,
  verdict   <- IF phase \in {"planning", "syncing"} THEN "considering"
               ELSE IF phase = "running" THEN "building" ELSE phase

BuildsInOrder == Order!Spec
=============================================================================
