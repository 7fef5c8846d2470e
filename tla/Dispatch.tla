------------------------------ MODULE Dispatch ------------------------------
(***************************************************************************)
(* How a plugin's Lua is entered and left (src/config/config_dispatch.c,    *)
(* config_dispatch_resolve.c, config_dispatch_migrate.c, config_lua.c) and  *)
(* what the verbs see there: file-static variables say which callback is    *)
(* running, where it may write and what its chunk declared. A task nests:   *)
(* daukle.run_task (src/lua/lua_verbs_run_task.c) has run_node load the     *)
(* inner task's dependencies and run it while the outer one waits.          *)
(***************************************************************************)
EXTENDS Naturals, Sequences, FiniteSets

CONSTANTS Slots,                    \* the callbacks plugins registered
          KindOf,                   \* what each is
          Credentials,              \* CORE_CREDENTIALS
          EnvOf,                    \* those the slot's chunk declared
          None
Kinds == {"generate", "source", "resolver", "task", "migrator", "translator", "chunk"}
ASSUME DispatchAssumption ==
  /\ KindOf \in [Slots -> Kinds]
  /\ EnvOf \in [Slots -> SUBSET Credentials]
  /\ None \notin Slots

VARIABLES stack,                    \* callbacks entered, the innermost last
          env,                      \* declared_env
          cwd, generated,           \* task_cwd and task_generated_dir: whose
          context,                  \* task_context: whose
          depth,                    \* task_dispatch_depth
          limited,                  \* whether the instruction hook is set
          processFree,              \* process_free_callback_depth
          generating,               \* generation_is_running
          loading,                  \* plugin_chunk_running
          runner                    \* task_runner is set: fr_tasks_run runs
task  == <<cwd, generated, context>>
gates == <<depth, limited, processFree, generating, loading>>
vars  == <<stack, env, task, gates, runner>>

\* A callback, the values its dispatch found, and whether the callback is
\* waiting in daukle.run_task.
Owner == Slots \cup {None}
Frame == [slot : Slots, nested : BOOLEAN, env : SUBSET Credentials,
          cwd : Owner, generated : Owner, context : Owner]

Tasks     == {s \in Slots : KindOf[s] \in {"task", "migrator"}}
Top       == stack[Len(stack)]
Below     == SubSeq(stack, 1, Len(stack) - 1)
InLua     == stack # <<>> /\ ~Top.nested
InCore    == ~InLua
AtRest    == stack = <<>> /\ ~runner
Is(kind)  == InLua /\ KindOf[Top.slot] = kind
OnStack   == {stack[k].slot : k \in DOMAIN stack}

Init ==
  /\ stack = <<>>
  /\ env = {} /\ cwd = None /\ generated = None /\ context = None
  /\ depth = 0 /\ limited = TRUE
  /\ processFree = 0 /\ generating = FALSE /\ loading = FALSE
  /\ runner = FALSE

Enter(slot, kind) ==
  /\ KindOf[slot] = kind
  /\ stack' = Append(stack, [slot |-> slot, nested |-> FALSE, env |-> env, cwd |-> cwd,
                             generated |-> generated, context |-> context])
  /\ env' = EnvOf[slot]
  /\ UNCHANGED runner

\* The callback returned or raised: lua_pcall comes back either way.
Leave(kind) == Is(kind) /\ stack' = Below /\ UNCHANGED runner
ClearEnv == env' = {}

-----------------------------------------------------------------------------
(* Generating, loading a plugin, resolving a coordinate                    *)

EnterGenerate(slot) ==
  /\ AtRest /\ Enter(slot, "generate") /\ generating' = TRUE
  /\ UNCHANGED <<task, depth, limited, processFree, loading>>

LeaveGenerate ==
  /\ Leave("generate") /\ ClearEnv /\ generating' = FALSE
  /\ UNCHANGED <<task, depth, limited, processFree, loading>>

\* load_chunk, or acquire for a resolver, around fr_lua_plugin_load.
EnterChunk(slot) ==
  /\ AtRest /\ Enter(slot, "chunk") /\ loading' = TRUE
  /\ UNCHANGED <<task, depth, limited, processFree, generating>>

LeaveChunk ==
  /\ Leave("chunk") /\ ClearEnv /\ loading' = FALSE
  /\ UNCHANGED <<task, depth, limited, processFree, generating>>

EnterResolver(slot) == AtRest /\ Enter(slot, "resolver") /\ UNCHANGED <<task, gates>>
LeaveResolver == Leave("resolver") /\ ClearEnv /\ UNCHANGED <<task, gates>>

-----------------------------------------------------------------------------
(* Loading a source: fr_resolve_toolchain, for a sync or in run_node       *)

EnterFree  == processFree' = processFree + 1
LeaveFree  == processFree' = processFree - 1
OtherGates == <<depth, limited, generating, loading>>

EnterSource(slot) ==
  /\ InCore /\ Enter(slot, "source") /\ EnterFree
  /\ UNCHANGED <<task, OtherGates>>

\* Mutant of LeaveSource: what the source declared stays declared.
LeaveSourceDeclared ==
  /\ Leave("source") /\ LeaveFree
  /\ UNCHANGED <<env, task, OtherGates>>

LeaveSource ==
  /\ Leave("source") /\ ClearEnv /\ LeaveFree
  /\ UNCHANGED <<task, OtherGates>>

EnterTranslator(slot) ==
  /\ AtRest /\ Enter(slot, "translator") /\ EnterFree
  /\ UNCHANGED <<task, OtherGates>>

LeaveTranslator ==
  /\ Leave("translator") /\ ClearEnv /\ LeaveFree
  /\ UNCHANGED <<task, OtherGates>>

-----------------------------------------------------------------------------
(* Running: a task's run, a publisher's publish, a migrator's run or build *)

EnterWindow == depth' = depth + 1 /\ limited' = (limited /\ depth > 0)
LeaveWindow == depth' = depth - 1 /\ limited' = (limited \/ depth = 1)

EnterMigrator(slot) ==
  /\ AtRest /\ Enter(slot, "migrator") /\ EnterWindow
  /\ cwd' = slot
  /\ UNCHANGED <<generated, context, processFree, generating, loading>>

LeaveMigrator ==
  /\ Leave("migrator") /\ ClearEnv /\ LeaveWindow
  /\ cwd' = None
  /\ UNCHANGED <<generated, context, processFree, generating, loading>>

\* fr_tasks_run, which keeps the one run in progress for run_task.
StartRun == AtRest /\ runner' = TRUE /\ UNCHANGED <<stack, env, task, gates>>
EndRun ==
  /\ runner /\ stack = <<>>
  /\ runner' = FALSE
  /\ UNCHANGED <<stack, env, task, gates>>

\* fr_lua_dispatch_task_run, of a task that is not running (see TaskRun).
EnterTask(slot) ==
  /\ InCore /\ runner /\ slot \notin OnStack
  /\ Enter(slot, "task") /\ EnterWindow
  /\ cwd' = slot /\ generated' = slot /\ context' = slot
  /\ UNCHANGED <<processFree, generating, loading>>

\* Mutant of LeaveTask: cleared, not put back.
LeaveTaskCleared ==
  /\ Leave("task") /\ LeaveWindow
  /\ cwd' = None /\ generated' = None /\ context' = None
  /\ env' = Top.env
  /\ UNCHANGED <<processFree, generating, loading>>

\* Mutant of LeaveTask: the limit is a flag each run sets again.
LeaveTaskLimited ==
  /\ Leave("task") /\ depth' = depth - 1 /\ limited' = TRUE
  /\ cwd' = Top.cwd /\ generated' = Top.generated /\ context' = Top.context
  /\ env' = Top.env
  /\ UNCHANGED <<processFree, generating, loading>>

\* Back is what this dispatch found when it was entered.
LeaveTask ==
  /\ Leave("task") /\ LeaveWindow
  /\ cwd' = Top.cwd /\ generated' = Top.generated /\ context' = Top.context
  /\ env' = Top.env
  /\ UNCHANGED <<processFree, generating, loading>>

-----------------------------------------------------------------------------
(* The verbs                                                               *)

\* daukle.exec, daukle.built and daukle.provision are open.
ExecOpen == ~generating /\ ~loading /\ processFree = 0 /\ depth > 0

\* daukle.run_task: run_plan goes on for the callback that waits ...
Waits(nested) == stack' = [stack EXCEPT ![Len(stack)].nested = nested]
CallRunTask ==
  /\ InLua /\ ExecOpen /\ runner
  /\ Waits(TRUE)
  /\ UNCHANGED <<env, task, gates, runner>>

\* ... and the callback is told how it went.
ReturnRunTask ==
  /\ stack # <<>> /\ Top.nested
  /\ Waits(FALSE)
  /\ UNCHANGED <<env, task, gates, runner>>

Next ==
  \/ \E s \in Slots :
       \/ EnterGenerate(s) \/ EnterChunk(s) \/ EnterResolver(s) \/ EnterSource(s)
       \/ EnterTranslator(s) \/ EnterMigrator(s) \/ EnterTask(s)
  \/ LeaveGenerate \/ LeaveChunk \/ LeaveResolver \/ LeaveSource
  \/ LeaveTranslator \/ LeaveMigrator \/ LeaveTask
  \/ StartRun \/ EndRun \/ CallRunTask \/ ReturnRunTask

Spec == Init /\ [][Next]_vars

-----------------------------------------------------------------------------
TypeOK ==
  /\ stack \in Seq(Frame)
  /\ env \in SUBSET Credentials
  /\ cwd \in Owner /\ generated \in Owner /\ context \in Owner
  /\ depth \in 0..Cardinality(Slots) /\ processFree \in {0, 1}
  /\ limited \in BOOLEAN /\ generating \in BOOLEAN /\ loading \in BOOLEAN
  /\ runner \in BOOLEAN

\* A process can be started exactly while the callback that runs is a task's, a
\* publisher's or a migrator's, not while it waits for a source it caused to be
\* loaded; and the instruction limit is lifted for as long as one of those has
\* not returned, whatever it ran in the meantime (config_lua.h: "only inside
\* fr_lua_dispatch_task_run ... or a migrator's run or build").
WindowsMatch ==
  /\ InLua => (ExecOpen <=> Top.slot \in Tasks)
  /\ stack = <<>> => ~ExecOpen
  /\ ~limited <=> OnStack \cap Tasks # {}

\* A task that runs, again after the tasks it ran itself, runs in its own
\* directories and context, and none of them outlives it.
PlaceIsOwn ==
  /\ Is("task") => cwd = Top.slot /\ generated = Top.slot /\ context = Top.slot
  /\ Is("migrator") => cwd = Top.slot
  /\ {cwd, generated, context} \ {None} \subseteq OnStack

\* No callback reads a credential that only another plugin's chunk declared.
NeverAnothersEnv == InLua => env \in {EnvOf[Top.slot], {}}

\* What a callback's chunk declared is declared for as long as it runs, also
\* after a run it started (config_dispatch.c: "what a run replaces is put back
\* when it ends, not cleared: daukle.run_task starts one inside another, and the
\* outer task carries on afterwards"). It is not when that run loads a source.
EnvIsPutBack == InLua => env = EnvOf[Top.slot]
=============================================================================
