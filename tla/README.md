# daukle in TLA+

TLA+ models of daukle, checked with TLC and proved about with TLAPS. daukle
reads a manifest (`daukle.toml`), acquires plugins and toolchains into a shared
cache, runs the plugins' Lua callbacks, writes what they generate, and runs
tasks. Most of it is one process and one thread, but what it keeps is on disk,
is shared with other processes and survives kills; and inside the process a
plugin's callback calls back into the runner that is running it. Those two are
what the models are about.

Every definition is translated from the source; `PROJECT.json` names, for each,
the file and lines it stands for. A comment `Mutant of X` marks a definition no
specification uses: it is X with a bug one could have written, kept to show that
some property of the module notices.

## The system

| part | state it keeps | operations | what is hard | what makes it correct | module |
|---|---|---|---|---|---|
| task graph, `project/tasks.c`, `tasks_plan.c` | the collected array of tasks; the walk's marks, stack and plan | plan a goal, or say why not | cycles, edges found backwards (a task that is *part of* another), a stack of fixed size | a plan is a topological order of the closure; a refusal is deserved; the stack fits; it ends | `TaskGraph`, `TaskPlan` |
| task runner, `tasks_run.c`, `cli_tasks.c`, `lua_verbs_run_task.c` | a mark per task, the nested calls | plan all goals, sync, run each; `daukle.run_task` from inside a task | re-entry, failure inside a nested run, several destinations | prerequisites first; nothing is re-entered; nothing starts before all is planned; it ends | `TaskRun`, refining `BuildOrder` |
| callback dispatch, `config_dispatch*.c`, `lua_verbs.c` | static variables that say which callback is running, and for whom | enter and leave each kind of callback; the verbs they open | nesting: a task's run loads other plugins and runs other tasks, and carries on | the verbs that are open are the running callback's own; what a nested run replaced is put back | `Dispatch` |
| cached files, `cache/cache.c` | a file per entry, a temporary name | write whole, read, discard | kills, failures, two processes on one path | old text or new, never a part | `CacheFile`, refining `WholeFile` |
| provisioning, `provision/provision.c` | a directory per digest, temporary directories | provision a pinned archive | machines sharing a cache, races for the rename, kills, pids used again | what is there is complete and stays | `Provision` |
| generated files, `project/derived.c` | a directory, its ledger | sync, check, clean | the user edits, a run stops halfway, a ledger that is old | edits survive, strays go, check says what sync would do | `Derived` |
| plugin dependencies, `plugin_deps_acquire.c`, `plugin_fetch.c` | the graph being acquired, the plugin cache | breadth-first acquisition | order of requesters, cycles, bounds, bytes that do not match | everyone gets the bytes they pinned; what is acquired is closed and acyclic | `PluginDeps` |
| loading plugins, `plugin/plugins*.c`, `config_declare*.c` | the registry, the slots of what was declared | read, verify, run a chunk; declare | a chunk or a resolver's chunk that fails halfway; limits; callbacks that declare after the load | what is registered can be called, and has no credential its own chunk did not declare | `PluginEntries`, `Session` |
| `daukle.require`, `lua_modules.c`, `plugin_modules.c` | a slot per module, a stack of owners | require from a chunk or from a module | one name in two artifacts, cycles, a module of another artifact | a require reaches the module its own text means; a module runs once | `PluginSource`, `Modules` |
| resolvers, `plugin/resolvers.c` | the loaded resolver, its callback and credentials | load, ask, remember | a resolver replaced by another, or by one that fails | the answer comes from the entry's own resolver | `Session` |
| session, `config_lua.c`, `sync.c`, `cli_plugins.c` | runtime, registry, manifest | open, load, close; an update | order of destruction; what one session leaves to the next | nothing registered outlives its runtime | `Session` |
| migration, `migrate/`, `cli_migrate.c` | the project's files, those moved aside, the manifest, the report | detect, claim, ask, merge, write, prove, finish; `--done`, `clean` | a failure or a kill with some files written and some moved; plugins that disagree | nothing is lost; nothing moves unproved; the report is true | `Catalog`, `Detect`, `Merge`, `Answer`, `ProofCompare`, `Migrate` |
| archives and unpacking, `archive/` | the tree below a directory, links put off | read members; write files, directories, links; copy links | links that writes go through, extended names, limits | the tree is what the archive says, below its directory, within its limit | `ArchiveRead`, `Unpack` |
| commands, `exec/`, `lua_verbs_exec.c` | tools found, a child, two pipes | find a tool, start, drain, wait | a full pipe, a process left behind, a limit, any call failing | what was cut is said, save at a NUL byte; no handle or child is left; it ends | `Tools`, `Exec` |
| config texts, http, command line, utilities, wrapper scripts | - | parsing, formatting, requests | - | - | - |

How they interact: the command line opens a session (manifest, plugins,
registries), which acquires plugins (`PluginDeps`, through `CacheFile`) and
loads them; a sync asks each toolchain's plugin for its files and reconciles
them (`Derived`, each file written by `CacheFile`); a task is planned
(`TaskPlan`) and run (`TaskRun`), and its callback (`Dispatch`) provisions
(`Provision`, which unpacks as `Unpack` does), runs commands (`Exec`) and other
tasks. `daukle migrate` opens sessions of its own, asks the plugins' migrators
and runs both builds to compare them. Between processes the only shared state is
the file system.

## The modules

**TaskGraph** holds the data and the definitions: a task is a slot of the
collected array; an edge names a slot or Nowhere. `Closure` is the least closed
set, `Cyclic` says there is a set of tasks each of which waits for one of the
set. Both are quantified rather than recursive, so theorems can use them.

**TaskPlan** is `fr_tasks_plan`. The recursion of `visit` is the stack
`frames`; one action is one turn of a loop. `BeginWalk`, `Descend`, `PassOver`
and `Leave` are the call, the recursive call, an edge that needs none, and the
return; the three `Refuse...` actions are the three errors.

**TaskRun** is the command: `PlanGoal` for every goal, `Sync`, then `StartGoal`
and the actions of `run_plan` on a stack of its calls, to which `RunNested`
pushes one when the running task's callback calls `daukle.run_task`. It uses
`fr_tasks_plan` as any plan of `Plans(graph, goal)`, which is what TaskPlan
shows it to be. **BuildOrder** is what the command promises, with no stack in
it: a set of built tasks that grows by one whose prerequisites are in it, and
goals delivered in order. TaskRun implements it with `built <- done`.

**CacheFile** is one path and its temporary name, as names of inodes: a write
opens (`Create` or `Truncate`), writes in pieces, renames or cleans up; a read
probes, opens and reads; `Discard` removes. A writer may `Die` anywhere.
`Exclusive` says whether two writes may overlap. **WholeFile** is the promise:
one value that changes at once.

**Provision** is `fr_provision`, an action for each system call it makes on the
shared cache, for processes named by machine and pid. `Die` ends one anywhere;
a later process with the same pid starts counting attempts from 0 again, so it
may be given the dead one's temporary directory.

**Derived** is `fr_derived_apply` and `fr_derived_clean` over a history of
calls, with the user's `Edit` and `LoseLedger` in between, and `Stop` (an error
or a kill) inside. A file and the path a plugin spells are different things:
`FileOf` maps one to the other.

**PluginDeps** is `fr_plugin_deps_acquire`: one action per outcome of
`acquire_one` for a requirement, `ServeNext` for the next node of the queue. A
world says what each artifact declares; a server may answer any artifact for
any url, and change its mind between calls. `Killed` leaves the cache with
bytes nobody compared.

**Dispatch** is the inside of a process: a stack of callbacks entered, and the
file-static variables of `config_dispatch.c` and `config_lua.c` that every verb
consults. Each kind of callback has an `Enter...` and a `Leave...`, which set and
put back exactly what its dispatcher does; `CallRunTask` marks the callback that
waits in `daukle.run_task` while the runner, under it, loads sources and runs
tasks, and `ReturnRunTask` lets it go on. `ExecOpen` is the gate of
`daukle.exec`. Which task may start, and in what order, is TaskRun's matter;
here any task that is not on the stack may.

**PluginSource** says which members of an artifact are modules and by which
names; **PluginEntries** which entries of `[resolvers]` and `[plugins]` a
manifest is accepted with. **Modules** is `daukle.require` while a chunk is
loaded: `kept` is `module_slots`, `owners` the owner stack, `calls` the modules
that run. A require that is refused raises, and nothing in a chunk catches that,
so it is an action that is not enabled followed by the chunk's failure.
**Session** extends them: `BeginLoad` to `ShutDown`, `Forget` and
`DestroyRegistry` in the order each caller has, `LoadResolver` to
`ResolverLoaded` and `Answer` for an entry or an override found through a
resolver, `SourceAcquired` to `ChunkLoaded` for an entry; `Declaring` is any
declaration verb with its limits. Who may call the verbs is `Declarers`: the chunk
that is loaded, the resolver's callback while it is asked, and the callbacks of an
open session, since nothing in `lua_declare_source` and its like asks whether a
chunk is loading; a late one takes the credentials of that moment, and of the chunk
state what was left since the last chunk. A script manifest or overlay declares
sources of its own (`ScriptDeclarer`). Any step may be the last before a failure
(`ChunkRaises`, `Fails`). What Lua computes is not modelled: a chunk makes any
calls in any order.

**Migrate** is the migration command, a step an action, with `Fails` and `Crash`
anywhere and the user's `--done`, `clean`, a deleted manifest and a file put back
between runs. `turn` says where the loop of the step stands; the loops that write
nothing are recursive functions inside one step. It rests on five modules of operators without state: **Catalog**
(which entries are evaluated, which of two with one id is kept), **Detect** (the
walk, what is found where, unclaimed and doubly claimed files), **Merge**
(fragments into a manifest; a document is a function on key paths), **Answer**
(which answers core accepts) and **ProofCompare** (the comparison of two builds'
artifacts, with its list of differences). **Shapes** has the two values for what
is absent and what has the wrong form.

**Unpack** is `fr_unpack` member by member over a tree in which every write goes
through the links that are there, as a system's does; `linksWork` says whether
the machine makes links. **ArchiveRead** turns headers into members: extended
names, the limits, a zip's two directories.

**Exec** is `daukle.exec` beside the child it starts: two pipes of `PipeRoom`
units, a script for the child and for a process it leaves (`kin`), a failure of
every call, on both systems. **Tools** is the search for a program and the report
of what was used.

**TaskPlanProofs**, **TaskRunProofs**, **DerivedProofs**, **PluginDepsProofs** and
**SessionProofs** hold the proofs about the modules they are named after,
SessionProofs those about Modules too. **FilesProofs** has those about files that are
written and moved while a process may die: CacheFile and Migrate, which names its
own `MigrateInit`, `MigrateNext`, `MigrateSpec` and `MigrateTypeOK`. **ToolchainProofs** has those
about how a tool comes onto the disk: Provision, and the unpacking it rests on
(Unpack), whose own names are `UnpackInit`, `UnpackNext` and `UnpackSpec`.
**CallbackProofs** has those about what a callback is given: the windows it runs
in (Dispatch) and the commands it starts (Exec). It extends both, so what both
would call `Init`, `Next`, `Spec` and `TypeOK` is `ExecInit`, `ExecNext`,
`ExecSpec` and `ExecTypeOK` in Exec, and core's own credentials are
`CoreCredentials` there.

## The runs

| run | question | bounds, and why they are enough | states |
|---|---|---|---|
| `plan` | is `fr_tasks_plan` right on every graph? | 3 tasks, up to two edges a task of different kinds, dangling names, every goal: self loops, two- and three-cycles, diamonds, cycles beside the closure all occur | 242 k |
| `run` | is the order of work right when tasks run tasks and fail? | 3 tasks, one edge each, cyclic ones too, 1 or 2 goals, 2 calls of `run_task`: a nested run under a nested run, and a retry after a failure | 168 k |
| `cache_file` | is a cached file whole when writes do not overlap? | 2 writers in turn, 1 reader, 2 pieces, 4 opens: a kill, a rewrite over what it left, a read across both | 338 k |
| `provision` | is a toolchain that is there complete? | 2 machines, 1 pid on both, 2 digests, 2 members, 2 attempts; symmetric in machines, digests and members | 1.07 M |
| `derived` | does reconciliation keep edits, remove strays, and check honestly? | 2 paths, 2 texts, unbounded calls | 149 k |
| `plugin_deps` | does acquisition give everyone what they pinned? | 3 urls, 3 artifacts, chains of depth 2, 2 nodes (both limits are reached), 2 calls over one cache | 1.3 M |
| `dispatch` | do the gates, the directories and the credentials fit the callback that runs? | 4 tasks (so three wait under one), a source, and one callback of every other kind, with different credentials | 1074 |
| `dispatch_env` | does a task keep its declared environment across `run_task`? (**violated**) | the same | - |
| `migrate` | is a project kept through a migration that may stop anywhere? | 3 original files, 5 plugins (two of them with a translator only) and 5 catalog lists, so that owned files, instances, fragments and translators collide; 2 commands, so that a run meets what another left | 604 k |
| `unpack` | is the tree what the archive says? | every archive of up to 3 headers from a pool of files, directories, links and extensions, three links that lead through each other after a file, and longer odd ones; 7 bytes, 5 members, 2 hops, so every limit is met | 59 k |
| `exec` | is a command's output whole or said to be cut, and does it end? | a pipe of 1 unit, a limit of 2, a sink of 1, a buffer that grows once, a kin that holds the pipes, a NUL byte at the front, behind the first unit, past the end, or none, 2 tools before the call | 290 k |
| `session` | does the right chunk answer, with what is its own? | 2 resolvers, 14 manifests, 3 slots, a capacity of 1 a kind, requires two deep over 3 modules, 2 sessions one after the other; a slot is left for a callback or a script after most loads | 1.36 M |

Deadlock is checked except where the system really may stop: in `plugin_deps`
after the last of `MaxCalls` calls, in `session` after the last of
`MaxSessions`, in `migrate` when the user's last command is done, in `unpack`
when the archive ends, and in `exec` when a read of one stream has failed and
the child waits to write to it. In `provision` and `cache_file` a process can
always answer from the cache, die or be probed, so nothing stops there.

Bounds by name: `NodeCount` (tasks), `MaxCalls` (calls an invocation or a
history makes), `Pieces` (a text is this many writes; 2 is the least that can be
partial), `MaxOpens` (writes started), `MaxAttempts` (provisions by one
process), `MaxDepth` and `MaxNodes`
(the code's own limits, made small), `MaxSessions` and `MaxRuns` (a history's
sessions and commands), `MaxTools` (`daukle.tool` calls before one
`daukle.exec`), `Fuel` (the turns of a walk, which are names and links followed). `MaxSlots`, `Capacity`,
`MaxChunkToolchains`, `MaxModules`, `MaxListed`, `MaxDirectories`, `MaxMembers`,
`MaxDifferences`, `MaxName`, `MaxTotal`, `MaxPath`, `MaxHops`, `MaxFullName`,
`MaxMemberBytes`, `MaxArguments`, `MaxEnv`, `Limit`, `FirstCapacity`, `SinkSize`
and `ReportCapacity` are limits and sizes of the code, made small enough to be
met.

Fairness is assumed in `TaskPlan`, `TaskRun` and `Exec`. In the first two it is
weak fairness of the whole next-state relation: there is one thread, every loop
is a call that keeps stepping, and every callback and program is assumed to
return. In `Exec` the parent, each stream's pump and each process go on when they
can; nothing bounds how long a child takes, and `exec` has no timeout. The other
modules claim no liveness: their processes may be killed for good.

The types of each module's state are its `TypeOK`; those of Exec and Unpack are
`ExecTypeOK`, in Exec, `MigrateTypeOK`, in Migrate, and `UnpackTypeOK`, beside the
proofs in ToolchainProofs. All are proved (for Dispatch as `TypeInv`, a part of its
invariant; for CacheFile under `Exclusive`).

## What the runs found

* **A task loses its declared environment across `daukle.run_task`**
  (`dispatch_env`). Before the inner task is dispatched its toolchain's sources
  are loaded, and each load ends by declaring nothing
  (`config_dispatch_resolve.c:56`). What `fr_lua_dispatch_task_run` then saves
  and puts back is that. `config_dispatch.c:358` and `STRUCTURE.md:111` say the
  outer task's is put back. `dispatch` shows what does hold: nobody ever reads a
  credential another plugin declared (`NeverAnothersEnv`); what is lost is lost,
  not leaked.

The rest were met while modelling. No run listed above checks them, but where a
constant is named, another value of it shows them, and two have a configuration of
their own that violates what a text of the repository says.

* A symlink member becomes a link, or a copy of what it reads, where
  `STRUCTURE.md:126` says it "becomes nothing on any platform (D-38)" and
  `toolreport.h:45` that daukle creates no symlink on any platform. The code and the
  comment above `fr_unpack_write_symlink_member` are later (D-57).
  `LinksBecomeNothing` is the older statement: TLC violates it with
  `MCUnpackLinks.cfg` (module MCUnpack) by an archive of one link. `TreeIsTheArchive`
  and `CopiesReadTheSame` state what the code promises instead.
* A callback may name a task of a toolchain another plugin's callback declared.
  `chunk_toolchains` is cleared as a chunk begins and ends (`config_declare.c:191`),
  `lua_declare_toolchain` adds to it whenever it is called, and nothing clears it
  between two callbacks; so `edge_owner_is_declared` goes by what any callback
  declared since the last load, where the refusal (`config_declare_task.c:201`) says
  a plugin may name a task "of a toolchain it declares or of a plugin it requires".
  That is `OwnersAreItsOwn`, which TLC violates with `MCSessionLate.cfg` (module
  MCSession; two plugins, 4 slots, a capacity of 2 a kind). A late declaration may
  also have less than its chunk's credentials, after a nested task run (the finding
  above once more), so `RegisteredIsWhole` says of it only that it has nobody else's.
* A failed task may run again in one invocation: `run_plan` puts it back to not
  started (`tasks_run.c:132`) and `daukle.run_task` returns false rather than
  ending the command, where `02-plugins.md:217` and `tasks.h:97` say once per
  invocation. `PrerequisitesFirst` holds: nothing takes the failed task as done.
* Two processes that write one cache entry share its temporary file, the path and
  `.tmp` (`cache.c:261`), so a reader may find part of a text, which `cache.c:250`
  rules out: `ChangesWhole` fails with `Exclusive = FALSE`. `cache_file` shows the
  promise for writes that do not overlap, killed ones included.
* A file under a new spelling is written and swept by one sync:
  `generated_this_run` compares spellings (`derived.c:153`), so with `a` recorded
  and `./a` generated, `a` is removed (`GeneratedIsThere` with `FileOf` mapping
  two names to one file).
* A source loaded while a task waits is given that task's directory by
  `daukle.write`, which asks for no window (`lua_verbs_write.c:28`).
* Plugin loading: an alias of 64 bytes is accepted (`plugin_requires.c:80`) and
  kept as 63 (`plugins_load.c:24`), so its own requires do not find it (`Cut`).
  Two aliases overridden to one url make two nodes. When a resolver's chunk fails
  after it declared, the callback is put back and its credentials are not; nothing
  reads them before they are set again.
* Migration: what is owned is checked before the carried files and the artifacts are
  written, and one of those at or below an owned path is moved aside with it
  (`migrate_finish.c:319`; `KeptApart` below); an old and a new artifact that are one path are refused only within
  one comparison; `--with` adds the root after directories were collapsed; a
  carried file may replace one that is at its new path; when `a` is a file of an
  earlier `old/` and `a/b` is owned, `check_owned` passes and the move fails after
  the manifest is written.
* Unpacking: a copied link has its target's bytes and no mode; a directory member
  whose name a file has is taken as made; in a copy, `..` after a name, and
  `/.` or `/` at the end, is folded by its spelling; when the mode cannot be set the file stays though `unpack.h`
  says it is left unwritten; a zip's links become files that hold their target.
* Running commands: on Windows, when the scrubbed environment cannot be allocated
  the child inherits all of it; `exec.h` says `FR_ERR` means the child never ran,
  which is not so when the buffer for its output or the wait fails; and after a
  failed read of one stream the other is waited for with the first one open, which
  `CallEnds` excludes. Output goes to Lua as a C string (`lua_verbs_exec.c:281`,
  `286`), so what follows its first NUL byte is lost and `truncated` does not say so:
  `AsString` is that conversion, and `TruncationIsSaid` names the exception.

## What is proved

Each theorem is about every value of the constants; the assumptions are the
`ASSUME`s beside the constants, which TLC evaluates on the instances. All follow
one argument: an invariant `IInv` holds at `Init`, every step keeps it (a lemma
an action, a step a conjunct), and it implies the property.

* **TaskPlanProofs**: `PlanTypeCorrect`, `PlanPlannedIsAPlan`,
  `PlanRefusalsAreExact`, `PlanStackFits`. That the plan is ordered is not
  inductive: when a task is left, that its prerequisites are done rests on what
  its frame went past. So `IInv` says, of every frame, that each candidate it
  has passed is done or is the frame above it (`Passed`); that the stack is a
  path of prerequisites (`StackIsAPath`, which makes a reported cycle a cycle)
  with no task twice (`OnceEach`, which with the pigeonhole bounds it); that the
  marks are the stack and the plan (`StackIsMarked`, `PlanIsDone`); and that the
  walk stays in the closure. No cycle in a planned closure: the first task of a
  knot in the plan would wait for an earlier one (a least index, from the
  well-foundedness of the naturals).
* **TaskRunProofs**: `RunTypeCorrect`, `RunPrerequisitesFirst`,
  `RunRunningIsTheStack`, `RunNothingBeforeThePlan`, and the refinement
  `RunBuildsInOrder` of BuildOrder. `IInv` says of every frame, not only the
  innermost, that its plan is ordered and what it has passed has completed: a
  nested run returns into a frame the step did not touch. `CommandInv`, about
  phases and goals, is a second invariant beside it.
* **ToolchainProofs**, Provision: `ProvisionTypeCorrect`, `ProvisionPresentIsComplete`,
  `ProvisionAnsweredIsThere`, `ProvisionNoLitter`, `ProvisionEntriesStay`.
  `PresentIsComplete` says nothing of what is being unpacked, so `IInv` adds what
  each process knows where it is (`KnowsStep`: what is unpacked, with what is
  left, is the archive of the pin), that each temporary directory bears its
  process's name (`OwnTemp`), from which no step of one disturbs another, and
  what an answer rests on (`KnowsAnswer`).
* **ToolchainProofs**, Unpack: `UnpackInductive`, `UnpackIsWithinTheLimit`,
  `UnpackedIsTheArchive`. One invariant, `UnpackInv`, relates the tree to the headers
  read so far: what is no directory is a member's, alone of its spelling
  (`NodesAreSaid`); every member read is there as it was said, or put off
  (`MembersAreThere`); what was put off is a link's, once, and has no link above it
  (`DeferredAreSaid`), so that a copy too is put where its name says and over nothing;
  and the tree hangs together (`WellFormed`). From it follows that no link of the tree
  is above a name that passes the checks, which is why the operating system's walk
  ends where the name says (`WalkIs`, `LeafIs`, `MakeTreeIs`), and so that each write
  adds a node and changes none (`Writes`). That a member is the one its headers
  describe is about the reader: what its slots hold is what the last extension header
  that says anything said (`SlotsAreLast`, `MemberSays`). The limit is the same
  induction with `Size(tree) <= total`; a write adds its size to the sum, whichever
  order a sum is taken in (`SizeSumsUp`, `OneSum`, `PutSize`). What a recursive
  function or a fold keeps from turn to turn is shown of the least turn that would not
  have it (`LeastMember`); that such a function exists, in the same way.
* **ToolchainProofs**, the copies of links: `CopyInductive`, `UnpackCopiesReadTheSame`.
  The property relates two things that never meet in the code: what
  `resolve_through_links` makes of a link by folding spellings, and where a system
  would go that had all the links. A second invariant, `CopyInv`, beside `UnpackInv`:
  what was put off is what a member said, let through by `target_stays_inside`, and
  waits, where links can be made, only for what is in its place or above it; where
  they cannot, there is no link in the tree; and each copy is of the file its link
  resolves to, which no later write changes. It follows that what is copied is
  copied on a machine without links, so all the links of the archive were put off and
  the tree with its links (`WithLinks`) has the same directories (`WithLinksIs`). There
  a target that stays inside and folds right climbs first and then goes down
  (`ClimbsUp`, `GoesDown`), so every turn of the fold but the last is above or below
  directories (`TargetLeads`) and the system's walk follows it (`WalkFollows`) to the
  last name. If that is another link the walk goes on with its target as
  `resolve_through_links` does (`ReaderHops`), at most `MaxHops` times, and ends at the
  file (`ReaderComes`). The two hypotheses of the property, `LinksCouldStand` and
  `FoldsRight`, are what it is false without. A link named `b/` is put off and never
  stands; a link whose place a file has taken, or whose directory is a file, could not
  have stood; a target like `l/../a` or `a/.` is folded by its spelling, whatever `l` and
  `a` are, which is the disagreement listed above.

* **FilesProofs**, CacheFile: `CacheHeldIsWhole`, `CacheChangesWhole`, both for
  `Exclusive`, which is a hypothesis because without it they fail (above). The
  second is the refinement of WholeFile. That a rename puts a whole text in place
  rests on the temporary name being the running writer's own: `OneWriter` and
  `TempIsOpen` say so, `Written` says which pieces are there, and what the path
  or a reader has is an older inode no writer reaches (`HeldIsWhole`). A killed
  writer leaves a temporary file with any content; `Made` is all that is said of
  it, since the next writer empties it.
* **FilesProofs**, Migrate: `MigrateInvariant`, `MigrateTypeCorrect`,
  `ManifestAgreement`, `ClaimsAreAnswered`, and under hypotheses `MigrateLosesNothing`,
  `MigrateMovesWhenProved`, `MigrateReportIsTrue`. `MigrateInv` says, at each stage of a
  run, what the stages before it have established: that a translation was given, is
  well formed and renames no toolchain (`ForeignFollows`); that while no blocker is
  counted everything considered is pinned and every answer can be proved
  (`BlockersFollow`); that what is owned does not nest, and is in its place or moved
  aside exactly as the turn of the move says (`OwnedFollows`); that the manifest on disk
  is the one assembled (`ManifestFollows`) and that the move began with equal artifacts
  (`ProvedFollows`).
  `ManifestAgrees` rests on merging: without a collision a merged document keeps what
  both said (`MergedIs`), whose key paths are all of a kind (`KeyPathsAreLists`), and
  core's keys go over none but their own (`SetInstanceIs`, `AddPluginIs`).
  `ClaimsAnswered` says of a run that goes on from detection that of each claimed file
  the claimants who give way to nobody, by `--with`, scope and order, were detected in
  its directory or above, two of those only when `--with` names both, and that nobody
  else was. It rests on the sort losing no detection (`SortedIs`: the ranks are a
  permutation) and on what is left out lying below what is kept (`OutermostAnswers`:
  of the detections above a directory there is an outermost one). What a loop inside a
  step keeps is shown of its least turn that would not have it (`EveryTurn`).
  The last three are action properties. `MigrateLosesNothing` assumes
  `[]LeavesOriginals`: no carried file and no artifact has the path of an original
  file. The other two assume `[]KeptApart`: while files are moved, no carried file and
  no artifact of the new build is at or below what is owned. Neither is something the
  code checks, so neither is proved or assumed of the constants; TLC finds both true in
  every state of `MCMigrate`. Under `KeptApart` a second invariant holds, that what was
  carried stays whole and what was the same stays so (`CarriedFollows`, `SameSoFar`),
  which is what `turn = 1` of `ProvedFollows` becomes while files are being moved.
* **DerivedProofs**: `DerivedTypeCorrect`, `DerivedEditsAreKept`, `DerivedNoStrays`
  for any `FileOf` (edits are kept by sync and check; clean deletes every file), and `DerivedGeneratedIsThere`, `DerivedCheckIsHonest` under
  `Distinct`: no two paths lead to one file. Without `Distinct` they fail, which is
  the finding above. `IInv` relates the directory, the ledger and the listing in
  the middle of a call: what a sync has been through, what it has not yet swept
  (`OwnIsListed`), and what a check that found nothing has established so far
  (`CheckedSoFar`).
* **PluginDepsProofs**: `PluginDepsTypeCorrect`, `PluginDepsPinsHonoured`,
  `PluginDepsShortestFirst`, `PluginDepsAcquiredIsClosed`, `PluginDepsNoKnot`, for
  every world the assumptions allow. The queue is in order of depth and what is
  added goes at its end (`Levels`), whence breadth first; every node before the one
  served has each requirement bound once (`Served`); the override of a root
  requirement takes a place like any other (`RoomForRoot`). No knot: pins are digests of the
  bytes that hold them, so there is a rank that falls along them (`Founded`), and
  the node of least rank in a knot would require one of lesser rank.
* **SessionProofs**: of Session `SessionTypeCorrect`, `SessionResolverIsItsOwn`,
  `SessionRegisteredIsWhole`; of Modules `SessionRequiresReachTheirOwn`,
  `SessionEachRunsOnce`. Which library a running text belongs to is not in its call,
  it is the top of the owner stack; so `Nested` says that there is a depth for each
  call, that grows by one exactly where a call crossed into another artifact, and at
  which the owner stack names whose text it is. A call, once it answers, answers
  what its asker meant (`CallsMeant`). Of what is registered the invariant says that a
  slot is a script's or was declared by a plugin's own text with what its declarer
  held (`RegistryFollows`), and of each declarer that this is all its chunk declared, or,
  late, a part of it (`DeclarersTrusted`); the steps that declare are proved apart from
  those that only go on (`Turns`, `Walks`). For the resolvers, what is remembered (the
  memo, the label, the callback, its credentials) is related to the chunk they came
  from also while another chunk is being loaded over them.
* **CallbackProofs**, Dispatch: `DispatchWindowsMatch`, `DispatchPlaceIsOwn`,
  `DispatchNeverAnothersEnv`. The static variables are what the stack of callbacks
  says: each gate is a function of the innermost frame and of the frames that wait
  below it (`GatesFollow`, `PlacesFollow`), and what a frame saved is what the frame
  below had (`PlacesSaved`, `EnvSaved`). Of `env` only that it is the innermost's or
  empty, since that it is the innermost's is false (`dispatch_env`).
* **CallbackProofs**, Exec: `ExecTypeCorrect`, `ExecTruncationIsSaid`,
  `ExecNothingIsLeft`. For each stream, what is captured followed by what is in the
  pipe is all that was written, for as long as no loss has been recorded
  (`AddsUp`); what is captured is a beginning of it whatever happens (`InOrder`),
  which needs that nothing is ever appended after a loss; and a stream that is over
  either was read when nobody was left to write, or says it was cut
  (`EndIsMeant`). That a text stays below the memory it is in, its end mark
  included, is part of `ExecTypeOK`.

Assumptions on constants that say something about the program, beyond the sizes
being numbers: in Migrate, that an answer's fields are lists of what Lua can have
put there, or absent, or of the wrong form, that a fragment's key paths are closed
under beginnings, as a JSON document's are, and that `Order` has every directory in
which a file may come to be; in Unpack, that a header has a name and a link where its kind has
them, each a sequence of components (`AreHeaders`), and that the system follows a name
of `MaxPath` components and the targets of `MaxHops` links (`Fuel`), as systems do,
which follow more links than the 8 of the code; in PluginDeps, `Founded` (no
collision of digests) and that a plugin's requirements are finite and no more than
the graph has room for (`FR_PLUGIN_MAX_REQUIRES`); in Session, that what a manifest
names is one of the views, and that no library a plugin reaches is that plugin
itself. The latter is a matter of pins too, except through an override of the
manifest, which could name the plugin as its own library; the code then has two
views of one artifact, the root's and a node's, where Modules has one. In
CacheFile, `None` is no text and no inode; a function is its own kind of value in
TLA+ only if one says so.

Model-checked only:

* Liveness (`WalkEnds`, `CommandEnds`, `CallEnds`): fairness is beyond the prover.
* The operators of Detect, Merge, Answer, ProofCompare and ArchiveRead are checked, and
  proved about, as Migrate and Unpack use them, not against a second definition.

## Assumptions and what is left out

* A kill stops the process between two system calls; the file system keeps what
  was done. Power loss (nothing is fsynced) is not modelled.
* `rename` of a file replaces the target and is atomic; `rename` of a directory
  fails when the target is there.
* SHA-256 digests are equal only for equal bytes.
* CacheFile: the cache is enabled and not refreshing; nothing else has the
  name `<path>.tmp`.
* Provision: the removal of a process's own temporary tree succeeds
  (`fr_remove_tree`'s result is not looked at); host names differ after
  sanitising and truncation; a process's pid is its own while it lives.
* Derived: edits fall between calls, not between a comparison and a removal;
  no generated file is called `.daukle-generated`; a listing names each file
  once; writes of a task's own (`daukle.write`) count as the user's.
* PluginDeps: overrides by path or directory are not modelled (they fetch
  nothing); what a declaration's text parses to is given by the world.
* Session: an artifact's bytes are what its name stands for; what a declaration's
  text holds and which calls a chunk makes are given by the instance; one process
  has one session at a time. A callback of a source, a toolchain or a task
  declares only in an open session, where a sync or a build calls them, with its slot's
  credentials or, for a task, with none; migrators' and translators' callbacks declare
  nothing, since what their sessions register is not used after them; a verb that a
  plugin hands to a library's function counts as the library's not calling it. Which
  tasks a late declaration may name is left open (`OwnersAreItsOwn`, above).
  Whether a manifest is a script is any choice (`BeginLoad`).
* Migrate: empty directories are not tracked; the report's own write succeeds;
  the names of an archive's members are unique; a build writes only the artifacts
  that are compared; the user acts between runs, not within one.
* Unpack: nothing else writes below the destination; inflating and checksums are
  an archive that is or is not intact.
* Exec: processes write what they write whatever they are told, and a unit stands
  for any number of bytes; the child may leave one process, which leaves none.
* TaskRun: what a task's command does outside the graph is not modelled, and
  neither is how the tasks are collected from the manifest.

Not modelled, and why, is in `PROJECT.json` under `components`. Texts (parsing
TOML and JSON, formatting reports), byte formats (tar, zip) and the two http
back ends are data with little control. The rest is the plan below.

## Plan

Done: task graph, plan and runner; cached files; provisioning; generated files;
plugin dependencies; callback dispatch; plugin loading, modules and resolvers
with the session around them; migration; unpacking; running commands.

1. Proofs. That what Provision takes as unpacking is what Unpack does.
2. Composition: a sync over `Derived` for several toolchains (who owns a
   directory, a toolchain renamed); `PluginDeps` over `CacheFile`; `Provision`
   over `Unpack`.
3. The other half of `provision.c` (`fr_artifact`, the pinned read); `resolve.c`'s
   choice between versions, against a reference definition; how tasks are
   collected from the manifest.
4. The region editor of the configuration writer, and the wrapper scripts.
