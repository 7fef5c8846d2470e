------------------------------ MODULE Session ------------------------------
(***************************************************************************)
(* A session from its opening to its close: fr_session_open and              *)
(* fr_session_close (src/project/sync.c) around fr_plugins_load              *)
(* (src/plugin/plugins.c), or the runtime "daukle plugin update" opens       *)
(* around fr_plugins_update_cache. A load takes the entries of [plugins] in  *)
(* order; an entry named through a resolver, and an override that is, has    *)
(* the resolver's own chunk loaded first; and a chunk declares what it       *)
(* pleases, which becomes slots the registry points at                       *)
(* (src/config/config_declare*.c, src/plugin/registry.c). So may the callbacks *)
(* it leaves behind, a resolver's and those of its slots: most verbs do not ask  *)
(* whether a chunk is being loaded. And so may the scripts of the project, a     *)
(* Lua manifest before the plugins and the overlay and pin files after them,     *)
(* which have a daukle.source of their own (src/config/config_lua.c).            *)
(* What Lua computes is not modelled: a chunk makes any of the calls its     *)
(* environment has, in any order, and ends or raises when it likes.          *)
(***************************************************************************)
EXTENDS Modules, PluginEntries

CONSTANTS Manifests,                \* what [resolvers] and [plugins] may hold
          Credentials,
          Cut,                      \* an alias as declared_aliases keeps it
          Toolchains, Ids,          \* names of toolchains; of everything else
          MaxSlots,                 \* FR_LUA_MAX_PLUGINS
          Capacity,                 \* FR_REGISTRY_CAPACITY
          MaxChunkToolchains,       \* FR_LUA_MAX_CHUNK_TOOLCHAINS
          MaxSessions               \* bound: sessions of one process

\* What is declared (the registry also keeps the two formats of a manifest).
Kinds == {"source", "toolchain", "task", "migrator", "translator"}
Free  == ""                         \* a name that says no owner
NoLabel == ""                       \* no plugin's chunk is loaded

VARIABLES session,                  \* "none", "load" or "update"
          manifest,                 \* what it reads
          pc,                       \* what happens next
          at, part,                 \* the entry, and which of its chunks
          asking,                   \* the resolver asked, and what goes on after
          needs,                    \* aliases a resolver has yet to find
          runtime,                  \* runtime_state is open
          granted,                  \* env_declared_exec and its like: for whom a table was made last
          registry, slots,          \* per kind, which slots; plugin_slots
          callback, callbackEnv,    \* resolver_callback: whose; resolver_env
          backup,                   \* what a chunk that fails puts back
          memo,                     \* loaded_label and loaded_source, or NoMemo
          local,                    \* what was declared since a chunk began or ended
          env, aliases, label,      \* declared_env, chunk_requires, chunk_label
          report,                   \* the rows of "daukle config print"
          sessions                  \* begun so far
process  == <<session, manifest, sessions>>
place    == <<at, part>>
quest    == <<asking, needs>>
declared == <<registry, slots, local>>
resolver == <<callback, callbackEnv, backup, memo>>
windows  == <<env, aliases, label>>
lua      == <<runtime, granted, declared, resolver, windows, modules>>
vars     == <<process, pc, place, quest, lua, report>>

NoMemo     == <<>>
NoManifest == [resolvers |-> <<>>, plugins |-> <<>>]
NobodyAsked == [of |-> [label |-> NoLabel, artifact |-> "", source |-> <<>>], then |-> ""]
NothingLocal == [toolchains |-> {}, publishers |-> 0, resolver |-> FALSE, other |-> FALSE]

Plugins     == PluginsOf(manifest)
Entry       == Plugins[at]
Resolvers   == ResolversOf(manifest)
Known(name) == {r \in Resolvers : r.label = name}
IsResolved(entry) == entry.by \notin {ByPath, ByUrl}
Chunks(entry) == IF entry.modules = <<>> THEN <<Main>> ELSE entry.modules
ChunkNow    == <<Entry.artifact, Chunks(Entry)[part]>>

Init ==
  /\ session = "none" /\ manifest = NoManifest /\ pc = "closed"
  /\ at = 1 /\ part = 1 /\ asking = NobodyAsked /\ needs = {} /\ sessions = 0
  /\ runtime = FALSE /\ granted = {}
  /\ registry = [kind \in Kinds |-> {}] /\ slots = <<>> /\ local = NothingLocal
  /\ callback = NoView /\ callbackEnv = {} /\ backup = NoView /\ memo = NoMemo
  /\ env = {} /\ aliases = {} /\ label = NoLabel
  /\ report = <<>>
  /\ ModulesInit

Goes(to) == pc' = to

-----------------------------------------------------------------------------
(* Opening and closing                                                     *)

Begins(kind) ==
  /\ pc = "closed" /\ sessions < MaxSessions
  /\ session' = kind
  /\ manifest' \in Manifests
  /\ Goes("manifest")
  /\ UNCHANGED <<place, quest, granted, declared, resolver, windows, report, modules>>

\* fr_config_load_file to where the manifest is read. One written in Lua is run, in
\* a runtime opened for it (config_lua_load).
BeginLoad ==
  /\ Begins("load") /\ sessions' = sessions + 1
  /\ runtime' \in BOOLEAN

\* fr_cli_plugin_update up to the same: the one command that opens a runtime of
\* its own, and the only session of its process.
BeginUpdate ==
  /\ Begins("update") /\ sessions = 0 /\ sessions' = MaxSessions
  /\ runtime' = TRUE

\* fr_plugins_load up to its first entry, without one there is nothing to open for;
\* an update reads the same tables and then goes through the entries.
ReadPlugins ==
  /\ pc = "manifest"
  /\ IF Reads(manifest)
       THEN IF manifest.plugins # <<>>
              THEN Goes("entry") /\ runtime' = TRUE
              ELSE Goes(IF session = "load" THEN "overlays" ELSE "open") /\ UNCHANGED runtime
       ELSE Goes("failed") /\ UNCHANGED runtime
  /\ IF session = "load" THEN memo' = NoMemo /\ report' = <<>> ELSE UNCHANGED <<memo, report>>
  /\ UNCHANGED <<process, place, quest, granted, declared, callback, callbackEnv, backup, windows,
                 modules>>

\* apply_overlays and apply_pin_files: what they run opens a runtime where there is none yet.
OpenForScript ==
  /\ pc = "overlays" /\ ~runtime /\ runtime' = TRUE
  /\ UNCHANGED <<process, pc, place, quest, granted, declared, resolver, windows, modules, report>>

LoadEnds ==
  /\ pc = "overlays" /\ Goes("open")
  /\ UNCHANGED <<process, place, quest, lua, report>>

Ended == pc \in {"open", "failed"}

\* fr_session_close, a call at a time. An update ends with the same calls, the
\* registry last.
DestroyRegistry ==
  /\ \/ session = "load" /\ Ended /\ Goes("closing")
     \/ pc = "cleared" /\ Goes("closed")
  /\ registry' = [kind \in Kinds |-> {}]
  /\ UNCHANGED <<process, place, quest, runtime, granted, slots, local, resolver, windows, report,
                 modules>>

\* fr_lua_runtime_shutdown, with fr_lua_declare_reset.
ShutDown ==
  /\ pc = "closing" \/ (session = "update" /\ Ended)
  /\ Goes("clearing")
  /\ runtime' = FALSE
  /\ slots' = <<>> /\ callback' = NoView /\ callbackEnv' = {}
  /\ CloseModules
  /\ UNCHANGED <<process, place, quest, granted, registry, local, backup, memo, windows, report>>

\* fr_plugins_report_clear and fr_resolvers_clear.
Forget ==
  /\ pc = "clearing" /\ Goes(IF session = "load" THEN "closed" ELSE "cleared")
  /\ manifest' = NoManifest /\ at' = 1 /\ part' = 1
  /\ memo' = NoMemo /\ report' = <<>>
  /\ UNCHANGED <<session, sessions, quest, runtime, granted, declared, callback, callbackEnv, backup,
                 windows, modules>>

-----------------------------------------------------------------------------
(* fr_resolvers_use                                                        *)

QuestEnds == asking' = NobodyAsked /\ needs' = {}
Asks(r, after) == asking' = [of |-> r, then |-> after] /\ Goes("asking")
MemoOf(r) == <<r.label, r.source>>

\* is_the_loaded_resolver.
Remembered(r) == memo = MemoOf(r)

CallRemembered ==
  /\ pc = "asking" /\ Remembered(asking.of)
  /\ Goes("calling")
  /\ UNCHANGED <<process, place, quest, lua, report>>

\* fr_lua_verbs_push_env and fr_lua_declare_chunk_begin, inside the windows their caller sets.
ChunkBegins(view, bindings) ==
  /\ OpenModules(view, bindings)
  /\ backup' = callback /\ local' = NothingLocal
  /\ env' = Declared[view].env /\ granted' = Declared[view].uses

\* resolvers.c acquire, to where the resolver's chunk runs: one that says it
\* requires or exports anything is not a resolver.
LoadResolver ==
  /\ pc = "asking" /\ ~Remembered(asking.of)
  /\ LET view == ViewOf(asking.of.artifact)
     IN  /\ Opens(SourceOf(view)) /\ HasChunk(SourceOf(view), Main)
         /\ Declared[view].requires = <<>> /\ Declared[view].exports = {}
         /\ ChunkBegins(view, <<>>)
  /\ Goes("resolver")
  /\ UNCHANGED <<process, place, quest, runtime, registry, slots, callback, callbackEnv, memo,
                 aliases, label, report>>

\* Its chunk has run: fr_lua_declare_chunk_end, and remember_loaded.
ResolverLoaded ==
  /\ pc = "resolver" /\ calls = <<>>
  /\ Goes(IF local.resolver THEN "calling" ELSE "failed")
  /\ IF local.resolver THEN UNCHANGED quest ELSE QuestEnds
  /\ memo' = IF local.resolver THEN MemoOf(asking.of) ELSE memo
  /\ env' = {} /\ local' = NothingLocal /\ backup' = NoView
  /\ CloseModules
  /\ UNCHANGED <<process, place, runtime, granted, registry, slots, callback, callbackEnv, aliases,
                 label, report>>

\* fr_lua_resolver_call returned a url.
Answer ==
  /\ pc = "calling"
  /\ Goes(asking.then) /\ asking' = NobodyAsked
  /\ env' = {}
  /\ UNCHANGED <<process, place, needs, runtime, granted, declared, resolver, aliases, label, report,
                 modules>>

-----------------------------------------------------------------------------
(* fr_plugins_load_entry                                                   *)

\* unknown_resolver is among what Fails stands for.
AskForEntry ==
  /\ pc = "entry" /\ IsResolved(Entry)
  /\ \E r \in Known(Entry.by) :
       Asks(r, IF session = "load" THEN "acquired" ELSE "discarded")
  /\ UNCHANGED <<process, place, needs, lua, report>>

TakeEntry ==
  /\ pc = "entry" /\ ~IsResolved(Entry)
  /\ Goes(IF session = "load" THEN "acquired" ELSE "discarded")
  /\ UNCHANGED <<process, place, quest, lua, report>>

\* fr_plugins_update_cache: the artifact is forgotten, or is not the one that was
\* asked for, and on to the next entry.
DiscardEntry ==
  /\ pc = "discarded" \/ (pc = "entry" /\ session = "update")
  /\ IF at < Len(Plugins) THEN at' = at + 1 /\ Goes("entry") ELSE at' = at /\ Goes("open")
  /\ UNCHANGED <<process, part, quest, lua, report>>

RequiredBy(view) == DOMAIN Declared[view].requires
Listed(entry) == {<<entry.artifact, Chunks(entry)[k]>> : k \in DOMAIN Chunks(entry)}

\* collect_declared_aliases: on a line of several modules an override is one
\* module's, and which is known before any of them is loaded.
OverridesKnown(entry) ==
  DOMAIN entry.overrides \subseteq
    {Cut[alias] : alias \in UNION {RequiredBy(view) : view \in Listed(entry)}}

Scoped(entry, view) ==
  IF Len(entry.modules) > 1 THEN DOMAIN entry.overrides \cap RequiredBy(view)
                            ELSE DOMAIN entry.overrides

\* fr_plugins_acquire_source: a directory has no bytes to pin.
SourceAcquired ==
  /\ pc = "acquired"
  /\ Opens(Sources[Entry.artifact])
  /\ ~(Entry.pinned /\ Sources[Entry.artifact].kind = "directory")
  /\ Len(Entry.modules) > 1 /\ DOMAIN Entry.overrides # {} =>
       /\ \A view \in Listed(Entry) : HasChunk(Sources[Entry.artifact], view[2])
       /\ OverridesKnown(Entry)
  /\ part' = 1 /\ Goes("chunk")
  /\ UNCHANGED <<process, at, quest, lua, report>>

\* load_chunk to fr_plugin_deps_acquire, which asks a resolver for each override
\* that names one, and refuses one of an alias the chunk does not declare. What it
\* declares is read with a table that has no verbs (plugin_declaration.c).
ReadDeclaration ==
  /\ pc = "chunk" /\ HasChunk(Sources[Entry.artifact], ChunkNow[2])
  /\ Scoped(Entry, ChunkNow) \subseteq RequiredBy(ChunkNow)
  /\ needs' = {alias \in Scoped(Entry, ChunkNow) : IsResolved(Entry.overrides[alias])}
  /\ Goes("acquiring") /\ granted' = {}
  /\ UNCHANGED <<process, place, asking, runtime, declared, resolver, windows, modules, report>>

AskForDependency ==
  /\ pc = "acquiring"
  /\ \E alias \in needs :
       /\ needs' = needs \ {alias}
       /\ \E r \in Known(Entry.overrides[alias].by) : Asks(r, "acquiring")
  /\ UNCHANGED <<process, place, lua, report>>

BindingsOf(entry, view) ==
  [alias \in RequiredBy(view) |->
     IF alias \in Scoped(entry, view) THEN entry.overrides[alias].artifact
                                      ELSE Declared[view].requires[alias]]

\* What a manifest names was acquired. No artifact requires itself, through
\* however many others: the pins would have no beginning (PluginDeps), and no
\* override of these manifests leads back to the plugin it is of.
ASSUME SessionAssumption ==
  /\ MaxSlots \in Nat /\ Capacity \in Nat /\ MaxChunkToolchains \in Nat
  /\ MaxSessions \in Nat /\ Free \notin Toolchains \cup Aliases
  /\ \A view \in Views : Declared[view].env \subseteq Credentials
  /\ \A some \in Manifests : Reads(some) =>
       /\ some.plugins \in Seq({some.plugins[k] : k \in DOMAIN some.plugins})
       /\ \A r \in ResolversOf(some) : ViewOf(r.artifact) \in Views
       /\ \A k \in DOMAIN some.plugins :
            /\ Chunks(PluginOf(some.plugins[k])) \in Seq(STRING)
            /\ \A view \in Listed(PluginOf(some.plugins[k])) :
                 LET requires == BindingsOf(PluginOf(some.plugins[k]), view)
                 IN  /\ view \in Views /\ Targets(requires) \subseteq Views
                     /\ view \notin Libraries(requires)

\* Everything it requires is there: the windows are set and the chunk runs.
RunChunk ==
  /\ pc = "acquiring" /\ needs = {}
  /\ ChunkBegins(ChunkNow, BindingsOf(Entry, ChunkNow))
  /\ aliases' = RequiredBy(ChunkNow) /\ label' = Entry.label
  /\ Goes("running")
  /\ UNCHANGED <<process, place, quest, runtime, registry, slots, callback, callbackEnv, memo,
                 report>>

WindowsClose == env' = {} /\ aliases' = {} /\ label' = NoLabel

\* The chunk has run: the windows close and its row is reported.
ChunkLoaded ==
  /\ pc = "running" /\ calls = <<>>
  /\ WindowsClose /\ local' = NothingLocal /\ backup' = NoView
  /\ CloseModules
  /\ report' = Append(report, [of |-> ChunkNow, with |-> bound])
  /\ IF part < Len(Chunks(Entry)) THEN at' = at /\ part' = part + 1 /\ Goes("chunk")
     ELSE IF at < Len(Plugins) THEN at' = at + 1 /\ part' = 1 /\ Goes("entry")
     ELSE UNCHANGED <<place>> /\ Goes("overlays")
  /\ UNCHANGED <<process, quest, runtime, granted, registry, slots, callback, callbackEnv, memo>>

\* A chunk raises, of itself or in a call that is refused: what it displaced as
\* a resolver is put back (settle_resolver_callback).
RunsChunk == pc \in {"running", "resolver"}
Raises ==
  /\ Goes("failed") /\ QuestEnds
  /\ WindowsClose /\ local' = NothingLocal /\ backup' = NoView
  /\ callback' = IF local.resolver THEN backup ELSE callback
  /\ CloseModules
  /\ UNCHANGED <<process, place, runtime, granted, memo, report>>
ChunkRaises == RunsChunk /\ Raises /\ UNCHANGED <<registry, slots, callbackEnv>>

\* Anything else that goes wrong ends the load, and everything with it: a file
\* or a url that is not there, a pin that does not match, what does not read, a
\* resolver that is not declared or returns no url, a script that raises, a runtime
\* that is not to be had.
Fails ==
  /\ pc \in {"manifest", "overlays", "entry", "asking", "calling", "acquired", "chunk", "acquiring"}
  /\ Goes("failed") /\ QuestEnds
  /\ UNCHANGED <<process, place, lua, report>>

-----------------------------------------------------------------------------
(* What is declared, by whom                                               *)

\* Who may call the verbs: the environment of a plugin has them and that of a
\* library has not. From the chunk that is loaded; and, with nothing to tell them
\* from it, from the callback of the resolver that is asked and from the callbacks
\* of an open session, with the credentials of the slot each runs as or, once a task
\* ran one that generates (see Dispatch), with none.
Declarer(view, text, credentials, late) ==
  [chunk |-> view, text |-> text, env |-> credentials, late |-> late]
RunsScript == pc \in {"manifest", "overlays"} /\ runtime
CalledBack == UNION {registry[kind] : kind \in {"source", "toolchain", "task"}}
RunsWith(slot) == {slot.env} \cup IF slot.kind = "task" THEN {{}} ELSE {}
Declarers ==
  CASE RunsChunk      -> IF InLibrary THEN {} ELSE {Declarer(chunk, Running, env, FALSE)}
    [] pc = "calling" -> {Declarer(callback, callback, callbackEnv, TRUE)}
    [] pc = "open" /\ session = "load" ->
         UNION {{Declarer(slots[k].chunk, slots[k].chunk, credentials, TRUE) :
                   credentials \in RunsWith(slots[k])} : k \in CalledBack}
    [] OTHER -> {}
\* The scripts of the project have no plugin, and only daukle.source.
ScriptDeclarer == Declarer(NoView, NoView, {}, FALSE)
Plugged(by) == by \in Declarers /\ by.chunk # NoView

Full(kind) == Cardinality(registry[kind]) = Capacity

\* Mutant of NewSlot: the credentials of the chunk are not the slot's.
NewSlotBare(by, kind, name) ==
  [kind |-> kind, name |-> name, env |-> {}, chunk |-> by.chunk, text |-> by.text,
   late |-> by.late, owners |-> {}]

NewSlot(by, kind, name) ==
  [kind |-> kind, name |-> name, env |-> by.env, chunk |-> by.chunk, text |-> by.text,
   late |-> by.late, owners |-> {}]

\* What refuses a declaration ends the chunk; it ends the load too where a script or
\* the resolver that is asked made it, and in an open session only the callback.
Refused(left) ==
  /\ IF RunsChunk
       THEN Raises /\ UNCHANGED callbackEnv
       ELSE /\ local' = left
            /\ IF pc = "open" THEN UNCHANGED <<pc, quest>> ELSE Goes("failed") /\ QuestEnds
            /\ UNCHANGED <<process, place, runtime, granted, resolver, windows, report, modules>>
  /\ UNCHANGED registry

\* A capability is declared once, by no chunk that declared a resolver. The slot is
\* counted before the chunk or the registry is asked: one they have no room for is
\* refused with its slot taken. `left` is what local is then, `mark` otherwise.
Declares(slot, left, mark, room) ==
  /\ ~local.resolver
  /\ Len(slots) < MaxSlots
  /\ \A k \in DOMAIN slots : <<slots[k].kind, slots[k].name>> # <<slot.kind, slot.name>>
  /\ slots' = Append(slots, slot)
  /\ IF Full(slot.kind) \/ ~room
       THEN Refused(left)
       ELSE /\ registry' = [registry EXCEPT ![slot.kind] = @ \cup {Len(slots) + 1}]
            /\ local' = mark
            /\ UNCHANGED <<process, pc, place, quest, runtime, granted, resolver, windows, report,
                           modules>>

Other == [local EXCEPT !.other = TRUE]

DeclareSource(by, name) ==
  /\ by \in Declarers \/ (RunsScript /\ by = ScriptDeclarer)
  /\ Declares(NewSlot(by, "source", <<Free, name>>), Other, Other, TRUE)

\* A chunk keeps eight of them; where no chunk is loaded they are whoever's came since.
DeclareToolchain(by, name) ==
  /\ Plugged(by)
  /\ LET room == Cardinality(local.toolchains) < MaxChunkToolchains
         with == [Other EXCEPT !.toolchains = @ \cup {name}]
     IN  Declares(NewSlot(by, "toolchain", <<Free, name>>), IF room THEN with ELSE Other, with, room)

\* edge_owner_is_declared.
MayName(owner) == owner \in {Free} \cup local.toolchains \cup aliases

\* A task has its powers from the toolchain that is declared above it.
DeclareTask(by, owner, name, others) ==
  /\ Plugged(by)
  /\ local.toolchains = {} => local.publishers = 0 /\ granted \cap {"exec", "provision"} = {}
  /\ owner \in {Free} \cup local.toolchains
  /\ \A other \in others : MayName(other)
  /\ Declares([NewSlot(by, "task", <<owner, name>>) EXCEPT !.owners = others], Other, Other, TRUE)

\* A publisher is the task "publish:<name>", whoever else may be called publish.
DeclarePublisher(by, name) ==
  /\ Plugged(by)
  /\ Declares(NewSlot(by, "task", <<"publish", name>>), Other, [Other EXCEPT !.publishers = 1], TRUE)

\* One to a label, whichever of its chunks declares it; none without a label, which is
\* there while a chunk is loaded and never after.
DeclareMigrator(by, toolchain) ==
  /\ Plugged(by) /\ label # NoLabel /\ toolchain \in local.toolchains
  /\ Declares([NewSlot(by, "migrator", <<Free, label>>) EXCEPT !.owners = {toolchain}],
              Other, Other, TRUE)

DeclareTranslator(by, tool, id) ==
  /\ Plugged(by) /\ label # NoLabel
  /\ Declares(NewSlot(by, "translator", <<tool, id>>), Other, Other, TRUE)

\* Mutant of DeclareResolver: whoever declares one.
DeclareResolverAnywhere ==
  /\ RunsChunk /\ ~InLibrary /\ ~local.other /\ ~local.resolver
  /\ granted \cap {"exec", "tool", "provision"} = {}
  /\ callback' = chunk /\ callbackEnv' = env
  /\ local' = [local EXCEPT !.resolver = TRUE]
  /\ UNCHANGED <<process, pc, place, quest, runtime, granted, registry, slots, backup, memo,
                 windows, report, modules>>

\* Only a chunk acquired as a resolver declares one, and nothing else.
DeclareResolver ==
  /\ pc = "resolver" /\ ~InLibrary /\ ~local.other /\ ~local.resolver
  /\ granted \cap {"exec", "tool", "provision"} = {}
  /\ callback' = chunk /\ callbackEnv' = env
  /\ local' = [local EXCEPT !.resolver = TRUE]
  /\ UNCHANGED <<process, pc, place, quest, runtime, granted, registry, slots, backup, memo,
                 windows, report, modules>>

Requires ==
  /\ RunsChunk
  /\ \/ Return
     \/ \E name \in Names : RequireOwn(name) \/ \E alias \in Aliases : RequireAcross(alias, name)
  /\ UNCHANGED <<process, pc, place, quest, runtime, granted, declared, resolver, windows, report>>

Declaring ==
  \/ DeclareResolver
  \/ \E by \in Declarers \cup {ScriptDeclarer} :
       \/ \E name \in Ids :
            \/ DeclareSource(by, name) \/ DeclarePublisher(by, name)
            \/ \E tool \in Ids : DeclareTranslator(by, tool, name)
            \/ \E owner \in Toolchains \cup {Free}, others \in SUBSET (Toolchains \cup Aliases) :
                 DeclareTask(by, owner, name, others)
       \/ \E name \in Toolchains : DeclareToolchain(by, name) \/ DeclareMigrator(by, name)

Next ==
  \/ BeginLoad \/ BeginUpdate \/ ReadPlugins \/ OpenForScript \/ LoadEnds
  \/ DestroyRegistry \/ ShutDown \/ Forget
  \/ CallRemembered \/ LoadResolver \/ ResolverLoaded \/ Answer
  \/ AskForEntry \/ TakeEntry \/ DiscardEntry \/ SourceAcquired \/ ReadDeclaration
  \/ AskForDependency \/ RunChunk \/ ChunkLoaded \/ ChunkRaises \/ Fails
  \/ Requires \/ Declaring

Spec == Init /\ [][Next]_vars

-----------------------------------------------------------------------------
TypeOK ==
  /\ session \in {"none", "load", "update"}
  /\ runtime \in BOOLEAN /\ granted \in {{}} \cup {Declared[view].uses : view \in Views}
  /\ registry \in [Kinds -> SUBSET (1..MaxSlots)] /\ Len(slots) <= MaxSlots
  /\ callback \in Views \cup {NoView} /\ backup \in Views \cup {NoView}
  /\ callbackEnv \subseteq Credentials /\ env \subseteq Credentials
  /\ aliases \subseteq Aliases
  /\ ModulesOK

\* The callback that answers for a resolver is the one its own chunk declared,
\* with the credentials that chunk declared, whichever resolvers were loaded
\* since and whatever the plugins between them ran (resolvers.c: the memo
\* answers "is the callback in the runtime this entry's own?").
ResolverIsItsOwn ==
  pc = "calling" =>
    /\ callback = ViewOf(asking.of.artifact)
    /\ callbackEnv = Declared[callback].env

\* What the registry holds can be called, for as long as it holds it, and is
\* what was declared: its slot is there, in an open runtime. A script of the project
\* declared a source, without credentials. Otherwise the plugin's own text did, and the
\* slot has no credential its chunk did not declare; where the chunk did it while it
\* was loaded, all it declared (config_declare_task.c: "the allowlist was unreachable
\* from the one place it governs"), and owners that are toolchains the same chunk
\* declared before it or plugins that chunk requires. (An update drops its registry
\* after the runtime and asks it nothing in between.)
ToolchainsAbove(k) ==
  {slots[j].name[2] : j \in {j \in 1..k - 1 : slots[j].kind = "toolchain"
                                               /\ slots[j].chunk = slots[k].chunk
                                               /\ ~slots[j].late}}
Scripted(slot) == slot.chunk = NoView /\ slot.kind = "source" /\ slot.env = {}
RegisteredIsWhole ==
  ~(session = "update" /\ pc \in {"clearing", "cleared"}) =>
  \A kind \in Kinds : \A k \in registry[kind] :
    /\ runtime /\ k \in DOMAIN slots
    /\ slots[k].kind = kind
    /\ \/ Scripted(slots[k])
       \/ /\ slots[k].text = slots[k].chunk
          /\ slots[k].env \subseteq Declared[slots[k].chunk].env
          /\ \/ slots[k].late
             \/ /\ slots[k].env = Declared[slots[k].chunk].env
                /\ slots[k].owners \subseteq ToolchainsAbove(k) \cup RequiredBy(slots[k].chunk)

\* "a plugin may name a task of a toolchain it declares or of a plugin it requires"
\* (config_declare_task.c, of the tasks a task depends on).
OwnersAreItsOwn ==
  pc = "open" =>
    \A k \in registry["task"], owner \in Toolchains \cup Aliases : owner \in slots[k].owners =>
      \/ owner \in RequiredBy(slots[k].chunk)
      \/ \E j \in 1..k - 1 : /\ slots[j].kind = "toolchain" /\ slots[j].name[2] = owner
                            /\ slots[j].chunk = slots[k].chunk
=============================================================================
