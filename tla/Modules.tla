------------------------------ MODULE Modules ------------------------------
(***************************************************************************)
(* daukle.require while a plugin's chunk is loaded (src/lua/lua_modules.c,   *)
(* over src/plugin/plugin_deps.c). A module of the plugin itself, or of the  *)
(* artifact the requiring module came from, goes by its bare name; one of    *)
(* another artifact by the alias its requirer declared. What a module        *)
(* returned is kept for as long as the chunk is loaded. A text requires what *)
(* it pleases; a require that is refused raises, and nothing in a chunk can  *)
(* catch that, so what refuses is here what is not enabled.                  *)
(***************************************************************************)
EXTENDS PluginSource

CONSTANTS Declared,                 \* what the chunk of each view declares
          Aliases, Names,           \* what a require may name
          MaxModules,               \* FR_PLUGIN_MODULE_LIMIT
          MaxDepth                  \* FR_PLUGIN_DEPS_MAX_DEPTH

\* A view is a chunk of an artifact: whose requires its texts may use. That of
\* an artifact acquired for another is of its main chunk.
Views == DOMAIN Declared
NoView == <<>>
ViewOf(artifact) == <<artifact, Main>>
SourceOf(view) == Sources[view[1]]
Bare == ""                          \* the alias of a bare name

\* Whatever is required was acquired (PluginDeps), and says itself what it requires.
Targets(requires) == {ViewOf(requires[alias]) : alias \in DOMAIN requires}
ASSUME ModulesAssumption ==
  /\ MaxModules \in Nat /\ MaxDepth \in Nat
  /\ NoView \notin Views /\ Bare \notin Aliases
  /\ \A view \in Views : /\ DOMAIN Declared[view].requires \subseteq Aliases
                          /\ Targets(Declared[view].requires) \subseteq Views

\* The views whose texts a chunk with these requires can come to run.
Closed(views) == \A view \in views : Targets(Declared[view].requires) \subseteq views
Libraries(requires) ==
  {view \in Views : \A views \in SUBSET Views :
                      Targets(requires) \subseteq views /\ Closed(views) => view \in views}

VARIABLES chunk,                    \* whose chunk is loaded, or NoView
          bound,                    \* loading_deps: the artifact of each alias
          kept,                     \* module_slots
          owners,                   \* owner_stack: views
          calls,                    \* the modules that run, the innermost last
          given                     \* the value handed over last: whose, to whom
modules == <<chunk, bound, kept, owners, calls, given>>

Slot == [owner : Views \cup {NoView}, name : Names, running : BOOLEAN]
\* A module that runs: whose text it is, whether in the library environment, its
\* slot, and whether it was reached across plugins; and who asked for it, how.
Call == [text : Views, library : BOOLEAN, slot : 1..MaxModules, across : BOOLEAN,
         asker : Views, alias : Aliases \cup {Bare}]
NothingGiven == [asker |-> NoView, alias |-> Bare, name |-> "", giver |-> NoView, whole |-> TRUE]

ModulesInit ==
  /\ chunk = NoView /\ bound = <<>>
  /\ kept = <<>> /\ owners = <<>> /\ calls = <<>> /\ given = NothingGiven

\* fr_lua_modules_open and fr_lua_modules_close.
OpenModules(view, bindings) ==
  /\ chunk' = view /\ bound' = bindings
  /\ kept' = <<>> /\ owners' = <<>> /\ calls' = <<>> /\ given' = NothingGiven
CloseModules == OpenModules(NoView, <<>>)

Innermost == calls[Len(calls)]
Running   == IF calls = <<>> THEN chunk ELSE Innermost.text      \* whose text runs
InLibrary == calls # <<>> /\ Innermost.library
Owner     == IF owners = <<>> THEN NoView ELSE owners[Len(owners)]     \* current_owner
Asking    == IF Owner = NoView THEN chunk ELSE Owner
Bindings(view) == IF view = chunk /\ Owner = NoView THEN bound ELSE Declared[view].requires

\* Mutant of KeptAs: a module that runs is not found.
KeptAsReturned(owner, name) ==
  {k \in DOMAIN kept : kept[k].owner = owner /\ kept[k].name = name /\ ~kept[k].running}

\* module_slot_for.
KeptAs(owner, name) == {k \in DOMAIN kept : kept[k].owner = owner /\ kept[k].name = name}

HandOver(asker, alias, name, slot) ==
  given' = [asker |-> asker, alias |-> alias, name |-> name,
            giver |-> IF slot.owner = NoView THEN chunk ELSE slot.owner,
            whole |-> ~slot.running]

\* A module that has returned is not run again; one that runs is a cycle.
GiveKept(owner, alias, name) ==
  /\ \E k \in KeptAs(owner, name) :
       ~kept[k].running /\ HandOver(Running, alias, name, kept[k])
  /\ UNCHANGED <<chunk, bound, kept, owners, calls>>

\* claim_module_slot, and run_module up to the module's first statement.
Runs(owner, alias, name, text, library, across) ==
  /\ KeptAs(owner, name) = {} /\ Len(kept) < MaxModules
  /\ kept' = Append(kept, [owner |-> owner, name |-> name, running |-> TRUE])
  /\ calls' = Append(calls, [text |-> text, library |-> library, slot |-> Len(kept) + 1,
                             across |-> across, asker |-> Running, alias |-> alias])
  /\ UNCHANGED <<chunk, bound, given>>

\* require_own_module: a module of a library is a library's.
RequireOwn(name) ==
  /\ Carries(SourceOf(Asking), name)
  /\ \/ GiveKept(Owner, Bare, name)
     \/ Runs(Owner, Bare, name, Asking, Owner # NoView, FALSE) /\ UNCHANGED owners

\* require_across_plugins, with fr_plugin_deps_member.
RequireAcross(alias, name) ==
  /\ alias \in DOMAIN Bindings(Asking)
  /\ LET there == ViewOf(Bindings(Asking)[alias])
     IN  /\ name \in Declared[there].exports /\ Carries(SourceOf(there), name)
         /\ \/ GiveKept(there, alias, name)
            \/ /\ Len(owners) < MaxDepth
               /\ Runs(there, alias, name, there, TRUE, TRUE)
               /\ owners' = Append(owners, there)

\* Mutant of Return: the owner stays, once a library's module returned.
ReturnStaying ==
  /\ calls # <<>>
  /\ LET done == Innermost
         slot == [kept[done.slot] EXCEPT !.running = FALSE]
     IN  /\ kept' = [kept EXCEPT ![done.slot] = slot]
         /\ calls' = SubSeq(calls, 1, Len(calls) - 1)
         /\ HandOver(done.asker, done.alias, slot.name, slot)
  /\ UNCHANGED <<chunk, bound, owners>>

\* The end of run_module, and of require_across_plugins.
Return ==
  /\ calls # <<>>
  /\ LET done == Innermost
         slot == [kept[done.slot] EXCEPT !.running = FALSE]
     IN  /\ kept' = [kept EXCEPT ![done.slot] = slot]
         /\ calls' = SubSeq(calls, 1, Len(calls) - 1)
         /\ owners' = IF done.across THEN SubSeq(owners, 1, Len(owners) - 1) ELSE owners
         /\ HandOver(done.asker, done.alias, slot.name, slot)
  /\ UNCHANGED <<chunk, bound>>

-----------------------------------------------------------------------------
ModulesOK ==
  /\ chunk \in Views \cup {NoView}
  /\ kept \in Seq(Slot) /\ Len(kept) <= MaxModules
  /\ owners \in Seq(Views) /\ Len(owners) <= MaxDepth
  /\ calls \in Seq(Call)

\* A require is answered by the module its own text means, whatever requires ran
\* around it and in whatever order: a bare name by its own artifact's, an alias
\* by what that artifact declared and only by what is exported there; and by a
\* module that has run to its end (lua_modules.c: "a module's requires belong to
\* the plugin that owns the module, never to whoever asked for it").
RequiresReachTheirOwn ==
  given # NothingGiven =>
    /\ given.whole
    /\ given.alias = Bare => given.giver = given.asker
    /\ given.alias # Bare =>
         LET bindings == IF given.asker = chunk THEN bound ELSE Declared[given.asker].requires
         IN  /\ given.alias \in DOMAIN bindings
             /\ given.giver = ViewOf(bindings[given.alias])
             /\ given.name \in Declared[given.giver].exports

\* No module is run twice in a load, also when it is required again while it
\* runs; and only the plugin's own texts run with what the plugin was granted.
EachRunsOnce ==
  /\ \A j, k \in DOMAIN kept :
       kept[j].owner = kept[k].owner /\ kept[j].name = kept[k].name => j = k
  /\ \A k \in DOMAIN calls : calls[k].library <=> calls[k].text # chunk
=============================================================================
