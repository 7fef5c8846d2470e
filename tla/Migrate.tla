------------------------------ MODULE Migrate ------------------------------
(***************************************************************************)
(* daukle migrate, migrate --done and clean (src/migrate/migrate.c,        *)
(* migrate_sessions.c, migrate_finish.c, report.c, cli/cli_migrate.c,      *)
(* project/derived_paths.c): detect what builds a project, ask each        *)
(* plugin's migrator, write a manifest, prove that the new build makes     *)
(* what the old one made, and only then move the old build's files aside.  *)
(*                                                                         *)
(* A run can stop at any step: by a blocker, by an error, or because the   *)
(* process dies.  Between runs the user may delete the manifest, put an    *)
(* old file back, finish the migration or clean.                           *)
(***************************************************************************)
EXTENDS Catalog, Detect, Merge, Answer, ProofCompare

CONSTANTS
  Originals,          \* the files of the project before any migration
  Found,              \* what the catalogs' patterns find in a file
  Order,              \* the directories in the order strcmp gives them
  CatalogLists, Withs,  \* what the user may pass: <<environment, --catalog>>, --with
  Migrator,           \* plugin id -> the [tool, toolchain] it declares, or Missing
  Translators,        \* the [label, tool, id] the plugins declare
  Answers,            \* <<plugin id, dir>> -> what its migrator may answer (Malformed: it raised)
  Translations,       \* foreign id -> what a translator may answer
  OldOutputs, NewOutputs,   \* what a build may leave in an artifact's place
  Usual, MaxName,     \* the names that may stand in a task's name, FR_MIGRATE_INSTANCE_SIZE
  ProjectName,
  MaxRuns             \* bound on the commands given

(***************************************************************************)
(* What may be given: answers whose fields have some shape, lists of       *)
(* catalogs, artifacts that can be read, and an order of every directory   *)
(* a project may have.                                                     *)
(***************************************************************************)
IsList(value) == value \in Seq({value[i] : i \in DOMAIN value})
IsListOrNone(field) == field \in {Missing, Malformed} \/ IsList(field)
IsDocument(doc) ==
  /\ IsFiniteSet(DOMAIN doc) /\ \A p \in DOMAIN doc : doc[p] # Nothing
  /\ \A p \in DOMAIN doc : /\ p \in Seq(STRING) \ {<<>>}
                           /\ \A n \in 1..Len(p) : SubSeq(p, 1, n) \in DOMAIN doc
IsTranslation(answer) ==
  /\ answer.manifest \in {Missing, Malformed} \/ IsDocument(answer.manifest)
  /\ IsListOrNone(answer.blockers)
  /\ IsListOrNone(answer.files)
  /\ answer.files \notin {Missing, Malformed} =>
       \A f \in Elements(answer.files) :
         f.path \in Seq(STRING) /\ f.text \notin {Malformed, Unreadable}
IsAnswer(answer) ==
  /\ IsTranslation(answer)
  /\ IsListOrNone(answer.foreign) /\ IsListOrNone(answer.owned)
  /\ answer.owned \notin {Missing, Malformed} => Elements(answer.owned) \subseteq Seq(STRING)
  /\ answer.proof \notin {Missing, Malformed} =>
       /\ answer.proof.compare # Missing /\ IsList(answer.proof.compare)
       /\ \A c \in Elements(answer.proof.compare) : {c.old, c.new} \subseteq Seq(STRING)
IsCatalogList(list) ==
  IsList(list) /\ \A n \in 1..Len(list) : IsListOrNone(list[n].body)

Given == (UNION {Answers[k] : k \in DOMAIN Answers}) \ {Malformed}
GivenTranslations == (UNION {Translations[id] : id \in DOMAIN Translations}) \ {Malformed}
CarriedBy(answer) ==
  IF answer.files \in {Missing, Malformed} THEN {} ELSE {f.path : f \in Elements(answer.files)}
BuiltFor(answer) ==
  IF answer.proof \in {Missing, Malformed} THEN {}
  ELSE UNION {{c.old, c.new} : c \in Elements(answer.proof.compare)}
\* Where a file may come to be.
Places ==
  Originals \cup (UNION {CarriedBy(a) : a \in Given \cup GivenTranslations})
            \cup (UNION {BuiltFor(a) : a \in Given})

ASSUME MigrateAssumption ==
  /\ MaxRuns \in Nat /\ MaxDifferences \in Nat
  /\ IsFiniteSet(Originals) /\ Originals \subseteq Seq(STRING)
  /\ \A lists \in CatalogLists : IsCatalogList(lists[1]) /\ IsCatalogList(lists[2])
  /\ \A answer \in Given : IsAnswer(answer)
  /\ \A answer \in GivenTranslations : IsTranslation(answer)
  /\ {Unreadable, Malformed} \cap (OldOutputs \cup NewOutputs) = {}
  /\ IsList(Order)
  /\ \E m \in 1..Len(Order) : Order[m] = <<>>
  /\ \A path \in Places : \A n \in 1..(Len(path) - 1) :
       \E m \in 1..Len(Order) : Order[m] = SubSeq(path, 1, n)

VARIABLES
  disk,        \* path -> content: the project's files
  old,         \* path -> content: build/daukle/migrate/old
  manifest,    \* daukle.toml: a document, Missing, or Malformed when its write failed
  report,      \* what --report holds: [outcome, said], said being why two artifacts differ
  pc, runs,
  plugins,     \* the catalogs' plugins
  detections, considered, kept, foreign, blockers, merged,   \* fr_migrate_state
  turn         \* where the loop of this step stands

memory == <<plugins, detections, considered, kept, foreign, blockers, merged>>
migrateVars == <<disk, old, manifest, report, pc, runs, memory, turn>>

(***************************************************************************)
(* The file system.                                                        *)
(***************************************************************************)
NoFiles == [p \in {} |-> Missing]
Below(fs, path) == {p \in DOMAIN fs : p = path \/ Above(path, p)}
Exists(fs, path) == Below(fs, path) # {}
Content(fs, path) == IF path \in DOMAIN fs THEN fs[path] ELSE Unreadable
Put(fs, path, content) == [p \in DOMAIN fs \cup {path} |-> IF p = path THEN content ELSE fs[p]]
Keep(fs, paths) == [p \in paths |-> fs[p]]

Project ==
  [files |-> DOMAIN disk,
   dirs |-> UNION {{SubSeq(p, 1, n) : n \in 1..(Len(p) - 1)} : p \in DOMAIN disk},
   found |-> [p \in DOMAIN disk |-> IF p \in DOMAIN Found THEN Found[p] ELSE {}]]

(***************************************************************************)
(* What the state of a run says.                                           *)
(***************************************************************************)
Pinned(i) == plugins[i].asset # Missing

\* fr_migrate_consider, of the plugins of a catalog.
Consider(from, list, i) ==
  IF \E n \in 1..Len(list) : from[list[n]].id = from[i].id THEN list ELSE Append(list, i)

Instances == {kept[n].instance : n \in 1..Len(kept)}
Owned(k) == IF k.answer.owned = Missing THEN <<>> ELSE k.answer.owned
AllOwned == FlattenSeq([n \in 1..Len(kept) |-> Owned(kept[n])])
FilesOf(answer) == IF answer.files = Missing THEN <<>> ELSE answer.files
AllFiles ==
  FlattenSeq([n \in 1..Len(kept) |-> FilesOf(kept[n].answer)])
    \o FlattenSeq([n \in 1..Len(foreign) |->
         IF foreign[n].translation = Missing THEN <<>> ELSE FilesOf(foreign[n].translation)])
Comparisons == FlattenSeq([n \in 1..Len(kept) |-> kept[n].answer.proof.compare])

\* merge_answers merges the kept answers first and the translations after them.
FragmentOf(answer) == IF answer = Missing THEN Missing ELSE answer.manifest
Fragments ==
  [n \in 1..(Len(kept) + Len(foreign)) |->
     FragmentOf(IF n <= Len(kept) THEN kept[n].answer ELSE foreign[n - Len(kept)].translation)]

MigrateInit ==
  /\ disk = [p \in Originals |-> "original"]
  /\ old = NoFiles
  /\ manifest = Missing
  /\ report = [outcome |-> "none", said |-> {}]
  /\ pc = "idle" /\ runs = 0 /\ turn = 1
  /\ plugins = <<>> /\ detections = <<>> /\ considered = <<>>
  /\ kept = <<>> /\ foreign = <<>> /\ blockers = 0 /\ merged = <<>>

\* Every end of a run that lives writes the report (fr_migrate_report_write, outcome_name).
End(outcome) == pc' = "idle" /\ turn' = 1 /\ report' = [outcome |-> outcome, said |-> {}]
Goto(step) == pc' = step /\ turn' = 1 /\ UNCHANGED report
Next1 == pc' = pc /\ turn' = turn + 1 /\ UNCHANGED report
DiskStays == UNCHANGED <<disk, old, manifest>>

(***************************************************************************)
(* fr_migrate_run up to fr_detect: nothing here writes.                    *)
(***************************************************************************)
FirstConsidered(from, found) ==
  LET list[n \in 0..Len(found)] ==
        IF n = 0 THEN <<>> ELSE Consider(from, list[n - 1], found[n].plugin)
  IN list[Len(found)]

Start(environment, flags, with) ==
  /\ pc = "idle" /\ runs < MaxRuns
  /\ runs' = runs + 1
  /\ DiskStays
  /\ kept' = <<>> /\ foreign' = <<>> /\ merged' = <<>>
  /\ \E works \in BOOLEAN :         \* FALSE: no memory, or a pattern Lua refuses
     LET catalogs == Locations(environment, flags)
         loaded == Load(catalogs)
         seen == Detected(Project, loaded.plugins, with, Order)
         list == FirstConsidered(loaded.plugins, seen.detections)
         found == works /\ manifest = Missing /\ catalogs # <<>> /\ loaded.ok /\ seen.ok
     IN IF ~found \/ seen.detections = <<>>
        THEN /\ End(IF found THEN "undetected" ELSE "error")
             /\ plugins' = <<>> /\ detections' = <<>> /\ considered' = <<>> /\ blockers' = 0
        ELSE /\ pc' = "migrators" /\ turn' = 1 /\ report' = [outcome |-> "empty", said |-> {}]
             /\ plugins' = loaded.plugins
             /\ detections' = seen.detections
             /\ considered' = list
             /\ blockers' = Cardinality({n \in 1..Len(list) : loaded.plugins[list[n]].asset = Missing})

(***************************************************************************)
(* open_session loads every plugin that is considered and pinned. Two that *)
(* declare one translator, or one toolchain, do not load together          *)
(* (fr_registry_add_translator, fr_registry_add_toolchain).                *)
(***************************************************************************)
Loaded == {i \in ToSet(considered) : Pinned(i)}
Offered == {t \in Translators : \E i \in Loaded : plugins[i].id = t.label}
Clash ==
  \/ \E s, t \in Offered : s.label # t.label /\ s.tool = t.tool /\ s.id = t.id
  \/ \E i, j \in {i \in Loaded : Migrator[plugins[i].id] # Missing} :
       i # j /\ Migrator[plugins[i].id].toolchain = Migrator[plugins[j].id].toolchain

SessionFails ==      \* for that, or because a plugin is not to be had
  /\ pc \in {"migrators", "translators"} /\ turn = 1
  /\ End("error") /\ DiskStays /\ UNCHANGED <<runs, memory>>

(***************************************************************************)
(* Session A: one migrator after another, over a list that grows.          *)
(***************************************************************************)
\* name_instance: "/" becomes "-", so two directories may ask for one name.
NameOf(toolchain, dir) == FoldLeft(LAMBDA name, part : name \o "-" \o part, toolchain, dir)
Nameable(toolchain, dir) ==
  Len(NameOf(toolchain, dir)) < MaxName /\ {toolchain} \cup ToSet(dir) \subseteq Usual

\* run_migrator, name_instance
Runnable(id, dir) ==
  /\ Migrator[id] # Missing
  /\ Nameable(Migrator[id].toolchain, dir)
  /\ NameOf(Migrator[id].toolchain, dir) \notin Instances

\* add_handed_instances, with fr_detections_add's refusal of what is already there.
Handed(list, plugin, dirs) ==
  FoldLeft(LAMBDA acc, dir : LET d == [plugin |-> plugin, dir |-> dir]
                             IN IF d \in ToSet(acc) THEN acc ELSE Append(acc, d),
           list, dirs)

\* One that is asked of a directory it has no answer for raises.
AnswersOf(id, dir) ==
  IF <<id, dir>> \in DOMAIN Answers THEN Answers[id, dir] ELSE {Malformed}

KeepAnswer(d, answer) ==
  LET migrator == Migrator[plugins[d.plugin].id]
      handed == IF answer.instances = Missing THEN <<>> ELSE answer.instances
  IN /\ kept' = Append(kept, [label |-> plugins[d.plugin].id, tool |-> migrator.tool,
                              toolchain |-> migrator.toolchain,
                              instance |-> NameOf(migrator.toolchain, d.dir),
                              dir |-> d.dir, answer |-> answer])
     /\ blockers' = blockers + BlockersOf(answer)
     /\ detections' = Handed(detections, d.plugin, handed)

AskMigrator ==
  /\ pc = "migrators" /\ ~Clash /\ turn <= Len(detections)
  /\ DiskStays /\ UNCHANGED <<runs, plugins, considered, foreign, merged>>
  /\ LET d == detections[turn]
         id == plugins[d.plugin].id
     IN \/ ~Pinned(d.plugin) /\ Next1 /\ UNCHANGED <<kept, blockers, detections>>
        \/ /\ Pinned(d.plugin) /\ ~Runnable(id, d.dir)
           /\ blockers' = blockers + 1
           /\ Next1 /\ UNCHANGED <<kept, detections>>
        \/ /\ Pinned(d.plugin) /\ Runnable(id, d.dir)
           /\ \E answer \in AnswersOf(id, d.dir) :
                IF \/ answer = Malformed
                   \/ ~IsWell(answer)
                   \/ \E dir \in Elements(answer.instances) : ~Above(d.dir, dir)
                THEN End("error") /\ UNCHANGED <<kept, blockers, detections>>
                ELSE KeepAnswer(d, answer) /\ Next1

(***************************************************************************)
(* Pairing each foreign plugin with the one catalog plugin that claims it. *)
(***************************************************************************)
Claimants(tool, f) == {i \in 1..Len(plugins) : <<tool, f.kind, f.id>> \in plugins[i].replaces}

Reported ==
  FlattenSeq([n \in 1..Len(kept) |->
    [m \in 1..Len(IF kept[n].answer.foreign = Missing THEN <<>> ELSE kept[n].answer.foreign) |->
       [kept |-> n, plugin |-> kept[n].answer.foreign[m]]]])

Unclaimed(r) == Cardinality(Claimants(kept[r.kept].tool, r.plugin)) # 1
Replacer(r) == CHOOSE i \in Claimants(kept[r.kept].tool, r.plugin) : TRUE

\* claim_foreign, record_foreign
Claim(so, r) ==
  IF Unclaimed(r) THEN so
  ELSE [foreign |-> Append(so.foreign, [kept |-> r.kept, id |-> r.plugin.id,
                                        replacer |-> Replacer(r), translation |-> Missing]),
        considered |-> Consider(plugins, so.considered, Replacer(r))]
Collected ==
  LET collect[n \in 0..Len(Reported)] ==
        IF n = 0 THEN [foreign |-> <<>>, considered |-> considered]
        ELSE Claim(collect[n - 1], Reported[n])
  IN collect[Len(Reported)]

CollectForeign ==
  /\ pc = "migrators" /\ ~Clash /\ turn > Len(detections)
  /\ foreign' = Collected.foreign
  /\ considered' = Collected.considered
  /\ blockers' = blockers + Cardinality({n \in 1..Len(Reported) : Unclaimed(Reported[n])})
                   + Cardinality({n \in (Len(considered) + 1)..Len(considered') : ~Pinned(considered'[n])})
  /\ Goto("translators")
  /\ DiskStays /\ UNCHANGED <<runs, plugins, detections, kept, merged>>

(***************************************************************************)
(* Session B: every foreign plugin to the translator of its replacer.      *)
(***************************************************************************)
TranslationsOf(id) == IF id \in DOMAIN Translations THEN Translations[id] ELSE {Malformed}

Translate ==
  /\ pc = "translators" /\ ~Clash /\ turn <= Len(foreign)
  /\ DiskStays /\ UNCHANGED <<runs, plugins, detections, considered, kept, merged>>
  /\ LET f == foreign[turn]
         declared == [label |-> plugins[f.replacer].id, tool |-> kept[f.kept].tool, id |-> f.id]
     IN \/ ~Pinned(f.replacer) /\ Next1 /\ UNCHANGED <<foreign, blockers>>
        \/ /\ Pinned(f.replacer) /\ declared \notin Offered
           /\ blockers' = blockers + 1 /\ Next1 /\ UNCHANGED foreign
        \/ /\ Pinned(f.replacer) /\ declared \in Offered
           /\ \E answer \in TranslationsOf(f.id) :
                IF answer = Malformed \/ ~IsWellTranslated(answer) \/ RenamesDetected(answer, Instances)
                THEN End("error") /\ UNCHANGED <<foreign, blockers>>
                ELSE /\ foreign' = [foreign EXCEPT ![turn].translation = answer]
                     /\ blockers' = blockers + BlockersIn(answer)
                     /\ Next1

(***************************************************************************)
(* fr_migrate_assemble: every answer into one manifest, then core's keys.  *)
(***************************************************************************)
MergeFragment(so, fragment) ==
  IF fragment = Missing THEN so
  ELSE [doc |-> Merged(so.doc, fragment),
        collisions |-> so.collisions + Cardinality(Collisions(so.doc, fragment))]
MergedAll ==
  LET so[n \in 0..Len(Fragments)] ==
        IF n = 0 THEN [doc |-> [p \in {} |-> Table], collisions |-> 0]
        ELSE MergeFragment(so[n - 1], Fragments[n])
  IN so[Len(Fragments)]

\* record_core_keys: the document after each instance, and after every plugin that is pinned.
InstancesSet(doc) ==
  LET so[n \in 0..Len(kept)] == IF n = 0 THEN doc ELSE SetInstance(so[n - 1], kept[n])
  IN so
CanSetInstances(doc) ==
  \A n \in 1..Len(kept) : CanSetInstance(InstancesSet(doc)[n - 1], kept[n])
AddPinned(doc, i) == IF Pinned(i) THEN AddPlugin(doc, plugins[i]) ELSE doc
WithPlugins(doc) ==
  LET so[n \in 0..Len(considered)] ==
        IF n = 0 THEN doc ELSE AddPinned(so[n - 1], considered[n])
  IN so[Len(considered)]
Assembled(doc) == WithPlugins(FillDefaults(InstancesSet(doc)[Len(kept)], ProjectName))

Assemble ==
  /\ pc = "translators" /\ ~Clash /\ turn > Len(foreign)
  /\ DiskStays /\ UNCHANGED <<runs, plugins, detections, considered, kept, foreign>>
  /\ blockers' = blockers + MergedAll.collisions
  /\ IF ~CanSetInstances(MergedAll.doc)
     THEN End("error") /\ UNCHANGED merged
     ELSE /\ merged' = Assembled(MergedAll.doc)
          /\ IF blockers' > 0 THEN End("blocked") ELSE Goto("old build")

BuildOld ==
  /\ pc = "old build" /\ turn <= Len(kept)
  /\ UNCHANGED <<old, manifest, runs, memory>>
  /\ LET compare == kept[turn].answer.proof.compare
         outputs == {compare[n].old : n \in 1..Len(compare)}
     IN \/ \E made \in [outputs -> OldOutputs] :
             disk' = [p \in DOMAIN disk \cup outputs |-> IF p \in outputs THEN made[p] ELSE disk[p]]
             /\ Next1
        \/ End("error") /\ UNCHANGED disk

(***************************************************************************)
(* fr_migrate_check_owned: nothing is written when a path cannot be moved. *)
(***************************************************************************)
Nested(left, right) == Starts(Folded(left), Folded(right)) \/ Starts(Folded(right), Folded(left))
\* Mutant: what an earlier run moved aside is not looked at.
RefusedWithoutOld(n) ==
  ~Exists(disk, AllOwned[n]) \/ \E m \in 1..(n - 1) : Nested(AllOwned[m], AllOwned[n])

Refused(n) ==
  \/ ~Exists(disk, AllOwned[n])
  \/ \E m \in 1..(n - 1) : Nested(AllOwned[m], AllOwned[n])
  \/ Exists(old, AllOwned[n])

CheckOwned ==
  /\ pc = "old build" /\ turn > Len(kept)
  /\ DiskStays /\ UNCHANGED <<runs, plugins, detections, considered, kept, foreign, merged>>
  /\ \/ blockers' = Cardinality({n \in 1..Len(AllOwned) : Refused(n)})
     \/ blockers' = 1       \* build/daukle/migrate/old is reached through a link
  /\ IF blockers' > 0 THEN End("blocked") ELSE Goto("manifest")

(***************************************************************************)
(* fr_migrate_finish.                                                      *)
(***************************************************************************)
WriteManifest ==
  /\ pc = "manifest"
  /\ UNCHANGED <<disk, old, runs, memory>>
  /\ \/ manifest' = merged /\ Goto("files")
     \/ manifest' \in {Missing, Malformed} /\ End("error")

\* Mutant: a carried file that cannot be written is passed over.
WriteFilePassingOver ==
  /\ pc = "files" /\ turn <= Len(AllFiles)
  /\ UNCHANGED <<old, manifest, runs, memory>>
  /\ Next1
  /\ UNCHANGED disk \/ disk' = Put(disk, AllFiles[turn].path, AllFiles[turn].text)

WriteFile ==
  /\ pc = "files" /\ turn <= Len(AllFiles)
  /\ UNCHANGED <<old, manifest, runs, memory>>
  /\ \/ disk' = Put(disk, AllFiles[turn].path, AllFiles[turn].text) /\ Next1
     \/ (UNCHANGED disk \/ disk' = Put(disk, AllFiles[turn].path, Malformed)) /\ End("error")

FilesWritten ==
  /\ pc = "files" /\ turn > Len(AllFiles)
  /\ Goto("proof") /\ DiskStays /\ UNCHANGED <<runs, memory>>

\* run_proofs: a new build that fails is an answer, not an error.
RunProof ==
  /\ pc = "proof" /\ turn <= Len(kept)
  /\ UNCHANGED <<old, manifest, runs, memory>>
  /\ LET compare == kept[turn].answer.proof.compare
         outputs == {compare[n].new : n \in 1..Len(compare)}
     IN \/ \E made \in [outputs -> NewOutputs] :
             disk' = [p \in DOMAIN disk \cup outputs |-> IF p \in outputs THEN made[p] ELSE disk[p]]
             /\ Next1
        \/ End("unproved") /\ UNCHANGED disk

SameAll ==
  \A n \in 1..Len(Comparisons) :
     Same(Content(disk, Comparisons[n].old), Content(disk, Comparisons[n].new), Comparisons[n].as)

Said ==
  UNION {Explained(Content(disk, Comparisons[n].old), Content(disk, Comparisons[n].new), Comparisons[n].as) :
         n \in 1..Len(Comparisons)}

CompareArtifacts ==
  /\ pc = "proof" /\ turn > Len(kept)
  /\ \/ SameAll /\ Goto("move")
     \/ ~SameAll /\ pc' = "idle" /\ turn' = 1 /\ report' = [outcome |-> "unproved", said |-> Said]
     \/ End("error")        \* no memory, or the place to move to is reached through a link
  /\ DiskStays /\ UNCHANGED <<runs, memory>>

\* rename: it replaces a file by a file, and neither fills a directory nor crosses a file.
CanRename(path) ==
  /\ Exists(disk, path)
  /\ \A n \in 1..(Len(path) - 1) : SubSeq(path, 1, n) \notin DOMAIN old
  /\ Below(old, path) \subseteq (IF path \in DOMAIN disk THEN {path} ELSE {})
Moved(path) ==
  [p \in DOMAIN old \cup Below(disk, path) |-> IF p \in Below(disk, path) THEN disk[p] ELSE old[p]]

\* Mutant: a file that cannot be moved is passed over.
MoveOnePassingOver ==
  /\ pc = "move" /\ turn <= Len(AllOwned)
  /\ UNCHANGED <<manifest, runs, memory>>
  /\ \/ /\ CanRename(AllOwned[turn])
        /\ old' = Moved(AllOwned[turn])
        /\ disk' = Keep(disk, DOMAIN disk \ Below(disk, AllOwned[turn]))
        /\ Next1
     \/ Next1 /\ UNCHANGED <<disk, old>>

MoveOne ==
  /\ pc = "move" /\ turn <= Len(AllOwned)
  /\ UNCHANGED <<manifest, runs, memory>>
  /\ \/ /\ CanRename(AllOwned[turn])
        /\ old' = Moved(AllOwned[turn])
        /\ disk' = Keep(disk, DOMAIN disk \ Below(disk, AllOwned[turn]))
        /\ Next1
     \/ End("error") /\ UNCHANGED <<disk, old>>

Finish ==
  /\ pc = "move" /\ turn > Len(AllOwned)
  /\ End("migrated") /\ DiskStays /\ UNCHANGED <<runs, memory>>

(***************************************************************************)
(* What else happens to the same files.                                    *)
(***************************************************************************)
Crash ==
  /\ pc # "idle"
  /\ pc' = "idle" /\ turn' = 1
  /\ \/ DiskStays
     \/ pc = "manifest" /\ manifest' = Malformed /\ UNCHANGED <<disk, old>>
     \/ /\ pc = "files" /\ turn <= Len(AllFiles)
        /\ disk' = Put(disk, AllFiles[turn].path, Malformed) /\ UNCHANGED <<old, manifest>>
  /\ UNCHANGED <<report, runs, memory>>

\* fr_migrate_done: fr_remove_tree may leave some of it, which is then said.
Done ==
  /\ pc = "idle" /\ DOMAIN old # {}
  /\ \E left \in SUBSET DOMAIN old : old' = Keep(old, left)
  /\ UNCHANGED <<disk, manifest, report, pc, runs, memory, turn>>

\* fr_derived_clean deletes build/daukle, unless holds_unfinished_migration.
HoldsUnfinished == DOMAIN old # {}
Clean ==
  /\ pc = "idle" /\ manifest # Missing
  /\ old' = IF HoldsUnfinished THEN old ELSE NoFiles
  /\ UNCHANGED <<disk, manifest, report, pc, runs, memory, turn>>

UserDeletesManifest ==
  /\ pc = "idle" /\ manifest # Missing
  /\ manifest' = Missing
  /\ UNCHANGED <<disk, old, report, pc, runs, memory, turn>>

UserPutsBack(path) ==      \* from version control, say: not what was moved aside
  /\ pc = "idle" /\ ~Exists(disk, path)
  /\ disk' = Put(disk, path, "put back")
  /\ UNCHANGED <<old, manifest, report, pc, runs, memory, turn>>

Step ==
  \/ AskMigrator \/ CollectForeign \/ Translate \/ SessionFails \/ Assemble \/ BuildOld \/ CheckOwned
  \/ WriteManifest \/ WriteFile \/ FilesWritten \/ RunProof \/ CompareArtifacts \/ MoveOne \/ Finish

MigrateNext ==
  \/ \E lists \in CatalogLists, with \in Withs : Start(lists[1], lists[2], with)
  \/ Step
  \/ Crash \/ Done \/ Clean \/ UserDeletesManifest
  \/ \E path \in Originals : UserPutsBack(path)

MigrateSpec == MigrateInit /\ [][MigrateNext]_migrateVars

(***************************************************************************)
(* What must hold.                                                         *)
(***************************************************************************)
Stages == {"idle", "migrators", "translators", "old build", "manifest", "files", "proof", "move"}
Outcomes == {"none", "empty", "error", "undetected", "blocked", "unproved", "migrated"}

\* The state keeps its shape: what is considered is in a catalog and has an id of its own, and
\* every kept answer was given, is well formed, and stands under an instance name of its own.
MigrateTypeOK ==
  /\ pc \in Stages /\ report.outcome \in Outcomes /\ runs \in 0..MaxRuns
  /\ blockers \in Nat /\ turn \in Nat \ {0}
  /\ IsList(plugins) /\ IsList(considered) /\ IsList(kept) /\ IsList(foreign)
  /\ \A n \in 1..Len(considered) : considered[n] \in 1..Len(plugins)
  /\ \A m, n \in 1..Len(considered) :
       plugins[considered[m]].id = plugins[considered[n]].id => m = n
  /\ \A n \in 1..Len(kept) : kept[n].answer \in Given /\ IsWell(kept[n].answer)
  /\ \A m, n \in 1..Len(kept) : kept[m].instance = kept[n].instance => m = n

\* Every original file is in its place or, whole, in build/daukle/migrate/old, whatever fails,
\* dies, is run again, cleaned or put back, until the user says "migrate --done".
Held(path) == \/ path \in DOMAIN disk /\ disk[path] = "original"
              \/ path \in DOMAIN old /\ old[path] = "original"
NothingIsLost == [][\A path \in Originals : Held(path) => Held(path)' \/ Done]_migrateVars

\* Nothing is moved aside unless the manifest and every carried file are whole on disk, no
\* blocker is left, and the artifacts of the two builds, as they stand, are the same.
MovedOnlyWhenProved ==
  [][DOMAIN old' \ DOMAIN old # {} =>
       /\ manifest = merged /\ blockers = 0
       /\ \A n \in 1..Len(AllFiles) : Content(disk, AllFiles[n].path) \notin {Unreadable, Malformed}
       /\ turn = 1 => SameAll]_migrateVars

\* A report says "migrated" only when all that was owned is out of its place and its own list
\* of differences, which is computed apart from the verdict, is empty; and when a comparison is
\* what stopped the run, the reader is told of a difference.
ReportIsTrue ==
  [][report' # report =>
       /\ report'.outcome = "migrated" =>
            /\ \A n \in 1..Len(AllOwned) : ~Exists(disk, AllOwned[n]) /\ Exists(old, AllOwned[n])
            /\ \A n \in 1..Len(Comparisons) :
                 LET was == Content(disk, Comparisons[n].old)
                 IN was # Unreadable =>
                      ListDifferences(was, Content(disk, Comparisons[n].new), Comparisons[n].as)
                        = [ok |-> TRUE, count |-> 0, truncated |-> FALSE]
       /\ report'.outcome = "unproved" /\ turn > Len(kept) => report'.said # {}]_migrateVars

\* A manifest that is written says what every source said of it, whatever order they came in;
\* where an instance came from and the pins are what core saw, whatever the sources say.
ManifestAgrees ==
  pc \in {"old build", "manifest", "files", "proof", "move"} =>
    /\ \A n \in 1..Len(Fragments) :
         Fragments[n] # Missing =>
           \A p \in DOMAIN Fragments[n] : At(merged, p) = Fragments[n][p]
    /\ \A n \in 1..Len(kept) :
         LET home == <<"toolchains", kept[n].instance>>
         IN /\ At(merged, Append(home, "dir")) = (IF kept[n].dir = <<>> THEN Nothing ELSE kept[n].dir)
            /\ At(merged, Append(home, "toolchain")) \in {Nothing, <<kept[n].toolchain>>}
    /\ \A n \in 1..Len(considered) :
         At(merged, <<"plugins", plugins[considered[n]].id, "sha256">>) = <<plugins[considered[n]].asset>>

\* Which of two plugins that claim one file gives way: to one --with names, then to one that
\* claims it by its text, then to one of an earlier catalog (detect_claims.c, outranks).
GivesWay(listed, loser, winner, dir, file, with) ==
  LET named(i) == listed[i].id \in with
      onText(i) == Specific(Project, listed[i], dir, file)
  IN \/ named(winner) /\ ~named(loser)
     \/ (named(winner) <=> named(loser)) /\ onText(winner) /\ ~onText(loser)
     \/ /\ named(winner) <=> named(loser)
        /\ onText(winner) <=> onText(loser)
        /\ listed[winner].catalog < listed[loser].catalog

Leaders(listed, dir, file, with) ==
  LET claim == {i \in 1..Len(listed) : file \in Claimed(Project, listed[i], dir)}
  IN {i \in claim : \A j \in claim : ~GivesWay(listed, i, j, dir, file, with)}

DetectedFor(found, i, dir) ==
  \E n \in 1..Len(found) : found[n].plugin = i /\ (found[n].dir = dir \/ Above(found[n].dir, dir))

\* A run that goes on from detection has settled every claim: of each file, whoever gives way to
\* nobody was detected, in the file's directory or above it; there are two of those only when
\* --with names both; and whatever was detected was named by --with, at the root, or leads on
\* some file where it was found (fr_detect, settle_claims).
ClaimsAnswered ==
  [][pc' = "migrators" =>
       \A lists \in CatalogLists, with \in Withs : Start(lists[1], lists[2], with) =>
         /\ \A dir \in Walked(Project, plugins') : \A file \in ClaimedIn(Project, plugins', dir) :
              LET leaders == Leaders(plugins', dir, file, with)
              IN /\ leaders # {} /\ \A i \in leaders : DetectedFor(detections', i, dir)
                 /\ \A i, j \in leaders : i = j \/ {plugins'[i].id, plugins'[j].id} \subseteq with
         /\ \A n \in 1..Len(detections') :
              LET d == detections'[n]
              IN \/ d.dir = <<>> /\ plugins'[d.plugin].id \in with
                 \/ \E file \in ClaimedIn(Project, plugins', d.dir) :
                      d.plugin \in Leaders(plugins', d.dir, file, with)]_migrateVars
=============================================================================
