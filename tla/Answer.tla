------------------------------- MODULE Answer -------------------------------
(***************************************************************************)
(* What core accepts of a migrator's or a translator's answer              *)
(* (src/migrate/result_check.c).  A malformed answer is an error of the    *)
(* plugin; one that cannot be proved is a blocker.                         *)
(*                                                                         *)
(* An answer is [manifest, foreign, blockers, owned, instances, files,     *)
(* proof]; a field is Missing when the answer has none and Malformed when  *)
(* it has the wrong shape.  Paths are sequences of names, and Fold gives   *)
(* the lower-case spelling of a name.                                      *)
(***************************************************************************)
EXTENDS Shapes, Naturals, Sequences, FiniteSets

CONSTANT Fold(_)

Folded(path) == [i \in 1..Len(path) |-> Fold(path[i])]
Starts(prefix, path) == Len(prefix) <= Len(path) /\ SubSeq(path, 1, Len(prefix)) = prefix
Elements(list) == IF list = Missing THEN {} ELSE {list[i] : i \in 1..Len(list)}

\* fr_manifest_relative_path_is_safe: "/" as a name stands for an absolute spelling.
Safe(path) == path # <<>> /\ \A i \in 1..Len(path) : path[i] \notin {".", "..", "/"}

\* is_or_contains_derived_dir
ReachesDerived(path) ==
  path = <<".">> \/ Folded(path) = <<"build">> \/ Starts(<<"build", "daukle">>, Folded(path))

(***************************************************************************)
(* The parts of an answer.                                                 *)
(***************************************************************************)
InstancesOf(manifest) == {p[2] : p \in {q \in DOMAIN manifest : Len(q) > 1 /\ q[1] = "toolchains"}}

\* check_manifest: plugins and schema are core's, and so are an instance's own keys.
ManifestIsWell(manifest, mayNameToolchain) ==
  \/ manifest = Missing
  \/ /\ manifest # Malformed
     /\ \A key \in {<<"plugins">>, <<"schema">>} : key \notin DOMAIN manifest
     /\ \A i \in InstancesOf(manifest) :
          /\ <<"toolchains", i, "dir">> \notin DOMAIN manifest
          /\ mayNameToolchain \/ <<"toolchains", i, "toolchain">> \notin DOMAIN manifest

\* check_owned: neither the derived directory nor what migrate is about to write.
OwnedIsWell(owned) ==
  /\ owned # Malformed
  /\ \A path \in Elements(owned) :
       /\ ~ReachesDerived(path)
       /\ Safe(path)
       /\ Folded(path) \notin {<<"daukle.toml">>, <<"daukle.lua">>}

InstancesAreWell(instances) ==
  instances # Malformed /\ \A dir \in Elements(instances) : ~ReachesDerived(dir) /\ Safe(dir)

IsInside(path, instance) == Starts(<<"daukle", instance>>, path) /\ Len(path) > 2
FileIsWell(file, instance) == Safe(file.path) /\ IsInside(file.path, instance)

\* check_files: a migrator writes for the one instance its manifest describes.
FilesAreWell(files, manifest) ==
  \/ files = Missing
  \/ /\ files # Malformed
     /\ manifest # Missing
     /\ Cardinality(InstancesOf(manifest)) = 1
     /\ \A f \in Elements(files) : \A i \in InstancesOf(manifest) : FileIsWell(f, i)

\* check_translation_files: a translator writes for any instance its manifest sets.
TranslatedFilesAreWell(files, manifest) ==
  \/ files = Missing
  \/ /\ files # Malformed
     /\ \A f \in Elements(files) :
          manifest # Missing /\ \E i \in InstancesOf(manifest) : FileIsWell(f, i)

\* check_compare_entry: comparing a file with itself proves nothing.
ComparisonIsWell(entry) ==
  /\ entry.as \in {"bytes", "archive", "archive-json"}
  /\ Safe(entry.old) /\ Safe(entry.new)
  /\ Folded(entry.old) # Folded(entry.new)

ProofIsWell(proof) ==
  proof = Missing \/ (proof # Malformed /\ \A e \in Elements(proof.compare) : ComparisonIsWell(e))
Unprovable(proof) == proof = Missing \/ (proof # Malformed /\ proof.compare = <<>>)

(***************************************************************************)
(* fr_migrate_check_run_result and fr_migrate_check_translation.           *)
(***************************************************************************)
IsWell(answer) ==
  /\ ManifestIsWell(answer.manifest, FALSE)
  /\ answer.foreign # Malformed
  /\ answer.blockers # Malformed
  /\ OwnedIsWell(answer.owned)
  /\ InstancesAreWell(answer.instances)
  /\ FilesAreWell(answer.files, answer.manifest)
  /\ ProofIsWell(answer.proof)

IsWellTranslated(answer) ==
  /\ ManifestIsWell(answer.manifest, TRUE)
  /\ TranslatedFilesAreWell(answer.files, answer.manifest)
  /\ answer.blockers # Malformed

\* fr_migrate_refuse_detected_toolchain
RenamesDetected(answer, instances) ==
  answer.manifest # Missing
    /\ \E i \in instances : <<"toolchains", i, "toolchain">> \in DOMAIN answer.manifest

BlockersIn(answer) == IF answer.blockers = Missing THEN 0 ELSE Len(answer.blockers)
BlockersOf(answer) == BlockersIn(answer) + (IF Unprovable(answer.proof) THEN 1 ELSE 0)
=============================================================================
