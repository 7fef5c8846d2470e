------------------------------- MODULE Merge -------------------------------
(***************************************************************************)
(* Merging the manifest fragments migrators and translators return, and    *)
(* the keys core writes itself (src/migrate/merge.c).                      *)
(*                                                                         *)
(* A document is a function from its key paths (non-empty sequences of     *)
(* keys) to what is there: Table, or any other value.  Its domain holds    *)
(* every path above a path it holds, and those are tables.                 *)
(***************************************************************************)
EXTENDS Naturals, Sequences, Functions

Table == <<"table">>      \* every other value is a sequence too, of other strings
Nothing == <<"nothing">>

At(doc, path) == IF path \in DOMAIN doc THEN doc[path] ELSE Nothing
Over(outer, inner) == Len(outer) < Len(inner) /\ SubSeq(inner, 1, Len(outer)) = outer

(***************************************************************************)
(* fr_migrate_merge.  Two tables are merged; of two other values of one    *)
(* path the first stays, and is a collision unless the two are equal.      *)
(***************************************************************************)
\* Mutant: a table where a value stands is not a collision.
CollisionsOfValues(into, fragment) ==
  {p \in DOMAIN into \cap DOMAIN fragment : into[p] # fragment[p] /\ fragment[p] # Table}

Collisions(into, fragment) ==
  {p \in DOMAIN into \cap DOMAIN fragment : into[p] # fragment[p]}

Added(into, fragment) ==
  {p \in DOMAIN fragment \ DOMAIN into :
     \A q \in Collisions(into, fragment) : ~Over(q, p)}

Merged(into, fragment) ==
  [p \in DOMAIN into \cup Added(into, fragment) |->
     IF p \in DOMAIN into THEN into[p] ELSE fragment[p]]

(***************************************************************************)
(* What core sets.  ensure_object makes a table that is missing and fails  *)
(* on what is there and not a table.                                       *)
(***************************************************************************)
CanHold(doc, path) == At(doc, path) \in {Nothing, Table}
Set(doc, path, value) == [p \in DOMAIN doc \cup {path} |-> IF p = path THEN value ELSE doc[p]]
Without(doc, path) == Restrict(doc, {p \in DOMAIN doc : p # path /\ ~Over(path, p)})

\* fr_migrate_set_instance: a root instance named as its toolchain needs neither key.
InstanceKeys(kept) ==
  [k \in (IF kept.toolchain = kept.instance THEN {} ELSE {"toolchain"})
         \cup (IF kept.dir = <<>> THEN {} ELSE {"dir"}) |->
     IF k = "dir" THEN kept.dir ELSE <<kept.toolchain>>]

SetInstance(doc, kept) ==
  LET home == <<"toolchains", kept.instance>>
      keys == InstanceKeys(kept)
      based == Set(Set(doc, <<"toolchains">>, Table), home, Table)
  IN [p \in DOMAIN based \cup {Append(home, k) : k \in DOMAIN keys} |->
        IF \E k \in DOMAIN keys : p = Append(home, k) THEN keys[p[3]] ELSE based[p]]

CanSetInstance(doc, kept) ==
  CanHold(doc, <<"toolchains">>) /\ CanHold(doc, <<"toolchains", kept.instance>>)

\* fr_migrate_fill_defaults: only what nobody set.
Defaults(project) ==
  [p \in {<<"schema">>, <<"project">>, <<"version">>, <<"modules">>} |->
     CASE p[1] = "schema" -> <<"1">> [] p[1] = "project" -> <<project>>
       [] p[1] = "version" -> <<"0.1.0">> [] OTHER -> Table]
FillDefaults(doc, project) ==
  [p \in DOMAIN doc \cup DOMAIN Defaults(project) |->
     IF p \in DOMAIN doc THEN doc[p] ELSE Defaults(project)[p]]

\* fr_migrate_add_plugin: the catalog's pin, whatever stood there.
AddPlugin(doc, plugin) ==
  LET home == <<"plugins", plugin.id>>
      bare == Set(Set(Without(doc, home), <<"plugins">>, Table), home, Table)
  IN Set(bare, Append(home, "sha256"), <<plugin.asset>>)
=============================================================================
