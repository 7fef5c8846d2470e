------------------------------- MODULE Detect -------------------------------
(***************************************************************************)
(* Which catalog plugins a project needs, and where (src/migrate/detect.c, *)
(* detect_walk.c, detect_claims.c).                                        *)
(*                                                                         *)
(* A project is [files, dirs, found]: its regular files and directories as *)
(* sequences of names below the root, and what the patterns find in a      *)
(* file (nothing in one that is too big or cannot be read).  Links are not *)
(* in it: the walk passes over them.                                       *)
(***************************************************************************)
EXTENDS Naturals, FiniteSets, SequencesExt

CONSTANTS MaxDepth, MaxDirectories,   \* FR_DETECT_MAX_DEPTH, FR_DETECT_MAX_DIRECTORIES
          Hidden                      \* the directory names that start with a dot

Derived == <<"build", "daukle">>

Above(outer, inner) == Len(outer) < Len(inner) /\ SubSeq(inner, 1, Len(outer)) = outer

(***************************************************************************)
(* The walk.  It enters a directory when it entered every directory above. *)
(***************************************************************************)
Passed(dir, plugins) ==
  \/ dir[Len(dir)] \in Hidden
  \/ \E i \in 1..Len(plugins) : dir[Len(dir)] \in plugins[i].skip
  \/ dir = Derived

Walked(project, plugins) ==
  {<<>>} \cup {d \in project.dirs :
                 /\ Len(d) <= MaxDepth
                 /\ \A n \in 1..Len(d) : ~Passed(SubSeq(d, 1, n), plugins)}

(***************************************************************************)
(* Claims: a plugin's rule that admits the directory names a regular file  *)
(* in it, or at a path below it, whose text the rule's patterns find.      *)
(***************************************************************************)
Admits(rule, dir) == rule.tree \/ dir = <<>>
Satisfies(project, rule, path) == rule.contains = {} \/ rule.contains \cap project.found[path] # {}

Names(rule, file) ==
  \E f \in rule.files : f.dir = Front(file) /\ Last(file) \in f.names

ClaimsBy(project, plugin, dir) ==
  {c \in [file : {SubSeq(p, Len(dir) + 1, Len(p)) : p \in {q \in project.files : Above(dir, q)}},
          rule : plugin.rules] :
     /\ Admits(c.rule, dir)
     /\ Names(c.rule, c.file)
     /\ Satisfies(project, c.rule, dir \o c.file)}

Claimed(project, plugin, dir) == {c.file : c \in ClaimsBy(project, plugin, dir)}
Specific(project, plugin, dir, file) ==
  \E c \in ClaimsBy(project, plugin, dir) : c.file = file /\ c.rule.contains # {}

(***************************************************************************)
(* Settling the claims on one file: what --with names comes first, then a  *)
(* claim on the text over one on the name, then the earlier catalog.       *)
(***************************************************************************)
Rank(project, plugin, dir, file, with) ==
  <<IF plugin.id \in with THEN 0 ELSE 1,
    IF Specific(project, plugin, dir, file) THEN 0 ELSE 1,
    plugin.catalog>>

Outranks(left, right) ==
  \E n \in 1..3 : left[n] < right[n] /\ \A m \in 1..(n - 1) : left[m] = right[m]

Best(project, plugins, dir, file, with) ==
  {i \in 1..Len(plugins) :
     /\ file \in Claimed(project, plugins[i], dir)
     /\ \A j \in 1..Len(plugins) :
          file \in Claimed(project, plugins[j], dir) =>
            ~Outranks(Rank(project, plugins[j], dir, file, with),
                      Rank(project, plugins[i], dir, file, with))}

\* record_winners: equals are all recorded when --with named them, and none is otherwise.
Winners(project, plugins, dir, file, with) ==
  LET best == Best(project, plugins, dir, file, with)
  IN IF Cardinality(best) > 1 THEN {i \in best : plugins[i].id \in with} ELSE best

ClaimedIn(project, plugins, dir) ==
  UNION {Claimed(project, plugins[i], dir) : i \in 1..Len(plugins)}

Tied(project, plugins, with) ==
  \E dir \in Walked(project, plugins) : \E file \in ClaimedIn(project, plugins, dir) :
     Winners(project, plugins, dir, file, with) = {}

Matched(project, plugins, with) ==
  UNION {UNION {{[plugin |-> i, dir |-> dir] : i \in Winners(project, plugins, dir, file, with)} :
                file \in ClaimedIn(project, plugins, dir)} :
         dir \in Walked(project, plugins)}

\* collapse_to_outermost: the outer directory's migrator answers for the inner ones.
\* Mutant: an outer directory answers for the inner ones of other plugins too.
OutermostOfAny(detections) == {d \in detections : ~\E e \in detections : Above(e.dir, d.dir)}

Outermost(detections) ==
  {d \in detections : \A e \in detections : ~(e.plugin = d.plugin /\ Above(e.dir, d.dir))}

WithAtRoot(plugins, with) ==
  {[plugin |-> i, dir |-> <<>>] : i \in {j \in 1..Len(plugins) : plugins[j].id \in with}}

\* compare_detections: the plugins in the catalogs' order, one plugin's directories in `order`.
Place(dir, order) == CHOOSE n \in 1..Len(order) : order[n] = dir
Precedes(a, b, order) ==
  \/ a.plugin < b.plugin
  \/ a.plugin = b.plugin /\ Place(a.dir, order) < Place(b.dir, order)
Sorted(detections, order) ==
  LET before(d) == {e \in detections : Precedes(e, d, order)}
  IN [n \in 1..Cardinality(detections) |->
        CHOOSE d \in detections : Cardinality(before(d)) = n - 1]

\* fr_detect
Detected(project, plugins, with, order) ==
  IF \/ with \ {plugins[i].id : i \in 1..Len(plugins)} # {}
     \/ Cardinality(Walked(project, plugins)) > MaxDirectories
     \/ Tied(project, plugins, with)
  THEN [ok |-> FALSE, detections |-> <<>>]
  ELSE [ok |-> TRUE,
        detections |-> Sorted(Outermost(Matched(project, plugins, with)) \cup WithAtRoot(plugins, with),
                              order)]
=============================================================================
