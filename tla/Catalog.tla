------------------------------ MODULE Catalog ------------------------------
(***************************************************************************)
(* Reading the plugin catalogs (src/migrate/catalog.c, catalog_entry.c):   *)
(* where each comes from, which of its entries are evaluated, and which of *)
(* two entries with one id is kept.                                        *)
(*                                                                         *)
(* A catalog document is a record [location, transport, body]; its body is *)
(* a sequence of raw entries, or Malformed when it is not JSON or holds no *)
(* "plugins" array.  A raw field that is there with the wrong shape is     *)
(* Malformed, and one that is absent is Missing.                            *)
(***************************************************************************)
EXTENDS Shapes, Naturals, Sequences, FiniteSets

CONSTANT MaxListed      \* FR_CATALOG_MAX_FILES and FR_CATALOG_MAX_PATTERNS

(***************************************************************************)
(* A file a rule looks for is [dir, names, safe]: the names its last part  *)
(* matches (several only by a wildcard) below the directory it spells, and *)
(* whether its spelling is neither absolute nor climbing nor backslashed.  *)
(***************************************************************************)
UsableFile(f) == f.safe /\ f.names # {} /\ (f.dir # <<>> => Cardinality(f.names) = 1)

\* patterns is a set of [token, bare]: what it finds, and whether a bare hyphen is in it.
UsablePatterns(patterns) ==
  \/ patterns = Missing
  \/ /\ patterns # Malformed
     /\ Cardinality(patterns) <= MaxListed
     /\ \A p \in patterns : ~p.bare

UsableRule(rule) ==
  /\ rule # Malformed
  /\ rule.files # Malformed
  /\ Cardinality(rule.files) \in 1..MaxListed
  /\ \A f \in rule.files : UsableFile(f)
  /\ UsablePatterns(rule.contains)
  /\ rule.scope \in {Missing, "root", "tree"}

UsableSkip(skip) == skip = Missing \/ (skip # Malformed /\ "." \notin skip /\ ".." \notin skip)

\* fr_catalog_read_entry: everything an entry says is checked before any of it is used.
Usable(entry) ==
  /\ entry # Malformed
  /\ entry.id # Malformed
  /\ entry.asset # Malformed
  /\ entry.detect # Malformed /\ \A i \in 1..Len(entry.detect) : UsableRule(entry.detect[i])
  /\ entry.replaces # Malformed
  /\ UsableSkip(entry.skip)

OrEmpty(value) == IF value = Missing THEN {} ELSE value

RuleOf(rule) ==
  [files |-> rule.files,
   contains |-> {p.token : p \in OrEmpty(rule.contains)},
   tree |-> rule.scope = "tree"]

PluginOf(entry, document) ==
  [id |-> entry.id, asset |-> entry.asset, catalog |-> document,
   rules |-> {RuleOf(entry.detect[i]) : i \in 1..Len(entry.detect)},
   replaces |-> OrEmpty(entry.replaces), skip |-> OrEmpty(entry.skip)]

Listed(plugins, id) == \E i \in 1..Len(plugins) : plugins[i].id = id
Find(plugins, id) == plugins[CHOOSE i \in 1..Len(plugins) : plugins[i].id = id]

\* A bad entry and a second one of the same id are warnings; the rest of the catalog is read.
TakeEntry(found, entry, document) ==
  IF ~Usable(entry) \/ Listed(found.plugins, entry.id)
  THEN [found EXCEPT !.warnings = @ + 1]
  ELSE [found EXCEPT !.plugins = Append(@, PluginOf(entry, document))]

ParseDocument(found, body, document) ==
  LET parsed[n \in 0..Len(body)] ==
        IF n = 0 THEN found ELSE TakeEntry(parsed[n - 1], body[n], document)
  IN parsed[Len(body)]

\* fr_catalog_locations: what the environment lists comes before the flags.
Locations(environment, flags) == environment \o flags

\* A catalog pins the code migrate runs, so it may not cross the network in the clear.
MayArrive(d) == d.transport \in {"file", "https", "http on this machine"}
Readable(d) == MayArrive(d) /\ d.body # Missing /\ d.body # Malformed

\* fr_catalog_load: one location that cannot be read fails the whole load.
Load(documents) ==
  IF \E i \in 1..Len(documents) : ~Readable(documents[i])
  THEN [ok |-> FALSE, plugins |-> <<>>, warnings |-> 0]
  ELSE LET read[i \in 0..Len(documents)] ==
             IF i = 0 THEN [plugins |-> <<>>, warnings |-> 0]
             ELSE ParseDocument(read[i - 1], documents[i].body, i)
       IN [ok |-> TRUE, plugins |-> read[Len(documents)].plugins,
           warnings |-> read[Len(documents)].warnings]
=============================================================================
