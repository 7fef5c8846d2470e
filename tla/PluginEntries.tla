--------------------------- MODULE PluginEntries ---------------------------
(***************************************************************************)
(* [resolvers] and [plugins] as fr_resolvers_parse                           *)
(* (src/plugin/resolvers.c) and fr_plugins_parse                             *)
(* (src/plugin/plugins_parse.c) read them. A raw entry says which keys it    *)
(* has and which of those hold a string; the artifact it leads to stands for *)
(* the path, the url or the coordinate it names it by.                       *)
(***************************************************************************)
EXTENDS Naturals, Sequences, FiniteSets

CONSTANTS Folded,                   \* the plain module names, without their case
          MaxListed                 \* FR_PLUGIN_MAX_MODULES
ByPath == "path"
ByUrl  == "url"

\* fr_json_string of each key of an entry that is read.
HoldStrings(raw, keys) == (raw.keys \cap keys) \subseteq raw.strings

\* parse_resolver_entry: fetched over the network, it is pinned.
IsResolver(raw) ==
  /\ raw.form = "table"
  /\ Cardinality(raw.keys \cap {ByUrl, ByPath}) = 1
  /\ ByUrl \in raw.keys => "sha256" \in raw.keys
  /\ HoldStrings(raw, {ByUrl, ByPath, "sha256"})

ResolverOf(raw) ==
  [label |-> raw.label, artifact |-> raw.artifact,
   source |-> <<IF ByUrl \in raw.keys THEN ByUrl ELSE ByPath, raw.artifact>>]

\* PLUGIN_ENTRY_KEYS.
PluginKeys == {"requires", "sha256", "path", "url", "resolver", "coordinate", "modules"}

\* parse_modules: on a file system that does not tell case, names that differ in
\* it are one file.
ListsModules(listed) ==
  /\ listed # <<>> /\ Len(listed) <= MaxListed
  /\ \A k \in DOMAIN listed : listed[k] \in DOMAIN Folded
  /\ \A j, k \in DOMAIN listed : Folded[listed[j]] = Folded[listed[k]] => j = k

Groups(keys) ==
  {group \in {{"path"}, {"url"}, {"resolver", "coordinate"}} : group \cap keys # {}}

\* parse_table_form: one way to the artifact, and all of it.
IsTableEntry(raw) ==
  /\ raw.keys \subseteq PluginKeys
  /\ "modules" \in raw.keys => ListsModules(raw.modules)
  /\ Cardinality(Groups(raw.keys)) = 1
  /\ UNION Groups(raw.keys) \subseteq raw.keys
  /\ HoldStrings(raw, PluginKeys \ {"requires", "modules"})

\* fr_plugins_parse_entry: a string is a path, a url, or a coordinate of a
\* resolver, told apart by how it begins; what begins like none is refused.
IsPlugin(raw) ==
  /\ ~raw.slash
  /\ \/ raw.form = "string" /\ Cardinality(Groups(raw.keys)) = 1
     \/ raw.form = "table" /\ IsTableEntry(raw)

PluginOf(raw) ==
  [label |-> raw.label, artifact |-> raw.artifact,
   by |-> IF ByPath \in raw.keys THEN ByPath
          ELSE IF ByUrl \in raw.keys THEN ByUrl ELSE raw.resolver,
   pinned |-> "sha256" \in raw.keys,
   modules |-> IF "modules" \in raw.keys THEN raw.modules ELSE <<>>,
   overrides |-> IF "requires" \in raw.keys THEN raw.overrides ELSE <<>>]

\* Every entry, or none: the first one that does not read refuses the manifest.
Reads(manifest) ==
  /\ \A k \in DOMAIN manifest.resolvers : IsResolver(manifest.resolvers[k])
  /\ \A k \in DOMAIN manifest.plugins : IsPlugin(manifest.plugins[k])

ResolversOf(manifest) == {ResolverOf(manifest.resolvers[k]) : k \in DOMAIN manifest.resolvers}
PluginsOf(manifest)   == [k \in DOMAIN manifest.plugins |-> PluginOf(manifest.plugins[k])]
=============================================================================
