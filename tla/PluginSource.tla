---------------------------- MODULE PluginSource ----------------------------
(***************************************************************************)
(* What a plugin is made of (src/plugin/plugin_modules.c over fr_tar_read in *)
(* src/archive/tar.c): a single chunk, a packed archive or a directory of    *)
(* the workspace. A member goes by the module name it answers to, "plugin"   *)
(* being the one that runs; "modules/x" is the chunk a [plugins] line calls  *)
(* x, and says so in the field module.                                       *)
(***************************************************************************)
EXTENDS Naturals, Sequences, FiniteSets

CONSTANTS Sources,                  \* what each artifact is
          MaxMembers                \* FR_TAR_MAX_MEMBERS
Main == "main"                      \* FR_PLUGIN_MAIN_MODULE
Plain == ""                         \* a member that is nobody's chunk

Member == [name : STRING, module : STRING, type : {"file", "directory", "other"},
           lua : BOOLEAN, climbs : BOOLEAN, fits : BOOLEAN]

MembersOf(source) == {source.members[k] : k \in DOMAIN source.members}
Files(source)     == {m \in MembersOf(source) : m.type = "file"}

\* fr_tar_read: each name once, and nothing but files and directories; fits is
\* its bounds on a name, on a size, and on what is left of the bytes.
TarReads(source) ==
  /\ \A m \in MembersOf(source) : m.type # "other" /\ m.fits
  /\ \A j, k \in DOMAIN source.members :
       source.members[j].type = "file" /\ source.members[k].type = "file" /\ j # k
         => source.members[j].name # source.members[k].name
  /\ Cardinality(Files(source)) <= MaxMembers

\* modules/main.lua could never be reached: main is plugin.lua.
HidesMain(source) == \E m \in Files(source) : m.module = Main

\* fr_plugin_source_open_bytes, fr_plugin_source_open_directory.
Opens(source) ==
  \/ source.kind = "chunk"
  \/ /\ source.kind = "directory" /\ ~HidesMain(source)
  \/ /\ source.kind = "archive" /\ TarReads(source) /\ ~HidesMain(source)
     /\ \A m \in Files(source) : m.lua /\ ~m.climbs

\* fr_plugin_source_member: what a require may name.
Carries(source, name) ==
  /\ source.kind # "chunk"
  /\ \E m \in Files(source) : m.lua /\ m.name = name

\* fr_plugin_source_entry and fr_plugin_source_module_entry.
HasChunk(source, module) ==
  \/ module = Main /\ (source.kind = "chunk" \/ Carries(source, "plugin"))
  \/ /\ module # Main /\ source.kind # "chunk"
     /\ \E m \in Files(source) : m.lua /\ m.module = module
=============================================================================
