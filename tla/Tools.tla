------------------------------- MODULE Tools -------------------------------
(***************************************************************************)
(* How a name becomes the program a plugin may run, and how what was used  *)
(* is reported (src/exec/tool.c, toolreport.c; daukle.tool of              *)
(* src/lua/lua_verbs_exec.c).                                              *)
(***************************************************************************)
EXTENDS Integers, Sequences, FiniteSets

CONSTANTS
  SearchPath,           \* the directories of PATH, in order; "" is an empty entry
  Installed,            \* <<directory, name, extension>>: the executable regular files
  BatchNames,           \* the names that end in .bat or .cmd as they are written
  ImproperNames,        \* those with a separator, a drive or "..", and the empty one
  LongNames,            \* those of FR_TOOL_NAME_MAX characters or more
  UnsafeLabels,         \* those with a control character
  Unresolvable,         \* <<directory, name, extension>>: found, but with no absolute path
  Platforms,            \* those the model runs on, of {"posix", "windows"}
  ReportCapacity        \* TOOLREPORT_CAPACITY

NoLabel == "no label"

Extensions(platform) == IF platform = "windows" THEN <<".exe", ".com", "">> ELSE <<"">>
BatchExtensions(platform) == IF platform = "windows" THEN <<".bat", ".cmd">> ELSE <<>>
IsBatch(file) == file[3] \in {".bat", ".cmd"} \/ (file[3] = "" /\ file[2] \in BatchNames)

\* The files the search tries, in its order: for each directory the programs, then the batch files.
Candidates(platform, name) ==
  LET tried == Extensions(platform) \o BatchExtensions(platform)
      width == Len(tried)
  IN [n \in 1..(Len(SearchPath) * width) |->
        <<SearchPath[((n - 1) \div width) + 1], name, tried[((n - 1) % width) + 1]>>]

\* fr_tool_resolve: the first candidate there is, unless it is one that cannot be started.
Found(platform, name) ==
  LET tried == Candidates(platform, name)
  IN {tried[n] : n \in {i \in DOMAIN tried : /\ tried[i][1] # "" /\ tried[i] \in Installed
                                             /\ \A k \in 1..(i - 1) : tried[k][1] = "" \/ tried[k] \notin Installed}}

Resolved(platform, name) == {file \in Found(platform, name) : ~IsBatch(file) /\ file \notin Unresolvable}

\* What daukle.tool refuses before it looks for anything.
NameIsWell(name) == name \notin ImproperNames \cup LongNames

(***************************************************************************)
(* The report: one row a tool, found again by its key.                     *)
(***************************************************************************)
Row(kind, key, label, cached) ==
  [kind |-> kind, key |-> key, label |-> label, cached |-> cached, copied |-> 0, unresolved |-> 0]

AlreadyReported(rows, kind, key) == \E n \in DOMAIN rows : rows[n].kind = kind /\ rows[n].key = key

Recorded(rows, kind, key, label, fallback, cached) ==
  IF AlreadyReported(rows, kind, key) \/ Len(rows) = ReportCapacity THEN rows
  ELSE Append(rows, Row(kind, key, IF label \in UnsafeLabels \cup {NoLabel, ""} THEN fallback ELSE label, cached))

UsedInstalled(rows, name, label, path) == Recorded(rows, "installed", path, label, name, FALSE)
=============================================================================
