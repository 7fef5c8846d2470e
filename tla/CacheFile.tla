----------------------------- MODULE CacheFile ------------------------------
(***************************************************************************)
(* fr_cache_write_atomic and fr_cache_read on one path (src/cache/cache.c), *)
(* and fr_plugin_fetch_discard (src/plugin/plugin_fetch.c), by processes    *)
(* that share the directory and may be killed between any two calls. Names  *)
(* point at inodes, and an open file is held by its inode, so what happens  *)
(* to a file after its name is gone, or has been given to another, is part  *)
(* of the model.                                                            *)
(***************************************************************************)
EXTENDS Naturals

CONSTANTS Writers, Readers,         \* processes
          Texts,                    \* what may be written; every one is cut
          Pieces,                   \* into this many separate writes
          Exclusive,                \* writes of the path never overlap
          MaxOpens,                 \* bound: how many writes are started
          None
ASSUME CacheFileAssumption ==
  /\ Pieces \in Nat \ {0}
  /\ Exclusive \in BOOLEAN
  /\ MaxOpens \in Nat
  /\ None \notin Texts \cup Nat \cup [1..Pieces -> Texts]

VARIABLES final, temp,              \* what "<path>" and "<path>.tmp" name
          inodes,                   \* how many have been made
          bytes,                    \* per inode, piece by piece
          opens,                    \* writes started so far
          step, fd, text, at,       \* per writer: where it is, and its locals
          outcome,                  \* per writer: what the last write returned
          reading, got              \* per reader: where it is, what it has read
writers == <<step, fd, text, at, outcome>>
readers == <<reading, got>>
files   == <<final, temp, inodes, bytes>>
vars    == <<files, opens, writers, readers>>

Inodes == 1..MaxOpens
Steps  == {"idle", "writing", "failing"}
Index  == 1..Pieces

\* A piece no write has reached: past the end, or a hole.
Unwritten == [i \in Index |-> None]
Whole(t)  == [i \in Index |-> t]

Init ==
  /\ final = None /\ temp = None
  /\ inodes = 0
  /\ bytes = [n \in Inodes |-> Unwritten]
  /\ opens = 0
  /\ step = [w \in Writers |-> "idle"]
  /\ fd = [w \in Writers |-> None]
  /\ text = [w \in Writers |-> None]
  /\ at = [w \in Writers |-> 1]
  /\ outcome = [w \in Writers |-> "none"]
  /\ reading = [r \in Readers |-> None]
  /\ got = [r \in Readers |-> None]

-----------------------------------------------------------------------------
(* fr_cache_write_atomic                                                   *)

Returns(w, result) ==
  /\ step' = [step EXCEPT ![w] = "idle"]
  /\ outcome' = [outcome EXCEPT ![w] = result]
  /\ fd' = [fd EXCEPT ![w] = None]
  /\ text' = [text EXCEPT ![w] = None]
  /\ at' = [at EXCEPT ![w] = 1]

MayStart(w) ==
  /\ step[w] = "idle" /\ opens < MaxOpens
  /\ Exclusive => \A other \in Writers : step[other] = "idle"

Opens(w, t, inode) ==
  /\ temp' = inode
  /\ bytes' = [bytes EXCEPT ![inode] = Unwritten]
  /\ opens' = opens + 1
  /\ step' = [step EXCEPT ![w] = "writing"]
  /\ fd' = [fd EXCEPT ![w] = inode]
  /\ text' = [text EXCEPT ![w] = t]
  /\ outcome' = [outcome EXCEPT ![w] = "none"]
  /\ UNCHANGED <<final, at, readers>>

\* fopen(temp_path, "wb"), when there is no such file ...
Create(w, t) ==
  /\ MayStart(w) /\ temp = None
  /\ inodes' = inodes + 1
  /\ Opens(w, t, inodes + 1)

\* ... and when a write that died, or one still going on, left it there: the
\* same file, cut to nothing.
Truncate(w, t) ==
  /\ MayStart(w) /\ temp # None
  /\ UNCHANGED inodes
  /\ Opens(w, t, temp)

\* fopen refuses.
OpenFails(w) ==
  /\ MayStart(w)
  /\ opens' = opens + 1
  /\ Returns(w, "err")
  /\ UNCHANGED <<files, readers>>

WritePiece(w) ==
  /\ step[w] = "writing" /\ at[w] <= Pieces
  /\ bytes' = [bytes EXCEPT ![fd[w]] = [@ EXCEPT ![at[w]] = text[w]]]
  /\ at' = [at EXCEPT ![w] = @ + 1]
  /\ UNCHANGED <<final, temp, inodes, opens, step, fd, text, outcome, readers>>

\* fwrite came up short, fclose could not flush, or the rename was refused.
WriteFails(w) ==
  /\ step[w] = "writing"
  /\ step' = [step EXCEPT ![w] = "failing"]
  /\ UNCHANGED <<files, opens, fd, text, at, outcome, readers>>

\* The temporary name, whatever it names by now, becomes the final one.
Moves(w) ==
  /\ step[w] = "writing" /\ temp # None
  /\ final' = temp /\ temp' = None
  /\ Returns(w, "ok")
  /\ UNCHANGED <<inodes, bytes, opens, readers>>

\* Mutant of Rename: neither the count fwrite returned nor fclose is looked at.
RenameUnchecked(w) == Moves(w)

\* fr_cache_rename_file, after every byte was written and the file closed.
Rename(w) == at[w] > Pieces /\ Moves(w)

RemoveTemp(w) ==
  /\ step[w] = "failing"
  /\ temp' = None
  /\ Returns(w, "err")
  /\ UNCHANGED <<final, inodes, bytes, opens, readers>>

\* The process is killed: what it had written stays, under whatever name.
Die(w) ==
  /\ step[w] # "idle"
  /\ Returns(w, outcome[w])
  /\ UNCHANGED <<files, opens, readers>>

-----------------------------------------------------------------------------
(* fr_cache_read, and fr_plugin_fetch on a cached plugin: the file is       *)
(* probed, opened again and read to its end.                                *)

\* An open probe that succeeded, then the open that reads; one that finds no
\* file is a miss, and the reader is told so.
Probe(r) ==
  /\ reading[r] = None /\ final # None
  /\ reading' = [reading EXCEPT ![r] = 0]
  /\ UNCHANGED <<files, opens, writers, got>>

\* The entry went away after the probe: fr_file_read_text fails.
OpenMissed(r) ==
  /\ reading[r] = 0 /\ final = None
  /\ reading' = [reading EXCEPT ![r] = None]
  /\ UNCHANGED <<files, opens, writers, got>>

OpenRead(r) ==
  /\ reading[r] = 0 /\ final # None
  /\ reading' = [reading EXCEPT ![r] = final]
  /\ UNCHANGED <<files, opens, writers, got>>

\* The read itself, some time after the open.
ReadAll(r) ==
  /\ reading[r] \in Inodes
  /\ got' = [got EXCEPT ![r] = bytes[reading[r]]]
  /\ reading' = [reading EXCEPT ![r] = None]
  /\ UNCHANGED <<files, opens, writers>>

\* fr_plugin_fetch_discard: a cached plugin that does not match its pin.
Discard ==
  /\ final' = None
  /\ UNCHANGED <<temp, inodes, bytes, opens, writers, readers>>

Write(w) ==
  \/ \E t \in Texts : Create(w, t) \/ Truncate(w, t)
  \/ OpenFails(w) \/ WritePiece(w) \/ WriteFails(w) \/ Rename(w) \/ RemoveTemp(w)
  \/ Die(w)
Read(r) == Probe(r) \/ OpenMissed(r) \/ OpenRead(r) \/ ReadAll(r)

Next == (\E w \in Writers : Write(w)) \/ (\E r \in Readers : Read(r)) \/ Discard

Spec == Init /\ [][Next]_vars

-----------------------------------------------------------------------------
TypeOK ==
  /\ final \in Inodes \cup {None} /\ temp \in Inodes \cup {None}
  /\ inodes \in 0..MaxOpens /\ opens \in 0..MaxOpens
  /\ bytes \in [Inodes -> [Index -> Texts \cup {None}]]
  /\ step \in [Writers -> Steps]
  /\ fd \in [Writers -> Inodes \cup {None}]
  /\ text \in [Writers -> Texts \cup {None}]
  /\ at \in [Writers -> 1..(Pieces + 1)]
  /\ outcome \in [Writers -> {"none", "ok", "err"}]
  /\ reading \in [Readers -> Inodes \cup {0, None}]
  /\ got \in [Readers -> [Index -> Texts \cup {None}] \cup {None}]

\* The writes and the reads amount to a file that changes all at once: a
\* rename is the whole write, a failed or killed write is none, and a reader
\* gets what the path held when it was opened (cache.c, above
\* fr_cache_write_atomic: "a caller that ignores the result is left with either
\* the old file or no file, never a partial one").
Visible(inode) == IF inode \in Inodes THEN bytes[inode] ELSE None
File == INSTANCE WholeFile WITH
  NoText  <- None,
  Texts   <- {Whole(t) : t \in Texts},
  value   <- Visible(final),
  writing <- [w \in Writers |-> IF text[w] = None THEN None ELSE Whole(text[w])],
  seen    <- [r \in Readers |-> IF reading[r] \in Inodes THEN Visible(reading[r]) ELSE got[r]]

ChangesWhole == File!Spec
=============================================================================
