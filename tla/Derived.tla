------------------------------ MODULE Derived -------------------------------
(***************************************************************************)
(* fr_derived_apply and fr_derived_clean (src/project/derived.c,            *)
(* derived_paths.c): the directory one toolchain generates into, over a     *)
(* history of syncs and checks, with the user changing files in between and *)
(* a run failing or being killed at any point. Each file is replaced whole, *)
(* as CacheFile shows of fr_cache_write_atomic.                             *)
(***************************************************************************)
EXTENDS Naturals

CONSTANTS Names,                    \* paths as a plugin spells them
          Files, FileOf,            \* files, and the one a path leads to
          Texts, None
ASSUME DerivedAssumption ==
  /\ FileOf \in [Names -> Files]
  /\ None \notin Texts

Listing  == [Names -> Texts \cup {None}]
Nothing  == [n \in Names |-> None]

VARIABLES disk,                     \* what each file holds
          ledger,                   \* ".daukle-generated": a text per path
          phase,                    \* where the call is
          write,                    \* sync, or check
          files,                    \* what the plugin generated, or Nothing
          todo,                     \* paths the loop it is in has still to see
          previous,                 \* the ledger as the call read it
          report,                   \* paths it wrote or removed, or would have
          settled,                  \* history: what the last sync to succeed
                                    \* generated, None once something else
                                    \* has happened
          known,                    \* history: texts generated for each file
          origin,                   \* history: who put the file as it is
          tidy                      \* history: no sync was cut short
call == <<phase, write, files, todo, previous, report>>
histories == <<settled, known, origin, tidy>>
vars == <<disk, ledger, call, histories>>

Phases  == {"idle", "writing", "sweeping", "recording", "checked"}
Origins == {"nobody", "daukle", "user"}
Paths(listing) == {n \in Names : listing[n] # None}
Busy == phase \in {"writing", "sweeping", "recording"}

Init ==
  /\ disk = [f \in Files |-> None]
  /\ ledger = Nothing
  /\ phase = "idle"
  /\ write = FALSE
  /\ files = Nothing
  /\ todo = {}
  /\ previous = Nothing
  /\ report = {}
  /\ settled = None
  /\ known = [f \in Files |-> {}]
  /\ origin = [f \in Files |-> "nobody"]
  /\ tidy = TRUE

-----------------------------------------------------------------------------
(* fr_derived_apply                                                        *)

Returns ==
  /\ phase' = "idle" /\ write' = FALSE /\ files' = Nothing /\ todo' = {}
  /\ previous' = Nothing /\ report' = {}

\* The ledger is read; with nothing generated and nothing recorded there is
\* nothing to do.
Apply(listing, writes) ==
  /\ ~Busy
  /\ Paths(listing) # {} \/ Paths(ledger) # {}
  /\ phase' = "writing" /\ write' = writes /\ files' = listing
  /\ todo' = Paths(listing) /\ previous' = ledger /\ report' = {}
  /\ settled' = IF writes THEN None ELSE settled
  /\ known' = [f \in Files |->
                known[f] \cup {listing[n] : n \in {n \in Paths(listing) : FileOf[n] = f}}]
  /\ UNCHANGED <<disk, ledger, origin, tidy>>

Seen(n) == todo' = todo \ {n}
Reported(n) == report' = report \cup {n}
Turn(here, n) == phase = here /\ n \in todo
Unchanged(n) == disk[FileOf[n]] = files[n]

PassUnchanged(n) ==
  /\ Turn("writing", n) /\ Unchanged(n) /\ Seen(n)
  /\ UNCHANGED <<disk, ledger, phase, write, files, previous, report, histories>>

\* Mutant of WriteFile: what was found changed outside is left as it is.
WriteFileUnlessEdited(n) ==
  /\ Turn("writing", n) /\ ~Unchanged(n) /\ Seen(n) /\ Reported(n)
  /\ disk' = IF write /\ disk[FileOf[n]] \in {previous[n], None}
             THEN [disk EXCEPT ![FileOf[n]] = files[n]] ELSE disk
  /\ origin' = IF write THEN [origin EXCEPT ![FileOf[n]] = "daukle"] ELSE origin
  /\ UNCHANGED <<ledger, phase, write, files, previous, settled, known, tidy>>

\* Edited or not, a file that is generated is made what it should be.
WriteFile(n) ==
  /\ Turn("writing", n) /\ ~Unchanged(n) /\ Seen(n) /\ Reported(n)
  /\ disk' = IF write THEN [disk EXCEPT ![FileOf[n]] = files[n]] ELSE disk
  /\ origin' = IF write THEN [origin EXCEPT ![FileOf[n]] = "daukle"] ELSE origin
  /\ UNCHANGED <<ledger, phase, write, files, previous, settled, known, tidy>>

\* Mutant of BeginSweep: there is none.
SkipSweep ==
  /\ phase = "writing" /\ todo = {}
  /\ phase' = "sweeping" /\ todo' = {}
  /\ UNCHANGED <<disk, ledger, write, files, previous, report, histories>>

\* generated_this_run compares the paths as they are spelled.
BeginSweep ==
  /\ phase = "writing" /\ todo = {}
  /\ phase' = "sweeping" /\ todo' = Paths(previous) \ Paths(files)
  /\ UNCHANGED <<disk, ledger, write, files, previous, report, histories>>

\* Gone already, or changed outside daukle, so it is kept.
Keep(n) ==
  /\ Turn("sweeping", n) /\ disk[FileOf[n]] # previous[n] /\ Seen(n)
  /\ UNCHANGED <<disk, ledger, phase, write, files, previous, report, histories>>

\* Mutant of Remove: what is there is not compared with what was recorded.
RemoveAny(n) ==
  /\ Turn("sweeping", n) /\ disk[FileOf[n]] # None /\ Seen(n) /\ Reported(n)
  /\ disk' = IF write THEN [disk EXCEPT ![FileOf[n]] = None] ELSE disk
  /\ origin' = IF write THEN [origin EXCEPT ![FileOf[n]] = "nobody"] ELSE origin
  /\ UNCHANGED <<ledger, phase, write, files, previous, settled, known, tidy>>

\* Mutant of Remove: what it removes, or would, is not reported.
RemoveUnreported(n) ==
  /\ Turn("sweeping", n) /\ disk[FileOf[n]] = previous[n] /\ Seen(n)
  /\ disk' = IF write THEN [disk EXCEPT ![FileOf[n]] = None] ELSE disk
  /\ origin' = IF write THEN [origin EXCEPT ![FileOf[n]] = "nobody"] ELSE origin
  /\ UNCHANGED <<ledger, phase, write, files, previous, report, settled, known, tidy>>

Remove(n) ==
  /\ Turn("sweeping", n) /\ disk[FileOf[n]] = previous[n] /\ Seen(n) /\ Reported(n)
  /\ disk' = IF write THEN [disk EXCEPT ![FileOf[n]] = None] ELSE disk
  /\ origin' = IF write THEN [origin EXCEPT ![FileOf[n]] = "nobody"] ELSE origin
  /\ UNCHANGED <<ledger, phase, write, files, previous, settled, known, tidy>>

\* What remove returned is not looked at.
RemoveFails(n) ==
  /\ Turn("sweeping", n) /\ disk[FileOf[n]] = previous[n] /\ Seen(n) /\ Reported(n)
  /\ write /\ tidy' = FALSE
  /\ UNCHANGED <<disk, ledger, phase, write, files, previous, settled, known, origin>>

EndSweep ==
  /\ phase = "sweeping" /\ todo = {}
  /\ phase' = IF write THEN "recording" ELSE "checked"
  /\ UNCHANGED <<disk, ledger, write, files, todo, previous, report, histories>>

\* ledger_write, and the call returns FR_OK.
Record ==
  /\ phase = "recording"
  /\ ledger' = files /\ settled' = files
  /\ Returns
  /\ UNCHANGED <<disk, known, origin, tidy>>

\* A write of a file or of the ledger failed: FR_ERR, or the process is killed.
\* The files already written stay, and the ledger is what it was.
Stop ==
  /\ Busy
  /\ tidy' = (tidy /\ ~write)
  /\ Returns
  /\ UNCHANGED <<disk, ledger, settled, known, origin>>

-----------------------------------------------------------------------------
(* Between the calls                                                       *)

\* The user writes or deletes a file.
Edit(f, t) ==
  /\ ~Busy /\ disk[f] # t
  /\ disk' = [disk EXCEPT ![f] = t]
  /\ origin' = [origin EXCEPT ![f] = "user"]
  /\ settled' = None
  /\ Returns
  /\ UNCHANGED <<ledger, known, tidy>>

LoseLedger ==
  /\ ~Busy
  /\ ledger' = Nothing /\ settled' = None /\ tidy' = FALSE
  /\ Returns
  /\ UNCHANGED <<disk, known, origin>>

\* daukle clean, which takes the directory and the ledger in it.
Clean ==
  /\ ~Busy
  /\ disk' = [f \in Files |-> None] /\ ledger' = Nothing
  /\ origin' = [f \in Files |-> "nobody"]
  /\ settled' = None /\ tidy' = TRUE
  /\ Returns
  /\ UNCHANGED known

Next ==
  \/ \E listing \in Listing, writes \in BOOLEAN : Apply(listing, writes)
  \/ \E n \in Names : PassUnchanged(n) \/ WriteFile(n) \/ Keep(n) \/ Remove(n) \/ RemoveFails(n)
  \/ BeginSweep \/ EndSweep \/ Record \/ Stop
  \/ \E f \in Files, t \in Texts \cup {None} : Edit(f, t)
  \/ LoseLedger \/ Clean

Spec == Init /\ [][Next]_vars

-----------------------------------------------------------------------------
TypeOK ==
  /\ disk \in [Files -> Texts \cup {None}]
  /\ ledger \in Listing
  /\ phase \in Phases /\ write \in BOOLEAN
  /\ files \in Listing /\ todo \in SUBSET Names
  /\ previous \in Listing /\ report \in SUBSET Names
  /\ settled \in Listing \cup {None}
  /\ known \in [Files -> SUBSET Texts]
  /\ origin \in [Files -> Origins]
  /\ tidy \in BOOLEAN

\* After a sync that succeeded every generated file is there and holds what was
\* generated, whatever was there before and whatever earlier runs left undone
\* (derived.h: a file changed outside "is overwritten when still generated").
GeneratedIsThere ==
  settled # None => \A n \in Paths(settled) : disk[FileOf[n]] = settled[n]

\* A sync or a check takes away only what daukle generated: a file that holds anything
\* else is kept, through failed and killed runs and a stale ledger (derived.h:
\* "deleting a file someone edited is unrecoverable where a stale one is merely
\* visible").
EditsAreKept ==
  [][Busy => \A f \in Files : disk[f] # None /\ disk'[f] = None => disk[f] \in known[f]]_vars

\* A check's answer is the sync's: nothing to report right after a sync of the
\* same files, and when it has nothing to report, a sync would find every file
\* as generated and none to take away (derived.h:
\* "check and sync differ only in whether they write").
CheckIsHonest ==
  phase = "checked" =>
    /\ settled # None /\ settled = files => report = {}
    /\ report = {} =>
         /\ \A n \in Paths(files) : disk[FileOf[n]] = files[n]
         /\ \A n \in Paths(ledger) \ Paths(files) : disk[FileOf[n]] # ledger[n]

\* As long as no sync was cut short, what daukle put there and no longer
\* generates is gone after the next sync.
NoStrays ==
  tidy /\ settled # None =>
    \A f \in Files : origin[f] = "daukle" => \E n \in Paths(settled) : FileOf[n] = f
=============================================================================
