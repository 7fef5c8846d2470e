---------------------------- MODULE ProofCompare ----------------------------
(***************************************************************************)
(* Comparing what the old build made with what the new one made            *)
(* (src/migrate/proof.c, proof_archive.c).                                 *)
(*                                                                         *)
(* An artifact is [lines, newline, members]: its text as a sequence of     *)
(* lines and whether the last one is ended (or NotText when a byte of it   *)
(* is NUL), and the members of the archive it is, or NotArchive.  A member *)
(* is [name, kind, bytes, value], under a name of its own; value is what   *)
(* the JSON of a member whose name says so means, or NotJson.              *)
(* Two artifacts are equal exactly when their bytes are.                   *)
(***************************************************************************)
EXTENDS Naturals, FiniteSets, SequencesExt

CONSTANTS MaxMembers, MaxDifferences,   \* MAX_MEMBERS, FR_PROOF_MAX_DIFFERENCES
          NotText, NotArchive, NotJson, Unreadable

(***************************************************************************)
(* Archives: the members that are not directories, by name; a symlink is   *)
(* a difference whatever it points at, and JSON counts by its value when   *)
(* asked to (add_member, json_value_digest).                               *)
(***************************************************************************)
Listable(artifact) ==
  artifact.members # NotArchive
    /\ Len(SelectSeq(artifact.members, LAMBDA m : m.kind # "directory")) <= MaxMembers

Compared(artifact) == {m \in ToSet(artifact.members) : m.kind # "directory"}
Member(artifact, name) == CHOOSE m \in Compared(artifact) : m.name = name
Digest(m, byValue) == IF byValue /\ m.value # NotJson THEN <<"value", m.value>> ELSE <<"bytes", m.bytes>>

MemberDifference(name, old, new, byValue) ==
  IF name \notin {m.name : m \in Compared(new)} THEN "only-old"
  ELSE IF name \notin {m.name : m \in Compared(old)} THEN "only-new"
  ELSE IF Member(old, name).kind = "symlink" THEN "symlink-old"
  ELSE IF Member(new, name).kind = "symlink" THEN "symlink-new"
  ELSE IF Digest(Member(old, name), byValue) # Digest(Member(new, name), byValue) THEN "bytes"
  ELSE "none"

\* walk_sorted_members, without its limit on how many it lists.
ArchiveDifferences(old, new, byValue) ==
  {d \in [member : {m.name : m \in Compared(old) \cup Compared(new)},
          kind : {"only-old", "only-new", "symlink-old", "symlink-new", "bytes"}] :
     d.kind = MemberDifference(d.member, old, new, byValue)}

(***************************************************************************)
(* Bytes: the lines only one side has, as bags (match_lines), or why there *)
(* are none (report_line_difference).                                      *)
(***************************************************************************)
LineReport(old, new) ==
  IF old.lines = NotText \/ new.lines = NotText THEN {"digests"}
  ELSE LET was == ToBag(old.lines)
           is == ToBag(new.lines)
           only == (IF was (-) is # EmptyBag THEN {"lines only in the old"} ELSE {})
                   \cup (IF is (-) was # EmptyBag THEN {"lines only in the new"} ELSE {})
       IN IF only # {} THEN only
          ELSE IF old.lines = new.lines THEN {"only the final newline"} ELSE {"order of the lines"}

(***************************************************************************)
(* fr_proof_compare and fr_proof_list_differences.  A side that cannot be  *)
(* read is an error, never sameness.                                       *)
(***************************************************************************)
CanCompare(old, new, as) ==
  /\ old # Unreadable /\ new # Unreadable
  /\ as # "bytes" => Listable(old) /\ Listable(new)

Same(old, new, as) ==
  CanCompare(old, new, as)
    /\ IF as = "bytes" THEN old = new
       ELSE ArchiveDifferences(old, new, as = "archive-json") = {}

\* What fr_proof_compare prints of two sides that differ.
Explained(old, new, as) ==
  IF ~CanCompare(old, new, as) THEN {"cannot be compared"}
  ELSE IF as # "bytes" THEN {d.kind : d \in ArchiveDifferences(old, new, as = "archive-json")}
  ELSE IF old = new THEN {} ELSE LineReport(old, new)

ListDifferences(old, new, as) ==
  IF ~CanCompare(old, new, as) THEN [ok |-> FALSE, count |-> 0, truncated |-> FALSE]
  ELSE LET all == IF as = "bytes" THEN (IF old = new THEN 0 ELSE 1)
                  ELSE Cardinality(ArchiveDifferences(old, new, as = "archive-json"))
       IN [ok |-> TRUE, count |-> IF all < MaxDifferences THEN all ELSE MaxDifferences,
           truncated |-> all > MaxDifferences]
=============================================================================
