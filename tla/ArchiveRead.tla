----------------------------- MODULE ArchiveRead -----------------------------
(***************************************************************************)
(* Reading a tar, a tar.gz or a zip one member at a time                   *)
(* (src/archive/archive.c, archive_tar.c, archive_zip.c, tar.c).           *)
(*                                                                         *)
(* A raw archive is [head, intact, entries]: what its first bytes are,     *)
(* whether its own header or directory can be read, and its headers in the *)
(* order of the file.  A name is a sequence of components, as it is        *)
(* spelled; its number of components stands for its length.                *)
(***************************************************************************)
EXTENDS Shapes, SequencesExt

CONSTANTS
  MaxFullName,      \* FR_TAR_MAX_FULL_NAME, FR_ARCHIVE_MAX_NAME and the pax and GNU slots
  MaxMemberBytes    \* FR_UNPACK_DEFAULTS.max_member_bytes, the cap an archive is opened with

ArchiveKinds == {"tar", "tar.gz", "zip"}

Extensions == {"pax", "global", "long name", "long link"}

\* decide_kind, start_reading
Opens(raw) == raw.head \in ArchiveKinds /\ raw.intact
IsTar(raw) == raw.head # "zip"

\* Names and links are spelled out; an extension header may have none, or (Malformed) not parse.
IsSpelled(value) == value \in Seq(STRING)
AreHeaders(raw) ==
  /\ raw.entries \in Seq({raw.entries[n] : n \in DOMAIN raw.entries})
  /\ \A n \in DOMAIN raw.entries :
       LET e == raw.entries[n]
       IN  /\ e.size \in Nat /\ {e.slash, e.exec} \subseteq BOOLEAN
           /\ (IsTar(raw) /\ e.type \in Extensions) \/ IsSpelled(e.name)
           /\ e.type = "symlink" => IsSpelled(e.link)
           /\ e.name \in {Missing, Malformed} \/ IsSpelled(e.name)
           /\ e.link = Missing \/ IsSpelled(e.link)

(***************************************************************************)
(* Tar.  A pax or GNU header names the one member that follows it; both    *)
(* write the same two slots, and the last to write one wins.               *)
(***************************************************************************)
MemberTypes == {"file", "directory", "symlink"}
Slots == [name |-> Missing, slash |-> FALSE, link |-> Missing]
FitsSlot(value) == value # <<>> /\ Len(value) <= MaxFullName

\* read_pax_records and read_gnu_long_name: what does not parse, fit or may not be global.
ExtensionIsWell(e) ==
  /\ e.name # Malformed
  /\ e.name # Missing => FitsSlot(e.name) /\ e.type # "global"
  /\ e.link # Missing => FitsSlot(e.link) /\ e.type # "global"

Extended(slots, e) ==
  [name |-> IF e.name = Missing THEN slots.name ELSE e.name,
   slash |-> IF e.name = Missing THEN slots.slash ELSE e.slash,
   link |-> IF e.link = Missing THEN slots.link ELSE e.link]

\* fr_tar_read_header, then fr_archive_tar_next past its extension headers.
HeaderIsWell(e) == e.sound /\ e.name # <<>> /\ Len(e.name) <= MaxFullName
TarMemberIsWell(e) == HeaderIsWell(e) /\ e.type \in MemberTypes /\ e.size <= MaxMemberBytes

\* The slots are applied after the header's own fields and emptied here.
TarMember(slots, e) ==
  [name |-> IF slots.name = Missing THEN e.name ELSE slots.name,
   slash |-> IF slots.name = Missing THEN e.slash ELSE slots.slash,
   kind |-> e.type, text |-> e.text, size |-> e.size, exec |-> e.exec, setuid |-> e.setuid,
   target |-> IF slots.link = Missing THEN e.link ELSE slots.link]

(***************************************************************************)
(* Zip: the local header and the central directory must say the same.      *)
(***************************************************************************)
LocalAgrees(e) ==
  /\ e.local = e.name
  /\ ~e.zip64      \* its size would be in a zip64 field
  /\ e.localSize = e.size \/ (e.localSize = 0 /\ e.described)
ZipMemberIsWell(e) ==
  /\ Len(e.name) <= MaxFullName
  /\ LocalAgrees(e)
  /\ e.slash \/ (e.size <= MaxMemberBytes /\ e.sound)

\* A name that ends in "/" is a directory; a link is a file that holds its target.
ZipMember(e) ==
  [name |-> e.name, slash |-> e.slash, kind |-> IF e.slash THEN "directory" ELSE "file",
   text |-> e.text, size |-> IF e.slash THEN 0 ELSE e.size,
   exec |-> e.unix /\ e.exec, setuid |-> e.unix /\ e.setuid, target |-> <<>>]

(***************************************************************************)
(* fr_archive_next as one function of where the reader stands: an error,   *)
(* the end, or a member and where the reader stands then.                  *)
(***************************************************************************)
Fresh == [at |-> 1, slots |-> Slots]
Ended(raw, reader) ==
  IF IsTar(raw) THEN reader.at <= Len(raw.entries) /\ raw.entries[reader.at].type = "end"
  ELSE reader.at > Len(raw.entries)

IsExtension(raw, n) == IsTar(raw) /\ n <= Len(raw.entries) /\ raw.entries[n].type \in Extensions
AfterExtensions(raw, at) ==
  CHOOSE n \in at..(Len(raw.entries) + 1) :
    ~IsExtension(raw, n) /\ \A m \in at..(n - 1) : IsExtension(raw, m)

\* Where the reader stands once the extension headers before the next member are read.
Past(raw, reader) ==
  LET next == AfterExtensions(raw, reader.at)
      slots[n \in (reader.at - 1)..(next - 1)] ==
        IF n = reader.at - 1 THEN reader.slots ELSE Extended(slots[n - 1], raw.entries[n])
  IN [at |-> next, slots |-> slots[next - 1]]

ExtensionsAreWell(raw, reader) ==
  \A n \in reader.at..(AfterExtensions(raw, reader.at) - 1) : ExtensionIsWell(raw.entries[n])

\* A tar that is cut ends before its end block.
MemberIsWell(raw, reader) ==
  /\ reader.at <= Len(raw.entries)
  /\ LET e == raw.entries[reader.at] IN IF IsTar(raw) THEN TarMemberIsWell(e) ELSE ZipMemberIsWell(e)

AfterMember(reader) == [at |-> reader.at + 1, slots |-> Slots]

MemberAt(raw, reader) ==
  IF IsTar(raw) THEN TarMember(reader.slots, raw.entries[reader.at]) ELSE ZipMember(raw.entries[reader.at])
=============================================================================
