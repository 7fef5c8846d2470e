------------------------------- MODULE Unpack -------------------------------
(***************************************************************************)
(* Writing an archive's members below a directory (src/archive/unpack.c,   *)
(* unpack_paths.c, unpack_links.c, util/tree.c).                           *)
(*                                                                         *)
(* The tree is a function from the paths below the destination to nodes;   *)
(* <<>> is the destination.  Every write goes through the links that are   *)
(* in the tree, as the operating system's does.  A link that cannot be     *)
(* created is put off until the archive ends and then copied, if it can be.*)
(***************************************************************************)
EXTENDS ArchiveRead

CONSTANTS
  Archives,             \* the raw archives a run may be given
  Backslashed, Drives,  \* the components with a backslash, and those that begin with a drive
  Dotted,               \* those with ".." inside a longer name
  MaxTotal, MaxMembers, MaxPath, MaxHops,   \* fr_unpack_limits, UNPACK_MAX_LINK_HOPS
  Fuel                  \* the turns of a walk: a system follows more links than MaxHops, and their targets
ASSUME UnpackAssumption ==
  /\ {MaxTotal, MaxMembers, MaxPath, MaxHops, Fuel} \subseteq Nat
  /\ \A some \in Archives : AreHeaders(some)
  /\ \E most \in 0..Fuel :
       /\ MaxPath + MaxHops * most <= Fuel
       /\ \A some \in Archives : \A n \in DOMAIN some.entries :
            some.entries[n].link # Missing \/ some.entries[n].type = "symlink" =>
              Len(some.entries[n].link) <= most

VARIABLES
  raw, linksWork,       \* the archive, and whether this machine creates links
  phase, reader, tree,
  seen, links, deferred, total, members,    \* fr_unpack's locals
  copied, unresolved,   \* fr_unpack_report: the links that are copies, and those that are not there
  at

locals == <<seen, links, deferred, total, members>>
unpackVars == <<raw, linksWork, phase, reader, tree, locals, copied, unresolved, at>>

(***************************************************************************)
(* The operating system's part.                                            *)
(***************************************************************************)
Directory == [kind |-> "directory", text |-> Missing, size |-> 0, exec |-> FALSE, target |-> <<>>]
FileNode(text, size, exec) == [kind |-> "file", text |-> text, size |-> size, exec |-> exec, target |-> <<>>]
LinkTo(target) == [kind |-> "symlink", text |-> Missing, size |-> 0, exec |-> FALSE, target |-> target]
NoName == ""                    \* what is between two "/"
Nowhere == <<NoName>>
Put(t, path, node) == [p \in DOMAIN t \cup {path} |-> IF p = path THEN node ELSE t[p]]
Drop(t, path) == [p \in DOMAIN t \ {path} |-> t[p]]
IsDirectory(t, path) == path \in DOMAIN t /\ t[path].kind = "directory"

WalkOne(t, s) ==
  LET name == Head(s.todo)
      next == Append(s.at, name)
      rest == Tail(s.todo)
  IN IF s.todo = <<>> \/ s.at = Nowhere THEN s
     ELSE IF ~IsDirectory(t, s.at) THEN [at |-> Nowhere, todo |-> <<>>]
     ELSE IF name \in {NoName, "."} THEN [s EXCEPT !.todo = rest]
     ELSE IF name = ".." THEN [at |-> IF s.at = <<>> THEN Nowhere ELSE Front(s.at), todo |-> rest]
     ELSE IF next \notin DOMAIN t THEN [at |-> Nowhere, todo |-> <<>>]
     ELSE IF t[next].kind = "symlink" THEN [s EXCEPT !.todo = t[next].target \o rest]
     ELSE [at |-> next, todo |-> rest]

\* Where a path leads, every link on it followed.
Walk(t, path) ==
  LET step[n \in 0..Fuel] == IF n = 0 THEN [at |-> <<>>, todo |-> path] ELSE WalkOne(t, step[n - 1])
  IN IF step[Fuel].todo = <<>> THEN step[Fuel].at ELSE Nowhere

\* The last name of a path is not followed: not by mkdir, not by symlink, not with O_NOFOLLOW.
Leaf(t, path) ==
  LET parent == Walk(t, Front(path))
  IN IF IsDirectory(t, parent) THEN Append(parent, Last(path)) ELSE Nowhere

\* make_one_directory: what is already there, whatever it is, is good enough.
MakeOne(made, path) ==
  LET leaf == Leaf(made.tree, path)
  IN IF ~made.ok \/ leaf = Nowhere THEN [made EXCEPT !.ok = FALSE]
     ELSE IF leaf \in DOMAIN made.tree THEN made
     ELSE [made EXCEPT !.tree = Put(@, leaf, Directory)]
MakeTree(t, path) ==
  LET made[n \in 0..Len(path)] ==
        IF n = 0 THEN [ok |-> TRUE, tree |-> t] ELSE MakeOne(made[n - 1], SubSeq(path, 1, n))
  IN made[Len(path)]

\* open_new_file: neither a directory nor a link, nor a name that ends in "/".
CanOpen(t, name, slash) ==
  LET leaf == Leaf(t, name)
  IN ~slash /\ leaf # Nowhere /\ (leaf \in DOMAIN t => t[leaf].kind = "file")

\* create_native_link
CanLink(t, name, slash) ==
  /\ linksWork /\ ~slash
  /\ Leaf(t, name) # Nowhere /\ Leaf(t, name) \notin DOMAIN t

(***************************************************************************)
(* What is refused of a name and of a link's target.                       *)
(***************************************************************************)
NameIsSafe(name) ==
  /\ name # <<>> /\ name[1] \notin Drives
  /\ \A n \in 1..Len(name) : name[n] \notin {NoName, ".", ".."} \cup Dotted \cup Backslashed

\* Mutant: every prefix is taken for a directory.
ThroughALinkNever(m) == FALSE

\* refuse_reaching_through_a_link, at every "/" of the name.
ThroughALink(m) ==
  \E n \in 1..(IF m.slash THEN Len(m.name) ELSE Len(m.name) - 1) : SubSeq(m.name, 1, n) \in links

\* target_stays_inside: lexically, from the directory the link sits in.
StaysInside(name, target) ==
  LET depth[n \in 0..Len(target)] ==
        IF n = 0 THEN Len(name) - 1
        ELSE IF depth[n - 1] < 0 \/ target[n] \in {NoName, "."} THEN depth[n - 1]
        ELSE IF target[n] = ".." THEN depth[n - 1] - 1 ELSE depth[n - 1] + 1
  IN depth[Len(target)] >= 0
TargetIsSafe(name, target) ==
  /\ target # <<>> /\ target[1] \notin {""} \cup Drives
  /\ \A n \in 1..Len(target) : target[n] \notin Backslashed
  /\ StaysInside(name, target)

\* refuse_unwritable_name, refuse_reaching_through_a_link, refuse_oversized_member, write_member.
Refused(m) ==
  \/ ~NameIsSafe(m.name) \/ Len(m.name) > MaxPath
  \/ <<m.name, m.slash>> \in seen
  \/ ThroughALink(m)
  \/ m.size > MaxMemberBytes \/ m.size > MaxTotal - total
  \/ m.kind = "symlink" /\ ~TargetIsSafe(m.name, m.target)
  \/ m.kind = "file" /\ m.setuid

(***************************************************************************)
(* fr_unpack.                                                              *)
(***************************************************************************)
UnpackInit ==
  /\ raw \in Archives /\ linksWork \in BOOLEAN
  /\ phase = "closed" /\ reader = Fresh /\ at = 1
  /\ tree = [p \in {<<>>} |-> Directory]
  /\ seen = {} /\ links = {} /\ deferred = <<>> /\ total = 0 /\ members = 0
  /\ copied = {} /\ unresolved = {}

Fail == phase' = "failed" /\ UNCHANGED <<raw, linksWork, reader, locals, copied, unresolved, at>>

Open ==
  /\ phase = "closed"
  /\ phase' \in IF Opens(raw) THEN {"reading", "failed"} ELSE {"failed"}
  /\ UNCHANGED <<raw, linksWork, reader, tree, locals, copied, unresolved, at>>

Here == Past(raw, reader)
Next1 == MemberAt(raw, Here)

RefuseArchive ==
  /\ phase = "reading"
  /\ \/ ~ExtensionsAreWell(raw, reader)
     \/ ~Ended(raw, Here) /\ ~MemberIsWell(raw, Here)
     \/ ~Ended(raw, Here) /\ members = MaxMembers
  /\ Fail /\ UNCHANGED tree

MemberIsNext ==
  /\ phase = "reading"
  /\ ExtensionsAreWell(raw, reader)
  /\ ~Ended(raw, Here) /\ MemberIsWell(raw, Here)
  /\ members < MaxMembers

RefuseMember == MemberIsNext /\ Refused(Next1) /\ Fail /\ UNCHANGED tree

Counted ==      \* what every member leaves in the locals and the reader
  /\ reader' = AfterMember(Here)
  /\ members' = members + 1 /\ total' = total + Next1.size
  /\ seen' = seen \cup {<<Next1.name, Next1.slash>>}
  /\ UNCHANGED <<raw, linksWork, phase, unresolved, copied, at>>

\* The parents of "a/" are a itself: strrchr finds its last "/".
Parents(m) == IF m.slash THEN m.name ELSE Front(m.name)

\* A mkdir that fails, or memory that runs out, leaves the directories above.
StopsMaking(path) ==
  \E n \in 0..(Len(path) - 1) : tree' = MakeTree(tree, SubSeq(path, 1, n)).tree /\ Fail

WriteDirectory ==
  /\ MemberIsNext /\ ~Refused(Next1) /\ Next1.kind = "directory"
  /\ LET made == MakeTree(tree, Next1.name)
     IN \/ made.ok /\ tree' = made.tree /\ Counted /\ UNCHANGED <<links, deferred>>
        \/ ~made.ok /\ tree' = made.tree /\ Fail
        \/ StopsMaking(Next1.name)

\* A write that fails removes what it wrote; a mode that cannot be set leaves the file.
WriteFile ==
  /\ MemberIsNext /\ ~Refused(Next1) /\ Next1.kind = "file"
  /\ LET m == Next1
         made == MakeTree(tree, Parents(m))
         leaf == Leaf(made.tree, m.name)
     IN IF ~made.ok \/ ~CanOpen(made.tree, m.name, m.slash)
        THEN tree' = made.tree /\ Fail
        ELSE \/ /\ tree' = Put(made.tree, leaf, FileNode(m.text, m.size, m.exec))
                /\ Counted /\ UNCHANGED <<links, deferred>>
             \/ StopsMaking(m.name)
             \/ tree' = Drop(made.tree, leaf) /\ Fail
             \/ tree' = Put(made.tree, leaf, FileNode(m.text, m.size, FALSE)) /\ Fail

WriteSymlink ==
  /\ MemberIsNext /\ ~Refused(Next1) /\ Next1.kind = "symlink"
  /\ LET m == Next1
         made == MakeTree(tree, Parents(m))
     IN \/ ~made.ok /\ tree' = made.tree /\ Fail
        \/ /\ made.ok /\ links' = links \cup {m.name} /\ Counted
           /\ IF CanLink(made.tree, m.name, m.slash)
              THEN tree' = Put(made.tree, Leaf(made.tree, m.name), LinkTo(m.target)) /\ UNCHANGED deferred
              ELSE /\ tree' = made.tree
                   /\ deferred' = Append(deferred, [name |-> m.name, slash |-> m.slash, target |-> m.target])
        \/ StopsMaking(m.name)

EndOfArchive ==
  /\ phase = "reading" /\ ExtensionsAreWell(raw, reader) /\ Ended(raw, Here)
  /\ phase' = "links"
  /\ UNCHANGED <<raw, linksWork, reader, tree, locals, copied, unresolved, at>>

(***************************************************************************)
(* fr_unpack_restore_deferred_links.                                       *)
(***************************************************************************)
\* One component of a target, at a directory.
Fold(path, part) ==
  IF part = ".." THEN (IF path = <<>> THEN path ELSE Front(path))
  ELSE IF part \in {NoName, "."} THEN path ELSE Append(path, part)

\* Mutant: a target is resolved against the destination, not against the link's directory.
TargetNameFromTop(dir, target) ==
  LET path[n \in 0..Len(target)] == IF n = 0 THEN <<>> ELSE Fold(path[n - 1], target[n])
  IN path[Len(target)]

\* resolve_target_name: "." and ".." folded by their spelling, from the link's directory, whose
\* name has none; that of a link named "a/" is a.
TargetName(dir, target) ==
  LET path[n \in 0..Len(target)] == IF n = 0 THEN dir ELSE Fold(path[n - 1], target[n])
  IN path[Len(target)]

DeferredAt(name, slash) ==
  {n \in 1..Len(deferred) : deferred[n].name = name /\ deferred[n].slash = slash}

\* resolve_through_links: at most MaxHops links that were put off, and never to itself.
Hop(s) ==
  LET dir == IF s.slash THEN s.name ELSE Front(s.name)
      link == deferred[CHOOSE n \in DeferredAt(s.name, s.slash) : TRUE]
      next == TargetName(dir, link.target)
  IN IF s.found \/ s.lost THEN s
     ELSE IF DeferredAt(s.name, s.slash) = {} THEN [s EXCEPT !.found = TRUE]
     ELSE IF next = <<>> \/ (next = s.name /\ ~s.slash) THEN [s EXCEPT !.lost = TRUE]
     ELSE [s EXCEPT !.name = next, !.slash = FALSE]
Resolved(link) ==
  LET hops[n \in 0..(MaxHops + 1)] ==
        IF n = 0 THEN [name |-> link.name, slash |-> link.slash, found |-> FALSE, lost |-> FALSE]
        ELSE Hop(hops[n - 1])
  IN hops[MaxHops + 1]

\* read_whole_file opens what the path leads to, through the links that were created.
Source(link) == IF Resolved(link).found THEN Walk(tree, Resolved(link).name) ELSE Nowhere
CanRead(path) == path \in DOMAIN tree /\ tree[path].kind = "file"

LinkIsNext == phase = "links" /\ at <= Len(deferred)

\* A link whose source is not a file, or cannot be read whole, is reported.
LeaveUnresolved ==
  /\ LinkIsNext
  /\ unresolved' = unresolved \cup {deferred[at].name} /\ at' = at + 1
  /\ UNCHANGED <<raw, linksWork, phase, reader, tree, locals, copied>>

\* Mutant: a copy is not expansion.
CopyLinkUncounted ==
  /\ LinkIsNext /\ CanRead(Source(deferred[at]))
  /\ LET source == tree[Source(deferred[at])]
         link == deferred[at]
     IN IF ~CanOpen(tree, link.name, link.slash) THEN Fail /\ UNCHANGED tree
        ELSE /\ tree' = Put(tree, Leaf(tree, link.name), FileNode(source.text, source.size, FALSE))
             /\ copied' = copied \cup {link.name} /\ at' = at + 1
             /\ UNCHANGED <<raw, linksWork, phase, reader, locals, unresolved>>

\* The copy is held to the archive's limit, and carries no mode.
CopyLink ==
  /\ LinkIsNext /\ CanRead(Source(deferred[at]))
  /\ LET source == tree[Source(deferred[at])]
         link == deferred[at]
     IN IF source.size > MaxTotal - total \/ ~CanOpen(tree, link.name, link.slash)
        THEN Fail /\ UNCHANGED tree
        ELSE \/ /\ tree' = Put(tree, Leaf(tree, link.name), FileNode(source.text, source.size, FALSE))
                /\ total' = total + source.size
                /\ copied' = copied \cup {link.name} /\ at' = at + 1
                /\ UNCHANGED <<raw, linksWork, phase, reader, seen, links, deferred, members, unresolved>>
             \/ tree' = Drop(tree, Leaf(tree, link.name)) /\ Fail

LinksRestored ==
  /\ phase = "links" /\ at > Len(deferred)
  /\ phase' = "done"
  /\ UNCHANGED <<raw, linksWork, reader, tree, locals, copied, unresolved, at>>

\* The caller's fr_remove_tree: a link is removed as the node it is.
RemoveTree ==
  /\ phase = "failed"
  /\ phase' = "removed" /\ tree' = [p \in {} |-> Directory]
  /\ UNCHANGED <<raw, linksWork, reader, locals, copied, unresolved, at>>

UnpackNext ==
  \/ Open \/ RefuseArchive \/ RefuseMember \/ WriteDirectory \/ WriteFile \/ WriteSymlink
  \/ EndOfArchive \/ LeaveUnresolved \/ CopyLink \/ LinksRestored \/ RemoveTree

UnpackSpec == UnpackInit /\ [][UnpackNext]_unpackVars

(***************************************************************************)
(* What must hold.                                                         *)
(***************************************************************************)
\* What the headers of a tar say of the member at n: the last extension header since the member
\* before it, or else its own.  This is stated of the archive as a whole, not of a reader.
MemberEntries ==
  {n \in 1..Len(raw.entries) : /\ ~IsExtension(raw, n)
                               /\ IsTar(raw) => \A k \in 1..n : raw.entries[k].type # "end"}
Before(n) == {k \in 1..(n - 1) : IsExtension(raw, k) /\ \A j \in k..(n - 1) : IsExtension(raw, j)}
LastNaming(n, names) ==
  LET naming == {k \in Before(n) : IF names THEN raw.entries[k].name # Missing ELSE raw.entries[k].link # Missing}
  IN IF naming = {} THEN n ELSE Max(naming)
SaidName(n) == raw.entries[LastNaming(n, TRUE)].name
SaidTarget(n) == raw.entries[LastNaming(n, FALSE)].link
SaidKind(n) == IF IsTar(raw) THEN raw.entries[n].type ELSE ZipMember(raw.entries[n]).kind

Named(kind) == {n \in MemberEntries : SaidKind(n) = kind}
NamesOf(entries) == {SaidName(n) : n \in entries}

\* An archive that was unpacked is on disk as it says: every file with its bytes and mode under
\* its own name, every link as itself or accounted for (as unpack_links.c says; STRUCTURE.md has
\* a link become nothing, see LinksBecomeNothing), every directory (but one whose name a file has
\* taken), and nothing that is neither a member nor above one.
TreeIsTheArchive ==
  phase = "done" =>
    /\ \A n \in Named("file") :
         /\ SaidName(n) \in DOMAIN tree
         /\ tree[SaidName(n)].kind = "file" /\ tree[SaidName(n)].text = raw.entries[n].text
         /\ tree[SaidName(n)].exec = (raw.entries[n].exec /\ (IsTar(raw) \/ raw.entries[n].unix))
    /\ \A n \in Named("directory") :
         SaidName(n) \in DOMAIN tree
           /\ (tree[SaidName(n)].kind = "directory" \/ SaidName(n) \in NamesOf(Named("file")))
    /\ \A n \in Named("symlink") :
         \/ SaidName(n) \in DOMAIN tree /\ tree[SaidName(n)] = LinkTo(SaidTarget(n))
         \/ SaidName(n) \in copied \cup unresolved
    /\ \A path \in DOMAIN tree \ {<<>>} : \E name \in NamesOf(MemberEntries) : IsPrefix(path, name)

\* What STRUCTURE.md says instead, and toolreport.h: "a symlink member becomes nothing on any
\* platform". It is not so: a link is made, or copied, and only one that cannot be is nothing.
LinksBecomeNothing ==
  phase = "done" =>
    \A n \in Named("symlink") :
      SaidName(n) \in DOMAIN tree => SaidName(n) \in NamesOf(Named("file") \cup Named("directory"))

\* A link that was copied holds what a reader of the link would have read, wherever every link
\* could have stood, in a directory and in nobody's place, and where no target has a ".." after a
\* name or ends in "/" or "/.": such a target is folded by its spelling, whatever the name is.
\* (STRUCTURE.md knows of no copies either: see LinksBecomeNothing.)
LinkNodes == [p \in {SaidName(n) : n \in Named("symlink")} |->
                LinkTo(SaidTarget(CHOOSE n \in Named("symlink") : SaidName(n) = p))]
WithLinks == [p \in DOMAIN tree \cup DOMAIN LinkNodes |->
                IF p \in DOMAIN LinkNodes THEN LinkNodes[p] ELSE tree[p]]
LinksCouldStand ==
  \A p \in DOMAIN LinkNodes :
    /\ IsDirectory(tree, Front(p))
    /\ p \in DOMAIN tree => p \in copied \/ tree[p].kind = "symlink"
FoldsRight(target) ==
  /\ target # <<>> => Last(target) \notin {NoName, "."}
  /\ \A m, n \in 1..Len(target) : m < n /\ target[n] = ".." => target[m] \in {"..", ".", NoName}
CopiesReadTheSame ==
  /\ phase = "done" /\ LinksCouldStand
  /\ \A p \in DOMAIN LinkNodes : FoldsRight(LinkNodes[p].target)
  => \A name \in copied :
       LET there == Walk(WithLinks, name)
       IN there \in DOMAIN tree /\ tree[name].text = WithLinks[there].text

\* What is on disk, copies included, is never more than the limit the archive was given.
WithinTheLimit == MapThenSumSet(LAMBDA p : tree[p].size, DOMAIN tree) <= MaxTotal
=============================================================================
