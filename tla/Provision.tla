----------------------------- MODULE Provision ------------------------------
(***************************************************************************)
(* fr_provision (src/provision/provision.c): the toolchains directory of    *)
(* the cache, filled by processes on machines that share it. A toolchain    *)
(* is fetched and unpacked in a temporary directory and moved, whole, to    *)
(* the directory its digest names; a directory that is there is never       *)
(* looked into again. A process may be killed at any point, and its pid     *)
(* given to a later one.                                                    *)
(***************************************************************************)
EXTENDS Naturals

CONSTANTS Machines, Pids,           \* a process is a machine and a pid
          Digests,                  \* what a pin, and the bytes served, can be
          Members,                  \* what an archive unpacks to
          MaxAttempts,              \* bound: provisions one process makes
          None
ASSUME ProvisionAssumption ==
  /\ Members # {}
  /\ MaxAttempts \in Nat
  /\ None \notin Digests

Processes == Machines \X Pids
Attempts  == 0..MaxAttempts
TempNames == Machines \X Pids \X Attempts
Files     == Digests \X Members     \* a member, and the archive it is from
Complete(digest) == {digest} \X Members

VARIABLES entries,                  \* "<toolchains>/<digest>": its files
          temps,                    \* "<toolchains>/.partial-<host>-<pid>-<n>"
          step, want, temp,         \* per process: where it is, and its locals
          opened, left, status,     \* the archive being read, what it still holds
          attempts,                 \* per process: next_attempt's counter
          result,                   \* per process: what the last call returned
          abandoned                 \* history: temps whose process was killed
calls == <<step, want, temp, opened, left, status>>
vars  == <<entries, temps, calls, attempts, result, abandoned>>

Steps == {"idle", "clearing", "making", "fetching", "opening", "unpacking", "cleaning"}
Results == {"none", "ok", "err"}
Nothing == {}                       \* no such directory: no archive is empty
Tree == SUBSET Files
Temp == [there : BOOLEAN, archive : Digests \cup {None}, tree : Tree]
Gone == [there |-> FALSE, archive |-> None, tree |-> Nothing]

\* Mutant of TempName: the machine is no part of the name.
TempNameByPid(process, attempt) == <<CHOOSE m \in Machines : TRUE, process[2], attempt>>

\* host_component, current_process_id and next_attempt.
TempName(process, attempt) == <<process[1], process[2], attempt>>

Init ==
  /\ entries = [d \in Digests |-> Nothing]
  /\ temps = [n \in TempNames |-> Gone]
  /\ step = [p \in Processes |-> "idle"]
  /\ want = [p \in Processes |-> None]
  /\ temp = [p \in Processes |-> TempName(p, 0)]
  /\ opened = [p \in Processes |-> None]
  /\ left = [p \in Processes |-> {}]
  /\ status = [p \in Processes |-> "none"]
  /\ attempts = [p \in Processes |-> 0]
  /\ result = [p \in Processes |-> "none"]
  /\ abandoned = {}

At(p, here) == step[p] = here
To(p, there) == step' = [step EXCEPT ![p] = there]
Mine(p) == temps[temp[p]]
Puts(p, contents) == temps' = [temps EXCEPT ![temp[p]] = contents]
Returns(p, code) ==
  /\ To(p, "idle")
  /\ result' = [result EXCEPT ![p] = code]
  /\ opened' = [opened EXCEPT ![p] = None]
  /\ left' = [left EXCEPT ![p] = {}]
  /\ status' = [status EXCEPT ![p] = "none"]
CleansUp(p, code) == To(p, "cleaning") /\ status' = [status EXCEPT ![p] = code]

-----------------------------------------------------------------------------
\* fr_cache_directory_exists: a hit, and nothing is fetched.
AnswerCached(p, d) ==
  /\ At(p, "idle") /\ entries[d] # Nothing
  /\ want' = [want EXCEPT ![p] = d]
  /\ Returns(p, "ok")
  /\ UNCHANGED <<entries, temps, temp, attempts, abandoned>>

Begin(p, d) ==
  /\ At(p, "idle") /\ entries[d] = Nothing /\ attempts[p] < MaxAttempts
  /\ To(p, "clearing")
  /\ want' = [want EXCEPT ![p] = d]
  /\ temp' = [temp EXCEPT ![p] = TempName(p, attempts[p])]
  /\ attempts' = [attempts EXCEPT ![p] = @ + 1]
  /\ result' = [result EXCEPT ![p] = "none"]
  /\ UNCHANGED <<entries, temps, opened, left, status, abandoned>>

\* fr_remove_tree, of what an earlier process of the name may have left.
Clear(p) ==
  /\ At(p, "clearing") /\ To(p, "making")
  /\ Puts(p, Gone)
  /\ UNCHANGED <<entries, want, temp, opened, left, status, attempts, result, abandoned>>

\* make_directory, for which one that is there is as good.
Make(p) ==
  /\ At(p, "making") /\ To(p, "fetching")
  /\ Puts(p, [Mine(p) EXCEPT !.there = TRUE])
  /\ UNCHANGED <<entries, want, temp, opened, left, status, attempts, result, abandoned>>

MakeFails(p) ==
  /\ At(p, "making") /\ Returns(p, "err")
  /\ UNCHANGED <<entries, temps, want, temp, attempts, abandoned>>

\* fetch_and_verify: the bytes go to "archive" as they arrive and are digested
\* on the way; the pin is compared with what arrived.
Fetch(p, served) ==
  /\ At(p, "fetching") /\ Mine(p).there
  /\ Puts(p, [Mine(p) EXCEPT !.archive = served])
  /\ IF served = want[p] THEN To(p, "opening") /\ UNCHANGED status
                         ELSE CleansUp(p, "err")
  /\ UNCHANGED <<entries, want, temp, opened, left, attempts, result, abandoned>>

FetchFails(p) ==
  /\ At(p, "fetching") /\ CleansUp(p, "err")
  /\ UNCHANGED <<entries, temps, want, temp, opened, left, attempts, result, abandoned>>

\* unpack_into: the directory "tree", and the archive opened once.
OpenArchive(p) ==
  /\ At(p, "opening") /\ Mine(p).archive # None
  /\ To(p, "unpacking")
  /\ opened' = [opened EXCEPT ![p] = Mine(p).archive]
  /\ left' = [left EXCEPT ![p] = Members]
  /\ UNCHANGED <<entries, temps, want, temp, status, attempts, result, abandoned>>

OpenFails(p) ==
  /\ At(p, "opening") /\ CleansUp(p, "err")
  /\ UNCHANGED <<entries, temps, want, temp, opened, left, attempts, result, abandoned>>

\* fr_unpack, one member; the directories above it are made as it goes.
UnpackMember(p, member) ==
  /\ At(p, "unpacking") /\ member \in left[p]
  /\ left' = [left EXCEPT ![p] = @ \ {member}]
  /\ Puts(p, [Mine(p) EXCEPT !.there = TRUE, !.tree = @ \cup {<<opened[p], member>>}])
  /\ UNCHANGED <<entries, step, want, temp, opened, status, attempts, result, abandoned>>

UnpackFails(p) ==
  /\ At(p, "unpacking") /\ CleansUp(p, "err")
  /\ UNCHANGED <<entries, temps, want, temp, opened, left, attempts, result, abandoned>>

\* fr_cache_rename_directory, which does not replace a directory that is there.
MoveIn(p) ==
  /\ At(p, "unpacking") /\ left[p] = {}
  /\ Mine(p).tree # Nothing /\ entries[want[p]] = Nothing
  /\ entries' = [entries EXCEPT ![want[p]] = Mine(p).tree]
  /\ Puts(p, [Mine(p) EXCEPT !.tree = Nothing])
  /\ CleansUp(p, "ok")
  /\ UNCHANGED <<want, temp, opened, left, attempts, result, abandoned>>

\* Mutant of MoveRefused: the other process's entry is not looked for.
MoveRefusedUnasked(p) ==
  /\ At(p, "unpacking") /\ left[p] = {}
  /\ CleansUp(p, "ok")
  /\ UNCHANGED <<entries, temps, want, temp, opened, left, attempts, result, abandoned>>

\* Mutant of MoveRefused: what is in the way is removed, for a next attempt.
MoveRefusedClearing(p) ==
  /\ At(p, "unpacking") /\ left[p] = {}
  /\ entries' = [entries EXCEPT ![want[p]] = Nothing]
  /\ CleansUp(p, "err")
  /\ UNCHANGED <<temps, want, temp, opened, left, attempts, result, abandoned>>

\* The move was refused: another process was first, which is as good, or the
\* file system would not.
MoveRefused(p) ==
  /\ At(p, "unpacking") /\ left[p] = {}
  /\ CleansUp(p, IF entries[want[p]] # Nothing THEN "ok" ELSE "err")
  /\ UNCHANGED <<entries, temps, want, temp, opened, left, attempts, result, abandoned>>

\* Mutant of CleanUp: the temporary directory is removed after a success only.
CleanUpAfterSuccess(p) ==
  /\ At(p, "cleaning") /\ Returns(p, status[p])
  /\ Puts(p, IF status[p] = "ok" THEN Gone ELSE Mine(p))
  /\ UNCHANGED <<entries, want, temp, attempts, abandoned>>

CleanUp(p) ==
  /\ At(p, "cleaning") /\ Returns(p, status[p])
  /\ Puts(p, Gone)
  /\ UNCHANGED <<entries, want, temp, attempts, abandoned>>

\* The process is killed; a later one may be given its pid, and counts from 0.
Die(p) ==
  /\ Returns(p, "none")
  /\ attempts' = [attempts EXCEPT ![p] = 0]
  /\ abandoned' = IF At(p, "idle") THEN abandoned ELSE abandoned \cup {temp[p]}
  /\ UNCHANGED <<entries, temps, want, temp>>

Provision(p) ==
  \/ \E d \in Digests : AnswerCached(p, d) \/ Begin(p, d) \/ Fetch(p, d)
  \/ Clear(p) \/ Make(p) \/ MakeFails(p) \/ FetchFails(p)
  \/ OpenArchive(p) \/ OpenFails(p)
  \/ \E member \in Members : UnpackMember(p, member)
  \/ UnpackFails(p) \/ MoveIn(p) \/ MoveRefused(p) \/ CleanUp(p)

Next == \E p \in Processes : Provision(p) \/ Die(p)

Spec == Init /\ [][Next]_vars

-----------------------------------------------------------------------------
TypeOK ==
  /\ entries \in [Digests -> Tree]
  /\ temps \in [TempNames -> Temp]
  /\ step \in [Processes -> Steps]
  /\ want \in [Processes -> Digests \cup {None}]
  /\ temp \in [Processes -> TempNames]
  /\ opened \in [Processes -> Digests \cup {None}]
  /\ left \in [Processes -> SUBSET Members]
  /\ status \in [Processes -> Results]
  /\ attempts \in [Processes -> Attempts]
  /\ result \in [Processes -> Results]
  /\ abandoned \in SUBSET TempNames

\* A toolchain's directory, once it is there, holds every file of the archive
\* its digest names and no other: not part of one, not two archives' files
\* mixed, whoever was killed or raced (provision.c: "a present directory is a
\* complete one"; nothing checks it again).
PresentIsComplete == \A d \in Digests : entries[d] # Nothing => entries[d] = Complete(d)

\* What a caller was told is there, is: a call that returned FR_OK, also when
\* the move was refused because another process got there first.
AnsweredIsThere == \A p \in Processes : result[p] = "ok" => entries[want[p]] # Nothing

\* A toolchain another process may be running from is never replaced or taken
\* away.
EntriesStay == [][\A d \in Digests : entries[d] # Nothing => entries'[d] = entries[d]]_vars

\* Only a killed process leaves a temporary directory: by the time a call
\* returns, failed or not, its own is gone.
NoLitter ==
  \A n \in TempNames : temps[n] # Gone =>
    n \in abandoned \/ \E p \in Processes : step[p] # "idle" /\ temp[p] = n
=============================================================================
