---------------------------- MODULE FilesProofs ----------------------------
(***************************************************************************)
(* Proofs about the files daukle changes in more than one step: CacheFile, *)
(* for every set of writers, readers and texts, in however many pieces     *)
(* they are written; and Migrate, for every project, catalog, answer and   *)
(* build that MigrateAssumption allows, over however many runs.            *)
(***************************************************************************)
EXTENDS CacheFile, Migrate, SequenceTheorems, FiniteSetTheorems, WellFoundedInduction, TLAPS

-----------------------------------------------------------------------------
(* Cached files.                                                           *)

(* The inductive invariant. Of writes that do not overlap, at most one is  *)
(* open and the temporary name is its; what is renamed or being read was   *)
(* written whole and is named by nothing a writer can reach.               *)

\* A writer has a file and a text exactly while it writes.
LocalsFollow ==
  \A w \in Writers :
    IF step[w] = "idle" THEN fd[w] = None /\ text[w] = None /\ at[w] = 1
                        ELSE fd[w] \in Inodes /\ text[w] \in Texts
OneWriter == \A v, w \in Writers : step[v] # "idle" /\ step[w] # "idle" => v = w
TempIsOpen == \A w \in Writers : step[w] # "idle" => temp = fd[w]
Made == inodes <= opens /\ (temp # None => temp <= inodes)

\* What is written of the text is the text.
Written ==
  \A w \in Writers : step[w] # "idle" =>
    \A i \in Index : i < at[w] => bytes[fd[w]][i] = text[w]

WholeAt(inode) ==
  inode \in Inodes =>
    inode <= inodes /\ inode # temp /\ \E t \in Texts : bytes[inode] = Whole(t)
HeldIsWhole == WholeAt(final) /\ \A r \in Readers : WholeAt(reading[r])

IInv == /\ TypeOK
        /\ LocalsFollow
        /\ OneWriter
        /\ TempIsOpen
        /\ Made
        /\ Written
        /\ HeldIsWhole

-----------------------------------------------------------------------------
(* Lemmas about what is held.                                              *)

LEMMA IndexFacts ==
  /\ Pieces \in Nat /\ Pieces >= 1 /\ MaxOpens \in Nat
  /\ \A i \in Inodes : i \in Nat /\ i # None
  /\ 0 # None /\ 0 \notin Inodes /\ None \notin Inodes
BY CacheFileAssumption DEF Inodes

\* What a step leaves alone and does not name temporary stays whole.
LEMMA WholeStays ==
  ASSUME NEW inode, WholeAt(inode), inodes \in Nat, inodes' \in Nat, inodes' >= inodes,
         inode \in Inodes /\ inode <= inodes /\ inode # temp =>
           bytes'[inode] = bytes[inode] /\ inode # temp'
  PROVE  WholeAt(inode)'
BY IndexFacts DEF WholeAt, Inodes

LEMMA HeldStays ==
  ASSUME IInv, UNCHANGED <<final, reading>>, inodes' \in Nat, inodes' >= inodes,
         \A inode \in Inodes : inode <= inodes /\ inode # temp =>
           bytes'[inode] = bytes[inode] /\ inode # temp'
  PROVE  HeldIsWhole'
<1>1. inodes \in Nat
  BY IndexFacts DEF IInv, TypeOK
<1>2. \A inode : WholeAt(inode) => WholeAt(inode)'
  BY <1>1, WholeStays
<1>3. WholeAt(final) /\ final' = final
  BY DEF IInv, HeldIsWhole
<1>4. WholeAt(final)'
  BY <1>2, <1>3 DEF WholeAt
<1>5. \A r \in Readers : WholeAt(reading[r])'
  BY <1>2 DEF IInv, HeldIsWhole, WholeAt
<1> QED
  BY <1>4, <1>5 DEF HeldIsWhole

\* The locals a writer has after the write has returned.
LEMMA ReturnedLocals ==
  ASSUME IInv, NEW w \in Writers, NEW result \in {"none", "ok", "err"}, Returns(w, result)
  PROVE  /\ step' \in [Writers -> Steps] /\ fd' \in [Writers -> Inodes \cup {None}]
         /\ text' \in [Writers -> Texts \cup {None}] /\ at' \in [Writers -> 1..(Pieces + 1)]
         /\ outcome' \in [Writers -> {"none", "ok", "err"}]
         /\ LocalsFollow' /\ OneWriter'
         /\ step'[w] = "idle"
         /\ \A v \in Writers : v # w => /\ step'[v] = step[v] /\ fd'[v] = fd[v]
                                        /\ text'[v] = text[v] /\ at'[v] = at[v]
<1>1. /\ step \in [Writers -> Steps] /\ fd \in [Writers -> Inodes \cup {None}]
      /\ text \in [Writers -> Texts \cup {None}] /\ at \in [Writers -> 1..(Pieces + 1)]
      /\ outcome \in [Writers -> {"none", "ok", "err"}]
  BY DEF IInv, TypeOK
<1>2. 1 \in 1..(Pieces + 1) /\ "idle" \in Steps
  BY IndexFacts DEF Steps
<1>3. /\ step' = [step EXCEPT ![w] = "idle"] /\ fd' = [fd EXCEPT ![w] = None]
      /\ text' = [text EXCEPT ![w] = None] /\ at' = [at EXCEPT ![w] = 1]
      /\ outcome' = [outcome EXCEPT ![w] = result]
  BY DEF Returns
<1>4. /\ step' \in [Writers -> Steps] /\ fd' \in [Writers -> Inodes \cup {None}]
      /\ text' \in [Writers -> Texts \cup {None}] /\ at' \in [Writers -> 1..(Pieces + 1)]
      /\ outcome' \in [Writers -> {"none", "ok", "err"}]
  BY <1>1, <1>2, <1>3
<1>5. /\ step'[w] = "idle" /\ fd'[w] = None /\ text'[w] = None /\ at'[w] = 1
      /\ \A v \in Writers : v # w => /\ step'[v] = step[v] /\ fd'[v] = fd[v]
                                     /\ text'[v] = text[v] /\ at'[v] = at[v]
  BY <1>1, <1>3
<1>6. LocalsFollow'
  BY <1>5 DEF IInv, LocalsFollow
<1>7. OneWriter'
  BY <1>5 DEF IInv, OneWriter
<1> QED
  BY <1>4, <1>5, <1>6, <1>7

-----------------------------------------------------------------------------
(* The steps of a write.                                                   *)

\* The temporary file is made, or cut, for a writer that is then the only one.
LEMMA OpensInv ==
  ASSUME Exclusive, IInv, NEW w \in Writers, NEW t \in Texts, MayStart(w),
         NEW inode \in Inodes, Opens(w, t, inode),
         inodes' \in 0..MaxOpens, inodes' >= inodes, inodes' <= opens + 1, inode <= inodes',
         inode > inodes \/ inode = temp
  PROVE  IInv'
<1>1. /\ step \in [Writers -> Steps] /\ fd \in [Writers -> Inodes \cup {None}]
      /\ text \in [Writers -> Texts \cup {None}] /\ at \in [Writers -> 1..(Pieces + 1)]
      /\ outcome \in [Writers -> {"none", "ok", "err"}]
      /\ bytes \in [Inodes -> [Index -> Texts \cup {None}]]
      /\ inodes \in Nat /\ opens \in Nat /\ inodes' \in Nat
  BY IndexFacts DEF IInv, TypeOK
<1>2. /\ temp' = inode
      /\ bytes' = [bytes EXCEPT ![inode] = Unwritten]
      /\ opens' = opens + 1
      /\ step' = [step EXCEPT ![w] = "writing"]
      /\ fd' = [fd EXCEPT ![w] = inode]
      /\ text' = [text EXCEPT ![w] = t]
      /\ outcome' = [outcome EXCEPT ![w] = "none"]
      /\ UNCHANGED <<final, at, reading, got>>
  BY DEF Opens, readers
<1>3. \A v \in Writers : step[v] = "idle" /\ at[v] = 1 /\ fd[v] = None /\ text[v] = None
  BY DEF MayStart, IInv, LocalsFollow
<1>4. /\ step'[w] = "writing" /\ fd'[w] = inode /\ text'[w] = t /\ at'[w] = 1
      /\ \A v \in Writers : v # w => /\ step'[v] = "idle" /\ at'[v] = 1
                                     /\ fd'[v] = None /\ text'[v] = None
  BY <1>1, <1>2, <1>3
<1>5. TypeOK'
  <2>1. Unwritten \in [Index -> Texts \cup {None}]
    BY DEF Unwritten
  <2>2. bytes' \in [Inodes -> [Index -> Texts \cup {None}]]
    BY <1>1, <1>2, <2>1
  <2>3. opens' \in 0..MaxOpens
    BY <1>1, <1>2, IndexFacts DEF MayStart
  <2>4. /\ step' \in [Writers -> Steps] /\ fd' \in [Writers -> Inodes \cup {None}]
        /\ text' \in [Writers -> Texts \cup {None}] /\ at' \in [Writers -> 1..(Pieces + 1)]
        /\ outcome' \in [Writers -> {"none", "ok", "err"}]
    BY <1>1, <1>2 DEF Steps
  <2> QED
    BY <1>2, <2>2, <2>3, <2>4 DEF IInv, TypeOK
<1>6. LocalsFollow' /\ OneWriter' /\ TempIsOpen'
  BY <1>2, <1>4 DEF LocalsFollow, OneWriter, TempIsOpen
<1>7. Made'
  BY <1>1, <1>2 DEF Made
<1>8. Written'
  BY <1>4, IndexFacts DEF Written, Index
<1>9. HeldIsWhole'
  <2>1. \A other \in Inodes : other <= inodes /\ other # temp => other # inode
    BY <1>1, IndexFacts DEF Inodes
  <2> QED
    BY <1>1, <1>2, <2>1, HeldStays
<1> QED
  BY <1>5, <1>6, <1>7, <1>8, <1>9 DEF IInv

LEMMA CreateInv ==
  ASSUME Exclusive, IInv, NEW w \in Writers, NEW t \in Texts, Create(w, t)
  PROVE  IInv'
<1>1. inodes \in Nat /\ opens \in Nat /\ inodes <= opens /\ opens < MaxOpens
  BY IndexFacts DEF IInv, TypeOK, Made, Create, MayStart
<1>2. inodes + 1 \in Inodes /\ inodes + 1 \in 0..MaxOpens
  BY <1>1, IndexFacts DEF Inodes
<1> QED
  BY <1>1, <1>2, OpensInv DEF Create

LEMMA TruncateInv ==
  ASSUME Exclusive, IInv, NEW w \in Writers, NEW t \in Texts, Truncate(w, t)
  PROVE  IInv'
<1>1. inodes \in 0..MaxOpens /\ inodes <= opens /\ opens \in Nat /\ inodes' = inodes
  BY IndexFacts DEF IInv, TypeOK, Made, Truncate
<1>2. temp \in Inodes /\ temp <= inodes
  BY DEF IInv, TypeOK, Made, Truncate
<1> QED
  BY <1>1, <1>2, IndexFacts, OpensInv DEF Truncate

\* A write that returns without having moved anything.
LEMMA NothingMovedInv ==
  ASSUME IInv, NEW w \in Writers, NEW result \in {"none", "ok", "err"}, Returns(w, result),
         opens' \in 0..MaxOpens, opens' >= opens, UNCHANGED <<final, inodes, bytes, readers>>,
         temp' = temp \/ (temp' = None /\ step[w] # "idle")
  PROVE  IInv'
<1>1. /\ step' \in [Writers -> Steps] /\ fd' \in [Writers -> Inodes \cup {None}]
      /\ text' \in [Writers -> Texts \cup {None}] /\ at' \in [Writers -> 1..(Pieces + 1)]
      /\ outcome' \in [Writers -> {"none", "ok", "err"}]
      /\ LocalsFollow' /\ OneWriter'
      /\ step'[w] = "idle"
      /\ \A v \in Writers : v # w => /\ step'[v] = step[v] /\ fd'[v] = fd[v]
                                     /\ text'[v] = text[v] /\ at'[v] = at[v]
  BY ReturnedLocals
<1>2. UNCHANGED <<final, inodes, bytes, reading, got>>
  BY DEF readers
<1>3. inodes \in Nat /\ opens \in Nat /\ opens' \in Nat
  BY IndexFacts DEF IInv, TypeOK
<1>4. TypeOK'
  BY <1>1, <1>2 DEF IInv, TypeOK
<1>5. TempIsOpen'
  <2> SUFFICES ASSUME NEW v \in Writers, step'[v] # "idle" PROVE temp' = fd'[v]
    BY DEF TempIsOpen
  <2>1. v # w /\ step[v] # "idle" /\ fd'[v] = fd[v]
    BY <1>1
  <2>2. temp' = temp
    BY <2>1 DEF IInv, OneWriter
  <2> QED
    BY <2>1, <2>2 DEF IInv, TempIsOpen
<1>6. Made'
  BY <1>2, <1>3 DEF IInv, Made
<1>7. Written'
  BY <1>1, <1>2 DEF IInv, Written
<1>8. HeldIsWhole'
  BY <1>2, <1>3, IndexFacts, HeldStays
<1> QED
  BY <1>1, <1>4, <1>5, <1>6, <1>7, <1>8 DEF IInv

LEMMA OpenFailsInv == ASSUME IInv, NEW w \in Writers, OpenFails(w) PROVE IInv'
<1>1. opens' \in 0..MaxOpens /\ opens' >= opens
  BY IndexFacts DEF IInv, TypeOK, OpenFails, MayStart
<1> QED
  BY <1>1, NothingMovedInv DEF OpenFails, files

LEMMA RemoveTempInv == ASSUME IInv, NEW w \in Writers, RemoveTemp(w) PROVE IInv'
<1>1. opens' \in 0..MaxOpens /\ opens' >= opens
  BY IndexFacts DEF IInv, TypeOK, RemoveTemp
<1> QED
  BY <1>1, NothingMovedInv DEF RemoveTemp

LEMMA DieInv == ASSUME IInv, NEW w \in Writers, Die(w) PROVE IInv'
<1>1. opens' \in 0..MaxOpens /\ opens' >= opens /\ outcome[w] \in {"none", "ok", "err"}
  BY IndexFacts DEF IInv, TypeOK, Die
<1> QED
  BY <1>1, NothingMovedInv DEF Die, files

LEMMA WritePieceInv == ASSUME IInv, NEW w \in Writers, WritePiece(w) PROVE IInv'
<1>1. /\ step[w] = "writing" /\ at[w] <= Pieces
      /\ bytes' = [bytes EXCEPT ![fd[w]] = [@ EXCEPT ![at[w]] = text[w]]]
      /\ at' = [at EXCEPT ![w] = @ + 1]
      /\ UNCHANGED <<final, temp, inodes, opens, step, fd, text, outcome, reading, got>>
  BY DEF WritePiece, readers
<1>2. /\ fd[w] \in Inodes /\ text[w] \in Texts /\ temp = fd[w]
      /\ bytes \in [Inodes -> [Index -> Texts \cup {None}]]
      /\ at \in [Writers -> 1..(Pieces + 1)] /\ inodes \in Nat
  BY <1>1, IndexFacts DEF IInv, TypeOK, LocalsFollow, TempIsOpen
<1>3. at[w] \in Index /\ at[w] + 1 \in 1..(Pieces + 1) /\ at[w] \in Nat
  BY <1>1, <1>2, IndexFacts DEF Index
<1>4. bytes[fd[w]] \in [Index -> Texts \cup {None}]
  BY <1>2
<1> DEFINE piece == [bytes[fd[w]] EXCEPT ![at[w]] = text[w]]
<1>5. piece \in [Index -> Texts \cup {None}]
  BY <1>2, <1>3, <1>4
<1>6. bytes' \in [Inodes -> [Index -> Texts \cup {None}]] /\ bytes'[fd[w]] = piece
      /\ \A inode \in Inodes : inode # fd[w] => bytes'[inode] = bytes[inode]
  BY <1>1, <1>2, <1>5
<1>7. TypeOK'
  BY <1>1, <1>2, <1>3, <1>6 DEF IInv, TypeOK
<1>8. LocalsFollow' /\ OneWriter' /\ TempIsOpen' /\ Made'
  BY <1>1, <1>2 DEF IInv, LocalsFollow, OneWriter, TempIsOpen, Made
<1>9. Written'
  <2> SUFFICES ASSUME NEW v \in Writers, step[v] # "idle", NEW i \in Index, i < at'[v]
               PROVE  bytes'[fd[v]][i] = text[v]
    BY <1>1 DEF Written
  <2>1. v = w
    BY <1>1 DEF IInv, OneWriter
  <2>2. i < at[w] \/ i = at[w]
    BY <1>1, <1>2, <1>3, <2>1 DEF Index
  <2>3. i < at[w] => bytes[fd[w]][i] = text[w]
    BY <1>1 DEF IInv, Written
  <2> QED
    BY <1>3, <1>4, <1>6, <2>1, <2>2, <2>3
<1>10. HeldIsWhole'
  BY <1>1, <1>2, <1>6, HeldStays
<1> QED
  BY <1>7, <1>8, <1>9, <1>10 DEF IInv

LEMMA WriteFailsInv == ASSUME IInv, NEW w \in Writers, WriteFails(w) PROVE IInv'
<1>1. /\ step[w] = "writing" /\ step' = [step EXCEPT ![w] = "failing"]
      /\ UNCHANGED <<final, temp, inodes, bytes, opens, fd, text, at, outcome, reading, got>>
  BY DEF WriteFails, files, readers
<1>2. /\ step \in [Writers -> Steps] /\ step' \in [Writers -> Steps]
      /\ \A v \in Writers : step'[v] = "idle" <=> step[v] = "idle"
  BY <1>1 DEF IInv, TypeOK, Steps
<1>3. TypeOK'
  BY <1>1, <1>2 DEF IInv, TypeOK
<1>4. LocalsFollow' /\ OneWriter' /\ TempIsOpen' /\ Made' /\ Written'
  BY <1>1, <1>2 DEF IInv, LocalsFollow, OneWriter, TempIsOpen, Made, Written
<1>5. HeldIsWhole'
  BY <1>1, IndexFacts, HeldStays DEF IInv, TypeOK
<1> QED
  BY <1>3, <1>4, <1>5 DEF IInv

\* What is renamed is the whole of its writer's text.
LEMMA RenamedIsWhole ==
  ASSUME IInv, NEW w \in Writers, Rename(w)
  PROVE  /\ temp \in Inodes /\ temp <= inodes /\ text[w] \in Texts
         /\ bytes[temp] = Whole(text[w])
<1>1. step[w] = "writing" /\ at[w] > Pieces /\ temp # None
  BY DEF Rename, Moves
<1>2. temp = fd[w] /\ temp \in Inodes /\ text[w] \in Texts /\ temp <= inodes
      /\ at[w] \in Nat
  BY <1>1, IndexFacts DEF IInv, TypeOK, LocalsFollow, TempIsOpen, Made
<1>3. bytes[temp] \in [Index -> Texts \cup {None}]
  BY <1>2 DEF IInv, TypeOK
<1>4. \A i \in Index : bytes[temp][i] = text[w]
  <2>1. \A i \in Index : i < at[w]
    BY <1>1, <1>2, IndexFacts DEF Index
  <2> QED
    BY <1>1, <1>2, <2>1 DEF IInv, Written
<1> QED
  BY <1>2, <1>3, <1>4 DEF Whole

LEMMA RenameInv == ASSUME IInv, NEW w \in Writers, Rename(w) PROVE IInv'
<1>1. /\ step[w] = "writing" /\ Returns(w, "ok")
      /\ final' = temp /\ temp' = None
      /\ UNCHANGED <<inodes, bytes, opens, reading, got>>
  BY DEF Rename, Moves, readers
<1>2. temp \in Inodes /\ temp <= inodes /\ text[w] \in Texts /\ bytes[temp] = Whole(text[w])
  BY RenamedIsWhole
<1>3. /\ step' \in [Writers -> Steps] /\ fd' \in [Writers -> Inodes \cup {None}]
      /\ text' \in [Writers -> Texts \cup {None}] /\ at' \in [Writers -> 1..(Pieces + 1)]
      /\ outcome' \in [Writers -> {"none", "ok", "err"}]
      /\ LocalsFollow' /\ OneWriter'
      /\ step'[w] = "idle"
      /\ \A v \in Writers : v # w => /\ step'[v] = step[v] /\ fd'[v] = fd[v]
                                     /\ text'[v] = text[v] /\ at'[v] = at[v]
  BY <1>1, ReturnedLocals
<1>4. \A v \in Writers : step'[v] = "idle"
  BY <1>1, <1>3 DEF IInv, OneWriter
<1>5. TypeOK'
  BY <1>1, <1>2, <1>3 DEF IInv, TypeOK
<1>6. TempIsOpen' /\ Written' /\ Made'
  BY <1>1, <1>4 DEF IInv, TempIsOpen, Written, Made
<1>7. \A inode : WholeAt(inode) => WholeAt(inode)'
  BY <1>1, IndexFacts, WholeStays DEF IInv, TypeOK
<1>8. HeldIsWhole'
  <2>1. WholeAt(final)'
    BY <1>1, <1>2, IndexFacts DEF WholeAt
  <2>2. \A r \in Readers : WholeAt(reading[r])'
    BY <1>1, <1>7 DEF IInv, HeldIsWhole, WholeAt
  <2> QED
    BY <2>1, <2>2 DEF HeldIsWhole
<1> QED
  BY <1>3, <1>5, <1>6, <1>8 DEF IInv

-----------------------------------------------------------------------------
(* The readers, and the whole of Next.                                     *)

LEMMA ReadsInv == ASSUME IInv, (\E r \in Readers : Read(r)) \/ Discard PROVE IInv'
<1>1. UNCHANGED <<temp, inodes, bytes, opens, step, fd, text, at, outcome>>
  BY DEF Read, Probe, OpenMissed, OpenRead, ReadAll, Discard, files, writers, readers
<1>2. LocalsFollow' /\ OneWriter' /\ TempIsOpen' /\ Made' /\ Written'
  BY <1>1 DEF IInv, LocalsFollow, OneWriter, TempIsOpen, Made, Written
<1>3. \A inode : WholeAt(inode) => WholeAt(inode)'
  BY <1>1, IndexFacts, WholeStays DEF IInv, TypeOK
<1>4. CASE Discard
  <2>1. final' = None /\ UNCHANGED <<reading, got>>
    BY <1>4 DEF Discard, readers
  <2>2. HeldIsWhole'
    <3>1. WholeAt(final)'
      BY <2>1, IndexFacts DEF WholeAt
    <3>2. \A r \in Readers : WholeAt(reading[r])'
      BY <1>3, <2>1 DEF IInv, HeldIsWhole, WholeAt
    <3> QED
      BY <3>1, <3>2 DEF HeldIsWhole
  <2>3. TypeOK'
    BY <1>1, <2>1 DEF IInv, TypeOK
  <2> QED
    BY <1>2, <2>2, <2>3 DEF IInv
<1>5. CASE \E r \in Readers : Read(r)
  <2> PICK r \in Readers : Read(r)
    BY <1>5
  <2> DEFINE next == IF reading[r] = None THEN 0
                     ELSE IF reading[r] = 0 THEN final ELSE None
  <2>1. /\ UNCHANGED final
        /\ reading' = [reading EXCEPT ![r] = next]
        /\ got' = got \/ (reading[r] \in Inodes /\ got' = [got EXCEPT ![r] = bytes[reading[r]]])
    BY IndexFacts DEF Read, Probe, OpenMissed, OpenRead, ReadAll, files
  <2>2. next \in Inodes \cup {0, None}
    BY DEF IInv, TypeOK
  <2>3. TypeOK'
    BY <1>1, <2>1, <2>2 DEF IInv, TypeOK
  <2>4. WholeAt(next)
    BY IndexFacts DEF IInv, HeldIsWhole, WholeAt
  <2>5. \A other \in Readers : WholeAt(reading'[other])
    BY <2>1, <2>2, <2>4 DEF IInv, TypeOK, HeldIsWhole
  <2>6. HeldIsWhole'
    BY <1>1, <2>1, <2>5 DEF IInv, HeldIsWhole, WholeAt
  <2> QED
    BY <1>2, <2>3, <2>6 DEF IInv
<1> QED
  BY <1>4, <1>5

LEMMA InitIInv == Init => IInv
<1> SUFFICES ASSUME Init PROVE IInv
  OBVIOUS
<1>1. TypeOK
  BY IndexFacts DEF Init, TypeOK, Unwritten, Steps
<1>2. LocalsFollow /\ OneWriter /\ TempIsOpen /\ Made /\ Written
  BY IndexFacts DEF Init, LocalsFollow, OneWriter, TempIsOpen, Made, Written
<1>3. HeldIsWhole
  BY IndexFacts DEF Init, HeldIsWhole, WholeAt
<1> QED
  BY <1>1, <1>2, <1>3 DEF IInv

LEMMA NextIInv == Exclusive /\ IInv /\ [Next]_vars => IInv'
<1> SUFFICES ASSUME Exclusive, IInv, [Next]_vars PROVE IInv'
  OBVIOUS
<1>1. CASE UNCHANGED vars
  <2>1. UNCHANGED <<final, temp, inodes, bytes, opens, step, fd, text, at, outcome,
                    reading, got>>
    BY <1>1 DEF vars, files, writers, readers
  <2>2. TypeOK' /\ LocalsFollow' /\ OneWriter' /\ TempIsOpen' /\ Made' /\ Written'
    BY <2>1 DEF IInv, TypeOK, LocalsFollow, OneWriter, TempIsOpen, Made, Written
  <2>3. HeldIsWhole'
    BY <2>1 DEF IInv, HeldIsWhole, WholeAt
  <2> QED
    BY <2>2, <2>3 DEF IInv
<1>2. CASE \E w \in Writers : Write(w)
  BY <1>2, CreateInv, TruncateInv, OpenFailsInv, WritePieceInv, WriteFailsInv, RenameInv,
     RemoveTempInv, DieInv DEF Write
<1>3. CASE (\E r \in Readers : Read(r)) \/ Discard
  BY <1>3, ReadsInv
<1> QED
  BY <1>1, <1>2, <1>3 DEF Next

\* Of writes that do not overlap, whatever dies in between: what the path names
\* and what a reader has open was written whole, and no writer can reach it.
THEOREM CacheHeldIsWhole == Exclusive => (Spec => []IInv)
<1> SUFFICES ASSUME Exclusive PROVE Spec => []IInv
  OBVIOUS
<1>1. Init => IInv
  BY InitIInv
<1>2. IInv /\ [Next]_vars => IInv'
  BY NextIInv
<1> QED
  BY <1>1, <1>2, PTL DEF Spec

-----------------------------------------------------------------------------
(* The refinement.                                                         *)

Writing == [w \in Writers |-> IF text[w] = None THEN None ELSE Whole(text[w])]
Seen == [r \in Readers |-> IF reading[r] \in Inodes THEN Visible(reading[r]) ELSE got[r]]

\* A whole text is no file's absence.
LEMMA WholeIsSome == \A t \in Texts : Whole(t) # None
BY CacheFileAssumption DEF Whole, Index

LEMMA InitImplements == Init => File!Init
<1> SUFFICES ASSUME Init PROVE File!Init
  OBVIOUS
<1>1. Visible(final) = None
  BY IndexFacts DEF Init, Visible
<1>2. Writing = [w \in Writers |-> None]
  BY DEF Init, Writing
<1>3. Seen = [r \in Readers |-> None]
  BY IndexFacts DEF Init, Seen
<1>4. outcome = [w \in Writers |-> "none"]
  BY DEF Init
<1> QED
  BY <1>1, <1>2, <1>3, <1>4 DEF File!Init, Writing, Seen

\* A step that leaves whole files as they are shows the same to everyone.
LEMMA ShownStays ==
  ASSUME IInv, UNCHANGED <<final, reading, got>>,
         \A inode \in Inodes : inode <= inodes /\ inode # temp => bytes'[inode] = bytes[inode]
  PROVE  Visible(final)' = Visible(final) /\ Seen' = Seen
<1>1. \A inode : WholeAt(inode) => Visible(inode)' = Visible(inode)
  BY DEF WholeAt, Visible
<1>2. Visible(final)' = Visible(final)
  BY <1>1 DEF IInv, HeldIsWhole, Visible
<1>3. \A r \in Readers : Visible(reading[r])' = Visible(reading[r])
  BY <1>1 DEF IInv, HeldIsWhole, Visible
<1>4. Seen' = Seen
  BY <1>3 DEF Seen
<1> QED
  BY <1>2, <1>4

\* What a writer is writing is its text.
LEMMA WritingFollows ==
  ASSUME IInv, NEW w \in Writers, NEW t \in Texts \cup {None}, text' = [text EXCEPT ![w] = t]
  PROVE  /\ Writing' = [Writing EXCEPT ![w] = IF t = None THEN None ELSE Whole(t)]
         /\ Writing[w] = IF text[w] = None THEN None ELSE Whole(text[w])
BY DEF IInv, TypeOK, Writing

LEMMA OpensImplements ==
  ASSUME Exclusive, IInv, NEW w \in Writers, NEW t \in Texts, NEW inode \in Inodes,
         MayStart(w), Opens(w, t, inode), inode > inodes \/ inode = temp
  PROVE  File!Begin(w, Whole(t))
<1>1. /\ bytes' = [bytes EXCEPT ![inode] = Unwritten] /\ text' = [text EXCEPT ![w] = t]
      /\ outcome' = [outcome EXCEPT ![w] = "none"] /\ UNCHANGED <<final, reading, got>>
  BY DEF Opens, readers
<1>2. text[w] = None /\ t # None
  BY CacheFileAssumption DEF MayStart, IInv, LocalsFollow
<1>3. Writing' = [Writing EXCEPT ![w] = Whole(t)] /\ Writing[w] = None
  BY <1>1, <1>2, WritingFollows
<1>4. inodes \in Nat /\ bytes \in [Inodes -> [Index -> Texts \cup {None}]]
  BY IndexFacts DEF IInv, TypeOK
<1>5. \A other \in Inodes : other <= inodes /\ other # temp => other # inode
  BY <1>4, IndexFacts DEF Inodes
<1>6. \A other \in Inodes : other <= inodes /\ other # temp => bytes'[other] = bytes[other]
  BY <1>1, <1>4, <1>5
<1>7. Visible(final)' = Visible(final) /\ Seen' = Seen
  BY <1>1, <1>6, ShownStays
<1> QED
  BY <1>1, <1>3, <1>7 DEF File!Begin, Writing, Seen

LEMMA WriteImplements ==
  ASSUME Exclusive, IInv, NEW w \in Writers, Write(w)
  PROVE  [File!Next]_(File!wholeVars)
<1> USE DEF File!Next
<1>1. ASSUME NEW t \in Texts, Create(w, t) \/ Truncate(w, t)
      PROVE  File!Next
  <2>1. Whole(t) \in {Whole(x) : x \in Texts}
    OBVIOUS
  <2>2. File!Begin(w, Whole(t))
    <3>1. CASE Create(w, t)
      <4>1. inodes \in Nat /\ inodes + 1 \in Inodes
        BY <3>1, IndexFacts DEF IInv, TypeOK, Made, Create, MayStart, Inodes
      <4> QED
        BY <3>1, <4>1, OpensImplements DEF Create
    <3>2. CASE Truncate(w, t)
      <4>1. temp \in Inodes
        BY <3>2 DEF IInv, TypeOK, Truncate
      <4> QED
        BY <3>2, <4>1, OpensImplements DEF Truncate
    <3> QED
      BY <1>1, <3>1, <3>2
  <2> QED
    BY <2>1, <2>2
<1>2. CASE OpenFails(w) \/ RemoveTemp(w)
  <2>1. /\ text' = [text EXCEPT ![w] = None] /\ outcome' = [outcome EXCEPT ![w] = "err"]
        /\ UNCHANGED <<final, bytes, reading, got>>
    BY <1>2 DEF OpenFails, RemoveTemp, Returns, files, readers
  <2>2. Writing' = [Writing EXCEPT ![w] = None]
    BY <2>1, WritingFollows
  <2>3. Visible(final)' = Visible(final) /\ Seen' = Seen
    BY <2>1, ShownStays
  <2>4. File!Fail(w)
    BY <2>1, <2>2, <2>3 DEF File!Fail, Writing, Seen
  <2> QED
    BY <2>4
<1>3. CASE Die(w)
  <2>1. /\ text' = [text EXCEPT ![w] = None] /\ outcome' = outcome
        /\ UNCHANGED <<final, bytes, reading, got>>
    BY <1>3 DEF Die, Returns, files, readers, IInv, TypeOK
  <2>2. Writing' = [Writing EXCEPT ![w] = None]
    BY <2>1, WritingFollows
  <2>3. Visible(final)' = Visible(final) /\ Seen' = Seen
    BY <2>1, ShownStays
  <2>4. File!Die(w)
    BY <2>1, <2>2, <2>3 DEF File!Die, Writing, Seen
  <2> QED
    BY <2>4
<1>4. CASE Rename(w)
  <2>1. /\ text' = [text EXCEPT ![w] = None] /\ outcome' = [outcome EXCEPT ![w] = "ok"]
        /\ final' = temp /\ UNCHANGED <<inodes, bytes, reading, got>>
    BY <1>4 DEF Rename, Moves, Returns, readers
  <2>2. temp \in Inodes /\ text[w] \in Texts /\ bytes[temp] = Whole(text[w])
    BY <1>4, RenamedIsWhole
  <2>3. text[w] # None
    BY <2>2, CacheFileAssumption
  <2>4. Writing[w] = Whole(text[w]) /\ Writing' = [Writing EXCEPT ![w] = None]
    BY <2>1, <2>3, WritingFollows
  <2>5. Writing[w] # None
    BY <2>2, <2>4, WholeIsSome
  <2>6. Visible(final)' = Writing[w]
    BY <2>1, <2>2, <2>4 DEF Visible
  <2>7. Seen' = Seen
    BY <2>1 DEF Seen, Visible
  <2>8. File!Succeed(w)
    BY <2>1, <2>4, <2>5, <2>6, <2>7 DEF File!Succeed, Writing, Seen
  <2> QED
    BY <2>8
<1>5. CASE WritePiece(w) \/ WriteFails(w)
  <2>1. UNCHANGED <<final, text, outcome, reading, got>>
    BY <1>5 DEF WritePiece, WriteFails, files, readers
  <2>2. \A inode \in Inodes : inode <= inodes /\ inode # temp => bytes'[inode] = bytes[inode]
    <3>1. step[w] = "writing" /\ fd[w] = temp /\ bytes \in [Inodes -> [Index -> Texts \cup {None}]]
      BY <1>5 DEF WritePiece, WriteFails, IInv, TypeOK, TempIsOpen
    <3> QED
      BY <1>5, <3>1 DEF WritePiece, WriteFails, files
  <2>3. Visible(final)' = Visible(final) /\ Seen' = Seen
    BY <2>1, <2>2, ShownStays
  <2>4. Writing' = Writing
    BY <2>1 DEF Writing
  <2>5. UNCHANGED File!wholeVars
    BY <2>1, <2>3, <2>4 DEF File!wholeVars, Writing, Seen
  <2> QED
    BY <2>5
<1> QED
  BY <1>1, <1>2, <1>3, <1>4, <1>5 DEF Write

LEMMA ReadImplements ==
  ASSUME IInv, NEW r \in Readers, Read(r)
  PROVE  [File!Next]_(File!wholeVars)
<1>1. UNCHANGED <<final, text, outcome, bytes>>
  BY DEF Read, Probe, OpenMissed, OpenRead, ReadAll, files, writers
<1>2. Visible(final)' = Visible(final) /\ Writing' = Writing
  BY <1>1 DEF Visible, Writing
<1>3. reading \in [Readers -> Inodes \cup {0, None}]
      /\ got \in [Readers -> [Index -> Texts \cup {None}] \cup {None}]
  BY DEF IInv, TypeOK
<1>4. CASE OpenRead(r)
  <2>1. final \in Inodes /\ reading' = [reading EXCEPT ![r] = final] /\ UNCHANGED got
    BY <1>4 DEF OpenRead, IInv, TypeOK
  <2>2. Seen' = [Seen EXCEPT ![r] = Visible(final)]
    BY <1>1, <1>3, <2>1 DEF Seen, Visible
  <2>3. File!Read(r)
    BY <1>1, <1>2, <2>2 DEF File!Read, Writing, Seen
  <2> QED
    BY <2>3 DEF File!Next
<1>5. CASE Probe(r) \/ OpenMissed(r) \/ ReadAll(r)
  <2>1. Seen' = Seen
    <3>1. CASE Probe(r) \/ OpenMissed(r)
      <4>1. /\ reading[r] \notin Inodes /\ UNCHANGED got
            /\ \E x \in {0, None} : reading' = [reading EXCEPT ![r] = x]
        BY <3>1, IndexFacts DEF Probe, OpenMissed
      <4> QED
        BY <1>1, <1>3, <4>1, IndexFacts DEF Seen, Visible
    <3>2. CASE ReadAll(r)
      BY <1>1, <1>3, <3>2, IndexFacts DEF ReadAll, Seen, Visible
    <3> QED
      BY <1>5, <3>1, <3>2
  <2>2. UNCHANGED File!wholeVars
    BY <1>1, <1>2, <2>1 DEF File!wholeVars, Writing, Seen
  <2> QED
    BY <2>2
<1> QED
  BY <1>4, <1>5 DEF Read

LEMMA NextImplements == Exclusive /\ IInv /\ [Next]_vars => [File!Next]_(File!wholeVars)
<1> SUFFICES ASSUME Exclusive, IInv, [Next]_vars PROVE [File!Next]_(File!wholeVars)
  OBVIOUS
<1>1. CASE Discard
  <2>1. final' = None /\ UNCHANGED <<text, outcome, bytes, reading, got>>
    BY <1>1 DEF Discard, writers, readers
  <2>2. Visible(final)' = None /\ Writing' = Writing /\ Seen' = Seen
    BY <2>1, IndexFacts DEF Visible, Writing, Seen
  <2>3. File!Discard
    BY <2>1, <2>2 DEF File!Discard, Writing, Seen
  <2> QED
    BY <2>3 DEF File!Next
<1>2. CASE UNCHANGED vars
  <2>1. UNCHANGED <<final, text, outcome, bytes, reading, got>>
    BY <1>2 DEF vars, files, writers, readers
  <2> QED
    BY <2>1 DEF File!wholeVars, Visible
<1> QED
  BY <1>1, <1>2, WriteImplements, ReadImplements DEF Next

\* Of writes that do not overlap: the path is a file that changes all at once.
\* It goes from one whole text to another or to none, a failed or killed write
\* leaves what was there, and no reader is given a mixture.
THEOREM CacheChangesWhole == Exclusive => (Spec => ChangesWhole)
<1> SUFFICES ASSUME Exclusive PROVE Spec => ChangesWhole
  OBVIOUS
<1>1. Init => File!Init
  BY InitImplements
<1>2. IInv /\ [Next]_vars => [File!Next]_(File!wholeVars)
  BY NextImplements
<1>3. Spec => []IInv
  BY CacheHeldIsWhole
<1> QED
  BY <1>1, <1>2, <1>3, PTL DEF Spec, ChangesWhole, File!Spec

-----------------------------------------------------------------------------
(* Migration: lemmas about lists.                                          *)

\* A nonempty set of naturals has a least member.
LEMMA LeastMember ==
  ASSUME NEW S \in SUBSET Nat, S # {}
  PROVE  \E least \in S : \A i \in S : least <= i
<1>1. PICK least \in S : \A i \in S : ~(<<i, least>> \in OpToRel(<, Nat))
  BY NatLessThanWellFounded, WFMin
<1>2. ASSUME NEW i \in S PROVE least <= i
  <2>1. ~(i < least)
    BY <1>1 DEF OpToRel
  <2> QED
    BY <2>1
<1> QED
  BY <1>2

\* Induction along a loop: what holds before its first turn and is kept by each holds after all.
LEMMA EveryTurn ==
  ASSUME NEW m \in Nat, NEW S, 0 \in S, \A n \in 1..m : n - 1 \in S => n \in S
  PROVE  m \in S /\ \A n \in 0..m : n \in S
<1> DEFINE without == {n \in Nat : n <= m /\ n \notin S}
<1> SUFFICES ASSUME without # {} PROVE FALSE
  OBVIOUS
<1>1. PICK n \in without : \A k \in without : n <= k
  <2> without \in SUBSET Nat
    OBVIOUS
  <2> HIDE DEF without
  <2> QED
    BY LeastMember
<1>2. n # 0 /\ n \in 1..m /\ n - 1 \in Nat /\ n - 1 <= m
  BY <1>1
<1>3. n - 1 \in S
  BY <1>1, <1>2
<1> QED
  BY <1>1, <1>2, <1>3

\* A list is the function of its indices to its elements.
LEMMA ListFacts ==
  ASSUME NEW s, IsList(s)
  PROVE  Len(s) \in Nat /\ DOMAIN s = 1..Len(s) /\ s = [i \in 1..Len(s) |-> s[i]]
<1> DEFINE S == {s[i] : i \in DOMAIN s}
<1>1. s \in Seq(S)
  BY DEF IsList
<1> HIDE DEF S
<1> QED
  BY <1>1, LenProperties

\* A sequence over any set is a list ...
LEMMA SeqIsList ==
  ASSUME NEW S, NEW s \in Seq(S)
  PROVE  IsList(s)
<1>1. Len(s) \in Nat /\ DOMAIN s = 1..Len(s) /\ s \in [1..Len(s) -> S]
  BY LenProperties
<1> DEFINE T == {s[i] : i \in DOMAIN s}
<1>2. s \in [1..Len(s) -> T]
  BY <1>1
<1>3. s \in Seq(T)
  BY <1>1, <1>2
<1> QED
  BY <1>3 DEF IsList

\* ... and so is what is given for the first numbers.
LEMMA MadeIsList ==
  ASSUME NEW n \in Nat, NEW s, s = [i \in 1..n |-> s[i]]
  PROVE  IsList(s) /\ Len(s) = n
<1> DEFINE S == {s[i] : i \in 1..n}
<1>1. s \in [1..n -> S]
  OBVIOUS
<1>2. s \in Seq(S)
  BY <1>1
<1> QED
  BY <1>2, <1>1, SeqIsList, LenProperties

\* The empty list.
LEMMA EmptyIsList == IsList(<<>>) /\ Len(<<>>) = 0
BY EmptySeq, SeqIsList

\* What a list becomes by an element more ...
LEMMA AppendIsList ==
  ASSUME NEW s, IsList(s), NEW e
  PROVE  /\ IsList(Append(s, e)) /\ Len(Append(s, e)) = Len(s) + 1
         /\ \A i \in 1..Len(s) : Append(s, e)[i] = s[i]
         /\ Append(s, e)[Len(s) + 1] = e
<1> DEFINE S == {s[i] : i \in DOMAIN s} \cup {e}
<1>1. s \in Seq(S) /\ e \in S
  BY SeqMonotonic DEF IsList
<1> HIDE DEF S
<1>2. Len(s) \in Nat
  BY <1>1, LenProperties
<1>3. /\ Append(s, e) \in Seq(S) /\ Append(s, e) # <<>> /\ Len(Append(s, e)) = Len(s) + 1
      /\ \A i \in 1..Len(s) : Append(s, e)[i] = s[i]
      /\ Append(s, e)[Len(s) + 1] = e
  BY <1>1, AppendProperties
<1>4. IsList(Append(s, e))
  BY <1>3, SeqIsList
<1> QED
  BY <1>3, <1>4

\* ... and by another list.
LEMMA ConcatIsList ==
  ASSUME NEW s, IsList(s), NEW t, IsList(t)
  PROVE  /\ IsList(s \o t) /\ Len(s \o t) = Len(s) + Len(t)
         /\ \A i \in 1..Len(s) : (s \o t)[i] = s[i]
         /\ \A i \in 1..Len(t) : (s \o t)[Len(s) + i] = t[i]
         /\ \A i \in 1..Len(s \o t) : \/ i \in 1..Len(s) /\ (s \o t)[i] = s[i]
                                      \/ i - Len(s) \in 1..Len(t) /\ (s \o t)[i] = t[i - Len(s)]
<1> DEFINE S == {s[i] : i \in DOMAIN s} \cup {t[i] : i \in DOMAIN t}
<1>1. s \in Seq(S) /\ t \in Seq(S)
  BY SeqMonotonic DEF IsList
<1> HIDE DEF S
<1>2. Len(s) \in Nat /\ Len(t) \in Nat
  BY <1>1, LenProperties
<1>3. /\ s \o t \in Seq(S) /\ Len(s \o t) = Len(s) + Len(t)
      /\ \A i \in 1..Len(s) + Len(t) : (s \o t)[i] = IF i <= Len(s) THEN s[i] ELSE t[i - Len(s)]
  BY <1>1, ConcatProperties
<1>4. IsList(s \o t)
  BY <1>3, SeqIsList
<1>5. \A i \in 1..Len(s) : (s \o t)[i] = s[i]
  BY <1>2, <1>3
<1>6. \A i \in 1..Len(t) : (s \o t)[Len(s) + i] = t[i]
  <2> TAKE i \in 1..Len(t)
  <2>1. Len(s) + i \in 1..Len(s) + Len(t) /\ ~(Len(s) + i <= Len(s)) /\ Len(s) + i - Len(s) = i
    BY <1>2
  <2> QED
    BY <1>3, <2>1
<1>7. \A i \in 1..Len(s \o t) : \/ i \in 1..Len(s) /\ (s \o t)[i] = s[i]
                                \/ i - Len(s) \in 1..Len(t) /\ (s \o t)[i] = t[i - Len(s)]
  BY <1>2, <1>3
<1> QED
  BY <1>3, <1>4, <1>5, <1>6, <1>7

\* Flattening the first n lists gives a list of what is in them.
Flattened(flat, seqs, n) ==
  /\ IsList(flat)
  /\ \A k \in 1..Len(flat) : \E i \in 1..n : \E j \in 1..Len(seqs[i]) : flat[k] = seqs[i][j]
  /\ \A i \in 1..n : \A j \in 1..Len(seqs[i]) : \E k \in 1..Len(flat) : flat[k] = seqs[i][j]

\* A list of lists becomes the list of their elements.
LEMMA FlattenIsList ==
  ASSUME NEW m \in Nat, NEW seqs, seqs = [i \in 1..m |-> seqs[i]], \A i \in 1..m : IsList(seqs[i])
  PROVE  Flattened(FlattenSeq(seqs), seqs, m)
<1>1. IsList(seqs) /\ Len(seqs) = m
  BY MadeIsList
<1>2. CASE m = 0
  <2>1. FlattenSeq(seqs) = seqs
    BY <1>1, <1>2 DEF FlattenSeq
  <2> QED
    BY <1>1, <1>2, <2>1 DEF Flattened
<1>3. CASE m # 0
  <2> DEFINE next(f, i) == IF i = 1 THEN seqs[i] ELSE f[i - 1] \o seqs[i]
             Has(n) == \E f : f = [i \in 1..n |-> next(f, i)]
             S == {n \in 0..m : Has(n)}
  <2>1. 0 \in S
    <3>1. 0 \in 0..m
      OBVIOUS
    <3>2. Has(0)
      <4> DEFINE f == [i \in 1..0 |-> 0]
      <4>1. f = [i \in 1..0 |-> next(f, i)]
        OBVIOUS
      <4> QED
        BY <4>1
    <3> QED
      BY <3>1, <3>2
  <2>2. ASSUME NEW n \in 1..m, n - 1 \in S PROVE n \in S
    <3>1. PICK g : g = [i \in 1..n - 1 |-> next(g, i)]
      BY <2>2
    <3> DEFINE f == [i \in 1..n |-> next(g, i)]
    <3>2. \A i \in 1..n - 1 : i \in 1..n /\ g[i] = next(g, i)
      <4>1. \A i \in 1..n - 1 : g[i] = next(g, i)
        BY <3>1
      <4>2. \A i \in 1..n - 1 : i \in 1..n
        OBVIOUS
      <4> HIDE DEF next
      <4> QED
        BY <4>1, <4>2
    <3>3. \A i \in 1..n - 1 : f[i] = g[i]
      BY <3>2
    <3>4. ASSUME NEW i \in 1..n PROVE next(f, i) = next(g, i)
      <4>1. CASE i = 1
        BY <4>1
      <4>2. CASE i # 1
        <5>1. i - 1 \in 1..n - 1
          BY <4>2
        <5>2. f[i - 1] = g[i - 1]
          BY <3>3, <5>1
        <5> HIDE DEF f
        <5> QED
          BY <4>2, <5>2
      <4> QED
        BY <4>1, <4>2
    <3>5. f = [i \in 1..n |-> next(f, i)]
      BY <3>4
    <3>6. Has(n)
      BY <3>5
    <3>7. n \in 0..m
      OBVIOUS
    <3> HIDE DEF Has
    <3> QED
      BY <3>6, <3>7
  <2>3. m \in S
    <3> HIDE DEF S
    <3> QED
      BY <2>1, <2>2, EveryTurn
  <2> DEFINE flat == CHOOSE f : f = [i \in 1..m |-> next(f, i)]
  <2>4. flat = [i \in 1..m |-> next(flat, i)]
    BY <2>3
  <2>5. FlattenSeq(seqs) = flat[m]
    BY <1>1, <1>3 DEF FlattenSeq
  <2> HIDE DEF flat
  <2>6. /\ flat[1] = seqs[1]
        /\ \A i \in 2..m : flat[i] = flat[i - 1] \o seqs[i]
    <3>1. 1 \in 1..m
      BY <1>3
    <3>2. \A i \in 2..m : i \in 1..m /\ i # 1
      OBVIOUS
    <3> QED
      BY <2>4, <3>1, <3>2
  <2> DEFINE F == {n \in 0..m : n = 0 \/ Flattened(flat[n], seqs, n)}
  <2>7. 0 \in F
    OBVIOUS
  <2>8. ASSUME NEW n \in 1..m, n - 1 \in F PROVE n \in F
    <3>1. ASSUME n = 1 PROVE Flattened(flat[n], seqs, n)
      BY <2>6, <3>1 DEF Flattened
    <3>2. ASSUME n # 1 PROVE Flattened(flat[n], seqs, n)
      <4>1. Flattened(flat[n - 1], seqs, n - 1) /\ n \in 2..m
        <5>1. n - 1 # 0 /\ n \in 2..m
          BY <3>2
        <5> QED
          BY <2>8, <5>1
      <4>2. flat[n] = flat[n - 1] \o seqs[n]
        BY <2>6, <4>1
      <4>3. IsList(seqs[n]) /\ IsList(flat[n - 1])
        BY <4>1 DEF Flattened
      <4>4. Len(seqs[n]) \in Nat /\ Len(flat[n - 1]) \in Nat
        BY <4>3, ListFacts
      <4>5. /\ IsList(flat[n]) /\ Len(flat[n]) = Len(flat[n - 1]) + Len(seqs[n])
            /\ \A k \in 1..Len(flat[n - 1]) : flat[n][k] = flat[n - 1][k]
            /\ \A j \in 1..Len(seqs[n]) : flat[n][Len(flat[n - 1]) + j] = seqs[n][j]
            /\ \A k \in 1..Len(flat[n]) :
                 \/ k \in 1..Len(flat[n - 1]) /\ flat[n][k] = flat[n - 1][k]
                 \/ k - Len(flat[n - 1]) \in 1..Len(seqs[n]) /\ flat[n][k] = seqs[n][k - Len(flat[n - 1])]
        <5> HIDE DEF next, Has, S, F
        <5> DEFINE s == flat[n - 1]
                   t == seqs[n]
                   both == s \o t
        <5>1. /\ IsList(both) /\ Len(both) = Len(s) + Len(t)
              /\ \A k \in 1..Len(s) : both[k] = s[k]
              /\ \A j \in 1..Len(t) : both[Len(s) + j] = t[j]
              /\ \A k \in 1..Len(both) : \/ k \in 1..Len(s) /\ both[k] = s[k]
                                         \/ k - Len(s) \in 1..Len(t) /\ both[k] = t[k - Len(s)]
          <6>1. IsList(s) /\ IsList(t)
            BY <4>3
          <6> HIDE DEF s, t
          <6> QED
            BY <6>1, ConcatIsList
        <5>2. both = flat[n]
          BY <4>2
        <5> HIDE DEF both
        <5> QED
          BY <5>1, <5>2
      <4>6. \A k \in 1..Len(flat[n]) : \E i \in 1..n : \E j \in 1..Len(seqs[i]) : flat[n][k] = seqs[i][j]
        <5> TAKE k \in 1..Len(flat[n])
        <5>1. CASE k \in 1..Len(flat[n - 1]) /\ flat[n][k] = flat[n - 1][k]
          <6>1. PICK i \in 1..n - 1 : \E j \in 1..Len(seqs[i]) : flat[n - 1][k] = seqs[i][j]
            BY <4>1, <5>1 DEF Flattened
          <6>2. i \in 1..n
            OBVIOUS
          <6> QED
            BY <5>1, <6>1, <6>2
        <5>2. CASE k - Len(flat[n - 1]) \in 1..Len(seqs[n]) /\ flat[n][k] = seqs[n][k - Len(flat[n - 1])]
          BY <5>2
        <5> QED
          BY <4>5, <5>1, <5>2
      <4>7. \A i \in 1..n : \A j \in 1..Len(seqs[i]) : \E k \in 1..Len(flat[n]) : flat[n][k] = seqs[i][j]
        <5> TAKE i \in 1..n
        <5> TAKE j \in 1..Len(seqs[i])
        <5>1. CASE i = n
          <6>1. Len(flat[n - 1]) + j \in 1..Len(flat[n])
            BY <4>4, <4>5, <5>1
          <6> QED
            BY <4>5, <5>1, <6>1
        <5>2. CASE i # n
          <6>1. i \in 1..n - 1
            BY <5>2
          <6>2. PICK k \in 1..Len(flat[n - 1]) : flat[n - 1][k] = seqs[i][j]
            BY <4>1, <6>1 DEF Flattened
          <6>3. k \in 1..Len(flat[n])
            BY <4>4, <4>5
          <6> QED
            BY <4>5, <6>2, <6>3
        <5> QED
          BY <5>1, <5>2
      <4> QED
        BY <4>5, <4>6, <4>7 DEF Flattened
    <3>3. Flattened(flat[n], seqs, n)
      BY <3>1, <3>2
    <3>4. n \in 0..m
      OBVIOUS
    <3> QED
      BY <3>3, <3>4
  <2>9. m \in F
    <3> HIDE DEF F
    <3> QED
      BY <2>7, <2>8, EveryTurn
  <2>10. Flattened(flat[m], seqs, m)
    <3> QED
      BY <1>3, <2>9
  <2> QED
    BY <2>5, <2>10
<1> QED
  BY <1>2, <1>3

\* A set of the numbers of a list is finite, and empty when it has none.
LEMMA SomeOfList ==
  ASSUME NEW m \in Nat, NEW S \in SUBSET (1..m)
  PROVE  IsFiniteSet(S) /\ Cardinality(S) \in Nat /\ (Cardinality(S) = 0 => S = {})
<1>1. IsFiniteSet(1..m)
  BY FS_Interval
<1>2. IsFiniteSet(S)
  BY <1>1, FS_Subset
<1> QED
  BY <1>2, FS_CardinalityType, FS_EmptySet

\* The stages in which the manifest is assembled, and those in which something is written.
Assembling == {"old build", "manifest", "files", "proof", "move"}
Changing == Assembling \ {"old build"}

\* Every translation was given, is well formed, and names no toolchain of an instance that is kept.
ForeignFollows ==
  /\ pc = "migrators" => foreign = <<>>
  /\ \A n \in 1..Len(foreign) : "translation" \in DOMAIN foreign[n]
  /\ \A n \in 1..Len(foreign) :
       foreign[n].translation # Missing =>
         /\ foreign[n].translation \in GivenTranslations
         /\ IsWellTranslated(foreign[n].translation)
         /\ ~RenamesDetected(foreign[n].translation, Instances)

\* With no blocker so far, every plugin that is considered is pinned and every answer can be proved.
BlockersFollow ==
  /\ pc \in Assembling => blockers = 0
  /\ pc # "idle" /\ blockers = 0 =>
       /\ \A n \in 1..Len(considered) : Pinned(considered[n])
       /\ \A n \in 1..Len(kept) : ~Unprovable(kept[n].answer.proof)

DiskFollows == IsFiniteSet(DOMAIN disk) /\ DOMAIN disk \subseteq Places

\* What is owned does not nest; it is not among what was moved aside before its turn to be moved
\* comes, and it is there and nowhere else after.
OwnedFollows ==
  pc \in Changing =>
    /\ \A m, n \in 1..Len(AllOwned) : m < n => ~Nested(AllOwned[m], AllOwned[n])
    /\ \A n \in 1..Len(AllOwned) :
         IF pc = "move" /\ n < turn THEN ~Exists(disk, AllOwned[n]) /\ Exists(old, AllOwned[n])
         ELSE ~Exists(old, AllOwned[n])

ManifestFollows == pc \in {"files", "proof", "move"} => manifest = merged
ProvedFollows == pc = "move" /\ turn = 1 => SameAll

MigrateInv ==
  /\ MigrateTypeOK
  /\ ForeignFollows
  /\ BlockersFollow
  /\ DiskFollows
  /\ OwnedFollows
  /\ ManifestFollows
  /\ ProvedFollows
  /\ ManifestAgrees

\* What is written for the new build is not among the project's original files ...
LeavesOriginals ==
  pc \in {"old build", "files", "proof"} =>
    /\ \A n \in 1..Len(AllFiles) : AllFiles[n].path \notin Originals
    /\ \A n \in 1..Len(Comparisons) : {Comparisons[n].old, Comparisons[n].new} \cap Originals = {}

\* ... nor below anything that is owned.
KeptApart ==
  pc = "move" =>
    \A m \in 1..Len(AllOwned) :
      /\ \A n \in 1..Len(AllFiles) : AllFiles[n].path \notin Below(disk, AllOwned[m])
      /\ \A n \in 1..Len(Comparisons) : Comparisons[n].new \notin Below(disk, AllOwned[m])

\* A carried file is whole once it has been written.
CarriedFollows ==
  \A n \in 1..Len(AllFiles) :
    pc \in {"proof", "move"} \/ (pc = "files" /\ n < turn) =>
      Content(disk, AllFiles[n].path) \notin {Unreadable, Malformed}

\* An artifact of the old build is moved aside, or is still the same as that of the new one.
SameSoFar ==
  pc = "move" =>
    \A n \in 1..Len(Comparisons) :
      LET was == Content(disk, Comparisons[n].old)
      IN was # Unreadable => Same(was, Content(disk, Comparisons[n].new), Comparisons[n].as)

-----------------------------------------------------------------------------
(* What the lists of a run hold.                                           *)

\* The lists of a run have lengths.
LEMMA ListSizes ==
  ASSUME MigrateTypeOK
  PROVE  Len(plugins) \in Nat /\ Len(considered) \in Nat /\ Len(kept) \in Nat /\ Len(foreign) \in Nat
BY ListFacts DEF MigrateTypeOK

\* What is kept was answered and is well formed.
LEMMA KeptIsAnswer ==
  ASSUME MigrateTypeOK, NEW n \in 1..Len(kept)
  PROVE  /\ kept[n].answer \in Given /\ IsAnswer(kept[n].answer) /\ IsTranslation(kept[n].answer)
         /\ IsWell(kept[n].answer)
BY MigrateAssumption DEF MigrateTypeOK, IsAnswer

\* A translation was given and is well formed.
LEMMA TranslationIsGiven ==
  ASSUME ForeignFollows, NEW n \in 1..Len(foreign), foreign[n].translation # Missing
  PROVE  /\ foreign[n].translation \in GivenTranslations /\ IsTranslation(foreign[n].translation)
         /\ IsWellTranslated(foreign[n].translation)
BY MigrateAssumption DEF ForeignFollows

\* What is owned is a list of paths.
LEMMA OwnedIsList ==
  ASSUME MigrateTypeOK
  PROVE  IsList(AllOwned) /\ \A k \in 1..Len(AllOwned) : AllOwned[k] \in Seq(STRING)
<1> DEFINE lists == [n \in 1..Len(kept) |-> Owned(kept[n])]
<1>1. Len(kept) \in Nat
  BY ListSizes
<1>2. ASSUME NEW n \in 1..Len(kept)
      PROVE  IsList(lists[n]) /\ \A j \in 1..Len(lists[n]) : lists[n][j] \in Seq(STRING)
  <2>1. IsAnswer(kept[n].answer) /\ IsWell(kept[n].answer)
    BY KeptIsAnswer
  <2>2. CASE kept[n].answer.owned = Missing
    BY <2>2, EmptyIsList DEF Owned
  <2>3. CASE kept[n].answer.owned # Missing
    <3>1. IsList(kept[n].answer.owned) /\ Elements(kept[n].answer.owned) \subseteq Seq(STRING)
      BY <2>1, <2>3 DEF IsAnswer, IsListOrNone, IsWell, OwnedIsWell
    <3>2. \A j \in 1..Len(kept[n].answer.owned) : kept[n].answer.owned[j] \in Seq(STRING)
      BY <2>3, <3>1 DEF Elements
    <3> QED
      BY <2>3, <3>1, <3>2 DEF Owned
  <2> QED
    BY <2>2, <2>3
<1>3. Flattened(FlattenSeq(lists), lists, Len(kept))
  <2>1. lists = [n \in 1..Len(kept) |-> lists[n]]
    OBVIOUS
  <2>2. \A n \in 1..Len(kept) : IsList(lists[n])
    BY <1>2
  <2> HIDE DEF lists
  <2> QED
    BY <1>1, <2>1, <2>2, FlattenIsList
<1>4. AllOwned = FlattenSeq(lists)
  BY DEF AllOwned
<1> HIDE DEF lists
<1> QED
  BY <1>2, <1>3, <1>4 DEF Flattened

\* What one answer carries is a list of files with a text each.
LEMMA FilesOfAnswer ==
  ASSUME NEW answer, IsTranslation(answer), answer.files # Malformed
  PROVE  /\ IsList(FilesOf(answer))
         /\ \A j \in 1..Len(FilesOf(answer)) :
              /\ FilesOf(answer)[j].path \in CarriedBy(answer)
              /\ FilesOf(answer)[j].path \in Seq(STRING)
              /\ FilesOf(answer)[j].text \notin {Malformed, Unreadable}
<1>1. CASE answer.files = Missing
  BY <1>1, EmptyIsList DEF FilesOf
<1>2. CASE answer.files # Missing
  <2>1. IsList(answer.files) /\ \A f \in Elements(answer.files) :
          f.path \in Seq(STRING) /\ f.text \notin {Malformed, Unreadable}
    BY <1>2 DEF IsTranslation, IsListOrNone
  <2>2. \A j \in 1..Len(answer.files) : answer.files[j] \in Elements(answer.files)
    BY <1>2 DEF Elements
  <2>3. CarriedBy(answer) = {f.path : f \in Elements(answer.files)}
    BY <1>2 DEF CarriedBy
  <2> QED
    BY <1>2, <2>1, <2>2, <2>3 DEF FilesOf
<1> QED
  BY <1>1, <1>2

\* The files of a well-formed answer are none or a list.
LEMMA FilesAreKnown ==
  ASSUME NEW answer, IsWell(answer) \/ IsWellTranslated(answer)
  PROVE  answer.files # Malformed
BY ShapesDiffer DEF IsWell, IsWellTranslated, FilesAreWell, TranslatedFilesAreWell

\* Everything that is carried is a list of files with a text each.
LEMMA FilesAreList ==
  ASSUME MigrateTypeOK, ForeignFollows
  PROVE  /\ IsList(AllFiles)
         /\ \A k \in 1..Len(AllFiles) : /\ AllFiles[k].path \in Places
                                        /\ AllFiles[k].path \in Seq(STRING)
                                        /\ AllFiles[k].text \notin {Malformed, Unreadable}
<1> DEFINE first == [n \in 1..Len(kept) |-> FilesOf(kept[n].answer)]
           second == [n \in 1..Len(foreign) |->
                        IF foreign[n].translation = Missing THEN <<>> ELSE FilesOf(foreign[n].translation)]
           Fine(list) == /\ IsList(list)
                         /\ \A k \in 1..Len(list) : /\ list[k].path \in Places
                                                    /\ list[k].path \in Seq(STRING)
                                                    /\ list[k].text \notin {Malformed, Unreadable}
<1>1. Len(kept) \in Nat /\ Len(foreign) \in Nat
  BY ListSizes
<1>2. ASSUME NEW n \in 1..Len(kept) PROVE Fine(first[n])
  <2>1. CarriedBy(kept[n].answer) \subseteq Places
    BY KeptIsAnswer DEF Places
  <2> QED
    BY <2>1, KeptIsAnswer, FilesAreKnown, FilesOfAnswer
<1>3. ASSUME NEW n \in 1..Len(foreign) PROVE Fine(second[n])
  <2>1. CASE foreign[n].translation = Missing
    BY <2>1, EmptyIsList
  <2>2. CASE foreign[n].translation # Missing
    <3>1. CarriedBy(foreign[n].translation) \subseteq Places
      BY <2>2, TranslationIsGiven DEF Places
    <3> QED
      BY <2>2, <3>1, TranslationIsGiven, FilesAreKnown, FilesOfAnswer
  <2> QED
    BY <2>1, <2>2
<1>4. Flattened(FlattenSeq(first), first, Len(kept))
  <2>1. first = [n \in 1..Len(kept) |-> first[n]]
    OBVIOUS
  <2>2. \A n \in 1..Len(kept) : IsList(first[n])
    BY <1>2
  <2> HIDE DEF first
  <2> QED
    BY <1>1, <2>1, <2>2, FlattenIsList
<1>5. Flattened(FlattenSeq(second), second, Len(foreign))
  <2>1. second = [n \in 1..Len(foreign) |-> second[n]]
    OBVIOUS
  <2>2. \A n \in 1..Len(foreign) : IsList(second[n])
    BY <1>3
  <2> HIDE DEF second
  <2> QED
    BY <1>1, <2>1, <2>2, FlattenIsList
<1>6. AllFiles = FlattenSeq(first) \o FlattenSeq(second)
  BY DEF AllFiles
<1> HIDE DEF first, second
<1>7. ASSUME NEW flat, NEW lists, NEW m, Flattened(flat, lists, m), \A n \in 1..m : Fine(lists[n])
      PROVE  Fine(flat)
  <2>1. ASSUME NEW k \in 1..Len(flat)
        PROVE  /\ flat[k].path \in Places /\ flat[k].path \in Seq(STRING)
               /\ flat[k].text \notin {Malformed, Unreadable}
    <3>1. PICK i \in 1..m : \E j \in 1..Len(lists[i]) : flat[k] = lists[i][j]
      BY <1>7 DEF Flattened
    <3>2. Fine(lists[i])
      BY <1>7
    <3> QED
      BY <3>1, <3>2
  <2> QED
    BY <1>7, <2>1 DEF Flattened
<1>8. Fine(FlattenSeq(first)) /\ Fine(FlattenSeq(second))
  <2> HIDE DEF Fine
  <2> QED
    BY <1>2, <1>3, <1>4, <1>5, <1>7
<1> QED
  <2> DEFINE one == FlattenSeq(first)
             two == FlattenSeq(second)
  <2>1. Fine(one) /\ Fine(two)
    BY <1>8
  <2> HIDE DEF one, two
  <2>2. /\ IsList(one \o two)
        /\ \A i \in 1..Len(one \o two) : \/ i \in 1..Len(one) /\ (one \o two)[i] = one[i]
                                         \/ i - Len(one) \in 1..Len(two) /\ (one \o two)[i] = two[i - Len(one)]
    BY <2>1, ConcatIsList
  <2>3. Fine(one \o two)
    BY <2>1, <2>2
  <2> QED
    BY <1>6, <2>3 DEF one, two

\* The comparisons of an answer that can be proved.
LEMMA ComparesOfAnswer ==
  ASSUME NEW answer, IsAnswer(answer), IsWell(answer), ~Unprovable(answer.proof)
  PROVE  /\ IsList(answer.proof.compare)
         /\ \A j \in 1..Len(answer.proof.compare) :
              /\ {answer.proof.compare[j].old, answer.proof.compare[j].new} \subseteq BuiltFor(answer)
              /\ {answer.proof.compare[j].old, answer.proof.compare[j].new} \subseteq Seq(STRING)
              /\ ComparisonIsWell(answer.proof.compare[j])
<1>1. answer.proof \notin {Missing, Malformed}
  BY DEF IsWell, ProofIsWell, Unprovable
<1>2. /\ answer.proof.compare # Missing /\ IsList(answer.proof.compare)
      /\ \A c \in Elements(answer.proof.compare) : {c.old, c.new} \subseteq Seq(STRING)
  BY <1>1 DEF IsAnswer
<1>3. \A c \in Elements(answer.proof.compare) : ComparisonIsWell(c)
  BY <1>1 DEF IsWell, ProofIsWell
<1>4. \A j \in 1..Len(answer.proof.compare) : answer.proof.compare[j] \in Elements(answer.proof.compare)
  BY <1>2 DEF Elements
<1>5. BuiltFor(answer) = UNION {{c.old, c.new} : c \in Elements(answer.proof.compare)}
  BY <1>1 DEF BuiltFor
<1> QED
  BY <1>2, <1>3, <1>4, <1>5

\* When every answer can be proved, the comparisons are a list that misses none.
LEMMA ComparisonsAreList ==
  ASSUME MigrateTypeOK, \A n \in 1..Len(kept) : ~Unprovable(kept[n].answer.proof)
  PROVE  /\ IsList(Comparisons)
         /\ \A k \in 1..Len(Comparisons) :
              /\ {Comparisons[k].old, Comparisons[k].new} \subseteq Places
              /\ {Comparisons[k].old, Comparisons[k].new} \subseteq Seq(STRING)
              /\ ComparisonIsWell(Comparisons[k])
         /\ \A n \in 1..Len(kept) : \A j \in 1..Len(kept[n].answer.proof.compare) :
              \E k \in 1..Len(Comparisons) : Comparisons[k] = kept[n].answer.proof.compare[j]
<1> DEFINE lists == [n \in 1..Len(kept) |-> kept[n].answer.proof.compare]
           Fine(c) == /\ {c.old, c.new} \subseteq Places /\ {c.old, c.new} \subseteq Seq(STRING)
                      /\ ComparisonIsWell(c)
<1>1. Len(kept) \in Nat
  BY ListSizes
<1>2. ASSUME NEW n \in 1..Len(kept)
      PROVE  IsList(lists[n]) /\ \A j \in 1..Len(lists[n]) : Fine(lists[n][j])
  <2>1. BuiltFor(kept[n].answer) \subseteq Places
    <3>1. \A a \in Given : BuiltFor(a) \subseteq Places
      <4> DEFINE built == UNION {BuiltFor(a) : a \in Given}
      <4>1. \A a \in Given : BuiltFor(a) \subseteq built
        OBVIOUS
      <4>2. built \subseteq Places
        BY DEF Places
      <4> QED
        BY <4>1, <4>2
    <3> QED
      BY <3>1, KeptIsAnswer
  <2>2. /\ IsList(kept[n].answer.proof.compare)
        /\ \A j \in 1..Len(kept[n].answer.proof.compare) :
             LET c == kept[n].answer.proof.compare[j]
             IN {c.old, c.new} \subseteq BuiltFor(kept[n].answer) /\ {c.old, c.new} \subseteq Seq(STRING)
                  /\ ComparisonIsWell(c)
    BY KeptIsAnswer, ComparesOfAnswer
  <2> QED
    BY <2>1, <2>2
<1>3. Flattened(FlattenSeq(lists), lists, Len(kept))
  <2>1. lists = [n \in 1..Len(kept) |-> lists[n]]
    OBVIOUS
  <2>2. \A n \in 1..Len(kept) : IsList(lists[n])
    BY <1>2
  <2> HIDE DEF lists
  <2> QED
    BY <1>1, <2>1, <2>2, FlattenIsList
<1>4. Comparisons = FlattenSeq(lists)
  BY DEF Comparisons
<1>5. \A n \in 1..Len(kept) : lists[n] = kept[n].answer.proof.compare
  OBVIOUS
<1> HIDE DEF lists
<1>6. \A k \in 1..Len(Comparisons) : Fine(Comparisons[k])
  <2> HIDE DEF Fine
  <2> QED
    BY <1>2, <1>3, <1>4 DEF Flattened
<1>7. \A n \in 1..Len(kept) : \A j \in 1..Len(kept[n].answer.proof.compare) :
        \E k \in 1..Len(Comparisons) : Comparisons[k] = kept[n].answer.proof.compare[j]
  <2> TAKE n \in 1..Len(kept)
  <2>1. \A j \in 1..Len(lists[n]) : \E k \in 1..Len(Comparisons) : Comparisons[k] = lists[n][j]
    BY <1>3, <1>4 DEF Flattened
  <2>2. lists[n] = kept[n].answer.proof.compare
    BY <1>5
  <2> QED
    BY <2>1, <2>2
<1> QED
  BY <1>3, <1>4, <1>6, <1>7 DEF Flattened

\* The foreign plugins that are reported are a list.
LEMMA ReportedIsList ==
  ASSUME MigrateTypeOK
  PROVE  IsList(Reported)
<1> DEFINE list(n) == IF kept[n].answer.foreign = Missing THEN <<>> ELSE kept[n].answer.foreign
           lists == [n \in 1..Len(kept) |->
                       [m \in 1..Len(list(n)) |-> [kept |-> n, plugin |-> kept[n].answer.foreign[m]]]]
<1>1. Len(kept) \in Nat
  BY ListSizes
<1>2. ASSUME NEW n \in 1..Len(kept) PROVE IsList(lists[n])
  <2>1. IsAnswer(kept[n].answer) /\ IsWell(kept[n].answer)
    BY KeptIsAnswer
  <2>2. IsList(list(n))
    BY <2>1, EmptyIsList DEF IsAnswer, IsListOrNone, IsWell
  <2>3. Len(list(n)) \in Nat
    BY <2>2, ListFacts
  <2> DEFINE one == [m \in 1..Len(list(n)) |-> [kept |-> n, plugin |-> kept[n].answer.foreign[m]]]
  <2>4. one = [m \in 1..Len(list(n)) |-> one[m]]
    OBVIOUS
  <2>5. lists[n] = one
    OBVIOUS
  <2> HIDE DEF one, list
  <2>6. IsList(one)
    BY <2>3, <2>4, MadeIsList
  <2> QED
    BY <2>5, <2>6
<1>3. Flattened(FlattenSeq(lists), lists, Len(kept))
  <2>1. lists = [n \in 1..Len(kept) |-> lists[n]]
    OBVIOUS
  <2>2. \A n \in 1..Len(kept) : IsList(lists[n])
    BY <1>2
  <2> HIDE DEF lists
  <2> QED
    BY <1>1, <2>1, <2>2, FlattenIsList
<1>4. Reported = FlattenSeq(lists)
  BY DEF Reported
<1> QED
  BY <1>3, <1>4 DEF Flattened

\* Whatever is merged is a document that leaves core's keys alone.
LEMMA FragmentIsWell ==
  ASSUME MigrateTypeOK, ForeignFollows
  PROVE  /\ IsList(Fragments) /\ Len(Fragments) = Len(kept) + Len(foreign)
         /\ \A n \in 1..Len(Fragments) : Fragments[n] # Missing =>
              /\ IsDocument(Fragments[n])
              /\ <<"plugins">> \notin DOMAIN Fragments[n]
              /\ \A k \in 1..Len(kept) :
                   /\ <<"toolchains", kept[k].instance, "dir">> \notin DOMAIN Fragments[n]
                   /\ <<"toolchains", kept[k].instance, "toolchain">> \notin DOMAIN Fragments[n]
<1> DEFINE f(n) == FragmentOf(IF n <= Len(kept) THEN kept[n].answer ELSE foreign[n - Len(kept)].translation)
           list == [n \in 1..(Len(kept) + Len(foreign)) |-> f(n)]
<1>1. Len(kept) \in Nat /\ Len(foreign) \in Nat
  BY ListSizes
<1>2. IsList(list) /\ Len(list) = Len(kept) + Len(foreign)
  <2>1. list = [n \in 1..(Len(kept) + Len(foreign)) |-> list[n]]
    OBVIOUS
  <2>2. Len(kept) + Len(foreign) \in Nat
    BY <1>1
  <2> HIDE DEF list
  <2> QED
    BY <2>1, <2>2, MadeIsList
<1>3. Fragments = list
  BY DEF Fragments
<1>4. ASSUME NEW doc, NEW own \in BOOLEAN, ManifestIsWell(doc, own), doc # Missing, NEW i
      PROVE  /\ <<"plugins">> \notin DOMAIN doc
             /\ <<"toolchains", i, "dir">> \notin DOMAIN doc
             /\ ~own => <<"toolchains", i, "toolchain">> \notin DOMAIN doc
  <2>1. ASSUME NEW key, <<"toolchains", i, key>> \in DOMAIN doc PROVE i \in InstancesOf(doc)
    <3>1. /\ Len(<<"toolchains", i, key>>) > 1 /\ <<"toolchains", i, key>>[1] = "toolchains"
          /\ <<"toolchains", i, key>>[2] = i
      OBVIOUS
    <3> QED
      BY <2>1, <3>1 DEF InstancesOf
  <2> QED
    BY <1>4, <2>1 DEF ManifestIsWell
<1>5. ASSUME NEW n \in 1..Len(kept) + Len(foreign), list[n] # Missing
      PROVE  /\ IsDocument(list[n])
             /\ <<"plugins">> \notin DOMAIN list[n]
             /\ \A k \in 1..Len(kept) :
                  /\ <<"toolchains", kept[k].instance, "dir">> \notin DOMAIN list[n]
                  /\ <<"toolchains", kept[k].instance, "toolchain">> \notin DOMAIN list[n]
  <2>1. CASE n <= Len(kept)
    <3>1. n \in 1..Len(kept)
      BY <1>1, <2>1
    <3>2. kept[n].answer # Missing /\ list[n] = kept[n].answer.manifest
      BY <1>5, <2>1 DEF FragmentOf
    <3>3. IsTranslation(kept[n].answer) /\ IsWell(kept[n].answer)
      BY <3>1, KeptIsAnswer
    <3>4. ManifestIsWell(list[n], FALSE) /\ list[n] # Malformed
      BY <1>5, <3>2, <3>3, ShapesDiffer DEF IsWell, ManifestIsWell
    <3>5. IsDocument(list[n])
      BY <1>5, <3>2, <3>3, <3>4 DEF IsTranslation
    <3> HIDE DEF list
    <3> QED
      BY <1>4, <1>5, <3>4, <3>5
  <2>2. CASE ~(n <= Len(kept))
    <3>1. n - Len(kept) \in 1..Len(foreign)
      BY <1>1, <2>2
    <3> DEFINE t == foreign[n - Len(kept)].translation
    <3>2. t # Missing /\ list[n] = t.manifest
      BY <1>5, <2>2 DEF FragmentOf
    <3>3. IsTranslation(t) /\ IsWellTranslated(t)
      BY <3>1, <3>2, TranslationIsGiven
    <3>4. ~RenamesDetected(t, Instances)
      BY <3>1, <3>2 DEF ForeignFollows
    <3>5. ManifestIsWell(list[n], TRUE) /\ list[n] # Malformed
      BY <1>5, <3>2, <3>3, ShapesDiffer DEF IsWellTranslated, ManifestIsWell
    <3>6. IsDocument(list[n])
      BY <1>5, <3>2, <3>3, <3>5 DEF IsTranslation
    <3>7. \A k \in 1..Len(kept) : <<"toolchains", kept[k].instance, "toolchain">> \notin DOMAIN list[n]
      BY <1>5, <3>2, <3>4 DEF RenamesDetected, Instances
    <3> HIDE DEF list, t
    <3> QED
      BY <1>4, <1>5, <3>5, <3>6, <3>7
  <2> QED
    BY <2>1, <2>2
<1> HIDE DEF list
<1> QED
  BY <1>2, <1>3, <1>5

-----------------------------------------------------------------------------
(* What a step that leaves the memory of the run alone keeps.              *)

\* While the memory of a run stays, all that is computed from it stays.
LEMMA MemoryStays ==
  ASSUME UNCHANGED memory
  PROVE  /\ UNCHANGED <<plugins, detections, considered, kept, foreign, blockers, merged>>
         /\ AllOwned' = AllOwned /\ AllFiles' = AllFiles /\ Comparisons' = Comparisons
         /\ Fragments' = Fragments /\ Instances' = Instances
<1>1. UNCHANGED <<plugins, detections, considered, kept, foreign, blockers, merged>>
  BY DEF memory
<1>2. AllOwned' = AllOwned
  BY <1>1 DEF AllOwned, Owned
<1>3. AllFiles' = AllFiles
  BY <1>1 DEF AllFiles, FilesOf
<1>4. Comparisons' = Comparisons
  BY <1>1 DEF Comparisons
<1>5. Fragments' = Fragments
  BY <1>1 DEF Fragments, FragmentOf
<1>6. Instances' = Instances
  BY <1>1 DEF Instances
<1> QED
  BY <1>1, <1>2, <1>3, <1>4, <1>5, <1>6

\* A step that ends the run, or goes on after the manifest is assembled.
GoesOn ==
  /\ UNCHANGED memory
  /\ pc' = "idle" \/ (pc \in Assembling /\ pc' \in Assembling)

\* A step that leaves the memory keeps what is said of it.
LEMMA GoesOnInv ==
  ASSUME MigrateInv, GoesOn, turn' \in Nat \ {0}, runs' = runs, report'.outcome \in Outcomes
  PROVE  /\ MigrateTypeOK' /\ ForeignFollows' /\ BlockersFollow'
         /\ ManifestAgrees'
<1>1. /\ UNCHANGED <<plugins, detections, considered, kept, foreign, blockers, merged>>
      /\ Fragments' = Fragments /\ Instances' = Instances
  BY MemoryStays DEF GoesOn
<1>2. pc' \in Stages /\ pc' # "migrators"
  BY DEF GoesOn, Assembling, Stages
<1>3. MigrateTypeOK'
  BY <1>1, <1>2 DEF MigrateInv, MigrateTypeOK
<1>4. ForeignFollows'
  BY <1>1, <1>2 DEF MigrateInv, ForeignFollows
<1>5. BlockersFollow'
  BY <1>1 DEF MigrateInv, BlockersFollow, GoesOn, Assembling, Pinned
<1>6. ManifestAgrees'
  <2> SUFFICES ASSUME pc' \in Assembling PROVE ManifestAgrees'
    BY DEF ManifestAgrees, Assembling
  <2>1. pc \in Assembling
    BY DEF GoesOn, Assembling
  <2> QED
    BY <1>1, <2>1 DEF MigrateInv, ManifestAgrees, Assembling, At
<1> QED
  BY <1>3, <1>4, <1>5, <1>6

-----------------------------------------------------------------------------
(* What is on disk, and what was moved aside.                              *)

\* Every place is a path.
LEMMA PlacesArePaths == Originals \subseteq Places /\ Places \subseteq Seq(STRING) /\ IsFiniteSet(Originals)
<1>1. \A a \in Given \cup GivenTranslations : CarriedBy(a) \subseteq Seq(STRING)
  <2> TAKE a \in Given \cup GivenTranslations
  <2>1. IsTranslation(a)
    BY MigrateAssumption DEF IsAnswer
  <2> QED
    BY <2>1 DEF IsTranslation, CarriedBy
<1>2. \A a \in Given : BuiltFor(a) \subseteq Seq(STRING)
  <2> TAKE a \in Given
  <2>1. IsAnswer(a)
    BY MigrateAssumption
  <2> QED
    BY <2>1 DEF IsAnswer, BuiltFor
<1> QED
  BY <1>1, <1>2, MigrateAssumption DEF Places

\* Putting a file in a place of the project's.
LEMMA PutFollows ==
  ASSUME DiskFollows, NEW path \in Places, NEW content, disk' = Put(disk, path, content)
  PROVE  DiskFollows'
<1>1. DOMAIN disk' = DOMAIN disk \cup {path}
  BY DEF Put
<1>2. IsFiniteSet(DOMAIN disk \cup {path})
  BY FS_AddElement DEF DiskFollows
<1> QED
  BY <1>1, <1>2 DEF DiskFollows

\* A build leaves its outputs in a number of places.
LEMMA BuildFollows ==
  ASSUME DiskFollows, NEW outputs \in SUBSET Places, IsFiniteSet(outputs), NEW made,
         disk' = [p \in DOMAIN disk \cup outputs |-> IF p \in outputs THEN made[p] ELSE disk[p]]
  PROVE  DiskFollows'
<1>1. DOMAIN disk' = DOMAIN disk \cup outputs
  OBVIOUS
<1>2. IsFiniteSet(DOMAIN disk \cup outputs)
  BY FS_Union DEF DiskFollows
<1> QED
  BY <1>1, <1>2 DEF DiskFollows

\* Two paths of one file are one above the other.
LEMMA MeetIsNested ==
  ASSUME NEW left \in Seq(STRING), NEW right \in Seq(STRING), NEW p \in Seq(STRING),
         p = left \/ Above(left, p), p = right \/ Above(right, p)
  PROVE  Nested(left, right)
<1>1. Len(left) \in Nat /\ Len(right) \in Nat /\ Len(p) \in Nat
  BY LenProperties
<1>2. /\ Len(left) <= Len(p) /\ \A i \in 1..Len(left) : left[i] = p[i]
      /\ Len(right) <= Len(p) /\ \A i \in 1..Len(right) : right[i] = p[i]
  <2>1. ASSUME NEW q \in Seq(STRING), p = q \/ Above(q, p)
        PROVE  Len(q) <= Len(p) /\ \A i \in 1..Len(q) : q[i] = p[i]
    <3>1. Len(q) \in Nat
      BY LenProperties
    <3>2. CASE p = q
      BY <3>1, <3>2
    <3>3. CASE Above(q, p)
      <4>1. Len(q) < Len(p) /\ SubSeq(p, 1, Len(q)) = q
        BY <3>3 DEF Above
      <4>2. \A i \in 1..Len(q) : p[i] \in STRING
        BY <1>1, <3>1, <4>1, ElementOfSeq
      <4>3. \A i \in 1..Len(q) - 1 + 1 : SubSeq(p, 1, Len(q))[i] = p[1 + i - 1]
        BY <3>1, <4>2, SubSeqProperties
      <4> QED
        BY <1>1, <3>1, <4>1, <4>3
    <3> QED
      BY <2>1, <3>2, <3>3
  <2> QED
    BY <2>1
<1>3. ASSUME NEW a \in Seq(STRING), NEW b \in Seq(STRING), Len(a) <= Len(b),
             \A i \in 1..Len(a) : a[i] = b[i]
      PROVE  Starts(Folded(a), Folded(b))
  <2>1. Len(a) \in Nat /\ Len(b) \in Nat
    BY LenProperties
  <2> DEFINE fa == Folded(a)
             fb == Folded(b)
  <2>2. /\ Len(fa) = Len(a) /\ Len(fb) = Len(b) /\ IsList(fa) /\ IsList(fb)
        /\ \A i \in 1..Len(a) : fa[i] = Fold(a[i])
        /\ \A i \in 1..Len(b) : fb[i] = Fold(b[i])
    <3>1. fa = [i \in 1..Len(a) |-> Fold(a[i])] /\ fb = [i \in 1..Len(b) |-> Fold(b[i])]
      BY DEF Folded
    <3> HIDE DEF fa, fb
    <3>2. fa = [i \in 1..Len(a) |-> fa[i]] /\ fb = [i \in 1..Len(b) |-> fb[i]]
      BY <3>1
    <3> QED
      BY <2>1, <3>1, <3>2, MadeIsList
  <2> HIDE DEF fa, fb
  <2>3. \A i \in 1..Len(a) : fb[i] = fa[i]
    BY <1>3, <2>1, <2>2
  <2> DEFINE S == {fb[i] : i \in 1..Len(a)}
             cut == SubSeq(fb, 1, Len(a))
  <2>4. /\ cut \in Seq(S) /\ Len(cut) = Len(a)
        /\ \A i \in 1..Len(a) : cut[i] = fb[i]
    <3>1. \A i \in 1..Len(a) : fb[i] \in S
      OBVIOUS
    <3> HIDE DEF S
    <3>2. /\ cut \in Seq(S) /\ Len(cut) = IF 1 <= Len(a) THEN Len(a) - 1 + 1 ELSE 0
          /\ \A i \in 1..Len(a) - 1 + 1 : cut[i] = fb[1 + i - 1]
      BY <2>1, <3>1, SubSeqProperties
    <3> HIDE DEF cut
    <3>3. Len(cut) = Len(a)
      BY <2>1, <3>2
    <3>4. \A i \in 1..Len(a) : cut[i] = fb[i]
      BY <2>1, <3>2
    <3> QED
      BY <3>2, <3>3, <3>4
  <2>5. cut = fa
    <3>1. fa \in Seq(S)
      <4>1. fa = [i \in 1..Len(a) |-> fa[i]]
        BY <2>2, ListFacts
      <4>2. \A i \in 1..Len(a) : fa[i] \in S
        BY <2>3
      <4>3. fa \in [1..Len(a) -> S]
        BY <4>1, <4>2
      <4> HIDE DEF S
      <4> QED
        BY <2>1, <4>3
    <3> HIDE DEF S, cut
    <3> QED
      BY <2>2, <2>3, <2>4, <3>1, SeqEqual
  <2> QED
    BY <1>3, <2>2, <2>5 DEF Starts, fa, fb
<1>4. CASE Len(left) <= Len(right)
  <2>1. \A i \in 1..Len(left) : left[i] = right[i]
    BY <1>1, <1>2, <1>4
  <2> QED
    BY <1>3, <1>4, <2>1 DEF Nested
<1>5. CASE Len(right) <= Len(left)
  <2>1. \A i \in 1..Len(right) : right[i] = left[i]
    BY <1>1, <1>2, <1>5
  <2> QED
    BY <1>3, <1>5, <2>1 DEF Nested
<1> QED
  BY <1>1, <1>4, <1>5

-----------------------------------------------------------------------------
(* The steps after the manifest is assembled, and what happens between     *)
(* runs.                                                                   *)

\* Before anything is moved, what is said of the owned files rests on the memory.
LEMMA OwnedStays ==
  ASSUME OwnedFollows, UNCHANGED memory, old' = old,
         pc' \in Changing => pc \in Changing \ {"move"} /\ (pc' = "move" => turn' = 1)
  PROVE  OwnedFollows'
<1>1. AllOwned' = AllOwned
  BY MemoryStays
<1> SUFFICES ASSUME pc' \in Changing PROVE OwnedFollows'
  BY DEF OwnedFollows, Changing, Assembling
<1>2. pc \in Changing /\ pc # "move"
  OBVIOUS
<1>3. \A m, n \in 1..Len(AllOwned) : m < n => ~Nested(AllOwned[m], AllOwned[n])
  BY <1>2 DEF OwnedFollows
<1>4. \A n \in 1..Len(AllOwned) : ~Exists(old, AllOwned[n])
  BY <1>2 DEF OwnedFollows
<1>5. \A n \in 1..Len(AllOwned) : ~(pc' = "move" /\ n < turn')
  OBVIOUS
<1>6. \A m, n \in 1..Len(AllOwned') : m < n => ~Nested(AllOwned'[m], AllOwned'[n])
  BY <1>1, <1>3
<1>7. \A n \in 1..Len(AllOwned') : ~Exists(old', AllOwned'[n])
  BY <1>1, <1>4
<1> QED
  BY <1>1, <1>5, <1>6, <1>7 DEF OwnedFollows

\* What a step that leaves the memory has still to show.
LEMMA ThenInv ==
  ASSUME MigrateInv, GoesOn, turn' \in Nat \ {0}, runs' = runs, report'.outcome \in Outcomes,
         DiskFollows', OwnedFollows', ManifestFollows', ProvedFollows'
  PROVE  MigrateInv'
BY GoesOnInv DEF MigrateInv

\* A run may end at any step.
LEMMA EndedInv ==
  ASSUME MigrateInv, UNCHANGED memory, pc' = "idle", turn' \in Nat \ {0}, runs' = runs,
         report'.outcome \in Outcomes, DiskFollows'
  PROVE  MigrateInv'
<1>1. GoesOn
  BY DEF GoesOn
<1>2. OwnedFollows' /\ ManifestFollows' /\ ProvedFollows'
  BY DEF OwnedFollows, ManifestFollows, ProvedFollows, Changing, Assembling
<1> QED
  BY <1>1, <1>2, ThenInv

\* The shapes the steps rely on.
LEMMA TypeIs ==
  ASSUME MigrateTypeOK
  PROVE  /\ turn \in Nat \ {0} /\ turn + 1 \in Nat \ {0} /\ 1 \in Nat \ {0}
         /\ report.outcome \in Outcomes
         /\ \A said : [outcome |-> "error", said |-> said].outcome \in Outcomes
         /\ \A said : [outcome |-> "unproved", said |-> said].outcome \in Outcomes
         /\ \A said : [outcome |-> "migrated", said |-> said].outcome \in Outcomes
         /\ \A said : [outcome |-> "blocked", said |-> said].outcome \in Outcomes
BY DEF MigrateTypeOK, Outcomes

\* A disk that is left alone.
LEMMA DiskKeeps == ASSUME DiskFollows, disk' = disk PROVE DiskFollows'
BY DEF DiskFollows

\* A session that does not open ends the run.
LEMMA SessionFailsInv == ASSUME MigrateInv, SessionFails PROVE MigrateInv'
<1>1. MigrateTypeOK /\ DiskFollows
  BY DEF MigrateInv
<1>2. DiskFollows'
  BY <1>1, DiskKeeps DEF SessionFails, DiskStays
<1> QED
  BY <1>1, <1>2, TypeIs, EndedInv DEF SessionFails, End

\* The places where the outputs of a kept answer are built.
LEMMA OutputsAreFew ==
  ASSUME MigrateTypeOK, NEW n \in 1..Len(kept), ~Unprovable(kept[n].answer.proof)
  PROVE  LET compare == kept[n].answer.proof.compare
             olds == {compare[j].old : j \in 1..Len(compare)}
             news == {compare[j].new : j \in 1..Len(compare)}
         IN /\ olds \in SUBSET Places /\ IsFiniteSet(olds)
            /\ news \in SUBSET Places /\ IsFiniteSet(news)
<1> DEFINE compare == kept[n].answer.proof.compare
           olds == {compare[j].old : j \in 1..Len(compare)}
           news == {compare[j].new : j \in 1..Len(compare)}
<1>1. /\ IsList(compare)
      /\ \A j \in 1..Len(compare) : {compare[j].old, compare[j].new} \subseteq BuiltFor(kept[n].answer)
  BY KeptIsAnswer, ComparesOfAnswer
<1>2. BuiltFor(kept[n].answer) \subseteq Places
  <2>1. \A a \in Given : BuiltFor(a) \subseteq Places
    BY DEF Places
  <2> QED
    BY <2>1, KeptIsAnswer
<1>3. Len(compare) \in Nat
  BY <1>1, ListFacts
<1> HIDE DEF compare
<1>4. IsFiniteSet(1..Len(compare))
  BY <1>3, FS_Interval
<1>5. IsFiniteSet(olds) /\ IsFiniteSet(news)
  <2> DEFINE f == [j \in 1..Len(compare) |-> compare[j].old]
             g == [j \in 1..Len(compare) |-> compare[j].new]
  <2>1. f \in Surjection(1..Len(compare), olds) /\ g \in Surjection(1..Len(compare), news)
    BY DEF Surjection
  <2> HIDE DEF f, g, olds, news
  <2> QED
    BY <1>4, <2>1, FS_Surjection
<1>6. olds \in SUBSET Places /\ news \in SUBSET Places
  BY <1>1, <1>2
<1> QED
  BY <1>5, <1>6 DEF compare

\* One old build adds its artifacts, or ends the run.
LEMMA BuildOldInv == ASSUME MigrateInv, BuildOld PROVE MigrateInv'
<1>1. /\ MigrateTypeOK /\ DiskFollows /\ BlockersFollow
      /\ pc = "old build" /\ turn \in 1..Len(kept) /\ UNCHANGED <<old, manifest, runs, memory>>
  <2>1. pc = "old build" /\ turn <= Len(kept) /\ UNCHANGED <<old, manifest, runs, memory>>
    BY DEF BuildOld
  <2>2. MigrateTypeOK /\ DiskFollows /\ BlockersFollow
    BY DEF MigrateInv
  <2>3. turn \in Nat /\ turn # 0 /\ Len(kept) \in Nat
    BY <2>2, TypeIs, ListSizes
  <2>4. turn \in 1..Len(kept)
    <3>1. turn <= Len(kept)
      BY <2>1
    <3> QED
      BY <2>3, <3>1
  <2> QED
    BY <2>1, <2>2, <2>4
<1>2. blockers = 0 /\ ~Unprovable(kept[turn].answer.proof)
  BY <1>1 DEF BlockersFollow, Assembling
<1>3. DiskFollows' /\ turn' \in Nat \ {0} /\ report'.outcome \in Outcomes /\ pc' \in {pc, "idle"}
  <2> DEFINE outputs == {kept[turn].answer.proof.compare[n].old : n \in 1..Len(kept[turn].answer.proof.compare)}
  <2>1. CASE \E made \in [outputs -> OldOutputs] :
               disk' = [p \in DOMAIN disk \cup outputs |-> IF p \in outputs THEN made[p] ELSE disk[p]]
               /\ Next1
    <3>1. outputs \in SUBSET Places /\ IsFiniteSet(outputs)
      BY <1>1, <1>2, OutputsAreFew
    <3> HIDE DEF outputs
    <3>2. DiskFollows'
      BY <1>1, <2>1, <3>1, BuildFollows
    <3> QED
      BY <1>1, <2>1, <3>2, TypeIs DEF Next1
  <2>2. CASE End("error") /\ UNCHANGED disk
    BY <1>1, <2>2, TypeIs, DiskKeeps DEF End
  <2> QED
    BY <2>1, <2>2 DEF BuildOld
<1>4. GoesOn
  BY <1>1, <1>3 DEF GoesOn, Assembling
<1>5. OwnedFollows' /\ ManifestFollows' /\ ProvedFollows'
  BY <1>1, <1>3 DEF OwnedFollows, ManifestFollows, ProvedFollows, Changing, Assembling
<1> QED
  BY <1>1, <1>3, <1>4, <1>5, ThenInv

\* The manifest is what was assembled, or the run ends.
LEMMA WriteManifestInv == ASSUME MigrateInv, WriteManifest PROVE MigrateInv'
<1>1. /\ MigrateTypeOK /\ DiskFollows /\ OwnedFollows /\ DiskFollows'
      /\ pc = "manifest" /\ UNCHANGED <<disk, old, runs, memory>>
  BY DiskKeeps DEF MigrateInv, WriteManifest
<1>2. CASE manifest' = merged /\ Goto("files")
  <2>1. pc' = "files" /\ turn' = 1 /\ report' = report /\ manifest' = merged'
    BY <1>1, <1>2, MemoryStays DEF Goto
  <2>2. OwnedFollows'
    BY <1>1, <2>1, OwnedStays DEF Changing, Assembling
  <2>3. GoesOn /\ ManifestFollows' /\ ProvedFollows'
    BY <1>1, <2>1 DEF GoesOn, Assembling, ManifestFollows, ProvedFollows
  <2> QED
    BY <1>1, <2>1, <2>2, <2>3, TypeIs, ThenInv
<1>3. CASE End("error")
  BY <1>1, <1>3, TypeIs, EndedInv DEF End
<1> QED
  BY <1>2, <1>3 DEF WriteManifest

\* A step that stays with the carried files, or with the proofs.
LEMMA StaysInv ==
  ASSUME MigrateInv, pc \in {"files", "proof"}, pc' = pc, turn' = turn + 1, report' = report,
         UNCHANGED <<old, manifest, runs, memory>>, DiskFollows'
  PROVE  MigrateInv'
<1>1. MigrateTypeOK /\ OwnedFollows /\ ManifestFollows /\ merged' = merged
  BY MemoryStays DEF MigrateInv
<1>2. OwnedFollows'
  BY <1>1, OwnedStays DEF Changing, Assembling
<1>3. GoesOn /\ ManifestFollows' /\ ProvedFollows'
  BY <1>1 DEF GoesOn, Assembling, ManifestFollows, ProvedFollows
<1> QED
  BY <1>1, <1>2, <1>3, TypeIs, ThenInv

\* One carried file is written, or the run ends.
LEMMA WriteFileInv == ASSUME MigrateInv, WriteFile PROVE MigrateInv'
<1>1. /\ MigrateTypeOK /\ ForeignFollows /\ DiskFollows
      /\ pc = "files" /\ turn \in 1..Len(AllFiles) /\ UNCHANGED <<old, manifest, runs, memory>>
  BY DEF MigrateInv, WriteFile, MigrateTypeOK
<1>2. AllFiles[turn].path \in Places
  BY <1>1, FilesAreList
<1>3. DiskFollows'
  BY <1>1, <1>2, PutFollows, DiskKeeps DEF WriteFile
<1>4. CASE Next1
  BY <1>1, <1>3, <1>4, StaysInv DEF Next1
<1>5. CASE End("error")
  BY <1>1, <1>3, <1>5, TypeIs, EndedInv DEF End
<1> QED
  BY <1>4, <1>5 DEF WriteFile

\* Then the proof begins.
LEMMA FilesWrittenInv == ASSUME MigrateInv, FilesWritten PROVE MigrateInv'
<1>1. /\ MigrateTypeOK /\ OwnedFollows /\ DiskFollows' /\ ManifestFollows
      /\ pc = "files" /\ pc' = "proof" /\ turn' = 1 /\ report' = report
      /\ UNCHANGED <<disk, old, manifest, runs, memory>>
  BY DiskKeeps DEF MigrateInv, FilesWritten, DiskStays, Goto
<1>2. OwnedFollows'
  BY <1>1, OwnedStays DEF Changing, Assembling
<1>3. GoesOn /\ ManifestFollows' /\ ProvedFollows'
  BY <1>1, MemoryStays DEF GoesOn, Assembling, ManifestFollows, ProvedFollows
<1> QED
  BY <1>1, <1>2, <1>3, TypeIs, ThenInv

\* One new build adds its artifacts, or ends the run.
LEMMA RunProofInv == ASSUME MigrateInv, RunProof PROVE MigrateInv'
<1>1. /\ MigrateTypeOK /\ DiskFollows /\ BlockersFollow
      /\ pc = "proof" /\ turn \in 1..Len(kept) /\ UNCHANGED <<old, manifest, runs, memory>>
  <2>1. pc = "proof" /\ turn <= Len(kept) /\ UNCHANGED <<old, manifest, runs, memory>>
    BY DEF RunProof
  <2>2. MigrateTypeOK /\ DiskFollows /\ BlockersFollow
    BY DEF MigrateInv
  <2>3. turn \in Nat /\ turn # 0 /\ Len(kept) \in Nat
    BY <2>2, TypeIs, ListSizes
  <2>4. turn \in 1..Len(kept)
    <3>1. turn <= Len(kept)
      BY <2>1
    <3> QED
      BY <2>3, <3>1
  <2> QED
    BY <2>1, <2>2, <2>4
<1>2. blockers = 0 /\ ~Unprovable(kept[turn].answer.proof)
  BY <1>1 DEF BlockersFollow, Assembling
<1> DEFINE outputs == {kept[turn].answer.proof.compare[n].new : n \in 1..Len(kept[turn].answer.proof.compare)}
<1>3. CASE \E made \in [outputs -> NewOutputs] :
             disk' = [p \in DOMAIN disk \cup outputs |-> IF p \in outputs THEN made[p] ELSE disk[p]]
             /\ Next1
  <2>1. outputs \in SUBSET Places /\ IsFiniteSet(outputs)
    BY <1>1, <1>2, OutputsAreFew
  <2> HIDE DEF outputs
  <2>2. DiskFollows'
    BY <1>1, <1>3, <2>1, BuildFollows
  <2> QED
    BY <1>1, <1>3, <2>2, StaysInv DEF Next1
<1>4. CASE End("unproved") /\ UNCHANGED disk
  BY <1>1, <1>4, TypeIs, DiskKeeps, EndedInv DEF End
<1> QED
  BY <1>3, <1>4 DEF RunProof

\* Files are moved only after a comparison without a difference.
LEMMA CompareArtifactsInv == ASSUME MigrateInv, CompareArtifacts PROVE MigrateInv'
<1>1. /\ MigrateTypeOK /\ OwnedFollows /\ DiskFollows' /\ ManifestFollows
      /\ pc = "proof" /\ UNCHANGED <<disk, old, manifest, runs, memory>>
  BY DiskKeeps DEF MigrateInv, CompareArtifacts, DiskStays
<1>2. CASE SameAll /\ Goto("move")
  <2>1. pc' = "move" /\ turn' = 1 /\ report' = report
    BY <1>2 DEF Goto
  <2>2. OwnedFollows'
    BY <1>1, <2>1, OwnedStays DEF Changing, Assembling
  <2>3. GoesOn /\ ManifestFollows'
    BY <1>1, <2>1, MemoryStays DEF GoesOn, Assembling, ManifestFollows
  <2>4. ProvedFollows'
    BY <1>1, <1>2, MemoryStays DEF ProvedFollows, SameAll, Content
  <2> QED
    BY <1>1, <2>1, <2>2, <2>3, <2>4, TypeIs, ThenInv
<1>3. CASE pc' = "idle" /\ turn' = 1 /\ report' = [outcome |-> "unproved", said |-> Said]
  BY <1>1, <1>3, TypeIs, EndedInv
<1>4. CASE End("error")
  BY <1>1, <1>4, TypeIs, EndedInv DEF End
<1> QED
  BY <1>2, <1>3, <1>4 DEF CompareArtifacts

\* What is moved was not there, and nothing else that is owned meets it.
LEMMA MoveOneInv == ASSUME MigrateInv, MoveOne PROVE MigrateInv'
<1>1. /\ MigrateTypeOK /\ DiskFollows /\ OwnedFollows /\ ManifestFollows
      /\ pc = "move" /\ turn \in 1..Len(AllOwned) /\ UNCHANGED <<manifest, runs, memory>>
  <2>1. pc = "move" /\ turn <= Len(AllOwned) /\ UNCHANGED <<manifest, runs, memory>>
    BY DEF MoveOne
  <2>2. turn \in 1..Len(AllOwned)
    BY <2>1, TypeIs, OwnedIsList, ListFacts DEF MigrateInv
  <2> QED
    BY <2>1, <2>2 DEF MigrateInv
<1>2. CASE End("error") /\ UNCHANGED <<disk, old>>
  BY <1>1, <1>2, TypeIs, EndedInv, DiskKeeps DEF End
<1>3. CASE /\ CanRename(AllOwned[turn])
           /\ old' = Moved(AllOwned[turn])
           /\ disk' = Keep(disk, DOMAIN disk \ Below(disk, AllOwned[turn]))
           /\ Next1
  <2> DEFINE path == AllOwned[turn]
             gone == Below(disk, path)
  <2>1. pc' = "move" /\ turn' = turn + 1 /\ report' = report
    BY <1>1, <1>3 DEF Next1
  <2>2. /\ DOMAIN old' = DOMAIN old \cup gone /\ DOMAIN disk' = DOMAIN disk \ gone
        /\ gone # {}
    BY <1>3 DEF Moved, Keep, CanRename, Exists
  <2>3. DiskFollows'
    BY <1>1, <2>2, FS_Subset DEF DiskFollows
  <2>4. IsList(AllOwned) /\ AllOwned' = AllOwned /\ \A k \in 1..Len(AllOwned) : AllOwned[k] \in Seq(STRING)
    BY <1>1, OwnedIsList, MemoryStays
  <2>5. /\ \A m, n \in 1..Len(AllOwned) : m < n => ~Nested(AllOwned[m], AllOwned[n])
        /\ \A n \in 1..Len(AllOwned) :
             IF n < turn THEN ~Exists(disk, AllOwned[n]) /\ Exists(old, AllOwned[n])
             ELSE ~Exists(old, AllOwned[n])
    BY <1>1 DEF OwnedFollows, Changing, Assembling
  <2>6. ASSUME NEW n \in 1..Len(AllOwned)
        PROVE  IF n < turn + 1 THEN ~Exists(disk', AllOwned[n]) /\ Exists(old', AllOwned[n])
               ELSE ~Exists(old', AllOwned[n])
    <3>1. CASE n < turn
      <4>1. ~Exists(disk, AllOwned[n]) /\ Exists(old, AllOwned[n])
        BY <2>5, <3>1
      <4>2. ~Exists(disk', AllOwned[n]) /\ Exists(old', AllOwned[n])
        BY <2>2, <4>1 DEF Exists, Below
      <4> QED
        BY <1>1, <3>1, <4>2
    <3>2. CASE n = turn
      <4>1. ~Exists(disk', AllOwned[n])
        BY <2>2, <3>2 DEF Exists, Below
      <4>2. Exists(old', AllOwned[n])
        BY <2>2, <3>2 DEF Exists, Below
      <4> QED
        BY <1>1, <3>2, <4>1, <4>2
    <3>3. CASE turn < n
      <4>1. ~Exists(old, AllOwned[n]) /\ ~Nested(path, AllOwned[n])
        BY <1>1, <2>5, <3>3
      <4>2. ASSUME NEW p \in gone, p = AllOwned[n] \/ Above(AllOwned[n], p) PROVE FALSE
        <5>1. p \in Seq(STRING)
          BY <1>1, PlacesArePaths DEF DiskFollows, Below
        <5>2. p = path \/ Above(path, p)
          BY DEF Below
        <5>3. path \in Seq(STRING) /\ AllOwned[n] \in Seq(STRING)
          BY <1>1, <2>4
        <5> HIDE DEF path, gone
        <5> QED
          BY <4>1, <4>2, <5>1, <5>2, <5>3, MeetIsNested
      <4>3. ~Exists(old', AllOwned[n])
        BY <2>2, <4>1, <4>2 DEF Exists, Below
      <4> QED
        BY <1>1, <3>3, <4>3
    <3> QED
      BY <1>1, <3>1, <3>2, <3>3
  <2>7. OwnedFollows'
    <3>1. \A n \in 1..Len(AllOwned') :
            IF pc' = "move" /\ n < turn' THEN ~Exists(disk', AllOwned'[n]) /\ Exists(old', AllOwned'[n])
            ELSE ~Exists(old', AllOwned'[n])
      BY <2>1, <2>4, <2>6
    <3>2. \A m, n \in 1..Len(AllOwned') : m < n => ~Nested(AllOwned'[m], AllOwned'[n])
      BY <2>4, <2>5
    <3> QED
      BY <3>1, <3>2 DEF OwnedFollows
  <2>8. GoesOn /\ ManifestFollows' /\ ProvedFollows'
    BY <1>1, <2>1, MemoryStays DEF GoesOn, Assembling, ManifestFollows, ProvedFollows
  <2>9. turn' \in Nat \ {0} /\ report'.outcome \in Outcomes /\ runs' = runs
    BY <1>1, <2>1, TypeIs
  <2> QED
    BY <2>3, <2>7, <2>8, <2>9, ThenInv
<1> QED
  BY <1>2, <1>3 DEF MoveOne

\* The run ends when everything was moved.
LEMMA FinishInv == ASSUME MigrateInv, Finish PROVE MigrateInv'
<1>1. MigrateTypeOK /\ DiskFollows'
  BY DiskKeeps DEF MigrateInv, Finish, DiskStays
<1> QED
  BY <1>1, TypeIs, EndedInv DEF Finish, End

\* A run that dies leaves at most the file it was writing.
LEMMA CrashInv == ASSUME MigrateInv, Crash PROVE MigrateInv'
<1>1. MigrateTypeOK /\ ForeignFollows /\ DiskFollows
  BY DEF MigrateInv
<1>2. DiskFollows'
  <2>1. CASE disk' = disk
    BY <1>1, <2>1, DiskKeeps
  <2>2. CASE /\ pc = "files" /\ turn <= Len(AllFiles)
             /\ disk' = Put(disk, AllFiles[turn].path, Malformed)
    <3>1. turn \in 1..Len(AllFiles)
      BY <1>1, <2>2, TypeIs, FilesAreList, ListFacts
    <3>2. AllFiles[turn].path \in Places
      BY <1>1, <3>1, FilesAreList
    <3> QED
      BY <1>1, <2>2, <3>2, PutFollows
  <2> QED
    BY <2>1, <2>2 DEF Crash, DiskStays
<1> QED
  BY <1>1, <1>2, TypeIs, EndedInv DEF Crash

\* What the user does between two runs.
LEMMA BetweenRunsInv ==
  ASSUME MigrateInv, Done \/ Clean \/ UserDeletesManifest \/ \E path \in Originals : UserPutsBack(path)
  PROVE  MigrateInv'
<1>1. MigrateTypeOK /\ DiskFollows
  BY DEF MigrateInv
<1>2. pc' = "idle" /\ UNCHANGED <<report, runs, memory, turn>>
  BY DEF Done, Clean, UserDeletesManifest, UserPutsBack
<1>3. DiskFollows'
  <2>1. CASE disk' = disk
    BY <1>1, <2>1, DiskKeeps
  <2>2. CASE \E path \in Originals : UserPutsBack(path)
    <3>1. PICK path \in Originals : disk' = Put(disk, path, "put back")
      BY <2>2 DEF UserPutsBack
    <3>2. path \in Places
      BY PlacesArePaths
    <3> QED
      BY <1>1, <3>1, <3>2, PutFollows
  <2> QED
    BY <2>1, <2>2 DEF Done, Clean, UserDeletesManifest
<1> QED
  BY <1>1, <1>2, <1>3, TypeIs, EndedInv

\* A step that changes nothing.
LEMMA StutterInv == ASSUME MigrateInv, UNCHANGED migrateVars PROVE MigrateInv'
<1>1. /\ UNCHANGED <<disk, old, manifest, report, pc, runs, turn>> /\ UNCHANGED memory
  BY DEF migrateVars
<1>2. /\ UNCHANGED <<plugins, detections, considered, kept, foreign, blockers, merged>>
      /\ AllOwned' = AllOwned /\ Comparisons' = Comparisons
      /\ Fragments' = Fragments /\ Instances' = Instances
  BY <1>1, MemoryStays
<1>3. MigrateTypeOK' /\ ForeignFollows'
  BY <1>1, <1>2 DEF MigrateInv, MigrateTypeOK, ForeignFollows
<1>4. BlockersFollow' /\ DiskFollows' /\ ManifestFollows'
  BY <1>1, <1>2 DEF MigrateInv, BlockersFollow, DiskFollows, ManifestFollows, Pinned
<1>5. OwnedFollows'
  BY <1>1, <1>2 DEF MigrateInv, OwnedFollows
<1>6. ProvedFollows'
  BY <1>1, <1>2 DEF MigrateInv, ProvedFollows, SameAll, Content
<1>7. ManifestAgrees'
  BY <1>1, <1>2 DEF MigrateInv, ManifestAgrees, At
<1> QED
  BY <1>3, <1>4, <1>5, <1>6, <1>7 DEF MigrateInv

-----------------------------------------------------------------------------
(* Up to the manifest.                                                     *)

\* While the manifest is not assembled, what is said of later stages holds.
LEMMA EarlyInv ==
  ASSUME MigrateTypeOK', ForeignFollows', BlockersFollow', DiskFollows',
         pc' \in {"idle", "migrators", "translators"}
  PROVE  MigrateInv'
BY DEF MigrateInv, OwnedFollows, ManifestFollows, ProvedFollows, ManifestAgrees, Changing, Assembling

\* No blocker of an answer means that it can be proved.
LEMMA BlockersAreCounted ==
  ASSUME NEW answer, IsTranslation(answer), answer.blockers # Malformed
  PROVE  /\ BlockersIn(answer) \in Nat
         /\ BlockersOf(answer) \in Nat
         /\ BlockersOf(answer) = 0 => ~Unprovable(answer.proof)
<1>1. BlockersIn(answer) \in Nat
  BY ListFacts DEF IsTranslation, IsListOrNone, BlockersIn
<1> QED
  BY <1>1 DEF BlockersOf

\* One migrator is asked: its answer is kept whole or the run ends.
LEMMA AskMigratorInv == ASSUME MigrateInv, AskMigrator PROVE MigrateInv'
<1>1. /\ MigrateTypeOK /\ ForeignFollows /\ BlockersFollow /\ DiskFollows
      /\ pc = "migrators" /\ foreign = <<>>
  BY DEF MigrateInv, AskMigrator, ForeignFollows
<1>2. UNCHANGED <<disk, old, manifest, runs, plugins, considered, foreign, merged>>
  BY DEF AskMigrator, DiskStays
<1>3. DiskFollows' /\ foreign' = <<>> /\ Len(<<>>) = 0
  BY <1>1, <1>2, DiskKeeps, EmptyIsList
<1>4. ForeignFollows'
  BY <1>3 DEF ForeignFollows
<1>5. MigrateTypeOK' /\ BlockersFollow' /\ pc' \in {"idle", "migrators"}
  <2>1. blockers \in Nat /\ Len(kept) \in Nat /\ turn \in Nat \ {0} /\ IsList(kept)
    BY <1>1, ListSizes DEF MigrateTypeOK
  <2> DEFINE d == detections[turn]
             id == plugins[d.plugin].id
  <2>2. CASE kept' = kept /\ blockers' \in {blockers, blockers + 1} /\ (Next1 \/ End("error"))
    <3>1. /\ pc' \in {"idle", "migrators"} /\ turn' \in Nat \ {0} /\ report'.outcome \in Outcomes
          /\ pc' = "migrators" => turn' # 1
      BY <1>1, <2>1, <2>2, TypeIs DEF Next1, End
    <3>2. blockers' \in Nat /\ (blockers' = 0 => blockers = 0)
      BY <2>1, <2>2
    <3>3. MigrateTypeOK'
      BY <1>1, <1>2, <2>2, <3>1, <3>2 DEF MigrateTypeOK, Stages
    <3>4. BlockersFollow'
      BY <1>1, <1>2, <2>2, <3>1, <3>2 DEF BlockersFollow, Assembling, Pinned
    <3> QED
      BY <3>1, <3>3, <3>4
  <2>3. ASSUME NEW answer, answer \in AnswersOf(id, d.dir), Runnable(id, d.dir), KeepAnswer(d, answer), Next1,
               answer # Malformed, IsWell(answer)
        PROVE  MigrateTypeOK' /\ BlockersFollow' /\ pc' \in {"idle", "migrators"}
    <3>1. answer \in Given
      <4> DEFINE k == <<id, d.dir>>
      <4>1. k \in DOMAIN Answers /\ answer \in Answers[k]
        <5> HIDE DEF d, id
        <5> QED
          BY <2>3 DEF AnswersOf
      <4> HIDE DEF k
      <4> QED
        BY <2>3, <4>1 DEF Given
    <3>2. IsTranslation(answer) /\ answer.blockers # Malformed
      BY <2>3, <3>1, MigrateAssumption DEF IsAnswer, IsWell
    <3> DEFINE new == [label |-> plugins[d.plugin].id, tool |-> Migrator[plugins[d.plugin].id].tool,
                       toolchain |-> Migrator[plugins[d.plugin].id].toolchain,
                       instance |-> NameOf(Migrator[plugins[d.plugin].id].toolchain, d.dir),
                       dir |-> d.dir, answer |-> answer]
    <3>3. kept' = Append(kept, new) /\ blockers' = blockers + BlockersOf(answer)
      BY <2>3 DEF KeepAnswer
    <3>4. new.answer = answer /\ new.instance \notin Instances
      BY <2>3 DEF Runnable
    <3> HIDE DEF new, d, id
    <3>5. /\ IsList(kept') /\ Len(kept') = Len(kept) + 1
          /\ \A n \in 1..Len(kept) : kept'[n] = kept[n]
          /\ kept'[Len(kept) + 1] = new
      BY <2>1, <3>3, AppendIsList
    <3>6. \A n \in 1..Len(kept') : n \in 1..Len(kept) \/ n = Len(kept) + 1
      BY <2>1, <3>5
    <3>7. BlockersOf(answer) \in Nat /\ (BlockersOf(answer) = 0 => ~Unprovable(answer.proof))
      BY <3>2, BlockersAreCounted
    <3>8. blockers' \in Nat /\ (blockers' = 0 => blockers = 0 /\ ~Unprovable(answer.proof))
      BY <2>1, <3>3, <3>7
    <3>9. pc' = "migrators" /\ turn' \in Nat \ {0} /\ turn' # 1 /\ report' = report
      BY <1>1, <2>1, <2>3 DEF Next1
    <3>10. \A n \in 1..Len(kept') : kept'[n].answer \in Given /\ IsWell(kept'[n].answer)
      BY <1>1, <2>3, <3>1, <3>4, <3>5, <3>6 DEF MigrateTypeOK
    <3>11. \A m, n \in 1..Len(kept') : kept'[m].instance = kept'[n].instance => m = n
      <4>1. \A n \in 1..Len(kept) : kept'[n].instance \in Instances
        BY <3>5 DEF Instances
      <4>2. \A m, n \in 1..Len(kept) : kept'[m].instance = kept'[n].instance => m = n
        BY <1>1, <3>5 DEF MigrateTypeOK
      <4>3. kept'[Len(kept) + 1].instance \notin Instances
        BY <3>4, <3>5
      <4> QED
        BY <3>6, <4>1, <4>2, <4>3
    <3>12. MigrateTypeOK'
      BY <1>1, <1>2, <3>5, <3>8, <3>9, <3>10, <3>11 DEF MigrateTypeOK, Stages
    <3>13. BlockersFollow'
      <4>1. ASSUME blockers' = 0 PROVE \A n \in 1..Len(kept') : ~Unprovable(kept'[n].answer.proof)
        BY <1>1, <3>4, <3>5, <3>6, <3>8, <4>1 DEF BlockersFollow
      <4> QED
        BY <1>1, <1>2, <3>8, <3>9, <4>1 DEF BlockersFollow, Assembling, Pinned
    <3> QED
      BY <3>9, <3>12, <3>13
  <2> QED
    BY <2>2, <2>3 DEF AskMigrator
<1> QED
  BY <1>3, <1>4, <1>5, EarlyInv

\* One translator is asked.
LEMMA TranslateInv == ASSUME MigrateInv, Translate PROVE MigrateInv'
<1>1. /\ MigrateTypeOK /\ ForeignFollows /\ BlockersFollow /\ DiskFollows
      /\ pc = "translators" /\ turn \in Nat \ {0} /\ turn <= Len(foreign)
  BY TypeIs DEF MigrateInv, Translate
<1>2. UNCHANGED <<disk, old, manifest, runs, plugins, detections, considered, kept, merged>>
  BY DEF Translate, DiskStays
<1>3. /\ DiskFollows' /\ IsList(foreign) /\ blockers \in Nat /\ turn \in 1..Len(foreign)
      /\ Instances' = Instances
  <2>1. Len(foreign) \in Nat
    BY <1>1, ListSizes
  <2>2. turn \in 1..Len(foreign)
    BY <1>1, <2>1
  <2> QED
    BY <1>1, <1>2, <2>2, DiskKeeps DEF MigrateTypeOK, Instances
<1>4. ASSUME pc' \in {"idle", "translators"}, turn' \in Nat \ {0}, report'.outcome \in Outcomes,
             IsList(foreign'), ForeignFollows',
             blockers' \in Nat, blockers' = 0 => blockers = 0
      PROVE  MigrateInv'
  <2>1. MigrateTypeOK'
    BY <1>1, <1>2, <1>4 DEF MigrateTypeOK, Stages
  <2>2. BlockersFollow'
    BY <1>1, <1>2, <1>4 DEF BlockersFollow, Assembling, Pinned
  <2> QED
    BY <1>3, <1>4, <2>1, <2>2, EarlyInv
<1>5. CASE foreign' = foreign /\ blockers' \in {blockers, blockers + 1} /\ (Next1 \/ End("error"))
  <2>1. pc' \in {"idle", "translators"} /\ turn' \in Nat \ {0} /\ report'.outcome \in Outcomes
    BY <1>1, <1>5, TypeIs DEF Next1, End
  <2>2. blockers' \in Nat /\ (blockers' = 0 => blockers = 0)
    BY <1>3, <1>5
  <2>3. ForeignFollows'
    BY <1>1, <1>3, <1>5, <2>1 DEF ForeignFollows
  <2> QED
    BY <1>3, <1>4, <1>5, <2>1, <2>2, <2>3
<1>6. ASSUME NEW answer \in TranslationsOf(foreign[turn].id), answer # Malformed,
             IsWellTranslated(answer), ~RenamesDetected(answer, Instances), Next1,
             foreign' = [foreign EXCEPT ![turn].translation = answer],
             blockers' = blockers + BlockersIn(answer)
      PROVE  MigrateInv'
  <2>1. answer \in GivenTranslations
    BY <1>6 DEF TranslationsOf, GivenTranslations
  <2>2. BlockersIn(answer) \in Nat
    BY <1>6, <2>1, MigrateAssumption, BlockersAreCounted DEF IsWellTranslated
  <2>3. blockers' \in Nat /\ (blockers' = 0 => blockers = 0)
    BY <1>3, <1>6, <2>2
  <2>4. pc' = "translators" /\ turn' \in Nat \ {0} /\ report'.outcome \in Outcomes
    BY <1>1, <1>6, TypeIs DEF Next1
  <2>5. IsList(foreign') /\ Len(foreign') = Len(foreign)
        /\ \A n \in 1..Len(foreign) :
             /\ "translation" \in DOMAIN foreign'[n]
             /\ foreign'[n].translation \in {foreign[n].translation, answer}
    <3>1. Len(foreign) \in Nat /\ DOMAIN foreign = 1..Len(foreign)
      BY <1>3, ListFacts
    <3>2. foreign' = [n \in 1..Len(foreign) |-> foreign'[n]]
      BY <1>6, <3>1
    <3>3. \A n \in 1..Len(foreign) :
            foreign'[n] = IF n = turn THEN [foreign[n] EXCEPT !.translation = answer] ELSE foreign[n]
      BY <1>6, <3>1
    <3>4. \A n \in 1..Len(foreign) :
             /\ "translation" \in DOMAIN foreign'[n]
             /\ foreign'[n].translation \in {foreign[n].translation, answer}
      <4> TAKE n \in 1..Len(foreign)
      <4>1. "translation" \in DOMAIN foreign[n]
        BY <1>1 DEF ForeignFollows
      <4> QED
        BY <3>3, <4>1
    <3> QED
      BY <3>1, <3>2, <3>4, MadeIsList
  <2>6. ForeignFollows'
    <3>1. \A n \in 1..Len(foreign') : foreign'[n].translation # Missing =>
            /\ foreign'[n].translation \in GivenTranslations
            /\ IsWellTranslated(foreign'[n].translation)
            /\ ~RenamesDetected(foreign'[n].translation, Instances')
      BY <1>1, <1>3, <1>6, <2>1, <2>5 DEF ForeignFollows
    <3>2. \A n \in 1..Len(foreign') : "translation" \in DOMAIN foreign'[n]
      BY <2>5
    <3> QED
      BY <2>4, <3>1, <3>2 DEF ForeignFollows
  <2> QED
    BY <1>4, <2>3, <2>4, <2>5, <2>6
<1> QED
  BY <1>5, <1>6 DEF Translate

\* When nothing is refused, what is owned does not nest and was not moved before.
LEMMA CheckOwnedInv == ASSUME MigrateInv, CheckOwned PROVE MigrateInv'
<1>1. /\ MigrateTypeOK /\ ForeignFollows /\ BlockersFollow /\ DiskFollows /\ ManifestAgrees
      /\ pc = "old build"
      /\ UNCHANGED <<disk, old, manifest, runs, plugins, detections, considered, kept, foreign, merged>>
      /\ blockers' \in {1, Cardinality({n \in 1..Len(AllOwned) : Refused(n)})}
  BY DEF MigrateInv, CheckOwned, DiskStays
<1>2. Len(AllOwned) \in Nat
  BY <1>1, OwnedIsList, ListFacts
<1>3. /\ blockers' \in Nat
      /\ blockers' = 0 => \A n \in 1..Len(AllOwned) : ~Refused(n)
  <2> DEFINE refused == {n \in 1..Len(AllOwned) : Refused(n)}
  <2>1. refused \in SUBSET (1..Len(AllOwned))
    OBVIOUS
  <2> HIDE DEF refused
  <2>2. Cardinality(refused) \in Nat /\ (Cardinality(refused) = 0 => refused = {})
    BY <1>2, <2>1, SomeOfList
  <2>3. blockers' \in {1, Cardinality(refused)}
    BY <1>1 DEF refused
  <2>4. blockers' = 0 => refused = {}
    BY <2>2, <2>3
  <2> QED
    BY <2>2, <2>3, <2>4 DEF refused
<1>4. /\ pc' \in {"idle", "manifest"} /\ turn' = 1 /\ report'.outcome \in Outcomes
      /\ pc' = "manifest" => blockers' = 0
  <2>1. IF blockers' > 0 THEN End("blocked") ELSE Goto("manifest")
    BY DEF CheckOwned
  <2>2. CASE blockers' > 0
    BY <1>1, <2>1, <2>2, TypeIs DEF End
  <2>3. CASE ~(blockers' > 0)
    <3>1. pc' = "manifest" /\ turn' = 1 /\ report' = report
      BY <2>1, <2>3 DEF Goto
    <3>2. blockers' = 0
      BY <1>3, <2>3
    <3>3. report.outcome \in Outcomes
      BY <1>1, TypeIs
    <3> QED
      BY <3>1, <3>2, <3>3
  <2> QED
    BY <2>2, <2>3
<1>5. AllOwned' = AllOwned /\ Fragments' = Fragments /\ Instances' = Instances
  BY <1>1 DEF AllOwned, Owned, Fragments, FragmentOf, Instances
<1>6. MigrateTypeOK' /\ ForeignFollows' /\ DiskFollows'
  <2>1. MigrateTypeOK'
    <3>1. pc' \in Stages /\ turn' \in Nat \ {0} /\ blockers' \in Nat
      <4>1. blockers' \in Nat
        BY <1>3
      <4>2. pc' \in Stages
        BY <1>4 DEF Stages
      <4>3. turn' \in Nat \ {0}
        BY <1>4
      <4> QED
        BY <4>1, <4>2, <4>3
    <3>2. UNCHANGED <<runs, plugins, considered, kept, foreign>>
      BY <1>1
    <3>3. report'.outcome \in Outcomes
      BY <1>4
    <3> QED
      BY <1>1, <3>1, <3>2, <3>3 DEF MigrateTypeOK
  <2>2. ForeignFollows'
    BY <1>1, <1>4, <1>5 DEF ForeignFollows
  <2> QED
    BY <1>1, <2>1, <2>2, DiskKeeps
<1>7. BlockersFollow'
  <2>1. blockers = 0
    BY <1>1 DEF BlockersFollow, Assembling
  <2>2. pc' \in Assembling => blockers' = 0
    BY <1>4 DEF Assembling
  <2> QED
    BY <1>1, <2>1, <2>2 DEF BlockersFollow, Pinned
<1>8. OwnedFollows'
  <2>1. CASE pc' = "manifest"
    <3>1. \A n \in 1..Len(AllOwned) : ~Exists(old, AllOwned[n])
      BY <1>3, <1>4, <2>1 DEF Refused
    <3>2. ASSUME NEW m \in 1..Len(AllOwned), NEW n \in 1..Len(AllOwned), m < n
          PROVE  ~Nested(AllOwned[m], AllOwned[n])
      <4>1. m \in 1..n - 1
        BY <3>2
      <4> QED
        BY <1>3, <1>4, <2>1, <4>1 DEF Refused
    <3> QED
      BY <1>1, <1>5, <2>1, <3>1, <3>2 DEF OwnedFollows
  <2>2. CASE pc' = "idle"
    BY <2>2 DEF OwnedFollows, Changing, Assembling
  <2> QED
    BY <1>4, <2>1, <2>2
<1>9. ManifestFollows' /\ ProvedFollows'
  BY <1>4 DEF ManifestFollows, ProvedFollows
<1>10. ManifestAgrees'
  BY <1>1, <1>5 DEF ManifestAgrees, At
<1> QED
  BY <1>6, <1>7, <1>8, <1>9, <1>10 DEF MigrateInv

-----------------------------------------------------------------------------
(* What is considered.                                                     *)

\* Plugins of the catalogs, each under an id of its own.
IsConsidered(from, list) ==
  /\ IsList(list)
  /\ \A n \in 1..Len(list) : list[n] \in 1..Len(from)
  /\ \A m, n \in 1..Len(list) : from[list[m]].id = from[list[n]].id => m = n
\* A list that another goes on from.
Begins(list, more) == Len(list) <= Len(more) /\ \A n \in 1..Len(list) : more[n] = list[n]

\* A plugin more keeps the ids distinct.
LEMMA ConsiderKeeps ==
  ASSUME NEW from, NEW list, IsConsidered(from, list), NEW i \in 1..Len(from)
  PROVE  IsConsidered(from, Consider(from, list, i)) /\ Begins(list, Consider(from, list, i))
<1> DEFINE more == Consider(from, list, i)
<1>1. IsList(list) /\ Len(list) \in Nat
  BY ListFacts DEF IsConsidered
<1>2. CASE \E n \in 1..Len(list) : from[list[n]].id = from[i].id
  BY <1>1, <1>2 DEF Consider, Begins
<1>3. CASE \A n \in 1..Len(list) : from[list[n]].id # from[i].id
  <2>1. more = Append(list, i)
    BY <1>3 DEF Consider
  <2> HIDE DEF more
  <2>2. /\ IsList(more) /\ Len(more) = Len(list) + 1
        /\ \A n \in 1..Len(list) : more[n] = list[n]
        /\ more[Len(list) + 1] = i
    BY <1>1, <2>1, AppendIsList
  <2>3. \A n \in 1..Len(more) : n \in 1..Len(list) \/ n = Len(list) + 1
    BY <1>1, <2>2
  <2>4. \A n \in 1..Len(more) : more[n] \in 1..Len(from)
    BY <2>2, <2>3 DEF IsConsidered
  <2>5. \A m, n \in 1..Len(more) : from[more[m]].id = from[more[n]].id => m = n
    BY <1>3, <2>2, <2>3 DEF IsConsidered
  <2>6. IsConsidered(from, more) /\ Begins(list, more)
    BY <1>1, <2>2, <2>4, <2>5 DEF IsConsidered, Begins
  <2> QED
    BY <2>6 DEF more
<1> QED
  BY <1>2, <1>3

\* The turns of FirstConsidered.
LEMMA FirstRuns ==
  ASSUME NEW from, NEW found, Len(found) \in Nat
  PROVE  \E so : /\ so[0] = <<>>
                 /\ \A n \in 1..Len(found) : so[n] = Consider(from, so[n - 1], found[n].plugin)
                 /\ FirstConsidered(from, found) = so[Len(found)]
<1> DEFINE next(f, n) == IF n = 0 THEN <<>> ELSE Consider(from, f[n - 1], found[n].plugin)
           Has(k) == \E f : f = [n \in 0..k |-> next(f, n)]
           S == {k \in 0..Len(found) : Has(k)}
<1>1. Len(found) \in Nat
  OBVIOUS
<1>2. 0 \in S
  <2> DEFINE f == [n \in 0..0 |-> <<>>]
  <2>1. f = [n \in 0..0 |-> next(f, n)]
    OBVIOUS
  <2>2. Has(0)
    BY <2>1
  <2>3. 0 \in 0..Len(found)
    BY <1>1
  <2> HIDE DEF Has
  <2> QED
    BY <2>2, <2>3
<1>3. ASSUME NEW k \in 1..Len(found), k - 1 \in S PROVE k \in S
  <2>1. PICK g : g = [n \in 0..k - 1 |-> next(g, n)]
    BY <1>3
  <2> DEFINE f == [n \in 0..k |-> next(g, n)]
  <2>2. k \in Nat /\ k \in 0..Len(found) /\ k - 1 \in Nat
    BY <1>1
  <2>3. \A n \in 0..k - 1 : n \in 0..k
    BY <2>2
  <2>4. \A n \in 0..k - 1 : g[n] = next(g, n)
    BY <2>1
  <2>5. \A n \in 0..k - 1 : f[n] = g[n]
    BY <2>3, <2>4
  <2>6. ASSUME NEW n \in 0..k PROVE next(f, n) = next(g, n)
    <3>1. CASE n = 0
      BY <3>1
    <3>2. CASE n # 0
      <4>1. n - 1 \in 0..k - 1
        BY <2>2, <3>2
      <4>2. f[n - 1] = g[n - 1]
        BY <2>5, <4>1
      <4> HIDE DEF f
      <4> QED
        BY <3>2, <4>2
    <3> QED
      BY <3>1, <3>2
  <2>7. f = [n \in 0..k |-> next(f, n)]
    BY <2>6
  <2>8. Has(k)
    BY <2>7
  <2> HIDE DEF Has
  <2> QED
    BY <2>2, <2>8
<1>4. Len(found) \in S
  <2> HIDE DEF S
  <2> QED
    BY <1>1, <1>2, <1>3, EveryTurn
<1> DEFINE so == CHOOSE f : f = [n \in 0..Len(found) |-> next(f, n)]
<1>5. so = [n \in 0..Len(found) |-> next(so, n)]
  BY <1>4
<1>6. FirstConsidered(from, found) = so[Len(found)]
  BY DEF FirstConsidered
<1> HIDE DEF so
<1>7. so[0] = <<>>
  BY <1>1, <1>5
<1>8. ASSUME NEW n \in 1..Len(found) PROVE so[n] = Consider(from, so[n - 1], found[n].plugin)
  <2>1. n \in 0..Len(found) /\ n # 0
    BY <1>1
  <2> QED
    BY <1>5, <2>1
<1> QED
  BY <1>6, <1>7, <1>8

\* What detection considers first.
LEMMA FirstIsConsidered ==
  ASSUME NEW from, NEW found, Len(found) \in Nat, \A n \in 1..Len(found) : found[n].plugin \in 1..Len(from)
  PROVE  IsConsidered(from, FirstConsidered(from, found))
<1>1. PICK so : /\ so[0] = <<>>
                /\ \A n \in 1..Len(found) : so[n] = Consider(from, so[n - 1], found[n].plugin)
                /\ FirstConsidered(from, found) = so[Len(found)]
  BY FirstRuns
<1> DEFINE S == {n \in 0..Len(found) : IsConsidered(from, so[n])}
<1>2. 0 \in S
  <2>1. IsConsidered(from, <<>>)
    BY EmptyIsList DEF IsConsidered
  <2> QED
    BY <1>1, <2>1
<1>3. ASSUME NEW n \in 1..Len(found), n - 1 \in S PROVE n \in S
  <2>1. found[n].plugin \in 1..Len(from) /\ n \in 0..Len(found)
    OBVIOUS
  <2>2. IsConsidered(from, so[n])
    BY <1>1, <1>3, <2>1, ConsiderKeeps
  <2> QED
    BY <2>1, <2>2
<1>4. Len(found) \in S
  <2> HIDE DEF S
  <2> QED
    BY <1>2, <1>3, EveryTurn
<1> QED
  BY <1>1, <1>4

\* The turns of Collected.
LEMMA CollectRuns ==
  ASSUME Len(Reported) \in Nat
  PROVE  \E so : /\ so[0] = [foreign |-> <<>>, considered |-> considered]
                 /\ \A n \in 1..Len(Reported) : so[n] = Claim(so[n - 1], Reported[n])
                 /\ Collected = so[Len(Reported)]
<1> DEFINE next(f, n) == IF n = 0 THEN [foreign |-> <<>>, considered |-> considered] ELSE Claim(f[n - 1], Reported[n])
           Has(k) == \E f : f = [n \in 0..k |-> next(f, n)]
           S == {k \in 0..Len(Reported) : Has(k)}
<1>1. Len(Reported) \in Nat
  OBVIOUS
<1>2. 0 \in S
  <2> DEFINE f == [n \in 0..0 |-> [foreign |-> <<>>, considered |-> considered]]
  <2>1. f = [n \in 0..0 |-> next(f, n)]
    OBVIOUS
  <2>2. Has(0)
    BY <2>1
  <2>3. 0 \in 0..Len(Reported)
    BY <1>1
  <2> HIDE DEF Has
  <2> QED
    BY <2>2, <2>3
<1>3. ASSUME NEW k \in 1..Len(Reported), k - 1 \in S PROVE k \in S
  <2>1. PICK g : g = [n \in 0..k - 1 |-> next(g, n)]
    BY <1>3
  <2> DEFINE f == [n \in 0..k |-> next(g, n)]
  <2>2. k \in Nat /\ k \in 0..Len(Reported) /\ k - 1 \in Nat
    BY <1>1
  <2>3. \A n \in 0..k - 1 : n \in 0..k
    BY <2>2
  <2>4. \A n \in 0..k - 1 : g[n] = next(g, n)
    BY <2>1
  <2>5. \A n \in 0..k - 1 : f[n] = g[n]
    BY <2>3, <2>4
  <2>6. ASSUME NEW n \in 0..k PROVE next(f, n) = next(g, n)
    <3>1. CASE n = 0
      BY <3>1
    <3>2. CASE n # 0
      <4>1. n - 1 \in 0..k - 1
        BY <2>2, <3>2
      <4>2. f[n - 1] = g[n - 1]
        BY <2>5, <4>1
      <4> HIDE DEF f
      <4> QED
        BY <3>2, <4>2
    <3> QED
      BY <3>1, <3>2
  <2>7. f = [n \in 0..k |-> next(f, n)]
    BY <2>6
  <2>8. Has(k)
    BY <2>7
  <2> HIDE DEF Has
  <2> QED
    BY <2>2, <2>8
<1>4. Len(Reported) \in S
  <2> HIDE DEF S
  <2> QED
    BY <1>1, <1>2, <1>3, EveryTurn
<1> DEFINE so == CHOOSE f : f = [n \in 0..Len(Reported) |-> next(f, n)]
<1>5. so = [n \in 0..Len(Reported) |-> next(so, n)]
  BY <1>4
<1>6. Collected = so[Len(Reported)]
  BY DEF Collected
<1> HIDE DEF so
<1>7. so[0] = [foreign |-> <<>>, considered |-> considered]
  BY <1>1, <1>5
<1>8. ASSUME NEW n \in 1..Len(Reported) PROVE so[n] = Claim(so[n - 1], Reported[n])
  <2>1. n \in 0..Len(Reported) /\ n # 0
    BY <1>1
  <2> QED
    BY <1>5, <2>1
<1> QED
  BY <1>6, <1>7, <1>8

\* What is collected has no translation yet.
Uncollected(list) ==
  /\ IsList(list)
  /\ \A n \in 1..Len(list) : "translation" \in DOMAIN list[n] /\ list[n].translation = Missing

\* One reported plugin keeps what is said of the two lists.
LEMMA ClaimKeeps ==
  ASSUME NEW so, NEW r, Uncollected(so.foreign), IsConsidered(plugins, so.considered)
  PROVE  /\ Uncollected(Claim(so, r).foreign)
         /\ IsConsidered(plugins, Claim(so, r).considered)
         /\ Begins(so.considered, Claim(so, r).considered)
<1>1. CASE Unclaimed(r)
  <2>1. Len(so.considered) \in Nat
    BY ListFacts DEF IsConsidered
  <2> QED
    BY <1>1, <2>1 DEF Claim, Begins
<1>2. CASE ~Unclaimed(r)
  <2>1. Replacer(r) \in 1..Len(plugins)
    <3>1. Claimants(kept[r.kept].tool, r.plugin) # {}
      BY <1>2, FS_EmptySet DEF Unclaimed
    <3> QED
      BY <3>1 DEF Replacer, Claimants
  <2> DEFINE new == [kept |-> r.kept, id |-> r.plugin.id, replacer |-> Replacer(r), translation |-> Missing]
  <2>2. Claim(so, r).foreign = Append(so.foreign, new)
        /\ Claim(so, r).considered = Consider(plugins, so.considered, Replacer(r))
    BY <1>2 DEF Claim
  <2>3. "translation" \in DOMAIN new /\ new.translation = Missing
    OBVIOUS
  <2>4. Uncollected(Append(so.foreign, new))
    <3>1. IsList(so.foreign) /\ Len(so.foreign) \in Nat
      BY ListFacts DEF Uncollected
    <3> HIDE DEF new
    <3> DEFINE more == Append(so.foreign, new)
    <3>2. /\ IsList(more) /\ Len(more) = Len(so.foreign) + 1
          /\ \A n \in 1..Len(so.foreign) : more[n] = so.foreign[n]
          /\ more[Len(so.foreign) + 1] = new
      BY <3>1, AppendIsList
    <3> HIDE DEF more
    <3>3. \A n \in 1..Len(more) : n \in 1..Len(so.foreign) \/ n = Len(so.foreign) + 1
      BY <3>1, <3>2
    <3>4. Uncollected(more)
      BY <2>3, <3>2, <3>3 DEF Uncollected
    <3> QED
      BY <3>4 DEF more
  <2>5. /\ IsConsidered(plugins, Consider(plugins, so.considered, Replacer(r)))
        /\ Begins(so.considered, Consider(plugins, so.considered, Replacer(r)))
    BY <2>1, ConsiderKeeps
  <2> QED
    BY <2>2, <2>4, <2>5
<1> QED
  BY <1>1, <1>2

\* What the reports of the migrators add.
LEMMA CollectedIs ==
  ASSUME MigrateTypeOK
  PROVE  /\ Uncollected(Collected.foreign)
         /\ IsConsidered(plugins, Collected.considered)
         /\ Begins(considered, Collected.considered)
<1>1. Len(Reported) \in Nat
  BY ReportedIsList, ListFacts
<1>2. PICK so : /\ so[0] = [foreign |-> <<>>, considered |-> considered]
                /\ \A n \in 1..Len(Reported) : so[n] = Claim(so[n - 1], Reported[n])
                /\ Collected = so[Len(Reported)]
  BY <1>1, CollectRuns
<1> DEFINE Well(value) == /\ Uncollected(value.foreign)
                          /\ IsConsidered(plugins, value.considered)
                          /\ Begins(considered, value.considered)
           S == {n \in 0..Len(Reported) : Well(so[n])}
<1>3. 0 \in S
  <2>1. Uncollected(<<>>)
    BY EmptyIsList DEF Uncollected
  <2>2. IsConsidered(plugins, considered) /\ Len(considered) \in Nat
    BY ListSizes DEF MigrateTypeOK, IsConsidered
  <2>3. Begins(considered, considered)
    BY <2>2 DEF Begins
  <2> QED
    BY <1>1, <1>2, <2>1, <2>2, <2>3
<1>4. ASSUME NEW n \in 1..Len(Reported), n - 1 \in S PROVE n \in S
  <2>1. Well(so[n - 1]) /\ n \in 0..Len(Reported)
    BY <1>1, <1>4
  <2> DEFINE was == so[n - 1]
             is == Claim(was, Reported[n])
  <2>2. so[n] = is
    BY <1>2
  <2> HIDE DEF was
  <2>3. Well(was)
    BY <2>1 DEF was
  <2>4. /\ Uncollected(is.foreign) /\ IsConsidered(plugins, is.considered)
        /\ Begins(was.considered, is.considered)
    BY <2>3, ClaimKeeps
  <2> HIDE DEF is
  <2>5. Begins(considered, is.considered)
    <3>1. Len(considered) \in Nat /\ Len(was.considered) \in Nat /\ Len(is.considered) \in Nat
      BY <2>3, <2>4, ListSizes, ListFacts DEF IsConsidered
    <3> QED
      BY <2>3, <2>4, <3>1 DEF Begins
  <2>6. Well(so[n])
    BY <2>2, <2>4, <2>5
  <2> HIDE DEF Well
  <2> QED
    BY <2>1, <2>6
<1>5. Len(Reported) \in S
  <2> HIDE DEF S
  <2> QED
    BY <1>1, <1>3, <1>4, EveryTurn
<1> QED
  BY <1>2, <1>5

\* Pairing the foreign plugins counts the ones nobody claims.
LEMMA CollectForeignInv == ASSUME MigrateInv, CollectForeign PROVE MigrateInv'
<1>1. /\ MigrateTypeOK /\ BlockersFollow /\ DiskFollows /\ pc = "migrators"
      /\ foreign' = Collected.foreign /\ considered' = Collected.considered
      /\ UNCHANGED <<disk, old, manifest, runs, plugins, detections, kept, merged>>
      /\ pc' = "translators" /\ turn' = 1 /\ report' = report
  BY DEF MigrateInv, CollectForeign, Goto, DiskStays
<1>2. /\ Uncollected(foreign') /\ IsConsidered(plugins, considered') /\ Begins(considered, considered')
  BY <1>1, CollectedIs
<1>3. Len(considered) \in Nat /\ Len(considered') \in Nat /\ blockers \in Nat /\ Len(Reported) \in Nat
  BY <1>1, <1>2, ListSizes, ListFacts, ReportedIsList DEF IsConsidered, MigrateTypeOK
<1> DEFINE lost == {n \in 1..Len(Reported) : Unclaimed(Reported[n])}
           new == {n \in (Len(considered) + 1)..Len(considered') : ~Pinned(considered'[n])}
<1>4. blockers' = blockers + Cardinality(lost) + Cardinality(new)
  BY DEF CollectForeign
<1>5. lost \in SUBSET (1..Len(Reported)) /\ new \in SUBSET (1..Len(considered'))
  BY <1>3
<1> HIDE DEF lost, new
<1>6. /\ Cardinality(lost) \in Nat /\ Cardinality(new) \in Nat
      /\ Cardinality(new) = 0 => new = {}
  BY <1>3, <1>5, SomeOfList
<1>7. blockers' \in Nat /\ (blockers' = 0 => blockers = 0 /\ new = {})
  BY <1>3, <1>4, <1>6
<1>8. MigrateTypeOK'
  <2>1. /\ IsList(foreign') /\ IsList(considered')
        /\ \A n \in 1..Len(considered') : considered'[n] \in 1..Len(plugins')
        /\ \A m, n \in 1..Len(considered') : plugins'[considered'[m]].id = plugins'[considered'[n]].id => m = n
    BY <1>1, <1>2 DEF Uncollected, IsConsidered
  <2>2. pc' \in Stages /\ report'.outcome \in Outcomes /\ turn' \in Nat \ {0}
    BY <1>1 DEF MigrateTypeOK, Stages
  <2> QED
    BY <1>1, <1>7, <2>1, <2>2 DEF MigrateTypeOK
<1>9. ForeignFollows'
  BY <1>1, <1>2 DEF ForeignFollows, Uncollected
<1>10. BlockersFollow'
  <2>1. ASSUME blockers' = 0, NEW n \in 1..Len(considered') PROVE plugins'[considered'[n]].asset # Missing
    <3>1. CASE n \in 1..Len(considered)
      BY <1>1, <1>2, <1>7, <2>1, <3>1 DEF BlockersFollow, Begins, Pinned
    <3>2. CASE n \notin 1..Len(considered)
      <4>1. n \in (Len(considered) + 1)..Len(considered')
        BY <1>3, <3>2
      <4> QED
        BY <1>1, <1>7, <2>1, <4>1 DEF new, Pinned
    <3> QED
      BY <3>1, <3>2
  <2> QED
    BY <1>1, <1>7, <2>1 DEF BlockersFollow, Assembling, Pinned
<1>11. DiskFollows'
  BY <1>1, DiskKeeps
<1> QED
  BY <1>1, <1>8, <1>9, <1>10, <1>11, EarlyInv

-----------------------------------------------------------------------------
(* The catalogs.                                                           *)

\* The turns of ParseDocument.
LEMMA ParseRuns ==
  ASSUME NEW found, NEW body, NEW document, Len(body) \in Nat
  PROVE  \E so : /\ so[0] = found
                 /\ \A n \in 1..Len(body) : so[n] = TakeEntry(so[n - 1], body[n], document)
                 /\ ParseDocument(found, body, document) = so[Len(body)]
<1> DEFINE next(f, n) == IF n = 0 THEN found ELSE TakeEntry(f[n - 1], body[n], document)
           Has(k) == \E f : f = [n \in 0..k |-> next(f, n)]
           S == {k \in 0..Len(body) : Has(k)}
<1>1. Len(body) \in Nat
  OBVIOUS
<1>2. 0 \in S
  <2> DEFINE f == [n \in 0..0 |-> found]
  <2>1. f = [n \in 0..0 |-> next(f, n)]
    OBVIOUS
  <2>2. Has(0)
    BY <2>1
  <2>3. 0 \in 0..Len(body)
    BY <1>1
  <2> HIDE DEF Has
  <2> QED
    BY <2>2, <2>3
<1>3. ASSUME NEW k \in 1..Len(body), k - 1 \in S PROVE k \in S
  <2>1. PICK g : g = [n \in 0..k - 1 |-> next(g, n)]
    BY <1>3
  <2> DEFINE f == [n \in 0..k |-> next(g, n)]
  <2>2. k \in Nat /\ k \in 0..Len(body) /\ k - 1 \in Nat
    BY <1>1
  <2>3. \A n \in 0..k - 1 : n \in 0..k
    BY <2>2
  <2>4. \A n \in 0..k - 1 : g[n] = next(g, n)
    BY <2>1
  <2>5. \A n \in 0..k - 1 : f[n] = g[n]
    BY <2>3, <2>4
  <2>6. ASSUME NEW n \in 0..k PROVE next(f, n) = next(g, n)
    <3>1. CASE n = 0
      BY <3>1
    <3>2. CASE n # 0
      <4>1. n - 1 \in 0..k - 1
        BY <2>2, <3>2
      <4>2. f[n - 1] = g[n - 1]
        BY <2>5, <4>1
      <4> HIDE DEF f
      <4> QED
        BY <3>2, <4>2
    <3> QED
      BY <3>1, <3>2
  <2>7. f = [n \in 0..k |-> next(f, n)]
    BY <2>6
  <2>8. Has(k)
    BY <2>7
  <2> HIDE DEF Has
  <2> QED
    BY <2>2, <2>8
<1>4. Len(body) \in S
  <2> HIDE DEF S
  <2> QED
    BY <1>1, <1>2, <1>3, EveryTurn
<1> DEFINE so == CHOOSE f : f = [n \in 0..Len(body) |-> next(f, n)]
<1>5. so = [n \in 0..Len(body) |-> next(so, n)]
  BY <1>4
<1>6. ParseDocument(found, body, document) = so[Len(body)]
  BY DEF ParseDocument
<1> HIDE DEF so
<1>7. so[0] = found
  BY <1>1, <1>5
<1>8. ASSUME NEW n \in 1..Len(body) PROVE so[n] = TakeEntry(so[n - 1], body[n], document)
  <2>1. n \in 0..Len(body) /\ n # 0
    BY <1>1
  <2> QED
    BY <1>5, <2>1
<1> QED
  BY <1>6, <1>7, <1>8

IsReading(found) == DOMAIN found = {"plugins", "warnings"} /\ IsList(found.plugins)

\* One entry of a catalog ...
LEMMA TakeKeeps ==
  ASSUME NEW found, IsReading(found), NEW entry, NEW document
  PROVE  IsReading(TakeEntry(found, entry, document))
<1>1. CASE ~Usable(entry) \/ Listed(found.plugins, entry.id)
  BY <1>1 DEF TakeEntry, IsReading
<1>2. CASE ~(~Usable(entry) \/ Listed(found.plugins, entry.id))
  <2>1. TakeEntry(found, entry, document)
          = [found EXCEPT !.plugins = Append(found.plugins, PluginOf(entry, document))]
    BY <1>2 DEF TakeEntry
  <2>2. IsList(Append(found.plugins, PluginOf(entry, document)))
    BY AppendIsList DEF IsReading
  <2> QED
    BY <2>1, <2>2 DEF IsReading
<1> QED
  BY <1>1, <1>2

\* ... and all of them leave a list.
LEMMA ParseKeeps ==
  ASSUME NEW found, IsReading(found), NEW body, IsList(body), NEW document
  PROVE  IsReading(ParseDocument(found, body, document))
<1>1. Len(body) \in Nat
  BY ListFacts
<1>2. PICK so : /\ so[0] = found
                /\ \A n \in 1..Len(body) : so[n] = TakeEntry(so[n - 1], body[n], document)
                /\ ParseDocument(found, body, document) = so[Len(body)]
  BY <1>1, ParseRuns
<1> DEFINE S == {n \in 0..Len(body) : IsReading(so[n])}
<1>3. 0 \in S
  BY <1>1, <1>2
<1>4. ASSUME NEW n \in 1..Len(body), n - 1 \in S PROVE n \in S
  <2>1. n \in 0..Len(body)
    BY <1>1
  <2>2. IsReading(so[n])
    BY <1>2, <1>4, TakeKeeps
  <2> QED
    BY <2>1, <2>2
<1>5. Len(body) \in S
  <2> HIDE DEF S
  <2> QED
    BY <1>1, <1>3, <1>4, EveryTurn
<1> QED
  BY <1>2, <1>5

\* The turns of Load.
LEMMA LoadRuns ==
  ASSUME NEW documents, Len(documents) \in Nat, \A i \in 1..Len(documents) : Readable(documents[i])
  PROVE  \E so : /\ so[0] = [plugins |-> <<>>, warnings |-> 0]
                 /\ \A n \in 1..Len(documents) : so[n] = ParseDocument(so[n - 1], documents[n].body, n)
                 /\ Load(documents) = [ok |-> TRUE, plugins |-> so[Len(documents)].plugins,
                                         warnings |-> so[Len(documents)].warnings]
<1> DEFINE next(f, n) == IF n = 0 THEN [plugins |-> <<>>, warnings |-> 0] ELSE ParseDocument(f[n - 1], documents[n].body, n)
           Has(k) == \E f : f = [n \in 0..k |-> next(f, n)]
           S == {k \in 0..Len(documents) : Has(k)}
<1>1. Len(documents) \in Nat
  OBVIOUS
<1>2. 0 \in S
  <2> DEFINE f == [n \in 0..0 |-> [plugins |-> <<>>, warnings |-> 0]]
  <2>1. f = [n \in 0..0 |-> next(f, n)]
    OBVIOUS
  <2>2. Has(0)
    BY <2>1
  <2>3. 0 \in 0..Len(documents)
    BY <1>1
  <2> HIDE DEF Has
  <2> QED
    BY <2>2, <2>3
<1>3. ASSUME NEW k \in 1..Len(documents), k - 1 \in S PROVE k \in S
  <2>1. PICK g : g = [n \in 0..k - 1 |-> next(g, n)]
    BY <1>3
  <2> DEFINE f == [n \in 0..k |-> next(g, n)]
  <2>2. k \in Nat /\ k \in 0..Len(documents) /\ k - 1 \in Nat
    BY <1>1
  <2>3. \A n \in 0..k - 1 : n \in 0..k
    BY <2>2
  <2>4. \A n \in 0..k - 1 : g[n] = next(g, n)
    BY <2>1
  <2>5. \A n \in 0..k - 1 : f[n] = g[n]
    BY <2>3, <2>4
  <2>6. ASSUME NEW n \in 0..k PROVE next(f, n) = next(g, n)
    <3>1. CASE n = 0
      BY <3>1
    <3>2. CASE n # 0
      <4>1. n - 1 \in 0..k - 1
        BY <2>2, <3>2
      <4>2. f[n - 1] = g[n - 1]
        BY <2>5, <4>1
      <4> HIDE DEF f
      <4> QED
        BY <3>2, <4>2
    <3> QED
      BY <3>1, <3>2
  <2>7. f = [n \in 0..k |-> next(f, n)]
    BY <2>6
  <2>8. Has(k)
    BY <2>7
  <2> HIDE DEF Has
  <2> QED
    BY <2>2, <2>8
<1>4. Len(documents) \in S
  <2> HIDE DEF S
  <2> QED
    BY <1>1, <1>2, <1>3, EveryTurn
<1> DEFINE so == CHOOSE f : f = [n \in 0..Len(documents) |-> next(f, n)]
<1>5. so = [n \in 0..Len(documents) |-> next(so, n)]
  BY <1>4
<1>6. Load(documents) = [ok |-> TRUE, plugins |-> so[Len(documents)].plugins,
                                         warnings |-> so[Len(documents)].warnings]
  BY DEF Load
<1> HIDE DEF so
<1>7. so[0] = [plugins |-> <<>>, warnings |-> 0]
  BY <1>1, <1>5
<1>8. ASSUME NEW n \in 1..Len(documents) PROVE so[n] = ParseDocument(so[n - 1], documents[n].body, n)
  <2>1. n \in 0..Len(documents) /\ n # 0
    BY <1>1
  <2> QED
    BY <1>5, <2>1
<1> QED
  BY <1>6, <1>7, <1>8

\* The plugins that are loaded are a list.
LEMMA LoadedIsList ==
  ASSUME NEW documents, IsCatalogList(documents)
  PROVE  IsList(Load(documents).plugins)
<1>1. CASE \E i \in 1..Len(documents) : ~Readable(documents[i])
  BY <1>1, EmptyIsList DEF Load
<1>2. CASE \A i \in 1..Len(documents) : Readable(documents[i])
  <2>1. Len(documents) \in Nat
    BY ListFacts DEF IsCatalogList
  <2>2. PICK so : /\ so[0] = [plugins |-> <<>>, warnings |-> 0]
                  /\ \A n \in 1..Len(documents) : so[n] = ParseDocument(so[n - 1], documents[n].body, n)
                  /\ Load(documents) = [ok |-> TRUE, plugins |-> so[Len(documents)].plugins,
                                        warnings |-> so[Len(documents)].warnings]
    BY <1>2, <2>1, LoadRuns
  <2> DEFINE S == {n \in 0..Len(documents) : IsReading(so[n])}
  <2>3. 0 \in S
    <3>1. IsReading([plugins |-> <<>>, warnings |-> 0])
      BY EmptyIsList DEF IsReading
    <3> QED
      BY <2>1, <2>2, <3>1
  <2>4. ASSUME NEW n \in 1..Len(documents), n - 1 \in S PROVE n \in S
    <3>1. n \in 0..Len(documents)
      BY <2>1
    <3>2. IsList(documents[n].body)
      BY <1>2 DEF Readable, IsCatalogList, IsListOrNone
    <3>3. IsReading(so[n])
      BY <2>2, <2>4, <3>2, ParseKeeps
    <3> QED
      BY <3>1, <3>3
  <2>5. Len(documents) \in S
    <3> HIDE DEF S
    <3> QED
      BY <2>1, <2>3, <2>4, EveryTurn
  <2>6. IsList(so[Len(documents)].plugins)
    BY <2>5 DEF IsReading
  <2> QED
    BY <2>2, <2>6
<1> QED
  BY <1>1, <1>2

\* The catalogs of the environment and of the flags are one list.
LEMMA LocationsAreList ==
  ASSUME NEW environment, IsCatalogList(environment), NEW flags, IsCatalogList(flags)
  PROVE  IsCatalogList(Locations(environment, flags))
<1> DEFINE all == Locations(environment, flags)
<1>1. IsList(environment) /\ IsList(flags)
  BY DEF IsCatalogList
<1>2. /\ IsList(all)
      /\ \A i \in 1..Len(all) : \/ i \in 1..Len(environment) /\ all[i] = environment[i]
                                \/ i - Len(environment) \in 1..Len(flags) /\ all[i] = flags[i - Len(environment)]
  BY <1>1, ConcatIsList DEF Locations
<1> HIDE DEF all
<1>3. IsCatalogList(all)
  BY <1>2 DEF IsCatalogList
<1> QED
  BY <1>3 DEF all

(* A map of a finite set to as many numbers that gives no number twice gives each.  *)
LEMMA EveryRank ==
  ASSUME NEW D, IsFiniteSet(D), NEW size \in Nat, size = Cardinality(D),
         NEW rank \in [D -> 0..(size - 1)],
         \A d, e \in D : rank[d] = rank[e] => d = e
  PROVE  \A k \in 0..(size - 1) : \E d \in D : rank[d] = k
<1>1. rank \in Injection(D, 0..(size - 1))
  BY DEF Injection, IsInjective
<1>2. 0 \in Int /\ size - 1 \in Int
  OBVIOUS
<1>3. IsFiniteSet(0..(size - 1))
  BY <1>2, FS_Interval
<1>4. Cardinality(0..(size - 1)) = IF 0 > size - 1 THEN 0 ELSE (size - 1) - 0 + 1
  BY <1>2, FS_Interval
<1>5. Cardinality(0..(size - 1)) = size
  BY <1>4
<1>6. rank \in Surjection(D, 0..(size - 1))
  BY <1>1, <1>3, <1>5, FS_Injection
<1> QED
  BY <1>6 DEF Surjection

(* As many numbers below a bound as a part of a set, without one of its elements. *)
LEMMA FewerThanAll ==
  ASSUME NEW D, IsFiniteSet(D), NEW d \in D, NEW S \in SUBSET (D \ {d})
  PROVE  IsFiniteSet(S) /\ Cardinality(S) \in 0..(Cardinality(D) - 1)
<1>1. IsFiniteSet(D \ {d}) /\ Cardinality(D \ {d}) = Cardinality(D) - 1
  BY FS_RemoveElement
<1>2. IsFiniteSet(S) /\ Cardinality(S) <= Cardinality(D) - 1
  BY <1>1, FS_Subset
<1>3. Cardinality(S) \in Nat /\ Cardinality(D) \in Nat
  BY <1>2, FS_CardinalityType
<1> QED
  BY <1>2, <1>3

\* A proper part has fewer elements.
LEMMA FewerThanSome ==
  ASSUME NEW D, IsFiniteSet(D), NEW S \in SUBSET D, S # D
  PROVE  Cardinality(S) < Cardinality(D)
<1>1. PICK d \in D : d \notin S
  OBVIOUS
<1>2. S \in SUBSET (D \ {d})
  BY <1>1
<1>3. Cardinality(S) \in 0..(Cardinality(D) - 1) /\ Cardinality(D) \in Nat
  BY <1>2, FewerThanAll, FS_CardinalityType
<1> QED
  BY <1>3

-----------------------------------------------------------------------------
(* Sorting what was detected.                                              *)

\* Sorted gives each element of a finite set and nothing else.
LEMMA SortedIs ==
  ASSUME NEW D, IsFiniteSet(D), NEW order, Len(order) \in Nat,
         \A d \in D : d.plugin \in Nat /\ \E m \in 1..Len(order) : order[m] = d.dir,
         \A d, e \in D : d.plugin = e.plugin /\ d.dir = e.dir => d = e
  PROVE  /\ IsList(Sorted(D, order))
         /\ \A n \in 1..Len(Sorted(D, order)) : Sorted(D, order)[n] \in D
         /\ \A d \in D : \E n \in 1..Len(Sorted(D, order)) : Sorted(D, order)[n] = d
<1> DEFINE place(d) == Place(d.dir, order)
           before(d) == {e \in D : Precedes(e, d, order)}
           size == Cardinality(D)
           rank == [d \in D |-> Cardinality(before(d))]
           nth(n) == CHOOSE d \in D : Cardinality(before(d)) = n - 1
           list == [n \in 1..size |-> nth(n)]
<1>1. size \in Nat
  BY FS_CardinalityType
<1>2. \A d \in D : place(d) \in Nat /\ order[place(d)] = d.dir
  BY DEF Place
<1>3. \A d, e \in D : Precedes(d, e, order) <=> \/ d.plugin < e.plugin
                                                \/ d.plugin = e.plugin /\ place(d) < place(e)
  BY DEF Precedes
<1> HIDE DEF place
<1>4. \A d \in D : ~Precedes(d, d, order)
  BY <1>2, <1>3
<1>5. \A d, e \in D : d = e \/ Precedes(d, e, order) \/ Precedes(e, d, order)
  <2> TAKE d, e \in D
  <2>1. CASE d.plugin # e.plugin
    BY <1>3, <2>1
  <2>2. CASE d.plugin = e.plugin
    <3>1. place(d) = place(e) => d = e
      BY <1>2, <2>2
    <3>2. place(d) \in Nat /\ place(e) \in Nat
      BY <1>2
    <3> QED
      BY <1>3, <2>2, <3>1, <3>2
  <2> QED
    BY <2>1, <2>2
<1>6. \A c, d, e \in D : Precedes(c, d, order) /\ Precedes(d, e, order) => Precedes(c, e, order)
  <2> TAKE c, d, e \in D
  <2>1. /\ c.plugin \in Nat /\ d.plugin \in Nat /\ e.plugin \in Nat
        /\ place(c) \in Nat /\ place(d) \in Nat /\ place(e) \in Nat
    BY <1>2
  <2> QED
    BY <1>3, <2>1
<1>7. ASSUME NEW d \in D PROVE IsFiniteSet(before(d)) /\ Cardinality(before(d)) \in 0..size - 1
  <2>1. before(d) \in SUBSET (D \ {d})
    BY <1>4
  <2> HIDE DEF before
  <2> QED
    BY <2>1, FewerThanAll
<1>8. ASSUME NEW d \in D, NEW e \in D, Precedes(d, e, order)
      PROVE  Cardinality(before(d)) < Cardinality(before(e))
  <2>1. before(d) \in SUBSET before(e)
    BY <1>6, <1>8
  <2>2. d \in before(e) /\ d \notin before(d)
    BY <1>4, <1>8
  <2>3. before(d) # before(e)
    BY <2>2
  <2>4. IsFiniteSet(before(e))
    BY <1>7
  <2> HIDE DEF before
  <2> QED
    BY <2>1, <2>3, <2>4, FewerThanSome
<1>9. \A d, e \in D : Cardinality(before(d)) = Cardinality(before(e)) => d = e
  <2> TAKE d, e \in D
  <2>1. ASSUME NEW c \in D PROVE Cardinality(before(c)) \in Int
    <3>1. Cardinality(before(c)) \in 0..size - 1
      BY <1>7
    <3> HIDE DEF before, size
    <3> QED
      BY <1>1, <3>1
  <2>2. Cardinality(before(d)) \in Int /\ Cardinality(before(e)) \in Int
    BY <2>1
  <2> HIDE DEF before
  <2>3. ASSUME Cardinality(before(d)) = Cardinality(before(e)) PROVE ~Precedes(d, e, order) /\ ~Precedes(e, d, order)
    BY <1>8, <2>2, <2>3
  <2> QED
    BY <1>5, <2>3
<1>10. \A n \in 1..size : \E d \in D : Cardinality(before(d)) = n - 1
  <2>1. rank \in [D -> 0..(size - 1)]
    BY <1>7
  <2>2. \A d, e \in D : rank[d] = rank[e] => d = e
    BY <1>9
  <2>3. \A d \in D : rank[d] = Cardinality(before(d))
    OBVIOUS
  <2>4. size = Cardinality(D)
    OBVIOUS
  <2> HIDE DEF rank, before, size
  <2>5. \A k \in 0..(size - 1) : \E d \in D : rank[d] = k
    BY <1>1, <2>1, <2>2, <2>4, EveryRank
  <2> TAKE n \in 1..size
  <2>6. n - 1 \in 0..(size - 1)
    BY <1>1
  <2>7. PICK d \in D : rank[d] = n - 1
    BY <2>5, <2>6
  <2> QED
    BY <2>3, <2>7
<1>11. \A n \in 1..size : nth(n) \in D /\ Cardinality(before(nth(n))) = n - 1
  <2> HIDE DEF before, size
  <2> QED
    BY <1>10
<1>12. list = Sorted(D, order)
  BY DEF Sorted
<1> HIDE DEF nth, size
<1>14. \A n \in 1..size : list[n] = nth(n)
  OBVIOUS
<1>15. IsList(list) /\ Len(list) = size
  BY <1>1, MadeIsList
<1> HIDE DEF list
<1>16. \A n \in 1..Len(list) : list[n] \in D
  BY <1>11, <1>14, <1>15
<1>17. ASSUME NEW d \in D PROVE \E n \in 1..Len(list) : list[n] = d
  <2> DEFINE n == Cardinality(before(d)) + 1
  <2>0. Cardinality(before(d)) \in 0..size - 1
    BY <1>7
  <2> HIDE DEF before
  <2>1. n \in 1..size /\ n - 1 = Cardinality(before(d))
    BY <1>1, <2>0
  <2> HIDE DEF n
  <2>2. list[n] \in D /\ Cardinality(before(list[n])) = Cardinality(before(d))
    BY <1>11, <1>14, <2>1
  <2> QED
    BY <1>9, <1>15, <2>1, <2>2
<1> QED
  BY <1>12, <1>15, <1>16, <1>17

-----------------------------------------------------------------------------
(* Detection.                                                              *)

\* What is above a directory is above what that is above of.
LEMMA AboveIsTransitive ==
  ASSUME NEW a \in Seq(STRING), NEW b \in Seq(STRING), NEW c \in Seq(STRING), Above(a, b), Above(b, c)
  PROVE  Above(a, c)
<1>1. Len(a) \in Nat /\ Len(b) \in Nat /\ Len(c) \in Nat
  BY LenProperties
<1>2. Len(a) < Len(b) /\ Len(b) < Len(c) /\ SubSeq(b, 1, Len(a)) = a /\ SubSeq(c, 1, Len(b)) = b
  BY DEF Above
<1>3. \A i \in 1..Len(a) : b[i] = a[i]
  <2>1. \A i \in 1..Len(a) : b[i] \in STRING
    BY <1>1, <1>2, ElementOfSeq
  <2>2. \A i \in 1..Len(a) - 1 + 1 : SubSeq(b, 1, Len(a))[i] = b[1 + i - 1]
    BY <1>1, <2>1, SubSeqProperties
  <2> QED
    BY <1>1, <1>2, <2>2
<1>4. \A i \in 1..Len(b) : c[i] = b[i]
  <2>1. \A i \in 1..Len(b) : c[i] \in STRING
    BY <1>1, <1>2, ElementOfSeq
  <2>2. \A i \in 1..Len(b) - 1 + 1 : SubSeq(c, 1, Len(b))[i] = c[1 + i - 1]
    BY <1>1, <2>1, SubSeqProperties
  <2> QED
    BY <1>1, <1>2, <2>2
<1>5. \A i \in 1..Len(a) : c[i] = a[i] /\ c[i] \in STRING
  <2>1. \A i \in 1..Len(a) : i \in 1..Len(b) /\ i \in 1..Len(c)
    BY <1>1, <1>2
  <2>2. \A i \in 1..Len(c) : c[i] \in STRING
    BY <1>1, ElementOfSeq
  <2> QED
    BY <1>3, <1>4, <2>1, <2>2
<1> DEFINE cut == SubSeq(c, 1, Len(a))
<1>6. /\ cut \in Seq(STRING) /\ Len(cut) = IF 1 <= Len(a) THEN Len(a) - 1 + 1 ELSE 0
      /\ \A i \in 1..Len(a) - 1 + 1 : cut[i] = c[1 + i - 1]
  BY <1>1, <1>5, SubSeqProperties
<1> HIDE DEF cut
<1>7. Len(cut) = Len(a) /\ \A i \in 1..Len(a) : cut[i] = a[i]
  BY <1>1, <1>5, <1>6
<1>8. cut = a
  BY <1>6, <1>7, SeqEqual
<1> QED
  BY <1>1, <1>2, <1>8 DEF Above, cut

(* Of every plugin that matches somewhere, the outermost places are kept.  *)
LEMMA OutermostAnswers ==
  ASSUME NEW M, \A d \in M : d.dir \in Seq(STRING), NEW d \in M
  PROVE  \E e \in Outermost(M) : e.plugin = d.plugin /\ (e.dir = d.dir \/ Above(e.dir, d.dir))
<1> DEFINE over == {e \in M : e.plugin = d.plugin /\ (e.dir = d.dir \/ Above(e.dir, d.dir))}
           lengths == {Len(e.dir) : e \in over}
<1>1. \A e \in M : Len(e.dir) \in Nat
  BY LenProperties
<1>2. lengths \in SUBSET Nat /\ lengths # {}
  <2>1. d \in over
    OBVIOUS
  <2> QED
    BY <1>1, <2>1
<1>3. PICK least \in lengths : \A i \in lengths : least <= i
  <2> HIDE DEF lengths
  <2> QED
    BY <1>2, LeastMember
<1>4. PICK e \in over : Len(e.dir) = least
  OBVIOUS
<1>5. ASSUME NEW x \in M, x.plugin = e.plugin, Above(x.dir, e.dir) PROVE FALSE
  <2>1. Above(x.dir, d.dir)
    BY <1>4, <1>5, AboveIsTransitive
  <2>2. x \in over
    BY <1>4, <1>5, <2>1
  <2>3. Len(x.dir) \in lengths
    BY <2>2
  <2>4. least <= Len(x.dir)
    BY <1>3, <2>3
  <2>5. Len(x.dir) < least
    BY <1>4, <1>5 DEF Above
  <2>6. Len(x.dir) \in Nat /\ least \in Nat
    BY <1>1, <1>4
  <2> QED
    BY <2>4, <2>5, <2>6
<1>6. e \in Outermost(M)
  BY <1>4, <1>5 DEF Outermost
<1> QED
  BY <1>4, <1>6

(* Every directory of the project is a path and has its place in the order. *)
LEMMA WalkedHavePlaces ==
  ASSUME DiskFollows, NEW list, NEW dir \in Walked(Project, list)
  PROVE  dir \in Seq(STRING) /\ \E m \in 1..Len(Order) : Order[m] = dir
<1>1. CASE dir = <<>>
  <2>1. <<>> \in Seq(STRING)
    OBVIOUS
  <2> QED
    BY <1>1, <2>1, MigrateAssumption
<1>2. CASE dir # <<>>
  <2>1. dir \in Project.dirs
    BY <1>2 DEF Walked
  <2>2. PICK p \in DOMAIN disk : dir \in {SubSeq(p, 1, n) : n \in 1..(Len(p) - 1)}
    BY <2>1 DEF Project
  <2>3. PICK n \in 1..(Len(p) - 1) : dir = SubSeq(p, 1, n)
    BY <2>2
  <2>4. p \in Places /\ p \in Seq(STRING)
    BY PlacesArePaths DEF DiskFollows
  <2>5. \E m \in 1..Len(Order) : Order[m] = dir
    BY <2>3, <2>4, MigrateAssumption
  <2>6. dir \in Seq(STRING)
    <3>1. Len(p) \in Nat /\ n \in Nat /\ n <= Len(p)
      BY <2>3, <2>4, LenProperties
    <3>2. \A i \in 1..n : p[i] \in STRING
      BY <2>4, <3>1, ElementOfSeq
    <3>3. SubSeq(p, 1, n) \in Seq(STRING)
      BY <3>1, <3>2, SubSeqProperties
    <3> QED
      BY <2>3, <3>3
  <2> QED
    BY <2>5, <2>6
<1> QED
  BY <1>1, <1>2

\* What matches is a plugin of the catalogs at a directory of the project.
LEMMA MatchedArePlaces ==
  ASSUME DiskFollows, NEW list, NEW with, NEW d \in Matched(Project, list, with)
  PROVE  /\ d = [plugin |-> d.plugin, dir |-> d.dir]
         /\ d.plugin \in 1..Len(list) /\ d.dir \in Seq(STRING)
         /\ \E m \in 1..Len(Order) : Order[m] = d.dir
<1>1. PICK dir \in Walked(Project, list) :
        d \in UNION {{[plugin |-> i, dir |-> dir] : i \in Winners(Project, list, dir, file, with)} :
                       file \in ClaimedIn(Project, list, dir)}
  BY DEF Matched
<1>3. PICK file \in ClaimedIn(Project, list, dir) :
        d \in {[plugin |-> i, dir |-> dir] : i \in Winners(Project, list, dir, file, with)}
  BY <1>1
<1>4. PICK i \in Winners(Project, list, dir, file, with) : d = [plugin |-> i, dir |-> dir]
  BY <1>3
<1>2. i \in 1..Len(list)
  BY DEF Winners, Best
<1> QED
  BY <1>4, <1>2, WalkedHavePlaces

\* Finitely many plugins match at finitely many places.
LEMMA FewPlaces ==
  ASSUME NEW m \in Nat, NEW D,
         \A d \in D : /\ d = [plugin |-> d.plugin, dir |-> d.dir]
                      /\ d.plugin \in 1..m /\ \E n \in 1..Len(Order) : Order[n] = d.dir
  PROVE  IsFiniteSet(D)
<1> DEFINE pairs == (1..m) \X (1..Len(Order))
           all == {[plugin |-> p[1], dir |-> Order[p[2]]] : p \in pairs}
           f == [p \in pairs |-> [plugin |-> p[1], dir |-> Order[p[2]]]]
<1>1. Len(Order) \in Nat
  BY ListFacts, MigrateAssumption
<1>2. IsFiniteSet(pairs)
  <2>1. IsFiniteSet(1..m) /\ IsFiniteSet(1..Len(Order))
    <3>1. 1 \in Int /\ m \in Int /\ Len(Order) \in Int
      BY <1>1
    <3> QED
      BY <3>1, FS_Interval
  <2> QED
    BY <2>1, FS_Product
<1>3. f \in Surjection(pairs, all)
  BY DEF Surjection
<1>4. IsFiniteSet(all)
  <2> HIDE DEF f, pairs, all
  <2> QED
    BY <1>2, <1>3, FS_Surjection
<1>5. D \in SUBSET all
  <2> SUFFICES ASSUME NEW d \in D PROVE d \in all
    OBVIOUS
  <2>1. PICK n \in 1..Len(Order) : Order[n] = d.dir
    OBVIOUS
  <2> DEFINE p == <<d.plugin, n>>
  <2>2. p \in pairs
    OBVIOUS
  <2>3. d = [plugin |-> p[1], dir |-> Order[p[2]]]
    BY <2>1
  <2> HIDE DEF p, pairs
  <2> QED
    BY <2>2, <2>3
<1> HIDE DEF all
<1> QED
  BY <1>4, <1>5, FS_Subset

\* Who gives way is outranked, in settle_claims' own terms.
LEMMA GivingWayIsOutranked ==
  ASSUME NEW list, NEW dir, NEW file, NEW with, NEW i, NEW j
  PROVE  GivesWay(list, i, j, dir, file, with) <=>
           Outranks(Rank(Project, list[j], dir, file, with), Rank(Project, list[i], dir, file, with))
<1> DEFINE left == Rank(Project, list[j], dir, file, with)
           right == Rank(Project, list[i], dir, file, with)
<1>1. Outranks(left, right) <=>
        \/ left[1] < right[1]
        \/ left[1] = right[1] /\ left[2] < right[2]
        \/ left[1] = right[1] /\ left[2] = right[2] /\ left[3] < right[3]
  <2> HIDE DEF left, right
  <2>1. 1..3 = {1, 2, 3} /\ 1..(1 - 1) = {} /\ 1..(2 - 1) = {1} /\ 1..(3 - 1) = {1, 2}
    OBVIOUS
  <2> QED
    BY <2>1 DEF Outranks
<1>2. /\ left[1] = (IF list[j].id \in with THEN 0 ELSE 1)
      /\ left[2] = (IF Specific(Project, list[j], dir, file) THEN 0 ELSE 1)
      /\ left[3] = list[j].catalog
  BY DEF Rank
<1>3. /\ right[1] = (IF list[i].id \in with THEN 0 ELSE 1)
      /\ right[2] = (IF Specific(Project, list[i], dir, file) THEN 0 ELSE 1)
      /\ right[3] = list[i].catalog
  BY DEF Rank
<1> HIDE DEF left, right
<1> QED
  BY <1>1, <1>2, <1>3 DEF GivesWay, left, right

\* Where no claim is tied, those who give way to nobody are those record_winners takes, and two
\* of them are both named.
LEMMA LeadersWin ==
  ASSUME NEW list, IsList(list), NEW dir, NEW file, NEW with,
         Winners(Project, list, dir, file, with) # {}
  PROVE  /\ Winners(Project, list, dir, file, with) = Leaders(list, dir, file, with)
         /\ \A i, j \in Leaders(list, dir, file, with) : i = j \/ {list[i].id, list[j].id} \subseteq with
<1> DEFINE best == Best(Project, list, dir, file, with)
           leaders == Leaders(list, dir, file, with)
<1>1. leaders = best
  BY GivingWayIsOutranked DEF Leaders, Best
<1>2. Len(list) \in Nat /\ best \in SUBSET (1..Len(list))
  BY ListFacts DEF Best
<1>3. Winners(Project, list, dir, file, with) =
        IF Cardinality(best) > 1 THEN {i \in best : list[i].id \in with} ELSE best
  BY DEF Winners
<1>4. \A i, j \in leaders : ~GivesWay(list, i, j, dir, file, with)
  BY DEF Leaders
<1> HIDE DEF best, leaders
<1>5. CASE Cardinality(best) > 1
  <2>1. PICK k \in best : list[k].id \in with
    BY <1>3, <1>5
  <2>2. \A i \in best : list[i].id \in with
    BY <1>1, <1>4, <2>1 DEF GivesWay
  <2> QED
    BY <1>1, <1>3, <1>5, <2>2 DEF leaders
<1>6. CASE ~(Cardinality(best) > 1)
  <2>1. ASSUME NEW i \in best, NEW j \in best, i # j PROVE FALSE
    <3>1. IsFiniteSet(best)
      BY <1>2, SomeOfList
    <3>2. IsFiniteSet({i}) /\ Cardinality({i}) = 1 /\ IsFiniteSet({i} \cup {j})
          /\ Cardinality({i} \cup {j}) = 2
      <4>1. IsFiniteSet({i}) /\ Cardinality({i}) = 1
        BY FS_Singleton
      <4>2. IsFiniteSet({i} \cup {j}) /\ Cardinality({i} \cup {j}) = Cardinality({i}) + 1
        BY <2>1, <4>1, FS_AddElement
      <4> QED
        BY <4>1, <4>2
    <3>3. ({i} \cup {j}) \subseteq best
      OBVIOUS
    <3>4. Cardinality({i} \cup {j}) <= Cardinality(best)
      BY <3>1, <3>3, FS_Subset
    <3>5. Cardinality(best) \in Nat
      BY <1>2, SomeOfList
    <3> QED
      BY <1>6, <3>2, <3>4, <3>5
  <2> QED
    BY <1>1, <1>3, <1>6, <2>1 DEF leaders
<1> QED
  BY <1>5, <1>6

\* What detection settles of a project: see ClaimsAnswered.
Settled(list, found, with) ==
  /\ \A dir \in Walked(Project, list) : \A file \in ClaimedIn(Project, list, dir) :
       /\ Leaders(list, dir, file, with) # {}
       /\ \A i \in Leaders(list, dir, file, with) : DetectedFor(found, i, dir)
       /\ \A i, j \in Leaders(list, dir, file, with) : i = j \/ {list[i].id, list[j].id} \subseteq with
  /\ \A n \in 1..Len(found) :
       \/ found[n].dir = <<>> /\ list[found[n].plugin].id \in with
       \/ \E file \in ClaimedIn(Project, list, found[n].dir) :
            found[n].plugin \in Leaders(list, found[n].dir, file, with)

(* What is detected is a list of plugins at places of the project; and when detection *)
(* succeeds, it settles every claim.                                                    *)
LEMMA DetectedIs ==
  ASSUME DiskFollows, NEW list, IsList(list), NEW with,
         NEW seen, seen = Detected(Project, list, with, Order)
  PROVE  /\ IsList(seen.detections)
         /\ \A n \in 1..Len(seen.detections) : seen.detections[n].plugin \in 1..Len(list)
         /\ seen.ok => Settled(list, seen.detections, with)
<1> DEFINE M == Matched(Project, list, with)
           O == Outermost(M)
           D == O \cup WithAtRoot(list, with)
<1>1. Len(list) \in Nat
  BY ListFacts
<1>2. CASE seen = [ok |-> FALSE, detections |-> <<>>]
  <2>1. seen.ok = FALSE /\ seen.detections = <<>>
    BY <1>2
  <2> QED
    BY <2>1, EmptyIsList
<1>3. CASE seen # [ok |-> FALSE, detections |-> <<>>]
  <2>1. /\ seen = [ok |-> TRUE, detections |-> Sorted(D, Order)]
        /\ ~Tied(Project, list, with)
    BY <1>3 DEF Detected
  <2> HIDE DEF M
  <2>2. \A d \in M : /\ d = [plugin |-> d.plugin, dir |-> d.dir]
                     /\ d.plugin \in 1..Len(list) /\ d.dir \in Seq(STRING)
                     /\ \E m \in 1..Len(Order) : Order[m] = d.dir
    BY MatchedArePlaces DEF M
  <2>3. O \subseteq M
    BY DEF Outermost
  <2> HIDE DEF O
  <2>4. \A d \in D : /\ d = [plugin |-> d.plugin, dir |-> d.dir]
                     /\ d.plugin \in 1..Len(list)
                     /\ \E m \in 1..Len(Order) : Order[m] = d.dir
    <3>1. \A d \in WithAtRoot(list, with) : \E i \in 1..Len(list) : d = [plugin |-> i, dir |-> <<>>]
      BY DEF WithAtRoot
    <3>2. \A d \in WithAtRoot(list, with) :
             /\ d = [plugin |-> d.plugin, dir |-> d.dir]
             /\ d.plugin \in 1..Len(list) /\ d.dir = <<>>
      BY <3>1
    <3>3. \E m \in 1..Len(Order) : Order[m] = <<>>
      BY MigrateAssumption
    <3> QED
      BY <2>2, <2>3, <3>2, <3>3
  <2> HIDE DEF D
  <2>5. IsFiniteSet(D)
    BY <1>1, <2>4, FewPlaces
  <2>6. Len(Order) \in Nat
    BY ListFacts, MigrateAssumption
  <2>7. \A d \in D : d.plugin \in Nat /\ \E m \in 1..Len(Order) : Order[m] = d.dir
    BY <1>1, <2>4
  <2>8. \A d, e \in D : d.plugin = e.plugin /\ d.dir = e.dir => d = e
    BY <2>4
  <2> DEFINE sorted == Sorted(D, Order)
  <2>9. /\ IsList(sorted)
        /\ \A n \in 1..Len(sorted) : sorted[n] \in D
        /\ \A d \in D : \E n \in 1..Len(sorted) : sorted[n] = d
    BY <2>5, <2>6, <2>7, <2>8, SortedIs
  <2> HIDE DEF sorted
  <2>10. seen.ok = TRUE /\ seen.detections = sorted
    BY <2>1 DEF sorted
  <2>11. \A n \in 1..Len(sorted) : sorted[n].plugin \in 1..Len(list)
    BY <2>4, <2>9
  <2>12. ASSUME NEW dir \in Walked(Project, list),
                NEW file, file \in ClaimedIn(Project, list, dir)
         PROVE  /\ Leaders(list, dir, file, with) # {}
                /\ \A i \in Leaders(list, dir, file, with) : DetectedFor(sorted, i, dir)
                /\ \A i, j \in Leaders(list, dir, file, with) :
                     i = j \/ {list[i].id, list[j].id} \subseteq with
    <3>0. ASSUME Winners(Project, list, dir, file, with) = {} PROVE Tied(Project, list, with)
      BY <2>12, <3>0 DEF Tied
    <3>1. Winners(Project, list, dir, file, with) # {}
      BY <2>1, <3>0
    <3>2. /\ Winners(Project, list, dir, file, with) = Leaders(list, dir, file, with)
          /\ \A i, j \in Leaders(list, dir, file, with) :
               i = j \/ {list[i].id, list[j].id} \subseteq with
      BY <3>1, LeadersWin
    <3>3. ASSUME NEW i \in Winners(Project, list, dir, file, with) PROVE DetectedFor(sorted, i, dir)
      <4>1. [plugin |-> i, dir |-> dir] \in M
        <5>1. [plugin |-> i, dir |-> dir] \in {[plugin |-> k, dir |-> dir] : k \in Winners(Project, list, dir, file, with)}
          BY <3>3
        <5>2. [plugin |-> i, dir |-> dir] \in
                UNION {{[plugin |-> k, dir |-> dir] : k \in Winners(Project, list, dir, f, with)} :
                       f \in ClaimedIn(Project, list, dir)}
          BY <2>12, <5>1
        <5> QED
          BY <2>12, <5>2 DEF M, Matched
      <4> DEFINE d == [plugin |-> i, dir |-> dir]
      <4>2. d.plugin = i /\ d.dir = dir /\ d \in M
        BY <4>1
      <4> HIDE DEF d
      <4>3. PICK e \in O : e.plugin = i /\ (e.dir = dir \/ Above(e.dir, dir))
        BY <2>2, <4>2, OutermostAnswers DEF O
      <4>4. PICK n \in 1..Len(sorted) : sorted[n] = e
        BY <2>9, <4>3 DEF D
      <4> QED
        BY <4>3, <4>4 DEF DetectedFor
    <3> QED
      BY <3>1, <3>2, <3>3
  <2>13. ASSUME NEW n \in 1..Len(sorted)
         PROVE  \/ sorted[n].dir = <<>> /\ list[sorted[n].plugin].id \in with
                \/ \E file \in ClaimedIn(Project, list, sorted[n].dir) :
                     sorted[n].plugin \in Leaders(list, sorted[n].dir, file, with)
    <3>1. sorted[n] \in D
      BY <2>9
    <3>2. CASE sorted[n] \in WithAtRoot(list, with)
      <4>1. PICK i \in 1..Len(list) : list[i].id \in with /\ sorted[n] = [plugin |-> i, dir |-> <<>>]
        BY <3>2 DEF WithAtRoot
      <4> QED
        BY <4>1
    <3>3. CASE sorted[n] \in M
      <4>1. PICK dir \in Walked(Project, list) :
              sorted[n] \in UNION {{[plugin |-> i, dir |-> dir] : i \in Winners(Project, list, dir, file, with)} :
                                     file \in ClaimedIn(Project, list, dir)}
        BY <3>3 DEF M, Matched
      <4>2. PICK file \in ClaimedIn(Project, list, dir) :
              sorted[n] \in {[plugin |-> i, dir |-> dir] : i \in Winners(Project, list, dir, file, with)}
        BY <4>1
      <4>3. PICK i \in Winners(Project, list, dir, file, with) : sorted[n] = [plugin |-> i, dir |-> dir]
        BY <4>2
      <4>4. sorted[n].plugin = i /\ sorted[n].dir = dir
        BY <4>3
      <4>5. i \in Leaders(list, dir, file, with)
        BY LeadersWin
      <4> QED
        BY <4>4, <4>5
    <3> QED
      BY <2>3, <3>1, <3>2, <3>3 DEF D
  <2>14. Settled(list, sorted, with)
    BY <2>12, <2>13 DEF Settled
  <2> QED
    BY <2>9, <2>10, <2>11, <2>14
<1> QED
  BY <1>2, <1>3

\* A run starts with what the catalogs list and detection finds.
LEMMA StartInv ==
  ASSUME MigrateInv, NEW lists \in CatalogLists, NEW with, Start(lists[1], lists[2], with)
  PROVE  MigrateInv'
<1>1. /\ MigrateTypeOK /\ DiskFollows /\ runs < MaxRuns /\ runs' = runs + 1
      /\ disk' = disk /\ manifest' = manifest
      /\ kept' = <<>> /\ foreign' = <<>> /\ merged' = <<>>
  BY DEF MigrateInv, Start, DiskStays
<1> DEFINE loaded == Load(Locations(lists[1], lists[2]))
           seen == Detected(Project, loaded.plugins, with, Order)
           list == FirstConsidered(loaded.plugins, seen.detections)
           lost == {n \in 1..Len(list) : loaded.plugins[list[n]].asset = Missing}
           Ends == /\ \E how \in {"undetected", "error"} : End(how)
                   /\ plugins' = <<>> /\ detections' = <<>> /\ considered' = <<>> /\ blockers' = 0
           Starts2 == /\ pc' = "migrators" /\ turn' = 1 /\ report' = [outcome |-> "empty", said |-> {}]
                      /\ plugins' = loaded.plugins /\ detections' = seen.detections
                      /\ considered' = list /\ blockers' = Cardinality(lost)
                      /\ seen.ok
<1>2. Ends \/ Starts2
  BY DEF Start
<1>3. DiskFollows' /\ runs' \in 0..MaxRuns
  <2>1. DiskFollows'
    BY <1>1, DiskKeeps
  <2>2. MaxRuns \in Nat /\ runs \in 0..MaxRuns
    BY <1>1, MigrateAssumption DEF MigrateTypeOK
  <2>3. runs' \in 0..MaxRuns
    BY <1>1, <2>2
  <2> QED
    BY <2>1, <2>3
<1>4. ForeignFollows'
  BY <1>1, EmptyIsList DEF ForeignFollows
<1>5. CASE Ends
  <2>1. /\ pc' = "idle" /\ turn' = 1 /\ report'.outcome \in Outcomes
        /\ plugins' = <<>> /\ considered' = <<>> /\ blockers' = 0
    <3>1. PICK how \in {"undetected", "error"} : End(how)
      BY <1>5
    <3>2. report'.outcome = how
      BY <3>1 DEF End
    <3> QED
      BY <1>5, <3>1, <3>2 DEF End, Outcomes
  <2>2. MigrateTypeOK'
    <3>1. pc' \in Stages
      BY <2>1 DEF Stages
    <3> QED
      BY <1>1, <1>3, <2>1, <3>1, EmptyIsList DEF MigrateTypeOK
  <2>3. BlockersFollow'
    BY <2>1 DEF BlockersFollow, Assembling
  <2> QED
    BY <1>3, <1>4, <2>1, <2>2, <2>3, EarlyInv
<1>6. CASE Starts2
  <2>1. IsList(loaded.plugins)
    <3>1. IsCatalogList(lists[1]) /\ IsCatalogList(lists[2])
      BY MigrateAssumption
    <3> QED
      BY <3>1, LocationsAreList, LoadedIsList
  <2>2. seen.ok /\ plugins' = loaded.plugins /\ detections' = seen.detections /\ considered' = list
        /\ pc' = "migrators" /\ turn' = 1 /\ report' = [outcome |-> "empty", said |-> {}]
        /\ blockers' = Cardinality(lost)
    BY <1>6
  <2> HIDE DEF loaded
  <2>3. /\ IsList(seen.detections)
        /\ \A n \in 1..Len(seen.detections) : seen.detections[n].plugin \in 1..Len(loaded.plugins)
    BY <1>1, <2>1, <2>2, DetectedIs
  <2> HIDE DEF seen
  <2>4. IsConsidered(loaded.plugins, list)
    BY <2>3, ListFacts, FirstIsConsidered
  <2> HIDE DEF list
  <2>5. Len(list) \in Nat
    BY <2>4, ListFacts DEF IsConsidered
  <2>6. lost \in SUBSET (1..Len(list))
    OBVIOUS
  <2>7. Cardinality(lost) \in Nat /\ (Cardinality(lost) = 0 => lost = {})
    <3> HIDE DEF lost
    <3> QED
      BY <2>5, <2>6, SomeOfList
  <2>8. MigrateTypeOK'
    <3>1. pc' \in Stages /\ report'.outcome \in Outcomes
      BY <2>2 DEF Stages, Outcomes
    <3> HIDE DEF lost
    <3> QED
      BY <1>1, <1>3, <2>1, <2>2, <2>4, <2>7, <3>1, EmptyIsList DEF MigrateTypeOK, IsConsidered
  <2>9. BlockersFollow'
    <3>1. ASSUME blockers' = 0 PROVE \A n \in 1..Len(list) : loaded.plugins[list[n]].asset # Missing
      BY <2>2, <2>7, <3>1
    <3> QED
      BY <1>1, <2>2, <3>1, EmptyIsList DEF BlockersFollow, Assembling, Pinned
  <2> QED
    BY <1>3, <1>4, <2>2, <2>8, <2>9, EarlyInv
<1> QED
  BY <1>2, <1>5, <1>6

\* A run that goes on has settled the claims.
LEMMA StartSettles ==
  ASSUME MigrateInv, NEW lists \in CatalogLists, NEW with,
         Start(lists[1], lists[2], with), pc' = "migrators"
  PROVE  Settled(plugins', detections', with)
<1> DEFINE loaded == Load(Locations(lists[1], lists[2]))
           seen == Detected(Project, loaded.plugins, with, Order)
<1>1. DiskFollows
  BY DEF MigrateInv
<1>2. plugins' = loaded.plugins /\ detections' = seen.detections /\ seen.ok
  BY DEF Start, End
<1>3. IsList(loaded.plugins)
  <2>1. IsCatalogList(lists[1]) /\ IsCatalogList(lists[2])
    BY MigrateAssumption
  <2> QED
    BY <2>1, LocationsAreList, LoadedIsList
<1> HIDE DEF loaded
<1>4. Settled(loaded.plugins, seen.detections, with)
  BY <1>1, <1>2, <1>3, DetectedIs
<1> HIDE DEF seen
<1> QED
  BY <1>2, <1>4

-----------------------------------------------------------------------------
(* Merging the fragments.                                                  *)

\* The turns of MergedAll.
LEMMA MergeRuns ==
  ASSUME Len(Fragments) \in Nat
  PROVE  \E so : /\ so[0] = [doc |-> [p \in {} |-> Table], collisions |-> 0]
                 /\ \A n \in 1..Len(Fragments) : so[n] = MergeFragment(so[n - 1], Fragments[n])
                 /\ MergedAll = so[Len(Fragments)]
<1> DEFINE next(f, n) == IF n = 0 THEN [doc |-> [p \in {} |-> Table], collisions |-> 0] ELSE MergeFragment(f[n - 1], Fragments[n])
           Has(k) == \E f : f = [n \in 0..k |-> next(f, n)]
           S == {k \in 0..Len(Fragments) : Has(k)}
<1>1. Len(Fragments) \in Nat
  OBVIOUS
<1>2. 0 \in S
  <2> DEFINE f == [n \in 0..0 |-> [doc |-> [p \in {} |-> Table], collisions |-> 0]]
  <2>1. f = [n \in 0..0 |-> next(f, n)]
    OBVIOUS
  <2>2. Has(0)
    BY <2>1
  <2>3. 0 \in 0..Len(Fragments)
    BY <1>1
  <2> HIDE DEF Has
  <2> QED
    BY <2>2, <2>3
<1>3. ASSUME NEW k \in 1..Len(Fragments), k - 1 \in S PROVE k \in S
  <2>1. PICK g : g = [n \in 0..k - 1 |-> next(g, n)]
    BY <1>3
  <2> DEFINE f == [n \in 0..k |-> next(g, n)]
  <2>2. k \in Nat /\ k \in 0..Len(Fragments) /\ k - 1 \in Nat
    BY <1>1
  <2>3. \A n \in 0..k - 1 : n \in 0..k
    BY <2>2
  <2>4. \A n \in 0..k - 1 : g[n] = next(g, n)
    BY <2>1
  <2>5. \A n \in 0..k - 1 : f[n] = g[n]
    BY <2>3, <2>4
  <2>6. ASSUME NEW n \in 0..k PROVE next(f, n) = next(g, n)
    <3>1. CASE n = 0
      BY <3>1
    <3>2. CASE n # 0
      <4>1. n - 1 \in 0..k - 1
        BY <2>2, <3>2
      <4>2. f[n - 1] = g[n - 1]
        BY <2>5, <4>1
      <4> HIDE DEF f
      <4> QED
        BY <3>2, <4>2
    <3> QED
      BY <3>1, <3>2
  <2>7. f = [n \in 0..k |-> next(f, n)]
    BY <2>6
  <2>8. Has(k)
    BY <2>7
  <2> HIDE DEF Has
  <2> QED
    BY <2>2, <2>8
<1>4. Len(Fragments) \in S
  <2> HIDE DEF S
  <2> QED
    BY <1>1, <1>2, <1>3, EveryTurn
<1> DEFINE so == CHOOSE f : f = [n \in 0..Len(Fragments) |-> next(f, n)]
<1>5. so = [n \in 0..Len(Fragments) |-> next(so, n)]
  BY <1>4
<1>6. MergedAll = so[Len(Fragments)]
  BY DEF MergedAll
<1> HIDE DEF so
<1>7. so[0] = [doc |-> [p \in {} |-> Table], collisions |-> 0]
  BY <1>1, <1>5
<1>8. ASSUME NEW n \in 1..Len(Fragments) PROVE so[n] = MergeFragment(so[n - 1], Fragments[n])
  <2>1. n \in 0..Len(Fragments) /\ n # 0
    BY <1>1
  <2> QED
    BY <1>5, <2>1
<1> QED
  BY <1>6, <1>7, <1>8

\* The turns of InstancesSet.
LEMMA InstanceRuns ==
  ASSUME NEW doc, Len(kept) \in Nat
  PROVE  \E so : /\ so[0] = doc
                 /\ \A n \in 1..Len(kept) : so[n] = SetInstance(so[n - 1], kept[n])
                 /\ InstancesSet(doc) = so
<1> DEFINE next(f, n) == IF n = 0 THEN doc ELSE SetInstance(f[n - 1], kept[n])
           Has(k) == \E f : f = [n \in 0..k |-> next(f, n)]
           S == {k \in 0..Len(kept) : Has(k)}
<1>1. Len(kept) \in Nat
  OBVIOUS
<1>2. 0 \in S
  <2> DEFINE f == [n \in 0..0 |-> doc]
  <2>1. f = [n \in 0..0 |-> next(f, n)]
    OBVIOUS
  <2>2. Has(0)
    BY <2>1
  <2>3. 0 \in 0..Len(kept)
    BY <1>1
  <2> HIDE DEF Has
  <2> QED
    BY <2>2, <2>3
<1>3. ASSUME NEW k \in 1..Len(kept), k - 1 \in S PROVE k \in S
  <2>1. PICK g : g = [n \in 0..k - 1 |-> next(g, n)]
    BY <1>3
  <2> DEFINE f == [n \in 0..k |-> next(g, n)]
  <2>2. k \in Nat /\ k \in 0..Len(kept) /\ k - 1 \in Nat
    BY <1>1
  <2>3. \A n \in 0..k - 1 : n \in 0..k
    BY <2>2
  <2>4. \A n \in 0..k - 1 : g[n] = next(g, n)
    BY <2>1
  <2>5. \A n \in 0..k - 1 : f[n] = g[n]
    BY <2>3, <2>4
  <2>6. ASSUME NEW n \in 0..k PROVE next(f, n) = next(g, n)
    <3>1. CASE n = 0
      BY <3>1
    <3>2. CASE n # 0
      <4>1. n - 1 \in 0..k - 1
        BY <2>2, <3>2
      <4>2. f[n - 1] = g[n - 1]
        BY <2>5, <4>1
      <4> HIDE DEF f
      <4> QED
        BY <3>2, <4>2
    <3> QED
      BY <3>1, <3>2
  <2>7. f = [n \in 0..k |-> next(f, n)]
    BY <2>6
  <2>8. Has(k)
    BY <2>7
  <2> HIDE DEF Has
  <2> QED
    BY <2>2, <2>8
<1>4. Len(kept) \in S
  <2> HIDE DEF S
  <2> QED
    BY <1>1, <1>2, <1>3, EveryTurn
<1> DEFINE so == CHOOSE f : f = [n \in 0..Len(kept) |-> next(f, n)]
<1>5. so = [n \in 0..Len(kept) |-> next(so, n)]
  BY <1>4
<1>6. InstancesSet(doc) = so
  BY DEF InstancesSet
<1> HIDE DEF so
<1>7. so[0] = doc
  BY <1>1, <1>5
<1>8. ASSUME NEW n \in 1..Len(kept) PROVE so[n] = SetInstance(so[n - 1], kept[n])
  <2>1. n \in 0..Len(kept) /\ n # 0
    BY <1>1
  <2> QED
    BY <1>5, <2>1
<1> QED
  BY <1>6, <1>7, <1>8

\* The turns of WithPlugins.
LEMMA PluginRuns ==
  ASSUME NEW doc, Len(considered) \in Nat
  PROVE  \E so : /\ so[0] = doc
                 /\ \A n \in 1..Len(considered) : so[n] = AddPinned(so[n - 1], considered[n])
                 /\ WithPlugins(doc) = so[Len(considered)]
<1> DEFINE next(f, n) == IF n = 0 THEN doc ELSE AddPinned(f[n - 1], considered[n])
           Has(k) == \E f : f = [n \in 0..k |-> next(f, n)]
           S == {k \in 0..Len(considered) : Has(k)}
<1>1. Len(considered) \in Nat
  OBVIOUS
<1>2. 0 \in S
  <2> DEFINE f == [n \in 0..0 |-> doc]
  <2>1. f = [n \in 0..0 |-> next(f, n)]
    OBVIOUS
  <2>2. Has(0)
    BY <2>1
  <2>3. 0 \in 0..Len(considered)
    BY <1>1
  <2> HIDE DEF Has
  <2> QED
    BY <2>2, <2>3
<1>3. ASSUME NEW k \in 1..Len(considered), k - 1 \in S PROVE k \in S
  <2>1. PICK g : g = [n \in 0..k - 1 |-> next(g, n)]
    BY <1>3
  <2> DEFINE f == [n \in 0..k |-> next(g, n)]
  <2>2. k \in Nat /\ k \in 0..Len(considered) /\ k - 1 \in Nat
    BY <1>1
  <2>3. \A n \in 0..k - 1 : n \in 0..k
    BY <2>2
  <2>4. \A n \in 0..k - 1 : g[n] = next(g, n)
    BY <2>1
  <2>5. \A n \in 0..k - 1 : f[n] = g[n]
    BY <2>3, <2>4
  <2>6. ASSUME NEW n \in 0..k PROVE next(f, n) = next(g, n)
    <3>1. CASE n = 0
      BY <3>1
    <3>2. CASE n # 0
      <4>1. n - 1 \in 0..k - 1
        BY <2>2, <3>2
      <4>2. f[n - 1] = g[n - 1]
        BY <2>5, <4>1
      <4> HIDE DEF f
      <4> QED
        BY <3>2, <4>2
    <3> QED
      BY <3>1, <3>2
  <2>7. f = [n \in 0..k |-> next(f, n)]
    BY <2>6
  <2>8. Has(k)
    BY <2>7
  <2> HIDE DEF Has
  <2> QED
    BY <2>2, <2>8
<1>4. Len(considered) \in S
  <2> HIDE DEF S
  <2> QED
    BY <1>1, <1>2, <1>3, EveryTurn
<1> DEFINE so == CHOOSE f : f = [n \in 0..Len(considered) |-> next(f, n)]
<1>5. so = [n \in 0..Len(considered) |-> next(so, n)]
  BY <1>4
<1>6. WithPlugins(doc) = so[Len(considered)]
  BY DEF WithPlugins
<1> HIDE DEF so
<1>7. so[0] = doc
  BY <1>1, <1>5
<1>8. ASSUME NEW n \in 1..Len(considered) PROVE so[n] = AddPinned(so[n - 1], considered[n])
  <2>1. n \in 0..Len(considered) /\ n # 0
    BY <1>1
  <2> QED
    BY <1>5, <2>1
<1> QED
  BY <1>6, <1>7, <1>8

\* A document says what every fragment says.
Says(doc, n) ==
  Fragments[n] # Missing => \A p \in DOMAIN Fragments[n] : p \in DOMAIN doc /\ doc[p] = Fragments[n][p]
\* Nobody but a fragment has said anything in it.
Gathered(doc) ==
  \A p \in DOMAIN doc : \E n \in 1..Len(Fragments) : Fragments[n] # Missing /\ p \in DOMAIN Fragments[n]

\* What the loop of merge_answers keeps after the first n fragments.
MergedSoFar(so, n) ==
  /\ IsFiniteSet(DOMAIN so.doc) /\ so.collisions \in Nat
  /\ Gathered(so.doc)
  /\ so.collisions = 0 => \A m \in 1..n : Says(so.doc, m)

\* One fragment more.
LEMMA MergeKeeps ==
  ASSUME NEW n \in 1..Len(Fragments), Len(Fragments) \in Nat, NEW so, MergedSoFar(so, n - 1),
         Fragments[n] # Missing => IsDocument(Fragments[n])
  PROVE  MergedSoFar(MergeFragment(so, Fragments[n]), n)
<1>1. \A m \in 1..n : m \in 1..(n - 1) \/ m = n
  OBVIOUS
<1>2. CASE Fragments[n] = Missing
  <2>1. MergeFragment(so, Fragments[n]) = so
    BY <1>2 DEF MergeFragment
  <2>2. Says(so.doc, n)
    BY <1>2 DEF Says
  <2> QED
    BY <1>1, <2>1, <2>2 DEF MergedSoFar
<1>3. CASE Fragments[n] # Missing
  <2> DEFINE doc == so.doc
             fragment == Fragments[n]
             clash == Collisions(doc, fragment)
             is == MergeFragment(so, fragment)
             more == Merged(doc, fragment)
  <2>1. is.doc = more /\ is.collisions = so.collisions + Cardinality(clash)
    BY <1>3 DEF MergeFragment
  <2>2. /\ DOMAIN more = DOMAIN doc \cup Added(doc, fragment)
        /\ \A p \in DOMAIN doc : more[p] = doc[p]
        /\ \A p \in Added(doc, fragment) : p \notin DOMAIN doc => more[p] = fragment[p]
    BY DEF Merged
  <2>3. Added(doc, fragment) \subseteq DOMAIN fragment
    BY DEF Added
  <2>4. IsFiniteSet(DOMAIN doc) /\ so.collisions \in Nat /\ IsFiniteSet(DOMAIN fragment)
    BY <1>3 DEF MergedSoFar, IsDocument
  <2>5. IsFiniteSet(clash) /\ Cardinality(clash) \in Nat /\ (Cardinality(clash) = 0 => clash = {})
    <3>1. clash \in SUBSET DOMAIN doc
      BY DEF Collisions
    <3> HIDE DEF clash
    <3>2. IsFiniteSet(clash)
      BY <2>4, <3>1, FS_Subset
    <3>3. Cardinality(clash) \in Nat
      BY <3>2, FS_CardinalityType
    <3>4. Cardinality(clash) = 0 => clash = {}
      BY <3>2, FS_EmptySet
    <3> QED
      BY <3>2, <3>3, <3>4
  <2> HIDE DEF is, more
  <2>6. IsFiniteSet(DOMAIN is.doc)
    <3>1. Added(doc, fragment) \in SUBSET DOMAIN fragment
      BY <2>3
    <3> DEFINE added == Added(doc, fragment)
    <3> HIDE DEF added
    <3>2. IsFiniteSet(added)
      BY <2>4, <3>1, FS_Subset DEF added
    <3>3. IsFiniteSet(DOMAIN doc \cup added)
      BY <2>4, <3>2, FS_Union
    <3> QED
      BY <2>1, <2>2, <3>3 DEF added
  <2>7. is.collisions \in Nat
    BY <2>1, <2>4, <2>5
  <2>8. Gathered(is.doc)
    <3> SUFFICES ASSUME NEW p \in DOMAIN is.doc
                 PROVE  \E m \in 1..Len(Fragments) : Fragments[m] # Missing /\ p \in DOMAIN Fragments[m]
      BY DEF Gathered
    <3>1. CASE p \in DOMAIN doc
      BY <3>1 DEF MergedSoFar, Gathered
    <3>2. CASE p \in Added(doc, fragment)
      BY <1>3, <2>3, <3>2
    <3> QED
      BY <2>1, <2>2, <3>1, <3>2
  <2>9. ASSUME is.collisions = 0, NEW m \in 1..n PROVE Says(is.doc, m)
    <3>1. so.collisions = 0 /\ clash = {}
      BY <2>1, <2>4, <2>5, <2>9
    <3>2. CASE m \in 1..(n - 1)
      <4>1. Says(doc, m)
        BY <3>1, <3>2 DEF MergedSoFar
      <4> QED
        BY <2>1, <2>2, <4>1 DEF Says
    <3>3. CASE m = n
      <4> SUFFICES ASSUME NEW p \in DOMAIN fragment PROVE p \in DOMAIN more /\ more[p] = fragment[p]
        BY <2>1, <3>3 DEF Says
      <4>1. CASE p \in DOMAIN doc
        <5>1. doc[p] = fragment[p]
          BY <3>1, <4>1 DEF Collisions
        <5> QED
          BY <2>2, <4>1, <5>1
      <4>2. CASE p \notin DOMAIN doc
        <5>1. p \in Added(doc, fragment)
          BY <3>1, <4>2 DEF Added
        <5> QED
          BY <2>2, <4>2, <5>1
      <4> QED
        BY <4>1, <4>2
    <3> QED
      BY <1>1, <3>2, <3>3
  <2> QED
    BY <2>6, <2>7, <2>8, <2>9 DEF MergedSoFar, is
<1> QED
  BY <1>2, <1>3

\* All fragments.
LEMMA MergedIs ==
  ASSUME MigrateTypeOK, ForeignFollows
  PROVE  MergedSoFar(MergedAll, Len(Fragments))
<1>1. Len(Fragments) \in Nat /\ \A n \in 1..Len(Fragments) : Fragments[n] # Missing => IsDocument(Fragments[n])
  BY FragmentIsWell, ListFacts
<1>2. PICK so : /\ so[0] = [doc |-> [p \in {} |-> Table], collisions |-> 0]
                /\ \A n \in 1..Len(Fragments) : so[n] = MergeFragment(so[n - 1], Fragments[n])
                /\ MergedAll = so[Len(Fragments)]
  BY <1>1, MergeRuns
<1> DEFINE S == {n \in 0..Len(Fragments) : MergedSoFar(so[n], n)}
<1>3. 0 \in S
  <2> DEFINE none == [p \in {} |-> Table]
  <2>1. DOMAIN none = {}
    OBVIOUS
  <2>2. IsFiniteSet(DOMAIN none)
    BY <2>1, FS_EmptySet
  <2> HIDE DEF none
  <2>3. so[0].doc = none /\ so[0].collisions = 0
    BY <1>2 DEF none
  <2>4. Gathered(none)
    BY <2>1 DEF Gathered
  <2>5. MergedSoFar(so[0], 0)
    BY <2>2, <2>3, <2>4 DEF MergedSoFar
  <2> QED
    BY <1>1, <2>5
<1>4. ASSUME NEW n \in 1..Len(Fragments), n - 1 \in S PROVE n \in S
  <2>1. MergedSoFar(so[n - 1], n - 1) /\ n \in 0..Len(Fragments)
    BY <1>1, <1>4
  <2>2. MergedSoFar(MergeFragment(so[n - 1], Fragments[n]), n)
    BY <1>1, <2>1, MergeKeeps
  <2> QED
    BY <1>2, <2>1, <2>2
<1>5. Len(Fragments) \in S
  <2> HIDE DEF S
  <2> QED
    BY <1>1, <1>3, <1>4, EveryTurn
<1> QED
  BY <1>2, <1>5

-----------------------------------------------------------------------------
(* What core writes.                                                       *)

\* A key below a path of two.
LEMMA PathOfTwo ==
  ASSUME NEW a, NEW b, NEW c
  PROVE  Append(<<a, b>>, c) = <<a, b, c>>
<1> DEFINE S == {a, b, c}
           two == <<a, b>>
           three == <<a, b, c>>
           more == Append(two, c)
<1>1. two \in Seq(S) /\ Len(two) = 2 /\ two[1] = a /\ two[2] = b
  OBVIOUS
<1>2. three \in Seq(S) /\ Len(three) = 3 /\ three[1] = a /\ three[2] = b /\ three[3] = c
  OBVIOUS
<1>3. c \in S
  OBVIOUS
<1> HIDE DEF S, two, three
<1>4. more \in Seq(S) /\ Len(more) = 3
  <2>1. more \in Seq(S)
    BY <1>1, <1>3, AppendProperties
  <2>2. Len(more) = Len(two) + 1
    BY <1>1, <1>3, AppendProperties
  <2> HIDE DEF more
  <2> QED
    BY <1>1, <2>1, <2>2
<1>5. \A i \in 1..Len(two) : more[i] = two[i]
  <2>1. IsList(two)
    BY <1>1, SeqIsList
  <2> QED
    BY <2>1, AppendIsList
<1>6. more[Len(two) + 1] = c
  BY <1>1, <1>3, AppendProperties
<1> HIDE DEF more
<1>7. more[1] = a /\ more[2] = b /\ more[3] = c
  BY <1>1, <1>5, <1>6
<1>8. \A i \in 1..3 : more[i] = three[i]
  <2>1. \A i \in 1..3 : i = 1 \/ i = 2 \/ i = 3
    OBVIOUS
  <2> QED
    BY <1>2, <1>7, <2>1
<1>9. more = three
  BY <1>2, <1>4, <1>8, SeqEqual
<1> QED
  BY <1>9 DEF more, two, three

\* The path of two above a path of three.
LEMMA FirstTwoOfPath ==
  ASSUME NEW a, NEW b, NEW c
  PROVE  SubSeq(<<a, b, c>>, 1, 2) = <<a, b>>
<1> DEFINE S == {a, b, c}
           two == <<a, b>>
           three == <<a, b, c>>
           cut == SubSeq(three, 1, 2)
<1>1. two \in Seq(S) /\ Len(two) = 2 /\ two[1] = a /\ two[2] = b
  OBVIOUS
<1>2. three \in Seq(S) /\ Len(three) = 3 /\ three[1] = a /\ three[2] = b /\ three[3] = c
  OBVIOUS
<1> HIDE DEF S, two, three
<1>3. \A i \in 1..2 : three[i] \in S
  <2>1. \A i \in 1..2 : i \in 1..Len(three)
    BY <1>2
  <2> QED
    BY <1>2, <2>1, ElementOfSeq
<1>4. /\ cut \in Seq(S) /\ Len(cut) = IF 1 <= 2 THEN 2 - 1 + 1 ELSE 0
      /\ \A i \in 1..2 - 1 + 1 : cut[i] = three[1 + i - 1]
  BY <1>3, SubSeqProperties
<1> HIDE DEF cut
<1>5. Len(cut) = 2 /\ cut[1] = three[1] /\ cut[2] = three[2]
  BY <1>4
<1>6. \A i \in 1..2 : cut[i] = two[i]
  <2>1. \A i \in 1..2 : i = 1 \/ i = 2
    OBVIOUS
  <2> QED
    BY <1>1, <1>2, <1>5, <2>1
<1>7. cut = two
  BY <1>1, <1>4, <1>5, <1>6, SeqEqual
<1> QED
  BY <1>7 DEF cut, two, three

\* Where the keys of the nth instance stand.
DirOf(n) == <<"toolchains", kept[n].instance, "dir">>
ToolchainOf(n) == <<"toolchains", kept[n].instance, "toolchain">>

\* The keys of the nth instance are core's; nobody has set them.
KeysAre(doc, n) ==
  /\ At(doc, DirOf(n)) = (IF kept[n].dir = <<>> THEN Nothing ELSE kept[n].dir)
  /\ At(doc, ToolchainOf(n)) \in {Nothing, <<kept[n].toolchain>>}
KeysFree(doc, n) == DirOf(n) \notin DOMAIN doc /\ ToolchainOf(n) \notin DOMAIN doc

\* Setting an instance writes its own two keys and the tables above them.
LEMMA SetInstanceIs ==
  ASSUME NEW doc, NEW n \in 1..Len(kept)
  PROVE  LET is == SetInstance(doc, kept[n])
             home == <<"toolchains", kept[n].instance>>
         IN /\ \A p : p \in DOMAIN is => \/ p \in DOMAIN doc \/ p = <<"toolchains">> \/ p = home
                                         \/ p = DirOf(n) \/ p = ToolchainOf(n)
            /\ DOMAIN doc \subseteq DOMAIN is
            /\ \A p \in DOMAIN is : p \notin {<<"toolchains">>, home, DirOf(n), ToolchainOf(n)} => is[p] = doc[p]
            /\ is[<<"toolchains">>] = Table /\ is[home] = Table
            /\ KeysFree(doc, n) => KeysAre(is, n)
<1> DEFINE is == SetInstance(doc, kept[n])
           home == <<"toolchains", kept[n].instance>>
           keys == InstanceKeys(kept[n])
           based == Set(Set(doc, <<"toolchains">>, Table), home, Table)
           set == {Append(home, k) : k \in DOMAIN keys}
<1>1. /\ Append(home, "dir") = DirOf(n) /\ Append(home, "toolchain") = ToolchainOf(n)
      /\ DirOf(n) # ToolchainOf(n) /\ home # <<"toolchains">>
      /\ DirOf(n) # home /\ ToolchainOf(n) # home
      /\ DirOf(n) # <<"toolchains">> /\ ToolchainOf(n) # <<"toolchains">>
      /\ DirOf(n)[3] = "dir" /\ ToolchainOf(n)[3] = "toolchain"
  <2>1. Append(home, "dir") = DirOf(n) /\ Append(home, "toolchain") = ToolchainOf(n)
    <3>1. \A a, b, c : Append(<<a, b>>, c) = <<a, b, c>>
      BY PathOfTwo
    <3> QED
      BY ONLY <3>1 DEF DirOf, ToolchainOf
  <2>2. DirOf(n)[3] = "dir" /\ ToolchainOf(n)[3] = "toolchain"
    BY DEF DirOf, ToolchainOf
  <2>3. DirOf(n) # ToolchainOf(n)
    BY <2>2
  <2>4. home # <<"toolchains">> /\ DirOf(n) # home /\ DirOf(n) # <<"toolchains">>
        /\ ToolchainOf(n) # home /\ ToolchainOf(n) # <<"toolchains">>
    BY DEF DirOf, ToolchainOf
  <2> QED
    BY <2>1, <2>2, <2>3, <2>4
<1>2. /\ DOMAIN keys \subseteq {"dir", "toolchain"}
      /\ "dir" \in DOMAIN keys <=> kept[n].dir # <<>>
      /\ "dir" \in DOMAIN keys => keys["dir"] = kept[n].dir
      /\ "toolchain" \in DOMAIN keys => keys["toolchain"] = <<kept[n].toolchain>>
  BY DEF InstanceKeys
<1>3. /\ DOMAIN based = DOMAIN doc \cup {<<"toolchains">>, home}
      /\ based[<<"toolchains">>] = Table /\ based[home] = Table
      /\ \A p \in DOMAIN doc : p \notin {<<"toolchains">>, home} => based[p] = doc[p]
  BY <1>1 DEF Set
<1> HIDE DEF keys, based
<1>4. /\ set \subseteq {DirOf(n), ToolchainOf(n)}
      /\ DirOf(n) \in set <=> "dir" \in DOMAIN keys
      /\ ToolchainOf(n) \in set <=> "toolchain" \in DOMAIN keys
  <2> HIDE DEF home
  <2>1. \A k \in DOMAIN keys : k = "dir" \/ k = "toolchain"
    BY <1>2
  <2> QED
    BY <1>1, <2>1
<1>5. /\ DOMAIN is = DOMAIN based \cup set
      /\ \A p \in set : is[p] = keys[p[3]]
      /\ \A p \in DOMAIN based : p \notin set => is[p] = based[p]
  <2>1. is = [p \in DOMAIN based \cup set |->
                IF \E k \in DOMAIN keys : p = Append(home, k) THEN keys[p[3]] ELSE based[p]]
    BY DEF SetInstance, keys, based
  <2>2. \A p : p \in set <=> \E k \in DOMAIN keys : p = Append(home, k)
    OBVIOUS
  <2> HIDE DEF is, set, home
  <2> QED
    BY <2>1, <2>2
<1> HIDE DEF is, set, home
<1>6. \A p : p \in DOMAIN is => \/ p \in DOMAIN doc \/ p = <<"toolchains">> \/ p = home
                                \/ p = DirOf(n) \/ p = ToolchainOf(n)
  BY <1>3, <1>4, <1>5
<1>7. DOMAIN doc \subseteq DOMAIN is
  BY <1>3, <1>5
<1>8. \A p \in DOMAIN is : p \notin {<<"toolchains">>, home, DirOf(n), ToolchainOf(n)} => is[p] = doc[p]
  BY <1>3, <1>4, <1>5
<1>9. is[<<"toolchains">>] = Table /\ is[home] = Table
  BY <1>1, <1>3, <1>4, <1>5
<1>10. ASSUME KeysFree(doc, n) PROVE KeysAre(is, n)
  <2>1. DirOf(n) \notin DOMAIN based /\ ToolchainOf(n) \notin DOMAIN based
    BY <1>1, <1>3, <1>10 DEF KeysFree
  <2>2. At(is, DirOf(n)) = (IF kept[n].dir = <<>> THEN Nothing ELSE kept[n].dir)
    <3>1. CASE kept[n].dir = <<>>
      BY <1>2, <1>4, <1>5, <2>1, <3>1 DEF At
    <3>2. CASE kept[n].dir # <<>>
      BY <1>1, <1>2, <1>4, <1>5, <2>1, <3>2 DEF At
    <3> QED
      BY <3>1, <3>2
  <2>3. At(is, ToolchainOf(n)) \in {Nothing, <<kept[n].toolchain>>}
    <3>1. CASE ToolchainOf(n) \in set
      BY <1>1, <1>2, <1>4, <1>5, <3>1 DEF At
    <3>2. CASE ToolchainOf(n) \notin set
      BY <1>5, <2>1, <3>2 DEF At
    <3> QED
      BY <3>1, <3>2
  <2> QED
    BY <2>2, <2>3 DEF KeysAre
<1> QED
  BY <1>6, <1>7, <1>8, <1>9, <1>10 DEF is, home

(* No fragment speaks of the plugins or of an instance's own keys. *)
LEMMA FragmentPaths ==
  ASSUME MigrateTypeOK, ForeignFollows,
         NEW n \in 1..Len(Fragments), Fragments[n] # Missing, NEW p \in DOMAIN Fragments[n]
  PROVE  /\ IsList(p) /\ p[1] # "plugins" /\ Fragments[n][p] # Nothing
         /\ \A k \in 1..Len(kept) : p # DirOf(k) /\ p # ToolchainOf(k)
<1>1. IsDocument(Fragments[n]) /\ <<"plugins">> \notin DOMAIN Fragments[n]
  BY FragmentIsWell
<1>2. p \in Seq(STRING) \ {<<>>} /\ Fragments[n][p] # Nothing
      /\ \A i \in 1..Len(p) : SubSeq(p, 1, i) \in DOMAIN Fragments[n]
  BY <1>1 DEF IsDocument
<1>3. Len(p) \in Nat /\ Len(p) >= 1
  BY <1>2, LenProperties, EmptySeq
<1>4. SubSeq(p, 1, 1) = <<p[1]>>
  <2> DEFINE cut == SubSeq(p, 1, 1)
             one == <<p[1]>>
  <2>1. p[1] \in STRING
    BY <1>2, <1>3, ElementOfSeq
  <2>2. one \in Seq(STRING) /\ Len(one) = 1 /\ one[1] = p[1]
    BY <2>1
  <2>3. \A i \in 1..1 : p[i] \in STRING
    BY <2>1
  <2>4. /\ cut \in Seq(STRING) /\ Len(cut) = IF 1 <= 1 THEN 1 - 1 + 1 ELSE 0
        /\ \A i \in 1..1 - 1 + 1 : cut[i] = p[1 + i - 1]
    BY <2>3, SubSeqProperties
  <2> HIDE DEF cut, one
  <2>5. Len(cut) = 1 /\ cut[1] = p[1]
    BY <2>4
  <2>6. \A i \in 1..1 : cut[i] = one[i]
    BY <2>2, <2>5
  <2>7. cut = one
    BY <2>2, <2>4, <2>5, <2>6, SeqEqual
  <2> QED
    BY <2>7 DEF cut, one
<1>5. <<p[1]>> \in DOMAIN Fragments[n]
  <2>1. 1 \in 1..Len(p)
    BY <1>3
  <2>2. SubSeq(p, 1, 1) \in DOMAIN Fragments[n]
    BY <1>2, <2>1
  <2> QED
    BY <1>4, <2>2
<1>6. p[1] # "plugins"
  BY <1>1, <1>5
<1>7. \A k \in 1..Len(kept) : p # DirOf(k) /\ p # ToolchainOf(k)
  BY FragmentIsWell DEF DirOf, ToolchainOf
<1> QED
  BY <1>2, <1>6, <1>7, SeqIsList

\* What the loop over the kept instances keeps after the first n of them.
InstancesSoFar(doc, n) ==
  /\ \A m \in 1..Len(Fragments) : Says(doc, m)
  /\ \A k \in 1..Len(kept) : IF k <= n THEN KeysAre(doc, k) ELSE KeysFree(doc, k)

\* One instance more: what every fragment says stays said.
LEMMA InstanceKeeps ==
  ASSUME MigrateTypeOK, ForeignFollows, NEW n \in 1..Len(kept), Len(kept) \in Nat,
         NEW doc, InstancesSoFar(doc, n - 1), CanSetInstance(doc, kept[n])
  PROVE  InstancesSoFar(SetInstance(doc, kept[n]), n)
<1> DEFINE is == SetInstance(doc, kept[n])
           home == <<"toolchains", kept[n].instance>>
<1>1. /\ \A p : p \in DOMAIN is => \/ p \in DOMAIN doc \/ p = <<"toolchains">> \/ p = home
                                   \/ p = DirOf(n) \/ p = ToolchainOf(n)
      /\ DOMAIN doc \subseteq DOMAIN is
      /\ \A p \in DOMAIN is : p \notin {<<"toolchains">>, home, DirOf(n), ToolchainOf(n)} => is[p] = doc[p]
      /\ is[<<"toolchains">>] = Table /\ is[home] = Table
      /\ KeysFree(doc, n) => KeysAre(is, n)
  BY SetInstanceIs
<1> HIDE DEF is
<1>2. \A p \in {<<"toolchains">>, home} : p \in DOMAIN doc => doc[p] \in {Nothing, Table}
  BY DEF CanSetInstance, CanHold, At
<1>3. KeysAre(is, n)
  <2>1. KeysFree(doc, n)
    BY DEF InstancesSoFar
  <2> QED
    BY <1>1, <2>1
<1>4. ASSUME NEW m \in 1..Len(Fragments) PROVE Says(is, m)
  <2> SUFFICES ASSUME Fragments[m] # Missing, NEW p \in DOMAIN Fragments[m]
               PROVE  p \in DOMAIN is /\ is[p] = Fragments[m][p]
    BY DEF Says
  <2>1. p \in DOMAIN doc /\ doc[p] = Fragments[m][p]
    BY DEF InstancesSoFar, Says
  <2>2. Fragments[m][p] # Nothing /\ p # DirOf(n) /\ p # ToolchainOf(n)
    BY FragmentPaths
  <2>3. CASE p \in {<<"toolchains">>, home}
    <3>1. is[p] = Table /\ doc[p] \in {Nothing, Table}
      BY <1>1, <1>2, <2>1, <2>3
    <3> QED
      BY <1>1, <2>1, <2>2, <3>1
  <2>4. CASE p \notin {<<"toolchains">>, home}
    BY <1>1, <2>1, <2>2, <2>4
  <2> QED
    BY <2>3, <2>4
<1>5. ASSUME NEW k \in 1..Len(kept), k # n
      PROVE  /\ KeysFree(doc, k) => KeysFree(is, k)
             /\ KeysAre(doc, k) => KeysAre(is, k)
  <2>1. kept[k].instance # kept[n].instance
    BY <1>5 DEF MigrateTypeOK
  <2>2. \A p \in {DirOf(k), ToolchainOf(k)} : p \notin {<<"toolchains">>, home, DirOf(n), ToolchainOf(n)}
    <3>1. \A p \in {DirOf(k), ToolchainOf(k)} : p # <<"toolchains">> /\ p # home
      BY DEF DirOf, ToolchainOf
    <3>2. \A p \in {DirOf(k), ToolchainOf(k)} : p[2] = kept[k].instance
      BY DEF DirOf, ToolchainOf
    <3>3. \A p \in {DirOf(n), ToolchainOf(n)} : p[2] = kept[n].instance
      BY DEF DirOf, ToolchainOf
    <3> QED
      BY <2>1, <3>1, <3>2, <3>3
  <2>3. \A p \in {DirOf(k), ToolchainOf(k)} :
          (p \in DOMAIN is <=> p \in DOMAIN doc) /\ (p \in DOMAIN is => is[p] = doc[p])
    BY <1>1, <2>2
  <2>4. \A p \in {DirOf(k), ToolchainOf(k)} : At(is, p) = At(doc, p)
    BY <2>3 DEF At
  <2> QED
    BY <2>3, <2>4 DEF KeysFree, KeysAre
<1>6. ASSUME NEW k \in 1..Len(kept) PROVE IF k <= n THEN KeysAre(is, k) ELSE KeysFree(is, k)
  <2>1. CASE k = n
    BY <1>3, <2>1
  <2>2. CASE k # n
    <3>1. IF k <= n - 1 THEN KeysAre(doc, k) ELSE KeysFree(doc, k)
      BY DEF InstancesSoFar
    <3>2. k <= n - 1 <=> k <= n
      BY <2>2
    <3> QED
      BY <1>5, <2>2, <3>1, <3>2
  <2> QED
    BY <2>1, <2>2
<1> QED
  BY <1>4, <1>6 DEF InstancesSoFar, is

\* The pin of a plugin is the catalog's.
PinOf(i) == <<"plugins", plugins[i].id, "sha256">>
PinIs(doc, i) == PinOf(i) \in DOMAIN doc /\ doc[PinOf(i)] = <<plugins[i].asset>>

\* Adding a plugin sets its pin and touches nothing outside of the plugins.
LEMMA AddPluginIs ==
  ASSUME NEW doc, NEW i
  PROVE  LET is == AddPlugin(doc, plugins[i])
         IN /\ PinIs(is, i)
            /\ \A p : IsList(p) /\ p[1] # "plugins" => (p \in DOMAIN is <=> p \in DOMAIN doc) /\ (p \in DOMAIN is => is[p] = doc[p])
            /\ \A j : plugins[j].id # plugins[i].id /\ PinIs(doc, j) => PinIs(is, j)
<1> DEFINE is == AddPlugin(doc, plugins[i])
           home == <<"plugins", plugins[i].id>>
           without == Without(doc, home)
           bare == Set(Set(without, <<"plugins">>, Table), home, Table)
<1>1. is = Set(bare, PinOf(i), <<plugins[i].asset>>)
  <2>1. Append(home, "sha256") = PinOf(i)
    <3>1. \A a, b, c : Append(<<a, b>>, c) = <<a, b, c>>
      BY PathOfTwo
    <3> QED
      BY ONLY <3>1 DEF PinOf
  <2> QED
    BY <2>1 DEF AddPlugin
<1>2. /\ PinOf(i) \in DOMAIN is /\ is[PinOf(i)] = <<plugins[i].asset>>
      /\ DOMAIN is = DOMAIN bare \cup {PinOf(i)}
      /\ \A p \in DOMAIN bare : p # PinOf(i) => is[p] = bare[p]
  BY <1>1 DEF Set
<1>3. /\ DOMAIN bare = DOMAIN without \cup {<<"plugins">>, home}
      /\ \A p \in DOMAIN without : p # home /\ p # <<"plugins">> => bare[p] = without[p]
  BY DEF Set
<1>4. /\ DOMAIN without = {p \in DOMAIN doc : p # home /\ ~Over(home, p)}
      /\ \A p \in DOMAIN without : without[p] = doc[p]
  BY DEF Without, Restrict
<1> HIDE DEF is, bare, without
<1>5. ASSUME NEW p, p \notin {<<"plugins">>, home, PinOf(i)}, ~Over(home, p)
      PROVE  (p \in DOMAIN is <=> p \in DOMAIN doc) /\ (p \in DOMAIN is => is[p] = doc[p])
  BY <1>2, <1>3, <1>4, <1>5
<1>6. ASSUME NEW p, IsList(p), p[1] # "plugins"
      PROVE  (p \in DOMAIN is <=> p \in DOMAIN doc) /\ (p \in DOMAIN is => is[p] = doc[p])
  <2>1. p \notin {<<"plugins">>, home, PinOf(i)}
    BY <1>6 DEF PinOf
  <2>2. ASSUME Over(home, p) PROVE FALSE
    <3> DEFINE S == {p[k] : k \in 1..Len(p)}
               cut == SubSeq(p, 1, 2)
    <3>1. Len(p) \in Nat /\ Len(home) = 2 /\ home[1] = "plugins"
      BY <1>6, ListFacts
    <3>2. 2 < Len(p) /\ cut = home
      BY <2>2, <3>1 DEF Over
    <3>3. \A k \in 1..2 : p[k] \in S
      BY <3>1, <3>2
    <3> HIDE DEF S, home
    <3>4. \A k \in 1..2 - 1 + 1 : cut[k] = p[1 + k - 1]
      BY <3>3, SubSeqProperties
    <3> HIDE DEF cut
    <3>5. cut[1] = p[1]
      BY <3>4
    <3> QED
      BY <1>6, <3>1, <3>2, <3>5
  <2> QED
    BY <1>5, <2>1, <2>2
<1>7. ASSUME NEW j, plugins[j].id # plugins[i].id, PinIs(doc, j) PROVE PinIs(is, j)
  <2>1. PinOf(j) \notin {<<"plugins">>, home, PinOf(i)}
    <3>1. PinOf(j)[2] = plugins[j].id /\ PinOf(i)[2] = plugins[i].id
      BY DEF PinOf
    <3>2. PinOf(j) # <<"plugins">> /\ PinOf(j) # home
      BY DEF PinOf
    <3> QED
      BY <1>7, <3>1, <3>2
  <2>2. ASSUME Over(home, PinOf(j)) PROVE FALSE
    <3>1. Len(home) = 2 /\ home[2] = plugins[i].id
      OBVIOUS
    <3>2. SubSeq(PinOf(j), 1, 2) = <<"plugins", plugins[j].id>>
      BY FirstTwoOfPath DEF PinOf
    <3>3. SubSeq(PinOf(j), 1, 2) = home
      BY <2>2, <3>1 DEF Over
    <3>4. <<"plugins", plugins[j].id>>[2] = plugins[j].id
      OBVIOUS
    <3> HIDE DEF home
    <3> QED
      BY <1>7, <3>1, <3>2, <3>3, <3>4
  <2> QED
    BY <1>5, <1>7, <2>1, <2>2 DEF PinIs
<1> QED
  BY <1>2, <1>6, <1>7 DEF is, PinIs

\* Where the keys of an instance stand is not among the plugins.
LEMMA KeyPathsAreLists ==
  ASSUME NEW k
  PROVE  /\ IsList(DirOf(k)) /\ DirOf(k)[1] = "toolchains"
         /\ IsList(ToolchainOf(k)) /\ ToolchainOf(k)[1] = "toolchains"
<1> DEFINE x == kept[k].instance
           S == {"toolchains", x, "dir"}
           T == {"toolchains", x, "toolchain"}
<1>1. <<"toolchains", x, "dir">> \in Seq(S) /\ <<"toolchains", x, "toolchain">> \in Seq(T)
  OBVIOUS
<1>2. IsList(<<"toolchains", x, "dir">>) /\ IsList(<<"toolchains", x, "toolchain">>)
  BY <1>1, SeqIsList
<1> QED
  BY <1>2 DEF DirOf, ToolchainOf

\* What is said outside of the plugins stays said.
LEMMA SaidStays ==
  ASSUME MigrateTypeOK, ForeignFollows, NEW doc, NEW is,
         \A p : IsList(p) /\ p[1] # "plugins" => /\ p \in DOMAIN doc => p \in DOMAIN is /\ is[p] = doc[p]
                                                 /\ p \in DOMAIN is /\ p[1] = "toolchains" => p \in DOMAIN doc
  PROVE  /\ \A m \in 1..Len(Fragments) : Says(doc, m) => Says(is, m)
         /\ \A k \in 1..Len(kept) : KeysAre(doc, k) => KeysAre(is, k)
<1>1. ASSUME NEW m \in 1..Len(Fragments), Says(doc, m) PROVE Says(is, m)
  <2> SUFFICES ASSUME Fragments[m] # Missing, NEW p \in DOMAIN Fragments[m]
               PROVE  p \in DOMAIN is /\ is[p] = Fragments[m][p]
    BY DEF Says
  <2>1. p \in DOMAIN doc /\ doc[p] = Fragments[m][p]
    BY <1>1 DEF Says
  <2>2. IsList(p) /\ p[1] # "plugins"
    BY FragmentPaths
  <2> QED
    BY <2>1, <2>2
<1>2. ASSUME NEW k \in 1..Len(kept), KeysAre(doc, k) PROVE KeysAre(is, k)
  <2>1. \A p \in {DirOf(k), ToolchainOf(k)} : IsList(p) /\ p[1] = "toolchains"
    BY KeyPathsAreLists
  <2>2. \A p \in {DirOf(k), ToolchainOf(k)} : At(is, p) = At(doc, p)
    BY <2>1 DEF At
  <2> QED
    BY <1>2, <2>2 DEF KeysAre
<1> QED
  BY <1>1, <1>2

\* All instances are set, and every fragment is still heard.
LEMMA InstancesAreSet ==
  ASSUME MigrateTypeOK, ForeignFollows, NEW doc, Gathered(doc), \A m \in 1..Len(Fragments) : Says(doc, m),
         CanSetInstances(doc)
  PROVE  InstancesSoFar(InstancesSet(doc)[Len(kept)], Len(kept))
<1>1. Len(kept) \in Nat
  BY ListSizes
<1>2. PICK so : /\ so[0] = doc
                /\ \A n \in 1..Len(kept) : so[n] = SetInstance(so[n - 1], kept[n])
                /\ InstancesSet(doc) = so
  BY <1>1, InstanceRuns
<1> DEFINE S == {n \in 0..Len(kept) : InstancesSoFar(so[n], n)}
<1>3. 0 \in S
  <2>1. ASSUME NEW k \in 1..Len(kept) PROVE KeysFree(doc, k)
    <3>1. ASSUME NEW p \in {DirOf(k), ToolchainOf(k)}, p \in DOMAIN doc PROVE FALSE
      <4>1. PICK n \in 1..Len(Fragments) : Fragments[n] # Missing /\ p \in DOMAIN Fragments[n]
        BY <3>1 DEF Gathered
      <4> QED
        BY <3>1, <4>1, FragmentPaths
    <3> QED
      BY <3>1 DEF KeysFree
  <2>2. \A k \in 1..Len(kept) : ~(k <= 0)
    OBVIOUS
  <2>3. InstancesSoFar(so[0], 0)
    BY <1>2, <2>1, <2>2 DEF InstancesSoFar
  <2> QED
    BY <1>1, <2>3
<1>4. ASSUME NEW n \in 1..Len(kept), n - 1 \in S PROVE n \in S
  <2>1. InstancesSoFar(so[n - 1], n - 1) /\ n \in 0..Len(kept)
    BY <1>1, <1>4
  <2>2. CanSetInstance(so[n - 1], kept[n])
    BY <1>2 DEF CanSetInstances
  <2>3. InstancesSoFar(SetInstance(so[n - 1], kept[n]), n)
    BY <1>1, <2>1, <2>2, InstanceKeeps
  <2> QED
    BY <1>2, <2>1, <2>3
<1>5. Len(kept) \in S
  <2> HIDE DEF S
  <2> QED
    BY <1>1, <1>3, <1>4, EveryTurn
<1> QED
  BY <1>2, <1>5

\* What the loop over the considered plugins keeps after the first n of them.
PinnedSoFar(doc, n) ==
  /\ \A m \in 1..Len(Fragments) : Says(doc, m)
  /\ \A k \in 1..Len(kept) : KeysAre(doc, k)
  /\ \A i \in 1..n : PinIs(doc, considered[i])

\* One plugin more.
LEMMA PluginKeeps ==
  ASSUME MigrateTypeOK, ForeignFollows, NEW n \in 1..Len(considered), Len(considered) \in Nat,
         Pinned(considered[n]), NEW doc, PinnedSoFar(doc, n - 1)
  PROVE  PinnedSoFar(AddPinned(doc, considered[n]), n)
<1> DEFINE is == AddPlugin(doc, plugins[considered[n]])
<1>1. AddPinned(doc, considered[n]) = is
  BY DEF AddPinned
<1>2. /\ PinIs(is, considered[n])
      /\ \A p : IsList(p) /\ p[1] # "plugins" =>
           (p \in DOMAIN is <=> p \in DOMAIN doc) /\ (p \in DOMAIN is => is[p] = doc[p])
      /\ \A j : plugins[j].id # plugins[considered[n]].id /\ PinIs(doc, j) => PinIs(is, j)
  BY AddPluginIs
<1> HIDE DEF is
<1>3. /\ \A m \in 1..Len(Fragments) : Says(doc, m) => Says(is, m)
      /\ \A k \in 1..Len(kept) : KeysAre(doc, k) => KeysAre(is, k)
  BY <1>2, SaidStays
<1>4. ASSUME NEW i \in 1..n PROVE PinIs(is, considered[i])
  <2>1. CASE i = n
    BY <1>2, <2>1
  <2>2. CASE i # n
    <3>1. i \in 1..(n - 1) /\ i \in 1..Len(considered)
      BY <2>2
    <3>2. plugins[considered[i]].id # plugins[considered[n]].id
      BY <2>2, <3>1 DEF MigrateTypeOK
    <3>3. PinIs(doc, considered[i])
      BY <3>1 DEF PinnedSoFar
    <3> QED
      BY <1>2, <3>2, <3>3
  <2> QED
    BY <2>1, <2>2
<1> QED
  BY <1>1, <1>3, <1>4 DEF PinnedSoFar

\* All plugins are pinned.
LEMMA PluginsAreAdded ==
  ASSUME MigrateTypeOK, ForeignFollows, NEW doc, PinnedSoFar(doc, 0),
         \A n \in 1..Len(considered) : Pinned(considered[n])
  PROVE  PinnedSoFar(WithPlugins(doc), Len(considered))
<1>1. Len(considered) \in Nat
  BY ListSizes
<1>2. PICK so : /\ so[0] = doc
                /\ \A n \in 1..Len(considered) : so[n] = AddPinned(so[n - 1], considered[n])
                /\ WithPlugins(doc) = so[Len(considered)]
  BY <1>1, PluginRuns
<1> DEFINE S == {n \in 0..Len(considered) : PinnedSoFar(so[n], n)}
<1>3. 0 \in S
  BY <1>1, <1>2
<1>4. ASSUME NEW n \in 1..Len(considered), n - 1 \in S PROVE n \in S
  <2>1. PinnedSoFar(so[n - 1], n - 1) /\ n \in 0..Len(considered)
    BY <1>1, <1>4
  <2>2. PinnedSoFar(AddPinned(so[n - 1], considered[n]), n)
    BY <1>1, <2>1, PluginKeeps
  <2> QED
    BY <1>2, <2>1, <2>2
<1>5. Len(considered) \in S
  <2> HIDE DEF S
  <2> QED
    BY <1>1, <1>3, <1>4, EveryTurn
<1> QED
  BY <1>2, <1>5

(* The document that is assembled when nothing collides. *)
LEMMA AssembledIs ==
  ASSUME MigrateTypeOK, ForeignFollows, \A n \in 1..Len(considered) : Pinned(considered[n]),
         NEW doc, Gathered(doc), \A m \in 1..Len(Fragments) : Says(doc, m), CanSetInstances(doc)
  PROVE  PinnedSoFar(Assembled(doc), Len(considered))
<1> DEFINE set == InstancesSet(doc)[Len(kept)]
           filled == FillDefaults(set, ProjectName)
<1>1. Len(kept) \in Nat
  BY ListSizes
<1>2. InstancesSoFar(set, Len(kept))
  BY InstancesAreSet
<1> HIDE DEF set
<1>3. /\ \A m \in 1..Len(Fragments) : Says(set, m)
      /\ \A k \in 1..Len(kept) : KeysAre(set, k)
  <2>1. \A k \in 1..Len(kept) : k <= Len(kept)
    BY <1>1
  <2> QED
    BY <1>2, <2>1 DEF InstancesSoFar
<1>4. \A p : IsList(p) /\ p[1] # "plugins" =>
               /\ p \in DOMAIN set => p \in DOMAIN filled /\ filled[p] = set[p]
               /\ p \in DOMAIN filled /\ p[1] = "toolchains" => p \in DOMAIN set
  <2>1. /\ DOMAIN filled = DOMAIN set \cup DOMAIN Defaults(ProjectName)
        /\ \A p \in DOMAIN set : filled[p] = set[p]
    BY DEF FillDefaults
  <2>2. \A p \in DOMAIN Defaults(ProjectName) : p[1] # "toolchains"
    <3>1. DOMAIN Defaults(ProjectName) = {<<"schema">>, <<"project">>, <<"version">>, <<"modules">>}
      BY DEF Defaults
    <3>2. /\ <<"schema">>[1] = "schema" /\ <<"project">>[1] = "project"
          /\ <<"version">>[1] = "version" /\ <<"modules">>[1] = "modules"
      OBVIOUS
    <3> QED
      BY <3>1, <3>2
  <2> HIDE DEF filled
  <2> QED
    BY <2>1, <2>2
<1> HIDE DEF filled
<1>5. PinnedSoFar(filled, 0)
  <2>1. /\ \A m \in 1..Len(Fragments) : Says(filled, m)
        /\ \A k \in 1..Len(kept) : KeysAre(filled, k)
    BY <1>3, <1>4, SaidStays
  <2>2. \A i \in 1..0 : FALSE
    OBVIOUS
  <2> QED
    BY <2>1, <2>2 DEF PinnedSoFar
<1>6. Assembled(doc) = WithPlugins(filled)
  BY DEF Assembled, filled, set
<1> QED
  BY <1>5, <1>6, PluginsAreAdded
\* The manifest is assembled only when nothing collides.
LEMMA AssembleInv == ASSUME MigrateInv, Assemble PROVE MigrateInv'
<1>1. /\ MigrateTypeOK /\ ForeignFollows /\ BlockersFollow /\ DiskFollows /\ pc = "translators"
      /\ UNCHANGED <<disk, old, manifest, runs, plugins, detections, considered, kept, foreign>>
      /\ blockers' = blockers + MergedAll.collisions
  BY DEF MigrateInv, Assemble, DiskStays
<1>2. MergedSoFar(MergedAll, Len(Fragments))
  BY <1>1, MergedIs
<1> DEFINE doc == MergedAll.doc
<1>3. /\ Gathered(doc) /\ MergedAll.collisions \in Nat
      /\ MergedAll.collisions = 0 => \A m \in 1..Len(Fragments) : Says(doc, m)
  BY <1>2 DEF MergedSoFar
<1>4. blockers \in Nat /\ blockers' \in Nat /\ (blockers' = 0 => blockers = 0 /\ MergedAll.collisions = 0)
  BY <1>1, <1>3 DEF MigrateTypeOK
<1>5. /\ pc' \in {"idle", "old build"} /\ turn' = 1 /\ report'.outcome \in Outcomes
      /\ pc' = "old build" => blockers' = 0 /\ CanSetInstances(doc) /\ merged' = Assembled(doc)
  <2>1. CASE ~CanSetInstances(doc)
    <3>1. End("error")
      BY <2>1 DEF Assemble
    <3> QED
      BY <3>1 DEF End, Outcomes
  <2>2. CASE CanSetInstances(doc)
    <3>1. merged' = Assembled(doc) /\ IF blockers' > 0 THEN End("blocked") ELSE Goto("old build")
      BY <2>2 DEF Assemble
    <3>2. CASE blockers' > 0
      BY <3>1, <3>2 DEF End, Outcomes
    <3>3. CASE ~(blockers' > 0)
      <4>1. Goto("old build") /\ blockers' = 0
        <5>1. Goto("old build")
          BY <3>1, <3>3
        <5>2. blockers' \in Nat
          BY <1>4
        <5>3. blockers' = 0
          BY <3>3, <5>2
        <5> QED
          BY <5>1, <5>3
      <4>2. report.outcome \in Outcomes
        BY <1>1 DEF MigrateTypeOK
      <4> QED
        BY <2>2, <3>1, <4>1, <4>2 DEF Goto
    <3> QED
      BY <3>2, <3>3
  <2> QED
    BY <2>1, <2>2
<1> HIDE DEF doc
<1>6. MigrateTypeOK'
  <2>1. pc' \in Stages /\ turn' \in Nat \ {0}
    <3>1. 1 \in Nat \ {0}
      OBVIOUS
    <3>2. pc' = "idle" \/ pc' = "old build"
      BY <1>5
    <3>3. pc' \in Stages
      BY <3>2 DEF Stages
    <3> QED
      BY <1>5, <3>1, <3>3
  <2> QED
    BY <1>1, <1>4, <1>5, <2>1 DEF MigrateTypeOK
<1>7. ForeignFollows'
  BY <1>1, <1>5 DEF ForeignFollows, Instances
<1>8. BlockersFollow'
  BY <1>1, <1>4, <1>5 DEF BlockersFollow, Assembling, Pinned
<1>9. DiskFollows'
  BY <1>1, DiskKeeps
<1>10. /\ OwnedFollows' /\ ManifestFollows' /\ ProvedFollows'
  BY <1>5 DEF OwnedFollows, ManifestFollows, ProvedFollows, Changing, Assembling
<1>11. ManifestAgrees'
  <2>1. CASE pc' = "idle"
    BY <2>1 DEF ManifestAgrees
  <2>2. CASE pc' = "old build"
    <3>1. \A n \in 1..Len(considered) : Pinned(considered[n])
      BY <1>1, <1>4, <1>5, <2>2 DEF BlockersFollow
    <3>2. \A m \in 1..Len(Fragments) : Says(doc, m)
      BY <1>3, <1>4, <1>5, <2>2
    <3>3. PinnedSoFar(Assembled(doc), Len(considered))
      BY <1>1, <1>3, <1>5, <2>2, <3>1, <3>2, AssembledIs
    <3>4. PinnedSoFar(merged', Len(considered))
      BY <1>5, <2>2, <3>3
    <3>5. Fragments' = Fragments
      BY <1>1 DEF Fragments
    <3>6. \A n \in 1..Len(Fragments) : Fragments[n] # Missing =>
            \A p \in DOMAIN Fragments[n] : At(merged', p) = Fragments[n][p]
      BY <3>4 DEF PinnedSoFar, Says, At
    <3>7. ASSUME NEW n \in 1..Len(kept)
          PROVE  LET home == <<"toolchains", kept[n].instance>>
                 IN /\ At(merged', Append(home, "dir")) = (IF kept[n].dir = <<>> THEN Nothing ELSE kept[n].dir)
                    /\ At(merged', Append(home, "toolchain")) \in {Nothing, <<kept[n].toolchain>>}
      <4> DEFINE home == <<"toolchains", kept[n].instance>>
      <4>1. Append(home, "dir") = DirOf(n) /\ Append(home, "toolchain") = ToolchainOf(n)
        <5>1. \A a, b, c : Append(<<a, b>>, c) = <<a, b, c>>
          BY PathOfTwo
        <5> QED
          BY ONLY <5>1 DEF DirOf, ToolchainOf
      <4>2. KeysAre(merged', n)
        BY <3>4 DEF PinnedSoFar
      <4> HIDE DEF home
      <4>3. /\ At(merged', Append(home, "dir")) = (IF kept[n].dir = <<>> THEN Nothing ELSE kept[n].dir)
            /\ At(merged', Append(home, "toolchain")) \in {Nothing, <<kept[n].toolchain>>}
        BY <4>1, <4>2 DEF KeysAre
      <4> QED
        BY <4>3 DEF home
    <3>8. \A n \in 1..Len(considered) :
            At(merged', <<"plugins", plugins[considered[n]].id, "sha256">>) = <<plugins[considered[n]].asset>>
      BY <3>4 DEF PinnedSoFar, PinIs, PinOf, At
    <3> QED
      BY <1>1, <3>5, <3>6, <3>7, <3>8 DEF ManifestAgrees, At
  <2> QED
    BY <1>5, <2>1, <2>2
<1> QED
  BY <1>6, <1>7, <1>8, <1>9, <1>10, <1>11 DEF MigrateInv

-----------------------------------------------------------------------------
(* The invariant.                                                          *)

\* The invariant holds at first ...
LEMMA MigrateInitInv == MigrateInit => MigrateInv
<1> SUFFICES ASSUME MigrateInit PROVE MigrateInv
  OBVIOUS
<1>1. /\ pc = "idle" /\ runs = 0 /\ turn = 1 /\ report.outcome = "none" /\ blockers = 0
      /\ plugins = <<>> /\ considered = <<>> /\ kept = <<>> /\ foreign = <<>>
      /\ DOMAIN disk = Originals
  BY DEF MigrateInit
<1>2. MigrateTypeOK
  <2>1. 0 \in 0..MaxRuns
    BY MigrateAssumption
  <2> QED
    BY <1>1, <2>1, EmptyIsList DEF MigrateTypeOK, Stages, Outcomes
<1>3. ForeignFollows /\ BlockersFollow
  BY <1>1, EmptyIsList DEF ForeignFollows, BlockersFollow, Assembling
<1>4. DiskFollows
  BY <1>1, PlacesArePaths DEF DiskFollows
<1>5. OwnedFollows /\ ManifestFollows /\ ProvedFollows /\ ManifestAgrees
  BY <1>1 DEF OwnedFollows, ManifestFollows, ProvedFollows, ManifestAgrees, Changing, Assembling
<1> QED
  BY <1>2, <1>3, <1>4, <1>5 DEF MigrateInv

\* ... and every step keeps it.
LEMMA MigrateNextInv == ASSUME MigrateInv, [MigrateNext]_migrateVars PROVE MigrateInv'
<1>1. CASE \E lists \in CatalogLists, with \in Withs : Start(lists[1], lists[2], with)
  BY <1>1, StartInv
<1>2. CASE Step
  <2>1. CASE AskMigrator
    BY <2>1, AskMigratorInv
  <2>2. CASE CollectForeign
    BY <2>2, CollectForeignInv
  <2>3. CASE Translate
    BY <2>3, TranslateInv
  <2>4. CASE SessionFails
    BY <2>4, SessionFailsInv
  <2>5. CASE Assemble
    BY <2>5, AssembleInv
  <2>6. CASE BuildOld
    BY <2>6, BuildOldInv
  <2>7. CASE CheckOwned
    BY <2>7, CheckOwnedInv
  <2>8. CASE WriteManifest
    BY <2>8, WriteManifestInv
  <2>9. CASE WriteFile
    BY <2>9, WriteFileInv
  <2>10. CASE FilesWritten
    BY <2>10, FilesWrittenInv
  <2>11. CASE RunProof
    BY <2>11, RunProofInv
  <2>12. CASE CompareArtifacts
    BY <2>12, CompareArtifactsInv
  <2>13. CASE MoveOne
    BY <2>13, MoveOneInv
  <2>14. CASE Finish
    BY <2>14, FinishInv
  <2> QED
    BY <1>2, <2>1, <2>2, <2>3, <2>4, <2>5, <2>6, <2>7, <2>8, <2>9, <2>10, <2>11, <2>12, <2>13, <2>14 DEF Step
<1>3. CASE Crash
  BY <1>3, CrashInv
<1>4. CASE Done \/ Clean \/ UserDeletesManifest \/ \E path \in Originals : UserPutsBack(path)
  BY <1>4, BetweenRunsInv
<1>5. CASE UNCHANGED migrateVars
  BY <1>5, StutterInv
<1> QED
  BY <1>1, <1>2, <1>3, <1>4, <1>5 DEF MigrateNext

\* The inductive invariant of a migration: the shape of its state, what each stage may
\* rely on of the stages before it, and what is owned being in exactly one of two places.
THEOREM MigrateInvariant == MigrateSpec => []MigrateInv
<1>1. MigrateInit => MigrateInv
  BY MigrateInitInv
<1>2. MigrateInv /\ [MigrateNext]_migrateVars => MigrateInv'
  BY MigrateNextInv
<1> QED
  BY <1>1, <1>2, PTL DEF MigrateSpec

\* The state of a migration keeps its shape: every kept answer was given and is well formed,
\* under an instance name of its own (migrate_sessions.c).
THEOREM MigrateTypeCorrect == MigrateSpec => []MigrateTypeOK
<1>1. MigrateInv => MigrateTypeOK
  BY DEF MigrateInv
<1> QED
  BY <1>1, MigrateInvariant, PTL

\* A manifest that is written says what every answer said of it, and core's own keys and pins
\* are core's (merge.c, fr_migrate_assemble).
THEOREM ManifestAgreement == MigrateSpec => []ManifestAgrees
<1>1. MigrateInv => ManifestAgrees
  BY DEF MigrateInv
<1> QED
  BY <1>1, MigrateInvariant, PTL

\* A run that goes on from detection has settled every claim: whoever gives way to nobody on a
\* file is detected there or above, two of those are both named by --with, and nothing else is
\* detected (settle_claims, collapse_to_outermost, fr_detect).
THEOREM ClaimsAreAnswered == MigrateSpec => ClaimsAnswered
<1>1. MigrateInv /\ [MigrateNext]_migrateVars =>
        [pc' = "migrators" =>
           \A lists \in CatalogLists, with \in Withs : Start(lists[1], lists[2], with) =>
             Settled(plugins', detections', with)]_migrateVars
  BY StartSettles
<1>2. (\A lists \in CatalogLists, with \in Withs : Start(lists[1], lists[2], with) =>
         Settled(plugins', detections', with)) =>
      \A lists \in CatalogLists, with \in Withs : Start(lists[1], lists[2], with) =>
         /\ \A dir \in Walked(Project, plugins') : \A file \in ClaimedIn(Project, plugins', dir) :
              LET leaders == Leaders(plugins', dir, file, with)
              IN /\ leaders # {} /\ \A i \in leaders : DetectedFor(detections', i, dir)
                 /\ \A i, j \in leaders : i = j \/ {plugins'[i].id, plugins'[j].id} \subseteq with
         /\ \A n \in 1..Len(detections') :
              LET d == detections'[n]
              IN \/ d.dir = <<>> /\ plugins'[d.plugin].id \in with
                 \/ \E file \in ClaimedIn(Project, plugins', d.dir) :
                      d.plugin \in Leaders(plugins', d.dir, file, with)
  BY DEF Settled
<1> QED
  BY <1>1, <1>2, MigrateInvariant, PTL DEF ClaimsAnswered, MigrateSpec

-----------------------------------------------------------------------------
(* Nothing is lost.                                                        *)

\* The turn of a loop is an index of its list.
LEMMA TurnsGoOn == \A m \in Nat \ {0}, n \in Nat : m <= n => m \in 1..n
OBVIOUS

\* No artifact of either build is one of the project's own files.
LEMMA OutputsAreNotOriginals ==
  ASSUME MigrateInv, LeavesOriginals, pc \in {"old build", "proof"}, NEW n \in 1..Len(kept),
         NEW j \in 1..Len(kept[n].answer.proof.compare)
  PROVE  {kept[n].answer.proof.compare[j].old, kept[n].answer.proof.compare[j].new} \cap Originals = {}
<1>1. \A m \in 1..Len(kept) : ~Unprovable(kept[m].answer.proof)
  BY DEF MigrateInv, BlockersFollow, Assembling
<1>2. PICK k \in 1..Len(Comparisons) : Comparisons[k] = kept[n].answer.proof.compare[j]
  BY <1>1, ComparisonsAreList DEF MigrateInv
<1>3. {Comparisons[k].old, Comparisons[k].new} \cap Originals = {}
  BY DEF LeavesOriginals
<1> QED
  BY <1>2, <1>3

\* A file that is whole stays so where a step only adds to both places, or moves from one to the other.
LEMMA OriginalStays ==
  ASSUME NEW path, Held(path),
         path \in DOMAIN disk => \/ path \in DOMAIN disk' /\ disk'[path] = disk[path]
                                 \/ path \in DOMAIN old' /\ old'[path] = disk[path],
         path \in DOMAIN old => path \in DOMAIN old' /\ old'[path] = old[path]
  PROVE  Held(path)'
BY DEF Held

\* Moving keeps every file that is whole: nothing was there before.
LEMMA HeldByMoveOne ==
  ASSUME MigrateInv, MoveOne, NEW path, Held(path)
  PROVE  Held(path)'
<1> DEFINE own == AllOwned[turn]
<1>1. CASE UNCHANGED <<disk, old>>
  BY <1>1, OriginalStays
<1>2. CASE old' = Moved(own) /\ disk' = Keep(disk, DOMAIN disk \ Below(disk, own))
  <2>1. ~Exists(old, own)
    <3>1. pc = "move" /\ turn \in 1..Len(AllOwned)
      <4>1. turn \in Nat \ {0} /\ Len(AllOwned) \in Nat
        BY OwnedIsList, ListFacts DEF MigrateInv, MigrateTypeOK
      <4> QED
        BY <4>1 DEF MoveOne
    <3>2. ~(turn < turn)
      BY DEF MigrateInv, MigrateTypeOK
    <3> QED
      BY <3>1, <3>2 DEF MigrateInv, OwnedFollows, Changing, Assembling
  <2> HIDE DEF own
  <2>2. \A p \in DOMAIN old : p \notin Below(disk, own)
    BY <2>1 DEF Exists, Below
  <2>3. \A p \in DOMAIN old : p \in DOMAIN old' /\ old'[p] = old[p]
    BY <1>2, <2>2 DEF Moved
  <2>4. \A p \in Below(disk, own) : p \in DOMAIN old' /\ old'[p] = disk[p]
    BY <1>2 DEF Moved
  <2>5. \A p \in DOMAIN disk : p \notin Below(disk, own) => p \in DOMAIN disk' /\ disk'[p] = disk[p]
    BY <1>2 DEF Keep
  <2> QED
    BY <2>3, <2>4, <2>5, OriginalStays
<1> QED
  BY <1>1, <1>2 DEF MoveOne

\* A build keeps what it does not write ...
LEMMA HeldByBuild ==
  ASSUME NEW path, Held(path), old' = old, NEW outputs, path \notin outputs, NEW made,
         disk' = [p \in DOMAIN disk \cup outputs |-> IF p \in outputs THEN made[p] ELSE disk[p]]
  PROVE  Held(path)'
BY DEF Held

\* ... and so does a write.
LEMMA HeldByPut ==
  ASSUME NEW path, Held(path), old' = old, NEW other, path # other, NEW content,
         disk' = Put(disk, other, content)
  PROVE  Held(path)'
BY DEF Held, Put

\* One step loses no original file.
LEMMA LosesNothing ==
  ASSUME MigrateInv, LeavesOriginals, [MigrateNext]_migrateVars,
         NEW path \in Originals, Held(path)
  PROVE  Held(path)' \/ Done
<1>1. CASE UNCHANGED <<disk, old>>
  BY <1>1, OriginalStays
<1>2. CASE \E lists \in CatalogLists, with \in Withs : Start(lists[1], lists[2], with)
  BY <1>1, <1>2 DEF Start, DiskStays
<1>3. ASSUME pc = "files", turn <= Len(AllFiles) PROVE path # AllFiles[turn].path
  <2>1. turn \in Nat \ {0} /\ Len(AllFiles) \in Nat
    BY FilesAreList, ListFacts DEF MigrateInv, MigrateTypeOK
  <2>2. turn \in 1..Len(AllFiles)
    BY <1>3, <2>1
  <2> QED
    BY <1>3, <2>2 DEF LeavesOriginals
<1>4. CASE Step
  <2>1. CASE \/ AskMigrator \/ CollectForeign \/ Translate \/ SessionFails \/ Assemble \/ CheckOwned
             \/ WriteManifest \/ FilesWritten \/ CompareArtifacts \/ Finish
    BY <1>1, <2>1 DEF AskMigrator, CollectForeign, Translate, SessionFails, Assemble, CheckOwned,
                      WriteManifest, FilesWritten, CompareArtifacts, Finish, DiskStays
  <2>2. CASE BuildOld \/ RunProof
    <3>1. turn \in 1..Len(kept) /\ pc \in {"old build", "proof"} /\ old' = old
      <4>1. turn \in Nat \ {0} /\ Len(kept) \in Nat
        BY ListSizes DEF MigrateInv, MigrateTypeOK
      <4>2. turn <= Len(kept) /\ pc \in {"old build", "proof"} /\ old' = old
        BY <2>2 DEF BuildOld, RunProof
      <4>3. turn \in 1..Len(kept)
        <5>1. turn <= Len(kept)
          BY <4>2
        <5> QED
          BY <4>1, <5>1, TurnsGoOn
      <4> QED
        BY <4>2, <4>3
    <3> DEFINE compare == kept[turn].answer.proof.compare
               olds == {compare[j].old : j \in 1..Len(compare)}
               news == {compare[j].new : j \in 1..Len(compare)}
    <3>2. path \notin olds /\ path \notin news
      <4>1. \A j \in 1..Len(compare) : {compare[j].old, compare[j].new} \cap Originals = {}
        BY <3>1, OutputsAreNotOriginals
      <4> QED
        BY <4>1
    <3>3. CASE disk' = disk
      BY <1>1, <3>1, <3>3
    <3>4. CASE \E made \in [olds -> OldOutputs] :
                 disk' = [p \in DOMAIN disk \cup olds |-> IF p \in olds THEN made[p] ELSE disk[p]]
      <4> HIDE DEF olds
      <4> QED
        BY <3>1, <3>2, <3>4, HeldByBuild
    <3>5. CASE \E made \in [news -> NewOutputs] :
                 disk' = [p \in DOMAIN disk \cup news |-> IF p \in news THEN made[p] ELSE disk[p]]
      <4> HIDE DEF news
      <4> QED
        BY <3>1, <3>2, <3>5, HeldByBuild
    <3> QED
      BY <2>2, <3>3, <3>4, <3>5 DEF BuildOld, RunProof
  <2>3. CASE WriteFile
    <3>1. path # AllFiles[turn].path /\ old' = old
      BY <1>3, <2>3 DEF WriteFile
    <3> QED
      BY <1>1, <2>3, <3>1, HeldByPut DEF WriteFile
  <2>4. CASE MoveOne
    BY <2>4, HeldByMoveOne
  <2> QED
    BY <1>4, <2>1, <2>2, <2>3, <2>4 DEF Step
<1>5. CASE Crash
  <2>1. CASE UNCHANGED <<disk, old>>
    BY <1>1, <2>1
  <2>2. CASE pc = "files" /\ turn <= Len(AllFiles) /\ disk' = Put(disk, AllFiles[turn].path, Malformed) /\ old' = old
    BY <1>3, <2>2, HeldByPut
  <2> QED
    BY <1>5, <2>1, <2>2 DEF Crash, DiskStays
<1>6. CASE Clean
  <2>1. disk' = disk
    BY <1>6 DEF Clean
  <2>2. path \in DOMAIN old => old' = old
    BY <1>6 DEF Clean, HoldsUnfinished
  <2> QED
    BY <2>1, <2>2, OriginalStays
<1>7. CASE UserDeletesManifest
  BY <1>1, <1>7 DEF UserDeletesManifest
<1>8. CASE \E other \in Originals : UserPutsBack(other)
  <2>1. PICK other \in Originals : UserPutsBack(other)
    BY <1>8
  <2>2. other \notin DOMAIN disk /\ old' = old /\ disk' = Put(disk, other, "put back")
    BY <2>1 DEF UserPutsBack, Exists, Below
  <2> QED
    BY <2>2, OriginalStays DEF Put
<1>9. CASE UNCHANGED migrateVars
  BY <1>1, <1>9 DEF migrateVars
<1> QED
  BY <1>2, <1>4, <1>5, <1>6, <1>7, <1>8, <1>9 DEF MigrateNext

\* As long as the answers leave the original files alone, every one of them is whole in its
\* place or where it was moved, through failures, crashes and further runs, until "migrate --done".
THEOREM MigrateLosesNothing == MigrateSpec /\ []LeavesOriginals => NothingIsLost
<1>1. MigrateInv /\ LeavesOriginals /\ [MigrateNext]_migrateVars =>
        [\A path \in Originals : Held(path) => Held(path)' \/ Done]_migrateVars
  BY LosesNothing
<1> QED
  BY <1>1, MigrateInvariant, PTL DEF MigrateSpec, NothingIsLost

-----------------------------------------------------------------------------
(* What the new build made stays while the old one is moved.               *)

\* What is neither moved aside nor written stays.
LEMMA KeptContent ==
  ASSUME NEW own, NEW path, path \notin Below(disk, own),
         disk' = Keep(disk, DOMAIN disk \ Below(disk, own))
  PROVE  Content(disk', path) = Content(disk, path)
BY DEF Keep, Content

\* A file that is moved is no longer there.
LEMMA MovedContent ==
  ASSUME NEW own, NEW path, disk' = Keep(disk, DOMAIN disk \ Below(disk, own))
  PROVE  Content(disk', path) \in {Unreadable, Content(disk, path)}
BY DEF Keep, Content

\* What one move does.
LEMMA MoveOneIs ==
  ASSUME MigrateInv, MoveOne
  PROVE  /\ turn \in 1..Len(AllOwned) /\ pc = "move"
         /\ UNCHANGED memory
         /\ \/ UNCHANGED disk
            \/ disk' = Keep(disk, DOMAIN disk \ Below(disk, AllOwned[turn]))
<1>1. turn \in Nat \ {0} /\ Len(AllOwned) \in Nat
  BY OwnedIsList, ListFacts DEF MigrateInv, MigrateTypeOK
<1>2. turn <= Len(AllOwned)
  BY DEF MoveOne
<1>3. turn \in 1..Len(AllOwned)
  BY <1>1, <1>2, TurnsGoOn
<1> QED
  BY <1>3 DEF MoveOne

\* Every step keeps the carried files whole while the old build is moved.
LEMMA CarriedStay ==
  ASSUME MigrateInv, KeptApart, CarriedFollows, [MigrateNext]_migrateVars
  PROVE  CarriedFollows'
<1>1. turn \in Nat \ {0} /\ IsList(AllFiles) /\ Len(AllFiles) \in Nat
  BY FilesAreList, ListFacts DEF MigrateInv, MigrateTypeOK
<1>2. CASE pc' \notin {"files", "proof", "move"}
  BY <1>2 DEF CarriedFollows
<1>3. CASE UNCHANGED migrateVars
  <2>1. UNCHANGED memory /\ pc' = pc /\ turn' = turn /\ disk' = disk
    BY <1>3 DEF migrateVars
  <2> QED
    BY <2>1, MemoryStays DEF CarriedFollows
<1>4. CASE Step /\ pc' \in {"files", "proof", "move"}
  <2>1. CASE WriteManifest
    <3>1. (pc' = "files" /\ turn' = 1 /\ UNCHANGED memory) \/ pc' = "idle"
      BY <2>1 DEF WriteManifest, Goto, End
    <3>2. ASSUME pc' = "files", turn' = 1, NEW n \in 1..Len(AllFiles') PROVE ~(n < turn')
      BY <3>2
    <3> QED
      BY <1>4, <3>1, <3>2 DEF CarriedFollows
  <2>2. CASE WriteFile
    <3>1. /\ pc = "files" /\ turn <= Len(AllFiles) /\ UNCHANGED memory
          /\ \/ disk' = Put(disk, AllFiles[turn].path, AllFiles[turn].text) /\ Next1
             \/ End("error")
      BY <2>2 DEF WriteFile
    <3>2. ~End("error")
      BY <1>4 DEF End
    <3>3. pc' = "files" /\ turn' = turn + 1 /\ disk' = Put(disk, AllFiles[turn].path, AllFiles[turn].text)
      BY <3>1, <3>2 DEF Next1
    <3>4. turn \in 1..Len(AllFiles)
      BY <1>1, <3>1, TurnsGoOn
    <3>5. AllFiles[turn].text \notin {Malformed, Unreadable}
      BY <3>4, FilesAreList DEF MigrateInv
    <3>6. ASSUME NEW n \in 1..Len(AllFiles), n < turn' PROVE Content(disk', AllFiles[n].path) \notin {Unreadable, Malformed}
      <4>1. CASE AllFiles[n].path = AllFiles[turn].path
        BY <3>3, <3>5, <4>1 DEF Put, Content
      <4>2. CASE AllFiles[n].path # AllFiles[turn].path
        <5>1. n # turn
          BY <4>2
        <5>2. n < turn
          BY <1>1, <3>3, <3>6, <5>1
        <5>3. Content(disk, AllFiles[n].path) \notin {Unreadable, Malformed}
          BY <3>1, <5>2 DEF CarriedFollows
        <5>4. Content(disk', AllFiles[n].path) = Content(disk, AllFiles[n].path)
          BY <3>3, <4>2 DEF Put, Content
        <5> QED
          BY <5>3, <5>4
      <4> QED
        BY <4>1, <4>2
    <3> QED
      BY <3>1, <3>3, <3>6, MemoryStays DEF CarriedFollows, Content
  <2>3. CASE FilesWritten
    <3>1. pc = "files" /\ turn > Len(AllFiles) /\ disk' = disk /\ UNCHANGED memory
      BY <2>3 DEF FilesWritten, DiskStays
    <3>2. \A n \in 1..Len(AllFiles) : n < turn
      BY <1>1, <3>1
    <3> QED
      BY <3>1, <3>2, MemoryStays DEF CarriedFollows
  <2>4. CASE RunProof
    <3> DEFINE compare == kept[turn].answer.proof.compare
               news == {compare[n].new : n \in 1..Len(compare)}
    <3>1. /\ pc = "proof" /\ UNCHANGED memory
          /\ \/ UNCHANGED disk
             \/ \E made \in [news -> NewOutputs] :
                  disk' = [p \in DOMAIN disk \cup news |-> IF p \in news THEN made[p] ELSE disk[p]]
      BY <2>4 DEF RunProof
    <3> HIDE DEF news
    <3>2. CASE UNCHANGED disk
      BY <3>1, <3>2, MemoryStays DEF CarriedFollows
    <3>3. CASE \E made \in [news -> NewOutputs] :
                  disk' = [p \in DOMAIN disk \cup news |-> IF p \in news THEN made[p] ELSE disk[p]]
      <4>1. PICK made \in [news -> NewOutputs] :
                  disk' = [p \in DOMAIN disk \cup news |-> IF p \in news THEN made[p] ELSE disk[p]]
        BY <3>3
      <4>2. \A p \in news : made[p] \notin {Unreadable, Malformed}
        BY MigrateAssumption
      <4>3. ASSUME NEW n \in 1..Len(AllFiles) PROVE Content(disk', AllFiles[n].path) \notin {Unreadable, Malformed}
        <5>1. Content(disk, AllFiles[n].path) \notin {Unreadable, Malformed}
          BY <3>1 DEF CarriedFollows
        <5>2. Content(disk', AllFiles[n].path) =
                IF AllFiles[n].path \in news THEN made[AllFiles[n].path] ELSE Content(disk, AllFiles[n].path)
          BY <4>1 DEF Content
        <5> QED
          BY <4>2, <5>1, <5>2
      <4> QED
        BY <3>1, <4>3, MemoryStays DEF CarriedFollows, Content
    <3> QED
      BY <3>1, <3>2, <3>3
  <2>5. CASE CompareArtifacts
    <3>1. pc = "proof" /\ disk' = disk /\ UNCHANGED memory
      BY <2>5 DEF CompareArtifacts, DiskStays
    <3> QED
      BY <3>1, MemoryStays DEF CarriedFollows
  <2>6. CASE MoveOne
    <3>1. /\ turn \in 1..Len(AllOwned) /\ pc = "move" /\ UNCHANGED memory
          /\ \/ UNCHANGED disk
             \/ disk' = Keep(disk, DOMAIN disk \ Below(disk, AllOwned[turn]))
      BY <2>6, MoveOneIs
    <3>2. ASSUME NEW n \in 1..Len(AllFiles) PROVE Content(disk', AllFiles[n].path) = Content(disk, AllFiles[n].path)
      <4>1. AllFiles[n].path \notin Below(disk, AllOwned[turn])
        BY <3>1 DEF KeptApart
      <4> QED
        BY <3>1, <4>1, KeptContent
    <3>3. \A n \in 1..Len(AllFiles) : Content(disk', AllFiles[n].path) \notin {Unreadable, Malformed}
      BY <3>1, <3>2 DEF CarriedFollows
    <3> QED
      BY <3>1, <3>3, MemoryStays DEF CarriedFollows, Content
  <2>7. CASE \/ AskMigrator \/ CollectForeign \/ Translate \/ SessionFails \/ Assemble
             \/ BuildOld \/ CheckOwned \/ Finish
    <3>1. pc' \notin {"files", "proof", "move"}
      BY <2>7 DEF AskMigrator, CollectForeign, Translate, SessionFails, Assemble, BuildOld, CheckOwned, Finish,
                  Next1, End, Goto
    <3> QED
      BY <1>4, <3>1
  <2> QED
    BY <1>4, <2>1, <2>2, <2>3, <2>4, <2>5, <2>6, <2>7 DEF Step
<1>5. CASE ~Step /\ MigrateNext
  <2>1. pc' \notin {"files", "proof", "move"}
    BY <1>5 DEF MigrateNext, Start, End, Crash, Done, Clean, UserDeletesManifest, UserPutsBack
  <2> QED
    BY <1>2, <2>1
<1> QED
  BY <1>2, <1>3, <1>4, <1>5

\* Every step keeps the artifacts the same, or moves the old one.
LEMMA SameStays ==
  ASSUME MigrateInv, KeptApart, SameSoFar, [MigrateNext]_migrateVars
  PROVE  SameSoFar'
<1>1. CASE pc' # "move"
  BY <1>1 DEF SameSoFar
<1>2. CASE UNCHANGED migrateVars
  <2>1. UNCHANGED memory /\ pc' = pc /\ disk' = disk
    BY <1>2 DEF migrateVars
  <2> QED
    BY <2>1, MemoryStays DEF SameSoFar
<1>3. CASE Step /\ pc' = "move"
  <2>1. CASE CompareArtifacts
    <3>1. SameAll /\ disk' = disk /\ UNCHANGED memory
      BY <1>3, <2>1 DEF CompareArtifacts, DiskStays, End
    <3> QED
      BY <3>1, MemoryStays DEF SameSoFar, SameAll
  <2>2. CASE MoveOne
    <3>1. /\ turn \in 1..Len(AllOwned) /\ pc = "move" /\ UNCHANGED memory
          /\ \/ UNCHANGED disk
             \/ disk' = Keep(disk, DOMAIN disk \ Below(disk, AllOwned[turn]))
      BY <2>2, MoveOneIs
    <3>2. ASSUME NEW n \in 1..Len(Comparisons), Content(disk', Comparisons[n].old) # Unreadable
          PROVE  Same(Content(disk', Comparisons[n].old), Content(disk', Comparisons[n].new), Comparisons[n].as)
      <4>1. Comparisons[n].new \notin Below(disk, AllOwned[turn])
        BY <3>1 DEF KeptApart
      <4>2. Content(disk', Comparisons[n].new) = Content(disk, Comparisons[n].new)
        BY <3>1, <4>1, KeptContent
      <4>3. Content(disk', Comparisons[n].old) = Content(disk, Comparisons[n].old)
        <5>1. CASE UNCHANGED disk
          BY <5>1
        <5>2. CASE disk' = Keep(disk, DOMAIN disk \ Below(disk, AllOwned[turn]))
          BY <3>2, <5>2, MovedContent
        <5> QED
          BY <3>1, <5>1, <5>2
      <4>4. Same(Content(disk, Comparisons[n].old), Content(disk, Comparisons[n].new), Comparisons[n].as)
        BY <3>1, <3>2, <4>3 DEF SameSoFar
      <4> QED
        BY <4>2, <4>3, <4>4
    <3> QED
      BY <3>1, <3>2, MemoryStays DEF SameSoFar, Content
  <2>3. CASE \/ AskMigrator \/ CollectForeign \/ Translate \/ SessionFails \/ Assemble
             \/ BuildOld \/ CheckOwned \/ Finish \/ WriteManifest \/ WriteFile \/ FilesWritten \/ RunProof
    <3>1. pc' # "move"
      BY <2>3 DEF AskMigrator, CollectForeign, Translate, SessionFails, Assemble, BuildOld, CheckOwned, Finish,
                  WriteManifest, WriteFile, FilesWritten, RunProof, Next1, End, Goto
    <3> QED
      BY <1>3, <3>1
  <2> QED
    BY <1>3, <2>1, <2>2, <2>3 DEF Step
<1>4. CASE ~Step /\ MigrateNext
  <2>1. pc' # "move"
    BY <1>4 DEF MigrateNext, Start, End, Crash, Done, Clean, UserDeletesManifest, UserPutsBack
  <2> QED
    BY <1>1, <2>1
<1> QED
  BY <1>1, <1>2, <1>3, <1>4

\* The differences of two artifacts that are the same, counted apart from the verdict, are none.
LEMMA SameListsNothing ==
  ASSUME NEW left, NEW right, NEW as, Same(left, right, as)
  PROVE  ListDifferences(left, right, as) = [ok |-> TRUE, count |-> 0, truncated |-> FALSE]
<1>1. CanCompare(left, right, as)
  BY DEF Same
<1> DEFINE all == IF as = "bytes" THEN (IF left = right THEN 0 ELSE 1)
                  ELSE Cardinality(ArchiveDifferences(left, right, as = "archive-json"))
<1>2. all = 0
  <2>1. CASE as = "bytes"
    BY <2>1 DEF Same
  <2>2. CASE as # "bytes"
    <3>1. ArchiveDifferences(left, right, as = "archive-json") = {}
      BY <2>2 DEF Same
    <3>2. Cardinality({}) = 0
      BY FS_EmptySet
    <3> QED
      BY <2>2, <3>1, <3>2
  <2> QED
    BY <2>1, <2>2
<1>3. ListDifferences(left, right, as) =
        [ok |-> TRUE, count |-> IF all < MaxDifferences THEN all ELSE MaxDifferences,
         truncated |-> all > MaxDifferences]
  BY <1>1 DEF ListDifferences
<1> HIDE DEF all
<1>4. MaxDifferences \in Nat
  BY MigrateAssumption
<1>5. (IF all < MaxDifferences THEN all ELSE MaxDifferences) = 0 /\ (all > MaxDifferences) = FALSE
  BY <1>2, <1>4
<1> QED
  BY <1>3, <1>5

\* Of two artifacts that are not the same, a difference is told.
LEMMA DifferenceIsTold ==
  ASSUME NEW left, NEW right, NEW as, ~Same(left, right, as)
  PROVE  Explained(left, right, as) # {}
<1>1. CASE ~CanCompare(left, right, as)
  BY <1>1 DEF Explained
<1>2. CASE CanCompare(left, right, as) /\ as # "bytes"
  <2> DEFINE found == ArchiveDifferences(left, right, as = "archive-json")
  <2>1. found # {}
    BY <1>2 DEF Same
  <2>2. Explained(left, right, as) = {d.kind : d \in found}
    BY <1>2 DEF Explained
  <2> HIDE DEF found
  <2> QED
    BY <2>1, <2>2
<1>3. CASE CanCompare(left, right, as) /\ as = "bytes"
  <2>1. left # right
    BY <1>3 DEF Same
  <2>2. Explained(left, right, as) = LineReport(left, right)
    BY <1>3, <2>1 DEF Explained
  <2>3. LineReport(left, right) # {}
    BY DEF LineReport
  <2> QED
    BY <2>2, <2>3
<1> QED
  BY <1>1, <1>2, <1>3

\* Only MoveOne puts a file aside.
LEMMA OnlyMoved ==
  ASSUME MigrateInv, CarriedFollows, [MigrateNext]_migrateVars, DOMAIN old' \ DOMAIN old # {}
  PROVE  /\ manifest = merged /\ blockers = 0
         /\ \A n \in 1..Len(AllFiles) : Content(disk, AllFiles[n].path) \notin {Unreadable, Malformed}
         /\ turn = 1 => SameAll
<1>1. old' # old
  OBVIOUS
<1>2. pc = "move"
  <2>1. CASE MoveOne
    BY <2>1 DEF MoveOne
  <2>2. CASE Done \/ Clean
    <3>1. DOMAIN old' \subseteq DOMAIN old
      BY <2>2 DEF Done, Clean, Keep, NoFiles
    <3> QED
      BY <3>1
  <2>3. CASE Step /\ ~MoveOne
    <3>1. old' = old
      BY <2>3 DEF Step, AskMigrator, CollectForeign, Translate, SessionFails, Assemble, BuildOld, CheckOwned, Finish,
                  WriteManifest, WriteFile, FilesWritten, RunProof, CompareArtifacts, DiskStays
    <3> QED
      BY <1>1, <3>1
  <2>4. CASE \/ \E lists \in CatalogLists, with \in Withs : Start(lists[1], lists[2], with)
             \/ Crash \/ UserDeletesManifest \/ \E path \in Originals : UserPutsBack(path)
             \/ UNCHANGED migrateVars
    <3>1. old' = old
      BY <2>4 DEF Start, DiskStays, Crash, UserDeletesManifest, UserPutsBack, migrateVars
    <3> QED
      BY <1>1, <3>1
  <2> QED
    BY <2>1, <2>2, <2>3, <2>4 DEF MigrateNext
<1> QED
  BY <1>2 DEF MigrateInv, ManifestFollows, BlockersFollow, ProvedFollows, CarriedFollows, Assembling

\* What a report may say.
LEMMA ReportsTruly ==
  ASSUME MigrateInv, SameSoFar, [MigrateNext]_migrateVars, report' # report
  PROVE  /\ report'.outcome = "migrated" =>
              /\ \A n \in 1..Len(AllOwned) : ~Exists(disk, AllOwned[n]) /\ Exists(old, AllOwned[n])
              /\ \A n \in 1..Len(Comparisons) :
                   LET was == Content(disk, Comparisons[n].old)
                   IN was # Unreadable =>
                        ListDifferences(was, Content(disk, Comparisons[n].new), Comparisons[n].as)
                          = [ok |-> TRUE, count |-> 0, truncated |-> FALSE]
         /\ report'.outcome = "unproved" /\ turn > Len(kept) => report'.said # {}
<1>1. CASE Finish
  <2>1. pc = "move" /\ turn > Len(AllOwned) /\ report'.outcome = "migrated"
    BY <1>1 DEF Finish, End
  <2>2. turn \in Nat \ {0} /\ Len(AllOwned) \in Nat
    BY OwnedIsList, ListFacts DEF MigrateInv, MigrateTypeOK
  <2>3. \A n \in 1..Len(AllOwned) : n < turn
    BY <2>1, <2>2
  <2>4. \A n \in 1..Len(AllOwned) : ~Exists(disk, AllOwned[n]) /\ Exists(old, AllOwned[n])
    BY <2>1, <2>3 DEF MigrateInv, OwnedFollows, Changing, Assembling
  <2>5. ASSUME NEW n \in 1..Len(Comparisons), Content(disk, Comparisons[n].old) # Unreadable
        PROVE  ListDifferences(Content(disk, Comparisons[n].old), Content(disk, Comparisons[n].new), Comparisons[n].as)
                 = [ok |-> TRUE, count |-> 0, truncated |-> FALSE]
    <3>1. Same(Content(disk, Comparisons[n].old), Content(disk, Comparisons[n].new), Comparisons[n].as)
      BY <2>1, <2>5 DEF SameSoFar
    <3> QED
      BY <3>1, SameListsNothing
  <2> QED
    BY <2>1, <2>4, <2>5
<1>2. CASE CompareArtifacts
  <2>1. report'.outcome # "migrated" /\ (report'.outcome = "unproved" => ~SameAll /\ report'.said = Said)
    <3>1. CASE report' = [outcome |-> "unproved", said |-> Said] /\ ~SameAll
      BY <3>1
    <3>2. CASE End("error")
      BY <3>2 DEF End
    <3>3. CASE Goto("move")
      BY <3>3 DEF Goto
    <3> QED
      BY <1>2, <3>1, <3>2, <3>3 DEF CompareArtifacts
  <2>2. ASSUME ~SameAll PROVE Said # {}
    <3>1. PICK n \in 1..Len(Comparisons) :
            ~Same(Content(disk, Comparisons[n].old), Content(disk, Comparisons[n].new), Comparisons[n].as)
      BY <2>2 DEF SameAll
    <3>2. Explained(Content(disk, Comparisons[n].old), Content(disk, Comparisons[n].new), Comparisons[n].as) # {}
      BY <3>1, DifferenceIsTold
    <3> QED
      BY <3>2 DEF Said
  <2> QED
    BY <2>1, <2>2
<1>3. CASE RunProof
  <2>1. turn <= Len(kept) /\ (report' = report \/ report'.outcome = "unproved")
    <3>1. turn <= Len(kept)
      BY <1>3 DEF RunProof
    <3>2. Next1 \/ End("unproved")
      BY <1>3 DEF RunProof
    <3>3. Next1 => report' = report
      BY DEF Next1
    <3>4. End("unproved") => report'.outcome = "unproved"
      BY DEF End
    <3> QED
      BY <3>1, <3>2, <3>3, <3>4
  <2>2. turn \in Nat /\ Len(kept) \in Nat
    BY ListSizes DEF MigrateInv, MigrateTypeOK
  <2>3. ~(turn > Len(kept))
    BY <2>1, <2>2
  <2> QED
    BY <2>1, <2>3
<1>4. CASE Step /\ ~Finish /\ ~CompareArtifacts /\ ~RunProof
  <2>1. report' = report \/ report'.outcome \in {"error", "blocked"}
    <3>1. /\ Next1 \/ (\E there : Goto(there)) => report' = report
          /\ End("error") => report'.outcome = "error"
          /\ End("blocked") => report'.outcome = "blocked"
      BY DEF Next1, Goto, End
    <3>2. Next1 \/ (\E there : Goto(there)) \/ End("error") \/ End("blocked")
      <4>1. CASE AskMigrator
        BY <4>1 DEF AskMigrator
      <4>2. CASE CollectForeign
        BY <4>2 DEF CollectForeign
      <4>3. CASE Translate
        BY <4>3 DEF Translate
      <4>4. CASE SessionFails
        BY <4>4 DEF SessionFails
      <4>5. CASE Assemble
        BY <4>5 DEF Assemble
      <4>6. CASE BuildOld
        BY <4>6 DEF BuildOld
      <4>7. CASE CheckOwned
        BY <4>7 DEF CheckOwned
      <4>8. CASE WriteManifest \/ WriteFile \/ FilesWritten
        BY <4>8 DEF WriteManifest, WriteFile, FilesWritten
      <4>9. CASE MoveOne
        BY <4>9 DEF MoveOne
      <4> QED
        BY <1>4, <4>1, <4>2, <4>3, <4>4, <4>5, <4>6, <4>7, <4>8, <4>9 DEF Step
    <3> QED
      BY <3>1, <3>2
  <2> QED
    BY <2>1
<1>5. CASE \E lists \in CatalogLists, with \in Withs : Start(lists[1], lists[2], with)
  <2>1. report'.outcome \in {"error", "undetected", "empty"}
    BY <1>5 DEF Start, End
  <2> QED
    BY <2>1
<1>6. CASE \/ Crash \/ Done \/ Clean \/ UserDeletesManifest \/ \E path \in Originals : UserPutsBack(path)
           \/ UNCHANGED migrateVars
  BY <1>6 DEF Crash, Done, Clean, UserDeletesManifest, UserPutsBack, migrateVars
<1> QED
  BY <1>1, <1>2, <1>3, <1>4, <1>5, <1>6 DEF MigrateNext

\* When nothing that is owned holds what was written for the new build, it stays.
LEMMA CarriedInvariant == MigrateSpec /\ []KeptApart => [](CarriedFollows /\ SameSoFar)
<1>1. MigrateInit => CarriedFollows /\ SameSoFar
  BY DEF MigrateInit, CarriedFollows, SameSoFar
<1>2. MigrateInv /\ KeptApart /\ (CarriedFollows /\ SameSoFar) /\ [MigrateNext]_migrateVars
        => (CarriedFollows /\ SameSoFar)'
  BY CarriedStay, SameStays
<1> QED
  BY <1>1, <1>2, MigrateInvariant, PTL DEF MigrateSpec

\* Nothing is moved aside before the manifest and the carried files are whole, no blocker is
\* left and the two builds made the same, unless an answer owns what it writes (migrate_finish.c).
THEOREM MigrateMovesWhenProved == MigrateSpec /\ []KeptApart => MovedOnlyWhenProved
<1>1. MigrateInv /\ (CarriedFollows /\ SameSoFar) /\ [MigrateNext]_migrateVars =>
        [DOMAIN old' \ DOMAIN old # {} =>
           /\ manifest = merged /\ blockers = 0
           /\ \A n \in 1..Len(AllFiles) : Content(disk, AllFiles[n].path) \notin {Unreadable, Malformed}
           /\ turn = 1 => SameAll]_migrateVars
  BY OnlyMoved
<1> QED
  BY <1>1, MigrateInvariant, CarriedInvariant, PTL DEF MigrateSpec, MovedOnlyWhenProved

\* A report says "migrated" only when all that is owned was moved and no difference is left, and
\* one that says "unproved" after a comparison says why (report.c).
THEOREM MigrateReportIsTrue == MigrateSpec /\ []KeptApart => ReportIsTrue
<1>1. MigrateInv /\ (CarriedFollows /\ SameSoFar) /\ [MigrateNext]_migrateVars =>
        [report' # report =>
           /\ report'.outcome = "migrated" =>
                /\ \A n \in 1..Len(AllOwned) : ~Exists(disk, AllOwned[n]) /\ Exists(old, AllOwned[n])
                /\ \A n \in 1..Len(Comparisons) :
                     LET was == Content(disk, Comparisons[n].old)
                     IN was # Unreadable =>
                          ListDifferences(was, Content(disk, Comparisons[n].new), Comparisons[n].as)
                            = [ok |-> TRUE, count |-> 0, truncated |-> FALSE]
           /\ report'.outcome = "unproved" /\ turn > Len(kept) => report'.said # {}]_migrateVars
  BY ReportsTruly
<1> QED
  BY <1>1, MigrateInvariant, CarriedInvariant, PTL DEF MigrateSpec, ReportIsTrue
=============================================================================
