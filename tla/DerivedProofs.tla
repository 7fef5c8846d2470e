--------------------------- MODULE DerivedProofs ----------------------------
(***************************************************************************)
(* Proofs about Derived, for every set of paths, files and texts.          *)
(***************************************************************************)
EXTENDS Derived, TLAPS

\* No two paths lead to one file.
Distinct == \A m, n \in Names : FileOf[m] = FileOf[n] => m = n

(* The inductive invariant.                                                *)

\* Where the call is says what is left, what it is for and what it works from.
CallFollows ==
  /\ phase = "writing" => todo \subseteq Paths(files)
  /\ phase = "sweeping" => todo \subseteq Paths(previous) \ Paths(files)
  /\ phase \in {"recording", "checked"} => todo = {}
  /\ phase = "recording" => write
  /\ phase = "checked" => ~write
  /\ phase # "idle" => previous = ledger
  /\ Busy /\ write => settled = None

SettledIsRecorded == settled # None => ledger = settled

KnownCovers ==
  \A n \in Names : \A text \in {ledger[n], previous[n], files[n]} :
    text # None => text \in known[FileOf[n]]

\* The generated paths the call is through with.
Through == {n \in Paths(files) : phase = "writing" => n \notin todo}

\* With nothing to report so far, a check has found what it went through as a
\* sync would leave it.
CheckedSoFar ==
  ~write /\ report = {} /\ phase # "idle" =>
    /\ \A n \in Through : disk[FileOf[n]] = files[n]
    /\ phase # "writing" =>
         \A n \in (Paths(previous) \ Paths(files)) \ todo : disk[FileOf[n]] # previous[n]

\* A file daukle wrote holds what a listing says of it, ...
Holds(listing, names, f) == \E n \in names : FileOf[n] = f /\ disk[f] = listing[n]

\* ... the ledger's, or, while a sync is going on, that of what it has been
\* through or of what it has still to take away.
OwnIsListed ==
  tidy => \A f \in Files : origin[f] = "daukle" =>
    IF ~(Busy /\ write) THEN Holds(ledger, Paths(ledger), f)
    ELSE \/ Holds(files, Through, f)
         \/ phase = "writing" /\ Holds(previous, Paths(previous), f)
              /\ \A n \in Through : FileOf[n] # f
         \/ phase = "sweeping" /\ Holds(previous, todo, f)

IInv == /\ TypeOK
        /\ CallFollows
        /\ SettledIsRecorded
        /\ KnownCovers
        /\ CheckedSoFar
        /\ OwnIsListed

(* What holds besides when no two paths lead to one file.                  *)

\* What a sync went through stays as it wrote it.
WrittenSoFar ==
  Busy /\ write => \A n \in Through : disk[FileOf[n]] = files[n]

\* A check of what was just generated has nothing to report.
QuietAfterSync == phase # "idle" /\ settled # None /\ settled = files => report = {}

DistinctInv == WrittenSoFar /\ GeneratedIsThere /\ QuietAfterSync

-----------------------------------------------------------------------------
(* The steps, and what each conjunct of the invariant needs of them.       *)

\* A call starts, one that is under way goes on, or something happens between
\* two calls.
Starts    == \E listing \in Listing, writes \in BOOLEAN : Apply(listing, writes)
Goes(n)   == PassUnchanged(n) \/ WriteFile(n) \/ Keep(n) \/ Remove(n) \/ RemoveFails(n)
TurnsOver == BeginSweep \/ EndSweep
Ends      == Record \/ Stop
Between   == (\E f \in Files, t \in Texts \cup {None} : Edit(f, t)) \/ LoseLedger \/ Clean

LEMMA NextSteps == Next <=> Starts \/ (\E n \in Names : Goes(n)) \/ TurnsOver \/ Ends \/ Between
BY DEF Next, Starts, Goes, TurnsOver, Ends, Between

LEMMA ListingFacts ==
  /\ Nothing \in Listing
  /\ Paths(Nothing) = {}
  /\ \A n \in Names : Nothing[n] = None
BY DEF Nothing, Listing, Paths

LEMMA TypeFacts ==
  ASSUME TypeOK
  PROVE  /\ \A n \in Names : FileOf[n] \in Files
         /\ Paths(files) \subseteq Names /\ Paths(previous) \subseteq Names
         /\ \A n \in Names : /\ files[n] \in Texts \cup {None}
                             /\ previous[n] \in Texts \cup {None}
                             /\ ledger[n] \in Texts \cup {None}
         /\ \A f \in Files : disk[f] \in Texts \cup {None} /\ known[f] \subseteq Texts
BY DerivedAssumption DEF TypeOK, Paths, Listing

LEMMA InitIInv == Init => IInv
<1> SUFFICES ASSUME Init PROVE IInv
  OBVIOUS
<1>1. TypeOK
  BY ListingFacts DEF Init, TypeOK, Phases, Origins
<1>2. CallFollows /\ SettledIsRecorded /\ CheckedSoFar
  BY DEF Init, CallFollows, SettledIsRecorded, CheckedSoFar, Busy
<1>3. KnownCovers
  BY ListingFacts DEF Init, KnownCovers
<1>4. OwnIsListed
  BY DEF Init, OwnIsListed
<1> QED
  BY <1>1, <1>2, <1>3, <1>4 DEF IInv

LEMMA TypeNext == TypeOK /\ [Next]_vars => TypeOK'
<1> SUFFICES ASSUME TypeOK, [Next]_vars PROVE TypeOK'
  OBVIOUS
<1>0. \A n \in Names : FileOf[n] \in Files
  BY TypeFacts
<1>1. CASE UNCHANGED vars
  BY <1>1 DEF vars, call, histories, TypeOK
<1>2. CASE Starts
  <2> PICK listing \in Listing, writes \in BOOLEAN : Apply(listing, writes)
    BY <1>2 DEF Starts
  <2>1. Paths(listing) \in SUBSET Names
    BY DEF Paths
  <2>2. \A f \in Files : known'[f] \subseteq Texts /\ known' = [g \in Files |-> known'[g]]
    BY DEF Apply, TypeOK, Listing, Paths
  <2>3. known' \in [Files -> SUBSET Texts]
    BY <2>2 DEF Apply
  <2> QED
    BY <2>1, <2>3 DEF Apply, TypeOK, Phases
<1>3. ASSUME NEW n \in Names, Goes(n) PROVE TypeOK'
  <2>1. FileOf[n] \in Files /\ files[n] \in Texts \cup {None} /\ todo' \in SUBSET Names
        /\ report' \in SUBSET Names
    BY <1>3, TypeFacts DEF Goes, PassUnchanged, WriteFile, Keep, Remove, RemoveFails, TypeOK,
       Seen, Reported
  <2>2. disk' \in [Files -> Texts \cup {None}] /\ origin' \in [Files -> Origins]
    BY <1>3, <2>1 DEF Goes, PassUnchanged, WriteFile, Keep, Remove, RemoveFails, TypeOK,
       histories, Origins
  <2> QED
    BY <1>3, <2>1, <2>2 DEF Goes, PassUnchanged, WriteFile, Keep, Remove, RemoveFails, TypeOK,
       histories
<1>4. CASE TurnsOver
  BY <1>4 DEF TurnsOver, BeginSweep, EndSweep, TypeOK, histories, Paths, Phases
<1>5. CASE Ends
  BY <1>5, ListingFacts DEF Ends, Record, Stop, Returns, TypeOK, Phases
<1>6. CASE Between
  BY <1>6, ListingFacts DEF Between, Edit, LoseLedger, Clean, Returns, TypeOK, Phases, Origins
<1> QED
  BY <1>1, <1>2, <1>3, <1>4, <1>5, <1>6, NextSteps

LEMMA CallNext == IInv /\ [Next]_vars => CallFollows' /\ SettledIsRecorded'
<1> SUFFICES ASSUME IInv, [Next]_vars PROVE CallFollows' /\ SettledIsRecorded'
  OBVIOUS
<1> USE DEF IInv, CallFollows, SettledIsRecorded, Busy
<1>1. CASE UNCHANGED vars
  BY <1>1 DEF vars, call, histories
<1>2. CASE Starts
  BY <1>2 DEF Starts, Apply
<1>3. ASSUME NEW n \in Names, Goes(n) PROVE CallFollows' /\ SettledIsRecorded'
  BY <1>3 DEF Goes, PassUnchanged, WriteFile, Keep, Remove, RemoveFails, Turn, Seen, histories
<1>4. CASE TurnsOver
  BY <1>4 DEF TurnsOver, BeginSweep, EndSweep, histories
<1>5. CASE Ends
  BY <1>5 DEF Ends, Record, Stop, Returns
<1>6. CASE Between
  BY <1>6 DEF Between, Edit, LoseLedger, Clean, Returns
<1> QED
  BY <1>1, <1>2, <1>3, <1>4, <1>5, <1>6, NextSteps

LEMMA KnownNext == IInv /\ [Next]_vars => KnownCovers'
<1> SUFFICES ASSUME IInv, [Next]_vars PROVE KnownCovers'
  OBVIOUS
<1> USE DEF IInv
<1>1. CASE UNCHANGED <<ledger, previous, files, known>>
  BY <1>1 DEF KnownCovers
<1>2. CASE Starts
  <2> PICK listing \in Listing, writes \in BOOLEAN : Apply(listing, writes)
    BY <1>2 DEF Starts
  <2>1. files' = listing /\ previous' = ledger /\ ledger' = ledger
    BY DEF Apply
  <2>2. ASSUME NEW n \in Names
        PROVE  /\ known[FileOf[n]] \subseteq known'[FileOf[n]]
               /\ listing[n] # None => listing[n] \in known'[FileOf[n]]
    <3>1. n \in Paths(listing) <=> listing[n] # None
      BY DEF Paths
    <3> QED
      BY <3>1, TypeFacts DEF Apply
  <2> QED
    BY <2>1, <2>2 DEF KnownCovers
<1>3. CASE Ends \/ Between
  <2>1. /\ known' = known /\ files' = Nothing
        /\ previous' = Nothing /\ ledger' \in {ledger, files, Nothing}
    BY <1>3 DEF Ends, Record, Stop, Between, Edit, LoseLedger, Clean, Returns
  <2> QED
    BY <2>1, ListingFacts DEF KnownCovers
<1>4. CASE (\E n \in Names : Goes(n)) \/ TurnsOver
  BY <1>1, <1>4 DEF Goes, PassUnchanged, WriteFile, Keep, Remove, RemoveFails,
     TurnsOver, BeginSweep, EndSweep, histories
<1>5. CASE UNCHANGED vars
  BY <1>1, <1>5 DEF vars, call, histories
<1> QED
  BY <1>2, <1>3, <1>4, <1>5, NextSteps

LEMMA CheckedNext == IInv /\ [Next]_vars => CheckedSoFar'
<1> SUFFICES ASSUME IInv, [Next]_vars PROVE CheckedSoFar'
  OBVIOUS
<1> USE DEF IInv
<1>1. CASE Ends \/ Between
  BY <1>1 DEF Ends, Record, Stop, Between, Edit, LoseLedger, Clean, Returns, CheckedSoFar
<1>2. CASE Starts
  BY <1>2 DEF Starts, Apply, CheckedSoFar, Through
<1>3. ASSUME NEW n \in Names, Goes(n), ~write', report' = {}
      PROVE  CheckedSoFar'
  <2>1. /\ PassUnchanged(n) \/ Keep(n)
        /\ UNCHANGED <<disk, write, phase, files, previous, report>>
    BY <1>3 DEF Goes, PassUnchanged, WriteFile, Keep, Remove, RemoveFails, Reported
  <2>2. phase # "idle" /\ n \in todo /\ todo' = todo \ {n}
    BY <2>1 DEF PassUnchanged, Keep, Turn, Seen
  <2>3. \A m \in Through' : m \in Through \/ (m = n /\ PassUnchanged(n))
    BY <2>1, <2>2 DEF Through, Paths, Keep, Turn
  <2>4. \A m \in Through' : disk[FileOf[m]] = files[m]
    BY <1>3, <2>1, <2>2, <2>3 DEF CheckedSoFar, PassUnchanged, Unchanged
  <2>5. ASSUME phase # "writing", NEW m \in (Paths(previous) \ Paths(files)) \ todo'
        PROVE  disk[FileOf[m]] # previous[m]
    BY <1>3, <2>1, <2>2, <2>5 DEF CheckedSoFar, Keep, PassUnchanged, Turn
  <2> QED
    BY <2>1, <2>4, <2>5 DEF CheckedSoFar, Paths
<1>4. CASE TurnsOver
  <2>1. UNCHANGED <<disk, write, files, previous, report>> /\ todo = {} /\ phase # "idle"
        /\ phase' # "idle" /\ phase' # "writing"
    BY <1>4 DEF TurnsOver, BeginSweep, EndSweep, histories
  <2>2. Through' = Through
    BY <1>4, <2>1 DEF TurnsOver, BeginSweep, EndSweep, Through, Paths
  <2>3. \A m \in (Paths(previous) \ Paths(files)) \ todo' :
           m \in (Paths(previous) \ Paths(files)) \ todo /\ phase # "writing"
    BY <1>4, <2>1 DEF TurnsOver, BeginSweep, EndSweep
  <2> QED
    BY <2>1, <2>2, <2>3 DEF CheckedSoFar, Paths
<1>5. CASE UNCHANGED vars
  BY <1>5 DEF vars, call, histories, CheckedSoFar, Through, Paths
<1> QED
  BY <1>1, <1>2, <1>3, <1>4, <1>5, NextSteps DEF CheckedSoFar

\* Where a file daukle wrote is listed, while a sync is going on.
Listed(f) ==
  \/ Holds(files, Through, f)
  \/ phase = "writing" /\ Holds(previous, Paths(previous), f)
       /\ \A n \in Through : FileOf[n] # f
  \/ phase = "sweeping" /\ Holds(previous, todo, f)

LEMMA GoesListed ==
  ASSUME IInv, NEW n \in Names, Goes(n), write, tidy', NEW f \in Files,
         origin'[f] = "daukle", origin[f] = "daukle" => Listed(f)
  PROVE  Listed(f)'
<1>1. /\ phase \in {"writing", "sweeping"} /\ n \in todo /\ todo' = todo \ {n}
      /\ UNCHANGED <<phase, files, previous>>
      /\ TypeOK
  BY DEF IInv, Goes, PassUnchanged, WriteFile, Keep, Remove, RemoveFails, Turn, Seen
<1>2. Through' = Through \cup (IF phase = "writing" THEN {n} ELSE {})
  BY <1>1 DEF IInv, CallFollows, Through, Paths
<1>3. CASE FileOf[n] = f
  <2>1. CASE phase = "writing"
    <3>1. n \in Through' /\ disk'[f] = files'[n]
      BY <1>1, <1>2, <1>3, <2>1, TypeFacts
      DEF Goes, PassUnchanged, WriteFile, Keep, Remove, RemoveFails, Turn, Unchanged, TypeOK
    <3> QED
      BY <1>3, <3>1 DEF Listed, Holds
  <2>2. CASE phase = "sweeping"
    <3>1. Keep(n)
      <4>1. ~PassUnchanged(n) /\ ~WriteFile(n)
        BY <2>2 DEF PassUnchanged, WriteFile, Turn
      <4>2. ~Remove(n)
        BY <1>1, <1>3 DEF Remove, TypeOK, Origins
      <4>3. ~RemoveFails(n)
        BY DEF RemoveFails
      <4> QED
        BY <4>1, <4>2, <4>3 DEF Goes
    <3>2. disk' = disk /\ origin' = origin /\ disk[f] # previous[n]
      BY <1>3, <3>1 DEF Keep, histories
    <3>3. CASE Holds(files, Through, f)
      BY <1>1, <1>2, <2>2, <3>2, <3>3 DEF Listed, Holds
    <3>4. CASE Holds(previous, todo, f)
      <4>1. PICK m \in todo : FileOf[m] = f /\ disk[f] = previous[m]
        BY <3>4 DEF Holds
      <4>2. m \in todo'
        BY <1>1, <3>2, <4>1
      <4> QED
        BY <1>1, <2>2, <3>2, <4>1, <4>2 DEF Listed, Holds
    <3> QED
      BY <2>2, <3>2, <3>3, <3>4 DEF Listed
  <2> QED
    BY <1>1, <2>1, <2>2
<1>4. CASE FileOf[n] # f
  <2>1. disk'[f] = disk[f] /\ origin[f] = "daukle"
    BY <1>1, <1>4, TypeFacts
    DEF Goes, PassUnchanged, WriteFile, Keep, Remove, RemoveFails, TypeOK, histories
  <2>2. CASE Holds(files, Through, f)
    BY <1>1, <1>2, <2>1, <2>2 DEF Listed, Holds
  <2>3. CASE phase = "writing" /\ Holds(previous, Paths(previous), f)
              /\ \A m \in Through : FileOf[m] # f
    <3>1. \A m \in Through' : FileOf[m] # f
      BY <1>2, <1>4, <2>3
    <3> QED
      BY <1>1, <2>1, <2>3, <3>1 DEF Listed, Holds, Paths
  <2>4. CASE phase = "sweeping" /\ Holds(previous, todo, f)
    <3>1. PICK m \in todo : FileOf[m] = f /\ disk[f] = previous[m]
      BY <2>4 DEF Holds
    <3>2. m \in todo'
      BY <1>1, <1>4, <3>1
    <3> QED
      BY <1>1, <2>1, <2>4, <3>1, <3>2 DEF Listed, Holds
  <2> QED
    BY <2>1, <2>2, <2>3, <2>4 DEF Listed
<1> QED
  BY <1>3, <1>4

LEMMA OwnNext == IInv /\ [Next]_vars => OwnIsListed'
<1> SUFFICES ASSUME IInv, [Next]_vars, tidy', NEW f \in Files, origin'[f] = "daukle"
             PROVE  IF ~(Busy /\ write)' THEN Holds(ledger, Paths(ledger), f)' ELSE Listed(f)'
  BY DEF OwnIsListed, Listed
<1>0. /\ TypeOK /\ CallFollows
      /\ tidy /\ origin[f] = "daukle" =>
           IF ~(Busy /\ write) THEN Holds(ledger, Paths(ledger), f) ELSE Listed(f)
  BY DEF IInv, OwnIsListed, Listed
<1>1. CASE UNCHANGED vars
  BY <1>0, <1>1 DEF vars, call, histories, Busy, Holds, Listed, Through, Paths
<1>2. CASE Starts
  <2> PICK listing \in Listing, writes \in BOOLEAN : Apply(listing, writes)
    BY <1>2 DEF Starts
  <2>1. UNCHANGED <<disk, ledger, origin, tidy>> /\ ~Busy /\ previous' = ledger
        /\ phase' = "writing" /\ files' = listing /\ todo' = Paths(listing)
    BY DEF Apply
  <2>2. Holds(ledger, Paths(ledger), f)
    BY <1>0, <2>1
  <2>3. Through' = {}
    BY <2>1 DEF Through
  <2>4. Holds(ledger, Paths(ledger), f)'
    BY <2>1, <2>2 DEF Holds, Paths
  <2>5. Holds(previous, Paths(previous), f)'
    BY <2>1, <2>2 DEF Holds, Paths
  <2> QED
    BY <2>1, <2>3, <2>4, <2>5 DEF Listed
<1>3. ASSUME NEW n \in Names, Goes(n)
      PROVE  IF ~(Busy /\ write)' THEN Holds(ledger, Paths(ledger), f)' ELSE Listed(f)'
  <2>1. /\ Busy /\ Busy' /\ tidy /\ UNCHANGED <<ledger, write>>
    BY <1>3 DEF Goes, PassUnchanged, WriteFile, Keep, Remove, RemoveFails, Turn, Busy, histories
  <2>2. CASE ~write
    <3>1. UNCHANGED <<disk, origin>>
      BY <1>3, <2>2 DEF Goes, PassUnchanged, WriteFile, Keep, Remove, RemoveFails, histories
    <3> QED
      BY <1>0, <2>1, <2>2, <3>1 DEF Holds, Paths
  <2>3. CASE write
    BY <1>0, <1>3, <2>1, <2>3, GoesListed
  <2> QED
    BY <2>2, <2>3
<1>4. CASE TurnsOver
  <2>1. UNCHANGED <<disk, ledger, write, files, previous, origin, tidy>> /\ Busy /\ todo = {}
    BY <1>4 DEF TurnsOver, BeginSweep, EndSweep, histories, Busy
  <2>2. CASE ~write
    BY <1>0, <2>1, <2>2 DEF Holds, Paths
  <2>3. CASE write
    <3>1. Busy' /\ write' /\ Listed(f)
      BY <1>0, <1>4, <2>1, <2>3 DEF TurnsOver, BeginSweep, EndSweep, Busy
    <3>2. Through' = Through
      BY <1>4, <2>1 DEF TurnsOver, BeginSweep, EndSweep, Through, Paths
    <3>3. CASE Holds(files, Through, f)
      BY <2>1, <3>1, <3>2, <3>3 DEF Listed, Holds
    <3>4. CASE ~Holds(files, Through, f)
      <4>1. BeginSweep /\ Holds(previous, Paths(previous), f) /\ \A n \in Through : FileOf[n] # f
        BY <1>4, <2>1, <3>1, <3>4 DEF Listed, TurnsOver, BeginSweep, EndSweep, Holds
      <4>2. PICK n \in Paths(previous) : FileOf[n] = f /\ disk[f] = previous[n]
        BY <4>1 DEF Holds
      <4>3. n \in todo' /\ phase' = "sweeping"
        BY <2>1, <4>1, <4>2 DEF BeginSweep, Through
      <4> QED
        BY <2>1, <3>1, <4>2, <4>3 DEF Listed, Holds
    <3> QED
      BY <3>3, <3>4
  <2> QED
    BY <2>2, <2>3
<1>5. CASE Record
  <2>1. UNCHANGED <<disk, origin, tidy>> /\ ledger' = files /\ ~Busy'
        /\ phase = "recording" /\ Busy /\ write /\ todo = {}
    BY <1>0, <1>5 DEF Record, Returns, CallFollows, Busy
  <2>2. Holds(files, Through, f) /\ Through = Paths(files)
    BY <1>0, <2>1 DEF Listed, Through
  <2> QED
    BY <2>1, <2>2 DEF Holds, Paths
<1>6. CASE Stop
  <2>1. UNCHANGED <<disk, ledger, origin>> /\ tidy /\ ~write /\ ~Busy'
    BY <1>6 DEF Stop, Returns, Busy
  <2> QED
    BY <1>0, <2>1 DEF Holds, Paths
<1>7. CASE Between
  <2>1. ~Busy /\ ~Busy'
    BY <1>7 DEF Between, Edit, LoseLedger, Clean, Returns, Busy
  <2>2. PICK g \in Files, t \in Texts \cup {None} : Edit(g, t)
    BY <1>7 DEF Between, LoseLedger, Clean
  <2>3. /\ g # f /\ disk'[f] = disk[f] /\ origin[f] = "daukle" /\ UNCHANGED <<ledger, tidy>>
    BY <1>0, <2>2 DEF Edit, TypeOK, Origins
  <2> QED
    BY <1>0, <2>1, <2>3 DEF Holds, Paths
<1> QED
  BY <1>1, <1>2, <1>3, <1>4, <1>5, <1>6, <1>7, NextSteps DEF Ends

LEMMA NextIInv == IInv /\ [Next]_vars => IInv'
BY TypeNext, CallNext, KnownNext, CheckedNext, OwnNext DEF IInv

LEMMA IInvHolds == Spec => []IInv
BY InitIInv, NextIInv, PTL DEF Spec

-----------------------------------------------------------------------------
(* What holds however the paths are spelled.                               *)

\* Every state of the call and of the directory is one of its types.
THEOREM DerivedTypeCorrect == Spec => []TypeOK
BY IInvHolds, PTL DEF IInv

\* Of the steps of a sync or a check only the sweep takes a file away, and what it
\* compared with is a text a plugin generated for that very file.
THEOREM DerivedEditsAreKept == Spec => EditsAreKept
<1>1. ASSUME IInv, [Next]_vars, Busy, NEW f \in Files, disk[f] # None, disk'[f] = None
      PROVE  disk[f] \in known[f]
  <2>1. CASE \E n \in Names : Remove(n)
    <3> PICK n \in Names : Remove(n)
      BY <2>1
    <3>1. f = FileOf[n] /\ disk[f] = previous[n]
      BY <1>1, TypeFacts DEF Remove, IInv, TypeOK
    <3> QED
      BY <1>1, <3>1 DEF IInv, KnownCovers
  <2>2. CASE \E n \in Names : WriteFile(n)
    <3> PICK n \in Names : WriteFile(n)
      BY <2>2
    <3>1. files[n] # None
      BY <1>1 DEF WriteFile, Turn, IInv, CallFollows, Paths
    <3> QED
      BY <1>1, <3>1, TypeFacts DEF WriteFile, IInv, TypeOK
  <2>3. CASE UNCHANGED disk
    BY <1>1, <2>3
  <2> QED
    BY <1>1, <2>1, <2>2, <2>3, NextSteps
    DEF vars, Starts, Apply, Goes, PassUnchanged, Keep, RemoveFails, TurnsOver, BeginSweep,
        EndSweep, Ends, Record, Stop, Between, Edit, LoseLedger, Clean
<1>2. IInv /\ [Next]_vars =>
        [Busy => \A f \in Files : disk[f] # None /\ disk'[f] = None => disk[f] \in known[f]]_vars
  BY <1>1
<1> QED
  BY <1>2, IInvHolds, PTL DEF Spec, EditsAreKept

\* As long as no sync was cut short, nothing daukle wrote is left behind by
\* one that succeeds.
THEOREM DerivedNoStrays == Spec => []NoStrays
<1>1. IInv => NoStrays
  <2> SUFFICES ASSUME IInv, tidy, settled # None, NEW f \in Files, origin[f] = "daukle"
               PROVE  \E n \in Paths(settled) : FileOf[n] = f
    BY DEF NoStrays
  <2>1. ~(Busy /\ write) /\ ledger = settled
    BY DEF IInv, CallFollows, SettledIsRecorded
  <2> QED
    BY <2>1 DEF IInv, OwnIsListed, Holds
<1> QED
  BY <1>1, IInvHolds, PTL

-----------------------------------------------------------------------------
(* What holds when no two paths lead to one file.                          *)

\* A step of a sync leaves the files of the other paths alone.
LEMMA OthersStay ==
  ASSUME Distinct, TypeOK, NEW n \in Names, Goes(n), NEW m \in Names, m # n
  PROVE  disk'[FileOf[m]] = disk[FileOf[m]]
BY TypeFacts DEF Distinct, Goes, PassUnchanged, WriteFile, Keep, Remove, RemoveFails, TypeOK

LEMMA WrittenNext == Distinct /\ IInv /\ WrittenSoFar /\ [Next]_vars => WrittenSoFar'
<1> SUFFICES ASSUME Distinct, IInv, WrittenSoFar, [Next]_vars, Busy', write',
                    NEW m \in Through'
             PROVE  disk'[FileOf[m]] = files'[m]
  BY DEF WrittenSoFar
<1>1. CASE UNCHANGED vars
  BY <1>1 DEF vars, call, histories, WrittenSoFar, Through, Paths, Busy
<1>2. CASE Starts
  BY <1>2 DEF Starts, Apply, Through
<1>3. ASSUME NEW n \in Names, Goes(n)
      PROVE  disk'[FileOf[m]] = files'[m]
  <2>1. /\ UNCHANGED <<phase, write, files, previous>> /\ Busy /\ n \in todo /\ todo' = todo \ {n}
        /\ m \in Names /\ TypeOK /\ m \in Paths(files)
    BY <1>3 DEF IInv, Goes, PassUnchanged, WriteFile, Keep, Remove, RemoveFails, Turn, Seen,
       Busy, Through, Paths
  <2>2. CASE m = n
    <3>1. phase = "writing"
      BY <1>3, <2>1, <2>2 DEF IInv, CallFollows, Goes, PassUnchanged, WriteFile, Keep, Remove,
         RemoveFails, Turn
    <3> QED
      BY <1>3, <2>1, <2>2, <3>1, TypeFacts
      DEF Goes, PassUnchanged, WriteFile, Keep, Remove, RemoveFails, Turn, Unchanged, TypeOK
  <2>3. CASE m # n
    <3>1. m \in Through
      BY <2>1, <2>3 DEF Through, Paths
    <3>2. disk'[FileOf[m]] = disk[FileOf[m]]
      BY <1>3, <2>1, <2>3, OthersStay
    <3> QED
      BY <2>1, <3>1, <3>2 DEF WrittenSoFar
  <2> QED
    BY <2>2, <2>3
<1>4. CASE TurnsOver
  BY <1>4 DEF TurnsOver, BeginSweep, EndSweep, WrittenSoFar, Through, Paths, Busy
<1>5. CASE Ends \/ Between
  BY <1>5 DEF Ends, Record, Stop, Between, Edit, LoseLedger, Clean, Returns, Busy
<1> QED
  BY <1>1, <1>2, <1>3, <1>4, <1>5, NextSteps

LEMMA GeneratedNext ==
  IInv /\ WrittenSoFar /\ GeneratedIsThere /\ [Next]_vars => GeneratedIsThere'
<1> SUFFICES ASSUME IInv, WrittenSoFar, GeneratedIsThere, [Next]_vars, settled' # None,
                    NEW m \in Paths(settled')
             PROVE  disk'[FileOf[m]] = settled'[m]
  BY DEF GeneratedIsThere, Paths
<1>1. CASE UNCHANGED <<disk, settled>>
  BY <1>1 DEF GeneratedIsThere
<1>2. CASE Record
  <2>1. /\ settled' = files /\ disk' = disk /\ Busy /\ write /\ phase = "recording"
    BY <1>2 DEF Record, IInv, CallFollows, Busy
  <2>2. m \in Through
    BY <2>1 DEF Through
  <2> QED
    BY <2>1, <2>2 DEF WrittenSoFar
<1>3. ASSUME NEW n \in Names, Goes(n), ~UNCHANGED disk
      PROVE  settled' = None
  BY <1>3 DEF IInv, CallFollows, Goes, PassUnchanged, WriteFile, Keep, Remove, RemoveFails,
     Turn, Busy, histories
<1>4. \A n \in Names : Goes(n) => settled' = settled
  BY DEF Goes, PassUnchanged, WriteFile, Keep, Remove, RemoveFails, histories
<1> QED
  BY <1>1, <1>2, <1>3, <1>4, NextSteps
  DEF vars, histories, Starts, Apply, TurnsOver, BeginSweep, EndSweep, Ends, Stop, Between,
      Edit, LoseLedger, Clean

LEMMA QuietNext ==
  IInv /\ GeneratedIsThere /\ QuietAfterSync /\ [Next]_vars => QuietAfterSync'
<1> SUFFICES ASSUME IInv, GeneratedIsThere, QuietAfterSync, [Next]_vars,
                    phase' # "idle", settled' # None, settled' = files'
             PROVE  report' = {}
  BY DEF QuietAfterSync
<1>1. CASE UNCHANGED vars
  BY <1>1 DEF vars, call, histories, QuietAfterSync
<1>2. CASE Starts
  BY <1>2 DEF Starts, Apply
<1>3. ASSUME NEW n \in Names, Goes(n)
      PROVE  report' = {}
  <2>1. /\ UNCHANGED <<settled, files>> /\ phase # "idle" /\ report = {}
    BY <1>3 DEF QuietAfterSync, Goes, PassUnchanged, WriteFile, Keep, Remove, RemoveFails,
       Turn, histories
  <2>2. previous = settled
    BY <2>1 DEF IInv, CallFollows, SettledIsRecorded
  <2>3. phase = "writing"
    BY <1>3, <2>1, <2>2 DEF IInv, CallFollows, Goes, PassUnchanged, WriteFile, Keep, Remove,
       RemoveFails, Turn
  <2>4. n \in Paths(settled)
    BY <1>3, <2>1, <2>3 DEF IInv, CallFollows, Goes, PassUnchanged, WriteFile, Keep, Remove,
       RemoveFails, Turn
  <2>5. Unchanged(n)
    BY <2>1, <2>4 DEF GeneratedIsThere, Unchanged
  <2>6. PassUnchanged(n)
    BY <1>3, <2>3, <2>5 DEF Goes, WriteFile, Keep, Remove, RemoveFails, Turn
  <2> QED
    BY <2>1, <2>6 DEF PassUnchanged
<1>4. CASE TurnsOver
  BY <1>4 DEF TurnsOver, BeginSweep, EndSweep, QuietAfterSync, histories
<1>5. CASE Ends \/ Between
  BY <1>5 DEF Ends, Record, Stop, Between, Edit, LoseLedger, Clean, Returns
<1> QED
  BY <1>1, <1>2, <1>3, <1>4, <1>5, NextSteps

LEMMA DistinctInvHolds == Distinct => (Spec => []DistinctInv)
<1> SUFFICES ASSUME Distinct PROVE Spec => []DistinctInv
  OBVIOUS
<1>1. Init => DistinctInv
  BY DEF Init, DistinctInv, WrittenSoFar, GeneratedIsThere, QuietAfterSync, Busy
<1>2. IInv /\ DistinctInv /\ [Next]_vars => DistinctInv'
  BY WrittenNext, GeneratedNext, QuietNext DEF DistinctInv
<1> QED
  BY <1>1, <1>2, IInvHolds, PTL DEF Spec

\* After a sync that succeeded every generated file is there, whatever earlier
\* runs left undone, when each path has a file of its own.
THEOREM DerivedGeneratedIsThere == Distinct => (Spec => []GeneratedIsThere)
<1> SUFFICES ASSUME Distinct PROVE Spec => []GeneratedIsThere
  OBVIOUS
<1>1. DistinctInv => GeneratedIsThere
  BY DEF DistinctInv
<1> QED
  BY <1>1, DistinctInvHolds, PTL

\* A check answers what a sync would do, when each path has a file of its own.
THEOREM DerivedCheckIsHonest == Distinct => (Spec => []CheckIsHonest)
<1> SUFFICES ASSUME Distinct PROVE Spec => []CheckIsHonest
  OBVIOUS
<1>1. IInv /\ DistinctInv => CheckIsHonest
  <2> SUFFICES ASSUME IInv, DistinctInv, phase = "checked" PROVE
        /\ settled # None /\ settled = files => report = {}
        /\ report = {} =>
             /\ \A n \in Paths(files) : disk[FileOf[n]] = files[n]
             /\ \A n \in Paths(ledger) \ Paths(files) : disk[FileOf[n]] # ledger[n]
    BY DEF CheckIsHonest
  <2>1. ~write /\ todo = {} /\ previous = ledger /\ Through = Paths(files)
    BY DEF IInv, CallFollows, Through
  <2>2. settled # None /\ settled = files => report = {}
    BY DEF DistinctInv, QuietAfterSync
  <2>3. report = {} =>
          /\ \A n \in Paths(files) : disk[FileOf[n]] = files[n]
          /\ \A n \in Paths(ledger) \ Paths(files) : disk[FileOf[n]] # ledger[n]
    BY <2>1 DEF IInv, CheckedSoFar
  <2> QED
    BY <2>2, <2>3
<1> QED
  BY <1>1, IInvHolds, DistinctInvHolds, PTL
=============================================================================
