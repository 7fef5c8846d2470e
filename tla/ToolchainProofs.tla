--------------------------- MODULE ToolchainProofs ---------------------------
(***************************************************************************)
(* Proofs about how a tool comes onto the disk: Provision, for any number  *)
(* of machines, pids, digests, members and attempts, and the unpacking it  *)
(* rests on (Unpack), for any archives, limits and link depth.             *)
(*                                                                         *)
(* Provision.  The inductive invariant says what each process knows at     *)
(* each step: its temporary directory has its own name, so no other        *)
(* process that lives uses it; from making on it holds only what this      *)
(* attempt put there; and what has been unpacked, with what is left, is    *)
(* the archive of the pin.                                                 *)
(*                                                                         *)
(* Unpack.  What WithinTheLimit and TreeIsTheArchive need is nowhere near  *)
(* them: that no link is above a name that passes the checks, so a walk    *)
(* through the tree leads where the name says (WalkIs, LeafIs); that the   *)
(* slots of the extension headers hold what the last of them said          *)
(* (SlotsAreLast); that the tree hangs together; and that whatever is in   *)
(* it is a member's or above one (TreeIsSaid).  A walk, a tree being made  *)
(* and the slots are recursive functions, and the sum of the sizes is a    *)
(* fold: what they keep at every turn is shown of the first turn that      *)
(* would not (LeastMember).                                                *)
(*                                                                         *)
(* CopiesReadTheSame needs a second invariant (CopyInv): every link that   *)
(* was put off is one a member said and that was let through, and every    *)
(* copy is of the file its link resolves to.  What resolve_through_links   *)
(* folds by its spelling is then followed turn by turn by a reader of the  *)
(* link: a target that folds right leads over directories (TargetLeads,    *)
(* WalkFollows) to the last name of what it is folded to (ReaderHops), and *)
(* after the last hop to the file (ReaderComes).                           *)
(***************************************************************************)
EXTENDS Provision, Unpack, SequenceTheorems, FiniteSetTheorems, WellFoundedInduction, TLAPS

-----------------------------------------------------------------------------
(* Provision.                                                              *)


\* What is unpacked so far, of the archive of digest.
Unpacked(digest, rest) == {digest} \X (Members \ rest)

OwnTemp(p) == temp[p][1] = p[1] /\ temp[p][2] = p[2]

KnowsStep(p) ==
  /\ ~At(p, "idle") => want[p] \in Digests
  /\ At(p, "making") => temps[temp[p]] = Gone
  /\ At(p, "fetching") => temps[temp[p]].tree = Nothing
  /\ At(p, "opening") => temps[temp[p]].tree = Nothing /\ temps[temp[p]].archive = want[p]
  /\ At(p, "unpacking") => /\ opened[p] = want[p]
                           /\ temps[temp[p]].tree = Unpacked(want[p], left[p])

KnowsAnswer(p) ==
  /\ At(p, "cleaning") /\ status[p] = "ok" => entries[want[p]] # Nothing
  /\ result[p] = "ok" => want[p] \in Digests /\ entries[want[p]] # Nothing

ProcessInv == \A p \in Processes : OwnTemp(p) /\ KnowsStep(p) /\ KnowsAnswer(p)

IInv == TypeOK /\ ProcessInv /\ PresentIsComplete /\ NoLitter

-----------------------------------------------------------------------------
\* Two processes never have one temporary directory.
LEMMA TempsDiffer ==
  ASSUME ProcessInv, NEW p \in Processes, NEW q \in Processes, p # q
  PROVE  temp[p] # temp[q]
BY DEF ProcessInv, OwnTemp, Processes

\* What one process does, in its own directory and by adding entries, leaves
\* what the others know as it was.
LEMMA OthersKnow ==
  ASSUME TypeOK, ProcessInv, NEW p \in Processes, NEW q \in Processes, p # q,
         /\ step'[q] = step[q] /\ want'[q] = want[q] /\ temp'[q] = temp[q]
         /\ opened'[q] = opened[q] /\ left'[q] = left[q]
         /\ status'[q] = status[q] /\ result'[q] = result[q],
         \A n \in TempNames : n # temp[p] => temps'[n] = temps[n],
         \A d \in Digests : entries[d] # Nothing => entries'[d] = entries[d]
  PROVE  (OwnTemp(q) /\ KnowsStep(q) /\ KnowsAnswer(q))'
<1>1. temp[q] # temp[p] /\ temp[q] \in TempNames
  BY TempsDiffer DEF TypeOK
<1>2. temps'[temp'[q]] = temps[temp[q]]
  BY <1>1
<1>3. OwnTemp(q) /\ KnowsStep(q) /\ KnowsAnswer(q)
  BY DEF ProcessInv
<1>4. OwnTemp(q)'
  BY <1>3 DEF OwnTemp
<1>5. KnowsStep(q)'
  BY <1>2, <1>3 DEF KnowsStep, At
<1>6. KnowsAnswer(q)'
  BY <1>3 DEF KnowsAnswer, KnowsStep, At
<1> QED
  BY <1>4, <1>5, <1>6

\* A temporary directory that is not this process's is litter as before.
LEMMA LitterElsewhere ==
  ASSUME TypeOK, ProcessInv, NoLitter, NEW p \in Processes,
         \A q \in Processes : q # p => step'[q] = step[q] /\ temp'[q] = temp[q],
         \A n \in TempNames : n # temp[p] => temps'[n] = temps[n],
         abandoned \subseteq abandoned',
         NEW n \in TempNames, n # temp[p], temps'[n] # Gone
  PROVE  n \in abandoned' \/ \E q \in Processes : step'[q] # "idle" /\ temp'[q] = n
BY DEF NoLitter

\* Enough for NoLitter after a step of p.
LEMMA LitterKept ==
  ASSUME TypeOK, ProcessInv, NoLitter, NEW p \in Processes,
         \A q \in Processes : q # p => step'[q] = step[q] /\ temp'[q] = temp[q],
         \A n \in TempNames : n # temp[p] => temps'[n] = temps[n],
         abandoned \subseteq abandoned',
         \/ temps'[temp[p]] = Gone
         \/ temp[p] \in abandoned'
         \/ temp'[p] = temp[p] /\ step'[p] # "idle"
  PROVE  NoLitter'
<1> SUFFICES ASSUME NEW n \in TempNames, temps'[n] # Gone
             PROVE  n \in abandoned' \/ \E q \in Processes : step'[q] # "idle" /\ temp'[q] = n
  BY DEF NoLitter
<1>1. CASE n = temp[p]
  BY <1>1
<1>2. CASE n # temp[p]
  BY <1>2, LitterElsewhere
<1> QED
  BY <1>1, <1>2

\* Nothing is known that could fail, and nothing is there.
LEMMA InitIInv == Init => IInv
<1> SUFFICES ASSUME Init PROVE IInv
  OBVIOUS
<1>1. TypeOK
  BY ProvisionAssumption DEF Init, TypeOK, Processes, TempNames, Attempts, Tree, Files,
     Temp,
     Gone, Nothing, Steps, Results, TempName
<1>2. ProcessInv
  BY DEF Init, ProcessInv, OwnTemp, KnowsStep, KnowsAnswer, At, TempName, Processes
<1>3. PresentIsComplete /\ NoLitter
  BY DEF Init, PresentIsComplete, NoLitter
<1> QED
  BY <1>1, <1>2, <1>3 DEF IInv

-----------------------------------------------------------------------------
\* What a step of p leaves alone: what the others know, the other temporary
\* directories, and the entries that are there.
Untouched(q) ==
  /\ step'[q] = step[q] /\ want'[q] = want[q] /\ temp'[q] = temp[q]
  /\ opened'[q] = opened[q] /\ left'[q] = left[q]
  /\ status'[q] = status[q] /\ result'[q] = result[q]
Leaves(p) ==
  /\ \A q \in Processes : q # p => Untouched(q)
  /\ \A n \in TempNames : n # temp[p] => temps'[n] = temps[n]
  /\ \A d \in Digests : entries[d] # Nothing => entries'[d] = entries[d]
  /\ abandoned \subseteq abandoned'

\* Every step keeps the types.
LEMMA StepTypeOK ==
  ASSUME IInv, NEW p \in Processes, Provision(p) \/ Die(p)
  PROVE  TypeOK'
<1>1. ASSUME NEW d \in Digests, AnswerCached(p, d)
  PROVE TypeOK'
  BY <1>1 DEF AnswerCached, To, At, Returns, IInv, TypeOK, Steps, Results, Nothing
<1>2. ASSUME NEW d \in Digests, Begin(p, d)
  PROVE TypeOK'
  <2>1. attempts[p] \in Attempts /\ attempts[p] + 1 \in Attempts
    BY <1>2, ProvisionAssumption DEF Begin, IInv, TypeOK, Attempts
  <2>2. TempName(p, attempts[p]) \in TempNames
    BY <2>1 DEF TempName, TempNames, Processes
  <2> QED
    BY <1>2, <2>1, <2>2 DEF Begin, To, At, IInv, TypeOK, Steps, Results
<1>3. CASE Clear(p)
  BY <1>3 DEF Clear, To, At, Puts, IInv, TypeOK, Steps, Results, Temp, Gone, Tree, Nothing
<1>4. CASE Make(p)
  <2>1. temps[temp[p]] \in Temp /\ temp[p] \in TempNames
    BY DEF IInv, TypeOK
  <2>2. [temps[temp[p]] EXCEPT !.there = TRUE] \in Temp
    BY <1>4, <2>1 DEF Make, Temp, Tree, Files, Nothing, Mine
  <2>3. temps' \in [TempNames -> Temp]
    BY <1>4, <2>1, <2>2 DEF Make, IInv, TypeOK, Puts, Mine
  <2>4. step' \in [Processes -> Steps] /\ status' \in [Processes -> Results]
    BY <1>4 DEF Make, IInv, TypeOK, To, Steps, Results
  <2> QED
    BY <1>4, <2>3, <2>4 DEF Make, IInv, TypeOK
<1>5. CASE MakeFails(p)
  BY <1>5 DEF MakeFails, To, At, Returns, IInv, TypeOK, Steps, Results
<1>6. ASSUME NEW d \in Digests, Fetch(p, d)
  PROVE TypeOK'
  <2>1. temps[temp[p]] \in Temp /\ temp[p] \in TempNames
    BY DEF IInv, TypeOK
  <2>2. [temps[temp[p]] EXCEPT !.archive = d] \in Temp
    BY <1>6, <2>1 DEF Fetch, Temp, Tree, Files, Mine
  <2>3. temps' \in [TempNames -> Temp]
    BY <1>6, <2>1, <2>2 DEF Fetch, IInv, TypeOK, Puts, Mine
  <2>4. step' \in [Processes -> Steps] /\ status' \in [Processes -> Results]
    BY <1>6 DEF Fetch, IInv, TypeOK, To, CleansUp, Steps, Results
  <2> QED
    BY <1>6, <2>3, <2>4 DEF Fetch, IInv, TypeOK
<1>7. CASE FetchFails(p)
  BY <1>7 DEF FetchFails, To, At, CleansUp, IInv, TypeOK, Steps, Results
<1>8. CASE OpenArchive(p)
  BY <1>8 DEF OpenArchive, To, At, Mine, IInv, TypeOK, Steps, Temp
<1>9. CASE OpenFails(p)
  BY <1>9 DEF OpenFails, To, At, CleansUp, IInv, TypeOK, Steps, Results
<1>10. ASSUME NEW member \in Members, UnpackMember(p, member)
  PROVE TypeOK'
  <2>1. temps[temp[p]] \in Temp /\ temp[p] \in TempNames
    BY DEF IInv, TypeOK
  <2>2. At(p, "unpacking") /\ opened[p] \in Digests
    BY <1>10 DEF UnpackMember, IInv, ProcessInv, KnowsStep, At
  <2>3. <<opened[p], member>> \in Files
    BY <2>2 DEF Files
  <2>4. [temps[temp[p]] EXCEPT !.there = TRUE,
                               !.tree = @ \cup {<<opened[p], member>>}] \in Temp
    BY <1>10, <2>1, <2>3 DEF UnpackMember, Temp, Tree, Files, Nothing, Mine
  <2>5. temps' \in [TempNames -> Temp]
    BY <1>10, <2>1, <2>4 DEF UnpackMember, IInv, TypeOK, Puts, Mine
  <2>6. step' \in [Processes -> Steps] /\ status' \in [Processes -> Results]
    BY <1>10 DEF UnpackMember, IInv, TypeOK, Steps, Results
  <2> QED
    BY <1>10, <2>5, <2>6 DEF UnpackMember, IInv, TypeOK
<1>11. CASE UnpackFails(p)
  BY <1>11 DEF UnpackFails, To, At, CleansUp, IInv, TypeOK, Steps, Results
<1>12. CASE MoveIn(p)
  <2>1. temps[temp[p]] \in Temp /\ temp[p] \in TempNames
    BY DEF IInv, TypeOK
  <2>2. [temps[temp[p]] EXCEPT !.tree = Nothing] \in Temp
    BY <1>12, <2>1 DEF MoveIn, Temp, Tree, Files, Nothing, Mine
  <2>3. temps' \in [TempNames -> Temp]
    BY <1>12, <2>1, <2>2 DEF MoveIn, IInv, TypeOK, Puts, Mine
  <2>4. step' \in [Processes -> Steps] /\ status' \in [Processes -> Results]
    BY <1>12 DEF MoveIn, IInv, TypeOK, To, CleansUp, Steps, Results
  <2>5. entries' \in [Digests -> Tree]
    BY <1>12, <2>1 DEF MoveIn, IInv, TypeOK, Mine, Temp
  <2> QED
    BY <1>12, <2>3, <2>4, <2>5 DEF MoveIn, IInv, TypeOK
<1>13. CASE MoveRefused(p)
  BY <1>13 DEF MoveRefused, To, At, CleansUp, IInv, TypeOK, Steps, Results, Nothing
<1>14. CASE CleanUp(p)
  BY <1>14 DEF CleanUp, To, At, Puts, Returns, IInv, TypeOK, Steps, Results, Temp, Gone,
     Tree, Nothing
<1>15. CASE Die(p)
  <2>1. 0 \in Attempts /\ temp[p] \in TempNames
    BY ProvisionAssumption DEF Attempts, IInv, TypeOK
  <2> QED
    BY <1>15, <2>1 DEF Die, To, At, Returns, IInv, TypeOK, Steps, Results
<1> QED
  BY <1>1, <1>2, <1>3, <1>4, <1>5, <1>6, <1>7, <1>8, <1>9, <1>10, <1>11, <1>12, <1>13,
     <1>14, <1>15 DEF Provision

\* Every step is one process's own.
LEMMA StepLeaves ==
  ASSUME TypeOK, NEW p \in Processes, Provision(p) \/ Die(p)
  PROVE  Leaves(p)
<1>1. ASSUME NEW d \in Digests, AnswerCached(p, d)
  PROVE Leaves(p)
  BY <1>1 DEF AnswerCached, To, At, Returns, TypeOK, Leaves, Untouched
<1>2. ASSUME NEW d \in Digests, Begin(p, d)
  PROVE Leaves(p)
  BY <1>2 DEF Begin, To, At, TypeOK, Leaves, Untouched
<1>3. CASE Clear(p)
  BY <1>3 DEF Clear, To, At, Puts, TypeOK, Leaves, Untouched
<1>4. CASE Make(p)
  BY <1>4 DEF Make, To, At, Puts, Mine, TypeOK, Leaves, Untouched
<1>5. CASE MakeFails(p)
  BY <1>5 DEF MakeFails, To, At, Returns, TypeOK, Leaves, Untouched
<1>6. ASSUME NEW d \in Digests, Fetch(p, d)
  PROVE Leaves(p)
  BY <1>6 DEF Fetch, To, At, Puts, Mine, CleansUp, TypeOK, Leaves, Untouched
<1>7. CASE FetchFails(p)
  BY <1>7 DEF FetchFails, To, At, CleansUp, TypeOK, Leaves, Untouched
<1>8. CASE OpenArchive(p)
  BY <1>8 DEF OpenArchive, To, At, Mine, TypeOK, Leaves, Untouched
<1>9. CASE OpenFails(p)
  BY <1>9 DEF OpenFails, To, At, CleansUp, TypeOK, Leaves, Untouched
<1>10. ASSUME NEW member \in Members, UnpackMember(p, member)
  PROVE Leaves(p)
  BY <1>10 DEF UnpackMember, At, Puts, Mine, TypeOK, Leaves, Untouched
<1>11. CASE UnpackFails(p)
  BY <1>11 DEF UnpackFails, To, At, CleansUp, TypeOK, Leaves, Untouched
<1>12. CASE MoveIn(p)
  BY <1>12 DEF MoveIn, To, At, Puts, Mine, CleansUp, TypeOK, Leaves, Untouched
<1>13. CASE MoveRefused(p)
  BY <1>13 DEF MoveRefused, To, At, CleansUp, TypeOK, Leaves, Untouched
<1>14. CASE CleanUp(p)
  BY <1>14 DEF CleanUp, To, At, Puts, Returns, TypeOK, Leaves, Untouched
<1>15. CASE Die(p)
  BY <1>15 DEF Die, To, At, Returns, TypeOK, Leaves, Untouched
<1> QED
  BY <1>1, <1>2, <1>3, <1>4, <1>5, <1>6, <1>7, <1>8, <1>9, <1>10, <1>11, <1>12, <1>13,
     <1>14, <1>15 DEF Provision

\* A process knows, after each of its steps, what the next relies on.
LEMMA StepKnows ==
  ASSUME IInv, TypeOK', NEW p \in Processes, Provision(p) \/ Die(p)
  PROVE  (OwnTemp(p) /\ KnowsStep(p) /\ KnowsAnswer(p))'
<1>1. ASSUME NEW d \in Digests, AnswerCached(p, d)
  PROVE (OwnTemp(p) /\ KnowsStep(p) /\ KnowsAnswer(p))'
  BY <1>1 DEF AnswerCached, To, At, Returns, IInv, ProcessInv, TypeOK, OwnTemp,
     KnowsStep, KnowsAnswer, Nothing
<1>2. ASSUME NEW d \in Digests, Begin(p, d)
  PROVE (OwnTemp(p) /\ KnowsStep(p) /\ KnowsAnswer(p))'
  <2>1. temp'[p] = TempName(p, attempts[p]) /\ step'[p] = "clearing"
        /\ want'[p] = d /\ result'[p] = "none"
    BY <1>2 DEF Begin, To, IInv, TypeOK
  <2>2. OwnTemp(p)'
    BY <2>1 DEF OwnTemp, TempName
  <2>3. (KnowsStep(p) /\ KnowsAnswer(p))'
    BY <2>1 DEF KnowsStep, KnowsAnswer, At
  <2> QED
    BY <2>2, <2>3
<1>3. CASE Clear(p)
  BY <1>3 DEF Clear, To, At, Puts, IInv, ProcessInv, TypeOK, OwnTemp, KnowsStep,
     KnowsAnswer, Gone, Nothing
<1>4. CASE Make(p)
  BY <1>4 DEF Make, To, At, Puts, Mine, IInv, ProcessInv, TypeOK, OwnTemp, KnowsStep,
     KnowsAnswer, Gone, Nothing
<1>5. CASE MakeFails(p)
  BY <1>5 DEF MakeFails, To, At, Returns, IInv, ProcessInv, TypeOK, OwnTemp, KnowsStep,
     KnowsAnswer
<1>6. ASSUME NEW d \in Digests, Fetch(p, d)
  PROVE (OwnTemp(p) /\ KnowsStep(p) /\ KnowsAnswer(p))'
  BY <1>6 DEF Fetch, To, At, Puts, Mine, CleansUp, IInv, ProcessInv, TypeOK, OwnTemp,
     KnowsStep, KnowsAnswer
<1>7. CASE FetchFails(p)
  BY <1>7 DEF FetchFails, To, At, CleansUp, IInv, ProcessInv, TypeOK, OwnTemp, KnowsStep,
     KnowsAnswer
<1>8. CASE OpenArchive(p)
  BY <1>8 DEF OpenArchive, To, At, Mine, IInv, ProcessInv, TypeOK, OwnTemp, KnowsStep,
     KnowsAnswer, Unpacked, Nothing
<1>9. CASE OpenFails(p)
  BY <1>9 DEF OpenFails, To, At, CleansUp, IInv, ProcessInv, TypeOK, OwnTemp, KnowsStep,
     KnowsAnswer
<1>10. ASSUME NEW member \in Members, UnpackMember(p, member)
  PROVE (OwnTemp(p) /\ KnowsStep(p) /\ KnowsAnswer(p))'
  BY <1>10 DEF UnpackMember, At, Puts, Mine, IInv, ProcessInv, TypeOK, OwnTemp,
     KnowsStep, KnowsAnswer, Unpacked, Nothing
<1>11. CASE UnpackFails(p)
  BY <1>11 DEF UnpackFails, To, At, CleansUp, IInv, ProcessInv, TypeOK, OwnTemp,
     KnowsStep, KnowsAnswer
<1>12. CASE MoveIn(p)
  BY <1>12 DEF MoveIn, To, At, Puts, Mine, CleansUp, IInv, ProcessInv, TypeOK, OwnTemp,
     KnowsStep, KnowsAnswer, Unpacked, Nothing
<1>13. CASE MoveRefused(p)
  BY <1>13 DEF MoveRefused, To, At, CleansUp, IInv, ProcessInv, TypeOK, OwnTemp,
     KnowsStep, KnowsAnswer, Nothing
<1>14. CASE CleanUp(p)
  BY <1>14 DEF CleanUp, To, At, Puts, Returns, IInv, ProcessInv, TypeOK, OwnTemp,
     KnowsStep, KnowsAnswer, Gone, Nothing
<1>15. CASE Die(p)
  BY <1>15 DEF Die, To, At, Returns, IInv, ProcessInv, TypeOK, OwnTemp, KnowsStep,
     KnowsAnswer
<1> QED
  BY <1>1, <1>2, <1>3, <1>4, <1>5, <1>6, <1>7, <1>8, <1>9, <1>10, <1>11, <1>12, <1>13,
     <1>14, <1>15 DEF Provision

\* Only a move adds an entry, and what it moves in is the whole archive.
LEMMA StepComplete ==
  ASSUME IInv, NEW p \in Processes, Provision(p) \/ Die(p)
  PROVE  PresentIsComplete'
<1>1. ASSUME NEW d \in Digests, AnswerCached(p, d)
  PROVE PresentIsComplete'
  BY <1>1 DEF AnswerCached, IInv, PresentIsComplete
<1>2. ASSUME NEW d \in Digests, Begin(p, d)
  PROVE PresentIsComplete'
  BY <1>2 DEF Begin, IInv, PresentIsComplete
<1>3. CASE Clear(p)
  BY <1>3 DEF Clear, IInv, PresentIsComplete
<1>4. CASE Make(p)
  BY <1>4 DEF Make, IInv, PresentIsComplete
<1>5. CASE MakeFails(p)
  BY <1>5 DEF MakeFails, IInv, PresentIsComplete
<1>6. ASSUME NEW d \in Digests, Fetch(p, d)
  PROVE PresentIsComplete'
  BY <1>6 DEF Fetch, IInv, PresentIsComplete
<1>7. CASE FetchFails(p)
  BY <1>7 DEF FetchFails, IInv, PresentIsComplete
<1>8. CASE OpenArchive(p)
  BY <1>8 DEF OpenArchive, IInv, PresentIsComplete
<1>9. CASE OpenFails(p)
  BY <1>9 DEF OpenFails, IInv, PresentIsComplete
<1>10. ASSUME NEW member \in Members, UnpackMember(p, member)
  PROVE PresentIsComplete'
  BY <1>10 DEF UnpackMember, IInv, PresentIsComplete
<1>11. CASE UnpackFails(p)
  BY <1>11 DEF UnpackFails, IInv, PresentIsComplete
<1>12. CASE MoveIn(p)
  <2>1. want[p] \in Digests /\ temps[temp[p]].tree = Unpacked(want[p],
     left[p]) /\ left[p] = {}
    BY <1>12 DEF MoveIn, IInv, ProcessInv, KnowsStep, At
  <2>2. temps[temp[p]].tree = Complete(want[p])
    BY <2>1 DEF Unpacked, Complete
  <2>3. entries' = [entries EXCEPT ![want[p]] = Complete(want[p])]
    BY <1>12, <2>2 DEF MoveIn, Mine
  <2> QED
    BY <2>1, <2>3 DEF IInv, TypeOK, PresentIsComplete
<1>13. CASE MoveRefused(p)
  BY <1>13 DEF MoveRefused, IInv, PresentIsComplete
<1>14. CASE CleanUp(p)
  BY <1>14 DEF CleanUp, IInv, PresentIsComplete
<1>15. CASE Die(p)
  BY <1>15 DEF Die, IInv, PresentIsComplete
<1> QED
  BY <1>1, <1>2, <1>3, <1>4, <1>5, <1>6, <1>7, <1>8, <1>9, <1>10, <1>11, <1>12, <1>13,
     <1>14, <1>15 DEF Provision

\* LitterKept, for a step of p.
LEMMA LitterFrame ==
  ASSUME IInv, NEW p \in Processes, Provision(p) \/ Die(p),
         \/ temps'[temp[p]] = Gone
         \/ temp[p] \in abandoned'
         \/ temp'[p] = temp[p] /\ step'[p] # "idle"
  PROVE  NoLitter'
<1>1. Leaves(p)
  BY StepLeaves DEF IInv
<1>2. \A q \in Processes : q # p => step'[q] = step[q] /\ temp'[q] = temp[q]
  BY <1>1 DEF Leaves, Untouched
<1>3. \A n \in TempNames : n # temp[p] => temps'[n] = temps[n]
  BY <1>1 DEF Leaves
<1>4. abandoned \subseteq abandoned'
  BY <1>1 DEF Leaves
<1> QED
  BY <1>2, <1>3, <1>4, LitterKept DEF IInv

\* A process that lives to the end of a call has removed what it made.
LEMMA StepLitter ==
  ASSUME IInv, NEW p \in Processes, Provision(p) \/ Die(p)
  PROVE  NoLitter'
<1>1. ASSUME NEW d \in Digests, AnswerCached(p, d)
  PROVE NoLitter'
  <2>1. step[p] = "idle" /\ step'[p] = "idle" /\ temps' = temps /\ temp' = temp
    BY <1>1 DEF AnswerCached, IInv, TypeOK, At, Returns, To
  <2> QED
    BY <2>1, StepLeaves DEF IInv, NoLitter, Leaves, Untouched
<1>2. ASSUME NEW d \in Digests, Begin(p, d)
  PROVE NoLitter'
  <2>1. step[p] = "idle" /\ temps' = temps
    BY <1>2 DEF Begin, At
  <2> QED
    BY <2>1, StepLeaves DEF IInv, NoLitter, Leaves, Untouched
<1>3. CASE Clear(p)
  <2>1. temps'[temp[p]] = Gone
    BY <1>3 DEF Clear, IInv, TypeOK, Puts
  <2> QED
    BY <2>1, LitterFrame
<1>4. CASE Make(p)
  <2>1. temp'[p] = temp[p] /\ step'[p] # "idle"
    BY <1>4 DEF Make, IInv, TypeOK, To
  <2> QED
    BY <2>1, LitterFrame
<1>5. CASE MakeFails(p)
  <2>1. temps'[temp[p]] = Gone
    BY <1>5 DEF MakeFails, IInv, TypeOK, ProcessInv, KnowsStep, At
  <2> QED
    BY <2>1, LitterFrame
<1>6. ASSUME NEW d \in Digests, Fetch(p, d)
  PROVE NoLitter'
  <2>1. temp'[p] = temp[p] /\ step'[p] # "idle"
    BY <1>6 DEF Fetch, IInv, TypeOK, To, CleansUp
  <2> QED
    BY <2>1, LitterFrame
<1>7. CASE FetchFails(p)
  <2>1. temp'[p] = temp[p] /\ step'[p] # "idle"
    BY <1>7 DEF FetchFails, IInv, TypeOK, To, CleansUp
  <2> QED
    BY <2>1, LitterFrame
<1>8. CASE OpenArchive(p)
  <2>1. temp'[p] = temp[p] /\ step'[p] # "idle"
    BY <1>8 DEF OpenArchive, IInv, TypeOK, To
  <2> QED
    BY <2>1, LitterFrame
<1>9. CASE OpenFails(p)
  <2>1. temp'[p] = temp[p] /\ step'[p] # "idle"
    BY <1>9 DEF OpenFails, IInv, TypeOK, To, CleansUp
  <2> QED
    BY <2>1, LitterFrame
<1>10. ASSUME NEW member \in Members, UnpackMember(p, member)
  PROVE NoLitter'
  <2>1. temp'[p] = temp[p] /\ step'[p] # "idle"
    BY <1>10 DEF UnpackMember, IInv, TypeOK, At
  <2> QED
    BY <2>1, LitterFrame
<1>11. CASE UnpackFails(p)
  <2>1. temp'[p] = temp[p] /\ step'[p] # "idle"
    BY <1>11 DEF UnpackFails, IInv, TypeOK, To, CleansUp
  <2> QED
    BY <2>1, LitterFrame
<1>12. CASE MoveIn(p)
  <2>1. temp'[p] = temp[p] /\ step'[p] # "idle"
    BY <1>12 DEF MoveIn, IInv, TypeOK, To, CleansUp
  <2> QED
    BY <2>1, LitterFrame
<1>13. CASE MoveRefused(p)
  <2>1. temp'[p] = temp[p] /\ step'[p] # "idle"
    BY <1>13 DEF MoveRefused, IInv, TypeOK, To, CleansUp
  <2> QED
    BY <2>1, LitterFrame
<1>14. CASE CleanUp(p)
  <2>1. temps'[temp[p]] = Gone
    BY <1>14 DEF CleanUp, IInv, TypeOK, Puts
  <2> QED
    BY <2>1, LitterFrame
<1>15. CASE Die(p)
  <2>1. CASE At(p, "idle")
    <3>1. step[p] = "idle" /\ temps' = temps /\ temp' = temp
      BY <1>15, <2>1 DEF Die, At
    <3> QED
      BY <3>1, StepLeaves DEF IInv, NoLitter, Leaves, Untouched
  <2>2. CASE ~At(p, "idle")
    <3>1. temp[p] \in abandoned'
      BY <1>15, <2>2 DEF Die
    <3> QED
      BY <3>1, LitterFrame
  <2> QED
    BY <2>1, <2>2
<1> QED
  BY <1>1, <1>2, <1>3, <1>4, <1>5, <1>6, <1>7, <1>8, <1>9, <1>10, <1>11, <1>12, <1>13,
     <1>14, <1>15 DEF Provision

-----------------------------------------------------------------------------
LEMMA NextPreservesIInv == IInv /\ [Next]_vars => IInv'
<1> SUFFICES ASSUME IInv, [Next]_vars PROVE IInv'
  OBVIOUS
<1>1. CASE UNCHANGED vars
  <2>1. TypeOK'
    BY <1>1 DEF IInv, TypeOK, vars, calls
  <2>2. ProcessInv'
    BY <1>1 DEF IInv, ProcessInv, OwnTemp, KnowsStep, KnowsAnswer, At, vars, calls
  <2>3. PresentIsComplete' /\ NoLitter'
    BY <1>1 DEF IInv, PresentIsComplete, NoLitter, vars, calls
  <2> QED
    BY <2>1, <2>2, <2>3 DEF IInv
<1>2. ASSUME NEW p \in Processes, Provision(p) \/ Die(p)
      PROVE  IInv'
  <2>1. TypeOK'
    BY <1>2, StepTypeOK
  <2>2. Leaves(p)
    BY <1>2, StepLeaves DEF IInv
  <2>3. (OwnTemp(p) /\ KnowsStep(p) /\ KnowsAnswer(p))'
    BY <1>2, <2>1, StepKnows
  <2>4. ASSUME NEW q \in Processes, q # p
        PROVE  (OwnTemp(q) /\ KnowsStep(q) /\ KnowsAnswer(q))'
    BY <2>2, <2>4, OthersKnow DEF IInv, Leaves, Untouched
  <2>5. ProcessInv'
    BY <2>3, <2>4 DEF ProcessInv
  <2>6. PresentIsComplete' /\ NoLitter'
    BY <1>2, StepComplete, StepLitter
  <2> QED
    BY <2>1, <2>5, <2>6 DEF IInv
<1> QED
  BY <1>1, <1>2 DEF Next

LEMMA SpecIInv == Spec => []IInv
<1> QED
  BY InitIInv, NextPreservesIInv, PTL DEF Spec

\* Every reachable state of the toolchains directory and of the calls that fill
\* it has the types TypeOK gives.
THEOREM ProvisionTypeCorrect == Spec => []TypeOK
<1>1. IInv => TypeOK
  BY DEF IInv
<1> QED
  BY <1>1, SpecIInv, PTL

\* Whoever raced, was killed or was given a killed process's pid, a toolchain's
\* directory that is there holds the whole archive of its digest and nothing
\* else: the reason fr_provision never looks into one again.
THEOREM ProvisionPresentIsComplete == Spec => []PresentIsComplete
<1>1. IInv => PresentIsComplete
  BY DEF IInv
<1> QED
  BY <1>1, SpecIInv, PTL

\* A call of fr_provision that returned FR_OK did so with the toolchain there,
\* and it is there still.
THEOREM ProvisionAnsweredIsThere == Spec => []AnsweredIsThere
<1>1. IInv => AnsweredIsThere
  BY DEF IInv, ProcessInv, KnowsAnswer, AnsweredIsThere
<1> QED
  BY <1>1, SpecIInv, PTL

\* A temporary directory that is there belongs to a call that runs or to a
\* process that was killed: no error path leaves one.
THEOREM ProvisionNoLitter == Spec => []NoLitter
<1>1. IInv => NoLitter
  BY DEF IInv
<1> QED
  BY <1>1, SpecIInv, PTL

\* No step of any process, its death included, changes or removes a toolchain
\* that is there.
THEOREM ProvisionEntriesStay == Spec => EntriesStay
<1>1. IInv /\ [Next]_vars =>
       [\A d \in Digests : entries[d] # Nothing => entries'[d] = entries[d]]_vars
  <2> SUFFICES ASSUME IInv, NEW p \in Processes, Provision(p) \/ Die(p), NEW d \in Digests,
                      entries[d] # Nothing
               PROVE  entries'[d] = entries[d]
    BY DEF Next
  <2>1. Leaves(p)
    BY StepLeaves DEF IInv
  <2> QED
    BY <2>1 DEF Leaves
<1> QED
  BY <1>1, SpecIInv, PTL DEF Spec, EntriesStay
-----------------------------------------------------------------------------
(* Unpacking: what is on disk in all.                                      *)

\* A nonempty set of naturals has a least member.
LEMMA LeastMember ==
  ASSUME NEW S \in SUBSET Nat, S # {}
  PROVE  \E least \in S : \A i \in S : least <= i
<1>1. PICK least \in S : \A i \in S : ~(<<i, least>> \in OpToRel(<, Nat))
  BY NatLessThanWellFounded, WFMin
<1>2. ASSUME NEW i \in S PROVE least <= i
  <2>1. ~(i < least)
    BY <1>1 DEF OpToRel
  <2> QED
    BY <2>1
<1> QED
  BY <1>2

Size(t) == MapThenSumSet(LAMBDA p : t[p].size, DOMAIN t)
IsSized(t) == IsFiniteSet(DOMAIN t) /\ \A p \in DOMAIN t : t[p].size \in Nat

\* A sum for every set of paths, to which any one of them adds its size.
SumsUp(sum, t) ==
  /\ sum \in [SUBSET DOMAIN t -> Nat] /\ sum[{}] = 0
  /\ \A some \in SUBSET DOMAIN t : \A p \in some : sum[some] = t[p].size + sum[some \ {p}]

\* Of at most this many paths, as MapThenSumSet takes them.
Upto(t, n) == {some \in SUBSET DOMAIN t : Cardinality(some) <= n}
Adds(t, f, some) ==
  IF some = {} THEN 0
  ELSE t[CHOOSE p \in some : TRUE].size + f[some \ {CHOOSE p \in some : TRUE}]

LEMMA FewerFacts ==
  ASSUME NEW t, IsSized(t), NEW some \in SUBSET DOMAIN t
  PROVE  /\ IsFiniteSet(some) /\ Cardinality(some) \in Nat /\ Cardinality(some) <= Cardinality(DOMAIN t)
         /\ Cardinality(some) = 0 <=> some = {}
         /\ \A p \in some : Cardinality(some \ {p}) = Cardinality(some) - 1
BY FS_Subset, FS_CardinalityType, FS_EmptySet, FS_RemoveElement DEF IsSized

LEMMA AddsExist ==
  ASSUME NEW t, IsSized(t), NEW n \in Nat
  PROVE  \E f : f = [some \in Upto(t, n) |-> Adds(t, f, some)]
<1> DEFINE Has(m) == \E f : f = [some \in Upto(t, m) |-> Adds(t, f, some)]
           without == {m \in Nat : ~Has(m)}
<1> SUFFICES ASSUME without # {} PROVE FALSE
  OBVIOUS
<1>1. PICK m \in without : \A k \in without : m <= k
  BY LeastMember
<1>2. CASE m = 0
  <2> DEFINE f == [some \in Upto(t, 0) |-> 0]
  <2>1. \A some \in Upto(t, 0) : some = {}
    BY FewerFacts DEF Upto
  <2>2. \A some \in Upto(t, 0) : Adds(t, f, some) = 0
    BY <2>1 DEF Adds
  <2>3. f = [some \in Upto(t, 0) |-> Adds(t, f, some)]
    BY <2>2
  <2> QED
    BY <1>1, <1>2, <2>3
<1>3. CASE m # 0
  <2>1. m - 1 \in Nat /\ Has(m - 1)
    BY <1>1, <1>3
  <2>2. PICK g : g = [some \in Upto(t, m - 1) |-> Adds(t, g, some)]
    BY <2>1
  <2> DEFINE f == [some \in Upto(t, m) |-> Adds(t, g, some)]
  <2>3. \A some \in Upto(t, m - 1) : some \in Upto(t, m) /\ f[some] = g[some]
    <3>1. \A some \in Upto(t, m - 1) : some \in Upto(t, m)
      BY <2>1, FewerFacts DEF Upto
    <3>2. \A some \in Upto(t, m - 1) : g[some] = Adds(t, g, some)
      BY <2>2
    <3> QED
      BY <3>1, <3>2
  <2>4. \A some \in Upto(t, m) : Adds(t, f, some) = Adds(t, g, some)
    <3> SUFFICES ASSUME NEW some \in Upto(t, m), some # {} PROVE Adds(t, f, some) = Adds(t, g, some)
      BY DEF Adds
    <3> DEFINE p == CHOOSE p \in some : TRUE
    <3>1. p \in some
      OBVIOUS
    <3>2. some \ {p} \in Upto(t, m - 1)
      <4>1. some \in SUBSET DOMAIN t /\ Cardinality(some) <= m
        BY DEF Upto
      <4>2. Cardinality(some \ {p}) = Cardinality(some) - 1 /\ Cardinality(some) \in Nat
        BY <3>1, <4>1, FewerFacts
      <4> HIDE DEF p
      <4> QED
        BY <4>1, <4>2, <2>1 DEF Upto
    <3>3. f[some \ {p}] = g[some \ {p}]
      BY <2>3, <3>2
    <3> QED
      BY <3>3 DEF Adds
  <2>5. f = [some \in Upto(t, m) |-> Adds(t, f, some)]
    BY <2>4
  <2> QED
    BY <1>1, <2>5
<1> QED
  BY <1>2, <1>3

LEMMA SizeSumsUp ==
  ASSUME NEW t, IsSized(t)
  PROVE  \E sum : SumsUp(sum, t) /\ Size(t) = sum[DOMAIN t]
<1> DEFINE all == SUBSET DOMAIN t
           sum == CHOOSE f : f = [some \in all |-> Adds(t, f, some)]
<1>1. sum = [some \in all |-> Adds(t, sum, some)]
  <2>1. Cardinality(DOMAIN t) \in Nat
    BY FewerFacts
  <2>2. Upto(t, Cardinality(DOMAIN t)) = all
    BY FewerFacts DEF Upto
  <2>3. PICK f : f = [some \in Upto(t, Cardinality(DOMAIN t)) |-> Adds(t, f, some)]
    BY <2>1, AddsExist, Zenon
  <2>4. f = [some \in all |-> Adds(t, f, some)]
    BY <2>2, <2>3, Zenon
  <2> QED
    BY <2>4, Zenon
<1>2. Size(t) = sum[DOMAIN t]
  BY DEF Size, MapThenSumSet, MapThenFoldSet, Adds
<1> HIDE DEF sum
<1>3. sum[{}] = 0
  BY <1>1 DEF Adds
<1>4. ASSUME NEW some \in all, some # {}
      PROVE  \E p \in some : sum[some] = t[p].size + sum[some \ {p}]
  <2> DEFINE p == CHOOSE p \in some : TRUE
  <2>1. p \in some
    BY <1>4
  <2>2. sum[some] = Adds(t, sum, some)
    BY <1>1
  <2>3. sum[some] = t[p].size + sum[some \ {p}]
    BY <1>4, <2>2, Zenon DEF Adds
  <2> QED
    BY <2>1, <2>3, Zenon
<1> DEFINE Well(some) == /\ sum[some] \in Nat
                         /\ \A p \in some : sum[some] = t[p].size + sum[some \ {p}]
           odd == {n \in Nat : \E some \in all : Cardinality(some) = n /\ ~Well(some)}
<1>5. odd = {}
  <2> SUFFICES ASSUME odd # {} PROVE FALSE
    OBVIOUS
  <2>1. PICK n \in odd : \A k \in odd : n <= k
    BY LeastMember
  <2>2. PICK some \in all : Cardinality(some) = n /\ ~Well(some)
    BY <2>1
  <2>3. \A less \in all : Cardinality(less) < n => Well(less)
    BY <2>1, FewerFacts
  <2> HIDE DEF odd, Well
  <2>4. ASSUME NEW p \in some PROVE some \ {p} \in all /\ Well(some \ {p}) /\ t[p].size \in Nat
    <3>1. some \ {p} \in all /\ Cardinality(some \ {p}) = n - 1 /\ n \in Nat
      BY <2>2, FewerFacts
    <3>2. Cardinality(some \ {p}) < n
      BY <3>1
    <3> QED
      BY <2>3, <3>1, <3>2 DEF IsSized
  <2>5. some # {}
    BY <1>3, <2>2 DEF Well
  <2>6. PICK q \in some : sum[some] = t[q].size + sum[some \ {q}]
    BY <1>4, <2>5
  <2>7. sum[some] \in Nat
    <3>1. t[q].size \in Nat /\ sum[some \ {q}] \in Nat
      BY <2>4, Zenon DEF Well
    <3> QED
      BY <2>6, <3>1
  <2>8. ASSUME NEW p \in some PROVE sum[some] = t[p].size + sum[some \ {p}]
    <3>1. CASE p = q
      BY <2>6, <3>1
    <3>2. CASE p # q
      <4>1. p \in some \ {q} /\ q \in some \ {p} /\ (some \ {q}) \ {p} = (some \ {p}) \ {q}
        BY <3>2
      <4>2. /\ sum[some \ {q}] = t[p].size + sum[(some \ {q}) \ {p}]
            /\ sum[some \ {p}] = t[q].size + sum[(some \ {p}) \ {q}]
        BY <2>4, <4>1 DEF Well
      <4>3. Well((some \ {q}) \ {p})
        <5>1. /\ (some \ {q}) \ {p} \in all /\ Cardinality((some \ {q}) \ {p}) = n - 2 /\ n \in Nat
          <6>1. Cardinality(some \ {q}) = n - 1 /\ some \ {q} \in all
            BY <2>2, <2>4, FewerFacts
          <6>2. Cardinality((some \ {q}) \ {p}) = (n - 1) - 1
            BY <4>1, <6>1, FewerFacts, Zenon
          <6>3. (some \ {q}) \ {p} \in all /\ n \in Nat
            BY <2>2, FewerFacts
          <6> QED
            BY <6>2, <6>3
        <5> QED
          BY <2>3, <5>1
      <4>4. sum[(some \ {q}) \ {p}] \in Nat /\ t[p].size \in Nat /\ t[q].size \in Nat
        BY <2>4, <4>3 DEF Well
      <4> QED
        BY <2>6, <4>1, <4>2, <4>4
    <3> QED
      BY <3>1, <3>2
  <2> QED
    BY <2>2, <2>7, <2>8 DEF Well
<1>6. \A some \in all : Well(some)
  BY <1>5, FewerFacts
<1>7. SumsUp(sum, t)
  BY <1>1, <1>3, <1>6 DEF SumsUp
<1> QED
  BY <1>2, <1>7

\* A set of paths has one sum, in whichever trees.
LEMMA OneSum ==
  ASSUME NEW t, NEW u, NEW f, NEW g, IsSized(t), IsSized(u), SumsUp(f, t), SumsUp(g, u),
         NEW S, S \subseteq DOMAIN t, S \subseteq DOMAIN u,
         \A p \in S : t[p].size = u[p].size
  PROVE  f[S] = g[S]
<1> DEFINE odd == {n \in Nat : \E some \in SUBSET S : Cardinality(some) = n /\ f[some] # g[some]}
<1>1. odd = {}
  <2> SUFFICES ASSUME odd # {} PROVE FALSE
    OBVIOUS
  <2>1. PICK n \in odd : \A k \in odd : n <= k
    BY LeastMember
  <2>2. PICK some \in SUBSET S : Cardinality(some) = n /\ f[some] # g[some]
    BY <2>1
  <2>3. \A less \in SUBSET S : Cardinality(less) \in Nat /\ Cardinality(less) < n => f[less] = g[less]
    BY <2>1
  <2> HIDE DEF odd
  <2>4. f[{}] = 0 /\ g[{}] = 0
    BY DEF SumsUp
  <2>5. PICK p \in some : TRUE
    BY <2>2, <2>4
  <2>6. Cardinality(some \ {p}) = n - 1 /\ n \in Nat
    BY <2>2, FewerFacts
  <2>7. f[some \ {p}] = g[some \ {p}]
    <3>1. Cardinality(some \ {p}) \in Nat
      <4>1. some \ {p} \in SUBSET DOMAIN t
        OBVIOUS
      <4> QED
        BY <4>1, FewerFacts
    <3> QED
      BY <2>3, <2>6, <3>1
  <2>8. f[some] = t[p].size + f[some \ {p}] /\ g[some] = u[p].size + g[some \ {p}]
    BY DEF SumsUp
  <2> QED
    BY <2>2, <2>7, <2>8
<1>2. Cardinality(S) \in Nat
  BY FewerFacts
<1> QED
  BY <1>1, <1>2

LEMMA SizeIsNat == ASSUME NEW t, IsSized(t) PROVE Size(t) \in Nat
<1>1. PICK sum : SumsUp(sum, t) /\ Size(t) = sum[DOMAIN t]
  BY SizeSumsUp
<1> QED
  BY <1>1 DEF SumsUp

\* Putting a node adds its size, less what it replaces; dropping one adds none.
LEMMA PutSize ==
  ASSUME NEW t, IsSized(t), NEW path, NEW node, node.size \in Nat
  PROVE  /\ IsSized(Put(t, path, node)) /\ Size(Put(t, path, node)) <= Size(t) + node.size
<1> DEFINE u == Put(t, path, node)
           rest == DOMAIN t \ {path}
<1>1. /\ DOMAIN u = DOMAIN t \cup {path} /\ u[path] = node
      /\ \A p \in rest : u[p] = t[p]
  BY DEF Put
<1>2. IsSized(u)
  <2>1. IsFiniteSet(DOMAIN u)
    BY <1>1, FS_AddElement DEF IsSized
  <2> QED
    BY <1>1, <2>1 DEF IsSized
<1>3. PICK f : SumsUp(f, t) /\ Size(t) = f[DOMAIN t]
  BY SizeSumsUp
<1> HIDE DEF u
<1>4. PICK g : SumsUp(g, u) /\ Size(u) = g[DOMAIN u]
  BY <1>2, SizeSumsUp
<1>5. f[rest] = g[rest]
  BY <1>1, <1>2, <1>3, <1>4, OneSum
<1>6. g[DOMAIN u] = node.size + g[rest]
  <2>1. DOMAIN u \ {path} = rest /\ path \in DOMAIN u
    BY <1>1
  <2>2. g[DOMAIN u] = u[path].size + g[DOMAIN u \ {path}]
    BY <1>4, <2>1 DEF SumsUp
  <2> QED
    BY <1>1, <2>1, <2>2
<1>7. f[rest] \in Nat /\ f[DOMAIN t] \in Nat /\ f[rest] <= f[DOMAIN t]
  <2>1. f \in [SUBSET DOMAIN t -> Nat]
    BY <1>3 DEF SumsUp
  <2>2. CASE path \in DOMAIN t
    <3>1. f[DOMAIN t] = t[path].size + f[rest] /\ t[path].size \in Nat
      BY <1>3, <2>2 DEF SumsUp, IsSized
    <3> QED
      BY <2>1, <3>1
  <2>3. CASE path \notin DOMAIN t
    <3>1. rest = DOMAIN t
      BY <2>3
    <3> QED
      BY <2>1, <3>1
  <2> QED
    BY <2>2, <2>3
<1>8. Size(u) <= Size(t) + node.size
  <2> HIDE DEF rest
  <2> QED
    BY <1>3, <1>4, <1>5, <1>6, <1>7
<1> QED
  BY <1>2, <1>8 DEF u

LEMMA DropSize ==
  ASSUME NEW t, IsSized(t), NEW path
  PROVE  IsSized(Drop(t, path)) /\ Size(Drop(t, path)) <= Size(t)
<1> DEFINE u == Drop(t, path)
           rest == DOMAIN t \ {path}
<1>1. DOMAIN u = rest /\ \A p \in rest : u[p] = t[p]
  BY DEF Drop
<1>2. IsSized(u)
  BY <1>1, FS_Subset DEF IsSized
<1>3. PICK f : SumsUp(f, t) /\ Size(t) = f[DOMAIN t]
  BY SizeSumsUp
<1> HIDE DEF u
<1>4. PICK g : SumsUp(g, u) /\ Size(u) = g[DOMAIN u]
  BY <1>2, SizeSumsUp
<1>5. f[rest] = g[rest]
  BY <1>1, <1>2, <1>3, <1>4, OneSum
<1>7. f[rest] \in Nat /\ f[DOMAIN t] \in Nat /\ f[rest] <= f[DOMAIN t]
  <2>1. f \in [SUBSET DOMAIN t -> Nat]
    BY <1>3 DEF SumsUp
  <2>2. CASE path \in DOMAIN t
    <3>1. f[DOMAIN t] = t[path].size + f[rest] /\ t[path].size \in Nat
      BY <1>3, <2>2 DEF SumsUp, IsSized
    <3> QED
      BY <2>1, <3>1
  <2>3. CASE path \notin DOMAIN t
    <3>1. rest = DOMAIN t
      BY <2>3
    <3> QED
      BY <2>1, <3>1
  <2> QED
    BY <2>2, <2>3
<1>8. Size(u) <= Size(t)
  BY <1>1, <1>3, <1>4, <1>5, <1>7
<1> QED
  BY <1>2, <1>8 DEF u
-----------------------------------------------------------------------------
(* Unpacking: where a name leads, and what making its directories adds.    *)

\* A name as refuse_unwritable_name lets through.
Plain(path) ==
  path \in Seq(STRING) /\ \A n \in 1..Len(path) : path[n] \notin {NoName, ".", ".."}
Upper(path, n) == SubSeq(path, 1, n)
IsLink(t, path) == path \in DOMAIN t /\ t[path].kind = "symlink"
NoLinkAbove(t, path) == \A n \in 1..(Len(path) - 1) : ~IsLink(t, Upper(path, n))

\* A tree hangs together: whatever is there is in a directory.
WellFormed(t) ==
  /\ IsDirectory(t, <<>>) /\ Nowhere \notin DOMAIN t
  /\ \A path \in DOMAIN t : path \in Seq(STRING) /\ (path # <<>> => IsDirectory(t, Front(path)))

LEMMA PlainIsSomewhere ==
  ASSUME NEW path, Plain(path) PROVE path # Nowhere
<1> SUFFICES ASSUME path = Nowhere PROVE FALSE
  OBVIOUS
<1>1. Len(path) = 1 /\ path[1] = NoName
  BY DEF Nowhere
<1>2. 1 \in 1..Len(path)
  BY <1>1
<1> QED
  BY <1>1, <1>2, Zenon DEF Plain

LEMMA UpperFacts ==
  ASSUME NEW path \in Seq(STRING), NEW n \in 0..Len(path)
  PROVE  /\ Upper(path, n) \in Seq(STRING) /\ Len(Upper(path, n)) = n
         /\ \A k \in 1..n : Upper(path, n)[k] = path[k]
         /\ \A k \in 0..n : Upper(Upper(path, n), k) = Upper(path, k)
<1>1. Len(path) \in Nat
  OBVIOUS
<1>2. ASSUME NEW k \in 0..Len(path)
      PROVE  /\ Upper(path, k) \in Seq(STRING) /\ Len(Upper(path, k)) = k
             /\ \A i \in 1..k : Upper(path, k)[i] = path[i]
  BY <1>1, SubSeqProperties DEF Upper
<1> DEFINE top == Upper(path, n)
<1>3. top \in Seq(STRING) /\ Len(top) = n /\ \A k \in 1..n : top[k] = path[k]
  BY <1>2
<1>4. ASSUME NEW k \in 0..n PROVE Upper(top, k) = Upper(path, k)
  <2> HIDE DEF top
  <2>1. /\ Upper(top, k) \in Seq(STRING) /\ Len(Upper(top, k)) = k
        /\ \A i \in 1..k : Upper(top, k)[i] = top[i]
    BY <1>1, <1>3, SubSeqProperties DEF Upper
  <2>2. k \in 0..Len(path)
    BY <1>1
  <2>3. /\ Upper(path, k) \in Seq(STRING) /\ Len(Upper(path, k)) = k
        /\ \A i \in 1..k : Upper(path, k)[i] = path[i]
    BY <1>2, <2>2
  <2>4. \A i \in 1..k : Upper(top, k)[i] = Upper(path, k)[i]
    <3>1. \A i \in 1..k : i \in 1..n
      BY <1>1
    <3> QED
      BY <1>3, <2>1, <2>3, <3>1
  <2> QED
    BY <2>1, <2>3, <2>4, SeqEqual
<1> QED
  BY <1>3, <1>4

LEMMA PlainUpper ==
  ASSUME NEW path, Plain(path), NEW n \in 0..Len(path) PROVE Plain(Upper(path, n))
<1>1. /\ Upper(path, n) \in Seq(STRING) /\ Len(Upper(path, n)) = n
      /\ \A k \in 1..n : Upper(path, n)[k] = path[k]
  BY UpperFacts DEF Plain
<1>2. \A k \in 1..n : k \in 1..Len(path)
  BY DEF Plain
<1>3. \A k \in 1..n : path[k] \notin {NoName, ".", ".."}
  BY <1>2, Zenon DEF Plain
<1> QED
  BY <1>1, <1>3, Zenon DEF Plain

LEMMA FrontFacts ==
  ASSUME NEW path \in Seq(STRING), path # <<>>
  PROVE  /\ Len(path) \in Nat \ {0} /\ Len(path) - 1 \in 0..Len(path)
         /\ Front(path) = Upper(path, Len(path) - 1)
         /\ Upper(path, Len(path)) = path
         /\ Append(Front(path), Last(path)) = path
<1>1. Len(path) \in Nat \ {0} /\ Len(path) - 1 \in 0..Len(path)
  OBVIOUS
<1>2. Front(path) = Upper(path, Len(path) - 1)
  BY DEF Front, Upper
<1>3. Front(path) \in Seq(STRING) /\ Len(Front(path)) = Len(path) - 1
      /\ \A k \in 1..(Len(path) - 1) : Front(path)[k] = path[k]
  BY <1>1, <1>2, UpperFacts
<1>4. Upper(path, Len(path)) = path
  <2>1. /\ Upper(path, Len(path)) \in Seq(STRING) /\ Len(Upper(path, Len(path))) = Len(path)
        /\ \A k \in 1..Len(path) : Upper(path, Len(path))[k] = path[k]
    BY <1>1, UpperFacts
  <2> QED
    BY <2>1, SeqEqual
<1>5. Append(Front(path), Last(path)) = path
  <2> DEFINE all == Append(Front(path), Last(path))
  <2>1. Last(path) \in STRING
    BY <1>1 DEF Last
  <2>2. /\ all \in Seq(STRING) /\ Len(all) = Len(path)
        /\ \A k \in 1..Len(path) : all[k] = path[k]
    BY <1>1, <1>3, <2>1, AppendProperties DEF Last
  <2> HIDE DEF all
  <2>3. all = path
    BY <2>2, SeqEqual
  <2> QED
    BY <2>3 DEF all
<1> QED
  BY <1>1, <1>2, <1>4, <1>5

\* What is left of a path after its first n names.
Lower(path, n) == SubSeq(path, n + 1, Len(path))
LEMMA LowerFacts ==
  ASSUME NEW path \in Seq(STRING), NEW n \in 0..Len(path)
  PROVE  /\ n = Len(path) => Lower(path, n) = <<>>
         /\ n # Len(path) =>
              /\ Lower(path, n) # <<>> /\ Head(Lower(path, n)) = path[n + 1]
              /\ Tail(Lower(path, n)) = Lower(path, n + 1)
              /\ Append(Upper(path, n), path[n + 1]) = Upper(path, n + 1)
<1>1. Len(path) \in Nat /\ n \in Nat /\ n <= Len(path)
  OBVIOUS
<1>2. CASE n = Len(path)
  BY <1>1, <1>2, SubSeqProperties, EmptySeq DEF Lower
<1>3. CASE n # Len(path)
  <2> DEFINE lower == Lower(path, n)
             top == Upper(path, n + 1)
  <2>1. /\ lower \in Seq(STRING) /\ Len(lower) = Len(path) - n
        /\ \A k \in 1..(Len(path) - n) : lower[k] = path[n + k]
    BY <1>1, <1>3, SubSeqProperties DEF Lower
  <2>2. Head(lower) = path[n + 1] /\ lower # <<>>
    BY <1>1, <1>3, <2>1, HeadTailProperties
  <2>3. Tail(lower) = Lower(path, n + 1)
    <3>1. /\ Tail(lower) \in Seq(STRING) /\ Len(Tail(lower)) = Len(path) - n - 1
          /\ \A k \in 1..(Len(path) - n - 1) : Tail(lower)[k] = path[n + k + 1]
      <4> HIDE DEF lower
      <4>1. /\ Tail(lower) \in Seq(STRING) /\ Len(Tail(lower)) = Len(lower) - 1
            /\ \A k \in 1..Len(Tail(lower)) : Tail(lower)[k] = lower[k + 1]
        BY <2>1, <2>2, HeadTailProperties
      <4>2. \A k \in 1..(Len(path) - n - 1) : k + 1 \in 1..(Len(path) - n) /\ n + (k + 1) = n + k + 1
        BY <1>1
      <4> QED
        BY <1>1, <2>1, <4>1, <4>2
    <3>2. /\ Lower(path, n + 1) \in Seq(STRING) /\ Len(Lower(path, n + 1)) = Len(path) - n - 1
          /\ \A k \in 1..(Len(path) - n - 1) : Lower(path, n + 1)[k] = path[n + k + 1]
      BY <1>1, <1>3, SubSeqProperties DEF Lower
    <3> HIDE DEF lower
    <3> QED
      BY <3>1, <3>2, SeqEqual
  <2>4. Append(Upper(path, n), path[n + 1]) = top
    <3> DEFINE more == Append(Upper(path, n), path[n + 1])
    <3>1. /\ top \in Seq(STRING) /\ Len(top) = n + 1 /\ \A k \in 1..(n + 1) : top[k] = path[k]
      BY <1>1, <1>3, UpperFacts
    <3>2. /\ Upper(path, n) \in Seq(STRING) /\ Len(Upper(path, n)) = n
          /\ \A k \in 1..n : Upper(path, n)[k] = path[k]
      BY UpperFacts
    <3>3. path[n + 1] \in STRING
      BY <1>1, <1>3
    <3>4. /\ more \in Seq(STRING) /\ Len(more) = n + 1
          /\ \A k \in 1..(n + 1) : more[k] = path[k]
      BY <1>1, <3>2, <3>3, AppendProperties
    <3> HIDE DEF top, more
    <3>5. more = top
      BY <3>1, <3>4, SeqEqual
    <3> QED
      BY <3>5 DEF more
  <2> QED
    BY <1>3, <2>2, <2>3, <2>4
<1> QED
  BY <1>2, <1>3

\* The turns of Walk.
WalkStart(path) == [at |-> <<>>, todo |-> path]
Walked(t, path, turns) ==
  /\ turns[0] = WalkStart(path)
  /\ \A n \in 1..Fuel : turns[n] = WalkOne(t, turns[n - 1])

LEMMA WalkRuns ==
  ASSUME NEW t, NEW path
  PROVE  \E turns : /\ Walked(t, path, turns)
                    /\ Walk(t, path) = IF turns[Fuel].todo = <<>> THEN turns[Fuel].at ELSE Nowhere
<1> DEFINE turn(f, n) == IF n = 0 THEN WalkStart(path) ELSE WalkOne(t, f[n - 1])
           Has(m) == \E f : f = [n \in 0..m |-> turn(f, n)]
           without == {m \in Nat : ~Has(m)}
<1>1. without = {}
  <2> SUFFICES ASSUME without # {} PROVE FALSE
    OBVIOUS
  <2>1. PICK m \in without : \A k \in without : m <= k
    BY LeastMember
  <2>2. CASE m = 0
    <3> DEFINE f == [n \in 0..0 |-> WalkStart(path)]
    <3>1. f = [n \in 0..0 |-> turn(f, n)]
      OBVIOUS
    <3> QED
      BY <2>1, <2>2, <3>1
  <2>3. CASE m # 0
    <3>1. m \in Nat /\ m - 1 \in Nat /\ m - 1 < m
      BY <2>1, <2>3
    <3>2. PICK g : g = [n \in 0..m - 1 |-> turn(g, n)]
      <4>1. m - 1 \notin without
        <5> HIDE DEF without
        <5> QED
          BY <2>1, <3>1
      <4> QED
        BY <3>1, <4>1
    <3> DEFINE f == [n \in 0..m |-> turn(g, n)]
    <3>3. \A n \in 0..m - 1 : n \in 0..m /\ g[n] = turn(g, n)
      BY <3>1, <3>2
    <3>4. \A n \in 0..m - 1 : f[n] = g[n]
      BY <3>3
    <3>5. ASSUME NEW n \in 0..m PROVE turn(f, n) = turn(g, n)
      <4>1. CASE n = 0
        BY <4>1
      <4>2. CASE n # 0
        <5>1. n - 1 \in 0..m - 1
          BY <3>1, <4>2
        <5>2. f[n - 1] = g[n - 1]
          BY <3>4, <5>1
        <5> HIDE DEF f
        <5> QED
          BY <4>2, <5>2
      <4> QED
        BY <4>1, <4>2
    <3>6. f = [n \in 0..m |-> turn(f, n)]
      BY <3>5
    <3> QED
      BY <2>1, <3>6
  <2> QED
    BY <2>2, <2>3
<1>2. Has(Fuel) /\ Fuel \in Nat
  BY <1>1, UnpackAssumption
<1> DEFINE turns == CHOOSE f : f = [n \in 0..Fuel |-> turn(f, n)]
<1>3. turns = [n \in 0..Fuel |-> turn(turns, n)]
  BY <1>2
<1>4. Walk(t, path) = IF turns[Fuel].todo = <<>> THEN turns[Fuel].at ELSE Nowhere
  BY DEF Walk, WalkStart
<1> HIDE DEF turns
<1>5. turns[0] = WalkStart(path)
  BY <1>2, <1>3
<1>6. ASSUME NEW n \in 1..Fuel PROVE turns[n] = WalkOne(t, turns[n - 1])
  <2>1. n \in 0..Fuel /\ n # 0
    BY <1>2
  <2> QED
    BY <1>3, <2>1
<1> QED
  BY <1>4, <1>5, <1>6 DEF Walked

\* Part of a path is gone, or it leads nowhere.
OnTheWay(path, s) ==
  \/ s.at = Nowhere
  \/ \E n \in 0..Len(path) : s = [at |-> Upper(path, n), todo |-> Lower(path, n)]

LEMMA WalkOneIs ==
  ASSUME NEW t, NEW path, Plain(path), \A n \in 1..Len(path) : ~IsLink(t, Upper(path, n)),
         NEW s, OnTheWay(path, s)
  PROVE  OnTheWay(path, WalkOne(t, s))
<1>1. CASE s.at = Nowhere
  BY <1>1, Zenon DEF WalkOne, OnTheWay
<1>2. CASE s.at # Nowhere
  <2>1. PICK n \in 0..Len(path) : s = [at |-> Upper(path, n), todo |-> Lower(path, n)]
    BY <1>2 DEF OnTheWay
  <2>2. s.at = Upper(path, n) /\ s.todo = Lower(path, n)
    BY <2>1
  <2>3. path \in Seq(STRING) /\ Len(path) \in Nat
    BY DEF Plain
  <2>4. CASE n = Len(path)
    <3>1. s.todo = <<>>
      BY <2>2, <2>3, <2>4, LowerFacts
    <3> QED
      BY <3>1, Zenon DEF WalkOne
  <2>5. CASE n # Len(path)
    <3>1. n + 1 \in 1..Len(path)
      BY <2>3, <2>5
    <3>2. /\ s.todo # <<>> /\ Head(s.todo) = path[n + 1] /\ Tail(s.todo) = Lower(path, n + 1)
          /\ Append(s.at, Head(s.todo)) = Upper(path, n + 1)
      BY <2>2, <2>3, <2>5, LowerFacts
    <3>3. path[n + 1] \notin {NoName, "."} /\ path[n + 1] # ".."
      BY <3>1, Zenon DEF Plain
    <3>4. \/ WalkOne(t, s) = [at |-> Nowhere, todo |-> <<>>]
          \/ WalkOne(t, s) = [at |-> Upper(path, n + 1), todo |-> Lower(path, n + 1)]
      <4>1. ~(Upper(path, n + 1) \in DOMAIN t /\ t[Upper(path, n + 1)].kind = "symlink")
        BY <3>1 DEF IsLink
      <4> QED
        BY <1>2, <3>2, <3>3, <4>1, Zenon DEF WalkOne
    <3>5. n + 1 \in 0..Len(path)
      BY <3>1
    <3> QED
      BY <3>4, <3>5 DEF OnTheWay
  <2> QED
    BY <2>4, <2>5
<1> QED
  BY <1>1, <1>2

\* Where no link is on the way, a path leads to itself or nowhere.
LEMMA WalkIs ==
  ASSUME NEW t, NEW path, Plain(path), \A n \in 1..Len(path) : ~IsLink(t, Upper(path, n))
  PROVE  Walk(t, path) \in {path, Nowhere}
<1>1. PICK turns : /\ Walked(t, path, turns)
                   /\ Walk(t, path) = IF turns[Fuel].todo = <<>> THEN turns[Fuel].at ELSE Nowhere
  BY WalkRuns
<1>2. path \in Seq(STRING) /\ Len(path) \in Nat /\ Fuel \in Nat
  BY UnpackAssumption DEF Plain
<1> DEFINE astray == {n \in Nat : n <= Fuel /\ ~OnTheWay(path, turns[n])}
<1>3. astray = {}
  <2> SUFFICES ASSUME astray # {} PROVE FALSE
    OBVIOUS
  <2>1. PICK n \in astray : \A k \in astray : n <= k
    BY LeastMember
  <2>2. CASE n = 0
    <3>1. Upper(path, 0) = <<>> /\ Lower(path, 0) = path
      <4>1. Upper(path, 0) \in Seq(STRING) /\ Len(Upper(path, 0)) = 0
        BY <1>2, UpperFacts
      <4>2. Lower(path, 0) = path
        <5>1. Lower(path, 0) = Upper(path, Len(path))
          BY DEF Lower, Upper
        <5>2. CASE path = <<>>
          <6>1. Len(path) = 0 /\ Len(path) \in 0..Len(path)
            BY <5>2
          <6>2. Upper(path, Len(path)) \in Seq(STRING) /\ Len(Upper(path, Len(path))) = 0
            BY <1>2, <6>1, UpperFacts
          <6> QED
            BY <5>1, <5>2, <6>2, EmptySeq
        <5>3. CASE path # <<>>
          BY <1>2, <5>1, <5>3, FrontFacts
        <5> QED
          BY <5>2, <5>3
      <4> QED
        BY <4>1, <4>2, EmptySeq
    <3>2. turns[0] = [at |-> Upper(path, 0), todo |-> Lower(path, 0)]
      BY <1>1, <3>1 DEF Walked, WalkStart
    <3>3. 0 \in 0..Len(path)
      BY <1>2
    <3> QED
      BY <2>1, <2>2, <3>2, <3>3 DEF OnTheWay
  <2>3. CASE n # 0
    <3>1. n \in 1..Fuel /\ n - 1 \in Nat /\ n - 1 <= Fuel /\ n - 1 < n
      BY <1>2, <2>1, <2>3
    <3>2. OnTheWay(path, turns[n - 1])
      BY <2>1, <3>1
    <3>3. turns[n] = WalkOne(t, turns[n - 1])
      BY <1>1, <3>1 DEF Walked
    <3> QED
      BY <2>1, <3>2, <3>3, WalkOneIs
  <2> QED
    BY <2>2, <2>3
<1>4. OnTheWay(path, turns[Fuel])
  BY <1>2, <1>3
<1>5. CASE turns[Fuel].at = Nowhere
  BY <1>1, <1>5
<1>6. CASE turns[Fuel].at # Nowhere
  <2>1. PICK n \in 0..Len(path) : turns[Fuel] = [at |-> Upper(path, n), todo |-> Lower(path, n)]
    BY <1>4, <1>6 DEF OnTheWay
  <2>2. turns[Fuel].at = Upper(path, n) /\ turns[Fuel].todo = Lower(path, n)
    BY <2>1
  <2>3. CASE turns[Fuel].todo = <<>>
    <3>1. n = Len(path)
      BY <1>2, <2>2, <2>3, LowerFacts
    <3>2. Upper(path, n) = path
      <4>1. CASE path = <<>>
        <5>1. Upper(path, 0) \in Seq(STRING) /\ Len(Upper(path, 0)) = 0
          BY <1>2, UpperFacts
        <5> QED
          BY <3>1, <4>1, <5>1, EmptySeq
      <4>2. CASE path # <<>>
        BY <1>2, <3>1, <4>2, FrontFacts
      <4> QED
        BY <4>1, <4>2
    <3> QED
      BY <1>1, <2>2, <2>3, <3>2
  <2>4. CASE turns[Fuel].todo # <<>>
    BY <1>1, <2>4
  <2> QED
    BY <2>3, <2>4
<1> QED
  BY <1>5, <1>6

\* The last name of a path is found in a directory, or not at all.
LEMMA LeafIs ==
  ASSUME NEW t, WellFormed(t), NEW path, Plain(path), path # <<>>, NoLinkAbove(t, path)
  PROVE  /\ Leaf(t, path) \in {path, Nowhere}
         /\ Leaf(t, path) # Nowhere => IsDirectory(t, Front(path))
<1> DEFINE above == Front(path)
<1>1. /\ path \in Seq(STRING) /\ Len(path) \in Nat \ {0} /\ Len(path) - 1 \in 0..Len(path)
      /\ above = Upper(path, Len(path) - 1) /\ Append(above, Last(path)) = path
  BY FrontFacts DEF Plain
<1>2. Plain(above) /\ Len(above) = Len(path) - 1
  BY <1>1, PlainUpper, UpperFacts
<1>3. \A n \in 1..Len(above) : ~IsLink(t, Upper(above, n))
  <2>1. \A n \in 1..Len(above) : n \in 1..(Len(path) - 1) /\ Upper(above, n) = Upper(path, n)
    BY <1>1, <1>2, UpperFacts
  <2> QED
    BY <2>1 DEF NoLinkAbove
<1> HIDE DEF above
<1>4. Walk(t, above) \in {above, Nowhere}
  BY <1>2, <1>3, WalkIs
<1>5. ~IsDirectory(t, Nowhere)
  BY DEF WellFormed, IsDirectory
<1>6. Leaf(t, path) = IF IsDirectory(t, Walk(t, above)) THEN Append(Walk(t, above), Last(path)) ELSE Nowhere
  BY DEF Leaf, above
<1> QED
  BY <1>1, <1>4, <1>5, <1>6 DEF above

\* More of a tree: directories on the way to a path.
Grown(t, u, path) ==
  /\ DOMAIN t \subseteq DOMAIN u
  /\ \A p \in DOMAIN t : u[p] = t[p]
  /\ \A p \in DOMAIN u \ DOMAIN t : u[p] = Directory /\ \E n \in 1..Len(path) : p = Upper(path, n)

\* What is made is as before and a directory more, if it was not there.
MadeWell(t, made, path, n) ==
  /\ made.ok \in BOOLEAN /\ made = [ok |-> made.ok, tree |-> made.tree]
  /\ Grown(t, made.tree, path) /\ WellFormed(made.tree)
  /\ IsSized(made.tree) /\ Size(made.tree) <= Size(t)
  /\ made.ok /\ n > 0 => Upper(path, n) \in DOMAIN made.tree

LEMMA PutDirectoryIs ==
  ASSUME NEW t, WellFormed(t), NEW path, Plain(path), path # <<>>, path \notin DOMAIN t,
         IsDirectory(t, Front(path)), NEW node
  PROVE  WellFormed(Put(t, path, node))
<1> DEFINE u == Put(t, path, node)
<1>1. /\ DOMAIN u = DOMAIN t \cup {path} /\ u[path] = node
      /\ \A p \in DOMAIN t : u[p] = t[p]
  BY DEF Put
<1>2. path # Nowhere /\ path \in Seq(STRING)
  BY PlainIsSomewhere DEF Plain
<1> HIDE DEF u
<1>3. \A p : IsDirectory(t, p) => IsDirectory(u, p)
  BY <1>1 DEF IsDirectory
<1>4. WellFormed(u)
  BY <1>1, <1>2, <1>3 DEF WellFormed
<1> QED
  BY <1>4 DEF u

LEMMA MakeOneIs ==
  ASSUME NEW t, WellFormed(t), IsSized(t), NEW path, Plain(path), NoLinkAbove(t, path),
         NEW n \in 1..Len(path), NEW made, MadeWell(t, made, path, n - 1)
  PROVE  MadeWell(t, MakeOne(made, Upper(path, n)), path, n)
<1> DEFINE here == Upper(path, n)
           u == made.tree
<1>1. /\ Plain(here) /\ here \in Seq(STRING) /\ Len(here) = n /\ here # <<>> /\ n > 0
      /\ \A k \in 1..(n - 1) : Upper(here, k) = Upper(path, k) /\ k \in 1..(Len(path) - 1)
  <2>1. n \in 0..Len(path) /\ path \in Seq(STRING) /\ Len(path) \in Nat
    BY DEF Plain
  <2>2. \A k \in 1..(n - 1) : k \in 0..n /\ k \in 1..(Len(path) - 1)
    BY <2>1
  <2>3. Plain(here) /\ here \in Seq(STRING) /\ Len(here) = n /\ \A k \in 0..n : Upper(here, k) = Upper(path, k)
    BY <2>1, PlainUpper, UpperFacts
  <2> HIDE DEF here
  <2>4. here # <<>> /\ n > 0
    BY <2>1, <2>3
  <2> QED
    BY <2>2, <2>3, <2>4
<1>2. /\ made.ok \in BOOLEAN /\ made = [ok |-> made.ok, tree |-> u]
      /\ Grown(t, u, path) /\ WellFormed(u) /\ IsSized(u) /\ Size(u) <= Size(t)
  BY DEF MadeWell
<1> HIDE DEF u, here
<1>3. NoLinkAbove(u, here)
  <2> SUFFICES ASSUME NEW k \in 1..(n - 1), IsLink(u, Upper(path, k)) PROVE FALSE
    BY <1>1 DEF NoLinkAbove
  <2>1. Upper(path, k) \in DOMAIN t => u[Upper(path, k)] = t[Upper(path, k)]
    BY <1>2 DEF Grown
  <2>2. Upper(path, k) \in DOMAIN u \ DOMAIN t => u[Upper(path, k)] = Directory
    BY <1>2 DEF Grown
  <2>3. ~IsLink(t, Upper(path, k))
    BY <1>1 DEF NoLinkAbove
  <2> QED
    BY <2>1, <2>2, <2>3 DEF IsLink, Directory
<1>4. /\ Leaf(u, here) \in {here, Nowhere}
      /\ Leaf(u, here) # Nowhere => IsDirectory(u, Front(here))
  BY <1>1, <1>2, <1>3, LeafIs
<1> DEFINE next == MakeOne(made, here)
<1>5. CASE ~made.ok \/ Leaf(u, here) = Nowhere
  <2>1. next = [made EXCEPT !.ok = FALSE]
    BY <1>5 DEF MakeOne, u
  <2>2. next = [ok |-> FALSE, tree |-> u]
    <3> DEFINE was == made.ok
    <3>1. made = [ok |-> was, tree |-> u]
      BY <1>2
    <3> HIDE DEF was, next
    <3> QED
      BY <2>1, <3>1
  <2>3. next.ok = FALSE /\ next.tree = u
    <3> HIDE DEF next
    <3> QED
      BY <2>2
  <2> HIDE DEF next
  <2> QED
    BY <1>2, <2>2, <2>3, Zenon DEF MadeWell, here, next
<1>6. CASE made.ok /\ Leaf(u, here) = here /\ here \in DOMAIN u
  <2>1. next = made
    BY <1>1, <1>6, PlainIsSomewhere DEF MakeOne, u
  <2>2. MadeWell(t, made, path, n)
    BY <1>2, <1>6, Zenon DEF MadeWell, u, here
  <2> HIDE DEF next
  <2> QED
    BY <2>1, <2>2 DEF next, here
<1>7. CASE made.ok /\ Leaf(u, here) # Nowhere /\ here \notin DOMAIN u
  <2> DEFINE more == Put(u, here, Directory)
  <2>1. next = [made EXCEPT !.tree = more]
    BY <1>4, <1>7 DEF MakeOne, u
  <2>2. next.ok = made.ok /\ next.tree = more /\ next = [ok |-> made.ok, tree |-> more]
    BY <1>2, <2>1
  <2>3. WellFormed(more)
    BY <1>1, <1>2, <1>4, <1>7, PutDirectoryIs
  <2>4. Grown(t, more, path) /\ here \in DOMAIN more
    <3>1. /\ DOMAIN more = DOMAIN u \cup {here} /\ more[here] = Directory
          /\ \A p \in DOMAIN u : p # here => more[p] = u[p]
      BY DEF Put
    <3> HIDE DEF more
    <3>2. /\ DOMAIN t \subseteq DOMAIN u /\ \A p \in DOMAIN t : u[p] = t[p]
          /\ \A p \in DOMAIN u \ DOMAIN t : u[p] = Directory /\ \E k \in 1..Len(path) : p = Upper(path, k)
      BY <1>2 DEF Grown
    <3>3. \E k \in 1..Len(path) : here = Upper(path, k)
      BY DEF here
    <3>4. \A p \in DOMAIN t : p \in DOMAIN more /\ more[p] = t[p]
      BY <1>7, <3>1, <3>2
    <3>5. ASSUME NEW p \in DOMAIN more \ DOMAIN t
          PROVE  more[p] = Directory /\ \E k \in 1..Len(path) : p = Upper(path, k)
      <4>1. CASE p = here
        BY <3>1, <3>3, <4>1, Zenon
      <4>2. CASE p # here
        <5>1. p \in DOMAIN u \ DOMAIN t /\ more[p] = u[p]
          BY <3>1, <4>2
        <5> QED
          BY <3>2, <5>1, Zenon
      <4> QED
        BY <4>1, <4>2
    <3> QED
      BY <3>1, <3>4, <3>5, Zenon DEF Grown
  <2>5. IsSized(more) /\ Size(more) <= Size(t)
    <3>1. Directory.size = 0 /\ Size(u) \in Nat /\ Size(t) \in Nat
      BY <1>2, SizeIsNat DEF Directory
    <3>2. IsSized(more) /\ Size(more) <= Size(u) + Directory.size
      BY <1>2, <3>1, PutSize
    <3>3. Size(more) \in Nat
      BY <3>2, SizeIsNat
    <3> QED
      BY <1>2, <3>1, <3>2, <3>3
  <2> HIDE DEF next, more
  <2> QED
    BY <1>2, <2>2, <2>3, <2>4, <2>5, Zenon DEF MadeWell, next, here
<1> QED
  BY <1>4, <1>5, <1>6, <1>7

\* The turns of MakeTree.
MakeStart(t) == [ok |-> TRUE, tree |-> t]
LEMMA MakeRuns ==
  ASSUME NEW t, NEW path \in Seq(STRING)
  PROVE  \E made : /\ made[0] = MakeStart(t)
                   /\ \A n \in 1..Len(path) : made[n] = MakeOne(made[n - 1], Upper(path, n))
                   /\ MakeTree(t, path) = made[Len(path)]
<1> DEFINE turn(f, n) == IF n = 0 THEN MakeStart(t) ELSE MakeOne(f[n - 1], Upper(path, n))
           Has(m) == \E f : f = [n \in 0..m |-> turn(f, n)]
           without == {m \in Nat : ~Has(m)}
<1>1. without = {}
  <2> SUFFICES ASSUME without # {} PROVE FALSE
    OBVIOUS
  <2>1. PICK m \in without : \A k \in without : m <= k
    BY LeastMember
  <2>2. CASE m = 0
    <3> DEFINE f == [n \in 0..0 |-> MakeStart(t)]
    <3>1. f = [n \in 0..0 |-> turn(f, n)]
      OBVIOUS
    <3> QED
      BY <2>1, <2>2, <3>1
  <2>3. CASE m # 0
    <3>1. m \in Nat /\ m - 1 \in Nat /\ m - 1 < m
      BY <2>1, <2>3
    <3>2. PICK g : g = [n \in 0..m - 1 |-> turn(g, n)]
      <4>1. m - 1 \notin without
        <5> HIDE DEF without
        <5> QED
          BY <2>1, <3>1
      <4> QED
        BY <3>1, <4>1
    <3> DEFINE f == [n \in 0..m |-> turn(g, n)]
    <3>3. \A n \in 0..m - 1 : n \in 0..m /\ g[n] = turn(g, n)
      BY <3>1, <3>2
    <3>4. \A n \in 0..m - 1 : f[n] = g[n]
      BY <3>3
    <3>5. ASSUME NEW n \in 0..m PROVE turn(f, n) = turn(g, n)
      <4>1. CASE n = 0
        BY <4>1
      <4>2. CASE n # 0
        <5>1. n - 1 \in 0..m - 1
          BY <3>1, <4>2
        <5>2. f[n - 1] = g[n - 1]
          BY <3>4, <5>1
        <5> HIDE DEF f
        <5> QED
          BY <4>2, <5>2
      <4> QED
        BY <4>1, <4>2
    <3>6. f = [n \in 0..m |-> turn(f, n)]
      BY <3>5
    <3> QED
      BY <2>1, <3>6
  <2> QED
    BY <2>2, <2>3
<1>2. Has(Len(path)) /\ Len(path) \in Nat
  BY <1>1
<1> DEFINE made == CHOOSE f : f = [n \in 0..Len(path) |-> turn(f, n)]
<1>3. made = [n \in 0..Len(path) |-> turn(made, n)]
  BY <1>2
<1>4. MakeTree(t, path) = made[Len(path)]
  BY DEF MakeTree, MakeStart, Upper
<1> HIDE DEF made
<1>5. made[0] = MakeStart(t)
  BY <1>2, <1>3
<1>6. ASSUME NEW n \in 1..Len(path) PROVE made[n] = MakeOne(made[n - 1], Upper(path, n))
  <2>1. n \in 0..Len(path) /\ n # 0
    BY <1>2
  <2> QED
    BY <1>3, <2>1
<1> QED
  BY <1>4, <1>5, <1>6

LEMMA GrownNothing == ASSUME NEW t, NEW path PROVE Grown(t, t, path)
BY DEF Grown

\* Making the directories of a path no link is on adds directories and nothing else.
LEMMA MakeTreeIs ==
  ASSUME NEW t, WellFormed(t), IsSized(t), NEW path, Plain(path), NoLinkAbove(t, path)
  PROVE  MadeWell(t, MakeTree(t, path), path, Len(path))
<1>1. path \in Seq(STRING) /\ Len(path) \in Nat
  BY DEF Plain
<1>2. PICK made : /\ made[0] = MakeStart(t)
                  /\ \A n \in 1..Len(path) : made[n] = MakeOne(made[n - 1], Upper(path, n))
                  /\ MakeTree(t, path) = made[Len(path)]
  BY <1>1, MakeRuns
<1> DEFINE bad == {n \in Nat : n <= Len(path) /\ ~MadeWell(t, made[n], path, n)}
<1>3. bad = {}
  <2> SUFFICES ASSUME bad # {} PROVE FALSE
    OBVIOUS
  <2>1. PICK n \in bad : \A k \in bad : n <= k
    BY LeastMember
  <2>2. CASE n = 0
    <3>1. MadeWell(t, MakeStart(t), path, 0)
      <4>1. MakeStart(t).ok = TRUE /\ MakeStart(t).tree = t /\ Size(t) <= Size(t)
        BY SizeIsNat DEF MakeStart
      <4>2. MakeStart(t) = [ok |-> TRUE, tree |-> t]
        BY DEF MakeStart
      <4>3. ~(0 > 0)
        OBVIOUS
      <4> QED
        BY <4>1, <4>2, <4>3, GrownNothing, Zenon DEF MadeWell
    <3> QED
      BY <1>2, <2>1, <2>2, <3>1
  <2>3. CASE n # 0
    <3>1. n \in 1..Len(path) /\ n - 1 \in Nat /\ n - 1 <= Len(path) /\ n - 1 < n
      BY <1>1, <2>1, <2>3
    <3>2. MadeWell(t, made[n - 1], path, n - 1)
      <4>1. n - 1 \notin bad
        <5> HIDE DEF bad
        <5> QED
          BY <2>1, <3>1
      <4> QED
        BY <3>1, <4>1
    <3>3. made[n] = MakeOne(made[n - 1], Upper(path, n))
      BY <1>2, <3>1
    <3>4. MadeWell(t, made[n], path, n)
      BY <3>1, <3>2, <3>3, MakeOneIs
    <3> QED
      BY <2>1, <3>4
  <2> QED
    BY <2>2, <2>3
<1> QED
  BY <1>1, <1>2, <1>3
-----------------------------------------------------------------------------
(* Unpacking: what the reader gives out is what the headers say.           *)

\* Whether a member's name ends in "/", as its headers say.
SaidSlash(n) == raw.entries[LastNaming(n, TRUE)].slash

\* The reader stands at the start, or after a member, with nothing held back.
Reads ==
  /\ raw \in Archives
  /\ reader.at \in 1..(Len(raw.entries) + 1) /\ reader.slots = Slots
  /\ reader.at = 1 \/ ~IsExtension(raw, reader.at - 1)
  /\ IsTar(raw) => \A k \in 1..(reader.at - 1) : raw.entries[k].type # "end"

\* The members read so far.
Done == {n \in MemberEntries : n < reader.at}

LEMMA HeaderFacts ==
  ASSUME raw \in Archives
  PROVE  /\ Len(raw.entries) \in Nat
         /\ \A n \in 1..Len(raw.entries) :
              /\ raw.entries[n].size \in Nat
              /\ raw.entries[n].slash \in BOOLEAN /\ raw.entries[n].exec \in BOOLEAN
              /\ (IsTar(raw) /\ raw.entries[n].type \in Extensions) \/ raw.entries[n].name \in Seq(STRING)
              /\ raw.entries[n].type = "symlink" => raw.entries[n].link \in Seq(STRING)
              /\ raw.entries[n].name \in {Missing, Malformed} \/ raw.entries[n].name \in Seq(STRING)
              /\ raw.entries[n].link = Missing \/ raw.entries[n].link \in Seq(STRING)
<1>1. AreHeaders(raw)
  BY UnpackAssumption
<1>2. raw.entries \in Seq({raw.entries[n] : n \in DOMAIN raw.entries})
  BY <1>1 DEF AreHeaders
<1>3. Len(raw.entries) \in Nat /\ DOMAIN raw.entries = 1..Len(raw.entries)
  <2> DEFINE all == {raw.entries[n] : n \in DOMAIN raw.entries}
  <2>1. raw.entries \in Seq(all)
    BY <1>2
  <2> HIDE DEF all
  <2> QED
    BY <2>1
<1> QED
  BY <1>1, <1>3, Zenon DEF AreHeaders, IsSpelled

\* The next header that is no extension, and those before it that are.
LEMMA AfterExtensionsFacts ==
  ASSUME raw \in Archives, NEW k \in 1..(Len(raw.entries) + 1)
  PROVE  /\ AfterExtensions(raw, k) \in k..(Len(raw.entries) + 1)
         /\ ~IsExtension(raw, AfterExtensions(raw, k))
         /\ \A m \in k..(AfterExtensions(raw, k) - 1) : IsExtension(raw, m)
<1> DEFINE all == Len(raw.entries)
           Is(n) == ~IsExtension(raw, n) /\ \A m \in k..(n - 1) : IsExtension(raw, m)
           plain == {n \in Nat : n \in k..(all + 1) /\ ~IsExtension(raw, n)}
<1>1. all \in Nat
  BY HeaderFacts
<1>2. all + 1 \in plain
  BY <1>1 DEF IsExtension
<1>3. PICK n \in plain : \A m \in plain : n <= m
  BY <1>2, LeastMember
<1>4. n \in k..(all + 1) /\ Is(n)
  <2> SUFFICES ASSUME NEW m \in k..(n - 1), ~IsExtension(raw, m) PROVE FALSE
    BY <1>3
  <2>1. m \in Nat /\ m \in k..(all + 1) /\ m < n
    BY <1>1, <1>3
  <2>2. m \in plain
    BY <2>1
  <2> HIDE DEF plain
  <2> QED
    BY <1>3, <2>1, <2>2
<1>5. AfterExtensions(raw, k) = CHOOSE some \in k..(all + 1) : Is(some)
  BY DEF AfterExtensions
<1> HIDE DEF all, plain, Is
<1>6. LET next == CHOOSE some \in k..(all + 1) : Is(some)
      IN next \in k..(all + 1) /\ Is(next)
  BY <1>4
<1> QED
  BY <1>5, <1>6 DEF all, Is

\* The turns of the slots, from a reader at k with nothing held back.
SlotTurns(slots, k, n) ==
  /\ slots[k - 1] = Slots
  /\ \A j \in k..n : slots[j] = Extended(slots[j - 1], raw.entries[j])

LEMMA SlotRuns ==
  ASSUME Reads
  PROVE  \E slots : /\ SlotTurns(slots, reader.at, Here.at - 1)
                    /\ Here.slots = slots[Here.at - 1]
                    /\ Here.at = AfterExtensions(raw, reader.at)
<1> DEFINE k == reader.at
           z == AfterExtensions(raw, k) - 1
           turn(f, n) == IF n = k - 1 THEN reader.slots ELSE Extended(f[n - 1], raw.entries[n])
           Has(m) == \E f : f = [n \in (k - 1)..m |-> turn(f, n)]
           without == {m \in Nat : m >= k - 1 /\ ~Has(m)}
<1>0. k \in Nat /\ k >= 1 /\ z \in Nat /\ z >= k - 1
  <2>1. k \in 1..(Len(raw.entries) + 1) /\ Len(raw.entries) \in Nat
    BY HeaderFacts DEF Reads
  <2>2. AfterExtensions(raw, k) \in k..(Len(raw.entries) + 1)
    BY <2>1, AfterExtensionsFacts DEF Reads
  <2> HIDE DEF k
  <2> QED
    BY <2>1, <2>2
<1> DEFINE slots == CHOOSE f : f = [n \in (k - 1)..z |-> turn(f, n)]
<1>4. Here = [at |-> AfterExtensions(raw, k), slots |-> slots[z]]
  BY DEF Here, Past
<1> HIDE DEF k, z
<1>1. without = {}
  <2> SUFFICES ASSUME without # {} PROVE FALSE
    OBVIOUS
  <2>1. PICK m \in without : \A j \in without : m <= j
    BY LeastMember
  <2>2. CASE m = k - 1
    <3> DEFINE f == [n \in (k - 1)..(k - 1) |-> reader.slots]
    <3>1. f = [n \in (k - 1)..(k - 1) |-> turn(f, n)]
      BY <1>0
    <3> QED
      BY <2>1, <2>2, <3>1
  <2>3. CASE m # k - 1
    <3>1. m \in Nat /\ m - 1 \in Nat /\ m - 1 < m /\ m - 1 >= k - 1
      BY <1>0, <2>1, <2>3
    <3>2. PICK g : g = [n \in (k - 1)..m - 1 |-> turn(g, n)]
      <4>1. m - 1 \notin without
        <5> HIDE DEF without
        <5> QED
          BY <2>1, <3>1
      <4> QED
        BY <3>1, <4>1
    <3> DEFINE f == [n \in (k - 1)..m |-> turn(g, n)]
    <3>3. \A n \in (k - 1)..m - 1 : n \in (k - 1)..m /\ g[n] = turn(g, n)
      BY <1>0, <3>1, <3>2
    <3>4. \A n \in (k - 1)..m - 1 : f[n] = g[n]
      BY <3>3
    <3>5. ASSUME NEW n \in (k - 1)..m PROVE turn(f, n) = turn(g, n)
      <4>1. CASE n = k - 1
        BY <4>1
      <4>2. CASE n # k - 1
        <5>1. n - 1 \in (k - 1)..m - 1
          BY <1>0, <3>1, <4>2
        <5>2. f[n - 1] = g[n - 1]
          BY <3>4, <5>1
        <5> HIDE DEF f
        <5> QED
          BY <4>2, <5>2
      <4> QED
        BY <4>1, <4>2
    <3>6. f = [n \in (k - 1)..m |-> turn(f, n)]
      BY <3>5
    <3> QED
      BY <2>1, <3>6
  <2> QED
    BY <2>2, <2>3
<1>2. Has(z)
  BY <1>0, <1>1
<1>3. slots = [n \in (k - 1)..z |-> turn(slots, n)]
  BY <1>2
<1> HIDE DEF slots
<1>5. slots[k - 1] = Slots
  <2>1. k - 1 \in (k - 1)..z
    BY <1>0
  <2> QED
    BY <1>3, <2>1 DEF Reads
<1>6. ASSUME NEW n \in k..z PROVE slots[n] = Extended(slots[n - 1], raw.entries[n])
  <2>1. n \in (k - 1)..z /\ n # k - 1
    BY <1>0
  <2> QED
    BY <1>3, <2>1
<1>7. Here.at - 1 = z /\ Here.slots = slots[z] /\ Here.at = AfterExtensions(raw, k)
  BY <1>4 DEF z
<1> QED
  BY <1>5, <1>6, <1>7 DEF SlotTurns, k

\* The headers from k to n that name what follows, or that say where it leads.
Naming(k, n) == {j \in k..n : raw.entries[j].name # Missing}
Leading(k, n) == {j \in k..n : raw.entries[j].link # Missing}

LEMMA MaxIs ==
  ASSUME NEW S \in SUBSET Nat, NEW n \in S, \A i \in S : i <= n
  PROVE  Max(S) = n
<1>1. n \in S /\ \A y \in S : n >= y
  OBVIOUS
<1>2. Max(S) \in S /\ \A y \in S : Max(S) >= y
  BY <1>1, Zenon DEF Max
<1>3. Max(S) >= n /\ Max(S) <= n /\ Max(S) \in Nat /\ n \in Nat
  BY <1>2
<1> HIDE DEF Max
<1> QED
  BY <1>3

\* The last of the headers up to n, if it is there, or else the last before it.
LEMMA LastOf ==
  ASSUME NEW k \in Nat \ {0}, NEW n \in Nat, n >= k
  PROVE  /\ raw.entries[n].name = Missing => Naming(k, n) = Naming(k, n - 1)
         /\ raw.entries[n].name # Missing => Naming(k, n) # {} /\ Max(Naming(k, n)) = n
         /\ raw.entries[n].link = Missing => Leading(k, n) = Leading(k, n - 1)
         /\ raw.entries[n].link # Missing => Leading(k, n) # {} /\ Max(Leading(k, n)) = n
<1>1. raw.entries[n].name = Missing => Naming(k, n) = Naming(k, n - 1)
  BY DEF Naming
<1>2. raw.entries[n].link = Missing => Leading(k, n) = Leading(k, n - 1)
  BY DEF Leading
<1>3. ASSUME raw.entries[n].name # Missing PROVE Naming(k, n) # {} /\ Max(Naming(k, n)) = n
  <2>1. Naming(k, n) \in SUBSET Nat /\ n \in Naming(k, n) /\ \A i \in Naming(k, n) : i <= n
    BY <1>3 DEF Naming
  <2> QED
    BY <2>1, MaxIs
<1>4. ASSUME raw.entries[n].link # Missing PROVE Leading(k, n) # {} /\ Max(Leading(k, n)) = n
  <2>1. Leading(k, n) \in SUBSET Nat /\ n \in Leading(k, n) /\ \A i \in Leading(k, n) : i <= n
    BY <1>4 DEF Leading
  <2> QED
    BY <2>1, MaxIs
<1> QED
  BY <1>1, <1>2, <1>3, <1>4

\* What the slots hold is what the last header that says anything of it says.
SlotsSay(slots, k, n) ==
  /\ slots.name = IF Naming(k, n) = {} THEN Missing ELSE raw.entries[Max(Naming(k, n))].name
  /\ Naming(k, n) # {} => slots.slash = raw.entries[Max(Naming(k, n))].slash
  /\ slots.link = IF Leading(k, n) = {} THEN Missing ELSE raw.entries[Max(Leading(k, n))].link

LEMMA SlotsAreLast ==
  ASSUME Reads
  PROVE  SlotsSay(Here.slots, reader.at, Here.at - 1)
<1> DEFINE k == reader.at
           z == Here.at - 1
<1>1. PICK slots : SlotTurns(slots, k, z) /\ Here.slots = slots[z] /\ Here.at = AfterExtensions(raw, k)
  BY SlotRuns
<1>2. k \in Nat \ {0} /\ z \in Nat /\ z >= k - 1
  <2>1. k \in 1..(Len(raw.entries) + 1) /\ Len(raw.entries) \in Nat
    BY HeaderFacts DEF Reads
  <2>2. Here.at \in k..(Len(raw.entries) + 1)
    BY <1>1, <2>1, AfterExtensionsFacts DEF Reads
  <2> HIDE DEF k
  <2> QED
    BY <2>1, <2>2
<1> HIDE DEF k, z
<1> DEFINE odd == {n \in Nat : n >= k - 1 /\ n <= z /\ ~SlotsSay(slots[n], k, n)}
<1>3. odd = {}
  <2> SUFFICES ASSUME odd # {} PROVE FALSE
    OBVIOUS
  <2>1. PICK n \in odd : \A j \in odd : n <= j
    BY LeastMember
  <2>2. CASE n = k - 1
    <3>1. Naming(k, n) = {} /\ Leading(k, n) = {}
      BY <1>2, <2>2 DEF Naming, Leading
    <3>2. slots[n] = Slots
      BY <1>1, <2>2 DEF SlotTurns
    <3>3. SlotsSay(slots[n], k, n)
      BY <3>1, <3>2 DEF SlotsSay, Slots
    <3> QED
      BY <2>1, <3>3
  <2>3. CASE n # k - 1
    <3>1. /\ n \in Nat /\ n \in k..z /\ n >= k
          /\ n - 1 \in Nat /\ n - 1 >= k - 1 /\ n - 1 <= z /\ n - 1 < n
      BY <1>2, <2>1, <2>3
    <3>2. SlotsSay(slots[n - 1], k, n - 1)
      <4>1. n - 1 \notin odd
        <5> HIDE DEF odd
        <5> QED
          BY <2>1, <3>1
      <4> QED
        BY <3>1, <4>1
    <3> DEFINE e == raw.entries[n]
               was == slots[n - 1]
               is == slots[n]
    <3>3. is = Extended(was, e)
      BY <1>1, <3>1 DEF SlotTurns
    <3>4. /\ is.name = IF e.name = Missing THEN was.name ELSE e.name
          /\ is.slash = IF e.name = Missing THEN was.slash ELSE e.slash
          /\ is.link = IF e.link = Missing THEN was.link ELSE e.link
      BY <3>3 DEF Extended
    <3>5. /\ e.name = Missing => Naming(k, n) = Naming(k, n - 1)
          /\ e.name # Missing => Naming(k, n) # {} /\ Max(Naming(k, n)) = n
          /\ e.link = Missing => Leading(k, n) = Leading(k, n - 1)
          /\ e.link # Missing => Leading(k, n) # {} /\ Max(Leading(k, n)) = n
      BY <1>2, <3>1, LastOf
    <3>6. SlotsSay(is, k, n)
      <4>1. is.name = IF Naming(k, n) = {} THEN Missing ELSE raw.entries[Max(Naming(k, n))].name
        BY <3>2, <3>4, <3>5 DEF SlotsSay
      <4>2. is.link = IF Leading(k, n) = {} THEN Missing ELSE raw.entries[Max(Leading(k, n))].link
        BY <3>2, <3>4, <3>5 DEF SlotsSay
      <4>3. Naming(k, n) # {} => is.slash = raw.entries[Max(Naming(k, n))].slash
        BY <3>2, <3>4, <3>5 DEF SlotsSay
      <4> QED
        BY <4>1, <4>2, <4>3 DEF SlotsSay
    <3> QED
      BY <2>1, <3>6
  <2> QED
    BY <2>2, <2>3
<1> QED
  BY <1>1, <1>2, <1>3 DEF k, z

\* A member the reader gives out is the one its headers describe.
LEMMA MemberSays ==
  ASSUME Reads, MemberIsNext
  PROVE  /\ Here.at \in MemberEntries /\ Here.at >= reader.at /\ Here.at \in 1..Len(raw.entries)
         /\ Next1.name = SaidName(Here.at) /\ Next1.slash = SaidSlash(Here.at)
         /\ Next1.kind = SaidKind(Here.at) /\ Next1.text = raw.entries[Here.at].text
         /\ Next1.exec = (raw.entries[Here.at].exec /\ (IsTar(raw) \/ raw.entries[Here.at].unix))
         /\ Next1.name \in Seq(STRING) /\ Next1.slash \in BOOLEAN /\ Next1.size \in Nat
         /\ Next1.kind = "symlink" => /\ Next1.target = SaidTarget(Here.at)
                                      /\ Next1.target \in Seq(STRING)
<1> DEFINE n == Here.at
           k == reader.at
           e == raw.entries[n]
<1>1. k \in 1..(Len(raw.entries) + 1) /\ Len(raw.entries) \in Nat /\ raw \in Archives
  BY HeaderFacts DEF Reads
<1>2. /\ n = AfterExtensions(raw, k) /\ n \in k..(Len(raw.entries) + 1)
      /\ ~IsExtension(raw, n) /\ \A m \in k..(n - 1) : IsExtension(raw, m)
  BY <1>1, SlotRuns, AfterExtensionsFacts
<1>3. /\ n \in 1..Len(raw.entries) /\ k \in Nat /\ n \in Nat /\ k >= 1
      /\ IF IsTar(raw) THEN TarMemberIsWell(e) ELSE ZipMemberIsWell(e)
      /\ \A m \in k..(n - 1) : ExtensionIsWell(raw.entries[m])
  <2>1. n <= Len(raw.entries)
    BY DEF MemberIsNext, MemberIsWell
  <2>2. IF IsTar(raw) THEN TarMemberIsWell(e) ELSE ZipMemberIsWell(e)
    BY DEF MemberIsNext, MemberIsWell
  <2>3. \A m \in k..(n - 1) : ExtensionIsWell(raw.entries[m])
    BY <1>2, Zenon DEF MemberIsNext, ExtensionsAreWell
  <2> HIDE DEF n, k
  <2> QED
    BY <1>1, <1>2, <2>1, <2>2, <2>3
<1>4. SlotsSay(Here.slots, k, n - 1)
  BY SlotsAreLast
<1>5. Before(n) = IF IsTar(raw) THEN k..(n - 1) ELSE {}
  <2> HIDE DEF n, k
  <2>1. CASE IsTar(raw)
    <3>1. ASSUME NEW j \in 1..(n - 1), IsExtension(raw, j), \A i \in j..(n - 1) : IsExtension(raw, i), j < k
          PROVE  FALSE
      <4>1. k - 1 \in j..(n - 1) /\ k # 1
        BY <1>2, <1>3, <3>1
      <4> QED
        BY <3>1, <4>1 DEF Reads, k
    <3>2. \A j \in k..(n - 1) : j \in 1..(n - 1) /\ \A i \in j..(n - 1) : i \in k..(n - 1)
      BY <1>3
    <3>3. \A j \in 1..(n - 1) : ~(j < k) => j \in k..(n - 1)
      BY <1>3
    <3> QED
      BY <1>2, <2>1, <3>1, <3>2, <3>3, Zenon DEF Before
  <2>2. CASE ~IsTar(raw)
    BY <2>2, Zenon DEF Before, IsExtension
  <2> QED
    BY <2>1, <2>2
<1> DEFINE s == Here.slots
<1>6. /\ s.name = IF Naming(k, n - 1) = {} THEN Missing ELSE raw.entries[Max(Naming(k, n - 1))].name
      /\ Naming(k, n - 1) # {} => s.slash = raw.entries[Max(Naming(k, n - 1))].slash
      /\ s.link = IF Leading(k, n - 1) = {} THEN Missing ELSE raw.entries[Max(Leading(k, n - 1))].link
  BY <1>4 DEF SlotsSay
<1>7. ASSUME IsTar(raw)
      PROVE  /\ LastNaming(n, TRUE) = IF Naming(k, n - 1) = {} THEN n ELSE Max(Naming(k, n - 1))
             /\ LastNaming(n, FALSE) = IF Leading(k, n - 1) = {} THEN n ELSE Max(Leading(k, n - 1))
  BY <1>5, <1>7 DEF LastNaming, Naming, Leading
<1>8. ASSUME ~IsTar(raw) PROVE LastNaming(n, TRUE) = n /\ LastNaming(n, FALSE) = n
  BY <1>5, <1>8 DEF LastNaming
<1>9. /\ Naming(k, n - 1) # {} => Max(Naming(k, n - 1)) \in Naming(k, n - 1)
      /\ Leading(k, n - 1) # {} => Max(Leading(k, n - 1)) \in Leading(k, n - 1)
  <2>1. ASSUME NEW S \in SUBSET (k..(n - 1)), S # {} PROVE Max(S) \in S
    <3> DEFINE T == {n - 1 - i : i \in S}
    <3> HIDE DEF n, k
    <3>0. \A i \in S : n - 1 - i \in Nat
      BY <1>3
    <3>1. T \in SUBSET Nat /\ T # {}
      BY <2>1, <3>0
    <3>2. PICK least \in T : \A i \in T : least <= i
      BY <3>1, LeastMember
    <3>3. PICK top \in S : least = n - 1 - top
      BY <3>2
    <3>4. \A i \in S : i <= top
      <4>1. \A i \in S : n - 1 - i \in T
        OBVIOUS
      <4>2. \A i \in S : least <= n - 1 - i
        BY <3>2, <4>1
      <4> QED
        BY <1>3, <3>3, <4>2
    <3>5. S \in SUBSET Nat
      BY <1>3
    <3>6. Max(S) = top
      BY <3>4, <3>5, MaxIs
    <3> QED
      BY <3>6
  <2>2. Naming(k, n - 1) \in SUBSET (k..(n - 1)) /\ Leading(k, n - 1) \in SUBSET (k..(n - 1))
    BY DEF Naming, Leading
  <2> QED
    BY <2>1, <2>2
<1>10. n \in MemberEntries
  <2>1. ASSUME IsTar(raw), NEW j \in 1..n PROVE raw.entries[j].type # "end"
    <3>1. j \in 1..(k - 1) \/ j \in k..(n - 1) \/ j = n
      BY <1>3
    <3>2. CASE j \in 1..(k - 1)
      BY <2>1, <3>2 DEF Reads
    <3>3. CASE j \in k..(n - 1)
      BY <1>2, <3>3, Zenon DEF IsExtension, Extensions
    <3>4. CASE j = n
      BY <1>3, <2>1, <3>4 DEF TarMemberIsWell, MemberTypes
    <3> QED
      BY <3>1, <3>2, <3>3, <3>4
  <2> QED
    BY <1>2, <1>3, <2>1 DEF MemberEntries
<1>11. Next1 = IF IsTar(raw) THEN TarMember(s, e) ELSE ZipMember(e)
  BY DEF Next1, MemberAt
<1>12. /\ e.size \in Nat /\ e.slash \in BOOLEAN /\ e.exec \in BOOLEAN
       /\ e.type = "symlink" => e.link \in Seq(STRING)
       /\ e.link = Missing \/ e.link \in Seq(STRING)
       /\ e.name \in Seq(STRING) \/ (IsTar(raw) /\ e.type \in Extensions)
  BY <1>1, <1>3, HeaderFacts
<1> HIDE DEF n, k, e, s
<1>13. CASE IsTar(raw)
  <2>1. e.type \in MemberTypes /\ e.name \in Seq(STRING)
    BY <1>3, <1>12, <1>13 DEF TarMemberIsWell, MemberTypes, Extensions
  <2>2. /\ Next1.name = IF s.name = Missing THEN e.name ELSE s.name
        /\ Next1.slash = IF s.name = Missing THEN e.slash ELSE s.slash
        /\ Next1.kind = e.type /\ Next1.text = e.text /\ Next1.size = e.size /\ Next1.exec = e.exec
        /\ Next1.target = IF s.link = Missing THEN e.link ELSE s.link
    BY <1>11, <1>13 DEF TarMember
  <2>3. ASSUME NEW j \in Naming(k, n - 1)
        PROVE  /\ raw.entries[j].name \in Seq(STRING) /\ raw.entries[j].name # Missing
               /\ raw.entries[j].slash \in BOOLEAN
    <3>1. j \in k..(n - 1) /\ j \in 1..Len(raw.entries) /\ raw.entries[j].name # Missing
      BY <1>1, <1>3 DEF Naming
    <3>2. raw.entries[j].name # Malformed
      BY <1>3, <3>1, Zenon DEF ExtensionIsWell
    <3> QED
      BY <1>1, <3>1, <3>2, HeaderFacts, Zenon
  <2>4. ASSUME NEW j \in Leading(k, n - 1)
        PROVE  raw.entries[j].link \in Seq(STRING) /\ raw.entries[j].link # Missing
    <3>1. j \in 1..Len(raw.entries) /\ raw.entries[j].link # Missing
      BY <1>1, <1>3 DEF Leading
    <3> QED
      BY <1>1, <3>1, HeaderFacts, Zenon
  <2>5. /\ Next1.name = SaidName(n) /\ Next1.name \in Seq(STRING)
        /\ Next1.slash = SaidSlash(n) /\ Next1.slash \in BOOLEAN
    <3>1. CASE Naming(k, n - 1) = {}
      BY <1>6, <1>7, <1>12, <1>13, <2>1, <2>2, <3>1, Zenon DEF SaidName, SaidSlash, e
    <3>2. CASE Naming(k, n - 1) # {}
      BY <1>6, <1>7, <1>9, <1>13, <2>2, <2>3, <3>2, Zenon DEF SaidName, SaidSlash
    <3> QED
      BY <3>1, <3>2
  <2>6. Next1.kind = "symlink" => Next1.target = SaidTarget(n) /\ Next1.target \in Seq(STRING)
    <3>1. CASE Leading(k, n - 1) = {}
      BY <1>6, <1>7, <1>12, <1>13, <2>2, <3>1, Zenon DEF SaidTarget, e
    <3>2. CASE Leading(k, n - 1) # {}
      BY <1>6, <1>7, <1>9, <1>13, <2>2, <2>4, <3>2, Zenon DEF SaidTarget
    <3> QED
      BY <3>1, <3>2
  <2>7. Next1.exec = (e.exec /\ (IsTar(raw) \/ e.unix))
    BY <1>12, <1>13, <2>2, Zenon
  <2> QED
    BY <1>3, <1>10, <1>12, <1>2, <1>13, <2>2, <2>5, <2>6, <2>7 DEF SaidKind, n, k, e
<1>14. CASE ~IsTar(raw)
  <2>1. /\ Next1.name = e.name /\ Next1.slash = e.slash
        /\ Next1.kind = ZipMember(e).kind /\ Next1.kind # "symlink" /\ Next1.text = e.text
        /\ Next1.size = IF e.slash THEN 0 ELSE e.size
        /\ Next1.exec = (e.unix /\ e.exec)
    BY <1>11, <1>14 DEF ZipMember
  <2>2. e.name \in Seq(STRING) /\ (IF e.slash THEN 0 ELSE e.size) \in Nat
    BY <1>12, <1>14
  <2>3. /\ Next1.name = SaidName(n) /\ Next1.slash = SaidSlash(n) /\ Next1.slash \in BOOLEAN
        /\ Next1.kind = SaidKind(n) /\ Next1.name \in Seq(STRING)
    BY <1>8, <1>12, <1>14, <2>1, <2>2, Zenon DEF SaidName, SaidSlash, SaidKind, e
  <2>4. Next1.exec = (e.exec /\ (IsTar(raw) \/ e.unix))
    BY <1>14, <2>1, Zenon
  <2>5. Next1.size \in Nat /\ Next1.kind # "symlink" /\ Next1.text = e.text
    BY <2>1, <2>2, Zenon
  <2>6. n >= k
    BY <1>1, <1>2, <1>3
  <2> QED
    BY <1>3, <1>10, <2>3, <2>4, <2>5, <2>6, Zenon DEF n, k, e
<1> QED
  BY <1>13, <1>14
-----------------------------------------------------------------------------
(* Unpacking: the tree is the members read so far.                         *)
Live == {"closed", "reading", "links", "done"}
Waiting == [name : Seq(STRING), slash : BOOLEAN, target : Seq(STRING)]

UnpackTypeOK ==
  /\ raw \in Archives /\ linksWork \in BOOLEAN
  /\ phase \in Live \cup {"failed", "removed"}
  /\ total \in Nat /\ total <= MaxTotal
  /\ at \in Nat \ {0} /\ deferred \in Seq(Waiting)

SizeIsCounted ==
  /\ IsSized(tree) /\ Size(tree) <= MaxTotal
  /\ phase \in Live => Size(tree) <= total

\* What the locals hold is what the members read so far said.
LocalsAreSaid ==
  /\ \A n \in Done : /\ Plain(SaidName(n)) /\ SaidName(n) # <<>> /\ SaidSlash(n) \in BOOLEAN
                     /\ <<SaidName(n), SaidSlash(n)>> \in seen
                     /\ SaidKind(n) = "symlink" => SaidName(n) \in links
  /\ \A m \in Done, n \in Done : SaidName(m) = SaidName(n) /\ SaidSlash(m) = SaidSlash(n) => m = n

\* Whatever is no directory has a member, alone of its spelling.
CopiedBefore(path) == \E k \in 1..Len(deferred) : k < at /\ deferred[k].name = path /\ ~deferred[k].slash
NodesAreSaid ==
  \A path \in DOMAIN tree : tree[path].kind # "directory" =>
    \E n \in Done : /\ SaidName(n) = path /\ ~SaidSlash(n)
                    /\ \/ tree[path].kind = "file" /\ SaidKind(n) = "file"
                       \/ tree[path].kind = "file" /\ SaidKind(n) = "symlink" /\ CopiedBefore(path)
                       \/ tree[path].kind = "symlink" /\ SaidKind(n) = "symlink"
PathsAreSaid == \A path \in DOMAIN tree : path # <<>> => \E n \in Done : IsPrefix(path, SaidName(n))

FileIsThere(n) ==
  /\ SaidName(n) \in DOMAIN tree /\ tree[SaidName(n)].kind = "file"
  /\ tree[SaidName(n)].text = raw.entries[n].text
  /\ tree[SaidName(n)].exec = (raw.entries[n].exec /\ (IsTar(raw) \/ raw.entries[n].unix))
DirectoryIsThere(n) ==
  /\ SaidName(n) \in DOMAIN tree
  /\ \/ tree[SaidName(n)].kind = "directory"
     \/ \E file \in Done : SaidKind(file) = "file" /\ SaidName(file) = SaidName(n)
LinkIsThere(n) ==
  \/ SaidName(n) \in DOMAIN tree /\ tree[SaidName(n)] = LinkTo(SaidTarget(n))
  \/ \E k \in 1..Len(deferred) : deferred[k].name = SaidName(n) /\ deferred[k].slash = SaidSlash(n)
MembersAreThere ==
  \A n \in Done : /\ SaidKind(n) = "file" => FileIsThere(n)
                  /\ SaidKind(n) = "directory" => DirectoryIsThere(n)
                  /\ SaidKind(n) = "symlink" => LinkIsThere(n)

\* What was put off is a link's, once, and no link is above it.
DeferredAreSaid ==
  /\ \A k \in 1..Len(deferred) :
       /\ \E n \in Done : /\ SaidKind(n) = "symlink" /\ SaidName(n) = deferred[k].name
                          /\ SaidSlash(n) = deferred[k].slash
       /\ ~deferred[k].slash => /\ Front(deferred[k].name) \in DOMAIN tree
                                /\ ~IsLink(tree, Front(deferred[k].name))
       /\ k < at => deferred[k].name \in copied \cup unresolved
  /\ \A j \in 1..Len(deferred), k \in 1..Len(deferred) :
       deferred[j].name = deferred[k].name /\ deferred[j].slash = deferred[k].slash => j = k

TreeIsSaid ==
  /\ Reads /\ WellFormed(tree)
  /\ LocalsAreSaid /\ NodesAreSaid /\ PathsAreSaid /\ MembersAreThere /\ DeferredAreSaid
  /\ phase \in {"closed", "reading"} => at = 1
  /\ phase \in {"links", "done"} => MemberEntries \subseteq Done
  /\ phase = "done" => at > Len(deferred)

UnpackInv ==
  /\ UnpackTypeOK /\ SizeIsCounted
  /\ phase \in Live => TreeIsSaid

LEMMA SameArchive ==
  ASSUME raw' = raw
  PROVE  /\ MemberEntries' = MemberEntries
         /\ \A n : /\ SaidName(n)' = SaidName(n) /\ SaidSlash(n)' = SaidSlash(n)
                   /\ SaidKind(n)' = SaidKind(n) /\ SaidTarget(n)' = SaidTarget(n)
<1>1. \A n : IsExtension(raw, n)' = IsExtension(raw, n)
  BY DEF IsExtension, IsTar
<1>2. MemberEntries' = MemberEntries
  BY <1>1 DEF MemberEntries, IsTar
<1>3. \A n : Before(n)' = Before(n)
  BY <1>1 DEF Before
<1>4. ASSUME NEW n
      PROVE  LastNaming(n, TRUE)' = LastNaming(n, TRUE) /\ LastNaming(n, FALSE)' = LastNaming(n, FALSE)
  BY <1>3 DEF LastNaming
<1>5. ASSUME NEW n
      PROVE  /\ SaidName(n)' = SaidName(n) /\ SaidSlash(n)' = SaidSlash(n)
             /\ SaidTarget(n)' = SaidTarget(n)
  BY <1>4 DEF SaidName, SaidSlash, SaidTarget
<1>6. ASSUME NEW n PROVE SaidKind(n)' = SaidKind(n)
  BY DEF SaidKind, IsTar
<1> QED
  BY <1>2, <1>5, <1>6

LEMMA ReaderStays ==
  ASSUME raw' = raw, reader' = reader
  PROVE  /\ Reads' <=> Reads
         /\ Done' = Done
<1>1. Reads' <=> Reads
  BY DEF Reads, IsExtension, IsTar
<1>2. Done' = Done
  BY SameArchive DEF Done
<1> QED
  BY <1>1, <1>2

\* After a member the reader has read that member and no other.
LEMMA ReaderMoves ==
  ASSUME Reads, MemberIsNext, raw' = raw, reader' = AfterMember(Here)
  PROVE  Reads' /\ Done' = Done \cup {Here.at} /\ Here.at \notin Done
<1> DEFINE n == Here.at
           k == reader.at
<1>1. k \in 1..(Len(raw.entries) + 1) /\ Len(raw.entries) \in Nat /\ raw \in Archives
  BY HeaderFacts DEF Reads
<1>2. /\ ~IsExtension(raw, n) /\ \A m \in k..(n - 1) : IsExtension(raw, m)
  BY <1>1, SlotRuns, AfterExtensionsFacts
<1>3. n \in MemberEntries /\ n >= k /\ n \in 1..Len(raw.entries)
  BY MemberSays
<1>4. reader'.at = n + 1 /\ reader'.slots = Slots
  BY DEF AfterMember
<1> HIDE DEF n
<1>5. Reads'
  <2>1. reader'.at \in 1..(Len(raw.entries) + 1) /\ reader'.at - 1 = n
    BY <1>1, <1>3, <1>4
  <2>2. IsTar(raw) => \A j \in 1..(reader'.at - 1) : raw.entries[j].type # "end"
    BY <1>3, <2>1 DEF MemberEntries
  <2> QED
    BY <1>1, <1>2, <1>4, <2>1, <2>2 DEF Reads, IsExtension, IsTar
<1>6. Done' = Done \cup {n}
  <2>1. Done' = {m \in MemberEntries : m < n + 1}
    BY <1>4, SameArchive DEF Done
  <2>2. ASSUME NEW m \in MemberEntries, m < n + 1, m # n PROVE m < k
    <3>1. m \in 1..Len(raw.entries) /\ ~IsExtension(raw, m)
      BY DEF MemberEntries
    <3>2. ~(m \in k..(n - 1))
      BY <1>2, <3>1
    <3> QED
      BY <1>1, <1>3, <2>2, <3>1, <3>2
  <2>3. \A m \in MemberEntries : m < k => m < n + 1
    BY <1>1, <1>3 DEF MemberEntries
  <2>4. n < n + 1
    BY <1>3
  <2> QED
    BY <1>3, <2>1, <2>2, <2>3, <2>4 DEF Done
<1>7. n \notin Done
  BY <1>1, <1>3 DEF Done
<1> QED
  BY <1>5, <1>6, <1>7 DEF n

\* Where the archive ends, every member of it was read.
LEMMA EndIsAll ==
  ASSUME Reads, Ended(raw, Here)
  PROVE  MemberEntries \subseteq Done
<1> DEFINE z == Here.at
           k == reader.at
<1>1. k \in 1..(Len(raw.entries) + 1) /\ Len(raw.entries) \in Nat /\ raw \in Archives
  BY HeaderFacts DEF Reads
<1>2. z \in k..(Len(raw.entries) + 1) /\ \A m \in k..(z - 1) : IsExtension(raw, m)
  BY <1>1, SlotRuns, AfterExtensionsFacts
<1>3. IF IsTar(raw) THEN z <= Len(raw.entries) /\ raw.entries[z].type = "end"
      ELSE z > Len(raw.entries)
  BY DEF Ended
<1> HIDE DEF z
<1>4. ASSUME NEW m \in MemberEntries PROVE m < k
  <2>1. m \in 1..Len(raw.entries) /\ ~IsExtension(raw, m)
        /\ (IsTar(raw) => \A j \in 1..m : raw.entries[j].type # "end")
    BY DEF MemberEntries
  <2>2. m < z
    <3>1. CASE IsTar(raw)
      <4>1. ~(z \in 1..m)
        BY <1>3, <2>1, <3>1
      <4> QED
        BY <1>1, <1>2, <2>1, <4>1
    <3>2. CASE ~IsTar(raw)
      BY <1>1, <1>2, <1>3, <2>1, <3>2
    <3> QED
      BY <3>1, <3>2
  <2>3. ~(m \in k..(z - 1))
    BY <1>2, <2>1
  <2> QED
    BY <1>1, <1>2, <2>1, <2>2, <2>3
<1> QED
  BY <1>4 DEF Done

\* Whatever is above a path that is there is a directory.
LEMMA UppersAreDirectories ==
  ASSUME NEW t, WellFormed(t), NEW path \in DOMAIN t, NEW n \in 0..(Len(path) - 1)
  PROVE  IsDirectory(t, Upper(path, n))
<1> DEFINE all == Len(path)
           bad == {d \in Nat : d >= 1 /\ d <= all /\ ~IsDirectory(t, Upper(path, all - d))}
<1>1. path \in Seq(STRING) /\ all \in Nat
  BY DEF WellFormed
<1> HIDE DEF all
<1>2. bad = {}
  <2> SUFFICES ASSUME bad # {} PROVE FALSE
    OBVIOUS
  <2>1. PICK d \in bad : \A e \in bad : d <= e
    BY LeastMember
  <2> DEFINE above == Upper(path, all - d + 1)
  <2>2. d \in Nat /\ d >= 1 /\ d <= all /\ all - d \in 0..all /\ all - d + 1 \in 1..all
    BY <1>1, <2>1
  <2>3. above \in Seq(STRING) /\ Len(above) = all - d + 1
    <3>1. all - d + 1 \in 0..Len(path)
      BY <1>1, <2>2 DEF all
    <3> QED
      BY <1>1, <3>1, UpperFacts
  <2>4. above \in DOMAIN t
    <3>1. CASE d = 1
      <4>1. all - d + 1 = all /\ path # <<>>
        BY <1>1, <2>2, <3>1 DEF all
      <4> QED
        BY <1>1, <4>1, FrontFacts DEF all
    <3>2. CASE d # 1
      <4>1. d - 1 \in Nat /\ d - 1 >= 1 /\ d - 1 <= all /\ d - 1 < d /\ all - (d - 1) = all - d + 1
        BY <1>1, <2>2, <3>2
      <4>2. d - 1 \notin bad
        <5> HIDE DEF bad
        <5> QED
          BY <2>1, <2>2, <4>1
      <4>3. IsDirectory(t, Upper(path, all - (d - 1)))
        BY <4>1, <4>2
      <4> QED
        BY <4>1, <4>3 DEF IsDirectory
    <3> QED
      BY <3>1, <3>2
  <2>5. IsDirectory(t, Front(above))
    <3>1. above # <<>>
      BY <1>1, <2>2, <2>3
    <3> HIDE DEF above
    <3> QED
      BY <2>4, <3>1 DEF WellFormed
  <2>6. Front(above) = Upper(path, all - d)
    <3>1. above # <<>> /\ Len(above) - 1 = all - d
      BY <1>1, <2>2, <2>3
    <3>2. Front(above) = Upper(above, all - d)
      <4> HIDE DEF above
      <4> QED
        BY <2>3, <3>1, FrontFacts
    <3>3. all - d + 1 \in 0..Len(path) /\ all - d \in 0..(all - d + 1)
      BY <1>1, <2>2 DEF all
    <3>4. Upper(above, all - d) = Upper(path, all - d)
      BY <1>1, <3>3, UpperFacts
    <3> QED
      BY <3>2, <3>4
  <2> QED
    BY <2>1, <2>5, <2>6
<1>3. all - n \in Nat /\ all - n >= 1 /\ all - n <= all /\ all - (all - n) = n
  BY <1>1 DEF all
<1>4. all - n \notin bad
  BY <1>2
<1>5. IsDirectory(t, Upper(path, all - (all - n)))
  BY <1>3, <1>4
<1> QED
  BY <1>3, <1>5

\* What is written of a member the checks let through.
LEMMA MemberIsPlain ==
  ASSUME TreeIsSaid, MemberIsNext, ~Refused(Next1)
  PROVE  /\ Plain(Next1.name) /\ Next1.name # <<>> /\ Next1.name \in Seq(STRING)
         /\ <<Next1.name, Next1.slash>> \notin seen /\ ~ThroughALink(Next1)
         /\ NoLinkAbove(tree, Next1.name) /\ (Next1.slash => ~IsLink(tree, Next1.name))
         /\ Next1.size \in Nat /\ (total \in Nat /\ MaxTotal \in Nat => total + Next1.size <= MaxTotal)
<1> DEFINE m == Next1
<1>1. m.name \in Seq(STRING) /\ m.slash \in BOOLEAN /\ m.size \in Nat
  BY MemberSays DEF TreeIsSaid
<1>2. /\ NameIsSafe(m.name) /\ <<m.name, m.slash>> \notin seen /\ ~ThroughALink(m)
      /\ ~(m.size > MaxTotal - total)
  BY Zenon DEF Refused
<1> HIDE DEF m
<1>3. Plain(m.name) /\ m.name # <<>>
  BY <1>1, <1>2, Zenon DEF NameIsSafe, Plain
<1>4. ASSUME NEW p, IsLink(tree, p) PROVE p \in links
  <2>1. p \in DOMAIN tree /\ tree[p].kind = "symlink"
    BY <1>4 DEF IsLink
  <2>2. \E n \in Done : SaidName(n) = p /\ SaidKind(n) = "symlink"
    BY <2>1 DEF TreeIsSaid, NodesAreSaid
  <2> QED
    BY <2>2, Zenon DEF TreeIsSaid, LocalsAreSaid
<1>5. Len(m.name) \in Nat /\ m.name # <<>> /\ Upper(m.name, Len(m.name)) = m.name
  BY <1>1, <1>3, FrontFacts
<1>6. NoLinkAbove(tree, m.name)
  <2> SUFFICES ASSUME NEW n \in 1..(Len(m.name) - 1), IsLink(tree, Upper(m.name, n)) PROVE FALSE
    BY DEF NoLinkAbove
  <2>1. Upper(m.name, n) \in links /\ n \in 1..Len(m.name)
    BY <1>4, <1>5
  <2> QED
    BY <1>2, <2>1 DEF ThroughALink, Upper
<1>7. ASSUME m.slash, IsLink(tree, m.name) PROVE FALSE
  <2>1. Upper(m.name, Len(m.name)) \in links /\ Len(m.name) \in 1..Len(m.name)
    <3>1. Len(m.name) # 0
      BY <1>1, <1>3
    <3> QED
      BY <1>4, <1>5, <1>7, <3>1
  <2> QED
    BY <1>2, <1>7, <2>1 DEF ThroughALink, Upper
<1>8. total \in Nat /\ MaxTotal \in Nat => total + m.size <= MaxTotal
  BY <1>1, <1>2
<1> QED
  BY <1>1, <1>2, <1>3, <1>6, <1>7, <1>8 DEF m

\* More of a tree, in any way.
Larger(t, u) == DOMAIN t \subseteq DOMAIN u /\ \A p \in DOMAIN t : u[p] = t[p]

\* What a member that is written adds.
Writes(u, m) ==
  /\ Larger(tree, u) /\ WellFormed(u)
  /\ \A p \in DOMAIN u \ DOMAIN tree :
       /\ IsPrefix(p, m.name)
       /\ \/ u[p].kind = "directory"
          \/ p = m.name /\ ~m.slash /\ m.kind \in {"file", "symlink"} /\ u[p].kind = m.kind
PutsOff(u, m) ==
  /\ deferred' = Append(deferred, [name |-> m.name, slash |-> m.slash, target |-> m.target])
  /\ ~m.slash => Front(m.name) \in DOMAIN u /\ ~IsLink(u, Front(m.name))

LEMMA MemberIsSaid ==
  ASSUME UnpackTypeOK, TreeIsSaid, phase = "reading", MemberIsNext, ~Refused(Next1), Counted,
         Writes(tree', Next1), links \subseteq links',
         Next1.kind = "file" => /\ Next1.name \in DOMAIN tree' /\ ~Next1.slash
                                /\ tree'[Next1.name] = FileNode(Next1.text, Next1.size, Next1.exec),
         Next1.kind = "directory" =>
           /\ Next1.name \in DOMAIN tree'
           /\ \/ tree'[Next1.name].kind = "directory"
              \/ \E file \in Done : SaidKind(file) = "file" /\ SaidName(file) = Next1.name,
         Next1.kind = "symlink" => Next1.name \in links',
         \/ /\ deferred' = deferred
            /\ Next1.kind = "symlink" => /\ Next1.name \in DOMAIN tree'
                                         /\ tree'[Next1.name] = LinkTo(Next1.target)
         \/ Next1.kind = "symlink" /\ PutsOff(tree', Next1)
  PROVE  TreeIsSaid'
<1> DEFINE m == Next1
           z == Here.at
           u == tree'
<1>1. /\ raw' = raw /\ reader' = AfterMember(Here) /\ at' = at /\ phase' = phase
      /\ copied' = copied /\ unresolved' = unresolved
      /\ seen' = seen \cup {<<m.name, m.slash>>}
  BY DEF Counted
<1>2. Reads' /\ Done' = Done \cup {z} /\ z \notin Done
  BY <1>1, ReaderMoves DEF TreeIsSaid
<1>3. /\ m.name = SaidName(z) /\ m.slash = SaidSlash(z) /\ m.kind = SaidKind(z)
      /\ m.text = raw.entries[z].text
      /\ m.exec = (raw.entries[z].exec /\ (IsTar(raw) \/ raw.entries[z].unix))
      /\ m.kind = "symlink" => m.target = SaidTarget(z) /\ m.target \in Seq(STRING)
      /\ m.name \in Seq(STRING) /\ m.slash \in BOOLEAN
  BY MemberSays DEF TreeIsSaid
<1>4. Plain(m.name) /\ m.name # <<>> /\ <<m.name, m.slash>> \notin seen
  BY MemberIsPlain
<1>5. \A n : /\ SaidName(n)' = SaidName(n) /\ SaidSlash(n)' = SaidSlash(n)
             /\ SaidKind(n)' = SaidKind(n) /\ SaidTarget(n)' = SaidTarget(n)
  BY <1>1, SameArchive
<1>6. /\ DOMAIN tree \subseteq DOMAIN u /\ WellFormed(u)
      /\ \A p \in DOMAIN tree : u[p] = tree[p]
      /\ \A p \in DOMAIN u \ DOMAIN tree :
           /\ IsPrefix(p, m.name)
           /\ \/ u[p].kind = "directory"
              \/ p = m.name /\ ~m.slash /\ m.kind \in {"file", "symlink"} /\ u[p].kind = m.kind
  BY DEF Writes, Larger
<1>7. /\ LocalsAreSaid /\ NodesAreSaid /\ PathsAreSaid /\ MembersAreThere /\ DeferredAreSaid
      /\ at = 1 /\ deferred \in Seq(Waiting)
  BY DEF TreeIsSaid, UnpackTypeOK
<1> DEFINE more == [name |-> m.name, slash |-> m.slash, target |-> m.target]
<1>8. \/ /\ deferred' = deferred
         /\ m.kind = "symlink" => m.name \in DOMAIN u /\ u[m.name] = LinkTo(m.target)
      \/ /\ m.kind = "symlink" /\ deferred' = Append(deferred, more)
         /\ ~m.slash => Front(m.name) \in DOMAIN u /\ ~IsLink(u, Front(m.name))
  BY DEF PutsOff
<1>9. /\ m.kind = "file" => m.name \in DOMAIN u /\ ~m.slash /\ u[m.name] = FileNode(m.text, m.size, m.exec)
      /\ m.kind = "directory" =>
           /\ m.name \in DOMAIN u
           /\ \/ u[m.name].kind = "directory"
              \/ \E file \in Done : SaidKind(file) = "file" /\ SaidName(file) = m.name
      /\ m.kind = "symlink" => m.name \in links'
  OBVIOUS
<1> HIDE DEF m, z
<1>10. /\ Len(deferred) \in Nat /\ Len(deferred') \in Nat
       /\ Len(deferred) <= Len(deferred')
       /\ \A k \in 1..Len(deferred) : k \in 1..Len(deferred') /\ deferred'[k] = deferred[k]
       /\ \A k \in 1..Len(deferred') : k \notin 1..Len(deferred) =>
            /\ m.kind = "symlink" /\ k = Len(deferred) + 1 /\ deferred'[k] = more
            /\ ~m.slash => Front(m.name) \in DOMAIN u /\ ~IsLink(u, Front(m.name))
       /\ m.kind = "symlink" => \/ m.name \in DOMAIN u /\ u[m.name] = LinkTo(m.target)
                                \/ \E k \in 1..Len(deferred') : deferred'[k] = more
  <2>1. Len(deferred) \in Nat
    BY <1>7
  <2>2. CASE /\ deferred' = deferred
             /\ m.kind = "symlink" => m.name \in DOMAIN u /\ u[m.name] = LinkTo(m.target)
    BY <2>1, <2>2
  <2>3. CASE /\ m.kind = "symlink" /\ deferred' = Append(deferred, more)
             /\ ~m.slash => Front(m.name) \in DOMAIN u /\ ~IsLink(u, Front(m.name))
    <3>1. more \in Waiting
      BY <1>3, <2>3 DEF Waiting
    <3> HIDE DEF more
    <3>2. /\ Len(deferred') = Len(deferred) + 1 /\ deferred'[Len(deferred) + 1] = more
          /\ \A k \in 1..Len(deferred) : deferred'[k] = deferred[k]
      BY <1>7, <2>3, <3>1, AppendProperties
    <3> DEFINE all == Len(deferred)
    <3>3. /\ all \in Nat /\ all + 1 \in 1..Len(deferred')
          /\ \A k \in 1..Len(deferred') : k \in 1..all \/ k = all + 1
          /\ \A k \in 1..all : k \in 1..Len(deferred')
          /\ Len(deferred') \in Nat /\ all <= Len(deferred')
      BY <2>1, <3>2
    <3> QED
      <4>1. \A k \in 1..Len(deferred') : k \notin 1..all => k = all + 1
        BY <3>3
      <4>2. deferred'[all + 1] = more /\ \A k \in 1..all : deferred'[k] = deferred[k]
        BY <3>2
      <4> HIDE DEF all
      <4>3. \E k \in 1..Len(deferred') : deferred'[k] = more
        BY <3>3, <4>2, Zenon
      <4>4. \A k \in 1..Len(deferred') : k \notin 1..all => deferred'[k] = more
        BY <4>1, <4>2, Zenon
      <4>5. /\ Len(deferred) \in Nat /\ Len(deferred') \in Nat /\ Len(deferred) <= Len(deferred')
            /\ \A k \in 1..Len(deferred) : k \in 1..Len(deferred') /\ deferred'[k] = deferred[k]
        BY <3>3, <4>2 DEF all
      <4>6. \A k \in 1..Len(deferred') : k \notin 1..Len(deferred) => k = Len(deferred) + 1 /\ deferred'[k] = more
        BY <4>1, <4>4 DEF all
      <4> QED
        BY <2>3, <4>3, <4>5, <4>6, Zenon
  <2> QED
    BY <1>8, <2>2, <2>3
<1> HIDE DEF u
<1>11. LocalsAreSaid'
  <2>1. ASSUME NEW n \in Done'
        PROVE  /\ Plain(SaidName(n)) /\ SaidName(n) # <<>> /\ SaidSlash(n) \in BOOLEAN
               /\ <<SaidName(n), SaidSlash(n)>> \in seen'
               /\ SaidKind(n) = "symlink" => SaidName(n) \in links'
    <3>1. CASE n = z
      BY <1>1, <1>3, <1>4, <1>9, <3>1, Zenon
    <3>2. CASE n \in Done
      BY <1>1, <1>7, <3>2, Zenon DEF LocalsAreSaid
    <3> QED
      BY <1>2, <3>1, <3>2
  <2>2. ASSUME NEW n \in Done, SaidName(n) = SaidName(z), SaidSlash(n) = SaidSlash(z) PROVE FALSE
    BY <1>3, <1>4, <1>7, <2>2, Zenon DEF LocalsAreSaid
  <2>3. ASSUME NEW i \in Done', NEW n \in Done', SaidName(i) = SaidName(n), SaidSlash(i) = SaidSlash(n)
        PROVE  i = n
    BY <1>2, <1>7, <2>2, <2>3, Zenon DEF LocalsAreSaid
  <2> QED
    BY <1>5, <2>1, <2>3, Zenon DEF LocalsAreSaid
<1>12. NodesAreSaid'
  <2>1. ASSUME NEW path \in DOMAIN u, u[path].kind # "directory"
        PROVE  \E n \in Done' :
                 /\ SaidName(n) = path /\ ~SaidSlash(n)
                 /\ \/ u[path].kind = "file" /\ SaidKind(n) = "file"
                    \/ u[path].kind = "file" /\ SaidKind(n) = "symlink" /\ CopiedBefore(path)'
                    \/ u[path].kind = "symlink" /\ SaidKind(n) = "symlink"
    <3>1. CASE path \in DOMAIN tree
      <4>1. u[path] = tree[path]
        BY <1>6, <3>1
      <4>2. CopiedBefore(path) => CopiedBefore(path)'
        BY <1>1, <1>10 DEF CopiedBefore
      <4>3. PICK n \in Done :
              /\ SaidName(n) = path /\ ~SaidSlash(n)
              /\ \/ tree[path].kind = "file" /\ SaidKind(n) = "file"
                 \/ tree[path].kind = "file" /\ SaidKind(n) = "symlink" /\ CopiedBefore(path)
                 \/ tree[path].kind = "symlink" /\ SaidKind(n) = "symlink"
        BY <1>7, <2>1, <3>1, <4>1, Zenon DEF NodesAreSaid
      <4> QED
        BY <1>2, <4>1, <4>2, <4>3, Zenon
    <3>2. CASE path \notin DOMAIN tree
      BY <1>2, <1>3, <1>6, <2>1, <3>2
    <3> QED
      BY <3>1, <3>2
  <2> QED
    BY <1>5, <2>1, Zenon DEF NodesAreSaid, u
<1>13. PathsAreSaid'
  <2>1. ASSUME NEW path \in DOMAIN u, path # <<>> PROVE \E n \in Done' : IsPrefix(path, SaidName(n))
    <3>1. CASE path \in DOMAIN tree
      BY <1>2, <1>7, <2>1, <3>1, Zenon DEF PathsAreSaid
    <3>2. CASE path \notin DOMAIN tree
      BY <1>2, <1>3, <1>6, <3>2, Zenon
    <3> QED
      BY <3>1, <3>2
  <2> QED
    BY <1>5, <2>1, Zenon DEF PathsAreSaid, u
<1>14. MembersAreThere'
  <2>1. ASSUME NEW n \in Done', SaidKind(n) = "file" PROVE FileIsThere(n)'
    <3>1. /\ SaidName(n) \in DOMAIN u /\ u[SaidName(n)].kind = "file"
          /\ u[SaidName(n)].text = raw.entries[n].text
          /\ u[SaidName(n)].exec = (raw.entries[n].exec /\ (IsTar(raw) \/ raw.entries[n].unix))
      <4>1. CASE n = z
        <5>1. m.name \in DOMAIN u /\ u[m.name] = FileNode(m.text, m.size, m.exec)
          BY <1>3, <1>9, <2>1, <4>1
        <5>2. u[m.name].kind = "file" /\ u[m.name].text = m.text /\ u[m.name].exec = m.exec
          BY <5>1 DEF FileNode
        <5> QED
          BY <1>3, <4>1, <5>1, <5>2, Zenon
      <4>2. CASE n \in Done
        <5>1. FileIsThere(n)
          BY <1>7, <2>1, <4>2 DEF MembersAreThere
        <5>2. SaidName(n) \in DOMAIN u /\ u[SaidName(n)] = tree[SaidName(n)]
          BY <1>6, <5>1 DEF FileIsThere
        <5> QED
          BY <5>1, <5>2, Zenon DEF FileIsThere
      <4> QED
        BY <1>2, <4>1, <4>2
    <3> QED
      BY <1>1, <1>5, <3>1, Zenon DEF FileIsThere, IsTar, u
  <2>2. ASSUME NEW n \in Done', SaidKind(n) = "directory" PROVE DirectoryIsThere(n)'
    <3>1. /\ SaidName(n) \in DOMAIN u
          /\ \/ u[SaidName(n)].kind = "directory"
             \/ \E file \in Done' : SaidKind(file) = "file" /\ SaidName(file) = SaidName(n)
      <4>1. CASE n = z
        BY <1>2, <1>3, <1>9, <2>2, <4>1, Zenon
      <4>2. CASE n \in Done
        <5>1. DirectoryIsThere(n)
          BY <1>7, <2>2, <4>2 DEF MembersAreThere
        <5> QED
          BY <1>2, <1>6, <5>1, Zenon DEF DirectoryIsThere
      <4> QED
        BY <1>2, <4>1, <4>2
    <3> QED
      BY <1>5, <3>1, Zenon DEF DirectoryIsThere, u
  <2>3. ASSUME NEW n \in Done', SaidKind(n) = "symlink" PROVE LinkIsThere(n)'
    <3>1. \/ SaidName(n) \in DOMAIN u /\ u[SaidName(n)] = LinkTo(SaidTarget(n))
          \/ \E k \in 1..Len(deferred') : deferred'[k].name = SaidName(n) /\ deferred'[k].slash = SaidSlash(n)
      <4>1. CASE n = z
        <5>1. more.name = SaidName(n) /\ more.slash = SaidSlash(n) /\ m.kind = "symlink"
          BY <1>3, <2>3, <4>1
        <5> HIDE DEF more
        <5> QED
          BY <1>3, <1>10, <4>1, <5>1, Zenon
      <4>2. CASE n \in Done
        <5>1. LinkIsThere(n)
          BY <1>7, <2>3, <4>2 DEF MembersAreThere
        <5> HIDE DEF more
        <5> QED
          BY <1>6, <1>10, <5>1, Zenon DEF LinkIsThere
      <4> QED
        BY <1>2, <4>1, <4>2
    <3> QED
      BY <1>5, <3>1, Zenon DEF LinkIsThere, u
  <2> QED
    BY <1>5, <2>1, <2>2, <2>3, Zenon DEF MembersAreThere
<1>15. DeferredAreSaid'
  <2>1. more.name = m.name /\ more.slash = m.slash
    OBVIOUS
  <2> HIDE DEF more
  <2>2. ASSUME NEW k \in 1..Len(deferred')
        PROVE  /\ \E n \in Done' : /\ SaidKind(n) = "symlink" /\ SaidName(n) = deferred'[k].name
                                   /\ SaidSlash(n) = deferred'[k].slash
               /\ ~deferred'[k].slash => /\ Front(deferred'[k].name) \in DOMAIN u
                                         /\ ~IsLink(u, Front(deferred'[k].name))
               /\ ~(k < at)
    <3>0. ~(k < at)
      BY <1>7, <1>10
    <3>1. CASE k \in 1..Len(deferred)
      <4>1. deferred'[k] = deferred[k]
        BY <1>10, <3>1
      <4>2. /\ \E n \in Done : /\ SaidKind(n) = "symlink" /\ SaidName(n) = deferred[k].name
                               /\ SaidSlash(n) = deferred[k].slash
            /\ ~deferred[k].slash => /\ Front(deferred[k].name) \in DOMAIN tree
                                     /\ ~IsLink(tree, Front(deferred[k].name))
        BY <1>7, <3>1, Zenon DEF DeferredAreSaid
      <4> QED
        BY <1>2, <1>6, <3>0, <4>1, <4>2, Zenon DEF IsLink
    <3>2. CASE k \notin 1..Len(deferred)
      <4>1. /\ m.kind = "symlink" /\ deferred'[k] = more
            /\ ~m.slash => Front(m.name) \in DOMAIN u /\ ~IsLink(u, Front(m.name))
        BY <1>10, <3>2, Zenon
      <4> QED
        BY <1>2, <1>3, <2>1, <3>0, <4>1, Zenon
    <3> QED
      BY <3>1, <3>2
  <2>3. ASSUME NEW k \in 1..Len(deferred), deferred[k].name = m.name, deferred[k].slash = m.slash
        PROVE  FALSE
    <3>1. PICK n \in Done : SaidName(n) = deferred[k].name /\ SaidSlash(n) = deferred[k].slash
      BY <1>7, Zenon DEF DeferredAreSaid
    <3>2. <<SaidName(n), SaidSlash(n)>> \in seen
      BY <1>7, Zenon DEF LocalsAreSaid
    <3> QED
      BY <1>4, <2>3, <3>1, <3>2, Zenon
  <2>4. ASSUME NEW j \in 1..Len(deferred'), NEW k \in 1..Len(deferred'),
               deferred'[j].name = deferred'[k].name, deferred'[j].slash = deferred'[k].slash
        PROVE  j = k
    <3>1. CASE j \in 1..Len(deferred) /\ k \in 1..Len(deferred)
      <4>1. deferred'[j] = deferred[j] /\ deferred'[k] = deferred[k]
        BY <1>10, <3>1
      <4>2. deferred[j].name = deferred[k].name /\ deferred[j].slash = deferred[k].slash => j = k
        BY <1>7, <3>1, Zenon DEF DeferredAreSaid
      <4> QED
        BY <2>4, <4>1, <4>2, Zenon
    <3>2. CASE j \notin 1..Len(deferred) /\ k \notin 1..Len(deferred)
      BY <1>10, <3>2, Zenon
    <3>3. CASE j \in 1..Len(deferred) /\ k \notin 1..Len(deferred)
      <4>1. deferred'[j] = deferred[j] /\ deferred'[k] = more
        BY <1>10, <3>3, Zenon
      <4> QED
        BY <2>1, <2>3, <2>4, <3>3, <4>1, Zenon
    <3>4. CASE j \notin 1..Len(deferred) /\ k \in 1..Len(deferred)
      <4>1. deferred'[k] = deferred[k] /\ deferred'[j] = more
        BY <1>10, <3>4, Zenon
      <4> QED
        BY <2>1, <2>3, <2>4, <3>4, <4>1, Zenon
    <3> QED
      BY <3>1, <3>2, <3>3, <3>4
  <2> QED
    BY <1>1, <1>5, <2>2, <2>4, Zenon DEF DeferredAreSaid, u
<1> QED
  BY <1>1, <1>2, <1>6, <1>7, <1>11, <1>12, <1>13, <1>14, <1>15 DEF TreeIsSaid, u
-----------------------------------------------------------------------------
(* Unpacking: every step keeps the tree as the members read so far say.    *)

LEMMA UpperIsPrefix ==
  ASSUME NEW path \in Seq(STRING), NEW n \in 0..Len(path)
  PROVE  IsPrefix(Upper(path, n), path)
<1>1. Upper(path, n) \in Seq(STRING) /\ Len(Upper(path, n)) = n /\ Upper(Upper(path, n), n) = Upper(path, n)
  <2>1. n \in 0..n
    OBVIOUS
  <2> QED
    BY <2>1, UpperFacts
<1>2. Len(Upper(path, n)) <= Len(path)
  BY <1>1
<1>3. SubSeq(Upper(path, n), 1, Len(Upper(path, n))) = SubSeq(path, 1, Len(Upper(path, n)))
  BY <1>1 DEF Upper
<1> QED
  BY <1>2, <1>3 DEF IsPrefix

LEMMA FailIs ==
  ASSUME UnpackTypeOK, Fail, IsSized(tree'), Size(tree') <= MaxTotal
  PROVE  UnpackInv'
<1>1. /\ phase' = "failed" /\ raw' = raw /\ linksWork' = linksWork /\ total' = total
      /\ at' = at /\ deferred' = deferred
  BY DEF Fail, locals
<1>2. phase' \notin Live
  BY <1>1 DEF Live
<1>3. UnpackTypeOK'
  BY <1>1 DEF UnpackTypeOK
<1>4. SizeIsCounted'
  BY <1>2, Zenon DEF SizeIsCounted
<1> QED
  BY <1>2, <1>3, <1>4, Zenon DEF UnpackInv

\* What is made on the way to a member.
LEMMA MadeForMember ==
  ASSUME UnpackInv, phase = "reading", MemberIsNext, ~Refused(Next1),
         NEW n \in 0..Len(Next1.name), NEW made, made = MakeTree(tree, Upper(Next1.name, n))
  PROVE  /\ Larger(tree, made.tree) /\ WellFormed(made.tree)
         /\ IsSized(made.tree) /\ Size(made.tree) \in Nat /\ Size(made.tree) <= total
         /\ \A p \in DOMAIN made.tree \ DOMAIN tree : IsPrefix(p, Next1.name) /\ made.tree[p] = Directory
         /\ NoLinkAbove(made.tree, Next1.name)
         /\ made.ok /\ n > 0 => Upper(Next1.name, n) \in DOMAIN made.tree
<1> DEFINE name == Next1.name
           path == Upper(name, n)
           u == made.tree
<1>1. /\ TreeIsSaid /\ WellFormed(tree) /\ IsSized(tree)
      /\ Size(tree) <= total /\ total \in Nat
  BY DEF UnpackInv, TreeIsSaid, SizeIsCounted, UnpackTypeOK, Live
<1>2. Plain(name) /\ name \in Seq(STRING) /\ NoLinkAbove(tree, name)
  BY <1>1, MemberIsPlain
<1> HIDE DEF name
<1>3. /\ Plain(path) /\ path \in Seq(STRING) /\ Len(path) = n
      /\ \A k \in 0..n : Upper(path, k) = Upper(name, k)
  BY <1>2, UpperFacts, PlainUpper DEF name
<1>4. NoLinkAbove(tree, path)
  <2> SUFFICES ASSUME NEW k \in 1..(Len(path) - 1), IsLink(tree, Upper(path, k)) PROVE FALSE
    BY DEF NoLinkAbove
  <2>1. k \in 0..n /\ k \in 1..(Len(name) - 1)
    BY <1>2, <1>3 DEF name
  <2> QED
    BY <1>2, <1>3, <2>1 DEF NoLinkAbove
<1>5. MadeWell(tree, made, path, n)
  BY <1>1, <1>3, <1>4, MakeTreeIs DEF name
<1> HIDE DEF path, u
<1>6. /\ Grown(tree, u, path) /\ WellFormed(u) /\ IsSized(u) /\ Size(u) <= Size(tree)
      /\ made.ok /\ n > 0 => Upper(path, n) \in DOMAIN u
  BY <1>5, Zenon DEF MadeWell, u
<1>7. Size(u) \in Nat /\ Size(u) <= total
  BY <1>1, <1>6, SizeIsNat
<1>8. ASSUME NEW p \in DOMAIN u \ DOMAIN tree PROVE IsPrefix(p, name) /\ u[p] = Directory
  <2>1. u[p] = Directory /\ \E k \in 1..Len(path) : p = Upper(path, k)
    BY <1>6, Zenon DEF Grown
  <2>2. PICK k \in 1..Len(path) : p = Upper(path, k)
    BY <2>1
  <2>3. k \in 0..n /\ k \in 0..Len(name)
    BY <1>2, <1>3 DEF name
  <2> QED
    BY <1>2, <1>3, <2>1, <2>2, <2>3, UpperIsPrefix
<1>9. NoLinkAbove(u, name)
  <2> SUFFICES ASSUME NEW k \in 1..(Len(name) - 1), IsLink(u, Upper(name, k)) PROVE FALSE
    BY DEF NoLinkAbove
  <2>1. CASE Upper(name, k) \in DOMAIN tree
    <3>1. ~IsLink(tree, Upper(name, k))
      BY <1>2 DEF NoLinkAbove
    <3>2. u[Upper(name, k)] = tree[Upper(name, k)]
      BY <1>6, <2>1, Zenon DEF Grown
    <3> QED
      BY <2>1, <3>1, <3>2, Zenon DEF IsLink
  <2>2. CASE Upper(name, k) \notin DOMAIN tree
    BY <1>8, <2>2 DEF IsLink, Directory
  <2> QED
    BY <2>1, <2>2
<1>10. Upper(path, n) = Upper(name, n)
  BY <1>3
<1> QED
  BY <1>6, <1>7, <1>8, <1>9, <1>10, Zenon DEF Larger, Grown, u, name

\* Where the last name of a member is written.
LEMMA LeafForMember ==
  ASSUME NEW t, WellFormed(t), NEW path, Plain(path), path # <<>>, NoLinkAbove(t, path),
         Leaf(t, path) # Nowhere
  PROVE  Leaf(t, path) = path /\ IsDirectory(t, Front(path))
BY LeafIs

LEMMA StopsMakingIs ==
  ASSUME UnpackInv, phase = "reading", MemberIsNext, ~Refused(Next1), StopsMaking(Next1.name)
  PROVE  UnpackInv'
<1>1. PICK n \in 0..(Len(Next1.name) - 1) : tree' = MakeTree(tree, Upper(Next1.name, n)).tree /\ Fail
  BY DEF StopsMaking, Upper
<1>2. UnpackTypeOK /\ total \in Nat /\ MaxTotal \in Nat /\ total <= MaxTotal /\ TreeIsSaid
  BY UnpackAssumption DEF UnpackInv, UnpackTypeOK, Live
<1>3. n \in 0..Len(Next1.name)
  BY <1>2, MemberIsPlain
<1>4. IsSized(tree') /\ Size(tree') \in Nat /\ Size(tree') <= total
  BY <1>1, <1>3, MadeForMember
<1> QED
  BY <1>1, <1>2, <1>4, FailIs

\* Of the steps that count a member, what is left of the invariant.
LEMMA CountedIs ==
  ASSUME UnpackInv, phase = "reading", MemberIsNext, ~Refused(Next1), Counted,
         TreeIsSaid', IsSized(tree'), NEW u, IsSized(u), Size(u) <= total,
         Size(tree') <= Size(u) + Next1.size,
         deferred' \in Seq(Waiting)
  PROVE  UnpackInv'
<1>1. /\ UnpackTypeOK /\ TreeIsSaid /\ total \in Nat /\ MaxTotal \in Nat
  BY UnpackAssumption DEF UnpackInv, UnpackTypeOK, Live
<1>2. Next1.size \in Nat /\ total + Next1.size <= MaxTotal
  BY <1>1, MemberIsPlain
<1>3. /\ raw' = raw /\ linksWork' = linksWork /\ phase' = phase /\ at' = at
      /\ total' = total + Next1.size
  BY DEF Counted
<1>4. Size(u) \in Nat /\ Size(tree') \in Nat
  BY SizeIsNat
<1> DEFINE more == Next1.size
<1> HIDE DEF more
<1>5. total' \in Nat /\ total' <= MaxTotal /\ Size(tree') <= total' /\ Size(tree') <= MaxTotal
  BY <1>1, <1>2, <1>3, <1>4 DEF more
<1>6. UnpackTypeOK'
  BY <1>1, <1>3, <1>5 DEF UnpackTypeOK
<1> QED
  BY <1>5, <1>6, Zenon DEF UnpackInv, SizeIsCounted

LEMMA PathIsPrefix == ASSUME NEW path \in Seq(STRING) PROVE IsPrefix(path, path)
BY DEF IsPrefix

LEMMA WriteDirectoryIs == ASSUME UnpackInv, WriteDirectory PROVE UnpackInv'
<1> DEFINE m == Next1
           made == MakeTree(tree, m.name)
<1>1. /\ MemberIsNext /\ ~Refused(m) /\ m.kind = "directory" /\ phase = "reading"
      /\ \/ made.ok /\ tree' = made.tree /\ Counted /\ UNCHANGED <<links, deferred>>
         \/ ~made.ok /\ tree' = made.tree /\ Fail
         \/ StopsMaking(m.name)
  BY DEF WriteDirectory, MemberIsNext
<1>2. /\ UnpackTypeOK /\ TreeIsSaid /\ total \in Nat /\ MaxTotal \in Nat /\ total <= MaxTotal
      /\ deferred \in Seq(Waiting)
  BY <1>1, UnpackAssumption DEF UnpackInv, UnpackTypeOK, Live
<1>3. /\ Plain(m.name) /\ m.name # <<>> /\ m.name \in Seq(STRING) /\ <<m.name, m.slash>> \notin seen
      /\ m.slash => ~IsLink(tree, m.name)
      /\ m.size \in Nat
  BY <1>1, <1>2, MemberIsPlain
<1>4. Len(m.name) \in 0..Len(m.name) /\ Len(m.name) > 0 /\ Upper(m.name, Len(m.name)) = m.name
  BY <1>3, FrontFacts
<1>5. m.slash \in BOOLEAN
  BY <1>1, <1>2, MemberSays DEF TreeIsSaid
<1> HIDE DEF m
<1>6. /\ Larger(tree, made.tree) /\ WellFormed(made.tree)
      /\ IsSized(made.tree) /\ Size(made.tree) \in Nat /\ Size(made.tree) <= total
      /\ \A p \in DOMAIN made.tree \ DOMAIN tree : IsPrefix(p, m.name) /\ made.tree[p] = Directory
      /\ made.ok => m.name \in DOMAIN made.tree
  <2>1. made = MakeTree(tree, Upper(m.name, Len(m.name)))
    BY <1>4
  <2> HIDE DEF made
  <2> QED
    BY <1>1, <1>4, <2>1, MadeForMember DEF m
<1> HIDE DEF made
<1>7. CASE made.ok /\ tree' = made.tree /\ Counted /\ UNCHANGED <<links, deferred>>
  <2>1. Writes(tree', m)
    BY <1>6, <1>7 DEF Writes, Directory
  <2>2. m.name \in DOMAIN tree'
    BY <1>6, <1>7
  <2>3. \/ tree'[m.name].kind = "directory"
        \/ \E file \in Done : SaidKind(file) = "file" /\ SaidName(file) = m.name
    <3>1. CASE m.name \notin DOMAIN tree
      BY <1>6, <1>7, <2>2, <3>1 DEF Directory
    <3>2. CASE m.name \in DOMAIN tree /\ tree'[m.name].kind # "directory"
      <4>1. tree'[m.name] = tree[m.name]
        BY <1>6, <1>7, <3>2 DEF Larger
      <4>2. PICK n \in Done :
              /\ SaidName(n) = m.name /\ ~SaidSlash(n)
              /\ \/ tree[m.name].kind = "file" /\ SaidKind(n) = "file"
                 \/ tree[m.name].kind = "file" /\ SaidKind(n) = "symlink" /\ CopiedBefore(m.name)
                 \/ tree[m.name].kind = "symlink" /\ SaidKind(n) = "symlink"
        BY <1>2, <3>2, <4>1, Zenon DEF TreeIsSaid, NodesAreSaid
      <4>3. ~CopiedBefore(m.name)
        <5>1. at = 1 /\ \A k \in 1..Len(deferred) : ~(k < at)
          BY <1>1, <1>2 DEF TreeIsSaid
        <5> QED
          BY <5>1, Zenon DEF CopiedBefore
      <4>4. ~(tree[m.name].kind = "symlink")
        <5>1. <<m.name, FALSE>> \in seen \/ tree[m.name].kind # "symlink"
          <6>1. SaidSlash(n) \in BOOLEAN
            BY <1>2, Zenon DEF TreeIsSaid, LocalsAreSaid
          <6>2. <<SaidName(n), SaidSlash(n)>> \in seen
            BY <1>2, <4>2, Zenon DEF TreeIsSaid, LocalsAreSaid
          <6>3. SaidSlash(n) = FALSE
            BY <4>2, <6>1, Zenon
          <6> QED
            BY <4>2, <6>2, <6>3, Zenon
        <5> QED
          BY <1>3, <1>5, <3>2, <5>1, Zenon DEF IsLink
      <4> QED
        BY <4>2, <4>3, <4>4
    <3> QED
      BY <3>1, <3>2
  <2>4. TreeIsSaid'
    <3>1. links \subseteq links' /\ deferred' = deferred /\ m.kind # "file" /\ m.kind # "symlink"
      BY <1>1, <1>7
    <3> QED
      BY <1>1, <1>2, <1>7, <2>1, <2>2, <2>3, <3>1, MemberIsSaid, Zenon DEF m
  <2>5. Size(tree') <= Size(made.tree) + m.size /\ deferred' \in Seq(Waiting)
    BY <1>2, <1>3, <1>6, <1>7
  <2> QED
    BY <1>1, <1>6, <1>7, <2>4, <2>5, CountedIs, Zenon DEF m
<1>8. CASE ~made.ok /\ tree' = made.tree /\ Fail
  <2>1. Size(tree') <= MaxTotal
    BY <1>2, <1>6, <1>8
  <2> QED
    BY <1>2, <1>6, <1>8, <2>1, FailIs
<1>9. CASE StopsMaking(m.name)
  BY <1>1, <1>9, StopsMakingIs DEF m
<1> QED
  BY <1>1, <1>7, <1>8, <1>9

LEMMA PutFileIs ==
  ASSUME NEW t, WellFormed(t), NEW path, Plain(path), path # <<>>, NEW node, node.kind = "file",
         IsDirectory(t, Front(path)), path \notin DOMAIN t
  PROVE  WellFormed(Put(t, path, node))
BY PutDirectoryIs

\* What a member's file or link is put on is not there yet.
LEMMA FileIsNew ==
  ASSUME UnpackInv, phase = "reading", MemberIsNext, ~Refused(Next1), ~Next1.slash,
         NEW t, Larger(tree, t),
         \A p \in DOMAIN t \ DOMAIN tree : t[p] = Directory,
         Next1.name \in DOMAIN t => t[Next1.name].kind = "file"
  PROVE  Next1.name \notin DOMAIN t
<1> DEFINE m == Next1
<1>1. TreeIsSaid /\ m.slash \in BOOLEAN /\ <<m.name, m.slash>> \notin seen
  <2>1. TreeIsSaid
    BY DEF UnpackInv, Live
  <2> QED
    BY <2>1, MemberSays, MemberIsPlain DEF TreeIsSaid
<1> SUFFICES ASSUME m.name \in DOMAIN t PROVE FALSE
  OBVIOUS
<1> HIDE DEF m
<1>2. t[m.name].kind = "file" /\ ~m.slash
  BY DEF m
<1>3. m.name \in DOMAIN tree /\ tree[m.name].kind = "file"
  BY <1>2 DEF Larger, Directory
<1>4. PICK n \in Done : SaidName(n) = m.name /\ ~SaidSlash(n)
  BY <1>1, <1>3 DEF TreeIsSaid, NodesAreSaid
<1>5. SaidSlash(n) \in BOOLEAN /\ <<SaidName(n), SaidSlash(n)>> \in seen
  BY <1>1, Zenon DEF TreeIsSaid, LocalsAreSaid
<1>6. SaidSlash(n) = m.slash
  BY <1>1, <1>2, <1>4, <1>5, Zenon
<1> QED
  BY <1>1, <1>4, <1>5, <1>6, Zenon

\* What is made for the parents of a member.
LEMMA ParentsAreMade ==
  ASSUME UnpackInv, phase = "reading", MemberIsNext, ~Refused(Next1),
         NEW made, made = MakeTree(tree, Parents(Next1))
  PROVE  /\ Larger(tree, made.tree) /\ WellFormed(made.tree)
         /\ IsSized(made.tree) /\ Size(made.tree) \in Nat /\ Size(made.tree) <= total
         /\ \A p \in DOMAIN made.tree \ DOMAIN tree : IsPrefix(p, Next1.name) /\ made.tree[p] = Directory
         /\ NoLinkAbove(made.tree, Next1.name)
         /\ made.ok /\ ~Next1.slash => Front(Next1.name) \in DOMAIN made.tree
                                       /\ ~IsLink(made.tree, Front(Next1.name))
<1> DEFINE name == Next1.name
           n == IF Next1.slash THEN Len(name) ELSE Len(name) - 1
<1>1. TreeIsSaid
  BY DEF UnpackInv, Live
<1>2. name \in Seq(STRING) /\ name # <<>> /\ Next1.slash \in BOOLEAN
  BY <1>1, MemberIsPlain, MemberSays DEF TreeIsSaid
<1>3. /\ Len(name) \in Nat \ {0} /\ n \in 0..Len(name) /\ Parents(Next1) = Upper(name, n)
      /\ Front(name) = Upper(name, Len(name) - 1) /\ Len(name) - 1 \in 0..Len(name)
  BY <1>2, FrontFacts DEF Parents
<1> HIDE DEF name, n
<1>4. /\ Larger(tree, made.tree) /\ WellFormed(made.tree)
      /\ IsSized(made.tree) /\ Size(made.tree) \in Nat /\ Size(made.tree) <= total
      /\ \A p \in DOMAIN made.tree \ DOMAIN tree : IsPrefix(p, name) /\ made.tree[p] = Directory
      /\ NoLinkAbove(made.tree, name)
      /\ made.ok /\ n > 0 => Upper(name, n) \in DOMAIN made.tree
  BY <1>3, MadeForMember DEF name
<1>5. ASSUME made.ok, ~Next1.slash
      PROVE  Front(name) \in DOMAIN made.tree /\ ~IsLink(made.tree, Front(name))
  <2>1. n = Len(name) - 1
    BY <1>5 DEF n
  <2>2. CASE n = 0
    <3>1. Front(name) = <<>>
      <4>1. Upper(name, 0) \in Seq(STRING) /\ Len(Upper(name, 0)) = 0
        BY <1>2, <1>3, <2>1, <2>2, UpperFacts
      <4> QED
        BY <1>3, <2>1, <2>2, <4>1, EmptySeq
    <3> QED
      BY <1>4, <3>1 DEF WellFormed, IsDirectory, IsLink
  <2>3. CASE n # 0
    <3>1. n > 0 /\ n \in 1..(Len(name) - 1)
      BY <1>3, <2>1, <2>3
    <3> QED
      BY <1>3, <1>4, <1>5, <2>1, <3>1 DEF NoLinkAbove
  <2> QED
    BY <2>2, <2>3
<1> QED
  BY <1>4, <1>5, Zenon DEF name

LEMMA WriteFileIs == ASSUME UnpackInv, WriteFile PROVE UnpackInv'
<1> DEFINE m == Next1
           made == MakeTree(tree, Parents(m))
           t == made.tree
           leaf == Leaf(t, m.name)
           node == FileNode(m.text, m.size, m.exec)
           bare == FileNode(m.text, m.size, FALSE)
           opens == made.ok /\ CanOpen(t, m.name, m.slash)
<1>1. /\ MemberIsNext /\ ~Refused(m) /\ m.kind = "file" /\ phase = "reading"
      /\ IF ~opens THEN tree' = t /\ Fail
         ELSE \/ tree' = Put(t, leaf, node) /\ Counted /\ UNCHANGED <<links, deferred>>
              \/ StopsMaking(m.name)
              \/ tree' = Drop(t, leaf) /\ Fail
              \/ tree' = Put(t, leaf, bare) /\ Fail
  BY DEF WriteFile, MemberIsNext
<1>2. /\ UnpackTypeOK /\ TreeIsSaid /\ total \in Nat /\ MaxTotal \in Nat /\ total <= MaxTotal
      /\ deferred \in Seq(Waiting)
  BY <1>1, UnpackAssumption DEF UnpackInv, UnpackTypeOK, Live
<1>3. /\ Plain(m.name) /\ m.name # <<>> /\ m.name \in Seq(STRING)
      /\ m.size \in Nat /\ total + m.size <= MaxTotal
  BY <1>1, <1>2, MemberIsPlain
<1>4. /\ Larger(tree, t) /\ WellFormed(t)
      /\ IsSized(t) /\ Size(t) \in Nat /\ Size(t) <= total
      /\ \A p \in DOMAIN t \ DOMAIN tree : IsPrefix(p, m.name) /\ t[p] = Directory
      /\ NoLinkAbove(t, m.name)
  BY <1>1, ParentsAreMade
<1>5. opens => /\ leaf # Nowhere /\ (leaf \in DOMAIN t => t[leaf].kind = "file") /\ ~m.slash
  BY DEF CanOpen
<1>6. node.kind = "file" /\ node.size = m.size /\ bare.size = m.size
  BY DEF FileNode
<1>7. opens => leaf = m.name /\ IsDirectory(t, Front(m.name))
  BY <1>3, <1>4, <1>5, LeafForMember
<1> HIDE DEF m, made, leaf, node, bare, opens
<1> HIDE DEF t
<1>8. ASSUME NEW some, some.size = m.size
      PROVE  IsSized(Put(t, leaf, some)) /\ Size(Put(t, leaf, some)) <= Size(t) + m.size
  BY <1>3, <1>4, <1>8, PutSize
<1>9. CASE ~opens
  <2>1. tree' = t /\ Fail /\ Size(t) <= MaxTotal
    BY <1>1, <1>2, <1>4, <1>9
  <2> QED
    BY <1>2, <1>4, <2>1, FailIs
<1>10. CASE opens /\ tree' = Put(t, leaf, node) /\ Counted /\ UNCHANGED <<links, deferred>>
  <2>1. m.name \notin DOMAIN t
    BY <1>1, <1>4, <1>5, <1>7, <1>10, FileIsNew DEF m
  <2>2. /\ DOMAIN tree' = DOMAIN t \cup {m.name} /\ tree'[m.name] = node
        /\ \A p \in DOMAIN t : tree'[p] = t[p]
    BY <1>7, <1>10, <2>1 DEF Put
  <2>3. WellFormed(tree')
    BY <1>3, <1>4, <1>6, <1>7, <1>10, <2>1, PutFileIs
  <2>4. Larger(tree, tree')
    BY <1>4, <2>2 DEF Larger
  <2>5. ASSUME NEW p \in DOMAIN tree' \ DOMAIN tree
        PROVE  /\ IsPrefix(p, m.name)
               /\ \/ tree'[p].kind = "directory"
                  \/ p = m.name /\ ~m.slash /\ m.kind \in {"file", "symlink"} /\ tree'[p].kind = m.kind
    <3>1. CASE p = m.name
      <4>1. IsPrefix(m.name, m.name)
        BY <1>3, Zenon, PathIsPrefix
      <4> QED
        BY <1>1, <1>5, <1>6, <1>10, <2>2, <3>1, <4>1
    <3>2. CASE p # m.name
      BY <1>4, <2>2, <3>2 DEF Directory
    <3> QED
      BY <3>1, <3>2
  <2>6. Writes(tree', m)
    BY <2>3, <2>4, <2>5, Zenon DEF Writes
  <2>7. TreeIsSaid'
    <3>1. links \subseteq links' /\ deferred' = deferred /\ m.kind # "directory" /\ m.kind # "symlink"
      BY <1>1, <1>10
    <3>2. m.name \in DOMAIN tree' /\ ~m.slash /\ tree'[m.name] = FileNode(m.text, m.size, m.exec)
      BY <1>5, <1>10, <2>2 DEF node
    <3> QED
      BY <1>1, <1>2, <1>10, <2>6, <3>1, <3>2, MemberIsSaid, Zenon DEF m
  <2>8. IsSized(tree') /\ Size(tree') <= Size(t) + m.size /\ deferred' \in Seq(Waiting)
    BY <1>2, <1>6, <1>8, <1>10
  <2> QED
    BY <1>1, <1>4, <1>10, <2>7, <2>8, CountedIs, Zenon DEF m
<1>11. CASE StopsMaking(m.name)
  BY <1>1, <1>11, StopsMakingIs DEF m
<1>12. CASE tree' = Drop(t, leaf) /\ Fail
  <2>1. IsSized(tree') /\ Size(tree') <= Size(t)
    BY <1>4, <1>12, DropSize
  <2>2. Size(tree') <= MaxTotal
    BY <1>2, <1>4, <2>1, SizeIsNat
  <2> QED
    BY <1>2, <1>12, <2>1, <2>2, FailIs
<1>13. CASE tree' = Put(t, leaf, bare) /\ Fail
  <2>1. IsSized(tree') /\ Size(tree') <= Size(t) + m.size
    BY <1>6, <1>8, <1>13
  <2>2. Size(tree') \in Nat
    BY <2>1, SizeIsNat
  <2> DEFINE adds == m.size
  <2> HIDE DEF adds
  <2>3. Size(tree') <= MaxTotal
    BY <1>2, <1>3, <1>4, <2>1, <2>2 DEF adds
  <2> QED
    BY <1>2, <1>13, <2>1, <2>3, FailIs
<1> QED
  BY <1>1, <1>9, <1>10, <1>11, <1>12, <1>13

LEMMA WriteSymlinkIs == ASSUME UnpackInv, WriteSymlink PROVE UnpackInv'
<1> DEFINE m == Next1
           made == MakeTree(tree, Parents(m))
           t == made.tree
           leaf == Leaf(t, m.name)
           can == CanLink(t, m.name, m.slash)
           more == [name |-> m.name, slash |-> m.slash, target |-> m.target]
<1>1. /\ MemberIsNext /\ ~Refused(m) /\ m.kind = "symlink" /\ phase = "reading"
      /\ \/ ~made.ok /\ tree' = t /\ Fail
         \/ /\ made.ok /\ links' = links \cup {m.name} /\ Counted
            /\ IF can THEN tree' = Put(t, leaf, LinkTo(m.target)) /\ UNCHANGED deferred
               ELSE tree' = t /\ deferred' = Append(deferred, more)
         \/ StopsMaking(m.name)
  BY DEF WriteSymlink, MemberIsNext
<1>2. /\ UnpackTypeOK /\ TreeIsSaid /\ total \in Nat /\ MaxTotal \in Nat /\ total <= MaxTotal
      /\ deferred \in Seq(Waiting)
  BY <1>1, UnpackAssumption DEF UnpackInv, UnpackTypeOK, Live
<1>3. /\ Plain(m.name) /\ m.name # <<>> /\ m.name \in Seq(STRING) /\ m.size \in Nat
      /\ m.slash \in BOOLEAN /\ m.target \in Seq(STRING)
  BY <1>1, <1>2, MemberIsPlain, MemberSays DEF TreeIsSaid
<1>4. /\ Larger(tree, t) /\ WellFormed(t)
      /\ IsSized(t) /\ Size(t) \in Nat /\ Size(t) <= total
      /\ \A p \in DOMAIN t \ DOMAIN tree : IsPrefix(p, m.name) /\ t[p] = Directory
      /\ NoLinkAbove(t, m.name)
      /\ made.ok /\ ~m.slash => Front(m.name) \in DOMAIN t /\ ~IsLink(t, Front(m.name))
  BY <1>1, ParentsAreMade
<1>5. can => leaf # Nowhere /\ leaf \notin DOMAIN t /\ ~m.slash
  BY DEF CanLink
<1>6. can => leaf = m.name /\ IsDirectory(t, Front(m.name))
  BY <1>3, <1>4, <1>5, LeafForMember
<1>7. LinkTo(m.target).kind = "symlink" /\ LinkTo(m.target).size = 0
  BY DEF LinkTo
<1>8. more \in Waiting
  BY <1>3 DEF Waiting
<1> HIDE DEF m, made, leaf, can
<1> HIDE DEF t
<1>9. CASE ~made.ok /\ tree' = t /\ Fail
  <2>1. Size(t) <= MaxTotal
    BY <1>2, <1>4
  <2> QED
    BY <1>2, <1>4, <1>9, <2>1, FailIs
<1>10. CASE StopsMaking(m.name)
  BY <1>1, <1>10, StopsMakingIs DEF m
<1>11. CASE /\ made.ok /\ links' = links \cup {m.name} /\ Counted
            /\ can /\ tree' = Put(t, leaf, LinkTo(m.target)) /\ UNCHANGED deferred
  <2>1. /\ DOMAIN tree' = DOMAIN t \cup {m.name} /\ tree'[m.name] = LinkTo(m.target)
        /\ \A p \in DOMAIN t : tree'[p] = t[p]
    BY <1>5, <1>6, <1>11 DEF Put
  <2>2. WellFormed(tree')
    BY <1>3, <1>4, <1>5, <1>6, <1>11, PutDirectoryIs
  <2>3. Larger(tree, tree')
    BY <1>4, <2>1 DEF Larger
  <2>4. ASSUME NEW p \in DOMAIN tree' \ DOMAIN tree
        PROVE  /\ IsPrefix(p, m.name)
               /\ \/ tree'[p].kind = "directory"
                  \/ p = m.name /\ ~m.slash /\ m.kind \in {"file", "symlink"} /\ tree'[p].kind = m.kind
    <3>1. CASE p = m.name
      BY <1>1, <1>3, <1>5, <1>7, <1>11, <2>1, <3>1, PathIsPrefix
    <3>2. CASE p # m.name
      BY <1>4, <2>1, <3>2 DEF Directory
    <3> QED
      BY <3>1, <3>2
  <2>5. Writes(tree', m)
    BY <2>2, <2>3, <2>4, Zenon DEF Writes
  <2>6. TreeIsSaid'
    <3>1. links \subseteq links' /\ deferred' = deferred /\ m.kind # "directory" /\ m.kind # "file"
          /\ m.name \in links' /\ m.name \in DOMAIN tree'
      BY <1>1, <1>11, <2>1
    <3> QED
      BY <1>1, <1>2, <1>11, <2>1, <2>5, <3>1, MemberIsSaid, Zenon DEF m
  <2>7. IsSized(tree') /\ Size(tree') <= Size(t) + LinkTo(m.target).size
    BY <1>4, <1>7, <1>11, PutSize
  <2>8. Size(tree') \in Nat
    BY <2>7, SizeIsNat
  <2> DEFINE adds == m.size
  <2> HIDE DEF adds
  <2>9. Size(tree') <= Size(t) + m.size /\ deferred' \in Seq(Waiting)
    BY <1>2, <1>3, <1>4, <1>7, <1>11, <2>7, <2>8 DEF adds
  <2> QED
    BY <1>1, <1>4, <1>11, <2>6, <2>7, <2>9, CountedIs, Zenon DEF m
<1>12. CASE /\ made.ok /\ links' = links \cup {m.name} /\ Counted
            /\ ~can /\ tree' = t /\ deferred' = Append(deferred, more)
  <2>1. Writes(tree', m)
    BY <1>4, <1>12 DEF Writes, Directory
  <2>2. PutsOff(tree', m)
    BY <1>4, <1>12, Zenon DEF PutsOff
  <2>3. TreeIsSaid'
    <3>1. links \subseteq links' /\ m.kind # "directory" /\ m.kind # "file" /\ m.name \in links'
      BY <1>1, <1>12
    <3> QED
      BY <1>1, <1>2, <1>12, <2>1, <2>2, <3>1, MemberIsSaid, Zenon DEF m
  <2>4. IsSized(tree') /\ Size(tree') <= Size(t) + m.size
    BY <1>3, <1>4, <1>12
  <2>5. deferred' \in Seq(Waiting)
    <3> HIDE DEF more
    <3> QED
      BY <1>2, <1>8, <1>12, AppendProperties
  <2> QED
    BY <1>1, <1>4, <1>12, <2>3, <2>4, <2>5, CountedIs, Zenon DEF m
<1> QED
  BY <1>1, <1>9, <1>10, <1>11, <1>12

-----------------------------------------------------------------------------
(* Unpacking: the links that were put off, and the steps around members.   *)

\* A link that was looked at is a copy or is reported.
LEMMA LinkIsSaid ==
  ASSUME UnpackTypeOK, TreeIsSaid, LinkIsNext,
         raw' = raw, reader' = reader, phase' = phase, seen' = seen, links' = links,
         deferred' = deferred, at' = at + 1,
         copied \cup unresolved \cup {deferred[at].name} \subseteq copied' \cup unresolved',
         Larger(tree, tree'), WellFormed(tree'),
         \A p \in DOMAIN tree' \ DOMAIN tree :
           p = deferred[at].name /\ tree'[p].kind = "file" /\ ~deferred[at].slash
  PROVE  TreeIsSaid'
<1>1. /\ Reads' /\ Done' = Done
      /\ \A n : /\ SaidName(n)' = SaidName(n) /\ SaidSlash(n)' = SaidSlash(n)
                /\ SaidKind(n)' = SaidKind(n) /\ SaidTarget(n)' = SaidTarget(n)
      /\ MemberEntries' = MemberEntries
  BY ReaderStays, SameArchive DEF TreeIsSaid
<1>2. /\ LocalsAreSaid /\ NodesAreSaid /\ PathsAreSaid /\ MembersAreThere /\ DeferredAreSaid
      /\ MemberEntries \subseteq Done /\ phase = "links"
  BY DEF TreeIsSaid, LinkIsNext
<1>3. at \in Nat /\ at \in 1..Len(deferred) /\ Len(deferred) \in Nat
  BY DEF UnpackTypeOK, LinkIsNext
<1>4. PICK own \in Done : /\ SaidKind(own) = "symlink" /\ SaidName(own) = deferred[at].name
                          /\ SaidSlash(own) = deferred[at].slash
  BY <1>2, <1>3, Zenon DEF DeferredAreSaid
<1> DEFINE u == tree'
<1>5. /\ DOMAIN tree \subseteq DOMAIN u /\ \A p \in DOMAIN tree : u[p] = tree[p]
      /\ \A p \in DOMAIN u \ DOMAIN tree :
           p = deferred[at].name /\ u[p].kind = "file" /\ ~deferred[at].slash
  BY DEF Larger
<1>6. \A k \in 1..Len(deferred) : k < at + 1 => k < at \/ k = at
  BY <1>3
<1>7. \A k \in 1..Len(deferred) : k < at => k < at + 1
  BY <1>3
<1>8. at < at + 1
  BY <1>3
<1> HIDE DEF u
<1>11. LocalsAreSaid'
  BY <1>1, <1>2, Zenon DEF LocalsAreSaid
<1>12. NodesAreSaid'
  <2>1. ASSUME NEW path \in DOMAIN u, u[path].kind # "directory"
        PROVE  \E n \in Done :
                 /\ SaidName(n) = path /\ ~SaidSlash(n)
                 /\ \/ u[path].kind = "file" /\ SaidKind(n) = "file"
                    \/ u[path].kind = "file" /\ SaidKind(n) = "symlink" /\ CopiedBefore(path)'
                    \/ u[path].kind = "symlink" /\ SaidKind(n) = "symlink"
    <3>1. CASE path \in DOMAIN tree
      <4>1. u[path] = tree[path]
        BY <1>5, <3>1
      <4>2. CopiedBefore(path) => CopiedBefore(path)'
        BY <1>7, Zenon DEF CopiedBefore
      <4>3. \E n \in Done :
              /\ SaidName(n) = path /\ ~SaidSlash(n)
              /\ \/ tree[path].kind = "file" /\ SaidKind(n) = "file"
                 \/ tree[path].kind = "file" /\ SaidKind(n) = "symlink" /\ CopiedBefore(path)
                 \/ tree[path].kind = "symlink" /\ SaidKind(n) = "symlink"
        BY <1>2, <2>1, <3>1, <4>1, Zenon DEF NodesAreSaid
      <4> QED
        BY <4>1, <4>2, <4>3, Zenon
    <3>2. CASE path \notin DOMAIN tree
      <4>1. path = deferred[at].name /\ u[path].kind = "file" /\ ~deferred[at].slash
        BY <1>5, <3>2
      <4>2. CopiedBefore(path)'
        BY <1>3, <1>8, <4>1, Zenon DEF CopiedBefore
      <4> QED
        BY <1>4, <4>1, <4>2, Zenon
    <3> QED
      BY <3>1, <3>2
  <2> QED
    BY <1>1, <2>1, Zenon DEF NodesAreSaid, u
<1>13. PathsAreSaid'
  <2>1. ASSUME NEW path \in DOMAIN u, path # <<>> PROVE \E n \in Done : IsPrefix(path, SaidName(n))
    <3>1. CASE path \in DOMAIN tree
      BY <1>2, <2>1, <3>1, Zenon DEF PathsAreSaid
    <3>2. CASE path \notin DOMAIN tree
      <4>1. path = SaidName(own)
        BY <1>4, <1>5, <3>2
      <4>2. Plain(SaidName(own))
        BY <1>2, Zenon DEF LocalsAreSaid
      <4> QED
        BY <4>1, <4>2, PathIsPrefix DEF Plain
    <3> QED
      BY <3>1, <3>2
  <2> QED
    BY <1>1, <2>1, Zenon DEF PathsAreSaid, u
<1>14. MembersAreThere'
  <2>1. ASSUME NEW n \in Done, SaidKind(n) = "file" PROVE FileIsThere(n)'
    <3>1. FileIsThere(n)
      BY <1>2, <2>1 DEF MembersAreThere
    <3>2. SaidName(n) \in DOMAIN u /\ u[SaidName(n)] = tree[SaidName(n)]
      BY <1>5, <3>1 DEF FileIsThere
    <3> QED
      BY <1>1, <3>1, <3>2, Zenon DEF FileIsThere, IsTar, u
  <2>2. ASSUME NEW n \in Done, SaidKind(n) = "directory" PROVE DirectoryIsThere(n)'
    <3>1. DirectoryIsThere(n)
      BY <1>2, <2>2 DEF MembersAreThere
    <3>2. SaidName(n) \in DOMAIN u /\ u[SaidName(n)] = tree[SaidName(n)]
      BY <1>5, <3>1 DEF DirectoryIsThere
    <3> QED
      BY <1>1, <3>1, <3>2, Zenon DEF DirectoryIsThere, u
  <2>3. ASSUME NEW n \in Done, SaidKind(n) = "symlink" PROVE LinkIsThere(n)'
    <3>1. LinkIsThere(n)
      BY <1>2, <2>3 DEF MembersAreThere
    <3>2. SaidName(n) \in DOMAIN tree => SaidName(n) \in DOMAIN u /\ u[SaidName(n)] = tree[SaidName(n)]
      BY <1>5
    <3> QED
      BY <1>1, <3>1, <3>2, Zenon DEF LinkIsThere, u
  <2> QED
    BY <1>1, <2>1, <2>2, <2>3, Zenon DEF MembersAreThere
<1>15. DeferredAreSaid'
  <2>1. ASSUME NEW k \in 1..Len(deferred), ~deferred[k].slash
        PROVE  Front(deferred[k].name) \in DOMAIN u /\ ~IsLink(u, Front(deferred[k].name))
    BY <1>2, <1>5, <2>1, Zenon DEF DeferredAreSaid, IsLink
  <2>2. ASSUME NEW k \in 1..Len(deferred), k < at + 1
        PROVE  deferred[k].name \in copied' \cup unresolved'
    <3>1. CASE k < at
      BY <1>2, <3>1, Zenon DEF DeferredAreSaid
    <3>2. CASE k = at
      BY <3>2
    <3> QED
      BY <1>6, <2>2, <3>1, <3>2
  <2> QED
    BY <1>1, <1>2, <2>1, <2>2, Zenon DEF DeferredAreSaid, u
<1> QED
  BY <1>1, <1>2, <1>11, <1>12, <1>13, <1>14, <1>15 DEF TreeIsSaid

\* No link is above the name of a link that was put off, and nothing is there yet.
LEMMA DeferredIsNew ==
  ASSUME UnpackTypeOK, TreeIsSaid, LinkIsNext, CanOpen(tree, deferred[at].name, deferred[at].slash)
  PROVE  LET name == deferred[at].name
         IN /\ Plain(name) /\ name # <<>> /\ ~deferred[at].slash
            /\ Leaf(tree, name) = name /\ IsDirectory(tree, Front(name)) /\ name \notin DOMAIN tree
<1> DEFINE name == deferred[at].name
           above == Front(name)
<1>1. /\ LocalsAreSaid /\ NodesAreSaid /\ DeferredAreSaid /\ WellFormed(tree)
  BY DEF TreeIsSaid
<1>2. at \in Nat /\ at \in 1..Len(deferred) /\ Len(deferred) \in Nat
  BY DEF UnpackTypeOK, LinkIsNext
<1>3. ~deferred[at].slash /\ Leaf(tree, name) # Nowhere
      /\ (Leaf(tree, name) \in DOMAIN tree => tree[Leaf(tree, name)].kind = "file")
  BY DEF CanOpen
<1>4. PICK own \in Done : /\ SaidKind(own) = "symlink" /\ SaidName(own) = name
                          /\ SaidSlash(own) = deferred[at].slash
  BY <1>1, <1>2, Zenon DEF DeferredAreSaid
<1>5. Plain(name) /\ name # <<>> /\ name \in Seq(STRING)
  BY <1>1, <1>4, Zenon DEF LocalsAreSaid, Plain
<1>6. above \in DOMAIN tree /\ ~IsLink(tree, above)
  BY <1>1, <1>2, <1>3, Zenon DEF DeferredAreSaid
<1>7. NoLinkAbove(tree, name)
  <2> SUFFICES ASSUME NEW n \in 1..(Len(name) - 1), IsLink(tree, Upper(name, n)) PROVE FALSE
    BY DEF NoLinkAbove
  <2>1. Len(name) \in Nat \ {0} /\ Len(name) - 1 \in 0..Len(name) /\ above = Upper(name, Len(name) - 1)
    BY <1>5, FrontFacts
  <2>2. n # Len(name) - 1
    BY <1>6, <2>1
  <2>3. /\ Len(above) = Len(name) - 1
        /\ \A k \in 0..(Len(name) - 1) : Upper(above, k) = Upper(name, k)
    <3> DEFINE top == Len(name) - 1
    <3>1. top \in 0..Len(name) /\ above = Upper(name, top)
      BY <2>1
    <3> HIDE DEF top, above, name
    <3>2. Len(above) = top /\ \A k \in 0..top : Upper(above, k) = Upper(name, k)
      BY <1>5, <3>1, UpperFacts
    <3> QED
      BY <3>2 DEF top
  <2> HIDE DEF name, above
  <2>4. n \in 0..(Len(above) - 1) /\ n \in 0..(Len(name) - 1)
    BY <2>1, <2>2, <2>3
  <2>5. IsDirectory(tree, Upper(above, n))
    BY <1>1, <1>6, <2>4, UppersAreDirectories
  <2> QED
    BY <2>3, <2>4, <2>5 DEF IsDirectory, IsLink
<1>8. Leaf(tree, name) = name /\ IsDirectory(tree, above)
  BY <1>1, <1>3, <1>5, <1>7, LeafForMember
<1>9. ASSUME name \in DOMAIN tree PROVE FALSE
  <2>1. tree[name].kind = "file"
    BY <1>3, <1>8, <1>9
  <2>2. PICK n \in Done : /\ SaidName(n) = name /\ ~SaidSlash(n)
                          /\ SaidKind(n) = "file" \/ CopiedBefore(name)
    BY <1>1, <1>9, <2>1 DEF NodesAreSaid
  <2>3. SaidSlash(n) = SaidSlash(own)
    <3>1. SaidSlash(n) \in BOOLEAN /\ SaidSlash(own) \in BOOLEAN
      BY <1>1, Zenon DEF LocalsAreSaid
    <3> QED
      BY <1>3, <1>4, <2>2, <3>1, Zenon
  <2>4. n = own
    BY <1>1, <1>4, <2>2, <2>3, Zenon DEF LocalsAreSaid
  <2>5. PICK k \in 1..Len(deferred) : k < at /\ deferred[k].name = name /\ ~deferred[k].slash
    BY <1>4, <2>2, <2>4 DEF CopiedBefore
  <2>6. deferred[k].slash = deferred[at].slash
    <3>1. deferred[k].slash \in BOOLEAN /\ deferred[at].slash \in BOOLEAN
      <4>1. \A j \in 1..Len(deferred) : deferred[j] \in Waiting
        BY DEF UnpackTypeOK
      <4>2. \A w \in Waiting : w.slash \in BOOLEAN
        BY DEF Waiting
      <4> QED
        BY <1>2, <4>1, <4>2, Zenon
    <3> QED
      BY <1>3, <2>5, <3>1, Zenon
  <2>7. k = at
    BY <1>1, <1>2, <2>5, <2>6, Zenon DEF DeferredAreSaid
  <2> QED
    BY <1>2, <2>5, <2>7
<1> QED
  BY <1>3, <1>5, <1>8, <1>9

LEMMA CopyLinkIs == ASSUME UnpackInv, CopyLink PROVE UnpackInv'
<1> DEFINE link == deferred[at]
           source == tree[Source(link)]
           leaf == Leaf(tree, link.name)
           node == FileNode(source.text, source.size, FALSE)
           full == source.size > MaxTotal - total
           opens == CanOpen(tree, link.name, link.slash)
<1>1. /\ LinkIsNext /\ Source(link) \in DOMAIN tree
      /\ IF full \/ ~opens THEN Fail /\ UNCHANGED tree
         ELSE \/ /\ tree' = Put(tree, leaf, node) /\ total' = total + source.size
                 /\ copied' = copied \cup {link.name} /\ at' = at + 1
                 /\ UNCHANGED <<raw, linksWork, phase, reader, seen, links, deferred, members, unresolved>>
              \/ tree' = Drop(tree, leaf) /\ Fail
  BY DEF CopyLink, CanRead
<1>2. /\ UnpackTypeOK /\ TreeIsSaid /\ total \in Nat /\ MaxTotal \in Nat /\ total <= MaxTotal
      /\ WellFormed(tree) /\ IsSized(tree) /\ Size(tree) <= total
  BY <1>1, UnpackAssumption DEF UnpackInv, UnpackTypeOK, SizeIsCounted, TreeIsSaid, LinkIsNext, Live
<1>3. source.size \in Nat /\ Size(tree) \in Nat
  BY <1>1, <1>2, SizeIsNat DEF IsSized
<1>4. node.size = source.size /\ node.kind = "file"
  BY DEF FileNode
<1>5. opens => /\ Plain(link.name) /\ link.name # <<>> /\ ~link.slash /\ leaf = link.name
               /\ IsDirectory(tree, Front(link.name)) /\ link.name \notin DOMAIN tree
  BY <1>1, <1>2, DeferredIsNew
<1> DEFINE adds == source.size
<1> HIDE DEF node, opens, leaf
<1>6. CASE Fail /\ UNCHANGED tree
  <2>1. Size(tree) <= MaxTotal
    BY <1>2, <1>3
  <2> QED
    BY <1>2, <1>6, <2>1, FailIs
<1>7. CASE tree' = Drop(tree, leaf) /\ Fail
  <2>1. IsSized(tree') /\ Size(tree') <= Size(tree)
    BY <1>2, <1>7, DropSize
  <2>2. Size(tree') <= MaxTotal
    BY <1>2, <1>3, <2>1, SizeIsNat
  <2> QED
    BY <1>2, <1>7, <2>1, <2>2, FailIs
<1>8. CASE /\ ~full /\ opens
           /\ tree' = Put(tree, leaf, node) /\ total' = total + source.size
           /\ copied' = copied \cup {link.name} /\ at' = at + 1
           /\ UNCHANGED <<raw, linksWork, phase, reader, seen, links, deferred, members, unresolved>>
  <2>1. /\ DOMAIN tree' = DOMAIN tree \cup {link.name} /\ tree'[link.name] = node
        /\ \A p \in DOMAIN tree : tree'[p] = tree[p]
    BY <1>5, <1>8 DEF Put
  <2>2. WellFormed(tree')
    BY <1>2, <1>4, <1>5, <1>8, PutFileIs
  <2>3. Larger(tree, tree')
    BY <2>1 DEF Larger
  <2>4. TreeIsSaid'
    <3>1. copied \cup unresolved \cup {deferred[at].name} \subseteq copied' \cup unresolved'
      BY <1>8
    <3>2. \A p \in DOMAIN tree' \ DOMAIN tree :
            p = deferred[at].name /\ tree'[p].kind = "file" /\ ~deferred[at].slash
      BY <1>4, <1>5, <1>8, <2>1
    <3>3. /\ raw' = raw /\ reader' = reader /\ phase' = phase /\ seen' = seen /\ links' = links
          /\ deferred' = deferred /\ at' = at + 1
      BY <1>8
    <3> QED
      BY <1>1, <1>2, <2>2, <2>3, <3>1, <3>2, <3>3, LinkIsSaid, Zenon
  <2>5. IsSized(tree') /\ Size(tree') <= Size(tree) + source.size
    BY <1>2, <1>3, <1>4, <1>8, PutSize
  <2>6. Size(tree') \in Nat
    BY <2>5, SizeIsNat
  <2>7. total' \in Nat /\ total' <= MaxTotal /\ Size(tree') <= total' /\ Size(tree') <= MaxTotal
    <3>1. adds \in Nat /\ ~(adds > MaxTotal - total) /\ total' = total + adds
          /\ Size(tree') <= Size(tree) + adds
      BY <1>3, <1>8, <2>5
    <3> HIDE DEF adds
    <3> QED
      BY <1>2, <1>3, <2>6, <3>1
  <2>8. at' \in Nat \ {0}
    BY <1>2, <1>8 DEF UnpackTypeOK
  <2>9. UnpackTypeOK'
    BY <1>2, <1>8, <2>7, <2>8 DEF UnpackTypeOK
  <2> QED
    BY <2>4, <2>5, <2>7, <2>9, Zenon DEF UnpackInv, SizeIsCounted
<1> QED
  BY <1>1, <1>6, <1>7, <1>8

LEMMA LeaveUnresolvedIs == ASSUME UnpackInv, LeaveUnresolved PROVE UnpackInv'
<1>1. /\ LinkIsNext /\ unresolved' = unresolved \cup {deferred[at].name} /\ at' = at + 1
      /\ raw' = raw /\ linksWork' = linksWork /\ phase' = phase /\ reader' = reader /\ tree' = tree
      /\ seen' = seen /\ links' = links /\ deferred' = deferred /\ total' = total /\ copied' = copied
  BY DEF LeaveUnresolved, locals
<1>2. UnpackTypeOK /\ SizeIsCounted /\ TreeIsSaid /\ WellFormed(tree)
  BY <1>1 DEF UnpackInv, TreeIsSaid, LinkIsNext, Live
<1>3. TreeIsSaid'
  <2>1. Larger(tree, tree') /\ WellFormed(tree') /\ DOMAIN tree' \ DOMAIN tree = {}
    BY <1>1, <1>2 DEF Larger
  <2>2. copied \cup unresolved \cup {deferred[at].name} \subseteq copied' \cup unresolved'
    BY <1>1
  <2> QED
    BY <1>1, <1>2, <2>1, <2>2, LinkIsSaid
<1>4. UnpackTypeOK'
  BY <1>1, <1>2 DEF UnpackTypeOK
<1>5. SizeIsCounted'
  BY <1>1, <1>2 DEF SizeIsCounted
<1> QED
  BY <1>3, <1>4, <1>5 DEF UnpackInv

\* A step that only changes the phase.
LEMMA PhaseIs ==
  ASSUME UnpackInv, phase \in Live, phase' \in Live,
         UNCHANGED <<raw, linksWork, reader, tree, locals, copied, unresolved, at>>,
         phase' \in {"closed", "reading"} => phase \in {"closed", "reading"},
         phase' \in {"links", "done"} => MemberEntries \subseteq Done,
         phase' = "done" => at > Len(deferred)
  PROVE  UnpackInv'
<1>1. /\ raw' = raw /\ linksWork' = linksWork /\ reader' = reader /\ tree' = tree
      /\ seen' = seen /\ links' = links /\ deferred' = deferred /\ total' = total
      /\ copied' = copied /\ unresolved' = unresolved /\ at' = at
  BY DEF locals
<1>2. UnpackTypeOK /\ SizeIsCounted /\ TreeIsSaid
  BY DEF UnpackInv
<1>3. TreeIsSaid'
  <2>1. /\ Reads' /\ Done' = Done
        /\ \A n : /\ SaidName(n)' = SaidName(n) /\ SaidSlash(n)' = SaidSlash(n)
                  /\ SaidKind(n)' = SaidKind(n) /\ SaidTarget(n)' = SaidTarget(n)
        /\ MemberEntries' = MemberEntries
    BY <1>1, <1>2, ReaderStays, SameArchive DEF TreeIsSaid
  <2>2. /\ LocalsAreSaid /\ NodesAreSaid /\ PathsAreSaid /\ MembersAreThere /\ DeferredAreSaid
        /\ WellFormed(tree')
    BY <1>1, <1>2 DEF TreeIsSaid
  <2>3. LocalsAreSaid'
    BY <1>1, <2>1, <2>2, Zenon DEF LocalsAreSaid
  <2>4. NodesAreSaid'
    BY <1>1, <2>1, <2>2, Zenon DEF NodesAreSaid, CopiedBefore
  <2>5. PathsAreSaid'
    BY <1>1, <2>1, <2>2, Zenon DEF PathsAreSaid
  <2>6. MembersAreThere'
    <3>1. \A n : FileIsThere(n) => FileIsThere(n)'
      BY <1>1, <2>1, Zenon DEF FileIsThere, IsTar
    <3>2. \A n : DirectoryIsThere(n) => DirectoryIsThere(n)'
      BY <1>1, <2>1, Zenon DEF DirectoryIsThere
    <3>3. \A n : LinkIsThere(n) => LinkIsThere(n)'
      BY <1>1, <2>1, Zenon DEF LinkIsThere
    <3> QED
      BY <2>1, <2>2, <3>1, <3>2, <3>3, Zenon DEF MembersAreThere
  <2>7. DeferredAreSaid'
    BY <1>1, <2>1, <2>2, Zenon DEF DeferredAreSaid
  <2>8. /\ phase' \in {"closed", "reading"} => at' = 1
        /\ phase' = "done" => at' > Len(deferred')
    BY <1>1, <1>2 DEF TreeIsSaid
  <2> QED
    BY <2>1, <2>2, <2>3, <2>4, <2>5, <2>6, <2>7, <2>8 DEF TreeIsSaid
<1>4. UnpackTypeOK'
  BY <1>1, <1>2 DEF UnpackTypeOK
<1>5. SizeIsCounted'
  BY <1>1, <1>2 DEF SizeIsCounted
<1> QED
  BY <1>3, <1>4, <1>5 DEF UnpackInv

LEMMA NothingIsSized == IsSized([p \in {} |-> Directory]) /\ Size([p \in {} |-> Directory]) = 0
<1> DEFINE none == [p \in {} |-> Directory]
<1>1. DOMAIN none = {}
  OBVIOUS
<1> HIDE DEF none
<1>2. IsSized(none)
  BY <1>1, FS_EmptySet DEF IsSized
<1>3. Size(none) = 0
  BY <1>1, <1>2, SizeSumsUp DEF SumsUp
<1> QED
  BY <1>2, <1>3 DEF none

\* Nothing is on disk but the destination before the first member, and no name is read.
LEMMA UnpackInitIs == ASSUME UnpackInit PROVE UnpackInv
<1>1. /\ raw \in Archives /\ linksWork \in BOOLEAN /\ phase = "closed" /\ reader = Fresh /\ at = 1
      /\ tree = [p \in {<<>>} |-> Directory] /\ deferred = <<>> /\ total = 0
  BY DEF UnpackInit
<1>2. DOMAIN tree = {<<>>} /\ tree[<<>>] = Directory
  BY <1>1
<1>3. UnpackTypeOK
  <2>1. MaxTotal \in Nat /\ deferred \in Seq(Waiting)
    BY <1>1, UnpackAssumption
  <2> QED
    BY <1>1, <2>1 DEF UnpackTypeOK, Live
<1>4. IsSized(tree) /\ Size(tree) <= 0 /\ Size(tree) \in Nat
  <2> DEFINE none == [p \in {} |-> Directory]
  <2>1. IsSized(none) /\ Size(none) = 0
    BY NothingIsSized
  <2>2. tree = Put(none, <<>>, Directory)
    BY <1>1 DEF Put
  <2> HIDE DEF none
  <2>3. Directory.size = 0
    BY DEF Directory
  <2>4. IsSized(tree) /\ Size(tree) <= Size(none) + Directory.size
    BY <2>1, <2>2, <2>3, PutSize
  <2> QED
    BY <2>1, <2>3, <2>4, SizeIsNat
<1>5. SizeIsCounted
  BY <1>1, <1>4, UnpackAssumption DEF SizeIsCounted
<1>6. Reads /\ Done = {}
  <2>1. reader.at = 1 /\ reader.slots = Slots
    BY <1>1 DEF Fresh
  <2>2. Len(raw.entries) \in Nat
    BY <1>1, HeaderFacts
  <2> QED
    BY <1>1, <2>1, <2>2 DEF Reads, Done, MemberEntries
<1>7. WellFormed(tree)
  <2>1. <<>> # Nowhere
    BY DEF Nowhere
  <2> QED
    BY <1>2, <2>1 DEF WellFormed, IsDirectory, Directory
<1>8. Len(deferred) = 0
  BY <1>1
<1>9. TreeIsSaid
  <2>1. LocalsAreSaid /\ MembersAreThere
    BY <1>6 DEF LocalsAreSaid, MembersAreThere
  <2>2. NodesAreSaid /\ PathsAreSaid
    BY <1>2 DEF NodesAreSaid, PathsAreSaid, Directory
  <2>3. DeferredAreSaid
    BY <1>8 DEF DeferredAreSaid
  <2> QED
    BY <1>1, <1>6, <1>7, <2>1, <2>2, <2>3 DEF TreeIsSaid
<1> QED
  BY <1>3, <1>5, <1>9 DEF UnpackInv
-----------------------------------------------------------------------------
(* Unpacking: the limit, and the tree.                                     *)

\* The invariant is inductive: fr_unpack's locals and the tree it leaves say, after every call it
\* makes, what the headers read so far say.
THEOREM UnpackInductive == UnpackSpec => []UnpackInv
<1>1. UnpackInit => UnpackInv
  BY UnpackInitIs
<1>2. UnpackInv /\ [UnpackNext]_unpackVars => UnpackInv'
  <2> SUFFICES ASSUME UnpackInv, [UnpackNext]_unpackVars PROVE UnpackInv'
    OBVIOUS
  <2>0. /\ UnpackTypeOK /\ IsSized(tree) /\ Size(tree) <= MaxTotal
        /\ phase \in Live => TreeIsSaid
    BY DEF UnpackInv, SizeIsCounted
  <2>1. CASE Fail /\ UNCHANGED tree
    BY <2>0, <2>1, FailIs
  <2>2. CASE Open
    <3>1. /\ phase = "closed" /\ phase' \in {"reading", "failed"}
          /\ UNCHANGED <<raw, linksWork, reader, tree, locals, copied, unresolved, at>>
      BY <2>2 DEF Open
    <3>2. CASE phase' = "failed"
      <4>1. Fail /\ UNCHANGED tree
        BY <3>1, <3>2 DEF Fail
      <4> QED
        BY <2>1, <4>1
    <3>3. CASE phase' = "reading"
      BY <3>1, <3>3, PhaseIs DEF Live
    <3> QED
      BY <3>1, <3>2, <3>3
  <2>3. CASE RefuseArchive \/ RefuseMember
    BY <2>1, <2>3 DEF RefuseArchive, RefuseMember
  <2>4. CASE EndOfArchive
    <3>1. /\ phase = "reading" /\ phase' = "links" /\ Ended(raw, Here)
          /\ UNCHANGED <<raw, linksWork, reader, tree, locals, copied, unresolved, at>>
      BY <2>4 DEF EndOfArchive
    <3>2. MemberEntries \subseteq Done
      BY <2>0, <3>1, EndIsAll DEF TreeIsSaid, Live
    <3> QED
      BY <3>1, <3>2, PhaseIs DEF Live
  <2>5. CASE LinksRestored
    <3>1. /\ phase = "links" /\ phase' = "done" /\ at > Len(deferred)
          /\ UNCHANGED <<raw, linksWork, reader, tree, locals, copied, unresolved, at>>
      BY <2>5 DEF LinksRestored
    <3>2. MemberEntries \subseteq Done
      BY <2>0, <3>1 DEF TreeIsSaid, Live
    <3> QED
      BY <3>1, <3>2, PhaseIs DEF Live
  <2>6. CASE RemoveTree
    <3>1. /\ phase' = "removed" /\ tree' = [p \in {} |-> Directory]
          /\ UNCHANGED <<raw, linksWork, reader, locals, copied, unresolved, at>>
      BY <2>6 DEF RemoveTree
    <3>2. phase' \notin Live
      BY <3>1 DEF Live
    <3>3. SizeIsCounted'
      <4>1. IsSized(tree') /\ Size(tree') = 0 /\ 0 <= MaxTotal
        BY <3>1, NothingIsSized, UnpackAssumption
      <4> QED
        BY <3>2, <4>1 DEF SizeIsCounted
    <3>4. UnpackTypeOK'
      BY <2>0, <3>1 DEF UnpackTypeOK, locals
    <3> QED
      BY <3>2, <3>3, <3>4, Zenon DEF UnpackInv
  <2>7. CASE UNCHANGED unpackVars
    <3>1. UNCHANGED <<raw, linksWork, phase, reader, tree, locals, copied, unresolved, at>>
      BY <2>7 DEF unpackVars
    <3>2. CASE phase \in Live
      <4>1. /\ phase \in {"links", "done"} => MemberEntries \subseteq Done
            /\ phase = "done" => at > Len(deferred)
        BY <2>0, <3>2 DEF TreeIsSaid
      <4> QED
        BY <3>1, <3>2, <4>1, PhaseIs
    <3>3. CASE phase \notin Live
      <4>1. UnpackTypeOK' /\ SizeIsCounted'
        BY <2>0, <3>1, <3>3 DEF UnpackTypeOK, SizeIsCounted, locals
      <4> QED
        BY <3>1, <3>3, <4>1 DEF UnpackInv
    <3> QED
      BY <3>2, <3>3
  <2> QED
    BY <2>2, <2>3, <2>4, <2>5, <2>6, <2>7, WriteDirectoryIs, WriteFileIs, WriteSymlinkIs,
       LeaveUnresolvedIs, CopyLinkIs DEF UnpackNext
<1> QED
  BY <1>1, <1>2, PTL DEF UnpackSpec

\* fr_unpack_limits.max_total_bytes: whatever the archive holds, whichever links are copied and
\* wherever a write stops, there is never more below the destination than the archive was given.
THEOREM UnpackIsWithinTheLimit == UnpackSpec => []WithinTheLimit
<1>1. UnpackInv => WithinTheLimit
  BY DEF UnpackInv, SizeIsCounted, Size, WithinTheLimit
<1> QED
  BY <1>1, UnpackInductive, PTL

\* An archive that fr_unpack says it unpacked is on disk as its headers say, member for member, and
\* nothing else is: no member was written through a link, under another's name or over another.
THEOREM UnpackedIsTheArchive == UnpackSpec => []TreeIsTheArchive
<1>1. ASSUME UnpackInv, phase = "done" PROVE TreeIsTheArchive
  <2>1. /\ TreeIsSaid /\ MemberEntries \subseteq Done /\ at > Len(deferred)
        /\ at \in Nat /\ Len(deferred) \in Nat
    BY <1>1 DEF UnpackInv, TreeIsSaid, UnpackTypeOK, Live
  <2>2. /\ PathsAreSaid /\ MembersAreThere /\ DeferredAreSaid /\ Done = MemberEntries
    BY <2>1 DEF TreeIsSaid, Done
  <2>3. ASSUME NEW n \in Named("file")
        PROVE  /\ SaidName(n) \in DOMAIN tree
               /\ tree[SaidName(n)].kind = "file" /\ tree[SaidName(n)].text = raw.entries[n].text
               /\ tree[SaidName(n)].exec = (raw.entries[n].exec /\ (IsTar(raw) \/ raw.entries[n].unix))
    <3>1. FileIsThere(n)
      BY <2>2 DEF MembersAreThere, Named
    <3> QED
      BY <3>1, Zenon DEF FileIsThere
  <2>4. ASSUME NEW n \in Named("directory")
        PROVE  /\ SaidName(n) \in DOMAIN tree
               /\ tree[SaidName(n)].kind = "directory" \/ SaidName(n) \in NamesOf(Named("file"))
    <3>1. DirectoryIsThere(n)
      BY <2>2 DEF MembersAreThere, Named
    <3> QED
      BY <2>2, <3>1 DEF DirectoryIsThere, Named, NamesOf
  <2>5. ASSUME NEW n \in Named("symlink")
        PROVE  \/ SaidName(n) \in DOMAIN tree /\ tree[SaidName(n)] = LinkTo(SaidTarget(n))
               \/ SaidName(n) \in copied \cup unresolved
    <3>1. LinkIsThere(n)
      BY <2>2 DEF MembersAreThere, Named
    <3>2. \A k \in 1..Len(deferred) : k < at
      BY <2>1
    <3> QED
      BY <2>2, <3>1, <3>2, Zenon DEF LinkIsThere, DeferredAreSaid
  <2>6. ASSUME NEW path \in DOMAIN tree \ {<<>>}
        PROVE  \E name \in NamesOf(MemberEntries) : IsPrefix(path, name)
    <3>1. PICK n \in MemberEntries : IsPrefix(path, SaidName(n))
      BY <2>2 DEF PathsAreSaid
    <3>2. SaidName(n) \in NamesOf(MemberEntries)
      BY DEF NamesOf
    <3> QED
      BY <3>1, <3>2
  <2> QED
    BY <2>3, <2>4, <2>5, <2>6, Zenon DEF TreeIsTheArchive
<1>2. UnpackInv => TreeIsTheArchive
  BY <1>1 DEF TreeIsTheArchive
<1> QED
  BY <1>2, UnpackInductive, PTL

-----------------------------------------------------------------------------
(* Unpacking: what a target is folded to.                                  *)

\* What holds at first, and at n + 1 where it holds at n, holds up to m.
LEMMA GoesOn ==
  ASSUME NEW S, NEW first \in Nat, NEW m \in Nat, first \in S,
         \A n \in Nat : n >= first /\ n < m /\ n \in S => n + 1 \in S
  PROVE  \A n \in Nat : n >= first /\ n <= m => n \in S
<1> DEFINE bad == {n \in Nat : n >= first /\ n <= m /\ n \notin S}
<1> SUFFICES ASSUME bad # {} PROVE FALSE
  OBVIOUS
<1>1. PICK n \in bad : \A k \in bad : n <= k
  BY LeastMember
<1>2. n \in Nat /\ n >= first /\ n <= m /\ n \notin S
  BY <1>1
<1>3. n # first
  BY <1>2
<1>4. n - 1 \in Nat /\ n - 1 >= first /\ n - 1 < m /\ n - 1 < n /\ n - 1 <= m /\ (n - 1) + 1 = n
  BY <1>2, <1>3
<1>5. n - 1 \notin bad
  <2> HIDE DEF bad
  <2> QED
    BY <1>1, <1>2, <1>4
<1>6. n - 1 \in S
  BY <1>4, <1>5
<1>7. (n - 1) + 1 \in S
  BY <1>4, <1>6
<1> QED
  BY <1>2, <1>4, <1>7

\* Turns that start in S and are taken by a function on S can be taken.
Turns(S, start, turn, m) ==
  {f \in [0..m -> S] : f[0] = start /\ \A n \in 1..m : f[n] = turn[n][f[n - 1]]}

\* There is such a function.
LEMMA TurnsExist ==
  ASSUME NEW S, NEW start, start \in S, NEW turn, turn \in [Nat -> [S -> S]], NEW m, m \in Nat
  PROVE  Turns(S, start, turn, m) # {}
<1> DEFINE Has(k) == \E f \in [0..k -> S] : f[0] = start /\ \A n \in 1..k : f[n] = turn[n][f[n - 1]]
           having == {k \in Nat : Has(k)}
<1>1. 0 \in having
  <2> DEFINE f == [n \in 0..0 |-> start]
  <2>1. f \in [0..0 -> S] /\ f[0] = start /\ \A n \in 1..0 : f[n] = turn[n][f[n - 1]]
    OBVIOUS
  <2> HIDE DEF f
  <2> QED
    BY <2>1
<1>2. ASSUME NEW k \in Nat, k \in having PROVE k + 1 \in having
  <2>1. PICK g \in [0..k -> S] : g[0] = start /\ \A n \in 1..k : g[n] = turn[n][g[n - 1]]
    BY <1>2
  <2> DEFINE f == [n \in 0..(k + 1) |-> IF n = k + 1 THEN turn[k + 1][g[k]] ELSE g[n]]
  <2>2. k \in 0..k /\ g[k] \in S /\ k + 1 \in Nat
    BY <2>1
  <2>3. turn[k + 1][g[k]] \in S
    BY <2>2
  <2>4. \A n \in 0..(k + 1) : n # k + 1 => n \in 0..k
    OBVIOUS
  <2>5. f \in [0..(k + 1) -> S]
    BY <2>1, <2>3, <2>4
  <2>6. \A n \in 0..k : n \in 0..(k + 1) /\ n # k + 1
    OBVIOUS
  <2>7. \A n \in 0..k : f[n] = g[n]
    BY <2>6
  <2>8. f[k + 1] = turn[k + 1][g[k]]
    <3>1. k + 1 \in 0..(k + 1)
      OBVIOUS
    <3> QED
      BY <3>1
  <2> HIDE DEF f
  <2>9. f[0] = start
    <3>1. 0 \in 0..k
      OBVIOUS
    <3> QED
      BY <2>1, <2>7, <3>1
  <2>10. ASSUME NEW n \in 1..(k + 1) PROVE f[n] = turn[n][f[n - 1]]
    <3>1. CASE n = k + 1
      <4>1. n - 1 = k
        BY <3>1
      <4> QED
        BY <2>2, <2>7, <2>8, <3>1, <4>1
    <3>2. CASE n # k + 1
      <4>1. n \in 1..k /\ n \in 0..k /\ n - 1 \in 0..k
        BY <3>2
      <4> QED
        BY <2>1, <2>7, <4>1
    <3> QED
      BY <3>1, <3>2
  <2> QED
    BY <2>5, <2>9, <2>10
<1> HIDE DEF having
<1>3. \A k \in Nat : k >= 0 /\ k <= m => k \in having
  BY <1>1, <1>2, GoesOn
<1>4. m \in having
  BY <1>3
<1> QED
  BY <1>4 DEF having, Turns

\* A path folded with one more part is a path, no longer than by one name.
LEMMA FoldIsPath ==
  ASSUME NEW path \in Seq(STRING), NEW part \in STRING
  PROVE  /\ Fold(path, part) \in Seq(STRING)
         /\ part # ".." => Len(path) <= Len(Fold(path, part))
         /\ part \notin {NoName, ".", ".."} => Len(Fold(path, part)) = Len(path) + 1
         /\ part \in {NoName, "."} => Fold(path, part) = path
         /\ part = ".." /\ path # <<>> => Len(Fold(path, part)) = Len(path) - 1
<1>1. CASE part = ".."
  <2>1. CASE path = <<>>
    BY <1>1, <2>1 DEF Fold, NoName
  <2>2. CASE path # <<>>
    <3>1. Front(path) \in Seq(STRING) /\ Len(Front(path)) = Len(path) - 1
      BY <2>2, FrontFacts, UpperFacts
    <3>2. Fold(path, part) = Front(path)
      BY <1>1, <2>2, Zenon DEF Fold
    <3>3. part \notin {NoName, "."}
      BY <1>1 DEF NoName
    <3> QED
      BY <1>1, <2>2, <3>1, <3>2, <3>3
  <2> QED
    BY <2>1, <2>2
<1>2. CASE part \in {NoName, "."}
  <2>1. part # ".." /\ Fold(path, part) = path
    BY <1>2 DEF Fold, NoName
  <2>2. Len(path) <= Len(path)
    OBVIOUS
  <2> QED
    BY <1>2, <2>1, <2>2
<1>3. CASE part \notin {NoName, ".", ".."}
  <2>1. Fold(path, part) = Append(path, part)
    BY <1>3 DEF Fold
  <2>2. Append(path, part) \in Seq(STRING) /\ Len(Append(path, part)) = Len(path) + 1
    BY AppendProperties
  <2>3. Len(path) <= Len(path) + 1
    OBVIOUS
  <2> HIDE DEF Fold
  <2> QED
    BY <1>3, <2>1, <2>2, <2>3
<1> QED
  BY <1>1, <1>2, <1>3

\* A path and one more part.
LEMMA AppendFacts ==
  ASSUME NEW path \in Seq(STRING), NEW part \in STRING, NEW all, all = Append(path, part)
  PROVE  /\ all \in Seq(STRING) /\ Len(all) = Len(path) + 1
         /\ \A n \in 1..Len(path) : all[n] = path[n]
         /\ all[Len(path) + 1] = part
<1>1. all \in Seq(STRING) /\ Len(all) = Len(path) + 1
  BY AppendProperties
<1>2. \A n \in 1..Len(path) : all[n] = path[n]
  BY AppendProperties
<1>3. all[Len(path) + 1] = part
  BY AppendProperties
<1> QED
  BY <1>1, <1>2, <1>3

\* A plain path folded with one more part is plain.
LEMMA FoldIsPlain ==
  ASSUME NEW path, Plain(path), NEW part \in STRING
  PROVE  Plain(Fold(path, part))
<1>1. path \in Seq(STRING) /\ Len(path) \in Nat
  BY DEF Plain
<1>2. CASE part = ".." /\ path # <<>>
  <2>1. Front(path) = Upper(path, Len(path) - 1) /\ Len(path) - 1 \in 0..Len(path)
    BY <1>1, <1>2, FrontFacts
  <2>2. Plain(Front(path))
    BY <2>1, PlainUpper
  <2> QED
    BY <1>2, <2>2, Zenon DEF Fold
<1>3. CASE part \in {NoName, "."} \/ (part = ".." /\ path = <<>>)
  <2>1. Fold(path, part) = path
    BY <1>3 DEF Fold, NoName
  <2> QED
    BY <2>1
<1>4. CASE part \notin {NoName, ".", ".."}
  <2> DEFINE all == Append(path, part)
  <2>1. Fold(path, part) = all
    BY <1>4, Zenon DEF Fold
  <2>2. /\ all \in Seq(STRING) /\ Len(all) = Len(path) + 1
        /\ \A n \in 1..Len(path) : all[n] = path[n]
        /\ all[Len(path) + 1] = part
    BY <1>1, AppendFacts
  <2> HIDE DEF all
  <2>3. ASSUME NEW n \in 1..Len(all) PROVE n \in 1..Len(path) \/ n = Len(path) + 1
    BY <1>1, <2>2
  <2>4. \A n \in 1..Len(path) : path[n] \notin {NoName, ".", ".."}
    BY DEF Plain
  <2>5. \A n \in 1..Len(all) : all[n] \notin {NoName, ".", ".."}
    BY <1>4, <2>2, <2>3, <2>4, Zenon
  <2> QED
    BY <2>1, <2>2, <2>5, Zenon DEF Plain
<1> QED
  BY <1>2, <1>3, <1>4, Zenon

\* The turns of TargetName and of StaysInside.
Folded(path, dir, target) ==
  path[0] = dir /\ \A n \in 1..Len(target) : path[n] = Fold(path[n - 1], target[n])

\* TargetName folds a target part by part.
LEMMA TargetTurns ==
  ASSUME NEW dir \in Seq(STRING), NEW target \in Seq(STRING)
  PROVE  \E path : Folded(path, dir, target) /\ TargetName(dir, target) = path[Len(target)]
<1> DEFINE S == Seq(STRING)
           m == Len(target)
           turn == [n \in Nat |-> [p \in S |-> IF n \in 1..m THEN Fold(p, target[n]) ELSE p]]
           Is(f) == f = [n \in 0..Len(target) |-> IF n = 0 THEN dir ELSE Fold(f[n - 1], target[n])]
<1>1. m \in Nat /\ dir \in S
  OBVIOUS
<1>2. turn \in [Nat -> [S -> S]]
  <2>1. \A n \in Nat, p \in S : n \in 1..m => Fold(p, target[n]) \in S
    <3> SUFFICES ASSUME NEW n \in Nat, NEW p \in S, n \in 1..m PROVE Fold(p, target[n]) \in S
      OBVIOUS
    <3>1. target[n] \in STRING /\ p \in Seq(STRING)
      OBVIOUS
    <3> QED
      BY <3>1, FoldIsPath
  <2> HIDE DEF S, m
  <2> QED
    BY <2>1
<1>3. \A n \in 1..m, p \in S : turn[n][p] = Fold(p, target[n])
  <2>1. \A n \in 1..m : n \in Nat
    BY <1>1
  <2> HIDE DEF S, m
  <2> QED
    BY <2>1
<1> HIDE DEF turn
<1>4. PICK f : /\ f \in [0..m -> S] /\ f[0] = dir
               /\ \A n \in 1..m : f[n] = turn[n][f[n - 1]]
  <2> HIDE DEF S, m
  <2>1. Turns(S, dir, turn, m) # {}
    BY <1>1, <1>2, TurnsExist
  <2> QED
    BY <2>1 DEF Turns
<1>5. \A n \in 1..Len(target) : f[n] = Fold(f[n - 1], target[n])
  <2>1. \A n \in 1..Len(target) : n - 1 \in 0..Len(target)
    BY <1>1
  <2> QED
    BY <1>3, <1>4, <2>1
<1>6. Is(f)
  <2>1. \A n \in 0..Len(target) : n # 0 => n \in 1..Len(target)
    BY <1>1
  <2>2. \A n \in 0..Len(target) : f[n] = IF n = 0 THEN dir ELSE Fold(f[n - 1], target[n])
    BY <1>4, <1>5, <2>1
  <2> QED
    BY <1>4, <2>2
<1> DEFINE path == CHOOSE g : Is(g)
<1>7. path = [n \in 0..Len(target) |-> IF n = 0 THEN dir ELSE Fold(path[n - 1], target[n])]
  BY <1>6
<1>8. TargetName(dir, target) = path[Len(target)]
  BY DEF TargetName
<1> HIDE DEF path
<1>9. path[0] = dir
  BY <1>1, <1>7
<1>10. ASSUME NEW n \in 1..Len(target) PROVE path[n] = Fold(path[n - 1], target[n])
  <2>1. n \in 0..Len(target) /\ n # 0
    BY <1>1
  <2> QED
    BY <1>7, <2>1
<1> QED
  BY <1>8, <1>9, <1>10 DEF Folded

\* A member's depth goes below the top once, and stays there.
Sunk(depth, part) ==
  IF depth < 0 \/ part \in {NoName, "."} THEN depth ELSE IF part = ".." THEN depth - 1 ELSE depth + 1

\* StaysInside counts a target's depth part by part.
LEMMA DepthTurns ==
  ASSUME NEW name \in Seq(STRING), name # <<>>, NEW target \in Seq(STRING), StaysInside(name, target)
  PROVE  \E depth : /\ depth[0] = Len(name) - 1 /\ depth[Len(target)] >= 0
                    /\ \A n \in 1..Len(target) : depth[n] = Sunk(depth[n - 1], target[n])
                    /\ \A n \in 0..Len(target) : depth[n] \in Int
<1> DEFINE m == Len(target)
           first == Len(name) - 1
           turn == [n \in Nat |-> [d \in Int |-> IF n \in 1..m THEN Sunk(d, target[n]) ELSE d]]
           Is(f) == f = [n \in 0..m |-> IF n = 0 THEN first ELSE Sunk(f[n - 1], target[n])]
<1>1. m \in Nat /\ first \in Int
  OBVIOUS
<1>2. turn \in [Nat -> [Int -> Int]]
  <2>1. ASSUME NEW d \in Int, NEW part PROVE Sunk(d, part) \in Int
    BY DEF Sunk
  <2> HIDE DEF m
  <2> QED
    BY <2>1
<1>3. \A n \in 1..m, d \in Int : turn[n][d] = Sunk(d, target[n])
  <2>1. \A n \in 1..m : n \in Nat
    BY <1>1
  <2> HIDE DEF m
  <2> QED
    BY <2>1
<1> HIDE DEF turn, m, first
<1>4. PICK f : /\ f \in [0..m -> Int] /\ f[0] = first
               /\ \A n \in 1..m : f[n] = turn[n][f[n - 1]]
  <2>1. Turns(Int, first, turn, m) # {}
    BY <1>1, <1>2, TurnsExist
  <2> QED
    BY <2>1 DEF Turns
<1>5. \A n \in 1..m : f[n] = Sunk(f[n - 1], target[n])
  <2>1. \A n \in 1..m : n - 1 \in 0..m
    BY <1>1
  <2> QED
    BY <1>3, <1>4, <2>1
<1>6. Is(f)
  <2>1. \A n \in 0..m : n # 0 => n \in 1..m
    BY <1>1
  <2>2. \A n \in 0..m : f[n] = IF n = 0 THEN first ELSE Sunk(f[n - 1], target[n])
    BY <1>4, <1>5, <2>1
  <2> QED
    BY <1>4, <2>2
<1> DEFINE depth == CHOOSE g : Is(g)
<1>7. depth = [n \in 0..m |-> IF n = 0 THEN first ELSE Sunk(depth[n - 1], target[n])]
  BY <1>6
<1>8. depth[m] >= 0
  BY DEF StaysInside, Sunk, m, first
<1> HIDE DEF depth
<1>9. depth[0] = first
  BY <1>1, <1>7
<1>10. ASSUME NEW n \in 1..m PROVE depth[n] = Sunk(depth[n - 1], target[n])
  <2>1. n \in 0..m /\ n # 0
    BY <1>1
  <2> QED
    BY <1>7, <2>1
<1>11. \A n \in 0..m : depth[n] \in Int
  <2> DEFINE S == {n \in Nat : n <= m => depth[n] \in Int}
  <2>1. 0 \in S
    BY <1>1, <1>9
  <2>2. ASSUME NEW n \in Nat, n < m, n \in S PROVE n + 1 \in S
    <3>1. n + 1 \in 1..m /\ (n + 1) - 1 = n /\ n <= m
      BY <1>1, <2>2
    <3>2. depth[n] \in Int /\ depth[n + 1] = Sunk(depth[n], target[n + 1])
      BY <1>10, <2>2, <3>1
    <3>3. depth[n + 1] \in Int
      BY <3>2 DEF Sunk
    <3> QED
      BY <3>3
  <2> HIDE DEF S
  <2>3. \A n \in Nat : n >= 0 /\ n <= m => n \in S
    BY <1>1, <2>1, <2>2, GoesOn
  <2>4. \A n \in 0..m : n \in Nat /\ n >= 0 /\ n <= m
    BY <1>1
  <2> QED
    BY <2>3, <2>4 DEF S
<1> QED
  BY <1>8, <1>9, <1>10, <1>11 DEF m, first

\* target_stays_inside: no ".." is met at the top.
LEMMA NeverAbove ==
  ASSUME NEW name \in Seq(STRING), name # <<>>, NEW target \in Seq(STRING), StaysInside(name, target),
         NEW path, Folded(path, Front(name), target)
  PROVE  \A n \in 1..Len(target) : target[n] = ".." => path[n - 1] # <<>>
<1> DEFINE m == Len(target)
<1>1. PICK depth : /\ depth[0] = Len(name) - 1 /\ depth[m] >= 0
                   /\ \A n \in 1..m : depth[n] = Sunk(depth[n - 1], target[n])
                   /\ \A n \in 0..m : depth[n] \in Int
  BY DepthTurns
<1>2. m \in Nat /\ Front(name) \in Seq(STRING) /\ Len(Front(name)) = Len(name) - 1
  BY FrontFacts, UpperFacts
<1>3. \A n \in 1..m : target[n] \in STRING
  OBVIOUS
<1>4. /\ path[0] = Front(name)
      /\ \A n \in 1..m : path[n] = Fold(path[n - 1], target[n])
  BY DEF Folded
<1> HIDE DEF m
<1>5. ASSUME NEW k \in 0..m PROVE depth[k] >= 0
  <2> SUFFICES ASSUME depth[k] < 0 PROVE FALSE
    BY <1>1
  <2> DEFINE S == {n \in Nat : n <= m => depth[n] < 0}
  <2>1. k \in S /\ k \in Nat
    BY <1>2
  <2>2. ASSUME NEW n \in Nat, n >= k, n < m, n \in S PROVE n + 1 \in S
    <3>1. n + 1 \in 1..m /\ (n + 1) - 1 = n /\ n <= m /\ n \in 0..m
      BY <1>2, <2>2
    <3>2. depth[n] < 0 /\ depth[n + 1] = Sunk(depth[n], target[n + 1])
      BY <1>1, <2>2, <3>1
    <3>3. depth[n + 1] < 0
      BY <3>2 DEF Sunk
    <3> QED
      BY <3>3
  <2> HIDE DEF S
  <2>3. \A n \in Nat : n >= k /\ n <= m => n \in S
    BY <1>2, <2>1, <2>2, GoesOn
  <2>4. m \in S
    BY <1>2, <2>3
  <2>5. depth[m] < 0
    BY <1>2, <2>4 DEF S
  <2>6. m \in 0..m
    BY <1>2
  <2> QED
    BY <1>1, <2>5, <2>6
<1> DEFINE T == {n \in Nat : n <= m => path[n] \in Seq(STRING) /\ depth[n] = Len(path[n])}
<1>6. 0 \in T
  BY <1>1, <1>2, <1>4
<1>7. ASSUME NEW n \in Nat, n < m, n \in T PROVE n + 1 \in T /\ (target[n + 1] = ".." => path[n] # <<>>)
  <2>1. n + 1 \in 1..m /\ (n + 1) - 1 = n /\ n <= m /\ n \in 0..m /\ n + 1 \in 0..m
    BY <1>2, <1>7
  <2> DEFINE part == target[n + 1]
             here == path[n]
  <2>2. /\ here \in Seq(STRING) /\ depth[n] = Len(here) /\ part \in STRING
        /\ path[n + 1] = Fold(here, part) /\ depth[n + 1] = Sunk(depth[n], part)
    BY <1>1, <1>3, <1>4, <1>7, <2>1
  <2>3. depth[n + 1] >= 0 /\ depth[n] >= 0
    BY <1>5, <2>1
  <2> HIDE DEF part, here
  <2>4. part = ".." => here # <<>>
    <3> SUFFICES ASSUME part = "..", here = <<>> PROVE FALSE
      OBVIOUS
    <3>1. depth[n] = 0
      BY <2>2
    <3>2. part \notin {NoName, "."}
      BY DEF NoName
    <3>3. depth[n + 1] = 0 - 1
      BY <2>2, <3>1, <3>2 DEF Sunk
    <3> QED
      BY <2>3, <3>3
  <2>5. path[n + 1] \in Seq(STRING) /\ depth[n + 1] = Len(path[n + 1])
    <3>1. Fold(here, part) \in Seq(STRING)
      BY <2>2, FoldIsPath
    <3>2. CASE part = ".."
      <4>1. Len(Fold(here, part)) = Len(here) - 1
        BY <2>2, <2>4, <3>2, FoldIsPath
      <4>2. part \notin {NoName, "."}
        BY <3>2 DEF NoName
      <4>3. depth[n + 1] = depth[n] - 1
        BY <2>2, <2>3, <3>2, <4>2 DEF Sunk
      <4> QED
        BY <2>2, <3>1, <4>1, <4>3
    <3>3. CASE part \in {NoName, "."}
      <4>1. Fold(here, part) = here
        BY <2>2, <3>3, FoldIsPath
      <4>2. depth[n + 1] = depth[n]
        BY <2>2, <3>3 DEF Sunk
      <4> QED
        BY <2>2, <4>1, <4>2
    <3>4. CASE part \notin {NoName, ".", ".."}
      <4>1. Len(Fold(here, part)) = Len(here) + 1
        BY <2>2, <3>4, FoldIsPath
      <4>2. depth[n + 1] = depth[n] + 1
        BY <2>2, <2>3, <3>4 DEF Sunk
      <4> QED
        BY <2>2, <3>1, <4>1, <4>2
    <3> QED
      BY <3>2, <3>3, <3>4
  <2> QED
    BY <2>4, <2>5 DEF part, here
<1> HIDE DEF T
<1>8. \A n \in Nat : n >= 0 /\ n <= m => n \in T
  BY <1>2, <1>6, <1>7, GoesOn
<1>9. ASSUME NEW n \in 1..m, target[n] = ".." PROVE path[n - 1] # <<>>
  <2>1. n - 1 \in Nat /\ n - 1 >= 0 /\ n - 1 <= m /\ n - 1 < m /\ (n - 1) + 1 = n
    BY <1>2
  <2> QED
    BY <1>7, <1>8, <1>9, <2>1
<1> QED
  BY <1>9 DEF m

\* Every turn of a fold is a plain path.
LEMMA FoldedIsPlain ==
  ASSUME NEW dir, Plain(dir), NEW target \in Seq(STRING), NEW path, Folded(path, dir, target)
  PROVE  \A n \in 0..Len(target) : Plain(path[n])
<1> DEFINE m == Len(target)
           S == {n \in Nat : n <= m => Plain(path[n])}
<1>1. m \in Nat /\ \A n \in 1..m : target[n] \in STRING
  OBVIOUS
<1>2. /\ path[0] = dir
      /\ \A n \in 1..m : path[n] = Fold(path[n - 1], target[n])
  BY DEF Folded
<1> HIDE DEF m
<1>3. 0 \in S
  BY <1>2
<1>4. ASSUME NEW n \in Nat, n < m, n \in S PROVE n + 1 \in S
  <2>1. n + 1 \in 1..m /\ (n + 1) - 1 = n /\ n <= m
    BY <1>1, <1>4
  <2>2. Plain(path[n]) /\ path[n + 1] = Fold(path[n], target[n + 1]) /\ target[n + 1] \in STRING
    BY <1>1, <1>2, <1>4, <2>1
  <2>3. Plain(path[n + 1])
    BY <2>2, FoldIsPlain
  <2> QED
    BY <2>3
<1> HIDE DEF S
<1>5. \A n \in Nat : n >= 0 /\ n <= m => n \in S
  BY <1>1, <1>3, <1>4, GoesOn
<1>6. \A n \in 0..m : n \in Nat /\ n >= 0 /\ n <= m
  BY <1>1
<1> QED
  BY <1>5, <1>6 DEF S, m

\* What a target is folded to from a plain directory is plain.
LEMMA TargetIsPlain ==
  ASSUME NEW dir, Plain(dir), NEW target \in Seq(STRING)
  PROVE  Plain(TargetName(dir, target))
<1>1. PICK path : Folded(path, dir, target) /\ TargetName(dir, target) = path[Len(target)]
  BY TargetTurns DEF Plain
<1>2. Len(target) \in 0..Len(target)
  OBVIOUS
<1> QED
  BY <1>1, <1>2, FoldedIsPlain

\* The whole of a path, and none of it.
LEMMA UpperZero ==
  ASSUME NEW path \in Seq(STRING)
  PROVE  /\ Upper(path, 0) = <<>> /\ Lower(path, 0) = path
         /\ Len(path) \in 0..Len(path) /\ Upper(path, Len(path)) = path
<1>1. 0 \in 0..Len(path) /\ Len(path) \in 0..Len(path)
  OBVIOUS
<1>2. Upper(path, 0) \in Seq(STRING) /\ Len(Upper(path, 0)) = 0
  BY <1>1, UpperFacts
<1>3. Upper(path, 0) = <<>>
  BY <1>2, EmptySeq
<1>4. Lower(path, 0) = Upper(path, Len(path))
  BY DEF Lower, Upper
<1>5. /\ Upper(path, Len(path)) \in Seq(STRING) /\ Len(Upper(path, Len(path))) = Len(path)
      /\ \A k \in 1..Len(path) : Upper(path, Len(path))[k] = path[k]
  BY <1>1, UpperFacts
<1>6. Upper(path, Len(path)) = path
  BY <1>5, SeqEqual
<1> QED
  BY <1>1, <1>3, <1>4, <1>6

\* As long as a target climbs it is above where it starts.
Climbs(target, n) == \A k \in 1..n : target[k] \in {"..", ".", NoName}

\* A target that only climbs is folded to the link's directory or one above it.
LEMMA ClimbsUp ==
  ASSUME NEW dir \in Seq(STRING), NEW target \in Seq(STRING), NEW path, Folded(path, dir, target),
         NEW i \in 0..Len(target), Climbs(target, i)
  PROVE  \E c \in 0..Len(dir) : path[i] = Upper(dir, c)
<1> DEFINE m == Len(target)
           Above(n) == \E c \in 0..Len(dir) : path[n] = Upper(dir, c)
           S == {n \in Nat : n <= i => Above(n)}
<1>1. m \in Nat /\ i \in Nat /\ i <= m
  OBVIOUS
<1>2. path[0] = dir /\ \A n \in 1..m : path[n] = Fold(path[n - 1], target[n])
  BY DEF Folded
<1> HIDE DEF m
<1>3. 0 \in S
  <2>1. Len(dir) \in 0..Len(dir) /\ Upper(dir, Len(dir)) = dir
    BY UpperZero
  <2>2. Above(0)
    BY <1>2, <2>1
  <2> HIDE DEF Above
  <2> QED
    BY <2>2
<1>4. ASSUME NEW n \in Nat, n < i, n \in S PROVE n + 1 \in S
  <2>1. n + 1 \in 1..m /\ n + 1 \in 1..i /\ (n + 1) - 1 = n /\ n <= i
    BY <1>1, <1>4
  <2>2. PICK c \in 0..Len(dir) : path[n] = Upper(dir, c)
    BY <1>4, <2>1
  <2>3. path[n + 1] = Fold(Upper(dir, c), target[n + 1]) /\ target[n + 1] \in {"..", ".", NoName}
    BY <1>2, <2>1, <2>2 DEF Climbs
  <2>4. Upper(dir, c) \in Seq(STRING) /\ Len(Upper(dir, c)) = c
    BY UpperFacts
  <2>5. CASE target[n + 1] = ".." /\ c # 0
    <3>1. c - 1 \in 0..c /\ c - 1 \in 0..Len(dir) /\ Upper(dir, c) # <<>>
      BY <2>4, <2>5
    <3>2. Front(Upper(dir, c)) = Upper(Upper(dir, c), c - 1)
      BY <2>4, <3>1, FrontFacts
    <3>3. Upper(Upper(dir, c), c - 1) = Upper(dir, c - 1)
      BY <3>1, UpperFacts
    <3>4. path[n + 1] = Upper(dir, c - 1)
      BY <2>3, <2>5, <3>1, <3>2, <3>3, Zenon DEF Fold
    <3> QED
      BY <3>1, <3>4
  <2>6. CASE target[n + 1] \in {".", NoName} \/ c = 0
    <3>1. c = 0 => Upper(dir, c) = <<>>
      BY UpperZero
    <3>2. Fold(Upper(dir, c), target[n + 1]) = Upper(dir, c)
      BY <2>3, <2>6, <3>1 DEF Fold, NoName
    <3> QED
      BY <2>2, <2>3, <3>2
  <2> QED
    BY <2>3, <2>5, <2>6
<1> HIDE DEF S
<1>5. \A n \in Nat : n >= 0 /\ n <= i => n \in S
  BY <1>1, <1>3, <1>4, GoesOn
<1>6. i \in S
  BY <1>1, <1>5
<1> QED
  BY <1>1, <1>6 DEF S

\* After its last ".." a target only goes down.
LEMMA GoesDown ==
  ASSUME NEW dir \in Seq(STRING), Plain(dir), NEW target \in Seq(STRING), NEW path, Folded(path, dir, target),
         NEW i \in 0..Len(target), NEW j \in 0..Len(target), i <= j,
         \A k \in 1..j : k > i => target[k] # ".."
  PROVE  \E c \in 0..Len(path[j]) : path[i] = Upper(path[j], c)
<1> DEFINE m == Len(target)
           Under(n) == \E c \in 0..Len(path[n]) : path[i] = Upper(path[n], c)
           S == {n \in Nat : n <= j => Under(n)}
<1>1. m \in Nat /\ i \in Nat /\ j \in Nat /\ j <= m /\ \A n \in 1..m : target[n] \in STRING
  OBVIOUS
<1>2. path[0] = dir /\ \A n \in 1..m : path[n] = Fold(path[n - 1], target[n])
  BY DEF Folded
<1>3. \A n \in 0..m : path[n] \in Seq(STRING)
  BY FoldedIsPlain DEF Plain
<1> HIDE DEF m
<1>5. i \in S
  <2>1. path[i] \in Seq(STRING)
    BY <1>3 DEF m
  <2>2. Under(i)
    BY <2>1, UpperZero
  <2> HIDE DEF Under
  <2> QED
    BY <1>1, <2>2
<1>6. ASSUME NEW n \in Nat, n >= i, n < j, n \in S PROVE n + 1 \in S
  <2>1. n + 1 \in 1..m /\ n + 1 \in 1..j /\ n + 1 > i /\ (n + 1) - 1 = n /\ n <= j /\ n \in 0..m
    BY <1>1, <1>6
  <2> DEFINE here == path[n]
             part == target[n + 1]
             next == path[n + 1]
  <2>2. PICK c \in 0..Len(here) : path[i] = Upper(here, c)
    BY <1>6, <2>1
  <2>3. here \in Seq(STRING) /\ next = Fold(here, part) /\ part # ".." /\ part \in STRING
    BY <1>1, <1>2, <1>3, <2>1
  <2> HIDE DEF here, part, next
  <2>4. CASE part \in {".", NoName}
    <3>1. next = here
      BY <2>3, <2>4, FoldIsPath
    <3> QED
      BY <2>2, <3>1 DEF next
  <2>5. CASE part \notin {".", NoName}
    <3>1. next = Append(here, part)
      BY <2>3, <2>5, Zenon DEF Fold
    <3>2. /\ next \in Seq(STRING) /\ Len(next) = Len(here) + 1
          /\ \A k \in 1..Len(here) : next[k] = here[k]
      BY <2>3, <3>1, AppendFacts
    <3>3. c \in 0..Len(next) /\ Len(here) \in Nat
      BY <2>3, <3>2
    <3>4. /\ Upper(here, c) \in Seq(STRING) /\ Len(Upper(here, c)) = c
          /\ \A k \in 1..c : Upper(here, c)[k] = here[k]
      BY <2>3, UpperFacts
    <3>5. /\ Upper(next, c) \in Seq(STRING) /\ Len(Upper(next, c)) = c
          /\ \A k \in 1..c : Upper(next, c)[k] = next[k]
      BY <3>2, <3>3, UpperFacts
    <3>6. \A k \in 1..c : k \in 1..Len(here)
      BY <3>3
    <3>7. \A k \in 1..c : Upper(next, c)[k] = Upper(here, c)[k]
      BY <3>2, <3>4, <3>5, <3>6
    <3>8. Upper(next, c) = Upper(here, c)
      BY <3>4, <3>5, <3>7, SeqEqual
    <3> QED
      BY <2>2, <3>3, <3>8 DEF next
  <2> QED
    BY <2>4, <2>5
<1> HIDE DEF S
<1>7. \A n \in Nat : n >= i /\ n <= j => n \in S
  BY <1>1, <1>5, <1>6, GoesOn
<1>8. j \in S
  BY <1>1, <1>7
<1> QED
  BY <1>1, <1>8 DEF S

\* Whatever is above a directory, itself included, is a directory.
LEMMA UppersOfDirectory ==
  ASSUME NEW t, WellFormed(t), NEW path, IsDirectory(t, path), NEW n \in 0..Len(path)
  PROVE  IsDirectory(t, Upper(path, n))
<1>1. path \in DOMAIN t /\ path \in Seq(STRING)
  BY DEF WellFormed, IsDirectory
<1>2. CASE n = Len(path)
  BY <1>1, <1>2, UpperZero
<1>3. CASE n # Len(path)
  <2>1. n \in 0..(Len(path) - 1)
    BY <1>1, <1>3
  <2> QED
    BY <1>1, <2>1, UppersAreDirectories
<1> QED
  BY <1>2, <1>3

\* The directory of a plain path is plain.
LEMMA FrontIsPlain ==
  ASSUME NEW path, Plain(path), path # <<>>
  PROVE  Plain(Front(path)) /\ Front(path) \in Seq(STRING) /\ Len(Front(path)) = Len(path) - 1
<1>1. path \in Seq(STRING)
  BY DEF Plain
<1>2. Len(path) - 1 \in 0..Len(path) /\ Front(path) = Upper(path, Len(path) - 1)
  BY <1>1, FrontFacts
<1>3. /\ Upper(path, Len(path) - 1) \in Seq(STRING)
      /\ Len(Upper(path, Len(path) - 1)) = Len(path) - 1
  BY <1>1, <1>2, UpperFacts
<1> QED
  BY <1>2, <1>3, PlainUpper

\* The directory and the name of a path that was put together of the two.
LEMMA FrontOfAppend ==
  ASSUME NEW path \in Seq(STRING), NEW part \in STRING
  PROVE  LET all == Append(path, part)
         IN all # <<>> /\ Front(all) = path /\ Last(all) = part
<1> DEFINE all == Append(path, part)
<1>1. /\ all \in Seq(STRING) /\ Len(all) = Len(path) + 1
      /\ \A n \in 1..Len(path) : all[n] = path[n]
      /\ all[Len(path) + 1] = part
  BY AppendFacts
<1> HIDE DEF all
<1>2. all # <<>> /\ Len(all) - 1 = Len(path) /\ Len(path) \in 0..Len(all)
  BY <1>1
<1>3. Front(all) = Upper(all, Len(path))
  BY <1>1, <1>2, FrontFacts
<1>4. /\ Upper(all, Len(path)) \in Seq(STRING) /\ Len(Upper(all, Len(path))) = Len(path)
      /\ \A n \in 1..Len(path) : Upper(all, Len(path))[n] = all[n]
  BY <1>1, <1>2, UpperFacts
<1>5. \A n \in 1..Len(path) : Upper(all, Len(path))[n] = path[n]
  BY <1>1, <1>4
<1>6. Upper(all, Len(path)) = path
  BY <1>4, <1>5, SeqEqual
<1>7. Last(all) = part
  BY <1>1 DEF Last
<1> QED
  BY <1>2, <1>3, <1>6, <1>7 DEF all

\* Where a target leads that is folded right and stays inside: over directories, to what is not one.
LEMMA TargetLeads ==
  ASSUME NEW t, WellFormed(t), NEW name, Plain(name), name # <<>>, IsDirectory(t, Front(name)),
         NEW target \in Seq(STRING), target # <<>>, FoldsRight(target),
         NEW path, Folded(path, Front(name), target),
         NEW next, next = path[Len(target)], next # <<>>, ~IsDirectory(t, next), IsDirectory(t, Front(next))
  PROVE  /\ \A n \in 0..(Len(target) - 1) : IsDirectory(t, path[n])
         /\ path[Len(target) - 1] = Front(next) /\ target[Len(target)] = Last(next)
<1> DEFINE m == Len(target)
           dir == Front(name)
<1>1. /\ m \in Nat /\ m \in 1..m /\ m - 1 \in 0..m /\ m - 1 \in Nat /\ m \in 0..m
      /\ \A n \in 1..m : target[n] \in STRING
  OBVIOUS
<1>2. dir \in Seq(STRING) /\ Plain(dir)
  BY FrontIsPlain
<1>3. /\ target[m] \notin {NoName, "."}
      /\ \A j \in 1..m, n \in 1..m : j < n /\ target[n] = ".." => target[j] \in {"..", ".", NoName}
  <2>1. Last(target) = target[m]
    BY DEF Last
  <2> QED
    BY <2>1, Zenon DEF FoldsRight
<1>4. /\ path[m] = Fold(path[m - 1], target[m])
      /\ \A n \in 0..m : Plain(path[n]) /\ path[n] \in Seq(STRING)
  <2>1. \A n \in 0..m : Plain(path[n])
    BY <1>2, FoldedIsPlain
  <2>2. path[m] = Fold(path[m - 1], target[m])
    BY <1>1 DEF Folded
  <2> QED
    BY <2>1, <2>2 DEF Plain
<1> HIDE DEF m, dir
<1>5. target[m] # ".."
  <2> SUFFICES ASSUME target[m] = ".." PROVE FALSE
    OBVIOUS
  <2>1. ASSUME NEW k \in 1..m PROVE target[k] \in {"..", ".", NoName}
    <3>1. k < m \/ k = m
      BY <1>1
    <3> QED
      BY <1>1, <1>3, <3>1
  <2>2. Climbs(target, m)
    BY <2>1, Zenon DEF Climbs
  <2>3. PICK c \in 0..Len(dir) : path[m] = Upper(dir, c)
    BY <1>1, <1>2, <2>2, ClimbsUp DEF m, dir
  <2>4. IsDirectory(t, path[m])
    BY <2>3, UppersOfDirectory DEF dir
  <2> QED
    BY <2>4 DEF m
<1>6. next = Append(path[m - 1], target[m])
  BY <1>3, <1>4, <1>5, Zenon DEF Fold, m
<1>7. path[m - 1] = Front(next) /\ target[m] = Last(next)
  <2>1. path[m - 1] \in Seq(STRING) /\ target[m] \in STRING
    BY <1>1, <1>4
  <2>2. /\ Front(Append(path[m - 1], target[m])) = path[m - 1]
        /\ Last(Append(path[m - 1], target[m])) = target[m]
    BY <2>1, FrontOfAppend
  <2> QED
    BY <1>6, <2>2
<1>8. ASSUME NEW n \in 0..(m - 1) PROVE IsDirectory(t, path[n])
  <2>0. n \in 0..m /\ n <= m - 1
    BY <1>1
  <2>1. CASE Climbs(target, n)
    <3>1. PICK c \in 0..Len(dir) : path[n] = Upper(dir, c)
      BY <1>2, <2>0, <2>1, ClimbsUp DEF m, dir
    <3> QED
      BY <3>1, UppersOfDirectory DEF dir
  <2>2. CASE ~Climbs(target, n)
    <3>1. PICK k \in 1..n : target[k] \notin {"..", ".", NoName}
      BY <2>2 DEF Climbs
    <3>2. ASSUME NEW j \in 1..(m - 1), j > n PROVE target[j] # ".."
      <4>1. k \in 1..m /\ j \in 1..m /\ k < j
        BY <1>1, <2>0, <3>2
      <4> QED
        BY <1>3, <3>1, <4>1
    <3>3. PICK c \in 0..Len(path[m - 1]) : path[n] = Upper(path[m - 1], c)
      <4> DEFINE j == m - 1
      <4>1. j \in 0..Len(target) /\ n \in 0..Len(target) /\ n <= j /\ \A i \in 1..j : i > n => target[i] # ".."
        BY <1>1, <2>0, <3>2 DEF m
      <4>2. Folded(path, dir, target)
        BY DEF dir
      <4> HIDE DEF j
      <4>3. \E c \in 0..Len(path[j]) : path[n] = Upper(path[j], c)
        BY <1>2, <4>1, <4>2, GoesDown
      <4> QED
        BY <4>3 DEF j
    <3> QED
      BY <1>7, <3>3, UppersOfDirectory
  <2> QED
    BY <2>1, <2>2
<1> QED
  BY <1>7, <1>8 DEF m

\* One turn of a walk, over a directory.
LEMMA WalkGoes ==
  ASSUME NEW w, NEW path, path # Nowhere, IsDirectory(w, path), NEW todo, todo # <<>>,
         NEW next, next = Fold(path, Head(todo)), IsDirectory(w, next),
         Head(todo) = ".." => path # <<>>
  PROVE  WalkOne(w, [at |-> path, todo |-> todo]) = [at |-> next, todo |-> Tail(todo)]
<1> DEFINE s == [at |-> path, todo |-> todo]
<1>1. s.at = path /\ s.todo = todo
  OBVIOUS
<1> HIDE DEF s
<1>2. CASE Head(todo) \in {NoName, "."}
  <2>1. next = path
    BY <1>2 DEF Fold, NoName
  <2>2. WalkOne(w, s) = [s EXCEPT !.todo = Tail(todo)]
    BY <1>1, <1>2, Zenon DEF WalkOne
  <2> QED
    BY <2>1, <2>2 DEF s
<1>3. CASE Head(todo) = ".."
  <2>1. next = Front(path) /\ Head(todo) \notin {NoName, "."}
    BY <1>3 DEF Fold, NoName
  <2>2. WalkOne(w, s) = [at |-> Front(path), todo |-> Tail(todo)]
    BY <1>1, <1>3, <2>1, Zenon DEF WalkOne
  <2> QED
    BY <2>1, <2>2 DEF s
<1>4. CASE Head(todo) \notin {NoName, ".", ".."}
  <2>1. next = Append(path, Head(todo))
    BY <1>4 DEF Fold
  <2>2. next \in DOMAIN w /\ w[next].kind # "symlink"
    BY DEF IsDirectory
  <2>3. WalkOne(w, s) = [at |-> next, todo |-> Tail(todo)]
    BY <1>1, <1>4, <2>1, <2>2, Zenon DEF WalkOne
  <2> QED
    BY <2>3 DEF s
<1> QED
  BY <1>2, <1>3, <1>4, Zenon

\* As far as a path is folded over directories, a walk follows it.
LEMMA WalkFollows ==
  ASSUME NEW w, NEW start, NEW turns, Walked(w, start, turns),
         NEW target \in Seq(STRING), NEW far \in 0..Len(target), NEW path,
         \A n \in 1..far : /\ path[n] = Fold(path[n - 1], target[n])
                           /\ target[n] = ".." => path[n - 1] # <<>>,
         \A n \in 0..far : path[n] # Nowhere /\ IsDirectory(w, path[n]),
         NEW s \in Nat, s + far <= Fuel, turns[s] = [at |-> path[0], todo |-> target]
  PROVE  turns[s + far] = [at |-> path[far], todo |-> Lower(target, far)]
<1> DEFINE S == {n \in Nat : n <= far => turns[s + n] = [at |-> path[n], todo |-> Lower(target, n)]}
<1>1. Fuel \in Nat /\ far \in Nat /\ far <= Len(target) /\ Len(target) \in Nat
  BY UnpackAssumption
<1>2. 0 \in S
  <2>1. s + 0 = s
    OBVIOUS
  <2> QED
    BY <2>1, UpperZero
<1>3. ASSUME NEW n \in Nat, n < far, n \in S PROVE n + 1 \in S
  <2>1. /\ n + 1 \in 1..far /\ n \in 0..far /\ n + 1 \in 0..far /\ (n + 1) - 1 = n /\ n <= far
        /\ n \in 0..Len(target) /\ n # Len(target)
    BY <1>1, <1>3
  <2>2. s + (n + 1) \in 1..Fuel /\ (s + (n + 1)) - 1 = s + n
    BY <1>1, <1>3
  <2> DEFINE todo == Lower(target, n)
  <2>3. todo # <<>> /\ Head(todo) = target[n + 1] /\ Tail(todo) = Lower(target, n + 1)
    BY <2>1, LowerFacts
  <2>4. turns[s + n] = [at |-> path[n], todo |-> todo]
    BY <1>3, <2>1
  <2>5. turns[s + (n + 1)] = WalkOne(w, turns[s + n])
    BY <2>2 DEF Walked
  <2>6. /\ path[n + 1] = Fold(path[n], target[n + 1])
        /\ target[n + 1] = ".." => path[n] # <<>>
        /\ path[n] # Nowhere /\ IsDirectory(w, path[n]) /\ IsDirectory(w, path[n + 1])
    BY <2>1
  <2> HIDE DEF todo
  <2>7. WalkOne(w, [at |-> path[n], todo |-> todo]) = [at |-> path[n + 1], todo |-> Tail(todo)]
    <3> DEFINE here == path[n]
               next == path[n + 1]
    <3>1. /\ here # Nowhere /\ IsDirectory(w, here) /\ todo # <<>> /\ next = Fold(here, Head(todo))
          /\ IsDirectory(w, next) /\ (Head(todo) = ".." => here # <<>>)
      BY <2>3, <2>6
    <3> HIDE DEF here, next
    <3>2. WalkOne(w, [at |-> here, todo |-> todo]) = [at |-> next, todo |-> Tail(todo)]
      BY <3>1, WalkGoes
    <3> QED
      BY <3>2 DEF here, next
  <2>8. turns[s + (n + 1)] = [at |-> path[n + 1], todo |-> Lower(target, n + 1)]
    BY <2>3, <2>4, <2>5, <2>7
  <2> QED
    BY <2>8
<1> HIDE DEF S
<1>4. \A n \in Nat : n >= 0 /\ n <= far => n \in S
  BY <1>1, <1>2, <1>3, GoesOn
<1>5. far \in S
  BY <1>1, <1>4
<1> QED
  BY <1>1, <1>5 DEF S

-----------------------------------------------------------------------------
(* Unpacking: where a walk leads that goes through links.                  *)

\* A walk that has nothing left to do stays where it is.
LEMMA WalkStays ==
  ASSUME NEW w, NEW start, NEW turns, Walked(w, start, turns), NEW s \in Nat, s <= Fuel,
         turns[s].todo = <<>>
  PROVE  turns[Fuel] = turns[s]
<1> DEFINE S == {n \in Nat : n <= Fuel => turns[n] = turns[s]}
<1>1. Fuel \in Nat
  BY UnpackAssumption
<1>2. s \in S
  OBVIOUS
<1>3. ASSUME NEW n \in Nat, n >= s, n < Fuel, n \in S PROVE n + 1 \in S
  <2>1. n + 1 \in 1..Fuel /\ (n + 1) - 1 = n /\ n <= Fuel
    BY <1>1, <1>3
  <2>2. turns[n] = turns[s] /\ turns[n + 1] = WalkOne(w, turns[n])
    BY <1>3, <2>1 DEF Walked
  <2>3. turns[n + 1] = turns[n]
    BY <2>2, Zenon DEF WalkOne
  <2> QED
    BY <2>2, <2>3
<1> HIDE DEF S
<1>4. \A n \in Nat : n >= s /\ n <= Fuel => n \in S
  BY <1>1, <1>2, <1>3, GoesOn
<1>5. Fuel \in S
  BY <1>1, <1>4
<1> QED
  BY <1>1, <1>5 DEF S

\* Where there is a directory, there still is one.
Keeps(t, w) == \A p : IsDirectory(t, p) => IsDirectory(w, p)

\* A path follows itself, over the directories above it.
LEMMA PathFollows ==
  ASSUME NEW t, WellFormed(t), NEW w, Keeps(t, w),
         NEW name, Plain(name), NEW turns, Walked(w, name, turns),
         NEW far \in 0..Len(name), far <= Fuel, IsDirectory(t, Upper(name, far))
  PROVE  turns[far] = [at |-> Upper(name, far), todo |-> Lower(name, far)]
<1> DEFINE path == [n \in 0..Len(name) |-> Upper(name, n)]
<1>1. name \in Seq(STRING) /\ Len(name) \in Nat /\ far \in Nat /\ Fuel \in Nat
  BY UnpackAssumption DEF Plain
<1>2. \A n \in 0..Len(name) : path[n] = Upper(name, n)
  OBVIOUS
<1> HIDE DEF path
<1>3. ASSUME NEW n \in 1..far
      PROVE  path[n] = Fold(path[n - 1], name[n]) /\ (name[n] = ".." => path[n - 1] # <<>>)
  <2>1. n \in 1..Len(name) /\ n \in 0..Len(name) /\ n - 1 \in 0..Len(name) /\ n - 1 # Len(name) /\ (n - 1) + 1 = n
    BY <1>1
  <2>2. Append(Upper(name, n - 1), name[n]) = Upper(name, n)
    BY <1>1, <2>1, LowerFacts
  <2>3. name[n] \notin {NoName, ".", ".."}
    BY <2>1 DEF Plain
  <2>4. Fold(path[n - 1], name[n]) = Append(path[n - 1], name[n]) /\ name[n] # ".."
    BY <2>3 DEF Fold
  <2> QED
    BY <1>2, <2>1, <2>2, <2>4
<1>4. ASSUME NEW n \in 0..far PROVE path[n] # Nowhere /\ IsDirectory(w, path[n])
  <2>1. n \in 0..Len(name) /\ far \in 0..Len(name)
    BY <1>1
  <2>2. Plain(path[n]) /\ path[n] # Nowhere
    BY <1>2, <2>1, PlainUpper, PlainIsSomewhere
  <2>3. Len(Upper(name, far)) = far /\ Upper(Upper(name, far), n) = Upper(name, n)
    BY <1>1, UpperFacts
  <2>4. IsDirectory(t, Upper(Upper(name, far), n))
    BY <2>3, UppersOfDirectory
  <2>5. IsDirectory(t, path[n])
    BY <1>2, <2>1, <2>3, <2>4
  <2> QED
    BY <2>2, <2>5 DEF Keeps
<1>5. turns[0] = [at |-> path[0], todo |-> name]
  <2>1. path[0] = <<>>
    BY <1>1, <1>2, UpperZero
  <2> QED
    BY <2>1 DEF Walked, WalkStart
<1>6. 0 \in Nat /\ 0 + far <= Fuel /\ 0 + far = far
  BY <1>1
<1>7. turns[0 + far] = [at |-> path[far], todo |-> Lower(name, far)]
  BY <1>1, <1>3, <1>4, <1>5, <1>6, WalkFollows
<1> QED
  BY <1>2, <1>6, <1>7

\* A directory is reached under its own name, as far as the system follows names at all.
LEMMA WalkReaches ==
  ASSUME NEW t, WellFormed(t), NEW path, Plain(path), IsDirectory(t, path), Len(path) <= Fuel
  PROVE  Walk(t, path) = path
<1>1. path \in Seq(STRING) /\ Len(path) \in 0..Len(path) /\ Len(path) \in Nat /\ Upper(path, Len(path)) = path
  BY UpperZero DEF Plain
<1>2. PICK turns : /\ Walked(t, path, turns)
                   /\ Walk(t, path) = IF turns[Fuel].todo = <<>> THEN turns[Fuel].at ELSE Nowhere
  BY WalkRuns
<1> DEFINE far == Len(path)
<1>3. far \in 0..Len(path) /\ far <= Fuel /\ IsDirectory(t, Upper(path, far)) /\ far \in Nat
  BY <1>1
<1>4. Lower(path, far) = <<>>
  BY <1>1, LowerFacts
<1> HIDE DEF far
<1>5. turns[far] = [at |-> Upper(path, far), todo |-> Lower(path, far)]
  <2>1. Keeps(t, t)
    BY DEF Keeps
  <2> QED
    BY <1>2, <1>3, <2>1, PathFollows
<1>6. turns[Fuel] = turns[far]
  BY <1>2, <1>3, <1>4, <1>5, WalkStays
<1> QED
  BY <1>1, <1>2, <1>4, <1>5, <1>6 DEF far

\* A name below a directory is where it says.
LEMMA LeafReaches ==
  ASSUME NEW t, WellFormed(t), NEW path, Plain(path), path # <<>>, IsDirectory(t, Front(path)),
         Len(path) <= Fuel
  PROVE  Leaf(t, path) = path
<1>1. Plain(Front(path)) /\ Len(Front(path)) = Len(path) - 1 /\ path \in Seq(STRING)
  BY FrontIsPlain DEF Plain
<1>2. Len(Front(path)) <= Fuel
  BY <1>1, UnpackAssumption
<1>3. Walk(t, Front(path)) = Front(path)
  BY <1>1, <1>2, WalkReaches
<1>4. Append(Front(path), Last(path)) = path
  BY <1>1, FrontFacts
<1> QED
  BY <1>3, <1>4, Zenon DEF Leaf

\* A walk that has come to the last name of a path.
Sits(name) == [at |-> Front(name), todo |-> <<Last(name)>>]

\* A path of one name.
LEMMA OneName ==
  ASSUME NEW S, NEW part \in S, NEW path \in Seq(S), Len(path) = 1, path[1] = part
  PROVE  path = <<part>>
<1>1. <<part>> \in Seq(S)
  OBVIOUS
<1>2. Len(<<part>>) = 1 /\ <<part>>[1] = part
  OBVIOUS
<1> DEFINE one == <<part>>
<1>3. one \in Seq(S) /\ Len(one) = 1 /\ one[1] = part
  BY <1>1, <1>2
<1> HIDE DEF one
<1>4. \A k \in 1..Len(path) : k = 1
  OBVIOUS
<1>5. path = one
  <2>1. \A k \in 1..Len(path) : path[k] = one[k]
    BY <1>3, <1>4
  <2> QED
    BY <1>3, <2>1, SeqEqual
<1> QED
  BY <1>5 DEF one

\* The last name of a path is what is left below its directory.
LEMMA LowerLast ==
  ASSUME NEW path \in Seq(STRING), path # <<>>
  PROVE  Lower(path, Len(path) - 1) = <<Last(path)>>
<1> DEFINE k == Len(path)
           lower == SubSeq(path, k, k)
<1>1. k \in Nat /\ k # 0 /\ \A n \in 1..k : path[n] \in STRING
  OBVIOUS
<1>2. Last(path) = path[k]
  BY DEF Last
<1>3. Lower(path, k - 1) = SubSeq(path, (k - 1) + 1, k)
  BY DEF Lower
<1> HIDE DEF k
<1>4. (k - 1) + 1 = k /\ k \in Int /\ k \in 1..k /\ \A n \in k..k : n \in 1..k
  BY <1>1
<1>5. \A n \in k..k : path[n] \in STRING
  BY <1>1, <1>4
<1>6. lower \in Seq(STRING) /\ Len(lower) = k - k + 1 /\ \A n \in 1..(k - k + 1) : lower[n] = path[k + n - 1]
  BY <1>1, <1>4, <1>5, SubSeqProperties
<1> HIDE DEF lower
<1>7. k - k + 1 = 1 /\ k + 1 - 1 = k /\ 1 \in 1..1
  BY <1>1
<1>8. Len(lower) = 1 /\ lower[1] = path[k]
  BY <1>6, <1>7
<1>9. lower = <<path[k]>>
  BY <1>1, <1>4, <1>6, <1>8, OneName
<1> QED
  BY <1>2, <1>3, <1>4, <1>9 DEF lower, k

\* A walk comes to the last name of a path, over the directories above it.
LEMMA NameIsReached ==
  ASSUME NEW t, WellFormed(t), NEW w, Keeps(t, w),
         NEW name, Plain(name), name # <<>>, IsDirectory(t, Front(name)), Len(name) - 1 <= Fuel,
         NEW turns, Walked(w, name, turns)
  PROVE  turns[Len(name) - 1] = Sits(name)
<1> DEFINE far == Len(name) - 1
<1>1. name \in Seq(STRING) /\ far \in 0..Len(name) /\ far <= Fuel /\ Front(name) = Upper(name, far)
  BY FrontFacts DEF Plain
<1>2. Lower(name, far) = <<Last(name)>>
  BY <1>1, LowerLast
<1> HIDE DEF far
<1>3. turns[far] = [at |-> Upper(name, far), todo |-> Lower(name, far)]
  <2>1. IsDirectory(t, Upper(name, far))
    BY <1>1
  <2> QED
    BY <1>1, <2>1, PathFollows
<1> QED
  BY <1>1, <1>2, <1>3 DEF Sits, far

\* The last name of a path is a link: the walk goes where the link's target leads.
LEMMA WalkHops ==
  ASSUME NEW t, WellFormed(t), NEW w, Keeps(t, w),
         NEW start, NEW turns, Walked(w, start, turns),
         NEW name, Plain(name), name # <<>>, IsDirectory(t, Front(name)), IsLink(w, name),
         NEW target \in Seq(STRING), w[name].target = target, target # <<>>, FoldsRight(target),
         StaysInside(name, target), NEW next, next = TargetName(Front(name), target),
         next # <<>>, ~IsDirectory(t, next), IsDirectory(t, Front(next)),
         NEW s \in Nat, s + Len(target) <= Fuel, turns[s] = Sits(name)
  PROVE  turns[s + Len(target)] = Sits(next)
<1> DEFINE far == Len(target) - 1
<1>1. /\ Fuel \in Nat /\ far \in 0..Len(target) /\ far \in Nat /\ Len(target) \in Nat /\ s + 1 \in 1..Fuel /\ (s + 1) - 1 = s
      /\ s + 1 \in Nat /\ (s + 1) + far = s + Len(target) /\ (s + 1) + far <= Fuel
      /\ Len(target) \in 1..Len(target)
  <2> DEFINE m == Len(target)
  <2>1. m \in Nat /\ m # 0 /\ Fuel \in Nat
    BY UnpackAssumption
  <2> HIDE DEF m
  <2> QED
    BY <2>1 DEF m
<1>2. /\ name \in Seq(STRING) /\ Plain(Front(name)) /\ Front(name) \in Seq(STRING)
      /\ Append(Front(name), Last(name)) = name /\ Last(name) \notin {NoName, ".", ".."}
  <2>1. name \in Seq(STRING) /\ Len(name) \in 1..Len(name)
    BY DEF Plain
  <2>2. Last(name) \notin {NoName, ".", ".."}
    BY <2>1 DEF Plain, Last
  <2> QED
    BY <2>1, <2>2, FrontIsPlain, FrontFacts
<1>3. PICK path : Folded(path, Front(name), target) /\ next = path[Len(target)]
  BY <1>2, TargetTurns
<1>4. /\ \A n \in 0..far : IsDirectory(t, path[n])
      /\ path[far] = Front(next) /\ target[Len(target)] = Last(next)
  BY <1>3, TargetLeads
<1>5. /\ path[0] = Front(name) /\ \A n \in 1..Len(target) : path[n] = Fold(path[n - 1], target[n])
      /\ \A n \in 1..Len(target) : target[n] = ".." => path[n - 1] # <<>>
      /\ \A n \in 0..Len(target) : Plain(path[n])
  BY <1>2, <1>3, NeverAbove, FoldedIsPlain DEF Folded
<1>6. turns[s + 1] = [at |-> path[0], todo |-> target]
  <2> DEFINE here == Sits(name)
  <2>1. here.at = Front(name) /\ here.todo = <<Last(name)>>
    BY DEF Sits
  <2>2. Head(here.todo) = Last(name) /\ Tail(here.todo) = <<>> /\ here.todo # <<>>
    BY <2>1
  <2>3. here.at # Nowhere /\ IsDirectory(w, here.at)
    BY <1>2, <2>1, PlainIsSomewhere DEF Keeps
  <2>4. name \in DOMAIN w /\ w[name].kind = "symlink" /\ w[name].target \o <<>> = target
    BY DEF IsLink
  <2>5. here = [at |-> Front(name), todo |-> <<Last(name)>>]
    BY DEF Sits
  <2> HIDE DEF here
  <2>6. WalkOne(w, here) = [here EXCEPT !.todo = w[name].target \o Tail(here.todo)]
    BY <1>2, <2>1, <2>2, <2>3, <2>4, Zenon DEF WalkOne
  <2>7. WalkOne(w, here) = [at |-> Front(name), todo |-> target]
    BY <2>2, <2>4, <2>5, <2>6
  <2>8. turns[s + 1] = WalkOne(w, turns[s])
    BY <1>1 DEF Walked
  <2> QED
    BY <1>5, <2>7, <2>8 DEF here
<1>7. Lower(target, far) = <<Last(next)>>
  BY <1>4, LowerLast DEF Last
<1> HIDE DEF far
<1>8. \A n \in 1..far : n \in 1..Len(target)
  BY <1>1
<1>9. \A n \in 0..far : n \in 0..Len(target)
  BY <1>1
<1>10. turns[(s + 1) + far] = [at |-> path[far], todo |-> Lower(target, far)]
  <2>1. \A n \in 1..far : /\ path[n] = Fold(path[n - 1], target[n])
                          /\ target[n] = ".." => path[n - 1] # <<>>
    BY <1>5, <1>8
  <2>2. \A n \in 0..far : path[n] # Nowhere /\ IsDirectory(w, path[n])
    BY <1>4, <1>5, <1>9, PlainIsSomewhere DEF Keeps
  <2> DEFINE first == s + 1
  <2>3. first \in Nat /\ first + far <= Fuel /\ turns[first] = [at |-> path[0], todo |-> target]
    BY <1>1, <1>6
  <2> HIDE DEF first
  <2>4. far \in 0..Len(target)
    BY <1>1
  <2>5. turns[first + far] = [at |-> path[far], todo |-> Lower(target, far)]
    BY <2>1, <2>2, <2>3, <2>4, WalkFollows
  <2> QED
    BY <2>5 DEF first
<1> QED
  BY <1>1, <1>4, <1>7, <1>10 DEF Sits

\* The last name of a path is no link: the walk ends there.
LEMMA WalkLands ==
  ASSUME NEW w, NEW start, NEW turns, Walked(w, start, turns),
         Walk(w, start) = (IF turns[Fuel].todo = <<>> THEN turns[Fuel].at ELSE Nowhere),
         NEW name, Plain(name), name # <<>>, IsDirectory(w, Front(name)), name \in DOMAIN w, ~IsLink(w, name),
         NEW s \in Nat, s + 1 <= Fuel, turns[s] = Sits(name)
  PROVE  Walk(w, start) = name
<1>1. s + 1 \in 1..Fuel /\ (s + 1) - 1 = s /\ s + 1 \in Nat
  BY UnpackAssumption
<1>2. /\ name \in Seq(STRING) /\ Plain(Front(name)) /\ Front(name) \in Seq(STRING)
      /\ Append(Front(name), Last(name)) = name /\ Last(name) \notin {NoName, ".", ".."}
  <2>1. name \in Seq(STRING) /\ Len(name) \in 1..Len(name)
    BY DEF Plain
  <2>2. Last(name) \notin {NoName, ".", ".."}
    BY <2>1 DEF Plain, Last
  <2> QED
    BY <2>1, <2>2, FrontIsPlain, FrontFacts
<1> DEFINE here == Sits(name)
<1>3. here.at = Front(name) /\ here.todo = <<Last(name)>>
  BY DEF Sits
<1>4. Head(here.todo) = Last(name) /\ Tail(here.todo) = <<>> /\ here.todo # <<>>
  BY <1>3
<1>5. here.at # Nowhere /\ w[name].kind # "symlink"
  BY <1>2, <1>3, PlainIsSomewhere DEF IsLink
<1> HIDE DEF here
<1>6. WalkOne(w, here) = [at |-> name, todo |-> Tail(here.todo)]
  BY <1>2, <1>3, <1>4, <1>5, Zenon DEF WalkOne
<1>7. turns[s + 1] = [at |-> name, todo |-> <<>>]
  BY <1>1, <1>4, <1>6 DEF Walked, here
<1>8. turns[s + 1].todo = <<>> /\ turns[s + 1].at = name
  BY <1>7
<1>9. turns[Fuel] = turns[s + 1]
  BY <1>1, <1>8, WalkStays
<1> QED
  BY <1>8, <1>9

-----------------------------------------------------------------------------
(* Unpacking: the hops of resolve_through_links.                           *)

\* The turns of Resolved.
Names == {path \in Seq(STRING) : Plain(path) /\ path # <<>>}

HopStates == [name : Names, slash : BOOLEAN, found : BOOLEAN, lost : BOOLEAN]

HopStart(link) == [name |-> link.name, slash |-> link.slash, found |-> FALSE, lost |-> FALSE]

Hopped(link, hops) ==
  /\ hops[0] = HopStart(link)
  /\ \A n \in 1..(MaxHops + 1) : hops[n] = Hop(hops[n - 1])

\* What one turn does.
HopDir(s) == IF s.slash THEN s.name ELSE Front(s.name)

Finds(s) == DeferredAt(s.name, s.slash) = {} /\ Hop(s) = [s EXCEPT !.found = TRUE]

Loses(s) == Hop(s) = [s EXCEPT !.lost = TRUE]

Moves(s) ==
  \E k \in DeferredAt(s.name, s.slash) :
    /\ TargetName(HopDir(s), deferred[k].target) # <<>>
    /\ Hop(s) = [s EXCEPT !.name = TargetName(HopDir(s), deferred[k].target), !.slash = FALSE]

\* One turn of resolve_through_links stops, fails or follows one link that was put off.
LEMMA HopIs ==
  ASSUME deferred \in Seq(Waiting), NEW s \in HopStates
  PROVE  /\ Hop(s) \in HopStates
         /\ s.found \/ s.lost => Hop(s) = s
         /\ ~s.found /\ ~s.lost => Finds(s) \/ Loses(s) \/ Moves(s)
<1> DEFINE ks == DeferredAt(s.name, s.slash)
           k == CHOOSE n \in ks : TRUE
           next == TargetName(HopDir(s), deferred[k].target)
<1>1. /\ s.name \in Names /\ s.slash \in BOOLEAN /\ s.found \in BOOLEAN /\ s.lost \in BOOLEAN
      /\ s = [name |-> s.name, slash |-> s.slash, found |-> s.found, lost |-> s.lost]
  BY DEF HopStates
<1>2. Hop(s) = IF s.found \/ s.lost THEN s
               ELSE IF ks = {} THEN [s EXCEPT !.found = TRUE]
               ELSE IF next = <<>> \/ (next = s.name /\ ~s.slash) THEN [s EXCEPT !.lost = TRUE]
               ELSE [s EXCEPT !.name = next, !.slash = FALSE]
  BY Zenon DEF Hop, HopDir
<1>3. ks # {} => k \in ks
  OBVIOUS
<1>4. \A n \in ks : deferred[n].target \in Seq(STRING)
  <2>1. \A n \in 1..Len(deferred) : deferred[n] \in Waiting
    OBVIOUS
  <2>2. \A n \in 1..Len(deferred) : deferred[n].target \in Seq(STRING)
    BY <2>1 DEF Waiting
  <2> QED
    BY <2>2 DEF DeferredAt
<1>5. Plain(HopDir(s))
  BY <1>1, FrontIsPlain DEF HopDir, Names
<1> HIDE DEF ks, k
<1>6. ks # {} => Plain(next) /\ next \in Seq(STRING)
  <2> SUFFICES ASSUME ks # {} PROVE Plain(next) /\ next \in Seq(STRING)
    OBVIOUS
  <2>1. deferred[k].target \in Seq(STRING)
    BY <1>3, <1>4
  <2>2. Plain(next)
    BY <1>5, <2>1, TargetIsPlain
  <2> HIDE DEF next
  <2> QED
    BY <2>2 DEF Plain
<1>7. next = TargetName(HopDir(s), deferred[k].target)
  OBVIOUS
<1> HIDE DEF next
<1>8. CASE s.found \/ s.lost
  <2>1. Hop(s) = s
    BY <1>2, <1>8
  <2> QED
    BY <1>8, <2>1
<1>9. CASE ~s.found /\ ~s.lost /\ ks = {}
  <2>1. Hop(s) = [s EXCEPT !.found = TRUE]
    BY <1>2, <1>9
  <2>2. Finds(s)
    BY <1>9, <2>1 DEF Finds, ks
  <2>3. Hop(s) \in HopStates
    BY <2>1 DEF HopStates
  <2> QED
    BY <1>9, <2>2, <2>3
<1>10. CASE ~s.found /\ ~s.lost /\ ks # {} /\ (next = <<>> \/ (next = s.name /\ ~s.slash))
  <2>1. Hop(s) = [s EXCEPT !.lost = TRUE]
    BY <1>2, <1>10
  <2>2. Loses(s)
    BY <2>1 DEF Loses
  <2>3. Hop(s) \in HopStates
    BY <2>1 DEF HopStates
  <2> QED
    BY <1>10, <2>2, <2>3
<1>11. CASE ~s.found /\ ~s.lost /\ ks # {} /\ ~(next = <<>> \/ (next = s.name /\ ~s.slash))
  <2>1. Hop(s) = [s EXCEPT !.name = next, !.slash = FALSE] /\ next # <<>> /\ k \in ks
    BY <1>2, <1>3, <1>11
  <2>2. Moves(s)
    BY <1>7, <2>1, Zenon DEF Moves, ks
  <2>3. next \in Names
    BY <1>6, <1>11 DEF Names
  <2>4. Hop(s) \in HopStates
    BY <2>1, <2>3 DEF HopStates
  <2> QED
    BY <1>11, <2>2, <2>4
<1> QED
  BY <1>8, <1>9, <1>10, <1>11

\* Resolved takes those turns one after the other.
LEMMA HopRuns ==
  ASSUME deferred \in Seq(Waiting), NEW link, link.name \in Names, link.slash \in BOOLEAN
  PROVE  \E hops : /\ Hopped(link, hops) /\ Resolved(link) = hops[MaxHops + 1]
                   /\ \A n \in 0..(MaxHops + 1) : hops[n] \in HopStates
<1> DEFINE m == MaxHops + 1
           S == HopStates
           first == HopStart(link)
           turn == [n \in Nat |-> [s \in S |-> Hop(s)]]
           Is(f) == f = [n \in 0..m |-> IF n = 0 THEN first ELSE Hop(f[n - 1])]
<1>1. m \in Nat
  BY UnpackAssumption
<1>2. first \in S
  BY DEF HopStart, HopStates
<1>3. \A s \in S : Hop(s) \in S
  BY HopIs
<1> HIDE DEF m, S, first
<1>4. turn \in [Nat -> [S -> S]] /\ \A n \in 1..m, s \in S : turn[n][s] = Hop(s)
  <2>1. \A n \in 1..m : n \in Nat
    BY <1>1
  <2> QED
    BY <1>3, <2>1
<1> HIDE DEF turn
<1>5. PICK f : /\ f \in [0..m -> S] /\ f[0] = first
               /\ \A n \in 1..m : f[n] = turn[n][f[n - 1]]
  <2>1. Turns(S, first, turn, m) # {}
    BY <1>1, <1>2, <1>4, TurnsExist
  <2> QED
    BY <2>1 DEF Turns
<1>6. \A n \in 1..m : f[n] = Hop(f[n - 1])
  <2>1. \A n \in 1..m : n - 1 \in 0..m
    BY <1>1
  <2> QED
    BY <1>4, <1>5, <2>1
<1>7. Is(f)
  <2>1. \A n \in 0..m : n # 0 => n \in 1..m
    BY <1>1
  <2>2. \A n \in 0..m : f[n] = IF n = 0 THEN first ELSE Hop(f[n - 1])
    BY <1>5, <1>6, <2>1
  <2> QED
    BY <1>5, <2>2
<1> DEFINE hops == CHOOSE g : Is(g)
<1>8. hops = [n \in 0..m |-> IF n = 0 THEN first ELSE Hop(hops[n - 1])]
  BY <1>7
<1>9. Resolved(link) = hops[m]
  BY DEF Resolved, HopStart, m, first
<1> HIDE DEF hops
<1>10. hops[0] = first
  BY <1>1, <1>8
<1>11. ASSUME NEW n \in 1..m PROVE hops[n] = Hop(hops[n - 1])
  <2>1. n \in 0..m /\ n # 0
    BY <1>1
  <2> QED
    BY <1>8, <2>1
<1>12. \A n \in 0..m : hops[n] \in S
  <2> DEFINE T == {n \in Nat : n <= m => hops[n] \in S}
  <2>1. 0 \in T
    BY <1>2, <1>10
  <2>2. ASSUME NEW n \in Nat, n < m, n \in T PROVE n + 1 \in T
    <3>1. n + 1 \in 1..m /\ (n + 1) - 1 = n /\ n <= m
      BY <1>1, <2>2
    <3>2. hops[n] \in S /\ hops[n + 1] = Hop(hops[n])
      BY <1>11, <2>2, <3>1
    <3>3. hops[n + 1] \in S
      BY <1>3, <3>2
    <3> QED
      BY <3>3
  <2> HIDE DEF T
  <2>3. \A n \in Nat : n >= 0 /\ n <= m => n \in T
    BY <1>1, <2>1, <2>2, GoesOn
  <2>4. \A n \in 0..m : n \in Nat /\ n >= 0 /\ n <= m
    BY <1>1
  <2> QED
    BY <2>3, <2>4 DEF T
<1> QED
  BY <1>9, <1>10, <1>11, <1>12 DEF Hopped, m, S, first

\* A turn that found nothing more to follow, or nothing at all, is the last that changes anything.
LEMMA HopsEnd ==
  ASSUME deferred \in Seq(Waiting), NEW link, NEW hops, Hopped(link, hops),
         \A n \in 0..(MaxHops + 1) : hops[n] \in HopStates,
         NEW n \in 0..(MaxHops + 1), hops[n].found \/ hops[n].lost
  PROVE  hops[MaxHops + 1] = hops[n]
<1> DEFINE m == MaxHops + 1
           S == {j \in Nat : j <= m => hops[j] = hops[n]}
<1>1. m \in Nat /\ n \in Nat /\ n <= m
  BY UnpackAssumption
<1>2. n \in S
  BY <1>1
<1>3. ASSUME NEW j \in Nat, j >= n, j < m, j \in S PROVE j + 1 \in S
  <2>1. j + 1 \in 1..m /\ (j + 1) - 1 = j /\ j <= m /\ j \in 0..m
    BY <1>1, <1>3
  <2>2. hops[j] = hops[n] /\ hops[j + 1] = Hop(hops[j]) /\ hops[j] \in HopStates
    BY <1>3, <2>1 DEF Hopped
  <2>3. hops[j + 1] = hops[j]
    BY <2>2, HopIs
  <2> QED
    BY <2>2, <2>3
<1> HIDE DEF S, m
<1>4. \A j \in Nat : j >= n /\ j <= m => j \in S
  BY <1>1, <1>2, <1>3, GoesOn
<1>5. m \in S
  BY <1>1, <1>4
<1> QED
  BY <1>1, <1>5 DEF S, m

\* What a link resolves to is a plain name.
LEMMA ResolvedIsPlain ==
  ASSUME deferred \in Seq(Waiting), NEW link, link.name \in Names, link.slash \in BOOLEAN
  PROVE  Resolved(link).name \in Names
<1>1. PICK hops : /\ Resolved(link) = hops[MaxHops + 1]
                  /\ \A n \in 0..(MaxHops + 1) : hops[n] \in HopStates
  BY HopRuns
<1>2. MaxHops + 1 \in 0..(MaxHops + 1)
  BY UnpackAssumption
<1>3. Resolved(link) \in HopStates
  BY <1>1, <1>2
<1> QED
  BY <1>3 DEF HopStates

-----------------------------------------------------------------------------
(* Unpacking: the links that were put off, and their copies.               *)

\* A link is put off that a member said, that was let through, and, where this machine creates links,
\* for what is in its place or above it.
SaidToWait(k) ==
  \E n \in Done : /\ SaidKind(n) = "symlink" /\ SaidName(n) = deferred[k].name
                  /\ SaidSlash(n) = deferred[k].slash /\ SaidTarget(n) = deferred[k].target

Waits(works, t, d) ==
  /\ Len(d.name) <= MaxPath /\ TargetIsSafe(d.name, d.target)
  /\ d.slash => d.name \in DOMAIN t
  /\ works /\ ~d.slash => d.name \in DOMAIN t \/ ~IsDirectory(t, Front(d.name))

DeferredHold == \A k \in 1..Len(deferred) : SaidToWait(k) /\ Waits(linksWork, tree, deferred[k])

\* Where this machine creates no links, none is there.
NoLinks(t) == ~linksWork => \A p \in DOMAIN t : ~IsLink(t, p)

\* A copy is of the file its link resolves to.
IsFile(t, p) == p \in DOMAIN t /\ t[p].kind = "file"

CopyOf(t, name, k) ==
  /\ k < at /\ deferred[k].name = name /\ ~deferred[k].slash
  /\ Resolved(deferred[k]).found /\ IsFile(t, Resolved(deferred[k]).name)
  /\ IsFile(t, name) /\ t[name].text = t[Resolved(deferred[k]).name].text

CopiesRead ==
  \A name \in copied : /\ ~linksWork /\ \E k \in 1..Len(deferred) : CopyOf(tree, name, k)
                       /\ \A j \in 1..Len(deferred) : deferred[j].name = name => ~deferred[j].slash

CopyInv == phase \in Live => NoLinks(tree) /\ DeferredHold /\ CopiesRead

\* What a link resolves to depends only on the links that were put off.
LEMMA SameHops ==
  ASSUME deferred' = deferred, NEW link
  PROVE  Resolved(link)' = Resolved(link)
<1>1. \A s : Hop(s)' = Hop(s)
  <2>1. \A name, slash : DeferredAt(name, slash)' = DeferredAt(name, slash)
    BY DEF DeferredAt
  <2>2. ASSUME NEW s PROVE Hop(s)' = Hop(s)
    BY <2>1, Zenon DEF Hop
  <2> QED
    BY <2>2
<1> QED
  BY <1>1 DEF Resolved

\* What waits still does in a larger tree.
LEMMA StillWaits ==
  ASSUME NEW t, NEW u, Larger(t, u), NEW works, NEW d, Waits(works, t, d),
         ~d.slash => Front(d.name) \in DOMAIN t
  PROVE  Waits(works, u, d)
<1>1. \A p \in DOMAIN t : p \in DOMAIN u /\ (IsDirectory(u, p) => IsDirectory(t, p))
  BY DEF Larger, IsDirectory
<1> QED
  BY <1>1 DEF Waits

\* What is a file is the same file in a larger tree.
LEMMA StillIsFile ==
  ASSUME NEW t, NEW u, Larger(t, u), NEW p, IsFile(t, p)
  PROVE  IsFile(u, p) /\ u[p] = t[p]
BY DEF Larger, IsFile

\* A step that puts nothing off keeps what was.
LEMMA SameDeferred ==
  ASSUME UnpackInv, phase \in Live, DeferredHold, Larger(tree, tree'),
         raw' = raw, linksWork' = linksWork, deferred' = deferred, Done \subseteq Done'
  PROVE  DeferredHold'
<1>1. ASSUME NEW k \in 1..Len(deferred) PROVE SaidToWait(k)' /\ Waits(linksWork, tree, deferred[k])'
  <2>1. SaidToWait(k) /\ Waits(linksWork, tree, deferred[k])
    BY DEF DeferredHold
  <2>2. ~deferred[k].slash => Front(deferred[k].name) \in DOMAIN tree
    BY Zenon DEF UnpackInv, TreeIsSaid, DeferredAreSaid
  <2>3. Waits(linksWork, tree', deferred[k])
    BY <2>1, <2>2, StillWaits
  <2>4. PICK n \in Done : /\ SaidKind(n) = "symlink" /\ SaidName(n) = deferred[k].name
                          /\ SaidSlash(n) = deferred[k].slash /\ SaidTarget(n) = deferred[k].target
    BY <2>1 DEF SaidToWait
  <2>5. /\ SaidName(n)' = SaidName(n) /\ SaidSlash(n)' = SaidSlash(n)
        /\ SaidKind(n)' = SaidKind(n) /\ SaidTarget(n)' = SaidTarget(n)
    BY SameArchive
  <2>6. n \in Done'
    OBVIOUS
  <2>7. SaidToWait(k)'
    BY <2>4, <2>5, <2>6, Zenon DEF SaidToWait
  <2> QED
    BY <2>3, <2>7, Zenon
<1> QED
  BY <1>1, Zenon DEF DeferredHold

\* A member was read.  No link is looked at before the archive ends.
LEMMA MemberHolds ==
  ASSUME UnpackInv, CopyInv, phase = "reading", MemberIsNext, ~Refused(Next1), Counted,
         Larger(tree, tree'),
         \A p \in DOMAIN tree' \ DOMAIN tree : IsLink(tree', p) => linksWork,
         NEW more, more = [name |-> Next1.name, slash |-> Next1.slash, target |-> Next1.target],
         \/ deferred' = deferred
         \/ deferred' = Append(deferred, more) /\ Next1.kind = "symlink" /\ Waits(linksWork, tree', more)
  PROVE  CopyInv'
<1>1. UnpackTypeOK /\ TreeIsSaid /\ NoLinks(tree) /\ DeferredHold /\ CopiesRead
  BY DEF UnpackInv, CopyInv, Live
<1>2. /\ raw' = raw /\ linksWork' = linksWork /\ phase' = phase /\ at' = at /\ copied' = copied
      /\ reader' = AfterMember(Here)
  BY DEF Counted
<1>3. Done' = Done \cup {Here.at}
  BY <1>1, <1>2, ReaderMoves DEF TreeIsSaid
<1>4. NoLinks(tree)'
  BY <1>1, <1>2 DEF NoLinks, Larger, IsLink
<1>5. CopiesRead'
  <2>1. at = 1 /\ Len(deferred) \in Nat
    BY <1>1 DEF TreeIsSaid, UnpackTypeOK
  <2>2. \A k \in 1..Len(deferred) : ~(k < at)
    BY <2>1
  <2>3. copied = {}
    BY <1>1, <2>2, Zenon DEF CopiesRead, CopyOf
  <2> QED
    BY <1>2, <2>3 DEF CopiesRead
<1>6. DeferredHold'
  <2>1. CASE deferred' = deferred
    <3>1. Done \subseteq Done'
      BY <1>3
    <3> QED
      BY <1>1, <1>2, <2>1, <3>1, SameDeferred DEF Live
  <2>2. CASE deferred' = Append(deferred, more) /\ Next1.kind = "symlink" /\ Waits(linksWork, tree', more)
    <3>1. deferred \in Seq(Waiting) /\ Len(deferred) \in Nat
      BY <1>1 DEF UnpackTypeOK
    <3>2. more.name = Next1.name /\ more.slash = Next1.slash /\ more.target = Next1.target
      OBVIOUS
    <3>3. /\ Next1.name = SaidName(Here.at) /\ Next1.slash = SaidSlash(Here.at)
          /\ Next1.kind = SaidKind(Here.at) /\ Next1.target = SaidTarget(Here.at)
      BY <1>1, <2>2, MemberSays DEF TreeIsSaid
    <3> HIDE DEF Next1, Here
    <3>4. \A k \in 1..Len(deferred') : \/ k \in 1..Len(deferred) /\ deferred'[k] = deferred[k]
                                       \/ deferred'[k] = more
      BY <2>2, <3>1
    <3>5. ASSUME NEW k \in 1..Len(deferred') PROVE SaidToWait(k)' /\ Waits(linksWork', tree', deferred'[k])
      <4>1. CASE k \in 1..Len(deferred) /\ deferred'[k] = deferred[k]
        <5>1. SaidToWait(k) /\ Waits(linksWork, tree, deferred[k])
          BY <1>1, <4>1 DEF DeferredHold
        <5>2. ~deferred[k].slash => Front(deferred[k].name) \in DOMAIN tree
          BY <1>1, <4>1, Zenon DEF TreeIsSaid, DeferredAreSaid
        <5>3. Waits(linksWork, tree', deferred[k])
          BY <1>2, <5>1, <5>2, StillWaits
        <5>4. PICK n \in Done : /\ SaidKind(n) = "symlink" /\ SaidName(n) = deferred[k].name
                                /\ SaidSlash(n) = deferred[k].slash /\ SaidTarget(n) = deferred[k].target
          BY <5>1 DEF SaidToWait
        <5>5. n \in Done' /\ SaidName(n)' = SaidName(n) /\ SaidSlash(n)' = SaidSlash(n)
              /\ SaidKind(n)' = SaidKind(n) /\ SaidTarget(n)' = SaidTarget(n)
          BY <1>2, <1>3, SameArchive
        <5>6. SaidToWait(k)'
          BY <4>1, <5>4, <5>5, Zenon DEF SaidToWait
        <5> QED
          BY <1>2, <4>1, <5>3, <5>6, Zenon
      <4>2. CASE deferred'[k] = more
        <5>1. Waits(linksWork, tree', more)
          BY <1>2, <2>2 DEF Waits
        <5>2. Here.at \in Done' /\ \A n : /\ SaidName(n)' = SaidName(n) /\ SaidSlash(n)' = SaidSlash(n)
                                          /\ SaidKind(n)' = SaidKind(n) /\ SaidTarget(n)' = SaidTarget(n)
          BY <1>2, <1>3, SameArchive
        <5>3. PICK n \in Done' : /\ SaidKind(n)' = SaidKind(Here.at) /\ SaidName(n)' = SaidName(Here.at)
                                 /\ SaidSlash(n)' = SaidSlash(Here.at) /\ SaidTarget(n)' = SaidTarget(Here.at)
          BY <5>2
        <5>4. SaidToWait(k)'
          BY <2>2, <3>2, <3>3, <4>2, <5>3, Zenon DEF SaidToWait
        <5> QED
          BY <1>2, <4>2, <5>1, <5>4, Zenon
      <4> QED
        BY <3>4, <4>1, <4>2
    <3> QED
      BY <3>5, Zenon DEF DeferredHold
  <2> QED
    BY <2>1, <2>2
<1> QED
  BY <1>4, <1>5, <1>6 DEF CopyInv

\* A directory is written.
LEMMA DirectoryHolds == ASSUME UnpackInv, CopyInv, WriteDirectory, phase' \in Live PROVE CopyInv'
<1> DEFINE m == Next1
           made == MakeTree(tree, m.name)
           more == [name |-> m.name, slash |-> m.slash, target |-> m.target]
<1>1. /\ MemberIsNext /\ ~Refused(m) /\ m.kind = "directory" /\ phase = "reading"
      /\ \/ made.ok /\ tree' = made.tree /\ Counted /\ UNCHANGED <<links, deferred>>
         \/ ~made.ok /\ tree' = made.tree /\ Fail
         \/ StopsMaking(m.name)
  BY DEF WriteDirectory, MemberIsNext
<1>2. made.ok /\ tree' = made.tree /\ Counted /\ deferred' = deferred
  <2>1. phase' # "failed"
    BY DEF Live
  <2>2. ~Fail /\ ~StopsMaking(m.name)
    BY <2>1 DEF Fail, StopsMaking
  <2> QED
    BY <1>1, <2>2
<1>3. Larger(tree, made.tree) /\ \A p \in DOMAIN made.tree \ DOMAIN tree : made.tree[p] = Directory
  <2>1. m.name \in Seq(STRING) /\ m.name # <<>>
    <3>1. TreeIsSaid
      BY <1>1 DEF UnpackInv, Live
    <3> QED
      BY <1>1, <3>1, MemberIsPlain
  <2>2. Len(m.name) \in 0..Len(m.name) /\ Upper(m.name, Len(m.name)) = m.name
    BY <2>1, FrontFacts
  <2>3. made = MakeTree(tree, Upper(m.name, Len(m.name)))
    BY <2>2
  <2> HIDE DEF made
  <2> QED
    BY <1>1, <2>2, <2>3, MadeForMember
<1>4. \A p \in DOMAIN tree' \ DOMAIN tree : ~IsLink(tree', p)
  BY <1>2, <1>3 DEF IsLink, Directory
<1> HIDE DEF made
<1>5. Larger(tree, tree')
  BY <1>2, <1>3
<1>6. more = [name |-> Next1.name, slash |-> Next1.slash, target |-> Next1.target]
  OBVIOUS
<1> HIDE DEF m, more
<1> QED
  BY <1>1, <1>2, <1>4, <1>5, <1>6, MemberHolds DEF m

\* A file is written, in nobody's place: no link that waits loses what it waits for.
LEMMA FileHolds == ASSUME UnpackInv, CopyInv, WriteFile, phase' \in Live PROVE CopyInv'
<1> DEFINE m == Next1
           made == MakeTree(tree, Parents(m))
           t == made.tree
           leaf == Leaf(t, m.name)
           node == FileNode(m.text, m.size, m.exec)
           opens == made.ok /\ CanOpen(t, m.name, m.slash)
           more == [name |-> m.name, slash |-> m.slash, target |-> m.target]
<1>1. /\ MemberIsNext /\ ~Refused(m) /\ m.kind = "file" /\ phase = "reading"
      /\ IF ~opens THEN tree' = t /\ Fail
         ELSE \/ tree' = Put(t, leaf, node) /\ Counted /\ UNCHANGED <<links, deferred>>
              \/ StopsMaking(m.name)
              \/ tree' = Drop(t, leaf) /\ Fail
              \/ tree' = Put(t, leaf, FileNode(m.text, m.size, FALSE)) /\ Fail
  BY DEF WriteFile, MemberIsNext
<1>2. opens /\ tree' = Put(t, leaf, node) /\ Counted /\ deferred' = deferred
  <2>1. phase' # "failed"
    BY DEF Live
  <2>2. ~Fail /\ ~StopsMaking(m.name)
    BY <2>1 DEF Fail, StopsMaking
  <2> QED
    BY <1>1, <2>2
<1>3. /\ Larger(tree, t) /\ WellFormed(t) /\ NoLinkAbove(t, m.name)
      /\ \A p \in DOMAIN t \ DOMAIN tree : t[p] = Directory
  BY <1>1, ParentsAreMade
<1>4. leaf # Nowhere /\ (leaf \in DOMAIN t => t[leaf].kind = "file") /\ ~m.slash
  BY <1>2 DEF CanOpen
<1>5. leaf = m.name
  <2>1. Plain(m.name) /\ m.name # <<>>
    <3>1. TreeIsSaid
      BY <1>1 DEF UnpackInv, Live
    <3> QED
      BY <1>1, <3>1, MemberIsPlain
  <2> QED
    BY <1>3, <1>4, <2>1, LeafForMember
<1>6. node.kind = "file"
  BY DEF FileNode
<1>7. more = [name |-> Next1.name, slash |-> Next1.slash, target |-> Next1.target]
  OBVIOUS
<1> HIDE DEF m, made, leaf, node, opens, more
<1> HIDE DEF t
<1>8. m.name \notin DOMAIN t
  BY <1>1, <1>3, <1>4, <1>5, FileIsNew DEF m
<1>9. Larger(tree, tree') /\ \A p \in DOMAIN tree' \ DOMAIN tree : ~IsLink(tree', p)
  BY <1>2, <1>3, <1>5, <1>6, <1>8 DEF Put, Larger, IsLink, Directory
<1> QED
  BY <1>1, <1>2, <1>7, <1>9, MemberHolds DEF m

\* A link is created or put off.
LEMMA SymlinkHolds == ASSUME UnpackInv, CopyInv, WriteSymlink, phase' \in Live PROVE CopyInv'
<1> DEFINE m == Next1
           made == MakeTree(tree, Parents(m))
           t == made.tree
           leaf == Leaf(t, m.name)
           can == CanLink(t, m.name, m.slash)
           more == [name |-> m.name, slash |-> m.slash, target |-> m.target]
<1>1. /\ MemberIsNext /\ ~Refused(m) /\ m.kind = "symlink" /\ phase = "reading"
      /\ \/ ~made.ok /\ tree' = t /\ Fail
         \/ /\ made.ok /\ links' = links \cup {m.name} /\ Counted
            /\ IF can THEN tree' = Put(t, leaf, LinkTo(m.target)) /\ UNCHANGED deferred
               ELSE tree' = t /\ deferred' = Append(deferred, more)
         \/ StopsMaking(m.name)
  BY DEF WriteSymlink, MemberIsNext
<1>2. /\ made.ok /\ Counted
      /\ IF can THEN tree' = Put(t, leaf, LinkTo(m.target)) /\ deferred' = deferred
         ELSE tree' = t /\ deferred' = Append(deferred, more)
  <2>1. phase' # "failed"
    BY DEF Live
  <2>2. ~Fail /\ ~StopsMaking(m.name)
    BY <2>1 DEF Fail, StopsMaking
  <2> QED
    BY <1>1, <2>2
<1>3. /\ Larger(tree, t) /\ WellFormed(t) /\ NoLinkAbove(t, m.name)
      /\ \A p \in DOMAIN t \ DOMAIN tree : IsPrefix(p, m.name) /\ t[p] = Directory
  BY <1>1, ParentsAreMade
<1>4. TreeIsSaid
  BY <1>1 DEF UnpackInv, Live
<1>5. /\ Plain(m.name) /\ m.name # <<>> /\ m.name \in Seq(STRING) /\ m.slash \in BOOLEAN
      /\ m.slash => ~IsLink(tree, m.name)
  BY <1>1, <1>4, MemberIsPlain, MemberSays DEF TreeIsSaid
<1>6. Len(m.name) <= MaxPath /\ TargetIsSafe(m.name, m.target)
  <2>1. ~(Len(m.name) > MaxPath) /\ TargetIsSafe(m.name, m.target)
    BY <1>1, Zenon DEF Refused
  <2>2. Len(m.name) \in Nat /\ MaxPath \in Nat
    BY <1>5, UnpackAssumption
  <2> QED
    BY <2>1, <2>2
<1>7. m.slash => m.name \in DOMAIN t
  <2> SUFFICES ASSUME m.slash PROVE m.name \in DOMAIN t
    OBVIOUS
  <2>1. Len(m.name) \in 0..Len(m.name) /\ Len(m.name) > 0 /\ Upper(m.name, Len(m.name)) = m.name
    BY <1>5, FrontFacts
  <2>2. made = MakeTree(tree, Upper(m.name, Len(m.name)))
    BY <2>1 DEF Parents
  <2> HIDE DEF made
  <2>3. Upper(m.name, Len(m.name)) \in DOMAIN made.tree
    BY <1>1, <1>2, <2>1, <2>2, MadeForMember
  <2> QED
    BY <2>1, <2>3
<1>8. linksWork /\ ~m.slash /\ ~can => m.name \in DOMAIN t \/ ~IsDirectory(t, Front(m.name))
  <2> SUFFICES ASSUME linksWork, ~m.slash, ~can, IsDirectory(t, Front(m.name)) PROVE m.name \in DOMAIN t
    OBVIOUS
  <2>1. Leaf(t, m.name) = m.name
    <3>1. Len(m.name) \in Nat /\ Len(m.name) <= Fuel
      <4>1. PICK most \in 0..Fuel : MaxPath + MaxHops * most <= Fuel
        BY UnpackAssumption
      <4>2. most \in Nat /\ MaxHops \in Nat /\ MaxPath \in Nat /\ Fuel \in Nat
        BY UnpackAssumption
      <4>3. MaxHops * most \in Nat
        BY <4>2
      <4>4. MaxPath <= Fuel
        BY <4>1, <4>2, <4>3
      <4>5. Len(m.name) \in Nat
        BY <1>5
      <4> QED
        BY <1>6, <4>2, <4>4, <4>5
    <3> HIDE DEF m, t
    <3> QED
      BY <1>3, <1>5, <3>1, LeafReaches
  <2>2. m.name # Nowhere
    BY <1>5 DEF Plain, Nowhere
  <2> QED
    BY <2>1, <2>2 DEF CanLink
<1>9. CASE can
  <2>1. leaf # Nowhere /\ leaf \notin DOMAIN t /\ linksWork
    BY <1>9 DEF CanLink
  <2> HIDE DEF m, made, leaf, more, can
  <2> HIDE DEF t
  <2>2. Larger(tree, tree')
    BY <1>2, <1>3, <1>9, <2>1 DEF Put, Larger
  <2>3. more = [name |-> Next1.name, slash |-> Next1.slash, target |-> Next1.target]
    BY DEF more, m
  <2> QED
    BY <1>1, <1>2, <1>9, <2>1, <2>2, <2>3, MemberHolds DEF m
<1>10. CASE ~can
  <2>1. Larger(tree, tree') /\ \A p \in DOMAIN tree' \ DOMAIN tree : ~IsLink(tree', p)
    BY <1>2, <1>3, <1>10 DEF IsLink, Directory
  <2>2. more = [name |-> Next1.name, slash |-> Next1.slash, target |-> Next1.target]
    OBVIOUS
  <2>3. more.name = m.name /\ more.slash = m.slash /\ more.target = m.target
    OBVIOUS
  <2> HIDE DEF m, made, leaf, more, can
  <2> HIDE DEF t
  <2>4. Waits(linksWork, t, more)
    BY <1>6, <1>7, <1>8, <1>10, <2>3 DEF Waits
  <2>5. Waits(linksWork, tree', more)
    BY <1>2, <1>10, <2>4
  <2> QED
    BY <1>1, <1>2, <1>10, <2>1, <2>2, <2>5, MemberHolds DEF m
<1> QED
  BY <1>9, <1>10

\* What was copied is still a copy after a step that looks at a link or at none.
LEMMA CopiesStay ==
  ASSUME UnpackInv, phase \in Live, CopiesRead, Larger(tree, tree'), deferred' = deferred,
         linksWork' = linksWork, at' \in Nat, at <= at'
  PROVE  \A name \in copied :
           /\ ~linksWork' /\ \E k \in 1..Len(deferred') : CopyOf(tree, name, k)'
           /\ \A j \in 1..Len(deferred') : deferred'[j].name = name => ~deferred'[j].slash
<1> SUFFICES ASSUME NEW name \in copied
             PROVE  /\ ~linksWork' /\ \E k \in 1..Len(deferred') : CopyOf(tree, name, k)'
                    /\ \A j \in 1..Len(deferred') : deferred'[j].name = name => ~deferred'[j].slash
  OBVIOUS
<1>1. /\ ~linksWork /\ \E k \in 1..Len(deferred) : CopyOf(tree, name, k)
      /\ \A j \in 1..Len(deferred) : deferred[j].name = name => ~deferred[j].slash
  BY DEF CopiesRead
<1>2. PICK k \in 1..Len(deferred) : CopyOf(tree, name, k)
  BY <1>1
<1> DEFINE r == Resolved(deferred[k]).name
<1>3. at \in Nat /\ Len(deferred) \in Nat
  BY DEF UnpackInv, UnpackTypeOK
<1>4. k < at'
  <2>1. k < at
    BY <1>2 DEF CopyOf
  <2> QED
    BY <1>3, <2>1
<1>5. Resolved(deferred[k])' = Resolved(deferred[k])
  BY SameHops
<1>6. IsFile(tree', r) /\ tree'[r] = tree[r] /\ IsFile(tree', name) /\ tree'[name] = tree[name]
  BY <1>2, StillIsFile DEF CopyOf
<1>7. CopyOf(tree, name, k)'
  BY <1>2, <1>4, <1>5, <1>6 DEF CopyOf
<1> QED
  BY <1>1, <1>7

\* A link is copied: its file was in place, and no copy that was made is of its name.
LEMMA CopyHolds == ASSUME UnpackInv, CopyInv, CopyLink, phase' \in Live PROVE CopyInv'
<1> DEFINE link == deferred[at]
           r == Resolved(link).name
           source == tree[Source(link)]
           leaf == Leaf(tree, link.name)
           node == FileNode(source.text, source.size, FALSE)
           opens == CanOpen(tree, link.name, link.slash)
<1>1. /\ LinkIsNext /\ IsFile(tree, Source(link))
      /\ opens /\ tree' = Put(tree, leaf, node)
      /\ copied' = copied \cup {link.name} /\ at' = at + 1
      /\ UNCHANGED <<raw, linksWork, phase, reader, seen, links, deferred, members, unresolved>>
  <2>1. ~Fail
    BY DEF Fail, Live
  <2> QED
    BY <2>1 DEF CopyLink, CanRead, IsFile
<1>2. /\ UnpackTypeOK /\ TreeIsSaid /\ WellFormed(tree) /\ NoLinks(tree) /\ DeferredHold /\ CopiesRead
      /\ phase \in Live
  BY <1>1 DEF UnpackInv, CopyInv, TreeIsSaid, LinkIsNext, Live
<1>3. at \in Nat /\ at \in 1..Len(deferred) /\ Len(deferred) \in Nat /\ deferred \in Seq(Waiting)
  BY <1>1, <1>2 DEF UnpackTypeOK, LinkIsNext
<1>4. /\ Plain(link.name) /\ link.name # <<>> /\ ~link.slash /\ leaf = link.name
      /\ IsDirectory(tree, Front(link.name)) /\ link.name \notin DOMAIN tree
  BY <1>1, <1>2, DeferredIsNew
<1>5. ~linksWork
  BY <1>2, <1>3, <1>4 DEF DeferredHold, Waits
<1>6. node.kind = "file" /\ node.text = source.text
  BY DEF FileNode
<1>7. Resolved(link).found /\ Source(link) = r
  <2>1. Source(link) # Nowhere
    BY <1>1, <1>2 DEF WellFormed, IsFile
  <2>2. Resolved(link).found /\ Source(link) = Walk(tree, r)
    BY <2>1 DEF Source
  <2>3. link.name \in Names /\ link.slash \in BOOLEAN
    <3>1. link \in Waiting
      BY <1>3
    <3> HIDE DEF link
    <3> QED
      BY <1>4, <3>1 DEF Names, Plain, Waiting
  <2>4. Plain(r)
    <3> HIDE DEF link
    <3> QED
      BY <1>3, <2>3, ResolvedIsPlain DEF Names
  <2>5. \A n \in 1..Len(r) : ~IsLink(tree, Upper(r, n))
    BY <1>2, <1>5 DEF NoLinks, IsLink
  <2> HIDE DEF r, link
  <2> QED
    BY <2>1, <2>2, <2>4, <2>5, WalkIs
<1>8. IsFile(tree, r) /\ node.text = tree[r].text
  BY <1>1, <1>6, <1>7
<1> HIDE DEF node, leaf, opens
<1>9. /\ DOMAIN tree' = DOMAIN tree \cup {link.name} /\ tree'[link.name] = node
      /\ \A p \in DOMAIN tree : tree'[p] = tree[p]
  BY <1>1, <1>4 DEF Put
<1>10. Larger(tree, tree')
  BY <1>9 DEF Larger
<1>11. /\ raw' = raw /\ linksWork' = linksWork /\ reader' = reader /\ deferred' = deferred
  BY <1>1
<1>12. NoLinks(tree)'
  BY <1>2, <1>6, <1>9, <1>11 DEF NoLinks, IsLink
<1>13. DeferredHold'
  <2>1. Done \subseteq Done'
    BY <1>11, ReaderStays
  <2> QED
    BY <1>2, <1>10, <1>11, <2>1, SameDeferred
<1>14. CopiesRead'
  <2>1. at' \in Nat /\ at <= at' /\ at < at'
    BY <1>1, <1>3
  <2>2. \A name \in copied :
          /\ ~linksWork' /\ \E k \in 1..Len(deferred') : CopyOf(tree, name, k)'
          /\ \A j \in 1..Len(deferred') : deferred'[j].name = name => ~deferred'[j].slash
    BY <1>2, <1>10, <1>11, <2>1, CopiesStay
  <2>3. PICK k \in 1..Len(deferred) : k = at
    BY <1>3
  <2>4. PICK name \in {link.name} : TRUE
    OBVIOUS
  <2>5. deferred[k] = link /\ name = link.name
    BY <2>3, <2>4
  <2>6. Resolved(deferred[k])' = Resolved(deferred[k])
    BY <1>11, SameHops
  <2> DEFINE end == Resolved(deferred[k])
  <2>7. end.found /\ IsFile(tree, end.name) /\ tree[end.name].text = node.text
    BY <1>7, <1>8, <2>5
  <2>8. IsFile(tree', end.name) /\ tree'[end.name] = tree[end.name]
    BY <1>10, <2>7, StillIsFile
  <2>9. IsFile(tree', name) /\ tree'[name] = node
    BY <1>6, <1>9, <2>5 DEF IsFile
  <2>10. k < at' /\ deferred'[k].name = name /\ ~deferred'[k].slash
    BY <1>4, <1>11, <2>1, <2>3, <2>5
  <2>11. CopyOf(tree, name, k)'
    <3>1. end' = end
      BY <2>6
    <3>2. /\ end'.found /\ IsFile(tree', end'.name) /\ tree'[name].text = tree'[end'.name].text
      BY <2>7, <2>8, <2>9, <3>1
    <3> QED
      BY <2>9, <2>10, <3>2 DEF CopyOf
  <2>12. ASSUME NEW j \in 1..Len(deferred), deferred[j].name = name PROVE ~deferred[j].slash
    <3>1. Waits(linksWork, tree, deferred[j])
      BY <1>2 DEF DeferredHold
    <3> QED
      BY <1>4, <2>5, <2>12, <3>1 DEF Waits
  <2>13. \A other \in copied' : other \in copied \/ other = name
    BY <1>1, <2>5
  <2> HIDE DEF link, end
  <2>14. ~linksWork'
    BY <1>5, <1>11
  <2>15. \A j \in 1..Len(deferred') : deferred'[j].name = name => ~deferred'[j].slash
    BY <1>11, <2>12
  <2>16. k \in 1..Len(deferred')
    BY <1>11
  <2> QED
    BY <2>2, <2>11, <2>13, <2>14, <2>15, <2>16, Zenon DEF CopiesRead
<1> QED
  BY <1>12, <1>13, <1>14, Zenon DEF CopyInv

\* A step that writes nothing.
LEMMA NothingHolds ==
  ASSUME UnpackInv, CopyInv, phase \in Live, tree' = tree, raw' = raw, linksWork' = linksWork,
         reader' = reader, deferred' = deferred, copied' = copied, at' \in Nat, at <= at'
  PROVE  CopyInv'
<1>1. NoLinks(tree) /\ DeferredHold /\ CopiesRead
  BY DEF CopyInv
<1>2. Larger(tree, tree')
  BY DEF Larger
<1>3. NoLinks(tree)'
  BY <1>1 DEF NoLinks, IsLink
<1>4. DeferredHold'
  <2>1. Done \subseteq Done'
    BY ReaderStays
  <2> QED
    BY <1>1, <1>2, <2>1, SameDeferred
<1>5. CopiesRead'
  <2>1. \A name \in copied :
          /\ ~linksWork' /\ \E k \in 1..Len(deferred') : CopyOf(tree, name, k)'
          /\ \A j \in 1..Len(deferred') : deferred'[j].name = name => ~deferred'[j].slash
    BY <1>1, <1>2, CopiesStay
  <2> QED
    BY <2>1, Zenon DEF CopiesRead
<1> QED
  BY <1>3, <1>4, <1>5, Zenon DEF CopyInv

\* The invariant of the links that were put off is inductive, given that of the tree.
THEOREM CopyInductive == UnpackSpec => []CopyInv
<1>1. UnpackInit => CopyInv
  <2> SUFFICES ASSUME UnpackInit PROVE CopyInv
    OBVIOUS
  <2>1. Len(deferred) = 0 /\ copied = {} /\ tree = [p \in {<<>>} |-> Directory]
    BY DEF UnpackInit
  <2>2. NoLinks(tree)
    BY <2>1 DEF NoLinks, IsLink, Directory
  <2>3. DeferredHold
    BY <2>1 DEF DeferredHold
  <2>4. CopiesRead
    BY <2>1 DEF CopiesRead
  <2> QED
    BY <2>2, <2>3, <2>4 DEF CopyInv
<1>2. UnpackInv /\ CopyInv /\ [UnpackNext]_unpackVars => CopyInv'
  <2> SUFFICES ASSUME UnpackInv, CopyInv, [UnpackNext]_unpackVars, phase' \in Live PROVE CopyInv'
    BY DEF CopyInv
  <2>1. at \in Nat
    BY DEF UnpackInv, UnpackTypeOK
  <2>2. ~Fail /\ phase' # "failed"
    BY DEF Fail, Live
  <2>3. ~RefuseArchive /\ ~RefuseMember
    BY <2>2 DEF RefuseArchive, RefuseMember
  <2>4. ~RemoveTree
    BY DEF RemoveTree, Live
  <2>5. CASE Open \/ EndOfArchive \/ LinksRestored \/ UNCHANGED unpackVars
    <3>1. /\ tree' = tree /\ raw' = raw /\ linksWork' = linksWork /\ reader' = reader
          /\ deferred' = deferred /\ copied' = copied /\ at' = at
      BY <2>5 DEF Open, EndOfArchive, LinksRestored, unpackVars, locals
    <3>2. phase \in Live
      BY <2>5 DEF Open, EndOfArchive, LinksRestored, unpackVars, Live
    <3>3. at' \in Nat /\ at <= at'
      BY <2>1, <3>1
    <3> QED
      BY <3>1, <3>2, <3>3, NothingHolds
  <2>6. CASE LeaveUnresolved
    <3>1. /\ tree' = tree /\ raw' = raw /\ linksWork' = linksWork /\ reader' = reader
          /\ deferred' = deferred /\ copied' = copied /\ at' = at + 1 /\ phase \in Live
      BY <2>6 DEF LeaveUnresolved, LinkIsNext, locals, Live
    <3>2. at' \in Nat /\ at <= at'
      BY <2>1, <3>1
    <3> QED
      BY <3>1, <3>2, NothingHolds
  <2> QED
    BY <2>3, <2>4, <2>5, <2>6, DirectoryHolds, FileHolds, SymlinkHolds, CopyHolds DEF UnpackNext
<1>3. UnpackSpec => []UnpackInv
  BY UnpackInductive
<1> QED
  BY <1>1, <1>2, <1>3, PTL DEF UnpackSpec

-----------------------------------------------------------------------------
(* Unpacking: what a copy is of, and what a reader of its link reads.      *)

\* The greatest of some numbers up to n is one of them.
LEMMA GreatestIsOne ==
  ASSUME NEW n \in Nat, NEW S \in SUBSET (0..n), S # {}
  PROVE  Max(S) \in S
<1> DEFINE away == {d \in Nat : n - d \in S}
<1>1. PICK some \in S : TRUE
  OBVIOUS
<1>2. n - some \in Nat /\ n - (n - some) = some
  OBVIOUS
<1>3. n - some \in away
  BY <1>1, <1>2
<1>4. PICK d \in away : \A e \in away : d <= e
  <2> HIDE DEF away
  <2>1. away \subseteq Nat
    BY DEF away
  <2> QED
    BY <1>3, <2>1, LeastMember
<1>5. n - d \in S /\ d \in Nat
  BY <1>4
<1>6. ASSUME NEW i \in S PROVE i <= n - d
  <2>1. n - i \in Nat /\ n - (n - i) = i
    OBVIOUS
  <2>2. n - i \in away
    BY <2>1
  <2>3. d <= n - i
    BY <1>4, <2>2
  <2> QED
    BY <1>5, <2>3
<1>7. S \in SUBSET Nat
  OBVIOUS
<1> DEFINE m == n - d
<1> HIDE DEF away
<1>8. m \in S /\ \A i \in S : i <= m
  BY <1>5, <1>6
<1> HIDE DEF m
<1> QED
  BY <1>7, <1>8, MaxIs

\* No link that an archive says is longer than the longest target its headers hold.
LinksFit(most) ==
  \A n \in DOMAIN raw.entries :
    raw.entries[n].link # Missing \/ raw.entries[n].type = "symlink" => Len(raw.entries[n].link) <= most

\* Nor is a target that a member is said to have.
LEMMA TargetFits ==
  ASSUME raw \in Archives, NEW most, LinksFit(most), NEW n \in MemberEntries, SaidKind(n) = "symlink"
  PROVE  Len(SaidTarget(n)) <= most
<1> DEFINE naming == {k \in Before(n) : raw.entries[k].link # Missing}
           last == LastNaming(n, FALSE)
<1>1. n \in 1..Len(raw.entries) /\ Len(raw.entries) \in Nat /\ DOMAIN raw.entries = 1..Len(raw.entries)
  <2>1. raw.entries \in Seq({raw.entries[k] : k \in DOMAIN raw.entries})
    BY UnpackAssumption DEF AreHeaders
  <2>2. DOMAIN raw.entries = 1..Len(raw.entries) /\ Len(raw.entries) \in Nat
    BY <2>1
  <2> QED
    BY <2>2 DEF MemberEntries
<1>2. raw.entries[n].type = "symlink"
  <2>1. ZipMember(raw.entries[n]).kind # "symlink"
    BY DEF ZipMember
  <2> QED
    BY <2>1 DEF SaidKind
<1>3. last = IF naming = {} THEN n ELSE Max(naming)
  BY DEF LastNaming
<1>4. naming \in SUBSET (0..n)
  BY <1>1 DEF Before
<1>5. naming # {} => Max(naming) \in naming
  <2>1. n \in Nat
    BY <1>1
  <2> HIDE DEF naming
  <2> QED
    BY <1>4, <2>1, GreatestIsOne
<1>6. \A k \in naming : k \in DOMAIN raw.entries /\ raw.entries[k].link # Missing
  BY <1>1 DEF Before
<1> HIDE DEF naming
<1>7. last \in DOMAIN raw.entries /\ (raw.entries[last].link # Missing \/ raw.entries[last].type = "symlink")
  BY <1>1, <1>2, <1>3, <1>5, <1>6
<1> HIDE DEF last
<1>8. Len(raw.entries[last].link) <= most
  BY <1>7 DEF LinksFit
<1> QED
  BY <1>8 DEF SaidTarget, last

\* An archive that was unpacked where no link can be created, with links that could all have stood.
CouldStand ==
  /\ UnpackInv /\ CopyInv /\ phase = "done" /\ LinksCouldStand /\ ~linksWork
  /\ \A p \in DOMAIN LinkNodes : FoldsRight(LinkNodes[p].target)

\* Every link of the archive was put off, once, and there is nothing in its place but its copy.
LEMMA LinksWaited ==
  ASSUME CouldStand
  PROVE  /\ \A p : ~IsLink(tree, p)
         /\ \A p \in DOMAIN LinkNodes : p \in DOMAIN tree => IsFile(tree, p)
         /\ \A p \in DOMAIN LinkNodes : \E k \in 1..Len(deferred) : deferred[k].name = p
         /\ \A k \in 1..Len(deferred) :
              /\ ~deferred[k].slash /\ deferred[k].name \in DOMAIN LinkNodes
              /\ LinkNodes[deferred[k].name] = LinkTo(deferred[k].target)
<1>1. /\ UnpackTypeOK /\ TreeIsSaid /\ NoLinks(tree) /\ DeferredHold /\ CopiesRead /\ LinksCouldStand
  BY DEF CouldStand, UnpackInv, CopyInv, Live
<1>2. /\ LocalsAreSaid /\ MembersAreThere /\ Done = MemberEntries
  <2>1. MemberEntries \subseteq Done
    BY <1>1 DEF TreeIsSaid, CouldStand
  <2> QED
    BY <1>1, <2>1 DEF TreeIsSaid, Done
<1>3. \A p : ~IsLink(tree, p)
  BY <1>1 DEF NoLinks, IsLink, CouldStand
<1>4. DOMAIN LinkNodes = {SaidName(n) : n \in Named("symlink")}
  BY DEF LinkNodes
<1>5. \A n \in Named("symlink") : n \in Done /\ SaidKind(n) = "symlink" /\ SaidName(n) \in DOMAIN LinkNodes
  BY <1>2, <1>4 DEF Named
<1>6. ASSUME NEW p \in DOMAIN LinkNodes, p \in DOMAIN tree
      PROVE  /\ IsFile(tree, p)
             /\ \A j \in 1..Len(deferred) : deferred[j].name = p => ~deferred[j].slash
  <2>1. p \in copied
    <3>1. p \in copied \/ tree[p].kind = "symlink"
      BY <1>1, <1>6 DEF LinksCouldStand
    <3> QED
      BY <1>3, <1>6, <3>1 DEF IsLink
  <2>2. /\ \E k \in 1..Len(deferred) : CopyOf(tree, p, k)
        /\ \A j \in 1..Len(deferred) : deferred[j].name = p => ~deferred[j].slash
    BY <1>1, <2>1, Zenon DEF CopiesRead
  <2>3. IsFile(tree, p)
    BY <2>2 DEF CopyOf
  <2> QED
    BY <2>2, <2>3
<1>7. ASSUME NEW k \in 1..Len(deferred)
      PROVE  /\ \E n \in Named("symlink") : /\ SaidName(n) = deferred[k].name
                                            /\ SaidSlash(n) = deferred[k].slash
                                            /\ SaidTarget(n) = deferred[k].target
             /\ deferred[k].name \in DOMAIN LinkNodes
             /\ ~deferred[k].slash
  <2>1. SaidToWait(k) /\ Waits(linksWork, tree, deferred[k])
    BY <1>1 DEF DeferredHold
  <2>2. PICK n \in Done : /\ SaidKind(n) = "symlink" /\ SaidName(n) = deferred[k].name
                          /\ SaidSlash(n) = deferred[k].slash /\ SaidTarget(n) = deferred[k].target
    BY <2>1 DEF SaidToWait
  <2>3. n \in Named("symlink")
    BY <1>2, <2>2 DEF Named
  <2>4. deferred[k].name \in DOMAIN LinkNodes
    BY <1>5, <2>2, <2>3
  <2>5. ASSUME deferred[k].slash PROVE FALSE
    <3>1. deferred[k].name \in DOMAIN tree
      BY <2>1, <2>5 DEF Waits
    <3> QED
      BY <1>6, <2>4, <2>5, <3>1
  <2> QED
    BY <2>2, <2>3, <2>4, <2>5
<1>8. ASSUME NEW n \in Named("symlink")
      PROVE  \E k \in 1..Len(deferred) : deferred[k].name = SaidName(n) /\ SaidSlash(n) = deferred[k].slash
  <2>1. LinkIsThere(n)
    BY <1>2, <1>5 DEF MembersAreThere
  <2>2. ~(SaidName(n) \in DOMAIN tree /\ tree[SaidName(n)] = LinkTo(SaidTarget(n)))
    BY <1>3 DEF IsLink, LinkTo
  <2> QED
    BY <2>1, <2>2 DEF LinkIsThere
<1>9. ASSUME NEW k \in 1..Len(deferred)
      PROVE  LinkNodes[deferred[k].name] = LinkTo(deferred[k].target)
  <2> DEFINE p == deferred[k].name
             c == CHOOSE n \in Named("symlink") : SaidName(n) = p
  <2>1. PICK n \in Named("symlink") : /\ SaidName(n) = p /\ SaidSlash(n) = deferred[k].slash
                                      /\ SaidTarget(n) = deferred[k].target
    BY <1>7
  <2>2. c \in Named("symlink") /\ SaidName(c) = p
    BY <2>1
  <2>3. LinkNodes[p] = LinkTo(SaidTarget(c))
    BY <1>4, <1>7 DEF LinkNodes
  <2> HIDE DEF c
  <2>4. PICK j \in 1..Len(deferred) : deferred[j].name = p /\ SaidSlash(c) = deferred[j].slash
    BY <1>8, <2>2
  <2>5. ~SaidSlash(c) /\ ~SaidSlash(n)
    BY <1>7, <2>1, <2>4
  <2>6. SaidSlash(c) = SaidSlash(n)
    <3>1. SaidSlash(c) \in BOOLEAN /\ SaidSlash(n) \in BOOLEAN
      BY <1>2, <1>5, <2>2, Zenon DEF LocalsAreSaid
    <3> QED
      BY <2>5, <3>1
  <2>7. c = n
    <3>1. c \in Done /\ n \in Done
      BY <1>5, <2>2
    <3> QED
      BY <1>2, <2>1, <2>2, <2>6, <3>1, Zenon DEF LocalsAreSaid
  <2> QED
    BY <2>1, <2>3, <2>7
<1>10. ASSUME NEW p \in DOMAIN LinkNodes PROVE \E k \in 1..Len(deferred) : deferred[k].name = p
  <2>1. PICK n \in Named("symlink") : p = SaidName(n)
    BY <1>4
  <2> QED
    BY <1>8, <2>1
<1> QED
  BY <1>3, <1>6, <1>7, <1>9, <1>10

\* With its links, the tree has the directories it has, each link with its target, and no other link.
LEMMA WithLinksIs ==
  ASSUME CouldStand
  PROVE  /\ Keeps(tree, WithLinks)
         /\ \A p \in DOMAIN LinkNodes : p \in DOMAIN WithLinks /\ WithLinks[p] = LinkNodes[p]
         /\ \A p \in DOMAIN tree : p \notin DOMAIN LinkNodes => p \in DOMAIN WithLinks /\ WithLinks[p] = tree[p]
         /\ \A p \in DOMAIN LinkNodes : ~IsDirectory(tree, p) /\ IsDirectory(tree, Front(p))
<1>1. \A p \in DOMAIN LinkNodes : p \in DOMAIN tree => IsFile(tree, p)
  BY LinksWaited
<1>2. \A p \in DOMAIN LinkNodes : ~IsDirectory(tree, p)
  BY <1>1 DEF IsDirectory, IsFile
<1>3. \A p \in DOMAIN LinkNodes : p \in DOMAIN WithLinks /\ WithLinks[p] = LinkNodes[p]
  BY DEF WithLinks
<1>4. \A p \in DOMAIN tree : p \notin DOMAIN LinkNodes => p \in DOMAIN WithLinks /\ WithLinks[p] = tree[p]
  BY DEF WithLinks
<1>5. Keeps(tree, WithLinks)
  BY <1>2, <1>4 DEF Keeps, IsDirectory
<1>6. \A p \in DOMAIN LinkNodes : IsDirectory(tree, Front(p))
  BY DEF CouldStand, LinksCouldStand
<1> QED
  BY <1>2, <1>3, <1>4, <1>5, <1>6

\* A link leads, hop by hop, to the one before the last turn, which nothing waits for.
Leads(hops, last) ==
  /\ DeferredAt(hops[last].name, FALSE) = {}
  /\ \A n \in 0..(last - 1) :
       \E k \in 1..Len(deferred) :
         /\ deferred[k].name = hops[n].name
         /\ hops[n + 1].name = TargetName(Front(hops[n].name), deferred[k].target)
         /\ hops[n + 1].name # <<>>

\* A link not named with a "/" at its end that resolves to something leads there.
LEMMA HopsLead ==
  ASSUME deferred \in Seq(Waiting), NEW link, ~link.slash, link.slash \in BOOLEAN,
         NEW hops, Hopped(link, hops), \A n \in 0..(MaxHops + 1) : hops[n] \in HopStates,
         hops[MaxHops + 1].found
  PROVE  \E last \in 0..MaxHops : Leads(hops, last) /\ hops[last].name = hops[MaxHops + 1].name
<1> DEFINE m == MaxHops + 1
           S == {n \in Nat : n <= m => ~hops[n].slash}
           ends == {n \in Nat : n <= m /\ hops[n].found}
<1>1. m \in Nat /\ MaxHops \in Nat /\ m = MaxHops + 1 /\ m - 1 = MaxHops
  BY UnpackAssumption
<1>2. \A n \in Nat : n < m => n \in 0..m /\ n + 1 \in 0..m /\ n + 1 \in 1..m /\ (n + 1) - 1 = n /\ n <= m
  BY <1>1
<1>3. \A n \in 0..m : hops[n] \in HopStates
  OBVIOUS
<1>4. \A n \in Nat : n < m => hops[n + 1] = Hop(hops[n])
  BY <1>2 DEF Hopped
<1>5. hops[0] = HopStart(link)
  BY DEF Hopped
<1>6. ~hops[0].slash /\ ~hops[0].found
  BY <1>5 DEF HopStart
<1>7. hops[m].found
  OBVIOUS
<1> HIDE DEF m
<1>8. ASSUME NEW n \in Nat, n < m
      PROVE  /\ hops[n] \in HopStates /\ hops[n + 1] \in HopStates /\ hops[n + 1] = Hop(hops[n])
             /\ hops[n].found \/ hops[n].lost => hops[n + 1] = hops[n]
             /\ ~hops[n].found /\ ~hops[n].lost => Finds(hops[n]) \/ Loses(hops[n]) \/ Moves(hops[n])
  <2>1. hops[n] \in HopStates /\ hops[n + 1] \in HopStates /\ hops[n + 1] = Hop(hops[n])
    BY <1>2, <1>3, <1>4, <1>8
  <2> QED
    BY <2>1, HopIs
<1>9. ASSUME NEW n \in Nat, n < m, n \in S PROVE n + 1 \in S
  <2>1. ~hops[n].slash
    BY <1>2, <1>9
  <2>2. ~hops[n + 1].slash
    <3>1. CASE hops[n].found \/ hops[n].lost
      BY <1>8, <1>9, <2>1, <3>1
    <3>2. CASE Finds(hops[n])
      BY <1>8, <1>9, <2>1, <3>2 DEF Finds, HopStates
    <3>3. CASE Loses(hops[n])
      BY <1>8, <1>9, <2>1, <3>3 DEF Loses, HopStates
    <3>4. CASE Moves(hops[n])
      <4>1. PICK next : Hop(hops[n]) = [hops[n] EXCEPT !.name = next, !.slash = FALSE]
        BY <3>4 DEF Moves
      <4>2. hops[n] \in HopStates /\ hops[n + 1] = Hop(hops[n])
        BY <1>8, <1>9
      <4>3. hops[n + 1].slash = FALSE
        BY <4>1, <4>2 DEF HopStates
      <4> QED
        BY <4>3
    <3>5. \/ hops[n].found \/ hops[n].lost
          \/ Finds(hops[n]) \/ Loses(hops[n]) \/ Moves(hops[n])
      BY <1>8, <1>9, Zenon
    <3> QED
      BY <3>1, <3>2, <3>3, <3>4, <3>5, Zenon
  <2> QED
    BY <2>2
<1>10. \A n \in Nat : n <= m => ~hops[n].slash
  <2>1. 0 \in S
    BY <1>6
  <2> HIDE DEF S
  <2>2. \A n \in Nat : n >= 0 /\ n <= m => n \in S
    BY <1>1, <1>9, <2>1, GoesOn
  <2>3. \A n \in Nat : n >= 0
    OBVIOUS
  <2> QED
    BY <2>2, <2>3 DEF S
<1>11. PICK first \in ends : \A n \in ends : first <= n
  <2>1. ends \in SUBSET Nat /\ m \in ends
    BY <1>1, <1>7
  <2> HIDE DEF ends
  <2> QED
    BY <2>1, LeastMember
<1>12. first \in Nat /\ first <= m /\ hops[first].found /\ first # 0
  BY <1>6, <1>11
<1>13. \A n \in Nat : n < first => ~hops[n].found /\ n < m
  <2> SUFFICES ASSUME NEW n \in Nat, n < first PROVE ~hops[n].found /\ n < m
    OBVIOUS
  <2>1. n < m /\ n <= m /\ ~(first <= n)
    BY <1>1, <1>12
  <2>2. n \notin ends
    BY <1>11, <2>1
  <2> QED
    BY <2>1, <2>2
<1> HIDE DEF S, ends
<1>14. \A n \in Nat : n < first => ~hops[n].lost
  <2> SUFFICES ASSUME NEW n \in Nat, n < first, hops[n].lost PROVE FALSE
    OBVIOUS
  <2>1. n \in 0..(MaxHops + 1)
    BY <1>2, <1>13 DEF m
  <2>2. hops[MaxHops + 1] = hops[n]
    BY <2>1, HopsEnd
  <2> QED
    BY <1>13, <2>2
<1>15. ASSUME NEW n \in Nat, n < first PROVE ~Loses(hops[n])
  <2> SUFFICES ASSUME Loses(hops[n]) PROVE FALSE
    OBVIOUS
  <2>1. hops[n] \in HopStates /\ hops[n + 1] = Hop(hops[n])
    BY <1>8, <1>13, <1>15
  <2>2. hops[n + 1].lost /\ hops[n + 1].found = hops[n].found
    BY <2>1 DEF Loses, HopStates
  <2>3. ~hops[n + 1].found
    BY <1>13, <1>15, <2>2
  <2>4. n + 1 # first
    BY <1>12, <2>3
  <2>5. n + 1 \in Nat /\ n + 1 < first
    BY <1>12, <1>15, <2>4
  <2> QED
    BY <1>14, <2>2, <2>5
<1> DEFINE last == first - 1
<1>16. last \in Nat /\ last < first /\ last + 1 = first /\ last \in 0..MaxHops
  BY <1>1, <1>12
<1>17. ASSUME NEW n \in 0..(last - 1) PROVE n \in Nat /\ n < first /\ n + 1 < first /\ n + 1 \in Nat
  BY <1>16
<1> HIDE DEF last
<1>18. Finds(hops[last])
  <2>1. ~hops[last].found /\ ~hops[last].lost /\ last < m
    BY <1>13, <1>14, <1>16
  <2>2. Finds(hops[last]) \/ Moves(hops[last])
    BY <1>8, <1>15, <1>16, <2>1
  <2>3. ~Moves(hops[last])
    <3> SUFFICES ASSUME Moves(hops[last]) PROVE FALSE
      OBVIOUS
    <3>1. hops[last] \in HopStates /\ hops[last + 1] = Hop(hops[last])
      BY <1>8, <1>16, <2>1
    <3>2. hops[last + 1].found = hops[last].found
      BY <3>1 DEF Moves, HopStates
    <3> QED
      BY <1>12, <1>16, <2>1, <3>2
  <2> QED
    BY <2>2, <2>3
<1>19. hops[last].slash = FALSE
  <2>1. last < m /\ last <= m
    BY <1>2, <1>13, <1>16
  <2>2. ~hops[last].slash
    BY <1>10, <1>16, <2>1
  <2>3. hops[last].slash \in BOOLEAN
    <3>1. hops[last] \in HopStates
      BY <1>8, <1>16, <2>1
    <3> QED
      BY <3>1 DEF HopStates
  <2> QED
    BY <2>2, <2>3
<1>20. DeferredAt(hops[last].name, FALSE) = {}
  BY <1>18, <1>19 DEF Finds
<1>21. hops[last].name = hops[MaxHops + 1].name
  <2>1. hops[last] \in HopStates /\ hops[first] = Hop(hops[last])
    BY <1>8, <1>13, <1>16
  <2>2. hops[first].name = hops[last].name
    BY <1>18, <2>1 DEF Finds, HopStates
  <2>3. first \in 0..(MaxHops + 1)
    BY <1>1, <1>12
  <2>4. hops[MaxHops + 1] = hops[first]
    BY <1>12, <2>3, HopsEnd
  <2> QED
    BY <2>2, <2>4
<1>22. ASSUME NEW n \in 0..(last - 1)
       PROVE  \E k \in 1..Len(deferred) :
                /\ deferred[k].name = hops[n].name
                /\ hops[n + 1].name = TargetName(Front(hops[n].name), deferred[k].target)
                /\ hops[n + 1].name # <<>>
  <2>1. n \in Nat /\ n < first /\ n + 1 < first /\ n + 1 \in Nat
    BY <1>17
  <2>2. /\ ~hops[n].found /\ ~hops[n].lost /\ ~hops[n + 1].found /\ n < m /\ n <= m
    BY <1>2, <1>13, <1>14, <2>1
  <2>3. hops[n] \in HopStates /\ hops[n + 1] = Hop(hops[n])
    BY <1>8, <2>1, <2>2
  <2>4. ~Finds(hops[n])
    BY <2>2, <2>3 DEF Finds, HopStates
  <2>5. Moves(hops[n])
    BY <1>8, <1>15, <2>1, <2>2, <2>4
  <2>6. ~hops[n].slash
    BY <1>10, <2>1, <2>2
  <2>7. HopDir(hops[n]) = Front(hops[n].name)
    BY <2>6 DEF HopDir
  <2>8. PICK k \in DeferredAt(hops[n].name, hops[n].slash) :
          /\ TargetName(HopDir(hops[n]), deferred[k].target) # <<>>
          /\ Hop(hops[n]) = [hops[n] EXCEPT !.name = TargetName(HopDir(hops[n]), deferred[k].target),
                                            !.slash = FALSE]
    BY <2>5 DEF Moves
  <2>9. k \in 1..Len(deferred) /\ deferred[k].name = hops[n].name
    BY DEF DeferredAt
  <2>10. hops[n + 1].name = TargetName(HopDir(hops[n]), deferred[k].target)
    <3> DEFINE next == TargetName(HopDir(hops[n]), deferred[k].target)
    <3>1. hops[n + 1] = [hops[n] EXCEPT !.name = next, !.slash = FALSE]
      BY <2>3, <2>8
    <3> HIDE DEF next
    <3>2. hops[n + 1].name = next
      BY <2>3, <3>1 DEF HopStates
    <3> QED
      BY <3>2 DEF next
  <2> QED
    BY <2>7, <2>8, <2>9, <2>10
<1> QED
  BY <1>16, <1>20, <1>21, <1>22 DEF Leads

\* What is known of a link that was put off.
LEMMA DeferredIsPlain ==
  ASSUME CouldStand, NEW k \in 1..Len(deferred)
  PROVE  /\ deferred \in Seq(Waiting) /\ deferred[k].name \in Names /\ deferred[k].slash \in BOOLEAN
         /\ deferred[k].target \in Seq(STRING) /\ deferred[k].target # <<>>
         /\ StaysInside(deferred[k].name, deferred[k].target) /\ Len(deferred[k].name) <= MaxPath
         /\ FoldsRight(deferred[k].target)
<1>1. /\ UnpackTypeOK /\ TreeIsSaid /\ DeferredHold
  BY DEF CouldStand, UnpackInv, CopyInv, Live
<1>2. deferred \in Seq(Waiting) /\ deferred[k] \in Waiting
  BY <1>1 DEF UnpackTypeOK
<1>3. deferred[k].slash \in BOOLEAN /\ deferred[k].target \in Seq(STRING)
  BY <1>2 DEF Waiting
<1>4. SaidToWait(k) /\ Waits(linksWork, tree, deferred[k])
  BY <1>1 DEF DeferredHold
<1>5. PICK n \in Done : SaidName(n) = deferred[k].name
  BY <1>4 DEF SaidToWait
<1>6. Plain(deferred[k].name) /\ deferred[k].name # <<>>
  BY <1>1, <1>5 DEF TreeIsSaid, LocalsAreSaid
<1>7. deferred[k].name \in Names
  BY <1>6 DEF Names, Plain
<1>8. /\ Len(deferred[k].name) <= MaxPath /\ deferred[k].target # <<>>
      /\ StaysInside(deferred[k].name, deferred[k].target)
  BY <1>4 DEF Waits, TargetIsSafe
<1>9. FoldsRight(deferred[k].target)
  <2>1. deferred[k].name \in DOMAIN LinkNodes /\ LinkNodes[deferred[k].name] = LinkTo(deferred[k].target)
    BY LinksWaited
  <2>2. FoldsRight(LinkNodes[deferred[k].name].target)
    BY <2>1 DEF CouldStand
  <2>3. LinkTo(deferred[k].target).target = deferred[k].target
    BY DEF LinkTo
  <2> QED
    BY <2>1, <2>2, <2>3
<1> QED
  BY <1>2, <1>3, <1>7, <1>8, <1>9

\* A target that was put off is no longer than the longest.
LEMMA DeferredFits ==
  ASSUME CouldStand, NEW most, LinksFit(most), NEW k \in 1..Len(deferred)
  PROVE  Len(deferred[k].target) <= most
<1>1. raw \in Archives /\ DeferredHold
  BY DEF CouldStand, UnpackInv, UnpackTypeOK, CopyInv, Live
<1>2. SaidToWait(k)
  BY <1>1 DEF DeferredHold
<1>3. PICK n \in Done : SaidKind(n) = "symlink" /\ SaidTarget(n) = deferred[k].target
  BY <1>2 DEF SaidToWait
<1>4. n \in MemberEntries
  BY DEF Done
<1> QED
  BY <1>1, <1>3, <1>4, TargetFits

\* One hop of a reader: from the last name of a link to the last name its target is folded to.
LEMMA ReaderHops ==
  ASSUME CouldStand, NEW start, NEW turns, Walked(WithLinks, start, turns),
         NEW k \in 1..Len(deferred), NEW next, next = TargetName(Front(deferred[k].name), deferred[k].target),
         next # <<>>, ~IsDirectory(tree, next), IsDirectory(tree, Front(next)),
         NEW s \in Nat, s + Len(deferred[k].target) <= Fuel, turns[s] = Sits(deferred[k].name)
  PROVE  turns[s + Len(deferred[k].target)] = Sits(next)
<1> DEFINE name == deferred[k].name
           target == deferred[k].target
           w == WithLinks
<1>1. /\ Plain(name) /\ name # <<>> /\ target \in Seq(STRING) /\ target # <<>>
      /\ StaysInside(name, target) /\ FoldsRight(target)
  BY DeferredIsPlain DEF Names
<1>2. name \in DOMAIN LinkNodes /\ LinkNodes[name] = LinkTo(target)
  BY LinksWaited
<1>3. Keeps(tree, w) /\ name \in DOMAIN w /\ w[name] = LinkTo(target) /\ IsDirectory(tree, Front(name))
  BY <1>2, WithLinksIs
<1>4. IsLink(w, name) /\ w[name].target = target
  BY <1>3 DEF IsLink, LinkTo
<1>5. WellFormed(tree)
  BY DEF CouldStand, UnpackInv, TreeIsSaid, Live
<1> HIDE DEF name, target, w
<1>6. /\ Walked(w, start, turns) /\ next = TargetName(Front(name), target)
      /\ s + Len(target) <= Fuel /\ turns[s] = Sits(name)
  BY DEF name, target, w
<1>7. turns[s + Len(target)] = Sits(next)
  BY <1>1, <1>3, <1>4, <1>5, <1>6, WalkHops
<1> QED
  BY <1>7 DEF target

\* Numbers of turns, at most so many for each target.
LEMMA TimesFacts ==
  ASSUME NEW n \in Nat, NEW most \in Nat
  PROVE  n * most \in Nat /\ (n + 1) * most = n * most + most /\ 0 * most = 0
OBVIOUS

\* More targets, no fewer turns.
LEMMA TimesGrows ==
  ASSUME NEW n \in Nat, NEW most \in Nat, NEW m \in Nat, n <= m
  PROVE  n * most <= m * most
<1>1. m - n \in Nat /\ m = n + (m - n)
  OBVIOUS
<1>2. PICK d \in Nat : m = n + d
  BY <1>1
<1>3. (n + d) * most = n * most + d * most
  OBVIOUS
<1>4. n * most \in Nat /\ d * most \in Nat
  BY TimesFacts
<1> DEFINE a == n * most
           b == d * most
           c == m * most
<1>5. c = a + b /\ a \in Nat /\ b \in Nat
  BY <1>2, <1>3, <1>4
<1> HIDE DEF a, b, c
<1>6. a <= c
  BY <1>5
<1> QED
  BY <1>6 DEF a, c

\* A reader of the first name comes, by at most n targets, to the last name of that at hop n.
Comes(turns, hops, most, n) ==
  \E s \in Nat : s + 1 <= MaxPath + n * most /\ turns[s] = Sits(hops[n].name)

\* A reader of a link comes to the file the link resolves to, which no link stands in the place of.
LEMMA ReaderComes ==
  ASSUME CouldStand, NEW k \in 1..Len(deferred),
         NEW hops, NEW last \in 0..MaxHops, Leads(hops, last),
         \A n \in 0..last : hops[n].name \in Names, hops[0].name = deferred[k].name,
         IsFile(tree, hops[last].name),
         NEW most \in Nat, MaxPath + MaxHops * most <= Fuel, LinksFit(most)
  PROVE  /\ Walk(WithLinks, deferred[k].name) = hops[last].name
         /\ hops[last].name \notin DOMAIN LinkNodes
<1> DEFINE name == deferred[k].name
           r == hops[last].name
           w == WithLinks
<1>1. PICK turns : /\ Walked(w, name, turns)
                   /\ Walk(w, name) = IF turns[Fuel].todo = <<>> THEN turns[Fuel].at ELSE Nowhere
  BY WalkRuns
<1>2. MaxPath \in Nat /\ MaxHops \in Nat /\ Fuel \in Nat /\ last \in Nat /\ last <= MaxHops
  BY UnpackAssumption
<1>3. WellFormed(tree)
  BY DEF CouldStand, UnpackInv, TreeIsSaid, Live
<1>4. Keeps(tree, w)
  BY WithLinksIs
<1>5. r \notin DOMAIN LinkNodes
  <2> SUFFICES ASSUME r \in DOMAIN LinkNodes PROVE FALSE
    OBVIOUS
  <2>1. PICK j \in 1..Len(deferred) : deferred[j].name = r
    BY LinksWaited
  <2>2. ~deferred[j].slash /\ deferred[j].slash \in BOOLEAN
    BY LinksWaited, DeferredIsPlain
  <2>3. j \in DeferredAt(r, FALSE)
    BY <2>1, <2>2 DEF DeferredAt
  <2> QED
    BY <2>3 DEF Leads
<1>6. r \in Names /\ ~IsDirectory(tree, r) /\ IsDirectory(tree, Front(r))
  <2>1. r \in Names
    BY <1>2
  <2>2. r \in DOMAIN tree /\ tree[r].kind = "file" /\ r # <<>>
    BY <2>1 DEF IsFile, Names
  <2>3. ~IsDirectory(tree, r)
    BY <2>2 DEF IsDirectory
  <2>4. IsDirectory(tree, Front(r))
    <3> HIDE DEF r
    <3> QED
      BY <1>3, <2>2 DEF WellFormed
  <2> QED
    BY <2>1, <2>3, <2>4
<1>7. ASSUME NEW n \in 0..(last - 1)
      PROVE  /\ hops[n + 1].name # <<>> /\ ~IsDirectory(tree, hops[n + 1].name)
             /\ IsDirectory(tree, Front(hops[n + 1].name))
  <2>1. hops[n + 1].name # <<>>
    BY DEF Leads
  <2>2. CASE n + 1 = last
    BY <1>6, <2>1, <2>2
  <2>3. CASE n + 1 # last
    <3>1. n + 1 \in 0..(last - 1)
      BY <1>2, <2>3
    <3>2. PICK j \in 1..Len(deferred) : deferred[j].name = hops[n + 1].name
      BY <3>1 DEF Leads
    <3>3. deferred[j].name \in DOMAIN LinkNodes
      BY LinksWaited
    <3> QED
      BY <2>1, <3>2, <3>3, WithLinksIs
  <2> QED
    BY <2>2, <2>3
<1> DEFINE S == {n \in Nat : n <= last => Comes(turns, hops, most, n)}
<1>8. 0 \in S
  <2>1. name \in Names /\ Len(name) <= MaxPath
    BY DeferredIsPlain
  <2>2. Plain(name) /\ name # <<>> /\ name \in Seq(STRING) /\ Len(name) \in Nat /\ Len(name) # 0
    BY <2>1 DEF Names, Plain
  <2>3. IsDirectory(tree, Front(name))
    BY LinksWaited, WithLinksIs
  <2>4. MaxHops * most \in Nat
    BY <1>2, TimesFacts
  <2> DEFINE s == Len(name) - 1
             room == MaxHops * most
  <2>5. s \in Nat /\ s + 1 <= MaxPath
    BY <1>2, <2>1, <2>2
  <2>6. MaxPath + room <= Fuel /\ room \in Nat
    BY <2>4
  <2> HIDE DEF room
  <2>7. s <= Fuel
    <3> HIDE DEF s
    <3> QED
      BY <1>2, <2>5, <2>6
  <2>8. turns[s] = Sits(name)
    <3> HIDE DEF name, w
    <3> QED
      BY <1>1, <1>3, <1>4, <2>2, <2>3, <2>7, NameIsReached
  <2>9. s + 1 <= MaxPath + 0 * most
    <3>1. 0 * most = 0
      OBVIOUS
    <3> HIDE DEF s
    <3> QED
      BY <1>2, <2>5, <3>1
  <2>10. name = hops[0].name
    OBVIOUS
  <2> HIDE DEF s, name
  <2>11. Comes(turns, hops, most, 0)
    BY <2>5, <2>8, <2>9, <2>10 DEF Comes
  <2> QED
    BY <2>11
<1>9. ASSUME NEW n \in Nat, n < last, n \in S PROVE n + 1 \in S
  <2>1. n \in 0..(last - 1) /\ n <= last /\ n + 1 <= MaxHops
    BY <1>2, <1>9
  <2>2. PICK s \in Nat : s + 1 <= MaxPath + n * most /\ turns[s] = Sits(hops[n].name)
    BY <1>9, <2>1 DEF Comes
  <2>3. PICK j \in 1..Len(deferred) :
          /\ deferred[j].name = hops[n].name
          /\ hops[n + 1].name = TargetName(Front(hops[n].name), deferred[j].target)
    BY <2>1 DEF Leads
  <2> DEFINE long == Len(deferred[j].target)
             now == n * most
             then == (n + 1) * most
             room == MaxHops * most
  <2>4. long \in Nat /\ long <= most
    <3>1. deferred[j].target \in Seq(STRING)
      BY DeferredIsPlain
    <3> QED
      BY <3>1, DeferredFits
  <2>5. now \in Nat /\ then = now + most /\ room \in Nat /\ then <= room
    <3>1. now \in Nat /\ then = now + most /\ room \in Nat
      BY <1>2, TimesFacts
    <3>2. then <= room
      BY <1>2, <2>1, TimesGrows
    <3> QED
      BY <3>1, <3>2
  <2>6. MaxPath + room <= Fuel /\ s + 1 <= MaxPath + now
    BY <2>2
  <2> HIDE DEF long, now, then, room
  <2>7. s + long \in Nat /\ s + long + 1 <= MaxPath + then /\ s + long <= Fuel
    BY <1>2, <2>4, <2>5, <2>6
  <2>8. turns[s + long] = Sits(hops[n + 1].name)
    <3>1. turns[s] = Sits(deferred[j].name)
      BY <2>2, <2>3
    <3>2. hops[n + 1].name = TargetName(Front(deferred[j].name), deferred[j].target)
      BY <2>3
    <3>3. /\ hops[n + 1].name # <<>> /\ ~IsDirectory(tree, hops[n + 1].name)
          /\ IsDirectory(tree, Front(hops[n + 1].name))
      BY <1>7, <2>1
    <3>4. s + Len(deferred[j].target) <= Fuel
      BY <2>7 DEF long
    <3>5. Walked(WithLinks, name, turns)
      BY <1>1
    <3> HIDE DEF name, w
    <3>6. turns[s + Len(deferred[j].target)] = Sits(hops[n + 1].name)
      BY <3>1, <3>2, <3>3, <3>4, <3>5, ReaderHops
    <3> QED
      BY <3>6 DEF long
  <2>9. s + long + 1 <= MaxPath + (n + 1) * most
    BY <2>7 DEF then
  <2>10. Comes(turns, hops, most, n + 1)
    <3> DEFINE end == s + long
    <3>1. end \in Nat /\ end + 1 <= MaxPath + (n + 1) * most /\ turns[end] = Sits(hops[n + 1].name)
      BY <2>7, <2>8, <2>9
    <3> HIDE DEF end
    <3> QED
      BY <3>1 DEF Comes
  <2> QED
    BY <2>10
<1>10. Comes(turns, hops, most, last)
  <2> HIDE DEF S
  <2>1. \A n \in Nat : n >= 0 /\ n <= last => n \in S
    BY <1>2, <1>8, <1>9, GoesOn
  <2>2. last \in S
    BY <1>2, <2>1
  <2> QED
    BY <1>2, <2>2 DEF S
<1>11. PICK s \in Nat : s + 1 <= MaxPath + last * most /\ turns[s] = Sits(r)
  BY <1>10 DEF Comes
<1> DEFINE now == last * most
           room == MaxHops * most
<1>12. s + 1 <= Fuel
  <2>1. now \in Nat /\ room \in Nat /\ now <= room
    BY <1>2, TimesFacts, TimesGrows
  <2>2. MaxPath + room <= Fuel /\ s + 1 <= MaxPath + now
    BY <1>11
  <2> HIDE DEF now, room
  <2> QED
    BY <1>2, <2>1, <2>2
<1>13. r \in DOMAIN w /\ w[r] = tree[r] /\ IsDirectory(w, Front(r))
  <2>1. r \in DOMAIN tree
    BY DEF IsFile
  <2>2. r \in DOMAIN w /\ w[r] = tree[r]
    <3> HIDE DEF r
    <3> QED
      BY <1>5, <2>1, WithLinksIs
  <2> QED
    BY <1>4, <1>6, <2>2 DEF Keeps
<1>14. ~IsLink(w, r)
  BY <1>13 DEF IsLink, IsFile
<1>15. Walk(w, name) = r
  <2>1. Plain(r) /\ r # <<>>
    BY <1>6 DEF Names
  <2> HIDE DEF r, name, w
  <2> QED
    BY <1>1, <1>11, <1>12, <1>13, <1>14, <2>1, WalkLands
<1> QED
  BY <1>5, <1>15

\* Wherever every link could have stood, and folds as it leads, whoever opens a link that was copied
\* reads what the link would have led to, through as many links as the system follows.
THEOREM UnpackCopiesReadTheSame == UnpackSpec => []CopiesReadTheSame
<1>1. ASSUME UnpackInv, CopyInv, phase = "done", LinksCouldStand,
             \A p \in DOMAIN LinkNodes : FoldsRight(LinkNodes[p].target), NEW name \in copied
      PROVE  LET there == Walk(WithLinks, name)
             IN there \in DOMAIN tree /\ tree[name].text = WithLinks[there].text
  <2>1. CopiesRead /\ ~linksWork
    BY <1>1 DEF CopyInv, CopiesRead, Live
  <2>2. CouldStand
    BY <1>1, <2>1 DEF CouldStand
  <2>3. PICK k \in 1..Len(deferred) : CopyOf(tree, name, k)
    BY <2>1 DEF CopiesRead
  <2> DEFINE link == deferred[k]
             m == MaxHops + 1
  <2>4. /\ link.name = name /\ ~link.slash /\ Resolved(link).found /\ IsFile(tree, Resolved(link).name)
        /\ tree[name].text = tree[Resolved(link).name].text
    BY <2>3 DEF CopyOf
  <2>5. deferred \in Seq(Waiting) /\ link.name \in Names /\ link.slash \in BOOLEAN
    BY <2>2, DeferredIsPlain
  <2> HIDE DEF link
  <2>6. PICK hops : /\ Hopped(link, hops) /\ Resolved(link) = hops[MaxHops + 1]
                    /\ \A n \in 0..(MaxHops + 1) : hops[n] \in HopStates
    BY <2>5, HopRuns
  <2>7. PICK last \in 0..MaxHops : Leads(hops, last) /\ hops[last].name = hops[MaxHops + 1].name
    BY <2>4, <2>5, <2>6, HopsLead
  <2>8. hops[last].name = Resolved(link).name /\ IsFile(tree, hops[last].name)
    BY <2>4, <2>6, <2>7
  <2>9. \A n \in 0..last : hops[n].name \in Names
    <3>1. \A n \in 0..last : n \in 0..(MaxHops + 1)
      BY UnpackAssumption
    <3>2. \A n \in 0..last : hops[n] \in HopStates
      BY <2>6, <3>1
    <3> QED
      BY <3>2 DEF HopStates
  <2>10. hops[0].name = deferred[k].name
    BY <2>6 DEF Hopped, HopStart, link
  <2>11. PICK most \in 0..Fuel :
           /\ MaxPath + MaxHops * most <= Fuel
           /\ \A some \in Archives : \A n \in DOMAIN some.entries :
                some.entries[n].link # Missing \/ some.entries[n].type = "symlink" =>
                  Len(some.entries[n].link) <= most
    BY UnpackAssumption
  <2>12. LinksFit(most) /\ most \in Nat
    <3>1. raw \in Archives /\ Fuel \in Nat
      BY <1>1, UnpackAssumption DEF UnpackInv, UnpackTypeOK
    <3> QED
      BY <2>11, <3>1 DEF LinksFit
  <2>13. Walk(WithLinks, deferred[k].name) = hops[last].name /\ hops[last].name \notin DOMAIN LinkNodes
    BY <2>2, <2>7, <2>8, <2>9, <2>10, <2>11, <2>12, ReaderComes
  <2> DEFINE r == hops[last].name
  <2>14. Walk(WithLinks, name) = r /\ r \notin DOMAIN LinkNodes
    BY <2>4, <2>13 DEF link
  <2>15. r \in DOMAIN tree /\ tree[name].text = tree[r].text
    BY <2>4, <2>8 DEF IsFile
  <2> HIDE DEF r
  <2>16. WithLinks[r] = tree[r]
    BY <2>2, <2>14, <2>15, WithLinksIs
  <2> QED
    BY <2>14, <2>15, <2>16
<1>2. UnpackInv /\ CopyInv => CopiesReadTheSame
  BY <1>1, Zenon DEF CopiesReadTheSame
<1> QED
  BY <1>2, UnpackInductive, CopyInductive, PTL
=============================================================================
