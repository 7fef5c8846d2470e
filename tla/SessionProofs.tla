--------------------------- MODULE SessionProofs ----------------------------
(***************************************************************************)
(* Proofs about Session and Modules, for every manifest, whatever its      *)
(* chunks declare and require, and for every limit.                        *)
(***************************************************************************)
EXTENDS Session, SequenceTheorems, TLAPS

-----------------------------------------------------------------------------
(* Modules: the inductive invariant. The texts that run are nested: each   *)
(* is of the artifact that was entered last, and the owners are the        *)
(* libraries entered so far, none of which is the plugin itself.           *)

\* Whose module answers, under the slot it is kept in.
Giver(slot) == IF slot.owner = NoView THEN chunk ELSE slot.owner

\* What a require of this asker may be answered with.
Meant(asker, alias, name, giver) ==
  /\ alias = Bare => giver = asker
  /\ alias # Bare =>
       LET requires == IF asker = chunk THEN bound ELSE Declared[asker].requires
       IN  /\ alias \in DOMAIN requires
           /\ giver = ViewOf(requires[alias])
           /\ name \in Declared[giver].exports

LibrariesApart ==
  /\ Targets(bound) \subseteq Views /\ chunk \notin Libraries(bound)
  /\ \A k \in DOMAIN owners : owners[k] \in Libraries(bound)

KeptOnce ==
  \A j, k \in DOMAIN kept :
    kept[j].owner = kept[k].owner /\ kept[j].name = kept[k].name => j = k

\* depth says how many libraries had been entered when each call began.
NestedIn(depth, run, entered, own) ==
  /\ depth[0] = 0 /\ depth[Len(run)] = Len(entered)
  /\ \A j, k \in 0..Len(run) : j <= k => depth[j] <= depth[k]
  /\ \A k \in 1..Len(run) :
       /\ depth[k] = depth[k - 1] + (IF run[k].across THEN 1 ELSE 0)
       /\ run[k].text = IF depth[k] = 0 THEN own ELSE entered[depth[k]]
       /\ run[k].library <=> depth[k] # 0
Nested ==
  \E depth \in [0..Len(calls) -> 0..Len(owners)] : NestedIn(depth, calls, owners, chunk)

CallsMeant ==
  \A k \in DOMAIN calls :
    /\ calls[k].slot \in DOMAIN kept
    /\ Meant(calls[k].asker, calls[k].alias, kept[calls[k].slot].name,
             Giver(kept[calls[k].slot]))

ModulesInv == /\ ModulesOK
              /\ LibrariesApart
              /\ KeptOnce
              /\ Nested
              /\ CallsMeant
              /\ RequiresReachTheirOwn

\* What a chunk can come to run is among the views, holds what it requires and
\* what each of them requires.
LEMMA LibrariesFacts ==
  ASSUME NEW requires, Targets(requires) \subseteq Views
  PROVE  /\ Libraries(requires) \subseteq Views
         /\ Targets(requires) \subseteq Libraries(requires)
         /\ Closed(Libraries(requires))
<1>1. Libraries(requires) \subseteq Views /\ Targets(requires) \subseteq Libraries(requires)
  BY DEF Libraries
<1>2. ASSUME NEW view \in Libraries(requires)
      PROVE  Targets(Declared[view].requires) \subseteq Libraries(requires)
  <2>1. Targets(Declared[view].requires) \subseteq Views
    BY <1>1, ModulesAssumption
  <2>2. ASSUME NEW views \in SUBSET Views, Targets(requires) \subseteq views, Closed(views)
        PROVE  Targets(Declared[view].requires) \subseteq views
    BY <2>2 DEF Libraries, Closed
  <2> QED
    BY <2>1, <2>2 DEF Libraries
<1> QED
  BY <1>1, <1>2 DEF Closed

\* The text that runs is of whoever is asking, and may use what that requires.
LEMMA AskingFacts ==
  ASSUME ModulesInv, chunk \in Views
  PROVE  /\ Asking \in Views /\ Owner \in Views \cup {NoView}
         /\ Running = Asking
         /\ InLibrary <=> Owner # NoView
         /\ Owner # NoView <=> Len(owners) # 0
         /\ Asking = chunk <=> Owner = NoView
         /\ Bindings(Asking) = IF Asking = chunk THEN bound ELSE Declared[Asking].requires
         /\ Targets(Bindings(Asking)) \subseteq Libraries(bound)
         /\ Libraries(bound) \subseteq Views
<1>1. /\ calls \in Seq(Call) /\ owners \in Seq(Views)
      /\ Len(calls) \in Nat /\ Len(owners) \in Nat
  BY DEF ModulesInv, ModulesOK
<1>2. /\ Libraries(bound) \subseteq Views /\ Targets(bound) \subseteq Libraries(bound)
      /\ Closed(Libraries(bound))
      /\ chunk \notin Libraries(bound)
      /\ \A k \in DOMAIN owners : owners[k] \in Libraries(bound)
  BY LibrariesFacts DEF ModulesInv, LibrariesApart
<1>3. NoView \notin Views
  BY ModulesAssumption
<1>4. IF Len(owners) = 0 THEN Owner = NoView
                         ELSE Owner = owners[Len(owners)] /\ Owner \in Libraries(bound)
  BY <1>1, <1>2 DEF Owner
<1>5. /\ Owner # NoView <=> Len(owners) # 0
      /\ Asking = IF Owner = NoView THEN chunk ELSE Owner
  BY <1>2, <1>3, <1>4 DEF Asking
<1>6. Running = Asking /\ (InLibrary <=> Owner # NoView)
  <2> PICK depth \in [0..Len(calls) -> 0..Len(owners)] : NestedIn(depth, calls, owners, chunk)
    BY DEF ModulesInv, Nested
  <2>1. depth[0] = 0 /\ depth[Len(calls)] = Len(owners)
    BY DEF NestedIn
  <2>2. CASE calls = <<>>
    <3>1. Len(owners) = 0
      BY <2>1, <2>2
    <3> QED
      BY <1>5, <2>2, <3>1 DEF Running, InLibrary
  <2>3. CASE calls # <<>>
    <3>1. Len(calls) \in 1..Len(calls)
      BY <1>1, <2>3
    <3>2. /\ calls[Len(calls)].text = IF Len(owners) = 0 THEN chunk ELSE owners[Len(owners)]
          /\ calls[Len(calls)].library <=> Len(owners) # 0
      BY <2>1, <3>1 DEF NestedIn
    <3> QED
      BY <1>4, <1>5, <2>3, <3>2 DEF Running, InLibrary, Innermost
  <2> QED
    BY <2>2, <2>3
<1>7. Asking = chunk <=> Owner = NoView
  BY <1>2, <1>4, <1>5
<1>8. Bindings(Asking) = IF Asking = chunk THEN bound ELSE Declared[Asking].requires
  BY <1>7 DEF Bindings
<1>9. Targets(Bindings(Asking)) \subseteq Libraries(bound)
  BY <1>2, <1>4, <1>5, <1>7, <1>8 DEF Closed
<1> QED
  BY <1>2, <1>4, <1>5, <1>6, <1>7, <1>8, <1>9

\* A library is entered.
EnteredFor(text) == /\ owners' = Append(owners, text) /\ Len(owners) < MaxDepth
                    /\ text \in Libraries(bound)

\* A module starts, for the artifact that asks or for a library that is entered.
LEMMA RunsInv ==
  ASSUME ModulesInv, chunk \in Views,
         NEW owner \in Views \cup {NoView}, NEW alias \in Aliases \cup {Bare}, NEW name \in Names,
         NEW text \in Views, NEW library \in BOOLEAN, NEW across \in BOOLEAN,
         Runs(owner, alias, name, text, library, across),
         \/ across /\ library /\ EnteredFor(text)
         \/ ~across /\ (library <=> Owner # NoView) /\ text = Asking /\ owners' = owners,
         Meant(Running, alias, name, IF owner = NoView THEN chunk ELSE owner)
  PROVE  ModulesInv'
<1> DEFINE slot == [owner |-> owner, name |-> name, running |-> TRUE]
           done == [text |-> text, library |-> library, slot |-> Len(kept) + 1,
                    across |-> across, asker |-> Running, alias |-> alias]
<1>1. /\ kept' = Append(kept, slot) /\ calls' = Append(calls, done)
      /\ UNCHANGED <<chunk, bound, given>>
      /\ KeptAs(owner, name) = {} /\ Len(kept) < MaxModules
  BY DEF Runs
<1>2. /\ kept \in Seq(Slot) /\ owners \in Seq(Views) /\ calls \in Seq(Call)
      /\ Len(kept) \in Nat /\ Len(owners) \in Nat /\ Len(calls) \in Nat
      /\ MaxModules \in Nat /\ MaxDepth \in Nat /\ Len(owners) <= MaxDepth
  BY ModulesAssumption DEF ModulesInv, ModulesOK
<1>3. Running = Asking /\ Running \in Views /\ (Owner # NoView <=> Len(owners) # 0)
  BY AskingFacts
<1>4. /\ Len(owners') \in Nat /\ \A k \in 1..Len(owners) : owners'[k] = owners[k]
      /\ owners' \in Seq(Views) /\ Len(owners') <= MaxDepth
      /\ \A k \in DOMAIN owners' : owners'[k] \in Libraries(bound)
      /\ across => Len(owners') = Len(owners) + 1 /\ owners'[Len(owners')] = text
      /\ ~across => owners' = owners
  <2>1. EnteredFor(text) => /\ owners' = Append(owners, text) /\ Len(owners) < MaxDepth
                            /\ text \in Libraries(bound)
    BY DEF EnteredFor
  <2>2. \A k \in DOMAIN owners : owners[k] \in Libraries(bound)
    BY DEF ModulesInv, LibrariesApart
  <2>3. CASE across
    <3>1. /\ owners' = Append(owners, text) /\ Len(owners) < MaxDepth
          /\ text \in Libraries(bound)
      BY <2>1, <2>3
    <3>2. /\ Len(owners') \in Nat /\ \A k \in 1..Len(owners) : owners'[k] = owners[k]
          /\ owners' \in Seq(Views) /\ Len(owners') <= MaxDepth
          /\ Len(owners') = Len(owners) + 1 /\ owners'[Len(owners')] = text
      BY <1>2, <3>1
    <3>3. \A k \in DOMAIN owners' : owners'[k] \in Libraries(bound)
      BY <1>2, <2>2, <3>1
    <3> QED
      BY <2>3, <3>2, <3>3, Zenon
  <2>4. CASE ~across
    <3>1. owners' = owners
      BY <2>4
    <3> QED
      BY <1>2, <2>2, <2>4, <3>1
  <2> QED
    BY <2>3, <2>4
<1>5. ModulesOK'
  <2>1. slot \in Slot
    BY DEF Slot
  <2>2. Len(kept) + 1 \in 1..MaxModules
    BY <1>1, <1>2
  <2>3. done \in Call
    BY <1>3, <2>2 DEF Call
  <2>4. kept' \in Seq(Slot) /\ Len(kept') <= MaxModules
    BY <1>1, <1>2, <2>1, <2>2
  <2>5. calls' \in Seq(Call)
    BY <1>1, <1>2, <2>3
  <2> QED
    BY <1>1, <1>4, <2>4, <2>5 DEF ModulesInv, ModulesOK
<1>6. LibrariesApart'
  BY <1>1, <1>4 DEF ModulesInv, LibrariesApart
<1>7. KeptOnce'
  <2>1. \A k \in DOMAIN kept : ~(kept[k].owner = owner /\ kept[k].name = name)
    BY <1>1 DEF KeptAs
  <2>2. \A k \in DOMAIN kept' : \/ k \in DOMAIN kept /\ kept'[k] = kept[k]
                                \/ k = Len(kept) + 1 /\ kept'[k] = slot
    BY <1>1, <1>2
  <2> QED
    BY <2>1, <2>2 DEF ModulesInv, KeptOnce
<1>8. Nested'
  <2> PICK depth \in [0..Len(calls) -> 0..Len(owners)] : NestedIn(depth, calls, owners, chunk)
    BY DEF ModulesInv, Nested
  <2> DEFINE n == Len(calls)
             deeper == [k \in 0..n + 1 |-> IF k <= n THEN depth[k] ELSE Len(owners')]
  <2>1. /\ depth[0] = 0 /\ depth[n] = Len(owners)
        /\ \A j, k \in 0..n : j <= k => depth[j] <= depth[k]
        /\ \A k \in 1..n :
             /\ depth[k] = depth[k - 1] + (IF calls[k].across THEN 1 ELSE 0)
             /\ calls[k].text = IF depth[k] = 0 THEN chunk ELSE owners[depth[k]]
             /\ calls[k].library <=> depth[k] # 0
    BY DEF NestedIn
  <2>2. /\ Len(calls') = n + 1 /\ calls'[n + 1] = done /\ \A k \in 1..n : calls'[k] = calls[k]
        /\ n \in Nat
    BY <1>1, <1>2
  <2>3. /\ Len(owners') \in Nat /\ Len(owners') = Len(owners) + (IF across THEN 1 ELSE 0)
        /\ \A k \in 1..Len(owners) : owners'[k] = owners[k]
        /\ across => owners'[Len(owners')] = text
    BY <1>2, <1>4
  <2>4. \A k \in 0..n : depth[k] \in 0..Len(owners)
    OBVIOUS
  <2> HIDE DEF n
  <2>5. deeper \in [0..n + 1 -> 0..Len(owners')]
    BY <1>2, <2>2, <2>3, <2>4
  <2>6. deeper[n + 1] = Len(owners') /\ \A k \in 0..n : deeper[k] = depth[k]
    BY <2>2
  <2> HIDE DEF deeper
  <2>7. deeper[0] = 0
    BY <2>1, <2>2, <2>6
  <2>8. ASSUME NEW j \in 0..n + 1, NEW k \in 0..n + 1, j <= k
        PROVE  deeper[j] <= deeper[k]
    <3>1. CASE k \in 0..n
      BY <2>1, <2>2, <2>6, <2>8, <3>1
    <3>2. CASE k = n + 1 /\ j \in 0..n
      BY <1>2, <2>2, <2>3, <2>4, <2>6, <3>2
    <3>3. CASE k = n + 1 /\ j = n + 1
      BY <2>3, <2>6, <3>3
    <3> QED
      BY <2>2, <3>1, <3>2, <3>3
  <2>9. ASSUME NEW k \in 1..n
        PROVE  /\ deeper[k] = deeper[k - 1] + (IF calls'[k].across THEN 1 ELSE 0)
               /\ calls'[k].text = IF deeper[k] = 0 THEN chunk ELSE owners'[deeper[k]]
               /\ calls'[k].library <=> deeper[k] # 0
    <3>1. deeper[k] = depth[k] /\ deeper[k - 1] = depth[k - 1] /\ calls'[k] = calls[k]
      BY <2>2, <2>6
    <3>2. depth[k] # 0 => owners'[depth[k]] = owners[depth[k]]
      BY <2>2, <2>3, <2>4
    <3> QED
      BY <2>1, <3>1, <3>2
  <2>10. /\ deeper[n + 1] = deeper[n] + (IF done.across THEN 1 ELSE 0)
         /\ done.text = IF deeper[n + 1] = 0 THEN chunk ELSE owners'[deeper[n + 1]]
         /\ done.library <=> deeper[n + 1] # 0
    <3>1. deeper[n] = Len(owners) /\ deeper[n + 1] = Len(owners')
      BY <2>1, <2>2, <2>6
    <3>2. CASE across
      <4>1. Len(owners') = Len(owners) + 1 /\ owners'[Len(owners')] = text /\ library
        BY <2>3, <3>2
      <4> QED
        BY <1>2, <3>1, <3>2, <4>1
    <3>3. CASE ~across
      <4>1. Len(owners') = Len(owners) /\ owners' = owners
        BY <3>3
      <4>2. text = IF Len(owners) = 0 THEN chunk ELSE owners[Len(owners)]
        <5>1. text = IF Owner = NoView THEN chunk ELSE Owner
          BY <3>3 DEF Asking
        <5>2. Len(owners) # 0 => Owner = owners[Len(owners)]
          BY <1>2 DEF Owner
        <5> QED
          BY <1>3, <5>1, <5>2
      <4>3. library <=> Len(owners) # 0
        BY <1>3, <3>3
      <4> QED
        BY <1>2, <3>1, <3>3, <4>1, <4>2, <4>3
    <3> QED
      BY <3>2, <3>3
  <2>11. \A k \in 1..n + 1 : k \in 1..n \/ k = n + 1
    BY <2>2
  <2>12. n + 1 - 1 = n
    BY <2>2
  <2>13. ASSUME NEW k \in 1..n + 1
         PROVE  /\ deeper[k] = deeper[k - 1] + (IF calls'[k].across THEN 1 ELSE 0)
                /\ calls'[k].text = IF deeper[k] = 0 THEN chunk ELSE owners'[deeper[k]]
                /\ calls'[k].library <=> deeper[k] # 0
    <3>1. CASE k \in 1..n
      BY <2>9, <3>1
    <3>2. CASE k = n + 1
      BY <2>2, <2>10, <2>12, <3>2
    <3> QED
      BY <2>11, <3>1, <3>2
  <2>14. Len(calls') = n + 1 /\ chunk' = chunk
    BY <1>1, <2>2
  <2>15. NestedIn(deeper, calls', owners', chunk')
    BY <2>6, <2>7, <2>8, <2>13, <2>14 DEF NestedIn
  <2> QED
    BY <2>5, <2>14, <2>15 DEF Nested
<1>9. CallsMeant'
  <2> SUFFICES ASSUME NEW k \in DOMAIN calls'
               PROVE  /\ calls'[k].slot \in DOMAIN kept'
                      /\ Meant(calls'[k].asker, calls'[k].alias, kept'[calls'[k].slot].name,
                               Giver(kept'[calls'[k].slot]))
    BY <1>1 DEF CallsMeant, Meant, Giver
  <2>1. CASE k \in DOMAIN calls
    <3>1. calls'[k] = calls[k] /\ calls[k].slot \in DOMAIN kept
      BY <1>1, <1>2, <2>1 DEF ModulesInv, CallsMeant
    <3>2. kept'[calls[k].slot] = kept[calls[k].slot] /\ calls[k].slot \in DOMAIN kept'
      BY <1>1, <1>2, <3>1
    <3> QED
      BY <2>1, <3>1, <3>2 DEF ModulesInv, CallsMeant
  <2>2. CASE k \notin DOMAIN calls
    <3>1. calls'[k] = done /\ Len(kept) + 1 \in DOMAIN kept' /\ kept'[Len(kept) + 1] = slot
      BY <1>1, <1>2, <2>2
    <3>2. Giver(slot) = IF owner = NoView THEN chunk ELSE owner
      BY DEF Giver
    <3> QED
      BY <3>1, <3>2
  <2> QED
    BY <2>1, <2>2
<1>10. RequiresReachTheirOwn'
  BY <1>1 DEF ModulesInv, RequiresReachTheirOwn
<1> QED
  BY <1>5, <1>6, <1>7, <1>8, <1>9, <1>10 DEF ModulesInv

\* What is kept is handed over to whom it was meant for.
LEMMA GiveKeptInv ==
  ASSUME ModulesInv, NEW owner, NEW alias, NEW name, GiveKept(owner, alias, name),
         Meant(Running, alias, name, IF owner = NoView THEN chunk ELSE owner)
  PROVE  ModulesInv'
<1>1. UNCHANGED <<chunk, bound, kept, owners, calls>>
  BY DEF GiveKept
<1>2. PICK k \in KeptAs(owner, name) :
        ~kept[k].running /\ HandOver(Running, alias, name, kept[k])
  BY DEF GiveKept
<1>3. kept[k].owner = owner
  BY DEF KeptAs
<1>4. /\ given'.asker = Running /\ given'.alias = alias /\ given'.name = name
      /\ given'.giver = IF owner = NoView THEN chunk ELSE owner
      /\ given'.whole = ~kept[k].running
  BY <1>2, <1>3 DEF HandOver
<1>5. RequiresReachTheirOwn'
  BY <1>1, <1>2, <1>4 DEF RequiresReachTheirOwn, Meant
<1>6. ModulesOK' /\ LibrariesApart' /\ KeptOnce' /\ Nested' /\ CallsMeant'
  BY <1>1 DEF ModulesInv, ModulesOK, LibrariesApart, KeptOnce, Nested, CallsMeant, Meant, Giver
<1> QED
  BY <1>5, <1>6 DEF ModulesInv

LEMMA ReturnInv ==
  ASSUME ModulesInv, Return
  PROVE  ModulesInv'
<1> DEFINE n == Len(calls)
           done == calls[n]
           slot == [kept[done.slot] EXCEPT !.running = FALSE]
<1>1. /\ calls # <<>>
      /\ kept' = [kept EXCEPT ![done.slot] = slot]
      /\ calls' = SubSeq(calls, 1, n - 1)
      /\ owners' = IF done.across THEN SubSeq(owners, 1, Len(owners) - 1) ELSE owners
      /\ HandOver(done.asker, done.alias, slot.name, slot)
      /\ UNCHANGED <<chunk, bound>>
  BY DEF Return, Innermost
<1>2. /\ kept \in Seq(Slot) /\ owners \in Seq(Views) /\ calls \in Seq(Call)
      /\ Len(kept) \in Nat /\ Len(owners) \in Nat /\ n \in Nat /\ n >= 1
      /\ MaxModules \in Nat /\ MaxDepth \in Nat
      /\ Len(kept) <= MaxModules /\ Len(owners) <= MaxDepth
  BY <1>1, ModulesAssumption DEF ModulesInv, ModulesOK
<1>3. /\ Len(calls') = n - 1 /\ calls' \in Seq(Call) /\ \A k \in 1..n - 1 : calls'[k] = calls[k]
  <2>1. 1 \in 1..Len(calls) + 1 /\ n - 1 \in 1 - 1..Len(calls) /\ n - 1 - 1 + 1 = n - 1
    BY <1>2
  <2>2. calls' = SubSeq(calls, 1, n - 1) /\ calls \in Seq(Call)
    BY <1>1, <1>2
  <2> HIDE DEF n
  <2> QED
    BY <1>2, <2>1, <2>2, SubSeqProperties
<1>4. /\ done.slot \in DOMAIN kept
      /\ Meant(done.asker, done.alias, kept[done.slot].name, Giver(kept[done.slot]))
  BY <1>2 DEF ModulesInv, CallsMeant
<1>5. kept[done.slot] \in Slot
  BY <1>2, <1>4
<1>6. /\ slot \in Slot /\ slot.owner = kept[done.slot].owner /\ slot.name = kept[done.slot].name
      /\ slot.running = FALSE
  BY <1>5 DEF Slot
<1> HIDE DEF slot
<1>7. /\ kept' \in Seq(Slot) /\ Len(kept') = Len(kept) /\ DOMAIN kept' = DOMAIN kept
      /\ \A k \in DOMAIN kept : kept'[k].owner = kept[k].owner /\ kept'[k].name = kept[k].name
  BY <1>1, <1>2, <1>4, <1>6
<1> PICK depth \in [0..n -> 0..Len(owners)] : NestedIn(depth, calls, owners, chunk)
  BY DEF ModulesInv, Nested
<1>8. /\ depth[0] = 0 /\ depth[n] = Len(owners)
      /\ \A j, k \in 0..n : j <= k => depth[j] <= depth[k]
      /\ \A k \in 1..n :
           /\ depth[k] = depth[k - 1] + (IF calls[k].across THEN 1 ELSE 0)
           /\ calls[k].text = IF depth[k] = 0 THEN chunk ELSE owners[depth[k]]
           /\ calls[k].library <=> depth[k] # 0
  BY DEF NestedIn
<1>9. /\ owners' \in Seq(Views) /\ Len(owners') = depth[n - 1] /\ Len(owners') <= Len(owners)
      /\ \A k \in 1..Len(owners') : owners'[k] = owners[k]
  <2>1. depth[n] = depth[n - 1] + (IF done.across THEN 1 ELSE 0)
    BY <1>2, <1>8
  <2>2. depth[n - 1] \in Nat
    <3>1. n - 1 \in 0..n /\ Len(owners) \in Nat
      BY <1>2
    <3> HIDE DEF n
    <3> QED
      BY <3>1
  <2>3. CASE done.across
    <3>1. Len(owners) = depth[n - 1] + 1 /\ owners' = SubSeq(owners, 1, Len(owners) - 1)
      BY <1>1, <1>8, <2>1, <2>3
    <3> QED
      BY <1>2, <2>2, <3>1, SubSeqProperties
  <2>4. CASE ~done.across
    <3>1. Len(owners) = depth[n - 1] /\ owners' = owners
      BY <1>1, <1>8, <2>1, <2>2, <2>4
    <3> QED
      BY <1>2, <3>1
  <2> QED
    BY <2>3, <2>4
<1>10. Nested'
  <2> DEFINE upTo == [k \in 0..n - 1 |-> depth[k]]
  <2>1. \A k \in 0..n - 1 : upTo[k] = depth[k] /\ k \in 0..n
    BY <1>2
  <2>2. upTo \in [0..n - 1 -> 0..Len(owners')]
    <3>1. \A k \in 0..n - 1 : depth[k] \in Nat /\ depth[k] <= depth[n - 1]
      BY <1>2, <1>8, <2>1
    <3> QED
      BY <1>9, <3>1
  <2> HIDE DEF upTo
  <2>3. upTo[0] = 0 /\ upTo[n - 1] = Len(owners')
    BY <1>2, <1>8, <1>9, <2>1
  <2>4. \A j, k \in 0..n - 1 : j <= k => upTo[j] <= upTo[k]
    BY <1>8, <2>1
  <2>5. ASSUME NEW k \in 1..n - 1
        PROVE  /\ upTo[k] = upTo[k - 1] + (IF calls'[k].across THEN 1 ELSE 0)
               /\ calls'[k].text = IF upTo[k] = 0 THEN chunk ELSE owners'[upTo[k]]
               /\ calls'[k].library <=> upTo[k] # 0
    <3>1. /\ upTo[k] = depth[k] /\ upTo[k - 1] = depth[k - 1] /\ calls'[k] = calls[k]
          /\ k \in 1..n
      <4> n \in Nat
        BY <1>2
      <4> HIDE DEF n
      <4> QED
        BY <1>3, <2>1
    <3>2. upTo[k] # 0 => owners'[upTo[k]] = owners[upTo[k]]
      <4>1. k \in 0..n - 1
        OBVIOUS
      <4>2. upTo[k] \in 0..Len(owners')
        BY <2>2, <4>1, Zenon
      <4>3. Len(owners') \in Nat
        BY <1>9
      <4>4. upTo[k] # 0 => upTo[k] \in 1..Len(owners')
        BY <4>2, <4>3
      <4> QED
        BY <1>9, <4>4, Zenon
    <3> QED
      BY <1>8, <3>1, <3>2
  <2>6. Len(calls') = n - 1 /\ chunk' = chunk
    BY <1>1, <1>3
  <2>7. NestedIn(upTo, calls', owners', chunk')
    BY <2>3, <2>4, <2>5, <2>6 DEF NestedIn
  <2> QED
    BY <2>2, <2>6, <2>7 DEF Nested
<1>11. ModulesOK'
  BY <1>1, <1>2, <1>3, <1>7, <1>9 DEF ModulesInv, ModulesOK
<1>12. LibrariesApart'
  <2>1. \A k \in DOMAIN owners' : k \in DOMAIN owners /\ owners'[k] = owners[k]
    <3>1. Len(owners') \in Nat /\ DOMAIN owners' = 1..Len(owners')
          /\ DOMAIN owners = 1..Len(owners)
      BY <1>2, <1>9
    <3> QED
      BY <1>2, <1>9, <3>1
  <2> QED
    BY <1>1, <2>1 DEF ModulesInv, LibrariesApart
<1>13. KeptOnce'
  BY <1>7 DEF ModulesInv, KeptOnce
<1>14. CallsMeant'
  <2> SUFFICES ASSUME NEW k \in DOMAIN calls'
               PROVE  /\ calls'[k].slot \in DOMAIN kept'
                      /\ Meant(calls'[k].asker, calls'[k].alias, kept'[calls'[k].slot].name,
                               Giver(kept'[calls'[k].slot]))
    BY <1>1 DEF CallsMeant, Meant, Giver
  <2>1. k \in DOMAIN calls /\ calls'[k] = calls[k]
    <3>1. DOMAIN calls' = 1..n - 1 /\ DOMAIN calls = 1..n /\ n \in Nat
      BY <1>2, <1>3
    <3> HIDE DEF n
    <3> QED
      BY <1>3, <3>1
  <2>2. /\ calls[k].slot \in DOMAIN kept
        /\ Meant(calls[k].asker, calls[k].alias, kept[calls[k].slot].name,
                 Giver(kept[calls[k].slot]))
    BY <2>1 DEF ModulesInv, CallsMeant
  <2>3. Giver(kept'[calls[k].slot]) = Giver(kept[calls[k].slot])
    BY <1>7, <2>2 DEF Giver
  <2> QED
    BY <1>7, <2>1, <2>2, <2>3
<1>15. RequiresReachTheirOwn'
  <2>1. /\ given'.asker = done.asker /\ given'.alias = done.alias
        /\ given'.name = kept[done.slot].name /\ given'.giver = Giver(kept[done.slot])
        /\ given'.whole = ~slot.running
    BY <1>1, <1>6 DEF HandOver, Giver
  <2> QED
    BY <1>1, <1>4, <1>6, <2>1 DEF RequiresReachTheirOwn, Meant
<1> QED
  BY <1>10, <1>11, <1>12, <1>13, <1>14, <1>15 DEF ModulesInv

LEMMA RequireInv ==
  ASSUME ModulesInv, chunk \in Views, Requires
  PROVE  ModulesInv' /\ chunk' = chunk
<1>1. CASE Return
  BY <1>1, ReturnInv DEF Return
<1>2. ASSUME NEW name \in Names, RequireOwn(name) PROVE ModulesInv' /\ chunk' = chunk
  <2>1. Meant(Running, Bare, name, IF Owner = NoView THEN chunk ELSE Owner)
    BY AskingFacts DEF Meant, Asking
  <2>2. CASE GiveKept(Owner, Bare, name)
    BY <2>1, <2>2, GiveKeptInv DEF GiveKept
  <2>3. CASE Runs(Owner, Bare, name, Asking, Owner # NoView, FALSE) /\ owners' = owners
    <3>1. ModulesInv'
      BY <2>1, <2>3, AskingFacts, RunsInv
    <3> QED
      BY <2>3, <3>1 DEF Runs
  <2> QED
    BY <1>2, <2>2, <2>3 DEF RequireOwn
<1>3. ASSUME NEW name \in Names, NEW alias \in Aliases, RequireAcross(alias, name)
      PROVE  ModulesInv' /\ chunk' = chunk
  <2> DEFINE there == ViewOf(Bindings(Asking)[alias])
  <2>1. alias \in DOMAIN Bindings(Asking) /\ name \in Declared[there].exports
    BY <1>3 DEF RequireAcross
  <2>2. there \in Libraries(bound) /\ there \in Views
    BY <2>1, AskingFacts DEF Targets
  <2>3. there # NoView /\ alias # Bare
    BY <2>2, ModulesAssumption
  <2>4. Meant(Running, alias, name, IF there = NoView THEN chunk ELSE there)
    BY <2>1, <2>3, AskingFacts DEF Meant
  <2>5. CASE GiveKept(there, alias, name)
    BY <2>4, <2>5, GiveKeptInv DEF GiveKept
  <2>6. CASE /\ Len(owners) < MaxDepth /\ Runs(there, alias, name, there, TRUE, TRUE)
             /\ owners' = Append(owners, there)
    <3> HIDE DEF there
    <3>1. EnteredFor(there)
      BY <2>2, <2>6 DEF EnteredFor
    <3>2. ModulesInv'
      BY <2>2, <2>4, <2>6, <3>1, RunsInv
    <3> QED
      BY <2>6, <3>2 DEF Runs
  <2> QED
    BY <1>3, <2>5, <2>6 DEF RequireAcross
<1> QED
  BY <1>1, <1>2, <1>3 DEF Requires

\* With nothing run yet, everything holds of a chunk that is no library of its own.
LEMMA OpenModulesInv ==
  ASSUME NEW view \in Views \cup {NoView}, NEW bindings, OpenModules(view, bindings),
         Targets(bindings) \subseteq Views, view \notin Libraries(bindings)
  PROVE  ModulesInv'
<1>1. /\ chunk' = view /\ bound' = bindings /\ kept' = <<>> /\ owners' = <<>> /\ calls' = <<>>
      /\ given' = NothingGiven
  BY DEF OpenModules
<1>2. ModulesOK'
  BY <1>1, ModulesAssumption DEF ModulesOK
<1>3. LibrariesApart' /\ KeptOnce' /\ CallsMeant'
  BY <1>1 DEF LibrariesApart, KeptOnce, CallsMeant
<1>4. Nested'
  <2> DEFINE none == [k \in 0..0 |-> 0]
  <2>1. NestedIn(none, <<>>, <<>>, view)
    BY DEF NestedIn
  <2>2. none \in [0..Len(<<>>) -> 0..Len(<<>>)]
    OBVIOUS
  <2> QED
    BY <1>1, <2>1, <2>2 DEF Nested
<1>5. RequiresReachTheirOwn'
  BY <1>1 DEF RequiresReachTheirOwn
<1> QED
  BY <1>2, <1>3, <1>4, <1>5 DEF ModulesInv

LEMMA CloseModulesInv == ASSUME CloseModules PROVE ModulesInv' /\ chunk' = NoView
<1>1. Targets(<<>>) = {}
  BY DEF Targets
<1>2. NoView \notin Libraries(<<>>)
  BY ModulesAssumption DEF Libraries
<1> QED
  BY <1>1, <1>2, OpenModulesInv DEF CloseModules, OpenModules

-----------------------------------------------------------------------------
(* Session: the inductive invariant.                                       *)

Asked   == {"asking", "resolver", "calling"}
Working == Asked \cup {"entry", "acquired", "discarded", "chunk", "acquiring", "running"}
Pcs     == Working \cup {"manifest", "overlays", "closed", "open", "failed", "closing", "clearing",
                          "cleared"}

\* While there is an entry to load there is a runtime, and a manifest it is of.
AtAnEntry ==
  /\ runtime
  /\ manifest \in Manifests /\ Reads(manifest)
  /\ at \in DOMAIN manifest.plugins
AtAChunk ==
  \/ pc \in {"chunk", "acquiring", "running"}
  \/ pc \in Asked /\ asking.then = "acquiring"
PlaceFollows ==
  /\ pc \in Pcs
  /\ pc # "closed" => session # "none"
  /\ pc = "cleared" => session = "update"
  /\ pc \in {"closed", "cleared", "manifest"} => at = 1
  /\ pc = "manifest" => manifest \in Manifests
  /\ pc \in Working => AtAnEntry
  /\ pc \in Asked => asking.of \in Resolvers /\ asking.then \in {"acquired", "discarded", "acquiring"}
  /\ AtAChunk => part \in DOMAIN Chunks(Entry)

\* The windows are those of the chunk that runs.
Local == [toolchains : SUBSET Toolchains, publishers : {0, 1}, resolver : BOOLEAN,
          other : BOOLEAN]
WindowsFollow ==
  /\ RunsChunk => chunk \in Views /\ env = Declared[chunk].env
  /\ pc = "running" => aliases = RequiredBy(chunk) /\ ~local.resolver
  /\ pc = "resolver" => chunk = ViewOf(asking.of.artifact)
  /\ pc # "running" => aliases = {}
  /\ local \in Local
  /\ ~RunsChunk => ~local.resolver

\* The memo and the callback are of one resolver, until the next one declares
\* its own.
ResolverFollows ==
  /\ pc \in {"closed", "cleared", "manifest"} => memo = NoMemo
  /\ pc \in Working /\ ~local.resolver /\ memo # NoMemo =>
       callback = ViewOf(memo[2][2]) /\ callbackEnv = Declared[callback].env
  /\ pc = "resolver" /\ local.resolver =>
       callback = chunk /\ callbackEnv = Declared[chunk].env
  /\ ResolverIsItsOwn

\* What is registered points at slots, and a chunk's toolchains have theirs.
IsSeq(s) == s \in Seq({s[k] : k \in DOMAIN s})
Emptied  == \A kind \in Kinds : registry[kind] = {}
IsDeclared(name) ==
  \E j \in DOMAIN slots : /\ slots[j].kind = "toolchain" /\ slots[j].name[2] = name
                          /\ slots[j].chunk = chunk /\ ~slots[j].late
RegistryFollows ==
  /\ IsSeq(slots)
  /\ pc \in {"closed", "closing"} => Emptied
  /\ pc = "clearing" /\ session = "load" => Emptied
  /\ RunsChunk => \A name \in local.toolchains : IsDeclared(name)
  /\ RegisteredIsWhole

IInv == /\ TypeOK
        /\ ModulesInv
        /\ PlaceFollows
        /\ WindowsFollow
        /\ ResolverFollows
        /\ RegistryFollows

-----------------------------------------------------------------------------
(* Facts about a step, by what it touches.                                 *)

\* A sequence of what is in it stays one when something is put behind.
LEMMA AppendFacts ==
  ASSUME NEW s, IsSeq(s), NEW x
  PROVE  /\ IsSeq(Append(s, x)) /\ Len(s) \in Nat
         /\ DOMAIN s = 1..Len(s) /\ DOMAIN Append(s, x) = 1..Len(s) + 1
         /\ Len(Append(s, x)) = Len(s) + 1
         /\ Append(s, x)[Len(s) + 1] = x
         /\ \A k \in 1..Len(s) : Append(s, x)[k] = s[k]
<1> DEFINE T == {s[k] : k \in DOMAIN s} \cup {x}
           t == Append(s, x)
<1>1. s \in Seq(T) /\ Len(s) \in Nat /\ DOMAIN s = 1..Len(s)
  BY DEF IsSeq
<1>2. /\ t \in Seq(T) /\ Len(t) = Len(s) + 1 /\ DOMAIN t = 1..Len(s) + 1
      /\ t[Len(s) + 1] = x /\ \A k \in 1..Len(s) : t[k] = s[k]
  BY <1>1
<1>3. IsSeq(t)
  BY <1>2 DEF IsSeq
<1> QED
  BY <1>1, <1>2, <1>3

\* Where an entry is, it is one of the manifest's, and what it lists is there.
LEMMA EntryFacts ==
  ASSUME AtAnEntry
  PROVE  /\ Len(manifest.plugins) \in Nat /\ DOMAIN manifest.plugins = 1..Len(manifest.plugins)
         /\ Len(Plugins) = Len(manifest.plugins)
         /\ Entry = PluginOf(manifest.plugins[at])
         /\ Len(Chunks(Entry)) \in Nat /\ Len(Chunks(Entry)) >= 1
         /\ DOMAIN Chunks(Entry) = 1..Len(Chunks(Entry))
         /\ \A view \in Listed(Entry) :
              /\ view \in Views /\ Targets(BindingsOf(Entry, view)) \subseteq Views
              /\ view \notin Libraries(BindingsOf(Entry, view))
         /\ \A r \in Resolvers : ViewOf(r.artifact) \in Views /\ r.source[2] = r.artifact
<1> DEFINE some == manifest.plugins
<1>1. /\ manifest \in Manifests /\ Reads(manifest) /\ at \in DOMAIN some
      /\ some \in Seq({some[k] : k \in DOMAIN some})
      /\ \A r \in ResolversOf(manifest) : ViewOf(r.artifact) \in Views
      /\ Chunks(PluginOf(some[at])) \in Seq(STRING)
      /\ \A view \in Listed(PluginOf(some[at])) :
           /\ view \in Views /\ Targets(BindingsOf(PluginOf(some[at]), view)) \subseteq Views
           /\ view \notin Libraries(BindingsOf(PluginOf(some[at]), view))
  BY SessionAssumption DEF AtAnEntry
<1>2. Len(some) \in Nat /\ DOMAIN some = 1..Len(some)
  BY <1>1
<1>3. Plugins = [k \in 1..Len(some) |-> PluginOf(some[k])]
  BY <1>2 DEF Plugins, PluginsOf
<1>4. Len(Plugins) = Len(some) /\ Entry = PluginOf(some[at])
  BY <1>1, <1>2, <1>3 DEF Entry
<1>5. Chunks(Entry) # <<>>
  BY DEF Chunks
<1>6. /\ Len(Chunks(Entry)) \in Nat /\ Len(Chunks(Entry)) >= 1
      /\ DOMAIN Chunks(Entry) = 1..Len(Chunks(Entry))
  BY <1>1, <1>4, <1>5
<1>7. \A r \in Resolvers : ViewOf(r.artifact) \in Views /\ r.source[2] = r.artifact
  BY <1>1 DEF Resolvers, ResolversOf, ResolverOf
<1> QED
  BY <1>1, <1>2, <1>4, <1>6, <1>7

\* The chunk that is to run is one the entry lists.
LEMMA ChunkNowFacts ==
  ASSUME AtAnEntry, part \in DOMAIN Chunks(Entry)
  PROVE  ChunkNow \in Listed(Entry)
BY DEF ChunkNow, Listed

\* Steps that only move the session along, from an entry and around them.
Walks == \/ AskForEntry \/ TakeEntry \/ DiscardEntry \/ SourceAcquired \/ ReadDeclaration
         \/ AskForDependency \/ CallRemembered
Turns == ReadPlugins \/ OpenForScript \/ LoadEnds \/ Fails

LEMMA WalksFacts ==
  ASSUME Walks
  PROVE  /\ UNCHANGED <<session, manifest, sessions, runtime, registry, slots, local, callback,
                        callbackEnv, backup, memo, env, aliases, label, report>>
         /\ UNCHANGED modules /\ granted' \in {granted, {}}
         /\ pc \in Working /\ ~RunsChunk
         /\ pc' \in (Working \cup {"open"}) \ {"running", "resolver"}
         /\ pc' = "calling" => CallRemembered
<1>1. /\ UNCHANGED <<session, manifest, sessions, runtime, registry, slots, local, callback,
                     callbackEnv, backup, memo, env, aliases, label, report>>
      /\ UNCHANGED modules /\ granted' \in {granted, {}}
  BY DEF Walks, AskForEntry, TakeEntry, DiscardEntry, SourceAcquired, ReadDeclaration,
     AskForDependency, CallRemembered, process, lua, declared, resolver, windows
<1>2. /\ pc \in Working /\ ~RunsChunk
      /\ pc' \in (Working \cup {"open"}) \ {"running", "resolver"}
      /\ pc' = "calling" => CallRemembered
  BY DEF Walks, AskForEntry, TakeEntry, DiscardEntry, SourceAcquired, ReadDeclaration,
     AskForDependency, CallRemembered, Goes, Asks, Working, Asked, RunsChunk
<1> QED
  BY <1>1, <1>2

LEMMA TurnsFacts ==
  ASSUME Turns
  PROVE  /\ UNCHANGED <<session, manifest, registry, slots, local, callback, callbackEnv, backup,
                        granted, env, aliases>>
         /\ UNCHANGED modules /\ UNCHANGED place
         /\ runtime' \in {runtime, TRUE} /\ memo' \in {memo, NoMemo}
         /\ pc \in Working \cup {"manifest", "overlays"} /\ ~RunsChunk
         /\ pc' \in {"entry", "overlays", "open", "failed"}
         /\ pc' = "entry" => /\ pc = "manifest" /\ runtime' /\ Reads(manifest)
                             /\ manifest.plugins # <<>> /\ (memo = NoMemo => memo' = NoMemo)
<1>1. CASE ReadPlugins
  BY <1>1 DEF ReadPlugins, Goes, process, declared, windows, RunsChunk
<1>2. CASE OpenForScript
  BY <1>2 DEF OpenForScript, process, declared, windows, resolver, RunsChunk
<1>3. CASE LoadEnds \/ Fails
  <2>1. pc \in Working \cup {"manifest", "overlays"} /\ ~RunsChunk /\ pc' \in {"open", "failed"}
    BY <1>3 DEF LoadEnds, Fails, Goes, RunsChunk, Working, Asked
  <2>2. UNCHANGED <<process, place, lua>>
    BY <1>3 DEF LoadEnds, Fails
  <2> QED
    BY <2>1, <2>2 DEF process, lua, declared, windows, resolver
<1> QED
  BY <1>1, <1>2, <1>3 DEF Turns

\* A chunk that is loaded, or stops, whatever comes of it.
Stops == ResolverLoaded \/ ChunkLoaded \/ ChunkRaises

\* What is declared: by a script, by the chunk that is loaded, or by a callback.
Mine(slot) == /\ RunsChunk /\ ~slot.late /\ slot.chunk = chunk
              /\ slot.env = Declared[chunk].env /\ slot.owners \subseteq local.toolchains \cup aliases
Sound(slot) ==
  /\ slot.kind \in Kinds
  /\ \/ Scripted(slot) /\ ~RunsChunk
     \/ /\ slot.text = slot.chunk /\ slot.env \subseteq Declared[slot.chunk].env
        /\ (slot.late /\ ~RunsChunk) \/ Mine(slot)

\* What it leaves of what is declared since the chunk began.
Leaves(slot, mark) ==
  /\ mark \in Local /\ mark.resolver = FALSE
  /\ \A name \in mark.toolchains :
       name \in local.toolchains \/ (slot.kind = "toolchain" /\ slot.name[2] = name)
Registers(slot, mark) ==
  /\ Len(slots) < MaxSlots /\ slots' = Append(slots, slot)
  /\ registry' = [registry EXCEPT ![slot.kind] = @ \cup {Len(slots) + 1}]
  /\ local' = mark
  /\ UNCHANGED <<process, pc, place, quest, runtime, granted, resolver, windows, report, modules>>
Makes(slot, left, mark) ==
  /\ runtime /\ local.resolver = FALSE
  /\ RunsChunk \/ pc \in {"calling", "open", "manifest", "overlays"}
  /\ pc = "open" => session = "load"
  /\ Sound(slot) /\ Leaves(slot, left) /\ Leaves(slot, mark)
  /\ \/ Registers(slot, mark)
     \/ Len(slots) < MaxSlots /\ slots' = Append(slots, slot) /\ Refused(left)

\* Who declares, and with what.
LEMMA DeclarersAre ==
  ASSUME NEW by \in Declarers
  PROVE  \/ RunsChunk /\ ~InLibrary /\ by = Declarer(chunk, Running, env, FALSE)
         \/ pc = "calling" /\ by = Declarer(callback, callback, callbackEnv, TRUE)
         \/ /\ pc = "open" /\ session = "load"
            /\ \E kind \in Kinds : \E k \in registry[kind] : \E credentials \in {slots[k].env, {}} :
                 by = Declarer(slots[k].chunk, slots[k].chunk, credentials, TRUE)
<1>1. CASE RunsChunk
  <2>1. Declarers = IF InLibrary THEN {} ELSE {Declarer(chunk, Running, env, FALSE)}
    BY <1>1 DEF Declarers, RunsChunk
  <2> QED
    BY <1>1, <2>1
<1>2. CASE pc = "calling"
  <2>1. Declarers = {Declarer(callback, callback, callbackEnv, TRUE)}
    BY <1>2 DEF Declarers, RunsChunk
  <2> QED
    BY <1>2, <2>1
<1>3. CASE pc = "open" /\ session = "load"
  <2> DEFINE of(k) == {Declarer(slots[k].chunk, slots[k].chunk, credentials, TRUE) :
                         credentials \in RunsWith(slots[k])}
  <2>1. Declarers = UNION {of(k) : k \in CalledBack}
    BY <1>3 DEF Declarers, RunsChunk
  <2>2. PICK k \in CalledBack : by \in of(k)
    BY <2>1
  <2>3. PICK credentials \in RunsWith(slots[k]) :
          by = Declarer(slots[k].chunk, slots[k].chunk, credentials, TRUE)
    BY <2>2
  <2>4. credentials \in {slots[k].env, {}}
    BY DEF RunsWith
  <2>5. PICK kind \in Kinds : k \in registry[kind]
    BY DEF CalledBack, Kinds
  <2> QED
    BY <1>3, <2>3, <2>4, <2>5
<1>4. CASE ~RunsChunk /\ pc # "calling" /\ ~(pc = "open" /\ session = "load")
  <2>1. Declarers = {}
    BY <1>4 DEF Declarers, RunsChunk
  <2> QED
    BY <2>1
<1> QED
  BY <1>1, <1>2, <1>3, <1>4

\* Whoever declares has at most the credentials of its chunk.
Trusted(by) ==
  /\ RunsChunk \/ pc \in {"calling", "open", "manifest", "overlays"}
  /\ pc = "open" => session = "load"
  /\ \/ by.chunk = NoView /\ by.env = {} /\ ~RunsChunk
     \/ /\ by.text = by.chunk /\ by.env \subseteq Declared[by.chunk].env
        /\ \/ by.late /\ ~RunsChunk
           \/ RunsChunk /\ ~by.late /\ by.chunk = chunk /\ by.env = Declared[chunk].env
LEMMA DeclarersTrusted ==
  ASSUME IInv, NEW by, by \in Declarers \/ (RunsScript /\ by = ScriptDeclarer)
  PROVE  runtime /\ Trusted(by)
<1>1. CASE RunsScript /\ by = ScriptDeclarer
  BY <1>1 DEF RunsScript, ScriptDeclarer, Declarer, Trusted, RunsChunk
<1>2. CASE RunsChunk /\ ~InLibrary /\ by = Declarer(chunk, Running, env, FALSE)
  <2>1. chunk \in Views /\ ModulesInv /\ env = Declared[chunk].env /\ runtime
    BY <1>2 DEF IInv, WindowsFollow, RunsChunk, PlaceFollows, Working, Asked, AtAnEntry
  <2>2. Running = chunk
    BY <1>2, <2>1, AskingFacts
  <2> QED
    BY <1>2, <2>1, <2>2 DEF Declarer, Trusted, RunsChunk
<1>3. CASE pc = "calling" /\ by = Declarer(callback, callback, callbackEnv, TRUE)
  <2>1. runtime /\ callbackEnv = Declared[callback].env
    BY <1>3 DEF IInv, ResolverFollows, ResolverIsItsOwn, PlaceFollows, Working, Asked, AtAnEntry
  <2> QED
    BY <1>3, <2>1 DEF Declarer, Trusted, RunsChunk
<1>4. ASSUME pc = "open", session = "load", NEW kind \in Kinds, NEW k \in registry[kind],
             NEW credentials \in {slots[k].env, {}},
             by = Declarer(slots[k].chunk, slots[k].chunk, credentials, TRUE)
      PROVE  runtime /\ Trusted(by)
  <2>1. runtime /\ \/ Scripted(slots[k])
                   \/ slots[k].env \subseteq Declared[slots[k].chunk].env
    BY <1>4 DEF IInv, RegistryFollows, RegisteredIsWhole
  <2>2. ~RunsChunk
    BY <1>4 DEF RunsChunk
  <2>3. /\ by.chunk = slots[k].chunk /\ by.text = slots[k].chunk /\ by.env = credentials
        /\ by.late = TRUE
    BY <1>4 DEF Declarer
  <2>4. CASE Scripted(slots[k])
    BY <1>4, <2>1, <2>2, <2>3, <2>4 DEF Scripted, Trusted
  <2>5. CASE slots[k].env \subseteq Declared[slots[k].chunk].env
    BY <1>4, <2>1, <2>2, <2>3, <2>5 DEF Trusted
  <2> QED
    BY <2>1, <2>4, <2>5
<1> QED
  BY <1>1, <1>2, <1>3, <1>4, DeclarersAre

LEMMA DeclaringFacts ==
  ASSUME IInv, Declaring, ~DeclareResolver
  PROVE  \E slot, left, mark : Makes(slot, left, mark)
<1> DEFINE Some == \E slot, left, mark : Makes(slot, left, mark)
<1>1. ASSUME NEW by, by \in Declarers \/ (RunsScript /\ by = ScriptDeclarer),
             NEW slot, NEW left, NEW mark, NEW room,
             Sound(slot), Leaves(slot, left), Leaves(slot, mark), Declares(slot, left, mark, room)
      PROVE  Some
  <2>1. runtime /\ Trusted(by)
    BY <1>1, DeclarersTrusted
  <2>2. local.resolver = FALSE
    BY <1>1 DEF Declares, IInv, WindowsFollow, Local
  <2>3. \/ Registers(slot, mark)
        \/ Len(slots) < MaxSlots /\ slots' = Append(slots, slot) /\ Refused(left)
    BY <1>1 DEF Declares, Registers
  <2>4. Makes(slot, left, mark)
    BY <1>1, <2>1, <2>2, <2>3 DEF Makes, Trusted
  <2> QED
    BY <2>4
<1>2. local \in Local
  BY DEF IInv, WindowsFollow
<1>3. Other \in Local /\ Other.resolver = local.resolver /\ Other.toolchains = local.toolchains
  BY <1>2 DEF Other, Local
<1>4. ASSUME NEW by, by \in Declarers \/ (RunsScript /\ by = ScriptDeclarer),
             NEW kind \in Kinds, NEW name, kind = "source" \/ by.chunk # NoView
      PROVE  /\ NewSlot(by, kind, name).kind = kind /\ NewSlot(by, kind, name).name = name
             /\ Sound(NewSlot(by, kind, name))
             /\ \A others : others \subseteq local.toolchains \cup aliases /\ by.chunk # NoView =>
                  Sound([NewSlot(by, kind, name) EXCEPT !.owners = others])
  BY <1>4, DeclarersTrusted DEF NewSlot, Sound, Trusted, Mine, Scripted
<1>5. /\ "source" \in Kinds /\ "toolchain" \in Kinds /\ "task" \in Kinds
      /\ "migrator" \in Kinds /\ "translator" \in Kinds
  BY DEF Kinds
<1>6. ASSUME NEW slot, ~local.resolver PROVE Leaves(slot, Other)
  BY <1>2, <1>3, <1>6 DEF Leaves, Local
<1>7. ASSUME NEW slot, NEW left, NEW mark, NEW room, Declares(slot, left, mark, room)
      PROVE  ~local.resolver
  BY <1>7 DEF Declares
<1>8. ASSUME NEW by, NEW name \in Ids, DeclareSource(by, name) PROVE Some
  <2> DEFINE slot == NewSlot(by, "source", <<Free, name>>)
  <2>1. by \in Declarers \/ (RunsScript /\ by = ScriptDeclarer)
    BY <1>8 DEF DeclareSource
  <2>2. Declares(slot, Other, Other, TRUE)
    BY <1>8 DEF DeclareSource
  <2>3. Sound(slot)
    BY <1>4, <1>5, <2>1
  <2> HIDE DEF slot
  <2> QED
    BY <1>1, <1>6, <1>7, <2>1, <2>2, <2>3
<1>9. ASSUME NEW by, NEW name \in Ids, DeclarePublisher(by, name) PROVE Some
  <2> DEFINE mark == [Other EXCEPT !.publishers = 1]
             slot == NewSlot(by, "task", <<"publish", name>>)
  <2>1. by \in Declarers /\ by.chunk # NoView /\ Declares(slot, Other, mark, TRUE)
    BY <1>9 DEF DeclarePublisher, Plugged
  <2>2. mark \in Local /\ mark.resolver = local.resolver /\ mark.toolchains = local.toolchains
    BY <1>3 DEF Local
  <2>3. Sound(slot)
    BY <1>4, <1>5, <2>1
  <2> HIDE DEF slot, mark
  <2>4. ~local.resolver
    BY <1>7, <2>1
  <2>5. Leaves(slot, mark) /\ Leaves(slot, Other)
    BY <1>2, <1>6, <2>2, <2>4 DEF Leaves, Local
  <2> QED
    BY <1>1, <2>1, <2>3, <2>5
<1>10. ASSUME NEW by, NEW owner \in Toolchains \cup {Free}, NEW others \in SUBSET (Toolchains \cup Aliases),
              NEW name \in Ids, DeclareTask(by, owner, name, others)
       PROVE  Some
  <2> DEFINE slot == [NewSlot(by, "task", <<owner, name>>) EXCEPT !.owners = others]
  <2>1. others \subseteq local.toolchains \cup aliases
    BY <1>10, SessionAssumption DEF DeclareTask, MayName
  <2>2. by \in Declarers /\ by.chunk # NoView /\ Declares(slot, Other, Other, TRUE)
    BY <1>10 DEF DeclareTask, Plugged
  <2>3. Sound(slot)
    BY <1>4, <1>5, <2>1, <2>2
  <2> HIDE DEF slot
  <2> QED
    BY <1>1, <1>6, <1>7, <2>2, <2>3
<1>11. ASSUME NEW by, NEW name \in Toolchains, DeclareToolchain(by, name) PROVE Some
  <2> DEFINE room == Cardinality(local.toolchains) < MaxChunkToolchains
             with == [Other EXCEPT !.toolchains = @ \cup {name}]
             left == IF room THEN with ELSE Other
             slot == NewSlot(by, "toolchain", <<Free, name>>)
  <2>1. by \in Declarers /\ by.chunk # NoView /\ Declares(slot, left, with, room)
    BY <1>11 DEF DeclareToolchain, Plugged
  <2>2. with \in Local /\ with.resolver = local.resolver /\ with.toolchains = local.toolchains \cup {name}
    BY <1>3 DEF Local
  <2>3. Sound(slot) /\ slot.kind = "toolchain" /\ slot.name = <<Free, name>>
    BY <1>4, <1>5, <2>1
  <2>4. left \in {with, Other}
    OBVIOUS
  <2> HIDE DEF slot, with, room, left
  <2>5. ~local.resolver
    BY <1>7, <2>1
  <2>6. Leaves(slot, with)
    BY <1>2, <2>2, <2>3, <2>5 DEF Leaves, Local
  <2>7. Leaves(slot, left)
    BY <1>6, <2>4, <2>5, <2>6
  <2> QED
    BY <1>1, <2>1, <2>3, <2>6, <2>7
<1>12. ASSUME NEW by, NEW name \in Toolchains, DeclareMigrator(by, name) PROVE Some
  <2> DEFINE slot == [NewSlot(by, "migrator", <<Free, label>>) EXCEPT !.owners = {name}]
  <2>1. /\ {name} \subseteq local.toolchains \cup aliases
        /\ by \in Declarers /\ by.chunk # NoView /\ Declares(slot, Other, Other, TRUE)
    BY <1>12 DEF DeclareMigrator, Plugged
  <2>2. Sound(slot)
    BY <1>4, <1>5, <2>1
  <2> HIDE DEF slot
  <2> QED
    BY <1>1, <1>6, <1>7, <2>1, <2>2
<1>13. ASSUME NEW by, NEW tool \in Ids, NEW name \in Ids, DeclareTranslator(by, tool, name) PROVE Some
  <2> DEFINE slot == NewSlot(by, "translator", <<tool, name>>)
  <2>1. by \in Declarers /\ by.chunk # NoView /\ Declares(slot, Other, Other, TRUE)
    BY <1>13 DEF DeclareTranslator, Plugged
  <2>2. Sound(slot)
    BY <1>4, <1>5, <2>1
  <2> HIDE DEF slot
  <2> QED
    BY <1>1, <1>6, <1>7, <2>1, <2>2
<1> QED
  BY <1>8, <1>9, <1>10, <1>11, <1>12, <1>13 DEF Declaring

\* The steps, by what they do to a chunk that is loaded.
Begun == BeginLoad \/ BeginUpdate
Closes == DestroyRegistry \/ ShutDown \/ Forget
LEMMA StepCases ==
  ASSUME IInv, [Next]_vars
  PROVE  \/ UNCHANGED vars \/ Begun \/ Closes \/ Walks \/ Turns
         \/ LoadResolver \/ RunChunk \/ Stops \/ Answer \/ Requires \/ DeclareResolver
         \/ \E slot, left, mark : Makes(slot, left, mark)
BY DeclaringFacts DEF Next, Begun, Closes, Walks, Turns, Stops

LEMMA SameModules == ASSUME ModulesInv, UNCHANGED modules PROVE ModulesInv' /\ chunk' = chunk
<1>1. UNCHANGED <<chunk, bound, kept, owners, calls, given>>
  BY DEF modules
<1>2. ModulesOK'
  BY <1>1 DEF ModulesInv, ModulesOK
<1>3. LibrariesApart' /\ KeptOnce' /\ CallsMeant'
  BY <1>1 DEF ModulesInv, LibrariesApart, KeptOnce, CallsMeant, Meant, Giver
<1>4. Nested'
  <2> PICK depth \in [0..Len(calls) -> 0..Len(owners)] : NestedIn(depth, calls, owners, chunk)
    BY DEF ModulesInv, Nested
  <2>1. /\ depth \in [0..Len(calls') -> 0..Len(owners')]
        /\ NestedIn(depth, calls', owners', chunk')
    BY <1>1
  <2> QED
    BY <2>1 DEF Nested
<1>5. RequiresReachTheirOwn'
  BY <1>1 DEF ModulesInv, RequiresReachTheirOwn
<1> QED
  BY <1>1, <1>2, <1>3, <1>4, <1>5 DEF ModulesInv

\* A chunk that is to run is a view of its own.
LEMMA LoadingFacts ==
  ASSUME IInv
  PROVE  /\ LoadResolver => LET view == ViewOf(asking.of.artifact)
                            IN  view \in Views /\ Targets(<<>>) \subseteq Views /\ view \notin Libraries(<<>>)
         /\ RunChunk => LET view == ChunkNow
                            requires == BindingsOf(Entry, ChunkNow)
                        IN  view \in Views /\ Targets(requires) \subseteq Views /\ view \notin Libraries(requires)
<1>1. ASSUME LoadResolver
      PROVE  ViewOf(asking.of.artifact) \in Views
  <2>1. AtAnEntry /\ asking.of \in Resolvers
    BY <1>1 DEF LoadResolver, IInv, PlaceFollows, Working, Asked
  <2> QED
    BY <2>1, EntryFacts
<1>2. Targets(<<>>) = {} /\ Libraries(<<>>) = {}
  <2>1. Targets(<<>>) = {}
    BY DEF Targets
  <2>2. Closed({})
    BY DEF Closed
  <2> QED
    BY <2>1, <2>2 DEF Libraries
<1>3. ASSUME RunChunk
      PROVE  ChunkNow \in Listed(Entry) /\ AtAnEntry
  <2>1. AtAnEntry /\ part \in DOMAIN Chunks(Entry)
    BY <1>3 DEF RunChunk, IInv, PlaceFollows, Working, AtAChunk
  <2> QED
    BY <2>1, ChunkNowFacts
<1> QED
  BY <1>1, <1>2, <1>3, EntryFacts

LEMMA ModulesNext == ASSUME IInv, [Next]_vars PROVE ModulesInv'
<1>1. ASSUME UNCHANGED modules PROVE ModulesInv'
  BY <1>1, SameModules DEF IInv
<1>2. ASSUME UNCHANGED vars \/ Begun \/ DestroyRegistry \/ Forget \/ Walks \/ Turns \/ Answer \/ DeclareResolver
      PROVE  UNCHANGED modules
  BY <1>2, WalksFacts, TurnsFacts DEF vars, lua, Begun, BeginLoad, BeginUpdate, Begins, DestroyRegistry, Forget,
     Answer, DeclareResolver
<1>3. ASSUME ShutDown \/ Stops PROVE CloseModules
  BY <1>3 DEF ShutDown, Stops, ResolverLoaded, ChunkLoaded, ChunkRaises, Raises
<1>4. ASSUME Requires PROVE ModulesInv'
  <2>1. chunk \in Views
    BY <1>4 DEF Requires, IInv, WindowsFollow
  <2> QED
    BY <1>4, <2>1, RequireInv DEF IInv
<1>5. ASSUME NEW slot, NEW left, NEW mark, Makes(slot, left, mark) PROVE UNCHANGED modules \/ CloseModules
  BY <1>5 DEF Makes, Registers, Refused, Raises
<1>6. ASSUME LoadResolver PROVE ModulesInv'
  BY <1>6, LoadingFacts, OpenModulesInv DEF LoadResolver, ChunkBegins
<1>7. ASSUME RunChunk PROVE ModulesInv'
  BY <1>7, LoadingFacts, OpenModulesInv DEF RunChunk, ChunkBegins
<1> QED
  BY <1>1, <1>2, <1>3, <1>4, <1>5, <1>6, <1>7, StepCases, CloseModulesInv DEF Closes

-----------------------------------------------------------------------------
(* Where the session is.                                                   *)

LEMMA SamePlace ==
  ASSUME UNCHANGED <<runtime, manifest, at>>
  PROVE  /\ AtAnEntry => AtAnEntry'
         /\ Entry' = Entry /\ Plugins' = Plugins /\ Resolvers' = Resolvers
         /\ Chunks(Entry)' = Chunks(Entry)
BY DEF AtAnEntry, Entry, Plugins, Resolvers

\* What is asked for, and the chunk that comes next, stay where they are.
LEMMA PlaceStays ==
  ASSUME IInv, UNCHANGED <<session, manifest, at, part, runtime, asking>>,
         \/ pc' = pc
         \/ pc = "asking" /\ pc' \in {"calling", "resolver"}
         \/ pc = "resolver" /\ pc' = "calling"
         \/ pc = "acquiring" /\ pc' = "running"
  PROVE  PlaceFollows'
<1>1. pc' \in Pcs /\ (pc' # "closed" => session' # "none")
      /\ (pc' = "cleared" => session' = "update")
      /\ (pc' \in {"closed", "cleared", "manifest"} => at' = 1)
      /\ (pc' = "manifest" => manifest' \in Manifests)
  BY DEF IInv, PlaceFollows, Pcs, Working, Asked
<1>2. pc' \in Working => AtAnEntry'
  BY SamePlace DEF IInv, PlaceFollows, Working, Asked
<1>3. pc' \in Asked => asking'.of \in Resolvers'
                       /\ asking'.then \in {"acquired", "discarded", "acquiring"}
  BY SamePlace DEF IInv, PlaceFollows, Asked
<1>4. AtAChunk' => AtAChunk
  BY DEF AtAChunk, Asked
<1>5. AtAChunk' => part' \in DOMAIN Chunks(Entry)'
  BY <1>4, SamePlace DEF IInv, PlaceFollows
<1> QED
  BY <1>1, <1>2, <1>3, <1>5 DEF PlaceFollows

\* Where nothing is loaded there is nothing to say but the session's own state.
LEMMA PlaceIdle ==
  ASSUME pc' \in Pcs \ Working, pc' # "closed" => session' # "none",
         pc' = "cleared" => session' = "update", pc' \in {"closed", "cleared", "manifest"} => at' = 1,
         pc' = "manifest" => manifest' \in Manifests
  PROVE  PlaceFollows'
BY DEF PlaceFollows, Working, AtAChunk, Asked

LEMMA PlaceMoves ==
  ASSUME IInv, pc \in Working, UNCHANGED <<session, manifest, runtime>>,
         pc' \in {"entry", "acquired", "discarded", "chunk", "acquiring"},
         at' \in DOMAIN manifest.plugins,
         pc' \in {"chunk", "acquiring"} => part' \in DOMAIN Chunks(Entry)'
  PROVE  PlaceFollows'
<1>1. AtAnEntry' /\ session' # "none"
  BY DEF IInv, PlaceFollows, AtAnEntry, Working, Asked
<1> QED
  BY <1>1 DEF PlaceFollows, AtAChunk, Asked, Working, Pcs

LEMMA WalksPlace == ASSUME IInv, Walks PROVE PlaceFollows'
<1>1. pc \in Working /\ AtAnEntry /\ session # "none"
  BY WalksFacts DEF IInv, PlaceFollows, Working, Asked
<1>2. UNCHANGED <<session, manifest, runtime>>
  BY WalksFacts
<1>3. /\ Len(manifest.plugins) \in Nat /\ DOMAIN manifest.plugins = 1..Len(manifest.plugins)
      /\ Len(Plugins) = Len(manifest.plugins) /\ at \in DOMAIN manifest.plugins
      /\ 1 \in DOMAIN Chunks(Entry)
  <2>1. Len(Chunks(Entry)) \in Nat /\ Len(Chunks(Entry)) >= 1 /\ DOMAIN Chunks(Entry) = 1..Len(Chunks(Entry))
    BY <1>1, EntryFacts
  <2>2. 1 \in DOMAIN Chunks(Entry)
    BY <2>1
  <2> QED
    BY <1>1, <2>2, EntryFacts DEF AtAnEntry
<1>4. CASE TakeEntry
  BY <1>1, <1>2, <1>3, <1>4, PlaceMoves DEF TakeEntry, place, Goes
<1>5. CASE DiscardEntry
  <2>1. CASE at < Len(Plugins)
    <3>1. at + 1 \in DOMAIN manifest.plugins
      BY <1>3, <2>1
    <3> QED
      BY <1>1, <1>2, <1>5, <2>1, <3>1, PlaceMoves DEF DiscardEntry, Goes
  <2>2. CASE ~(at < Len(Plugins))
    BY <1>1, <1>2, <1>5, <2>2, PlaceIdle DEF DiscardEntry, Goes, Pcs, Working, Asked
  <2> QED
    BY <2>1, <2>2
<1>6. CASE SourceAcquired
  BY <1>1, <1>2, <1>3, <1>6, PlaceMoves, SamePlace DEF SourceAcquired, Goes
<1>7. CASE ReadDeclaration
  <2>1. part \in DOMAIN Chunks(Entry)
    BY <1>7 DEF IInv, PlaceFollows, AtAChunk, ReadDeclaration
  <2> QED
    BY <1>1, <1>2, <1>3, <1>7, <2>1, PlaceMoves, SamePlace DEF ReadDeclaration, place, Goes
<1>8. ASSUME NEW r \in Resolvers, NEW after, Asks(r, after), UNCHANGED place,
             \/ after \in {"acquired", "discarded"}
             \/ after = "acquiring" /\ part \in DOMAIN Chunks(Entry)
      PROVE  PlaceFollows'
  <2>1. /\ asking'.of = r /\ asking'.then = after /\ pc' = "asking" /\ at' = at /\ part' = part
    BY <1>8 DEF Asks, Goes, place
  <2>2. AtAnEntry' /\ r \in Resolvers' /\ session' # "none"
    BY <1>1, <1>2, <2>1, SamePlace
  <2>3. AtAChunk' => part' \in DOMAIN Chunks(Entry)'
    BY <1>2, <1>8, <2>1, SamePlace DEF AtAChunk
  <2> QED
    BY <1>8, <2>1, <2>2, <2>3 DEF PlaceFollows, Pcs, Working, Asked
<1>9. CASE AskForEntry
  BY <1>8, <1>9 DEF AskForEntry, Known
<1>10. CASE AskForDependency
  <2>1. part \in DOMAIN Chunks(Entry)
    BY <1>10 DEF IInv, PlaceFollows, AtAChunk, AskForDependency
  <2> QED
    BY <1>8, <1>10, <2>1 DEF AskForDependency, Known
<1>11. CASE CallRemembered
  BY <1>11, PlaceStays DEF CallRemembered, process, place, quest, lua, Goes
<1> QED
  BY <1>4, <1>5, <1>6, <1>7, <1>9, <1>10, <1>11 DEF Walks

LEMMA TurnsPlace == ASSUME IInv, Turns PROVE PlaceFollows'
<1>1. /\ UNCHANGED <<session, manifest, at>> /\ session # "none"
      /\ pc' \in {"entry", "overlays", "open", "failed"}
  BY TurnsFacts DEF place, IInv, PlaceFollows, Working, Asked
<1>2. CASE pc' # "entry"
  BY <1>1, <1>2, PlaceIdle DEF Pcs, Working, Asked
<1>3. CASE pc' = "entry"
  <2>1. /\ runtime' /\ Reads(manifest) /\ manifest.plugins # <<>>
        /\ manifest \in Manifests /\ at = 1
    BY <1>3, TurnsFacts DEF IInv, PlaceFollows
  <2>2. manifest.plugins \in Seq({manifest.plugins[k] : k \in DOMAIN manifest.plugins})
    BY <2>1, SessionAssumption
  <2>3. 1 \in DOMAIN manifest.plugins
    BY <2>1, <2>2
  <2> QED
    BY <1>1, <1>3, <2>1, <2>3 DEF PlaceFollows, AtAnEntry, AtAChunk, Pcs, Working, Asked
<1> QED
  BY <1>2, <1>3

LEMMA PlaceNext == ASSUME IInv, [Next]_vars PROVE PlaceFollows'
<1>1. CASE UNCHANGED vars
  BY <1>1, PlaceStays DEF vars, process, place, quest, lua
<1>2. CASE Begun
  <2>1. /\ manifest' \in Manifests /\ session' \in {"load", "update"} /\ at' = 1
        /\ pc' = "manifest"
    BY <1>2 DEF Begun, BeginLoad, BeginUpdate, Begins, place, Goes, IInv, PlaceFollows
  <2> QED
    BY <2>1, PlaceIdle DEF Pcs, Working, Asked
<1>3. CASE Closes
  <2>1. session \in {"none", "load", "update"}
    BY DEF IInv, TypeOK
  <2>2. /\ pc' \in {"closing", "clearing", "cleared", "closed"} /\ session' = session
        /\ pc' # "closed" => session # "none"
        /\ pc' = "cleared" => session = "update"
        /\ pc' \in {"closed", "cleared"} => at' = 1
    <3>1. CASE DestroyRegistry
      BY <2>1, <3>1 DEF DestroyRegistry, Ended, Goes, process, place, IInv, PlaceFollows
    <3>2. CASE ShutDown
      BY <2>1, <3>2 DEF ShutDown, Ended, Goes, process, place, IInv, PlaceFollows
    <3>3. CASE Forget
      BY <2>1, <3>3 DEF Forget, Goes, process, IInv, PlaceFollows
    <3> QED
      BY <1>3, <3>1, <3>2, <3>3 DEF Closes
  <2> QED
    BY <2>2, PlaceIdle DEF Pcs, Working, Asked
<1>4. CASE LoadResolver
  BY <1>4, PlaceStays DEF LoadResolver, process, place, quest, Goes
<1>5. CASE RunChunk
  BY <1>5, PlaceStays DEF RunChunk, process, place, quest, Goes
<1>6. CASE Requires \/ DeclareResolver
  BY <1>6, PlaceStays DEF Requires, DeclareResolver, process, place, quest
<1>7. ASSUME Raises, RunsChunk PROVE PlaceFollows'
  <2>1. session # "none"
    BY <1>7 DEF RunsChunk, IInv, PlaceFollows
  <2> QED
    BY <1>7, <2>1, PlaceIdle DEF Raises, process, Goes, Pcs, Working, Asked
<1>8. ASSUME NEW slot, NEW left, NEW mark, Makes(slot, left, mark) PROVE PlaceFollows'
  <2>1. CASE Registers(slot, mark)
    BY <2>1, PlaceStays DEF Registers, process, place, quest
  <2>2. CASE Refused(left) /\ RunsChunk
    BY <1>7, <2>2 DEF Refused
  <2>3. CASE Refused(left) /\ ~RunsChunk /\ pc = "open"
    BY <2>3, PlaceStays DEF Refused, process, place, quest
  <2>4. CASE Refused(left) /\ ~RunsChunk /\ pc # "open"
    <3>1. pc' = "failed" /\ session' = session /\ session # "none"
      BY <1>8, <2>4 DEF Refused, Makes, process, Goes, IInv, PlaceFollows
    <3> QED
      BY <3>1, PlaceIdle DEF Pcs, Working, Asked
  <2> QED
    BY <1>8, <2>1, <2>2, <2>3, <2>4 DEF Makes
<1>9. CASE ResolverLoaded
  <2>1. CASE local.resolver
    BY <1>9, <2>1, PlaceStays DEF ResolverLoaded, process, place, quest, Goes
  <2>2. CASE ~local.resolver
    BY <1>9, <2>2, PlaceIdle DEF ResolverLoaded, process, Goes, Pcs, Working, Asked, IInv, PlaceFollows
  <2> QED
    BY <2>1, <2>2
<1>10. CASE ChunkLoaded
  <2>1. /\ pc \in Working /\ AtAnEntry /\ part \in DOMAIN Chunks(Entry) /\ session # "none"
        /\ UNCHANGED <<session, manifest, runtime>>
    BY <1>10 DEF ChunkLoaded, process, IInv, PlaceFollows, AtAChunk, Working
  <2>2. /\ Len(manifest.plugins) \in Nat /\ DOMAIN manifest.plugins = 1..Len(manifest.plugins)
        /\ Len(Plugins) = Len(manifest.plugins) /\ at \in DOMAIN manifest.plugins
        /\ Len(Chunks(Entry)) \in Nat /\ DOMAIN Chunks(Entry) = 1..Len(Chunks(Entry))
    BY <2>1, EntryFacts DEF AtAnEntry
  <2>3. CASE part < Len(Chunks(Entry))
    <3>1. part + 1 \in DOMAIN Chunks(Entry)
      BY <2>1, <2>2, <2>3
    <3>2. at' = at /\ part' = part + 1 /\ pc' = "chunk"
      BY <1>10, <2>3 DEF ChunkLoaded, Goes
    <3> QED
      BY <2>1, <2>2, <3>1, <3>2, PlaceMoves, SamePlace
  <2>4. CASE ~(part < Len(Chunks(Entry))) /\ at < Len(Plugins)
    <3>1. at + 1 \in DOMAIN manifest.plugins
      BY <2>2, <2>4
    <3>2. at' = at + 1 /\ pc' = "entry"
      BY <1>10, <2>4 DEF ChunkLoaded, Goes
    <3> QED
      BY <2>1, <3>1, <3>2, PlaceMoves
  <2>5. CASE ~(part < Len(Chunks(Entry))) /\ ~(at < Len(Plugins))
    BY <1>10, <2>1, <2>5, PlaceIdle DEF ChunkLoaded, Goes, Pcs, Working, Asked
  <2> QED
    BY <2>3, <2>4, <2>5
<1>11. CASE Answer
  <2>1. /\ pc \in Working /\ UNCHANGED <<session, manifest, runtime, at, part>> /\ pc' = asking.then
        /\ asking.then \in {"acquired", "discarded", "acquiring"} /\ at \in DOMAIN manifest.plugins
        /\ asking.then = "acquiring" => part \in DOMAIN Chunks(Entry)
    BY <1>11 DEF Answer, process, place, Goes, Working, Asked, IInv, PlaceFollows, AtAChunk, AtAnEntry
  <2> QED
    BY <2>1, PlaceMoves, SamePlace
<1>12. ASSUME ChunkRaises PROVE PlaceFollows'
  BY <1>7, <1>12 DEF ChunkRaises
<1> QED
  BY <1>1, <1>2, <1>3, <1>4, <1>5, <1>6, <1>8, <1>9, <1>10, <1>11, <1>12, StepCases, WalksPlace,
     TurnsPlace DEF Stops

-----------------------------------------------------------------------------
(* Types, and the windows of the chunk that runs.                          *)

LEMMA TypeNext == ASSUME IInv, [Next]_vars PROVE TypeOK'
<1>1. ModulesOK'
  BY ModulesNext DEF ModulesInv
<1> DEFINE Lua == /\ runtime \in BOOLEAN
                  /\ callback \in Views \cup {NoView} /\ backup \in Views \cup {NoView}
                  /\ callbackEnv \subseteq Credentials
           Held == registry \in [Kinds -> SUBSET (1..MaxSlots)] /\ Len(slots) <= MaxSlots
           Seen == env \subseteq Credentials /\ aliases \subseteq Aliases
           Grants == granted \in {{}} \cup {Declared[view].uses : view \in Views}
           SessionOK == session \in {"none", "load", "update"}
<1>2. Lua /\ Held /\ Seen /\ Grants /\ SessionOK
  BY DEF IInv, TypeOK
<1>3. ASSUME Lua', Held', Seen', Grants', SessionOK' PROVE TypeOK'
  BY <1>1, <1>3 DEF TypeOK
<1> HIDE DEF Lua, Held, Seen, Grants, SessionOK
<1>4. ASSUME UNCHANGED <<session, callback, backup, callbackEnv, registry, slots, env, aliases>>,
             runtime' \in {runtime, TRUE}, granted' \in {granted, {}}
      PROVE  TypeOK'
  BY <1>2, <1>3, <1>4 DEF Lua, Held, Seen, Grants, SessionOK
<1>5. CASE UNCHANGED vars \/ Walks \/ Turns \/ Requires
  BY <1>4, <1>5, WalksFacts, TurnsFacts DEF vars, process, lua, declared, resolver, windows, Requires
<1>6. CASE Begun
  <2>1. session' \in {"load", "update"} /\ runtime' \in BOOLEAN
        /\ UNCHANGED <<granted, callback, backup, callbackEnv, registry, slots, env, aliases>>
    BY <1>6 DEF Begun, BeginLoad, BeginUpdate, Begins, declared, resolver, windows
  <2> QED
    BY <1>2, <1>3, <2>1 DEF Lua, Held, Seen, Grants, SessionOK
<1>7. CASE Closes
  <2>1. /\ session' = session /\ runtime' \in {runtime, FALSE}
        /\ callback' \in {callback, NoView} /\ callbackEnv' \in {callbackEnv, {}} /\ backup' = backup
        /\ registry' \in {registry, [kind \in Kinds |-> {}]} /\ slots' \in {slots, <<>>}
        /\ UNCHANGED <<env, aliases, granted>>
    BY <1>7 DEF Closes, DestroyRegistry, ShutDown, Forget, process, declared, resolver, windows
  <2>2. Held'
    <3>1. Len(<<>>) <= MaxSlots
      BY SessionAssumption
    <3>2. [kind \in Kinds |-> {}] \in [Kinds -> SUBSET (1..MaxSlots)]
      OBVIOUS
    <3> QED
      BY <1>2, <2>1, <3>1, <3>2 DEF Held
  <2> QED
    BY <1>2, <1>3, <2>1, <2>2 DEF Lua, Seen, Grants, SessionOK
<1>8. ASSUME NEW view, NEW bindings, view \in Views, ChunkBegins(view, bindings),
             UNCHANGED <<session, runtime, callback, callbackEnv, registry, slots>>,
             aliases' \subseteq Aliases
      PROVE  TypeOK'
  <2>1. env' \subseteq Credentials /\ backup' = callback /\ granted' = Declared[view].uses
    BY <1>8, SessionAssumption DEF ChunkBegins
  <2> QED
    BY <1>2, <1>3, <1>8, <2>1 DEF Lua, Held, Seen, Grants, SessionOK
<1>9. CASE LoadResolver
  <2>1. PICK view : view = ViewOf(asking.of.artifact)
    OBVIOUS
  <2>2. view \in Views /\ ChunkBegins(view, <<>>) /\ aliases' \subseteq Aliases
        /\ UNCHANGED <<session, runtime, callback, callbackEnv, registry, slots>>
    BY <1>2, <1>9, <2>1, LoadingFacts DEF LoadResolver, process, Seen
  <2> QED
    BY <1>8, <2>2
<1>10. CASE RunChunk
  <2>1. ChunkNow \in Views
    BY <1>10, LoadingFacts
  <2>2. RequiredBy(ChunkNow) \subseteq Aliases
    BY <2>1, ModulesAssumption DEF RequiredBy
  <2> QED
    BY <1>8, <1>10, <2>1, <2>2 DEF RunChunk, process
<1>11. ASSUME Raises, UNCHANGED callbackEnv, UNCHANGED registry, Len(slots') <= MaxSlots
       PROVE  TypeOK'
  <2>1. /\ session' = session /\ runtime' = runtime /\ granted' = granted /\ callback' \in {callback, backup}
        /\ backup' = NoView /\ env' = {} /\ aliases' = {}
    BY <1>11 DEF Raises, WindowsClose, process
  <2> QED
    BY <1>2, <1>3, <1>11, <2>1 DEF Lua, Held, Seen, Grants, SessionOK
<1>12. CASE ChunkRaises
  BY <1>2, <1>11, <1>12 DEF ChunkRaises, Held
<1>13. CASE ResolverLoaded \/ ChunkLoaded
  <2>1. /\ UNCHANGED <<session, runtime, granted, callback, callbackEnv, registry, slots>>
        /\ backup' = NoView /\ env' = {} /\ aliases' \in {aliases, {}}
    BY <1>13 DEF ResolverLoaded, ChunkLoaded, WindowsClose, process
  <2> QED
    BY <1>2, <1>3, <2>1 DEF Lua, Held, Seen, Grants, SessionOK
<1>14. CASE Answer
  <2>1. UNCHANGED <<session, runtime, granted, callback, backup, callbackEnv, registry, slots, aliases>>
        /\ env' = {}
    BY <1>14 DEF Answer, process, declared, resolver
  <2> QED
    BY <1>2, <1>3, <2>1 DEF Lua, Held, Seen, Grants, SessionOK
<1>15. CASE DeclareResolver
  <2>1. /\ UNCHANGED <<session, runtime, granted, backup, registry, slots, env, aliases>>
        /\ callback' = chunk /\ callbackEnv' = env /\ chunk \in Views
    BY <1>15 DEF DeclareResolver, process, windows, IInv, WindowsFollow, RunsChunk
  <2> QED
    BY <1>2, <1>3, <2>1 DEF Lua, Held, Seen, Grants, SessionOK
<1>16. ASSUME NEW slot, NEW left, NEW mark, Makes(slot, left, mark) PROVE TypeOK'
  <2>1. Len(slots) < MaxSlots /\ slots' = Append(slots, slot) /\ slot.kind \in Kinds
    BY <1>16 DEF Makes, Sound, Registers
  <2>2. Len(slots) \in Nat /\ Len(slots') = Len(slots) + 1
    BY <2>1, AppendFacts DEF IInv, RegistryFollows
  <2>3. Len(slots') <= MaxSlots /\ Len(slots) + 1 \in 1..MaxSlots
    BY <2>1, <2>2, SessionAssumption
  <2>4. CASE Registers(slot, mark)
    <3>1. /\ UNCHANGED <<session, runtime, granted, callback, backup, callbackEnv, env, aliases>>
          /\ registry' = [registry EXCEPT ![slot.kind] = @ \cup {Len(slots) + 1}]
      BY <2>4 DEF Registers, process, resolver, windows
    <3>2. Held'
      BY <1>2, <2>1, <2>3, <3>1 DEF Held
    <3> QED
      BY <1>2, <1>3, <3>1, <3>2 DEF Lua, Seen, Grants, SessionOK
  <2>5. CASE Refused(left) /\ RunsChunk
    BY <1>11, <2>3, <2>5 DEF Refused
  <2>6. CASE Refused(left) /\ ~RunsChunk
    <3>1. UNCHANGED <<session, runtime, granted, callback, backup, callbackEnv, env, aliases, registry>>
      BY <2>6 DEF Refused, process, resolver, windows
    <3> QED
      BY <1>2, <1>3, <2>3, <3>1 DEF Lua, Held, Seen, Grants, SessionOK
  <2> QED
    BY <1>16, <2>4, <2>5, <2>6 DEF Makes
<1> QED
  BY <1>5, <1>6, <1>7, <1>9, <1>10, <1>12, <1>13, <1>14, <1>15, <1>16, StepCases DEF Stops

LEMMA WindowsNext == ASSUME IInv, [Next]_vars PROVE WindowsFollow'
<1>1. WindowsFollow /\ PlaceFollows
  BY DEF IInv
<1>2. ASSUME ~RunsChunk, ~RunsChunk', UNCHANGED aliases, local' \in Local, ~local'.resolver
      PROVE  WindowsFollow'
  BY <1>1, <1>2 DEF WindowsFollow, RunsChunk
<1>3. ASSUME local' = NothingLocal, aliases' = {}, ~RunsChunk' PROVE WindowsFollow'
  <2>1. NothingLocal \in Local /\ ~NothingLocal.resolver
    BY DEF NothingLocal, Local
  <2> QED
    BY <1>3, <2>1 DEF WindowsFollow, RunsChunk
<1>4. CASE UNCHANGED vars
  BY <1>1, <1>4 DEF vars, quest, lua, declared, windows, modules, WindowsFollow, RunsChunk
<1>5. CASE Begun \/ Closes \/ Walks \/ Turns
  <2>1. ~RunsChunk /\ ~RunsChunk' /\ UNCHANGED <<local, aliases>>
    <3>1. CASE Begun
      BY <3>1 DEF Begun, BeginLoad, BeginUpdate, Begins, declared, windows, Goes, RunsChunk
    <3>2. CASE Closes
      BY <3>2 DEF Closes, DestroyRegistry, ShutDown, Forget, declared, windows, Goes, RunsChunk, Ended
    <3>3. CASE Walks
      BY <3>3, WalksFacts DEF RunsChunk
    <3>4. CASE Turns
      BY <3>4, TurnsFacts DEF RunsChunk
    <3> QED
      BY <1>5, <3>1, <3>2, <3>3, <3>4
  <2> QED
    BY <1>1, <1>2, <2>1 DEF WindowsFollow
<1>6. CASE Answer
  BY <1>1, <1>2, <1>6 DEF Answer, declared, Goes, RunsChunk, PlaceFollows, Asked, WindowsFollow
<1>7. ASSUME NEW view \in Views, NEW bindings, ChunkBegins(view, bindings),
             \/ pc' = "running" /\ aliases' = RequiredBy(view)
             \/ pc' = "resolver" /\ aliases' = {} /\ view = ViewOf(asking'.of.artifact)
      PROVE  WindowsFollow'
  <2>1. chunk' = view /\ env' = Declared[view].env /\ local' = NothingLocal
    BY <1>7 DEF ChunkBegins, OpenModules
  <2>2. NothingLocal \in Local /\ NothingLocal.resolver = FALSE
    BY DEF NothingLocal, Local
  <2> QED
    BY <1>7, <2>1, <2>2 DEF WindowsFollow, RunsChunk, RequiredBy
<1>8. CASE LoadResolver
  <2>1. PICK view : view = ViewOf(asking.of.artifact)
    OBVIOUS
  <2>2. view \in Views /\ ChunkBegins(view, <<>>)
    BY <1>8, <2>1, LoadingFacts DEF LoadResolver
  <2>3. pc' = "resolver" /\ aliases' = {} /\ asking' = asking
    BY <1>1, <1>8 DEF LoadResolver, quest, Goes, WindowsFollow
  <2> QED
    BY <1>7, <2>1, <2>2, <2>3
<1>9. CASE RunChunk
  BY <1>7, <1>9, LoadingFacts DEF RunChunk, Goes
<1>10. ASSUME Raises PROVE WindowsFollow'
  BY <1>3, <1>10 DEF Raises, WindowsClose, Goes, RunsChunk
<1>11. CASE Stops
  <2>1. ASSUME ResolverLoaded PROVE WindowsFollow'
    BY <1>1, <1>3, <2>1 DEF ResolverLoaded, Goes, RunsChunk, WindowsFollow
  <2>2. ASSUME ChunkLoaded PROVE WindowsFollow'
    BY <1>3, <2>2 DEF ChunkLoaded, WindowsClose, Goes, RunsChunk
  <2> QED
    BY <1>10, <1>11, <2>1, <2>2 DEF Stops, ChunkRaises
<1>12. ASSUME RunsChunk, UNCHANGED <<pc, asking, env, aliases, chunk>>, local' \in Local,
              pc = "running" => ~local'.resolver
       PROVE  WindowsFollow'
  BY <1>1, <1>12 DEF WindowsFollow, RunsChunk, RequiredBy
<1>13. CASE Requires
  <2>1. RunsChunk /\ UNCHANGED <<pc, asking, env, aliases, local>>
    BY <1>13 DEF Requires, quest, declared, windows
  <2>2. chunk' = chunk
    <3>1. chunk \in Views
      BY <1>1, <2>1 DEF WindowsFollow
    <3> QED
      BY <1>13, <3>1, RequireInv DEF IInv
  <2> QED
    BY <1>1, <1>12, <2>1, <2>2 DEF WindowsFollow
<1>14. CASE DeclareResolver
  <2>1. RunsChunk /\ pc = "resolver" /\ UNCHANGED <<pc, asking, env, aliases, chunk>>
        /\ local' = [local EXCEPT !.resolver = TRUE]
    BY <1>14 DEF DeclareResolver, quest, windows, modules, RunsChunk
  <2>2. local' \in Local
    BY <1>1, <2>1 DEF WindowsFollow, Local
  <2> QED
    BY <1>12, <2>1, <2>2
<1>15. ASSUME NEW slot, NEW left, NEW mark, Makes(slot, left, mark) PROVE WindowsFollow'
  <2>1. /\ left \in Local /\ ~left.resolver /\ mark \in Local /\ ~mark.resolver
    BY <1>15 DEF Makes, Leaves
  <2>2. CASE Registers(slot, mark)
    <3>1. UNCHANGED <<pc, asking, env, aliases, chunk>> /\ local' = mark
      BY <2>2 DEF Registers, quest, windows, modules
    <3>2. CASE RunsChunk
      BY <1>12, <2>1, <3>1, <3>2
    <3>3. CASE ~RunsChunk
      BY <1>2, <2>1, <3>1, <3>3 DEF RunsChunk
    <3> QED
      BY <3>2, <3>3
  <2>3. CASE Refused(left) /\ RunsChunk
    BY <1>10, <2>3 DEF Refused
  <2>4. CASE Refused(left) /\ ~RunsChunk
    <3>1. UNCHANGED aliases /\ local' = left /\ pc' \in {pc, "failed"}
      BY <2>4 DEF Refused, windows, Goes
    <3> QED
      BY <1>2, <2>1, <2>4, <3>1 DEF RunsChunk
  <2> QED
    BY <1>15, <2>2, <2>3, <2>4 DEF Makes
<1> QED
  BY <1>4, <1>5, <1>6, <1>8, <1>9, <1>11, <1>13, <1>14, <1>15, StepCases

-----------------------------------------------------------------------------
(* The callback that answers for a resolver, and its memo.                 *)

LEMMA ResolverNext == ASSUME IInv, [Next]_vars PROVE ResolverFollows'
<1>1. ResolverFollows /\ WindowsFollow /\ PlaceFollows
  BY DEF IInv
<1>2. NothingLocal.resolver = FALSE
  BY DEF NothingLocal
<1> DEFINE Holds == memo # NoMemo => /\ callback = ViewOf(memo[2][2])
                                     /\ callbackEnv = Declared[callback].env
<1>3. ASSUME UNCHANGED <<memo, callback, callbackEnv>>, pc \in Working, local.resolver = FALSE,
             local'.resolver = FALSE, pc' \notin {"closed", "cleared", "manifest", "calling"}
      PROVE  ResolverFollows'
  <2>1. Holds /\ (Holds <=> Holds')
    BY <1>1, <1>3 DEF ResolverFollows
  <2> QED
    BY <1>3, <2>1 DEF ResolverFollows, ResolverIsItsOwn
<1>4. ASSUME pc' \notin Working, pc' \in {"closed", "cleared", "manifest"} => memo' = NoMemo
      PROVE  ResolverFollows'
  BY <1>4 DEF ResolverFollows, ResolverIsItsOwn, Working, Asked
<1>5. ASSUME UNCHANGED <<pc, memo, callback, callbackEnv, chunk, asking>>,
             local'.resolver = local.resolver
      PROVE  ResolverFollows'
  BY <1>1, <1>5 DEF ResolverFollows, ResolverIsItsOwn
<1>6. CASE UNCHANGED vars
  BY <1>5, <1>6 DEF vars, quest, lua, declared, resolver, modules
<1>7. CASE Begun
  <2>1. memo' = NoMemo /\ pc' = "manifest"
    BY <1>1, <1>7 DEF Begun, BeginLoad, BeginUpdate, Begins, Goes, ResolverFollows, resolver
  <2> QED
    BY <1>4, <2>1 DEF Working, Asked
<1>8. CASE Closes
  <2>1. /\ pc' \in {"closing", "clearing", "cleared", "closed"}
        /\ pc' \in {"closed", "cleared"} => memo' = NoMemo
    BY <1>1, <1>8 DEF Closes, DestroyRegistry, ShutDown, Forget, resolver, Goes, Ended, ResolverFollows
  <2> QED
    BY <1>4, <2>1 DEF Working, Asked
<1>9. CASE Walks
  <2>1. /\ UNCHANGED <<memo, callback, callbackEnv, local>> /\ pc \in Working /\ ~RunsChunk
        /\ pc' \in (Working \cup {"open"}) \ {"running", "resolver"}
        /\ pc' = "calling" => CallRemembered
    BY <1>9, WalksFacts
  <2>2. local.resolver = FALSE /\ local'.resolver = FALSE
    BY <1>1, <2>1 DEF WindowsFollow, Local
  <2>3. CASE pc' # "calling"
    BY <1>2, <1>3, <2>1, <2>2, <2>3 DEF Working, Asked
  <2>4. CASE pc' = "calling"
    <3>1. pc = "asking" /\ memo = MemoOf(asking.of) /\ asking' = asking
      BY <2>1, <2>4 DEF CallRemembered, Remembered, quest
    <3>2. AtAnEntry /\ asking.of \in Resolvers
      BY <1>1, <3>1 DEF PlaceFollows, Working, Asked
    <3>3. asking.of.source[2] = asking.of.artifact
      BY <3>2, EntryFacts
    <3>4. memo # NoMemo /\ memo[2][2] = asking.of.artifact
      BY <3>1, <3>3 DEF MemoOf, NoMemo
    <3>5. callback = ViewOf(asking.of.artifact) /\ callbackEnv = Declared[callback].env
      BY <1>1, <1>2, <2>1, <2>2, <3>4 DEF ResolverFollows
    <3>6. ResolverIsItsOwn'
      BY <2>1, <3>1, <3>5 DEF ResolverIsItsOwn
    <3>7. Holds /\ (Holds <=> Holds')
      BY <2>1, <3>4, <3>5
    <3> QED
      BY <2>4, <3>6, <3>7 DEF ResolverFollows
  <2> QED
    BY <2>3, <2>4
<1>10. CASE LoadResolver \/ RunChunk
  <2>1. /\ UNCHANGED <<memo, callback, callbackEnv>> /\ pc \in {"asking", "acquiring"}
        /\ pc' \in {"resolver", "running"} /\ local' = NothingLocal
    BY <1>10 DEF LoadResolver, RunChunk, ChunkBegins, Goes
  <2>2. local.resolver = FALSE
    BY <1>1, <2>1 DEF WindowsFollow, RunsChunk, Local
  <2> QED
    BY <1>2, <1>3, <2>1, <2>2 DEF Working, Asked
<1>11. CASE ResolverLoaded
  <2>1. CASE local.resolver
    <3>1. /\ pc = "resolver" /\ pc' = "calling" /\ memo' = MemoOf(asking.of) /\ asking' = asking
          /\ UNCHANGED <<callback, callbackEnv>>
      BY <1>11, <2>1 DEF ResolverLoaded, quest, Goes
    <3>2. AtAnEntry /\ asking.of \in Resolvers
      BY <1>1, <3>1 DEF PlaceFollows, Working, Asked
    <3>3. asking.of.source[2] = asking.of.artifact
      BY <3>2, EntryFacts
    <3>4. memo'[2][2] = asking.of.artifact
      BY <3>1, <3>3 DEF MemoOf
    <3>5. callback = ViewOf(asking.of.artifact) /\ callbackEnv = Declared[callback].env
      BY <1>1, <2>1, <3>1 DEF ResolverFollows, WindowsFollow
    <3>6. ResolverIsItsOwn'
      BY <3>1, <3>5 DEF ResolverIsItsOwn
    <3> QED
      BY <3>1, <3>4, <3>5, <3>6 DEF ResolverFollows
  <2>2. CASE ~local.resolver
    BY <1>4, <1>11, <2>2 DEF ResolverLoaded, Goes, Working, Asked
  <2> QED
    BY <2>1, <2>2
<1>12. CASE ChunkLoaded
  <2>1. /\ pc = "running" /\ UNCHANGED <<memo, callback, callbackEnv>> /\ local' = NothingLocal
        /\ pc' \in {"chunk", "entry", "overlays"}
    BY <1>12 DEF ChunkLoaded, Goes
  <2>2. local.resolver = FALSE
    BY <1>1, <2>1 DEF WindowsFollow, Local
  <2> QED
    BY <1>2, <1>3, <2>1, <2>2 DEF Working, Asked
<1>13. ASSUME Raises PROVE ResolverFollows'
  BY <1>4, <1>13 DEF Raises, Goes, Working, Asked
<1>14. CASE Answer
  <2>1. /\ pc = "calling" /\ pc' \in {"acquired", "discarded", "acquiring"}
        /\ UNCHANGED <<memo, callback, callbackEnv, local>>
    BY <1>1, <1>14 DEF Answer, Goes, declared, resolver, PlaceFollows, Asked
  <2>2. local.resolver = FALSE
    BY <1>1, <2>1 DEF WindowsFollow, RunsChunk, Local
  <2> QED
    BY <1>2, <1>3, <2>1, <2>2 DEF Working, Asked
<1>15. CASE Requires
  <2>1. chunk \in Views
    BY <1>1, <1>15 DEF Requires, WindowsFollow
  <2>2. chunk' = chunk
    BY <1>15, <2>1, RequireInv DEF IInv
  <2> QED
    BY <1>5, <1>15, <2>2 DEF Requires, quest, declared, resolver
<1>16. CASE DeclareResolver
  <2>1. /\ pc = "resolver" /\ pc' = pc /\ callback' = chunk /\ callbackEnv' = env /\ chunk' = chunk
        /\ local' = [local EXCEPT !.resolver = TRUE] /\ env = Declared[chunk].env /\ local \in Local
    BY <1>1, <1>16 DEF DeclareResolver, modules, WindowsFollow, RunsChunk
  <2>2. local'.resolver = TRUE
    BY <2>1 DEF Local
  <2> QED
    BY <2>1, <2>2 DEF ResolverFollows, ResolverIsItsOwn
<1>17. ASSUME NEW slot, NEW left, NEW mark, Makes(slot, left, mark) PROVE ResolverFollows'
  <2>1. /\ local.resolver = FALSE /\ left.resolver = FALSE /\ mark.resolver = FALSE
    BY <1>17 DEF Makes, Leaves
  <2>2. CASE Registers(slot, mark)
    <3>1. UNCHANGED <<pc, memo, callback, callbackEnv, chunk, asking>> /\ local' = mark
      BY <2>2 DEF Registers, resolver, quest, modules
    <3> QED
      BY <1>5, <2>1, <3>1
  <2>3. CASE Refused(left) /\ RunsChunk
    BY <1>13, <2>3 DEF Refused
  <2>4. CASE Refused(left) /\ ~RunsChunk /\ pc = "open"
    <3>1. UNCHANGED <<pc, memo, callback, callbackEnv, chunk, asking>> /\ local' = left
      BY <2>4 DEF Refused, resolver, quest, modules
    <3> QED
      BY <1>5, <2>1, <3>1
  <2>5. CASE Refused(left) /\ ~RunsChunk /\ pc # "open"
    <3>1. pc' = "failed"
      BY <2>5 DEF Refused, Goes
    <3> QED
      BY <1>4, <3>1 DEF Working, Asked
  <2> QED
    BY <1>17, <2>2, <2>3, <2>4, <2>5 DEF Makes
<1>18. CASE Turns
  <2>1. CASE pc' # "entry"
    <3>1. pc' \in {"overlays", "open", "failed"}
      BY <1>18, <2>1, TurnsFacts
    <3> QED
      BY <1>4, <3>1 DEF Working, Asked
  <2>2. CASE pc' = "entry"
    <3>1. pc = "manifest" /\ (memo = NoMemo => memo' = NoMemo)
      BY <1>18, <2>2, TurnsFacts
    <3>2. memo' = NoMemo
      BY <1>1, <3>1 DEF ResolverFollows
    <3> QED
      BY <2>2, <3>2 DEF ResolverFollows, ResolverIsItsOwn
  <2> QED
    BY <2>1, <2>2
<1> QED
  BY <1>6, <1>7, <1>8, <1>9, <1>10, <1>11, <1>12, <1>13, <1>14, <1>15, <1>16, <1>17, <1>18, StepCases
  DEF Stops, ChunkRaises

-----------------------------------------------------------------------------
(* What is registered.                                                     *)

\* A slot that is put behind the others changes nothing about them.
LEMMA SlotsGrow ==
  ASSUME IInv, NEW slot, slots' = Append(slots, slot), NEW k \in DOMAIN slots
  PROVE  /\ k \in DOMAIN slots' /\ slots'[k] = slots[k]
         /\ ToolchainsAbove(k) \subseteq ToolchainsAbove(k)'
<1>1. /\ DOMAIN slots = 1..Len(slots) /\ Len(slots) \in Nat
      /\ DOMAIN slots' = 1..Len(slots) + 1 /\ \A j \in 1..Len(slots) : slots'[j] = slots[j]
  BY AppendFacts DEF IInv, RegistryFollows
<1>2. \A j \in 1..k - 1 : slots'[j] = slots[j]
  BY <1>1
<1>3. k \in DOMAIN slots' /\ slots'[k] = slots[k]
  BY <1>1
<1> QED
  BY <1>2, <1>3 DEF ToolchainsAbove

\* What one that is registered must satisfy.
WholeAt(kind, k) ==
  /\ runtime /\ k \in DOMAIN slots
  /\ slots[k].kind = kind
  /\ \/ Scripted(slots[k])
     \/ /\ slots[k].text = slots[k].chunk
        /\ slots[k].env \subseteq Declared[slots[k].chunk].env
        /\ \/ slots[k].late
           \/ /\ slots[k].env = Declared[slots[k].chunk].env
              /\ slots[k].owners \subseteq ToolchainsAbove(k) \cup RequiredBy(slots[k].chunk)
LEMMA WholeIsEach ==
  RegisteredIsWhole <=>
    (~(session = "update" /\ pc \in {"clearing", "cleared"}) =>
       \A kind \in Kinds : \A k \in registry[kind] : WholeAt(kind, k))
BY DEF RegisteredIsWhole, WholeAt

LEMMA WholeGrows ==
  ASSUME IInv, NEW slot, slots' = Append(slots, slot), runtime' = runtime,
         NEW kind, NEW k, WholeAt(kind, k)
  PROVE  WholeAt(kind, k)'
<1>1. /\ k \in DOMAIN slots' /\ slots'[k] = slots[k] /\ runtime'
      /\ ToolchainsAbove(k) \subseteq ToolchainsAbove(k)'
  BY SlotsGrow DEF WholeAt
<1>2. PICK it : it = slots[k]
  OBVIOUS
<1>3. slots'[k] = it
  BY <1>1, <1>2
<1>4. Scripted(it)' <=> Scripted(it)
  BY DEF Scripted
<1> QED
  BY <1>1, <1>2, <1>3 DEF WholeAt, Scripted, RequiredBy

\* The slot that was declared is whole, and so are those of the toolchains above it.
LEMMA RegistersWhole ==
  ASSUME IInv, NEW slot, NEW mark, runtime, Sound(slot), Leaves(slot, mark), Registers(slot, mark),
         pc \in {"running", "resolver", "calling", "open", "manifest", "overlays"}
  PROVE  RegistryFollows'
<1> PICK n : n = Len(slots)
  OBVIOUS
<1>1. /\ slots' = Append(slots, slot) /\ local' = mark
      /\ registry' = [registry EXCEPT ![slot.kind] = @ \cup {n + 1}]
      /\ UNCHANGED <<session, pc, runtime, chunk, env, aliases>>
  BY DEF Registers, process, windows, modules
<1>2. /\ IsSeq(slots') /\ n \in Nat /\ DOMAIN slots = 1..n /\ DOMAIN slots' = 1..n + 1
      /\ slots'[n + 1] = slot /\ \A j \in 1..n : slots'[j] = slots[j]
  BY <1>1, AppendFacts DEF IInv, RegistryFollows
<1>3. registry \in [Kinds -> SUBSET (1..MaxSlots)] /\ slot.kind \in Kinds
  BY DEF IInv, TypeOK, Sound
<1>4. ASSUME RunsChunk
      PROVE  /\ aliases \subseteq RequiredBy(chunk) /\ Mine(slot) /\ slot.text = slot.chunk
             /\ \A name \in local.toolchains : IsDeclared(name)
  BY <1>4 DEF IInv, WindowsFollow, RegistryFollows, RunsChunk, Sound
<1>5. ASSUME RunsChunk, NEW name \in local'.toolchains PROVE IsDeclared(name)'
  <2>1. CASE name \in local.toolchains
    <3>1. PICK j \in DOMAIN slots : /\ slots[j].kind = "toolchain" /\ slots[j].name[2] = name
                                    /\ slots[j].chunk = chunk /\ ~slots[j].late
      BY <1>4, <1>5, <2>1 DEF IsDeclared
    <3>2. j \in DOMAIN slots' /\ slots'[j] = slots[j]
      BY <1>2
    <3> QED
      BY <1>1, <3>1, <3>2 DEF IsDeclared
  <2>2. CASE slot.kind = "toolchain" /\ slot.name[2] = name
    <3>1. n + 1 \in DOMAIN slots'
      BY <1>2
    <3>2. slot.chunk = chunk /\ ~slot.late
      BY <1>4, <1>5 DEF Mine
    <3> QED
      BY <1>1, <1>2, <2>2, <3>1, <3>2 DEF IsDeclared
  <2> QED
    BY <1>1, <1>5, <2>1, <2>2 DEF Leaves
<1>6. ASSUME RunsChunk PROVE local.toolchains \subseteq ToolchainsAbove(n + 1)'
  <2> SUFFICES ASSUME NEW name \in local.toolchains PROVE name \in ToolchainsAbove(n + 1)'
    OBVIOUS
  <2>1. PICK j \in 1..n : /\ slots[j].kind = "toolchain" /\ slots[j].name[2] = name
                          /\ slots[j].chunk = chunk /\ ~slots[j].late
    BY <1>2, <1>4, <1>6 DEF IsDeclared
  <2>2. j \in 1..(n + 1) - 1 /\ slots'[j] = slots[j]
    BY <1>2
  <2>3. slot.chunk = chunk
    BY <1>4, <1>6 DEF Mine
  <2> QED
    BY <1>2, <2>1, <2>2, <2>3 DEF ToolchainsAbove
<1>7. WholeAt(slot.kind, n + 1)'
  <2>1. n + 1 \in DOMAIN slots' /\ runtime' /\ slots'[n + 1] = slot
    BY <1>1, <1>2
  <2>2. CASE ~RunsChunk
    <3>1. \/ Scripted(slot)
          \/ slot.text = slot.chunk /\ slot.env \subseteq Declared[slot.chunk].env /\ slot.late
      BY <2>2 DEF Sound, Mine
    <3> QED
      BY <2>1, <3>1 DEF WholeAt, Scripted
  <2>3. CASE RunsChunk
    <3>1. /\ slot.text = slot.chunk /\ slot.chunk = chunk /\ slot.env = Declared[chunk].env
          /\ slot.owners \subseteq ToolchainsAbove(n + 1)' \cup RequiredBy(chunk)
      BY <1>4, <1>6, <2>3 DEF Mine
    <3> QED
      BY <2>1, <3>1 DEF WholeAt, RequiredBy
  <2> QED
    BY <2>2, <2>3
<1>8. pc \notin {"closed", "closing", "clearing", "cleared"}
  OBVIOUS
<1>9. ASSUME NEW kind \in Kinds, NEW k \in registry'[kind] PROVE WholeAt(kind, k)'
  <2>1. CASE k \in registry[kind]
    <3>1. WholeAt(kind, k)
      BY <1>8, <2>1, WholeIsEach DEF IInv, RegistryFollows
    <3> QED
      BY <1>1, <3>1, WholeGrows
  <2>2. CASE k \notin registry[kind]
    <3>1. k = n + 1 /\ kind = slot.kind
      BY <1>1, <1>3, <2>2
    <3> QED
      BY <1>7, <3>1
  <2> QED
    BY <2>1, <2>2
<1>10. RegisteredIsWhole'
  BY <1>9 DEF RegisteredIsWhole, WholeAt
<1> QED
  BY <1>1, <1>2, <1>5, <1>8, <1>10 DEF RegistryFollows, RunsChunk

LEMMA RegistryNext == ASSUME IInv, [Next]_vars PROVE RegistryFollows'
<1>1. RegistryFollows /\ WindowsFollow /\ PlaceFollows
  BY DEF IInv
<1>2. NothingLocal.toolchains = {}
  BY DEF NothingLocal
<1>3. ASSUME UNCHANGED <<registry, slots, session>>, runtime => runtime',
             \/ UNCHANGED <<local, chunk, pc>>
             \/ local' = NothingLocal
             \/ ~RunsChunk',
             \/ pc' = pc
             \/ pc' \notin {"closed", "closing", "clearing", "cleared"}
                /\ pc \notin {"clearing", "cleared"}
      PROVE  RegistryFollows'
  <2>1. RegisteredIsWhole'
    BY <1>1, <1>3 DEF RegistryFollows, RegisteredIsWhole, ToolchainsAbove, Scripted
  <2>2. IsSeq(slots')
    BY <1>1, <1>3 DEF RegistryFollows
  <2>3. Emptied' <=> Emptied
    BY <1>3 DEF Emptied
  <2>4. RunsChunk' => \A name \in local'.toolchains : IsDeclared(name)'
    <3>1. CASE UNCHANGED <<local, chunk, pc>>
      BY <1>1, <1>3, <3>1 DEF RegistryFollows, IsDeclared, RunsChunk
    <3> QED
      BY <1>2, <1>3, <3>1
  <2> QED
    BY <1>1, <1>3, <2>1, <2>2, <2>3, <2>4 DEF RegistryFollows
<1>4. ASSUME Emptied', IsSeq(slots'), ~RunsChunk' PROVE RegistryFollows'
  BY <1>4 DEF RegistryFollows, Emptied, RegisteredIsWhole
<1>5. CASE UNCHANGED vars
  BY <1>3, <1>5 DEF vars, process, lua, declared, modules
<1>6. CASE Begun
  <2>1. pc = "closed" /\ pc' = "manifest" /\ UNCHANGED <<registry, slots>>
    BY <1>6 DEF Begun, BeginLoad, BeginUpdate, Begins, declared, Goes
  <2>2. Emptied' /\ IsSeq(slots') /\ ~RunsChunk'
    BY <1>1, <2>1 DEF RegistryFollows, RunsChunk, Emptied
  <2> QED
    BY <1>4, <2>2
<1>7. IsSeq(<<>>)
  BY DEF IsSeq
<1>8. CASE Closes
  <2>1. ~RunsChunk' /\ IsSeq(slots')
    <3>1. ~RunsChunk' /\ slots' \in {slots, <<>>}
      BY <1>8 DEF Closes, DestroyRegistry, ShutDown, Forget, Goes, RunsChunk, declared
    <3> QED
      BY <1>1, <1>7, <3>1 DEF RegistryFollows
  <2>2. CASE DestroyRegistry
    <3>1. Emptied'
      BY <2>2 DEF DestroyRegistry, Emptied
    <3> QED
      BY <1>4, <2>1, <3>1
  <2>3. CASE ShutDown
    <3>1. pc' = "clearing" /\ session' = session /\ registry' = registry
      BY <2>3 DEF ShutDown, Goes, process
    <3>2. CASE session = "update"
      BY <2>1, <3>1, <3>2 DEF RegistryFollows, RegisteredIsWhole
    <3>3. CASE session # "update"
      <4>1. Emptied'
        BY <1>1, <2>3, <3>1, <3>3 DEF ShutDown, RegistryFollows, Emptied
      <4> QED
        BY <1>4, <2>1, <4>1
    <3> QED
      BY <3>2, <3>3
  <2>4. CASE Forget
    <3>1. /\ pc = "clearing" /\ pc' = IF session = "load" THEN "closed" ELSE "cleared"
          /\ session' = session /\ registry' = registry
      BY <2>4 DEF Forget, Goes, declared
    <3>2. CASE session = "load"
      <4>1. Emptied'
        BY <1>1, <3>1, <3>2 DEF RegistryFollows, Emptied
      <4> QED
        BY <1>4, <2>1, <4>1
    <3>3. CASE session # "load"
      <4>1. session = "update"
        BY <1>1, <3>1, <3>3 DEF PlaceFollows, IInv, TypeOK
      <4> QED
        BY <2>1, <3>1, <3>3, <4>1 DEF RegistryFollows, RegisteredIsWhole
    <3> QED
      BY <3>2, <3>3
  <2> QED
    BY <1>8, <2>2, <2>3, <2>4 DEF Closes
<1>9. CASE Walks
  <2>1. /\ UNCHANGED <<registry, slots, session, runtime>> /\ pc \in Working
        /\ pc' \in (Working \cup {"open"}) \ {"running", "resolver"}
    BY <1>9, WalksFacts
  <2> QED
    BY <1>3, <2>1 DEF RunsChunk, Working, Asked
<1>10. CASE LoadResolver \/ RunChunk
  BY <1>3, <1>10 DEF LoadResolver, RunChunk, ChunkBegins, process, Goes
<1>11. CASE ResolverLoaded \/ ChunkLoaded
  BY <1>3, <1>11 DEF ResolverLoaded, ChunkLoaded, process, Goes
<1>12. CASE ChunkRaises
  BY <1>3, <1>12 DEF ChunkRaises, Raises, RunsChunk, process, Goes
<1>13. CASE Answer
  <2>1. /\ UNCHANGED <<registry, slots, session, runtime>> /\ pc = "calling"
        /\ pc' \in {"acquired", "discarded", "acquiring"}
    BY <1>1, <1>13 DEF Answer, process, declared, Goes, PlaceFollows, Asked
  <2> QED
    BY <1>3, <2>1 DEF RunsChunk
<1>14. CASE Requires
  <2>1. chunk \in Views
    BY <1>1, <1>14 DEF Requires, WindowsFollow
  <2>2. chunk' = chunk
    BY <1>14, <2>1, RequireInv DEF IInv
  <2> QED
    BY <1>3, <1>14, <2>2 DEF Requires, process, declared
<1>15. CASE DeclareResolver
  <2>1. /\ UNCHANGED <<registry, slots, runtime, session, chunk, pc>>
        /\ local' = [local EXCEPT !.resolver = TRUE] /\ local \in Local
    BY <1>1, <1>15 DEF DeclareResolver, process, modules, WindowsFollow
  <2>2. local'.toolchains = local.toolchains
    BY <2>1 DEF Local
  <2>3. RegisteredIsWhole'
    BY <1>1, <2>1 DEF RegistryFollows, RegisteredIsWhole, ToolchainsAbove, Scripted
  <2> QED
    BY <1>1, <2>1, <2>2, <2>3 DEF RegistryFollows, Emptied, IsDeclared, RunsChunk
<1>16. ASSUME NEW slot, NEW left, NEW mark, Makes(slot, left, mark) PROVE RegistryFollows'
  <2>1. /\ runtime /\ Sound(slot) /\ Leaves(slot, mark)
        /\ pc \in {"running", "resolver", "calling", "open", "manifest", "overlays"}
    BY <1>16 DEF Makes, RunsChunk
  <2>2. CASE Registers(slot, mark)
    BY <2>1, <2>2, RegistersWhole
  <2>3. CASE slots' = Append(slots, slot) /\ Refused(left)
    <3>1. /\ slots' = Append(slots, slot) /\ registry' = registry
          /\ runtime' = runtime /\ session' = session /\ pc' \in {pc, "failed"}
          /\ ~RunsChunk'
      BY <2>3 DEF Refused, Raises, process, Goes, RunsChunk
    <3>2. IsSeq(slots')
      BY <1>1, <3>1, AppendFacts DEF RegistryFollows
    <3>3. ASSUME NEW kind \in Kinds, NEW k \in registry[kind] PROVE WholeAt(kind, k)'
      <4>1. WholeAt(kind, k)
        BY <1>1, <2>1, <3>3, WholeIsEach DEF RegistryFollows
      <4> QED
        BY <3>1, <4>1, WholeGrows
    <3>4. RegisteredIsWhole'
      BY <3>1, <3>3 DEF RegisteredIsWhole, WholeAt
    <3> QED
      BY <2>1, <3>1, <3>2, <3>4 DEF RegistryFollows
  <2> QED
    BY <1>16, <2>2, <2>3 DEF Makes
<1>17. CASE Turns
  <2>1. /\ UNCHANGED <<registry, slots, session>> /\ runtime' \in {runtime, TRUE}
        /\ pc \in Working \cup {"manifest", "overlays"}
        /\ pc' \in {"entry", "overlays", "open", "failed"}
    BY <1>17, TurnsFacts
  <2>2. runtime => runtime'
    BY <2>1
  <2>3. /\ ~RunsChunk' /\ pc' \notin {"closed", "closing", "clearing", "cleared"}
        /\ pc \notin {"clearing", "cleared"}
    BY <2>1 DEF RunsChunk, Working, Asked
  <2> QED
    BY <1>3, <2>1, <2>2, <2>3
<1> QED
  BY <1>5, <1>6, <1>8, <1>9, <1>10, <1>11, <1>12, <1>13, <1>14, <1>15, <1>16, <1>17, StepCases DEF Stops

-----------------------------------------------------------------------------
(* The theorems.                                                           *)

LEMMA InitIInv == ASSUME Init PROVE IInv
<1>1. ModulesInv
  <2>1. /\ chunk = NoView /\ bound = <<>> /\ kept = <<>> /\ owners = <<>> /\ calls = <<>>
        /\ given = NothingGiven
    BY DEF Init, ModulesInit
  <2>2. ModulesOK
    BY <2>1, ModulesAssumption DEF ModulesOK
  <2>3. Targets(<<>>) = {} /\ NoView \notin Libraries(<<>>)
    BY ModulesAssumption DEF Targets, Libraries
  <2>4. LibrariesApart /\ KeptOnce /\ CallsMeant /\ RequiresReachTheirOwn
    BY <2>1, <2>3 DEF LibrariesApart, KeptOnce, CallsMeant, RequiresReachTheirOwn
  <2>5. Nested
    <3> DEFINE none == [k \in 0..0 |-> 0]
    <3>1. NestedIn(none, <<>>, <<>>, NoView)
      BY DEF NestedIn
    <3>2. none \in [0..Len(<<>>) -> 0..Len(<<>>)]
      OBVIOUS
    <3> QED
      BY <2>1, <3>1, <3>2 DEF Nested
  <2> QED
    BY <2>2, <2>4, <2>5 DEF ModulesInv
<1>2. /\ session = "none" /\ pc = "closed" /\ at = 1 /\ runtime = FALSE /\ granted = {}
      /\ registry = [kind \in Kinds |-> {}] /\ slots = <<>> /\ local = NothingLocal
      /\ callback = NoView /\ callbackEnv = {} /\ backup = NoView /\ memo = NoMemo
      /\ env = {} /\ aliases = {}
  BY DEF Init
<1>3. TypeOK
  <2>1. Len(<<>>) <= MaxSlots
    BY SessionAssumption
  <2> QED
    BY <1>1, <1>2, <2>1 DEF TypeOK, ModulesInv
<1>4. PlaceFollows
  BY <1>2 DEF PlaceFollows, Pcs, Working, Asked, AtAChunk
<1>5. WindowsFollow
  <2>1. NothingLocal \in Local /\ ~NothingLocal.resolver
    BY DEF NothingLocal, Local
  <2> QED
    BY <1>2, <2>1 DEF WindowsFollow, RunsChunk
<1>6. ResolverFollows
  BY <1>2 DEF ResolverFollows, ResolverIsItsOwn, Working, Asked
<1>7. RegistryFollows
  <2>1. IsSeq(<<>>)
    BY DEF IsSeq
  <2>2. Emptied
    BY <1>2 DEF Emptied
  <2> QED
    BY <1>2, <2>1, <2>2 DEF RegistryFollows, RegisteredIsWhole, Emptied, RunsChunk
<1> QED
  BY <1>1, <1>3, <1>4, <1>5, <1>6, <1>7 DEF IInv

\* The inductive invariant holds, whatever the manifests and the chunks say and
\* whatever the limits are.
THEOREM SessionInductive == Spec => []IInv
<1>1. IInv /\ [Next]_vars => IInv'
  BY TypeNext, ModulesNext, PlaceNext, WindowsNext, ResolverNext, RegistryNext DEF IInv
<1> QED
  BY InitIInv, <1>1, PTL DEF Spec

\* Types: above all that no slot is registered beyond FR_LUA_MAX_PLUGINS, and no
\* credential is in a window that no chunk declared (plugins.c, config_declare.c).
THEOREM SessionTypeCorrect == Spec => []TypeOK
<1>1. IInv => TypeOK
  BY DEF IInv
<1> QED
  BY <1>1, SessionInductive, PTL

\* Whatever was loaded since and however a chunk ended, a resolver is answered by
\* the callback of its own chunk, with that chunk's credentials (resolvers.c).
THEOREM SessionResolverIsItsOwn == Spec => []ResolverIsItsOwn
<1>1. IInv => ResolverIsItsOwn
  BY DEF IInv, ResolverFollows
<1> QED
  BY <1>1, SessionInductive, PTL

\* Nothing in the registry outlives its slot or its runtime, was declared by a
\* library, or carries a credential its chunk did not declare, be it declared by a
\* chunk that is loaded, by a callback at any time after, or by a script. What a chunk
\* declared while it was loaded carries all of its credentials, and names as an owner
\* only what that chunk declared or requires (config_declare*.c, registry.c).
THEOREM SessionRegisteredIsWhole == Spec => []RegisteredIsWhole
<1>1. IInv => RegisteredIsWhole
  BY DEF IInv, RegistryFollows
<1> QED
  BY <1>1, SessionInductive, PTL

\* daukle.require answers with what the text that requires means by the name,
\* however the requires are nested (lua_modules.c).
THEOREM SessionRequiresReachTheirOwn == Spec => []RequiresReachTheirOwn
<1>1. IInv => RequiresReachTheirOwn
  BY DEF IInv, ModulesInv
<1> QED
  BY <1>1, SessionInductive, PTL

\* No module runs twice in a load, and only the plugin's own texts run outside the
\* library environment (lua_modules.c).
THEOREM SessionEachRunsOnce == Spec => []EachRunsOnce
<1>1. ASSUME ModulesInv, NEW k \in DOMAIN calls
      PROVE  calls[k].library <=> calls[k].text # chunk
  <2> PICK depth \in [0..Len(calls) -> 0..Len(owners)] : NestedIn(depth, calls, owners, chunk)
    BY <1>1 DEF Nested, ModulesInv
  <2>1. /\ calls \in Seq(Call) /\ owners \in Seq(Views) /\ DOMAIN owners = 1..Len(owners)
        /\ Len(owners) \in Nat /\ k \in 1..Len(calls)
    BY <1>1 DEF ModulesInv, ModulesOK
  <2>2. /\ calls[k].text = IF depth[k] = 0 THEN chunk ELSE owners[depth[k]]
        /\ calls[k].library <=> depth[k] # 0
    BY <2>1 DEF NestedIn
  <2>3. depth[k] \in 0..Len(owners)
    BY <2>1
  <2>4. \A j \in DOMAIN owners : owners[j] # chunk
    BY <1>1 DEF ModulesInv, LibrariesApart
  <2>5. depth[k] # 0 => owners[depth[k]] # chunk
    BY <2>1, <2>3, <2>4
  <2> QED
    BY <2>2, <2>5
<1>2. IInv => EachRunsOnce
  BY <1>1 DEF IInv, ModulesInv, KeptOnce, EachRunsOnce
<1> QED
  BY <1>2, SessionInductive, PTL
=============================================================================
