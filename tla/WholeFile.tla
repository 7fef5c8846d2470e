----------------------------- MODULE WholeFile ------------------------------
(***************************************************************************)
(* What src/cache/cache.c promises of a file it keeps: the file is absent  *)
(* or holds one text whole. A write that succeeds puts its text there, one *)
(* that fails or dies leaves what was there, and a reader gets what the    *)
(* file held at one moment.                                                *)
(***************************************************************************)
CONSTANTS Writers, Readers, Texts,
          NoText                    \* no file, or no write in progress

VARIABLES value,                    \* what the file holds
          writing,                  \* per writer, the text being written
          outcome,                  \* per writer, how its last write ended
          seen                      \* per reader, what it has been given
wholeVars == <<value, writing, outcome, seen>>

Init ==
  /\ value = NoText
  /\ writing = [w \in Writers |-> NoText]
  /\ outcome = [w \in Writers |-> "none"]
  /\ seen = [r \in Readers |-> NoText]

Begin(w, text) ==
  /\ writing[w] = NoText
  /\ writing' = [writing EXCEPT ![w] = text]
  /\ outcome' = [outcome EXCEPT ![w] = "none"]
  /\ UNCHANGED <<value, seen>>

Succeed(w) ==
  /\ writing[w] # NoText
  /\ value' = writing[w]
  /\ writing' = [writing EXCEPT ![w] = NoText]
  /\ outcome' = [outcome EXCEPT ![w] = "ok"]
  /\ UNCHANGED seen

Fail(w) ==
  /\ writing' = [writing EXCEPT ![w] = NoText]
  /\ outcome' = [outcome EXCEPT ![w] = "err"]
  /\ UNCHANGED <<value, seen>>

Die(w) ==
  /\ writing' = [writing EXCEPT ![w] = NoText]
  /\ UNCHANGED <<value, outcome, seen>>

Discard == value' = NoText /\ UNCHANGED <<writing, outcome, seen>>

Read(r) == seen' = [seen EXCEPT ![r] = value] /\ UNCHANGED <<value, writing, outcome>>

Next ==
  \/ \E w \in Writers : \/ \E text \in Texts : Begin(w, text)
                        \/ Succeed(w) \/ Fail(w) \/ Die(w)
  \/ \E r \in Readers : Read(r)
  \/ Discard

Spec == Init /\ [][Next]_wholeVars
=============================================================================
