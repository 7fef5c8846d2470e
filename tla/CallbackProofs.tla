--------------------------- MODULE CallbackProofs ---------------------------
(***************************************************************************)
(* Proofs about a plugin's callbacks: which of them runs and what it may   *)
(* do (Dispatch), for every set of callbacks, whatever their kinds and     *)
(* what their chunks declare, and however deep tasks run tasks; and the    *)
(* program one of them runs (Exec), for every call, script and limit.      *)
(***************************************************************************)
EXTENDS Dispatch, Exec, SequenceTheorems, WellFoundedInduction, TLAPS

(* The inductive invariant. What the static variables hold is a function   *)
(* of the stack alone, and so is what each frame would put back: the       *)
(* properties speak of the innermost frame, but a frame that is left makes *)
(* the one below it the innermost.                                         *)

Kind(k)    == KindOf[stack[k].slot]
RunsAt(k)  == k > 0 /\ Kind(k) \in {"task", "migrator"}
OwnerAt(k) == IF k = 0 THEN None ELSE stack[k].slot
TaskAt(k)  == IF k = 0 \/ Kind(k) # "task" THEN None ELSE stack[k].slot

TypeInv ==
  /\ stack \in Seq(Frame)
  /\ env \in SUBSET Credentials
  /\ cwd \in Owner /\ generated \in Owner /\ context \in Owner
  /\ depth \in Nat /\ processFree \in Nat
  /\ limited \in BOOLEAN /\ generating \in BOOLEAN /\ loading \in BOOLEAN
  /\ runner \in BOOLEAN

\* All but the innermost wait in daukle.run_task, which only a task can, and
\* only while fr_tasks_run runs; a migrator and the rest are alone, outside one.
WaitingBelow ==
  \A k \in 1..Len(stack) :
    /\ k < Len(stack) => stack[k].nested
    /\ stack[k].nested => Kind(k) = "task"
    /\ Kind(k) = "task" => runner
    /\ k > 1 \/ runner => Kind(k) \in {"task", "source"}

\* depth is the index of the innermost frame that may start processes, and the
\* other gates say of what kind the innermost frame is.
GatesFollow ==
  /\ depth = IF RunsAt(Len(stack)) \/ stack = <<>> THEN Len(stack) ELSE Len(stack) - 1
  /\ limited <=> depth = 0
  /\ processFree = IF stack # <<>> /\ Kind(Len(stack)) \in {"source", "translator"} THEN 1 ELSE 0
  /\ generating <=> stack # <<>> /\ Kind(Len(stack)) = "generate"
  /\ loading <=> stack # <<>> /\ Kind(Len(stack)) = "chunk"

PlacesFollow ==
  cwd = OwnerAt(depth) /\ generated = TaskAt(depth) /\ context = TaskAt(depth)
PlacesSaved ==
  \A k \in 1..Len(stack) : Kind(k) = "task" =>
    /\ stack[k].cwd = OwnerAt(k - 1)
    /\ stack[k].generated = OwnerAt(k - 1) /\ stack[k].context = OwnerAt(k - 1)

EnvFollows == stack # <<>> => env \in {EnvOf[stack[Len(stack)].slot], {}}
EnvSaved ==
  \A k \in 1..Len(stack) : k > 1 /\ Kind(k) = "task" =>
    stack[k].env \in {EnvOf[stack[k - 1].slot], {}}

IInv == /\ TypeInv
        /\ WaitingBelow
        /\ GatesFollow
        /\ PlacesFollow
        /\ PlacesSaved
        /\ EnvFollows
        /\ EnvSaved

-----------------------------------------------------------------------------
(* What entering and leaving do to the stack.                              *)

LEMMA Entered ==
  ASSUME IInv, NEW slot \in Slots, NEW kind, Enter(slot, kind)
  PROVE  /\ stack' \in Seq(Frame) /\ Len(stack') = Len(stack) + 1 /\ stack' # <<>>
         /\ Len(stack) \in Nat
         /\ \A k \in 1..Len(stack) : stack'[k] = stack[k]
         /\ stack'[Len(stack) + 1] \in Frame
         /\ stack'[Len(stack) + 1].slot = slot /\ ~stack'[Len(stack) + 1].nested
         /\ stack'[Len(stack) + 1].env = env /\ stack'[Len(stack) + 1].cwd = cwd
         /\ stack'[Len(stack) + 1].generated = generated
         /\ stack'[Len(stack) + 1].context = context
         /\ KindOf[slot] = kind /\ env' = EnvOf[slot] /\ EnvOf[slot] \in SUBSET Credentials
         /\ runner' = runner
<1> DEFINE frame == [slot |-> slot, nested |-> FALSE, env |-> env, cwd |-> cwd,
                     generated |-> generated, context |-> context]
<1>1. frame \in Frame
  BY DEF IInv, TypeInv, Frame
<1>2. stack \in Seq(Frame) /\ stack' = Append(stack, frame)
  BY DEF IInv, TypeInv, Enter
<1> HIDE DEF frame
<1>3. /\ stack' \in Seq(Frame) /\ Len(stack') = Len(stack) + 1 /\ Len(stack) \in Nat
      /\ \A k \in 1..Len(stack) : stack'[k] = stack[k]
      /\ stack'[Len(stack) + 1] = frame
  BY <1>1, <1>2
<1>4. stack' # <<>>
  BY <1>3
<1>5. EnvOf[slot] \in SUBSET Credentials
  BY DispatchAssumption
<1> QED
  BY <1>1, <1>3, <1>4, <1>5 DEF Enter, frame

LEMMA Left ==
  ASSUME IInv, NEW kind, Leave(kind)
  PROVE  /\ Len(stack) \in Nat /\ Len(stack) >= 1 /\ stack # <<>>
         /\ Top = stack[Len(stack)] /\ Top \in Frame /\ ~Top.nested
         /\ Kind(Len(stack)) = kind
         /\ stack' \in Seq(Frame) /\ Len(stack') = Len(stack) - 1
         /\ \A k \in 1..(Len(stack) - 1) : stack'[k] = stack[k]
         /\ Len(stack) = 1 <=> stack' = <<>>
         /\ runner' = runner
<1>1. stack \in Seq(Frame) /\ stack # <<>> /\ stack' = SubSeq(stack, 1, Len(stack) - 1)
  BY DEF IInv, TypeInv, Leave, Is, InLua, Below
<1>2. Len(stack) \in Nat /\ Len(stack) >= 1 /\ stack[Len(stack)] \in Frame
  BY <1>1
<1>3. Top = stack[Len(stack)] /\ ~Top.nested /\ Kind(Len(stack)) = kind
  BY DEF Leave, Is, InLua, Top, Kind
<1>4. /\ stack' \in Seq(Frame) /\ Len(stack') = Len(stack) - 1
      /\ \A k \in 1..(Len(stack) - 1) : stack'[k] = stack[k]
  <2> DEFINE last == Len(stack) - 1
  <2>1. last \in Nat /\ last \in Int /\ 1 \in Int /\ \A k \in 1..last : stack[k] \in Frame
    BY <1>1, <1>2
  <2> HIDE DEF last
  <2>2. /\ SubSeq(stack, 1, last) \in Seq(Frame)
        /\ Len(SubSeq(stack, 1, last)) = IF 1 <= last THEN last - 1 + 1 ELSE 0
        /\ \A k \in 1..(last - 1 + 1) : SubSeq(stack, 1, last)[k] = stack[1 + k - 1]
    BY <2>1, SubSeqProperties
  <2>3. /\ Len(SubSeq(stack, 1, last)) = last
        /\ \A k \in 1..last : SubSeq(stack, 1, last)[k] = stack[k]
    BY <2>1, <2>2
  <2> QED
    BY <1>1, <2>2, <2>3 DEF last
<1>5. Len(stack) = 1 <=> stack' = <<>>
  BY <1>2, <1>4
<1> QED
  BY <1>1, <1>2, <1>3, <1>4, <1>5 DEF Leave

\* A callback that is neither a task nor a source is alone.
LEMMA LeftAlone ==
  ASSUME IInv, NEW kind, Leave(kind), kind \notin {"task", "source"}
  PROVE  Len(stack) = 1 /\ stack' = <<>> /\ Len(stack') = 0
<1>1. Len(stack) \in Nat /\ Len(stack) >= 1 /\ Kind(Len(stack)) = kind
  BY Left
<1>2. ~(Len(stack) > 1)
  BY <1>1 DEF IInv, WaitingBelow
<1> QED
  BY <1>1, <1>2, Left

\* A frame marked as waiting, or as carrying on, is otherwise what it was.
LEMMA Marked ==
  ASSUME IInv, stack # <<>>, NEW nested \in BOOLEAN, Waits(nested)
  PROVE  /\ stack' \in Seq(Frame) /\ Len(stack') = Len(stack) /\ stack' # <<>>
         /\ Len(stack) \in Nat /\ Len(stack) >= 1 /\ Top = stack[Len(stack)]
         /\ \A k \in 1..Len(stack) :
              /\ stack'[k].slot = stack[k].slot /\ stack'[k].env = stack[k].env
              /\ stack'[k].cwd = stack[k].cwd /\ stack'[k].generated = stack[k].generated
              /\ stack'[k].context = stack[k].context
              /\ k < Len(stack) => stack'[k].nested = stack[k].nested
         /\ stack'[Len(stack)].nested = nested
<1>1. stack \in Seq(Frame) /\ Len(stack) \in Nat /\ Len(stack) >= 1
      /\ \A k \in 1..Len(stack) : stack[k] \in Frame
  BY DEF IInv, TypeInv
<1> DEFINE frame == [stack[Len(stack)] EXCEPT !.nested = nested]
<1>2. frame \in Frame
  BY <1>1 DEF Frame
<1>3. stack' = [stack EXCEPT ![Len(stack)] = frame]
  BY DEF Waits
<1>4. /\ frame.slot = stack[Len(stack)].slot /\ frame.env = stack[Len(stack)].env
      /\ frame.cwd = stack[Len(stack)].cwd /\ frame.generated = stack[Len(stack)].generated
      /\ frame.context = stack[Len(stack)].context /\ frame.nested = nested
  BY <1>1 DEF Frame
<1> HIDE DEF frame
<1>5. /\ stack' \in Seq(Frame) /\ Len(stack') = Len(stack)
      /\ stack'[Len(stack)] = frame
      /\ \A k \in 1..Len(stack) : k < Len(stack) => stack'[k] = stack[k]
  BY <1>1, <1>2, <1>3
<1>6. \A k \in 1..Len(stack) : k = Len(stack) \/ k < Len(stack)
  BY <1>1
<1> QED
  BY <1>1, <1>4, <1>5, <1>6 DEF Top

-----------------------------------------------------------------------------
(* A callback entered at rest, and left for rest.                          *)

\* The conjuncts that are about the stack alone.
StackInv == WaitingBelow /\ PlacesSaved /\ EnvFollows /\ EnvSaved

LEMMA AtRestFacts ==
  ASSUME IInv, stack = <<>>
  PROVE  /\ Len(stack) = 0 /\ depth = 0 /\ limited /\ processFree = 0 /\ ~generating /\ ~loading
         /\ cwd = None /\ generated = None /\ context = None
<1>1. Len(stack) = 0
  OBVIOUS
<1>2. ~RunsAt(0)
  BY DEF RunsAt
<1> QED
  BY <1>1, <1>2 DEF IInv, TypeInv, GatesFollow, PlacesFollow, OwnerAt, TaskAt

LEMMA EnteredAlone ==
  ASSUME IInv, NEW slot \in Slots, NEW kind, Enter(slot, kind), AtRest,
         kind \notin {"task", "source"}
  PROVE  /\ StackInv'
         /\ stack' \in Seq(Frame) /\ Len(stack') = 1 /\ stack' # <<>>
         /\ stack'[1].slot = slot /\ Kind(1)' = kind
         /\ env' \in SUBSET Credentials /\ runner' \in BOOLEAN
<1>1. stack = <<>> /\ Len(stack) = 0 /\ ~runner
  BY DEF AtRest
<1>2. /\ stack' \in Seq(Frame) /\ Len(stack') = 1 /\ stack' # <<>>
      /\ stack'[1].slot = slot /\ ~stack'[1].nested
      /\ KindOf[slot] = kind /\ env' = EnvOf[slot] /\ EnvOf[slot] \in SUBSET Credentials
      /\ runner' = runner
  BY <1>1, Entered
<1>3. Kind(1)' = kind /\ \A k \in 1..Len(stack') : k = 1
  BY <1>2 DEF Kind
<1> QED
  BY <1>1, <1>2, <1>3 DEF StackInv, WaitingBelow, PlacesSaved, EnvFollows, EnvSaved, IInv, TypeInv

LEMMA LeftForRest ==
  ASSUME IInv, NEW kind, Leave(kind), kind \notin {"task", "source"}
  PROVE  StackInv' /\ stack' \in Seq(Frame) /\ stack' = <<>> /\ Len(stack') = 0
         /\ runner' \in BOOLEAN
<1>1. stack' = <<>> /\ Len(stack') = 0 /\ stack' \in Seq(Frame) /\ runner' = runner
  BY LeftAlone, Left
<1> QED
  BY <1>1 DEF StackInv, WaitingBelow, PlacesSaved, EnvFollows, EnvSaved, IInv, TypeInv

\* What a frame alone is entered with and left with: the rest of the invariant.
LEMMA AloneInv ==
  ASSUME IInv, StackInv', stack' \in Seq(Frame),
         env' \in SUBSET Credentials, runner' \in BOOLEAN,
         NEW kind, KindOf[stack'[1].slot] = kind, stack' # <<>>, Len(stack') = 1,
         kind \in Kinds \ {"task", "source"},
         depth' = IF kind = "migrator" THEN 1 ELSE 0, limited' <=> kind # "migrator",
         processFree' = (IF kind = "translator" THEN 1 ELSE 0),
         generating' <=> kind = "generate", loading' <=> kind = "chunk",
         limited' \in BOOLEAN, generating' \in BOOLEAN, loading' \in BOOLEAN,
         cwd' = (IF kind = "migrator" THEN stack'[1].slot ELSE None),
         generated' = None, context' = None
  PROVE  IInv'
<1>1. Kind(1)' = kind
  BY DEF Kind
<1>2. stack'[1] \in Frame
  OBVIOUS
<1>3. TypeInv'
  BY <1>2 DEF TypeInv, Owner, Frame
<1>4. RunsAt(1)' <=> kind = "migrator"
  BY <1>1 DEF RunsAt
<1>5. GatesFollow'
  <2>1. depth' = (IF RunsAt(Len(stack))' \/ stack' = <<>> THEN Len(stack') ELSE Len(stack') - 1)
    BY <1>4
  <2>2. limited' <=> depth' = 0
    OBVIOUS
  <2>3. processFree' = IF Kind(1)' \in {"source", "translator"} THEN 1 ELSE 0
    BY <1>1
  <2>4. generating' <=> Kind(1)' = "generate"
    BY <1>1
  <2>5. loading' <=> Kind(1)' = "chunk"
    BY <1>1
  <2> QED
    BY <2>1, <2>2, <2>3, <2>4, <2>5 DEF GatesFollow
<1>6. PlacesFollow'
  <2>1. CASE kind = "migrator"
    BY <1>1, <2>1 DEF PlacesFollow, OwnerAt, TaskAt
  <2>2. CASE kind # "migrator"
    BY <1>1, <2>2 DEF PlacesFollow, OwnerAt, TaskAt
  <2> QED
    BY <2>1, <2>2
<1> QED
  BY <1>3, <1>5, <1>6 DEF IInv, StackInv

LEMMA RestInv ==
  ASSUME StackInv', stack' = <<>>, env' = {}, runner' \in BOOLEAN,
         depth' = 0, limited', processFree' = 0, ~generating', ~loading',
         limited' \in BOOLEAN, generating' \in BOOLEAN, loading' \in BOOLEAN,
         cwd' = None, generated' = None, context' = None
  PROVE  IInv'
<1>1. Len(stack') = 0 /\ stack' \in Seq(Frame)
  OBVIOUS
<1>2. TypeInv'
  BY <1>1 DEF TypeInv, Owner
<1>3. GatesFollow' /\ PlacesFollow'
  BY <1>1 DEF GatesFollow, PlacesFollow, RunsAt, OwnerAt, TaskAt
<1> QED
  BY <1>2, <1>3 DEF IInv, StackInv

LEMMA EnterGenerateInv == ASSUME IInv, NEW slot \in Slots, EnterGenerate(slot) PROVE IInv'
<1>1. AtRest /\ Enter(slot, "generate") /\ stack = <<>>
  BY DEF EnterGenerate, AtRest
<1>2. /\ depth = 0 /\ limited /\ processFree = 0 /\ ~generating /\ ~loading
      /\ cwd = None /\ generated = None /\ context = None
  BY <1>1, AtRestFacts
<1>3. /\ StackInv' /\ stack' \in Seq(Frame) /\ Len(stack') = 1 /\ stack' # <<>>
      /\ stack'[1].slot = slot /\ KindOf[stack'[1].slot] = "generate"
      /\ env' \in SUBSET Credentials /\ runner' \in BOOLEAN
  BY <1>1, EnteredAlone DEF Enter
<1>4. /\ limited \in BOOLEAN /\ generating \in BOOLEAN /\ loading \in BOOLEAN
  BY DEF IInv, TypeInv
<1>5. /\ depth' = 0 /\ (limited' <=> TRUE) /\ processFree' = 0
      /\ generating' <=> TRUE
      /\ loading' <=> FALSE
      /\ limited' \in BOOLEAN /\ generating' \in BOOLEAN /\ loading' \in BOOLEAN
      /\ cwd' = None /\ generated' = None /\ context' = None
  BY <1>2, <1>4 DEF EnterGenerate, task
<1> QED
  BY <1>3, <1>5, AloneInv DEF Kinds

LEMMA LeaveGenerateInv == ASSUME IInv, LeaveGenerate PROVE IInv'
<1>1. Leave("generate") /\ env' = {}
  BY DEF LeaveGenerate, ClearEnv
<1>2. /\ StackInv' /\ stack' = <<>> /\ Len(stack) = 1 /\ runner' \in BOOLEAN
      /\ Kind(1) = "generate" /\ stack # <<>>
  BY <1>1, LeftForRest, LeftAlone, Left
<1>3. /\ depth = 0 /\ (limited <=> TRUE) /\ processFree = 0
      /\ generating <=> TRUE
      /\ loading <=> FALSE
      /\ generated = None /\ context = None /\ cwd = None
      /\ limited \in BOOLEAN /\ generating \in BOOLEAN /\ loading \in BOOLEAN
  BY <1>2 DEF IInv, TypeInv, GatesFollow, PlacesFollow, RunsAt, OwnerAt, TaskAt
<1>4. /\ depth' = 0 /\ limited' /\ processFree' = 0 /\ ~generating' /\ ~loading'
      /\ limited' \in BOOLEAN /\ generating' \in BOOLEAN /\ loading' \in BOOLEAN
      /\ cwd' = None /\ generated' = None /\ context' = None
  BY <1>3 DEF LeaveGenerate, task
<1> QED
  BY <1>1, <1>2, <1>4, RestInv

LEMMA EnterChunkInv == ASSUME IInv, NEW slot \in Slots, EnterChunk(slot) PROVE IInv'
<1>1. AtRest /\ Enter(slot, "chunk") /\ stack = <<>>
  BY DEF EnterChunk, AtRest
<1>2. /\ depth = 0 /\ limited /\ processFree = 0 /\ ~generating /\ ~loading
      /\ cwd = None /\ generated = None /\ context = None
  BY <1>1, AtRestFacts
<1>3. /\ StackInv' /\ stack' \in Seq(Frame) /\ Len(stack') = 1 /\ stack' # <<>>
      /\ stack'[1].slot = slot /\ KindOf[stack'[1].slot] = "chunk"
      /\ env' \in SUBSET Credentials /\ runner' \in BOOLEAN
  BY <1>1, EnteredAlone DEF Enter
<1>4. /\ limited \in BOOLEAN /\ generating \in BOOLEAN /\ loading \in BOOLEAN
  BY DEF IInv, TypeInv
<1>5. /\ depth' = 0 /\ (limited' <=> TRUE) /\ processFree' = 0
      /\ generating' <=> FALSE
      /\ loading' <=> TRUE
      /\ limited' \in BOOLEAN /\ generating' \in BOOLEAN /\ loading' \in BOOLEAN
      /\ cwd' = None /\ generated' = None /\ context' = None
  BY <1>2, <1>4 DEF EnterChunk, task
<1> QED
  BY <1>3, <1>5, AloneInv DEF Kinds

LEMMA LeaveChunkInv == ASSUME IInv, LeaveChunk PROVE IInv'
<1>1. Leave("chunk") /\ env' = {}
  BY DEF LeaveChunk, ClearEnv
<1>2. /\ StackInv' /\ stack' = <<>> /\ Len(stack) = 1 /\ runner' \in BOOLEAN
      /\ Kind(1) = "chunk" /\ stack # <<>>
  BY <1>1, LeftForRest, LeftAlone, Left
<1>3. /\ depth = 0 /\ (limited <=> TRUE) /\ processFree = 0
      /\ generating <=> FALSE
      /\ loading <=> TRUE
      /\ generated = None /\ context = None /\ cwd = None
      /\ limited \in BOOLEAN /\ generating \in BOOLEAN /\ loading \in BOOLEAN
  BY <1>2 DEF IInv, TypeInv, GatesFollow, PlacesFollow, RunsAt, OwnerAt, TaskAt
<1>4. /\ depth' = 0 /\ limited' /\ processFree' = 0 /\ ~generating' /\ ~loading'
      /\ limited' \in BOOLEAN /\ generating' \in BOOLEAN /\ loading' \in BOOLEAN
      /\ cwd' = None /\ generated' = None /\ context' = None
  BY <1>3 DEF LeaveChunk, task
<1> QED
  BY <1>1, <1>2, <1>4, RestInv

LEMMA EnterResolverInv == ASSUME IInv, NEW slot \in Slots, EnterResolver(slot) PROVE IInv'
<1>1. AtRest /\ Enter(slot, "resolver") /\ stack = <<>>
  BY DEF EnterResolver, AtRest
<1>2. /\ depth = 0 /\ limited /\ processFree = 0 /\ ~generating /\ ~loading
      /\ cwd = None /\ generated = None /\ context = None
  BY <1>1, AtRestFacts
<1>3. /\ StackInv' /\ stack' \in Seq(Frame) /\ Len(stack') = 1 /\ stack' # <<>>
      /\ stack'[1].slot = slot /\ KindOf[stack'[1].slot] = "resolver"
      /\ env' \in SUBSET Credentials /\ runner' \in BOOLEAN
  BY <1>1, EnteredAlone DEF Enter
<1>4. /\ limited \in BOOLEAN /\ generating \in BOOLEAN /\ loading \in BOOLEAN
  BY DEF IInv, TypeInv
<1>5. /\ depth' = 0 /\ (limited' <=> TRUE) /\ processFree' = 0
      /\ generating' <=> FALSE
      /\ loading' <=> FALSE
      /\ limited' \in BOOLEAN /\ generating' \in BOOLEAN /\ loading' \in BOOLEAN
      /\ cwd' = None /\ generated' = None /\ context' = None
  BY <1>2, <1>4 DEF EnterResolver, task, gates
<1> QED
  BY <1>3, <1>5, AloneInv DEF Kinds

LEMMA LeaveResolverInv == ASSUME IInv, LeaveResolver PROVE IInv'
<1>1. Leave("resolver") /\ env' = {}
  BY DEF LeaveResolver, ClearEnv
<1>2. /\ StackInv' /\ stack' = <<>> /\ Len(stack) = 1 /\ runner' \in BOOLEAN
      /\ Kind(1) = "resolver" /\ stack # <<>>
  BY <1>1, LeftForRest, LeftAlone, Left
<1>3. /\ depth = 0 /\ (limited <=> TRUE) /\ processFree = 0
      /\ generating <=> FALSE
      /\ loading <=> FALSE
      /\ generated = None /\ context = None /\ cwd = None
      /\ limited \in BOOLEAN /\ generating \in BOOLEAN /\ loading \in BOOLEAN
  BY <1>2 DEF IInv, TypeInv, GatesFollow, PlacesFollow, RunsAt, OwnerAt, TaskAt
<1>4. /\ depth' = 0 /\ limited' /\ processFree' = 0 /\ ~generating' /\ ~loading'
      /\ limited' \in BOOLEAN /\ generating' \in BOOLEAN /\ loading' \in BOOLEAN
      /\ cwd' = None /\ generated' = None /\ context' = None
  BY <1>3 DEF LeaveResolver, task, gates
<1> QED
  BY <1>1, <1>2, <1>4, RestInv

LEMMA EnterTranslatorInv == ASSUME IInv, NEW slot \in Slots, EnterTranslator(slot) PROVE IInv'
<1>1. AtRest /\ Enter(slot, "translator") /\ stack = <<>>
  BY DEF EnterTranslator, AtRest
<1>2. /\ depth = 0 /\ limited /\ processFree = 0 /\ ~generating /\ ~loading
      /\ cwd = None /\ generated = None /\ context = None
  BY <1>1, AtRestFacts
<1>3. /\ StackInv' /\ stack' \in Seq(Frame) /\ Len(stack') = 1 /\ stack' # <<>>
      /\ stack'[1].slot = slot /\ KindOf[stack'[1].slot] = "translator"
      /\ env' \in SUBSET Credentials /\ runner' \in BOOLEAN
  BY <1>1, EnteredAlone DEF Enter
<1>4. /\ limited \in BOOLEAN /\ generating \in BOOLEAN /\ loading \in BOOLEAN
  BY DEF IInv, TypeInv
<1>5. /\ depth' = 0 /\ (limited' <=> TRUE) /\ processFree' = 1
      /\ generating' <=> FALSE
      /\ loading' <=> FALSE
      /\ limited' \in BOOLEAN /\ generating' \in BOOLEAN /\ loading' \in BOOLEAN
      /\ cwd' = None /\ generated' = None /\ context' = None
  BY <1>2, <1>4 DEF EnterTranslator, EnterFree, task, OtherGates
<1> QED
  BY <1>3, <1>5, AloneInv DEF Kinds

LEMMA LeaveTranslatorInv == ASSUME IInv, LeaveTranslator PROVE IInv'
<1>1. Leave("translator") /\ env' = {}
  BY DEF LeaveTranslator, ClearEnv
<1>2. /\ StackInv' /\ stack' = <<>> /\ Len(stack) = 1 /\ runner' \in BOOLEAN
      /\ Kind(1) = "translator" /\ stack # <<>>
  BY <1>1, LeftForRest, LeftAlone, Left
<1>3. /\ depth = 0 /\ (limited <=> TRUE) /\ processFree = 1
      /\ generating <=> FALSE
      /\ loading <=> FALSE
      /\ generated = None /\ context = None /\ cwd = None
      /\ limited \in BOOLEAN /\ generating \in BOOLEAN /\ loading \in BOOLEAN
  BY <1>2 DEF IInv, TypeInv, GatesFollow, PlacesFollow, RunsAt, OwnerAt, TaskAt
<1>4. /\ depth' = 0 /\ limited' /\ processFree' = 0 /\ ~generating' /\ ~loading'
      /\ limited' \in BOOLEAN /\ generating' \in BOOLEAN /\ loading' \in BOOLEAN
      /\ cwd' = None /\ generated' = None /\ context' = None
  BY <1>3 DEF LeaveTranslator, LeaveFree, task, OtherGates
<1> QED
  BY <1>1, <1>2, <1>4, RestInv

LEMMA EnterMigratorInv == ASSUME IInv, NEW slot \in Slots, EnterMigrator(slot) PROVE IInv'
<1>1. AtRest /\ Enter(slot, "migrator") /\ stack = <<>>
  BY DEF EnterMigrator, AtRest
<1>2. /\ depth = 0 /\ limited /\ processFree = 0 /\ ~generating /\ ~loading
      /\ cwd = None /\ generated = None /\ context = None
  BY <1>1, AtRestFacts
<1>3. /\ StackInv' /\ stack' \in Seq(Frame) /\ Len(stack') = 1 /\ stack' # <<>>
      /\ stack'[1].slot = slot /\ KindOf[stack'[1].slot] = "migrator"
      /\ env' \in SUBSET Credentials /\ runner' \in BOOLEAN
  BY <1>1, EnteredAlone DEF Enter
<1>4. /\ limited \in BOOLEAN /\ generating \in BOOLEAN /\ loading \in BOOLEAN
  BY DEF IInv, TypeInv
<1>5. /\ depth' = 1 /\ (limited' <=> FALSE) /\ processFree' = 0
      /\ generating' <=> FALSE
      /\ loading' <=> FALSE
      /\ limited' \in BOOLEAN /\ generating' \in BOOLEAN /\ loading' \in BOOLEAN
      /\ cwd' = slot /\ generated' = None /\ context' = None
  BY <1>2, <1>4 DEF EnterMigrator, EnterWindow
<1> QED
  BY <1>3, <1>5, AloneInv DEF Kinds

LEMMA LeaveMigratorInv == ASSUME IInv, LeaveMigrator PROVE IInv'
<1>1. Leave("migrator") /\ env' = {}
  BY DEF LeaveMigrator, ClearEnv
<1>2. /\ StackInv' /\ stack' = <<>> /\ Len(stack) = 1 /\ runner' \in BOOLEAN
      /\ Kind(1) = "migrator" /\ stack # <<>>
  BY <1>1, LeftForRest, LeftAlone, Left
<1>3. /\ depth = 1 /\ (limited <=> FALSE) /\ processFree = 0
      /\ generating <=> FALSE
      /\ loading <=> FALSE
      /\ generated = None /\ context = None
      /\ limited \in BOOLEAN /\ generating \in BOOLEAN /\ loading \in BOOLEAN
  BY <1>2 DEF IInv, TypeInv, GatesFollow, PlacesFollow, RunsAt, OwnerAt, TaskAt
<1>4. depth' = 0 /\ limited' /\ limited' \in BOOLEAN
  <2>1. depth' = 0
    BY <1>3 DEF LeaveMigrator, LeaveWindow
  <2>2. limited' = (limited \/ depth = 1)
    BY DEF LeaveMigrator, LeaveWindow
  <2>3. depth = 1
    BY <1>3
  <2>4. limited' /\ limited' \in BOOLEAN
    BY <2>2, <2>3, Zenon
  <2> QED
    BY <2>1, <2>4
<1>5. /\ processFree' = 0 /\ ~generating' /\ ~loading'
      /\ generating' \in BOOLEAN /\ loading' \in BOOLEAN
      /\ cwd' = None /\ generated' = None /\ context' = None
  BY <1>3 DEF LeaveMigrator
<1> QED
  BY <1>1, <1>2, <1>4, <1>5, RestInv

-----------------------------------------------------------------------------
(* A source or a task entered while tasks wait below it.                   *)

LEMMA InCoreFacts ==
  ASSUME IInv, InCore
  PROVE  /\ Len(stack) \in Nat /\ depth = Len(stack) /\ (limited <=> depth = 0)
         /\ processFree = 0 /\ ~generating /\ ~loading
         /\ cwd = OwnerAt(Len(stack)) /\ generated = OwnerAt(Len(stack))
         /\ context = OwnerAt(Len(stack))
         /\ \A k \in 1..Len(stack) : stack[k].nested /\ Kind(k) = "task" /\ runner
<1>1. stack \in Seq(Frame) /\ Len(stack) \in Nat
  BY DEF IInv, TypeInv
<1>2. CASE stack = <<>>
  <2>1. Len(stack) = 0 /\ ~RunsAt(0)
    BY <1>2 DEF RunsAt
  <2> QED
    BY <1>2, <2>1, AtRestFacts DEF OwnerAt
<1>3. CASE stack # <<>>
  <2>1. Len(stack) >= 1 /\ stack[Len(stack)].nested
    BY <1>1, <1>3 DEF InCore, InLua, Top
  <2>2. \A k \in 1..Len(stack) : stack[k].nested /\ Kind(k) = "task" /\ runner
    BY <1>1, <2>1 DEF IInv, WaitingBelow
  <2>3. Kind(Len(stack)) = "task" /\ RunsAt(Len(stack))
    BY <1>1, <2>1, <2>2 DEF RunsAt
  <2>4. /\ depth = Len(stack) /\ (limited <=> depth = 0)
        /\ processFree = 0 /\ ~generating /\ ~loading
    BY <2>3 DEF IInv, TypeInv, GatesFollow
  <2>5. TaskAt(depth) = OwnerAt(depth)
    BY <2>3, <2>4 DEF TaskAt, OwnerAt
  <2> QED
    BY <1>1, <2>2, <2>4, <2>5 DEF IInv, PlacesFollow
<1> QED
  BY <1>2, <1>3

\* What the frames below say stays what they say.
LEMMA EnteredBelow ==
  ASSUME IInv, InCore, NEW slot \in Slots, NEW kind, Enter(slot, kind),
         kind \in {"task", "source"}, kind = "task" \/ stack # <<>> => runner
  PROVE  /\ StackInv'
         /\ stack' \in Seq(Frame) /\ Len(stack') = Len(stack) + 1 /\ stack' # <<>>
         /\ stack'[Len(stack) + 1].slot = slot /\ KindOf[stack'[Len(stack) + 1].slot] = kind
         /\ \A k \in 0..Len(stack) : OwnerAt(k)' = OwnerAt(k) /\ TaskAt(k)' = TaskAt(k)
<1> DEFINE n == Len(stack)
<1>1. /\ stack' \in Seq(Frame) /\ Len(stack') = n + 1 /\ stack' # <<>> /\ n \in Nat
      /\ \A k \in 1..n : stack'[k] = stack[k]
      /\ stack'[n + 1].slot = slot /\ ~stack'[n + 1].nested
      /\ stack'[n + 1].env = env /\ stack'[n + 1].cwd = cwd
      /\ stack'[n + 1].generated = generated /\ stack'[n + 1].context = context
      /\ KindOf[slot] = kind /\ env' = EnvOf[slot] /\ runner' = runner
  BY Entered
<1>2. /\ cwd = OwnerAt(n) /\ generated = OwnerAt(n) /\ context = OwnerAt(n)
      /\ \A k \in 1..n : stack[k].nested /\ Kind(k) = "task" /\ runner
  BY InCoreFacts
<1>3. /\ KindOf[stack'[n + 1].slot] = kind
      /\ \A k \in 1..n : Kind(k)' = Kind(k)
  BY <1>1 DEF Kind
<1>4. \A k \in 0..n : OwnerAt(k)' = OwnerAt(k) /\ TaskAt(k)' = TaskAt(k)
  BY <1>1, <1>3 DEF OwnerAt, TaskAt
<1>5. \A k \in 1..Len(stack') : k \in 1..n \/ k = n + 1
  BY <1>1
<1>6. n > 0 => stack # <<>>
  OBVIOUS
<1>7. WaitingBelow'
  <2> SUFFICES ASSUME NEW k \in 1..Len(stack')
               PROVE  /\ k < Len(stack') => stack'[k].nested
                      /\ stack'[k].nested => Kind(k)' = "task"
                      /\ Kind(k)' = "task" => runner'
                      /\ k > 1 \/ runner' => Kind(k)' \in {"task", "source"}
    BY DEF WaitingBelow
  <2>1. CASE k \in 1..n
    BY <1>1, <1>2, <1>3, <2>1
  <2>2. CASE k = n + 1
    <3>1. Kind(k)' = kind /\ ~stack'[k].nested /\ ~(k < Len(stack'))
      BY <1>1, <1>3, <2>2 DEF Kind
    <3>2. k > 1 => stack # <<>>
      BY <1>1, <1>6, <2>2
    <3> QED
      BY <1>1, <3>1, <3>2
  <2> QED
    BY <1>5, <2>1, <2>2
<1>8. PlacesSaved'
  <2> SUFFICES ASSUME NEW k \in 1..Len(stack'), Kind(k)' = "task"
               PROVE  /\ stack'[k].cwd = OwnerAt(k - 1)'
                      /\ stack'[k].generated = OwnerAt(k - 1)'
                      /\ stack'[k].context = OwnerAt(k - 1)'
    BY DEF PlacesSaved
  <2>1. k - 1 \in 0..n
    BY <1>1
  <2>2. CASE k \in 1..n
    BY <1>1, <1>3, <1>4, <2>1, <2>2 DEF IInv, PlacesSaved
  <2>3. CASE k = n + 1
    BY <1>1, <1>2, <1>4, <2>1, <2>3
  <2> QED
    BY <1>5, <2>2, <2>3
<1>9. EnvFollows'
  BY <1>1 DEF EnvFollows
<1>10. EnvSaved'
  <2> SUFFICES ASSUME NEW k \in 1..Len(stack'), k > 1, Kind(k)' = "task"
               PROVE  stack'[k].env \in {EnvOf[stack'[k - 1].slot], {}}
    BY DEF EnvSaved
  <2>1. k - 1 \in 1..n
    BY <1>1
  <2>2. CASE k \in 1..n
    BY <1>1, <1>3, <2>1, <2>2 DEF IInv, EnvSaved
  <2>3. CASE k = n + 1
    <3>1. env \in {EnvOf[stack[n].slot], {}}
      BY <1>6, <2>1, <2>3 DEF IInv, EnvFollows
    <3> QED
      BY <1>1, <2>1, <2>3, <3>1
  <2> QED
    BY <1>5, <2>2, <2>3
<1> QED
  BY <1>1, <1>3, <1>4, <1>7, <1>8, <1>9, <1>10 DEF StackInv

LEMMA EnterSourceInv == ASSUME IInv, NEW slot \in Slots, EnterSource(slot) PROVE IInv'
<1> DEFINE n == Len(stack)
<1>1. InCore /\ Enter(slot, "source")
  BY DEF EnterSource
<1>2. /\ n \in Nat /\ depth = n /\ (limited <=> depth = 0)
      /\ processFree = 0 /\ ~generating /\ ~loading
      /\ cwd = OwnerAt(n) /\ generated = OwnerAt(n) /\ context = OwnerAt(n)
      /\ \A k \in 1..n : Kind(k) = "task" /\ runner
  BY <1>1, InCoreFacts
<1>3. stack # <<>> => runner
  <2>1. stack # <<>> => n \in 1..n
    BY <1>2 DEF IInv, TypeInv
  <2> QED
    BY <1>2, <2>1
<1>4. /\ StackInv'
      /\ stack' \in Seq(Frame) /\ Len(stack') = n + 1 /\ stack' # <<>>
      /\ KindOf[stack'[n + 1].slot] = "source"
      /\ \A k \in 0..n : OwnerAt(k)' = OwnerAt(k) /\ TaskAt(k)' = TaskAt(k)
  BY <1>1, <1>3, EnteredBelow
<1>5. UNCHANGED <<depth, limited, generating, loading, cwd, generated, context, runner>>
      /\ processFree' = 1 /\ env' = EnvOf[slot]
  BY <1>2 DEF EnterSource, Enter, EnterFree, OtherGates, task
<1>6. TypeInv'
  BY <1>4, <1>5, DispatchAssumption DEF IInv, TypeInv
<1>7. GatesFollow'
  <2>1. ~RunsAt(Len(stack))'
    BY <1>4 DEF RunsAt, Kind
  <2> QED
    BY <1>2, <1>4, <1>5, <2>1 DEF GatesFollow, Kind
<1>8. PlacesFollow'
  <2>1. OwnerAt(n) = TaskAt(n)
    BY <1>2 DEF OwnerAt, TaskAt
  <2> QED
    BY <1>2, <1>4, <1>5, <2>1 DEF PlacesFollow
<1> QED
  BY <1>4, <1>6, <1>7, <1>8 DEF IInv, StackInv

LEMMA EnterTaskInv == ASSUME IInv, NEW slot \in Slots, EnterTask(slot) PROVE IInv'
<1> DEFINE n == Len(stack)
<1>1. InCore /\ Enter(slot, "task") /\ runner
  BY DEF EnterTask
<1>2. /\ n \in Nat /\ depth = n /\ (limited <=> depth = 0)
      /\ processFree = 0 /\ ~generating /\ ~loading
      /\ limited \in BOOLEAN /\ generating \in BOOLEAN /\ loading \in BOOLEAN
  BY <1>1, InCoreFacts DEF IInv, TypeInv
<1>3. /\ StackInv'
      /\ stack' \in Seq(Frame) /\ Len(stack') = n + 1 /\ stack' # <<>>
      /\ stack'[n + 1].slot = slot /\ KindOf[stack'[n + 1].slot] = "task"
  BY <1>1, EnteredBelow
<1>4. depth' = n + 1 /\ ~limited' /\ limited' \in BOOLEAN
  <2>1. depth' = n + 1
    BY <1>2 DEF EnterTask, EnterWindow
  <2>2. limited' = (limited /\ depth > 0)
    BY DEF EnterTask, EnterWindow
  <2>3. ~(limited /\ depth > 0)
    BY <1>2
  <2>4. ~limited' /\ limited' \in BOOLEAN
    BY <2>2, <2>3, Zenon
  <2> QED
    BY <2>1, <2>4
<1>5. /\ UNCHANGED <<processFree, generating, loading, runner>> /\ env' = EnvOf[slot]
      /\ cwd' = slot /\ generated' = slot /\ context' = slot
  BY DEF EnterTask, Enter
<1>6. TypeInv'
  BY <1>2, <1>3, <1>4, <1>5, DispatchAssumption DEF IInv, TypeInv, Owner
<1>7. GatesFollow'
  <2>1. RunsAt(Len(stack))'
    BY <1>2, <1>3 DEF RunsAt, Kind
  <2> QED
    BY <1>2, <1>3, <1>4, <1>5, <2>1 DEF GatesFollow, Kind
<1>8. PlacesFollow'
  BY <1>2, <1>3, <1>4, <1>5 DEF PlacesFollow, OwnerAt, TaskAt, Kind
<1> QED
  BY <1>3, <1>6, <1>7, <1>8 DEF IInv, StackInv

-----------------------------------------------------------------------------
(* A source or a task left: the one below, if there is one, is a task that *)
(* waits, and everything is as that task's dispatch had it.                *)

LEMMA LeftBelow ==
  ASSUME IInv, NEW kind, Leave(kind), kind \in {"task", "source"}
  PROVE  /\ Len(stack) \in Nat /\ Len(stack) >= 1 /\ stack # <<>>
         /\ Top = stack[Len(stack)] /\ Kind(Len(stack)) = kind
         /\ stack' \in Seq(Frame) /\ Len(stack') = Len(stack) - 1
         /\ WaitingBelow' /\ PlacesSaved' /\ EnvSaved'
         /\ \A k \in 1..(Len(stack) - 1) : stack'[k] = stack[k] /\ Kind(k)' = "task"
         /\ \A k \in 0..(Len(stack) - 1) : OwnerAt(k)' = OwnerAt(k) /\ TaskAt(k)' = OwnerAt(k)
         /\ runner' = runner
<1> DEFINE n == Len(stack)
<1>1. /\ n \in Nat /\ n >= 1 /\ stack # <<>>
      /\ Top = stack[n] /\ Kind(n) = kind
      /\ stack' \in Seq(Frame) /\ Len(stack') = n - 1
      /\ \A k \in 1..(n - 1) : stack'[k] = stack[k]
      /\ runner' = runner
  BY Left
<1>2. \A k \in 1..(n - 1) : k \in 1..n /\ stack[k].nested /\ Kind(k) = "task" /\ runner
  BY <1>1 DEF IInv, WaitingBelow
<1>3. \A k \in 1..(n - 1) : Kind(k)' = "task"
  BY <1>1, <1>2 DEF Kind
<1>4. \A k \in 0..(n - 1) : OwnerAt(k)' = OwnerAt(k) /\ TaskAt(k)' = OwnerAt(k)
  <2> SUFFICES ASSUME NEW k \in 0..(n - 1)
               PROVE  OwnerAt(k)' = OwnerAt(k) /\ TaskAt(k)' = OwnerAt(k)
    OBVIOUS
  <2>1. k = 0 \/ k \in 1..(n - 1)
    BY <1>1
  <2> QED
    BY <1>1, <1>3, <2>1 DEF OwnerAt, TaskAt
<1>5. WaitingBelow'
  BY <1>1, <1>2, <1>3 DEF WaitingBelow
<1>6. PlacesSaved'
  <2> SUFFICES ASSUME NEW k \in 1..(n - 1)
               PROVE  /\ stack'[k].cwd = OwnerAt(k - 1)'
                      /\ stack'[k].generated = OwnerAt(k - 1)'
                      /\ stack'[k].context = OwnerAt(k - 1)'
    BY <1>1 DEF PlacesSaved
  <2>1. k - 1 \in 0..(n - 1) /\ k \in 1..n /\ Kind(k) = "task"
    BY <1>1, <1>2
  <2> QED
    BY <1>1, <1>4, <2>1 DEF IInv, PlacesSaved
<1>7. EnvSaved'
  <2> SUFFICES ASSUME NEW k \in 1..(n - 1), k > 1
               PROVE  stack'[k].env \in {EnvOf[stack'[k - 1].slot], {}}
    BY <1>1 DEF EnvSaved
  <2>1. k - 1 \in 1..(n - 1) /\ k \in 1..n /\ Kind(k) = "task"
    BY <1>1, <1>2
  <2> QED
    BY <1>1, <2>1 DEF IInv, EnvSaved
<1> QED
  BY <1>1, <1>3, <1>4, <1>5, <1>6, <1>7

\* With its window closed, the innermost is again a task that waits, or none.
LEMMA BelowInv ==
  ASSUME IInv, NEW kind, Leave(kind), kind \in {"task", "source"},
         EnvFollows', env' \in SUBSET Credentials,
         depth' = Len(stack) - 1, limited' <=> depth' = 0, limited' \in BOOLEAN,
         processFree' = 0, ~generating', ~loading',
         generating' \in BOOLEAN, loading' \in BOOLEAN,
         cwd' = OwnerAt(Len(stack) - 1), generated' = OwnerAt(Len(stack) - 1),
         context' = OwnerAt(Len(stack) - 1)
  PROVE  IInv'
<1> DEFINE n == Len(stack)
<1>1. /\ n \in Nat /\ n >= 1
      /\ stack' \in Seq(Frame) /\ Len(stack') = n - 1
      /\ WaitingBelow' /\ PlacesSaved' /\ EnvSaved'
      /\ \A k \in 1..(n - 1) : stack'[k] = stack[k] /\ Kind(k)' = "task"
      /\ \A k \in 0..(n - 1) : OwnerAt(k)' = OwnerAt(k) /\ TaskAt(k)' = OwnerAt(k)
      /\ runner' = runner
  BY LeftBelow
<1>2. n - 1 \in 0..(n - 1)
  BY <1>1
<1>3. OwnerAt(n - 1) \in Owner
  <2>1. n > 1 => stack[n - 1] \in Frame
    BY <1>1 DEF IInv, TypeInv
  <2> QED
    BY <1>1, <2>1 DEF OwnerAt, Owner, Frame
<1>4. TypeInv'
  BY <1>1, <1>3 DEF IInv, TypeInv
<1>5. depth' = Len(stack') /\ depth' \in 0..(n - 1)
  BY <1>1
<1>6. stack' # <<>> => Len(stack') \in 1..(n - 1)
  BY <1>1
<1>7. stack' # <<>> => Kind(Len(stack))' = "task" /\ RunsAt(Len(stack))'
  BY <1>1, <1>6 DEF RunsAt, Kind
<1>8. GatesFollow'
  BY <1>5, <1>7 DEF GatesFollow
<1>9. PlacesFollow'
  <2>1. OwnerAt(depth)' = OwnerAt(n - 1) /\ TaskAt(depth)' = OwnerAt(n - 1)
    BY <1>1, <1>2, <1>5 DEF OwnerAt, TaskAt, Kind
  <2> QED
    BY <2>1 DEF PlacesFollow
<1> QED
  BY <1>1, <1>4, <1>8, <1>9 DEF IInv

LEMMA LeaveSourceInv == ASSUME IInv, LeaveSource PROVE IInv'
<1> DEFINE n == Len(stack)
<1>1. Leave("source") /\ env' = {}
  BY DEF LeaveSource, ClearEnv
<1>2. n \in Nat /\ n >= 1 /\ stack # <<>> /\ Kind(n) = "source" /\ ~RunsAt(n)
  BY <1>1, LeftBelow DEF RunsAt
<1>3. /\ depth = n - 1 /\ (limited <=> depth = 0) /\ processFree = 1 /\ ~generating /\ ~loading
      /\ limited \in BOOLEAN /\ generating \in BOOLEAN /\ loading \in BOOLEAN
  BY <1>2 DEF IInv, TypeInv, GatesFollow
<1>4. TaskAt(n - 1) = OwnerAt(n - 1)
  <2> HIDE DEF n
  <2>1. n = 1 \/ (n > 1 /\ n - 1 \in 1..n /\ n - 1 < n /\ n - 1 # 0)
    <3>1. n \in Nat /\ n >= 1
      BY <1>2
    <3> QED
      BY <3>1
  <2> USE DEF n
  <2>2. n > 1 => Kind(n - 1) = "task"
    BY <1>2, <2>1 DEF IInv, WaitingBelow
  <2> QED
    BY <1>2, <2>1, <2>2 DEF TaskAt, OwnerAt
<1>5. cwd = OwnerAt(n - 1) /\ generated = OwnerAt(n - 1) /\ context = OwnerAt(n - 1)
  BY <1>3, <1>4 DEF IInv, PlacesFollow
<1>6. UNCHANGED <<depth, limited, generating, loading, cwd, generated, context>> /\ processFree' = 0
  BY <1>3 DEF LeaveSource, LeaveFree, OtherGates, task
<1>7. EnvFollows'
  BY <1>1 DEF EnvFollows
<1> QED
  BY <1>1, <1>3, <1>5, <1>6, <1>7, BelowInv

LEMMA LeaveTaskInv == ASSUME IInv, LeaveTask PROVE IInv'
<1> DEFINE n == Len(stack)
<1>1. Leave("task")
  BY DEF LeaveTask
<1>2. /\ n \in Nat /\ n >= 1 /\ stack # <<>> /\ Kind(n) = "task" /\ RunsAt(n)
      /\ Top = stack[n] /\ Top \in Frame /\ Len(stack') = n - 1
      /\ \A k \in 1..(n - 1) : stack'[k] = stack[k]
  BY <1>1, LeftBelow, Left DEF RunsAt
<1>3. /\ depth = n /\ (limited <=> depth = 0) /\ processFree = 0 /\ ~generating /\ ~loading
      /\ limited \in BOOLEAN /\ generating \in BOOLEAN /\ loading \in BOOLEAN
  BY <1>2 DEF IInv, TypeInv, GatesFollow
<1>4. depth' = n - 1 /\ (limited' <=> depth' = 0) /\ limited' \in BOOLEAN
  <2>1. depth' = n - 1 /\ (depth' = 0 <=> depth = 1)
    BY <1>2, <1>3 DEF LeaveTask, LeaveWindow
  <2>2. limited' = (limited \/ depth = 1)
    BY DEF LeaveTask, LeaveWindow
  <2>3. ~limited
    BY <1>2, <1>3
  <2>4. (limited' <=> depth = 1) /\ limited' \in BOOLEAN
    BY <2>2, <2>3, Zenon
  <2> QED
    BY <2>1, <2>4
<1>5. UNCHANGED <<processFree, generating, loading>> /\ env' = Top.env
  BY DEF LeaveTask
<1>6. /\ cwd' = OwnerAt(n - 1) /\ generated' = OwnerAt(n - 1) /\ context' = OwnerAt(n - 1)
  <2>1. n \in 1..n
    BY <1>2
  <2> QED
    BY <1>2, <2>1 DEF LeaveTask, IInv, PlacesSaved
<1>7. EnvFollows'
  <2> SUFFICES ASSUME stack' # <<>>
               PROVE  env' \in {EnvOf[stack'[Len(stack')].slot], {}}
    BY DEF EnvFollows
  <2>1. n > 1 /\ n \in 1..n /\ n - 1 \in 1..(n - 1)
    BY <1>1, <1>2, Left
  <2>2. stack[n].env \in {EnvOf[stack[n - 1].slot], {}}
    BY <1>2, <2>1 DEF IInv, EnvSaved
  <2> QED
    BY <1>2, <1>5, <2>1, <2>2
<1>8. env' \in SUBSET Credentials
  BY <1>2, <1>5 DEF Frame
<1> QED
  BY <1>1, <1>3, <1>4, <1>5, <1>6, <1>7, <1>8, BelowInv

-----------------------------------------------------------------------------
(* Runs that begin and end, and callbacks that wait in one.                *)

\* With nothing on the stack, whether a run is in progress matters to nothing.
LEMMA AtRestInv ==
  ASSUME IInv, stack = <<>>, runner' \in BOOLEAN, UNCHANGED <<stack, env, task, gates>>
  PROVE  IInv'
<1>1. /\ Len(stack) = 0
      /\ UNCHANGED <<env, cwd, generated, context, depth, limited, processFree, generating, loading>>
  BY DEF task, gates
<1>2. \A k \in 1..Len(stack') : FALSE
  BY <1>1
<1>3. WaitingBelow' /\ PlacesSaved' /\ EnvSaved'
  BY <1>2 DEF WaitingBelow, PlacesSaved, EnvSaved
<1>4. TypeInv' /\ EnvFollows'
  BY <1>1 DEF IInv, TypeInv, EnvFollows
<1>5. GatesFollow' /\ PlacesFollow'
  <2>1. depth = 0 /\ GatesFollow /\ PlacesFollow
    BY AtRestFacts DEF IInv
  <2> QED
    BY <1>1, <2>1 DEF GatesFollow, PlacesFollow, RunsAt, OwnerAt, TaskAt
<1> QED
  BY <1>3, <1>4, <1>5 DEF IInv

LEMMA StartRunInv == ASSUME IInv, StartRun PROVE IInv'
BY AtRestInv DEF StartRun, AtRest

LEMMA EndRunInv == ASSUME IInv, EndRun PROVE IInv'
BY AtRestInv DEF EndRun

\* Whether the innermost waits matters to WaitingBelow alone.
LEMMA MarkedInv ==
  ASSUME IInv, stack # <<>>, NEW nested \in BOOLEAN, Waits(nested),
         nested => Kind(Len(stack)) = "task",
         UNCHANGED <<env, task, gates, runner>>
  PROVE  IInv'
<1> DEFINE n == Len(stack)
<1>1. /\ stack' \in Seq(Frame) /\ Len(stack') = n /\ stack' # <<>>
      /\ n \in Nat /\ n >= 1
      /\ \A k \in 1..n :
           /\ stack'[k].slot = stack[k].slot /\ stack'[k].env = stack[k].env
           /\ stack'[k].cwd = stack[k].cwd /\ stack'[k].generated = stack[k].generated
           /\ stack'[k].context = stack[k].context
           /\ k < n => stack'[k].nested = stack[k].nested
      /\ stack'[n].nested = nested
  BY Marked
<1>2. UNCHANGED <<env, cwd, generated, context, depth, limited, processFree, generating, loading,
                  runner>>
  BY DEF task, gates
<1>3. /\ \A k \in 1..n : Kind(k)' = Kind(k)
      /\ \A k \in 0..n : OwnerAt(k)' = OwnerAt(k) /\ TaskAt(k)' = TaskAt(k)
  BY <1>1 DEF Kind, OwnerAt, TaskAt
<1>4. n \in 1..n /\ Kind(Len(stack))' = Kind(n) /\ (RunsAt(Len(stack))' <=> RunsAt(n))
  BY <1>1 DEF RunsAt, Kind
<1>5. TypeInv'
  BY <1>1, <1>2 DEF IInv, TypeInv
<1>6. WaitingBelow'
  <2> SUFFICES ASSUME NEW k \in 1..n
               PROVE  /\ k < n => stack'[k].nested
                      /\ stack'[k].nested => Kind(k)' = "task"
                      /\ Kind(k)' = "task" => runner'
                      /\ k > 1 \/ runner' => Kind(k)' \in {"task", "source"}
    BY <1>1 DEF WaitingBelow
  <2>1. k < n \/ k = n
    BY <1>1
  <2>2. /\ k < n => stack[k].nested
        /\ k < n /\ stack[k].nested => Kind(k) = "task"
        /\ Kind(k) = "task" => runner
        /\ k > 1 \/ runner => Kind(k) \in {"task", "source"}
    BY DEF IInv, WaitingBelow
  <2> QED
    BY <1>1, <1>2, <1>3, <2>1, <2>2
<1>7. GatesFollow'
  BY <1>1, <1>2, <1>4 DEF IInv, GatesFollow
<1>8. depth \in 0..n
  BY <1>1 DEF IInv, GatesFollow
<1>9. PlacesFollow'
  <2>1. OwnerAt(depth)' = OwnerAt(depth) /\ TaskAt(depth)' = TaskAt(depth)
    BY <1>1, <1>2, <1>8 DEF OwnerAt, TaskAt, Kind
  <2> QED
    BY <1>2, <2>1 DEF IInv, PlacesFollow
<1>10. PlacesSaved'
  <2>1. \A k \in 1..n : k - 1 \in 0..n
    BY <1>1
  <2> QED
    BY <1>1, <1>3, <2>1 DEF IInv, PlacesSaved
<1>11. EnvFollows'
  BY <1>1, <1>2, <1>4 DEF IInv, EnvFollows
<1>12. EnvSaved'
  <2>1. \A k \in 1..n : k > 1 => k - 1 \in 1..n
    BY <1>1
  <2> QED
    BY <1>1, <1>3, <2>1 DEF IInv, EnvSaved
<1> QED
  BY <1>5, <1>6, <1>7, <1>9, <1>10, <1>11, <1>12 DEF IInv

LEMMA CallRunTaskInv == ASSUME IInv, CallRunTask PROVE IInv'
<1>1. stack # <<>> /\ runner /\ Waits(TRUE) /\ UNCHANGED <<env, task, gates, runner>> /\ depth > 0
      /\ processFree = 0 /\ ~generating /\ ~loading
  BY DEF CallRunTask, InLua, ExecOpen
<1>2. Len(stack) \in Nat /\ Len(stack) >= 1
  BY <1>1, Marked
<1>3. Kind(Len(stack)) \in {"task", "migrator"}
  <2> SUFFICES ASSUME ~RunsAt(Len(stack)) PROVE FALSE
    BY DEF RunsAt
  <2>1. Len(stack) > 1
    BY <1>1, <1>2 DEF IInv, GatesFollow
  <2>2. Kind(Len(stack)) = "source"
    BY <1>2, <2>1 DEF IInv, WaitingBelow, RunsAt
  <2> QED
    BY <1>1, <2>2 DEF IInv, GatesFollow
<1>4. Kind(Len(stack)) = "task"
  BY <1>1, <1>2, <1>3 DEF IInv, WaitingBelow
<1> QED
  BY <1>1, <1>4, MarkedInv

LEMMA ReturnRunTaskInv == ASSUME IInv, ReturnRunTask PROVE IInv'
<1>1. stack # <<>> /\ Waits(FALSE) /\ UNCHANGED <<env, task, gates, runner>>
  BY DEF ReturnRunTask
<1> QED
  BY <1>1, MarkedInv

-----------------------------------------------------------------------------
(* The theorems.                                                           *)

LEMMA InitIInv == Init => IInv
<1> SUFFICES ASSUME Init PROVE IInv
  OBVIOUS
<1>1. /\ stack = <<>> /\ Len(stack) = 0 /\ stack \in Seq(Frame)
      /\ env = {} /\ cwd = None /\ generated = None /\ context = None
      /\ depth = 0 /\ limited = TRUE /\ processFree = 0 /\ generating = FALSE /\ loading = FALSE
      /\ runner = FALSE
  BY DEF Init
<1>2. \A k \in 1..Len(stack) : FALSE
  BY <1>1
<1>3. WaitingBelow /\ PlacesSaved /\ EnvSaved
  BY <1>2 DEF WaitingBelow, PlacesSaved, EnvSaved
<1>4. TypeInv /\ EnvFollows
  BY <1>1 DEF TypeInv, EnvFollows, Owner
<1>5. GatesFollow /\ PlacesFollow
  BY <1>1 DEF GatesFollow, PlacesFollow, RunsAt, OwnerAt, TaskAt
<1> QED
  BY <1>3, <1>4, <1>5 DEF IInv

LEMMA NextIInv == IInv /\ [Next]_vars => IInv'
<1> SUFFICES ASSUME IInv, [Next]_vars PROVE IInv'
  OBVIOUS
<1>1. CASE UNCHANGED vars
  BY <1>1 DEF vars, task, gates, IInv, TypeInv, WaitingBelow, GatesFollow, PlacesFollow,
     PlacesSaved, EnvFollows, EnvSaved, Kind, RunsAt, OwnerAt, TaskAt
<1>2. ASSUME NEW s \in Slots,
             \/ EnterGenerate(s) \/ EnterChunk(s) \/ EnterResolver(s) \/ EnterSource(s)
             \/ EnterTranslator(s) \/ EnterMigrator(s) \/ EnterTask(s)
      PROVE  IInv'
  BY <1>2, EnterGenerateInv, EnterChunkInv, EnterResolverInv, EnterSourceInv,
     EnterTranslatorInv, EnterMigratorInv, EnterTaskInv
<1>3. CASE \/ LeaveGenerate \/ LeaveChunk \/ LeaveResolver \/ LeaveSource
           \/ LeaveTranslator \/ LeaveMigrator \/ LeaveTask
  BY <1>3, LeaveGenerateInv, LeaveChunkInv, LeaveResolverInv, LeaveSourceInv,
     LeaveTranslatorInv, LeaveMigratorInv, LeaveTaskInv
<1>4. CASE StartRun \/ EndRun \/ CallRunTask \/ ReturnRunTask
  BY <1>4, StartRunInv, EndRunInv, CallRunTaskInv, ReturnRunTaskInv
<1> QED
  BY <1>1, <1>2, <1>3, <1>4 DEF Next

\* Whatever callbacks are entered in one another, the static variables are what
\* the stack of those entered says (config_dispatch.c, config_lua.c).
THEOREM SpecIInv == Spec => []IInv
BY InitIInv, NextIInv, PTL DEF Spec

LEMMA WindowsMatchInv == IInv => WindowsMatch
<1> SUFFICES ASSUME IInv PROVE WindowsMatch
  OBVIOUS
<1> DEFINE n == Len(stack)
<1>0. n \in Nat
  BY DEF IInv, TypeInv
<1>1. stack \in Seq(Frame) /\ n \in Nat /\ \A k \in 1..n : stack[k] \in Frame
  BY DEF IInv, TypeInv
<1>2. stack # <<>> => n \in 1..n /\ n >= 1 /\ Top = stack[n] /\ Top.slot \in Slots
  BY <1>1 DEF Top, Frame
<1>3. ASSUME NEW k \in 1..n PROVE stack[k].slot \in Tasks <=> RunsAt(k)
  BY <1>1, <1>3 DEF Tasks, RunsAt, Kind, Frame
<1>4. stack = <<>> => ~ExecOpen /\ OnStack = {} /\ limited
  <2> SUFFICES ASSUME stack = <<>> PROVE ~ExecOpen /\ OnStack = {} /\ limited
    OBVIOUS
  <2>1. depth = 0 /\ limited
    BY AtRestFacts
  <2> QED
    BY <2>1 DEF ExecOpen, OnStack
<1>5. ASSUME InLua PROVE ExecOpen <=> Top.slot \in Tasks
  <2>1. stack # <<>> /\ n >= 1 /\ (Top.slot \in Tasks <=> RunsAt(n))
    BY <1>2, <1>3, <1>5 DEF InLua
  <2>2. CASE RunsAt(n)
    <3>1. depth > 0 /\ processFree = 0 /\ ~generating /\ ~loading
      BY <1>1, <2>1, <2>2 DEF IInv, GatesFollow, RunsAt
    <3> QED
      BY <2>1, <2>2, <3>1 DEF ExecOpen
  <2>3. CASE ~RunsAt(n)
    <3>1. n > 1 => Kind(n) = "source"
      BY <1>1, <2>1, <2>3 DEF IInv, WaitingBelow, RunsAt
    <3>2. n = 1 => depth = 0
      BY <2>1, <2>3 DEF IInv, GatesFollow
    <3>3. n > 1 => processFree = 1
      BY <2>1, <3>1 DEF IInv, GatesFollow
    <3>4. n = 1 \/ n > 1
      <4> HIDE DEF n
      <4> QED
        BY <1>0, <2>1
    <3>5. ~ExecOpen
      BY <3>2, <3>3, <3>4 DEF ExecOpen
    <3> QED
      BY <2>1, <2>3, <3>5
  <2> QED
    BY <2>2, <2>3
<1>6. ~limited <=> OnStack \cap Tasks # {}
  <2>1. CASE depth = 0
    <3>1. limited
      BY <2>1 DEF IInv, GatesFollow
    <3>2. ASSUME NEW k \in 1..n PROVE stack[k].slot \notin Tasks
      <4>1. n = 1 /\ k = 1 /\ ~RunsAt(n)
        BY <1>1, <2>1, <3>2 DEF IInv, GatesFollow
      <4> QED
        BY <1>3, <3>2, <4>1
    <3>3. DOMAIN stack = 1..n
      BY <1>1
    <3> QED
      BY <3>1, <3>2, <3>3 DEF OnStack
  <2>2. CASE depth # 0
    <3>1. ~limited
      BY <2>2 DEF IInv, GatesFollow
    <3>2. stack # <<>>
      BY <2>2, AtRestFacts
    <3>3. PICK k \in 1..n : RunsAt(k)
      <4>1. CASE RunsAt(n)
        BY <1>2, <3>2, <4>1
      <4>2. CASE ~RunsAt(n)
        <5>1. n > 1
          <6>1. depth = n - 1
            BY <3>2, <4>2 DEF IInv, GatesFollow
          <6> HIDE DEF n
          <6> QED
            BY <1>0, <1>2, <2>2, <3>2, <6>1
        <5>2. n - 1 \in 1..n /\ n - 1 < n /\ n - 1 > 0
          BY <1>1, <5>1
        <5>3. RunsAt(n - 1)
          BY <1>1, <5>2 DEF IInv, WaitingBelow, RunsAt
        <5> QED
          BY <5>2, <5>3
      <4> QED
        BY <4>1, <4>2
    <3>4. stack[k].slot \in Tasks /\ k \in DOMAIN stack
      BY <1>1, <1>3, <3>3
    <3> QED
      BY <3>1, <3>4 DEF OnStack
  <2> QED
    BY <2>1, <2>2
<1> QED
  BY <1>4, <1>5, <1>6 DEF WindowsMatch

LEMMA PlaceIsOwnInv == IInv => PlaceIsOwn
<1> SUFFICES ASSUME IInv PROVE PlaceIsOwn
  OBVIOUS
<1> DEFINE n == Len(stack)
<1>1. stack \in Seq(Frame) /\ n \in Nat /\ DOMAIN stack = 1..n
  BY DEF IInv, TypeInv
<1>2. ASSUME NEW kind \in {"task", "migrator"}, Is(kind)
      PROVE  cwd = Top.slot /\ (kind = "task" => generated = Top.slot /\ context = Top.slot)
  <2>1. stack # <<>> /\ n >= 1 /\ Top = stack[n] /\ Kind(n) = kind
    BY <1>1, <1>2 DEF Is, InLua, Top, Kind
  <2>2. depth = n
    <3>1. RunsAt(n)
      BY <1>1, <2>1 DEF RunsAt
    <3> QED
      BY <3>1 DEF IInv, GatesFollow
  <2> QED
    BY <2>1, <2>2 DEF IInv, PlacesFollow, OwnerAt, TaskAt
<1>3. {cwd, generated, context} \ {None} \subseteq OnStack
  <2>1. depth = 0 \/ depth \in 1..n
    BY <1>1 DEF IInv, GatesFollow
  <2>2. depth \in 1..n => stack[depth].slot \in OnStack
    BY <1>1 DEF OnStack
  <2> QED
    BY <2>1, <2>2 DEF IInv, PlacesFollow, OwnerAt, TaskAt
<1> QED
  BY <1>2, <1>3 DEF PlaceIsOwn

\* A process can be started exactly while the callback that runs is one that
\* may, and the instruction limit is lifted for as long as one has not returned.
THEOREM DispatchWindowsMatch == Spec => []WindowsMatch
BY SpecIInv, WindowsMatchInv, PTL

\* A task that runs, again after the tasks it ran itself, runs in its own
\* directories and context, and none of them outlives it.
THEOREM DispatchPlaceIsOwn == Spec => []PlaceIsOwn
BY SpecIInv, PlaceIsOwnInv, PTL

\* No callback reads a credential that only another plugin's chunk declared.
THEOREM DispatchNeverAnothersEnv == Spec => []NeverAnothersEnv
<1>1. IInv => NeverAnothersEnv
  BY DEF IInv, EnvFollows, NeverAnothersEnv, InLua, Top
<1> QED
  BY <1>1, SpecIInv, PTL

-----------------------------------------------------------------------------
(* Exec: what the parent has captured, what is on its way and what was     *)
(* written add up, until something is lost, which is then said; and a      *)
(* stream that ended has nobody left to write to it.                       *)

BeforeStart == {"callback", "line", "pipes", "environment", "start"}

\* The pipe ends are open while they are needed.
EndsFollow ==
  /\ pc \in {"callback", "line", "pipes", "wait", "answered"} => ends = {}
  /\ pc \in {"environment", "start"} /\ ~call.capture => ends = {}

\* Nothing runs and nothing is written before the child is started.
NothingBegun ==
  pc \in BeforeStart =>
    /\ \A p \in Processes : ~Live(p)
    /\ \A s \in Streams : stream[s] = EmptyStream /\ buffer[s] = <<>> /\ written[s] = 0

\* A stream holds a beginning of what was written, and the pipe an end of it.
InOrder(s) ==
  /\ \A n \in 1..Len(stream[s].text) : stream[s].text[n] = n
  /\ \A n \in 1..Len(buffer[s]) : buffer[s][n] = written[s] - Len(buffer[s]) + n

\* As long as nothing is missing the two meet; when something is, nothing is added.
AddsUp(s) ==
  /\ ~stream[s].truncated /\ ~stream[s].oom => Len(stream[s].text) + Len(buffer[s]) = written[s]
  /\ pc = "drain" /\ stream[s].truncated => Discarding(stream[s]) \/ stream[s].eof

\* A stream that is over was read to its end, or a read failed and that is said.
EndIsMeant(s) ==
  /\ stream[s].failed => stream[s].truncated \/ stream[s].oom
  /\ stream[s].eof /\ ~stream[s].failed => buffer[s] = <<>> /\ \A p \in Processes : ~Live(p)
  /\ pc = "wait" /\ call.capture => stream[s].eof \/ stream[s].truncated

StreamsFollow == \A s \in Streams : InOrder(s) /\ AddsUp(s) /\ EndIsMeant(s)

\* A text given is what was captured, to its first NUL.
GivenText(s) ==
  \E n \in 0..Len(stream[s].text) : EndsAt(s, n) /\ answer.text[s] = SubSeq(stream[s].text, 1, n)

\* An answer is given once the child is gone, and says what the streams say.
AnswerFollows ==
  pc = "answered" =>
    /\ ~Live("child")
    /\ answer.kind = "ran" =>
         /\ answer.truncated <=> \E s \in Streams : stream[s].truncated
         /\ \A s \in Streams : ~stream[s].oom /\ (call.capture => stream[s].eof \/ stream[s].truncated)
         /\ call.capture => \A s \in Streams : GivenText(s)

ExecInv == ExecTypeOK /\ EndsFollow /\ NothingBegun /\ StreamsFollow /\ AnswerFollows

\* A nonempty set of naturals has a least member.
LEMMA LeastMember ==
  ASSUME NEW S \in SUBSET Nat, S # {}
  PROVE  \E least \in S : \A i \in S : least <= i
<1>1. PICK least \in S : \A i \in S : ~(<<i, least>> \in OpToRel(<, Nat))
  BY NatLessThanWellFounded, WFMin
<1>2. ASSUME NEW i \in S PROVE least <= i
  <2>1. ~(i < least)
    BY <1>1 DEF OpToRel
  <2> QED
    BY <2>1
<1> QED
  BY <1>2

\* Every text ends somewhere: at its first NUL, or where it is over.
LEMMA TextEnds ==
  ASSUME NEW s \in Streams, stream[s].text \in Seq(Nat)
  PROVE  \E n \in 0..Len(stream[s].text) :
           EndsAt(s, n) /\ AsString(s) = SubSeq(stream[s].text, 1, n)
<1> DEFINE text == stream[s].text
           nuls == {m \in 1..Len(text) : IsNul(s, text[m])}
<1>1. Len(text) \in Nat
  OBVIOUS
<1>2. \E n \in 0..Len(text) : EndsAt(s, n)
  <2>1. CASE nuls = {}
    <3>1. EndsAt(s, Len(text))
      BY <1>1, <2>1 DEF EndsAt
    <3> QED
      BY <1>1, <3>1
  <2>2. CASE nuls # {}
    <3>1. PICK least \in nuls : \A i \in nuls : least <= i
      <4>1. nuls \in SUBSET Nat
        BY <1>1
      <4> QED
        BY <2>2, <4>1, LeastMember
    <3>2. \A m \in 1..least - 1 : ~IsNul(s, text[m])
      BY <1>1, <3>1
    <3>3. EndsAt(s, least - 1) /\ least - 1 \in 0..Len(text)
      BY <1>1, <3>1, <3>2 DEF EndsAt
    <3> QED
      BY <3>3
  <2> QED
    BY <2>1, <2>2
<1> DEFINE end == CHOOSE n \in 0..Len(text) : EndsAt(s, n)
<1>3. end \in 0..Len(text) /\ EndsAt(s, end)
  BY <1>2
<1>4. AsString(s) = SubSeq(text, 1, end)
  BY DEF AsString
<1> QED
  BY <1>3, <1>4

\* What was given stays given.
LEMMA TextsStay ==
  ASSUME UNCHANGED <<call, stream, answer>>
  PROVE  \A s \in Streams : GivenText(s)' <=> GivenText(s)
BY DEF GivenText, EndsAt, IsNul

LEMMA ExecInitInv == ExecInit => ExecInv
<1> SUFFICES ASSUME ExecInit PROVE ExecInv
  OBVIOUS
<1> USE DEF ExecInit
<1>1. EmptyStream \in Stream /\ EmptyStream.text = <<>> /\ EmptyStream.capacity = FirstCapacity
  BY ExecAssumption DEF EmptyStream, Stream
<1>2. NoProcess \in Process /\ ~NoProcess.live
  BY DEF NoProcess, Process
<1>3. ExecTypeOK
  <2>1. answer \in Given
    BY DEF NoAnswer, NoText, Given
  <2>2. stream \in [Streams -> Stream] /\ buffer \in [Streams -> Seq(Nat)]
    BY <1>1
  <2>3. \A s \in Streams : /\ Len(stream[s].text) <= Limit /\ Len(stream[s].text) < stream[s].capacity
                           /\ Len(buffer[s]) <= PipeRoom
    BY <1>1, ExecAssumption
  <2>4. process \in [Processes -> Process] /\ written \in [Streams -> Nat]
    BY <1>2
  <2>5. report \in Seq(Reported) /\ Len(report) <= ReportCapacity /\ asked \in 0..MaxTools
    BY ExecAssumption
  <2> QED
    BY <2>1, <2>2, <2>3, <2>4, <2>5 DEF ExecTypeOK
<1>4. \A s \in Streams : stream[s] = EmptyStream /\ buffer[s] = <<>> /\ written[s] = 0
  OBVIOUS
<1>5. EndsFollow /\ NothingBegun /\ AnswerFollows
  BY <1>2, <1>4 DEF EndsFollow, NothingBegun, AnswerFollows, Live
<1>6. StreamsFollow
  BY <1>1, <1>4 DEF StreamsFollow, InOrder, AddsUp, EndIsMeant, EmptyStream
<1> QED
  BY <1>3, <1>5, <1>6 DEF ExecInv

(* The steps before the child is there.                                    *)

\* Where neither the streams nor the processes are touched, and the parent
\* neither starts nor ends draining, what is said of them stays.
LEMMA StreamsStay ==
  ASSUME ExecInv, UNCHANGED <<call, stream, buffer, process, written>>,
         pc' \in {pc} \cup BeforeStart \cup {"answered"}
  PROVE  StreamsFollow'
BY DEF ExecInv, StreamsFollow, InOrder, AddsUp, EndIsMeant, Live, Discarding, BeforeStart

LEMMA BeforeStartInv ==
  ASSUME ExecInv, pc \in BeforeStart, ExecTypeOK', EndsFollow',
         UNCHANGED <<call, stream, buffer, process, written>>,
         \/ pc' \in BeforeStart /\ UNCHANGED answer
         \/ Answer(Failed)
  PROVE  ExecInv'
<1>1. NothingBegun'
  BY DEF ExecInv, NothingBegun, Live
<1>2. AnswerFollows'
  <2>1. ~Live("child")'
    BY DEF ExecInv, NothingBegun, Live, Processes
  <2> QED
    BY <2>1 DEF AnswerFollows, Answer, Failed, NoAnswer, BeforeStart
<1>3. StreamsFollow'
  BY StreamsStay DEF Answer
<1> QED
  BY <1>1, <1>2, <1>3 DEF ExecInv

LEMMA FailedIsGiven ==
  /\ Failed \in Given
  /\ \A code \in Nat : [Failed EXCEPT !.code = code] \in Given /\ [Failed EXCEPT !.code = code].kind = "error"
<1>1. NoText \in [Streams -> Seq(Nat)]
  BY DEF NoText
<1>2. NoAnswer \in Given
  BY <1>1 DEF NoAnswer, Given
<1>3. Failed \in Given /\ Failed.kind = "error"
  BY <1>2 DEF Failed, Given
<1> QED
  BY <1>3 DEF Given

\* A tool that is found is one of those installed, and the report keeps its size.
LEMMA AskToolInv ==
  ASSUME ExecInv, NEW n \in Names, NEW l \in Labels, AskTool(n, l)
  PROVE  ExecInv'
<1>1. Resolved(platform, n) \subseteq Installed
  BY DEF Resolved, Found
<1>2. tools' \subseteq Installed
  BY <1>1 DEF ExecInv, ExecTypeOK, AskTool
<1>3. report' \in Seq(Reported) /\ Len(report') <= ReportCapacity
  <2>1. report \in Seq(Reported) /\ Len(report) \in Nat /\ Len(report) <= ReportCapacity
    BY DEF ExecInv, ExecTypeOK
  <2>2. CASE report' = report
    BY <2>1, <2>2
  <2>3. CASE report' # report
    <3>1. PICK f \in Installed : report' = UsedInstalled(report, n, l, f)
      BY <1>1, <2>3 DEF AskTool
    <3>2. Len(report) # ReportCapacity
      BY <2>3, <3>1 DEF UsedInstalled, Recorded
    <3>3. PICK row \in Reported : report' = Append(report, row)
      <4>1. \A label \in Labels \cup Names : Row("installed", f, label, FALSE) \in Reported
        BY DEF Row, Reported
      <4> QED
        BY <2>3, <3>1, <4>1 DEF UsedInstalled, Recorded
    <3> QED
      BY <2>1, <3>2, <3>3, ExecAssumption
  <2> QED
    BY <2>2, <2>3
<1>4. ExecTypeOK'
  <2>1. asked' \in 0..MaxTools
    BY ExecAssumption DEF ExecInv, ExecTypeOK, AskTool
  <2> QED
    BY <1>2, <1>3, <2>1 DEF ExecInv, ExecTypeOK, AskTool, capture, running
<1>5. EndsFollow'
  BY DEF ExecInv, EndsFollow, AskTool
<1> QED
  BY <1>4, <1>5, BeforeStartInv DEF AskTool, BeforeStart, capture, running

LEMMA AskExecInv ==
  ASSUME ExecInv, NEW h, AskExec(h)
  PROVE  ExecInv'
<1>1. answer' \in Given
  BY FailedIsGiven DEF ExecInv, ExecTypeOK, AskExec, Answer
<1>2. ExecTypeOK'
  BY <1>1 DEF ExecInv, ExecTypeOK, AskExec, Answer, capture, running
<1>3. EndsFollow'
  BY DEF ExecInv, EndsFollow, AskExec, Answer
<1> QED
  BY <1>2, <1>3, BeforeStartInv DEF AskExec, BeforeStart, capture, running

LEMMA PreparesInv ==
  ASSUME ExecInv, CommandLine \/ OpenPipes \/ BuildEnvironment
  PROVE  ExecInv'
<1>1. answer' \in Given
  BY FailedIsGiven DEF ExecInv, ExecTypeOK, CommandLine, OpenPipes, BuildEnvironment, Answer
<1>2. CASE CommandLine
  <2>1. ExecTypeOK' /\ EndsFollow'
    BY <1>1, <1>2 DEF ExecInv, ExecTypeOK, EndsFollow, CommandLine, Answer, capture, running
  <2> QED
    BY <1>2, <2>1, BeforeStartInv DEF CommandLine, BeforeStart, capture, running
<1>3. CASE OpenPipes
  <2>1. ends' \subseteq Streams \X {"read", "write"}
    BY <1>3 DEF ExecInv, ExecTypeOK, OpenPipes
  <2>2. ExecTypeOK'
    BY <1>1, <1>3, <2>1 DEF ExecInv, ExecTypeOK, OpenPipes, Answer, capture, running
  <2>3. EndsFollow'
    BY <1>3 DEF ExecInv, EndsFollow, OpenPipes, Answer
  <2> QED
    BY <1>3, <2>2, <2>3, BeforeStartInv DEF OpenPipes, BeforeStart, capture, running
<1>4. CASE BuildEnvironment
  <2>1. seen' \subseteq Inherited \cup call'.env
    BY <1>4 DEF ExecInv, ExecTypeOK, BuildEnvironment, ChildEnvironment
  <2>2. ExecTypeOK'
    BY <1>1, <1>4, <2>1 DEF ExecInv, ExecTypeOK, BuildEnvironment, Answer, CloseAll, capture
  <2>3. EndsFollow'
    BY <1>4 DEF ExecInv, EndsFollow, BuildEnvironment, Answer, CloseAll
  <2> QED
    BY <1>4, <2>2, <2>3, BeforeStartInv DEF BuildEnvironment, BeforeStart, capture
<1> QED
  BY <1>2, <1>3, <1>4

(* The child, and what it leaves.                                          *)

LEMMA StartChildInv ==
  ASSUME ExecInv, StartChild
  PROVE  ExecInv'
<1>1. pc = "start" /\ call \in Calls /\ IsCall(call)
  BY ExecAssumption DEF ExecInv, ExecTypeOK, StartChild
<1>2. \A s \in Streams : stream[s] = EmptyStream /\ buffer[s] = <<>> /\ written[s] = 0
  BY <1>1 DEF ExecInv, NothingBegun, BeforeStart
<1>3. CASE CloseAll /\ Answer(Failed) /\ UNCHANGED <<process, stream>>
  <2>1. ExecTypeOK' /\ EndsFollow'
    BY <1>3, FailedIsGiven DEF ExecInv, ExecTypeOK, EndsFollow, StartChild, CloseAll, Answer
  <2> QED
    BY <1>1, <1>3, <2>1, BeforeStartInv DEF StartChild, BeforeStart
<1>4. CASE Started /\ process' \in {Begins(call), Stillborn}
  <2>1. process' \in [Processes -> Process]
    <3>1. Begins(call).child \in Process /\ Begins(call).kin \in Process
      BY <1>1 DEF Begins, IsCall, Process
    <3>2. Stillborn.child \in Process /\ Stillborn.kin \in Process
      BY DEF Stillborn, NoProcess, NotStarted, Process
    <3>3. DOMAIN Begins(call) = Processes /\ DOMAIN Stillborn = Processes
      BY DEF Begins, Stillborn, Processes
    <3>4. Begins(call) = [p \in Processes |-> Begins(call)[p]] /\ Stillborn = [p \in Processes |-> Stillborn[p]]
      BY <3>3 DEF Begins, Stillborn, Processes
    <3> QED
      BY <1>4, <3>1, <3>2, <3>4 DEF Processes
  <2>2. PICK oom \in SUBSET Streams : stream' = [s \in Streams |-> [EmptyStream EXCEPT !.oom = s \in oom]]
    BY <1>4 DEF Started
  <2>3. \A s \in Streams : /\ stream'[s] \in Stream /\ stream'[s].text = <<>>
                           /\ stream'[s].capacity = FirstCapacity
                           /\ ~stream'[s].truncated /\ ~stream'[s].eof /\ ~stream'[s].failed
    <3> TAKE s \in Streams
    <3>1. PICK missing \in BOOLEAN : stream'[s] = [EmptyStream EXCEPT !.oom = missing]
      <4>1. stream'[s] = [EmptyStream EXCEPT !.oom = s \in oom]
        BY <2>2, Zenon
      <4>2. (s \in oom) \in BOOLEAN
        OBVIOUS
      <4> QED
        BY <4>1, <4>2, Zenon
    <3>2. stream'[s] = [text |-> <<>>, capacity |-> FirstCapacity, truncated |-> FALSE, oom |-> missing,
                        capped |-> FALSE, eof |-> FALSE, failed |-> FALSE]
      BY <3>1 DEF EmptyStream
    <3>3. FirstCapacity \in Nat
      BY ExecAssumption
    <3> QED
      BY <3>2, <3>3 DEF Stream
  <2>4. stream' \in [Streams -> Stream]
    BY <2>2, <2>3
  <2>5. UNCHANGED <<platform, tools, report, asked, call, answer, buffer, written, seen>>
    BY <1>4 DEF StartChild, Started
  <2>6. ends' \subseteq ends /\ pc' = (IF call.capture THEN "drain" ELSE "wait")
    BY <1>4 DEF Started
  <2>7. ExecTypeOK'
    <3>1. \A s \in Streams : /\ Len(stream'[s].text) <= Limit /\ Len(stream'[s].text) < stream'[s].capacity
                             /\ Len(buffer'[s]) <= PipeRoom
      BY <1>2, <2>3, <2>5, ExecAssumption
    <3> QED
      BY <2>1, <2>4, <2>5, <2>6, <3>1 DEF ExecInv, ExecTypeOK
  <2>8. EndsFollow' /\ NothingBegun' /\ AnswerFollows'
    BY <1>1, <2>5, <2>6 DEF ExecInv, EndsFollow, NothingBegun, AnswerFollows, BeforeStart
  <2>9. StreamsFollow'
    <3> SUFFICES ASSUME NEW s \in Streams PROVE InOrder(s)' /\ AddsUp(s)' /\ EndIsMeant(s)'
      BY DEF StreamsFollow
    <3>1. buffer'[s] = <<>> /\ written'[s] = 0
      BY <1>2, <2>5
    <3> QED
      BY <2>3, <2>5, <2>6, <3>1 DEF InOrder, AddsUp, EndIsMeant
  <2> QED
    BY <2>7, <2>8, <2>9 DEF ExecInv
<1> QED
  BY <1>3, <1>4 DEF StartChild

\* What is said of a stream stays while it and its pipe are not touched.
LEMMA SameStream ==
  ASSUME ExecInv, NEW s \in Streams, UNCHANGED <<pc, call>>,
         stream'[s] = stream[s], buffer'[s] = buffer[s], written'[s] = written[s],
         \A q \in Processes : process'[q].live => process[q].live
  PROVE  InOrder(s)' /\ AddsUp(s)' /\ EndIsMeant(s)'
<1>1. InOrder(s) /\ AddsUp(s) /\ EndIsMeant(s)
  BY DEF ExecInv, StreamsFollow
<1>2. InOrder(s)'
  BY <1>1 DEF InOrder
<1>3. AddsUp(s)'
  <2>1. Discarding(stream[s])' <=> Discarding(stream[s])
    BY DEF Discarding
  <2> QED
    BY <1>1, <2>1 DEF AddsUp
<1>4. EndIsMeant(s)'
  BY <1>1 DEF EndIsMeant, Live
<1> QED
  BY <1>2, <1>3, <1>4

\* A process that writes adds to the end of what is on its way, while somebody
\* reads; one that does not live writes nothing.
LEMMA WriteInv ==
  ASSUME ExecInv, NEW p \in Processes, NEW s \in Streams, Write(p, s)
  PROVE  ExecInv'
<1>1. UNCHANGED <<platform, tools, report, asked, pc, call, answer, ends, stream, seen>>
  BY DEF Write
<1>2. Live(p) /\ process[p] \in Process /\ process[p].script # <<>> /\ process \in [Processes -> Process]
  BY DEF ExecInv, ExecTypeOK, Write, Wants
<1>3. pc \notin BeforeStart
  BY <1>2 DEF ExecInv, NothingBegun
<1>4. /\ process' \in [Processes -> Process]
      /\ \A q \in Processes : process'[q].live => process[q].live
  <2>1. CASE Written(p)
    <3>1. Tail(process[p].script) \in Seq(Streams)
      BY <1>2 DEF Process
    <3>2. [process[p] EXCEPT !.script = Tail(@)] \in Process
      BY <1>2, <3>1 DEF Process
    <3>3. [process[p] EXCEPT !.script = Tail(@)].live = process[p].live
      BY <1>2 DEF Process
    <3>4. process' = [process EXCEPT ![p] = [process[p] EXCEPT !.script = Tail(@)]]
      BY <2>1 DEF Written
    <3> QED
      BY <1>2, <3>2, <3>3, <3>4
  <2>2. CASE process' = [process EXCEPT ![p] = [@ EXCEPT !.live = FALSE, !.code = Interrupted]]
    <3>1. [process[p] EXCEPT !.live = FALSE, !.code = Interrupted] \in Process
      BY <1>2, ExecAssumption DEF Process
    <3>2. ~[process[p] EXCEPT !.live = FALSE, !.code = Interrupted].live
      BY <1>2 DEF Process
    <3> QED
      BY <1>2, <2>2, <3>1, <3>2
  <2> QED
    BY <2>1, <2>2 DEF Write
<1>5. CASE UNCHANGED <<buffer, written>>
  <2>1. ExecTypeOK'
    BY <1>1, <1>4, <1>5 DEF ExecInv, ExecTypeOK
  <2>2. EndsFollow' /\ NothingBegun'
    BY <1>1, <1>3 DEF ExecInv, EndsFollow, NothingBegun
  <2>3. AnswerFollows'
    BY <1>1, <1>4, TextsStay DEF ExecInv, AnswerFollows, Live, Processes
  <2>4. StreamsFollow'
    BY <1>1, <1>4, <1>5 DEF ExecInv, StreamsFollow, InOrder, AddsUp, EndIsMeant, Live, Discarding
  <2> QED
    BY <2>1, <2>2, <2>3, <2>4 DEF ExecInv
<1>6. CASE /\ call.capture /\ IsRead(s) /\ Len(buffer[s]) < PipeRoom
           /\ buffer' = [buffer EXCEPT ![s] = Append(@, written[s] + 1)]
           /\ written' = [written EXCEPT ![s] = @ + 1]
  <2>1. pc = "drain"
    BY <1>3, <1>6 DEF ExecInv, ExecTypeOK, EndsFollow, IsRead, BeforeStart
  <2>2. buffer \in [Streams -> Seq(Nat)] /\ written \in [Streams -> Nat] /\ PipeRoom \in Nat
    BY ExecAssumption DEF ExecInv, ExecTypeOK
  <2>3. \A t \in Streams : t # s => buffer'[t] = buffer[t] /\ written'[t] = written[t]
    BY <1>6, <2>2
  <2>4. /\ buffer'[s] = Append(buffer[s], written[s] + 1) /\ written'[s] = written[s] + 1
        /\ buffer'[s] \in Seq(Nat) /\ Len(buffer'[s]) = Len(buffer[s]) + 1 /\ Len(buffer'[s]) <= PipeRoom
    BY <1>6, <2>2
  <2>5. ExecTypeOK'
    <3>1. buffer' \in [Streams -> Seq(Nat)] /\ written' \in [Streams -> Nat]
      BY <1>6, <2>2
    <3>2. \A t \in Streams : Len(buffer'[t]) <= PipeRoom
      BY <2>3, <2>4 DEF ExecInv, ExecTypeOK
    <3> QED
      BY <1>1, <1>4, <3>1, <3>2 DEF ExecInv, ExecTypeOK
  <2>6. EndsFollow' /\ NothingBegun' /\ AnswerFollows'
    BY <1>1, <1>3, <2>1 DEF ExecInv, EndsFollow, NothingBegun, AnswerFollows
  <2>7. ASSUME NEW t \in Streams, t # s PROVE InOrder(t)' /\ AddsUp(t)' /\ EndIsMeant(t)'
    BY <1>1, <1>4, <2>3, <2>7, SameStream
  <2>8. InOrder(s)'
    <3>1. InOrder(s)
      BY DEF ExecInv, StreamsFollow
    <3>2. ASSUME NEW n \in 1..Len(buffer'[s]) PROVE buffer'[s][n] = written'[s] - Len(buffer'[s]) + n
      <4>1. CASE n = Len(buffer[s]) + 1
        BY <2>2, <2>4, <4>1
      <4>2. CASE n \in 1..Len(buffer[s])
        BY <2>2, <2>4, <3>1, <4>2 DEF InOrder
      <4> QED
        BY <2>2, <2>4, <4>1, <4>2
    <3> QED
      BY <1>1, <3>1, <3>2 DEF InOrder
  <2>9. AddsUp(s)'
    <3>1. AddsUp(s) /\ stream[s].text \in Seq(Nat)
      BY DEF ExecInv, StreamsFollow, ExecTypeOK, Stream
    <3>2. stream'[s] = stream[s] /\ Len(stream[s].text) \in Nat /\ Len(buffer[s]) \in Nat
      BY <1>1, <2>2, <3>1
    <3>3. Discarding(stream[s])' <=> Discarding(stream[s])
      BY <1>1 DEF Discarding
    <3>4. ASSUME ~stream[s].truncated, ~stream[s].oom
          PROVE  Len(stream[s].text) + Len(buffer'[s]) = written'[s]
      <4> DEFINE had == Len(stream[s].text)
                 was == Len(buffer[s])
                 is == Len(buffer'[s])
      <4>1. had + was = written[s] /\ had \in Nat /\ was \in Nat /\ written[s] \in Nat
        BY <2>2, <3>1, <3>2, <3>4 DEF AddsUp
      <4>2. is = was + 1 /\ written'[s] = written[s] + 1
        BY <2>4
      <4> HIDE DEF had, was, is
      <4>3. had + is = written'[s]
        BY <4>1, <4>2
      <4> QED
        BY <4>3 DEF had, is
    <3> QED
      BY <1>1, <3>1, <3>2, <3>3, <3>4 DEF AddsUp
  <2>10. EndIsMeant(s)'
    BY <1>1, <1>2, <2>1 DEF ExecInv, StreamsFollow, EndIsMeant
  <2> QED
    BY <2>5, <2>6, <2>7, <2>8, <2>9, <2>10 DEF ExecInv, StreamsFollow
<1> QED
  BY <1>5, <1>6 DEF Write

LEMMA ExitInv ==
  ASSUME ExecInv, NEW p \in Processes, Exit(p)
  PROVE  ExecInv'
<1>1. UNCHANGED <<platform, tools, report, asked, pc, call, answer, ends, stream, buffer, written, seen>>
  BY DEF Exit, capture
<1>2. Live(p) /\ process \in [Processes -> Process]
  BY DEF ExecInv, ExecTypeOK, Exit
<1>3. /\ process' \in [Processes -> Process]
      /\ \A q \in Processes : process'[q].live => process[q].live
  <2>1. [process[p] EXCEPT !.live = FALSE] \in Process /\ ~[process[p] EXCEPT !.live = FALSE].live
    BY <1>2 DEF Process
  <2>2. process' = [process EXCEPT ![p] = [process[p] EXCEPT !.live = FALSE]]
    BY DEF Exit
  <2> QED
    BY <1>2, <2>1, <2>2
<1>4. ExecTypeOK'
  BY <1>1, <1>3 DEF ExecInv, ExecTypeOK
<1>5. EndsFollow' /\ NothingBegun'
  BY <1>1, <1>3 DEF ExecInv, EndsFollow, NothingBegun, Live
<1>6. AnswerFollows'
  BY <1>1, <1>3, TextsStay DEF ExecInv, AnswerFollows, Live, Processes
<1>7. StreamsFollow'
  BY <1>1, <1>3 DEF ExecInv, StreamsFollow, InOrder, AddsUp, EndIsMeant, Live, Discarding
<1> QED
  BY <1>4, <1>5, <1>6, <1>7 DEF ExecInv

(* Reading.                                                                *)

\* What is said of a stream, of a record and what is left in its pipe.
Follows(st, left, w) ==
  /\ \A n \in 1..Len(st.text) : st.text[n] = n
  /\ \A n \in 1..Len(left) : left[n] = w - Len(left) + n
  /\ ~st.truncated /\ ~st.oom => Len(st.text) + Len(left) = w
  /\ st.truncated => Discarding(st) \/ st.eof
  /\ st.failed => st.truncated \/ st.oom
  /\ st.eof /\ ~st.failed => left = <<>> /\ \A p \in Processes : ~Live(p)

Fits(st) == st \in Stream /\ Len(st.text) <= Limit /\ Len(st.text) < st.capacity

LEMMA StreamNow ==
  ASSUME ExecInv, pc = "drain", NEW s \in Streams
  PROVE  /\ Follows(stream[s], buffer[s], written[s]) /\ Fits(stream[s])
         /\ buffer[s] \in Seq(Nat) /\ Len(buffer[s]) <= PipeRoom /\ written[s] \in Nat
BY DEF ExecInv, ExecTypeOK, StreamsFollow, InOrder, AddsUp, EndIsMeant, Follows, Fits

LEMMA OneStreamInv ==
  ASSUME ExecInv, pc = "drain", NEW s \in Streams,
         UNCHANGED <<platform, tools, report, asked, pc, call, answer, ends, running>>,
         NEW new, NEW left \in Seq(Nat), Len(left) <= PipeRoom,
         stream' = [stream EXCEPT ![s] = new], buffer' = [buffer EXCEPT ![s] = left],
         Fits(new), Follows(new, left, written[s])
  PROVE  ExecInv'
<1>1. stream \in [Streams -> Stream] /\ buffer \in [Streams -> Seq(Nat)]
  BY DEF ExecInv, ExecTypeOK
<1>2. stream'[s] = new /\ buffer'[s] = left
  BY <1>1
<1>3. \A t \in Streams : t # s => stream'[t] = stream[t] /\ buffer'[t] = buffer[t]
  BY <1>1
<1>4. UNCHANGED <<process, written, seen>>
  BY DEF running
<1>5. ExecTypeOK'
  <2>1. stream' \in [Streams -> Stream] /\ buffer' \in [Streams -> Seq(Nat)]
    BY <1>1 DEF Fits
  <2>2. \A t \in Streams : /\ Len(stream'[t].text) <= Limit /\ Len(stream'[t].text) < stream'[t].capacity
                           /\ Len(buffer'[t]) <= PipeRoom
    BY <1>2, <1>3 DEF ExecInv, ExecTypeOK, Fits
  <2> QED
    BY <1>4, <2>1, <2>2 DEF ExecInv, ExecTypeOK
<1>6. EndsFollow' /\ NothingBegun' /\ AnswerFollows'
  BY DEF ExecInv, EndsFollow, NothingBegun, AnswerFollows, BeforeStart
<1>7. ASSUME NEW t \in Streams, t # s PROVE InOrder(t)' /\ AddsUp(t)' /\ EndIsMeant(t)'
  BY <1>3, <1>4, <1>7, SameStream
<1>8. InOrder(s)' /\ AddsUp(s)' /\ EndIsMeant(s)'
  <2>1. written'[s] = written[s] /\ \A p \in Processes : Live(p)' <=> Live(p)
    BY <1>4 DEF Live
  <2>2. InOrder(s)'
    BY <1>2, <2>1 DEF Follows, InOrder
  <2>3. AddsUp(s)'
    <3>1. Discarding(stream[s])' <=> Discarding(new)
      BY <1>2 DEF Discarding
    <3> QED
      BY <1>2, <2>1, <3>1 DEF Follows, AddsUp
  <2>4. EndIsMeant(s)'
    BY <1>2, <2>1 DEF Follows, EndIsMeant
  <2> QED
    BY <2>2, <2>3, <2>4
<1> QED
  BY <1>5, <1>6, <1>7, <1>8 DEF ExecInv, StreamsFollow

\* Growing leaves room for a unit and the byte after it.
LEMMA GrownFits ==
  ASSUME NEW st, Fits(st), NEW left, NEW w, Follows(st, left, w), ~Discarding(st)
  PROVE  /\ Fits(Grown(st)) /\ Follows(Grown(st), left, w)
         /\ Grown(st).text = st.text /\ ~Grown(st).oom /\ ~Grown(st).capped
         /\ Grown(st).eof = st.eof
         /\ Len(st.text) + 1 < Grown(st).capacity
<1>1. st \in Stream /\ Len(st.text) \in Nat /\ st.capacity \in Nat /\ ~st.oom /\ ~st.capped
  BY DEF Fits, Discarding, Stream
<1>2. CASE ~IsFull(st)
  BY <1>1, <1>2 DEF Grown, IsFull
<1>3. CASE IsFull(st)
  <2>1. PICK g : g = [st EXCEPT !.capacity = 2 * @]
    OBVIOUS
  <2>2. /\ g \in Stream /\ g.capacity = 2 * st.capacity /\ g.text = st.text
        /\ g.truncated = st.truncated /\ g.oom = st.oom /\ g.capped = st.capped
        /\ g.eof = st.eof /\ g.failed = st.failed
    BY <1>1, <2>1 DEF Stream
  <2>3. Grown(st) = g
    BY <1>3, <2>1 DEF Grown
  <2>4. Fits(g) /\ Len(st.text) + 1 < g.capacity
    BY <1>1, <2>2 DEF Fits
  <2>5. Discarding(g) <=> Discarding(st)
    BY <2>2 DEF Discarding
  <2>6. Follows(g, left, w)
    BY <2>2, <2>5 DEF Follows
  <2> QED
    BY <1>1, <2>2, <2>3, <2>4, <2>6
<1> QED
  BY <1>2, <1>3

\* The end of a stream.
LEMMA EofFollows ==
  ASSUME NEW st, Fits(st), NEW w, Follows(st, <<>>, w), \A p \in Processes : ~Live(p)
  PROVE  LET new == [st EXCEPT !.eof = TRUE] IN Fits(new) /\ Follows(new, <<>>, w)
<1>1. PICK new : new = [st EXCEPT !.eof = TRUE]
  OBVIOUS
<1>2. /\ new \in Stream /\ new.eof /\ new.capacity = st.capacity /\ new.text = st.text
      /\ new.truncated = st.truncated /\ new.oom = st.oom /\ new.failed = st.failed
  BY <1>1 DEF Fits, Stream
<1>3. Fits(new) /\ Follows(new, <<>>, w)
  BY <1>2 DEF Fits, Follows
<1> QED
  BY <1>1, <1>3

\* A read that fails.
LEMMA FailureFollows ==
  ASSUME NEW st, Fits(st), NEW left, NEW w, Follows(st, left, w)
  PROVE  LET new == [Lost(st) EXCEPT !.eof = TRUE, !.failed = TRUE]
         IN  Fits(new) /\ Follows(new, left, w)
<1>1. PICK mid : mid = Lost(st)
  OBVIOUS
<1>2. PICK new : new = [mid EXCEPT !.eof = TRUE, !.failed = TRUE]
  OBVIOUS
<1>3. /\ mid \in Stream /\ (mid.truncated <=> st.truncated \/ ~st.oom) /\ mid.capacity = st.capacity
      /\ mid.text = st.text /\ mid.oom = st.oom
  <2>1. st.truncated \in BOOLEAN /\ st.oom \in BOOLEAN
    BY DEF Fits, Stream
  <2>2. (st.truncated \/ ~st.oom) \in BOOLEAN
    BY <2>1
  <2>3. PICK flag \in BOOLEAN : (flag <=> st.truncated \/ ~st.oom) /\ mid = [st EXCEPT !.truncated = flag]
    BY <1>1, <2>2, Zenon DEF Lost
  <2>4. /\ mid \in Stream /\ mid.truncated = flag /\ mid.capacity = st.capacity
        /\ mid.text = st.text /\ mid.oom = st.oom
    BY <2>3 DEF Fits, Stream
  <2> QED
    BY <2>3, <2>4, Zenon
<1>4. /\ new \in Stream /\ new.eof /\ new.failed /\ new.truncated = mid.truncated
      /\ new.capacity = mid.capacity /\ new.text = mid.text /\ new.oom = mid.oom
  BY <1>2, <1>3 DEF Stream
<1>5. Fits(new)
  BY <1>3, <1>4 DEF Fits
<1>6. (~new.truncated /\ ~new.oom => ~st.truncated /\ ~st.oom) /\ (new.truncated \/ new.oom)
  BY <1>3, <1>4, Zenon
<1>7. new.text = st.text
  BY <1>3, <1>4
<1>8. Follows(new, left, w)
  BY <1>4, <1>6, <1>7 DEF Follows
<1> QED
  BY <1>1, <1>2, <1>5, <1>8

\* What is left of a pipe after a read of its first units.
LEMMA LeftInPipe ==
  ASSUME NEW units \in Seq(Nat), NEW size \in 0..Len(units), NEW w \in Nat,
         \A n \in 1..Len(units) : units[n] = w - Len(units) + n
  PROVE  LET left == SubSeq(units, size + 1, Len(units))
             got == SubSeq(units, 1, size)
         IN  /\ left \in Seq(Nat) /\ Len(left) = Len(units) - size
             /\ \A n \in 1..Len(left) : left[n] = w - Len(left) + n
             /\ got \in Seq(Nat) /\ Len(got) = size
             /\ \A n \in 1..size : got[n] = w - Len(units) + n
<1>1. Len(units) \in Nat /\ size \in Nat /\ size <= Len(units)
  OBVIOUS
<1>2. PICK left : left = SubSeq(units, size + 1, Len(units))
  OBVIOUS
<1>3. PICK got : got = SubSeq(units, 1, size)
  OBVIOUS
<1>4. left \in Seq(Nat) /\ Len(left) = Len(units) - size /\ \A n \in 1..Len(left) : left[n] = units[size + n]
  BY <1>1, <1>2
<1>5. got \in Seq(Nat) /\ Len(got) = size /\ \A n \in 1..size : got[n] = units[n]
  BY <1>1, <1>3
<1>6. \A n \in 1..Len(left) : left[n] = w - Len(left) + n
  <2> TAKE n \in 1..Len(left)
  <2>1. size + n \in 1..Len(units)
    BY <1>1, <1>4
  <2> QED
    BY <1>1, <1>4, <2>1
<1>7. \A n \in 1..size : got[n] = w - Len(units) + n
  <2> TAKE n \in 1..size
  <2>1. n \in 1..Len(units)
    BY <1>1
  <2> QED
    BY <1>5, <2>1
<1> QED
  BY <1>2, <1>3, <1>4, <1>5, <1>6, <1>7

\* Units that are thrown away.
LEMMA LossFollows ==
  ASSUME NEW st, Fits(st), NEW units, NEW w, Follows(st, units, w), Discarding(st), ~st.eof,
         NEW left, \A n \in 1..Len(left) : left[n] = w - Len(left) + n
  PROVE  Fits(Lost(st)) /\ Follows(Lost(st), left, w)
<1>1. PICK new : new = Lost(st)
  OBVIOUS
<1>2. /\ new \in Stream /\ (new.truncated <=> st.truncated \/ ~st.oom) /\ new.capacity = st.capacity
      /\ new.text = st.text /\ new.oom = st.oom /\ new.capped = st.capped /\ new.eof = st.eof
      /\ new.failed = st.failed
  <2>1. st.truncated \in BOOLEAN /\ st.oom \in BOOLEAN
    BY DEF Fits, Stream
  <2>2. (st.truncated \/ ~st.oom) \in BOOLEAN
    BY <2>1
  <2>3. PICK flag \in BOOLEAN : (flag <=> st.truncated \/ ~st.oom) /\ new = [st EXCEPT !.truncated = flag]
    BY <1>1, <2>2, Zenon DEF Lost
  <2>4. /\ new \in Stream /\ new.truncated = flag /\ new.capacity = st.capacity
        /\ new.text = st.text /\ new.oom = st.oom /\ new.capped = st.capped /\ new.eof = st.eof
        /\ new.failed = st.failed
    BY <2>3 DEF Fits, Stream
  <2> QED
    BY <2>3, <2>4, Zenon
<1>3. Fits(new)
  BY <1>2 DEF Fits
<1>4. Discarding(new) /\ (new.truncated \/ new.oom)
  <2>1. new.truncated \/ new.oom
    BY <1>2, Zenon
  <2> QED
    BY <1>2, <2>1 DEF Discarding
<1>5. Follows(new, left, w)
  BY <1>2, <1>4 DEF Follows
<1> QED
  BY <1>1, <1>3, <1>5

\* Nothing is kept after a growth that failed.
LEMMA CappedFollows ==
  ASSUME NEW st, Fits(st), NEW left, NEW w, Follows(st, left, w)
  PROVE  LET new == [st EXCEPT !.capped = TRUE] IN Fits(new) /\ Follows(new, left, w)
<1>1. PICK new : new = [st EXCEPT !.capped = TRUE]
  OBVIOUS
<1>2. /\ new \in Stream /\ new.capped /\ new.capacity = st.capacity /\ new.text = st.text /\ new.eof = st.eof
      /\ new.truncated = st.truncated /\ new.oom = st.oom /\ new.failed = st.failed
  BY <1>1 DEF Fits, Stream
<1>3. Fits(new) /\ Discarding(new)
  BY <1>2 DEF Fits, Discarding
<1>4. Follows(new, left, w)
  BY <1>2, <1>3 DEF Follows
<1> QED
  BY <1>1, <1>3, <1>4

\* Units that are kept: they go on where the text ends, because nothing was lost.
LEMMA TextFollows ==
  ASSUME NEW st, Fits(st), NEW units \in Seq(Nat), NEW w \in Nat, Follows(st, units, w),
         ~Discarding(st), ~st.eof, NEW size \in 0..Len(units), size <= Room(st)
  PROVE  LET new == [st EXCEPT !.text = @ \o SubSeq(units, 1, size)]
             left == SubSeq(units, size + 1, Len(units))
         IN  Fits(new) /\ Follows(new, left, w)
<1>1. PICK left : left = SubSeq(units, size + 1, Len(units))
  OBVIOUS
<1>2. PICK got : got = SubSeq(units, 1, size)
  OBVIOUS
<1>3. PICK new : new = [st EXCEPT !.text = @ \o got]
  OBVIOUS
<1>4. /\ left \in Seq(Nat) /\ Len(left) = Len(units) - size /\ got \in Seq(Nat) /\ Len(got) = size
      /\ \A n \in 1..Len(left) : left[n] = w - Len(left) + n
      /\ \A n \in 1..size : got[n] = w - Len(units) + n
  <2>1. \A n \in 1..Len(units) : units[n] = w - Len(units) + n
    BY DEF Follows
  <2> QED
    BY <1>1, <1>2, <2>1, LeftInPipe
<1>5. /\ st \in Stream /\ st.text \in Seq(Nat) /\ Len(st.text) \in Nat /\ st.capacity \in Nat
      /\ Len(units) \in Nat /\ size \in Nat /\ size <= Len(units)
  BY DEF Fits, Stream
<1>6. ~st.truncated /\ ~st.oom /\ ~st.capped
  BY DEF Follows, Discarding
<1>7. Len(st.text) + Len(units) = w
  BY <1>6 DEF Follows
<1>8. /\ st.text \o got \in Seq(Nat) /\ Len(st.text \o got) = Len(st.text) + size
      /\ \A n \in 1..Len(st.text) : (st.text \o got)[n] = st.text[n]
      /\ \A n \in 1..size : (st.text \o got)[Len(st.text) + n] = got[n]
  <2>1. PICK had \in Seq(Nat) : had = st.text
    BY <1>5
  <2>2. PICK more \in Seq(Nat) : more = got
    BY <1>4
  <2>3. /\ had \o more \in Seq(Nat) /\ Len(had \o more) = Len(had) + Len(more)
        /\ \A n \in 1..Len(had) : (had \o more)[n] = had[n]
        /\ \A n \in 1..Len(more) : (had \o more)[Len(had) + n] = more[n]
    BY ConcatProperties
  <2> QED
    BY <1>4, <2>1, <2>2, <2>3
<1>9. /\ new \in Stream /\ new.text = st.text \o got /\ new.capacity = st.capacity
      /\ ~new.truncated /\ ~new.oom /\ ~new.eof /\ new.failed = st.failed
  BY <1>3, <1>5, <1>6, <1>8 DEF Stream
<1>10. Fits(new)
  <2>1. Limit \in Nat /\ Len(st.text) <= Limit /\ Len(st.text) < st.capacity
    BY ExecAssumption DEF Fits
  <2>2. size <= Limit - Len(st.text) /\ size <= st.capacity - Len(st.text) - 1
    BY <1>5, <2>1 DEF Room, Least
  <2>3. Len(new.text) <= Limit /\ Len(new.text) < new.capacity
    BY <1>5, <1>8, <1>9, <2>1, <2>2
  <2> QED
    BY <1>9, <2>3 DEF Fits
<1>11. \A n \in 1..Len(new.text) : new.text[n] = n
  <2> TAKE n \in 1..Len(new.text)
  <2>1. CASE n \in 1..Len(st.text)
    BY <1>8, <1>9, <2>1 DEF Follows
  <2>2. CASE n - Len(st.text) \in 1..size
    <3>1. new.text[n] = got[n - Len(st.text)]
      BY <1>5, <1>8, <1>9, <2>2
    <3>2. got[n - Len(st.text)] = w - Len(units) + (n - Len(st.text))
      BY <1>4, <2>2
    <3> QED
      BY <1>5, <1>7, <3>1, <3>2
  <2> QED
    BY <1>5, <1>8, <1>9, <2>1, <2>2
<1>12. Len(new.text) + Len(left) = w
  <2> DEFINE had == Len(st.text)
             has == Len(new.text)
             waited == Len(units)
             waits == Len(left)
  <2>1. has = had + size /\ waits = waited - size
    BY <1>4, <1>8, <1>9
  <2>2. had + waited = w /\ had \in Nat /\ waited \in Nat /\ size \in Nat
    BY <1>5, <1>7
  <2> HIDE DEF had, has, waited, waits
  <2>3. has + waits = w
    BY <2>1, <2>2
  <2> QED
    BY <2>3 DEF has, waits
<1>13. new.failed => new.truncated \/ new.oom
  BY <1>6, <1>9 DEF Follows
<1>14. Follows(new, left, w)
  BY <1>4, <1>9, <1>11, <1>12, <1>13 DEF Follows
<1> QED
  BY <1>1, <1>2, <1>3, <1>10, <1>14

\* One read, and one turn of the pump, of a stream that has not ended.
LEMMA ReadOnceFollows ==
  ASSUME ExecInv, pc = "drain", NEW s \in Streams, NEW st, Fits(st), ~st.eof,
         Follows(st, buffer[s], written[s]), ~Discarding(st) => Len(st.text) + 1 < st.capacity,
         ReadOnce(s, st)
  PROVE  \E new \in Stream, left \in Seq(Nat) :
           /\ stream' = [stream EXCEPT ![s] = new] /\ buffer' = [buffer EXCEPT ![s] = left]
           /\ Len(left) <= PipeRoom /\ Fits(new) /\ Follows(new, left, written[s])
<1>1. /\ buffer \in [Streams -> Seq(Nat)] /\ buffer[s] \in Seq(Nat) /\ Len(buffer[s]) \in Nat
      /\ Len(buffer[s]) <= PipeRoom /\ PipeRoom \in Nat /\ written[s] \in Nat /\ SinkSize \in Nat /\ Limit \in Nat
  BY ExecAssumption DEF ExecInv, ExecTypeOK
<1>2. buffer' = buffer => buffer' = [buffer EXCEPT ![s] = buffer[s]]
  BY <1>1
<1>3. CASE AtEnd(s) /\ UNCHANGED buffer /\ stream' = [stream EXCEPT ![s] = [st EXCEPT !.eof = TRUE]]
  <2>1. buffer[s] = <<>> /\ \A p \in Processes : ~Live(p)
    BY <1>3 DEF AtEnd
  <2>2. PICK new : new = [st EXCEPT !.eof = TRUE]
    OBVIOUS
  <2>3. new \in Stream /\ Fits(new) /\ Follows(new, buffer[s], written[s])
    BY <2>1, <2>2, EofFollows DEF Fits
  <2> QED
    BY <1>1, <1>2, <1>3, <2>2, <2>3
<1>4. CASE /\ UNCHANGED buffer
           /\ stream' = [stream EXCEPT ![s] = [Lost(st) EXCEPT !.eof = TRUE, !.failed = TRUE]]
  <2>1. PICK new : new = [Lost(st) EXCEPT !.eof = TRUE, !.failed = TRUE]
    OBVIOUS
  <2>2. new \in Stream /\ Fits(new) /\ Follows(new, buffer[s], written[s])
    BY <2>1, FailureFollows DEF Fits
  <2> QED
    BY <1>1, <1>2, <1>4, <2>1, <2>2
<1>5. ASSUME NEW size, size = Least(IF Discarding(st) THEN SinkSize ELSE Room(st), Len(buffer[s])),
             buffer' = [buffer EXCEPT ![s] = SubSeq(@, size + 1, Len(@))],
             stream' = [stream EXCEPT ![s] = IF Discarding(st) THEN Lost(st)
                                             ELSE [st EXCEPT !.text = @ \o SubSeq(buffer[s], 1, size)]]
      PROVE  \E new \in Stream, left \in Seq(Nat) :
               /\ stream' = [stream EXCEPT ![s] = new] /\ buffer' = [buffer EXCEPT ![s] = left]
               /\ Len(left) <= PipeRoom /\ Fits(new) /\ Follows(new, left, written[s])
  <2>1. ~Discarding(st) => Room(st) \in Nat /\ size <= Room(st)
    <3> SUFFICES ASSUME ~Discarding(st) PROVE Room(st) \in Nat /\ size <= Room(st)
      OBVIOUS
    <3>1. Len(st.text) \in Nat /\ st.capacity \in Nat /\ Len(st.text) + 1 < st.capacity /\ ~(Len(st.text) >= Limit)
      BY DEF Fits, Stream, Discarding
    <3>2. Room(st) \in Nat
      BY <1>1, <3>1 DEF Room, Least
    <3> QED
      BY <1>1, <1>5, <3>2 DEF Least
  <2>2. size \in 0..Len(buffer[s])
    BY <1>1, <1>5, <2>1 DEF Least
  <2>3. PICK left : left = SubSeq(buffer[s], size + 1, Len(buffer[s]))
    OBVIOUS
  <2>4. \A n \in 1..Len(buffer[s]) : buffer[s][n] = written[s] - Len(buffer[s]) + n
    BY DEF Follows
  <2>5. /\ left \in Seq(Nat) /\ Len(left) = Len(buffer[s]) - size
        /\ \A n \in 1..Len(left) : left[n] = written[s] - Len(left) + n
    BY <1>1, <2>2, <2>3, <2>4, LeftInPipe
  <2>6. Len(left) <= PipeRoom
    BY <1>1, <2>2, <2>5
  <2>7. buffer' = [buffer EXCEPT ![s] = left]
    BY <1>1, <1>5, <2>3
  <2>8. CASE Discarding(st)
    <3>1. stream' = [stream EXCEPT ![s] = Lost(st)]
      BY <1>5, <2>8
    <3>2. Lost(st) \in Stream /\ Fits(Lost(st)) /\ Follows(Lost(st), left, written[s])
      BY <2>5, <2>8, LossFollows DEF Fits
    <3> QED
      BY <2>5, <2>6, <2>7, <3>1, <3>2
  <2>9. CASE ~Discarding(st)
    <3>1. PICK new : new = [st EXCEPT !.text = @ \o SubSeq(buffer[s], 1, size)]
      OBVIOUS
    <3>2. stream' = [stream EXCEPT ![s] = new]
      BY <1>5, <2>9, <3>1
    <3>3. new \in Stream /\ Fits(new) /\ Follows(new, left, written[s])
      BY <1>1, <2>1, <2>2, <2>3, <2>9, <3>1, TextFollows DEF Fits
    <3> QED
      BY <2>5, <2>6, <2>7, <3>2, <3>3
  <2> QED
    BY <2>8, <2>9
<1> QED
  BY <1>3, <1>4, <1>5 DEF ReadOnce

LEMMA PumpInv ==
  ASSUME ExecInv, NEW s \in Streams, PollAndPump(s) \/ PeekAndPump(s)
  PROVE  ExecInv'
<1>1. /\ pc = "drain" /\ ~stream[s].eof
      /\ UNCHANGED <<platform, tools, report, asked, pc, call, answer, ends, running>>
  BY DEF PollAndPump, PeekAndPump
<1>2. /\ Follows(stream[s], buffer[s], written[s]) /\ Fits(stream[s])
      /\ buffer[s] \in Seq(Nat) /\ Len(buffer[s]) <= PipeRoom /\ written[s] \in Nat
  BY <1>1, StreamNow
<1>3. stream \in [Streams -> Stream] /\ buffer \in [Streams -> Seq(Nat)]
  BY DEF ExecInv, ExecTypeOK
<1>4. buffer' = buffer => buffer' = [buffer EXCEPT ![s] = buffer[s]]
  BY <1>3
<1>5. CASE AtEnd(s) /\ UNCHANGED buffer /\ stream' = [stream EXCEPT ![s].eof = TRUE]
  <2>1. buffer[s] = <<>> /\ \A p \in Processes : ~Live(p)
    BY <1>5 DEF AtEnd
  <2>2. PICK new : new = [stream[s] EXCEPT !.eof = TRUE]
    OBVIOUS
  <2>3. Fits(new) /\ Follows(new, buffer[s], written[s])
    BY <1>2, <2>1, <2>2, EofFollows
  <2>4. stream' = [stream EXCEPT ![s] = new]
    BY <1>5, <2>2
  <2> QED
    BY <1>1, <1>2, <1>4, <1>5, <2>3, <2>4, OneStreamInv
<1>6. CASE Discarding(stream[s]) /\ ReadOnce(s, stream[s])
  <2>1. PICK new \in Stream, left \in Seq(Nat) :
           /\ stream' = [stream EXCEPT ![s] = new] /\ buffer' = [buffer EXCEPT ![s] = left]
           /\ Len(left) <= PipeRoom /\ Fits(new) /\ Follows(new, left, written[s])
    BY <1>1, <1>2, <1>6, ReadOnceFollows
  <2> QED
    BY <1>1, <2>1, OneStreamInv
<1>7. CASE ~Discarding(stream[s]) /\ UNCHANGED buffer /\ stream' = [stream EXCEPT ![s].capped = TRUE]
  <2>1. PICK new : new = [stream[s] EXCEPT !.capped = TRUE]
    OBVIOUS
  <2>2. Fits(new) /\ Follows(new, buffer[s], written[s])
    BY <1>2, <2>1, CappedFollows
  <2>3. stream' = [stream EXCEPT ![s] = new]
    BY <1>7, <2>1
  <2> QED
    BY <1>1, <1>2, <1>4, <1>7, <2>2, <2>3, OneStreamInv
<1>8. CASE ~Discarding(stream[s]) /\ ReadOnce(s, Grown(stream[s]))
  <2>1. PICK st : st = Grown(stream[s])
    OBVIOUS
  <2>2. /\ Fits(st) /\ Follows(st, buffer[s], written[s]) /\ ~st.eof
        /\ st.text = stream[s].text /\ Len(stream[s].text) + 1 < st.capacity
    BY <1>1, <1>2, <1>8, <2>1, GrownFits
  <2>3. PICK new \in Stream, left \in Seq(Nat) :
           /\ stream' = [stream EXCEPT ![s] = new] /\ buffer' = [buffer EXCEPT ![s] = left]
           /\ Len(left) <= PipeRoom /\ Fits(new) /\ Follows(new, left, written[s])
    BY <1>1, <1>8, <2>1, <2>2, ReadOnceFollows
  <2> QED
    BY <1>1, <2>3, OneStreamInv
<1>9. Pump(s) => ExecInv'
  BY <1>6, <1>7, <1>8 DEF Pump
<1> QED
  BY <1>5, <1>9 DEF PollAndPump, PeekAndPump

(* The end.                                                                *)

LEMMA PollFailsInv ==
  ASSUME ExecInv, PollFails
  PROVE  ExecInv'
<1>1. /\ pc = "drain" /\ pc' = "wait" /\ ends' = {}
      /\ stream' = [s \in Streams |-> IF stream[s].eof THEN stream[s] ELSE [stream[s] EXCEPT !.truncated = TRUE]]
      /\ UNCHANGED <<platform, tools, report, asked, call, answer, buffer, process, written, seen>>
  BY DEF PollFails, CloseAll, running
<1>2. \A s \in Streams :
        /\ stream'[s] \in Stream /\ stream'[s].text = stream[s].text /\ stream'[s].capacity = stream[s].capacity
        /\ stream'[s].oom = stream[s].oom /\ stream'[s].eof = stream[s].eof /\ stream'[s].failed = stream[s].failed
        /\ stream[s].truncated => stream'[s].truncated
        /\ stream'[s].eof \/ stream'[s].truncated
  <2> TAKE s \in Streams
  <2>1. stream[s] \in Stream
    BY DEF ExecInv, ExecTypeOK
  <2>2. CASE stream[s].eof
    BY <1>1, <2>1, <2>2
  <2>3. CASE ~stream[s].eof
    <3>1. PICK new : new = [stream[s] EXCEPT !.truncated = TRUE]
      OBVIOUS
    <3>2. /\ new \in Stream /\ new.text = stream[s].text /\ new.capacity = stream[s].capacity
          /\ new.oom = stream[s].oom /\ new.eof = stream[s].eof /\ new.failed = stream[s].failed /\ new.truncated
      BY <2>1, <3>1 DEF Stream
    <3>3. stream'[s] = new
      BY <1>1, <2>3, <3>1
    <3> QED
      BY <3>2, <3>3
  <2> QED
    BY <2>2, <2>3
<1>3. ExecTypeOK'
  <2>1. stream' \in [Streams -> Stream]
    BY <1>1, <1>2
  <2>2. \A s \in Streams : /\ Len(stream'[s].text) <= Limit /\ Len(stream'[s].text) < stream'[s].capacity
                           /\ Len(buffer'[s]) <= PipeRoom
    BY <1>1, <1>2 DEF ExecInv, ExecTypeOK
  <2> QED
    BY <1>1, <2>1, <2>2 DEF ExecInv, ExecTypeOK
<1>4. EndsFollow' /\ NothingBegun' /\ AnswerFollows'
  BY <1>1 DEF EndsFollow, NothingBegun, AnswerFollows, BeforeStart
<1>5. ASSUME NEW s \in Streams PROVE InOrder(s)' /\ AddsUp(s)' /\ EndIsMeant(s)'
  <2>1. InOrder(s) /\ AddsUp(s) /\ EndIsMeant(s)
    BY DEF ExecInv, StreamsFollow
  <2>2. InOrder(s)'
    BY <1>1, <1>2, <2>1 DEF InOrder
  <2>3. AddsUp(s)'
    BY <1>1, <1>2, <2>1 DEF AddsUp
  <2>4. EndIsMeant(s)'
    BY <1>1, <1>2, <2>1 DEF EndIsMeant, Live
  <2> QED
    BY <2>2, <2>3, <2>4
<1> QED
  BY <1>3, <1>4, <1>5 DEF ExecInv, StreamsFollow

LEMMA DrainedInv ==
  ASSUME ExecInv, Drained
  PROVE  ExecInv'
<1>1. /\ pc = "drain" /\ pc' = "wait" /\ ends' = {} /\ \A s \in Streams : stream[s].eof
      /\ UNCHANGED <<platform, tools, report, asked, call, answer, stream, buffer, process, written, seen>>
  BY DEF Drained, CloseAll, capture, running
<1>2. ExecTypeOK'
  BY <1>1 DEF ExecInv, ExecTypeOK
<1>3. EndsFollow' /\ NothingBegun' /\ AnswerFollows'
  BY <1>1 DEF EndsFollow, NothingBegun, AnswerFollows, BeforeStart
<1>4. StreamsFollow'
  BY <1>1 DEF ExecInv, StreamsFollow, InOrder, AddsUp, EndIsMeant, Live
<1> QED
  BY <1>2, <1>3, <1>4 DEF ExecInv

LEMMA WaitInv ==
  ASSUME ExecInv, Wait
  PROVE  ExecInv'
<1>1. /\ pc = "wait" /\ pc' = "answered" /\ ~Live("child") /\ answer' \in {Outcome(process["child"].code), Failed}
      /\ UNCHANGED <<platform, tools, report, asked, call, ends, stream, buffer, process, written, seen>>
  BY DEF Wait, Answer, capture, running
<1>2. process["child"].code \in Nat
  BY DEF ExecInv, ExecTypeOK, Process, Processes
<1>3. ASSUME answer' = Failed PROVE ExecTypeOK' /\ AnswerFollows'
  <2>1. ExecTypeOK'
    BY <1>1, <1>3, FailedIsGiven DEF ExecInv, ExecTypeOK
  <2>2. AnswerFollows'
    BY <1>1, <1>3 DEF AnswerFollows, Live, Failed, NoAnswer
  <2> QED
    BY <2>1, <2>2
<1>4. ASSUME answer' = [Failed EXCEPT !.code = process["child"].code]
      PROVE  ExecTypeOK' /\ AnswerFollows'
  <2>1. answer' \in Given /\ answer'.kind = "error"
    BY <1>2, <1>4, FailedIsGiven
  <2> QED
    BY <1>1, <2>1 DEF ExecInv, ExecTypeOK, AnswerFollows, Live
<1>5. ASSUME answer' # Failed, answer' # [Failed EXCEPT !.code = process["child"].code]
      PROVE  ExecTypeOK' /\ AnswerFollows'
  <2>1. PICK lossy \in BOOLEAN : lossy = \E s \in Streams : stream[s].truncated
    BY Zenon
  <2> DEFINE texts == IF call.capture THEN [s \in Streams |-> AsString(s)] ELSE NoText
  <2>2. answer' = [kind |-> "ran", code |-> process["child"].code, truncated |-> lossy, text |-> texts]
    BY <1>1, <1>5, <2>1 DEF Outcome
  <2>3. \A s \in Streams : ~stream[s].oom
    BY <1>1, <1>5 DEF Outcome
  <2>4. \A s \in Streams : stream[s].text \in Seq(Nat)
    BY DEF ExecInv, ExecTypeOK, Stream
  <2>5. \A s \in Streams : \E n \in 0..Len(stream[s].text) :
          EndsAt(s, n) /\ AsString(s) = SubSeq(stream[s].text, 1, n)
    BY <2>4, TextEnds
  <2>6. texts \in [Streams -> Seq(Nat)]
    <3>1. \A s \in Streams : AsString(s) \in Seq(Nat)
      BY <2>4, <2>5
    <3> QED
      BY <3>1 DEF NoText
  <2>7. answer' \in Given /\ answer'.truncated = lossy /\ answer'.text = texts
    <3> HIDE DEF texts
    <3> QED
      BY <1>2, <2>2, <2>6 DEF Given
  <2>8. ExecTypeOK'
    BY <1>1, <2>7 DEF ExecInv, ExecTypeOK
  <2>9. AnswerFollows'
    <3>1. \A s \in Streams : call.capture => stream[s].eof \/ stream[s].truncated
      BY <1>1 DEF ExecInv, StreamsFollow, EndIsMeant
    <3>2. answer'.truncated <=> \E s \in Streams : stream[s].truncated
      BY <2>1, <2>7, Zenon
    <3>3. ASSUME call.capture, NEW s \in Streams PROVE GivenText(s)'
      <4>1. answer'.text[s] = AsString(s)
        BY <2>7, <3>3
      <4>2. PICK n \in 0..Len(stream[s].text) :
              EndsAt(s, n) /\ AsString(s) = SubSeq(stream[s].text, 1, n)
        BY <2>5, <3>3
      <4> QED
        BY <1>1, <4>1, <4>2 DEF GivenText, EndsAt, IsNul
    <3> QED
      BY <1>1, <2>3, <3>1, <3>2, <3>3 DEF AnswerFollows, Live
  <2> QED
    BY <2>8, <2>9
<1>6. EndsFollow' /\ NothingBegun'
  BY <1>1 DEF ExecInv, EndsFollow, NothingBegun, BeforeStart
<1>7. StreamsFollow'
  BY <1>1, StreamsStay DEF capture, running
<1> QED
  BY <1>3, <1>4, <1>6, <1>7, <1>5 DEF ExecInv

LEMMA ExecNextInv == ExecInv /\ [ExecNext]_execVars => ExecInv'
<1> SUFFICES ASSUME ExecInv, [ExecNext]_execVars PROVE ExecInv'
  OBVIOUS
<1>1. CASE UNCHANGED execVars
  <2>1. UNCHANGED <<platform, tools, report, asked, pc, call, answer, ends, stream, buffer, process, written, seen>>
    BY <1>1 DEF execVars, capture, running
  <2>2. ExecTypeOK' /\ EndsFollow' /\ NothingBegun' /\ AnswerFollows'
    BY <2>1, TextsStay DEF ExecInv, ExecTypeOK, EndsFollow, NothingBegun, AnswerFollows, Live
  <2>3. StreamsFollow'
    BY <2>1, StreamsStay
  <2> QED
    BY <2>2, <2>3 DEF ExecInv
<1>2. CASE Parent
  BY <1>2, AskToolInv, AskExecInv, PreparesInv, StartChildInv, PumpInv, PollFailsInv, DrainedInv, WaitInv
     DEF Parent
<1>3. ASSUME NEW p \in Processes, Others(p) PROVE ExecInv'
  BY <1>3, ExitInv, WriteInv DEF Others
<1> QED
  BY <1>1, <1>2, <1>3 DEF ExecNext

\* Whatever the child and what it leaves write, and whichever call fails, what is
\* captured and what is on its way add up to what was written, or it is said.
THEOREM ExecInductive == ExecSpec => []ExecInv
BY ExecInitInv, ExecNextInv, PTL DEF ExecSpec

\* Types: above all that no text is longer than the limit or than its memory,
\* however it grows and wherever growing fails (capture_stream_pump).
THEOREM ExecTypeCorrect == ExecSpec => []ExecTypeOK
<1>1. ExecInv => ExecTypeOK
  BY DEF ExecInv
<1> QED
  BY <1>1, ExecInductive, PTL

\* A callback that is not told of a loss has all that was written, or all of it up to
\* a NUL byte (capture_stream_pump, drain_both; fr_lua_verb_exec, which hands it over).
THEOREM ExecTruncationIsSaid == ExecSpec => []TruncationIsSaid
<1>1. ASSUME ExecInv, NEW s \in Streams, pc = "answered", answer.kind = "ran", call.capture, ~answer.truncated
      PROVE  Len(stream[s].text) = written[s]
  <2>1. ~stream[s].truncated /\ ~stream[s].oom /\ stream[s].eof
    BY <1>1 DEF ExecInv, AnswerFollows
  <2>2. buffer[s] = <<>>
    BY <1>1, <2>1 DEF ExecInv, StreamsFollow, EndIsMeant
  <2>3. Len(stream[s].text) + Len(buffer[s]) = written[s]
    BY <1>1, <2>1 DEF ExecInv, StreamsFollow, AddsUp
  <2>4. stream[s].text \in Seq(Nat)
    BY <1>1 DEF ExecInv, ExecTypeOK, Stream
  <2> QED
    BY <2>2, <2>3, <2>4
<1>2. ASSUME ExecInv, NEW s \in Streams, pc = "answered", answer.kind = "ran", call.capture
      PROVE  LET given == answer.text[s]
             IN /\ given = [n \in 1..Len(given) |-> n]
                /\ \/ answer.truncated
                   \/ Len(given) = written[s]
                   \/ IsNul(s, Len(given) + 1) /\ Len(given) + 1 \in 1..written[s]
  <2>1. stream[s].text \in Seq(Nat) /\ \A n \in 1..Len(stream[s].text) : stream[s].text[n] = n
    BY <1>2 DEF ExecInv, ExecTypeOK, Stream, StreamsFollow, InOrder
  <2>2. PICK k \in 0..Len(stream[s].text) :
          EndsAt(s, k) /\ answer.text[s] = SubSeq(stream[s].text, 1, k)
    BY <1>2 DEF ExecInv, AnswerFollows, GivenText
  <2>3. Len(answer.text[s]) = k /\ answer.text[s] = [n \in 1..k |-> n]
    <3>1. SubSeq(stream[s].text, 1, k) = [n \in 1..k |-> stream[s].text[n]]
      BY <2>1, <2>2
    <3>2. [n \in 1..k |-> stream[s].text[n]] = [n \in 1..k |-> n]
      BY <2>1, <2>2
    <3>3. Len(SubSeq(stream[s].text, 1, k)) = k
      BY <2>1, <2>2
    <3> QED
      BY <2>2, <3>1, <3>2, <3>3
  <2>4. CASE answer.truncated
    BY <2>3, <2>4
  <2>5. CASE ~answer.truncated
    <3>1. Len(stream[s].text) = written[s]
      BY <1>1, <1>2, <2>5
    <3>2. k < Len(stream[s].text) => IsNul(s, k + 1)
      BY <2>1, <2>2 DEF EndsAt
    <3> QED
      BY <2>1, <2>2, <2>3, <3>1, <3>2
  <2> QED
    BY <2>4, <2>5
<1>3. ExecInv => TruncationIsSaid
  BY <1>2 DEF TruncationIsSaid
<1> QED
  BY <1>3, ExecInductive, PTL

\* When a call is over no pipe end is open and its child has been waited for,
\* whichever step failed (fr_exec_run).
THEOREM ExecNothingIsLeft == ExecSpec => []NothingIsLeft
<1>1. ExecInv => NothingIsLeft
  BY DEF ExecInv, EndsFollow, AnswerFollows, NothingIsLeft
<1> QED
  BY <1>1, ExecInductive, PTL
=============================================================================
