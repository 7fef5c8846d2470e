-------------------------------- MODULE Exec --------------------------------
(***************************************************************************)
(* Running a program: daukle.tool and daukle.exec of                       *)
(* src/lua/lua_verbs_exec.c, and fr_exec_run of src/exec/exec_posix.c and  *)
(* exec_win32.c.                                                           *)
(*                                                                         *)
(* The parent and the child run at once, joined by two pipes of PipeRoom   *)
(* units.  The child may leave another process ("kin") which holds the     *)
(* pipes too.  What a process writes is a script fixed when it starts: a   *)
(* process that wants to write to a full pipe does nothing else until it   *)
(* can.  The n-th unit written to a stream is the number n, so that what   *)
(* is captured can be told from what was written; which of them are NUL    *)
(* bytes is the script's too, for a callback is given a C string.          *)
(***************************************************************************)
EXTENDS Tools

CONSTANTS
  Calls,                \* the daukle.exec calls the callback may make: records, see IsCall
  MaxTools,             \* how many daukle.tool calls precede one
  Labels, Names,        \* what those may be given
  MaxArguments, MaxEnv, \* FR_VERB_MAX_ARGV, FR_VERB_MAX_ENV
  Inherited,            \* daukle's own environment: a set of <<name, value>>
  CoreCredentials,      \* CORE_CREDENTIALS
  Folded,               \* a name with the case Windows ignores taken away
  Limit,                \* FR_EXEC_CAPTURE_LIMIT
  FirstCapacity, SinkSize, PipeRoom,
  Interrupted           \* the code of a process a broken pipe ends

Streams == {"out", "err"}
Processes == {"child", "kin"}
NotAHandle == <<"", "", "">>
NotStarted == 127       \* the code both platforms read as "could not be started"

IsCall(c) ==
  /\ c.phase \in {"generating", "loading", "describing", "task", "publish", "migrator", "none"}
  /\ c.options \in {"known", "unknown"} /\ c.arguments \in Nat
  /\ {c.cwdIsWithin, c.capture, c.check} \subseteq BOOLEAN
  /\ {c.script, c.kin} \subseteq Seq(Streams) /\ c.code \in Nat
  /\ c.nul \subseteq Streams \X Nat
ASSUME ExecAssumption ==
  /\ \A c \in Calls : IsCall(c)
  /\ Platforms \subseteq {"posix", "windows"}
  /\ {MaxTools, ReportCapacity, Interrupted} \subseteq Nat
  /\ {Limit, FirstCapacity, SinkSize, PipeRoom} \subseteq Nat \ {0}

VARIABLES
  platform,
  tools, report, asked, \* the handles the callback holds, the report, its daukle.tool calls
  pc, call, answer,     \* where the parent is, what was asked, what the callback was given
  ends,                 \* the pipe ends the parent has open: <<stream, "read" | "write">>
  stream, buffer,       \* fr_capture_stream, and what is in each pipe
  process, written,     \* the processes, and how much was written to each stream
  seen                  \* the environment the child was started with

capture == <<stream, buffer>>
running == <<process, written, seen>>
execVars == <<platform, tools, report, asked, pc, call, answer, ends, capture, running>>

EmptyStream == [text |-> <<>>, capacity |-> FirstCapacity, truncated |-> FALSE, oom |-> FALSE,
                capped |-> FALSE, eof |-> FALSE, failed |-> FALSE]
NoProcess == [live |-> FALSE, script |-> <<>>, code |-> 0]
NoText == [s \in Streams |-> <<>>]
NoAnswer == [kind |-> "none", code |-> 0, truncated |-> FALSE, text |-> NoText]
Failed == [NoAnswer EXCEPT !.kind = "error"]

ExecInit ==
  /\ platform \in Platforms
  /\ tools = {} /\ report = <<>> /\ asked = 0
  /\ pc = "callback" /\ call \in Calls /\ answer = NoAnswer
  /\ ends = {} /\ stream = [s \in Streams |-> EmptyStream] /\ buffer = [s \in Streams |-> <<>>]
  /\ process = [p \in Processes |-> NoProcess] /\ written = [s \in Streams |-> 0] /\ seen = {}

Answer(a) == answer' = a /\ pc' = "answered"

\* daukle.tool
AskTool(name, label) ==
  /\ pc = "callback" /\ asked < MaxTools /\ asked' = asked + 1
  /\ LET found == IF call.phase = "generating" \/ label \in UnsafeLabels \/ ~NameIsWell(name) THEN {}
                  ELSE Resolved(platform, name)
     IN /\ tools' = tools \cup found
        /\ report' = IF found = {} THEN report
                     ELSE UsedInstalled(report, name, label, CHOOSE f \in found : TRUE)
  /\ UNCHANGED <<platform, pc, call, answer, ends, capture, running>>

(***************************************************************************)
(* daukle.exec before it runs anything.                                    *)
(***************************************************************************)
\* The phases in which the verb is there at all.
MayExec(phase) == phase \in {"task", "publish", "migrator"}

ArgumentsAreWell(c) == c.options = "known" /\ c.arguments \in 0..MaxArguments /\ c.cwdIsWithin
EnvIsWell(c) == Cardinality(c.env) <= MaxEnv /\ \A e \in c.env : e[1] # ""

AskExec(handle) ==
  /\ pc = "callback"
  /\ IF MayExec(call.phase) /\ handle \in tools /\ ArgumentsAreWell(call) /\ EnvIsWell(call)
     THEN pc' = (IF platform = "windows" THEN "line" ELSE "pipes") /\ UNCHANGED answer
     ELSE Answer(Failed)
  /\ UNCHANGED <<platform, tools, report, asked, call, ends, capture, running>>

\* Windows joins the arguments before anything else is made; memory for it may be missing.
CommandLine ==
  /\ pc = "line"
  /\ \/ pc' = "pipes" /\ UNCHANGED answer
     \/ Answer(Failed)
  /\ UNCHANGED <<platform, tools, report, asked, call, ends, capture, running>>

OpenPipes ==
  /\ pc = "pipes"
  /\ \/ /\ pc' = "environment" /\ UNCHANGED answer
        /\ ends' = IF call.capture THEN Streams \X {"read", "write"} ELSE {}
     \/ /\ call.capture /\ UNCHANGED ends            \* the first could not be made, or
        /\ Answer(Failed)                            \* the second: the first is closed again
  /\ UNCHANGED <<platform, tools, report, asked, call, capture, running>>

(***************************************************************************)
(* The environment: what daukle has, less what is replaced or withheld.    *)
(***************************************************************************)
SameName(a, b) == IF platform = "windows" THEN Folded[a] = Folded[b] ELSE a = b

\* fr_lua_verbs_env_to_scrub: the credentials this plugin did not declare.
Scrubbed(c) == {n \in CoreCredentials : \A d \in c.declared : ~SameName(n, d)}

Overridden(name, c) ==
  (\E e \in c.env : SameName(name, e[1])) \/ (\E n \in Scrubbed(c) : SameName(name, n))

ChildEnvironment(c) == {i \in Inherited : ~Overridden(i[1], c)} \cup c.env

NeedsEnvironment(c) == c.env # {} \/ Scrubbed(c) # {}

CloseAll == ends' = {}

\* Without memory for it nothing runs, but for one case: the block Windows could not make
\* when there was only something to withhold is taken for nothing to change.
BuildEnvironment ==
  /\ pc = "environment"
  /\ \/ /\ pc' = "start" /\ UNCHANGED <<answer, ends>>
        /\ seen' = ChildEnvironment(call)
     \/ /\ NeedsEnvironment(call) /\ platform = "windows" /\ call.env = {}
        /\ pc' = "start" /\ UNCHANGED <<answer, ends>>
        /\ seen' = Inherited
     \/ /\ platform = "posix" \/ call.env # {}       \* build_argv may fail too
        /\ CloseAll /\ Answer(Failed) /\ UNCHANGED seen
  /\ UNCHANGED <<platform, tools, report, asked, call, capture, process, written>>

(***************************************************************************)
(* Starting the child.                                                     *)
(***************************************************************************)
\* On POSIX the child is there before it is known whether it can be: a directory or a
\* program that cannot be used ends it with the one code that says so.
Begins(c) == [child |-> [live |-> TRUE, script |-> c.script, code |-> c.code],
              kin |-> [live |-> c.kin # <<>>, script |-> c.kin, code |-> 0]]
Stillborn == [child |-> [live |-> TRUE, script |-> <<>>, code |-> NotStarted], kin |-> NoProcess]

\* The parent's own write ends are closed once the child has them; memory for the first
\* of a stream's text may be missing.
Started ==
  /\ ends' = {e \in ends : e[2] = "read"}
  /\ pc' = IF call.capture THEN "drain" ELSE "wait"
  /\ \E oom \in SUBSET Streams :
       /\ call.capture \/ oom = {}
       /\ stream' = [s \in Streams |-> [EmptyStream EXCEPT !.oom = s \in oom]]
  /\ UNCHANGED answer

StartChild ==
  /\ pc = "start"
  /\ \/ process' = Begins(call) /\ Started
     \/ platform = "posix" /\ process' = Stillborn /\ Started
     \/ CloseAll /\ Answer(Failed) /\ UNCHANGED <<process, stream>>
  /\ UNCHANGED <<platform, tools, report, asked, call, buffer, written, seen>>

(***************************************************************************)
(* The processes.                                                          *)
(***************************************************************************)
Live(p) == process[p].live
IsRead(s) == <<s, "read">> \in ends
Wants(p, s) == Live(p) /\ process[p].script # <<>> /\ Head(process[p].script) = s
Written(p) == process' = [process EXCEPT ![p].script = Tail(@)]

Write(p, s) ==
  /\ Wants(p, s)
  /\ \/ /\ call.capture /\ IsRead(s) /\ Len(buffer[s]) < PipeRoom
        /\ buffer' = [buffer EXCEPT ![s] = Append(@, written[s] + 1)]
        /\ written' = [written EXCEPT ![s] = @ + 1]
        /\ Written(p)
     \/ /\ ~call.capture                             \* to daukle's own terminal
        /\ Written(p) /\ UNCHANGED <<buffer, written>>
     \/ /\ call.capture /\ ~IsRead(s)                \* nobody reads any more
        /\ Written(p) \/ process' = [process EXCEPT ![p] = [@ EXCEPT !.live = FALSE, !.code = Interrupted]]
        /\ UNCHANGED <<buffer, written>>
  /\ UNCHANGED <<platform, tools, report, asked, pc, call, answer, ends, stream, seen>>

Exit(p) ==
  /\ Live(p) /\ process[p].script = <<>>
  /\ process' = [process EXCEPT ![p].live = FALSE]
  /\ UNCHANGED <<platform, tools, report, asked, pc, call, answer, ends, capture, written, seen>>

(***************************************************************************)
(* drain_both                                                              *)
(***************************************************************************)
AtEnd(s) == buffer[s] = <<>> /\ <<s, "write">> \notin ends /\ \A p \in Processes : ~Live(p)

\* A mistake: the second stream is looked at once the first has ended.
ReadyInTurn(s) == (s = "err" => stream["out"].eof) /\ (buffer[s] # <<>> \/ AtEnd(s))

Ready(s) == buffer[s] # <<>> \/ AtEnd(s)

Discarding(st) == st.oom \/ st.capped \/ Len(st.text) >= Limit
IsFull(st) == Len(st.text) + 1 >= st.capacity
Grown(st) == IF IsFull(st) THEN [st EXCEPT !.capacity = 2 * @] ELSE st
Least(a, b) == IF a <= b THEN a ELSE b
Room(st) == Least(Limit - Len(st.text), st.capacity - Len(st.text) - 1)

\* A mistake: only the bytes past the limit count as lost.
LostPastTheLimit(st) == [st EXCEPT !.truncated = @ \/ Len(st.text) >= Limit]

Lost(st) == [st EXCEPT !.truncated = @ \/ ~st.oom]

\* One read() or ReadFile() on stream s, whose record is st by then.
ReadOnce(s, st) ==
  LET size == Least(IF Discarding(st) THEN SinkSize ELSE Room(st), Len(buffer[s]))
      got == SubSeq(buffer[s], 1, size)
  IN \/ /\ AtEnd(s) /\ UNCHANGED buffer
        /\ stream' = [stream EXCEPT ![s] = [st EXCEPT !.eof = TRUE]]
     \/ /\ buffer[s] # <<>>
        /\ buffer' = [buffer EXCEPT ![s] = SubSeq(@, size + 1, Len(@))]
        /\ stream' = [stream EXCEPT ![s] = IF Discarding(st) THEN Lost(st) ELSE [st EXCEPT !.text = @ \o got]]
     \/ /\ UNCHANGED buffer
        /\ stream' = [stream EXCEPT ![s] = [Lost(st) EXCEPT !.eof = TRUE, !.failed = TRUE]]

\* A growth that fails leaves what was read, and nothing is kept after it.
Pump(s) ==
  LET st == stream[s]
  IN \/ Discarding(st) /\ ReadOnce(s, st)
     \/ /\ ~Discarding(st) /\ IsFull(st) /\ UNCHANGED buffer
        /\ stream' = [stream EXCEPT ![s].capped = TRUE]
     \/ ~Discarding(st) /\ ReadOnce(s, Grown(st))

\* poll() and the pump of a stream it reported.
PollAndPump(s) ==
  /\ pc = "drain" /\ platform = "posix" /\ ~stream[s].eof /\ Ready(s)
  /\ Pump(s)
  /\ UNCHANGED <<platform, tools, report, asked, pc, call, answer, ends, running>>

\* PeekNamedPipe sees the end before anything is read or made room for.
PeekAndPump(s) ==
  /\ pc = "drain" /\ platform = "windows" /\ ~stream[s].eof /\ Ready(s)
  /\ IF AtEnd(s)
     THEN stream' = [stream EXCEPT ![s].eof = TRUE] /\ UNCHANGED buffer
     ELSE Pump(s)
  /\ UNCHANGED <<platform, tools, report, asked, pc, call, answer, ends, running>>

\* A mistake: the read ends are left open when poll fails.
PollFailsLeavingOpen ==
  /\ pc = "drain" /\ platform = "posix" /\ \E s \in Streams : ~stream[s].eof
  /\ stream' = [s \in Streams |-> IF stream[s].eof THEN stream[s] ELSE [stream[s] EXCEPT !.truncated = TRUE]]
  /\ pc' = "wait"
  /\ UNCHANGED <<platform, tools, report, asked, call, answer, ends, buffer, running>>

PollFails ==
  /\ pc = "drain" /\ platform = "posix" /\ \E s \in Streams : ~stream[s].eof
  /\ stream' = [s \in Streams |-> IF stream[s].eof THEN stream[s] ELSE [stream[s] EXCEPT !.truncated = TRUE]]
  /\ CloseAll /\ pc' = "wait"
  /\ UNCHANGED <<platform, tools, report, asked, call, answer, buffer, running>>

Drained ==
  /\ pc = "drain" /\ \A s \in Streams : stream[s].eof
  /\ CloseAll /\ pc' = "wait"
  /\ UNCHANGED <<platform, tools, report, asked, call, answer, capture, running>>

(***************************************************************************)
(* The end of the child, and of the verb.                                  *)
(***************************************************************************)
IsNul(s, unit) == <<s, unit>> \in call.nul

\* lua_pushstring: a text goes on to its first NUL, and nobody says what came after it.
EndsAt(s, n) ==
  /\ \A m \in 1..n : ~IsNul(s, stream[s].text[m])
  /\ n < Len(stream[s].text) => IsNul(s, stream[s].text[n + 1])
AsString(s) == SubSeq(stream[s].text, 1, CHOOSE n \in 0..Len(stream[s].text) : EndsAt(s, n))

\* A stream without its first memory has no text to give: a failure, not a short answer.
Outcome(code) ==
  IF code = NotStarted \/ \E s \in Streams : stream[s].oom THEN Failed
  ELSE IF call.check /\ code # 0 THEN [Failed EXCEPT !.code = code]
  ELSE [kind |-> "ran", code |-> code, truncated |-> \E s \in Streams : stream[s].truncated,
        text |-> IF call.capture THEN [s \in Streams |-> AsString(s)] ELSE NoText]

Wait ==
  /\ pc = "wait" /\ ~Live("child")
  /\ Answer(Outcome(process["child"].code)) \/ Answer(Failed)      \* it could not be waited for
  /\ UNCHANGED <<platform, tools, report, asked, call, ends, capture, running>>

Parent ==
  \/ \E n \in Names, l \in Labels : AskTool(n, l)
  \/ \E h \in tools \cup {NotAHandle} : AskExec(h)
  \/ CommandLine \/ OpenPipes \/ BuildEnvironment \/ StartChild
  \/ \E s \in Streams : PollAndPump(s) \/ PeekAndPump(s)
  \/ PollFails \/ Drained \/ Wait

Others(p) == Exit(p) \/ \E s \in Streams : Write(p, s)

ExecNext == Parent \/ \E p \in Processes : Others(p)

(***************************************************************************)
(* The parent's code goes on where it can: each round looks at both        *)
(* streams.  There is no timeout, so the processes are assumed to go on.   *)
(***************************************************************************)
Fairness ==
  /\ WF_execVars(CommandLine \/ OpenPipes \/ BuildEnvironment \/ StartChild \/ Drained \/ Wait)
  /\ \A s \in Streams : WF_execVars(PollAndPump(s) \/ PeekAndPump(s))
  /\ \A p \in Processes : WF_execVars(Others(p))

ExecSpec == ExecInit /\ [][ExecNext]_execVars /\ Fairness

(***************************************************************************)
(* Properties.                                                             *)
(***************************************************************************)
Stream == [text : Seq(Nat), capacity : Nat, truncated : BOOLEAN, oom : BOOLEAN,
           capped : BOOLEAN, eof : BOOLEAN, failed : BOOLEAN]
Process == [live : BOOLEAN, script : Seq(Streams), code : Nat]
Reported == [kind : {"installed"}, key : Installed, label : Labels \cup Names, cached : {FALSE},
             copied : {0}, unresolved : {0}]
Given == [kind : {"none", "ran", "error"}, code : Nat, truncated : BOOLEAN,
          text : [Streams -> Seq(Nat)]]

\* Above all that what is captured fits in what was allocated for it, with the byte that
\* ends a text, and is never more than the limit (capture_stream_pump).
ExecTypeOK ==
  /\ platform \in Platforms /\ call \in Calls
  /\ tools \subseteq Installed /\ asked \in 0..MaxTools
  /\ report \in Seq(Reported) /\ Len(report) <= ReportCapacity
  /\ pc \in {"callback", "line", "pipes", "environment", "start", "drain", "wait", "answered"}
  /\ answer \in Given
  /\ ends \subseteq Streams \X {"read", "write"}
  /\ stream \in [Streams -> Stream] /\ buffer \in [Streams -> Seq(Nat)]
  /\ process \in [Processes -> Process] /\ written \in [Streams -> Nat]
  /\ seen \subseteq Inherited \cup call.env
  /\ \A s \in Streams : /\ Len(stream[s].text) <= Limit /\ Len(stream[s].text) < stream[s].capacity
                        /\ Len(buffer[s]) <= PipeRoom

\* What a callback is given of a stream begins as what was written to it did, without a gap,
\* and an answer that is not marked as truncated ends short of all that was written only
\* where a NUL byte was written (the rules of capture_stream_pump for the limit, for memory
\* that is missing at first or later, and for a read that fails). What follows a NUL is lost
\* and not said: daukle.exec hands the text over as a C string.
TruncationIsSaid ==
  pc = "answered" /\ answer.kind = "ran" /\ call.capture =>
    \A s \in Streams :
      LET given == answer.text[s]
      IN /\ given = [n \in 1..Len(given) |-> n]
         /\ \/ answer.truncated
            \/ Len(given) = written[s]
            \/ IsNul(s, Len(given) + 1) /\ Len(given) + 1 \in 1..written[s]

\* When daukle.exec is over, however it ended, fr_exec_run has no pipe end open and the
\* child it started has been waited for.
NothingIsLeft == pc = "answered" => ends = {} /\ ~Live("child")

\* A call that was let through is answered, whatever the child writes to which stream and
\* whoever keeps the streams open for how long, unless a read of a stream fails: that
\* stream is not read again, and not closed, while the other is still waited for.
CallEnds == pc \notin {"callback", "answered"} ~> pc = "answered" \/ \E s \in Streams : stream[s].failed
=============================================================================
