------------------------------- MODULE MCExec -------------------------------
(* Calls with every script of up to three writes and a process left behind *)
(* that writes once, for a capture of up to two units and pipes of one,    *)
(* with a NUL byte among what is written, or none;                         *)
(* and calls that are refused, or whose environment is not daukle's own.   *)
EXTENDS Exec

Scripts == UNION {[1..k -> Streams] : k \in 0..3}
Plain == [phase |-> "task", options |-> "known", arguments |-> 1, cwdIsWithin |-> TRUE,
          capture |-> TRUE, check |-> FALSE, env |-> {}, declared |-> {"TOKEN"},
          script |-> <<>>, kin |-> <<>>, nul |-> {}, code |-> 0]

MCCalls ==
  {[Plain EXCEPT !.script = s, !.kin = k, !.code = c] :
       s \in Scripts, k \in {<<>>, <<"err">>, <<"out">>}, c \in {0}}
    \cup {[Plain EXCEPT !.script = <<"out", "out">>, !.kin = k, !.nul = {<<"out", n>>}] :
             n \in 1..3, k \in {<<>>, <<"out">>}}
    \cup {[Plain EXCEPT !.script = <<"out">>, !.code = c, !.check = k] : c \in {1, 127, 137}, k \in BOOLEAN}
    \cup {[Plain EXCEPT !.script = s, !.capture = FALSE] : s \in {<<>>, <<"out", "err">>}}
    \cup {[Plain EXCEPT !.phase = p] : p \in {"generating", "loading", "describing", "none", "publish", "migrator"}}
    \cup {[Plain EXCEPT !.options = "unknown"], [Plain EXCEPT !.arguments = 3], [Plain EXCEPT !.cwdIsWithin = FALSE]}
    \cup {[Plain EXCEPT !.env = e, !.declared = d] :
             e \in {{}, {<<"Path", "2">>}, {<<"", "2">>}, {<<"Path", "2">>, <<"HOME", "2">>, <<"LANG", "2">>}},
             d \in {{}, {"Token"}}}

MCInherited == {<<"PATH", "1">>, <<"HOME", "1">>, <<"Token", "s">>}
MCFolded == [n \in {"PATH", "HOME", "LANG", "TOKEN", "Path", "Token", ""} |->
               IF n = "Path" THEN "PATH" ELSE IF n = "Token" THEN "TOKEN" ELSE n]
MCSearchPath == <<"", "/bin", "/usr/bin">>
MCInstalled ==
  {<<"/bin", "cc", "">>, <<"/usr/bin", "cc", "">>, <<"/usr/bin", "cc", ".exe">>, <<"/usr/bin", "mvn", ".cmd">>,
   <<"/usr/bin", "run.bat", "">>, <<"/bin", "gone", "">>}
MCUnresolvable == {<<"/bin", "gone", "">>}
=============================================================================
