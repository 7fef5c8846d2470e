------------------------------ MODULE MCUnpack ------------------------------
(* Every archive of up to four headers out of a pool: files, directories,  *)
(* links of links and through links, names that are extended, repeated,    *)
(* climbing or too long, headers that are not sound; a file and three links*)
(* that lead through each other (Chain); tars that are cut and zips whose  *)
(* two directories disagree.                                               *)
EXTENDS Unpack

Header(type, name) ==
  [type |-> type, name |-> name, slash |-> FALSE, link |-> Missing, text |-> "", size |-> 0,
   exec |-> FALSE, setuid |-> FALSE, sound |-> TRUE,
   local |-> name, localSize |-> 0, described |-> FALSE, zip64 |-> FALSE, unix |-> TRUE]
File(name, text) == [Header("file", name) EXCEPT !.text = text, !.size = 2, !.localSize = 2, !.exec = TRUE]
Link(name, target) == [Header("symlink", name) EXCEPT !.link = target]
Extension(type, name, link) == [Header(type, name) EXCEPT !.link = link]
End == Header("end", <<>>)

Pool ==
  {File(<<"a">>, "1"), File(<<"d", "a">>, "2"),
   [Header("directory", <<"d">>) EXCEPT !.slash = TRUE],
   Link(<<"l">>, <<"d">>), Link(<<"d">>, <<"b">>), Link(<<"b">>, <<"d", ".", "a">>),
   Link(<<"c">>, <<"b">>), Link(<<"d", "up">>, <<"..", "a">>), Link(<<"b">>, <<"c">>),
   Link(<<"c">>, <<"l", "..", "a">>),
   Extension("pax", <<"c">>, Missing), Extension("long link", Missing, <<"a">>)}
Odd ==
  {File(<<"d", "..", "a">>, "1"), File(<<"a", "a", "a", "a">>, "1"), Link(<<"l">>, <<"..">>),
   File(<<"dotted">>, "1"), File(<<"d", "drive">>, "1"), Link(<<"b">>, <<"dotted">>), Link(<<"b">>, <<"back">>),
   Link(<<"b">>, <<"", "a">>), Header("directory", <<"a", "d">>), [Link(<<"a", "b">>, <<"c">>) EXCEPT !.slash = TRUE],
   [File(<<"a">>, "1") EXCEPT !.setuid = TRUE], [File(<<"a">>, "1") EXCEPT !.size = 9],
   [File(<<"a">>, "1") EXCEPT !.slash = TRUE], [Link(<<"b">>, <<"a">>) EXCEPT !.slash = TRUE],
   [File(<<"a">>, "1") EXCEPT !.sound = FALSE], Header("fifo", <<"a">>), Link(<<"a", "l">>, <<"b">>), Link(<<"a", "d", "l">>, <<"b">>),
   Extension("global", <<"a">>, Missing), Extension("pax", Malformed, Missing)}

Chain ==
  {Link(<<"b">>, <<"d", ".", "a">>), Link(<<"d", "b">>, <<"..", "a">>), Link(<<"d", "c">>, <<"..", "b">>),
   Link(<<"c">>, <<"d", "c">>), Link(<<"c">>, <<"a", ".">>), [Link(<<"b">>, <<"a">>) EXCEPT !.slash = TRUE]}

Raw(head, entries) == [head |-> head, intact |-> TRUE, entries |-> entries]
Seqs(n) == UNION {[1..k -> Pool] : k \in 0..n}
MCArchives ==
  {Raw("tar.gz", Append(s, End)) : s \in Seqs(3)}
    \cup {Raw("tar", <<f>> \o s \o <<End>>) : f \in {File(<<"a">>, "1"), File(<<"d", "a">>, "2")}, s \in [1..3 -> Chain]}
    \cup {Raw("tar", <<o, End>>) : o \in Odd}
    \cup {Raw("tar", <<File(<<"a">>, "1"), o, End>>) : o \in Odd}
    \cup {Raw("tar", s) : s \in {<<>>, <<File(<<"a">>, "1")>>}}
    \cup {[Raw("tar", <<>>) EXCEPT !.head = "other"], [Raw("zip", <<>>) EXCEPT !.intact = FALSE]}
    \cup {Raw("tar", <<File(<<"d", "a">>, "2"), Link(<<"b">>, <<"d", "a">>), Link(<<"c">>, <<"b">>),
                       Link(<<"l">>, <<"c">>)>> \o more \o <<File(<<"a">>, "1"), End>>) :
            more \in {<<>>, <<Link(<<"m">>, <<"l">>)>>}}      \* the longer has a member too many
    \cup {Raw("zip", <<f, [Header("directory", <<"d">>) EXCEPT !.slash = TRUE]>>) :
            f \in {File(<<"a">>, "1"), [File(<<"a">>, "1") EXCEPT !.local = <<"b">>],
                   [File(<<"a">>, "1") EXCEPT !.localSize = 1], [File(<<"a">>, "1") EXCEPT !.zip64 = TRUE],
                   [File(<<"a">>, "1") EXCEPT !.localSize = 0, !.described = TRUE]}}
=============================================================================
