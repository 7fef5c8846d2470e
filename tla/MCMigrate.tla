----------------------------- MODULE MCMigrate -----------------------------
(* A Maven project with a module below it and a file another tool's plugin *)
(* recognises by its text; three catalogs; answers that agree, collide,    *)
(* nest, hand back a directory, name a foreign plugin or are malformed.    *)
EXTENDS Migrate

MCFold(name) == IF name = "POM" THEN "pom" ELSE name

Pom == <<"pom">>
SubPom == <<"sub", "pom">>
SubLib == <<"sub", "lib">>
MCOriginals == {Pom, SubPom, SubLib}
MCFound == SubLib :> {"npm"}
MCOrder == <<<<>>, <<"daukle">>, <<"daukle", "java">>, <<"daukle", "shade">>, <<"node">>, <<"out">>,
             <<"sub">>>>

File(names) == [dir |-> <<>>, names |-> names, safe |-> TRUE]
Rule(names, contains, scope) ==
  [files |-> {File(names)}, contains |-> contains, scope |-> scope]
Entry(id, asset, detect) ==
  [id |-> id, asset |-> asset, detect |-> detect, replaces |-> Missing, skip |-> Missing]

Maven == Entry("maven", "m1", <<Rule({"pom"}, Missing, "tree")>>)
Npm == Entry("npm", "n1", <<Rule({"lib"}, {[token |-> "npm", bare |-> FALSE]}, "tree")>>)
Shade == [Entry("shade", "s1", <<>>) EXCEPT !.replaces = {<<"maven", "plugin", "f">>}]
Greedy == Entry("greedy", "g1", <<Rule({"pom", "lib"}, Missing, "tree")>>)
Copy == [Entry("copy", "c1", <<>>) EXCEPT !.replaces = {<<"maven", "plugin", "g">>}]
Unreleased == Entry("npm", Missing, <<Rule({"pom"}, Missing, Missing)>>)
UnreleasedShade == [Shade EXCEPT !.asset = Missing]
Late == [Copy EXCEPT !.detect = Maven.detect]
Bare == Entry("npm", "n2", <<Rule({"lib"}, {[token |-> "npm", bare |-> TRUE]}, "tree")>>)

Document(body) == [transport |-> "https", body |-> body]
MCCatalogLists ==                                               \* <<environment, --catalog>>
  {<< <<>>, <<Document(<<Npm, Maven, Shade, Copy>>)>> >>,      \* the ordinary one
   \* one entry refused, one listed twice, one outranked by an earlier catalog and one that
   \* outranks it by the text of a file
   << <<Document(<<Bare, Greedy>>)>>, <<Document(<<Npm, Late, Greedy>>)>> >>,
   << <<Document(<<Maven, Greedy>>)>>, <<>> >>,                 \* a tie
   << <<>>, <<Document(<<Unreleased, Maven, UnreleasedShade>>)>> >>,
   << <<[transport |-> "http", body |-> <<Maven>>]>>, <<Document(<<Npm>>)>> >>}
MCWiths == {{}, {"maven", "npm"}, {"maven", "greedy"}, {"shade"}, {"copy", "greedy"}}

MCMigrator ==
  ("maven" :> [tool |-> "maven", toolchain |-> "java"])
    @@ ("npm" :> [tool |-> "npm", toolchain |-> "node"])
    @@ ("greedy" :> [tool |-> "greedy", toolchain |-> "java-sub"])
    @@ ("shade" :> Missing) @@ ("copy" :> Missing)
MCTranslators ==      \* copy claims g and declares f
  {[label |-> "shade", tool |-> "maven", id |-> "f"], [label |-> "copy", tool |-> "maven", id |-> "f"]}

Doc(instance, leaves) ==
  (<<"toolchains">> :> Table) @@ (<<"toolchains", instance>> :> Table) @@ leaves
Java(version) == Doc("java", <<"version">> :> <<version>>)
Proof == [task |-> "package", compare |-> <<[old |-> <<"out", "old">>, new |-> <<"out", "new">>, as |-> "archive"]>>]
ProofOf(name) == [task |-> "package", compare |-> <<[old |-> <<name, "old">>, new |-> <<name, "new">>, as |-> "bytes"]>>]

Good ==
  [manifest |-> Java("1"), foreign |-> <<>>, blockers |-> <<>>, owned |-> <<Pom>>,
   instances |-> Missing, files |-> <<[path |-> <<"daukle", "java", "x">>, text |-> "carried"]>>,
   proof |-> Proof]
G == [kind |-> "plugin", id |-> "g"]
F == [kind |-> "plugin", id |-> "f"]
AtRoot ==
  {Good,
   [Good EXCEPT !.foreign = <<F>>, !.instances = <<<<"sub">>>>, !.files = Missing],
   [Good EXCEPT !.owned = <<Pom, <<"sub">>>>],
   [Good EXCEPT !.foreign = <<G>>],
   [Good EXCEPT !.foreign = <<G, F>>],
   [Good EXCEPT !.blockers = <<"a profile">>],
   [Good EXCEPT !.owned = <<<<"daukle.toml">>>>],
   Malformed}
AtSub ==
  {[Good EXCEPT !.manifest = Doc("java-sub", <<"version">> :> <<"1">>), !.owned = <<SubPom>>,
                !.files = Missing, !.proof = ProofOf("sub")],
   [Good EXCEPT !.manifest = Doc("java-sub", <<"version">> :> <<"2">>), !.files = Missing,
                !.owned = <<SubPom>>, !.proof = ProofOf("sub")]}
OfNpm ==
  {[Good EXCEPT !.manifest = Missing, !.owned = <<SubLib>>, !.files = Missing, !.proof = ProofOf("node")],
   [Good EXCEPT !.manifest = Java("1"), !.owned = <<<<"POM">>>>, !.files = Missing, !.proof = Missing],
   [Good EXCEPT !.manifest = <<"toolchains">> :> <<"x">>, !.owned = Missing, !.files = Missing]}
MCAnswers ==
  [k \in (DOMAIN MCMigrator) \X {<<>>, <<"sub">>} |->
     CASE k[1] = "npm" -> OfNpm [] k[2] = <<>> -> AtRoot [] OTHER -> AtSub]
MCTranslations ==
  "f" :> {[manifest |-> Doc("shade", <<"toolchains", "shade", "toolchain">> :> <<"java">>),
           files |-> <<[path |-> <<"daukle", "shade", "y">>, text |-> "carried"]>>, blockers |-> <<>>],
          [manifest |-> Doc("java", <<"toolchains", "java", "toolchain">> :> <<"kotlin">>),
           files |-> Missing, blockers |-> <<>>],
          [manifest |-> <<"version">> :> Table, files |-> Missing, blockers |-> <<>>]}

Archive(bytes, second) ==
  [lines |-> NotText, newline |-> FALSE,
   members |-> <<[name |-> "a", kind |-> "file", bytes |-> bytes, value |-> NotJson],
                 [name |-> "d", kind |-> second, bytes |-> "", value |-> NotJson]>>]
Text(lines) == [lines |-> lines, newline |-> TRUE, members |-> NotArchive]
MCOldOutputs == {Archive("1", "directory")}
MCNewOutputs == {Archive("1", "directory"), [Archive("1", "directory") EXCEPT !.newline = TRUE],
                 Archive("2", "directory"), Archive("1", "symlink")}
MCUsual == {"java", "java-sub", "node", "sub"}
=============================================================================
