----------------------------- MODULE MCSession -----------------------------
(* Two resolvers with credentials of their own; a plugin of two modules found  *)
(* through one of them that requires libraries, one of those replaced through  *)
(* the other; plugins one after the other through the same resolver; a         *)
(* directory. One manifest for each way an entry does not read.                *)
EXTENDS Session

File(name, module) ==
  [name |-> name, module |-> module, type |-> "file", lua |-> TRUE, climbs |-> FALSE,
   fits |-> TRUE]
Archive(members) == [kind |-> "archive", members |-> members]
Entrypoint == File("plugin", Plain)
Chunk == [kind |-> "chunk", members |-> <<>>]

MCSources ==
  [java   |-> Archive(<<Entrypoint, File("modules/ci", "ci"), File("util", Plain)>>),
   kit    |-> Archive(<<Entrypoint, File("lib", Plain), File("util", Plain)>>),
   base   |-> Archive(<<Entrypoint, File("lib", Plain)>>),
   here   |-> [kind |-> "directory", members |-> <<Entrypoint, File("util", Plain)>>],
   mirror |-> Chunk,
   vault  |-> Archive(<<Entrypoint>>),
   torn   |-> Archive(<<Entrypoint, [Entrypoint EXCEPT !.fits = FALSE]>>)]

Declares0 == [requires |-> <<>>, exports |-> {}, env |-> {}, uses |-> {}]
JavaMain  == <<"java", Main>>
JavaCi    == <<"java", "ci">>
MCViews   == {<<artifact, Main>> : artifact \in DOMAIN MCSources} \cup {JavaCi}
MCDeclared ==
  [view \in MCViews |->
     CASE view = JavaMain -> [Declares0 EXCEPT !.requires = [kit |-> "kit"], !.env = {"TOKEN"},
                                               !.uses = {"exec"}]
       [] view = JavaCi   -> [Declares0 EXCEPT !.requires = [base |-> "base"]]
       [] view = <<"kit", Main>>  -> [Declares0 EXCEPT !.requires = [base |-> "base"],
                                                       !.exports = {"lib"}]
       [] view = <<"base", Main>> -> [Declares0 EXCEPT !.exports = {"lib"}]
       [] view = <<"mirror", Main>> -> [Declares0 EXCEPT !.env = {"TOKEN"}]
       [] view = <<"vault", Main>>  -> [Declares0 EXCEPT !.env = {"KEY"}]
       [] OTHER -> Declares0]

Resolver(name, keys) ==
  [label |-> name, form |-> "table", keys |-> keys, strings |-> keys, artifact |-> name]
Mirror == Resolver("mirror", {"path"})
Vault  == Resolver("vault", {"url", "sha256"})

Plugin(name, artifact, keys) ==
  [label |-> name, slash |-> FALSE, form |-> "table", keys |-> keys, strings |-> keys,
   artifact |-> artifact, resolver |-> "mirror", modules |-> <<>>, overrides |-> <<>>]
Through == {"resolver", "coordinate"}
Java ==
  [Plugin("java", "java", Through \cup {"modules", "requires"}) EXCEPT
     !.modules = <<"main", "ci">>,
     !.overrides = [kit |-> [artifact |-> "base", by |-> "vault"]]]
Here == [Plugin("here", "here", {"path"}) EXCEPT !.form = "string"]

Of(resolvers, plugins) == [resolvers |-> resolvers, plugins |-> plugins]
Both == <<Mirror, Vault>>
MCManifests ==
  {Of(Both, <<Java, Plugin("again", "kit", Through)>>),
   Of(<<Vault, Mirror>>, <<Plugin("base", "base", Through), Plugin("kit", "kit", Through)>>),
   Of(<<>>, <<>>),
   Of(<<>>, <<Plugin("lost", "kit", Through)>>),
   Of(Both, <<Plugin("torn", "torn", {"url", "sha256"})>>),
   Of(<<>>, <<Plugin("here", "here", {"path", "sha256"})>>),
   Of(<<Mirror, Resolver("vault", {"url"})>>, <<Here>>),
   Of(<<Resolver("mirror", {"url", "path", "sha256"})>>, <<>>),
   Of(<<>>, <<Plugin("two", "kit", {"path", "url"})>>),
   Of(<<>>, <<Plugin("half", "kit", {"resolver"})>>),
   Of(<<>>, <<Plugin("odd", "kit", {"url", "asset"})>>),
   Of(Both, <<[Java EXCEPT !.modules = <<"ci", "CI">>]>>),
   Of(Both, <<[Java EXCEPT !.overrides = [lib |-> [artifact |-> "base", by |-> "url"]]]>>),
   Of(<<>>, <<[Here EXCEPT !.slash = TRUE]>>)}
\* Two plugins of a chunk each, for what their callbacks declare when both are loaded.
LateManifests == {Of(<<>>, <<Here, Plugin("kit", "kit", {"path"})>>)}
MCFolded == [main |-> "main", ci |-> "ci", CI |-> "ci"]
MCAliases == {"kit", "base"}
MCCut == [alias \in MCAliases |-> alias]
MCCredentials == {"TOKEN", "KEY"}
MCNames == {"lib", "util"}
MCToolchains == {"java", "publish"}
MCIds == {"jar"}
=============================================================================
