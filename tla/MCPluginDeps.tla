---------------------------- MODULE MCPluginDeps ----------------------------
(* Three urls and three artifacts: the top one may require the others, the  *)
(* middle one the last, under any url. The plugin requires one or two, under *)
(* two of the urls (which two makes no difference), and the manifest may     *)
(* override one of them.                                                     *)
EXTENDS PluginDeps

MCUrls == {"u", "v", "w"}
MCDigests == {"top", "middle", "last"}
AtMost(count, set) == {some \in SUBSET set : Cardinality(some) <= count}

MCDeclares ==
  {[d \in MCDigests |-> CASE d = "top" -> top [] d = "middle" -> middle [] d = "last" -> {}] :
     top \in AtMost(2, [url : MCUrls, pin : {"middle", "last"}]),
     middle \in AtMost(1, [url : MCUrls, pin : {"last"}])}

MCChoices == {[url |-> "u", pin |-> None], [url |-> "w", pin |-> None], [url |-> "w", pin |-> "top"]}
MCOverrides(root) ==
  {<<>>} \cup {[req \in {one} |-> choice] : one \in root, choice \in MCChoices}

MCRoots == AtMost(2, [url : {"u", "v"}, pin : MCDigests]) \ {{}}

MCWorlds ==
  UNION {{[declares |-> declares, root |-> root, overrides |-> overrides] :
            declares \in MCDeclares, overrides \in MCOverrides(root)} : root \in MCRoots}
=============================================================================
