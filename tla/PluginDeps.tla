----------------------------- MODULE PluginDeps -----------------------------
(***************************************************************************)
(* fr_plugin_deps_acquire (src/plugin/plugin_deps_acquire.c) over            *)
(* fr_plugin_fetch (src/plugin/plugin_fetch.c): everything a plugin requires *)
(* is fetched, compared with its pin, and read for what it requires itself,  *)
(* breadth first. Urls serve what they please; an artifact's bytes are its   *)
(* digest, and say what it requires. Requirements of one artifact are met in *)
(* any order, as a Lua table walk yields them.                               *)
(***************************************************************************)
EXTENDS Naturals, Sequences, FiniteSets

CONSTANTS Urls, Digests, None,
          Worlds,                   \* what is declared by whom, see IsWorld
          MaxDepth, MaxNodes,       \* FR_PLUGIN_DEPS_MAX_DEPTH and _MAX_NODES
          MaxCalls                  \* bound: acquisitions over one cache

Requirement == [url : Urls, pin : Digests]
Choice      == [url : Urls, pin : Digests \cup {None}]     \* may go unpinned

\* What each artifact requires, what the plugin requires, and what the
\* manifest names in place of some of the latter.
IsWorld(some) ==
  /\ some.declares \in [Digests -> SUBSET Requirement]
  /\ some.root \subseteq Requirement
  /\ DOMAIN some.overrides \subseteq some.root            \* validate_overrides
  /\ \A req \in DOMAIN some.overrides : some.overrides[req] \in Choice

\* An artifact's bytes hold the digests of what it requires, so no chain of
\* pins comes back to where it began.
Founded(declares) ==
  \E rank \in [Digests -> 0..Cardinality(Digests)] :
    \A d \in Digests : \A req \in declares[d] : rank[req.pin] < rank[d]

ASSUME PluginDepsAssumption ==
  /\ MaxDepth \in Nat \ {0} /\ MaxNodes \in Nat \ {0} /\ MaxCalls \in Nat
  /\ None \notin Urls \cup Digests
  /\ \A world \in Worlds :
       /\ IsWorld(world)
       /\ Founded(world.declares)
       /\ IsFiniteSet(world.root) /\ Cardinality(world.root) <= MaxNodes  \* FR_PLUGIN_MAX_REQUIRES

VARIABLES world,                    \* fixed by Init
          cached,                   \* the plugin cache: a digest per url
          nodes,                    \* graph->nodes
          bindings,                 \* who bound which requirement to which node
          at,                       \* the view being served: 0 is the root's
          todo,                     \* what it still requires
          outcome,                  \* what the call returned, or "acquiring"
          blamed,                   \* the url a refused call names
          calls                     \* acquisitions so far
graph == <<nodes, bindings, at, todo>>
vars  == <<world, cached, graph, outcome, blamed, calls>>

Nodes == [url : Urls, digest : Digests, parent : 0..MaxNodes, depth : 0..MaxDepth,
          overridden : BOOLEAN]
Outcomes == {"idle", "acquiring", "acquired", "too_deep", "cycle", "disagreement",
             "too_many", "unavailable", "unreadable", "mismatch", "killed"}

Init ==
  /\ world \in Worlds
  /\ cached = [u \in Urls |-> None]
  /\ nodes = <<>> /\ bindings = {} /\ at = 0 /\ todo = {}
  /\ outcome = "idle" /\ blamed = None
  /\ calls = 0

Begin ==
  /\ outcome # "acquiring" /\ calls < MaxCalls
  /\ outcome' = "acquiring" /\ blamed' = None
  /\ nodes' = <<>> /\ bindings' = {} /\ at' = 0 /\ todo' = world.root
  /\ calls' = calls + 1
  /\ UNCHANGED <<world, cached>>

-----------------------------------------------------------------------------
(* acquire_one                                                             *)

\* Mutant of DepthHere: a node is as deep as what required it.
DepthHereFlat == IF at = 0 THEN 0 ELSE nodes[at].depth

DepthHere == IF at = 0 THEN 0 ELSE nodes[at].depth + 1

Overridden(req) == at = 0 /\ req \in DOMAIN world.overrides

\* An override replaces what the author named, for the plugin's own aliases.
Wanted(req) == IF Overridden(req) THEN world.overrides[req] ELSE req
Satisfies(digest, choice) == choice.pin \in {digest, None}

\* The urls from the artifact being served up to the one the plugin named.
Path ==
  LET upFrom[n \in 0..Len(nodes)] ==
        IF n = 0 THEN {} ELSE {nodes[n].url} \cup upFrom[nodes[n].parent]
  IN  upFrom[at]

WithUrl(url) == {n \in 1..Len(nodes) : nodes[n].url = url}
First(indexes) == CHOOSE n \in indexes : \A other \in indexes : n <= other

\* What fr_plugin_fetch gives: the cached bytes, or whatever the server has.
Fetchable(url) == IF cached[url] # None THEN {cached[url]} ELSE Digests

Binds(req, node) ==
  /\ bindings' = bindings \cup {[from |-> at, req |-> req, node |-> node,
                                 overridden |-> Overridden(req)]}
  /\ todo' = todo \ {req}
  /\ UNCHANGED <<world, at, outcome, blamed, calls>>

\* fr_plugin_deps_close: the whole acquisition goes.
Refuses(req, reason) ==
  /\ outcome' = reason /\ blamed' = Wanted(req).url
  /\ nodes' = <<>> /\ bindings' = {} /\ at' = 0 /\ todo' = {}
  /\ UNCHANGED <<world, calls>>

Adds(url, digest, req) ==
  /\ nodes' = Append(nodes, [url |-> url, digest |-> digest, parent |-> at, depth |-> DepthHere,
                             overridden |-> Overridden(req)])
  /\ cached' = [cached EXCEPT ![url] = digest]
  /\ Binds(req, Len(nodes) + 1)

Asked(req) == outcome = "acquiring" /\ req \in todo

Ordinary(req) == Asked(req) /\ ~Overridden(req)

RefuseDepth(req) ==
  /\ Ordinary(req) /\ DepthHere >= MaxDepth /\ Refuses(req, "too_deep")
  /\ UNCHANGED cached

Reachable(req) == Ordinary(req) /\ DepthHere < MaxDepth

RefuseCycle(req) ==
  /\ Reachable(req) /\ req.url \in Path /\ Refuses(req, "cycle")
  /\ UNCHANGED cached

Straight(req) == Reachable(req) /\ req.url \notin Path
Held(req) == nodes[First(WithUrl(req.url))]

\* Mutant of BindHeld: the pin of a second requester is not compared.
BindHeldUnchecked(req) ==
  /\ Straight(req) /\ WithUrl(req.url) # {}
  /\ Binds(req, First(WithUrl(req.url)))
  /\ UNCHANGED <<nodes, cached>>

BindHeld(req) ==
  /\ Straight(req) /\ WithUrl(req.url) # {}
  /\ Held(req).digest = req.pin
  /\ Binds(req, First(WithUrl(req.url)))
  /\ UNCHANGED <<nodes, cached>>

RefuseDisagreement(req) ==
  /\ Straight(req) /\ WithUrl(req.url) # {}
  /\ Held(req).digest # req.pin
  /\ Refuses(req, "disagreement")
  /\ UNCHANGED cached

Unheld(req) == Straight(req) /\ WithUrl(req.url) = {}

RefuseCount(req) ==
  /\ Unheld(req) /\ Len(nodes) = MaxNodes /\ Refuses(req, "too_many")
  /\ UNCHANGED cached

\* An override is fetched without any of the checks above.
Fetching(req) ==
  \/ Asked(req) /\ Overridden(req)
  \/ Unheld(req) /\ Len(nodes) < MaxNodes

Unavailable(req) ==
  /\ Fetching(req) /\ cached[Wanted(req).url] = None
  /\ Refuses(req, "unavailable")
  /\ UNCHANGED cached

\* The right bytes, cached by now, but no plugin that can be read.
Unreadable(req) ==
  /\ Fetching(req)
  /\ \E digest \in Fetchable(Wanted(req).url) :
       /\ Satisfies(digest, Wanted(req))
       /\ cached' = [cached EXCEPT ![Wanted(req).url] = digest]
  /\ Refuses(req, "unreadable")

\* fr_plugin_fetch_discard: the next call asks the server again.
RefuseMismatch(req) ==
  /\ Fetching(req)
  /\ \E digest \in Fetchable(Wanted(req).url) : ~Satisfies(digest, Wanted(req))
  /\ cached' = [cached EXCEPT ![Wanted(req).url] = None]
  /\ Refuses(req, "mismatch")

\* The process is stopped once the bytes are cached and before they are compared.
Killed(req) ==
  /\ Fetching(req) /\ cached[Wanted(req).url] = None
  /\ \E digest \in Digests : cached' = [cached EXCEPT ![Wanted(req).url] = digest]
  /\ Refuses(req, "killed")

Acquire(req) ==
  /\ Fetching(req)
  /\ \E digest \in Fetchable(Wanted(req).url) :
       Satisfies(digest, Wanted(req)) /\ Adds(Wanted(req).url, digest, req)

-----------------------------------------------------------------------------
(* fr_plugin_deps_acquire                                                  *)

\* Breadth first: the queue is the graph.
ServeNext ==
  /\ outcome = "acquiring" /\ todo = {} /\ at < Len(nodes)
  /\ at' = at + 1
  /\ todo' = world.declares[nodes[at + 1].digest]
  /\ UNCHANGED <<world, cached, nodes, bindings, outcome, blamed, calls>>

\* Mutant of Finish: the nodes the last one added are not served.
FinishEarly ==
  /\ outcome = "acquiring" /\ todo = {} /\ at >= Len(nodes) - 1
  /\ outcome' = "acquired"
  /\ UNCHANGED <<world, cached, graph, blamed, calls>>

Finish ==
  /\ outcome = "acquiring" /\ todo = {} /\ at = Len(nodes)
  /\ outcome' = "acquired"
  /\ UNCHANGED <<world, cached, graph, blamed, calls>>

Next ==
  \/ Begin \/ ServeNext \/ Finish
  \/ \E req \in Requirement :
       \/ RefuseDepth(req) \/ RefuseCycle(req)
       \/ BindHeld(req) \/ RefuseDisagreement(req) \/ RefuseCount(req)
       \/ Unavailable(req) \/ Unreadable(req) \/ RefuseMismatch(req)
       \/ Killed(req) \/ Acquire(req)

Spec == Init /\ [][Next]_vars

-----------------------------------------------------------------------------
TypeOK ==
  /\ cached \in [Urls -> Digests \cup {None}]
  /\ nodes \in Seq(Nodes) /\ Len(nodes) <= MaxNodes
  /\ at \in 0..Len(nodes)
  /\ todo \subseteq Requirement
  /\ outcome \in Outcomes /\ blamed \in Urls \cup {None}
  /\ bindings \subseteq [from : 0..MaxNodes, req : Requirement, node : 1..MaxNodes,
                         overridden : BOOLEAN]

\* Whoever asks, and whoever asked first, gets the bytes its own pin names; only
\* the manifest's override is exempt (plugin_deps_acquire.c: "whoever asked
\* first would otherwise decide which bytes everyone gets").
PinsHonoured ==
  \A b \in bindings : ~b.overridden =>
    nodes[b.node].url = b.req.url /\ nodes[b.node].digest = b.req.pin

\* What is acquired is everything: each requirement of the plugin and of every
\* artifact is bound, once, so a require inside a module never misses.
RequiredBy(n) == IF n = 0 THEN world.root ELSE world.declares[nodes[n].digest]
AcquiredIsClosed ==
  outcome = "acquired" =>
    \A n \in 0..Len(nodes) : \A req \in RequiredBy(n) :
      Cardinality({b \in bindings : b.from = n /\ b.req = req}) = 1

\* An artifact is listed at its shortest distance from the plugin, within the
\* limit, whatever order its requesters were met in; so a refusal for depth is
\* about the graph and not about the order of a Lua table walk.
DepthOf(n) == IF n = 0 THEN 0 ELSE nodes[n].depth + 1
ShortestFirst ==
  /\ \A b \in bindings : nodes[b.node].depth <= DepthOf(b.from)
  /\ \A n \in 1..Len(nodes) :
       /\ nodes[n].depth < MaxDepth
       /\ \E b \in bindings : b.node = n /\ b.from = nodes[n].parent
                                /\ nodes[n].depth = DepthOf(b.from)

\* No artifact reaches itself: requires inside modules end. The cycle check
\* looks only at the chain of first requesters; the pins do the rest.
Edges(n) == {b.node : b \in {b \in bindings : b.from = n}}
NoKnot ==
  \A knot \in SUBSET (1..Len(nodes)) :
    knot # {} => \E n \in knot : Edges(n) \cap knot = {}
=============================================================================
