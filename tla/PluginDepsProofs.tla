-------------------------- MODULE PluginDepsProofs --------------------------
(***************************************************************************)
(* Proofs about PluginDeps, for every set of urls and artifacts, whatever    *)
(* requires whatever, in whatever order, and for every limit.                *)
(***************************************************************************)
EXTENDS PluginDeps, FiniteSetTheorems, WellFoundedInduction, TLAPS

-----------------------------------------------------------------------------
(* The inductive invariant.                                                *)

\* Breadth first: nodes stand in the order of their depth, and none is deeper
\* than what is being served would make it.
Levels ==
  /\ \A j, k \in 1..Len(nodes) : j <= k => nodes[j].depth <= nodes[k].depth
  /\ \A n \in 1..Len(nodes) :
       /\ nodes[n].parent <= at
       /\ nodes[n].depth = DepthOf(nodes[n].parent)
       /\ nodes[n].depth <= DepthOf(at)

\* A binding is of something that is required by what was served, and only the
\* plugin's own are overridden.
BindingsWell ==
  \A b \in bindings :
    /\ b.from \in 0..at /\ b.node \in 1..Len(nodes)
    /\ b.req \in RequiredBy(b.from)
    /\ b.overridden => b.from = 0

\* What was served is bound, each requirement once; what is to be served is not.
BoundAs(n, req) == {b \in bindings : b.from = n /\ b.req = req}
Served ==
  /\ todo \subseteq RequiredBy(at)
  /\ \A n \in 0..at : \A req \in RequiredBy(n) :
       IF n = at /\ req \in todo THEN BoundAs(n, req) = {}
                                 ELSE \E b \in bindings : BoundAs(n, req) = {b}

\* Overrides are not counted, and fit all the same: there are no more of them
\* than of the plugin's requirements.
RoomForRoot == at = 0 => Len(nodes) + Cardinality(todo) <= MaxNodes

IInv ==
  /\ world \in Worlds
  /\ TypeOK
  /\ Levels
  /\ BindingsWell
  /\ outcome \in {"acquiring", "acquired"} => Served
  /\ outcome = "acquired" => at = Len(nodes) /\ todo = {}
  /\ RoomForRoot
  /\ PinsHonoured
  /\ ShortestFirst

-----------------------------------------------------------------------------
(* Facts about the operators.                                              *)

LEMMA WorldFacts ==
  ASSUME world \in Worlds
  PROVE  /\ world.declares \in [Digests -> SUBSET Requirement]
         /\ world.root \subseteq Requirement
         /\ IsFiniteSet(world.root) /\ Cardinality(world.root) <= MaxNodes
         /\ DOMAIN world.overrides \subseteq world.root
         /\ \A req \in DOMAIN world.overrides : world.overrides[req] \in Choice
         /\ Founded(world.declares)
BY PluginDepsAssumption DEF IsWorld

\* A nonempty set of naturals has a least member.
LEMMA LeastMember ==
  ASSUME NEW S \in SUBSET Nat, S # {}
  PROVE  \E least \in S : \A i \in S : least <= i
<1>1. PICK least \in S : \A i \in S : ~(<<i, least>> \in OpToRel(<, Nat))
  BY NatLessThanWellFounded, WFMin
<1>2. ASSUME NEW i \in S PROVE least <= i
  <2>1. ~(i < least)
    BY <1>1 DEF OpToRel
  <2> QED
    BY <2>1
<1> QED
  BY <1>2

\* The node that is found under a url is one that has it.
LEMMA FirstFacts ==
  ASSUME Len(nodes) \in Nat, NEW url, WithUrl(url) # {}
  PROVE  /\ First(WithUrl(url)) \in 1..Len(nodes)
         /\ nodes[First(WithUrl(url))].url = url
<1>1. WithUrl(url) \subseteq 1..Len(nodes)
  BY DEF WithUrl
<1>2. PICK least \in WithUrl(url) : \A n \in WithUrl(url) : least <= n
  BY <1>1, LeastMember
<1>3. First(WithUrl(url)) \in WithUrl(url)
  BY <1>2 DEF First
<1> QED
  BY <1>3 DEF WithUrl

\* What is wanted in place of a requirement, and what depth it would have.
LEMMA AskedFacts ==
  ASSUME IInv, NEW req \in Requirement, Asked(req)
  PROVE  /\ Wanted(req) \in Choice /\ Wanted(req).url \in Urls
         /\ ~Overridden(req) => Wanted(req) = req
         /\ Overridden(req) => at = 0
         /\ req \in RequiredBy(at) /\ req.url \in Urls /\ req.pin \in Digests
         /\ DepthHere = DepthOf(at) /\ DepthHere \in Nat
         /\ at = 0 => DepthHere = 0
         /\ Served /\ BoundAs(at, req) = {}
<1>1. /\ req.url \in Urls /\ req.pin \in Digests /\ req \in Choice
  BY DEF Requirement, Choice
<1>2. at \in 0..Len(nodes) /\ nodes \in Seq(Nodes) /\ Len(nodes) \in Nat /\ MaxDepth \in Nat
  BY PluginDepsAssumption DEF IInv, TypeOK
<1>3. ASSUME at # 0 PROVE nodes[at].depth \in Nat
  <2>1. at \in 1..Len(nodes)
    BY <1>2, <1>3
  <2>2. nodes[at] \in Nodes
    BY <1>2, <2>1
  <2> QED
    BY <1>2, <2>2 DEF Nodes
<1>4. DepthHere = DepthOf(at) /\ DepthHere \in Nat /\ (at = 0 => DepthHere = 0)
  BY <1>3 DEF DepthHere, DepthOf
<1>5. Overridden(req) => at = 0 /\ world.overrides[req] \in Choice
  BY WorldFacts DEF IInv, Overridden
<1>6. Wanted(req) \in Choice /\ (~Overridden(req) => Wanted(req) = req)
  BY <1>1, <1>5 DEF Wanted
<1>7. Wanted(req).url \in Urls
  BY <1>6 DEF Choice
<1>8. Served /\ req \in todo
  BY DEF IInv, Asked
<1>9. req \in RequiredBy(at) /\ BoundAs(at, req) = {}
  BY <1>2, <1>8 DEF Served
<1> QED
  BY <1>1, <1>4, <1>5, <1>6, <1>7, <1>8, <1>9

-----------------------------------------------------------------------------
(* The steps.                                                              *)

\* With no node there is nothing to be wrong about.
LEMMA EmptyInv ==
  ASSUME world \in Worlds, world' = world, nodes' = <<>>, bindings' = {}, at' = 0,
         cached' \in [Urls -> Digests \cup {None}], blamed' \in Urls \cup {None},
         \/ outcome' \in Outcomes \ {"acquiring", "acquired"} /\ todo' = {}
         \/ outcome' = "acquiring" /\ todo' = world.root
  PROVE  IInv'
<1>1. /\ world.root \subseteq Requirement /\ IsFiniteSet(world.root)
      /\ Cardinality(world.root) <= MaxNodes /\ MaxNodes \in Nat /\ Cardinality(world.root) \in Nat
  BY WorldFacts, PluginDepsAssumption, FS_CardinalityType
<1>2. Cardinality({}) = 0
  BY FS_EmptySet
<1>3. TypeOK'
  BY <1>1, PluginDepsAssumption DEF TypeOK, Outcomes
<1>4. Levels' /\ BindingsWell' /\ PinsHonoured' /\ ShortestFirst'
  BY PluginDepsAssumption DEF Levels, BindingsWell, PinsHonoured, ShortestFirst
<1>5. outcome' = "acquiring" => Served'
  BY DEF Served, BoundAs, RequiredBy
<1>6. RoomForRoot'
  <2>1. Len(nodes') = 0
    OBVIOUS
  <2>2. Cardinality(todo') = 0 \/ Cardinality(todo') = Cardinality(world.root)
    <3>1. todo' = {} \/ todo' = world.root
      OBVIOUS
    <3> QED
      BY <1>2, <3>1, Zenon
  <2> QED
    BY <1>1, <2>1, <2>2 DEF RoomForRoot
<1> QED
  BY <1>3, <1>4, <1>5, <1>6 DEF IInv

LEMMA RefusesInv ==
  ASSUME IInv, NEW req \in Requirement, Asked(req),
         NEW reason \in Outcomes \ {"acquiring", "acquired"}, Refuses(req, reason),
         cached' \in [Urls -> Digests \cup {None}]
  PROVE  IInv'
BY AskedFacts, EmptyInv DEF Refuses, IInv

\* A binding is added: of a node that is there, or of the one that is.
LEMMA BindsServed ==
  ASSUME IInv, NEW req \in Requirement, Asked(req), NEW node, Binds(req, node),
         \A n \in 1..Len(nodes) : nodes'[n] = nodes[n]
  PROVE  /\ Served'
         /\ bindings' = bindings \cup {[from |-> at, req |-> req, node |-> node,
                                        overridden |-> Overridden(req)]}
         /\ world' = world /\ at' = at /\ todo' = todo \ {req}
         /\ UNCHANGED <<outcome, blamed>>
         /\ \A n \in 0..Len(nodes) : RequiredBy(n)' = RequiredBy(n) /\ DepthOf(n)' = DepthOf(n)
<1> DEFINE b == [from |-> at, req |-> req, node |-> node, overridden |-> Overridden(req)]
<1>1. /\ bindings' = bindings \cup {b} /\ world' = world /\ at' = at /\ todo' = todo \ {req}
      /\ UNCHANGED <<outcome, blamed>>
  BY DEF Binds
<1>2. b.from = at /\ b.req = req
  OBVIOUS
<1> HIDE DEF b
<1>3. Len(nodes) \in Nat /\ at \in 0..Len(nodes)
  BY DEF IInv, TypeOK
<1>4. \A n \in 0..Len(nodes) : RequiredBy(n)' = RequiredBy(n) /\ DepthOf(n)' = DepthOf(n)
  BY <1>1, <1>3 DEF RequiredBy, DepthOf
<1>5. Served /\ BoundAs(at, req) = {}
  BY AskedFacts
<1>6. \A n, r : (BoundAs(n, r))' = IF n = at /\ r = req THEN BoundAs(n, r) \cup {b} ELSE BoundAs(n, r)
  BY <1>1, <1>2 DEF BoundAs
<1>7. todo' \subseteq RequiredBy(at)'
  BY <1>1, <1>3, <1>4, <1>5 DEF Served, RequiredBy
<1>8. ASSUME NEW n \in 0..at, NEW r \in RequiredBy(n)'
      PROVE  IF n = at /\ r \in todo' THEN (BoundAs(n, r))' = {}
                                      ELSE \E c \in bindings' : (BoundAs(n, r))' = {c}
  <2>1. r \in RequiredBy(n)
    BY <1>3, <1>4
  <2>2. IF n = at /\ r \in todo THEN BoundAs(n, r) = {}
                                ELSE \E c \in bindings : BoundAs(n, r) = {c}
    BY <1>5, <2>1 DEF Served
  <2>3. CASE n = at /\ r = req
    <3>1. (BoundAs(n, r))' = {b} /\ r \notin todo' /\ b \in bindings'
      BY <1>1, <1>5, <1>6, <2>3
    <3> QED
      BY <3>1
  <2>4. CASE ~(n = at /\ r = req)
    BY <1>1, <1>6, <2>2, <2>4
  <2> QED
    BY <2>3, <2>4
<1>9. Served'
  BY <1>1, <1>7, <1>8 DEF Served
<1> QED
  BY <1>1, <1>4, <1>9 DEF b

\* While the plugin's own requirements are met there is a node left for each.
LEMMA RoomStays ==
  ASSUME IInv, NEW req \in Requirement, Asked(req), at' = at, todo' = todo \ {req},
         Len(nodes') \in Nat, Len(nodes') <= Len(nodes) + 1
  PROVE  RoomForRoot' /\ (at = 0 => Len(nodes) < MaxNodes)
<1> SUFFICES ASSUME at = 0
             PROVE  Len(nodes') + Cardinality(todo') <= MaxNodes /\ Len(nodes) < MaxNodes
  BY DEF RoomForRoot
<1>1. todo \subseteq world.root /\ req \in todo /\ IsFiniteSet(world.root)
  BY AskedFacts, WorldFacts DEF IInv, Served, RequiredBy, Asked
<1>2. IsFiniteSet(todo)
  BY <1>1, FS_Subset
<1>3. Cardinality(todo') = Cardinality(todo) - 1
  BY <1>1, <1>2, FS_RemoveElement
<1>4. Cardinality(todo) \in Nat /\ Cardinality(todo) # 0
  BY <1>1, <1>2, FS_CardinalityType, FS_EmptySet
<1>5. Len(nodes) + Cardinality(todo) <= MaxNodes /\ MaxNodes \in Nat /\ Len(nodes) \in Nat
  BY PluginDepsAssumption DEF IInv, TypeOK, RoomForRoot
<1> QED
  BY <1>3, <1>4, <1>5

LEMMA BindHeldInv ==
  ASSUME IInv, NEW req \in Requirement, BindHeld(req)
  PROVE  IInv'
<1> DEFINE node == First(WithUrl(req.url))
           b == [from |-> at, req |-> req, node |-> node, overridden |-> Overridden(req)]
<1>1. /\ Asked(req) /\ ~Overridden(req) /\ WithUrl(req.url) # {}
      /\ nodes[node].digest = req.pin /\ Binds(req, node) /\ UNCHANGED <<nodes, cached>>
  BY DEF BindHeld, Straight, Reachable, Ordinary, Held
<1>2. /\ Len(nodes) \in Nat /\ at \in 0..Len(nodes) /\ Len(nodes) <= MaxNodes /\ MaxNodes \in Nat
      /\ outcome = "acquiring"
  BY <1>1, PluginDepsAssumption DEF IInv, TypeOK, Asked
<1>3. node \in 1..Len(nodes) /\ nodes[node].url = req.url
  BY <1>1, <1>2, FirstFacts
<1>4. /\ Served' /\ bindings' = bindings \cup {b} /\ world' = world /\ at' = at
      /\ todo' = todo \ {req} /\ UNCHANGED <<outcome, blamed>>
      /\ \A n \in 0..Len(nodes) : RequiredBy(n)' = RequiredBy(n) /\ DepthOf(n)' = DepthOf(n)
  BY <1>1, BindsServed
<1>5. req \in RequiredBy(at)
  BY <1>1, AskedFacts
<1>6. b.from = at /\ b.req = req /\ b.node = node /\ b.overridden = FALSE
  BY <1>1
<1>7. b \in [from : 0..MaxNodes, req : Requirement, node : 1..MaxNodes, overridden : BOOLEAN]
  <2>1. Overridden(req) \in BOOLEAN
    BY DEF Overridden
  <2>2. at \in 0..MaxNodes /\ node \in 1..MaxNodes
    BY <1>2, <1>3
  <2> HIDE DEF node
  <2> QED
    BY <2>1, <2>2
<1> HIDE DEF b, node
<1>8. TypeOK'
  BY <1>1, <1>4, <1>7 DEF IInv, TypeOK
<1>9. Levels'
  BY <1>1, <1>2, <1>4 DEF IInv, Levels, DepthOf
<1>10. BindingsWell'
  BY <1>1, <1>2, <1>3, <1>4, <1>5, <1>6 DEF IInv, BindingsWell
<1>11. RoomForRoot'
  BY <1>1, <1>4, RoomStays DEF IInv
<1>12. PinsHonoured'
  BY <1>1, <1>3, <1>4, <1>6 DEF IInv, PinsHonoured
<1>13. ShortestFirst'
  <2>1. nodes[node].depth <= DepthOf(at)
    BY <1>3 DEF IInv, Levels
  <2>2. \A c \in bindings' : nodes'[c.node].depth <= DepthOf(c.from)'
    <3>1. \A c \in bindings : DepthOf(c.from)' = DepthOf(c.from)
      BY <1>2, <1>4 DEF IInv, BindingsWell
    <3>2. DepthOf(at)' = DepthOf(at)
      BY <1>2, <1>4
    <3> QED
      BY <1>1, <1>4, <1>6, <2>1, <3>1, <3>2 DEF IInv, ShortestFirst
  <2>3. ASSUME NEW k \in 1..Len(nodes)
        PROVE  /\ nodes'[k].depth < MaxDepth
               /\ \E c \in bindings' : /\ c.node = k /\ c.from = nodes'[k].parent
                                       /\ nodes'[k].depth = DepthOf(c.from)'
    <3>1. PICK c \in bindings : c.node = k /\ c.from = nodes[k].parent /\ nodes[k].depth = DepthOf(c.from)
      BY DEF IInv, ShortestFirst
    <3>2. DepthOf(c.from)' = DepthOf(c.from)
      BY <1>2, <1>4 DEF IInv, BindingsWell
    <3> QED
      BY <1>1, <1>4, <3>1, <3>2 DEF IInv, ShortestFirst
  <2> QED
    BY <1>1, <2>2, <2>3 DEF ShortestFirst
<1> QED
  BY <1>2, <1>4, <1>8, <1>9, <1>10, <1>11, <1>12, <1>13 DEF IInv

LEMMA AcquireInv ==
  ASSUME IInv, NEW req \in Requirement, Acquire(req)
  PROVE  IInv'
<1> DEFINE wanted == Wanted(req)
<1>1. PICK digest \in Digests : Satisfies(digest, wanted) /\ Adds(wanted.url, digest, req)
  <2>1. Fetchable(Wanted(req).url) \subseteq Digests
    <3>1. Asked(req)
      BY DEF Acquire, Fetching, Unheld, Straight, Reachable, Ordinary
    <3>2. cached[Wanted(req).url] \in Digests \cup {None}
      BY <3>1, AskedFacts DEF IInv, TypeOK
    <3> QED
      BY <3>2 DEF Fetchable
  <2> QED
    BY <2>1 DEF Acquire
<1> DEFINE node == [url |-> wanted.url, digest |-> digest, parent |-> at, depth |-> DepthHere,
                    overridden |-> Overridden(req)]
<1>2. /\ Asked(req) /\ nodes' = Append(nodes, node) /\ Binds(req, Len(nodes) + 1)
      /\ cached' = [cached EXCEPT ![wanted.url] = digest]
      /\ ~Overridden(req) => Len(nodes) < MaxNodes /\ DepthHere < MaxDepth
  BY <1>1 DEF Adds, Acquire, Fetching, Unheld, Straight, Reachable, Ordinary
<1>3. /\ Len(nodes) \in Nat /\ at \in 0..Len(nodes) /\ MaxNodes \in Nat /\ nodes \in Seq(Nodes)
      /\ MaxDepth \in Nat /\ MaxDepth > 0
  BY <1>2, PluginDepsAssumption DEF IInv, TypeOK
<1>4. /\ wanted.url \in Urls /\ (~Overridden(req) => wanted = req) /\ (Overridden(req) => at = 0)
      /\ req \in RequiredBy(at) /\ DepthHere = DepthOf(at) /\ DepthHere \in Nat
      /\ (at = 0 => DepthHere = 0) /\ req.pin \in Digests
  BY <1>2, AskedFacts
<1>5. PICK n : n = Len(nodes) + 1
  OBVIOUS
<1>6. /\ Len(nodes') = n /\ nodes'[n] = node /\ \A k \in 1..Len(nodes) : nodes'[k] = nodes[k]
  BY <1>2, <1>3, <1>5
<1>7. DepthHere < MaxDepth
  BY <1>2, <1>3, <1>4
<1>8. PICK b : b = [from |-> at, req |-> req, node |-> n, overridden |-> Overridden(req)]
  OBVIOUS
<1>9. /\ Served' /\ bindings' = bindings \cup {b} /\ world' = world /\ at' = at
      /\ todo' = todo \ {req} /\ UNCHANGED <<outcome, blamed>>
      /\ \A k \in 0..Len(nodes) : RequiredBy(k)' = RequiredBy(k) /\ DepthOf(k)' = DepthOf(k)
  BY <1>2, <1>5, <1>6, <1>8, BindsServed
<1>10. Overridden(req) \in BOOLEAN
  BY DEF Overridden
<1>11. /\ b.from = at /\ b.req = req /\ b.node = n /\ (b.overridden <=> Overridden(req))
       /\ b.overridden \in BOOLEAN
  BY <1>8, <1>10
<1>12. /\ node.url = wanted.url /\ node.digest = digest /\ node.parent = at
       /\ node.depth = DepthHere /\ node.overridden \in BOOLEAN
  BY <1>10
<1>13. RoomForRoot' /\ Len(nodes) < MaxNodes
  BY <1>2, <1>3, <1>4, <1>5, <1>6, <1>9, RoomStays
<1>14. TypeOK'
  <2>1. node \in Nodes
    BY <1>3, <1>4, <1>7, <1>10, <1>13 DEF Nodes, IInv, TypeOK
  <2>2. nodes' \in Seq(Nodes) /\ Len(nodes') <= MaxNodes /\ at' \in 0..Len(nodes')
    BY <1>2, <1>3, <1>5, <1>6, <1>9, <1>13, <2>1
  <2>3. b \in [from : 0..MaxNodes, req : Requirement, node : 1..MaxNodes, overridden : BOOLEAN]
    BY <1>3, <1>5, <1>8, <1>10, <1>13
  <2>4. cached' \in [Urls -> Digests \cup {None}]
    BY <1>2, <1>4 DEF IInv, TypeOK
  <2> QED
    BY <1>9, <2>2, <2>3, <2>4 DEF IInv, TypeOK
<1> HIDE DEF node, wanted
<1>15. \A k \in 1..n : k \in 1..Len(nodes) \/ k = n
  BY <1>3, <1>5
<1>16. \A k \in 1..Len(nodes) :
         /\ nodes[k].parent \in 0..Len(nodes) /\ nodes[k].depth <= DepthHere
         /\ nodes[k].parent <= at /\ nodes[k].depth = DepthOf(nodes[k].parent)
         /\ nodes[k].depth \in Nat
  <2>1. \A k \in 1..Len(nodes) : nodes[k] \in Nodes
    BY <1>3
  <2>2. \A k \in 1..Len(nodes) : nodes[k].parent \in 0..MaxNodes /\ nodes[k].depth \in 0..MaxDepth
    BY <2>1 DEF Nodes
  <2> QED
    BY <1>3, <1>4, <2>2 DEF IInv, Levels
<1>17. Levels'
  <2>1. ASSUME NEW j \in 1..n, NEW k \in 1..n, j <= k
        PROVE  nodes'[j].depth <= nodes'[k].depth
    <3>1. CASE k \in 1..Len(nodes)
      <4>1. j \in 1..Len(nodes)
        BY <1>3, <1>5, <2>1, <3>1
      <4> QED
        BY <1>6, <2>1, <3>1, <4>1 DEF IInv, Levels
    <3>2. CASE k = n /\ j \in 1..Len(nodes)
      BY <1>6, <1>12, <1>16, <3>2
    <3>3. CASE k = n /\ j = n
      BY <1>4, <1>6, <1>12, <3>3
    <3> QED
      BY <1>15, <3>1, <3>2, <3>3
  <2>2. ASSUME NEW k \in 1..n
        PROVE  /\ nodes'[k].parent <= at
               /\ nodes'[k].depth = IF nodes'[k].parent = 0 THEN 0
                                     ELSE nodes'[nodes'[k].parent].depth + 1
               /\ nodes'[k].depth <= DepthOf(at)'
    <3>1. DepthOf(at)' = DepthHere
      BY <1>3, <1>4, <1>9
    <3>2. CASE k \in 1..Len(nodes)
      <4>1. PICK p \in 0..Len(nodes) : /\ p = nodes[k].parent /\ nodes[k].depth = DepthOf(p)
                                       /\ p <= at /\ nodes[k].depth <= DepthHere
        BY <1>16, <3>2
      <4>2. nodes'[k] = nodes[k] /\ (p # 0 => nodes'[p] = nodes[p])
        BY <1>3, <1>6, <3>2
      <4> QED
        BY <3>1, <4>1, <4>2 DEF DepthOf
    <3>3. CASE k = n
      <4>1. nodes'[k].parent = at /\ nodes'[k].depth = DepthHere
        BY <1>6, <1>12, <3>3
      <4>2. at # 0 => nodes'[at] = nodes[at]
        BY <1>3, <1>6
      <4> QED
        BY <1>3, <1>4, <3>1, <4>1, <4>2 DEF DepthOf
    <3> QED
      BY <1>15, <3>2, <3>3
  <2> QED
    BY <1>6, <1>9, <2>1, <2>2 DEF Levels, DepthOf
<1>18. BindingsWell'
  <2>1. n \in 1..Len(nodes')
    BY <1>3, <1>5, <1>6
  <2>2. ASSUME NEW c \in bindings
        PROVE  /\ c.from \in 0..at' /\ c.node \in 1..Len(nodes') /\ c.req \in RequiredBy(c.from)'
               /\ c.overridden => c.from = 0
    <3>1. /\ c.from \in 0..at /\ c.node \in 1..Len(nodes) /\ c.req \in RequiredBy(c.from)
          /\ c.overridden => c.from = 0
      BY DEF IInv, BindingsWell
    <3>2. c.from \in 0..Len(nodes) /\ c.node \in 1..Len(nodes')
      BY <1>3, <1>5, <1>6, <3>1
    <3> QED
      BY <1>9, <3>1, <3>2
  <2>3. /\ b.from \in 0..at' /\ b.node \in 1..Len(nodes') /\ b.req \in RequiredBy(b.from)'
        /\ b.overridden => b.from = 0
    <3>1. RequiredBy(at)' = RequiredBy(at)
      BY <1>3, <1>9
    <3> QED
      BY <1>3, <1>4, <1>9, <1>11, <2>1, <3>1
  <2> QED
    BY <1>9, <2>2, <2>3 DEF BindingsWell
<1>19. \A c \in bindings : c.node \in 1..Len(nodes) /\ c.from \in 0..Len(nodes)
  BY <1>3 DEF IInv, BindingsWell
<1>20. PinsHonoured'
  <2>1. ~Overridden(req) => node.url = req.url /\ node.digest = req.pin
    BY <1>1, <1>4, <1>12, PluginDepsAssumption DEF Satisfies
  <2>2. \A c \in bindings : ~c.overridden =>
          nodes'[c.node].url = c.req.url /\ nodes'[c.node].digest = c.req.pin
    BY <1>6, <1>19 DEF IInv, PinsHonoured
  <2> QED
    BY <1>6, <1>9, <1>11, <2>1, <2>2 DEF PinsHonoured
<1>21. ShortestFirst'
  <2>1. DepthOf(at)' = DepthHere
    BY <1>3, <1>4, <1>9
  <2>2. \A c \in bindings : nodes'[c.node].depth <= DepthOf(c.from)'
    BY <1>6, <1>9, <1>19 DEF IInv, ShortestFirst
  <2>3. nodes'[b.node].depth = DepthOf(b.from)' /\ nodes'[b.node].depth <= DepthOf(b.from)'
    BY <1>4, <1>6, <1>9, <1>11, <1>12, <2>1
  <2>4. ASSUME NEW k \in 1..Len(nodes)
        PROVE  /\ nodes'[k].depth < MaxDepth
               /\ \E c \in bindings' : /\ c.node = k /\ c.from = nodes'[k].parent
                                       /\ nodes'[k].depth = DepthOf(c.from)'
    <3>1. nodes[k].depth < MaxDepth
      BY DEF IInv, ShortestFirst
    <3>2. PICK c \in bindings : c.node = k /\ c.from = nodes[k].parent /\ nodes[k].depth = DepthOf(c.from)
      BY DEF IInv, ShortestFirst
    <3>3. DepthOf(c.from)' = DepthOf(c.from)
      BY <1>9, <1>19
    <3> QED
      BY <1>6, <1>9, <3>1, <3>2, <3>3
  <2>5. /\ nodes'[n].depth < MaxDepth
        /\ \E c \in bindings' : /\ c.node = n /\ c.from = nodes'[n].parent
                                /\ nodes'[n].depth = DepthOf(c.from)'
    BY <1>6, <1>7, <1>9, <1>11, <1>12, <2>3
  <2> QED
    BY <1>6, <1>9, <1>15, <2>2, <2>3, <2>4, <2>5 DEF ShortestFirst
<1> QED
  BY <1>2, <1>9, <1>13, <1>14, <1>17, <1>18, <1>20, <1>21 DEF IInv, Asked

\* What is in a node.
LEMMA NodeFacts ==
  ASSUME nodes \in Seq(Nodes)
  PROVE  /\ Len(nodes) \in Nat
         /\ \A n \in 1..Len(nodes) :
              nodes[n].digest \in Digests /\ nodes[n].depth \in Nat /\ nodes[n].parent \in Nat
<1>1. \A n \in 1..Len(nodes) : nodes[n] \in Nodes
  OBVIOUS
<1>2. \A node \in Nodes : node.digest \in Digests /\ node.depth \in Nat /\ node.parent \in Nat
  BY DEF Nodes
<1> QED
  BY <1>1, <1>2

\* The next node is served: nothing it requires is bound yet.
LEMMA ServeNextInv == ASSUME IInv, ServeNext PROVE IInv'
<1>1. /\ outcome = "acquiring" /\ todo = {} /\ at < Len(nodes) /\ at' = at + 1
      /\ todo' = world.declares[nodes[at + 1].digest]
      /\ UNCHANGED <<world, cached, nodes, bindings, outcome, blamed>>
  BY DEF ServeNext
<1>2. /\ Len(nodes) \in Nat /\ at \in Nat /\ nodes \in Seq(Nodes) /\ at + 1 \in 1..Len(nodes)
      /\ at + 1 # 0
  BY <1>1 DEF IInv, TypeOK
<1>3. Served
  BY <1>1 DEF IInv
<1>4. nodes[at + 1].digest \in Digests
  BY <1>2, NodeFacts
<1>5. TypeOK'
  <2>1. todo' \subseteq Requirement
    BY <1>1, <1>4, WorldFacts DEF IInv
  <2> QED
    BY <1>1, <1>2, <2>1 DEF IInv, TypeOK
<1>6. DepthOf(at) <= nodes[at + 1].depth + 1
  <2>1. CASE at = 0
    <3>1. nodes[at + 1].depth \in Nat
      BY <1>2, NodeFacts
    <3> QED
      BY <2>1, <3>1 DEF DepthOf
  <2>2. CASE at # 0
    <3>1. at \in 1..Len(nodes) /\ at <= at + 1
      BY <1>2, <2>2
    <3>2. nodes[at].depth <= nodes[at + 1].depth
      BY <1>2, <3>1 DEF IInv, Levels
    <3>3. nodes[at].depth \in Nat /\ nodes[at + 1].depth \in Nat
      BY <1>2, <3>1, NodeFacts
    <3> QED
      BY <2>2, <3>2, <3>3 DEF DepthOf
  <2> QED
    BY <2>1, <2>2
<1>7. Levels'
  <2>1. ASSUME NEW n \in 1..Len(nodes)
        PROVE  /\ nodes[n].parent <= at + 1
               /\ nodes[n].depth <= nodes[at + 1].depth + 1
    <3>1. nodes[n] \in Nodes /\ nodes[at + 1] \in Nodes
      BY <1>2
    <3>2. nodes[n].parent \in Nat /\ nodes[n].depth \in Nat /\ nodes[at + 1].depth \in Nat
      BY <3>1 DEF Nodes
    <3>3. nodes[n].parent <= at /\ nodes[n].depth <= DepthOf(at)
      BY DEF IInv, Levels
    <3>4. DepthOf(at) \in Nat
      <4>1. at # 0 => at \in 1..Len(nodes)
        BY <1>2
      <4>2. at # 0 => nodes[at] \in Nodes
        BY <1>2, <4>1
      <4>3. at # 0 => nodes[at].depth \in Nat
        BY <4>2 DEF Nodes
      <4> QED
        BY <4>3 DEF DepthOf
    <3> QED
      BY <1>2, <1>6, <3>2, <3>3, <3>4
  <2>2. DepthOf(at)' = nodes[at + 1].depth + 1
    BY <1>1, <1>2 DEF DepthOf
  <2>3. \A j, k \in 1..Len(nodes) : j <= k => nodes[j].depth <= nodes[k].depth
    BY DEF IInv, Levels
  <2>4. \A n \in 1..Len(nodes) :
          nodes[n].depth = IF nodes[n].parent = 0 THEN 0 ELSE nodes[nodes[n].parent].depth + 1
    BY DEF IInv, Levels, DepthOf
  <2>5. \A n \in 1..Len(nodes') :
          nodes'[n].depth = IF nodes'[n].parent = 0 THEN 0 ELSE nodes'[nodes'[n].parent].depth + 1
    BY <1>1, <2>4
  <2>6. /\ \A j, k \in 1..Len(nodes') : j <= k => nodes'[j].depth <= nodes'[k].depth
        /\ \A n \in 1..Len(nodes') : nodes'[n].parent <= at' /\ nodes'[n].depth <= DepthOf(at)'
    BY <1>1, <2>1, <2>2, <2>3
  <2> QED
    BY <2>5, <2>6 DEF Levels, DepthOf
<1>8. \A n : RequiredBy(n)' = RequiredBy(n)
  BY <1>1 DEF RequiredBy
<1>9. BindingsWell'
  <2>1. 0..at \subseteq 0..at'
    BY <1>1, <1>2
  <2> QED
    BY <1>1, <1>8, <2>1 DEF IInv, BindingsWell
<1>10. Served'
  <2>1. todo' = RequiredBy(at + 1)
    BY <1>1, <1>2 DEF RequiredBy
  <2>2. \A n, req : (BoundAs(n, req))' = BoundAs(n, req)
    BY <1>1 DEF BoundAs
  <2>3. \A req : BoundAs(at + 1, req) = {}
    <3>1. \A b \in bindings : b.from # at + 1
      BY <1>2 DEF IInv, BindingsWell
    <3> QED
      BY <3>1 DEF BoundAs
  <2>4. ASSUME NEW n \in 0..at', NEW req \in RequiredBy(n)'
        PROVE  IF n = at' /\ req \in todo' THEN (BoundAs(n, req))' = {}
                                           ELSE \E b \in bindings' : (BoundAs(n, req))' = {b}
    <3>1. CASE n = at + 1
      BY <1>1, <1>8, <2>1, <2>2, <2>3, <3>1
    <3>2. CASE n # at + 1
      <4>1. n \in 0..at /\ req \in RequiredBy(n)
        BY <1>1, <1>2, <1>8, <3>2
      <4>2. \E b \in bindings : BoundAs(n, req) = {b}
        BY <1>1, <1>3, <4>1 DEF Served
      <4> QED
        BY <1>1, <2>2, <3>2, <4>2
    <3> QED
      BY <3>1, <3>2
  <2>5. todo' \subseteq RequiredBy(at)'
    BY <1>1, <1>2 DEF RequiredBy
  <2> QED
    BY <2>4, <2>5 DEF Served
<1>11. RoomForRoot'
  BY <1>1, <1>2 DEF RoomForRoot
<1>12. PinsHonoured' /\ ShortestFirst'
  BY <1>1 DEF IInv, PinsHonoured, ShortestFirst, DepthOf
<1> QED
  BY <1>1, <1>5, <1>7, <1>9, <1>10, <1>11, <1>12 DEF IInv

\* Where the graph stays as it is and nothing else of it is claimed.
LEMMA SameGraph ==
  ASSUME IInv, UNCHANGED <<world, cached, nodes, bindings, at, todo, blamed>>,
         \/ outcome' = outcome
         \/ outcome' = "acquired" /\ outcome = "acquiring" /\ at = Len(nodes) /\ todo = {}
  PROVE  IInv'
<1>1. TypeOK'
  BY DEF IInv, TypeOK, Outcomes
<1>2. Levels' /\ RoomForRoot' /\ PinsHonoured' /\ ShortestFirst'
  BY DEF IInv, Levels, RoomForRoot, PinsHonoured, ShortestFirst, DepthOf
<1>3. BindingsWell' /\ (Served' <=> Served)
  BY DEF IInv, BindingsWell, Served, BoundAs, RequiredBy
<1> QED
  BY <1>1, <1>2, <1>3 DEF IInv

LEMMA InitIInv == ASSUME Init PROVE IInv
<1>1. /\ world \in Worlds /\ cached = [u \in Urls |-> None] /\ nodes = <<>> /\ bindings = {}
      /\ at = 0 /\ todo = {} /\ outcome = "idle" /\ blamed = None
  BY DEF Init
<1>2. TypeOK
  BY <1>1, PluginDepsAssumption DEF TypeOK, Outcomes
<1>3. Levels /\ BindingsWell /\ PinsHonoured /\ ShortestFirst
  BY <1>1 DEF Levels, BindingsWell, PinsHonoured, ShortestFirst
<1>4. RoomForRoot
  BY <1>1, FS_EmptySet, PluginDepsAssumption DEF RoomForRoot
<1> QED
  BY <1>1, <1>2, <1>3, <1>4 DEF IInv

LEMMA NextIInv == ASSUME IInv, [Next]_vars PROVE IInv'
<1>1. CASE UNCHANGED vars
  BY <1>1, SameGraph DEF vars, graph
<1>2. CASE Begin
  BY <1>2, EmptyInv DEF Begin, IInv, TypeOK
<1>3. CASE Finish
  BY <1>3, SameGraph DEF Finish, graph
<1>4. ASSUME NEW req \in Requirement,
             \/ RefuseDepth(req) \/ RefuseCycle(req) \/ RefuseDisagreement(req) \/ RefuseCount(req)
             \/ Unavailable(req) \/ Unreadable(req) \/ RefuseMismatch(req) \/ Killed(req)
      PROVE  IInv'
  <2>1. Asked(req)
    BY <1>4 DEF RefuseDepth, RefuseCycle, RefuseDisagreement, RefuseCount, Unavailable, Unreadable,
       RefuseMismatch, Killed, Fetching, Unheld, Straight, Reachable, Ordinary
  <2>2. Wanted(req).url \in Urls /\ cached \in [Urls -> Digests \cup {None}]
    BY <2>1, AskedFacts DEF IInv, TypeOK
  <2>3. Fetchable(Wanted(req).url) \subseteq Digests
    BY <2>2 DEF Fetchable
  <2>4. cached' \in [Urls -> Digests \cup {None}]
    BY <1>4, <2>2, <2>3 DEF RefuseDepth, RefuseCycle, RefuseDisagreement, RefuseCount, Unavailable,
       Unreadable, RefuseMismatch, Killed
  <2>5. \E reason \in Outcomes \ {"acquiring", "acquired"} : Refuses(req, reason)
    BY <1>4 DEF RefuseDepth, RefuseCycle, RefuseDisagreement, RefuseCount, Unavailable, Unreadable,
       RefuseMismatch, Killed, Outcomes
  <2> QED
    BY <2>1, <2>4, <2>5, RefusesInv
<1> QED
  BY <1>1, <1>2, <1>3, <1>4, ServeNextInv, BindHeldInv, AcquireInv DEF Next

-----------------------------------------------------------------------------
(* The theorems.                                                           *)

\* Whatever the server answers and wherever an acquisition is killed, the graph is
\* what the levels served so far require (plugin_deps_acquire.c).
THEOREM PluginDepsInductive == Spec => []IInv
BY InitIInv, NextIInv, PTL DEF Spec

\* Types: above all that the nodes fit in the graph's array, those too that a
\* manifest's overrides add without the count being looked at
\* (plugin_deps_acquire.c, acquire_override).
THEOREM PluginDepsTypeCorrect == Spec => []TypeOK
<1>1. IInv => TypeOK
  BY DEF IInv
<1> QED
  BY <1>1, PluginDepsInductive, PTL

\* Whoever asks gets the bytes its own pin names (plugin_deps_acquire.c,
\* plugin_fetch.c).
THEOREM PluginDepsPinsHonoured == Spec => []PinsHonoured
<1>1. IInv => PinsHonoured
  BY DEF IInv
<1> QED
  BY <1>1, PluginDepsInductive, PTL

\* Every artifact is listed at its shortest distance, in whatever order its
\* requesters were met (plugin_deps_acquire.c: "breadth first").
THEOREM PluginDepsShortestFirst == Spec => []ShortestFirst
<1>1. IInv => ShortestFirst
  BY DEF IInv
<1> QED
  BY <1>1, PluginDepsInductive, PTL

\* An acquisition that succeeds leaves no requirement of the plugin or of an
\* artifact unbound, or bound twice (fr_plugin_deps_acquire).
THEOREM PluginDepsAcquiredIsClosed == Spec => []AcquiredIsClosed
<1>1. ASSUME IInv, outcome = "acquired", NEW n \in 0..Len(nodes), NEW req \in RequiredBy(n)
      PROVE  Cardinality(BoundAs(n, req)) = 1
  <2>1. PICK b : BoundAs(n, req) = {b}
    BY <1>1 DEF IInv, Served
  <2> QED
    BY <2>1, FS_Singleton
<1>2. IInv => AcquiredIsClosed
  BY <1>1 DEF AcquiredIsClosed, BoundAs
<1> QED
  BY <1>2, PluginDepsInductive, PTL

\* A require inside a module ends: every edge but the plugin's own leads to an
\* artifact of a lower rank, which the pins give, whatever the overrides say.
THEOREM PluginDepsNoKnot == Spec => []NoKnot
<1>1. ASSUME IInv, NEW knot \in SUBSET (1..Len(nodes)), knot # {}
      PROVE  \E n \in knot : Edges(n) \cap knot = {}
  <2>1. PICK rank \in [Digests -> 0..Cardinality(Digests)] :
          \A d \in Digests : \A req \in world.declares[d] : rank[req.pin] < rank[d]
    BY <1>1, WorldFacts DEF IInv, Founded
  <2>2. /\ Len(nodes) \in Nat /\ nodes \in Seq(Nodes)
        /\ \A n \in 1..Len(nodes) : nodes[n].digest \in Digests
    BY <1>1, NodeFacts DEF IInv, TypeOK
  <2> DEFINE R(n) == rank[nodes[n].digest]
             ranks == {R(n) : n \in knot}
  <2>3. ranks \in SUBSET Nat /\ ranks # {}
    <3>1. \A n \in knot : R(n) \in 0..Cardinality(Digests)
      BY <2>2
    <3>2. \A n \in knot : R(n) \in Nat
      BY <3>1
    <3> HIDE DEF R
    <3> QED
      BY <1>1, <3>2
  <2>4. PICK least \in ranks : \A i \in ranks : least <= i
    BY <2>3, LeastMember
  <2>5. PICK n \in knot : least = R(n)
    OBVIOUS
  <2>6. ASSUME NEW b \in bindings, b.from = n PROVE b.node \notin knot
    <3>1. n \in 1..Len(nodes) /\ n # 0 /\ b.node \in 1..Len(nodes)
      BY <1>1, <2>2 DEF IInv, BindingsWell
    <3>2. ~b.overridden /\ b.req \in world.declares[nodes[n].digest]
      BY <1>1, <2>6, <3>1 DEF IInv, BindingsWell, RequiredBy
    <3>3. nodes[b.node].digest = b.req.pin
      BY <1>1, <3>2 DEF IInv, PinsHonoured
    <3>4. R(b.node) < R(n)
      BY <2>1, <2>2, <3>1, <3>2, <3>3
    <3>5. R(b.node) \in Nat /\ R(n) \in Nat
      BY <2>2, <3>1
    <3> HIDE DEF R
    <3>6. ASSUME b.node \in knot PROVE FALSE
      <4>1. R(n) <= R(b.node)
        BY <2>4, <2>5, <3>6
      <4> QED
        BY <3>4, <3>5, <4>1
    <3> QED
      BY <3>6
  <2> QED
    BY <2>6 DEF Edges
<1>2. IInv => NoKnot
  BY <1>1 DEF NoKnot
<1> QED
  BY <1>2, PluginDepsInductive, PTL
=============================================================================
