-------------------------- MODULE CompositionGraph --------------------------
(***************************************************************************)
(* A design as a graph of nodes and edges, and the design read back from   *)
(* such a graph (composition_graph.rs).  A node's key is its identity: a   *)
(* prefix and a name.  The anchor, the board, the facets, the messages and *)
(* the units have no prefix, so these five share one space of names.       *)
(***************************************************************************)
EXTENDS Composition

Key(prefix, name) == <<prefix, name>>
Plain(name)       == Key(None, name)
Root              == Plain("composition")
Board             == Plain("board")

Scalars    == {"role", "source", "registry", "bus", "state", "pulls", "pushes", "prose"}
UnitFields == Scalars \cup {"id", "kind", "uses", "sends_to", "message"}

\* No prefix of a key is the empty one.
ASSUME PrefixAssumption == None \notin {"board_fact", "resource", "message_set"}

\* What the file of a composition is parsed to.
IsUnit(u) ==
    /\ u = [f \in UnitFields |-> u[f]]
    /\ u.kind \in {"component", "actor", "stage"}
    /\ IsList(u.uses) /\ IsList(u.sends_to)

IsResource(r)   == r = [name |-> r.name, roles |-> r.roles, via |-> r.via, address |-> r.address]
IsMessageSet(m) == m = [id |-> m.id, kinds |-> m.kinds, fields |-> m.fields]

IsDesign(d) ==
    /\ d = [prose |-> d.prose, framework |-> d.framework, wiring |-> d.wiring, board |-> d.board,
            facts |-> d.facts, resources |-> d.resources, facets |-> d.facets,
            messages |-> d.messages, units |-> d.units]
    /\ d.framework \in DOMAIN Frameworks
    /\ IsList(d.facts)
    /\ IsList(d.resources) /\ \A r \in Elements(d.resources) : IsResource(r)
    /\ d.facets = [f \in DOMAIN d.facets |-> d.facets[f]]
    /\ DOMAIN d.facets \subseteq Elements(FacetOrder)
    /\ IsList(d.messages) /\ \A m \in Elements(d.messages) : IsMessageSet(m)
    /\ IsList(d.units) /\ \A u \in Units(d) : IsUnit(u)
    /\ d.wiring \in Seq({<<>>} \cup (Ends(d) \X Ends(d)))

\* Bug: what an actor holds is not stored.
UnitPropsStateless(u) ==
    [p \in {"uses", "sends_to"} \cup {s \in Scalars \ {"state"} : u[s] # None} |-> u[p]]

\* The properties of a unit's node: its lists always, a scalar when the unit has it.
UnitProps(u) == [p \in {"uses", "sends_to"} \cup {s \in Scalars : u[s] # None} |-> u[p]]

\* The mailboxes the units name, each once, in the order they are first named.
Mailboxes(d) ==
    LET named == [i \in DOMAIN d.units |-> d.units[i].message]
    IN  Keep(named, {i \in DOMAIN named : named[i] # None /\ \A j \in 1 .. i - 1 : named[j] # named[i]})

Facets(d) == Keep(FacetOrder, {i \in DOMAIN FacetOrder : FacetOrder[i] \in DOMAIN d.facets})

\* The node a `uses' reaches: the unit of that name, else the declared device.
UsedKey(d, name) ==
    IF name \notin Ids(d) /\ name \in ResourceNames(d) THEN Key("resource", name) ELSE Plain(name)

NodesOf(d) ==
    <<Node("anchor", Root, 0, [framework |-> d.framework, prose |-> d.prose, wiring |-> d.wiring]),
      Node("board", Board, 0, [board |-> d.board])>>
    \o [i \in DOMAIN d.facts |-> Node("board_fact", Key("board_fact", i), i, d.facts[i])]
    \o [i \in DOMAIN d.resources |->
           LET r == d.resources[i]
           IN  Node("resource", Key("resource", r.name), i,
                    [p \in {"roles"} \cup {q \in {"via", "address"} : r[q] # None} |-> r[p]])]
    \o [i \in DOMAIN Facets(d) |->
           Node("facet", Plain(Facets(d)[i]), 0,
                [facet |-> Facets(d)[i], detail |-> d.facets[Facets(d)[i]]])]
    \o [i \in DOMAIN Mailboxes(d) |-> Node("message", Plain(Mailboxes(d)[i]), 0, [p \in {} |-> None])]
    \o [i \in DOMAIN d.messages |->
           LET m == d.messages[i]
           IN  Node("message_set", Key("message_set", m.id), i, [kinds |-> m.kinds, fields |-> m.fields])]
    \o [i \in DOMAIN d.units |-> Node(d.units[i].kind, Plain(d.units[i].id), i, UnitProps(d.units[i]))]

\* The edges a unit brings: to the anchor's children, what it uses, sends to and receives.
UnitEdges(d, u) ==
    <<Edge("HAS_UNIT", Root, Plain(u.id))>>
    \o [i \in DOMAIN u.uses |-> Edge("USES", Plain(u.id), UsedKey(d, u.uses[i]))]
    \o [i \in DOMAIN u.sends_to |-> Edge("SENDS_TO", Plain(u.id), Plain(u.sends_to[i]))]
    \o IF u.message = None THEN <<>> ELSE <<Edge("HAS_MESSAGE", Plain(u.id), Plain(u.message))>>

EdgesOf(d) ==
    LET wired == Keep(d.wiring, {i \in DOMAIN d.wiring : d.wiring[i] # <<>>})
    IN  <<Edge("HAS_BOARD", Root, Board)>>
        \o [i \in DOMAIN d.facts |-> Edge("HAS_BOARD_FACT", Board, Key("board_fact", i))]
        \o [i \in DOMAIN d.resources |-> Edge("HAS_RESOURCE", Root, Key("resource", d.resources[i].name))]
        \o [i \in DOMAIN Facets(d) |-> Edge("HAS_FACET", Root, Plain(Facets(d)[i]))]
        \o [i \in DOMAIN d.messages |-> Edge("HAS_MESSAGE_SET", Root, Key("message_set", d.messages[i].id))]
        \o FlattenSeq([i \in DOMAIN d.units |-> UnitEdges(d, d.units[i])])
        \o [i \in DOMAIN wired |-> Edge("WIRED_TO", Plain(wired[i][1]), Plain(wired[i][2]))]

Decompose(d) == [nodes |-> NodesOf(d), edges |-> EdgesOf(d)]

-----------------------------------------------------------------------------

Prop(n, p) == IF p \in DOMAIN n.props THEN n.props[p] ELSE None

\* A list a node does not have is empty.
ListProp(n, p) == IF p \in DOMAIN n.props THEN n.props[p] ELSE <<>>

MessageOf(g, n) ==
    LET i == SelectInSeq(g.edges, LAMBDA e : e.predicate = "HAS_MESSAGE" /\ e.from = n.key)
    IN  IF i = 0 THEN None ELSE g.edges[i].to[2]

UnitOf(g, n) ==
    [f \in UnitFields |->
        IF f = "id" THEN n.key[2]
        ELSE IF f = "kind" THEN n.type
        ELSE IF f = "message" THEN MessageOf(g, n)
        ELSE IF f \in Scalars THEN Prop(n, f)
        ELSE ListProp(n, f)]

Rebuilt(g, anchor) ==
    LET facts     == Children(g, Board, "HAS_BOARD_FACT")
        resources == Children(g, anchor.key, "HAS_RESOURCE")
        facets    == Elements(Children(g, anchor.key, "HAS_FACET"))
        units     == Children(g, anchor.key, "HAS_UNIT")
        messages  == Children(g, anchor.key, "HAS_MESSAGE_SET")
        stated    == {f \in Elements(FacetOrder) : \E n \in facets : Prop(n, "facet") = f}
    IN  [prose     |-> Prop(anchor, "prose"),
         framework |-> Prop(anchor, "framework"),
         wiring    |-> ListProp(anchor, "wiring"),
         board     |-> Prop(NodeAt(g, Board), "board"),
         facts     |-> [i \in DOMAIN facts |-> facts[i].props],
         resources |-> [i \in DOMAIN resources |->
                           [name |-> resources[i].key[2], roles |-> ListProp(resources[i], "roles"),
                            via |-> Prop(resources[i], "via"),
                            address |-> Prop(resources[i], "address")]],
         facets    |-> [f \in stated |->
                           Prop(CHOOSE n \in facets : Prop(n, "facet") = f, "detail")],
         messages  |-> [i \in DOMAIN messages |->
                           [id |-> messages[i].key[2], kinds |-> ListProp(messages[i], "kinds"),
                            fields |-> ListProp(messages[i], "fields")]],
         units     |-> [i \in DOMAIN units |-> UnitOf(g, units[i])]]

\* The design a graph states, or no design: without an anchor, or with a
\* child of the anchor that is no unit.
Reconstruct(g) ==
    LET anchors == Keep(g.nodes, {i \in DOMAIN g.nodes : g.nodes[i].type = "anchor"})
    IN  IF anchors = <<>> THEN {}
        ELSE IF \E n \in Elements(Children(g, anchors[1].key, "HAS_UNIT")) :
                    n.type \notin {"component", "actor", "stage"} THEN {}
        ELSE {Rebuilt(g, anchors[1])}
=============================================================================
