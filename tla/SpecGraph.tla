----------------------------- MODULE SpecGraph -----------------------------
(***************************************************************************)
(* An AppSpec as a graph of nodes and edges (spec_graph.rs), and what is   *)
(* read back from the graph: the spec, and the slices the code generators  *)
(* take (spec_codegen.rs).  Whatever owns fields, a data type, a node type *)
(* of the app's graph, an actor or a bridge method, is known by its bare   *)
(* name, and every field hangs on its owner by the same predicate.         *)
(***************************************************************************)
EXTENDS AppSpec

CONSTANT Spellable    \* the names a type expression can be read back with

Key(name)               == <<name>>
Part(owner, kind, name) == <<owner, kind, name>>

Root(s) == Key(s.name)
NoProps == [p \in {} |-> Absent]

\* Each function below answers with the nodes and the edges one part of a spec becomes.
Graph(nodes, edges) == [nodes |-> nodes, edges |-> edges]
Joined(parts) == Graph(FlattenSeq([i \in DOMAIN parts |-> parts[i].nodes]),
                       FlattenSeq([i \in DOMAIN parts |-> parts[i].edges]))
Each(seq, Op(_, _)) == Joined([i \in DOMAIN seq |-> Op(seq[i], i)])

\* A child of an owner, with the edges that leave it.
Child(owner, predicate, node, more) == Graph(<<node>>, <<Edge(predicate, owner, node.key)>> \o more)

TypedBy(from, ty) == IF ty.name = Absent THEN <<>> ELSE <<Edge("OF_TYPE", from, Key(ty.name))>>

PushFields(owner, kind, fields) ==
    Each(fields, LAMBDA f, i :
        LET key == Part(owner, kind, f.name)
        IN  Child(Key(owner), "HAS_FIELD", Node("field", key, i, f), TypedBy(key, f.ty)))

PushType(s, t, i) ==
    Joined(<<Child(Root(s), "HAS_TYPE", Node("type", Key(t.name), i, [kind |-> t.kind]), <<>>),
             PushFields(t.name, "field", t.fields),
             Each(t.variants, LAMBDA v, j :
                 Child(Key(t.name), "HAS_VARIANT",
                       Node("variant", Part(t.name, "variant", v), j, [variant |-> v]), <<>>))>>)

DecomposeCore(s) ==
    Joined(<<Graph(<<Node("appspec", Root(s), 0, NoProps)>>, <<>>),
             Each(s.types, LAMBDA t, i : PushType(s, t, i)),
             Each(s.nodes, LAMBDA n, i :
                 Joined(<<Child(Root(s), "HAS_GRAPH_NODE", Node("graph_node", Key(n.name), i, NoProps), <<>>),
                          PushFields(n.name, "gfield", n.fields)>>)),
             Each(s.links, LAMBDA l, i :
                 Child(Root(s), "HAS_GRAPH_EDGE",
                       Node("graph_edge", Part(s.name, "edge", l.name), i, l), <<>>))>>)

PushActor(s, a, i) ==
    Joined(<<Child(Root(s), "HAS_ACTOR", Node("actor", Key(a.name), i, [uses |-> a.uses]), <<>>),
             Each(a.handlers, LAMBDA m, j :
                 Child(Key(a.name), "HAS_HANDLER",
                       Node("handler", Part(a.name, "handler", m), j, [method |-> m]), <<>>)),
             PushFields(a.name, "state", a.state)>>)

\* Bug: every actor that handles anything is said to handle the method.
PushMethodToAny(s, m, i) ==
    LET owners == Keep(s.actors, {j \in DOMAIN s.actors : s.actors[j].handlers # <<>>})
    IN  Joined(<<Child(Root(s), "HAS_METHOD", Node("method", Key(m.method), i, [result |-> m.result]), <<>>),
                 PushFields(m.method, "param", m.params),
                 Graph(<<>>, TypedBy(Key(m.method), m.result)),
                 Graph(<<>>, [j \in DOMAIN owners |->
                                 Edge("HANDLED_BY", Key(m.method), Key(owners[j].name))])>>)

\* A method, with the edge to each actor that lists it.
PushMethod(s, m, i) ==
    LET owners == Keep(s.actors, {j \in DOMAIN s.actors : m.method \in Elements(s.actors[j].handlers)})
    IN  Joined(<<Child(Root(s), "HAS_METHOD", Node("method", Key(m.method), i, [result |-> m.result]), <<>>),
                 PushFields(m.method, "param", m.params),
                 Graph(<<>>, TypedBy(Key(m.method), m.result)),
                 Graph(<<>>, [j \in DOMAIN owners |->
                                 Edge("HANDLED_BY", Key(m.method), Key(owners[j].name))])>>)

\* A layout from the number it is given on: its graph, and the number after it.
PushLayout(screen) ==
    LET push[c \in Layouts \X Nat] ==
            LET layout == c[1]
                index  == c[2]
                key    == Part(screen, "layout", index)
                self   == Graph(<<Node("layout", key, index, [kind |-> layout.kind, action |-> layout.action])>>,
                                IF index = 0 THEN <<Edge("HAS_LAYOUT", Key(screen), key)>> ELSE <<>>)
                after[i \in 0 .. Len(layout.children)] ==
                    IF i = 0 THEN [graph |-> self, next |-> index + 1]
                    ELSE LET acc == after[i - 1]
                             sub == push[<<layout.children[i], acc.next>>]
                         IN  [graph |-> Joined(<<acc.graph,
                                  Graph(<<>>, <<Edge("LAYOUT_CHILD", key, Part(screen, "layout", acc.next))>>),
                                  sub.graph>>),
                              next  |-> sub.next]
            IN  after[Len(layout.children)]
    IN  push

PushScreen(s, v, i) ==
    LET Of(predicate, kind, name, j, props, more) ==
            Child(Key(v.id), predicate, Node(kind, Part(v.id, kind, name), j, props), more)
    IN  Joined(<<Child(Root(s), "HAS_SCREEN", Node("screen", Key(v.id), i, NoProps), <<>>),
                 Each(v.actions, LAMBDA a, j :
                     Of("HAS_ACTION", "action", a.id, j, a,
                        <<Edge("CALLS", Part(v.id, "action", a.id), Key(a.bridge))>>)),
                 Each(v.bindings, LAMBDA b, j :
                     Of("HAS_BINDING", "binding", b.field, j, b,
                        <<Edge("BINDS", Part(v.id, "binding", b.field), Key(b.method))>>)),
                 Each(v.navigation, LAMBDA n, j :
                     Of("HAS_NAVIGATION", "navigation", n.action, j, n,
                        <<Edge("NAVIGATES_TO", Part(v.id, "navigation", n.action), Key(n.to))>>)),
                 PushLayout(v.id)[<<v.layout, 0>>].graph>>)

Decompose(s) ==
    Joined(<<DecomposeCore(s),
             Each(s.actors, LAMBDA a, i : PushActor(s, a, i)),
             Each(s.bridge, LAMBDA m, i : PushMethod(s, m, i)),
             Each(s.ui, LAMBDA v, i : PushScreen(s, v, i))>>)

-----------------------------------------------------------------------------
(* Reading a graph.                                                        *)

\* The nodes of a type, as they come.
OfType(g, type) == Keep(g.nodes, {i \in DOMAIN g.nodes : g.nodes[i].type = type})

PropsOf(nodes) == [i \in DOMAIN nodes |-> nodes[i].props]
Column(nodes, p) == [i \in DOMAIN nodes |-> nodes[i].props[p]]

FieldsOf(g, owner) == PropsOf(Children(g, owner, "HAS_FIELD"))

\* A type expression with a name that is not spellable cannot be read back.
Readable(ty)        == ty.refs \cup ty.labels \subseteq Spellable
ReadableFields(fs)  == \A f \in Elements(fs) : Readable(f.ty)

RebuildLayout(g) ==
    LET rebuild[key \in Keys(g)] ==
            LET n    == NodeAt(g, key)
                kids == Children(g, key, "LAYOUT_CHILD")
            IN  [kind |-> n.props.kind, action |-> n.props.action,
                 children |-> [i \in DOMAIN kids |-> rebuild[kids[i].key]]]
    IN  rebuild

TypeFrom(g, n) ==
    [name |-> n.key[1], kind |-> n.props.kind,
     fields   |-> IF n.props.kind = "record" THEN FieldsOf(g, n.key) ELSE <<>>,
     variants |-> IF n.props.kind = "enum" THEN Column(Children(g, n.key, "HAS_VARIANT"), "variant") ELSE <<>>]

\* The fields of a node type that cannot be read are no fields.
GraphNodeFrom(g, n) ==
    LET fields == FieldsOf(g, n.key)
    IN  [name |-> n.key[1], fields |-> IF ReadableFields(fields) THEN fields ELSE <<>>]

ActorFrom(g, n) ==
    [name |-> n.key[1], handlers |-> Column(Children(g, n.key, "HAS_HANDLER"), "method"),
     state |-> FieldsOf(g, n.key), uses |-> n.props.uses]

MethodFrom(g, n) == [method |-> n.key[1], params |-> FieldsOf(g, n.key), result |-> n.props.result]

ScreenFrom(g, n) ==
    [id |-> n.key[1],
     actions    |-> PropsOf(Children(g, n.key, "HAS_ACTION")),
     bindings   |-> PropsOf(Children(g, n.key, "HAS_BINDING")),
     navigation |-> PropsOf(Children(g, n.key, "HAS_NAVIGATION")),
     layout     |-> RebuildLayout(g)[Children(g, n.key, "HAS_LAYOUT")[1].key]]

Mapped(nodes, Op(_)) == [i \in DOMAIN nodes |-> Op(nodes[i])]

\* The spec a graph states, or no spec when a type in it cannot be read.
Reconstruct(g) ==
    LET s == [name   |-> OfType(g, "appspec")[1].key[1],
              types  |-> Mapped(Ordered(g, "type"), LAMBDA n : TypeFrom(g, n)),
              nodes  |-> Mapped(Ordered(g, "graph_node"), LAMBDA n : GraphNodeFrom(g, n)),
              links  |-> PropsOf(Ordered(g, "graph_edge")),
              actors |-> Mapped(Ordered(g, "actor"), LAMBDA n : ActorFrom(g, n)),
              bridge |-> Mapped(Ordered(g, "method"), LAMBDA n : MethodFrom(g, n)),
              ui     |-> Mapped(Ordered(g, "screen"), LAMBDA n : ScreenFrom(g, n))]
    IN  IF \A ty \in TypesUsed(s) : Readable(ty) THEN {s} ELSE {}

\* The methods of each actor that has any, by the HANDLED_BY edges.
Dispatch(g) ==
    LET methods == OfType(g, "method")
        Owned(a) == Keep(methods, {i \in DOMAIN methods :
                                      Edge("HANDLED_BY", methods[i].key, a.key) \in Elements(g.edges)})
        all == Mapped(OfType(g, "actor"),
                      LAMBDA a : [actor |-> a.key[1], methods |-> Mapped(Owned(a), LAMBDA m : m.key[1])])
    IN  Keep(all, {i \in DOMAIN all : all[i].methods # <<>>})

\* What the generators read, or nothing: they stop the program at a type they cannot read.
Codegen(g) ==
    LET slices == [types    |-> Mapped(OfType(g, "type"), LAMBDA n : TypeFrom(g, n)),
                   dispatch |-> Dispatch(g),
                   bridge   |-> Mapped(OfType(g, "method"), LAMBDA n : MethodFrom(g, n)),
                   screens  |-> Mapped(OfType(g, "screen"), LAMBDA n : ScreenFrom(g, n))]
    IN  IF /\ \A t \in Elements(slices.types) : ReadableFields(t.fields)
           /\ \A m \in Elements(slices.bridge) : ReadableFields(m.params) /\ Readable(m.result)
        THEN {slices} ELSE {}

-----------------------------------------------------------------------------
(* What a spec must be to come back from its graph, and who handles what.  *)

\* Every name that owns fields, and every name within one owner, is used once.
Apart(s) ==
    /\ IsInjective([i \in DOMAIN s.types |-> s.types[i].name]
                   \o [i \in DOMAIN s.nodes |-> s.nodes[i].name]
                   \o [i \in DOMAIN s.actors |-> s.actors[i].name]
                   \o [i \in DOMAIN s.bridge |-> s.bridge[i].method])
    /\ \A fields \in FieldLists(s) : Distinct(fields, LAMBDA f : f.name)
    /\ \A v \in Elements(s.ui) : /\ Distinct(v.bindings, LAMBDA b : b.field)
                                 /\ Distinct(v.navigation, LAMBDA n : n.action)

Spelt(s) == \A ty \in TypesUsed(s) : Readable(ty)

\* Who handles what: as the spec says, and as the generators read it.
Handled(s)        == UNION {{<<a.name, m>> : m \in Elements(a.handlers)} : a \in Elements(s.actors)}
Routed(dispatch)  == UNION {{<<d.actor, m>> : m \in Elements(d.methods)} : d \in Elements(dispatch)}
=============================================================================
