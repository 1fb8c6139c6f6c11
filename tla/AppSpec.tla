------------------------------ MODULE AppSpec ------------------------------
(***************************************************************************)
(* The AppSpec of a SpireApp and the rules it is held to before code is    *)
(* generated from it (spec.rs).  A spec is a record of sequences: data     *)
(* types, the node and edge types of the app's graph, actors, bridge       *)
(* methods and screens.  An empty name is Absent; descriptions, titles and *)
(* the warnings, which block nothing, are left out.                        *)
(*                                                                         *)
(* A type expression is known by what the rules and the graph ask of it:   *)
(* the type it names when it is nothing but a name, the types it refers    *)
(* to anywhere, and the labels of the inline records in it.                *)
(***************************************************************************)
EXTENDS PropertyGraph

CONSTANTS
    Absent,     \* an empty name, or no name
    Layouts,    \* the layouts a screen may have, and those in them
    Depth       \* how deep a layout goes

\* A layout owns the layouts in it.
ASSUME LayoutsAreTrees ==
    /\ Depth \in [Layouts -> Nat]
    /\ \A l \in Layouts : /\ l = [kind |-> l.kind, action |-> l.action, children |-> l.children]
                          /\ l.children \in Seq(Layouts)
                          /\ \A c \in Elements(l.children) : Depth[c] < Depth[l]

\* What the source's types make of a spec and its parts.
IsType(ty)    == /\ ty = [name |-> ty.name, refs |-> ty.refs, labels |-> ty.labels]
                 /\ ty.name # Absent => ty.name \in ty.refs
AreFields(fs) == IsList(fs) /\ \A f \in Elements(fs) : f = [name |-> f.name, ty |-> f.ty] /\ IsType(f.ty)

IsDomainType(t) ==
    /\ t = [name |-> t.name, kind |-> t.kind, fields |-> t.fields, variants |-> t.variants]
    /\ AreFields(t.fields) /\ IsList(t.variants)
    /\ \/ t.kind = "record" /\ t.variants = <<>>
       \/ t.kind = "enum" /\ t.fields = <<>>

IsNodeType(n) == n = [name |-> n.name, fields |-> n.fields] /\ AreFields(n.fields)
IsActor(a)    == /\ a = [name |-> a.name, handlers |-> a.handlers, state |-> a.state, uses |-> a.uses]
                 /\ IsList(a.handlers) /\ AreFields(a.state)
IsMethod(m)   == /\ m = [method |-> m.method, params |-> m.params, result |-> m.result]
                 /\ AreFields(m.params) /\ IsType(m.result)
IsScreen(v)   == /\ v = [id |-> v.id, actions |-> v.actions, bindings |-> v.bindings,
                         navigation |-> v.navigation, layout |-> v.layout]
                 /\ IsList(v.actions) /\ IsList(v.bindings) /\ IsList(v.navigation)
                 /\ v.layout \in Layouts

IsAppSpec(s) ==
    /\ s = [name |-> s.name, types |-> s.types, nodes |-> s.nodes, links |-> s.links,
            actors |-> s.actors, bridge |-> s.bridge, ui |-> s.ui]
    /\ IsList(s.types) /\ \A t \in Elements(s.types) : IsDomainType(t)
    /\ IsList(s.nodes) /\ \A n \in Elements(s.nodes) : IsNodeType(n)
    /\ IsList(s.links)
    /\ IsList(s.actors) /\ \A a \in Elements(s.actors) : IsActor(a)
    /\ IsList(s.bridge) /\ \A m \in Elements(s.bridge) : IsMethod(m)
    /\ IsList(s.ui) /\ \A v \in Elements(s.ui) : IsScreen(v)

Distinct(s, Key(_)) == \A i, j \in DOMAIN s : Key(s[i]) = Key(s[j]) => i = j

Plain        == [name |-> Absent, refs |-> {}, labels |-> {}]
Ref(t)       == [name |-> t, refs |-> {t}, labels |-> {}]
ListOf(ty)   == [ty EXCEPT !.name = Absent]
Field(f, ty) == [name |-> f, ty |-> ty]

TypeNames(s) == {t.name : t \in Elements(s.types)}
NodeNames(s) == {n.name : n \in Elements(s.nodes)}
Methods(s)   == {m.method : m \in Elements(s.bridge)}
ScreenIds(s) == {v.id : v \in Elements(s.ui)}

\* The buttons of a layout, wherever they are in the tree.
ButtonActions[layout \in Layouts] ==
    UNION {ButtonActions[c] : c \in Elements(layout.children)}
        \cup IF layout.kind = "button" THEN {layout.action} ELSE {}

-----------------------------------------------------------------------------
(* The rules.                                                              *)

NameRule(s) ==
    /\ s.name # Absent
    /\ \A names \in {[i \in DOMAIN s.actors |-> s.actors[i].name],
                     [i \in DOMAIN s.bridge |-> s.bridge[i].method],
                     [i \in DOMAIN s.ui |-> s.ui[i].id],
                     [i \in DOMAIN s.nodes |-> s.nodes[i].name],
                     [i \in DOMAIN s.links |-> s.links[i].name]} :
           IsInjective(names) /\ Absent \notin Elements(names)
    /\ Distinct(s.types, LAMBDA t : t.name)

\* The ends of an edge type are node types.
LinkRule(s) == \A l \in Elements(s.links) : {l.from, l.to} \subseteq NodeNames(s)

\* The bridge is total: every method is handled by exactly one actor.
HandlerRule(s) ==
    /\ \A a \in Elements(s.actors) : /\ Elements(a.handlers) \subseteq Methods(s)
                                     /\ IsInjective(a.handlers)
    /\ \A m \in Methods(s) : Cardinality({a \in Elements(s.actors) : Contains(a.handlers, m)}) = 1

ScreenRule(s) ==
    \A v \in Elements(s.ui) :
        LET actions == {a.id : a \in Elements(v.actions)}
        IN  /\ Distinct(v.actions, LAMBDA a : a.id)
            /\ {a.bridge : a \in Elements(v.actions)} \subseteq Methods(s)
            /\ ButtonActions[v.layout] \subseteq actions
            /\ {b.method : b \in Elements(v.bindings)} \subseteq Methods(s)
            /\ {n.action : n \in Elements(v.navigation)} \subseteq actions
            /\ {n.to : n \in Elements(v.navigation)} \subseteq ScreenIds(s)

\* Every list of fields of a spec.
FieldLists(s) ==
    {t.fields : t \in Elements(s.types)} \cup {n.fields : n \in Elements(s.nodes)}
        \cup {a.state : a \in Elements(s.actors)} \cup {m.params : m \in Elements(s.bridge)}

TypesUsed(s) ==
    {m.result : m \in Elements(s.bridge)} \cup {f.ty : f \in UNION {Elements(fs) : fs \in FieldLists(s)}}

\* References resolve; fields of a record or node type and variants are given once.
TypeRule(s) ==
    /\ \A ty \in TypesUsed(s) : ty.refs \subseteq TypeNames(s)
    /\ \A o \in Elements(s.types) \cup Elements(s.nodes) : Distinct(o.fields, LAMBDA f : f.name)
    /\ \A t \in Elements(s.types) : IsInjective(t.variants)

Valid(s) == NameRule(s) /\ LinkRule(s) /\ HandlerRule(s) /\ ScreenRule(s) /\ TypeRule(s)
=============================================================================
