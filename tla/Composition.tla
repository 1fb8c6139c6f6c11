---------------------------- MODULE Composition ----------------------------
(***************************************************************************)
(* The design of an ESP-IDF application and the pure functions over it:    *)
(* the rules a design is held to before anything is built from it          *)
(* (application_spec.rs), its decomposition into a graph and back          *)
(* (composition_graph.rs), the plan it makes for a component library, and  *)
(* the names its manifest requires (idf_projects.rs).                      *)
(*                                                                         *)
(* A design is a record of sequences, as the file lists them.  A name is a *)
(* string with no dot in it, an absent value is None, prose stands for all *)
(* free text a definition carries, and a wiring entry that is not written  *)
(* `from -> to' is the empty sequence.                                     *)
(***************************************************************************)
EXTENDS PropertyGraph

CONSTANTS
    None,            \* an Option that is None, or text that is empty
    TypeName,        \* the C++ type a message's name becomes, None for no name
    Capabilities,    \* the capability paths the vocabulary knows
    Identifiers,     \* the names a resource may have: letters, digits, `_', `-'
    FieldNames,      \* the names the field of a message may have: those of C++
    ComponentIdent   \* the component name a unit's id becomes: `-' is `_'

ASSUME NoNameNoType == TypeName[None] = None

Frameworks == [actors |-> {"actors", "toolkit"}, ramen |-> {"ramen"}]
FacetOrder == <<"power", "storage", "network", "security">>

UnitKind(framework) == IF framework = "actors" THEN "actor" ELSE "stage"

Units(d)          == Elements(d.units)
Ids(d)            == {u.id : u \in Units(d)}
Components(d)     == {u \in Units(d) : u.kind = "component"}
Composing(d)      == Units(d) \ Components(d)
Drivers(d)        == {u \in Components(d) : u.role = "driver"}
IdsOf(units)      == {u.id : u \in units}
ResourceNames(d)  == {r.name : r \in Elements(d.resources)}
Edges(d)          == {w \in Elements(d.wiring) : w # <<>>}
Ends(d)           == UNION {Elements(w) : w \in Edges(d)}
Said(rule, names) == {<<rule, n>> : n \in names}

\* The names an element of s repeats.
Twice(s, Key(_)) ==
    {Key(s[i]) : i \in {j \in DOMAIN s : \E k \in 1 .. j - 1 : Key(s[k]) = Key(s[j])}}

-----------------------------------------------------------------------------
(* The rules of a design.  Each answers with what breaks it.               *)

FrameworkRule(d) ==
    Said("mixed", {u.id : u \in {v \in Composing(d) : v.kind # UnitKind(d.framework)}})
        \cup Said("declared twice", Twice(d.units, LAMBDA u : u.id))
        \cup Said("no units", IF d.units = <<>> THEN {None} ELSE {})

ShapeRule(d) ==
    Said("no message", IdsOf({u \in Units(d) : u.kind = "actor" /\ u.message = None}))
        \cup Said("no port",
                  IdsOf({u \in Units(d) : /\ u.kind = "stage"
                                          /\ u.pulls = None
                                          /\ u.pushes = None}))

Decls(d)     == {m \in Elements(d.messages) : TypeName[m.id] # None}
Sets(d)      == {m \in Decls(d) : m.kinds # <<>>}
TypeOf(m)    == TypeName[m.id]
KindsOf(m)   == {TypeName[k] : k \in Elements(m.kinds)}
SetIds(d)    == {TypeOf(m) : m \in Sets(d)}
Inboxes(d)   == {TypeName[u.message] : u \in {v \in Units(d) : v.kind = "actor"}}
PortTypes(d) ==
    UNION {{TypeName[u.pulls], TypeName[u.pushes]} : u \in {v \in Units(d) : v.kind = "stage"}}

MessageRule(d) ==
    Said("no id", IF Decls(d) # Elements(d.messages) THEN {None} ELSE {})
        \cup Said("declared twice", Twice(d.messages, TypeOf) \ {None})
        \cup Said("kinds and fields", {m.id : m \in {s \in Sets(d) : s.fields # <<>>}})
        \cup Said("a set of one", {m.id : m \in {s \in Sets(d) : Len(s.kinds) < 2}})
        \cup Said("no kind", {m.id : m \in {s \in Sets(d) : None \in KindsOf(s)}})
        \cup Said("kind twice",
                  {m.id : m \in {s \in Sets(d) : Twice(s.kinds, LAMBDA k : TypeName[k]) \ {None} # {}}})
        \cup Said("no field", {m.id : m \in {t \in Decls(d) : ~(Elements(t.fields) \subseteq FieldNames)}})
        \cup Said("field twice",
                  {m.id : m \in {t \in Decls(d) : Twice(t.fields, LAMBDA f : f) # {}}})

\* The names that become a struct: kinds, and what actors and stages name that is no set.
StructNames(d) ==
    UNION {KindsOf(m) : m \in Elements(d.messages)}
        \cup ((Inboxes(d) \cup PortTypes(d)) \ (SetIds(d) \cup {None}))

NamespaceRule(d) == Said("set and struct", SetIds(d) \cap StructNames(d))

EdgeRule(d) ==
    Said("not an edge", IF <<>> \in Elements(d.wiring) THEN {None} ELSE {})
        \cup Said("wired to no unit", Ends(d) \ Ids(d))
        \cup Said("wired component", Ends(d) \cap IdsOf(Components(d)))
        \cup Said("sends to no unit", UNION {Elements(u.sends_to) : u \in Units(d)} \ Ids(d))
        \cup Said("uses no device",
                  UNION {Elements(u.uses) : u \in Units(d)}
                      \ (IdsOf(Components(d)) \cup (ResourceNames(d) \ Ids(d))))

ComponentRule(d) ==
    LET Breaking(P(_)) == IdsOf({u \in Components(d) : P(u)})
    IN  Said("no role", Breaking(LAMBDA u : u.role = None))
            \cup Said("no bus", Breaking(LAMBDA u : /\ u.role = "driver"
                                                    /\ u.source # "published"
                                                    /\ u.bus = None))
            \cup Said("library on a bus", Breaking(LAMBDA u : u.role = "library" /\ u.bus # None))
            \cup Said("no registry", Breaking(LAMBDA u : u.source = "published" /\ u.registry = None))
            \cup Said("not published", Breaking(LAMBDA u : /\ u.source \in {"existing", "stub"}
                                                           /\ u.registry # None))
            \cup Said("composes", Breaking(LAMBDA u : \/ \E f \in {"message", "state", "pulls", "pushes"} :
                                                            u[f] # None
                                                      \/ u.sends_to \o u.uses # <<>>))

FactRule(d) == Said("no driver", {f.device : f \in Elements(d.facts)} \ IdsOf(Drivers(d)))

\* What something else in the design names.
Referenced(d) ==
    Ends(d) \cup UNION {Elements(u.sends_to \o u.uses) : u \in Units(d)}
        \cup {f.device : f \in Elements(d.facts)}

UnusedRule(d) ==
    Said("unused unit", Ids(d) \ Referenced(d))
        \cup Said("unused set", {m.id : m \in {s \in Sets(d) : TypeOf(s) \notin Inboxes(d)}})
        \cup Said("unused type",
                  {m.id : m \in {t \in Decls(d) \ Sets(d) :
                       TypeOf(t) \notin Inboxes(d) \cup PortTypes(d)
                                            \cup UNION {KindsOf(s) : s \in Elements(d.messages)}}})

ResourceRule(d) ==
    LET Breaking(P(_)) == {r.name : r \in {x \in Elements(d.resources) : P(x)}}
    IN  Said("no name", ResourceNames(d) \ Identifiers)
            \cup Said("declared twice", Twice(d.resources, LAMBDA r : r.name))
            \cup Said("no capability", Breaking(LAMBDA r : r.roles = <<>>))
            \cup Said("unknown capability", Breaking(LAMBDA r : ~(Elements(r.roles) \subseteq Capabilities)))
            \cup Said("not reached", Breaking(LAMBDA r : r.via = None))
            \cup Said("shadowed", Breaking(LAMBDA r : r.via = "board" /\ r.name \in Ids(d)))
            \cup Said("no driver", Breaking(LAMBDA r : /\ r.via \in {"library", "published"}
                                                       /\ r.name \notin IdsOf(Drivers(d))))
            \cup Said("two addresses",
                      Breaking(LAMBDA r : \E i \in DOMAIN d.facts :
                          /\ i = SelectInSeq(d.facts, LAMBDA f : f.device = r.name)
                          /\ None \notin {d.facts[i].address, r.address}
                          /\ d.facts[i].address # r.address))

\* A device has one owner: a unit may use it only if no other does.
OwnerRule(d) ==
    Said("not one owner",
         {n \in ResourceNames(d) :
             Cardinality({i \in DOMAIN d.units : n \in Elements(d.units[i].uses)}) # 1})

-----------------------------------------------------------------------------
(* The search for a cycle: depth first from each unit in turn, with the    *)
(* nodes already finished carried from one walk to the next.               *)

\* Where the wiring leads from a node, in its order.
Successors(d, node) ==
    LET out[i \in 0 .. Len(d.wiring)] ==
            IF i = 0 THEN <<>>
            ELSE IF d.wiring[i] # <<>> /\ d.wiring[i][1] = node
                 THEN Append(out[i - 1], d.wiring[i][2])
                 ELSE out[i - 1]
    IN  out[Len(d.wiring)]

\* A walk goes through a list of nodes, below the path that led to it.
CycleFrom(d, units) ==
    LET Nodes == Ids(d) \cup Ends(d)
        Walks == [left : Seq(Nodes), path : Seq(Nodes), done : SUBSET Nodes, cycle : Seq(Nodes)]
        walk[s \in Walks] ==
            IF s.left = <<>> THEN s
            ELSE LET n == Head(s.left)
                     place == CHOOSE i \in DOMAIN s.path : s.path[i] = n
                 IN  IF n \in Elements(s.path)
                     THEN [s EXCEPT !.cycle = Append(SubSeq(s.path, place, Len(s.path)), n)]
                     ELSE IF n \in s.done THEN walk[[s EXCEPT !.left = Tail(s.left)]]
                     ELSE LET below == walk[[s EXCEPT !.left = Successors(d, n),
                                                      !.path = Append(s.path, n)]]
                          IN  IF below.cycle # <<>> THEN below
                              ELSE walk[[s EXCEPT !.left = Tail(s.left), !.done = below.done \cup {n}]]
    IN  walk[[left |-> [i \in DOMAIN units |-> units[i].id], path |-> <<>>, done |-> {},
              cycle |-> <<>>]].cycle

\* Bug: only the first unit is tried.
FindCycleFirst(d) == CycleFrom(d, SubSeq(d.units, 1, 1))

FindCycle(d) == CycleFrom(d, d.units)

CycleRule(d) ==
    LET cycle == FindCycle(d)
    IN  IF d.framework = "ramen" /\ cycle # <<>> THEN Said("cycle", Elements(cycle)) ELSE {}

\* Every broken rule at once, as validate answers.
Problems(d) ==
    UNION {FrameworkRule(d), ShapeRule(d), MessageRule(d), NamespaceRule(d), EdgeRule(d), CycleRule(d),
           ComponentRule(d), FactRule(d), UnusedRule(d), ResourceRule(d), OwnerRule(d)}

Valid(d) == Problems(d) = {}
=============================================================================
