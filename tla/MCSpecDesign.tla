---------------------------- MODULE MCSpecDesign ----------------------------
(***************************************************************************)
(* Specs for the design session: one app of two actors and two screens,    *)
(* and what it becomes by a slip and by one name that two things share or  *)
(* that cannot be read; and two smaller apps to store over it.             *)
(***************************************************************************)
EXTENDS SpecDesign

Empty(name) == [name |-> name, types |-> <<>>, nodes |-> <<>>, links |-> <<>>, actors |-> <<>>,
                bridge |-> <<>>, ui |-> <<>>]

Actor(name, handlers, state)   == [name |-> name, handlers |-> handlers, state |-> state, uses |-> <<>>]
Method(name, params, result)   == [method |-> name, params |-> params, result |-> result]
Layout(kind, action, children) == [kind |-> kind, action |-> action, children |-> children]
Screen(id, layout) == [id |-> id, actions |-> <<>>, bindings |-> <<>>, navigation |-> <<>>, layout |-> layout]

Opener == Layout("vstack", Absent, <<Layout("button", "open", <<>>)>>)

Atlas ==
    [name   |-> "app",
     types  |-> <<[name |-> "Layer", kind |-> "record", variants |-> <<>>,
                   fields |-> <<Field("title", Plain), Field("style", Ref("Style"))>>],
                  [name |-> "Style", kind |-> "enum", fields |-> <<>>, variants |-> <<"line", "fill">>]>>,
     nodes  |-> <<[name |-> "place", fields |-> <<Field("title", Plain)>>]>>,
     links  |-> <<[name |-> "near", from |-> "place", to |-> "place"]>>,
     actors |-> <<Actor("store", <<"save">>, <<Field("dirty", Plain)>>), Actor("query", <<"list">>, <<>>)>>,
     bridge |-> <<Method("list", <<>>, ListOf(Ref("Layer"))),
                  Method("save", <<Field("layer", Ref("Layer")), Field("force", Plain)>>, Plain)>>,
     ui     |-> <<[id |-> "main", actions |-> <<[id |-> "open", bridge |-> "list"]>>,
                   bindings |-> <<[field |-> "layers", method |-> "list"]>>,
                   navigation |-> <<[action |-> "open", to |-> "detail"]>>, layout |-> Opener],
                  Screen("detail", Layout("text", Absent, <<>>))>>]

\* A method two actors handle, a type nobody defines.
Slips ==
    {[Atlas EXCEPT !.actors[2].handlers = <<"list", "save">>],
     [Atlas EXCEPT !.bridge[1].result = Ref("Map")]}

\* Valid, and of another name, with a name that two things share, or with a
\* name that cannot be read in a type.
Shared ==
    {[Atlas EXCEPT !.name = "other"],
     [Atlas EXCEPT !.nodes[1].name = "Layer", !.links = <<>>],
     [Atlas EXCEPT !.types[2].name = "Map Style", !.types[1].fields[2].ty = Ref("Map Style")]}

Small  == [Empty("app") EXCEPT !.actors = <<Actor("store", <<"list">>, <<>>)>>,
                               !.bridge = <<Method("list", <<>>, Plain)>>]

MCSubmissions   == {"atlas", "small"}
MCAnswers == [atlas |-> {Atlas} \cup Slips \cup Shared, small |-> {Small}]
MCDrafts  == {Empty("app"), Empty("other")}
MCLayouts == {Opener, Layout("button", "open", <<>>), Layout("text", Absent, <<>>)}
MCDepth == [l \in MCLayouts |-> Len(l.children)]
MCSpellable == {"Layer", "Style", "Map"}
=============================================================================
