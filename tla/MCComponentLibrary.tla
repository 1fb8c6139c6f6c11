------------------------ MODULE MCComponentLibrary ------------------------
(***************************************************************************)
(* Designs for the library: every wiring of three stages, and actors that  *)
(* reach one driver, with the names, sources and declarations that the     *)
(* rules and the graph tell apart.                                         *)
(***************************************************************************)
EXTENDS ComponentLibrary

MCNames == {"sps30", "SPS30", "air-quality", "filter"}
MCIdentOf == [sps30 |-> "sps30", SPS30 |-> "sps30", filter |-> "filter"] @@ ("air-quality" :> "air_quality")
MCComponentIdent ==
    [n \in {"sps30", "SPS30", "air_quality", "filter", "hub", "ui", "a", "b", "c", "power", "board", "Tick"} |-> n]
        @@ ("air-quality" :> "air_quality")
MCTypeName ==
    [Tick |-> "Tick", tick |-> "Tick", inbox |-> "Inbox", Reading |-> "Reading", frames |-> "Frames"]
        @@ ("" :> "")

Unit(id, kind) ==
    [f \in UnitFields |-> CASE f = "id" -> id [] f = "kind" -> kind
                             [] f \in {"uses", "sends_to"} -> <<>> [] OTHER -> None]

Design(framework, units, wiring) ==
    [prose |-> "what it does", framework |-> framework, board |-> "esp32s3", facts |-> <<>>,
     resources |-> <<>>, facets |-> <<>>, messages |-> <<>>, units |-> units, wiring |-> wiring]

\* Three stages wired in every way.
Stage(id) == [Unit(id, "stage") EXCEPT !.pulls = "frames", !.pushes = "frames"]
Stages == <<Stage("a"), Stage("b"), Stage("c")>>
Wires == <<<<"a", "a">>, <<"a", "b">>, <<"a", "c">>, <<"b", "a">>, <<"b", "b">>, <<"b", "c">>,
           <<"c", "a">>, <<"c", "b">>, <<"c", "c">>>>
Dataflows == {Design("ramen", Stages, SelectSeq(Wires, LAMBDA w : w \in ws)) :
                  ws \in SUBSET Elements(Wires)}

\* An actor that reaches a driver of the library, and one that shows what it reads.
Hub(id, message, state, uses) ==
    [Unit(id, "actor") EXCEPT !.message = message, !.state = state, !.uses = uses, !.sends_to = <<"ui">>]
Ui == [Unit("ui", "actor") EXCEPT !.message = "Reading"]
Driver(name, source) ==
    [Unit(name, "component") EXCEPT !.role = "driver", !.source = source,
                                    !.bus = IF source = "published" THEN None ELSE "i2c",
                                    !.registry = IF source = "published" THEN "upstream" ELSE None]
Meter(id, message, state, name, source, uses) ==
    Design("actors", <<Hub(id, message, state, uses), Ui, Driver(name, source)>>, <<<<id, "ui">>>>)

Named == {Meter("hub", "Tick", None, name, source, <<name>>) :
              name \in {"sps30", "SPS30", "air-quality"}, source \in {"existing", "stub", "published"}}

Resource(name, via) == [name |-> name, roles |-> <<"display">>, via |-> via, address |-> None]
Inbox == [id |-> "inbox", kinds |-> <<"tick", "Reading">>, fields |-> <<>>]
Reading == [id |-> "Reading", kinds |-> <<>>, fields |-> <<"pm">>]

Declared ==
    {[Meter(id, message, state, "sps30", "existing", uses)
          EXCEPT !.resources = resources, !.messages = messages, !.facets = facets,
                 !.facts = <<[device |-> "sps30", address |-> "0x69"]>>] :
        id \in {"hub", "power", "board"}, message \in {"Tick", "inbox"}, state \in {None, "average"},
        uses \in {<<"sps30">>, <<"sps30", "display">>},
        resources \in {<<>>, <<Resource("display", "board")>>,
                       <<Resource("display", "board"), Resource("sps30", "library")>>},
        messages \in {<<>>, <<Inbox>>, <<Inbox, Reading>>},
        facets \in {<<>>, [power |-> "10 mAh"]}}

\* A design that uses everything, and what a slip of the pen makes of it: each
\* breaks one rule.
Whole ==
    [Meter("hub", "inbox", "average", "sps30", "stub", <<"sps30", "display">>)
        EXCEPT !.resources = <<Resource("display", "board"), Resource("sps30", "library")>>,
               !.messages = <<Inbox, Reading>>,
               !.facts = <<[device |-> "sps30", address |-> "0x69"]>>]

Slips ==
    {[Whole EXCEPT !.units = @ \o <<Ui>>], [Whole EXCEPT !.units[3].id = "hub"],
     [Whole EXCEPT !.framework = "ramen"], [Whole EXCEPT !.units = @ \o <<Unit("a", "stage")>>],
     [Whole EXCEPT !.units[2].message = None], [Whole EXCEPT !.units = <<>>],
     [Whole EXCEPT !.wiring = @ \o <<<<>>>>], [Whole EXCEPT !.wiring = @ \o <<<<"hub", "gone">>>>],
     [Whole EXCEPT !.wiring = @ \o <<<<"hub", "sps30">>>>], [Whole EXCEPT !.units[1].sends_to = <<"gone">>],
     [Whole EXCEPT !.units[2].uses = <<"gone">>], [Whole EXCEPT !.units[2].uses = <<"hub">>],
     [Whole EXCEPT !.units[3].role = None], [Whole EXCEPT !.units[3].role = "library"],
     [Whole EXCEPT !.units[3].bus = None], [Whole EXCEPT !.units[3].source = "published"],
     [Whole EXCEPT !.units[3].registry = "upstream"], [Whole EXCEPT !.units[3].state = "average"],
     [Whole EXCEPT !.facts[1].device = "ui"], [Whole EXCEPT !.facts[1].device = "gone"],
     [Whole EXCEPT !.messages[1].id = ""], [Whole EXCEPT !.messages[2].id = "inbox"],
     [Whole EXCEPT !.messages[1].fields = <<"pm">>], [Whole EXCEPT !.messages[1].kinds = <<"tick">>],
     [Whole EXCEPT !.messages[1].kinds = <<"tick", "Tick">>], [Whole EXCEPT !.messages[1].kinds = <<"tick", "">>],
     [Whole EXCEPT !.messages[2].fields = <<"pm", "pm">>], [Whole EXCEPT !.messages[1].id = "tick"],
     [Whole EXCEPT !.messages[2].id = "frames"], [Whole EXCEPT !.resources[1].name = "sps30"],
     [Whole EXCEPT !.messages[2].fields = <<"pm 2.5">>],
     [Whole EXCEPT !.resources[1].name = "real time clock", !.units[1].uses = <<"sps30", "real time clock">>],
     [Whole EXCEPT !.resources[1].roles = <<>>], [Whole EXCEPT !.resources[1].roles = <<"dispaly">>],
     [Whole EXCEPT !.resources[1].via = None], [Whole EXCEPT !.resources[2].via = "board"],
     [Whole EXCEPT !.resources[1].via = "library"], [Whole EXCEPT !.resources[2].address = "0x70"]}

MCTexts == Dataflows \cup Named \cup Declared \cup Slips \cup {Whole}
MCRevisions == {Meter("hub", "Tick", None, "sps30", "stub", <<"sps30">>),
                Meter("hub", "Tick", None, "filter", "existing", <<"filter">>)}
=============================================================================
