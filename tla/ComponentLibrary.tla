-------------------------- MODULE ComponentLibrary --------------------------
(***************************************************************************)
(* A library of ESP-IDF components and the designs applied to it: opening  *)
(* a composition, writing the stubs its plan asks for, adding, filling and *)
(* removing a component, and the REQUIRES a person writes between them     *)
(* (idf_projects.rs and the idf_ tools of build_manager.rs).               *)
(*                                                                         *)
(* A component is a directory with a manifest, its CMakeLists.txt, and     *)
(* code, which is a stub until somebody fills it.  The manifest is the     *)
(* first file an addition writes, so a write that fails later leaves it.   *)
(***************************************************************************)
EXTENDS CompositionGraph

CONSTANTS
    Names,        \* the names components are asked for by
    IdentOf,      \* the directory a name becomes: lower case, the rest `_'
    Buses,        \* the buses a driver can be written for
    Texts,        \* the designs a composition file may state when it is opened
    Revisions,    \* the designs a person may change it to
    MaxEdits,     \* bound on such changes
    MaxOrders     \* bound on additions, removals and REQUIRES by hand

\* A directory's name has no `-' left in it, and what a file states is a design.
ASSUME LibraryAssumption ==
    /\ Names \subseteq DOMAIN IdentOf
    /\ \A n \in Names : ComponentIdent[IdentOf[n]] = IdentOf[n]
    /\ \A d \in Texts \cup Revisions : IsDesign(d)

Idents        == {IdentOf[n] : n \in Names}
Framework     == UNION {Frameworks[f] : f \in DOMAIN Frameworks}
Code          == {"none", "part", "stub", "filled"}
WriteOutcomes == {"done", "torn", "manifest", "failed"}

NoReport == [about |-> {}, added |-> {}, errors |-> {}, problems |-> {}]

VARIABLES
    text,       \* the design the open composition file states, a set of at most one
    accepted,   \* the design last accepted from it, a set of at most one
    library,    \* each component directory: its manifest and its code
    requires,   \* which component's manifest names which other in its REQUIRES
    report,     \* the answer to the last design applied, while the library is as it left it
    edits, orders

libraryVars == <<text, accepted, library, requires, report, edits, orders>>

Absent  == [manifest |-> FALSE, code |-> "none"]
Shipped == [manifest |-> TRUE, code |-> "filled"]

\* component_names: the directories with a manifest, by the name of the directory.
ComponentNames == {c \in Idents : library[c].manifest}

LibraryInit ==
    /\ text \in {{d} : d \in Texts}
    /\ accepted = {}
    /\ library = [c \in Idents |-> IF c \in Framework THEN Shipped ELSE Absent]
    /\ requires = {}
    /\ report = NoReport
    /\ edits = 0
    /\ orders = 0

-----------------------------------------------------------------------------
(* The composition file.                                                   *)

\* The file is opened: a design that does not hold together is refused with
\* all its problems, and the file stays as it is.
Open ==
    /\ \E d \in text : Valid(d)
    /\ accepted' = text
    /\ text' = {}
    /\ UNCHANGED <<library, requires, report, edits, orders>>

Edit(d) ==
    /\ edits < MaxEdits
    /\ text' = {d}
    /\ edits' = edits + 1
    /\ UNCHANGED <<accepted, library, requires, report, orders>>

-----------------------------------------------------------------------------
(* Applying a design.                                                      *)

\* What a design asks of a library that has the given names.
Published(d)     == {u \in Components(d) : u.source = "published"}
Shaped(d)        == {u \in Components(d) \ Published(d) : u.role # None}
Conflicts(d, has) == {u \in Published(d) : u.registry = None \/ u.id \in has}

\* Bug: a component the design marks as a stub is always written.
PresentUnlessStub(d, has) == {u \in Shaped(d) : u.id \in has /\ u.source # "stub"}

Present(d, has)  == {u \in Shaped(d) : u.id \in has}
Claimed(d, has)  == {u \in Shaped(d) \ Present(d, has) : u.source = "existing"}
ToAdd(d, has)    == Shaped(d) \ (Present(d, has) \cup Claimed(d, has))

\* Bug: a component the library does not have is passed over in silence.
PlanProblemsSilent(d, has) == IdsOf(Conflicts(d, has))

PlanProblems(d, has) ==
    IdsOf(Conflicts(d, has) \cup Claimed(d, has) \cup (Components(d) \ (Published(d) \cup Shaped(d))))

\* component_files and the guard of add_component: what can be written at all.
Writable(name, kind, bus) ==
    /\ name \in Names
    /\ IdentOf[name] \notin Framework
    /\ kind = "driver" => bus \in Buses

\* The component after an addition that got as far as outcome: nothing, the
\* manifest, some of the files, all of them.
Written(c, outcome) ==
    CASE outcome = "failed"   -> library[c]
      [] outcome = "manifest" -> [library[c] EXCEPT !.manifest = TRUE]
      [] outcome = "torn"     -> [manifest |-> TRUE, code |-> "part"]
      [] outcome = "done"     -> [manifest |-> TRUE, code |-> "stub"]

\* A manifest that is written anew names none of the library's components.
Forgotten(cs, outcome) == {p \in requires : p[1] \in cs /\ outcome[p[1]] # "failed"}

\* The stubs a design has written, and where they go.
Stubs(d)   == {u \in ToAdd(d, ComponentNames) : Writable(u.id, u.role, u.bus)}
Targets(d) == {IdentOf[u.id] : u \in Stubs(d)}

\* Each stub is written or reported, one that fails stops no other, and the
\* answer carries the plan's own problems.
ApplyDesign(d, outcome) ==
    LET added == {u \in Stubs(d) : outcome[IdentOf[u.id]] = "done"}
    IN  /\ Valid(d)
        /\ library' = [c \in Idents |-> IF c \in Targets(d) THEN Written(c, outcome[c]) ELSE library[c]]
        /\ requires' = requires \ Forgotten(Targets(d), outcome)
        /\ report' = [about    |-> {d},
                      added    |-> IdsOf(added),
                      errors   |-> IdsOf(ToAdd(d, ComponentNames) \ added),
                      problems |-> PlanProblems(d, ComponentNames)]
        /\ UNCHANGED <<text, accepted, edits, orders>>

Apply == \E d \in accepted : \E outcome \in [Targets(d) -> WriteOutcomes] : ApplyDesign(d, outcome)

-----------------------------------------------------------------------------
(* One component at a time.                                                *)

Request ==
    /\ orders < MaxOrders
    /\ orders' = orders + 1
    /\ report' = NoReport

\* idf_add_component: a component by that name that is there already is
\* written over.
AddComponent(name, kind, bus, outcome) ==
    /\ Request
    /\ Writable(name, kind, bus)
    /\ library' = [library EXCEPT ![IdentOf[name]] = Written(IdentOf[name], outcome)]
    /\ requires' = requires \ Forgotten({IdentOf[name]}, [c \in Idents |-> outcome])
    /\ UNCHANGED <<text, accepted, edits>>

\* The components that stay and name c in a REQUIRES.
RequiredBy(c) == {b \in ComponentNames \ {c} : <<b, c>> \in requires}

\* What an attempt to delete a directory may leave: any of its files.
Remains(c) ==
    [manifest : {library[c].manifest, FALSE},
     code : {"none", IF library[c].code = "none" THEN "none" ELSE "part"}]

RemoveComponent(c) ==
    /\ Request
    /\ library[c] # Absent
    /\ c \notin Framework
    /\ RequiredBy(c) = {}
    /\ \E left \in Remains(c) : library' = [library EXCEPT ![c] = left]
    /\ requires' = {p \in requires : library'[p[1]].manifest}
    /\ UNCHANGED <<text, accepted, edits>>

\* idf_component_edit fills the files that are there, whatever state they are in.
Fill(c) ==
    /\ library[c].code # "none"
    /\ c \notin Framework
    /\ library' = [library EXCEPT ![c].code = "filled"]
    /\ report' = NoReport
    /\ UNCHANGED <<text, accepted, requires, edits, orders>>

\* A person names one component of the library in the manifest of another.
Require(b, c) ==
    /\ Request
    /\ {b, c} \subseteq ComponentNames /\ b # c
    /\ requires' = requires \cup {<<b, c>>}
    /\ UNCHANGED <<text, accepted, library, edits>>

LibraryNext ==
    \/ Open
    \/ \E d \in Revisions : Edit(d)
    \/ Apply
    \/ \E name \in Names, kind \in {"driver", "library"}, bus \in Buses, o \in WriteOutcomes :
           AddComponent(name, kind, bus, o)
    \/ \E c \in Idents : RemoveComponent(c) \/ Fill(c)
    \/ \E b, c \in Idents : Require(b, c)

LibrarySpec == LibraryInit /\ [][LibraryNext]_libraryVars

-----------------------------------------------------------------------------
(* What the manifest of an application names.                              *)

\* The directories its scaffold writes beside main: the shared types with the
\* first unit, and one per actor or stage.
Emitted(d) ==
    {"messages" : u \in Composing(d)} \cup {ComponentIdent[u.id] : u \in Composing(d)}

RequiresBlock(d) ==
    Frameworks[d.framework] \cup Emitted(d)
        \cup {ComponentIdent[u.id] : u \in Components(d) \ Published(d)}

-----------------------------------------------------------------------------

\* The shapes of the variables.
LibraryTypeOK ==
    /\ library \in [Idents -> [manifest : BOOLEAN, code : Code]]
    /\ requires \subseteq Idents \X Idents
    /\ edits \in Nat /\ orders \in Nat

-----------------------------------------------------------------------------
(* What the wiring of a design says, by definition.                        *)

\* Some units can be followed for ever without leaving them.
HasCycle(d) ==
    \E S \in SUBSET Ids(d) : S # {} /\ \A n \in S : \E m \in S : <<n, m>> \in Edges(d)

\* c is a path of the wiring that ends where it began.
IsCycle(d, c) ==
    /\ Len(c) > 1
    /\ c[1] = c[Len(c)]
    /\ \A i \in 1 .. Len(c) - 1 : <<c[i], c[i + 1]>> \in Edges(d)

\* The search for a cycle (find_cycle), which keeps what earlier walks finished,
\* finds one exactly when the wiring of the units has one, and reports its path.
CycleIffReported ==
    \A d \in text : Ends(d) \subseteq Ids(d) =>
        LET c == FindCycle(d)
        IN  IF HasCycle(d) THEN IsCycle(d, c) ELSE c = <<>>

\* No unit has the name of a node that is no unit: the anchor, the board, a facet,
\* a mailbox.
Apart(d) ==
    Ids(d) \cap ({"composition", "board"} \cup DOMAIN d.facets \cup Elements(Mailboxes(d))) = {}

\* composition_graph.rs:16: a design that holds together, and whose units are not
\* named as another node is, comes back from its graph as it was stored.
RoundTripsApart ==
    \A d \in text : Valid(d) /\ Apart(d) => Reconstruct(Decompose(d)) = {d}

\* The names of the components a design asks for are names of directories.
Spelt(d) == \A u \in Components(d) : u.id \in Names => IdentOf[u.id] = u.id

\* Applying a design, for the first time or again after any number of
\* additions, failures and edits, writes over no component somebody filled
\* (component_plan: present is the idempotent case).
DesignKeepsWork ==
    [][\A c \in ComponentNames :
           library[c].code = "filled" /\ library'[c].code # "filled" =>
               ~((\A d \in accepted : Spelt(d)) /\ Apply)]_libraryVars

\* Both conversions of a name agree: what is written is what is required.
Agreed(d) == \A u \in Components(d) : u.id \in Names => ComponentIdent[u.id] = IdentOf[u.id]

\* When a design was applied and the answer carries no error and no problem, the
\* manifest of the application it describes requires nothing that is not there.
RequiresResolve ==
    \A d \in report.about :
        Agreed(d) /\ report.errors \cup report.problems = {} =>
            RequiresBlock(d) \subseteq Framework \cup Emitted(d) \cup ComponentNames

\* Whatever is added over, removed in part or designed, no component's REQUIRES
\* is left naming a component that is gone (remove_component).
RequiredStays == \A p \in requires : p[1] \in ComponentNames /\ p[2] \in ComponentNames

=============================================================================
