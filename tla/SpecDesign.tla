----------------------------- MODULE SpecDesign -----------------------------
(***************************************************************************)
(* The two ways a project gets its AppSpec, and the graph both write it    *)
(* to: the design session, where a person's text is converted, reviewed    *)
(* and accepted (spec_design.rs), and the requirements pass, which has the *)
(* model write a spec from the goal, repairs and improves it (spec_gen.rs, *)
(* project_creation.rs); and the trace the code generators leave there.    *)
(* Two actors run them, so their writes interleave (spec_persist.rs), and  *)
(* the process may end between any two of them.                            *)
(***************************************************************************)
EXTENDS SpecGraph

CONSTANTS
    Project,        \* the name of the project
    Submissions,    \* the texts a person may submit
    Answers,        \* for a text, the specs its conversion may give
    Drafts,         \* the specs the model may give the requirements pass
    Garbage,        \* what a model says that is no spec
    MaxConversions, MaxStores,    \* bounds on what people ask for
    MaxTroubles     \* bound on calls that fail and ends of the process, together

ASSUME GarbageIsNoSpec == Garbage \notin Drafts \cup UNION {Answers[t] : t \in Submissions}

Specs   == Drafts \cup UNION {Answers[t] : t \in Submissions}

ASSUME SpecsAreTyped == \A s \in Specs : IsAppSpec(s)

GraphOf == [s \in Specs |-> Decompose(s)]
Writers == {"session", "creator"}

VARIABLES
    session,   \* the design session in memory
    saved,     \* the design_session node of the graph, Absent before there is one
    stored,    \* the nodes and edges of the project's spec in the graph
    detaches,  \* whether merging a node that is there removes its edges
    jobs,      \* per writer: the spec being stored, the next write, the nodes it has
    code,      \* what the code generator writes next, Absent when it is at rest
    conversions, stores, restarts, faults,
    mixed      \* history: the requirements pass wrote to the graph

designVars == <<session, saved, stored, detaches, jobs, code, conversions, stores, restarts, faults, mixed>>

NoSession == [started |-> FALSE, mode |-> "freeform", text |-> Absent, md |-> Absent, accepted |-> 0,
              of |-> Absent, answered |-> TRUE]
NoJob     == [spec |-> Absent, at |-> 0, ids |-> <<>>]

DesignInit ==
    /\ session = NoSession /\ saved = Absent
    /\ stored = [nodes |-> {}, edges |-> {}]
    /\ detaches \in BOOLEAN
    /\ jobs = [w \in Writers |-> NoJob] /\ code = Absent
    /\ conversions = 0 /\ stores = 0 /\ restarts = 0 /\ faults = 0
    /\ mixed = FALSE

Fault == faults + restarts < MaxTroubles /\ faults' = faults + 1
Fine  == UNCHANGED faults

-----------------------------------------------------------------------------
(* Storing a spec: its nodes are merged one by one, then its edges are     *)
(* created.  What fails is logged and passed over.                         *)

Nodes(w) == GraphOf[jobs[w].spec].nodes
Edges(w) == GraphOf[jobs[w].spec].edges

\* The anchor goes by the project's name, whatever the spec calls the app.
Stored(n) == IF n.type = "appspec" THEN [n EXCEPT !.key = Key(Project)] ELSE n
Id(n)     == <<n.type, Stored(n).key>>

\* The writer goes on at another write, with the identities it has.
Advance(w, at, ids) == jobs' = [jobs EXCEPT ![w] = [spec |-> jobs[w].spec, at |-> at, ids |-> ids]]

\* The identities by key, with that of one more node.
WithId(ids, n) == [key \in DOMAIN ids \cup {n.key} |-> IF key = n.key THEN Id(n) ELSE ids[key]]

BeginStore(w, s) ==
    /\ stores < MaxStores
    /\ stores' = stores + 1
    /\ jobs' = [jobs EXCEPT ![w] = [spec |-> s, at |-> 1, ids |-> <<>>]]

Merged(n) ==
    [nodes |-> {m \in stored.nodes : Id(m) # Id(n)} \cup {Stored(n)},
     edges |-> IF detaches THEN {e \in stored.edges : Id(n) \notin {e.from, e.to}} ELSE stored.edges]

\* A spec without its anchor is not stored at all.
MergeNode(w) ==
    LET n == Nodes(w)[jobs[w].at]
    IN  /\ jobs[w].at \in DOMAIN Nodes(w)
        /\ \/ /\ Fine
              /\ stored' = Merged(n)
              /\ Advance(w, jobs[w].at + 1, WithId(jobs[w].ids, n))
           \/ /\ Fault
              /\ stored' = stored
              /\ Advance(w, IF n.type = "appspec" THEN Len(Nodes(w)) + Len(Edges(w)) + 1 ELSE jobs[w].at + 1,
                         jobs[w].ids)

\* An edge to a node that was not stored is skipped.
CreateEdge(w) ==
    LET e   == Edges(w)[jobs[w].at - Len(Nodes(w))]
        ids == jobs[w].ids
    IN  /\ jobs[w].at - Len(Nodes(w)) \in DOMAIN Edges(w)
        /\ IF {e.from, e.to} \subseteq DOMAIN ids
           THEN \/ /\ Fine
                   /\ stored' = [stored EXCEPT !.edges = @ \cup {Edge(e.predicate, ids[e.from], ids[e.to])}]
                \/ Fault /\ stored' = stored
           ELSE Fine /\ stored' = stored
        /\ Advance(w, jobs[w].at + 1, ids)

Store(w) ==
    /\ jobs[w] # NoJob
    /\ MergeNode(w) \/ CreateEdge(w)
    /\ mixed' = (mixed \/ w = "creator")
    /\ UNCHANGED <<session, saved, detaches, code, conversions, stores, restarts>>

\* Every write of the store was tried.
Written(w) == jobs[w] # NoJob /\ jobs[w].at > Len(Nodes(w)) + Len(Edges(w))

-----------------------------------------------------------------------------
(* The design session.                                                     *)

Ready == jobs["session"] = NoJob    \* the actor handles one message at a time

\* persist_session: the node is written, or the write fails and the session goes on.
Persist(s) ==
    \/ Fine /\ saved' = [s EXCEPT !.accepted = 0]
    \/ Fault /\ saved' = saved

\* The window opens: the saved session is resumed, unless a fresh one is asked
\* for; a lookup that fails looks like a project that has none.
Start(reset) ==
    /\ Ready
    /\ \/ /\ ~reset /\ saved # Absent
          /\ Fine
          /\ session' = saved    \* no version is claimed to be accepted
          /\ saved' = saved
       \/ /\ reset \/ saved = Absent
          /\ session' = [NoSession EXCEPT !.started = TRUE]
          /\ Persist(session')
       \/ /\ ~reset /\ saved # Absent
          /\ Fault
          /\ session' = [NoSession EXCEPT !.started = TRUE]
          /\ saved' = [session' EXCEPT !.accepted = 0]
    /\ UNCHANGED <<stored, detaches, code, jobs, conversions, stores, restarts, mixed>>

\* The text is recorded and the session is open again before the model is asked.
Converting(text) ==
    [session EXCEPT !.text = text, !.mode = "freeform", !.accepted = 0, !.answered = FALSE]

Convert(text) ==
    /\ Ready /\ session.started
    /\ conversions < MaxConversions
    /\ conversions' = conversions + 1
    /\ \/ \E md \in Answers[text] \cup {Garbage} :
              /\ session' = [Converting(text) EXCEPT !.md = md, !.of = text, !.answered = TRUE]
              /\ Persist(session')
       \/ /\ Fault
          /\ session' = Converting(text)
          /\ saved' = saved
    /\ UNCHANGED <<stored, detaches, code, jobs, stores, restarts, mixed>>

Acceptable(s) == s.started /\ s.mode = "freeform" /\ s.md \notin {Absent, Garbage} /\ Valid(s.md)

\* Bug: the session is saved as decided before its graph is stored.
AcceptSavedFirst ==
    /\ Ready /\ Acceptable(session)
    /\ BeginStore("session", session.md)
    /\ saved' = [session EXCEPT !.mode = "decided", !.accepted = 0]
    /\ UNCHANGED <<session, stored, detaches, code, conversions, restarts, faults, mixed>>

\* The spec is parsed and validated again, then its graph is stored.
Accept ==
    /\ Ready /\ Acceptable(session)
    /\ BeginStore("session", session.md)
    /\ UNCHANGED <<session, saved, stored, detaches, code, conversions, restarts, faults, mixed>>

\* The session is decided whatever became of the graph.
Decide ==
    /\ Written("session")
    /\ session' = [session EXCEPT !.mode = "decided", !.accepted = @ + 1]
    /\ Persist(session')
    /\ jobs' = [jobs EXCEPT !["session"] = NoJob]
    /\ UNCHANGED <<stored, detaches, code, conversions, stores, restarts, mixed>>

Reopen ==
    /\ Ready /\ session.started
    /\ session' = [session EXCEPT !.mode = "freeform"]
    /\ Persist(session')
    /\ UNCHANGED <<stored, detaches, code, jobs, conversions, stores, restarts, mixed>>

-----------------------------------------------------------------------------
(* The requirements pass.                                                  *)

CreatorReady == jobs["creator"] = NoJob /\ code = Absent

ValidNamed(s) == Valid(s) /\ s.name = Project

\* The first answer without errors, or a later one, without errors too, that
\* rewrites it without giving up methods or screens.
Emitted == {s \in Drafts : ValidNamed(s)}

\* The pass reads nothing of the graph and writes nothing before it has a spec.
GenerateSpec ==
    /\ CreatorReady
    /\ \E s \in Emitted : BeginStore("creator", s)
    /\ UNCHANGED <<session, saved, stored, detaches, code, conversions, restarts, faults, mixed>>

Generated ==
    /\ Written("creator")
    /\ jobs' = [jobs EXCEPT !["creator"] = NoJob]
    /\ UNCHANGED <<session, saved, stored, detaches, code, conversions, stores, restarts, faults, mixed>>

-----------------------------------------------------------------------------
(* Code generation.                                                        *)

Anchor == <<"appspec", Key(Project)>>
\* One of the files the generators write; it goes by its path alone.
Artifact == Node("generated_file", Key("types.rs"), 0, NoProps)

\* Without the anchor, or a graph to ask for it, nothing is recorded.
GenerateCode ==
    /\ CreatorReady
    /\ stores < MaxStores
    /\ stores' = stores + 1
    /\ \/ Fine /\ code' = IF \E n \in stored.nodes : Id(n) = Anchor THEN "file" ELSE Absent
       \/ Fault /\ code' = Absent
    /\ UNCHANGED <<session, saved, stored, detaches, jobs, conversions, restarts, mixed>>

\* A file whose node was not stored is not linked.
StoreFile ==
    /\ code = "file"
    /\ \/ Fine /\ stored' = Merged(Artifact) /\ code' = "link"
       \/ Fault /\ stored' = stored /\ code' = Absent
    /\ UNCHANGED <<session, saved, detaches, jobs, conversions, stores, restarts, mixed>>

LinkFile ==
    /\ code = "link" /\ code' = Absent
    /\ \/ Fine /\ stored' = [stored EXCEPT !.edges = @ \cup {Edge("GENERATED_FROM", Id(Artifact), Anchor)}]
       \/ Fault /\ stored' = stored
    /\ UNCHANGED <<session, saved, detaches, jobs, conversions, stores, restarts, mixed>>

-----------------------------------------------------------------------------

\* The process ends and starts again: the graph is what is left.
Relaunch ==
    /\ faults + restarts < MaxTroubles
    /\ restarts' = restarts + 1
    /\ session' = NoSession
    /\ jobs' = [w \in Writers |-> NoJob] /\ code' = Absent
    /\ UNCHANGED <<saved, stored, detaches, conversions, stores, faults, mixed>>

DesignNext ==
    \/ \E reset \in BOOLEAN : Start(reset)
    \/ \E text \in Submissions : Convert(text)
    \/ Accept \/ Decide \/ Reopen
    \/ GenerateSpec \/ Generated \/ GenerateCode \/ StoreFile \/ LinkFile
    \/ \E w \in Writers : Store(w)
    \/ Relaunch

DesignSpec == DesignInit /\ [][DesignNext]_designVars

-----------------------------------------------------------------------------

\* What is about to be stored, by a person's accept or by the requirements
\* obeys the rules; and when its names are apart and can be spelt in a
\* type, the graph gives it back: reconstruct rebuilds the very spec, and the
\* generators read its types, methods and screens as they are and send every
\* method to the one actor that handles it (spec_graph.rs, spec_codegen.rs).
StoredSpecRoundTrips ==
    \A w \in Writers : jobs[w].at = 1 =>
        LET s == jobs[w].spec
            g == GraphOf[s]
        IN  /\ Valid(s)
            /\ Apart(s) /\ Spelt(s) =>
                /\ Reconstruct(g) = {s}
                /\ Codegen(g) = {[types |-> s.types, dispatch |-> Dispatch(g),
                                  bridge |-> s.bridge, screens |-> s.ui]}
                /\ Routed(Dispatch(g)) = Handled(s)

\* The project's graph has every node and every edge of a spec.
InGraph(s) ==
    LET Anchored(key) == IF key = Root(s) THEN Key(Project) ELSE key
        TypeOf(key)   == (CHOOSE n \in Elements(GraphOf[s].nodes) : n.key = key).type
    IN  /\ \A n \in Elements(GraphOf[s].nodes) : Stored(n) \in stored.nodes
        /\ \A e \in Elements(GraphOf[s].edges) :
              Edge(e.predicate, <<TypeOf(e.from), Anchored(e.from)>>, <<TypeOf(e.to), Anchored(e.to)>>)
                  \in stored.edges

\* A session that says decided, in memory or as a later launch will find it,
\* holds a valid spec, of the text it shows unless the last conversion got no
\* answer; and where no call failed and the requirements pass wrote nothing,
\* the project's graph holds all of that spec when its keys are distinct, whatever was accepted before,
\* and wherever the process ended (spec_design.rs accept_spec_markdown).
DecidedIsStored ==
    \A s \in {session, saved} \ {Absent} : s.mode = "decided" =>
        /\ s.md \notin {Absent, Garbage} /\ Valid(s.md)
        /\ s.of = s.text \/ ~s.answered
        /\ faults = 0 /\ ~mixed /\ Distinct(GraphOf[s.md].nodes, LAMBDA n : n.key) => InGraph(s.md)
=============================================================================
