------------------------- MODULE MCPlanOrchestrator -------------------------
EXTENDS PlanOrchestrator

\* Plans of one to three steps: a chain, a step beyond the last, two cycles, a
\* shared step named before it comes, and a step that names itself.
MCPlans ==
  { << <<>> >>,
    << <<>>, <<1>> >>, << <<3>>, <<>> >>, << <<2>>, <<1>> >>,
    << <<3, 2>>, <<>>, <<2>> >>, << <<>>, <<2>>, <<1>> >>, << <<2>>, <<3>>, <<1>> >> }
=============================================================================
