--------------------------- MODULE MCConversation --------------------------
(***************************************************************************)
(* Two projects, one of them in a folder that wraps it, with three systems *)
(* between them; three intents: one that needs a state, one that needs an  *)
(* approval, one that makes a plan.                                        *)
(***************************************************************************)
EXTENDS Conversation

MCDirs == {"outer", "p", "q"}
MCSubdirs == [d \in MCDirs |-> IF d = "outer" THEN {"p"} ELSE {}]

System(type, path, name, project) ==
  [type |-> type, path |-> path, name |-> name, project |-> project, dotted |-> TRUE]
Cargo(project) == System(<<"cargo">>, <<>>, <<"cargo", "toml">>, project)
Web == System(<<"npm">>, <<"web">>, <<"npm", "web", "package", "json">>, <<"front">>)
Site == System(<<"npm">>, <<"site">>, <<"npm", "site", "package", "json">>, <<"tool">>)
MCSystems ==
  [d \in MCDirs |-> CASE d = "p" -> <<Cargo(<<"core">>), Web>> [] d = "q" -> <<Site>>
                      [] OTHER -> <<>>]
MCScopes == {<<>>, <<"web">>}
MCNodeTypes == {<<"npm">>}

Intent(name, pattern, priority, needs, approval, handler) ==
  [name |-> <<name>>, patterns |-> {pattern}, description |-> <<name, "the", "project">>,
   priority |-> priority, needs |-> needs, approval |-> approval, handler |-> handler]
MCIntents ==
  <<Intent("compile", <<"build">>, 5, {"synced"}, FALSE, "BuildOrchestrator"),
    Intent("deploy", <<"build", "release">>, 8, {}, TRUE, "BuildOrchestrator"),
    Intent("change", <<"add">>, 5, {}, FALSE, "PlanOrchestrator")>>
MCQueries ==
  {<<"build", "all">>, <<"build", "tool">>, <<"build", "release">>, <<"add", "screen">>, <<"ship", "it">>}
MCSimilar(words) == IF words = <<"ship", "it">> THEN {<<"deploy">>} ELSE {}
MCCallLists == {<<"search", "overview">>, <<"build", "open">>}
=============================================================================
