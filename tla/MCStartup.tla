------------------------------ MODULE MCStartup ------------------------------
EXTENDS StartupPhases

\* build_startup_phases
MCChain ==
  << {"graph_init"},
     {"embedder_init", "mcp_bootstrap", "platform_bootstrap", "project_sync_init",
      "project_analyzer_init", "project_query_init"},
     {"mcp_connect", "project_sync", "project_analysis", "llm_config"},
     {"intents_bootstrap_init", "intents_bootstrap"},
     {"register_tools"} >>
MCAsync == {"project_sync", "project_analysis", "llm_config", "intents_bootstrap"}
MCSerial == {1, 5}
MCConfigurations == {{}, {"servers", "intents", "strategy"}}
=============================================================================
