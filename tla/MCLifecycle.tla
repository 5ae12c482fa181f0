----------------------------- MODULE MCLifecycle -----------------------------
(* Two requests, two lives of one process, and an environment right or wrong  *)
(* in each setting, in either spelling.                                       *)
EXTENDS Lifecycle

MCNormalised ==
    [text \in {"ollama", "Ollama ", "openai", "OpenAI", "azure", "keyword", "LLM", "llm", ""} |->
        CASE text = "Ollama " -> "ollama"
          [] text = "OpenAI" -> "openai"
          [] text = "LLM" -> "llm"
          [] OTHER -> text]

MCEnvironments ==
    [llm_provider : {"ollama", "Ollama ", "OpenAI", "azure"},
     router_mode : {"keyword", "LLM", ""},
     llm_timeout_seconds : [kind : {"text"}, number : {60, 0, None, Infinite}],
     openai_api_key : BOOLEAN]
=============================================================================
