---------------------------- MODULE MCInitWizard ----------------------------
(***************************************************************************)
(* Two fields with a default, one without, and a pair; each source has a   *)
(* value of its own for each.  Providers: the local one, one the schema    *)
(* knows and one it does not.                                              *)
(***************************************************************************)
EXTENDS InitWizard

CONSTANTS ollama, anthropic, groq

MCSingle == {"mode", "providers", "memoryPath"}
MCPairs == {{"secret", "host"}}
MCValue(i, f) ==
    CASE f = "mode" -> IF i = 2 THEN "satellite" ELSE "standalone"
      [] f = "providers" -> IF i = 2 THEN {ollama, anthropic} ELSE {anthropic}
      [] OTHER -> <<"file", "env", "argv">>[i]
MCValues == [i \in 1 .. 3 |-> [f \in MCSingle \cup UNION MCPairs |-> MCValue(i, f)]]
MCDefaults ==
    [f \in MCSingle \cup UNION MCPairs |->
        CASE f = "mode" -> "standalone" [] f = "providers" -> {ollama} [] OTHER -> Unset]
MCWizardProviders == {ollama, anthropic, groq}
MCProviderNames == {ollama, anthropic}
=============================================================================
