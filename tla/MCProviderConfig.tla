-------------------------- MODULE MCProviderConfig --------------------------
(* A small instance of ProviderConfig: one provider with a stored key and   *)
(* one whose environment variable is blank.                                *)
EXTENDS ProviderConfig

MCProviders == {"gemini", "openai"}
MCEnvKey == [p \in MCProviders |-> IF p = "openai" THEN "blank" ELSE "unset"]
=============================================================================
