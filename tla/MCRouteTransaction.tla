-------------------------- MODULE MCRouteTransaction --------------------------
(* A cloud model, two models of Ollama and one of LM Studio. *)
EXTENDS RouteTransaction
CONSTANTS ollama, lmstudio, gpt, llama, phi, qwen
MCOwner == [m \in Models |-> CASE m = gpt -> NoOne [] m = qwen -> lmstudio [] OTHER -> ollama]
MCListed == [p \in Providers |-> IF p = ollama THEN llama ELSE qwen]
=============================================================================
