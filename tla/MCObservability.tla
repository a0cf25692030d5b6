---------------------------- MODULE MCObservability ----------------------------
EXTENDS Observability

CONSTANTS t1, t2, a1, gpt4

\* Prices per token, scaled to integers; a model without a row takes the default.
MCPricing == [m \in {"gpt4", "default"} |->
               IF m = "gpt4" THEN [prompt |-> 3, completion |-> 6]
               ELSE [prompt |-> 1, completion |-> 2]]

MCEvents ==
  [type : {"error"},
   model : {None}, prompt : {0}, completion : {0}]
  \cup [type : {"llm_call"}, model : {"gpt4"}, prompt : {1}, completion : {1}]
  \cup [type : {"cost"}, model : {None}, prompt : {0}, completion : {2}]
================================================================================
