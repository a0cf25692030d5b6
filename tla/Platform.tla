------------------------------- MODULE Platform -------------------------------
(***************************************************************************)
(* One process of the platform: the tool server, the prompt center, the    *)
(* API gateway, the event bus, the WebSocket connections, the guardrails,  *)
(* the LLM gateway and the knowledge base, side by side on one event loop. *)
(*                                                                         *)
(* Every component keeps its tables in an object of its own and none       *)
(* touches another's, so the modules share no variable: between two steps  *)
(* of one component the process may serve any of the others.               *)
(***************************************************************************)
EXTENDS ToolServer, PromptCenter, Gateway, EventBus, WebSockets, Guardrail,
        LLMGateway, RAG

Init ==
  /\ ToolInit /\ PromptInit /\ GatewayInit /\ BusInit
  /\ SocketInit /\ GuardInit /\ LLMInit /\ RAGInit

ToolsServe ==
  /\ ToolNext
  /\ UNCHANGED <<promptVars, gatewayVars, busVars, wsVars, guardVars, llmVars, ragVars>>

PromptsServe ==
  /\ PromptNext
  /\ UNCHANGED <<toolVars, gatewayVars, busVars, wsVars, guardVars, llmVars, ragVars>>

GatewayServes ==
  /\ GatewayNext
  /\ UNCHANGED <<toolVars, promptVars, busVars, wsVars, guardVars, llmVars, ragVars>>

BusServes ==
  /\ BusNext
  /\ UNCHANGED <<toolVars, promptVars, gatewayVars, wsVars, guardVars, llmVars, ragVars>>

SocketsServe ==
  /\ SocketNext
  /\ UNCHANGED <<toolVars, promptVars, gatewayVars, busVars, guardVars, llmVars, ragVars>>

GuardrailServes ==
  /\ GuardNext
  /\ UNCHANGED <<toolVars, promptVars, gatewayVars, busVars, wsVars, llmVars, ragVars>>

LLMServes ==
  /\ LLMNext
  /\ UNCHANGED <<toolVars, promptVars, gatewayVars, busVars, wsVars, guardVars, ragVars>>

RAGServes ==
  /\ RAGNext
  /\ UNCHANGED <<toolVars, promptVars, gatewayVars, busVars, wsVars, guardVars, llmVars>>

Next ==
  \/ ToolsServe \/ PromptsServe \/ GatewayServes \/ BusServes
  \/ SocketsServe \/ GuardrailServes \/ LLMServes \/ RAGServes

vars == <<toolVars, promptVars, gatewayVars, busVars, wsVars, guardVars, llmVars,
          ragVars>>

Spec == Init /\ [][Next]_vars
===============================================================================
