------------------------------- MODULE Payloads -------------------------------
(***************************************************************************)
(* What the capture and replay sessions take of the SDK's objects           *)
(* (openai_agents_replay.py): which requests, answers and agents they        *)
(* support, and the keys under which a request and a usage are recorded.     *)
(* Redaction replaces the value of every key that names a secret, and the    *)
(* SDK's own names have "tokens" in them.                                   *)
(***************************************************************************)

EXTENDS Naturals

\* A value, by the kinds of its leaves and keys (_json_value).
Leaves == {"scalar", "enum", "model", "dataclass", "not finite", "bytes", "number as key"}
Json(leaves) == leaves \intersect {"not finite", "bytes", "number as key"} = {}

\* The keys that _SECRET_KEY finds a secret's name in, of those in use here.
SecretKeys == {"max_tokens", "input_tokens", "output_tokens", "total_tokens"}

-----------------------------------------------------------------------------
(* Requests.                                                               *)

SupportedSettings == {"frequency_penalty", "max_tokens", "parallel_tool_calls",
                      "presence_penalty", "temperature", "tool_choice", "top_p", "truncation"}

\* A mutant of SettingKeys: the SDK's names.
SettingKeysRaw(settings) == settings

SettingKeys(settings) == (settings \ {"max_tokens"})
    \union IF "max_tokens" \in settings THEN {"max_output_count"} ELSE {}

PlainRequest == [settings |-> SupportedSettings, input |-> {"scalar", "model"},
                 tools |-> {"FunctionTool"}, uses |-> {}]

\* Requests with one thing that is not supported each.
OddRequests ==
    {[PlainRequest EXCEPT !.settings = @ \union {"reasoning"}],
     [PlainRequest EXCEPT !.input = {"bytes"}],
     [PlainRequest EXCEPT !.tools = @ \union {"hosted tool"}]}
    \union {[PlainRequest EXCEPT !.uses = {feature}] :
                feature \in {"output schema", "handoffs", "previous response",
                             "conversation", "prompt"}}

SupportedRequest(request) ==
    /\ request.uses = {}
    /\ request.tools \subseteq {"FunctionTool"}
    /\ Json(request.input)
    /\ request.settings \subseteq SupportedSettings

RequestKeys(request) ==
    {"conversation_id", "input", "model_settings", "previous_response_id", "prompt",
     "system_instructions", "tools"} \union SettingKeys(request.settings)

-----------------------------------------------------------------------------
(* Answers of the model, and agents.                                       *)

GoodResponse == [output |-> {"model"}, details |-> 0, entries |-> {}]
Responses == {GoodResponse, [GoodResponse EXCEPT !.output = {"not finite"}],
              [GoodResponse EXCEPT !.details = 1], [GoodResponse EXCEPT !.entries = {"request"}]}

\* Details of the usage must be zero, for they are not recorded.
SupportedResponse(response) ==
    /\ Json(response.output)
    /\ response.details = 0
    /\ response.entries = {}

\* A mutant of UsageKeys: the SDK's names.
UsageKeysRaw == {"requests", "input_tokens", "output_tokens", "total_tokens"}
UsageKeys == {"requests", "input_count", "output_count", "total_count"}
UsageIsRead(keys) == keys = {"requests", "input_count", "output_count", "total_count"}

\* An agent has the session's model and wrappers, and hands over to nobody.
GoodAgent == [model |-> "injected", tools |-> "wrappers", handoffs |-> {}]
Agents == {GoodAgent, [GoodAgent EXCEPT !.model = "other"],
           [GoodAgent EXCEPT !.tools = "others"], [GoodAgent EXCEPT !.handoffs = {"agent"}]}
ValidAgent(agent) ==
    agent.model = "injected" /\ agent.tools = "wrappers" /\ agent.handoffs = {}
===============================================================================
