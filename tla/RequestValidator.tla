-------------------------- MODULE RequestValidator --------------------------
(***************************************************************************)
(* What a chat completion request must be (src/api/types.cpp,              *)
(* src/api/request_validator.cpp) and what the handler makes of its        *)
(* max_tokens (chat_completions in src/api/routes.cpp).                    *)
(*                                                                         *)
(* An optional field is a set with at most one member.  Temperature and    *)
(* top_p are counted in tenths.  A text is a sequence of characters.       *)
(***************************************************************************)
EXTENDS Integers, Sequences

CONSTANTS
  MaxContext,        \* max_context_length
  MaxCompletion,     \* max_completion_tokens
  DefaultMaxTokens,  \* default_max_tokens
  MaxStops,          \* max_stop_sequences
  MaxStopLength      \* max_stop_sequence_length

ASSUME ValidatorAssumption ==
  /\ MaxContext \in Nat \ {0} /\ MaxCompletion \in Nat \ {0}
  /\ DefaultMaxTokens \in 1 .. MaxCompletion
  /\ MaxStops \in Nat /\ MaxStopLength \in Nat

SupportedModels == {"qwen2.5-32b-instruct"}

\* A role nobody knows is a user's.
StringToRole(s) == IF s \in {"system", "assistant", "tool"} THEN s ELSE "user"

\* The request that the JSON body stands for.
FromJson(body) ==
  LET m == body.messages
  IN  [body EXCEPT !.messages =
         [i \in DOMAIN m |-> [m[i] EXCEPT !.role = StringToRole(@)]]]

\* Some message is a user's, and every tool message names its call.
ValidMessages(messages) ==
  /\ \E i \in DOMAIN messages : messages[i].role = "user"
  /\ \A i \in DOMAIN messages :
       messages[i].role = "tool" => messages[i].tool_call_id # {}

ValidTemperature(t) == t \in 0 .. 20

ValidTopP(p) == p \in 0 .. 10

ValidMaxTokens(n) == n \in 1 .. MaxCompletion

ValidStop(stop) ==
  /\ Len(stop) <= MaxStops
  /\ \A i \in DOMAIN stop : Len(stop[i]) \in 1 .. MaxStopLength

Validate(r) ==
  /\ r.model \in SupportedModels
  /\ ValidMessages(r.messages)
  /\ \A t \in r.temperature : ValidTemperature(t)
  /\ \A p \in r.top_p : ValidTopP(p)
  /\ \A n \in r.max_tokens : ValidMaxTokens(n)
  /\ \A s \in r.stop : ValidStop(s)

\* The value of an optional field.
ValueOr(option, default) ==
  IF option = {} THEN default ELSE CHOOSE v \in option : TRUE

\* The request with its defaults; no stop is no stop sequence.
ApplyDefaults(r) ==
  [r EXCEPT !.temperature = ValueOr(@, 10), !.top_p = ValueOr(@, 10),
            !.max_tokens = ValueOr(@, DefaultMaxTokens), !.stop = ValueOr(@, <<>>)]

\* A cut that forgets that the prompt itself takes room.
MutFitContext(prompt, asked) ==
  IF prompt > MaxContext THEN 0
  ELSE IF asked > MaxContext THEN MaxContext - prompt ELSE asked

\* max_tokens cut to the room a prompt of that length leaves; 0 is an error.
FitContext(prompt, asked) ==
  IF prompt > MaxContext THEN 0
  ELSE IF prompt + asked > MaxContext THEN MaxContext - prompt ELSE asked

=============================================================================
