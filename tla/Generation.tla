----------------------------- MODULE Generation -----------------------------
(***************************************************************************)
(* One request and its data, from the JSON body to the text: validation,   *)
(* prompt, context limit (chat_completions in src/api/routes.cpp), then    *)
(* the steps of run_decode_step (src/scheduler/scheduler.cpp), each a      *)
(* sampled token, its text, its event and the stop check.                  *)
(*                                                                         *)
(* What a request meets on its way (queues, cancellation, failures) is the *)
(* matter of Scheduler and ChatCompletions; here none of it happens.  Data *)
(* that no later step reads is forgotten.                                  *)
(***************************************************************************)
EXTENDS RequestValidator, PromptBuilder, Sampler, StopChecker

CONSTANTS
  Characters,      \* the characters of texts; a role's name counts as one
  Bodies,          \* the requests that may come, as parsed JSON
  Configs,         \* the configurations of the prompt builder
  TokenText,       \* TokenText[t]: decode_token of the token t; <<>> if unknown
  ImEndToken,      \* the token <|im_end|>
  Logits           \* the weights the backend may return

Text == Seq(Characters)

\* A message and a request as the JSON body has them.
Message == [role : STRING, content : Text, tool_call_id : SUBSET STRING]

ChatCompletionRequest ==
  [model : STRING, messages : Seq(Message),
   temperature : SUBSET Int, top_p : SUBSET Int, max_tokens : SUBSET Int,
   stop : SUBSET Seq(Text)]

PromptBuilderConfig ==
  [raw : BOOLEAN, system : Text, generation : BOOLEAN, max : Nat]

ASSUME GenerationAssumption ==
  /\ {"<", "S", "E", "P", "\n", "system", "user", "assistant", "tool"}
       \subseteq Characters
  /\ Characters \cap Specials = {}
  /\ Bodies \subseteq ChatCompletionRequest /\ Configs \subseteq PromptBuilderConfig
  /\ TokenText \in Seq(Text) /\ ImEndToken \in DOMAIN TokenText
  /\ Logits \subseteq [DOMAIN TokenText -> Nat]

VARIABLES
  stage,      \* where the request is
  config,     \* the prompt builder's configuration
  request,    \* the request, with its defaults once it is valid
  prompt,     \* the prompt: its text and its tokens
  promptLen,  \* the number of input tokens
  maxTokens,  \* Request::max_tokens
  draw,       \* the logits of the last token
  tokens,     \* output_tokens
  text,       \* output_text
  streamed,   \* the text of the events emitted
  reason      \* finish_reason

inputVars == <<config, request, prompt, promptLen, maxTokens>>
outputVars == <<tokens, text, streamed, reason>>
gvars == <<stage, inputVars, draw, outputVars>>

NoPrompt == [text |-> <<>>, tokens |-> <<>>]
NoDraw == CHOOSE w \in Logits : TRUE

GInit ==
  /\ stage = "received"
  /\ config \in Configs /\ request \in Bodies
  /\ prompt = NoPrompt /\ promptLen = 0 /\ maxTokens = 0 /\ draw = NoDraw
  /\ tokens = <<>> /\ text = <<>> /\ streamed = <<>> /\ reason = "None"

\* 400, or the request with its defaults.
ValidateRequest ==
  /\ stage = "received"
  /\ LET r == FromJson(request)
     IN  \/ /\ Validate(r)
            /\ request' = ApplyDefaults(r) /\ stage' = "valid"
         \/ /\ ~Validate(r)
            /\ request' = r /\ stage' = "invalid"
  /\ UNCHANGED <<config, prompt, promptLen, maxTokens, draw, outputVars>>

\* PromptBuilder::build: 400 if the text is too long, or the tokens.
BuildPrompt ==
  /\ stage = "valid"
  /\ LET formatted == BuildFormattedPrompt(config, request.messages)
     IN  \/ /\ LengthAllowed(config, formatted)
            /\ prompt' = [text |-> formatted, tokens |-> Tokenize(formatted)]
            /\ stage' = "built"
         \/ /\ ~LengthAllowed(config, formatted)
            /\ UNCHANGED prompt
            /\ stage' = "tooLong"
  /\ UNCHANGED <<config, request, promptLen, maxTokens, draw, outputVars>>

\* max_tokens is cut to what the context leaves, or 400; make_request takes
\* the parameters of the request.
LimitTokens ==
  /\ stage = "built"
  /\ LET n == Len(prompt.tokens)
     IN  /\ promptLen' = n
         /\ maxTokens' = FitContext(n, request.max_tokens)
         /\ stage' = IF maxTokens' = 0 THEN "noRoom" ELSE "decoding"
  /\ request' = [request EXCEPT !.messages = <<>>]
  /\ prompt' = NoPrompt /\ config' = CHOOSE c \in Configs : TRUE
  /\ UNCHANGED <<draw, outputVars>>

\* run_decode_step: the logits of the prefill or of the last token, a token.
SampleToken ==
  /\ stage = "decoding"
  /\ \E w \in Logits, t \in DOMAIN TokenText :
       /\ t \in Sample(w, request.temperature, request.top_p)
       /\ draw' = w
       /\ tokens' = Append(tokens, t)
  /\ stage' = "sampled"
  /\ UNCHANGED <<inputVars, text, streamed, reason>>

\* The token's text is appended and emitted, then check_stop_and_continue
\* ends the generation, without the stop sequence in output_text.
AppendAndCheck ==
  /\ stage = "sampled"
  /\ LET new == TokenText[tokens[Len(tokens)]]
         check == Check(tokens, text \o new, request.stop, maxTokens, ImEndToken)
     IN  /\ text' = TrimStopSequence(text \o new, check.matched)
         /\ streamed' = streamed \o new
         /\ reason' = check.reason
         /\ stage' = IF check.reason = "None" THEN "decoding" ELSE "done"
  /\ draw' = NoDraw
  /\ UNCHANGED <<inputVars, tokens>>

GNext ==
  ValidateRequest \/ BuildPrompt \/ LimitTokens \/ SampleToken \/ AppendAndCheck

GSpec == GInit /\ [][GNext]_gvars

-----------------------------------------------------------------------------
(* What must hold.                                                         *)

\* The text the tokens of a prompt stand for.
Spelling(ts) ==
  FlattenSeq([i \in DOMAIN ts |->
                IF ts[i] \in Specials THEN SpecialTokenMap[ts[i]] ELSE <<ts[i]>>])

\* The positions of the marker m in a text.
Positions(m, s) == {p \in DOMAIN s : At(s, p, m)}

\* How often the token t is in ts.
Count(ts, t) == Cardinality({i \in DOMAIN ts : ts[i] = t})

\* Where it is for the k-th time.
Nth(ts, t, k) ==
  CHOOSE i \in DOMAIN ts :
    ts[i] = t /\ Cardinality({j \in 1 .. i : ts[j] = t}) = k

\* A conversation read back from the tokens of a prompt: after each im_start
\* the role, and up to its im_end the content.
ReadBack(ts) ==
  [k \in 1 .. Count(ts, "im_end") |->
     LET start == Nth(ts, "im_start", k)
     IN  [role |-> ts[start + 1],
          content |-> SubSeq(ts, start + 3, Nth(ts, "im_end", k) - 1)]]

\* No special token is spelled out in the text.
Plain(s) == \A p \in DOMAIN s : SpecialAt(s, p) = {}

\* The prompt says what the messages say.  Encoding loses no character and
\* turns every marker of the text into its token, wherever it is and whatever
\* half a marker stands before it; and when no content has a marker of its
\* own, the conversation can be read back: the same roles and contents in the
\* same order, the default system message first, an open turn at the end.
PromptFaithful ==
  stage = "built" =>
    LET ts == prompt.tokens
        all == WithSystem(config, request.messages)
    IN  /\ Spelling(ts) = prompt.text
        /\ \A t \in Specials :
             Count(ts, t) = Cardinality(Positions(SpecialTokenMap[t], prompt.text))
        /\ (\A i \in DOMAIN all : Plain(all[i].content)) =>
             /\ ReadBack(ts) =
                  [i \in DOMAIN all |-> [role |-> all[i].role,
                                         content |-> all[i].content]]
             /\ config.generation =>
                  SubSeq(ts, Len(ts) - 2, Len(ts)) = <<"im_start", "assistant", "\n">>

\* A request that runs fits: prompt and output stay within the context, and
\* max_tokens is cut only when it must be.  One that is refused for want of
\* room had none.
ContextFits ==
  /\ stage \in {"decoding", "sampled", "done"} =>
       /\ promptLen + maxTokens <= MaxContext
       /\ maxTokens \in 1 .. request.max_tokens
       /\ maxTokens < request.max_tokens => promptLen + maxTokens = MaxContext
       /\ Len(tokens) <= maxTokens
  /\ stage = "noRoom" => promptLen >= MaxContext

\* What is drawn is in the true nucleus of the whole vocabulary, though only
\* the first candidates are sorted and weighed: the tokens heavier than it
\* have less than top_p of all the weight, or there is none.
DrawnFromNucleus ==
  stage = "sampled" =>
    LET t == tokens[Len(tokens)]
        heavier == {u \in DOMAIN draw : draw[u] > draw[t]}
    IN  /\ request.temperature = 0 => heavier = {}
        /\ \/ heavier = {}
           \/ 10 * Weight(draw, heavier) < request.top_p * Weight(draw, DOMAIN draw)

\* The text of the first n output tokens.
TextOf(n) == FlattenSeq([i \in 1 .. n |-> TokenText[tokens[i]]])

\* A generation ends at the first token where it may: none before it was
\* <|im_end|> or ended the text with a stop sequence.  Length is max_tokens
\* tokens, all of their text kept; Stop is fewer of them, the last one
\* <|im_end|> or the text cut by the one stop sequence that was matched.
StopExact ==
  stage = "done" =>
    LET n == Len(tokens)
        hits(i) == {j \in DOMAIN request.stop : IsSuffix(request.stop[j], TextOf(i))}
    IN  /\ \A i \in 1 .. n - 1 : tokens[i] # ImEndToken /\ hits(i) = {}
        /\ streamed = TextOf(n)
        /\ reason = "Length" => n = maxTokens /\ text = TextOf(n)
        /\ reason = "Stop" =>
             /\ n < maxTokens
             /\ IF tokens[n] = ImEndToken
                THEN text = TextOf(n)
                ELSE \E j \in hits(n) : text \o request.stop[j] = TextOf(n)

-----------------------------------------------------------------------------
(* What a test says and the code does not do.                              *)

\* tests/golden/test_golden_outputs.cpp, StreamingEquivalence: the text of
\* the stream is the text of the response that is not streamed.
StreamingEquivalence == stage = "done" => streamed = text

=============================================================================
