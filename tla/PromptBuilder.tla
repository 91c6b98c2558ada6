--------------------------- MODULE PromptBuilder ----------------------------
(***************************************************************************)
(* From the messages to the tokens of the prompt: the chat template        *)
(* (src/tokenizer/prompt_builder.cpp) and the encoder with its built-in    *)
(* vocabulary (src/tokenizer/tokenizer.cpp).                               *)
(*                                                                         *)
(* The markers are shortened to two characters; like the real ones they    *)
(* begin alike, and with a character that is in none of them again.  A     *)
(* role's name is one character.                                           *)
(***************************************************************************)
EXTENDS Integers, SequencesExt

ImStart == <<"<", "S">>
ImEnd == <<"<", "E">>
EndOfText == <<"<", "P">>

\* special_token_map_: the text of each special token.
SpecialTokenMap ==
  [im_start |-> ImStart, im_end |-> ImEnd, endoftext |-> EndOfText]

Specials == DOMAIN SpecialTokenMap

\* compare(pos, ...) = 0: the marker m is in the text at pos.
At(text, pos, m) ==
  pos + Len(m) - 1 <= Len(text) /\ SubSeq(text, pos, pos + Len(m) - 1) = m

\* find(m) # npos.
Occurs(m, text) == \E pos \in DOMAIN text : At(text, pos, m)

-----------------------------------------------------------------------------
(* The template.  A configuration has the fields raw (allow_raw_prompt),   *)
(* system (default_system_message), generation (add_generation_prompt) and *)
(* max (max_prompt_length).                                                *)

FormatMessage(message) ==
  ImStart \o <<message.role, "\n">> \o message.content \o ImEnd \o <<"\n">>

IsAlreadyFormatted(text) == Occurs(ImStart, text) \/ Occurs(ImEnd, text)

\* The messages, with the default system message if there is to be one.
WithSystem(config, messages) ==
  IF config.system # <<>> /\ \A i \in DOMAIN messages : messages[i].role # "system"
  THEN <<[role |-> "system", content |-> config.system]>> \o messages
  ELSE messages

BuildFormattedPrompt(config, messages) ==
  IF config.raw /\ IsAlreadyFormatted(messages[1].content)
  THEN messages[1].content
  ELSE LET all == WithSystem(config, messages)
       IN  FlattenSeq([i \in DOMAIN all |-> FormatMessage(all[i])])
           \o (IF config.generation THEN ImStart \o <<"assistant", "\n">>
                                    ELSE <<>>)

\* The prompt is no longer than max_prompt_length, if there is one.
LengthAllowed(config, text) == config.max = 0 \/ Len(text) <= config.max

-----------------------------------------------------------------------------
(* The encoder.                                                            *)

\* The special tokens whose text is at pos: at most one.
SpecialAt(text, pos) == {t \in Specials : At(text, pos, SpecialTokenMap[t])}

\* A search that looks for the marker that opens a message only.
MutNextSpecial(text, pos) ==
  CHOOSE e \in pos .. Len(text) + 1 :
    /\ e <= Len(text) => "im_start" \in SpecialAt(text, e)
    /\ \A p \in pos .. e - 1 : "im_start" \notin SpecialAt(text, p)

\* The first position from pos on with a special token, or the end.
NextSpecial(text, pos) ==
  CHOOSE e \in pos .. Len(text) + 1 :
    /\ e <= Len(text) => SpecialAt(text, e) # {}
    /\ \A p \in pos .. e - 1 : SpecialAt(text, p) = {}

\* The built-in vocabulary has no entry for a single character, so that every
\* one becomes the token of its byte.
TokenizeChunk(chunk) == chunk

\* The tokens from pos on, given those from every later position.
TokenizeFrom(text, pos, later) ==
  IF pos > Len(text) THEN <<>>
  ELSE IF SpecialAt(text, pos) # {}
  THEN LET t == CHOOSE t \in SpecialAt(text, pos) : TRUE
       IN  <<t>> \o later[pos + Len(SpecialTokenMap[t])]
  ELSE LET end == NextSpecial(text, pos)
       IN  TokenizeChunk(SubSeq(text, pos, end - 1)) \o later[end]

Tokenize(text) ==
  LET from[pos \in 1 .. Len(text) + 1] == TokenizeFrom(text, pos, from)
  IN  from[1]

=============================================================================
