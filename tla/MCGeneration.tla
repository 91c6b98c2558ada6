---------------------------- MODULE MCGeneration ----------------------------
(***************************************************************************)
(* Generation for TLC.  Prompts take 8 to 20 tokens of a context of 16:    *)
(* some leave room for all that is asked, some for less, some for none.    *)
(***************************************************************************)
EXTENDS Generation

\* What the template adds, and the letters of contents and outputs.
MCCharacters ==
  {"<", "S", "E", "P", "\n", "system", "user", "assistant", "tool"}
    \cup {"x", "y", "a", "b", "c"}

\* Contents with half a marker at the end, the rest of one, and whole ones.
MCContents ==
  {<<>>, <<"x">>, <<"x", "<">>, <<"E", "<">>, <<"x", "<", "E">>, <<"<", "P">>}

MCMessage(role, content, id) ==
  [role |-> role, content |-> content, tool_call_id |-> id]

MCMessages ==
  {MCMessage(r, c, {}) : r \in {"system", "user", "stranger"}, c \in MCContents}
    \cup {MCMessage("tool", <<"x">>, i) : i \in {{}, {"call"}}}

MCBody(messages, temperature, topP, most, stop) ==
  [model |-> "qwen2.5-32b-instruct", messages |-> messages,
   temperature |-> temperature, top_p |-> topP, max_tokens |-> most,
   stop |-> stop]

MCHello == <<MCMessage("user", <<>>, {})>>

\* Requests that differ in their messages, and requests that differ in their
\* parameters.
MCBodies ==
  {MCBody(m, {}, {}, {1}, {}) :
     m \in UNION {[1 .. n -> MCMessages] : n \in 0 .. 2}}
  \cup
  {MCBody(MCHello, t, p, n, s) :
     t \in {{}, {0}, {21}}, p \in {{}, {5}, {11}},
     n \in {{}, {0}, {2}, {4}},
     s \in {{}, {<<<<"b">>>>}, {<<<<"a", "b">>, <<"c">>>>}, {<<<<>>>>}}}
  \cup {[MCBody(MCHello, {}, {}, {}, {}) EXCEPT !.model = "gpt"]}

MCConfigs ==
  {[raw |-> r, system |-> s, generation |-> g, max |-> m] :
     r \in BOOLEAN, s \in {<<>>, <<"y">>}, g \in BOOLEAN, m \in {0, 14}}

\* Two characters in one token, an unknown token, and <|im_end|>.
MCTokenText == <<<<"a">>, <<"b">>, <<"b", "c">>, <<>>, <<"<", "E">>>>

MCLogits == {<<1, 1, 1, 1, 1>>, <<4, 4, 1, 0, 1>>, <<0, 1, 6, 2, 1>>}

=============================================================================
