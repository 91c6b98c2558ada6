---------------------------- MODULE StopChecker -----------------------------
(***************************************************************************)
(* When a generation ends (src/core/stop_checker.cpp).  The scheduler asks *)
(* for no stop tokens of its own, so that only <|im_end|>, which is the    *)
(* end-of-sequence token too, is one.                                      *)
(***************************************************************************)
EXTENDS Integers, SequencesExt

\* A match anywhere in the text.
MutEndsWith(text, s) ==
  \E i \in 1 .. Len(text) - Len(s) + 1 : SubSeq(text, i, i + Len(s) - 1) = s

\* The text ends with s.
EndsWith(text, s) == IsSuffix(s, text)

\* The first of the stop sequences that the text ends with; <<>> if none.
FindStopSequence(text, stops) ==
  LET hits == {i \in DOMAIN stops : stops[i] # <<>> /\ EndsWith(text, stops[i])}
  IN  IF hits = {} THEN <<>>
      ELSE stops[CHOOSE i \in hits : \A j \in hits : i <= j]

\* The result of a check; matched is the stop sequence, <<>> if none.
Check(tokens, text, stops, maxTokens, imEnd) ==
  LET matched == FindStopSequence(text, stops)
  IN  IF maxTokens > 0 /\ Len(tokens) >= maxTokens
      THEN [reason |-> "Length", matched |-> <<>>]
      ELSE IF tokens # <<>> /\ tokens[Len(tokens)] = imEnd
      THEN [reason |-> "Stop", matched |-> <<>>]
      ELSE [reason |-> IF matched # <<>> THEN "Stop" ELSE "None",
            matched |-> matched]

\* The text without the stop sequence it ends with.
TrimStopSequence(text, s) ==
  IF EndsWith(text, s) THEN SubSeq(text, 1, Len(text) - Len(s)) ELSE text

=============================================================================
