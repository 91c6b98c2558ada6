------------------------------ MODULE Sampler -------------------------------
(***************************************************************************)
(* The tokens that can be drawn (src/core/sampler.cpp).                    *)
(*                                                                         *)
(* The logits, divided by the temperature, are given by what softmax makes *)
(* of them: w[t], a natural number, is the weight of the token t.  Tokens  *)
(* are numbered from 1.  The scheduler sets neither top_k nor a repetition *)
(* penalty, which are then off; the draw itself is any token of the        *)
(* nucleus with a positive weight, whatever the seed.                      *)
(***************************************************************************)
EXTENDS Integers, FiniteSetsExt, Sums

CONSTANTS
  LowCandidates,   \* candidates that are sorted when top_p < 0.9 (256)
  HighCandidates   \* candidates that are sorted otherwise (1000)

ASSUME SamplerAssumption ==
  LowCandidates \in Nat \ {0} /\ HighCandidates \in Nat \ {0}

\* The weight of a set of tokens.
Weight(w, S) == Sum(w, S)

\* The first of the heaviest tokens.
SampleGreedy(w) == Min({t \in DOMAIN w : \A u \in DOMAIN w : w[u] <= w[t]})

\* How many candidates are sorted.
MaxCandidates(w, topP) ==
  Min({Cardinality(DOMAIN w), IF topP >= 9 THEN HighCandidates ELSE LowCandidates})

\* partial_sort: the k heaviest tokens, in an order that falls with the
\* weight; equally heavy tokens come in any order.
PartialSorts(w, k) ==
  {s \in [1 .. k -> DOMAIN w] :
     /\ \A i, j \in 1 .. k : i < j => s[i] # s[j] /\ w[s[i]] >= w[s[j]]
     /\ \A t \in DOMAIN w \ {s[i] : i \in 1 .. k} : w[t] <= w[s[k]]}

\* The nucleus that also takes the token after the one that reaches top_p.
MutNucleusSize(w, s, k, topP) ==
  LET all == Weight(w, {s[j] : j \in 1 .. k})
      reach == {n \in 1 .. k : 10 * Weight(w, {s[j] : j \in 1 .. n}) >= topP * all}
  IN  Min({k, Min(reach \cup {k}) + 1})

\* The shortest prefix of the candidates that has top_p of their weight.
NucleusSize(w, s, k, topP) ==
  LET all == Weight(w, {s[j] : j \in 1 .. k})
  IN  Min({n \in 1 .. k : 10 * Weight(w, {s[j] : j \in 1 .. n}) >= topP * all})

\* The tokens that sample_top_p can draw.
SampleTopP(w, topP) ==
  LET k == MaxCandidates(w, topP)
  IN  UNION {{t \in {s[i] : i \in 1 .. NucleusSize(w, s, k, topP)} : w[t] > 0} :
             s \in PartialSorts(w, k)}

\* The tokens that sample can draw.
Sample(w, temperature, topP) ==
  IF temperature <= 0 THEN {SampleGreedy(w)} ELSE SampleTopP(w, topP)

=============================================================================
