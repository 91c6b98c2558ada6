-------------------------- MODULE GenerationProofs --------------------------
(***************************************************************************)
(* Proofs about the generation of one request, for every body, vocabulary, *)
(* weights and limits: the prompt says what the messages say, the output   *)
(* fits the context, is drawn from the nucleus and stops where it should.  *)
(***************************************************************************)
EXTENDS Generation, SumTheorems, SequenceTheorems, TLAPS

-----------------------------------------------------------------------------
(* Texts put together from texts.                                          *)

\* f[i] is the first i members of s, one after the other.
Flattens(f, s, n) ==
  f = [i \in 1 .. n |-> IF i = 1 THEN s[i] ELSE f[i - 1] \o s[i]]

\* There is such a function: extend the one for a shorter sequence.
LEMMA FlattenExists ==
  ASSUME NEW s, NEW n \in Nat
  PROVE  \E f : Flattens(f, s, n)
<1> DEFINE T == {m \in Nat : ~\E f : Flattens(f, s, m)}
<1>1. SUFFICES ASSUME T # {} PROVE FALSE
  OBVIOUS
<1>2. PICK m \in T : \A y \in T : m <= y
  BY <1>1, LeastOf
<1>3. CASE m = 0
  <2>1. Flattens([i \in {} |-> 0], s, 0)
    BY DEF Flattens
  <2> QED
    BY <2>1, <1>2, <1>3
<1>4. CASE m > 0
  <2>1. m - 1 \in Nat /\ m - 1 \notin T
    BY <1>2, <1>4
  <2>2. PICK f : Flattens(f, s, m - 1)
    BY <2>1
  <2> DEFINE last == IF m = 1 THEN s[m] ELSE f[m - 1] \o s[m]
             g == [i \in 1 .. m |-> IF i = m THEN last ELSE f[i]]
  <2>3. ASSUME NEW i \in 1 .. m
        PROVE  g[i] = IF i = 1 THEN s[i] ELSE g[i - 1] \o s[i]
    <3>1. CASE i = m
      BY <3>1, <1>4
    <3>2. CASE i # m
      <4>1. i \in 1 .. m - 1
        BY <3>2, <1>2
      <4>2. f[i] = IF i = 1 THEN s[i] ELSE f[i - 1] \o s[i]
        BY <2>2, <4>1 DEF Flattens
      <4> QED
        BY <4>1, <4>2, <3>2
    <3> QED
      BY <3>1, <3>2
  <2>4. Flattens(g, s, m)
    <3> HIDE DEF last
    <3>1. g = [i \in 1 .. m |-> g[i]]
      OBVIOUS
    <3> HIDE DEF g
    <3> QED
      BY <3>1, <2>3 DEF Flattens
  <2> QED
    BY <2>4, <1>2
<1> QED
  BY <1>2, <1>3, <1>4

\* Two of them agree as far as their sequences do.
LEMMA FlattenUnique ==
  ASSUME NEW s, NEW r, NEW f, NEW g, NEW n \in Nat, NEW m \in Nat, n <= m,
         Flattens(f, s, n), Flattens(g, r, m),
         \A i \in 1 .. n : s[i] = r[i]
  PROVE  \A i \in 1 .. n : f[i] = g[i]
<1> DEFINE T == {i \in 1 .. n : f[i] # g[i]}
<1>1. SUFFICES ASSUME T # {} PROVE FALSE
  OBVIOUS
<1> T \subseteq Nat
  OBVIOUS
<1>2. PICK i \in T : \A y \in T : i <= y
  BY <1>1, LeastOf
<1>0. i \in 1 .. n /\ i \in 1 .. m
  BY <1>2
<1>3. /\ f[i] = IF i = 1 THEN s[i] ELSE f[i - 1] \o s[i]
      /\ g[i] = IF i = 1 THEN r[i] ELSE g[i - 1] \o r[i]
  <2> HIDE DEF T
  <2> QED
    BY <1>0 DEF Flattens
<1>4. i # 1 => f[i - 1] = g[i - 1]
  BY <1>2
<1> QED
  BY <1>2, <1>3, <1>4

\* What is put together from texts is a text.
LEMMA FlattenType ==
  ASSUME NEW S, NEW s, NEW n \in Nat, \A i \in 1 .. n : s[i] \in Seq(S),
         NEW f, Flattens(f, s, n)
  PROVE  \A i \in 1 .. n : f[i] \in Seq(S)
<1> DEFINE T == {i \in 1 .. n : f[i] \notin Seq(S)}
<1>1. SUFFICES ASSUME T # {} PROVE FALSE
  OBVIOUS
<1> T \subseteq Nat
  OBVIOUS
<1>2. PICK i \in T : \A y \in T : i <= y
  BY <1>1, LeastOf
<1>0. i \in 1 .. n
  BY <1>2
<1>3. f[i] = IF i = 1 THEN s[i] ELSE f[i - 1] \o s[i]
  <2> HIDE DEF T
  <2> QED
    BY <1>0 DEF Flattens
<1>4. i # 1 => f[i - 1] \in Seq(S)
  BY <1>2
<1>5. s[i] \in Seq(S)
  BY <1>0
<1>6. f[i] \in Seq(S)
  <2> HIDE DEF T
  <2> QED
    BY <1>3, <1>4, <1>5
<1> QED
  BY <1>2, <1>6

LEMMA FlattenIs ==
  ASSUME NEW s, Len(s) \in Nat \ {0}
  PROVE  \E f : Flattens(f, s, Len(s)) /\ FlattenSeq(s) = f[Len(s)]
<1>1. PICK f : Flattens(f, s, Len(s))
  BY FlattenExists
<1> DEFINE g == CHOOSE h : h = [i \in 1 .. Len(s) |->
                                  IF i = 1 THEN s[i] ELSE h[i - 1] \o s[i]]
<1>2. Flattens(g, s, Len(s))
  BY <1>1 DEF Flattens
<1>3. FlattenSeq(s) = g[Len(s)]
  BY DEF FlattenSeq
<1> QED
  BY <1>2, <1>3

\* The type of a flattened sequence.
LEMMA FlattenSeqType ==
  ASSUME NEW S, NEW s \in Seq(Seq(S))
  PROVE  FlattenSeq(s) \in Seq(S)
<1>1. CASE Len(s) = 0
  BY <1>1, EmptySeq DEF FlattenSeq
<1>2. CASE Len(s) # 0
  <2>1. PICK f : Flattens(f, s, Len(s)) /\ FlattenSeq(s) = f[Len(s)]
    BY <1>2, FlattenIs
  <2> QED
    BY <1>2, <2>1, FlattenType
<1> QED
  BY <1>1, <1>2

\* One text more at the end of the sequence is that text at the end.
LEMMA FlattenAppend ==
  ASSUME NEW S, NEW s \in Seq(Seq(S)), NEW e \in Seq(S)
  PROVE  FlattenSeq(Append(s, e)) = FlattenSeq(s) \o e
<1> DEFINE r == Append(s, e)
           n == Len(s)
<1>1. /\ r \in Seq(Seq(S)) /\ Len(r) = n + 1 /\ n \in Nat
      /\ r[n + 1] = e /\ \A i \in 1 .. n : s[i] = r[i]
  OBVIOUS
<1> HIDE DEF r
<1>2. PICK f : Flattens(f, r, n + 1) /\ FlattenSeq(r) = f[n + 1]
  BY <1>1, FlattenIs
<1>3. f[n + 1] = IF n + 1 = 1 THEN r[n + 1] ELSE f[n] \o r[n + 1]
  <2>1. n + 1 \in 1 .. n + 1 /\ (n + 1) - 1 = n
    BY <1>1
  <2> HIDE DEF n
  <2> QED
    BY <1>2, <2>1 DEF Flattens
<1>4. CASE n = 0
  <2>1. s = <<>> /\ FlattenSeq(s) = <<>>
    BY <1>4 DEF FlattenSeq
  <2> QED
    BY <1>1, <1>2, <1>3, <1>4, <2>1 DEF r
<1>5. CASE n # 0
  <2>1. PICK g : Flattens(g, s, n) /\ FlattenSeq(s) = g[n]
    BY <1>1, <1>5, FlattenIs
  <2>2. \A i \in 1 .. n : g[i] = f[i]
    <3>1. n \in Nat /\ n + 1 \in Nat /\ n <= n + 1
      BY <1>1
    <3>2. \A i \in 1 .. n : s[i] = r[i]
      BY <1>1
    <3> DEFINE q == n + 1
    <3>3. q \in Nat /\ n <= q /\ Flattens(f, r, q)
      BY <3>1, <1>2
    <3> HIDE DEF n, q
    <3> QED
      BY <3>1, <3>2, <3>3, <2>1, FlattenUnique
  <2>3. f[n] = g[n] /\ n + 1 # 1
    BY <1>1, <1>5, <2>2
  <2> HIDE DEF n
  <2> QED
    BY <1>1, <1>2, <1>3, <2>1, <2>3 DEF r
<1> QED
  BY <1>4, <1>5

-----------------------------------------------------------------------------
(* Suffixes.                                                               *)

\* What is left when a suffix is cut off.
LEMMA SuffixCut ==
  ASSUME NEW S, NEW s \in Seq(S), NEW t \in Seq(S), IsSuffix(s, t)
  PROVE  /\ Len(s) <= Len(t)
         /\ SubSeq(t, 1, Len(t) - Len(s)) \in Seq(S)
         /\ SubSeq(t, 1, Len(t) - Len(s)) \o s = t
<1> DEFINE m == Len(s)
           n == Len(t)
           u == SubSeq(t, 1, n - m)
<1>1. Reverse(s) \in Seq(S) /\ Len(Reverse(s)) = m
  BY DEF Reverse
<1>2. Reverse(t) \in Seq(S) /\ Len(Reverse(t)) = n
  BY DEF Reverse
<1>3. m <= n /\ SubSeq(Reverse(s), 1, m) = SubSeq(Reverse(t), 1, m)
  BY <1>1, <1>2 DEF IsSuffix, IsPrefix
<1>4. \A i \in 1 .. m : Reverse(s)[i] = Reverse(t)[i]
  <2>1. \A i \in 1 .. m : /\ SubSeq(Reverse(s), 1, m)[i] = Reverse(s)[i]
                          /\ SubSeq(Reverse(t), 1, m)[i] = Reverse(t)[i]
    BY <1>1, <1>2, <1>3
  <2> QED
    BY <2>1, <1>3
<1>5. \A i \in 1 .. m : s[m - i + 1] = t[n - i + 1]
  <2> TAKE i \in 1 .. m
  <2>1. Reverse(s)[i] = s[m - i + 1]
    BY DEF Reverse
  <2>2. Reverse(t)[i] = t[n - i + 1]
    BY <1>3 DEF Reverse
  <2> QED
    BY <2>1, <2>2, <1>4
<1>6. \A j \in 1 .. m : s[j] = t[n - m + j]
  <2> TAKE j \in 1 .. m
  <2>1. m - j + 1 \in 1 .. m
    OBVIOUS
  <2>2. s[m - (m - j + 1) + 1] = t[n - (m - j + 1) + 1]
    BY <2>1, <1>5
  <2>3. m - (m - j + 1) + 1 = j /\ n - (m - j + 1) + 1 = n - m + j
    OBVIOUS
  <2> QED
    BY <2>2, <2>3
<1>7. u \in Seq(S) /\ Len(u) = n - m /\ \A i \in 1 .. n - m : u[i] = t[i]
  BY <1>3
<1>8. u \o s = t
  <2> HIDE DEF u
  <2>1. u \o s \in Seq(S) /\ Len(u \o s) = n
    BY <1>7, <1>3
  <2>2. \A i \in 1 .. n : (u \o s)[i] = t[i]
    <3> TAKE i \in 1 .. n
    <3>1. CASE i <= n - m
      <4>1. i \in 1 .. Len(u) /\ i \in 1 .. n - m
        BY <3>1, <1>7
      <4>2. (u \o s)[i] = u[i]
        BY <4>1, <1>7
      <4> QED
        BY <4>1, <4>2, <1>7
    <3>2. CASE i > n - m
      <4>1. i - (n - m) \in 1 .. m
        BY <3>2, <1>3
      <4>2. (u \o s)[i] = s[i - (n - m)]
        BY <3>2, <1>7, <1>3
      <4>3. s[i - (n - m)] = t[n - m + (i - (n - m))]
        BY <4>1, <1>6
      <4>4. n - m + (i - (n - m)) = i
        OBVIOUS
      <4> QED
        BY <4>2, <4>3, <4>4
    <3>3. i <= n - m \/ i > n - m
      OBVIOUS
    <3> QED
      BY <3>1, <3>2, <3>3
  <2> QED
    BY <2>1, <2>2, SeqEqual
<1> QED
  BY <1>3, <1>7, <1>8

\* Every text ends with the empty text, and cutting that off changes nothing.
LEMMA TrimNothing ==
  ASSUME NEW S, NEW t \in Seq(S)
  PROVE  TrimStopSequence(t, <<>>) = t
<1>1. SubSeq(t, 1, Len(t) - Len(<<>>)) = t
  OBVIOUS
<1> QED
  BY <1>1 DEF TrimStopSequence

-----------------------------------------------------------------------------
(* The encoder.                                                            *)

\* The tokens of a prompt.
PromptTokens == Characters \cup Specials

\* A special token at pos ends within the text.
LEMMA SpecialFits ==
  ASSUME NEW s \in Text, NEW pos \in 1 .. Len(s), NEW t \in SpecialAt(s, pos)
  PROVE  /\ t \in Specials /\ Len(SpecialTokenMap[t]) \in Nat
         /\ pos + Len(SpecialTokenMap[t]) \in pos + 1 .. Len(s) + 1
<1>1. t \in {"im_start", "im_end", "endoftext"} /\ At(s, pos, SpecialTokenMap[t])
  BY DEF SpecialAt, Specials, SpecialTokenMap
<1>2. Len(SpecialTokenMap[t]) = 2
  BY <1>1 DEF SpecialTokenMap, ImStart, ImEnd, EndOfText
<1>3. pos + 2 - 1 <= Len(s)
  BY <1>1, <1>2 DEF At
<1>4. t \in Specials
  BY DEF SpecialAt
<1>5. Len(s) \in Nat
  BY DEF Text
<1> QED
  BY <1>2, <1>3, <1>4, <1>5

\* Where there is no special token, the next one is later or not at all.
LEMMA NextSpecialLater ==
  ASSUME NEW s \in Text, NEW pos \in 1 .. Len(s), SpecialAt(s, pos) = {}
  PROVE  NextSpecial(s, pos) \in pos + 1 .. Len(s) + 1
<1> DEFINE T == {e \in pos .. Len(s) + 1 : e <= Len(s) => SpecialAt(s, e) # {}}
           Is(e) == /\ e <= Len(s) => SpecialAt(s, e) # {}
                    /\ \A p \in pos .. e - 1 : SpecialAt(s, p) = {}
<1>1. Len(s) \in Nat /\ pos \in Nat
  BY DEF Text
<1>2. Len(s) + 1 \in T /\ T \subseteq Nat
  BY <1>1
<1>3. PICK e \in T : \A y \in T : e <= y
  BY <1>2, LeastOf
<1>4. e \in pos .. Len(s) + 1 /\ Is(e)
  BY <1>1, <1>3
<1>5. NextSpecial(s, pos) \in pos .. Len(s) + 1 /\ Is(NextSpecial(s, pos))
  BY <1>4 DEF NextSpecial
<1> QED
  BY <1>1, <1>5

\* later gives the tokens from every position of its domain on.
Encodes(later, s, first) ==
  later = [pos \in first .. Len(s) + 1 |-> TokenizeFrom(s, pos, later)]

\* The tokens from pos on depend on those from later positions only.
LEMMA TokenizeFromLater ==
  ASSUME NEW s \in Text, NEW pos \in 1 .. Len(s) + 1, NEW f, NEW g,
         \A p \in pos + 1 .. Len(s) + 1 : f[p] = g[p]
  PROVE  TokenizeFrom(s, pos, f) = TokenizeFrom(s, pos, g)
<1>1. CASE pos > Len(s)
  BY <1>1 DEF TokenizeFrom
<1>2. CASE ~(pos > Len(s)) /\ SpecialAt(s, pos) # {}
  <2> DEFINE t == CHOOSE t \in SpecialAt(s, pos) : TRUE
  <2>1. t \in SpecialAt(s, pos)
    BY <1>2
  <2>2. pos \in 1 .. Len(s)
    BY <1>2 DEF Text
  <2> HIDE DEF t
  <2>3. f[pos + Len(SpecialTokenMap[t])] = g[pos + Len(SpecialTokenMap[t])]
    BY <2>1, <2>2, SpecialFits
  <2> QED
    BY <1>2, <2>3 DEF TokenizeFrom, t
<1>3. CASE ~(pos > Len(s)) /\ SpecialAt(s, pos) = {}
  <2>1. pos \in 1 .. Len(s)
    BY <1>3 DEF Text
  <2>2. f[NextSpecial(s, pos)] = g[NextSpecial(s, pos)]
    BY <1>3, <2>1, NextSpecialLater
  <2> QED
    BY <1>3, <2>2 DEF TokenizeFrom
<1> QED
  BY <1>1, <1>2, <1>3

\* The tokens from pos on are tokens if those from later positions are.
LEMMA TokenizeFromType ==
  ASSUME NEW s \in Text, NEW pos \in 1 .. Len(s) + 1, NEW f,
         \A p \in pos + 1 .. Len(s) + 1 : f[p] \in Seq(PromptTokens)
  PROVE  TokenizeFrom(s, pos, f) \in Seq(PromptTokens)
<1>1. CASE pos > Len(s)
  BY <1>1 DEF TokenizeFrom
<1>2. CASE ~(pos > Len(s)) /\ SpecialAt(s, pos) # {}
  <2> DEFINE t == CHOOSE t \in SpecialAt(s, pos) : TRUE
  <2>1. t \in SpecialAt(s, pos)
    BY <1>2
  <2>2. pos \in 1 .. Len(s)
    BY <1>2 DEF Text
  <2> HIDE DEF t
  <2>3. t \in PromptTokens /\ f[pos + Len(SpecialTokenMap[t])] \in Seq(PromptTokens)
    BY <2>1, <2>2, SpecialFits DEF PromptTokens
  <2>4. ASSUME NEW v \in Seq(PromptTokens) PROVE <<t>> \o v \in Seq(PromptTokens)
    BY <2>3
  <2> QED
    BY <1>2, <2>3, <2>4 DEF TokenizeFrom, t
<1>3. CASE ~(pos > Len(s)) /\ SpecialAt(s, pos) = {}
  <2> DEFINE end == NextSpecial(s, pos)
  <2>1. pos \in 1 .. Len(s)
    BY <1>3 DEF Text
  <2>2. end \in pos + 1 .. Len(s) + 1 /\ f[end] \in Seq(PromptTokens)
    BY <1>3, <2>1, NextSpecialLater
  <2> HIDE DEF end
  <2>3. SubSeq(s, pos, end - 1) \in Seq(PromptTokens)
    <3>1. SubSeq(s, pos, end - 1) \in Seq(Characters)
      BY <2>1, <2>2 DEF Text
    <3> QED
      BY <3>1 DEF PromptTokens
  <2>4. SubSeq(s, pos, end - 1) \o f[end] \in Seq(PromptTokens)
    BY <2>2, <2>3
  <2> QED
    BY <1>3, <2>4 DEF TokenizeFrom, TokenizeChunk, end
<1> QED
  BY <1>1, <1>2, <1>3

\* The recursion of tokenize is well founded: from the end of the text on,
\* each position can be given its tokens.
LEMMA EncodingExists ==
  ASSUME NEW s \in Text
  PROVE  \E f : Encodes(f, s, 1)
<1> DEFINE n == Len(s)
           T == {m \in 0 .. n + 1 : ~\E f : Encodes(f, s, n + 2 - m)}
<1>1. n \in Nat
  BY DEF Text
<1> HIDE DEF n
<1>2. SUFFICES ASSUME T # {} PROVE FALSE
  <2>1. n + 1 \in 0 .. n + 1 /\ n + 2 - (n + 1) = 1
    BY <1>1
  <2> QED
    BY <2>1
<1>3. PICK m \in T : \A y \in T : m <= y
  <2>1. T \subseteq Nat
    BY <1>1
  <2> QED
    BY <2>1, <1>2, LeastOf
<1>4. CASE m = 0
  <2>1. n + 2 .. n + 1 = {}
    BY <1>1
  <2>2. Encodes([pos \in {} |-> 0], s, n + 2)
    BY <2>1 DEF Encodes, n
  <2> QED
    BY <2>2, <1>1, <1>3, <1>4
<1>5. CASE m # 0
  <2> DEFINE first == n + 2 - m
  <2>1. m - 1 \in 0 .. n + 1 /\ m - 1 \notin T /\ n + 2 - (m - 1) = first + 1
    BY <1>1, <1>3, <1>5
  <2>2. PICK f : Encodes(f, s, first + 1)
    BY <2>1
  <2>3. first \in 1 .. n + 1
    BY <1>1, <1>3, <1>5
  <2> DEFINE g == [pos \in first .. n + 1 |->
                     IF pos = first THEN TokenizeFrom(s, first, f) ELSE f[pos]]
  <2> HIDE DEF first
  <2>4. \A p \in first + 1 .. n + 1 : g[p] = f[p]
    BY <2>3, <1>1
  <2>5. ASSUME NEW pos \in first .. n + 1
        PROVE  g[pos] = TokenizeFrom(s, pos, g)
    <3>1. pos \in 1 .. n + 1 /\ \A p \in pos + 1 .. n + 1 : g[p] = f[p]
      BY <2>3, <2>4, <1>1
    <3>2. TokenizeFrom(s, pos, g) = TokenizeFrom(s, pos, f)
      <4> HIDE DEF g
      <4> QED
        BY <3>1, TokenizeFromLater DEF n
    <3>3. CASE pos = first
      BY <3>2, <3>3
    <3>4. CASE pos # first
      <4>1. pos \in first + 1 .. n + 1
        BY <3>4, <2>3, <1>1
      <4>2. f[pos] = TokenizeFrom(s, pos, f)
        BY <2>2, <4>1 DEF Encodes, n
      <4> QED
        BY <3>2, <4>1, <4>2, <2>4
    <3> QED
      BY <3>3, <3>4
  <2>6. Encodes(g, s, first)
    <3>1. g = [pos \in first .. n + 1 |-> g[pos]]
      OBVIOUS
    <3> HIDE DEF g
    <3> QED
      BY <3>1, <2>5 DEF Encodes, n
  <2> QED
    BY <2>6, <1>3 DEF first
<1> QED
  BY <1>4, <1>5

\* g gives the tokens of s from each position on.
Encoding(g, s) ==
  \A pos \in 1 .. Len(s) + 1 :
    g[pos] \in Seq(PromptTokens) /\ g[pos] = TokenizeFrom(s, pos, g)

LEMMA EncodingIs ==
  ASSUME NEW s \in Text
  PROVE  \E g : Encoding(g, s) /\ Tokenize(s) = g[1]
<1> DEFINE n == Len(s)
           g == CHOOSE f : f = [pos \in 1 .. Len(s) + 1 |-> TokenizeFrom(s, pos, f)]
<1>1. Encodes(g, s, 1)
  BY EncodingExists DEF Encodes
<1>2. Tokenize(s) = g[1]
  BY DEF Tokenize
<1> HIDE DEF g
<1>3. n \in Nat
  BY DEF Text
<1> HIDE DEF n
<1>4. \A pos \in 1 .. n + 1 : g[pos] = TokenizeFrom(s, pos, g)
  BY <1>1 DEF Encodes, n
<1> DEFINE T == {m \in 0 .. n : g[n + 1 - m] \notin Seq(PromptTokens)}
<1>5. T = {}
  <2>0. SUFFICES ASSUME T # {} PROVE FALSE
    OBVIOUS
  <2>1. PICK m \in T : \A y \in T : m <= y
    <3>1. T \subseteq Nat
      BY <1>3
    <3> QED
      BY <2>0, <3>1, LeastOf
  <2> DEFINE pos == n + 1 - m
  <2>2. pos \in 1 .. n + 1
    BY <1>3, <2>1
  <2>3. ASSUME NEW p \in pos + 1 .. n + 1
        PROVE  g[p] \in Seq(PromptTokens)
    <3>1. n + 1 - p \in 0 .. n /\ n + 1 - p < m /\ n + 1 - (n + 1 - p) = p
      BY <1>3, <2>1, <2>2
    <3> QED
      BY <3>1, <2>1
  <2>4. g[pos] \in Seq(PromptTokens)
    <3> HIDE DEF pos, T
    <3> QED
      BY <1>4, <2>2, <2>3, TokenizeFromType DEF n
  <2> QED
    BY <2>1, <2>4
<1>6. ASSUME NEW pos \in 1 .. n + 1 PROVE g[pos] \in Seq(PromptTokens)
  <2>1. n + 1 - pos \in 0 .. n /\ n + 1 - (n + 1 - pos) = pos
    BY <1>3
  <2> QED
    BY <1>5, <2>1
<1>7. Encoding(g, s)
  BY <1>4, <1>6 DEF Encoding, n
<1> QED
  BY <1>2, <1>7

\* The tokens of a text are finitely many.
LEMMA TokenizeType ==
  ASSUME NEW s \in Text
  PROVE  Tokenize(s) \in Seq(PromptTokens)
<1>1. PICK g : Encoding(g, s) /\ Tokenize(s) = g[1]
  BY EncodingIs
<1>2. 1 \in 1 .. Len(s) + 1
  BY DEF Text
<1> QED
  BY <1>1, <1>2 DEF Encoding

-----------------------------------------------------------------------------
(* Encoding loses nothing.                                                 *)

\* Concatenation of texts.
LEMMA ConcatText ==
  ASSUME NEW S, NEW a \in Seq(S), NEW b \in Seq(S), NEW c \in Seq(S)
  PROVE  (a \o b) \o c = a \o (b \o c) /\ a \o <<>> = a /\ <<>> \o a = a
<1>1. (a \o b) \o c \in Seq(S) /\ a \o (b \o c) \in Seq(S)
      /\ Len((a \o b) \o c) = Len(a \o (b \o c))
  OBVIOUS
<1>2. \A i \in 1 .. Len((a \o b) \o c) : ((a \o b) \o c)[i] = (a \o (b \o c))[i]
  OBVIOUS
<1>3. (a \o b) \o c = a \o (b \o c)
  BY <1>1, <1>2, SeqEqual
<1> QED
  BY <1>3

\* Concatenation, element by element.
LEMMA ConcatIs ==
  ASSUME NEW S, NEW a \in Seq(S), NEW b \in Seq(S)
  PROVE  /\ a \o b \in Seq(S) /\ Len(a \o b) = Len(a) + Len(b)
         /\ Len(a) \in Nat /\ Len(b) \in Nat
         /\ \A i \in 1 .. Len(a) : (a \o b)[i] = a[i]
         /\ \A i \in 1 .. Len(b) : (a \o b)[Len(a) + i] = b[i]
OBVIOUS

\* The same, as one predicate.
Joined(x, a, b, S) ==
  /\ x \in Seq(S) /\ Len(x) = Len(a) + Len(b) /\ Len(a) \in Nat /\ Len(b) \in Nat
  /\ \A i \in 1 .. Len(a) : x[i] = a[i]
  /\ \A i \in 1 .. Len(b) : x[Len(a) + i] = b[i]

LEMMA ConcatJoins ==
  ASSUME NEW S, NEW a \in Seq(S), NEW b \in Seq(S)
  PROVE  Joined(a \o b, a, b, S)
BY ConcatIs DEF Joined

\* A sequence is empty, or something appended to a shorter one.
LEMMA SeqSplit ==
  ASSUME NEW S, NEW b \in Seq(S), b # <<>>
  PROVE  \E c \in Seq(S), e \in S : b = Append(c, e) /\ Len(c) = Len(b) - 1
<1> DEFINE c == SubSeq(b, 1, Len(b) - 1)
           e == b[Len(b)]
<1>1. c \in Seq(S) /\ Len(c) = Len(b) - 1 /\ e \in S
      /\ \A i \in 1 .. Len(c) : c[i] = b[i]
  <2>1. Len(b) \in Nat \ {0}
    OBVIOUS
  <2>2. e \in S
    BY <2>1
  <2>3. \A i \in 1 .. Len(b) - 1 : b[i] \in S
    BY <2>1
  <2>4. c = [i \in 1 .. Len(b) - 1 |-> b[i]]
    BY <2>1
  <2>5. Len(b) - 1 \in Nat
    BY <2>1
  <2> HIDE DEF c, e
  <2>6. c \in Seq(S)
    BY <2>3, <2>4, <2>5, SeqDef
  <2>7. Len(c) = Len(b) - 1
    BY <2>4, <2>5
  <2> QED
    BY <2>2, <2>4, <2>6, <2>7
<1> HIDE DEF c
<1>2. Append(c, e) \in Seq(S) /\ Len(Append(c, e)) = Len(b)
      /\ \A i \in 1 .. Len(b) : Append(c, e)[i] = b[i]
  BY <1>1
<1>3. Append(c, e) = b
  BY <1>2, SeqEqual
<1> QED
  BY <1>1, <1>3

\* The same law, of all the sequences over a set at once.
JoinsAssociatively(S) == \A u, v, w \in Seq(S) : (u \o v) \o w = u \o (v \o w)

LEMMA ConcatAssoc ==
  ASSUME NEW S
  PROVE  JoinsAssociatively(S)
BY ConcatText DEF JoinsAssociatively

LEMMA FlattenConcat ==
  ASSUME NEW S, NEW a \in Seq(Seq(S)), NEW b \in Seq(Seq(S))
  PROVE  FlattenSeq(a \o b) = FlattenSeq(a) \o FlattenSeq(b)
<1> DEFINE Q == Seq(S)
           T == {m \in Nat : \E x \in Seq(Q) :
                   Len(x) = m /\ FlattenSeq(a \o x) # FlattenSeq(a) \o FlattenSeq(x)}
<1>a. JoinsAssociatively(S)
  BY ConcatAssoc
<1>0. FlattenSeq(a) \in Q
  BY FlattenSeqType
<1>1. SUFFICES ASSUME T # {} PROVE FALSE
  <2>1. Len(b) \in Nat
    OBVIOUS
  <2> QED
    BY <2>1
<1>2. PICK m \in T : \A y \in T : m <= y
  <2>1. T \subseteq Nat
    OBVIOUS
  <2> QED
    BY <2>1, <1>1, LeastOf
<1>3. PICK x \in Seq(Q) :
        Len(x) = m /\ FlattenSeq(a \o x) # FlattenSeq(a) \o FlattenSeq(x)
  BY <1>2
<1>4. CASE x = <<>>
  <2>1. FlattenSeq(x) = <<>>
    BY <1>4 DEF FlattenSeq
  <2>2. a \o x = a /\ FlattenSeq(a) \o <<>> = FlattenSeq(a)
    BY <1>0, <1>4
  <2> QED
    BY <1>3, <2>1, <2>2
<1>5. CASE x # <<>>
  <2>1. PICK c \in Seq(Q), e \in Q : x = Append(c, e) /\ Len(c) = Len(x) - 1
    BY <1>5, SeqSplit
  <2>2. Len(c) \in Nat /\ Len(c) < m
    BY <1>3, <2>1
  <2>3. FlattenSeq(a \o c) = FlattenSeq(a) \o FlattenSeq(c)
    BY <1>2, <2>2
  <2>4. a \o x = Append(a \o c, e) /\ a \o c \in Seq(Q)
    <3>1. a \o x \in Seq(Q) /\ Append(a \o c, e) \in Seq(Q) /\ a \o c \in Seq(Q)
          /\ Len(a \o x) = Len(Append(a \o c, e))
      BY <2>1
    <3>2. \A i \in 1 .. Len(a \o x) : (a \o x)[i] = Append(a \o c, e)[i]
      BY <2>1
    <3> QED
      BY <3>1, <3>2, SeqEqual
  <2>5. FlattenSeq(a \o x) = FlattenSeq(a \o c) \o e
    BY <2>4, FlattenAppend
  <2>6. FlattenSeq(x) = FlattenSeq(c) \o e /\ FlattenSeq(c) \in Q
    BY <2>1, FlattenAppend, FlattenSeqType
  <2>7. (FlattenSeq(a) \o FlattenSeq(c)) \o e = FlattenSeq(a) \o (FlattenSeq(c) \o e)
    <3> DEFINE u == FlattenSeq(a)
               v == FlattenSeq(c)
    <3>1. u \in Q /\ v \in Q /\ e \in Q
      BY <1>0, <2>1, <2>6
    <3> HIDE DEF u, v, T
    <3>2. (u \o v) \o e = u \o (v \o e)
      BY <1>a, <3>1, Zenon DEF JoinsAssociatively
    <3> QED
      BY <3>2 DEF u, v
  <2> QED
    BY <1>3, <2>3, <2>5, <2>6, <2>7
<1> QED
  BY <1>4, <1>5

\* What one token of a prompt stands for.
SpellToken(t) == IF t \in Specials THEN SpecialTokenMap[t] ELSE <<t>>

\* Spelling goes token by token.
LEMMA SpellingIs ==
  ASSUME NEW ts \in Seq(PromptTokens)
  PROVE  LET s == [i \in 1 .. Len(ts) |-> SpellToken(ts[i])]
         IN  s \in Seq(Text) /\ Len(s) = Len(ts) /\ Spelling(ts) = FlattenSeq(s)
<1> DEFINE s == [i \in 1 .. Len(ts) |-> SpellToken(ts[i])]
<1>1. \A t \in PromptTokens : SpellToken(t) \in Text
  <2>1. \A t \in Specials : SpecialTokenMap[t] \in Text
    <3>1. ImStart \in Text /\ ImEnd \in Text /\ EndOfText \in Text
      BY GenerationAssumption DEF ImStart, ImEnd, EndOfText, Text
    <3> QED
      BY <3>1 DEF Specials, SpecialTokenMap
  <2>2. \A t \in Characters : <<t>> \in Text
    BY DEF Text
  <2> QED
    BY <2>1, <2>2 DEF SpellToken, PromptTokens
<1>2. DOMAIN ts = 1 .. Len(ts) /\ Len(ts) \in Nat
  OBVIOUS
<1>3. s \in [1 .. Len(ts) -> Text] /\ DOMAIN s = 1 .. Len(ts)
  BY <1>1
<1>4. Spelling(ts) = FlattenSeq(s)
  BY <1>2 DEF Spelling, SpellToken
<1> HIDE DEF s
<1>5. s \in Seq(Text)
  BY <1>2, <1>3, SeqDef
<1>6. Len(s) = Len(ts)
  BY <1>2, <1>3, <1>5
<1> QED
  BY <1>4, <1>5, <1>6 DEF s

LEMMA SpellingConcat ==
  ASSUME NEW a \in Seq(PromptTokens), NEW b \in Seq(PromptTokens)
  PROVE  Spelling(a \o b) = Spelling(a) \o Spelling(b)
<1> DEFINE sa == [i \in 1 .. Len(a) |-> SpellToken(a[i])]
           sb == [i \in 1 .. Len(b) |-> SpellToken(b[i])]
           c == a \o b
           sc == [i \in 1 .. Len(c) |-> SpellToken(c[i])]
<1>1. c \in Seq(PromptTokens) /\ Len(c) = Len(a) + Len(b)
  OBVIOUS
<1>2. sa \in Seq(Text) /\ Len(sa) = Len(a) /\ Spelling(a) = FlattenSeq(sa)
  BY SpellingIs
<1>3. sb \in Seq(Text) /\ Len(sb) = Len(b) /\ Spelling(b) = FlattenSeq(sb)
  BY SpellingIs
<1>4. sc \in Seq(Text) /\ Len(sc) = Len(c) /\ Spelling(c) = FlattenSeq(sc)
  <2> HIDE DEF c
  <2> QED
    BY <1>1, SpellingIs
<1>5. \A i \in 1 .. Len(a) + Len(b) :
        c[i] = IF i <= Len(a) THEN a[i] ELSE b[i - Len(a)]
  OBVIOUS
<1>6. sc = sa \o sb
  <2>1. ASSUME NEW i \in 1 .. Len(a) + Len(b)
        PROVE  sc[i] = IF i <= Len(a) THEN sa[i] ELSE sb[i - Len(a)]
    <3> HIDE DEF c
    <3>1. sc[i] = SpellToken(c[i])
      BY <1>1
    <3>2. i <= Len(a) => sa[i] = SpellToken(a[i])
      OBVIOUS
    <3>3. ~(i <= Len(a)) => sb[i - Len(a)] = SpellToken(b[i - Len(a)])
      OBVIOUS
    <3> HIDE DEF sa, sb, sc
    <3> QED
      BY <1>5, <3>1, <3>2, <3>3
  <2> HIDE DEF sa, sb, sc, c
  <2> DEFINE d == sa \o sb
  <2>j. Joined(d, sa, sb, Text)
    BY <1>2, <1>3, ConcatJoins, Zenon
  <2> HIDE DEF d
  <2>2. d \in Seq(Text) /\ Len(d) = Len(a) + Len(b)
    BY <1>2, <1>3, <2>j DEF Joined
  <2>3. \A i \in 1 .. Len(a) + Len(b) :
          d[i] = IF i <= Len(a) THEN sa[i] ELSE sb[i - Len(a)]
    <3> SUFFICES ASSUME NEW i \in 1 .. Len(a) + Len(b)
                 PROVE  d[i] = IF i <= Len(a) THEN sa[i] ELSE sb[i - Len(a)]
      OBVIOUS
    <3>1. Len(sa) \in Nat /\ Len(sb) \in Nat /\ Len(sa) = Len(a) /\ Len(sb) = Len(b)
      BY <1>2, <1>3, <2>j DEF Joined
    <3>2. CASE i <= Len(a)
      BY <2>j, <3>1, <3>2 DEF Joined
    <3>3. CASE ~(i <= Len(a))
      <4>1. i - Len(a) \in 1 .. Len(sb) /\ Len(sa) + (i - Len(a)) = i
        BY <3>1, <3>3
      <4>2. d[Len(sa) + (i - Len(a))] = sb[i - Len(a)]
        BY <2>j, <4>1, Zenon DEF Joined
      <4> QED
        BY <3>3, <4>1, <4>2
    <3> QED
      BY <3>2, <3>3
  <2> QED
    <3>1. \A i \in 1 .. Len(sc) : sc[i] = d[i]
      BY <1>1, <1>4, <2>1, <2>3
    <3>2. sc = d
      BY <1>1, <1>4, <2>2, <3>1, SeqEqual
    <3> QED
      BY <3>2 DEF d
<1> HIDE DEF sa, sb, sc
<1>7. FlattenSeq(sa \o sb) = FlattenSeq(sa) \o FlattenSeq(sb)
  BY <1>2, <1>3, FlattenConcat DEF Text
<1> QED
  BY <1>2, <1>3, <1>4, <1>6, <1>7

\* One token, and none.
LEMMA SpellingOne ==
  ASSUME NEW t \in PromptTokens
  PROVE  Spelling(<<t>>) = SpellToken(t) /\ Spelling(<<>>) = <<>>
<1> DEFINE s == [i \in 1 .. 1 |-> SpellToken(<<t>>[i])]
<1>1. <<t>> \in Seq(PromptTokens) /\ Len(<<t>>) = 1
  OBVIOUS
<1>2. s \in Seq(Text) /\ Len(s) = 1 /\ Spelling(<<t>>) = FlattenSeq(s)
  BY <1>1, SpellingIs
<1>3. s[1] = SpellToken(t)
  OBVIOUS
<1> HIDE DEF s
<1>4. PICK f : Flattens(f, s, 1) /\ FlattenSeq(s) = f[1]
  <2>1. Len(s) = 1 /\ Len(s) \in Nat \ {0}
    BY <1>2
  <2>2. \E f : Flattens(f, s, Len(s)) /\ FlattenSeq(s) = f[Len(s)]
    BY <2>1, FlattenIs
  <2> QED
    BY <2>1, <2>2
<1>5. f[1] = s[1]
  BY <1>4 DEF Flattens
<1>6. Spelling(<<>>) = <<>>
  BY DEF Spelling, FlattenSeq
<1> QED
  BY <1>2, <1>3, <1>4, <1>5, <1>6

\* A text without special tokens spells itself.
LEMMA SpellingText ==
  ASSUME NEW s \in Text
  PROVE  Spelling(s) = s
<1> DEFINE T == {m \in Nat : \E x \in Text : Len(x) = m /\ Spelling(x) # x}
<1>1. SUFFICES ASSUME T # {} PROVE FALSE
  <2>1. Len(s) \in Nat
    BY DEF Text
  <2> QED
    BY <2>1
<1>2. PICK m \in T : \A y \in T : m <= y
  <2>1. T \subseteq Nat
    OBVIOUS
  <2> QED
    BY <2>1, <1>1, LeastOf
<1>3. PICK x \in Text : Len(x) = m /\ Spelling(x) # x
  BY <1>2
<1>4. CASE x = <<>>
  BY <1>3, <1>4 DEF Spelling, FlattenSeq
<1>5. CASE x # <<>>
  <2>1. PICK c \in Text, e \in Characters : x = Append(c, e) /\ Len(c) = Len(x) - 1
    BY <1>5, SeqSplit DEF Text
  <2>2. Len(c) \in Nat /\ Len(c) < m
    BY <1>3, <2>1 DEF Text
  <2>3. Spelling(c) = c
    BY <1>2, <2>1, <2>2
  <2>4. c \in Seq(PromptTokens) /\ <<e>> \in Seq(PromptTokens) /\ e \in PromptTokens
    BY <2>1 DEF Text, PromptTokens
  <2>5. x = c \o <<e>>
    BY <2>1 DEF Text
  <2>6. Spelling(<<e>>) = <<e>>
    BY <2>1, <2>4, SpellingOne, GenerationAssumption DEF SpellToken
  <2>7. Spelling(c \o <<e>>) = Spelling(c) \o Spelling(<<e>>)
    BY <2>4, SpellingConcat
  <2> QED
    BY <1>3, <2>3, <2>5, <2>6, <2>7
<1> QED
  BY <1>4, <1>5

\* A piece of a text is the piece up to a position and the piece from it on.
LEMMA SubSeqJoin ==
  ASSUME NEW s \in Text, NEW a \in 1 .. Len(s) + 1, NEW b \in a .. Len(s) + 1,
         NEW c \in b .. Len(s) + 1
  PROVE  SubSeq(s, a, c - 1) = SubSeq(s, a, b - 1) \o SubSeq(s, b, c - 1)
<1> DEFINE x == SubSeq(s, a, c - 1)
           y == SubSeq(s, a, b - 1)
           z == SubSeq(s, b, c - 1)
<1>0. Len(s) \in Nat /\ a \in Nat /\ b \in Nat /\ c \in Nat
      /\ 1 <= a /\ a <= b /\ b <= c /\ c <= Len(s) + 1
  BY DEF Text
<1>1. x \in Text /\ Len(x) = c - a /\ \A i \in 1 .. c - a : x[i] = s[a + i - 1]
  BY <1>0 DEF Text
<1>2. y \in Text /\ Len(y) = b - a /\ \A i \in 1 .. b - a : y[i] = s[a + i - 1]
  BY <1>0 DEF Text
<1>3. z \in Text /\ Len(z) = c - b /\ \A i \in 1 .. c - b : z[i] = s[b + i - 1]
  BY <1>0 DEF Text
<1> HIDE DEF x, y, z
<1>4. Joined(y \o z, y, z, Characters)
  <2>1. y \in Seq(Characters) /\ z \in Seq(Characters)
    BY <1>2, <1>3 DEF Text
  <2> QED
    BY <2>1, ConcatJoins
<1> DEFINE w == y \o z
<1> HIDE DEF w
<1>5. w \in Text /\ Len(w) = c - a /\ \A i \in 1 .. c - a : w[i] = s[a + i - 1]
  <2>1. Joined(w, y, z, Characters)
    BY <1>4 DEF w
  <2>2. w \in Text /\ Len(w) = c - a
    BY <1>0, <1>2, <1>3, <2>1 DEF Joined, Text
  <2>3. ASSUME NEW i \in 1 .. c - a, i <= b - a PROVE w[i] = s[a + i - 1]
    <3>1. i \in 1 .. b - a /\ i \in 1 .. Len(y)
      BY <1>0, <1>2, <2>3
    <3> QED
      BY <1>2, <2>1, <3>1 DEF Joined
  <2>4. ASSUME NEW i \in 1 .. c - a, i > b - a PROVE w[i] = s[a + i - 1]
    <3> DEFINE j == i - (b - a)
    <3>1. j \in 1 .. c - b /\ b + j - 1 = a + i - 1 /\ (b - a) + j = i
      BY <1>0, <2>4
    <3> HIDE DEF j
    <3>2. w[(b - a) + j] = z[j]
      BY <1>2, <1>3, <2>1, <3>1 DEF Joined
    <3>3. z[j] = s[b + j - 1]
      BY <1>3, <3>1
    <3> QED
      BY <3>1, <3>2, <3>3
  <2>5. \A i \in 1 .. c - a : i <= b - a \/ i > b - a
    BY <1>0
  <2> QED
    BY <2>2, <2>3, <2>4, <2>5
<1>6. x = w
  BY <1>0, <1>1, <1>5, SeqEqual DEF Text
<1> QED
  BY <1>6 DEF w, x, y, z

\* A text is what comes before a position and what comes from it on.
LEMMA SubSeqSplit ==
  ASSUME NEW s \in Text, NEW a \in 1 .. Len(s) + 1, NEW b \in a .. Len(s) + 1
  PROVE  SubSeq(s, a, Len(s)) = SubSeq(s, a, b - 1) \o SubSeq(s, b, Len(s))
<1>1. Len(s) + 1 \in b .. Len(s) + 1 /\ (Len(s) + 1) - 1 = Len(s)
  BY DEF Text
<1>2. SubSeq(s, a, (Len(s) + 1) - 1) =
        SubSeq(s, a, b - 1) \o SubSeq(s, b, (Len(s) + 1) - 1)
  BY <1>1, SubSeqJoin
<1> QED
  BY <1>1, <1>2

\* QwenBPETokenizer::tokenize loses no character of any text: its tokens,
\* special ones and bytes, spell the text it was given.
THEOREM EncodingLossless == \A s \in Text : Spelling(Tokenize(s)) = s
<1> SUFFICES ASSUME NEW s \in Text PROVE Spelling(Tokenize(s)) = s
  OBVIOUS
<1> DEFINE n == Len(s)
           g == CHOOSE f : f = [pos \in 1 .. Len(s) + 1 |-> TokenizeFrom(s, pos, f)]
<1>1. Encodes(g, s, 1)
  BY EncodingExists DEF Encodes
<1>2. Tokenize(s) = g[1]
  BY DEF Tokenize
<1> HIDE DEF g
<1>3. n \in Nat
  BY DEF Text
<1> HIDE DEF n
<1>4. \A pos \in 1 .. n + 1 : g[pos] = TokenizeFrom(s, pos, g)
  BY <1>1 DEF Encodes, n
<1> DEFINE Good(pos) == g[pos] \in Seq(PromptTokens) /\ Spelling(g[pos]) = SubSeq(s, pos, n)
           T == {m \in 0 .. n : ~Good(n + 1 - m)}
<1>5. SUFFICES ASSUME T # {} PROVE FALSE
  <2>1. n \in 0 .. n /\ n + 1 - n = 1
    BY <1>3
  <2>2. Good(1)
    BY <2>1
  <2>3. SubSeq(s, 1, n) = s
    BY DEF Text, n
  <2> QED
    BY <1>2, <2>2, <2>3
<1>6. PICK m \in T : \A y \in T : m <= y
  <2>1. T \subseteq Nat
    BY <1>3
  <2> QED
    BY <2>1, <1>5, LeastOf
<1> DEFINE pos == n + 1 - m
<1>7. pos \in 1 .. n + 1
  BY <1>3, <1>6
<1>8. ASSUME NEW p \in pos + 1 .. n + 1
      PROVE  g[p] \in Seq(PromptTokens) /\ Spelling(g[p]) = SubSeq(s, p, n)
  <2>1. n + 1 - p \in 0 .. n /\ n + 1 - p < m /\ n + 1 - (n + 1 - p) = p
    BY <1>3, <1>6, <1>7
  <2> QED
    BY <2>1, <1>6
<1>a. SUFFICES ASSUME TRUE PROVE Spelling(g[pos]) = SubSeq(s, pos, n)
  <2>1. g[pos] \in Seq(PromptTokens)
    <3> HIDE DEF pos, T
    <3> QED
      BY <1>4, <1>7, <1>8, TokenizeFromType DEF n
  <2> QED
    BY <1>6, <2>1
<1> HIDE DEF pos, T
<1>9. g[pos] = TokenizeFrom(s, pos, g)
  BY <1>4, <1>7
<1>10. CASE pos > n
  <2>1. g[pos] = <<>>
    BY <1>9, <1>10 DEF TokenizeFrom, n
  <2>2. SubSeq(s, pos, n) = <<>>
    BY <1>3, <1>7, <1>10 DEF Text, n
  <2>3. Spelling(<<>>) = <<>>
    BY DEF Spelling, FlattenSeq
  <2> QED
    BY <2>1, <2>2, <2>3
<1>11. CASE ~(pos > n) /\ SpecialAt(s, pos) # {}
  <2> DEFINE t == CHOOSE t \in SpecialAt(s, pos) : TRUE
             next == pos + Len(SpecialTokenMap[t])
  <2>1. t \in SpecialAt(s, pos)
    BY <1>11
  <2>2. g[pos] = <<t>> \o g[next]
    BY <1>9, <1>11 DEF TokenizeFrom, n
  <2>3. pos \in 1 .. Len(s)
    BY <1>3, <1>7, <1>11 DEF n
  <2> HIDE DEF t
  <2>4. t \in Specials /\ next \in pos + 1 .. n + 1
    BY <2>1, <2>3, SpecialFits DEF n
  <2>5. SpecialTokenMap[t] = SubSeq(s, pos, next - 1)
    <3>1. SubSeq(s, pos, pos + Len(SpecialTokenMap[t]) - 1) = SpecialTokenMap[t]
      BY <2>1 DEF SpecialAt, At
    <3>2. Len(SpecialTokenMap[t]) \in Nat
      BY <2>1, <2>3, SpecialFits
    <3>3. next - 1 = pos + Len(SpecialTokenMap[t]) - 1
      BY <2>3, <3>2
    <3> HIDE DEF next
    <3> QED
      BY <3>1, <3>3
  <2> HIDE DEF next
  <2>6. g[next] \in Seq(PromptTokens) /\ Spelling(g[next]) = SubSeq(s, next, n)
    BY <1>8, <2>4
  <2>7. t \in PromptTokens /\ <<t>> \in Seq(PromptTokens)
    BY <2>4 DEF PromptTokens
  <2>8. Spelling(<<t>>) = SpecialTokenMap[t]
    BY <2>4, <2>7, SpellingOne DEF SpellToken
  <2>9. Spelling(g[pos]) = SpecialTokenMap[t] \o SubSeq(s, next, n)
    BY <2>2, <2>6, <2>7, <2>8, SpellingConcat
  <2>10. pos \in 1 .. Len(s) + 1 /\ next \in pos .. Len(s) + 1
    BY <1>3, <1>7, <2>4 DEF n
  <2>11. SubSeq(s, pos, n) = SubSeq(s, pos, next - 1) \o SubSeq(s, next, n)
    BY <2>10, SubSeqSplit DEF n
  <2> QED
    BY <2>5, <2>9, <2>11
<1>12. CASE ~(pos > n) /\ SpecialAt(s, pos) = {}
  <2> DEFINE next == NextSpecial(s, pos)
             chunk == SubSeq(s, pos, next - 1)
  <2>1. g[pos] = chunk \o g[next]
    BY <1>9, <1>12 DEF TokenizeFrom, TokenizeChunk, n
  <2>2. pos \in 1 .. Len(s)
    BY <1>3, <1>7, <1>12 DEF n
  <2>3. next \in pos + 1 .. n + 1
    BY <1>12, <2>2, NextSpecialLater DEF n
  <2> HIDE DEF next
  <2>4. g[next] \in Seq(PromptTokens) /\ Spelling(g[next]) = SubSeq(s, next, n)
    BY <1>8, <2>3
  <2>5. chunk \in Text
    BY <1>3, <1>7, <2>2, <2>3 DEF Text, n
  <2> HIDE DEF chunk
  <2>6. chunk \in Seq(PromptTokens) /\ Spelling(chunk) = chunk
    BY <2>5, SpellingText DEF Text, PromptTokens
  <2>7. Spelling(g[pos]) = chunk \o SubSeq(s, next, n)
    BY <2>1, <2>4, <2>6, SpellingConcat
  <2>8. pos \in 1 .. Len(s) + 1 /\ next \in pos .. Len(s) + 1
    BY <1>3, <1>7, <2>3 DEF n
  <2>9. SubSeq(s, pos, n) = SubSeq(s, pos, next - 1) \o SubSeq(s, next, n)
    BY <2>8, SubSeqSplit DEF n
  <2> QED
    BY <2>7, <2>9 DEF chunk
<1> QED
  BY <1>10, <1>11, <1>12

-----------------------------------------------------------------------------
(* The sampler.                                                            *)

\* The weights of finitely many tokens have a sum.
LEMMA WeightsFinite ==
  ASSUME NEW n \in Nat, NEW w \in [1 .. n -> Nat]
  PROVE  IsFiniteSet(Units(w, 1 .. n))
<1> DEFINE T == {m \in 0 .. n : ~IsFiniteSet(Units(w, 1 .. m))}
<1>1. SUFFICES ASSUME T # {} PROVE FALSE
  OBVIOUS
<1>2. PICK m \in T : \A y \in T : m <= y
  <2>1. T \subseteq Nat
    OBVIOUS
  <2> QED
    BY <2>1, <1>1, LeastOf
<1>3. CASE m = 0
  <2>1. 1 .. m = {}
    BY <1>3
  <2>2. IsFiniteSet(Units(w, {}))
    BY SumZero
  <2> QED
    BY <2>1, <2>2, <1>2
<1>4. CASE m # 0
  <2>1. m - 1 \in 0 .. n /\ m - 1 < m /\ m \in 1 .. n
    BY <1>2, <1>4
  <2>2. IsFiniteSet(Units(w, 1 .. m - 1))
    BY <2>1, <1>2
  <2>3. m \notin 1 .. m - 1 /\ w[m] \in Nat /\ 1 .. m = (1 .. m - 1) \cup {m}
    BY <2>1
  <2>4. IsFiniteSet(Units(w, (1 .. m - 1) \cup {m}))
    BY <2>2, <2>3, SumAdd
  <2> QED
    BY <2>3, <2>4, <1>2
<1> QED
  BY <1>2, <1>3, <1>4

\* Fewer tokens weigh no more.
LEMMA WeightGrows ==
  ASSUME NEW n \in Nat, NEW w \in [1 .. n -> Nat],
         NEW S, NEW R, S \subseteq R, R \subseteq 1 .. n
  PROVE  Weight(w, S) \in Nat /\ Weight(w, R) \in Nat /\ Weight(w, S) <= Weight(w, R)
<1>1. \A x \in 1 .. n : w[x] \in Int /\ w[x] <= w[x]
  OBVIOUS
<1>2. IsFiniteSet(Units(w, R))
  BY <1>1, WeightsFinite, SumMonotone
<1>3. IsFiniteSet(Units(w, S)) /\ Sum(w, S) <= Sum(w, R)
  BY <1>1, <1>2, SumMonotone
<1> QED
  BY <1>2, <1>3, SumType DEF Weight

\* The least member of a set of numbers.
LEMMA MinIs ==
  ASSUME NEW S, S \subseteq Nat, S # {}
  PROVE  Min(S) \in S /\ \A x \in S : Min(S) <= x
<1>1. \E x \in S : \A y \in S : x <= y
  BY LeastOf
<1> QED
  BY <1>1 DEF Min

\* No token is heavier than the one sample_greedy takes.
LEMMA GreedyIsHeaviest ==
  ASSUME NEW n \in Nat, n > 0, NEW w \in [1 .. n -> Nat]
  PROVE  SampleGreedy(w) \in 1 .. n /\ \A u \in 1 .. n : w[u] <= w[SampleGreedy(w)]
<1> DEFINE bounds == {b \in Nat : \A u \in 1 .. n : w[u] <= b}
           best == {t \in 1 .. n : \A u \in 1 .. n : w[u] <= w[t]}
<1>1. Sum(w, 1 .. n) \in bounds
  <2>1. IsFiniteSet(Units(w, 1 .. n))
    BY WeightsFinite
  <2>2. Sum(w, 1 .. n) \in Nat
    BY <2>1, SumType
  <2>3. \A u \in 1 .. n : w[u] <= Sum(w, 1 .. n)
    BY <2>1, SumRemove
  <2> QED
    BY <2>2, <2>3
<1>2. PICK b \in bounds : \A c \in bounds : b <= c
  BY <1>1, LeastOf
<1>3. \E t \in 1 .. n : w[t] = b
  <2>1. SUFFICES ASSUME \A t \in 1 .. n : w[t] # b PROVE FALSE
    OBVIOUS
  <2>2. \A t \in 1 .. n : w[t] <= b - 1
    BY <1>2, <2>1
  <2>3. 1 \in 1 .. n /\ w[1] \in Nat
    OBVIOUS
  <2>4. b - 1 \in Nat
    BY <1>2, <2>2, <2>3
  <2>5. b - 1 \in bounds
    BY <2>2, <2>4
  <2> QED
    BY <1>2, <2>5
<1>4. best # {} /\ best \subseteq Nat
  <2>1. PICK t \in 1 .. n : w[t] = b
    BY <1>3
  <2>2. \A u \in 1 .. n : w[u] <= w[t]
    BY <1>2, <2>1
  <2>3. t \in best
    BY <2>2
  <2> QED
    BY <2>3
<1>5. SampleGreedy(w) = Min(best)
  <2>1. DOMAIN w = 1 .. n
    OBVIOUS
  <2> QED
    BY <2>1 DEF SampleGreedy
<1> HIDE DEF best
<1>6. Min(best) \in best
  BY <1>4, MinIs
<1> QED
  BY <1>5, <1>6 DEF best

\* The first m of the candidates.
Firsts(s, m) == {s[j] : j \in 1 .. m}

\* What sample_top_p can draw is in the true nucleus.
LEMMA TopPInNucleus ==
  ASSUME NEW n \in Nat, n > 0, NEW w \in [1 .. n -> Nat], NEW topP \in 0 .. 10,
         NEW t \in SampleTopP(w, topP)
  PROVE  LET heavier == {u \in 1 .. n : w[u] > w[t]}
         IN  heavier = {} \/ 10 * Weight(w, heavier) < topP * Weight(w, 1 .. n)
<1> DEFINE k == MaxCandidates(w, topP)
           heavier == {u \in 1 .. n : w[u] > w[t]}
<1>1. k \in 1 .. n
  <2> DEFINE c == IF topP >= 9 THEN HighCandidates ELSE LowCandidates
  <2>1. Cardinality(DOMAIN w) = n
    <3>1. DOMAIN w = 1 .. n
      OBVIOUS
    <3>2. Cardinality(1 .. n) = n
      BY FS_Interval
    <3> QED
      BY <3>1, <3>2
  <2>2. c \in Nat \ {0}
    BY SamplerAssumption
  <2>3. k = Min({n, c})
    BY <2>1 DEF MaxCandidates
  <2> HIDE DEF c, k
  <2>4. {n, c} \subseteq Nat /\ {n, c} # {}
    BY <2>2
  <2>5. Min({n, c}) \in {n, c} /\ Min({n, c}) <= n
    BY <2>4, MinIs
  <2> QED
    BY <2>2, <2>3, <2>5
<1>2. PICK s \in PartialSorts(w, k) :
        t \in {x \in {s[i] : i \in 1 .. NucleusSize(w, s, k, topP)} : w[x] > 0}
  BY DEF SampleTopP
<1>3. PICK i \in 1 .. NucleusSize(w, s, k, topP) : t = s[i]
  BY <1>2
<1> HIDE DEF k
<1>4. /\ s \in [1 .. k -> 1 .. n]
      /\ \A a, b \in 1 .. k : a < b => s[a] # s[b] /\ w[s[a]] >= w[s[b]]
      /\ \A x \in 1 .. n \ {s[a] : a \in 1 .. k} : w[x] <= w[s[k]]
  <2>1. DOMAIN w = 1 .. n
    OBVIOUS
  <2> QED
    BY <1>2, <2>1 DEF PartialSorts
<1> DEFINE reach == {m \in 1 .. k : 10 * Weight(w, Firsts(s, m)) >= topP * Weight(w, Firsts(s, k))}
<1>5. \A m \in 0 .. k : Firsts(s, m) \subseteq 1 .. n
  BY <1>1, <1>4 DEF Firsts
<1>6. NucleusSize(w, s, k, topP) = Min(reach)
  BY DEF NucleusSize, Firsts
<1>7. \A m \in 0 .. k : Weight(w, Firsts(s, m)) \in Nat
  BY <1>5, WeightGrows
<1>8. k \in reach
  <2> DEFINE a == Weight(w, Firsts(s, k))
  <2>1. a \in Nat
    BY <1>1, <1>7
  <2> HIDE DEF a
  <2>2. 10 * a >= topP * a
    BY <2>1
  <2> QED
    BY <1>1, <2>2 DEF a
<1>9. Min(reach) \in 1 .. k /\ \A m \in reach : Min(reach) <= m
  <2>1. reach \subseteq 1 .. k /\ reach \subseteq Nat
    OBVIOUS
  <2> HIDE DEF reach
  <2>2. Min(reach) \in reach /\ \A m \in reach : Min(reach) <= m
    BY <1>8, <2>1, MinIs
  <2> QED
    BY <2>1, <2>2
<1> HIDE DEF reach
<1>10. i \in 1 .. k /\ i <= Min(reach)
  BY <1>1, <1>3, <1>6, <1>9
<1>11. heavier \subseteq Firsts(s, i - 1)
  <2> SUFFICES ASSUME NEW u \in heavier PROVE u \in Firsts(s, i - 1)
    OBVIOUS
  <2>1. PICK j \in 1 .. k : u = s[j]
    <3>1. w[s[k]] <= w[s[i]]
      BY <1>1, <1>4, <1>10
    <3>2. w[u] \in Nat /\ w[s[k]] \in Nat /\ w[s[i]] \in Nat /\ w[u] > w[s[i]]
      <4>1. u \in 1 .. n /\ w[u] > w[t] /\ t = s[i]
        BY <1>3
      <4>2. s[k] \in 1 .. n /\ s[i] \in 1 .. n
        BY <1>1, <1>4, <1>10
      <4>3. \A x \in 1 .. n : w[x] \in Nat
        OBVIOUS
      <4> QED
        BY <4>1, <4>2, <4>3
    <3> QED
      BY <1>4, <3>1, <3>2
  <2>2. w[s[j]] > w[s[i]] /\ w[s[j]] \in Nat /\ w[s[i]] \in Nat
    BY <1>3, <1>4, <1>10, <2>1
  <2>3. j < i
    <3>1. ~(i < j)
      BY <1>4, <1>10, <2>2
    <3>2. i # j
      BY <2>2
    <3> QED
      BY <1>10, <3>1, <3>2
  <2> QED
    BY <1>10, <2>1, <2>3 DEF Firsts
<1>12. CASE i = 1
  BY <1>11, <1>12 DEF Firsts
<1>13. CASE i # 1
  <2>1. i - 1 \in 1 .. k /\ i - 1 \notin reach
    BY <1>1, <1>9, <1>10, <1>13
  <2> DEFINE a == Weight(w, Firsts(s, i - 1))
             c == Weight(w, Firsts(s, k))
             all == Weight(w, 1 .. n)
             h == Weight(w, heavier)
  <2>2. a \in Nat /\ c \in Nat
    BY <1>1, <1>7, <2>1
  <2>3. 10 * a < topP * c
    <3>1. ~(10 * a >= topP * c)
      BY <2>1 DEF reach
    <3> HIDE DEF a, c
    <3> QED
      BY <2>2, <3>1
  <2>4. all \in Nat /\ c <= all
    <3>1. Firsts(s, k) \subseteq 1 .. n
      BY <1>1, <1>5
    <3> QED
      BY <3>1, WeightGrows
  <2>5. h \in Nat /\ h <= a
    <3>1. Firsts(s, i - 1) \subseteq 1 .. n
      BY <1>5, <2>1
    <3> QED
      BY <3>1, <1>11, WeightGrows
  <2> HIDE DEF a, c, all, h
  <2>6. topP * c <= topP * all
    BY <2>2, <2>4
  <2>7. 10 * h < topP * all
    BY <2>2, <2>3, <2>4, <2>5, <2>6
  <2> QED
    BY <2>7 DEF all, h
<1> QED
  BY <1>12, <1>13

\* What sample can draw is a token, and in the true nucleus.
LEMMA SampleInNucleus ==
  ASSUME NEW w \in Logits, NEW temperature \in Int, NEW topP \in 0 .. 10,
         NEW t \in Sample(w, temperature, topP)
  PROVE  LET heavier == {u \in DOMAIN w : w[u] > w[t]}
         IN  /\ temperature = 0 => heavier = {}
             /\ heavier = {} \/ 10 * Weight(w, heavier) < topP * Weight(w, DOMAIN w)
<1> DEFINE n == Len(TokenText)
<1>1. n \in Nat /\ n > 0 /\ w \in [1 .. n -> Nat] /\ DOMAIN w = 1 .. n
  BY GenerationAssumption DEF Text
<1> HIDE DEF n
<1>2. CASE temperature <= 0
  <2>1. t = SampleGreedy(w)
    BY <1>2 DEF Sample
  <2>2. t \in 1 .. n /\ \A u \in 1 .. n : w[u] <= w[t]
    BY <1>1, <2>1, GreedyIsHeaviest
  <2>3. \A u \in 1 .. n : w[u] \in Nat /\ ~(w[u] > w[t])
    BY <1>1, <2>2
  <2> QED
    BY <1>1, <2>3
<1>3. CASE ~(temperature <= 0)
  <2>1. t \in SampleTopP(w, topP) /\ temperature # 0
    BY <1>3 DEF Sample
  <2> QED
    BY <1>1, <2>1, TopPInNucleus
<1> QED
  BY <1>2, <1>3

-----------------------------------------------------------------------------
(* The request.                                                            *)

Roles == {"system", "user", "assistant", "tool"}
RoledMessage == [role : Roles, content : Text, tool_call_id : SUBSET STRING]

\* A request that is parsed, and one that is valid and has its defaults.
ParsedRequest ==
  [model : STRING, messages : Seq(RoledMessage),
   temperature : SUBSET Int, top_p : SUBSET Int, max_tokens : SUBSET Int,
   stop : SUBSET Seq(Text)]

ValidRequest ==
  [model : STRING, messages : Seq(RoledMessage),
   temperature : 0 .. 20, top_p : 0 .. 10, max_tokens : 1 .. MaxCompletion,
   stop : Seq(Text \ {<<>>})]

LEMMA ParsedType ==
  ASSUME NEW b \in ChatCompletionRequest
  PROVE  FromJson(b) \in ParsedRequest
<1> DEFINE m == b.messages
           roled == [i \in DOMAIN m |-> [m[i] EXCEPT !.role = StringToRole(@)]]
<1>1. m \in Seq(Message)
  BY DEF ChatCompletionRequest
<1>2. \A i \in DOMAIN m : [m[i] EXCEPT !.role = StringToRole(@)] \in RoledMessage
  <2> TAKE i \in DOMAIN m
  <2>1. m[i] \in Message
    BY <1>1
  <2>2. \A x : StringToRole(x) \in Roles
    BY DEF StringToRole, Roles
  <2> QED
    BY <2>1, <2>2 DEF Message, RoledMessage
<1>3. roled \in Seq(RoledMessage)
  <2>1. Len(m) \in Nat /\ DOMAIN m = 1 .. Len(m)
    BY <1>1
  <2> HIDE DEF m
  <2>2. roled \in [1 .. Len(m) -> RoledMessage]
    BY <1>2, <2>1
  <2> HIDE DEF roled
  <2> QED
    BY <2>1, <2>2, SeqDef
<1>4. FromJson(b) = [b EXCEPT !.messages = roled]
  BY DEF FromJson
<1> HIDE DEF roled
<1> QED
  BY <1>3, <1>4 DEF ChatCompletionRequest, ParsedRequest

LEMMA DefaultsType ==
  ASSUME NEW r \in ParsedRequest, Validate(r)
  PROVE  /\ ApplyDefaults(r) \in ValidRequest
         /\ ApplyDefaults(r).messages # <<>>
<1>1. ValueOr(r.temperature, 10) \in 0 .. 20
  BY DEF ValueOr, Validate, ValidTemperature
<1>2. ValueOr(r.top_p, 10) \in 0 .. 10
  BY DEF ValueOr, Validate, ValidTopP
<1>3. ValueOr(r.max_tokens, DefaultMaxTokens) \in 1 .. MaxCompletion
  BY ValidatorAssumption DEF ValueOr, Validate, ValidMaxTokens
<1>4. ValueOr(r.stop, <<>>) \in Seq(Text \ {<<>>})
  <2>1. ASSUME NEW stop \in r.stop
        PROVE  stop \in Seq(Text \ {<<>>})
    <3>1. stop \in Seq(Text) /\ ValidStop(stop)
      BY <2>1 DEF ParsedRequest, Validate
    <3>2. \A i \in 1 .. Len(stop) : stop[i] \in Text \ {<<>>}
      BY <3>1 DEF ValidStop
    <3> QED
      BY <3>1, <3>2
  <2>2. <<>> \in Seq(Text \ {<<>>})
    OBVIOUS
  <2> QED
    BY <2>1, <2>2 DEF ValueOr
<1>5. r.messages # <<>>
  BY DEF Validate, ValidMessages
<1>6. ApplyDefaults(r) \in ValidRequest
  BY <1>1, <1>2, <1>3, <1>4 DEF ApplyDefaults, ParsedRequest, ValidRequest
<1>7. ApplyDefaults(r).messages = r.messages
  BY DEF ApplyDefaults, ParsedRequest
<1> QED
  BY <1>5, <1>6, <1>7

\* The characters of the template.
LEMMA TemplateText ==
  /\ ImStart \in Text /\ ImEnd \in Text /\ <<"\n">> \in Text
  /\ <<"assistant", "\n">> \in Text /\ \A r \in Roles : <<r, "\n">> \in Text
BY GenerationAssumption DEF ImStart, ImEnd, Text, Roles

LEMMA TextConcat ==
  ASSUME NEW a \in Text, NEW b \in Text
  PROVE  a \o b \in Text
BY DEF Text

LEMMA FormatMessageType ==
  ASSUME NEW m, m.role \in Roles, m.content \in Text
  PROVE  FormatMessage(m) \in Text
<1>1. <<m.role, "\n">> \in Text
  BY TemplateText
<1>2. ImStart \o <<m.role, "\n">> \in Text
  BY <1>1, TemplateText, TextConcat
<1>3. (ImStart \o <<m.role, "\n">>) \o m.content \in Text
  BY <1>2, TextConcat
<1>4. ((ImStart \o <<m.role, "\n">>) \o m.content) \o ImEnd \in Text
  BY <1>3, TemplateText, TextConcat
<1>5. (((ImStart \o <<m.role, "\n">>) \o m.content) \o ImEnd) \o <<"\n">> \in Text
  BY <1>4, TemplateText, TextConcat
<1> QED
  BY <1>5 DEF FormatMessage

\* The formatted prompt is a text.
LEMMA PromptType ==
  ASSUME NEW c \in PromptBuilderConfig, NEW m \in Seq(RoledMessage), m # <<>>
  PROVE  BuildFormattedPrompt(c, m) \in Text
<1> DEFINE all == WithSystem(c, m)
           parts == [i \in DOMAIN all |-> FormatMessage(all[i])]
           M == RoledMessage \cup [role : Roles, content : Text]
<1>1. m \in Seq(M)
  OBVIOUS
<1>2. all \in Seq(M)
  <2> DEFINE system == [role |-> "system", content |-> c.system]
  <2>1. system \in M
    BY DEF PromptBuilderConfig, Roles
  <2> HIDE DEF M, system
  <2>2. <<system>> \o m \in Seq(M)
    BY <1>1, <2>1
  <2> QED
    BY <1>1, <2>2 DEF WithSystem, system
<1>3. \A x \in M : FormatMessage(x) \in Text
  BY FormatMessageType DEF RoledMessage
<1> HIDE DEF all, M
<1>4. parts \in Seq(Seq(Characters))
  <2>1. Len(all) \in Nat /\ DOMAIN all = 1 .. Len(all)
    BY <1>2
  <2>2. \A i \in DOMAIN all : FormatMessage(all[i]) \in Seq(Characters)
    BY <1>2, <1>3 DEF Text
  <2>3. parts \in [1 .. Len(all) -> Seq(Characters)]
    BY <2>1, <2>2
  <2> HIDE DEF parts
  <2> QED
    BY <2>1, <2>3, SeqDef
<1>5. FlattenSeq(parts) \in Text
  <2> HIDE DEF parts
  <2> QED
    BY <1>4, FlattenSeqType DEF Text
<1> DEFINE tail == IF c.generation THEN ImStart \o <<"assistant", "\n">> ELSE <<>>
<1>6. tail \in Text
  <2>1. ImStart \o <<"assistant", "\n">> \in Text /\ <<>> \in Text
    BY TemplateText, TextConcat DEF Text
  <2> QED
    BY <2>1
<1>7. m[1].content \in Text
  <2>1. m[1] \in RoledMessage
    <3> HIDE DEF parts, tail
    <3> QED
      OBVIOUS
  <2> QED
    BY <2>1 DEF RoledMessage
<1>8. BuildFormattedPrompt(c, m) =
        IF c.raw /\ IsAlreadyFormatted(m[1].content) THEN m[1].content
        ELSE FlattenSeq(parts) \o tail
  BY DEF BuildFormattedPrompt, all
<1> HIDE DEF parts, tail
<1>9. FlattenSeq(parts) \o tail \in Text
  BY <1>5, <1>6, TextConcat
<1> QED
  BY <1>7, <1>8, <1>9

-----------------------------------------------------------------------------
(* Putting sequences together, piece by piece.                             *)

\* stack[k] is the first k pieces, one after the other.
Stacks(stack, pieces, S) ==
  /\ stack \in [0 .. Len(pieces) -> Seq(S)] /\ stack[0] = <<>>
  /\ \A k \in 1 .. Len(pieces) : stack[k] = stack[k - 1] \o pieces[k]

LEMMA StackExists ==
  ASSUME NEW S, NEW p \in Seq(Seq(S))
  PROVE  \E k : Stacks(k, p, S) /\ FlattenSeq(p) = k[Len(p)]
<1> DEFINE n == Len(p)
<1>0. n \in Nat /\ \A i \in 1 .. n : p[i] \in Seq(S)
  OBVIOUS
<1>1. CASE n = 0
  <2> DEFINE k == [i \in 0 .. 0 |-> <<>>]
  <2>1. p = <<>> /\ FlattenSeq(p) = <<>>
    BY <1>1 DEF FlattenSeq
  <2>2. Stacks(k, p, S) /\ k[Len(p)] = <<>>
    BY <1>1, <2>1 DEF Stacks
  <2> QED
    BY <2>1, <2>2
<1>2. CASE n # 0
  <2>1. PICK f : Flattens(f, p, n) /\ FlattenSeq(p) = f[n]
    BY <1>0, <1>2, FlattenIs
  <2>2. \A i \in 1 .. n : f[i] \in Seq(S)
    <3> HIDE DEF n
    <3> QED
      BY <1>0, <2>1, FlattenType
  <2>3. \A i \in 1 .. n : f[i] = IF i = 1 THEN p[i] ELSE f[i - 1] \o p[i]
    <3> HIDE DEF n
    <3> QED
      BY <2>1 DEF Flattens
  <2> HIDE DEF n
  <2> DEFINE k == [i \in 0 .. n |-> IF i = 0 THEN <<>> ELSE f[i]]
  <2>4. k[0] = <<>> /\ k[n] = f[n] /\ k \in [0 .. n -> Seq(S)]
    BY <1>0, <1>2, <2>2
  <2>5. ASSUME NEW i \in 1 .. n
        PROVE  k[i] = k[i - 1] \o p[i]
    <3>1. CASE i = 1
      <4>1. k[i] = p[i] /\ k[i - 1] = <<>> /\ p[i] \in Seq(S)
        BY <1>0, <2>3, <3>1
      <4>2. <<>> \o p[i] = p[i]
        BY <4>1, ConcatText
      <4> QED
        BY <4>1, <4>2
    <3>2. CASE i # 1
      <4>1. k[i] = f[i] /\ k[i - 1] = f[i - 1]
        BY <1>0, <3>2
      <4> QED
        BY <2>3, <3>2, <4>1
    <3> QED
      BY <3>1, <3>2
  <2> HIDE DEF k
  <2>6. Stacks(k, p, S)
    BY <2>4, <2>5 DEF Stacks, n
  <2> QED
    BY <2>1, <2>4, <2>6 DEF n
<1> QED
  BY <1>1, <1>2

\* Each piece is in s, after those before it.
Splits(s, stack, pieces, S) ==
  \A i \in 1 .. Len(pieces) :
    \E r \in Seq(S) : s = stack[i - 1] \o (pieces[i] \o r)

\* Of what a stack begins, each piece follows the stack of those before it.
LEMMA StackSplits ==
  ASSUME NEW S, NEW p \in Seq(Seq(S)), NEW k, Stacks(k, p, S),
         NEW tail \in Seq(S)
  PROVE  Splits(k[Len(p)] \o tail, k, p, S)
<1> DEFINE n == Len(p)
           s == k[n] \o tail
           T == {m \in 0 .. n : ~\E r \in Seq(S) : s = k[n - m] \o r}
<1>0. n \in Nat /\ \A i \in 1 .. n : p[i] \in Seq(S)
  OBVIOUS
<1> HIDE DEF n, s
<1>1. /\ \A i \in 0 .. n : k[i] \in Seq(S)
      /\ \A i \in 1 .. n : k[i] = k[i - 1] \o p[i]
  BY DEF Stacks, n
<1>2. ASSUME NEW i \in 1 .. n, NEW r \in Seq(S), s = k[i] \o r
      PROVE  s = k[i - 1] \o (p[i] \o r) /\ p[i] \o r \in Seq(S)
  <2> DEFINE a == k[i - 1]
             b == p[i]
  <2>0. i - 1 \in 0 .. n
    BY <1>0
  <2>1. a \in Seq(S) /\ b \in Seq(S) /\ k[i] = a \o b
    BY <1>0, <1>1, <2>0
  <2> HIDE DEF a, b
  <2>2. (a \o b) \o r = a \o (b \o r)
    <3>1. JoinsAssociatively(S)
      BY ConcatAssoc
    <3> QED
      BY <2>1, <3>1, Zenon DEF JoinsAssociatively
  <2>3. b \o r \in Seq(S)
    BY <2>1
  <2> QED
    BY <1>2, <2>1, <2>2, <2>3 DEF a, b
<1>3. T = {}
  <2>1. SUFFICES ASSUME T # {} PROVE FALSE
    OBVIOUS
  <2>2. PICK m \in T : \A y \in T : m <= y
    <3>1. T \subseteq Nat
      BY <1>0
    <3> QED
      BY <2>1, <3>1, LeastOf
  <2>3. m # 0
    <3>1. n - 0 = n /\ s = k[n] \o tail
      BY <1>0 DEF s
    <3> QED
      BY <2>2, <3>1
  <2> DEFINE j == n - (m - 1)
  <2>4. m - 1 \in 0 .. n /\ m - 1 < m /\ j \in 1 .. n /\ j - 1 = n - m
    BY <1>0, <2>2, <2>3
  <2>5. PICK r \in Seq(S) : s = k[j] \o r
    <3>1. m - 1 \notin T
      <4>1. m \in Int
        BY <1>0, <2>2
      <4> HIDE DEF T, j
      <4>2. ~(m <= m - 1)
        BY <4>1
      <4> QED
        BY <2>2, <4>2
    <3> HIDE DEF j
    <3> QED
      BY <2>4, <3>1 DEF j
  <2> HIDE DEF j, T
  <2>6. s = k[j - 1] \o (p[j] \o r) /\ p[j] \o r \in Seq(S)
    BY <1>2, <2>4, <2>5
  <2>7. \E q \in Seq(S) : s = k[n - m] \o q
    BY <2>4, <2>6
  <2> QED
    BY <2>2, <2>7 DEF T
<1>4. ASSUME NEW i \in 1 .. n
      PROVE  \E r \in Seq(S) : s = k[i - 1] \o (p[i] \o r)
  <2>1. n - i \in 0 .. n /\ n - (n - i) = i
    BY <1>0
  <2>2. PICK r \in Seq(S) : s = k[i] \o r
    BY <1>3, <2>1
  <2> QED
    BY <1>2, <2>2
<1> QED
  BY <1>4 DEF Splits, n, s

-----------------------------------------------------------------------------
(* Counting.                                                               *)

\* The positions up to i where t is.
Places(ts, t, i) == {j \in 1 .. i : ts[j] = t}

LEMMA PlacesFinite ==
  ASSUME NEW ts, NEW t, NEW i \in Nat
  PROVE  IsFiniteSet(Places(ts, t, i)) /\ Cardinality(Places(ts, t, i)) \in Nat
<1>1. IsFiniteSet(1 .. i)
  BY FS_Interval
<1>2. Places(ts, t, i) \in SUBSET (1 .. i)
  BY DEF Places
<1> QED
  BY <1>1, <1>2, FS_Subset, FS_CardinalityType

\* Moving a set of numbers does not change how many they are.
LEMMA ShiftCount ==
  ASSUME NEW B \in SUBSET Int, IsFiniteSet(B), NEW n \in Int
  PROVE  LET C == {i + n : i \in B}
         IN  IsFiniteSet(C) /\ Cardinality(C) = Cardinality(B)
<1> DEFINE C == {i + n : i \in B}
           f == [i \in B |-> i + n]
<1>1. f \in [B -> C]
  OBVIOUS
<1>2. \A i, j \in B : f[i] = f[j] => i = j
  OBVIOUS
<1>3. \A c \in C : \E i \in B : f[i] = c
  OBVIOUS
<1> HIDE DEF f, C
<1>4. f \in Bijection(B, C)
  BY <1>1, <1>2, <1>3 DEF Bijection, Injection, Surjection, IsInjective
<1>5. ExistsBijection(B, C)
  BY <1>4 DEF ExistsBijection
<1>6. IsFiniteSet(C) /\ Cardinality(C) = Cardinality(B)
  BY <1>5, FS_Bijection
<1> QED
  BY <1>6 DEF C

\* The places in what follows are counted after those in what comes first.
LEMMA PlacesConcat ==
  ASSUME NEW S, NEW a \in Seq(S), NEW b \in Seq(S), NEW t, NEW k \in 0 .. Len(b)
  PROVE  Cardinality(Places(a \o b, t, Len(a) + k)) =
           Cardinality(Places(a, t, Len(a))) + Cardinality(Places(b, t, k))
<1> DEFINE n == Len(a)
           A == Places(a, t, n)
           B == Places(b, t, k)
           C == {i + n : i \in B}
           P == Places(a \o b, t, n + k)
<1>0. n \in Nat /\ Len(b) \in Nat
  OBVIOUS
<1>1. /\ \A i \in 1 .. n : (a \o b)[i] = a[i]
      /\ \A i \in 1 .. k : (a \o b)[i + n] = b[i]
  BY <1>0
<1>2. IsFiniteSet(A) /\ IsFiniteSet(B)
      /\ Cardinality(A) \in Nat /\ Cardinality(B) \in Nat
  BY <1>0, PlacesFinite
<1>3. IsFiniteSet(C) /\ Cardinality(C) = Cardinality(B)
  <2>1. B \in SUBSET Int /\ n \in Int
    BY <1>0 DEF Places
  <2> HIDE DEF B, n
  <2> QED
    BY <1>2, <2>1, ShiftCount
<1>4. P = A \cup C
  <2> DEFINE c == a \o b
  <2>0. /\ \A i \in 1 .. n : c[i] = a[i]
        /\ \A i \in 1 .. k : c[i + n] = b[i]
    BY <1>1
  <2> HIDE DEF n, c
  <2>1. ASSUME NEW i \in Places(c, t, n + k)
        PROVE  i \in A \cup C
    <3>0. i \in 1 .. n + k /\ c[i] = t
      BY DEF Places
    <3>1. CASE i <= n
      BY <1>0, <2>0, <3>0, <3>1 DEF Places
    <3>2. CASE i > n
      <4>1. i - n \in 1 .. k /\ (i - n) + n = i
        BY <1>0, <3>0, <3>2
      <4>2. b[i - n] = t
        BY <2>0, <3>0, <4>1
      <4>3. i - n \in B
        BY <4>1, <4>2 DEF Places
      <4> QED
        BY <4>1, <4>3
    <3>3. i <= n \/ i > n
      BY <1>0, <3>0
    <3> QED
      BY <3>1, <3>2, <3>3
  <2>2. ASSUME NEW i \in A PROVE i \in Places(c, t, n + k)
    BY <1>0, <2>0 DEF Places
  <2>3. ASSUME NEW i \in B PROVE i + n \in Places(c, t, n + k)
    BY <1>0, <2>0 DEF Places
  <2> QED
    BY <2>1, <2>2, <2>3 DEF c
<1>5. A \cap C = {}
  BY <1>0 DEF Places
<1>6. Cardinality(A \cup C) = Cardinality(A) + Cardinality(C) - Cardinality(A \cap C)
  <2> HIDE DEF A, C
  <2> QED
    BY <1>2, <1>3, FS_Union
<1>7. Cardinality(A \cap C) = 0
  BY <1>5, FS_EmptySet
<1>8. Cardinality(P) = Cardinality(A) + Cardinality(B)
  <2> HIDE DEF A, C, P, B
  <2> QED
    BY <1>2, <1>3, <1>4, <1>6, <1>7
<1> QED
  BY <1>8

LEMMA CountIs ==
  ASSUME NEW S, NEW ts \in Seq(S), NEW t
  PROVE  Count(ts, t) = Cardinality(Places(ts, t, Len(ts))) /\ Count(ts, t) \in Nat
<1>1. DOMAIN ts = 1 .. Len(ts) /\ Len(ts) \in Nat
  OBVIOUS
<1> QED
  BY <1>1, PlacesFinite DEF Count, Places

LEMMA CountConcat ==
  ASSUME NEW S, NEW a \in Seq(S), NEW b \in Seq(S), NEW t
  PROVE  /\ Count(a \o b, t) = Count(a, t) + Count(b, t)
         /\ Count(a, t) \in Nat /\ Count(b, t) \in Nat
<1>1. a \o b \in Seq(S) /\ Len(a \o b) = Len(a) + Len(b) /\ Len(b) \in 0 .. Len(b)
  OBVIOUS
<1>2. Cardinality(Places(a \o b, t, Len(a) + Len(b))) =
        Cardinality(Places(a, t, Len(a))) + Cardinality(Places(b, t, Len(b)))
  BY <1>1, PlacesConcat
<1> QED
  BY <1>1, <1>2, CountIs

\* A token that is not there, and a sequence of that token alone.
LEMMA CountNone ==
  ASSUME NEW ts, NEW t, \A i \in DOMAIN ts : ts[i] # t
  PROVE  Count(ts, t) = 0
<1>1. {i \in DOMAIN ts : ts[i] = t} = {}
  OBVIOUS
<1> QED
  BY <1>1, FS_EmptySet DEF Count

\* The k-th place of a token is the one with k places up to it.
LEMMA NthIs ==
  ASSUME NEW S, NEW ts \in Seq(S), NEW t, NEW i \in 1 .. Len(ts), ts[i] = t
  PROVE  Nth(ts, t, Cardinality(Places(ts, t, i))) = i
<1> DEFINE k == Cardinality(Places(ts, t, i))
           Is(j) == ts[j] = t /\ Cardinality(Places(ts, t, j)) = k
<1>1. DOMAIN ts = 1 .. Len(ts) /\ Len(ts) \in Nat
  OBVIOUS
<1>2. ASSUME NEW x \in 1 .. Len(ts), NEW y \in 1 .. Len(ts), x < y,
             ts[x] = t, ts[y] = t
      PROVE  Cardinality(Places(ts, t, x)) # Cardinality(Places(ts, t, y))
  <2>1. Places(ts, t, x) \in SUBSET Places(ts, t, y)
    BY <1>1, <1>2 DEF Places
  <2>2. y \in Places(ts, t, y) /\ y \notin Places(ts, t, x)
    BY <1>1, <1>2 DEF Places
  <2>3. IsFiniteSet(Places(ts, t, y))
    BY <1>1, PlacesFinite
  <2> QED
    BY <2>1, <2>2, <2>3, FS_Subset
<1>3. \A j \in 1 .. Len(ts) : Is(j) => j = i
  <2> TAKE j \in 1 .. Len(ts)
  <2>1. j < i \/ i < j \/ j = i
    BY <1>1
  <2> QED
    BY <1>2, <2>1
<1>4. Is(i)
  OBVIOUS
<1>5. Nth(ts, t, k) = CHOOSE j \in 1 .. Len(ts) : Is(j)
  BY <1>1 DEF Nth, Places
<1> QED
  BY <1>3, <1>4, <1>5

\* Short sequences, and short pieces.
LEMMA OneIs ==
  ASSUME NEW S, NEW x \in S
  PROVE  <<x>> \in Seq(S) /\ Len(<<x>>) = 1 /\ <<x>>[1] = x
OBVIOUS

LEMMA TwoIs ==
  ASSUME NEW S, NEW x \in S, NEW y \in S
  PROVE  <<x, y>> \in Seq(S) /\ Len(<<x, y>>) = 2 /\ <<x, y>>[1] = x /\ <<x, y>>[2] = y
OBVIOUS

LEMMA SubSeqOne ==
  ASSUME NEW S, NEW s \in Seq(S), NEW p \in 1 .. Len(s)
  PROVE  SubSeq(s, p, p) = <<s[p]>>
<1> DEFINE u == SubSeq(s, p, p)
           v == <<s[p]>>
<1>1. u \in Seq(S) /\ Len(u) = 1 /\ u[1] = s[p]
  OBVIOUS
<1>2. s[p] \in S
  OBVIOUS
<1>3. v \in Seq(S) /\ Len(v) = 1 /\ v[1] = s[p]
  BY <1>2, OneIs
<1> HIDE DEF u, v
<1>4. \A i \in 1 .. Len(u) : u[i] = v[i]
  BY <1>1, <1>3
<1>5. u = v
  BY <1>1, <1>3, <1>4, SeqEqual
<1> QED
  BY <1>5 DEF u, v

LEMMA SubSeqTwo ==
  ASSUME NEW S, NEW s \in Seq(S), NEW p \in 1 .. Len(s), p + 1 <= Len(s)
  PROVE  SubSeq(s, p, p + 1) = <<s[p], s[p + 1]>>
<1> DEFINE u == SubSeq(s, p, p + 1)
           v == <<s[p], s[p + 1]>>
<1>1. u \in Seq(S) /\ Len(u) = 2 /\ u[1] = s[p] /\ u[2] = s[p + 1]
  OBVIOUS
<1>2. s[p] \in S /\ s[p + 1] \in S
  OBVIOUS
<1>3. v \in Seq(S) /\ Len(v) = 2 /\ v[1] = s[p] /\ v[2] = s[p + 1]
  BY <1>2, TwoIs
<1> HIDE DEF u, v
<1>4. \A i \in 1 .. Len(u) : u[i] = v[i]
  BY <1>1, <1>3
<1>5. u = v
  BY <1>1, <1>3, <1>4, SeqEqual
<1> QED
  BY <1>5 DEF u, v

-----------------------------------------------------------------------------
(* Markers in a text and what the encoder makes of them.                   *)

\* The character that tells one marker from the others.
Letter(t) == SpecialTokenMap[t][2]

LEMMA Markers ==
  /\ \A t \in Specials : /\ SpecialTokenMap[t] = <<"<", Letter(t)>>
                         /\ Letter(t) \in {"S", "E", "P"}
  /\ \A t, u \in Specials : Letter(t) = Letter(u) => t = u
  /\ {"im_start", "im_end", "endoftext"} = Specials
  /\ Letter("im_start") = "S" /\ Letter("im_end") = "E"
BY DEF Letter, Specials, SpecialTokenMap, ImStart, ImEnd, EndOfText

\* Where a marker is.
LEMMA MarkerAt ==
  ASSUME NEW s \in Text, NEW p \in 1 .. Len(s), NEW t \in Specials
  PROVE  At(s, p, SpecialTokenMap[t])
           <=> p + 1 <= Len(s) /\ s[p] = "<" /\ s[p + 1] = Letter(t)
<1> DEFINE x == Letter(t)
<1>1. SpecialTokenMap[t] = <<"<", x>>
  BY Markers
<1> HIDE DEF x
<1>2. At(s, p, SpecialTokenMap[t])
        <=> p + 1 <= Len(s) /\ SubSeq(s, p, p + 1) = <<"<", x>>
  <2>1. Len(<<"<", x>>) = 2 /\ p + (2 - 1) = p + 1
    OBVIOUS
  <2> QED
    BY <1>1, <2>1 DEF At
<1>3. ASSUME p + 1 <= Len(s)
      PROVE  SubSeq(s, p, p + 1) = <<"<", x>> <=> s[p] = "<" /\ s[p + 1] = x
  <2>1. SubSeq(s, p, p + 1) = <<s[p], s[p + 1]>>
    BY <1>3, SubSeqTwo DEF Text
  <2> QED
    BY <2>1
<1> QED
  BY <1>2, <1>3 DEF x

\* At most one marker is at a position, and none right after one begins.
LEMMA OneMarker ==
  ASSUME NEW s \in Text, NEW p \in 1 .. Len(s), NEW t \in SpecialAt(s, p)
  PROVE  /\ SpecialAt(s, p) = {t} /\ t \in Specials /\ p + 1 \in 1 .. Len(s)
         /\ SpecialAt(s, p + 1) = {}
<1>0. Len(s) \in Nat
  BY DEF Text
<1>1. t \in Specials /\ At(s, p, SpecialTokenMap[t])
  BY DEF SpecialAt
<1>2. p + 1 <= Len(s) /\ s[p] = "<" /\ s[p + 1] = Letter(t)
  BY <1>1, MarkerAt
<1>3. \A u \in SpecialAt(s, p) : u = t
  <2> SUFFICES ASSUME NEW u \in SpecialAt(s, p) PROVE u = t
    OBVIOUS
  <2>1. u \in Specials /\ At(s, p, SpecialTokenMap[u])
    BY DEF SpecialAt
  <2>2. s[p + 1] = Letter(u)
    BY <2>1, MarkerAt
  <2> QED
    BY <1>1, <1>2, <2>1, <2>2, Markers
<1>4. p + 1 \in 1 .. Len(s)
  BY <1>0, <1>2
<1>5. \A u \in Specials : ~At(s, p + 1, SpecialTokenMap[u])
  <2> SUFFICES ASSUME NEW u \in Specials, At(s, p + 1, SpecialTokenMap[u]) PROVE FALSE
    OBVIOUS
  <2> DEFINE q == p + 1
  <2>1. q \in 1 .. Len(s)
    BY <1>4
  <2> HIDE DEF q
  <2>2. s[q] = "<"
    BY <2>1, MarkerAt DEF q
  <2>3. Letter(t) = "<" /\ Letter(t) \in {"S", "E", "P"}
    BY <1>1, <1>2, <2>2, Markers DEF q
  <2> QED
    BY <2>3
<1> QED
  BY <1>1, <1>3, <1>4, <1>5 DEF SpecialAt

\* A marker becomes its token, and the text goes on two characters later.
LEMMA AfterMarker ==
  ASSUME NEW s \in Text, NEW g, Encoding(g, s), NEW pos \in 1 .. Len(s),
         NEW t \in SpecialAt(s, pos)
  PROVE  g[pos] = <<t>> \o g[pos + 2] /\ pos + 2 \in 1 .. Len(s) + 1
<1>0. Len(s) \in Nat /\ pos \in 1 .. Len(s) + 1 /\ ~(pos > Len(s))
  BY DEF Text
<1>1. SpecialAt(s, pos) = {t} /\ t \in Specials /\ pos + 1 <= Len(s)
  BY OneMarker, <1>0
<1>2. Len(SpecialTokenMap[t]) = 2
  <2>1. SpecialTokenMap[t] = <<"<", Letter(t)>>
    BY <1>1, Markers
  <2> QED
    BY <2>1
<1>3. (CHOOSE u \in SpecialAt(s, pos) : TRUE) = t /\ SpecialAt(s, pos) # {}
  BY <1>1
<1>4. g[pos] = TokenizeFrom(s, pos, g)
  BY <1>0 DEF Encoding
<1>5. TokenizeFrom(s, pos, g) = <<t>> \o g[pos + 2]
  BY <1>0, <1>2, <1>3 DEF TokenizeFrom
<1> QED
  BY <1>0, <1>1, <1>4, <1>5

\* At the end there is nothing left.
LEMMA AfterEnd ==
  ASSUME NEW s \in Text, NEW g, Encoding(g, s)
  PROVE  g[Len(s) + 1] = <<>>
<1>1. Len(s) + 1 \in 1 .. Len(s) + 1 /\ Len(s) + 1 > Len(s)
  BY DEF Text
<1> QED
  BY <1>1 DEF Encoding, TokenizeFrom

\* What the search for the next marker finds.
LEMMA NextSpecialIs ==
  ASSUME NEW s \in Text, NEW pos \in 1 .. Len(s) + 1
  PROVE  LET e == NextSpecial(s, pos)
         IN  /\ e \in pos .. Len(s) + 1
             /\ e <= Len(s) => SpecialAt(s, e) # {}
             /\ \A p \in pos .. e - 1 : SpecialAt(s, p) = {}
<1> DEFINE T == {e \in pos .. Len(s) + 1 : e <= Len(s) => SpecialAt(s, e) # {}}
           Is(e) == /\ e <= Len(s) => SpecialAt(s, e) # {}
                    /\ \A p \in pos .. e - 1 : SpecialAt(s, p) = {}
<1>1. Len(s) \in Nat /\ pos \in Nat
  BY DEF Text
<1>2. Len(s) + 1 \in T /\ T \subseteq Nat
  BY <1>1
<1>3. PICK e \in T : \A y \in T : e <= y
  BY <1>2, LeastOf
<1>4. e \in pos .. Len(s) + 1 /\ Is(e)
  BY <1>1, <1>3
<1>5. NextSpecial(s, pos) \in pos .. Len(s) + 1 /\ Is(NextSpecial(s, pos))
  BY <1>4 DEF NextSpecial
<1> QED
  BY <1>5

\* Text without markers becomes its characters.
LEMMA AfterText ==
  ASSUME NEW s \in Text, NEW g, Encoding(g, s), NEW pos \in 1 .. Len(s) + 1,
         NEW e \in pos .. Len(s) + 1, \A p \in pos .. e - 1 : SpecialAt(s, p) = {}
  PROVE  g[pos] = SubSeq(s, pos, e - 1) \o g[e]
<1> DEFINE n == Len(s)
<1>0. n \in Nat /\ e \in Nat /\ pos \in Nat /\ pos <= e /\ e <= n + 1
      /\ e \in 1 .. n + 1
  BY DEF Text
<1>1. ASSUME NEW q \in 1 .. n, SpecialAt(s, q) = {}
      PROVE  /\ NextSpecial(s, q) \in q + 1 .. n + 1
             /\ g[q] = SubSeq(s, q, NextSpecial(s, q) - 1) \o g[NextSpecial(s, q)]
  <2>1. q \in 1 .. n + 1 /\ ~(q > n)
    BY <1>0
  <2>2. g[q] = TokenizeFrom(s, q, g)
    BY <2>1 DEF Encoding
  <2> QED
    BY <1>1, <2>1, <2>2, NextSpecialLater DEF TokenizeFrom, TokenizeChunk
<1>2. CASE pos = e
  <2>1. SubSeq(s, pos, e - 1) = <<>> /\ g[e] \in Seq(PromptTokens)
    BY <1>0, <1>2 DEF Text, Encoding
  <2> QED
    BY <1>2, <2>1, ConcatText
<1>3. CASE pos < e
  <2> DEFINE f == NextSpecial(s, pos)
  <2>1. pos \in 1 .. n /\ SpecialAt(s, pos) = {}
    BY <1>0, <1>3
  <2>2. f \in pos + 1 .. n + 1 /\ g[pos] = SubSeq(s, pos, f - 1) \o g[f]
    BY <1>1, <2>1
  <2>3. (f <= n => SpecialAt(s, f) # {}) /\ \A p \in pos .. f - 1 : SpecialAt(s, p) = {}
    BY NextSpecialIs
  <2> HIDE DEF f
  <2>4. e <= f
    <3>1. f < e => f \in pos .. e - 1 /\ f <= n
      BY <1>0, <2>2
    <3> QED
      BY <1>0, <2>2, <2>3, <3>1
  <2>5. CASE f = e
    BY <2>2, <2>5
  <2>6. CASE e < f
    <3>1. e \in 1 .. n /\ SpecialAt(s, e) = {}
      BY <1>0, <2>2, <2>3, <2>6
    <3> DEFINE h == NextSpecial(s, e)
    <3>2. h \in e + 1 .. n + 1 /\ g[e] = SubSeq(s, e, h - 1) \o g[h]
      BY <1>1, <3>1
    <3>3. (h <= n => SpecialAt(s, h) # {}) /\ \A p \in e .. h - 1 : SpecialAt(s, p) = {}
      BY <1>0, NextSpecialIs
    <3> HIDE DEF h
    <3>4. h = f
      <4>1. h < f => h \in pos .. f - 1 /\ h <= n
        BY <1>0, <2>2, <3>2
      <4>2. f < h => f \in e .. h - 1 /\ f <= n
        BY <1>0, <2>2, <2>6, <3>2
      <4> QED
        BY <1>0, <2>2, <2>3, <3>2, <3>3, <4>1, <4>2
    <3>5. SubSeq(s, pos, f - 1) = SubSeq(s, pos, e - 1) \o SubSeq(s, e, f - 1)
      BY <1>0, <2>2, <2>6, SubSeqJoin
    <3>6. /\ SubSeq(s, pos, e - 1) \in Seq(PromptTokens)
          /\ SubSeq(s, e, f - 1) \in Seq(PromptTokens)
          /\ g[f] \in Seq(PromptTokens)
      <4>1. /\ SubSeq(s, pos, e - 1) \in Seq(Characters)
            /\ SubSeq(s, e, f - 1) \in Seq(Characters)
        BY <1>0, <2>2, <2>6 DEF Text
      <4>2. g[f] \in Seq(PromptTokens)
        BY <1>0, <2>2 DEF Encoding
      <4> QED
        BY <4>1, <4>2 DEF PromptTokens
    <3> DEFINE x == SubSeq(s, pos, e - 1)
               y == SubSeq(s, e, f - 1)
               z == g[f]
    <3>7. g[pos] = (x \o y) \o z /\ g[e] = y \o z
      BY <2>2, <3>2, <3>4, <3>5
    <3>8. x \in Seq(PromptTokens) /\ y \in Seq(PromptTokens) /\ z \in Seq(PromptTokens)
      BY <3>6
    <3> HIDE DEF x, y, z
    <3>9. (x \o y) \o z = x \o (y \o z)
      <4>1. JoinsAssociatively(PromptTokens)
        BY ConcatAssoc
      <4> QED
        BY <3>8, <4>1, Zenon DEF JoinsAssociatively
    <3> QED
      BY <3>7, <3>9 DEF x
  <2>7. f = e \/ e < f
    BY <1>0, <2>2, <2>4
  <2> QED
    BY <2>5, <2>6, <2>7
<1>4. pos = e \/ pos < e
  BY <1>0
<1> QED
  BY <1>2, <1>3, <1>4

\* The same, of all stretches of a text at once.
TextFollows(g, s) ==
  \A pos \in 1 .. Len(s) + 1 : \A e \in pos .. Len(s) + 1 :
    (\A q \in pos .. e - 1 : SpecialAt(s, q) = {})
      => g[pos] = SubSeq(s, pos, e - 1) \o g[e]

LEMMA AfterTexts ==
  ASSUME NEW s \in Text, NEW g, Encoding(g, s)
  PROVE  TextFollows(g, s)
BY AfterText DEF TextFollows

-----------------------------------------------------------------------------
(* Every marker becomes its token.                                         *)

\* The positions of the marker of t from pos on.
PositionsFrom(s, t, pos) == {p \in pos .. Len(s) : At(s, p, SpecialTokenMap[t])}

LEMMA PositionsFinite ==
  ASSUME NEW s \in Text, NEW t, NEW pos \in Nat
  PROVE  /\ IsFiniteSet(PositionsFrom(s, t, pos))
         /\ Cardinality(PositionsFrom(s, t, pos)) \in Nat
<1>1. IsFiniteSet(pos .. Len(s))
  BY FS_Interval DEF Text
<1>2. PositionsFrom(s, t, pos) \in SUBSET (pos .. Len(s))
  BY DEF PositionsFrom
<1> QED
  BY <1>1, <1>2, FS_Subset, FS_CardinalityType

LEMMA MarkersCounted ==
  ASSUME NEW s \in Text, NEW t \in Specials
  PROVE  Count(Tokenize(s), t) = Cardinality(Positions(SpecialTokenMap[t], s))
<1> DEFINE n == Len(s)
           Q(p) == PositionsFrom(s, t, p)
<1>1. PICK g : Encoding(g, s) /\ Tokenize(s) = g[1]
  BY EncodingIs
<1>2. n \in Nat /\ DOMAIN s = 1 .. n
  BY DEF Text
<1>3. Positions(SpecialTokenMap[t], s) = PositionsFrom(s, t, 1)
  BY <1>2 DEF Positions, PositionsFrom
<1>4. \A p \in 1 .. n + 1 : g[p] \in Seq(PromptTokens) /\ Count(g[p], t) \in Nat
  BY <1>1, CountIs DEF Encoding
<1> DEFINE T == {m \in 0 .. n : Count(g[n + 1 - m], t)
                                  # Cardinality(PositionsFrom(s, t, n + 1 - m))}
<1> HIDE DEF n
<1>5. SUFFICES ASSUME T # {} PROVE FALSE
  <2>1. n \in 0 .. n /\ n + 1 - n = 1
    BY <1>2
  <2> QED
    BY <1>1, <1>3, <2>1
<1>6. PICK m \in T : \A y \in T : m <= y
  <2>1. T \subseteq Nat
    BY <1>2
  <2> QED
    BY <1>5, <2>1, LeastOf
<1> DEFINE pos == n + 1 - m
<1>7. pos \in 1 .. n + 1 /\ pos \in Nat
  BY <1>2, <1>6
<1>8. ASSUME NEW p \in pos + 1 .. n + 1
      PROVE  Count(g[p], t) = Cardinality(PositionsFrom(s, t, p))
  <2>1. n + 1 - p \in 0 .. n /\ n + 1 - p < m /\ n + 1 - (n + 1 - p) = p
    BY <1>2, <1>6, <1>7
  <2> QED
    BY <1>6, <2>1
<1>9. Count(g[pos], t) # Cardinality(PositionsFrom(s, t, pos))
  BY <1>6
<1> HIDE DEF pos, T
<1>10. CASE pos > n
  <2>1. pos = n + 1
    BY <1>2, <1>7, <1>10
  <2>2. g[pos] = <<>> /\ PositionsFrom(s, t, pos) = {}
    BY <1>1, <1>2, <2>1, AfterEnd DEF PositionsFrom, n
  <2>3. Count(<<>>, t) = 0
    BY CountNone
  <2> QED
    BY <1>9, <2>2, <2>3, FS_EmptySet
<1>11. CASE pos <= n /\ SpecialAt(s, pos) # {}
  <2>1. PICK u : u \in SpecialAt(s, pos)
    BY <1>11
  <2>2. pos \in 1 .. Len(s)
    BY <1>2, <1>7, <1>11 DEF n
  <2>3. g[pos] = <<u>> \o g[pos + 2] /\ pos + 2 \in 1 .. n + 1
    BY <1>1, <2>1, <2>2, AfterMarker DEF n
  <2>4. SpecialAt(s, pos) = {u} /\ u \in Specials /\ SpecialAt(s, pos + 1) = {}
    BY <2>1, <2>2, OneMarker
  <2>5. Count(g[pos + 2], t) = Cardinality(PositionsFrom(s, t, pos + 2))
    BY <1>2, <1>7, <1>8, <2>3
  <2>6. At(s, pos, SpecialTokenMap[t]) <=> t = u
    BY <2>1, <2>4 DEF SpecialAt
  <2>7. ~At(s, pos + 1, SpecialTokenMap[t])
    BY <2>4 DEF SpecialAt
  <2> DEFINE R == PositionsFrom(s, t, pos + 2)
  <2>8. PositionsFrom(s, t, pos) = IF t = u THEN R \cup {pos} ELSE R
    <3>1. \A p \in pos .. n : p = pos \/ p = pos + 1 \/ p \in pos + 2 .. n
      BY <1>2, <1>7
    <3>2. pos \in pos .. n /\ pos + 2 .. n \subseteq pos .. n
      BY <1>2, <1>7, <1>11
    <3> QED
      BY <2>6, <2>7, <3>1, <3>2 DEF PositionsFrom, n
  <2>9. IsFiniteSet(R) /\ Cardinality(R) \in Nat /\ pos \notin R
    <3>1. pos + 2 \in Nat /\ pos \notin pos + 2 .. n
      BY <1>2, <1>7
    <3> QED
      BY <3>1, PositionsFinite DEF PositionsFrom, n
  <2>10. Count(<<u>>, t) = IF t = u THEN 1 ELSE 0
    <3>1. {i \in DOMAIN <<u>> : <<u>>[i] = t} = IF t = u THEN {1} ELSE {}
      OBVIOUS
    <3> QED
      BY <3>1, FS_EmptySet, FS_Singleton DEF Count
  <2>11. Count(g[pos], t) = Count(<<u>>, t) + Count(g[pos + 2], t)
    <3>1. <<u>> \in Seq(PromptTokens) /\ g[pos + 2] \in Seq(PromptTokens)
      BY <1>4, <2>3, <2>4 DEF PromptTokens
    <3> DEFINE a == <<u>>
               b == g[pos + 2]
    <3>2. a \in Seq(PromptTokens) /\ b \in Seq(PromptTokens) /\ g[pos] = a \o b
      BY <2>3, <3>1
    <3> HIDE DEF a, b
    <3>3. Count(a \o b, t) = Count(a, t) + Count(b, t)
      BY <3>2, CountConcat
    <3> QED
      BY <3>2, <3>3 DEF a, b
  <2> HIDE DEF R
  <2>12. Cardinality(R \cup {pos}) = Cardinality(R) + 1
    BY <2>9, FS_AddElement
  <2>13. Count(g[pos + 2], t) = Cardinality(R)
    BY <2>5 DEF R
  <2> QED
    BY <1>9, <2>8, <2>9, <2>10, <2>11, <2>12, <2>13
<1>12. CASE pos <= n /\ SpecialAt(s, pos) = {}
  <2> DEFINE e == NextSpecial(s, pos)
             chunk == SubSeq(s, pos, e - 1)
  <2>1. pos \in 1 .. Len(s)
    BY <1>2, <1>7, <1>12 DEF n
  <2>2. e \in pos + 1 .. n + 1
    BY <1>12, <2>1, NextSpecialLater DEF n
  <2>3. \A p \in pos .. e - 1 : SpecialAt(s, p) = {}
    BY <1>7, NextSpecialIs DEF n
  <2> HIDE DEF e
  <2>4. g[pos] = chunk \o g[e]
    <3>1. e \in pos .. Len(s) + 1 /\ pos \in 1 .. Len(s) + 1
      BY <1>2, <1>7, <2>2 DEF n
    <3> QED
      BY <1>1, <2>3, <3>1, AfterText
  <2>5. chunk \in Text
    BY <1>2, <1>7, <2>1, <2>2 DEF Text, n
  <2> HIDE DEF chunk
  <2>6. Count(chunk, t) = 0
    <3>1. \A i \in DOMAIN chunk : chunk[i] \in Characters
      BY <2>5 DEF Text
    <3>2. t \notin Characters
      BY GenerationAssumption
    <3> QED
      BY <3>1, <3>2, CountNone
  <2>7. Count(g[pos], t) = Count(chunk, t) + Count(g[e], t)
    <3>1. e \in 1 .. n + 1
      BY <1>2, <1>7, <2>2
    <3>2. chunk \in Seq(PromptTokens) /\ g[e] \in Seq(PromptTokens)
      BY <1>4, <2>5, <3>1 DEF Text, PromptTokens
    <3> QED
      BY <2>4, <3>2, CountConcat
  <2>8. PositionsFrom(s, t, pos) = PositionsFrom(s, t, e)
    <3>1. \A p \in pos .. e - 1 : ~At(s, p, SpecialTokenMap[t])
      BY <2>3 DEF SpecialAt
    <3>2. \A p \in pos .. n : p \in pos .. e - 1 \/ p \in e .. n
      BY <1>2, <1>7, <2>2
    <3>3. e .. n \subseteq pos .. n
      BY <1>2, <1>7, <2>2
    <3> QED
      BY <3>1, <3>2, <3>3 DEF PositionsFrom, n
  <2>9. Count(g[e], t) = Cardinality(PositionsFrom(s, t, e)) /\ Count(g[e], t) \in Nat
    <3>1. e \in 1 .. n + 1
      BY <1>2, <1>7, <2>2
    <3> QED
      BY <1>4, <1>8, <2>2, <3>1
  <2> QED
    BY <1>9, <2>6, <2>7, <2>8, <2>9
<1>13. pos > n \/ pos <= n
  BY <1>2, <1>7
<1> QED
  BY <1>10, <1>11, <1>12, <1>13

-----------------------------------------------------------------------------
(* The tokens of a conversation.                                           *)

\* A position with no marker.
LEMMA NoMarker ==
  ASSUME NEW s \in Text, NEW p \in 1 .. Len(s),
         \/ s[p] # "<"
         \/ p + 1 <= Len(s) => s[p + 1] \notin {"S", "E", "P"}
  PROVE  SpecialAt(s, p) = {}
<1> SUFFICES ASSUME NEW t \in SpecialAt(s, p) PROVE FALSE
  OBVIOUS
<1>1. t \in Specials /\ At(s, p, SpecialTokenMap[t])
  BY DEF SpecialAt
<1>2. p + 1 <= Len(s) /\ s[p] = "<" /\ s[p + 1] = Letter(t)
  BY <1>1, MarkerAt
<1>3. Letter(t) \in {"S", "E", "P"}
  BY <1>1, Markers
<1> QED
  BY <1>2, <1>3

\* A message as tokens: its turn in the conversation.
TurnHead(m) == <<"im_start">> \o (<<m.role, "\n">> \o m.content)
TurnEnd == <<"im_end">> \o <<"\n">>
Turn(m) == TurnHead(m) \o TurnEnd

\* Three pieces, put together in two ways.
Regroups(u, v, t) == (u \o v) \o t = u \o (v \o t)

LEMMA ConcatThree ==
  ASSUME NEW S, NEW u \in Seq(S), NEW v \in Seq(S), NEW t \in Seq(S)
  PROVE  Regroups(u, v, t)
BY ConcatText DEF Regroups

\* Five pieces, put together in two ways.
LEMMA ConcatFive ==
  ASSUME NEW S
  PROVE  \A a, b, c, d, z \in Seq(S) :
           /\ a \o (b \o (c \o (d \o z))) = ((a \o b) \o (c \o d)) \o z
           /\ (a \o b) \o (c \o d) \in Seq(S)
<1> TAKE a, b, c, d, z \in Seq(S)
<1> DEFINE x == a \o b
           y == c \o d
           w == y \o z
<1>1. x \in Seq(S) /\ y \in Seq(S)
  BY ConcatIs
<1>2. w \in Seq(S) /\ x \o y \in Seq(S)
  <2> HIDE DEF x, y
  <2> QED
    BY <1>1, ConcatIs
<1>3. Regroups(c, d, z)
  BY ConcatThree, Zenon
<1> HIDE DEF x, y
<1>4. Regroups(x, y, z)
  BY <1>1, ConcatThree, Zenon
<1> HIDE DEF w
<1>5. Regroups(a, b, w)
  BY <1>2, ConcatThree, Zenon
<1>6. a \o (b \o (c \o (d \o z))) = (x \o y) \o z
  BY <1>3, <1>4, <1>5, Zenon DEF Regroups, w, x, y
<1> QED
  BY <1>2, <1>6, Zenon DEF x, y

\* A formatted message, character by character.
LEMMA FormatIs ==
  ASSUME NEW m, m.role \in Roles, m.content \in Text
  PROVE  LET F == FormatMessage(m)
             L == Len(m.content)
         IN  /\ F \in Text /\ L \in Nat /\ Len(F) = L + 7
             /\ F[1] = "<" /\ F[2] = "S" /\ F[3] = m.role /\ F[4] = "\n"
             /\ \A i \in 1 .. L : F[i + 4] = m.content[i]
             /\ F[L + 5] = "<" /\ F[L + 6] = "E" /\ F[L + 7] = "\n"
<1> DEFINE c == m.content
           L == Len(c)
           b1 == ImStart
           b2 == <<m.role, "\n">>
           b3 == ImEnd
           b4 == <<"\n">>
           a1 == b1 \o b2
           a2 == a1 \o c
           a3 == a2 \o b3
           F == a3 \o b4
<1>0. c \in Seq(Characters) /\ L \in Nat
  BY DEF Text
<1>1. /\ b1 \in Seq(Characters) /\ Len(b1) = 2 /\ b1[1] = "<" /\ b1[2] = "S"
      /\ b2 \in Seq(Characters) /\ Len(b2) = 2 /\ b2[1] = m.role /\ b2[2] = "\n"
      /\ b3 \in Seq(Characters) /\ Len(b3) = 2 /\ b3[1] = "<" /\ b3[2] = "E"
      /\ b4 \in Seq(Characters) /\ Len(b4) = 1 /\ b4[1] = "\n"
  <2>1. {"<", "S", "E", "\n", m.role} \subseteq Characters
    BY GenerationAssumption DEF Roles
  <2> QED
    BY <2>1, OneIs, TwoIs DEF ImStart, ImEnd
<1>2. F = FormatMessage(m)
  BY DEF FormatMessage
<1> HIDE DEF b1, b2, b3, b4, c
<1>3. /\ a1 \in Seq(Characters) /\ Len(a1) = 4
      /\ a1[1] = "<" /\ a1[2] = "S" /\ a1[3] = m.role /\ a1[4] = "\n"
  <2>1. /\ a1 \in Seq(Characters) /\ Len(a1) = 4
        /\ \A i \in 1 .. 2 : a1[i] = b1[i]
        /\ \A i \in 1 .. 2 : a1[2 + i] = b2[i]
    BY <1>1, ConcatIs
  <2>2. a1[1] = b1[1] /\ a1[2] = b1[2] /\ a1[2 + 1] = b2[1] /\ a1[2 + 2] = b2[2]
    <3> HIDE DEF a1
    <3> QED
      BY <2>1
  <2> QED
    BY <1>1, <2>1, <2>2
<1> HIDE DEF a1
<1>4. /\ a2 \in Seq(Characters) /\ Len(a2) = 4 + L
      /\ \A i \in 1 .. 4 : a2[i] = a1[i]
      /\ \A i \in 1 .. L : a2[4 + i] = c[i]
  <2>1. a1 \in Seq(Characters) /\ Len(a1) = 4
    BY <1>3
  <2>2. c \in Seq(Characters)
    BY <1>0
  <2>3. /\ a2 \in Seq(Characters) /\ Len(a2) = Len(a1) + Len(c)
        /\ \A i \in 1 .. Len(a1) : a2[i] = a1[i]
        /\ \A i \in 1 .. Len(c) : a2[Len(a1) + i] = c[i]
    <3>1. \A u, v \in Seq(Characters) :
            /\ u \o v \in Seq(Characters) /\ Len(u \o v) = Len(u) + Len(v)
            /\ \A i \in 1 .. Len(u) : (u \o v)[i] = u[i]
            /\ \A i \in 1 .. Len(v) : (u \o v)[Len(u) + i] = v[i]
      BY ConcatIs
    <3> HIDE DEF a3, F, L
    <3> QED
      BY <2>1, <2>2, <3>1
  <2> HIDE DEF a2
  <2> QED
    BY <2>1, <2>3
<1> HIDE DEF a2, L
<1>5. /\ a3 \in Seq(Characters) /\ Len(a3) = L + 6
      /\ \A i \in 1 .. 4 + L : a3[i] = a2[i]
      /\ \A i \in 1 .. 2 : a3[(4 + L) + i] = b3[i]
  <2>1. /\ a3 \in Seq(Characters) /\ Len(a3) = (4 + L) + 2
        /\ \A i \in 1 .. 4 + L : a3[i] = a2[i]
        /\ \A i \in 1 .. 2 : a3[(4 + L) + i] = b3[i]
    <3>1. a2 \in Seq(Characters) /\ Len(a2) = 4 + L
      BY <1>4
    <3>2. b3 \in Seq(Characters) /\ Len(b3) = 2
      BY <1>1
    <3>3. /\ a3 \in Seq(Characters) /\ Len(a3) = Len(a2) + Len(b3)
          /\ \A i \in 1 .. Len(a2) : a3[i] = a2[i]
          /\ \A i \in 1 .. Len(b3) : a3[Len(a2) + i] = b3[i]
      <4>1. \A u, v \in Seq(Characters) :
              /\ u \o v \in Seq(Characters) /\ Len(u \o v) = Len(u) + Len(v)
              /\ \A i \in 1 .. Len(u) : (u \o v)[i] = u[i]
              /\ \A i \in 1 .. Len(v) : (u \o v)[Len(u) + i] = v[i]
        BY ConcatIs
      <4> HIDE DEF F
      <4> QED
        BY <3>1, <3>2, <4>1
    <3> HIDE DEF a3
    <3> QED
      BY <3>1, <3>2, <3>3
  <2> QED
    BY <1>0, <2>1
<1> HIDE DEF a3
<1>6. /\ F \in Seq(Characters) /\ Len(F) = (L + 6) + 1
      /\ \A i \in 1 .. L + 6 : F[i] = a3[i]
      /\ \A i \in 1 .. 1 : F[(L + 6) + i] = b4[i]
  BY <1>1, <1>5, ConcatIs
<1> HIDE DEF F
<1>7. Len(F) = L + 7
  BY <1>0, <1>6
<1>8. ASSUME NEW i \in 1 .. 4 PROVE F[i] = a1[i]
  <2>1. i \in 1 .. L + 6 /\ i \in 1 .. 4 + L
    BY <1>0
  <2> QED
    BY <1>4, <1>5, <1>6, <2>1
<1>9. F[1] = "<" /\ F[2] = "S" /\ F[3] = m.role /\ F[4] = "\n"
  <2>1. F[1] = a1[1] /\ F[2] = a1[2] /\ F[3] = a1[3] /\ F[4] = a1[4]
    BY <1>8
  <2> QED
    BY <1>3, <2>1
<1>10. ASSUME NEW i \in 1 .. L PROVE F[i + 4] = c[i]
  <2>1. 4 + i \in 1 .. L + 6 /\ 4 + i \in 1 .. 4 + L /\ 4 + i = i + 4
    BY <1>0
  <2>2. F[4 + i] = a3[4 + i] /\ a3[4 + i] = a2[4 + i]
    BY <1>5, <1>6, <2>1
  <2> QED
    BY <1>4, <2>1, <2>2
<1>11. F[L + 5] = "<" /\ F[L + 6] = "E"
  <2>1. a3[(4 + L) + 1] = b3[1] /\ a3[(4 + L) + 2] = b3[2]
    BY <1>5
  <2>2. /\ (4 + L) + 1 = L + 5 /\ (4 + L) + 2 = L + 6
        /\ L + 5 \in 1 .. L + 6 /\ L + 6 \in 1 .. L + 6
    BY <1>0
  <2> QED
    BY <1>1, <1>6, <2>1, <2>2
<1>12. F[L + 7] = "\n"
  <2>1. F[(L + 6) + 1] = b4[1]
    BY <1>6
  <2>2. (L + 6) + 1 = L + 7
    BY <1>0
  <2> QED
    BY <1>1, <2>1, <2>2
<1> QED
  BY <1>0, <1>2, <1>6, <1>7, <1>9, <1>10, <1>11, <1>12 DEF Text, c, L

\* The characters of a piece within a text.
LEMMA PieceIs ==
  ASSUME NEW S, NEW a \in Seq(S), NEW b \in Seq(S), NEW r \in Seq(S)
  PROVE  /\ a \o (b \o r) \in Seq(S)
         /\ Len(a \o (b \o r)) = Len(a) + Len(b) + Len(r)
         /\ \A i \in 1 .. Len(b) : (a \o (b \o r))[Len(a) + i] = b[i]
<1>1. b \o r \in Seq(S) /\ Len(b \o r) = Len(b) + Len(r)
      /\ \A i \in 1 .. Len(b) : (b \o r)[i] = b[i]
  OBVIOUS
<1> DEFINE c == b \o r
<1> HIDE DEF c
<1>2. a \o c \in Seq(S) /\ Len(a \o c) = Len(a) + Len(c)
      /\ \A i \in 1 .. Len(c) : (a \o c)[Len(a) + i] = c[i]
  BY <1>1 DEF c
<1>3. Len(a) \in Nat /\ Len(b) \in Nat /\ Len(r) \in Nat
  OBVIOUS
<1> QED
  BY <1>1, <1>2, <1>3 DEF c

\* A formatted message becomes its turn.
LEMMA TurnEncodes ==
  ASSUME NEW m, m.role \in Roles, m.content \in Text, Plain(m.content),
         NEW a \in Text, NEW r \in Text, NEW s, s = a \o (FormatMessage(m) \o r),
         NEW g, Encoding(g, s)
  PROVE  /\ g[Len(a) + 1] = Turn(m) \o g[Len(a) + Len(FormatMessage(m)) + 1]
         /\ Turn(m) \in Seq(PromptTokens)
<1> DEFINE c == m.content
           L == Len(c)
           A == Len(a)
           n == Len(s)
           F == FormatMessage(m)
<1>0. A \in Nat /\ L \in Nat /\ Len(r) \in Nat /\ c \in Seq(Characters)
  BY DEF Text
<1>1. /\ F \in Text /\ Len(F) = L + 7
      /\ F[1] = "<" /\ F[2] = "S" /\ F[3] = m.role /\ F[4] = "\n"
      /\ \A i \in 1 .. L : F[i + 4] = c[i]
      /\ F[L + 5] = "<" /\ F[L + 6] = "E" /\ F[L + 7] = "\n"
  BY FormatIs
<1> HIDE DEF F
<1>2. s \in Text /\ n = A + (L + 7) + Len(r)
      /\ \A i \in 1 .. L + 7 : s[A + i] = F[i]
  <2>1. s = a \o (F \o r)
    BY DEF F
  <2>2. s \in Text /\ n = A + Len(F) + Len(r)
        /\ \A i \in 1 .. Len(F) : s[A + i] = F[i]
    <3>1. a \in Seq(Characters) /\ F \in Seq(Characters) /\ r \in Seq(Characters)
      BY <1>1 DEF Text
    <3>2. /\ a \o (F \o r) \in Seq(Characters)
          /\ Len(a \o (F \o r)) = Len(a) + Len(F) + Len(r)
          /\ \A i \in 1 .. Len(F) : (a \o (F \o r))[Len(a) + i] = F[i]
      BY <3>1, PieceIs
    <3> QED
      BY <2>1, <3>2 DEF Text
  <2> HIDE DEF A, L, n
  <2> QED
    BY <1>1, <2>2
<1> HIDE DEF A, L, n, c
<1>3. /\ s[A + 1] = "<" /\ s[A + 2] = "S" /\ s[A + 3] = m.role /\ s[A + 4] = "\n"
      /\ \A i \in 1 .. L : s[A + (i + 4)] = c[i]
      /\ s[A + (L + 5)] = "<" /\ s[A + (L + 6)] = "E" /\ s[A + (L + 7)] = "\n"
  <2>1. /\ 1 \in 1 .. L + 7 /\ 2 \in 1 .. L + 7 /\ 3 \in 1 .. L + 7 /\ 4 \in 1 .. L + 7
        /\ L + 5 \in 1 .. L + 7 /\ L + 6 \in 1 .. L + 7 /\ L + 7 \in 1 .. L + 7
        /\ \A i \in 1 .. L : i + 4 \in 1 .. L + 7
    BY <1>0
  <2>2. \A i \in 1 .. L : s[A + (i + 4)] = F[i + 4]
    BY <1>2, <2>1
  <2>3. \A i \in 1 .. L : s[A + (i + 4)] = c[i]
    BY <1>1, <2>2 DEF c, L
  <2>4. /\ s[A + 1] = F[1] /\ s[A + 2] = F[2] /\ s[A + 3] = F[3] /\ s[A + 4] = F[4]
        /\ s[A + (L + 5)] = F[L + 5] /\ s[A + (L + 6)] = F[L + 6]
        /\ s[A + (L + 7)] = F[L + 7]
    BY <1>2, <2>1
  <2>5. /\ F[1] = "<" /\ F[2] = "S" /\ F[3] = m.role /\ F[4] = "\n"
        /\ F[L + 5] = "<" /\ F[L + 6] = "E" /\ F[L + 7] = "\n"
    BY <1>1 DEF c, L
  <2> QED
    BY <2>3, <2>4, <2>5
<1>4. n \in Nat /\ A + (L + 7) <= n
  BY <1>0, <1>2
<1>5. "im_start" \in SpecialAt(s, A + 1)
  <2> DEFINE p == A + 1
  <2>1. p \in 1 .. Len(s) /\ p + 1 <= Len(s) /\ p + 1 = A + 2
    BY <1>0, <1>4 DEF n
  <2> HIDE DEF p
  <2>2. s[p] = "<" /\ s[p + 1] = "S"
    BY <1>3, <2>1 DEF p
  <2>3. "im_start" \in Specials /\ Letter("im_start") = "S"
    BY Markers
  <2>4. At(s, p, SpecialTokenMap["im_start"])
    BY <1>2, <2>1, <2>2, <2>3, MarkerAt
  <2> QED
    BY <2>3, <2>4 DEF SpecialAt, p
<1>6. ASSUME NEW p \in A + 3 .. A + (L + 4)
      PROVE  SpecialAt(s, p) = {}
  <2>1. p \in 1 .. Len(s)
    BY <1>0, <1>4 DEF n
  <2>2. CASE p = A + 3
    <3>1. s[p] # "<"
      BY <1>3, <2>2 DEF Roles
    <3> QED
      BY <1>2, <2>1, <3>1, NoMarker
  <2>3. CASE p = A + 4
    <3>1. s[p] # "<"
      BY <1>3, <2>3
    <3> QED
      BY <1>2, <2>1, <3>1, NoMarker
  <2>4. CASE p > A + 4
    <3> DEFINE i == p - (A + 4)
    <3>1. i \in 1 .. L /\ p = A + (i + 4)
      BY <1>0, <2>4
    <3> HIDE DEF i
    <3>2. s[p] = c[i]
      BY <1>3, <3>1
    <3>3. CASE i = L
      <4>1. p + 1 = A + (L + 5)
        BY <1>0, <3>1, <3>3
      <4>2. s[p + 1] = "<"
        BY <1>3, <4>1
      <4>3. s[p + 1] \notin {"S", "E", "P"}
        BY <4>2
      <4> QED
        BY <1>2, <2>1, <4>3, NoMarker
    <3>4. CASE i # L
      <4>1. i + 1 \in 1 .. L /\ p + 1 = A + ((i + 1) + 4)
        BY <1>0, <3>1, <3>4
      <4>2. s[p + 1] = c[i + 1]
        <5> DEFINE j == i + 1
        <5>1. j \in 1 .. L /\ p + 1 = A + (j + 4)
          BY <4>1
        <5> HIDE DEF j
        <5>2. s[p + 1] = c[j]
          BY <1>3, <5>1
        <5> QED
          BY <5>2 DEF j
      <4>3. c \in Text /\ i \in 1 .. Len(c) /\ i + 1 <= Len(c) /\ SpecialAt(c, i) = {}
        <5>1. c \in Text /\ Plain(c) /\ DOMAIN c = 1 .. Len(c)
          BY <1>0 DEF Text, c
        <5>2. i \in DOMAIN c /\ i \in 1 .. Len(c) /\ i + 1 <= Len(c)
          BY <1>0, <3>1, <4>1, <5>1 DEF L
        <5> QED
          BY <5>1, <5>2 DEF Plain
      <4>4. \A t \in Specials : ~(c[i] = "<" /\ c[i + 1] = Letter(t))
        BY <4>3, MarkerAt DEF SpecialAt
      <4> SUFFICES ASSUME NEW t \in SpecialAt(s, p) PROVE FALSE
        OBVIOUS
      <4>5. t \in Specials /\ At(s, p, SpecialTokenMap[t])
        BY DEF SpecialAt
      <4>6. s[p] = "<" /\ s[p + 1] = Letter(t)
        <5>1. s \in Text
          BY <1>2
        <5> QED
          BY <2>1, <4>5, <5>1, MarkerAt
      <4> QED
        BY <3>2, <4>2, <4>4, <4>5, <4>6
    <3> QED
      BY <3>3, <3>4
  <2>5. p = A + 3 \/ p = A + 4 \/ p > A + 4
    BY <1>0
  <2> QED
    BY <2>2, <2>3, <2>4, <2>5
<1>7. "im_end" \in SpecialAt(s, A + (L + 5))
  <2> DEFINE p == A + (L + 5)
  <2>1. p \in 1 .. Len(s) /\ p + 1 <= Len(s) /\ p + 1 = A + (L + 6)
    BY <1>0, <1>4 DEF n
  <2> HIDE DEF p
  <2>2. s[p] = "<" /\ s[p + 1] = "E"
    BY <1>3, <2>1 DEF p
  <2>3. "im_end" \in Specials /\ Letter("im_end") = "E"
    BY Markers
  <2>4. At(s, p, SpecialTokenMap["im_end"])
    BY <1>2, <2>1, <2>2, <2>3, MarkerAt
  <2> QED
    BY <2>3, <2>4 DEF SpecialAt, p
<1>8. SpecialAt(s, A + (L + 7)) = {}
  <2> DEFINE p == A + (L + 7)
  <2>1. p \in 1 .. Len(s) /\ s[p] # "<"
    BY <1>0, <1>3, <1>4 DEF n
  <2> HIDE DEF p
  <2>2. SpecialAt(s, p) = {}
    BY <1>2, <2>1, NoMarker
  <2> QED
    BY <2>2 DEF p
<1> DEFINE X == SubSeq(s, A + 3, A + (L + 4))
           Y == SubSeq(s, A + (L + 7), A + (L + 7))
           z1 == g[A + (L + 8)]
           z2 == g[A + (L + 7)]
           z3 == g[A + (L + 5)]
           z4 == g[A + 3]
<1>9. g[A + 1] = <<"im_start">> \o z4
  <2> DEFINE p == A + 1
  <2>1. p \in 1 .. Len(s) /\ p + 2 = A + 3
    BY <1>0, <1>4 DEF n
  <2> HIDE DEF p
  <2>2. g[p] = <<"im_start">> \o g[p + 2]
    BY <1>2, <1>5, <2>1, AfterMarker DEF p
  <2> QED
    BY <2>1, <2>2 DEF p
<1>10. z4 = X \o z3
  <2> DEFINE p == A + 3
             e == A + (L + 5)
  <2>1. p \in 1 .. Len(s) + 1 /\ e \in p .. Len(s) + 1 /\ e - 1 = A + (L + 4)
    BY <1>0, <1>4 DEF n
  <2>2. \A q \in p .. e - 1 : SpecialAt(s, q) = {}
    BY <1>6, <2>1
  <2> HIDE DEF p, e
  <2>3. g[p] = SubSeq(s, p, e - 1) \o g[e]
    BY <1>2, <2>1, <2>2, AfterText
  <2> QED
    BY <2>1, <2>3 DEF p, e
<1>11. z3 = <<"im_end">> \o z2
  <2> DEFINE p == A + (L + 5)
  <2>1. p \in 1 .. Len(s) /\ p + 2 = A + (L + 7)
    BY <1>0, <1>4 DEF n
  <2> HIDE DEF p
  <2>2. g[p] = <<"im_end">> \o g[p + 2]
    BY <1>2, <1>7, <2>1, AfterMarker DEF p
  <2> QED
    BY <2>1, <2>2 DEF p
<1>12. z2 = Y \o z1
  <2> DEFINE p == A + (L + 7)
             e == A + (L + 8)
  <2>1. p \in 1 .. Len(s) + 1 /\ e \in p .. Len(s) + 1
    BY <1>0, <1>4 DEF n
  <2>2. \A q \in p .. e - 1 : SpecialAt(s, q) = {}
    <3>1. \A q \in p .. e - 1 : q = p
      BY <1>0
    <3> QED
      BY <1>8, <3>1
  <2>3. e - 1 = p
    BY <1>0
  <2> HIDE DEF p, e
  <2>4. g[p] = SubSeq(s, p, e - 1) \o g[e]
    BY <1>2, <2>1, <2>2, AfterText
  <2>5. SubSeq(s, p, e - 1) = SubSeq(s, p, p)
    BY <2>3
  <2> QED
    BY <2>4, <2>5 DEF p, e
<1>13. Y = <<"\n">>
  <2> DEFINE p == A + (L + 7)
  <2>1. p \in 1 .. Len(s) /\ s[p] = "\n"
    BY <1>0, <1>3, <1>4 DEF n
  <2> HIDE DEF p
  <2>2. s \in Seq(Characters)
    BY <1>2 DEF Text
  <2>3. SubSeq(s, p, p) = <<s[p]>>
    BY <2>1, <2>2, SubSeqOne
  <2> QED
    BY <2>1, <2>3 DEF p
<1>14. X = <<m.role, "\n">> \o c
  <2>0. s \in Seq(Characters) /\ <<m.role, "\n">> \in Seq(Characters)
    BY <1>2, TemplateText DEF Text
  <2> DEFINE u == <<m.role, "\n">> \o c
  <2>1. u \in Seq(Characters) /\ Len(u) = L + 2 /\ u[1] = m.role /\ u[2] = "\n"
        /\ \A i \in 1 .. L : u[i + 2] = c[i]
    BY <1>0, <2>0 DEF L
  <2>2. X \in Seq(Characters) /\ Len(X) = L + 2
        /\ \A i \in 1 .. L + 2 : X[i] = s[(A + 3) + i - 1]
    BY <1>0, <1>4, <2>0 DEF n
  <2> HIDE DEF u, X
  <2>3. ASSUME NEW i \in 1 .. L + 2 PROVE X[i] = u[i]
    <3>1. CASE i = 1
      <4>1. (A + 3) + i - 1 = A + 3
        BY <1>0, <3>1
      <4> QED
        BY <1>3, <2>1, <2>2, <3>1, <4>1
    <3>2. CASE i = 2
      <4>1. (A + 3) + i - 1 = A + 4
        BY <1>0, <3>2
      <4> QED
        BY <1>3, <2>1, <2>2, <3>2, <4>1
    <3>3. CASE i > 2
      <4> DEFINE j == i - 2
      <4>1. j \in 1 .. L /\ i = j + 2 /\ (A + 3) + i - 1 = A + (j + 4)
        BY <1>0, <3>3
      <4> HIDE DEF j
      <4>2. X[i] = s[A + (j + 4)]
        BY <2>2, <4>1
      <4>3. X[i] = c[j]
        BY <1>3, <4>1, <4>2
      <4> QED
        BY <2>1, <4>1, <4>3
    <3>4. i = 1 \/ i = 2 \/ i > 2
      BY <1>0
    <3> QED
      BY <3>1, <3>2, <3>3, <3>4
  <2> QED
    BY <2>1, <2>2, <2>3, SeqEqual DEF u
<1>15. A + (L + 8) = A + Len(F) + 1 /\ A + (L + 8) \in 1 .. n + 1
  <2>1. Len(F) = L + 7 /\ A \in Nat /\ L \in Nat
    BY <1>0, <1>1 DEF L, c, A
  <2> QED
    BY <1>4, <2>1
<1>16. /\ <<"im_start">> \in Seq(PromptTokens) /\ <<"im_end">> \in Seq(PromptTokens)
       /\ <<"\n">> \in Seq(PromptTokens) /\ <<m.role, "\n">> \o c \in Seq(PromptTokens)
       /\ z1 \in Seq(PromptTokens)
  <2>1. <<m.role, "\n">> \o c \in Seq(Characters) /\ "\n" \in Characters
    BY <1>0, TemplateText, GenerationAssumption DEF Text
  <2>2. "im_start" \in PromptTokens /\ "im_end" \in PromptTokens /\ "\n" \in PromptTokens
    BY <2>1, Markers DEF PromptTokens
  <2>3. <<m.role, "\n">> \o c \in Seq(PromptTokens)
    BY <2>1 DEF PromptTokens
  <2>4. z1 \in Seq(PromptTokens)
    BY <1>15 DEF Encoding, n
  <2> QED
    BY <2>2, <2>3, <2>4
<1> DEFINE b1 == <<"im_start">>
           b2 == <<m.role, "\n">> \o c
           b3 == <<"im_end">>
           b4 == <<"\n">>
<1>17. g[A + 1] = b1 \o (b2 \o (b3 \o (b4 \o z1)))
  BY <1>9, <1>10, <1>11, <1>12, <1>13, <1>14
<1>18. Turn(m) = (b1 \o b2) \o (b3 \o b4)
  BY DEF Turn, TurnHead, TurnEnd, c
<1>19. /\ b1 \in Seq(PromptTokens) /\ b2 \in Seq(PromptTokens)
       /\ b3 \in Seq(PromptTokens) /\ b4 \in Seq(PromptTokens)
       /\ z1 \in Seq(PromptTokens)
  BY <1>16
<1> HIDE DEF b1, b2, b3, b4, z1, z2, z3, z4, X, Y
<1>20. \A w1, w2, w3, w4, w5 \in Seq(PromptTokens) :
         /\ w1 \o (w2 \o (w3 \o (w4 \o w5))) = ((w1 \o w2) \o (w3 \o w4)) \o w5
         /\ (w1 \o w2) \o (w3 \o w4) \in Seq(PromptTokens)
  BY ConcatFive
<1>21. /\ b1 \o (b2 \o (b3 \o (b4 \o z1))) = ((b1 \o b2) \o (b3 \o b4)) \o z1
       /\ (b1 \o b2) \o (b3 \o b4) \in Seq(PromptTokens)
  <2>1. b1 \in Seq(PromptTokens)
    BY <1>19
  <2>2. b2 \in Seq(PromptTokens)
    BY <1>19
  <2>3. b3 \in Seq(PromptTokens)
    BY <1>19
  <2>4. b4 \in Seq(PromptTokens)
    BY <1>19
  <2>5. z1 \in Seq(PromptTokens)
    BY <1>19
  <2>6. \A w2, w3, w4, w5 \in Seq(PromptTokens) :
         /\ b1 \o (w2 \o (w3 \o (w4 \o w5))) = ((b1 \o w2) \o (w3 \o w4)) \o w5
         /\ (b1 \o w2) \o (w3 \o w4) \in Seq(PromptTokens)
    BY <1>20, <2>1, Zenon
  <2>7. \A w3, w4, w5 \in Seq(PromptTokens) :
         /\ b1 \o (b2 \o (w3 \o (w4 \o w5))) = ((b1 \o b2) \o (w3 \o w4)) \o w5
         /\ (b1 \o b2) \o (w3 \o w4) \in Seq(PromptTokens)
    BY <2>6, <2>2, Zenon
  <2>8. \A w4, w5 \in Seq(PromptTokens) :
         /\ b1 \o (b2 \o (b3 \o (w4 \o w5))) = ((b1 \o b2) \o (b3 \o w4)) \o w5
         /\ (b1 \o b2) \o (b3 \o w4) \in Seq(PromptTokens)
    BY <2>7, <2>3, Zenon
  <2> QED
    BY <2>8, <2>4, <2>5, Zenon
<1>22. g[A + 1] = Turn(m) \o z1
  BY <1>17, <1>18, <1>21
<1>23. z1 = g[A + Len(F) + 1]
  BY <1>15 DEF z1
<1> QED
  BY <1>18, <1>21, <1>22, <1>23 DEF A, F

\* What a conversation that goes on ends with, as text and as tokens.
OpenText == ImStart \o <<"assistant", "\n">>
OpenTurn == <<"im_start">> \o <<"assistant", "\n">>

\* It becomes an open turn.
LEMMA OpenEncodes ==
  ASSUME NEW a \in Text, NEW s, s = a \o OpenText, NEW g, Encoding(g, s)
  PROVE  /\ g[Len(a) + 1] = OpenTurn /\ s \in Text /\ OpenText \in Text
<1> DEFINE A == Len(a)
           b1 == ImStart
           b2 == <<"assistant", "\n">>
           o == b1 \o b2
<1>0. A \in Nat /\ a \in Seq(Characters)
  BY DEF Text
<1>1. /\ b1 \in Seq(Characters) /\ Len(b1) = 2 /\ b1[1] = "<" /\ b1[2] = "S"
      /\ b2 \in Seq(Characters) /\ Len(b2) = 2 /\ b2[1] = "assistant" /\ b2[2] = "\n"
  <2>1. {"<", "S", "\n", "assistant"} \subseteq Characters
    BY GenerationAssumption
  <2> QED
    BY <2>1, TwoIs DEF ImStart
<1>2. s = a \o o /\ OpenText = o
  BY DEF OpenText
<1> HIDE DEF b1, b2
<1> DEFINE Joins(u, v) ==
             /\ u \o v \in Seq(Characters) /\ Len(u \o v) = Len(u) + Len(v)
             /\ \A i \in 1 .. Len(u) : (u \o v)[i] = u[i]
             /\ \A i \in 1 .. Len(v) : (u \o v)[Len(u) + i] = v[i]
<1>a. \A u, v \in Seq(Characters) : Joins(u, v)
  <2> HIDE DEF o, A
  <2> QED
    BY ConcatIs
<1>3. /\ o \in Seq(Characters) /\ Len(o) = 4
      /\ o[1] = "<" /\ o[2] = "S" /\ o[3] = "assistant" /\ o[4] = "\n"
  <2>1. /\ o \in Seq(Characters) /\ Len(o) = 4
        /\ \A i \in 1 .. 2 : o[i] = b1[i]
        /\ \A i \in 1 .. 2 : o[2 + i] = b2[i]
    <3>1. Joins(b1, b2)
      BY <1>a, <1>1
    <3> QED
      BY <1>1, <3>1
  <2>2. o[1] = b1[1] /\ o[2] = b1[2] /\ o[2 + 1] = b2[1] /\ o[2 + 2] = b2[2]
    <3> HIDE DEF o
    <3> QED
      BY <2>1
  <2> QED
    BY <1>1, <2>1, <2>2
<1> HIDE DEF o
<1>4. /\ s \in Seq(Characters) /\ Len(s) = A + 4
      /\ s[A + 1] = "<" /\ s[A + 2] = "S" /\ s[A + 3] = "assistant" /\ s[A + 4] = "\n"
  <2>1. /\ a \o o \in Seq(Characters) /\ Len(a \o o) = Len(a) + Len(o)
        /\ \A i \in 1 .. Len(o) : (a \o o)[Len(a) + i] = o[i]
    <3>1. Joins(a, o)
      BY <1>a, <1>0, <1>3
    <3> QED
      BY <3>1
  <2>2. s \in Seq(Characters) /\ Len(s) = A + 4 /\ \A i \in 1 .. 4 : s[A + i] = o[i]
    BY <1>2, <1>3, <2>1
  <2>3. s[A + 1] = o[1] /\ s[A + 2] = o[2] /\ s[A + 3] = o[3] /\ s[A + 4] = o[4]
    BY <2>2
  <2> QED
    BY <1>3, <2>2, <2>3
<1>5. s \in Text /\ o \in Text
  BY <1>3, <1>4 DEF Text
<1> HIDE DEF A
<1>b. TextFollows(g, s)
  BY <1>5, AfterTexts, Zenon
<1>6. "im_start" \in SpecialAt(s, A + 1)
  <2> DEFINE p == A + 1
  <2>1. p \in 1 .. Len(s) /\ p + 1 <= Len(s) /\ p + 1 = A + 2
    BY <1>0, <1>4
  <2> HIDE DEF p
  <2>2. s[p] = "<" /\ s[p + 1] = "S"
    BY <1>4, <2>1 DEF p
  <2>3. "im_start" \in Specials /\ Letter("im_start") = "S"
    BY Markers
  <2>4. At(s, p, SpecialTokenMap["im_start"])
    BY <1>5, <2>1, <2>2, <2>3, MarkerAt
  <2> QED
    BY <2>3, <2>4 DEF SpecialAt, p
<1>7. g[A + 1] = <<"im_start">> \o g[A + 3]
  <2> DEFINE p == A + 1
  <2>1. p \in 1 .. Len(s) /\ p + 2 = A + 3
    BY <1>0, <1>4
  <2> HIDE DEF p
  <2>2. g[p] = <<"im_start">> \o g[p + 2]
    BY <1>5, <1>6, <2>1, AfterMarker DEF p
  <2> QED
    BY <2>1, <2>2 DEF p
<1>8. g[A + 3] = <<"assistant", "\n">> \o g[A + 5]
  <2> DEFINE p == A + 3
             e == A + 5
  <2>1. p \in 1 .. Len(s) + 1 /\ e \in p .. Len(s) + 1
    BY <1>0, <1>4
  <2>2. \A q \in p .. e - 1 : SpecialAt(s, q) = {}
    <3>1. \A q \in p .. e - 1 : q \in 1 .. Len(s) /\ (q = A + 3 \/ q = A + 4)
      BY <1>0, <1>4
    <3>2. \A q \in p .. e - 1 : s[q] # "<"
      BY <1>4, <3>1
    <3> QED
      BY <1>5, <3>1, <3>2, NoMarker
  <2>3. e - 1 = p + 1 /\ p \in 1 .. Len(s) /\ p + 1 <= Len(s) /\ p + 1 = A + 4
    BY <1>0, <1>4
  <2> HIDE DEF p, e
  <2>4. g[p] = SubSeq(s, p, e - 1) \o g[e]
    BY <1>b, <2>1, <2>2, Zenon DEF TextFollows
  <2>5. SubSeq(s, p, e - 1) = SubSeq(s, p, p + 1)
    BY <2>3
  <2>6. SubSeq(s, p, p + 1) = <<s[p], s[p + 1]>>
    BY <1>4, <2>3, SubSeqTwo
  <2>7. s[p] = "assistant" /\ s[p + 1] = "\n"
    BY <1>4, <2>3 DEF p
  <2> QED
    BY <2>4, <2>5, <2>6, <2>7 DEF p, e
<1>9. g[A + 5] = <<>>
  <2>1. A + 5 = Len(s) + 1
    BY <1>0, <1>4
  <2> QED
    BY <1>5, <2>1, AfterEnd
<1>10. <<"assistant", "\n">> \o <<>> = <<"assistant", "\n">>
  BY <1>1, ConcatText DEF b2
<1> QED
  BY <1>2, <1>5, <1>7, <1>8, <1>9, <1>10 DEF OpenTurn, A

\* A turn, token by token.
LEMMA TurnIs ==
  ASSUME NEW m, m.role \in Roles, m.content \in Text
  PROVE  LET T == Turn(m)
             L == Len(m.content)
         IN  /\ T \in Seq(PromptTokens) /\ L \in Nat /\ Len(T) = L + 5
             /\ T[1] = "im_start" /\ T[2] = m.role /\ T[3] = "\n"
             /\ \A i \in 1 .. L : T[i + 3] = m.content[i]
             /\ T[L + 4] = "im_end" /\ T[L + 5] = "\n"
<1> DEFINE c == m.content
           L == Len(c)
           b1 == <<"im_start">>
           b2 == <<m.role, "\n">>
           b3 == <<"im_end">>
           b4 == <<"\n">>
           a2 == b2 \o c
           a1 == b1 \o a2
           a3 == b3 \o b4
           T == a1 \o a3
<1>0. c \in Seq(PromptTokens) /\ L \in Nat
  BY DEF Text, PromptTokens
<1>1. /\ b1 \in Seq(PromptTokens) /\ Len(b1) = 1 /\ b1[1] = "im_start"
      /\ b2 \in Seq(PromptTokens) /\ Len(b2) = 2 /\ b2[1] = m.role /\ b2[2] = "\n"
      /\ b3 \in Seq(PromptTokens) /\ Len(b3) = 1 /\ b3[1] = "im_end"
      /\ b4 \in Seq(PromptTokens) /\ Len(b4) = 1 /\ b4[1] = "\n"
  <2>1. {"\n", m.role} \subseteq Characters
    BY GenerationAssumption DEF Roles
  <2>2. "\n" \in PromptTokens /\ m.role \in PromptTokens
        /\ "im_start" \in PromptTokens /\ "im_end" \in PromptTokens
    BY <2>1, Markers DEF PromptTokens
  <2> QED
    BY <2>2, OneIs, TwoIs
<1>2. T = Turn(m)
  BY DEF Turn, TurnHead, TurnEnd
<1> HIDE DEF b1, b2, b3, b4, c
<1>3. \A u, v \in Seq(PromptTokens) :
        /\ u \o v \in Seq(PromptTokens) /\ Len(u \o v) = Len(u) + Len(v)
        /\ \A i \in 1 .. Len(u) : (u \o v)[i] = u[i]
        /\ \A i \in 1 .. Len(v) : (u \o v)[Len(u) + i] = v[i]
  <2> HIDE DEF a1, a2, a3, T
  <2> QED
    BY ConcatIs
<1>4. /\ a2 \in Seq(PromptTokens) /\ Len(a2) = 2 + L
      /\ \A i \in 1 .. 2 : a2[i] = b2[i]
      /\ \A i \in 1 .. L : a2[2 + i] = c[i]
  <2> HIDE DEF a1, a3, T
  <2>1. b2 \in Seq(PromptTokens) /\ Len(b2) = 2
    BY <1>1
  <2>2. /\ a2 \in Seq(PromptTokens) /\ Len(a2) = Len(b2) + Len(c)
        /\ \A i \in 1 .. Len(b2) : a2[i] = b2[i]
        /\ \A i \in 1 .. Len(c) : a2[Len(b2) + i] = c[i]
    BY <1>0, <1>3, <2>1
  <2> HIDE DEF a2
  <2> QED
    BY <2>1, <2>2
<1> HIDE DEF a2, L
<1>5. /\ a1 \in Seq(PromptTokens) /\ Len(a1) = L + 3
      /\ a1[1] = "im_start" /\ a1[2] = m.role /\ a1[3] = "\n"
      /\ \A i \in 1 .. L : a1[i + 3] = c[i]
  <2> HIDE DEF a3, T
  <2>1. b1 \in Seq(PromptTokens) /\ Len(b1) = 1 /\ a2 \in Seq(PromptTokens)
    BY <1>1, <1>4
  <2>2. /\ a1 \in Seq(PromptTokens) /\ Len(a1) = Len(b1) + Len(a2)
        /\ \A i \in 1 .. Len(b1) : a1[i] = b1[i]
        /\ \A i \in 1 .. Len(a2) : a1[Len(b1) + i] = a2[i]
    BY <1>3, <2>1
  <2> HIDE DEF a1
  <2>3. /\ a1 \in Seq(PromptTokens) /\ Len(a1) = 1 + (2 + L)
        /\ \A i \in 1 .. 1 : a1[i] = b1[i]
        /\ \A i \in 1 .. 2 + L : a1[1 + i] = a2[i]
    BY <1>4, <2>1, <2>2
  <2>4. a1[1] = "im_start"
    BY <1>1, <2>3
  <2>5. a1[2] = m.role /\ a1[3] = "\n"
    <3>1. 1 \in 1 .. 2 + L /\ 2 \in 1 .. 2 + L
      BY <1>0
    <3>2. a1[1 + 1] = a2[1] /\ a1[1 + 2] = a2[2]
      BY <2>3, <3>1
    <3>3. a2[1] = b2[1] /\ a2[2] = b2[2]
      BY <1>4
    <3> QED
      BY <1>1, <3>2, <3>3
  <2>6. ASSUME NEW i \in 1 .. L PROVE a1[i + 3] = c[i]
    <3>1. 2 + i \in 1 .. 2 + L /\ 1 + (2 + i) = i + 3
      BY <1>0
    <3>2. a1[1 + (2 + i)] = a2[2 + i]
      BY <2>3, <3>1
    <3> QED
      BY <1>4, <3>1, <3>2
  <2> QED
    BY <1>0, <2>3, <2>4, <2>5, <2>6
<1> HIDE DEF a1
<1>6. a3 \in Seq(PromptTokens) /\ Len(a3) = 2 /\ a3[1] = "im_end" /\ a3[2] = "\n"
  <2> HIDE DEF T
  <2>2. /\ a3 \in Seq(PromptTokens) /\ Len(a3) = Len(b3) + Len(b4)
        /\ \A i \in 1 .. Len(b3) : a3[i] = b3[i]
        /\ \A i \in 1 .. Len(b4) : a3[Len(b3) + i] = b4[i]
    BY <1>1, <1>3
  <2> HIDE DEF a3
  <2>3. Len(a3) = 2 /\ a3[1] = b3[1] /\ a3[1 + 1] = b4[1]
    BY <1>1, <2>2
  <2> QED
    BY <1>1, <2>2, <2>3
<1> HIDE DEF a3
<1>7. /\ T \in Seq(PromptTokens) /\ Len(T) = (L + 3) + 2
      /\ \A i \in 1 .. L + 3 : T[i] = a1[i]
      /\ \A i \in 1 .. 2 : T[(L + 3) + i] = a3[i]
  <2>2. /\ T \in Seq(PromptTokens) /\ Len(T) = Len(a1) + Len(a3)
        /\ \A i \in 1 .. Len(a1) : T[i] = a1[i]
        /\ \A i \in 1 .. Len(a3) : T[Len(a1) + i] = a3[i]
    BY <1>3, <1>5, <1>6
  <2> HIDE DEF T
  <2> QED
    BY <1>5, <1>6, <2>2
<1> HIDE DEF T
<1>8. Len(T) = L + 5
  BY <1>0, <1>7
<1>9. T[1] = "im_start" /\ T[2] = m.role /\ T[3] = "\n"
  <2>1. 1 \in 1 .. L + 3 /\ 2 \in 1 .. L + 3 /\ 3 \in 1 .. L + 3
    BY <1>0
  <2> QED
    BY <1>5, <1>7, <2>1
<1>10. ASSUME NEW i \in 1 .. L PROVE T[i + 3] = c[i]
  <2>1. i + 3 \in 1 .. L + 3
    BY <1>0
  <2> QED
    BY <1>5, <1>7, <2>1
<1>11. T[L + 4] = "im_end" /\ T[L + 5] = "\n"
  <2>1. T[(L + 3) + 1] = a3[1] /\ T[(L + 3) + 2] = a3[2]
    BY <1>7
  <2>2. (L + 3) + 1 = L + 4 /\ (L + 3) + 2 = L + 5
    BY <1>0
  <2> QED
    BY <1>6, <2>1, <2>2
<1> QED
  BY <1>0, <1>2, <1>7, <1>8, <1>9, <1>10, <1>11 DEF c, L

\* The messages of a conversation, the system's own included; as pieces of
\* text and as turns.
Said == RoledMessage \cup [role : Roles, content : Text]
FormatsOf(all) == [i \in DOMAIN all |-> FormatMessage(all[i])]
TurnsOf(all) == [i \in DOMAIN all |-> Turn(all[i])]

LEMMA PiecesOf ==
  ASSUME NEW all \in Seq(Said)
  PROVE  /\ Len(all) \in Nat /\ DOMAIN all = 1 .. Len(all)
         /\ \A i \in 1 .. Len(all) : all[i].role \in Roles /\ all[i].content \in Text
         /\ FormatsOf(all) \in Seq(Seq(Characters)) /\ Len(FormatsOf(all)) = Len(all)
         /\ \A i \in 1 .. Len(all) : FormatsOf(all)[i] = FormatMessage(all[i])
         /\ TurnsOf(all) \in Seq(Seq(PromptTokens)) /\ Len(TurnsOf(all)) = Len(all)
         /\ \A i \in 1 .. Len(all) : TurnsOf(all)[i] = Turn(all[i])
<1> DEFINE n == Len(all)
<1>1. n \in Nat /\ DOMAIN all = 1 .. n
  OBVIOUS
<1>2. ASSUME NEW i \in 1 .. n
      PROVE  all[i].role \in Roles /\ all[i].content \in Text
  <2>1. all[i] \in Said
    OBVIOUS
  <2> QED
    BY <2>1 DEF Said, RoledMessage
<1> HIDE DEF n
<1>3. \A i \in 1 .. n : FormatMessage(all[i]) \in Seq(Characters)
  BY <1>2, FormatMessageType DEF Text
<1>4. \A i \in 1 .. n : Turn(all[i]) \in Seq(PromptTokens)
  BY <1>2, TurnIs
<1> DEFINE fs == FormatsOf(all)
           ts == TurnsOf(all)
<1>5. fs \in [1 .. n -> Seq(Characters)] /\ \A i \in 1 .. n : fs[i] = FormatMessage(all[i])
  BY <1>1, <1>3 DEF FormatsOf
<1>6. ts \in [1 .. n -> Seq(PromptTokens)] /\ \A i \in 1 .. n : ts[i] = Turn(all[i])
  BY <1>1, <1>4 DEF TurnsOf
<1> HIDE DEF fs, ts
<1>7. fs \in Seq(Seq(Characters)) /\ Len(fs) = n
  <2>1. fs \in Seq(Seq(Characters)) /\ DOMAIN fs = 1 .. n
    BY <1>1, <1>5, SeqDef
  <2> QED
    BY <1>1, <2>1
<1>8. ts \in Seq(Seq(PromptTokens)) /\ Len(ts) = n
  <2>1. ts \in Seq(Seq(PromptTokens)) /\ DOMAIN ts = 1 .. n
    BY <1>1, <1>6, SeqDef
  <2> QED
    BY <1>1, <2>1
<1> QED
  BY <1>1, <1>2, <1>5, <1>6, <1>7, <1>8 DEF n, fs, ts

\* The pieces of text become the turns, one after the other.
LEMMA ConversationEncodes ==
  ASSUME NEW all \in Seq(Said), \A i \in DOMAIN all : Plain(all[i].content),
         NEW F, Stacks(F, FormatsOf(all), Characters),
         NEW K, Stacks(K, TurnsOf(all), PromptTokens),
         NEW open \in Text, NEW s \in Text, s = F[Len(all)] \o open,
         NEW g, Encoding(g, s)
  PROVE  g[1] = K[Len(all)] \o g[Len(F[Len(all)]) + 1]
<1> DEFINE n == Len(all)
           fs == FormatsOf(all)
           ts == TurnsOf(all)
<1>0. /\ n \in Nat /\ DOMAIN all = 1 .. n
      /\ \A i \in 1 .. n : all[i].role \in Roles /\ all[i].content \in Text
      /\ fs \in Seq(Seq(Characters)) /\ Len(fs) = n
      /\ \A i \in 1 .. n : fs[i] = FormatMessage(all[i])
      /\ ts \in Seq(Seq(PromptTokens)) /\ Len(ts) = n
      /\ \A i \in 1 .. n : ts[i] = Turn(all[i])
  BY PiecesOf
<1>1. Stacks(F, fs, Characters) /\ Stacks(K, ts, PromptTokens) /\ s = F[n] \o open
      /\ \A i \in 1 .. n : Plain(all[i].content)
  BY <1>0
<1> HIDE DEF n, fs, ts
<1>2. /\ \A i \in 0 .. n : F[i] \in Seq(Characters)
      /\ \A i \in 1 .. n : F[i] = F[i - 1] \o fs[i]
      /\ F[0] = <<>>
  BY <1>0, <1>1 DEF Stacks
<1>3. /\ \A i \in 0 .. n : K[i] \in Seq(PromptTokens)
      /\ \A i \in 1 .. n : K[i] = K[i - 1] \o ts[i]
      /\ K[0] = <<>>
  BY <1>0, <1>1 DEF Stacks
<1>4. \A i \in 1 .. n : \E r \in Seq(Characters) : s = F[i - 1] \o (fs[i] \o r)
  <2>1. open \in Seq(Characters)
    BY DEF Text
  <2> QED
    <3>1. fs \in Seq(Seq(Characters)) /\ Stacks(F, fs, Characters)
      BY <1>0, <1>1
    <3>2. Splits(F[Len(fs)] \o open, F, fs, Characters)
      BY <2>1, <3>1, StackSplits
    <3>3. Len(fs) = n /\ F[n] \o open = s
      BY <1>0, <1>1
    <3> QED
      BY <3>2, <3>3 DEF Splits
<1> DEFINE T == {k \in 0 .. n : g[1] # K[k] \o g[Len(F[k]) + 1]}
<1>5. T = {}
  <2>0. SUFFICES ASSUME T # {} PROVE FALSE
    OBVIOUS
  <2>1. PICK k \in T : \A y \in T : k <= y
    <3>1. \A y \in T : y \in 0 .. n
      BY Zenon
    <3> HIDE DEF T
    <3>2. T \subseteq Nat
      BY <1>0, <3>1
    <3> QED
      BY <2>0, <3>2, LeastOf
  <2>2. k \in 0 .. n /\ g[1] # K[k] \o g[Len(F[k]) + 1]
    OBVIOUS
  <2>3. CASE k = 0
    <3>1. Len(F[k]) + 1 = 1 /\ K[k] = <<>>
      BY <1>2, <1>3, <2>3
    <3>2. g[1] \in Seq(PromptTokens)
      <4>1. 1 \in 1 .. Len(s) + 1
        BY DEF Text
      <4> QED
        BY <4>1 DEF Encoding
    <3>3. <<>> \o g[1] = g[1]
      BY <3>2, ConcatText
    <3> QED
      BY <2>2, <3>1, <3>3
  <2>4. CASE k # 0
    <3>1. k \in 1 .. n /\ k - 1 \in 0 .. n /\ k - 1 < k
      BY <1>0, <2>2, <2>4
    <3>2. g[1] = K[k - 1] \o g[Len(F[k - 1]) + 1]
      <4>1. k - 1 \notin T
        <5>1. k - 1 \in T => k <= k - 1
          BY <2>1, Zenon
        <5> HIDE DEF T
        <5> QED
          BY <1>0, <2>2, <5>1
      <4> QED
        BY <3>1, <4>1
    <3>3. PICK r \in Seq(Characters) : s = F[k - 1] \o (fs[k] \o r)
      BY <1>4, <3>1
    <3> DEFINE a == F[k - 1]
               m == all[k]
               f == FormatMessage(m)
               q == Len(a) + Len(f) + 1
    <3>4. /\ a \in Text /\ r \in Text /\ m.role \in Roles /\ m.content \in Text
          /\ Plain(m.content) /\ s = a \o (f \o r)
      BY <1>0, <1>1, <1>2, <3>1, <3>3 DEF Text
    <3>5. g[Len(a) + 1] = Turn(m) \o g[q] /\ Turn(m) \in Seq(PromptTokens)
      <4> HIDE DEF a, m
      <4> QED
        BY <3>4, TurnEncodes
    <3>6. f \in Seq(Characters) /\ a \in Seq(Characters)
      BY <3>4, FormatMessageType DEF Text
    <3>7. F[k] = a \o f /\ Len(F[k]) + 1 = q
      <4>1. F[k] = a \o f
        BY <1>0, <1>2, <3>1
      <4> HIDE DEF a, f
      <4>2. Len(a \o f) = Len(a) + Len(f)
        BY <3>6
      <4> QED
        BY <4>1, <4>2
    <3>8. K[k] = K[k - 1] \o Turn(m)
      BY <1>0, <1>3, <3>1
    <3>9. g[q] \in Seq(PromptTokens)
      <4>1. Len(F[k]) \in Nat /\ Len(F[k]) <= Len(s)
        <5>1. r \in Seq(Characters)
          OBVIOUS
        <5> HIDE DEF a, f
        <5>2. Len(a \o (f \o r)) = Len(a) + Len(f) + Len(r)
          BY <3>6, <5>1, PieceIs
        <5>3. Len(a) \in Nat /\ Len(f) \in Nat /\ Len(r) \in Nat /\ Len(a \o f) = Len(a) + Len(f)
          BY <3>6
        <5> QED
          BY <3>4, <3>7, <5>2, <5>3
      <4>2. q \in 1 .. Len(s) + 1
        <5> HIDE DEF q
        <5>1. Len(s) \in Nat
          BY DEF Text
        <5>2. Len(F[k]) + 1 = q
          BY <3>7
        <5> QED
          BY <4>1, <5>1, <5>2
      <4> HIDE DEF q
      <4> QED
        BY <4>2 DEF Encoding
    <3> DEFINE x == K[k - 1]
               y == Turn(m)
               z == g[q]
    <3>10. x \in Seq(PromptTokens) /\ y \in Seq(PromptTokens) /\ z \in Seq(PromptTokens)
      BY <1>3, <3>1, <3>5, <3>9
    <3>11. g[1] = x \o (y \o z) /\ K[k] \o g[Len(F[k]) + 1] = (x \o y) \o z
      BY <3>2, <3>5, <3>7, <3>8
    <3> HIDE DEF x, y, z
    <3>12. (x \o y) \o z = x \o (y \o z)
      <4>1. JoinsAssociatively(PromptTokens)
        BY ConcatAssoc
      <4> QED
        BY <3>10, <4>1, Zenon DEF JoinsAssociatively
    <3> QED
      BY <2>2, <3>11, <3>12
  <2> QED
    BY <2>3, <2>4
<1>6. n \in 0 .. n
  BY <1>0
<1> QED
  BY <1>5, <1>6 DEF n

\* A piece, element by element.
LEMMA SubSeqIs ==
  ASSUME NEW S, NEW s \in Seq(S), NEW p \in Nat, NEW q \in Nat,
         1 <= p, p <= q + 1, q <= Len(s)
  PROVE  /\ SubSeq(s, p, q) \in Seq(S) /\ Len(SubSeq(s, p, q)) = (q + 1) - p
         /\ \A i \in 1 .. (q + 1) - p : SubSeq(s, p, q)[i] = s[p + i - 1]
OBVIOUS

\* In a turn the tokens that open and close it are where they belong only.
LEMMA TurnMarks ==
  ASSUME NEW m, m.role \in Roles, m.content \in Text
  PROVE  LET T == Turn(m)
             L == Len(m.content)
         IN  \A i \in 1 .. L + 5 : /\ T[i] = "im_start" <=> i = 1
                                   /\ T[i] = "im_end" <=> i = L + 4
<1> DEFINE T == Turn(m)
           c == m.content
           L == Len(c)
<1>1. /\ L \in Nat /\ T[1] = "im_start" /\ T[2] = m.role /\ T[3] = "\n"
      /\ \A i \in 1 .. L : T[i + 3] = c[i]
      /\ T[L + 4] = "im_end" /\ T[L + 5] = "\n"
  BY TurnIs
<1>2. /\ "im_start" \notin Characters /\ "im_end" \notin Characters
      /\ "\n" \in Characters /\ m.role \in Characters
      /\ \A i \in 1 .. L : c[i] \in Characters
  <2>1. "\n" \in Characters /\ m.role \in Characters /\ Characters \cap Specials = {}
    BY GenerationAssumption DEF Roles
  <2>2. "im_start" \in Specials /\ "im_end" \in Specials
    BY Markers
  <2>3. \A i \in 1 .. L : c[i] \in Characters
    BY DEF Text
  <2> QED
    BY <2>1, <2>2, <2>3
<1> HIDE DEF T, L, c
<1>3. ASSUME NEW i \in 1 .. L + 5
      PROVE  (T[i] = "im_start" <=> i = 1) /\ (T[i] = "im_end" <=> i = L + 4)
  <2>1. CASE i = 1
    <3>1. T[i] = "im_start" /\ i # L + 4
      BY <1>1, <2>1
    <3> QED
      BY <2>1, <3>1
  <2>2. CASE i \in {2, 3, L + 5}
    <3>1. T[i] \in Characters
      BY <1>1, <1>2, <2>2
    <3>2. i # 1 /\ i # L + 4
      BY <1>1, <2>2
    <3> QED
      BY <1>2, <3>1, <3>2
  <2>3. CASE i = L + 4
    <3>1. T[i] = "im_end" /\ i # 1
      BY <1>1, <2>3
    <3> QED
      BY <2>3, <3>1
  <2>4. CASE i > 3 /\ i < L + 4
    <3> DEFINE j == i - 3
    <3>1. j \in 1 .. L /\ i = j + 3 /\ i # 1 /\ i # L + 4
      BY <1>1, <2>4
    <3> HIDE DEF j
    <3>2. T[i] = c[j]
      BY <1>1, <3>1
    <3>3. T[i] \in Characters
      BY <1>2, <3>1, <3>2
    <3> QED
      BY <1>2, <3>1, <3>3
  <2>5. i = 1 \/ i \in {2, 3, L + 5} \/ i = L + 4 \/ (i > 3 /\ i < L + 4)
    BY <1>1
  <2> QED
    BY <2>1, <2>2, <2>3, <2>4, <2>5
<1> QED
  BY <1>3 DEF T, L, c

\* How many there are up to them.
LEMMA TurnPlaces ==
  ASSUME NEW m, m.role \in Roles, m.content \in Text, NEW r \in Seq(PromptTokens)
  PROVE  LET T == Turn(m)
             L == Len(m.content)
         IN  /\ Cardinality(Places(T \o r, "im_start", 1)) = 1
             /\ Cardinality(Places(T \o r, "im_end", L + 4)) = 1
             /\ Count(T, "im_start") = 1 /\ Count(T, "im_end") = 1
<1> DEFINE T == Turn(m)
           L == Len(m.content)
           b == T \o r
<1>1. T \in Seq(PromptTokens) /\ L \in Nat /\ Len(T) = L + 5
  BY TurnIs
<1>2. \A i \in 1 .. L + 5 : /\ T[i] = "im_start" <=> i = 1
                            /\ T[i] = "im_end" <=> i = L + 4
  BY TurnMarks
<1> HIDE DEF T, L
<1>3. \A i \in 1 .. L + 5 : b[i] = T[i]
  BY <1>1, ConcatIs
<1> HIDE DEF b
<1>4. Places(b, "im_start", 1) = {1}
  <2>1. 1 \in 1 .. L + 5 /\ \A i \in 1 .. 1 : i = 1
    BY <1>1
  <2>2. b[1] = "im_start"
    BY <1>2, <1>3, <2>1
  <2> QED
    BY <2>1, <2>2 DEF Places
<1>5. Places(b, "im_end", L + 4) = {L + 4}
  <2>1. L + 4 \in 1 .. L + 4 /\ \A i \in 1 .. L + 4 : i \in 1 .. L + 5
    BY <1>1
  <2>2. \A i \in 1 .. L + 4 : b[i] = "im_end" <=> i = L + 4
    BY <1>2, <1>3, <2>1
  <2> QED
    BY <2>1, <2>2 DEF Places
<1>6. Places(T, "im_start", L + 5) = {1}
  <2>1. 1 \in 1 .. L + 5
    BY <1>1
  <2> QED
    BY <1>2, <2>1 DEF Places
<1>7. Places(T, "im_end", L + 5) = {L + 4}
  <2>1. L + 4 \in 1 .. L + 5
    BY <1>1
  <2> QED
    BY <1>2, <2>1 DEF Places
<1>8. Cardinality({1}) = 1 /\ Cardinality({L + 4}) = 1
  BY FS_Singleton
<1>9. /\ Count(T, "im_start") = Cardinality(Places(T, "im_start", L + 5))
      /\ Count(T, "im_end") = Cardinality(Places(T, "im_end", L + 5))
  BY <1>1, CountIs
<1> QED
  BY <1>4, <1>5, <1>6, <1>7, <1>8, <1>9 DEF b, T, L

\* As many of them as there are turns.
LEMMA TurnsCounted ==
  ASSUME NEW all \in Seq(Said), NEW K, Stacks(K, TurnsOf(all), PromptTokens),
         NEW t \in {"im_start", "im_end"}
  PROVE  \A k \in 0 .. Len(all) : Count(K[k], t) = k
<1> DEFINE n == Len(all)
           ts == TurnsOf(all)
<1>0. /\ n \in Nat /\ Len(ts) = n
      /\ \A i \in 1 .. n : all[i].role \in Roles /\ all[i].content \in Text
      /\ \A i \in 1 .. n : ts[i] = Turn(all[i])
      /\ \A i \in 1 .. n : ts[i] \in Seq(PromptTokens)
  BY PiecesOf
<1> HIDE DEF n, ts
<1>1. /\ \A i \in 0 .. n : K[i] \in Seq(PromptTokens)
      /\ \A i \in 1 .. n : K[i] = K[i - 1] \o ts[i]
      /\ K[0] = <<>>
  BY <1>0 DEF Stacks, ts
<1>2. \A i \in 1 .. n : Count(ts[i], t) = 1
  <2> SUFFICES ASSUME NEW i \in 1 .. n PROVE Count(ts[i], t) = 1
    OBVIOUS
  <2> DEFINE m == all[i]
  <2>1. m.role \in Roles /\ m.content \in Text /\ ts[i] = Turn(m)
    BY <1>0
  <2>2. <<>> \in Seq(PromptTokens)
    OBVIOUS
  <2> HIDE DEF m
  <2>3. Count(Turn(m), "im_start") = 1 /\ Count(Turn(m), "im_end") = 1
    BY <2>1, <2>2, TurnPlaces
  <2> QED
    BY <2>1, <2>3
<1>3. ASSUME NEW k \in 1 .. n, Count(K[k - 1], t) = k - 1
      PROVE  Count(K[k], t) = k
  <2> DEFINE a == K[k - 1]
             b == ts[k]
  <2>1. k - 1 \in 0 .. n
    BY <1>0
  <2>2. a \in Seq(PromptTokens) /\ b \in Seq(PromptTokens)
    BY <1>0, <1>1, <2>1
  <2>3. K[k] = a \o b
    BY <1>1
  <2>4. Count(a, t) = k - 1 /\ Count(b, t) = 1
    BY <1>2, <1>3
  <2> HIDE DEF a, b
  <2>5. Count(a \o b, t) = Count(a, t) + Count(b, t)
    BY <2>2, CountConcat
  <2> QED
    BY <1>0, <2>3, <2>4, <2>5
<1> DEFINE T == {k \in 0 .. n : Count(K[k], t) # k}
<1>4. T = {}
  <2>0. SUFFICES ASSUME T # {} PROVE FALSE
    OBVIOUS
  <2>1. T \subseteq Nat
    BY <1>0
  <2>2. PICK k \in T : \A y \in T : k <= y
    BY <2>0, <2>1, LeastOf
  <2>3. CASE k = 0
    <3>1. Count(K[0], t) = 0
      BY <1>1, CountNone
    <3> QED
      BY <2>2, <2>3, <3>1
  <2>4. CASE k # 0
    <3>1. k \in 1 .. n /\ k - 1 \in 0 .. n /\ ~(k <= k - 1)
      BY <1>0, <2>2, <2>4
    <3>2. Count(K[k - 1], t) = k - 1
      BY <2>2, <3>1
    <3> QED
      BY <1>3, <2>2, <3>1, <3>2
  <2> QED
    BY <2>3, <2>4
<1> QED
  BY <1>4 DEF n

\* Reading back gives each message's role and content.
LEMMA ReadBackIs ==
  ASSUME NEW all \in Seq(Said), NEW K, Stacks(K, TurnsOf(all), PromptTokens),
         NEW o \in Seq(PromptTokens), Count(o, "im_end") = 0
  PROVE  ReadBack(K[Len(all)] \o o) =
           [i \in DOMAIN all |-> [role |-> all[i].role, content |-> all[i].content]]
<1> DEFINE n == Len(all)
           ts == TurnsOf(all)
           s == K[n] \o o
<1>0. /\ n \in Nat /\ DOMAIN all = 1 .. n /\ ts \in Seq(Seq(PromptTokens)) /\ Len(ts) = n
      /\ \A i \in 1 .. n : all[i].role \in Roles /\ all[i].content \in Text
      /\ \A i \in 1 .. n : ts[i] = Turn(all[i])
  BY PiecesOf
<1>1. Stacks(K, ts, PromptTokens)
  OBVIOUS
<1>2. \A k \in 0 .. n : Count(K[k], "im_start") = k /\ Count(K[k], "im_end") = k
  BY TurnsCounted
<1> HIDE DEF n, ts
<1>3. \A i \in 0 .. n : K[i] \in Seq(PromptTokens)
  BY <1>0, <1>1 DEF Stacks
<1>4. s \in Seq(PromptTokens) /\ Count(s, "im_end") = n
  <2> DEFINE a == K[n]
  <2>1. n \in 0 .. n
    BY <1>0
  <2>2. a \in Seq(PromptTokens) /\ Count(a, "im_end") = n
    BY <1>2, <1>3, <2>1
  <2> HIDE DEF a
  <2>3. a \o o \in Seq(PromptTokens)
    BY <2>2
  <2>4. Count(a \o o, "im_end") = Count(a, "im_end") + Count(o, "im_end")
    BY <2>2, CountConcat
  <2>5. Count(a \o o, "im_end") = n
    BY <1>0, <2>2, <2>4
  <2> QED
    BY <2>3, <2>5 DEF a
<1>5. Splits(s, K, ts, PromptTokens)
  <2>1. Splits(K[Len(ts)] \o o, K, ts, PromptTokens)
    BY <1>0, <1>1, StackSplits
  <2> QED
    BY <1>0, <2>1
<1> HIDE DEF s
<1>6. ASSUME NEW k \in 1 .. n
      PROVE  LET start == Nth(s, "im_start", k)
             IN  /\ s[start + 1] = all[k].role
                 /\ SubSeq(s, start + 3, Nth(s, "im_end", k) - 1) = all[k].content
  <2>1. PICK r \in Seq(PromptTokens) : s = K[k - 1] \o (ts[k] \o r)
    BY <1>0, <1>5 DEF Splits
  <2> DEFINE a == K[k - 1]
             A == Len(a)
             m == all[k]
             T == Turn(m)
             c == m.content
             L == Len(c)
             b == T \o r
  <2>2. k - 1 \in 0 .. n
    BY <1>0
  <2>3. /\ s = a \o b /\ a \in Seq(PromptTokens) /\ A \in Nat
        /\ Count(a, "im_start") = k - 1 /\ Count(a, "im_end") = k - 1
        /\ m.role \in Roles /\ c \in Text
    <3>1. m.role \in Roles /\ c \in Text /\ ts[k] = T
      BY <1>0
    <3>2. a \in Seq(PromptTokens) /\ Count(a, "im_start") = k - 1 /\ Count(a, "im_end") = k - 1
      BY <1>2, <1>3, <2>2
    <3>3. s = a \o b
      BY <2>1, <3>1
    <3> HIDE DEF a, b, c
    <3>4. A \in Nat
      BY <3>2
    <3> QED
      BY <3>1, <3>2, <3>3, <3>4
  <2> HIDE DEF a, m
  <2>4. /\ T \in Seq(PromptTokens) /\ L \in Nat /\ Len(T) = L + 5
        /\ T[1] = "im_start" /\ T[2] = m.role
        /\ \A i \in 1 .. L : T[i + 3] = c[i]
        /\ T[L + 4] = "im_end"
    BY <2>3, TurnIs
  <2>5. /\ Cardinality(Places(b, "im_start", 1)) = 1
        /\ Cardinality(Places(b, "im_end", L + 4)) = 1
    BY <2>3, TurnPlaces
  <2> HIDE DEF T, c
  <2>6. /\ b \in Seq(PromptTokens) /\ Len(b) = (L + 5) + Len(r) /\ Len(r) \in Nat
        /\ \A i \in 1 .. L + 5 : b[i] = T[i]
    <3>1. /\ T \o r \in Seq(PromptTokens) /\ Len(T \o r) = Len(T) + Len(r)
          /\ Len(r) \in Nat /\ \A i \in 1 .. Len(T) : (T \o r)[i] = T[i]
      <4>1. T \in Seq(PromptTokens)
        BY <2>4
      <4> HIDE DEF L, A, b
      <4> QED
        BY <4>1, ConcatIs
    <3> HIDE DEF L
    <3> QED
      BY <2>4, <3>1
  <2> HIDE DEF b, L, A
  <2>7. /\ Len(s) = A + Len(b) /\ \A i \in 1 .. Len(b) : s[A + i] = b[i]
    <3>1. /\ Len(a \o b) = Len(a) + Len(b)
          /\ \A i \in 1 .. Len(b) : (a \o b)[Len(a) + i] = b[i]
      BY <2>3, <2>6, ConcatIs
    <3> QED
      BY <2>3, <3>1 DEF A
  <2>8. \A i \in 1 .. L + 5 : i \in 1 .. Len(b) /\ s[A + i] = T[i]
    <3>1. \A i \in 1 .. L + 5 : i \in 1 .. Len(b)
      BY <2>4, <2>6
    <3> QED
      BY <2>6, <2>7, <3>1
  <2>9. ASSUME NEW t \in {"im_start", "im_end"}, NEW j \in 1 .. L + 5,
               T[j] = t, Cardinality(Places(b, t, j)) = 1
        PROVE  Nth(s, t, k) = A + j
    <3>1. j \in 0 .. Len(b) /\ A + j \in 1 .. Len(s) /\ s[A + j] = t
      <4>1. j \in 1 .. Len(b) /\ s[A + j] = t
        BY <2>8, <2>9
      <4>2. Len(b) \in Nat /\ A \in Nat /\ Len(s) = A + Len(b)
        BY <2>3, <2>4, <2>6, <2>7
      <4> QED
        BY <4>1, <4>2
    <3>2. Cardinality(Places(a \o b, t, Len(a) + j)) =
            Cardinality(Places(a, t, Len(a))) + Cardinality(Places(b, t, j))
      BY <2>3, <2>6, <3>1, PlacesConcat
    <3>3. Cardinality(Places(a, t, Len(a))) = k - 1
      BY <2>3, CountIs
    <3>4. Cardinality(Places(s, t, A + j)) = k
      BY <1>0, <2>3, <2>9, <3>2, <3>3 DEF A
    <3>5. Nth(s, t, Cardinality(Places(s, t, A + j))) = A + j
      BY <1>4, <3>1, NthIs
    <3> QED
      BY <3>4, <3>5
  <2>10. 1 \in 1 .. L + 5 /\ L + 4 \in 1 .. L + 5 /\ 2 \in 1 .. L + 5
    BY <2>4
  <2>11. Nth(s, "im_start", k) = A + 1 /\ Nth(s, "im_end", k) = A + (L + 4)
    BY <2>4, <2>5, <2>9, <2>10
  <2>12. s[(A + 1) + 1] = m.role
    <3>1. (A + 1) + 1 = A + 2
      BY <2>3
    <3> QED
      BY <2>4, <2>8, <2>10, <3>1
  <2>13. SubSeq(s, (A + 1) + 3, (A + (L + 4)) - 1) = c
    <3> DEFINE u == SubSeq(s, A + 4, A + (L + 3))
    <3>1. (A + 1) + 3 = A + 4 /\ (A + (L + 4)) - 1 = A + (L + 3)
      BY <2>3, <2>4
    <3>2. c \in Seq(PromptTokens) /\ Len(c) = L
      BY <2>3 DEF Text, PromptTokens, L
    <3>3. Len(s) \in Nat /\ A + (L + 3) <= Len(s)
      BY <2>3, <2>4, <2>6, <2>7
    <3>4. u \in Seq(PromptTokens) /\ Len(u) = L
          /\ \A i \in 1 .. L : u[i] = s[(A + 4) + i - 1]
      <4>1. /\ s \in Seq(PromptTokens) /\ A + 4 \in Nat /\ A + (L + 3) \in Nat
            /\ 1 <= A + 4 /\ A + 4 <= (A + (L + 3)) + 1 /\ A + (L + 3) <= Len(s)
        BY <1>4, <2>3, <2>4, <3>3
      <4>2. ((A + (L + 3)) + 1) - (A + 4) = L
        BY <2>3, <2>4
      <4> QED
        BY <4>1, <4>2, SubSeqIs
    <3> HIDE DEF u
    <3>5. ASSUME NEW i \in 1 .. L PROVE u[i] = c[i]
      <4>1. (A + 4) + i - 1 = A + (i + 3) /\ i + 3 \in 1 .. L + 5
        BY <2>3, <2>4
      <4>2. s[A + (i + 3)] = T[i + 3]
        BY <2>8, <4>1
      <4> QED
        BY <2>4, <3>4, <4>1, <4>2
    <3>6. u = c
      BY <3>2, <3>4, <3>5, SeqEqual
    <3> QED
      BY <3>1, <3>6 DEF u
  <2> QED
    BY <2>11, <2>12, <2>13 DEF c, m
<1>7. ReadBack(s) =
        [k \in 1 .. n |->
           LET start == Nth(s, "im_start", k)
           IN  [role |-> s[start + 1],
                content |-> SubSeq(s, start + 3, Nth(s, "im_end", k) - 1)]]
  BY <1>4 DEF ReadBack
<1>8. ReadBack(s) = [k \in 1 .. n |-> [role |-> all[k].role, content |-> all[k].content]]
  BY <1>6, <1>7
<1> QED
  BY <1>0, <1>8 DEF s, n

LEMMA OpenTurnIs ==
  /\ OpenTurn \in Seq(PromptTokens) /\ Len(OpenTurn) = 3
  /\ OpenTurn = <<"im_start", "assistant", "\n">>
  /\ Count(OpenTurn, "im_end") = 0
<1> DEFINE o == <<"im_start", "assistant", "\n">>
<1>1. {"assistant", "\n"} \subseteq Characters /\ Characters \cap Specials = {}
  BY GenerationAssumption
<1>2. "im_start" \in Specials /\ "im_end" \in Specials
  BY Markers
<1>3. "im_start" \in PromptTokens /\ "assistant" \in PromptTokens /\ "\n" \in PromptTokens
  BY <1>1, <1>2 DEF PromptTokens
<1>4. o \in Seq(PromptTokens) /\ Len(o) = 3
      /\ o[1] = "im_start" /\ o[2] = "assistant" /\ o[3] = "\n"
  BY <1>3
<1> DEFINE b1 == <<"im_start">>
           b2 == <<"assistant", "\n">>
<1>5. /\ b1 \in Seq(PromptTokens) /\ Len(b1) = 1 /\ b1[1] = "im_start"
      /\ b2 \in Seq(PromptTokens) /\ Len(b2) = 2 /\ b2[1] = "assistant" /\ b2[2] = "\n"
  BY <1>3, OneIs, TwoIs
<1> HIDE DEF o, b1, b2
<1> DEFINE v == b1 \o b2
<1>6. /\ v \in Seq(PromptTokens) /\ Len(v) = Len(b1) + Len(b2)
      /\ \A i \in 1 .. Len(b1) : v[i] = b1[i]
      /\ \A i \in 1 .. Len(b2) : v[Len(b1) + i] = b2[i]
  <2>1. Joined(v, b1, b2, PromptTokens)
    BY <1>5, ConcatJoins
  <2> HIDE DEF v
  <2> QED
    BY <2>1 DEF Joined
<1>7. OpenTurn = v
  BY DEF OpenTurn, b1, b2
<1> HIDE DEF v
<1>8. Len(v) = 3 /\ v[1] = b1[1] /\ v[1 + 1] = b2[1] /\ v[1 + 2] = b2[2]
  BY <1>5, <1>6
<1>9. \A i \in 1 .. 3 : v[i] = o[i]
  BY <1>4, <1>5, <1>8
<1>10. v = o
  BY <1>4, <1>6, <1>8, <1>9, SeqEqual
<1>11. \A i \in DOMAIN o : o[i] # "im_end"
  <2>1. \A i \in DOMAIN o : i = 1 \/ i = 2 \/ i = 3
    BY <1>4
  <2>2. "im_start" # "im_end" /\ "assistant" # "im_end" /\ "\n" # "im_end"
    BY <1>1, <1>2
  <2> QED
    BY <1>4, <2>1, <2>2
<1>12. Count(o, "im_end") = 0
  BY <1>11, CountNone
<1> QED
  BY <1>4, <1>7, <1>10, <1>12 DEF o

\* A plain text is not taken for a formatted prompt.
LEMMA PlainIsNotFormatted ==
  ASSUME NEW s, Plain(s)
  PROVE  ~IsAlreadyFormatted(s)
<1>1. {"im_start", "im_end"} \subseteq Specials
      /\ SpecialTokenMap["im_start"] = ImStart /\ SpecialTokenMap["im_end"] = ImEnd
  BY DEF Specials, SpecialTokenMap
<1> QED
  BY <1>1 DEF IsAlreadyFormatted, Occurs, Plain, SpecialAt

\* The messages with the system's own are messages, and all of them are there.
LEMMA WithSystemIs ==
  ASSUME NEW c \in PromptBuilderConfig, NEW m \in Seq(RoledMessage), m # <<>>
  PROVE  LET all == WithSystem(c, m)
         IN  all \in Seq(Said) /\ \E i \in DOMAIN all : all[i] = m[1]
<1> DEFINE system == [role |-> "system", content |-> c.system]
           with == <<system>> \o m
<1>1. system \in Said
  BY DEF PromptBuilderConfig, Roles, Said
<1>2. m \in Seq(Said)
  BY DEF Said
<1>3. Len(m) \in Nat /\ 1 \in 1 .. Len(m) /\ DOMAIN m = 1 .. Len(m)
  OBVIOUS
<1> HIDE DEF system
<1> DEFINE b == <<system>>
<1>4. b \in Seq(Said) /\ Len(b) = 1
  BY <1>1, OneIs
<1> HIDE DEF b
<1>5. /\ b \o m \in Seq(Said) /\ Len(b \o m) = Len(b) + Len(m)
      /\ \A i \in 1 .. Len(m) : (b \o m)[Len(b) + i] = m[i]
  <2>1. Joined(b \o m, b, m, Said)
    BY <1>2, <1>4, ConcatJoins
  <2> QED
    BY <2>1 DEF Joined
<1>6. with = b \o m
  BY DEF b
<1> HIDE DEF with
<1>7. with \in Seq(Said) /\ Len(with) = 1 + Len(m) /\ with[1 + 1] = m[1]
  BY <1>3, <1>4, <1>5, <1>6
<1>8. 2 \in DOMAIN with /\ with[2] = m[1]
  BY <1>3, <1>7
<1>9. WithSystem(c, m) = with \/ WithSystem(c, m) = m
  BY DEF WithSystem, with, system
<1> QED
  BY <1>2, <1>3, <1>7, <1>8, <1>9

\* What the tokens of a conversation are: its turns, and the open one.
LEMMA PromptTurns ==
  ASSUME NEW c \in PromptBuilderConfig, NEW m \in Seq(RoledMessage), m # <<>>,
         \A i \in DOMAIN WithSystem(c, m) : Plain(WithSystem(c, m)[i].content)
  PROVE  \E K : LET all == WithSystem(c, m)
                    open == IF c.generation THEN OpenTurn ELSE <<>>
                IN  /\ Stacks(K, TurnsOf(all), PromptTokens)
                    /\ Tokenize(BuildFormattedPrompt(c, m)) = K[Len(all)] \o open
<1> DEFINE all == WithSystem(c, m)
           n == Len(all)
           open == IF c.generation THEN OpenText ELSE <<>>
           s == BuildFormattedPrompt(c, m)
<1>1. all \in Seq(Said) /\ \E i \in DOMAIN all : all[i] = m[1]
  BY WithSystemIs
<1>2. ~IsAlreadyFormatted(m[1].content)
  BY <1>1, PlainIsNotFormatted
<1>3. s = FlattenSeq(FormatsOf(all)) \o open
  BY <1>2 DEF BuildFormattedPrompt, FormatsOf, OpenText
<1>4. s \in Text
  BY PromptType
<1>5. \A i \in DOMAIN all : Plain(all[i].content)
  OBVIOUS
<1> HIDE DEF all, s
<1>6. /\ FormatsOf(all) \in Seq(Seq(Characters)) /\ Len(FormatsOf(all)) = n
      /\ TurnsOf(all) \in Seq(Seq(PromptTokens)) /\ Len(TurnsOf(all)) = n
      /\ n \in Nat
  BY <1>1, PiecesOf
<1>7. PICK F : Stacks(F, FormatsOf(all), Characters) /\ FlattenSeq(FormatsOf(all)) = F[n]
  BY <1>6, StackExists
<1>8. PICK K : Stacks(K, TurnsOf(all), PromptTokens)
  BY <1>6, StackExists
<1>9. PICK g : Encoding(g, s) /\ Tokenize(s) = g[1]
  BY <1>4, EncodingIs
<1>10. OpenText \in Text /\ <<>> \in Text
  <2>1. ImStart \o <<"assistant", "\n">> \in Text
    BY TemplateText, TextConcat
  <2> QED
    BY <2>1 DEF OpenText, Text
<1>11. open \in Text /\ s = F[n] \o open /\ F[n] \in Text
  <2>1. F[n] \in Text
    BY <1>6, <1>7 DEF Stacks, Text
  <2> QED
    BY <1>3, <1>7, <1>10, <2>1
<1>12. g[1] = K[n] \o g[Len(F[n]) + 1]
  <2> HIDE DEF open
  <2> QED
    BY <1>1, <1>4, <1>5, <1>7, <1>8, <1>9, <1>11, ConversationEncodes
<1>13. g[Len(F[n]) + 1] = IF c.generation THEN OpenTurn ELSE <<>>
  <2>1. CASE c.generation
    <3>1. s = F[n] \o OpenText
      BY <1>11, <2>1
    <3>2. g[Len(F[n]) + 1] = OpenTurn
      BY <1>9, <1>11, <3>1, OpenEncodes
    <3> QED
      BY <2>1, <3>2
  <2>2. CASE ~c.generation
    <3>1. s = F[n] \o <<>>
      BY <1>11, <2>2
    <3>2. F[n] \o <<>> = F[n]
      <4> DEFINE a == F[n]
      <4>1. a \in Seq(Characters)
        BY <1>11 DEF Text
      <4> HIDE DEF a
      <4>2. a \o <<>> = a
        BY <4>1, ConcatText
      <4> QED
        BY <4>2 DEF a
    <3>3. g[Len(s) + 1] = <<>>
      BY <1>4, <1>9, AfterEnd
    <3> QED
      BY <2>2, <3>1, <3>2, <3>3
  <2> QED
    BY <2>1, <2>2
<1> QED
  BY <1>8, <1>9, <1>12, <1>13 DEF all, s

\* A conversation without markers of its own is read back, with the open turn
\* at the end.
LEMMA ConversationReadBack ==
  ASSUME NEW c \in PromptBuilderConfig, NEW m \in Seq(RoledMessage), m # <<>>,
         \A i \in DOMAIN WithSystem(c, m) : Plain(WithSystem(c, m)[i].content)
  PROVE  LET all == WithSystem(c, m)
             ts == Tokenize(BuildFormattedPrompt(c, m))
         IN  /\ ReadBack(ts) = [i \in DOMAIN all |-> [role |-> all[i].role,
                                                      content |-> all[i].content]]
             /\ c.generation =>
                  SubSeq(ts, Len(ts) - 2, Len(ts)) = <<"im_start", "assistant", "\n">>
<1> DEFINE all == WithSystem(c, m)
           ts == Tokenize(BuildFormattedPrompt(c, m))
           n == Len(all)
           open == IF c.generation THEN OpenTurn ELSE <<>>
<1>1. PICK K : Stacks(K, TurnsOf(all), PromptTokens) /\ ts = K[n] \o open
  BY PromptTurns
<1>2. all \in Seq(Said)
  BY WithSystemIs
<1> HIDE DEF all, ts
<1>3. open \in Seq(PromptTokens) /\ Count(open, "im_end") = 0
  <2>1. Count(<<>>, "im_end") = 0
    BY CountNone
  <2> QED
    BY <2>1, OpenTurnIs
<1>4. K[n] \in Seq(PromptTokens)
  <2>1. Len(TurnsOf(all)) = n /\ n \in Nat
    BY <1>2, PiecesOf
  <2> QED
    BY <1>1, <2>1 DEF Stacks
<1>5. ReadBack(ts) = [i \in DOMAIN all |-> [role |-> all[i].role,
                                            content |-> all[i].content]]
  <2> HIDE DEF open
  <2> QED
    BY <1>1, <1>2, <1>3, ReadBackIs
<1>6. ASSUME c.generation
      PROVE  SubSeq(ts, Len(ts) - 2, Len(ts)) = <<"im_start", "assistant", "\n">>
  <2> DEFINE a == K[n]
             o == OpenTurn
             A == Len(a)
  <2>1. ts = a \o o /\ a \in Seq(PromptTokens) /\ o \in Seq(PromptTokens) /\ Len(o) = 3
    BY <1>1, <1>4, <1>6, OpenTurnIs
  <2> HIDE DEF a, o
  <2>2. /\ ts \in Seq(PromptTokens) /\ Len(ts) = A + 3 /\ A \in Nat
        /\ \A i \in 1 .. 3 : ts[A + i] = o[i]
    <3>1. /\ a \o o \in Seq(PromptTokens) /\ Len(a \o o) = Len(a) + Len(o)
          /\ Len(a) \in Nat
          /\ \A i \in 1 .. Len(o) : (a \o o)[Len(a) + i] = o[i]
      <4>1. Joined(a \o o, a, o, PromptTokens)
        BY <2>1, ConcatJoins
      <4> QED
        BY <4>1 DEF Joined
    <3> QED
      BY <2>1, <3>1
  <2> HIDE DEF A
  <2> DEFINE u == SubSeq(ts, A + 1, A + 3)
  <2>3. u \in Seq(PromptTokens) /\ Len(u) = 3
        /\ \A i \in 1 .. 3 : u[i] = ts[(A + 1) + i - 1]
    <3>1. /\ A + 1 \in Nat /\ A + 3 \in Nat /\ 1 <= A + 1 /\ A + 1 <= (A + 3) + 1
          /\ A + 3 <= Len(ts) /\ ((A + 3) + 1) - (A + 1) = 3
      BY <2>2
    <3> QED
      BY <2>2, <3>1, SubSeqIs
  <2> HIDE DEF u
  <2>4. ASSUME NEW i \in 1 .. 3 PROVE u[i] = o[i]
    <3>1. (A + 1) + i - 1 = A + i
      BY <2>2
    <3> QED
      BY <2>2, <2>3, <3>1
  <2>5. u = o
    BY <2>1, <2>3, <2>4, SeqEqual
  <2>6. Len(ts) - 2 = A + 1 /\ Len(ts) = A + 3
    BY <2>2
  <2> QED
    BY <2>5, <2>6, OpenTurnIs DEF u, o
<1> QED
  BY <1>5, <1>6 DEF all, ts

-----------------------------------------------------------------------------
(* The stop check.                                                         *)

\* The text of the first n of the tokens ts.
SpellOut(ts, n) == FlattenSeq([i \in 1 .. n |-> TokenText[ts[i]]])

\* The i-th of the tokens ts ends no generation.
GoesOn(ts, stop, i) ==
  /\ ts[i] # ImEndToken
  /\ \A j \in DOMAIN stop : ~IsSuffix(stop[j], SpellOut(ts, i))

LEMMA SpellOutSame ==
  ASSUME NEW ts, NEW us, NEW n \in Nat, \A i \in 1 .. n : ts[i] = us[i]
  PROVE  SpellOut(ts, n) = SpellOut(us, n)
<1>1. [i \in 1 .. n |-> TokenText[ts[i]]] = [i \in 1 .. n |-> TokenText[us[i]]]
  OBVIOUS
<1> QED
  BY <1>1 DEF SpellOut

LEMMA SpellOutNone ==
  ASSUME NEW ts
  PROVE  SpellOut(ts, 0) = <<>>
<1>1. [i \in 1 .. 0 |-> TokenText[ts[i]]] = <<>>
  OBVIOUS
<1> QED
  BY <1>1 DEF SpellOut, FlattenSeq

\* One token more is its text more.
LEMMA SpellOutNext ==
  ASSUME NEW ts \in Seq(DOMAIN TokenText), NEW n \in 1 .. Len(ts)
  PROVE  /\ SpellOut(ts, n - 1) \in Text
         /\ SpellOut(ts, n) = SpellOut(ts, n - 1) \o TokenText[ts[n]]
<1> DEFINE s == [i \in 1 .. n - 1 |-> TokenText[ts[i]]]
           r == [i \in 1 .. n |-> TokenText[ts[i]]]
           e == TokenText[ts[n]]
<1>1. \A i \in 1 .. n : TokenText[ts[i]] \in Seq(Characters)
  BY GenerationAssumption DEF Text
<1>2. n \in Nat /\ n - 1 \in Nat
  OBVIOUS
<1>3. s \in Seq(Seq(Characters)) /\ Len(s) = n - 1 /\ e \in Seq(Characters)
  <2>1. s \in [1 .. n - 1 -> Seq(Characters)]
    BY <1>1, <1>2
  <2>2. e \in Seq(Characters)
    BY <1>1, <1>2
  <2>3. DOMAIN s = 1 .. n - 1
    OBVIOUS
  <2> HIDE DEF s, e
  <2>4. s \in Seq(Seq(Characters))
    BY <1>2, <2>1, SeqDef
  <2>5. Len(s) = n - 1
    BY <1>2, <2>3, <2>4
  <2> QED
    BY <2>2, <2>4, <2>5
<1>4. r = Append(s, e)
  <2>1. /\ Append(s, e) \in Seq(Seq(Characters)) /\ Len(Append(s, e)) = n
        /\ \A i \in 1 .. n : Append(s, e)[i] = IF i = n THEN e ELSE s[i]
    <3> HIDE DEF s, e
    <3> QED
      BY <1>2, <1>3
  <2>2. \A i \in 1 .. n : r[i] = IF i = n THEN e ELSE s[i]
    BY <1>2
  <2>3. r \in Seq(Seq(Characters)) /\ Len(r) = n
    <3>1. r \in [1 .. n -> Seq(Characters)] /\ DOMAIN r = 1 .. n
      BY <1>1
    <3> HIDE DEF r
    <3>2. r \in Seq(Seq(Characters))
      BY <1>2, <3>1, SeqDef
    <3> QED
      BY <1>2, <3>1, <3>2
  <2> HIDE DEF s, r, e
  <2> QED
    BY <2>1, <2>2, <2>3, SeqEqual
<1> HIDE DEF s, r, e
<1>5. FlattenSeq(s) \in Seq(Characters) /\ FlattenSeq(r) = FlattenSeq(s) \o e
  BY <1>3, <1>4, FlattenSeqType, FlattenAppend
<1> QED
  BY <1>5 DEF SpellOut, Text, s, r, e

\* find_stop_sequence finds one if there is one, and only one that is there.
LEMMA FindStopIs ==
  ASSUME NEW s, NEW stop \in Seq(Text \ {<<>>})
  PROVE  \/ /\ FindStopSequence(s, stop) = <<>>
            /\ \A j \in DOMAIN stop : ~IsSuffix(stop[j], s)
         \/ /\ FindStopSequence(s, stop) # <<>>
            /\ \E j \in DOMAIN stop : /\ FindStopSequence(s, stop) = stop[j]
                                      /\ IsSuffix(stop[j], s)
<1> DEFINE hits == {i \in DOMAIN stop : stop[i] # <<>> /\ EndsWith(s, stop[i])}
<1>1. hits \subseteq Nat /\ \A j \in DOMAIN stop : stop[j] # <<>>
  OBVIOUS
<1>2. FindStopSequence(s, stop) =
        IF hits = {} THEN <<>> ELSE stop[CHOOSE i \in hits : \A j \in hits : i <= j]
  BY DEF FindStopSequence
<1>3. \A j \in DOMAIN stop : j \in hits <=> IsSuffix(stop[j], s)
  BY <1>1 DEF EndsWith
<1>4. hits \subseteq DOMAIN stop
  OBVIOUS
<1> HIDE DEF hits
<1>5. CASE hits = {}
  BY <1>2, <1>3, <1>5
<1>6. CASE hits # {}
  <2> DEFINE j == CHOOSE i \in hits : \A k \in hits : i <= k
  <2>1. j \in hits
    BY <1>1, <1>6, LeastOf
  <2>2. FindStopSequence(s, stop) = stop[j]
    BY <1>2, <1>6
  <2> HIDE DEF j
  <2> QED
    BY <1>1, <1>3, <1>4, <2>1, <2>2
<1> QED
  BY <1>5, <1>6

-----------------------------------------------------------------------------
(* The invariant: what each stage knows of the request, of the room in the *)
(* context and of the output.                                              *)

InputInv ==
  /\ config \in Configs
  /\ stage = "received" => request \in ChatCompletionRequest
  /\ stage \in {"valid", "built", "decoding", "sampled", "done"} =>
       request \in ValidRequest
  /\ stage = "valid" => request.messages # <<>>
  /\ stage = "built" => prompt.tokens \in Seq(PromptTokens)

RoomInv ==
  /\ stage \in {"decoding", "sampled", "done"} =>
       /\ promptLen \in Nat /\ promptLen + maxTokens <= MaxContext
       /\ maxTokens \in 1 .. request.max_tokens
       /\ maxTokens < request.max_tokens => promptLen + maxTokens = MaxContext
  /\ stage = "noRoom" => promptLen \in Nat /\ promptLen >= MaxContext

\* While a generation goes on, text and stream are what its tokens spell, and
\* none of the tokens that were checked ended it.
OutputInv ==
  /\ stage \in {"received", "valid", "built"} =>
       tokens = <<>> /\ text = <<>> /\ streamed = <<>>
  /\ stage \in {"decoding", "sampled", "done"} => tokens \in Seq(DOMAIN TokenText)
  /\ stage = "decoding" =>
       /\ Len(tokens) < maxTokens
       /\ text = SpellOut(tokens, Len(tokens)) /\ streamed = text
       /\ \A i \in 1 .. Len(tokens) : GoesOn(tokens, request.stop, i)
  /\ stage = "sampled" =>
       /\ Len(tokens) \in 1 .. maxTokens
       /\ text = SpellOut(tokens, Len(tokens) - 1) /\ streamed = text
       /\ \A i \in 1 .. Len(tokens) - 1 : GoesOn(tokens, request.stop, i)
  /\ stage = "done" => Len(tokens) <= maxTokens

GInv == InputInv /\ RoomInv /\ OutputInv /\ DrawnFromNucleus /\ StopExact

LEMMA InitGInv == GInit => GInv
<1> SUFFICES ASSUME GInit PROVE GInv
  OBVIOUS
<1>1. stage = "received" /\ config \in Configs /\ request \in ChatCompletionRequest
  BY GenerationAssumption DEF GInit
<1> QED
  BY <1>1 DEF GInit, GInv, InputInv, RoomInv, OutputInv, DrawnFromNucleus, StopExact

LEMMA ValidateKeeps == GInv /\ ValidateRequest => GInv'
<1> SUFFICES ASSUME GInv, ValidateRequest PROVE GInv'
  OBVIOUS
<1> USE DEF ValidateRequest, outputVars
<1> DEFINE r == FromJson(request)
<1>1. request \in ChatCompletionRequest
  BY DEF GInv, InputInv
<1>2. r \in ParsedRequest
  BY <1>1, ParsedType
<1>3. stage' \in {"valid", "invalid"}
  OBVIOUS
<1>4. stage' = "valid" => request' \in ValidRequest /\ request'.messages # <<>>
  <2> SUFFICES ASSUME stage' = "valid"
               PROVE  request' \in ValidRequest /\ request'.messages # <<>>
    OBVIOUS
  <2>1. Validate(r) /\ request' = ApplyDefaults(r)
    OBVIOUS
  <2> HIDE DEF r
  <2> QED
    BY <1>2, <2>1, DefaultsType
<1>5. InputInv'
  BY <1>3, <1>4 DEF GInv, InputInv
<1>6. RoomInv' /\ DrawnFromNucleus' /\ StopExact'
  BY <1>3 DEF RoomInv, DrawnFromNucleus, StopExact
<1>7. OutputInv'
  BY <1>3 DEF GInv, OutputInv
<1> QED
  BY <1>5, <1>6, <1>7 DEF GInv

LEMMA BuildKeeps == GInv /\ BuildPrompt => GInv'
<1> SUFFICES ASSUME GInv, BuildPrompt PROVE GInv'
  OBVIOUS
<1> USE DEF BuildPrompt, outputVars
<1> DEFINE formatted == BuildFormattedPrompt(config, request.messages)
<1>1. /\ request \in ValidRequest /\ request.messages \in Seq(RoledMessage)
      /\ request.messages # <<>> /\ config \in PromptBuilderConfig
  BY GenerationAssumption DEF GInv, InputInv, ValidRequest
<1>2. formatted \in Text
  BY <1>1, PromptType
<1>3. Tokenize(formatted) \in Seq(PromptTokens)
  <2> HIDE DEF formatted
  <2> QED
    BY <1>2, TokenizeType
<1>4. stage' \in {"built", "tooLong"}
  OBVIOUS
<1>5. stage' = "built" => prompt'.tokens = Tokenize(formatted)
  OBVIOUS
<1> HIDE DEF formatted
<1>6. InputInv'
  BY <1>1, <1>3, <1>4, <1>5 DEF GInv, InputInv
<1>7. RoomInv' /\ DrawnFromNucleus' /\ StopExact'
  BY <1>4 DEF RoomInv, DrawnFromNucleus, StopExact
<1>8. OutputInv'
  BY <1>4 DEF GInv, OutputInv
<1> QED
  BY <1>6, <1>7, <1>8 DEF GInv

LEMMA LimitKeeps == GInv /\ LimitTokens => GInv'
<1> SUFFICES ASSUME GInv, LimitTokens PROVE GInv'
  OBVIOUS
<1> USE DEF LimitTokens, outputVars
<1> DEFINE n == Len(prompt.tokens)
           most == request.max_tokens
<1>1. /\ request \in ValidRequest /\ most \in 1 .. MaxCompletion /\ n \in Nat
      /\ config \in Configs
  BY DEF GInv, InputInv, ValidRequest
<1>2. /\ promptLen' = n /\ maxTokens' = FitContext(n, most)
      /\ stage' = IF maxTokens' = 0 THEN "noRoom" ELSE "decoding"
  OBVIOUS
<1>3. /\ request' \in ValidRequest /\ request'.max_tokens = most
      /\ request'.stop = request.stop
  <2>1. request' = [request EXCEPT !.messages = <<>>]
    OBVIOUS
  <2>2. <<>> \in Seq(RoledMessage)
    OBVIOUS
  <2> HIDE DEF LimitTokens
  <2> QED
    BY <1>1, <2>1, <2>2 DEF ValidRequest
<1> HIDE DEF n, most
<1>4. config' \in Configs
  BY <1>1
<1>5. InputInv'
  BY <1>2, <1>3, <1>4 DEF InputInv
<1>6. RoomInv'
  <2>1. MaxContext \in Nat /\ most \in Nat /\ most >= 1
    BY <1>1, ValidatorAssumption
  <2>2. /\ maxTokens' = 0 => n >= MaxContext
        /\ maxTokens' # 0 => /\ n + maxTokens' <= MaxContext /\ maxTokens' \in 1 .. most
                             /\ maxTokens' < most => n + maxTokens' = MaxContext
    BY <1>1, <1>2, <2>1 DEF FitContext
  <2> QED
    BY <1>1, <1>2, <1>3, <2>2 DEF RoomInv
<1>7. tokens' = <<>> /\ text' = <<>> /\ streamed' = <<>>
  BY DEF GInv, OutputInv
<1>8. OutputInv'
  <2>1. SpellOut(<<>>, 0) = <<>> /\ Len(<<>>) = 0 /\ <<>> \in Seq(DOMAIN TokenText)
    BY SpellOutNone
  <2>2. stage' = "decoding" => 0 < maxTokens'
    BY <1>2, <1>6 DEF RoomInv
  <2> QED
    BY <1>2, <1>7, <2>1, <2>2 DEF OutputInv
<1>9. DrawnFromNucleus' /\ StopExact'
  BY <1>2 DEF DrawnFromNucleus, StopExact
<1> QED
  BY <1>5, <1>6, <1>8, <1>9 DEF GInv

LEMMA SampleKeeps == GInv /\ SampleToken => GInv'
<1> SUFFICES ASSUME GInv, SampleToken PROVE GInv'
  OBVIOUS
<1> USE DEF SampleToken, inputVars
<1>1. PICK w \in Logits, t \in DOMAIN TokenText :
        /\ t \in Sample(w, request.temperature, request.top_p)
        /\ draw' = w /\ tokens' = Append(tokens, t)
  OBVIOUS
<1>2. /\ request \in ValidRequest /\ request' = request
      /\ request.temperature \in Int /\ request.top_p \in 0 .. 10
  BY DEF GInv, InputInv, ValidRequest
<1> DEFINE n == Len(tokens)
<1>3. /\ tokens \in Seq(DOMAIN TokenText) /\ n \in Nat /\ n < maxTokens /\ maxTokens \in Nat
      /\ text = SpellOut(tokens, n) /\ streamed = text
      /\ \A i \in 1 .. n : GoesOn(tokens, request.stop, i)
  BY <1>2 DEF GInv, OutputInv, RoomInv, ValidRequest
<1>4. /\ tokens' \in Seq(DOMAIN TokenText) /\ Len(tokens') = n + 1
      /\ tokens'[n + 1] = t /\ \A i \in 1 .. n : tokens'[i] = tokens[i]
  BY <1>1, <1>3
<1>5. stage' = "sampled" /\ text' = text /\ streamed' = streamed /\ maxTokens' = maxTokens
  OBVIOUS
<1> HIDE DEF n
<1>6. InputInv'
  BY <1>5 DEF GInv, InputInv
<1>7. RoomInv'
  BY <1>5 DEF GInv, RoomInv
<1>8. OutputInv'
  <2>1. ASSUME NEW i \in 0 .. n
        PROVE  SpellOut(tokens', i) = SpellOut(tokens, i)
    <3>1. i \in Nat /\ \A k \in 1 .. i : tokens'[k] = tokens[k]
      BY <1>3, <1>4
    <3> HIDE DEF SampleToken
    <3> QED
      BY <3>1, SpellOutSame
  <2>2. text' = SpellOut(tokens', n) /\ streamed' = text'
    BY <1>3, <1>5, <2>1
  <2>3. \A i \in 1 .. n : GoesOn(tokens', request'.stop, i)
    BY <1>2, <1>3, <1>4, <2>1 DEF GoesOn
  <2>4. Len(tokens') - 1 = n /\ Len(tokens') \in 1 .. maxTokens'
    BY <1>3, <1>4, <1>5
  <2> QED
    BY <1>4, <1>5, <2>2, <2>3, <2>4 DEF OutputInv
<1>9. DrawnFromNucleus'
  <2>1. tokens'[Len(tokens')] = t
    BY <1>4
  <2>2. LET heavier == {u \in DOMAIN w : w[u] > w[t]}
        IN  /\ request.temperature = 0 => heavier = {}
            /\ \/ heavier = {}
               \/ 10 * Weight(w, heavier) < request.top_p * Weight(w, DOMAIN w)
    BY <1>1, <1>2, SampleInNucleus
  <2> QED
    BY <1>1, <1>2, <2>1, <2>2 DEF DrawnFromNucleus
<1>10. StopExact'
  BY <1>5 DEF StopExact
<1> QED
  BY <1>6, <1>7, <1>8, <1>9, <1>10 DEF GInv

\* What the tokens ts with the text s may come to, with what is kept of it:
\* the length is reached, or the last token is <|im_end|>, or a stop sequence
\* ends the text, or none of it.
Verdict(ts, s, stop, most, why, kept) ==
  \/ why = "Length" /\ Len(ts) >= most /\ kept = s
  \/ why = "Stop" /\ Len(ts) < most /\ kept = s /\ ts[Len(ts)] = ImEndToken
  \/ /\ why = "Stop" /\ Len(ts) < most /\ ts[Len(ts)] # ImEndToken
     /\ \E j \in DOMAIN stop : IsSuffix(stop[j], s) /\ kept \o stop[j] = s
  \/ /\ why = "None" /\ Len(ts) < most /\ kept = s /\ ts[Len(ts)] # ImEndToken
     /\ \A j \in DOMAIN stop : ~IsSuffix(stop[j], s)

\* What check_stop_and_continue makes of a token.
LEMMA CheckIs ==
  ASSUME NEW ts \in Seq(DOMAIN TokenText), Len(ts) # 0, NEW s \in Text,
         NEW stop \in Seq(Text \ {<<>>}), NEW most \in Nat, most > 0
  PROVE  LET c == Check(ts, s, stop, most, ImEndToken)
         IN  Verdict(ts, s, stop, most, c.reason, TrimStopSequence(s, c.matched))
<1> DEFINE c == Check(ts, s, stop, most, ImEndToken)
           matched == FindStopSequence(s, stop)
<1>1. Len(ts) \in Nat /\ ts # <<>>
  OBVIOUS
<1>2. TrimStopSequence(s, <<>>) = s
  BY TrimNothing DEF Text
<1>3. CASE Len(ts) >= most
  <2>1. c.reason = "Length" /\ c.matched = <<>>
    BY <1>1, <1>3 DEF Check
  <2> QED
    BY <1>2, <1>3, <2>1 DEF Verdict
<1>4. CASE ~(Len(ts) >= most) /\ ts[Len(ts)] = ImEndToken
  <2>1. c.reason = "Stop" /\ c.matched = <<>> /\ Len(ts) < most
    BY <1>1, <1>4 DEF Check
  <2> QED
    BY <1>2, <1>4, <2>1 DEF Verdict
<1>5. CASE ~(Len(ts) >= most) /\ ts[Len(ts)] # ImEndToken
  <2>1. /\ c.reason = IF matched # <<>> THEN "Stop" ELSE "None"
        /\ c.matched = matched /\ Len(ts) < most
    BY <1>1, <1>5 DEF Check
  <2> HIDE DEF c, matched
  <2>2. CASE matched = <<>> /\ \A j \in DOMAIN stop : ~IsSuffix(stop[j], s)
    BY <1>2, <1>5, <2>1, <2>2 DEF c, Verdict
  <2>3. CASE matched # <<>> /\ \E j \in DOMAIN stop : matched = stop[j] /\ IsSuffix(stop[j], s)
    <3>1. PICK j \in DOMAIN stop : matched = stop[j] /\ IsSuffix(stop[j], s)
      BY <2>3
    <3>2. stop[j] \in Text
      OBVIOUS
    <3>3. SubSeq(s, 1, Len(s) - Len(stop[j])) \o stop[j] = s
      BY <3>1, <3>2, SuffixCut DEF Text
    <3>4. TrimStopSequence(s, c.matched) = SubSeq(s, 1, Len(s) - Len(stop[j]))
      BY <2>1, <3>1 DEF TrimStopSequence, EndsWith
    <3> QED
      BY <1>5, <2>1, <2>3, <3>1, <3>3, <3>4 DEF c, Verdict
  <2> QED
    BY <2>2, <2>3, FindStopIs DEF matched
<1> QED
  BY <1>3, <1>4, <1>5

LEMMA AppendKeeps == GInv /\ AppendAndCheck => GInv'
<1> SUFFICES ASSUME GInv, AppendAndCheck PROVE GInv'
  OBVIOUS
<1> USE DEF AppendAndCheck, inputVars
<1> DEFINE n == Len(tokens)
           stop == request.stop
           full == text \o TokenText[tokens[n]]
           c == Check(tokens, full, stop, maxTokens, ImEndToken)
<1>1. /\ text' = TrimStopSequence(full, c.matched) /\ reason' = c.reason
      /\ streamed' = streamed \o TokenText[tokens[n]]
      /\ stage' = IF c.reason = "None" THEN "decoding" ELSE "done"
      /\ tokens' = tokens /\ request' = request /\ maxTokens' = maxTokens
      /\ promptLen' = promptLen /\ config' = config
  OBVIOUS
<1>2. stop \in Seq(Text \ {<<>>}) /\ request.max_tokens \in Nat
  BY DEF GInv, InputInv, ValidRequest
<1>3. /\ tokens \in Seq(DOMAIN TokenText) /\ maxTokens \in Nat /\ maxTokens > 0
      /\ n \in 1 .. maxTokens
      /\ text = SpellOut(tokens, n - 1) /\ streamed = text
      /\ \A i \in 1 .. n - 1 : GoesOn(tokens, stop, i)
  BY <1>2 DEF GInv, OutputInv, RoomInv
<1>4. full = SpellOut(tokens, n) /\ full \in Text /\ streamed' = full
  <2>1. n \in 1 .. Len(tokens)
    BY <1>3
  <2>2. SpellOut(tokens, n - 1) \in Text /\ TokenText[tokens[n]] \in Text
    <3>1. SpellOut(tokens, n - 1) \in Text
      BY <1>3, <2>1, SpellOutNext
    <3>2. tokens[n] \in DOMAIN TokenText
      BY <1>3, <2>1
    <3> HIDE DEF AppendAndCheck
    <3>3. TokenText[tokens[n]] \in Text
      BY <3>2, GenerationAssumption
    <3> QED
      BY <3>1, <3>3
  <2>3. SpellOut(tokens, n) = SpellOut(tokens, n - 1) \o TokenText[tokens[n]]
    BY <1>3, <2>1, SpellOutNext
  <2>4. full \in Text
    BY <1>3, <2>2, TextConcat
  <2> QED
    BY <1>1, <1>3, <2>3, <2>4
<1>5. InputInv'
  BY <1>1 DEF GInv, InputInv
<1>6. RoomInv'
  BY <1>1 DEF GInv, RoomInv
<1>7. DrawnFromNucleus'
  BY <1>1 DEF DrawnFromNucleus
<1> HIDE DEF full, c, AppendAndCheck
<1>8. Verdict(tokens, full, stop, maxTokens, c.reason, text')
  <2>1. n # 0
    BY <1>3
  <2> HIDE DEF stop
  <2>2. Verdict(tokens, full, stop, maxTokens, c.reason, TrimStopSequence(full, c.matched))
    BY <1>2, <1>3, <1>4, <2>1, CheckIs DEF c
  <2> QED
    BY <1>1, <2>2
<1>9. OutputInv'
  <2>1. CASE c.reason = "None"
    <3>1. n < maxTokens /\ text' = full /\ GoesOn(tokens, stop, n)
      BY <1>4, <1>8, <2>1 DEF GoesOn, Verdict
    <3>2. \A i \in 1 .. n : GoesOn(tokens, stop, i)
      BY <1>3, <3>1
    <3>3. stage' = "decoding"
      BY <1>1, <2>1
    <3> QED
      BY <1>1, <1>3, <1>4, <3>1, <3>2, <3>3 DEF OutputInv
  <2>2. CASE c.reason # "None"
    BY <1>1, <1>3, <2>2 DEF OutputInv
  <2> QED
    BY <2>1, <2>2
<1>10. StopExact'
  <2> SUFFICES ASSUME stage' = "done" PROVE StopExact'
    BY DEF StopExact
  <2>1. c.reason # "None"
    BY <1>1
  <2> DEFINE hits(i) == {j \in DOMAIN stop : IsSuffix(stop[j], SpellOut(tokens, i))}
  <2>2. \A i \in 1 .. n - 1 : tokens[i] # ImEndToken /\ hits(i) = {}
    BY <1>3 DEF GoesOn
  <2>3. c.reason = "Length" => n = maxTokens /\ text' = SpellOut(tokens, n)
    BY <1>3, <1>4, <1>8 DEF Verdict
  <2>4. c.reason = "Stop" =>
          /\ n < maxTokens
          /\ IF tokens[n] = ImEndToken
             THEN text' = SpellOut(tokens, n)
             ELSE \E j \in hits(n) : text' \o stop[j] = SpellOut(tokens, n)
    <3>1. CASE tokens[n] = ImEndToken
      BY <1>3, <1>4, <1>8, <3>1 DEF Verdict
    <3>2. CASE tokens[n] # ImEndToken /\ c.reason = "Stop"
      <4>1. n < maxTokens
        BY <1>8, <3>2 DEF Verdict
      <4>2. PICK j \in DOMAIN stop : IsSuffix(stop[j], full) /\ text' \o stop[j] = full
        BY <1>8, <3>2 DEF Verdict
      <4> QED
        BY <1>4, <3>2, <4>1, <4>2
    <3> QED
      BY <3>1, <3>2
  <2>5. \A i : TextOf(i)' = SpellOut(tokens, i)
    BY <1>1 DEF TextOf, SpellOut
  <2> QED
    BY <1>1, <1>4, <2>2, <2>3, <2>4, <2>5 DEF StopExact
<1> QED
  BY <1>5, <1>6, <1>7, <1>9, <1>10 DEF GInv

LEMMA GInvariance == GSpec => []GInv
<1>1. GInv /\ [GNext]_gvars => GInv'
  <2> SUFFICES ASSUME GInv, [GNext]_gvars PROVE GInv'
    OBVIOUS
  <2>1. CASE ValidateRequest
    BY <2>1, ValidateKeeps
  <2>2. CASE BuildPrompt
    BY <2>2, BuildKeeps
  <2>3. CASE LimitTokens
    BY <2>3, LimitKeeps
  <2>4. CASE SampleToken
    BY <2>4, SampleKeeps
  <2>5. CASE AppendAndCheck
    BY <2>5, AppendKeeps
  <2>6. CASE UNCHANGED gvars
    <3> USE <2>6 DEF gvars, inputVars, outputVars
    <3>1. InputInv' /\ RoomInv'
      BY DEF GInv, InputInv, RoomInv
    <3>2. OutputInv'
      BY DEF GInv, OutputInv
    <3>3. DrawnFromNucleus'
      BY DEF GInv, DrawnFromNucleus
    <3>4. StopExact'
      BY DEF GInv, StopExact, TextOf
    <3> QED
      BY <3>1, <3>2, <3>3, <3>4 DEF GInv
  <2> QED
    BY <2>1, <2>2, <2>3, <2>4, <2>5, <2>6 DEF GNext
<1> QED
  BY <1>1, InitGInv, PTL DEF GSpec

\* What a prompt that is built was built from.
PromptInv ==
  stage = "built" =>
    /\ request.messages # <<>>
    /\ prompt.text = BuildFormattedPrompt(config, request.messages)
    /\ prompt.tokens = Tokenize(prompt.text)

LEMMA PromptInvStep == GInv /\ PromptInv /\ [GNext]_gvars => PromptInv'
<1> SUFFICES ASSUME GInv, PromptInv, [GNext]_gvars PROVE PromptInv'
  OBVIOUS
<1>1. CASE ValidateRequest
  <2>1. stage' # "built"
    BY <1>1 DEF ValidateRequest
  <2> QED
    BY <2>1 DEF PromptInv
<1>2. CASE BuildPrompt
  <2>1. stage = "valid" /\ request' = request /\ config' = config
    BY <1>2 DEF BuildPrompt
  <2>2. request.messages # <<>>
    BY <2>1 DEF GInv, InputInv
  <2> DEFINE formatted == BuildFormattedPrompt(config, request.messages)
  <2>3. stage' = "built" =>
          prompt' = [text |-> formatted, tokens |-> Tokenize(formatted)]
    BY <1>2 DEF BuildPrompt
  <2>4. formatted' = formatted
    BY <2>1
  <2> HIDE DEF formatted
  <2>5. stage' = "built" =>
          prompt'.text = formatted /\ prompt'.tokens = Tokenize(formatted)
    BY <2>3
  <2> QED
    BY <2>1, <2>2, <2>4, <2>5 DEF PromptInv, formatted
<1>3. CASE LimitTokens
  <2>1. stage' # "built"
    BY <1>3 DEF LimitTokens
  <2> QED
    BY <2>1 DEF PromptInv
<1>4. CASE SampleToken
  <2>1. stage' # "built"
    BY <1>4 DEF SampleToken
  <2> QED
    BY <2>1 DEF PromptInv
<1>5. CASE AppendAndCheck
  <2>1. stage' # "built"
    BY <1>5 DEF AppendAndCheck
  <2> QED
    BY <2>1 DEF PromptInv
<1>6. CASE UNCHANGED gvars
  BY <1>6 DEF PromptInv, gvars, inputVars
<1> QED
  BY <1>1, <1>2, <1>3, <1>4, <1>5, <1>6 DEF GNext

LEMMA PromptInvIsFaithful == GInv /\ PromptInv => PromptFaithful
<1> SUFFICES ASSUME GInv, PromptInv, stage = "built" PROVE PromptFaithful
  BY DEF PromptFaithful
<1> DEFINE m == request.messages
           s == BuildFormattedPrompt(config, m)
           all == WithSystem(config, m)
           ts == Tokenize(s)
<1>1. m # <<>> /\ prompt.text = s /\ prompt.tokens = ts
  BY DEF PromptInv
<1>2. m \in Seq(RoledMessage) /\ config \in PromptBuilderConfig
  BY GenerationAssumption DEF GInv, InputInv, ValidRequest
<1>3. s \in Text
  BY <1>1, <1>2, PromptType
<1>4. Spelling(ts) = s
  <2> HIDE DEF s
  <2> QED
    BY <1>3, EncodingLossless
<1>5. \A t \in Specials : Count(ts, t) = Cardinality(Positions(SpecialTokenMap[t], s))
  <2> HIDE DEF s
  <2> QED
    BY <1>3, MarkersCounted
<1>6. ASSUME \A i \in DOMAIN all : Plain(all[i].content)
      PROVE  /\ ReadBack(ts) = [i \in DOMAIN all |-> [role |-> all[i].role,
                                                      content |-> all[i].content]]
             /\ config.generation =>
                  SubSeq(ts, Len(ts) - 2, Len(ts)) = <<"im_start", "assistant", "\n">>
  <2> HIDE DEF m
  <2> QED
    BY <1>1, <1>2, <1>6, ConversationReadBack
<1> HIDE DEF s, ts
<1> QED
  BY <1>1, <1>4, <1>5, <1>6 DEF PromptFaithful

\* A prompt says what the messages say, for every conversation, every text and
\* every configuration: QwenBPETokenizer::tokenize loses nothing and makes a
\* token of every marker, and from the tokens of PromptBuilder::build the roles
\* and contents can be read back in their order if no content has a marker.
THEOREM PromptsFaithful == GSpec => []PromptFaithful
<1>1. GInit => PromptInv
  BY DEF GInit, PromptInv
<1> QED
  BY <1>1, GInvariance, PromptInvStep, PromptInvIsFaithful, PTL DEF GSpec

\* Prompt and output stay within the context for every context, completion
\* limit and prompt, and max_tokens is cut only when it must be (the limit in
\* chat_completions).
THEOREM OutputFits == GSpec => []ContextFits
<1>1. GInv => ContextFits
  BY DEF GInv, RoomInv, OutputInv, ContextFits
<1> QED
  BY <1>1, GInvariance, PTL

\* What Sampler::sample draws is in the nucleus of the whole vocabulary, for
\* every vocabulary, all weights and any number of sorted candidates.
THEOREM DrawsFromNucleus == GSpec => []DrawnFromNucleus
<1>1. GInv => DrawnFromNucleus
  BY DEF GInv
<1> QED
  BY <1>1, GInvariance, PTL

\* A generation ends at the first token where StopChecker::check may end it,
\* with the text its tokens spell, for all texts of tokens and stop sequences.
THEOREM StopsExactly == GSpec => []StopExact
<1>1. GInv => StopExact
  BY DEF GInv
<1> QED
  BY <1>1, GInvariance, PTL

=============================================================================
