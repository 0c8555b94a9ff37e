--------------------------- MODULE WebhookProofs ---------------------------
(***************************************************************************)
(* What the webhook accepts, for checksum files of any length.             *)
(*                                                                         *)
(* The invariant says which checks a verdict stands for.  The rest is      *)
(* about strings.Split: each image in a file of md5sum's makes two parts   *)
(* more, of which the last one ends with the image.                        *)
(***************************************************************************)
EXTENDS AdmissionWebhook, SequenceLemmas

-----------------------------------------------------------------------------
(* Splitting *)

\* Reading a token gives parts again.
LEMMA AddTokenType ==
  ASSUME NEW L, NEW parts \in Seq(Seq(L)), NEW t \in L
  PROVE  AddToken(parts, t) \in Seq(Seq(L))
<1>1. <<>> \in Seq(L)
  OBVIOUS
<1>2. CASE t = "blank"
  BY <1>1, <1>2 DEF AddToken
<1>3. CASE t # "blank"
  <2>1. CASE parts = <<>>
    <3>1. [parts EXCEPT ![Len(parts)] = Append(@, t)] = parts
      BY <2>1
    <3>2. QED
      BY <1>3, <3>1 DEF AddToken
  <2>2. CASE parts # <<>>
    <3>1. Len(parts) \in 1 .. Len(parts) /\ parts[Len(parts)] \in Seq(L)
      BY <2>2
    <3>2. Append(parts[Len(parts)], t) \in Seq(L)
      BY <3>1
    <3>3. QED
      BY <1>3, <3>1, <3>2, ExceptSeq DEF AddToken
  <2>3. QED
    BY <2>1, <2>2
<1>4. QED
  BY <1>2, <1>3

\* What nothing is split into
Unsplit == << <<>> >>

\* Split as a function of the number of tokens read
LEMMA SplitFunction ==
  ASSUME NEW L, NEW text \in Seq(L)
  PROVE  \E f \in [0 .. Len(text) -> Seq(Seq(L))] :
           /\ Split(text) = f[Len(text)]
           /\ f[0] = Unsplit
           /\ \A k \in 1 .. Len(text) : f[k] = AddToken(f[k - 1], text[k])
<1> DEFINE N == Len(text)
           V == Seq(Seq(L))
           base == Unsplit
           G == [k \in 1 .. N |-> [v \in V |-> AddToken(v, text[k])]]
           Reads(f) == f = [k \in 0 .. N |-> IF k = 0 THEN Unsplit
                                             ELSE AddToken(f[k - 1], text[k])]
<1>1. N \in Nat /\ base \in V /\ \A k \in 1 .. N : text[k] \in L
  <2>1. <<>> \in Seq(L)
    OBVIOUS
  <2>2. QED
    BY <2>1 DEF Unsplit
<1>2. G \in [1 .. N -> [V -> V]]
  <2> HIDE DEF V, N
  <2> SUFFICES ASSUME NEW k \in 1 .. N, NEW v \in V PROVE AddToken(v, text[k]) \in V
    OBVIOUS
  <2>1. QED
    BY <1>1, AddTokenType DEF V
<1>3. PICK f \in [0 .. N -> V] :
        f[0] = base /\ \A k \in 1 .. N : f[k] = G[k][f[k - 1]]
  <2> HIDE DEF G, V, N, base
  <2>1. HasIterates(V, base, N, G)
    BY <1>1, <1>2, Recursion
  <2>2. QED
    BY <2>1 DEF HasIterates
<1> HIDE DEF V
<1>4. ASSUME NEW k \in 1 .. N PROVE f[k] = AddToken(f[k - 1], text[k])
  <2>1. k - 1 \in 0 .. N
    BY <1>1
  <2>2. f[k - 1] \in V
    BY <2>1
  <2>3. QED
    BY <1>3, <2>2
<1>5. Reads(f)
  <2>1. f = [k \in 0 .. N |-> f[k]]
    OBVIOUS
  <2>2. \A k \in 0 .. N : f[k] = IF k = 0 THEN Unsplit ELSE AddToken(f[k - 1], text[k])
    BY <1>1, <1>3, <1>4
  <2>3. QED
    BY <2>1, <2>2
<1> DEFINE g == CHOOSE g : Reads(g)
<1>6. Split(text) = g[N]
  BY DEF Split, Unsplit
<1>7. Reads(g)
  <2> HIDE DEF Reads
  <2>1. QED
    BY <1>5
<1> HIDE DEF g
<1>8. g[0] = Unsplit /\ \A k \in 1 .. N : g[k] = AddToken(g[k - 1], text[k])
  BY <1>1, <1>7
<1>9. \A k \in 0 .. N : g[k] = f[k]
  <2> DEFINE S == {k \in 0 .. N : g[k] = f[k]}
  <2>1. 0 \in S /\ \A k \in 1 .. N : k - 1 \in S => k \in S
    BY <1>1, <1>3, <1>4, <1>8
  <2> HIDE DEF S
  <2>2. 0 .. N \subseteq S
    BY <1>1, <2>1, InductionUpTo
  <2>3. QED
    BY <2>2 DEF S
<1>10. QED
  <2>1. Split(text) = f[N]
    BY <1>1, <1>6, <1>9
  <2>2. QED
    BY <1>3, <1>4, <2>1 DEF V

\* A token more is read by one more step.
LEMMA SplitAppend ==
  ASSUME NEW L, NEW text \in Seq(L), NEW t \in L
  PROVE  /\ Split(text) \in Seq(Seq(L))
         /\ Split(Append(text, t)) = AddToken(Split(text), t)
<1> DEFINE N == Len(text)
           more == Append(text, t)
<1>1. /\ more \in Seq(L)
      /\ Len(more) = N + 1 /\ N \in Nat
      /\ more[N + 1] = t
      /\ \A k \in 1 .. N : more[k] = text[k]
  OBVIOUS
<1>2. PICK f \in [0 .. N -> Seq(Seq(L))] :
        /\ Split(text) = f[N]
        /\ f[0] = Unsplit
        /\ \A k \in 1 .. N : f[k] = AddToken(f[k - 1], text[k])
  BY SplitFunction
<1> HIDE DEF more, N
<1>3. PICK g \in [0 .. Len(more) -> Seq(Seq(L))] :
        /\ Split(more) = g[Len(more)]
        /\ g[0] = Unsplit
        /\ \A k \in 1 .. Len(more) : g[k] = AddToken(g[k - 1], more[k])
  BY <1>1, SplitFunction
<1>4. \A k \in 0 .. N : g[k] = f[k]
  <2> DEFINE S == {k \in 0 .. N : g[k] = f[k]}
  <2>1. 0 \in S
    BY <1>1, <1>2, <1>3
  <2>2. ASSUME NEW k \in 1 .. N, k - 1 \in S PROVE k \in S
    <3>1. k \in 1 .. Len(more) /\ more[k] = text[k]
      <4>1. N \in Nat /\ Len(more) = N + 1
        BY <1>1
      <4>2. k \in 1 .. Len(more)
        BY <4>1
      <4>3. more[k] = text[k]
        BY <1>1, Zenon
      <4>4. QED
        BY <4>2, <4>3
    <3>2. g[k] = AddToken(g[k - 1], text[k]) /\ f[k] = AddToken(f[k - 1], text[k])
      BY <1>2, <1>3, <3>1
    <3>3. QED
      BY <1>1, <2>2, <3>2
  <2> HIDE DEF S
  <2>3. 0 .. N \subseteq S
    BY <1>1, <2>1, <2>2, InductionUpTo
  <2>4. QED
    BY <2>3 DEF S
<1>5. g[N + 1] = AddToken(f[N], t)
  <2>1. N + 1 \in 1 .. Len(more) /\ (N + 1) - 1 = N /\ N \in 0 .. N
    BY <1>1
  <2>2. QED
    BY <1>1, <1>3, <1>4, <2>1
<1>6. Split(text) \in Seq(Seq(L))
  BY <1>1, <1>2
<1>7. QED
  BY <1>1, <1>2, <1>3, <1>5, <1>6 DEF more

\* Nothing is one part.
LEMMA SplitNone == Split(<<>>) = Unsplit
<1> DEFINE none == <<>>
<1>1. none \in Seq({}) /\ Len(none) = 0
  OBVIOUS
<1> HIDE DEF none
<1>2. PICK f \in [0 .. Len(none) -> Seq(Seq({}))] :
        Split(none) = f[Len(none)] /\ f[0] = Unsplit
  BY <1>1, SplitFunction
<1>3. QED
  BY <1>1, <1>2 DEF none, Unsplit

-----------------------------------------------------------------------------
(* What md5sum prints *)

\* The last part which an image leaves: its name and the end of the line
Named(image) == Append(Append(<<>>, image), "newline")

\* The tokens of a line
LEMMA TokensAre ==
  /\ Images \subseteq Tokens
  /\ {"digest", "blank", "newline"} \subseteq Tokens
BY DEF Images, Tokens

\* The line of an image, one token after the other
LEMMA LineOf ==
  ASSUME NEW text \in Seq(Tokens), NEW i \in Images
  PROVE  /\ MD5Sum(i) \in Seq(Tokens)
         /\ text \o MD5Sum(i)
              = Append(Append(Append(Append(Append(text, "digest"), "blank"), "blank"), i),
                       "newline")
<1>1. {"digest", "blank", "newline", i} \subseteq Tokens
  BY TokensAre
<1>2. QED
  BY <1>1 DEF MD5Sum

\* What an image more does to the list
LEMMA ListAppend ==
  ASSUME NEW images \in Seq(Images), NEW i \in Images
  PROVE  /\ MD5Sums(images) \in Seq(Tokens)
         /\ MD5Sums(Append(images, i)) = MD5Sums(images) \o MD5Sum(i)
<1> DEFINE lines == [k \in DOMAIN images |-> MD5Sum(images[k])]
           more == [k \in DOMAIN Append(images, i) |-> MD5Sum(Append(images, i)[k])]
           V == Seq(Tokens)
<1>1. \A x \in Images : MD5Sum(x) \in V
  <2>1. <<>> \in Seq(Tokens)
    OBVIOUS
  <2>2. QED
    BY <2>1, LineOf
<1> HIDE DEF V
<1>2. lines \in Seq(V)
  BY <1>1
<1>3. more = Append(lines, MD5Sum(i))
  <2>1. PICK n \in Nat : n = Len(images)
    OBVIOUS
  <2>2. /\ DOMAIN images = 1 .. n /\ DOMAIN Append(images, i) = 1 .. n + 1
        /\ Append(images, i)[n + 1] = i
        /\ \A k \in 1 .. n : Append(images, i)[k] = images[k] /\ images[k] \in Images
    BY <2>1
  <2>3. more = [k \in 1 .. n + 1 |-> MD5Sum(Append(images, i)[k])]
    BY <2>2
  <2>4. lines = [k \in 1 .. n |-> MD5Sum(images[k])] /\ Len(lines) = n
    BY <2>2
  <2>5. Append(lines, MD5Sum(i))
          = [k \in 1 .. n + 1 |-> IF k = n + 1 THEN MD5Sum(i) ELSE lines[k]]
    <3> DEFINE e == MD5Sum(i)
    <3>1. lines \in Seq(V) /\ e \in V /\ n \in Nat /\ Len(lines) = n
      BY <1>1, <1>2, <2>4
    <3> HIDE DEF lines, e
    <3>2. /\ Append(lines, e) \in Seq(V) /\ Len(Append(lines, e)) = n + 1
          /\ Append(lines, e)[n + 1] = e
          /\ \A k \in 1 .. n : Append(lines, e)[k] = lines[k]
      BY <3>1
    <3>3. Append(lines, e) = [k \in 1 .. n + 1 |-> Append(lines, e)[k]]
      BY <3>2, SequenceIs
    <3>4. \A k \in 1 .. n + 1 : k \in 1 .. n \/ k = n + 1
      BY <3>1
    <3>5. \A k \in 1 .. n + 1 : Append(lines, e)[k] = IF k = n + 1 THEN e ELSE lines[k]
      BY <3>1, <3>2, <3>4
    <3>6. QED
      BY <3>3, <3>5, Zenon DEF e
  <2>6. \A k \in 1 .. n + 1 : MD5Sum(Append(images, i)[k])
                              = IF k = n + 1 THEN MD5Sum(i) ELSE lines[k]
    BY <2>2, <2>4
  <2>7. QED
    BY <2>3, <2>5, <2>6, Zenon
<1> HIDE DEF lines, more
<1>4. /\ FlattenSeq(lines) \in Seq(Tokens)
      /\ FlattenSeq(Append(lines, MD5Sum(i))) = FlattenSeq(lines) \o MD5Sum(i)
  BY <1>1, <1>2, FlattenAppend DEF V
<1>5. QED
  BY <1>3, <1>4 DEF MD5Sums, lines, more

\* It has two parts more, and the last one names the image.
LEMMA SplitLine ==
  ASSUME NEW text \in Seq(Tokens), Len(Split(text)) # 0, NEW i \in Images
  PROVE  LET all == Split(text \o MD5Sum(i))
         IN  Len(all) = Len(Split(text)) + 2 /\ all[Len(all)] = Named(i)
<1> DEFINE t1 == Append(text, "digest")
           t2 == Append(t1, "blank")
           t3 == Append(t2, "blank")
           t4 == Append(t3, i)
           t5 == Append(t4, "newline")
<1>1. text \o MD5Sum(i) = t5
  BY LineOf
<1>2. /\ "digest" \in Tokens /\ "blank" \in Tokens /\ i \in Tokens
      /\ "newline" \in Tokens
  BY TokensAre
<1>3. /\ t1 \in Seq(Tokens) /\ t2 \in Seq(Tokens)
      /\ t3 \in Seq(Tokens) /\ t4 \in Seq(Tokens)
  BY <1>2
<1> HIDE DEF t1, t2, t3, t4, t5
<1>4. Split(t1) = AddToken(Split(text), "digest")
  BY <1>2, SplitAppend DEF t1
<1>5. Split(t2) = AddToken(Split(t1), "blank")
  BY <1>2, <1>3, SplitAppend DEF t2
<1>6. Split(t3) = AddToken(Split(t2), "blank")
  BY <1>2, <1>3, SplitAppend DEF t3
<1>7. Split(t4) = AddToken(Split(t3), i)
  BY <1>2, <1>3, SplitAppend DEF t4
<1>8. Split(t5) = AddToken(Split(t4), "newline")
  BY <1>2, <1>3, SplitAppend DEF t5
<1>9. i # "blank"
  BY DEF Images
<1>10. \A parts : /\ AddToken(parts, "blank") = Append(parts, <<>>)
                  /\ AddToken(parts, "digest") = LastExtended(parts, "digest")
                  /\ AddToken(parts, i) = LastExtended(parts, i)
                  /\ AddToken(parts, "newline") = LastExtended(parts, "newline")
  BY <1>9 DEF AddToken, LastExtended
<1> DEFINE none == <<>>
           first == Split(t1)
<1>11. none \in Seq(Tokens)
  OBVIOUS
<1>12. first \in Seq(Seq(Tokens)) /\ Len(first) = Len(Split(text))
  <2>1. Split(text) \in Seq(Seq(Tokens)) /\ first \in Seq(Seq(Tokens))
    BY <1>2, <1>3, SplitAppend
  <2>2. first = LastExtended(Split(text), "digest")
    BY <1>4, <1>10
  <2>3. QED
    BY <1>2, <2>1, <2>2, LastExtendedElement
<1>13. Split(t3) = Append(Append(first, none), none)
  BY <1>5, <1>6, <1>10
<1> HIDE DEF first
<1>14. Split(t5)
         = LastExtended(LastExtended(Append(Append(first, none), none), i), "newline")
  BY <1>7, <1>8, <1>10, <1>13
<1> HIDE DEF none
<1>15. /\ Len(Split(t5)) = Len(first) + 2
       /\ Split(t5)[Len(Split(t5))] = Append(Append(none, i), "newline")
  <2>1. Split(t5) = TwoParts(first, none, i, "newline")
    BY <1>14, Zenon DEF TwoParts
  <2>2. QED
    <3> DEFINE end == "newline"
               all == TwoParts(first, none, i, end)
    <3>1. first \in Seq(Seq(Tokens)) /\ i \in Tokens /\ end \in Tokens
      BY <1>2, <1>12
    <3> HIDE DEF end
    <3>2. Len(all) = Len(first) + 2
      BY <1>11, <3>1, TwoMore, Zenon
    <3>3. all[Len(all)] = Append(Append(none, i), end)
      BY <1>11, <3>1, TwoMore
    <3>4. QED
      BY <2>1, <3>2, <3>3, Zenon DEF end
<1>16. Named(i) = Append(Append(none, i), "newline")
  BY DEF Named, none
<1>17. QED
  BY <1>1, <1>12, <1>15, <1>16

\* A list is split into two parts for each image, and one.
LEMMA SplitList ==
  ASSUME NEW images \in Seq(Images)
  PROVE  MD5Sums(images) \in Seq(Tokens) /\ Len(Split(MD5Sums(images))) = 2 * Len(images) + 1
<1> DEFINE S == {s \in Seq(Images) : Len(Split(MD5Sums(s))) = 2 * Len(s) + 1}
<1>1. MD5Sums(<<>>) = <<>>
  BY DEF MD5Sums, FlattenSeq
<1>2. <<>> \in S
  <2> DEFINE none == <<>>
  <2>1. none \in Seq(Images) /\ Len(none) = 0
    OBVIOUS
  <2>2. Split(MD5Sums(none)) = Unsplit
    BY <1>1, SplitNone
  <2>3. Len(Unsplit) = 1
    BY DEF Unsplit
  <2> HIDE DEF none
  <2>4. none \in S
    BY <2>1, <2>2, <2>3
  <2>5. QED
    BY <2>4 DEF none
<1>3. ASSUME NEW s \in Seq(Images), NEW i \in Images, s \in S
      PROVE  Append(s, i) \in S
  <2>1. PICK n \in Nat : n = Len(s)
    OBVIOUS
  <2>2. Append(s, i) \in Seq(Images) /\ Len(Append(s, i)) = n + 1
    BY <2>1
  <2>3. Len(Split(MD5Sums(s))) = 2 * n + 1
    BY <1>3, <2>1
  <2>4. /\ MD5Sums(s) \in Seq(Tokens)
        /\ MD5Sums(Append(s, i)) = MD5Sums(s) \o MD5Sum(i)
    BY ListAppend
  <2>5. Len(Split(MD5Sums(Append(s, i)))) = (2 * n + 1) + 2
    BY <2>3, <2>4, SplitLine
  <2>6. QED
    BY <2>2, <2>5
<1> HIDE DEF S
<1>4. Seq(Images) \subseteq S
  BY <1>2, <1>3, SequencesInduction
<1>5. MD5Sums(images) \in Seq(Tokens)
  <2>1. "image" \in Images
    BY DEF Images
  <2>2. QED
    BY <2>1, ListAppend
<1>6. QED
  BY <1>4, <1>5 DEF S

-----------------------------------------------------------------------------
(* Its name *)

\* What is left of the last part is the image.
LEMMA TrimNamed ==
  ASSUME NEW i \in Images
  PROVE  TrimSpace(Named(i)) = <<i>>
<1> DEFINE words == {k \in DOMAIN Named(i) : Named(i)[k] # "newline"}
<1>1. i # "newline" /\ {i, "newline"} \subseteq Tokens
  BY DEF Images, Tokens
<1>2. Len(Named(i)) = 2 /\ Named(i)[1] = i /\ Named(i)[2] = "newline"
      /\ DOMAIN Named(i) = 1 .. 2
  BY DEF Named
<1>3. words = {1}
  <2>1. \A k \in 1 .. 2 : k = 1 \/ k = 2
    OBVIOUS
  <2>2. QED
    BY <1>1, <1>2, <2>1
<1>4. Min({1}) = 1 /\ Max({1}) = 1
  <2>1. {1} \subseteq Nat /\ {1} \subseteq 0 .. 1 /\ {1} # {}
    OBVIOUS
  <2>2. Min({1}) \in {1}
    BY <2>1, MinIs
  <2>3. Max({1}) \in {1}
    BY <2>1, MaxIs
  <2>4. QED
    BY <2>2, <2>3
<1>5. SubSeq(Named(i), 1, 1) = <<i>>
  <2>1. Named(i) \in Seq(Tokens)
    BY <1>1 DEF Named
  <2>2. 1 \in 1 .. Len(Named(i)) /\ 1 - 1 = 0
    BY <1>2
  <2>3. /\ SubSeq(Named(i), 1, 1) = Append(SubSeq(Named(i), 1, 1 - 1), Named(i)[1])
        /\ Len(SubSeq(Named(i), 1, 1 - 1)) = 1 - 1
        /\ SubSeq(Named(i), 1, 1 - 1) \in Seq(Tokens)
    BY <2>1, <2>2, SubSeqNext
  <2>4. SubSeq(Named(i), 1, 1 - 1) = <<>>
    BY <2>3
  <2>5. SubSeq(Named(i), 1, 1) = Append(<<>>, i)
    BY <1>2, <2>3, <2>4
  <2>6. QED
    BY <2>5
<1>6. TrimSpace(Named(i)) = IF words = {} THEN <<>>
                            ELSE SubSeq(Named(i), Min(words), Max(words))
  BY DEF TrimSpace
<1> HIDE DEF words
<1>7. QED
  BY <1>3, <1>4, <1>5, <1>6

\* The URL contains the image's name, and not the one of another image.
LEMMA NamesInURL ==
  ASSUME NEW i \in Images
  PROVE  URLContains(<<i>>) <=> i # "other"
<1>1. i = "image" \/ i = "piece" \/ i = "other"
  BY DEF Images
<1>2. <<"other">> \notin {<<>>, <<"image">>, <<"piece">>}
  <2>1. <<"other">>[1] = "other" /\ Len(<<"other">>) = 1 /\ Len(<<>>) = 0
    OBVIOUS
  <2>2. <<"image">>[1] = "image" /\ <<"piece">>[1] = "piece"
    OBVIOUS
  <2>3. <<"other">> # <<>>
    BY <2>1
  <2>4. <<"other">> # <<"image">>
    BY <2>1, <2>2
  <2>5. <<"other">> # <<"piece">>
    BY <2>1, <2>2
  <2>6. QED
    BY <2>3, <2>4, <2>5, Zenon
<1>3. CASE i = "image"
  BY <1>3, Zenon DEF URLContains
<1>4. CASE i = "piece"
  BY <1>4, Zenon DEF URLContains
<1>5. CASE i = "other"
  BY <1>2, <1>5, Zenon DEF URLContains
<1>6. QED
  BY <1>1, <1>3, <1>4, <1>5

\* The checksum of one image matches unless it is another image's.
LEMMA OneMatches ==
  ASSUME NEW i \in Images
  PROVE  ChecksumMatches(MD5Sum(i)) <=> i # "other"
<1> DEFINE none == <<>>
<1>1. none \in Seq(Tokens) /\ none \o MD5Sum(i) = MD5Sum(i)
  <2>1. none \in Seq(Tokens)
    OBVIOUS
  <2>2. MD5Sum(i) \in Seq(Tokens)
    BY <2>1, LineOf
  <2>3. QED
    BY <2>1, <2>2
<1>2. Len(Split(none)) = 1
  <2>1. Len(Unsplit) = 1
    BY DEF Unsplit
  <2>2. QED
    BY <2>1, SplitNone
<1> HIDE DEF none
<1>3. Len(Split(none \o MD5Sum(i))) = 3 /\ Split(none \o MD5Sum(i))[3] = Named(i)
  <2> DEFINE all == Split(none \o MD5Sum(i))
  <2>1. Len(Split(none)) # 0
    BY <1>2
  <2>2. Len(all) = Len(Split(none)) + 2 /\ all[Len(all)] = Named(i)
    BY <1>1, <2>1, SplitLine, Zenon
  <2> HIDE DEF all
  <2>3. Len(all) = 3
    BY <1>2, <2>2
  <2>4. QED
    BY <2>2, <2>3 DEF all
<1>4. Len(Split(MD5Sum(i))) = 3 /\ Split(MD5Sum(i))[3] = Named(i)
  BY <1>1, <1>3
<1>5. QED
  BY <1>4, TrimNamed, NamesInURL DEF ChecksumMatches

\* A list that matches is the one of an image which is no other image.
LEMMA ListMatches ==
  ASSUME NEW images \in Seq(Images), ChecksumMatches(MD5Sums(images))
  PROVE  Len(images) = 1 /\ images[1] # "other"
<1>1. Len(images) = 1
  <2>1. PICK n \in Nat : n = Len(images)
    OBVIOUS
  <2>2. 2 * n + 1 = 3
    BY <2>1, SplitList DEF ChecksumMatches
  <2>3. QED
    BY <2>1, <2>2
<1>2. images[1] \in Images /\ images = Append(<<>>, images[1])
  BY <1>1
<1>3. MD5Sums(images) = MD5Sum(images[1])
  <2> DEFINE none == <<>>
  <2>1. none \in Seq(Images)
    OBVIOUS
  <2>2. MD5Sums(none) = <<>> /\ <<>> \in Seq(Tokens)
    BY DEF MD5Sums, FlattenSeq
  <2> HIDE DEF none
  <2>3. MD5Sums(Append(none, images[1])) = MD5Sums(none) \o MD5Sum(images[1])
    BY <1>2, <2>1, ListAppend
  <2>4. MD5Sum(images[1]) \in Seq(Tokens)
    BY <1>2, <2>2, LineOf
  <2>5. <<>> \o MD5Sum(images[1]) = MD5Sum(images[1])
    BY <2>4
  <2>6. QED
    BY <1>2, <2>2, <2>3, <2>5 DEF none
<1>4. QED
  BY <1>1, <1>2, <1>3, OneMatches

-----------------------------------------------------------------------------
(* The invariant *)

\* The verdict is the one of the checks.
TypeOK == spec.file \in Seq(Tokens)
Answered ==
  /\ verdict = "accepted" =>
       spec.checksum = "url" /\ spec.bmc # "" /\ ChecksumMatches(spec.file)
  /\ verdict = "checksum error" => ~ ChecksumMatches(spec.file)
IInv == TypeOK /\ Answered

\* What is checked, and what is said
LEMMA ChecksAre ==
  /\ DOMAIN Checks = 1 .. 6
  /\ Checks[2][1] = (spec.bmc # "")
  /\ Checks[3][1] = Fetched
  /\ Checks[4][1] = ChecksumMatches(spec.file)
  /\ \A k \in 1 .. 6 : Checks[k][2] # "accepted"
  /\ \A k \in 1 .. 6 : Checks[k][2] = "checksum error" => k = 4
<1>1. DOMAIN Checks = 1 .. 6
  BY DEF Checks
<1>2. Checks[2][1] = (spec.bmc # "")
  BY DEF Checks
<1>3. Checks[3][1] = Fetched
  BY DEF Checks
<1>4. Checks[4][1] = ChecksumMatches(spec.file)
  BY DEF Checks
<1>5. /\ Checks[1][2] = "image value not set"
      /\ Checks[2][2] = "BMC value not set"
      /\ Checks[3][2] = "checksum not fetched"
      /\ Checks[4][2] = "checksum error"
      /\ Checks[5][2] = "failed to BMC validation"
      /\ Checks[6][2] = "unknown error"
  BY DEF Checks
<1>6. \A k \in 1 .. 6 : k = 1 \/ k = 2 \/ k = 3 \/ k = 4 \/ k = 5 \/ k = 6
  OBVIOUS
<1>7. QED
  BY <1>1, <1>2, <1>3, <1>4, <1>5, <1>6

\* The lists of images are sequences.
LEMMA BoundedLists == BoundedSeq(Images, MaxImages) \subseteq Seq(Images)
<1> SUFFICES ASSUME NEW s \in BoundedSeq(Images, MaxImages) PROVE s \in Seq(Images)
  OBVIOUS
<1>1. PICK m \in 0 .. MaxImages : s \in [1 .. m -> Images]
  BY DEF BoundedSeq, SeqOf
<1>2. m \in Nat
  BY WebhookAssumption
<1>3. QED
  BY <1>1, <1>2

\* The invariant holds at first, ...
LEMMA InitIInv == Init => IInv
<1> SUFFICES ASSUME Init PROVE IInv
  OBVIOUS
<1>1. TypeOK
  <2>1. CASE spec.file \in BoundedSeq(Tokens, MaxTokens)
    <3>1. PICK m \in 0 .. MaxTokens : spec.file \in [1 .. m -> Tokens]
      BY <2>1 DEF BoundedSeq, SeqOf
    <3>2. m \in Nat
      BY WebhookAssumption
    <3>3. QED
      BY <3>1, <3>2 DEF TypeOK
  <2>2. CASE spec.file \in {MD5Sums(images) : images \in BoundedSeq(Images, MaxImages)}
    <3>1. PICK images \in BoundedSeq(Images, MaxImages) : spec.file = MD5Sums(images)
      BY <2>2
    <3>2. QED
      BY <3>1, BoundedLists, SplitList DEF TypeOK
  <2>3. spec.file \in BoundedSeq(Tokens, MaxTokens)
                    \cup {MD5Sums(images) : images \in BoundedSeq(Images, MaxImages)}
    BY DEF Init, Specs
  <2>4. QED
    BY <2>1, <2>2, <2>3
<1>2. Answered
  <2>1. verdict = ""
    BY DEF Init
  <2>2. verdict # "accepted" /\ verdict # "checksum error"
    BY <2>1, Zenon
  <2>3. QED
    BY <2>2 DEF Answered
<1>3. QED
  BY <1>1, <1>2 DEF IInv

\* ... the validation keeps it, ...
LEMMA NextIInv == IInv /\ [ValidateCreate]_vars => IInv'
<1> SUFFICES ASSUME IInv, [ValidateCreate]_vars PROVE IInv'
  OBVIOUS
<1>1. UNCHANGED spec /\ (UNCHANGED verdict \/ ValidateCreate)
  BY DEF ValidateCreate, vars
<1>2. TypeOK'
  BY <1>1 DEF IInv, TypeOK
<1>3. UNCHANGED ChecksumMatches(spec.file)
  BY <1>1
<1>4. CASE UNCHANGED verdict
  BY <1>1, <1>2, <1>3, <1>4 DEF IInv, Answered
<1>5. CASE ValidateCreate
  <2> DEFINE failed == {i \in DOMAIN Checks : ~ Checks[i][1]}
  <2>1. verdict' = IF failed = {} THEN "accepted" ELSE Checks[Min(failed)][2]
    BY <1>5 DEF ValidateCreate
  <2>2. failed = {i \in 1 .. 6 : ~ Checks[i][1]}
    BY ChecksAre
  <2>3. CASE failed = {}
    <3>1. spec.checksum = "url" /\ spec.bmc # "" /\ ChecksumMatches(spec.file)
      <4>1. 2 \in 1 .. 6 /\ 3 \in 1 .. 6 /\ 4 \in 1 .. 6
        OBVIOUS
      <4>2. 2 \notin failed /\ 3 \notin failed /\ 4 \notin failed
        BY <2>3
      <4>3. Checks[2][1] /\ Checks[3][1] /\ Checks[4][1]
        BY <2>2, <4>1, <4>2
      <4>4. Fetched /\ spec.bmc # "" /\ ChecksumMatches(spec.file)
        BY <4>3, ChecksAre
      <4>5. QED
        BY <4>4 DEF Fetched
    <3>2. verdict' = "accepted"
      BY <2>1, <2>3
    <3>3. QED
      BY <1>1, <1>2, <1>3, <3>1, <3>2 DEF IInv, Answered
  <2>4. CASE failed # {}
    <3>1. failed \subseteq Nat
      BY <2>2
    <3> HIDE DEF failed
    <3>2. Min(failed) \in failed
      BY <2>4, <3>1, MinIs
    <3>3. PICK k \in 1 .. 6 : k = Min(failed) /\ ~ Checks[k][1]
      BY <2>2, <3>2
    <3>4. verdict' = Checks[k][2]
      BY <2>1, <2>4, <3>3
    <3>5. verdict' # "accepted"
      BY <3>4, ChecksAre
    <3>6. verdict' = "checksum error" => ~ ChecksumMatches(spec.file)
      BY <3>3, <3>4, ChecksAre
    <3>7. QED
      BY <1>2, <1>3, <3>5, <3>6 DEF IInv, Answered
  <2>5. QED
    BY <2>3, <2>4
<1>6. QED
  BY <1>1, <1>4, <1>5

\* ... and so it holds.
LEMMA Invariance == Spec => []IInv
  BY InitIInv, NextIInv, PTL DEF Spec

\* The invariant implies both properties.
LEMMA OneImageFromInvariant == IInv => AcceptedOneImage
<1> SUFFICES ASSUME IInv, verdict = "accepted" PROVE AcceptedOneImage
  BY DEF AcceptedOneImage
<1>1. spec.checksum = "url" /\ spec.bmc # "" /\ ChecksumMatches(spec.file)
  BY DEF IInv, Answered
<1>2. ASSUME NEW images \in BoundedSeq(Images, MaxImages), spec.file = MD5Sums(images)
      PROVE  Len(images) = 1 /\ images[1] # "other"
  <2>1. images \in Seq(Images) /\ ChecksumMatches(MD5Sums(images))
    BY <1>1, <1>2, BoundedLists
  <2>2. QED
    BY <2>1, ListMatches
<1>3. QED
  BY <1>1, <1>2 DEF AcceptedOneImage

\* The image's own checksum is only refused for something else.
LEMMA MD5SumFromInvariant == IInv => MD5SumAccepted
<1>1. ChecksumMatches(MD5Sum("image"))
  <2>1. "image" \in Images /\ "image" # "other"
    BY DEF Images
  <2>2. QED
    BY <2>1, OneMatches
<1>2. QED
  BY <1>1 DEF IInv, Answered, MD5SumAccepted

-----------------------------------------------------------------------------
(* The theorems *)

\* Of the lists which md5sum writes for any images, only the one with the
\* checksum of the image alone is accepted, and no NodeConfig without BMC or URL.
THEOREM AcceptedOneImageHolds == Spec => []AcceptedOneImage
  BY Invariance, OneImageFromInvariant, PTL

\* What md5sum prints for the image is accepted.
THEOREM MD5SumAcceptedHolds == Spec => []MD5SumAccepted
  BY Invariance, MD5SumFromInvariant, PTL

=============================================================================
