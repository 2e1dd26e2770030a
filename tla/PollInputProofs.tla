--------------------------- MODULE PollInputProofs ---------------------------
(***************************************************************************)
(* What parse_poll_options makes of a text: its pieces, and the options    *)
(* that are left of them.                                                  *)
(***************************************************************************)
EXTENDS PollInput, TextProofs, FiniteSetTheorems

(* Lists of texts, under a name that the provers need not look through.    *)
Lists(V) == Seq(Seq(V))

LEMMA ListAppend ==
  ASSUME NEW V, NEW done \in Lists(V), NEW cur \in Seq(V)
  PROVE  /\ Append(done, cur) \in Lists(V) /\ Append(done, cur) # <<>>
         /\ Len(done) \in Nat /\ Len(Append(done, cur)) = Len(done) + 1
         /\ Append(done, cur)[Len(done) + 1] = cur
         /\ \A k \in 1 .. Len(done) : Append(done, cur)[k] = done[k] /\ done[k] \in Seq(V)
         /\ Front(Append(done, cur)) = done /\ Last(Append(done, cur)) = cur
<1> DEFINE W == Seq(V)
           more == Append(done, cur)
<1>1. done \in Seq(W) /\ cur \in W
  BY DEF Lists
<1> HIDE DEF W
<1>2. /\ more \in Seq(W) /\ more # <<>> /\ Len(done) \in Nat /\ Len(more) = Len(done) + 1
      /\ more[Len(done) + 1] = cur
      /\ \A k \in 1 .. Len(done) : more[k] = done[k] /\ done[k] \in W
  BY <1>1, AppendProperties
<1>3. SubSeq(more, 1, Len(done)) = done
  BY <1>1
<1> HIDE DEF more
<1>4. Front(more) = done
  BY <1>2, <1>3 DEF Front
<1>5. Last(more) = cur
  BY <1>2 DEF Last
<1>6. QED
  BY <1>2, <1>4, <1>5, Zenon DEF Lists, W, more

LEMMA ShortLists ==
  ASSUME NEW V
  PROVE  /\ <<>> \in Seq(V) /\ <<>> \in Lists(V)
         /\ <<<<>>>> \in Lists(V) /\ <<<<>>>> # <<>> /\ <<<<>>>> = Append(<<>>, <<>>)
<1>1. <<>> \in Seq(V) /\ <<>> \in Lists(V)
  BY EmptySeq DEF Lists
<1>2. <<<<>>>> = Append(<<>>, <<>>)
  OBVIOUS
<1>3. Append(<<>>, <<>>) \in Lists(V) /\ Append(<<>>, <<>>) # <<>>
  BY <1>1, ListAppend
<1>4. QED
  BY <1>1, <1>2, <1>3

LEMMA LastOfList ==
  ASSUME NEW V, NEW list \in Lists(V), list # <<>>
  PROVE  \E done \in Lists(V), cur \in Seq(V) : list = Append(done, cur)
<1> DEFINE W == Seq(V)
<1> SUFFICES \E done \in Seq(W), cur \in W : list = Append(done, cur)
  BY DEF Lists
<1>1. list \in Seq(W)
  BY DEF Lists
<1> HIDE DEF W
<1>2. QED
  BY <1>1, SequenceEmptyOrAppend

(* One more character at the end of what is split.                         *)
Split(before, ch) ==
  IF ch = OPTION_SEPARATOR THEN Append(before, <<>>)
  ELSE Append(Front(before), Append(Last(before), ch))

LEMMA SplitShape ==
  ASSUME NEW V, NEW done \in Lists(V), NEW cur \in Seq(V), NEW ch \in V
  PROVE  /\ ch = OPTION_SEPARATOR => Split(Append(done, cur), ch) = Append(Append(done, cur), <<>>)
         /\ ch # OPTION_SEPARATOR => Split(Append(done, cur), ch) = Append(done, Append(cur, ch))
<1>1. Front(Append(done, cur)) = done /\ Last(Append(done, cur)) = cur
  BY ListAppend
<1>2. QED
  BY <1>1 DEF Split

LEMMA SplitType ==
  ASSUME NEW V, NEW before \in Lists(V), before # <<>>, NEW ch \in V
  PROVE  Split(before, ch) \in Lists(V) /\ Split(before, ch) # <<>>
<1>1. PICK done \in Lists(V), cur \in Seq(V) : before = Append(done, cur)
  BY LastOfList
<1>2. Append(cur, ch) \in Seq(V) /\ <<>> \in Seq(V)
  OBVIOUS
<1>3. CASE ch = OPTION_SEPARATOR
  <2>1. Split(before, ch) = Append(before, <<>>)
    BY <1>3 DEF Split
  <2>2. Append(before, <<>>) \in Lists(V)
    BY <1>2, ListAppend
  <2>3. Append(before, <<>>) # <<>>
    BY <1>2, ListAppend
  <2>4. QED
    BY <2>1, <2>2, <2>3
<1>4. CASE ch # OPTION_SEPARATOR
  <2>1. Split(before, ch) = Append(done, Append(cur, ch))
    BY <1>1, <1>4, SplitShape
  <2>2. Append(done, Append(cur, ch)) \in Lists(V)
    BY <1>2, ListAppend
  <2>3. Append(done, Append(cur, ch)) # <<>>
    <3>1. \A longer \in Seq(V) : Append(done, longer) # <<>>
      BY ListAppend
    <3>2. QED
      BY <1>2, <3>1
  <2>4. QED
    BY <2>1, <2>2, <2>3
<1>5. QED
  BY <1>3, <1>4

(* Pieces goes through the text from the left.                             *)
LEMMA Splitting ==
  ASSUME NEW V, NEW input \in Seq(V)
  PROVE  \E f : /\ f[0] = <<<<>>>>
                /\ \A n \in 1 .. Len(input) : f[n] = Split(f[n - 1], input[n])
                /\ \A n \in 0 .. Len(input) : f[n] \in Lists(V) /\ f[n] # <<>>
                /\ Pieces(input) = f[Len(input)]
<1> DEFINE D == 0 .. Len(input)
           W == {list \in Lists(V) : list # <<>>}
           Step(f) == [n \in D |-> IF n = 0 THEN <<<<>>>> ELSE Split(f[n - 1], input[n])]
           pieces[n \in D] == IF n = 0 THEN <<<<>>>> ELSE Split(pieces[n - 1], input[n])
           M == [n \in D |-> n]
           F == [f \in [D -> W] |-> Step(f)]
<1>1. Len(input) \in Nat /\ \A n \in D : n # 0 => input[n] \in V /\ n - 1 \in D
  OBVIOUS
<1>2. <<<<>>>> \in W
  BY ShortLists
<1>3. \A f \in [D -> W] : Step(f) \in [D -> W]
  <2> SUFFICES ASSUME NEW f \in [D -> W], NEW n \in D, n # 0
               PROVE  Split(f[n - 1], input[n]) \in W
    BY <1>2
  <2>1. f[n - 1] \in W /\ input[n] \in V
    BY <1>1
  <2>2. QED
    BY <2>1, SplitType
<1>4. F \in [[D -> W] -> [D -> W]]
  <2> HIDE DEF W, Step
  <2> QED BY <1>3
<1>5. M \in [D -> Nat]
  OBVIOUS
<1>6. ASSUME NEW f \in [D -> W], NEW g \in [D -> W], NEW n \in D,
             \A e \in D : M[e] < M[n] => f[e] = g[e]
      PROVE  F[f][n] = F[g][n]
  <2>1. n # 0 => n - 1 \in D /\ M[n - 1] < M[n]
    BY <1>1
  <2>2. n # 0 => f[n - 1] = g[n - 1]
    BY <1>6, <2>1
  <2>3. F[f][n] = Step(f)[n] /\ F[g][n] = Step(g)[n]
    <3> HIDE DEF Step
    <3> QED OBVIOUS
  <2>4. QED
    <3> HIDE DEF F, W
    <3> QED BY <2>2, <2>3, Zenon
<1>7. [D -> W] # {}
  <2>1. [n \in D |-> <<<<>>>>] \in [D -> W]
    BY <1>2
  <2>2. QED
    BY <2>1
<1>8. PICK f \in [D -> W] : F[f] = f
  <2> HIDE DEF F, M, D, W, pieces
  <2>1. Recurs(F, M, D, W)
    BY <1>4, <1>5, <1>6, <1>7 DEF Recurs
  <2>2. QED
    BY <2>1, Recursion
<1>9. f = Step(f)
  <2> HIDE DEF Step, W
  <2> QED BY <1>8
<1>10. pieces = Step(pieces)
  BY <1>9, Zenon
<1>11. /\ pieces[0] = <<<<>>>>
       /\ \A n \in 1 .. Len(input) : pieces[n] = Split(pieces[n - 1], input[n])
  <2> HIDE DEF pieces
  <2>1. \A n \in D : pieces[n] = IF n = 0 THEN <<<<>>>> ELSE Split(pieces[n - 1], input[n])
    BY <1>10, Zenon
  <2>2. 0 \in D /\ \A n \in 1 .. Len(input) : n \in D /\ n # 0
    BY <1>1
  <2>3. QED
    BY <2>1, <2>2, Zenon
<1>12. \A n \in D : pieces[n] \in W
  <2> DEFINE Typed == {n \in Nat : n \in D => pieces[n] \in W}
  <2> HIDE DEF pieces, W
  <2>1. 0 \in Typed
    BY <1>2, <1>11
  <2>2. ASSUME NEW n \in Nat, n \in Typed PROVE n + 1 \in Typed
    <3> SUFFICES ASSUME n + 1 \in D PROVE pieces[n + 1] \in W
      OBVIOUS
    <3>1. n \in D /\ n + 1 \in 1 .. Len(input) /\ (n + 1) - 1 = n /\ input[n + 1] \in V
      BY <1>1
    <3>2. pieces[n] \in W
      BY <2>2, <3>1
    <3>3. pieces[n + 1] = Split(pieces[n], input[n + 1])
      BY <1>11, <3>1
    <3>4. QED
      BY <3>1, <3>2, <3>3, SplitType DEF W
  <2>3. Nat \subseteq Typed
    <3> HIDE DEF Typed
    <3> QED BY <2>1, <2>2, Induction
  <2>4. QED
    BY <1>1, <2>3
<1>13. Pieces(input) = pieces[Len(input)]
  BY Zenon DEF Pieces, Split
<1>14. QED
  <2> HIDE DEF pieces
  <2> QED BY <1>11, <1>12, <1>13

LEMMA PiecesOfNothing == Pieces(<<>>) = <<<<>>>>
<1>1. <<>> \in Seq({}) /\ Len(<<>>) = 0
  BY EmptySeq
<1>2. QED
  BY <1>1, Splitting

LEMMA PiecesType ==
  ASSUME NEW V, NEW text \in Seq(V)
  PROVE  Pieces(text) \in Lists(V) /\ Pieces(text) # <<>>
<1>1. PICK f : /\ \A n \in 0 .. Len(text) : f[n] \in Lists(V) /\ f[n] # <<>>
               /\ Pieces(text) = f[Len(text)]
  BY Splitting
<1>2. Len(text) \in 0 .. Len(text)
  OBVIOUS
<1>3. QED
  BY <1>1, <1>2

(* One more character splits one further.                                  *)
LEMMA PiecesGrow ==
  ASSUME NEW V, NEW text \in Seq(V), NEW ch \in V
  PROVE  Pieces(Append(text, ch)) = Split(Pieces(text), ch)
<1> DEFINE more == Append(text, ch)
           n == Len(text)
<1>1. /\ more \in Seq(V) /\ Len(more) = n + 1 /\ n \in Nat /\ more[n + 1] = ch
      /\ \A i \in 1 .. n : more[i] = text[i]
  BY AppendProperties
<1> HIDE DEF more
<1>2. PICK f : /\ f[0] = <<<<>>>>
               /\ \A i \in 1 .. n : f[i] = Split(f[i - 1], text[i])
               /\ Pieces(text) = f[n]
  BY Splitting
<1>3. PICK g : /\ g[0] = <<<<>>>>
               /\ \A i \in 1 .. n + 1 : g[i] = Split(g[i - 1], more[i])
               /\ Pieces(more) = g[n + 1]
  <2>1. \E g : /\ g[0] = <<<<>>>>
               /\ \A i \in 1 .. Len(more) : g[i] = Split(g[i - 1], more[i])
               /\ \A i \in 0 .. Len(more) : g[i] \in Lists(V) /\ g[i] # <<>>
               /\ Pieces(more) = g[Len(more)]
    BY <1>1, Splitting
  <2>2. QED
    BY <1>1, <2>1
<1> DEFINE Agree == {i \in Nat : i <= n => g[i] = f[i]}
<1>4. 0 \in Agree
  BY <1>2, <1>3
<1>5. ASSUME NEW i \in Nat, i \in Agree PROVE i + 1 \in Agree
  <2> SUFFICES ASSUME i + 1 <= n PROVE g[i + 1] = f[i + 1]
    OBVIOUS
  <2>1. i + 1 \in 1 .. n /\ i + 1 \in 1 .. n + 1 /\ (i + 1) - 1 = i /\ i <= n
    BY <1>1
  <2>2. g[i] = f[i]
    BY <1>5, <2>1
  <2>3. QED
    BY <1>1, <1>2, <1>3, <2>1, <2>2
<1>6. g[n] = f[n]
  <2>1. Nat \subseteq Agree
    <3> HIDE DEF Agree
    <3> QED BY <1>4, <1>5, Induction
  <2>2. QED
    BY <1>1, <2>1
<1>7. n + 1 \in 1 .. n + 1 /\ (n + 1) - 1 = n /\ n \in 0 .. n
  BY <1>1
<1>8. QED
  BY <1>1, <1>2, <1>3, <1>6, <1>7 DEF more

-----------------------------------------------------------------------------
(* A piece lies in the text after position a: at its beginning or after a  *)
(* separator, and with none inside.                                        *)
LiesAt(piece, text, a) ==
  /\ a \in Nat /\ a + Len(piece) <= Len(text)
  /\ a = 0 \/ text[a] = OPTION_SEPARATOR
  /\ \A j \in 1 .. Len(piece) : piece[j] = text[a + j] /\ piece[j] # OPTION_SEPARATOR

LEMMA StillLies ==
  ASSUME NEW V, NEW text \in Seq(V), NEW ch \in V, NEW piece \in Seq(V), NEW a,
         LiesAt(piece, text, a)
  PROVE  LiesAt(piece, Append(text, ch), a)
<1> DEFINE more == Append(text, ch)
<1>1. /\ Len(more) = Len(text) + 1 /\ Len(text) \in Nat
      /\ \A i \in 1 .. Len(text) : more[i] = text[i]
  BY AppendProperties
<1>2. Len(piece) \in Nat /\ a \in Nat /\ a + Len(piece) <= Len(text)
  BY DEF LiesAt
<1> HIDE DEF more
<1>3. a + Len(piece) <= Len(more)
  BY <1>1, <1>2
<1>4. a = 0 \/ more[a] = OPTION_SEPARATOR
  <2>1. a # 0 => a \in 1 .. Len(text)
    BY <1>1, <1>2
  <2>2. QED
    BY <1>1, <2>1 DEF LiesAt
<1>5. ASSUME NEW j \in 1 .. Len(piece) PROVE piece[j] = more[a + j] /\ piece[j] # OPTION_SEPARATOR
  <2>1. a + j \in 1 .. Len(text)
    BY <1>1, <1>2
  <2>2. piece[j] = text[a + j] /\ piece[j] # OPTION_SEPARATOR
    BY DEF LiesAt
  <2>3. QED
    BY <1>1, <2>1, <2>2
<1>6. QED
  BY <1>2, <1>3, <1>4, <1>5 DEF LiesAt, more

(* Every piece lies in the text, and the last one at its end.              *)
LEMMA PiecesLie ==
  ASSUME NEW V, NEW text \in Seq(V)
  PROVE  /\ \A k \in 1 .. Len(Pieces(text)) : \E a : LiesAt(Pieces(text)[k], text, a)
         /\ LiesAt(Last(Pieces(text)), text, Len(text) - Len(Last(Pieces(text))))
<1> DEFINE Lie(t, list) ==
             /\ \A k \in 1 .. Len(list) : \E a : LiesAt(list[k], t, a)
             /\ LiesAt(Last(list), t, Len(t) - Len(Last(list)))
           S == {t \in Seq(V) : Lie(t, Pieces(t))}
<1>0. ASSUME NEW t, NEW done \in Lists(V), NEW cur \in Seq(V)
      PROVE  Lie(t, Append(done, cur)) <=>
               /\ \A k \in 1 .. Len(done) : \E a : LiesAt(done[k], t, a)
               /\ LiesAt(cur, t, Len(t) - Len(cur))
  <2> DEFINE list == Append(done, cur)
  <2>1. /\ Len(done) \in Nat /\ Len(list) = Len(done) + 1 /\ list[Len(done) + 1] = cur
        /\ \A k \in 1 .. Len(done) : list[k] = done[k]
        /\ Last(list) = cur
    BY ListAppend
  <2> HIDE DEF list
  <2>2. (\A k \in 1 .. Len(list) : \E a : LiesAt(list[k], t, a)) <=>
          /\ \A k \in 1 .. Len(done) : \E a : LiesAt(done[k], t, a)
          /\ \E a : LiesAt(cur, t, a)
    BY <2>1
  <2>3. QED
    BY <2>1, <2>2, Zenon DEF list
<1>1. <<>> \in S
  <2>1. /\ <<>> \in Seq(V) /\ <<>> \in Lists(V) /\ Len(<<>>) = 0
        /\ Pieces(<<>>) = Append(<<>>, <<>>)
    BY PiecesOfNothing, ShortLists
  <2>2. LiesAt(<<>>, <<>>, Len(<<>>) - Len(<<>>))
    BY <2>1 DEF LiesAt
  <2> HIDE DEF Lie
  <2>3. \A k \in 1 .. Len(<<>>) : \E a : LiesAt(<<>>[k], <<>>, a)
    BY <2>1
  <2>4. Lie(<<>>, Append(<<>>, <<>>))
    BY <1>0, <2>1, <2>2, <2>3, Zenon
  <2>5. QED
    BY <2>1, <2>4
<1>2. ASSUME NEW t \in Seq(V), NEW ch \in V, t \in S PROVE Append(t, ch) \in S
  <2> DEFINE more == Append(t, ch)
  <2>1. /\ more \in Seq(V) /\ Len(more) = Len(t) + 1 /\ Len(t) \in Nat /\ more[Len(t) + 1] = ch
    BY AppendProperties
  <2>2. PICK done \in Lists(V), cur \in Seq(V) : Pieces(t) = Append(done, cur)
    BY PiecesType, LastOfList
  <2>3. Lie(t, Append(done, cur))
    BY <1>2, <2>2
  <2> HIDE DEF Lie
  <2>4. /\ \A k \in 1 .. Len(done) : \E b : LiesAt(done[k], t, b)
        /\ LiesAt(cur, t, Len(t) - Len(cur))
    BY <1>0, <2>3
  <2>5. /\ \A k \in 1 .. Len(done) : \E b : LiesAt(done[k], more, b)
        /\ LiesAt(cur, more, Len(t) - Len(cur))
    <3>1. \A k \in 1 .. Len(done) : done[k] \in Seq(V)
      BY ListAppend
    <3>2. QED
      BY <2>4, <3>1, StillLies
  <2>6. CASE ch = OPTION_SEPARATOR
    <3>1. LiesAt(<<>>, more, Len(more) - Len(<<>>)) /\ <<>> \in Seq(V)
      BY <2>1, <2>6 DEF LiesAt
    <3> DEFINE before == Append(done, cur)
    <3>2. /\ before \in Lists(V) /\ Len(before) = Len(done) + 1 /\ Len(done) \in Nat
          /\ before[Len(done) + 1] = cur
          /\ \A k \in 1 .. Len(done) : before[k] = done[k]
      BY ListAppend
    <3>3. Pieces(more) = Append(before, <<>>)
      <4>1. Pieces(more) = Split(before, ch)
        BY <2>2, PiecesGrow
      <4>2. QED
        BY <2>6, <4>1 DEF Split
    <3> HIDE DEF more, before
    <3>4. \A k \in 1 .. Len(before) : \E b : LiesAt(before[k], more, b)
      BY <2>5, <3>2
    <3>5. Lie(more, Append(before, <<>>))
      BY <1>0, <3>1, <3>2, <3>4
    <3>6. QED
      BY <2>1, <3>3, <3>5 DEF more
  <2>7. CASE ch # OPTION_SEPARATOR
    <3> DEFINE longer == Append(cur, ch)
    <3>1. /\ longer \in Seq(V) /\ Len(longer) = Len(cur) + 1 /\ longer[Len(cur) + 1] = ch
          /\ \A j \in 1 .. Len(cur) : longer[j] = cur[j]
          /\ Len(cur) \in Nat
      BY AppendProperties
    <3> HIDE DEF longer, more
    <3> DEFINE c == Len(t) - Len(cur)
    <3>2. /\ c \in Nat /\ c + Len(longer) = Len(more) /\ c + (Len(cur) + 1) = Len(t) + 1
          /\ Len(longer) \in Nat /\ c + Len(longer) <= Len(more)
          /\ c = Len(more) - Len(longer)
      BY <2>1, <2>4, <3>1 DEF LiesAt
    <3>3. /\ c = 0 \/ more[c] = OPTION_SEPARATOR
          /\ \A j \in 1 .. Len(cur) : cur[j] = more[c + j] /\ cur[j] # OPTION_SEPARATOR
      BY <2>5 DEF LiesAt
    <3> HIDE DEF c
    <3>4. ASSUME NEW j \in 1 .. Len(longer)
          PROVE  longer[j] = more[c + j] /\ longer[j] # OPTION_SEPARATOR
      <4>1. CASE j \in 1 .. Len(cur)
        BY <3>1, <3>3, <4>1
      <4>2. CASE j = Len(cur) + 1
        BY <2>1, <2>7, <3>1, <3>2, <4>2
      <4>3. j \in 1 .. Len(cur) \/ j = Len(cur) + 1
        BY <3>1
      <4>4. QED
        BY <4>1, <4>2, <4>3
    <3>5. LiesAt(longer, more, Len(more) - Len(longer))
      BY <3>2, <3>3, <3>4 DEF LiesAt
    <3>6. Lie(more, Append(done, longer))
      BY <1>0, <2>5, <3>1, <3>5
    <3>7. Pieces(more) = Append(done, longer)
      <4>1. Pieces(more) = Split(Append(done, cur), ch)
        BY <2>2, PiecesGrow DEF more
      <4>2. QED
        BY <2>7, <4>1, SplitShape DEF longer
    <3>8. QED
      BY <2>1, <3>6, <3>7 DEF more
  <2>8. QED
    BY <2>6, <2>7
<1>3. Seq(V) \subseteq S
  <2> HIDE DEF S
  <2> QED BY <1>1, <1>2, TextInduction
<1>4. QED
  BY <1>3

-----------------------------------------------------------------------------
(* What is offered of a piece, and of a list of them.                      *)
Offer(piece) == IF Trim(piece) = <<>> THEN <<>> ELSE <<Trim(piece)>>
Offered(list) == FlattenSeq([k \in DOMAIN list |-> Offer(list[k])])

LEMMA KeptIsOffered ==
  ASSUME NEW text
  PROVE  Kept(text) = Offered(Pieces(text))
<1> DEFINE pieces == Pieces(text)
           trimmed == [k \in DOMAIN pieces |-> Trim(pieces[k])]
<1>1. Kept(text) = NonEmpty(trimmed)
  BY DEF Kept
<1> HIDE DEF pieces
<1>2. DOMAIN trimmed = DOMAIN pieces /\ \A k \in DOMAIN pieces : trimmed[k] = Trim(pieces[k])
  OBVIOUS
<1>3. NonEmpty(trimmed) =
        FlattenSeq([k \in DOMAIN trimmed |-> IF trimmed[k] = <<>> THEN <<>> ELSE <<trimmed[k]>>])
  BY DEF NonEmpty
<1> HIDE DEF trimmed
<1>4. \A k \in DOMAIN pieces :
        (IF trimmed[k] = <<>> THEN <<>> ELSE <<trimmed[k]>>) = Offer(pieces[k])
  BY <1>2 DEF Offer
<1>5. [k \in DOMAIN trimmed |-> IF trimmed[k] = <<>> THEN <<>> ELSE <<trimmed[k]>>]
        = [k \in DOMAIN pieces |-> Offer(pieces[k])]
  BY <1>2, <1>4
<1>6. QED
  BY <1>1, <1>3, <1>5 DEF Offered, pieces

LEMMA OfferShape ==
  ASSUME NEW V, NEW piece \in Seq(V)
  PROVE  /\ Offer(piece) \in Lists(V)
         /\ Len(Offer(piece)) = IF Solid(piece) = {} THEN 0 ELSE 1
         /\ \A k \in 1 .. Len(Offer(piece)) : Offer(piece)[k] = Trim(piece) /\ Solid(piece) # {}
<1>1. Trim(piece) \in Seq(V) /\ (Trim(piece) = <<>> <=> Solid(piece) = {})
  BY TrimIsTheMiddle
<1>2. CASE Solid(piece) = {}
  <2>1. Offer(piece) = <<>>
    BY <1>1, <1>2 DEF Offer
  <2>2. QED
    BY <1>2, <2>1, ShortLists
<1>3. CASE Solid(piece) # {}
  <2>1. Offer(piece) = <<Trim(piece)>>
    BY <1>1, <1>3 DEF Offer
  <2> DEFINE option == Trim(piece)
  <2>2. option \in Seq(V)
    BY <1>1
  <2> HIDE DEF option
  <2>3. <<option>> = Append(<<>>, option)
    OBVIOUS
  <2>4. <<option>> \in Lists(V)
    <3>1. <<>> \in Lists(V)
      BY ShortLists
    <3>2. \A c \in Seq(V) : Append(<<>>, c) \in Lists(V)
      BY <3>1, ListAppend
    <3>3. Append(<<>>, option) \in Lists(V)
      BY <2>2, <3>2
    <3>4. QED
      BY <2>3, <3>3
  <2>5. Len(<<option>>) = 1 /\ \A k \in 1 .. 1 : <<option>>[k] = option
    OBVIOUS
  <2>6. QED
    BY <1>3, <2>1, <2>4, <2>5 DEF option
<1>4. QED
  BY <1>2, <1>3

LEMMA OfferedSteps ==
  ASSUME NEW V
  PROVE  /\ Offered(<<>>) = <<>>
         /\ \A list \in Lists(V) : Offered(list) \in Lists(V)
         /\ \A list \in Lists(V), piece \in Seq(V) :
              Offered(Append(list, piece)) = Offered(list) \o Offer(piece)
<1> DEFINE U == Seq(V)
           e == [piece \in U |-> Offer(piece)]
<1>1. e \in [U -> Seq(U)]
  <2> SUFFICES ASSUME NEW piece \in Seq(V) PROVE Offer(piece) \in Seq(U)
    OBVIOUS
  <2>1. Offer(piece) \in Lists(V)
    BY OfferShape
  <2>2. QED
    BY <2>1 DEF Lists
<1>2. /\ Spread(e, <<>>) = <<>>
      /\ \A list \in Seq(U) : Spread(e, list) \in Seq(U)
      /\ \A list \in Seq(U), piece \in U :
           Spread(e, Append(list, piece)) = Spread(e, list) \o e[piece]
  <2> HIDE DEF e, U
  <2> QED BY <1>1, SpreadSteps
<1>3. ASSUME NEW list \in Seq(U) PROVE Offered(list) = Spread(e, list)
  <2> HIDE DEF U
  <2>1. \A k \in DOMAIN list : e[list[k]] = Offer(list[k])
    OBVIOUS
  <2>2. [k \in DOMAIN list |-> e[list[k]]] = [k \in DOMAIN list |-> Offer(list[k])]
    <3> HIDE DEF e
    <3> QED BY <2>1
  <2>3. QED
    BY <2>2 DEF Spread, Offered
<1>4. \A piece \in U : e[piece] = Offer(piece)
  OBVIOUS
<1>5. Lists(V) = Seq(U)
  BY DEF Lists
<1> HIDE DEF e, U
<1>6. <<>> \in Seq(U) /\ \A list \in Seq(U), piece \in U : Append(list, piece) \in Seq(U)
  OBVIOUS
<1>7. /\ Offered(<<>>) = <<>>
      /\ \A list \in Seq(U) : Offered(list) \in Seq(U)
      /\ \A list \in Seq(U), piece \in U : Offered(Append(list, piece)) = Offered(list) \o Offer(piece)
  BY <1>2, <1>3, <1>4, <1>6
<1>8. QED
  BY <1>5, <1>7, Zenon DEF U

(* What is offered is what is left of some piece.                          *)
LEMMA OfferedMembers ==
  ASSUME NEW V, NEW list \in Lists(V), NEW k \in 1 .. Len(Offered(list))
  PROVE  \E m \in 1 .. Len(list) : Offered(list)[k] = Trim(list[m]) /\ Solid(list[m]) # {}
<1> DEFINE U == Seq(V)
           From(l, j) == \E m \in 1 .. Len(l) : Offered(l)[j] = Trim(l[m]) /\ Solid(l[m]) # {}
           S == {l \in Lists(V) : \A j \in 1 .. Len(Offered(l)) : From(l, j)}
<1>0. Lists(V) = Seq(U)
  BY DEF Lists
<1>1. <<>> \in S
  BY OfferedSteps, ShortLists
<1>2. ASSUME NEW l \in Lists(V), NEW piece \in U, l \in S PROVE Append(l, piece) \in S
  <2> DEFINE more == Append(l, piece)
             o == Offered(l)
             p == Offer(piece)
  <2>1. /\ more \in Lists(V) /\ Len(more) = Len(l) + 1 /\ Len(l) \in Nat
        /\ more[Len(l) + 1] = piece
        /\ \A m \in 1 .. Len(l) : more[m] = l[m]
    BY ListAppend
  <2>2. Offered(more) = o \o p
    BY OfferedSteps
  <2>3. o \in Lists(V) /\ p \in Lists(V)
    BY OfferedSteps, OfferShape
  <2>4. \A j \in 1 .. Len(p) : p[j] = Trim(piece) /\ Solid(piece) # {}
    BY OfferShape
  <2>5. \A j \in 1 .. Len(o) : From(l, j)
    BY <1>2
  <2> HIDE DEF more, o, p, U
  <2>6. /\ Len(o \o p) = Len(o) + Len(p) /\ Len(o) \in Nat /\ Len(p) \in Nat
        /\ \A j \in 1 .. Len(o) + Len(p) : (o \o p)[j] = IF j <= Len(o) THEN o[j] ELSE p[j - Len(o)]
    BY <1>0, <2>3, ConcatProperties
  <2>7. ASSUME NEW j \in 1 .. Len(o) + Len(p)
        PROVE  \E m \in 1 .. Len(more) : (o \o p)[j] = Trim(more[m]) /\ Solid(more[m]) # {}
    <3>1. CASE j <= Len(o)
      <4>1. j \in 1 .. Len(o) /\ (o \o p)[j] = o[j]
        BY <2>6, <3>1
      <4>2. PICK m \in 1 .. Len(l) : o[j] = Trim(l[m]) /\ Solid(l[m]) # {}
        BY <2>5, <4>1 DEF o
      <4>3. m \in 1 .. Len(more) /\ more[m] = l[m]
        BY <2>1
      <4>4. QED
        BY <4>1, <4>2, <4>3
    <3>2. CASE ~(j <= Len(o))
      <4>1. j - Len(o) \in 1 .. Len(p) /\ (o \o p)[j] = p[j - Len(o)]
        BY <2>6, <3>2
      <4>2. p[j - Len(o)] = Trim(piece) /\ Solid(piece) # {}
        BY <2>4, <4>1
      <4>3. Len(l) + 1 \in 1 .. Len(more) /\ more[Len(l) + 1] = piece
        BY <2>1
      <4>4. QED
        BY <4>1, <4>2, <4>3
    <3>3. QED
      BY <3>1, <3>2
  <2>8. \A j \in 1 .. Len(Offered(more)) : From(more, j)
    BY <2>2, <2>6, <2>7
  <2>9. QED
    BY <2>1, <2>8 DEF more
<1>3. Lists(V) \subseteq S
  <2> HIDE DEF S, U
  <2> QED BY <1>0, <1>1, <1>2, TextInduction
<1>4. QED
  BY <1>3
-----------------------------------------------------------------------------
(* The letters of a text, and of a list of texts.                          *)
Read(ch) == IF Letter(ch) THEN <<ch>> ELSE <<>>
Joined(list) == FlattenSeq([k \in DOMAIN list |-> Letters(list[k])])

LEMMA LettersSteps ==
  ASSUME NEW V
  PROVE  /\ Letters(<<>>) = <<>>
         /\ \A text \in Seq(V) : Letters(text) \in Seq(V)
         /\ \A text \in Seq(V), ch \in V : Letters(Append(text, ch)) = Letters(text) \o Read(ch)
         /\ \A s, t \in Seq(V) : Letters(s \o t) = Letters(s) \o Letters(t)
<1> DEFINE e == [ch \in V |-> Read(ch)]
<1>1. e \in [V -> Seq(V)]
  BY DEF Read
<1>2. /\ Spread(e, <<>>) = <<>>
      /\ \A text \in Seq(V) : Spread(e, text) \in Seq(V)
      /\ \A text \in Seq(V), ch \in V :
           Spread(e, Append(text, ch)) = Spread(e, text) \o e[ch]
  <2> HIDE DEF e
  <2> QED BY <1>1, SpreadSteps
<1>3. \A s, t \in Seq(V) : Spread(e, s \o t) = Spread(e, s) \o Spread(e, t)
  <2> HIDE DEF e
  <2> QED BY <1>1, SpreadConcat
<1>4. ASSUME NEW text \in Seq(V) PROVE Letters(text) = Spread(e, text)
  <2>1. \A i \in DOMAIN text : e[text[i]] = IF Letter(text[i]) THEN <<text[i]>> ELSE <<>>
    BY DEF Read
  <2>2. [i \in DOMAIN text |-> e[text[i]]]
          = [i \in DOMAIN text |-> IF Letter(text[i]) THEN <<text[i]>> ELSE <<>>]
    <3> HIDE DEF e
    <3> QED BY <2>1
  <2>3. QED
    BY <2>2 DEF Spread, Letters
<1>5. \A ch \in V : e[ch] = Read(ch)
  OBVIOUS
<1> HIDE DEF e
<1>6. /\ <<>> \in Seq(V)
      /\ \A text \in Seq(V), ch \in V : Append(text, ch) \in Seq(V)
      /\ \A s, t \in Seq(V) : s \o t \in Seq(V)
  OBVIOUS
<1>7. Letters(<<>>) = <<>> /\ \A text \in Seq(V) : Letters(text) \in Seq(V)
  BY <1>2, <1>4, <1>6
<1>8. \A text \in Seq(V), ch \in V : Letters(Append(text, ch)) = Letters(text) \o Read(ch)
  BY <1>2, <1>4, <1>5, <1>6
<1>9. \A s, t \in Seq(V) : Letters(s \o t) = Letters(s) \o Letters(t)
  BY <1>3, <1>4, <1>6
<1>10. QED
  BY <1>7, <1>8, <1>9

LEMMA JoinedSteps ==
  ASSUME NEW V
  PROVE  /\ Joined(<<>>) = <<>>
         /\ \A list \in Lists(V) : Joined(list) \in Seq(V)
         /\ \A list \in Lists(V), piece \in Seq(V) :
              Joined(Append(list, piece)) = Joined(list) \o Letters(piece)
         /\ \A a, b \in Lists(V) : Joined(a \o b) = Joined(a) \o Joined(b)
<1> DEFINE U == Seq(V)
           e == [piece \in U |-> Letters(piece)]
<1>1. e \in [U -> Seq(V)]
  BY LettersSteps
<1>2. /\ Spread(e, <<>>) = <<>>
      /\ \A list \in Seq(U) : Spread(e, list) \in Seq(V)
      /\ \A list \in Seq(U), piece \in U :
           Spread(e, Append(list, piece)) = Spread(e, list) \o e[piece]
  <2> HIDE DEF e, U
  <2> QED BY <1>1, SpreadSteps
<1>3. \A a, b \in Seq(U) : Spread(e, a \o b) = Spread(e, a) \o Spread(e, b)
  <2> HIDE DEF e, U
  <2> QED BY <1>1, SpreadConcat
<1>4. ASSUME NEW list \in Seq(U) PROVE Joined(list) = Spread(e, list)
  <2> HIDE DEF U
  <2>1. \A k \in DOMAIN list : e[list[k]] = Letters(list[k])
    OBVIOUS
  <2>2. [k \in DOMAIN list |-> e[list[k]]] = [k \in DOMAIN list |-> Letters(list[k])]
    <3> HIDE DEF e
    <3> QED BY <2>1
  <2>3. QED
    BY <2>2 DEF Spread, Joined
<1>5. \A piece \in U : e[piece] = Letters(piece)
  OBVIOUS
<1>6. Lists(V) = Seq(U)
  BY DEF Lists
<1> HIDE DEF e, U
<1>7. /\ <<>> \in Seq(U)
      /\ \A list \in Seq(U), piece \in U : Append(list, piece) \in Seq(U)
      /\ \A a, b \in Seq(U) : a \o b \in Seq(U)
  OBVIOUS
<1>8. Joined(<<>>) = <<>> /\ \A list \in Seq(U) : Joined(list) \in Seq(V)
  BY <1>2, <1>4, <1>7
<1>9. \A list \in Seq(U), piece \in U : Joined(Append(list, piece)) = Joined(list) \o Letters(piece)
  BY <1>2, <1>4, <1>5, <1>7
<1>10. \A a, b \in Seq(U) : Joined(a \o b) = Joined(a) \o Joined(b)
  BY <1>3, <1>4, <1>7
<1>11. QED
  BY <1>6, <1>8, <1>9, <1>10, Zenon DEF U

(* A text without a letter reads as nothing.                               *)
LEMMA NoLetters ==
  ASSUME NEW V, NEW text \in Seq(V), \A i \in 1 .. Len(text) : ~Letter(text[i])
  PROVE  Letters(text) = <<>>
<1> DEFINE S == {t \in Seq(V) : (\A i \in 1 .. Len(t) : ~Letter(t[i])) => Letters(t) = <<>>}
<1>1. <<>> \in S
  BY LettersSteps, ShortLists
<1>2. ASSUME NEW t \in Seq(V), NEW ch \in V, t \in S PROVE Append(t, ch) \in S
  <2> DEFINE more == Append(t, ch)
  <2>1. /\ more \in Seq(V) /\ Len(more) = Len(t) + 1 /\ Len(t) \in Nat /\ more[Len(t) + 1] = ch
        /\ \A i \in 1 .. Len(t) : more[i] = t[i]
    BY AppendProperties
  <2>2. Letters(more) = Letters(t) \o Read(ch)
    BY LettersSteps
  <2> HIDE DEF more
  <2>3. ASSUME \A i \in 1 .. Len(more) : ~Letter(more[i]) PROVE Letters(more) = <<>>
    <3>1. ~Letter(ch) /\ \A i \in 1 .. Len(t) : ~Letter(t[i])
      BY <2>1, <2>3
    <3>2. Read(ch) = <<>> /\ Letters(t) = <<>>
      BY <1>2, <3>1 DEF Read
    <3>3. QED
      BY <2>2, <3>2, EmptySeq, ConcatEmptySeq
  <2>4. QED
    BY <2>1, <2>3 DEF more
<1>3. Seq(V) \subseteq S
  <2> HIDE DEF S
  <2> QED BY <1>1, <1>2, TextInduction
<1>4. QED
  BY <1>3

(* Trim takes no letter away.                                              *)
LEMMA TrimKeepsLetters ==
  ASSUME NEW V, NEW text \in Seq(V)
  PROVE  Letters(Trim(text)) = Letters(text)
<1>1. Len(text) \in Nat /\ \A i \in 1 .. Len(text) : text[i] \in V
  OBVIOUS
<1>2. CASE Solid(text) = {}
  <2>1. Trim(text) = <<>>
    BY <1>2, TrimIsTheMiddle
  <2>2. \A i \in 1 .. Len(text) : ~Letter(text[i])
    BY <1>2 DEF Solid, Letter
  <2>3. QED
    BY <2>1, <2>2, NoLetters, LettersSteps
<1>3. CASE Solid(text) # {}
  <2>1. PICK a, b \in Solid(text) : /\ a <= b /\ Trim(text) = SubSeq(text, a, b)
                                    /\ \A i \in Solid(text) : a <= i /\ i <= b
    BY <1>3, TrimIsTheMiddle
  <2>2. a \in 1 .. Len(text) /\ b \in 1 .. Len(text)
    BY DEF Solid
  <2> DEFINE front == SubSeq(text, 1, a - 1)
             middle == SubSeq(text, a, b)
             back == SubSeq(text, b + 1, Len(text))
  <2>3. /\ front \in Seq(V) /\ middle \in Seq(V) /\ back \in Seq(V)
        /\ Len(front) = a - 1 /\ \A i \in 1 .. Len(front) : front[i] = text[i]
        /\ Len(back) = Len(text) - b /\ \A i \in 1 .. Len(back) : back[i] = text[b + i]
    <3>1. front \in Seq(V) /\ Len(front) = a - 1 /\ \A i \in 1 .. Len(front) : front[i] = text[i]
      BY <1>1, <2>2
    <3>2. middle \in Seq(V)
      BY <1>1, <2>2
    <3>3. back \in Seq(V) /\ Len(back) = Len(text) - b /\ \A i \in 1 .. Len(back) : back[i] = text[b + i]
      BY <1>1, <2>2
    <3>4. QED
      BY <3>1, <3>2, <3>3
  <2>4. text = (front \o middle) \o back
    <3>1. /\ 1 \in 1 .. Len(text) + 1 /\ a - 1 \in 1 - 1 .. Len(text) /\ b \in a - 1 .. Len(text)
          /\ Len(text) \in b .. Len(text) /\ b \in 1 - 1 .. Len(text) /\ (a - 1) + 1 = a
      BY <1>1, <2>1, <2>2
    <3>2. front \o middle = SubSeq(text, 1, b)
      BY <3>1, ConcatAdjacentSubSeq
    <3>3. SubSeq(text, 1, b) \o back = SubSeq(text, 1, Len(text))
      BY <3>1, ConcatAdjacentSubSeq
    <3>4. QED
      BY <3>2, <3>3, SubSeqFull
  <2> HIDE DEF front, middle, back
  <2>5. ASSUME NEW i \in 1 .. Len(text), i < a \/ b < i PROVE ~Letter(text[i])
    <3>1. i \notin Solid(text)
      BY <2>1, <2>2, <2>5
    <3>2. QED
      BY <3>1 DEF Solid, Letter
  <2>6. Letters(front) = <<>>
    <3>1. \A i \in 1 .. Len(front) : i \in 1 .. Len(text) /\ i < a
      BY <1>1, <2>2, <2>3
    <3>2. QED
      BY <2>3, <2>5, <3>1, NoLetters
  <2>7. Letters(back) = <<>>
    <3>1. \A i \in 1 .. Len(back) : b + i \in 1 .. Len(text) /\ b < b + i
      BY <1>1, <2>2, <2>3
    <3>2. \A i \in 1 .. Len(back) : ~Letter(back[i])
      BY <2>3, <2>5, <3>1
    <3>3. QED
      BY <2>3, <3>2, NoLetters
  <2>8. Letters(text) = (Letters(front) \o Letters(middle)) \o Letters(back)
    <3>1. front \o middle \in Seq(V)
      BY <2>3, ConcatProperties
    <3>2. Letters((front \o middle) \o back) = Letters(front \o middle) \o Letters(back)
      BY <2>3, <3>1, LettersSteps
    <3>3. Letters(front \o middle) = Letters(front) \o Letters(middle)
      BY <2>3, LettersSteps
    <3>4. QED
      BY <2>4, <3>2, <3>3
  <2>9. Letters(middle) \in Seq(V)
    BY <2>3, LettersSteps
  <2>10. QED
    BY <2>1, <2>6, <2>7, <2>8, <2>9, ConcatEmptySeq DEF middle
<1>4. QED
  BY <1>2, <1>3

(* What is offered of a list has its letters.                              *)
LEMMA OfferedKeepsLetters ==
  ASSUME NEW V, NEW list \in Lists(V)
  PROVE  Joined(Offered(list)) = Joined(list)
<1> DEFINE U == Seq(V)
           S == {l \in Lists(V) : Joined(Offered(l)) = Joined(l)}
<1>0. Lists(V) = Seq(U)
  BY DEF Lists
<1>1. <<>> \in S
  BY OfferedSteps, JoinedSteps, ShortLists
<1>2. ASSUME NEW piece \in Seq(V) PROVE Joined(Offer(piece)) = Letters(piece)
  <2> DEFINE option == Trim(piece)
  <2>1. option \in Seq(V) /\ Letters(option) = Letters(piece) /\ Letters(option) \in Seq(V)
    BY TrimIsTheMiddle, TrimKeepsLetters, LettersSteps
  <2> HIDE DEF option
  <2>2. CASE option = <<>>
    <3>1. Offer(piece) = <<>> /\ Letters(option) = <<>>
      BY <2>2, LettersSteps DEF Offer, option
    <3>2. QED
      BY <2>1, <3>1, JoinedSteps
  <2>3. CASE option # <<>>
    <3>1. Offer(piece) = Append(<<>>, option)
      BY <2>3 DEF Offer, option
    <3>2. Joined(Append(<<>>, option)) = Joined(<<>>) \o Letters(option)
      BY <2>1, JoinedSteps, ShortLists
    <3>3. Joined(<<>>) = <<>>
      BY JoinedSteps
    <3>4. QED
      BY <2>1, <3>1, <3>2, <3>3, ConcatEmptySeq
  <2>4. QED
    BY <2>2, <2>3
<1>3. ASSUME NEW l \in Lists(V), NEW piece \in U, l \in S PROVE Append(l, piece) \in S
  <2>1. Append(l, piece) \in Lists(V)
    BY ListAppend
  <2>2. Offered(Append(l, piece)) = Offered(l) \o Offer(piece)
    BY OfferedSteps
  <2>3. Offered(l) \in Lists(V) /\ Offer(piece) \in Lists(V)
    BY OfferedSteps, OfferShape
  <2>4. Joined(Offered(l) \o Offer(piece)) = Joined(Offered(l)) \o Joined(Offer(piece))
    BY <2>3, JoinedSteps
  <2>5. Joined(Append(l, piece)) = Joined(l) \o Letters(piece)
    BY JoinedSteps
  <2>6. QED
    BY <1>2, <1>3, <2>1, <2>2, <2>4, <2>5
<1>4. Lists(V) \subseteq S
  <2> HIDE DEF S, U
  <2> QED BY <1>0, <1>1, <1>3, TextInduction
<1>5. QED
  BY <1>4

(* And the pieces of a text have the letters of the text.                  *)
LEMMA PiecesKeepLetters ==
  ASSUME NEW V, NEW text \in Seq(V)
  PROVE  Joined(Pieces(text)) = Letters(text)
<1> DEFINE S == {t \in Seq(V) : Joined(Pieces(t)) = Letters(t)}
<1>1. <<>> \in S
  <2>1. Pieces(<<>>) = Append(<<>>, <<>>) /\ <<>> \in Lists(V) /\ <<>> \in Seq(V)
    BY PiecesOfNothing, ShortLists
  <2>2. Joined(Append(<<>>, <<>>)) = Joined(<<>>) \o Letters(<<>>)
    BY <2>1, JoinedSteps
  <2>3. Joined(<<>>) = <<>> /\ Letters(<<>>) = <<>>
    BY JoinedSteps, LettersSteps
  <2>4. QED
    BY <2>1, <2>2, <2>3, ConcatEmptySeq
<1>2. ASSUME NEW t \in Seq(V), NEW ch \in V, t \in S PROVE Append(t, ch) \in S
  <2>1. PICK done \in Lists(V), cur \in Seq(V) : Pieces(t) = Append(done, cur)
    BY PiecesType, LastOfList
  <2>2. Pieces(Append(t, ch)) = Split(Append(done, cur), ch)
    BY <2>1, PiecesGrow
  <2>3. /\ Joined(Append(done, cur)) = Letters(t) /\ Letters(t) \in Seq(V)
        /\ Joined(Append(done, cur)) = Joined(done) \o Letters(cur)
        /\ Joined(done) \in Seq(V) /\ Letters(cur) \in Seq(V)
    BY <1>2, <2>1, JoinedSteps, LettersSteps
  <2>4. Letters(Append(t, ch)) = Letters(t) \o Read(ch)
    BY LettersSteps
  <2>5. Append(t, ch) \in Seq(V)
    OBVIOUS
  <2>6. CASE ch = OPTION_SEPARATOR
    <3>1. Split(Append(done, cur), ch) = Append(Append(done, cur), <<>>)
      BY <2>6, SplitShape
    <3>2. Append(done, cur) \in Lists(V) /\ <<>> \in Seq(V)
      BY ListAppend, ShortLists
    <3>3. Joined(Append(Append(done, cur), <<>>)) = Joined(Append(done, cur)) \o Letters(<<>>)
      BY <3>2, JoinedSteps
    <3>4. Letters(<<>>) = <<>> /\ Read(ch) = <<>>
      BY <2>6, LettersSteps DEF Read, Letter
    <3>5. QED
      BY <2>2, <2>3, <2>4, <2>5, <3>1, <3>3, <3>4
  <2>7. CASE ch # OPTION_SEPARATOR
    <3>1. Split(Append(done, cur), ch) = Append(done, Append(cur, ch))
      BY <2>7, SplitShape
    <3>2. Append(cur, ch) \in Seq(V)
      OBVIOUS
    <3>3. Joined(Append(done, Append(cur, ch))) = Joined(done) \o Letters(Append(cur, ch))
      BY <3>2, JoinedSteps
    <3>4. Letters(Append(cur, ch)) = Letters(cur) \o Read(ch)
      BY LettersSteps
    <3>5. Read(ch) \in Seq(V)
      BY DEF Read
    <3>6. Joined(done) \o (Letters(cur) \o Read(ch)) = (Joined(done) \o Letters(cur)) \o Read(ch)
      <4> DEFINE x == Joined(done)
                 y == Letters(cur)
                 z == Read(ch)
      <4>1. x \in Seq(V) /\ y \in Seq(V) /\ z \in Seq(V)
        BY <2>3, <3>5
      <4> HIDE DEF x, y, z
      <4>2. x \o (y \o z) = (x \o y) \o z
        BY <4>1, ConcatAssociative, SMTT(60)
      <4>3. QED
        BY <4>2 DEF x, y, z
    <3>7. QED
      BY <2>2, <2>3, <2>4, <2>5, <3>1, <3>3, <3>4, <3>6
  <2>8. QED
    BY <2>6, <2>7
<1>3. Seq(V) \subseteq S
  <2> HIDE DEF S
  <2> QED BY <1>1, <1>2, TextInduction
<1>4. QED
  BY <1>3
-----------------------------------------------------------------------------
LEMMA SeparatorWithin ==
  ASSUME NEW V, NEW text \in Seq(V), NEW j \in 1 .. Len(text), NEW i \in 1 .. Len(text)
  PROVE  OPTION_SEPARATOR \in ToSet(SubSeq(text, j, i))
           <=> \E m \in j .. i : text[m] = OPTION_SEPARATOR
<1> DEFINE s == SubSeq(text, j, i)
<1>1. /\ Len(s) = IF j <= i THEN i - j + 1 ELSE 0
      /\ DOMAIN s = 1 .. Len(s)
      /\ \A k \in 1 .. Len(s) : s[k] = text[j + k - 1]
  OBVIOUS
<1>2. i \in Nat /\ j \in Nat
  OBVIOUS
<1> HIDE DEF s
<1>3. ASSUME OPTION_SEPARATOR \in ToSet(s) PROVE \E m \in j .. i : text[m] = OPTION_SEPARATOR
  <2>1. PICK k \in 1 .. Len(s) : s[k] = OPTION_SEPARATOR
    BY <1>1, <1>3 DEF ToSet
  <2>2. j + k - 1 \in j .. i /\ text[j + k - 1] = OPTION_SEPARATOR
    BY <1>1, <1>2, <2>1
  <2>3. QED
    BY <2>2
<1>4. ASSUME NEW m \in j .. i, text[m] = OPTION_SEPARATOR PROVE OPTION_SEPARATOR \in ToSet(s)
  <2>1. m - j + 1 \in 1 .. Len(s) /\ j + (m - j + 1) - 1 = m
    BY <1>1, <1>2
  <2>2. m - j + 1 \in DOMAIN s /\ s[m - j + 1] = OPTION_SEPARATOR
    BY <1>1, <1>4, <2>1
  <2>3. QED
    BY <2>2 DEF ToSet
<1>5. QED
  BY <1>3, <1>4 DEF s

(* Begins, with the separator at a place.                                  *)
LEMMA WhereOptionsBegin ==
  ASSUME NEW V, NEW text \in Seq(V), NEW i \in 1 .. Len(text)
  PROVE  Begins(text, i) <=>
           /\ Letter(text[i])
           /\ \A j \in 1 .. i - 1 : Letter(text[j]) => \E m \in j .. i : text[m] = OPTION_SEPARATOR
<1>1. \A j \in 1 .. i - 1 : j \in 1 .. Len(text)
  OBVIOUS
<1>2. \A j \in 1 .. i - 1 : OPTION_SEPARATOR \in ToSet(SubSeq(text, j, i))
                              <=> \E m \in j .. i : text[m] = OPTION_SEPARATOR
  BY <1>1, SeparatorWithin
<1>3. QED
  BY <1>2, Zenon DEF Begins

(* What follows does not change where an option begins.                    *)
LEMMA StillBegins ==
  ASSUME NEW V, NEW text \in Seq(V), NEW ch \in V, NEW i \in 1 .. Len(text)
  PROVE  Begins(Append(text, ch), i) <=> Begins(text, i)
<1> DEFINE more == Append(text, ch)
<1>1. /\ more \in Seq(V) /\ Len(more) = Len(text) + 1 /\ Len(text) \in Nat
      /\ \A k \in 1 .. Len(text) : more[k] = text[k]
  BY AppendProperties
<1> HIDE DEF more
<1>2. i \in 1 .. Len(more)
  BY <1>1
<1>3. \A j \in 1 .. i - 1 : more[j] = text[j] /\ \A m \in j .. i : more[m] = text[m]
  <2>1. \A j \in 1 .. i - 1 : j \in 1 .. Len(text) /\ \A m \in j .. i : m \in 1 .. Len(text)
    BY <1>1
  <2>2. QED
    BY <1>1, <2>1
<1>4. more[i] = text[i]
  BY <1>1
<1>5. /\ Begins(more, i) <=>
           /\ Letter(more[i])
           /\ \A j \in 1 .. i - 1 : Letter(more[j]) => \E m \in j .. i : more[m] = OPTION_SEPARATOR
      /\ Begins(text, i) <=>
           /\ Letter(text[i])
           /\ \A j \in 1 .. i - 1 : Letter(text[j]) => \E m \in j .. i : text[m] = OPTION_SEPARATOR
  BY <1>1, <1>2, WhereOptionsBegin
<1>6. QED
  BY <1>3, <1>4, <1>5 DEF more

(* A new character begins one when it is the first letter of its piece.    *)
LEMMA BeginsAtTheEnd ==
  ASSUME NEW V, NEW text \in Seq(V), NEW ch \in V, NEW cur \in Seq(V),
         LiesAt(cur, text, Len(text) - Len(cur))
  PROVE  Begins(Append(text, ch), Len(text) + 1) <=> Letter(ch) /\ Solid(cur) = {}
<1> DEFINE more == Append(text, ch)
           n == Len(text) + 1
           c == Len(text) - Len(cur)
<1>1. /\ more \in Seq(V) /\ Len(more) = n /\ Len(text) \in Nat /\ more[n] = ch
      /\ \A k \in 1 .. Len(text) : more[k] = text[k]
  BY AppendProperties
<1>2. /\ c \in Nat /\ c + Len(cur) = Len(text) /\ Len(cur) \in Nat /\ n \in 1 .. n
      /\ n = Len(text) + 1 /\ DOMAIN cur = 1 .. Len(cur)
  BY <1>1 DEF LiesAt
<1>3. /\ c = 0 \/ text[c] = OPTION_SEPARATOR
      /\ \A j \in 1 .. Len(cur) : cur[j] = text[c + j] /\ cur[j] # OPTION_SEPARATOR
  BY DEF LiesAt
<1> HIDE DEF more, c, n
<1>4. Begins(more, n) <=>
        /\ Letter(ch)
        /\ \A j \in 1 .. n - 1 : Letter(more[j]) => \E m \in j .. n : more[m] = OPTION_SEPARATOR
  BY <1>1, <1>2, WhereOptionsBegin
<1>5. ASSUME Letter(ch), Solid(cur) = {}, NEW j \in 1 .. n - 1, Letter(more[j])
      PROVE  \E m \in j .. n : more[m] = OPTION_SEPARATOR
  <2>1. j \in 1 .. Len(text) /\ more[j] = text[j]
    BY <1>1, <1>2
  <2>2. j <= c
    <3> SUFFICES ASSUME ~(j <= c) PROVE FALSE
      OBVIOUS
    <3>1. j - c \in 1 .. Len(cur) /\ c + (j - c) = j
      BY <1>2, <2>1
    <3>2. cur[j - c] = text[j]
      BY <1>3, <3>1
    <3>3. j - c \in Solid(cur)
      BY <1>2, <1>5, <2>1, <3>1, <3>2 DEF Solid, Letter
    <3>4. QED
      BY <1>5, <3>3
  <2>3. c \in j .. n /\ c \in 1 .. Len(text) /\ c # 0
    BY <1>2, <2>1, <2>2
  <2>4. more[c] = OPTION_SEPARATOR
    BY <1>1, <1>3, <2>3
  <2>5. QED
    BY <2>3, <2>4
<1>6. ASSUME Begins(more, n), NEW p \in Solid(cur) PROVE FALSE
  <2>1. p \in 1 .. Len(cur) /\ cur[p] # Blank
    BY <1>2 DEF Solid
  <2>2. /\ c + p \in 1 .. n - 1 /\ c + p \in 1 .. Len(text)
    BY <1>2, <2>1
  <2>3. more[c + p] = cur[p] /\ cur[p] # OPTION_SEPARATOR
    BY <1>1, <1>3, <2>1, <2>2
  <2>4. Letter(more[c + p])
    BY <2>1, <2>3 DEF Letter
  <2>5. PICK m \in c + p .. n : more[m] = OPTION_SEPARATOR
    BY <1>4, <1>6, <2>2, <2>4
  <2>6. CASE m = n
    BY <1>1, <1>4, <1>6, <2>5, <2>6 DEF Letter
  <2>7. CASE m # n
    <3>1. m - c \in 1 .. Len(cur) /\ c + (m - c) = m /\ m \in 1 .. Len(text)
      BY <1>2, <2>1, <2>7
    <3>2. text[m] # OPTION_SEPARATOR
      BY <1>3, <3>1
    <3>3. QED
      BY <1>1, <2>5, <3>1, <3>2
  <2>8. QED
    BY <2>6, <2>7
<1>7. QED
  BY <1>4, <1>5, <1>6 DEF more, n

LEMMA SolidGrows ==
  ASSUME NEW V, NEW text \in Seq(V), NEW ch \in V
  PROVE  Solid(Append(text, ch)) = {} <=> Solid(text) = {} /\ ch = Blank
<1> DEFINE more == Append(text, ch)
<1>1. /\ more \in Seq(V) /\ Len(more) = Len(text) + 1 /\ Len(text) \in Nat
      /\ more[Len(text) + 1] = ch
      /\ \A k \in 1 .. Len(text) : more[k] = text[k]
  BY AppendProperties
<1> HIDE DEF more
<1>2. DOMAIN more = 1 .. Len(text) + 1 /\ DOMAIN text = 1 .. Len(text)
  BY <1>1, LenProperties
<1>3. ASSUME Solid(more) = {} PROVE Solid(text) = {} /\ ch = Blank
  <2>1. \A k \in 1 .. Len(text) + 1 : more[k] = Blank
    BY <1>2, <1>3 DEF Solid
  <2>2. Len(text) + 1 \in 1 .. Len(text) + 1
        /\ \A k \in 1 .. Len(text) : k \in 1 .. Len(text) + 1
    BY <1>1
  <2>3. ch = Blank /\ \A k \in 1 .. Len(text) : text[k] = Blank
    BY <1>1, <2>1, <2>2
  <2>4. QED
    BY <1>2, <2>3 DEF Solid
<1>4. ASSUME Solid(text) = {}, ch = Blank PROVE Solid(more) = {}
  <2>1. \A k \in 1 .. Len(text) : text[k] = Blank
    BY <1>2, <1>4 DEF Solid
  <2>2. \A k \in 1 .. Len(text) + 1 : k \in 1 .. Len(text) \/ k = Len(text) + 1
    BY <1>1
  <2>3. \A k \in 1 .. Len(text) + 1 : more[k] = Blank
    BY <1>1, <1>4, <2>1, <2>2
  <2>4. QED
    BY <1>2, <2>3 DEF Solid
<1>5. QED
  BY <1>3, <1>4 DEF more

(* As many options are offered as begin in the text.                       *)
Starts(text) == {i \in DOMAIN text : Begins(text, i)}

LEMMA OfferedLength ==
  ASSUME NEW V, NEW list \in Lists(V), NEW piece \in Seq(V)
  PROVE  /\ Len(Offered(list)) \in Nat
         /\ Len(Offered(Append(list, piece)))
              = Len(Offered(list)) + IF Solid(piece) = {} THEN 0 ELSE 1
<1> DEFINE U == Seq(V)
           o == Offered(list)
           p == Offer(piece)
<1>1. o \in Seq(U) /\ p \in Seq(U)
  BY OfferedSteps, OfferShape DEF Lists
<1>2. Offered(Append(list, piece)) = o \o p
  BY OfferedSteps
<1>3. Len(p) = IF Solid(piece) = {} THEN 0 ELSE 1
  BY OfferShape
<1> HIDE DEF U, o, p
<1>4. Len(o \o p) = Len(o) + Len(p) /\ Len(o) \in Nat
  BY <1>1, ConcatProperties
<1>5. QED
  BY <1>2, <1>3, <1>4 DEF o

LEMMA AsManyAsBegin ==
  ASSUME NEW V, NEW text \in Seq(V)
  PROVE  IsFiniteSet(Starts(text)) /\ Cardinality(Starts(text)) = Len(Offered(Pieces(text)))
<1> DEFINE S == {t \in Seq(V) : /\ IsFiniteSet(Starts(t))
                                /\ Cardinality(Starts(t)) = Len(Offered(Pieces(t)))}
<1>0. Solid(<<>>) = {} /\ Starts(<<>>) = {}
  BY DEF Solid, Starts
<1>1. <<>> \in S
  <2>1. Pieces(<<>>) = Append(<<>>, <<>>) /\ <<>> \in Lists(V) /\ <<>> \in Seq(V)
    BY PiecesOfNothing, ShortLists
  <2>2. Len(Offered(Append(<<>>, <<>>))) = Len(Offered(<<>>)) + 0
    BY <1>0, <2>1, OfferedLength
  <2>3. Offered(<<>>) = <<>> /\ Len(<<>>) = 0
    BY OfferedSteps
  <2>4. Len(Offered(Pieces(<<>>))) = 0
    BY <2>1, <2>2, <2>3
  <2>5. IsFiniteSet({}) /\ Cardinality({}) = 0
    BY FS_EmptySet
  <2>6. QED
    BY <1>0, <2>1, <2>4, <2>5
<1>2. ASSUME NEW t \in Seq(V), NEW ch \in V, t \in S PROVE Append(t, ch) \in S
  <2> DEFINE more == Append(t, ch)
             n == Len(t) + 1
  <2>1. /\ more \in Seq(V) /\ Len(more) = n /\ Len(t) \in Nat
        /\ DOMAIN more = 1 .. n /\ DOMAIN t = 1 .. Len(t)
    BY AppendProperties, LenProperties
  <2>2. PICK done \in Lists(V), cur \in Seq(V) : Pieces(t) = Append(done, cur)
    BY PiecesType, LastOfList
  <2>3. Last(Append(done, cur)) = cur
    BY ListAppend
  <2>4. LiesAt(cur, t, Len(t) - Len(cur))
    BY <2>2, <2>3, PiecesLie
  <2>5. /\ Begins(more, n) <=> Letter(ch) /\ Solid(cur) = {}
        /\ \A i \in 1 .. Len(t) : Begins(more, i) <=> Begins(t, i)
    BY <2>4, BeginsAtTheEnd, StillBegins
  <2>6. Pieces(more) = Split(Append(done, cur), ch)
    BY <2>2, PiecesGrow
  <2> HIDE DEF more, n
  <2>7. n = Len(t) + 1 /\ n \notin Starts(t)
    BY <2>1 DEF Starts, n
  <2>8. Starts(more) = IF Letter(ch) /\ Solid(cur) = {} THEN Starts(t) \cup {n} ELSE Starts(t)
    <3>1. \A i : i \in 1 .. n <=> i \in 1 .. Len(t) \/ i = n
      BY <2>1, <2>7
    <3>2. QED
      BY <2>1, <2>5, <3>1 DEF Starts
  <2>9. /\ IsFiniteSet(Starts(t)) /\ Cardinality(Starts(t)) = Len(Offered(Append(done, cur)))
    BY <1>2, <2>2
  <2>10. /\ IsFiniteSet(Starts(more)) /\ Cardinality(Starts(t)) \in Nat
         /\ Cardinality(Starts(more))
              = Cardinality(Starts(t)) + IF Letter(ch) /\ Solid(cur) = {} THEN 1 ELSE 0
    <3>1. Cardinality(Starts(t)) \in Nat
      BY <2>9, FS_CardinalityType
    <3>2. /\ IsFiniteSet(Starts(t) \cup {n})
          /\ Cardinality(Starts(t) \cup {n}) = Cardinality(Starts(t)) + 1
      BY <2>7, <2>9, FS_AddElement
    <3>3. QED
      BY <2>8, <2>9, <3>1, <3>2
  <2>11. Append(done, cur) \in Lists(V) /\ <<>> \in Seq(V) /\ Append(cur, ch) \in Seq(V)
    <3>1. Append(cur, ch) \in Seq(V)
      OBVIOUS
    <3>2. QED
      BY <3>1, ListAppend, ShortLists
  <2>12. Len(Offered(done)) \in Nat
         /\ Len(Offered(Append(done, cur)))
              = Len(Offered(done)) + IF Solid(cur) = {} THEN 0 ELSE 1
    BY OfferedLength
  <2>13. Len(Offered(Pieces(more)))
           = Len(Offered(Append(done, cur))) + IF Letter(ch) /\ Solid(cur) = {} THEN 1 ELSE 0
    <3>1. CASE ch = OPTION_SEPARATOR
      <4>1. Pieces(more) = Append(Append(done, cur), <<>>)
        BY <2>6, <3>1, SplitShape
      <4>2. Len(Offered(Append(Append(done, cur), <<>>))) = Len(Offered(Append(done, cur))) + 0
        BY <1>0, <2>11, OfferedLength
      <4>3. ~Letter(ch)
        BY <3>1 DEF Letter
      <4>4. QED
        BY <4>1, <4>2, <4>3
    <3>2. CASE ch # OPTION_SEPARATOR
      <4>1. Pieces(more) = Append(done, Append(cur, ch))
        BY <2>6, <3>2, SplitShape
      <4>2. Len(Offered(Append(done, Append(cur, ch))))
              = Len(Offered(done)) + IF Solid(Append(cur, ch)) = {} THEN 0 ELSE 1
        BY <2>11, OfferedLength
      <4>3. Letter(ch) <=> ch # Blank
        BY <3>2 DEF Letter
      <4>4. Solid(Append(cur, ch)) = {} <=> Solid(cur) = {} /\ ch = Blank
        BY SolidGrows
      <4> DEFINE kept == Len(Offered(done))
                 was == Len(Offered(Append(done, cur)))
                 is == Len(Offered(Append(done, Append(cur, ch))))
      <4>5. kept \in Nat
        BY <2>12
      <4>6. CASE Solid(cur) = {} /\ ch # Blank
        <5>1. was = kept + 0 /\ is = kept + 1 /\ (Letter(ch) /\ Solid(cur) = {})
          BY <2>12, <4>2, <4>3, <4>4, <4>6
        <5> HIDE DEF kept, was, is
        <5>2. is = was + 1
          BY <4>5, <5>1
        <5>3. QED
          BY <4>1, <5>1, <5>2 DEF was, is
      <4>7. CASE ~(Solid(cur) = {} /\ ch # Blank)
        <5>1. was = is /\ ~(Letter(ch) /\ Solid(cur) = {})
          BY <2>12, <4>2, <4>3, <4>4, <4>7
        <5>2. was \in Nat
          BY <2>12
        <5> HIDE DEF kept, was, is
        <5>3. is = was + 0
          BY <5>1, <5>2
        <5>4. QED
          BY <4>1, <5>1, <5>3 DEF was, is
      <4>8. QED
        BY <4>6, <4>7
    <3>3. QED
      BY <3>1, <3>2
  <2>14. Cardinality(Starts(more)) = Len(Offered(Pieces(more)))
    BY <2>9, <2>10, <2>13
  <2>15. QED
    BY <2>1, <2>10, <2>14 DEF more
<1>3. Seq(V) \subseteq S
  <2> HIDE DEF S
  <2> QED BY <1>1, <1>2, TextInduction
<1>4. QED
  BY <1>3

-----------------------------------------------------------------------------
(* An option reaches at least as far as letters go on without a separator. *)
LEMMA ExtentIsAtLeast ==
  ASSUME NEW V, NEW text \in Seq(V), NEW i \in 1 .. Len(text), NEW last \in i .. Len(text),
         Letter(text[last]), \A x \in i .. last : text[x] # OPTION_SEPARATOR
  PROVE  Extent(text, i) \in Nat /\ Extent(text, i) >= last - i + 1
<1> DEFINE S == {j - i + 1 : j \in {k \in i .. Len(text) :
                  Letter(text[k]) /\ OPTION_SEPARATOR \notin ToSet(SubSeq(text, i, k))}}
<1>1. Len(text) \in Nat /\ i \in Nat /\ last \in 1 .. Len(text)
  OBVIOUS
<1>2. OPTION_SEPARATOR \notin ToSet(SubSeq(text, i, last))
  BY <1>1, SeparatorWithin
<1>3. last - i + 1 \in S
  BY <1>2
<1>4. S \subseteq 1 .. Len(text)
  <2>1. \A j \in i .. Len(text) : j - i + 1 \in 1 .. Len(text)
    BY <1>1
  <2>2. QED
    BY <2>1
<1>5. Extent(text, i) = Max(S)
  BY DEF Extent
<1> HIDE DEF S
<1>6. Max(S) \in S /\ \A k \in S : k <= Max(S)
  BY <1>1, <1>3, <1>4, FirstAndLast
<1>7. last - i + 1 <= Max(S) /\ Max(S) \in 1 .. Len(text)
  BY <1>3, <1>4, <1>6
<1>8. last - i + 1 \in Nat
  BY <1>1
<1>9. \A m \in 1 .. Len(text) : last - i + 1 <= m => m \in Nat /\ m >= last - i + 1
  BY <1>1, <1>8
<1>10. QED
  BY <1>5, <1>7, <1>9

(* What is left of a piece that is not blank: it begins and ends with a    *)
(* letter, has no separator, and is no longer than what was typed there.   *)
LEMMA OptionOfPiece ==
  ASSUME NEW V, NEW text \in Seq(V), NEW piece \in Seq(V), NEW a,
         LiesAt(piece, text, a), Solid(piece) # {}
  PROVE  /\ Len(Trim(piece)) \in Nat /\ Len(Trim(piece)) >= 1
         /\ OPTION_SEPARATOR \notin ToSet(Trim(piece))
         /\ Letter(Head(Trim(piece))) /\ Letter(Last(Trim(piece)))
         /\ \E i \in Starts(text) : Extent(text, i) \in Nat /\ Extent(text, i) >= Len(Trim(piece))
<1>1. PICK f, l \in Solid(piece) : /\ f <= l /\ Trim(piece) = SubSeq(piece, f, l)
                                   /\ \A k \in Solid(piece) : f <= k /\ k <= l
  BY TrimIsTheMiddle
<1>2. /\ DOMAIN piece = 1 .. Len(piece) /\ Len(piece) \in Nat /\ Len(text) \in Nat
      /\ DOMAIN text = 1 .. Len(text)
  BY LenProperties
<1>3. f \in 1 .. Len(piece) /\ l \in 1 .. Len(piece) /\ piece[f] # Blank /\ piece[l] # Blank
  BY <1>2 DEF Solid
<1>4. /\ a \in Nat /\ a + Len(piece) <= Len(text)
      /\ a = 0 \/ text[a] = OPTION_SEPARATOR
      /\ \A j \in 1 .. Len(piece) : piece[j] = text[a + j] /\ piece[j] # OPTION_SEPARATOR
  BY DEF LiesAt
<1> DEFINE option == SubSeq(piece, f, l)
           i == a + f
<1>5. /\ option \in Seq(V) /\ Len(option) = l - f + 1
      /\ \A k \in 1 .. Len(option) : option[k] = piece[f + k - 1]
  BY <1>1, <1>2, <1>3
<1>6. Letter(piece[f]) /\ Letter(piece[l])
  BY <1>3, <1>4 DEF Letter
<1>7. Len(option) \in Nat /\ Len(option) >= 1 /\ f + Len(option) - 1 = l
  BY <1>1, <1>3, <1>5
<1>8. OPTION_SEPARATOR \notin ToSet(option)
  <2>1. \A m \in f .. l : m \in 1 .. Len(piece)
    BY <1>1, <1>2, <1>3
  <2>2. QED
    BY <1>3, <1>4, <2>1, SeparatorWithin
<1>9. Letter(Head(option)) /\ Letter(Last(option))
  <2> HIDE DEF option
  <2>1. option[1] = piece[f] /\ option[Len(option)] = piece[l]
    BY <1>3, <1>5, <1>7
  <2>2. Head(option) = option[1] /\ Last(option) = option[Len(option)]
    BY <1>5, <1>7 DEF Last
  <2>3. QED
    BY <1>6, <2>1, <2>2
<1>10. /\ i \in 1 .. Len(text) /\ a + l \in i .. Len(text) /\ i = a + f
       /\ (a + l) - i + 1 = Len(option)
  BY <1>1, <1>2, <1>3, <1>4, <1>5
<1> HIDE DEF option, i
<1>0. f \in Nat /\ i \in Nat /\ f >= 1 /\ f <= Len(piece) /\ i = a + f
  BY <1>2, <1>3, <1>10
<1>11. Begins(text, i)
  <2>1. Letter(text[i])
    BY <1>3, <1>4, <1>6, <1>10
  <2>2. ASSUME NEW j \in 1 .. i - 1, Letter(text[j])
        PROVE  \E m \in j .. i : text[m] = OPTION_SEPARATOR
    <3>1. j <= a
      <4> SUFFICES ASSUME ~(j <= a) PROVE FALSE
        OBVIOUS
      <4>1. j - a \in 1 .. Len(piece) /\ a + (j - a) = j /\ ~(f <= j - a)
        BY <1>0, <1>2, <1>4
      <4>2. piece[j - a] = text[j]
        BY <1>4, <4>1
      <4>3. j - a \in Solid(piece)
        BY <1>2, <2>2, <4>1, <4>2 DEF Solid, Letter
      <4>4. QED
        BY <1>1, <4>1, <4>3
    <3>2. a \in j .. i /\ a # 0
      BY <1>0, <1>4, <3>1
    <3>3. QED
      BY <1>4, <3>2
  <2>3. QED
    BY <1>10, <2>1, <2>2, WhereOptionsBegin
<1>12. Extent(text, i) \in Nat /\ Extent(text, i) >= Len(option)
  <2>1. Letter(text[a + l])
    BY <1>3, <1>4, <1>6
  <2>2. ASSUME NEW x \in i .. a + l PROVE text[x] # OPTION_SEPARATOR
    <3>1. x - a \in 1 .. Len(piece) /\ a + (x - a) = x
      BY <1>2, <1>3, <1>4, <1>10
    <3>2. QED
      BY <1>4, <3>1
  <2>3. QED
    BY <1>10, <2>1, <2>2, ExtentIsAtLeast
<1>13. i \in Starts(text)
  BY <1>2, <1>10, <1>11 DEF Starts
<1>14. QED
  BY <1>1, <1>7, <1>8, <1>9, <1>12, <1>13 DEF option

(* The options of a text.                                                  *)
LEMMA OptionsKept ==
  ASSUME NEW V, NEW text \in Seq(V)
  PROVE  /\ Kept(text) \in Lists(V)
         /\ Len(Kept(text)) = Cardinality(Starts(text)) /\ Len(Kept(text)) \in Nat
         /\ Joined(Kept(text)) = Letters(text)
         /\ \A k \in 1 .. Len(Kept(text)) :
              /\ Len(Kept(text)[k]) \in Nat /\ Len(Kept(text)[k]) >= 1
              /\ OPTION_SEPARATOR \notin ToSet(Kept(text)[k])
              /\ Letter(Head(Kept(text)[k])) /\ Letter(Last(Kept(text)[k]))
              /\ \E i \in Starts(text) :
                   Extent(text, i) \in Nat /\ Extent(text, i) >= Len(Kept(text)[k])
<1> DEFINE list == Pieces(text)
           options == Offered(list)
<1>1. Kept(text) = options
  BY KeptIsOffered
<1>2. list \in Lists(V) /\ list # <<>>
  BY PiecesType
<1>3. options \in Lists(V)
  BY <1>2, OfferedSteps
<1>4. Len(options) = Cardinality(Starts(text)) /\ Len(options) \in Nat
  <2>1. Len(options) = Cardinality(Starts(text)) /\ IsFiniteSet(Starts(text))
    BY AsManyAsBegin
  <2>2. QED
    BY <2>1, FS_CardinalityType
<1>5. Joined(options) = Letters(text)
  BY <1>2, OfferedKeepsLetters, PiecesKeepLetters
<1>6. ASSUME NEW k \in 1 .. Len(options)
      PROVE  /\ Len(options[k]) \in Nat /\ Len(options[k]) >= 1
             /\ OPTION_SEPARATOR \notin ToSet(options[k])
             /\ Letter(Head(options[k])) /\ Letter(Last(options[k]))
             /\ \E i \in Starts(text) : Extent(text, i) \in Nat /\ Extent(text, i) >= Len(options[k])
  <2>1. PICK m \in 1 .. Len(list) : options[k] = Trim(list[m]) /\ Solid(list[m]) # {}
    BY <1>2, OfferedMembers
  <2>2. PICK a : LiesAt(list[m], text, a)
    BY PiecesLie
  <2>3. list[m] \in Seq(V)
    <3>1. list \in Seq(Seq(V))
      BY <1>2 DEF Lists
    <3>2. QED
      BY <3>1, ElementOfSeq
  <2> DEFINE piece == list[m]
  <2>4. piece \in Seq(V) /\ LiesAt(piece, text, a) /\ Solid(piece) # {} /\ options[k] = Trim(piece)
    BY <2>1, <2>2, <2>3
  <2> HIDE DEF piece, options, list
  <2>5. QED
    BY <2>4, OptionOfPiece, Zenon
<1>7. QED
  <2> HIDE DEF options
  <2> QED BY <1>1, <1>3, <1>4, <1>5, <1>6, Zenon
=============================================================================
