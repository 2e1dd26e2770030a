----------------------------- MODULE RelayProofs -----------------------------
(***************************************************************************)
(* What the two functions make of a relayed message that it goes through:  *)
(* the loop that strips its author's name, and the sanitizer of its        *)
(* content.                                                                *)
(***************************************************************************)
EXTENDS RelayText, WebhookUsername, TextProofs

(* rest is what is left of text when characters are taken out of it.       *)
Picks(from, text, rest) ==
  \A j, k \in 1 .. Len(rest) : rest[k] = text[from[k]] /\ (j < k => from[j] < from[k])
Remains(text, rest) ==
  \E from \in [1 .. Len(rest) -> 1 .. Len(text)] : Picks(from, text, rest)

LEMMA RemainsOfRemains ==
  ASSUME NEW a \in Seq(Chars), NEW b \in Seq(Chars), NEW c \in Seq(Chars),
         Remains(a, b), Remains(b, c)
  PROVE  Remains(a, c)
<1>1. PICK f \in [1 .. Len(b) -> 1 .. Len(a)] : Picks(f, a, b)
  BY DEF Remains
<1>2. PICK g \in [1 .. Len(c) -> 1 .. Len(b)] : Picks(g, b, c)
  BY DEF Remains
<1> DEFINE h == [k \in 1 .. Len(c) |-> f[g[k]]]
<1>3. h \in [1 .. Len(c) -> 1 .. Len(a)]
  OBVIOUS
<1>4. ASSUME NEW j \in 1 .. Len(c), NEW k \in 1 .. Len(c)
      PROVE  c[k] = a[h[k]] /\ (j < k => h[j] < h[k])
  BY <1>1, <1>2 DEF Picks
<1>5. Picks(h, a, c)
  <2> HIDE DEF h
  <2> QED BY <1>4 DEF Picks
<1>6. QED
  <2> HIDE DEF h
  <2> QED BY <1>3, <1>5 DEF Remains

LEMMA RemainsWhole ==
  ASSUME NEW a \in Seq(Chars)
  PROVE  Remains(a, a)
<1> DEFINE h == [k \in 1 .. Len(a) |-> k]
<1>1. h \in [1 .. Len(a) -> 1 .. Len(a)] /\ Picks(h, a, a)
  BY DEF Picks
<1>2. QED
  BY <1>1 DEF Remains

LEMMA RemainsMiddle ==
  ASSUME NEW a \in Seq(Chars), NEW m \in 1 .. Len(a) + 1, NEW n \in 0 .. Len(a)
  PROVE  Remains(a, SubSeq(a, m, n))
<1> DEFINE b == SubSeq(a, m, n)
           h == [k \in 1 .. Len(b) |-> m + k - 1]
<1>1. /\ Len(b) = IF m <= n THEN n - m + 1 ELSE 0
      /\ \A k \in 1 .. Len(b) : b[k] = a[m + k - 1]
  OBVIOUS
<1>2. \A k \in 1 .. Len(b) : m + k - 1 \in 1 .. Len(a)
  BY <1>1
<1>3. h \in [1 .. Len(b) -> 1 .. Len(a)]
  BY <1>2
<1>4. Picks(h, a, b)
  <2> HIDE DEF b
  <2> QED BY <1>1 DEF Picks
<1>5. QED
  <2> HIDE DEF b, h
  <2>1. Remains(a, b)
    BY <1>3, <1>4 DEF Remains
  <2>2. QED
    BY <2>1 DEF b

-----------------------------------------------------------------------------
(* One scan of strip_ci.  rest[i] is at most what the text has from i on,  *)
(* in its order; it is all of that when the word does not occur there, and *)
(* less when it does.                                                      *)
LEMMA StripScan ==
  ASSUME NEW h \in Seq(Chars), NEW word \in Seq(Chars) \ {<<>>}
  PROVE  /\ strip_ci(h, word) \in Seq(Chars)
         /\ Len(strip_ci(h, word)) <= Len(h)
         /\ Remains(h, strip_ci(h, word))
         /\ (\A i \in 1 .. Len(h) : ~Matches(h, i, word)) => strip_ci(h, word) = h
         /\ (\E i \in 1 .. Len(h) : Matches(h, i, word)) => Len(strip_ci(h, word)) < Len(h)
<1> DEFINE Step(r, i) ==
             CASE i > Len(h)            -> <<>>
               [] Matches(h, i, word)   -> r[i + Len(word)]
               [] OTHER                 -> <<h[i]>> \o r[i + 1]
           rest[i \in Nat] ==
             CASE i > Len(h)            -> <<>>
               [] Matches(h, i, word)   -> rest[i + Len(word)]
               [] OTHER                 -> <<h[i]>> \o rest[i + 1]
           W == Seq(Chars \cup {h[0]})
           M == [i \in Nat |-> IF i > Len(h) THEN 0 ELSE Len(h) + 1 - i]
           F == [r \in [Nat -> W] |-> [i \in Nat |-> Step(r, i)]]
<1>1. Len(h) \in Nat /\ Len(word) \in Nat \ {0} /\ \A i \in 1 .. Len(h) : h[i] \in Chars
  OBVIOUS
<1>2. \A i \in Nat : Matches(h, i, word) => i + Len(word) <= Len(h) + 1 /\ i <= Len(h)
  BY <1>1 DEF Matches
<1>3. ASSUME NEW r, NEW i \in Nat
      PROVE  /\ i > Len(h) => Step(r, i) = <<>>
             /\ Matches(h, i, word) => Step(r, i) = r[i + Len(word)]
             /\ i <= Len(h) /\ ~Matches(h, i, word) => Step(r, i) = <<h[i]>> \o r[i + 1]
  BY <1>1, <1>2
<1>4. rest = [i \in Nat |-> Step(rest, i)]
  <2>1. <<>> \in W /\ \A i \in Nat, tail \in W : i <= Len(h) => <<h[i]>> \o tail \in W
    <3>1. <<>> \in W
      OBVIOUS
    <3>2. ASSUME NEW i \in Nat, NEW tail \in W, i <= Len(h) PROVE <<h[i]>> \o tail \in W
      <4>1. CASE i = 0
        <5>1. <<h[i]>> \in W
          BY <4>1
        <5>2. QED
          BY <5>1, ConcatProperties
      <4>2. CASE i # 0
        <5>1. h[i] \in Chars
          BY <1>1, <3>2, <4>2
        <5>2. <<h[i]>> \in W
          BY <5>1
        <5>3. QED
          BY <5>2, ConcatProperties
      <4>3. QED
        BY <4>1, <4>2
    <3>3. QED
      BY <3>1, <3>2
  <2>2. M \in [Nat -> Nat] /\ \A i, e \in Nat : i <= Len(h) /\ e > i => M[e] < M[i]
    BY <1>1
  <2> HIDE DEF W, M
  <2>3. ASSUME NEW r \in [Nat -> W], NEW i \in Nat PROVE Step(r, i) \in W
    <3>1. i + 1 \in Nat /\ i + Len(word) \in Nat /\ (i > Len(h) \/ i <= Len(h))
      BY <1>1
    <3>2. r[i + 1] \in W /\ r[i + Len(word)] \in W
      BY <3>1
    <3> HIDE DEF Step
    <3>3. QED
      BY <1>3, <2>1, <3>1, <3>2
  <2>4. F \in [[Nat -> W] -> [Nat -> W]]
    <3> HIDE DEF Step
    <3> QED BY <2>3
  <2>5. ASSUME NEW f \in [Nat -> W], NEW g \in [Nat -> W], NEW i \in Nat,
               \A e \in Nat : M[e] < M[i] => f[e] = g[e]
        PROVE  F[f][i] = F[g][i]
    <3>1. F[f][i] = Step(f, i) /\ F[g][i] = Step(g, i)
      <4> HIDE DEF Step
      <4> QED OBVIOUS
    <3>2. i <= Len(h) => f[i + 1] = g[i + 1] /\ f[i + Len(word)] = g[i + Len(word)]
      <4>1. /\ i + 1 \in Nat /\ i + Len(word) \in Nat
            /\ i + 1 > i /\ i + Len(word) > i
        BY <1>1
      <4>2. QED
        BY <2>2, <2>5, <4>1
    <3>3. i > Len(h) \/ i <= Len(h)
      BY <1>1
    <3> HIDE DEF Step, F
    <3>4. Step(f, i) = Step(g, i)
      BY <1>2, <1>3, <3>2, <3>3
    <3>5. QED
      BY <3>1, <3>4
  <2>6. [i \in Nat |-> <<>>] \in [Nat -> W]
    BY <2>1
  <2>7. PICK r \in [Nat -> W] : F[r] = r
    <3> DEFINE D == Nat
    <3> HIDE DEF F, D, rest
    <3>1. Recurs(F, M, D, W)
      BY <2>2, <2>4, <2>5, <2>6 DEF Recurs, D
    <3>2. \E r \in [D -> W] : F[r] = r
      BY <3>1, Recursion
    <3>3. QED
      BY <3>2 DEF D
  <2>8. r = [i \in Nat |-> Step(r, i)]
    BY <2>7
  <2>9. QED
    BY <2>8, Zenon
<1> HIDE DEF rest, Step
<1>5. ASSUME NEW i \in Nat
      PROVE  /\ i > Len(h) => rest[i] = <<>>
             /\ Matches(h, i, word) => rest[i] = rest[i + Len(word)]
             /\ i <= Len(h) /\ ~Matches(h, i, word) => rest[i] = <<h[i]>> \o rest[i + 1]
  <2>1. rest[i] = Step(rest, i)
    BY <1>4
  <2>2. QED
    BY <1>3, <2>1
<1> DEFINE Good(i) ==
             /\ rest[i] \in Seq(Chars)
             /\ Len(rest[i]) <= Len(h) + 1 - i
             /\ (\A j \in i .. Len(h) : ~Matches(h, j, word)) => rest[i] = SubSeq(h, i, Len(h))
             /\ (\E j \in i .. Len(h) : Matches(h, j, word)) => Len(rest[i]) < Len(h) + 1 - i
             /\ \E from \in [1 .. Len(rest[i]) -> i .. Len(h)] : Picks(from, h, rest[i])
<1>6. ASSUME NEW i \in 1 .. Len(h) + 1, \A j \in 1 .. Len(h) + 1 : j > i => Good(j)
      PROVE  Good(i)
  <2>1. CASE i = Len(h) + 1
    <3>1. i \in Nat /\ i > Len(h) /\ Len(h) + 1 - i = 0 /\ i .. Len(h) = {}
      BY <1>1, <2>1
    <3>2. rest[i] = <<>>
      BY <1>5, <3>1
    <3>3. rest[i] \in Seq(Chars) /\ Len(rest[i]) = 0 /\ 1 .. Len(rest[i]) = {}
      BY <3>2
    <3>4. SubSeq(h, i, Len(h)) = <<>>
      BY <1>1, <2>1
    <3>5. \E from \in [{} -> i .. Len(h)] : Picks(from, h, rest[i])
      <4>1. [k \in {} |-> k] \in [{} -> i .. Len(h)]
        OBVIOUS
      <4>2. Picks([k \in {} |-> k], h, rest[i])
        BY <3>3 DEF Picks
      <4>3. QED
        BY <4>1, <4>2
    <3>6. \E from \in [1 .. Len(rest[i]) -> i .. Len(h)] : Picks(from, h, rest[i])
      BY <3>3, <3>5
    <3>7. rest[i] = SubSeq(h, i, Len(h)) /\ Len(rest[i]) <= Len(h) + 1 - i
      BY <3>1, <3>2, <3>3, <3>4
    <3>8. ~\E j \in i .. Len(h) : Matches(h, j, word)
      BY <3>1
    <3>9. QED
      BY <3>3, <3>6, <3>7, <3>8
  <2>2. CASE i <= Len(h) /\ Matches(h, i, word)
    <3> DEFINE n == i + Len(word)
    <3>1. n \in 1 .. Len(h) + 1 /\ n > i /\ i \in Nat
      BY <1>1, <1>2, <2>2
    <3>2. Good(n)
      BY <1>6, <3>1
    <3>3. rest[i] = rest[n]
      BY <1>5, <2>2, <3>1
    <3>4. PICK from \in [1 .. Len(rest[n]) -> n .. Len(h)] : Picks(from, h, rest[n])
      BY <3>2
    <3>5. from \in [1 .. Len(rest[n]) -> i .. Len(h)]
      BY <3>1, <3>4
    <3>6. Len(rest[i]) < Len(h) + 1 - i
      BY <1>1, <3>1, <3>2, <3>3
    <3>7. i \in i .. Len(h)
      BY <2>2, <3>1
    <3> HIDE DEF n
    <3>8. rest[i] \in Seq(Chars)
      BY <3>2, <3>3
    <3>9. Len(rest[i]) \in Nat
      BY <3>8
    <3>10. QED
      BY <1>1, <2>2, <3>1, <3>3, <3>4, <3>5, <3>6, <3>7, <3>8, <3>9
  <2>3. CASE i <= Len(h) /\ ~Matches(h, i, word)
    <3>1. i + 1 \in 1 .. Len(h) + 1 /\ i + 1 > i /\ i \in Nat /\ i \in 1 .. Len(h)
      BY <1>1, <2>3
    <3>2. Good(i + 1)
      BY <1>6, <3>1
    <3>3. rest[i] = <<h[i]>> \o rest[i + 1]
      BY <1>5, <2>3, <3>1
    <3> DEFINE tail == rest[i + 1]
    <3>4. tail \in Seq(Chars) /\ Len(tail) \in Nat /\ h[i] \in Chars
      BY <1>1, <3>1, <3>2
    <3>5. PICK from \in [1 .. Len(tail) -> i + 1 .. Len(h)] : Picks(from, h, tail)
      BY <3>2
    <3>6. /\ rest[i] \in Seq(Chars) /\ Len(rest[i]) = Len(tail) + 1
          /\ rest[i][1] = h[i]
          /\ \A k \in 2 .. Len(tail) + 1 : rest[i][k] = tail[k - 1]
      <4>1. <<h[i]>> \in Seq(Chars) /\ Len(<<h[i]>>) = 1 /\ <<h[i]>>[1] = h[i]
        BY <3>4
      <4> HIDE DEF tail
      <4>2. /\ <<h[i]>> \o tail \in Seq(Chars) /\ Len(<<h[i]>> \o tail) = Len(tail) + 1
            /\ (<<h[i]>> \o tail)[1] = h[i]
            /\ \A k \in 2 .. Len(tail) + 1 : (<<h[i]>> \o tail)[k] = tail[k - 1]
        BY <3>4, <4>1
      <4>3. QED
        BY <3>3, <4>2 DEF tail
    <3> DEFINE more == [k \in 1 .. Len(tail) + 1 |-> IF k = 1 THEN i ELSE from[k - 1]]
    <3>7. more \in [1 .. Len(rest[i]) -> i .. Len(h)]
      <4> HIDE DEF tail
      <4>1. ASSUME NEW k \in 1 .. Len(tail) + 1, k # 1 PROVE from[k - 1] \in i .. Len(h)
        <5>1. k - 1 \in 1 .. Len(tail)
          BY <3>4, <4>1
        <5>2. QED
          BY <3>1, <3>5, <5>1
      <4>2. QED
        BY <3>1, <3>6, <4>1
    <3>8. Picks(more, h, rest[i])
      <4> HIDE DEF tail
      <4> SUFFICES ASSUME NEW j \in 1 .. Len(tail) + 1, NEW k \in 1 .. Len(tail) + 1
                   PROVE  rest[i][k] = h[more[k]] /\ (j < k => more[j] < more[k])
        BY <3>6 DEF Picks
      <4>1. CASE k = 1
        BY <3>4, <3>6, <4>1
      <4>2. CASE k # 1
        <5>1. k - 1 \in 1 .. Len(tail) /\ k \in 2 .. Len(tail) + 1
          BY <3>4, <4>2
        <5>2. rest[i][k] = h[from[k - 1]] /\ more[k] = from[k - 1] /\ from[k - 1] \in i + 1 .. Len(h)
          BY <3>5, <3>6, <4>2, <5>1 DEF Picks
        <5>3. CASE j = 1
          BY <3>1, <5>2, <5>3
        <5>4. CASE j # 1
          <6>1. j - 1 \in 1 .. Len(tail) /\ more[j] = from[j - 1]
            BY <3>4, <5>4
          <6>2. j < k => j - 1 < k - 1
            BY <3>4
          <6>3. QED
            BY <3>5, <5>1, <5>2, <6>1, <6>2 DEF Picks
        <5>5. QED
          BY <5>3, <5>4
      <4>3. QED
        BY <4>1, <4>2
    <3>9. ASSUME \A j \in i .. Len(h) : ~Matches(h, j, word)
          PROVE  rest[i] = SubSeq(h, i, Len(h))
      <4>1. \A j \in i + 1 .. Len(h) : ~Matches(h, j, word)
        BY <3>1, <3>9
      <4>2. tail = SubSeq(h, i + 1, Len(h))
        BY <3>2, <4>1
      <4>3. Len(h) \in i .. Len(h)
        BY <3>1
      <4>4. SubSeq(h, i, Len(h)) = <<h[i]>> \o SubSeq(h, i + 1, Len(h))
        BY <3>1, <4>3, SubSeqRecursiveFirst
      <4>5. QED
        BY <3>3, <4>2, <4>4
    <3>10. Len(rest[i]) <= Len(h) + 1 - i
      BY <1>1, <3>1, <3>2, <3>4, <3>6
    <3>11. ASSUME NEW j \in i .. Len(h), Matches(h, j, word)
           PROVE  Len(rest[i]) < Len(h) + 1 - i
      <4>1. j # i
        BY <2>3, <3>11
      <4>2. j \in i + 1 .. Len(h)
        BY <3>1, <4>1
      <4>3. Len(tail) < Len(h) + 1 - (i + 1)
        BY <3>2, <3>11, <4>2
      <4> HIDE DEF tail, more
      <4>4. /\ Len(h) \in Nat /\ i \in Nat /\ Len(tail) \in Nat
            /\ Len(rest[i]) = Len(tail) + 1
        BY <1>1, <3>1, <3>4, <3>6
      <4>5. QED
        BY <4>3, <4>4, SMT
    <3>12. QED
      <4> HIDE DEF tail, more
      <4> QED BY <3>6, <3>7, <3>8, <3>9, <3>10, <3>11
  <2>4. QED
    BY <1>1, <2>1, <2>2, <2>3
<1> HIDE DEF Good
<1>7. \A i \in 1 .. Len(h) + 1 : Good(i)
  <2> DEFINE S == {k \in Nat : \A i \in 1 .. Len(h) + 1 : Len(h) + 1 - i = k => Good(i)}
  <2>1. ASSUME NEW k \in Nat, \A m \in Nat : m < k => m \in S PROVE k \in S
    <3> SUFFICES ASSUME NEW i \in 1 .. Len(h) + 1, Len(h) + 1 - i = k PROVE Good(i)
      OBVIOUS
    <3>1. ASSUME NEW j \in 1 .. Len(h) + 1, j > i PROVE Good(j)
      <4>1. Len(h) + 1 - j \in Nat /\ Len(h) + 1 - j < k
        BY <1>1, <3>1
      <4>2. Len(h) + 1 - j \in S
        BY <2>1, <4>1
      <4>3. QED
        BY <4>2
    <3>2. QED
      BY <1>6, <3>1
  <2>2. Nat \subseteq S
    <3> HIDE DEF S
    <3> QED BY <2>1, CourseOfValues
  <2>3. ASSUME NEW i \in 1 .. Len(h) + 1 PROVE Good(i)
    <3>1. Len(h) + 1 - i \in Nat
      BY <1>1
    <3>2. Len(h) + 1 - i \in S
      BY <2>2, <3>1
    <3>3. QED
      BY <3>2
  <2>4. QED
    BY <2>3
<1>8. Good(1)
  BY <1>1, <1>7
<1>9. strip_ci(h, word) = rest[1]
  BY DEF strip_ci, rest
<1>10. SubSeq(h, 1, Len(h)) = h
  BY SubSeqFull
<1>11. QED
  <2>1. Remains(h, rest[1])
    BY <1>8 DEF Good, Remains
  <2>2. QED
    BY <1>1, <1>8, <1>9, <1>10, <2>1 DEF Good

(* One round of both words: it changes a name just when it shortens it,    *)
(* and just when a word occurs in it.                                      *)
LEMMA StripRound ==
  ASSUME NEW name \in Seq(Chars)
  PROVE  /\ StripBoth(name) \in Seq(Chars)
         /\ Remains(name, StripBoth(name))
         /\ IF Forbidden(name) THEN Len(StripBoth(name)) < Len(name) ELSE StripBoth(name) = name
<1> DEFINE first == FORBIDDEN_SUBSTRINGS[1]
           second == FORBIDDEN_SUBSTRINGS[2]
           once == strip_ci(name, first)
           twice == strip_ci(once, second)
<1>1. first \in Seq(Chars) \ {<<>>} /\ second \in Seq(Chars) \ {<<>>}
  BY NameAssumption
<1>2. StripBoth(name) = twice
  BY DEF StripBoth
<1>3. Forbidden(name) <=> \/ \E i \in 1 .. Len(name) : Matches(name, i, first)
                          \/ \E i \in 1 .. Len(name) : Matches(name, i, second)
  <2>1. DOMAIN FORBIDDEN_SUBSTRINGS = 1 .. 2 /\ DOMAIN name = 1 .. Len(name)
    BY NameAssumption, LenProperties
  <2>2. \A k \in 1 .. 2 : k = 1 \/ k = 2
    OBVIOUS
  <2>3. 1 \in 1 .. 2 /\ 2 \in 1 .. 2
    OBVIOUS
  <2>4. QED
    BY <2>1, <2>2, <2>3, Zenon DEF Forbidden
<1> HIDE DEF first, second, once, twice
<1>4. /\ once \in Seq(Chars) /\ Len(once) <= Len(name) /\ Remains(name, once)
      /\ (\A i \in 1 .. Len(name) : ~Matches(name, i, first)) => once = name
      /\ (\E i \in 1 .. Len(name) : Matches(name, i, first)) => Len(once) < Len(name)
  BY <1>1, StripScan DEF once
<1>5. /\ twice \in Seq(Chars) /\ Len(twice) <= Len(once) /\ Remains(once, twice)
      /\ (\A i \in 1 .. Len(once) : ~Matches(once, i, second)) => twice = once
      /\ (\E i \in 1 .. Len(once) : Matches(once, i, second)) => Len(twice) < Len(once)
  BY <1>1, <1>4, StripScan DEF twice
<1>6. Remains(name, twice)
  BY <1>4, <1>5, RemainsOfRemains
<1>7. Len(name) \in Nat /\ Len(once) \in Nat /\ Len(twice) \in Nat
  BY <1>4, <1>5
<1>8. CASE \E i \in 1 .. Len(name) : Matches(name, i, first)
  BY <1>2, <1>3, <1>4, <1>5, <1>6, <1>7, <1>8
<1>9. CASE \A i \in 1 .. Len(name) : ~Matches(name, i, first)
  BY <1>2, <1>3, <1>4, <1>5, <1>6, <1>7, <1>9
<1>10. QED
  BY <1>8, <1>9

(* The loop ends, with no word left; it takes out of the name, and takes   *)
(* nothing out of one without a forbidden word.                            *)
LEMMA SettledName ==
  ASSUME NEW name \in Seq(Chars)
  PROVE  /\ Settled(name) \in Seq(Chars)
         /\ Remains(name, Settled(name))
         /\ ~Forbidden(Settled(name))
         /\ ~Forbidden(name) => Settled(name) = name
<1> DEFINE Names == Seq(Chars)
           Step(r, n) == IF StripBoth(n) = n THEN n ELSE r[StripBoth(n)]
           loop[n \in Seq(Chars)] == IF StripBoth(n) = n THEN n ELSE loop[StripBoth(n)]
           M == [n \in Names |-> Len(n)]
           F == [r \in [Names -> Names] |-> [n \in Names |-> Step(r, n)]]
<1>1. \A n \in Names : /\ Len(n) \in Nat /\ StripBoth(n) \in Names /\ Remains(n, StripBoth(n))
                        /\ IF Forbidden(n) THEN Len(StripBoth(n)) < Len(n) ELSE StripBoth(n) = n
  BY StripRound
<1>2. loop = [n \in Names |-> Step(loop, n)]
  <2>1. F \in [[Names -> Names] -> [Names -> Names]] /\ M \in [Names -> Nat]
    <3> HIDE DEF Names
    <3> QED BY <1>1
  <2>2. ASSUME NEW f \in [Names -> Names], NEW g \in [Names -> Names], NEW n \in Names,
               \A e \in Names : M[e] < M[n] => f[e] = g[e]
        PROVE  F[f][n] = F[g][n]
    <3> HIDE DEF Names
    <3>1. F[f][n] = Step(f, n) /\ F[g][n] = Step(g, n)
      OBVIOUS
    <3>2. CASE StripBoth(n) = n
      BY <3>1, <3>2
    <3>3. CASE StripBoth(n) # n
      <4>1. StripBoth(n) \in Names /\ M[StripBoth(n)] < M[n]
        BY <1>1, <3>3
      <4>2. f[StripBoth(n)] = g[StripBoth(n)]
        BY <2>2, <4>1
      <4>3. QED
        BY <3>1, <3>3, <4>2
    <3>4. QED
      BY <3>2, <3>3
  <2>3. [n \in Names |-> n] \in [Names -> Names]
    OBVIOUS
  <2>4. PICK r \in [Names -> Names] : F[r] = r
    <3> HIDE DEF Names, F, M, loop
    <3>1. Recurs(F, M, Names, Names)
      BY <2>1, <2>2, <2>3 DEF Recurs
    <3>2. QED
      BY <3>1, Recursion
  <2>5. r = [n \in Names |-> Step(r, n)]
    BY <2>4
  <2>6. QED
    BY <2>5, Zenon
<1>3. Settled(name) = loop[name]
  BY DEF Settled, loop
<1> HIDE DEF loop
<1>4. \A n \in Names : loop[n] = Step(loop, n)
  BY <1>2, Zenon
<1> DEFINE Good(n) == /\ loop[n] \in Names /\ Remains(n, loop[n]) /\ ~Forbidden(loop[n])
                      /\ ~Forbidden(n) => loop[n] = n
<1>5. ASSUME NEW n \in Names, \A e \in Names : Len(e) < Len(n) => Good(e)
      PROVE  Good(n)
  <2>1. CASE Forbidden(n)
    <3>1. StripBoth(n) # n /\ StripBoth(n) \in Names /\ Remains(n, StripBoth(n))
          /\ Len(StripBoth(n)) < Len(n)
      BY <1>1, <2>1
    <3>2. loop[n] = loop[StripBoth(n)] /\ Good(StripBoth(n))
      BY <1>4, <1>5, <3>1
    <3>3. Remains(n, loop[n])
      BY <3>1, <3>2, RemainsOfRemains
    <3>4. QED
      BY <2>1, <3>2, <3>3
  <2>2. CASE ~Forbidden(n)
    <3>1. loop[n] = n
      BY <1>1, <1>4, <2>2
    <3>2. QED
      BY <2>2, <3>1, RemainsWhole
  <2>3. QED
    BY <2>1, <2>2
<1> HIDE DEF Good
<1>6. Good(name)
  <2> DEFINE S == {k \in Nat : \A n \in Names : Len(n) = k => Good(n)}
  <2>1. ASSUME NEW k \in Nat, \A m \in Nat : m < k => m \in S PROVE k \in S
    <3> SUFFICES ASSUME NEW n \in Names, Len(n) = k PROVE Good(n)
      OBVIOUS
    <3>1. \A e \in Names : Len(e) < Len(n) => Good(e)
      BY <1>1, <2>1
    <3>2. QED
      BY <1>5, <3>1
  <2>2. Nat \subseteq S
    <3> HIDE DEF S
    <3> QED BY <2>1, CourseOfValues
  <2>3. QED
    BY <1>1, <2>2
<1>7. QED
  BY <1>3, <1>6 DEF Good

(* What is cut out of a name in one piece has no word the name has not.    *)
LEMMA NothingForbiddenInTheMiddle ==
  ASSUME NEW name \in Seq(Chars), ~Forbidden(name),
         NEW m \in 1 .. Len(name), NEW n \in 1 .. Len(name)
  PROVE  ~Forbidden(SubSeq(name, m, n))
<1> DEFINE part == SubSeq(name, m, n)
<1>1. SUFFICES ASSUME Forbidden(part) PROVE FALSE
  OBVIOUS
<1>2. /\ Len(part) = IF m <= n THEN n - m + 1 ELSE 0
      /\ DOMAIN part = 1 .. Len(part) /\ Len(name) \in Nat
  OBVIOUS
<1> HIDE DEF part
<1>3. PICK k \in 1 .. 2, i \in 1 .. Len(part) : Matches(part, i, FORBIDDEN_SUBSTRINGS[k])
  BY <1>1, <1>2, NameAssumption DEF Forbidden
<1> DEFINE word == FORBIDDEN_SUBSTRINGS[k]
           j == i + Len(word) - 1
<1>4. Len(word) \in Nat \ {0}
  BY NameAssumption
<1>5. j <= Len(part) /\ LowerCase(SubSeq(part, i, j)) = word
  BY <1>3 DEF Matches
<1>6. m <= n /\ i \in 1 .. n - m + 1 /\ j \in 1 .. n - m + 1
  <2> HIDE DEF word
  <2> QED BY <1>2, <1>4, <1>5
<1>7. SubSeq(part, i, j) = SubSeq(name, m + i - 1, m + j - 1)
  <2> HIDE DEF j
  <2> QED BY <1>6, SubSeqOfSubSeq DEF part
<1>8. m + j - 1 = (m + i - 1) + Len(word) - 1 /\ m + j - 1 <= Len(name) /\ m + i - 1 \in 1 .. Len(name)
  <2> HIDE DEF word
  <2> QED BY <1>2, <1>4, <1>6
<1>9. Matches(name, m + i - 1, word)
  BY <1>5, <1>7, <1>8 DEF Matches
<1>10. QED
  <2>1. DOMAIN name = 1 .. Len(name) /\ k \in DOMAIN FORBIDDEN_SUBSTRINGS
    BY NameAssumption
  <2>2. QED
    BY <1>8, <1>9, <2>1 DEF Forbidden

LEMMA TrimmedName ==
  ASSUME NEW name \in Seq(Chars)
  PROVE  /\ Trim(name) \in Seq(Chars)
         /\ Remains(name, Trim(name))
         /\ ~Forbidden(name) => ~Forbidden(Trim(name))
         /\ Trim(name) # <<>> => Head(Trim(name)) # Blank
<1>1. CASE Solid(name) = {}
  <2>1. Trim(name) = <<>>
    BY <1>1, TrimIsTheMiddle
  <2>2. ~Forbidden(<<>>)
    BY DEF Forbidden
  <2>3. Len(name) \in Nat /\ SubSeq(name, 1, 0) = <<>>
    OBVIOUS
  <2>4. Remains(name, SubSeq(name, 1, 0))
    BY <2>3, RemainsMiddle
  <2>5. <<>> \in Seq(Chars) /\ Remains(name, <<>>)
    BY <2>3, <2>4, EmptySeq
  <2>6. QED
    BY <2>1, <2>2, <2>5, Zenon
<1>2. CASE Solid(name) # {}
  <2>1. PICK a, b \in Solid(name) : a <= b /\ Trim(name) = SubSeq(name, a, b)
    BY <1>2, TrimIsTheMiddle
  <2>2. a \in 1 .. Len(name) /\ b \in 1 .. Len(name) /\ name[a] # Blank /\ Len(name) \in Nat
    BY DEF Solid
  <2>3. a \in 1 .. Len(name) + 1 /\ b \in 0 .. Len(name)
    BY <2>2
  <2>4. Remains(name, Trim(name))
    BY <2>1, <2>3, RemainsMiddle
  <2>5. ~Forbidden(name) => ~Forbidden(Trim(name))
    BY <2>1, <2>2, NothingForbiddenInTheMiddle
  <2>6. b \in a .. Len(name)
    BY <2>1, <2>2
  <2>7. Head(Trim(name)) = name[a]
    BY <2>1, <2>2, <2>6, HeadTailOfSubSeq
  <2>8. Trim(name) \in Seq(Chars)
    BY TrimIsTheMiddle
  <2>9. QED
    BY <2>2, <2>4, <2>5, <2>7, <2>8
<1>3. QED
  BY <1>1, <1>2

(* The name a message is relayed under: legal, and the author's own but    *)
(* for what is taken out of it.                                            *)
LEMMA DerivedName ==
  ASSUME NEW raw \in Seq(Chars), NEW name, name = derive_webhook_username(raw)
  PROVE  /\ name \in Seq(Chars)
         /\ Len(name) \in 1 .. MAX_LEN /\ Head(name) # Blank
         /\ ~Forbidden(name) /\ LowerCase(name) \notin RESERVED
         /\ name = FALLBACK \/ Remains(Trim(raw), name)
         /\ ~Forbidden(Trim(raw)) =>
              name = IF Trim(raw) = <<>> \/ LowerCase(Trim(raw)) \in RESERVED
                     THEN FALLBACK ELSE Take(Trim(raw), MAX_LEN)
<1> DEFINE own == Trim(raw)
           settled == Settled(own)
           left == Trim(settled)
<1>1. name = IF left = <<>> \/ LowerCase(left) \in RESERVED THEN FALLBACK ELSE Take(left, MAX_LEN)
  BY DEF derive_webhook_username
<1>2. own \in Seq(Chars)
  BY TrimmedName
<1>3. ~Forbidden(own) => left = own
  <2>1. Trim(own) = own
    BY TrimTwice
  <2>2. ~Forbidden(own) => settled = own
    <3> HIDE DEF own
    <3> QED BY <1>2, SettledName
  <2>3. QED
    BY <2>1, <2>2
<1> HIDE DEF own
<1>4. settled \in Seq(Chars) /\ ~Forbidden(settled) /\ Remains(own, settled)
  BY <1>2, SettledName
<1> HIDE DEF settled
<1>5. /\ left \in Seq(Chars) /\ ~Forbidden(left) /\ Remains(settled, left)
      /\ left # <<>> => Head(left) # Blank
  BY <1>4, TrimmedName
<1>6. Remains(own, left)
  BY <1>2, <1>4, <1>5, RemainsOfRemains
<1> HIDE DEF left
<1>7. /\ FALLBACK \in Seq(Chars) /\ Len(FALLBACK) \in 1 .. MAX_LEN /\ MAX_LEN \in Nat
      /\ Head(FALLBACK) # Blank /\ ~Forbidden(FALLBACK) /\ LowerCase(FALLBACK) \notin RESERVED
  BY NameAssumption, FallbackAssumption
<1>8. CASE left = <<>> \/ LowerCase(left) \in RESERVED
  <2>1. name = FALLBACK
    BY <1>1, <1>8
  <2>2. QED
    BY <1>3, <1>7, <1>8, <2>1 DEF own
<1>9. CASE left # <<>> /\ LowerCase(left) \notin RESERVED
  <2>1. name = Take(left, MAX_LEN)
    BY <1>1, <1>9
  <2>2. Len(left) \in Nat \ {0} /\ MAX_LEN \in Nat \ {0}
    BY <1>5, <1>7, <1>9
  <2>3. /\ name \in Seq(Chars) /\ Len(name) = IF Len(left) < MAX_LEN THEN Len(left) ELSE MAX_LEN
        /\ \A i \in 1 .. Len(name) : name[i] = left[i]
        /\ Len(left) <= MAX_LEN => name = left
    BY <1>5, <2>1, <2>2, TakeIsAPrefix
  <2> DEFINE n == IF Len(left) < MAX_LEN THEN Len(left) ELSE MAX_LEN
  <2>4. name = SubSeq(left, 1, n)
    BY <2>1 DEF Take
  <2>5. n \in 1 .. Len(left) /\ n \in 0 .. Len(left) /\ 1 \in 1 .. Len(left) + 1 /\ 1 \in 1 .. Len(left)
    BY <2>2
  <2> HIDE DEF n
  <2>6. ~Forbidden(name)
    BY <1>5, <2>4, <2>5, NothingForbiddenInTheMiddle
  <2>7. Remains(left, name)
    BY <1>5, <2>4, <2>5, RemainsMiddle
  <2>8. Remains(own, name)
    BY <1>2, <1>5, <1>6, <2>3, <2>7, RemainsOfRemains
  <2>9. Len(name) \in 1 .. MAX_LEN
    BY <2>2, <2>3
  <2>10. Head(name) # Blank
    BY <1>5, <1>9, <2>3, <2>9
  <2>11. LowerCase(name) \notin RESERVED
    <3>1. CASE Len(left) <= MAX_LEN
      BY <1>9, <2>3, <3>1
    <3>2. CASE Len(left) > MAX_LEN
      <4>1. Len(name) = MAX_LEN
        BY <2>2, <2>3, <3>2
      <4>2. LowerCase(name) \in Seq(Chars) /\ Len(LowerCase(name)) = Len(name)
        <5>1. name \in [1 .. Len(name) -> Chars] /\ Len(name) \in Nat
          BY <2>3
        <5>2. LowerCase(name) \in [1 .. Len(name) -> Chars]
          BY <5>1, NameAssumption DEF LowerCase
        <5>3. QED
          BY <5>1, <5>2
      <4>3. QED
        BY <2>2, <4>1, <4>2, NameAssumption
    <3>3. QED
      BY <2>2, <3>1, <3>2
  <2>12. QED
    BY <1>3, <1>9, <2>1, <2>3, <2>6, <2>8, <2>9, <2>10, <2>11 DEF own
<1>10. QED
  BY <1>8, <1>9

-----------------------------------------------------------------------------
(* The sanitizer, and what a reader sees, character by character.          *)
Defused(ch) == IF ch = At THEN <<At, ZWSP>> ELSE <<ch>>
Seen(ch) == IF ch = ZWSP THEN <<>> ELSE <<ch>>

LEMMA SanitizeSteps ==
  ASSUME NEW V, {At, ZWSP} \subseteq V
  PROVE  /\ sanitize_content(<<>>) = <<>>
         /\ \A text \in Seq(V) : sanitize_content(text) \in Seq(V)
         /\ \A text \in Seq(V), ch \in V :
              sanitize_content(Append(text, ch)) = sanitize_content(text) \o Defused(ch)
<1> DEFINE e == [ch \in V |-> Defused(ch)]
<1>1. e \in [V -> Seq(V)]
  BY DEF Defused
<1>2. /\ Spread(e, <<>>) = <<>>
      /\ \A text \in Seq(V) : Spread(e, text) \in Seq(V)
      /\ \A text \in Seq(V), ch \in V : Spread(e, Append(text, ch)) = Spread(e, text) \o e[ch]
  <2> HIDE DEF e
  <2> QED BY <1>1, SpreadSteps
<1>3. ASSUME NEW text \in Seq(V) PROVE sanitize_content(text) = Spread(e, text)
  <2>1. \A i \in DOMAIN text : e[text[i]] = Defused(text[i])
    OBVIOUS
  <2>2. [i \in DOMAIN text |-> e[text[i]]] = [i \in DOMAIN text |-> Defused(text[i])]
    <3> HIDE DEF e
    <3> QED BY <2>1
  <2>3. QED
    BY <2>2 DEF Spread, sanitize_content, Defused
<1>4. \A ch \in V : e[ch] = Defused(ch)
  OBVIOUS
<1> HIDE DEF e
<1>5. sanitize_content(<<>>) = <<>>
  BY <1>2, <1>3, EmptySeq
<1>6. ASSUME NEW text \in Seq(V) PROVE sanitize_content(text) \in Seq(V)
  BY <1>2, <1>3
<1>7. ASSUME NEW text \in Seq(V), NEW ch \in V
      PROVE  sanitize_content(Append(text, ch)) = sanitize_content(text) \o Defused(ch)
  <2>1. Append(text, ch) \in Seq(V)
    OBVIOUS
  <2>2. Spread(e, Append(text, ch)) = Spread(e, text) \o Defused(ch)
    BY <1>2, <1>4
  <2>3. QED
    BY <1>3, <2>1, <2>2
<1>8. QED
  BY <1>5, <1>6, <1>7

LEMMA VisibleSteps ==
  ASSUME NEW V
  PROVE  /\ Visible(<<>>) = <<>>
         /\ \A text \in Seq(V) : Visible(text) \in Seq(V)
         /\ \A text \in Seq(V), ch \in V : Visible(Append(text, ch)) = Visible(text) \o Seen(ch)
         /\ \A s, t \in Seq(V) : Visible(s \o t) = Visible(s) \o Visible(t)
<1> DEFINE e == [ch \in V |-> Seen(ch)]
<1>1. e \in [V -> Seq(V)]
  BY DEF Seen
<1>2. /\ Spread(e, <<>>) = <<>>
      /\ \A text \in Seq(V) : Spread(e, text) \in Seq(V)
      /\ \A text \in Seq(V), ch \in V : Spread(e, Append(text, ch)) = Spread(e, text) \o e[ch]
      /\ \A s, t \in Seq(V) : Spread(e, s \o t) = Spread(e, s) \o Spread(e, t)
  <2> HIDE DEF e
  <2>1. \A s, t \in Seq(V) : Spread(e, s \o t) = Spread(e, s) \o Spread(e, t)
    BY <1>1, SpreadConcat
  <2>2. /\ Spread(e, <<>>) = <<>>
        /\ \A text \in Seq(V) : Spread(e, text) \in Seq(V)
        /\ \A text \in Seq(V), ch \in V : Spread(e, Append(text, ch)) = Spread(e, text) \o e[ch]
    BY <1>1, SpreadSteps
  <2>3. QED
    BY <2>1, <2>2, Zenon
<1>3. ASSUME NEW text \in Seq(V) PROVE Visible(text) = Spread(e, text)
  <2>1. \A i \in DOMAIN text : e[text[i]] = Seen(text[i])
    OBVIOUS
  <2>2. [i \in DOMAIN text |-> e[text[i]]] = [i \in DOMAIN text |-> Seen(text[i])]
    <3> HIDE DEF e
    <3> QED BY <2>1
  <2>3. QED
    BY <2>2 DEF Spread, Visible, Seen
<1>4. \A ch \in V : e[ch] = Seen(ch)
  OBVIOUS
<1> HIDE DEF e
<1>5. /\ \A text \in Seq(V), ch \in V : Append(text, ch) \in Seq(V)
      /\ \A s, t \in Seq(V) : s \o t \in Seq(V)
  OBVIOUS
<1>6. QED
  BY <1>2, <1>3, <1>4, <1>5, EmptySeq

(* The sanitizer shows nothing new and hides nothing.                      *)
LEMMA SanitizedLooksTheSame ==
  ASSUME NEW V, {At, ZWSP} \subseteq V, NEW text \in Seq(V)
  PROVE  Visible(sanitize_content(text)) = Visible(text)
<1>0. /\ sanitize_content(<<>>) = <<>>
      /\ \A t \in Seq(V) : sanitize_content(t) \in Seq(V)
      /\ \A t \in Seq(V), ch \in V :
           sanitize_content(Append(t, ch)) = sanitize_content(t) \o Defused(ch)
  BY SanitizeSteps, Zenon
<1> DEFINE S == {t \in Seq(V) : Visible(sanitize_content(t)) = Visible(t)}
<1>1. <<>> \in S
  BY <1>0, EmptySeq
<1>2. ASSUME NEW t \in Seq(V), NEW ch \in V, t \in S PROVE Append(t, ch) \in S
  <2>1. /\ sanitize_content(Append(t, ch)) = sanitize_content(t) \o Defused(ch)
        /\ sanitize_content(t) \in Seq(V) /\ Append(t, ch) \in Seq(V)
    <3>1. Append(t, ch) \in Seq(V)
      OBVIOUS
    <3>2. QED
      BY <1>0, <3>1, Zenon
  <2>2. Defused(ch) \in Seq(V)
    BY DEF Defused
  <2>3. Visible(sanitize_content(t) \o Defused(ch)) = Visible(sanitize_content(t)) \o Visible(Defused(ch))
    BY <2>1, <2>2, VisibleSteps
  <2>4. Visible(Append(t, ch)) = Visible(t) \o Seen(ch)
    BY VisibleSteps
  <2>5. Visible(Defused(ch)) = Seen(ch)
    <3>1. \A c \in V : Visible(<<c>>) = Seen(c)
      <4> SUFFICES ASSUME NEW c \in V PROVE Visible(<<c>>) = Seen(c)
        OBVIOUS
      <4>1. Visible(Append(<<>>, c)) = Visible(<<>>) \o Seen(c) /\ Visible(<<>>) = <<>>
        BY VisibleSteps, EmptySeq
      <4>2. Append(<<>>, c) = <<c>>
        OBVIOUS
      <4>3. Seen(c) \in Seq(V)
        BY DEF Seen
      <4>4. <<>> \o Seen(c) = Seen(c)
        BY <4>3, ConcatEmptySeq
      <4>5. QED
        BY <4>1, <4>2, <4>4
    <3>2. CASE ch # At
      BY <3>1, <3>2 DEF Defused
    <3>3. CASE ch = At
      <4>1. Defused(ch) = Append(<<At>>, ZWSP) /\ <<At>> \in Seq(V)
        BY <3>3 DEF Defused
      <4>2. Visible(Append(<<At>>, ZWSP)) = Visible(<<At>>) \o Seen(ZWSP)
        BY <4>1, VisibleSteps
      <4>3. Seen(ZWSP) = <<>> /\ Visible(<<At>>) = Seen(At) /\ Seen(At) \in Seq(V)
        BY <3>1 DEF Seen
      <4>4. Seen(At) \o <<>> = Seen(At)
        BY <4>3, ConcatEmptySeq
      <4>5. QED
        BY <3>3, <4>1, <4>2, <4>3, <4>4
    <3>4. QED
      BY <3>2, <3>3
  <2>6. QED
    BY <1>2, <2>1, <2>3, <2>4, <2>5
<1>3. Seq(V) \subseteq S
  <2> HIDE DEF S
  <2> QED BY <1>1, <1>2, TextInduction
<1>4. QED
  BY <1>3

(* Every @ is followed by what defuses it.                                 *)
LEMMA SanitizedHasNoMention ==
  ASSUME NEW V, {At, ZWSP} \subseteq V, NEW text \in Seq(V)
  PROVE  \A i \in 1 .. Len(sanitize_content(text)) :
           sanitize_content(text)[i] = At =>
             i < Len(sanitize_content(text)) /\ sanitize_content(text)[i + 1] = ZWSP
<1>0. /\ sanitize_content(<<>>) = <<>>
      /\ \A t \in Seq(V) : sanitize_content(t) \in Seq(V)
      /\ \A t \in Seq(V), ch \in V :
           sanitize_content(Append(t, ch)) = sanitize_content(t) \o Defused(ch)
  BY SanitizeSteps, Zenon
<1> DEFINE Quiet(t) == \A i \in 1 .. Len(t) : t[i] = At => i < Len(t) /\ t[i + 1] = ZWSP
           S == {t \in Seq(V) : Quiet(sanitize_content(t))}
<1>1. <<>> \in S
  BY <1>0, EmptySeq
<1>2. ASSUME NEW t \in Seq(V), NEW ch \in V, t \in S PROVE Append(t, ch) \in S
  <2> DEFINE s == sanitize_content(t)
             d == Defused(ch)
  <2>1. sanitize_content(Append(t, ch)) = s \o d /\ s \in Seq(V) /\ Append(t, ch) \in Seq(V)
    <3>1. Append(t, ch) \in Seq(V)
      OBVIOUS
    <3>2. QED
      BY <1>0, <3>1, Zenon
  <2>2. d \in Seq(V) /\ Quiet(d)
    BY DEF Defused, At, ZWSP
  <2>3. Quiet(s)
    BY <1>2
  <2> HIDE DEF s, d
  <2>4. /\ Len(s \o d) = Len(s) + Len(d) /\ Len(s) \in Nat /\ Len(d) \in Nat
        /\ \A i \in 1 .. Len(s) + Len(d) : (s \o d)[i] = IF i <= Len(s) THEN s[i] ELSE d[i - Len(s)]
    BY <2>1, <2>2, ConcatProperties
  <2>5. ASSUME NEW i \in 1 .. Len(s) + Len(d), (s \o d)[i] = At
        PROVE  i < Len(s) + Len(d) /\ (s \o d)[i + 1] = ZWSP
    <3>1. CASE i <= Len(s)
      <4>1. s[i] = At /\ i \in 1 .. Len(s)
        BY <2>4, <2>5, <3>1
      <4>2. i < Len(s) /\ s[i + 1] = ZWSP
        BY <2>3, <4>1
      <4>3. QED
        BY <2>4, <4>1, <4>2
    <3>2. CASE i > Len(s)
      <4>1. d[i - Len(s)] = At /\ i - Len(s) \in 1 .. Len(d)
        BY <2>4, <2>5, <3>2
      <4>2. i - Len(s) < Len(d) /\ d[(i - Len(s)) + 1] = ZWSP
        BY <2>2, <4>1
      <4>3. /\ i + 1 \in 1 .. Len(s) + Len(d) /\ ~(i + 1 <= Len(s)) /\ i < Len(s) + Len(d)
            /\ (i + 1) - Len(s) = (i - Len(s)) + 1
        BY <2>4, <3>2, <4>2
      <4>4. QED
        BY <2>4, <4>2, <4>3
    <3>3. QED
      BY <2>4, <3>1, <3>2
  <2>6. Quiet(s \o d)
    BY <2>4, <2>5
  <2>7. QED
    BY <2>1, <2>6
<1>3. Seq(V) \subseteq S
  <2> HIDE DEF S
  <2> QED BY <1>1, <1>2, TextInduction
<1>4. QED
  BY <1>3

(* Up to the first @ and including it nothing moves, and without an @      *)
(* nothing changes.                                                        *)
LEMMA NothingMovesBeforeAnAt ==
  ASSUME NEW V, {At, ZWSP} \subseteq V, NEW text \in Seq(V)
  PROVE  /\ (\A i \in 1 .. Len(text) : text[i] # At) => sanitize_content(text) = text
         /\ \A m \in 0 .. Len(text) : (\A i \in 1 .. m - 1 : text[i] # At) =>
              /\ m <= Len(sanitize_content(text))
              /\ \A i \in 1 .. m : sanitize_content(text)[i] = text[i]
<1>0. /\ sanitize_content(<<>>) = <<>>
      /\ \A t \in Seq(V) : sanitize_content(t) \in Seq(V)
      /\ \A t \in Seq(V), ch \in V :
           sanitize_content(Append(t, ch)) = sanitize_content(t) \o Defused(ch)
  BY SanitizeSteps, Zenon
<1> DEFINE AtFree(t, k) == \A i \in 1 .. k : t[i] # At
           Stays(t, s) == /\ AtFree(t, Len(t)) => s = t
                          /\ \A k \in 0 .. Len(t) : AtFree(t, k - 1) =>
                               k <= Len(s) /\ \A i \in 1 .. k : s[i] = t[i]
           S == {t \in Seq(V) : Stays(t, sanitize_content(t))}
<1>1. <<>> \in S
  BY <1>0, EmptySeq
<1>2. ASSUME NEW t \in Seq(V), NEW ch \in V, t \in S PROVE Append(t, ch) \in S
  <2> DEFINE s == sanitize_content(t)
             d == Defused(ch)
             more == Append(t, ch)
  <2>1. more \in Seq(V) /\ s \in Seq(V) /\ sanitize_content(more) = s \o d /\ Stays(t, s)
    <3>1. Append(t, ch) \in Seq(V)
      OBVIOUS
    <3> HIDE DEF Stays
    <3>2. QED
      BY <1>0, <1>2, <3>1, Zenon
  <2>2. /\ d \in Seq(V) /\ Len(d) \in Nat \ {0} /\ d[1] = ch
        /\ ch # At => d = <<ch>>
    BY DEF Defused
  <2>3. /\ Len(more) = Len(t) + 1 /\ Len(t) \in Nat /\ more[Len(t) + 1] = ch
        /\ \A i \in 1 .. Len(t) : more[i] = t[i]
    BY AppendProperties
  <2>4. ch # At => more = t \o <<ch>>
    BY AppendIsConcat
  <2> HIDE DEF s, d, more
  <2>5. /\ Len(s \o d) = Len(s) + Len(d) /\ Len(s) \in Nat
        /\ \A i \in 1 .. Len(s) + Len(d) : (s \o d)[i] = IF i <= Len(s) THEN s[i] ELSE d[i - Len(s)]
    BY <2>1, <2>2, ConcatProperties
  <2>6. ASSUME AtFree(more, Len(more)) PROVE s \o d = more
    <3>1. ch # At
      BY <2>3, <2>6
    <3>2. AtFree(t, Len(t))
      BY <2>3, <2>6
    <3>3. s = t
      BY <2>1, <3>2
    <3>4. QED
      BY <2>2, <2>4, <3>1, <3>3
  <2>7. ASSUME NEW k \in 0 .. Len(more), AtFree(more, k - 1)
        PROVE  k <= Len(s \o d) /\ \A i \in 1 .. k : (s \o d)[i] = more[i]
    <3>1. CASE k <= Len(t)
      <4>1. k \in 0 .. Len(t) /\ AtFree(t, k - 1)
        BY <2>3, <2>7, <3>1
      <4>2. k <= Len(s) /\ \A i \in 1 .. k : s[i] = t[i]
        BY <2>1, <4>1
      <4>3. k \in Nat /\ k <= Len(s) + Len(d)
        BY <2>2, <2>5, <4>1, <4>2
      <4>4. ASSUME NEW i \in 1 .. k PROVE (s \o d)[i] = more[i]
        <5>1. i \in 1 .. Len(s) + Len(d) /\ i <= Len(s) /\ i \in 1 .. Len(t)
          BY <2>2, <2>3, <2>5, <3>1, <4>2, <4>3
        <5>2. QED
          BY <2>3, <2>5, <4>2, <5>1
      <4>5. QED
        BY <2>5, <4>3, <4>4
    <3>2. CASE k = Len(t) + 1
      <4>1. AtFree(t, Len(t))
        BY <2>3, <2>7, <3>2
      <4>2. s = t
        BY <2>1, <4>1
      <4>3. ASSUME NEW i \in 1 .. k PROVE (s \o d)[i] = more[i]
        <5>1. i \in 1 .. Len(s) + Len(d)
          BY <2>2, <2>3, <3>2, <4>2
        <5>2. CASE i <= Len(t)
          BY <2>3, <2>5, <4>2, <5>1, <5>2
        <5>3. CASE i = Len(t) + 1
          <6>1. ~(i <= Len(s)) /\ i - Len(s) = 1
            BY <2>3, <4>2, <5>3
          <6>2. (s \o d)[i] = d[1]
            BY <2>5, <5>1, <6>1
          <6>3. more[i] = ch
            BY <2>3, <5>3
          <6>4. d[1] = ch
            BY <2>2
          <6>5. QED
            BY <6>2, <6>3, <6>4
        <5>4. i <= Len(t) \/ i = Len(t) + 1
          BY <2>3, <3>2
        <5>5. QED
          BY <5>2, <5>3, <5>4
      <4>4. QED
        BY <2>2, <2>3, <2>5, <3>2, <4>2, <4>3
    <3>3. QED
      BY <2>3, <3>1, <3>2
  <2>8. Stays(more, s \o d)
    BY <2>6, <2>7
  <2>9. QED
    <3> HIDE DEF Stays
    <3> QED BY <2>1, <2>8 DEF more
<1>3. Seq(V) \subseteq S
  <2> HIDE DEF S
  <2> QED BY <1>1, <1>2, TextInduction
<1>4. QED
  BY <1>3

(* What is sent: something just when there is a visible start within the   *)
(* limit, and then within the limit, defused, and the content itself up to *)
(* where it is cut.                                                        *)
LEMMA PreparedContent ==
  ASSUME NEW V, {At, ZWSP} \subseteq V, NEW text \in Seq(V),
         NEW sent, sent = prepare_relay_content(text)
  PROVE  IF \A i \in Solid(text) : i > MAX_MESSAGE_CHARS THEN sent = <<>>
         ELSE /\ sent # <<>>
              /\ Len(sent) \in 1 .. MAX_MESSAGE_CHARS
              /\ Solid(sent) # {}
              /\ \A i \in 1 .. Len(sent) - 1 : sent[i] = At => sent[i + 1] = ZWSP
              /\ IsPrefix(Visible(sent), Visible(text))
              /\ Len(sent) < MAX_MESSAGE_CHARS => Visible(sent) = Visible(text)
<1>0. Blank # At
  BY DEF Blank, At
<1> DEFINE s == sanitize_content(text)
           p == Take(s, MAX_MESSAGE_CHARS)
<1>1. /\ s \in Seq(V) /\ Visible(s) = Visible(text) /\ Len(s) \in Nat
      /\ \A i \in 1 .. Len(s) : s[i] = At => i < Len(s) /\ s[i + 1] = ZWSP
  <2>1. s \in Seq(V)
    <3>1. \A t \in Seq(V) : sanitize_content(t) \in Seq(V)
      BY SanitizeSteps, Zenon
    <3>2. QED
      BY <3>1
  <2>2. Visible(s) = Visible(text)
    BY SanitizedLooksTheSame, Zenon
  <2>3. \A i \in 1 .. Len(s) : s[i] = At => i < Len(s) /\ s[i + 1] = ZWSP
    BY SanitizedHasNoMention, Zenon
  <2> HIDE DEF s
  <2>4. QED
    BY <2>1, <2>2, <2>3
<1>2. /\ (\A i \in 1 .. Len(text) : text[i] # At) => s = text
      /\ \A m \in 0 .. Len(text) : (\A i \in 1 .. m - 1 : text[i] # At) =>
           m <= Len(s) /\ \A i \in 1 .. m : s[i] = text[i]
  BY NothingMovesBeforeAnAt, Zenon
<1>3. sent = IF Trim(p) = <<>> THEN <<>> ELSE p
  BY DEF prepare_relay_content
<1> HIDE DEF s
<1>4. MAX_MESSAGE_CHARS \in Nat \ {0} /\ MAX_MESSAGE_CHARS \in Nat
  BY MessageLimit
<1>5. /\ p \in Seq(V)
      /\ Len(p) = IF Len(s) < MAX_MESSAGE_CHARS THEN Len(s) ELSE MAX_MESSAGE_CHARS
      /\ \A i \in 1 .. Len(p) : i \in 1 .. Len(s) /\ p[i] = s[i]
      /\ Len(s) <= MAX_MESSAGE_CHARS => p = s
      /\ \E rest \in Seq(V) : s = p \o rest
  <2>1. s \in Seq(V) /\ MAX_MESSAGE_CHARS \in Nat /\ p = Take(s, MAX_MESSAGE_CHARS)
    BY <1>1, <1>4
  <2> DEFINE n == MAX_MESSAGE_CHARS
  <2>2. s \in Seq(V) /\ n \in Nat
    BY <2>1
  <2> HIDE DEF n
  <2>3. /\ Take(s, n) \in Seq(V)
        /\ Len(Take(s, n)) = IF Len(s) < n THEN Len(s) ELSE n
        /\ \A i \in 1 .. Len(Take(s, n)) : i \in 1 .. Len(s) /\ Take(s, n)[i] = s[i]
        /\ Len(s) <= n => Take(s, n) = s
    BY <2>2, TakeIsAPrefix
  <2>4. \E rest \in Seq(V) : s = Take(s, n) \o rest
    BY <2>2, TakeThenTheRest, Zenon
  <2>5. QED
    BY <2>3, <2>4, Zenon DEF n
<1> HIDE DEF p
<1>6. Trim(p) = <<>> <=> Solid(p) = {}
  BY <1>5, TrimIsTheMiddle
<1>7. Len(text) \in Nat /\ DOMAIN text = 1 .. Len(text) /\ DOMAIN p = 1 .. Len(p) /\ Len(p) \in Nat
  BY <1>5, LenProperties
<1>8. CASE \A i \in Solid(text) : i > MAX_MESSAGE_CHARS
  <2>1. \A i \in 1 .. Len(text) : i <= MAX_MESSAGE_CHARS => text[i] = Blank /\ text[i] # At
    <3>1. \A i \in 1 .. Len(text) : i <= MAX_MESSAGE_CHARS => text[i] = Blank
      BY <1>4, <1>7, <1>8 DEF Solid
    <3>2. QED
      BY <1>0, <3>1
  <2>2. \A i \in 1 .. Len(p) : p[i] = Blank
    <3>1. CASE Len(text) <= MAX_MESSAGE_CHARS
      <4>1. \A i \in 1 .. Len(text) : text[i] = Blank /\ text[i] # At
        BY <1>4, <1>7, <2>1, <3>1
      <4>2. s = text
        BY <1>2, <4>1
      <4>3. QED
        BY <1>5, <4>1, <4>2
    <3>2. CASE Len(text) > MAX_MESSAGE_CHARS
      <4> DEFINE m == MAX_MESSAGE_CHARS
      <4>1. m \in 0 .. Len(text) /\ \A i \in 1 .. m - 1 : text[i] # At
        BY <1>4, <1>7, <2>1, <3>2
      <4>2. m <= Len(s) /\ \A i \in 1 .. m : s[i] = text[i]
        BY <1>2, <4>1
      <4>3. ASSUME NEW i \in 1 .. Len(p) PROVE p[i] = Blank
        <5>1. i \in 1 .. m /\ i \in 1 .. Len(text) /\ i <= MAX_MESSAGE_CHARS
          BY <1>1, <1>4, <1>5, <1>7, <3>2
        <5>2. QED
          BY <1>5, <2>1, <4>2, <5>1
      <4>4. QED
        BY <4>3
    <3>3. QED
      BY <1>4, <1>7, <3>1, <3>2
  <2>3. Solid(p) = {}
    BY <1>7, <2>2 DEF Solid
  <2>4. QED
    BY <1>3, <1>6, <1>8, <2>3
<1>9. CASE ~\A i \in Solid(text) : i > MAX_MESSAGE_CHARS
  <2>1. Solid(p) # {}
    <3>1. Solid(text) \subseteq 1 .. Len(text) /\ Solid(text) # {}
      BY <1>7, <1>9 DEF Solid
    <3> DEFINE m == Min(Solid(text))
    <3>2. m \in Solid(text) /\ \A i \in Solid(text) : m <= i
      BY <1>7, <3>1, FirstAndLast
    <3> HIDE DEF m
    <3>3. m \in 1 .. Len(text) /\ text[m] # Blank /\ m <= MAX_MESSAGE_CHARS
      BY <1>4, <1>7, <1>9, <3>1, <3>2 DEF Solid
    <3>4. \A i \in 1 .. m - 1 : text[i] = Blank
      BY <1>7, <3>2, <3>3 DEF Solid
    <3>5. m \in 0 .. Len(text) /\ \A i \in 1 .. m - 1 : text[i] # At
      <4>1. m \in 0 .. Len(text)
        BY <3>3
      <4>2. QED
        BY <1>0, <3>4, <4>1, Zenon
    <3>6. m <= Len(s) /\ s[m] = text[m]
      BY <1>2, <3>3, <3>5
    <3>7. m \in 1 .. Len(p) /\ p[m] # Blank
      BY <1>1, <1>4, <1>5, <3>3, <3>6
    <3>8. QED
      BY <1>7, <3>7 DEF Solid
  <2>2. sent = p
    BY <1>3, <1>6, <2>1
  <2>3. Len(p) \in 1 .. MAX_MESSAGE_CHARS /\ p # <<>>
    <3>1. Len(p) # 0
      BY <1>7, <2>1 DEF Solid
    <3>2. QED
      BY <1>1, <1>4, <1>5, <1>7, <3>1
  <2>4. ASSUME NEW i \in 1 .. Len(p) - 1, p[i] = At PROVE p[i + 1] = ZWSP
    <3>1. i \in 1 .. Len(p) /\ i + 1 \in 1 .. Len(p)
      BY <1>7
    <3>2. i \in 1 .. Len(s) /\ s[i] = At /\ p[i + 1] = s[i + 1]
      BY <1>5, <2>4, <3>1
    <3>3. QED
      BY <1>1, <3>2
  <2>5. IsPrefix(Visible(p), Visible(text))
    <3>1. PICK rest \in Seq(V) : s = p \o rest
      BY <1>5
    <3>2. /\ Visible(s) = Visible(p) \o Visible(rest)
          /\ Visible(p) \in Seq(V) /\ Visible(rest) \in Seq(V)
      BY <1>5, <3>1, VisibleSteps
    <3>3. ASSUME NEW a \in Seq(V), NEW b \in Seq(V) PROVE IsPrefix(a, a \o b)
      <4>1. /\ Len(a \o b) = Len(a) + Len(b) /\ Len(a) \in Nat /\ Len(b) \in Nat
            /\ \A i \in 1 .. Len(a) : (a \o b)[i] = a[i]
        OBVIOUS
      <4>2. SubSeq(a \o b, 1, Len(a)) = a
        OBVIOUS
      <4>3. SubSeq(a, 1, Len(a)) = a
        BY SubSeqFull
      <4>4. QED
        BY <4>1, <4>2, <4>3 DEF IsPrefix
    <3>4. QED
      BY <1>1, <3>2, <3>3
  <2>6. Len(p) < MAX_MESSAGE_CHARS => Visible(p) = Visible(text)
    <3>1. Len(p) < MAX_MESSAGE_CHARS => Len(s) <= MAX_MESSAGE_CHARS
      BY <1>1, <1>4, <1>5
    <3>2. QED
      BY <1>1, <1>5, <3>1, Zenon
  <2>7. QED
    BY <1>9, <2>1, <2>2, <2>3, <2>4, <2>5, <2>6
<1>10. QED
  BY <1>8, <1>9
=============================================================================
