------------------------------ MODULE TextProofs ------------------------------
(***************************************************************************)
(* Induction and recursion over numbers and texts, stated with sets and    *)
(* functions, and what the helpers of Texts return.                        *)
(***************************************************************************)
EXTENDS Texts, SequenceTheorems, WellFoundedInduction, TLAPS

(* Every non-empty set of natural numbers has a least element.             *)
LEMMA LeastNumber ==
  ASSUME NEW T, T \subseteq Nat, T # {}
  PROVE  \E least \in T : \A n \in T : least <= n
<1> DEFINE R == OpToRel(<, Nat)
<1>1. IsWellFoundedOn(R, Nat)
  BY NatLessThanWellFounded
<1>2. \A n, m \in Nat : n < m => <<n, m>> \in R
  BY DEF OpToRel
<1> HIDE DEF R
<1>3. PICK least \in T : \A n \in T : <<n, least>> \notin R
  BY <1>1, WFMin
<1>4. ASSUME NEW n \in T PROVE least <= n
  <2>1. n \in Nat /\ least \in Nat
    OBVIOUS
  <2>2. ~(n < least)
    BY <1>2, <1>3, <2>1
  <2>3. QED
    BY <2>1, <2>2, SMT
<1>5. QED
  BY <1>4

(* Induction: a set that holds 0, and of every number the next one, holds  *)
(* them all.                                                               *)
LEMMA Induction ==
  ASSUME NEW S, 0 \in S, \A n \in Nat : n \in S => n + 1 \in S
  PROVE  Nat \subseteq S
<1> SUFFICES ASSUME Nat \ S # {} PROVE FALSE
  OBVIOUS
<1>1. PICK least \in Nat \ S : \A n \in Nat \ S : least <= n
  BY LeastNumber
<1>2. least # 0 /\ least - 1 \in Nat
  BY <1>1
<1>3. least - 1 \in S
  BY <1>1, <1>2
<1>4. QED
  BY <1>1, <1>2, <1>3

(* Course of values: a set that holds every number whose predecessors it   *)
(* holds.                                                                  *)
LEMMA CourseOfValues ==
  ASSUME NEW S, \A n \in Nat : (\A m \in Nat : m < n => m \in S) => n \in S
  PROVE  Nat \subseteq S
<1> SUFFICES ASSUME Nat \ S # {} PROVE FALSE
  OBVIOUS
<1>1. PICK least \in Nat \ S : \A n \in Nat \ S : least <= n
  BY LeastNumber
<1>2. QED
  BY <1>1

(* F recurs on m: what F makes of a function looks, at d, only at the      *)
(* values of the function where m is smaller than at d.                    *)
Recurs(F, m, D, V) ==
  /\ m \in [D -> Nat] /\ F \in [[D -> V] -> [D -> V]] /\ [D -> V] # {}
  /\ \A f, g \in [D -> V], d \in D :
       (\A e \in D : m[e] < m[d] => f[e] = g[e]) => F[f][d] = F[g][d]

(* Recursion: such an F has a fixed point.  An approximation of order n is *)
(* a function that is one wherever m is below n.                           *)
LEMMA Recursion ==
  ASSUME NEW D, NEW V, NEW m, NEW F, Recurs(F, m, D, V)
  PROVE  \E f \in [D -> V] : F[f] = f
<1>0. /\ m \in [D -> Nat] /\ F \in [[D -> V] -> [D -> V]] /\ [D -> V] # {}
      /\ \A f, g \in [D -> V], d \in D :
           (\A e \in D : m[e] < m[d] => f[e] = g[e]) => F[f][d] = F[g][d]
  BY DEF Recurs
<1> USE <1>0
<1> DEFINE Fixed(f, n) == \A d \in D : m[d] < n => F[f][d] = f[d]
           Approximated == {n \in Nat : \E f \in [D -> V] : Fixed(f, n)}
           G(n) == CHOOSE f \in [D -> V] : Fixed(f, n)
<1>1. \A n \in Nat : G(n) \in [D -> V] /\ Fixed(G(n), n)
  <2>1. 0 \in Approximated
    <3>1. \A f \in [D -> V] : Fixed(f, 0)
      OBVIOUS
    <3>2. QED
      BY <3>1
  <2>2. ASSUME NEW n \in Nat, n \in Approximated PROVE n + 1 \in Approximated
    <3>1. PICK f \in [D -> V] : Fixed(f, n)
      BY <2>2
    <3>2. F[f] \in [D -> V]
      OBVIOUS
    <3>3. ASSUME NEW d \in D, m[d] < n + 1 PROVE F[F[f]][d] = F[f][d]
      <4>1. \A e \in D : m[e] < m[d] => m[e] < n
        BY <3>3
      <4>2. \A e \in D : m[e] < m[d] => F[f][e] = f[e]
        BY <3>1, <4>1
      <4>3. QED
        BY <3>2, <4>2
    <3>4. Fixed(F[f], n + 1)
      BY <3>3
    <3>5. QED
      BY <3>2, <3>4
  <2>3. Nat \subseteq Approximated
    <3> HIDE DEF Approximated
    <3> QED BY <2>1, <2>2, Induction
  <2>4. QED
    BY <2>3
<1>2. ASSUME NEW k \in Nat, NEW n \in Nat, NEW d \in D, m[d] < k, m[d] < n
      PROVE  G(k)[d] = G(n)[d]
  <2> DEFINE Agree == {v \in Nat : \A e \in D : m[e] = v /\ v < k /\ v < n => G(k)[e] = G(n)[e]}
  <2> HIDE DEF G
  <2>1. ASSUME NEW v \in Nat, \A w \in Nat : w < v => w \in Agree PROVE v \in Agree
    <3> SUFFICES ASSUME NEW e \in D, m[e] = v, v < k, v < n PROVE G(k)[e] = G(n)[e]
      OBVIOUS
    <3>1. \A c \in D : m[c] < m[e] => G(k)[c] = G(n)[c]
      BY <2>1
    <3>2. F[G(k)][e] = F[G(n)][e]
      BY <1>1, <3>1
    <3>3. QED
      BY <1>1, <3>2
  <2>2. Nat \subseteq Agree
    <3> HIDE DEF Agree
    <3> QED BY <2>1, CourseOfValues
  <2>3. QED
    BY <1>2, <2>2
<1> DEFINE f == [d \in D |-> G(m[d] + 1)[d]]
<1>3. f \in [D -> V]
  <2> HIDE DEF G
  <2> QED BY <1>1
<1>4. ASSUME NEW d \in D PROVE F[f][d] = f[d]
  <2> DEFINE g == G(m[d] + 1)
  <2>1. g \in [D -> V] /\ F[g][d] = g[d]
    <3> HIDE DEF G
    <3> QED BY <1>1
  <2>2. \A e \in D : m[e] < m[d] => f[e] = g[e]
    <3> HIDE DEF G
    <3> QED BY <1>2
  <2>3. F[f][d] = F[g][d]
    <3> HIDE DEF f, g
    <3> QED BY <1>3, <2>1, <2>2
  <2>4. QED
    BY <2>1, <2>3
<1>5. F[f] = f
  <2> HIDE DEF f
  <2> QED BY <1>3, <1>4
<1>6. QED
  BY <1>3, <1>5

-----------------------------------------------------------------------------
(* FlattenSeq joins its texts from the left.                               *)
LEMMA Flattening ==
  ASSUME NEW V, NEW seqs \in Seq(Seq(V)), seqs # <<>>
  PROVE  \E f \in [1 .. Len(seqs) -> Seq(V)] :
           /\ f[1] = seqs[1]
           /\ \A i \in 2 .. Len(seqs) : f[i] = f[i - 1] \o seqs[i]
           /\ FlattenSeq(seqs) = f[Len(seqs)]
<1> DEFINE n == Len(seqs)
           Joined(f) == [i \in 1 .. n |-> IF i = 1 THEN seqs[i] ELSE f[i - 1] \o seqs[i]]
           flatten[i \in 1 .. n] == IF i = 1 THEN seqs[i] ELSE flatten[i - 1] \o seqs[i]
           D == 1 .. n
           M == [i \in D |-> i]
           F == [f \in [D -> Seq(V)] |-> Joined(f)]
<1>1. n \in Nat \ {0} /\ \A i \in D : seqs[i] \in Seq(V)
  OBVIOUS
<1>2. \A f \in [D -> Seq(V)] : Joined(f) \in [D -> Seq(V)]
  <2> SUFFICES ASSUME NEW f \in [D -> Seq(V)], NEW i \in D, i # 1
               PROVE  f[i - 1] \o seqs[i] \in Seq(V)
    BY <1>1
  <2>1. i - 1 \in D
    BY <1>1
  <2>2. f[i - 1] \in Seq(V) /\ seqs[i] \in Seq(V)
    BY <1>1, <2>1
  <2>3. QED
    BY <2>2, ConcatProperties
<1>3. F \in [[D -> Seq(V)] -> [D -> Seq(V)]]
  BY <1>2
<1>4. M \in [D -> Nat]
  BY <1>1
<1>5. ASSUME NEW f \in [D -> Seq(V)], NEW g \in [D -> Seq(V)], NEW i \in D,
             \A e \in D : M[e] < M[i] => f[e] = g[e]
      PROVE  F[f][i] = F[g][i]
  <2>1. CASE i = 1
    BY <2>1
  <2>2. CASE i # 1
    <3>1. i - 1 \in D /\ M[i - 1] < M[i]
      BY <1>1, <2>2
    <3>2. f[i - 1] = g[i - 1]
      BY <1>5, <3>1
    <3>3. QED
      BY <3>2
  <2>3. QED
    BY <2>1, <2>2
<1>6. seqs \in [D -> Seq(V)]
  BY <1>1
<1>7. PICK f \in [D -> Seq(V)] : F[f] = f
  <2> DEFINE W == Seq(V)
  <2> HIDE DEF F, M, D, W, flatten
  <2>1. Recurs(F, M, D, W)
    BY <1>3, <1>4, <1>5, <1>6 DEF Recurs, W
  <2>2. \E f \in [D -> W] : F[f] = f
    BY <2>1, Recursion
  <2>3. QED
    BY <2>2 DEF W
<1>8. f = Joined(f)
  BY <1>7
<1>9. flatten = Joined(flatten)
  BY <1>8, Zenon
<1>10. flatten[1] = seqs[1] /\ \A i \in 2 .. n : flatten[i] = flatten[i - 1] \o seqs[i]
  <2> HIDE DEF flatten
  <2>1. \A i \in D : flatten[i] = IF i = 1 THEN seqs[i] ELSE flatten[i - 1] \o seqs[i]
    BY <1>9, Zenon
  <2>2. 1 \in D /\ \A i \in 2 .. n : i \in D /\ i # 1
    BY <1>1
  <2>3. QED
    BY <2>1, <2>2, Zenon
<1>11. flatten \in [D -> Seq(V)]
  <2> DEFINE Typed == {i \in Nat : i + 1 \in D => flatten[i + 1] \in Seq(V)}
  <2> HIDE DEF flatten
  <2>1. 0 \in Typed
    BY <1>1, <1>10
  <2>2. ASSUME NEW i \in Nat, i \in Typed PROVE i + 1 \in Typed
    <3> SUFFICES ASSUME i + 2 \in D PROVE flatten[i + 2] \in Seq(V)
      OBVIOUS
    <3>1. flatten[i + 1] \in Seq(V) /\ seqs[i + 2] \in Seq(V)
      BY <1>1, <2>2
    <3>2. i + 2 \in 2 .. n /\ (i + 2) - 1 = i + 1
      BY <1>1
    <3>3. flatten[i + 2] = flatten[i + 1] \o seqs[i + 2]
      BY <1>10, <3>2
    <3>4. QED
      BY <3>1, <3>3, ConcatProperties
  <2>3. Nat \subseteq Typed
    <3> HIDE DEF Typed
    <3> QED BY <2>1, <2>2, Induction
  <2>4. \A i \in D : flatten[i] \in Seq(V)
    <3> SUFFICES ASSUME NEW i \in D PROVE flatten[i] \in Seq(V)
      OBVIOUS
    <3>1. i - 1 \in Nat /\ (i - 1) + 1 = i
      BY <1>1
    <3>2. i - 1 \in Typed
      BY <2>3, <3>1
    <3>3. QED
      BY <3>1, <3>2
  <2>5. flatten = [i \in D |-> flatten[i]]
    BY <1>9
  <2>6. QED
    BY <2>4, <2>5
<1>12. FlattenSeq(seqs) = flatten[n]
  BY <1>1 DEF FlattenSeq
<1>13. QED
  <2> HIDE DEF flatten
  <2> QED BY <1>10, <1>11, <1>12

LEMMA FlattenEmpty == FlattenSeq(<<>>) = <<>>
  BY DEF FlattenSeq

LEMMA FlattenType ==
  ASSUME NEW V, NEW seqs \in Seq(Seq(V))
  PROVE  FlattenSeq(seqs) \in Seq(V)
<1>1. CASE seqs = <<>>
  BY <1>1, FlattenEmpty, EmptySeq
<1>2. CASE seqs # <<>>
  <2>1. PICK f \in [1 .. Len(seqs) -> Seq(V)] : FlattenSeq(seqs) = f[Len(seqs)]
    BY <1>2, Flattening
  <2>2. Len(seqs) \in 1 .. Len(seqs)
    BY <1>2
  <2>3. QED
    BY <2>1, <2>2
<1>3. QED
  BY <1>1, <1>2

LEMMA FlattenAppend ==
  ASSUME NEW V, NEW seqs \in Seq(Seq(V)), NEW text \in Seq(V)
  PROVE  FlattenSeq(Append(seqs, text)) = FlattenSeq(seqs) \o text
<1> DEFINE more == Append(seqs, text)
           n == Len(seqs)
<1>1. /\ more \in Seq(Seq(V)) /\ more # <<>> /\ Len(more) = n + 1 /\ n \in Nat
      /\ \A i \in 1 .. n : more[i] = seqs[i]
      /\ more[n + 1] = text
  <2> DEFINE W == Seq(V)
  <2> HIDE DEF W
  <2> SUFFICES ASSUME seqs \in Seq(W), text \in W
               PROVE  /\ more \in Seq(W) /\ more # <<>> /\ Len(more) = n + 1 /\ n \in Nat
                      /\ \A i \in 1 .. n : more[i] = seqs[i]
                      /\ more[n + 1] = text
    BY DEF W
  <2> QED BY AppendProperties
<1> HIDE DEF more
<1>2. PICK g \in [1 .. n + 1 -> Seq(V)] :
        /\ g[1] = more[1]
        /\ \A i \in 2 .. n + 1 : g[i] = g[i - 1] \o more[i]
        /\ FlattenSeq(more) = g[n + 1]
  <2>1. \E g \in [1 .. Len(more) -> Seq(V)] :
           /\ g[1] = more[1]
           /\ \A i \in 2 .. Len(more) : g[i] = g[i - 1] \o more[i]
           /\ FlattenSeq(more) = g[Len(more)]
    BY <1>1, Flattening
  <2>2. Len(more) = n + 1
    BY <1>1
  <2>3. QED
    BY <2>1, <2>2
<1>3. CASE seqs = <<>>
  <2>1. n = 0
    BY <1>3
  <2>2. FlattenSeq(more) = text
    BY <1>1, <1>2, <2>1
  <2>3. QED
    BY <1>3, <2>2, FlattenEmpty DEF more
<1>4. CASE seqs # <<>>
  <2>1. n \in 1 .. n
    BY <1>4
  <2>2. PICK f \in [1 .. n -> Seq(V)] :
          /\ f[1] = seqs[1]
          /\ \A i \in 2 .. n : f[i] = f[i - 1] \o seqs[i]
          /\ FlattenSeq(seqs) = f[n]
    BY <1>4, Flattening
  <2> DEFINE Agree == {i \in Nat : i + 1 <= n => g[i + 1] = f[i + 1]}
  <2>3. 0 \in Agree
    BY <1>1, <1>2, <2>1, <2>2
  <2>4. ASSUME NEW i \in Nat, i \in Agree PROVE i + 1 \in Agree
    <3> SUFFICES ASSUME i + 2 <= n PROVE g[i + 2] = f[i + 2]
      OBVIOUS
    <3>1. i + 2 \in 2 .. n /\ i + 2 \in 2 .. n + 1 /\ i + 2 \in 1 .. n /\ (i + 2) - 1 = i + 1
      BY <1>1
    <3>2. g[i + 2] = g[i + 1] \o more[i + 2] /\ f[i + 2] = f[i + 1] \o seqs[i + 2]
      BY <1>2, <2>2, <3>1
    <3>3. g[i + 1] = f[i + 1]
      BY <2>4, <1>1
    <3>4. QED
      BY <1>1, <3>1, <3>2, <3>3
  <2>5. Nat \subseteq Agree
    <3> HIDE DEF Agree
    <3> QED BY <2>3, <2>4, Induction
  <2>6. n - 1 \in Nat /\ (n - 1) + 1 = n
    BY <2>1
  <2>7. g[n] = f[n]
    <3>1. n - 1 \in Agree
      BY <2>5, <2>6
    <3>2. (n - 1) + 1 <= n
      BY <2>1
    <3>3. g[(n - 1) + 1] = f[(n - 1) + 1]
      BY <3>1, <3>2
    <3>4. QED
      BY <2>6, <3>3
  <2>8. n + 1 \in 2 .. n + 1 /\ (n + 1) - 1 = n
    BY <2>1
  <2>9. g[n + 1] = g[n] \o more[n + 1]
    BY <1>2, <2>8
  <2>10. QED
    BY <1>1, <1>2, <2>2, <2>7, <2>9 DEF more
<1>5. QED
  BY <1>3, <1>4

(* Induction over texts, one more character at the end at a time.          *)
LEMMA TextInduction ==
  ASSUME NEW V, NEW S, <<>> \in S,
         \A text \in Seq(V), ch \in V : text \in S => Append(text, ch) \in S
  PROVE  Seq(V) \subseteq S
<1> DEFINE Long == {n \in Nat : \A text \in Seq(V) : Len(text) = n => text \in S}
<1>1. 0 \in Long
  BY EmptySeq
<1>2. ASSUME NEW n \in Nat, n \in Long PROVE n + 1 \in Long
  <2> SUFFICES ASSUME NEW text \in Seq(V), Len(text) = n + 1 PROVE text \in S
    OBVIOUS
  <2>1. text # <<>>
    OBVIOUS
  <2>2. PICK front \in Seq(V), ch \in V : text = Append(front, ch)
    BY <2>1, SequenceEmptyOrAppend
  <2>3. Len(front) = n
    BY <2>2, AppendProperties
  <2>4. QED
    BY <1>2, <2>2, <2>3
<1>3. Nat \subseteq Long
  <2> HIDE DEF Long
  <2> QED BY <1>1, <1>2, Induction
<1>4. QED
  BY <1>3

-----------------------------------------------------------------------------
(* What becomes of a text when every character makes a text of its own.    *)
Spread(e, text) == FlattenSeq([i \in DOMAIN text |-> e[text[i]]])

LEMMA SpreadSteps ==
  ASSUME NEW V, NEW W, NEW e \in [V -> Seq(W)]
  PROVE  /\ Spread(e, <<>>) = <<>>
         /\ \A text \in Seq(V) : Spread(e, text) \in Seq(W)
         /\ \A text \in Seq(V), ch \in V : Spread(e, Append(text, ch)) = Spread(e, text) \o e[ch]
<1> DEFINE Made(text) == [i \in DOMAIN text |-> e[text[i]]]
<1>1. \A text \in Seq(V) : Made(text) \in Seq(Seq(W))
  <2> SUFFICES ASSUME NEW text \in Seq(V) PROVE Made(text) \in Seq(Seq(W))
    OBVIOUS
  <2>1. DOMAIN text = 1 .. Len(text) /\ Len(text) \in Nat /\ \A i \in 1 .. Len(text) : text[i] \in V
    BY LenProperties
  <2>2. Made(text) \in [1 .. Len(text) -> Seq(W)]
    BY <2>1
  <2>3. QED
    BY <2>1, <2>2, SeqDef
<1>2. Made(<<>>) = <<>>
  OBVIOUS
<1>3. ASSUME NEW text \in Seq(V), NEW ch \in V
      PROVE  Made(Append(text, ch)) = Append(Made(text), e[ch])
  <2> DEFINE more == Append(text, ch)
  <2>1. /\ more \in Seq(V) /\ Len(more) = Len(text) + 1
        /\ \A i \in 1 .. Len(text) : more[i] = text[i]
        /\ more[Len(text) + 1] = ch
    BY AppendProperties
  <2>2. /\ DOMAIN more = 1 .. Len(text) + 1 /\ DOMAIN text = 1 .. Len(text) /\ Len(text) \in Nat
    BY <2>1, LenProperties
  <2> DEFINE U == Seq(W)
  <2>3. Made(text) \in Seq(U) /\ Made(more) \in Seq(U) /\ e[ch] \in U
    BY <1>1, <2>1
  <2>4. /\ Len(Made(text)) = Len(text) /\ Len(Made(more)) = Len(text) + 1
        /\ \A i \in 1 .. Len(text) : Made(text)[i] = e[text[i]]
        /\ \A i \in 1 .. Len(text) + 1 : Made(more)[i] = e[more[i]]
    <3> HIDE DEF more
    <3>1. \A i \in 1 .. Len(text) : Made(text)[i] = e[text[i]]
      BY <2>2
    <3>2. \A i \in 1 .. Len(text) + 1 : Made(more)[i] = e[more[i]]
      BY <2>2
    <3>3. DOMAIN Made(text) = 1 .. Len(text) /\ DOMAIN Made(more) = 1 .. Len(text) + 1
      BY <2>2
    <3> HIDE DEF U, Made
    <3>4. Len(Made(text)) = Len(text) /\ Len(Made(more)) = Len(text) + 1
      BY <2>2, <2>3, <3>3, LenProperties
    <3>5. QED
      BY <3>1, <3>2, <3>4
  <2> HIDE DEF more, U, Made
  <2>5. /\ Append(Made(text), e[ch]) \in Seq(U)
        /\ Len(Append(Made(text), e[ch])) = Len(text) + 1
        /\ \A i \in 1 .. Len(text) : Append(Made(text), e[ch])[i] = Made(text)[i]
        /\ Append(Made(text), e[ch])[Len(text) + 1] = e[ch]
    <3>1. ASSUME NEW a \in Seq(U), NEW c \in U
          PROVE  /\ Append(a, c) \in Seq(U)
                 /\ Len(Append(a, c)) = Len(a) + 1
                 /\ \A i \in 1 .. Len(a) : Append(a, c)[i] = a[i]
                 /\ Append(a, c)[Len(a) + 1] = c
      BY AppendProperties
    <3>2. Len(Made(text)) = Len(text)
      BY <2>4
    <3>3. QED
      BY <2>3, <3>1, <3>2
  <2>6. \A i \in 1 .. Len(text) + 1 : Made(more)[i] = Append(Made(text), e[ch])[i]
    BY <2>1, <2>2, <2>4, <2>5
  <2>7. Made(more) = Append(Made(text), e[ch])
    BY <2>3, <2>4, <2>5, <2>6, SeqEqual
  <2>8. QED
    BY <2>7 DEF more
<1>4. ASSUME NEW text \in Seq(V), NEW ch \in V
      PROVE  Spread(e, Append(text, ch)) = Spread(e, text) \o e[ch]
  <2>1. Spread(e, Append(text, ch)) = FlattenSeq(Append(Made(text), e[ch]))
    BY <1>3 DEF Spread
  <2>2. Spread(e, text) = FlattenSeq(Made(text))
    BY DEF Spread
  <2>3. Made(text) \in Seq(Seq(W)) /\ e[ch] \in Seq(W)
    BY <1>1
  <2> HIDE DEF Made
  <2>4. QED
    BY <2>1, <2>2, <2>3, FlattenAppend
<1>5. Spread(e, <<>>) = <<>>
  BY <1>2, FlattenEmpty DEF Spread
<1>6. \A text \in Seq(V) : Spread(e, text) \in Seq(W)
  BY <1>1, FlattenType DEF Spread
<1>7. QED
  BY <1>4, <1>5, <1>6

LEMMA SpreadConcat ==
  ASSUME NEW V, NEW W, NEW e \in [V -> Seq(W)], NEW s \in Seq(V), NEW t \in Seq(V)
  PROVE  Spread(e, s \o t) = Spread(e, s) \o Spread(e, t)
<1>0. /\ Spread(e, <<>>) = <<>>
      /\ \A text \in Seq(V) : Spread(e, text) \in Seq(W)
      /\ \A text \in Seq(V), ch \in V : Spread(e, Append(text, ch)) = Spread(e, text) \o e[ch]
  BY SpreadSteps, Zenon
<1> DEFINE Split == {x \in Seq(V) : Spread(e, s \o x) = Spread(e, s) \o Spread(e, x)}
<1>1. <<>> \in Split
  BY <1>0, EmptySeq, ConcatEmptySeq
<1>2. ASSUME NEW x \in Seq(V), NEW ch \in V, x \in Split PROVE Append(x, ch) \in Split
  <2>1. s \o Append(x, ch) = Append(s \o x, ch)
    <3>1. Append(x, ch) = x \o <<ch>> /\ <<ch>> \in Seq(V) /\ s \o x \in Seq(V)
      BY AppendIsConcat, ConcatProperties
    <3>2. Append(s \o x, ch) = (s \o x) \o <<ch>>
      BY <3>1, AppendIsConcat
    <3>3. QED
      BY <3>1, <3>2, ConcatAssociative
  <2>2. s \o x \in Seq(V) /\ Append(x, ch) \in Seq(V)
    BY ConcatProperties, AppendProperties
  <2>3. /\ Spread(e, Append(s \o x, ch)) = Spread(e, s \o x) \o e[ch]
        /\ Spread(e, Append(x, ch)) = Spread(e, x) \o e[ch]
        /\ Spread(e, s) \in Seq(W) /\ Spread(e, x) \in Seq(W) /\ e[ch] \in Seq(W)
    BY <1>0, <2>2
  <2>4. Spread(e, s \o x) = Spread(e, s) \o Spread(e, x)
    BY <1>2
  <2>5. (Spread(e, s) \o Spread(e, x)) \o e[ch] = Spread(e, s) \o (Spread(e, x) \o e[ch])
    BY <2>3, ConcatAssociative
  <2>6. Spread(e, s \o Append(x, ch)) = Spread(e, s) \o Spread(e, Append(x, ch))
    BY <2>1, <2>3, <2>4, <2>5
  <2>7. QED
    BY <2>2, <2>6
<1>3. Seq(V) \subseteq Split
  <2> HIDE DEF Split
  <2> QED BY <1>1, <1>2, TextInduction
<1>4. QED
  BY <1>3

-----------------------------------------------------------------------------
(* Take keeps the first n characters, and all of a shorter text.           *)
LEMMA TakeIsAPrefix ==
  ASSUME NEW V, NEW text \in Seq(V), NEW n \in Nat
  PROVE  /\ Take(text, n) \in Seq(V)
         /\ Len(Take(text, n)) = IF Len(text) < n THEN Len(text) ELSE n
         /\ \A i \in 1 .. Len(Take(text, n)) : i \in 1 .. Len(text) /\ Take(text, n)[i] = text[i]
         /\ Len(text) <= n => Take(text, n) = text
<1> DEFINE k == IF Len(text) < n THEN Len(text) ELSE n
<1>1. k \in 0 .. Len(text) /\ (k = IF Len(text) < n THEN Len(text) ELSE n) /\ Len(text) \in Nat
  OBVIOUS
<1>2. Take(text, n) = SubSeq(text, 1, k)
  BY DEF Take
<1> HIDE DEF k
<1>3. \A i \in 1 .. k : text[i] \in V
  BY <1>1
<1>4. /\ SubSeq(text, 1, k) \in Seq(V) /\ Len(SubSeq(text, 1, k)) = k
      /\ \A i \in 1 .. k : SubSeq(text, 1, k)[i] = text[i]
  BY <1>1, <1>3
<1>5. Len(text) <= n => Take(text, n) = text
  <2> SUFFICES ASSUME Len(text) <= n PROVE Take(text, n) = text
    OBVIOUS
  <2>1. k = Len(text)
    BY <1>1
  <2>2. QED
    BY <1>2, <2>1, SubSeqFull
<1>6. Take(text, n) \in Seq(V) /\ Len(Take(text, n)) = k
  BY <1>2, <1>4
<1>7. \A i \in 1 .. k : i \in 1 .. Len(text) /\ Take(text, n)[i] = text[i]
  BY <1>1, <1>2, <1>4
<1>8. QED
  BY <1>1, <1>2, <1>5, <1>6, <1>7, Zenon

(* The characters kept are followed by those that are not.                 *)
LEMMA TakeThenTheRest ==
  ASSUME NEW V, NEW text \in Seq(V), NEW n \in Nat
  PROVE  \E rest \in Seq(V) : text = Take(text, n) \o rest
<1> DEFINE k == IF Len(text) < n THEN Len(text) ELSE n
<1>1. k \in 0 .. Len(text) /\ Len(text) \in Nat
  OBVIOUS
<1>2. Take(text, n) = SubSeq(text, 1, k)
  BY DEF Take
<1> HIDE DEF k
<1>3. \E rest \in Seq(V) : text = SubSeq(text, 1, k) \o rest
  <2> DEFINE rest == SubSeq(text, k + 1, Len(text))
  <2>1. rest \in Seq(V)
    <3>1. k + 1 \in Int /\ Len(text) \in Int /\ \A i \in k + 1 .. Len(text) : text[i] \in V
      BY <1>1
    <3>2. QED
      BY <3>1, SubSeqProperties
  <2>2. SubSeq(text, 1, k) \o rest = SubSeq(text, 1, Len(text))
    <3>1. /\ 1 \in 1 .. Len(text) + 1 /\ k \in 1 - 1 .. Len(text)
          /\ Len(text) \in k .. Len(text)
      BY <1>1
    <3>2. QED
      BY <3>1, ConcatAdjacentSubSeq
  <2>3. QED
    <3> HIDE DEF rest
    <3> QED BY <2>1, <2>2, SubSeqFull
<1>4. QED
  BY <1>2, <1>3, Zenon

(* A non-empty set of positions has a first and a last one.                *)
LEMMA FirstAndLast ==
  ASSUME NEW n \in Nat, NEW S, S \subseteq 1 .. n, S # {}
  PROVE  /\ Min(S) \in S /\ \A i \in S : Min(S) <= i
         /\ Max(S) \in S /\ \A i \in S : i <= Max(S)
<1>1. \E x \in S : \A y \in S : x <= y
  <2>1. S \subseteq Nat
    OBVIOUS
  <2>2. QED
    BY <2>1, LeastNumber
<1>2. \E x \in S : \A y \in S : x >= y
  <2> DEFINE T == {n - i : i \in S}
  <2>1. T \subseteq Nat /\ T # {}
    <3>1. \A i \in S : n - i \in Nat
      OBVIOUS
    <3>2. QED
      BY <3>1
  <2>2. PICK least \in T : \A k \in T : least <= k
    <3> HIDE DEF T
    <3> QED BY <2>1, LeastNumber
  <2>3. PICK x \in S : least = n - x
    OBVIOUS
  <2>4. ASSUME NEW y \in S PROVE x >= y
    <3>1. n - y \in T
      OBVIOUS
    <3>2. least <= n - y
      BY <2>2, <3>1
    <3>3. x \in Nat /\ y \in Nat
      OBVIOUS
    <3>4. QED
      BY <2>3, <3>2, <3>3
  <2>5. QED
    BY <2>4
<1>3. Min(S) \in S /\ \A y \in S : Min(S) <= y
  BY <1>1 DEF Min
<1>4. Max(S) \in S /\ \A y \in S : Max(S) >= y
  BY <1>2 DEF Max
<1>5. QED
  BY <1>3, <1>4

(* Trim cuts off blanks only, at both ends, and all of them.               *)
LEMMA TrimIsTheMiddle ==
  ASSUME NEW V, NEW text \in Seq(V)
  PROVE  /\ Trim(text) \in Seq(V)
         /\ Trim(text) = <<>> <=> Solid(text) = {}
         /\ Solid(text) # {} =>
              \E a, b \in Solid(text) :
                /\ a <= b /\ Trim(text) = SubSeq(text, a, b)
                /\ \A i \in Solid(text) : a <= i /\ i <= b
<1> USE DEF Solid
<1>1. Solid(text) \subseteq 1 .. Len(text) /\ Len(text) \in Nat
  OBVIOUS
<1>2. CASE Solid(text) = {}
  BY <1>2 DEF Trim
<1>3. CASE Solid(text) # {}
  <2> DEFINE a == Min(Solid(text))
             b == Max(Solid(text))
  <2>1. a \in Solid(text) /\ b \in Solid(text) /\ \A i \in Solid(text) : a <= i /\ i <= b
    <3> HIDE DEF Solid
    <3> QED BY <1>1, <1>3, FirstAndLast
  <2>2. Trim(text) = SubSeq(text, a, b)
    BY <1>3 DEF Trim
  <2> HIDE DEF a, b
  <2>3. a \in 1 .. Len(text) /\ b \in 1 .. Len(text) /\ a <= b
    BY <1>1, <2>1
  <2>4. \A i \in a .. b : text[i] \in V
    BY <1>1, <2>3
  <2>5. Trim(text) \in Seq(V) /\ Len(Trim(text)) = b - a + 1
    BY <2>2, <2>3, <2>4, SubSeqProperties
  <2>6. Trim(text) # <<>>
    BY <2>3, <2>5
  <2>7. QED
    BY <1>3, <2>1, <2>2, <2>3, <2>5, <2>6
<1>4. QED
  BY <1>2, <1>3

(* And nothing is left to cut off.                                         *)
LEMMA TrimTwice ==
  ASSUME NEW V, NEW text \in Seq(V)
  PROVE  Trim(Trim(text)) = Trim(text)
<1> DEFINE t == Trim(text)
<1>1. CASE Solid(text) = {}
  <2>1. t = <<>>
    BY <1>1 DEF Trim
  <2>2. Solid(t) = {}
    BY <2>1 DEF Solid
  <2>3. Trim(t) = <<>>
    BY <2>2 DEF Trim
  <2>4. QED
    BY <2>1, <2>3
<1>2. CASE Solid(text) # {}
  <2>1. t \in Seq(V) /\ t # <<>>
    BY <1>2, TrimIsTheMiddle
  <2>2. PICK a, b \in Solid(text) : a <= b /\ t = SubSeq(text, a, b)
    BY <1>2, TrimIsTheMiddle
  <2>3. /\ a \in 1 .. Len(text) /\ b \in 1 .. Len(text) /\ Len(text) \in Nat
        /\ text[a] # Blank /\ text[b] # Blank
    BY DEF Solid
  <2>4. Len(t) = b - a + 1 /\ t[1] = text[a] /\ t[Len(t)] = text[b]
    BY <2>2, <2>3
  <2> HIDE DEF t
  <2>5. Len(t) \in Nat /\ 1 \in Solid(t) /\ Len(t) \in Solid(t) /\ Solid(t) \subseteq 1 .. Len(t)
    BY <2>1, <2>2, <2>3, <2>4 DEF Solid
  <2>6. PICK c, d \in Solid(t) : Trim(t) = SubSeq(t, c, d) /\ \A i \in Solid(t) : c <= i /\ i <= d
    BY <2>1, <2>5, TrimIsTheMiddle
  <2>7. c = 1 /\ d = Len(t)
    BY <2>5, <2>6
  <2>8. QED
    BY <2>1, <2>6, <2>7, SubSeqFull DEF t
<1>3. QED
  BY <1>1, <1>2
=============================================================================
