------------------------- MODULE EventStream_proofs -------------------------
(***************************************************************************)
(* Proofs about listen: however the stream of events is cut into chunks,   *)
(* of any length and number, the changes it tells are handed on in order,  *)
(* each once, none early and none late.                                    *)
(***************************************************************************)
EXTENDS EventStream, SequenceTheorems, NaturalsInduction, WellFoundedInduction, TLAPS

-----------------------------------------------------------------------------
\* Numbers.
LEMMA LeastNumber ==
  ASSUME NEW S \in SUBSET Nat, S # {}
  PROVE  \E n \in S : \A k \in S : n <= k
<1>1. OpToRel(<, Nat) = {ss \in Nat \X Nat : ss[1] < ss[2]}
  BY Zenon DEF OpToRel
<1>2. IsWellFoundedOn({ss \in Nat \X Nat : ss[1] < ss[2]}, Nat)
  BY <1>1, NatLessThanWellFounded, Zenon
<1>3. PICK R : R = {ss \in Nat \X Nat : ss[1] < ss[2]}
  OBVIOUS
<1>4. PICK n \in S : \A k \in S : <<k, n>> \notin R
  BY <1>2, <1>3, WFMin
<1>5. ASSUME NEW k \in S PROVE n <= k
  <2>1. k \in Nat /\ n \in Nat /\ <<k, n>> \in Nat \X Nat
    OBVIOUS
  <2>2. k < n => <<k, n>> \in R
    BY <1>3, <2>1
  <2> QED BY <1>4, <2>1, <2>2
<1> QED BY <1>5

\* Induction up to a bound, for a set of numbers.
LEMMA SetInduction ==
  ASSUME NEW N \in Nat, NEW S, 0 \in S, \A n \in 0..N : n < N /\ n \in S => n + 1 \in S
  PROVE  0..N \subseteq S
<1>1. PICK T \in SUBSET Nat : T = {n \in 0..N : n \notin S}
  <2>1. {n \in 0..N : n \notin S} \in SUBSET Nat
    OBVIOUS
  <2> QED BY <2>1
<1>2. ASSUME T # {} PROVE FALSE
  <2>1. PICK n \in T : \A k \in T : n <= k
    BY <1>2, LeastNumber
  <2>2. n \in 0..N /\ n # 0 /\ n - 1 \in 0..N /\ n - 1 < N /\ (n - 1) + 1 = n
    BY <1>1, <2>1
  <2>3. n - 1 \notin T
    BY <2>1, <2>2
  <2> QED BY <1>1, <2>1, <2>2, <2>3
<1> QED BY <1>1, <1>2

\* A function may be defined by what each of its values is made of the one before.
Unfolds(f, n, a, step) ==
  /\ f[0] = a
  /\ \A i \in 1..n : f[i] = step[i][f[i - 1]]

LEMMA Recursion ==
  ASSUME NEW N \in Nat, NEW V, NEW a \in V, NEW step \in [1..N -> [V -> V]]
  PROVE  \E f \in [0..N -> V] : Unfolds(f, N, a, step)
<1> DEFINE S == {n \in 0..N : \E f \in [0..n -> V] : Unfolds(f, n, a, step)}
<1>1. 0 \in S
  <2>1. PICK f : f = [i \in 0..0 |-> a]
    OBVIOUS
  <2>2. f \in [0..0 -> V] /\ Unfolds(f, 0, a, step)
    BY <2>1 DEF Unfolds
  <2> QED BY <2>2
<1>2. ASSUME NEW n \in 0..N, n < N, n \in S PROVE n + 1 \in S
  <2>1. PICK f \in [0..n -> V] : Unfolds(f, n, a, step)
    BY <1>2
  <2>2. PICK g : g = [i \in 0..n + 1 |-> IF i = n + 1 THEN step[n + 1][f[n]] ELSE f[i]]
    OBVIOUS
  <2>3. n + 1 \in 1..N /\ f[n] \in V
    BY <1>2
  <2>4. step[n + 1][f[n]] \in V
    BY <2>3
  <2>5. g \in [0..n + 1 -> V]
    BY <2>2, <2>4
  <2>6. g[0] = a
    BY <2>1, <2>2 DEF Unfolds
  <2>7. ASSUME NEW i \in 1..n + 1 PROVE g[i] = step[i][g[i - 1]]
    <3>1. g[i - 1] = f[i - 1]
      BY <2>2
    <3>2. CASE i = n + 1
      BY <2>2, <3>1, <3>2
    <3>3. CASE i # n + 1
      <4>1. i \in 1..n
        BY <3>3
      <4>2. g[i] = f[i] /\ f[i] = step[i][f[i - 1]]
        BY <2>1, <2>2, <4>1 DEF Unfolds
      <4> QED BY <3>1, <4>2
    <3> QED BY <3>2, <3>3
  <2>8. Unfolds(g, n + 1, a, step)
    BY <2>6, <2>7 DEF Unfolds
  <2> QED BY <1>2, <2>3, <2>5, <2>8
<1>3. 0..N \subseteq S
  <2> HIDE DEF S
  <2> QED BY <1>1, <1>2, SetInduction
<1> QED BY <1>3

-----------------------------------------------------------------------------
\* FlattenSeq.
Piece(s, i, before) == IF i = 1 THEN s[i] ELSE before \o s[i]
IsFlat(s, n, f) == f = [i \in 1..n |-> Piece(s, i, f[i - 1])]

LEMMA FlatExists ==
  ASSUME NEW T, NEW n \in Nat, NEW s, \A i \in 1..n : s[i] \in Seq(T)
  PROVE  \E f : IsFlat(s, n, f)
<1>1. PICK step : step = [i \in 1..n |-> [v \in Seq(T) |-> Piece(s, i, v)]]
  OBVIOUS
<1>2. ASSUME NEW i \in 1..n, NEW v \in Seq(T) PROVE Piece(s, i, v) \in Seq(T)
  <2>1. s[i] \in Seq(T)
    OBVIOUS
  <2>2. v \o s[i] \in Seq(T)
    BY <2>1, ConcatProperties
  <2> QED BY <2>1, <2>2 DEF Piece
<1>3. step \in [1..n -> [Seq(T) -> Seq(T)]]
  BY <1>1, <1>2
<1>4. <<>> \in Seq(T)
  OBVIOUS
<1>5. PICK f \in [0..n -> Seq(T)] : Unfolds(f, n, <<>>, step)
  BY <1>3, <1>4, Recursion
<1>6. PICK g : g = [i \in 1..n |-> f[i]]
  OBVIOUS
<1>7. ASSUME NEW i \in 1..n PROVE g[i] = Piece(s, i, g[i - 1])
  <2>1. i - 1 \in 0..n /\ f[i - 1] \in Seq(T)
    BY <1>5
  <2>5. f[i] = step[i][f[i - 1]]
    BY <1>5 DEF Unfolds
  <2>2. g[i] = Piece(s, i, f[i - 1])
    BY <1>1, <1>6, <2>1, <2>5
  <2>3. CASE i = 1
    BY <2>2, <2>3 DEF Piece
  <2>4. CASE i # 1
    <3>1. i - 1 \in 1..n
      BY <2>4
    <3> QED BY <1>6, <2>2, <3>1
  <2> QED BY <2>3, <2>4
<1>8. g = [i \in 1..n |-> g[i]]
  BY <1>6
<1>9. g = [i \in 1..n |-> Piece(s, i, g[i - 1])]
  BY <1>7, <1>8
<1> QED BY <1>9 DEF IsFlat

LEMMA FlatFacts ==
  ASSUME NEW T, NEW n \in Nat, NEW s, \A i \in 1..n : s[i] \in Seq(T), NEW f, IsFlat(s, n, f)
  PROVE  /\ n > 0 => f[1] = s[1]
         /\ \A i \in 2..n : f[i] = f[i - 1] \o s[i]
         /\ \A i \in 1..n : f[i] \in Seq(T)
<1>1. ASSUME NEW i \in 1..n PROVE f[i] = Piece(s, i, f[i - 1])
  <2>1. PICK g : g = [j \in 1..n |-> Piece(s, j, f[j - 1])]
    OBVIOUS
  <2>2. f = g
    BY <2>1, Zenon DEF IsFlat
  <2> QED BY <2>1, <2>2
<1>2. n > 0 => f[1] = s[1]
  BY <1>1 DEF Piece
<1>3. ASSUME NEW i \in 2..n PROVE f[i] = f[i - 1] \o s[i]
  <2>1. i \in 1..n /\ i # 1
    OBVIOUS
  <2>2. f[i] = Piece(s, i, f[i - 1])
    BY <1>1, <2>1
  <2> QED BY <2>1, <2>2 DEF Piece
<1> DEFINE S == {i \in 0..n : i > 0 => f[i] \in Seq(T)}
<1>4. 0 \in S
  OBVIOUS
<1>5. ASSUME NEW i \in 0..n, i < n, i \in S PROVE i + 1 \in S
  <2>1. CASE i = 0
    BY <1>2, <1>5, <2>1
  <2>2. CASE i # 0
    <3>1. i + 1 \in 0..n /\ i + 1 \in 2..n /\ i + 1 \in 1..n /\ (i + 1) - 1 = i /\ f[i] \in Seq(T) /\ s[i + 1] \in Seq(T)
      BY <1>5, <2>2
    <3>2. f[i + 1] = f[i] \o s[i + 1]
      BY <1>3, <2>2, <3>1
    <3>3. f[i] \o s[i + 1] \in Seq(T)
      BY <3>1, ConcatProperties
    <3> QED BY <3>1, <3>2, <3>3
  <2> QED BY <2>1, <2>2
<1>6. 0..n \subseteq S
  <2> HIDE DEF S
  <2> QED BY <1>4, <1>5, SetInduction
<1>7. \A i \in 1..n : f[i] \in Seq(T)
  BY <1>6
<1> QED BY <1>2, <1>3, <1>7

LEMMA FlattenFacts ==
  ASSUME NEW T, NEW s \in Seq(Seq(T)), s # <<>>
  PROVE  \E f : /\ f[1] = s[1]
                /\ \A i \in 2..Len(s) : f[i] = f[i - 1] \o s[i]
                /\ \A i \in 1..Len(s) : f[i] \in Seq(T)
                /\ FlattenSeq(s) = f[Len(s)]
<1>1. Len(s) \in Nat /\ Len(s) # 0 /\ \A i \in 1..Len(s) : s[i] \in Seq(T)
  OBVIOUS
<1> DEFINE f == CHOOSE g : IsFlat(s, Len(s), g)
<1>2. IsFlat(s, Len(s), f)
  BY <1>1, FlatExists
<1>3. FlattenSeq(s) = f[Len(s)]
  BY <1>1 DEF FlattenSeq, IsFlat, Piece
<1> HIDE DEF f
<1>4. PICK n \in Nat : n = Len(s)
  BY <1>1
<1>5. n > 0 /\ IsFlat(s, n, f) /\ \A i \in 1..n : s[i] \in Seq(T)
  BY <1>1, <1>2, <1>4
<1>6. /\ n > 0 => f[1] = s[1]
      /\ \A i \in 2..n : f[i] = f[i - 1] \o s[i]
      /\ \A i \in 1..n : f[i] \in Seq(T)
  BY <1>5, FlatFacts
<1> QED BY <1>3, <1>4, <1>5, <1>6

LEMMA FlattenEmpty == FlattenSeq(<<>>) = <<>>
BY DEF FlattenSeq

LEMMA FlattenFew ==
  ASSUME NEW T, NEW s \in Seq(Seq(T))
  PROVE  /\ Len(s) = 1 => FlattenSeq(s) = s[1]
         /\ Len(s) = 2 => FlattenSeq(s) = s[1] \o s[2]
         /\ Len(s) = 3 => FlattenSeq(s) = (s[1] \o s[2]) \o s[3]
<1>1. CASE s = <<>>
  BY <1>1
<1>2. CASE s # <<>>
  <2>1. PICK f : /\ f[1] = s[1]
                 /\ \A i \in 2..Len(s) : f[i] = f[i - 1] \o s[i]
                 /\ FlattenSeq(s) = f[Len(s)]
    BY <1>2, FlattenFacts
  <2>2. ASSUME Len(s) = 2 \/ Len(s) = 3 PROVE f[2] = s[1] \o s[2]
    <3>1. 2 \in 2..Len(s) /\ 2 - 1 = 1
      BY <2>2
    <3>2. f[2] = f[1] \o s[2]
      BY <2>1, <3>1
    <3> QED BY <2>1, <3>2
  <2>3. ASSUME Len(s) = 3 PROVE f[3] = (s[1] \o s[2]) \o s[3]
    <3>1. 3 \in 2..Len(s) /\ 3 - 1 = 2
      BY <2>3
    <3>2. f[3] = f[2] \o s[3]
      BY <2>1, <3>1
    <3> QED BY <2>2, <2>3, <3>2
  <2> QED BY <2>1, <2>2, <2>3
<1> QED BY <1>1, <1>2

-----------------------------------------------------------------------------
\* The tokens of an event.
LineEnds == {<<LF>>, <<CR, LF>>}
Lines(lines, nl) == FlattenSeq([i \in 1..Len(lines) |-> lines[i] \o nl]) \o nl

\* One token, or two, at the end of n.
AddedOne(T, x, n, a, y) ==
  y \in Seq(T) /\ Len(y) = n + 1 /\ (\A i \in 1..n : y[i] = x[i]) /\ y[n + 1] = a
AddedTwo(T, x, n, a, b, y) ==
  /\ y \in Seq(T) /\ Len(y) = n + 2 /\ (\A i \in 1..n : y[i] = x[i])
  /\ y[n + 1] = a /\ y[n + 2] = b

LEMMA AddOne ==
  ASSUME NEW T, NEW x \in Seq(T), NEW n \in Nat, Len(x) = n, NEW a \in T, NEW y, y = x \o <<a>>
  PROVE  AddedOne(T, x, n, a, y)
<1>1. <<a>> \in Seq(T) /\ Len(<<a>>) = 1 /\ <<a>>[1] = a
  OBVIOUS
<1>2. /\ y \in Seq(T) /\ Len(y) = Len(x) + Len(<<a>>)
      /\ \A i \in 1..Len(x) + Len(<<a>>) : y[i] = IF i <= Len(x) THEN x[i] ELSE <<a>>[i - Len(x)]
  BY <1>1, ConcatProperties
<1>3. \A i \in 1..n + 1 : y[i] = IF i <= n THEN x[i] ELSE <<a>>[i - n]
  BY <1>1, <1>2
<1>4. (n + 1) - n = 1 /\ ~(n + 1 <= n) /\ n + 1 \in 1..n + 1
  OBVIOUS
<1>5. y[n + 1] = a
  BY <1>1, <1>3, <1>4
<1> QED BY <1>1, <1>2, <1>3, <1>5 DEF AddedOne

LEMMA AddTwo ==
  ASSUME NEW T, NEW x \in Seq(T), NEW n \in Nat, Len(x) = n, NEW a \in T, NEW b \in T,
         NEW y, y = x \o <<a, b>>
  PROVE  AddedTwo(T, x, n, a, b, y)
<1>1. <<a, b>> \in Seq(T) /\ Len(<<a, b>>) = 2 /\ <<a, b>>[1] = a /\ <<a, b>>[2] = b
  OBVIOUS
<1>2. /\ y \in Seq(T) /\ Len(y) = Len(x) + Len(<<a, b>>)
      /\ \A i \in 1..Len(x) + Len(<<a, b>>) : y[i] = IF i <= Len(x) THEN x[i] ELSE <<a, b>>[i - Len(x)]
  BY <1>1, ConcatProperties
<1>3. \A i \in 1..n + 2 : y[i] = IF i <= n THEN x[i] ELSE <<a, b>>[i - n]
  BY <1>1, <1>2
<1>4. /\ (n + 1) - n = 1 /\ ~(n + 1 <= n) /\ n + 1 \in 1..n + 2
      /\ (n + 2) - n = 2 /\ ~(n + 2 <= n) /\ n + 2 \in 1..n + 2
  OBVIOUS
<1>5. y[n + 1] = a /\ y[n + 2] = b
  BY <1>1, <1>3, <1>4
<1> QED BY <1>1, <1>2, <1>3, <1>5 DEF AddedTwo

\* Up to three pieces of w tokens each, one after the other.
Joined(F, p, w) ==
  /\ Len(p) = 1 => Len(F) = w
  /\ Len(p) = 2 => Len(F) = w + w
  /\ Len(p) = 3 => Len(F) = w + w + w
  /\ \A j \in 1..w : F[j] = p[1][j]
  /\ Len(p) > 1 => \A j \in 1..w : F[w + j] = p[2][j]
  /\ Len(p) > 2 => \A j \in 1..w : F[w + w + j] = p[3][j]

LEMMA FlattenJoins ==
  ASSUME NEW T, NEW w \in Nat, NEW p \in Seq(Seq(T)), Len(p) \in 1..3,
         \A l \in 1..Len(p) : Len(p[l]) = w
  PROVE  FlattenSeq(p) \in Seq(T) /\ Joined(FlattenSeq(p), p, w)
<1> \A l \in 1..Len(p) : p[l] \in Seq(T) /\ Len(p[l]) = w
  OBVIOUS
<1>1. CASE Len(p) = 1
  <2>1. 1 \in 1..Len(p)
    BY <1>1
  <2>2. p[1] \in Seq(T) /\ Len(p[1]) = w
    BY <2>1
  <2>3. FlattenSeq(p) = p[1]
    BY <1>1, FlattenFew
  <2> QED BY <1>1, <2>2, <2>3 DEF Joined
<1>2. CASE Len(p) = 2 \/ Len(p) = 3
  <2>1. PICK x, y : x = p[1] /\ y = p[2]
    OBVIOUS
  <2>2. x \in Seq(T) /\ Len(x) = w /\ y \in Seq(T) /\ Len(y) = w
    BY <1>2, <2>1
  <2>3. PICK G : G = x \o y
    OBVIOUS
  <2>4. /\ G \in Seq(T) /\ Len(G) = w + w
        /\ \A i \in 1..w + w : G[i] = IF i <= w THEN x[i] ELSE y[i - w]
    <3>1. Len(x) + Len(y) = w + w
      BY <2>2
    <3>2. /\ G \in Seq(T) /\ Len(G) = Len(x) + Len(y)
          /\ \A i \in 1..Len(x) + Len(y) : G[i] = IF i <= Len(x) THEN x[i] ELSE y[i - Len(x)]
      BY <2>2, <2>3, ConcatProperties
    <3> QED BY <2>2, <3>1, <3>2
  <2>5. /\ \A j \in 1..w : G[j] = x[j]
        /\ \A j \in 1..w : G[w + j] = y[j]
    <3>1. ASSUME NEW j \in 1..w PROVE G[j] = x[j]
      BY <2>4
    <3>2. ASSUME NEW j \in 1..w PROVE G[w + j] = y[j]
      <4>1. w + j \in 1..w + w /\ ~(w + j <= w) /\ (w + j) - w = j
        OBVIOUS
      <4> QED BY <2>4, <4>1
    <3> QED BY <3>1, <3>2
  <2>6. CASE Len(p) = 2
    <3>1. FlattenSeq(p) = G
      BY <2>1, <2>3, <2>6, FlattenFew
    <3> QED BY <2>1, <2>4, <2>5, <2>6, <3>1 DEF Joined
  <2>7. CASE Len(p) = 3
    <3>1. PICK z : z = p[3]
      OBVIOUS
    <3>2. z \in Seq(T) /\ Len(z) = w
      <4>1. 3 \in 1..Len(p)
        BY <2>7
      <4> QED BY <3>1, <4>1
    <3>3. PICK F : F = G \o z
      OBVIOUS
    <3>4. FlattenSeq(p) = F
      BY <2>1, <2>3, <2>7, <3>1, <3>3, FlattenFew
    <3>5. /\ F \in Seq(T) /\ Len(F) = (w + w) + w
          /\ \A i \in 1..(w + w) + w : F[i] = IF i <= w + w THEN G[i] ELSE z[i - (w + w)]
      BY <2>4, <3>2, <3>3, ConcatProperties
    <3>6. ASSUME NEW j \in 1..w
          PROVE  F[j] = x[j] /\ F[w + j] = y[j] /\ F[w + w + j] = z[j]
      <4>1. /\ j \in 1..(w + w) + w /\ w + j \in 1..(w + w) + w /\ w + w + j \in 1..(w + w) + w
            /\ j <= w + w /\ w + j <= w + w /\ ~(w + w + j <= w + w) /\ (w + w + j) - (w + w) = j
        OBVIOUS
      <4>2. F[j] = G[j] /\ F[w + j] = G[w + j] /\ F[w + w + j] = z[j]
        BY <3>5, <4>1
      <4> QED BY <2>5, <4>2
    <3> QED BY <2>1, <2>7, <3>1, <3>4, <3>5, <3>6 DEF Joined
  <2> QED BY <1>2, <2>6, <2>7
<1> QED BY <1>1, <1>2

\* A line of an event has the name of a field and a value.
IsLine(l) == l \in Seq(Token) /\ Len(l) = 2

\* The tokens of n lines and of a blank one.
InLF(lines, n, B) ==
  /\ B \in Seq(Token) /\ Len(B) = 3 * n + 1 /\ B[3 * n + 1] = LF
  /\ \A l \in 1..n : B[3 * l - 2] = lines[l][1] /\ B[3 * l - 1] = lines[l][2] /\ B[3 * l] = LF

InCRLF(lines, n, B) ==
  /\ B \in Seq(Token) /\ Len(B) = 4 * n + 2 /\ B[4 * n + 1] = CR /\ B[4 * n + 2] = LF
  /\ \A l \in 1..n : /\ B[4 * l - 3] = lines[l][1] /\ B[4 * l - 2] = lines[l][2]
                     /\ B[4 * l - 1] = CR /\ B[4 * l] = LF

LEMMA LineEndTokens == CR \in Token /\ LF \in Token
BY DEF Token

LEMMA LinesLF ==
  ASSUME NEW n \in 1..3, NEW lines \in Seq(Seq(Token)), Len(lines) = n,
         \A l \in 1..n : IsLine(lines[l])
  PROVE  InLF(lines, n, Lines(lines, <<LF>>))
<1>1. n = 1 \/ n = 2 \/ n = 3
  OBVIOUS
<1>2. PICK p : p = [i \in 1..n |-> lines[i] \o <<LF>>]
  OBVIOUS
<1>3. ASSUME NEW l \in 1..n
      PROVE  p[l] \in Seq(Token) /\ Len(p[l]) = 3 /\ p[l][1] = lines[l][1] /\ p[l][2] = lines[l][2] /\ p[l][3] = LF
  <2>1. lines[l] \in Seq(Token) /\ Len(lines[l]) = 2
    BY <1>1 DEF IsLine
  <2>2. PICK x, y : x \in Seq(Token) /\ x = lines[l] /\ y = x \o <<LF>>
    BY <2>1
  <2>3. AddedOne(Token, x, 2, LF, y)
    BY <2>1, <2>2, AddOne, LineEndTokens
  <2> QED BY <1>2, <2>2, <2>3 DEF AddedOne
<1>4. p \in Seq(Seq(Token)) /\ Len(p) = n
  BY <1>1, <1>2, <1>3
<1>5. PICK F : F = FlattenSeq(p)
  OBVIOUS
<1>6. F \in Seq(Token) /\ Joined(F, p, 3)
  BY <1>1, <1>3, <1>4, <1>5, FlattenJoins
<1>7. PICK B : B = F \o <<LF>>
  OBVIOUS
<1>8. Len(F) = 3 * n
  <2>1. Len(p) = n
    BY <1>4
  <2>2. CASE n = 1
    BY <1>6, <2>1, <2>2 DEF Joined
  <2>3. CASE n = 2
    BY <1>6, <2>1, <2>3 DEF Joined
  <2>4. CASE n = 3
    BY <1>6, <2>1, <2>4 DEF Joined
  <2> QED BY <1>1, <2>2, <2>3, <2>4
<1>9. B \in Seq(Token) /\ Len(B) = 3 * n + 1 /\ (\A i \in 1..3 * n : B[i] = F[i]) /\ B[3 * n + 1] = LF
  <2>1. AddedOne(Token, F, 3 * n, LF, B)
    <3>1. 3 * n \in Nat
      OBVIOUS
    <3> QED BY <1>6, <1>7, <1>8, <3>1, AddOne, LineEndTokens
  <2> QED BY <2>1 DEF AddedOne
<1>10. ASSUME NEW l \in 1..n
       PROVE  F[3 * l - 2] = p[l][1] /\ F[3 * l - 1] = p[l][2] /\ F[3 * l] = p[l][3]
  <2>1. CASE l = 1
    BY <1>6, <2>1 DEF Joined
  <2>2. CASE l = 2
    BY <1>1, <1>4, <1>6, <2>2 DEF Joined
  <2>3. CASE l = 3
    BY <1>1, <1>4, <1>6, <2>3 DEF Joined
  <2>4. l = 1 \/ l = 2 \/ l = 3
    BY <1>1
  <2> QED BY <2>1, <2>2, <2>3, <2>4
<1>11. ASSUME NEW l \in 1..n
       PROVE  B[3 * l - 2] = lines[l][1] /\ B[3 * l - 1] = lines[l][2] /\ B[3 * l] = LF
  <2>1. n \in Nat /\ 3 * l - 2 \in 1..3 * n /\ 3 * l - 1 \in 1..3 * n /\ 3 * l \in 1..3 * n
    BY <1>1
  <2> QED BY <1>3, <1>9, <1>10, <2>1
<1>12. Lines(lines, <<LF>>) = B
  BY <1>1, <1>2, <1>5, <1>7 DEF Lines
<1> QED BY <1>9, <1>11, <1>12 DEF InLF

LEMMA LinesCRLF ==
  ASSUME NEW n \in 1..3, NEW lines \in Seq(Seq(Token)), Len(lines) = n,
         \A l \in 1..n : IsLine(lines[l])
  PROVE  InCRLF(lines, n, Lines(lines, <<CR, LF>>))
<1>1. n = 1 \/ n = 2 \/ n = 3
  OBVIOUS
<1>2. PICK p : p = [i \in 1..n |-> lines[i] \o <<CR, LF>>]
  OBVIOUS
<1>3. ASSUME NEW l \in 1..n
      PROVE  p[l] \in Seq(Token) /\ Len(p[l]) = 4 /\ p[l][1] = lines[l][1] /\ p[l][2] = lines[l][2]
             /\ p[l][3] = CR /\ p[l][4] = LF
  <2>1. lines[l] \in Seq(Token) /\ Len(lines[l]) = 2
    BY <1>1 DEF IsLine
  <2>2. PICK x, y : x \in Seq(Token) /\ x = lines[l] /\ y = x \o <<CR, LF>>
    BY <2>1
  <2>3. AddedTwo(Token, x, 2, CR, LF, y)
    BY <2>1, <2>2, AddTwo, LineEndTokens
  <2>4. p[l] = y
    BY <1>2, <2>2
  <2>5. /\ y \in Seq(Token) /\ Len(y) = 4 /\ y[1] = x[1] /\ y[2] = x[2] /\ y[3] = CR /\ y[4] = LF
    BY <2>3 DEF AddedTwo
  <2> QED BY <2>2, <2>4, <2>5
<1>4. p \in Seq(Seq(Token)) /\ Len(p) = n
  BY <1>1, <1>2, <1>3
<1>5. PICK F : F = FlattenSeq(p)
  OBVIOUS
<1>6. F \in Seq(Token) /\ Joined(F, p, 4)
  BY <1>1, <1>3, <1>4, <1>5, FlattenJoins
<1>7. PICK B : B = F \o <<CR, LF>>
  OBVIOUS
<1>8. Len(F) = 4 * n
  <2>1. Len(p) = n
    BY <1>4
  <2>2. CASE n = 1
    BY <1>6, <2>1, <2>2 DEF Joined
  <2>3. CASE n = 2
    BY <1>6, <2>1, <2>3 DEF Joined
  <2>4. CASE n = 3
    BY <1>6, <2>1, <2>4 DEF Joined
  <2> QED BY <1>1, <2>2, <2>3, <2>4
<1>9. B \in Seq(Token) /\ Len(B) = 4 * n + 2 /\ (\A i \in 1..4 * n : B[i] = F[i])
      /\ B[4 * n + 1] = CR /\ B[4 * n + 2] = LF
  <2>1. AddedTwo(Token, F, 4 * n, CR, LF, B)
    <3>1. 4 * n \in Nat
      OBVIOUS
    <3> QED BY <1>6, <1>7, <1>8, <3>1, AddTwo, LineEndTokens
  <2> QED BY <2>1 DEF AddedTwo
<1>10. ASSUME NEW l \in 1..n
       PROVE  F[4 * l - 3] = p[l][1] /\ F[4 * l - 2] = p[l][2] /\ F[4 * l - 1] = p[l][3] /\ F[4 * l] = p[l][4]
  <2>1. CASE l = 1
    BY <1>6, <2>1 DEF Joined
  <2>2. CASE l = 2
    BY <1>1, <1>4, <1>6, <2>2 DEF Joined
  <2>3. CASE l = 3
    BY <1>1, <1>4, <1>6, <2>3 DEF Joined
  <2>4. l = 1 \/ l = 2 \/ l = 3
    BY <1>1
  <2> QED BY <2>1, <2>2, <2>3, <2>4
<1>11. ASSUME NEW l \in 1..n
       PROVE  B[4 * l - 3] = lines[l][1] /\ B[4 * l - 2] = lines[l][2]
                                /\ B[4 * l - 1] = CR /\ B[4 * l] = LF
  <2>1. /\ n \in Nat /\ 4 * l - 3 \in 1..4 * n /\ 4 * l - 2 \in 1..4 * n
        /\ 4 * l - 1 \in 1..4 * n /\ 4 * l \in 1..4 * n
    BY <1>1
  <2> QED BY <1>3, <1>9, <1>10, <2>1
<1>12. Lines(lines, <<CR, LF>>) = B
  BY <1>1, <1>2, <1>5, <1>7 DEF Lines
<1> QED BY <1>9, <1>11, <1>12 DEF InCRLF

\* The names of fields, and what may follow one in its line.
Fields   == {Event, Data, Comment}
Contents == {Text("state"), Text("ping"), Text("keep-alive")}
              \cup [is : {"json"}, account : {"own", "other"}, change : Nat, part : Nat, n : Nat]

LEMMA TokensDiffer ==
  /\ CR # LF /\ CR \notin Fields \cup Contents /\ LF \notin Fields \cup Contents
  /\ Event # Data /\ Comment # Event /\ Comment # Data
  /\ Fields \cap Contents = {}
<1>1. \A x \in Fields : x.is \in {"event:", "data:", ":"}
  BY DEF Fields, Event, Data, Comment
<1>2. \A x \in Contents : x.is \in {"state", "ping", "keep-alive", "json"}
  BY DEF Contents, Text
<1>3. CR.is = "cr" /\ LF.is = "lf" /\ Event.is = "event:" /\ Data.is = "data:" /\ Comment.is = ":"
  BY DEF CR, LF, Event, Data, Comment
<1>4. Fields \cap Contents = {}
  <2>1. ASSUME NEW x \in Fields, x \in Contents PROVE FALSE
    BY <1>1, <1>2, <2>1
  <2> QED BY <2>1
<1> QED BY <1>1, <1>2, <1>3, <1>4

\* An event has one to three lines.
Lined(lines, n) ==
  /\ lines \in Seq(Seq(Token)) /\ Len(lines) = n
  /\ \A l \in 1..n : IsLine(lines[l]) /\ lines[l][1] \in Fields /\ lines[l][2] \in Contents

LEMMA LinesOfFacts ==
  ASSUME NEW kind \in Kinds, NEW k \in Nat
  PROVE  \E n \in 1..3 : Lined(LinesOf(kind, k), n)
<1> DEFINE Good(x) == x \in Seq(Token) /\ Len(x) = 2 /\ x[1] \in Fields /\ x[2] \in Contents
<1>1. ASSUME NEW a \in Fields, NEW b \in Contents PROVE Good(<<a, b>>)
  BY DEF Fields, Contents, Token
<1>2. /\ Event \in Fields /\ Data \in Fields /\ Comment \in Fields
      /\ Text("state") \in Contents /\ Text("ping") \in Contents /\ Text("keep-alive") \in Contents
      /\ \A a \in {"own", "other"} : \A p, n \in Nat : Json(a, k, p, n) \in Contents
  BY DEF Fields, Contents, Json
<1>3. ASSUME NEW x, Good(x) PROVE Lined(<<x>>, 1)
  BY <1>3 DEF Lined, IsLine
<1>4. ASSUME NEW x, NEW y, Good(x), Good(y) PROVE Lined(<<x, y>>, 2)
  BY <1>4 DEF Lined, IsLine
<1>5. ASSUME NEW x, NEW y, NEW z, Good(x), Good(y), Good(z) PROVE Lined(<<x, y, z>>, 3)
  BY <1>5 DEF Lined, IsLine
<1>6. /\ Good(<<Event, Text("state")>>) /\ Good(<<Event, Text("ping")>>)
      /\ Good(<<Comment, Text("keep-alive")>>)
      /\ \A a \in {"own", "other"} : \A p, n \in Nat : Good(<<Data, Json(a, k, p, n)>>)
  BY <1>1, <1>2
<1> HIDE DEF Good
<1>7. 1 \in 1..3 /\ 2 \in 1..3 /\ 3 \in 1..3
  OBVIOUS
<1>8. CASE kind = "state"
  BY <1>4, <1>6, <1>7, <1>8 DEF LinesOf
<1>9. CASE kind = "halves"
  BY <1>5, <1>6, <1>7, <1>9 DEF LinesOf
<1>10. CASE kind = "untyped"
  BY <1>3, <1>6, <1>7, <1>10 DEF LinesOf
<1>11. CASE kind = "empty"
  BY <1>3, <1>6, <1>7, <1>11 DEF LinesOf
<1>12. CASE kind = "foreign"
  BY <1>4, <1>6, <1>7, <1>12 DEF LinesOf
<1>13. CASE kind = "ping"
  BY <1>4, <1>6, <1>7, <1>13 DEF LinesOf
<1>14. CASE kind = "comment"
  BY <1>3, <1>6, <1>7, <1>14 DEF LinesOf
<1> QED BY <1>8, <1>9, <1>10, <1>11, <1>12, <1>13, <1>14 DEF Kinds

\* A blank line ends an event and is its only one.
FramedLF(B) ==
  LET L == Len(B)
  IN  /\ B \in Seq(Token) /\ L > 3 /\ B[L - 1] = LF /\ B[L] = LF
      /\ \A i \in 1..L - 2 : B[i] # LF \/ B[i + 1] # LF
      /\ \A i \in 1..L : B[i] # CR

FramedCRLF(B) ==
  LET L == Len(B)
  IN  /\ B \in Seq(Token) /\ L > 5
      /\ B[L - 3] = CR /\ B[L - 2] = LF /\ B[L - 1] = CR /\ B[L] = LF
      /\ \A i \in 1..L - 4 : B[i] # CR \/ B[i + 2] # CR
      /\ \A i \in 1..L - 1 : B[i] # LF \/ B[i + 1] # LF

LEMMA FramesLF ==
  ASSUME NEW n \in 1..3, NEW lines, Lined(lines, n), NEW B, InLF(lines, n, B)
  PROVE  FramedLF(B)
<1>1. Len(B) = 3 * n + 1 /\ B \in Seq(Token) /\ B[3 * n + 1] = LF
  BY DEF InLF
<1>2. ASSUME NEW l \in 1..n
      PROVE  /\ B[3 * l - 2] \notin {CR, LF} /\ B[3 * l - 1] \notin {CR, LF} /\ B[3 * l] = LF
  <2>1. lines[l][1] \in Fields /\ lines[l][2] \in Contents
    BY DEF Lined
  <2>2. B[3 * l - 2] = lines[l][1] /\ B[3 * l - 1] = lines[l][2] /\ B[3 * l] = LF
    BY DEF InLF
  <2> QED BY <2>1, <2>2, TokensDiffer
<1>3. CASE n = 1
  BY <1>1, <1>2, <1>3, TokensDiffer DEF FramedLF
<1>4. CASE n = 2
  BY <1>1, <1>2, <1>4, TokensDiffer DEF FramedLF
<1>5. CASE n = 3
  BY <1>1, <1>2, <1>5, TokensDiffer DEF FramedLF
<1> QED BY <1>3, <1>4, <1>5

LEMMA FramesCRLF ==
  ASSUME NEW n \in 1..3, NEW lines, Lined(lines, n), NEW B, InCRLF(lines, n, B)
  PROVE  FramedCRLF(B)
<1>1. /\ Len(B) = 4 * n + 2 /\ B \in Seq(Token) /\ B[4 * n + 1] = CR /\ B[4 * n + 2] = LF
  BY DEF InCRLF
<1>2. ASSUME NEW l \in 1..n
      PROVE  /\ B[4 * l - 3] \notin {CR, LF} /\ B[4 * l - 2] \notin {CR, LF}
             /\ B[4 * l - 1] = CR /\ B[4 * l] = LF
  <2>1. lines[l][1] \in Fields /\ lines[l][2] \in Contents
    BY DEF Lined
  <2>2. /\ B[4 * l - 3] = lines[l][1] /\ B[4 * l - 2] = lines[l][2]
        /\ B[4 * l - 1] = CR /\ B[4 * l] = LF
    BY DEF InCRLF
  <2> QED BY <2>1, <2>2, TokensDiffer
<1>3. CASE n = 1
  BY <1>1, <1>2, <1>3, TokensDiffer DEF FramedCRLF
<1>4. CASE n = 2
  BY <1>1, <1>2, <1>4, TokensDiffer DEF FramedCRLF
<1>5. CASE n = 3
  BY <1>1, <1>2, <1>5, TokensDiffer DEF FramedCRLF
<1> QED BY <1>3, <1>4, <1>5

-----------------------------------------------------------------------------
\* Cutting events out of the buffer.
LEMMA FindNone ==
  ASSUME NEW buf, NEW pattern,
         \A i \in 1..(Len(buf) - Len(pattern) + 1) : SubSeq(buf, i, i + Len(pattern) - 1) # pattern
  PROVE  Find(buf, pattern) = 0
BY DEF Find

LEMMA FindFirst ==
  ASSUME NEW buf, NEW pattern, NEW i \in Int, Len(buf) \in Nat, Len(pattern) \in Nat,
         i \in 1..(Len(buf) - Len(pattern) + 1), SubSeq(buf, i, i + Len(pattern) - 1) = pattern,
         \A j \in 1..(Len(buf) - Len(pattern) + 1) :
           SubSeq(buf, j, j + Len(pattern) - 1) = pattern => i <= j
  PROVE  Find(buf, pattern) = i
<1>1. PICK at : at = {j \in 1..(Len(buf) - Len(pattern) + 1) :
                        SubSeq(buf, j, j + Len(pattern) - 1) = pattern}
  OBVIOUS
<1>2. i \in at /\ (\A j \in at : i <= j) /\ at \subseteq Int
  <2>1. i \in at
    BY <1>1
  <2>2. \A j \in at : i <= j
    BY <1>1
  <2>3. at \subseteq Int
    BY <1>1
  <2> QED BY <2>1, <2>2, <2>3
<1>3. PICK c : c = CHOOSE x \in at : \A j \in at : x <= j
  OBVIOUS
<1>4. c \in at /\ \A j \in at : c <= j
  BY <1>2, <1>3, Zenon
<1>5. c = i
  BY <1>2, <1>4
<1> QED BY <1>1, <1>2, <1>3, <1>5 DEF Find

LEMMA TwoAt ==
  ASSUME NEW T, NEW buf \in Seq(T), NEW i \in 1..Len(buf) - 1, NEW a \in T, NEW b \in T
  PROVE  SubSeq(buf, i, i + 1) = <<a, b>> <=> buf[i] = a /\ buf[i + 1] = b
<1>1. PICK x : x = SubSeq(buf, i, i + 1)
  OBVIOUS
<1>2. x \in Seq(T) /\ Len(x) = 2 /\ x[1] = buf[i] /\ x[2] = buf[i + 1]
  <2>1. i \in Int /\ i + 1 \in Int /\ (i + 1) - i + 1 = 2 /\ i <= i + 1
        /\ 1 \in 1..2 /\ 2 \in 1..2 /\ i + 1 - 1 = i /\ i + 2 - 1 = i + 1
    OBVIOUS
  <2>2. \A j \in i..i + 1 : buf[j] \in T
    OBVIOUS
  <2>3. x \in Seq(T) /\ Len(x) = 2 /\ \A j \in 1..2 : x[j] = buf[i + j - 1]
    BY <1>1, <2>1, <2>2, SubSeqProperties
  <2> QED BY <2>1, <2>3
<1>3. PICK y : y = <<a, b>>
  OBVIOUS
<1>4. y \in Seq(T) /\ Len(y) = 2 /\ y[1] = a /\ y[2] = b
  <2>1. y \in Seq(T)
    BY <1>3
  <2>2. Len(y) = 2 /\ y[1] = a /\ y[2] = b
    BY <1>3
  <2> QED BY <2>1, <2>2
<1>5. ASSUME buf[i] = a, buf[i + 1] = b PROVE x = y
  <2>1. ASSUME NEW j \in 1..2 PROVE x[j] = y[j]
    <3>1. j = 1 \/ j = 2
      OBVIOUS
    <3> QED BY <1>2, <1>4, <1>5, <3>1
  <2> QED BY <1>2, <1>4, <2>1, SeqEqual
<1> QED BY <1>1, <1>2, <1>3, <1>4, <1>5

LEMMA FourAt ==
  ASSUME NEW T, NEW buf \in Seq(T), NEW i \in 1..Len(buf) - 3,
         NEW a \in T, NEW b \in T, NEW c \in T, NEW d \in T
  PROVE  SubSeq(buf, i, i + 3) = <<a, b, c, d>>
           <=> buf[i] = a /\ buf[i + 1] = b /\ buf[i + 2] = c /\ buf[i + 3] = d
<1>1. PICK x : x = SubSeq(buf, i, i + 3)
  OBVIOUS
<1>2. x \in Seq(T) /\ Len(x) = 4 /\ x[1] = buf[i] /\ x[2] = buf[i + 1] /\ x[3] = buf[i + 2] /\ x[4] = buf[i + 3]
  <2>1. /\ i \in Int /\ i + 3 \in Int /\ (i + 3) - i + 1 = 4 /\ i <= i + 3
        /\ 1 \in 1..4 /\ 2 \in 1..4 /\ 3 \in 1..4 /\ 4 \in 1..4
        /\ i + 1 - 1 = i /\ i + 2 - 1 = i + 1 /\ i + 3 - 1 = i + 2 /\ i + 4 - 1 = i + 3
    OBVIOUS
  <2>2. \A j \in i..i + 3 : buf[j] \in T
    OBVIOUS
  <2>3. x \in Seq(T) /\ Len(x) = 4 /\ \A j \in 1..4 : x[j] = buf[i + j - 1]
    BY <1>1, <2>1, <2>2, SubSeqProperties
  <2> QED BY <2>1, <2>3
<1>3. PICK y : y = <<a, b, c, d>>
  OBVIOUS
<1>4. y \in Seq(T) /\ Len(y) = 4 /\ y[1] = a /\ y[2] = b /\ y[3] = c /\ y[4] = d
  BY <1>3
<1>5. ASSUME buf[i] = a, buf[i + 1] = b, buf[i + 2] = c, buf[i + 3] = d PROVE x = y
  <2>1. ASSUME NEW j \in 1..4 PROVE x[j] = y[j]
    <3>1. j = 1 \/ j = 2 \/ j = 3 \/ j = 4
      OBVIOUS
    <3> QED BY <1>2, <1>4, <1>5, <3>1
  <2> QED BY <1>2, <1>4, <2>1, SeqEqual
<1> QED BY <1>1, <1>2, <1>3, <1>4, <1>5

\* The blank lines.
LEMMA FindLF ==
  ASSUME NEW buf \in Seq(Token), NEW m \in Nat
  PROVE  /\ (\A j \in 1..Len(buf) - 1 : buf[j] # LF \/ buf[j + 1] # LF) => Find(buf, <<LF, LF>>) = 0
         /\ /\ m \in 1..Len(buf) - 1 /\ buf[m] = LF /\ buf[m + 1] = LF
            /\ \A j \in 1..m - 1 : buf[j] # LF \/ buf[j + 1] # LF
            => Find(buf, <<LF, LF>>) = m
<1>1. PICK p : p = <<LF, LF>>
  OBVIOUS
<1>2. PICK N \in Nat : N = Len(buf)
  OBVIOUS
<1>3. Len(p) = 2 /\ N - Len(p) + 1 = N - 1
  BY <1>1
<1>4. ASSUME NEW j \in 1..N - 1
      PROVE  SubSeq(buf, j, j + Len(p) - 1) = p <=> buf[j] = LF /\ buf[j + 1] = LF
  <2>1. SubSeq(buf, j, j + 1) = <<LF, LF>> <=> buf[j] = LF /\ buf[j + 1] = LF
    BY <1>2, TwoAt, LineEndTokens
  <2>2. j + Len(p) - 1 = j + 1
    BY <1>3
  <2> QED BY <1>1, <2>1, <2>2
<1>5. ASSUME \A j \in 1..N - 1 : buf[j] # LF \/ buf[j + 1] # LF PROVE Find(buf, p) = 0
  <2>1. \A j \in 1..(Len(buf) - Len(p) + 1) : SubSeq(buf, j, j + Len(p) - 1) # p
    BY <1>2, <1>3, <1>4, <1>5
  <2> QED BY <2>1, FindNone
<1>6. ASSUME m \in 1..N - 1, buf[m] = LF, buf[m + 1] = LF,
             \A j \in 1..m - 1 : buf[j] # LF \/ buf[j + 1] # LF
      PROVE  Find(buf, p) = m
  <2>1. m \in Int /\ m \in 1..(Len(buf) - Len(p) + 1) /\ SubSeq(buf, m, m + Len(p) - 1) = p
    BY <1>2, <1>3, <1>4, <1>6
  <2>2. ASSUME NEW j \in 1..(Len(buf) - Len(p) + 1), SubSeq(buf, j, j + Len(p) - 1) = p
        PROVE  m <= j
    <3>1. j \in 1..N - 1
      BY <1>2, <1>3
    <3>2. buf[j] = LF /\ buf[j + 1] = LF
      BY <1>4, <2>2, <3>1
    <3> QED BY <1>6, <3>1, <3>2
  <2>3. Len(buf) \in Nat /\ Len(p) \in Nat
    BY <1>2, <1>3
  <2> QED BY <2>1, <2>2, <2>3, FindFirst
<1> QED BY <1>1, <1>2, <1>5, <1>6

LEMMA FindCRLF ==
  ASSUME NEW buf \in Seq(Token), NEW m \in Nat
  PROVE  /\ (\A j \in 1..Len(buf) - 3 : buf[j] # CR \/ buf[j + 2] # CR)
            => Find(buf, <<CR, LF, CR, LF>>) = 0
         /\ /\ m \in 1..Len(buf) - 3 /\ buf[m] = CR /\ buf[m + 1] = LF /\ buf[m + 2] = CR /\ buf[m + 3] = LF
            /\ \A j \in 1..m - 1 : buf[j] # CR \/ buf[j + 2] # CR
            => Find(buf, <<CR, LF, CR, LF>>) = m
<1>1. PICK p : p = <<CR, LF, CR, LF>>
  OBVIOUS
<1>2. PICK N \in Nat : N = Len(buf)
  OBVIOUS
<1>3. Len(p) = 4 /\ N - Len(p) + 1 = N - 3
  BY <1>1
<1>4. ASSUME NEW j \in 1..N - 3
      PROVE  SubSeq(buf, j, j + Len(p) - 1) = p
               <=> buf[j] = CR /\ buf[j + 1] = LF /\ buf[j + 2] = CR /\ buf[j + 3] = LF
  <2>1. SubSeq(buf, j, j + 3) = <<CR, LF, CR, LF>>
          <=> buf[j] = CR /\ buf[j + 1] = LF /\ buf[j + 2] = CR /\ buf[j + 3] = LF
    BY <1>2, FourAt, LineEndTokens
  <2>2. j + Len(p) - 1 = j + 3
    BY <1>3
  <2> QED BY <1>1, <2>1, <2>2
<1>5. ASSUME \A j \in 1..N - 3 : buf[j] # CR \/ buf[j + 2] # CR PROVE Find(buf, p) = 0
  <2>1. \A j \in 1..(Len(buf) - Len(p) + 1) : SubSeq(buf, j, j + Len(p) - 1) # p
    BY <1>2, <1>3, <1>4, <1>5
  <2> QED BY <2>1, FindNone
<1>6. ASSUME m \in 1..N - 3, buf[m] = CR, buf[m + 1] = LF, buf[m + 2] = CR, buf[m + 3] = LF,
             \A j \in 1..m - 1 : buf[j] # CR \/ buf[j + 2] # CR
      PROVE  Find(buf, p) = m
  <2>1. m \in Int /\ m \in 1..(Len(buf) - Len(p) + 1) /\ SubSeq(buf, m, m + Len(p) - 1) = p
    BY <1>2, <1>3, <1>4, <1>6
  <2>2. ASSUME NEW j \in 1..(Len(buf) - Len(p) + 1), SubSeq(buf, j, j + Len(p) - 1) = p
        PROVE  m <= j
    <3>1. j \in 1..N - 3
      BY <1>2, <1>3
    <3>2. buf[j] = CR /\ buf[j + 2] = CR
      BY <1>4, <2>2, <3>1
    <3> QED BY <1>6, <3>1, <3>2
  <2>3. Len(buf) \in Nat /\ Len(p) \in Nat
    BY <1>2, <1>3
  <2> QED BY <2>1, <2>2, <2>3, FindFirst
<1> QED BY <1>1, <1>2, <1>5, <1>6

\* While what has arrived is less than an event nothing is cut off; from then on
\* the event is, without its blank line.
Begins(B, buf) == \A i \in 1..Len(B) : i <= Len(buf) => buf[i] = B[i]
Cuts(B, buf, w) ==
  /\ Len(buf) < Len(B) => Split(buf) = NULL
  /\ Len(buf) >= Len(B) =>
       Split(buf) = [block |-> SubSeq(buf, 1, Len(B) - 2 * w), rest |-> SubSeq(buf, Len(B) + 1, Len(buf))]

LEMMA CutsLF ==
  ASSUME NEW buf \in Seq(Token), NEW B, FramedLF(B), Begins(B, buf),
         \A i \in 1..Len(buf) : buf[i] # CR
  PROVE  Cuts(B, buf, 1)
<1>1. PICK N \in Nat, L \in Nat : N = Len(buf) /\ L = Len(B)
  BY DEF FramedLF
<1>2. /\ L > 3 /\ B[L - 1] = LF /\ B[L] = LF /\ \A i \in 1..L - 2 : B[i] # LF \/ B[i + 1] # LF
  BY <1>1 DEF FramedLF
<1>3. \A i \in 1..L : i <= N => buf[i] = B[i]
  BY <1>1 DEF Begins
<1>4. Find(buf, <<CR, LF, CR, LF>>) = 0
  <2>1. 0 \in Nat /\ \A j \in 1..Len(buf) - 3 : buf[j] # CR \/ buf[j + 2] # CR
    BY <1>1
  <2> QED BY <2>1, FindCRLF
<1>5. CASE N < L
  <2>1. ASSUME NEW j \in 1..N - 1 PROVE buf[j] # LF \/ buf[j + 1] # LF
    <3>1. j \in 1..L - 2 /\ j \in 1..L /\ j + 1 \in 1..L /\ j <= N /\ j + 1 <= N
      BY <1>5
    <3> QED BY <1>2, <1>3, <3>1
  <2>2. Find(buf, <<LF, LF>>) = 0
    <3>1. 0 \in Nat
      OBVIOUS
    <3> QED BY <1>1, <2>1, <3>1, FindLF
  <2>3. Split(buf) = NULL
    BY <1>4, <2>2 DEF Split
  <2> QED BY <1>1, <1>5, <2>3 DEF Cuts
<1>6. CASE N >= L
  <2>1. PICK m \in Nat : m = L - 1
    BY <1>2
  <2>2. ASSUME NEW j \in 1..m - 1 PROVE buf[j] # LF \/ buf[j + 1] # LF
    <3>1. j \in 1..L - 2 /\ j \in 1..L /\ j + 1 \in 1..L /\ j <= N /\ j + 1 <= N
      BY <1>6, <2>1
    <3> QED BY <1>2, <1>3, <3>1
  <2>3. m \in 1..N - 1 /\ buf[m] = LF /\ buf[m + 1] = LF
    BY <1>2, <1>3, <1>6, <2>1
  <2>4. Find(buf, <<LF, LF>>) = m
    BY <1>1, <2>2, <2>3, FindLF
  <2>5. Split(buf) = SplitAt(buf, m, 2)
    BY <1>4, <2>3, <2>4 DEF Split
  <2>6. m - 1 = L - 2 * 1 /\ m + 2 = L + 1
    BY <2>1
  <2>7. Split(buf) = [block |-> SubSeq(buf, 1, L - 2 * 1), rest |-> SubSeq(buf, L + 1, N)]
    BY <1>1, <2>5, <2>6 DEF SplitAt
  <2> QED BY <1>1, <1>6, <2>7 DEF Cuts
<1> QED BY <1>5, <1>6

LEMMA CutsCRLF ==
  ASSUME NEW buf \in Seq(Token), NEW B, FramedCRLF(B), Begins(B, buf)
  PROVE  Cuts(B, buf, 2)
<1>1. PICK N \in Nat, L \in Nat : N = Len(buf) /\ L = Len(B)
  BY DEF FramedCRLF
<1>2. /\ L > 5 /\ B[L - 3] = CR /\ B[L - 2] = LF /\ B[L - 1] = CR /\ B[L] = LF
      /\ \A i \in 1..L - 4 : B[i] # CR \/ B[i + 2] # CR
      /\ \A i \in 1..L - 1 : B[i] # LF \/ B[i + 1] # LF
  BY <1>1 DEF FramedCRLF
<1>3. \A i \in 1..L : i <= N => buf[i] = B[i]
  BY <1>1 DEF Begins
<1>5. CASE N < L
  <2>1. ASSUME NEW j \in 1..N - 1 PROVE buf[j] # LF \/ buf[j + 1] # LF
    <3>1. j \in 1..L - 1 /\ j \in 1..L /\ j + 1 \in 1..L /\ j <= N /\ j + 1 <= N
      BY <1>5
    <3> QED BY <1>2, <1>3, <3>1
  <2>2. ASSUME NEW j \in 1..N - 3 PROVE buf[j] # CR \/ buf[j + 2] # CR
    <3>1. j \in 1..L - 4 /\ j \in 1..L /\ j + 2 \in 1..L /\ j <= N /\ j + 2 <= N
      BY <1>5
    <3> QED BY <1>2, <1>3, <3>1
  <2>3. 0 \in Nat
    OBVIOUS
  <2>4. Find(buf, <<LF, LF>>) = 0
    BY <1>1, <2>1, <2>3, FindLF
  <2>5. Find(buf, <<CR, LF, CR, LF>>) = 0
    BY <1>1, <2>2, <2>3, FindCRLF
  <2>6. Split(buf) = NULL
    BY <2>4, <2>5 DEF Split
  <2> QED BY <1>1, <1>5, <2>6 DEF Cuts
<1>6. CASE N >= L
  <2>1. PICK m \in Nat : m = L - 3
    BY <1>2
  <2>2. ASSUME NEW j \in 1..m - 1 PROVE buf[j] # CR \/ buf[j + 2] # CR
    <3>1. j \in 1..L - 4 /\ j \in 1..L /\ j + 2 \in 1..L /\ j <= N /\ j + 2 <= N
      BY <1>6, <2>1
    <3> QED BY <1>2, <1>3, <3>1
  <2>3. /\ m \in 1..N - 3 /\ buf[m] = CR /\ buf[m + 1] = LF /\ buf[m + 2] = CR /\ buf[m + 3] = LF
    <3>1. /\ m \in 1..N - 3 /\ m + 1 = L - 2 /\ m + 2 = L - 1 /\ m + 3 = L
          /\ m \in 1..L /\ m + 1 \in 1..L /\ m + 2 \in 1..L /\ m + 3 \in 1..L
          /\ m <= N /\ m + 1 <= N /\ m + 2 <= N /\ m + 3 <= N
      BY <1>2, <1>6, <2>1
    <3> QED BY <1>2, <1>3, <2>1, <3>1
  <2>4. Find(buf, <<CR, LF, CR, LF>>) = m
    BY <1>1, <2>2, <2>3, FindCRLF
  <2>5. Split(buf) = SplitAt(buf, m, 4)
    BY <2>3, <2>4 DEF Split
  <2>6. m - 1 = L - 2 * 2 /\ m + 4 = L + 1
    BY <2>1
  <2>7. Split(buf) = [block |-> SubSeq(buf, 1, L - 2 * 2), rest |-> SubSeq(buf, L + 1, N)]
    BY <1>1, <2>5, <2>6 DEF SplitAt
  <2> QED BY <1>1, <1>6, <2>7 DEF Cuts
<1> QED BY <1>5, <1>6

LEMMA CutsNothing == Split(<<>>) = NULL
<1>1. PICK e : e = <<>>
  OBVIOUS
<1>2. e \in Seq(Token) /\ Len(e) = 0 /\ 0 \in Nat
  BY <1>1
<1>3. Find(e, <<LF, LF>>) = 0
  <2>1. \A j \in 1..Len(e) - 1 : e[j] # LF \/ e[j + 1] # LF
    BY <1>2
  <2> QED BY <1>2, <2>1, FindLF
<1>4. Find(e, <<CR, LF, CR, LF>>) = 0
  <2>1. \A j \in 1..Len(e) - 3 : e[j] # CR \/ e[j + 2] # CR
    BY <1>2
  <2> QED BY <1>2, <2>1, FindCRLF
<1> QED BY <1>1, <1>3, <1>4 DEF Split

-----------------------------------------------------------------------------
\* What an event that was cut off says.
ValueStep(block, field, i, before) ==
  IF block[i] = field THEN Append(before, block[i + 1]) ELSE before
IsFound(block, field, n, f) ==
  f = [i \in 0..n |-> IF i = 0 THEN <<>> ELSE ValueStep(block, field, i, f[i - 1])]

LEMMA FoundExists ==
  ASSUME NEW T, NEW n \in Nat, NEW block, NEW field,
         \A i \in 1..n : block[i] = field => block[i + 1] \in T
  PROVE  \E f : IsFound(block, field, n, f)
<1>1. PICK step : step = [i \in 1..n |-> [v \in Seq(T) |-> ValueStep(block, field, i, v)]]
  OBVIOUS
<1>2. ASSUME NEW i \in 1..n, NEW v \in Seq(T) PROVE ValueStep(block, field, i, v) \in Seq(T)
  BY DEF ValueStep
<1>3. step \in [1..n -> [Seq(T) -> Seq(T)]]
  BY <1>1, <1>2
<1>4. <<>> \in Seq(T)
  OBVIOUS
<1>5. PICK f \in [0..n -> Seq(T)] : Unfolds(f, n, <<>>, step)
  BY <1>3, <1>4, Recursion
<1>6. ASSUME NEW i \in 0..n
      PROVE  f[i] = IF i = 0 THEN <<>> ELSE ValueStep(block, field, i, f[i - 1])
  <2>1. CASE i = 0
    BY <1>5, <2>1 DEF Unfolds
  <2>2. CASE i # 0
    <3>1. i \in 1..n /\ i - 1 \in 0..n /\ f[i - 1] \in Seq(T)
      BY <1>5, <2>2
    <3>2. f[i] = step[i][f[i - 1]]
      BY <1>5, <3>1 DEF Unfolds
    <3> QED BY <1>1, <2>2, <3>1, <3>2
  <2> QED BY <2>1, <2>2
<1>7. f = [i \in 0..n |-> f[i]]
  BY <1>5
<1>8. f = [i \in 0..n |-> IF i = 0 THEN <<>> ELSE ValueStep(block, field, i, f[i - 1])]
  BY <1>6, <1>7
<1> QED BY <1>8 DEF IsFound

Found(block, field, n, f) ==
  /\ f[0] = <<>> /\ Values(block, field) = f[n]
  /\ \A i \in 1..n : f[i] = ValueStep(block, field, i, f[i - 1])

LEMMA ValuesFacts ==
  ASSUME NEW T, NEW n \in Nat, NEW block, Len(block) = n, NEW field,
         \A i \in 1..n : block[i] = field => block[i + 1] \in T
  PROVE  \E f : Found(block, field, n, f)
<1> DEFINE f == CHOOSE g : IsFound(block, field, Len(block), g)
<1>1. \E g : IsFound(block, field, Len(block), g)
  BY FoundExists
<1>2. IsFound(block, field, Len(block), f)
  BY <1>1
<1>3. Values(block, field) = f[Len(block)]
  BY DEF Values, IsFound, ValueStep
<1> HIDE DEF f
<1>4. PICK g : g = [i \in 0..n |-> IF i = 0 THEN <<>> ELSE ValueStep(block, field, i, f[i - 1])]
  OBVIOUS
<1>5. f = g
  BY <1>2, <1>4, Zenon DEF IsFound
<1>6. ASSUME NEW i \in 1..n PROVE f[i] = ValueStep(block, field, i, f[i - 1])
  BY <1>4, <1>5
<1>7. f[0] = <<>>
  BY <1>4, <1>5
<1> QED BY <1>3, <1>6, <1>7 DEF Found

\* An event without its blank line: u tokens from the start of a line to the next.
Block(lines, n, u, b) ==
  /\ b \in Seq(Token) /\ Len(b) = u * (n - 1) + 2
  /\ \A l \in 1..n : b[u * (l - 1) + 1] = lines[l][1] /\ b[u * (l - 1) + 2] = lines[l][2]
  /\ \A l \in 1..n - 1 : \A j \in 3..u : b[u * (l - 1) + j] \in {CR, LF}

Picked(lines, l, field, before) ==
  IF lines[l][1] = field THEN Append(before, lines[l][2]) ELSE before

LEMMA BlockValues ==
  ASSUME NEW n \in 1..3, NEW u \in {3, 4}, NEW lines, Lined(lines, n),
         NEW b, Block(lines, n, u, b), NEW field \in Fields
  PROVE  /\ n = 1 => Values(b, field) = Picked(lines, 1, field, <<>>)
         /\ n = 2 => Values(b, field) = Picked(lines, 2, field, Picked(lines, 1, field, <<>>))
         /\ n = 3 => Values(b, field)
                       = Picked(lines, 3, field, Picked(lines, 2, field, Picked(lines, 1, field, <<>>)))
<1>1. PICK N \in Nat : N = Len(b) /\ N = u * (n - 1) + 2
  BY DEF Block
<1>2. /\ b \in Seq(Token)
      /\ \A l \in 1..n : b[u * (l - 1) + 1] = lines[l][1] /\ b[u * (l - 1) + 2] = lines[l][2]
      /\ \A l \in 1..n - 1 : \A j \in 3..u : b[u * (l - 1) + j] \in {CR, LF}
  BY DEF Block
<1>3. \A l \in 1..n : lines[l][1] \in Fields /\ lines[l][2] \in Contents
  BY DEF Lined
<1>4. ASSUME NEW l \in 1..n PROVE b[u * (l - 1) + 2] # field
  BY <1>2, <1>3, TokensDiffer
<1>5. ASSUME NEW l \in 1..n - 1, NEW j \in 3..u PROVE b[u * (l - 1) + j] # field
  BY <1>2, TokensDiffer
<1>6. n = 1 \/ n = 2 \/ n = 3
  OBVIOUS
<1>7. b[N] # field
  <2>1. n \in 1..n
    BY <1>6
  <2> QED BY <1>1, <1>4, <2>1
<1>8. ASSUME NEW i \in 1..N, b[i] = field PROVE b[i + 1] \in Token
  <2>1. i + 1 \in 1..Len(b)
    BY <1>1, <1>7, <1>8
  <2> QED BY <1>2, <2>1
<1>9. PICK f : /\ f[0] = <<>> /\ Values(b, field) = f[N]
               /\ \A i \in 1..N : f[i] = ValueStep(b, field, i, f[i - 1])
  <2>1. Len(b) = N /\ \A i \in 1..N : b[i] = field => b[i + 1] \in Token
    BY <1>1, <1>8
  <2>2. PICK f : Found(b, field, N, f)
    BY <2>1, ValuesFacts
  <2> QED BY <2>2 DEF Found
<1>10. ASSUME NEW i \in 1..N, b[i] # field PROVE f[i] = f[i - 1]
  BY <1>9, <1>10 DEF ValueStep
<1>11. ASSUME NEW l \in 1..n
       PROVE  f[u * (l - 1) + 2] = Picked(lines, l, field, f[u * (l - 1)])
  <2>1. PICK s \in Nat : s = u * (l - 1)
    <3>1. CASE u = 3
      BY <3>1
    <3>2. CASE u = 4
      BY <3>2
    <3> QED BY <3>1, <3>2
  <2>2. s + 1 \in 1..N /\ s + 2 \in 1..N /\ (s + 2) - 1 = s + 1 /\ (s + 1) - 1 = s /\ (s + 1) + 1 = s + 2
    <3>1. CASE u = 3
      BY <1>1, <2>1, <3>1
    <3>2. CASE u = 4
      BY <1>1, <2>1, <3>2
    <3> QED BY <3>1, <3>2
  <2>3. f[s + 2] = f[s + 1]
    BY <1>4, <1>10, <2>1, <2>2
  <2>4. f[s + 1] = ValueStep(b, field, s + 1, f[s])
    BY <1>9, <2>2
  <2>5. b[s + 1] = lines[l][1] /\ b[s + 2] = lines[l][2]
    BY <1>2, <2>1
  <2> QED BY <2>1, <2>2, <2>3, <2>4, <2>5 DEF ValueStep, Picked
<1>12. ASSUME NEW l \in 1..n - 1 PROVE f[u * l] = f[u * (l - 1) + 2]
  <2>1. PICK s \in Nat : s = u * (l - 1) /\ u * l = s + u /\ s + u \in 1..N
    <3>1. CASE u = 3
      BY <1>1, <1>6, <3>1
    <3>2. CASE u = 4
      BY <1>1, <1>6, <3>2
    <3> QED BY <3>1, <3>2
  <2>2. ASSUME NEW j \in 3..u PROVE f[s + j] = f[s + j - 1]
    <3>1. s + j \in 1..N
      BY <2>1
    <3> QED BY <1>5, <1>10, <2>1, <3>1
  <2>3. CASE u = 3
    <3>1. 3 \in 3..u /\ s + 3 - 1 = s + 2
      BY <2>3
    <3> QED BY <2>1, <2>2, <2>3, <3>1
  <2>4. CASE u = 4
    <3>1. 3 \in 3..u /\ s + 3 - 1 = s + 2 /\ 4 \in 3..u /\ s + 4 - 1 = s + 3
      BY <2>4
    <3> QED BY <2>1, <2>2, <2>4, <3>1
  <2> QED BY <2>3, <2>4
<1>13. f[2] = Picked(lines, 1, field, <<>>)
  <2>1. 1 \in 1..n /\ u * (1 - 1) = 0 /\ 0 + 2 = 2
    BY <1>6
  <2> QED BY <1>9, <1>11, <2>1
<1>14. CASE n = 1
  <2>1. N = 2
    BY <1>1, <1>14
  <2> QED BY <1>9, <1>13, <1>14, <2>1
<1>15. ASSUME n > 1 PROVE f[u + 2] = Picked(lines, 2, field, f[2])
  <2>1. 2 \in 1..n /\ u * (2 - 1) = u /\ 1 \in 1..n - 1 /\ u * 1 = u /\ u * (1 - 1) = 0 /\ 0 + 2 = 2
    BY <1>6, <1>15
  <2>2. f[u] = f[2]
    BY <1>12, <2>1
  <2> QED BY <1>11, <2>1, <2>2
<1>16. CASE n = 2
  <2>1. N = u + 2
    BY <1>1, <1>16
  <2> QED BY <1>9, <1>13, <1>15, <1>16, <2>1
<1>17. CASE n = 3
  <2>1. PICK t \in Nat : t = u * 2 /\ N = t + 2 /\ u * (3 - 1) = t
    <3>1. CASE u = 3
      BY <1>1, <1>17, <3>1
    <3>2. CASE u = 4
      BY <1>1, <1>17, <3>2
    <3> QED BY <3>1, <3>2
  <2>2. 3 \in 1..n /\ 2 \in 1..n - 1 /\ u * (2 - 1) = u
    BY <1>17
  <2>3. f[t] = f[u + 2]
    BY <1>12, <2>1, <2>2
  <2>4. f[t + 2] = Picked(lines, 3, field, f[t])
    BY <1>11, <2>1, <2>2
  <2> QED BY <1>9, <1>13, <1>15, <1>17, <2>1, <2>3, <2>4
<1> QED BY <1>6, <1>14, <1>16, <1>17

\* What a change of an account, in n pieces, comes to.
LEMMA OneData ==
  ASSUME NEW k \in Nat, NEW account \in {"own", "other"}
  PROVE  ChangeOf(<<Json(account, k, 1, 1)>>) = IF account = "own" THEN k ELSE NULL
<1>1. PICK data : data = <<Json(account, k, 1, 1)>>
  OBVIOUS
<1>2. data # <<>> /\ data[1].is = "json" /\ data[1].account = account /\ data[1].change = k /\ data[1].n = 1
  BY <1>1 DEF Json
<1>3. CASE account = "own"
  <2>1. PICK all : all = [i \in 1..1 |-> Json("own", k, i, 1)]
    OBVIOUS
  <2>2. all = data
    BY <1>1, <1>3, <2>1
  <2> QED BY <1>1, <1>2, <1>3, <2>1, <2>2 DEF ChangeOf
<1>4. CASE account # "own"
  BY <1>1, <1>2, <1>4 DEF ChangeOf
<1> QED BY <1>3, <1>4

LEMMA TwoData ==
  ASSUME NEW k \in Nat
  PROVE  ChangeOf(<<Json("own", k, 1, 2), Json("own", k, 2, 2)>>) = k
<1>1. PICK data : data = <<Json("own", k, 1, 2), Json("own", k, 2, 2)>>
  OBVIOUS
<1>2. data # <<>> /\ data[1].is = "json" /\ data[1].account = "own" /\ data[1].change = k /\ data[1].n = 2
  BY <1>1 DEF Json
<1>3. PICK all : all = [i \in 1..2 |-> Json("own", k, i, 2)]
  OBVIOUS
<1>4. all = data
  BY <1>1, <1>3
<1> QED BY <1>1, <1>2, <1>3, <1>4 DEF ChangeOf

LEMMA AppendTwo ==
  ASSUME NEW x, NEW y
  PROVE  Append(<<x>>, y) = <<x, y>>
<1>1. PICK s, t, T : s = Append(<<x>>, y) /\ t = <<x, y>> /\ T = {x, y}
  OBVIOUS
<1>2. <<x>> \in Seq(T) /\ y \in T /\ Len(<<x>>) = 1 /\ <<x>>[1] = x
  BY <1>1
<1>3. s \in Seq(T) /\ Len(s) = 2 /\ s[1] = x /\ s[2] = y
  BY <1>1, <1>2
<1>4. t \in Seq(T) /\ Len(t) = 2 /\ t[1] = x /\ t[2] = y
  BY <1>1
<1>5. ASSUME NEW i \in 1..2 PROVE s[i] = t[i]
  <2>1. i = 1 \/ i = 2
    OBVIOUS
  <2> QED BY <1>3, <1>4, <2>1
<1>6. s = t
  BY <1>3, <1>4, <1>5, SeqEqual
<1> QED BY <1>1, <1>6

LEMMA BlockTells ==
  ASSUME NEW kind \in Kinds, NEW k \in Nat, NEW n \in 1..3, Lined(LinesOf(kind, k), n),
         NEW u \in {3, 4}, NEW b, Block(LinesOf(kind, k), n, u, b)
  PROVE  ChangeOf(Payload(b)) = IF kind \in Telling THEN k ELSE NULL
<1>1. PICK lines : lines = LinesOf(kind, k)
  OBVIOUS
<1>2. Len(lines) = n
  BY <1>1 DEF Lined
<1>3. ASSUME NEW field \in {Event, Data}
      PROVE  /\ n = 1 => Values(b, field) = Picked(lines, 1, field, <<>>)
             /\ n = 2 => Values(b, field) = Picked(lines, 2, field, Picked(lines, 1, field, <<>>))
             /\ n = 3 => Values(b, field)
                           = Picked(lines, 3, field, Picked(lines, 2, field, Picked(lines, 1, field, <<>>)))
  <2>1. field \in Fields
    BY DEF Fields
  <2> QED BY <1>1, <2>1, BlockValues
<1>4. Event # Data /\ Comment # Event /\ Comment # Data /\ Text("ping") # Text("state")
  BY TokensDiffer DEF Text
<1>5. ChangeOf(<<>>) = NULL
  BY DEF ChangeOf
<1>6. ASSUME NEW x PROVE <<x>> # <<>> /\ Last(<<x>>) = x
  BY DEF Last
<1>7. ASSUME NEW x PROVE Append(<<>>, x) = <<x>>
  OBVIOUS
<1>8. CASE kind = "state"
  <2>1. lines = <<<<Event, Text("state")>>, <<Data, Json("own", k, 1, 1)>>>>
    BY <1>1, <1>8 DEF LinesOf
  <2>2. n = 2
    BY <1>2, <2>1
  <2>3. Values(b, Event) = <<Text("state")>> /\ Values(b, Data) = <<Json("own", k, 1, 1)>>
    BY <1>3, <1>4, <1>7, <2>1, <2>2 DEF Picked
  <2>4. Payload(b) = <<Json("own", k, 1, 1)>>
    BY <1>6, <2>3 DEF Payload
  <2> QED BY <1>8, <2>4, OneData DEF Telling
<1>9. CASE kind = "halves"
  <2>1. lines = <<<<Data, Json("own", k, 1, 2)>>, <<Data, Json("own", k, 2, 2)>>, <<Event, Text("state")>>>>
    BY <1>1, <1>9 DEF LinesOf
  <2>2. n = 3
    BY <1>2, <2>1
  <2>3. Append(<<Json("own", k, 1, 2)>>, Json("own", k, 2, 2)) = <<Json("own", k, 1, 2), Json("own", k, 2, 2)>>
    BY AppendTwo
  <2>4. Values(b, Event) = <<Text("state")>>
    BY <1>3, <1>4, <1>7, <2>1, <2>2 DEF Picked
  <2>5. Values(b, Data) = <<Json("own", k, 1, 2), Json("own", k, 2, 2)>>
    BY <1>3, <1>4, <1>7, <2>1, <2>2, <2>3 DEF Picked
  <2>6. Payload(b) = <<Json("own", k, 1, 2), Json("own", k, 2, 2)>>
    BY <1>6, <2>4, <2>5 DEF Payload
  <2> QED BY <1>9, <2>6, TwoData DEF Telling
<1>10. CASE kind = "untyped"
  <2>1. lines = <<<<Data, Json("own", k, 1, 1)>>>>
    BY <1>1, <1>10 DEF LinesOf
  <2>2. n = 1
    BY <1>2, <2>1
  <2>3. Values(b, Event) = <<>> /\ Values(b, Data) = <<Json("own", k, 1, 1)>>
    BY <1>3, <1>4, <1>7, <2>1, <2>2 DEF Picked
  <2>4. Payload(b) = <<Json("own", k, 1, 1)>>
    BY <2>3 DEF Payload
  <2> QED BY <1>10, <2>4, OneData DEF Telling
<1>11. CASE kind = "empty"
  <2>1. lines = <<<<Event, Text("state")>>>>
    BY <1>1, <1>11 DEF LinesOf
  <2>2. n = 1
    BY <1>2, <2>1
  <2>3. Values(b, Event) = <<Text("state")>> /\ Values(b, Data) = <<>>
    BY <1>3, <1>4, <1>7, <2>1, <2>2 DEF Picked
  <2>4. Payload(b) = <<>>
    BY <1>6, <2>3 DEF Payload
  <2> QED BY <1>5, <1>11, <2>4 DEF Telling
<1>12. CASE kind = "foreign"
  <2>1. lines = <<<<Event, Text("state")>>, <<Data, Json("other", k, 1, 1)>>>>
    BY <1>1, <1>12 DEF LinesOf
  <2>2. n = 2
    BY <1>2, <2>1
  <2>3. Values(b, Event) = <<Text("state")>> /\ Values(b, Data) = <<Json("other", k, 1, 1)>>
    BY <1>3, <1>4, <1>7, <2>1, <2>2 DEF Picked
  <2>4. Payload(b) = <<Json("other", k, 1, 1)>>
    BY <1>6, <2>3 DEF Payload
  <2> QED BY <1>12, <2>4, OneData DEF Telling
<1>13. CASE kind = "ping"
  <2>1. lines = <<<<Event, Text("ping")>>, <<Data, Json("own", k, 1, 1)>>>>
    BY <1>1, <1>13 DEF LinesOf
  <2>2. n = 2
    BY <1>2, <2>1
  <2>3. Values(b, Event) = <<Text("ping")>>
    BY <1>3, <1>4, <1>7, <2>1, <2>2 DEF Picked
  <2>4. Payload(b) = <<>>
    BY <1>4, <1>6, <2>3 DEF Payload
  <2> QED BY <1>5, <1>13, <2>4 DEF Telling
<1>14. CASE kind = "comment"
  <2>1. lines = <<<<Comment, Text("keep-alive")>>>>
    BY <1>1, <1>14 DEF LinesOf
  <2>2. n = 1
    BY <1>2, <2>1
  <2>3. Values(b, Event) = <<>> /\ Values(b, Data) = <<>>
    BY <1>3, <1>4, <1>7, <2>1, <2>2 DEF Picked
  <2>4. Payload(b) = <<>>
    BY <2>3 DEF Payload
  <2> QED BY <1>5, <1>14, <2>4 DEF Telling
<1> QED BY <1>8, <1>9, <1>10, <1>11, <1>12, <1>13, <1>14 DEF Kinds

\* One event of a stream: while less than all of it has arrived nothing is cut off;
\* then the event is, and it says what its kind says.
Says(kind, k) == IF kind \in Telling THEN k ELSE NULL
CutsEvent(E, kind, k, buf) ==
  /\ Len(buf) < Len(E) => Split(buf) = NULL
  /\ Len(buf) >= Len(E) =>
       \E s : /\ Split(buf) = s /\ s # NULL /\ s.rest = SubSeq(buf, Len(E) + 1, Len(buf))
             /\ ChangeOf(Payload(s.block)) = Says(kind, k)

LEMMA EncodeFacts ==
  ASSUME NEW kind \in Kinds, NEW k \in Nat, NEW nl \in LineEnds
  PROVE  /\ Encode(kind, k, nl) \in Seq(Token) /\ Len(Encode(kind, k, nl)) > 0
         /\ nl = <<LF>> => \A i \in 1..Len(Encode(kind, k, nl)) : Encode(kind, k, nl)[i] # CR
<1>1. PICK n \in 1..3 : Lined(LinesOf(kind, k), n)
  BY LinesOfFacts
<1>2. PICK lines, B : lines = LinesOf(kind, k) /\ B = Lines(lines, nl)
  OBVIOUS
<1>3. Encode(kind, k, nl) = B
  BY <1>2 DEF Encode, Lines
<1>4. lines \in Seq(Seq(Token)) /\ Len(lines) = n /\ \A l \in 1..n : IsLine(lines[l])
  BY <1>1, <1>2 DEF Lined
<1>5. CASE nl = <<LF>>
  <2>1. InLF(lines, n, B)
    BY <1>2, <1>4, <1>5, LinesLF
  <2>2. FramedLF(B)
    BY <1>1, <1>2, <2>1, FramesLF
  <2> QED BY <1>3, <2>2 DEF FramedLF
<1>6. CASE nl = <<CR, LF>>
  <2>1. InCRLF(lines, n, B)
    BY <1>2, <1>4, <1>6, LinesCRLF
  <2>2. FramedCRLF(B)
    BY <1>1, <1>2, <2>1, FramesCRLF
  <2>3. nl # <<LF>>
    BY <1>6
  <2> QED BY <1>3, <2>2, <2>3 DEF FramedCRLF
<1> QED BY <1>5, <1>6 DEF LineEnds

LEMMA EventCut ==
  ASSUME NEW kind \in Kinds, NEW k \in Nat, NEW nl \in LineEnds, NEW buf \in Seq(Token),
         nl = <<LF>> => \A i \in 1..Len(buf) : buf[i] # CR, Begins(Encode(kind, k, nl), buf)
  PROVE  CutsEvent(Encode(kind, k, nl), kind, k, buf)
<1>1. PICK n \in 1..3 : Lined(LinesOf(kind, k), n)
  BY LinesOfFacts
<1>2. PICK lines, B : lines = LinesOf(kind, k) /\ B = Lines(lines, nl)
  OBVIOUS
<1>3. Encode(kind, k, nl) = B
  BY <1>2 DEF Encode, Lines
<1>4. lines \in Seq(Seq(Token)) /\ Len(lines) = n /\ \A l \in 1..n : IsLine(lines[l])
  BY <1>1, <1>2 DEF Lined
<1>5. n = 1 \/ n = 2 \/ n = 3
  OBVIOUS
<1>6. PICK N \in Nat : N = Len(buf) /\ \A i \in 1..N : buf[i] \in Token
  OBVIOUS
<1>7. ASSUME NEW w \in {1, 2}, Cuts(B, buf, w), NEW L \in Nat, L = Len(B), L - 2 * w \in Nat,
             NEW u \in {3, 4}, L - 2 * w = u * (n - 1) + 2,
             \A b : (b = SubSeq(buf, 1, L - 2 * w) /\ N >= L) => Block(lines, n, u, b)
      PROVE  CutsEvent(B, kind, k, buf)
  <2>1. CASE N < L
    BY <1>6, <1>7, <2>1 DEF Cuts, CutsEvent
  <2>2. CASE N >= L
    <3>1. PICK b, r : b = SubSeq(buf, 1, L - 2 * w) /\ r = SubSeq(buf, L + 1, N)
      OBVIOUS
    <3>2. PICK s : s = [block |-> b, rest |-> r]
      OBVIOUS
    <3>3. Split(buf) = s
      BY <1>6, <1>7, <2>2, <3>1, <3>2 DEF Cuts
    <3>4. b \in Seq(Token) /\ r \in Seq(Token)
      <4>1. \A i \in 1..L - 2 * w : buf[i] \in Token
        BY <1>6, <1>7, <2>2
      <4>2. \A i \in L + 1..N : buf[i] \in Token
        BY <1>6
      <4> QED BY <1>6, <1>7, <3>1, <4>1, <4>2, SubSeqProperties
    <3>5. s # NULL
      BY <3>2, <3>4, StreamAssumption
    <3>6. Block(LinesOf(kind, k), n, u, b)
      BY <1>2, <1>7, <2>2, <3>1
    <3>7. ChangeOf(Payload(b)) = Says(kind, k)
      BY <1>1, <1>7, <3>6, BlockTells DEF Says
    <3>8. s.block = b /\ s.rest = SubSeq(buf, Len(B) + 1, Len(buf))
      BY <1>6, <1>7, <3>1, <3>2
    <3>9. /\ Split(buf) = s /\ s # NULL /\ s.rest = SubSeq(buf, Len(B) + 1, Len(buf))
          /\ ChangeOf(Payload(s.block)) = Says(kind, k)
      BY <3>3, <3>5, <3>7, <3>8
    <3>10. ~(Len(buf) < Len(B))
      BY <1>6, <1>7, <2>2
    <3> QED BY <3>9, <3>10 DEF CutsEvent
  <2> QED BY <1>7, <2>1, <2>2
<1>8. ASSUME NEW m \in Nat, NEW L \in Nat, L = Len(B), m <= L, m <= N, NEW b, b = SubSeq(buf, 1, m)
      PROVE  b \in Seq(Token) /\ Len(b) = m /\ \A i \in 1..m : b[i] = B[i]
  <2>1. \A i \in 1..m : buf[i] \in Token
    BY <1>6, <1>8
  <2>2. 1 \in Int /\ m \in Int /\ m - 1 + 1 = m /\ (m >= 1 => 1 <= m) /\ (m = 0 => ~(1 <= m))
    BY <1>8
  <2>3. b \in Seq(Token) /\ Len(b) = (IF 1 <= m THEN m - 1 + 1 ELSE 0)
        /\ \A i \in 1..m - 1 + 1 : b[i] = buf[1 + i - 1]
    BY <1>8, <2>1, <2>2, SubSeqProperties
  <2>4. ASSUME NEW i \in 1..m PROVE b[i] = B[i]
    <3>1. i \in 1..m - 1 + 1 /\ 1 + i - 1 = i /\ i \in 1..L /\ i <= N
      BY <1>8
    <3>2. buf[i] = B[i]
      BY <1>3, <1>6, <1>8, <3>1 DEF Begins
    <3> QED BY <2>3, <3>1, <3>2
  <2> QED BY <1>8, <2>2, <2>3, <2>4
<1>9. CASE nl = <<LF>>
  <2>1. InLF(lines, n, B)
    BY <1>2, <1>4, <1>9, LinesLF
  <2>2. Cuts(B, buf, 1)
    BY <1>1, <1>2, <1>3, <1>9, <2>1, FramesLF, CutsLF
  <2>3. PICK L \in Nat : L = Len(B) /\ L = 3 * n + 1
    BY <1>5, <2>1 DEF InLF
  <2>4. L - 2 * 1 \in Nat /\ L - 2 * 1 = 3 * (n - 1) + 2 /\ L - 2 * 1 <= L /\ 1 \in {1, 2} /\ 3 \in {3, 4}
    BY <1>5, <2>3
  <2>5. ASSUME NEW b, b = SubSeq(buf, 1, L - 2 * 1), N >= L PROVE Block(lines, n, 3, b)
    <3>1. b \in Seq(Token) /\ Len(b) = L - 2 * 1 /\ \A i \in 1..L - 2 * 1 : b[i] = B[i]
      BY <1>6, <1>8, <2>3, <2>4, <2>5
    <3>2. ASSUME NEW l \in 1..n
          PROVE  b[3 * (l - 1) + 1] = lines[l][1] /\ b[3 * (l - 1) + 2] = lines[l][2]
      <4>1. /\ 3 * (l - 1) + 1 \in 1..L - 2 * 1 /\ 3 * (l - 1) + 2 \in 1..L - 2 * 1
            /\ 3 * (l - 1) + 1 = 3 * l - 2 /\ 3 * (l - 1) + 2 = 3 * l - 1
        BY <1>5, <2>4
      <4> QED BY <2>1, <3>1, <4>1 DEF InLF
    <3>3. ASSUME NEW l \in 1..n - 1, NEW j \in 3..3 PROVE b[3 * (l - 1) + j] \in {CR, LF}
      <4>1. 3 * (l - 1) + j \in 1..L - 2 * 1 /\ 3 * (l - 1) + j = 3 * l /\ l \in 1..n
        BY <1>5, <2>4
      <4> QED BY <2>1, <3>1, <4>1 DEF InLF
    <3> QED BY <2>4, <3>1, <3>2, <3>3 DEF Block
  <2> QED BY <1>3, <1>7, <2>2, <2>3, <2>4, <2>5
<1>10. CASE nl = <<CR, LF>>
  <2>1. InCRLF(lines, n, B)
    BY <1>2, <1>4, <1>10, LinesCRLF
  <2>2. Cuts(B, buf, 2)
    BY <1>1, <1>2, <1>3, <2>1, FramesCRLF, CutsCRLF
  <2>3. PICK L \in Nat : L = Len(B) /\ L = 4 * n + 2
    BY <1>5, <2>1 DEF InCRLF
  <2>4. L - 2 * 2 \in Nat /\ L - 2 * 2 = 4 * (n - 1) + 2 /\ L - 2 * 2 <= L /\ 2 \in {1, 2} /\ 4 \in {3, 4}
    BY <1>5, <2>3
  <2>5. ASSUME NEW b, b = SubSeq(buf, 1, L - 2 * 2), N >= L PROVE Block(lines, n, 4, b)
    <3>1. b \in Seq(Token) /\ Len(b) = L - 2 * 2 /\ \A i \in 1..L - 2 * 2 : b[i] = B[i]
      BY <1>6, <1>8, <2>3, <2>4, <2>5
    <3>2. ASSUME NEW l \in 1..n
          PROVE  b[4 * (l - 1) + 1] = lines[l][1] /\ b[4 * (l - 1) + 2] = lines[l][2]
      <4>1. /\ 4 * (l - 1) + 1 \in 1..L - 2 * 2 /\ 4 * (l - 1) + 2 \in 1..L - 2 * 2
            /\ 4 * (l - 1) + 1 = 4 * l - 3 /\ 4 * (l - 1) + 2 = 4 * l - 2
        BY <1>5, <2>4
      <4> QED BY <2>1, <3>1, <4>1 DEF InCRLF
    <3>3. ASSUME NEW l \in 1..n - 1, NEW j \in 3..4 PROVE b[4 * (l - 1) + j] \in {CR, LF}
      <4>1. /\ 4 * (l - 1) + j \in 1..L - 2 * 2 /\ l \in 1..n
            /\ 4 * (l - 1) + j = 4 * l - 1 \/ 4 * (l - 1) + j = 4 * l
        BY <1>5, <2>4
      <4> QED BY <2>1, <3>1, <4>1 DEF InCRLF
    <3> QED BY <2>4, <3>1, <3>2, <3>3 DEF Block
  <2> QED BY <1>3, <1>7, <2>2, <2>3, <2>4, <2>5
<1> QED BY <1>9, <1>10 DEF LineEnds

-----------------------------------------------------------------------------
\* A stream: its events one after the other.
EndOf(s, k)      == IF k = 0 THEN 0 ELSE s.ends[k]
EventAt(s, k, nl) == Encode(s.kinds[k], k, nl)
LaysOut(s, nl, n) ==
  /\ s.kinds \in Seq(Kinds) /\ Len(s.kinds) = n /\ s.wire \in Seq(Token)
  /\ nl = <<LF>> => \A i \in 1..Len(s.wire) : s.wire[i] # CR
  /\ EndOf(s, n) = Len(s.wire)
  /\ \A k \in 0..n : EndOf(s, k) \in 0..Len(s.wire)
  /\ \A k \in 1..n : /\ EventAt(s, k, nl) \in Seq(Token) /\ Len(EventAt(s, k, nl)) > 0
                     /\ EndOf(s, k) = EndOf(s, k - 1) + Len(EventAt(s, k, nl))
                     /\ \A i \in 1..Len(EventAt(s, k, nl)) :
                          s.wire[EndOf(s, k - 1) + i] = EventAt(s, k, nl)[i]

\* Each piece of a row of pieces stands where the ones before it end.
Chain(T, s, n, f) ==
  /\ \A i \in 1..n : s[i] \in Seq(T) /\ f[i] \in Seq(T)
  /\ n > 0 => f[1] = s[1]
  /\ \A i \in 2..n : f[i] = f[i - 1] \o s[i]

Starts(x, z) == Len(x) <= Len(z) /\ \A j \in 1..Len(x) : z[j] = x[j]
Follows(x, y, z) ==
  /\ Len(z) = Len(x) + Len(y) /\ \A j \in 1..Len(x) : z[j] = x[j]
  /\ \A j \in 1..Len(y) : z[Len(x) + j] = y[j]

LEMMA ChainStep ==
  ASSUME NEW T, NEW n \in Nat, NEW s, NEW f, Chain(T, s, n, f), NEW i \in 2..n
  PROVE  Follows(f[i - 1], s[i], f[i])
<1>1. i \in 1..n /\ i - 1 \in 1..n
  OBVIOUS
<1>2. PICK x, y, z : x = f[i - 1] /\ y = s[i] /\ z = f[i]
  OBVIOUS
<1>3. x \in Seq(T) /\ y \in Seq(T) /\ z = x \o y
  BY <1>1, <1>2 DEF Chain
<1>4. PICK X \in Nat, Y \in Nat : X = Len(x) /\ Y = Len(y)
  BY <1>3
<1>5. Len(z) = X + Y /\ \A j \in 1..X + Y : z[j] = IF j <= X THEN x[j] ELSE y[j - X]
  BY <1>3, <1>4, ConcatProperties
<1>6. ASSUME NEW j \in 1..X PROVE z[j] = x[j]
  BY <1>5
<1>7. ASSUME NEW j \in 1..Y PROVE z[X + j] = y[j]
  <2>1. X + j \in 1..X + Y /\ ~(X + j <= X) /\ (X + j) - X = j
    OBVIOUS
  <2> QED BY <1>5, <2>1
<1> QED BY <1>2, <1>4, <1>5, <1>6, <1>7 DEF Follows

LEMMA StartsStep ==
  ASSUME NEW T, NEW w \in Seq(T), NEW x \in Seq(T), NEW y \in Seq(T), NEW z \in Seq(T),
         Starts(w, x), Follows(x, y, z)
  PROVE  Starts(w, z)
<1>1. PICK a \in Nat, b \in Nat, c \in Nat, d \in Nat :
        a = Len(w) /\ b = Len(x) /\ c = Len(z) /\ d = Len(y)
  OBVIOUS
<1>2. a <= b /\ c = b + d /\ a <= c
  BY <1>1 DEF Starts, Follows
<1>3. ASSUME NEW j \in 1..a PROVE z[j] = w[j]
  <2>1. j \in 1..b
    BY <1>2
  <2> QED BY <1>1, <2>1 DEF Starts, Follows
<1> QED BY <1>1, <1>2, <1>3 DEF Starts

LEMMA ChainGrows ==
  ASSUME NEW T, NEW n \in Nat, NEW s, NEW f, Chain(T, s, n, f), NEW k \in 1..n
  PROVE  Starts(f[k], f[n])
<1> DEFINE S == {m \in 0..n : m >= k => Starts(f[k], f[m])}
<1>1. \A i \in 1..n : f[i] \in Seq(T) /\ s[i] \in Seq(T)
  BY DEF Chain
<1>2. 0 \in S
  OBVIOUS
<1>3. ASSUME NEW m \in 0..n, m < n, m \in S PROVE m + 1 \in S
  <2>1. CASE m + 1 < k
    BY <1>3, <2>1
  <2>2. CASE m + 1 = k
    <3>1. Starts(f[k], f[k])
      BY <1>1 DEF Starts
    <3> QED BY <1>3, <2>2, <3>1
  <2>3. CASE m >= k
    <3>1. m + 1 \in 2..n /\ (m + 1) - 1 = m /\ m \in 1..n /\ m + 1 \in 1..n
      BY <1>3, <2>3
    <3>2. Follows(f[m], s[m + 1], f[m + 1])
      BY <3>1, ChainStep
    <3>3. Starts(f[k], f[m])
      BY <1>3, <2>3
    <3>4. Starts(f[k], f[m + 1])
      BY <1>1, <3>1, <3>2, <3>3, StartsStep
    <3> QED BY <1>3, <3>4
  <2> QED BY <1>3, <2>1, <2>2, <2>3
<1>4. 0..n \subseteq S
  <2> HIDE DEF S
  <2> QED BY <1>2, <1>3, SetInduction
<1>5. n \in S /\ n >= k
  BY <1>4
<1> QED BY <1>5

\* What the first k pieces come to.
LEMMA FirstPieces ==
  ASSUME NEW T, NEW n \in Nat, NEW s \in Seq(Seq(T)), Len(s) = n, NEW f, Chain(T, s, n, f),
         NEW k \in 1..n
  PROVE  FlattenSeq(SubSeq(s, 1, k)) = f[k]
<1>1. PICK r : r = SubSeq(s, 1, k)
  OBVIOUS
<1>2. r \in Seq(Seq(T)) /\ Len(r) = k /\ r # <<>> /\ \A i \in 1..k : r[i] = s[i]
  <2>1. /\ 1 \in Int /\ k \in Int /\ 1 <= k /\ k - 1 + 1 = k /\ \A i \in 1..k : s[i] \in Seq(T)
    BY DEF Chain
  <2>2. r \in Seq(Seq(T)) /\ Len(r) = k /\ \A i \in 1..k : r[i] = s[1 + i - 1]
    BY <1>1, <2>1, SubSeqProperties
  <2>3. ASSUME NEW i \in 1..k PROVE r[i] = s[i]
    <3>1. 1 + i - 1 = i
      OBVIOUS
    <3> QED BY <2>2, <3>1
  <2> QED BY <2>2, <2>3
<1>3. PICK g : /\ g[1] = r[1] /\ \A i \in 2..k : g[i] = g[i - 1] \o r[i]
               /\ FlattenSeq(r) = g[k]
  BY <1>2, FlattenFacts
<1> DEFINE S == {i \in 0..k : i > 0 => g[i] = f[i]}
<1>4. 0 \in S
  OBVIOUS
<1>5. ASSUME NEW i \in 0..k, i < k, i \in S PROVE i + 1 \in S
  <2>1. CASE i = 0
    BY <1>2, <1>3, <1>5, <2>1 DEF Chain
  <2>2. CASE i # 0
    <3>1. i + 1 \in 2..n /\ i + 1 \in 2..k /\ (i + 1) - 1 = i /\ i + 1 \in 1..k
      BY <1>5, <2>2
    <3>2. g[i + 1] = g[i] \o r[i + 1] /\ f[i + 1] = f[i] \o s[i + 1]
      BY <1>3, <3>1 DEF Chain
    <3>3. r[i + 1] = s[i + 1] /\ g[i] = f[i]
      BY <1>2, <1>5, <2>2, <3>1
    <3>4. g[i + 1] = f[i + 1]
      BY <3>2, <3>3
    <3> QED BY <3>1, <3>4
  <2> QED BY <2>1, <2>2
<1>6. 0..k \subseteq S
  <2> HIDE DEF S
  <2>1. k \in Nat
    OBVIOUS
  <2> QED BY <1>4, <1>5, <2>1, SetInduction
<1>7. g[k] = f[k]
  BY <1>6
<1> QED BY <1>1, <1>3, <1>7

LEMMA SentLaysOut ==
  ASSUME NEW kinds \in Seq(Kinds), NEW nl \in LineEnds
  PROVE  LaysOut(Sent(kinds, nl), nl, Len(kinds))
<1>1. PICK n \in Nat : n = Len(kinds)
  OBVIOUS
<1>2. PICK s : s = Sent(kinds, nl)
  OBVIOUS
<1>3. PICK T : T = IF nl = <<LF>> THEN Token \ {CR} ELSE Token
  OBVIOUS
<1>4. PICK blocks : blocks = [k \in 1..n |-> Encode(kinds[k], k, nl)]
  OBVIOUS
<1>5. ASSUME NEW k \in 1..n
      PROVE  blocks[k] \in Seq(T) /\ Len(blocks[k]) \in Nat /\ Len(blocks[k]) > 0 /\ blocks[k] = Encode(kinds[k], k, nl)
  <2>1. kinds[k] \in Kinds /\ k \in Nat
    BY <1>1
  <2>2. PICK B : B = Encode(kinds[k], k, nl)
    OBVIOUS
  <2>3. B \in Seq(Token) /\ Len(B) > 0 /\ (nl = <<LF>> => \A i \in 1..Len(B) : B[i] # CR)
    BY <2>1, <2>2, EncodeFacts
  <2>4. CASE nl = <<LF>>
    <3>1. \A i \in 1..Len(B) : B[i] \in T
      BY <1>3, <2>3, <2>4
    <3>2. B \in Seq(T)
      BY <2>3, <3>1
    <3> QED BY <1>4, <2>2, <2>3, <3>2
  <2>5. CASE nl # <<LF>>
    BY <1>3, <1>4, <2>2, <2>3, <2>5
  <2> QED BY <2>4, <2>5
<1>6. blocks \in Seq(Seq(T)) /\ Len(blocks) = n
  BY <1>4, <1>5
<1>7. /\ s.kinds = kinds /\ s.wire = FlattenSeq(blocks)
      /\ \A k \in 1..n : s.ends[k] = Len(FlattenSeq(SubSeq(blocks, 1, k)))
  BY <1>1, <1>2, <1>4 DEF Sent
<1>8. CASE n = 0
  <2>1. blocks = <<>>
    BY <1>6, <1>8
  <2>2. s.wire = <<>>
    BY <1>7, <2>1, FlattenEmpty
  <2> QED BY <1>1, <1>2, <1>7, <1>8, <2>2 DEF LaysOut, EndOf
<1>9. CASE n > 0
  <2>1. blocks # <<>>
    BY <1>6, <1>9
  <2>2. PICK f : /\ f[1] = blocks[1]
                 /\ \A i \in 2..n : f[i] = f[i - 1] \o blocks[i]
                 /\ \A i \in 1..n : f[i] \in Seq(T)
                 /\ FlattenSeq(blocks) = f[n]
    BY <1>6, <2>1, FlattenFacts
  <2>3. Chain(T, blocks, n, f)
    BY <1>5, <2>2 DEF Chain
  <2>4. \A k \in 1..n : s.ends[k] = Len(f[k])
    BY <1>6, <1>7, <2>3, FirstPieces
  <2>5. s.wire = f[n] /\ s.wire \in Seq(T)
    BY <1>7, <1>9, <2>2
  <2>6. s.wire \in Seq(Token)
    BY <1>3, <2>5
  <2>7. nl = <<LF>> => \A i \in 1..Len(s.wire) : s.wire[i] # CR
    BY <1>3, <2>5
  <2>8. ASSUME NEW k \in 1..n
        PROVE  /\ Len(f[k]) \in Nat /\ Len(f[k]) <= Len(s.wire)
               /\ \A j \in 1..Len(f[k]) : s.wire[j] = f[k][j]
    <3>1. Starts(f[k], s.wire)
      BY <2>3, <2>5, ChainGrows
    <3> QED BY <2>2, <3>1 DEF Starts
  <2>9. Len(s.wire) \in Nat /\ EndOf(s, n) = Len(s.wire)
    BY <1>9, <2>4, <2>5 DEF EndOf
  <2>10. \A k \in 0..n : EndOf(s, k) \in 0..Len(s.wire)
    BY <2>4, <2>8, <2>9 DEF EndOf
  <2>11. ASSUME NEW k \in 1..n
         PROVE  /\ EndOf(s, k) = EndOf(s, k - 1) + Len(blocks[k])
                /\ \A i \in 1..Len(blocks[k]) : s.wire[EndOf(s, k - 1) + i] = blocks[k][i]
    <3>1. CASE k = 1
      <4>1. EndOf(s, k - 1) = 0 /\ EndOf(s, k) = Len(blocks[k]) /\ f[k] = blocks[k]
        BY <2>2, <2>4, <3>1 DEF EndOf
      <4> QED BY <1>5, <2>8, <4>1
    <3>2. CASE k # 1
      <4>1. k \in 2..n /\ k - 1 \in 1..n /\ k - 1 # 0 /\ k # 0
        BY <3>2
      <4>2. PICK a \in Nat, b \in Nat : a = Len(f[k - 1]) /\ b = Len(blocks[k])
        BY <1>5, <2>8, <4>1
      <4>3. EndOf(s, k - 1) = a /\ EndOf(s, k) = Len(f[k])
        BY <2>4, <4>1, <4>2 DEF EndOf
      <4>4. Len(f[k]) = a + b /\ \A j \in 1..b : f[k][a + j] = blocks[k][j]
        <5>1. Follows(f[k - 1], blocks[k], f[k])
          BY <2>3, <4>1, ChainStep
        <5> QED BY <4>2, <5>1 DEF Follows
      <4>5. ASSUME NEW j \in 1..b PROVE s.wire[a + j] = blocks[k][j]
        <5>1. a + j \in 1..Len(f[k])
          BY <4>4
        <5> QED BY <2>8, <4>4, <5>1
      <4> QED BY <4>2, <4>3, <4>4, <4>5
    <3> QED BY <3>1, <3>2
  <2>12. ASSUME NEW k \in 1..n
         PROVE  EventAt(s, k, nl) = blocks[k] /\ blocks[k] \in Seq(Token)
    BY <1>3, <1>5, <1>7 DEF EventAt
  <2>13. ASSUME NEW k \in 1..n
         PROVE  /\ EventAt(s, k, nl) \in Seq(Token) /\ Len(EventAt(s, k, nl)) > 0
                /\ EndOf(s, k) = EndOf(s, k - 1) + Len(EventAt(s, k, nl))
                /\ \A i \in 1..Len(EventAt(s, k, nl)) :
                     s.wire[EndOf(s, k - 1) + i] = EventAt(s, k, nl)[i]
    BY <1>5, <2>11, <2>12
  <2> QED BY <1>1, <1>2, <1>7, <2>6, <2>7, <2>9, <2>10, <2>13 DEF LaysOut
<1> QED BY <1>8, <1>9

-----------------------------------------------------------------------------
\* The changes that the events tell which are complete at position p of a stream.
ToldStep(s, p, k, before) ==
  IF s.ends[k] <= p /\ s.kinds[k] \in Telling THEN Append(before, k) ELSE before
IsTold(s, p, f) ==
  f = [k \in 0..Len(s.kinds) |-> IF k = 0 THEN <<>> ELSE ToldStep(s, p, k, f[k - 1])]
ToldSeq(s, p) == CHOOSE f : IsTold(s, p, f)
ToldAt(s, p, l) ==
  LET arrived == ToldSeq(s, p)[Len(s.kinds)]
  IN  IF l = 0 \/ Len(arrived) <= l THEN arrived ELSE SubSeq(arrived, 1, l)

LEMMA ToldIsToldAt == Told = ToldAt(stream, pos, limit)
BY DEF Told, ToldAt, ToldSeq, IsTold, ToldStep

\* Each is what the one before it is, or that and one more.
Tells(s, p, n, f) ==
  /\ f[0] = <<>> /\ \A k \in 0..n : f[k] \in Seq(1..n)
  /\ \A k \in 1..n : f[k] = ToldStep(s, p, k, f[k - 1])

LEMMA ToldFacts ==
  ASSUME NEW s, NEW n \in Nat, Len(s.kinds) = n, NEW p
  PROVE  Tells(s, p, n, ToldSeq(s, p))
<1>1. PICK step : step = [k \in 1..n |-> [v \in Seq(1..n) |-> ToldStep(s, p, k, v)]]
  OBVIOUS
<1>2. ASSUME NEW k \in 1..n, NEW v \in Seq(1..n) PROVE ToldStep(s, p, k, v) \in Seq(1..n)
  <2>1. Append(v, k) \in Seq(1..n)
    OBVIOUS
  <2> QED BY <2>1, Zenon DEF ToldStep
<1>3. step \in [1..n -> [Seq(1..n) -> Seq(1..n)]]
  BY <1>1, <1>2
<1>4. <<>> \in Seq(1..n)
  OBVIOUS
<1>5. PICK f \in [0..n -> Seq(1..n)] : Unfolds(f, n, <<>>, step)
  BY <1>3, <1>4, Recursion
<1>6. ASSUME NEW k \in 0..n
      PROVE  f[k] = IF k = 0 THEN <<>> ELSE ToldStep(s, p, k, f[k - 1])
  <2>1. CASE k = 0
    BY <1>5, <2>1 DEF Unfolds
  <2>2. CASE k # 0
    <3>1. k \in 1..n /\ k - 1 \in 0..n /\ f[k - 1] \in Seq(1..n)
      BY <1>5, <2>2
    <3>2. f[k] = step[k][f[k - 1]]
      BY <1>5, <3>1 DEF Unfolds
    <3> QED BY <1>1, <2>2, <3>1, <3>2
  <2> QED BY <2>1, <2>2
<1>7. f = [k \in 0..n |-> f[k]]
  BY <1>5
<1>8. f = [k \in 0..n |-> IF k = 0 THEN <<>> ELSE ToldStep(s, p, k, f[k - 1])]
  BY <1>6, <1>7
<1>9. IsTold(s, p, f)
  BY <1>8 DEF IsTold
<1>10. PICK g : g = ToldSeq(s, p)
  OBVIOUS
<1>11. IsTold(s, p, g)
  BY <1>9, <1>10 DEF ToldSeq
<1>12. PICK h : h = [k \in 0..n |-> IF k = 0 THEN <<>> ELSE ToldStep(s, p, k, g[k - 1])]
  OBVIOUS
<1>13. g = h
  BY <1>11, <1>12, Zenon DEF IsTold
<1>14. g[0] = <<>> /\ \A k \in 1..n : g[k] = ToldStep(s, p, k, g[k - 1])
  BY <1>12, <1>13
<1> DEFINE S == {k \in 0..n : g[k] \in Seq(1..n)}
<1>15. 0 \in S
  <2>1. 0 \in 0..n
    OBVIOUS
  <2>2. g[0] \in Seq(1..n)
    BY <1>4, <1>14, Zenon
  <2> QED BY <2>1, <2>2
<1>16. ASSUME NEW k \in 0..n, k < n, k \in S PROVE k + 1 \in S
  <2>1. k + 1 \in 1..n /\ (k + 1) - 1 = k /\ g[k] \in Seq(1..n) /\ k + 1 \in 0..n
    BY <1>16
  <2>2. g[k + 1] = ToldStep(s, p, k + 1, g[k])
    BY <1>14, <2>1
  <2> QED BY <1>2, <2>1, <2>2
<1>17. 0..n \subseteq S
  <2> HIDE DEF S
  <2> QED BY <1>15, <1>16, SetInduction
<1>18. \A k \in 0..n : g[k] \in Seq(1..n)
  BY <1>17
<1> QED BY <1>10, <1>14, <1>18 DEF Tells

\* The events tell their changes in order.
LEMMA ToldGrows ==
  ASSUME NEW s, NEW n \in Nat, NEW p, NEW f, Tells(s, p, n, f), NEW k \in 0..n, NEW m \in k..n
  PROVE  Starts(f[k], f[m])
<1> DEFINE S == {i \in 0..n : i >= k => Starts(f[k], f[i])}
<1>1. \A i \in 0..n : f[i] \in Seq(1..n)
  BY DEF Tells
<1>2. Starts(f[k], f[k])
  BY <1>1 DEF Starts
<1>3. 0 \in S
  BY <1>2
<1>4. ASSUME NEW i \in 0..n, i < n, i \in S PROVE i + 1 \in S
  <2>1. CASE i + 1 < k
    BY <1>4, <2>1
  <2>2. CASE i + 1 = k
    BY <1>2, <1>4, <2>2
  <2>3. CASE i >= k
    <3>1. i + 1 \in 1..n /\ (i + 1) - 1 = i /\ i + 1 \in 0..n /\ Starts(f[k], f[i])
      BY <1>4, <2>3
    <3>2. f[i + 1] = ToldStep(s, p, i + 1, f[i])
      BY <3>1 DEF Tells
    <3>3. PICK x, y, z : x = f[k] /\ y = f[i] /\ z = f[i + 1]
      OBVIOUS
    <3>4. x \in Seq(1..n) /\ y \in Seq(1..n) /\ Starts(x, y) /\ (z = y \/ z = Append(y, i + 1))
      BY <1>1, <3>1, <3>2, <3>3 DEF ToldStep
    <3>5. Starts(x, z)
      <4>1. CASE z = y
        BY <3>4, <4>1
      <4>2. CASE z = Append(y, i + 1)
        <5>1. Len(z) = Len(y) + 1 /\ \A j \in 1..Len(y) : z[j] = y[j]
          BY <3>4, <4>2
        <5>2. Len(x) \in Nat /\ Len(y) \in Nat
          BY <3>4
        <5> QED BY <3>4, <5>1, <5>2 DEF Starts
      <4> QED BY <3>4, <4>1, <4>2
    <3> QED BY <1>4, <3>3, <3>5
  <2> QED BY <1>4, <2>1, <2>2, <2>3
<1>5. 0..n \subseteq S
  <2> HIDE DEF S
  <2> QED BY <1>3, <1>4, SetInduction
<1>6. m \in S /\ m >= k
  BY <1>5
<1> QED BY <1>6

\* Those of the first k events at a position between the end of event k and the
\* end of the next are all there are.
Complete(s, n, p, k) ==
  k \in 0..n /\ EndOf(s, k) <= p /\ (k = n \/ EndOf(s, k + 1) > p)

\* The ends of the events are in order.
Ordered(s, n) ==
  /\ \A k \in 0..n : EndOf(s, k) \in Nat
  /\ \A k \in 1..n : EndOf(s, k - 1) < EndOf(s, k)
  /\ EndOf(s, 0) = 0

LEMMA EndsAreOrdered ==
  ASSUME NEW s, NEW n \in Nat, Ordered(s, n), NEW k \in 0..n, NEW m \in k..n
  PROVE  EndOf(s, k) <= EndOf(s, m)
<1> DEFINE S == {i \in 0..n : i >= k => EndOf(s, k) <= EndOf(s, i)}
<1>1. \A i \in 0..n : EndOf(s, i) \in Nat
  BY DEF Ordered
<1>2. 0 \in S
  BY <1>1
<1>3. ASSUME NEW i \in 0..n, i < n, i \in S PROVE i + 1 \in S
  <2>1. i + 1 \in 1..n /\ (i + 1) - 1 = i /\ i + 1 \in 0..n
    BY <1>3
  <2>2. EndOf(s, i) < EndOf(s, i + 1)
    BY <2>1 DEF Ordered
  <2> QED BY <1>1, <1>3, <2>1, <2>2
<1>4. 0..n \subseteq S
  <2> HIDE DEF S
  <2> QED BY <1>2, <1>3, SetInduction
<1>5. m \in S /\ m >= k
  BY <1>4
<1> QED BY <1>5

\* There is a last event that is complete, not before any that is.
LEMMA LastComplete ==
  ASSUME NEW s, NEW n \in Nat, Ordered(s, n), NEW p \in Nat, NEW k \in 0..n, EndOf(s, k) <= p
  PROVE  \E m \in k..n : Complete(s, n, p, m)
<1> DEFINE S == {i \in 0..n : i >= k => EndOf(s, i) <= p}
<1>1. \A i \in 0..n : EndOf(s, i) \in Nat
  BY DEF Ordered
<1>2. SUFFICES ASSUME \A m \in k..n : ~Complete(s, n, p, m) PROVE FALSE
  BY Zenon
<1>3. 0 \in S
  OBVIOUS
<1>4. ASSUME NEW i \in 0..n, i < n, i \in S PROVE i + 1 \in S
  <2>1. CASE i + 1 < k
    BY <1>4, <2>1
  <2>2. CASE i + 1 = k
    BY <1>4, <2>2
  <2>3. CASE i >= k
    <3>1. i \in k..n /\ i # n /\ EndOf(s, i) <= p /\ i + 1 \in 0..n
      BY <1>4, <2>3
    <3>2. ~(EndOf(s, i + 1) > p)
      BY <1>2, <3>1 DEF Complete
    <3> QED BY <1>1, <3>1, <3>2
  <2> QED BY <1>4, <2>1, <2>2, <2>3
<1>5. 0..n \subseteq S
  <2> HIDE DEF S
  <2> QED BY <1>3, <1>4, SetInduction
<1>6. n \in k..n /\ EndOf(s, n) <= p
  BY <1>5
<1> QED BY <1>2, <1>6 DEF Complete

\* What is told at p is what the events tell that are complete then; what has not
\* arrived adds nothing (all: the changes when everything has arrived).
LEMMA ToldByComplete ==
  ASSUME NEW s, NEW n \in Nat, Ordered(s, n), NEW p \in Nat, NEW k, Complete(s, n, p, k),
         NEW q \in Nat, \A i \in 0..n : EndOf(s, i) <= q,
         NEW f, Tells(s, p, n, f), NEW all, Tells(s, q, n, all)
  PROVE  f[n] = all[k]
<1>1. k \in 0..n /\ EndOf(s, k) <= p /\ (k = n \/ EndOf(s, k + 1) > p)
  BY DEF Complete
<1>2. \A i \in 0..n : EndOf(s, i) \in Nat
  BY DEF Ordered
<1>3. ASSUME NEW i \in 1..n
      PROVE  s.ends[i] = EndOf(s, i) /\ (s.ends[i] <= p <=> i <= k) /\ s.ends[i] <= q
  <2>1. s.ends[i] = EndOf(s, i) /\ i \in 0..n
    BY DEF EndOf
  <2>2. CASE i <= k
    <3>1. k \in i..n
      BY <1>1, <2>2
    <3>2. EndOf(s, i) <= EndOf(s, k)
      BY <2>1, <3>1, EndsAreOrdered
    <3> QED BY <1>1, <1>2, <2>1, <2>2, <3>2
  <2>3. CASE ~(i <= k)
    <3>1. k + 1 \in 0..n /\ i \in k + 1..n
      BY <1>1, <2>3
    <3>2. EndOf(s, k + 1) <= EndOf(s, i)
      BY <3>1, EndsAreOrdered
    <3> QED BY <1>1, <1>2, <2>1, <2>3, <3>1, <3>2
  <2> QED BY <2>2, <2>3
<1> DEFINE S == {i \in 0..n : f[i] = IF i <= k THEN all[i] ELSE all[k]}
<1>4. 0 \in S
  <2>1. 0 \in 0..n /\ 0 <= k
    BY <1>1
  <2>2. f[0] = <<>> /\ all[0] = <<>>
    BY DEF Tells
  <2>3. f[0] = all[0]
    BY <2>2
  <2> QED BY <2>1, <2>3
<1>5. ASSUME NEW i \in 0..n, i < n, i \in S PROVE i + 1 \in S
  <2>1. i + 1 \in 1..n /\ (i + 1) - 1 = i /\ i + 1 \in 0..n
    BY <1>5
  <2>2. f[i + 1] = ToldStep(s, p, i + 1, f[i]) /\ all[i + 1] = ToldStep(s, q, i + 1, all[i])
    BY <2>1 DEF Tells
  <2>3. CASE i + 1 <= k
    <3>1. f[i] = all[i] /\ s.ends[i + 1] <= p /\ s.ends[i + 1] <= q
      BY <1>1, <1>3, <1>5, <2>1, <2>3
    <3>2. f[i + 1] = all[i + 1]
      BY <2>2, <3>1 DEF ToldStep
    <3> QED BY <2>1, <2>3, <3>2
  <2>4. CASE ~(i + 1 <= k)
    <3>1. f[i] = all[k] /\ ~(s.ends[i + 1] <= p)
      BY <1>1, <1>3, <1>5, <2>1, <2>4
    <3>2. f[i + 1] = all[k]
      BY <2>2, <3>1 DEF ToldStep
    <3> QED BY <2>1, <2>4, <3>2
  <2> QED BY <2>3, <2>4
<1>6. 0..n \subseteq S
  <2> HIDE DEF S
  <2> QED BY <1>4, <1>5, SetInduction
<1>7. n \in S
  BY <1>6
<1>8. f[n] = IF n <= k THEN all[n] ELSE all[k]
  BY <1>7
<1> QED BY <1>1, <1>8

-----------------------------------------------------------------------------
\* The invariant: k events have been cut off and what has arrived since is in the
\* buffer; what they tell has been handed on, and no more than close_after; between
\* chunks no complete event is left, unless listen has ended at close_after.
Full(l, g) == l > 0 /\ Len(g) >= l

After(s, l, p, b, g, c, nl, n, k) ==
  /\ LaysOut(s, nl, n) /\ k \in 0..n
  /\ l \in Nat /\ p \in 0..Len(s.wire) /\ c \in {"connect", "read", "drain", "ok", "err"}
  /\ EndOf(s, k) <= p /\ b = SubSeq(s.wire, EndOf(s, k) + 1, p)
  /\ g = ToldSeq(s, Len(s.wire))[k] /\ (l > 0 => Len(g) <= l)
  /\ Full(l, g) => c = "ok"
  /\ c # "drain" /\ ~Full(l, g) => Complete(s, n, p, k)

Sound(s, l, p, b, g, c) ==
  \E nl \in LineEnds : \E k \in 0..Len(s.kinds) : After(s, l, p, b, g, c, nl, Len(s.kinds), k)

IInv == Sound(stream, limit, pos, buffer, got, pc)

LEMMA LaidInOrder ==
  ASSUME NEW s, NEW nl, NEW n \in Nat, LaysOut(s, nl, n)
  PROVE  /\ Ordered(s, n) /\ Tells(s, Len(s.wire), n, ToldSeq(s, Len(s.wire)))
         /\ Len(s.wire) \in Nat /\ \A i \in 0..n : EndOf(s, i) <= Len(s.wire)
<1>1. Len(s.wire) \in Nat /\ Len(s.kinds) = n /\ EndOf(s, 0) = 0
  BY DEF LaysOut, EndOf
<1>2. \A k \in 0..n : EndOf(s, k) \in Nat /\ EndOf(s, k) <= Len(s.wire)
  BY <1>1 DEF LaysOut
<1>3. ASSUME NEW k \in 1..n PROVE EndOf(s, k - 1) < EndOf(s, k)
  <2>3. PICK E : E = EventAt(s, k, nl)
    OBVIOUS
  <2>4. E \in Seq(Token) /\ Len(E) > 0 /\ EndOf(s, k) = EndOf(s, k - 1) + Len(E)
    BY <2>3 DEF LaysOut
  <2>1. PICK d \in Nat : d = Len(E) /\ d > 0 /\ EndOf(s, k) = EndOf(s, k - 1) + d
    BY <2>4
  <2>2. k - 1 \in 0..n /\ k \in 0..n
    OBVIOUS
  <2> QED BY <1>2, <2>1, <2>2
<1>4. Tells(s, Len(s.wire), n, ToldSeq(s, Len(s.wire)))
  BY <1>1, ToldFacts
<1> QED BY <1>1, <1>2, <1>3, <1>4 DEF Ordered

\* What the buffer holds.
Holds(s, e, p, b) ==
  /\ b \in Seq(Token) /\ e \in Nat /\ p \in Nat /\ Len(b) = p - e
  /\ \A i \in 1..Len(b) : b[i] = s.wire[e + i]

LEMMA Tail1 ==
  ASSUME NEW s, s.wire \in Seq(Token), NEW p \in 0..Len(s.wire), NEW e \in 0..p
  PROVE  Holds(s, e, p, SubSeq(s.wire, e + 1, p))
<1>1. PICK b : b = SubSeq(s.wire, e + 1, p)
  OBVIOUS
<1>2. /\ e + 1 \in Int /\ p \in Int /\ p - (e + 1) + 1 = p - e /\ \A i \in e + 1..p : s.wire[i] \in Token
  OBVIOUS
<1>3. /\ b \in Seq(Token) /\ Len(b) = (IF e + 1 <= p THEN p - (e + 1) + 1 ELSE 0)
      /\ \A i \in 1..p - (e + 1) + 1 : b[i] = s.wire[e + 1 + i - 1]
  BY <1>1, <1>2, SubSeqProperties
<1>4. Len(b) = p - e
  BY <1>2, <1>3
<1>5. ASSUME NEW i \in 1..Len(b) PROVE b[i] = s.wire[e + i]
  <2>1. e + 1 + i - 1 = e + i /\ i \in 1..p - (e + 1) + 1
    BY <1>2, <1>4
  <2> QED BY <1>3, <2>1
<1> QED BY <1>1, <1>3, <1>4, <1>5 DEF Holds

LEMMA HoldsSame ==
  ASSUME NEW s, NEW e, NEW p, NEW a, NEW b, Holds(s, e, p, a), Holds(s, e, p, b)
  PROVE  a = b
<1>1. a \in Seq(Token) /\ b \in Seq(Token) /\ Len(a) = Len(b) /\ \A i \in 1..Len(a) : a[i] = b[i]
  BY DEF Holds
<1> QED BY <1>1, SeqEqual

\* A chunk goes behind what is left over.
LEMMA HoldsMore ==
  ASSUME NEW s, s.wire \in Seq(Token), NEW upto \in 0..Len(s.wire), NEW p \in 0..upto, NEW e \in 0..p
  PROVE  SubSeq(s.wire, e + 1, p) \o SubSeq(s.wire, p + 1, upto) = SubSeq(s.wire, e + 1, upto)
<1>1. PICK x, y, z, w : /\ x = SubSeq(s.wire, e + 1, p) /\ y = SubSeq(s.wire, p + 1, upto)
                        /\ z = SubSeq(s.wire, e + 1, upto) /\ w = x \o y
  OBVIOUS
<1>2. p \in 0..Len(s.wire) /\ e \in 0..upto
  OBVIOUS
<1>3. Holds(s, e, p, x) /\ Holds(s, p, upto, y) /\ Holds(s, e, upto, z)
  BY <1>1, <1>2, Tail1
<1>4. x \in Seq(Token) /\ y \in Seq(Token) /\ Len(x) = p - e /\ Len(y) = upto - p
  BY <1>3 DEF Holds
<1>5. /\ w \in Seq(Token) /\ Len(w) = Len(x) + Len(y)
      /\ \A i \in 1..Len(x) + Len(y) : w[i] = IF i <= Len(x) THEN x[i] ELSE y[i - Len(x)]
  BY <1>1, <1>4, ConcatProperties
<1>6. Len(w) = upto - e
  <2>1. Len(w) = (p - e) + (upto - p) /\ p \in Nat /\ e \in Nat /\ upto \in Nat
    BY <1>4, <1>5
  <2> QED BY <2>1
<1>7. ASSUME NEW i \in 1..upto - e PROVE w[i] = s.wire[e + i]
  <2>1. i \in 1..Len(x) + Len(y)
    BY <1>4
  <2>2. CASE i <= p - e
    <3>1. w[i] = x[i] /\ i \in 1..Len(x)
      BY <1>4, <1>5, <2>1, <2>2
    <3> QED BY <1>3, <3>1 DEF Holds
  <2>3. CASE ~(i <= p - e)
    <3>1. PICK j \in 1..Len(y) : j = i - (p - e) /\ p + j = e + i
      BY <1>4, <2>3
    <3>2. w[i] = y[j]
      BY <1>4, <1>5, <2>1, <2>3, <3>1
    <3> QED BY <1>3, <3>1, <3>2 DEF Holds
  <2> QED BY <2>2, <2>3
<1>8. Holds(s, e, upto, w)
  <2>1. e \in Nat /\ upto \in Nat /\ w \in Seq(Token) /\ 1..Len(w) = 1..upto - e
    BY <1>5, <1>6
  <2> QED BY <1>6, <1>7, <2>1 DEF Holds
<1>9. w = z
  BY <1>3, <1>8, HoldsSame
<1> QED BY <1>1, <1>9

\* An event is cut off what is left over.
LEMMA HoldsLess ==
  ASSUME NEW s, s.wire \in Seq(Token), NEW p \in 0..Len(s.wire), NEW e \in 0..p, NEW d \in 0..p - e
  PROVE  LET b == SubSeq(s.wire, e + 1, p)
         IN  SubSeq(b, d + 1, Len(b)) = SubSeq(s.wire, e + d + 1, p)
<1>1. PICK b, x, y : /\ b = SubSeq(s.wire, e + 1, p) /\ x = SubSeq(b, d + 1, Len(b))
                     /\ y = SubSeq(s.wire, e + d + 1, p)
  OBVIOUS
<1>2. e + d \in 0..p
  OBVIOUS
<1>3. Holds(s, e, p, b) /\ Holds(s, e + d, p, y)
  BY <1>1, <1>2, Tail1
<1>4. PICK m \in Nat : m = Len(b) /\ m = p - e /\ d \in 0..m /\ b \in Seq(Token)
  BY <1>3 DEF Holds
<1>5. /\ d + 1 \in Int /\ m \in Int /\ m - (d + 1) + 1 = m - d /\ \A i \in d + 1..m : b[i] \in Token
  <2>1. d \in Nat /\ m \in Nat
    BY <1>4
  <2>2. ASSUME NEW i \in d + 1..m PROVE b[i] \in Token
    <3>1. i \in 1..Len(b)
      BY <1>4, <2>1
    <3>2. b \in Seq(Token)
      BY <1>4
    <3> QED BY <3>1, <3>2
  <2> QED BY <2>1, <2>2
<1>6. /\ x \in Seq(Token) /\ Len(x) = (IF d + 1 <= m THEN m - (d + 1) + 1 ELSE 0)
      /\ \A i \in 1..m - (d + 1) + 1 : x[i] = b[d + 1 + i - 1]
  BY <1>1, <1>4, <1>5, SubSeqProperties
<1>7. Len(x) = p - (e + d)
  BY <1>4, <1>6
<1>8. ASSUME NEW i \in 1..Len(x) PROVE x[i] = s.wire[(e + d) + i]
  <2>1. PICK j \in 1..m : j = d + i /\ d + 1 + i - 1 = j /\ e + j = (e + d) + i /\ i \in 1..m - (d + 1) + 1
    BY <1>4, <1>7
  <2>2. x[i] = b[j]
    BY <1>6, <2>1
  <2> QED BY <1>3, <1>4, <2>1, <2>2 DEF Holds
<1>9. Holds(s, e + d, p, x)
  BY <1>2, <1>6, <1>7, <1>8 DEF Holds
<1>10. x = y
  BY <1>3, <1>9, HoldsSame
<1> QED BY <1>1, <1>10

\* The event that the buffer begins with.
LEMMA BufferCuts ==
  ASSUME NEW s, NEW nl \in LineEnds, NEW n \in Nat, LaysOut(s, nl, n), NEW k \in 0..n, k < n,
         NEW p \in 0..Len(s.wire), EndOf(s, k) <= p, NEW b, b = SubSeq(s.wire, EndOf(s, k) + 1, p)
  PROVE  CutsEvent(EventAt(s, k + 1, nl), s.kinds[k + 1], k + 1, b)
<1>1. PICK e \in Nat : e = EndOf(s, k) /\ e \in 0..p
  BY DEF LaysOut
<1>2. s.wire \in Seq(Token) /\ s.kinds \in Seq(Kinds) /\ Len(s.kinds) = n
  BY DEF LaysOut
<1>3. Holds(s, e, p, b)
  BY <1>1, <1>2, Tail1
<1>4. k + 1 \in 1..n /\ (k + 1) - 1 = k /\ k + 1 \in Nat /\ s.kinds[k + 1] \in Kinds
  BY <1>2
<1>5. PICK E : E = EventAt(s, k + 1, nl)
  OBVIOUS
<1>6. E = Encode(s.kinds[k + 1], k + 1, nl)
  BY <1>5 DEF EventAt
<1>7. \A i \in 1..Len(E) : s.wire[e + i] = E[i]
  BY <1>1, <1>4, <1>5 DEF LaysOut
<1>8. b \in Seq(Token) /\ Len(b) = p - e /\ \A i \in 1..Len(b) : b[i] = s.wire[e + i]
  BY <1>3 DEF Holds
<1>9. Begins(E, b)
  <2>1. ASSUME NEW i \in 1..Len(E), i <= Len(b) PROVE b[i] = E[i]
    <3>1. i \in 1..Len(b)
      BY <1>8, <2>1
    <3> QED BY <1>7, <1>8, <3>1
  <2> QED BY <2>1 DEF Begins
<1>10. ASSUME nl = <<LF>>, NEW i \in 1..Len(b) PROVE b[i] # CR
  <2>1. e + i \in 1..Len(s.wire)
    <3>1. PICK P \in Nat : P = Len(s.wire) /\ p \in Nat /\ p <= P
      BY <1>2
    <3>2. i \in 1..p - e /\ e <= p
      BY <1>1, <1>8
    <3>3. e + i \in 1..P
      BY <3>1, <3>2
    <3> QED BY <3>1, <3>3
  <2>2. s.wire[e + i] # CR
    BY <1>10, <2>1 DEF LaysOut
  <2> QED BY <1>8, <2>2
<1> QED BY <1>4, <1>5, <1>6, <1>8, <1>9, <1>10, EventCut

-----------------------------------------------------------------------------
\* The invariant, one step of listen at a time.
LEMMA SoundInit ==
  ASSUME NEW kinds \in Seq(Kinds), NEW nl \in LineEnds, NEW l \in Nat
  PROVE  Sound(Sent(kinds, nl), l, 0, <<>>, <<>>, "connect")
<1> PICK n \in Nat : n = Len(kinds)
  OBVIOUS
<1> PICK s : s = Sent(kinds, nl)
  OBVIOUS
<1>1. n = Len(kinds) /\ s = Sent(kinds, nl)
  OBVIOUS
<1>2. LaysOut(s, nl, n)
  BY <1>1, SentLaysOut
<1>3. Ordered(s, n) /\ Tells(s, Len(s.wire), n, ToldSeq(s, Len(s.wire))) /\ Len(s.wire) \in Nat
  BY <1>2, LaidInOrder
<1>4. Len(s.kinds) = n
  BY <1>2 DEF LaysOut
<1>5. EndOf(s, 0) = 0 /\ 0 \in 0..n
  BY DEF EndOf
<1>6. Complete(s, n, 0, 0)
  <2>1. CASE n = 0
    BY <1>5, <2>1 DEF Complete
  <2>2. CASE n # 0
    <3>1. 1 \in 1..n /\ 1 - 1 = 0 /\ 1 \in 0..n /\ 0 + 1 = 1
      BY <2>2
    <3>2. EndOf(s, 1) > 0
      BY <1>3, <1>5, <3>1 DEF Ordered
    <3> QED BY <1>5, <3>1, <3>2 DEF Complete
  <2> QED BY <2>1, <2>2
<1>7. <<>> = SubSeq(s.wire, EndOf(s, 0) + 1, 0)
  BY <1>5, SubSeqEmpty
<1>8. ToldSeq(s, Len(s.wire))[0] = <<>>
  BY <1>3 DEF Tells
<1>9. Len(<<>>) = 0 /\ ~Full(l, <<>>)
  BY DEF Full
<1>10. After(s, l, 0, <<>>, <<>>, "connect", nl, n, 0)
  BY <1>2, <1>3, <1>5, <1>6, <1>7, <1>8, <1>9 DEF After
<1> QED BY <1>1, <1>4, <1>5, <1>10 DEF Sound

\* Connect and Close.
LEMMA SoundStays ==
  ASSUME NEW s, NEW l, NEW p, NEW b, NEW g, NEW c \in {"connect", "read"}, Sound(s, l, p, b, g, c),
         NEW d \in {"read", "ok", "err"}
  PROVE  Sound(s, l, p, b, g, d)
<1>1. PICK nl \in LineEnds, k \in 0..Len(s.kinds) : After(s, l, p, b, g, c, nl, Len(s.kinds), k)
  BY DEF Sound
<1>2. After(s, l, p, b, g, d, nl, Len(s.kinds), k)
  BY <1>1 DEF After
<1> QED BY <1>1, <1>2 DEF Sound

LEMMA SoundRead ==
  ASSUME NEW s, NEW l, NEW p, NEW b, NEW g, Sound(s, l, p, b, g, "read"),
         NEW upto \in (p + 1)..Len(s.wire)
  PROVE  Sound(s, l, upto, b \o SubSeq(s.wire, p + 1, upto), g, "drain")
<1>1. PICK nl \in LineEnds, k \in 0..Len(s.kinds) : After(s, l, p, b, g, "read", nl, Len(s.kinds), k)
  BY DEF Sound
<1>2. PICK n \in Nat : n = Len(s.kinds)
  BY <1>1 DEF After, LaysOut
<1>3. LaysOut(s, nl, n) /\ s.wire \in Seq(Token) /\ p \in 0..Len(s.wire)
  BY <1>1, <1>2 DEF After, LaysOut
<1>4. Len(s.wire) \in Nat /\ p \in Nat /\ upto \in 0..Len(s.wire) /\ p \in 0..upto
  BY <1>3
<1>5. EndOf(s, k) \in 0..p
  BY <1>1, <1>2, <1>3, <1>4 DEF After, LaysOut
<1>6. PICK c : c = b \o SubSeq(s.wire, p + 1, upto)
  OBVIOUS
<1>7. c = SubSeq(s.wire, EndOf(s, k) + 1, upto)
  <2>1. b = SubSeq(s.wire, EndOf(s, k) + 1, p)
    BY <1>1 DEF After
  <2>2. PICK e \in 0..p : e = EndOf(s, k)
    BY <1>5
  <2>3. SubSeq(s.wire, e + 1, p) \o SubSeq(s.wire, p + 1, upto) = SubSeq(s.wire, e + 1, upto)
    BY <1>3, <1>4, HoldsMore
  <2> QED BY <1>6, <2>1, <2>2, <2>3
<1>8. ~Full(l, g) /\ l \in Nat /\ g = ToldSeq(s, Len(s.wire))[k] /\ (l > 0 => Len(g) <= l)
  BY <1>1 DEF After
<1>9. After(s, l, upto, c, g, "drain", nl, n, k)
  BY <1>1, <1>2, <1>3, <1>4, <1>5, <1>7, <1>8 DEF After
<1> QED BY <1>1, <1>2, <1>6, <1>9 DEF Sound

LEMMA SoundDrained ==
  ASSUME NEW s, NEW l, NEW p, NEW b, NEW g, Sound(s, l, p, b, g, "drain"), Split(b) = NULL
  PROVE  Sound(s, l, p, b, g, "read")
<1>1. PICK nl \in LineEnds, k \in 0..Len(s.kinds) : After(s, l, p, b, g, "drain", nl, Len(s.kinds), k)
  BY DEF Sound
<1>2. PICK n \in Nat : n = Len(s.kinds)
  BY <1>1 DEF After, LaysOut
<1>3. /\ LaysOut(s, nl, n) /\ s.wire \in Seq(Token) /\ p \in 0..Len(s.wire) /\ EndOf(s, k) <= p
      /\ b = SubSeq(s.wire, EndOf(s, k) + 1, p) /\ k \in 0..n /\ ~Full(l, g)
  BY <1>1, <1>2 DEF After, LaysOut
<1>4. Complete(s, n, p, k)
  <2>1. CASE k = n
    BY <1>3, <2>1 DEF Complete
  <2>2. CASE k # n
    <3>1. k < n /\ k + 1 \in 1..n /\ (k + 1) - 1 = k
      BY <1>3, <2>2
    <3>2. PICK E : E = EventAt(s, k + 1, nl)
      OBVIOUS
    <3>3. CutsEvent(E, s.kinds[k + 1], k + 1, b)
      BY <1>3, <3>1, <3>2, BufferCuts
    <3>4. ~(Len(b) >= Len(E))
      BY <3>3 DEF CutsEvent
    <3>5. PICK e \in Nat : e = EndOf(s, k) /\ e \in 0..p
      BY <1>3 DEF LaysOut
    <3>6. Holds(s, e, p, b)
      BY <1>3, <3>5, Tail1
    <3>7. E \in Seq(Token) /\ EndOf(s, k + 1) = e + Len(E)
      BY <1>3, <3>1, <3>2, <3>5 DEF LaysOut
    <3>8. PICK d \in Nat : d = Len(E) /\ EndOf(s, k + 1) = e + d
      BY <3>7
    <3>9. Len(b) = p - e /\ p \in Nat
      BY <3>6 DEF Holds
    <3>10. EndOf(s, k + 1) > p
      <4>1. ~(p - e >= d)
        BY <3>4, <3>8, <3>9
      <4>2. e + d > p
        BY <3>9, <4>1
      <4> QED BY <3>8, <4>2
    <3> QED BY <1>3, <3>10 DEF Complete
  <2> QED BY <2>1, <2>2
<1>5. After(s, l, p, b, g, "read", nl, n, k)
  BY <1>1, <1>2, <1>3, <1>4 DEF After
<1> QED BY <1>1, <1>2, <1>5 DEF Sound

\* How got grows, and where the loop goes.
NewGot(g, change) == IF change = NULL THEN g ELSE Append(g, change)
NewPc(l, g, h) == IF h # g /\ l > 0 /\ Len(h) >= l THEN "ok" ELSE "drain"

LEMMA SoundHandle ==
  ASSUME NEW s, NEW l, NEW p, NEW b, NEW g, Sound(s, l, p, b, g, "drain"), Split(b) # NULL,
         NEW h, h = NewGot(g, ChangeOf(Payload(Split(b).block)))
  PROVE  Sound(s, l, p, Split(b).rest, h, NewPc(l, g, h))
<1>1. PICK nl \in LineEnds, k \in 0..Len(s.kinds) : After(s, l, p, b, g, "drain", nl, Len(s.kinds), k)
  BY DEF Sound
<1>2. PICK n \in Nat : n = Len(s.kinds)
  BY <1>1 DEF After, LaysOut
<1>3. /\ LaysOut(s, nl, n) /\ s.wire \in Seq(Token) /\ p \in 0..Len(s.wire) /\ EndOf(s, k) <= p
      /\ b = SubSeq(s.wire, EndOf(s, k) + 1, p) /\ k \in 0..n /\ ~Full(l, g) /\ l \in Nat
      /\ g = ToldSeq(s, Len(s.wire))[k] /\ s.kinds \in Seq(Kinds)
  BY <1>1, <1>2 DEF After, LaysOut
<1>4. PICK e \in Nat : e = EndOf(s, k) /\ e \in 0..p
  BY <1>3 DEF LaysOut
<1>5. PICK P \in Nat : P = Len(s.wire) /\ p \in 0..P
  BY <1>3
<1>6. k < n
  <2>1. ASSUME k = n PROVE FALSE
    <3>1. EndOf(s, k) = Len(s.wire)
      BY <1>3, <2>1 DEF LaysOut
    <3>2. e + 1 \in Int /\ p \in Int /\ p < e + 1
      BY <1>4, <1>5, <3>1
    <3>3. b = <<>>
      BY <1>3, <1>4, <3>2, SubSeqEmpty
    <3> QED BY <3>3, CutsNothing
  <2> QED BY <1>3, <2>1
<1>7. k + 1 \in 1..n /\ k + 1 \in 0..n /\ (k + 1) - 1 = k /\ k + 1 \in Nat
  BY <1>3, <1>6
<1>8. PICK E, kind : E = EventAt(s, k + 1, nl) /\ kind = s.kinds[k + 1]
  OBVIOUS
<1>9. CutsEvent(E, kind, k + 1, b)
  BY <1>3, <1>6, <1>8, BufferCuts
<1>10. E \in Seq(Token) /\ EndOf(s, k + 1) = e + Len(E)
  BY <1>3, <1>4, <1>7, <1>8 DEF LaysOut
<1>11. PICK d \in Nat : d = Len(E) /\ EndOf(s, k + 1) = e + d
  BY <1>10
<1>12. Holds(s, e, p, b)
  BY <1>3, <1>4, Tail1
<1>13. Len(b) = p - e /\ p \in Nat
  BY <1>12 DEF Holds
<1>14. Len(b) >= Len(E)
  BY <1>9, <1>11, <1>13 DEF CutsEvent
<1>15. PICK t : /\ Split(b) = t /\ t.rest = SubSeq(b, Len(E) + 1, Len(b))
                /\ ChangeOf(Payload(t.block)) = Says(kind, k + 1)
  BY <1>9, <1>14 DEF CutsEvent
<1>16. PICK r : r = Split(b).rest
  OBVIOUS
<1>17. r = SubSeq(s.wire, EndOf(s, k + 1) + 1, p) /\ EndOf(s, k + 1) <= p
  <2>1. d \in 0..p - e
    BY <1>4, <1>11, <1>13, <1>14
  <2>2. SubSeq(b, d + 1, Len(b)) = SubSeq(s.wire, e + d + 1, p)
    BY <1>3, <1>4, <2>1, HoldsLess
  <2>3. r = SubSeq(b, d + 1, Len(b))
    BY <1>11, <1>15, <1>16
  <2>4. r = SubSeq(s.wire, EndOf(s, k + 1) + 1, p)
    BY <1>11, <2>2, <2>3
  <2>5. e + d <= p
    BY <1>4, <1>13, <2>1
  <2> QED BY <1>11, <2>4, <2>5
<1>18. PICK all : all = ToldSeq(s, P)
  OBVIOUS
<1>19. Tells(s, P, n, all) /\ EndOf(s, k + 1) <= P
  BY <1>3, <1>5, <1>7, <1>18, LaidInOrder
<1>20. g = all[k] /\ g \in Seq(1..n)
  BY <1>3, <1>5, <1>18, <1>19 DEF Tells
<1>21. all[k + 1] = IF kind \in Telling THEN Append(g, k + 1) ELSE g
  <2>1. all[k + 1] = ToldStep(s, P, k + 1, g)
    BY <1>7, <1>19, <1>20 DEF Tells
  <2>2. s.ends[k + 1] <= P
    BY <1>3, <1>7, <1>19 DEF EndOf
  <2> QED BY <1>8, <2>1, <2>2 DEF ToldStep
<1>22. h = all[k + 1]
  <2>1. k + 1 # NULL
    BY <1>7, StreamAssumption
  <2>2. h = NewGot(g, Says(kind, k + 1))
    BY <1>15
  <2> QED BY <1>21, <2>1, <2>2 DEF NewGot, Says
<1>23. Len(g) \in Nat /\ (l = 0 \/ Len(g) < l)
  BY <1>3, <1>20 DEF Full
<1>24. (h = g \/ Len(h) = Len(g) + 1)
  BY <1>20, <1>21, <1>22
<1>25. l > 0 => Len(h) <= l
  <2>1. PICK x, y : x \in Nat /\ x = Len(g) /\ y = Len(h) /\ (y = x \/ y = x + 1) /\ (l = 0 \/ x < l)
    BY <1>23, <1>24
  <2>2. l \in Nat
    BY <1>3
  <2>3. l > 0 => y <= l
    BY <2>1, <2>2
  <2> QED BY <2>1, <2>3
<1>26. PICK c : c = NewPc(l, g, h)
  OBVIOUS
<1>27. c \in {"ok", "drain"} /\ (Full(l, h) => c = "ok") /\ (c # "drain" => Full(l, h))
  <2>1. Full(l, h) => h # g
    BY <1>3
  <2> QED BY <1>26, <2>1 DEF NewPc, Full
<1>28. After(s, l, p, r, h, c, nl, n, k + 1)
  <2>1. h = ToldSeq(s, Len(s.wire))[k + 1]
    BY <1>5, <1>18, <1>22
  <2> QED BY <1>3, <1>7, <1>17, <1>25, <1>27, <2>1 DEF After
<1> QED BY <1>1, <1>2, <1>7, <1>16, <1>26, <1>28 DEF Sound

-----------------------------------------------------------------------------
\* What the invariant says of a state.
LEMMA SoundTyped ==
  ASSUME NEW s, NEW l, NEW p, NEW b, NEW g, NEW c, Sound(s, l, p, b, g, c)
  PROVE  /\ c \in {"connect", "read", "drain", "ok", "err"} /\ p \in 0..Len(s.wire)
         /\ Len(b) <= p /\ b = SubSeq(s.wire, p - Len(b) + 1, p)
<1>1. PICK nl \in LineEnds, k \in 0..Len(s.kinds) : After(s, l, p, b, g, c, nl, Len(s.kinds), k)
  BY DEF Sound
<1>2. PICK n \in Nat : n = Len(s.kinds)
  BY <1>1 DEF After, LaysOut
<1>3. /\ s.wire \in Seq(Token) /\ p \in 0..Len(s.wire) /\ b = SubSeq(s.wire, EndOf(s, k) + 1, p)
      /\ c \in {"connect", "read", "drain", "ok", "err"}
  BY <1>1 DEF After, LaysOut
<1>4. PICK e \in Nat : e = EndOf(s, k) /\ e \in 0..p
  BY <1>1, <1>2, <1>3 DEF After, LaysOut
<1>5. Holds(s, e, p, b)
  BY <1>3, <1>4, Tail1
<1>6. Len(b) = p - e /\ p \in Nat
  BY <1>5 DEF Holds
<1>7. p - e <= p /\ p - (p - e) + 1 = e + 1
  BY <1>6
<1>8. Len(b) <= p /\ p - Len(b) + 1 = EndOf(s, k) + 1
  BY <1>4, <1>6, <1>7
<1> QED BY <1>3, <1>8

UpTo(y, l) == IF l = 0 \/ Len(y) <= l THEN y ELSE SubSeq(y, 1, l)

LEMMA StartsCut ==
  ASSUME NEW T, NEW x \in Seq(T), NEW y \in Seq(T), Starts(x, y), NEW l \in Nat, l = 0 \/ Len(x) <= l
  PROVE  /\ IsPrefix(x, UpTo(y, l))
         /\ l > 0 /\ Len(x) = l => x = UpTo(y, l)
<1>1. PICK a \in Nat, c \in Nat : a = Len(x) /\ c = Len(y) /\ a <= c
  BY DEF Starts
<1>2. \A j \in 1..a : y[j] = x[j]
  BY <1>1 DEF Starts
<1>3. PICK told : told = UpTo(y, l) /\ told = IF l = 0 \/ c <= l THEN y ELSE SubSeq(y, 1, l)
  BY <1>1 DEF UpTo
<1>4. /\ told \in Seq(T) /\ a <= Len(told) /\ (\A j \in 1..a : told[j] = x[j])
      /\ (l > 0 => Len(told) <= l)
  <2>1. CASE l = 0 \/ c <= l
    BY <1>1, <1>2, <1>3, <2>1
  <2>2. CASE ~(l = 0 \/ c <= l)
    <3>1. /\ 1 \in Int /\ l \in Int /\ 1 <= l /\ l - 1 + 1 = l /\ a <= l /\ l <= c
          /\ \A i \in 1..l : y[i] \in T
      BY <1>1, <2>2
    <3>2. told \in Seq(T) /\ Len(told) = l /\ \A i \in 1..l : told[i] = y[1 + i - 1]
      BY <1>3, <2>2, <3>1, SubSeqProperties
    <3>3. ASSUME NEW j \in 1..a PROVE told[j] = x[j]
      <4>1. j \in 1..l /\ 1 + j - 1 = j
        BY <3>1
      <4> QED BY <1>2, <3>2, <4>1
    <3> QED BY <3>1, <3>2, <3>3
  <2> QED BY <2>1, <2>2
<1>5. IsPrefix(x, told)
  <2>1. PICK u, v : u = SubSeq(x, 1, a) /\ v = SubSeq(told, 1, a)
    OBVIOUS
  <2>2. u = x
    BY <1>1, <2>1, SubSeqFull
  <2>3. /\ 1 \in Int /\ a \in Int /\ a - 1 + 1 = a /\ (IF 1 <= a THEN a - 1 + 1 ELSE 0) = a
        /\ \A i \in 1..a : told[i] \in T
    BY <1>1, <1>4
  <2>4. v \in Seq(T) /\ Len(v) = a /\ \A i \in 1..a : v[i] = told[1 + i - 1]
    BY <2>1, <2>3, SubSeqProperties
  <2>5. ASSUME NEW i \in 1..a PROVE v[i] = x[i]
    <3>1. 1 + i - 1 = i
      OBVIOUS
    <3> QED BY <1>4, <2>4, <3>1
  <2>6. v = x
    BY <1>1, <2>4, <2>5, SeqEqual
  <2> QED BY <1>1, <1>4, <2>1, <2>2, <2>6 DEF IsPrefix
<1>6. ASSUME l > 0, a = l PROVE x = told
  <2>1. Len(told) = a
    BY <1>4, <1>6
  <2> QED BY <1>1, <1>4, <2>1, SeqEqual
<1> QED BY <1>1, <1>3, <1>5, <1>6

LEMMA SoundTells ==
  ASSUME NEW s, NEW l, NEW p, NEW b, NEW g, NEW c, Sound(s, l, p, b, g, c)
  PROVE  /\ IsPrefix(g, ToldAt(s, p, l))
         /\ c # "drain" => g = ToldAt(s, p, l)
         /\ c = "read" => l = 0 \/ Len(g) < l
<1>1. PICK nl \in LineEnds, k \in 0..Len(s.kinds) : After(s, l, p, b, g, c, nl, Len(s.kinds), k)
  BY DEF Sound
<1>2. PICK n \in Nat : n = Len(s.kinds)
  BY <1>1 DEF After, LaysOut
<1>3. PICK P \in Nat : P = Len(s.wire) /\ p \in 0..P
  BY <1>1 DEF After, LaysOut
<1>4. /\ LaysOut(s, nl, n) /\ EndOf(s, k) <= p /\ k \in 0..n /\ l \in Nat /\ g = ToldSeq(s, P)[k]
      /\ (l > 0 => Len(g) <= l) /\ (Full(l, g) => c = "ok")
      /\ (c # "drain" /\ ~Full(l, g) => Complete(s, n, p, k))
  BY <1>1, <1>2, <1>3 DEF After
<1>5. PICK f, all : f = ToldSeq(s, p) /\ all = ToldSeq(s, P)
  OBVIOUS
<1>6. Ordered(s, n) /\ Tells(s, P, n, all) /\ \A i \in 0..n : EndOf(s, i) <= P
  BY <1>3, <1>4, <1>5, LaidInOrder
<1>7. Tells(s, p, n, f)
  BY <1>2, <1>5, ToldFacts
<1>8. PICK m \in k..n : Complete(s, n, p, m)
  BY <1>3, <1>4, <1>6, LastComplete
<1>9. f[n] = all[m]
  BY <1>3, <1>6, <1>7, <1>8, ToldByComplete
<1>10. Starts(all[k], all[m])
  BY <1>4, <1>6, <1>8, ToldGrows
<1>11. PICK y : y = all[m]
  OBVIOUS
<1>12. g \in Seq(1..n) /\ y \in Seq(1..n) /\ Starts(g, y)
  <2>1. m \in 0..n /\ g = all[k]
    BY <1>3, <1>4, <1>5, <1>8
  <2>2. \A i \in 0..n : all[i] \in Seq(1..n)
    BY <1>6 DEF Tells
  <2> QED BY <1>4, <1>10, <1>11, <2>1, <2>2
<1>13. PICK told : told = UpTo(y, l)
  OBVIOUS
<1>14. told = ToldAt(s, p, l)
  BY <1>2, <1>5, <1>9, <1>11, <1>13 DEF ToldAt, UpTo
<1>15. IsPrefix(g, told) /\ (l > 0 /\ Len(g) = l => g = told)
  BY <1>4, <1>12, <1>13, StartsCut
<1>16. Len(g) \in Nat
  BY <1>12
<1>17. ASSUME c # "drain" PROVE g = told
  <2>1. CASE Full(l, g)
    BY <1>4, <1>15, <1>16, <2>1 DEF Full
  <2>2. CASE ~Full(l, g)
    <3>1. Complete(s, n, p, k)
      BY <1>4, <1>17, <2>2
    <3>2. f[n] = all[k]
      BY <1>3, <1>6, <1>7, <3>1, ToldByComplete
    <3>3. y = g
      BY <1>4, <1>5, <1>9, <1>11, <3>2
    <3>4. l = 0 \/ Len(y) <= l
      BY <1>4, <3>3
    <3> QED BY <1>13, <3>3, <3>4 DEF UpTo
  <2> QED BY <2>1, <2>2
<1>18. c = "read" => l = 0 \/ Len(g) < l
  BY <1>4, <1>16 DEF Full
<1> QED BY <1>14, <1>15, <1>17, <1>18

-----------------------------------------------------------------------------
\* Theorems.
LEMMA InitSound == Init => IInv
<1> SUFFICES ASSUME Init PROVE IInv
  OBVIOUS
<1>1. PICK kinds \in Streams, nl \in LineEnds : stream = Sent(kinds, nl)
  BY DEF Init, LineEnds
<1>2. kinds \in Seq(Kinds) /\ limit \in Nat
  BY StreamAssumption DEF Init
<1>3. pos = 0 /\ buffer = <<>> /\ got = <<>> /\ pc = "connect"
  BY DEF Init
<1>4. PICK l \in Nat : l = limit
  BY <1>2
<1>5. Sound(Sent(kinds, nl), l, 0, <<>>, <<>>, "connect")
  BY <1>2, SoundInit
<1> QED BY <1>1, <1>3, <1>4, <1>5 DEF IInv

LEMMA NextSound == IInv /\ [Next]_vars => IInv'
<1> SUFFICES ASSUME IInv, [Next]_vars PROVE IInv'
  OBVIOUS
<1>1. PICK s, l, p, b, g, c : s = stream /\ l = limit /\ p = pos /\ b = buffer /\ g = got /\ c = pc
  OBVIOUS
<1>2. Sound(s, l, p, b, g, c)
  BY <1>1 DEF IInv
<1>3. PICK q, r, h, d : q = pos' /\ r = buffer' /\ h = got' /\ d = pc'
  OBVIOUS
<1>4. SUFFICES Sound(s, l, q, r, h, d) /\ stream' = s /\ limit' = l
  BY <1>3 DEF IInv
<1>5. CASE Connect
  <2>1. /\ c = "connect" /\ d \in {"read", "ok", "err"} /\ stream' = s /\ limit' = l
        /\ q = p /\ r = b /\ h = g
    BY <1>1, <1>3, <1>5 DEF Connect
  <2> QED BY <1>2, <2>1, SoundStays
<1>6. CASE Close
  <2>1. /\ c = "read" /\ d \in {"read", "ok", "err"} /\ stream' = s /\ limit' = l
        /\ q = p /\ r = b /\ h = g
    BY <1>1, <1>3, <1>6 DEF Close
  <2> QED BY <1>2, <2>1, SoundStays
<1>7. CASE Read
  <2>1. c = "read" /\ d = "drain" /\ stream' = s /\ limit' = l /\ h = g
    BY <1>1, <1>3, <1>7 DEF Read
  <2>2. PICK upto \in (p + 1)..Len(s.wire) : r = b \o SubSeq(s.wire, p + 1, upto) /\ q = upto
    BY <1>1, <1>3, <1>7 DEF Read
  <2> QED BY <1>2, <2>1, <2>2, SoundRead
<1>8. CASE Handle
  <2>1. /\ c = "drain" /\ Split(b) # NULL /\ r = Split(b).rest /\ stream' = s /\ limit' = l /\ q = p
        /\ h = NewGot(g, ChangeOf(Payload(Split(b).block))) /\ d = NewPc(l, g, h)
    BY <1>1, <1>3, <1>8 DEF Handle, NewGot, NewPc
  <2> QED BY <1>2, <2>1, SoundHandle
<1>9. CASE Drained
  <2>1. /\ c = "drain" /\ Split(b) = NULL /\ d = "read" /\ stream' = s /\ limit' = l
        /\ q = p /\ r = b /\ h = g
    BY <1>1, <1>3, <1>9 DEF Drained
  <2> QED BY <1>2, <2>1, SoundDrained
<1>10. CASE UNCHANGED vars
  BY <1>1, <1>2, <1>3, <1>10 DEF vars
<1> QED BY <1>5, <1>6, <1>7, <1>8, <1>9, <1>10 DEF Next

LEMMA Invariance == Spec => []IInv
BY InitSound, NextSound, PTL DEF Spec

\* The buffer holds the end of what has arrived, nothing less and nothing twice,
\* for every stream and every way to cut it (push.rs, listen).
THEOREM StreamTyped == Spec => []TypeOK
<1>1. IInv => TypeOK
  BY SoundTyped DEF IInv, TypeOK
<1> QED BY <1>1, Invariance, PTL

\* However a stream of any length is cut, on_change gets its changes in order, each
\* once, none early, and all of them before listen waits again (push.rs, listen).
THEOREM ChunkingIsHidden == Spec => []ChunksDoNotMatter
<1>1. IInv => ChunksDoNotMatter
  BY SoundTells, ToldIsToldAt DEF IInv, ChunksDoNotMatter
<1> QED BY <1>1, Invariance, PTL
=============================================================================
