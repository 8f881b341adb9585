--------------------------- MODULE JsonExtractProofs --------------------------
(***************************************************************************)
(* What extract_json returns, for texts of any length.  The scanner and    *)
(* the grammar are recursive functions on the naturals; what is known of   *)
(* all their values comes from the least number principle, here for sets:  *)
(* a set that would be disproved has a least counterexample.               *)
(***************************************************************************)
EXTENDS JsonExtract, WellFoundedInduction, TLAPS

(* A set of naturals that is not empty has a least element. *)
LEMMA LeastNatural ==
  ASSUME NEW T \in SUBSET Nat, T # {}
  PROVE  \E m \in T : \A k \in T : m <= k
<1>1. IsWellFoundedOn({p \in Nat \X Nat : p[1] < p[2]}, Nat)
  BY NatLessThanWellFounded DEF OpToRel
<1>2. PICK m \in T : \A k \in T : <<k, m>> \notin {p \in Nat \X Nat : p[1] < p[2]}
  BY <1>1, WFMin
<1>3. ASSUME NEW k \in T PROVE m <= k
  <2>1. <<k, m>> \in Nat \X Nat /\ <<k, m>>[1] = k /\ <<k, m>>[2] = m
    OBVIOUS
  <2>2. ~(k < m)
    BY <1>2, <2>1
  <2> QED BY <2>2
<1> QED BY <1>3

(* Strong induction: a set that has n whenever it has all smaller naturals *)
(* has every natural.                                                      *)
LEMMA StrongInduction ==
  ASSUME NEW S, \A n \in Nat : (\A k \in 0..(n - 1) : k \in S) => n \in S
  PROVE  \A n \in Nat : n \in S
<1> SUFFICES ASSUME Nat \ S # {} PROVE FALSE
  OBVIOUS
<1>1. PICK m \in Nat \ S : \A k \in Nat \ S : m <= k
  BY LeastNatural
<1>2. \A k \in 0..(m - 1) : k \in S
  BY <1>1
<1> QED BY <1>1, <1>2

(* D tells the value at n of a function to V from its values before n. *)
LooksBack(V, D) ==
  /\ V # {}
  /\ \A n \in Nat : \A g \in [Nat -> V] : D[n][g] \in V
  /\ \A n \in Nat : \A g, h \in [Nat -> V] :
       (\A k \in 0..(n - 1) : g[k] = h[k]) => D[n][g] = D[n][h]

(* A definition that only looks back defines a function. *)
LEMMA RecursionOnNaturals ==
  ASSUME NEW V, NEW D, LooksBack(V, D)
  PROVE  \E f \in [Nat -> V] : \A n \in Nat : f[n] = D[n][f]
<1> USE DEF LooksBack
<1> DEFINE Follows(k, g) == \A n \in 0..k : g[n] = D[n][g]
<1>1. \A k \in Nat : \A g, h \in [Nat -> V] :
        Follows(k, g) /\ Follows(k, h) => \A n \in 0..k : g[n] = h[n]
  <2> SUFFICES ASSUME NEW k \in Nat, NEW g \in [Nat -> V], NEW h \in [Nat -> V],
                      Follows(k, g), Follows(k, h)
               PROVE  \A n \in 0..k : g[n] = h[n]
    OBVIOUS
  <2> DEFINE S == {n \in Nat : n <= k => g[n] = h[n]}
  <2>1. \A n \in Nat : (\A i \in 0..(n - 1) : i \in S) => n \in S
    <3> SUFFICES ASSUME NEW n \in Nat, n <= k, \A i \in 0..(n - 1) : i \in S
                 PROVE  g[n] = h[n]
      OBVIOUS
    <3>1. \A i \in 0..(n - 1) : g[i] = h[i]
      OBVIOUS
    <3> QED BY <3>1
  <2>2. \A n \in Nat : n \in S
    <3> HIDE DEF S
    <3> QED BY <2>1, StrongInduction
  <2> QED BY <2>2
<1>2. \A k \in Nat : \E g \in [Nat -> V] : Follows(k, g)
  <2> DEFINE S == {k \in Nat : \E g \in [Nat -> V] : Follows(k, g)}
  <2>1. ASSUME NEW k \in Nat, \A i \in 0..(k - 1) : i \in S
        PROVE  k \in S
    <3>1. PICK g \in [Nat -> V] : \A n \in 0..(k - 1) : g[n] = D[n][g]
      <4>1. CASE k = 0
        <5>1. PICK v \in V : TRUE
          OBVIOUS
        <5> WITNESS [n \in Nat |-> v] \in [Nat -> V]
        <5> QED BY <4>1
      <4>2. CASE k > 0
        <5>1. k - 1 \in S
          BY <2>1, <4>2
        <5> QED BY <5>1
      <4> QED BY <4>1, <4>2
    <3> DEFINE h == [g EXCEPT ![k] = D[k][g]]
    <3>2. h \in [Nat -> V] /\ h[k] = D[k][g] /\ \A n \in 0..(k - 1) : h[n] = g[n]
      OBVIOUS
    <3> HIDE DEF h
    <3>3. ASSUME NEW n \in 0..k PROVE D[n][h] = D[n][g]
      <4>1. \A i \in 0..(n - 1) : h[i] = g[i]
        BY <3>2
      <4> QED BY <3>2, <4>1
    <3>4. ASSUME NEW n \in 0..k PROVE h[n] = D[n][h]
      <4>1. CASE n = k
        BY <3>2, <3>3, <4>1
      <4>2. CASE n # k
        <5>1. n \in 0..(k - 1)
          BY <4>2
        <5> QED BY <3>1, <3>2, <3>3, <5>1
      <4> QED BY <4>1, <4>2
    <3> QED BY <3>2, <3>4
  <2>2. \A k \in Nat : k \in S
    <3> HIDE DEF S
    <3> QED BY <2>1, StrongInduction
  <2> QED BY <2>2
<1> DEFINE best == [k \in Nat |-> CHOOSE g \in [Nat -> V] : Follows(k, g)]
           f == [n \in Nat |-> best[n][n]]
<1>3. \A k \in Nat : best[k] \in [Nat -> V] /\ Follows(k, best[k])
  BY <1>2
<1> HIDE DEF best
<1>4. f \in [Nat -> V]
  BY <1>3
<1>5. ASSUME NEW n \in Nat PROVE f[n] = D[n][f]
  <2>1. ASSUME NEW i \in 0..(n - 1) PROVE f[i] = best[n][i]
    <3>1. Follows(i, best[n]) /\ Follows(i, best[i])
      BY <1>3
    <3>2. \A m \in 0..i : best[i][m] = best[n][m]
      <4> HIDE DEF Follows
      <4> QED BY <1>1, <1>3, <3>1
    <3> QED BY <3>2
  <2>2. D[n][f] = D[n][best[n]]
    <3> HIDE DEF f
    <3> QED BY <2>1, <1>3, <1>4
  <2>3. best[n][n] = D[n][best[n]]
    BY <1>3
  <2> QED BY <2>2, <2>3
<1> HIDE DEF f
<1> QED BY <1>4, <1>5

-------------------------------------------------------------------------------
AllPieces == {"open", "close", "quote", "backslash", "plain", "prose"} \cup Fences
ScanState == [depth : Int, start : Nat, end : Nat, inString : BOOLEAN, escapeNext : BOOLEAN]

(* What the two braces do to each field. *)
LEMMA OpenBraceFields ==
  ASSUME NEW s \in ScanState, NEW i \in Nat
  PROVE  OpenBrace(s, i) = [depth |-> s.depth + 1, start |-> IF s.depth = 0 THEN i ELSE s.start,
                            end |-> s.end, inString |-> s.inString, escapeNext |-> s.escapeNext]
<1> DEFINE t == [s EXCEPT !.depth = s.depth + 1]
           start == IF s.depth = 0 THEN i ELSE s.start
<1>1. OpenBrace(s, i) = [t EXCEPT !.start = start]
  BY Zenon DEF OpenBrace, ScanState
<1>2. t = [depth |-> s.depth + 1, start |-> s.start, end |-> s.end,
           inString |-> s.inString, escapeNext |-> s.escapeNext]
  BY DEF ScanState
<1> HIDE DEF t, start
<1>3. [t EXCEPT !.start = start] =
        [depth |-> s.depth + 1, start |-> start, end |-> s.end,
         inString |-> s.inString, escapeNext |-> s.escapeNext]
  BY <1>2
<1> QED BY <1>1, <1>3 DEF start

LEMMA CloseBraceFields ==
  ASSUME NEW s \in ScanState, NEW i \in Nat
  PROVE  CloseBrace(s, i) = [depth |-> s.depth - 1, start |-> s.start,
                             end |-> IF s.depth = 1 /\ s.start > 0 THEN i ELSE 0,
                             inString |-> s.inString, escapeNext |-> s.escapeNext]
<1> DEFINE t == [s EXCEPT !.depth = s.depth - 1]
           end == IF s.depth = 1 /\ s.start > 0 THEN i ELSE 0
<1>1. CloseBrace(s, i) = [t EXCEPT !.end = end]
  BY Zenon DEF CloseBrace, ScanState
<1>2. t = [depth |-> s.depth - 1, start |-> s.start, end |-> s.end,
           inString |-> s.inString, escapeNext |-> s.escapeNext]
  BY DEF ScanState
<1> HIDE DEF t, end
<1>3. [t EXCEPT !.end = end] =
        [depth |-> s.depth - 1, start |-> s.start, end |-> end,
         inString |-> s.inString, escapeNext |-> s.escapeNext]
  BY <1>2
<1> QED BY <1>1, <1>3 DEF end

(* The step of the scanner, case by case. *)
LEMMA ScanPieceCases ==
  ASSUME NEW s \in ScanState, NEW i \in Nat
  PROVE  /\ s.end > 0 => ScanPiece(s, i) = s
         /\ s.end = 0 /\ s.escapeNext => ScanPiece(s, i) = [s EXCEPT !.escapeNext = FALSE]
         /\ s.end = 0 /\ ~s.escapeNext =>
              /\ Escapes(s, i) => ScanPiece(s, i) = [s EXCEPT !.escapeNext = TRUE]
              /\ text[i] = "quote" => ScanPiece(s, i) = [s EXCEPT !.inString = ~s.inString]
              /\ text[i] = "open" /\ ~s.inString => ScanPiece(s, i) = OpenBrace(s, i)
              /\ text[i] = "close" /\ ~s.inString => ScanPiece(s, i) = CloseBrace(s, i)
              /\ ~Escapes(s, i) /\ text[i] # "quote"
                   /\ (s.inString \/ text[i] \notin {"open", "close"})
                   => ScanPiece(s, i) = s
<1>1. /\ s.end \in Nat
      /\ s.escapeNext \in BOOLEAN
      /\ s.inString \in BOOLEAN
  BY DEF ScanState
<1>2. s.end > 0 => ScanPiece(s, i) = s
  BY <1>1 DEF ScanPiece
<1>3. s.end = 0 /\ s.escapeNext => ScanPiece(s, i) = [s EXCEPT !.escapeNext = FALSE]
  BY <1>1 DEF ScanPiece
<1>4. ASSUME s.end = 0, ~s.escapeNext
      PROVE  /\ Escapes(s, i) => ScanPiece(s, i) = [s EXCEPT !.escapeNext = TRUE]
             /\ text[i] = "quote" => ScanPiece(s, i) = [s EXCEPT !.inString = ~s.inString]
             /\ text[i] = "open" /\ ~s.inString => ScanPiece(s, i) = OpenBrace(s, i)
             /\ text[i] = "close" /\ ~s.inString => ScanPiece(s, i) = CloseBrace(s, i)
             /\ ~Escapes(s, i) /\ text[i] # "quote"
                  /\ (s.inString \/ text[i] \notin {"open", "close"})
                  => ScanPiece(s, i) = s
  <2>1. ScanPiece(s, i) = MatchPiece(s, i)
    BY <1>1, <1>4 DEF ScanPiece
  <2>2. CASE Escapes(s, i)
    BY <1>1, <2>1, <2>2 DEF MatchPiece, Escapes
  <2>3. CASE ~Escapes(s, i) /\ text[i] = "quote"
    BY <2>1, <2>3 DEF MatchPiece, Escapes
  <2>4. CASE ~Escapes(s, i) /\ text[i] = "open" /\ ~s.inString
    BY <2>1, <2>4 DEF MatchPiece, Escapes
  <2>5. CASE ~Escapes(s, i) /\ text[i] = "close" /\ ~s.inString
    BY <2>1, <2>5 DEF MatchPiece, Escapes
  <2>6. CASE ~Escapes(s, i) /\ text[i] # "quote"
               /\ (s.inString \/ text[i] \notin {"open", "close"})
    BY <1>1, <2>1, <2>6 DEF MatchPiece, Escapes
  <2> QED BY <1>1, <2>2, <2>3, <2>4, <2>5, <2>6
<1> QED BY <1>2, <1>3, <1>4

LEMMA ScanPieceType ==
  ASSUME NEW s \in ScanState, NEW i \in Nat
  PROVE  ScanPiece(s, i) \in ScanState
<1>1. OpenBrace(s, i) \in ScanState /\ CloseBrace(s, i) \in ScanState
  <2>1. /\ s.depth + 1 \in Int /\ s.depth - 1 \in Int
        /\ (IF s.depth = 0 THEN i ELSE s.start) \in Nat
        /\ (IF s.depth = 1 /\ s.start > 0 THEN i ELSE 0) \in Nat
        /\ s.start \in Nat /\ s.end \in Nat /\ s.inString \in BOOLEAN /\ s.escapeNext \in BOOLEAN
    BY DEF ScanState
  <2>2. OpenBrace(s, i) \in ScanState
    <3>1. OpenBrace(s, i) = [depth |-> s.depth + 1, start |-> IF s.depth = 0 THEN i ELSE s.start,
                             end |-> s.end, inString |-> s.inString, escapeNext |-> s.escapeNext]
      BY OpenBraceFields
    <3> QED BY <2>1, <3>1 DEF ScanState
  <2>3. CloseBrace(s, i) \in ScanState
    <3>1. CloseBrace(s, i) = [depth |-> s.depth - 1, start |-> s.start,
                              end |-> IF s.depth = 1 /\ s.start > 0 THEN i ELSE 0,
                              inString |-> s.inString, escapeNext |-> s.escapeNext]
      BY CloseBraceFields
    <3> QED BY <2>1, <3>1 DEF ScanState
  <2> QED BY <2>2, <2>3
<1>2. /\ [s EXCEPT !.escapeNext = FALSE] \in ScanState
      /\ [s EXCEPT !.escapeNext = TRUE] \in ScanState
      /\ [s EXCEPT !.inString = ~s.inString] \in ScanState
  BY DEF ScanState
<1>3. (s.end > 0 \/ s.end = 0) /\ s.escapeNext \in BOOLEAN /\ s.inString \in BOOLEAN
  BY DEF ScanState
<1> QED BY <1>1, <1>2, <1>3, ScanPieceCases DEF Escapes

(* The loop of extract_first_object, one piece after another. *)
LEMMA ScanLoop ==
  /\ Scan \in [Nat -> ScanState]
  /\ Scan[0] = ScanBegins
  /\ \A i \in Nat : Scan[i + 1] = ScanPiece(Scan[i], i + 1)
<1> DEFINE D == [n \in Nat |-> [g \in [Nat -> ScanState] |->
                   IF n = 0 THEN ScanBegins ELSE ScanPiece(g[n - 1], n)]]
<1>1. ScanBegins \in ScanState
  BY DEF ScanBegins, ScanState
<1>2. \A n \in Nat : \A g \in [Nat -> ScanState] : D[n][g] \in ScanState
  BY <1>1, ScanPieceType
<1>3. \A n \in Nat : \A g, h \in [Nat -> ScanState] :
        (\A k \in 0..(n - 1) : g[k] = h[k]) => D[n][g] = D[n][h]
  <2> SUFFICES ASSUME NEW n \in Nat, NEW g \in [Nat -> ScanState], NEW h \in [Nat -> ScanState],
                      \A k \in 0..(n - 1) : g[k] = h[k], n # 0
               PROVE  D[n][g] = D[n][h]
    OBVIOUS
  <2>1. g[n - 1] = h[n - 1]
    OBVIOUS
  <2> QED BY <2>1
<1>4. \E f \in [Nat -> ScanState] : \A n \in Nat : f[n] = D[n][f]
  <2>1. LooksBack(ScanState, D)
    <3> HIDE DEF D
    <3> QED BY <1>1, <1>2, <1>3 DEF LooksBack
  <2> HIDE DEF D
  <2> QED BY <2>1, RecursionOnNaturals
<1>5. PICK f \in [Nat -> ScanState] : \A n \in Nat : f[n] = D[n][f]
  BY <1>4
<1>6. f = [n \in Nat |-> IF n = 0 THEN ScanBegins ELSE ScanPiece(f[n - 1], n)]
  BY <1>5
<1>7. Scan = [n \in Nat |-> IF n = 0 THEN ScanBegins ELSE ScanPiece(Scan[n - 1], n)]
  BY <1>6, Zenon DEF Scan
<1>8. \A n \in Nat : n \in {m \in Nat : Scan[m] \in ScanState}
  <2> DEFINE S == {m \in Nat : Scan[m] \in ScanState}
  <2>1. ASSUME NEW n \in Nat, \A k \in 0..(n - 1) : k \in S PROVE n \in S
    <3>1. CASE n = 0
      BY <1>1, <1>7, <3>1
    <3>2. CASE n # 0
      <4>1. Scan[n - 1] \in ScanState
        BY <2>1, <3>2
      <4> QED BY <1>7, <3>2, <4>1, ScanPieceType
    <3> QED BY <3>1, <3>2
  <2> HIDE DEF S
  <2>2. \A n \in Nat : n \in S
    BY <2>1, StrongInduction
  <2> QED BY <2>2 DEF S
<1> QED BY <1>7, <1>8

-------------------------------------------------------------------------------
Texts == Seq(AllPieces)

LEMMA OnePiece ==
  ASSUME NEW S, NEW p \in S
  PROVE  <<p>> \in Seq(S)
OBVIOUS

LEMMA ThreeParts ==
  ASSUME NEW S, NEW a \in Seq(S), NEW b \in Seq(S), NEW c \in Seq(S)
  PROVE  a \o b \o c \in Seq(S) /\ Len(a \o b \o c) = Len(a) + Len(b) + Len(c)
OBVIOUS

LEMMA InStringForms ==
  ASSUME NEW u \in InString
  PROVE  /\ u \in Texts
         /\ \/ \E p \in AllPieces \ {"quote", "backslash"} : u = <<p>>
            \/ \E p \in AllPieces : u = <<"backslash", p>>
<1>1. CASE \E p \in {"open", "close", "plain", "prose", "fence"} : u = <<p>>
  <2>1. PICK p \in {"open", "close", "plain", "prose", "fence"} : u = <<p>>
    BY <1>1
  <2>2. p \in AllPieces /\ p \notin {"quote", "backslash"}
    BY DEF AllPieces, Fences
  <2>3. <<p>> \in Seq(AllPieces)
    BY <2>2, OnePiece
  <2> QED BY <2>1, <2>2, <2>3 DEF Texts
<1>2. CASE \E p \in {"quote", "backslash", "plain"} : u = <<"backslash", p>>
  <2>1. PICK p \in {"quote", "backslash", "plain"} : u = <<"backslash", p>>
    BY <1>2
  <2>2. p \in AllPieces /\ "backslash" \in AllPieces
    BY DEF AllPieces
  <2>3. <<"backslash", p>> \in Seq(AllPieces)
    BY <2>2
  <2> QED BY <2>1, <2>2, <2>3 DEF Texts
<1> QED BY <1>1, <1>2 DEF InString

LEMMA InStringLength ==
  ASSUME NEW u \in InString
  PROVE  u \in Texts /\ Len(u) \in Nat /\ Len(u) > 0
<1>1. CASE \E p \in AllPieces \ {"quote", "backslash"} : u = <<p>>
  BY <1>1, InStringForms
<1>2. CASE \E p \in AllPieces : u = <<"backslash", p>>
  BY <1>2, InStringForms
<1> QED BY <1>1, <1>2, InStringForms

(* What the definition of Bodies puts into a set. *)
BodySplits(g, n, x) ==
  \E u \in InString : Len(u) <= n /\ \E b \in g[n - Len(u)] : x = u \o b

LEMMA BodiesFromElements ==
  ASSUME NEW g, NEW n, n # 0, NEW x
  PROVE  x \in BodiesFrom(g, n) <=> BodySplits(g, n, x)
<1> DEFINE W == {v \in InString : Len(v) <= n}
           F(u) == {u \o b : b \in g[n - Len(u)]}
<1>1. BodiesFrom(g, n) = UNION {F(u) : u \in W}
  BY Zenon DEF BodiesFrom
<1>2. \A u, y : y \in F(u) <=> \E b \in g[n - Len(u)] : y = u \o b
  BY Zenon
<1>3. \A u : u \in W <=> u \in InString /\ Len(u) <= n
  BY Zenon
<1> HIDE DEF W, F
<1>4. \A y : y \in BodiesFrom(g, n) <=> \E u \in W : y \in F(u)
  BY <1>1, Zenon
<1>5. ASSUME x \in BodiesFrom(g, n) PROVE BodySplits(g, n, x)
  <2>1. PICK u \in W : x \in F(u)
    BY <1>4, <1>5
  <2> QED BY <1>2, <1>3, <2>1 DEF BodySplits
<1>6. ASSUME BodySplits(g, n, x) PROVE x \in BodiesFrom(g, n)
  <2>1. PICK u \in InString : Len(u) <= n /\ \E b \in g[n - Len(u)] : x = u \o b
    BY <1>6 DEF BodySplits
  <2> QED BY <1>2, <1>3, <1>4, <2>1
<1> QED BY <1>5, <1>6

LEMMA BodiesFromType ==
  ASSUME NEW g, NEW n \in Nat, \A k \in 0..(n - 1) : g[k] \subseteq Texts
  PROVE  BodiesFrom(g, n) \subseteq Texts
<1>1. CASE n = 0
  BY <1>1 DEF BodiesFrom, Texts
<1>2. CASE n # 0
  <2> SUFFICES ASSUME NEW x \in BodiesFrom(g, n) PROVE x \in Texts
    OBVIOUS
  <2>0. BodySplits(g, n, x)
    BY <1>2, BodiesFromElements
  <2>1. PICK u \in InString : Len(u) <= n /\ \E b \in g[n - Len(u)] : x = u \o b
    BY <2>0 DEF BodySplits
  <2>2. PICK b \in g[n - Len(u)] : x = u \o b
    BY <2>1
  <2>3. u \in Texts /\ Len(u) \in Nat /\ Len(u) > 0
    BY InStringLength
  <2>4. b \in Texts
    <3>1. n - Len(u) \in 0..(n - 1)
      BY <2>1, <2>3
    <3> QED BY <3>1
  <2> QED BY <2>2, <2>3, <2>4 DEF Texts
<1> QED BY <1>1, <1>2

LEMMA BodiesFromEarlier ==
  ASSUME NEW g, NEW h, NEW n \in Nat, \A k \in 0..(n - 1) : g[k] = h[k]
  PROVE  BodiesFrom(g, n) \subseteq BodiesFrom(h, n)
<1>1. CASE n = 0
  BY <1>1 DEF BodiesFrom
<1>2. CASE n # 0
  <2> SUFFICES ASSUME NEW x \in BodiesFrom(g, n) PROVE x \in BodiesFrom(h, n)
    OBVIOUS
  <2>0. BodySplits(g, n, x)
    BY <1>2, BodiesFromElements
  <2>1. PICK u \in InString : Len(u) <= n /\ \E b \in g[n - Len(u)] : x = u \o b
    BY <2>0 DEF BodySplits
  <2>2. Len(u) \in Nat /\ Len(u) > 0
    BY InStringLength
  <2>3. g[n - Len(u)] = h[n - Len(u)]
    <3>1. n - Len(u) \in 0..(n - 1)
      BY <2>1, <2>2
    <3> QED BY <3>1
  <2>4. BodySplits(h, n, x)
    BY <2>1, <2>3 DEF BodySplits
  <2> QED BY <1>2, <2>4, BodiesFromElements
<1> QED BY <1>1, <1>2

(* The definition of Bodies defines: what Bodies[n] has is made of a piece *)
(* of a string and a shorter rest.                                         *)
LEMMA BodiesGrammar == Bodies = [n \in Nat |-> BodiesFrom(Bodies, n)]
<1> DEFINE V == SUBSET Texts
           D == [n \in Nat |-> [g \in [Nat -> V] |-> BodiesFrom(g, n)]]
<1>1. ASSUME NEW n \in Nat, NEW g \in [Nat -> V] PROVE BodiesFrom(g, n) \in V
  BY BodiesFromType
<1>2. ASSUME NEW n \in Nat, NEW g \in [Nat -> V], NEW h \in [Nat -> V],
             \A k \in 0..(n - 1) : g[k] = h[k]
      PROVE  BodiesFrom(g, n) = BodiesFrom(h, n)
  <2>1. BodiesFrom(g, n) \subseteq BodiesFrom(h, n)
    BY <1>2, BodiesFromEarlier
  <2>2. BodiesFrom(h, n) \subseteq BodiesFrom(g, n)
    BY <1>2, BodiesFromEarlier
  <2> QED BY <2>1, <2>2
<1>3. LooksBack(V, D)
  BY <1>1, <1>2 DEF LooksBack
<1>4. PICK f \in [Nat -> V] : \A n \in Nat : f[n] = D[n][f]
  <2> HIDE DEF D, V
  <2> QED BY <1>3, RecursionOnNaturals
<1>5. f = [n \in Nat |-> BodiesFrom(f, n)]
  BY <1>4
<1> QED BY <1>5, Zenon DEF Bodies

LEMMA BodiesType == \A n \in Nat : Bodies[n] \subseteq Texts
<1> DEFINE S == {n \in Nat : Bodies[n] \subseteq Texts}
<1>1. ASSUME NEW n \in Nat, \A k \in 0..(n - 1) : k \in S PROVE n \in S
  <2>1. BodiesFrom(Bodies, n) \subseteq Texts
    BY <1>1, BodiesFromType
  <2> QED BY <2>1, BodiesGrammar
<1> HIDE DEF S
<1>2. \A n \in Nat : n \in S
  BY <1>1, StrongInduction
<1> QED BY <1>2 DEF S

LEMMA StringsType ==
  ASSUME NEW n \in Nat, NEW x \in Strings(n)
  PROVE  x \in Texts /\ \E b \in Texts : b \in Bodies[n - 2] /\ x = <<"quote">> \o b \o <<"quote">>
<1>1. n >= 2
  BY DEF Strings
<1>2. PICK b \in Bodies[n - 2] : x = <<"quote">> \o b \o <<"quote">>
  BY <1>1 DEF Strings
<1>3. b \in Texts
  BY <1>1, BodiesType
<1>4. <<"quote">> \in Texts
  BY OnePiece DEF Texts, AllPieces
<1> QED BY <1>2, <1>3, <1>4 DEF Texts

-------------------------------------------------------------------------------
(* What the definition of Members puts into a set. *)
OneMember(g, k, v) ==
  \/ k = 1 /\ v = <<"plain">>
  \/ k > 1 /\ v \in Strings(k)
  \/ k > 1 /\ \E inner \in g[k - 2] : v = <<"open">> \o inner \o <<"close">>

MemberSplits(g, n, x) ==
  \E k \in 1..n : \E v : OneMember(g, k, v) /\ \E rest \in g[n - k] : x = v \o rest

LEMMA MembersFromElements ==
  ASSUME NEW g, NEW n \in Nat, n # 0, NEW x
  PROVE  x \in MembersFrom(g, n) <=> MemberSplits(g, n, x)
<1> DEFINE A(k) == IF k = 1 THEN {<<"plain">>}
                   ELSE Strings(k) \cup {<<"open">> \o inner \o <<"close">> : inner \in g[k - 2]}
           F(k) == {v \o rest : v \in A(k), rest \in g[n - k]}
<1>1. MembersFrom(g, n) = UNION {F(k) : k \in 1..n}
  BY DEF MembersFrom
<1>2. ASSUME NEW k \in 1..n, NEW v PROVE v \in A(k) <=> OneMember(g, k, v)
  <2>1. CASE k = 1
    BY <2>1 DEF OneMember
  <2>2. CASE k > 1
    <3>0. k # 1
      BY <2>2
    <3>1. A(k) = Strings(k) \cup {<<"open">> \o inner \o <<"close">> : inner \in g[k - 2]}
      BY <3>0, Zenon
    <3>2. v \in A(k) <=>
            v \in Strings(k) \/ \E inner \in g[k - 2] : v = <<"open">> \o inner \o <<"close">>
      BY <3>1, Zenon
    <3> QED BY <2>2, <3>2 DEF OneMember
  <2>3. k = 1 \/ k > 1
    OBVIOUS
  <2> QED BY <2>1, <2>2, <2>3, Zenon
<1> HIDE DEF A
<1>3. \A k : \A y : y \in F(k) <=> \E v \in A(k) : \E rest \in g[n - k] : y = v \o rest
  OBVIOUS
<1> HIDE DEF F
<1>4. \A y : y \in MembersFrom(g, n) <=> \E k \in 1..n : y \in F(k)
  BY <1>1, Zenon
<1>5. ASSUME x \in MembersFrom(g, n) PROVE MemberSplits(g, n, x)
  <2>1. PICK k \in 1..n : x \in F(k)
    BY <1>4, <1>5
  <2>2. PICK v \in A(k) : \E rest \in g[n - k] : x = v \o rest
    BY <1>3, <2>1
  <2> QED BY <1>2, <2>2 DEF MemberSplits
<1>6. ASSUME MemberSplits(g, n, x) PROVE x \in MembersFrom(g, n)
  <2>1. PICK k \in 1..n : \E v : OneMember(g, k, v) /\ \E rest \in g[n - k] : x = v \o rest
    BY <1>6 DEF MemberSplits
  <2>2. PICK v : OneMember(g, k, v) /\ \E rest \in g[n - k] : x = v \o rest
    BY <2>1
  <2> QED BY <1>2, <1>3, <1>4, <2>2
<1> QED BY <1>5, <1>6

LEMMA OneMemberType ==
  ASSUME NEW g, NEW n \in Nat, \A k \in 0..(n - 1) : g[k] \subseteq Texts,
         NEW k \in 1..n, NEW v, OneMember(g, k, v)
  PROVE  v \in Texts
<1>1. CASE k = 1 /\ v = <<"plain">>
  <2>1. <<"plain">> \in Seq(AllPieces)
    BY OnePiece DEF AllPieces
  <2> QED BY <1>1, <2>1 DEF Texts
<1>2. CASE k > 1 /\ v \in Strings(k)
  BY <1>2, StringsType
<1>3. CASE k > 1 /\ \E inner \in g[k - 2] : v = <<"open">> \o inner \o <<"close">>
  <2>1. PICK inner \in g[k - 2] : v = <<"open">> \o inner \o <<"close">>
    BY <1>3
  <2>2. k - 2 \in 0..(n - 1)
    <3>1. k > 1
      BY <1>3
    <3> QED BY <3>1
  <2>3. inner \in Texts
    BY <2>2
  <2>4. <<"open">> \in Texts /\ <<"close">> \in Texts
    BY OnePiece DEF Texts, AllPieces
  <2> QED BY <2>1, <2>3, <2>4, ThreeParts DEF Texts
<1> QED BY <1>1, <1>2, <1>3 DEF OneMember

LEMMA MembersFromType ==
  ASSUME NEW g, NEW n \in Nat, \A k \in 0..(n - 1) : g[k] \subseteq Texts
  PROVE  MembersFrom(g, n) \subseteq Texts
<1>1. CASE n = 0
  BY <1>1 DEF MembersFrom, Texts
<1>2. CASE n # 0
  <2> SUFFICES ASSUME NEW x \in MembersFrom(g, n) PROVE x \in Texts
    OBVIOUS
  <2>1. MemberSplits(g, n, x)
    BY <1>2, MembersFromElements
  <2>2. PICK k \in 1..n : \E v : OneMember(g, k, v) /\ \E rest \in g[n - k] : x = v \o rest
    BY <2>1 DEF MemberSplits
  <2>3. PICK v : OneMember(g, k, v) /\ \E rest \in g[n - k] : x = v \o rest
    BY <2>2
  <2>4. PICK rest \in g[n - k] : x = v \o rest
    BY <2>3
  <2>5. v \in Texts
    BY <2>3, OneMemberType
  <2>6. rest \in Texts
    <3>1. n - k \in 0..(n - 1)
      OBVIOUS
    <3> QED BY <3>1
  <2> QED BY <2>4, <2>5, <2>6 DEF Texts
<1> QED BY <1>1, <1>2

LEMMA MembersFromEarlier ==
  ASSUME NEW g, NEW h, NEW n \in Nat, \A k \in 0..(n - 1) : g[k] = h[k]
  PROVE  MembersFrom(g, n) \subseteq MembersFrom(h, n)
<1>1. CASE n = 0
  BY <1>1 DEF MembersFrom
<1>2. CASE n # 0
  <2> SUFFICES ASSUME NEW x \in MembersFrom(g, n) PROVE x \in MembersFrom(h, n)
    OBVIOUS
  <2>1. MemberSplits(g, n, x)
    BY <1>2, MembersFromElements
  <2>2. PICK k \in 1..n : \E v : OneMember(g, k, v) /\ \E rest \in g[n - k] : x = v \o rest
    BY <2>1 DEF MemberSplits
  <2>3. PICK v : OneMember(g, k, v) /\ \E rest \in g[n - k] : x = v \o rest
    BY <2>2
  <2>4. g[n - k] = h[n - k]
    <3>1. n - k \in 0..(n - 1)
      OBVIOUS
    <3> QED BY <3>1
  <2>5. k > 1 => g[k - 2] = h[k - 2]
    <3>1. k > 1 => k - 2 \in 0..(n - 1)
      OBVIOUS
    <3> QED BY <3>1
  <2>6. OneMember(h, k, v)
    BY <2>3, <2>5 DEF OneMember
  <2>7. MemberSplits(h, n, x)
    BY <2>3, <2>4, <2>6 DEF MemberSplits
  <2> QED BY <1>2, <2>7, MembersFromElements
<1> QED BY <1>1, <1>2

(* What Members[n] has is made of a value and shorter rest. *)
LEMMA MembersGrammar == Members = [n \in Nat |-> MembersFrom(Members, n)]
<1> DEFINE V == SUBSET Texts
           D == [n \in Nat |-> [g \in [Nat -> V] |-> MembersFrom(g, n)]]
<1>1. ASSUME NEW n \in Nat, NEW g \in [Nat -> V] PROVE MembersFrom(g, n) \in V
  BY MembersFromType
<1>2. ASSUME NEW n \in Nat, NEW g \in [Nat -> V], NEW h \in [Nat -> V],
             \A k \in 0..(n - 1) : g[k] = h[k]
      PROVE  MembersFrom(g, n) = MembersFrom(h, n)
  <2>1. MembersFrom(g, n) \subseteq MembersFrom(h, n)
    BY <1>2, MembersFromEarlier
  <2>2. MembersFrom(h, n) \subseteq MembersFrom(g, n)
    BY <1>2, MembersFromEarlier
  <2> QED BY <2>1, <2>2
<1>3. LooksBack(V, D)
  BY <1>1, <1>2 DEF LooksBack
<1>4. PICK f \in [Nat -> V] : \A n \in Nat : f[n] = D[n][f]
  <2> HIDE DEF D, V
  <2> QED BY <1>3, RecursionOnNaturals
<1>5. f = [n \in Nat |-> MembersFrom(f, n)]
  BY <1>4
<1> QED BY <1>5, Zenon DEF Members

LEMMA MembersType == \A n \in Nat : Members[n] \subseteq Texts
<1> DEFINE S == {n \in Nat : Members[n] \subseteq Texts}
<1>1. ASSUME NEW n \in Nat, \A k \in 0..(n - 1) : k \in S PROVE n \in S
  <2>1. MembersFrom(Members, n) \subseteq Texts
    BY <1>1, MembersFromType
  <2> QED BY <2>1, MembersGrammar
<1> HIDE DEF S
<1>2. \A n \in Nat : n \in S
  BY <1>1, StrongInduction
<1> QED BY <1>2 DEF S

-------------------------------------------------------------------------------
(* The text has s after its first i pieces. *)
At(i, s) == \A m \in 1..Len(s) : text[i + m] = s[m]

LEMMA AtBoth ==
  ASSUME NEW i \in Nat, NEW a \in Texts, NEW b \in Texts, At(i, a \o b)
  PROVE  At(i, a) /\ At(i + Len(a), b) /\ Len(a \o b) = Len(a) + Len(b)
<1> USE DEF Texts
<1>1. Len(a \o b) = Len(a) + Len(b) /\ Len(a) \in Nat /\ Len(b) \in Nat
  OBVIOUS
<1>2. ASSUME NEW m \in 1..Len(a) PROVE text[i + m] = a[m]
  <2>1. m \in 1..Len(a \o b) /\ (a \o b)[m] = a[m]
    BY <1>1
  <2> QED BY <2>1 DEF At
<1>3. ASSUME NEW m \in 1..Len(b) PROVE text[(i + Len(a)) + m] = b[m]
  <2>1. Len(a) + m \in 1..Len(a \o b) /\ (a \o b)[Len(a) + m] = b[m]
    BY <1>1
  <2>2. text[i + (Len(a) + m)] = b[m]
    BY <2>1 DEF At
  <2>3. i + (Len(a) + m) = (i + Len(a)) + m
    BY <1>1
  <2> QED BY <2>2, <2>3
<1> QED BY <1>1, <1>2, <1>3 DEF At

LEMMA AtBetween ==
  ASSUME NEW i \in Nat, NEW p \in AllPieces, NEW b \in Texts, NEW q \in AllPieces,
         At(i, <<p>> \o b \o <<q>>)
  PROVE  /\ text[i + 1] = p
         /\ At(i + 1, b)
         /\ text[i + 1 + Len(b) + 1] = q
         /\ Len(<<p>> \o b \o <<q>>) = Len(b) + 2
<1>1. <<p>> \in Texts /\ <<q>> \in Texts /\ <<p>> \o b \in Texts /\ Len(b) \in Nat
  BY OnePiece DEF Texts
<1>2. At(i, <<p>> \o b) /\ At(i + Len(<<p>> \o b), <<q>>)
  BY <1>1, AtBoth
<1>3. At(i, <<p>>) /\ At(i + 1, b) /\ Len(<<p>> \o b) = Len(b) + 1
  <2> DEFINE a == <<p>>
  <2>1. a \in Texts /\ Len(a) = 1 /\ At(i, a \o b)
    BY <1>1, <1>2
  <2> HIDE DEF a
  <2>2. At(i, a) /\ At(i + Len(a), b) /\ Len(a \o b) = Len(a) + Len(b)
    BY <2>1, AtBoth
  <2>3. At(i, a) /\ At(i + 1, b) /\ Len(a \o b) = Len(b) + 1
    BY <1>1, <2>1, <2>2
  <2> QED BY <2>3 DEF a
<1>4. text[i + 1] = p
  BY <1>3 DEF At
<1>5. text[i + (Len(b) + 1) + 1] = q
  BY <1>2, <1>3 DEF At
<1>6. i + (Len(b) + 1) + 1 = i + 1 + Len(b) + 1
  BY <1>1
<1>7. Len(<<p>> \o b \o <<q>>) = Len(b) + 2
  BY <1>1, <1>3, AtBoth
<1> QED BY <1>3, <1>4, <1>5, <1>6, <1>7

-------------------------------------------------------------------------------
(* The scanner has found no end yet and takes the next piece for itself. *)
Live(i) == Scan[i].end = 0 /\ ~Scan[i].escapeNext

LEMMA ScanNext ==
  ASSUME NEW i \in Nat
  PROVE  Scan[i] \in ScanState /\ Scan[i + 1] = ScanPiece(Scan[i], i + 1) /\ i + 1 \in Nat
BY ScanLoop

(* The steps of the scanner by the piece it meets. *)
LEMMA StepOver ==
  ASSUME NEW i \in Nat, Live(i), text[i + 1] # "quote",
         ~(text[i + 1] = "backslash" /\ Scan[i].inString),
         Scan[i].inString \/ text[i + 1] \notin {"open", "close"}
  PROVE  Scan[i + 1] = Scan[i]
<1>1. Scan[i] \in ScanState /\ Scan[i + 1] = ScanPiece(Scan[i], i + 1) /\ i + 1 \in Nat
  BY ScanNext, Zenon
<1>2. ~Escapes(Scan[i], i + 1)
  BY DEF Escapes
<1>3. Scan[i].end = 0 /\ ~Scan[i].escapeNext
  BY DEF Live
<1> QED BY <1>1, <1>2, <1>3, ScanPieceCases

LEMMA StepQuote ==
  ASSUME NEW i \in Nat, Live(i), text[i + 1] = "quote"
  PROVE  /\ ~Scan[i].inString => Scan[i + 1] = [Scan[i] EXCEPT !.inString = TRUE]
         /\ Scan[i].inString => Scan[i + 1] = [Scan[i] EXCEPT !.inString = FALSE]
<1>1. Scan[i] \in ScanState /\ Scan[i + 1] = ScanPiece(Scan[i], i + 1) /\ i + 1 \in Nat
  BY ScanNext, Zenon
<1>2. Scan[i].end = 0 /\ ~Scan[i].escapeNext
  BY DEF Live
<1>3. Scan[i + 1] = [Scan[i] EXCEPT !.inString = ~Scan[i].inString]
  BY <1>1, <1>2, ScanPieceCases
<1>4. ~Scan[i].inString => (~Scan[i].inString) = TRUE
  BY Zenon
<1>5. Scan[i].inString => (~Scan[i].inString) = FALSE
  BY Zenon
<1> QED BY <1>3, <1>4, <1>5, Zenon

LEMMA StepOpen ==
  ASSUME NEW i \in Nat, Live(i), text[i + 1] = "open", ~Scan[i].inString
  PROVE  Scan[i + 1] = [depth |-> Scan[i].depth + 1,
                        start |-> IF Scan[i].depth = 0 THEN i + 1 ELSE Scan[i].start,
                        end |-> 0, inString |-> FALSE, escapeNext |-> FALSE]
<1>1. Scan[i] \in ScanState /\ Scan[i + 1] = ScanPiece(Scan[i], i + 1) /\ i + 1 \in Nat
  BY ScanNext, Zenon
<1>2. Scan[i].end = 0 /\ ~Scan[i].escapeNext
  BY DEF Live
<1>3. Scan[i + 1] = OpenBrace(Scan[i], i + 1)
  BY <1>1, <1>2, ScanPieceCases
<1>4. Scan[i].inString = FALSE /\ Scan[i].escapeNext = FALSE
  BY <1>1, <1>2 DEF ScanState
<1> QED BY <1>1, <1>2, <1>3, <1>4, OpenBraceFields

LEMMA StepClose ==
  ASSUME NEW i \in Nat, Live(i), text[i + 1] = "close", ~Scan[i].inString
  PROVE  Scan[i + 1] = [depth |-> Scan[i].depth - 1, start |-> Scan[i].start,
                        end |-> IF Scan[i].depth = 1 /\ Scan[i].start > 0 THEN i + 1 ELSE 0,
                        inString |-> FALSE, escapeNext |-> FALSE]
<1>1. Scan[i] \in ScanState /\ Scan[i + 1] = ScanPiece(Scan[i], i + 1) /\ i + 1 \in Nat
  BY ScanNext, Zenon
<1>2. Scan[i].end = 0 /\ ~Scan[i].escapeNext
  BY DEF Live
<1>3. Scan[i + 1] = CloseBrace(Scan[i], i + 1)
  BY <1>1, <1>2, ScanPieceCases
<1>4. Scan[i].inString = FALSE /\ Scan[i].escapeNext = FALSE
  BY <1>1, <1>2 DEF ScanState
<1> QED BY <1>1, <1>2, <1>3, <1>4, CloseBraceFields

(* A backslash in a string and the piece it escapes. *)
LEMMA StepEscape ==
  ASSUME NEW i \in Nat, Live(i), text[i + 1] = "backslash", Scan[i].inString
  PROVE  Scan[i + 2] = Scan[i]
<1>1. Scan[i] \in ScanState /\ Scan[i + 1] = ScanPiece(Scan[i], i + 1) /\ i + 1 \in Nat
  BY ScanNext, Zenon
<1>2. Scan[i].end = 0 /\ ~Scan[i].escapeNext
  BY DEF Live
<1>3. Escapes(Scan[i], i + 1)
  BY DEF Escapes
<1>4. Scan[i + 1] = [Scan[i] EXCEPT !.escapeNext = TRUE]
  BY <1>1, <1>2, <1>3, ScanPieceCases
<1>5. Scan[i + 1].end = 0 /\ Scan[i + 1].escapeNext /\ Scan[i + 1] \in ScanState
  BY <1>1, <1>2, <1>4 DEF ScanState
<1>6. Scan[i + 2] = ScanPiece(Scan[i + 1], i + 2) /\ i + 2 \in Nat
  <2>1. (i + 1) + 1 = i + 2 /\ i + 2 \in Nat
    OBVIOUS
  <2>2. Scan[(i + 1) + 1] = ScanPiece(Scan[i + 1], (i + 1) + 1)
    BY <1>1, ScanLoop
  <2> QED BY <2>1, <2>2
<1>7. Scan[i + 2] = [Scan[i + 1] EXCEPT !.escapeNext = FALSE]
  BY <1>5, <1>6, ScanPieceCases
<1>8. Scan[i].escapeNext = FALSE
  BY <1>1, <1>2 DEF ScanState
<1> QED BY <1>1, <1>4, <1>7, <1>8 DEF ScanState

(* A piece of a string leaves the scanner in the string. *)
LEMMA ScanInString ==
  ASSUME NEW u \in InString, NEW i \in Nat, At(i, u), Live(i), Scan[i].inString
  PROVE  Scan[i + Len(u)] = Scan[i]
<1>1. CASE \E p \in AllPieces \ {"quote", "backslash"} : u = <<p>>
  <2>1. PICK p \in AllPieces \ {"quote", "backslash"} : u = <<p>>
    BY <1>1
  <2>2. text[i + 1] = p /\ Len(u) = 1
    BY <2>1 DEF At
  <2>3. Scan[i + 1] = Scan[i]
    BY <2>2, StepOver
  <2> QED BY <2>2, <2>3
<1>2. CASE \E p \in AllPieces : u = <<"backslash", p>>
  <2>1. PICK p \in AllPieces : u = <<"backslash", p>>
    BY <1>2
  <2>2. text[i + 1] = "backslash" /\ Len(u) = 2
    BY <2>1 DEF At
  <2>3. Scan[i + 2] = Scan[i]
    BY <2>2, StepEscape
  <2> QED BY <2>2, <2>3
<1> QED BY <1>1, <1>2, InStringForms

(* So does the whole inside of a string. *)
LEMMA ScanBody ==
  \A n \in Nat : \A b \in Bodies[n], i \in Nat :
    (At(i, b) /\ Live(i) /\ Scan[i].inString)
      => Scan[i + Len(b)] = Scan[i]
<1> DEFINE S == {n \in Nat : \A b \in Bodies[n], i \in Nat :
                   (At(i, b) /\ Live(i) /\ Scan[i].inString)
                     => Scan[i + Len(b)] = Scan[i]}
<1>1. ASSUME NEW n \in Nat, \A k \in 0..(n - 1) : k \in S PROVE n \in S
  <2> SUFFICES ASSUME NEW b \in Bodies[n], NEW i \in Nat, At(i, b),
                      Live(i), Scan[i].inString
               PROVE  Scan[i + Len(b)] = Scan[i]
    OBVIOUS
  <2>1. CASE n = 0
    <3>1. b = <<>>
      BY <2>1, BodiesGrammar DEF BodiesFrom
    <3> QED BY <3>1
  <2>2. CASE n # 0
    <3>1. BodySplits(Bodies, n, b)
      BY <2>2, BodiesGrammar, BodiesFromElements
    <3>2. PICK u \in InString : Len(u) <= n /\ \E rest \in Bodies[n - Len(u)] : b = u \o rest
      BY <3>1 DEF BodySplits
    <3>3. PICK rest \in Bodies[n - Len(u)] : b = u \o rest
      BY <3>2
    <3>4. u \in Texts /\ Len(u) \in Nat /\ n - Len(u) \in 0..(n - 1)
      BY <3>2, InStringLength
    <3>5. rest \in Texts /\ Len(rest) \in Nat
      BY <3>4, BodiesType DEF Texts
    <3>6. At(i, u) /\ At(i + Len(u), rest) /\ Len(b) = Len(u) + Len(rest)
      BY <3>3, <3>4, <3>5, AtBoth
    <3>7. Scan[i + Len(u)] = Scan[i]
      BY <3>6, ScanInString
    <3>8. n - Len(u) \in S
      BY <1>1, <3>4
    <3>live. Live(i + Len(u)) /\ Scan[i + Len(u)].inString /\ i + Len(u) \in Nat
      BY <3>4, <3>7 DEF Live
    <3>9. Scan[(i + Len(u)) + Len(rest)] = Scan[i + Len(u)]
      BY <3>6, <3>8, <3>live
    <3>10. i + Len(b) = (i + Len(u)) + Len(rest)
      BY <3>4, <3>5, <3>6
    <3> QED BY <3>7, <3>9, <3>10
  <2> QED BY <2>1, <2>2
<1> HIDE DEF S
<1>2. \A n \in Nat : n \in S
  BY <1>1, StrongInduction
<1> QED BY <1>2 DEF S

-------------------------------------------------------------------------------
(* Where the scanner is: outside every object, or in one. *)
Outside(i) == Scan[i].depth = 0
Inside(i) == Scan[i].depth >= 1

(* Outside strings and inside an object, x leaves the scanner as it was. *)
Kept(x) ==
  \A i \in Nat : (At(i, x) /\ Live(i) /\ ~Scan[i].inString /\ Inside(i))
                   => Scan[i + Len(x)] = Scan[i]

LEMMA StringKept ==
  ASSUME NEW n \in Nat, NEW x \in Strings(n)
  PROVE  Kept(x)
<1> SUFFICES ASSUME NEW i \in Nat, At(i, x), Live(i), ~Scan[i].inString
             PROVE  Scan[i + Len(x)] = Scan[i]
  BY DEF Kept
<1>1. PICK b \in Texts : b \in Bodies[n - 2] /\ x = <<"quote">> \o b \o <<"quote">>
  BY StringsType
<1>2. n - 2 \in Nat /\ Len(b) \in Nat
  BY DEF Strings, Texts
<1>3. /\ text[i + 1] = "quote"
      /\ At(i + 1, b)
      /\ text[i + 1 + Len(b) + 1] = "quote"
      /\ Len(x) = Len(b) + 2
  <2>1. "quote" \in AllPieces
    BY DEF AllPieces
  <2> QED BY <1>1, <2>1, AtBetween
<1>4. Scan[i] \in ScanState /\ Scan[i].inString = FALSE /\ Scan[i].escapeNext = FALSE
  BY ScanLoop DEF ScanState, Live
<1>5. Scan[i + 1] = [Scan[i] EXCEPT !.inString = TRUE]
  BY <1>3, <1>4, StepQuote
<1>6. Live(i + 1) /\ Scan[i + 1].inString
  BY <1>4, <1>5 DEF Live, ScanState
<1> DEFINE j == i + 1 + Len(b)
<1>7. Scan[j] = Scan[i + 1]
  BY <1>1, <1>2, <1>3, <1>6, ScanBody
<1>8. Live(j) /\ j \in Nat
  BY <1>2, <1>6, <1>7 DEF Live
<1>9. text[j + 1] = "quote" /\ j + 1 = i + Len(x)
  BY <1>2, <1>3
<1> HIDE DEF j
<1>10. Scan[j + 1] = [Scan[j] EXCEPT !.inString = FALSE]
  BY <1>6, <1>7, <1>8, <1>9, StepQuote
<1>11. Scan[j + 1] = Scan[i]
  BY <1>4, <1>5, <1>7, <1>10 DEF ScanState
<1> QED BY <1>9, <1>11

(* An opening brace, members, a closing brace: nothing is left of an object *)
(* in an object.                                                           *)
LEMMA BracesKept ==
  ASSUME NEW inner \in Texts, Kept(inner), NEW i \in Nat,
         text[i + 1] = "open", At(i + 1, inner), text[i + 1 + Len(inner) + 1] = "close",
         Live(i), ~Scan[i].inString, Inside(i)
  PROVE  Scan[i + Len(inner) + 2] = Scan[i]
<1> DEFINE j == i + 1 + Len(inner)
<1>1. Scan[i] \in ScanState
  BY ScanNext, Zenon
<1>2. Scan[i].inString = FALSE /\ Scan[i].escapeNext = FALSE /\ Scan[i].end = 0
  BY <1>1 DEF ScanState, Live
<1>3. Scan[i].depth \in Int /\ Scan[i].depth # 0 /\ Scan[i].depth + 1 # 1
      /\ (Scan[i].depth + 1) - 1 = Scan[i].depth /\ Scan[i].depth + 1 >= 1
  BY <1>1 DEF ScanState, Inside
<1>4. Len(inner) \in Nat
  BY DEF Texts
<1>5. j \in Nat /\ j + 1 = i + Len(inner) + 2 /\ text[j + 1] = "close"
  BY <1>4
<1>6. Scan[i + 1] = [depth |-> Scan[i].depth + 1, start |-> Scan[i].start,
                     end |-> 0, inString |-> FALSE, escapeNext |-> FALSE]
  BY <1>3, StepOpen
<1>7. Live(i + 1) /\ ~Scan[i + 1].inString /\ Inside(i + 1)
  BY <1>3, <1>6 DEF Live, Inside
<1>8. Scan[j] = Scan[i + 1]
  BY <1>7 DEF Kept
<1> HIDE DEF j
<1>9. Live(j) /\ ~Scan[j].inString
  BY <1>7, <1>8 DEF Live
<1>10. Scan[j + 1] = [depth |-> Scan[j].depth - 1, start |-> Scan[j].start,
                      end |-> IF Scan[j].depth = 1 /\ Scan[j].start > 0 THEN j + 1 ELSE 0,
                      inString |-> FALSE, escapeNext |-> FALSE]
  BY <1>5, <1>9, StepClose
<1>11. Scan[j + 1] = [depth |-> Scan[i].depth, start |-> Scan[i].start,
                      end |-> 0, inString |-> FALSE, escapeNext |-> FALSE]
  <2>1. Scan[j].depth = Scan[i].depth + 1 /\ Scan[j].start = Scan[i].start
    BY <1>6, <1>8
  <2>2. Scan[j].depth - 1 = Scan[i].depth /\ Scan[j].depth # 1
    BY <1>3, <2>1
  <2> QED BY <1>10, <2>1, <2>2
<1>12. Scan[j + 1] = Scan[i]
  BY <1>1, <1>2, <1>11 DEF ScanState
<1> QED BY <1>5, <1>12

(* Outside every object the closing brace is the end, and there is none     *)
(* before it.                                                              *)
LEMMA BracesEnd ==
  ASSUME NEW inner \in Texts, Kept(inner), NEW i \in Nat,
         text[i + 1] = "open", At(i + 1, inner), text[i + 1 + Len(inner) + 1] = "close",
         Live(i), ~Scan[i].inString, Outside(i)
  PROVE  /\ Scan[i + Len(inner) + 1].end = 0
         /\ Scan[i + Len(inner) + 2].start = i + 1
         /\ Scan[i + Len(inner) + 2].end = i + Len(inner) + 2
<1> DEFINE j == i + 1 + Len(inner)
<1>1. Scan[i].depth = 0
  BY DEF Outside
<1>2. Len(inner) \in Nat
  BY DEF Texts
<1>3. /\ j \in Nat /\ j + 1 = i + Len(inner) + 2 /\ j = i + Len(inner) + 1
      /\ text[j + 1] = "close"
  BY <1>2
<1>4. Scan[i + 1] = [depth |-> 1, start |-> i + 1,
                     end |-> 0, inString |-> FALSE, escapeNext |-> FALSE]
  BY <1>1, StepOpen
<1>5. Live(i + 1) /\ ~Scan[i + 1].inString /\ Inside(i + 1)
  BY <1>4 DEF Live, Inside
<1>6. Scan[j] = Scan[i + 1]
  BY <1>5 DEF Kept
<1> HIDE DEF j
<1>7. Live(j) /\ ~Scan[j].inString
  BY <1>5, <1>6 DEF Live
<1>8. Scan[j + 1] = [depth |-> Scan[j].depth - 1, start |-> Scan[j].start,
                     end |-> IF Scan[j].depth = 1 /\ Scan[j].start > 0 THEN j + 1 ELSE 0,
                     inString |-> FALSE, escapeNext |-> FALSE]
  BY <1>3, <1>7, StepClose
<1>9. Scan[j].depth = 1 /\ Scan[j].start = i + 1 /\ Scan[j].end = 0
  BY <1>4, <1>6
<1>10. Scan[j + 1].start = i + 1 /\ Scan[j + 1].end = j + 1
  BY <1>8, <1>9
<1> QED BY <1>3, <1>9, <1>10

LEMMA NoMembers ==
  ASSUME NEW g PROVE MembersFrom(g, 0) = {<<>>}
BY DEF MembersFrom

LEMMA MembersKept == \A n \in Nat : \A x \in Members[n] : Kept(x)
<1> DEFINE S == {n \in Nat : \A x \in Members[n] : Kept(x)}
<1>1. ASSUME NEW n \in Nat, \A k \in 0..(n - 1) : k \in S PROVE n \in S
  <2> SUFFICES ASSUME NEW x \in Members[n] PROVE Kept(x)
    OBVIOUS
  <2>1. CASE n = 0
    <3>1. MembersFrom(Members, n) = {<<>>}
      BY <2>1, NoMembers
    <3>empty. x = <<>>
      BY <3>1, MembersGrammar
    <3>2. \A i \in Nat : i + Len(x) = i
      BY <3>empty
    <3> QED BY <3>2 DEF Kept
  <2>2. CASE n # 0
    <3>1. MemberSplits(Members, n, x)
      BY <2>2, MembersGrammar, MembersFromElements
    <3>2. PICK k \in 1..n :
            \E v : OneMember(Members, k, v) /\ \E rest \in Members[n - k] : x = v \o rest
      BY <3>1 DEF MemberSplits
    <3>3. PICK v : OneMember(Members, k, v) /\ \E rest \in Members[n - k] : x = v \o rest
      BY <3>2
    <3>4. PICK rest \in Members[n - k] : x = v \o rest
      BY <3>3
    <3>5. k \in Nat /\ n - k \in 0..(n - 1)
      OBVIOUS
    <3>6. v \in Texts
      BY <3>3, OneMemberType, MembersType
    <3>7. rest \in Texts
      BY <3>5, MembersType
    <3>8. Kept(rest)
      BY <1>1, <3>5
    <3>9. Kept(v)
      <4>1. CASE k = 1 /\ v = <<"plain">>
        <5> SUFFICES ASSUME NEW i \in Nat, At(i, v), Live(i), ~Scan[i].inString
                     PROVE  Scan[i + Len(v)] = Scan[i]
          BY DEF Kept
        <5>1. text[i + 1] = "plain" /\ Len(v) = 1
          BY <4>1 DEF At
        <5> QED BY <5>1, StepOver
      <4>2. CASE k > 1 /\ v \in Strings(k)
        BY <3>5, <4>2, StringKept
      <4>3. CASE k > 1 /\ \E inner \in Members[k - 2] : v = <<"open">> \o inner \o <<"close">>
        <5>1. PICK inner \in Members[k - 2] : v = <<"open">> \o inner \o <<"close">>
          BY <4>3
        <5>2. k - 2 \in 0..(n - 1)
          <6>1. k > 1
            BY <4>3
          <6> QED BY <6>1
        <5>3. inner \in Texts /\ Kept(inner)
          BY <1>1, <5>2, MembersType
        <5> SUFFICES ASSUME NEW i \in Nat, At(i, v), Live(i), ~Scan[i].inString,
                            Inside(i)
                     PROVE  Scan[i + Len(v)] = Scan[i]
          BY DEF Kept
        <5>4. "open" \in AllPieces /\ "close" \in AllPieces
          BY DEF AllPieces
        <5>5. /\ text[i + 1] = "open" /\ At(i + 1, inner) /\ text[i + 1 + Len(inner) + 1] = "close"
              /\ Len(v) = Len(inner) + 2
          BY <5>1, <5>3, <5>4, AtBetween
        <5>6. Scan[i + Len(inner) + 2] = Scan[i]
          BY <5>3, <5>5, BracesKept, Zenon
        <5>7. i + Len(v) = i + Len(inner) + 2
          <6>1. Len(inner) \in Nat
            BY <5>3 DEF Texts
          <6> QED BY <5>5, <6>1
        <5> QED BY <5>6, <5>7
      <4> QED BY <3>3, <4>1, <4>2, <4>3 DEF OneMember
    <3> SUFFICES ASSUME NEW i \in Nat, At(i, x), Live(i), ~Scan[i].inString,
                        Inside(i)
                 PROVE  Scan[i + Len(x)] = Scan[i]
      BY DEF Kept
    <3>10. At(i, v) /\ At(i + Len(v), rest) /\ Len(x) = Len(v) + Len(rest)
      BY <3>4, <3>6, <3>7, AtBoth
    <3>11. Scan[i + Len(v)] = Scan[i]
      BY <3>9, <3>10 DEF Kept
    <3>12. Len(v) \in Nat /\ Len(rest) \in Nat /\ i + Len(v) \in Nat
           /\ i + Len(x) = (i + Len(v)) + Len(rest)
      BY <3>6, <3>7, <3>10 DEF Texts
    <3>13. Live(i + Len(v)) /\ Inside(i + Len(v))
      BY <3>11 DEF Live, Inside
    <3>14. Scan[(i + Len(v)) + Len(rest)] = Scan[i + Len(v)]
      BY <3>8, <3>10, <3>11, <3>12, <3>13 DEF Kept
    <3> QED BY <3>11, <3>12, <3>14
  <2> QED BY <2>1, <2>2
<1> HIDE DEF S
<1>2. \A n \in Nat : n \in S
  BY <1>1, StrongInduction
<1> QED BY <1>2 DEF S

-------------------------------------------------------------------------------
(* What comes before an object, and what comes after it. *)
LEMMA ObjectForm ==
  ASSUME NEW o \in Objects
  PROVE  \E inner \in Texts : Kept(inner) /\ o = <<"open">> \o inner \o <<"close">>
<1>1. PICK n \in 2..MaxLength :
        o \in {<<"open">> \o inner \o <<"close">> : inner \in Members[n - 2]}
  BY Zenon DEF Objects
<1>2. PICK inner \in Members[n - 2] : o = <<"open">> \o inner \o <<"close">>
  BY <1>1, Zenon
<1>3. n - 2 \in Nat
  BY AlphabetAssumption
<1>4. inner \in Texts /\ Kept(inner)
  BY <1>2, <1>3, MembersType, MembersKept
<1> QED BY <1>2, <1>4

LEMMA ValueForms ==
  ASSUME NEW v \in Values
  PROVE  v \in Objects \/ v[1] # "open"
<1>1. CASE v = <<"plain">>
  BY <1>1
<1>2. CASE \E n \in 2..MaxLength : v \in Strings(n)
  <2>1. PICK n \in 2..MaxLength : v \in Strings(n)
    BY <1>2
  <2>2. n \in Nat
    BY AlphabetAssumption
  <2>3. PICK b \in Texts : v = <<"quote">> \o b \o <<"quote">>
    BY <2>1, <2>2, StringsType
  <2>4. v[1] = "quote"
    BY <2>3, OnePiece DEF Texts, AllPieces
  <2> QED BY <2>4
<1> QED BY <1>1, <1>2, Zenon DEF Values

(* Pieces that are no brace and no quote leave the scanner where it begins. *)
LEMMA ScanIntroduction ==
  ASSUME NEW k \in Nat, \A m \in 1..k : text[m] \notin {"open", "close", "quote"}
  PROVE  Scan[k] = ScanBegins
<1> DEFINE S == {n \in Nat : n <= k => Scan[n] = ScanBegins}
<1>1. ASSUME NEW n \in Nat, \A m \in 0..(n - 1) : m \in S PROVE n \in S
  <2>1. CASE n = 0
    BY <2>1, ScanLoop
  <2>2. CASE n # 0 /\ n <= k
    <3>1. n - 1 \in Nat /\ n - 1 <= k /\ n - 1 \in S /\ (n - 1) + 1 = n /\ n \in 1..k
      BY <1>1, <2>2
    <3>2. Scan[n - 1] = ScanBegins
      BY <3>1
    <3>3. Live(n - 1) /\ ~Scan[n - 1].inString
      BY <3>2 DEF Live, ScanBegins
    <3>4. text[n] \notin {"open", "close", "quote"}
      BY <3>1
    <3>5. Scan[(n - 1) + 1] = Scan[n - 1]
      BY <3>1, <3>3, <3>4, StepOver
    <3> QED BY <3>1, <3>2, <3>5
  <2> QED BY <2>1, <2>2
<1> HIDE DEF S
<1>2. \A n \in Nat : n \in S
  BY <1>1, StrongInduction
<1> QED BY <1>2 DEF S

(* The loop is left at the first end. *)
LEMMA ScanStays ==
  ASSUME NEW k \in Nat, Scan[k].end > 0
  PROVE  \A m \in Nat : m >= k => Scan[m] = Scan[k]
<1> DEFINE S == {m \in Nat : m >= k => Scan[m] = Scan[k]}
<1>1. ASSUME NEW n \in Nat, \A m \in 0..(n - 1) : m \in S PROVE n \in S
  <2>1. CASE n > k
    <3>1. n - 1 \in Nat /\ n - 1 >= k /\ n - 1 \in S /\ (n - 1) + 1 = n
      BY <1>1, <2>1
    <3>2. Scan[n - 1] = Scan[k]
      BY <3>1
    <3>3. Scan[n - 1] \in ScanState /\ Scan[(n - 1) + 1] = ScanPiece(Scan[n - 1], (n - 1) + 1)
      BY <3>1, ScanNext, Zenon
    <3>4. Scan[n - 1].end > 0
      BY <3>2
    <3>5. Scan[n] = Scan[n - 1]
      BY <3>1, <3>3, <3>4, ScanPieceCases
    <3> QED BY <3>2, <3>5
  <2> QED BY <2>1
<1> HIDE DEF S
<1>2. \A n \in Nat : n \in S
  BY <1>1, StrongInduction
<1> QED BY <1>2 DEF S

LEMMA PieceFields ==
  ASSUME text \in Texts, NEW i \in Nat, NEW j \in Nat, 1 <= i, j <= Len(text)
  PROVE  /\ DOMAIN Piece(i, j) = 1..(j - i + 1)
         /\ \A m \in 1..(j - i + 1) : Piece(i, j)[m] = text[i + m - 1]
BY DEF Piece, Texts

(* Where the first object begins and where it ends. *)
LEMMA ObjectScan ==
  ASSUME text \in Texts, NEW i \in DOMAIN text, NEW j \in DOMAIN text,
         \A m \in 1..(i - 1) : text[m] \notin {"open", "close", "quote"},
         Piece(i, j) \in Objects
  PROVE  /\ text[i] = "open"
         /\ Scan[Len(text)].start = i /\ Scan[Len(text)].end = j
         /\ FirstObject = Piece(i, j)
<1>1. i \in 1..Len(text) /\ j \in 1..Len(text) /\ Len(text) \in Nat
  BY DEF Texts
<1>2. PICK inner \in Texts : Kept(inner) /\ Piece(i, j) = <<"open">> \o inner \o <<"close">>
  BY ObjectForm
<1> DEFINE o == <<"open">> \o inner \o <<"close">>
<1>inner. Len(inner) \in Nat
  BY DEF Texts
<1>3. o \in Texts /\ Len(o) = Len(inner) + 2 /\ DOMAIN o = 1..Len(o)
  <2>1. <<"open">> \in Texts /\ <<"close">> \in Texts
    BY OnePiece DEF Texts, AllPieces
  <2> QED BY <2>1 DEF Texts
<1>4. Len(inner) + 2 = j - i + 1
  <2>1. DOMAIN o = 1..(j - i + 1)
    BY <1>1, <1>2, PieceFields
  <2>2. 1..(Len(inner) + 2) = 1..(j - i + 1)
    BY <1>3, <2>1
  <2> HIDE DEF o
  <2>3. Len(inner) + 2 \in 1..(j - i + 1)
    BY <1>inner, <2>2
  <2>4. j - i + 1 \in 1..(Len(inner) + 2)
    BY <1>1, <2>2, <2>3
  <2> QED BY <1>1, <1>inner, <2>3, <2>4
<1>5. At(i - 1, o)
  <2> SUFFICES ASSUME NEW m \in 1..Len(o) PROVE text[(i - 1) + m] = o[m]
    BY DEF At
  <2>1. m \in 1..(j - i + 1)
    BY <1>3, <1>4
  <2>2. Piece(i, j)[m] = text[i + m - 1]
    <3>1. i \in Nat /\ j \in Nat /\ 1 <= i /\ j <= Len(text)
      BY <1>1
    <3> QED BY <2>1, <3>1, PieceFields, Zenon
  <2>3. i + m - 1 = (i - 1) + m
    BY <1>1, <2>1
  <2> QED BY <1>2, <2>2, <2>3
<1> HIDE DEF o
<1> DEFINE b == i - 1
<1>6. b \in Nat /\ b + 1 = i /\ b + Len(inner) + 2 = j
  BY <1>1, <1>inner, <1>4
<1>7. text[b + 1] = "open" /\ At(b + 1, inner) /\ text[b + 1 + Len(inner) + 1] = "close"
  <2>1. "open" \in AllPieces /\ "close" \in AllPieces
    BY DEF AllPieces
  <2>2. At(b, <<"open">> \o inner \o <<"close">>)
    BY <1>5, Zenon DEF o
  <2> HIDE DEF b
  <2> QED BY <1>6, <2>1, <2>2, AtBetween
<1>8. Scan[b] = ScanBegins
  BY <1>6, ScanIntroduction
<1>9. Live(b) /\ ~Scan[b].inString /\ Outside(b)
  BY <1>8 DEF Live, Outside, ScanBegins
<1> HIDE DEF b
<1>10. Scan[b + Len(inner) + 2].start = b + 1
       /\ Scan[b + Len(inner) + 2].end = b + Len(inner) + 2
  BY <1>2, <1>6, <1>7, <1>9, BracesEnd, Zenon
<1>11. Scan[j].start = i /\ Scan[j].end = j
  BY <1>6, <1>10
<1>12. Scan[Len(text)] = Scan[j]
  BY <1>1, <1>11, ScanStays
<1>13. FirstObject = Piece(i, j)
  <2>1. Scan[Len(text)].end # 0 /\ Scan[Len(text)].start = i /\ Scan[Len(text)].end = j
    BY <1>1, <1>11, <1>12
  <2> QED BY <2>1, Zenon DEF FirstObject, Piece
<1> QED BY <1>6, <1>7, <1>11, <1>12, <1>13

-------------------------------------------------------------------------------
(* The inductive invariant: no strategy is tried before the ones ahead of  *)
(* it have failed, and the result is what the last one tried found.        *)
FoundBy ==
  \/ text \in Objects /\ result = text
  \/ text \notin Objects /\ result \in MarkdownBlock \cap Values
  \/ /\ text \notin Objects /\ MarkdownBlock \cap Values = {}
     /\ FirstObject \in Objects => result = FirstObject
     /\ FirstObject \notin Objects => result = <<>>

ResultInv ==
  /\ text \in Seq(Alphabet)
  /\ pc \in {"whole", "markdown", "scan", "done"}
  /\ pc # "done" => result = <<>>
  /\ pc \in {"markdown", "scan"} => text \notin Objects
  /\ pc = "scan" => MarkdownBlock \cap Values = {}
  /\ pc = "done" => FoundBy

LEMMA TextsNext ==
  ASSUME [Next]_vars
  PROVE  text' = text
BY DEF Next, TryWhole, TryMarkdown, TryScan, Try, vars

LEMMA ResultInit == Init => ResultInv
<1> SUFFICES ASSUME Init PROVE ResultInv
  OBVIOUS
<1>1. PICK n \in 0..MaxLength : text \in [1..n -> Alphabet]
  BY DEF Init
<1>2. text \in Seq(Alphabet)
  BY <1>1
<1>3. pc = "whole" /\ result = <<>>
  BY DEF Init
<1> QED BY <1>2, <1>3 DEF ResultInv

(* Which blocks and objects there are depends on the text alone. *)
LEMMA SameText ==
  ASSUME text' = text
  PROVE  MarkdownBlock' = MarkdownBlock /\ FirstObject' = FirstObject
<1>1. Scan' = Scan
  BY DEF Scan, ScanPiece, MatchPiece, Escapes
<1>2. FirstObject' = FirstObject
  BY <1>1 DEF FirstObject
<1>3. MarkdownBlock' = MarkdownBlock
  BY DEF MarkdownBlock, Blocks, Places
<1> QED BY <1>2, <1>3

LEMMA ResultNext == ResultInv /\ [Next]_vars => ResultInv'
<1> SUFFICES ASSUME ResultInv, [Next]_vars PROVE ResultInv'
  OBVIOUS
<1>1. text' = text
  BY TextsNext
<1>2. MarkdownBlock' = MarkdownBlock /\ FirstObject' = FirstObject
  BY <1>1, SameText
<1>3. text' \in Seq(Alphabet)
  BY <1>1 DEF ResultInv
<1>4. CASE TryWhole
  <2>1. pc = "whole" /\ result = <<>>
    BY <1>4 DEF TryWhole, Try, ResultInv
  <2>2. CASE text \in Objects
    <3>1. pc' = "done" /\ result' = text
      BY <1>4, <2>2 DEF TryWhole, Try
    <3>2. FoundBy'
      BY <1>1, <2>2, <3>1 DEF FoundBy
    <3> QED BY <1>3, <3>1, <3>2 DEF ResultInv
  <2>3. CASE text \notin Objects
    <3>1. pc' = "markdown" /\ result' = <<>>
      BY <1>4, <2>1, <2>3 DEF TryWhole, Try
    <3> QED BY <1>1, <1>3, <2>3, <3>1 DEF ResultInv
  <2> QED BY <2>2, <2>3
<1>5. CASE TryMarkdown
  <2>1. pc = "markdown" /\ result = <<>> /\ text \notin Objects
    BY <1>5 DEF TryMarkdown, Try, ResultInv
  <2>2. CASE MarkdownBlock \cap Values # {}
    <3>1. pc' = "done" /\ result' \in MarkdownBlock \cap Values
      BY <1>5, <2>2 DEF TryMarkdown, Try
    <3>2. FoundBy'
      BY <1>1, <1>2, <2>1, <3>1 DEF FoundBy
    <3> QED BY <1>3, <3>1, <3>2 DEF ResultInv
  <2>3. CASE MarkdownBlock \cap Values = {}
    <3>1. pc' = "scan" /\ result' = <<>>
      BY <1>5, <2>1, <2>3 DEF TryMarkdown, Try
    <3> QED BY <1>1, <1>2, <1>3, <2>1, <2>3, <3>1 DEF ResultInv
  <2> QED BY <2>2, <2>3
<1>6. CASE TryScan
  <2>1. pc = "scan" /\ result = <<>> /\ text \notin Objects /\ MarkdownBlock \cap Values = {}
    BY <1>6 DEF TryScan, Try, ResultInv
  <2>2. pc' = "done"
    BY <1>6 DEF TryScan, Try
  <2>3. FirstObject \in Objects => result' = FirstObject
    BY <1>6 DEF TryScan, Try
  <2>4. FirstObject \notin Objects => result' = <<>>
    BY <1>6, <2>1 DEF TryScan, Try
  <2>5. FoundBy'
    BY <1>1, <1>2, <2>1, <2>3, <2>4 DEF FoundBy
  <2> QED BY <1>3, <2>2, <2>5 DEF ResultInv
<1>7. CASE UNCHANGED vars
  <2>1. pc' = pc /\ result' = result
    BY <1>7 DEF vars
  <2>2. FoundBy => FoundBy'
    BY <1>1, <1>2, <2>1 DEF FoundBy
  <2> QED BY <1>1, <1>2, <2>1, <2>2 DEF ResultInv
<1> QED BY <1>4, <1>5, <1>6, <1>7 DEF Next

(* The strategies are tried in their order: the whole text, then the block *)
(* of a fence, then the first object, each only when the ones before it    *)
(* found nothing that parses.                                              *)
THEOREM StrategiesInOrder == Spec => []ResultInv
BY ResultInit, ResultNext, PTL DEF Spec

-------------------------------------------------------------------------------
LEMMA AlphabetPieces == Alphabet \subseteq AllPieces
BY AlphabetAssumption DEF AllPieces

LEMMA TextTyped ==
  ASSUME text \in Seq(Alphabet)
  PROVE  text \in Texts /\ DOMAIN text = 1..Len(text) /\ Len(text) \in Nat
BY AlphabetPieces DEF Texts

LEMMA ProseBefore ==
  ASSUME text \in Texts, NEW i \in Nat, i <= Len(text), IsProse(Piece(1, i))
  PROVE  \A m \in 1..i : text[m] \in {"plain", "prose"}
<1> SUFFICES ASSUME NEW m \in 1..i PROVE text[m] \in {"plain", "prose"}
  OBVIOUS
<1>1. DOMAIN Piece(1, i) = 1..i /\ Piece(1, i)[m] = text[m]
  BY DEF Piece, Texts
<1> QED BY <1>1 DEF IsProse

(* The whole text is an object only if the object begins it and ends it. *)
LEMMA WholeObject ==
  ASSUME text \in Texts, NEW i \in DOMAIN text, NEW j \in DOMAIN text,
         \A m \in 1..(i - 1) : text[m] \notin {"open", "close", "quote"},
         Piece(i, j) \in Objects, text \in Objects
  PROVE  text = Piece(i, j)
<1>1. Len(text) \in Nat /\ DOMAIN text = 1..Len(text) /\ 1 \in DOMAIN text
      /\ Len(text) \in DOMAIN text
  BY DEF Texts
<1>2. Piece(1, Len(text)) = text
  BY DEF Piece, Texts
<1>3. Scan[Len(text)].start = 1 /\ Scan[Len(text)].end = Len(text)
  <2>1. \A m \in 1..(1 - 1) : text[m] \notin {"open", "close", "quote"}
    OBVIOUS
  <2> QED BY <1>1, <1>2, <2>1, ObjectScan
<1>4. Scan[Len(text)].start = i /\ Scan[Len(text)].end = j
  BY ObjectScan
<1> QED BY <1>2, <1>3, <1>4

LEMMA ObjectAfterProse ==
  ASSUME ResultInv, pc = "done", Places({"fence_json", "fence_line"}) = {},
         NEW i \in 1..Len(text), NEW j \in 1..Len(text),
         IsProse(Piece(1, i - 1)), Piece(i, j) \in Objects
  PROVE  result = Piece(i, j)
<1>1. text \in Texts /\ DOMAIN text = 1..Len(text) /\ Len(text) \in Nat /\ FoundBy
  BY TextTyped DEF ResultInv
<1>2. \A m \in 1..(i - 1) : text[m] \notin {"open", "close", "quote"}
  <2>1. Len(text) \in Nat
    BY <1>1
  <2>2. i - 1 \in Nat /\ i - 1 <= Len(text)
    BY <2>1
  <2> QED BY <1>1, <2>2, ProseBefore
<1>3. MarkdownBlock = {}
  <2>1. Places({"fence_json"}) = {} /\ Places({"fence_line"}) = {}
    BY DEF Places
  <2>2. Blocks("fence_json") = {} /\ Blocks("fence_line") = {}
    BY <2>1 DEF Blocks
  <2>3. Markers[1] = "fence_json" /\ Markers[2] = "fence_line"
    BY DEF Markers
  <2> QED BY <2>2, <2>3 DEF MarkdownBlock
<1>4. FirstObject = Piece(i, j)
  BY <1>1, <1>2, ObjectScan
<1>5. text \in Objects => text = Piece(i, j)
  BY <1>1, <1>2, WholeObject
<1> QED BY <1>1, <1>3, <1>4, <1>5 DEF FoundBy

LEMMA ProseThenObjectFollows == ResultInv => ProseThenObject
<1> SUFFICES ASSUME ResultInv, pc = "done", Places({"fence_json", "fence_line"}) = {}
             PROVE  \A i, j \in DOMAIN text :
                      (IsProse(Piece(1, i - 1)) /\ Piece(i, j) \in Objects) => result = Piece(i, j)
  BY DEF ProseThenObject
<1>1. DOMAIN text = 1..Len(text)
  BY TextTyped DEF ResultInv
<1> QED BY <1>1, ObjectAfterProse

(* What extract_json promises for an object after an introduction.  The    *)
(* whole text parses only if it is that object, no fence offers a block,   *)
(* and the scan ends at the closing brace.                                 *)
THEOREM ProseThenObjectHolds == Spec => []ProseThenObject
BY StrategiesInOrder, ProseThenObjectFollows, PTL

-------------------------------------------------------------------------------
LEMMA FirstIsLeast ==
  ASSUME NEW S \in SUBSET Nat, S # {}
  PROVE  First(S) \in S /\ \A k \in S : First(S) <= k
BY LeastNatural DEF First

(* The block of a json fence that only words come before. *)
LEMMA FenceBlock ==
  ASSUME text \in Texts, NEW i \in 1..Len(text), NEW j \in 1..Len(text), i > 1, j < Len(text),
         text[i - 1] = "fence_json", text[j + 1] \in Fences, i <= j,
         \A m \in 1..(i - 2) : text[m] \in {"plain", "prose"}
  PROVE  \E k \in 1..Len(text) : k >= i /\ text[k] \in Fences /\ MarkdownBlock = {Piece(i, k - 1)}
<1>1. Len(text) \in Nat /\ DOMAIN text = 1..Len(text)
  BY DEF Texts
<1> DEFINE S == Places({"fence_json"})
           T == {k \in Places(Fences) : k > i - 1}
<1>2. First(S) = i - 1
  <2>1. i - 1 \in S
    BY <1>1 DEF Places
  <2>2. S \in SUBSET Nat
    BY <1>1 DEF Places
  <2>3. First(S) \in S /\ First(S) <= i - 1
    BY <2>1, <2>2, FirstIsLeast
  <2>4. First(S) \in 1..Len(text) /\ text[First(S)] = "fence_json"
    BY <1>1, <2>3 DEF Places
  <2>5. First(S) \notin 1..(i - 2)
    BY <2>4
  <2> HIDE DEF S
  <2> QED BY <1>1, <2>3, <2>4, <2>5
<1>3. First(T) \in T
  <2>1. j + 1 \in T
    BY <1>1 DEF Places
  <2>2. T \in SUBSET Nat
    BY <1>1 DEF Places
  <2> HIDE DEF T
  <2> QED BY <2>1, <2>2, FirstIsLeast
<1> DEFINE k == First(T)
<1>4. k \in 1..Len(text) /\ text[k] \in Fences /\ k >= i
  BY <1>1, <1>3 DEF Places
<1>5. Blocks("fence_json") = {Piece(i, k - 1)}
  <2>1. {o \in S : /\ o = First(S)
                   /\ \E f \in Places(Fences) : f > o} = {i - 1}
    <3>1. i - 1 \in S
      BY <1>1 DEF Places
    <3>2. \E f \in Places(Fences) : f > i - 1
      BY <1>3
    <3> HIDE DEF S
    <3> QED BY <1>2, <3>1, <3>2
  <2>2. Blocks("fence_json") =
          {SubSeq(text, (i - 1) + 1, First({f \in Places(Fences) : f > i - 1}) - 1)}
    BY <2>1 DEF Blocks
  <2>3. (i - 1) + 1 = i
    BY <1>1
  <2> QED BY <2>2, <2>3 DEF Piece
<1>6. MarkdownBlock = {Piece(i, k - 1)}
  BY <1>5 DEF MarkdownBlock, Markers
<1> QED BY <1>4, <1>6

LEMMA ObjectInFence ==
  ASSUME ResultInv, pc = "done", NEW i \in 1..Len(text), NEW j \in 1..Len(text),
         i > 1, j < Len(text), text[i - 1] = "fence_json", text[j + 1] \in Fences,
         IsProse(Piece(1, i - 2)), Piece(i, j) \in Objects
  PROVE  result = Piece(i, j)
<1>1. text \in Texts /\ DOMAIN text = 1..Len(text) /\ Len(text) \in Nat
  BY TextTyped DEF ResultInv
<1>2. i \in DOMAIN text /\ j \in DOMAIN text /\ i \in Nat /\ j \in Nat
  BY <1>1
<1>3. \A m \in 1..(i - 2) : text[m] \in {"plain", "prose"}
  <2>1. i - 2 \in Nat /\ i - 2 <= Len(text)
    BY <1>1, <1>2
  <2> QED BY <1>1, <2>1, ProseBefore
<1>4. \A m \in 1..(i - 1) : text[m] \notin {"open", "close", "quote"}
  <2> SUFFICES ASSUME NEW m \in 1..(i - 1) PROVE text[m] \notin {"open", "close", "quote"}
    OBVIOUS
  <2>1. m \in 1..(i - 2) \/ m = i - 1
    BY <1>2
  <2> QED BY <1>3, <2>1
<1>5. text[i] = "open" /\ FirstObject = Piece(i, j)
      /\ Scan[Len(text)].start = i /\ Scan[Len(text)].end = j
  BY <1>1, <1>2, <1>4, ObjectScan
<1>6. i <= j
  <2>1. PICK inner \in Texts : Piece(i, j) = <<"open">> \o inner \o <<"close">>
    BY ObjectForm
  <2>2. Len(inner) \in Nat /\ Len(<<"open">> \o inner \o <<"close">>) = Len(inner) + 2
    BY OnePiece DEF Texts, AllPieces
  <2>3. Len(Piece(i, j)) # 0
    BY <2>1, <2>2
  <2>4. i > j => Len(Piece(i, j)) = 0
    BY <1>1, <1>2 DEF Piece, Texts
  <2> QED BY <1>2, <2>3, <2>4
<1>7. PICK k \in 1..Len(text) :
        k >= i /\ text[k] \in Fences /\ MarkdownBlock = {Piece(i, k - 1)}
  BY <1>1, <1>2, <1>3, <1>6, FenceBlock
<1>8. k # i
  BY <1>1, <1>5, <1>7 DEF Fences
<1>9. Piece(i, k - 1) \in Values => Piece(i, k - 1) = Piece(i, j)
  <2> SUFFICES ASSUME Piece(i, k - 1) \in Values PROVE Piece(i, k - 1) = Piece(i, j)
    OBVIOUS
  <2>1. k - 1 \in Nat /\ k - 1 >= i /\ k - 1 \in DOMAIN text /\ i \in Nat
    BY <1>1, <1>7, <1>8
  <2>2. Piece(i, k - 1)[1] = "open"
    <3>1. Piece(i, k - 1)[1] = text[i]
      BY <1>1, <1>2, <2>1 DEF Piece, Texts
    <3> QED BY <1>5, <3>1
  <2>3. Piece(i, k - 1) \in Objects
    BY <2>2, ValueForms
  <2>4. Scan[Len(text)].end = k - 1
    BY <1>1, <1>2, <1>4, <2>1, <2>3, ObjectScan
  <2> QED BY <1>5, <2>4
<1>10. text \in Objects => text = Piece(i, j)
  BY <1>1, <1>2, <1>4, WholeObject
<1>11. FoundBy
  BY DEF ResultInv
<1> QED BY <1>5, <1>7, <1>9, <1>10, <1>11 DEF FoundBy

LEMMA FencedObjectFollows == ResultInv => FencedObject
<1> SUFFICES ASSUME ResultInv, pc = "done"
             PROVE  \A i, j \in DOMAIN text :
                      (/\ i > 1 /\ j < Len(text)
                       /\ text[i - 1] = "fence_json" /\ text[j + 1] \in Fences
                       /\ IsProse(Piece(1, i - 2)) /\ Piece(i, j) \in Objects)
                        => result = Piece(i, j)
  BY DEF FencedObject
<1>1. DOMAIN text = 1..Len(text)
  BY TextTyped DEF ResultInv
<1> QED BY <1>1, ObjectInFence

(* What extract_json promises for an object in a json fence: the block     *)
(* parses only if it is that object, and when a fence inside one of its    *)
(* strings cuts the block short, the scan finds the object all the same.   *)
THEOREM FencedObjectHolds == Spec => []FencedObject
BY StrategiesInOrder, FencedObjectFollows, PTL
===============================================================================
