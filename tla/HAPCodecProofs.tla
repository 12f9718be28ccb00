--------------------------- MODULE HAPCodecProofs ---------------------------
(***************************************************************************)
(* Theorems about HAPCodec, HAPMessages and HAPFrame, for any message of    *)
(* any layout and any limits: what one build has written whole is what      *)
(* another reads.                                                           *)
(***************************************************************************)
EXTENDS HAPMessageTypes, LeastNatural, SequenceTheorems

-----------------------------------------------------------------------------
(* Recursion over numbers and over sequences *)

\* A function whose value at k is made of its value at k - 1.
Recursion(f, a, G, n) == f = [k \in 0 .. n |-> IF k = 0 THEN a ELSE G[k, f[k - 1]]]

LEMMA RecursionExists ==
  ASSUME NEW S, NEW a \in S, NEW n \in Nat, NEW G \in [(1 .. n) \X S -> S]
  PROVE  \E f \in [0 .. n -> S] : Recursion(f, a, G, n)
<1> DEFINE bad == {m \in 0 .. n : ~\E f \in [0 .. m -> S] : Recursion(f, a, G, m)}
<1>1. ASSUME bad # {} PROVE FALSE
  <2>0. bad \subseteq Nat
    OBVIOUS
  <2>1. PICK m \in bad : \A j \in bad : m =< j
    BY <1>1, <2>0, LeastExists
  <2>2. m \in 0 .. n /\ ~\E f \in [0 .. m -> S] : Recursion(f, a, G, m)
    OBVIOUS
  <2>3. CASE m = 0
    <3> DEFINE h == [k \in 0 .. 0 |-> a]
    <3>1. h \in [0 .. 0 -> S] /\ h = [k \in 0 .. 0 |-> IF k = 0 THEN a ELSE G[k, h[k - 1]]]
      OBVIOUS
    <3> HIDE DEF h
    <3>2. Recursion(h, a, G, 0)
      BY <3>1 DEF Recursion
    <3> QED BY <2>2, <2>3, <3>1, <3>2
  <2>4. CASE m # 0
    <3>1. m - 1 \in 0 .. n /\ m - 1 \notin bad
      BY <2>1, <2>2, <2>4
    <3>2. PICK f \in [0 .. m - 1 -> S] : Recursion(f, a, G, m - 1)
      BY <3>1
    <3> DEFINE h == [k \in 0 .. m |-> IF k = m THEN G[m, f[m - 1]] ELSE f[k]]
    <3>3. f[m - 1] \in S /\ m \in 1 .. n /\ m - 1 \in 0 .. m
      BY <2>2, <2>4
    <3>4. G[m, f[m - 1]] \in S
      BY <3>3
    <3>5. h \in [0 .. m -> S]
      <4>1. \A k \in 0 .. m : k # m => k \in 0 .. m - 1
        BY <2>2
      <4>2. \A k \in 0 .. m : (IF k = m THEN G[m, f[m - 1]] ELSE f[k]) \in S
        BY <3>4, <4>1
      <4> QED BY <4>2
    <3>6. \A k \in 0 .. m : h[k] = IF k = 0 THEN a ELSE G[k, h[k - 1]]
      <4>1. ASSUME NEW k \in 0 .. m, k # m
            PROVE  h[k] = IF k = 0 THEN a ELSE G[k, h[k - 1]]
        <5>1. k \in 0 .. m - 1 /\ (k # 0 => k - 1 \in 0 .. m /\ k - 1 # m)
          BY <2>2, <4>1
        <5>2. f[k] = IF k = 0 THEN a ELSE G[k, f[k - 1]]
          BY <3>2, <5>1 DEF Recursion
        <5> QED BY <4>1, <5>1, <5>2
      <4>2. h[m] = G[m, h[m - 1]]
        <5>1. m - 1 # m /\ m \in 0 .. m
          BY <2>2, <2>4
        <5> QED BY <3>3, <5>1
      <4> QED BY <2>4, <4>1, <4>2
    <3>7. h = [k \in 0 .. m |-> h[k]]
      OBVIOUS
    <3> HIDE DEF h
    <3>8. Recursion(h, a, G, m)
      BY <3>6, <3>7 DEF Recursion
    <3> QED BY <2>2, <3>5, <3>8
  <2> QED BY <2>3, <2>4
<1>2. n \in 0 .. n
  OBVIOUS
<1> QED BY <1>1, <1>2

\* The sequences of a sequence, one after the other.
Flattening(s, f) ==
  f = [i \in 1 .. Len(s) |-> IF i = 1 THEN s[i] ELSE f[i - 1] \o s[i]]

LEMMA FlattenValue ==
  ASSUME NEW T, NEW s \in Seq(Seq(T)), s # <<>>
  PROVE  \E f \in [1 .. Len(s) -> Seq(T)] :
           Flattening(s, f) /\ FlattenSeq(s) = f[Len(s)]
<1> DEFINE S == Seq(T)
           n == Len(s)
           c == CHOOSE f : Flattening(s, f)
<1>1. n \in Nat /\ n # 0 /\ \A k \in 1 .. n : s[k] \in S
  OBVIOUS
<1>2. \E f : Flattening(s, f)
  <2> DEFINE G == [p \in (1 .. n) \X S |-> IF p[1] = 1 THEN s[1] ELSE p[2] \o s[p[1]]]
  <2>1. G \in [(1 .. n) \X S -> S]
    <3>1. ASSUME NEW p \in (1 .. n) \X S
          PROVE  (IF p[1] = 1 THEN s[1] ELSE p[2] \o s[p[1]]) \in S
      BY <1>1
    <3> QED BY <3>1
  <2>2. \A k \in 1 .. n, x \in S : G[k, x] = IF k = 1 THEN s[1] ELSE x \o s[k]
    OBVIOUS
  <2> HIDE DEF G, S, n
  <2>3. <<>> \in S
    BY DEF S
  <2>4. PICK h \in [0 .. n -> S] : Recursion(h, <<>>, G, n)
    BY <1>1, <2>1, <2>3, RecursionExists
  <2> DEFINE f == [i \in 1 .. n |-> h[i]]
  <2>5. ASSUME NEW i \in 1 .. n PROVE f[i] = IF i = 1 THEN s[i] ELSE f[i - 1] \o s[i]
    <3>1. i \in 0 .. n /\ i # 0 /\ h[i - 1] \in S /\ (i # 1 => i - 1 \in 1 .. n)
      BY <1>1
    <3>2. h[i] = G[i, h[i - 1]]
      BY <2>4, <3>1 DEF Recursion
    <3> QED BY <2>2, <3>1, <3>2
  <2>6. f = [i \in 1 .. n |-> f[i]]
    OBVIOUS
  <2> HIDE DEF f
  <2>7. Flattening(s, f)
    BY <2>5, <2>6 DEF Flattening, n
  <2> QED BY <2>7
<1>3. Flattening(s, c)
  BY <1>2
<1>4. FlattenSeq(s) = c[n]
  BY <1>1 DEF FlattenSeq, Flattening
<1> HIDE DEF c
<1>5. c = [i \in 1 .. n |-> c[i]] /\ \A i \in 1 .. n : c[i] = IF i = 1 THEN s[i] ELSE c[i - 1] \o s[i]
  BY <1>3 DEF Flattening
<1>6. \A i \in 1 .. n : c[i] \in S
  <2> DEFINE bad == {i \in 1 .. n : c[i] \notin S}
  <2>1. ASSUME bad # {} PROVE FALSE
    <3>0. bad \subseteq Nat
      BY <1>1
    <3>1. PICK m \in bad : \A j \in bad : m =< j
      BY <2>1, <3>0, LeastExists
    <3>2. m \in 1 .. n /\ c[m] \notin S /\ (m # 1 => m - 1 \in 1 .. n)
      BY <1>1
    <3>3. m # 1 => c[m - 1] \in S
      BY <3>1, <3>2
    <3>4. c[m] = IF m = 1 THEN s[m] ELSE c[m - 1] \o s[m]
      BY <1>5, <3>2
    <3>5. s[m] \in S
      BY <1>1, <3>2
    <3>6. m # 1 => c[m - 1] \o s[m] \in S
      BY <3>3, <3>5
    <3> QED BY <3>2, <3>4, <3>5, <3>6
  <2> QED BY <2>1
<1>7. c \in [1 .. n -> S]
  BY <1>5, <1>6
<1> QED BY <1>3, <1>4, <1>7

LEMMA FlattenEmpty == FlattenSeq(<<>>) = <<>>
  BY DEF FlattenSeq

LEMMA FlattenType ==
  ASSUME NEW T, NEW s \in Seq(Seq(T))
  PROVE  FlattenSeq(s) \in Seq(T)
<1>1. CASE s = <<>>
  <2>1. FlattenSeq(s) = <<>>
    BY <1>1, FlattenEmpty
  <2>2. <<>> \in Seq(T)
    OBVIOUS
  <2> QED BY <2>1, <2>2
<1>2. CASE s # <<>>
  <2>1. PICK f \in [1 .. Len(s) -> Seq(T)] : FlattenSeq(s) = f[Len(s)]
    BY <1>2, FlattenValue
  <2>2. Len(s) \in 1 .. Len(s)
    BY <1>2
  <2> QED BY <2>1, <2>2
<1> QED BY <1>1, <1>2

LEMMA AppendMore ==
  ASSUME NEW S, NEW s \in Seq(S), NEW x \in S
  PROVE  LET t == Append(s, x) IN
         /\ t \in Seq(S) /\ Len(t) = Len(s) + 1 /\ Len(s) \in Nat /\ t # <<>>
         /\ t[Len(s) + 1] = x /\ \A k \in 1 .. Len(s) : t[k] = s[k]
  OBVIOUS

\* One more at the end.
LEMMA FlattenMore ==
  ASSUME NEW T, NEW s \in Seq(Seq(T)), NEW x \in Seq(T)
  PROVE  FlattenSeq(Append(s, x)) = FlattenSeq(s) \o x
<1> DEFINE t == Append(s, x)
           n == Len(s)
<1>1. /\ t \in Seq(Seq(T)) /\ Len(t) = n + 1 /\ n \in Nat /\ t # <<>> /\ t[n + 1] = x
      /\ \A k \in 1 .. n : t[k] = s[k]
  BY AppendMore
<1> HIDE DEF t
<1>2. PICK g \in [1 .. Len(t) -> Seq(T)] : Flattening(t, g) /\ FlattenSeq(t) = g[Len(t)]
  BY <1>1, FlattenValue
<1>3. \A i \in 1 .. n + 1 : g[i] = IF i = 1 THEN t[i] ELSE g[i - 1] \o t[i]
  BY <1>1, <1>2 DEF Flattening
<1>4. FlattenSeq(t) = IF n = 0 THEN x ELSE g[n] \o x
  <2>1. n + 1 \in 1 .. n + 1 /\ (n + 1) - 1 = n /\ (n + 1 = 1 <=> n = 0)
    BY <1>1
  <2>2. g[n + 1] = IF n + 1 = 1 THEN t[n + 1] ELSE g[(n + 1) - 1] \o t[n + 1]
    BY <1>3, <2>1
  <2> QED BY <1>1, <1>2, <2>1, <2>2
<1>5. CASE n = 0
  <2>1. s = <<>> /\ <<>> \o x = x
    BY <1>5
  <2> QED BY <1>4, <1>5, <2>1, FlattenEmpty DEF t
<1>6. CASE n # 0
  <2>1. PICK f \in [1 .. n -> Seq(T)] : Flattening(s, f) /\ FlattenSeq(s) = f[n]
    BY <1>6, FlattenValue
  <2>2. \A i \in 1 .. n : f[i] = IF i = 1 THEN s[i] ELSE f[i - 1] \o s[i]
    BY <2>1 DEF Flattening
  <2> DEFINE bad == {i \in 1 .. n : f[i] # g[i]}
  <2>3. ASSUME bad # {} PROVE FALSE
    <3>1. bad \subseteq Nat
      BY <1>1
    <3>2. PICK m \in bad : \A j \in bad : m =< j
      BY <2>3, <3>1, LeastExists
    <3>3. m \in 1 .. n /\ f[m] # g[m] /\ m \in 1 .. n + 1 /\ (m # 1 => m - 1 \in 1 .. n)
      BY <1>1
    <3>4. m # 1 => f[m - 1] = g[m - 1]
      <4>1. m - 1 \notin bad
        <5> HIDE DEF bad
        <5> QED BY <3>1, <3>2
      <4> QED BY <3>3, <4>1
    <3>5. /\ g[m] = IF m = 1 THEN t[m] ELSE g[m - 1] \o t[m]
          /\ f[m] = IF m = 1 THEN s[m] ELSE f[m - 1] \o s[m]
          /\ t[m] = s[m]
      BY <1>1, <1>3, <2>2, <3>3
    <3> HIDE DEF bad
    <3> QED BY <3>3, <3>4, <3>5
  <2>4. n \in 1 .. n
    BY <1>1, <1>6
  <2>5. f[n] = g[n]
    BY <2>3, <2>4
  <2> QED BY <1>4, <1>6, <2>1, <2>5 DEF t
<1> QED BY <1>5, <1>6

\* A sequence that is not empty is all but its last, and its last.
LEMMA AllButLast ==
  ASSUME NEW S, NEW s \in Seq(S), s # <<>>
  PROVE  LET b == SubSeq(s, 1, Len(s) - 1) IN
         /\ b \in Seq(S) /\ Len(b) = Len(s) - 1 /\ s[Len(s)] \in S
         /\ s = Append(b, s[Len(s)]) /\ \A k \in 1 .. Len(b) : b[k] = s[k]
<1> DEFINE n == Len(s)
           b == SubSeq(s, 1, n - 1)
<1>1. n \in Nat \ {0} /\ s[n] \in S
  OBVIOUS
<1>2. b \in Seq(S) /\ Len(b) = n - 1 /\ \A k \in 1 .. n - 1 : b[k] = s[k]
  <2> DEFINE e == n - 1
  <2>1. e \in Nat /\ e =< n /\ n \in Nat /\ \A k \in 1 .. n : s[k] \in S
    BY <1>1
  <2> HIDE DEF e
  <2>2. LET h == SubSeq(s, 1, e) IN
        h \in Seq(S) /\ Len(h) = e /\ \A k \in 1 .. e : h[k] = s[k]
    BY <2>1
  <2> QED BY <2>2 DEF e
<1> HIDE DEF b
<1>3. Append(b, s[n]) \in Seq(S) /\ Len(Append(b, s[n])) = n
  BY <1>1, <1>2
<1>4. ASSUME NEW k \in 1 .. n PROVE Append(b, s[n])[k] = s[k]
  BY <1>1, <1>2
<1>5. Append(b, s[n]) = s
  BY <1>3, <1>4, SeqEqual
<1> QED BY <1>1, <1>2, <1>5 DEF b

LEMMA ConcatMore ==
  ASSUME NEW S, NEW s \in Seq(S), NEW t \in Seq(S), NEW x \in S
  PROVE  s \o Append(t, x) = Append(s \o t, x) /\ s \o t \in Seq(S)
  OBVIOUS

LEMMA ConcatThree ==
  ASSUME NEW S, NEW s \in Seq(S), NEW t \in Seq(S), NEW u \in Seq(S)
  PROVE  (s \o t) \o u = s \o (t \o u)
  OBVIOUS

\* One sequence more behind the second of two sequences of sequences.
LEMMA FlattenBothMore ==
  ASSUME NEW T, NEW s \in Seq(Seq(T)), NEW b \in Seq(Seq(T)), NEW x \in Seq(T),
         FlattenSeq(s \o b) = FlattenSeq(s) \o FlattenSeq(b)
  PROVE  FlattenSeq(s \o Append(b, x)) = FlattenSeq(s) \o FlattenSeq(Append(b, x))
<1> DEFINE S == Seq(T)
           c == FlattenSeq(s)
           d == FlattenSeq(b)
<1>1. s \o Append(b, x) = Append(s \o b, x) /\ s \o b \in Seq(S)
  <2>1. s \in Seq(S) /\ b \in Seq(S) /\ x \in S
    OBVIOUS
  <2> HIDE DEF S
  <2> QED BY ONLY SMTT(60), <2>1
<1>2. c \in Seq(T) /\ d \in Seq(T)
  BY FlattenType
<1>3. FlattenSeq(s \o Append(b, x)) = (c \o d) \o x
  BY <1>1, FlattenMore
<1>4. FlattenSeq(Append(b, x)) = d \o x
  BY FlattenMore
<1> HIDE DEF c, d
<1>5. (c \o d) \o x = c \o (d \o x)
  BY ONLY <1>2, x \in Seq(T)
<1> QED BY ONLY <1>3, <1>4, <1>5 DEF c

\* Two sequences of sequences, one behind the other.
LEMMA FlattenBoth ==
  ASSUME NEW T, NEW s \in Seq(Seq(T)), NEW t \in Seq(Seq(T))
  PROVE  FlattenSeq(s \o t) = FlattenSeq(s) \o FlattenSeq(t)
<1> DEFINE S == Seq(T)
           bad == {k \in Nat : \E u \in Seq(S) :
                     Len(u) = k /\ FlattenSeq(s \o u) # FlattenSeq(s) \o FlattenSeq(u)}
<1> HIDE DEF S
<1>1. ASSUME bad # {} PROVE FALSE
  <2>1. PICK m \in bad : \A j \in bad : m =< j
    BY <1>1, LeastExists
  <2>2. PICK u \in Seq(S) : Len(u) = m /\ FlattenSeq(s \o u) # FlattenSeq(s) \o FlattenSeq(u)
    OBVIOUS
  <2>3. FlattenSeq(s) \in Seq(T) /\ s \in Seq(S)
    BY FlattenType DEF S
  <2>4. u # <<>>
    <3>1. s \o <<>> = s /\ FlattenSeq(s) \o <<>> = FlattenSeq(s)
      BY <2>3
    <3> QED BY <2>2, <3>1, FlattenEmpty
  <2> DEFINE b == SubSeq(u, 1, Len(u) - 1)
             x == u[Len(u)]
  <2>5. b \in Seq(S) /\ Len(b) = m - 1 /\ x \in S /\ u = Append(b, x) /\ m \in Nat
    BY <2>2, <2>4, AllButLast
  <2> HIDE DEF b, x
  <2>6. Len(b) \in Nat /\ m - 1 \notin bad
    BY <2>1, <2>5
  <2>7. FlattenSeq(s \o b) = FlattenSeq(s) \o FlattenSeq(b)
    BY <2>5, <2>6
  <2>8. FlattenSeq(s \o u) = FlattenSeq(s) \o FlattenSeq(u)
    BY <2>5, <2>7, FlattenBothMore DEF S
  <2> QED BY <2>2, <2>8
<1>2. t \in Seq(S) /\ Len(t) \in Nat
  BY DEF S
<1> QED BY <1>1, <1>2

\* Sequences of sequences of sequences, flattened in either order.
LEMMA FlattenTwice ==
  ASSUME NEW T, NEW s \in Seq(Seq(Seq(T)))
  PROVE  FlattenSeq(FlattenSeq(s)) = FlattenSeq([k \in 1 .. Len(s) |-> FlattenSeq(s[k])])
<1> DEFINE S == Seq(Seq(T))
           Each(u) == [k \in 1 .. Len(u) |-> FlattenSeq(u[k])]
           bad == {k \in Nat : \E u \in Seq(S) :
                     Len(u) = k /\ FlattenSeq(FlattenSeq(u)) # FlattenSeq(Each(u))}
<1> HIDE DEF S
<1>1. ASSUME bad # {} PROVE FALSE
  <2>1. PICK m \in bad : \A j \in bad : m =< j
    BY <1>1, LeastExists
  <2>2. PICK u \in Seq(S) : Len(u) = m /\ FlattenSeq(FlattenSeq(u)) # FlattenSeq(Each(u))
    OBVIOUS
  <2>3. u # <<>>
    <3>1. Each(<<>>) = <<>>
      OBVIOUS
    <3> QED BY <2>2, <3>1, FlattenEmpty
  <2> DEFINE b == SubSeq(u, 1, Len(u) - 1)
             x == u[Len(u)]
  <2>4. /\ b \in Seq(S) /\ Len(b) = m - 1 /\ x \in S /\ u = Append(b, x) /\ m \in Nat
        /\ \A k \in 1 .. Len(b) : b[k] = u[k]
    BY <2>2, <2>3, AllButLast
  <2> HIDE DEF b
  <2>5. Len(b) \in Nat /\ m - 1 \notin bad
    <3>1. m - 1 < m /\ Len(b) \in Nat
      BY <2>4
    <3> HIDE DEF bad
    <3> QED BY <2>1, <2>4, <3>1
  <2>6. FlattenSeq(FlattenSeq(b)) = FlattenSeq(Each(b))
    BY <2>4, <2>5
  <2>7. /\ FlattenSeq(u) = FlattenSeq(b) \o x
        /\ FlattenSeq(b) \in Seq(Seq(T)) /\ x \in Seq(Seq(T))
    BY <2>4, FlattenMore, FlattenType DEF S
  <2>8. FlattenSeq(FlattenSeq(u)) = FlattenSeq(FlattenSeq(b)) \o FlattenSeq(x)
    BY <2>7, FlattenBoth
  <2>9. Each(b) \in Seq(Seq(T)) /\ Each(u) = Append(Each(b), FlattenSeq(x))
    <3>1. FlattenSeq(x) \in Seq(T) /\ \A k \in 1 .. Len(b) : FlattenSeq(b[k]) \in Seq(T)
      BY SMTT(60), <2>4, <2>7, FlattenType DEF S
    <3>2. Each(b) \in Seq(Seq(T)) /\ Len(Each(b)) = Len(b)
      BY <2>5, <3>1
    <3>3. \A k \in 1 .. Len(u) : FlattenSeq(u[k]) \in Seq(T)
      <4>1. \A k \in 1 .. Len(u) : u[k] \in Seq(Seq(T))
        BY <2>2 DEF S
      <4> QED BY <4>1, FlattenType
    <3>4. Each(u) \in Seq(Seq(T)) /\ Len(Each(u)) = Len(u)
      BY <2>2, <3>3
    <3> DEFINE r == Append(Each(b), FlattenSeq(x))
    <3>5. /\ r \in Seq(Seq(T)) /\ Len(r) = Len(u) /\ r[Len(u)] = FlattenSeq(x)
          /\ \A k \in 1 .. Len(b) : r[k] = FlattenSeq(b[k])
      BY <2>2, <2>4, <2>5, <3>1, <3>2
    <3>6. ASSUME NEW k \in 1 .. Len(u) PROVE r[k] = Each(u)[k]
      <4>1. k = Len(u) \/ k \in 1 .. Len(b)
        BY <2>2, <2>4
      <4>2. Each(u)[k] = FlattenSeq(u[k])
        OBVIOUS
      <4> HIDE DEF r
      <4> QED BY <2>4, <3>5, <4>1, <4>2
    <3> HIDE DEF r
    <3>7. r = Each(u)
      BY <3>4, <3>5, <3>6, SeqEqual
    <3> QED BY <3>2, <3>7 DEF r
  <2>10. FlattenSeq(Each(u)) = FlattenSeq(Each(b)) \o FlattenSeq(x)
    <3>1. FlattenSeq(x) \in Seq(T)
      BY <2>7, FlattenType
    <3> DEFINE e == Each(b)
               y == FlattenSeq(x)
    <3>2. e \in Seq(Seq(T)) /\ y \in Seq(T) /\ Each(u) = Append(e, y)
      BY <2>9, <3>1
    <3> HIDE DEF e, y
    <3>3. FlattenSeq(Append(e, y)) = FlattenSeq(e) \o y
      BY <3>2, FlattenMore
    <3> QED BY <3>2, <3>3 DEF e, y
  <2> QED BY <2>2, <2>6, <2>8, <2>10
<1>2. s \in Seq(S) /\ Len(s) \in Nat
  BY DEF S
<1> QED BY <1>1, <1>2

-----------------------------------------------------------------------------
(* Bytes in their place *)

\* The bytes c stand in B behind the first p, and a reader stands there.
Sits(c, B, p) == p + Len(c) =< Len(B) /\ \A i \in 1 .. Len(c) : B[p + i] = c[i]
At(B, p)      == [bytes |-> B, at |-> p, ok |-> TRUE]

\* How far the first k of some sequences reach.
Reach(s, k) == Len(FlattenSeq(SubSeq(s, 1, k)))

LEMMA SitsBoth ==
  ASSUME NEW T, NEW B \in Seq(T), NEW p \in Nat, NEW c \in Seq(T), NEW d \in Seq(T)
  PROVE  Sits(c \o d, B, p) <=> Sits(c, B, p) /\ Sits(d, B, p + Len(c))
<1> DEFINE e == c \o d
<1>1. /\ Len(c) \in Nat /\ Len(d) \in Nat /\ Len(B) \in Nat /\ Len(e) = Len(c) + Len(d)
      /\ \A i \in 1 .. Len(c) : e[i] = c[i]
      /\ \A i \in 1 .. Len(d) : e[Len(c) + i] = d[i]
  OBVIOUS
<1> HIDE DEF e
<1>2. ASSUME Sits(e, B, p) PROVE Sits(c, B, p) /\ Sits(d, B, p + Len(c))
  <2>1. p + Len(e) =< Len(B) /\ \A i \in 1 .. Len(e) : B[p + i] = e[i]
    BY <1>2 DEF Sits
  <2>2. \A i \in 1 .. Len(c) : i \in 1 .. Len(e)
    BY <1>1
  <2>3. \A i \in 1 .. Len(c) : B[p + i] = c[i]
    BY <1>1, <2>1, <2>2
  <2>4. \A i \in 1 .. Len(d) : Len(c) + i \in 1 .. Len(e) /\ p + (Len(c) + i) = (p + Len(c)) + i
    BY <1>1
  <2>5. \A i \in 1 .. Len(d) : B[(p + Len(c)) + i] = d[i]
    BY <1>1, <2>1, <2>4
  <2> QED BY <1>1, <2>1, <2>3, <2>5 DEF Sits
<1>3. ASSUME Sits(c, B, p), Sits(d, B, p + Len(c)) PROVE Sits(e, B, p)
  <2>1. p + Len(e) =< Len(B)
    BY <1>1, <1>3 DEF Sits
  <2>2. ASSUME NEW i \in 1 .. Len(e) PROVE B[p + i] = e[i]
    <3>1. CASE i =< Len(c)
      <4>1. i \in 1 .. Len(c)
        BY <1>1, <3>1
      <4> QED BY <1>1, <1>3, <4>1 DEF Sits
    <3>2. CASE ~(i =< Len(c))
      <4> DEFINE j == i - Len(c)
      <4>1. j \in 1 .. Len(d) /\ (p + Len(c)) + j = p + i /\ Len(c) + j = i
        BY <1>1, <3>2
      <4> HIDE DEF j
      <4>2. B[(p + Len(c)) + j] = d[j] /\ e[Len(c) + j] = d[j]
        BY <1>1, <1>3, <4>1 DEF Sits
      <4> QED BY <4>1, <4>2
    <3> QED BY <3>1, <3>2
  <2> QED BY <2>1, <2>2 DEF Sits
<1> QED BY <1>2, <1>3 DEF e

\* A sequence is its beginning and the rest.
LEMMA CutInTwo ==
  ASSUME NEW S, NEW s \in Seq(S), NEW k \in 0 .. Len(s)
  PROVE  LET h == SubSeq(s, 1, k)
             t == SubSeq(s, k + 1, Len(s))
         IN  h \in Seq(S) /\ Len(h) = k /\ t \in Seq(S) /\ s = h \o t
<1> DEFINE n == Len(s)
           h == SubSeq(s, 1, k)
           t == SubSeq(s, k + 1, n)
<1>1. n \in Nat /\ k \in Nat /\ k =< n /\ \A i \in 1 .. n : s[i] \in S
  OBVIOUS
<1>2. h \in Seq(S) /\ Len(h) = k /\ \A i \in 1 .. k : h[i] = s[i]
  BY <1>1
<1>3. t \in Seq(S) /\ Len(t) = n - k /\ \A i \in 1 .. n - k : t[i] = s[k + i]
  BY <1>1
<1> HIDE DEF h, t
<1>4. h \o t \in Seq(S) /\ Len(h \o t) = n
  BY <1>1, <1>2, <1>3, ConcatProperties
<1>5. ASSUME NEW i \in 1 .. n PROVE (h \o t)[i] = s[i]
  <2>1. (h \o t)[i] = IF i =< k THEN h[i] ELSE t[i - k]
    BY <1>1, <1>2, <1>3, ConcatProperties
  <2>2. CASE i =< k
    BY <1>2, <2>1, <2>2
  <2>3. CASE ~(i =< k)
    <3>1. i - k \in 1 .. n - k /\ k + (i - k) = i
      BY <1>1, <2>3
    <3> QED BY <1>3, <2>1, <2>3, <3>1
  <2> QED BY <2>2, <2>3
<1>6. s = h \o t
  BY <1>4, <1>5, SeqEqual
<1> QED BY <1>2, <1>3, <1>6 DEF h, t

\* The first k + 1 of a sequence.
LEMMA FirstMore ==
  ASSUME NEW S, NEW s \in Seq(S), NEW k \in 1 .. Len(s)
  PROVE  SubSeq(s, 1, k) = Append(SubSeq(s, 1, k - 1), s[k])
<1> DEFINE a == SubSeq(s, 1, k)
           b == SubSeq(s, 1, k - 1)
           e == k - 1
<1>1. Len(s) \in Nat /\ k \in Nat /\ e \in Nat /\ e =< Len(s) /\ \A i \in 1 .. Len(s) : s[i] \in S
  OBVIOUS
<1>2. a \in Seq(S) /\ Len(a) = k /\ \A i \in 1 .. k : a[i] = s[i]
  BY <1>1
<1>3. b \in Seq(S) /\ Len(b) = e /\ \A i \in 1 .. e : b[i] = s[i]
  <2> HIDE DEF e
  <2>1. LET h == SubSeq(s, 1, e) IN
        h \in Seq(S) /\ Len(h) = e /\ \A i \in 1 .. e : h[i] = s[i]
    BY <1>1
  <2> QED BY <2>1 DEF e
<1> DEFINE c == Append(b, s[k])
<1>4. s[k] \in S
  BY <1>1
<1> HIDE DEF a, b
<1>5. c \in Seq(S) /\ Len(c) = k /\ c[k] = s[k] /\ \A i \in 1 .. e : c[i] = b[i]
  <2>1. /\ c \in Seq(S) /\ Len(c) = Len(b) + 1 /\ c[Len(b) + 1] = s[k]
        /\ \A i \in 1 .. Len(b) : c[i] = b[i]
    BY <1>3, <1>4, AppendMore
  <2>2. Len(b) + 1 = k
    BY <1>3
  <2> HIDE DEF c
  <2> QED BY <1>3, <2>1, <2>2
<1> HIDE DEF c
<1>6. ASSUME NEW i \in 1 .. k PROVE a[i] = c[i]
  <2>1. i = k \/ i \in 1 .. e
    OBVIOUS
  <2> QED BY <1>2, <1>3, <1>5, <2>1
<1>7. a = c
  BY <1>2, <1>5, <1>6, SeqEqual
<1> QED BY <1>7 DEF a, b, c

\* Each of some sequences sits behind those before it.
LEMMA SitsEach ==
  ASSUME NEW T, NEW B \in Seq(T), NEW p \in Nat, NEW s \in Seq(Seq(T)),
         Sits(FlattenSeq(s), B, p)
  PROVE  /\ Reach(s, 0) = 0 /\ Reach(s, Len(s)) = Len(FlattenSeq(s))
         /\ \A k \in 0 .. Len(s) : Reach(s, k) \in Nat
         /\ \A k \in 1 .. Len(s) : /\ Reach(s, k) = Reach(s, k - 1) + Len(s[k])
                                   /\ Sits(s[k], B, p + Reach(s, k - 1))
<1> DEFINE S == Seq(T)
           n == Len(s)
           H(k) == SubSeq(s, 1, k)
<1>0. n \in Nat /\ \A k \in 1 .. n : s[k] \in S
  OBVIOUS
<1>1. ASSUME NEW k \in 0 .. n
      PROVE  H(k) \in Seq(S) /\ FlattenSeq(H(k)) \in S /\ Sits(FlattenSeq(H(k)), B, p)
  <2> DEFINE t == SubSeq(s, k + 1, n)
  <2>1. H(k) \in Seq(S) /\ t \in Seq(S) /\ s = H(k) \o t
    BY CutInTwo
  <2> HIDE DEF t
  <2> DEFINE h == H(k)
  <2> HIDE DEF h
  <2>2. h \in Seq(Seq(T)) /\ t \in Seq(Seq(T)) /\ s = h \o t
    BY <2>1 DEF h
  <2>3. FlattenSeq(s) = FlattenSeq(h) \o FlattenSeq(t)
    BY <2>2, FlattenBoth
  <2>4. FlattenSeq(h) \in Seq(T) /\ FlattenSeq(t) \in Seq(T)
    BY <2>2, FlattenType
  <2>5. Sits(FlattenSeq(h), B, p)
    BY <2>3, <2>4, SitsBoth
  <2> QED BY <2>1, <2>4, <2>5 DEF h
<1>2. ASSUME NEW k \in 1 .. n
      PROVE  /\ Reach(s, k) = Reach(s, k - 1) + Len(s[k])
             /\ Sits(s[k], B, p + Reach(s, k - 1))
  <2>1. k \in 0 .. n /\ k - 1 \in 0 .. n
    OBVIOUS
  <2> DEFINE h == H(k - 1)
             x == s[k]
  <2>2. H(k) = Append(h, x)
    BY FirstMore
  <2>3. h \in Seq(Seq(T)) /\ x \in Seq(T) /\ FlattenSeq(h) \in Seq(T)
    BY <1>0, <1>1, <2>1
  <2>4. Sits(FlattenSeq(H(k)), B, p)
    BY <1>1, <2>1
  <2> HIDE DEF h, x
  <2>5. FlattenSeq(H(k)) = FlattenSeq(h) \o x
    BY <2>2, <2>3, FlattenMore
  <2>6. Sits(x, B, p + Len(FlattenSeq(h)))
    BY <2>3, <2>4, <2>5, SitsBoth
  <2>7. Len(FlattenSeq(h) \o x) = Len(FlattenSeq(h)) + Len(x)
    BY <2>3
  <2> QED BY <2>5, <2>6, <2>7 DEF Reach, h, x
<1>3. H(0) = <<>> /\ Len(<<>>) = 0
  <2>1. H(0) \in Seq(S) /\ Len(H(0)) = 0
    BY <1>0, CutInTwo
  <2> QED BY <2>1
<1>4. H(n) = s
  OBVIOUS
<1>5. \A k \in 0 .. n : Reach(s, k) \in Nat
  <2>1. \A k \in 0 .. n : FlattenSeq(H(k)) \in Seq(T)
    BY <1>1
  <2>2. \A c \in Seq(T) : Len(c) \in Nat
    OBVIOUS
  <2> QED BY <2>1, <2>2 DEF Reach
<1> QED BY <1>2, <1>3, <1>4, <1>5, FlattenEmpty DEF Reach

-----------------------------------------------------------------------------
(* Numbers *)

Adding(bytes, f) ==
  f = [k \in 0 .. Len(bytes) |-> IF k = 0 THEN 0 ELSE f[k - 1] + bytes[k] * 256 ^ (k - 1)]

LEMMA NumberIs ==
  ASSUME NEW bytes, NEW f, Adding(bytes, f)
  PROVE  \E g : Adding(bytes, g) /\ Number(bytes) = g[Len(bytes)]
<1> DEFINE c == CHOOSE g : Adding(bytes, g)
<1>1. Adding(bytes, c)
  OBVIOUS
<1>2. Number(bytes) = c[Len(bytes)]
  BY DEF Number, Adding
<1> HIDE DEF c
<1> QED BY <1>1, <1>2

LEMMA NumberOne ==
  ASSUME NEW a \in Byte
  PROVE  Number(<<a>>) = a
<1> DEFINE f == [k \in 0 .. 1 |-> IF k = 0 THEN 0 ELSE 0 + a * 256 ^ 0]
<1>1. \A k \in 0 .. 1 : f[k] = IF k = 0 THEN 0 ELSE f[k - 1] + <<a>>[k] * 256 ^ (k - 1)
  <2>1. f[0] = 0 /\ f[1] = 0 + a * 256 ^ 0
    OBVIOUS
  <2>2. \A k \in 0 .. 1 : k = 0 \/ k = 1
    OBVIOUS
  <2>3. f[1] = f[1 - 1] + <<a>>[1] * 256 ^ (1 - 1)
    BY <2>1
  <2> HIDE DEF f
  <2> QED BY ZenonT(60), <2>1, <2>2, <2>3
<1>2. f = [k \in 0 .. 1 |-> f[k]]
  OBVIOUS
<1> HIDE DEF f
<1>3. Len(<<a>>) = 1
  OBVIOUS
<1>4. Adding(<<a>>, f)
  BY <1>1, <1>2, <1>3 DEF Adding
<1>5. PICK g : Adding(<<a>>, g) /\ Number(<<a>>) = g[1]
  BY <1>3, <1>4, NumberIs
<1>6. \A k \in 0 .. 1 : g[k] = IF k = 0 THEN 0 ELSE g[k - 1] + <<a>>[k] * 256 ^ (k - 1)
  BY <1>3, <1>5 DEF Adding
<1>7. g[0] = 0 /\ g[1] = g[0] + <<a>>[1] * 256 ^ 0
  BY <1>6
<1> QED BY <1>5, <1>7 DEF Byte

LEMMA NumberTwo ==
  ASSUME NEW a \in Byte, NEW b \in Byte
  PROVE  Number(<<a, b>>) = a + 256 * b
<1> DEFINE s == <<a, b>>
           f == [k \in 0 .. 2 |-> IF k = 0 THEN 0
                                  ELSE IF k = 1 THEN a ELSE a + 256 * b]
<1>1. Len(s) = 2 /\ s[1] = a /\ s[2] = b
  OBVIOUS
<1> HIDE DEF s
<1>2. 256 ^ 0 = 1 /\ 256 ^ 1 = 256
  OBVIOUS
<1>3. f[0] = 0 /\ f[1] = a /\ f[2] = a + 256 * b /\ f = [k \in 0 .. 2 |-> f[k]]
  OBVIOUS
<1> HIDE DEF f
<1>4. \A k \in 0 .. 2 : f[k] = IF k = 0 THEN 0 ELSE f[k - 1] + s[k] * 256 ^ (k - 1)
  <2>1. f[1] = f[1 - 1] + s[1] * 256 ^ (1 - 1)
    BY <1>1, <1>2, <1>3 DEF Byte
  <2>2. f[2] = f[2 - 1] + s[2] * 256 ^ (2 - 1)
    BY <1>1, <1>2, <1>3 DEF Byte
  <2>3. \A k \in 0 .. 2 : k = 0 \/ k = 1 \/ k = 2
    OBVIOUS
  <2> QED BY ZenonT(60), <1>3, <2>1, <2>2, <2>3
<1>5. Adding(s, f)
  BY <1>1, <1>3, <1>4 DEF Adding
<1>6. PICK g : Adding(s, g) /\ Number(s) = g[2]
  BY <1>1, <1>5, NumberIs
<1>7. \A k \in 0 .. 2 : g[k] = IF k = 0 THEN 0 ELSE g[k - 1] + s[k] * 256 ^ (k - 1)
  BY <1>1, <1>6 DEF Adding
<1>8. g[0] = 0 /\ g[1] = g[0] + s[1] * 256 ^ 0 /\ g[2] = g[1] + s[2] * 256 ^ 1
  BY <1>7
<1>9. g[2] = a + 256 * b
  BY <1>1, <1>2, <1>8 DEF Byte
<1> QED BY <1>6, <1>9 DEF s

LEMMA NumberFour ==
  ASSUME NEW a \in Byte, NEW b \in Byte, NEW c \in Byte, NEW d \in Byte
  PROVE  Number(<<a, b, c, d>>) = a + 256 * b + 65536 * c + (65536 * 256) * d
<1> DEFINE s == <<a, b, c, d>>
           N2 == a + 256 * b
           N3 == N2 + 65536 * c
           N4 == N3 + (65536 * 256) * d
           f == [k \in 0 .. 4 |->
                   IF k = 0 THEN 0 ELSE IF k = 1 THEN a ELSE IF k = 2 THEN N2
                   ELSE IF k = 3 THEN N3 ELSE N4]
<1>1. Len(s) = 4 /\ s[1] = a /\ s[2] = b /\ s[3] = c /\ s[4] = d
  OBVIOUS
<1> HIDE DEF s
<1>2. /\ 0 + a * 256 ^ 0 = a /\ a + b * 256 ^ 1 = N2 /\ N2 + c * 256 ^ 2 = N3
      /\ N3 + d * 256 ^ 3 = N4
  <2>1. a \in Int /\ b \in Int /\ c \in Int /\ d \in Int
    BY SMT DEF Byte
  <2>2. 256 ^ 0 = 1 /\ 256 ^ 1 = 256 /\ 256 ^ 2 = 65536 /\ 256 ^ 3 = 65536 * 256
    BY SMT
  <2> QED BY <2>1, <2>2, SMT
<1> HIDE DEF N2, N3, N4
<1>3. /\ f[0] = 0 /\ f[1] = a /\ f[2] = N2 /\ f[3] = N3 /\ f[4] = N4
      /\ f = [k \in 0 .. 4 |-> f[k]]
  OBVIOUS
<1> HIDE DEF f
<1>4. \A k \in 0 .. 4 : f[k] = IF k = 0 THEN 0 ELSE f[k - 1] + s[k] * 256 ^ (k - 1)
  <2>1. f[1] = f[1 - 1] + s[1] * 256 ^ (1 - 1)
    BY <1>1, <1>2, <1>3
  <2>2. f[2] = f[2 - 1] + s[2] * 256 ^ (2 - 1)
    BY <1>1, <1>2, <1>3
  <2>3. f[3] = f[3 - 1] + s[3] * 256 ^ (3 - 1)
    BY <1>1, <1>2, <1>3
  <2>4. f[4] = f[4 - 1] + s[4] * 256 ^ (4 - 1)
    BY <1>1, <1>2, <1>3
  <2>5. ASSUME NEW k \in 0 .. 4
        PROVE  f[k] = IF k = 0 THEN 0 ELSE f[k - 1] + s[k] * 256 ^ (k - 1)
    <3>1. k = 0 \/ k = 1 \/ k = 2 \/ k = 3 \/ k = 4
      OBVIOUS
    <3>2. CASE k = 0
      BY <1>3, <3>2
    <3>3. CASE k = 1
      BY <2>1, <3>3
    <3>4. CASE k = 2
      BY <2>2, <3>4
    <3>5. CASE k = 3
      BY <2>3, <3>5
    <3>6. CASE k = 4
      BY <2>4, <3>6
    <3> QED BY <3>1, <3>2, <3>3, <3>4, <3>5, <3>6
  <2> QED BY <2>5
<1>5. Adding(s, f)
  BY <1>1, <1>3, <1>4 DEF Adding
<1>6. PICK g : Adding(s, g) /\ Number(s) = g[4]
  <2>1. \E g : Adding(s, g) /\ Number(s) = g[Len(s)]
    BY <1>5, NumberIs
  <2> QED BY <1>1, <2>1
<1>7. \A k \in 0 .. 4 : g[k] = IF k = 0 THEN 0 ELSE g[k - 1] + s[k] * 256 ^ (k - 1)
  <2>1. g = [k \in 0 .. 4 |-> IF k = 0 THEN 0 ELSE g[k - 1] + s[k] * 256 ^ (k - 1)]
    BY <1>1, <1>6 DEF Adding
  <2> QED BY <2>1
<1>8. /\ g[0] = 0 /\ g[1] = g[0] + s[1] * 256 ^ 0 /\ g[2] = g[1] + s[2] * 256 ^ 1
      /\ g[3] = g[2] + s[3] * 256 ^ 2 /\ g[4] = g[3] + s[4] * 256 ^ 3
  BY <1>7
<1>9. g[4] = N4
  BY <1>1, <1>2, <1>8
<1> QED BY <1>6, <1>9 DEF s, N2, N3, N4

LEMMA SeqOfFunction ==
  ASSUME NEW S, NEW n \in Nat, NEW t \in [1 .. n -> S]
  PROVE  t \in Seq(S) /\ Len(t) = n
  OBVIOUS

\* A half is a number below two to the sixteenth.
LEMMA FullHalf == 65535 \in Nat
  BY SMT

LEMMA HalfIsRange == Half = 0 .. 65535
  BY DEF Half

LEMMA HalfHas ==
  ASSUME NEW n \in Half
  PROVE  n \in Nat /\ n \in Int /\ n >= 0 /\ n =< 65535
<1> DEFINE b == 65535
<1>1. b \in Nat
  BY ONLY FullHalf, PTL
<1>2. Half = 0 .. b
  BY ONLY HalfIsRange, PTL
<1> HIDE DEF b
<1>3. n \in Nat /\ n \in Int /\ n >= 0 /\ n =< b
  BY SMTT(30), <1>1, <1>2
<1> QED BY ONLY <1>3, PTL DEF b

\* Two bytes and four hold every number of as many, and it is read back.
LEMMA LittleTwo ==
  ASSUME NEW n \in Half
  PROVE  Little(n, 2) \in Seq(Byte) /\ Len(Little(n, 2)) = 2 /\ Number(Little(n, 2)) = n
<1> DEFINE q == n \div 256
           a == n % 256
           b == q % 256
<1>0. n \in Int /\ n >= 0 /\ n =< 65535
  BY HalfHas
<1>1. a \in Byte /\ b \in Byte /\ n = a + 256 * b
  <2>1. q \in Int /\ a \in Int /\ a >= 0 /\ a =< 255 /\ n = 256 * q + a
    BY <1>0, SMT
  <2> HIDE DEF q, a
  <2>2. q >= 0 /\ q =< 255
    BY <1>0, <2>1, SMT
  <2>3. q % 256 = q
    BY <2>1, <2>2, SMT
  <2> QED BY <2>1, <2>2, <2>3, SMT DEF Byte
<1>2. Little(n, 2) = <<a, b>>
  <2> DEFINE t == Little(n, 2)
  <2>1. t = [k \in 1 .. 2 |-> (n \div 256 ^ (k - 1)) % 256]
    BY DEF Little
  <2>2. t[1] = (n \div 256 ^ 0) % 256 /\ t[2] = (n \div 256 ^ 1) % 256
    BY <2>1
  <2>3. 256 ^ 0 = 1 /\ 256 ^ 1 = 256 /\ n \div 1 = n
    BY <1>0, SMT
  <2>4. t[1] = a /\ t[2] = b
    BY <2>2, <2>3
  <2> HIDE DEF t, a, b
  <2>5. t \in Seq({a, b}) /\ Len(t) = 2
    <3>1. \A k \in 1 .. 2 : t[k] \in {a, b}
      BY <2>4
    <3>2. t \in [1 .. 2 -> {a, b}]
      BY <2>1, <3>1
    <3> QED BY <3>2, 2 \in Nat, SeqOfFunction
  <2>6. t = <<a, b>>
    BY <2>4, <2>5
  <2> QED BY <2>6 DEF t
<1> HIDE DEF a, b
<1>3. <<a, b>> \in Seq(Byte) /\ Len(<<a, b>>) = 2
  BY <1>1
<1> QED BY ONLY ZenonT(60), <1>1, <1>2, <1>3, NumberTwo

LEMMA LittleFour ==
  ASSUME NEW n \in Word
  PROVE  Little(n, 4) \in Seq(Byte) /\ Len(Little(n, 4)) = 4 /\ Number(Little(n, 4)) = n
<1> DEFINE p == n \div 256
           q == n \div 65536
           r == n \div (65536 * 256)
           a == n % 256
           b == p % 256
           c == q % 256
           d == r % 256
<1>0. n \in Int /\ n >= 0
  BY SMT DEF Word
<1>1. a \in Byte /\ b \in Byte /\ c \in Byte /\ d \in Byte
  BY <1>0, SMT DEF Byte
<1>2. n = a + 256 * b + 65536 * c + (65536 * 256) * d
  <2>1. /\ p \in Int /\ q \in Int /\ r \in Int /\ a \in Int /\ b \in Int /\ c \in Int
        /\ a >= 0 /\ a =< 255 /\ b >= 0 /\ b =< 255 /\ c >= 0 /\ c =< 255
    BY <1>0, SMT
  <2>2. n = 256 * p + a
    BY <1>0, SMT
  <2>3. p = 256 * q + b
    BY <1>0, SMT
  <2>4. q = 256 * r + c
    BY <1>0, SMT
  <2>7. q < 65536
    BY DEF Word
  <2>8. r >= 0
    BY <1>0, SMT
  <2> HIDE DEF p, q, r, a, b, c
  <2>5. r >= 0 /\ r =< 255
    BY <2>1, <2>4, <2>7, <2>8, SMT
  <2>6. r % 256 = r
    BY <2>1, <2>5, SMT
  <2> QED BY <2>1, <2>2, <2>3, <2>4, <2>6, SMT
<1>3. Little(n, 4) = <<a, b, c, d>>
  <2> DEFINE t == Little(n, 4)
  <2>1. t = [k \in 1 .. 4 |-> (n \div 256 ^ (k - 1)) % 256]
    BY DEF Little
  <2>2. /\ t[1] = (n \div 256 ^ 0) % 256 /\ t[2] = (n \div 256 ^ 1) % 256
        /\ t[3] = (n \div 256 ^ 2) % 256 /\ t[4] = (n \div 256 ^ 3) % 256
    BY <2>1
  <2>3. /\ 256 ^ 0 = 1 /\ 256 ^ 1 = 256 /\ 256 ^ 2 = 65536 /\ 256 ^ 3 = 65536 * 256
        /\ n \div 1 = n
    BY <1>0, SMT
  <2>4. t[1] = a /\ t[2] = b /\ t[3] = c /\ t[4] = d
    BY <2>2, <2>3
  <2> DEFINE D == {a, b, c, d}
  <2> HIDE DEF t, a, b, c, d
  <2>5. t \in Seq(D) /\ Len(t) = 4
    <3>1. t[1] \in D /\ t[2] \in D /\ t[3] \in D /\ t[4] \in D
      BY <2>4
    <3> HIDE DEF D
    <3>2. \A k \in 1 .. 4 : t[k] \in D
      BY <3>1
    <3>3. t \in [1 .. 4 -> D]
      BY <2>1, <3>2
    <3> QED BY <3>3, 4 \in Nat, SeqOfFunction
  <2>6. t = <<a, b, c, d>>
    BY <2>4, <2>5
  <2> QED BY <2>6 DEF t
<1> HIDE DEF a, b, c, d
<1>4. <<a, b, c, d>> \in Seq(Byte) /\ Len(<<a, b, c, d>>) = 4
  BY <1>1
<1>5. Number(<<a, b, c, d>>) = n
  BY <1>1, <1>2, NumberFour
<1> QED BY <1>3, <1>4, <1>5

-----------------------------------------------------------------------------
(* What one field is, how it is spelt and how it is read *)

\* A value as a port has it: a number of four bytes, a text of a limited length.
LEMMA ValueIs ==
  ASSUME NEW v
  PROVE  IsValue(v) <=> \/ v = Null
                        \/ \E n \in {0, 1} : v = Bool(n)
                        \/ \E n \in Word : v \in {Float(n), [type |-> "Int", n |-> n]}
                        \/ \E text \in Seq(Byte) : IsText(text, MaxText) /\ v = Text(text)
<1> DEFINE B == Seq(Byte)
<1>1. v \in [type : {"Float", "Int"}, n : Word]
        <=> \E n \in Word : v \in {Float(n), [type |-> "Int", n |-> n]}
  BY DEF Float
<1>2. v \in [type : {"String"}, text : B] /\ IsText(v.text, MaxText)
        <=> \E text \in B : IsText(text, MaxText) /\ v = Text(text)
  <2> HIDE DEF B
  <2> QED BY DEF Text
<1>3. v \in {Null, Bool(0), Bool(1)} <=> v = Null \/ \E n \in {0, 1} : v = Bool(n)
  OBVIOUS
<1> QED BY <1>1, <1>2, <1>3 DEF IsValue

\* One end of a link.
LEMMA RefIs ==
  ASSUME NEW v
  PROVE  IsRef(v) <=>
           \E path \in Seq(1 .. 254), class \in DOMAIN ClassCode, inst \in Byte, port \in Byte :
             /\ Len(path) =< MaxDepth
             /\ v = [path |-> path, class |-> class, inst |-> inst, port |-> port]
<1> DEFINE P == Seq(1 .. 254)
           C == DOMAIN ClassCode
           Made(path, class, inst, port) ==
             [path |-> path, class |-> class, inst |-> inst, port |-> port]
<1>1. ASSUME IsRef(v)
      PROVE  \E path \in P, class \in C, inst \in Byte, port \in Byte :
               Len(path) =< MaxDepth /\ v = Made(path, class, inst, port)
  <2>1. v \in [path : P, class : C, inst : Byte, port : Byte] /\ Len(v.path) =< MaxDepth
    BY <1>1 DEF IsRef
  <2> HIDE DEF P, C
  <2>2. v = Made(v.path, v.class, v.inst, v.port)
    BY <2>1
  <2> HIDE DEF Made
  <2> QED BY <2>1, <2>2
<1>2. ASSUME NEW path \in P, NEW class \in C, NEW inst \in Byte, NEW port \in Byte,
             Len(path) =< MaxDepth, v = Made(path, class, inst, port)
      PROVE  IsRef(v)
  <2> HIDE DEF P, C
  <2>1. v \in [path : P, class : C, inst : Byte, port : Byte] /\ v.path = path
    BY <1>2
  <2> QED BY <1>2, <2>1 DEF IsRef, P, C
<1> QED BY <1>1, <1>2

Kinds == {"u8", "u16", "class", "result", "valueType", "key", "mac", "name", "ssid", "pass",
          "url", "value", "ref"}

\* A name is cut to what its reader has room for; everything else is as it was.
AsRead(kind, v, limit) == IF kind = "name" THEN Cut(v, limit) ELSE v

Spelt(kind, v, limit) == FlattenSeq(Chunks(kind, v, limit))

LEMMA AppendOne ==
  ASSUME NEW S, NEW a \in S
  PROVE  Append(<<>>, a) = <<a>> /\ <<a>> \in Seq(S)
<1> DEFINE s == <<>>
           t == Append(s, a)
<1>1. s \in Seq(S)
  OBVIOUS
<1>2. Len(s) = 0
  OBVIOUS
<1>3. <<a>> \in Seq(S)
  OBVIOUS
<1> HIDE DEF s
<1>4. /\ t \in Seq(S) /\ Len(t) = Len(s) + 1 /\ t[Len(s) + 1] = a
      /\ \A k \in 1 .. Len(s) : t[k] = s[k]
  BY <1>1, AppendMore
<1> HIDE DEF t
<1>5. t \in Seq(S) /\ Len(t) = 1
  BY <1>2, <1>4
<1>6. t[1] = a
  BY <1>2, <1>4
<1>7. t = <<a>>
  BY <1>5, <1>6
<1> QED BY <1>3, <1>7 DEF s, t

LEMMA AppendTwo ==
  ASSUME NEW S, NEW a \in S, NEW b \in S
  PROVE  Append(<<a>>, b) = <<a, b>> /\ <<a, b>> \in Seq(S)
<1> DEFINE s == <<a>>
           t == Append(s, b)
<1>1. s \in Seq(S)
  OBVIOUS
<1>2. Len(s) = 1 /\ s[1] = a
  OBVIOUS
<1>3. <<a, b>> \in Seq(S)
  OBVIOUS
<1> HIDE DEF s
<1>4. /\ t \in Seq(S) /\ Len(t) = Len(s) + 1 /\ t[Len(s) + 1] = b
      /\ \A k \in 1 .. Len(s) : t[k] = s[k]
  BY <1>1, AppendMore
<1> HIDE DEF t
<1>5. t \in Seq(S) /\ Len(t) = 2
  BY <1>2, <1>4
<1>6. t[1] = a /\ t[2] = b
  BY <1>2, <1>4
<1>7. t = <<a, b>>
  BY <1>5, <1>6
<1> QED BY <1>3, <1>7 DEF s, t

LEMMA AppendThree ==
  ASSUME NEW S, NEW a \in S, NEW b \in S, NEW c \in S
  PROVE  Append(<<a, b>>, c) = <<a, b, c>> /\ <<a, b, c>> \in Seq(S)
<1> DEFINE s == <<a, b>>
           t == Append(s, c)
<1>1. s \in Seq(S)
  OBVIOUS
<1>2. Len(s) = 2 /\ s[1] = a /\ s[2] = b
  OBVIOUS
<1>3. <<a, b, c>> \in Seq(S)
  OBVIOUS
<1> HIDE DEF s
<1>4. /\ t \in Seq(S) /\ Len(t) = Len(s) + 1 /\ t[Len(s) + 1] = c
      /\ \A k \in 1 .. Len(s) : t[k] = s[k]
  BY <1>1, AppendMore
<1> HIDE DEF t
<1>5. t \in Seq(S) /\ Len(t) = 3
  BY <1>2, <1>4
<1>6. t[1] = a /\ t[2] = b /\ t[3] = c
  BY <1>2, <1>4
<1>7. t = <<a, b, c>>
  BY <1>5, <1>6
<1> QED BY <1>3, <1>7 DEF s, t

LEMMA AppendFour ==
  ASSUME NEW S, NEW a \in S, NEW b \in S, NEW c \in S, NEW d \in S
  PROVE  Append(<<a, b, c>>, d) = <<a, b, c, d>> /\ <<a, b, c, d>> \in Seq(S)
<1> DEFINE s == <<a, b, c>>
           t == Append(s, d)
<1>1. s \in Seq(S)
  OBVIOUS
<1>2. Len(s) = 3 /\ s[1] = a /\ s[2] = b /\ s[3] = c
  OBVIOUS
<1>3. <<a, b, c, d>> \in Seq(S)
  OBVIOUS
<1> HIDE DEF s
<1>4. /\ t \in Seq(S) /\ Len(t) = Len(s) + 1 /\ t[Len(s) + 1] = d
      /\ \A k \in 1 .. Len(s) : t[k] = s[k]
  BY <1>1, AppendMore
<1> HIDE DEF t
<1>5. t \in Seq(S) /\ Len(t) = 4
  BY <1>2, <1>4
<1>6. t[1] = a /\ t[2] = b /\ t[3] = c /\ t[4] = d
  BY <1>2, <1>4
<1>7. t = <<a, b, c, d>>
  BY <1>5, <1>6
<1> QED BY <1>3, <1>7 DEF s, t

LEMMA AppendFive ==
  ASSUME NEW S, NEW a \in S, NEW b \in S, NEW c \in S, NEW d \in S, NEW e \in S
  PROVE  Append(<<a, b, c, d>>, e) = <<a, b, c, d, e>> /\ <<a, b, c, d, e>> \in Seq(S)
<1> DEFINE s == <<a, b, c, d>>
           t == Append(s, e)
<1>1. s \in Seq(S)
  OBVIOUS
<1>2. Len(s) = 4 /\ s[1] = a /\ s[2] = b /\ s[3] = c /\ s[4] = d
  OBVIOUS
<1>3. <<a, b, c, d, e>> \in Seq(S)
  OBVIOUS
<1> HIDE DEF s
<1>4. /\ t \in Seq(S) /\ Len(t) = Len(s) + 1 /\ t[Len(s) + 1] = e
      /\ \A k \in 1 .. Len(s) : t[k] = s[k]
  BY <1>1, AppendMore
<1> HIDE DEF t
<1>5. t \in Seq(S) /\ Len(t) = 5
  BY <1>2, <1>4
<1>6. t[1] = a /\ t[2] = b /\ t[3] = c /\ t[4] = d /\ t[5] = e
  BY <1>2, <1>4
<1>7. t = <<a, b, c, d, e>>
  BY <1>5, <1>6
<1> QED BY <1>3, <1>7 DEF s, t

\* A few sequences, one after the other.
IsFlat(T, s, f) == s \in Seq(Seq(T)) /\ FlattenSeq(s) = f

LEMMA FlatAppend ==
  ASSUME NEW T, NEW s, NEW f, IsFlat(T, s, f), NEW x \in Seq(T), NEW t, t = Append(s, x),
         t \in Seq(Seq(T))
  PROVE  IsFlat(T, t, f \o x)
  BY FlattenMore DEF IsFlat

LEMMA FlattenOne ==
  ASSUME NEW T, NEW a \in Seq(T)
  PROVE  IsFlat(T, <<a>>, a)
<1> DEFINE S == Seq(T)
<1>1. a \in S
  OBVIOUS
<1> HIDE DEF S
<1>2. Append(<<>>, a) = <<a>> /\ <<a>> \in Seq(S)
  BY <1>1, AppendOne
<1>3. IsFlat(T, <<>>, <<>>)
  BY FlattenEmpty DEF IsFlat
<1>4. IsFlat(T, <<a>>, <<>> \o a)
  BY <1>2, <1>3, FlatAppend DEF S
<1> QED BY <1>1, <1>4 DEF S

LEMMA FlattenTwo ==
  ASSUME NEW T, NEW a \in Seq(T), NEW b \in Seq(T)
  PROVE  IsFlat(T, <<a, b>>, a \o b)
<1> DEFINE S == Seq(T)
<1>1. a \in S /\ b \in S
  OBVIOUS
<1> HIDE DEF S
<1>2. Append(<<a>>, b) = <<a, b>> /\ <<a, b>> \in Seq(S)
  BY <1>1, AppendTwo
<1>3. IsFlat(T, <<a>>, a)
  BY FlattenOne
<1>4. IsFlat(T, <<a, b>>, a \o b)
  BY <1>2, <1>3, FlatAppend DEF S
<1> QED BY <1>4

LEMMA FlattenThree ==
  ASSUME NEW T, NEW a \in Seq(T), NEW b \in Seq(T), NEW c \in Seq(T)
  PROVE  IsFlat(T, <<a, b, c>>, (a \o b) \o c)
<1> DEFINE S == Seq(T)
<1>1. a \in S /\ b \in S /\ c \in S
  OBVIOUS
<1> HIDE DEF S
<1>2. Append(<<a, b>>, c) = <<a, b, c>> /\ <<a, b, c>> \in Seq(S)
  BY <1>1, AppendThree
<1>3. IsFlat(T, <<a, b>>, a \o b)
  BY FlattenTwo
<1>4. IsFlat(T, <<a, b, c>>, (a \o b) \o c)
  BY <1>2, <1>3, FlatAppend DEF S
<1> QED BY <1>4

LEMMA FlattenFour ==
  ASSUME NEW T, NEW a \in Seq(T), NEW b \in Seq(T), NEW c \in Seq(T), NEW d \in Seq(T)
  PROVE  IsFlat(T, <<a, b, c, d>>, ((a \o b) \o c) \o d)
<1> DEFINE S == Seq(T)
<1>1. a \in S /\ b \in S /\ c \in S /\ d \in S
  OBVIOUS
<1> HIDE DEF S
<1>2. Append(<<a, b, c>>, d) = <<a, b, c, d>> /\ <<a, b, c, d>> \in Seq(S)
  BY <1>1, AppendFour
<1>3. IsFlat(T, <<a, b, c>>, (a \o b) \o c)
  BY FlattenThree
<1>4. IsFlat(T, <<a, b, c, d>>, ((a \o b) \o c) \o d)
  BY <1>2, <1>3, FlatAppend DEF S
<1> QED BY <1>4

LEMMA FlattenFive ==
  ASSUME NEW T, NEW a \in Seq(T), NEW b \in Seq(T), NEW c \in Seq(T), NEW d \in Seq(T),
         NEW e \in Seq(T)
  PROVE  IsFlat(T, <<a, b, c, d, e>>, (((a \o b) \o c) \o d) \o e)
<1> DEFINE S == Seq(T)
<1>1. a \in S /\ b \in S /\ c \in S /\ d \in S /\ e \in S
  OBVIOUS
<1> HIDE DEF S
<1>2. Append(<<a, b, c, d>>, e) = <<a, b, c, d, e>> /\ <<a, b, c, d, e>> \in Seq(S)
  BY <1>1, AppendFive
<1>3. IsFlat(T, <<a, b, c, d>>, ((a \o b) \o c) \o d)
  BY FlattenFour
<1>4. IsFlat(T, <<a, b, c, d, e>>, (((a \o b) \o c) \o d) \o e)
  BY <1>2, <1>3, FlatAppend DEF S
<1> QED BY <1>4

LEMMA ByteIs ==
  ASSUME NEW n \in Nat, n =< 255
  PROVE  n \in Byte
  BY DEF Byte

LEMMA CutWhole ==
  ASSUME NEW v, NEW limit, IsText(v, limit)
  PROVE  Cut(v, limit) = v
<1>1. v \in Seq(Byte) /\ SafeLength(v, limit) = Len(v)
  BY DEF IsText, SafeLength
<1>2. SubSeq(v, 1, Len(v)) = v
  BY <1>1
<1> QED BY <1>1, <1>2 DEF Cut

LEMMA GetSitting ==
  ASSUME NEW B \in Seq(Byte), NEW p \in Nat, NEW c \in Seq(Byte), Sits(c, B, p)
  PROVE  GetBytes(At(B, p), Len(c)) = [r |-> At(B, p + Len(c)), v |-> c]
<1> DEFINE r == At(B, p)
           n == Len(c)
<1>1. n \in Nat /\ Len(B) \in Nat /\ p + n =< Len(B) /\ \A i \in 1 .. n : B[p + i] = c[i]
  BY DEF Sits
<1>2. r.ok /\ r.bytes = B /\ r.at = p /\ Remaining(r) = Len(B) - p
  BY DEF At, Remaining
<1>3. n =< Remaining(r)
  BY <1>1, <1>2
<1>4. [r EXCEPT !.at = @ + n] = At(B, p + n)
  <2>1. \A t, m : [[bytes |-> B, at |-> p, ok |-> t] EXCEPT !.at = m]
                      = [bytes |-> B, at |-> m, ok |-> t]
    OBVIOUS
  <2>2. r.at = p
    BY DEF At
  <2>3. [r EXCEPT !.at = p + n] = At(B, p + n)
    BY <2>1, Zenon DEF At
  <2> QED BY <2>2, <2>3
<1>5. SubSeq(B, p + 1, p + n) = c
  <2> DEFINE t == SubSeq(B, p + 1, p + n)
  <2>1. t \in Seq(Byte) /\ Len(t) = n /\ \A i \in 1 .. n : t[i] = B[p + i]
    BY <1>1
  <2> HIDE DEF t
  <2>2. \A i \in 1 .. n : t[i] = c[i]
    BY <1>1, <2>1
  <2>3. t = c
    BY <2>1, <2>2, SeqEqual
  <2> QED BY <2>3 DEF t
<1> HIDE DEF r, n
<1>6. GetBytes(r, n) = [r |-> [r EXCEPT !.at = @ + n], v |-> SubSeq(r.bytes, r.at + 1, r.at + n)]
  BY <1>2, <1>3 DEF GetBytes
<1>7. GetBytes(r, n) = [r |-> At(B, p + n), v |-> c]
  BY <1>2, <1>4, <1>5, <1>6
<1> QED BY <1>7 DEF r, n

LEMMA GetOne ==
  ASSUME NEW B \in Seq(Byte), NEW p \in Nat, NEW a \in Byte, Sits(<<a>>, B, p)
  PROVE  GetNumber(At(B, p), 1) = [r |-> At(B, p + 1), v |-> a]
<1>1. <<a>> \in Seq(Byte) /\ Len(<<a>>) = 1
  OBVIOUS
<1>2. GetBytes(At(B, p), 1) = [r |-> At(B, p + 1), v |-> <<a>>]
  BY <1>1, GetSitting
<1>3. Number(<<a>>) = a
  BY NumberOne
<1> QED BY <1>2, <1>3 DEF GetNumber

LEMMA GetTwo ==
  ASSUME NEW B \in Seq(Byte), NEW p \in Nat, NEW n \in Half, Sits(Little(n, 2), B, p)
  PROVE  GetNumber(At(B, p), 2) = [r |-> At(B, p + 2), v |-> n]
<1>1. Little(n, 2) \in Seq(Byte) /\ Len(Little(n, 2)) = 2 /\ Number(Little(n, 2)) = n
  BY LittleTwo
<1>2. GetBytes(At(B, p), 2) = [r |-> At(B, p + 2), v |-> Little(n, 2)]
  BY ZenonT(60), <1>1, GetSitting
<1> QED BY <1>1, <1>2 DEF GetNumber

LEMMA GetFour ==
  ASSUME NEW B \in Seq(Byte), NEW p \in Nat, NEW n \in Word, Sits(Little(n, 4), B, p)
  PROVE  GetNumber(At(B, p), 4) = [r |-> At(B, p + 4), v |-> n]
<1>1. Little(n, 4) \in Seq(Byte) /\ Len(Little(n, 4)) = 4 /\ Number(Little(n, 4)) = n
  BY LittleFour
<1>2. GetBytes(At(B, p), 4) = [r |-> At(B, p + 4), v |-> Little(n, 4)]
  BY ZenonT(60), <1>1, GetSitting
<1> QED BY <1>1, <1>2 DEF GetNumber

LEMMA TextSpelt ==
  ASSUME NEW v, NEW limit, IsText(v, limit)
  PROVE  /\ TextChunks(v, limit) \in Seq(Seq(Byte))
         /\ FlattenSeq(TextChunks(v, limit)) = <<Len(v)>> \o v
         /\ Len(<<Len(v)>> \o v) = 1 + Len(v) /\ Len(v) \in Byte /\ v \in Seq(Byte)
<1>1. v \in Seq(Byte) /\ Len(v) \in Byte
  <2>1. v \in Seq(Byte) /\ Len(v) =< 255
    BY DEF IsText
  <2>2. Len(v) \in Nat
    BY <2>1
  <2>3. Len(v) \in Byte
    <3>1. Len(v) =< 255
      BY <2>1
    <3> QED BY <2>2, <3>1, ByteIs
  <2> QED BY <2>1, <2>3
<1>2. <<Len(v)>> \in Seq(Byte) /\ Len(<<Len(v)>>) = 1
  BY <1>1
<1>3. <<Len(v)>> \o v \in Seq(Byte) /\ Len(<<Len(v)>> \o v) = 1 + Len(v)
  BY <1>1, <1>2, ConcatProperties
<1>4. TextChunks(v, limit) = << <<Len(v)>> \o v >>
  BY CutWhole DEF TextChunks
<1>5. IsFlat(Byte, << <<Len(v)>> \o v >>, <<Len(v)>> \o v)
  BY <1>3, FlattenOne
<1> QED BY <1>1, <1>3, <1>4, <1>5 DEF IsFlat

\* A text written within one limit is read within another.
LEMMA GetTextSitting ==
  ASSUME NEW B \in Seq(Byte), NEW p \in Nat, NEW v, NEW limit, NEW room, IsText(v, limit),
         Sits(<<Len(v)>> \o v, B, p)
  PROVE  GetText(At(B, p), room) = [r |-> At(B, p + (1 + Len(v))), v |-> Cut(v, room)]
<1>1. Len(v) \in Byte /\ v \in Seq(Byte) /\ Len(v) \in Nat
  <2>1. Len(v) \in Byte /\ v \in Seq(Byte)
    BY TextSpelt
  <2> QED BY ONLY <2>1
<1>2. <<Len(v)>> \in Seq(Byte) /\ Len(<<Len(v)>>) = 1
  BY <1>1
<1>3. Sits(<<Len(v)>>, B, p) /\ Sits(v, B, p + 1)
  <2>1. Sits(<<Len(v)>>, B, p) /\ Sits(v, B, p + Len(<<Len(v)>>))
    BY <1>1, <1>2, SitsBoth
  <2> QED BY <1>2, <2>1
<1>4. GetNumber(At(B, p), 1) = [r |-> At(B, p + 1), v |-> Len(v)]
  BY <1>1, <1>3, GetOne
<1>5. GetBytes(At(B, p + 1), Len(v)) = [r |-> At(B, (p + 1) + Len(v)), v |-> v]
  <2>1. p + 1 \in Nat
    OBVIOUS
  <2> QED BY <1>1, <1>3, <2>1, GetSitting
<1>6. (p + 1) + Len(v) = p + (1 + Len(v))
  BY <1>1
<1> QED BY <1>4, <1>5, <1>6 DEF GetText

\* What is spelt, is read and stands where it is read.
IsRead(kind, v, limit) ==
  /\ Chunks(kind, v, limit) \in Seq(Seq(Byte)) /\ Spelt(kind, v, limit) \in Seq(Byte)
  /\ kind \notin {"key", "mac"} => Len(Spelt(kind, v, limit)) > 0
  /\ \A B \in Seq(Byte), p \in Nat : \A room :
       Sits(Spelt(kind, v, limit), B, p) =>
         Get(kind, At(B, p), room)
           = [r |-> At(B, p + Len(Spelt(kind, v, limit))), v |-> AsRead(kind, v, room)]

\* A field that is spelt as one chunk and read in one piece.
LEMMA ReadAsOne ==
  ASSUME NEW kind, NEW v, NEW limit, NEW c \in Seq(Byte), Chunks(kind, v, limit) = <<c>>,
         kind \in {"key", "mac"} \/ Len(c) > 0,
         \A B \in Seq(Byte), p \in Nat : \A room :
           Sits(c, B, p) =>
             Get(kind, At(B, p), room) = [r |-> At(B, p + Len(c)), v |-> AsRead(kind, v, room)]
  PROVE  IsRead(kind, v, limit)
<1>1. IsFlat(Byte, <<c>>, c)
  BY FlattenOne
<1>2. Spelt(kind, v, limit) = c /\ Chunks(kind, v, limit) \in Seq(Seq(Byte))
  BY <1>1 DEF Spelt, IsFlat
<1> QED BY <1>2 DEF IsRead

LEMMA OneByte ==
  ASSUME NEW a \in Byte
  PROVE  <<a>> \in Seq(Byte) /\ Len(<<a>>) = 1 /\ Len(<<a>>) > 0
  OBVIOUS

\* A code of one byte that only one meaning has.
LEMMA MeaningIs ==
  ASSUME NEW codes, NEW v \in DOMAIN codes, \A w \in DOMAIN codes : codes[w] = codes[v] => w = v
  PROVE  Meaning(codes, codes[v]) = v
  BY DEF Meaning

LEMMA ClassCodes ==
  ASSUME NEW v \in DOMAIN ClassCode
  PROVE  ClassCode[v] \in Byte /\ Meaning(ClassCode, ClassCode[v]) = v
<1>1. ClassCode[v] \in Byte
  BY DEF ClassCode, AnyOf, Byte
<1>2. \A w \in DOMAIN ClassCode : ClassCode[w] = ClassCode[v] => w = v
  BY DEF ClassCode, AnyOf
<1> QED BY <1>1, <1>2, MeaningIs

LEMMA ResultCodes ==
  ASSUME NEW v \in DOMAIN ResultCode
  PROVE  ResultCode[v] \in Byte /\ Meaning(ResultCode, ResultCode[v]) = v
<1>1. ResultCode[v] \in Byte
  BY DEF ResultCode, Byte
<1>2. \A w \in DOMAIN ResultCode : ResultCode[w] = ResultCode[v] => w = v
  BY DEF ResultCode
<1> QED BY <1>1, <1>2, MeaningIs

LEMMA TypeCodes ==
  ASSUME NEW v \in DOMAIN TypeCode
  PROVE  TypeCode[v] \in Byte /\ Meaning(TypeCode, TypeCode[v]) = v
<1>1. TypeCode[v] \in Byte
  BY DEF TypeCode, Byte
<1>2. \A w \in DOMAIN TypeCode : TypeCode[w] = TypeCode[v] => w = v
  BY DEF TypeCode
<1> QED BY <1>1, <1>2, MeaningIs

LEMMA ReadByte ==
  ASSUME NEW v \in Byte, NEW limit
  PROVE  IsRead("u8", v, limit)
<1>1. Chunks("u8", v, limit) = << <<v>> >>
  BY DEF Chunks
<1>2. ASSUME NEW B \in Seq(Byte), NEW p \in Nat, NEW room, Sits(<<v>>, B, p)
      PROVE  Get("u8", At(B, p), room) = [r |-> At(B, p + Len(<<v>>)), v |-> AsRead("u8", v, room)]
  <2>1. GetNumber(At(B, p), 1) = [r |-> At(B, p + 1), v |-> v]
    BY <1>2, GetOne
  <2>2. Get("u8", At(B, p), room) = GetNumber(At(B, p), 1)
    BY DEF Get
  <2> QED BY <2>1, <2>2, OneByte DEF AsRead
<1>3. <<v>> \in Seq(Byte) /\ Len(<<v>>) > 0
  BY OneByte
<1> QED BY <1>1, <1>2, <1>3, ReadAsOne

LEMMA ReadHalf ==
  ASSUME NEW v \in Half, NEW limit
  PROVE  IsRead("u16", v, limit)
<1>1. Chunks("u16", v, limit) = << Little(v, 2) >>
  BY DEF Chunks
<1>2. Little(v, 2) \in Seq(Byte) /\ Len(Little(v, 2)) = 2
  BY LittleTwo
<1>3. Len(Little(v, 2)) > 0
  BY <1>2
<1>4. ASSUME NEW B \in Seq(Byte), NEW p \in Nat, NEW room, Sits(Little(v, 2), B, p)
      PROVE  Get("u16", At(B, p), room)
               = [r |-> At(B, p + Len(Little(v, 2))), v |-> AsRead("u16", v, room)]
  <2>1. GetNumber(At(B, p), 2) = [r |-> At(B, p + 2), v |-> v]
    BY <1>4, GetTwo
  <2>2. Get("u16", At(B, p), room) = GetNumber(At(B, p), 2)
    BY DEF Get
  <2> QED BY <1>2, <2>1, <2>2 DEF AsRead
<1> QED BY <1>1, <1>2, <1>3, <1>4, ReadAsOne

LEMMA ReadClass ==
  ASSUME NEW v \in DOMAIN ClassCode, NEW limit
  PROVE  IsRead("class", v, limit)
<1> DEFINE n == ClassCode[v]
<1>1. n \in Byte /\ Meaning(ClassCode, n) = v
  BY ClassCodes
<1>2. Chunks("class", v, limit) = << <<n>> >>
  BY DEF Chunks
<1> HIDE DEF n
<1>3. ASSUME NEW B \in Seq(Byte), NEW p \in Nat, NEW room, Sits(<<n>>, B, p)
      PROVE  Get("class", At(B, p), room)
               = [r |-> At(B, p + Len(<<n>>)), v |-> AsRead("class", v, room)]
  <2>1. GetNumber(At(B, p), 1) = [r |-> At(B, p + 1), v |-> n]
    BY <1>1, <1>3, GetOne
  <2>2. Get("class", At(B, p), room)
          = [r |-> GetNumber(At(B, p), 1).r, v |-> Meaning(ClassCode, GetNumber(At(B, p), 1).v)]
    BY DEF Get
  <2> QED BY <1>1, <2>1, <2>2, OneByte DEF AsRead
<1>4. <<n>> \in Seq(Byte) /\ Len(<<n>>) > 0
  BY <1>1, OneByte
<1> QED BY <1>2, <1>3, <1>4, ReadAsOne

LEMMA ReadResult ==
  ASSUME NEW v \in DOMAIN ResultCode, NEW limit
  PROVE  IsRead("result", v, limit)
<1> DEFINE n == ResultCode[v]
<1>1. n \in Byte /\ Meaning(ResultCode, n) = v
  BY ResultCodes
<1>2. Chunks("result", v, limit) = << <<n>> >>
  BY DEF Chunks
<1> HIDE DEF n
<1>3. ASSUME NEW B \in Seq(Byte), NEW p \in Nat, NEW room, Sits(<<n>>, B, p)
      PROVE  Get("result", At(B, p), room)
               = [r |-> At(B, p + Len(<<n>>)), v |-> AsRead("result", v, room)]
  <2>1. GetNumber(At(B, p), 1) = [r |-> At(B, p + 1), v |-> n]
    BY <1>1, <1>3, GetOne
  <2>2. Get("result", At(B, p), room)
          = [r |-> GetNumber(At(B, p), 1).r, v |-> Meaning(ResultCode, GetNumber(At(B, p), 1).v)]
    BY DEF Get
  <2> QED BY <1>1, <2>1, <2>2, OneByte DEF AsRead
<1>4. <<n>> \in Seq(Byte) /\ Len(<<n>>) > 0
  BY <1>1, OneByte
<1> QED BY <1>2, <1>3, <1>4, ReadAsOne

LEMMA ReadType ==
  ASSUME NEW v \in DOMAIN TypeCode, NEW limit
  PROVE  IsRead("valueType", v, limit)
<1> DEFINE n == TypeCode[v]
<1>1. n \in Byte /\ Meaning(TypeCode, n) = v
  BY TypeCodes
<1>2. Chunks("valueType", v, limit) = << <<n>> >>
  BY DEF Chunks
<1> HIDE DEF n
<1>3. ASSUME NEW B \in Seq(Byte), NEW p \in Nat, NEW room, Sits(<<n>>, B, p)
      PROVE  Get("valueType", At(B, p), room)
               = [r |-> At(B, p + Len(<<n>>)), v |-> AsRead("valueType", v, room)]
  <2>1. GetNumber(At(B, p), 1) = [r |-> At(B, p + 1), v |-> n]
    BY <1>1, <1>3, GetOne
  <2>2. Get("valueType", At(B, p), room)
          = [r |-> GetNumber(At(B, p), 1).r, v |-> Meaning(TypeCode, GetNumber(At(B, p), 1).v)]
    BY DEF Get
  <2> QED BY <1>1, <2>1, <2>2, OneByte DEF AsRead
<1>4. <<n>> \in Seq(Byte) /\ Len(<<n>>) > 0
  BY <1>1, OneByte
<1> QED BY <1>2, <1>3, <1>4, ReadAsOne

LEMMA ReadKey ==
  ASSUME NEW v \in Seq(Byte), Len(v) = KeyLen, NEW limit
  PROVE  IsRead("key", v, limit)
<1>1. Chunks("key", v, limit) = <<v>>
  BY DEF Chunks
<1>2. ASSUME NEW B \in Seq(Byte), NEW p \in Nat, NEW room, Sits(v, B, p)
      PROVE  Get("key", At(B, p), room)
               = [r |-> At(B, p + Len(v)), v |-> AsRead("key", v, room)]
  <2>1. GetBytes(At(B, p), Len(v)) = [r |-> At(B, p + Len(v)), v |-> v]
    BY <1>2, GetSitting
  <2>2. Get("key", At(B, p), room) = GetBytes(At(B, p), Len(v))
    BY DEF Get
  <2> QED BY <2>1, <2>2 DEF AsRead
<1> QED BY <1>1, <1>2, ReadAsOne

LEMMA ReadMac ==
  ASSUME NEW v \in Seq(Byte), Len(v) = MacLen, NEW limit
  PROVE  IsRead("mac", v, limit)
<1>1. Chunks("mac", v, limit) = <<v>>
  BY DEF Chunks
<1>2. ASSUME NEW B \in Seq(Byte), NEW p \in Nat, NEW room, Sits(v, B, p)
      PROVE  Get("mac", At(B, p), room)
               = [r |-> At(B, p + Len(v)), v |-> AsRead("mac", v, room)]
  <2>1. GetBytes(At(B, p), Len(v)) = [r |-> At(B, p + Len(v)), v |-> v]
    BY <1>2, GetSitting
  <2>2. Get("mac", At(B, p), room) = GetBytes(At(B, p), Len(v))
    BY DEF Get
  <2> QED BY <2>1, <2>2 DEF AsRead
<1> QED BY <1>1, <1>2, ReadAsOne

LEMMA ReadName ==
  ASSUME NEW v, NEW limit, IsText(v, limit)
  PROVE  IsRead("name", v, limit)
<1> DEFINE c == <<Len(v)>> \o v
<1>1. Chunks("name", v, limit) = TextChunks(v, limit)
  BY DEF Chunks
<1>2. /\ TextChunks(v, limit) \in Seq(Seq(Byte)) /\ FlattenSeq(TextChunks(v, limit)) = c
      /\ Len(c) = 1 + Len(v) /\ c \in Seq(Byte) /\ Len(c) > 0
  <2>1. c \in Seq(Byte)
    <3>1. Len(v) \in Byte /\ v \in Seq(Byte)
      BY TextSpelt
    <3> QED BY <3>1, OneByte, ConcatProperties
  <2>2. Len(v) \in Nat /\ Len(c) = 1 + Len(v)
    <3>1. v \in Seq(Byte) /\ Len(c) = 1 + Len(v)
      BY TextSpelt
    <3> QED BY <3>1
  <2> QED BY <2>1, <2>2, TextSpelt
<1>3. ASSUME NEW B \in Seq(Byte), NEW p \in Nat, NEW room, Sits(c, B, p)
      PROVE  Get("name", At(B, p), room)
               = [r |-> At(B, p + Len(c)), v |-> AsRead("name", v, room)]
  <2>1. GetText(At(B, p), room) = [r |-> At(B, p + (1 + Len(v))), v |-> Cut(v, room)]
    BY <1>3, GetTextSitting
  <2>2. Get("name", At(B, p), room) = GetText(At(B, p), room)
    BY DEF Get
  <2> HIDE DEF c
  <2> QED BY <1>2, <2>1, <2>2 DEF AsRead
<1> HIDE DEF c
<1>4. Spelt("name", v, limit) = c
  BY <1>1, <1>2 DEF Spelt
<1> QED BY ONLY ZenonT(60), <1>1, <1>2, <1>3, <1>4 DEF IsRead

LEMMA ReadSsid ==
  ASSUME NEW v, NEW limit, IsText(v, MaxSsid)
  PROVE  IsRead("ssid", v, limit)
<1> DEFINE c == <<Len(v)>> \o v
<1>1. Chunks("ssid", v, limit) = TextChunks(v, MaxSsid)
  BY DEF Chunks
<1>2. /\ TextChunks(v, MaxSsid) \in Seq(Seq(Byte)) /\ FlattenSeq(TextChunks(v, MaxSsid)) = c
      /\ Len(c) = 1 + Len(v) /\ c \in Seq(Byte) /\ Len(c) > 0
  <2>1. c \in Seq(Byte)
    <3>1. Len(v) \in Byte /\ v \in Seq(Byte)
      BY TextSpelt
    <3> QED BY <3>1, OneByte, ConcatProperties
  <2>2. Len(v) \in Nat /\ Len(c) = 1 + Len(v)
    <3>1. v \in Seq(Byte) /\ Len(c) = 1 + Len(v)
      BY TextSpelt
    <3> QED BY <3>1
  <2> QED BY <2>1, <2>2, TextSpelt
<1>3. ASSUME NEW B \in Seq(Byte), NEW p \in Nat, NEW room, Sits(c, B, p)
      PROVE  Get("ssid", At(B, p), room)
               = [r |-> At(B, p + Len(c)), v |-> AsRead("ssid", v, room)]
  <2>1. GetText(At(B, p), MaxSsid) = [r |-> At(B, p + (1 + Len(v))), v |-> Cut(v, MaxSsid)]
    BY <1>3, GetTextSitting
  <2>2. Get("ssid", At(B, p), room) = GetText(At(B, p), MaxSsid)
    BY DEF Get
  <2> HIDE DEF c
  <2> QED BY <1>2, <2>1, <2>2, CutWhole DEF AsRead
<1> HIDE DEF c
<1>4. Spelt("ssid", v, limit) = c
  BY <1>1, <1>2 DEF Spelt
<1> QED BY ONLY ZenonT(60), <1>1, <1>2, <1>3, <1>4 DEF IsRead

LEMMA ReadPass ==
  ASSUME NEW v, NEW limit, IsText(v, MaxPass)
  PROVE  IsRead("pass", v, limit)
<1> DEFINE c == <<Len(v)>> \o v
<1>1. Chunks("pass", v, limit) = TextChunks(v, MaxPass)
  BY DEF Chunks
<1>2. /\ TextChunks(v, MaxPass) \in Seq(Seq(Byte)) /\ FlattenSeq(TextChunks(v, MaxPass)) = c
      /\ Len(c) = 1 + Len(v) /\ c \in Seq(Byte) /\ Len(c) > 0
  <2>1. c \in Seq(Byte)
    <3>1. Len(v) \in Byte /\ v \in Seq(Byte)
      BY TextSpelt
    <3> QED BY <3>1, OneByte, ConcatProperties
  <2>2. Len(v) \in Nat /\ Len(c) = 1 + Len(v)
    <3>1. v \in Seq(Byte) /\ Len(c) = 1 + Len(v)
      BY TextSpelt
    <3> QED BY <3>1
  <2> QED BY <2>1, <2>2, TextSpelt
<1>3. ASSUME NEW B \in Seq(Byte), NEW p \in Nat, NEW room, Sits(c, B, p)
      PROVE  Get("pass", At(B, p), room)
               = [r |-> At(B, p + Len(c)), v |-> AsRead("pass", v, room)]
  <2>1. GetText(At(B, p), MaxPass) = [r |-> At(B, p + (1 + Len(v))), v |-> Cut(v, MaxPass)]
    BY <1>3, GetTextSitting
  <2>2. Get("pass", At(B, p), room) = GetText(At(B, p), MaxPass)
    BY DEF Get
  <2> HIDE DEF c
  <2> QED BY <1>2, <2>1, <2>2, CutWhole DEF AsRead
<1> HIDE DEF c
<1>4. Spelt("pass", v, limit) = c
  BY <1>1, <1>2 DEF Spelt
<1> QED BY ONLY ZenonT(60), <1>1, <1>2, <1>3, <1>4 DEF IsRead

LEMMA ReadUrl ==
  ASSUME NEW v, NEW limit, IsText(v, MaxUrl)
  PROVE  IsRead("url", v, limit)
<1> DEFINE c == <<Len(v)>> \o v
<1>1. Chunks("url", v, limit) = TextChunks(v, MaxUrl)
  BY DEF Chunks
<1>2. /\ TextChunks(v, MaxUrl) \in Seq(Seq(Byte)) /\ FlattenSeq(TextChunks(v, MaxUrl)) = c
      /\ Len(c) = 1 + Len(v) /\ c \in Seq(Byte) /\ Len(c) > 0
  <2>1. c \in Seq(Byte)
    <3>1. Len(v) \in Byte /\ v \in Seq(Byte)
      BY TextSpelt
    <3> QED BY <3>1, OneByte, ConcatProperties
  <2>2. Len(v) \in Nat /\ Len(c) = 1 + Len(v)
    <3>1. v \in Seq(Byte) /\ Len(c) = 1 + Len(v)
      BY TextSpelt
    <3> QED BY <3>1
  <2> QED BY <2>1, <2>2, TextSpelt
<1>3. ASSUME NEW B \in Seq(Byte), NEW p \in Nat, NEW room, Sits(c, B, p)
      PROVE  Get("url", At(B, p), room)
               = [r |-> At(B, p + Len(c)), v |-> AsRead("url", v, room)]
  <2>1. GetText(At(B, p), MaxUrl) = [r |-> At(B, p + (1 + Len(v))), v |-> Cut(v, MaxUrl)]
    BY <1>3, GetTextSitting
  <2>2. Get("url", At(B, p), room) = GetText(At(B, p), MaxUrl)
    BY DEF Get
  <2> HIDE DEF c
  <2> QED BY <1>2, <2>1, <2>2, CutWhole DEF AsRead
<1> HIDE DEF c
<1>4. Spelt("url", v, limit) = c
  BY <1>1, <1>2 DEF Spelt
<1> QED BY ONLY ZenonT(60), <1>1, <1>2, <1>3, <1>4 DEF IsRead

\* A value is its type's byte and what the type needs.
LEMMA ReadsValue ==
  ASSUME NEW v, NEW limit, NEW c \in Seq(Byte), IsFlat(Byte, ValueChunks(v), c), Len(c) > 0,
         \A B \in Seq(Byte), p \in Nat :
           Sits(c, B, p) => GetValue(At(B, p)) = [r |-> At(B, p + Len(c)), v |-> v]
  PROVE  IsRead("value", v, limit)
<1>1. Chunks("value", v, limit) = ValueChunks(v)
  BY DEF Chunks
<1>2. Spelt("value", v, limit) = c /\ Chunks("value", v, limit) \in Seq(Seq(Byte))
  BY <1>1 DEF Spelt, IsFlat
<1>3. \A B, p, room : Get("value", At(B, p), room) = GetValue(At(B, p))
  BY DEF Get
<1>4. AsRead("value", v, 0) = v /\ \A room : AsRead("value", v, room) = v
  BY DEF AsRead
<1> QED BY <1>2, <1>3, <1>4 DEF IsRead

LEMMA ReadNull ==
  ASSUME NEW limit
  PROVE  IsRead("value", Null, limit)
<1>1. ValueChunks(Null) = << <<0>> >>
  BY DEF ValueChunks, Null
<1>2. 0 \in Byte
  BY DEF Byte
<1>3. <<0>> \in Seq(Byte) /\ Len(<<0>>) = 1 /\ Len(<<0>>) > 0
  BY <1>2, OneByte
<1>4. IsFlat(Byte, ValueChunks(Null), <<0>>)
  BY <1>1, <1>3, FlattenOne
<1>5. ASSUME NEW B \in Seq(Byte), NEW p \in Nat, Sits(<< 0 >>, B, p)
      PROVE  GetValue(At(B, p)) = [r |-> At(B, p + Len(<<0>>)), v |-> Null]
  <2>1. GetNumber(At(B, p), 1) = [r |-> At(B, p + 1), v |-> 0]
    BY <1>2, <1>5, GetOne
  <2> QED BY <1>3, <2>1 DEF GetValue
<1> QED BY <1>3, <1>4, <1>5, ReadsValue

\* The bytes behind the type's byte stand behind it.
LEMMA SitsBehind ==
  ASSUME NEW B \in Seq(Byte), NEW p \in Nat, NEW a \in Byte, NEW c \in Seq(Byte),
         Sits(<<a>> \o c, B, p)
  PROVE  /\ GetNumber(At(B, p), 1) = [r |-> At(B, p + 1), v |-> a]
         /\ Sits(c, B, p + 1) /\ p + 1 \in Nat
         /\ p + Len(<<a>> \o c) = (p + 1) + Len(c) /\ <<a>> \o c \in Seq(Byte)
<1>1. <<a>> \in Seq(Byte) /\ Len(<<a>>) = 1
  BY OneByte
<1>2. Sits(<<a>>, B, p) /\ Sits(c, B, p + Len(<<a>>))
  BY <1>1, SitsBoth
<1>3. <<a>> \o c \in Seq(Byte) /\ Len(<<a>> \o c) = Len(<<a>>) + Len(c)
  BY <1>1, ConcatProperties
<1>4. Len(c) \in Nat
  OBVIOUS
<1>5. GetNumber(At(B, p), 1) = [r |-> At(B, p + 1), v |-> a]
  BY <1>1, <1>2, GetOne
<1> QED BY <1>1, <1>2, <1>3, <1>4, <1>5

LEMMA LenBehind ==
  ASSUME NEW a \in Byte, NEW c \in Seq(Byte)
  PROVE  <<a>> \o c \in Seq(Byte) /\ Len(<<a>> \o c) > 0
<1>1. <<a>> \in Seq(Byte) /\ Len(<<a>>) = 1 /\ Len(c) \in Nat
  BY OneByte
<1> QED BY <1>1, ConcatProperties

LEMMA ReadBool ==
  ASSUME NEW n \in {0, 1}, NEW limit
  PROVE  IsRead("value", Bool(n), limit)
<1> DEFINE c == <<1>> \o <<n>>
<1>1. ValueChunks(Bool(n)) = << <<1>>, <<n>> >>
  BY DEF ValueChunks, Bool
<1>2. 1 \in Byte /\ n \in Byte
  BY DEF Byte
<1>3. <<1>> \in Seq(Byte) /\ <<n>> \in Seq(Byte) /\ Len(<<n>>) = 1
  BY <1>2, OneByte
<1>4. IsFlat(Byte, ValueChunks(Bool(n)), c) /\ c \in Seq(Byte) /\ Len(c) > 0
  <2>1. IsFlat(Byte, ValueChunks(Bool(n)), c)
    BY <1>1, <1>3, FlattenTwo
  <2>2. c \in Seq(Byte) /\ Len(c) > 0
    BY <1>2, <1>3, LenBehind
  <2> QED BY <2>1, <2>2
<1>5. ASSUME NEW B \in Seq(Byte), NEW p \in Nat, Sits(c, B, p)
      PROVE  GetValue(At(B, p)) = [r |-> At(B, p + Len(c)), v |-> Bool(n)]
  <2>1. /\ GetNumber(At(B, p), 1) = [r |-> At(B, p + 1), v |-> 1]
        /\ Sits(<<n>>, B, p + 1) /\ p + 1 \in Nat /\ p + Len(c) = (p + 1) + Len(<<n>>)
    BY ONLY ZenonT(60), <1>2, <1>3, <1>5, SitsBehind
  <2>2. GetNumber(At(B, p + 1), 1) = [r |-> At(B, (p + 1) + 1), v |-> n]
    BY <1>2, <2>1, GetOne
  <2>3. At(B, (p + 1) + 1).ok
    BY DEF At
  <2>4. (IF n # 0 THEN 1 ELSE 0) = n
    OBVIOUS
  <2> HIDE DEF c
  <2> QED BY <1>3, <2>1, <2>2, <2>3, <2>4 DEF GetValue
<1> HIDE DEF c
<1> QED BY <1>4, <1>5, ReadsValue

LEMMA ReadInt ==
  ASSUME NEW n \in Word, NEW limit
  PROVE  IsRead("value", [type |-> "Int", n |-> n], limit)
<1> DEFINE w == [type |-> "Int", n |-> n]
           d == Little(n, 4)
           c == <<2>> \o d
<1>1. ValueChunks(w) = << <<2>>, d >>
  BY DEF ValueChunks
<1>2. 2 \in Byte
  BY DEF Byte
<1>3. <<2>> \in Seq(Byte) /\ d \in Seq(Byte) /\ Len(d) = 4
  BY <1>2, OneByte, LittleFour
<1> HIDE DEF w
<1>4. IsFlat(Byte, ValueChunks(w), c) /\ c \in Seq(Byte) /\ Len(c) > 0
  <2>1. IsFlat(Byte, ValueChunks(w), c)
    BY <1>1, <1>3, FlattenTwo
  <2>2. c \in Seq(Byte) /\ Len(c) > 0
    BY <1>2, <1>3, LenBehind
  <2> QED BY <2>1, <2>2
<1>5. ASSUME NEW B \in Seq(Byte), NEW p \in Nat, Sits(c, B, p)
      PROVE  GetValue(At(B, p)) = [r |-> At(B, p + Len(c)), v |-> w]
  <2>1. /\ GetNumber(At(B, p), 1) = [r |-> At(B, p + 1), v |-> 2]
        /\ Sits(d, B, p + 1) /\ p + 1 \in Nat /\ p + Len(c) = (p + 1) + Len(d)
    BY <1>2, <1>3, <1>5, SitsBehind
  <2>2. GetNumber(At(B, p + 1), 4) = [r |-> At(B, (p + 1) + 4), v |-> n]
    BY <2>1, GetFour
  <2>3. At(B, (p + 1) + 4).ok
    BY DEF At
  <2> HIDE DEF c, d
  <2> QED BY <1>3, <2>1, <2>2, <2>3 DEF GetValue, w
<1> HIDE DEF c, d
<1>6. IsRead("value", w, limit)
  BY <1>4, <1>5, ReadsValue
<1> QED BY <1>6 DEF w

LEMMA ReadFloat ==
  ASSUME NEW n \in Word, NEW limit
  PROVE  IsRead("value", Float(n), limit)
<1> DEFINE d == Little(n, 4)
           c == <<3>> \o d
<1>1. ValueChunks(Float(n)) = << <<3>>, d >>
  BY DEF ValueChunks, Float
<1>2. 3 \in Byte
  BY DEF Byte
<1>3. <<3>> \in Seq(Byte) /\ d \in Seq(Byte) /\ Len(d) = 4
  BY <1>2, OneByte, LittleFour
<1>4. IsFlat(Byte, ValueChunks(Float(n)), c) /\ c \in Seq(Byte) /\ Len(c) > 0
  <2>1. IsFlat(Byte, ValueChunks(Float(n)), c)
    BY <1>1, <1>3, FlattenTwo
  <2>2. c \in Seq(Byte) /\ Len(c) > 0
    BY <1>2, <1>3, LenBehind
  <2> QED BY <2>1, <2>2
<1>5. ASSUME NEW B \in Seq(Byte), NEW p \in Nat, Sits(c, B, p)
      PROVE  GetValue(At(B, p)) = [r |-> At(B, p + Len(c)), v |-> Float(n)]
  <2>1. /\ GetNumber(At(B, p), 1) = [r |-> At(B, p + 1), v |-> 3]
        /\ Sits(d, B, p + 1) /\ p + 1 \in Nat /\ p + Len(c) = (p + 1) + Len(d)
    BY <1>2, <1>3, <1>5, SitsBehind
  <2>2. GetNumber(At(B, p + 1), 4) = [r |-> At(B, (p + 1) + 4), v |-> n]
    BY <2>1, GetFour
  <2>3. At(B, (p + 1) + 4).ok
    BY DEF At
  <2> HIDE DEF c, d
  <2> QED BY <1>3, <2>1, <2>2, <2>3 DEF GetValue
<1> HIDE DEF c, d
<1> QED BY <1>4, <1>5, ReadsValue

LEMMA ReadString ==
  ASSUME NEW v, NEW limit, IsText(v, MaxText)
  PROVE  IsRead("value", Text(v), limit)
<1> DEFINE l == <<Len(v)>>
           d == l \o v
           c == <<4>> \o d
<1>1. ValueChunks(Text(v)) = << <<4>>, l, v >>
  BY DEF ValueChunks, Text
<1>2. 4 \in Byte
  BY DEF Byte
<1>3. v \in Seq(Byte) /\ Len(v) \in Byte /\ Len(d) = 1 + Len(v)
  BY TextSpelt
<1>4. <<4>> \in Seq(Byte) /\ l \in Seq(Byte)
  BY <1>2, <1>3, OneByte
<1>5. d \in Seq(Byte) /\ c \in Seq(Byte) /\ Len(c) > 0
  <2>1. d \in Seq(Byte)
    BY <1>3, <1>4, ConcatProperties
  <2> HIDE DEF d
  <2> QED BY <1>2, <2>1, LenBehind
<1>6. IsFlat(Byte, ValueChunks(Text(v)), c)
  <2>1. IsFlat(Byte, << <<4>>, l, v >>, (<<4>> \o l) \o v)
    BY <1>3, <1>4, FlattenThree
  <2>2. (<<4>> \o l) \o v = c
    BY <1>3, <1>4, ConcatThree
  <2> QED BY <1>1, <2>1, <2>2
<1>7. ASSUME NEW B \in Seq(Byte), NEW p \in Nat, Sits(c, B, p)
      PROVE  GetValue(At(B, p)) = [r |-> At(B, p + Len(c)), v |-> Text(v)]
  <2>1. /\ GetNumber(At(B, p), 1) = [r |-> At(B, p + 1), v |-> 4]
        /\ Sits(d, B, p + 1) /\ p + 1 \in Nat /\ p + Len(c) = (p + 1) + Len(d)
    BY ONLY ZenonT(60), <1>2, <1>5, <1>7, SitsBehind
  <2>2. GetText(At(B, p + 1), MaxText)
          = [r |-> At(B, (p + 1) + (1 + Len(v))), v |-> Cut(v, MaxText)]
    BY <2>1, GetTextSitting
  <2>3. Cut(v, MaxText) = v
    BY CutWhole
  <2>4. At(B, (p + 1) + (1 + Len(v))).ok
    BY DEF At
  <2> HIDE DEF c, d
  <2> QED BY <1>3, <2>1, <2>2, <2>3, <2>4 DEF GetValue
<1> HIDE DEF c, d, l
<1> QED BY <1>5, <1>6, <1>7, ReadsValue

LEMMA ReadValue ==
  ASSUME NEW v, NEW limit, IsValue(v)
  PROVE  IsRead("value", v, limit)
<1>1. CASE v = Null
  BY <1>1, ReadNull
<1>2. CASE \E n \in {0, 1} : v = Bool(n)
  BY <1>2, ReadBool
<1>3. CASE \E n \in Word : v \in {Float(n), [type |-> "Int", n |-> n]}
  BY <1>3, ReadFloat, ReadInt
<1>4. CASE \E text \in Seq(Byte) : IsText(text, MaxText) /\ v = Text(text)
  BY <1>4, ReadString
<1> QED BY <1>1, <1>2, <1>3, <1>4, ValueIs

\* Hops, and zeroes behind them; the length says where the hops end.
LEMMA PaddedIs ==
  ASSUME NEW path \in Seq(1 .. 254), Len(path) =< MaxDepth
  PROVE  /\ Padded(path) \in Seq(Byte) /\ Len(Padded(path)) = MaxDepth
         /\ Len(path) \in Nat /\ Len(path) \in Byte
         /\ \A k \in 1 .. Len(path) : IsLegalHop(Padded(path)[k])
         /\ SubSeq(Padded(path), 1, Len(path)) = path
<1>0. \A k \in 1 .. Len(path) : path[k] \in 1 .. 254
  BY ElementOfSeq
<1> DEFINE n == MaxDepth - Len(path)
           z == [k \in 1 .. n |-> 0]
           q == path \o z
<1>1. Len(path) \in Nat /\ MaxDepth \in Nat /\ MaxDepth =< 255 /\ n \in Nat
  BY MessagesAssumption, PathLengthsFitOneByte
<1>2. path \in Seq(Byte)
  <2>1. \A h \in 1 .. 254 : h \in Byte
    BY DEF Byte
  <2>3. \A k \in 1 .. Len(path) : path[k] \in Byte
    BY <1>0, <2>1
  <2> QED BY <1>1, <2>3
<1>3. z \in Seq(Byte) /\ Len(z) = n
  <2>1. 0 \in Byte
    BY DEF Byte
  <2>2. z \in [1 .. n -> Byte]
    BY <2>1
  <2> HIDE DEF z, n
  <2> QED BY <1>1, <2>2, SeqOfFunction
<1> HIDE DEF z
<1>4. q \in Seq(Byte) /\ Len(q) = Len(path) + n /\ \A k \in 1 .. Len(path) : q[k] = path[k]
  BY <1>1, <1>2, <1>3
<1> HIDE DEF q
<1>5. Len(q) = MaxDepth
  BY <1>1, <1>4
<1>6. SubSeq(q, 1, Len(path)) = path
  <2> DEFINE l == Len(path)
             t == SubSeq(q, 1, l)
  <2>1. l \in Nat /\ l =< Len(q)
    BY <1>1, <1>5
  <2> HIDE DEF l
  <2>2. t \in Seq(Byte) /\ Len(t) = l /\ \A k \in 1 .. l : t[k] = q[k]
    BY <1>4, <2>1
  <2> HIDE DEF t
  <2>3. \A k \in 1 .. Len(t) : t[k] = path[k]
    BY <1>4, <2>2 DEF l
  <2>4. t = path
    BY <1>2, <2>2, <2>3, SeqEqual DEF l
  <2> QED BY <2>4 DEF t, l
<1>7. \A k \in 1 .. Len(path) : IsLegalHop(q[k])
  BY <1>0, <1>4 DEF IsLegalHop
<1>8. Padded(path) = q
  BY DEF Padded, q, z
<1>9. Len(path) \in Byte
  BY <1>1, ByteIs
<1> QED BY <1>1, <1>4, <1>5, <1>6, <1>7, <1>8, <1>9

\* The five parts of a reference, each at its place.
RefSpelt(c, l, q, a, b, d) ==
  /\ c \in Seq(Byte) /\ Len(c) = MaxDepth + 4 /\ c[1] = l
  /\ SubSeq(c, 2, MaxDepth + 1) = q
  /\ SubSeq(c, MaxDepth + 2, MaxDepth + 4) = <<a, b, d>>

LEMMA RefBytes ==
  ASSUME NEW l \in Byte, NEW q \in Seq(Byte), Len(q) = MaxDepth, NEW a \in Byte, NEW b \in Byte,
         NEW d \in Byte
  PROVE  RefSpelt((((<<l>> \o q) \o <<a>>) \o <<b>>) \o <<d>>, l, q, a, b, d)
<1> DEFINE M == MaxDepth
           c1 == <<l>> \o q
           c2 == c1 \o <<a>>
           c3 == c2 \o <<b>>
           c  == c3 \o <<d>>
<1>0. M \in Nat
  BY MessagesAssumption
<1>1. /\ c1 \in Seq(Byte) /\ Len(c1) = M + 1 /\ c1[1] = l
      /\ \A k \in 1 .. M : c1[k + 1] = q[k]
  <2>1. <<l>> \in Seq(Byte) /\ Len(<<l>>) = 1 /\ <<l>>[1] = l
    BY OneByte
  <2> DEFINE u == <<l>>
  <2> HIDE DEF u
  <2>2. u \o q \in Seq(Byte) /\ Len(u \o q) = 1 + M /\ (u \o q)[1] = u[1]
    BY <1>0, <2>1 DEF u
  <2>3. \A k \in 1 .. M : (u \o q)[k + 1] = q[k]
    BY <1>0, <2>1 DEF u
  <2> QED BY <1>0, <2>1, <2>2, <2>3 DEF u
<1> HIDE DEF c1
<1>2. /\ c2 \in Seq(Byte) /\ Len(c2) = M + 2 /\ c2[M + 2] = a
      /\ \A k \in 1 .. M + 1 : c2[k] = c1[k]
  BY <1>0, <1>1
<1> HIDE DEF c2
<1>3. /\ c3 \in Seq(Byte) /\ Len(c3) = M + 3 /\ c3[M + 3] = b
      /\ \A k \in 1 .. M + 2 : c3[k] = c2[k]
  BY <1>0, <1>2
<1> HIDE DEF c3
<1>4. /\ c \in Seq(Byte) /\ Len(c) = M + 4 /\ c[M + 4] = d
      /\ \A k \in 1 .. M + 3 : c[k] = c3[k]
  BY <1>0, <1>3
<1> HIDE DEF c
<1>5. c[1] = l /\ \A k \in 1 .. M : c[k + 1] = q[k]
  BY <1>0, <1>1, <1>2, <1>3, <1>4
<1>6. c[M + 2] = a /\ c[M + 3] = b /\ c[M + 4] = d
  BY <1>0, <1>2, <1>3, <1>4
<1>7. SubSeq(c, 2, M + 1) = q
  <2> DEFINE t == SubSeq(c, 2, M + 1)
  <2>1. t \in Seq(Byte) /\ Len(t) = M /\ \A k \in 1 .. M : t[k] = c[k + 1]
    BY <1>0, <1>4
  <2> HIDE DEF t
  <2>2. t = q
    BY <1>5, <2>1, SeqEqual
  <2> QED BY <2>2 DEF t
<1>8. SubSeq(c, M + 2, M + 4) = <<a, b, d>>
  <2> DEFINE t == SubSeq(c, M + 2, M + 4)
  <2>1. t \in Seq(Byte) /\ Len(t) = 3
    BY <1>0, <1>4
  <2>2. t[1] = c[M + 2] /\ t[2] = c[M + 3] /\ t[3] = c[M + 4]
    BY <1>0, <1>4
  <2> HIDE DEF t
  <2>3. t[1] = a /\ t[2] = b /\ t[3] = d
    BY <1>6, <2>2
  <2>4. t = <<a, b, d>>
    BY <2>1, <2>3
  <2> QED BY <2>4 DEF t
<1> QED BY <1>4, <1>5, <1>7, <1>8 DEF c, c3, c2, c1, RefSpelt

LEMMA ReadRef ==
  ASSUME NEW v, NEW limit, IsRef(v)
  PROVE  IsRead("ref", v, limit)
<1>1. PICK path \in Seq(1 .. 254), class \in DOMAIN ClassCode, inst \in Byte, port \in Byte :
        /\ Len(path) =< MaxDepth
        /\ v = [path |-> path, class |-> class, inst |-> inst, port |-> port]
  BY RefIs
<1> DEFINE l == Len(path)
           q == Padded(path)
           a == ClassCode[class]
           c == (((<<l>> \o q) \o <<a>>) \o <<inst>>) \o <<port>>
<1>2. /\ q \in Seq(Byte) /\ Len(q) = MaxDepth /\ l \in Byte /\ l =< MaxDepth
      /\ \A k \in 1 .. l : IsLegalHop(q[k])
      /\ SubSeq(q, 1, l) = path
  BY <1>1, PaddedIs
<1>3. a \in Byte /\ Meaning(ClassCode, a) = class
  BY ClassCodes
<1>4. Chunks("ref", v, limit) = << <<l>>, q, <<a>>, <<inst>>, <<port>> >>
  BY <1>1 DEF Chunks, RefChunks, Padded
<1> HIDE DEF l, q, a
<1>5. /\ c \in Seq(Byte) /\ Len(c) = MaxDepth + 4 /\ c[1] = l
      /\ SubSeq(c, 2, MaxDepth + 1) = q
      /\ SubSeq(c, MaxDepth + 2, MaxDepth + 4) = <<a, inst, port>>
  <2>1. RefSpelt(c, l, q, a, inst, port)
    BY <1>2, <1>3, RefBytes
  <2> QED BY <2>1 DEF RefSpelt
<1>6. IsFlat(Byte, << <<l>>, q, <<a>>, <<inst>>, <<port>> >>, c)
  <2>1. <<l>> \in Seq(Byte) /\ <<a>> \in Seq(Byte) /\ <<inst>> \in Seq(Byte) /\ <<port>> \in Seq(Byte)
    BY <1>2, <1>3, OneByte
  <2> QED BY <1>2, <2>1, FlattenFive
<1> HIDE DEF c
<1>7. Spelt("ref", v, limit) = c /\ Chunks("ref", v, limit) \in Seq(Seq(Byte))
  BY <1>4, <1>6 DEF Spelt, IsFlat
<1>8. ASSUME NEW B \in Seq(Byte), NEW p \in Nat, NEW room, Sits(c, B, p)
      PROVE  Get("ref", At(B, p), room) = [r |-> At(B, p + Len(c)), v |-> AsRead("ref", v, room)]
  <2>1. GetBytes(At(B, p), MaxDepth + 4) = [r |-> At(B, p + Len(c)), v |-> c]
    BY ZenonT(60), <1>5, <1>8, GetSitting
  <2>2. Get("ref", At(B, p), room) = GetRef(At(B, p))
    BY DEF Get
  <2>3. At(B, p + Len(c)).ok
    BY DEF At
  <2>4. <<a, inst, port>>[1] = a /\ <<a, inst, port>>[2] = inst /\ <<a, inst, port>>[3] = port
    OBVIOUS
  <2>5. GetRef(At(B, p))
          = [r |-> At(B, p + Len(c)),
             v |-> [path |-> path, class |-> class, inst |-> inst, port |-> port]]
    <3> DEFINE got == GetBytes(At(B, p), MaxDepth + 4)
               ids == SubSeq(got.v, MaxDepth + 2, MaxDepth + 4)
               hops == SubSeq(got.v, 2, MaxDepth + 1)
    <3>1. got.r = At(B, p + Len(c)) /\ got.r.ok /\ got.v = c /\ got.v[1] = l
      BY <1>5, <2>1, <2>3
    <3>2. hops = q /\ ids[1] = a /\ ids[2] = inst /\ ids[3] = port
      BY <1>5, <2>4, <3>1
    <3> HIDE DEF got
    <3>3. GetRef(At(B, p))
            = [r |-> got.r,
               v |-> [path |-> SubSeq(hops, 1, l), class |-> Meaning(ClassCode, ids[1]),
                      inst |-> ids[2], port |-> ids[3]]]
      BY <1>2, <3>1, <3>2 DEF GetRef, got
    <3> QED BY <1>2, <1>3, <3>1, <3>2, <3>3
  <2> QED BY <1>1, <2>2, <2>5 DEF AsRead
<1>9. Len(c) > 0
  BY <1>5, MessagesAssumption
<1> QED BY <1>5, <1>7, <1>8, <1>9 DEF IsRead

\* Whatever a field holds is read back, a name as far as there is room for it.
LEMMA ReadField ==
  ASSUME NEW kind \in Kinds, NEW v, NEW limit, IsOf(kind, v, limit)
  PROVE  IsRead(kind, v, limit)
<1>1. CASE kind = "u8"
  BY <1>1, ReadByte DEF IsOf
<1>2. CASE kind = "u16"
  BY <1>2, ReadHalf DEF IsOf
<1>3. CASE kind = "class"
  BY <1>3, ReadClass DEF IsOf
<1>4. CASE kind = "result"
  BY <1>4, ReadResult DEF IsOf
<1>5. CASE kind = "valueType"
  BY <1>5, ReadType DEF IsOf
<1>6. CASE kind = "key"
  BY <1>6, ReadKey DEF IsOf
<1>7. CASE kind = "mac"
  BY <1>7, ReadMac DEF IsOf
<1>8. CASE kind = "name"
  BY <1>8, ReadName DEF IsOf
<1>9. CASE kind = "ssid"
  BY <1>9, ReadSsid DEF IsOf
<1>10. CASE kind = "pass"
  BY <1>10, ReadPass DEF IsOf
<1>11. CASE kind = "url"
  BY <1>11, ReadUrl DEF IsOf
<1>12. CASE kind = "value"
  BY <1>12, ReadValue DEF IsOf
<1>13. CASE kind = "ref"
  BY <1>13, ReadRef DEF IsOf
<1> QED BY <1>1, <1>2, <1>3, <1>4, <1>5, <1>6, <1>7, <1>8, <1>9, <1>10, <1>11, <1>12, <1>13
        DEF Kinds

-----------------------------------------------------------------------------
(* Fields, one after the other *)

\* Fields of kinds that are known, each with a name of its own, and none with the
\* name of what repeats or of what follows it.
IsLayout(l) ==
  /\ Len(l) \in Nat /\ DOMAIN l = 1 .. Len(l)
  /\ \A k \in DOMAIN l : l[k][2] \in Kinds /\ l[k][1] \notin {"items", "trailer"}
  /\ \A j, k \in DOMAIN l : l[j][1] = l[k][1] => j = k

KindIn(l, x)  == l[CHOOSE k \in DOMAIN l : l[k][1] = x][2]

\* What is read of the first n fields, behind what was there.
FieldsRead(l, n, s, start, room) ==
  [x \in DOMAIN start \cup NamesIn(l, n) |->
     IF x \in DOMAIN start THEN start[x] ELSE AsRead(KindIn(l, x), s[x], room)]

Behind(got, name, one) == [r |-> one.r, v |-> Merged(got.v, [x \in {name} |-> one.v])]

Reading(l, r, start, room, f) ==
  f = [k \in 0 .. Len(l) |->
         IF k = 0 THEN [r |-> r, v |-> start]
         ELSE Behind(f[k - 1], l[k][1], Get(l[k][2], f[k - 1].r, room))]

LEMMA GetFieldsIs ==
  ASSUME NEW l, NEW r, NEW start, NEW room, NEW f, Reading(l, r, start, room, f)
  PROVE  \E g : Reading(l, r, start, room, g) /\ GetFields(l, r, start, room) = g[Len(l)]
<1> DEFINE c == CHOOSE g : Reading(l, r, start, room, g)
<1>1. Reading(l, r, start, room, c)
  OBVIOUS
<1>2. GetFields(l, r, start, room) = c[Len(l)]
  BY DEF GetFields, Reading, Behind
<1> HIDE DEF c
<1> QED BY <1>1, <1>2

\* One field more.
IsOneMore(l, n, s, start, room, v) ==
  Merged(FieldsRead(l, n - 1, s, start, room), [x \in {l[n][1]} |-> v])
    = FieldsRead(l, n, s, start, room)

LEMMA FieldsReadMore ==
  ASSUME NEW l, IsLayout(l), NEW n \in 1 .. Len(l), NEW s, NEW start, NEW room, NEW v,
         v = AsRead(l[n][2], s[l[n][1]], room)
  PROVE  IsOneMore(l, n, s, start, room, v)
<1> DEFINE name == l[n][1]
           a == FieldsRead(l, n - 1, s, start, room)
           b == FieldsRead(l, n, s, start, room)
           D == DOMAIN start \cup NamesIn(l, n - 1)
           E == DOMAIN start \cup NamesIn(l, n)
<1>1. n \in DOMAIN l /\ Len(l) \in Nat
  BY DEF IsLayout
<1>2. NamesIn(l, n) = NamesIn(l, n - 1) \cup {name}
  <2>1. 1 .. n = (1 .. n - 1) \cup {n}
    BY <1>1
  <2> HIDE DEF name
  <2>2. \A x : x \in NamesIn(l, n) <=> \E k \in 1 .. n : x = l[k][1]
    BY DEF NamesIn
  <2>3. \A x : x \in NamesIn(l, n - 1) <=> \E k \in 1 .. n - 1 : x = l[k][1]
    BY DEF NamesIn
  <2>4. \A x : x \in NamesIn(l, n) <=> x \in NamesIn(l, n - 1) \/ x = name
    BY <2>1, <2>2, <2>3 DEF name
  <2> QED BY <2>4
<1>3. KindIn(l, name) = l[n][2]
  <2>1. (CHOOSE k \in DOMAIN l : l[k][1] = name) = n
    BY <1>1 DEF IsLayout
  <2> QED BY <2>1 DEF KindIn
<1>4. E = D \cup {name}
  BY <1>2
<1>5. DOMAIN a = D /\ DOMAIN b = E
  BY DEF FieldsRead
<1> HIDE DEF name, D, E
<1>6. \A x \in D : a[x] = IF x \in DOMAIN start THEN start[x] ELSE AsRead(KindIn(l, x), s[x], room)
  BY DEF FieldsRead, D
<1>7. \A x \in E : b[x] = IF x \in DOMAIN start THEN start[x] ELSE AsRead(KindIn(l, x), s[x], room)
  BY DEF FieldsRead, E
<1>8. b = [x \in E |-> b[x]]
  BY DEF FieldsRead, E
<1>9. name \notin D => b[name] = v
  <2>1. name \notin D => name \notin DOMAIN start
    BY DEF D
  <2>2. name \in E
    BY <1>4
  <2> QED BY <1>3, <1>7, <2>1, <2>2 DEF name
<1>10. \A x \in E : x \in D => a[x] = b[x]
  BY <1>6, <1>7
<1> HIDE DEF a, b
<1> DEFINE w == [x \in {name} |-> v]
<1>11. DOMAIN w = {name} /\ w[name] = v
  OBVIOUS
<1> HIDE DEF w
<1>12. Merged(a, w) = [x \in E |-> IF x \in D THEN a[x] ELSE w[x]]
  BY <1>4, <1>5, <1>11 DEF Merged
<1>13. \A x \in E : (IF x \in D THEN a[x] ELSE w[x]) = b[x]
  BY <1>4, <1>9, <1>10, <1>11
<1>14. Merged(a, w) = [x \in E |-> b[x]]
  BY <1>12, <1>13
<1> QED BY <1>8, <1>14 DEF a, b, w, name, IsOneMore

IsFunction(f) == f = [x \in DOMAIN f |-> f[x]]

LEMMA NoneReadYet ==
  ASSUME NEW l, NEW s, NEW start, NEW room, IsFunction(start)
  PROVE  FieldsRead(l, 0, s, start, room) = start
<1>1. NamesIn(l, 0) = {}
  BY DEF NamesIn
<1>2. FieldsRead(l, 0, s, start, room)
        = [x \in DOMAIN start |->
             IF x \in DOMAIN start THEN start[x] ELSE AsRead(KindIn(l, x), s[x], room)]
  BY <1>1 DEF FieldsRead
<1> QED BY <1>2 DEF IsFunction

\* The bytes of every field, in their order.
FieldBytes(l, s, limit) == FlattenSeq(FieldChunks(l, s, limit))
SpeltFields(l, s, limit) == [k \in 1 .. Len(l) |-> Spelt(l[k][2], s[l[k][1]], limit)]

LEMMA FieldsSpelt ==
  ASSUME NEW l, IsLayout(l), NEW s, NEW limit, Holds(l, s, limit)
  PROVE  /\ FieldChunks(l, s, limit) \in Seq(Seq(Byte))
         /\ SpeltFields(l, s, limit) \in Seq(Seq(Byte))
         /\ Len(SpeltFields(l, s, limit)) = Len(l)
         /\ FieldBytes(l, s, limit) = FlattenSeq(SpeltFields(l, s, limit))
         /\ FieldBytes(l, s, limit) \in Seq(Byte)
<1> DEFINE n == Len(l)
           C == [k \in 1 .. n |-> Chunks(l[k][2], s[l[k][1]], limit)]
           e == SpeltFields(l, s, limit)
<1>1. n \in Nat /\ DOMAIN l = 1 .. n
  BY DEF IsLayout
<1>2. \A k \in 1 .. n : IsRead(l[k][2], s[l[k][1]], limit)
  BY <1>1, ReadField DEF IsLayout, Holds
<1>3. \A k \in 1 .. n : /\ Chunks(l[k][2], s[l[k][1]], limit) \in Seq(Seq(Byte))
                        /\ Spelt(l[k][2], s[l[k][1]], limit) \in Seq(Byte)
  BY <1>2 DEF IsRead
<1>4. FieldChunks(l, s, limit) = FlattenSeq(C)
  BY <1>1 DEF FieldChunks
<1>5. C \in Seq(Seq(Seq(Byte))) /\ Len(C) = n /\ \A k \in 1 .. n : C[k] = Chunks(l[k][2], s[l[k][1]], limit)
  <2> DEFINE S == Seq(Seq(Byte))
  <2>1. \A k \in 1 .. n : Chunks(l[k][2], s[l[k][1]], limit) \in S
    BY <1>3
  <2> HIDE DEF S, n
  <2>2. C \in [1 .. n -> S]
    BY <2>1
  <2>3. C \in Seq(S) /\ Len(C) = n
    BY <1>1, <2>2, SeqOfFunction
  <2> QED BY <2>3 DEF S
<1>6. e \in Seq(Seq(Byte)) /\ Len(e) = n /\ e = [k \in 1 .. n |-> Spelt(l[k][2], s[l[k][1]], limit)]
  <2> DEFINE S == Seq(Byte)
  <2>1. \A k \in 1 .. n : Spelt(l[k][2], s[l[k][1]], limit) \in S
    BY <1>3
  <2>2. e = [k \in 1 .. n |-> Spelt(l[k][2], s[l[k][1]], limit)]
    BY DEF SpeltFields
  <2> HIDE DEF S, n, e
  <2>3. e \in [1 .. n -> S]
    BY <2>1, <2>2
  <2>4. e \in Seq(S) /\ Len(e) = n
    BY <1>1, <2>3, SeqOfFunction
  <2> QED BY <2>2, <2>4 DEF S
<1> HIDE DEF C, e
<1>7. FlattenSeq(FlattenSeq(C)) = FlattenSeq([k \in 1 .. Len(C) |-> FlattenSeq(C[k])])
  BY <1>5, FlattenTwice
<1>8. [k \in 1 .. Len(C) |-> FlattenSeq(C[k])] = e
  <2>1. \A k \in 1 .. n : FlattenSeq(C[k]) = Spelt(l[k][2], s[l[k][1]], limit)
    BY <1>5 DEF Spelt
  <2> QED BY <1>5, <1>6, <2>1
<1>9. FlattenSeq(C) \in Seq(Seq(Byte))
  BY <1>5, FlattenType
<1>10. FlattenSeq(e) \in Seq(Byte)
  BY <1>6, FlattenType
<1> QED BY <1>4, <1>6, <1>7, <1>8, <1>9, <1>10 DEF FieldBytes, e

\* Every field that stands where the reader stands is read, one after the other.
LEMMA FieldsAreRead ==
  ASSUME NEW l, IsLayout(l), NEW s, NEW limit, Holds(l, s, limit), NEW B \in Seq(Byte),
         NEW p \in Nat, Sits(FieldBytes(l, s, limit), B, p), NEW room, NEW start,
         IsFunction(start)
  PROVE  GetFields(l, At(B, p), start, room)
           = [r |-> At(B, p + Len(FieldBytes(l, s, limit))),
              v |-> FieldsRead(l, Len(l), s, start, room)]
<1> DEFINE n == Len(l)
           e == SpeltFields(l, s, limit)
           W(k) == [r |-> At(B, p + Reach(e, k)), v |-> FieldsRead(l, k, s, start, room)]
           w == [k \in 0 .. n |-> W(k)]
<1>1. n \in Nat /\ DOMAIN l = 1 .. n
  BY DEF IsLayout
<1>2. e \in Seq(Seq(Byte)) /\ Len(e) = n /\ FieldBytes(l, s, limit) = FlattenSeq(e)
  BY FieldsSpelt
<1>3. \A k \in 1 .. n : e[k] = Spelt(l[k][2], s[l[k][1]], limit)
  BY DEF SpeltFields
<1> HIDE DEF e
<1>4. /\ Reach(e, 0) = 0 /\ Reach(e, n) = Len(FlattenSeq(e))
      /\ \A k \in 0 .. n : Reach(e, k) \in Nat
      /\ \A k \in 1 .. n : /\ Reach(e, k) = Reach(e, k - 1) + Len(e[k])
                           /\ Sits(e[k], B, p + Reach(e, k - 1))
  BY <1>2, SitsEach
<1>5. W(0) = [r |-> At(B, p), v |-> start]
  BY <1>4, NoneReadYet
<1>6. ASSUME NEW k \in 1 .. n
      PROVE  W(k) = Behind(W(k - 1), l[k][1], Get(l[k][2], W(k - 1).r, room))
  <2> DEFINE q == p + Reach(e, k - 1)
             v == AsRead(l[k][2], s[l[k][1]], room)
  <2>1. k - 1 \in 0 .. n /\ q \in Nat
    BY <1>1, <1>4
  <2>2. IsRead(l[k][2], s[l[k][1]], limit)
    BY <1>1, ReadField DEF IsLayout, Holds
  <2>3. Sits(Spelt(l[k][2], s[l[k][1]], limit), B, q)
    BY <1>3, <1>4
  <2> HIDE DEF q
  <2>4. Get(l[k][2], At(B, q), room) = [r |-> At(B, q + Len(e[k])), v |-> v]
    BY <1>3, <2>1, <2>2, <2>3 DEF IsRead
  <2>5. q + Len(e[k]) = p + Reach(e, k)
    <3>1. Len(e[k]) \in Nat
      BY <1>2
    <3>2. Reach(e, k) = Reach(e, k - 1) + Len(e[k]) /\ Reach(e, k - 1) \in Nat
      BY <1>4, <2>1
    <3>3. q = p + Reach(e, k - 1)
      BY DEF q
    <3> HIDE DEF W, w, v
    <3> QED BY <3>1, <3>2, <3>3
  <2>6. W(k - 1).r = At(B, q) /\ W(k - 1).v = FieldsRead(l, k - 1, s, start, room)
    BY DEF q
  <2>7. Merged(FieldsRead(l, k - 1, s, start, room), [x \in {l[k][1]} |-> v])
          = FieldsRead(l, k, s, start, room)
    <3>1. v = AsRead(l[k][2], s[l[k][1]], room) /\ k \in 1 .. Len(l)
      OBVIOUS
    <3> HIDE DEF v
    <3>2. IsOneMore(l, k, s, start, room, v)
      BY <3>1, FieldsReadMore
    <3> QED BY <3>2 DEF IsOneMore
  <2> HIDE DEF v, W
  <2>8. Behind(W(k - 1), l[k][1], Get(l[k][2], W(k - 1).r, room))
          = [r |-> At(B, p + Reach(e, k)), v |-> FieldsRead(l, k, s, start, room)]
    BY <2>4, <2>5, <2>6, <2>7 DEF Behind
  <2> QED BY <2>8 DEF W
<1> HIDE DEF W
<1>7. Reading(l, At(B, p), start, room, w)
  <2>1. \A k \in 0 .. n : w[k] = IF k = 0 THEN [r |-> At(B, p), v |-> start]
                                 ELSE Behind(w[k - 1], l[k][1], Get(l[k][2], w[k - 1].r, room))
    <3>1. \A k \in 0 .. n : w[k] = W(k)
      OBVIOUS
    <3>2. \A k \in 0 .. n : k # 0 => k \in 1 .. n /\ k - 1 \in 0 .. n
      BY <1>1
    <3> HIDE DEF w
    <3> QED BY <1>5, <1>6, <3>1, <3>2
  <2>2. w = [k \in 0 .. n |-> w[k]]
    OBVIOUS
  <2> HIDE DEF w
  <2> QED BY <2>1, <2>2 DEF Reading
<1>8. PICK g : Reading(l, At(B, p), start, room, g)
               /\ GetFields(l, At(B, p), start, room) = g[n]
  BY <1>7, GetFieldsIs
<1>9. \A k \in 0 .. n : g[k] = IF k = 0 THEN [r |-> At(B, p), v |-> start]
                               ELSE Behind(g[k - 1], l[k][1], Get(l[k][2], g[k - 1].r, room))
  BY <1>8 DEF Reading
<1> DEFINE bad == {k \in 0 .. n : g[k] # W(k)}
<1>10. ASSUME bad # {} PROVE FALSE
  <2>1. bad \subseteq Nat
    BY <1>1
  <2>2. PICK m \in bad : \A j \in bad : m =< j
    BY <1>10, <2>1, LeastExists
  <2>3. m \in 0 .. n /\ g[m] # W(m)
    OBVIOUS
  <2>4. m # 0
    BY <1>1, <1>5, <1>9, <2>3
  <2>5. m \in 1 .. n /\ m - 1 \in 0 .. n /\ m - 1 < m
    BY <1>1, <2>3, <2>4
  <2>6. g[m - 1] = W(m - 1)
    <3>1. m - 1 \notin bad
      <4> HIDE DEF bad
      <4> QED BY <2>1, <2>2, <2>5
    <3> QED BY <2>5, <3>1
  <2>7. g[m] = Behind(g[m - 1], l[m][1], Get(l[m][2], g[m - 1].r, room))
    BY <1>9, <2>3, <2>4
  <2> QED BY <1>6, <2>3, <2>5, <2>6, <2>7
<1>11. g[n] = W(n)
  BY <1>1, <1>10
<1> QED BY <1>2, <1>4, <1>8, <1>11 DEF W

-----------------------------------------------------------------------------
(* The layouts of the messages *)

LEMMA BindLayouts ==
  \A type \in DOMAIN BindLayout : IsLayout(BindLayout[type])
<1> DEFINE a == Device \o Revision \o PageOf \o << <<"name", "name">> >>
           b == << <<"index", "u8">>, <<"channel", "u8">>, <<"key", "key">>, <<"name", "name">> >>
           t == << <<"index", "u8">> >> \o Device \o Revision \o << <<"mac", "mac">> >>
<1>1. IsLayout(a)
  BY DEF Device, Revision, PageOf, IsLayout, Kinds
<1>2. IsLayout(b)
  BY DEF IsLayout, Kinds
<1>3. IsLayout(Revision)
  BY DEF IsLayout, Kinds, Revision
<1>4. IsLayout(t)
  <2>1. Len(t) = 6 /\ DOMAIN t = 1 .. 6
    BY DEF Device, Revision
  <2>2. /\ t[1] = <<"index", "u8">> /\ t[2] = <<"deviceType", "u8">>
        /\ t[3] = <<"capabilities", "u8">> /\ t[4] = <<"interval", "u16">>
        /\ t[5] = <<"rev", "u16">> /\ t[6] = <<"mac", "mac">>
    BY DEF Device, Revision
  <2> HIDE DEF t
  <2> QED BY <2>1, <2>2 DEF IsLayout, Kinds
<1>5. BindLayout = [BindAnnounce |-> a, BindAccept |-> b, BindConfirm |-> Revision,
                    ChildAttached |-> t]
  BY DEF BindLayout
<1> HIDE DEF a, b, t
<1> QED BY <1>1, <1>2, <1>3, <1>4, <1>5

LEMMA TellLayouts ==
  \A type \in DOMAIN TellLayout : IsLayout(TellLayout[type])
<1> DEFINE a == Revision \o PageOf \o << <<"name", "name">> >>
<1>1. IsLayout(a)
  <2>1. Len(a) = 5 /\ DOMAIN a = 1 .. 5
    BY DEF Revision, PageOf
  <2>2. /\ a[1] = <<"rev", "u16">> /\ a[2] = <<"count", "u8">> /\ a[3] = <<"page", "u8">>
        /\ a[4] = <<"pages", "u8">> /\ a[5] = <<"name", "name">>
    BY DEF Revision, PageOf
  <2> HIDE DEF a
  <2> QED BY <2>1, <2>2 DEF IsLayout, Kinds
<1>2. IsLayout(Valued) /\ IsLayout(FromPage) /\ IsLayout(PortFields)
  BY DEF Valued, Revision, FromPage, PortFields, IsLayout, Kinds
<1>3. TellLayout = [DescribeRequest |-> FromPage, DescribeResponse |-> a, Report |-> Valued,
                    ReadRequest |-> PortFields, ReadResponse |-> Valued]
  BY DEF TellLayout
<1> HIDE DEF a
<1> QED BY <1>1, <1>2, <1>3

LEMMA ChangeLayouts ==
  \A type \in DOMAIN ChangeLayout : IsLayout(ChangeLayout[type])
<1> DEFINE a == Result \o Entry
           b == Result \o Policy
           c == << <<"target", "u8">>, <<"class", "class">>, <<"inst", "u8">>, <<"name", "name">> >>
           d == Result \o Revision
<1>1. IsLayout(Entry)
  BY DEF Entry, PortFields, IsLayout, Kinds
<1>2. IsLayout(a)
  <2> DEFINE t == Result \o Entry
  <2>1. Len(t) = 5 /\ DOMAIN t = 1 .. 5
    BY DEF Result, Entry, PortFields
  <2>2. /\ t[1] = <<"result", "result">> /\ t[2] = <<"class", "class">> /\ t[3] = <<"inst", "u8">>
        /\ t[4] = <<"port", "u8">> /\ t[5] = <<"value", "value">>
    BY DEF Result, Entry, PortFields
  <2> HIDE DEF t
  <2>3. IsLayout(t)
    BY <2>1, <2>2 DEF IsLayout, Kinds
  <2> QED BY <2>3 DEF t
<1>3. IsLayout(Policy)
  BY DEF Policy, PortFields, IsLayout, Kinds
<1>4. IsLayout(b)
  <2> DEFINE t == Result \o Policy
  <2>1. Len(t) = 6 /\ DOMAIN t = 1 .. 6
    BY DEF Result, Policy, PortFields
  <2>2. /\ t[1] = <<"result", "result">> /\ t[2] = <<"class", "class">> /\ t[3] = <<"inst", "u8">>
        /\ t[4] = <<"port", "u8">> /\ t[5] = <<"interval", "u16">> /\ t[6] = <<"deadband", "value">>
    BY DEF Result, Policy, PortFields
  <2> HIDE DEF t
  <2>3. IsLayout(t)
    BY <2>1, <2>2 DEF IsLayout, Kinds
  <2> QED BY <2>3 DEF t
<1>5. IsLayout(c)
  BY DEF IsLayout, Kinds
<1>6. IsLayout(d)
  BY DEF Revision, Result, IsLayout, Kinds
<1>7. ChangeLayout = [WriteRequest |-> Entry, WriteResponse |-> a, SetPolicyRequest |-> Policy,
                      SetPolicyResponse |-> b, SetNameRequest |-> c, SetNameResponse |-> d]
  BY DEF ChangeLayout
<1> HIDE DEF a, b, c, d
<1> QED BY <1>1, <1>2, <1>3, <1>4, <1>5, <1>6, <1>7

LEMMA ControlLayouts ==
  \A type \in DOMAIN ControlLayout : IsLayout(ControlLayout[type])
<1>1. /\ IsLayout(<<>>) /\ IsLayout(Revision) /\ IsLayout(<< <<"seq", "u16">> >>)
      /\ IsLayout(<< <<"seq", "u16">>, <<"reason", "result">> >>)
  BY DEF Revision, IsLayout, Kinds
<1>2. IsLayout(<< <<"seq", "u16">>, <<"hop", "u8">>, <<"reason", "result">> >>)
  BY DEF IsLayout, Kinds
<1> QED BY <1>1, <1>2 DEF ControlLayout

LEMMA LinkLayouts ==
  \A type \in DOMAIN LinkLayout : IsLayout(LinkLayout[type])
<1> DEFINE a == Result \o << <<"id", "u8">> >>
<1>1. /\ IsLayout(LinkSpec) /\ IsLayout(Result) /\ IsLayout(<< <<"id", "u8">> >>)
      /\ IsLayout(FromPage) /\ IsLayout(PageOf)
  BY DEF LinkSpec, Result, PageOf, FromPage, IsLayout, Kinds
<1>2. IsLayout(a)
  BY DEF Result, IsLayout, Kinds
<1>3. LinkLayout = [SetLinkRequest |-> LinkSpec, SetLinkResponse |-> a,
                    ClearLinkRequest |-> << <<"id", "u8">> >>, ClearLinkResponse |-> Result,
                    ListLinksRequest |-> FromPage, ListLinksResponse |-> PageOf]
  BY DEF LinkLayout
<1> HIDE DEF a
<1> QED BY <1>1, <1>2, <1>3

LEMMA ServiceLayouts ==
  \A type \in DOMAIN ServiceLayout : IsLayout(ServiceLayout[type])
<1> DEFINE a == << <<"flags", "u8">>, <<"channel", "u8">>, <<"ssid", "ssid">>,
                   <<"pass", "pass">>, <<"url", "url">> >>
           b == Result \o << <<"name", "name">> >>
<1>1. IsLayout(a)
  BY DEF IsLayout, Kinds
<1>2. IsLayout(b)
  BY DEF Result, IsLayout, Kinds
<1>3. ServiceLayout = [OtaRequest |-> a, OtaResponse |-> b]
  BY DEF ServiceLayout
<1> HIDE DEF a, b
<1> QED BY <1>1, <1>2, <1>3

\* Every message has the layout that one of the tables gives it.
LEMMA LayoutIs ==
  ASSUME NEW type \in DOMAIN Layout
  PROVE  IsLayout(Layout[type])
<1>1. PICK t \in Layouts : type \in DOMAIN t
  BY DEF Layout
<1> DEFINE l == CHOOSE u \in Layouts : type \in DOMAIN u
<1>2. l \in Layouts /\ type \in DOMAIN l
  BY <1>1
<1>3. Layout[type] = l[type]
  BY DEF Layout
<1> HIDE DEF l
<1>4. l \in {BindLayout, TellLayout, ChangeLayout, ControlLayout, LinkLayout, ServiceLayout}
  BY <1>2 DEF Layouts
<1>5. IsLayout(l[type])
  BY <1>2, <1>4, BindLayouts, TellLayouts, ChangeLayouts, ControlLayouts, LinkLayouts,
     ServiceLayouts
<1> QED BY <1>3, <1>5

\* What repeats has three fields at least, and none that may be empty.
LEMMA ItemIs ==
  ASSUME NEW type \in DOMAIN Item
  PROVE  /\ IsLayout(Item[type].layout) /\ Len(Item[type].layout) > 2 /\ Item[type].most \in Nat
         /\ \A k \in DOMAIN Item[type].layout : Item[type].layout[k][2] \notin {"key", "mac"}
<1> DEFINE P(l) == IsLayout(l) /\ Len(l) > 2 /\ \A k \in DOMAIN l : l[k][2] \notin {"key", "mac"}
<1>1. P(Descriptor)
  <2>1. IsLayout(Descriptor)
    BY DEF Descriptor, IsLayout, Kinds
  <2>2. Len(Descriptor) = 5 /\ \A k \in DOMAIN Descriptor : Descriptor[k][2] \notin {"key", "mac"}
    BY DEF Descriptor
  <2> QED BY <2>1, <2>2
<1>2. P(Entry)
  <2>1. IsLayout(Entry)
    BY DEF Entry, PortFields, IsLayout, Kinds
  <2>2. Len(Entry) = 4
    BY DEF Entry, PortFields
  <2>3. \A k \in DOMAIN Entry : Entry[k][2] \notin {"key", "mac"}
    BY DEF Entry, PortFields
  <2> QED BY <2>1, <2>2, <2>3
<1>3. P(LinkSpec)
  <2>1. IsLayout(LinkSpec)
    BY DEF LinkSpec, IsLayout, Kinds
  <2>2. Len(LinkSpec) = 3 /\ \A k \in DOMAIN LinkSpec : LinkSpec[k][2] \notin {"key", "mac"}
    BY DEF LinkSpec
  <2> QED BY <2>1, <2>2
<1> HIDE DEF P
<1>4. MaxInstances \in Nat /\ MaxEntries \in Nat /\ MaxPage \in Nat
  BY MessagesAssumption
<1>5. P(Item[type].layout) /\ Item[type].most \in Nat
  BY <1>1, <1>2, <1>3, <1>4 DEF Item
<1> QED BY <1>5 DEF P

-----------------------------------------------------------------------------
(* Items, one after the other *)

LEMMA ReachSteps ==
  ASSUME NEW T, NEW s \in Seq(Seq(T))
  PROVE  /\ Reach(s, 0) = 0 /\ Reach(s, Len(s)) = Len(FlattenSeq(s)) /\ Len(s) \in Nat
         /\ \A k \in 0 .. Len(s) : Reach(s, k) \in Nat
         /\ \A k \in 1 .. Len(s) : Reach(s, k) = Reach(s, k - 1) + Len(s[k]) /\ Len(s[k]) \in Nat
<1> DEFINE B == FlattenSeq(s)
<1>1. B \in Seq(T)
  BY FlattenType
<1> HIDE DEF B
<1>2. Sits(B, B, 0)
  BY <1>1 DEF Sits
<1>3. Sits(FlattenSeq(s), B, 0) /\ 0 \in Nat
  BY <1>2 DEF B
<1>4. \A k \in 1 .. Len(s) : Len(s[k]) \in Nat
  OBVIOUS
<1> QED BY <1>1, <1>3, <1>4, SitsEach

LEMMA ReachGrows ==
  ASSUME NEW T, NEW s \in Seq(Seq(T)), NEW i \in 0 .. Len(s), NEW j \in i .. Len(s)
  PROVE  Reach(s, i) =< Reach(s, j)
<1> DEFINE n == Len(s)
           bad == {k \in i .. n : Reach(s, i) > Reach(s, k)}
<1>1. /\ n \in Nat /\ \A k \in 0 .. n : Reach(s, k) \in Nat
      /\ \A k \in 1 .. n : Reach(s, k) = Reach(s, k - 1) + Len(s[k]) /\ Len(s[k]) \in Nat
  BY ReachSteps
<1>2. ASSUME bad # {} PROVE FALSE
  <2>1. bad \subseteq Nat
    BY <1>1
  <2>2. PICK m \in bad : \A k \in bad : m =< k
    BY <1>2, <2>1, LeastExists
  <2>3. m \in i .. n /\ Reach(s, i) > Reach(s, m)
    OBVIOUS
  <2>4. m # i
    BY <1>1, <2>3
  <2>5. m - 1 \in i .. n /\ m \in 1 .. n /\ m - 1 < m /\ m - 1 \in 0 .. n
    BY <1>1, <2>3, <2>4
  <2>6. m - 1 \notin bad
    <3> HIDE DEF bad
    <3> QED BY <2>1, <2>2, <2>5
  <2>7. Reach(s, i) \in Nat /\ Reach(s, m) \in Nat /\ Reach(s, m - 1) \in Nat
    <3>1. i \in 0 .. n /\ m \in 0 .. n
      BY <1>1, <2>5
    <3> HIDE DEF bad, n
    <3> QED BY <1>1, <2>5, <3>1
  <2>8. Reach(s, m) = Reach(s, m - 1) + Len(s[m]) /\ Len(s[m]) \in Nat
    BY <1>1, <2>5
  <2>9. ~(Reach(s, i) > Reach(s, m - 1))
    BY <2>5, <2>6
  <2> HIDE DEF bad
  <2> QED BY <2>3, <2>7, <2>8, <2>9
<1>3. j \in i .. n /\ j \in 0 .. n
  BY <1>1
<1>4. Reach(s, i) \in Nat /\ Reach(s, j) \in Nat
  <2> HIDE DEF bad, n
  <2> QED BY <1>1, <1>3 DEF n
<1>5. ~(Reach(s, i) > Reach(s, j))
  BY <1>2, <1>3
<1> QED BY <1>4, <1>5

LEMMA ReachCounts ==
  ASSUME NEW T, NEW s \in Seq(Seq(T)), \A k \in 1 .. Len(s) : Len(s[k]) > 0
  PROVE  Len(FlattenSeq(s)) >= Len(s)
<1> DEFINE n == Len(s)
           bad == {k \in 0 .. n : Reach(s, k) < k}
<1>1. /\ n \in Nat /\ \A k \in 0 .. n : Reach(s, k) \in Nat
      /\ \A k \in 1 .. n : Reach(s, k) = Reach(s, k - 1) + Len(s[k]) /\ Len(s[k]) \in Nat
      /\ Reach(s, 0) = 0 /\ Reach(s, n) = Len(FlattenSeq(s))
  BY ReachSteps
<1>2. ASSUME bad # {} PROVE FALSE
  <2>1. bad \subseteq Nat
    BY <1>1
  <2>2. PICK m \in bad : \A k \in bad : m =< k
    BY <1>2, <2>1, LeastExists
  <2>3. m \in 0 .. n /\ Reach(s, m) < m
    OBVIOUS
  <2>4. m # 0
    BY <1>1, <2>3
  <2>5. m \in 1 .. n /\ m - 1 < m /\ m - 1 \in 0 .. n
    BY <1>1, <2>3, <2>4
  <2>6. m - 1 \notin bad
    <3> HIDE DEF bad
    <3> QED BY <2>1, <2>2, <2>5
  <2>7. Reach(s, m - 1) >= m - 1
    <3>1. ~(Reach(s, m - 1) < m - 1)
      BY <2>5, <2>6
    <3>2. Reach(s, m - 1) \in Nat /\ m - 1 \in Nat
      BY <1>1, <2>5
    <3> QED BY <3>1, <3>2
  <2>8. Len(s[m]) > 0
    BY <2>5
  <2>9. Reach(s, m) = Reach(s, m - 1) + Len(s[m]) /\ Len(s[m]) \in Nat
    BY <1>1, <2>5
  <2>10. Reach(s, m) \in Nat /\ Reach(s, m - 1) \in Nat /\ m \in Nat
    BY <1>1, <2>3, <2>5
  <2> HIDE DEF bad
  <2> QED BY <2>3, <2>7, <2>8, <2>9, <2>10
<1> QED BY <1>1, <1>2

\* What is not empty takes a byte a field at least.
LEMMA FieldsTakeRoom ==
  ASSUME NEW l, IsLayout(l), \A k \in DOMAIN l : l[k][2] \notin {"key", "mac"}, NEW s, NEW limit,
         Holds(l, s, limit)
  PROVE  Len(FieldBytes(l, s, limit)) >= Len(l)
<1> DEFINE e == SpeltFields(l, s, limit)
<1>1. e \in Seq(Seq(Byte)) /\ Len(e) = Len(l) /\ FieldBytes(l, s, limit) = FlattenSeq(e)
  BY FieldsSpelt
<1>2. \A k \in 1 .. Len(l) : Len(e[k]) > 0
  <2>1. DOMAIN l = 1 .. Len(l)
    BY DEF IsLayout
  <2>2. \A k \in 1 .. Len(l) : IsRead(l[k][2], s[l[k][1]], limit)
    BY <2>1, ReadField DEF IsLayout, Holds
  <2>3. \A k \in 1 .. Len(l) : Len(Spelt(l[k][2], s[l[k][1]], limit)) > 0
    BY <2>1, <2>2 DEF IsRead
  <2> QED BY <2>3 DEF SpeltFields
<1> HIDE DEF e
<1> QED BY <1>1, <1>2, ReachCounts

SpeltItems(m, limit) ==
  [j \in 1 .. Len(m.items) |-> FieldBytes(Item[m.type].layout, m.items[j], limit)]

LEMMA ItemsSpelt ==
  ASSUME NEW m, m.type \in DOMAIN Item, NEW limit, HoldsItems(m, limit)
  PROVE  /\ ItemChunks(m, limit) \in Seq(Seq(Byte))
         /\ SpeltItems(m, limit) \in Seq(Seq(Byte)) /\ Len(SpeltItems(m, limit)) = Len(m.items)
         /\ FlattenSeq(ItemChunks(m, limit)) = FlattenSeq(SpeltItems(m, limit))
         /\ \A j \in 1 .. Len(m.items) : Len(SpeltItems(m, limit)[j]) > 2
<1> DEFINE n == Len(m.items)
           l == Item[m.type].layout
           F(j) == FieldChunks(l, m.items[j], limit)
           C == [j \in 1 .. n |-> F(j)]
           e == SpeltItems(m, limit)
<1>1. n \in Nat /\ DOMAIN m.items = 1 .. n /\ \A j \in 1 .. n : Holds(l, m.items[j], limit)
  BY DEF HoldsItems
<1>2. /\ IsLayout(l) /\ Len(l) > 2 /\ Len(l) \in Nat
      /\ \A k \in DOMAIN l : l[k][2] \notin {"key", "mac"}
  <2>1. IsLayout(l) /\ Len(l) > 2 /\ \A k \in DOMAIN l : l[k][2] \notin {"key", "mac"}
    BY ItemIs
  <2> QED BY <2>1 DEF IsLayout
<1> HIDE DEF l
<1>3. \A j \in 1 .. n : /\ F(j) \in Seq(Seq(Byte)) /\ FieldBytes(l, m.items[j], limit) \in Seq(Byte)
                        /\ Len(FieldBytes(l, m.items[j], limit)) >= Len(l)
  <2>1. \A j \in 1 .. n : F(j) \in Seq(Seq(Byte)) /\ FieldBytes(l, m.items[j], limit) \in Seq(Byte)
    BY <1>1, <1>2, FieldsSpelt
  <2>2. \A j \in 1 .. n : Len(FieldBytes(l, m.items[j], limit)) >= Len(l)
    BY <1>1, <1>2, FieldsTakeRoom
  <2> QED BY <2>1, <2>2
<1>4. ItemChunks(m, limit) = FlattenSeq(C)
  BY <1>1 DEF ItemChunks, l
<1>5. C \in Seq(Seq(Seq(Byte))) /\ Len(C) = n /\ \A j \in 1 .. n : C[j] = F(j)
  <2> DEFINE S == Seq(Seq(Byte))
  <2>1. \A j \in 1 .. n : F(j) \in S
    BY <1>3
  <2> HIDE DEF S, n, F
  <2>2. C \in [1 .. n -> S]
    BY <2>1
  <2>3. C \in Seq(S) /\ Len(C) = n
    BY <1>1, <2>2, SeqOfFunction
  <2> QED BY <2>3 DEF S
<1>6. /\ e \in Seq(Seq(Byte)) /\ Len(e) = n
      /\ e = [j \in 1 .. n |-> FieldBytes(l, m.items[j], limit)]
  <2> DEFINE S == Seq(Byte)
  <2>1. \A j \in 1 .. n : FieldBytes(l, m.items[j], limit) \in S
    BY <1>3
  <2>2. e = [j \in 1 .. n |-> FieldBytes(l, m.items[j], limit)]
    BY DEF SpeltItems, l
  <2> HIDE DEF S, n, e
  <2>3. e \in [1 .. n -> S]
    BY <2>1, <2>2
  <2>4. e \in Seq(S) /\ Len(e) = n
    BY <1>1, <2>3, SeqOfFunction
  <2> QED BY <2>2, <2>4 DEF S
<1> HIDE DEF C, e
<1>7. FlattenSeq(FlattenSeq(C)) = FlattenSeq([j \in 1 .. Len(C) |-> FlattenSeq(C[j])])
  BY <1>5, FlattenTwice
<1>8. [j \in 1 .. Len(C) |-> FlattenSeq(C[j])] = e
  <2>1. \A j \in 1 .. n : FlattenSeq(C[j]) = FieldBytes(l, m.items[j], limit)
    BY <1>5 DEF FieldBytes
  <2> QED BY <1>5, <1>6, <2>1
<1>9. FlattenSeq(C) \in Seq(Seq(Byte))
  BY <1>5, FlattenType
<1>10. \A j \in 1 .. n : Len(e[j]) > 2
  <2>1. \A j \in 1 .. n : Len(FieldBytes(l, m.items[j], limit)) \in Nat
    BY <1>3
  <2>2. \A j \in 1 .. n : Len(FieldBytes(l, m.items[j], limit)) > 2
    BY <1>2, <1>3, <2>1
  <2> QED BY <1>6, <2>2
<1> QED BY <1>4, <1>6, <1>7, <1>8, <1>9, <1>10 DEF e

\* What GetItems makes of one more item, and when it has them all.
HasAll(type, promised, got) ==
  IF type \in Counted THEN Len(got.v) = promised
  ELSE Remaining(got.r) = 0 \/ AtTrailer(type, got.r)

BehindItems(type, got, next) ==
  [r |-> next.r, v |-> IF next.r.ok \/ type \in Counted THEN Append(got.v, next.v) ELSE got.v]

OneItemMore(type, promised, room, got, k) ==
  CASE ~got.r.ok \/ HasAll(type, promised, got) -> got
    [] got.r.ok /\ ~HasAll(type, promised, got) /\ k > Item[type].most
         -> [got EXCEPT !.r = Failed(@)]
    [] OTHER -> BehindItems(type, got, GetFields(Item[type].layout, got.r, NoFields, room))

Collecting(type, reader, promised, room, f) ==
  f = [k \in 0 .. Item[type].most + 1 |->
         IF k = 0 THEN [r |-> reader, v |-> <<>>]
         ELSE OneItemMore(type, promised, room, f[k - 1], k)]

LEMMA GetItemsIs ==
  ASSUME NEW type, NEW r, NEW promised, NEW room, NEW f, Collecting(type, r, promised, room, f)
  PROVE  \E g : /\ Collecting(type, r, promised, room, g)
                /\ GetItems(type, r, promised, room) = g[Item[type].most + 1]
<1> DEFINE c == CHOOSE g : Collecting(type, r, promised, room, g)
<1>1. Collecting(type, r, promised, room, c)
  OBVIOUS
<1>2. GetItems(type, r, promised, room) = c[Item[type].most + 1]
  BY DEF GetItems, Collecting, OneItemMore, BehindItems, HasAll
<1> HIDE DEF c
<1> QED BY <1>1, <1>2

ItemRead(l, s, room) == FieldsRead(l, Len(l), s, NoFields, room)
FirstItems(m, k, room) ==
  [j \in 1 .. k |-> ItemRead(Item[m.type].layout, m.items[j], room)]
ItemsRead(m, room) == FirstItems(m, Len(m.items), room)

LEMMA FirstItemsMore ==
  ASSUME NEW m, NEW k \in Nat \ {0}, NEW room
  PROVE  /\ FirstItems(m, k, room)
              = Append(FirstItems(m, k - 1, room), ItemRead(Item[m.type].layout, m.items[k], room))
         /\ Len(FirstItems(m, k, room)) = k
         /\ FirstItems(m, 0, room) = <<>> /\ Len(FirstItems(m, 0, room)) = 0
<1> DEFINE R(j) == ItemRead(Item[m.type].layout, m.items[j], room)
           S == {R(j) : j \in 1 .. k}
           a == FirstItems(m, k - 1, room)
           b == FirstItems(m, k, room)
<1>1. a = [j \in 1 .. k - 1 |-> R(j)] /\ b = [j \in 1 .. k |-> R(j)]
  BY DEF FirstItems
<1>2. \A j \in 1 .. k : R(j) \in S
  OBVIOUS
<1>3. k \in 1 .. k /\ k - 1 \in Nat /\ \A j \in 1 .. k - 1 : j \in 1 .. k
  OBVIOUS
<1> HIDE DEF R, S, a, b
<1>4. a \in Seq(S) /\ Len(a) = k - 1
  <2>1. a \in [1 .. k - 1 -> S]
    BY <1>1, <1>2, <1>3
  <2> DEFINE i == k - 1
  <2>2. i \in Nat /\ a \in [1 .. i -> S]
    BY <1>3, <2>1
  <2> HIDE DEF i
  <2>3. a \in Seq(S) /\ Len(a) = i
    BY <2>2, SeqOfFunction
  <2> QED BY <2>3 DEF i
<1>5. b \in Seq(S) /\ Len(b) = k
  <2>1. b \in [1 .. k -> S]
    BY <1>1, <1>2
  <2> QED BY <2>1, SeqOfFunction
<1> DEFINE c == Append(a, R(k))
<1>6. /\ c \in Seq(S) /\ Len(c) = Len(a) + 1 /\ c[Len(a) + 1] = R(k)
      /\ \A j \in 1 .. Len(a) : c[j] = a[j]
  BY <1>2, <1>3, <1>4, AppendMore
<1> HIDE DEF c
<1>7. Len(c) = k /\ c[k] = R(k) /\ \A j \in 1 .. k - 1 : c[j] = R(j)
  <2>1. Len(a) + 1 = k /\ Len(a) = k - 1
    BY <1>4
  <2>2. \A j \in 1 .. k - 1 : a[j] = R(j)
    BY <1>1
  <2>3. Len(c) = k /\ c[k] = R(k)
    BY <1>6, <2>1
  <2>4. \A j \in 1 .. k - 1 : c[j] = a[j]
    BY <1>6, <2>1
  <2> QED BY <2>2, <2>3, <2>4
<1>8. \A j \in 1 .. k : b[j] = c[j]
  <2>1. \A j \in 1 .. k : j = k \/ j \in 1 .. k - 1
    OBVIOUS
  <2> QED BY <1>1, <1>7, <2>1
<1>9. b = c
  BY <1>5, <1>6, <1>7, <1>8, SeqEqual
<1>10. FirstItems(m, 0, room) = <<>> /\ Len(<<>>) = 0
  BY DEF FirstItems
<1> QED BY <1>5, <1>9, <1>10 DEF a, b, c, R

LEMMA RemainingAt ==
  ASSUME NEW B, NEW p
  PROVE  Remaining(At(B, p)) = Len(B) - p /\ At(B, p).ok
  BY DEF Remaining, At

\* The items are read one after the other, and no more than there are.
LEMMA ItemsAreRead ==
  ASSUME NEW m, m.type \in DOMAIN Item, NEW limit, HoldsItems(m, limit), NEW B \in Seq(Byte),
         NEW p \in Nat, Sits(FlattenSeq(ItemChunks(m, limit)), B, p), NEW room, NEW promised,
         m.type \in Counted => promised = Len(m.items),
         NEW rest \in {0, 2}, Len(B) = p + Len(FlattenSeq(ItemChunks(m, limit))) + rest,
         rest = 2 => m.type = "DescribeResponse"
  PROVE  GetItems(m.type, At(B, p), promised, room)
           = [r |-> At(B, p + Len(FlattenSeq(ItemChunks(m, limit)))), v |-> ItemsRead(m, room)]
<1> DEFINE type == m.type
           n == Len(m.items)
           l == Item[type].layout
           most == Item[type].most
           e == SpeltItems(m, limit)
           W(k) == [r |-> At(B, p + Reach(e, k)), v |-> FirstItems(m, k, room)]
           V(k) == IF k =< n THEN W(k) ELSE W(n)
           w == [k \in 0 .. most + 1 |-> V(k)]
<1>1. n \in Nat /\ most \in Nat /\ n =< most /\ DOMAIN m.items = 1 .. n
  BY ItemIs DEF HoldsItems
<1>2. \A j \in 1 .. n : Holds(l, m.items[j], limit)
  BY <1>1 DEF HoldsItems
<1>3. /\ e \in Seq(Seq(Byte)) /\ Len(e) = n
      /\ FlattenSeq(ItemChunks(m, limit)) = FlattenSeq(e)
      /\ \A j \in 1 .. n : Len(e[j]) > 2
  BY ItemsSpelt
<1>4. \A j \in 1 .. n : e[j] = FieldBytes(l, m.items[j], limit)
  BY DEF SpeltItems
<1> HIDE DEF e
<1>5. /\ Reach(e, 0) = 0 /\ Reach(e, n) = Len(FlattenSeq(e))
      /\ \A k \in 0 .. n : Reach(e, k) \in Nat
      /\ \A k \in 1 .. n : /\ Reach(e, k) = Reach(e, k - 1) + Len(e[k])
                           /\ Sits(e[k], B, p + Reach(e, k - 1))
  BY <1>3, SitsEach
<1>6. \A k \in 0 .. n : HasAll(type, promised, W(k)) <=> k = n
  <2>1. ASSUME NEW k \in 0 .. n
        PROVE  HasAll(type, promised, W(k)) <=> k = n
    <3>1. Len(FirstItems(m, k, room)) = k
      <4>1. k = 0 \/ k \in Nat \ {0}
        BY <1>1
      <4> QED BY <4>1, FirstItemsMore
    <3>2. Remaining(W(k).r) = Len(B) - (p + Reach(e, k))
      BY RemainingAt
    <3> DEFINE R(j) == Reach(e, j)
    <3>3. Len(B) = p + R(n) + rest
      BY <1>3, <1>5
    <3>4. R(k) \in Nat /\ R(n) \in Nat
      BY <1>1, <1>5
    <3>5. k # n => R(n) > R(k) + 2
      <4>1. ASSUME k # n PROVE R(n) > R(k) + 2
        <5>1. k + 1 \in 1 .. n /\ (k + 1) - 1 = k /\ k + 1 \in 0 .. n /\ n \in (k + 1) .. n
          BY <1>1, <4>1
        <5>2. R(k + 1) = R(k) + Len(e[k + 1]) /\ Len(e[k + 1]) > 2 /\ R(k + 1) \in Nat
          BY <1>3, <1>5, <5>1
        <5>3. R(k + 1) =< R(n)
          BY <1>3, <5>1, ReachGrows
        <5>4. Len(e[k + 1]) \in Nat
          BY <1>3, <5>1
        <5> HIDE DEF R
        <5> QED BY <3>4, <5>2, <5>3, <5>4
      <4> QED BY <4>1
    <3> HIDE DEF R
    <3>6. Remaining(W(k).r) = (R(n) - R(k)) + rest
      BY SMTT(60), <3>2, <3>3, <3>4 DEF R
    <3>7. k # n => Remaining(W(k).r) # 0 /\ Remaining(W(k).r) # 2
      BY <3>4, <3>5, <3>6
    <3>8. k = n => Remaining(W(k).r) = rest
      BY <3>4, <3>6
    <3>9. CASE type \in Counted
      BY <3>1, <3>9 DEF HasAll
    <3>10. CASE type \notin Counted
      <4>1. HasAll(type, promised, W(k))
              <=> Remaining(W(k).r) = 0 \/ (type = "DescribeResponse" /\ Remaining(W(k).r) = 2)
        BY <3>10 DEF HasAll, AtTrailer
      <4> HIDE DEF W
      <4> QED BY <3>7, <3>8, <4>1
    <3> QED BY <3>9, <3>10
  <2> QED BY <2>1
<1>7. ASSUME NEW k \in 1 .. n
      PROVE  GetFields(l, W(k - 1).r, NoFields, room)
               = [r |-> At(B, p + Reach(e, k)), v |-> ItemRead(l, m.items[k], room)]
  <2> DEFINE q == p + Reach(e, k - 1)
  <2>1. q \in Nat /\ Sits(FieldBytes(l, m.items[k], limit), B, q)
    <3>1. k - 1 \in 0 .. n /\ p \in Nat
      BY <1>1
    <3>2. Reach(e, k - 1) \in Nat /\ Sits(e[k], B, p + Reach(e, k - 1))
      BY ONLY <1>5, <3>1, k \in 1 .. n
    <3>3. e[k] = FieldBytes(l, m.items[k], limit)
      BY ONLY <1>4, k \in 1 .. n
    <3>4. p + Reach(e, k - 1) \in Nat
      BY ONLY <3>1, <3>2
    <3> QED BY ONLY <3>2, <3>3, <3>4
  <2>2. IsFunction(NoFields)
    BY DEF NoFields, IsFunction
  <2>3. IsLayout(l) /\ Holds(l, m.items[k], limit)
    BY <1>2, ItemIs
  <2>4. q + Len(FieldBytes(l, m.items[k], limit)) = p + Reach(e, k)
    <3>1. Len(e[k]) \in Nat /\ k - 1 \in 0 .. n
      BY <1>3
    <3>2. Reach(e, k) = Reach(e, k - 1) + Len(e[k]) /\ Reach(e, k - 1) \in Nat
      BY <1>5, <3>1
    <3>3. Len(FieldBytes(l, m.items[k], limit)) = Len(e[k])
      BY <1>4
    <3> HIDE DEF l, n
    <3> QED BY <3>1, <3>2, <3>3
  <2> HIDE DEF q, l
  <2>5. GetFields(l, At(B, q), NoFields, room)
          = [r |-> At(B, q + Len(FieldBytes(l, m.items[k], limit))),
             v |-> FieldsRead(l, Len(l), m.items[k], NoFields, room)]
    BY <2>1, <2>2, <2>3, FieldsAreRead
  <2>6. W(k - 1).r = At(B, q)
    BY DEF q
  <2> HIDE DEF W
  <2> QED BY <2>4, <2>5, <2>6 DEF ItemRead
<1>8. ASSUME NEW k \in 1 .. n
      PROVE  W(k) = OneItemMore(type, promised, room, W(k - 1), k)
  <2>1. W(k - 1).r.ok
    BY RemainingAt
  <2>2. ~HasAll(type, promised, W(k - 1)) /\ ~(k > most)
    <3>1. k - 1 \in 0 .. n /\ k - 1 # n
      BY <1>1
    <3> QED BY <1>1, <1>6, <3>1
  <2> DEFINE next == GetFields(l, W(k - 1).r, NoFields, room)
  <2>3. OneItemMore(type, promised, room, W(k - 1), k) = BehindItems(type, W(k - 1), next)
    <3> HIDE DEF W
    <3> QED BY <2>1, <2>2 DEF OneItemMore
  <2>4. next.r = At(B, p + Reach(e, k)) /\ next.v = ItemRead(l, m.items[k], room) /\ next.r.ok
    <3>1. next = [r |-> At(B, p + Reach(e, k)), v |-> ItemRead(l, m.items[k], room)]
      BY <1>7
    <3> HIDE DEF next, l
    <3>2. next.r = At(B, p + Reach(e, k)) /\ next.v = ItemRead(l, m.items[k], room)
      BY <3>1
    <3> QED BY <3>2, RemainingAt
  <2>5. W(k - 1).v = FirstItems(m, k - 1, room)
    OBVIOUS
  <2> HIDE DEF next, W
  <2>6. BehindItems(type, W(k - 1), next)
          = [r |-> At(B, p + Reach(e, k)),
             v |-> Append(FirstItems(m, k - 1, room), ItemRead(l, m.items[k], room))]
    BY <2>4, <2>5 DEF BehindItems
  <2>7. FirstItems(m, k, room) = Append(FirstItems(m, k - 1, room), ItemRead(l, m.items[k], room))
    <3>1. k \in Nat \ {0}
      BY <1>1
    <3> QED BY <3>1, FirstItemsMore
  <2> QED BY <2>3, <2>6, <2>7 DEF W
<1>9. W(0) = [r |-> At(B, p), v |-> <<>>]
  <2>1. FirstItems(m, 0, room) = <<>>
    BY FirstItemsMore, 1 \in Nat \ {0}
  <2> QED BY <1>5, <2>1
<1>10. ASSUME NEW k \in 1 .. most + 1
       PROVE  V(k) = OneItemMore(type, promised, room, V(k - 1), k)
  <2>1. CASE k =< n
    <3>1. V(k) = W(k) /\ V(k - 1) = W(k - 1) /\ k \in 1 .. n
      BY <1>1, <2>1
    <3> HIDE DEF V, W
    <3> QED BY <1>8, <3>1
  <2>2. CASE ~(k =< n)
    <3>1. V(k) = W(n)
      BY <2>2
    <3>2. V(k - 1) = W(n)
      <4>1. k - 1 = n \/ ~(k - 1 =< n)
        BY <1>1, <2>2
      <4> HIDE DEF W
      <4> QED BY <1>1, <4>1
    <3>3. HasAll(type, promised, W(n))
      BY <1>1, <1>6
    <3> HIDE DEF V, W
    <3>4. OneItemMore(type, promised, room, W(n), k) = W(n)
      BY <3>3 DEF OneItemMore
    <3> QED BY <3>1, <3>2, <3>4
  <2> QED BY <2>1, <2>2
<1>11. V(0) = W(0) /\ V(most + 1) = W(n)
  <2> HIDE DEF W
  <2> QED BY <1>1
<1> HIDE DEF V, W
<1>12. Collecting(type, At(B, p), promised, room, w)
  <2>1. \A k \in 0 .. most + 1 :
          w[k] = IF k = 0 THEN [r |-> At(B, p), v |-> <<>>]
                 ELSE OneItemMore(type, promised, room, w[k - 1], k)
    <3>1. \A k \in 0 .. most + 1 : w[k] = V(k)
      OBVIOUS
    <3>2. \A k \in 0 .. most + 1 : k # 0 => k \in 1 .. most + 1 /\ k - 1 \in 0 .. most + 1
      BY <1>1
    <3> HIDE DEF w
    <3> QED BY <1>9, <1>10, <1>11, <3>1, <3>2
  <2>2. w = [k \in 0 .. most + 1 |-> w[k]]
    OBVIOUS
  <2> HIDE DEF w
  <2> QED BY <2>1, <2>2 DEF Collecting
<1>13. PICK g : /\ Collecting(type, At(B, p), promised, room, g)
                /\ GetItems(type, At(B, p), promised, room) = g[most + 1]
  BY <1>12, GetItemsIs
<1>14. \A k \in 0 .. most + 1 :
         g[k] = IF k = 0 THEN [r |-> At(B, p), v |-> <<>>]
                ELSE OneItemMore(type, promised, room, g[k - 1], k)
  BY <1>13 DEF Collecting
<1> DEFINE bad == {k \in 0 .. most + 1 : g[k] # V(k)}
<1>15. ASSUME bad # {} PROVE FALSE
  <2>1. bad \subseteq Nat
    BY <1>1
  <2>2. PICK i \in bad : \A j \in bad : i =< j
    BY <1>15, <2>1, LeastExists
  <2>3. i \in 0 .. most + 1 /\ g[i] # V(i)
    OBVIOUS
  <2>4. i # 0
    <3>1. 0 \in 0 .. most + 1
      BY <1>1
    <3> QED BY <1>9, <1>11, <1>14, <2>3, <3>1
  <2>5. i \in 1 .. most + 1 /\ i - 1 \in 0 .. most + 1 /\ i - 1 < i
    BY <1>1, <2>3, <2>4
  <2>6. g[i - 1] = V(i - 1)
    <3>1. i - 1 \notin bad
      <4> HIDE DEF bad
      <4> QED BY <2>1, <2>2, <2>5
    <3> QED BY <2>5, <3>1
  <2>7. g[i] = OneItemMore(type, promised, room, g[i - 1], i)
    BY <1>14, <2>3, <2>4
  <2> QED BY <1>10, <2>3, <2>5, <2>6, <2>7
<1>16. g[most + 1] = V(most + 1)
  BY <1>1, <1>15
<1> QED BY <1>3, <1>5, <1>11, <1>13, <1>16 DEF W, ItemsRead

-----------------------------------------------------------------------------
(* Writing *)

WriterOf(capacity) == [bytes : Seq(Byte), capacity : {capacity}, ok : BOOLEAN]
Full(bytes, capacity) == [bytes |-> bytes, capacity |-> capacity, ok |-> TRUE]

LEMMA PutType ==
  ASSUME NEW capacity, NEW w \in WriterOf(capacity), NEW c \in Seq(Byte)
  PROVE  Put(w, c) \in WriterOf(capacity)
<1>1. w.bytes \o c \in Seq(Byte)
  BY DEF WriterOf
<1>2. [w EXCEPT !.bytes = @ \o c] \in WriterOf(capacity)
  BY <1>1 DEF WriterOf
<1>3. [w EXCEPT !.ok = FALSE] \in WriterOf(capacity)
  BY DEF WriterOf
<1> QED BY <1>2, <1>3 DEF Put

LEMMA PutFits ==
  ASSUME NEW capacity \in Nat, NEW b \in Seq(Byte), NEW c \in Seq(Byte),
         Len(b) + Len(c) =< capacity
  PROVE  Put(Full(b, capacity), c) = Full(b \o c, capacity)
<1> DEFINE w == Full(b, capacity)
<1>1. w.ok /\ w.bytes = b /\ w.capacity = capacity
  BY DEF Full
<1>2. \A t, d : [[bytes |-> b, capacity |-> capacity, ok |-> t] EXCEPT !.bytes = d]
                  = [bytes |-> d, capacity |-> capacity, ok |-> t]
  OBVIOUS
<1>3. [w EXCEPT !.bytes = b \o c] = Full(b \o c, capacity)
  BY <1>2, Zenon DEF Full
<1> HIDE DEF w
<1>4. Put(w, c) = [w EXCEPT !.bytes = b \o c]
  BY <1>1 DEF Put
<1> QED BY <1>3, <1>4 DEF w

LEMMA PutFails ==
  ASSUME NEW capacity \in Nat, NEW w \in WriterOf(capacity), NEW c \in Seq(Byte),
         ~w.ok \/ Len(w.bytes) + Len(c) > capacity
  PROVE  ~Put(w, c).ok
<1>1. w.capacity = capacity /\ Len(w.bytes) \in Nat /\ Len(c) \in Nat
  BY DEF WriterOf
<1>2. Put(w, c) = [w EXCEPT !.ok = FALSE]
  BY <1>1 DEF Put
<1>3. [w EXCEPT !.ok = FALSE].ok = FALSE
  BY DEF WriterOf
<1> QED BY <1>2, <1>3

Writing(chunks, capacity, f) ==
  f = [k \in 0 .. Len(chunks) |->
         IF k = 0 THEN Writer(capacity) ELSE Put(f[k - 1], chunks[k])]

LEMMA WrittenIs ==
  ASSUME NEW chunks, NEW capacity, NEW f, Writing(chunks, capacity, f)
  PROVE  \E g : Writing(chunks, capacity, g) /\ Written(chunks, capacity) = g[Len(chunks)]
<1> DEFINE c == CHOOSE g : Writing(chunks, capacity, g)
<1>1. Writing(chunks, capacity, c)
  OBVIOUS
<1>2. Written(chunks, capacity) = c[Len(chunks)]
  BY DEF Written, Writing
<1> HIDE DEF c
<1> QED BY <1>1, <1>2

\* What fits is written, chunk behind chunk; what does not is noticed.
LEMMA WrittenWhole ==
  ASSUME NEW s \in Seq(Seq(Byte)), NEW capacity \in Nat
  PROVE  /\ Written(s, capacity) \in WriterOf(capacity)
         /\ Written(s, capacity).ok <=> Len(FlattenSeq(s)) =< capacity
         /\ Written(s, capacity).ok => Written(s, capacity) = Full(FlattenSeq(s), capacity)
<1> DEFINE n == Len(s)
           S == WriterOf(capacity)
           a == Writer(capacity)
           H(k) == FlattenSeq(SubSeq(s, 1, k))
<1>1. n \in Nat /\ \A k \in 1 .. n : s[k] \in Seq(Byte)
  OBVIOUS
<1>2. a \in S /\ a = Full(<<>>, capacity)
  BY DEF Writer, WriterOf, Full
<1>3. \E f : Writing(s, capacity, f)
  <2> DEFINE G == [x \in (1 .. n) \X S |-> Put(x[2], s[x[1]])]
  <2>1. \A x \in (1 .. n) \X S : Put(x[2], s[x[1]]) \in S
    BY <1>1, PutType
  <2>2. G \in [(1 .. n) \X S -> S]
    BY <2>1
  <2>3. \A k \in 1 .. n, x \in S : G[k, x] = Put(x, s[k])
    OBVIOUS
  <2> HIDE DEF G, S, a, n
  <2>4. PICK h \in [0 .. n -> S] : Recursion(h, a, G, n)
    BY <1>1, <1>2, <2>2, RecursionExists
  <2>5. \A k \in 0 .. n : h[k] = IF k = 0 THEN a ELSE Put(h[k - 1], s[k])
    <3>1. \A k \in 0 .. n : h[k] = IF k = 0 THEN a ELSE G[k, h[k - 1]]
      BY <2>4 DEF Recursion
    <3>2. \A k \in 0 .. n : k # 0 => k \in 1 .. n /\ h[k - 1] \in S
      BY <1>1
    <3> QED BY <2>3, <3>1, <3>2
  <2>6. h = [k \in 0 .. n |-> h[k]]
    OBVIOUS
  <2>7. Writing(s, capacity, h)
    BY <2>5, <2>6 DEF Writing, a, n
  <2> QED BY <2>7
<1>4. PICK g : Writing(s, capacity, g) /\ Written(s, capacity) = g[n]
  BY <1>3, WrittenIs
<1>5. \A k \in 0 .. n : g[k] = IF k = 0 THEN a ELSE Put(g[k - 1], s[k])
  BY <1>4 DEF Writing
<1>6. /\ Reach(s, 0) = 0 /\ Reach(s, n) = Len(FlattenSeq(s))
      /\ \A k \in 0 .. n : Reach(s, k) \in Nat
      /\ \A k \in 1 .. n : Reach(s, k) = Reach(s, k - 1) + Len(s[k]) /\ Len(s[k]) \in Nat
  BY ReachSteps
<1>7. \A k \in 0 .. n : H(k) \in Seq(Byte) /\ Len(H(k)) = Reach(s, k)
  <2>1. ASSUME NEW k \in 0 .. n PROVE H(k) \in Seq(Byte)
    <3>1. SubSeq(s, 1, k) \in Seq(Seq(Byte))
      BY CutInTwo
    <3> QED BY <3>1, FlattenType
  <2> QED BY <2>1 DEF Reach
<1>8. \A k \in 1 .. n : H(k) = H(k - 1) \o s[k]
  <2>1. ASSUME NEW k \in 1 .. n PROVE H(k) = H(k - 1) \o s[k]
    <3> DEFINE b == SubSeq(s, 1, k - 1)
               x == s[k]
    <3>1. SubSeq(s, 1, k) = Append(b, x)
      BY FirstMore
    <3>2. b \in Seq(Seq(Byte)) /\ x \in Seq(Byte)
      <4>1. k - 1 \in 0 .. n
        BY <1>1
      <4> QED BY <1>1, <4>1, CutInTwo
    <3> HIDE DEF b, x
    <3>3. FlattenSeq(Append(b, x)) = FlattenSeq(b) \o x
      BY <3>2, FlattenMore
    <3> QED BY <3>1, <3>3 DEF b, x
  <2> QED BY <2>1
<1>9. H(0) = <<>> /\ H(n) = FlattenSeq(s)
  <2>1. SubSeq(s, 1, 0) \in Seq(Seq(Byte)) /\ Len(SubSeq(s, 1, 0)) = 0
    BY <1>1, CutInTwo
  <2>2. SubSeq(s, 1, 0) = <<>>
    BY <2>1
  <2>3. SubSeq(s, 1, n) = s
    OBVIOUS
  <2> QED BY <2>2, <2>3, FlattenEmpty
<1> DEFINE Good(k) == /\ g[k] \in S
                      /\ Reach(s, k) =< capacity => g[k] = Full(H(k), capacity)
                      /\ ~(Reach(s, k) =< capacity) => ~g[k].ok
           bad == {k \in 0 .. n : ~Good(k)}
<1> HIDE DEF H, S, a
<1>10. ASSUME bad # {} PROVE FALSE
  <2>1. bad \subseteq Nat
    BY <1>1
  <2>2. PICK i \in bad : \A j \in bad : i =< j
    BY <1>10, <2>1, LeastExists
  <2>3. i \in 0 .. n /\ ~Good(i)
    OBVIOUS
  <2>4. i # 0
    <3>1. 0 \in 0 .. n
      BY <1>1
    <3>2. g[0] = a
      BY <1>5, <3>1
    <3>3. Good(0)
      BY <1>2, <1>6, <1>9, <3>2
    <3> QED BY <2>3, <3>3
  <2>5. i \in 1 .. n /\ i - 1 \in 0 .. n /\ i - 1 < i
    BY <1>1, <2>3, <2>4
  <2>6. Good(i - 1)
    <3>1. i - 1 \notin bad
      <4> HIDE DEF bad
      <4> QED BY <2>1, <2>2, <2>5
    <3> HIDE DEF Good
    <3> QED BY <2>5, <3>1
  <2>7. g[i] = Put(g[i - 1], s[i])
    BY <1>5, <2>3, <2>4
  <2>8. s[i] \in Seq(Byte) /\ g[i - 1] \in S
    BY <1>1, <2>5, <2>6
  <2>9. g[i] \in S
    BY <2>7, <2>8, PutType DEF S
  <2>10. /\ Reach(s, i) = Reach(s, i - 1) + Len(s[i]) /\ Len(s[i]) \in Nat
         /\ Reach(s, i - 1) \in Nat /\ Reach(s, i) \in Nat
         /\ H(i - 1) \in Seq(Byte) /\ Len(H(i - 1)) = Reach(s, i - 1) /\ H(i) = H(i - 1) \o s[i]
    BY <1>6, <1>7, <1>8, <2>3, <2>5
  <2>11. CASE Reach(s, i) =< capacity
    <3>1. g[i - 1] = Full(H(i - 1), capacity)
      BY <2>6, <2>10, <2>11
    <3>2. Put(Full(H(i - 1), capacity), s[i]) = Full(H(i - 1) \o s[i], capacity)
      BY <2>8, <2>10, <2>11, PutFits
    <3>3. g[i] = Full(H(i), capacity)
      BY <2>7, <2>10, <3>1, <3>2
    <3>4. Good(i)
      BY <2>9, <2>11, <3>3
    <3> QED BY <2>3, <3>4
  <2>12. CASE ~(Reach(s, i) =< capacity)
    <3>1. ~g[i - 1].ok \/ Len(g[i - 1].bytes) + Len(s[i]) > capacity
      <4>1. CASE Reach(s, i - 1) =< capacity
        <5>1. g[i - 1].bytes = H(i - 1)
          BY <2>6, <4>1 DEF Full
        <5> HIDE DEF Good, bad
        <5>2. Len(g[i - 1].bytes) = Reach(s, i - 1)
          BY <2>10, <5>1
        <5> DEFINE t == Len(g[i - 1].bytes)
                   d == Len(s[i])
                   y == Reach(s, i - 1)
                   z == Reach(s, i)
        <5>3. z = y + d /\ d \in Nat /\ y \in Nat /\ z \in Nat /\ t = y /\ ~(z =< capacity)
          BY <2>10, <2>12, <5>2
        <5>4. t + d > capacity
          <6> HIDE DEF t, d, y, z
          <6> QED BY <5>3
        <5> QED BY <5>4
      <4>2. CASE ~(Reach(s, i - 1) =< capacity)
        BY <2>6, <4>2
      <4> QED BY <4>1, <4>2
    <3>2. ~g[i].ok
      BY <2>7, <2>8, <3>1, PutFails DEF S
    <3>3. Good(i)
      BY <2>9, <2>12, <3>2
    <3> QED BY <2>3, <3>3
  <2> QED BY <2>11, <2>12
<1>11. Good(n)
  <2> HIDE DEF Good
  <2> QED BY <1>1, <1>10
<1>12. Full(H(n), capacity).ok
  BY DEF Full
<1> QED BY <1>4, <1>6, <1>9, <1>11, <1>12 DEF S

-----------------------------------------------------------------------------
(* Messages *)

\* What a build makes of it whose names have a limit of their own.
MessageRead(m, room) ==
  [x \in DOMAIN m |->
     CASE x = "type"    -> m.type
       [] x = "items"   -> ItemsRead(m, room)
       [] x = "trailer" -> m.trailer
       [] OTHER         -> AsRead(KindIn(Layout[m.type], x), m[x], room)]

\* A value or a report that says how many there are says it in a byte.
LEMMA CountedIs ==
  ASSUME NEW type \in Counted
  PROVE  /\ type \in DOMAIN Item /\ type \in DOMAIN Layout /\ type # "DescribeResponse"
         /\ "count" \in NamesIn(Layout[type], Len(Layout[type]))
         /\ KindIn(Layout[type], "count") = "u8"
<1>1. type \in {"Report", "ReadResponse"}
  BY DEF Counted
<1>2. type \in DOMAIN TellLayout /\ TellLayout[type] = Valued
  BY <1>1 DEF TellLayout
<1>3. TellLayout \in Layouts
  BY DEF Layouts
<1> DEFINE l == CHOOSE t \in Layouts : type \in DOMAIN t
<1>4. l \in Layouts /\ type \in DOMAIN l
  BY <1>2, <1>3
<1>5. Layout[type] = l[type] /\ type \in DOMAIN Layout
  BY <1>2, <1>3 DEF Layout
<1> HIDE DEF l
<1>6. l \in {BindLayout, TellLayout, ChangeLayout, ControlLayout, LinkLayout, ServiceLayout}
  BY <1>4 DEF Layouts
<1>7. /\ type \notin DOMAIN BindLayout /\ type \notin DOMAIN ChangeLayout
      /\ type \notin DOMAIN ControlLayout /\ type \notin DOMAIN LinkLayout
      /\ type \notin DOMAIN ServiceLayout
  BY <1>1 DEF BindLayout, ChangeLayout, ControlLayout, LinkLayout, ServiceLayout
<1>8. Layout[type] = Valued
  BY <1>2, <1>4, <1>5, <1>6, <1>7
<1>9. Len(Valued) = 2 /\ DOMAIN Valued = 1 .. 2 /\ Valued[2] = <<"count", "u8">>
  BY DEF Valued, Revision
<1>10. "count" \in NamesIn(Valued, 2)
  <2>1. 2 \in 1 .. 2 /\ Valued[2][1] = "count"
    BY <1>9
  <2> QED BY <2>1 DEF NamesIn
<1>11. KindIn(Valued, "count") = "u8"
  <2>1. IsLayout(Valued)
    BY <1>5, <1>8, LayoutIs
  <2>2. (CHOOSE k \in DOMAIN Valued : Valued[k][1] = "count") = 2
    BY <1>9, <2>1 DEF IsLayout
  <2>3. KindIn(Valued, "count") = Valued[2][2]
    BY <2>2 DEF KindIn
  <2> QED BY <1>9, <2>3
<1>12. type \in DOMAIN Item /\ type # "DescribeResponse"
  BY <1>1 DEF Item
<1> QED BY <1>5, <1>8, <1>9, <1>10, <1>11, <1>12

\* No field has the name of what repeats.
LEMMA NamesAreOwn ==
  ASSUME NEW type \in DOMAIN Layout
  PROVE  /\ "items" \notin NamesIn(Layout[type], Len(Layout[type]))
         /\ "trailer" \notin NamesIn(Layout[type], Len(Layout[type]))
<1>1. IsLayout(Layout[type])
  BY LayoutIs
<1> QED BY <1>1 DEF IsLayout, NamesIn

TrailerBytes(m) == FlattenSeq(TrailerChunks(m))

\* The interval is two bytes or none, and is read where nothing else is left.
LEMMA TrailerIsRead ==
  ASSUME NEW m, NEW limit, IsMessage(m, limit)
  PROVE  /\ TrailerChunks(m) \in Seq(Seq(Byte)) /\ TrailerBytes(m) \in Seq(Byte)
         /\ Len(TrailerBytes(m)) \in {0, 2}
         /\ Len(TrailerBytes(m)) = 2 => m.type = "DescribeResponse"
         /\ m.type = "DescribeResponse" =>
              \A B \in Seq(Byte), p \in Nat :
                Sits(TrailerBytes(m), B, p) /\ Len(B) = p + Len(TrailerBytes(m))
                  => Trailer(m.type, At(B, p)) = m.trailer
<1>1. CASE m.type = "DescribeResponse" /\ m.trailer # <<>>
  <2>1. PICK n \in Half : m.trailer = <<n>>
    BY <1>1 DEF IsMessage
  <2> DEFINE c == Little(n, 2)
  <2>2. c \in Seq(Byte) /\ Len(c) = 2
    BY LittleTwo
  <2>3. m.trailer[1] = n
    BY <2>1
  <2>4. TrailerChunks(m) = <<c>>
    BY <1>1, <2>3 DEF TrailerChunks
  <2> HIDE DEF c
  <2>5. IsFlat(Byte, <<c>>, c)
    BY <2>2, FlattenOne
  <2>6. TrailerChunks(m) \in Seq(Seq(Byte)) /\ TrailerBytes(m) = c
    BY <2>4, <2>5 DEF IsFlat, TrailerBytes
  <2>7. ASSUME NEW B \in Seq(Byte), NEW p \in Nat, Sits(c, B, p), Len(B) = p + 2
        PROVE  Trailer(m.type, At(B, p)) = m.trailer
    <3>1. Remaining(At(B, p)) = 2
      <4>1. Remaining(At(B, p)) = Len(B) - p
        BY RemainingAt
      <4> QED BY <2>7, <4>1
    <3>2. Trailer(m.type, At(B, p)) = <<GetNumber(At(B, p), 2).v>>
      BY <1>1, <3>1 DEF Trailer, AtTrailer
    <3>3. GetNumber(At(B, p), 2) = [r |-> At(B, p + 2), v |-> n]
      BY <2>7, GetTwo DEF c
    <3> QED BY <2>1, <3>2, <3>3
  <2> QED BY <1>1, <2>2, <2>6, <2>7
<1>2. CASE ~(m.type = "DescribeResponse" /\ m.trailer # <<>>)
  <2>1. TrailerChunks(m) = <<>>
    BY <1>2 DEF TrailerChunks
  <2>2. TrailerBytes(m) = <<>>
    BY <2>1, FlattenEmpty DEF TrailerBytes
  <2>3. ASSUME NEW B \in Seq(Byte), NEW p \in Nat, Len(B) = p, m.type = "DescribeResponse"
        PROVE  Trailer(m.type, At(B, p)) = m.trailer
    <3>1. Remaining(At(B, p)) = 0
      <4>1. Remaining(At(B, p)) = Len(B) - p
        BY RemainingAt
      <4> QED BY <2>3, <4>1
    <3>2. Trailer(m.type, At(B, p)) = <<>>
      BY <3>1 DEF Trailer, AtTrailer
    <3> QED BY <1>2, <2>3, <3>2
  <2>4. Len(TrailerBytes(m)) = 0 /\ TrailerBytes(m) \in Seq(Byte)
    BY <2>2
  <2>5. \A B \in Seq(Byte), p \in Nat : Len(B) = p + Len(TrailerBytes(m)) => Len(B) = p
    BY <2>4
  <2>6. TrailerChunks(m) \in Seq(Seq(Byte))
    BY <2>1
  <2> QED BY <2>3, <2>4, <2>5, <2>6
<1> QED BY <1>1, <1>2

\* What is read of the fields of a message and what is read behind them is what is
\* read of it.
LEMMA MergedIsRead ==
  ASSUME NEW m, NEW limit, IsMessage(m, limit), NEW room
  PROVE  LET l == Layout[m.type]
             f == FieldsRead(l, Len(l), m, [type |-> m.type], room)
         IN  /\ m.type \notin DOMAIN Item => f = MessageRead(m, room)
             /\ m.type \in DOMAIN Item /\ m.type # "DescribeResponse" =>
                  Merged(f, [items |-> ItemsRead(m, room)]) = MessageRead(m, room)
             /\ m.type = "DescribeResponse" =>
                  Merged(f, [items |-> ItemsRead(m, room), trailer |-> m.trailer])
                    = MessageRead(m, room)
             /\ m.type \in Counted => f.count = Len(m.items)
<1> DEFINE l == Layout[m.type]
           N == NamesIn(l, Len(l))
           f == FieldsRead(l, Len(l), m, [type |-> m.type], room)
           F(x) == IF x = "type" THEN m.type ELSE AsRead(KindIn(l, x), m[x], room)
           v == ItemsRead(m, room)
           R(x) == CASE x = "type"    -> m.type
                     [] x = "items"   -> v
                     [] x = "trailer" -> m.trailer
                     [] OTHER         -> F(x)
<1>1. "items" \notin N /\ "trailer" \notin N
  BY NamesAreOwn DEF IsMessage
<1>2. f = [x \in {"type"} \cup N |-> F(x)]
  <2>1. DOMAIN [type |-> m.type] = {"type"} /\ [type |-> m.type].type = m.type
    OBVIOUS
  <2>2. f = [x \in {"type"} \cup N |->
               IF x \in {"type"} THEN [type |-> m.type][x] ELSE AsRead(KindIn(l, x), m[x], room)]
    BY <2>1 DEF FieldsRead
  <2>3. \A x : (IF x \in {"type"} THEN [type |-> m.type][x]
                ELSE AsRead(KindIn(l, x), m[x], room)) = F(x)
    BY <2>1
  <2> QED BY <2>2, <2>3
<1>3. DOMAIN m = Besides(m.type) \cup N
  <2>1. m = [x \in Besides(m.type) \cup N |-> m[x]]
    BY DEF IsMessage
  <2> QED BY <2>1
<1>4. MessageRead(m, room) = [x \in DOMAIN m |-> R(x)]
  <2>1. \A x : (CASE x = "type"    -> m.type
                  [] x = "items"   -> v
                  [] x = "trailer" -> m.trailer
                  [] OTHER         -> AsRead(KindIn(l, x), m[x], room)) = R(x)
    OBVIOUS
  <2>2. MessageRead(m, room) = [x \in DOMAIN m |->
           CASE x = "type"    -> m.type
             [] x = "items"   -> v
             [] x = "trailer" -> m.trailer
             [] OTHER         -> AsRead(KindIn(l, x), m[x], room)]
    BY DEF MessageRead
  <2> QED BY <2>1, <2>2
<1> HIDE DEF N, f, F, v, l
<1>5. \A x : x \notin {"items", "trailer"} => R(x) = F(x)
  BY DEF F
<1>6. ASSUME m.type \notin DOMAIN Item PROVE f = MessageRead(m, room)
  <2>1. DOMAIN m = {"type"} \cup N
    BY <1>3, <1>6 DEF Besides, Item
  <2>2. \A x \in DOMAIN m : R(x) = F(x)
    BY <1>1, <1>5, <2>1
  <2> HIDE DEF R
  <2> QED BY <1>2, <1>4, <2>1, <2>2
<1>7. ASSUME m.type \in DOMAIN Item, m.type # "DescribeResponse"
      PROVE  Merged(f, [items |-> v]) = MessageRead(m, room)
  <2> DEFINE g == [items |-> v]
  <2>1. DOMAIN g = {"items"} /\ g["items"] = v
    OBVIOUS
  <2>2. DOMAIN m = {"type"} \cup N \cup {"items"}
    BY <1>3, <1>7 DEF Besides
  <2>3. DOMAIN f = {"type"} \cup N /\ \A x \in {"type"} \cup N : f[x] = F(x)
    BY <1>2
  <2> HIDE DEF g
  <2>4. Merged(f, g) = [x \in {"type"} \cup N \cup {"items"} |->
                          IF x \in {"type"} \cup N THEN f[x] ELSE g[x]]
    BY <2>1, <2>3 DEF Merged
  <2>5. \A x \in {"type"} \cup N \cup {"items"} :
          (IF x \in {"type"} \cup N THEN f[x] ELSE g[x]) = R(x)
    BY <1>1, <1>5, <2>1, <2>3
  <2> HIDE DEF R
  <2>6. Merged(f, g) = [x \in DOMAIN m |-> R(x)]
    BY <2>2, <2>4, <2>5
  <2> QED BY <1>4, <2>6 DEF g
<1>8. ASSUME m.type = "DescribeResponse"
      PROVE  Merged(f, [items |-> v, trailer |-> m.trailer]) = MessageRead(m, room)
  <2> DEFINE g == [items |-> v, trailer |-> m.trailer]
  <2>1. DOMAIN g = {"items", "trailer"} /\ g["items"] = v /\ g["trailer"] = m.trailer
    OBVIOUS
  <2>2. DOMAIN m = {"type"} \cup N \cup {"items", "trailer"}
    BY <1>3, <1>8 DEF Besides, Item
  <2>3. DOMAIN f = {"type"} \cup N /\ \A x \in {"type"} \cup N : f[x] = F(x)
    BY <1>2
  <2> HIDE DEF g
  <2>4. Merged(f, g) = [x \in {"type"} \cup N \cup {"items", "trailer"} |->
                          IF x \in {"type"} \cup N THEN f[x] ELSE g[x]]
    BY <2>1, <2>3 DEF Merged
  <2>5. \A x \in {"type"} \cup N \cup {"items", "trailer"} :
          (IF x \in {"type"} \cup N THEN f[x] ELSE g[x]) = R(x)
    BY <1>1, <1>5, <2>1, <2>3
  <2> HIDE DEF R
  <2>6. Merged(f, g) = [x \in DOMAIN m |-> R(x)]
    BY <2>2, <2>4, <2>5
  <2> QED BY <1>4, <2>6 DEF g
<1>9. ASSUME m.type \in Counted PROVE f.count = Len(m.items)
  <2>1. "count" \in N /\ KindIn(l, "count") = "u8"
    BY <1>9, CountedIs DEF l, N
  <2>2. f["count"] = F("count")
    BY <1>2, <2>1
  <2>3. F("count") = m.count
    BY <2>1 DEF F, AsRead
  <2>4. m.count = Len(m.items)
    BY <1>9 DEF IsMessage
  <2> QED BY <2>2, <2>3, <2>4
<1> QED BY <1>6, <1>7, <1>8, <1>9 DEF l, f, v

\* All the bytes of a message: its fields, what repeats, and the interval.
MessageBytes(m, limit) ==
  FieldBytes(Layout[m.type], m, limit) \o FlattenSeq(ItemChunks(m, limit)) \o TrailerBytes(m)

LEMMA MessageSpelt ==
  ASSUME NEW m, NEW limit, IsMessage(m, limit)
  PROVE  LET a == FieldChunks(Layout[m.type], m, limit)
             b == ItemChunks(m, limit)
             c == TrailerChunks(m)
         IN  /\ a \o b \o c \in Seq(Seq(Byte))
             /\ FlattenSeq(a \o b \o c) = MessageBytes(m, limit)
             /\ MessageBytes(m, limit) \in Seq(Byte)
             /\ FieldBytes(Layout[m.type], m, limit) \in Seq(Byte)
             /\ FlattenSeq(b) \in Seq(Byte) /\ FlattenSeq(c) \in Seq(Byte)
             /\ m.type \notin DOMAIN Item => FlattenSeq(b) = <<>>
<1> DEFINE l == Layout[m.type]
           a == FieldChunks(l, m, limit)
           b == ItemChunks(m, limit)
           c == TrailerChunks(m)
<1>1. a \in Seq(Seq(Byte)) /\ FlattenSeq(a) \in Seq(Byte)
  <2>1. IsLayout(l) /\ Holds(l, m, limit)
    BY LayoutIs DEF IsMessage
  <2> HIDE DEF l
  <2>2. a \in Seq(Seq(Byte))
    BY <2>1, FieldsSpelt
  <2> QED BY <2>2, FlattenType
<1>2. /\ b \in Seq(Seq(Byte)) /\ FlattenSeq(b) \in Seq(Byte)
      /\ m.type \notin DOMAIN Item => FlattenSeq(b) = <<>>
  <2>1. CASE m.type \in DOMAIN Item
    <3>1. HoldsItems(m, limit)
      BY <2>1 DEF IsMessage
    <3>2. b \in Seq(Seq(Byte))
      BY <2>1, <3>1, ItemsSpelt
    <3> QED BY <2>1, <3>2, FlattenType
  <2>2. CASE m.type \notin DOMAIN Item
    <3>1. b = <<>>
      BY <2>2 DEF ItemChunks
    <3> HIDE DEF b
    <3>2. FlattenSeq(b) = <<>>
      BY <3>1, FlattenEmpty
    <3>4. <<>> \in Seq(Seq(Byte)) /\ <<>> \in Seq(Byte)
      OBVIOUS
    <3>3. b \in Seq(Seq(Byte)) /\ FlattenSeq(b) \in Seq(Byte)
      BY <3>1, <3>2, <3>4, Zenon
    <3> QED BY <3>2, <3>3
  <2> QED BY <2>1, <2>2
<1>3. c \in Seq(Seq(Byte)) /\ FlattenSeq(c) \in Seq(Byte)
  BY TrailerIsRead DEF TrailerBytes
<1> HIDE DEF a, b, c
<1>4. a \o b \in Seq(Seq(Byte)) /\ FlattenSeq(a \o b) = FlattenSeq(a) \o FlattenSeq(b)
  BY <1>1, <1>2, FlattenBoth
<1> DEFINE ab == a \o b
<1> HIDE DEF ab
<1>5. ab \in Seq(Seq(Byte)) /\ FlattenSeq(ab) = FlattenSeq(a) \o FlattenSeq(b)
  BY <1>4 DEF ab
<1>6. ab \o c \in Seq(Seq(Byte)) /\ FlattenSeq(ab \o c) = FlattenSeq(ab) \o FlattenSeq(c)
  <2>1. ab \in Seq(Seq(Byte)) /\ c \in Seq(Seq(Byte))
    BY <1>3, <1>5
  <2>2. FlattenSeq(ab \o c) = FlattenSeq(ab) \o FlattenSeq(c)
    BY <2>1, FlattenBoth
  <2> DEFINE S == Seq(Byte)
  <2>3. ab \in Seq(S) /\ c \in Seq(S)
    BY <2>1
  <2> HIDE DEF S
  <2>4. ab \o c \in Seq(S)
    BY <2>3
  <2> QED BY <2>2, <2>4 DEF S
<1>7. FlattenSeq(ab \o c) = FlattenSeq(a) \o FlattenSeq(b) \o FlattenSeq(c)
  BY <1>5, <1>6
<1>8. FlattenSeq(a) = FieldBytes(l, m, limit) /\ FlattenSeq(c) = TrailerBytes(m)
  BY DEF a, c, FieldBytes, TrailerBytes
<1>9. FlattenSeq(ab \o c) \in Seq(Byte)
  BY <1>6, FlattenType
<1>10. MessageBytes(m, limit) = FlattenSeq(a) \o FlattenSeq(b) \o FlattenSeq(c)
  BY <1>8 DEF MessageBytes, b
<1> QED BY <1>1, <1>2, <1>3, <1>6, <1>7, <1>8, <1>9, <1>10 DEF ab, a, b, c

\* Every message that a build writes whole, the other reads whole, whatever its
\* fields hold: as it was, but for names that the other build has to cut.
THEOREM EncodedIsRead ==
  ASSUME NEW m, NEW limit, IsMessage(m, limit), Encode(m, limit).ok, NEW room
  PROVE  /\ Encode(m, limit).bytes \in Seq(Byte)
         /\ Len(Encode(m, limit).bytes) =< MaxPayload
         /\ Decode(m.type, Encode(m, limit).bytes, room) = [ok |-> TRUE, m |-> MessageRead(m, room)]
<1> DEFINE type == m.type
           l == Layout[type]
           B == MessageBytes(m, limit)
           x == FieldBytes(l, m, limit)
           y == FlattenSeq(ItemChunks(m, limit))
           z == TrailerBytes(m)
           start == [type |-> type]
           f == FieldsRead(l, Len(l), m, start, room)
           head == [r |-> At(B, Len(x)), v |-> f]
           q == Len(x) + Len(y)
<1>1. MaxPayload \in Nat
  BY MessagesAssumption
<1>2. /\ B \in Seq(Byte) /\ x \in Seq(Byte) /\ y \in Seq(Byte) /\ z \in Seq(Byte)
      /\ B = x \o y \o z
      /\ type \notin DOMAIN Item => y = <<>>
  <2>1. B = x \o y \o z
    BY DEF MessageBytes
  <2> HIDE DEF B, x, y, z
  <2> QED BY <2>1, MessageSpelt DEF B, x, y, z, TrailerBytes
<1>3. Encode(m, limit) = Full(B, MaxPayload) /\ Len(B) =< MaxPayload
  <2> DEFINE s == FieldChunks(l, m, limit) \o ItemChunks(m, limit) \o TrailerChunks(m)
  <2>1. s \in Seq(Seq(Byte)) /\ FlattenSeq(s) = B
    BY MessageSpelt
  <2>2. Encode(m, limit) = Written(s, MaxPayload)
    BY DEF Encode
  <2> HIDE DEF s, B
  <2> QED BY <1>1, <2>1, <2>2, WrittenWhole
<1>4. Encode(m, limit).bytes = B
  BY <1>3 DEF Full
<1> HIDE DEF B, x, y, z
<1>5. /\ Len(x) \in Nat /\ Len(y) \in Nat /\ Len(z) \in Nat
      /\ Len(B) = Len(x) + Len(y) + Len(z)
      /\ Sits(x, B, 0) /\ Sits(y, B, Len(x)) /\ Sits(z, B, q)
  <2>1. Sits(B, B, 0)
    BY <1>2 DEF Sits
  <2> DEFINE xy == x \o y
  <2>2. xy \in Seq(Byte) /\ Len(xy) = q /\ B = xy \o z
    BY <1>2
  <2> HIDE DEF xy
  <2>4. Sits(xy, B, 0) /\ Sits(z, B, 0 + Len(xy))
    BY ZenonT(60), <1>2, <2>1, <2>2, SitsBoth
  <2>5. Sits(x, B, 0) /\ Sits(y, B, 0 + Len(x))
    BY <1>2, <2>4, SitsBoth DEF xy
  <2>6. Len(x) \in Nat /\ Len(y) \in Nat /\ Len(z) \in Nat
    BY <1>2
  <2>7. Len(B) = Len(xy) + Len(z)
    <3>1. xy \in Seq(Byte) /\ z \in Seq(Byte) /\ B = xy \o z
      BY <1>2, <2>2
    <3> QED BY <3>1
  <2>8. 0 + Len(x) = Len(x) /\ 0 + Len(xy) = q
    BY <2>2, <2>6
  <2> QED BY <2>2, <2>4, <2>5, <2>6, <2>7, <2>8
<1>6. IsLayout(l) /\ Holds(l, m, limit)
  BY LayoutIs DEF IsMessage
<1>7. GetFields(l, Reader(B), start, room) = head
  <2>1. Reader(B) = At(B, 0)
    BY DEF Reader, At
  <2>2. IsFunction(start)
    BY DEF IsFunction
  <2> DEFINE p == 0
  <2>3. Sits(FieldBytes(l, m, limit), B, p) /\ p \in Nat
    BY <1>5 DEF x
  <2> HIDE DEF start, l, p
  <2>6. GetFields(l, At(B, p), start, room)
          = [r |-> At(B, p + Len(FieldBytes(l, m, limit))), v |-> FieldsRead(l, Len(l), m, start, room)]
    <3>1. B \in Seq(Byte)
      BY <1>2
    <3> HIDE DEF q, head, f
    <3> QED BY <1>6, <2>2, <2>3, <3>1, FieldsAreRead
  <2>4. GetFields(l, At(B, 0), start, room)
          = [r |-> At(B, 0 + Len(FieldBytes(l, m, limit))), v |-> FieldsRead(l, Len(l), m, start, room)]
    BY <2>6 DEF p
  <2>5. 0 + Len(x) = Len(x)
    BY <1>5
  <2> QED BY <2>1, <2>4, <2>5 DEF x
<1>8. head.r = At(B, Len(x)) /\ head.v = f /\ head.r.ok
  BY RemainingAt
<1>9. \A t : At(B, t).ok
  BY RemainingAt
<1>10. ASSUME type \notin DOMAIN Item
       PROVE  Decode(type, B, room) = [ok |-> TRUE, m |-> MessageRead(m, room)]
  <2>1. f = MessageRead(m, room)
    BY <1>10, MergedIsRead
  <2> HIDE DEF head, f, start, l
  <2>2. Decode(type, B, room) = [ok |-> head.r.ok, m |-> head.v]
    BY <1>7, <1>10 DEF Decode, start, l
  <2> QED BY <1>8, <2>1, <2>2
<1>11. ASSUME type \in DOMAIN Item
       PROVE  /\ GetItems(type, head.r, IF type \in Counted THEN head.v.count ELSE 0, room)
                   = [r |-> At(B, q), v |-> ItemsRead(m, room)]
              /\ type = "DescribeResponse" => Trailer(type, At(B, q)) = m.trailer
  <2> DEFINE promised == IF type \in Counted THEN head.v.count ELSE 0
  <2>1. HoldsItems(m, limit)
    BY <1>11 DEF IsMessage
  <2>2. type \in Counted => promised = Len(m.items)
    <3>1. type \in Counted => f.count = Len(m.items)
      BY MergedIsRead
    <3> HIDE DEF head, f
    <3> QED BY <1>8, <3>1
  <2>3. Len(z) \in {0, 2} /\ (Len(z) = 2 => type = "DescribeResponse")
    BY TrailerIsRead DEF z
  <2>4. Len(B) = Len(x) + Len(FlattenSeq(ItemChunks(m, limit))) + Len(z)
    BY <1>5 DEF y
  <2>5. Sits(FlattenSeq(ItemChunks(m, limit)), B, Len(x))
    BY <1>5 DEF y
  <2>6. type = "DescribeResponse" => Trailer(type, At(B, q)) = m.trailer
    <3>1. Sits(TrailerBytes(m), B, q) /\ Len(B) = q + Len(TrailerBytes(m)) /\ q \in Nat
      BY <1>5 DEF z
    <3> HIDE DEF q
    <3> QED BY <1>2, <3>1, TrailerIsRead
  <2> DEFINE p    == Len(x)
             rest == Len(z)
  <2>8. /\ p \in Nat /\ rest \in {0, 2} /\ (rest = 2 => m.type = "DescribeResponse")
        /\ m.type \in DOMAIN Item /\ (m.type \in Counted => promised = Len(m.items))
        /\ Sits(FlattenSeq(ItemChunks(m, limit)), B, p) /\ B \in Seq(Byte)
        /\ Len(B) = p + Len(FlattenSeq(ItemChunks(m, limit))) + rest
    BY <1>2, <1>5, <1>11, <2>2, <2>3, <2>4, <2>5
  <2> HIDE DEF promised, head, p, rest, q, f
  <2>9. GetItems(m.type, At(B, p), promised, room)
          = [r |-> At(B, p + Len(FlattenSeq(ItemChunks(m, limit)))), v |-> ItemsRead(m, room)]
    BY ONLY ZenonT(60), <2>1, <2>8, ItemsAreRead
  <2>7. GetItems(type, At(B, Len(x)), promised, room)
          = [r |-> At(B, Len(x) + Len(FlattenSeq(ItemChunks(m, limit)))), v |-> ItemsRead(m, room)]
    BY <2>9 DEF p
  <2> QED BY <1>8, <2>6, <2>7 DEF promised, y, q
<1>12. ASSUME type \in DOMAIN Item, type # "DescribeResponse"
       PROVE  Decode(type, B, room) = [ok |-> TRUE, m |-> MessageRead(m, room)]
  <2> DEFINE body == GetItems(type, head.r, IF type \in Counted THEN head.v.count ELSE 0, room)
  <2>1. Merged(f, [items |-> ItemsRead(m, room)]) = MessageRead(m, room)
    BY <1>12, MergedIsRead
  <2>2. body.r = At(B, q) /\ body.v = ItemsRead(m, room)
    BY <1>11, <1>12
  <2> HIDE DEF body, head, f, start, l, q
  <2>3. Decode(type, B, room) = [ok |-> body.r.ok, m |-> Merged(head.v, [items |-> body.v])]
    BY <1>7, <1>8, <1>12 DEF Decode, start, l, body
  <2> QED BY <1>8, <1>9, <2>1, <2>2, <2>3
<1>13. ASSUME type = "DescribeResponse"
       PROVE  Decode(type, B, room) = [ok |-> TRUE, m |-> MessageRead(m, room)]
  <2> DEFINE body == GetItems(type, head.r, IF type \in Counted THEN head.v.count ELSE 0, room)
  <2>1. Merged(f, [items |-> ItemsRead(m, room), trailer |-> m.trailer]) = MessageRead(m, room)
    BY <1>13, MergedIsRead
  <2>2. type \in DOMAIN Item
    BY <1>13 DEF Item
  <2>3. body.r = At(B, q) /\ body.v = ItemsRead(m, room) /\ Trailer(type, body.r) = m.trailer
    BY <1>11, <1>13, <2>2
  <2> HIDE DEF body, head, f, start, l, q
  <2>4. Decode(type, B, room)
          = [ok |-> body.r.ok,
             m |-> Merged(head.v, [items |-> body.v, trailer |-> Trailer(type, body.r)])]
    BY <1>7, <1>8, <1>13, <2>2 DEF Decode, start, l, body
  <2> QED BY <1>8, <1>9, <2>1, <2>3, <2>4
<1> QED BY <1>2, <1>3, <1>4, <1>10, <1>12, <1>13

\* A field that fits is read as it was.
LEMMA FieldIsKept ==
  ASSUME NEW l, IsLayout(l), NEW s, NEW limit \in Nat, Holds(l, s, limit), NEW room \in Nat,
         limit =< room, NEW x \in NamesIn(l, Len(l))
  PROVE  AsRead(KindIn(l, x), s[x], room) = s[x]
<1>1. DOMAIN l = 1 .. Len(l) /\ \A j, k \in DOMAIN l : l[j][1] = l[k][1] => j = k
  BY DEF IsLayout
<1>2. PICK k \in DOMAIN l : x = l[k][1]
  BY <1>1 DEF NamesIn
<1>3. (CHOOSE j \in DOMAIN l : l[j][1] = x) = k
  BY <1>1, <1>2
<1>4. KindIn(l, x) = l[k][2]
  BY <1>3 DEF KindIn
<1>5. IsOf(l[k][2], s[x], limit)
  BY <1>2 DEF Holds
<1>6. CASE l[k][2] = "name"
  <2>1. IsText(s[x], limit)
    BY <1>5, <1>6 DEF IsOf
  <2>2. IsText(s[x], room)
    BY <2>1 DEF IsText
  <2>3. Cut(s[x], room) = s[x]
    BY <2>2, CutWhole
  <2> QED BY <1>4, <1>6, <2>3 DEF AsRead
<1>7. CASE l[k][2] # "name"
  BY <1>4, <1>7 DEF AsRead
<1> QED BY <1>6, <1>7

\* Names that were written whole fit a build whose limit is no smaller.
LEMMA MessageIsKept ==
  ASSUME NEW m, NEW limit \in Nat, IsMessage(m, limit), NEW room \in Nat, limit =< room
  PROVE  MessageRead(m, room) = m
<1> DEFINE l == Layout[m.type]
           N == NamesIn(l, Len(l))
           i == Item[m.type].layout
<1>1. IsLayout(l) /\ Holds(l, m, limit) /\ m = [x \in Besides(m.type) \cup N |-> m[x]]
  BY LayoutIs DEF IsMessage
<1>2. \A x \in N : AsRead(KindIn(l, x), m[x], room) = m[x]
  <2> HIDE DEF l
  <2> QED BY <1>1, FieldIsKept
<1>3. ASSUME m.type \in DOMAIN Item
      PROVE  ItemsRead(m, room) = m.items
  <2>1. /\ IsLayout(i) /\ DOMAIN m.items = 1 .. Len(m.items)
        /\ \A j \in 1 .. Len(m.items) : Holds(i, m.items[j], limit)
    BY <1>3, ItemIs DEF IsMessage, HoldsItems
  <2>2. /\ m.items = [j \in 1 .. Len(m.items) |-> m.items[j]]
        /\ \A j \in 1 .. Len(m.items) : IsItem(i, m.items[j])
    BY <1>3 DEF IsMessage
  <2>3. ItemsRead(m, room) = [j \in 1 .. Len(m.items) |-> ItemRead(i, m.items[j], room)]
    BY DEF ItemsRead, FirstItems
  <2> HIDE DEF i
  <2>4. ASSUME NEW j \in 1 .. Len(m.items)
        PROVE  ItemRead(i, m.items[j], room) = m.items[j]
    <3> DEFINE s == m.items[j]
               D == NamesIn(i, Len(i))
    <3>1. s = [x \in D |-> s[x]] /\ Holds(i, s, limit)
      BY <2>1, <2>2 DEF IsItem
    <3> HIDE DEF s
    <3>2. DOMAIN NoFields = {}
      BY DEF NoFields
    <3>3. ItemRead(i, s, room) = [x \in D |-> AsRead(KindIn(i, x), s[x], room)]
      BY <3>2 DEF ItemRead, FieldsRead
    <3>4. \A x \in D : AsRead(KindIn(i, x), s[x], room) = s[x]
      BY <2>1, <3>1, FieldIsKept
    <3>5. ItemRead(i, s, room) = [x \in D |-> s[x]]
      BY <3>3, <3>4
    <3> QED BY <3>1, <3>5 DEF s
  <2> QED BY <2>2, <2>3, <2>4
<1> DEFINE R(x) == CASE x = "type"    -> m.type
                     [] x = "items"   -> ItemsRead(m, room)
                     [] x = "trailer" -> m.trailer
                     [] OTHER         -> AsRead(KindIn(l, x), m[x], room)
<1>4. MessageRead(m, room) = [x \in DOMAIN m |-> R(x)]
  BY DEF MessageRead
<1>5. ASSUME NEW x \in DOMAIN m PROVE R(x) = m[x]
  <2>1. x \in Besides(m.type) \cup N
    BY <1>1
  <2>2. CASE x \in N
    <3>1. x \notin {"items", "trailer"}
      BY <2>2, NamesAreOwn DEF IsMessage
    <3> QED BY <1>2, <2>2, <3>1
  <2>3. CASE x \in Besides(m.type)
    <3>1. x \in {"type", "items", "trailer"} /\ (x = "items" => m.type \in DOMAIN Item)
      BY <2>3 DEF Besides
    <3> HIDE DEF l, N
    <3> QED BY <1>3, <3>1
  <2> QED BY <2>1, <2>2, <2>3
<1> HIDE DEF R, l, N
<1>6. [x \in DOMAIN m |-> R(x)] = [x \in DOMAIN m |-> m[x]]
  BY <1>5
<1>7. m = [x \in DOMAIN m |-> m[x]]
  BY <1>1
<1> QED BY <1>4, <1>6, <1>7

\* Between builds of the same names, or from a shorter one to a longer: what was
\* written whole is read as it was.
THEOREM WhatFitsIsKept ==
  ASSUME NEW m, NEW limit \in Nat, IsMessage(m, limit), Encode(m, limit).ok,
         NEW room \in Nat, limit =< room
  PROVE  Decode(m.type, Encode(m, limit).bytes, room) = [ok |-> TRUE, m |-> m]
BY EncodedIsRead, MessageIsKept

-----------------------------------------------------------------------------
(* Frames *)

\* A frame as its sender has it.
IsFrame(f) ==
  /\ f.code \in Byte /\ f.flags \in Byte /\ f.seq \in Half
  /\ f.dest \in Seq(1 .. 254) /\ Len(f.dest) =< MaxDepth
  /\ f.src \in Seq(1 .. 254) /\ Len(f.src) =< MaxDepth
  /\ f.payload \in Seq(Byte) /\ Len(f.payload) =< MaxPayload

\* What sits somewhere is what is cut out there.
LEMMA CutOut ==
  ASSUME NEW B \in Seq(Byte), NEW p \in Nat, NEW c \in Seq(Byte), Sits(c, B, p)
  PROVE  SubSeq(B, p + 1, p + Len(c)) = c
<1> DEFINE n == Len(c)
           t == SubSeq(B, p + 1, p + n)
<1>1. n \in Nat /\ Len(B) \in Nat /\ p + n =< Len(B) /\ \A i \in 1 .. n : B[p + i] = c[i]
  BY DEF Sits
<1> HIDE DEF n
<1>2. t \in Seq(Byte) /\ Len(t) = n /\ \A i \in 1 .. n : t[i] = B[p + i]
  BY <1>1
<1> HIDE DEF t
<1>3. \A i \in 1 .. n : t[i] = c[i]
  BY <1>1, <1>2
<1>4. t = c
  BY <1>2, <1>3, SeqEqual DEF n
<1> QED BY <1>4 DEF t, n

LEMMA ConcatTwo ==
  ASSUME NEW T, NEW a \in Seq(T), NEW b \in Seq(T)
  PROVE  a \o b \in Seq(T) /\ Len(a \o b) = Len(a) + Len(b)
  OBVIOUS

\* Seven parts, one behind the other.
AreParts(a, b, c, d, e, g, h, B) ==
  /\ B \in Seq(Byte)
  /\ Len(B) = Len(a) + Len(b) + Len(c) + Len(d) + Len(e) + Len(g) + Len(h)
  /\ Sits(a, B, 0) /\ Sits(b, B, Len(a)) /\ Sits(c, B, Len(a) + Len(b))
  /\ Sits(d, B, Len(a) + Len(b) + Len(c))
  /\ Sits(e, B, Len(a) + Len(b) + Len(c) + Len(d))
  /\ Sits(g, B, Len(a) + Len(b) + Len(c) + Len(d) + Len(e))
  /\ Sits(h, B, Len(a) + Len(b) + Len(c) + Len(d) + Len(e) + Len(g))

LEMMA SevenParts ==
  ASSUME NEW a \in Seq(Byte), NEW b \in Seq(Byte), NEW c \in Seq(Byte), NEW d \in Seq(Byte),
         NEW e \in Seq(Byte), NEW g \in Seq(Byte), NEW h \in Seq(Byte), NEW B,
         B = a \o b \o c \o d \o e \o g \o h
  PROVE  AreParts(a, b, c, d, e, g, h, B)
<1> DEFINE z  == 0
           c2 == a \o b
           c3 == c2 \o c
           c4 == c3 \o d
           c5 == c4 \o e
           c6 == c5 \o g
<1>1. c2 \in Seq(Byte) /\ Len(c2) = Len(a) + Len(b)
  OBVIOUS
<1>2. B = c6 \o h
  OBVIOUS
<1>3. z \in Nat /\ \A n \in Nat : z + n = n
  OBVIOUS
<1>4. Len(a) \in Nat /\ Len(b) \in Nat /\ Len(c) \in Nat /\ Len(d) \in Nat /\ Len(e) \in Nat
      /\ Len(g) \in Nat /\ Len(h) \in Nat
  OBVIOUS
<1>5. c3 \in Seq(Byte) /\ Len(c3) = Len(c2) + Len(c)
  <2> HIDE DEF c2
  <2> QED BY <1>1, ConcatTwo
<1>6. c4 \in Seq(Byte) /\ Len(c4) = Len(c3) + Len(d)
  <2> HIDE DEF c3
  <2> QED BY <1>5, ConcatTwo
<1>7. c5 \in Seq(Byte) /\ Len(c5) = Len(c4) + Len(e)
  <2> HIDE DEF c4
  <2> QED BY <1>6, ConcatTwo
<1>8. c6 \in Seq(Byte) /\ Len(c6) = Len(c5) + Len(g)
  <2> HIDE DEF c5
  <2> QED BY <1>7, ConcatTwo
<1>9. B \in Seq(Byte) /\ Len(B) = Len(c6) + Len(h)
  <2> HIDE DEF c6
  <2> QED BY <1>2, <1>8, ConcatTwo
<1>10. Sits(B, B, z)
  <2> HIDE DEF c6
  <2> QED BY <1>3, <1>9 DEF Sits
<1> HIDE DEF z
<1>11. Sits(c6, B, z) /\ Sits(h, B, z + Len(c6))
  <2> HIDE DEF c6
  <2>1. Sits(c6 \o h, B, z)
    BY <1>2, <1>10
  <2> QED BY <1>3, <1>8, <1>9, <2>1, SitsBoth
<1>12. Sits(c5, B, z) /\ Sits(g, B, z + Len(c5))
  <2> HIDE DEF c5
  <2> QED BY <1>3, <1>7, <1>9, <1>11, SitsBoth
<1>13. Sits(c4, B, z) /\ Sits(e, B, z + Len(c4))
  <2> HIDE DEF c4
  <2> QED BY <1>3, <1>6, <1>9, <1>12, SitsBoth
<1>14. Sits(c3, B, z) /\ Sits(d, B, z + Len(c3))
  <2> HIDE DEF c3
  <2> QED BY <1>3, <1>5, <1>9, <1>13, SitsBoth
<1>15. Sits(c2, B, z) /\ Sits(c, B, z + Len(c2))
  <2> HIDE DEF c2
  <2> QED BY <1>1, <1>3, <1>9, <1>14, SitsBoth
<1>16. Sits(a, B, z) /\ Sits(b, B, z + Len(a))
  BY <1>3, <1>9, <1>15, SitsBoth
<1> HIDE DEF c2, c3, c4, c5, c6
<1>17. /\ Len(c3) = Len(a) + Len(b) + Len(c)
       /\ Len(c4) = Len(a) + Len(b) + Len(c) + Len(d)
       /\ Len(c5) = Len(a) + Len(b) + Len(c) + Len(d) + Len(e)
       /\ Len(c6) = Len(a) + Len(b) + Len(c) + Len(d) + Len(e) + Len(g)
  BY <1>1, <1>5, <1>6, <1>7, <1>8
<1>18. Len(B) = Len(a) + Len(b) + Len(c) + Len(d) + Len(e) + Len(g) + Len(h)
  BY <1>9, <1>17
<1>19. /\ z + Len(a) = Len(a) /\ z + Len(c2) = Len(c2) /\ z + Len(c3) = Len(c3)
       /\ z + Len(c4) = Len(c4) /\ z + Len(c5) = Len(c5) /\ z + Len(c6) = Len(c6)
  <2>1. /\ Len(a) \in Nat /\ Len(c2) \in Nat /\ Len(c3) \in Nat /\ Len(c4) \in Nat
        /\ Len(c5) \in Nat /\ Len(c6) \in Nat
    BY <1>1, <1>4, <1>17
  <2> QED BY <1>3, <2>1
<1>20. /\ Sits(b, B, Len(a)) /\ Sits(c, B, Len(c2)) /\ Sits(d, B, Len(c3))
       /\ Sits(e, B, Len(c4)) /\ Sits(g, B, Len(c5)) /\ Sits(h, B, Len(c6))
  BY <1>11, <1>12, <1>13, <1>14, <1>15, <1>16, <1>19
<1>21. Sits(a, B, 0)
  BY <1>16 DEF z
<1> QED BY <1>1, <1>9, <1>17, <1>18, <1>20, <1>21 DEF AreParts

LEMMA TwoInOne ==
  ASSUME NEW D \in 0 .. 15, NEW S \in 0 .. 15
  PROVE  (16 * D + S) \div 16 = D /\ (16 * D + S) % 16 = S
<1> DEFINE n == 16 * D + S
<1>1. n \in Nat /\ n = 16 * D + S
  OBVIOUS
<1>2. n \div 16 \in Int /\ n % 16 \in 0 .. 15 /\ n = 16 * (n \div 16) + (n % 16)
  BY <1>1
<1> HIDE DEF n
<1> QED BY <1>1, <1>2 DEF n

\* What a header holds is read out of it, and what is behind it is the payload.
THEOREM FrameIsRead ==
  ASSUME NEW f, IsFrame(f)
  PROVE  /\ EncodeFrame(f) \in Seq(Byte)
         /\ DecodeFrame(EncodeFrame(f))
              = [error |-> "None", code |-> f.code, flags |-> f.flags, seq |-> f.seq,
                 dest |-> f.dest, src |-> f.src, payload |-> f.payload]
<1> DEFINE M == MaxDepth
           D == Len(f.dest)
           S == Len(f.src)
           h == <<Version, f.code, f.flags>>
           q == Little(f.seq, 2)
           n == 16 * D + S
           l == <<n>>
           d == Padded(f.dest)
           s == Padded(f.src)
           p == f.payload
           B == Magic \o h \o q \o l \o d \o s \o p
           P == Len(p)
           code  == f.code
           flags == f.flags
<1>1. /\ M \in Nat /\ M < 16 /\ MaxPayload \in Nat
      /\ code \in Byte /\ flags \in Byte /\ f.seq \in Half /\ p \in Seq(Byte)
      /\ P \in Nat /\ P =< MaxPayload
  BY MessagesAssumption, PathLengthsFitOneByte DEF IsFrame
<1>2. /\ d \in Seq(Byte) /\ Len(d) = M /\ D \in Nat /\ D =< M
      /\ \A k \in 1 .. D : IsLegalHop(d[k])
      /\ SubSeq(d, 1, D) = f.dest
  <2>1. f.dest \in Seq(1 .. 254) /\ Len(f.dest) =< MaxDepth
    BY DEF IsFrame
  <2> QED BY <2>1, PaddedIs
<1>3. /\ s \in Seq(Byte) /\ Len(s) = M /\ S \in Nat /\ S =< M
      /\ \A k \in 1 .. S : IsLegalHop(s[k])
      /\ SubSeq(s, 1, S) = f.src
  <2>1. f.src \in Seq(1 .. 254) /\ Len(f.src) =< MaxDepth
    BY DEF IsFrame
  <2> QED BY <2>1, PaddedIs
<1>4. Magic \in Seq(Byte) /\ Len(Magic) = 2
  <2>1. Magic \in [1 .. 2 -> Byte] /\ 2 \in Nat
    BY FrameAssumption DEF Byte
  <2> QED BY <2>1, SeqOfFunction
<1>5. /\ h \in Seq(Byte) /\ Len(h) = 3 /\ h[1] = Version /\ h[2] = code /\ h[3] = flags
  <2>1. Version \in Byte
    BY FrameAssumption DEF Byte
  <2> HIDE DEF code, flags
  <2>2. <<Version, code, flags>> \in Seq(Byte) /\ Len(<<Version, code, flags>>) = 3
    BY <1>1, <2>1
  <2> QED BY <2>2 DEF code, flags
<1>6. q \in Seq(Byte) /\ Len(q) = 2 /\ Number(q) = f.seq
  BY <1>1, LittleTwo
<1>7. n \in Byte /\ n \div 16 = D /\ n % 16 = S
  <2> HIDE DEF D, S, M
  <2>1. n \in Nat /\ n =< 255
    BY <1>1, <1>2, <1>3
  <2>2. n \div 16 = D /\ n % 16 = S
    <3>1. D \in 0 .. 15 /\ S \in 0 .. 15
      BY <1>1, <1>2, <1>3
    <3> QED BY <3>1, TwoInOne
  <2> QED BY <2>1, <2>2, ByteIs
<1>8. l \in Seq(Byte) /\ Len(l) = 1 /\ l[1] = n
  <2> HIDE DEF n
  <2> QED BY <1>7, OneByte
<1> HIDE DEF h, q, l, d, s, p, n
<1>9. B = Magic \o h \o q \o l \o d \o s \o p
  OBVIOUS
<1> HIDE DEF B
<1>10. /\ B \in Seq(Byte)
       /\ Len(B) = Len(Magic) + Len(h) + Len(q) + Len(l) + Len(d) + Len(s) + Len(p)
       /\ Sits(Magic, B, 0) /\ Sits(h, B, Len(Magic)) /\ Sits(q, B, Len(Magic) + Len(h))
       /\ Sits(l, B, Len(Magic) + Len(h) + Len(q))
       /\ Sits(d, B, Len(Magic) + Len(h) + Len(q) + Len(l))
       /\ Sits(s, B, Len(Magic) + Len(h) + Len(q) + Len(l) + Len(d))
       /\ Sits(p, B, Len(Magic) + Len(h) + Len(q) + Len(l) + Len(d) + Len(s))
  <2>1. AreParts(Magic, h, q, l, d, s, p, B)
    <3>1. p \in Seq(Byte)
      BY <1>1 DEF p
    <3> HIDE DEF M, D, S, P, code, flags
    <3> QED BY <1>2, <1>3, <1>4, <1>5, <1>6, <1>8, <1>9, <3>1, SevenParts
  <2> QED BY <2>1 DEF AreParts
<1> HIDE DEF M, D, S, P, code, flags
<1>11. /\ Len(B) = 8 + 2 * M + P /\ P = Len(p)
       /\ Sits(Magic, B, 0) /\ Sits(h, B, 2) /\ Sits(q, B, 5) /\ Sits(l, B, 7)
       /\ Sits(d, B, 8) /\ Sits(s, B, 8 + M) /\ Sits(p, B, 8 + 2 * M)
  <2>1. /\ Len(Magic) = 2 /\ Len(h) = 3 /\ Len(q) = 2 /\ Len(l) = 1 /\ Len(d) = M /\ Len(s) = M
        /\ Len(p) = P
    BY <1>2, <1>3, <1>4, <1>5, <1>6, <1>8 DEF P
  <2>2. /\ 2 + 3 = 5 /\ 5 + 2 = 7 /\ 7 + 1 = 8 /\ 8 + M + M = 8 + 2 * M
        /\ 8 + M + M + P = 8 + 2 * M + P
    BY <1>1
  <2> QED BY <1>10, <2>1, <2>2
<1>12. SubSeq(B, 1, 2) = Magic
  <2>1. SubSeq(B, 0 + 1, 0 + Len(Magic)) = Magic
    BY <1>4, <1>10, <1>11, CutOut
  <2> QED BY <1>4, <2>1
<1>13. B[3] = Version /\ B[4] = code /\ B[5] = flags
  <2>1. \A i \in 1 .. 3 : B[2 + i] = h[i]
    BY <1>5, <1>11 DEF Sits
  <2> QED BY <1>5, <2>1
<1>14. B[8] = n
  <2>1. \A i \in 1 .. 1 : B[7 + i] = l[i]
    BY <1>8, <1>11 DEF Sits
  <2> QED BY <1>8, <2>1
<1>15. SubSeq(B, 6, 7) = q
  <2>1. SubSeq(B, 5 + 1, 5 + Len(q)) = q
    BY <1>6, <1>10, <1>11, CutOut
  <2> QED BY <1>6, <2>1
<1>16. SubSeq(B, 9, 8 + M) = d
  <2>1. SubSeq(B, 8 + 1, 8 + Len(d)) = d
    BY <1>2, <1>10, <1>11, CutOut
  <2> QED BY <1>2, <2>1
<1>17. SubSeq(B, 9 + M, HeaderSize) = s
  <2>1. SubSeq(B, (8 + M) + 1, (8 + M) + Len(s)) = s
    <3>1. 8 + M \in Nat
      BY <1>1
    <3> QED BY <1>3, <1>10, <1>11, <3>1, CutOut
  <2>2. (8 + M) + 1 = 9 + M /\ (8 + M) + Len(s) = HeaderSize
    BY <1>1, <1>3 DEF HeaderSize, M
  <2> QED BY <2>1, <2>2
<1>18. SubSeq(B, HeaderSize + 1, Len(B)) = p
  <2>1. SubSeq(B, (8 + 2 * M) + 1, (8 + 2 * M) + Len(p)) = p
    <3>1. 8 + 2 * M \in Nat /\ p \in Seq(Byte)
      BY <1>1 DEF p
    <3> QED BY ZenonT(60), <1>10, <1>11, <3>1, CutOut
  <2>2. (8 + 2 * M) + 1 = HeaderSize + 1 /\ (8 + 2 * M) + Len(p) = Len(B)
    BY <1>1, <1>11 DEF HeaderSize, M
  <2> QED BY <2>1, <2>2
<1>19. ~(Len(B) < HeaderSize) /\ ~(Len(B) > MaxFrameSize)
  <2>1. HeaderSize = 8 + 2 * M /\ MaxFrameSize = 8 + 2 * M + MaxPayload
    BY DEF HeaderSize, MaxFrameSize, M
  <2> QED BY <1>1, <1>11, <2>1
<1>20. LegalPath(d, D) /\ LegalPath(s, S)
  BY <1>2, <1>3 DEF LegalPath
<1>21. ~(D > M) /\ ~(S > M)
  BY <1>1, <1>2, <1>3
<1>22. EncodeFrame(f) = B
  <2>1. ~(Len(f.payload) > MaxPayload)
    BY <1>1 DEF P, p
  <2> QED BY <2>1 DEF EncodeFrame, B, h, q, l, n, d, s, p, D, S
<1>23. B[8] \div 16 = D /\ B[8] % 16 = S
  BY <1>7, <1>14
<1>24. DecodeFrame(B)
         = [error |-> "None", code |-> B[4], flags |-> B[5], seq |-> Number(q),
            dest |-> SubSeq(d, 1, D), src |-> SubSeq(s, 1, S), payload |-> p]
  BY <1>12, <1>13, <1>15, <1>16, <1>17, <1>18, <1>19, <1>20, <1>21, <1>23 DEF DecodeFrame, M
<1> QED BY <1>2, <1>3, <1>6, <1>10, <1>13, <1>22, <1>24 DEF code, flags, p
=============================================================================
