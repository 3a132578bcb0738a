------------------------- MODULE SequenceDropProofs -------------------------
(***************************************************************************)
(* What Drop leaves of any sequence, shown by induction over its prefixes: *)
(* a least prefix for which it failed does not exist.                      *)
(***************************************************************************)
EXTENDS SequenceDrop, WellFoundedInduction, TLAPS

\* A set of naturals has a least element.
LEMMA Least ==
    ASSUME NEW B, B \subseteq Nat, B # {}
    PROVE  \E k \in B : \A l \in B : k <= l
<1> DEFINE R == OpToRel(<, Nat)
<1>1. IsWellFoundedOn(R, Nat)
  BY NatLessThanWellFounded
<1>2. R = {p \in Nat \X Nat : p[1] < p[2]}
  BY DEF OpToRel
<1> HIDE DEF R
<1>3. PICK k \in B : \A l \in B : ~(<<l, k>> \in R)
  BY <1>1, WFMin
<1>4. \A l \in Nat : l < k => <<l, k>> \in R
  <2>1. k \in Nat
    BY <1>3
  <2> QED
    BY <2>1, <1>2
<1>5. \A l \in B : l \in Nat /\ k \in Nat /\ ~(l < k)
  BY <1>3, <1>4, Zenon
<1>6. \A l \in B : k <= l
  BY <1>5
<1> QED
  BY <1>3, <1>6

\* f holds what is left of each prefix of s up to the n-th.
Prefixes(f, s, T, n) ==
    f = [i \in 0..n |-> IF i = 0 THEN <<>>
                        ELSE IF s[i] \in T THEN f[i - 1] ELSE Append(f[i - 1], s[i])]

\* They exist for every prefix.
LEMMA PrefixesExist == ASSUME NEW s, NEW T, NEW n \in Nat PROVE \E f : Prefixes(f, s, T, n)
<1> DEFINE Bad == {k \in Nat : ~\E f : Prefixes(f, s, T, k)}
<1>1. SUFFICES ASSUME Bad # {} PROVE FALSE
  OBVIOUS
<1>2. PICK k \in Bad : \A l \in Bad : k <= l
  <2>1. Bad \subseteq Nat
    OBVIOUS
  <2> HIDE DEF Bad
  <2> QED
    BY <1>1, <2>1, Least
<1>3. k # 0
  <2> DEFINE z == [i \in {0} |-> <<>>]
  <2>1. z = [i \in 0..0 |-> IF i = 0 THEN <<>>
                            ELSE IF s[i] \in T THEN z[i - 1] ELSE Append(z[i - 1], s[i])]
    OBVIOUS
  <2>2. Prefixes(z, s, T, 0)
    BY <2>1 DEF Prefixes
  <2> QED
    BY <2>2
<1>4. k - 1 \in Nat /\ k - 1 \notin Bad
  BY <1>2, <1>3
<1>5. PICK f : Prefixes(f, s, T, k - 1)
  BY <1>4
<1> DEFINE g == [i \in 0..k |-> IF i = k
                                THEN IF s[k] \in T THEN f[k - 1] ELSE Append(f[k - 1], s[k])
                                ELSE f[i]]
<1>6. ASSUME NEW i \in 0..k
      PROVE  g[i] = IF i = 0 THEN <<>>
                    ELSE IF s[i] \in T THEN g[i - 1] ELSE Append(g[i - 1], s[i])
  <2>1. CASE i = k
    BY <1>2, <1>3, <2>1
  <2>2. CASE i # k
    <3>1. i \in 0..(k - 1)
      BY <2>2, <1>2
    <3>2. f[i] = IF i = 0 THEN <<>>
                 ELSE IF s[i] \in T THEN f[i - 1] ELSE Append(f[i - 1], s[i])
      BY <3>1, <1>5 DEF Prefixes
    <3>3. g[i] = f[i] /\ (i # 0 => g[i - 1] = f[i - 1])
      BY <3>1, <1>2
    <3> QED
      BY <3>2, <3>3
  <2> QED
    BY <2>1, <2>2
<1>7. Prefixes(g, s, T, k)
  <2>1. g = [i \in 0..k |-> g[i]]
    OBVIOUS
  <2> HIDE DEF g
  <2> QED
    BY <2>1, <1>6 DEF Prefixes
<1> QED
  BY <1>2, <1>7

\* r is what is left of the first n elements of s.
Leaves(r, s, T, S, n) ==
    /\ r \in Seq(S)
    /\ Len(r) <= n
    /\ \A a \in 1..Len(r) : \E b \in 1..n : r[a] = s[b] /\ s[b] \notin T
    /\ \A b \in 1..n : s[b] \notin T => \E a \in 1..Len(r) : r[a] = s[b]
    /\ \A a, c \in 1..Len(r) : a < c => \E b, d \in 1..n : b < d /\ r[a] = s[b] /\ r[c] = s[d]

\* What Drop leaves: the elements outside T, each as often as before.
LEMMA DropLeaves ==
    ASSUME NEW S, NEW s \in Seq(S), NEW T
    PROVE  /\ Drop(s, T) \in Seq(S)
           /\ Len(Drop(s, T)) <= Len(s)
           /\ \A a \in DOMAIN Drop(s, T) : \E b \in DOMAIN s :
                 Drop(s, T)[a] = s[b] /\ s[b] \notin T
           /\ \A b \in DOMAIN s : s[b] \notin T =>
                 \E a \in DOMAIN Drop(s, T) : Drop(s, T)[a] = s[b]
           /\ \A a, c \in DOMAIN Drop(s, T) : a # c =>
                 \E b, d \in DOMAIN s :
                    b # d /\ Drop(s, T)[a] = s[b] /\ Drop(s, T)[c] = s[d]
<1>1. Len(s) \in Nat /\ DOMAIN s = 1..Len(s) /\ \A i \in 1..Len(s) : s[i] \in S
  OBVIOUS
<1>2. PICK f : Prefixes(f, s, T, Len(s)) /\ Drop(s, T) = f[Len(s)]
  <2> DEFINE c == CHOOSE f : Prefixes(f, s, T, Len(s))
  <2>1. Prefixes(c, s, T, Len(s))
    BY <1>1, PrefixesExist
  <2>2. Drop(s, T) = c[Len(s)]
    BY DEF Drop, Prefixes
  <2> QED
    BY <2>1, <2>2
<1>3. /\ f[0] = <<>>
      /\ \A i \in 1..Len(s) : f[i] = IF s[i] \in T THEN f[i - 1] ELSE Append(f[i - 1], s[i])
  <2>1. ASSUME NEW i \in 0..Len(s)
        PROVE  f[i] = IF i = 0 THEN <<>>
                      ELSE IF s[i] \in T THEN f[i - 1] ELSE Append(f[i - 1], s[i])
    BY <1>2 DEF Prefixes
  <2>2. 0 \in 0..Len(s) /\ \A i \in 1..Len(s) : i \in 0..Len(s) /\ i # 0
    BY <1>1
  <2> QED
    BY <2>1, <2>2
<1> DEFINE Good(n) == Leaves(f[n], s, T, S, n)
           Bad == {n \in 0..Len(s) : ~Good(n)}
<1>4. Good(0)
  <2>1. <<>> \in Seq(S) /\ Len(<<>>) = 0
    OBVIOUS
  <2> QED
    BY <1>3, <2>1 DEF Leaves
<1>5. ASSUME NEW n \in 1..Len(s), Good(n - 1)
      PROVE  Good(n)
  <2> DEFINE g == f[n - 1]
  <2>1. f[n] = IF s[n] \in T THEN g ELSE Append(g, s[n])
    BY <1>3
  <2>2. /\ g \in Seq(S)
        /\ Len(g) \in Nat
        /\ Len(g) <= n - 1
        /\ \A a \in 1..Len(g) : \E b \in 1..n - 1 : g[a] = s[b] /\ s[b] \notin T
        /\ \A b \in 1..n - 1 : s[b] \notin T => \E a \in 1..Len(g) : g[a] = s[b]
        /\ \A a, c \in 1..Len(g) : a < c =>
              \E b, d \in 1..n - 1 : b < d /\ g[a] = s[b] /\ g[c] = s[d]
    <3>1. Good(n - 1) /\ g \in Seq(S)
      BY <1>5 DEF Leaves
    <3>2. Len(g) \in Nat
      BY <3>1
    <3> QED
      BY <1>5, <3>1, <3>2 DEF Leaves
  <2>3. n \in Nat /\ n - 1 \in Nat /\ n \in 1..n /\ n \notin 1..n - 1 /\ 1..n - 1 \subseteq 1..n
        /\ \A b \in 1..n : b = n \/ b \in 1..n - 1
    BY <1>1
  <2> HIDE DEF g
  <2>4. CASE s[n] \in T
    <3>1. f[n] = g
      BY <2>1, <2>4
    <3>2. Leaves(g, s, T, S, n)
      BY <2>2, <2>3, <2>4 DEF Leaves
    <3> QED
      BY <3>1, <3>2
  <2>5. CASE s[n] \notin T
    <3> DEFINE h == Append(g, s[n])
    <3>1. /\ h \in Seq(S)
          /\ Len(h) = Len(g) + 1
          /\ \A a \in 1..Len(g) : h[a] = g[a]
          /\ h[Len(h)] = s[n]
          /\ \A a \in 1..Len(h) : a \in 1..Len(g) \/ a = Len(h)
          /\ Len(h) \in 1..Len(h)
      BY <1>1, <2>2
    <3> HIDE DEF h
    <3>2. \A a \in 1..Len(h) : \E b \in 1..n : h[a] = s[b] /\ s[b] \notin T
      <4> TAKE a \in 1..Len(h)
      <4>1. CASE a \in 1..Len(g)
        <5>1. PICK b \in 1..n - 1 : g[a] = s[b] /\ s[b] \notin T
          BY <2>2, <4>1
        <5>2. b \in 1..n /\ h[a] = s[b]
          BY <2>3, <3>1, <4>1, <5>1
        <5> QED
          BY <5>1, <5>2
      <4>2. CASE a = Len(h)
        <5>1. h[a] = s[n]
          BY <3>1, <4>2
        <5> QED
          BY <2>3, <2>5, <5>1
      <4> QED
        BY <3>1, <4>1, <4>2
    <3>3. \A b \in 1..n : s[b] \notin T => \E a \in 1..Len(h) : h[a] = s[b]
      BY <2>2, <2>3, <3>1
    <3>4. ASSUME NEW a \in 1..Len(h), NEW c \in 1..Len(h), a < c
          PROVE  \E b, d \in 1..n : b < d /\ h[a] = s[b] /\ h[c] = s[d]
      <4>1. a \in 1..Len(g)
        BY <2>2, <3>1, <3>4
      <4>2. CASE c \in 1..Len(g)
        <5>1. PICK b \in 1..n - 1, d \in 1..n - 1 : b < d /\ g[a] = s[b] /\ g[c] = s[d]
          BY <2>2, <3>4, <4>1, <4>2
        <5>2. b \in 1..n /\ d \in 1..n /\ h[a] = s[b] /\ h[c] = s[d]
          BY <2>3, <3>1, <4>1, <4>2, <5>1
        <5> QED
          BY <5>1, <5>2
      <4>3. CASE c = Len(h)
        <5>1. PICK b \in 1..n - 1 : g[a] = s[b]
          BY <2>2, <4>1
        <5>2. b < n /\ b \in 1..n
          BY <2>3, <5>1
        <5> QED
          BY <2>3, <3>1, <4>1, <4>3, <5>1, <5>2
      <4> QED
        BY <3>1, <4>2, <4>3
    <3>5. f[n] = h
      BY <2>1, <2>5 DEF h
    <3>6. Len(h) <= n
      BY <2>2, <2>3, <3>1
    <3>7. Leaves(h, s, T, S, n)
      BY <3>1, <3>2, <3>3, <3>4, <3>6 DEF Leaves
    <3> QED
      BY <3>5, <3>7
  <2> QED
    BY <2>4, <2>5
<1>6. Bad = {}
  <2> SUFFICES ASSUME Bad # {} PROVE FALSE
    OBVIOUS
  <2>1. Bad \subseteq Nat
    BY <1>1
  <2>2. PICK n \in Bad : \A l \in Bad : n <= l
    <3> HIDE DEF Bad
    <3> QED
      BY <2>1, Least
  <2>3. n \in 0..Len(s) /\ ~Good(n)
    BY <2>2
  <2>4. n # 0
    BY <1>4, <2>3
  <2> HIDE DEF Good
  <2>5. n \in 1..Len(s) /\ n - 1 \in 0..Len(s) /\ n - 1 < n
    BY <1>1, <2>3, <2>4
  <2>6. n - 1 \notin Bad
    BY <1>1, <2>2, <2>5
  <2>7. Good(n - 1)
    BY <2>5, <2>6
  <2> QED
    BY <1>5, <2>3, <2>5, <2>7
<1>7. Good(Len(s))
  <2>1. Len(s) \in 0..Len(s)
    BY <1>1
  <2> HIDE DEF Good
  <2> QED
    BY <1>6, <2>1
<1> DEFINE d == Drop(s, T)
<1>8. Leaves(d, s, T, S, Len(s))
  BY <1>2, <1>7
<1> HIDE DEF d
<1>9. d \in Seq(S) /\ Len(d) \in Nat /\ DOMAIN d = 1..Len(d)
  BY <1>8 DEF Leaves
<1>10. ASSUME NEW a \in 1..Len(d), NEW c \in 1..Len(d), a # c
       PROVE  \E b, e \in 1..Len(s) : b # e /\ d[a] = s[b] /\ d[c] = s[e]
  <2>1. a < c \/ c < a
    BY <1>9, <1>10
  <2>2. \A b, e \in 1..Len(s) : b < e => b # e
    BY <1>1
  <2> QED
    BY <1>8, <2>1, <2>2 DEF Leaves
<1>11. d \in Seq(S) /\ Len(d) <= Len(s)
  BY <1>8 DEF Leaves
<1>12. /\ \A a \in DOMAIN d : \E b \in DOMAIN s : d[a] = s[b] /\ s[b] \notin T
       /\ \A b \in DOMAIN s : s[b] \notin T => \E a \in DOMAIN d : d[a] = s[b]
  BY <1>1, <1>8, <1>9 DEF Leaves
<1>13. ASSUME NEW a \in DOMAIN d, NEW c \in DOMAIN d, a # c
       PROVE  \E b, e \in DOMAIN s : b # e /\ d[a] = s[b] /\ d[c] = s[e]
  <2>1. a \in 1..Len(d) /\ c \in 1..Len(d)
    BY <1>9, <1>13
  <2>2. PICK b \in 1..Len(s), e \in 1..Len(s) : b # e /\ d[a] = s[b] /\ d[c] = s[e]
    BY <1>10, <1>13, <2>1
  <2>3. b \in DOMAIN s /\ e \in DOMAIN s
    BY <1>1, <2>2
  <2> QED
    BY <2>2, <2>3
<1> QED
  BY <1>11, <1>12, <1>13 DEF d

=============================================================================
