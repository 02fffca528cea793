--------------------------- MODULE SublistTheorems ---------------------------
(***************************************************************************)
(* What Within keeps: a sequence over the set, of exactly the elements of  *)
(* the sequence that belong to it, in their order.  The recursive function *)
(* exists and has each property at every length because there is no        *)
(* shortest length at which it fails.                                      *)
(***************************************************************************)
EXTENDS Sublists, TLAPS, WellFoundedInduction, SequenceTheorems

\* A set of naturals that is not empty has a smallest element.
LEMMA SmallestElement ==
    ASSUME NEW S \in SUBSET Nat, S # {}
    PROVE  \E j \in S : \A k \in S : j <= k
  <1> DEFINE R == OpToRel(<, Nat)
  <1>1. IsWellFoundedOn(R, Nat)
    BY NatLessThanWellFounded
  <1>2. PICK j \in S : \A y \in S : ~(<<y, j>> \in R)
    <2> HIDE DEF R
    <2> QED BY <1>1, WFMin
  <1>3. \A y \in S : ~(y < j)
    BY <1>2 DEF OpToRel
  <1> QED BY <1>3

\* What is kept at each length, given what is kept one before.
KeptAt(s, S, f, n) ==
    IF n = 0 THEN <<>>
    ELSE IF s[n] \in S THEN Append(f[n - 1], s[n]) ELSE f[n - 1]

\* The function that Within chooses exists for sequences of every length.
LEMMA KeptExists ==
    ASSUME NEW s, NEW S, NEW l \in Nat
    PROVE  \E f : f = [n \in 0 .. l |-> KeptAt(s, S, f, n)]
  <1> DEFINE Upto(m) == \E f : f = [n \in 0 .. m |-> KeptAt(s, S, f, n)]
             Bad == {m \in 0 .. l : ~Upto(m)}
  <1>1. ASSUME Bad # {} PROVE FALSE
    <2>1. PICK m \in Bad : \A k \in Bad : m <= k
      <3>1. Bad \in SUBSET Nat
        OBVIOUS
      <3> HIDE DEF Bad
      <3> QED BY <1>1, <3>1, SmallestElement
    <2>2. m \in 0 .. l /\ ~Upto(m)
      BY <2>1
    <2>3. CASE m = 0
      <3> DEFINE f == [n \in 0 .. m |-> <<>>]
      <3>1. \A n \in 0 .. m : KeptAt(s, S, f, n) = <<>>
        BY <2>3 DEF KeptAt
      <3>2. f = [n \in 0 .. m |-> KeptAt(s, S, f, n)]
        <4> HIDE DEF f
        <4>1. f = [n \in 0 .. m |-> <<>>]
          BY DEF f
        <4> QED BY <3>1, <4>1
      <3> HIDE DEF f
      <3>3. Upto(m)
        BY <3>2
      <3> QED BY <2>2, <3>3
    <2>4. CASE m # 0
      <3>1. m - 1 \in 0 .. l /\ ~(m <= m - 1)
        BY <2>2, <2>4
      <3>2. m - 1 \notin Bad
        BY <2>1, <3>1
      <3>3. Upto(m - 1)
        BY <3>1, <3>2
      <3> HIDE DEF Bad
      <3>4. PICK f : f = [n \in 0 .. m - 1 |-> KeptAt(s, S, f, n)]
        BY <3>3
      <3> DEFINE h == [n \in 0 .. m |-> IF n = m THEN KeptAt(s, S, f, m) ELSE f[n]]
      <3>5. ASSUME NEW n \in 0 .. m PROVE h[n] = KeptAt(s, S, h, n)
        <4>1. n # 0 => n - 1 \in 0 .. m /\ n - 1 # m
          BY <2>2
        <4>2. n # 0 => h[n - 1] = f[n - 1]
          BY <4>1
        <4>3. KeptAt(s, S, h, n) = KeptAt(s, S, f, n)
          BY <4>2 DEF KeptAt
        <4>4. n # m => n \in 0 .. m - 1
          BY <2>2
        <4>5. n # m => f[n] = KeptAt(s, S, f, n)
          BY <3>4, <4>4
        <4>6. h[n] = KeptAt(s, S, f, n)
          BY <4>5
        <4> QED BY <4>3, <4>6
      <3>6. h = [n \in 0 .. m |-> h[n]]
        OBVIOUS
      <3> HIDE DEF h
      <3>7. h = [n \in 0 .. m |-> KeptAt(s, S, h, n)]
        BY <3>5, <3>6
      <3>8. Upto(m)
        BY <3>7
      <3> QED BY <2>2, <3>8
    <2> QED BY <2>3, <2>4
  <1>2. Upto(l)
    BY <1>1
  <1> QED BY <1>2

\* Within computes the last value of such a function.
LEMMA WithinUnfolds ==
    ASSUME NEW s, NEW S, Len(s) \in Nat
    PROVE  \E f : /\ f = [n \in 0 .. Len(s) |-> KeptAt(s, S, f, n)]
                  /\ Within(s, S) = f[Len(s)]
  <1> DEFINE f == CHOOSE g : g = [n \in 0 .. Len(s) |->
                     IF n = 0 THEN <<>>
                     ELSE IF s[n] \in S THEN Append(g[n - 1], s[n]) ELSE g[n - 1]]
  <1>1. Within(s, S) = f[Len(s)]
    BY Zenon DEF Within
  <1>2. \E g : g = [n \in 0 .. Len(s) |->
                     IF n = 0 THEN <<>>
                     ELSE IF s[n] \in S THEN Append(g[n - 1], s[n]) ELSE g[n - 1]]
    <2> HIDE DEF f
    <2>1. \E g : g = [n \in 0 .. Len(s) |-> KeptAt(s, S, g, n)]
      BY KeptExists
    <2> QED BY <2>1, Zenon DEF KeptAt
  <1>3. f = [n \in 0 .. Len(s) |->
                     IF n = 0 THEN <<>>
                     ELSE IF s[n] \in S THEN Append(f[n - 1], s[n]) ELSE f[n - 1]]
    BY <1>2, Zenon
  <1> HIDE DEF f
  <1>4. f = [n \in 0 .. Len(s) |-> KeptAt(s, S, f, n)]
    BY <1>3 DEF KeptAt
  <1> QED BY <1>1, <1>4

\* Within keeps the elements of the set, and those only.
LEMMA WithinFacts ==
    ASSUME NEW s, NEW S, Len(s) \in Nat
    PROVE  /\ Within(s, S) \in Seq(S)
           /\ \A x : (\E k \in DOMAIN Within(s, S) : Within(s, S)[k] = x)
                        <=> x \in S /\ \E k \in 1 .. Len(s) : s[k] = x
  <1>1. PICK l \in Nat : l = Len(s)
    OBVIOUS
  <1>2. PICK f : /\ f = [n \in 0 .. l |-> KeptAt(s, S, f, n)]
                 /\ Within(s, S) = f[l]
    BY <1>1, WithinUnfolds
  <1> DEFINE Good(m) == /\ f[m] \in Seq(S)
                        /\ \A x : (\E k \in DOMAIN f[m] : f[m][k] = x)
                                     <=> x \in S /\ \E k \in 1 .. m : s[k] = x
             Bad == {m \in 0 .. l : ~Good(m)}
  <1>3. ASSUME Bad # {} PROVE FALSE
    <2>1. PICK m \in Bad : \A k \in Bad : m <= k
      <3>1. Bad \in SUBSET Nat
        OBVIOUS
      <3> HIDE DEF Bad
      <3> QED BY <1>3, <3>1, SmallestElement
    <2>2. m \in 0 .. l /\ ~Good(m)
      BY <2>1
    <2>3. f[m] = KeptAt(s, S, f, m)
      BY <1>2, <2>2
    <2>4. CASE m = 0
      <3>1. f[m] = <<>>
        BY <2>3, <2>4 DEF KeptAt
      <3>2. Good(m)
        BY <2>4, <3>1
      <3> QED BY <2>2, <3>2
    <2>5. CASE m # 0
      <3>1. m - 1 \in 0 .. l /\ ~(m <= m - 1) /\ m \in Nat
        BY <2>2, <2>5
      <3>2. m - 1 \notin Bad
        BY <2>1, <3>1
      <3>3. Good(m - 1)
        BY <3>1, <3>2
      <3> HIDE DEF Bad
      <3>4. PICK g : g = f[m - 1]
        OBVIOUS
      <3>5. /\ g \in Seq(S)
            /\ \A x : (\E k \in DOMAIN g : g[k] = x) <=> x \in S /\ \E k \in 1 .. m - 1 : s[k] = x
        BY <3>3, <3>4
      <3>6. f[m] = IF s[m] \in S THEN Append(g, s[m]) ELSE g
        BY <2>3, <2>5, <3>4 DEF KeptAt
      <3>7. \A k : k \in 1 .. m <=> k \in 1 .. m - 1 \/ k = m
        BY <3>1, <2>5
      <3>8. CASE s[m] \notin S
        <4>1. Good(m)
          BY <3>5, <3>6, <3>7, <3>8
        <4> QED BY <2>2, <4>1
      <3>9. CASE s[m] \in S
        <4>1. PICK h : h = Append(g, s[m])
          OBVIOUS
        <4>2. /\ h \in Seq(S) /\ Len(h) = Len(g) + 1 /\ h[Len(g) + 1] = s[m]
              /\ \A k \in 1 .. Len(g) : h[k] = g[k]
          BY <3>5, <3>9, <4>1, AppendProperties
        <4>3. DOMAIN g = 1 .. Len(g) /\ DOMAIN h = 1 .. Len(g) + 1 /\ Len(g) \in Nat
          BY <3>5, <4>2
        <4>4. \A k : k \in DOMAIN h <=> k \in DOMAIN g \/ k = Len(g) + 1
          BY <4>3
        <4>5. \A x : (\E k \in DOMAIN h : h[k] = x) <=> (\E k \in DOMAIN g : g[k] = x) \/ x = s[m]
          BY <4>2, <4>3, <4>4
        <4>6. f[m] = h
          BY <3>6, <3>9, <4>1
        <4>7. \A x : (\E k \in 1 .. m : s[k] = x) <=> (\E k \in 1 .. m - 1 : s[k] = x) \/ x = s[m]
          BY <3>7
        <4>8. \A x : (\E k \in DOMAIN h : h[k] = x) <=> x \in S /\ \E k \in 1 .. m : s[k] = x
          BY <3>5, <3>9, <4>5, <4>7
        <4>9. Good(m)
          BY <4>2, <4>6, <4>8
        <4> QED BY <2>2, <4>9
      <3> QED BY <3>8, <3>9
    <2> QED BY <2>4, <2>5
  <1>4. Good(l)
    BY <1>3
  <1> QED BY <1>1, <1>2, <1>4

\* One element more is kept at the end if it belongs to the set.
LEMMA WithinOneMore ==
    ASSUME NEW s, NEW u, NEW S, NEW l \in Nat, Len(s) = l, Len(u) = l + 1,
           \A n \in 1 .. l : u[n] = s[n]
    PROVE  Within(u, S) = IF u[l + 1] \in S THEN Append(Within(s, S), u[l + 1]) ELSE Within(s, S)
  <1>1. PICK f : f = [n \in 0 .. l |-> KeptAt(s, S, f, n)] /\ Within(s, S) = f[l]
    BY WithinUnfolds
  <1>2. PICK g : g = [n \in 0 .. l + 1 |-> KeptAt(u, S, g, n)] /\ Within(u, S) = g[l + 1]
    BY WithinUnfolds
  <1> DEFINE Bad == {m \in 0 .. l : g[m] # f[m]}
  <1>3. ASSUME Bad # {} PROVE FALSE
    <2>1. PICK m \in Bad : \A k \in Bad : m <= k
      <3>1. Bad \in SUBSET Nat
        OBVIOUS
      <3> HIDE DEF Bad
      <3> QED BY <1>3, <3>1, SmallestElement
    <2>2. m \in 0 .. l /\ m \in 0 .. l + 1 /\ g[m] # f[m]
      BY <2>1
    <2>3. f[m] = KeptAt(s, S, f, m) /\ g[m] = KeptAt(u, S, g, m)
      BY <1>1, <1>2, <2>2
    <2>4. m # 0
      BY <2>2, <2>3 DEF KeptAt
    <2>5. m - 1 \in 0 .. l /\ ~(m <= m - 1) /\ m \in 1 .. l
      BY <2>2, <2>4
    <2>6. g[m - 1] = f[m - 1] /\ u[m] = s[m]
      BY <2>1, <2>5
    <2> QED BY <2>2, <2>3, <2>4, <2>6 DEF KeptAt
  <1>4. g[l] = f[l]
    BY <1>3
  <1>5. g[l + 1] = KeptAt(u, S, g, l + 1)
    BY <1>2
  <1>6. l + 1 # 0 /\ l + 1 - 1 = l
    OBVIOUS
  <1> QED BY <1>1, <1>2, <1>4, <1>5, <1>6 DEF KeptAt

\* Within keeps the order, drops nothing twice and is shorter when it drops something.
LEMMA WithinOrder ==
    ASSUME NEW s, NEW S, Len(s) \in Nat
    PROVE  /\ Len(Within(s, S)) \in 0 .. Len(s)
           /\ (\E k \in 1 .. Len(s) : s[k] \notin S) => Len(Within(s, S)) < Len(s)
           /\ \E at \in [1 .. Len(Within(s, S)) -> 1 .. Len(s)] :
                 \A i \in 1 .. Len(Within(s, S)) :
                    /\ Within(s, S)[i] = s[at[i]]
                    /\ \A j \in 1 .. Len(Within(s, S)) : i < j => at[i] < at[j]
  <1>1. PICK l \in Nat : l = Len(s)
    OBVIOUS
  <1>2. PICK f : /\ f = [n \in 0 .. l |-> KeptAt(s, S, f, n)]
                 /\ Within(s, S) = f[l]
    BY <1>1, WithinUnfolds
  <1> DEFINE Placed(g, m, at) ==
                \A i \in 1 .. Len(g) : /\ g[i] = s[at[i]]
                                       /\ \A j \in 1 .. Len(g) : i < j => at[i] < at[j]
             Good(m) == /\ f[m] \in Seq(S) /\ Len(f[m]) \in 0 .. m
                        /\ (\E k \in 1 .. m : s[k] \notin S) => Len(f[m]) < m
                        /\ \E at \in [1 .. Len(f[m]) -> 1 .. m] : Placed(f[m], m, at)
             Bad == {m \in 0 .. l : ~Good(m)}
  <1>3. ASSUME Bad # {} PROVE FALSE
    <2>1. PICK m \in Bad : \A k \in Bad : m <= k
      <3>1. Bad \in SUBSET Nat
        OBVIOUS
      <3> HIDE DEF Bad
      <3> QED BY <1>3, <3>1, SmallestElement
    <2>2. m \in 0 .. l /\ ~Good(m)
      BY <2>1
    <2>3. f[m] = KeptAt(s, S, f, m)
      BY <1>2, <2>2
    <2>4. CASE m = 0
      <3>1. f[m] = <<>>
        BY <2>3, <2>4 DEF KeptAt
      <3>2. <<>> \in Seq(S) /\ Len(<<>>) = 0
        OBVIOUS
      <3>3. [i \in 1 .. 0 |-> 1] \in [1 .. Len(f[m]) -> 1 .. m] /\ Placed(f[m], m, [i \in 1 .. 0 |-> 1])
        BY <2>4, <3>1, <3>2
      <3>4. \E at \in [1 .. Len(f[m]) -> 1 .. m] : Placed(f[m], m, at)
        BY <3>3
      <3>5. f[m] \in Seq(S) /\ Len(f[m]) \in 0 .. m
        BY <2>4, <3>1, <3>2
      <3>6. ~\E k \in 1 .. m : s[k] \notin S
        BY <2>4
      <3>7. Good(m)
        BY <3>4, <3>5, <3>6
      <3> QED BY <2>2, <3>7
    <2>5. CASE m # 0
      <3>1. m - 1 \in 0 .. l /\ ~(m <= m - 1) /\ m \in Nat
        BY <2>2, <2>5
      <3>2. m - 1 \notin Bad
        BY <2>1, <3>1
      <3>3. Good(m - 1)
        BY <3>1, <3>2
      <3> HIDE DEF Bad
      <3>4. PICK g : g = f[m - 1]
        OBVIOUS
      <3>5. /\ g \in Seq(S) /\ Len(g) \in 0 .. m - 1
            /\ (\E k \in 1 .. m - 1 : s[k] \notin S) => Len(g) < m - 1
        BY <3>3, <3>4
      <3>6. PICK at \in [1 .. Len(g) -> 1 .. m - 1] : Placed(g, m - 1, at)
        BY <3>3, <3>4
      <3>7. f[m] = IF s[m] \in S THEN Append(g, s[m]) ELSE g
        BY <2>3, <2>5, <3>4 DEF KeptAt
      <3>8. \A k : k \in 1 .. m <=> k \in 1 .. m - 1 \/ k = m
        BY <3>1, <2>5
      <3>9. CASE s[m] \notin S
        <4>1. at \in [1 .. Len(g) -> 1 .. m]
          BY <3>6, <3>8
        <4>2. Len(g) \in 0 .. m /\ Len(g) < m
          BY <3>1, <3>5
        <4>3. Good(m)
          BY <3>5, <3>6, <3>7, <3>9, <4>1, <4>2
        <4> QED BY <2>2, <4>3
      <3>10. CASE s[m] \in S
        <4>1. PICK h : h = Append(g, s[m])
          OBVIOUS
        <4>2. /\ h \in Seq(S) /\ Len(h) = Len(g) + 1 /\ h[Len(g) + 1] = s[m]
              /\ \A k \in 1 .. Len(g) : h[k] = g[k]
          BY <3>5, <3>10, <4>1, AppendProperties
        <4>3. PICK n \in Nat : n = Len(g)
          BY <3>5
        <4> DEFINE to == [k \in 1 .. n + 1 |-> IF k = n + 1 THEN m ELSE at[k]]
        <4>4. \A k \in 1 .. n + 1 : k = n + 1 \/ k \in 1 .. n
          BY <4>3
        <4>5. \A k \in 1 .. n : at[k] \in 1 .. m - 1 /\ to[k] = at[k] /\ h[k] = g[k]
          BY <3>6, <4>2, <4>3
        <4>6. to[n + 1] = m /\ h[n + 1] = s[m]
          BY <4>2, <4>3
        <4>7. to \in [1 .. n + 1 -> 1 .. m]
          BY <3>1, <3>8, <4>4, <4>5, <4>6
        <4> HIDE DEF to
        <4>8. ASSUME NEW i \in 1 .. n + 1
              PROVE  /\ h[i] = s[to[i]]
                     /\ \A j \in 1 .. n + 1 : i < j => to[i] < to[j]
          <5>1. CASE i = n + 1
            BY <4>6, <5>1
          <5>2. CASE i \in 1 .. n
            <6>1. h[i] = s[to[i]]
              BY <3>6, <4>3, <4>5, <5>2
            <6>2. ASSUME NEW j \in 1 .. n + 1, i < j PROVE to[i] < to[j]
              <7>1. CASE j = n + 1
                <8>1. to[i] \in 1 .. m - 1 /\ to[j] = m
                  BY <4>5, <4>6, <5>2, <7>1
                <8> QED BY <3>1, <8>1
              <7>2. CASE j \in 1 .. n
                BY <3>6, <4>3, <4>5, <5>2, <6>2, <7>2
              <7> QED BY <4>4, <7>1, <7>2
            <6> QED BY <6>1, <6>2
          <5> QED BY <4>4, <5>1, <5>2
        <4>9. f[m] = h /\ Len(h) = n + 1
          BY <3>7, <3>10, <4>1, <4>2, <4>3
        <4>10. n + 1 \in 0 .. m
          BY <3>1, <3>5, <4>3
        <4>11. (\E k \in 1 .. m : s[k] \notin S) => n + 1 < m
          BY <3>1, <3>5, <3>8, <3>10, <4>3
        <4>12. \E a \in [1 .. Len(f[m]) -> 1 .. m] : Placed(f[m], m, a)
          BY <4>7, <4>8, <4>9
        <4>13. Good(m)
          BY <4>2, <4>9, <4>10, <4>11, <4>12
        <4> QED BY <2>2, <4>13
      <3> QED BY <3>9, <3>10
    <2> QED BY <2>4, <2>5
  <1>4. Good(l)
    BY <1>3
  <1> QED BY <1>1, <1>2, <1>4

=============================================================================
