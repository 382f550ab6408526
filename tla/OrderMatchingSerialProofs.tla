---------------------- MODULE OrderMatchingSerialProofs ----------------------
(***************************************************************************)
(* What holds of OrderMatching when one handler runs at a time and none    *)
(* fails, proved: the invariant of OrderMatchingSerialInvariant, for any   *)
(* number of orders, requests and trades, and what follows from it.  Then, *)
(* with the same sums over trades but for any number of handlers that      *)
(* interleave and fail, QuantityInv of OrderMatchingQuantity.              *)
(***************************************************************************)
EXTENDS OrderMatchingSerialInvariant, OrderMatchingTermsProofs, FiniteSetTheorems,
        WellFoundedInduction

(* Sums over trades.  Least does the work of an induction: what fails for   *)
(* some number fails for a least one.                                       *)

LEMMA Least ==
  ASSUME NEW T \in SUBSET Nat, T # {}
  PROVE  \E n \in T : \A m \in T : n <= m
<1> DEFINE R == OpToRel(<, Nat)
<1>1. IsWellFoundedOn(R, Nat)
  BY NatLessThanWellFounded, Zenon
<1>2. \A x, y \in Nat : <<x, y>> \in R <=> x < y
  BY Zenon DEF OpToRel
<1> HIDE DEF R
<1>3. PICK n \in T : \A m \in T : ~(<<m, n>> \in R)
  BY <1>1, WFMin, Zenon
<1>4. n \in Nat /\ \A m \in T : m \in Nat /\ ~ (m < n)
  BY <1>2, <1>3
<1>5. \A m \in T : n <= m
  BY <1>4
<1> QED
  BY <1>5

\* The sum of the quantities of the trades at the places S, and the equation that
\* the library's fold solves for it.
Sum(ts, S) == MapThenSumSet(LAMBDA i : ts[i].quantity, S)

First(s) == CHOOSE x \in s : TRUE

Sums(ts, S, g) ==
  g = [s \in SUBSET S |-> IF s = {} THEN 0 ELSE ts[First(s)].quantity + g[s \ {First(s)}]]

AllSummable(ts, S) == IsFiniteSet(S) /\ \A i \in S : ts[i].quantity \in Int

LEMMA SumDefinition ==
  ASSUME NEW ts, NEW S
  PROVE  Sum(ts, S) = (CHOOSE g : Sums(ts, S, g))[S]
BY DEF Sum, MapThenSumSet, MapThenFoldSet, Sums, First

LEMMA FirstIn ==
  ASSUME NEW s, s # {}
  PROVE  First(s) \in s
BY DEF First

\* The equation has a solution: by induction on the size of the sets it is solved for.
LEMMA SumsExist ==
  ASSUME NEW ts, NEW S, AllSummable(ts, S)
  PROVE  \E g \in [SUBSET S -> Int] : Sums(ts, S, g)
<1> DEFINE Small(n) == {s \in SUBSET S : Cardinality(s) <= n}
           Solves(g, n) == \A s \in Small(n) :
             g[s] = IF s = {} THEN 0 ELSE ts[First(s)].quantity + g[s \ {First(s)}]
           Failing == {n \in Nat : \A g \in [SUBSET S -> Int] : ~Solves(g, n)}
<1>1. \A s \in SUBSET S : IsFiniteSet(s) /\ Cardinality(s) \in Nat /\ Cardinality(s) <= Cardinality(S)
  BY FS_Subset, FS_CardinalityType DEF AllSummable
<1>2. ASSUME Failing # {}
      PROVE  FALSE
  <2>1. PICK n \in Failing : \A m \in Failing : n <= m
    BY <1>2, Least
  <2>2. CASE n = 0
    <3>1. \A s \in Small(0) : s = {}
      BY <1>1, FS_EmptySet
    <3>2. Solves([s \in SUBSET S |-> 0], 0)
      BY <3>1
    <3>3. [s \in SUBSET S |-> 0] \in [SUBSET S -> Int]
      OBVIOUS
    <3> QED
      BY <2>1, <2>2, <3>2, <3>3
  <2>3. CASE n # 0
    <3>1. n \in Nat /\ n - 1 \in Nat /\ n - 1 \notin Failing
      <4>1. n \in Nat
        OBVIOUS
      <4> HIDE DEF Failing
      <4> QED
        BY <2>1, <2>3, <4>1
    <3>2. PICK g \in [SUBSET S -> Int] : Solves(g, n - 1)
      BY <3>1
    <3> DEFINE f == [s \in SUBSET S |->
                      IF Cardinality(s) <= n - 1 THEN g[s]
                      ELSE ts[First(s)].quantity + g[s \ {First(s)}]]
    <3>3. f \in [SUBSET S -> Int]
      <4>1. ASSUME NEW s \in SUBSET S, ~(Cardinality(s) <= n - 1)
            PROVE  ts[First(s)].quantity \in Int
        BY <1>1, <3>1, <4>1, FirstIn, FS_EmptySet DEF AllSummable
      <4>2. \A s \in SUBSET S : g[s] \in Int /\ g[s \ {First(s)}] \in Int
        BY <3>2
      <4> QED
        BY <4>1, <4>2
    <3>4. ASSUME NEW s \in Small(n)
          PROVE  f[s] = IF s = {} THEN 0 ELSE ts[First(s)].quantity + f[s \ {First(s)}]
      <4>1. CASE s = {}
        BY <3>1, <3>2, <4>1, FS_EmptySet
      <4>2. CASE s # {}
        <5>1. First(s) \in s /\ s \ {First(s)} \in SUBSET S
          BY <4>2, FirstIn
        <5>2. Cardinality(s \ {First(s)}) = Cardinality(s) - 1
          BY <1>1, <5>1, FS_RemoveElement
        <5>3. Cardinality(s \ {First(s)}) <= n - 1
          BY <1>1, <2>1, <5>2
        <5>4. f[s \ {First(s)}] = g[s \ {First(s)}]
          BY <5>1, <5>3
        <5>5. CASE Cardinality(s) <= n - 1
          BY <3>2, <4>2, <5>4, <5>5
        <5>6. CASE ~(Cardinality(s) <= n - 1)
          BY <4>2, <5>4, <5>6
        <5> QED
          BY <5>5, <5>6
      <4> QED
        BY <4>1, <4>2
    <3>5. Solves(f, n)
      BY <3>4
    <3> QED
      BY <2>1, <3>3, <3>5
  <2> QED
    BY <2>2, <2>3
<1>3. Cardinality(S) \in Nat /\ Cardinality(S) \notin Failing
  BY <1>1, <1>2
<1>4. PICK g \in [SUBSET S -> Int] : Solves(g, Cardinality(S))
  BY <1>3
<1>5. Small(Cardinality(S)) = SUBSET S
  BY <1>1
<1>6. Sums(ts, S, g)
  BY <1>4, <1>5 DEF Sums
<1> QED
  BY <1>6

\* Its solutions agree, also those for different sets.
LEMMA SumsAgree ==
  ASSUME NEW ts, NEW S, NEW T, NEW g, NEW f, NEW s, s \subseteq S, s \subseteq T,
         IsFiniteSet(s), Sums(ts, S, g), Sums(ts, T, f)
  PROVE  g[s] = f[s]
<1> DEFINE Differ == {n \in Nat : \E r \in SUBSET s : Cardinality(r) = n /\ g[r] # f[r]}
<1>1. \A r \in SUBSET s : IsFiniteSet(r) /\ Cardinality(r) \in Nat
  BY FS_Subset, FS_CardinalityType
<1>2. \A r \in SUBSET s :
        /\ g[r] = IF r = {} THEN 0 ELSE ts[First(r)].quantity + g[r \ {First(r)}]
        /\ f[r] = IF r = {} THEN 0 ELSE ts[First(r)].quantity + f[r \ {First(r)}]
  BY DEF Sums
<1>3. ASSUME Differ # {}
      PROVE  FALSE
  <2>1. PICK n \in Differ : \A m \in Differ : n <= m
    BY <1>3, Least
  <2>2. PICK r \in SUBSET s : Cardinality(r) = n /\ g[r] # f[r]
    OBVIOUS
  <2>3. r # {}
    BY <1>2, <2>2
  <2>4. First(r) \in r /\ r \ {First(r)} \in SUBSET s
    BY <2>3, FirstIn
  <2>5. Cardinality(r \ {First(r)}) = n - 1 /\ n - 1 \in Nat
    <3>1. IsFiniteSet(r) /\ Cardinality(r \ {First(r)}) \in Nat
      BY <1>1, <2>4
    <3>2. Cardinality(r \ {First(r)}) = Cardinality(r) - 1
      BY <2>4, <3>1, FS_RemoveElement
    <3> QED
      BY <2>2, <3>1, <3>2
  <2>6. g[r \ {First(r)}] # f[r \ {First(r)}]
    BY <1>2, <2>2, <2>3
  <2>7. n - 1 \in Differ
    BY <2>4, <2>5, <2>6
  <2>8. n \in Nat
    BY <1>1, <2>2
  <2> HIDE DEF Differ
  <2> QED
    BY <2>1, <2>7, <2>8
<1>4. Cardinality(s) \in Nat /\ Cardinality(s) \notin Differ
  BY <1>1, <1>3
<1> QED
  BY <1>4

LEMMA SumSolves ==
  ASSUME NEW ts, NEW S, AllSummable(ts, S)
  PROVE  \E g : Sums(ts, S, g) /\ Sum(ts, S) = g[S] /\ g[S] \in Int
<1> DEFINE whole == CHOOSE g : Sums(ts, S, g)
<1>1. PICK g \in [SUBSET S -> Int] : Sums(ts, S, g)
  BY SumsExist
<1>2. Sums(ts, S, whole)
  BY <1>1
<1>3. Sum(ts, S) = whole[S]
  BY SumDefinition
<1> HIDE DEF whole
<1>4. whole[S] = g[S]
  BY <1>1, <1>2, SumsAgree DEF AllSummable
<1> QED
  BY <1>1, <1>2, <1>3, <1>4

LEMMA SumIn ==
  ASSUME NEW ts, NEW S, AllSummable(ts, S)
  PROVE  /\ Sum(ts, S) \in Int
         /\ Sum(ts, S) = IF S = {} THEN 0 ELSE ts[First(S)].quantity + Sum(ts, S \ {First(S)})
<1>1. PICK whole : Sums(ts, S, whole) /\ Sum(ts, S) = whole[S] /\ whole[S] \in Int
  BY SumSolves
<1>2. PICK rest : rest = S \ {First(S)}
  OBVIOUS
<1>3. AllSummable(ts, rest) /\ IsFiniteSet(rest) /\ rest \subseteq S /\ rest \subseteq rest
  BY <1>2, FS_Subset DEF AllSummable
<1>4. PICK part : Sums(ts, rest, part) /\ Sum(ts, rest) = part[rest]
  BY <1>3, SumSolves
<1>5. whole[rest] = part[rest]
  BY <1>1, <1>3, <1>4, SumsAgree
<1>6. whole[S] = IF S = {} THEN 0 ELSE ts[First(S)].quantity + whole[rest]
  BY <1>1, <1>2 DEF Sums
<1> QED
  BY <1>1, <1>2, <1>4, <1>5, <1>6

\* Any place can be added last.
LEMMA SumLast ==
  ASSUME NEW ts, NEW S, AllSummable(ts, S), NEW x \in S
  PROVE  Sum(ts, S) = ts[x].quantity + Sum(ts, S \ {x})
<1> DEFINE Wrong == {n \in Nat : \E s \in SUBSET S : \E y \in s :
             Cardinality(s) = n /\ Sum(ts, s) # ts[y].quantity + Sum(ts, s \ {y})}
<1>1. \A s \in SUBSET S : AllSummable(ts, s) /\ Cardinality(s) \in Nat
  BY FS_Subset, FS_CardinalityType DEF AllSummable
<1>2. ASSUME Wrong # {}
      PROVE  FALSE
  <2>1. PICK n \in Wrong : \A m \in Wrong : n <= m
    BY <1>2, Least
  <2>2a. PICK s \in SUBSET S :
           Cardinality(s) = n /\ \E y \in s : Sum(ts, s) # ts[y].quantity + Sum(ts, s \ {y})
    OBVIOUS
  <2>2. PICK y \in s : Cardinality(s) = n /\ Sum(ts, s) # ts[y].quantity + Sum(ts, s \ {y})
    BY <2>2a
  <2> DEFINE c == First(s)
  <2>3. c \in s /\ Sum(ts, s) = ts[c].quantity + Sum(ts, s \ {c}) /\ c # y
    BY <1>1, <2>2, SumIn, FirstIn
  <2> HIDE DEF c
  <2>4. Cardinality(s \ {c}) = n - 1 /\ Cardinality(s \ {y}) = n - 1
    BY <1>1, <2>2, <2>3, FS_RemoveElement DEF AllSummable
  <2>5. s \ {c} \in SUBSET S /\ s \ {y} \in SUBSET S /\ n - 1 \in Nat
    BY <1>1, <2>4
  <2>6. n \in Nat /\ ~ (n <= n - 1)
    BY <2>5, <1>1, <2>2
  <2>7. n - 1 \notin Wrong
    <3> HIDE DEF Wrong
    <3> QED
      BY <2>1, <2>6
  <2>8. Sum(ts, s \ {c}) = ts[y].quantity + Sum(ts, (s \ {c}) \ {y})
    <3>1. y \in s \ {c}
      BY <2>3
    <3> QED
      BY <2>4, <2>5, <2>7, <3>1
  <2>9. Sum(ts, s \ {y}) = ts[c].quantity + Sum(ts, (s \ {y}) \ {c})
    <3>1. c \in s \ {y}
      BY <2>3
    <3> QED
      BY <2>4, <2>5, <2>7, <3>1
  <2>10. (s \ {c}) \ {y} = (s \ {y}) \ {c} /\ (s \ {c}) \ {y} \in SUBSET S
    OBVIOUS
  <2>11. Sum(ts, (s \ {c}) \ {y}) \in Int /\ ts[y].quantity \in Int /\ ts[c].quantity \in Int
    BY <1>1, <2>3, <2>10, SumIn DEF AllSummable
  <2> QED
    BY <2>2, <2>3, <2>8, <2>9, <2>10, <2>11
<1>3. Cardinality(S) \in Nat /\ Cardinality(S) \notin Wrong
  BY <1>1, <1>2
<1> QED
  BY <1>3

\* The places can be renamed.
Renamed(m, S) == {m[i] : i \in S}

Renames(m, ts, us, S) ==
  /\ \A i, j \in S : m[i] = m[j] => i = j
  /\ \A i \in S : us[m[i]].quantity = ts[i].quantity

LEMMA SumMoved ==
  ASSUME NEW ts, NEW us, NEW S, AllSummable(ts, S), NEW m, Renames(m, ts, us, S)
  PROVE  Sum(us, Renamed(m, S)) = Sum(ts, S)
<1>0. /\ \A i, j \in S : m[i] = m[j] => i = j
      /\ \A i \in S : us[m[i]].quantity = ts[i].quantity
  BY DEF Renames
<1> DEFINE Moved(s) == {m[i] : i \in s}
           Wrong == {n \in Nat : \E s \in SUBSET S :
             Cardinality(s) = n /\ Sum(us, Moved(s)) # Sum(ts, s)}
<1>1. \A s \in SUBSET S :
        /\ AllSummable(ts, s) /\ AllSummable(us, Moved(s))
        /\ Cardinality(s) \in Nat
  <2> SUFFICES ASSUME NEW s \in SUBSET S
               PROVE  /\ AllSummable(ts, s) /\ AllSummable(us, Moved(s))
                      /\ Cardinality(s) \in Nat
    OBVIOUS
  <2>1. IsFiniteSet(s) /\ Cardinality(s) \in Nat
    BY FS_Subset, FS_CardinalityType DEF AllSummable
  <2>2. IsFiniteSet(Moved(s))
    <3>1. [i \in s |-> m[i]] \in Surjection(s, Moved(s))
      BY DEF Surjection
    <3> HIDE DEF Moved
    <3> QED
      BY <2>1, <3>1, FS_Surjection
  <2> QED
    BY <1>0, <2>1, <2>2 DEF AllSummable
<1>2. ASSUME Wrong # {}
      PROVE  FALSE
  <2>1. PICK n \in Wrong : \A k \in Wrong : n <= k
    BY <1>2, Least
  <2>2. PICK s \in SUBSET S : Cardinality(s) = n /\ Sum(us, Moved(s)) # Sum(ts, s)
    OBVIOUS
  <2>3. s # {}
    <3>1. Moved({}) = {}
      OBVIOUS
    <3>2. AllSummable(ts, {}) /\ AllSummable(us, {})
      BY FS_EmptySet DEF AllSummable
    <3>3. Sum(us, {}) = 0 /\ Sum(ts, {}) = 0
      BY <3>2, SumIn
    <3> QED
      BY <2>2, <3>1, <3>3
  <2>4. PICK x \in s : TRUE
    BY <2>3
  <2>5. Moved(s) \ {m[x]} = Moved(s \ {x}) /\ m[x] \in Moved(s) /\ s \ {x} \in SUBSET S
    BY <1>0
  <2>6. Cardinality(s \ {x}) = n - 1 /\ n - 1 \in Nat /\ n \in Nat
    <3>1. IsFiniteSet(s) /\ Cardinality(s \ {x}) \in Nat
      BY <1>1, <2>5 DEF AllSummable
    <3>2. Cardinality(s \ {x}) = Cardinality(s) - 1
      BY <3>1, FS_RemoveElement
    <3> QED
      BY <1>1, <2>2, <3>1, <3>2
  <2>7. n - 1 \notin Wrong
    <3> HIDE DEF Wrong
    <3> QED
      BY <2>1, <2>6
  <2>8. Sum(us, Moved(s \ {x})) = Sum(ts, s \ {x})
    BY <2>5, <2>6, <2>7
  <2>9. Sum(ts, s) = ts[x].quantity + Sum(ts, s \ {x})
    <3>1. AllSummable(ts, s)
      BY <1>1
    <3> QED
      BY <3>1, SumLast
  <2>10. Sum(us, Moved(s)) = us[m[x]].quantity + Sum(us, Moved(s) \ {m[x]})
    <3> HIDE DEF Moved
    <3> QED
      BY <1>1, <2>5, SumLast
  <2> QED
    BY <1>0, <2>2, <2>5, <2>8, <2>9, <2>10
<1>3. Cardinality(S) \in Nat /\ Cardinality(S) \notin Wrong
  BY <1>1, <1>2
<1>4. Sum(us, Moved(S)) = Sum(ts, S)
  BY <1>3
<1> QED
  BY <1>4 DEF Renamed

\* The trades of o among ts.
Places(ts, o) == {i \in 1 .. Len(ts) : o \in {ts[i].buyOrderId, ts[i].sellOrderId}}

LEMMA PlacesSummable ==
  ASSUME NEW ts \in Seq(TradeType), NEW o
  PROVE  AllSummable(ts, Places(ts, o)) /\ Sum(ts, Places(ts, o)) \in Int
<1>1. \A i \in 1 .. Len(ts) : ts[i] \in TradeType
  OBVIOUS
<1>2. \A i \in Places(ts, o) : ts[i].quantity \in Int
  BY <1>1 DEF Places, TradeType, Quantities
<1>3. IsFiniteSet(Places(ts, o))
  <2>1. IsFiniteSet(1 .. Len(ts))
    BY FS_Interval
  <2> QED
    BY <2>1, FS_Subset DEF Places
<1>4. AllSummable(ts, Places(ts, o))
  BY <1>2, <1>3 DEF AllSummable
<1> QED
  BY <1>4, SumIn

\* A trade that is put in counts for its two orders and for no other.
LEMMA SumInserted ==
  ASSUME NEW ts \in Seq(TradeType), NEW e \in TradeType, NEW i \in 0 .. Len(ts), NEW us,
         us = InsertAfter(ts, i, e), NEW o
  PROVE  /\ Sum(ts, Places(ts, o)) \in Int /\ Sum(us, Places(us, o)) \in Int
         /\ Sum(us, Places(us, o)) = Sum(ts, Places(ts, o))
              + (IF o \in {e.buyOrderId, e.sellOrderId} THEN e.quantity ELSE 0)
<1> DEFINE Old == Places(ts, o)
           New == Places(us, o)
           place == [j \in 1 .. Len(ts) |-> IF j <= i THEN j ELSE j + 1]
           Moved == Renamed(place, Old)
<1>1. /\ us \in Seq(TradeType) /\ Len(us) = Len(ts) + 1 /\ us[i + 1] = e
      /\ \A j \in 1 .. i : us[j] = ts[j]
      /\ \A j \in i + 1 .. Len(ts) : us[j + 1] = ts[j]
  <2>1. /\ InsertAfter(ts, i, e) \in Seq(TradeType) /\ Len(InsertAfter(ts, i, e)) = Len(ts) + 1
        /\ InsertAfter(ts, i, e)[i + 1] = e
        /\ \A j \in 1 .. i : InsertAfter(ts, i, e)[j] = ts[j]
        /\ \A j \in i + 1 .. Len(ts) : InsertAfter(ts, i, e)[j + 1] = ts[j]
    BY ONLY InsertedAt, ts \in Seq(TradeType), e \in TradeType, i \in 0 .. Len(ts)
  <2> QED
    BY ONLY <2>1, us = InsertAfter(ts, i, e)
<1>2. Len(ts) \in Nat /\ i \in Nat /\ i <= Len(ts)
  OBVIOUS
<1>3. /\ \A j \in 1 .. Len(ts) : place[j] \in 1 .. Len(us) /\ place[j] # i + 1 /\ us[place[j]] = ts[j]
      /\ \A j, k \in 1 .. Len(ts) : place[j] = place[k] => j = k
  <2>1. ASSUME NEW j \in 1 .. Len(ts)
        PROVE  place[j] \in 1 .. Len(us) /\ place[j] # i + 1 /\ us[place[j]] = ts[j]
    <3>1. CASE j <= i
      <4>1. j \in 1 .. i /\ place[j] = j
        BY <1>2, <3>1
      <4> QED
        BY <1>1, <1>2, <4>1
    <3>2. CASE ~(j <= i)
      <4>1. j \in i + 1 .. Len(ts) /\ place[j] = j + 1
        BY <1>2, <3>2
      <4>2. us[j + 1] = ts[j]
        BY <1>1, <4>1
      <4>3. j + 1 \in 1 .. Len(us) /\ j + 1 # i + 1
        BY <1>1, <1>2, <4>1
      <4> QED
        BY <4>1, <4>2, <4>3
    <3> QED
      BY <3>1, <3>2
  <2>2. \A j, k \in 1 .. Len(ts) : place[j] = place[k] => j = k
    BY <1>2
  <2> QED
    BY <2>1, <2>2
<1>4. \A k \in 1 .. Len(us) : k # i + 1 => \E j \in 1 .. Len(ts) : place[j] = k
  <2> SUFFICES ASSUME NEW k \in 1 .. Len(us), k # i + 1
               PROVE  \E j \in 1 .. Len(ts) : place[j] = k
    OBVIOUS
  <2>1. k \in Nat /\ 1 <= k /\ k <= Len(ts) + 1
    BY <1>1, <1>2
  <2>2. CASE k <= i
    <3>1. k \in 1 .. Len(ts) /\ place[k] = k
      BY <1>2, <2>1, <2>2
    <3> QED
      BY <3>1
  <2>3. CASE ~(k <= i)
    <3>1. k - 1 \in 1 .. Len(ts) /\ ~(k - 1 <= i) /\ (k - 1) + 1 = k
      BY <1>2, <2>1, <2>3
    <3>2. place[k - 1] = k
      BY <3>1
    <3> QED
      BY <3>1, <3>2
  <2> QED
    BY <2>2, <2>3
<1>5. Old \subseteq 1 .. Len(ts)
  BY DEF Places
<1> HIDE DEF place
<1>6. /\ o \in {e.buyOrderId, e.sellOrderId} => i + 1 \in New /\ New \ {i + 1} = Moved
      /\ o \notin {e.buyOrderId, e.sellOrderId} => New = Moved
  <2>1. \A j \in 1 .. Len(ts) : place[j] \in New <=> j \in Old
    BY <1>3 DEF Places
  <2>2. New \subseteq 1 .. Len(us)
    BY DEF Places
  <2>3. \A k \in New : k # i + 1 => k \in Moved
    BY <1>4, <2>1, <2>2 DEF Renamed
  <2>4. \A k \in Moved : k \in New /\ k # i + 1
    BY <1>3, <1>5, <2>1 DEF Renamed
  <2>5. i + 1 \in New <=> o \in {e.buyOrderId, e.sellOrderId}
    BY <1>1, <1>2 DEF Places
  <2> HIDE DEF New, Moved
  <2> QED
    BY <2>3, <2>4, <2>5
<1>7. AllSummable(ts, Old) /\ Sum(ts, Old) \in Int /\ AllSummable(us, New) /\ Sum(us, New) \in Int
  BY <1>1, PlacesSummable
<1>8. Sum(us, Moved) = Sum(ts, Old)
  <2>1. Renames(place, ts, us, Old)
    BY <1>3, <1>5 DEF Renames
  <2> HIDE DEF Old
  <2> QED
    BY <1>7, <2>1, SumMoved
<1> HIDE DEF New, Old, Moved
<1>9. CASE o \in {e.buyOrderId, e.sellOrderId}
  <2>1. i + 1 \in New /\ New \ {i + 1} = Moved
    BY <1>6, <1>9
  <2>2. Sum(us, New) = us[i + 1].quantity + Sum(us, New \ {i + 1})
    BY <1>7, <2>1, SumLast
  <2>3. e.quantity \in Int
    BY DEF TradeType, Quantities
  <2>4. Sum(us, New \ {i + 1}) = Sum(ts, Old)
    BY ONLY <1>8, <2>1
  <2>5. us[i + 1].quantity = e.quantity
    BY <1>1
  <2>6. Sum(us, New) = Sum(ts, Old) + e.quantity
    BY ONLY <1>7, <2>2, <2>3, <2>4, <2>5
  <2> QED
    BY <1>7, <1>9, <2>6 DEF New, Old
<1>10. CASE o \notin {e.buyOrderId, e.sellOrderId}
  <2>1. Sum(us, New) = Sum(ts, Old) + 0
    BY <1>6, <1>7, <1>8, <1>10
  <2> QED
    BY <1>7, <1>10, <2>1 DEF New, Old
<1> QED
  BY <1>9, <1>10

TradedSums == \A o : Traded(o) = Sum(trades, Places(trades, o))

LEMMA TradedByPlaces == TradedSums
BY DEF TradedSums, Traded, Sum, Places

LEMMA TradedIsSum ==
  ASSUME TypeOK, NEW o
  PROVE  Traded(o) = Sum(trades, Places(trades, o)) /\ Traded(o) \in Int
BY TradedByPlaces, PlacesSummable DEF TypeOK, TradedSums

LEMMA TradedIsSumNext ==
  ASSUME TypeOK', NEW o
  PROVE  Traded(o)' = Sum(trades', Places(trades', o)) /\ Traded(o)' \in Int
<1>1. TradedSums'
  BY TradedByPlaces, PTL
<1>2. trades' \in Seq(TradeType)
  BY DEF TypeOK
<1>3. Traded(o)' = Sum(trades', Places(trades', o))
  BY <1>1 DEF TradedSums
<1> QED
  BY <1>2, <1>3, PlacesSummable
-----------------------------------------------------------------------------
(* The steps of the handler that runs.                                      *)

\* An order that is not listed has traded nothing.
LEMMA UnlistedTradesNothing ==
  ASSUME TypeOK, TradesListed, NEW o \in Orders, o \notin listed
  PROVE  Traded(o) = 0
<1>1. Places(trades, o) = {}
  BY DEF TradesListed, Places
<1>2. AllSummable(trades, Places(trades, o))
  BY PlacesSummable DEF TypeOK
<1>3. Sum(trades, Places(trades, o)) = 0
  BY <1>1, <1>2, SumIn
<1> QED
  BY <1>3, TradedIsSum

LEMMA NothingOwed ==
  ASSUME NEW h \in Handlers, ~Matched(h) \/ pc[h] = "respond"
  PROVE  Unsettled(h) = {} /\ \A o : Owed(h, o) = 0
<1>1. Unsettled(h) = {}
  BY DEF Unsettled
<1> QED
  BY <1>1 DEF Owed

LEMMA NothingOwedNext ==
  ASSUME NEW h \in Handlers, ~Matched(h)' \/ pc'[h] = "respond"
  PROVE  Unsettled(h)' = {} /\ \A o : Owed(h, o)' = 0
<1>1. Unsettled(h)' = {}
  BY DEF Unsettled
<1> QED
  BY <1>1 DEF Owed

\* A step that neither trades nor changes an order or the book.
LEMMA BalanceKept ==
  ASSUME TypeInv, TypeInv', LifeOK, NEW h \in Handlers, BalanceOK(h),
         UNCHANGED <<redis, listed>>, told \subseteq told',
         \A o \in Orders : placed[o] # NoOrder => placed'[o] = placed[o],
         pc[h] # "saveStatus",
         \A o \in Orders : Owed(h, o)' = Owed(h, o),
         pc[h] = "respond" /\ call[h].event = "fillOrder"
           => [event |-> "orderFilled", orderId |-> call[h].subject] \in told'
  PROVE  BalanceOK(h)'
<1>1. order' = order /\ book' = book /\ trades' = trades /\ listed' = listed
  BY DEF redis
<1>2. \A o : Traded(o)' = Traded(o)
  BY <1>1, TradedIsSum, TradedIsSumNext DEF TypeInv
<1>3. \A o \in listed : o \in Orders /\ placed'[o] = placed[o]
  BY ListedIsPlaced
<1>4. TradesListed'
  BY <1>1 DEF BalanceOK, TradesListed
<1>5. OpenOK(h)'
  BY <1>1, <1>2, <1>3 DEF BalanceOK, OpenOK, InBook
<1>6. FilledOK(h)'
  BY <1>1, <1>2, <1>3 DEF BalanceOK, FilledOK
<1>7. NotOvertraded'
  <2> SUFFICES ASSUME NEW o \in Orders, placed'[o] # NoOrder
               PROVE  Traded(o)' <= placed'[o].quantity
    BY DEF NotOvertraded
  <2>1. CASE placed[o] # NoOrder
    BY <2>1, <1>2 DEF BalanceOK, NotOvertraded
  <2>2. CASE placed[o] = NoOrder
    <3>1. o \notin listed
      BY <2>2, ListedIsPlaced
    <3>2. Traded(o) = 0
      BY <3>1, UnlistedTradesNothing DEF BalanceOK, TypeInv
    <3>3. placed'[o].quantity \in Nat
      BY DEF TypeInv, TypeOK, OrderType, Quantities
    <3> QED
      BY <3>2, <3>3, <1>2
  <2> QED
    BY <2>1, <2>2
<1> QED
  BY <1>4, <1>5, <1>6, <1>7 DEF BalanceOK

\* Nothing that was read is used any more.
LEMMA NothingInUse ==
  ASSUME NEW h \in Handlers, \A s \in Sides : ~InUse(h, s)',
         pc'[h] \notin {"readForStatus", "removeOrder", "saveStatus", "saveUpdate",
                       "readOpposite", "readLastTrade", "addToBook"},
         pc'[h] = "checkOpen" => ~Matched(h)'
  PROVE  /\ SnapshotCurrent(h)' /\ CopyCurrent(h)' /\ ClosesOK(h)'
         /\ LowestAsk(h)' /\ PricingOK(h)'
<1>1. SnapshotCurrent(h)'
  BY DEF SnapshotCurrent
<1>2. CopyCurrent(h)'
  BY DEF CopyCurrent
<1>3. ClosesOK(h)'
  BY DEF ClosesOK
<1>4. LowestAsk(h)'
  BY DEF LowestAsk, InUse, Sides
<1>5. PricingOK(h)'
  BY DEF PricingOK
<1> QED
  BY <1>1, <1>2, <1>3, <1>4, <1>5

LEMMA SerialRequest ==
  ASSUME IInv, IInv', [Next]_vars, NEW h \in Handlers, SerialOK(h), Request(h)
  PROVE  SerialOK(h)'
<1>1. pc[h] = "idle" /\ call[h] = NoCall /\ UNCHANGED <<redis, listed, told>>
  BY DEF Request, RequestCreate, RequestMatch, RequestCancel, RequestFill, IInv, TypeInv, FrameOK, EventOK
<1>2. /\ ~Matched(h)' /\ call'[h].top = NoCall.top
      /\ pc'[h] \in {"saveOrder", "rankBids", "checkOpen", "readForStatus"}
      /\ pc'[h] = "readForStatus" => call'[h].event = "cancelOrder"
  <2>1. CASE \E o \in Orders, r \in Requests : RequestCreate(h, o, r)
    BY <1>1, <2>1, NoCallFields, SetRequest
       DEF RequestCreate, Sends, Matched, IncomingEvents, IInv, TypeInv, TypeOK
  <2>2. CASE RequestMatch(h)
    BY <1>1, <2>2, NoCallFields DEF RequestMatch, Sends, Matched, IInv, TypeInv, TypeOK, CallType
  <2>3. CASE \E o \in Orders : RequestCancel(h, o)
    BY <1>1, <2>3, NoCallFields, SetRequest
       DEF RequestCancel, Sends, Matched, IncomingEvents, IInv, TypeInv, TypeOK
  <2>4. CASE \E o \in Orders : RequestFill(h, o)
    BY <1>1, <2>4, NoCallFields, SetRequest
       DEF RequestFill, Sends, Matched, IncomingEvents, IInv, TypeInv, TypeOK
  <2> QED
    BY <2>1, <2>2, <2>3, <2>4 DEF Request
<1>3. \A s \in Sides : ~InUse(h, s)'
  BY <1>2, NoCallFields, NothingOwedNext DEF InUse
<1>4. /\ SnapshotCurrent(h)' /\ CopyCurrent(h)' /\ LowestAsk(h)' /\ PricingOK(h)'
  BY <1>2, <1>3 DEF SnapshotCurrent, CopyCurrent, LowestAsk, PricingOK, InUse, Sides
<1>5. ClosesOK(h)'
  BY <1>2 DEF ClosesOK
<1>6. BalanceOK(h)'
  <2>1. ~Matched(h)
    BY <1>1, NoCallFields DEF Matched
  <2>2. \A o \in Orders : Owed(h, o)' = Owed(h, o)
    BY <1>2, <2>1, NothingOwed, NothingOwedNext
  <2> QED
    BY <1>1, <2>2, BalanceKept, PlacedAndToldStay DEF SerialOK, IInv
<1> QED
  BY <1>4, <1>5, <1>6 DEF SerialOK

\* The answers, and the failed reads, which leave nothing behind.
LEMMA SerialRespond ==
  ASSUME IInv, IInv', [Next]_vars, NEW h \in Handlers, SerialOK(h),
         Respond(h) \/ RespondError(h) \/ (Throws(h) /\ ~Matched(h) /\ UNCHANGED told
                                           /\ pc[h] \notin {"respond", "saveStatus"}),
         UNCHANGED <<redis, placed, listed>>
  PROVE  SerialOK(h)'
<1>1. pc'[h] = "idle" /\ call'[h] = NoCall
  BY DEF Respond, RespondError, Throws, Sends, IInv, TypeInv, TypeOK
<1>2. ~Matched(h)' /\ call'[h].top = NoCall.top
  BY <1>1, NoCallFields DEF Matched
<1>3. \A s \in Sides : ~InUse(h, s)'
  BY <1>2, NoCallFields, NothingOwedNext DEF InUse
<1>4. /\ SnapshotCurrent(h)' /\ CopyCurrent(h)' /\ ClosesOK(h)'
      /\ LowestAsk(h)' /\ PricingOK(h)'
  BY <1>1, <1>3, NothingInUse
<1>5. BalanceOK(h)'
  <2>1. pc[h] # "saveStatus" /\ (~Matched(h) \/ pc[h] = "respond")
    BY DEF Respond, RespondError, IInv, TypeInv, FrameOK, EventOK
  <2>2. \A o \in Orders : Owed(h, o)' = Owed(h, o)
    BY <1>2, <2>1, NothingOwed, NothingOwedNext
  <2>3. pc[h] = "respond" /\ call[h].event = "fillOrder"
          => [event |-> "orderFilled", orderId |-> call[h].subject] \in told'
    BY DEF Respond, RespondError, Answers
  <2> QED
    BY <2>1, <2>2, <2>3, BalanceKept, PlacedAndToldStay DEF SerialOK, IInv
<1> QED
  BY <1>4, <1>5 DEF SerialOK

\* What the steps of matchTopOrders that only read have in common.
LEMMA SerialReads ==
  ASSUME IInv, IInv', [Next]_vars, NEW h \in Handlers, SerialOK(h), pc[h] \in Matching,
         UNCHANGED <<redis, placed, listed, told>>,
         ~Matched(h)', pc'[h] \in Matching \cup {"saveOrder", "respond"},
         \A s \in Sides : InUse(h, s)' =>
           \/ call'[h].top[s] = call[h].top[s]
           \/ \E o \in Orders : IsTop(s, o) /\ call'[h].top[s] = Ranked(s, o)
           \/ /\ call[h].top[s] # NoEntry
              /\ call'[h].top[s].orderId = call[h].top[s].orderId
              /\ call'[h].top[s].price = call[h].top[s].price
              /\ call'[h].top[s].quantity = order[call[h].top[s].orderId].quantity
              /\ call'[h].top[s].status = order[call[h].top[s].orderId].status
  PROVE  SerialOK(h)'
<1>1. ~Matched(h) /\ pc'[h] \notin {"checkOpen", "readForStatus", "removeOrder", "saveStatus",
                            "saveUpdate", "readOpposite", "readLastTrade", "addToBook"}
  BY DEF IInv, TypeInv, FrameOK, EventOK, Matching
<1>2. SnapshotCurrent(h)'
  <2> SUFFICES ASSUME NEW s \in Sides, InUse(h, s)'
               PROVE  (LET top == call[h].top[s]
                       IN  /\ top.status # "unread" =>
                                order[top.orderId].quantity = top.quantity
                                /\ order[top.orderId].status = top.status
                           /\ top.orderId \in Members(book[s])
                           /\ top.price = PriceOf(s, book[s][top.orderId]))'
    BY DEF SnapshotCurrent
  <2>1. UNCHANGED <<order, book>>
    BY DEF redis
  <2>2. call'[h].top[s] # NoEntry
    BY DEF InUse
  <2>3. CASE \E o \in Orders : IsTop(s, o) /\ call'[h].top[s] = Ranked(s, o)
    BY <2>1, <2>3 DEF IsTop, IsFirst, IsLast, Ranked, Sides
  <2>4. ASSUME call[h].top[s] # NoEntry
        PROVE  LET top == call[h].top[s]
               IN  /\ top.status # "unread" =>
                        order[top.orderId].quantity = top.quantity
                        /\ order[top.orderId].status = top.status
                   /\ top.orderId \in Members(book[s])
                   /\ top.price = PriceOf(s, book[s][top.orderId])
    BY <2>4 DEF InUse, SerialOK, SnapshotCurrent, TakenOut, Matching
  <2> QED
    BY <2>1, <2>2, <2>3, <2>4
<1>3. LowestAsk(h)'
  <2> SUFFICES ASSUME pc'[h] \in Matching, call'[h].top["SELL"] # NoEntry
               PROVE  IsFirst(book["SELL"], call'[h].top["SELL"].orderId)
    BY DEF LowestAsk, redis
  <2>1. InUse(h, "SELL")'
    BY DEF InUse
  <2>2. CASE \E o \in Orders : IsTop("SELL", o) /\ call'[h].top["SELL"] = Ranked("SELL", o)
    BY <2>2 DEF IsTop, Ranked
  <2>3. CASE call[h].top["SELL"] # NoEntry /\ call'[h].top["SELL"].orderId = call[h].top["SELL"].orderId
    BY <2>3 DEF SerialOK, LowestAsk
  <2> QED
    BY <2>1, <2>2, <2>3 DEF Sides
<1>4. CopyCurrent(h)' /\ ClosesOK(h)' /\ PricingOK(h)'
  BY <1>1 DEF CopyCurrent, ClosesOK, PricingOK, Matching
<1>5. BalanceOK(h)'
  <2>1. \A o \in Orders : Owed(h, o)' = Owed(h, o)
    BY <1>1, NothingOwed, NothingOwedNext
  <2> QED
    BY <2>1, BalanceKept DEF SerialOK, IInv, Matching
<1> QED
  BY <1>2, <1>3, <1>4, <1>5 DEF SerialOK

LEMMA SerialRank ==
  ASSUME IInv, IInv', [Next]_vars, NEW h \in Handlers, SerialOK(h), RankBids(h) \/ RankAsks(h)
  PROVE  SerialOK(h)'
<1>1. /\ ~Matched(h)' /\ pc[h] \in Matching
      /\ pc'[h] \in Matching \cup {"saveOrder", "respond"}
      /\ \A s \in Sides :
           \/ call'[h].top[s] = call[h].top[s]
           \/ \E o \in Orders : IsTop(s, o) /\ call'[h].top[s] = Ranked(s, o)
  BY MatchingKeeps DEF RankBids, RankAsks, Matching, Matched, IInv, TypeInv, FrameOK, EventOK
<1> QED
  BY <1>1, SerialReads DEF RankBids, RankAsks

LEMMA SerialRead ==
  ASSUME IInv, IInv', [Next]_vars, NEW h \in Handlers, SerialOK(h), ReadBid(h) \/ ReadAsk(h)
  PROVE  SerialOK(h)'
<1>1. PICK s \in Sides : /\ ReadRanked(h, s)
                         /\ pc[h] = IF s = "BUY" THEN "readBid" ELSE "readAsk"
  BY DEF ReadBid, ReadAsk, Sides
<1> DEFINE stored == order[call[h].top[s].orderId]
           top == [call[h].top EXCEPT ![s].quantity = stored.quantity, ![s].status = stored.status]
<1>2. TypeInv /\ TopOK(h) /\ EventOK(h) /\ pc[h] \in Matching
  BY <1>1 DEF IInv, TypeInv, FrameOK, Matching
<1>3. CASE stored = NoOrder
  BY <1>1, <1>2, <1>3, SerialRespond DEF ReadRanked, EventOK, Matching
<1>4. CASE stored # NoOrder
  <2>1. call[h] \in CallType /\ call[h].top \in [Sides -> EntryType \cup {NoEntry}]
    BY <1>2 DEF TypeInv, TypeOK, CallType
  <2>2. call[h].top[s] \in EntryType /\ call[h].top[s] # NoEntry
    BY <1>1, <1>2, <2>1 DEF TopOK, Sides
  <2>3. /\ top[s].orderId = call[h].top[s].orderId /\ top[s].price = call[h].top[s].price
        /\ top[s].quantity = stored.quantity /\ top[s].status = stored.status
        /\ \A t \in Sides \ {s} : top[t] = call[h].top[t]
    BY <2>1, <2>2 DEF EntryType
  <2>4. call' = [call EXCEPT ![h].top = top]
    BY <1>1, <1>4 DEF ReadRanked
  <2>5. pc'[h] = IF s = "BUY" /\ top["SELL"] # NoEntry THEN "readAsk" ELSE AfterReads(h, top)
    BY <1>1, <1>2, <1>4 DEF ReadRanked, Sends, TypeInv, TypeOK
  <2>6. UNCHANGED <<redis, placed, listed, told>>
    BY <1>1, <1>4 DEF ReadRanked
  <2> HIDE DEF top, stored
  <2>7. call'[h].top = top /\ call'[h].settling = call[h].settling
    BY <1>2, <2>1, <2>4 DEF TypeInv, TypeOK, CallType
  <2>8. ~Matched(h)' /\ pc'[h] \in Matching \cup {"saveOrder", "respond"}
    BY <1>2, <2>5, <2>7 DEF AfterReads, Matching, EventOK, Matched
  <2>9. \A t \in Sides :
          \/ call'[h].top[t] = call[h].top[t]
          \/ /\ call[h].top[t] # NoEntry
             /\ call'[h].top[t].orderId = call[h].top[t].orderId
             /\ call'[h].top[t].price = call[h].top[t].price
             /\ call'[h].top[t].quantity = order[call[h].top[t].orderId].quantity
             /\ call'[h].top[t].status = order[call[h].top[t].orderId].status
    BY <2>2, <2>3, <2>7 DEF stored
  <2> QED
    BY <1>2, <2>6, <2>8, <2>9, SerialReads
<1> QED
  BY <1>3, <1>4

-----------------------------------------------------------------------------
(* A trade and its two settlements.                                         *)

\* While a side of a trade is settled, its order is what was read: it is OPEN,
\* in the book until setOrderStatus takes it out, and owes the whole trade.
LEMMA SettledSide ==
  ASSUME IInv, NEW h \in Handlers, SerialOK(h), Matched(h), pc[h] \in Changing
  PROVE  LET s == call[h].settling
             t == Target(h)
         IN  /\ s \in Sides /\ s \in Unsettled(h)
             /\ t = call[h].top[s].orderId /\ t \in listed /\ placed[t].side = s
             /\ \A u \in Sides \ {s} : call[h].top[u].orderId # t
             /\ order[t].status = "OPEN" /\ order[t].quantity = call[h].top[s].quantity
             /\ pc[h] # "saveStatus" => t \in Members(book[s])
             /\ Owed(h, t) = MatchQuantity(h)
             /\ Remaining(h, s) + Traded(t) = placed[t].quantity
<1> DEFINE s == call[h].settling
           t == Target(h)
<1>1. TypeInv /\ EventOK(h) /\ TopOK(h) /\ TargetOK(h) /\ SnapshotOK(h) /\ SnapshotCurrent(h) /\ OpenOK(h)
  BY DEF IInv, TypeInv, FrameOK, LifeOK, TermsOK, SerialOK, BalanceOK
<1>2. s \in Sides /\ s \in Unsettled(h)
  BY <1>1 DEF Matched, TypeInv, TypeOK, CallType, Sides, Unsettled, Changing
<1>3. t = call[h].top[s].orderId
  BY <1>1 DEF Target, EventOK
<1>4. \A u \in Sides : /\ call[h].top[u] \in EntryType /\ call[h].top[u] # NoEntry
                       /\ call[h].top[u].status = "OPEN" /\ placed[call[h].top[u].orderId].side = u
  BY <1>1, MatchArithmetic DEF TopOK, Crosses, Sides, SnapshotOK
<1>5. t \in listed /\ placed[t].side = s
  BY <1>1, <1>2, <1>3, <1>4 DEF TargetOK
<1>6. \A u \in Sides \ {s} : call[h].top[u].orderId # t
  BY <1>2, <1>3, <1>4, <1>5
<1>7. InUse(h, s)
  BY <1>2, <1>4 DEF InUse
<1>8. /\ order[t].status = "OPEN" /\ order[t].quantity = call[h].top[s].quantity
      /\ pc[h] # "saveStatus" => t \in Members(book[s])
  BY <1>1, <1>2, <1>3, <1>4, <1>7 DEF SnapshotCurrent, TakenOut
<1>9. Owed(h, t) = MatchQuantity(h)
  BY <1>2, <1>3 DEF Owed
<1>10. Remaining(h, s) + Traded(t) = placed[t].quantity
  <2>1. order[t].quantity + Traded(t) = placed[t].quantity + MatchQuantity(h)
    BY <1>1, <1>5, <1>8, <1>9 DEF OpenOK
  <2>2. /\ Traded(t) \in Int /\ MatchQuantity(h) \in Int /\ call[h].top[s].quantity \in Int
        /\ placed[t].quantity \in Int
    BY <1>1, <1>2, <1>4, <1>5, TradedIsSum, MatchArithmetic, ListedIsPlaced
       DEF TypeInv, Quantities, EntryType, OrderType, IInv
  <2> QED
    BY <1>8, <2>1, <2>2 DEF Remaining
<1> QED
  BY <1>2, <1>3, <1>5, <1>6, <1>8, <1>9, <1>10

\* Afterwards that side is settled, and the other one if it was the ask.
LEMMA ContinueSettles ==
  ASSUME TypeInv, NEW h \in Handlers, pc[h] \in Changing, Continue(h)
  PROVE  /\ Unsettled(h)' = Unsettled(h) \ {call[h].settling}
         /\ MatchQuantity(h)' = MatchQuantity(h)
         /\ CopyCurrent(h)' /\ ClosesOK(h)' /\ LowestAsk(h)' /\ PricingOK(h)'
<1>1. /\ call'[h].event = call[h].event /\ call'[h].top = call[h].top
      /\ Matched(h)' = Matched(h) /\ pc'[h] \in {"checkOpen", "readForUpdate", "respond"}
      /\ pc'[h] # "respond" => Matched(h)
  BY ContinueKeeps
<1>2. /\ call[h].settling = "BUY" => call'[h].settling = "SELL" /\ pc'[h] = Settle(h, "SELL")
      /\ call[h].settling # "BUY" => pc'[h] = "respond"
  BY DEF Continue, Sends, TypeInv, TypeOK, CallType
<1>3. call[h].settling \in {"BUY", "SELL", "none"}
  BY DEF TypeInv, TypeOK, CallType, Sides
<1>4. MatchQuantity(h)' = MatchQuantity(h) /\ Remaining(h, "SELL")' = Remaining(h, "SELL")
  BY <1>1 DEF MatchQuantity, Remaining
<1>5. Unsettled(h)' = Unsettled(h) \ {call[h].settling}
  <2>1. CASE call[h].settling = "BUY"
    <3>1. Unsettled(h) = {"BUY", "SELL"}
      BY <2>1 DEF Unsettled, Matched, Sides, Changing
    <3>2. Unsettled(h)' = {"SELL"}
      BY <2>1, <1>2 DEF Unsettled, Matched, Sides, Settle
    <3> QED
      BY <2>1, <3>1, <3>2
  <2>2. CASE call[h].settling # "BUY"
    <3>1. Unsettled(h)' = {}
      BY <2>2, <1>2 DEF Unsettled
    <3>2. Unsettled(h) \subseteq {call[h].settling}
      BY <2>2, <1>3 DEF Unsettled, Matched, Sides
    <3> QED
      BY <3>1, <3>2
  <2> QED
    BY <2>1, <2>2
<1>6. CopyCurrent(h)' /\ LowestAsk(h)' /\ PricingOK(h)'
  BY <1>1 DEF CopyCurrent, LowestAsk, PricingOK, Matching
<1>7. ClosesOK(h)'
  <2>1. pc'[h] = "checkOpen" => Remaining(h, "SELL") <= 0 /\ call'[h].settling = "SELL"
    BY <1>2, <1>3 DEF Settle
  <2> QED
    BY <1>1, <1>4, <2>1 DEF ClosesOK
<1> QED
  BY <1>4, <1>5, <1>6, <1>7

LEMMA SerialStoreTrade ==
  ASSUME IInv, IInv', [Next]_vars, NEW h \in Handlers, SerialOK(h), StoreTrade(h)
  PROVE  SerialOK(h)'
<1> DEFINE b == call[h].top["BUY"].orderId
           a == call[h].top["SELL"].orderId
           trade == [buyOrderId |-> b, sellOrderId |-> a,
                     quantity |-> MatchQuantity(h), price |-> MatchPrice(h)]
<1>1. /\ TypeInv /\ TopOK(h) /\ TargetOK(h) /\ EventOK(h) /\ pc[h] = "storeTrade" /\ ~Matched(h)
      /\ UNCHANGED <<order, book, placed, listed, told>>
  BY DEF StoreTrade, IInv, TypeInv, FrameOK, EventOK, LifeOK, Matching
<1>2. /\ pc'[h] = Settle(h, "BUY") /\ call'[h].settling = "BUY" /\ Matched(h)'
      /\ call'[h].top = call[h].top /\ call'[h].event = call[h].event
  <2>1. call' = [call EXCEPT ![h].settling = "BUY"] /\ pc' = [pc EXCEPT ![h] = Settle(h, "BUY")]
    BY DEF StoreTrade, Sends
  <2> QED
    BY <1>1, <2>1, SetSettling DEF Matched, TypeInv, TypeOK, Sides
<1>3. \A s \in Sides : /\ call[h].top[s] \in EntryType /\ call[h].top[s] # NoEntry
                       /\ call[h].top[s].status = "OPEN"
  BY <1>1, MatchArithmetic DEF TopOK, Crosses, Sides
<1>4. \A s \in Sides :
        /\ order[call[h].top[s].orderId].quantity = call[h].top[s].quantity
        /\ order[call[h].top[s].orderId].status = "OPEN"
        /\ call[h].top[s].orderId \in Members(book[s])
        /\ call[h].top[s].price = PriceOf(s, book[s][call[h].top[s].orderId])
  BY <1>1, <1>3 DEF SerialOK, SnapshotCurrent, InUse, TakenOut, Matching
<1>5. /\ a \in listed /\ b \in listed /\ trade \in TradeType /\ MatchQuantity(h) \in Quantities
      /\ MatchQuantity(h) <= order[a].quantity /\ MatchQuantity(h) <= order[b].quantity
  <2>1. a \in listed /\ b \in listed /\ a \in Orders /\ b \in Orders
    BY <1>1, <1>3 DEF TargetOK, EntryType, Sides
  <2>2. /\ MatchQuantity(h) <= call[h].top["BUY"].quantity
        /\ MatchQuantity(h) <= call[h].top["SELL"].quantity
    BY <1>3 DEF MatchQuantity, EntryType, Sides
  <2> QED
    BY <1>1, <1>4, <2>1, <2>2, MatchArithmetic DEF TradeType, Sides
<1>6. Unsettled(h)' = Sides /\ MatchQuantity(h)' = MatchQuantity(h)
      /\ \A s \in Sides : Remaining(h, s)' = Remaining(h, s)
  BY <1>2 DEF Unsettled, MatchQuantity, Remaining, Settle
<1>7. \A o : Owed(h, o) = 0 /\ Owed(h, o)' = IF o \in {b, a} THEN MatchQuantity(h) ELSE 0
  BY <1>1, <1>2, <1>6, NothingOwed DEF Owed, Sides
<1>8. PICK i \in 0 .. Len(trades) : trades' = InsertAfter(trades, i, trade)
  BY DEF StoreTrade, InsertAfter
<1>9. \A o : /\ Traded(o) \in Int /\ Traded(o)' \in Int
             /\ Traded(o)' = Traded(o) + (IF o \in {b, a} THEN MatchQuantity(h) ELSE 0)
  <2> SUFFICES ASSUME NEW o
               PROVE  /\ Traded(o) \in Int /\ Traded(o)' \in Int
                      /\ Traded(o)' = Traded(o) + (IF o \in {b, a} THEN MatchQuantity(h) ELSE 0)
    OBVIOUS
  <2>1. trades \in Seq(TradeType) /\ TypeOK /\ TypeOK'
    BY DEF IInv, TypeInv, TypeOK
  <2>2. Sum(trades', Places(trades', o)) = Sum(trades, Places(trades, o))
          + (IF o \in {trade.buyOrderId, trade.sellOrderId} THEN trade.quantity ELSE 0)
    <3> HIDE DEF trade
    <3> QED
      BY <1>5, <1>8, <2>1, SumInserted
  <2> QED
    BY <2>1, <2>2, TradedIsSum, TradedIsSumNext
<1>10. SnapshotCurrent(h)'
  <2>1. pc'[h] # "saveStatus"
    BY <1>2 DEF Settle
  <2> QED
    BY <1>1, <1>2, <1>3, <1>4, <2>1 DEF SnapshotCurrent, TakenOut
<1>11. CopyCurrent(h)' /\ ClosesOK(h)' /\ LowestAsk(h)' /\ PricingOK(h)'
  BY <1>1, <1>2, <1>6 DEF CopyCurrent, ClosesOK, LowestAsk, PricingOK, Matching, Settle, EventOK, Sides
<1>12. TradesListed'
  <2> HIDE DEF trade
  <2>1. trades \in Seq(TradeType) /\ trade \in TradeType
    BY <1>1, <1>5 DEF TypeInv, TypeOK
  <2>2. trades' = SubSeq(trades, 1, i) \o <<trade>> \o SubSeq(trades, i + 1, Len(trades))
    BY <1>8 DEF InsertAfter
  <2>3. \A j \in 1 .. Len(trades') :
          trades'[j] = trade \/ \E k \in 1 .. Len(trades) : trades'[j] = trades[k]
    BY <2>1, <2>2, Inserted
  <2>4. trade.buyOrderId \in listed /\ trade.sellOrderId \in listed
    BY <1>5 DEF trade
  <2> QED
    BY <1>1, <2>3, <2>4 DEF TradesListed, SerialOK, BalanceOK
<1>13. OpenOK(h)'
  <2> SUFFICES ASSUME NEW o \in listed, order[o].status = "OPEN"
               PROVE  InBook(o) /\ order[o].quantity + Traded(o)' = placed[o].quantity + Owed(h, o)'
    BY <1>1 DEF OpenOK, InBook
  <2>1. InBook(o) /\ order[o].quantity + Traded(o) = placed[o].quantity + 0
    BY <1>1, <1>7 DEF OpenOK, SerialOK, BalanceOK
  <2>2. order[o].quantity \in Int /\ placed[o].quantity \in Int
    BY ListedIsPlaced DEF OrderType, Quantities, IInv
  <2> QED
    BY <1>5, <1>7, <1>9, <2>1, <2>2 DEF Quantities
<1>14. FilledOK(h)'
  <2> SUFFICES ASSUME NEW o \in listed, order[o].status = "FILLED"
               PROVE  Traded(o)' = placed[o].quantity \/ [event |-> "orderFilled", orderId |-> o] \in told
    BY <1>1 DEF FilledOK
  <2>1. o \notin {b, a}
    BY <1>4 DEF Sides
  <2> QED
    BY <1>1, <1>9, <2>1 DEF FilledOK, SerialOK, BalanceOK
<1>15. NotOvertraded'
  <2> SUFFICES ASSUME NEW o \in Orders, placed[o] # NoOrder
               PROVE  Traded(o)' <= placed[o].quantity
    BY <1>1 DEF NotOvertraded
  <2>1. CASE o \in {b, a}
    <3>1. o \in listed /\ order[o].status = "OPEN" /\ MatchQuantity(h) <= order[o].quantity
      BY <2>1, <1>4, <1>5 DEF Sides
    <3>2. order[o].quantity + Traded(o) = placed[o].quantity + 0
      BY <1>7, <3>1 DEF OpenOK, SerialOK, BalanceOK
    <3>3. order[o].quantity \in Int /\ placed[o].quantity \in Int
      BY <3>1, ListedIsPlaced DEF OrderType, Quantities, IInv
    <3> QED
      BY <1>5, <1>9, <2>1, <3>1, <3>2, <3>3 DEF Quantities
  <2>2. CASE o \notin {b, a}
    BY <1>9, <2>2 DEF NotOvertraded, SerialOK, BalanceOK
  <2> QED
    BY <2>1, <2>2
<1> QED
  BY <1>10, <1>11, <1>12, <1>13, <1>14, <1>15 DEF SerialOK, BalanceOK

-----------------------------------------------------------------------------
(* fillOrder, setOrderStatus and updateOrder.                               *)

\* No settlement finds its order missing or closed, and no client's fillOrder does
\* after its own check: nothing is skipped.
LEMMA TargetFound ==
  ASSUME IInv, NEW h \in Handlers, SerialOK(h),
         pc[h] \in {"checkOpen", "readForStatus", "readForUpdate"}
  PROVE  /\ Matched(h) => order[Target(h)] \in OrderType /\ order[Target(h)].status = "OPEN"
         /\ pc[h] = "checkOpen" => Matched(h) \/ call[h].event = "fillOrder"
         /\ pc[h] = "readForStatus" => order[Target(h)] # NoOrder \/ call[h].event = "cancelOrder"
         /\ pc[h] = "readForUpdate" => Matched(h)
<1>1. TypeInv /\ EventOK(h) /\ TopOK(h) /\ TargetOK(h) /\ pc[h] \in Changing
  BY DEF IInv, TypeInv, FrameOK, LifeOK, Changing
<1>2. Matched(h) => order[Target(h)] \in OrderType /\ order[Target(h)].status = "OPEN"
  BY <1>1, SettledSide, ListedIsPlaced DEF IInv
<1>3. pc[h] = "readForStatus" /\ call[h].event = "fillOrder" => order[Target(h)] # NoOrder
  BY <1>1, ListedIsPlaced DEF TargetOK, Target, IInv
<1> QED
  BY <1>1, <1>2, <1>3, NoOrderAssumption DEF EventOK, TopOK, TypeInv, TypeOK, CallType, IncomingEvents

\* The reads of the target, which change nothing but the copy.
LEMMA SerialTargetRead ==
  ASSUME IInv, IInv', [Next]_vars, NEW h \in Handlers, SerialOK(h), pc[h] \in Changing,
         pc[h] # "saveStatus",
         UNCHANGED <<redis, placed, listed, told>>,
         call'[h].event = call[h].event, call'[h].subject = call[h].subject,
         call'[h].settling = call[h].settling, call'[h].top = call[h].top,
         pc'[h] \in {"readForStatus", "removeOrder", "saveUpdate", "respondError"},
         pc'[h] = "respondError" => ~Matched(h),
         CopyCurrent(h)', ClosesOK(h)'
  PROVE  SerialOK(h)'
<1>1. Unsettled(h)' = Unsettled(h) /\ MatchQuantity(h)' = MatchQuantity(h)
  BY DEF Unsettled, Matched, MatchQuantity, Changing
<1>2. \A o : Owed(h, o)' = Owed(h, o)
  BY <1>1 DEF Owed
<1>3. BalanceOK(h)'
  BY <1>2, BalanceKept DEF SerialOK, IInv, Changing
<1>4. SnapshotCurrent(h)'
  <2>1. \A s \in Sides : InUse(h, s)' => InUse(h, s)
    BY <1>1 DEF InUse, Matching
  <2> QED
    BY <2>1 DEF SerialOK, SnapshotCurrent, TakenOut, redis
<1>5. LowestAsk(h)' /\ PricingOK(h)'
  BY DEF LowestAsk, PricingOK, Matching
<1> QED
  BY <1>3, <1>4, <1>5 DEF SerialOK

LEMMA SerialCheckOpen ==
  ASSUME IInv, IInv', [Next]_vars, NEW h \in Handlers, SerialOK(h), CheckOpen(h)
  PROVE  SerialOK(h)'
<1> DEFINE stored == order[Target(h)]
           open == stored # NoOrder /\ stored.status = "OPEN"
<1>1. TypeInv /\ EventOK(h) /\ pc[h] = "checkOpen" /\ pc[h] \in Changing /\ ClosesOK(h)
      /\ UNCHANGED <<redis, placed, listed, told>> /\ order' = order
  BY DEF CheckOpen, IInv, TypeInv, FrameOK, Changing, SerialOK, redis
<1>2. Matched(h) => open
  BY <1>1, TargetFound, NoOrderAssumption
<1>3. open \/ call[h].event = "fillOrder"
  BY <1>1, <1>2, TargetFound
<1>4. call' = call /\ pc'[h] = IF open THEN "readForStatus" ELSE "respondError"
  BY <1>1, <1>3 DEF CheckOpen, Sends, TypeInv, TypeOK
<1>5. CopyCurrent(h)'
  BY <1>4 DEF CopyCurrent
<1>6. ClosesOK(h)'
  <2>1. Matched(h)' => Matched(h) /\ Remaining(h, call[h].settling)' = Remaining(h, call[h].settling)
    BY <1>4 DEF Matched, Remaining, MatchQuantity
  <2>2. call[h].event = "fillOrder" /\ open => stored = order[call[h].subject]
    BY DEF Target
  <2> QED
    BY <1>1, <1>4, <2>1, <2>2 DEF ClosesOK
<1> QED
  BY <1>1, <1>2, <1>4, <1>5, <1>6, SerialTargetRead

LEMMA SerialReadForStatus ==
  ASSUME IInv, IInv', [Next]_vars, NEW h \in Handlers, SerialOK(h), ReadForStatus(h)
  PROVE  SerialOK(h)'
<1> DEFINE stored == order[Target(h)]
           read == [stored EXCEPT !.status = NewStatus(h)]
<1>1. TypeInv /\ EventOK(h) /\ TargetOK(h) /\ ClosesOK(h)
      /\ pc[h] = "readForStatus" /\ pc[h] \in Changing
      /\ UNCHANGED <<redis, placed, listed, told>> /\ order' = order
  BY DEF ReadForStatus, IInv, TypeInv, FrameOK, LifeOK, Changing, SerialOK, redis
<1>2. stored # NoOrder \/ call[h].event = "cancelOrder"
  BY <1>1, TargetFound
<1>3. CASE stored = NoOrder
  <2>1. call' = call /\ pc'[h] = "respondError" /\ ~Matched(h)
    BY <1>1, <1>2, <1>3 DEF ReadForStatus, Sends, TypeInv, TypeOK, EventOK
  <2>2. CopyCurrent(h)' /\ ClosesOK(h)'
    BY <2>1 DEF CopyCurrent, ClosesOK
  <2> QED
    BY <1>1, <2>1, <2>2, SerialTargetRead
<1>4. CASE stored # NoOrder
  <2>1. pc'[h] = "removeOrder" /\ call' = [call EXCEPT ![h].read = read]
    BY <1>1, <1>4 DEF ReadForStatus, Sends, LeavesBook, NewStatus, TypeInv, TypeOK
  <2>2. read \in OrderType
    <3>1. stored \in OrderType
      BY <1>1, <1>4, TargetType DEF TypeInv, TypeOK
    <3> QED
      BY <3>1 DEF NewStatus, OrderType, TradeStatuses
  <2> HIDE DEF read
  <2>3. /\ call'[h].event = call[h].event /\ call'[h].subject = call[h].subject
        /\ call'[h].settling = call[h].settling /\ call'[h].top = call[h].top
        /\ call'[h].read = read
    BY <1>1, <2>1, <2>2, SetRead DEF TypeInv
  <2>4. Target(h)' = Target(h) /\ NewStatus(h)' = NewStatus(h)
    BY <2>3 DEF Target, NewStatus
  <2>5. CopyCurrent(h)'
    BY <1>1, <2>1, <2>3, <2>4 DEF CopyCurrent, read
  <2>6. ClosesOK(h)'
    <3>1. Matched(h)' => Matched(h) /\ Remaining(h, call[h].settling)' = Remaining(h, call[h].settling)
      BY <2>3 DEF Matched, Remaining, MatchQuantity
    <3> QED
      BY <1>1, <2>1, <2>3, <3>1 DEF ClosesOK
  <2> QED
    BY <1>1, <2>1, <2>3, <2>5, <2>6, SerialTargetRead
<1> QED
  BY <1>3, <1>4

LEMMA SerialReadForUpdate ==
  ASSUME IInv, IInv', [Next]_vars, NEW h \in Handlers, SerialOK(h), ReadForUpdate(h)
  PROVE  SerialOK(h)'
<1> DEFINE stored == order[Target(h)]
           read == [stored EXCEPT !.quantity = Remaining(h, call[h].settling)]
<1>1. TypeInv /\ TopOK(h) /\ Matched(h) /\ pc[h] = "readForUpdate" /\ pc[h] \in Changing
      /\ UNCHANGED <<redis, placed, listed, told>> /\ order' = order
  BY DEF ReadForUpdate, IInv, TypeInv, FrameOK, TopOK, Changing, redis
<1>2. stored \in OrderType /\ stored # NoOrder
  BY <1>1, TargetFound, NoOrderAssumption
<1>3. pc'[h] = "saveUpdate" /\ call' = [call EXCEPT ![h].read = read]
  BY <1>1, <1>2 DEF ReadForUpdate, Sends, TypeInv, TypeOK
<1>4. read \in OrderType
  <2>1. Remaining(h, call[h].settling) \in Quantities
    BY <1>1, LifeIsStored, LeftOfTarget DEF IInv
  <2> QED
    BY <1>2, <2>1 DEF OrderType
<1> HIDE DEF read
<1>5. /\ call'[h].event = call[h].event /\ call'[h].subject = call[h].subject
      /\ call'[h].settling = call[h].settling /\ call'[h].top = call[h].top
      /\ call'[h].read = read
  BY <1>1, <1>3, <1>4, SetRead DEF TypeInv
<1>6. Target(h)' = Target(h) /\ Remaining(h, call[h].settling)' = Remaining(h, call[h].settling)
  BY <1>5 DEF Target, Remaining, MatchQuantity
<1>7. CopyCurrent(h)' /\ ClosesOK(h)'
  BY <1>1, <1>3, <1>5, <1>6 DEF CopyCurrent, ClosesOK, read
<1> QED
  BY <1>1, <1>3, <1>5, <1>7, SerialTargetRead

LEMMA SerialRemoveOrder ==
  ASSUME IInv, IInv', [Next]_vars, NEW h \in Handlers, SerialOK(h), RemoveOrder(h)
  PROVE  SerialOK(h)'
<1> DEFINE t == Target(h)
           side == call[h].read.side
<1>1. /\ TypeInv /\ TargetOK(h) /\ pc[h] = "removeOrder" /\ pc[h] \in Changing /\ pc'[h] = "saveStatus"
      /\ UNCHANGED <<order, trades, placed, listed, told, call>>
      /\ book' = [book EXCEPT ![side] = ZRem(@, t)]
  BY DEF RemoveOrder, Sends, IInv, TypeInv, TypeOK, LifeOK, Changing
<1>2. t \in listed /\ t \in Orders
  BY <1>1, TargetType DEF TargetOK
<1>3. \A o \in Orders \ {t} : \A s \in Sides :
        book'[s][o] = book[s][o] /\ (o \in Members(book[s]) => o \in Members(book'[s]))
  BY <1>1, <1>2 DEF ZRem, Members, TypeInv, TypeOK, SortedSet
<1>4. Target(h)' = t /\ Unsettled(h)' = Unsettled(h) /\ NewStatus(h)' = NewStatus(h)
      /\ Remaining(h, call[h].settling)' = Remaining(h, call[h].settling) /\ Matched(h)' = Matched(h)
  BY <1>1 DEF Target, Unsettled, NewStatus, Remaining, MatchQuantity, Matched
<1>5. \A o : Owed(h, o)' = Owed(h, o) /\ Traded(o)' = Traded(o)
  <2>1. \A o : Owed(h, o)' = Owed(h, o)
    BY <1>1, <1>4 DEF Owed, MatchQuantity
  <2> QED
    BY <1>1, <2>1, TradedIsSum, TradedIsSumNext DEF IInv, TypeInv
<1>6. SnapshotCurrent(h)'
  <2> SUFFICES ASSUME NEW s \in Sides, InUse(h, s)'
               PROVE  LET top == call[h].top[s]
                      IN  /\ top.status # "unread" =>
                               order[top.orderId].quantity = top.quantity
                               /\ order[top.orderId].status = top.status
                          /\ ~TakenOut(h, s)' =>
                               /\ top.orderId \in Members(book'[s])
                               /\ top.price = PriceOf(s, book'[s][top.orderId])
    BY <1>1 DEF SnapshotCurrent
  <2>1. s \in Unsettled(h) /\ Matched(h) /\ call[h].top[s] # NoEntry
    BY <1>1, <1>4 DEF InUse, Matching, Unsettled
  <2>2. LET top == call[h].top[s]
        IN  /\ top.status # "unread" =>
                 order[top.orderId].quantity = top.quantity
                 /\ order[top.orderId].status = top.status
            /\ top.orderId \in Members(book[s]) /\ top.price = PriceOf(s, book[s][top.orderId])
    BY <1>1, <2>1 DEF SerialOK, SnapshotCurrent, InUse, TakenOut
  <2>3. ~TakenOut(h, s)' => call[h].top[s].orderId # t
    BY <1>1, <2>1, SettledSide DEF TakenOut
  <2>4. call[h].top[s].orderId \in Orders
    BY <1>1, <2>1 DEF TypeInv, TypeOK, CallType, EntryType
  <2> QED
    BY <1>3, <2>2, <2>3, <2>4
<1>7. CopyCurrent(h)' /\ ClosesOK(h)'
  BY <1>1, <1>4 DEF CopyCurrent, ClosesOK, SerialOK
<1>8. LowestAsk(h)' /\ PricingOK(h)'
  BY <1>1 DEF LowestAsk, PricingOK, Matching
<1>9. OpenOK(h)'
  <2> SUFFICES ASSUME NEW o \in listed, order[o].status = "OPEN"
               PROVE  /\ InBook(o)' \/ o = t
                      /\ order[o].quantity + Traded(o) = placed[o].quantity + Owed(h, o)
    BY <1>1, <1>4, <1>5 DEF OpenOK
  <2>1. InBook(o) /\ order[o].quantity + Traded(o) = placed[o].quantity + Owed(h, o)
    BY <1>1 DEF OpenOK, SerialOK, BalanceOK
  <2>2. o \in Orders
    BY <1>1 DEF TypeInv, TypeOK
  <2> QED
    BY <1>3, <2>1, <2>2 DEF InBook
<1>10. FilledOK(h)' /\ TradesListed' /\ NotOvertraded'
  <2>1. FilledOK(h)'
    BY <1>1, <1>5 DEF FilledOK, SerialOK, BalanceOK
  <2>2. TradesListed' /\ NotOvertraded'
    BY <1>1, <1>5 DEF TradesListed, NotOvertraded, SerialOK, BalanceOK
  <2> QED
    BY <2>1, <2>2
<1> QED
  BY <1>6, <1>7, <1>8, <1>9, <1>10 DEF SerialOK, BalanceOK

\* What is written back: the order as it was, closed, or with what is left of it.
LEMMA SavedOrder ==
  ASSUME IInv, NEW h \in Handlers, SerialOK(h), SaveStatus(h) \/ SaveUpdate(h)
  PROVE  /\ order'[Target(h)].status = (IF pc[h] = "saveStatus" THEN NewStatus(h)
                                        ELSE order[Target(h)].status)
         /\ order'[Target(h)].quantity = (IF pc[h] = "saveStatus" THEN order[Target(h)].quantity
                                          ELSE Remaining(h, call[h].settling))
<1>1. /\ TypeInv /\ TargetOK(h) /\ CopyCurrent(h) /\ pc[h] \in {"saveStatus", "saveUpdate"}
      /\ order' = [order EXCEPT ![Target(h)] = call[h].read]
  BY DEF SaveStatus, SaveUpdate, IInv, TypeInv, LifeOK, SerialOK
<1>2. Target(h) \in listed /\ order \in [Orders -> OrderType \cup {NoOrder}]
  BY <1>1 DEF TargetOK, TypeInv, TypeOK
<1>3. Target(h) \in Orders /\ order[Target(h)] \in OrderType
  BY <1>2, ListedIsPlaced DEF IInv
<1>4. order'[Target(h)] = call[h].read
  BY <1>1, <1>2, <1>3
<1> QED
  BY <1>1, <1>3, <1>4 DEF CopyCurrent, OrderType

LEMMA SerialSave ==
  ASSUME IInv, IInv', [Next]_vars, NEW h \in Handlers, SerialOK(h), SaveStatus(h) \/ SaveUpdate(h)
  PROVE  SerialOK(h)'
<1> DEFINE t == Target(h)
<1>1. /\ TypeInv /\ TopOK(h) /\ TargetOK(h) /\ EventOK(h) /\ ClosesOK(h) /\ BalanceOK(h) /\ SnapshotCurrent(h)
      /\ pc[h] \in {"saveStatus", "saveUpdate"} /\ pc[h] \in Changing /\ Continue(h)
      /\ UNCHANGED <<book, trades, placed, listed, told>>
      /\ order' = [order EXCEPT ![t] = call[h].read]
  BY DEF SaveStatus, SaveUpdate, IInv, TypeInv, FrameOK, LifeOK, SerialOK, Changing
<1>2. /\ call'[h].event = call[h].event /\ call'[h].subject = call[h].subject
      /\ call'[h].top = call[h].top /\ pc'[h] \in {"checkOpen", "readForUpdate", "respond"}
      /\ ~Matched(h) => pc'[h] = "respond"
  BY <1>1, ContinueKeeps
<1>3. /\ Unsettled(h)' = Unsettled(h) \ {call[h].settling} /\ MatchQuantity(h)' = MatchQuantity(h)
      /\ CopyCurrent(h)' /\ ClosesOK(h)' /\ LowestAsk(h)' /\ PricingOK(h)'
  BY <1>1, ContinueSettles
<1>4. t \in listed /\ t \in Orders /\ \A o \in Orders \ {t} : order'[o] = order[o]
  BY <1>1, TargetType DEF TargetOK, TypeInv, TypeOK
<1>5. \A o : Traded(o)' = Traded(o)
  BY <1>1, TradedIsSum, TradedIsSumNext DEF IInv, TypeInv
<1>6. \A s \in Unsettled(h) : /\ s \in Sides /\ Matched(h)
                              /\ s # call[h].settling <=> call[h].top[s].orderId # t
  <2>1. \A s \in Unsettled(h) : s \in Sides /\ Matched(h)
    BY DEF Unsettled
  <2> QED
    BY <1>1, <2>1, SettledSide
<1>7. \A o : Owed(h, o)' = IF o = t THEN 0 ELSE Owed(h, o)
  BY <1>2, <1>3, <1>6 DEF Owed
<1>8. SnapshotCurrent(h)'
  <2> SUFFICES ASSUME NEW s \in Sides, InUse(h, s)'
               PROVE  LET top == call[h].top[s]
                      IN  /\ top.status # "unread" =>
                               order'[top.orderId].quantity = top.quantity
                               /\ order'[top.orderId].status = top.status
                          /\ top.orderId \in Members(book[s])
                          /\ top.price = PriceOf(s, book[s][top.orderId])
    BY <1>1, <1>2 DEF SnapshotCurrent
  <2>1. s \in Unsettled(h) /\ s # call[h].settling /\ call[h].top[s] # NoEntry
    BY <1>2, <1>3 DEF InUse, Matching
  <2>2. call[h].top[s].orderId \in Orders \ {t}
    BY <1>1, <1>6, <2>1 DEF TypeInv, TypeOK, CallType, EntryType
  <2> QED
    BY <1>1, <1>4, <2>1, <2>2 DEF SnapshotCurrent, InUse, TakenOut
<1>9. OpenOK(h)'
  <2> SUFFICES ASSUME NEW o \in listed, order'[o].status = "OPEN"
               PROVE  /\ InBook(o)
                      /\ order'[o].quantity + Traded(o) = placed[o].quantity + Owed(h, o)'
    BY <1>1, <1>5 DEF OpenOK, InBook
  <2>1. CASE o # t
    BY <1>1, <1>4, <1>7, <2>1 DEF BalanceOK, OpenOK, TypeInv, TypeOK
  <2>2. CASE o = t
    <3>1. pc[h] = "saveUpdate" /\ Matched(h)
      BY <1>1, <2>2, SavedOrder DEF NewStatus, TopOK
    <3>2. /\ t \in Members(book[call[h].settling]) /\ call[h].settling \in Sides
          /\ Remaining(h, call[h].settling) + Traded(t) = placed[t].quantity
      BY <1>1, <3>1, SettledSide
    <3>3. placed[t].quantity \in Int
      BY <1>4, ListedIsPlaced DEF OrderType, Quantities, IInv
    <3> QED
      BY <1>7, <2>2, <3>1, <3>2, <3>3, SavedOrder DEF InBook
  <2> QED
    BY <2>1, <2>2
<1>10. FilledOK(h)'
  <2> SUFFICES ASSUME NEW o \in listed, order'[o].status = "FILLED"
               PROVE  \/ Traded(o) = placed[o].quantity
                      \/ [event |-> "orderFilled", orderId |-> o] \in told
                      \/ call[h].event = "fillOrder" /\ call[h].subject = o /\ pc'[h] = "respond"
    BY <1>1, <1>2, <1>5 DEF FilledOK
  <2>1. CASE o # t
    BY <1>1, <1>4, <2>1 DEF BalanceOK, FilledOK, TypeInv, TypeOK
  <2>2. CASE o = t /\ Matched(h)
    <3>1. pc[h] = "saveStatus"
      BY <1>1, <2>2, SavedOrder, SettledSide
    <3>2. Remaining(h, call[h].settling) <= 0 /\ Remaining(h, call[h].settling) \in Nat
      BY <1>1, <2>2, <3>1, SettledSide, MatchArithmetic DEF ClosesOK
    <3>3. Remaining(h, call[h].settling) + Traded(t) = placed[t].quantity /\ Traded(t) \in Int
      BY <1>1, <2>2, SettledSide, TradedIsSum DEF TypeInv
    <3> QED
      BY <2>2, <3>2, <3>3
  <2>3. CASE o = t /\ ~Matched(h)
    <3>1. pc[h] = "saveStatus" /\ call[h].event \in {"cancelOrder", "fillOrder"}
      BY <1>1, <2>3 DEF TopOK, EventOK, TypeInv, TypeOK, CallType, IncomingEvents
    <3>2. call[h].event = "fillOrder" /\ call[h].subject = t
      BY <2>3, <3>1, SavedOrder DEF NewStatus, Target
    <3> QED
      BY <1>2, <2>3, <3>2
  <2> QED
    BY <2>1, <2>2, <2>3
<1>11. TradesListed' /\ NotOvertraded'
  BY <1>1, <1>5 DEF TradesListed, NotOvertraded, BalanceOK
<1> QED
  BY <1>3, <1>8, <1>9, <1>10, <1>11 DEF SerialOK, BalanceOK

-----------------------------------------------------------------------------
(* addOrder and getMarketPrice.                                             *)

LEMMA SerialSaveOrder ==
  ASSUME IInv, IInv', [Next]_vars, NEW h \in Handlers, SerialOK(h), SaveOrder(h)
  PROVE  SerialOK(h)'
<1> DEFINE o == call[h].subject
<1>1. /\ TypeInv /\ CreatorOK(h) /\ EventOK(h) /\ BalanceOK(h) /\ pc[h] = "saveOrder" /\ pc[h] \in Adding
      /\ UNCHANGED <<book, trades, placed, listed, told>>
      /\ order' = [order EXCEPT ![o] = placed[o]]
  BY DEF SaveOrder, IInv, TypeInv, FrameOK, LifeOK, SerialOK, Adding
<1>2. o \in Orders /\ o \notin listed /\ ~Matched(h)
  BY <1>1, CreatorType DEF CreatorOK, EventOK, Creates
<1>3. ~Matched(h)' /\ pc'[h] \in {"addToBook", "rankOpposite"}
      /\ (placed[o].orderType = "MARKET" => pc'[h] = "rankOpposite")
  <2>1. pc'[h] = IF placed[o].orderType = "LIMIT" THEN "addToBook" ELSE "rankOpposite"
    BY <1>1 DEF SaveOrder, Sends, TypeInv, TypeOK
  <2>2. call'[h].settling = call[h].settling
    BY <1>1 DEF SaveOrder, TypeInv, TypeOK, CallType
  <2> QED
    BY <1>2, <2>1, <2>2 DEF Matched
<1>4. call'[h].subject = o
  BY <1>1 DEF SaveOrder, TypeInv, TypeOK, CallType
<1>5. \A p : Owed(h, p)' = 0 /\ Owed(h, p) = 0 /\ Unsettled(h)' = {}
  BY <1>2, <1>3, NothingOwed, NothingOwedNext
<1>6. \A p : Traded(p)' = Traded(p)
  BY <1>1, TradedIsSum, TradedIsSumNext DEF IInv, TypeInv
<1>7. \A p \in listed : order'[p] = order[p] /\ p # o
  BY <1>1, <1>2 DEF TypeInv, TypeOK
<1>8. SnapshotCurrent(h)' /\ CopyCurrent(h)' /\ ClosesOK(h)' /\ LowestAsk(h)'
  BY <1>3, <1>5 DEF SnapshotCurrent, InUse, Matching, CopyCurrent, ClosesOK, LowestAsk
<1>9. PricingOK(h)'
  BY <1>1, <1>3, <1>4 DEF PricingOK
<1>10. OpenOK(h)' /\ FilledOK(h)' /\ TradesListed' /\ NotOvertraded'
  <2>1. OpenOK(h)'
    BY <1>1, <1>5, <1>6, <1>7 DEF BalanceOK, OpenOK, InBook
  <2>2. FilledOK(h)'
    BY <1>1, <1>6, <1>7 DEF BalanceOK, FilledOK
  <2>3. TradesListed' /\ NotOvertraded'
    BY <1>1, <1>6 DEF BalanceOK, TradesListed, NotOvertraded
  <2> QED
    BY <2>1, <2>2, <2>3
<1> QED
  BY <1>8, <1>9, <1>10 DEF SerialOK, BalanceOK

LEMMA SerialPrice ==
  ASSUME IInv, IInv', [Next]_vars, NEW h \in Handlers, SerialOK(h),
         RankOpposite(h) \/ ReadOpposite(h) \/ ReadLastTrade(h)
  PROVE  SerialOK(h)'
<1> PICK side : side = placed[call[h].subject].side
  OBVIOUS
<1> DEFINE others == Members(book[Opposite(side)])
<1>1. /\ TypeInv /\ EventOK(h) /\ pc[h] \in Adding /\ ~Matched(h) /\ PricingOK(h)
      /\ UNCHANGED <<redis, placed, listed, told>>
      /\ UNCHANGED <<order, book, trades>>
  BY DEF RankOpposite, ReadOpposite, ReadLastTrade, IInv, TypeInv, FrameOK, EventOK, Adding, SerialOK, redis
<1>2. side \in Sides /\ Opposite(side) \in Sides /\ call[h] \in CallType
  BY <1>1, CreatorType DEF TypeInv, TypeOK
<1>3. CASE ReadOpposite(h) /\ Throws(h)
  BY <1>1, <1>3, SerialRespond DEF Adding
<1>4. CASE ~(ReadOpposite(h) /\ Throws(h))
  <2>1. call'[h].settling = call[h].settling /\ call'[h].subject = call[h].subject
    <3>1. call \in [Handlers -> CallType]
      BY <1>1 DEF TypeInv, TypeOK
    <3>2. CASE RankOpposite(h)
      BY <3>1, <3>2 DEF RankOpposite, CallType
    <3>3. CASE ReadOpposite(h)
      BY <1>4, <3>1, <3>3 DEF ReadOpposite, CallType
    <3>4. CASE ReadLastTrade(h)
      BY <3>1, <3>4 DEF ReadLastTrade, CallType
    <3> QED
      BY <3>2, <3>3, <3>4
  <2>2. pc'[h] \in {"readOpposite", "readLastTrade", "addToBook"}
    BY <1>1, <1>4 DEF RankOpposite, ReadOpposite, ReadLastTrade, Sends, TypeInv, TypeOK
  <2>3. Unsettled(h)' = {} /\ \A p : Owed(h, p)' = 0 /\ Owed(h, p) = 0
    BY <1>1, <2>1, NothingOwed, NothingOwedNext DEF Matched
  <2>4. BalanceOK(h)'
    BY <1>1, <2>3, BalanceKept DEF SerialOK, IInv, Adding
  <2>5. SnapshotCurrent(h)' /\ CopyCurrent(h)' /\ ClosesOK(h)' /\ LowestAsk(h)'
    BY <2>2, <2>3 DEF SnapshotCurrent, InUse, Matching, CopyCurrent, ClosesOK, LowestAsk
  <2>6. MarketPrices(side)' = MarketPrices(side)
    BY <1>1 DEF MarketPrices
  <2>7. side = placed'[call'[h].subject].side
    BY <1>1, <2>1
  <2>8. ASSUME RankOpposite(h) PROVE PricingOK(h)'
    <3>1. CASE others = {} /\ pc'[h] = "readLastTrade"
      BY <1>1, <2>7, <3>1 DEF PricingOK
    <3>2. CASE \E p \in Orders :
                 /\ IsTop(Opposite(side), p) /\ Sends(h, "readOpposite")
                 /\ call' = [call EXCEPT ![h].top = [@ EXCEPT ![Opposite(side)] = Ranked(Opposite(side), p)]]
      <4>1. PICK p \in Orders :
              /\ IsTop(Opposite(side), p) /\ Sends(h, "readOpposite")
              /\ call' = [call EXCEPT ![h].top = [@ EXCEPT ![Opposite(side)] = Ranked(Opposite(side), p)]]
        BY <3>2
      <4>2. pc'[h] = "readOpposite"
        BY <1>1, <4>1 DEF Sends, TypeInv, TypeOK
      <4>3. call'[h].top[Opposite(side)] = Ranked(Opposite(side), p)
        BY <1>1, <1>2, <4>1 DEF CallType, TypeInv, TypeOK
      <4>4. p \in others
        BY <4>1 DEF IsTop, IsFirst, IsLast, Opposite
      <4>5. call'[h].top[Opposite(side)].price \in MarketPrices(side)
        BY <4>3, <4>4 DEF Ranked, MarketPrices
      <4> QED
        BY <2>6, <2>7, <4>2, <4>5 DEF PricingOK
    <3> QED
      BY <1>1, <2>8, <3>1, <3>2 DEF RankOpposite, Sends, TypeInv, TypeOK
  <2>9. ASSUME ReadOpposite(h) PROVE PricingOK(h)'
    <3>1. pc[h] = "readOpposite" /\ pc'[h] = "addToBook" /\ call'[h].price = call[h].top[Opposite(side)].price
      BY <1>1, <1>2, <1>4, <2>9 DEF ReadOpposite, Sends, TypeInv, TypeOK, CallType
    <3>2. call'[h].price \in MarketPrices(side)
      BY <1>1, <3>1 DEF PricingOK
    <3> QED
      BY <2>6, <2>7, <3>1, <3>2 DEF PricingOK
  <2>10. ASSUME ReadLastTrade(h) PROVE PricingOK(h)'
    <3>1. /\ pc[h] = "readLastTrade" /\ pc'[h] = "addToBook"
          /\ call'[h].price = IF trades # <<>> THEN Head(trades).price
                              ELSE IF side = "BUY" THEN CeilingPrice ELSE FloorPrice
      BY <1>1, <1>2, <2>10 DEF ReadLastTrade, Sends, TypeInv, TypeOK, CallType
    <3>2. call'[h].price \in MarketPrices(side)
      <4>1. others = {}
        BY <1>1, <3>1 DEF PricingOK
      <4> QED
        BY <3>1, <4>1 DEF MarketPrices
    <3> QED
      BY <2>6, <2>7, <3>1, <3>2 DEF PricingOK
  <2> QED
    BY <2>4, <2>5, <2>8, <2>9, <2>10 DEF SerialOK
<1> QED
  BY <1>3, <1>4

LEMMA SerialAddToBook ==
  ASSUME IInv, IInv', [Next]_vars, NEW h \in Handlers, SerialOK(h), AddToBook(h)
  PROVE  SerialOK(h)'
<1> PICK o : o = call[h].subject
  OBVIOUS
<1> PICK side : side = placed[o].side
  OBVIOUS
<1>1. /\ TypeInv /\ CreatorOK(h) /\ OrdersOK /\ EventOK(h) /\ BalanceOK(h)
      /\ pc[h] = "addToBook" /\ pc[h] \in Adding /\ pc'[h] = "respond"
      /\ UNCHANGED <<order, trades, placed, told, call>>
      /\ listed' = listed \cup {o}
      /\ book' = [book EXCEPT ![side] = ZAdd(@, o, ScoreOf(side, call[h].price))]
  BY DEF AddToBook, Sends, IInv, TypeInv, TypeOK, FrameOK, LifeOK, SerialOK, Adding
<1>2. /\ o \in Orders /\ side \in Sides /\ o \notin listed /\ ~Matched(h) /\ ~Matched(h)'
      /\ placed[o] \in OrderType /\ order[o] = placed[o] /\ placed[o].status = "OPEN"
      /\ placed[o] # NoOrder
  BY <1>1, CreatorType DEF CreatorOK, EventOK, Creates, Matched, Adding, OrdersOK
<1>3. \A p : Owed(h, p)' = 0 /\ Owed(h, p) = 0 /\ Unsettled(h)' = {}
  BY <1>2, NothingOwed, NothingOwedNext
<1>4. \A p : Traded(p)' = Traded(p)
  BY <1>1, TradedIsSum, TradedIsSumNext DEF IInv, TypeInv
<1>5. SnapshotCurrent(h)' /\ CopyCurrent(h)' /\ ClosesOK(h)' /\ LowestAsk(h)' /\ PricingOK(h)'
  BY <1>1, <1>3 DEF SnapshotCurrent, InUse, Matching, CopyCurrent, ClosesOK, LowestAsk, PricingOK
<1>6. InBook(o)'
  <2>1. ScoreOf(side, call[h].price) \in Int
    BY <1>1 DEF ScoreOf, TypeInv, TypeOK, CallType, Prices
  <2>2. o \in Members(book'[side])
    BY <1>1, <1>2, <2>1, NoScoreAssumption DEF ZAdd, Members, TypeInv, TypeOK, SortedSet
  <2> QED
    BY <1>2, <2>2 DEF InBook
<1>7. \A p \in Orders \ {o} : InBook(p) => InBook(p)'
  <2> SUFFICES ASSUME NEW p \in Orders \ {o}, NEW s \in Sides, p \in Members(book[s])
               PROVE  p \in Members(book'[s])
    BY DEF InBook
  <2> QED
    BY <1>1, <1>2 DEF ZAdd, Members, TypeInv, TypeOK, SortedSet
<1>8. TradesListed' /\ NotOvertraded'
  BY <1>1, <1>4 DEF BalanceOK, TradesListed, NotOvertraded
<1>9. OpenOK(h)'
  <2> SUFFICES ASSUME NEW p \in listed \cup {o}, order[p].status = "OPEN"
               PROVE  InBook(p)' /\ order[p].quantity + Traded(p) = placed[p].quantity + 0
    BY <1>1, <1>3, <1>4 DEF OpenOK
  <2>1. CASE p = o
    <3>1. Traded(o) = 0
      BY <1>1, <1>2, UnlistedTradesNothing DEF BalanceOK, TypeInv
    <3>2. placed[o].quantity \in Int
      BY <1>2 DEF OrderType, Quantities
    <3> QED
      BY <1>2, <1>6, <2>1, <3>1, <3>2
  <2>2. CASE p # o
    <3>1. InBook(p) /\ order[p].quantity + Traded(p) = placed[p].quantity + 0
      BY <1>1, <1>3, <2>2 DEF BalanceOK, OpenOK
    <3>2. p \in Orders
      BY <1>1, <2>2 DEF TypeInv, TypeOK
    <3> QED
      BY <1>7, <2>2, <3>1, <3>2
  <2> QED
    BY <2>1, <2>2
<1>10. FilledOK(h)'
  <2> SUFFICES ASSUME NEW p \in listed \cup {o}, order[p].status = "FILLED"
               PROVE  Traded(p) = placed[p].quantity \/ [event |-> "orderFilled", orderId |-> p] \in told
    BY <1>1, <1>4 DEF FilledOK
  <2>1. p # o
    BY <1>2
  <2> QED
    BY <1>1, <2>1 DEF BalanceOK, FilledOK
<1> QED
  BY <1>5, <1>8, <1>9, <1>10 DEF SerialOK, BalanceOK

-----------------------------------------------------------------------------
(* The invariant and what it implies.                                       *)

LEMMA SerialInit == Init => SerialInv
<1> SUFFICES ASSUME Init PROVE SerialInv
  OBVIOUS
<1>1. PlacedAsRequested
  BY DEF Init, PlacedAsRequested
<1>2. ASSUME NEW h \in Handlers PROVE SerialOK(h)
  <2>1. pc[h] = "idle" /\ call[h] = NoCall /\ trades = <<>> /\ listed = {}
        /\ \A o \in Orders : placed[o] = NoOrder
    BY DEF Init
  <2>2. ~Matched(h) /\ \A s \in Sides : call[h].top[s] = NoEntry
    BY <2>1, NoCallFields DEF Matched
  <2>3. BalanceOK(h)
    BY <2>1 DEF BalanceOK, TradesListed, OpenOK, FilledOK, NotOvertraded
  <2>4. SnapshotCurrent(h) /\ CopyCurrent(h) /\ ClosesOK(h) /\ LowestAsk(h) /\ PricingOK(h)
    BY <2>1, <2>2 DEF SnapshotCurrent, InUse, CopyCurrent, ClosesOK, LowestAsk, PricingOK, Matching, Sides
  <2> QED
    BY <2>3, <2>4 DEF SerialOK
<1> QED
  BY <1>1, <1>2 DEF SerialInv

LEMMA PlacedAsRequestedNext ==
  ASSUME TypeInv, PlacedAsRequested, [Next]_vars
  PROVE  PlacedAsRequested'
<1>1. CASE placed' = placed
  BY <1>1 DEF PlacedAsRequested
<1>2. CASE placed' # placed
  <2>1. PICK h \in Handlers, o \in Orders, r \in Requests : RequestCreate(h, o, r)
    BY <1>2 DEF Next, vars, Request, Run, Fail, RequestCreate, RequestMatch, RequestCancel, RequestFill,
       RankBids, RankAsks, ReadBid, ReadAsk, ReadRanked, StoreTrade, CheckOpen, ReadForStatus, RemoveOrder,
       SaveStatus, ReadForUpdate, SaveUpdate, SaveOrder, RankOpposite, ReadOpposite, ReadLastTrade,
       AddToBook, Respond, RespondError
  <2>2. placed' = [placed EXCEPT ![o] = OrderOf(r)] /\ placed \in [Orders -> OrderType \cup {NoOrder}]
    BY <2>1 DEF RequestCreate, OrderOf, TypeInv, TypeOK
  <2> QED
    BY <2>2 DEF PlacedAsRequested
<1> QED
  BY <1>1, <1>2

LEMMA SerialStutter ==
  ASSUME TypeInv, TypeInv', NEW h \in Handlers, SerialOK(h), UNCHANGED vars
  PROVE  SerialOK(h)'
<1>1. /\ order' = order /\ book' = book /\ trades' = trades /\ placed' = placed /\ listed' = listed
      /\ told' = told /\ pc' = pc /\ call' = call
  BY DEF vars
<1>2. \A o : Traded(o)' = Traded(o) /\ Owed(h, o)' = Owed(h, o)
  <2>1. \A o : Owed(h, o)' = Owed(h, o)
    BY <1>1 DEF Owed, Unsettled, Matched, MatchQuantity
  <2> QED
    BY <1>1, <2>1, TradedIsSum, TradedIsSumNext DEF TypeInv
<1>3. Target(h)' = Target(h)
  BY <1>1 DEF Target
<1>4. BalanceOK(h)'
  BY <1>1, <1>2, <1>3 DEF SerialOK, BalanceOK, TradesListed, OpenOK, FilledOK, NotOvertraded, InBook
<1>5. SnapshotCurrent(h)'
  BY <1>1 DEF SerialOK, SnapshotCurrent, InUse, Unsettled, Matched, TakenOut
<1>6. CopyCurrent(h)' /\ ClosesOK(h)'
  BY <1>1 DEF SerialOK, CopyCurrent, ClosesOK, Target, NewStatus, Remaining, MatchQuantity, Matched
<1>7. LowestAsk(h)' /\ PricingOK(h)'
  BY <1>1 DEF SerialOK, LowestAsk, PricingOK, MarketPrices
<1> QED
  BY <1>4, <1>5, <1>6, <1>7 DEF SerialOK

LEMMA SerialNext == OneAtATime /\ IInv /\ IInv' /\ SerialInv /\ [Next]_vars => SerialInv'
<1> SUFFICES ASSUME OneAtATime, IInv, IInv', SerialInv, [Next]_vars PROVE SerialInv'
  OBVIOUS
<1>1. PICK h \in Handlers : Handlers = {h}
  BY DEF OneAtATime
<1>2. SerialOK(h)
  BY <1>1 DEF SerialInv
<1>3. SerialOK(h)'
  <2>1. CASE UNCHANGED vars
    BY <1>2, <2>1, SerialStutter DEF IInv
  <2>2. CASE Request(h)
    BY <1>2, <2>2, SerialRequest
  <2>3. CASE RankBids(h) \/ RankAsks(h)
    BY <1>2, <2>3, SerialRank
  <2>4. CASE ReadBid(h) \/ ReadAsk(h)
    BY <1>2, <2>4, SerialRead
  <2>5. CASE StoreTrade(h)
    BY <1>2, <2>5, SerialStoreTrade
  <2>6. CASE CheckOpen(h)
    BY <1>2, <2>6, SerialCheckOpen
  <2>7. CASE ReadForStatus(h)
    BY <1>2, <2>7, SerialReadForStatus
  <2>8. CASE RemoveOrder(h)
    BY <1>2, <2>8, SerialRemoveOrder
  <2>9. CASE SaveStatus(h) \/ SaveUpdate(h)
    BY <1>2, <2>9, SerialSave
  <2>10. CASE ReadForUpdate(h)
    BY <1>2, <2>10, SerialReadForUpdate
  <2>11. CASE SaveOrder(h)
    BY <1>2, <2>11, SerialSaveOrder
  <2>12. CASE RankOpposite(h) \/ ReadOpposite(h) \/ ReadLastTrade(h)
    BY <1>2, <2>12, SerialPrice
  <2>13. CASE AddToBook(h)
    BY <1>2, <2>13, SerialAddToBook
  <2>14. CASE Respond(h) \/ RespondError(h)
    <3>1. UNCHANGED <<redis, placed, listed>>
      BY <2>14 DEF Respond, RespondError
    <3> QED
      BY <1>2, <2>14, <3>1, SerialRespond
  <2>15. ~Fail(h)
    BY DEF Fail, OneAtATime, IInv, TypeInv, TypeOK
  <2> QED
    BY <1>1, <2>1, <2>2, <2>3, <2>4, <2>5, <2>6, <2>7, <2>8, <2>9, <2>10, <2>11, <2>12, <2>13,
       <2>14, <2>15 DEF Next, Run
<1>4. PlacedAsRequested'
  BY PlacedAsRequestedNext DEF SerialInv, IInv
<1> QED
  BY <1>1, <1>3, <1>4 DEF SerialInv

\* One handler at a time and none failing, what it has read stays true until it
\* has written it back, and orders, trades and book add up at every command.
THEOREM SerialAlways == ASSUME OneAtATime PROVE Spec => []SerialInv
<1>1. Init => SerialInv
  BY SerialInit
<1>2. IInv /\ IInv' /\ SerialInv /\ [Next]_vars => SerialInv'
  BY SerialNext
<1> QED
  BY <1>1, <1>2, InvariantAlways, PTL DEF Spec

\* storeTrade and the two updates after it: between requests, what an OPEN order
\* still has and what it has traded are what was ordered, and no order trades more.
THEOREM QuantityAlwaysConserved == ASSUME OneAtATime PROVE Spec => []QuantityConserved
<1>1. IInv /\ SerialInv => QuantityConserved
  <2> SUFFICES ASSUME IInv, SerialInv, NEW o \in Orders, placed[o] # NoOrder
               PROVE  /\ Traded(o) <= placed[o].quantity
                      /\ Quiescent /\ o \in listed /\ order[o].status = "OPEN"
                           => order[o].quantity + Traded(o) = placed[o].quantity
    BY DEF QuantityConserved
  <2>1. PICK h \in Handlers : SerialOK(h) /\ EventOK(h)
    BY DEF OneAtATime, SerialInv, IInv, TypeInv, FrameOK
  <2>2. Traded(o) <= placed[o].quantity
    BY <2>1 DEF SerialOK, BalanceOK, NotOvertraded
  <2>3. ASSUME Quiescent, o \in listed, order[o].status = "OPEN"
        PROVE  order[o].quantity + Traded(o) = placed[o].quantity
    <3>1. ~Matched(h)
      BY <2>1, <2>3, NoCallFields DEF Quiescent, EventOK, Matched
    <3>2. Owed(h, o) = 0
      BY <3>1, NothingOwed
    <3>3. placed[o].quantity \in Int
      BY <2>3, ListedIsPlaced DEF OrderType, Quantities, IInv
    <3> QED
      BY <2>1, <2>3, <3>2, <3>3 DEF SerialOK, BalanceOK, OpenOK
  <2> QED
    BY <2>2, <2>3
<1> QED
  BY <1>1, InvariantAlways, SerialAlways, PTL

\* Between requests a FILLED order has traded all of its quantity or was filled by
\* a client that was told so.
THEOREM FilledAlwaysTraded == ASSUME OneAtATime PROVE Spec => []FilledMeansTraded
<1>1. SerialInv => FilledMeansTraded
  BY DEF OneAtATime, SerialInv, SerialOK, BalanceOK, FilledOK, FilledMeansTraded, Quiescent
<1> QED
  BY <1>1, SerialAlways, PTL

\* Between requests the two places that an order is kept in agree.
THEOREM BookAlwaysMirrors == ASSUME OneAtATime PROVE Spec => []BookMirrorsHashes
<1>1. IInv /\ SerialInv => BookMirrorsHashes
  <2> SUFFICES ASSUME IInv, SerialInv, Quiescent, NEW o \in listed
               PROVE  InBook(o) <=> order[o].status = "OPEN"
    BY DEF BookMirrorsHashes
  <2>1. InBook(o) => order[o].status = "OPEN"
    BY DEF InBook, IInv, LifeOK, BookedOrdersAreOpen
  <2>2. order[o].status = "OPEN" => InBook(o)
    BY DEF OneAtATime, SerialInv, SerialOK, BalanceOK, OpenOK, Quiescent
  <2> QED
    BY <2>1, <2>2
<1> QED
  BY <1>1, InvariantAlways, SerialAlways, PTL

-----------------------------------------------------------------------------
(* The engine.  With one handler, the order that EngineOrders shows is told *)
(* by that handler's trade, the book and the hash, without CHOOSE.          *)

InOwnTrade(h, o) == placed[o].side \in Unsettled(h) /\ call[h].top[placed[o].side].orderId = o

StatusOf(h, o) ==
  IF pc[h] = "saveStatus" /\ Target(h) = o THEN call[h].read.status ELSE order[o].status

View(h, o) ==
  LET side == placed[o].side
  IN  IF o \notin listed THEN NoOrder
      ELSE IF InOwnTrade(h, o)
      THEN IF Remaining(h, side) <= 0 THEN Engine!Closed(side, "FILLED")
           ELSE Engine!Resting(side, call[h].top[side].price, Remaining(h, side))
      ELSE IF InBook(o)
      THEN Engine!Resting(side, PriceOf(side, book[side][o]), order[o].quantity)
      ELSE Engine!Closed(side, StatusOf(h, o))

Viewed == \A h : IInv /\ Handlers = {h} => \A o \in Orders : EngineOrders[o] = View(h, o)

LEMMA ViewIsEngine == Viewed
<1> SUFFICES ASSUME IInv, NEW h, Handlers = {h}, NEW o \in listed
             PROVE  EngineOrders[o] = View(h, o)
  <2>1. \A h : \A o \in Orders \ listed : EngineOrders[o] = View(h, o)
    BY DEF EngineOrders, View
  <2> QED
    BY <2>1 DEF Viewed
<1> PICK side : side = placed[o].side
  OBVIOUS
<1>1. o \in Orders /\ h \in Handlers
  BY ListedIsPlaced DEF IInv
<1>2. \A s \in Unsettled(h) : call[h].top[s].orderId = o => s = side
  <2> SUFFICES ASSUME NEW s \in Unsettled(h), call[h].top[s].orderId = o
               PROVE  s = side
    OBVIOUS
  <2>1. s \in Sides /\ Matched(h) /\ TopOK(h) /\ SnapshotOK(h)
    BY <1>1 DEF Unsettled, IInv, TypeInv, FrameOK, TermsOK
  <2>2. call[h].top[s] # NoEntry
    BY <2>1 DEF TopOK, Crosses, Sides
  <2> QED
    BY <2>1, <2>2 DEF SnapshotOK
<1>3. InTrade(o) = IF InOwnTrade(h, o) THEN {<<h, side>>} ELSE {}
  <2>1. InTrade(o) = {c \in {h} \X Sides : c[2] \in Unsettled(c[1]) /\ call[c[1]].top[c[2]].orderId = o}
    BY DEF InTrade
  <2>2. \A c \in InTrade(o) : c = <<h, side>>
    BY <1>2, <2>1
  <2>3. <<h, side>> \in InTrade(o) <=> InOwnTrade(h, o)
    BY <2>1 DEF InOwnTrade, Unsettled
  <2> QED
    BY <2>2, <2>3
<1>4. CASE InOwnTrade(h, o)
  <2>1. Settling(o) = <<h, side>>
    BY <1>3, <1>4 DEF Settling
  <2>2. AfterTrade(o) = View(h, o)
    <3> PICK left : left = Remaining(h, side)
      OBVIOUS
    <3>1. AfterTrade(o) =
            [side |-> side, price |-> IF left <= 0 THEN 0 ELSE call[h].top[side].price,
             quantity |-> IF left <= 0 THEN 0 ELSE left,
             status |-> IF left <= 0 THEN "FILLED" ELSE "OPEN"]
      <4>1. Settling(o)[1] = h /\ Settling(o)[2] = side
        BY <2>1
      <4> QED
        BY <4>1 DEF AfterTrade
    <3>2. View(h, o) = IF left <= 0 THEN Engine!Closed(side, "FILLED")
                       ELSE Engine!Resting(side, call[h].top[side].price, left)
      BY <1>4 DEF View
    <3>3. CASE left <= 0
      BY <3>1, <3>2, <3>3 DEF Engine!Closed
    <3>4. CASE ~(left <= 0)
      BY <3>1, <3>2, <3>4 DEF Engine!Resting
    <3> QED
      BY <3>3, <3>4
  <2> QED
    BY <1>1, <1>3, <1>4, <2>2 DEF EngineOrders
<1>5. CASE ~InOwnTrade(h, o) /\ InBook(o)
  <2>1. InTheBook(o) = View(h, o)
    BY <1>5 DEF InTheBook, View, Engine!Resting
  <2> QED
    BY <1>1, <1>3, <1>5, <2>1 DEF EngineOrders
<1>6. CASE ~InOwnTrade(h, o) /\ ~InBook(o)
  <2> DEFINE closing == {g \in Handlers : pc[g] = "saveStatus" /\ Target(g) = o}
  <2>1. closing = IF pc[h] = "saveStatus" /\ Target(h) = o THEN {h} ELSE {}
    OBVIOUS
  <2>2. closing # {} => (CHOOSE g \in closing : TRUE) = h
    BY <2>1
  <2>3. OutOfTheBook(o) = View(h, o)
    BY <1>6, <2>1, <2>2 DEF OutOfTheBook, View, StatusOf, Engine!Closed
  <2> QED
    BY <1>1, <1>3, <1>6, <2>3 DEF EngineOrders
<1> QED
  BY <1>4, <1>5, <1>6

LEMMA EngineViews ==
  ASSUME IInv, IInv', NEW h, Handlers = {h}
  PROVE  /\ EngineOrders = [o \in Orders |-> View(h, o)]
         /\ EngineOrders' = [o \in Orders |-> View(h, o)']
<1>1. Viewed'
  BY ViewIsEngine, PTL
<1>2. \A o \in Orders : EngineOrders[o] = View(h, o)
  BY ViewIsEngine DEF Viewed
<1>3. \A o \in Orders : EngineOrders'[o] = View(h, o)'
  BY <1>1 DEF Viewed
<1>4. EngineOrders = [o \in Orders |-> EngineOrders[o]] /\ EngineOrders' = [o \in Orders |-> EngineOrders'[o]]
  BY DEF EngineOrders
<1> QED
  BY <1>2, <1>3, <1>4

LEMMA EngineSame ==
  ASSUME IInv, IInv', NEW h, Handlers = {h}, trades' = trades,
         \A o \in Orders : View(h, o)' = View(h, o)
  PROVE  UNCHANGED Engine!vars
<1>1. EngineOrders' = EngineOrders
  BY EngineViews
<1> QED
  BY <1>1 DEF Engine!vars

LEMMA EngineMoved ==
  ASSUME IInv, IInv', NEW h, Handlers = {h}, NEW p \in Orders, NEW record, View(h, p)' = record,
         \A o \in Orders \ {p} : View(h, o)' = View(h, o)
  PROVE  EngineOrders' = [EngineOrders EXCEPT ![p] = record] /\ EngineOrders[p] = View(h, p)
BY EngineViews

\* Reads, answers and new requests do not show.
LEMMA EngineHidden ==
  ASSUME IInv, IInv', NEW h, Handlers = {h},
         UNCHANGED <<order, book, trades, listed>>,
         \A o \in Orders : placed[o] # NoOrder => placed'[o] = placed[o],
         Unsettled(h)' = Unsettled(h), call'[h].top = call[h].top \/ Unsettled(h) = {},
         pc[h] # "saveStatus", pc'[h] # "saveStatus"
  PROVE  UNCHANGED Engine!vars
<1> SUFFICES ASSUME NEW o \in Orders PROVE View(h, o)' = View(h, o)
  BY EngineSame
<1>1. CASE o \notin listed
  BY <1>1 DEF View
<1>2. CASE o \in listed
  <2>1. placed'[o] = placed[o]
    BY <1>2, ListedIsPlaced DEF IInv
  <2>2. InOwnTrade(h, o)' <=> InOwnTrade(h, o)
    BY <2>1 DEF InOwnTrade
  <2>3. ASSUME InOwnTrade(h, o)
        PROVE  call'[h].top = call[h].top /\ \A s : Remaining(h, s)' = Remaining(h, s)
    BY <2>3 DEF InOwnTrade, Remaining, MatchQuantity
  <2>4. (InBook(o)' <=> InBook(o)) /\ StatusOf(h, o)' = StatusOf(h, o)
    BY DEF InBook, StatusOf
  <2>5. CASE InOwnTrade(h, o)
    BY <1>2, <2>1, <2>2, <2>3, <2>5 DEF View
  <2>6. CASE ~InOwnTrade(h, o)
    BY <1>2, <2>1, <2>2, <2>4, <2>6 DEF View
  <2> QED
    BY <2>5, <2>6
<1> QED
  BY <1>1, <1>2

\* While no trade is being settled, what is OPEN is what is in the book.
LEMMA OpenIsBooked ==
  ASSUME IInv, NEW h, Handlers = {h}, SerialOK(h), Unsettled(h) = {}, pc[h] # "saveStatus",
         NEW s \in Sides
  PROVE  /\ Engine!Open(s) = Members(book[s])
         /\ \A o \in Members(book[s]) :
              /\ o \in listed /\ placed[o].side = s
              /\ EngineOrders[o] = Engine!Resting(s, PriceOf(s, book[s][o]), order[o].quantity)
<1>1. Viewed /\ OrdersOK /\ BookedOrdersAreOpen /\ OpenOK(h) /\ TypeInv
  BY ViewIsEngine DEF IInv, LifeOK, SerialOK, BalanceOK
<1>2. ASSUME NEW t \in Sides, NEW o \in Members(book[t])
      PROVE  /\ o \in Orders /\ o \in listed /\ placed[o].side = t
             /\ EngineOrders[o] = Engine!Resting(t, PriceOf(t, book[t][o]), order[o].quantity)
             /\ EngineOrders[o] # NoOrder /\ EngineOrders[o].side = t
             /\ EngineOrders[o].status = "OPEN"
  <2>1. o \in Orders /\ InBook(o)
    BY <1>1 DEF InBook, Members, TypeInv, TypeOK, SortedSet
  <2>2. o \in listed /\ placed[o].side = t
    BY <1>1, <2>1 DEF OrdersOK, BookedOrdersAreOpen
  <2>3. EngineOrders[o] = View(h, o)
    BY <1>1, <2>1 DEF Viewed
  <2>4. View(h, o) = Engine!Resting(t, PriceOf(t, book[t][o]), order[o].quantity)
    BY <2>1, <2>2 DEF View, InOwnTrade
  <2>5. PriceOf(t, book[t][o]) \in Int /\ order[o].quantity \in Nat
    BY <1>1, <2>1, <2>2, ListedIsPlaced DEF TypeInv, PricesOK, Prices, OrderType, Quantities, IInv
  <2>6. Engine!Resting(t, PriceOf(t, book[t][o]), order[o].quantity)
          \in [side : Sides, price : Int, quantity : Nat, status : TradeStatuses]
    BY <2>5 DEF Engine!Resting, TradeStatuses
  <2>7. EngineOrders[o].side = t /\ EngineOrders[o].status = "OPEN"
    BY <2>3, <2>4 DEF Engine!Resting
  <2> QED
    BY <2>1, <2>2, <2>3, <2>4, <2>6, <2>7, EngineOrderAssumption
<1>3. ASSUME NEW o \in Engine!Open(s)
      PROVE  o \in Members(book[s])
  <2>1. o \in Orders /\ EngineOrders[o] # NoOrder /\ EngineOrders[o].side = s /\ EngineOrders[o].status = "OPEN"
    BY <1>3 DEF Engine!Open
  <2>2. EngineOrders[o] = View(h, o)
    BY <1>1, <2>1 DEF Viewed
  <2>3. o \in listed
    BY <2>1, <2>2 DEF View
  <2>4. InBook(o)
    <3> SUFFICES ASSUME ~InBook(o) PROVE FALSE
      OBVIOUS
    <3>1. View(h, o) = Engine!Closed(placed[o].side, order[o].status)
      BY <2>3 DEF View, InOwnTrade, StatusOf
    <3>2. order[o].status = "OPEN"
      BY <2>1, <2>2, <3>1 DEF Engine!Closed
    <3> QED
      BY <1>1, <2>3, <3>2 DEF OpenOK
  <2>5. PICK t \in Sides : o \in Members(book[t])
    BY <2>4 DEF InBook
  <2> QED
    BY <1>2, <2>1, <2>5
<1>4. Engine!Open(s) = Members(book[s])
  BY <1>2, <1>3 DEF Engine!Open
<1> QED
  BY <1>2, <1>4

LEMMA EngineFields ==
  ASSUME NEW side, NEW price, NEW quantity, NEW status
  PROVE  /\ Engine!Resting(side, price, quantity).side = side
         /\ Engine!Resting(side, price, quantity).price = price
         /\ Engine!Resting(side, price, quantity).quantity = quantity
         /\ Engine!Resting(side, price, quantity).status = "OPEN"
         /\ Engine!Closed(side, status).side = side
         /\ Engine!Closed(side, status).status = status
BY DEF Engine!Resting, Engine!Closed

\* storeTrade is the match, with the ask that was ranked first.
LEMMA EngineStoreTrade ==
  ASSUME IInv, IInv', NEW h, Handlers = {h}, SerialOK(h), StoreTrade(h)
  PROVE  \E bid, ask \in Orders : Engine!Match(bid, ask)
<1> PICK bid, ask : bid = call[h].top["BUY"].orderId /\ ask = call[h].top["SELL"].orderId
  OBVIOUS
<1> PICK b, a : b = call[h].top["BUY"] /\ a = call[h].top["SELL"]
  OBVIOUS
<1>1. /\ TypeInv /\ TopOK(h) /\ TargetOK(h) /\ SnapshotOK(h) /\ EventOK(h) /\ LowestAsk(h)
      /\ pc[h] = "storeTrade" /\ ~Matched(h) /\ h \in Handlers /\ Unsettled(h) = {}
      /\ UNCHANGED <<order, book, placed, listed, told>>
  BY NothingOwed DEF StoreTrade, IInv, TypeInv, FrameOK, EventOK, LifeOK, TermsOK, Matching, SerialOK
<1>2. /\ pc'[h] = Settle(h, "BUY") /\ call'[h].settling = "BUY" /\ call'[h].top = call[h].top
  <2>1. call' = [call EXCEPT ![h].settling = "BUY"] /\ pc' = [pc EXCEPT ![h] = Settle(h, "BUY")]
    BY DEF StoreTrade, Sends
  <2> QED
    BY <1>1, <2>1, SetSettling DEF TypeInv, TypeOK, Sides
<1>3. /\ Unsettled(h)' = Sides /\ MatchQuantity(h)' = MatchQuantity(h)
      /\ \A s \in Sides : Remaining(h, s)' = Remaining(h, s)
  BY <1>2 DEF Unsettled, Matched, MatchQuantity, Remaining, Settle
<1>4. /\ a \in EntryType /\ b \in EntryType /\ a # NoEntry /\ b # NoEntry
      /\ a.status = "OPEN" /\ b.status = "OPEN" /\ a.price <= b.price
      /\ bid \in Orders /\ ask \in Orders
  BY <1>1, MatchArithmetic DEF TopOK, Crosses, Sides, EntryType, Prices
<1>5. /\ bid \in Members(book["BUY"]) /\ ask \in Members(book["SELL"])
      /\ order[bid].quantity = b.quantity /\ order[ask].quantity = a.quantity
      /\ b.price = PriceOf("BUY", book["BUY"][bid]) /\ a.price = PriceOf("SELL", book["SELL"][ask])
  BY <1>1, <1>4 DEF SerialOK, SnapshotCurrent, InUse, TakenOut, Matching, Sides
<1>6. /\ "BUY" \in Sides /\ "SELL" \in Sides /\ Viewed
  BY ViewIsEngine DEF Sides
<1>7. /\ Engine!Open("BUY") = Members(book["BUY"]) /\ Engine!Open("SELL") = Members(book["SELL"])
      /\ \A o \in Members(book["SELL"]) : EngineOrders[o].price = PriceOf("SELL", book["SELL"][o])
      /\ bid \in listed /\ placed[bid].side = "BUY" /\ ask \in listed /\ placed[ask].side = "SELL"
      /\ EngineOrders[bid] = Engine!Resting("BUY", b.price, b.quantity)
      /\ EngineOrders[ask] = Engine!Resting("SELL", a.price, a.quantity)
  <2>1. ASSUME NEW s \in Sides
        PROVE  /\ Engine!Open(s) = Members(book[s])
               /\ \A o \in Members(book[s]) :
                    /\ o \in listed /\ placed[o].side = s
                    /\ EngineOrders[o] = Engine!Resting(s, PriceOf(s, book[s][o]), order[o].quantity)
    BY <1>1, OpenIsBooked
  <2>2. \A o \in Members(book["SELL"]) : EngineOrders[o].price = PriceOf("SELL", book["SELL"][o])
    BY <1>6, <2>1, EngineFields
  <2> QED
    BY <1>5, <1>6, <2>1, <2>2
<1>8. \A o \in Engine!Open("SELL") : EngineOrders[ask].price <= EngineOrders[o].price
  <2> SUFFICES ASSUME NEW o \in Members(book["SELL"])
               PROVE  book["SELL"][ask] <= book["SELL"][o]
    BY <1>5, <1>7 DEF PriceOf
  <2>1. IsFirst(book["SELL"], ask)
    BY <1>1, <1>4 DEF LowestAsk, Matching
  <2>2. book["SELL"][ask] \in Int /\ book["SELL"][o] \in Int
    BY <1>1, <1>5, <1>6 DEF Members, TypeInv, TypeOK, SortedSet, Score
  <2> QED
    BY <2>1, <2>2 DEF IsFirst, RankedBefore
<1> PICK quantity : quantity = MatchQuantity(h)
  OBVIOUS
<1>9. /\ EngineOrders[bid].quantity = b.quantity /\ EngineOrders[ask].quantity = a.quantity
      /\ EngineOrders[bid].price = b.price /\ EngineOrders[ask].price = a.price
      /\ EngineOrders[bid].side = "BUY" /\ EngineOrders[ask].side = "SELL"
      /\ quantity = IF b.quantity < a.quantity THEN b.quantity ELSE a.quantity
      /\ MatchPrice(h) = (b.price + a.price) \div 2
  BY <1>7 DEF Engine!Resting, MatchQuantity, MatchPrice
<1>10. bid # ask
  BY <1>7
<1>11. /\ View(h, bid)' = Engine!Reduced(bid, quantity)
       /\ View(h, ask)' = Engine!Reduced(ask, quantity)
  <2>1. /\ b.quantity \in Nat /\ a.quantity \in Nat /\ quantity <= b.quantity /\ quantity <= a.quantity
        /\ quantity \in Nat
    BY <1>4, <1>9 DEF EntryType
  <2>2. /\ Remaining(h, "BUY")' = b.quantity - quantity
        /\ Remaining(h, "SELL")' = a.quantity - quantity
    BY <1>3, <1>6 DEF Remaining
  <2>3. View(h, bid)' = IF b.quantity - quantity <= 0 THEN Engine!Closed("BUY", "FILLED")
                        ELSE Engine!Resting("BUY", b.price, b.quantity - quantity)
    BY <1>1, <1>2, <1>3, <1>6, <1>7, <2>2 DEF View, InOwnTrade
  <2>4. View(h, ask)' = IF a.quantity - quantity <= 0 THEN Engine!Closed("SELL", "FILLED")
                        ELSE Engine!Resting("SELL", a.price, a.quantity - quantity)
    BY <1>1, <1>2, <1>3, <1>6, <1>7, <2>2 DEF View, InOwnTrade
  <2>5. Engine!Reduced(bid, quantity) = IF b.quantity - quantity <= 0 THEN Engine!Closed("BUY", "FILLED")
                        ELSE Engine!Resting("BUY", b.price, b.quantity - quantity)
    BY <1>7, <1>9, <2>1 DEF Engine!Reduced, Engine!Resting
  <2>6. Engine!Reduced(ask, quantity) = IF a.quantity - quantity <= 0 THEN Engine!Closed("SELL", "FILLED")
                        ELSE Engine!Resting("SELL", a.price, a.quantity - quantity)
    BY <1>7, <1>9, <2>1 DEF Engine!Reduced, Engine!Resting
  <2> QED
    BY <2>3, <2>4, <2>5, <2>6
<1>12. ASSUME NEW o \in Orders \ {bid, ask} PROVE View(h, o)' = View(h, o)
  <2>1. ~InOwnTrade(h, o) /\ ~InOwnTrade(h, o)'
    BY <1>1, <1>2, <1>3, <1>12 DEF InOwnTrade, Sides
  <2>2. StatusOf(h, o)' = StatusOf(h, o) /\ (InBook(o)' <=> InBook(o))
    BY <1>1, <1>2 DEF StatusOf, Settle, InBook
  <2> QED
    BY <1>1, <2>1, <2>2 DEF View
<1>13. EngineOrders' = [EngineOrders EXCEPT ![bid] = Engine!Reduced(bid, quantity),
                                            ![ask] = Engine!Reduced(ask, quantity)]
  BY <1>4, <1>10, <1>11, <1>12, EngineViews
<1> PICK trade : trade = [buyOrderId |-> bid, sellOrderId |-> ask, quantity |-> quantity,
                          price |-> (b.price + a.price) \div 2]
  OBVIOUS
<1>14. \E i \in 1 .. Len(trades) + 1 : trades' = Engine!InsertAt(trades, i, trade)
  <2>1. PICK i \in 0 .. Len(trades) :
          trades' = SubSeq(trades, 1, i) \o <<trade>> \o SubSeq(trades, i + 1, Len(trades))
    BY <1>9 DEF StoreTrade
  <2>2. i + 1 \in 1 .. Len(trades) + 1 /\ (i + 1) - 1 = i
    BY <1>1, <2>1 DEF TypeInv, TypeOK
  <2>3. trades' = Engine!InsertAt(trades, i + 1, trade)
    BY <2>1, <2>2 DEF Engine!InsertAt
  <2> QED
    BY <2>2, <2>3
<1> QED
  BY <1>4, <1>5, <1>7, <1>8, <1>9, <1>13, <1>14 DEF Engine!Match

\* A trade that fills an order has closed it before the order leaves the book; what
\* a client fills or cancels is closed by leaving it.
LEMMA EngineRemoveOrder ==
  ASSUME IInv, IInv', NEW h, Handlers = {h}, SerialOK(h), RemoveOrder(h)
  PROVE  UNCHANGED Engine!vars \/ \E o \in Orders : Engine!Fill(o) \/ Engine!Cancel(o)
<1> PICK t : t = Target(h)
  OBVIOUS
<1> PICK side : side = placed[t].side
  OBVIOUS
<1>1. /\ TypeInv /\ TargetOK(h) /\ EventOK(h) /\ CopyCurrent(h) /\ ClosesOK(h) /\ OpenOK(h) /\ Viewed
      /\ pc[h] = "removeOrder" /\ pc[h] \in Changing /\ pc'[h] = "saveStatus" /\ h \in Handlers
      /\ UNCHANGED <<order, trades, placed, listed, told, call>>
      /\ book' = [book EXCEPT ![call[h].read.side] = ZRem(@, t)]
  BY ViewIsEngine DEF RemoveOrder, Sends, IInv, TypeInv, TypeOK, FrameOK, LifeOK, Changing, SerialOK, BalanceOK
<1>2. t \in listed /\ t \in Orders /\ order[t] \in OrderType /\ order[t] # NoOrder
  BY <1>1, ListedIsPlaced DEF TargetOK, IInv
<1>3. /\ Unsettled(h)' = Unsettled(h) /\ (Matched(h)' <=> Matched(h))
      /\ \A o : InOwnTrade(h, o)' <=> InOwnTrade(h, o)
      /\ \A s : Remaining(h, s)' = Remaining(h, s)
      /\ Target(h)' = t
  BY <1>1 DEF Unsettled, Matched, InOwnTrade, Remaining, MatchQuantity, Changing, Target
<1>4. \A o \in Orders \ {t} : View(h, o)' = View(h, o)
  <2> SUFFICES ASSUME NEW o \in Orders \ {t}
               PROVE  View(h, o)' = View(h, o)
    OBVIOUS
  <2>1. \A s \in Sides : book'[s][o] = book[s][o] /\ (o \in Members(book[s]) <=> o \in Members(book'[s]))
    BY <1>1, <1>2 DEF ZRem, Members, TypeInv, TypeOK, SortedSet
  <2>2. InBook(o)' <=> InBook(o)
    BY <2>1 DEF InBook
  <2>3. StatusOf(h, o)' = StatusOf(h, o)
    BY <1>1, <1>3 DEF StatusOf
  <2>4. o \in listed => placed[o].side \in Sides
    BY ListedIsPlaced DEF OrderType, IInv
  <2> QED
    BY <1>1, <1>3, <2>1, <2>2, <2>3, <2>4 DEF View
<1>5. CASE Matched(h)
  <2>1. /\ side \in Sides /\ side = call[h].settling /\ InOwnTrade(h, t)
        /\ Remaining(h, side) <= 0
    BY <1>1, <1>5, SettledSide DEF InOwnTrade, ClosesOK
  <2>2. View(h, t)' = View(h, t)
    BY <1>1, <1>3, <2>1 DEF View
  <2> QED
    BY <1>1, <1>4, <2>2, EngineSame
<1>6. CASE ~Matched(h)
  <2>1. ~InOwnTrade(h, t) /\ Unsettled(h) = {}
    BY <1>6, NothingOwed DEF InOwnTrade
  <2>2. ~InBook(t)'
    BY <1>1, <1>3, <1>2 DEF IInv, LifeOK, TargetOK
  <2>3. call[h].read.status = NewStatus(h)
    BY <1>1, <1>2 DEF CopyCurrent, OrderType
  <2>4. View(h, t)' = Engine!Closed(side, NewStatus(h))
    <3>1. StatusOf(h, t)' = call[h].read.status
      BY <1>1, <1>3 DEF StatusOf
    <3>2. placed'[t].side = side /\ t \in listed'
      BY <1>1, <1>2
    <3> QED
      BY <1>3, <2>1, <2>2, <2>3, <3>1, <3>2 DEF View
  <2>5. /\ EngineOrders' = [EngineOrders EXCEPT ![t] = Engine!Closed(side, NewStatus(h))]
        /\ EngineOrders[t] = View(h, t)
    BY <1>2, <1>4, <2>4, EngineMoved
  <2>6. call[h].event \in {"cancelOrder", "fillOrder"} /\ t = call[h].subject
    BY <1>1, <1>6 DEF EventOK, TypeInv, TypeOK, CallType, IncomingEvents, Target
  <2>7. CASE call[h].event = "fillOrder"
    <3>1. order[t].status = "OPEN"
      BY <1>1, <2>6, <2>7 DEF ClosesOK
    <3>2. InBook(t)
      BY <1>1, <1>2, <3>1 DEF OpenOK
    <3>3. PICK s \in Sides : t \in Members(book[s])
      BY <3>2 DEF InBook
    <3>4. Engine!Open(s) = Members(book[s]) /\ side = s
          /\ EngineOrders[t] = Engine!Resting(s, PriceOf(s, book[s][t]), order[t].quantity)
      BY <1>1, <2>1, <3>3, OpenIsBooked
    <3>5. EngineOrders[t].side = side
      BY <3>4, EngineFields
    <3>6. Engine!Fill(t)
      BY <1>1, <2>5, <2>7, <3>3, <3>4, <3>5 DEF Engine!Fill, NewStatus, Sides
    <3> QED
      BY <1>2, <3>6
  <2>8. CASE call[h].event = "cancelOrder"
    <3>1. EngineOrders[t].side = side /\ EngineOrders[t] # NoOrder
      <4>1. CASE InBook(t)
        <5>1. PICK s \in Sides : t \in Members(book[s])
          BY <4>1 DEF InBook
        <5>2. Engine!Open(s) = Members(book[s]) /\ side = s
              /\ EngineOrders[t] = Engine!Resting(s, PriceOf(s, book[s][t]), order[t].quantity)
          BY <1>1, <2>1, <5>1, OpenIsBooked
        <5> QED
          BY <5>1, <5>2, EngineFields DEF Engine!Open
      <4>2. CASE ~InBook(t)
        <5>1. EngineOrders[t] = Engine!Closed(side, order[t].status)
          BY <1>1, <1>2, <2>1, <2>5, <4>2 DEF View, StatusOf
        <5>2. side \in Sides /\ order[t].status \in TradeStatuses
          BY <1>2, ListedIsPlaced DEF OrderType, IInv
        <5>3. Engine!Closed(side, order[t].status)
                \in [side : Sides, price : Int, quantity : Nat, status : TradeStatuses]
          BY <5>2 DEF Engine!Closed
        <5> QED
          BY <5>1, <5>3, EngineFields, EngineOrderAssumption
      <4> QED
        BY <4>1, <4>2
    <3>2. Engine!Cancel(t)
      BY <1>1, <2>5, <2>8, <3>1 DEF Engine!Cancel, NewStatus
    <3> QED
      BY <1>2, <3>2
  <2> QED
    BY <2>6, <2>7, <2>8
<1> QED
  BY <1>5, <1>6

\* The hash only catches up.
LEMMA EngineSave ==
  ASSUME IInv, IInv', NEW h, Handlers = {h}, SerialOK(h), SaveStatus(h) \/ SaveUpdate(h)
  PROVE  UNCHANGED Engine!vars
<1> PICK t : t = Target(h)
  OBVIOUS
<1> PICK side : side = placed[t].side
  OBVIOUS
<1>1. /\ TypeInv /\ TopOK(h) /\ TargetOK(h) /\ EventOK(h) /\ CopyCurrent(h) /\ ClosesOK(h)
      /\ SnapshotCurrent(h) /\ pc[h] \in {"saveStatus", "saveUpdate"} /\ pc[h] \in Changing
      /\ h \in Handlers /\ Continue(h)
      /\ UNCHANGED <<book, trades, placed, listed, told>>
      /\ order' = [order EXCEPT ![t] = call[h].read]
  BY DEF SaveStatus, SaveUpdate, IInv, TypeInv, FrameOK, LifeOK, Changing, SerialOK
<1>2. /\ Unsettled(h)' = Unsettled(h) \ {call[h].settling}
      /\ MatchQuantity(h)' = MatchQuantity(h) /\ call'[h].top = call[h].top
      /\ pc'[h] # "saveStatus"
  BY <1>1, ContinueSettles, ContinueKeeps
<1>3. t \in listed /\ t \in Orders /\ \A o \in Orders \ {t} : order'[o] = order[o]
  BY <1>1, ListedIsPlaced DEF TargetOK, TypeInv, TypeOK, IInv
<1>4. \A s : Remaining(h, s)' = Remaining(h, s)
  BY <1>2 DEF Remaining
<1>5. \A o : InBook(o)' <=> InBook(o)
  BY <1>1 DEF InBook
<1>6. Unsettled(h) # {} => Matched(h)
  BY DEF Unsettled
<1>7. ASSUME NEW o \in Orders \ {t} PROVE View(h, o)' = View(h, o)
  <2>1. InOwnTrade(h, o)' <=> InOwnTrade(h, o)
    <3>1. Matched(h) => call[h].top[call[h].settling].orderId = t
      BY <1>1, SettledSide
    <3> QED
      BY <1>1, <1>2, <1>6, <1>7, <3>1 DEF InOwnTrade
  <2>2. StatusOf(h, o)' = StatusOf(h, o)
    BY <1>2, <1>3, <1>7 DEF StatusOf
  <2> QED
    BY <1>1, <1>2, <1>3, <1>4, <1>5, <2>1, <2>2 DEF View
<1>8. View(h, t)' = View(h, t)
  <2>1. CASE pc[h] = "saveStatus"
    <3>1. ~InBook(t)
      BY <1>1, <2>1 DEF TargetOK
    <3>2. order'[t].status = NewStatus(h) /\ call[h].read.status = NewStatus(h)
      BY <1>1, <1>3, <2>1, SavedOrder, ListedIsPlaced DEF CopyCurrent, OrderType, IInv
    <3>3. ~InOwnTrade(h, t)'
      <4>1. Matched(h) => call[h].settling = side
        BY <1>1, SettledSide
      <4> QED
        BY <1>1, <1>2, <1>6, <4>1 DEF InOwnTrade
    <3>4. View(h, t)' = Engine!Closed(side, NewStatus(h))
      BY <1>1, <1>2, <1>3, <1>5, <3>1, <3>2, <3>3 DEF View, StatusOf
    <3>5. CASE InOwnTrade(h, t)
      <4>1. Matched(h)
        BY <1>6, <3>5 DEF InOwnTrade
      <4>2. side = call[h].settling /\ Remaining(h, side) <= 0 /\ NewStatus(h) = "FILLED"
        BY <1>1, <2>1, <4>1, SettledSide DEF ClosesOK, NewStatus, EventOK
      <4> QED
        BY <1>3, <3>4, <3>5, <4>2 DEF View
    <3>6. CASE ~InOwnTrade(h, t)
      BY <1>3, <2>1, <3>1, <3>2, <3>4, <3>6 DEF View, StatusOf
    <3> QED
      BY <3>5, <3>6
  <2>2. CASE pc[h] = "saveUpdate"
    <3>1. Matched(h) /\ Remaining(h, call[h].settling) > 0
      BY <1>1, <2>2 DEF TopOK
    <3>2. /\ side = call[h].settling /\ side \in Sides /\ InOwnTrade(h, t)
          /\ t = call[h].top[side].orderId /\ t \in Members(book[side])
      BY <1>1, <2>2, <3>1, SettledSide DEF InOwnTrade
    <3>3. call[h].top[side].price = PriceOf(side, book[side][t])
      BY <1>1, <2>2, <3>1, <3>2 DEF SnapshotCurrent, InUse, InOwnTrade, TakenOut, TopOK, Crosses, Sides
    <3>4. order'[t].quantity = Remaining(h, side)
      BY <1>1, <2>2, <3>2, SavedOrder
    <3>5. InBook(t) /\ ~InOwnTrade(h, t)'
      BY <1>1, <1>2, <3>2 DEF InBook, InOwnTrade
    <3>6. View(h, t)' = Engine!Resting(side, PriceOf(side, book[side][t]), Remaining(h, side))
      BY <1>1, <1>3, <1>5, <3>4, <3>5 DEF View
    <3>7. ~(Remaining(h, side) <= 0)
      BY <1>1, <3>1, <3>2, MatchArithmetic
    <3>8. View(h, t) = Engine!Resting(side, call[h].top[side].price, Remaining(h, side))
      BY <1>3, <3>2, <3>7 DEF View
    <3> QED
      BY <3>3, <3>6, <3>8
  <2> QED
    BY <1>1, <2>1, <2>2
<1> QED
  BY <1>1, <1>7, <1>8, EngineSame

\* addOrder's hash is not in the book yet.
LEMMA EngineSaveOrder ==
  ASSUME IInv, IInv', NEW h, Handlers = {h}, SaveOrder(h)
  PROVE  UNCHANGED Engine!vars
<1> PICK p : p = call[h].subject
  OBVIOUS
<1>1. /\ TypeInv /\ CreatorOK(h) /\ EventOK(h) /\ pc[h] = "saveOrder" /\ pc[h] \in Adding /\ h \in Handlers
      /\ pc'[h] # "saveStatus"
      /\ UNCHANGED <<book, trades, placed, listed, told>>
      /\ order' = [order EXCEPT ![p] = placed[p]]
  BY DEF SaveOrder, Sends, IInv, TypeInv, TypeOK, FrameOK, LifeOK, Adding
<1>2. p \notin listed /\ ~Matched(h)
  BY <1>1, CreatorType DEF CreatorOK, EventOK, Creates
<1>3. ~Matched(h)'
  BY <1>1, <1>2 DEF SaveOrder, Matched, TypeInv, TypeOK, CallType
<1> SUFFICES ASSUME NEW o \in listed PROVE View(h, o)' = View(h, o)
  <2>1. \A o \in Orders \ listed : View(h, o)' = View(h, o)
    BY <1>1 DEF View
  <2> QED
    BY <1>1, <2>1, EngineSame
<1>4. order'[o] = order[o]
  BY <1>1, <1>2 DEF TypeInv, TypeOK
<1>5. ~InOwnTrade(h, o) /\ ~InOwnTrade(h, o)'
  BY <1>2, <1>3, NothingOwed, NothingOwedNext, <1>1 DEF InOwnTrade
<1>6. (InBook(o)' <=> InBook(o)) /\ StatusOf(h, o)' = StatusOf(h, o)
  BY <1>1, <1>4 DEF InBook, StatusOf
<1> QED
  BY <1>1, <1>4, <1>5, <1>6 DEF View

\* The ZADD is the order coming to rest, at its limit or at a price that the
\* other side or the last trade still has.
LEMMA EngineAddToBook ==
  ASSUME IInv, IInv', NEW h, Handlers = {h}, SerialOK(h), PlacedAsRequested, AddToBook(h)
  PROVE  \E o \in Orders, r \in Requests : Engine!Rest(o, r)
<1> PICK p : p = call[h].subject
  OBVIOUS
<1> PICK side : side = placed[p].side
  OBVIOUS
<1> PICK price : price = call[h].price
  OBVIOUS
<1>1. /\ TypeInv /\ CreatorOK(h) /\ OrdersOK /\ EventOK(h) /\ PricingOK(h) /\ SnapshotOK(h) /\ h \in Handlers
      /\ pc[h] = "addToBook" /\ pc[h] \in Adding /\ pc'[h] = "respond"
      /\ UNCHANGED <<order, trades, placed, told, call>>
      /\ listed' = listed \cup {p}
      /\ book' = [book EXCEPT ![side] = ZAdd(@, p, ScoreOf(side, price))]
  BY DEF AddToBook, Sends, IInv, TypeInv, TypeOK, FrameOK, LifeOK, TermsOK, SerialOK, Adding
<1>2. /\ p \in Orders /\ side \in Sides /\ Opposite(side) \in Sides /\ p \notin listed /\ ~Matched(h) /\ ~Matched(h)'
      /\ placed[p] # NoOrder /\ order[p] = placed[p] /\ placed[p] \in OrderType
      /\ price \in Prices
  BY <1>1, CreatorType DEF CreatorOK, EventOK, Creates, Matched, Adding, TypeInv, TypeOK, CallType
<1>3. Unsettled(h) = {} /\ Unsettled(h)' = {} /\ \A o : ~InOwnTrade(h, o) /\ ~InOwnTrade(h, o)'
  BY <1>2, NothingOwed, NothingOwedNext DEF InOwnTrade
<1>4. PICK r \in Requests : placed[p] = OrderOf(r)
  BY <1>2 DEF PlacedAsRequested
<1>5. r.side = side /\ r.orderType = placed[p].orderType /\ r.price = placed[p].price /\ r.quantity = order[p].quantity
  BY <1>2, <1>4 DEF OrderOf
<1>6. EngineOrders[p] = NoOrder
  BY <1>2, ViewIsEngine DEF Viewed, View
<1>7. price \in Engine!PricesFor(r)
  <2>1. CASE r.orderType = "LIMIT"
    BY <1>1, <1>5, <2>1 DEF SnapshotOK, Engine!PricesFor
  <2>2. CASE r.orderType # "LIMIT"
    <3>1. placed[p].orderType = "MARKET"
      BY <1>2, <1>5, <2>2 DEF OrderType, OrderTypes
    <3>2. price \in MarketPrices(side)
      BY <1>1, <3>1 DEF PricingOK
    <3> PICK other : other = Opposite(side)
      OBVIOUS
    <3>3. /\ Engine!Open(other) = Members(book[other])
          /\ \A o \in Members(book[other]) : EngineOrders[o].price = PriceOf(other, book[other][o])
      <4>1. /\ Engine!Open(other) = Members(book[other])
            /\ \A o \in Members(book[other]) :
                 EngineOrders[o] = Engine!Resting(other, PriceOf(other, book[other][o]), order[o].quantity)
        BY <1>1, <1>2, <1>3, OpenIsBooked
      <4> QED
        BY <4>1, EngineFields
    <3>4. other = IF r.side = "BUY" THEN "SELL" ELSE "BUY"
      BY <1>5 DEF Opposite
    <3>5. CASE Members(book[other]) # {}
      <4>1. PICK o \in Members(book[other]) : price = PriceOf(other, book[other][o])
        BY <3>2, <3>5 DEF MarketPrices
      <4>2. price \in {EngineOrders[q].price : q \in Engine!Open(other)}
        BY <3>3, <4>1
      <4> QED
        BY <2>2, <3>3, <3>4, <3>5, <4>2 DEF Engine!PricesFor
    <3>6. CASE Members(book[other]) = {}
      <4>1. price \in IF trades # <<>> THEN {Head(trades).price}
                      ELSE {IF side = "BUY" THEN CeilingPrice ELSE FloorPrice}
        BY <3>2, <3>6 DEF MarketPrices
      <4>2. trades # <<>> => Head(trades) = trades[1]
        BY <1>1 DEF TypeInv, TypeOK
      <4> QED
        BY <1>5, <2>2, <3>3, <3>4, <3>6, <4>1, <4>2 DEF Engine!PricesFor
    <3> QED
      BY <3>5, <3>6
  <2> QED
    BY <2>1, <2>2
<1>8. View(h, p)' = Engine!Resting(side, price, r.quantity)
  <2>1. ScoreOf(side, price) \in Int /\ PriceOf(side, ScoreOf(side, price)) = price
    BY <1>2 DEF ScoreOf, PriceOf, Prices
  <2>2. book'[side][p] = ScoreOf(side, price) /\ p \in Members(book'[side])
    BY <1>1, <1>2, <2>1, NoScoreAssumption DEF ZAdd, Members, TypeInv, TypeOK, SortedSet
  <2>3. InBook(p)'
    BY <1>2, <2>2 DEF InBook
  <2> QED
    BY <1>1, <1>3, <1>5, <2>1, <2>2, <2>3 DEF View
<1>9. ASSUME NEW o \in Orders \ {p} PROVE View(h, o)' = View(h, o)
  <2>1. \A s \in Sides : book'[s][o] = book[s][o] /\ (o \in Members(book[s]) <=> o \in Members(book'[s]))
    BY <1>1, <1>2 DEF ZAdd, Members, TypeInv, TypeOK, SortedSet
  <2>2. (InBook(o)' <=> InBook(o)) /\ (o \in listed' <=> o \in listed)
    BY <1>1, <2>1 DEF InBook
  <2>3. StatusOf(h, o)' = StatusOf(h, o)
    BY <1>1 DEF StatusOf
  <2>4. o \in listed => placed[o].side \in Sides
    BY ListedIsPlaced DEF OrderType, IInv
  <2> QED
    BY <1>1, <1>3, <2>1, <2>2, <2>3, <2>4 DEF View
<1>10. EngineOrders' = [EngineOrders EXCEPT ![p] = Engine!Resting(side, price, r.quantity)]
  BY <1>2, <1>8, <1>9, EngineMoved
<1> QED
  BY <1>1, <1>2, <1>5, <1>6, <1>7, <1>10 DEF Engine!Rest

LEMMA EngineTargetRead ==
  ASSUME IInv, IInv', NEW h, Handlers = {h}, SerialOK(h), placed' = placed,
         CheckOpen(h) \/ ReadForStatus(h) \/ ReadForUpdate(h)
  PROVE  UNCHANGED Engine!vars
<1>1. /\ TypeInv /\ EventOK(h) /\ h \in Handlers /\ UNCHANGED <<order, book, trades, listed>>
      /\ pc[h] \in {"checkOpen", "readForStatus", "readForUpdate"}
  BY DEF CheckOpen, ReadForStatus, ReadForUpdate, IInv, TypeInv, FrameOK, redis
<1>2. /\ Matched(h) => order[Target(h)] \in OrderType /\ order[Target(h)].status = "OPEN"
      /\ pc[h] = "checkOpen" => Matched(h) \/ call[h].event = "fillOrder"
      /\ pc[h] = "readForStatus" => order[Target(h)] # NoOrder \/ call[h].event = "cancelOrder"
      /\ pc[h] = "readForUpdate" => Matched(h)
  BY <1>1, TargetFound
<1>3. \E read : call' = call \/ call' = [call EXCEPT ![h].read = read]
  BY <1>1, <1>2, NoOrderAssumption DEF CheckOpen, ReadForStatus, ReadForUpdate
<1>4. call'[h].top = call[h].top /\ call'[h].settling = call[h].settling
  BY <1>1, <1>3 DEF TypeInv, TypeOK, CallType
<1>5. pc'[h] \in {"readForStatus", "removeOrder", "saveUpdate", "respondError"}
  BY <1>1, <1>2, NoOrderAssumption DEF CheckOpen, ReadForStatus, ReadForUpdate, Sends, LeavesBook, TypeInv, TypeOK
<1>6. Unsettled(h)' = Unsettled(h)
  BY <1>1, <1>4, <1>5 DEF Unsettled, Matched
<1> QED
  BY <1>1, <1>4, <1>5, <1>6, EngineHidden

LEMMA EngineStepOrStutter ==
  OneAtATime /\ IInv /\ IInv' /\ SerialInv /\ [Next]_vars => [Engine!Next]_(Engine!vars)
<1> SUFFICES ASSUME OneAtATime, IInv, IInv', SerialInv, [Next]_vars
             PROVE  Engine!Next \/ UNCHANGED Engine!vars
  OBVIOUS
<1>1. PICK h \in Handlers : Handlers = {h}
  BY DEF OneAtATime
<1>2. /\ SerialOK(h) /\ PlacedAsRequested /\ EventOK(h) /\ TypeInv
      /\ \A o \in Orders : placed[o] # NoOrder => placed'[o] = placed[o]
  BY <1>1, PlacedAndToldStay DEF SerialInv, IInv, TypeInv, FrameOK
<1>3. CASE UNCHANGED vars
  <2>1. Viewed /\ Viewed'
    BY ViewIsEngine, PTL
  <2>2. EngineOrders' = EngineOrders
    <3>1. \A o \in Orders : View(h, o)' = View(h, o)
      BY <1>3 DEF vars, View, InOwnTrade, Unsettled, Matched, Remaining, MatchQuantity, StatusOf, Target, InBook
    <3> QED
      BY <1>1, <3>1, EngineViews
  <2> QED
    BY <1>3, <2>2 DEF vars, Engine!vars
<1>4. CASE Request(h)
  <2>1. /\ pc[h] = "idle" /\ UNCHANGED <<order, book, trades, listed>>
        /\ pc'[h] # "saveStatus"
    BY <1>2, <1>4 DEF Request, RequestCreate, RequestMatch, RequestCancel, RequestFill, Sends, redis,
                      TypeInv, TypeOK
  <2>2. ~Matched(h) /\ ~Matched(h)'
    <3>1. ~Matched(h)
      BY <1>2, <2>1, NoCallFields DEF EventOK, Matched
    <3>2. call'[h].settling = call[h].settling
      BY <1>2, <1>4 DEF Request, RequestCreate, RequestMatch, RequestCancel, RequestFill, TypeInv, TypeOK, CallType
    <3> QED
      BY <3>1, <3>2 DEF Matched
  <2> QED
    BY <1>1, <1>2, <2>1, <2>2, NothingOwed, NothingOwedNext, EngineHidden
<1>5. CASE RankBids(h) \/ RankAsks(h) \/ ReadBid(h) \/ ReadAsk(h)
           \/ RankOpposite(h) \/ ReadOpposite(h) \/ ReadLastTrade(h) \/ Respond(h) \/ RespondError(h)
  <2>1. /\ UNCHANGED <<order, book, trades, listed>>
        /\ pc[h] \in Matching \cup Adding \cup {"respond", "respondError"}
        /\ pc'[h] # "saveStatus"
    BY <1>2, <1>5 DEF RankBids, RankAsks, ReadBid, ReadAsk, ReadRanked, RankOpposite, ReadOpposite,
       ReadLastTrade, Respond, RespondError, NextRead, AfterReads, Throws, Sends, redis, TypeInv, TypeOK, Matching, Adding
  <2>2. Unsettled(h) = {}
    BY <1>2, <2>1, NothingOwed DEF EventOK, Matching, Adding
  <2>3. Unsettled(h)' = {}
    <3>1. pc'[h] \in Matching \cup Adding \cup {"idle", "respond"}
      BY <1>2, <1>5 DEF RankBids, RankAsks, ReadBid, ReadAsk, ReadRanked, RankOpposite, ReadOpposite,
         ReadLastTrade, Respond, RespondError, NextRead, AfterReads, Throws, Sends, TypeInv, TypeOK, Matching, Adding
    <3>2. EventOK(h)'
      BY DEF IInv, TypeInv, FrameOK
    <3>3. ~Matched(h)' \/ pc'[h] = "respond"
      BY <3>1, <3>2, NoCallFields DEF EventOK, Matched
    <3> QED
      BY <3>3, NothingOwedNext
  <2>4. pc[h] # "saveStatus"
    BY <2>1 DEF Matching, Adding
  <2> QED
    BY <1>1, <1>2, <2>1, <2>2, <2>3, <2>4, EngineHidden
<1>6. CASE CheckOpen(h) \/ ReadForStatus(h) \/ ReadForUpdate(h)
  <2>1. placed' = placed
    BY <1>6 DEF CheckOpen, ReadForStatus, ReadForUpdate
  <2> QED
    BY <1>1, <1>2, <1>6, <2>1, EngineTargetRead
<1>7. CASE SaveStatus(h) \/ SaveUpdate(h)
  BY <1>1, <1>2, <1>7, EngineSave
<1>8. CASE SaveOrder(h)
  BY <1>1, <1>8, EngineSaveOrder
<1>9. CASE StoreTrade(h)
  BY <1>1, <1>2, <1>9, EngineStoreTrade DEF Engine!Next
<1>10. CASE RemoveOrder(h)
  BY <1>1, <1>2, <1>10, EngineRemoveOrder DEF Engine!Next
<1>11. CASE AddToBook(h)
  BY <1>1, <1>2, <1>11, EngineAddToBook DEF Engine!Next
<1>12. ~Fail(h)
  BY <1>2 DEF Fail, OneAtATime, TypeInv, TypeOK
<1> QED
  BY <1>1, <1>3, <1>4, <1>5, <1>6, <1>7, <1>8, <1>9, <1>10, <1>11, <1>12 DEF Next, Run

\* Run one at a time and without failures, the handlers of createOrder, matchTopOrders,
\* cancelOrder and fillOrder are steps of the engine, each taking effect at one command:
\* ZADD, the trade's MULTI or ZREM.
THEOREM EngineImplemented == ASSUME OneAtATime PROVE Spec => ImplementsEngine
<1>1. Init => Engine!Init
  BY DEF Init, Engine!Init, EngineOrders
<1>2. IInv /\ IInv' /\ SerialInv /\ [Next]_vars => [Engine!Next]_(Engine!vars)
  BY EngineStepOrStutter
<1> QED
  BY <1>1, <1>2, InvariantAlways, SerialAlways, PTL DEF Spec, ImplementsEngine, Engine!Spec

-----------------------------------------------------------------------------
(* Quantities, for any number of handlers that interleave and fail.         *)

\* A stored trade adds its quantity to what its two orders have traded; no other
\* step changes what an order has traded.
LEMMA TradedGrows ==
  ASSUME TypeInv, TypeInv', NEW h \in Handlers, Request(h) \/ Run(h) \/ Fail(h), NEW o
  PROVE  /\ Traded(o) \in Int /\ Traded(o)' \in Int /\ Traded(o)' >= Traded(o)
         /\ trades' = trades => Traded(o)' = Traded(o)
         /\ StoreTrade(h) /\ (\E s \in Sides : call[h].top[s].orderId = o)
              => Traded(o)' = Traded(o) + MatchQuantity(h)
<1>1. /\ Traded(o) = Sum(trades, Places(trades, o)) /\ Traded(o) \in Int
      /\ Traded(o)' = Sum(trades', Places(trades', o)) /\ Traded(o)' \in Int
  BY TradedIsSum, TradedIsSumNext DEF TypeInv
<1>2. CASE StoreTrade(h)
  <2> DEFINE b == call[h].top["BUY"].orderId
             a == call[h].top["SELL"].orderId
             trade == [buyOrderId |-> b, sellOrderId |-> a,
                       quantity |-> MatchQuantity(h), price |-> MatchPrice(h)]
  <2>1. /\ MatchQuantity(h) \in Quantities /\ MatchPrice(h) \in Prices
        /\ \A s \in Sides : call[h].top[s] \in EntryType /\ call[h].top[s].orderId \in Orders
    <3>1. pc[h] = "storeTrade"
      BY <1>2 DEF StoreTrade
    <3> QED
      BY <3>1, MatchArithmetic DEF EntryType
  <2>2. trade \in TradeType
    BY <2>1 DEF TradeType, Sides
  <2>3. PICK i \in 0 .. Len(trades) : trades' = InsertAfter(trades, i, trade)
    BY <1>2 DEF StoreTrade, InsertAfter
  <2>4. trades \in Seq(TradeType)
    BY DEF TypeInv, TypeOK
  <2>5. trade.quantity = MatchQuantity(h) /\ trade.buyOrderId = b /\ trade.sellOrderId = a
    OBVIOUS
  <2> HIDE DEF trade, a, b
  <2>6. Sum(trades', Places(trades', o)) = Sum(trades, Places(trades, o))
          + (IF o \in {trade.buyOrderId, trade.sellOrderId} THEN trade.quantity ELSE 0)
    BY <2>2, <2>3, <2>4, SumInserted
  <2>7. Traded(o)' = Traded(o) + (IF o \in {b, a} THEN MatchQuantity(h) ELSE 0)
    BY <1>1, <2>5, <2>6
  <2>8. Traded(o)' >= Traded(o)
    <3>1. MatchQuantity(h) \in Nat
      BY <2>1 DEF Quantities
    <3> QED
      BY <1>1, <2>7, <3>1
  <2>9. (\E s \in Sides : call[h].top[s].orderId = o) => o \in {b, a}
    BY DEF Sides, a, b
  <2>10. trades' = trades => Traded(o)' = Traded(o)
    BY <1>1
  <2> QED
    BY <1>1, <2>7, <2>8, <2>9, <2>10
<1>3. CASE ~StoreTrade(h)
  <2>1. trades' = trades
    BY <1>3 DEF Request, Run, Fail, RequestCreate, RequestMatch, RequestCancel, RequestFill, redis,
       RankBids, RankAsks, ReadBid, ReadAsk, ReadRanked, CheckOpen, ReadForStatus, RemoveOrder,
       SaveStatus, ReadForUpdate, SaveUpdate, SaveOrder, RankOpposite, ReadOpposite, ReadLastTrade,
       AddToBook, Respond, RespondError
  <2> QED
    BY <1>1, <1>3, <2>1
<1> QED
  BY <1>2, <1>3

\* A step of one handler leaves the locals of the others alone, and the orders placed.
LEMMA NextOthers ==
  ASSUME IInv, NEW h \in Handlers, Request(h) \/ Run(h) \/ Fail(h)
  PROVE  OthersKeep(h)
<1>1. \A o \in Orders : placed[o] # NoOrder => placed'[o] = placed[o]
  BY PlacedAndToldStay DEF IInv, Next
<1> QED
  BY <1>1, OthersStay DEF IInv, OthersKeep

\* A quantity that was enough is enough after the step.
LEMMA StaysEnough ==
  ASSUME IInv, IInv', NEW h \in Handlers, Request(h) \/ Run(h) \/ Fail(h), OthersKeep(h),
         NEW o \in Orders, order[o] # NoOrder, NEW quantity \in Int,
         quantity + Traded(o) >= placed[o].quantity
  PROVE  quantity + Traded(o)' >= placed'[o].quantity
<1>1. placed'[o] = placed[o] /\ placed[o].quantity \in Int
  BY StoredIsPlaced, LifeIsStored DEF IInv, OthersKeep, OrderType, Quantities
<1>2. Traded(o) \in Int /\ Traded(o)' \in Int /\ Traded(o)' >= Traded(o)
  BY TradedGrows DEF IInv
<1> QED
  BY <1>1, <1>2

\* What the copies of a handler are copies of, and that their quantities are numbers.
LEMMA CopiesTyped ==
  ASSUME IInv, NEW h \in Handlers
  PROVE  /\ \A s \in Sides : call[h].top[s].status # "unread" =>
              /\ call[h].top[s] # NoEntry /\ call[h].top[s].orderId \in Orders
              /\ order[call[h].top[s].orderId] # NoOrder
              /\ call[h].top[s].quantity \in Int /\ Left(h, s) \in Int
         /\ pc[h] \in {"removeOrder", "saveStatus", "saveUpdate"} =>
              /\ Target(h) \in Orders /\ order[Target(h)] # NoOrder
              /\ call[h].read.quantity \in Int
<1>1. TypeInv /\ StoredOK /\ TopOK(h)
  BY LifeIsStored DEF IInv, TypeInv, FrameOK
<1>2. ASSUME NEW s \in Sides, call[h].top[s].status # "unread"
      PROVE  /\ call[h].top[s] # NoEntry /\ call[h].top[s].orderId \in Orders
             /\ order[call[h].top[s].orderId] # NoOrder
             /\ call[h].top[s].quantity \in Int /\ Left(h, s) \in Int
  <2>1. call[h].top[s] # NoEntry
    BY <1>2 DEF NoEntry
  <2>2. call[h].top[s].orderId \in Orders /\ order[call[h].top[s].orderId] # NoOrder
    BY <1>1, <2>1, EntryIsStored
  <2>3. call[h].top[s].quantity \in Int
    BY <1>1, <1>2 DEF TopOK, Quantities
  <2>4. Matched(h) => Remaining(h, s) \in Int
    BY <1>1, MatchArithmetic
  <2> QED
    BY <2>1, <2>2, <2>3, <2>4 DEF Left
<1>3. ASSUME pc[h] \in {"removeOrder", "saveStatus", "saveUpdate"}
      PROVE  Target(h) \in Orders /\ order[Target(h)] # NoOrder /\ call[h].read.quantity \in Int
  BY <1>1, <1>3, CopyIsStored DEF OrderType, Quantities
<1> QED
  BY <1>2, <1>3

\* It is enough to look at the hashes and at the handler that takes the step.
LEMMA QuantityStep ==
  ASSUME IInv, IInv', QuantityInv, NEW h \in Handlers, Request(h) \/ Run(h) \/ Fail(h),
         OthersKeep(h), QuantityAccountedFor', CopiesAccountedFor(h)'
  PROVE  QuantityInv'
<1>1. ASSUME NEW o \in Orders
      PROVE  Traded(o)' >= 0
  <2>1. Traded(o) >= 0
    BY DEF QuantityInv
  <2>2. Traded(o) \in Int /\ Traded(o)' \in Int /\ Traded(o)' >= Traded(o)
    BY TradedGrows DEF IInv
  <2> QED
    BY <2>1, <2>2
<1>2. ASSUME NEW g \in Handlers \ {h}
      PROVE  CopiesAccountedFor(g)'
  <2>1. /\ pc'[g] = pc[g] /\ call'[g] = call[g] /\ Target(g)' = Target(g)
        /\ \A s \in Sides : Left(g, s)' = Left(g, s)
    BY DEF OthersKeep, Target, Left, Remaining, MatchQuantity, Matched
  <2>2. CopiesAccountedFor(g)
    BY DEF QuantityInv
  <2> SUFFICES ASSUME NEW o \in Orders
               PROVE  /\ \A s \in Sides : call'[g].top[s].orderId = o /\ call'[g].top[s].status # "unread" =>
                           Left(g, s)' + Traded(o)' >= placed'[o].quantity
                      /\ pc'[g] \in {"removeOrder", "saveStatus", "saveUpdate"} /\ Target(g)' = o =>
                           call'[g].read.quantity + Traded(o)' >= placed'[o].quantity
    BY DEF CopiesAccountedFor
  <2>3. ASSUME NEW s \in Sides, call[g].top[s].orderId = o, call[g].top[s].status # "unread"
        PROVE  Left(g, s) + Traded(o)' >= placed'[o].quantity
    <3>1. order[o] # NoOrder /\ Left(g, s) \in Int
      BY <2>3, CopiesTyped
    <3>2. Left(g, s) + Traded(o) >= placed[o].quantity
      BY <2>2, <2>3 DEF CopiesAccountedFor
    <3> QED
      BY <3>1, <3>2, StaysEnough
  <2>4. ASSUME pc[g] \in {"removeOrder", "saveStatus", "saveUpdate"}, Target(g) = o
        PROVE  call[g].read.quantity + Traded(o)' >= placed'[o].quantity
    <3>1. order[o] # NoOrder /\ call[g].read.quantity \in Int
      BY <2>4, CopiesTyped
    <3>2. call[g].read.quantity + Traded(o) >= placed[o].quantity
      BY <2>2, <2>4 DEF CopiesAccountedFor
    <3> QED
      BY <3>1, <3>2, StaysEnough
  <2> QED
    BY <2>1, <2>3, <2>4
<1> QED
  BY <1>1, <1>2 DEF QuantityInv

\* The hashes, as long as they are what they were.
LEMMA HashesKept ==
  ASSUME IInv, IInv', QuantityInv, NEW h \in Handlers, Request(h) \/ Run(h) \/ Fail(h),
         order' = order
  PROVE  QuantityAccountedFor'
<1> SUFFICES ASSUME NEW o \in Orders, order[o] # NoOrder
             PROVE  order[o].quantity + Traded(o)' >= placed'[o].quantity
  BY DEF QuantityAccountedFor
<1>1. order[o].quantity + Traded(o) >= placed[o].quantity
  BY DEF QuantityInv, QuantityAccountedFor
<1>2. order[o].quantity \in Int
  BY DEF IInv, TypeInv, TypeOK, OrderType, Quantities
<1> QED
  BY <1>1, <1>2, NextOthers, StaysEnough

\* A quantity that is not too little to be what is left of an order.
Enough(o, quantity) ==
  order[o] # NoOrder /\ quantity \in Int /\ quantity + Traded(o) >= placed[o].quantity

\* The hashes say enough.
LEMMA HashIsEnough ==
  ASSUME IInv, QuantityInv, NEW o \in Orders, order[o] # NoOrder
  PROVE  Enough(o, order[o].quantity)
<1>1. order[o].quantity \in Int
  BY DEF IInv, TypeInv, TypeOK, OrderType, Quantities
<1> QED
  BY <1>1 DEF Enough, QuantityInv, QuantityAccountedFor

\* And so do the copies that handlers hold.
LEMMA CopiesAreEnough ==
  ASSUME IInv, QuantityInv, NEW h \in Handlers
  PROVE  /\ \A s \in Sides : call[h].top[s].status # "unread" => Enough(call[h].top[s].orderId, Left(h, s))
         /\ pc[h] \in {"removeOrder", "saveStatus", "saveUpdate"} => Enough(Target(h), call[h].read.quantity)
  BY CopiesTyped DEF QuantityInv, CopiesAccountedFor, Enough

\* So it is enough that each copy after the step is as it was, or of a hash.
LEMMA QuantityMoves ==
  ASSUME IInv, IInv', QuantityInv, NEW h \in Handlers, Request(h) \/ Run(h) \/ Fail(h),
         QuantityAccountedFor',
         \A s \in Sides : call'[h].top[s].status # "unread" => Enough(call'[h].top[s].orderId, Left(h, s)'),
         pc'[h] \in {"removeOrder", "saveStatus", "saveUpdate"} => Enough(Target(h)', call'[h].read.quantity)
  PROVE  QuantityInv'
<1>1. OthersKeep(h)
  BY NextOthers
<1>2. CopiesAccountedFor(h)'
  <2> SUFFICES ASSUME NEW o \in Orders
               PROVE  /\ \A s \in Sides : call'[h].top[s].orderId = o /\ call'[h].top[s].status # "unread" =>
                           Left(h, s)' + Traded(o)' >= placed'[o].quantity
                      /\ pc'[h] \in {"removeOrder", "saveStatus", "saveUpdate"} /\ Target(h)' = o =>
                           call'[h].read.quantity + Traded(o)' >= placed'[o].quantity
    BY DEF CopiesAccountedFor
  <2>1. ASSUME NEW quantity, Enough(o, quantity)
        PROVE  quantity + Traded(o)' >= placed'[o].quantity
    BY <1>1, <2>1, StaysEnough DEF Enough
  <2> QED
    BY <2>1
<1> QED
  BY <1>1, <1>2, QuantityStep

\* The steps of a handler that has made no trade, and holds no order to write back.
LEMMA QuantityUnmatched ==
  ASSUME IInv, IInv', QuantityInv, NEW h \in Handlers, Request(h) \/ Run(h) \/ Fail(h),
         QuantityAccountedFor', ~Matched(h)',
         \A s \in Sides :
           \/ call'[h].top[s].status = "unread"
           \/ ~Matched(h) /\ call'[h].top[s] = call[h].top[s]
           \/ /\ call'[h].top[s].orderId \in Orders
              /\ order[call'[h].top[s].orderId] # NoOrder
              /\ call'[h].top[s].quantity = order[call'[h].top[s].orderId].quantity,
         pc'[h] \notin {"removeOrder", "saveStatus", "saveUpdate"}
  PROVE  QuantityInv'
<1>1. ASSUME NEW s \in Sides, call'[h].top[s].status # "unread"
      PROVE  Enough(call'[h].top[s].orderId, Left(h, s)')
  <2>1. Left(h, s)' = call'[h].top[s].quantity
    BY DEF Left
  <2>2. CASE ~Matched(h) /\ call'[h].top[s] = call[h].top[s]
    <3>1. Left(h, s)' = Left(h, s)
      BY <2>1, <2>2 DEF Left
    <3> QED
      BY <1>1, <2>2, <3>1, CopiesAreEnough
  <2>3. CASE /\ call'[h].top[s].orderId \in Orders
             /\ order[call'[h].top[s].orderId] # NoOrder
             /\ call'[h].top[s].quantity = order[call'[h].top[s].orderId].quantity
    BY <2>1, <2>3, HashIsEnough
  <2> QED
    BY <1>1, <2>2, <2>3
<1> QED
  BY <1>1, QuantityMoves

\* The steps that settle an order: they keep what they were given.
LEMMA QuantitySettles ==
  ASSUME IInv, IInv', QuantityInv, NEW h \in Handlers, Request(h) \/ Run(h) \/ Fail(h),
         QuantityAccountedFor', Matched(h)' = Matched(h), call'[h].top = call[h].top,
         pc'[h] \in {"removeOrder", "saveStatus", "saveUpdate"} => Enough(Target(h)', call'[h].read.quantity)
  PROVE  QuantityInv'
<1>1. \A s \in Sides : Left(h, s)' = Left(h, s)
  BY DEF Left, Remaining, MatchQuantity
<1>2. \A s \in Sides : call'[h].top[s].status # "unread" => Enough(call'[h].top[s].orderId, Left(h, s)')
  BY <1>1, CopiesAreEnough
<1> QED
  BY <1>2, QuantityMoves

\* The commands of matchTopOrders before its trade.
LEMMA QuantityRank ==
  ASSUME IInv, IInv', QuantityInv, NEW h \in Handlers, RankBids(h) \/ RankAsks(h)
  PROVE  QuantityInv'
<1>1. ~Matched(h) /\ ~Matched(h)'
  BY MatchingKeeps DEF RankBids, RankAsks, Matching, Matched, IInv, TypeInv, FrameOK, EventOK
<1>2. QuantityAccountedFor'
  BY HashesKept DEF Run, RankBids, RankAsks, redis
<1>3. \A s \in Sides : call'[h].top[s].status = "unread" \/ call'[h].top[s] = call[h].top[s]
  BY MatchingKeeps, RankedType DEF IInv
<1>4. pc'[h] \notin {"removeOrder", "saveStatus", "saveUpdate"}
  BY MatchingKeeps DEF IInv
<1> QED
  BY <1>1, <1>2, <1>3, <1>4, QuantityUnmatched DEF Run

\* A handler that is done, or has failed, holds nothing.
LEMMA QuantityReset ==
  ASSUME IInv, IInv', QuantityInv, NEW h \in Handlers, Request(h) \/ Run(h) \/ Fail(h),
         order' = order, pc'[h] = "idle"
  PROVE  QuantityInv'
<1>1. call'[h] = NoCall
  BY DEF IInv, TypeInv, FrameOK, EventOK
<1>2. ~Matched(h)' /\ \A s \in Sides : call'[h].top[s].status = "unread"
  BY <1>1, NoCallFields DEF Matched
<1> QED
  BY <1>2, HashesKept, QuantityUnmatched

\* A read of a top order copies what its hash says.
LEMMA QuantityRead ==
  ASSUME IInv, IInv', QuantityInv, NEW h \in Handlers, ReadBid(h) \/ ReadAsk(h)
  PROVE  QuantityInv'
<1>1. PICK s \in Sides : /\ ReadRanked(h, s)
                         /\ pc[h] = IF s = "BUY" THEN "readBid" ELSE "readAsk"
  BY DEF ReadBid, ReadAsk, Sides
<1> DEFINE stored == order[call[h].top[s].orderId]
           top == [call[h].top EXCEPT ![s].quantity = stored.quantity, ![s].status = stored.status]
<1>2. TypeInv /\ TopOK(h) /\ EventOK(h) /\ pc[h] \in Matching /\ order' = order
  BY <1>1 DEF IInv, TypeInv, FrameOK, Matching, ReadRanked, redis
<1>3. CASE stored = NoOrder
  BY <1>1, <1>2, <1>3, QuantityReset DEF ReadRanked, Throws, Sends, TypeInv, TypeOK, Run
<1>4. CASE stored # NoOrder
  <2>1. call[h] \in CallType /\ call[h].top \in [Sides -> EntryType \cup {NoEntry}]
    BY <1>2 DEF TypeInv, TypeOK, CallType
  <2>2. call[h].top[s] \in EntryType /\ call[h].top[s] # NoEntry
    BY <1>1, <1>2, <2>1 DEF TopOK, Sides
  <2>3. /\ top[s].orderId = call[h].top[s].orderId /\ top[s].quantity = stored.quantity
        /\ top[s].orderId \in Orders
        /\ \A t \in Sides \ {s} : top[t] = call[h].top[t]
    BY <2>1, <2>2 DEF EntryType
  <2>4. call' = [call EXCEPT ![h].top = top]
    BY <1>1, <1>4 DEF ReadRanked
  <2>5. pc'[h] \notin {"removeOrder", "saveStatus", "saveUpdate"}
    BY <1>1, <1>2, <1>4 DEF ReadRanked, AfterReads, Sends, TypeInv, TypeOK
  <2> HIDE DEF top
  <2>6. call'[h].top = top /\ call'[h].settling = call[h].settling
    BY <1>2, <2>1, <2>4 DEF TypeInv, TypeOK, CallType
  <2>7. ~Matched(h) /\ ~Matched(h)'
    BY <1>2, <2>6 DEF EventOK, Matched
  <2>8. \A t \in Sides :
          \/ call'[h].top[t] = call[h].top[t]
          \/ /\ call'[h].top[t].orderId \in Orders
             /\ order[call'[h].top[t].orderId] # NoOrder
             /\ call'[h].top[t].quantity = order[call'[h].top[t].orderId].quantity
    BY <1>4, <2>3, <2>6
  <2> HIDE DEF stored
  <2>9. Run(h) /\ QuantityAccountedFor'
    BY <1>2, HashesKept DEF Run
  <2> QED
    BY <2>5, <2>7, <2>8, <2>9, QuantityUnmatched
<1> QED
  BY <1>3, <1>4

\* A request begins with what an idle handler holds, which is nothing.
LEMMA QuantityRequest ==
  ASSUME IInv, IInv', QuantityInv, NEW h \in Handlers, Request(h)
  PROVE  QuantityInv'
<1>1. pc[h] = "idle" /\ order' = order /\ pc'[h] \notin {"removeOrder", "saveStatus", "saveUpdate"}
  BY DEF Request, RequestCreate, RequestMatch, RequestCancel, RequestFill, redis, Sends, IInv, TypeInv, TypeOK
<1>2. ~Matched(h)
  BY <1>1, NoCallFields DEF IInv, TypeInv, FrameOK, EventOK, Matched
<1>3. call'[h].settling = call[h].settling /\ call'[h].top = call[h].top
  BY DEF Request, RequestCreate, RequestMatch, RequestCancel, RequestFill, IInv, TypeInv, TypeOK, CallType
<1>4. ~Matched(h)'
  BY <1>2, <1>3 DEF Matched
<1> QED
  BY <1>1, <1>2, <1>3, <1>4, HashesKept, QuantityUnmatched

\* A resting order that looks for its price, and its way into the book.
LEMMA QuantityPrice ==
  ASSUME IInv, IInv', QuantityInv, NEW h \in Handlers,
         RankOpposite(h) \/ ReadOpposite(h) \/ ReadLastTrade(h) \/ AddToBook(h)
  PROVE  QuantityInv'
<1>1. /\ call[h] \in CallType /\ order' = order /\ ~Matched(h) /\ TypeInv /\ Run(h)
      /\ pc[h] \in Adding
  BY DEF RankOpposite, ReadOpposite, ReadLastTrade, AddToBook, Run, Adding, redis, IInv, TypeInv, TypeOK,
     FrameOK, EventOK
<1>2. ASSUME pc'[h] = "idle"
      PROVE  QuantityInv'
  BY <1>1, <1>2, QuantityReset
<1>3. ASSUME /\ call'[h].settling = call[h].settling
             /\ \A s \in Sides : call'[h].top[s] = call[h].top[s] \/ call'[h].top[s].status = "unread"
             /\ pc'[h] \notin {"removeOrder", "saveStatus", "saveUpdate"}
      PROVE  QuantityInv'
  <2>1. ~Matched(h)'
    BY <1>1, <1>3 DEF Matched
  <2> QED
    BY <1>1, <1>3, <2>1, HashesKept, QuantityUnmatched
<1>4. CASE RankOpposite(h)
  <2> PICK side : side = Opposite(placed[call[h].subject].side)
    OBVIOUS
  <2>1. side \in Sides
    BY <1>1, CreatorType
  <2>2. CASE UNCHANGED call /\ Sends(h, "readLastTrade")
    BY <1>1, <1>3, <2>2 DEF Sends, TypeInv, TypeOK
  <2>3. ASSUME NEW o \in Orders, IsTop(side, o), Sends(h, "readOpposite"),
               call' = [call EXCEPT ![h].top = [@ EXCEPT ![side] = Ranked(side, o)]]
        PROVE  QuantityInv'
    <3> DEFINE top == [call[h].top EXCEPT ![side] = Ranked(side, o)]
    <3>1. /\ top \in [Sides -> EntryType \cup {NoEntry}]
          /\ top[side].status = "unread"
          /\ \A t \in Sides \ {side} : top[t] = call[h].top[t]
      BY <1>1, <2>1, <2>3, RankedTop
    <3>2. call' = [call EXCEPT ![h].top = top]
      BY <2>3
    <3> HIDE DEF top
    <3>3. call'[h].settling = call[h].settling /\ call'[h].top = top
      BY <1>1, <3>1, <3>2, SetTop DEF TypeInv
    <3> QED
      BY <1>1, <1>3, <2>3, <3>1, <3>3 DEF Sends, TypeInv, TypeOK
  <2> QED
    BY <1>4, <2>2, <2>3 DEF RankOpposite
<1>5. CASE ReadOpposite(h)
  <2>1. CASE Throws(h)
    BY <1>1, <1>2, <2>1 DEF Throws, Sends, TypeInv, TypeOK
  <2>2. CASE ~Throws(h)
    <3>1. PICK price : call' = [call EXCEPT ![h].price = price, ![h].top = NoCall.top]
                       /\ Sends(h, "addToBook")
      BY <1>5, <2>2 DEF ReadOpposite
    <3>2. call'[h].settling = call[h].settling /\ call'[h].top = NoCall.top
      BY <1>1, <3>1 DEF TypeInv, TypeOK, CallType
    <3> QED
      BY <1>1, <1>3, <3>1, <3>2, NoCallFields DEF Sends, TypeInv, TypeOK
  <2> QED
    BY <2>1, <2>2
<1>6. CASE ReadLastTrade(h) \/ AddToBook(h)
  <2>1. PICK price : call' = [call EXCEPT ![h].price = price] \/ call' = call
    BY <1>6 DEF ReadLastTrade, AddToBook
  <2>2. call'[h].settling = call[h].settling /\ call'[h].top = call[h].top
    BY <1>1, <2>1 DEF TypeInv, TypeOK, CallType
  <2> QED
    BY <1>1, <1>3, <1>6, <2>2 DEF ReadLastTrade, AddToBook, Sends, TypeInv, TypeOK
<1> QED
  BY <1>4, <1>5, <1>6

\* A hash that is written with enough is as good as the one it replaces.
LEMMA HashWritten ==
  ASSUME IInv, IInv', QuantityInv, NEW h \in Handlers, Request(h) \/ Run(h) \/ Fail(h),
         NEW p \in Orders, NEW new, order' = [order EXCEPT ![p] = new],
         new.quantity \in Int, placed[p] # NoOrder, new.quantity + Traded(p) >= placed[p].quantity
  PROVE  QuantityAccountedFor'
<1>1. order'[p] = new /\ \A o \in Orders \ {p} : order'[o] = order[o]
  BY DEF IInv, TypeInv, TypeOK
<1> SUFFICES ASSUME NEW o \in Orders, order'[o] # NoOrder
             PROVE  order'[o].quantity + Traded(o)' >= placed'[o].quantity
  BY DEF QuantityAccountedFor
<1>2. CASE o = p
  <2>1. placed'[p] = placed[p] /\ placed[p].quantity \in Int
    BY NextOthers DEF OthersKeep, IInv, TypeInv, TypeOK, OrderType, Quantities
  <2>2. Traded(p) \in Int /\ Traded(p)' \in Int /\ Traded(p)' >= Traded(p)
    BY TradedGrows DEF IInv
  <2> QED
    BY <1>1, <1>2, <2>1, <2>2
<1>3. CASE o # p
  <2>1. Enough(o, order[o].quantity)
    BY <1>1, <1>3, HashIsEnough
  <2> QED
    BY <1>1, <1>3, <2>1, NextOthers, StaysEnough DEF Enough
<1> QED
  BY <1>2, <1>3

\* addOrder writes the Order object as it was built.
LEMMA QuantitySaveOrder ==
  ASSUME IInv, IInv', QuantityInv, NEW h \in Handlers, SaveOrder(h)
  PROVE  QuantityInv'
<1> PICK p : p = call[h].subject
  OBVIOUS
<1>1. call[h] \in CallType /\ Run(h) /\ ~Matched(h) /\ TypeInv
  BY DEF SaveOrder, Run, Adding, IInv, TypeInv, TypeOK, FrameOK, EventOK
<1>2. p \in Orders /\ placed[p] \in OrderType /\ placed[p] # NoOrder
  BY <1>1, CreatorType, NoOrderAssumption DEF SaveOrder, Adding
<1>3. placed[p].quantity \in Int /\ Traded(p) \in Int /\ Traded(p) >= 0
  BY <1>2, TradedIsSum DEF IInv, TypeInv, OrderType, Quantities, QuantityInv
<1>4. QuantityAccountedFor'
  <2>1. order' = [order EXCEPT ![p] = placed[p]]
    BY DEF SaveOrder
  <2>2. placed[p].quantity + Traded(p) >= placed[p].quantity
    BY <1>3
  <2> QED
    BY <1>1, <1>2, <1>3, <2>1, <2>2, HashWritten
<1>5. /\ call'[h].settling = call[h].settling
      /\ call'[h].top = call[h].top \/ call'[h].top = NoCall.top
      /\ pc'[h] \notin {"removeOrder", "saveStatus", "saveUpdate"}
  BY <1>1 DEF SaveOrder, Sends, TypeInv, TypeOK, CallType
<1>6. ~Matched(h)'
  BY <1>1, <1>5 DEF Matched
<1> QED
  BY <1>1, <1>4, <1>5, <1>6, NoCallFields, QuantityUnmatched

\* storeTrade: what the trade takes from the two copies it adds to what they traded.
LEMMA QuantityStoreTrade ==
  ASSUME IInv, IInv', QuantityInv, NEW h \in Handlers, StoreTrade(h)
  PROVE  QuantityInv'
<1>1. /\ order' = order /\ placed' = placed /\ pc[h] = "storeTrade" /\ Run(h) /\ TypeInv
      /\ call[h] \in CallType /\ call' = [call EXCEPT ![h].settling = "BUY"]
      /\ pc'[h] \notin {"removeOrder", "saveStatus", "saveUpdate"}
  BY DEF StoreTrade, Run, Sends, Settle, IInv, TypeInv, TypeOK
<1>2. ~Matched(h) /\ Matched(h)' /\ call'[h].top = call[h].top
  BY <1>1 DEF TypeInv, TypeOK, FrameOK, EventOK, Matching, CallType, Matched
<1>3. \A s \in Sides : Left(h, s)' = Remaining(h, s) /\ Left(h, s) = call[h].top[s].quantity
  BY <1>2 DEF Left, Remaining, MatchQuantity
<1>4. CopiesAccountedFor(h)'
  <2> SUFFICES ASSUME NEW o \in Orders, NEW s \in Sides, call[h].top[s].orderId = o,
                      call[h].top[s].status # "unread"
               PROVE  Remaining(h, s) + Traded(o)' >= placed[o].quantity
    BY <1>1, <1>2, <1>3 DEF CopiesAccountedFor
  <2>1. Enough(o, call[h].top[s].quantity)
    BY <1>3, CopiesAreEnough
  <2>2. Traded(o)' = Traded(o) + MatchQuantity(h) /\ Traded(o) \in Int
    BY <1>1, TradedGrows DEF IInv
  <2>3. MatchQuantity(h) \in Int /\ placed[o].quantity \in Int
    <3>1. MatchQuantity(h) \in Int
      BY <1>1, MatchArithmetic DEF Quantities
    <3>2. placed[o].quantity \in Int
      BY <2>1, StoredIsPlaced, LifeIsStored DEF Enough, IInv, OrderType, Quantities
    <3> QED
      BY <3>1, <3>2
  <2> QED
    BY <2>1, <2>2, <2>3 DEF Enough, Remaining
<1> QED
  BY <1>1, <1>4, NextOthers, HashesKept, QuantityStep

\* What settles an order without writing it.
LEMMA QuantityTarget ==
  ASSUME IInv, IInv', QuantityInv, NEW h \in Handlers,
         CheckOpen(h) \/ ReadForStatus(h) \/ ReadForUpdate(h) \/ RemoveOrder(h)
  PROVE  QuantityInv'
<1>1. /\ order' = order /\ Run(h) /\ TypeInv /\ pc[h] \in Changing /\ call[h] \in CallType
  BY DEF CheckOpen, ReadForStatus, ReadForUpdate, RemoveOrder, Run, redis, Changing, IInv, TypeInv, TypeOK
<1>2. QuantityAccountedFor'
  BY <1>1, HashesKept
<1>3. CASE Continue(h)
  BY <1>1, <1>2, <1>3, ContinueKeeps, QuantitySettles
<1>4. CASE call' = call /\ pc'[h] \notin {"removeOrder", "saveStatus", "saveUpdate"}
  BY <1>1, <1>2, <1>4, QuantitySettles DEF Matched
<1>5. CASE RemoveOrder(h)
  <2>1. call' = call /\ pc[h] = "removeOrder" /\ Target(h)' = Target(h)
    BY <1>5 DEF RemoveOrder, Target
  <2> QED
    BY <1>1, <1>2, <2>1, CopiesAreEnough, QuantitySettles DEF Matched
<1>6. ASSUME NEW read, call' = [call EXCEPT ![h].read = read], order[Target(h)] # NoOrder,
             Enough(Target(h), read.quantity)
      PROVE  QuantityInv'
  <2>1. /\ call'[h].event = call[h].event /\ call'[h].subject = call[h].subject
        /\ call'[h].settling = call[h].settling /\ call'[h].top = call[h].top
        /\ call'[h].read = read
    BY <1>1, <1>6, SetRead DEF TypeInv, TypeOK, CallType
  <2>2. Target(h)' = Target(h) /\ Matched(h)' = Matched(h)
    BY <2>1 DEF Target, Matched
  <2> QED
    BY <1>1, <1>2, <1>6, <2>1, <2>2, QuantitySettles
<1>7. CASE ReadForStatus(h) /\ order[Target(h)] # NoOrder
  <2> DEFINE status == IF call[h].event = "cancelOrder" THEN "CANCELLED" ELSE "FILLED"
             read == [order[Target(h)] EXCEPT !.status = status]
  <2>1. Target(h) \in Orders /\ order[Target(h)] \in OrderType
    BY <1>1, <1>7, TargetType DEF TypeInv, TypeOK
  <2>2. read.quantity = order[Target(h)].quantity
    BY <2>1 DEF OrderType
  <2>3. call' = [call EXCEPT ![h].read = read]
    BY <1>7 DEF ReadForStatus
  <2> HIDE DEF read
  <2> QED
    BY <1>6, <1>7, <2>1, <2>2, <2>3, HashIsEnough
<1>8. CASE ReadForUpdate(h) /\ order[Target(h)] # NoOrder
  <2> DEFINE s == call[h].settling
             read == [order[Target(h)] EXCEPT !.quantity = Remaining(h, s)]
  <2>1. Target(h) \in Orders /\ order[Target(h)] \in OrderType
    BY <1>1, <1>8, TargetType DEF TypeInv, TypeOK
  <2>2. read.quantity = Remaining(h, s)
    BY <2>1 DEF OrderType
  <2>3. call' = [call EXCEPT ![h].read = read]
    BY <1>8 DEF ReadForUpdate
  <2>4. Matched(h) /\ s \in Sides /\ Target(h) = call[h].top[s].orderId /\ call[h].top[s].status # "unread"
    <3>1. Matched(h) /\ (call[h].event \in {"createOrder", "matchTopOrders"} <=> Matched(h))
      BY <1>1, <1>8 DEF ReadForUpdate, TypeInv, FrameOK, TopOK, EventOK
    <3>2. s \in Sides /\ Target(h) = call[h].top[s].orderId
      BY <1>1, <3>1 DEF Matched, Target, CallType
    <3> QED
      BY <1>1, <3>1, <3>2 DEF TypeInv, FrameOK, TopOK, Crosses, Sides
  <2>5. Left(h, s) = Remaining(h, s)
    BY <2>4 DEF Left
  <2> HIDE DEF read, s
  <2> QED
    BY <1>6, <1>8, <2>2, <2>3, <2>4, <2>5, CopiesAreEnough
<1>9. CASE CheckOpen(h) /\ ~Continue(h)
  BY <1>1, <1>4, <1>9 DEF CheckOpen, Sends, TypeInv, TypeOK
<1>10. CASE order[Target(h)] = NoOrder /\ ~Continue(h) /\ (ReadForStatus(h) \/ ReadForUpdate(h))
  BY <1>1, <1>4, <1>10 DEF ReadForStatus, ReadForUpdate, Sends, TypeInv, TypeOK
<1> QED
  BY <1>3, <1>5, <1>7, <1>8, <1>9, <1>10

\* HSET of a copy: it is not too little either.
LEMMA QuantitySave ==
  ASSUME IInv, IInv', QuantityInv, NEW h \in Handlers, SaveStatus(h) \/ SaveUpdate(h)
  PROVE  QuantityInv'
<1> PICK p : p = Target(h)
  OBVIOUS
<1>1. /\ order' = [order EXCEPT ![p] = call[h].read] /\ Continue(h) /\ Run(h) /\ TypeInv
      /\ pc[h] \in {"saveStatus", "saveUpdate"}
  BY DEF SaveStatus, SaveUpdate, Run, IInv
<1>2. p \in Orders /\ placed[p] # NoOrder
  BY <1>1, CopyIsStored, LifeIsStored DEF IInv
<1>3. Enough(p, call[h].read.quantity)
  BY <1>1, CopiesAreEnough
<1>4. QuantityAccountedFor'
  BY <1>1, <1>2, <1>3, HashWritten DEF Enough
<1> QED
  BY <1>1, <1>4, ContinueKeeps, QuantitySettles

\* Every command is one of these.
LEMMA QuantityNext == IInv /\ IInv' /\ QuantityInv /\ [Next]_vars => QuantityInv'
<1> SUFFICES ASSUME IInv, IInv', QuantityInv, [Next]_vars PROVE QuantityInv'
  OBVIOUS
<1>1. CASE UNCHANGED vars
  <2>1. \A o : Traded(o)' = Traded(o)
    BY <1>1, TradedIsSum, TradedIsSumNext DEF vars, IInv, TypeInv
  <2>2. \A h \in Handlers : Target(h)' = Target(h) /\ \A s \in Sides : Left(h, s)' = Left(h, s)
    BY <1>1 DEF vars, Target, Left, Remaining, MatchQuantity, Matched
  <2> QED
    BY <1>1, <2>1, <2>2 DEF vars, QuantityInv, QuantityAccountedFor, CopiesAccountedFor
<1>2. ASSUME NEW h \in Handlers, Request(h) \/ Run(h) \/ Fail(h)
      PROVE  QuantityInv'
  <2>1. CASE Request(h)
    BY <2>1, QuantityRequest
  <2>2. CASE RankBids(h) \/ RankAsks(h) \/ ReadBid(h) \/ ReadAsk(h) \/ StoreTrade(h)
    BY <2>2, QuantityRank, QuantityRead, QuantityStoreTrade
  <2>3. CASE CheckOpen(h) \/ ReadForStatus(h) \/ RemoveOrder(h) \/ SaveStatus(h) \/ ReadForUpdate(h) \/ SaveUpdate(h)
    BY <2>3, QuantityTarget, QuantitySave
  <2>4. CASE SaveOrder(h) \/ RankOpposite(h) \/ ReadOpposite(h) \/ ReadLastTrade(h) \/ AddToBook(h)
    BY <2>4, QuantitySaveOrder, QuantityPrice
  <2>5. CASE Respond(h) \/ RespondError(h) \/ Fail(h)
    <3>1. order' = order /\ pc'[h] = "idle"
      BY <2>5 DEF Respond, RespondError, Fail, Throws, Sends, redis, IInv, TypeInv, TypeOK
    <3> QED
      BY <1>2, <3>1, QuantityReset
  <2> QED
    BY <1>2, <2>1, <2>2, <2>3, <2>4, <2>5 DEF Run
<1> QED
  BY <1>1, <1>2 DEF Next

\* However the handlers interleave and wherever they fail, what the hash of an order says
\* and what the order has traded never come to less than what was ordered: createOrder,
\* updateOrder and setOrderStatus take no quantity that storeTrade has not accounted for.
THEOREM QuantityAlwaysAccounted == Spec => []QuantityAccountedFor
<1>1. Init => QuantityInv
  <2> SUFFICES ASSUME Init PROVE QuantityInv
    OBVIOUS
  <2>1. TypeOK /\ trades = <<>>
    BY TypeInvInit DEF Init, TypeInv
  <2>2. \A o \in Orders : order[o] = NoOrder
    BY DEF Init
  <2>3. ASSUME NEW o \in Orders PROVE Traded(o) = 0
    <3>1. Places(trades, o) = {}
      BY <2>1 DEF Places
    <3>2. Sum(trades, Places(trades, o)) = 0
      BY <2>1, <3>1, PlacesSummable, SumIn DEF TypeOK
    <3> QED
      BY <2>1, <3>2, TradedIsSum
  <2>4. ASSUME NEW h \in Handlers PROVE CopiesAccountedFor(h)
    <3>1. pc[h] = "idle" /\ \A s \in Sides : call[h].top[s].status = "unread"
      BY NoCallFields DEF Init
    <3> QED
      BY <3>1 DEF CopiesAccountedFor
  <2> QED
    BY <2>2, <2>3, <2>4 DEF QuantityInv, QuantityAccountedFor
<1>2. QuantityInv => QuantityAccountedFor
  BY DEF QuantityInv
<1> QED
  BY <1>1, <1>2, InvariantAlways, QuantityNext, PTL DEF Spec
=============================================================================
