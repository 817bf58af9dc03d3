--------------------------- MODULE PreflightProofs ---------------------------
(***************************************************************************)
(* Proofs about Preflight, for any number of calls, operations and rounds, *)
(* any cache capacity, any margins and whatever the simulations return.    *)
(***************************************************************************)
EXTENDS Preflight, SequenceTheorems, TLAPS

-----------------------------------------------------------------------------
(* Arithmetic of the margins and of the leeway *)

LEMMA CeilDivType ==
  ASSUME NEW a \in Nat
  PROVE  CeilDiv(a, 100) \in Nat
BY DEF CeilDiv

LEMMA ProductType ==
  ASSUME NEW a \in Nat, NEW b \in Nat
  PROVE  a * b \in Nat
OBVIOUS

LEMMA PaddedType ==
  ASSUME NEW v \in Nat, NEW m \in Nat
  PROVE  Padded(v, m) \in Nat
<1>1. v * (100 + m) \in Nat
  BY ProductType
<1> QED
  BY <1>1, CeilDivType DEF Padded

LEMMA FloatCeilType ==
  ASSUME NEW x \in Nat, NEW p \in Nat
  PROVE  FloatCeil(x, p) \subseteq Nat
<1> DEFINE a == x * p
<1>1. a \in Nat
  BY ProductType
<1> HIDE DEF a
<1>2. CeilDiv(a, 100) \in Nat /\ (a \div 100) + 1 \in Nat
  BY <1>1, CeilDivType
<1> QED
  BY <1>2 DEF FloatCeil, a

LEMMA NextLeewayType ==
  ASSUME NEW n \in Nat, NEW used \in Nat, NEW first \in BOOLEAN
  PROVE  NextLeeway(n, used, first) \subseteq Nat
BY FloatCeilType DEF NextLeeway, MinFraction, MaxFraction

\* A leeway between the two fractions of n instructions.
AboveMin(l, n) == 100 * l >= MinFraction * n
BelowMax(l, n) == 100 * l <= MaxFraction * n

\* One round raises a leeway that is too low, and any later round brings one
\* that is too high down into the window; a leeway in the window stays.
LEMMA LeewayMoves ==
  ASSUME NEW n \in Nat, n >= 2, NEW used \in Nat, NEW first \in BOOLEAN,
         NEW l \in NextLeeway(n, used, first)
  PROVE  /\ AboveMin(l, n)
         /\ AboveMin(used, n) /\ ~ first => BelowMax(l, n)
<1> USE DEF MinFraction, MaxFraction, AboveMin, BelowMax
<1>1. CASE 100 * used < 10 * n
  <2>1. l = CeilDiv(n * 50, 100)
    BY <1>1 DEF NextLeeway, FloatCeil
  <2> QED
    BY <1>1, <2>1 DEF CeilDiv
<1>2. CASE 100 * used > 50 * n /\ ~ first
  <2>1. l \in FloatCeil(n, 10)
    BY <1>2 DEF NextLeeway
  <2>2. \/ l = (n * 10 + 99) \div 100
        \/ (n * 10) % 100 = 0 /\ l = (n * 10) \div 100 + 1
    BY <2>1 DEF FloatCeil, CeilDiv
  <2> QED
    BY <2>2
<1>3. CASE ~ (100 * used < 10 * n) /\ ~ (100 * used > 50 * n /\ ~ first)
  BY <1>3 DEF NextLeeway
<1> QED
  BY <1>1, <1>2, <1>3

-----------------------------------------------------------------------------
(* The sequence operations of the cache *)

LEMMA RemoveAtProperties ==
  ASSUME NEW S, NEW s \in Seq(S), NEW i \in 1 .. Len(s)
  PROVE  /\ RemoveAt(s, i) \in Seq(S)
         /\ Len(RemoveAt(s, i)) = Len(s) - 1
         /\ \A j \in 1 .. Len(s) - 1 :
              RemoveAt(s, i)[j] = s[IF j < i THEN j ELSE j + 1]
<1> DEFINE before == SubSeq(s, 1, i - 1)
           after  == SubSeq(s, i + 1, Len(s))
<1>1. /\ before \in Seq(S)
      /\ Len(before) = i - 1
      /\ \A j \in 1 .. i - 1 : before[j] = s[j]
  BY SubSeqProperties
<1>2. /\ after \in Seq(S)
      /\ Len(after) = Len(s) - i
      /\ \A j \in 1 .. Len(s) - i : after[j] = s[i + j]
  BY SubSeqProperties
<1>3. RemoveAt(s, i) = before \o after
  BY DEF RemoveAt
<1> HIDE DEF before, after
<1>4. /\ before \o after \in Seq(S)
      /\ Len(before \o after) = Len(s) - 1
      /\ \A j \in 1 .. Len(s) - 1 :
           (before \o after)[j] =
             IF j <= i - 1 THEN before[j] ELSE after[j - (i - 1)]
  BY <1>1, <1>2, ConcatProperties
<1>5. ASSUME NEW j \in 1 .. Len(s) - 1
      PROVE  (before \o after)[j] = s[IF j < i THEN j ELSE j + 1]
  <2>1. CASE j < i
    BY <1>1, <1>4, <2>1
  <2>2. CASE ~ (j < i)
    <3>1. j - (i - 1) \in 1 .. Len(s) - i
      BY <2>2
    <3>2. after[j - (i - 1)] = s[i + (j - (i - 1))]
      BY <1>2, <3>1
    <3>3. i + (j - (i - 1)) = j + 1 /\ ~ (j <= i - 1)
      BY <2>2
    <3> QED
      BY <1>4, <2>2, <3>2, <3>3
  <2> QED
    BY <2>1, <2>2
<1> QED
  BY <1>3, <1>4, <1>5

LEMMA FrontOfSeq ==
  ASSUME NEW S, NEW s \in Seq(S), Len(s) > 0
  PROVE  /\ Front(s) \in Seq(S)
         /\ Len(Front(s)) = Len(s) - 1
         /\ \A j \in 1 .. Len(s) - 1 : Front(s)[j] = s[j]
<1> DEFINE n == Len(s) - 1
<1>1. n \in Nat /\ \A j \in 1 .. n : s[j] \in S
  OBVIOUS
<1> HIDE DEF n
<1>2. /\ SubSeq(s, 1, n) \in Seq(S)
      /\ Len(SubSeq(s, 1, n)) = IF 1 <= n THEN n - 1 + 1 ELSE 0
      /\ \A j \in 1 .. n - 1 + 1 : SubSeq(s, 1, n)[j] = s[1 + j - 1]
  BY <1>1, SubSeqProperties
<1>3. \A j \in 1 .. n : j \in 1 .. n - 1 + 1 /\ 1 + j - 1 = j
  BY <1>1
<1>4. Len(SubSeq(s, 1, n)) = n
  BY <1>1, <1>2
<1> QED
  BY <1>2, <1>3, <1>4 DEF Front, n

LEMMA PushProperties ==
  ASSUME NEW S, NEW s \in Seq(S), NEW e \in S
  PROVE  /\ <<e>> \o s \in Seq(S)
         /\ Len(<<e>> \o s) = Len(s) + 1
         /\ (<<e>> \o s)[1] = e
         /\ \A j \in 2 .. Len(s) + 1 : (<<e>> \o s)[j] = s[j - 1]
BY ConcatProperties

Entries == [key : Keys, fee : Nat, by : Calls]

\* What the cache always is: entries of different keys, at most Capacity.
CacheOK(s) ==
  /\ s \in Seq(Entries)
  /\ Len(s) <= Capacity
  /\ \A i, j \in 1 .. Len(s) : s[i].key = s[j].key => i = j

\* Every entry of s is e or one of the cache.
OnlyAdds(s, e) ==
  \A i \in 1 .. Len(s) : s[i] = e \/ \E j \in 1 .. Len(cache) : s[i] = cache[j]

LEMMA PushKeepsCacheOK ==
  ASSUME NEW s, CacheOK(s), Len(s) < Capacity, NEW e \in Entries,
         \A i \in 1 .. Len(s) : s[i].key # e.key
  PROVE  CacheOK(<<e>> \o s)
<1> DEFINE t == <<e>> \o s
<1>1. /\ t \in Seq(Entries)
      /\ Len(t) = Len(s) + 1
      /\ t[1] = e
      /\ \A j \in 2 .. Len(t) : t[j] = s[j - 1] /\ j - 1 \in 1 .. Len(s)
  BY PushProperties DEF CacheOK
<1> HIDE DEF t
<1>2. ASSUME NEW i \in 1 .. Len(t), NEW j \in 1 .. Len(t), t[i].key = t[j].key
      PROVE  i = j
  <2>1. CASE i = 1 /\ j = 1
    BY <2>1
  <2>2. CASE i = 1 /\ j # 1
    BY <1>1, <1>2, <2>2
  <2>3. CASE i # 1 /\ j = 1
    BY <1>1, <1>2, <2>3
  <2>4. CASE i # 1 /\ j # 1
    <3>1. /\ i - 1 \in 1 .. Len(s) /\ t[i] = s[i - 1]
          /\ j - 1 \in 1 .. Len(s) /\ t[j] = s[j - 1]
      BY <1>1, <2>4
    <3>2. i - 1 = j - 1
      BY <1>2, <3>1 DEF CacheOK
    <3> QED
      BY <3>2
  <2> QED
    BY <2>1, <2>2, <2>3, <2>4
<1>3. Len(t) <= Capacity
  BY <1>1, PreflightAssumption DEF CacheOK
<1> QED
  BY <1>1, <1>2, <1>3 DEF CacheOK, t

LEMMA PushOnlyAdds ==
  ASSUME NEW s \in Seq(Entries), NEW e \in Entries,
         \A i \in 1 .. Len(s) : \E j \in 1 .. Len(cache) : s[i] = cache[j]
  PROVE  OnlyAdds(<<e>> \o s, e)
<1>1. /\ Len(<<e>> \o s) = Len(s) + 1
      /\ (<<e>> \o s)[1] = e
      /\ \A i \in 2 .. Len(s) + 1 : (<<e>> \o s)[i] = s[i - 1]
  BY PushProperties
<1>2. ASSUME NEW i \in 1 .. Len(s) + 1, i # 1
      PROVE  \E j \in 1 .. Len(cache) : (<<e>> \o s)[i] = cache[j]
  <2>1. i - 1 \in 1 .. Len(s) /\ (<<e>> \o s)[i] = s[i - 1]
    BY <1>1, <1>2
  <2> QED
    BY <2>1
<1> QED
  BY <1>1, <1>2 DEF OnlyAdds

\* The cache without the entry of k.
LEMMA WithoutKey ==
  ASSUME CacheOK(cache), NEW k, Cached(k)
  PROVE  /\ Position(k) \in 1 .. Len(cache)
         /\ cache[Position(k)].key = k
         /\ CacheOK(RemoveAt(cache, Position(k)))
         /\ Len(RemoveAt(cache, Position(k))) = Len(cache) - 1
         /\ \A i \in 1 .. Len(cache) - 1 :
              RemoveAt(cache, Position(k))[i].key # k
         /\ \A i \in 1 .. Len(cache) - 1 :
              \E j \in 1 .. Len(cache) :
                RemoveAt(cache, Position(k))[i] = cache[j]
<1> DEFINE p == Position(k)
           s == RemoveAt(cache, p)
<1>1. p \in 1 .. Len(cache) /\ cache[p].key = k
  BY DEF Cached, Position, CacheOK
<1> HIDE DEF p
<1>2. /\ s \in Seq(Entries) /\ Len(s) = Len(cache) - 1
      /\ \A j \in 1 .. Len(cache) - 1 :
           s[j] = cache[IF j < p THEN j ELSE j + 1]
  BY <1>1, RemoveAtProperties DEF CacheOK
<1> HIDE DEF s
<1> DEFINE at(j) == IF j < p THEN j ELSE j + 1
<1>3. \A j \in 1 .. Len(cache) - 1 : /\ at(j) \in 1 .. Len(cache)
                                     /\ at(j) # p
                                     /\ s[j] = cache[at(j)]
  BY <1>1, <1>2
<1>4. \A i, j \in 1 .. Len(cache) - 1 : at(i) = at(j) => i = j
  BY <1>1
<1> HIDE DEF at
<1>5. \A i \in 1 .. Len(cache) - 1 : s[i].key # k
  BY <1>1, <1>3 DEF CacheOK
<1>6. \A i, j \in 1 .. Len(cache) - 1 : s[i].key = s[j].key => i = j
  BY <1>3, <1>4 DEF CacheOK
<1>7. Len(s) <= Capacity
  BY <1>2, PreflightAssumption DEF CacheOK
<1>8. CacheOK(s)
  BY <1>2, <1>6, <1>7 DEF CacheOK
<1> QED
  BY <1>1, <1>2, <1>3, <1>5, <1>8 DEF s, p

\* A hit only moves an entry to the front.
LEMMA TouchedProperties ==
  ASSUME CacheOK(cache), NEW k, Cached(k)
  PROVE  /\ CacheOK(Touched(k))
         /\ OnlyAdds(Touched(k), cache[Position(k)])
<1> DEFINE e == cache[Position(k)]
           s == RemoveAt(cache, Position(k))
<1>1. /\ e \in Entries /\ e.key = k
      /\ CacheOK(s) /\ Len(s) = Len(cache) - 1
      /\ \A i \in 1 .. Len(s) : /\ s[i].key # k
                                /\ \E j \in 1 .. Len(cache) : s[i] = cache[j]
  BY WithoutKey DEF CacheOK
<1>2. Len(s) < Capacity
  BY <1>1, PreflightAssumption DEF CacheOK
<1> HIDE DEF e, s
<1>3. CacheOK(<<e>> \o s)
  BY <1>1, <1>2, PushKeepsCacheOK
<1>4. OnlyAdds(<<e>> \o s, e)
  BY <1>1, PushOnlyAdds DEF CacheOK
<1> QED
  BY <1>3, <1>4 DEF Touched, e, s

\* A put keeps one entry per key and never exceeds the capacity.
LEMMA PutProperties ==
  ASSUME CacheOK(cache), NEW e \in Entries
  PROVE  CacheOK(WithEntry(e)) /\ OnlyAdds(WithEntry(e), e)
<1> DEFINE s == IF Cached(e.key) THEN RemoveAt(cache, Position(e.key))
                ELSE IF Len(cache) < Capacity THEN cache ELSE Front(cache)
<1>1. /\ CacheOK(s) /\ Len(s) < Capacity
      /\ \A i \in 1 .. Len(s) : /\ s[i].key # e.key
                                /\ \E j \in 1 .. Len(cache) : s[i] = cache[j]
  <2>1. CASE Cached(e.key)
    BY <2>1, WithoutKey, PreflightAssumption DEF CacheOK
  <2>2. CASE ~ Cached(e.key) /\ Len(cache) < Capacity
    BY <2>2 DEF CacheOK, Cached
  <2>3. CASE ~ Cached(e.key) /\ ~ (Len(cache) < Capacity)
    <3>1. s = Front(cache) /\ Len(cache) > 0
      BY <2>3, PreflightAssumption DEF CacheOK
    <3>2. /\ s \in Seq(Entries) /\ Len(s) = Len(cache) - 1
          /\ \A j \in 1 .. Len(cache) - 1 : s[j] = cache[j]
      BY <3>1, FrontOfSeq DEF CacheOK
    <3> HIDE DEF s
    <3> QED
      BY <2>3, <3>2, PreflightAssumption DEF CacheOK, Cached
  <2> QED
    BY <2>1, <2>2, <2>3
<1>2. WithEntry(e) = <<e>> \o s
  BY DEF WithEntry
<1> HIDE DEF s
<1>3. CacheOK(<<e>> \o s)
  BY <1>1, PushKeepsCacheOK
<1>4. OnlyAdds(<<e>> \o s, e)
  BY <1>1, PushOnlyAdds DEF CacheOK
<1> QED
  BY <1>2, <1>3, <1>4

-----------------------------------------------------------------------------
(* Type correctness *)

LEMMA InitialLeewayType == InitialLeeway \in Nat
BY SMT DEF InitialLeeway

LEMMA TypeInit == Init => TypeOK
BY PreflightAssumption, InitialLeewayType DEF Init, TypeOK, Nothing

LEMMA TypeIsCacheOK == TypeOK => CacheOK(cache)
<1> SUFFICES ASSUME TypeOK PROVE CacheOK(cache)
  OBVIOUS
<1>1. cache \in Seq(Entries) /\ Len(cache) <= Capacity
  BY DEF TypeOK, Entries
<1>2. \A i, j \in DOMAIN cache : cache[i].key = cache[j].key => i = j
  BY DEF TypeOK
<1>3. DOMAIN cache = 1 .. Len(cache)
  BY <1>1
<1> QED
  BY <1>1, <1>2, <1>3 DEF CacheOK

LEMMA CacheOKIsType ==
  ASSUME CacheOK(cache')
  PROVE  /\ cache' \in Seq([key : Keys, fee : Nat, by : Calls])
         /\ Len(cache') <= Capacity
         /\ \A i, j \in DOMAIN cache' : cache'[i].key = cache'[j].key => i = j
BY DEF CacheOK, Entries

\* What a round does to the variables of its call.
LEMMA SimulatedType ==
  ASSUME TypeOK, NEW c \in Calls, NEW r \in Results, Simulated(c, r),
         round[c] + 1 <= Rounds
  PROVE  /\ round' \in [Calls -> 0 .. Rounds]
         /\ leeway' \in [Calls -> Nat]
         /\ result' \in [Calls -> [instructions : Nat, fee : Nat,
                                   leeway : Nat]]
         /\ steady' \in [Calls -> BOOLEAN]
<1>1. r.instructions \in Nat /\ r.fee \in Nat
  BY PreflightAssumption
<1>2. PICK l \in NextLeeway(r.instructions, leeway[c], round[c] = 0) :
        leeway' = [leeway EXCEPT ![c] = l]
  BY DEF Simulated
<1>3. l \in Nat
  BY <1>1, <1>2, NextLeewayType DEF TypeOK
<1>4. leeway' \in [Calls -> Nat]
  BY <1>2, <1>3 DEF TypeOK
<1>5. round' \in [Calls -> 0 .. Rounds]
  BY PreflightAssumption DEF Simulated, TypeOK
<1>6. result' \in [Calls -> [instructions : Nat, fee : Nat, leeway : Nat]]
  BY <1>1 DEF Simulated, TypeOK
<1>7. steady' \in [Calls -> BOOLEAN]
  BY DEF Simulated, TypeOK
<1> QED
  BY <1>4, <1>5, <1>6, <1>7

\* The fee that the last round stores and returns.
LEMMA LastFeeType ==
  ASSUME TypeOK, NEW c \in Calls, NEW r \in Results,
         NEW fee \in FloatCeil(r.fee, 100 + margin[c])
  PROVE  /\ fee \in Nat
         /\ [key |-> key[c], fee |-> fee, by |-> c] \in Entries
         /\ Padded(fee, margin[c]) \in Nat
<1>1. r.fee \in Nat /\ margin[c] \in Nat /\ key[c] \in Keys
  BY PreflightAssumption DEF TypeOK
<1>2. fee \in Nat
  BY <1>1, FloatCeilType
<1> QED
  BY <1>1, <1>2, PaddedType DEF Entries

LEMMA TypeStep == TypeOK /\ [Next]_vars => TypeOK'
<1> SUFFICES ASSUME TypeOK, [Next]_vars PROVE TypeOK'
  OBVIOUS
<1>c. CacheOK(cache)
  BY TypeIsCacheOK
<1>1. ASSUME NEW c \in Calls, Hit(c)
      PROVE  TypeOK'
  <2> DEFINE e == cache[Position(key[c])]
  <2>1. CacheOK(cache')
    BY <1>c, <1>1, TouchedProperties DEF Hit
  <2>2. e \in Entries
    BY <1>c, <1>1, WithoutKey DEF Hit, CacheOK
  <2>3. e.fee \in Nat /\ margin[c] \in Nat
    BY <2>2, PreflightAssumption DEF Entries, TypeOK
  <2>4. Padded(e.fee, margin[c]) \in Nat
    BY <2>3, PaddedType
  <2> HIDE DEF e
  <2>5. answer' \in [Calls -> Nat]
    BY <1>1, <2>4 DEF Hit, TypeOK, e
  <2> QED
    BY <1>1, <2>1, <2>5, CacheOKIsType DEF Hit, TypeOK
<1>2. ASSUME NEW c \in Calls, Miss(c)
      PROVE  TypeOK'
  BY <1>2 DEF Miss, TypeOK
<1>3. ASSUME NEW c \in Calls, NEW r \in Results, Round(c, r)
      PROVE  TypeOK'
  <2>1. Simulated(c, r) /\ round[c] + 1 <= Rounds
    BY <1>3, PreflightAssumption DEF Round, TypeOK
  <2> QED
    BY <1>3, <2>1, SimulatedType DEF Round, TypeOK
<1>4. ASSUME NEW c \in Calls, NEW r \in Results, LastRound(c, r)
      PROVE  TypeOK'
  <2>1. Simulated(c, r) /\ round[c] + 1 <= Rounds
    BY <1>4, PreflightAssumption DEF LastRound, TypeOK
  <2>2. PICK fee \in FloatCeil(r.fee, 100 + margin[c]) :
          /\ cache' = WithEntry([key |-> key[c], fee |-> fee, by |-> c])
          /\ answer' = [answer EXCEPT ![c] = Padded(fee, margin[c])]
    BY <1>4 DEF LastRound
  <2>3. CacheOK(cache')
    BY <1>c, <2>2, LastFeeType, PutProperties
  <2>4. answer' \in [Calls -> Nat]
    BY <2>2, LastFeeType DEF TypeOK
  <2>5. UNCHANGED <<key, margin>>
        /\ pc' = [pc EXCEPT ![c] = "ok"]
    BY <1>4 DEF LastRound
  <2> QED
    BY <2>1, <2>3, <2>4, <2>5, SimulatedType, CacheOKIsType DEF TypeOK
<1>5. ASSUME NEW c \in Calls, Fail(c) \/ Cancel(c)
      PROVE  TypeOK'
  <2>1. PICK how \in {"error", "cancelled"} : Abandon(c, how)
    BY <1>5 DEF Fail, Cancel
  <2>2. /\ pc' = [pc EXCEPT ![c] = how]
        /\ round' = [round EXCEPT ![c] = 0]
        /\ leeway' = [leeway EXCEPT ![c] = InitialLeeway]
        /\ result' = [result EXCEPT ![c] = Nothing]
        /\ steady' = [steady EXCEPT ![c] = TRUE]
        /\ UNCHANGED <<cache, key, margin, answer>>
    BY <2>1 DEF Abandon
  <2>3. Nothing \in [instructions : Nat, fee : Nat, leeway : Nat]
    BY DEF Nothing
  <2>4. /\ pc \in [Calls -> {"idle", "simulating", "ok", "error", "cancelled"}]
        /\ round \in [Calls -> 0 .. Rounds]
        /\ leeway \in [Calls -> Nat]
        /\ result \in [Calls -> [instructions : Nat, fee : Nat, leeway : Nat]]
        /\ steady \in [Calls -> BOOLEAN]
    BY DEF TypeOK
  <2>5. pc' \in [Calls -> {"idle", "simulating", "ok", "error", "cancelled"}]
    BY <2>2, <2>4
  <2>6. round' \in [Calls -> 0 .. Rounds]
    <3>1. 0 \in 0 .. Rounds
      BY PreflightAssumption
    <3> QED
      BY <2>2, <2>4, <3>1
  <2>7. leeway' \in [Calls -> Nat]
    BY <2>2, <2>4, InitialLeewayType
  <2>8. result' \in [Calls -> [instructions : Nat, fee : Nat, leeway : Nat]]
    BY <2>2, <2>3, <2>4
  <2>9. steady' \in [Calls -> BOOLEAN]
    BY <2>2, <2>4
  <2> QED
    BY <2>2, <2>5, <2>6, <2>7, <2>8, <2>9 DEF TypeOK
<1>6. CASE ClearCache
  BY <1>6, PreflightAssumption DEF ClearCache, TypeOK
<1>7. CASE UNCHANGED vars
  BY <1>7 DEF vars, TypeOK
<1> QED
  BY <1>1, <1>2, <1>3, <1>4, <1>5, <1>6, <1>7 DEF Next, Start, Respond

\* Whatever the simulations return and however calls overlap, the cache holds
\* at most its capacity of entries, one per operation (preflight.rs:31-50).
THEOREM TypeCorrect == Spec => []TypeOK
BY TypeInit, TypeStep, PTL DEF Spec

-----------------------------------------------------------------------------
(* The entries of the cache *)

\* The entries that CacheHoldsFinalResults allows.
FinalEntries ==
  {e \in Entries : /\ pc[e.by] = "ok"
                   /\ round[e.by] = Rounds
                   /\ key[e.by] = e.key
                   /\ Padded(e.fee, margin[e.by]) = answer[e.by]}

LEMMA HoldsFinalEntries ==
  ASSUME CacheOK(cache)
  PROVE  CacheHoldsFinalResults
           <=> \A i \in 1 .. Len(cache) : cache[i] \in FinalEntries
<1>1. DOMAIN cache = 1 .. Len(cache) /\ \A i \in 1 .. Len(cache) : cache[i] \in Entries
  BY DEF CacheOK
<1> QED
  BY <1>1 DEF CacheHoldsFinalResults, FinalEntries

\* A step that touches one call, and none that has ended, keeps what was true
\* of the calls that filled the cache.
LEMMA FinalEntriesStay ==
  ASSUME NEW c \in Calls, pc[c] # "ok",
         \A d \in Calls \ {c} :
           pc'[d] = pc[d] /\ round'[d] = round[d] /\ answer'[d] = answer[d],
         UNCHANGED <<key, margin>>
  PROVE  FinalEntries \subseteq FinalEntries'
<1>1. \A e \in FinalEntries : e.by \in Calls \ {c}
  BY DEF FinalEntries, Entries
<1> QED
  BY <1>1 DEF FinalEntries

LEMMA FinalStep ==
  TypeOK /\ CacheHoldsFinalResults /\ [Next]_vars => CacheHoldsFinalResults'
<1> SUFFICES ASSUME TypeOK, CacheHoldsFinalResults, [Next]_vars
             PROVE  CacheHoldsFinalResults'
  OBVIOUS
<1>c. /\ CacheOK(cache)
      /\ \A i \in 1 .. Len(cache) : cache[i] \in FinalEntries
  BY TypeIsCacheOK, HoldsFinalEntries
<1>f. ASSUME CacheOK(cache'),
             \A i \in 1 .. Len(cache') : cache'[i] \in FinalEntries'
      PROVE  CacheHoldsFinalResults'
  <2>1. DOMAIN cache' = 1 .. Len(cache')
    BY <1>f DEF CacheOK
  <2> QED
    BY <1>f, <2>1 DEF CacheHoldsFinalResults, FinalEntries
<1>1. ASSUME NEW c \in Calls, Hit(c)
      PROVE  CacheHoldsFinalResults'
  <2>1. CacheOK(cache') /\ OnlyAdds(cache', cache[Position(key[c])])
    BY <1>c, <1>1, TouchedProperties DEF Hit
  <2>2. Position(key[c]) \in 1 .. Len(cache)
    BY <1>c, <1>1, WithoutKey DEF Hit
  <2>3. /\ pc[c] # "ok"
        /\ \A d \in Calls \ {c} : /\ pc'[d] = pc[d] /\ round'[d] = round[d]
                                  /\ answer'[d] = answer[d]
        /\ UNCHANGED <<key, margin>>
    BY <1>1 DEF Hit, TypeOK
  <2>4. \A i \in 1 .. Len(cache') : cache'[i] \in FinalEntries
    BY <1>c, <2>1, <2>2 DEF OnlyAdds
  <2> QED
    BY <1>f, <2>1, <2>3, <2>4, FinalEntriesStay
<1>2. ASSUME NEW c \in Calls, NEW r \in Results, LastRound(c, r)
      PROVE  CacheHoldsFinalResults'
  <2>1. PICK fee \in FloatCeil(r.fee, 100 + margin[c]) :
          /\ cache' = WithEntry([key |-> key[c], fee |-> fee, by |-> c])
          /\ answer' = [answer EXCEPT ![c] = Padded(fee, margin[c])]
    BY <1>2 DEF LastRound
  <2> DEFINE e == [key |-> key[c], fee |-> fee, by |-> c]
  <2>2. e \in Entries /\ CacheOK(cache') /\ OnlyAdds(cache', e)
    BY <1>c, <2>1, LastFeeType, PutProperties
  <2>3. /\ pc[c] # "ok"
        /\ \A d \in Calls \ {c} : /\ pc'[d] = pc[d] /\ round'[d] = round[d]
                                  /\ answer'[d] = answer[d]
        /\ UNCHANGED <<key, margin>>
    BY <1>2, <2>1 DEF LastRound, Simulated, TypeOK
  <2>4. pc'[c] = "ok" /\ round'[c] = Rounds
        /\ answer'[c] = Padded(fee, margin[c])
    BY <1>2, <2>1, PreflightAssumption DEF LastRound, Simulated, TypeOK
  <2>5. e \in FinalEntries'
    BY <2>2, <2>3, <2>4 DEF FinalEntries
  <2> HIDE DEF e
  <2>6. FinalEntries \subseteq FinalEntries'
    BY <2>3, FinalEntriesStay
  <2>7. \A i \in 1 .. Len(cache') : cache'[i] \in FinalEntries'
    BY <1>c, <2>2, <2>5, <2>6 DEF OnlyAdds
  <2> QED
    BY <1>f, <2>2, <2>7
<1>3. ASSUME NEW c \in Calls,
             \/ Miss(c) \/ Fail(c) \/ Cancel(c)
             \/ \E r \in Results : Round(c, r)
      PROVE  CacheHoldsFinalResults'
  <2>1. /\ pc[c] # "ok"
        /\ \A d \in Calls \ {c} : /\ pc'[d] = pc[d] /\ round'[d] = round[d]
                                  /\ answer'[d] = answer[d]
        /\ UNCHANGED <<cache, key, margin>>
    BY <1>3 DEF Miss, Fail, Cancel, Abandon, Round, Simulated, TypeOK
  <2>2. FinalEntries \subseteq FinalEntries'
    BY <2>1, FinalEntriesStay
  <2> QED
    BY <1>c, <1>f, <2>1, <2>2
<1>4. CASE ClearCache
  BY <1>4 DEF ClearCache, CacheHoldsFinalResults
<1>5. CASE UNCHANGED vars
  BY <1>5 DEF vars, CacheHoldsFinalResults
<1> QED
  BY <1>1, <1>2, <1>3, <1>4, <1>5 DEF Next, Start, Respond

\* However many runs, failures, cancellations and clearings overlap, and with
\* any margins, an entry of the cache is what a call that went through all its
\* rounds for that operation returned (preflight.rs:120-159).
THEOREM CacheHoldsFinalResultsAlways == Spec => []CacheHoldsFinalResults
<1>1. Init => CacheHoldsFinalResults
  BY DEF Init, CacheHoldsFinalResults
<1> QED
  BY <1>1, FinalStep, TypeCorrect, PTL DEF Spec

-----------------------------------------------------------------------------
(* The search for the leeway *)

\* While the instructions stay the same, the leeway reaches the window from
\* below in one round and from above in two, and stays there.
LeewayInv ==
  \A c \in Calls :
    LET n == result[c].instructions IN
    steady[c] /\ n >= 2 =>
      /\ round[c] >= 1 => AboveMin(leeway[c], n)
      /\ round[c] >= 2 => BelowMax(leeway[c], n)
      /\ round[c] >= 3 => /\ AboveMin(result[c].leeway, n)
                          /\ BelowMax(result[c].leeway, n)

\* A round of a call, whether or not it is the last.
LEMMA LeewayRound ==
  ASSUME TypeOK, LeewayInv, NEW c \in Calls, NEW r \in Results,
         Simulated(c, r)
  PROVE  LeewayInv'
<1> DEFINE n == r.instructions
           used == leeway[c]
<1>1. PICK l \in NextLeeway(n, used, round[c] = 0) :
        leeway' = [leeway EXCEPT ![c] = l]
  BY DEF Simulated
<1>2. n \in Nat /\ used \in Nat /\ round[c] \in 0 .. Rounds
  BY PreflightAssumption DEF TypeOK
<1>3. /\ round'[c] = round[c] + 1
      /\ leeway'[c] = l
      /\ result'[c].instructions = n /\ result'[c].leeway = used
      /\ steady'[c] => steady[c] /\ (round[c] = 0
                                     \/ n = result[c].instructions)
      /\ \A d \in Calls \ {c} :
           /\ round'[d] = round[d] /\ leeway'[d] = leeway[d]
           /\ result'[d] = result[d] /\ steady'[d] = steady[d]
  BY <1>1 DEF Simulated, TypeOK
<1>4. ASSUME steady'[c], n >= 2
      PROVE  /\ AboveMin(l, n)
             /\ round'[c] >= 2 => BelowMax(l, n)
             /\ round'[c] >= 3 => AboveMin(used, n) /\ BelowMax(used, n)
  <2>1. /\ AboveMin(l, n)
        /\ AboveMin(used, n) /\ round[c] # 0 => BelowMax(l, n)
    BY <1>1, <1>2, <1>4, LeewayMoves
  <2>2. CASE round[c] = 0
    BY <1>3, <2>1, <2>2
  <2>3. CASE round[c] # 0
    <3>1. steady[c] /\ n = result[c].instructions /\ round[c] >= 1
      BY <1>2, <1>3, <1>4, <2>3
    <3>2. /\ AboveMin(used, n)
          /\ round[c] >= 2 => BelowMax(used, n)
      BY <1>4, <3>1 DEF LeewayInv
    <3>3. round'[c] >= 3 => round[c] >= 2
      BY <1>2, <1>3
    <3> QED
      BY <2>1, <2>3, <3>2, <3>3
  <2> QED
    BY <2>2, <2>3
<1> HIDE DEF n, used
<1> QED
  BY <1>3, <1>4 DEF LeewayInv

LEMMA LeewayStep == TypeOK /\ LeewayInv /\ [Next]_vars => LeewayInv'
<1> SUFFICES ASSUME TypeOK, LeewayInv, [Next]_vars PROVE LeewayInv'
  OBVIOUS
<1>1. CASE UNCHANGED <<round, leeway, result, steady>>
  BY <1>1 DEF LeewayInv
<1>2. ASSUME NEW c \in Calls, Start(c) PROVE LeewayInv'
  BY <1>1, <1>2 DEF Start, Hit, Miss
<1>3. ASSUME NEW c \in Calls, NEW r \in Results, Round(c, r) \/ LastRound(c, r)
      PROVE  LeewayInv'
  BY <1>3, LeewayRound DEF Round, LastRound
<1>4. ASSUME NEW c \in Calls, Fail(c) \/ Cancel(c) PROVE LeewayInv'
  <2>1. /\ round'[c] = 0
        /\ \A d \in Calls \ {c} :
             /\ round'[d] = round[d] /\ leeway'[d] = leeway[d]
             /\ result'[d] = result[d] /\ steady'[d] = steady[d]
    BY <1>4 DEF Fail, Cancel, Abandon, TypeOK
  <2> QED
    BY <2>1 DEF LeewayInv
<1>5. CASE ClearCache \/ UNCHANGED vars
  BY <1>1, <1>5 DEF ClearCache, vars
<1> QED
  BY <1>2, <1>3, <1>4, <1>5 DEF Next, Respond

\* For every number of instructions and every length of the search from three
\* rounds on, a simulation that takes the same number each time is last run
\* with a leeway of 10 to 50 per cent of it (preflight.rs:128-145).
THEOREM LastRoundHasLeewayAlways == Spec => []LastRoundHasLeeway
<1>1. Init => LeewayInv
  BY DEF Init, LeewayInv
<1>2. LeewayInv => LastRoundHasLeeway
  BY PreflightAssumption DEF LeewayInv, LastRoundHasLeeway, AboveMin, BelowMax
<1> QED
  BY <1>1, <1>2, LeewayStep, TypeCorrect, PTL DEF Spec
=============================================================================
