--------------------------- MODULE Ranking_proofs ---------------------------
(***************************************************************************)
(* What Ranked, Filtered and Without return, for every finite set and      *)
(* every finite sequence: the proofs about queues and limits need no more. *)
(***************************************************************************)
EXTENDS Ranking, FiniteSetTheorems, TLAPS

(***************************************************************************)
(* The number of elements that rank no higher than e is between 1 and the  *)
(* size of the set and tells the elements apart.                           *)
(***************************************************************************)
LEMMA RankCounts ==
  ASSUME NEW S, IsFiniteSet(S), NEW rank \in [S -> Int],
         \A e, g \in S : rank[e] = rank[g] => e = g
  PROVE  [e \in S |-> Cardinality({f \in S : rank[f] <= rank[e]})]
           \in Bijection(S, 1 .. Cardinality(S))
<1> DEFINE Below(e) == {f \in S : rank[f] <= rank[e]}
           pos == [e \in S |-> Cardinality(Below(e))]
           n == Cardinality(S)
<1>0. n \in Nat /\ IsFiniteSet(1 .. n) /\ Cardinality(1 .. n) = n
  BY FS_CardinalityType, FS_Interval
<1>1. \A e \in S : /\ IsFiniteSet(Below(e))
                   /\ Cardinality(Below(e)) \in 1 .. n
  <2>1. SUFFICES ASSUME NEW e \in S
                 PROVE  IsFiniteSet(Below(e)) /\ Cardinality(Below(e)) \in 1 .. n
    OBVIOUS
  <2>2. Below(e) \subseteq S /\ e \in Below(e)
    OBVIOUS
  <2>3. IsFiniteSet(Below(e)) /\ Cardinality(Below(e)) <= n
    BY <2>2, FS_Subset
  <2>4. Cardinality(Below(e)) \in Nat /\ Cardinality(Below(e)) # 0
    BY <2>2, <2>3, FS_CardinalityType, FS_EmptySet
  <2> QED BY <2>3, <2>4, <1>0
<1>2. \A e, g \in S : rank[e] < rank[g] => pos[e] # pos[g]
  <2>1. SUFFICES ASSUME NEW e \in S, NEW g \in S, rank[e] < rank[g]
                 PROVE  Cardinality(Below(e)) # Cardinality(Below(g))
    OBVIOUS
  <2>2. Below(e) \subseteq Below(g) /\ g \in Below(g) /\ g \notin Below(e)
    BY <2>1
  <2> HIDE DEF Below
  <2> QED BY <2>2, <1>1, FS_Subset
<1>3. pos \in Injection(S, 1 .. n)
  <2>1. pos \in [S -> 1 .. n]
    BY <1>1
  <2>2. ASSUME NEW e \in S, NEW g \in S, pos[e] = pos[g] PROVE e = g
    BY <2>2, <1>2
  <2> QED BY <2>1, <2>2 DEF Injection, IsInjective
<1>4. pos \in Surjection(S, 1 .. n)
  <2> HIDE DEF pos
  <2> QED BY <1>0, <1>3, FS_Injection
<1> QED BY <1>3, <1>4 DEF Bijection

(***************************************************************************)
(* Ranked lists every element of S, each of them once.                     *)
(***************************************************************************)
LEMMA RankedLists ==
  ASSUME NEW S, IsFiniteSet(S), NEW rank \in [S -> Int],
         \A e, g \in S : rank[e] = rank[g] => e = g
  PROVE  /\ Ranked(S, rank) \in Seq(S)
         /\ Len(Ranked(S, rank)) = Cardinality(S)
         /\ Entries(Ranked(S, rank)) = S
         /\ Distinct(Ranked(S, rank))
<1> DEFINE pos == [e \in S |-> Cardinality({f \in S : rank[f] <= rank[e]})]
           n == Cardinality(S)
           R == Ranked(S, rank)
<1>0. n \in Nat
  BY FS_CardinalityType
<1>1. pos \in Bijection(S, 1 .. n)
  BY RankCounts
<1>2. DOMAIN R = 1 .. n
  BY DEF Ranked
<1>3. \A k \in 1 .. n : R[k] \in S /\ pos[R[k]] = k
  <2> SUFFICES ASSUME NEW k \in 1 .. n PROVE R[k] \in S /\ pos[R[k]] = k
    OBVIOUS
  <2> DEFINE P(e) == Cardinality({f \in S : rank[f] <= rank[e]}) = k
  <2>1. \A e \in S : pos[e] = k <=> P(e)
    OBVIOUS
  <2>2. R[k] = CHOOSE e \in S : P(e)
    BY DEF Ranked
  <2>3. \E e \in S : pos[e] = k
    <3> HIDE DEF pos, n
    <3> QED BY <1>1 DEF Bijection, Surjection
  <2> HIDE DEF P, R, pos
  <2> QED BY <2>1, <2>2, <2>3
<1>4. R \in [1 .. n -> S]
  <2> DEFINE G(k) == CHOOSE e \in S : Cardinality({f \in S : rank[f] <= rank[e]}) = k
  <2>1. R = [k \in 1 .. n |-> G(k)]
    BY Zenon DEF Ranked
  <2> HIDE DEF R, n, pos, G
  <2> QED BY <2>1, <1>3
<1> HIDE DEF pos, n, R
<1>5. \A e \in S : pos[e] \in 1 .. n /\ R[pos[e]] = e
  <2>1. \A e, g \in S : pos[e] = pos[g] => e = g
    BY <1>1 DEF Bijection, Injection, IsInjective, pos
  <2>2. \A e \in S : pos[e] \in 1 .. n
    BY <1>1 DEF Bijection, Injection
  <2> QED BY <2>1, <2>2, <1>3
<1>6. R \in Seq(S) /\ Len(R) = n
  BY <1>0, <1>4
<1>7. Entries(R) = S
  BY <1>3, <1>4, <1>5 DEF Entries
<1>8. Distinct(R)
  BY <1>3, <1>4 DEF Distinct
<1> QED BY <1>6, <1>7, <1>8 DEF R, n

(***************************************************************************)
(* Ranked lists in ascending order of rank.                                *)
(***************************************************************************)
LEMMA RankedAscends ==
  ASSUME NEW S, IsFiniteSet(S), NEW rank \in [S -> Int],
         \A e, g \in S : rank[e] = rank[g] => e = g,
         NEW i \in 1 .. Cardinality(S), NEW k \in 1 .. Cardinality(S), i < k
  PROVE  rank[Ranked(S, rank)[i]] < rank[Ranked(S, rank)[k]]
<1> DEFINE Below(e) == {f \in S : rank[f] <= rank[e]}
           e == Ranked(S, rank)[i]
           g == Ranked(S, rank)[k]
<1>1. e \in S /\ g \in S /\ Cardinality(Below(e)) = i /\ Cardinality(Below(g)) = k
  <2> HIDE DEF e, g
  <2> DEFINE pos == [h \in S |-> Cardinality({f \in S : rank[f] <= rank[h]})]
             n == Cardinality(S)
  <2>1. \A m \in 1 .. n : \E h \in S : pos[h] = m
    <3>1. pos \in Bijection(S, 1 .. n)
      BY RankCounts
    <3> HIDE DEF pos, n
    <3> QED BY <3>1 DEF Bijection, Surjection
  <2>2. \A m \in 1 .. n : \E h \in S : Cardinality(Below(h)) = m
    BY <2>1
  <2>3. /\ e = CHOOSE h \in S : Cardinality(Below(h)) = i
        /\ g = CHOOSE h \in S : Cardinality(Below(h)) = k
    BY DEF e, g, Ranked
  <2> HIDE DEF Below
  <2> QED BY <2>2, <2>3
<1>2. IsFiniteSet(Below(e))
  BY FS_Subset
<1> HIDE DEF e, g
<1>3. ASSUME rank[g] <= rank[e] PROVE FALSE
  <2>1. Below(g) \subseteq Below(e)
    BY <1>1, <1>3
  <2> HIDE DEF Below
  <2>2. Cardinality(Below(g)) <= Cardinality(Below(e))
    BY <1>2, <2>1, FS_Subset
  <2> QED BY <1>1, <2>2
<1> QED BY <1>1, <1>3 DEF e, g

(***************************************************************************)
(* Filtered(s, kept) goes through the positions kept in ascending order.   *)
(***************************************************************************)
LEMMA FilteredLists ==
  ASSUME NEW T, NEW s \in Seq(T), NEW kept, kept \subseteq DOMAIN s
  PROVE  /\ IsFiniteSet(kept) /\ Cardinality(kept) \in Nat /\ Cardinality(kept) <= Len(s)
         /\ Filtered(s, kept) \in Seq(T) /\ Len(Filtered(s, kept)) = Cardinality(kept)
         /\ \E at \in Bijection(1 .. Cardinality(kept), kept) :
              /\ \A k \in 1 .. Cardinality(kept) : Filtered(s, kept)[k] = s[at[k]]
              /\ \A i, k \in 1 .. Cardinality(kept) : i < k => at[i] < at[k]
<1> DEFINE id == [h \in kept |-> h]
           at == Ranked(kept, id)
           n == Cardinality(kept)
           w == Filtered(s, kept)
<1>1. DOMAIN s = 1 .. Len(s) /\ Len(s) \in Nat /\ \A i \in DOMAIN s : s[i] \in T
  OBVIOUS
<1>2. IsFiniteSet(kept) /\ n \in Nat /\ n <= Len(s)
  <2> HIDE DEF id, at, n, w
  <2>1. IsFiniteSet(1 .. Len(s)) /\ Cardinality(1 .. Len(s)) = Len(s)
    <3>1. \A m \in Nat : IsFiniteSet(1 .. m) /\ Cardinality(1 .. m) = m
      BY FS_Interval
    <3> QED BY <1>1, <3>1
  <2> QED BY <1>1, <2>1, FS_Subset, FS_CardinalityType DEF n
<1>3. w = [k \in 1 .. n |-> s[at[k]]]
  BY DEF Filtered
<1>4. id \in [kept -> Int] /\ \A h \in kept : id[h] = h
  BY <1>1
<1> HIDE DEF id
<1>5. \A h, m \in kept : id[h] = id[m] => h = m
  BY <1>4
<1>6. at \in Seq(kept) /\ Len(at) = n /\ Entries(at) = kept /\ Distinct(at)
  BY <1>2, <1>4, <1>5, RankedLists
<1>7. \A i, k \in 1 .. n : i < k => id[at[i]] < id[at[k]]
  BY <1>2, <1>4, <1>5, RankedAscends
<1> HIDE DEF at, n, w
<1>8. at \in [1 .. n -> kept] /\ DOMAIN at = 1 .. n
  BY <1>2, <1>6
<1>9. \A i \in kept : \E k \in 1 .. n : at[k] = i
  BY <1>6, <1>8 DEF Entries
<1>10. \A i, k \in 1 .. n : at[i] = at[k] => i = k
  BY <1>6, <1>8 DEF Distinct
<1>11. at \in Bijection(1 .. n, kept)
  BY <1>8, <1>9, <1>10 DEF Bijection, Injection, Surjection, IsInjective
<1>12. w \in [1 .. n -> T] /\ \A k \in 1 .. n : w[k] = s[at[k]]
  BY <1>1, <1>3, <1>8
<1>13. w \in Seq(T) /\ Len(w) = n
  BY <1>2, <1>12
<1>14. \A i, k \in 1 .. n : i < k => at[i] < at[k]
  BY <1>4, <1>7, <1>8
<1> QED BY <1>2, <1>11, <1>12, <1>13, <1>14 DEF w, n

(***************************************************************************)
(* How many of the positions at have an entry in P: what is filtered has   *)
(* as many as the positions kept.                                          *)
(***************************************************************************)
CountIn(s, at, P) == Cardinality({i \in at : s[i] \in P})

LEMMA FilteredCounts ==
  ASSUME NEW T, NEW s \in Seq(T), NEW kept, kept \subseteq DOMAIN s, NEW P
  PROVE  CountIn(Filtered(s, kept), DOMAIN Filtered(s, kept), P) = CountIn(s, kept, P)
<1> DEFINE n == Cardinality(kept)
           w == Filtered(s, kept)
           from == {k \in DOMAIN w : w[k] \in P}
           to == {i \in kept : s[i] \in P}
<1>1. /\ n \in Nat /\ IsFiniteSet(kept) /\ w \in Seq(T) /\ Len(w) = n
      /\ \E at \in Bijection(1 .. n, kept) : \A k \in 1 .. n : w[k] = s[at[k]]
  BY FilteredLists
<1>2. \A k : k \in from <=> k \in 1 .. n /\ w[k] \in P
  BY <1>1
<1>3. \A i : i \in to <=> i \in kept /\ s[i] \in P
  OBVIOUS
<1> HIDE DEF n, w, from, to
<1>4. PICK at \in Bijection(1 .. n, kept) : \A k \in 1 .. n : w[k] = s[at[k]]
  BY <1>1
<1>5. /\ at \in [1 .. n -> kept]
      /\ \A i \in kept : \E k \in 1 .. n : at[k] = i
      /\ \A i, k \in 1 .. n : at[i] = at[k] => i = k
  BY <1>4 DEF Bijection, Injection, Surjection, IsInjective
<1>6. PICK f : f = [k \in from |-> at[k]] OBVIOUS
<1>7. f \in [from -> to]
  BY <1>2, <1>3, <1>4, <1>5, <1>6
<1>8. \A i \in to : \E k \in from : f[k] = i
  BY <1>2, <1>3, <1>4, <1>5, <1>6
<1>9. \A i, k \in from : f[i] = f[k] => i = k
  BY <1>2, <1>5, <1>6
<1>10. IsFiniteSet(from)
  BY <1>1, <1>2, FS_Interval, FS_Subset
<1>11. f \in Bijection(from, to)
  BY <1>7, <1>8, <1>9 DEF Bijection, Injection, Surjection, IsInjective
<1>12. Cardinality(from) = Cardinality(to)
  BY <1>10, <1>11, FS_Bijection DEF ExistsBijection
<1> QED BY <1>12 DEF CountIn, from, to, w

(***************************************************************************)
(* Without(s, x) drops x and nothing else, and repeats nothing s does not  *)
(* repeat.  When x does not occur in s at all nothing is dropped.          *)
(***************************************************************************)
LEMMA WithoutDrops ==
  ASSUME NEW T, NEW s \in Seq(T), NEW x
  PROVE  /\ Without(s, x) \in Seq(T)
         /\ Entries(Without(s, x)) = Entries(s) \ {x}
         /\ Len(Without(s, x)) <= Len(s)
         /\ Distinct(s) => Distinct(Without(s, x))
<1> DEFINE kept == {i \in DOMAIN s : s[i] # x}
           n == Cardinality(kept)
           w == Without(s, x)
<1>1. kept \subseteq DOMAIN s /\ \A i : i \in kept <=> i \in DOMAIN s /\ s[i] # x
  OBVIOUS
<1>2. w = Filtered(s, kept)
  BY DEF Without
<1> HIDE DEF kept, w
<1>3. /\ n \in Nat /\ n <= Len(s) /\ w \in Seq(T) /\ Len(w) = n
      /\ \E at \in Bijection(1 .. n, kept) : \A k \in 1 .. n : w[k] = s[at[k]]
  BY <1>1, <1>2, FilteredLists
<1> HIDE DEF n
<1>4. PICK at \in Bijection(1 .. n, kept) : \A k \in 1 .. n : w[k] = s[at[k]]
  BY <1>3
<1>5. /\ at \in [1 .. n -> kept]
      /\ \A i \in kept : \E k \in 1 .. n : at[k] = i
      /\ \A i, k \in 1 .. n : at[i] = at[k] => i = k
  BY <1>4 DEF Bijection, Injection, Surjection, IsInjective
<1>6. DOMAIN w = 1 .. n
  BY <1>3
<1>7. Entries(w) = Entries(s) \ {x}
  BY <1>1, <1>4, <1>5, <1>6 DEF Entries
<1>8. Distinct(s) => Distinct(w)
  BY <1>1, <1>4, <1>5, <1>6 DEF Distinct
<1> QED BY <1>3, <1>7, <1>8 DEF w

(***************************************************************************)
(* Without keeps the order of what it keeps.                               *)
(***************************************************************************)
LEMMA WithoutKeepsOrder ==
  ASSUME NEW T, NEW s \in Seq(T), NEW x,
         NEW i \in DOMAIN Without(s, x), NEW k \in DOMAIN Without(s, x), i < k
  PROVE  \E a, b \in DOMAIN s :
           a < b /\ Without(s, x)[i] = s[a] /\ Without(s, x)[k] = s[b]
<1> DEFINE kept == {h \in DOMAIN s : s[h] # x}
           n == Cardinality(kept)
<1>1. Without(s, x) = Filtered(s, kept)
  BY DEF Without
<1>2. kept \subseteq DOMAIN s
  OBVIOUS
<1> HIDE DEF kept
<1>3. /\ n \in Nat /\ Filtered(s, kept) \in Seq(T) /\ Len(Filtered(s, kept)) = n
      /\ \E at \in Bijection(1 .. n, kept) :
           /\ \A h \in 1 .. n : Filtered(s, kept)[h] = s[at[h]]
           /\ \A h, m \in 1 .. n : h < m => at[h] < at[m]
  BY <1>2, FilteredLists
<1> HIDE DEF n
<1>4. PICK at \in Bijection(1 .. n, kept) :
        /\ \A h \in 1 .. n : Filtered(s, kept)[h] = s[at[h]]
        /\ \A h, m \in 1 .. n : h < m => at[h] < at[m]
  BY <1>3
<1>5. i \in 1 .. n /\ k \in 1 .. n
  BY <1>1, <1>3
<1>6. at[i] \in kept /\ at[k] \in kept
  BY <1>4, <1>5 DEF Bijection, Injection
<1> QED BY <1>1, <1>2, <1>4, <1>5, <1>6

(***************************************************************************)
(* Joining two sequences, adding at the back and taking from the front.    *)
(***************************************************************************)
LEMMA ConcatEntries ==
  ASSUME NEW T, NEW s \in Seq(T), NEW t \in Seq(T)
  PROVE  /\ s \o t \in Seq(T)
         /\ Len(s \o t) = Len(s) + Len(t)
         /\ Entries(s \o t) = Entries(s) \cup Entries(t)
         /\ Distinct(s) /\ Distinct(t) /\ Entries(s) \cap Entries(t) = {}
              => Distinct(s \o t)
<1>1. /\ DOMAIN s = 1 .. Len(s) /\ DOMAIN t = 1 .. Len(t)
      /\ Len(s) \in Nat /\ Len(t) \in Nat
      /\ s \o t \in Seq(T) /\ Len(s \o t) = Len(s) + Len(t)
      /\ DOMAIN (s \o t) = 1 .. Len(s) + Len(t)
  OBVIOUS
<1>2. /\ \A i \in 1 .. Len(s) : (s \o t)[i] = s[i]
      /\ \A i \in 1 .. Len(t) : (s \o t)[Len(s) + i] = t[i]
  OBVIOUS
<1>3. \A k \in 1 .. Len(s) + Len(t) :
        \/ k \in 1 .. Len(s)
        \/ \E i \in 1 .. Len(t) : k = Len(s) + i
  <2>1. SUFFICES ASSUME NEW k \in 1 .. Len(s) + Len(t), k \notin 1 .. Len(s)
                 PROVE  \E i \in 1 .. Len(t) : k = Len(s) + i
    OBVIOUS
  <2>2. k - Len(s) \in 1 .. Len(t) /\ k = Len(s) + (k - Len(s))
    BY <1>1, <2>1
  <2> QED BY <2>2
<1> DEFINE u == s \o t
<1>4. /\ DOMAIN u = 1 .. Len(s) + Len(t)
      /\ \A i \in 1 .. Len(s) : i \in DOMAIN u /\ u[i] = s[i]
      /\ \A i \in 1 .. Len(t) : Len(s) + i \in DOMAIN u /\ u[Len(s) + i] = t[i]
  BY <1>1, <1>2
<1> HIDE DEF u
<1>5. \A k \in DOMAIN u : \/ k \in DOMAIN s /\ u[k] = s[k]
                          \/ \E i \in DOMAIN t : k = Len(s) + i /\ u[k] = t[i]
  <2>1. TAKE k \in DOMAIN u
  <2>2. CASE k \in 1 .. Len(s)
    BY <1>1, <1>4, <2>2
  <2>3. CASE k \notin 1 .. Len(s)
    <3>1. PICK i \in 1 .. Len(t) : k = Len(s) + i
      BY <1>3, <1>4, <2>1, <2>3
    <3>2. i \in DOMAIN t /\ u[k] = t[i]
      BY <1>1, <1>4, <3>1
    <3> QED BY <3>1, <3>2
  <2> QED BY <2>2, <2>3
<1>6. Entries(u) = Entries(s) \cup Entries(t)
  <2>1. Entries(u) \subseteq Entries(s) \cup Entries(t)
    BY <1>5 DEF Entries
  <2>2. Entries(s) \subseteq Entries(u)
    BY <1>1, <1>4 DEF Entries
  <2>3. Entries(t) \subseteq Entries(u)
    BY <1>1, <1>4 DEF Entries
  <2> QED BY <2>1, <2>2, <2>3
<1>7. ASSUME Distinct(s), Distinct(t), Entries(s) \cap Entries(t) = {}
      PROVE  Distinct(u)
  <2>1. \A i \in DOMAIN s, k \in DOMAIN t : s[i] # t[k]
    BY <1>7 DEF Entries
  <2>2. SUFFICES ASSUME NEW i \in DOMAIN u, NEW k \in DOMAIN u, u[i] = u[k]
                 PROVE  i = k
    BY DEF Distinct
  <2>3. CASE i \in DOMAIN s /\ u[i] = s[i]
    BY <1>5, <1>7, <2>1, <2>2, <2>3 DEF Distinct
  <2>4. CASE \E m \in DOMAIN t : i = Len(s) + m /\ u[i] = t[m]
    <3>1. PICK m \in DOMAIN t : i = Len(s) + m /\ u[i] = t[m]
      BY <2>4
    <3>2. PICK h \in DOMAIN t : k = Len(s) + h /\ u[k] = t[h]
      BY <1>5, <2>1, <2>2, <3>1
    <3> QED BY <1>7, <2>2, <3>1, <3>2 DEF Distinct
  <2> QED BY <1>5, <2>2, <2>3, <2>4
<1> QED BY <1>1, <1>6, <1>7 DEF u

(***************************************************************************)
(* A sequence of one element holds that element, once.                     *)
(***************************************************************************)
LEMMA SingletonEntries ==
  ASSUME NEW T, NEW x \in T
  PROVE  /\ <<x>> \in Seq(T) /\ Len(<<x>>) = 1
         /\ Entries(<<x>>) = {x} /\ Distinct(<<x>>)
  BY DEF Entries, Distinct

(***************************************************************************)
(* Appending adds one entry, and keeps the entries distinct if it is new.  *)
(***************************************************************************)
LEMMA AppendEntries ==
  ASSUME NEW T, NEW s \in Seq(T), NEW x \in T
  PROVE  /\ Append(s, x) \in Seq(T)
         /\ Len(Append(s, x)) = Len(s) + 1
         /\ Entries(Append(s, x)) = Entries(s) \cup {x}
         /\ Distinct(s) /\ x \notin Entries(s) => Distinct(Append(s, x))
<1>1. Append(s, x) = s \o <<x>>
  OBVIOUS
<1>2. /\ <<x>> \in Seq(T) /\ Len(<<x>>) = 1
      /\ Entries(<<x>>) = {x} /\ Distinct(<<x>>)
  BY SingletonEntries
<1>3. x \notin Entries(s) => Entries(s) \cap Entries(<<x>>) = {}
  BY <1>2
<1> DEFINE one == <<x>>
<1> HIDE DEF one
<1>4. /\ s \o one \in Seq(T)
      /\ Len(s \o one) = Len(s) + Len(one)
      /\ Entries(s \o one) = Entries(s) \cup Entries(one)
      /\ Distinct(s) /\ Distinct(one) /\ Entries(s) \cap Entries(one) = {}
           => Distinct(s \o one)
  <2>1. one \in Seq(T)
    BY <1>2 DEF one
  <2> QED BY <2>1, ConcatEntries
<1> QED BY <1>1, <1>2, <1>3, <1>4 DEF one

(***************************************************************************)
(* The head is an entry; of distinct entries the tail holds all the        *)
(* others.                                                                 *)
(***************************************************************************)
LEMMA HeadTailEntries ==
  ASSUME NEW T, NEW s \in Seq(T), s # <<>>
  PROVE  /\ Head(s) \in T /\ Head(s) \in Entries(s)
         /\ Tail(s) \in Seq(T)
         /\ Len(Tail(s)) = Len(s) - 1
         /\ Distinct(s) => /\ Distinct(Tail(s))
                           /\ Entries(Tail(s)) = Entries(s) \ {Head(s)}
<1>1. /\ DOMAIN s = 1 .. Len(s) /\ Len(s) \in Nat \ {0}
      /\ Head(s) = s[1] /\ Tail(s) \in Seq(T) /\ Len(Tail(s)) = Len(s) - 1
      /\ DOMAIN Tail(s) = 1 .. Len(s) - 1
      /\ \A i \in 1 .. Len(s) - 1 : Tail(s)[i] = s[i + 1]
  OBVIOUS
<1>2. Head(s) \in T /\ Head(s) \in Entries(s)
  BY <1>1 DEF Entries
<1>3. \A k \in 1 .. Len(s) : k = 1 \/ \E i \in 1 .. Len(s) - 1 : k = i + 1
  <2>1. \A k \in 1 .. Len(s) : k # 1 => k - 1 \in 1 .. Len(s) - 1 /\ k = (k - 1) + 1
    BY <1>1
  <2> QED BY <2>1
<1>4. ASSUME Distinct(s) PROVE Distinct(Tail(s))
  BY <1>1, <1>4 DEF Distinct
<1>5. ASSUME Distinct(s) PROVE Entries(Tail(s)) = Entries(s) \ {Head(s)}
  <2>1. ASSUME NEW y \in Entries(Tail(s)) PROVE y \in Entries(s) \ {s[1]}
    <3>1. PICK i \in 1 .. Len(s) - 1 : y = s[i + 1]
      BY <1>1, <2>1 DEF Entries
    <3>2. i + 1 \in 1 .. Len(s) /\ 1 \in 1 .. Len(s) /\ i + 1 # 1
      BY <1>1
    <3> QED BY <1>1, <1>5, <3>1, <3>2 DEF Entries, Distinct
  <2>2. ASSUME NEW y \in Entries(s) \ {s[1]} PROVE y \in Entries(Tail(s))
    <3>1. PICK k \in 1 .. Len(s) : y = s[k] /\ k # 1
      BY <1>1, <2>2 DEF Entries
    <3>2. PICK i \in 1 .. Len(s) - 1 : k = i + 1
      BY <1>3, <3>1
    <3> QED BY <1>1, <3>1, <3>2 DEF Entries
  <2> QED BY <1>1, <2>1, <2>2
<1> QED BY <1>1, <1>2, <1>4, <1>5

=============================================================================
