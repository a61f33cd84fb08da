---------------------------- MODULE RssFeedProofs ----------------------------
(***************************************************************************)
(* Proofs about the RSS reader for any number of feeds, callers and items  *)
(* and any sizes of lists and cache.  The types hold however the steps of  *)
(* updates interleave.  That no item is passed over or kept twice and that *)
(* the latest one is announced holds until two updates are in memory at    *)
(* once; their downloads may overlap in any way.                           *)
(***************************************************************************)
EXTENDS RssFeed, FiniteSetTheorems, WellFoundedInduction, TLAPS

\* The types, and which of a caller's own values are empty where.
TypeInv ==
  /\ posted \in [Feed -> SUBSET Item]
  /\ seen \subseteq Item /\ dropped \subseteq Item
  /\ conf \in Confs /\ boot \in 1..MaxBoot
  /\ rssMark \in [Feed -> Item \cup {0}]
  /\ rssCache \in Seq(Item)
  /\ latest \in Item \cup {0}
  /\ pc \in [Caller -> {"idle", "start", "fetch"} \cup Memory]
  /\ todo \in [Caller -> Seq(Feed)]
  /\ answer \in [Caller -> SUBSET Item] /\ loaded \in [Caller -> Seq(Item)]
  /\ \A g \in Caller : pc[g] \in {"fetch", "apply", "mark", "load", "store", "cut", "trim"}
                        => todo[g] # <<>>
  /\ \A g \in Caller : pc[g] \in {"mark", "load", "store"} => answer[g] # {}
  /\ \A g \in Caller : pc[g] = "trim" => Len(loaded[g]) <= CacheMax
  /\ Len(rssCache) <= CacheMax \/ \E g \in Caller : pc[g] \in {"cut", "trim"}

\* Items are numbered as they are published, each by one feed.
Numbered == \E n \in Nat : Published = 1..n
OneFeed  == \A f, e \in Feed : posted[f] \cap posted[e] # {} => f = e

\* An answer holds all a feed has published between its oldest and its newest
\* item, also when more has been published since.
Whole(S, f) ==
  /\ S \subseteq posted[f]
  /\ \A j, k \in S, i \in posted[f] : j <= i /\ i <= k => i \in S

\* The new items of an answer are all after the mark, or all of the answer.
Fresh(S, f) ==
  /\ S \subseteq posted[f]
  /\ \A i \in S : rssMark[f] = 0 \/ i > rssMark[f]
  /\ \A k \in S, i \in posted[f] :
       i <= k /\ (IF rssMark[f] = 0 THEN \E j \in S : j <= i ELSE i > rssMark[f]) => i \in S

-----------------------------------------------------------------------------
(* Lemmas about sets of items                                               *)

\* A set of items that is not empty has a latest one, which Max names.
LEMMA MaxExists ==
  ASSUME NEW S \in SUBSET Item, S # {}
  PROVE  Max(S) \in S /\ \A j \in S : j <= Max(S)
<1>1. MaxItem \in Nat  BY SizeAssumption
<1>2. PICK d \in {n \in Nat : \E i \in S : n = MaxItem - i} :
        \A e \in {n \in Nat : \E i \in S : n = MaxItem - i} : ~(<<e, d>> \in OpToRel(<, Nat))
  <2>1. {n \in Nat : \E i \in S : n = MaxItem - i} # {}
    <3>1. PICK i \in S : TRUE  OBVIOUS
    <3>2. MaxItem - i \in Nat  BY <1>1, <3>1 DEF Item
    <3>3. QED  BY <3>1, <3>2
  <2>2. QED  BY <2>1, NatLessThanWellFounded, WFMin
<1>3. PICK i \in S : d = MaxItem - i  BY <1>2
<1>4. \A j \in S : j <= i
  <2>1. SUFFICES ASSUME NEW j \in S, ~(j <= i) PROVE FALSE  OBVIOUS
  <2>2. MaxItem - j \in Nat /\ MaxItem - j < d  BY <1>1, <1>3, <2>1 DEF Item
  <2>3. ~(<<MaxItem - j, d>> \in OpToRel(<, Nat))  BY <1>2, <2>2
  <2>4. QED  BY <1>2, <2>2, <2>3 DEF OpToRel
<1>5. \E x \in S : \A y \in S : x >= y
  BY <1>3, <1>4 DEF Item
<1>6. Max(S) \in S /\ \A y \in S : Max(S) >= y
  BY <1>5 DEF Max
<1>7. QED  BY <1>6 DEF Item

\* An item no other one is later than is the latest.
LEMMA MaxIs ==
  ASSUME NEW S \in SUBSET Item, NEW m \in S, \A j \in S : j <= m
  PROVE  Max(S) = m
<1>1. Max(S) \in S /\ m <= Max(S) /\ Max(S) <= m  BY MaxExists
<1>2. S \subseteq Nat  BY DEF Item
<1>3. Max(S) \in Nat /\ m \in Nat  BY <1>1, <1>2
<1>4. QED  BY <1>1, <1>3

\* The next item is a number no feed has used yet.
LEMMA NextItem ==
  ASSUME Numbered
  PROVE  LET i == Cardinality(Published) + 1
         IN i \in Nat /\ i # 0 /\ i \notin Published /\ (\A j \in Published : j < i)
            /\ Published \cup {i} = 1..i
<1>1. PICK n \in Nat : Published = 1..n  BY DEF Numbered
<1>2. Cardinality(Published) = n
  BY <1>1, FS_Interval, n - 1 + 1 = n
<1>3. QED  BY <1>1, <1>2

\* A site lists the items after any listed one too, and what it lists is whole.
LEMMA ListedWhole ==
  ASSUME TypeInv, Numbered, NEW f \in Feed
  PROVE  Whole(Listed(f), f)
<1>1. PICK n \in Nat : Published = 1..n  BY DEF Numbered
<1>2. posted[f] \subseteq 1..n /\ IsFiniteSet(1..n)
  BY <1>1, FS_Interval DEF Published
<1>3. ASSUME NEW j \in Listed(f), NEW i \in posted[f], j <= i PROVE i \in Listed(f)
  <2> DEFINE Above(k) == {l \in posted[f] : l > k}
  <2>1. IsFiniteSet(Above(j))  BY <1>2, FS_Subset
  <2>2. Above(i) \subseteq Above(j)  BY <1>2, <1>3 DEF Listed
  <2>3. Cardinality(Above(i)) <= Cardinality(Above(j))  BY <2>1, <2>2, FS_Subset
  <2>4. Cardinality(Above(i)) \in Nat /\ Cardinality(Above(j)) \in Nat
    BY <2>1, <2>2, FS_Subset, FS_CardinalityType
  <2>5. Cardinality(Above(j)) < Window[f]  BY <1>3 DEF Listed
  <2>6. Cardinality(Above(i)) < Window[f]  BY <2>3, <2>4, <2>5, WindowAssumption
  <2>7. QED  BY <2>6, <1>3 DEF Listed
<1>4. QED  BY <1>3 DEF Whole, Listed

-----------------------------------------------------------------------------
(* Lemmas about the order of a list                                         *)

\* Each place of the ordered list is the place of exactly one item.
LEMMA PlaceIsOneToOne ==
  ASSUME NEW n \in Nat, NEW s \in [1..n -> Nat]
  PROVE  /\ \A i \in 1..n : Place(s, i) \in 1..n
         /\ \A i, k \in 1..n : Place(s, i) < Place(s, k) => s[i] >= s[k]
         /\ \A i, k \in 1..n : Place(s, i) = Place(s, k) => i = k
         /\ \A k \in 1..n : \E i \in 1..n : Place(s, i) = k
<1> DEFINE Before(i) == {j \in 1..n : s[j] > s[i] \/ (s[j] = s[i] /\ j <= i)}
<1>1. \A i \in 1..n : Place(s, i) = Cardinality(Before(i))
  BY DEF Place
<1>2. IsFiniteSet(1..n) /\ Cardinality(1..n) = n
  BY FS_Interval, n - 1 + 1 = n
<1>3. ASSUME NEW i \in 1..n
      PROVE  /\ IsFiniteSet(Before(i)) /\ Cardinality(Before(i)) \in Nat
             /\ 1 <= Cardinality(Before(i)) /\ Cardinality(Before(i)) <= n
  <2>1. i \in Before(i)  OBVIOUS
  <2>2. IsFiniteSet(Before(i)) /\ Cardinality(Before(i)) <= n
    BY <1>2, FS_Subset, Before(i) \in SUBSET (1..n)
  <2>3. Cardinality(Before(i)) \in Nat /\ Cardinality(Before(i)) # 0
    BY <2>1, <2>2, FS_CardinalityType, FS_EmptySet
  <2>4. QED  BY <2>2, <2>3
<1>4. ASSUME NEW i \in 1..n, NEW k \in 1..n, s[i] > s[k] \/ (s[i] = s[k] /\ i < k)
      PROVE  Cardinality(Before(i)) < Cardinality(Before(k))
  <2>1. Before(i) \subseteq Before(k)  BY <1>4
  <2>2. k \in Before(k) /\ k \notin Before(i)  BY <1>4
  <2>3. Cardinality(Before(i)) <= Cardinality(Before(k))
        /\ Cardinality(Before(i)) # Cardinality(Before(k))
    BY <1>3, <2>1, <2>2, FS_Subset
  <2>4. Cardinality(Before(i)) \in Nat /\ Cardinality(Before(k)) \in Nat  BY <1>3
  <2> HIDE DEF Before
  <2>5. QED  BY <2>3, <2>4
<1> HIDE DEF Before
<1>5. \A i \in 1..n : Place(s, i) \in Nat /\ s[i] \in Nat
  BY <1>1, <1>3
<1>6. \A i, k \in 1..n : s[i] > s[k] \/ (s[i] = s[k] /\ i < k) => Place(s, i) < Place(s, k)
  BY <1>1, <1>4
<1>7. \A i, k \in 1..n : Place(s, i) < Place(s, k) => s[i] >= s[k]
  BY <1>5, <1>6
<1>8. \A i, k \in 1..n : Place(s, i) = Place(s, k) => i = k
  <2>1. SUFFICES ASSUME NEW i \in 1..n, NEW k \in 1..n, i # k PROVE Place(s, i) # Place(s, k)
    OBVIOUS
  <2>2. \/ s[i] > s[k] \/ (s[i] = s[k] /\ i < k)
        \/ s[k] > s[i] \/ (s[k] = s[i] /\ k < i)
    BY <2>1
  <2>3. Place(s, i) < Place(s, k) \/ Place(s, k) < Place(s, i)  BY <1>6, <2>2
  <2>4. QED  BY <1>5, <2>3
<1>9. \A i \in 1..n : Place(s, i) \in 1..n
  BY <1>1, <1>3
<1>10. \A k \in 1..n : \E i \in 1..n : Place(s, i) = k
  <2> DEFINE r == [i \in 1..n |-> Place(s, i)]
  <2>1. r \in Injection(1..n, 1..n)  BY <1>8, <1>9 DEF Injection, IsInjective
  <2>2. r \in Surjection(1..n, 1..n)  BY <1>2, <2>1, FS_Injection
  <2>3. QED  BY <2>2 DEF Surjection
<1>11. QED  BY <1>7, <1>8, <1>9, <1>10

\* Sorting a list moves its items and puts none before a later one.
LEMMA InOrderOf ==
  ASSUME NEW n \in Nat, NEW s \in [1..n -> Nat]
  PROVE  /\ InOrder(s) \in [1..n -> Nat]
         /\ \A k, l \in 1..n : k < l => InOrder(s)[k] >= InOrder(s)[l]
         /\ \A k \in 1..n : \E i \in 1..n : InOrder(s)[k] = s[i]
         /\ \A i \in 1..n : \E k \in 1..n : InOrder(s)[k] = s[i]
         /\ IsInjective(s) => IsInjective(InOrder(s))
<1> DEFINE q(k) == CHOOSE i \in 1..n : Place(s, i) = k
<1>0. /\ \A i \in 1..n : Place(s, i) \in 1..n
      /\ \A i, k \in 1..n : Place(s, i) < Place(s, k) => s[i] >= s[k]
      /\ \A i, k \in 1..n : Place(s, i) = Place(s, k) => i = k
      /\ \A k \in 1..n : \E i \in 1..n : Place(s, i) = k
  BY PlaceIsOneToOne
<1>1. \A k \in 1..n : q(k) \in 1..n /\ Place(s, q(k)) = k
  BY <1>0
<1>2. InOrder(s) = [k \in 1..n |-> s[q(k)]]
  BY DEF InOrder
<1> HIDE DEF q
<1>3. InOrder(s) \in [1..n -> Nat] /\ \A k \in 1..n : InOrder(s)[k] = s[q(k)]
  BY <1>1, <1>2
<1>4. \A k, l \in 1..n : k < l => InOrder(s)[k] >= InOrder(s)[l]
  <2>1. SUFFICES ASSUME NEW k \in 1..n, NEW l \in 1..n, k < l PROVE s[q(k)] >= s[q(l)]
    BY <1>3
  <2>2. q(k) \in 1..n /\ q(l) \in 1..n /\ Place(s, q(k)) < Place(s, q(l))  BY <1>1, <2>1
  <2>3. QED  BY <1>0, <2>2
<1>5. \A k \in 1..n : \E i \in 1..n : InOrder(s)[k] = s[i]
  BY <1>1, <1>3
<1>6. \A i \in 1..n : \E k \in 1..n : InOrder(s)[k] = s[i]
  <2>1. SUFFICES ASSUME NEW i \in 1..n PROVE InOrder(s)[Place(s, i)] = s[i] /\ Place(s, i) \in 1..n
    OBVIOUS
  <2>2. Place(s, i) \in 1..n  BY <1>0
  <2> DEFINE k == Place(s, i)
  <2>3. q(k) \in 1..n /\ Place(s, q(k)) = k  BY <1>1, <2>2
  <2> HIDE DEF k
  <2>4. q(k) = i  BY <1>0, <2>3 DEF k
  <2>5. QED  BY <1>3, <2>2, <2>4 DEF k
<1>7. IsInjective(s) => IsInjective(InOrder(s))
  BY <1>1, <1>3 DEF IsInjective
<1>8. QED  BY <1>3, <1>4, <1>5, <1>6, <1>7

\* The items of a set, listed: each once, the latest at the head.
LEMMA DescendingOf ==
  ASSUME NEW S \in SUBSET Item
  PROVE  LET d == Descending(S) IN
         /\ IsFiniteSet(S) /\ Cardinality(S) \in Nat
         /\ d \in [1..Cardinality(S) -> S]
         /\ IsInjective(d)
         /\ \A i \in S : \E k \in 1..Cardinality(S) : d[k] = i
         /\ \A k, l \in 1..Cardinality(S) : k < l => d[k] >= d[l]
<1> DEFINE n == Cardinality(S)
           s == SetToSeq(S)
<1>1. IsFiniteSet(S) /\ n \in Nat
  <2>1. IsFiniteSet(Item)  BY FS_Interval, SizeAssumption DEF Item
  <2>2. QED  BY <2>1, FS_Subset, FS_CardinalityType
<1>2. ExistsBijection(1..n, S)  BY <1>1, FS_CardinalityType
<1>3. \E b \in [1..n -> S] : IsInjective(b)
  BY <1>2 DEF ExistsBijection, Bijection, Injection
<1>4. s \in [1..n -> S] /\ IsInjective(s)
  BY <1>3 DEF SetToSeq
<1>5. s \in Surjection(1..n, S)
  <2>1. Cardinality(1..n) = Cardinality(S)  BY <1>1, FS_Interval, n - 1 + 1 = n
  <2>2. s \in Injection(1..n, S)  BY <1>4 DEF Injection
  <2>3. QED  BY <1>1, <2>1, <2>2, FS_Injection
<1>6. s \in [1..n -> Nat]
  <2> HIDE DEF s, n
  <2>1. S \subseteq Nat  BY DEF Item
  <2>2. QED  BY <1>4, <2>1
<1>7. \A i \in S : \E k \in 1..n : s[k] = i  BY <1>5 DEF Surjection
<1>8. Descending(S) = InOrder(s)  BY DEF Descending
<1> HIDE DEF s
<1>9. /\ InOrder(s) \in [1..n -> Nat]
      /\ \A k, l \in 1..n : k < l => InOrder(s)[k] >= InOrder(s)[l]
      /\ \A k \in 1..n : \E i \in 1..n : InOrder(s)[k] = s[i]
      /\ \A i \in 1..n : \E k \in 1..n : InOrder(s)[k] = s[i]
      /\ IsInjective(InOrder(s))
  BY <1>1, <1>4, <1>6, InOrderOf
<1> HIDE DEF n
<1>10. InOrder(s) \in [1..n -> S]  BY <1>4, <1>9
<1>11. \A i \in S : \E k \in 1..n : InOrder(s)[k] = i  BY <1>7, <1>9
<1>12. QED  BY <1>1, <1>8, <1>9, <1>10, <1>11 DEF n

\* Where the items of two lists are when one is put before the other.
LEMMA Joined ==
  ASSUME NEW S, NEW s \in Seq(S), NEW t \in Seq(S)
  PROVE  /\ s \o t \in Seq(S) /\ Len(s \o t) = Len(s) + Len(t)
         /\ \A i \in 1..Len(s) : (s \o t)[i] = s[i]
         /\ \A i \in 1..Len(t) : (s \o t)[Len(s) + i] = t[i]
         /\ \A i \in 1..Len(s \o t) : i \notin 1..Len(s) => i - Len(s) \in 1..Len(t)
OBVIOUS

\* The cut keeps the first items.
LEMMA TruncatedOf ==
  ASSUME NEW s \in Seq(Item)
  PROVE  /\ Truncated(s) \in Seq(Item)
         /\ Len(Truncated(s)) = IF Len(s) < CacheMax THEN Len(s) ELSE CacheMax
         /\ \A i \in 1..Len(Truncated(s)) : Truncated(s)[i] = s[i]
<1> DEFINE n == IF Len(s) < CacheMax THEN Len(s) ELSE CacheMax
<1>1. n \in Nat /\ n <= Len(s)  BY SizeAssumption
<1>2. Truncated(s) = SubSeq(s, 1, n)  BY DEF Truncated
<1> HIDE DEF n
<1>3. SubSeq(s, 1, n) \in Seq(Item) /\ Len(SubSeq(s, 1, n)) = n
      /\ \A i \in 1..n : SubSeq(s, 1, n)[i] = s[i]
  BY <1>1
<1>4. QED  BY <1>2, <1>3 DEF n

\* The cut keeps no more than the cache holds.
LEMMA TruncatedFits ==
  ASSUME NEW s \in Seq(Item)
  PROVE  Truncated(s) \in Seq(Item) /\ Len(Truncated(s)) <= CacheMax
BY TruncatedOf, SizeAssumption

\* Sorting a list of items keeps them, the latest at the head.
LEMMA SortedOf ==
  ASSUME NEW s \in Seq(Item)
  PROVE  LET c == Sorted(s) IN
         /\ c \in Seq(Item) /\ Len(c) = Len(s)
         /\ \A k \in 1..Len(c) : \E i \in 1..Len(s) : c[k] = s[i]
         /\ \A i \in 1..Len(s) : \E k \in 1..Len(c) : c[k] = s[i]
         /\ IsInjective(s) => IsInjective(c)
         /\ \A k \in 1..Len(c) : c[k] <= c[1]
<1> DEFINE n == Len(s)
           c == Sorted(s)
<1>1. n \in Nat /\ s \in [1..n -> Nat] /\ \A i \in 1..n : s[i] \in Item
  <2>1. n \in Nat /\ s \in [1..n -> Item]  OBVIOUS
  <2>2. Item \subseteq Nat  BY DEF Item
  <2> HIDE DEF n
  <2>3. QED  BY <2>1, <2>2
<1>2. /\ c \in [1..n -> Nat]
      /\ \A k, l \in 1..n : k < l => c[k] >= c[l]
      /\ \A k \in 1..n : \E i \in 1..n : c[k] = s[i]
      /\ \A i \in 1..n : \E k \in 1..n : c[k] = s[i]
      /\ IsInjective(s) => IsInjective(c)
  <2>1. c = InOrder(s)  BY DEF Sorted
  <2> HIDE DEF c, n
  <2>2. QED  BY <1>1, <2>1, InOrderOf
<1> HIDE DEF n, c
<1>3. \A k \in 1..n : c[k] \in Item  BY <1>1, <1>2
<1>4. c \in Seq(Item) /\ Len(c) = n  BY <1>1, <1>2, <1>3
<1>5. \A k \in 1..n : c[k] <= c[1]
  <2>1. SUFFICES ASSUME NEW k \in 1..n PROVE c[k] <= c[1]  OBVIOUS
  <2>2. 1 \in 1..n /\ (k = 1 \/ 1 < k)  BY <1>1
  <2>3. c[k] \in Nat /\ c[1] \in Nat  BY <1>2, <2>2
  <2>4. QED  BY <1>2, <2>2, <2>3
<1>6. QED  BY <1>2, <1>4, <1>5 DEF n, c

-----------------------------------------------------------------------------
(* The types                                                                *)

\* At the start.
LEMMA TypeInit == Init => TypeInv
BY SizeAssumption, ConfAssumption DEF Init, Started, TypeInv, Memory

\* The steps that change the caller's place and its list of feeds only, or its
\* answer.
LEMMA TypeCaller ==
  ASSUME TypeInv,
         \E g \in Caller : \/ Begin(g) \/ FetchFails(g) \/ ReadMark(g) \/ LoadCache(g) \/ CutCache(g)
                           \/ \E f \in Feed : Fetch(g, f)
  PROVE  TypeInv'
<1>0. PICK g \in Caller : \/ Begin(g) \/ FetchFails(g) \/ ReadMark(g) \/ LoadCache(g) \/ CutCache(g)
                          \/ \E f \in Feed : Fetch(g, f)
  OBVIOUS
<1>1. CASE Begin(g)
  <2>1. /\ todo' = [todo EXCEPT ![g] = conf]
        /\ pc' = [pc EXCEPT ![g] = IF conf = <<>> THEN "sort" ELSE "fetch"]
        /\ pc[g] \in {"idle", "start"}
        /\ UNCHANGED <<posted, conf, memory, answer, loaded, boot, history>>
    BY <1>1 DEF Begin, Goto, After, Feeds
  <2>2. conf \in Seq(Feed)  BY ConfAssumption DEF TypeInv
  <2>3. QED  BY <2>1, <2>2 DEF TypeInv, Memory, memory, history
<1>2. CASE FetchFails(g)
  <2>1. /\ pc[g] = "fetch" /\ todo' = [todo EXCEPT ![g] = Tail(@)]
        /\ pc' = [pc EXCEPT ![g] = IF Tail(todo[g]) = <<>> THEN "sort" ELSE "fetch"]
        /\ UNCHANGED <<posted, conf, memory, answer, loaded, boot, history>>
    BY <1>2 DEF FetchFails, NextFeed, Goto, After
  <2>2. Tail(todo[g]) \in Seq(Feed)  BY <2>1 DEF TypeInv
  <2>3. QED  BY <2>1, <2>2 DEF TypeInv, Memory, memory, history
<1>3. CASE ReadMark(g)
  <2> DEFINE new == NewItems(answer[g], rssMark[Head(todo[g])])
  <2>1. /\ pc[g] = "apply" /\ answer' = [answer EXCEPT ![g] = new]
        /\ pc' = [pc EXCEPT ![g] = IF new = {} THEN "cut" ELSE "mark"]
        /\ UNCHANGED <<posted, conf, memory, todo, loaded, boot, history>>
    BY <1>3 DEF ReadMark, Goto
  <2>2. new \in SUBSET Item  BY DEF TypeInv, NewItems
  <2> HIDE DEF new
  <2>3. QED  BY <2>1, <2>2 DEF TypeInv, Memory, memory, history
<1>4. CASE LoadCache(g)
  <2>1. /\ pc[g] = "load" /\ loaded' = [loaded EXCEPT ![g] = rssCache]
        /\ pc' = [pc EXCEPT ![g] = "store"]
        /\ UNCHANGED <<posted, conf, memory, todo, answer, boot, history>>
    BY <1>4 DEF LoadCache, Goto
  <2>2. QED  BY <2>1 DEF TypeInv, Memory, memory, history
<1>5. CASE CutCache(g)
  <2>1. UNCHANGED <<posted, conf, memory, answer, boot, history>> /\ pc[g] = "cut"
    BY <1>5 DEF CutCache
  <2>2. CASE Len(rssCache) > CacheMax /\ loaded' = [loaded EXCEPT ![g] = Truncated(rssCache)]
             /\ pc' = [pc EXCEPT ![g] = "trim"] /\ UNCHANGED todo
    <3>1. Truncated(rssCache) \in Seq(Item) /\ Len(Truncated(rssCache)) <= CacheMax
      BY TruncatedFits DEF TypeInv
    <3>2. QED  BY <2>1, <2>2, <3>1 DEF TypeInv, Memory, memory, history
  <2>3. CASE Len(rssCache) <= CacheMax /\ todo' = [todo EXCEPT ![g] = Tail(@)] /\ UNCHANGED loaded
             /\ pc' = [pc EXCEPT ![g] = IF Tail(todo[g]) = <<>> THEN "sort" ELSE "fetch"]
    <3>1. Tail(todo[g]) \in Seq(Feed)  BY <2>1 DEF TypeInv
    <3>2. QED  BY <2>1, <2>3, <3>1 DEF TypeInv, Memory, memory, history
  <2>4. QED  BY <1>5, <2>2, <2>3 DEF CutCache, NextFeed, Goto, After
<1>6. CASE \E f \in Feed : Fetch(g, f)
  <2>1. PICK f \in Feed : Fetch(g, f)  BY <1>6
  <2>2. /\ pc[g] = "fetch" /\ answer' = [answer EXCEPT ![g] = Listed(f)]
        /\ pc' = [pc EXCEPT ![g] = "apply"]
        /\ UNCHANGED <<posted, conf, memory, todo, loaded, boot, history>>
    BY <2>1 DEF Fetch, Goto
  <2>3. Listed(f) \in SUBSET Item  BY DEF TypeInv, Listed
  <2>4. QED  BY <2>2, <2>3 DEF TypeInv, Memory, memory, history
<1>7. QED  BY <1>0, <1>1, <1>2, <1>3, <1>4, <1>5, <1>6

\* The steps that write rssMark, rssCache or the announced item.
LEMMA TypeMemory ==
  ASSUME TypeInv,
         \E g \in Caller : WriteMark(g) \/ StoreCache(g) \/ TrimCache(g) \/ SortCache(g) \/ Announce(g)
  PROVE  TypeInv'
<1>0. PICK g \in Caller : WriteMark(g) \/ StoreCache(g) \/ TrimCache(g) \/ SortCache(g) \/ Announce(g)
  OBVIOUS
<1>1. CASE WriteMark(g)
  <2>1. /\ pc[g] = "mark" /\ rssMark' = [rssMark EXCEPT ![Head(todo[g])] = Max(answer[g])]
        /\ pc' = [pc EXCEPT ![g] = "load"]
        /\ UNCHANGED <<posted, conf, rssCache, latest, todo, answer, loaded, boot, history>>
    BY <1>1 DEF WriteMark, Goto
  <2>2. Max(answer[g]) \in Item
    <3>1. answer[g] \in SUBSET Item /\ answer[g] # {}  BY <2>1 DEF TypeInv
    <3>2. QED  BY <3>1, MaxExists
  <2>3. QED  BY <2>1, <2>2 DEF TypeInv, Memory, history
<1>2. CASE StoreCache(g)
  <2>1. /\ pc[g] = "store" /\ rssCache' = Descending(answer[g]) \o loaded[g]
        /\ seen' = seen \cup answer[g]
        /\ answer' = [answer EXCEPT ![g] = {}] /\ loaded' = [loaded EXCEPT ![g] = <<>>]
        /\ pc' = [pc EXCEPT ![g] = "cut"]
        /\ UNCHANGED <<posted, conf, rssMark, latest, todo, boot, dropped>>
    BY <1>2 DEF StoreCache, Goto
  <2>2. rssCache' \in Seq(Item)
    <3>1. answer[g] \in SUBSET Item /\ loaded[g] \in Seq(Item)  BY DEF TypeInv
    <3>2. Descending(answer[g]) \in [1..Cardinality(answer[g]) -> answer[g]]
          /\ Cardinality(answer[g]) \in Nat
      BY <3>1, DescendingOf
    <3>3. Descending(answer[g]) \in Seq(Item)  BY <3>1, <3>2
    <3>4. QED  BY <2>1, <3>1, <3>3
  <2>3. QED  BY <2>1, <2>2 DEF TypeInv, Memory
<1>3. CASE TrimCache(g)
  <2>1. /\ pc[g] = "trim" /\ rssCache' = loaded[g]
        /\ dropped' = IF met THEN dropped ELSE dropped \cup (ToSet(rssCache) \ ToSet(loaded[g]))
        /\ loaded' = [loaded EXCEPT ![g] = <<>>] /\ todo' = [todo EXCEPT ![g] = Tail(@)]
        /\ pc' = [pc EXCEPT ![g] = IF Tail(todo[g]) = <<>> THEN "sort" ELSE "fetch"]
        /\ UNCHANGED <<posted, conf, rssMark, latest, answer, boot, seen>>
    BY <1>3 DEF TrimCache, NextFeed, Goto, After
  <2>2. Tail(todo[g]) \in Seq(Feed)  BY <2>1 DEF TypeInv
  <2>3. ToSet(rssCache) \subseteq Item  BY DEF TypeInv, ToSet
  <2>4. dropped' \subseteq Item  BY <2>1, <2>3 DEF TypeInv
  <2>5. rssCache' \in Seq(Item) /\ Len(rssCache') <= CacheMax  BY <2>1 DEF TypeInv
  <2>6. UNCHANGED <<posted, conf, rssMark, latest, answer, boot, seen>> /\ todo' \in [Caller -> Seq(Feed)]
        /\ loaded' \in [Caller -> Seq(Item)] /\ pc' \in [Caller -> {"idle", "start", "fetch"} \cup Memory]
    BY <2>1, <2>2 DEF TypeInv, Memory
  <2>7. \A h \in Caller : pc'[h] \in {"fetch", "apply", "mark", "load", "store", "cut", "trim"} => todo'[h] # <<>>
    BY <2>1 DEF TypeInv
  <2>8. \A h \in Caller : /\ pc'[h] \in {"mark", "load", "store"} => answer'[h] # {}
                          /\ pc'[h] = "trim" => Len(loaded'[h]) <= CacheMax
    BY <2>1 DEF TypeInv
  <2>9. QED  BY <2>4, <2>5, <2>6, <2>7, <2>8 DEF TypeInv
<1>4. CASE SortCache(g)
  <2>1. /\ pc[g] = "sort" /\ rssCache' = Sorted(rssCache) /\ pc' = [pc EXCEPT ![g] = "announce"]
        /\ UNCHANGED <<posted, conf, rssMark, latest, todo, answer, loaded, boot, history>>
    BY <1>4 DEF SortCache, Goto
  <2>2. rssCache' \in Seq(Item) /\ Len(rssCache') = Len(rssCache)
    BY <2>1, SortedOf DEF TypeInv
  <2>3. QED  BY <2>1, <2>2 DEF TypeInv, Memory, history
<1>5. CASE Announce(g)
  <2>1. /\ pc[g] = "announce" /\ latest' = IF rssCache = <<>> THEN latest ELSE Head(rssCache)
        /\ pc' = [pc EXCEPT ![g] = "idle"]
        /\ UNCHANGED <<posted, conf, rssMark, rssCache, todo, answer, loaded, boot, history>>
    BY <1>5 DEF Announce, Goto
  <2>2. latest' \in Item \cup {0}  BY <2>1 DEF TypeInv
  <2>3. QED  BY <2>1, <2>2 DEF TypeInv, Memory, history
<1>6. QED  BY <1>0, <1>1, <1>2, <1>3, <1>4, <1>5

\* Every step keeps the types.
LEMMA TypeNext == TypeInv /\ [Next]_vars => TypeInv'
<1> SUFFICES ASSUME TypeInv, [Next]_vars PROVE TypeInv'  OBVIOUS
<1>1. CASE \E f \in Feed : Publish(f)
  <2>1. PICK f \in Feed : Publish(f)  BY <1>1
  <2> DEFINE i == Cardinality(Published) + 1
  <2>2. i <= MaxItem /\ posted' = [posted EXCEPT ![f] = @ \cup {i}]
        /\ UNCHANGED <<conf, memory, pc, todo, answer, loaded, boot, history>>
    BY <2>1 DEF Publish
  <2>3. i \in Item
    <3>1. IsFiniteSet(Item)  BY FS_Interval, SizeAssumption DEF Item
    <3>2. Published \subseteq Item  BY DEF TypeInv, Published
    <3>3. Cardinality(Published) \in Nat  BY <3>1, <3>2, FS_Subset, FS_CardinalityType
    <3>4. QED  BY <2>2, <3>3, SizeAssumption DEF Item
  <2> HIDE DEF i
  <2>4. QED  BY <2>2, <2>3 DEF TypeInv, memory, history
<1>2. CASE \E c \in Confs : SetFeeds(c)
  <2>1. PICK c \in Confs : SetFeeds(c)  BY <1>2
  <2>2. /\ conf' \in Confs
        /\ UNCHANGED pc \/ \E g \in Request : pc[g] = "idle" /\ pc' = [pc EXCEPT ![g] = "start"]
        /\ UNCHANGED <<posted, memory, todo, answer, loaded, boot, history>>
    BY <2>1 DEF SetFeeds
  <2>3. QED  BY <2>2 DEF TypeInv, memory, history, Memory, Caller
<1>3. CASE Restart
  BY <1>3, SizeAssumption DEF Restart, TypeInv, Memory
<1>4. CASE UNCHANGED vars
  BY <1>4 DEF TypeInv, vars, memory, history
<1>5. QED  BY <1>1, <1>2, <1>3, <1>4, TypeCaller, TypeMemory DEF Next, InMemory

\* However the updates of any number of goroutines interleave, every variable
\* keeps its type, and the cache is longer than it should be only while an update
\* is about to cut it.
THEOREM RssTypeCorrect == Spec => []TypeOK
<1>1. Init => TypeInv /\ ticking \in BOOLEAN /\ met \in BOOLEAN
  BY TypeInit DEF Init, Started
<1>2. ticking \in BOOLEAN /\ met \in BOOLEAN /\ [Next]_vars => (ticking \in BOOLEAN /\ met \in BOOLEAN)'
  <2> SUFFICES ASSUME ticking \in BOOLEAN, met \in BOOLEAN, [Next]_vars
               PROVE  ticking' \in BOOLEAN /\ met' \in BOOLEAN
    OBVIOUS
  <2>1. UNCHANGED ticking \/ Restart
    BY DEF Next, Publish, SetFeeds, Begin, FetchFails, Fetch, InMemory, ReadMark, WriteMark,
                LoadCache, StoreCache, CutCache, TrimCache, SortCache, Announce, vars
  <2>2. ticking' \in BOOLEAN  BY <2>1 DEF Restart
  <2>3. UNCHANGED met \/ met' = FALSE \/ \E g \in Caller : \E at : Goto(g, at)
    BY DEF Next, Publish, SetFeeds, Restart, Begin, FetchFails, Fetch, InMemory, ReadMark, WriteMark,
                LoadCache, StoreCache, CutCache, TrimCache, SortCache, Announce, NextFeed, vars
  <2>4. met' \in BOOLEAN  BY <2>3 DEF Goto
  <2>5. QED  BY <2>2, <2>4
<1>3. TypeInv /\ ticking \in BOOLEAN /\ met \in BOOLEAN => TypeOK
  <2>1. ASSUME TypeInv PROVE /\ posted \in [Feed -> SUBSET Item] /\ seen \subseteq Item /\ dropped \subseteq Item
                             /\ conf \in Confs /\ rssMark \in [Feed -> Item \cup {0}]
                             /\ rssCache \in Seq(Item)
                             /\ Len(rssCache) <= CacheMax \/ \E c \in Caller : pc[c] \in {"cut", "trim"}
                             /\ latest \in Item \cup {0}
                             /\ pc \in [Caller -> {"idle", "start", "fetch"} \cup Memory]
                             /\ todo \in [Caller -> Seq(Feed)]
                             /\ answer \in [Caller -> SUBSET Item] /\ loaded \in [Caller -> Seq(Item)]
                             /\ boot \in 1..MaxBoot
    BY <2>1 DEF TypeInv
  <2>2. QED  BY <2>1 DEF TypeOK
<1>4. Spec => [](TypeInv /\ ticking \in BOOLEAN /\ met \in BOOLEAN)
  BY <1>1, <1>2, TypeNext, PTL DEF Spec
<1>5. QED  BY <1>3, <1>4, PTL

-----------------------------------------------------------------------------
(* The inductive invariant                                                  *)

\* As long as no two updates have met in memory, one at most is there.
Alone == \A g, h \in Caller : pc[g] \in Memory /\ pc[h] \in Memory => g = h

\* What an update has in hand at each place in memory.
InHand(g) ==
  /\ pc[g] = "apply" => Whole(answer[g], Head(todo[g]))
  /\ pc[g] = "mark"  => Fresh(answer[g], Head(todo[g]))
  /\ pc[g] \in {"load", "store"} => answer[g] \cap seen = {}
  /\ pc[g] = "store" => loaded[g] = rssCache
  /\ pc[g] = "trim"  => loaded[g] = Truncated(rssCache)

\* The mark of a feed is the latest item taken of it, and there is one as soon
\* as something was taken.
MarkInv ==
  /\ Taken \subseteq Published
  /\ \A f \in Feed : IF rssMark[f] = 0 THEN Taken \cap posted[f] = {}
                                      ELSE rssMark[f] \in Taken \cap posted[f]
  /\ \A f \in Feed : \A i \in Taken \cap posted[f] : i <= rssMark[f]

GapInv == \A f \in Feed : \A old \in Taken \cap posted[f] :
            {i \in posted[f] : old <= i /\ i <= rssMark[f]} \subseteq Taken

\* The cache holds what was read and not cut away, each item once.
CacheInv ==
  /\ dropped \subseteq seen
  /\ \A k \in 1..Len(rssCache) : rssCache[k] \in seen \ dropped
  /\ \A i \in seen \ dropped : \E k \in 1..Len(rssCache) : rssCache[k] = i
  /\ IsInjective(rssCache)

\* Its first item is the latest once it has been sorted, and then announced.
LatestFirst == \A k \in 1..Len(rssCache) : rssCache[k] <= rssCache[1]

LatestInv ==
  /\ \A g \in Caller : pc[g] = "announce" => LatestFirst
  /\ (\A g \in Caller : pc[g] \in {"idle", "start"}) =>
       LatestFirst /\ (rssCache # <<>> => latest = rssCache[1])

Calm == Alone /\ (\A g \in Caller : InHand(g)) /\ MarkInv /\ GapInv /\ CacheInv /\ LatestInv

FeedInv == TypeInv /\ Numbered /\ OneFeed /\ (~met => Calm)

-----------------------------------------------------------------------------
(* Lemmas about the callers                                                 *)

\* A caller that goes on without meeting another one leaves those where they are,
\* outside memory if it is there itself.
LEMMA Alone1 ==
  ASSUME TypeInv, ~met => Alone, NEW g \in Caller, NEW at \in {"idle", "fetch"} \cup Memory,
         Goto(g, at), ~met'
  PROVE  /\ ~met /\ Alone /\ Alone' /\ pc'[g] = at
         /\ \A h \in Caller : h # g => pc'[h] = pc[h]
         /\ at \in Memory \/ pc[g] \in Memory => \A h \in Caller : h # g => pc[h] \notin Memory
<1>1. ~met /\ ~(at \in Memory /\ \E h \in Caller \ {g} : pc[h] \in Memory)
  BY DEF Goto
<1>2. Alone  BY <1>1
<1>3. pc' = [pc EXCEPT ![g] = at]  BY DEF Goto
<1>4. pc'[g] = at /\ \A h \in Caller : h # g => pc'[h] = pc[h]
  BY <1>3 DEF TypeInv
<1>5. at \in Memory \/ pc[g] \in Memory => \A h \in Caller : h # g => pc[h] \notin Memory
  BY <1>1, <1>2 DEF Alone
<1>6. Alone'  BY <1>2, <1>4, <1>5 DEF Alone
<1>7. QED  BY <1>1, <1>2, <1>4, <1>5, <1>6

\* What is taken, told by the one update that may be between mark and store.
LEMMA TakenIs ==
  ASSUME NEW g \in Caller, \A h \in Caller : h # g => pc[h] \notin Memory
  PROVE  Taken = IF pc[g] \in {"load", "store"} THEN seen \cup answer[g] ELSE seen
<1>1. \A h \in Caller : h # g => pc[h] \notin {"load", "store"}  BY DEF Memory
<1>2. QED  BY <1>1 DEF Taken

\* Steps that leave the sites, the marks and what was taken alone.
LEMMA WebFrame ==
  ASSUME UNCHANGED <<posted, rssMark, Taken>>, Numbered, OneFeed
  PROVE  Numbered' /\ OneFeed' /\ (MarkInv => MarkInv') /\ (GapInv => GapInv')
BY DEF Numbered, OneFeed, MarkInv, GapInv, Published

LEMMA CacheFrame ==
  ASSUME UNCHANGED <<rssCache, seen, dropped>>, CacheInv
  PROVE  CacheInv'
BY DEF CacheInv, IsInjective

\* A step that changes only the place of g, outside load and store, takes nothing.
LEMMA TakenFrame ==
  ASSUME NEW g \in Caller, pc[g] \notin {"load", "store"}, pc'[g] \notin {"load", "store"},
         \A h \in Caller : h # g => pc'[h] = pc[h] /\ answer'[h] = answer[h],
         UNCHANGED seen
  PROVE  Taken' = Taken
<1>1. \A h \in Caller : pc'[h] \in {"load", "store"} <=> pc[h] \in {"load", "store"}  OBVIOUS
<1>2. \A h \in Caller : pc[h] \in {"load", "store"} => answer'[h] = answer[h]  OBVIOUS
<1>3. QED  BY <1>1, <1>2 DEF Taken

\* A caller keeps what it has in hand while nothing it depends on changes.
LEMMA InHandFrame ==
  ASSUME NEW h \in Caller, InHand(h), UNCHANGED <<posted, rssMark, rssCache, seen>>,
         pc'[h] = pc[h], answer'[h] = answer[h], loaded'[h] = loaded[h], todo'[h] = todo[h]
  PROVE  InHand(h)'
<1>1. \A S, f : (Whole(S, f)' <=> Whole(S, f)) /\ (Fresh(S, f)' <=> Fresh(S, f))
  BY DEF Whole, Fresh
<1>2. Truncated(rssCache)' = Truncated(rssCache)  BY DEF Truncated
<1>3. QED  BY <1>1, <1>2 DEF InHand

\* Outside memory it has nothing in hand.
LEMMA Outside == ASSUME NEW h \in Caller, pc[h] \notin Memory PROVE InHand(h)
BY DEF InHand, Memory

LEMMA OutsideNext == ASSUME NEW h \in Caller, pc'[h] \notin Memory PROVE InHand(h)'
BY DEF InHand, Memory

\* Nothing becomes due by a step of a caller that has not announced yet.
LEMMA LatestFrame ==
  ASSUME LatestInv, NEW g \in Caller, pc'[g] \notin {"idle", "start", "announce"},
         UNCHANGED rssCache, \A h \in Caller : h # g => pc'[h] = pc[h]
  PROVE  LatestInv'
<1>1. \A h \in Caller : pc'[h] = "announce" => pc[h] = "announce"  OBVIOUS
<1>2. LatestFirst => LatestFirst'  BY DEF LatestFirst
<1>3. QED  BY <1>1, <1>2 DEF LatestInv

-----------------------------------------------------------------------------
(* The steps                                                                *)

\* At the start nothing has been read.
LEMMA FeedInit == Init => FeedInv
<1> SUFFICES ASSUME Init PROVE FeedInv  OBVIOUS
<1>0. TypeInv  BY TypeInit
<1> USE DEF Init, Started
<1>1. Published = {}  BY DEF Published
<1>2. Numbered
  <2>1. {} = 1..0  OBVIOUS
  <2>2. QED  BY <1>1, <2>1 DEF Numbered
<1>3. OneFeed  BY DEF OneFeed
<1>4. Taken = {}  BY DEF Taken
<1>5. MarkInv /\ GapInv  BY <1>4 DEF MarkInv, GapInv
<1>6. CacheInv  BY DEF CacheInv, IsInjective
<1>7. LatestInv  BY DEF LatestInv, LatestFirst
<1>8. Alone /\ \A g \in Caller : InHand(g)  BY DEF Alone, InHand, Memory
<1>9. QED  BY <1>0, <1>2, <1>3, <1>5, <1>6, <1>7, <1>8 DEF FeedInv, Calm

\* A new run has read nothing.
LEMMA RestartKeeps == ASSUME FeedInv, Restart PROVE FeedInv'
<1>0. TypeInv'  BY TypeNext DEF FeedInv, Next
<1> USE DEF Restart
<1>1. Numbered' /\ OneFeed'  BY DEF FeedInv, Numbered, OneFeed, Published
<1>2. Taken' = {}  BY DEF Taken
<1>3. MarkInv' /\ GapInv'  BY <1>2 DEF MarkInv, GapInv
<1>4. CacheInv'  BY DEF CacheInv, IsInjective
<1>5. LatestInv'  BY DEF LatestInv, LatestFirst
<1>6. Alone' /\ \A g \in Caller : InHand(g)'  BY DEF Alone, InHand, Memory
<1>7. QED  BY <1>0, <1>1, <1>3, <1>4, <1>5, <1>6 DEF FeedInv, Calm

\* A new item is later than all others and in no answer yet.
LEMMA PublishKeeps == ASSUME FeedInv, NEW f \in Feed, Publish(f) PROVE FeedInv'
<1> DEFINE i == Cardinality(Published) + 1
<1>0. TypeInv'  BY TypeNext DEF FeedInv, Next
<1>1. /\ i \in Nat /\ i # 0 /\ i \notin Published /\ \A j \in Published : j < i
      /\ Published \cup {i} = 1..i
  BY NextItem DEF FeedInv
<1>2. i <= MaxItem /\ posted' = [posted EXCEPT ![f] = @ \cup {i}]
      /\ UNCHANGED <<rssMark, rssCache, latest, pc, todo, answer, loaded, seen, dropped, met>>
  BY DEF Publish, memory, history
<1> HIDE DEF i
<1> USE DEF FeedInv
<1>3. i \in Item  BY <1>1, <1>2, SizeAssumption DEF Item
<1>4. posted[f] \subseteq posted'[f] /\ posted'[f] = posted[f] \cup {i}
      /\ \A e \in Feed : e # f => posted'[e] = posted[e]
  BY <1>2 DEF TypeInv
<1>5. \A e \in Feed : \A j \in posted[e] : j \in Published  BY DEF Published
<1>6. Published' = Published \cup {i}  BY <1>4 DEF Published
<1>7. Numbered'  BY <1>1, <1>6 DEF Numbered
<1>8. OneFeed'  BY <1>1, <1>4, <1>5 DEF OneFeed
<1>9. ASSUME ~met PROVE Calm'
  <2>0. Calm  BY <1>9
  <2>1. UNCHANGED <<Taken, Alone>>  BY <1>2 DEF Taken, Alone
  <2>2. ASSUME NEW h \in Caller PROVE InHand(h)'
    <3>1. InHand(h)  BY <2>0 DEF Calm
    <3>2. CASE pc[h] \in {"apply", "mark"}
      <4> DEFINE e == Head(todo[h])
                 S == answer[h]
      <4>1. e \in Feed /\ S \in SUBSET Item  BY <3>2 DEF TypeInv
      <4>2. ASSUME Whole(S, e) \/ Fresh(S, e) PROVE \A k \in S : k < i
        BY <1>1, <1>5, <4>1, <4>2 DEF Whole, Fresh
      <4> HIDE DEF e, S
      <4>3. ASSUME NEW l \in posted'[e], l \notin posted[e] PROVE l = i
        BY <1>4, <4>1, <4>3
      <4>4. Whole(S, e) => Whole(S, e)'
        <5>1. SUFFICES ASSUME Whole(S, e)
                       PROVE  /\ S \subseteq posted'[e]
                              /\ \A j, k \in S, l \in posted'[e] : j <= l /\ l <= k => l \in S
          BY <1>2 DEF Whole, S, e
        <5>2. S \subseteq posted'[e]  BY <1>4, <4>1, <5>1 DEF Whole
        <5>3. QED  BY <1>3, <4>1, <4>2, <4>3, <5>1, <5>2 DEF Whole, Item
      <4>5. Fresh(S, e) => Fresh(S, e)'
        <5>1. SUFFICES ASSUME Fresh(S, e)
                       PROVE  /\ S \subseteq posted'[e]
                              /\ \A k \in S, l \in posted'[e] :
                                   l <= k /\ (IF rssMark[e] = 0 THEN \E j \in S : j <= l ELSE l > rssMark[e])
                                     => l \in S
          BY <1>2 DEF Fresh, S, e
        <5>2. S \subseteq posted'[e]  BY <1>4, <4>1, <5>1 DEF Fresh
        <5>3. \A k \in S, l \in posted'[e] : l <= k => l \in posted[e]
          BY <1>3, <4>1, <4>2, <4>3, <5>1 DEF Item
        <5>4. QED  BY <5>1, <5>2, <5>3 DEF Fresh
      <4>6. QED  BY <1>2, <3>1, <3>2, <4>4, <4>5 DEF InHand, S, e
    <3>3. CASE pc[h] \notin {"apply", "mark"}
      <4>1. Truncated(rssCache)' = Truncated(rssCache)  BY <1>2 DEF Truncated
      <4>2. QED  BY <1>2, <3>1, <3>3, <4>1 DEF InHand
    <3>4. QED  BY <3>2, <3>3
  <2>3. MarkInv'
    <3>1. i \notin Taken  BY <1>1, <2>0 DEF Calm, MarkInv
    <3>2. \A e \in Feed : Taken \cap posted'[e] = Taken \cap posted[e]  BY <1>4, <3>1
    <3>3. QED  BY <1>2, <1>6, <2>0, <2>1, <3>2 DEF Calm, MarkInv
  <2>4. GapInv'
    <3>1. SUFFICES ASSUME NEW e \in Feed, NEW old \in Taken \cap posted'[e], NEW j \in posted'[e],
                          old <= j, j <= rssMark[e]
                   PROVE  j \in Taken
      BY <1>2, <2>1 DEF GapInv
    <3>2. old \in posted[e]  BY <1>1, <1>4, <2>0, <3>1 DEF Calm, MarkInv
    <3>3. rssMark[e] # 0  BY <2>0, <3>1, <3>2 DEF Calm, MarkInv
    <3>4. rssMark[e] \in Published  BY <2>0, <3>3 DEF Calm, MarkInv
    <3>5. j # i  BY <1>1, <1>3, <3>1, <3>4 DEF Item
    <3>6. j \in posted[e]  BY <1>4, <3>1, <3>5
    <3>7. QED  BY <2>0, <3>1, <3>2, <3>6 DEF Calm, GapInv
  <2>5. CacheInv' /\ LatestInv'
    <3>1. LatestFirst' = LatestFirst  BY <1>2 DEF LatestFirst
    <3>2. QED  BY <1>2, <2>0, <3>1, CacheFrame DEF Calm, LatestInv
  <2>6. QED  BY <2>0, <2>1, <2>2, <2>3, <2>4, <2>5 DEF Calm
<1>10. QED  BY <1>0, <1>2, <1>7, <1>8, <1>9

\* Configuring touches nothing but where a request is.
LEMMA SetFeedsKeeps ==
  ASSUME FeedInv, (\E c \in Confs : SetFeeds(c)) \/ UNCHANGED vars PROVE FeedInv'
<1>0. TypeInv' /\ TypeInv  BY TypeNext DEF FeedInv, Next
<1>1. UNCHANGED <<posted, rssMark, rssCache, latest, seen, dropped, todo, answer, loaded, met>>
      /\ \A h \in Caller : pc'[h] = pc[h] \/ (pc[h] = "idle" /\ pc'[h] = "start")
  BY <1>0 DEF SetFeeds, vars, memory, history, TypeInv, Caller
<1>2. Taken' = Taken
  <2>1. \A h \in Caller : pc'[h] \in {"load", "store"} <=> pc[h] \in {"load", "store"}  BY <1>1
  <2>2. QED  BY <1>1, <2>1 DEF Taken
<1>3. ASSUME Calm PROVE Calm'
  <2>1. Alone'  BY <1>1, <1>3 DEF Calm, Alone, Memory
  <2>2. ASSUME NEW h \in Caller PROVE InHand(h)'
    <3>1. CASE pc'[h] = pc[h]
      BY <1>1, <1>3, <3>1, InHandFrame DEF Calm
    <3>2. CASE pc'[h] = "start"
      BY <3>2, OutsideNext DEF Memory
    <3>3. QED  BY <1>1, <3>1, <3>2
  <2>3. MarkInv' /\ GapInv'  BY <1>1, <1>2, <1>3, WebFrame DEF Calm, FeedInv
  <2>4. CacheInv'  BY <1>1, <1>3, CacheFrame DEF Calm
  <2>5. LatestInv'
    <3>1. LatestFirst' = LatestFirst  BY <1>1 DEF LatestFirst
    <3>2. \A h \in Caller : /\ pc'[h] = "announce" => pc[h] = "announce"
                            /\ pc'[h] \in {"idle", "start"} => pc[h] \in {"idle", "start"}
      BY <1>1
    <3>3. LatestInv  BY <1>3 DEF Calm
    <3>4. QED  BY <1>1, <3>1, <3>2, <3>3 DEF LatestInv
  <2>6. QED  BY <2>1, <2>2, <2>3, <2>4, <2>5 DEF Calm
<1>4. Numbered' /\ OneFeed'  BY <1>1, <1>2, WebFrame DEF FeedInv
<1>5. QED  BY <1>0, <1>1, <1>3, <1>4 DEF FeedInv

\* The steps that change nothing in memory: beginning, passing a feed over,
\* downloading, comparing with the mark, copying the cache and cutting the copy.
LEMMA LocalKeeps ==
  ASSUME FeedInv, NEW g \in Caller,
         \/ Begin(g) \/ FetchFails(g) \/ ReadMark(g) \/ LoadCache(g) \/ CutCache(g)
         \/ \E f \in Feed : Fetch(g, f)
  PROVE  FeedInv'
<1>0. TypeInv' /\ TypeInv
  BY TypeCaller DEF FeedInv
<1>1. UNCHANGED <<posted, rssMark, rssCache, latest, seen, dropped>>
  BY DEF Begin, FetchFails, ReadMark, LoadCache, CutCache, Fetch, memory, history
<1>2. PICK at \in {"fetch", "apply", "cut", "mark", "store", "trim", "sort"} : Goto(g, at)
  BY DEF Begin, FetchFails, ReadMark, LoadCache, CutCache, Fetch, NextFeed, After
<1>3. pc'[g] = at /\ \A h \in Caller : h # g => pc'[h] = pc[h]
  BY <1>0, <1>2 DEF Goto, TypeInv
<1>4. \A h \in Caller : h # g => answer'[h] = answer[h] /\ loaded'[h] = loaded[h] /\ todo'[h] = todo[h]
  BY <1>0 DEF Begin, FetchFails, ReadMark, LoadCache, CutCache, Fetch, NextFeed, TypeInv
<1>5. Taken' = Taken
  <2>1. CASE LoadCache(g)
    <3>1. pc[g] = "load" /\ pc'[g] = "store" /\ answer' = answer
      BY <1>0, <2>1 DEF LoadCache, Goto, TypeInv
    <3>2. \A h \in Caller : pc'[h] \in {"load", "store"} <=> pc[h] \in {"load", "store"}
      BY <1>3, <3>1
    <3>3. QED  BY <1>1, <3>1, <3>2 DEF Taken
  <2>2. CASE ~LoadCache(g)
    <3>1. pc[g] \notin {"load", "store"} /\ pc'[g] \notin {"load", "store"}
      BY <1>0, <2>2 DEF Begin, FetchFails, ReadMark, CutCache, Fetch, NextFeed, After, Goto, TypeInv
    <3>2. QED  BY <1>1, <1>3, <1>4, <3>1, TakenFrame
  <2>3. QED  BY <2>1, <2>2
<1>6. Numbered' /\ OneFeed'  BY <1>1, <1>5, WebFrame DEF FeedInv
<1>7. ASSUME ~met' PROVE Calm'
  <2>1. /\ ~met /\ Alone'
        /\ at \in Memory \/ pc[g] \in Memory => \A h \in Caller : h # g => pc[h] \notin Memory
    <3>1. at \in {"idle", "fetch"} \cup Memory  BY DEF Memory
    <3>2. ~met => Alone  BY DEF FeedInv, Calm
    <3>3. QED  BY <1>0, <1>2, <1>7, <3>1, <3>2, Alone1
  <2>2. Calm  BY <2>1 DEF FeedInv
  <2>3. ASSUME NEW h \in Caller, h # g PROVE InHand(h)'
    BY <1>1, <1>3, <1>4, <2>2, <2>3, InHandFrame DEF Calm
  <2>4. InHand(g)'
    <3>1. CASE Begin(g) \/ FetchFails(g)
      <4>1. pc'[g] \in {"fetch", "sort"}
        BY <1>0, <3>1 DEF Begin, FetchFails, NextFeed, After, Goto, TypeInv
      <4>2. QED  BY <4>1 DEF InHand
    <3>2. CASE \E f \in Feed : Fetch(g, f)
      <4>1. PICK f \in Feed : Fetch(g, f)  BY <3>2
      <4>2. pc'[g] = "apply" /\ answer'[g] = Listed(f) /\ f = Head(todo'[g])
        BY <1>0, <4>1 DEF Fetch, Goto, TypeInv
      <4>3. Whole(Listed(f), f)  BY <1>0, ListedWhole DEF FeedInv
      <4>4. QED  BY <1>1, <4>2, <4>3 DEF InHand, Whole
    <3>3. CASE ReadMark(g)
      <4> DEFINE f   == Head(todo[g])
                 new == NewItems(answer[g], rssMark[f])
      <4>1. pc[g] = "apply" /\ answer' = [answer EXCEPT ![g] = new] /\ UNCHANGED todo
            /\ pc'[g] \in {"cut", "mark"}
        BY <1>0, <3>3 DEF ReadMark, Goto, TypeInv
      <4>2. f \in Feed /\ Whole(answer[g], f) /\ answer'[g] = new
        BY <1>0, <2>2, <4>1 DEF TypeInv, Calm, InHand
      <4>3. \A i \in answer[g] : i \in new <=> rssMark[f] = 0 \/ (rssMark[f] \in answer[g] /\ i > rssMark[f])
        BY DEF NewItems
      <4>4. new \subseteq answer[g] /\ answer[g] \subseteq Item /\ posted[f] \subseteq Item
        BY <1>0, <4>2 DEF NewItems, TypeInv
      <4> HIDE DEF new, f
      <4>5. Fresh(new, f)
        <5>1. new \subseteq posted[f] /\ \A i \in new : rssMark[f] = 0 \/ i > rssMark[f]
          BY <4>2, <4>3, <4>4 DEF Whole
        <5>2. ASSUME NEW k \in new, NEW i \in posted[f], i <= k,
                     IF rssMark[f] = 0 THEN \E j \in new : j <= i ELSE i > rssMark[f]
              PROVE  i \in new
          <6>1. CASE rssMark[f] = 0
            BY <4>2, <4>3, <4>4, <5>2, <6>1 DEF Whole
          <6>2. CASE rssMark[f] # 0
            <7>1. rssMark[f] \in answer[g]  BY <4>3, <4>4, <6>2
            <7>2. rssMark[f] <= i  BY <4>4, <5>2, <6>2, <7>1 DEF Item
            <7>3. i \in answer[g]  BY <4>2, <4>4, <5>2, <7>1, <7>2 DEF Whole
            <7>4. QED  BY <4>3, <5>2, <6>2, <7>1, <7>3
          <6>3. QED  BY <6>1, <6>2
        <5>3. QED  BY <5>1, <5>2 DEF Fresh
      <4>6. f = Head(todo'[g])  BY <4>1 DEF f
      <4>7. Fresh(new, f) => Fresh(answer[g], Head(todo[g]))'
        BY <1>1, <4>2, <4>6 DEF Fresh
      <4>8. QED  BY <4>1, <4>5, <4>7 DEF InHand
    <3>4. CASE LoadCache(g)
      <4>1. pc[g] = "load" /\ pc'[g] = "store" /\ answer' = answer /\ loaded'[g] = rssCache
        BY <1>0, <3>4 DEF LoadCache, Goto, TypeInv
      <4>2. answer[g] \cap seen = {}  BY <2>2, <4>1 DEF Calm, InHand
      <4>3. QED  BY <1>1, <4>1, <4>2 DEF InHand
    <3>5. CASE CutCache(g)
      <4>1. pc'[g] \in {"trim", "sort", "fetch"} /\ (pc'[g] = "trim" => loaded'[g] = Truncated(rssCache))
        BY <1>0, <3>5 DEF CutCache, NextFeed, After, Goto, TypeInv
      <4>2. Truncated(rssCache)' = Truncated(rssCache)  BY <1>1 DEF Truncated
      <4>3. QED  BY <4>1, <4>2 DEF InHand
    <3>6. QED  BY <3>1, <3>2, <3>3, <3>4, <3>5
  <2>5. MarkInv' /\ GapInv'  BY <1>1, <1>5, <2>2, WebFrame DEF Calm, FeedInv
  <2>6. CacheInv'  BY <1>1, <2>2, CacheFrame DEF Calm
  <2>7. LatestInv'  BY <1>1, <1>3, <2>2, LatestFrame DEF Calm
  <2>8. QED  BY <2>1, <2>3, <2>4, <2>5, <2>6, <2>7 DEF Calm
<1>8. QED  BY <1>0, <1>6, <1>7 DEF FeedInv

\* Moving the mark joins what was taken to the newest item of the answer, however
\* late it comes.
LEMMA MarkKeeps == ASSUME FeedInv, NEW g \in Caller, WriteMark(g) PROVE FeedInv'
<1> DEFINE f   == Head(todo[g])
           new == answer[g]
<1>0. TypeInv' /\ TypeInv  BY TypeMemory DEF FeedInv
<1>1. /\ pc[g] = "mark" /\ rssMark' = [rssMark EXCEPT ![f] = Max(new)]
      /\ UNCHANGED <<posted, rssCache, latest, todo, answer, loaded, seen, dropped>>
  BY DEF WriteMark, history
<1>2. Goto(g, "load")  BY DEF WriteMark
<1>3. Numbered' /\ OneFeed'  BY <1>1 DEF FeedInv, Numbered, OneFeed, Published
<1>4. ASSUME ~met' PROVE Calm'
  <2>1. /\ ~met /\ Alone' /\ pc'[g] = "load"
        /\ \A h \in Caller : h # g => pc'[h] = pc[h] /\ pc[h] \notin Memory
    <3>1. "load" \in {"idle", "fetch"} \cup Memory /\ pc[g] \in Memory  BY <1>1 DEF Memory
    <3>2. ~met => Alone  BY DEF FeedInv, Calm
    <3>3. QED  BY <1>0, <1>2, <1>4, <3>1, <3>2, Alone1
  <2>2. Calm /\ OneFeed  BY <2>1 DEF FeedInv
  <2>3. Taken = seen /\ Taken' = seen \cup new
    <3>1. Taken = seen  BY <1>1, <2>1, TakenIs
    <3>2. \A h \in Caller : pc'[h] \in {"load", "store"} <=> h = g  BY <2>1 DEF Memory
    <3>3. QED  BY <1>1, <3>1, <3>2 DEF Taken
  <2>4. f \in Feed /\ Fresh(new, f) /\ new \in SUBSET Item /\ new # {} /\ rssMark[f] \in Item \cup {0}
    BY <1>0, <1>1, <2>2 DEF TypeInv, Calm, InHand
  <2>5. Max(new) \in new /\ \A i \in new : i <= Max(new)  BY <2>4, MaxExists
  <2>6. rssMark'[f] = Max(new) /\ \A e \in Feed : e # f => rssMark'[e] = rssMark[e]
    BY <1>0, <1>1, <2>4 DEF TypeInv
  <2> HIDE DEF new, f
  <2>7. new \subseteq posted[f] /\ posted[f] \subseteq Item
        /\ \A i \in new : rssMark[f] = 0 \/ i > rssMark[f]
    BY <1>0, <2>4 DEF Fresh, TypeInv
  <2>8. MarkInv /\ GapInv  BY <2>2 DEF Calm
  <2>9. ASSUME NEW i \in seen \cap posted[f] PROVE rssMark[f] # 0 /\ i <= rssMark[f]
    BY <2>3, <2>4, <2>8, <2>9 DEF MarkInv
  <2>10. new \cap seen = {}
    <3>1. SUFFICES ASSUME NEW i \in new, i \in seen PROVE FALSE  OBVIOUS
    <3>2. rssMark[f] # 0 /\ i <= rssMark[f] /\ i > rssMark[f]  BY <2>7, <2>9, <3>1
    <3>3. QED  BY <2>4, <3>2 DEF Item
  <2>11. \A e \in Feed : e # f => new \cap posted[e] = {}
    BY <2>2, <2>4, <2>7 DEF OneFeed
  <2>12. MarkInv'
    <3>1. Taken' \subseteq Published'  BY <1>1, <2>3, <2>4, <2>7, <2>8 DEF MarkInv, Published
    <3>2. ASSUME NEW e \in Feed
          PROVE  /\ IF rssMark'[e] = 0 THEN Taken' \cap posted[e] = {}
                                      ELSE rssMark'[e] \in Taken' \cap posted[e]
                 /\ \A i \in Taken' \cap posted[e] : i <= rssMark'[e]
      <4>1. CASE e # f  BY <2>3, <2>6, <2>8, <2>11, <3>2, <4>1 DEF MarkInv
      <4>2. CASE e = f
        <5>1. rssMark'[e] = Max(new) /\ Max(new) \in Item  BY <2>4, <2>5, <2>6, <4>2
        <5>2. ASSUME NEW i \in Taken' \cap posted[e] PROVE i <= Max(new)
          <6>1. CASE i \in new  BY <2>5, <6>1
          <6>2. CASE i \in seen
            <7>1. rssMark[f] # 0 /\ i <= rssMark[f]  BY <2>9, <4>2, <5>2, <6>2
            <7>2. rssMark[f] < Max(new) /\ i \in Item  BY <2>4, <2>5, <2>7, <4>2, <5>1, <5>2, <7>1 DEF Item
            <7>3. QED  BY <2>4, <5>1, <7>1, <7>2 DEF Item
          <6>3. QED  BY <2>3, <5>2, <6>1, <6>2
        <5>3. QED  BY <2>3, <2>5, <2>7, <4>2, <5>1, <5>2 DEF Item
      <4>3. QED  BY <4>1, <4>2
    <3>3. QED  BY <1>1, <3>1, <3>2 DEF MarkInv
  <2>13. GapInv'
    <3>1. SUFFICES ASSUME NEW e \in Feed, NEW old \in Taken' \cap posted[e], NEW i \in posted[e],
                          old <= i, i <= rssMark'[e]
                   PROVE  i \in Taken'
      BY <1>1 DEF GapInv
    <3>2. CASE e # f  BY <2>3, <2>6, <2>8, <2>11, <3>1, <3>2 DEF GapInv
    <3>3. CASE e = f
      <4>1. i <= Max(new) /\ i \in Item /\ old \in Item  BY <2>6, <2>7, <3>1, <3>3
      <4>2. CASE rssMark[f] = 0
        <5>1. old \in new  BY <2>3, <2>9, <3>1, <3>3, <4>2
        <5>2. QED  BY <2>3, <2>4, <2>5, <3>1, <3>3, <4>1, <4>2, <5>1 DEF Fresh
      <4>3. CASE rssMark[f] # 0 /\ i > rssMark[f]
        BY <2>3, <2>4, <2>5, <3>1, <3>3, <4>1, <4>3 DEF Fresh
      <4>4. CASE rssMark[f] # 0 /\ i <= rssMark[f]
        <5>1. old \notin new  BY <2>4, <2>7, <3>1, <4>1, <4>4 DEF Item
        <5>2. QED  BY <2>3, <2>8, <3>1, <3>3, <4>4, <5>1 DEF GapInv
      <4>5. QED  BY <2>4, <4>1, <4>2, <4>3, <4>4 DEF Item
    <3>4. QED  BY <3>2, <3>3
  <2>14. ASSUME NEW h \in Caller PROVE InHand(h)'
    <3>1. CASE h # g  BY <2>1, <3>1, OutsideNext
    <3>2. CASE h = g  BY <1>1, <2>1, <2>10, <3>2 DEF InHand, new
    <3>3. QED  BY <3>1, <3>2
  <2>15. CacheInv' /\ LatestInv'
    BY <1>1, <2>1, <2>2, CacheFrame, LatestFrame DEF Calm
  <2>16. QED  BY <2>1, <2>12, <2>13, <2>14, <2>15 DEF Calm
<1>5. QED  BY <1>0, <1>3, <1>4 DEF FeedInv

\* The steps of g that write rssCache: if they keep what is said of the cache and
\* of what is announced, they keep the invariant.
LEMMA CacheStep ==
  ASSUME FeedInv, TypeInv', NEW g \in Caller, NEW at \in {"cut", "fetch", "sort", "announce", "idle"},
         Goto(g, at), pc[g] \in Memory, UNCHANGED <<posted, rssMark>>, Taken' = Taken,
         Calm /\ ~met' => CacheInv' /\ LatestInv'
  PROVE  FeedInv'
<1>1. Numbered' /\ OneFeed'  BY WebFrame DEF FeedInv
<1>2. ASSUME ~met' PROVE Calm'
  <2>1. /\ ~met /\ Alone' /\ pc'[g] = at
        /\ \A h \in Caller : h # g => pc'[h] = pc[h] /\ pc[h] \notin Memory
    <3>1. at \in {"idle", "fetch"} \cup Memory  BY DEF Memory
    <3>2. TypeInv /\ (~met => Alone)  BY DEF FeedInv, Calm
    <3>3. QED  BY <1>2, <3>1, <3>2, Alone1
  <2>2. Calm  BY <2>1 DEF FeedInv
  <2>3. MarkInv' /\ GapInv'  BY <2>2, WebFrame DEF Calm, FeedInv
  <2>4. ASSUME NEW h \in Caller PROVE InHand(h)'
    <3>1. CASE h # g  BY <2>1, <3>1, OutsideNext
    <3>2. CASE h = g  BY <2>1, <3>2 DEF InHand
    <3>3. QED  BY <3>1, <3>2
  <2>5. QED  BY <1>2, <2>1, <2>2, <2>3, <2>4 DEF Calm
<1>3. QED  BY <1>1, <1>2 DEF FeedInv

\* What an answer adds is not in the cache yet.
LEMMA StoreKeeps == ASSUME FeedInv, NEW g \in Caller, StoreCache(g) PROVE FeedInv'
<1> DEFINE new == answer[g]
           d   == Descending(new)
           n   == Cardinality(new)
<1>0. TypeInv' /\ TypeInv  BY TypeMemory DEF FeedInv
<1>1. /\ pc[g] = "store" /\ rssCache' = d \o loaded[g] /\ seen' = seen \cup new
      /\ answer' = [answer EXCEPT ![g] = {}]
      /\ UNCHANGED <<posted, rssMark, latest, dropped>>
  BY DEF StoreCache
<1>2. Goto(g, "cut")  BY DEF StoreCache
<1>3. pc' = [pc EXCEPT ![g] = "cut"]  BY <1>2 DEF Goto
<1>4. Taken' = Taken
  <2>1. \A h \in Caller : h # g => pc'[h] = pc[h] /\ answer'[h] = answer[h]  BY <1>0, <1>1, <1>3 DEF TypeInv
  <2>2. pc'[g] = "cut"  BY <1>0, <1>3 DEF TypeInv
  <2> DEFINE Rest == UNION {answer[h] : h \in {e \in Caller : e # g /\ pc[e] \in {"load", "store"}}}
  <2>3. Taken = seen \cup new \cup Rest  BY <1>1 DEF Taken
  <2>4. Taken' = seen' \cup Rest
    <3>1. \A h \in Caller : pc'[h] \in {"load", "store"} <=> h # g /\ pc[h] \in {"load", "store"}
      BY <2>1, <2>2
    <3>2. QED  BY <2>1, <3>1 DEF Taken
  <2>5. QED  BY <1>1, <2>3, <2>4
<1>5. ASSUME Calm, ~met' PROVE CacheInv' /\ LatestInv'
  <2>1. loaded[g] = rssCache /\ new \cap seen = {} /\ CacheInv /\ LatestInv
    BY <1>1, <1>5 DEF Calm, InHand
  <2>2. new \in SUBSET Item /\ rssCache \in Seq(Item)  BY <1>0 DEF TypeInv
  <2>3. /\ n \in Nat /\ d \in [1..n -> new] /\ IsInjective(d)
        /\ \A i \in new : \E k \in 1..n : d[k] = i
    BY <2>2, DescendingOf
  <2> HIDE DEF d, n, new
  <2>4. d \in Seq(Item) /\ Len(d) = n  BY <2>2, <2>3
  <2>5. /\ Len(rssCache') = n + Len(rssCache)
        /\ \A k \in 1..n : rssCache'[k] = d[k]
        /\ \A k \in 1..Len(rssCache) : rssCache'[n + k] = rssCache[k]
        /\ \A k \in 1..Len(rssCache') : k \notin 1..n => k - n \in 1..Len(rssCache)
    <3>1. rssCache' = d \o rssCache  BY <1>1, <2>1
    <3>2. d \in Seq(Item) /\ rssCache \in Seq(Item)  BY <2>2, <2>4
    <3>3. /\ Len(d \o rssCache) = Len(d) + Len(rssCache)
          /\ \A k \in 1..Len(d) : (d \o rssCache)[k] = d[k]
          /\ \A k \in 1..Len(rssCache) : (d \o rssCache)[Len(d) + k] = rssCache[k]
          /\ \A k \in 1..Len(d \o rssCache) : k \notin 1..Len(d) => k - Len(d) \in 1..Len(rssCache)
      BY <3>2, Joined
    <3>4. QED  BY <2>4, <3>1, <3>3
  <2>6. Len(rssCache) \in Nat  BY <2>2
  <2>7. \A k \in 1..Len(rssCache') : k \notin 1..n => rssCache'[k] = rssCache[k - n]
    <3>1. SUFFICES ASSUME NEW k \in 1..Len(rssCache'), k \notin 1..n PROVE rssCache'[k] = rssCache[k - n]
      OBVIOUS
    <3>2. k - n \in 1..Len(rssCache) /\ n + (k - n) = k  BY <2>3, <2>5, <2>6, <3>1
    <3>3. QED  BY <2>5, <3>2
  <2>8. new \cap dropped = {}  BY <2>1 DEF CacheInv
  <2>9. dropped' \subseteq seen'  BY <1>1, <2>1 DEF CacheInv
  <2>10. \A k \in 1..Len(rssCache') : rssCache'[k] \in seen' \ dropped'
    <3>1. SUFFICES ASSUME NEW k \in 1..Len(rssCache') PROVE rssCache'[k] \in (seen \cup new) \ dropped
      BY <1>1
    <3>2. CASE k \in 1..n  BY <2>3, <2>5, <2>8, <3>2
    <3>3. CASE k \notin 1..n  BY <2>1, <2>5, <2>7, <3>1, <3>3 DEF CacheInv
    <3>4. QED  BY <3>2, <3>3
  <2>11. \A i \in seen' \ dropped' : \E k \in 1..Len(rssCache') : rssCache'[k] = i
    <3>1. SUFFICES ASSUME NEW i \in (seen \cup new) \ dropped
                   PROVE  \E k \in 1..Len(rssCache') : rssCache'[k] = i
      BY <1>1
    <3>2. CASE i \in new
      <4>1. PICK k \in 1..n : d[k] = i  BY <2>3, <3>2
      <4>2. k \in 1..Len(rssCache')  BY <2>3, <2>5, <2>6, <4>1
      <4>3. QED  BY <2>5, <4>1, <4>2
    <3>3. CASE i \notin new
      <4>1. PICK k \in 1..Len(rssCache) : rssCache[k] = i  BY <2>1, <3>1, <3>3 DEF CacheInv
      <4>2. n + k \in 1..Len(rssCache')  BY <2>3, <2>5, <2>6, <4>1
      <4>3. QED  BY <2>5, <4>1, <4>2
    <3>4. QED  BY <3>2, <3>3
  <2>12. IsInjective(rssCache')
    <3>1. \A k, l \in 1..n : d[k] = d[l] => k = l  BY <2>3 DEF IsInjective
    <3>2. \A k, l \in 1..Len(rssCache) : rssCache[k] = rssCache[l] => k = l
      BY <2>1, <2>2 DEF CacheInv, IsInjective
    <3>3. \A k \in 1..Len(rssCache) : rssCache[k] \notin new  BY <2>1 DEF CacheInv
    <3>4. ASSUME NEW k \in 1..Len(rssCache'), NEW l \in 1..Len(rssCache'), rssCache'[k] = rssCache'[l]
          PROVE  k = l
      <4>1. CASE k \in 1..n /\ l \in 1..n  BY <2>5, <3>1, <3>4, <4>1
      <4>2. CASE k \in 1..n /\ l \notin 1..n  BY <2>3, <2>5, <2>7, <3>3, <3>4, <4>2
      <4>3. CASE k \notin 1..n /\ l \in 1..n  BY <2>3, <2>5, <2>7, <3>3, <3>4, <4>3
      <4>4. CASE k \notin 1..n /\ l \notin 1..n
        <5>1. k - n = l - n  BY <2>5, <2>7, <3>2, <3>4, <4>4
        <5>2. k \in Int /\ l \in Int /\ n \in Int  BY <2>3
        <5>3. QED  BY <5>1, <5>2
      <4>5. QED  BY <4>1, <4>2, <4>3, <4>4
    <3>5. DOMAIN rssCache' = 1..Len(rssCache')  BY <1>0 DEF TypeInv
    <3>6. QED  BY <3>4, <3>5 DEF IsInjective
  <2>13. CacheInv'  BY <2>9, <2>10, <2>11, <2>12 DEF CacheInv
  <2>14. LatestInv'
    <3>1. TypeInv /\ (~met => Alone)  BY <1>0 DEF FeedInv, Calm
    <3>2. "cut" \in {"idle", "fetch"} \cup Memory /\ pc[g] \in Memory  BY <1>1 DEF Memory
    <3>3. pc'[g] = "cut" /\ \A h \in Caller : h # g => pc'[h] = pc[h] /\ pc[h] \notin Memory
      BY <1>2, <1>5, <3>1, <3>2, Alone1
    <3>4. QED  BY <3>3 DEF LatestInv, Memory
  <2>15. QED  BY <2>13, <2>14
<1>6. pc[g] \in Memory  BY <1>1 DEF Memory
<1>7. QED  BY <1>0, <1>1, <1>2, <1>4, <1>5, <1>6, CacheStep

\* The cut takes items out of the cache and records them.
LEMMA TrimKeeps == ASSUME FeedInv, NEW g \in Caller, TrimCache(g) PROVE FeedInv'
<1>0. TypeInv' /\ TypeInv  BY TypeMemory DEF FeedInv
<1>1. /\ pc[g] = "trim" /\ rssCache' = loaded[g]
      /\ dropped' = IF met THEN dropped ELSE dropped \cup (ToSet(rssCache) \ ToSet(loaded[g]))
      /\ UNCHANGED <<posted, rssMark, latest, seen, answer>>
  BY DEF TrimCache
<1>2. PICK at \in {"fetch", "sort"} : Goto(g, at)  BY DEF TrimCache, NextFeed, After
<1>3. pc'[g] = at /\ \A h \in Caller : h # g => pc'[h] = pc[h]  BY <1>0, <1>2 DEF Goto, TypeInv
<1>4. Taken' = Taken  BY <1>1, <1>3, TakenFrame
<1>5. ASSUME Calm, ~met' PROVE CacheInv' /\ LatestInv'
  <2>1. /\ ~met
        /\ \A h \in Caller : h # g => pc'[h] = pc[h] /\ pc[h] \notin Memory
    <3>1. TypeInv /\ (~met => Alone)  BY <1>0 DEF FeedInv, Calm
    <3>2. at \in {"idle", "fetch"} \cup Memory /\ pc[g] \in Memory  BY <1>1 DEF Memory
    <3>3. QED  BY <1>2, <1>5, <3>1, <3>2, Alone1
  <2>2. CacheInv /\ rssCache' = Truncated(rssCache)  BY <1>1, <1>5 DEF Calm, InHand
  <2>3. dropped' = dropped \cup (ToSet(rssCache) \ ToSet(rssCache'))  BY <1>1, <2>1
  <2>4. rssCache \in Seq(Item) /\ rssCache' \in Seq(Item)  BY <1>0 DEF TypeInv
  <2>5. Len(rssCache') <= Len(rssCache) /\ \A k \in 1..Len(rssCache') : rssCache'[k] = rssCache[k]
    <3>1. CacheMax \in Nat /\ Len(rssCache) \in Nat  BY <2>4, SizeAssumption
    <3>2. QED  BY <2>2, <2>4, <3>1, TruncatedOf
  <2>6. 1..Len(rssCache') \subseteq 1..Len(rssCache)
    <3>1. Len(rssCache') \in Nat /\ Len(rssCache) \in Nat  BY <2>4
    <3>2. QED  BY <2>5, <3>1
  <2>7. /\ \A i : i \in ToSet(rssCache)  <=> \E k \in 1..Len(rssCache)  : rssCache[k] = i
        /\ \A i : i \in ToSet(rssCache') <=> \E k \in 1..Len(rssCache') : rssCache'[k] = i
    BY <2>4 DEF ToSet
  <2>8. ToSet(rssCache) \subseteq seen  BY <2>2, <2>7 DEF CacheInv
  <2>9. dropped' \subseteq seen'  BY <1>1, <2>2, <2>3, <2>8 DEF CacheInv
  <2>10. \A k \in 1..Len(rssCache') : rssCache'[k] \in seen' \ dropped'
    <3>1. SUFFICES ASSUME NEW k \in 1..Len(rssCache') PROVE rssCache'[k] \in seen \ dropped'
      BY <1>1
    <3>2. rssCache'[k] \in seen \ dropped  BY <2>2, <2>5, <2>6 DEF CacheInv
    <3>3. rssCache'[k] \in ToSet(rssCache')  BY <2>7
    <3>4. QED  BY <2>3, <3>2, <3>3
  <2>11. \A i \in seen' \ dropped' : \E k \in 1..Len(rssCache') : rssCache'[k] = i
    <3>1. SUFFICES ASSUME NEW i \in seen \ dropped' PROVE i \in ToSet(rssCache')
      BY <1>1, <2>7
    <3>2. i \in ToSet(rssCache)  BY <2>2, <2>3, <2>7, <3>1 DEF CacheInv
    <3>3. QED  BY <2>3, <3>1, <3>2
  <2>12. IsInjective(rssCache')
    <3>1. DOMAIN rssCache' = 1..Len(rssCache') /\ DOMAIN rssCache = 1..Len(rssCache)  BY <2>4
    <3>2. QED  BY <2>2, <2>5, <2>6, <3>1 DEF CacheInv, IsInjective
  <2>13. CacheInv'  BY <2>9, <2>10, <2>11, <2>12 DEF CacheInv
  <2>14. LatestInv'  BY <1>3, <2>1 DEF LatestInv, Memory
  <2>15. QED  BY <2>13, <2>14
<1>6. pc[g] \in Memory  BY <1>1 DEF Memory
<1>7. QED  BY <1>0, <1>1, <1>2, <1>4, <1>5, <1>6, CacheStep

\* Sorting brings the latest item to the head, where it is announced.
LEMMA SortKeeps == ASSUME FeedInv, NEW g \in Caller, SortCache(g) PROVE FeedInv'
<1>0. TypeInv' /\ TypeInv  BY TypeMemory DEF FeedInv
<1>1. /\ pc[g] = "sort" /\ rssCache' = Sorted(rssCache)
      /\ UNCHANGED <<posted, rssMark, latest, seen, dropped, answer>>
  BY DEF SortCache, history
<1>2. Goto(g, "announce")  BY DEF SortCache
<1>3. pc'[g] = "announce" /\ \A h \in Caller : h # g => pc'[h] = pc[h]  BY <1>0, <1>2 DEF Goto, TypeInv
<1>4. Taken' = Taken  BY <1>1, <1>3, TakenFrame
<1>5. ASSUME Calm, ~met' PROVE CacheInv' /\ LatestInv'
  <2>1. rssCache \in Seq(Item) /\ rssCache' \in Seq(Item)  BY <1>0 DEF TypeInv
  <2>2. /\ Len(rssCache') = Len(rssCache)
        /\ \A k \in 1..Len(rssCache') : \E i \in 1..Len(rssCache) : rssCache'[k] = rssCache[i]
        /\ \A i \in 1..Len(rssCache) : \E k \in 1..Len(rssCache') : rssCache'[k] = rssCache[i]
        /\ IsInjective(rssCache) => IsInjective(rssCache')
        /\ \A k \in 1..Len(rssCache') : rssCache'[k] <= rssCache'[1]
    BY <1>1, <2>1, SortedOf
  <2>3. CacheInv  BY <1>5 DEF Calm
  <2>4. CacheInv'
    <3>1. \A k \in 1..Len(rssCache') : rssCache'[k] \in seen \ dropped  BY <2>2, <2>3 DEF CacheInv
    <3>2. \A i \in seen \ dropped : \E k \in 1..Len(rssCache') : rssCache'[k] = i
      BY <2>2, <2>3 DEF CacheInv
    <3>3. dropped \subseteq seen /\ IsInjective(rssCache')  BY <2>2, <2>3 DEF CacheInv
    <3>4. QED  BY <1>1, <3>1, <3>2, <3>3 DEF CacheInv
  <2>5. LatestInv'  BY <1>3, <2>2 DEF LatestInv, LatestFirst
  <2>6. QED  BY <2>4, <2>5
<1>6. pc[g] \in Memory  BY <1>1 DEF Memory
<1>7. QED  BY <1>0, <1>1, <1>2, <1>4, <1>5, <1>6, CacheStep

LEMMA AnnounceKeeps == ASSUME FeedInv, NEW g \in Caller, Announce(g) PROVE FeedInv'
<1>0. TypeInv' /\ TypeInv  BY TypeMemory DEF FeedInv
<1>1. /\ pc[g] = "announce" /\ latest' = IF rssCache = <<>> THEN latest ELSE Head(rssCache)
      /\ UNCHANGED <<posted, rssMark, rssCache, seen, dropped, answer>>
  BY DEF Announce, history
<1>2. Goto(g, "idle")  BY DEF Announce
<1>3. pc'[g] = "idle" /\ \A h \in Caller : h # g => pc'[h] = pc[h]  BY <1>0, <1>2 DEF Goto, TypeInv
<1>4. Taken' = Taken  BY <1>1, <1>3, TakenFrame
<1>5. ASSUME Calm, ~met' PROVE CacheInv' /\ LatestInv'
  <2>1. CacheInv'  BY <1>1, <1>5, CacheFrame DEF Calm
  <2>2. LatestFirst /\ LatestFirst' = LatestFirst  BY <1>1, <1>5 DEF Calm, LatestInv, LatestFirst
  <2>3. rssCache # <<>> => latest' = rssCache'[1]  BY <1>0, <1>1 DEF TypeInv
  <2>4. LatestInv'  BY <1>1, <2>2, <2>3 DEF LatestInv
  <2>5. QED  BY <2>1, <2>4
<1>6. pc[g] \in Memory  BY <1>1 DEF Memory
<1>7. QED  BY <1>0, <1>1, <1>2, <1>4, <1>5, <1>6, CacheStep

-----------------------------------------------------------------------------
(* The theorems                                                             *)

LEMMA FeedNext == FeedInv /\ [Next]_vars => FeedInv'
<1> SUFFICES ASSUME FeedInv, [Next]_vars PROVE FeedInv'  OBVIOUS
<1>1. CASE \E f \in Feed : Publish(f)  BY <1>1, PublishKeeps
<1>2. CASE (\E c \in Confs : SetFeeds(c)) \/ UNCHANGED vars  BY <1>2, SetFeedsKeeps
<1>3. CASE Restart  BY <1>3, RestartKeeps
<1>4. ASSUME NEW g \in Caller,
             \/ Begin(g) \/ FetchFails(g) \/ ReadMark(g) \/ LoadCache(g) \/ CutCache(g)
             \/ \E f \in Feed : Fetch(g, f)
      PROVE  FeedInv'
  BY <1>4, LocalKeeps
<1>5. ASSUME NEW g \in Caller,
             WriteMark(g) \/ StoreCache(g) \/ TrimCache(g) \/ SortCache(g) \/ Announce(g)
      PROVE  FeedInv'
  BY <1>5, MarkKeeps, StoreKeeps, TrimKeeps, SortKeeps, AnnounceKeeps
<1>6. QED  BY <1>1, <1>2, <1>3, <1>4, <1>5 DEF Next, InMemory

\* The marks, what each update has in hand, what was read, the cache and what is
\* announced fit together until two updates are in memory at once.
THEOREM FeedInvariant == Spec => []FeedInv
BY FeedInit, FeedNext, PTL DEF Spec

\* However the downloads of any number of goroutines overlap, and wherever the
\* program is started again, a mark never passes over an unread item, as long as
\* no two updates were in memory at once.
THEOREM NothingPassedOver == Spec => []NoGap
<1>1. FeedInv => NoGap  BY DEF FeedInv, Calm, GapInv, NoGap
<1>2. QED  BY <1>1, FeedInvariant, PTL

\* Under the same condition and however late an answer comes, no item is in the
\* cache twice.
THEOREM ShownOnce == Spec => []NoDuplicates
<1>1. FeedInv => NoDuplicates  BY DEF FeedInv, Calm, CacheInv, NoDuplicates
<1>2. QED  BY <1>1, FeedInvariant, PTL

\* Under the same condition and for any size of the cache, once no update is under
\* way the item announced is the latest of those that were read and not cut away.
THEOREM LatestIsAnnounced == Spec => []LatestAnnounced
<1>1. ASSUME FeedInv, ~met, AtRest, seen \ dropped # {} PROVE latest = Max(seen \ dropped)
  <2>1. CacheInv /\ LatestInv /\ seen \ dropped \in SUBSET Item
    BY <1>1 DEF FeedInv, Calm, TypeInv
  <2>2. LatestFirst /\ (rssCache # <<>> => latest = rssCache[1])
    BY <1>1, <2>1 DEF LatestInv, AtRest
  <2>3. PICK i \in seen \ dropped : TRUE  BY <1>1
  <2>4. PICK k \in 1..Len(rssCache) : rssCache[k] = i  BY <2>1, <2>3 DEF CacheInv
  <2>5. rssCache \in Seq(Item)  BY <1>1 DEF FeedInv, TypeInv
  <2>6. rssCache # <<>> /\ 1 \in 1..Len(rssCache)  BY <2>4, <2>5
  <2>7. latest \in seen \ dropped /\ \A j \in seen \ dropped : j <= latest
    BY <2>1, <2>2, <2>6 DEF CacheInv, LatestFirst
  <2>8. Max(seen \ dropped) = latest  BY <2>1, <2>7, MaxIs
  <2>9. QED  BY <2>8
<1>2. FeedInv => LatestAnnounced  BY <1>1 DEF LatestAnnounced
<1>3. QED  BY <1>2, FeedInvariant, PTL
=============================================================================
