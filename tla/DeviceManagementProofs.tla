---------------------- MODULE DeviceManagementProofs ----------------------
(***************************************************************************)
(* Theorems about module DeviceManagement: types, the soundness of the     *)
(* observed list, no lost change, the maximal periods, and refusals.       *)
(***************************************************************************)
EXTENDS DeviceManagement, NaturalLemmas

-----------------------------------------------------------------------------
(* Lists.  IsList says of a value that it is a sequence, of whatever.       *)

IsList(s) == s \in Seq(Range(s))

LEMMA ListFacts ==
    ASSUME NEW s, IsList(s)
    PROVE  /\ Len(s) \in Nat
           /\ DOMAIN s = 1 .. Len(s)
           /\ s = [k \in 1 .. Len(s) |-> s[k]]
           /\ s = <<>> <=> Len(s) = 0
  BY DEF IsList, Range

\* A function on an initial interval of the positive numbers is a list.
LEMMA FunctionIsList ==
    ASSUME NEW n \in Nat, NEW s, s = [k \in 1 .. n |-> s[k]]
    PROVE  IsList(s) /\ Len(s) = n
<1>1. s \in [1 .. n -> Range(s)]
  BY DEF Range
<1>2. s \in Seq(Range(s))
  BY <1>1
<1> QED
  BY <1>2 DEF IsList

LEMMA ConsList ==
    ASSUME NEW s, IsList(s), NEW x
    PROVE  /\ IsList(<<x>> \o s)
           /\ Len(<<x>> \o s) = Len(s) + 1
           /\ (<<x>> \o s)[1] = x
           /\ \A k \in 1 .. Len(s) : (<<x>> \o s)[k + 1] = s[k]
<1> DEFINE S == Range(s) \cup {x}
           t == <<x>> \o s
<1>1. s \in Seq(S) /\ <<x>> \in Seq(S)
  BY DEF IsList
<1>2. t \in Seq(S) /\ Len(t) = Len(s) + 1 /\ t[1] = x
  BY <1>1
<1>3. \A k \in 1 .. Len(s) : t[k + 1] = s[k]
  BY <1>1
<1>4. t = [k \in 1 .. Len(t) |-> t[k]] /\ Len(t) \in Nat
  BY <1>2
<1>5. IsList(t)
  <2> HIDE DEF t
  <2> QED BY <1>4, FunctionIsList
<1> QED
  BY <1>2, <1>3, <1>5

LEMMA RemoveList ==
    ASSUME NEW s, IsList(s), NEW i \in DOMAIN s
    PROVE  /\ IsList(RemoveAt(s, i))
           /\ Len(RemoveAt(s, i)) = Len(s) - 1
           /\ \A k \in 1 .. Len(s) - 1 : RemoveAt(s, i)[k] = s[IF k < i THEN k ELSE k + 1]
<1> DEFINE S == Range(s)
           a == SubSeq(s, 1, i - 1)
           b == SubSeq(s, i + 1, Len(s))
           t == a \o b
<1>1. s \in Seq(S) /\ Len(s) \in Nat /\ i \in 1 .. Len(s)
  BY DEF IsList
<1>2. /\ a \in Seq(S) /\ Len(a) = i - 1
      /\ \A k \in 1 .. i - 1 : a[k] = s[k]
  BY <1>1
<1>3. /\ b \in Seq(S) /\ Len(b) = Len(s) - i
      /\ \A k \in 1 .. Len(s) - i : b[k] = s[k + i]
  BY <1>1
<1> HIDE DEF a, b, S
<1>4. t \in Seq(S) /\ Len(t) = Len(s) - 1
  BY <1>1, <1>2, <1>3
<1>5. ASSUME NEW k \in 1 .. Len(s) - 1 PROVE t[k] = s[IF k < i THEN k ELSE k + 1]
  <2>1. CASE k < i
    <3>1. k \in 1 .. Len(a)
      BY <1>1, <1>2, <2>1
    <3>2. t[k] = a[k]
      BY <1>2, <1>3, <3>1
    <3> QED
      BY <1>2, <2>1, <3>1, <3>2
  <2>2. CASE k >= i
    <3>1. t[k] = b[k - (i - 1)]
      BY <1>1, <1>2, <1>3, <2>2
    <3>2. k - (i - 1) \in 1 .. Len(s) - i /\ k - (i - 1) + i = k + 1
      BY <1>1, <2>2
    <3> QED
      BY SMTT(30), <1>1, <1>3, <2>2, <3>1, <3>2
  <2>3. k \in Int /\ i \in Int
    BY <1>1
  <2> HIDE DEF t
  <2> QED
    BY <2>1, <2>2, <2>3
<1>6. t = [k \in 1 .. Len(t) |-> t[k]] /\ Len(t) \in Nat
  <2> HIDE DEF t
  <2> QED BY <1>4
<1>7. IsList(t)
  <2> HIDE DEF t
  <2> QED BY <1>6, FunctionIsList
<1>8. t = RemoveAt(s, i)
  BY DEF RemoveAt, a, b
<1> QED
  BY <1>4, <1>5, <1>7, <1>8

LEMMA MinIs ==
    ASSUME NEW S \in SUBSET Nat, S # {}
    PROVE  Min(S) \in S /\ \A x \in S : Min(S) <= x
  BY NatMin DEF Min

\* The n-th of a finite set of numbers: ranks are a bijection.
LEMMA RankExists ==
    ASSUME NEW m \in Nat, NEW K \in SUBSET (1 .. m)
    PROVE  /\ IsFiniteSet(K) /\ Cardinality(K) \in Nat
           /\ \A n \in 1 .. Cardinality(K) : \E k \in K : Cardinality({j \in K : j <= k}) = n
<1> DEFINE Rank(k) == Cardinality({j \in K : j <= k})
           f == [k \in K |-> Rank(k)]
<1>1. IsFiniteSet(K) /\ Cardinality(K) \in Nat
  <2>1. IsFiniteSet(1 .. m)
    BY FS_Interval
  <2> QED
    BY <2>1, FS_Subset, FS_CardinalityType
<1>2. ASSUME NEW k \in K PROVE Rank(k) \in 1 .. Cardinality(K)
  <2> DEFINE L == {j \in K : j <= k}
  <2>1. IsFiniteSet(L) /\ Cardinality(L) <= Cardinality(K) /\ L # {}
    BY <1>1, FS_Subset
  <2> HIDE DEF L
  <2>2. Cardinality(L) \in Nat /\ Cardinality(L) # 0
    BY <2>1, FS_CardinalityType, FS_EmptySet
  <2> QED
    BY <1>1, <2>1, <2>2 DEF L
<1>3. ASSUME NEW j \in K, NEW k \in K, j < k PROVE Rank(j) < Rank(k)
  <2> DEFINE A == {i \in K : i <= j}
             B == {i \in K : i <= k}
  <2>1. A \subseteq B /\ A # B
    <3>1. k \in B /\ k \notin A
      BY <1>3
    <3>2. A \subseteq B
      <4>1. \A i \in K : i \in Int
        OBVIOUS
      <4>2. \A i \in K : i <= j => i <= k
        BY <1>3, <4>1
      <4> QED
        BY <4>2
    <3> QED
      BY <3>1, <3>2
  <2>2. IsFiniteSet(A) /\ IsFiniteSet(B)
    BY <1>1, FS_Subset
  <2> HIDE DEF A, B
  <2>3. Cardinality(A) < Cardinality(B)
    BY <2>1, <2>2, FS_Subset, FS_CardinalityType
  <2> QED
    BY <2>3 DEF A, B
<1>4. f \in [K -> 1 .. Cardinality(K)]
  BY <1>2
<1>5. IsInjective(f)
  <2> SUFFICES ASSUME NEW j \in K, NEW k \in K, Rank(j) = Rank(k), j # k PROVE FALSE
    BY DEF IsInjective
  <2>1. j \in Int /\ k \in Int /\ Rank(j) \in Int /\ Rank(k) \in Int
    BY <1>2
  <2> HIDE DEF Rank
  <2> QED
    BY <1>3, <2>1
<1>6. f \in Surjection(K, 1 .. Cardinality(K))
  <2>1. f \in Injection(K, 1 .. Cardinality(K))
    BY <1>4, <1>5 DEF Injection
  <2>2. IsFiniteSet(1 .. Cardinality(K)) /\ Cardinality(1 .. Cardinality(K)) = Cardinality(K)
    BY <1>1, FS_Interval
  <2> HIDE DEF f
  <2> QED
    BY <2>1, <2>2, FS_Injection
<1>7. \A n \in 1 .. Cardinality(K) : \E k \in K : f[k] = n
  <2> HIDE DEF f
  <2> QED BY <1>6 DEF Surjection
<1> QED
  BY <1>1, <1>7

LEMMA SublistIs ==
    ASSUME NEW s, IsList(s), NEW K \in SUBSET DOMAIN s
    PROVE  /\ IsList(Sublist(s, K))
           /\ \E f \in [DOMAIN Sublist(s, K) -> K] :
                /\ \A n \in DOMAIN Sublist(s, K) : Sublist(s, K)[n] = s[f[n]]
                /\ \A m, n \in DOMAIN Sublist(s, K) : f[m] = f[n] => m = n
<1> DEFINE Rank(k) == Cardinality({j \in K : j <= k})
           N == Cardinality(K)
           Nth(n) == CHOOSE k \in K : Rank(k) = n
           f == [n \in 1 .. N |-> Nth(n)]
           t == Sublist(s, K)
<1>1. N \in Nat /\ \A n \in 1 .. N : \E k \in K : Rank(k) = n
  <2>1. Len(s) \in Nat /\ K \in SUBSET (1 .. Len(s))
    BY ListFacts
  <2> QED
    BY <2>1, RankExists
<1> HIDE DEF N
<1>2. t = [n \in 1 .. N |-> s[Nth(n)]]
  BY DEF Sublist, N
<1>3. \A n \in 1 .. N : Nth(n) \in K /\ Rank(Nth(n)) = n
  <2> HIDE DEF Rank
  <2> QED BY <1>1
<1> HIDE DEF Rank, Nth, t
<1>4. IsList(t) /\ Len(t) = N /\ DOMAIN t = 1 .. N
  BY <1>1, <1>2, FunctionIsList
<1>5. f \in [1 .. N -> K]
  BY <1>3
<1>6. \A n \in 1 .. N : t[n] = s[f[n]]
  BY <1>2
<1>7. \A m, n \in 1 .. N : f[m] = f[n] => m = n
  BY <1>3
<1> HIDE DEF f
<1> QED
  BY <1>4, <1>5, <1>6, <1>7 DEF t

-----------------------------------------------------------------------------
(* What contexts look like                                                  *)

Mids == 0 .. MidSpan - 1

Flags == {"pmin", "pmax"} \cup Thresholds

IsParams(p) ==
    /\ p.set \subseteq Flags
    /\ p.pmin \in Nat /\ p.pmax \in Nat

IsWatcher(w) ==
    /\ w \in [server : Servers, active : BOOLEAN, update : BOOLEAN, lastTime : -Horizon .. 0,
              lastMid : Mids, value : {w.value}, params : {w.params}, asked : {w.asked},
              told : {w.told}, silent : BOOLEAN]
    /\ w.params # None => IsParams(w.params)

Uris == {u \in Seq(Nat) : Len(u) \in 1 .. 4}

IsEntry(e) ==
    /\ e \in [uri : Uris, watchers : {e.watchers}]
    /\ e.uri[1] \in ObjectIds
    /\ IsList(e.watchers)
    /\ \A n \in DOMAIN e.watchers : IsWatcher(e.watchers[n])

\* observedList
IsObserved(L) == IsList(L) /\ \A k \in DOMAIN L : IsEntry(L[k])

IsFunction(f) == f = [x \in DOMAIN f |-> f[x]]

\* The instances of the objects: each has the resources it lists.
IsStore(S) ==
    /\ IsFunction(S) /\ DOMAIN S = ObjectIds
    /\ \A o \in ObjectIds :
         /\ IsFunction(S[o])
         /\ DOMAIN S[o] \in SUBSET Nat
         /\ IsFiniteSet(DOMAIN S[o])
         /\ \A i \in DOMAIN S[o] : ResourceList(o) \subseteq DOMAIN S[o][i]

IsContext(c) ==
    /\ c \in [store : {c.store}, observed : {c.observed}, nextMID : Mids]
    /\ IsStore(c.store)
    /\ IsObserved(c.observed)

\* EntriesSound, of a list.
SoundEntry(e) ==
    /\ e.watchers # <<>>
    /\ \A m, n \in DOMAIN e.watchers : e.watchers[m].server = e.watchers[n].server => m = n

Apart(L) == \A j, k \in DOMAIN L : L[j].uri = L[k].uri => j = k

Sound(L) == Apart(L) /\ \A k \in DOMAIN L : SoundEntry(L[k])

\* NoChangeLost, of a watcher of URI u whose value is now data.
Kept(w, u, data) ==
    w.active /\ w.asked = u /\ ~w.silent => w.update \/ w.told = <<Len(u), data>>

AllKept(c) ==
    \A k \in DOMAIN c.observed : \A n \in DOMAIN c.observed[k].watchers :
        Kept(c.observed[k].watchers[n], c.observed[k].uri,
             object_readData(c, c.observed[k].uri).data)

\* What is read depends on the objects only.
LEMMA ReadOfStore ==
    ASSUME NEW c, NEW d, c.store = d.store, NEW u
    PROVE  object_readData(c, u) = object_readData(d, u)
  BY DEF object_readData, HasInstance, Instance
-----------------------------------------------------------------------------
(* Changes of the observed list                                             *)

\* The list of watchers of entry k becomes W; its n-th watcher becomes w.
WithWatchers(c, k, W) == [c EXCEPT !.observed[k].watchers = W]
WithWatcher(c, k, n, w) == [c EXCEPT !.observed[k].watchers[n] = w]

LEMMA PutWatchers ==
    ASSUME NEW c, IsContext(c), NEW k \in DOMAIN c.observed, NEW W, IsList(W),
           \A n \in DOMAIN W : IsWatcher(W[n]),
           NEW d, d = WithWatchers(c, k, W)
    PROVE  /\ IsContext(d)
           /\ d.store = c.store /\ d.nextMID = c.nextMID
           /\ DOMAIN d.observed = DOMAIN c.observed
           /\ \A j \in DOMAIN c.observed : d.observed[j].uri = c.observed[j].uri
           /\ d.observed[k].watchers = W
           /\ \A j \in DOMAIN c.observed \ {k} : d.observed[j] = c.observed[j]
<1> DEFINE L == c.observed
           e == [L[k] EXCEPT !.watchers = W]
           M == [L EXCEPT ![k] = e]
<1>1. /\ d.store = c.store /\ d.nextMID = c.nextMID /\ d.observed = M
      /\ d \in [store : {d.store}, observed : {d.observed}, nextMID : Mids]
  BY DEF IsContext, WithWatchers
<1>2. IsEntry(L[k])
  BY DEF IsContext, IsObserved
<1>3. e.uri = L[k].uri /\ e.watchers = W /\ e \in [uri : Uris, watchers : {e.watchers}]
  BY <1>2 DEF IsEntry
<1>4. IsEntry(e)
  <2> HIDE DEF e
  <2> QED BY <1>2, <1>3 DEF IsEntry
<1>5. IsList(L) /\ DOMAIN M = DOMAIN L /\ \A j \in DOMAIN L : IsEntry(L[j])
  BY DEF IsContext, IsObserved
<1>6. M[k] = e /\ \A j \in DOMAIN L \ {k} : M[j] = L[j]
  BY <1>5
<1>7. IsList(M)
  <2>1. Len(L) \in Nat /\ M = [j \in 1 .. Len(L) |-> M[j]]
    BY <1>5, ListFacts
  <2> HIDE DEF M
  <2> QED BY <2>1, FunctionIsList
<1> HIDE DEF e, M, L
<1>8. \A j \in DOMAIN M : IsEntry(M[j])
  BY <1>4, <1>5, <1>6
<1> QED
  BY <1>1, <1>3, <1>5, <1>6, <1>7, <1>8 DEF IsContext, IsObserved, L

\* One watcher is replaced.
LEMMA PutWatcher ==
    ASSUME NEW c, IsContext(c), NEW k \in DOMAIN c.observed,
           NEW n \in DOMAIN c.observed[k].watchers, NEW w, IsWatcher(w),
           NEW d, d = WithWatcher(c, k, n, w)
    PROVE  /\ IsContext(d)
           /\ d.store = c.store /\ d.nextMID = c.nextMID
           /\ DOMAIN d.observed = DOMAIN c.observed
           /\ \A j \in DOMAIN c.observed : d.observed[j].uri = c.observed[j].uri
           /\ \A j \in DOMAIN c.observed \ {k} : d.observed[j] = c.observed[j]
           /\ DOMAIN d.observed[k].watchers = DOMAIN c.observed[k].watchers
           /\ d.observed[k].watchers[n] = w
           /\ \A m \in DOMAIN c.observed[k].watchers \ {n} :
                d.observed[k].watchers[m] = c.observed[k].watchers[m]
<1> DEFINE V == c.observed[k].watchers
           W == [V EXCEPT ![n] = w]
<1>1. IsEntry(c.observed[k])
  BY DEF IsContext, IsObserved
<1>2. IsList(V) /\ \A m \in DOMAIN V : IsWatcher(V[m])
  BY <1>1 DEF IsEntry
<1> HIDE DEF V
<1>3. DOMAIN W = DOMAIN V /\ W[n] = w /\ \A m \in DOMAIN V \ {n} : W[m] = V[m]
  BY <1>2, ListFacts DEF V
<1>4. IsList(W)
  <2>1. Len(V) \in Nat /\ W = [j \in 1 .. Len(V) |-> W[j]]
    BY <1>2, ListFacts
  <2> HIDE DEF W
  <2> QED BY <2>1, FunctionIsList
<1>5. d = WithWatchers(c, k, W)
  BY DEF V, WithWatchers, WithWatcher
<1> HIDE DEF W
<1>6. \A m \in DOMAIN W : IsWatcher(W[m])
  BY <1>2, <1>3
<1>7. /\ IsContext(d)
      /\ d.store = c.store /\ d.nextMID = c.nextMID
      /\ DOMAIN d.observed = DOMAIN c.observed
      /\ \A j \in DOMAIN c.observed : d.observed[j].uri = c.observed[j].uri
      /\ d.observed[k].watchers = W
      /\ \A j \in DOMAIN c.observed \ {k} : d.observed[j] = c.observed[j]
  BY <1>4, <1>5, <1>6, PutWatchers
<1> QED
  BY <1>3, <1>7 DEF V

\* The first entry whose URI begins with u, and the watcher of a server.
LEMMA FoundObserved ==
    ASSUME NEW c, IsContext(c), NEW u \in Uris
    PROVE  /\ prv_findObserved(c, u) # 0 => prv_findObserved(c, u) \in DOMAIN c.observed
           /\ \A k \in DOMAIN c.observed :
                IsPrefix(u, c.observed[k].uri) => prv_findObserved(c, u) # 0
           /\ \A k \in DOMAIN c.observed :
                IsPrefix(u, c.observed[k].uri) => prv_findObserved(c, u) <= k
           /\ prv_findObserved(c, u) # 0 => IsPrefix(u, c.observed[prv_findObserved(c, u)].uri)
<1> DEFINE S == {k \in DOMAIN c.observed : IsPrefix(u, c.observed[k].uri)}
<1>1. DOMAIN c.observed \subseteq Nat \ {0}
  BY ListFacts DEF IsContext, IsObserved
<1>2. prv_findObserved(c, u) = IF S = {} THEN 0 ELSE Min(S)
  BY DEF prv_findObserved
<1>3. S \in SUBSET Nat /\ S # {} => Min(S) \in S /\ \A x \in S : Min(S) <= x
  <2> HIDE DEF S
  <2> QED BY MinIs
<1> QED
  BY <1>1, <1>2, <1>3

LEMMA FoundWatcher ==
    ASSUME NEW W, IsList(W), NEW s
    PROVE  /\ prv_findWatcher(W, s) # 0 =>
                prv_findWatcher(W, s) \in DOMAIN W /\ W[prv_findWatcher(W, s)].server = s
           /\ \A n \in DOMAIN W : W[n].server = s => prv_findWatcher(W, s) # 0
<1> DEFINE S == {k \in DOMAIN W : W[k].server = s}
<1>1. DOMAIN W \subseteq Nat \ {0}
  BY ListFacts
<1>2. prv_findWatcher(W, s) = IF S = {} THEN 0 ELSE Min(S)
  BY DEF prv_findWatcher
<1>3. S \in SUBSET Nat /\ S # {} => Min(S) \in S /\ \A x \in S : Min(S) <= x
  <2> HIDE DEF S
  <2> QED BY MinIs
<1> QED
  BY <1>1, <1>2, <1>3

LEMMA PrefixOfItself ==
    ASSUME NEW u \in Uris
    PROVE  IsPrefix(u, u)
  BY DEF IsPrefix, Uris

\* An entry with no watcher yet comes first in the list.
LEMMA WithObservedIs ==
    ASSUME NEW c, IsContext(c), Sound(c.observed), NEW u \in Uris, u[1] \in ObjectIds,
           NEW d, d = WithObserved(c, u), NEW k, k = prv_findObserved(d, u)
    PROVE  /\ IsContext(d) /\ d.store = c.store /\ d.nextMID = c.nextMID
           /\ k \in DOMAIN d.observed
           /\ Apart(d.observed)
           /\ \A j \in DOMAIN d.observed :
                SoundEntry(d.observed[j]) \/ (j = k /\ d.observed[j].watchers = <<>>)
           /\ AllKept(c) => AllKept(d)
<1>1. CASE prv_findObserved(c, u) # 0
  <2>1. d = c
    BY <1>1 DEF WithObserved
  <2> QED
    BY <1>1, <2>1, FoundObserved DEF Sound
<1>2. CASE prv_findObserved(c, u) = 0
  <2> DEFINE e == [uri |-> u, watchers |-> <<>>]
             L == c.observed
             M == <<e>> \o L
  <2>1. /\ d.store = c.store /\ d.nextMID = c.nextMID /\ d.observed = M
        /\ d \in [store : {d.store}, observed : {d.observed}, nextMID : Mids]
    BY <1>2 DEF WithObserved, IsContext
  <2>2. IsList(L) /\ \A j \in DOMAIN L : IsEntry(L[j])
    BY DEF IsContext, IsObserved
  <2>3. e.uri = u /\ e.watchers = <<>> /\ IsEntry(e)
    BY DEF IsEntry, IsList, Range
  <2> HIDE DEF e, L, M
  <2>4. /\ IsList(M) /\ Len(M) = Len(L) + 1 /\ M[1] = e
        /\ \A j \in 1 .. Len(L) : M[j + 1] = L[j]
    BY <2>2, ConsList DEF M
  <2>5. /\ Len(L) \in Nat /\ DOMAIN L = 1 .. Len(L) /\ DOMAIN M = 1 .. Len(L) + 1
    BY <2>2, <2>4, ListFacts
  <2>6. \A j \in DOMAIN M : j = 1 \/ (j - 1 \in DOMAIN L /\ M[j] = L[j - 1])
    <3> SUFFICES ASSUME NEW j \in DOMAIN M, j # 1 PROVE j - 1 \in 1 .. Len(L) /\ M[j] = L[j - 1]
      BY <2>5
    <3>1. j - 1 \in 1 .. Len(L) /\ (j - 1) + 1 = j
      BY <2>5
    <3> QED
      BY <2>4, <3>1
  <2>7. IsContext(d)
    <3>1. \A j \in DOMAIN M : IsEntry(M[j])
      BY <2>2, <2>3, <2>4, <2>6
    <3> QED
      BY <2>1, <2>4, <3>1 DEF IsContext, IsObserved
  <2>8. k = 1
    <3>1. 1 \in DOMAIN d.observed /\ IsPrefix(u, d.observed[1].uri)
      BY <2>1, <2>3, <2>4, <2>5, PrefixOfItself
    <3>2. k # 0 /\ k <= 1 /\ k \in DOMAIN d.observed
      BY <2>7, <3>1, FoundObserved
    <3> QED
      BY <2>1, <2>5, <3>2
  <2>9. \A j \in DOMAIN L : L[j].uri # u
    <3> SUFFICES ASSUME NEW j \in DOMAIN L, L[j].uri = u PROVE FALSE
      OBVIOUS
    <3>1. IsPrefix(u, c.observed[j].uri)
      BY PrefixOfItself DEF L
    <3> QED
      BY <1>2, <3>1, FoundObserved DEF L
  <2>10. Apart(M)
    <3>1. Apart(L)
      BY DEF Sound, L
    <3> SUFFICES ASSUME NEW i \in DOMAIN M, NEW j \in DOMAIN M, M[i].uri = M[j].uri PROVE i = j
      BY DEF Apart
    <3>2. i \in Int /\ j \in Int
      BY <2>5
    <3>3. \A h \in DOMAIN M : h = 1 \/ (h - 1 \in DOMAIN L /\ M[h].uri = L[h - 1].uri /\ M[h].uri # u)
      BY <2>6, <2>9
    <3>4. M[1].uri = u
      BY <2>3, <2>4
    <3>5. i = 1 <=> j = 1
      BY <3>3, <3>4
    <3>6. i # 1 /\ j # 1 => i - 1 = j - 1
      BY <3>1, <3>3 DEF Apart
    <3> QED
      BY <3>2, <3>5, <3>6
  <2>11. \A j \in DOMAIN M : SoundEntry(M[j]) \/ (j = k /\ M[j].watchers = <<>>)
    BY <2>3, <2>4, <2>6, <2>8 DEF Sound, L
  <2>12. ASSUME AllKept(c) PROVE AllKept(d)
    <3>1. \A v : object_readData(c, v) = object_readData(d, v)
      BY <2>1, ReadOfStore
    <3>2. ASSUME NEW j \in DOMAIN M, NEW n \in DOMAIN M[j].watchers
          PROVE  j - 1 \in DOMAIN L /\ M[j] = L[j - 1]
      <4>1. DOMAIN e.watchers = {}
        BY <2>3
      <4> QED
        BY <2>4, <2>6, <4>1
    <3> QED
      BY <2>1, <2>12, <3>1, <3>2 DEF AllKept, L
  <2> QED
    BY <2>1, <2>5, <2>7, <2>8, <2>10, <2>11, <2>12
<1> QED
  BY <1>1, <1>2

LEMMA SameFound ==
    ASSUME NEW c, NEW d, NEW u, DOMAIN d.observed = DOMAIN c.observed,
           \A k \in DOMAIN c.observed : d.observed[k].uri = c.observed[k].uri
    PROVE  prv_findObserved(d, u) = prv_findObserved(c, u)
<1>1. {k \in DOMAIN d.observed : IsPrefix(u, d.observed[k].uri)}
       = {k \in DOMAIN c.observed : IsPrefix(u, c.observed[k].uri)}
  OBVIOUS
<1> QED
  BY <1>1 DEF prv_findObserved

LEMMA NewWatcherIs ==
    ASSUME NEW s \in Servers, NEW u
    PROVE  /\ IsWatcher(NewWatcher(s, u))
           /\ NewWatcher(s, u).server = s /\ ~NewWatcher(s, u).active
<1>1. 0 \in Mids /\ 0 \in -Horizon .. 0
  BY BoundAssumption DEF Mids
<1> QED
  BY <1>1 DEF NewWatcher, IsWatcher

\* prv_getWatcher returns a watcher of the server, on an entry that begins with u.
LEMMA GetWatcherIs ==
    ASSUME NEW c, IsContext(c), Sound(c.observed), NEW u \in Uris, u[1] \in ObjectIds,
           NEW s \in Servers,
           NEW d, d = prv_getWatcher(c, u, s), NEW k, k = prv_findObserved(d, u),
           NEW n, n = prv_findWatcher(d.observed[k].watchers, s)
    PROVE  /\ IsContext(d) /\ d.store = c.store /\ d.nextMID = c.nextMID
           /\ k \in DOMAIN d.observed
           /\ n \in DOMAIN d.observed[k].watchers
           /\ d.observed[k].watchers[n].server = s
           /\ Sound(d.observed)
           /\ AllKept(c) => AllKept(d)
<1> DEFINE b == WithObserved(c, u)
           h == prv_findObserved(b, u)
           V == b.observed[h].watchers
           W == <<NewWatcher(s, u)>> \o V
<1>1. /\ IsContext(b) /\ b.store = c.store /\ b.nextMID = c.nextMID
      /\ h \in DOMAIN b.observed
      /\ Apart(b.observed)
      /\ \A j \in DOMAIN b.observed :
           SoundEntry(b.observed[j]) \/ (j = h /\ b.observed[j].watchers = <<>>)
      /\ AllKept(c) => AllKept(b)
  BY WithObservedIs
<1>2. d = IF prv_findWatcher(V, s) # 0 THEN b ELSE WithWatchers(b, h, W)
  BY DEF prv_getWatcher, WithWatchers
<1> HIDE DEF b, h
<1>3. IsList(V) /\ \A m \in DOMAIN V : IsWatcher(V[m])
  BY <1>1 DEF IsContext, IsObserved, IsEntry
<1>4. CASE prv_findWatcher(V, s) # 0
  <2>1. d = b /\ k = h /\ n = prv_findWatcher(V, s)
    BY <1>2, <1>4 DEF h
  <2>2. n \in DOMAIN V /\ V[n].server = s
    BY <1>3, <1>4, <2>1, FoundWatcher
  <2>3. V # <<>>
    BY <2>2
  <2> QED
    BY <1>1, <2>1, <2>2, <2>3 DEF Sound
<1>5. CASE prv_findWatcher(V, s) = 0
  <2>1. d = WithWatchers(b, h, W)
    BY <1>2, <1>5
  <2>2. /\ IsList(W) /\ Len(W) = Len(V) + 1 /\ W[1] = NewWatcher(s, u)
        /\ \A m \in 1 .. Len(V) : W[m + 1] = V[m]
    BY <1>3, ConsList
  <2> HIDE DEF V, W
  <2>3. Len(V) \in Nat /\ DOMAIN V = 1 .. Len(V) /\ DOMAIN W = 1 .. Len(V) + 1
    BY <1>3, <2>2, ListFacts
  <2>4. \A m \in DOMAIN W : m = 1 \/ (m - 1 \in DOMAIN V /\ W[m] = V[m - 1])
    <3> SUFFICES ASSUME NEW m \in DOMAIN W, m # 1 PROVE m - 1 \in 1 .. Len(V) /\ W[m] = V[m - 1]
      BY <2>3
    <3>1. m - 1 \in 1 .. Len(V) /\ (m - 1) + 1 = m
      BY <2>3
    <3> QED
      BY <2>2, <3>1
  <2>5. \A m \in DOMAIN W : IsWatcher(W[m])
    BY <1>3, <2>2, <2>4, NewWatcherIs
  <2>6. /\ IsContext(d)
        /\ d.store = b.store /\ d.nextMID = b.nextMID
        /\ DOMAIN d.observed = DOMAIN b.observed
        /\ \A j \in DOMAIN b.observed : d.observed[j].uri = b.observed[j].uri
        /\ d.observed[h].watchers = W
        /\ \A j \in DOMAIN b.observed \ {h} : d.observed[j] = b.observed[j]
    BY SMTT(30), <1>1, <2>1, <2>2, <2>5, PutWatchers
  <2>7. k = h
    BY <2>6, SameFound DEF h
  <2>8. n \in DOMAIN W /\ W[n].server = s
    <3>1. 1 \in DOMAIN W /\ W[1].server = s
      BY <2>2, <2>3, NewWatcherIs
    <3> QED
      BY <2>2, <2>6, <2>7, <3>1, FoundWatcher
  <2>9. SoundEntry(d.observed[h])
    <3>1. \A m \in DOMAIN V : V[m].server # s
      BY <1>3, <1>5, FoundWatcher
    <3>2. W # <<>>
      BY <2>8
    <3>3. \A i, m \in DOMAIN V : V[i].server = V[m].server => i = m
      <4>1. CASE SoundEntry(b.observed[h])
        BY <4>1 DEF SoundEntry, V
      <4>2. CASE b.observed[h].watchers = <<>>
        BY <4>2 DEF V
      <4> QED
        BY <1>1, <4>1, <4>2
    <3>4. ASSUME NEW i \in DOMAIN W, NEW m \in DOMAIN W, W[i].server = W[m].server PROVE i = m
      <4>1. i \in Int /\ m \in Int
        BY <2>3
      <4>2. W[1].server = s
        BY <2>2, NewWatcherIs
      <4>3. i = 1 <=> m = 1
        BY <2>4, <3>1, <3>4, <4>2
      <4>4. i # 1 /\ m # 1 => i - 1 = m - 1
        BY <2>4, <3>3, <3>4
      <4> QED
        BY <4>1, <4>3, <4>4
    <3> QED
      BY <2>6, <3>2, <3>4 DEF SoundEntry
  <2>10. Sound(d.observed)
    <3>1. Apart(d.observed)
      BY <1>1, <2>6 DEF Apart
    <3> QED
      BY <1>1, <2>6, <2>9, <3>1 DEF Sound
  <2>11. ASSUME AllKept(b) PROVE AllKept(d)
    <3>1. \A v : object_readData(b, v) = object_readData(d, v)
      BY <2>6, ReadOfStore
    <3>2. SUFFICES ASSUME NEW j \in DOMAIN b.observed, NEW m \in DOMAIN d.observed[j].watchers
                   PROVE  Kept(d.observed[j].watchers[m], b.observed[j].uri,
                               object_readData(b, b.observed[j].uri).data)
      BY <2>6, <3>1 DEF AllKept
    <3>3. CASE j # h
      BY <2>6, <2>11, <3>3 DEF AllKept
    <3>4. CASE j = h /\ m = 1
      <4>1. ~d.observed[j].watchers[m].active
        BY <2>2, <2>6, <3>4, NewWatcherIs
      <4> QED
        BY <4>1 DEF Kept
    <3>5. CASE j = h /\ m # 1
      <4>1. m - 1 \in DOMAIN b.observed[h].watchers
            /\ d.observed[j].watchers[m] = b.observed[h].watchers[m - 1]
        BY <2>4, <2>6, <3>5 DEF V
      <4> QED
        BY <2>11, <3>5, <4>1 DEF AllKept
    <3> QED
      BY <3>3, <3>4, <3>5
  <2> QED
    BY <1>1, <2>6, <2>7, <2>8, <2>10, <2>11
<1> QED
  BY <1>4, <1>5

\* A watcher is replaced by one of the same server.
LEMMA ReplaceWatcher ==
    ASSUME NEW c, IsContext(c), Sound(c.observed), NEW k \in DOMAIN c.observed,
           NEW n \in DOMAIN c.observed[k].watchers, NEW w, IsWatcher(w),
           w.server = c.observed[k].watchers[n].server,
           NEW d, d = WithWatcher(c, k, n, w)
    PROVE  /\ IsContext(d) /\ d.store = c.store /\ d.nextMID = c.nextMID
           /\ Sound(d.observed)
           /\ AllKept(c) /\ Kept(w, c.observed[k].uri, object_readData(c, c.observed[k].uri).data)
              => AllKept(d)
<1>1. /\ IsContext(d)
      /\ d.store = c.store /\ d.nextMID = c.nextMID
      /\ DOMAIN d.observed = DOMAIN c.observed
      /\ \A j \in DOMAIN c.observed : d.observed[j].uri = c.observed[j].uri
      /\ \A j \in DOMAIN c.observed \ {k} : d.observed[j] = c.observed[j]
      /\ DOMAIN d.observed[k].watchers = DOMAIN c.observed[k].watchers
      /\ d.observed[k].watchers[n] = w
      /\ \A m \in DOMAIN c.observed[k].watchers \ {n} :
           d.observed[k].watchers[m] = c.observed[k].watchers[m]
  BY PutWatcher
<1>2. Sound(d.observed)
  <2>1. Apart(d.observed)
    BY <1>1 DEF Sound, Apart
  <2>2. SoundEntry(c.observed[k])
    BY DEF Sound
  <2>3. \A m \in DOMAIN c.observed[k].watchers :
          d.observed[k].watchers[m].server = c.observed[k].watchers[m].server
    BY <1>1
  <2>4. d.observed[k].watchers # <<>>
    <3>1. n \in DOMAIN d.observed[k].watchers
      BY <1>1
    <3> QED
      BY <3>1
  <2>5. SoundEntry(d.observed[k])
    BY <1>1, <2>2, <2>3, <2>4 DEF SoundEntry
  <2> QED
    BY <1>1, <2>1, <2>5 DEF Sound
<1>3. ASSUME AllKept(c), Kept(w, c.observed[k].uri, object_readData(c, c.observed[k].uri).data)
      PROVE  AllKept(d)
  <2>1. \A v : object_readData(c, v) = object_readData(d, v)
    BY <1>1, ReadOfStore
  <2>2. SUFFICES ASSUME NEW j \in DOMAIN c.observed, NEW m \in DOMAIN d.observed[j].watchers
                 PROVE  Kept(d.observed[j].watchers[m], c.observed[j].uri,
                             object_readData(c, c.observed[j].uri).data)
    BY <1>1, <2>1 DEF AllKept
  <2>3. CASE j # k
    BY <1>1, <1>3, <2>3 DEF AllKept
  <2>4. CASE j = k /\ m = n
    BY <1>1, <1>3, <2>4
  <2>5. CASE j = k /\ m # n
    BY <1>1, <1>3, <2>5 DEF AllKept
  <2> QED
    BY <2>3, <2>4, <2>5
<1> QED
  BY <1>1, <1>2, <1>3

\* What a change of one watcher does to the context it was got from.
LEMMA ChangeGotten ==
    ASSUME NEW c, IsContext(c), Sound(c.observed), NEW u \in Uris, u[1] \in ObjectIds,
           NEW s \in Servers, NEW b, b = prv_getWatcher(c, u, s),
           NEW w, IsWatcher(w), w.server = s,
           NEW d, NEW k, k = prv_findObserved(b, u),
           d = WithWatcher(b, k, prv_findWatcher(b.observed[k].watchers, s), w)
    PROVE  /\ IsContext(d) /\ d.store = c.store /\ d.nextMID = c.nextMID
           /\ Sound(d.observed)
           /\ AllKept(c) /\ Kept(w, b.observed[k].uri, object_readData(c, b.observed[k].uri).data)
              => AllKept(d)
<1> DEFINE n == prv_findWatcher(b.observed[k].watchers, s)
<1>1. /\ IsContext(b) /\ b.store = c.store /\ b.nextMID = c.nextMID
      /\ k \in DOMAIN b.observed
      /\ n \in DOMAIN b.observed[k].watchers
      /\ b.observed[k].watchers[n].server = s
      /\ Sound(b.observed)
      /\ AllKept(c) => AllKept(b)
  BY GetWatcherIs
<1>2. object_readData(c, b.observed[k].uri) = object_readData(b, b.observed[k].uri)
  BY <1>1, ReadOfStore
<1>3. d = WithWatcher(b, k, n, w)
  OBVIOUS
<1> HIDE DEF n
<1>4. /\ IsContext(d) /\ d.store = b.store /\ d.nextMID = b.nextMID
      /\ Sound(d.observed)
      /\ AllKept(b) /\ Kept(w, b.observed[k].uri, object_readData(b, b.observed[k].uri).data)
         => AllKept(d)
  BY <1>1, <1>3, ReplaceWatcher
<1> QED
  BY <1>1, <1>2, <1>4

\* A request with Observe 0 that can be read.
LEMMA BeginIs ==
    ASSUME NEW c, IsContext(c), Sound(c.observed), NEW u \in Uris, u[1] \in ObjectIds,
           NEW s \in Servers, NEW mid \in Mids, NEW token, NEW shown \in BOOLEAN,
           NEW d,
           d = observe_handleRequest(c, u, s, 0, token, mid, object_readData(c, u).data, shown).ctx
    PROVE  /\ IsContext(d) /\ d.store = c.store
           /\ Sound(d.observed)
           /\ AllKept(c) => AllKept(d)
<1> DEFINE data == object_readData(c, u).data
           b == prv_getWatcher(c, u, s)
           k == prv_findObserved(b, u)
           n == prv_findWatcher(b.observed[k].watchers, s)
           v == b.observed[k].watchers[n]
           w == [v EXCEPT !.active = TRUE, !.lastTime = now, !.lastMid = mid,
                          !.value = IF IsNumeric(u) THEN data ELSE @,
                          !.asked = u, !.told = <<Len(u), data>>, !.silent = ~shown]
<1>1. CASE ~token
  BY <1>1 DEF observe_handleRequest
<1>2. CASE token
  <2>1. d = WithWatcher(b, k, n, w)
    BY <1>2 DEF observe_handleRequest, UpdateWatcher, WithWatcher
  <2>2. /\ IsContext(b) /\ k \in DOMAIN b.observed /\ n \in DOMAIN b.observed[k].watchers
        /\ v.server = s
    <3> HIDE DEF k, n
    <3> QED BY GetWatcherIs DEF k, n
  <2>3. IsWatcher(v)
    BY <2>2 DEF IsContext, IsObserved, IsEntry
  <2> HIDE DEF v, data
  <2>4. IsWatcher(w) /\ w.server = s /\ w.asked = u /\ w.told = <<Len(u), data>>
    <3>1. now \in -Horizon .. 0
      BY BoundAssumption DEF now
    <3> QED
      BY <2>2, <2>3, <3>1 DEF IsWatcher
  <2> HIDE DEF w, n, k, b
  <2>5. \A x : Kept(w, x, object_readData(c, x).data)
    BY <2>4 DEF Kept, data
  <2>6. d = WithWatcher(b, k, prv_findWatcher(b.observed[k].watchers, s), w)
    BY <2>1 DEF n
  <2> QED
    BY <2>4, <2>5, <2>6, ChangeGotten DEF k, b
<1> QED
  BY <1>1, <1>2

IsAttributes(a) == a.set \subseteq Flags /\ a.pmin \in Nat /\ a.pmax \in Nat

LEMMA SetParamsIs ==
    ASSUME NEW v, IsWatcher(v), NEW attr, IsAttributes(attr),
           NEW w, w = SetParams(v, attr)
    PROVE  /\ IsWatcher(w) /\ w.server = v.server
           /\ w.active = v.active /\ w.asked = v.asked /\ w.silent = v.silent
           /\ w.update = v.update /\ w.told = v.told
<1> DEFINE F == DOMAIN NoAttributes
           p == [f \in F |-> attr[f]]
           q == [f \in F |-> IF f = "set" THEN v.params.set \ attr.clear
                             ELSE IF f \in attr.set THEN attr[f] ELSE v.params[f]]
<1>1. F = {"set", "pmin", "pmax", "gt", "lt", "st"}
  BY DEF NoAttributes
<1>2. IsParams(p)
  BY <1>1 DEF IsParams, IsAttributes
<1>3. v.params # None => IsParams(q)
  BY <1>1 DEF IsParams, IsAttributes, IsWatcher
<1>4. w = [v EXCEPT !.params = IF v.params = None THEN IF attr.set = {} THEN None ELSE p ELSE q]
  BY DEF SetParams
<1> HIDE DEF p, q, F
<1> QED
  BY <1>2, <1>3, <1>4 DEF IsWatcher

\* Write-Attributes: the watcher is made even if the rule on thresholds is broken.
LEMMA SetParametersIs ==
    ASSUME NEW c, IsContext(c), Sound(c.observed), NEW u \in Uris,
           NEW s \in Servers, NEW attr, IsAttributes(attr),
           NEW d, d = observe_setParameters(c, u, s, attr).ctx
    PROVE  /\ IsContext(d) /\ d.store = c.store
           /\ Sound(d.observed)
           /\ AllKept(c) => AllKept(d)
<1> DEFINE code == object_checkReadable(c, u, attr.set \cap Thresholds # {})
           b == prv_getWatcher(c, u, s)
           k == prv_findObserved(b, u)
           n == prv_findWatcher(b.observed[k].watchers, s)
           v == b.observed[k].watchers[n]
           w == SetParams(v, attr)
<1>1. CASE code # "2.05"
  BY <1>1 DEF observe_setParameters
<1>2. CASE code = "2.05"
  <2>1. u[1] \in ObjectIds
    BY <1>2 DEF object_checkReadable
  <2>2. d = IF BreaksRule(v, attr) THEN b ELSE WithWatcher(b, k, n, w)
    <3>1. d = ParametersSet(b, u, s, attr).ctx
      BY <1>2 DEF observe_setParameters
    <3> HIDE DEF b
    <3> QED
      BY <3>1 DEF ParametersSet, TheWatcher, UpdateWatcher, WithWatcher
  <2>3. /\ IsContext(b) /\ b.store = c.store
        /\ k \in DOMAIN b.observed /\ n \in DOMAIN b.observed[k].watchers
        /\ v.server = s
        /\ Sound(b.observed)
        /\ AllKept(c) => AllKept(b)
    <3> HIDE DEF k, n
    <3> QED BY <2>1, GetWatcherIs DEF k, n
  <2>4. CASE BreaksRule(v, attr)
    BY <2>2, <2>3, <2>4
  <2>5. CASE ~BreaksRule(v, attr)
    <3>1. IsWatcher(v)
      BY <2>3 DEF IsContext, IsObserved, IsEntry
    <3> HIDE DEF v
    <3>2. /\ IsWatcher(w) /\ w.server = s
          /\ w.active = v.active /\ w.asked = v.asked /\ w.silent = v.silent
          /\ w.update = v.update /\ w.told = v.told
      BY <2>3, <3>1, SetParamsIs
    <3> HIDE DEF w, n, k, b
    <3>3. ASSUME AllKept(c)
          PROVE  Kept(w, b.observed[k].uri, object_readData(c, b.observed[k].uri).data)
      <4>1. object_readData(c, b.observed[k].uri) = object_readData(b, b.observed[k].uri)
        BY <2>3, ReadOfStore
      <4>2. Kept(v, b.observed[k].uri, object_readData(b, b.observed[k].uri).data)
        BY <2>3, <3>3 DEF AllKept, v
      <4> QED
        BY <3>2, <4>1, <4>2 DEF Kept
    <3>4. d = WithWatcher(b, k, prv_findWatcher(b.observed[k].watchers, s), w)
      BY <2>2, <2>5 DEF n
    <3> QED
      BY <2>1, <3>2, <3>3, <3>4, ChangeGotten DEF k, b
  <2> QED
    BY <2>4, <2>5
<1> QED
  BY <1>1, <1>2

-----------------------------------------------------------------------------
(* Ends of observations                                                     *)

\* Every entry of L with its watchers is one of M: which is all that AllKept asks.
Within(L, M) ==
    \A j \in DOMAIN L : \E k \in DOMAIN M :
        /\ L[j].uri = M[k].uri
        /\ \A n \in DOMAIN L[j].watchers : \E m \in DOMAIN M[k].watchers :
             L[j].watchers[n] = M[k].watchers[m]

LEMMA FewerAreKept ==
    ASSUME NEW c, NEW d, d.store = c.store, Within(d.observed, c.observed), AllKept(c)
    PROVE  AllKept(d)
<1>1. \A v : object_readData(c, v) = object_readData(d, v)
  BY ReadOfStore
<1>2. SUFFICES ASSUME NEW j \in DOMAIN d.observed, NEW n \in DOMAIN d.observed[j].watchers
               PROVE  Kept(d.observed[j].watchers[n], d.observed[j].uri,
                           object_readData(c, d.observed[j].uri).data)
  BY <1>1 DEF AllKept
<1>3. PICK k \in DOMAIN c.observed :
        /\ d.observed[j].uri = c.observed[k].uri
        /\ \A i \in DOMAIN d.observed[j].watchers : \E m \in DOMAIN c.observed[k].watchers :
             d.observed[j].watchers[i] = c.observed[k].watchers[m]
  BY DEF Within
<1>4. PICK m \in DOMAIN c.observed[k].watchers :
        d.observed[j].watchers[n] = c.observed[k].watchers[m]
  BY <1>3
<1> QED
  BY <1>3, <1>4 DEF AllKept

\* observe_clear takes entries out and keeps the rest as it is.
LEMMA ClearIs ==
    ASSUME NEW c, IsContext(c), Sound(c.observed), NEW u,
           NEW d, d = observe_clear(c, u)
    PROVE  /\ IsContext(d) /\ d.store = c.store
           /\ Sound(d.observed)
           /\ Within(d.observed, c.observed)
<1> DEFINE Cleared(e) == e.uri[1] = u[1] /\ (Len(u) = 1 \/ (Len(e.uri) > 1 /\ e.uri[2] = u[2]))
           L == c.observed
           K == {k \in DOMAIN L : ~Cleared(L[k])}
           M == Sublist(L, K)
<1>1. /\ d.store = c.store /\ d.nextMID = c.nextMID /\ d.observed = M
      /\ d \in [store : {d.store}, observed : {d.observed}, nextMID : Mids]
  BY DEF IsContext, observe_clear
<1>2. IsList(L) /\ \A j \in DOMAIN L : IsEntry(L[j])
  BY DEF IsContext, IsObserved
<1> HIDE DEF L
<1>3. K \in SUBSET DOMAIN L
  OBVIOUS
<1> HIDE DEF K
<1>4. IsList(M)
  BY <1>2, <1>3, SublistIs
<1>5. PICK f \in [DOMAIN M -> K] :
        /\ \A n \in DOMAIN M : M[n] = L[f[n]]
        /\ \A m, n \in DOMAIN M : f[m] = f[n] => m = n
  BY <1>2, <1>3, SublistIs
<1> HIDE DEF M
<1>6. \A n \in DOMAIN M : f[n] \in DOMAIN L
  BY <1>3, <1>5
<1>7. IsContext(d)
  BY <1>1, <1>2, <1>4, <1>5, <1>6 DEF IsContext, IsObserved
<1>8. Sound(M)
  <2>1. Apart(M)
    BY <1>5, <1>6 DEF Sound, Apart, L
  <2> QED
    BY <1>5, <1>6, <2>1 DEF Sound, L
<1>9. Within(M, L)
  BY <1>5, <1>6 DEF Within
<1> QED
  BY <1>1, <1>7, <1>8, <1>9 DEF L

\* observe_cancel takes one watcher out, and its entry if no other is left.
LEMMA CancelIs ==
    ASSUME NEW c, IsContext(c), Sound(c.observed), NEW mid, NEW s,
           NEW d, d = observe_cancel(c, mid, s)
    PROVE  /\ IsContext(d) /\ d.store = c.store
           /\ Sound(d.observed)
           /\ Within(d.observed, c.observed)
<1> DEFINE L == c.observed
           Match(k) == {n \in DOMAIN L[k].watchers :
                          L[k].watchers[n].lastMid = mid /\ L[k].watchers[n].server = s}
           S == {k \in DOMAIN L : Match(k) # {}}
           k == Min(S)
           V == L[k].watchers
           m == Min(Match(k))
           W == RemoveAt(V, m)
           b == WithWatchers(c, k, W)
<1>1. d = IF S = {} THEN c
          ELSE IF b.observed[k].watchers = <<>> THEN prv_unlinkObserved(b, k) ELSE b
  BY DEF observe_cancel, WithWatchers
<1>2. IsList(L) /\ \A j \in DOMAIN L : IsEntry(L[j]) /\ IsList(L[j].watchers)
  BY DEF IsContext, IsObserved, IsEntry
<1>3. CASE S = {}
  <2>1. d = c
    BY <1>1, <1>3
  <2> QED
    BY <2>1 DEF Within
<1>4. CASE S # {}
  <2> HIDE DEF L, Match
  <2>1. S \in SUBSET Nat
    BY <1>2, ListFacts
  <2>2. k \in DOMAIN L /\ Match(k) # {}
    <3>1. k \in S
      <4> HIDE DEF S
      <4> QED BY <1>4, <2>1, MinIs
    <3> HIDE DEF k
    <3> QED
      BY <3>1
  <2> HIDE DEF S, k
  <2>3. m \in DOMAIN V
    <3>1. Match(k) \in SUBSET DOMAIN V /\ DOMAIN V \in SUBSET Nat
      BY <1>2, <2>2, ListFacts DEF Match
    <3> HIDE DEF V
    <3>2. m \in Match(k)
      BY <2>2, <3>1, MinIs
    <3> QED
      BY <3>1, <3>2
  <2> HIDE DEF m
  <2>4. IsList(V) /\ \A n \in DOMAIN V : IsWatcher(V[n])
    BY <1>2, <2>2 DEF IsEntry
  <2> HIDE DEF V
  <2>5. /\ IsList(W) /\ Len(W) = Len(V) - 1
        /\ \A n \in 1 .. Len(V) - 1 : W[n] = V[IF n < m THEN n ELSE n + 1]
    BY <2>3, <2>4, RemoveList
  <2> HIDE DEF W
  <2> DEFINE At(n) == IF n < m THEN n ELSE n + 1
  <2>6. /\ \A n \in DOMAIN W : At(n) \in DOMAIN V /\ W[n] = V[At(n)]
        /\ \A i, n \in DOMAIN W : At(i) = At(n) => i = n
    <3>1. /\ Len(V) \in Nat /\ DOMAIN V = 1 .. Len(V) /\ DOMAIN W = 1 .. Len(V) - 1
      BY <2>4, <2>5, ListFacts
    <3>2. m \in Int
      BY <2>3, <3>1
    <3> QED
      BY <2>5, <3>1, <3>2
  <2> HIDE DEF At
  <2>7. \A n \in DOMAIN W : IsWatcher(W[n])
    BY <2>4, <2>6
  <2>8. /\ IsContext(b)
        /\ b.store = c.store /\ b.nextMID = c.nextMID
        /\ DOMAIN b.observed = DOMAIN L
        /\ \A j \in DOMAIN L : b.observed[j].uri = L[j].uri
        /\ b.observed[k].watchers = W
        /\ \A j \in DOMAIN L \ {k} : b.observed[j] = L[j]
    <3>1. k \in DOMAIN c.observed
      BY <2>2 DEF L
    <3> HIDE DEF b
    <3> QED BY <2>5, <2>7, <3>1, PutWatchers DEF L, b
  <2> HIDE DEF b
  <2>9. Within(b.observed, L)
    <3> SUFFICES ASSUME NEW j \in DOMAIN L
                 PROVE  \A n \in DOMAIN b.observed[j].watchers : \E i \in DOMAIN L[j].watchers :
                          b.observed[j].watchers[n] = L[j].watchers[i]
      BY <2>8 DEF Within
    <3>1. CASE j = k
      BY <2>6, <2>8, <3>1 DEF V
    <3>2. CASE j # k
      BY <2>8, <3>2
    <3> QED
      BY <3>1, <3>2
  <2>10. /\ Apart(b.observed)
         /\ \A j \in DOMAIN L \ {k} : SoundEntry(b.observed[j])
         /\ W # <<>> => SoundEntry(b.observed[k])
    <3>1. Apart(b.observed)
      BY <2>8 DEF Sound, Apart, L
    <3>2. \A j \in DOMAIN L \ {k} : SoundEntry(b.observed[j])
      BY <2>8 DEF Sound, L
    <3>3. \A i, n \in DOMAIN V : V[i].server = V[n].server => i = n
      BY <2>2 DEF Sound, SoundEntry, L, V
    <3>4. \A i, n \in DOMAIN W : W[i].server = W[n].server => i = n
      BY <2>6, <3>3
    <3> QED
      BY <2>8, <3>1, <3>2, <3>4 DEF SoundEntry
  <2>11. CASE W # <<>>
    <3>1. d = b
      BY <1>1, <1>4, <2>8, <2>11
    <3>2. Sound(b.observed)
      BY <2>8, <2>10, <2>11 DEF Sound
    <3> QED
      BY <2>8, <2>9, <3>1, <3>2 DEF L
  <2>12. CASE W = <<>>
    <3> DEFINE M == b.observed
               N == RemoveAt(M, k)
               To(n) == IF n < k THEN n ELSE n + 1
    <3>1. d = prv_unlinkObserved(b, k)
      BY <1>1, <1>4, <2>8, <2>12
    <3>2. /\ d.store = b.store /\ d.nextMID = b.nextMID /\ d.observed = N
          /\ d \in [store : {d.store}, observed : {d.observed}, nextMID : Mids]
      BY <2>8, <3>1 DEF IsContext, prv_unlinkObserved
    <3>3. IsList(M) /\ k \in DOMAIN M /\ \A j \in DOMAIN M : IsEntry(M[j])
      BY <2>2, <2>8 DEF IsContext, IsObserved
    <3> HIDE DEF M
    <3>4. /\ IsList(N) /\ Len(N) = Len(M) - 1
          /\ \A n \in 1 .. Len(M) - 1 : N[n] = M[IF n < k THEN n ELSE n + 1]
      BY <3>3, RemoveList
    <3> HIDE DEF N
    <3>5. /\ \A n \in DOMAIN N : To(n) \in DOMAIN M \ {k} /\ N[n] = M[To(n)]
          /\ \A i, n \in DOMAIN N : To(i) = To(n) => i = n
      <4>1. /\ Len(M) \in Nat /\ DOMAIN M = 1 .. Len(M) /\ DOMAIN N = 1 .. Len(M) - 1
        BY <3>3, <3>4, ListFacts
      <4>2. k \in Int
        BY <3>3, <4>1
      <4> QED
        BY <3>4, <4>1, <4>2
    <3> HIDE DEF To
    <3>6. IsContext(d)
      <4>1. \A n \in DOMAIN N : IsEntry(N[n])
        BY <3>3, <3>5
      <4> QED
        BY <2>8, <3>2, <3>4, <4>1 DEF IsContext, IsObserved
    <3>7. Sound(N)
      <4>1. \A n \in DOMAIN N : SoundEntry(N[n])
        BY <2>8, <2>10, <3>5 DEF M
      <4>2. Apart(N)
        BY <2>10, <3>5 DEF Apart, M
      <4> QED
        BY <4>1, <4>2 DEF Sound
    <3>8. Within(N, L)
      BY <2>9, <3>5 DEF Within, M
    <3> QED
      BY <2>8, <3>2, <3>6, <3>7, <3>8 DEF L
  <2> QED
    BY <2>11, <2>12
<1> QED
  BY <1>3, <1>4

-----------------------------------------------------------------------------
(* Changes of all watchers                                                  *)

\* G has the new watchers, by their places.
WithAll(c, G, mid) ==
    [c EXCEPT !.observed = [k \in DOMAIN @ |-> [@[k] EXCEPT !.watchers = G[k]]], !.nextMID = mid]

Replaces(G, L) ==
    \A k \in DOMAIN L :
        /\ G[k] = [n \in DOMAIN L[k].watchers |-> G[k][n]]
        /\ \A n \in DOMAIN L[k].watchers :
             IsWatcher(G[k][n]) /\ G[k][n].server = L[k].watchers[n].server

LEMMA PutAll ==
    ASSUME NEW c, IsContext(c), NEW G, Replaces(G, c.observed),
           NEW mid \in Mids, NEW d, d = WithAll(c, G, mid)
    PROVE  /\ IsContext(d) /\ d.store = c.store /\ d.nextMID = mid
           /\ DOMAIN d.observed = DOMAIN c.observed
           /\ \A k \in DOMAIN c.observed :
                /\ d.observed[k].uri = c.observed[k].uri
                /\ d.observed[k].watchers = G[k]
                /\ DOMAIN d.observed[k].watchers = DOMAIN c.observed[k].watchers
           /\ Sound(c.observed) => Sound(d.observed)
<1> DEFINE L == c.observed
           M == [k \in DOMAIN L |-> [L[k] EXCEPT !.watchers = G[k]]]
<1>1. /\ d.store = c.store /\ d.nextMID = mid /\ d.observed = M
      /\ d \in [store : {d.store}, observed : {d.observed}, nextMID : Mids]
  BY DEF IsContext, WithAll
<1>2. IsList(L) /\ \A k \in DOMAIN L : IsEntry(L[k])
  BY DEF IsContext, IsObserved
<1>3. ASSUME NEW k \in DOMAIN L
      PROVE  /\ M[k].uri = L[k].uri /\ M[k].watchers = G[k]
             /\ DOMAIN G[k] = DOMAIN L[k].watchers
             /\ \A n \in DOMAIN L[k].watchers : G[k][n].server = L[k].watchers[n].server
             /\ IsEntry(M[k])
  <2> DEFINE e == [L[k] EXCEPT !.watchers = G[k]]
  <2>1. M[k] = e /\ IsEntry(L[k])
    BY <1>2
  <2>2. e.uri = L[k].uri /\ e.watchers = G[k] /\ e \in [uri : Uris, watchers : {e.watchers}]
    BY <2>1 DEF IsEntry
  <2> HIDE DEF e, L
  <2>3. /\ G[k] = [n \in DOMAIN L[k].watchers |-> G[k][n]]
        /\ \A n \in DOMAIN L[k].watchers :
             IsWatcher(G[k][n]) /\ G[k][n].server = L[k].watchers[n].server
    BY DEF L, Replaces
  <2>4. DOMAIN G[k] = DOMAIN L[k].watchers
    BY <2>3
  <2>5. IsList(G[k])
    <3>1. Len(L[k].watchers) \in Nat /\ DOMAIN L[k].watchers = 1 .. Len(L[k].watchers)
      BY <2>1, ListFacts DEF IsEntry
    <3> QED
      BY <2>3, <3>1, FunctionIsList
  <2>6. IsEntry(e)
    BY <2>1, <2>2, <2>3, <2>4, <2>5 DEF IsEntry
  <2> QED
    BY <2>1, <2>2, <2>3, <2>4, <2>6
<1>4. DOMAIN M = DOMAIN L
  OBVIOUS
<1>5. IsList(M)
  <2>1. Len(L) \in Nat /\ M = [j \in 1 .. Len(L) |-> M[j]]
    BY <1>2, ListFacts
  <2> HIDE DEF M
  <2> QED BY <2>1, FunctionIsList
<1> HIDE DEF M
<1>6. IsContext(d)
  BY <1>1, <1>3, <1>4, <1>5 DEF IsContext, IsObserved
<1>7. ASSUME Sound(L) PROVE Sound(M)
  <2>1. Apart(M)
    BY <1>3, <1>4, <1>7 DEF Sound, Apart
  <2>2. ASSUME NEW k \in DOMAIN L PROVE SoundEntry(M[k])
    <3>1. SoundEntry(L[k])
      BY <1>7 DEF Sound
    <3>2. \A n \in DOMAIN L[k].watchers : M[k].watchers[n].server = L[k].watchers[n].server
      BY <1>3
    <3>3. DOMAIN M[k].watchers = DOMAIN L[k].watchers
      BY <1>3
    <3>4. M[k].watchers # <<>>
      <4>1. DOMAIN L[k].watchers # {}
        <5>1. IsList(L[k].watchers) /\ L[k].watchers # <<>>
          BY <1>2, <3>1 DEF SoundEntry, IsEntry
        <5>2. Len(L[k].watchers) \in Nat \ {0} /\ DOMAIN L[k].watchers = 1 .. Len(L[k].watchers)
          BY <5>1, ListFacts
        <5>3. 1 \in DOMAIN L[k].watchers
          BY <5>2
        <5> QED
          BY <5>3
      <4> QED
        BY <3>3, <4>1
    <3> QED
      BY <3>1, <3>2, <3>3, <3>4 DEF SoundEntry
  <2> QED
    BY <1>4, <2>1, <2>2 DEF Sound
<1> QED
  BY <1>1, <1>3, <1>4, <1>6, <1>7

\* Watchers that have been told, or will be, what context c has.
KeptFor(L, c) ==
    \A k \in DOMAIN L : \A n \in DOMAIN L[k].watchers :
        Kept(L[k].watchers[n], L[k].uri, object_readData(c, L[k].uri).data)

\* Silently: watchers whose value has changed are marked.
LEMMA SilentlyIs ==
    ASSUME NEW c, NEW b, IsContext(b), NEW d, d = Silently(c, b)
    PROVE  /\ IsContext(d) /\ d.store = b.store
           /\ Sound(b.observed) => Sound(d.observed)
           /\ KeptFor(b.observed, c) => AllKept(d)
<1> DEFINE L == b.observed
           Mark(u, w) == [w EXCEPT !.silent =
                            @ \/ object_readData(c, u).data # object_readData(b, u).data]
           G == [k \in DOMAIN L |-> [n \in DOMAIN L[k].watchers |-> Mark(L[k].uri, L[k].watchers[n])]]
<1>1. d = WithAll(b, G, b.nextMID)
  <2> DEFINE M == [k \in DOMAIN L |-> [L[k] EXCEPT !.watchers =
                    [n \in DOMAIN L[k].watchers |-> Mark(L[k].uri, L[k].watchers[n])]]]
  <2>1. d = [b EXCEPT !.observed = M]
    BY DEF Silently, MapWatchers
  <2> HIDE DEF Mark
  <2>2. M = [k \in DOMAIN L |-> [L[k] EXCEPT !.watchers = G[k]]]
    OBVIOUS
  <2> HIDE DEF M, G
  <2>3. WithAll(b, G, b.nextMID) = [b EXCEPT !.observed = M, !.nextMID = b.nextMID]
    BY <2>2 DEF WithAll
  <2> QED
    BY <2>1, <2>3 DEF IsContext
<1>2. ASSUME NEW u, NEW w, IsWatcher(w)
      PROVE  /\ IsWatcher(Mark(u, w)) /\ Mark(u, w).server = w.server
             /\ Kept(w, u, object_readData(c, u).data)
                => Kept(Mark(u, w), u, object_readData(b, u).data)
  BY <1>2 DEF IsWatcher, Kept
<1>3. \A k \in DOMAIN L : \A n \in DOMAIN L[k].watchers : IsWatcher(L[k].watchers[n])
  BY DEF IsContext, IsObserved, IsEntry
<1> HIDE DEF Mark
<1>4. /\ \A k \in DOMAIN L : G[k] = [n \in DOMAIN L[k].watchers |-> G[k][n]]
      /\ \A k \in DOMAIN L : \A n \in DOMAIN L[k].watchers : G[k][n] = Mark(L[k].uri, L[k].watchers[n])
  OBVIOUS
<1> HIDE DEF G
<1>5. Replaces(G, b.observed)
  BY <1>2, <1>3, <1>4 DEF Replaces
<1>6. b.nextMID \in Mids
  BY DEF IsContext
<1>7. /\ IsContext(d) /\ d.store = b.store
      /\ DOMAIN d.observed = DOMAIN L
      /\ \A k \in DOMAIN L :
           /\ d.observed[k].uri = L[k].uri
           /\ d.observed[k].watchers = G[k]
           /\ DOMAIN d.observed[k].watchers = DOMAIN L[k].watchers
      /\ Sound(L) => Sound(d.observed)
  BY <1>1, <1>5, <1>6, PutAll
<1>8. ASSUME KeptFor(L, c) PROVE AllKept(d)
  <2>1. \A u : object_readData(b, u) = object_readData(d, u)
    BY <1>7, ReadOfStore
  <2> SUFFICES ASSUME NEW k \in DOMAIN L, NEW n \in DOMAIN L[k].watchers
               PROVE  Kept(G[k][n], L[k].uri, object_readData(b, L[k].uri).data)
    BY <1>7, <2>1 DEF AllKept
  <2>2. Kept(L[k].watchers[n], L[k].uri, object_readData(c, L[k].uri).data)
    BY <1>8 DEF KeptFor
  <2> QED
    BY <1>2, <1>3, <1>4, <2>2
<1> QED
  BY <1>7, <1>8

\* lwm2m_resource_value_changed tags every watcher of u, of what contains u and of
\* what u contains: after a change from c to b that shows nowhere else all is kept.
LEMMA TagIs ==
    ASSUME NEW c, NEW b, IsContext(b), NEW u, NEW d, d = lwm2m_resource_value_changed(b, u)
    PROVE  /\ IsContext(d) /\ d.store = b.store
           /\ Sound(b.observed) => Sound(d.observed)
           /\ /\ KeptFor(b.observed, c)
              /\ \A k \in DOMAIN b.observed : ~Overlap(b.observed[k].uri, u) =>
                   object_readData(c, b.observed[k].uri).data = object_readData(b, b.observed[k].uri).data
              => AllKept(d)
<1> DEFINE L == b.observed
           Tag(uri, w) == IF Overlap(uri, u) /\ w.active THEN [w EXCEPT !.update = TRUE] ELSE w
           G == [k \in DOMAIN L |-> [n \in DOMAIN L[k].watchers |-> Tag(L[k].uri, L[k].watchers[n])]]
<1>1. d = WithAll(b, G, b.nextMID)
  <2> DEFINE M == [k \in DOMAIN L |-> [L[k] EXCEPT !.watchers =
                    [n \in DOMAIN L[k].watchers |-> Tag(L[k].uri, L[k].watchers[n])]]]
  <2>1. d = [b EXCEPT !.observed = M]
    BY DEF lwm2m_resource_value_changed, MapWatchers
  <2> HIDE DEF Tag
  <2>2. M = [k \in DOMAIN L |-> [L[k] EXCEPT !.watchers = G[k]]]
    OBVIOUS
  <2> HIDE DEF M, G
  <2>3. WithAll(b, G, b.nextMID) = [b EXCEPT !.observed = M, !.nextMID = b.nextMID]
    BY <2>2 DEF WithAll
  <2> QED
    BY <2>1, <2>3 DEF IsContext
<1>2. ASSUME NEW uri, NEW w, IsWatcher(w)
      PROVE  /\ IsWatcher(Tag(uri, w)) /\ Tag(uri, w).server = w.server
             /\ \A x, y : Kept(w, uri, x) /\ (~Overlap(uri, u) => x = y) => Kept(Tag(uri, w), uri, y)
  BY <1>2 DEF IsWatcher, Kept
<1>3. \A k \in DOMAIN L : \A n \in DOMAIN L[k].watchers : IsWatcher(L[k].watchers[n])
  BY DEF IsContext, IsObserved, IsEntry
<1> HIDE DEF Tag
<1>4. /\ \A k \in DOMAIN L : G[k] = [n \in DOMAIN L[k].watchers |-> G[k][n]]
      /\ \A k \in DOMAIN L : \A n \in DOMAIN L[k].watchers : G[k][n] = Tag(L[k].uri, L[k].watchers[n])
  OBVIOUS
<1> HIDE DEF G
<1>5. Replaces(G, b.observed)
  BY <1>2, <1>3, <1>4 DEF Replaces
<1>6. b.nextMID \in Mids
  BY DEF IsContext
<1>7. /\ IsContext(d) /\ d.store = b.store
      /\ DOMAIN d.observed = DOMAIN L
      /\ \A k \in DOMAIN L :
           /\ d.observed[k].uri = L[k].uri
           /\ d.observed[k].watchers = G[k]
           /\ DOMAIN d.observed[k].watchers = DOMAIN L[k].watchers
      /\ Sound(L) => Sound(d.observed)
  BY <1>1, <1>5, <1>6, PutAll
<1>8. ASSUME KeptFor(L, c),
             \A k \in DOMAIN L : ~Overlap(L[k].uri, u) =>
                 object_readData(c, L[k].uri).data = object_readData(b, L[k].uri).data
      PROVE  AllKept(d)
  <2>1. \A v : object_readData(b, v) = object_readData(d, v)
    BY <1>7, ReadOfStore
  <2> SUFFICES ASSUME NEW k \in DOMAIN L, NEW n \in DOMAIN L[k].watchers
               PROVE  Kept(G[k][n], L[k].uri, object_readData(b, L[k].uri).data)
    BY <1>7, <2>1 DEF AllKept
  <2>2. Kept(L[k].watchers[n], L[k].uri, object_readData(c, L[k].uri).data)
    BY <1>8 DEF KeptFor
  <2> QED
    BY <1>2, <1>3, <1>4, <1>8, <2>2
<1> QED
  BY <1>7, <1>8

\* PmaxKept, with the time that is left: the loop wakes before a maximal period ends.
WakesInTime(c, wk) ==
    \A k \in DOMAIN c.observed : \A n \in DOMAIN c.observed[k].watchers :
        LET w == c.observed[k].watchers[n]
        IN  w.active /\ "pmax" \in Params(w).set /\ object_readData(c, c.observed[k].uri).code = "2.05"
            => wk <= w.lastTime + Params(w).pmax

LEMMA ParamsAre ==
    ASSUME NEW w, IsWatcher(w)
    PROVE  IsParams(Params(w)) /\ w.lastTime \in Int
<1>1. IsParams(NoAttributes)
  BY DEF NoAttributes, IsParams
<1>2. w.lastTime \in Int
  BY BoundAssumption DEF IsWatcher
<1> QED
  BY <1>1, <1>2 DEF Params, IsWatcher

LEMMA AgedIs ==
    ASSUME NEW v, IsWatcher(v), NEW w, w = Aged(v)
    PROVE  /\ IsWatcher(w) /\ w.server = v.server
           /\ w.active = v.active /\ w.asked = v.asked /\ w.silent = v.silent
           /\ w.update = v.update /\ w.told = v.told /\ w.params = v.params
           /\ w.lastTime >= v.lastTime - 1
<1> DEFINE t == Max({v.lastTime - 1, -Horizon})
<1>1. v.lastTime \in Int /\ Horizon \in Nat /\ v.lastTime <= 0 /\ v.lastTime >= -Horizon
  BY BoundAssumption DEF IsWatcher
<1>2. \E x \in {v.lastTime - 1, -Horizon} : \A y \in {v.lastTime - 1, -Horizon} : x >= y
  BY <1>1
<1>3. t \in {v.lastTime - 1, -Horizon} /\ \A y \in {v.lastTime - 1, -Horizon} : t >= y
  BY <1>2 DEF Max
<1> HIDE DEF t
<1>4. t \in -Horizon .. 0 /\ t >= v.lastTime - 1
  BY <1>1, <1>3
<1>5. w = [v EXCEPT !.lastTime = t]
  BY DEF Aged, t
<1> QED
  BY <1>4, <1>5 DEF IsWatcher

\* A second passes.
Elapsed(b) == LET Older(u, w) == Aged(w) IN MapWatchers(b, Older)

LEMMA OlderIs ==
    ASSUME NEW b, IsContext(b), NEW d, d = Elapsed(b)
    PROVE  /\ IsContext(d) /\ d.store = b.store
           /\ Sound(b.observed) => Sound(d.observed)
           /\ AllKept(b) => AllKept(d)
           /\ \A wk \in Nat : wk > 0 /\ WakesInTime(b, wk) => WakesInTime(d, wk - 1)
<1> DEFINE L == b.observed
           G == [k \in DOMAIN L |-> [n \in DOMAIN L[k].watchers |-> Aged(L[k].watchers[n])]]
<1>1. d = WithAll(b, G, b.nextMID)
  <2> DEFINE M == [k \in DOMAIN L |-> [L[k] EXCEPT !.watchers =
                    [n \in DOMAIN L[k].watchers |-> Aged(L[k].watchers[n])]]]
  <2>1. d = [b EXCEPT !.observed = M]
    BY DEF MapWatchers, Elapsed
  <2>2. M = [k \in DOMAIN L |-> [L[k] EXCEPT !.watchers = G[k]]]
    OBVIOUS
  <2> HIDE DEF M, G
  <2>3. WithAll(b, G, b.nextMID) = [b EXCEPT !.observed = M, !.nextMID = b.nextMID]
    BY <2>2 DEF WithAll
  <2> QED
    BY <2>1, <2>3 DEF IsContext
<1>2. \A k \in DOMAIN L : \A n \in DOMAIN L[k].watchers : IsWatcher(L[k].watchers[n])
  BY DEF IsContext, IsObserved, IsEntry
<1>3. /\ \A k \in DOMAIN L : G[k] = [n \in DOMAIN L[k].watchers |-> G[k][n]]
      /\ \A k \in DOMAIN L : \A n \in DOMAIN L[k].watchers : G[k][n] = Aged(L[k].watchers[n])
  OBVIOUS
<1> HIDE DEF G
<1>4. Replaces(G, b.observed)
  BY <1>2, <1>3, AgedIs DEF Replaces
<1>5. b.nextMID \in Mids
  BY DEF IsContext
<1>6. /\ IsContext(d) /\ d.store = b.store
      /\ DOMAIN d.observed = DOMAIN L
      /\ \A k \in DOMAIN L :
           /\ d.observed[k].uri = L[k].uri
           /\ d.observed[k].watchers = G[k]
           /\ DOMAIN d.observed[k].watchers = DOMAIN L[k].watchers
      /\ Sound(L) => Sound(d.observed)
  BY <1>1, <1>4, <1>5, PutAll
<1>7. \A v : object_readData(b, v) = object_readData(d, v)
  BY <1>6, ReadOfStore
<1>8. ASSUME AllKept(b) PROVE AllKept(d)
  <2> SUFFICES ASSUME NEW k \in DOMAIN L, NEW n \in DOMAIN L[k].watchers
               PROVE  Kept(G[k][n], L[k].uri, object_readData(b, L[k].uri).data)
    BY <1>6, <1>7 DEF AllKept
  <2>1. Kept(L[k].watchers[n], L[k].uri, object_readData(b, L[k].uri).data)
    BY <1>8 DEF AllKept
  <2> QED
    BY <1>2, <1>3, <2>1, AgedIs DEF Kept
<1>9. ASSUME NEW wk \in Nat, wk > 0, WakesInTime(b, wk) PROVE WakesInTime(d, wk - 1)
  <2> SUFFICES ASSUME NEW k \in DOMAIN L, NEW n \in DOMAIN L[k].watchers,
                      G[k][n].active, "pmax" \in Params(G[k][n]).set,
                      object_readData(b, L[k].uri).code = "2.05"
               PROVE  wk - 1 <= G[k][n].lastTime + Params(G[k][n]).pmax
    BY <1>6, <1>7 DEF WakesInTime
  <2> DEFINE v == L[k].watchers[n]
  <2>1. IsWatcher(v) /\ G[k][n] = Aged(v)
    BY <1>2, <1>3
  <2> HIDE DEF v
  <2>2. /\ IsWatcher(G[k][n]) /\ G[k][n].active = v.active /\ G[k][n].params = v.params
        /\ G[k][n].lastTime >= v.lastTime - 1
    BY <2>1, AgedIs
  <2>3. Params(G[k][n]) = Params(v)
    BY <2>2 DEF Params
  <2>4. wk <= v.lastTime + Params(v).pmax
    BY <1>9, <2>2, <2>3 DEF WakesInTime, v
  <2>5. v.lastTime \in Int /\ G[k][n].lastTime \in Int /\ Params(v).pmax \in Nat
    BY <2>1, <2>2, ParamsAre DEF IsParams
  <2> QED
    BY <2>2, <2>3, <2>4, <2>5
<1> QED
  BY <1>6, <1>8, <1>9

\* Finitely many watchers are notified, so that message IDs can be counted.
LEMMA NotifyingFinite ==
    ASSUME NEW c, IsContext(c)
    PROVE  IsFiniteSet(Notifying(c))
<1> DEFINE L == c.observed
           P(k) == {m \in DOMAIN L[k].watchers :
                      object_readData(c, L[k].uri).code = "2.05"
                      /\ Notifies(L[k].watchers[m], L[k].uri, object_readData(c, L[k].uri).data)}
           A(k) == {<<k, n>> : n \in P(k)}
           S == {A(k) : k \in DOMAIN L}
<1>1. Notifying(c) = UNION S
  BY DEF Notifying
<1>2. IsList(L) /\ \A k \in DOMAIN L : IsList(L[k].watchers)
  BY DEF IsContext, IsObserved, IsEntry
<1>3. ASSUME NEW s, IsList(s) PROVE IsFiniteSet(DOMAIN s)
  <2>1. Len(s) \in Nat /\ DOMAIN s = 1 .. Len(s)
    BY <1>3, ListFacts
  <2>2. IsFiniteSet(1 .. Len(s))
    BY <2>1, FS_Interval
  <2> QED
    BY <2>1, <2>2
<1>4. ASSUME NEW k \in DOMAIN L PROVE IsFiniteSet(A(k))
  <2>1. IsFiniteSet(DOMAIN L[k].watchers) /\ P(k) \in SUBSET DOMAIN L[k].watchers
    BY <1>2, <1>3
  <2> HIDE DEF P
  <2>2. IsFiniteSet(P(k))
    BY <2>1, FS_Subset
  <2> DEFINE g == [n \in P(k) |-> <<k, n>>]
  <2>3. g \in Surjection(P(k), A(k))
    BY DEF Surjection
  <2> HIDE DEF g, A
  <2> QED
    BY <2>2, <2>3, FS_Surjection
<1> HIDE DEF A
<1>5. IsFiniteSet(S)
  <2> DEFINE f == [k \in DOMAIN L |-> A(k)]
  <2>1. f \in Surjection(DOMAIN L, S)
    BY DEF Surjection
  <2>2. IsFiniteSet(DOMAIN L)
    BY <1>2, <1>3
  <2> HIDE DEF f, S
  <2> QED
    BY <2>1, <2>2, FS_Surjection
<1>6. \A T \in S : IsFiniteSet(T)
  BY <1>4
<1> HIDE DEF S
<1> QED
  BY <1>1, <1>5, <1>6, FS_UNION

LEMMA MidIs ==
    ASSUME NEW c, IsContext(c), NEW T \in SUBSET Notifying(c)
    PROVE  MidAfter(c, T) \in Mids
<1>1. Cardinality(T) \in Nat
  BY NotifyingFinite, FS_Subset, FS_CardinalityType
<1>2. c.nextMID \in Nat
  BY BoundAssumption DEF IsContext, Mids
<1> HIDE DEF Mids
<1>3. (c.nextMID + Cardinality(T)) \in Nat
  BY <1>1, <1>2
<1>4. \A x \in Nat : x % MidSpan \in Mids
  BY BoundAssumption DEF Mids
<1> QED
  BY <1>3, <1>4 DEF MidAfter

LEMMA NotifyingIs ==
    ASSUME NEW c, NEW k, NEW n
    PROVE  <<k, n>> \in Notifying(c) <=>
             /\ k \in DOMAIN c.observed /\ n \in DOMAIN c.observed[k].watchers
             /\ object_readData(c, c.observed[k].uri).code = "2.05"
             /\ Notifies(c.observed[k].watchers[n], c.observed[k].uri,
                         object_readData(c, c.observed[k].uri).data)
<1> DEFINE P(h) == {m \in DOMAIN c.observed[h].watchers :
                      object_readData(c, c.observed[h].uri).code = "2.05"
                      /\ Notifies(c.observed[h].watchers[m], c.observed[h].uri,
                                  object_readData(c, c.observed[h].uri).data)}
<1>1. Notifying(c) = UNION {{<<h, m>> : m \in P(h)} : h \in DOMAIN c.observed}
  BY DEF Notifying
<1>2. n \in P(k) <=>
        /\ n \in DOMAIN c.observed[k].watchers
        /\ object_readData(c, c.observed[k].uri).code = "2.05"
        /\ Notifies(c.observed[k].watchers[n], c.observed[k].uri,
                    object_readData(c, c.observed[k].uri).data)
  OBVIOUS
<1> HIDE DEF P
<1>3. <<k, n>> \in Notifying(c) <=> k \in DOMAIN c.observed /\ n \in P(k)
  BY <1>1
<1> QED
  BY <1>2, <1>3

LEMMA NotifiedIs ==
    ASSUME NEW v, IsWatcher(v), NEW u, NEW data, NEW mid \in Mids,
           NEW w, w = Notified(v, u, data, mid)
    PROVE  /\ IsWatcher(w) /\ w.server = v.server /\ w.active = v.active /\ w.params = v.params
           /\ w.lastTime = 0
           /\ Kept(w, u, data)
<1>1. now = 0 /\ 0 \in -Horizon .. 0
  BY BoundAssumption DEF now
<1> QED
  BY <1>1 DEF IsWatcher, Notified, Kept

\* One pass of observe_step: a watcher is as it was, or notified.
LEMMA StepIs ==
    ASSUME NEW b, IsContext(b), NEW d, d = observe_step(b)
    PROVE  /\ IsContext(d) /\ d.store = b.store
           /\ DOMAIN d.observed = DOMAIN b.observed
           /\ \A k \in DOMAIN b.observed :
                DOMAIN d.observed[k].watchers = DOMAIN b.observed[k].watchers
           /\ \A k \in DOMAIN b.observed : d.observed[k].uri = b.observed[k].uri
           /\ \A k \in DOMAIN b.observed : \A n \in DOMAIN b.observed[k].watchers :
                /\ <<k, n>> \notin Notifying(b) =>
                     d.observed[k].watchers[n] = b.observed[k].watchers[n]
                /\ <<k, n>> \in Notifying(b) =>
                     d.observed[k].watchers[n].lastTime = 0
                /\ d.observed[k].watchers[n].active = b.observed[k].watchers[n].active
                /\ d.observed[k].watchers[n].params = b.observed[k].watchers[n].params
           /\ Sound(b.observed) => Sound(d.observed)
           /\ AllKept(b) => AllKept(d)
<1> DEFINE L == b.observed
           sent == Notifying(b)
           Data(k) == object_readData(b, L[k].uri).data
           Mid(k, n) == MidAfter(b, {p \in sent : Earlier(p, <<k, n>>)})
           Stepped(k, n) == IF <<k, n>> \notin sent THEN L[k].watchers[n]
                            ELSE Notified(L[k].watchers[n], L[k].uri, Data(k), Mid(k, n))
           G == [k \in DOMAIN L |-> [n \in DOMAIN L[k].watchers |-> Stepped(k, n)]]
<1>1. d = WithAll(b, G, MidAfter(b, sent))
  <2> DEFINE M == [k \in DOMAIN L |-> [L[k] EXCEPT !.watchers =
                    [n \in DOMAIN L[k].watchers |-> Stepped(k, n)]]]
  <2>1. d = [b EXCEPT !.observed = M, !.nextMID = MidAfter(b, sent)]
    BY DEF observe_step
  <2> HIDE DEF Stepped
  <2>2. M = [k \in DOMAIN L |-> [L[k] EXCEPT !.watchers = G[k]]]
    OBVIOUS
  <2> HIDE DEF M, G
  <2>3. WithAll(b, G, MidAfter(b, sent)) = [b EXCEPT !.observed = M, !.nextMID = MidAfter(b, sent)]
    BY <2>2 DEF WithAll
  <2> QED
    BY <2>1, <2>3
<1>2. \A k \in DOMAIN L : \A n \in DOMAIN L[k].watchers : IsWatcher(L[k].watchers[n])
  BY DEF IsContext, IsObserved, IsEntry
<1>3. MidAfter(b, sent) \in Mids /\ \A k, n : Mid(k, n) \in Mids
  <2> HIDE DEF sent
  <2>1. sent \in SUBSET Notifying(b) /\ \A k, n : {p \in sent : Earlier(p, <<k, n>>)} \in SUBSET Notifying(b)
    BY DEF sent
  <2> QED
    BY <2>1, MidIs
<1> HIDE DEF sent, Mid
<1>4. ASSUME NEW k \in DOMAIN L, NEW n \in DOMAIN L[k].watchers
      PROVE  /\ IsWatcher(Stepped(k, n)) /\ Stepped(k, n).server = L[k].watchers[n].server
             /\ Stepped(k, n).active = L[k].watchers[n].active
             /\ Stepped(k, n).params = L[k].watchers[n].params
             /\ <<k, n>> \notin sent => Stepped(k, n) = L[k].watchers[n]
             /\ <<k, n>> \in sent => Stepped(k, n).lastTime = 0
             /\ Kept(L[k].watchers[n], L[k].uri, Data(k)) => Kept(Stepped(k, n), L[k].uri, Data(k))
  <2> HIDE DEF Data
  <2>1. IsWatcher(L[k].watchers[n]) /\ Mid(k, n) \in Mids
    BY <1>2, <1>3
  <2> QED
    BY <2>1, NotifiedIs
<1> HIDE DEF Stepped
<1>5. /\ \A k \in DOMAIN L : G[k] = [n \in DOMAIN L[k].watchers |-> G[k][n]]
      /\ \A k \in DOMAIN L : \A n \in DOMAIN L[k].watchers : G[k][n] = Stepped(k, n)
  OBVIOUS
<1> HIDE DEF G
<1>6. Replaces(G, b.observed)
  BY <1>4, <1>5 DEF Replaces
<1>7. /\ IsContext(d) /\ d.store = b.store
      /\ DOMAIN d.observed = DOMAIN L
      /\ \A k \in DOMAIN L :
           /\ d.observed[k].uri = L[k].uri
           /\ d.observed[k].watchers = G[k]
           /\ DOMAIN d.observed[k].watchers = DOMAIN L[k].watchers
      /\ Sound(L) => Sound(d.observed)
  BY <1>1, <1>3, <1>6, PutAll
<1>8. ASSUME AllKept(b) PROVE AllKept(d)
  <2>1. \A v : object_readData(b, v) = object_readData(d, v)
    BY <1>7, ReadOfStore
  <2> SUFFICES ASSUME NEW k \in DOMAIN L, NEW n \in DOMAIN L[k].watchers
               PROVE  Kept(G[k][n], L[k].uri, Data(k))
    BY <1>7, <2>1 DEF AllKept
  <2>2. Kept(L[k].watchers[n], L[k].uri, Data(k))
    BY <1>8 DEF AllKept
  <2> QED
    BY <1>4, <1>5, <2>2
<1> QED
  BY <1>4, <1>5, <1>7, <1>8 DEF sent

\* The times at which a step from c to d lets the loop wake up.
LEMMA WakesAre ==
    ASSUME NEW c, NEW d, NEW x
    PROVE  x \in ObserveWakes(c, d) <=>
             \E k \in DOMAIN c.observed : \E n \in DOMAIN c.observed[k].watchers :
                 LET v == c.observed[k].watchers[n]
                     w == d.observed[k].watchers[n]
                 IN  /\ v.active /\ Reached(c, k, n)
                     /\ \/ /\ v.update /\ ~PminOver(v) /\ "pmin" \in Params(v).set
                           /\ x = v.lastTime + Params(v).pmin
                        \/ "pmax" \in Params(w).set /\ x = w.lastTime + Params(w).pmax
<1> DEFINE Waits(w) == {w.lastTime + Params(w).pmin : f \in {"pmin"} \cap Params(w).set}
           Ends(w)  == {w.lastTime + Params(w).pmax : f \in {"pmax"} \cap Params(w).set}
           Wakes(k, n) ==
             (IF c.observed[k].watchers[n].update /\ ~PminOver(c.observed[k].watchers[n])
              THEN Waits(c.observed[k].watchers[n]) ELSE {})
             \cup Ends(d.observed[k].watchers[n])
           Live(k) == {m \in DOMAIN c.observed[k].watchers :
                         c.observed[k].watchers[m].active /\ Reached(c, k, m)}
<1>1. ObserveWakes(c, d) = UNION {UNION {Wakes(k, n) : n \in Live(k)} : k \in DOMAIN c.observed}
  BY DEF ObserveWakes
<1>2. \A w : x \in Waits(w) <=> "pmin" \in Params(w).set /\ x = w.lastTime + Params(w).pmin
  OBVIOUS
<1>3. \A w : x \in Ends(w) <=> "pmax" \in Params(w).set /\ x = w.lastTime + Params(w).pmax
  OBVIOUS
<1> HIDE DEF Waits, Ends
<1>4. \A k, n : x \in Wakes(k, n) <=>
        \/ /\ c.observed[k].watchers[n].update /\ ~PminOver(c.observed[k].watchers[n])
           /\ x \in Waits(c.observed[k].watchers[n])
        \/ x \in Ends(d.observed[k].watchers[n])
  OBVIOUS
<1> HIDE DEF Wakes
<1>5. x \in ObserveWakes(c, d) <=>
        \E k \in DOMAIN c.observed : \E n \in Live(k) : x \in Wakes(k, n)
  <2> HIDE DEF Live
  <2> QED BY <1>1
<1> QED
  BY <1>2, <1>3, <1>4, <1>5

\* The step has the loop wake up in time for every maximal period.
LEMMA StepWakes ==
    ASSUME NEW b, IsContext(b), NEW d, d = observe_step(b),
           NEW wk, wk = Min(ObserveWakes(b, d) \cup {MaxWait})
    PROVE  wk \in 0 .. MaxWait /\ WakesInTime(d, wk)
<1> DEFINE L == b.observed
           S == ObserveWakes(b, d) \cup {MaxWait}
<1>1. \A k \in DOMAIN L : \A n \in DOMAIN L[k].watchers :
        IsWatcher(L[k].watchers[n]) /\ n \in 1 .. n
  BY ListFacts DEF IsContext, IsObserved, IsEntry
<1>2. /\ IsContext(d) /\ d.store = b.store /\ DOMAIN d.observed = DOMAIN L
      /\ \A k \in DOMAIN L :
           DOMAIN d.observed[k].watchers = DOMAIN L[k].watchers /\ d.observed[k].uri = L[k].uri
      /\ \A k \in DOMAIN L : \A n \in DOMAIN L[k].watchers :
           /\ <<k, n>> \notin Notifying(b) => d.observed[k].watchers[n] = L[k].watchers[n]
           /\ <<k, n>> \in Notifying(b) => d.observed[k].watchers[n].lastTime = 0
           /\ d.observed[k].watchers[n].active = L[k].watchers[n].active
           /\ d.observed[k].watchers[n].params = L[k].watchers[n].params
  BY StepIs
<1>3. \A v : object_readData(b, v) = object_readData(d, v)
  BY <1>2, ReadOfStore
<1>4. ASSUME NEW k \in DOMAIN L, NEW n \in DOMAIN L[k].watchers,
             L[k].watchers[n].active, Reached(b, k, n),
             "pmax" \in Params(L[k].watchers[n]).set
      PROVE  d.observed[k].watchers[n].lastTime + Params(d.observed[k].watchers[n]).pmax \in Nat
  <2> DEFINE v == L[k].watchers[n]
             w == d.observed[k].watchers[n]
  <2>1. Params(w) = Params(v)
    BY <1>2 DEF Params
  <2>2. IsWatcher(v) /\ IsParams(Params(v)) /\ v.lastTime \in Int
    BY <1>1, ParamsAre DEF IsParams
  <2>3. CASE <<k, n>> \in Notifying(b)
    <3>1. w.lastTime = 0
      BY <1>2, <2>3
    <3> QED
      BY <2>1, <2>2, <3>1 DEF IsParams
  <2>4. CASE <<k, n>> \notin Notifying(b)
    <3>1. w = v
      BY <1>2, <2>4
    <3>2. ~PmaxOver(v)
      <4>1. CASE object_readData(b, L[k].uri).code = "2.05"
        <5>1. ~Notifies(v, L[k].uri, object_readData(b, L[k].uri).data)
          BY <2>4, <4>1, NotifyingIs
        <5> QED
          BY <1>4, <5>1 DEF Notifies
      <4>2. CASE object_readData(b, L[k].uri).code # "2.05"
        <5>1. ~Notifies(v, L[k].uri, None)
          BY <1>1, <1>4, <4>2 DEF Reached
        <5> QED
          BY <1>4, <5>1 DEF Notifies
      <4> QED
        BY <4>1, <4>2
    <3> QED
      BY <1>4, <2>2, <3>1, <3>2 DEF PmaxOver, IsParams, now
  <2> QED
    BY <2>3, <2>4
<1>5. ObserveWakes(b, d) \subseteq Nat
  <2> SUFFICES ASSUME NEW x \in ObserveWakes(b, d) PROVE x \in Nat
    OBVIOUS
  <2>1. PICK k \in DOMAIN L : \E n \in DOMAIN L[k].watchers :
              /\ L[k].watchers[n].active /\ Reached(b, k, n)
              /\ \/ /\ L[k].watchers[n].update /\ ~PminOver(L[k].watchers[n])
                    /\ "pmin" \in Params(L[k].watchers[n]).set
                    /\ x = L[k].watchers[n].lastTime + Params(L[k].watchers[n]).pmin
                 \/ /\ "pmax" \in Params(d.observed[k].watchers[n]).set
                    /\ x = d.observed[k].watchers[n].lastTime + Params(d.observed[k].watchers[n]).pmax
    BY WakesAre
  <2>2. PICK n \in DOMAIN L[k].watchers :
              /\ L[k].watchers[n].active /\ Reached(b, k, n)
              /\ \/ /\ L[k].watchers[n].update /\ ~PminOver(L[k].watchers[n])
                    /\ "pmin" \in Params(L[k].watchers[n]).set
                    /\ x = L[k].watchers[n].lastTime + Params(L[k].watchers[n]).pmin
                 \/ /\ "pmax" \in Params(d.observed[k].watchers[n]).set
                    /\ x = d.observed[k].watchers[n].lastTime + Params(d.observed[k].watchers[n]).pmax
    BY <2>1
  <2> DEFINE v == L[k].watchers[n]
             w == d.observed[k].watchers[n]
  <2>3. IsParams(Params(v)) /\ v.lastTime \in Int /\ Params(w) = Params(v)
    BY <1>1, <1>2, ParamsAre DEF Params
  <2>4. CASE ~PminOver(v) /\ x = v.lastTime + Params(v).pmin
    BY <2>3, <2>4 DEF PminOver, IsParams, now
  <2>5. CASE "pmax" \in Params(w).set /\ x = w.lastTime + Params(w).pmax
    BY <1>4, <2>2, <2>3, <2>5
  <2> QED
    BY <2>2, <2>4, <2>5
<1>6. wk \in S /\ \A x \in S : wk <= x
  <2>1. S \in SUBSET Nat /\ S # {}
    BY <1>5, BoundAssumption
  <2> HIDE DEF S
  <2>2. Min(S) \in S /\ \A x \in S : Min(S) <= x
    BY <2>1, MinIs
  <2> QED
    BY <2>2 DEF S
<1>7. wk \in 0 .. MaxWait
  BY <1>5, <1>6, BoundAssumption
<1>8. WakesInTime(d, wk)
  <2> SUFFICES ASSUME NEW k \in DOMAIN d.observed, NEW n \in DOMAIN d.observed[k].watchers,
                      d.observed[k].watchers[n].active,
                      "pmax" \in Params(d.observed[k].watchers[n]).set,
                      object_readData(d, d.observed[k].uri).code = "2.05"
               PROVE  wk <= d.observed[k].watchers[n].lastTime + Params(d.observed[k].watchers[n]).pmax
    BY DEF WakesInTime
  <2>0. k \in DOMAIN L /\ n \in DOMAIN L[k].watchers
    BY <1>2
  <2>1. L[k].watchers[n].active /\ Reached(b, k, n)
    BY <1>2, <1>3, <2>0 DEF Reached
  <2>2. d.observed[k].watchers[n].lastTime + Params(d.observed[k].watchers[n]).pmax
          \in ObserveWakes(b, d)
    BY <2>0, <2>1, WakesAre
  <2> QED
    BY <1>6, <2>2
<1> QED
  BY <1>7, <1>8
-----------------------------------------------------------------------------
(* What requests do to the objects                                          *)

\* A write of one item keeps the resources of an instance.
LEMMA WriteItemKeeps ==
    ASSUME NEW o \in Writes, NEW st, NEW it, NEW create, NEW partial
    PROVE  DOMAIN write_item(o, st, it, create, partial).st = DOMAIN st
<1>1. DOMAIN acc_ctrl_write(st, it, create, partial).st = DOMAIN st
  BY DEF acc_ctrl_write, acc_ctrl_write_acl, Set, Refuse
<1>2. DOMAIN prv_device_write(st, it).st = DOMAIN st
  BY DEF prv_device_write, Set, Refuse
<1>3. DOMAIN prv_firmware_write(st, it).st = DOMAIN st
  BY DEF prv_firmware_write, Set, Refuse
<1>4. DOMAIN test_write(st, it).st = DOMAIN st
  BY DEF test_write, FloatLost, Set, Refuse
<1> QED
  BY <1>1, <1>2, <1>3, <1>4 DEF write_item, Writes, AccessControl, Device, Firmware, Test

\* f[n] is the result of the first n items.
IsWriting(f, N, o, st, items, create, partial) ==
    f = [n \in 0 .. N |-> IF n = 0 THEN [code |-> "2.04", st |-> st]
                          ELSE WriteNext(o, f[n - 1], items[n], create, partial)]

\* The recursion of write_resources is well defined.
LEMMA WrittenExists ==
    ASSUME NEW o, NEW st, NEW items, NEW create, NEW partial, NEW N \in Nat
    PROVE  \E f : IsWriting(f, N, o, st, items, create, partial)
<1> DEFINE B == [code |-> "2.04", st |-> st]
           F(r, n) == WriteNext(o, r, items[n], create, partial)
           P(m) == \E f : f = [n \in 0 .. m |-> IF n = 0 THEN B ELSE F(f[n - 1], n)]
           C == {m \in Nat : ~P(m)}
<1> HIDE DEF B, F
<1>1. P(0)
  <2> DEFINE g == [n \in 0 .. 0 |-> B]
  <2>1. g = [n \in 0 .. 0 |-> IF n = 0 THEN B ELSE F(g[n - 1], n)]
    OBVIOUS
  <2> QED
    BY <2>1
<1>2. ASSUME NEW m \in Nat, P(m) PROVE P(m + 1)
  <2>1. PICK f : f = [n \in 0 .. m |-> IF n = 0 THEN B ELSE F(f[n - 1], n)]
    BY <1>2
  <2> DEFINE g == [n \in 0 .. (m + 1) |-> IF n = m + 1 THEN F(f[m], m + 1) ELSE f[n]]
  <2>2. \A n \in 0 .. m : f[n] = IF n = 0 THEN B ELSE F(f[n - 1], n)
    BY <2>1
  <2>3. ASSUME NEW n \in 0 .. (m + 1)
        PROVE  g[n] = IF n = 0 THEN B ELSE F(g[n - 1], n)
    <3>1. CASE n = m + 1
      <4>1. g[n] = F(f[m], m + 1) /\ g[n - 1] = f[m] /\ n # 0
        BY <3>1
      <4> QED
        BY <3>1, <4>1
    <3>2. CASE n # m + 1
      <4>1. n \in 0 .. m /\ g[n] = f[n] /\ (n # 0 => g[n - 1] = f[n - 1])
        BY <3>2
      <4> QED
        BY <2>2, <4>1
    <3> QED
      BY <3>1, <3>2
  <2>4. g = [n \in 0 .. (m + 1) |-> g[n]]
    OBVIOUS
  <2> HIDE DEF g
  <2>5. g = [n \in 0 .. (m + 1) |-> IF n = 0 THEN B ELSE F(g[n - 1], n)]
    BY <2>3, <2>4
  <2> QED
    BY <2>5
<1> HIDE DEF P
<1>3. C = {}
  <2> SUFFICES ASSUME C # {} PROVE FALSE
    OBVIOUS
  <2>1. PICK m \in C : \A j \in C : m <= j
    BY NatMin
  <2>2. m # 0
    BY <1>1
  <2>3. m - 1 \in Nat /\ m - 1 \notin C
    BY <2>1, <2>2
  <2> QED
    BY <1>2, <2>1, <2>3
<1>4. P(N)
  BY <1>3
<1> QED
  BY <1>4 DEF P, B, F, IsWriting

\* f has the results item by item.
ResultsOf(f, o, st, items, create, partial) ==
    /\ write_resources(o, st, items, create, partial) = f[Len(items)]
    /\ f[0] = [code |-> "2.04", st |-> st]
    /\ \A n \in 1 .. Len(items) : f[n] = WriteNext(o, f[n - 1], items[n], create, partial)

LEMMA WrittenIs ==
    ASSUME NEW o, NEW st, NEW items, IsList(items), NEW create, NEW partial
    PROVE  \E f : ResultsOf(f, o, st, items, create, partial)
<1> DEFINE N == Len(items)
           after[n \in 0 .. N] == IF n = 0 THEN [code |-> "2.04", st |-> st]
                                  ELSE WriteNext(o, after[n - 1], items[n], create, partial)
<1>1. N \in Nat
  BY DEF IsList
<1>2. after = [n \in 0 .. N |-> IF n = 0 THEN [code |-> "2.04", st |-> st]
                                ELSE WriteNext(o, after[n - 1], items[n], create, partial)]
  <2> HIDE DEF N, after
  <2>1. after = CHOOSE g : IsWriting(g, N, o, st, items, create, partial)
    BY Zenon DEF after, IsWriting
  <2>2. \E g : IsWriting(g, N, o, st, items, create, partial)
    BY <1>1, WrittenExists
  <2>3. IsWriting(after, N, o, st, items, create, partial)
    BY <2>1, <2>2
  <2> QED
    BY <2>3 DEF IsWriting
<1>3. write_resources(o, st, items, create, partial) = after[N]
  BY DEF write_resources
<1> HIDE DEF N, after
<1>4. after[0] = [code |-> "2.04", st |-> st]
  BY <1>1, <1>2
<1>5. \A n \in 1 .. N : after[n] = WriteNext(o, after[n - 1], items[n], create, partial)
  BY <1>1, <1>2
<1> QED
  BY <1>3, <1>4, <1>5 DEF N, ResultsOf

\* A payload, whole or up to the item refused, keeps the resources of an instance.
LEMMA WriteKeeps ==
    ASSUME NEW o \in Writes, NEW st, NEW items, IsList(items), NEW create, NEW partial
    PROVE  DOMAIN write_resources(o, st, items, create, partial).st = DOMAIN st
<1>0. PICK f : ResultsOf(f, o, st, items, create, partial)
  BY WrittenIs
<1>1. /\ write_resources(o, st, items, create, partial) = f[Len(items)]
      /\ f[0] = [code |-> "2.04", st |-> st]
      /\ \A n \in 1 .. Len(items) : f[n] = WriteNext(o, f[n - 1], items[n], create, partial)
  BY <1>0 DEF ResultsOf
<1> DEFINE C == {n \in 0 .. Len(items) : DOMAIN f[n].st # DOMAIN st}
<1>2. Len(items) \in Nat
  BY DEF IsList
<1>3. C = {}
  <2> SUFFICES ASSUME C # {} PROVE FALSE
    OBVIOUS
  <2>0. C \in SUBSET Nat
    BY <1>2
  <2>1. PICK m \in C : \A j \in C : m <= j
    <3> HIDE DEF C
    <3> QED BY <2>0, NatMin
  <2>2. m # 0
    BY <1>1
  <2>3. m - 1 \in 0 .. Len(items) /\ m - 1 \notin C /\ m \in 1 .. Len(items)
    BY <1>2, <2>1, <2>2
  <2>4. DOMAIN f[m - 1].st = DOMAIN st
    BY <2>3
  <2>5. f[m] = WriteNext(o, f[m - 1], items[m], create, partial)
    BY <1>1, <2>3
  <2>6. DOMAIN f[m].st = DOMAIN st
    BY <2>4, <2>5, WriteItemKeeps DEF WriteNext
  <2> QED
    BY <2>1, <2>6
<1> QED
  BY <1>1, <1>2, <1>3

\* A payload of one item.
LEMMA WriteOne ==
    ASSUME NEW o, NEW st, NEW items, IsList(items), Len(items) = 1, NEW create, NEW partial
    PROVE  write_resources(o, st, items, create, partial) = write_item(o, st, items[1], create, partial)
<1>0. PICK f : ResultsOf(f, o, st, items, create, partial)
  BY WrittenIs
<1>1. /\ write_resources(o, st, items, create, partial) = f[Len(items)]
      /\ f[0] = [code |-> "2.04", st |-> st]
      /\ \A n \in 1 .. Len(items) : f[n] = WriteNext(o, f[n - 1], items[n], create, partial)
  BY <1>0 DEF ResultsOf
<1>2. f[1] = WriteNext(o, f[0], items[1], create, partial)
  BY <1>1
<1> QED
  BY <1>1, <1>2 DEF WriteNext

LEMMA ExecuteKeeps ==
    ASSUME NEW o \in Executes, NEW st, NEW r, NEW args
    PROVE  DOMAIN executeFunc(o, st, r, args).st = DOMAIN st
<1>1. DOMAIN prv_device_execute(st, r, args).st = DOMAIN st
  BY DEF prv_device_execute, Set, Refuse
<1>2. DOMAIN prv_firmware_execute(st, r, args).st = DOMAIN st
  BY DEF prv_firmware_execute, Set, Refuse
<1>3. DOMAIN conn_s_exec(st, r, args).st = DOMAIN st
  BY DEF conn_s_exec, Refuse
<1>4. DOMAIN test_exec(st, r).st = DOMAIN st
  BY DEF test_exec, Refuse
<1> QED
  BY <1>1, <1>2, <1>3, <1>4 DEF executeFunc, Executes, Device, Firmware, ConnStat, Test

\* The objects may change, the observations do not.
SameWatch(c, d) == IsContext(d) /\ d.observed = c.observed

\* An instance of an object is put, or taken away.
HasPut(c, d, o, i, st) ==
    /\ d.store[o][i] = st
    /\ DOMAIN d.store[o] = DOMAIN c.store[o] \cup {i}
    /\ \A j \in DOMAIN c.store[o] \ {i} : d.store[o][j] = c.store[o][j]
    /\ \A p \in ObjectIds \ {o} : d.store[p] = c.store[p]

LEMMA ChangedIs ==
    ASSUME NEW c, IsContext(c), NEW o \in ObjectIds, NEW i \in Nat,
           NEW st, ResourceList(o) \subseteq DOMAIN st
    PROVE  SameWatch(c, Changed(c, o, i, st)) /\ HasPut(c, Changed(c, o, i, st), o, i, st)
<1> DEFINE d == Changed(c, o, i, st)
<1> HIDE DEF d
<1> DEFINE S == c.store
           f == Over(Only(i, st), S[o])
           T == [S EXCEPT ![o] = f]
<1>1. /\ d.observed = c.observed /\ d.nextMID = c.nextMID /\ d.store = T
      /\ d \in [store : {d.store}, observed : {d.observed}, nextMID : Mids]
  BY DEF IsContext, Changed, d
<1>2. IsStore(S)
  BY DEF IsContext
<1>3. /\ DOMAIN f = DOMAIN S[o] \cup {i} /\ IsFunction(f) /\ f[i] = st
      /\ \A j \in DOMAIN S[o] \ {i} : f[j] = S[o][j]
  BY DEF Over, Only, IsFunction
<1> HIDE DEF f, S
<1>4. /\ DOMAIN T = ObjectIds /\ IsFunction(T) /\ T[o] = f
      /\ \A p \in ObjectIds \ {o} : T[p] = S[p]
  BY <1>2 DEF IsStore, IsFunction
<1> HIDE DEF T
<1>5. IsFiniteSet(DOMAIN S[o] \cup {i})
  BY <1>2, FS_AddElement DEF IsStore
<1>6. \A j \in DOMAIN f : ResourceList(o) \subseteq DOMAIN f[j]
  BY <1>2, <1>3 DEF IsStore
<1>7. IsStore(T)
  BY <1>2, <1>3, <1>4, <1>5, <1>6 DEF IsStore
<1>8. IsContext(d)
  BY <1>1, <1>7 DEF IsContext
<1>9. HasPut(c, d, o, i, st)
  BY <1>1, <1>3, <1>4 DEF HasPut, S
<1> QED
  BY <1>1, <1>8, <1>9 DEF SameWatch, d

LEMMA RemovedIs ==
    ASSUME NEW c, IsContext(c), NEW o \in ObjectIds, NEW i, NEW d, d = Removed(c, o, i)
    PROVE  /\ IsContext(d) /\ d.observed = c.observed /\ d.nextMID = c.nextMID
           /\ i \notin DOMAIN c.store[o] => d.store = c.store
<1> DEFINE S == c.store
           f == Restrict(S[o], DOMAIN S[o] \ {i})
           T == [S EXCEPT ![o] = f]
<1>1. /\ d.observed = c.observed /\ d.nextMID = c.nextMID /\ d.store = T
      /\ d \in [store : {d.store}, observed : {d.observed}, nextMID : Mids]
  BY DEF IsContext, Removed
<1>2. IsStore(S)
  BY DEF IsContext
<1>3. /\ DOMAIN f = DOMAIN S[o] \ {i} /\ IsFunction(f)
      /\ \A j \in DOMAIN S[o] \ {i} : f[j] = S[o][j]
  BY DEF Restrict, IsFunction
<1> HIDE DEF f, S
<1>4. /\ DOMAIN T = ObjectIds /\ IsFunction(T) /\ T[o] = f
      /\ \A p \in ObjectIds \ {o} : T[p] = S[p]
  BY <1>2 DEF IsStore, IsFunction
<1>5. IsFiniteSet(DOMAIN S[o] \ {i})
  BY <1>2, FS_Subset DEF IsStore
<1>6. ASSUME i \notin DOMAIN S[o] PROVE T = S
  <2>1. f = S[o]
    BY <1>2, <1>3, <1>6 DEF IsStore, IsFunction
  <2> QED
    BY <1>2, <2>1 DEF IsStore, IsFunction
<1> HIDE DEF T
<1>7. IsStore(T)
  BY <1>2, <1>3, <1>4, <1>5 DEF IsStore
<1> QED
  BY <1>1, <1>6, <1>7 DEF IsContext, S

\* lwm2m_list_newId finds a number that is not in use.
LEMMA NewIdIs ==
    ASSUME NEW S \in SUBSET Nat, IsFiniteSet(S)
    PROVE  lwm2m_list_newId(S) \in Nat \ S
<1> DEFINE N == Cardinality(S)
           Free == Nat \ S
<1>1. N \in Nat
  BY FS_CardinalityType
<1>2. Free # {}
  <2> SUFFICES ASSUME Free = {} PROVE FALSE
    OBVIOUS
  <2>1. 0 .. N \subseteq S
    BY <1>1
  <2>2. Cardinality(0 .. N) = N + 1 /\ IsFiniteSet(0 .. N)
    BY <1>1, FS_Interval
  <2>3. Cardinality(0 .. N) <= Cardinality(S)
    BY <2>1, FS_Subset
  <2> QED
    BY <1>1, <2>2, <2>3
<1>3. PICK k \in Free : \A j \in Free : k <= j
  <2>1. Free \in SUBSET Nat
    OBVIOUS
  <2> HIDE DEF Free
  <2> QED BY <1>2, <2>1, NatMin
<1>4. k \in Nat /\ k \notin S /\ 0 .. k - 1 \subseteq S
  BY <1>3
<1>5. k <= N
  <2>1. 0 <= k - 1 + 1 /\ IsFiniteSet(0 .. k - 1) /\ Cardinality(0 .. k - 1) = k
    <3>1. CASE k = 0
      <4>1. 0 .. k - 1 = {}
        BY <3>1
      <4> QED
        BY <3>1, <4>1, FS_EmptySet
    <3>2. CASE k # 0
      <4>1. 0 \in Int /\ k - 1 \in Int /\ 0 <= k - 1
        BY <1>4, <3>2
      <4> QED
        BY <4>1, <1>4, FS_Interval
    <3> QED
      BY <3>1, <3>2
  <2>2. Cardinality(0 .. k - 1) <= Cardinality(S)
    BY <1>4, FS_Subset
  <2> QED
    BY <2>1, <2>2
<1>6. k \in 0 .. N
  BY <1>1, <1>4, <1>5
<1> HIDE DEF N
<1>7. lwm2m_list_newId(S) = CHOOSE j \in 0 .. N : j \notin S /\ 0 .. j - 1 \subseteq S
  BY DEF lwm2m_list_newId, N
<1> QED
  BY <1>1, <1>4, <1>6, <1>7

\* A new instance has what it lists.
LEMMA CreateIs ==
    ASSUME NEW c, IsContext(c), NEW o \in Creates, NEW i \in Nat, NEW items, IsList(items),
           NEW r, r = createFunc(c, o, i, items)
    PROVE  /\ SameWatch(c, r.ctx)
           /\ r.code # "2.01" /\ i \notin DOMAIN c.store[o] => r.ctx.store = c.store
<1>1. o \in Writes /\ o \in ObjectIds
  BY DEF Creates, Writes, ObjectIds
<1>2. ResourceList(o) \subseteq DOMAIN NewInstance(o)
  BY DEF Creates, ResourceList, NewInstance, acc_ctrl_new, acc_ctrl_read, test_new, test_read,
         AccessControl, Test, Device, ConnMonitor, Firmware, Location, ConnStat
<1> DEFINE w == write_resources(o, NewInstance(o), items, TRUE, FALSE)
<1>3. DOMAIN w.st = DOMAIN NewInstance(o)
  <2>1. \A t, p : DOMAIN write_resources(o, NewInstance(o), items, t, p).st = DOMAIN NewInstance(o)
    BY <1>1, WriteKeeps
  <2> QED
    BY <2>1, Zenon
<1>4. r = IF w.code = "2.04" THEN [code |-> "2.01", ctx |-> Changed(c, o, i, w.st)]
          ELSE [code |-> w.code, ctx |-> Removed(c, o, i)]
  BY DEF createFunc
<1> HIDE DEF w
<1>5. CASE w.code = "2.04"
  <2>1. r.ctx = Changed(c, o, i, w.st) /\ r.code = "2.01"
    BY <1>4, <1>5
  <2>2. ResourceList(o) \subseteq DOMAIN w.st
    BY <1>2, <1>3
  <2>3. SameWatch(c, Changed(c, o, i, w.st))
    BY <1>1, <2>2, ChangedIs
  <2> QED
    BY <2>1, <2>3
<1>6. CASE w.code # "2.04"
  <2>1. r.ctx = Removed(c, o, i)
    BY <1>4, <1>6
  <2> QED
    BY <1>1, <2>1, RemovedIs DEF SameWatch
<1> QED
  BY <1>5, <1>6

LEMMA WriteIs ==
    ASSUME NEW c, IsContext(c), NEW o \in Writes, NEW i, NEW items, IsList(items), NEW type,
           NEW r, r = writeFunc(c, o, i, items, type)
    PROVE  SameWatch(c, r.ctx)
<1>0. o \in ObjectIds
  BY DEF Writes, ObjectIds
<1>1. CASE i \notin DOMAIN c.store[o]
  BY <1>1 DEF writeFunc, SameWatch
<1>2. CASE i \in DOMAIN c.store[o] /\ type = "replaceInstance" /\ o \in Creates
  <2> DEFINE b == Removed(c, o, i)
             w == createFunc(b, o, i, items)
  <2>1. r = [w EXCEPT !.code = IF @ = "2.01" THEN "2.04" ELSE @]
    BY <1>2 DEF writeFunc
  <2>2. IsContext(b) /\ b.observed = c.observed
    BY <1>0, RemovedIs
  <2>3. i \in Nat
    BY <1>0, <1>2 DEF IsContext, IsStore
  <2> HIDE DEF b
  <2>4. SameWatch(b, w.ctx)
    BY <1>2, <2>2, <2>3, CreateIs
  <2>5. r.ctx = w.ctx
    BY <2>1 DEF createFunc
  <2> QED
    BY <2>2, <2>4, <2>5 DEF SameWatch
<1>3. CASE i \in DOMAIN c.store[o] /\ ~(type = "replaceInstance" /\ o \in Creates)
  <2> DEFINE w == write_resources(o, c.store[o][i], items, FALSE, type = "partial")
  <2>1. r = [code |-> w.code, ctx |-> Changed(c, o, i, w.st)]
    BY <1>3 DEF writeFunc
  <2>2. DOMAIN w.st = DOMAIN c.store[o][i]
    <3>1. \A t, p : DOMAIN write_resources(o, c.store[o][i], items, t, p).st = DOMAIN c.store[o][i]
      BY WriteKeeps
    <3> QED
      BY <3>1, Zenon
  <2>3. i \in Nat /\ ResourceList(o) \subseteq DOMAIN c.store[o][i]
    BY <1>0, <1>3 DEF IsContext, IsStore
  <2> HIDE DEF w
  <2>4. r.ctx = Changed(c, o, i, w.st) /\ ResourceList(o) \subseteq DOMAIN w.st
    BY <2>1, <2>2, <2>3
  <2>5. SameWatch(c, Changed(c, o, i, w.st))
    BY <1>0, <2>3, <2>4, ChangedIs
  <2> QED
    BY <2>4, <2>5
<1> QED
  BY <1>1, <1>2, <1>3

LEMMA ExecuteIs ==
    ASSUME NEW c, IsContext(c), NEW u, NEW args, NEW r, r = object_execute(c, u, args)
    PROVE  SameWatch(c, r.ctx)
<1> DEFINE o == u[1]
           i == u[2]
           w == executeFunc(o, Instance(c, u), u[3], args)
<1>1. CASE o \notin ObjectIds \/ o \notin Executes \/ ~HasInstance(c, u)
  BY <1>1 DEF object_execute, SameWatch
<1>2. CASE o \in ObjectIds /\ o \in Executes /\ HasInstance(c, u)
  <2>1. r.ctx = Changed(c, o, i, w.st)
    BY <1>2 DEF object_execute
  <2>2. DOMAIN w.st = DOMAIN Instance(c, u)
    BY <1>2, ExecuteKeeps
  <2>3. i \in Nat /\ ResourceList(o) \subseteq DOMAIN Instance(c, u)
    BY <1>2 DEF IsContext, IsStore, HasInstance, Instance
  <2> HIDE DEF w, i, o
  <2>4. ResourceList(o) \subseteq DOMAIN w.st
    BY <2>2, <2>3
  <2>5. SameWatch(c, Changed(c, o, i, w.st))
    BY <1>2, <2>3, <2>4, ChangedIs
  <2> QED
    BY <2>1, <2>5
<1> QED
  BY <1>1, <1>2

LEMMA ObjectWriteIs ==
    ASSUME NEW c, IsContext(c), NEW u, NEW items, IsList(items), NEW partial,
           NEW r, r = object_write(c, u, items, partial)
    PROVE  SameWatch(c, r.ctx)
<1> DEFINE sent == IF Len(u) = 4
                   THEN <<[id |-> u[3], multi |-> TRUE, val |-> Only(u[4], items[1].val)]>>
                   ELSE items
           type == IF partial \/ Len(u) = 4 THEN "partial"
                   ELSE IF Len(u) = 3 THEN "replaceResources" ELSE "replaceInstance"
<1>1. \A x : IsList(<<x>>)
  BY DEF IsList, Range
<1>2. IsList(sent)
  BY <1>1
<1>3. \/ r.ctx = c
      \/ u[1] \in Writes /\ r = writeFunc(c, u[1], u[2], sent, type)
  BY DEF object_write, Writes
<1> HIDE DEF sent, type
<1>4. CASE r.ctx = c
  BY <1>4 DEF SameWatch
<1>5. CASE u[1] \in Writes /\ r = writeFunc(c, u[1], u[2], sent, type)
  BY <1>2, <1>5, WriteIs
<1> QED
  BY <1>3, <1>4, <1>5

LEMMA ObjectCreateIs ==
    ASSUME NEW c, IsContext(c), NEW u, NEW id, id \in {None, Bad} \/ id \in Nat,
           NEW items, IsList(items), NEW r, r = object_create(c, u, id, items)
    PROVE  /\ SameWatch(c, r.ctx)
           /\ r.code # "2.01" => r.ctx.store = c.store
<1> DEFINE o == u[1]
           S == DOMAIN c.store[o]
           i == IF id = None THEN lwm2m_list_newId(S) ELSE id
<1>1. \/ r.ctx = c
      \/ /\ o \in ObjectIds /\ o \in Creates /\ id # Bad /\ ~(id # None /\ id \in S)
         /\ r = createFunc(c, o, i, items)
  BY DEF object_create
<1>2. CASE r.ctx = c
  BY <1>2 DEF SameWatch
<1>3. CASE /\ o \in ObjectIds /\ o \in Creates /\ id # Bad /\ ~(id # None /\ id \in S)
           /\ r = createFunc(c, o, i, items)
  <2>1. S \in SUBSET Nat /\ IsFiniteSet(S)
    BY <1>3 DEF IsContext, IsStore
  <2> HIDE DEF S
  <2>2. lwm2m_list_newId(S) \in Nat \ S
    BY <2>1, NewIdIs
  <2>3. i \in Nat /\ i \notin S
    BY <1>3, <2>2
  <2> HIDE DEF i, o
  <2> QED
    BY <1>3, <2>3, CreateIs DEF S
<1> QED
  BY <1>1, <1>2, <1>3

\* What every request does to the list of watchers: the context it leaves is sound, and
\* its watchers have been told, or will be, what the objects were before.
Handled(c, d) == IsContext(d) /\ Sound(d.observed) /\ KeptFor(d.observed, c)

LEMMA HandledSame ==
    ASSUME NEW c, Sound(c.observed), AllKept(c), NEW d, SameWatch(c, d)
    PROVE  Handled(c, d)
  BY DEF SameWatch, Handled, KeptFor, AllKept

LEMMA HandledKept ==
    ASSUME NEW c, NEW d, IsContext(d), d.store = c.store, Sound(d.observed), AllKept(d)
    PROVE  Handled(c, d)
<1>1. \A v : object_readData(c, v) = object_readData(d, v)
  BY ReadOfStore
<1> QED
  BY <1>1 DEF Handled, KeptFor, AllKept

LEMMA HandledFewer ==
    ASSUME NEW c, NEW d, IsContext(d), Sound(d.observed), Within(d.observed, c.observed), AllKept(c)
    PROVE  Handled(c, d)
<1> SUFFICES ASSUME NEW j \in DOMAIN d.observed, NEW n \in DOMAIN d.observed[j].watchers
             PROVE  Kept(d.observed[j].watchers[n], d.observed[j].uri,
                         object_readData(c, d.observed[j].uri).data)
  BY DEF Handled, KeptFor
<1>3. PICK k \in DOMAIN c.observed :
        /\ d.observed[j].uri = c.observed[k].uri
        /\ \A i \in DOMAIN d.observed[j].watchers : \E m \in DOMAIN c.observed[k].watchers :
             d.observed[j].watchers[i] = c.observed[k].watchers[m]
  BY DEF Within
<1>4. PICK m \in DOMAIN c.observed[k].watchers :
        d.observed[j].watchers[n] = c.observed[k].watchers[m]
  BY <1>3
<1> QED
  BY <1>3, <1>4 DEF AllKept

LEMMA DeleteIs ==
    ASSUME NEW c, IsContext(c), Sound(c.observed), AllKept(c), NEW u,
           NEW r, r = object_delete(c, u)
    PROVE  /\ Handled(c, r.ctx)
           /\ r.code # "2.02" => r.ctx.store = c.store
<1>1. \/ r.ctx = c
      \/ /\ u[1] \in ObjectIds /\ r.code = "2.02"
         /\ r.ctx = observe_clear(Removed(c, u[1], u[2]), u)
  BY DEF object_delete
<1>2. CASE r.ctx = c
  BY <1>2, HandledSame DEF SameWatch
<1>3. CASE /\ u[1] \in ObjectIds /\ r.code = "2.02"
           /\ r.ctx = observe_clear(Removed(c, u[1], u[2]), u)
  <2> DEFINE b == Removed(c, u[1], u[2])
  <2>1. IsContext(b) /\ b.observed = c.observed
    BY <1>3, RemovedIs
  <2>2. r.ctx = observe_clear(b, u)
    BY <1>3
  <2> HIDE DEF b
  <2>3. IsContext(r.ctx) /\ Sound(r.ctx.observed) /\ Within(r.ctx.observed, b.observed)
    BY <2>1, <2>2, ClearIs
  <2> QED
    BY <1>3, <2>1, <2>3, HandledFewer
<1> QED
  BY <1>1, <1>2, <1>3

LEMMA ObservesIs ==
    ASSUME NEW c, IsContext(c), Sound(c.observed), AllKept(c),
           NEW s \in Servers, NEW q, q.uri \in Uris, NEW mid \in Mids,
           NEW r, r = Observes(c, s, q, mid, object_readData(c, q.uri))
    PROVE  Handled(c, r.ctx)
<1> DEFINE u == q.uri
           k == prv_findObserved(c, u)
           n == prv_findWatcher(c.observed[k].watchers, s)
           data == object_readData(c, u).data
           code == utils_getResponseFormat(object_readData(c, u).code, q)
           shown == q.accept # "fails"
<1>1. CASE code # "2.05"
  <2>1. r.ctx = c
    BY <1>1 DEF Observes
  <2> QED
    BY <2>1, HandledSame DEF SameWatch
<1>2. CASE code = "2.05"
  <2> DEFINE d == observe_handleRequest(c, u, s, q.observe, q.token, mid, data, shown)
  <2>a. r = [code |-> Serialized(d.code, q), ctx |-> d.ctx]
    BY <1>2 DEF Observes
  <2>b. shown \in BOOLEAN
    OBVIOUS
  <2> HIDE DEF shown
  <2>0. r.ctx = d.ctx
    BY <2>a
  <2>1. CASE q.observe = 0
    <3>1. u[1] \in ObjectIds
      BY <1>2 DEF object_readData, Answer, utils_getResponseFormat
    <3>2. r.ctx = observe_handleRequest(c, u, s, 0, q.token, mid, data, shown).ctx
      BY <2>0, <2>1
    <3>3. IsContext(r.ctx) /\ r.ctx.store = c.store /\ Sound(r.ctx.observed) /\ AllKept(r.ctx)
      BY <2>b, <3>1, <3>2, BeginIs
    <3> QED
      BY <3>3, HandledKept
  <2>2. CASE q.observe # 0
    <3>1. r.ctx = c \/ r.ctx = observe_cancel(c, c.observed[k].watchers[n].lastMid, s)
      BY <2>0, <2>2 DEF observe_handleRequest
    <3> HIDE DEF n
    <3>2. CASE r.ctx = c
      BY <3>2, HandledSame DEF SameWatch
    <3>3. CASE r.ctx = observe_cancel(c, c.observed[k].watchers[n].lastMid, s)
      <4>1. IsContext(r.ctx) /\ Sound(r.ctx.observed) /\ Within(r.ctx.observed, c.observed)
        BY <3>3, CancelIs
      <4> QED
        BY <4>1, HandledFewer
    <3> QED
      BY <3>1, <3>2, <3>3
  <2> QED
    BY <2>1, <2>2
<1> QED
  BY <1>1, <1>2

\* A request as RequestAssumption and AttributeAssumption have it.
IsRequest(q) ==
    /\ q.uri \in Uris /\ IsList(q.items) /\ (q.id \in {None, Bad} \/ q.id \in Nat)
    /\ q.query /\ q.attr # Bad => IsAttributes(q.attr)

LEMMA RequestsAre ==
    \A q \in Requests : IsRequest(q)
  BY RequestAssumption, AttributeAssumption DEF IsRequest, IsAttributes, Flags, Uris, IsList

LEMMA PostsIs ==
    ASSUME NEW c, IsContext(c), NEW q, IsRequest(q), NEW r, r = Posts(c, q)
    PROVE  SameWatch(c, r.ctx)
<1>1. \/ r.ctx = c
      \/ r = object_create(c, q.uri, q.id, q.items)
      \/ r = object_execute(c, q.uri, q.args)
      \/ r = object_write(c, q.uri, q.items, TRUE)
  <2>1. CASE Len(q.uri) = 1
    BY <2>1 DEF Posts
  <2>2. CASE Len(q.uri) > 1 /\ q.plain
    <3> DEFINE x == object_execute(c, q.uri, q.args)
    <3>1. r = IF Len(q.uri) = 3 THEN x ELSE [code |-> "4.00", ctx |-> c]
      <4>1. Len(q.uri) # 1
        BY <2>2
      <4> QED
        BY <2>2, <4>1, Zenon DEF Posts
    <3> HIDE DEF x
    <3>2. r.ctx = c \/ r = x
      BY <3>1
    <3> QED
      BY <3>2, Zenon DEF x
  <2>3. CASE Len(q.uri) # 1 /\ ~(Len(q.uri) > 1 /\ q.plain)
    BY <2>3 DEF Posts
  <2> QED
    BY <2>1, <2>2, <2>3
<1>2. CASE r.ctx = c
  BY <1>2 DEF SameWatch
<1>3. CASE r = object_create(c, q.uri, q.id, q.items)
  BY <1>3, ObjectCreateIs DEF IsRequest
<1>4. CASE r = object_execute(c, q.uri, q.args)
  BY <1>4, ExecuteIs
<1>5. CASE r = object_write(c, q.uri, q.items, TRUE)
  <2>1. \A p : SameWatch(c, object_write(c, q.uri, q.items, p).ctx)
    BY ObjectWriteIs DEF IsRequest
  <2> QED
    BY <1>5, <2>1, Zenon
<1> QED
  BY <1>1, <1>2, <1>3, <1>4, <1>5

LEMMA PutsIs ==
    ASSUME NEW c, IsContext(c), Sound(c.observed), AllKept(c),
           NEW s \in Servers, NEW q, IsRequest(q), NEW r, r = Puts(c, s, q)
    PROVE  Handled(c, r.ctx)
<1>1. \/ r.ctx = c
      \/ q.query /\ q.attr # Bad /\ r = observe_setParameters(c, q.uri, s, q.attr)
      \/ r = object_write(c, q.uri, q.items, FALSE)
  BY DEF Puts
<1>2. CASE r.ctx = c
  BY <1>2, HandledSame DEF SameWatch
<1>3. CASE q.query /\ q.attr # Bad /\ r = observe_setParameters(c, q.uri, s, q.attr)
  <2>1. IsAttributes(q.attr) /\ q.uri \in Uris
    BY <1>3 DEF IsRequest
  <2>2. IsContext(r.ctx) /\ r.ctx.store = c.store /\ Sound(r.ctx.observed) /\ AllKept(r.ctx)
    BY <1>3, <2>1, SetParametersIs
  <2> QED
    BY <2>2, HandledKept
<1>4. CASE r = object_write(c, q.uri, q.items, FALSE)
  <2>1. \A p : SameWatch(c, object_write(c, q.uri, q.items, p).ctx)
    BY ObjectWriteIs DEF IsRequest
  <2>2. SameWatch(c, r.ctx)
    BY <1>4, <2>1, Zenon
  <2> QED
    BY <2>2, HandledSame
<1> QED
  BY <1>1, <1>2, <1>3, <1>4

\* Every request that is answered.
LEMMA RequestIs ==
    ASSUME NEW c, IsContext(c), Sound(c.observed), AllKept(c),
           NEW s \in Servers, NEW q, IsRequest(q), NEW mid \in Mids,
           NEW r, r = dm_handleRequest(c, s, q, mid)
    PROVE  Handled(c, r.ctx)
<1>1. \/ r.ctx = c
      \/ r = Observes(c, s, q, mid, object_readData(c, q.uri))
      \/ r = Posts(c, q)
      \/ r = Puts(c, s, q)
      \/ r = Deletes(c, q)
  BY DEF dm_handleRequest, Reads
<1>2. CASE r.ctx = c
  BY <1>2, HandledSame DEF SameWatch
<1>3. CASE r = Observes(c, s, q, mid, object_readData(c, q.uri))
  BY <1>3, ObservesIs DEF IsRequest
<1>4. CASE r = Posts(c, q)
  BY <1>4, PostsIs, HandledSame
<1>5. CASE r = Puts(c, s, q)
  BY <1>5, PutsIs
<1>6. CASE r = Deletes(c, q)
  <2>1. r.ctx = c \/ r = object_delete(c, q.uri)
    BY <1>6 DEF Deletes
  <2> QED
    BY <1>2, <2>1, DeleteIs
<1> QED
  BY <1>1, <1>2, <1>3, <1>4, <1>5, <1>6

\* The request, and the marks on what it changed.
LEMMA HandleIs ==
    ASSUME NEW c, IsContext(c), Sound(c.observed), AllKept(c),
           NEW s \in Servers, NEW q, IsRequest(q), NEW mid \in Mids,
           NEW r, r = dm_handleRequest(c, s, q, mid),
           NEW d, d = IF r.ctx.store = c.store THEN r.ctx ELSE Silently(c, r.ctx)
    PROVE  IsContext(d) /\ Sound(d.observed) /\ AllKept(d)
<1>1. IsContext(r.ctx) /\ Sound(r.ctx.observed) /\ KeptFor(r.ctx.observed, c)
  BY RequestIs DEF Handled
<1>2. CASE r.ctx.store = c.store
  <2>1. \A v : object_readData(c, v) = object_readData(r.ctx, v)
    BY <1>2, ReadOfStore
  <2>2. d = r.ctx
    BY <1>2
  <2> QED
    BY <1>1, <2>1, <2>2 DEF KeptFor, AllKept
<1>3. CASE r.ctx.store # c.store
  <2>1. d = Silently(c, r.ctx)
    BY <1>3
  <2> QED
    BY <1>1, <2>1, SilentlyIs
<1> QED
  BY <1>2, <1>3

-----------------------------------------------------------------------------
(* What the application reports                                             *)

\* A write of one item changes its resource at most; if it is refused, at most the
\* float of the test object.
SetsOrRefuses(w, st, r) ==
    \/ \E code : w = Refuse(st, code)
    \/ \E v : w = Set(st, r, v)
    \/ r = 3 /\ w = [code |-> "4.00", st |-> FloatLost(st)]

LEMMA OneItemIs ==
    ASSUME NEW o \in Writes, NEW st, NEW it, NEW create, NEW partial
    PROVE  SetsOrRefuses(write_item(o, st, it, create, partial), st, it.id)
<1>0. [code |-> "2.04", st |-> st] = Refuse(st, "2.04")
  BY DEF Refuse
<1>1. SetsOrRefuses(acc_ctrl_write(st, it, create, partial), st, it.id)
  <2>1. SetsOrRefuses(acc_ctrl_write_acl(st, it.val, partial), st, 2)
    BY DEF acc_ctrl_write_acl, SetsOrRefuses
  <2> QED
    BY <2>1 DEF acc_ctrl_write, SetsOrRefuses
<1>2. SetsOrRefuses(prv_device_write(st, it), st, it.id)
  BY DEF prv_device_write, SetsOrRefuses
<1>3. SetsOrRefuses(prv_firmware_write(st, it), st, it.id)
  BY <1>0 DEF prv_firmware_write, SetsOrRefuses
<1>4. SetsOrRefuses(test_write(st, it), st, it.id)
  BY DEF test_write, SetsOrRefuses
<1> QED
  BY <1>1, <1>2, <1>3, <1>4 DEF write_item, Writes, AccessControl, Device, Firmware, Test

\* What can be read is in the list of the object.
LEMMA ReadableIsListed ==
    ASSUME NEW o \in ObjectIds, NEW st, NEW r, NEW ri, set_value(o, st, r, ri) = "2.05"
    PROVE  r \in ResourceList(o)
<1> USE DEF AccessControl, Device, ConnMonitor, Firmware, Location, ConnStat, Test
<1>1. CASE o = AccessControl
  BY <1>1 DEF set_value, ResourceList, acc_ctrl_set_tlv, acc_ctrl_read
<1>2. CASE o = Device
  BY <1>2 DEF set_value, ResourceList, device_set_value, prv_device_read
<1>3. CASE o = ConnMonitor
  BY <1>3 DEF set_value, ResourceList, conn_m_set_value, conn_m_read
<1>4. CASE o = Firmware
  BY <1>4 DEF set_value, ResourceList, firmware_set_value, prv_firmware_read
<1>5. CASE o = Location
  BY <1>5 DEF set_value, ResourceList, location_res2tlv, prv_location_read
<1>6. CASE o = ConnStat
  BY <1>6 DEF set_value, ResourceList, conn_s_set_tlv, conn_s_read
<1>7. CASE o = Test
  BY <1>7 DEF set_value, ResourceList, test_set_value, test_read
<1> QED
  BY <1>1, <1>2, <1>3, <1>4, <1>5, <1>6, <1>7 DEF ObjectIds

\* The answer for a resource depends on that resource only.
LEMMA ReadOfResource ==
    ASSUME NEW o \in ObjectIds, NEW st, NEW sv, NEW r, st[r] = sv[r], NEW ri
    PROVE  set_value(o, st, r, ri) = set_value(o, sv, r, ri)
<1>1. acc_ctrl_set_tlv(st, r, ri) = acc_ctrl_set_tlv(sv, r, ri)
  BY DEF acc_ctrl_set_tlv, Multiple
<1>2. device_set_value(st, r, ri) = device_set_value(sv, r, ri)
  BY DEF device_set_value, Multiple
<1>3. conn_m_set_value(st, r, ri) = conn_m_set_value(sv, r, ri)
  BY DEF conn_m_set_value, Multiple
<1>4. firmware_set_value(st, r, ri) = firmware_set_value(sv, r, ri)
  BY DEF firmware_set_value, Multiple
<1> QED
  BY <1>1, <1>2, <1>3, <1>4 DEF set_value

\* Nor does it depend on the instance for a resource that is not listed.
LEMMA NotListed ==
    ASSUME NEW o \in ObjectIds, NEW st, NEW sv, NEW r, r \notin ResourceList(o), NEW ri
    PROVE  set_value(o, st, r, ri) = set_value(o, sv, r, ri)
<1> USE DEF AccessControl, Device, ConnMonitor, Firmware, Location, ConnStat, Test
<1>1. CASE o = AccessControl
  BY <1>1 DEF set_value, ResourceList, acc_ctrl_set_tlv, acc_ctrl_read
<1>2. CASE o = Device
  BY <1>2 DEF set_value, ResourceList, device_set_value, prv_device_read
<1>3. CASE o = ConnMonitor
  BY <1>3 DEF set_value, ResourceList, conn_m_set_value, conn_m_read
<1>4. CASE o = Firmware
  BY <1>4 DEF set_value, ResourceList, firmware_set_value, prv_firmware_read
<1>5. CASE o \in {Location, ConnStat, Test}
  BY <1>5 DEF set_value
<1> QED
  BY <1>1, <1>2, <1>3, <1>4, <1>5 DEF ObjectIds

LEMMA ReadOne ==
    ASSUME NEW o, NEW st, NEW r \in Nat, NEW ri
    PROVE  readFunc(o, st, {r}, ri) = set_value(o, st, r, ri)
<1> DEFINE Code(x) == set_value(o, st, x, ri)
           codes == {Code(x) : x \in {r}}
           rest == {x \in {r} : Code(x) # "2.05"}
           more == o = AccessControl /\ Cardinality({r}) > 1
<1>1. Cardinality({r}) = 1
  BY FS_Singleton
<1>2. ~more
  BY <1>1
<1>3. readFunc(o, st, {r}, ri) =
        LET kept == IF more THEN codes \ {"4.04"} ELSE codes
        IN  IF kept \subseteq {"2.05"} THEN "2.05" ELSE Code(Min(rest))
  BY DEF readFunc
<1> HIDE DEF more, Code
<1>4. readFunc(o, st, {r}, ri) = IF codes \subseteq {"2.05"} THEN "2.05" ELSE Code(Min(rest))
  BY <1>2, <1>3
<1>5. CASE Code(r) = "2.05"
  <2>1. codes \subseteq {"2.05"}
    BY <1>5
  <2> QED
    BY <1>4, <1>5, <2>1 DEF Code
<1>6. CASE Code(r) # "2.05"
  <2>1. ~(codes \subseteq {"2.05"}) /\ rest = {r}
    BY <1>6
  <2>2. {r} \in SUBSET Nat /\ {r} # {}
    OBVIOUS
  <2>3. Min({r}) = r
    <3>1. Min({r}) \in {r}
      BY <2>2, MinIs
    <3> QED
      BY <3>1
  <2> QED
    BY <1>4, <2>1, <2>3 DEF Code
<1> QED
  BY <1>5, <1>6

LEMMA PrefixIs ==
    ASSUME NEW u \in Uris, NEW v \in Uris, Len(u) <= Len(v),
           \A i \in 1 .. Len(u) : u[i] = v[i]
    PROVE  IsPrefix(u, v)
  BY DEF IsPrefix, Uris

\* A change of one resource shows at URIs that overlap with its own only.
OneChanged(c, d, o, i, r) ==
    /\ DOMAIN d.store[o] = DOMAIN c.store[o]
    /\ \A p \in ObjectIds \ {o} : d.store[p] = c.store[p]
    /\ \A j \in DOMAIN c.store[o] \ {i} : d.store[o][j] = c.store[o][j]
    /\ \A x \in ResourceList(o) \ {r} : d.store[o][i][x] = c.store[o][i][x]

\* So it is with a change of one instance of a resource.
OthersKept(o, st, sv, r, ri) ==
    \A x \in Nat \ {ri} :
        /\ set_value(o, st, r, x) = set_value(o, sv, r, x)
        /\ set_value(o, st, r, x) = "2.05" => st[r][x] = sv[r][x]

LEMMA Unseen ==
    ASSUME NEW c, NEW d, NEW u \in Uris, Len(u) \in 3 .. 4, u[1] \in ObjectIds,
           OneChanged(c, d, u[1], u[2], u[3]),
           Len(u) = 4 => OthersKept(u[1], c.store[u[1]][u[2]], d.store[u[1]][u[2]], u[3], u[4]),
           NEW v \in Uris, v[1] \in ObjectIds, ~Overlap(v, u)
    PROVE  object_readData(c, v) = object_readData(d, v)
<1> DEFINE o == u[1]
           i == u[2]
           r == u[3]
<1>0. Len(v) \in 1 .. 4 /\ (Len(v) >= 3 => v[3] \in Nat) /\ (Len(v) = 4 => v[4] \in Nat)
  BY DEF Uris
<1>1. CASE v[1] # o
  <2>1. d.store[v[1]] = c.store[v[1]]
    BY <1>1 DEF OneChanged
  <2> QED
    BY <2>1 DEF object_readData, HasInstance, Instance
<1>2. CASE v[1] = o /\ Len(v) = 1
  BY <1>2, PrefixIs DEF Overlap
<1>3. CASE v[1] = o /\ Len(v) # 1 /\ v[2] # i
  <2>1. /\ v[2] \in DOMAIN d.store[v[1]] <=> v[2] \in DOMAIN c.store[v[1]]
        /\ v[2] \in DOMAIN c.store[v[1]] => d.store[v[1]][v[2]] = c.store[v[1]][v[2]]
    BY <1>3 DEF OneChanged
  <2> QED
    BY <1>3, <2>1 DEF object_readData, HasInstance, Instance
<1>4. CASE v[1] = o /\ Len(v) # 1 /\ v[2] = i
  <2>1. Len(v) >= 3 /\ (v[3] # r \/ (Len(u) = 4 /\ Len(v) = 4 /\ v[4] \in Nat \ {u[4]}))
    <3>1. Len(v) # 2
      BY <1>4, PrefixIs DEF Overlap
    <3>2. Len(v) \in 3 .. 4
      BY <1>0, <1>4, <3>1
    <3>3. CASE v[3] = r
      <4>1. Len(u) # 3 /\ Len(v) # 3
        BY <1>4, <3>2, <3>3, PrefixIs DEF Overlap
      <4>2. Len(u) = 4 /\ Len(v) = 4
        BY <3>2, <4>1
      <4>3. v[4] # u[4]
        BY <1>4, <3>3, <4>2, PrefixIs DEF Overlap
      <4>4. v[4] \in Nat
        BY <1>0, <4>2
      <4> QED
        BY <4>2, <4>3, <4>4
    <3> QED
      BY <3>2, <3>3
  <2> DEFINE st == c.store[o][i]
             sv == d.store[o][i]
             x == v[3]
  <2>2. x # r /\ x \in ResourceList(o) => st[x] = sv[x]
    BY <2>1 DEF OneChanged
  <2>9. x = r => /\ Len(v) = 4 /\ Ri(v) = v[4]
                 /\ set_value(o, st, x, Ri(v)) = set_value(o, sv, x, Ri(v))
                 /\ set_value(o, st, x, Ri(v)) = "2.05" => st[x][v[4]] = sv[x][v[4]]
    BY <2>1 DEF OthersKept, Ri
  <2>3. set_value(o, st, x, Ri(v)) = set_value(o, sv, x, Ri(v))
    <3>1. CASE x # r /\ x \in ResourceList(o)
      BY <2>2, <3>1, ReadOfResource
    <3>2. CASE x \notin ResourceList(o)
      BY <3>2, NotListed
    <3> QED
      BY <2>9, <3>1, <3>2
  <2>4. /\ readFunc(o, st, {x}, Ri(v)) = set_value(o, st, x, Ri(v))
        /\ readFunc(o, sv, {x}, Ri(v)) = set_value(o, sv, x, Ri(v))
    BY <1>0, <2>1, ReadOne
  <2> DEFINE code == readFunc(o, st, {x}, Ri(v))
  <2>5. code = readFunc(o, sv, {x}, Ri(v)) /\ (code = "2.05" => x \in ResourceList(o))
    BY <2>3, <2>4, ReadableIsListed
  <2>10. x = r /\ code = "2.05" => Len(v) = 4 /\ st[x][v[4]] = sv[x][v[4]]
    BY <2>4, <2>9
  <2> HIDE DEF code
  <2>6. ReadResource(st, v, code) = ReadResource(sv, v, code)
    BY <2>2, <2>5, <2>10 DEF ReadResource
  <2>7. /\ object_readData(c, v) = IF ~HasInstance(c, v) THEN Answer("4.04", None)
                                   ELSE ReadResource(st, v, code)
        /\ object_readData(d, v) = IF ~HasInstance(d, v) THEN Answer("4.04", None)
                                   ELSE ReadResource(sv, v, code)
    BY <1>4, <2>1, <2>5 DEF object_readData, Instance, code
  <2>8. HasInstance(c, v) = HasInstance(d, v)
    BY <1>4 DEF HasInstance, OneChanged
  <2> QED
    BY <2>6, <2>7, <2>8
<1> QED
  BY <1>1, <1>2, <1>3, <1>4

LEMMA ChangedSame ==
    ASSUME NEW c, IsContext(c), NEW o \in ObjectIds, NEW i \in DOMAIN c.store[o],
           NEW d, d = Changed(c, o, i, c.store[o][i])
    PROVE  d.store = c.store
<1> DEFINE S == c.store
           f == Over(Only(i, S[o][i]), S[o])
<1>1. d.store = [S EXCEPT ![o] = f]
  BY DEF IsContext, Changed
<1>2. IsStore(S)
  BY DEF IsContext
<1>3. f = [j \in DOMAIN S[o] |-> S[o][j]]
  BY DEF Over, Only
<1> HIDE DEF f, S
<1>4. f = S[o]
  BY <1>2, <1>3 DEF IsStore, IsFunction
<1> QED
  BY <1>1, <1>2, <1>4 DEF IsStore, IsFunction, S

LEMMA SetOrRefused ==
    ASSUME NEW w, NEW st, NEW r, SetsOrRefuses(w, st, r)
    PROVE  /\ DOMAIN w.st = DOMAIN st
           /\ \A x \in DOMAIN st \ {r} : w.st[x] = st[x]
<1>1. CASE \E code : w = Refuse(st, code)
  BY <1>1 DEF Refuse
<1>2. CASE \E v : w = Set(st, r, v)
  <2>1. PICK v : w = Set(st, r, v)
    BY <1>2
  <2> QED
    BY <2>1 DEF Set
<1>3. CASE r = 3 /\ w = [code |-> "4.00", st |-> FloatLost(st)]
  BY <1>3 DEF FloatLost
<1> QED
  BY <1>1, <1>2, <1>3 DEF SetsOrRefuses

LEMMA DeviceChangeIs ==
    ASSUME NEW st, NEW r, NEW v
    PROVE  SetsOrRefuses(device_change(st, r, v), st, r)
  BY DEF device_change, SetsOrRefuses

\* Which callback writes an item.
LEMMA ItemOf ==
    ASSUME NEW o \in Writes, NEW st, NEW it, NEW create, NEW partial,
           NEW w, w = write_item(o, st, it, create, partial)
    PROVE  \/ o = AccessControl /\ w = acc_ctrl_write(st, it, create, partial)
           \/ o = Device /\ w = prv_device_write(st, it)
           \/ o = Firmware /\ w = prv_firmware_write(st, it)
           \/ o = Test /\ w = test_write(st, it)
  BY DEF write_item, Writes, AccessControl, Device, Firmware, Test

\* The rights of access control: what is read of one of them.
LEMMA RightIs ==
    /\ 2 \in ResourceList(AccessControl)
    /\ \A st, x : set_value(AccessControl, st, 2, x) =
                    IF DOMAIN st[2] = {} THEN "4.04" ELSE Multiple(st, 2, x)
<1> USE DEF AccessControl, Device, ConnMonitor, Firmware, Location, ConnStat, Test
<1>1. 2 \in ResourceList(AccessControl)
  BY DEF ResourceList, acc_ctrl_read
<1>2. ASSUME NEW st, NEW x
      PROVE  set_value(AccessControl, st, 2, x) =
               IF DOMAIN st[2] = {} THEN "4.04" ELSE Multiple(st, 2, x)
  BY DEF set_value, acc_ctrl_set_tlv
<1> QED
  BY <1>1, <1>2

\* An item of one resource instance, for a partial write.
IsOne(it, ri, v, partial) == it.multi /\ it.val = Only(ri, v) /\ partial

LEMMA OneRightIs ==
    ASSUME NEW st, NEW it, NEW ri, NEW v, NEW create, NEW partial, IsOne(it, ri, v, partial)
    PROVE  \/ \E code : acc_ctrl_write(st, it, create, partial) = Refuse(st, code)
           \/ /\ it.id = 2
              /\ acc_ctrl_write(st, it, create, partial) = Set(st, 2, Over(Only(ri, v), st[2]))
<1> DEFINE f == Over(Only(ri, v), st[2])
           l == acc_ctrl_write_acl(st, it.val, partial)
<1>1. DOMAIN Only(ri, v) # {}
  BY DEF Only
<1>2. (\E code : l = Refuse(st, code)) \/ l = Set(st, 2, f)
  BY <1>1 DEF acc_ctrl_write_acl, IsOne
<1> HIDE DEF f, l
<1>3. CASE it.id = 2
  <2>1. it.id \notin {0, 1} /\ it.id # 3
    BY <1>3
  <2>2. acc_ctrl_write(st, it, create, partial) = l
    BY <1>3, <2>1, Zenon DEF acc_ctrl_write, l, IsOne
  <2> QED
    BY <1>2, <1>3, <2>2, Zenon DEF f
<1>4. CASE it.id # 2
  BY <1>4 DEF acc_ctrl_write, IsOne
<1> QED
  BY <1>3, <1>4

\* It is refused, or one of the rights.
LEMMA OneItemOf ==
    ASSUME NEW o \in Writes, NEW st, NEW it, NEW ri, NEW v, NEW create, NEW partial,
           IsOne(it, ri, v, partial), NEW w, w = write_item(o, st, it, create, partial)
    PROVE  \/ \E code : w = Refuse(st, code)
           \/ o = AccessControl /\ it.id = 2 /\ w = Set(st, 2, Over(Only(ri, v), st[2]))
<1> DEFINE f == Over(Only(ri, v), st[2])
           a == acc_ctrl_write(st, it, create, partial)
<1>1. (\E code : a = Refuse(st, code)) \/ (it.id = 2 /\ a = Set(st, 2, f))
  BY OneRightIs
<1>2. \/ o = AccessControl /\ w = a
      \/ o = Device /\ w = prv_device_write(st, it)
      \/ o = Firmware /\ w = prv_firmware_write(st, it)
      \/ o = Test /\ w = test_write(st, it)
  BY ItemOf
<1>3. it.multi
  BY DEF IsOne
<1>4. \E code : prv_device_write(st, it) = Refuse(st, code)
  BY <1>3, Zenon DEF prv_device_write
<1>5. \E code : prv_firmware_write(st, it) = Refuse(st, code)
  BY <1>3, Zenon DEF prv_firmware_write
<1>6. \E code : test_write(st, it) = Refuse(st, code)
  BY <1>3, Zenon DEF test_write
<1> HIDE DEF f, a
<1>7. (\E code : w = Refuse(st, code)) \/ (o = AccessControl /\ it.id = 2 /\ w = Set(st, 2, f))
  BY <1>1, <1>2, <1>4, <1>5, <1>6, Zenon
<1> QED
  BY <1>7, Zenon DEF f

LEMMA RefusedKept ==
    ASSUME NEW o, NEW st, NEW r, NEW ri, NEW w, \E code : w = Refuse(st, code)
    PROVE  OthersKept(o, st, w.st, r, ri)
<1>1. w.st = st
  BY DEF Refuse
<1> QED
  BY <1>1 DEF OthersKept

LEMMA RightKept ==
    ASSUME NEW st, 2 \in DOMAIN st, NEW ri, NEW v, NEW w, w = Set(st, 2, Over(Only(ri, v), st[2]))
    PROVE  OthersKept(AccessControl, st, w.st, 2, ri)
<1> DEFINE f == Over(Only(ri, v), st[2])
           sv == w.st
<1>1. /\ DOMAIN f = DOMAIN st[2] \cup {ri}
      /\ \A x \in DOMAIN st[2] \ {ri} : f[x] = st[2][x]
  BY DEF Over, Only
<1>2. w = Set(st, 2, f)
  OBVIOUS
<1> HIDE DEF f
<1>3. sv[2] = f
  BY <1>2 DEF Set
<1> HIDE DEF sv
<1>4. ASSUME NEW x \in Nat \ {ri}
      PROVE  /\ set_value(AccessControl, st, 2, x) = set_value(AccessControl, sv, 2, x)
             /\ set_value(AccessControl, st, 2, x) = "2.05" => st[2][x] = sv[2][x]
  <2>1. (x \in DOMAIN f <=> x \in DOMAIN st[2]) /\ DOMAIN f # {}
    BY <1>1
  <2>2. set_value(AccessControl, sv, 2, x) = IF x = None \/ x \in DOMAIN f THEN "2.05" ELSE "4.04"
    BY <1>3, <2>1, RightIs DEF Multiple
  <2>3. set_value(AccessControl, st, 2, x) = IF DOMAIN st[2] = {} THEN "4.04"
          ELSE IF x = None \/ x \in DOMAIN st[2] THEN "2.05" ELSE "4.04"
    BY RightIs DEF Multiple
  <2> QED
    BY <1>1, <1>3, <2>1, <2>2, <2>3, NoneAssumption
<1> QED
  BY <1>4 DEF OthersKept, sv

\* So a write of one instance of a resource keeps the others.
LEMMA OneInstanceIs ==
    ASSUME NEW o \in Writes, NEW st, ResourceList(o) \subseteq DOMAIN st,
           NEW it, NEW ri, NEW v, NEW create, NEW partial, IsOne(it, ri, v, partial),
           NEW w, w = write_item(o, st, it, create, partial)
    PROVE  OthersKept(o, st, w.st, it.id, ri)
<1>1. \/ \E code : w = Refuse(st, code)
      \/ o = AccessControl /\ it.id = 2 /\ w = Set(st, 2, Over(Only(ri, v), st[2]))
  BY OneItemOf
<1>2. o = AccessControl => 2 \in DOMAIN st
  BY RightIs, Zenon
<1> QED
  BY <1>1, <1>2, RefusedKept, RightKept, Zenon

\* What handle_value_changed gives the resource of u, and whether it was refused.
LEMMA ChangeWrites ==
    ASSUME NEW c, NEW u, Len(u) \in 3 .. 4, u[1] \in Writes, u[2] \in DOMAIN c.store[u[1]],
           ResourceList(u[1]) \subseteq DOMAIN c.store[u[1]][u[2]], NEW v,
           NEW d, d = handle_value_changed(c, u, v)
    PROVE  \E y : /\ SetsOrRefuses(y, c.store[u[1]][u[2]], u[3])
                  /\ Len(u) = 4 => OthersKept(u[1], c.store[u[1]][u[2]], y.st, u[3], u[4])
                  /\ d = IF y.code = "2.04"
                         THEN lwm2m_resource_value_changed(Changed(c, u[1], u[2], y.st), u)
                         ELSE IF Changed(c, u[1], u[2], y.st).store = c.store
                         THEN Changed(c, u[1], u[2], y.st)
                         ELSE Silently(c, Changed(c, u[1], u[2], y.st))
<1> DEFINE o == u[1]
           st == c.store[u[1]][u[2]]
           it == [id |-> u[3], multi |-> Len(u) = 4, val |-> IF Len(u) = 4 THEN Only(u[4], v) ELSE v]
           one == <<it>>
           p == "partial"
           w == writeFunc(c, u[1], u[2], one, p)
           e == device_change(st, u[3], v)
           f == FALSE
           t == p = "partial"
           x == write_item(o, st, it, f, t)
<1>1. IsList(one) /\ Len(one) = 1 /\ one[1] = it
  <2> HIDE DEF it
  <2> QED BY DEF IsList, Range
<1>2. w = [code |-> write_resources(o, st, one, f, t).code,
           ctx |-> Changed(c, u[1], u[2], write_resources(o, st, one, f, t).st)]
  BY DEF writeFunc
<1>3. write_resources(o, st, one, f, t) = x
  <2> HIDE DEF one, it, f, t
  <2> QED BY <1>1, WriteOne
<1>4. SetsOrRefuses(x, st, u[3])
  <2>1. it.id = u[3]
    OBVIOUS
  <2> HIDE DEF it, f, t
  <2>2. SetsOrRefuses(x, st, it.id)
    BY OneItemIs
  <2> QED
    BY <2>1, <2>2
<1>11. Len(u) = 4 => OthersKept(o, st, x.st, u[3], u[4])
  <2> SUFFICES ASSUME Len(u) = 4 PROVE OthersKept(o, st, x.st, u[3], u[4])
    OBVIOUS
  <2>1. it.id = u[3] /\ IsOne(it, u[4], v, t)
    BY DEF IsOne
  <2> HIDE DEF it, f, t, st
  <2>2. o \in Writes /\ ResourceList(o) \subseteq DOMAIN st
    BY DEF st
  <2> HIDE DEF o
  <2>3. OthersKept(o, st, x.st, it.id, u[4])
    BY <2>1, <2>2, OneInstanceIs, Zenon
  <2> QED
    BY <2>1, <2>3
\* A resource instance of the device is not found, and so not changed.
<1>12. Len(u) = 4 /\ u[1] = Device => x.code # "4.05"
  <2> SUFFICES ASSUME Len(u) = 4, u[1] = Device PROVE x.code # "4.05"
    OBVIOUS
  <2>1. it.multi
    OBVIOUS
  <2> HIDE DEF it, st, f, t
  <2>2. x = prv_device_write(st, it)
    BY ItemOf DEF Device, AccessControl, Firmware, Test
  <2> HIDE DEF x
  <2> QED
    BY <2>1, <2>2 DEF prv_device_write, Refuse
<1>5. SetsOrRefuses(e, st, u[3])
  BY DeviceChangeIs
<1>6. w = [code |-> x.code, ctx |-> Changed(c, u[1], u[2], x.st)]
  BY <1>2, <1>3
<1> DEFINE y == IF w.code = "4.05" /\ u[1] = Device THEN e ELSE x
           r == IF w.code = "4.05" /\ u[1] = Device
                THEN [code |-> e.code, ctx |-> Changed(c, u[1], u[2], e.st)] ELSE w
<1>7. d = IF r.code = "2.04" THEN lwm2m_resource_value_changed(r.ctx, u)
          ELSE IF r.ctx.store = c.store THEN r.ctx ELSE Silently(c, r.ctx)
  BY DEF handle_value_changed, Instance
<1> HIDE DEF x, e, w, st
<1>8. r = [code |-> y.code, ctx |-> Changed(c, u[1], u[2], y.st)]
  BY <1>6
<1>9. SetsOrRefuses(y, st, u[3]) /\ (Len(u) = 4 => OthersKept(o, st, y.st, u[3], u[4]))
  BY <1>4, <1>5, <1>6, <1>11, <1>12
<1> HIDE DEF y, r
<1>10. d = IF y.code = "2.04" THEN lwm2m_resource_value_changed(Changed(c, u[1], u[2], y.st), u)
           ELSE IF Changed(c, u[1], u[2], y.st).store = c.store THEN Changed(c, u[1], u[2], y.st)
           ELSE Silently(c, Changed(c, u[1], u[2], y.st))
  BY <1>7, <1>8
<1> QED
  BY <1>9, <1>10 DEF st

LEMMA ValueChangedIs ==
    ASSUME NEW c, IsContext(c), Sound(c.observed), AllKept(c),
           NEW u \in Uris, NEW v, NEW d, d = handle_value_changed(c, u, v)
    PROVE  IsContext(d) /\ Sound(d.observed) /\ AllKept(d)
<1>1. CASE Len(u) < 3 \/ u[1] \notin Writes
  <2>1. d = c
    BY <1>1 DEF handle_value_changed
  <2> QED
    BY <2>1
<1>2. CASE u[1] \in Writes /\ u[2] \notin DOMAIN c.store[u[1]]
  <2>1. d = c
    BY <1>2 DEF handle_value_changed, writeFunc
  <2> QED
    BY <2>1
<1>3. CASE ~(Len(u) < 3) /\ u[1] \in Writes /\ u[2] \in DOMAIN c.store[u[1]]
  <2> DEFINE o == u[1]
             i == u[2]
             st == c.store[o][i]
  <2>0. Len(u) \in 3 .. 4
    <3>1. Len(u) \in 1 .. 4
      BY DEF Uris
    <3>2. \A n \in 1 .. 4 : n < 3 \/ n \in 3 .. 4
      OBVIOUS
    <3> QED
      BY <1>3, <3>1, <3>2, Zenon
  <2>1. o \in ObjectIds /\ i \in Nat /\ IsStore(c.store)
    BY <1>3 DEF Writes, ObjectIds, IsContext, IsStore
  <2>4. ResourceList(o) \subseteq DOMAIN st
    BY <1>3, <2>1 DEF IsStore
  <2>2. PICK y : /\ SetsOrRefuses(y, st, u[3])
                 /\ Len(u) = 4 => OthersKept(o, st, y.st, u[3], u[4])
                 /\ d = IF y.code = "2.04" THEN lwm2m_resource_value_changed(Changed(c, o, i, y.st), u)
                        ELSE IF Changed(c, o, i, y.st).store = c.store THEN Changed(c, o, i, y.st)
                        ELSE Silently(c, Changed(c, o, i, y.st))
    BY <1>3, <2>0, <2>4, ChangeWrites
  <2> DEFINE b == Changed(c, o, i, y.st)
  <2>3. /\ DOMAIN y.st = DOMAIN st
        /\ \A x \in DOMAIN st \ {u[3]} : y.st[x] = st[x]
    BY <2>2, SetOrRefused
  <2>5. /\ IsContext(b) /\ b.observed = c.observed
        /\ b.store[o][i] = y.st
        /\ DOMAIN b.store[o] = DOMAIN c.store[o] \cup {i}
        /\ \A j \in DOMAIN c.store[o] \ {i} : b.store[o][j] = c.store[o][j]
        /\ \A p \in ObjectIds \ {o} : b.store[p] = c.store[p]
    <3>1. ResourceList(o) \subseteq DOMAIN y.st
      BY <2>3, <2>4
    <3> HIDE DEF o, i, st
    <3>2. SameWatch(c, Changed(c, o, i, y.st)) /\ HasPut(c, Changed(c, o, i, y.st), o, i, y.st)
      BY <2>1, <3>1, ChangedIs
    <3>3. SameWatch(c, b) /\ HasPut(c, b, o, i, y.st)
      BY <3>2
    <3> HIDE DEF b
    <3> QED
      BY <3>3 DEF SameWatch, HasPut
  <2>6. OneChanged(c, b, o, i, u[3])
    <3> HIDE DEF b, o, i
    <3> QED BY <1>3, <2>3, <2>4, <2>5 DEF OneChanged, o, i
  <2>7. KeptFor(b.observed, c)
    BY <2>5 DEF KeptFor, AllKept
  <2>10. Len(u) = 4 => OthersKept(o, c.store[o][i], b.store[o][i], u[3], u[4])
    BY <2>2, <2>5
  <2>11. \/ y.code = "2.04" /\ d = lwm2m_resource_value_changed(b, u)
         \/ b.store = c.store /\ d = b
         \/ d = Silently(c, b)
    BY <2>2
  <2> HIDE DEF b
  <2>8. CASE y.code = "2.04" /\ d = lwm2m_resource_value_changed(b, u)
    <3>2. \A k \in DOMAIN b.observed : ~Overlap(b.observed[k].uri, u) =>
            object_readData(c, b.observed[k].uri).data = object_readData(b, b.observed[k].uri).data
      <4> SUFFICES ASSUME NEW k \in DOMAIN b.observed, ~Overlap(b.observed[k].uri, u)
                   PROVE  object_readData(c, b.observed[k].uri) = object_readData(b, b.observed[k].uri)
        OBVIOUS
      <4>1. b.observed[k].uri \in Uris /\ b.observed[k].uri[1] \in ObjectIds
        BY <2>5 DEF IsContext, IsObserved, IsEntry
      <4> QED
        BY <2>0, <2>1, <2>6, <2>10, <4>1, Unseen
    <3>3. Sound(b.observed) /\ IsContext(b)
      BY <2>5
    <3>4. IsContext(d) /\ Sound(d.observed)
      BY <2>8, <3>3, TagIs
    <3>5. AllKept(d)
      BY <2>7, <2>8, <3>2, <3>3, TagIs
    <3> QED
      BY <3>4, <3>5
  <2>9. CASE b.store = c.store /\ d = b
    <3>1. \A z : object_readData(b, z) = object_readData(c, z)
      BY <2>9, ReadOfStore
    <3>2. AllKept(b)
      BY <2>7, <3>1 DEF KeptFor, AllKept
    <3>3. IsContext(b) /\ Sound(b.observed)
      BY <2>5
    <3> QED
      BY <2>9, <3>2, <3>3
  <2>12. CASE d = Silently(c, b)
    BY <2>5, <2>7, <2>12, SilentlyIs
  <2> QED
    BY <2>8, <2>9, <2>11, <2>12
<1> QED
  BY <1>1, <1>2, <1>3

\* The change command of the client.
LEMMA ChangeIs ==
    ASSUME NEW c, IsContext(c), Sound(c.observed), AllKept(c),
           NEW u \in Uris, NEW v, NEW d, d = prv_change(c, u, v)
    PROVE  IsContext(d) /\ Sound(d.observed) /\ AllKept(d)
<1>1. CASE v = None
  <2>1. d = lwm2m_resource_value_changed(c, u)
    BY <1>1 DEF prv_change
  <2>2. KeptFor(c.observed, c)
    BY DEF KeptFor, AllKept
  <2> QED
    BY <2>1, <2>2, TagIs
<1>2. CASE v # None
  BY <1>2, ValueChangedIs DEF prv_change
<1> QED
  BY <1>1, <1>2
-----------------------------------------------------------------------------
(* The invariant                                                            *)

DmInv ==
    /\ IsContext(ctx)
    /\ Sound(ctx.observed)
    /\ AllKept(ctx)
    /\ wake \in 0 .. MaxWait
    /\ wake > 0 => WakesInTime(ctx, wake)
    /\ prelude \in Seq(Servers \X Requests)

LEMMA InitialStoreIs ==
    IsStore(InitialStore)
<1> USE DEF AccessControl, Device, ConnMonitor, Firmware, Location, ConnStat, Test
<1> DEFINE S == InitialStore
<1>1. IsFunction(S) /\ DOMAIN S = ObjectIds
  <2> DEFINE V(o) ==
        CASE o = AccessControl ->
               Only(0, [acc_ctrl_new EXCEPT ![0] = 3, ![2] = [k \in {0, 999} |-> 1]])
          [] o = Device        -> Only(0, get_object_device)
          [] o = ConnMonitor   -> Only(0, get_object_conn_m)
          [] o = Firmware      -> Only(0, get_object_firmware)
          [] o = Location      -> Only(0, get_object_location)
          [] o = ConnStat      -> Only(0, get_object_conn_s)
          [] o = Test          -> [i \in {10, 11, 12} |-> test_new]
  <2> HIDE DEF AccessControl, Device, ConnMonitor, Firmware, Location, ConnStat, Test
  <2>1. S = [o \in ObjectIds |-> V(o)]
    BY DEF InitialStore
  <2> HIDE DEF S, V
  <2> QED
    BY <2>1 DEF IsFunction
<1>2. \A st : /\ IsFunction(Only(0, st)) /\ DOMAIN Only(0, st) = {0}
              /\ IsFiniteSet(DOMAIN Only(0, st)) /\ Only(0, st)[0] = st
  BY FS_Singleton DEF Only, IsFunction
<1> DEFINE Fine(o) == /\ IsFunction(S[o])
                      /\ DOMAIN S[o] \in SUBSET Nat /\ IsFiniteSet(DOMAIN S[o])
                      /\ \A i \in DOMAIN S[o] : ResourceList(o) \subseteq DOMAIN S[o][i]
<1>3. ASSUME NEW o, NEW st, S[o] = Only(0, st), ResourceList(o) \subseteq DOMAIN st PROVE Fine(o)
  <2> HIDE DEF S
  <2> QED BY <1>2, <1>3
<1>4. Fine(AccessControl)
  <2> DEFINE st == [acc_ctrl_new EXCEPT ![0] = 3, ![2] = [k \in {0, 999} |-> 1]]
  <2>1. S[AccessControl] = Only(0, st)
    BY DEF InitialStore, ObjectIds
  <2>2. ResourceList(AccessControl) \subseteq DOMAIN st
    BY DEF ResourceList, acc_ctrl_read, acc_ctrl_new
  <2> HIDE DEF st, S, Fine
  <2> QED BY <1>3, <2>1, <2>2
<1>5. Fine(Device)
  <2>1. S[Device] = Only(0, get_object_device)
    BY DEF InitialStore, ObjectIds
  <2>2. ResourceList(Device) \subseteq DOMAIN get_object_device
    BY DEF ResourceList, prv_device_read, get_object_device
  <2> HIDE DEF S, Fine
  <2> QED BY <1>3, <2>1, <2>2
<1>6. Fine(ConnMonitor)
  <2>1. S[ConnMonitor] = Only(0, get_object_conn_m)
    BY DEF InitialStore, ObjectIds
  <2>2. ResourceList(ConnMonitor) \subseteq DOMAIN get_object_conn_m
    BY DEF ResourceList, conn_m_read, get_object_conn_m
  <2> HIDE DEF S, Fine
  <2> QED BY <1>3, <2>1, <2>2
<1>7. Fine(Firmware)
  <2>1. S[Firmware] = Only(0, get_object_firmware)
    BY DEF InitialStore, ObjectIds
  <2>2. ResourceList(Firmware) \subseteq DOMAIN get_object_firmware
    BY DEF ResourceList, prv_firmware_read, get_object_firmware
  <2> HIDE DEF S, Fine
  <2> QED BY <1>3, <2>1, <2>2
<1>8. Fine(Location)
  <2>1. S[Location] = Only(0, get_object_location)
    BY DEF InitialStore, ObjectIds
  <2>2. ResourceList(Location) \subseteq DOMAIN get_object_location
    BY DEF ResourceList, prv_location_read, get_object_location
  <2> HIDE DEF S, Fine
  <2> QED BY <1>3, <2>1, <2>2
<1>9. Fine(ConnStat)
  <2>1. S[ConnStat] = Only(0, get_object_conn_s)
    BY DEF InitialStore, ObjectIds
  <2>2. ResourceList(ConnStat) \subseteq DOMAIN get_object_conn_s
    BY DEF ResourceList, conn_s_read, get_object_conn_s
  <2> HIDE DEF S, Fine
  <2> QED BY <1>3, <2>1, <2>2
<1>10. Fine(Test)
  <2>1. S[Test] = [i \in {10, 11, 12} |-> test_new]
    BY DEF InitialStore, ObjectIds
  <2>2. ResourceList(Test) \subseteq DOMAIN test_new
    BY DEF ResourceList, test_read, test_new
  <2>3. IsFiniteSet({10, 11, 12})
    <3>1. IsFiniteSet({10}) /\ {10, 11, 12} = ({10} \cup {11}) \cup {12}
      BY FS_Singleton
    <3>2. IsFiniteSet({10} \cup {11})
      BY <3>1, FS_AddElement
    <3> QED
      BY <3>1, <3>2, FS_AddElement
  <2> HIDE DEF S
  <2> QED BY <2>1, <2>2, <2>3 DEF IsFunction
<1> HIDE DEF Fine
<1>11. \A o \in ObjectIds : Fine(o)
  BY <1>4, <1>5, <1>6, <1>7, <1>8, <1>9, <1>10 DEF ObjectIds
<1> HIDE DEF S
<1> QED
  BY <1>1, <1>11 DEF IsStore, Fine, S

LEMMA InitInv == Init => DmInv
<1> SUFFICES ASSUME Init PROVE DmInv
  OBVIOUS
<1>1. IsContext(ctx)
  <2>1. IsObserved(<<>>)
    BY DEF IsObserved, IsList
  <2>2. ctx.store = InitialStore /\ ctx.observed = <<>> /\ ctx.nextMID = 0
        /\ ctx \in [store : {ctx.store}, observed : {ctx.observed}, nextMID : Mids]
    BY BoundAssumption DEF Init, Mids
  <2> QED
    BY <2>1, <2>2, InitialStoreIs DEF IsContext
<1>2. Sound(ctx.observed) /\ AllKept(ctx)
  BY DEF Init, Sound, Apart, AllKept
<1>3. wake = 0 /\ wake \in 0 .. MaxWait /\ prelude \in Seq(Servers \X Requests)
  BY BoundAssumption, RequestAssumption DEF Init
<1> QED
  BY <1>1, <1>2, <1>3 DEF DmInv

LEMMA HandlePreserves ==
    ASSUME DmInv, NEW s \in Servers, NEW q \in Requests, NEW mid \in ServerMids, Handle(s, q, mid)
    PROVE  IsContext(ctx') /\ Sound(ctx'.observed) /\ AllKept(ctx') /\ wake' = 0
<1>1. IsContext(ctx) /\ Sound(ctx.observed) /\ AllKept(ctx)
  BY DEF DmInv
<1>2. IsRequest(q) /\ mid \in Mids
  BY RequestsAre, BoundAssumption DEF Mids
<1> DEFINE r == dm_handleRequest(ctx, s, q, mid)
<1>3. ctx' = (IF r.ctx.store = ctx.store THEN r.ctx ELSE Silently(ctx, r.ctx)) /\ wake' = 0
  BY DEF Handle
<1> HIDE DEF r
<1> QED
  BY <1>1, <1>2, <1>3, HandleIs DEF r

LEMMA NextInv == DmInv /\ [Next]_vars => DmInv'
<1> SUFFICES ASSUME DmInv, [Next]_vars PROVE DmInv'
  OBVIOUS
<1>0. /\ IsContext(ctx) /\ Sound(ctx.observed) /\ AllKept(ctx) /\ wake \in 0 .. MaxWait
      /\ (wake > 0 => WakesInTime(ctx, wake)) /\ prelude \in Seq(Servers \X Requests)
  BY DEF DmInv
\* Every action but Step and Tick sets the timer to 0.
<1>a. ASSUME IsContext(ctx'), Sound(ctx'.observed), AllKept(ctx'), wake' = 0,
             prelude' \in Seq(Servers \X Requests)
      PROVE  DmInv'
  BY <1>a, BoundAssumption DEF DmInv
<1>1. CASE Prelude
  <2>1. prelude # <<>> /\ prelude' = Tail(prelude)
    BY <1>1 DEF Prelude
  <2>2. Head(prelude) \in Servers \X Requests /\ Tail(prelude) \in Seq(Servers \X Requests)
    BY <1>0, <2>1
  <2>3. Head(prelude)[1] \in Servers /\ Head(prelude)[2] \in Requests
    BY <2>2
  <2>4. PICK mid \in ServerMids : Handle(Head(prelude)[1], Head(prelude)[2], mid)
    BY <1>1 DEF Prelude
  <2>5. IsContext(ctx') /\ Sound(ctx'.observed) /\ AllKept(ctx') /\ wake' = 0
    BY <2>3, <2>4, HandlePreserves
  <2> QED
    BY <1>a, <2>1, <2>2, <2>5
<1>2. CASE Request
  <2>1. PICK s \in Servers, q \in Requests, mid \in ServerMids : Handle(s, q, mid)
    BY <1>2 DEF Request
  <2>2. IsContext(ctx') /\ Sound(ctx'.observed) /\ AllKept(ctx') /\ wake' = 0
    BY <2>1, HandlePreserves
  <2>3. prelude' = prelude
    BY <1>2 DEF Request
  <2> QED
    BY <1>0, <1>a, <2>2, <2>3
<1>3. CASE Reset
  <2>1. PICK s \in Servers, mid \in 0 .. MidSpan - 1 : ctx' = observe_cancel(ctx, mid, s)
    BY <1>3 DEF Reset
  <2>2. /\ IsContext(ctx') /\ ctx'.store = ctx.store /\ Sound(ctx'.observed)
        /\ Within(ctx'.observed, ctx.observed)
    BY <1>0, <2>1, CancelIs
  <2>3. AllKept(ctx')
    BY <1>0, <2>2, FewerAreKept
  <2>4. wake' = 0 /\ prelude' = prelude
    BY <1>3 DEF Reset
  <2> QED
    BY <1>0, <1>a, <2>2, <2>3, <2>4
<1>4. CASE ValueChanged
  <2>1. PICK ch \in Changes : ctx' = prv_change(ctx, ch.uri, ch.val)
    BY <1>4 DEF ValueChanged
  <2>2. ch.uri \in Uris
    BY RequestAssumption DEF Uris
  <2>3. IsContext(ctx') /\ Sound(ctx'.observed) /\ AllKept(ctx')
    BY <1>0, <2>1, <2>2, ChangeIs
  <2>4. wake' = 0 /\ prelude' = prelude
    BY <1>4 DEF ValueChanged
  <2> QED
    BY <1>0, <1>a, <2>3, <2>4
<1>5. CASE Step
  <2>1. ctx' = observe_step(ctx) /\ wake' = Min(ObserveWakes(ctx, ctx') \cup {MaxWait})
        /\ prelude' = prelude
    BY <1>5 DEF Step
  <2>2. IsContext(ctx') /\ Sound(ctx'.observed) /\ AllKept(ctx')
    BY <1>0, <2>1, StepIs
  <2>3. wake' \in 0 .. MaxWait /\ WakesInTime(ctx', wake')
    BY <1>0, <2>1, StepWakes
  <2> QED
    BY <1>0, <2>1, <2>2, <2>3 DEF DmInv
<1>6. CASE Tick
  <2>1. ctx' = Elapsed(ctx) /\ wake > 0 /\ wake' = wake - 1 /\ prelude' = prelude
    BY <1>6 DEF Tick, Elapsed
  <2>2. wake \in Nat /\ MaxWait \in Nat
    BY <1>0, BoundAssumption
  <2>3. IsContext(ctx') /\ Sound(ctx'.observed) /\ AllKept(ctx') /\ WakesInTime(ctx', wake - 1)
    BY <1>0, <2>1, <2>2, OlderIs
  <2>4. wake' \in 0 .. MaxWait
    BY <1>0, <2>1, <2>2
  <2> QED
    BY <1>0, <2>1, <2>3, <2>4 DEF DmInv
<1>7. CASE UNCHANGED vars
  BY <1>0, <1>7 DEF vars, DmInv
<1> QED
  BY <1>1, <1>2, <1>3, <1>4, <1>5, <1>6, <1>7 DEF Next

LEMMA InvHolds == Spec => []DmInv
  BY InitInv, NextInv, PTL DEF Spec

-----------------------------------------------------------------------------
(* Refused requests                                                         *)

\* The one refused item that leaves a trace: a text for the float of a test instance.
IsFloatText(o, it) == o = Test /\ ~it.multi /\ it.id = 3 /\ it.val = Bad

LEMMA WriteRefused ==
    ASSUME NEW o \in Writes, NEW st, NEW it, NEW create, NEW partial,
           write_item(o, st, it, create, partial).code # "2.04"
    PROVE  \/ write_item(o, st, it, create, partial).st = st
           \/ IsFloatText(o, it) /\ write_item(o, st, it, create, partial).st = FloatLost(st)
<1>1. acc_ctrl_write(st, it, create, partial).code # "2.04" => acc_ctrl_write(st, it, create, partial).st = st
  <2>1. acc_ctrl_write_acl(st, it.val, partial).code # "2.04" => acc_ctrl_write_acl(st, it.val, partial).st = st
    BY DEF acc_ctrl_write_acl, Set, Refuse
  <2> QED
    BY <2>1 DEF acc_ctrl_write, Set, Refuse
<1>2. prv_device_write(st, it).code # "2.04" => prv_device_write(st, it).st = st
  BY DEF prv_device_write, Set, Refuse
<1>3. prv_firmware_write(st, it).code # "2.04" => prv_firmware_write(st, it).st = st
  BY DEF prv_firmware_write, Set, Refuse
<1>4. test_write(st, it).code # "2.04" =>
        test_write(st, it).st = st \/ (IsFloatText(Test, it) /\ test_write(st, it).st = FloatLost(st))
  <2> DEFINE g == FloatLost(st)
  <2> HIDE DEF g
  <2> QED BY DEF test_write, Set, Refuse, IsFloatText, g
<1> QED
  BY <1>1, <1>2, <1>3, <1>4 DEF write_item, Writes, AccessControl, Device, Firmware, Test

LEMMA ExecuteRefused ==
    ASSUME NEW o \in Executes, NEW st, NEW r, NEW args, executeFunc(o, st, r, args).code # "2.04"
    PROVE  executeFunc(o, st, r, args).st = st
<1>1. prv_device_execute(st, r, args).code # "2.04" => prv_device_execute(st, r, args).st = st
  BY DEF prv_device_execute, Set, Refuse
<1>2. prv_firmware_execute(st, r, args).code # "2.04" => prv_firmware_execute(st, r, args).st = st
  BY DEF prv_firmware_execute, Set, Refuse
<1>3. conn_s_exec(st, r, args).code # "2.04" => conn_s_exec(st, r, args).st = st
  BY DEF conn_s_exec, Refuse
<1>4. test_exec(st, r).code # "2.04" => test_exec(st, r).st = st
  BY DEF test_exec, Refuse
<1> QED
  BY <1>1, <1>2, <1>3, <1>4 DEF executeFunc, Executes, Device, Firmware, ConnStat, Test

\* The objects after a refused write of items to object o.
Traceless(c, d, o, items) ==
    \/ d.store = c.store
    \/ /\ IsFloatText(o, items[1])
       /\ \E i \in DOMAIN c.store[Test] :
            d.store = [c.store EXCEPT ![Test][i] = FloatLost(@)]

LEMMA FloatLostIs ==
    ASSUME NEW c, IsContext(c), NEW i \in DOMAIN c.store[Test], NEW st,
           NEW d, d = Changed(c, Test, i, st)
    PROVE  d.store = [c.store EXCEPT ![Test][i] = st]
<1> DEFINE S == c.store
           f == Over(Only(i, st), S[Test])
           g == [S[Test] EXCEPT ![i] = st]
<1>1. d.store = [S EXCEPT ![Test] = f]
  BY DEF IsContext, Changed
<1>2. f = [j \in DOMAIN S[Test] |-> IF j = i THEN st ELSE S[Test][j]]
  BY DEF Over, Only
<1>3. f = g
  <2> HIDE DEF f, S
  <2> QED BY <1>2 DEF S
<1> QED
  BY <1>1, <1>3

\* A write of resources with a payload of one item.
LEMMA RefusedWrite ==
    ASSUME NEW c, IsContext(c), NEW o \in Writes, NEW i, NEW items, IsList(items), Len(items) = 1,
           NEW type, type # "replaceInstance",
           NEW r, r = writeFunc(c, o, i, items, type), r.code # "2.04"
    PROVE  Traceless(c, r.ctx, o, items)
<1> DEFINE f == FALSE
           t == type = "partial"
           w == write_resources(o, c.store[o][i], items, f, t)
<1>1. CASE i \notin DOMAIN c.store[o]
  BY <1>1 DEF writeFunc, Traceless
<1>2. CASE i \in DOMAIN c.store[o]
  <2>1. r = [code |-> w.code, ctx |-> Changed(c, o, i, w.st)]
    BY <1>2 DEF writeFunc
  <2> HIDE DEF f, t
  <2>2. w = write_item(o, c.store[o][i], items[1], f, t)
    BY WriteOne
  <2>3. w.code # "2.04"
    BY <2>1
  <2>4. w.st = c.store[o][i] \/ (IsFloatText(o, items[1]) /\ w.st = FloatLost(c.store[o][i]))
    BY <2>2, <2>3, WriteRefused
  <2> HIDE DEF w
  <2>5. CASE w.st = c.store[o][i]
    <3>1. r.ctx = Changed(c, o, i, c.store[o][i]) /\ o \in ObjectIds
      BY <2>1, <2>5 DEF Writes, ObjectIds
    <3> QED
      BY <1>2, <3>1, ChangedSame DEF Traceless
  <2>6. CASE IsFloatText(o, items[1]) /\ w.st = FloatLost(c.store[o][i])
    <3>1. o = Test /\ i \in DOMAIN c.store[Test]
      BY <1>2, <2>6 DEF IsFloatText
    <3>2. r.ctx = Changed(c, Test, i, FloatLost(c.store[Test][i]))
      BY <2>1, <2>6, <3>1
    <3> DEFINE st == FloatLost(c.store[Test][i])
    <3>3. r.ctx.store = [c.store EXCEPT ![Test][i] = st]
      <4> HIDE DEF st
      <4> QED BY <3>1, <3>2, FloatLostIs DEF st
    <3>4. \E j \in DOMAIN c.store[Test] :
            r.ctx.store = [c.store EXCEPT ![Test][j] = FloatLost(@)]
      BY <3>1, <3>3, Zenon
    <3> QED
      BY <2>6, <3>4 DEF Traceless
  <2> QED
    BY <2>4, <2>5, <2>6
<1> QED
  BY <1>1, <1>2

LEMMA RefusedObjectWrite ==
    ASSUME NEW c, IsContext(c), NEW u \in Uris, NEW items, IsList(items), Len(items) <= 1, NEW partial,
           partial \/ Len(u) # 2,
           NEW r, r = object_write(c, u, items, partial), r.code # "2.04"
    PROVE  r.ctx.store = c.store \/ (items # <<>> /\ Traceless(c, r.ctx, u[1], items))
<1> DEFINE sent == IF Len(u) = 4
                   THEN <<[id |-> u[3], multi |-> TRUE, val |-> Only(u[4], items[1].val)]>>
                   ELSE items
           type == IF partial \/ Len(u) = 4 THEN "partial"
                   ELSE IF Len(u) = 3 THEN "replaceResources" ELSE "replaceInstance"
<1>1. \A x : IsList(<<x>>) /\ Len(<<x>>) = 1
  BY DEF IsList, Range
<1>2. \/ r.ctx = c
      \/ /\ u[1] \in Writes /\ items # <<>> /\ Len(u) >= 2
         /\ r = writeFunc(c, u[1], u[2], sent, type)
  <2>1. CASE Len(u) < 2
    BY <2>1 DEF object_write
  <2>2. CASE Len(u) >= 2 /\ u[1] \notin ObjectIds
    BY <2>2 DEF object_write
  <2>3. CASE Len(u) >= 2 /\ u[1] \in ObjectIds \ Writes
    BY <2>3 DEF object_write
  <2>4. CASE ~(Len(u) < 2) /\ ~(Len(u) >= 2 /\ u[1] \notin ObjectIds)
             /\ ~(Len(u) >= 2 /\ u[1] \in ObjectIds \ Writes)
    BY <2>4 DEF object_write, Writes
  <2> QED
    BY <2>1, <2>2, <2>3, <2>4
<1>3. CASE r.ctx = c
  BY <1>3
<1>4. CASE /\ u[1] \in Writes /\ items # <<>> /\ Len(u) >= 2
           /\ r = writeFunc(c, u[1], u[2], sent, type)
  <2>1. Len(items) = 1
    BY <1>4 DEF IsList
  <2>2. IsList(sent) /\ Len(sent) = 1
    BY <1>1, <2>1
  <2>3. type # "replaceInstance"
    BY <1>4 DEF Uris
  <2>5. Len(u) = 4 => ~IsFloatText(u[1], sent[1])
    BY DEF IsFloatText
  <2>6. Len(u) # 4 => sent = items
    OBVIOUS
  <2> HIDE DEF sent, type
  <2>4. Traceless(c, r.ctx, u[1], sent)
    BY <1>4, <2>2, <2>3, RefusedWrite
  <2> QED
    BY <1>4, <2>4, <2>5, <2>6 DEF Traceless
<1> QED
  BY <1>2, <1>3, <1>4

LEMMA RefusedExecute ==
    ASSUME NEW c, IsContext(c), NEW u, NEW args, NEW r, r = object_execute(c, u, args),
           r.code # "2.04"
    PROVE  r.ctx.store = c.store
<1> DEFINE o == u[1]
           i == u[2]
           w == executeFunc(o, c.store[o][i], u[3], args)
<1>1. CASE o \notin ObjectIds \/ o \notin Executes \/ ~HasInstance(c, u)
  BY <1>1 DEF object_execute
<1>2. CASE o \in ObjectIds /\ o \in Executes /\ HasInstance(c, u)
  <2>1. r = [code |-> w.code, ctx |-> Changed(c, o, i, w.st)]
    BY <1>2 DEF object_execute, Instance
  <2>2. w.code # "2.04" /\ i \in DOMAIN c.store[o]
    BY <1>2, <2>1 DEF HasInstance
  <2>3. w.st = c.store[o][i]
    BY <1>2, <2>2, ExecuteRefused
  <2> HIDE DEF w
  <2>4. r.ctx = Changed(c, o, i, c.store[o][i])
    BY <2>1, <2>3
  <2> HIDE DEF o, i
  <2> QED
    BY <1>2, <2>2, <2>4, ChangedSame
<1> QED
  BY <1>1, <1>2

LEMMA RefusedIs ==
    ASSUME DmInv, NEW s, NEW mid, NEW q \in Requests, q.op \in {"post", "put", "delete"}, ~q.query,
           NEW r, r = dm_handleRequest(ctx, s, q, mid),
           r.code \notin {"2.01", "2.02", "2.04", "2.05"},
           Len(q.items) <= 1, ~(q.op = "put" /\ Len(q.uri) = 2)
    PROVE  r.ctx.store = ctx.store \/ (q.items # <<>> /\ Traceless(ctx, r.ctx, q.uri[1], q.items))
<1>1. IsContext(ctx) /\ Sound(ctx.observed) /\ AllKept(ctx)
  BY DEF DmInv
<1>2. /\ q.uri \in Uris /\ IsList(q.items) /\ (q.id \in {None, Bad} \/ q.id \in Nat)
  BY RequestsAre DEF IsRequest
<1>3. CASE q.uri[1] = 0
  BY <1>3 DEF dm_handleRequest
<1>4. CASE q.uri[1] # 0 /\ q.op = "post"
  <2>1. r = Posts(ctx, q)
    BY <1>4 DEF dm_handleRequest
  <2>2. CASE Len(q.uri) = 1
    <3>1. r = object_create(ctx, q.uri, q.id, q.items)
      BY <2>1, <2>2 DEF Posts
    <3> QED
      BY <1>1, <1>2, <3>1, ObjectCreateIs
  <2>3. CASE Len(q.uri) > 1 /\ q.plain
    <3> DEFINE x == object_execute(ctx, q.uri, q.args)
    <3>1. r = IF Len(q.uri) = 3 THEN x ELSE [code |-> "4.00", ctx |-> ctx]
      <4>1. Len(q.uri) # 1
        <5>1. \A n \in Nat : n > 1 => n # 1
          OBVIOUS
        <5>2. Len(q.uri) \in Nat
          BY <1>2 DEF Uris
        <5> QED
          BY <2>3, <5>1, <5>2, Zenon
      <4> QED
        BY <2>1, <2>3, <4>1, Zenon DEF Posts
    <3>2. x.code # "2.04" => x.ctx.store = ctx.store
      BY <1>1, RefusedExecute
    <3> HIDE DEF x
    <3> QED
      BY <3>1, <3>2
  <2>4. CASE Len(q.uri) # 1 /\ ~(Len(q.uri) > 1 /\ q.plain)
    <3> DEFINE t == TRUE
    <3>1. r = object_write(ctx, q.uri, q.items, t)
      BY <2>1, <2>4, Zenon DEF Posts
    <3>2. t \/ Len(q.uri) # 2
      OBVIOUS
    <3> HIDE DEF t
    <3> QED
      BY <1>1, <1>2, <3>1, <3>2, RefusedObjectWrite
  <2> QED
    BY <2>2, <2>3, <2>4
<1>5. CASE q.uri[1] # 0 /\ q.op = "put"
  <2>1. r = Puts(ctx, s, q)
    BY <1>5 DEF dm_handleRequest
  <2> DEFINE f == FALSE
  <2>2. \/ r.ctx = ctx
        \/ Len(q.uri) >= 2 /\ r = object_write(ctx, q.uri, q.items, f)
    <3> DEFINE x == object_write(ctx, q.uri, q.items, f)
    <3>1. r = IF Len(q.uri) >= 2 THEN x ELSE [code |-> "4.00", ctx |-> ctx]
      BY <2>1, Zenon DEF Puts
    <3> HIDE DEF x
    <3>2. r.ctx = ctx \/ (Len(q.uri) >= 2 /\ r = x)
      BY <3>1
    <3> QED
      BY <3>2, Zenon DEF x
  <2> HIDE DEF f
  <2>3. CASE r.ctx = ctx
    BY <2>3
  <2>4. CASE Len(q.uri) >= 2 /\ r = object_write(ctx, q.uri, q.items, f)
    BY <1>1, <1>2, <1>5, <2>4, RefusedObjectWrite
  <2> QED
    BY <2>2, <2>3, <2>4
<1>6. CASE q.uri[1] # 0 /\ q.op = "delete"
  <2>1. r = Deletes(ctx, q)
    BY <1>6 DEF dm_handleRequest
  <2>2. r.ctx = ctx \/ r = object_delete(ctx, q.uri)
    BY <2>1 DEF Deletes
  <2> QED
    BY <1>1, <2>2, DeleteIs
<1> QED
  BY <1>3, <1>4, <1>5, <1>6

-----------------------------------------------------------------------------
(* Theorems *)

\* The lists and the counters of a client that manages objects have their types: a
\* message ID stays within MidSpan, an entry is of an object there is, and the main
\* loop sleeps MaxWait seconds at most.
THEOREM DeviceTypes == Spec => []TypeOK
<1>1. DmInv => TypeOK
  <2> SUFFICES ASSUME DmInv PROVE TypeOK
    OBVIOUS
  <2>1. /\ DOMAIN ctx.store = ObjectIds /\ ctx.nextMID \in Mids /\ wake \in 0 .. MaxWait
        /\ \A k \in DOMAIN ctx.observed : IsEntry(ctx.observed[k])
    BY DEF DmInv, IsContext, IsStore, IsObserved
  <2>2. \A e \in Entries : e.uri[1] \in ObjectIds /\ Len(e.uri) \in 1 .. 4
    BY <2>1 DEF Entries, Range, IsEntry, Uris
  <2>3. ASSUME NEW w \in Watchers PROVE IsWatcher(w)
    <3>1. PICK k \in DOMAIN ctx.observed : w \in Range(ctx.observed[k].watchers)
      BY <2>3 DEF Watchers
    <3> QED
      BY <2>1, <3>1 DEF IsEntry, Range
  <2>4. \A w \in Watchers :
          /\ w.server \in Servers
          /\ w.active \in BOOLEAN /\ w.update \in BOOLEAN /\ w.silent \in BOOLEAN
          /\ w.lastTime \in -Horizon .. 0 /\ w.lastMid \in 0 .. MidSpan - 1
          /\ w.params # None => w.params.set \subseteq {"pmin", "pmax"} \cup Thresholds
    BY <2>3 DEF IsWatcher, IsParams, Flags, Mids
  <2> QED
    BY <2>1, <2>2, <2>4 DEF TypeOK, Mids
<1> QED
  BY <1>1, InvHolds, PTL

\* After every sequence of requests, resets, cancellations, deletions and failed
\* attribute writes, no entry of observedList is empty (observe_cancel reads its first
\* watcher unchecked), no entry has two watchers of a server, and no URI two entries.
THEOREM ObservedListIsSound == Spec => []EntriesSound
<1>1. DmInv => EntriesSound
  BY DEF DmInv, EntriesSound, Sound, SoundEntry, Apart, Entries, Range
<1> QED
  BY <1>1, InvHolds, PTL

\* A value the application reports with lwm2m_resource_value_changed is told to every
\* watcher, or marked to be: neither later requests nor observe_step lose it.
THEOREM ReportedChangesAreKept == Spec => []NoChangeLost
<1>1. DmInv => NoChangeLost
  BY DEF DmInv, NoChangeLost, AllKept, Kept, Entries, Range
<1> QED
  BY <1>1, InvHolds, PTL

\* observe_step has the main loop wake up before the maximal period of a watcher is
\* over, however long MaxWait is and whatever the periods are.
THEOREM MaximalPeriodsAreKept == Spec => []PmaxKept
<1>1. DmInv => PmaxKept
  <2> SUFFICES ASSUME DmInv, NEW e \in Entries, NEW n \in DOMAIN e.watchers,
                      wake > 0, e.watchers[n].active, "pmax" \in Params(e.watchers[n]).set,
                      object_readData(ctx, e.uri).code = "2.05"
               PROVE  e.watchers[n].lastTime + Params(e.watchers[n]).pmax > now
    BY DEF PmaxKept
  <2>1. PICK k \in DOMAIN ctx.observed : e = ctx.observed[k]
    BY DEF Entries, Range
  <2>2. wake <= e.watchers[n].lastTime + Params(e.watchers[n]).pmax /\ wake \in Nat
    BY <2>1, BoundAssumption DEF DmInv, WakesInTime
  <2>3. IsWatcher(e.watchers[n])
    BY <2>1 DEF DmInv, IsContext, IsObserved, IsEntry
  <2>4. e.watchers[n].lastTime \in Int /\ Params(e.watchers[n]).pmax \in Nat
    BY <2>3, ParamsAre DEF IsParams
  <2> QED
    BY <2>2, <2>4 DEF now
<1> QED
  BY <1>1, InvHolds, PTL

\* In no state does a refused create, write, execute or delete leave a trace in the
\* objects (a payload of one item, no replacement of an instance) but one: a text that
\* is no number makes the float of a test instance 0, and changes nothing else.
THEOREM RefusalsLeaveNoTrace == Spec => []RefusedChangesNothing
<1>1. DmInv => RefusedChangesNothing
  <2> SUFFICES ASSUME DmInv, NEW q \in Requests, q.op \in {"post", "put", "delete"}, ~q.query,
                      dm_handleRequest(ctx, CHOOSE s \in Servers : TRUE, q, 0).code
                        \notin {"2.01", "2.02", "2.04", "2.05"},
                      Len(q.items) <= 1, ~(q.op = "put" /\ Len(q.uri) = 2)
               PROVE  LET r == dm_handleRequest(ctx, CHOOSE s \in Servers : TRUE, q, 0)
                      IN  \/ r.ctx.store = ctx.store
                          \/ /\ q.items # <<>> /\ q.items[1].id = 3 /\ q.items[1].val = Bad
                             /\ \E i \in DOMAIN ctx.store[Test] :
                                  r.ctx.store = [ctx.store EXCEPT ![Test][i] = FloatLost(@)]
    BY DEF RefusedChangesNothing
  <2> DEFINE r == dm_handleRequest(ctx, CHOOSE s \in Servers : TRUE, q, 0)
  <2>1. r.ctx.store = ctx.store \/ (q.items # <<>> /\ Traceless(ctx, r.ctx, q.uri[1], q.items))
    BY RefusedIs
  <2> HIDE DEF r
  <2>2. \/ r.ctx.store = ctx.store
        \/ /\ q.items # <<>> /\ q.items[1].id = 3 /\ q.items[1].val = Bad
           /\ \E i \in DOMAIN ctx.store[Test] :
                r.ctx.store = [ctx.store EXCEPT ![Test][i] = FloatLost(@)]
    BY <2>1 DEF Traceless, IsFloatText
  <2> QED
    BY <2>2 DEF r
<1> QED
  BY <1>1, InvHolds, PTL
============================================================================
