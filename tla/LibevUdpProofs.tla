--------------------------- MODULE LibevUdpProofs ---------------------------
(***************************************************************************)
(* For any number of clients and families and a cache of any size: the     *)
(* cache, the descriptors and the watchers of the UDP relay agree, no      *)
(* association serves two clients, and none is freed without a reason.     *)
(***************************************************************************)
EXTENDS LibevUdp, TLAPS, SequenceTheorems, FiniteSetTheorems, WellFoundedInduction

Entry == [key : Family \X Client, ctx : Descriptor]

Typed ==
    /\ socket \in {"open", "closed"}
    /\ cache \in Seq(Entry)
    /\ fds \in SUBSET Descriptor
    /\ src \in [Descriptor -> Client \cup {NoClient}]
    /\ asked \in [Descriptor -> SUBSET Client]
    /\ quiet \in BOOLEAN

IInv == Typed /\ CachedOnce /\ OwnAnswers

USE CapacityAssumption, FamilyAssumption DEF Descriptor

-----------------------------------------------------------------------------
(* A set of numbers that is not empty has a lowest one.                    *)
LEMMA LowestIsIn ==
    ASSUME NEW S \in SUBSET Nat, S # {}
    PROVE  Lowest(S) \in S
<1> DEFINE T == {1..n : n \in S}
<1>1. T \subseteq FiniteSubsetsOf(Nat) /\ T # {}
  <2>1. \A n \in S : 1..n \in SUBSET Nat /\ IsFiniteSet(1..n)
    BY FS_Interval
  <2>2. QED
    BY <2>1 DEF FiniteSubsetsOf
<1>2. PICK t \in T : \A u \in T : ~ (<<u, t>> \in StrictSubsetOrdering(Nat))
  BY <1>1, WFMin, FS_StrictSubsetOrderingWellFounded
<1>3. PICK x \in S : t = 1..x
  OBVIOUS
<1>4. \A y \in S : x <= y
  <2> SUFFICES ASSUME NEW y \in S, y < x PROVE FALSE
    OBVIOUS
  <2>1. 1..y \in T /\ 1..y \subseteq 1..x /\ x \in 1..x /\ x \notin 1..y
    OBVIOUS
  <2>2. <<1..y, t>> \in StrictSubsetOrdering(Nat)
    BY <1>3, <2>1 DEF StrictSubsetOrdering
  <2>3. QED
    BY <1>2, <2>1, <2>2
<1>5. QED
  <2> HIDE DEF T
  <2> QED BY <1>4 DEF Lowest

(* A sequence without its i-th element.                                    *)
LEMMA RemoveAtProperties ==
    ASSUME NEW S, NEW s \in Seq(S), NEW i \in 1..Len(s)
    PROVE  /\ RemoveAt(s, i) \in Seq(S)
           /\ Len(RemoveAt(s, i)) = Len(s) - 1
           /\ \A j \in 1..(Len(s) - 1) :
                 RemoveAt(s, i)[j] = IF j < i THEN s[j] ELSE s[j + 1]
<1> DEFINE a == SubSeq(s, 1, i - 1)
           b == SubSeq(s, i + 1, Len(s))
<1>1. Len(s) \in Nat /\ RemoveAt(s, i) = a \o b
  BY LenProperties DEF RemoveAt
<1>2. a \in Seq(S) /\ Len(a) = i - 1 /\ \A j \in 1..(i - 1) : a[j] = s[j]
  <2>1. \A j \in 1..(i - 1) : s[j] \in S
    BY ElementOfSeq
  <2>2. QED
    BY <2>1, SubSeqProperties
<1>3. b \in Seq(S) /\ Len(b) = Len(s) - i /\ \A j \in 1..(Len(s) - i) : b[j] = s[i + j]
  <2>1. \A j \in (i + 1)..Len(s) : s[j] \in S
    BY ElementOfSeq
  <2>2. QED
    BY <2>1, SubSeqProperties
<1> HIDE DEF a, b
<1>4. /\ a \o b \in Seq(S) /\ Len(a \o b) = Len(s) - 1
      /\ \A j \in 1..(Len(s) - 1) : (a \o b)[j] = IF j <= i - 1 THEN a[j] ELSE b[j - (i - 1)]
  BY <1>1, <1>2, <1>3, ConcatProperties
<1>5. ASSUME NEW j \in 1..(Len(s) - 1)
      PROVE  (a \o b)[j] = IF j < i THEN s[j] ELSE s[j + 1]
  <2>1. CASE j < i
    <3>1. j \in 1..(i - 1)
      BY <1>1, <2>1
    <3>2. QED
      BY <1>2, <1>4, <2>1, <3>1
  <2>2. CASE ~(j < i)
    <3>1. j - (i - 1) \in 1..(Len(s) - i) /\ i + (j - (i - 1)) = j + 1 /\ ~(j <= i - 1)
      BY <1>1, <2>2
    <3>2. QED
      BY <1>3, <1>4, <2>2, <3>1
  <2>3. QED
    BY <2>1, <2>2
<1>6. QED
  BY <1>1, <1>4, <1>5

-----------------------------------------------------------------------------
(* The cache as a sequence of entries that differ in key and association.  *)
Separate(c) ==
    \A i, j \in DOMAIN c : i # j => c[i].key # c[j].key /\ c[i].ctx # c[j].ctx

LEMMA EntriesDiffer ==
    ASSUME NEW c \in Seq(Entry), Separate(c), NEW e \in ToSet(c), NEW f \in ToSet(c), e # f
    PROVE  e.key # f.key /\ e.ctx # f.ctx
BY DEF Separate, ToSet

(* One entry less.                                                         *)
LEMMA OneLess ==
    ASSUME NEW c \in Seq(Entry), Separate(c), NEW i \in DOMAIN c
    PROVE  /\ RemoveAt(c, i) \in Seq(Entry)
           /\ Len(RemoveAt(c, i)) = Len(c) - 1
           /\ Separate(RemoveAt(c, i))
           /\ ToSet(RemoveAt(c, i)) = ToSet(c) \ {c[i]}
<1> DEFINE r == RemoveAt(c, i)
<1>1. Len(c) \in Nat /\ DOMAIN c = 1..Len(c) /\ i \in 1..Len(c)
  BY LenProperties
<1>2. /\ r \in Seq(Entry) /\ Len(r) = Len(c) - 1 /\ DOMAIN r = 1..(Len(c) - 1)
      /\ \A j \in 1..(Len(c) - 1) : r[j] = IF j < i THEN c[j] ELSE c[j + 1]
  BY <1>1, RemoveAtProperties, LenProperties
<1> HIDE DEF r
<1>3. Separate(r)
  <2> SUFFICES ASSUME NEW j \in 1..(Len(c) - 1), NEW k \in 1..(Len(c) - 1), j # k
               PROVE  r[j].key # r[k].key /\ r[j].ctx # r[k].ctx
    BY <1>2 DEF Separate
  <2> DEFINE old(n) == IF n < i THEN n ELSE n + 1
  <2>1. old(j) \in DOMAIN c /\ old(k) \in DOMAIN c /\ old(j) # old(k)
    BY <1>1
  <2>2. r[j] = c[old(j)] /\ r[k] = c[old(k)]
    BY <1>2
  <2> HIDE DEF old
  <2>3. QED
    BY <2>1, <2>2 DEF Separate
<1>4. ToSet(r) \subseteq ToSet(c) \ {c[i]}
  <2> SUFFICES ASSUME NEW j \in 1..(Len(c) - 1) PROVE r[j] \in ToSet(c) \ {c[i]}
    BY <1>2 DEF ToSet
  <2> DEFINE o == IF j < i THEN j ELSE j + 1
  <2>1. o \in DOMAIN c /\ o # i /\ r[j] = c[o]
    BY <1>1, <1>2
  <2> HIDE DEF o
  <2>2. QED
    BY <2>1 DEF ToSet, Separate
<1>5. ToSet(c) \ {c[i]} \subseteq ToSet(r)
  <2> SUFFICES ASSUME NEW j \in DOMAIN c, c[j] # c[i] PROVE c[j] \in ToSet(r)
    BY DEF ToSet
  <2> DEFINE n == IF j < i THEN j ELSE j - 1
  <2>1. n \in DOMAIN r /\ r[n] = c[j]
    <3>1. j # i
      OBVIOUS
    <3>2. CASE j < i
      BY <1>1, <1>2, <3>2
    <3>3. CASE j > i
      <4>1. j - 1 \in 1..(Len(c) - 1) /\ ~(j - 1 < i) /\ (j - 1) + 1 = j /\ ~(j < i)
        BY <1>1, <3>3
      <4>2. QED
        BY <1>2, <4>1
    <3>4. QED
      BY <1>1, <3>1, <3>2, <3>3
  <2> HIDE DEF n
  <2>2. QED
    BY <2>1 DEF ToSet
<1>6. QED
  BY <1>2, <1>3, <1>4, <1>5 DEF r

(* One entry more.                                                         *)
LEMMA OneMore ==
    ASSUME NEW c \in Seq(Entry), Separate(c), NEW e \in Entry,
           \A f \in ToSet(c) : f.key # e.key /\ f.ctx # e.ctx
    PROVE  /\ Append(c, e) \in Seq(Entry)
           /\ Len(Append(c, e)) = Len(c) + 1
           /\ Separate(Append(c, e))
           /\ ToSet(Append(c, e)) = ToSet(c) \cup {e}
<1> DEFINE a == Append(c, e)
<1>1. /\ Len(c) \in Nat /\ DOMAIN c = 1..Len(c)
      /\ a \in Seq(Entry) /\ Len(a) = Len(c) + 1 /\ DOMAIN a = 1..(Len(c) + 1)
      /\ \A i \in 1..Len(c) : a[i] = c[i]
      /\ a[Len(c) + 1] = e
  BY AppendProperties, LenProperties
<1> HIDE DEF a
<1>2. \A i \in DOMAIN a : (i \in DOMAIN c /\ a[i] = c[i]) \/ (i = Len(c) + 1 /\ a[i] = e)
  BY <1>1
<1>3. Separate(a)
  <2> SUFFICES ASSUME NEW i \in DOMAIN a, NEW j \in DOMAIN a, i # j
               PROVE  a[i].key # a[j].key /\ a[i].ctx # a[j].ctx
    BY DEF Separate
  <2>1. \A k \in DOMAIN c : c[k].key # e.key /\ c[k].ctx # e.ctx
    BY DEF ToSet
  <2>2. QED
    BY <1>2, <2>1 DEF Separate
<1>4. ToSet(a) = ToSet(c) \cup {e}
  <2>1. ToSet(a) \subseteq ToSet(c) \cup {e}
    BY <1>2 DEF ToSet
  <2>2. ToSet(c) \cup {e} \subseteq ToSet(a)
    BY <1>1 DEF ToSet
  <2>3. QED
    BY <2>1, <2>2
<1>5. QED
  BY <1>1, <1>3, <1>4 DEF a

-----------------------------------------------------------------------------
(* What CachedOnce says of the entries, one by one.                        *)
Apart ==
    /\ Separate(cache)
    /\ fds = Of(Entries) /\ watched = fds /\ due \subseteq fds
    /\ \A e \in Entries : e.key[2] = src[e.ctx]

LEMMA OnceApart == CachedOnce <=> Apart /\ Len(cache) < Capacity /\ (socket = "closed" => fds = {})
BY DEF CachedOnce, Apart, Separate

(* Of two entries each has an association of its own.                      *)
LEMMA OneAssociation ==
    ASSUME IInv, NEW e \in Entries
    PROVE  e \in Entry /\ Of(Entries \ {e}) = Of(Entries) \ {e.ctx}
<1>1. cache \in Seq(Entry) /\ Separate(cache)
  BY OnceApart DEF IInv, Typed, Apart
<1>2. Entries \subseteq Entry
  BY <1>1, ElementOfSeq, LenProperties DEF Entries, ToSet
<1>3. \A f \in Entries \ {e} : f.ctx # e.ctx
  BY <1>1, EntriesDiffer DEF Entries
<1>4. QED
  BY <1>2, <1>3 DEF Of

(* What is found is one entry, or none.                                    *)
LEMMA FoundOne ==
    ASSUME IInv, NEW k, NEW e \in Found(k)
    PROVE  e \in Entries /\ e.key = k /\ Found(k) = {e}
<1>1. cache \in Seq(Entry) /\ Separate(cache)
  BY OnceApart DEF IInv, Typed, Apart
<1>2. \A f \in Entries : f # e => f.key # e.key
  BY <1>1, EntriesDiffer DEF Entries, Found
<1>3. QED
  BY <1>2 DEF Found

LEMMA WithoutOne ==
    ASSUME IInv, NEW e \in Entries
    PROVE  /\ Without({e}) \in Seq(Entry)
           /\ Len(Without({e})) = Len(cache) - 1
           /\ Separate(Without({e}))
           /\ ToSet(Without({e})) = Entries \ {e}
<1> DEFINE i == CHOOSE j \in DOMAIN cache : cache[j] \in {e}
<1>1. cache \in Seq(Entry) /\ Separate(cache)
  BY OnceApart DEF IInv, Typed, Apart
<1>2. i \in DOMAIN cache /\ cache[i] = e
  BY DEF Entries, ToSet
<1>3. Without({e}) = RemoveAt(cache, i)
  BY DEF Without
<1> HIDE DEF i
<1>4. QED
  BY <1>1, <1>2, <1>3, OneLess DEF Entries

LEMMA WithoutNone == Without({}) = cache /\ Of({}) = {}
BY DEF Without, Of

(* There is a descriptor for a new association.                            *)
LEMMA OneIsFree ==
    ASSUME IInv
    PROVE  Lowest(Descriptor \ fds) \in Descriptor \ fds
<1>1. cache \in Seq(Entry) /\ Len(cache) < Capacity /\ fds = Of(Entries) /\ fds \in SUBSET Descriptor
  BY OnceApart DEF IInv, Typed, Apart
<1>2. Len(cache) \in Nat /\ DOMAIN cache = 1..Len(cache)
  BY <1>1, LenProperties
<1> DEFINE f == [j \in 1..Len(cache) |-> cache[j].ctx]
<1>3. f \in Surjection(1..Len(cache), fds)
  BY <1>1, <1>2 DEF Surjection, Of, Entries, ToSet
<1> HIDE DEF f
<1>4. Cardinality(fds) <= Len(cache)
  <2>1. \A n \in Nat : IsFiniteSet(1..n) /\ Cardinality(1..n) = n
    BY FS_Interval
  <2>2. QED
    BY <1>2, <1>3, <2>1, FS_Surjection
<1>5. Cardinality(Descriptor) = Capacity
  BY FS_Interval
<1>6. fds # Descriptor
  BY <1>1, <1>2, <1>4, <1>5
<1>7. Descriptor \ fds \in SUBSET Nat /\ Descriptor \ fds # {}
  <2>1. Descriptor \ fds \in SUBSET Nat
    OBVIOUS
  <2>2. \E d \in Descriptor : d \notin fds
    BY <1>1, <1>6
  <2>3. QED
    BY <2>1, <2>2
<1>8. QED
  BY <1>7, LowestIsIn

-----------------------------------------------------------------------------
LEMMA InitIInv == Init => IInv
<1> SUFFICES ASSUME Init PROVE IInv
  OBVIOUS
<1>1. cache \in Seq(Entry) /\ Len(cache) = 0 /\ cache = <<>> /\ Entries = {}
  BY EmptySeq DEF Init, Entries, ToSet
<1>2. Typed
  BY <1>1 DEF Init, Typed
<1>3. CachedOnce /\ OwnAnswers
  BY <1>1 DEF Init, CachedOnce, OwnAnswers, Of
<1>4. QED
  BY <1>2, <1>3 DEF IInv

(* A step that leaves the cache and the associations as they are.          *)
LEMMA Untouched ==
    ASSUME IInv, UNCHANGED <<cache, fds, watched, src, asked>>,
           socket' = socket, quiet' \in BOOLEAN, due' \subseteq watched
    PROVE  IInv'
BY DEF IInv, Typed, CachedOnce, OwnAnswers, Entries, Of

LEMMA HitStep ==
    ASSUME IInv, NEW k \in Family \X Client, ServerRecvHit(k)
    PROVE  IInv'
<1>1. PICK e \in Found(k) :
         /\ cache' = Append(Without({e}), e)
         /\ due' = due \ {e.ctx}
         /\ \/ asked' = [asked EXCEPT ![e.ctx] = @ \cup {k[2]}]
            \/ UNCHANGED asked
  BY DEF ServerRecvHit
<1>2. UNCHANGED <<socket, fds, watched, src, quiet>>
  BY DEF ServerRecvHit
<1>3. e \in Entries /\ e.key = k /\ e \in Entry /\ cache \in Seq(Entry) /\ Separate(cache)
  BY FoundOne, OneAssociation, OnceApart DEF IInv, Typed, Apart
<1>4. \A f \in Entries \ {e} : f.key # e.key /\ f.ctx # e.ctx
  BY <1>3, EntriesDiffer DEF Entries
<1>5. /\ cache' \in Seq(Entry) /\ Len(cache') = Len(cache) - 1 + 1 /\ Separate(cache')
      /\ Entries' = (Entries \ {e}) \cup {e}
  <2> DEFINE w == Without({e})
  <2>1. w \in Seq(Entry) /\ Len(w) = Len(cache) - 1 /\ Separate(w) /\ ToSet(w) = Entries \ {e}
    BY <1>3, WithoutOne
  <2>2. cache' = Append(w, e) /\ Entries' = ToSet(cache')
    BY <1>1 DEF Entries
  <2> HIDE DEF w
  <2>3. \A f \in ToSet(w) : f.key # e.key /\ f.ctx # e.ctx
    BY <1>4, <2>1
  <2>4. /\ Append(w, e) \in Seq(Entry) /\ Len(Append(w, e)) = Len(w) + 1
        /\ Separate(Append(w, e)) /\ ToSet(Append(w, e)) = ToSet(w) \cup {e}
    BY <1>3, <2>1, <2>3, OneMore
  <2>5. QED
    BY <2>1, <2>2, <2>4
<1>6. Entries' = Entries /\ Len(cache') = Len(cache)
  BY <1>3, <1>5, LenProperties
<1>7. Apart' /\ Len(cache') < Capacity /\ (socket' = "closed" => fds' = {})
  BY <1>1, <1>2, <1>5, <1>6, OnceApart DEF IInv, Apart, Of
<1>8. src[e.ctx] = k[2] /\ k[2] \in Client
  BY <1>3, OnceApart DEF IInv, Apart
<1>9. asked' \in [Descriptor -> SUBSET Client]
  <2> DEFINE more == asked[e.ctx] \cup {k[2]}
  <2>1. asked \in [Descriptor -> SUBSET Client] /\ e.ctx \in Descriptor
    BY <1>3 DEF IInv, Typed, Entry
  <2>2. more \in SUBSET Client /\ (asked' = [asked EXCEPT ![e.ctx] = more] \/ asked' = asked)
    BY <1>1, <1>8, <2>1
  <2> HIDE DEF more
  <2>3. QED
    BY <2>1, <2>2
<1>10. OwnAnswers'
  <2> SUFFICES ASSUME NEW d \in watched PROVE asked'[d] \subseteq {src[d]}
    BY <1>2 DEF OwnAnswers
  <2>1. asked[d] \subseteq {src[d]} /\ d \in Descriptor
    BY DEF IInv, OwnAnswers, Typed, CachedOnce
  <2>2. asked \in [Descriptor -> SUBSET Client]
    BY DEF IInv, Typed
  <2>3. QED
    BY <1>1, <1>8, <2>1, <2>2
<1>11. QED
  BY <1>2, <1>5, <1>7, <1>9, <1>10, OnceApart DEF IInv, Typed, CachedOnce, Apart, Separate

(* A new association, d, for the key k; E is the one that is evicted.      *)
LEMMA MissStep ==
    ASSUME IInv, NEW k \in Family \X Client, ServerRecvMiss(k)
    PROVE  IInv'
<1> DEFINE d == Lowest(Descriptor \ fds)
           x == [key |-> k, ctx |-> d]
           E == Evicted
           w == Without(E)
<1>1. /\ cache' = Append(w, x) /\ Found(k) = {}
      /\ fds' = (fds \ Of(E)) \cup {d} /\ watched' = (watched \ Of(E)) \cup {d}
      /\ due' = due \ Of(E)
      /\ src' = [src EXCEPT ![d] = k[2]]
      /\ UNCHANGED <<socket, quiet>>
      /\ socket = "open"
  BY DEF ServerRecvMiss, Arrives
<1>2. PICK sent \in {{}, {k[2]}} : asked' = [asked EXCEPT ![d] = sent]
  BY DEF ServerRecvMiss
<1>3. d \in Descriptor /\ d \notin fds
  BY OneIsFree
<1>4. /\ cache \in Seq(Entry) /\ Len(cache) \in Nat /\ Len(cache) < Capacity
      /\ Separate(cache) /\ fds = Of(Entries) /\ watched = fds /\ due \subseteq fds
      /\ \A e \in Entries : e.key[2] = src[e.ctx]
      /\ src \in [Descriptor -> Client \cup {NoClient}]
      /\ asked \in [Descriptor -> SUBSET Client]
      /\ fds \in SUBSET Descriptor
  BY OnceApart, LenProperties DEF IInv, Typed, Apart
<1>5. x \in Entry /\ x.key = k /\ x.ctx = d /\ k[2] \in Client
  BY <1>3 DEF Entry
<1>6. /\ w \in Seq(Entry) /\ Separate(w) /\ ToSet(w) = Entries \ E
      /\ Len(w) + 1 < Capacity /\ Of(Entries \ E) = fds \ Of(E)
  <2>1. CASE Len(cache) + 1 >= Capacity
    <3>1. E = {Head(cache)} /\ Head(cache) \in Entries
      <4>1. cache # <<>> /\ Head(cache) = cache[1] /\ 1 \in DOMAIN cache
        BY <1>4, <2>1, EmptySeq, LenProperties
      <4>2. QED
        BY <2>1, <4>1 DEF Evicted, Entries, ToSet
    <3>2. Of(Entries \ E) = Of(Entries) \ {Head(cache).ctx} /\ Of(E) = {Head(cache).ctx}
      BY <3>1, OneAssociation DEF Of
    <3>3. /\ Without({Head(cache)}) \in Seq(Entry) /\ Len(Without({Head(cache)})) = Len(cache) - 1
          /\ Separate(Without({Head(cache)})) /\ ToSet(Without({Head(cache)})) = Entries \ {Head(cache)}
      BY <3>1, WithoutOne
    <3>4. w = Without({Head(cache)}) /\ Entries \ E = Entries \ {Head(cache)}
      BY <3>1
    <3> HIDE DEF E, w
    <3>5. w \in Seq(Entry) /\ Separate(w) /\ ToSet(w) = Entries \ E /\ Len(w) = Len(cache) - 1
      BY <3>3, <3>4
    <3>6. Of(Entries \ E) = fds \ Of(E)
      BY <1>4, <3>2, <3>4
    <3>7. Len(w) + 1 < Capacity
      BY <1>4, <3>5
    <3>8. QED
      BY <3>5, <3>6, <3>7
  <2>2. CASE ~(Len(cache) + 1 >= Capacity)
    <3>1. E = {} /\ w = cache
      BY <2>2, WithoutNone DEF Evicted
    <3>2. Of(E) = {} /\ Entries \ E = Entries
      BY <3>1, WithoutNone
    <3> HIDE DEF E, w
    <3>3. QED
      BY <1>4, <2>2, <3>1, <3>2 DEF Entries
  <2>3. QED
    BY <2>1, <2>2
<1>7. \A e \in Entries : e.key # k /\ e.ctx # d
  BY <1>1, <1>3, <1>4 DEF Found, Of
<1> HIDE DEF d, x, E, w
<1>8. /\ cache' \in Seq(Entry) /\ Len(cache') < Capacity /\ Separate(cache')
      /\ Entries' = (Entries \ E) \cup {x}
  <2>1. \A f \in ToSet(w) : f.key # x.key /\ f.ctx # x.ctx
    BY <1>5, <1>6, <1>7
  <2>2. /\ Append(w, x) \in Seq(Entry) /\ Len(Append(w, x)) = Len(w) + 1
        /\ Separate(Append(w, x)) /\ ToSet(Append(w, x)) = ToSet(w) \cup {x}
    BY <1>5, <1>6, <2>1, OneMore
  <2>3. QED
    BY <1>1, <1>6, <2>2 DEF Entries
<1>9. Of(Entries') = fds'
  <2>1. Of(Entries') = Of(Entries \ E) \cup {d}
    BY <1>5, <1>8 DEF Of
  <2>2. QED
    BY <1>1, <1>6, <2>1
<1>10. \A e \in Entries' : e.key[2] = src'[e.ctx]
  <2> SUFFICES ASSUME NEW e \in Entries' PROVE e.key[2] = src'[e.ctx]
    OBVIOUS
  <2>1. CASE e = x
    BY <1>1, <1>3, <1>4, <1>5, <2>1
  <2>2. CASE e \in Entries
    <3>1. src'[e.ctx] = src[e.ctx]
      BY <1>1, <1>4, <1>7, <2>2
    <3>2. QED
      BY <1>4, <2>2, <3>1
  <2>3. QED
    BY <1>8, <2>1, <2>2
<1>11. Apart'
  <2>1. watched' = fds' /\ due' \subseteq fds'
    BY <1>1, <1>4
  <2>2. QED
    BY <1>8, <1>9, <1>10, <2>1 DEF Apart, Separate, Of
<1>12. OwnAnswers'
  <2> SUFFICES ASSUME NEW c \in watched' PROVE asked'[c] \subseteq {src'[c]}
    BY DEF OwnAnswers
  <2>1. CASE c = d
    BY <1>1, <1>2, <1>3, <1>4, <2>1
  <2>2. CASE c # d
    <3>1. c \in watched /\ asked'[c] = asked[c] /\ src'[c] = src[c]
      BY <1>1, <1>2, <1>4, <2>2
    <3>2. QED
      BY <3>1 DEF IInv, OwnAnswers
  <2>3. QED
    BY <2>1, <2>2
<1>13. Typed'
  <2>1. fds' \in SUBSET Descriptor
    BY <1>1, <1>3, <1>4
  <2>2. src' \in [Descriptor -> Client \cup {NoClient}]
    BY <1>1, <1>4, <1>5
  <2>3. asked' \in [Descriptor -> SUBSET Client]
    BY <1>2, <1>4, <1>5
  <2>4. QED
    BY <1>1, <1>8, <2>1, <2>2, <2>3 DEF IInv, Typed
<1>14. QED
  <2>1. socket' = "closed" => fds' = {}
    BY <1>1
  <2>2. CachedOnce'
    BY <1>8, <1>11, <2>1, OnceApart DEF CachedOnce, Apart, Separate
  <2>3. QED
    BY <1>12, <1>13, <2>2 DEF IInv

(* An idle association, or the one taken for it, is freed.                 *)
LEMMA TimeoutStep ==
    ASSUME IInv, NEW d \in Descriptor, RemoteTimeout(d)
    PROVE  IInv'
<1> DEFINE E == Found(<<ServerFamily, src[d]>>)
<1>1. /\ cache' = Without(E) /\ fds' = fds \ Of(E) /\ watched' = watched \ Of(E)
      /\ due' = (due \ Of(E)) \ {d}
      /\ UNCHANGED <<socket, src, asked, quiet>>
  BY DEF RemoteTimeout
<1>2. /\ cache \in Seq(Entry) /\ Len(cache) \in Nat /\ Len(cache) < Capacity
      /\ Separate(cache) /\ fds = Of(Entries) /\ watched = fds /\ due \subseteq fds
      /\ \A e \in Entries : e.key[2] = src[e.ctx]
      /\ fds \in SUBSET Descriptor
  BY OnceApart, LenProperties DEF IInv, Typed, Apart
<1>3. /\ cache' \in Seq(Entry) /\ Separate(cache') /\ Entries' = Entries \ E
      /\ Len(cache') < Capacity /\ Of(Entries \ E) = fds \ Of(E)
  <2>1. CASE E = {}
    <3>1. cache' = cache /\ Of(E) = {} /\ Entries' = Entries
      BY <1>1, <2>1, WithoutNone DEF Entries
    <3> HIDE DEF E
    <3>2. QED
      BY <1>2, <2>1, <3>1
  <2>2. CASE E # {}
    <3>1. PICK e \in E : TRUE
      BY <2>2
    <3>2. e \in Entries /\ E = {e}
      BY <3>1, FoundOne
    <3>3. Of(E) = {e.ctx} /\ Of(Entries \ {e}) = Of(Entries) \ {e.ctx}
      BY <3>2, OneAssociation DEF Of
    <3>4. /\ Without({e}) \in Seq(Entry) /\ Len(Without({e})) = Len(cache) - 1
          /\ Separate(Without({e})) /\ ToSet(Without({e})) = Entries \ {e}
      BY <3>2, WithoutOne
    <3>5. cache' = Without({e}) /\ Entries' = ToSet(cache')
      BY <1>1, <3>2 DEF Entries
    <3>6. Entries \ E = Entries \ {e}
      BY <3>2
    <3> HIDE DEF E
    <3>7. Separate(cache') /\ Entries' = Entries \ E /\ cache' \in Seq(Entry)
      BY <3>4, <3>5, <3>6
    <3>8. Len(cache') < Capacity
      BY <1>2, <3>4, <3>5
    <3>9. QED
      BY <1>2, <3>3, <3>6, <3>7, <3>8
  <2>3. QED
    BY <2>1, <2>2
<1> HIDE DEF E
<1>4. Of(Entries') = fds' /\ watched' = fds' /\ due' \subseteq fds' /\ fds' \in SUBSET Descriptor
  BY <1>1, <1>2, <1>3
<1>5. \A e \in Entries' : e.key[2] = src'[e.ctx]
  BY <1>1, <1>2, <1>3
<1>6. socket' = "closed" => fds' = {}
  BY <1>1 DEF IInv, CachedOnce
<1>7. CachedOnce'
  BY <1>3, <1>4, <1>5, <1>6 DEF CachedOnce, Separate, Of
<1>8. Typed' /\ OwnAnswers'
  BY <1>1, <1>3, <1>4 DEF IInv, Typed, OwnAnswers
<1>9. QED
  BY <1>7, <1>8 DEF IInv

LEMMA FreeStep ==
    ASSUME IInv, Ends
    PROVE  IInv'
<1>1. /\ cache' = <<>> /\ socket' = "closed" /\ UNCHANGED <<src, asked, quiet>>
      /\ fds' = fds \ Of(Entries) /\ watched' = watched \ Of(Entries) /\ due' = due \ Of(Entries)
  BY DEF Ends
<1>2. fds' = {} /\ watched' = {} /\ due' = {}
  BY <1>1 DEF IInv, CachedOnce
<1>3. Entries' = {} /\ Len(cache') = 0 /\ cache' \in Seq(Entry)
  BY <1>1, EmptySeq DEF Entries, ToSet
<1>4. CachedOnce'
  BY <1>1, <1>2, <1>3 DEF CachedOnce, Of
<1>5. Typed' /\ OwnAnswers'
  BY <1>1, <1>2, <1>3 DEF IInv, Typed, OwnAnswers
<1>6. QED
  BY <1>4, <1>5 DEF IInv

LEMMA NextIInv == IInv /\ [Next]_vars => IInv'
<1> SUFFICES ASSUME IInv, [Next]_vars PROVE IInv'
  OBVIOUS
<1>1. ASSUME NEW k \in Family \X Client, ServerRecvHit(k) PROVE IInv'
  BY <1>1, HitStep
<1>2. ASSUME NEW k \in Family \X Client, ServerRecvMiss(k) PROVE IInv'
  BY <1>2, MissStep
<1>3. ASSUME NEW d \in Descriptor, RemoteTimeout(d) PROVE IInv'
  BY <1>3, TimeoutStep
<1>4. CASE FreeUdprelay
  BY <1>4, FreeStep DEF FreeUdprelay
<1>5. due \subseteq watched /\ quiet \in BOOLEAN
  BY DEF IInv, CachedOnce, Typed
<1>6. ASSUME NEW d \in Descriptor, RemoteRecv(d) PROVE IInv'
  BY <1>5, <1>6, Untouched DEF RemoteRecv
<1>7. ASSUME NEW d \in Descriptor, Elapse(d) PROVE IInv'
  BY <1>5, <1>7, Untouched DEF Elapse
<1>8. CASE FallsQuiet
  BY <1>5, <1>8, Untouched DEF FallsQuiet
<1>9. CASE UNCHANGED vars
  BY <1>5, <1>9, Untouched DEF vars
<1>10. ASSUME NEW k \in Family \X Client, ServerRecvFails(k) PROVE IInv'
  BY <1>9, <1>10, FreeStep DEF ServerRecvFails
<1>11. QED
  BY <1>1, <1>2, <1>3, <1>4, <1>6, <1>7, <1>8, <1>9, <1>10 DEF Next, ServerRecv

-----------------------------------------------------------------------------
(* IInv is inductive.                                                      *)
THEOREM Invariance == Spec => []IInv
<1>1. QED
  BY InitIInv, NextIInv, PTL DEF Spec

(* The cache, the descriptors and the watchers agree after any datagrams,  *)
(* evictions, timeouts and failures, though cache_insert, cache_lookup and *)
(* cache_remove reorder the entries and socket() uses numbers again.       *)
THEOREM EntriesStayApart == Spec => []CachedOnce
<1>1. IInv => CachedOnce
  BY DEF IInv
<1>2. QED
  BY Invariance, <1>1, PTL

(* No client is ever sent the answer to the datagram of another.           *)
THEOREM NobodyElsesAnswers == Spec => []OwnAnswers
<1>1. IInv => OwnAnswers
  BY DEF IInv
<1>2. QED
  BY Invariance, <1>1, PTL

(* What is freed is idle, the eldest of a full cache, mistaken for an idle *)
(* one by remote_timeout_cb, or freed at the end.                          *)
THEOREM FreedOnlyForAReason == Spec => FreedForAReason
<1> DEFINE Reason(e) ==
        \/ Idle(e)
        \/ e = Head(cache) /\ Len(cache) = Capacity - 1
        \/ \E x \in Entries : Mistaken(e, x)
        \/ socket' = "closed"
<1>1. ASSUME IInv, [Next]_vars, NEW e \in Entries, e.ctx \notin fds'
      PROVE  Reason(e)
  <2>1. /\ e.ctx \in fds /\ fds = Of(Entries) /\ due \subseteq fds
        /\ Len(cache) < Capacity /\ Len(cache) \in Nat
        /\ cache \in Seq(Entry) /\ Separate(cache)
        /\ \A x \in Entries : x.key[2] = src[x.ctx]
    <3>1. cache \in Seq(Entry) /\ Apart /\ Len(cache) < Capacity
      BY <1>1, OnceApart DEF IInv, Typed
    <3>2. Len(cache) \in Nat
      BY <3>1, LenProperties
    <3>3. e.ctx \in Of(Entries)
      BY <1>1 DEF Of
    <3>4. QED
      BY <3>1, <3>2, <3>3 DEF Apart
  <2>2. fds' # fds
    BY <1>1, <2>1
  <2>3. ASSUME NEW k \in Family \X Client, ServerRecvMiss(k) PROVE Reason(e)
    <3>1. e.ctx \in Of(Evicted)
      BY <1>1, <2>1, <2>3 DEF ServerRecvMiss
    <3>2. PICK h \in Evicted : h.ctx = e.ctx
      BY <3>1 DEF Of
    <3>3. h = Head(cache) /\ Len(cache) + 1 >= Capacity
      BY <3>2 DEF Evicted
    <3>4. Len(cache) = Capacity - 1
      BY <2>1, <3>3
    <3>5. h \in Entries
      <4>1. cache # <<>> /\ Head(cache) = cache[1] /\ 1 \in DOMAIN cache
        BY <2>1, <3>4, EmptySeq, LenProperties
      <4>2. QED
        BY <3>3, <4>1 DEF Entries, ToSet
    <3>6. h = e
      BY <2>1, <3>2, <3>5, EntriesDiffer DEF Entries
    <3>7. QED
      BY <3>3, <3>4, <3>6
  <2>4. ASSUME NEW d \in Descriptor, RemoteTimeout(d) PROVE Reason(e)
    <3>1. d \in due /\ e.ctx \in Of(Found(<<ServerFamily, src[d]>>))
      BY <1>1, <2>1, <2>4 DEF RemoteTimeout
    <3>2. PICK h \in Found(<<ServerFamily, src[d]>>) : h.ctx = e.ctx
      BY <3>1 DEF Of
    <3>3. h \in Entries /\ h.key = <<ServerFamily, src[d]>>
      BY <3>2 DEF Found
    <3>4. h = e
      BY <2>1, <3>2, <3>3, EntriesDiffer DEF Entries
    <3>5. PICK x \in Entries : x.ctx = d
      BY <2>1, <3>1 DEF Of
    <3>6. CASE x = e
      BY <3>1, <3>5, <3>6 DEF Idle
    <3>7. CASE x # e
      <4>1. x.key # e.key /\ x.key \in Family \X Client
        <5>1. x \in Entry
          BY <1>1, <3>5, OneAssociation
        <5>2. x.key # e.key
          BY <1>1, <2>1, <3>5, <3>7, EntriesDiffer DEF Entries
        <5>3. QED
          BY <5>1, <5>2 DEF Entry
      <4>2. x.key[2] = src[d] /\ e.key[1] = ServerFamily /\ e.key[2] = src[d]
        BY <2>1, <3>3, <3>4, <3>5
      <4>3. x.key[1] # ServerFamily
        BY <3>3, <3>4, <4>1, <4>2
      <4>4. Mistaken(e, x)
        BY <3>1, <3>5, <4>2, <4>3 DEF Mistaken, Idle
      <4>5. QED
        BY <3>5, <4>4
    <3>8. QED
      BY <3>6, <3>7
  <2>5. ASSUME Ends PROVE socket' = "closed"
    BY <2>5 DEF Ends
  <2>6. ASSUME FreeUdprelay \/ \E k \in Family \X Client : ServerRecvFails(k), ~UNCHANGED vars
        PROVE  socket' = "closed"
    BY <2>5, <2>6 DEF FreeUdprelay, ServerRecvFails
  <2>7. QED
    BY <1>1, <2>2, <2>3, <2>4, <2>6
       DEF Next, ServerRecv, ServerRecvHit, ServerRecvFails, RemoteRecv, Elapse, FallsQuiet, vars
<1>2. IInv /\ [Next]_vars => [\A e \in Entries : e.ctx \notin fds' => Reason(e)]_vars
  BY <1>1
<1>3. QED
  BY Invariance, <1>2, PTL DEF Spec, FreedForAReason
=============================================================================
