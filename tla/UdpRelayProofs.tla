--------------------------- MODULE UdpRelayProofs ---------------------------
(***************************************************************************)
(* For any number of clients, packets and cache entries: the UDP relay     *)
(* caches one handler for a client at most and never more than it may, and *)
(* while it runs every handler that packets are sent to has a thread that  *)
(* reads the answers, however failures, evictions and lookups fall.        *)
(***************************************************************************)
EXTENDS UdpRelay, TLAPS, SequenceTheorems

(* Handlers are numbered by packets: that of the packet in hand is new.    *)
Numbered ==
    /\ \A h \in ToSet(cache) : h <= packets
    /\ run \in {"lookup", "make", "put"} => \A h \in ToSet(cache) : h < packets
    /\ run \in {"lookup", "make"} => packets > 0

(* From the lookup that finds nothing to the put nobody else caches one    *)
(* for the client, and no thread runs the new handler before execute.      *)
InHand ==
    /\ run \in {"put", "execute", "send"} => cur.handler \in Handler
    /\ run \in {"make", "put"} => Cached(cur.client) = {}
    /\ run = "put" => cur.handler = packets /\ owner[cur.handler] = cur.client
    /\ run \in {"put", "execute"} => pc[cur.handler] = "made"

(* The pool takes every handler until the relay is told to stop.           *)
Stopping ==
    /\ isRunning => stop = "none"
    /\ exec = "null" => run = "started"
    /\ exec = "shut" => ~isRunning

USE BoundsAssumption, ClientAssumption DEF Handler, NoHandler

-----------------------------------------------------------------------------
(* A sequence without its i-th element.                                    *)
LEMMA RemoveAtProperties ==
    ASSUME NEW S, NEW s \in Seq(S), NEW i \in 1..Len(s)
    PROVE  /\ RemoveAt(s, i) \in Seq(S)
           /\ Len(RemoveAt(s, i)) = Len(s) - 1
           /\ \A j \in 1..(Len(s) - 1) :
                 RemoveAt(s, i)[j] = IF j < i THEN s[j] ELSE s[j + 1]
<1> DEFINE a == SubSeq(s, 1, i - 1)
           b == SubSeq(s, i + 1, Len(s))
<1>1. Len(s) \in Nat /\ RemoveAt(s, i) = a \o b
  BY LenProperties DEF RemoveAt
<1>2. a \in Seq(S) /\ Len(a) = i - 1 /\ \A j \in 1..(i - 1) : a[j] = s[j]
  <2>1. \A j \in 1..(i - 1) : s[j] \in S
    BY ElementOfSeq
  <2>2. QED
    BY <2>1, SubSeqProperties
<1>3. b \in Seq(S) /\ Len(b) = Len(s) - i /\ \A j \in 1..(Len(s) - i) : b[j] = s[i + j]
  <2>1. \A j \in (i + 1)..Len(s) : s[j] \in S
    BY ElementOfSeq
  <2>2. QED
    BY <2>1, SubSeqProperties
<1> HIDE DEF a, b
<1>4. /\ a \o b \in Seq(S) /\ Len(a \o b) = Len(s) - 1
      /\ \A j \in 1..(Len(s) - 1) : (a \o b)[j] = IF j <= i - 1 THEN a[j] ELSE b[j - (i - 1)]
  BY <1>1, <1>2, <1>3, ConcatProperties
<1>5. ASSUME NEW j \in 1..(Len(s) - 1)
      PROVE  (a \o b)[j] = IF j < i THEN s[j] ELSE s[j + 1]
  <2>1. CASE j < i
    <3>1. j \in 1..(i - 1)
      BY <1>1, <2>1
    <3>2. QED
      BY <1>2, <1>4, <2>1, <3>1
  <2>2. CASE ~(j < i)
    <3>1. j - (i - 1) \in 1..(Len(s) - i) /\ i + (j - (i - 1)) = j + 1 /\ ~(j <= i - 1)
      BY <1>1, <2>2
    <3>2. QED
      BY <1>3, <1>4, <2>2, <3>1
  <2>3. QED
    BY <2>1, <2>2
<1>6. QED
  BY <1>1, <1>4, <1>5

(* The cache as a sequence of handlers of different clients.               *)
Apart(s, o) == \A i, j \in 1..Len(s) : o[s[i]] = o[s[j]] => i = j

LEMMA DistinctIsApart ==
    ASSUME NEW s \in Seq(Handler)
    PROVE  /\ Len(s) \in Nat /\ DOMAIN s = 1..Len(s)
           /\ Distinct(s) <=> Apart(s, owner)
           /\ ToSet(s) = {s[i] : i \in 1..Len(s)} /\ ToSet(s) \subseteq Handler
BY LenProperties, ElementOfSeq DEF Distinct, Apart, ToSet

LEMMA OneLess ==
    ASSUME NEW s \in Seq(Handler), Distinct(s), NEW k \in DOMAIN s
    PROVE  /\ RemoveAt(s, k) \in Seq(Handler)
           /\ Len(RemoveAt(s, k)) = Len(s) - 1
           /\ Distinct(RemoveAt(s, k))
           /\ ToSet(RemoveAt(s, k)) = {h \in ToSet(s) : owner[h] # owner[s[k]]}
<1> DEFINE r == RemoveAt(s, k)
<1>1. /\ Len(s) \in Nat /\ k \in 1..Len(s) /\ Apart(s, owner)
      /\ ToSet(s) = {s[i] : i \in 1..Len(s)}
  BY DistinctIsApart
<1>2. /\ r \in Seq(Handler) /\ Len(r) = Len(s) - 1
      /\ \A j \in 1..(Len(s) - 1) : r[j] = IF j < k THEN s[j] ELSE s[j + 1]
  BY <1>1, RemoveAtProperties
<1> HIDE DEF r
<1>3. /\ Distinct(r) <=> Apart(r, owner)
      /\ ToSet(r) = {r[i] : i \in 1..(Len(s) - 1)}
  BY <1>2, DistinctIsApart
<1> DEFINE old(n) == IF n < k THEN n ELSE n + 1
<1>4. /\ \A j \in 1..(Len(s) - 1) : old(j) \in 1..Len(s) /\ old(j) # k
      /\ \A i, j \in 1..(Len(s) - 1) : old(i) = old(j) => i = j
      /\ \A n \in 1..Len(s) : n # k => \E j \in 1..(Len(s) - 1) : old(j) = n
  <2>1. \A n \in 1..Len(s) : n # k =>
           (IF n < k THEN n ELSE n - 1) \in 1..(Len(s) - 1) /\ old(IF n < k THEN n ELSE n - 1) = n
    BY <1>1
  <2>2. QED
    BY <1>1, <2>1
<1>5. \A j \in 1..(Len(s) - 1) : r[j] = s[old(j)]
  BY <1>2
<1> HIDE DEF old
<1>6. Apart(r, owner)
  <2> SUFFICES ASSUME NEW i \in 1..(Len(s) - 1), NEW j \in 1..(Len(s) - 1),
                      owner[r[i]] = owner[r[j]]
               PROVE  i = j
    BY <1>2 DEF Apart
  <2>1. owner[s[old(i)]] = owner[s[old(j)]]
    BY <1>5
  <2>2. old(i) = old(j)
    BY <1>1, <1>4, <2>1 DEF Apart
  <2>3. QED
    BY <1>4, <2>2
<1>7. ToSet(r) = {h \in ToSet(s) : owner[h] # owner[s[k]]}
  <2>1. ASSUME NEW j \in 1..(Len(s) - 1)
        PROVE  r[j] \in ToSet(s) /\ owner[r[j]] # owner[s[k]]
    <3>1. r[j] = s[old(j)] /\ old(j) \in 1..Len(s) /\ old(j) # k
      BY <1>4, <1>5
    <3>2. owner[s[old(j)]] # owner[s[k]]
      BY <1>1, <3>1 DEF Apart
    <3>3. QED
      BY <1>1, <3>1, <3>2
  <2>2. ASSUME NEW n \in 1..Len(s), owner[s[n]] # owner[s[k]]
        PROVE  s[n] \in ToSet(r)
    <3>1. PICK j \in 1..(Len(s) - 1) : old(j) = n
      BY <1>4, <2>2
    <3>2. QED
      BY <1>3, <1>5, <3>1
  <2>3. QED
    BY <1>1, <1>3, <2>1, <2>2
<1>8. QED
  BY <1>2, <1>3, <1>6, <1>7 DEF r

LEMMA OneMore ==
    ASSUME NEW s \in Seq(Handler), Distinct(s), NEW h \in Handler,
           \A g \in ToSet(s) : owner[g] # owner[h]
    PROVE  /\ Append(s, h) \in Seq(Handler)
           /\ Len(Append(s, h)) = Len(s) + 1
           /\ Distinct(Append(s, h))
           /\ ToSet(Append(s, h)) = ToSet(s) \cup {h}
<1> DEFINE r == Append(s, h)
<1>1. /\ r \in Seq(Handler) /\ Len(r) = Len(s) + 1 /\ Len(s) \in Nat
      /\ \A i \in 1..Len(s) : r[i] = s[i]
      /\ r[Len(s) + 1] = h
  BY AppendProperties, LenProperties
<1> HIDE DEF r
<1>2. /\ Distinct(r) <=> Apart(r, owner)
      /\ ToSet(r) = {r[i] : i \in 1..(Len(s) + 1)}
      /\ ToSet(s) = {s[i] : i \in 1..Len(s)} /\ Apart(s, owner)
  BY <1>1, DistinctIsApart
<1>3. \A i \in 1..(Len(s) + 1) : i \in 1..Len(s) \/ i = Len(s) + 1
  BY <1>1
<1>4. Apart(r, owner)
  <2> SUFFICES ASSUME NEW i \in 1..(Len(s) + 1), NEW j \in 1..(Len(s) + 1),
                      owner[r[i]] = owner[r[j]]
               PROVE  i = j
    BY <1>1 DEF Apart
  <2>1. ASSUME NEW n \in 1..Len(s)
        PROVE  r[n] = s[n] /\ owner[r[n]] # owner[h]
    <3>1. s[n] \in ToSet(s)
      BY <1>2
    <3>2. QED
      BY <1>1, <3>1
  <2>2. CASE i \in 1..Len(s) /\ j \in 1..Len(s)
    BY <1>2, <2>1, <2>2 DEF Apart
  <2>3. CASE ~(i \in 1..Len(s) /\ j \in 1..Len(s))
    BY <1>1, <1>3, <2>1, <2>3
  <2>4. QED
    BY <2>2, <2>3
<1>5. ToSet(r) = ToSet(s) \cup {h}
  <2>1. 1..Len(s) \subseteq 1..(Len(s) + 1) /\ Len(s) + 1 \in 1..(Len(s) + 1)
    BY <1>1
  <2>2. ASSUME NEW i \in 1..(Len(s) + 1)
        PROVE  r[i] \in ToSet(s) \cup {h}
    BY <1>1, <1>2, <1>3
  <2>3. ASSUME NEW i \in 1..Len(s)
        PROVE  s[i] \in ToSet(r)
    <3>1. r[i] = s[i] /\ i \in 1..(Len(s) + 1)
      BY <1>1, <2>1
    <3>2. QED
      BY <1>2, <3>1
  <2>4. h \in ToSet(r)
    BY <1>1, <1>2, <2>1
  <2>5. ToSet(r) \subseteq ToSet(s) \cup {h}
    BY <1>2, <2>2
  <2>6. ToSet(s) \cup {h} \subseteq ToSet(r)
    BY <1>2, <2>3, <2>4
  <2>7. QED
    BY <2>5, <2>6
<1>6. QED
  BY <1>1, <1>2, <1>4, <1>5 DEF r

LEMMA EldestGone ==
    ASSUME NEW s \in Seq(Handler), Distinct(s), s # <<>>
    PROVE  /\ Tail(s) \in Seq(Handler)
           /\ Len(Tail(s)) = Len(s) - 1
           /\ Distinct(Tail(s))
           /\ ToSet(Tail(s)) \subseteq ToSet(s)
<1> DEFINE r == Tail(s)
<1>1. /\ r \in Seq(Handler) /\ Len(r) = Len(s) - 1 /\ Len(s) \in Nat
      /\ \A i \in 1..Len(r) : i \in Nat /\ i + 1 \in 1..Len(s) /\ r[i] = s[i + 1]
  BY HeadTailProperties, LenProperties
<1> HIDE DEF r
<1>2. /\ Distinct(r) <=> Apart(r, owner)
      /\ ToSet(r) = {r[i] : i \in 1..Len(r)}
      /\ ToSet(s) = {s[i] : i \in 1..Len(s)} /\ Apart(s, owner)
  BY <1>1, DistinctIsApart
<1>3. \A i, j \in 1..Len(r) : i + 1 = j + 1 => i = j
  OBVIOUS
<1>4. Apart(r, owner)
  <2> SUFFICES ASSUME NEW i \in 1..Len(r), NEW j \in 1..Len(r), owner[r[i]] = owner[r[j]]
               PROVE  i = j
    BY DEF Apart
  <2>1. owner[s[i + 1]] = owner[s[j + 1]] /\ i + 1 \in 1..Len(s) /\ j + 1 \in 1..Len(s)
    BY <1>1
  <2>2. i + 1 = j + 1
    BY <1>2, <2>1 DEF Apart
  <2>3. QED
    BY <1>3, <2>2
<1>5. ToSet(r) \subseteq ToSet(s)
  BY <1>1, <1>2
<1>6. QED
  BY <1>1, <1>2, <1>4, <1>5 DEF r

(* cache.remove: the entry of a client leaves, if there is one.            *)
LEMMA WithoutLess ==
    ASSUME cache \in Seq(Handler), Distinct(cache), NEW c \in Client
    PROVE  /\ Without(c) \in Seq(Handler) /\ Len(Without(c)) <= Len(cache)
           /\ Cached(c) # {} => Len(Without(c)) < Len(cache)
           /\ Distinct(Without(c))
           /\ ToSet(Without(c)) = {h \in ToSet(cache) : owner[h] # c}
<1>1. /\ Len(cache) \in Nat /\ DOMAIN cache = 1..Len(cache)
      /\ ToSet(cache) = {cache[i] : i \in 1..Len(cache)}
  BY DistinctIsApart
<1>2. CASE Cached(c) = {}
  <2>1. Without(c) = cache
    BY <1>2 DEF Without
  <2>2. \A h \in ToSet(cache) : owner[h] # c
    BY <1>2 DEF Cached
  <2>3. QED
    BY <1>1, <1>2, <2>1, <2>2
<1>3. CASE Cached(c) # {}
  <2> DEFINE k == CHOOSE i \in DOMAIN cache : owner[cache[i]] = c
  <2>1. k \in DOMAIN cache /\ owner[cache[k]] = c
    BY <1>1, <1>3 DEF Cached
  <2>2. Without(c) = RemoveAt(cache, k)
    BY <1>3 DEF Without
  <2> HIDE DEF k
  <2>3. /\ Without(c) \in Seq(Handler) /\ Len(Without(c)) = Len(cache) - 1
        /\ Distinct(Without(c))
        /\ ToSet(Without(c)) = {h \in ToSet(cache) : owner[h] # c}
    BY <2>1, <2>2, OneLess
  <2>4. QED
    BY <1>1, <2>3
<1>4. QED
  BY <1>2, <1>3

-----------------------------------------------------------------------------
(* The type invariant: the cache, the flags and the rest.                  *)
CacheTyped == cache \in Seq(Handler) /\ Len(cache) <= Capacity /\ Distinct(cache)
FlagsTyped == mayFail \in BOOLEAN /\ isRunning \in BOOLEAN /\ udpServer \in BOOLEAN
RestTyped ==
    /\ run \in {"started", "check", "create", "inner", "receive", "waiting", "lookup",
                "make", "put", "execute", "send", "close", "ended", "barred"}
    /\ stop \in {"none", "close", "evict", "null", "shutdown", "returned", "thrown"}
    /\ sock \in {"none", "open", "closed"}
    /\ exec \in {"null", "up", "shut"}
    /\ packets \in 0..MaxPackets
    /\ cur \in [client : Client, handler : Handler \cup {NoHandler}]
    /\ owner \in [Handler -> Client]
    /\ pc \in [Handler -> {"none", "made", "check", "receive", "send", "remove",
                           "broken", "ended"}]
    /\ skt \in [Handler -> {"none", "open", "closed"}]
    /\ asked \subseteq Handler /\ inbox \subseteq asked

IInv == CacheTyped /\ FlagsTyped /\ RestTyped /\ Numbered /\ InHand /\ Stopping /\ CachedIsServed

LEMMA TypeParts == TypeOK <=> CacheTyped /\ FlagsTyped /\ RestTyped
BY DEF TypeOK, CacheTyped, FlagsTyped, RestTyped

LEMMA NoPacketTyped == NoPacket \in [client : Client, handler : Handler \cup {NoHandler}]
BY DEF NoPacket, FirstClient

(* The cache is left alone.                                                *)
LEMMA CacheKept ==
    ASSUME CacheTyped, UNCHANGED <<cache, owner>>
    PROVE  CacheTyped' /\ ToSet(cache') = ToSet(cache) /\ \A c : Cached(c)' = Cached(c)
BY DEF CacheTyped, Distinct, Cached

LEMMA InitIInv == Init => IInv
<1> SUFFICES ASSUME Init PROVE IInv
  OBVIOUS
<1>1. cache = <<>> /\ run = "started" /\ stop = "none" /\ exec = "null"
  BY DEF Init
<1>2. ToSet(cache) = {} /\ CacheTyped
  <2>1. <<>> \in Seq(Handler) /\ Len(<<>>) = 0 /\ DOMAIN <<>> = {}
    BY LenProperties
  <2>2. QED
    BY <1>1, <2>1 DEF ToSet, CacheTyped, Distinct
<1>3. FlagsTyped /\ RestTyped
  <2>1. FlagsTyped
    BY DEF Init, FlagsTyped
  <2>2. owner = [h \in Handler |-> FirstClient] /\ FirstClient \in Client
    BY DEF Init, FirstClient
  <2>3. RestTyped
    BY <2>2, NoPacketTyped DEF Init, RestTyped
  <2>4. QED
    BY <2>1, <2>3
<1>4. Numbered /\ InHand /\ Stopping /\ CachedIsServed
  BY <1>1, <1>2 DEF Numbered, InHand, Stopping, CachedIsServed
<1>5. QED
  BY <1>2, <1>3, <1>4 DEF IInv

LEMMA WhatHolds ==
    ASSUME IInv
    PROVE  /\ CacheTyped /\ FlagsTyped /\ RestTyped /\ Numbered /\ InHand /\ Stopping /\ CachedIsServed
           /\ ToSet(cache) \subseteq Handler
BY DistinctIsApart DEF IInv, CacheTyped

(* The server's thread, but for what it does with the packet in hand.      *)
LEMMA LoopStep ==
    ASSUME IInv, Begin \/ Check \/ Create \/ Receive \/ Send \/ Close
    PROVE  IInv'
<1>1. /\ CacheTyped /\ FlagsTyped /\ RestTyped /\ Numbered /\ InHand /\ Stopping /\ CachedIsServed
      /\ ToSet(cache) \subseteq Handler
  BY WhatHolds
<1>2. UNCHANGED <<cache, owner, pc, isRunning, stop>>
  BY DEF Begin, Check, Create, Receive, Send, Close, Idle, Quiet, handlerVars
<1>3. CacheTyped' /\ ToSet(cache') = ToSet(cache) /\ \A c : Cached(c)' = Cached(c)
  BY <1>1, <1>2, CacheKept
<1>4. CASE Begin \/ Check \/ Create \/ Close
  <2>1. /\ UNCHANGED <<packets, cur, mayFail, skt, asked, inbox>>
        /\ run' \in {"check", "create", "ended", "barred", "receive", "close", "inner"}
        /\ run \in {"started", "check", "inner", "create", "close"}
        /\ sock' \in {sock, "open", "closed"} /\ udpServer' \in {udpServer, TRUE}
        /\ exec' = exec \/ exec' = "up"
        /\ run = "started" => exec' = "up"
    BY <1>4 DEF Begin, Check, Create, Close, Idle, Quiet, handlerVars, netVars, sockVars
  <2>2. RestTyped' /\ FlagsTyped'
    <3>1. FlagsTyped'
      BY <1>1, <1>2, <2>1 DEF FlagsTyped
    <3>2. RestTyped'
      BY <1>1, <1>2, <2>1 DEF RestTyped
    <3>3. QED
      BY <3>1, <3>2
  <2>3. Numbered' /\ InHand' /\ Stopping' /\ CachedIsServed'
    BY <1>1, <1>2, <1>3, <2>1 DEF Numbered, InHand, Stopping, CachedIsServed, Serving
  <2>4. QED
    BY <1>3, <2>2, <2>3 DEF IInv
<1>5. CASE Receive
  <2>1. CASE run' # "lookup"
    <3>1. /\ UNCHANGED <<packets, cur, mayFail, skt, asked, inbox, sock, udpServer, exec>>
          /\ run' \in {"waiting", "close"} /\ run \in {"receive", "waiting"}
      BY <1>5, <2>1 DEF Receive, Idle, Quiet, handlerVars, netVars, sockVars
    <3>2. RestTyped' /\ FlagsTyped'
      BY <1>1, <1>2, <3>1 DEF RestTyped, FlagsTyped
    <3>3. Numbered' /\ InHand' /\ Stopping' /\ CachedIsServed'
      BY <1>1, <1>2, <1>3, <3>1 DEF Numbered, InHand, Stopping, CachedIsServed, Serving
    <3>4. QED
      BY <1>3, <3>2, <3>3 DEF IInv
  <2>2. CASE run' = "lookup"
    <3>1. /\ UNCHANGED <<mayFail, skt, asked, inbox, sock, udpServer, exec>>
          /\ run = "waiting" /\ packets < MaxPackets /\ packets' = packets + 1
          /\ \E c \in Client : cur' = [client |-> c, handler |-> NoHandler]
      BY <1>5, <2>2 DEF Receive, Idle, Quiet, handlerVars, netVars, sockVars
    <3>2. packets \in Nat /\ packets' \in 0..MaxPackets /\ packets' > 0
      BY <1>1, <3>1 DEF RestTyped, FlagsTyped
    <3>3. RestTyped' /\ FlagsTyped'
      BY <1>1, <1>2, <2>2, <3>1, <3>2 DEF RestTyped, FlagsTyped
    <3>4. Numbered'
      <4>1. \A h \in ToSet(cache) : h \in Nat /\ h <= packets
        BY <1>1 DEF Numbered
      <4>2. \A h \in ToSet(cache) : h < packets'
        BY <3>1, <3>2, <4>1
      <4>3. QED
        BY <1>3, <3>2, <4>1, <4>2 DEF Numbered
    <3>5. InHand' /\ Stopping' /\ CachedIsServed'
      BY <1>1, <1>2, <1>3, <2>2, <3>1 DEF InHand, Stopping, CachedIsServed, Serving
    <3>6. QED
      BY <1>3, <3>3, <3>4, <3>5 DEF IInv
  <2>3. QED
    BY <2>1, <2>2
<1>6. CASE Send
  <2>1. /\ UNCHANGED <<packets, mayFail, skt, inbox, sock, udpServer, exec>>
        /\ run = "send" /\ run' \in {"inner", "close"} /\ cur' = NoPacket
        /\ asked' = asked \/ asked' = asked \cup {cur.handler}
    BY <1>6 DEF Send, handlerVars, sockVars
  <2>2. cur.handler \in Handler
    BY <1>1, <2>1 DEF InHand
  <2>3. RestTyped' /\ FlagsTyped'
    <3>1. FlagsTyped'
      BY <1>1, <1>2, <2>1 DEF FlagsTyped
    <3>2. cur' \in [client : Client, handler : Handler \cup {NoHandler}]
      BY <2>1, NoPacketTyped
    <3>3. asked' \subseteq Handler /\ inbox' \subseteq asked'
      BY <1>1, <2>1, <2>2 DEF RestTyped
    <3>4. RestTyped'
      BY <1>1, <1>2, <2>1, <3>2, <3>3 DEF RestTyped
    <3>5. QED
      BY <3>1, <3>4
  <2>4. Numbered' /\ InHand' /\ Stopping' /\ CachedIsServed'
    BY <1>1, <1>2, <1>3, <2>1 DEF Numbered, InHand, Stopping, CachedIsServed, Serving
  <2>5. QED
    BY <1>3, <2>3, <2>4 DEF IInv
<1>7. QED
  BY <1>4, <1>5, <1>6

(* cache.get: nothing cached for the client, or its handler made youngest. *)
LEMMA LookupStep ==
    ASSUME IInv, Lookup
    PROVE  IInv'
<1>1. /\ CacheTyped /\ FlagsTyped /\ RestTyped /\ Numbered /\ InHand /\ Stopping /\ CachedIsServed
      /\ ToSet(cache) \subseteq Handler /\ cur.client \in Client /\ run = "lookup"
      /\ UNCHANGED <<mayFail, packets, stop, isRunning, sock, udpServer, exec, owner, pc, skt, asked, inbox>>
  BY WhatHolds DEF Lookup, Quiet, handlerVars, netVars, sockVars, RestTyped
<1>2. CASE Cached(cur.client) = {}
  <2>1. run' = "make" /\ UNCHANGED <<cache, cur>>
    BY <1>2 DEF Lookup
  <2>2. CacheTyped' /\ ToSet(cache') = ToSet(cache) /\ \A c : Cached(c)' = Cached(c)
    BY <1>1, <2>1, CacheKept
  <2>3. RestTyped' /\ FlagsTyped'
    BY <1>1, <2>1 DEF RestTyped, FlagsTyped
  <2>4. Numbered' /\ InHand' /\ Stopping' /\ CachedIsServed'
    BY <1>1, <1>2, <2>1, <2>2 DEF Numbered, InHand, Stopping, CachedIsServed, Serving
  <2>5. QED
    BY <2>2, <2>3, <2>4 DEF IInv
<1>3. CASE Cached(cur.client) # {}
  <2>1. PICK h \in Cached(cur.client) :
            /\ cur' = [cur EXCEPT !.handler = h]
            /\ cache' = Append(Without(cur.client), h)
            /\ run' = "send"
    BY <1>3 DEF Lookup
  <2>2. h \in ToSet(cache) /\ owner[h] = cur.client /\ h \in Handler
    BY <1>1 DEF Cached
  <2> DEFINE s == Without(cur.client)
  <2>3. /\ s \in Seq(Handler) /\ Len(s) < Len(cache) /\ Distinct(s)
        /\ ToSet(s) = {g \in ToSet(cache) : owner[g] # cur.client}
    BY <1>1, <1>3, WithoutLess DEF CacheTyped
  <2> HIDE DEF s
  <2>4. \A g \in ToSet(s) : owner[g] # owner[h]
    BY <2>2, <2>3
  <2>5. /\ Append(s, h) \in Seq(Handler) /\ Len(Append(s, h)) = Len(s) + 1
        /\ Distinct(Append(s, h)) /\ ToSet(Append(s, h)) = ToSet(s) \cup {h}
    BY <2>2, <2>3, <2>4, OneMore
  <2>6. cache' = Append(s, h)
    BY <2>1 DEF s
  <2>7. CacheTyped' /\ ToSet(cache') \subseteq ToSet(cache)
    <3>1. Len(cache') <= Capacity
      <4>1. Len(s) \in Nat /\ Len(cache) \in Nat /\ Len(cache) <= Capacity
        BY <1>1, <2>3, LenProperties DEF CacheTyped
      <4>2. QED
        BY <2>3, <2>5, <2>6, <4>1
    <3>2. Distinct(cache)'
      BY <1>1, <2>5, <2>6 DEF Distinct
    <3>3. QED
      BY <2>2, <2>3, <2>5, <2>6, <3>1, <3>2 DEF CacheTyped
  <2>8. cur' \in [client : Client, handler : Handler \cup {NoHandler}] /\ cur'.handler = h
    BY <1>1, <2>1, <2>2 DEF RestTyped
  <2>9. RestTyped' /\ FlagsTyped'
    BY <1>1, <2>1, <2>8 DEF RestTyped, FlagsTyped
  <2>10. Numbered' /\ InHand' /\ Stopping' /\ CachedIsServed'
    BY <1>1, <2>1, <2>2, <2>7, <2>8 DEF Numbered, InHand, Stopping, CachedIsServed, Serving
  <2>11. QED
    BY <2>7, <2>9, <2>10 DEF IInv
<1>4. QED
  BY <1>2, <1>3

(* A handler that is not cached is made, or the packet is given up.        *)
LEMMA MakeStep ==
    ASSUME IInv, Make
    PROVE  IInv'
<1>1. /\ CacheTyped /\ FlagsTyped /\ RestTyped /\ Numbered /\ InHand /\ Stopping /\ CachedIsServed
      /\ ToSet(cache) \subseteq Handler /\ run = "make"
      /\ UNCHANGED <<mayFail, packets, stop, isRunning, sock, udpServer, exec, cache, asked, inbox>>
  BY WhatHolds DEF Make, netVars, sockVars
<1>2. /\ packets \in Handler /\ \A h \in ToSet(cache) : h # packets
      /\ Cached(cur.client) = {} /\ cur.client \in Client
      /\ owner \in [Handler -> Client] /\ pc \in [Handler -> {"none", "made", "check", "receive",
                           "send", "remove", "broken", "ended"}]
  <2>1. packets \in 0..MaxPackets /\ packets > 0
    BY <1>1 DEF RestTyped, Numbered
  <2>2. \A h \in ToSet(cache) : h < packets
    BY <1>1 DEF Numbered
  <2>3. QED
    BY <1>1, <2>1, <2>2 DEF RestTyped, InHand
<1>3. CASE run' \in {"inner", "close"}
  <2>1. cur' = NoPacket /\ UNCHANGED <<owner, pc, skt>>
    BY <1>3 DEF Make
  <2>2. CacheTyped' /\ ToSet(cache') = ToSet(cache) /\ \A c : Cached(c)' = Cached(c)
    BY <1>1, <2>1, CacheKept
  <2>3. RestTyped' /\ FlagsTyped'
    BY <1>1, <1>3, <2>1, NoPacketTyped DEF RestTyped, FlagsTyped
  <2>4. Numbered' /\ InHand' /\ Stopping' /\ CachedIsServed'
    BY <1>1, <1>3, <2>1, <2>2 DEF Numbered, InHand, Stopping, CachedIsServed, Serving
  <2>5. QED
    BY <2>2, <2>3, <2>4 DEF IInv
<1>4. CASE run' = "put"
  <2>1. /\ cur' = [cur EXCEPT !.handler = packets]
        /\ owner' = [owner EXCEPT ![packets] = cur.client]
        /\ pc' = [pc EXCEPT ![packets] = "made"]
        /\ skt' = [skt EXCEPT ![packets] = "open"]
    BY <1>4 DEF Make
  <2>2. /\ \A h \in ToSet(cache) : owner'[h] = owner[h] /\ pc'[h] = pc[h]
        /\ owner'[packets] = cur.client /\ pc'[packets] = "made"
    BY <1>1, <1>2, <2>1
  <2>3. cur' \in [client : Client, handler : Handler \cup {NoHandler}]
        /\ cur'.handler = packets /\ cur'.client = cur.client
    BY <1>1, <1>2, <2>1 DEF RestTyped
  <2>4. CacheTyped'
    <3>1. \A i \in DOMAIN cache : cache[i] \in ToSet(cache)
      BY DEF ToSet
    <3>2. Distinct(cache)'
      BY <1>1, <2>2, <3>1 DEF CacheTyped, Distinct
    <3>3. QED
      BY <1>1, <3>2 DEF CacheTyped
  <2>5. RestTyped' /\ FlagsTyped'
    <3>1. FlagsTyped'
      BY <1>1 DEF FlagsTyped
    <3>2. /\ owner' \in [Handler -> Client]
          /\ pc' \in [Handler -> {"none", "made", "check", "receive", "send", "remove",
                                  "broken", "ended"}]
          /\ skt' \in [Handler -> {"none", "open", "closed"}]
      BY <1>1, <1>2, <2>1 DEF RestTyped
    <3>3. RestTyped'
      BY <1>1, <1>4, <2>3, <3>2 DEF RestTyped
    <3>4. QED
      BY <3>1, <3>3
  <2>6. Numbered' /\ Stopping'
    BY <1>1, <1>4 DEF Numbered, Stopping
  <2>7. InHand'
    <3>1. \A h \in ToSet(cache) : owner'[h] # cur'.client
      BY <1>2, <2>2, <2>3 DEF Cached
    <3>2. ToSet(cache') = ToSet(cache)
      BY <1>1
    <3>3. Cached(cur.client)' = {}
      BY <3>1, <3>2 DEF Cached
    <3>4. cur'.handler = packets' /\ cur'.handler \in Handler
      BY <1>1, <1>2, <2>3
    <3>5. owner'[cur'.handler] = cur'.client /\ pc'[cur'.handler] = "made"
      BY <2>2, <2>3
    <3>6. QED
      BY <1>4, <3>3, <3>4, <3>5 DEF InHand
  <2>8. CachedIsServed'
    BY <1>1, <2>2 DEF CachedIsServed, Serving
  <2>9. QED
    BY <2>4, <2>5, <2>6, <2>7, <2>8 DEF IInv
<1>5. QED
  BY <1>3, <1>4 DEF Make

(* cache.put: the new handler is the youngest, and the eldest may go.      *)
LEMMA PutStep ==
    ASSUME IInv, Put
    PROVE  IInv'
<1> DEFINE new == Append(cache, cur.handler)
<1>1. /\ CacheTyped /\ FlagsTyped /\ RestTyped /\ Numbered /\ InHand /\ Stopping /\ CachedIsServed
      /\ ToSet(cache) \subseteq Handler /\ run = "put" /\ run' = "execute"
      /\ cache' = IF Len(new) > Capacity THEN Tail(new) ELSE new
      /\ UNCHANGED <<mayFail, packets, cur, stop, isRunning, sock, udpServer, exec, owner, pc, skt, asked, inbox>>
  BY WhatHolds DEF Put, Quiet, handlerVars, netVars, sockVars
<1>2. /\ cur.handler \in Handler /\ cur.handler = packets /\ pc[cur.handler] = "made"
      /\ \A h \in ToSet(cache) : h < packets /\ owner[h] # owner[cur.handler]
  BY <1>1 DEF InHand, Numbered, Cached
<1>3. /\ new \in Seq(Handler) /\ Len(new) = Len(cache) + 1 /\ Distinct(new)
      /\ ToSet(new) = ToSet(cache) \cup {cur.handler} /\ Len(cache) \in Nat
      /\ Len(cache) <= Capacity
  BY <1>1, <1>2, OneMore, LenProperties DEF CacheTyped
<1> HIDE DEF new
<1>4. /\ cache' \in Seq(Handler) /\ Len(cache') <= Capacity /\ Distinct(cache')
      /\ ToSet(cache') \subseteq ToSet(cache) \cup {cur.handler}
  <2>1. CASE Len(new) > Capacity
    <3>1. Len(new) # 0
      BY <1>3
    <3>2. new # <<>>
      BY <3>1, LenProperties
    <3>3. /\ Tail(new) \in Seq(Handler) /\ Len(Tail(new)) = Len(new) - 1
          /\ Distinct(Tail(new)) /\ ToSet(Tail(new)) \subseteq ToSet(new)
      BY <1>3, <3>2, EldestGone
    <3>4. cache' = Tail(new) /\ Len(Tail(new)) <= Capacity
      BY <1>1, <1>3, <2>1, <3>3
    <3>5. QED
      BY <1>3, <3>3, <3>4
  <2>2. CASE ~(Len(new) > Capacity)
    BY <1>1, <1>3, <2>2
  <2>3. QED
    BY <2>1, <2>2
<1>5. CacheTyped'
  <2>1. Distinct(cache)'
    BY <1>1, <1>4 DEF Distinct
  <2>2. QED
    BY <1>4, <2>1 DEF CacheTyped
<1>6. RestTyped' /\ FlagsTyped'
  BY <1>1 DEF RestTyped, FlagsTyped
<1>7. Numbered'
  <2>1. \A h \in ToSet(cache') : h <= packets
    BY <1>1, <1>2, <1>4
  <2>2. QED
    BY <1>1, <2>1 DEF Numbered
<1>8. InHand' /\ Stopping' /\ CachedIsServed'
  BY <1>1, <1>2, <1>4 DEF InHand, Stopping, CachedIsServed, Serving
<1>9. QED
  BY <1>5, <1>6, <1>7, <1>8 DEF IInv

(* The pool is given the new handler; only a stop makes it refuse.         *)
LEMMA ExecuteStep ==
    ASSUME IInv, Execute
    PROVE  IInv'
<1>1. /\ CacheTyped /\ FlagsTyped /\ RestTyped /\ Numbered /\ InHand /\ Stopping /\ CachedIsServed
      /\ ToSet(cache) \subseteq Handler /\ run = "execute"
      /\ UNCHANGED <<mayFail, packets, stop, isRunning, sock, udpServer, exec, owner, skt, cache, asked, inbox>>
  BY WhatHolds DEF Execute, netVars, sockVars
<1>2. CacheTyped' /\ ToSet(cache') = ToSet(cache) /\ cur.handler \in Handler
  BY <1>1, CacheKept DEF InHand
<1>3. pc \in [Handler -> {"none", "made", "check", "receive", "send", "remove", "broken", "ended"}]
  BY <1>1 DEF RestTyped
<1>4. FlagsTyped' /\ Stopping'
  BY <1>1 DEF FlagsTyped, Stopping, Execute
<1>5. CASE exec = "up"
  <2>1. run' = "send" /\ pc' = [pc EXCEPT ![cur.handler] = "check"] /\ UNCHANGED cur
    BY <1>5 DEF Execute
  <2>2. pc'[cur.handler] = "check" /\ \A h \in Handler \ {cur.handler} : pc'[h] = pc[h]
    BY <1>2, <1>3, <2>1
  <2>3. RestTyped'
    BY <1>1, <1>2, <1>3, <2>1 DEF RestTyped
  <2>4. Numbered' /\ InHand'
    BY <1>1, <1>2, <2>1 DEF Numbered, InHand
  <2>5. CachedIsServed'
    BY <1>1, <1>2, <2>1, <2>2 DEF CachedIsServed, Serving
  <2>6. QED
    BY <1>2, <1>4, <2>3, <2>4, <2>5 DEF IInv
<1>6. CASE exec # "up"
  <2>1. run' = "close" /\ cur' = NoPacket /\ UNCHANGED pc
    BY <1>6 DEF Execute
  <2>2. ~isRunning
    BY <1>1, <1>6 DEF Stopping, RestTyped
  <2>3. RestTyped'
    BY <1>1, <2>1, NoPacketTyped DEF RestTyped
  <2>4. Numbered' /\ InHand' /\ CachedIsServed'
    BY <1>1, <1>2, <2>1, <2>2 DEF Numbered, InHand, CachedIsServed
  <2>5. QED
    BY <1>2, <1>4, <2>3, <2>4 DEF IInv
<1>7. QED
  BY <1>5, <1>6

(* A handler's thread in its loop: it goes on being one that serves.       *)
LEMMA HandlerStep ==
    ASSUME IInv, NEW h \in Handler,
           HandlerCheck(h) \/ HandlerReceive(h) \/ HandlerFails(h) \/ HandlerSend(h)
    PROVE  IInv'
<1>1. /\ CacheTyped /\ FlagsTyped /\ RestTyped /\ Numbered /\ InHand /\ Stopping /\ CachedIsServed
      /\ ToSet(cache) \subseteq Handler
      /\ UNCHANGED <<mayFail, run, packets, cur, stop, isRunning, sock, udpServer, exec, owner, skt, cache, asked>>
  BY WhatHolds DEF HandlerCheck, HandlerReceive, HandlerFails, HandlerSend, Still, netVars,
                   srvVars, sockVars
<1>2. /\ pc \in [Handler -> {"none", "made", "check", "receive", "send", "remove", "broken", "ended"}]
      /\ inbox \subseteq asked /\ asked \subseteq Handler
  BY <1>1 DEF RestTyped
<1>3. /\ pc[h] \in {"check", "receive", "send"}
      /\ \E l \in {"receive", "ended", "send", "broken", "remove", "check"} :
            Goto(h, l) /\ (isRunning => l # "ended")
      /\ inbox' \subseteq inbox
  BY DEF HandlerCheck, HandlerReceive, HandlerFails, HandlerSend, netVars
<1>4. PICK l \in {"receive", "ended", "send", "broken", "remove", "check"} :
          Goto(h, l) /\ (isRunning => l # "ended")
  BY <1>3
<1>5. /\ pc'[h] = l /\ \A g \in Handler \ {h} : pc'[g] = pc[g]
      /\ pc' \in [Handler -> {"none", "made", "check", "receive", "send", "remove", "broken", "ended"}]
  BY <1>2, <1>4 DEF Goto
<1>6. CacheTyped' /\ ToSet(cache') = ToSet(cache) /\ \A c : Cached(c)' = Cached(c)
  BY <1>1, CacheKept
<1>7. FlagsTyped' /\ Stopping' /\ Numbered'
  BY <1>1, <1>6 DEF FlagsTyped, Stopping, Numbered
<1>8. RestTyped'
  <2>1. inbox' \subseteq asked'
    BY <1>1, <1>2, <1>3
  <2>2. QED
    BY <1>1, <1>5, <2>1 DEF RestTyped
<1>9. InHand'
  BY <1>1, <1>3, <1>5, <1>6 DEF InHand
<1>10. CachedIsServed'
  BY <1>1, <1>4, <1>5, <1>6 DEF CachedIsServed, Serving
<1>11. QED
  BY <1>6, <1>7, <1>8, <1>9, <1>10 DEF IInv

(* A handler's thread ends: the entry of its client goes, whosesoever it   *)
(* is by then, and its own with it.                                        *)
LEMMA HandlerEndsStep ==
    ASSUME IInv, NEW h \in Handler, HandlerEnds(h)
    PROVE  IInv'
<1>1. /\ CacheTyped /\ FlagsTyped /\ RestTyped /\ Numbered /\ InHand /\ Stopping /\ CachedIsServed
      /\ ToSet(cache) \subseteq Handler
      /\ UNCHANGED <<mayFail, run, packets, cur, stop, isRunning, sock, udpServer, exec, owner>>
      /\ pc[h] = "remove" /\ pc' = [pc EXCEPT ![h] = "ended"]
      /\ cache' = Without(owner[h])
      /\ skt' = [skt EXCEPT ![h] = "closed"]
      /\ asked' = asked \ {h} /\ inbox' = inbox \ {h}
  BY WhatHolds DEF HandlerEnds, Goto, Still, srvVars, sockVars
<1>2. /\ pc \in [Handler -> {"none", "made", "check", "receive", "send", "remove", "broken", "ended"}]
      /\ skt \in [Handler -> {"none", "open", "closed"}]
      /\ inbox \subseteq asked /\ asked \subseteq Handler /\ owner[h] \in Client
  BY <1>1 DEF RestTyped
<1>3. /\ cache' \in Seq(Handler) /\ Len(cache') <= Len(cache) /\ Distinct(cache')
      /\ ToSet(cache') = {g \in ToSet(cache) : owner[g] # owner[h]}
  BY <1>1, <1>2, WithoutLess DEF CacheTyped
<1>4. CacheTyped'
  <2>1. Len(cache) \in Nat /\ Len(cache') \in Nat /\ Len(cache) <= Capacity
    BY <1>1, <1>3, LenProperties DEF CacheTyped
  <2>2. Distinct(cache)'
    BY <1>1, <1>3 DEF Distinct
  <2>3. QED
    BY <1>3, <2>1, <2>2 DEF CacheTyped
<1>5. ToSet(cache') \subseteq ToSet(cache) \ {h}
  BY <1>3
<1>6. FlagsTyped' /\ Stopping' /\ Numbered'
  BY <1>1, <1>5 DEF FlagsTyped, Stopping, Numbered
<1>7. RestTyped'
  BY <1>1, <1>2 DEF RestTyped
<1>8. InHand'
  <2>1. Cached(cur.client) = {} => Cached(cur.client)' = {}
    BY <1>1, <1>5 DEF Cached
  <2>2. run \in {"put", "execute"} => pc'[cur.handler] = "made"
    BY <1>1, <1>2 DEF InHand
  <2>3. QED
    BY <1>1, <2>1, <2>2 DEF InHand
<1>9. CachedIsServed'
  <2>1. \A g \in ToSet(cache') : pc'[g] = pc[g] /\ g \in ToSet(cache)
    BY <1>1, <1>2, <1>5
  <2>2. QED
    BY <1>1, <2>1 DEF CachedIsServed, Serving
<1>10. QED
  BY <1>4, <1>6, <1>7, <1>8, <1>9 DEF IInv

(* The network and the stop.                                               *)
LEMMA OutsideStep ==
    ASSUME IInv, (\E h \in Handler : Network(h)) \/ StopFlag \/ StopClose \/ StopNull \/ StopShutdown
    PROVE  IInv'
<1>1. /\ CacheTyped /\ FlagsTyped /\ RestTyped /\ Numbered /\ InHand /\ Stopping /\ CachedIsServed
      /\ UNCHANGED <<mayFail, run, packets, cur, owner, pc, skt, cache, asked>>
  BY WhatHolds DEF Network, StopFlag, StopClose, StopNull, StopShutdown, Others, srvVars, sockVars,
                   handlerVars, netVars
<1>2. /\ inbox' \subseteq asked
      /\ isRunning' \in {isRunning, FALSE} /\ udpServer' \in {udpServer, FALSE}
      /\ sock' \in {sock, "closed"}
      /\ stop' \in {"close", "evict", "shutdown", "thrown", "returned"} \/ UNCHANGED stop
      /\ exec' = exec \/ (exec # "null" /\ exec' = "shut" /\ stop = "shutdown")
  <2>1. inbox \subseteq asked
    BY <1>1 DEF RestTyped
  <2>2. QED
    BY <2>1 DEF Network, StopFlag, StopClose, StopNull, StopShutdown, StopGoto, Others, srvVars,
                sockVars, handlerVars, netVars
<1>3. CacheTyped' /\ ToSet(cache') = ToSet(cache) /\ \A c : Cached(c)' = Cached(c)
  BY <1>1, CacheKept
<1>4. Numbered' /\ InHand'
  BY <1>1, <1>3 DEF Numbered, InHand
<1>5. CachedIsServed'
  <2>1. isRunning' => isRunning
    BY <1>2
  <2>2. QED
    BY <1>1, <1>3, <2>1 DEF CachedIsServed, Serving
<1>6. FlagsTyped'
  BY <1>1, <1>2 DEF FlagsTyped
<1>7. RestTyped'
  BY <1>1, <1>2 DEF RestTyped
<1>8. Stopping'
  <2>1. isRunning' => isRunning /\ stop' = stop
    <3>1. CASE \E h \in Handler : Network(h)
      BY <3>1 DEF Network, srvVars
    <3>2. CASE StopFlag
      BY <3>2 DEF StopFlag
    <3>3. CASE StopClose \/ StopNull \/ StopShutdown
      BY <1>1, <3>3 DEF StopClose, StopNull, StopShutdown, StopGoto, Stopping
    <3>4. QED
      BY <3>1, <3>2, <3>3
  <2>2. exec' = "shut" => exec = "shut" \/ ~isRunning
    BY <1>1, <1>2 DEF Stopping
  <2>3. exec' = "null" => exec = "null"
    BY <1>2
  <2>4. QED
    BY <1>1, <2>1, <2>2, <2>3 DEF Stopping
<1>9. QED
  BY <1>3, <1>4, <1>5, <1>6, <1>7, <1>8 DEF IInv

(* evictAll.                                                               *)
LEMMA StopEvictStep ==
    ASSUME IInv, StopEvict
    PROVE  IInv'
<1>1. /\ CacheTyped /\ FlagsTyped /\ RestTyped /\ Numbered /\ InHand /\ Stopping
      /\ UNCHANGED <<mayFail, run, packets, cur, owner, pc, skt, asked, inbox, isRunning, sock, udpServer, exec>>
      /\ cache' = <<>> /\ stop = "evict" /\ stop' = "null"
  BY WhatHolds DEF StopEvict, StopGoto, Others, srvVars, sockVars, handlerVars, netVars
<1>2. ToSet(cache') = {} /\ CacheTyped'
  <2>1. <<>> \in Seq(Handler) /\ Len(<<>>) = 0 /\ DOMAIN <<>> = {}
    BY LenProperties
  <2>2. QED
    BY <1>1, <2>1 DEF ToSet, CacheTyped, Distinct
<1>3. FlagsTyped' /\ RestTyped'
  BY <1>1 DEF FlagsTyped, RestTyped
<1>4. Numbered' /\ Stopping' /\ CachedIsServed'
  BY <1>1, <1>2 DEF Numbered, Stopping, CachedIsServed
<1>5. InHand'
  <2>1. Cached(cur.client)' = {}
    BY <1>2 DEF Cached
  <2>2. QED
    BY <1>1, <2>1 DEF InHand
<1>6. QED
  BY <1>2, <1>3, <1>4, <1>5 DEF IInv

-----------------------------------------------------------------------------
LEMMA NextIInv == IInv /\ [Next]_vars => IInv'
<1> SUFFICES ASSUME IInv, [Next]_vars PROVE IInv'
  OBVIOUS
<1>1. CASE UNCHANGED vars
  <2>1. UNCHANGED <<mayFail, run, packets, cur, owner, pc, skt, cache, asked, inbox, isRunning, stop,
                    sock, udpServer, exec>>
    BY <1>1 DEF vars, srvVars, sockVars, handlerVars, netVars
  <2>2. CacheTyped' /\ ToSet(cache') = ToSet(cache) /\ \A c : Cached(c)' = Cached(c)
    BY <2>1, WhatHolds, CacheKept
  <2>3. FlagsTyped' /\ RestTyped' /\ Numbered' /\ InHand' /\ Stopping' /\ CachedIsServed'
    BY <2>1, <2>2, WhatHolds
       DEF FlagsTyped, RestTyped, Numbered, InHand, Stopping, CachedIsServed, Serving
  <2>4. QED
    BY <2>2, <2>3 DEF IInv
<1>2. CASE Run
  BY <1>2, LoopStep, LookupStep, MakeStep, PutStep, ExecuteStep DEF Run
<1>3. CASE \E h \in Handler : Handle(h) \/ HandlerFails(h)
  BY <1>3, HandlerStep, HandlerEndsStep DEF Handle
<1>4. CASE (\E h \in Handler : Network(h)) \/ StopFlag \/ Stop
  BY <1>4, OutsideStep, StopEvictStep DEF Stop
<1>5. QED
  BY <1>1, <1>2, <1>3, <1>4 DEF Next

THEOREM Invariance == Spec => []IInv
BY InitIInv, NextIInv, PTL DEF Spec

(* The cache never holds more handlers than it may nor two for one client, *)
(* and everything else is well typed.                                      *)
THEOREM TypeCorrect == Spec => []TypeOK
<1>1. IInv => TypeOK
  BY TypeParts DEF IInv
<1>2. QED
  BY <1>1, Invariance, PTL

(* While the relay runs, a handler that a client's packets go to has a     *)
(* thread that relays the answers or is about to leave the cache.          *)
THEOREM CachedAreServed == Spec => []CachedIsServed
<1>1. IInv => CachedIsServed
  BY DEF IInv
<1>2. QED
  BY <1>1, Invariance, PTL
=============================================================================
