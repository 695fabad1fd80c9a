------------------------------ MODULE LibevUdp ------------------------------
(***************************************************************************)
(* The UDP relay of ss-local and ss-tunnel (nativeVer, shadowsocksr-libev: *)
(* udprelay.c, cache.c), in the event loop of LibevSession: a callback is  *)
(* one step.  An association, struct remote_ctx, has a socket of its own   *)
(* to the server and a timer; a cache finds it by the address family of    *)
(* the destination and the client it is for.  Datagrams come in any order, *)
(* again, or never; of those to the server it only matters who sent them.  *)
(***************************************************************************)
EXTENDS Naturals, Sequences, SequencesExt

CONSTANTS
    Client,         \* addresses that send to the relay
    NoClient,
    Family,         \* of a destination; 0 in the code for a domain name
    ServerFamily,   \* of the address of the server
    Capacity        \* MAX_UDP_CONN_NUM

ASSUME FamilyAssumption == ServerFamily \in Family
ASSUME CapacityAssumption == Capacity \in Nat /\ Capacity >= 2

VARIABLES
    socket,     \* server_ctx->fd: "open" or "closed"
    cache,      \* conn_cache: pairs of a key and an association, eldest first
    fds,        \* descriptors of associations that are open
    watched,    \* associations with io and timer started
    due,        \* of those, the ones whose timer has run out
    src,        \* src_addr of each association
    asked,      \* clients whose datagrams each association has sent
    quiet       \* nobody sends anything any more

vars == <<socket, cache, fds, watched, due, src, asked, quiet>>

(* socket() gives the lowest number that is free; the number names the     *)
(* association.                                                            *)
Descriptor == 1..Capacity
Lowest(S) == CHOOSE d \in S : \A e \in S : d <= e

Init ==
    /\ socket = "open"
    /\ cache = <<>>
    /\ fds = {} /\ watched = {} /\ due = {}
    /\ src = [d \in Descriptor |-> NoClient]
    /\ asked = [d \in Descriptor |-> {}]
    /\ quiet = FALSE
-----------------------------------------------------------------------------
Entries == ToSet(cache)
Of(E) == {e.ctx : e \in E}

(* HASH_DELETE: E is what was found, one entry or none.                    *)
Without(E) == IF E = {} THEN cache ELSE RemoveAt(cache, CHOOSE i \in DOMAIN cache : cache[i] \in E)

(* Variant: whoever asks, the association of the family is found.          *)
FoundByFamily(k) == {e \in Entries : e.key[1] = k[1]}

(* cache_lookup, cache_remove: what has the key, a family and a client.    *)
Found(k) == {e \in Entries : e.key = k}

(* cache_insert: the eldest goes when the new one fills the capacity.      *)
Evicted == IF Len(cache) + 1 >= Capacity THEN {Head(cache)} ELSE {}
-----------------------------------------------------------------------------
Arrives == socket = "open" /\ ~quiet

(* The relay ends, and every association with it.                          *)
Ends ==
    /\ socket' = "closed"
    /\ cache' = <<>>
    /\ fds' = fds \ Of(Entries) /\ watched' = watched \ Of(Entries) /\ due' = due \ Of(Entries)
    /\ UNCHANGED <<src, asked, quiet>>

(* server_recv_cb, when the association is in the cache: it becomes the    *)
(* youngest and its timer starts again, even for a fragment, which is then *)
(* dropped; sendto may fail.                                               *)
ServerRecvHit(k) ==
    /\ Arrives
    /\ \E e \in Found(k) :
        /\ cache' = Append(Without({e}), e)
        /\ due' = due \ {e.ctx}
        /\ \/ asked' = [asked EXCEPT ![e.ctx] = @ \cup {k[2]}]
           \/ UNCHANGED asked
    /\ UNCHANGED <<socket, fds, watched, src, quiet>>

(* Variant: protect_socket fails and the descriptor stays open.            *)
ServerRecvFailsLeaky(k) ==
    /\ Arrives /\ Found(k) = {}
    /\ fds # Descriptor
    /\ fds' = fds \cup {Lowest(Descriptor \ fds)}
    /\ UNCHANGED <<socket, cache, watched, due, src, asked, quiet>>

(* Not in the cache, and a fragment, or the new socket cannot be had, or   *)
(* not be protected; then it is closed again.  A bind that fails is FATAL: *)
(* the process ends.                                                       *)
ServerRecvFails(k) == Arrives /\ Found(k) = {} /\ (UNCHANGED vars \/ Ends)

(* Not in the cache: a new association, by which sendto may still fail.    *)
ServerRecvMiss(k) ==
    /\ Arrives /\ Found(k) = {}
    /\ LET d == Lowest(Descriptor \ fds) IN
       /\ cache' = Append(Without(Evicted), [key |-> k, ctx |-> d])
       /\ fds' = (fds \ Of(Evicted)) \cup {d}
       /\ watched' = (watched \ Of(Evicted)) \cup {d}
       /\ due' = due \ Of(Evicted)
       /\ src' = [src EXCEPT ![d] = k[2]]
       /\ \E sent \in {{}, {k[2]}} : asked' = [asked EXCEPT ![d] = sent]
    /\ UNCHANGED <<socket, quiet>>

(* remote_recv_cb: the answer goes to src_addr.  What cannot be decoded or *)
(* sent leaves the timer as it is.                                         *)
RemoteRecv(d) ==
    /\ ~quiet /\ d \in watched /\ asked[d] # {}
    /\ due' \in {due, due \ {d}}
    /\ UNCHANGED <<socket, cache, fds, watched, src, asked, quiet>>

(* Variant: the key is compared without its family.                        *)
RemoteTimeoutClient(d) ==
    /\ d \in due
    /\ \E e \in Entries :
        /\ e.key[2] = src[d]
        /\ cache' = Without({e})
        /\ fds' = fds \ {e.ctx} /\ watched' = watched \ {e.ctx}
        /\ due' = (due \ {e.ctx}) \ {d}
    /\ UNCHANGED <<socket, src, asked, quiet>>

(* Variant: the family is not filled in, and no key matches.               *)
RemoteTimeoutUnset(d) ==
    /\ d \in due
    /\ due' = due \ {d}
    /\ UNCHANGED <<socket, cache, fds, watched, src, asked, quiet>>

(* remote_timeout_cb: remote_ctx->af is the family of the server, so the   *)
(* key is that of the association only when its destinations share it; if  *)
(* not, the timer, which repeats, runs again.                              *)
RemoteTimeout(d) ==
    LET E == Found(<<ServerFamily, src[d]>>) IN
    /\ d \in due
    /\ cache' = Without(E)
    /\ fds' = fds \ Of(E) /\ watched' = watched \ Of(E)
    /\ due' = (due \ Of(E)) \ {d}
    /\ UNCHANGED <<socket, src, asked, quiet>>

(* free_udprelay, when the loop has ended.                                 *)
FreeUdprelay == socket = "open" /\ Ends

(* Time passes with neither a datagram nor an answer.                      *)
Elapse(d) ==
    /\ d \in watched \ due
    /\ due' = due \cup {d}
    /\ UNCHANGED <<socket, cache, fds, watched, src, asked, quiet>>

FallsQuiet == ~quiet /\ quiet' = TRUE /\ UNCHANGED <<socket, cache, fds, watched, due, src, asked>>

ServerRecv == \E k \in Family \X Client : ServerRecvHit(k) \/ ServerRecvFails(k) \/ ServerRecvMiss(k)

Next ==
    \/ ServerRecv
    \/ \E d \in Descriptor : RemoteRecv(d) \/ RemoteTimeout(d) \/ Elapse(d)
    \/ FreeUdprelay \/ FallsQuiet

Spec == Init /\ [][Next]_vars
-----------------------------------------------------------------------------
(* Every association is in the cache once, under the key of its client, is *)
(* watched, and has the only other descriptors; one place of the cache     *)
(* stays empty.                                                            *)
CachedOnce ==
    /\ Of(Entries) = fds /\ watched = fds /\ due \subseteq fds
    /\ Len(cache) < Capacity
    /\ \A i, j \in DOMAIN cache :
          i # j => cache[i].key # cache[j].key /\ cache[i].ctx # cache[j].ctx
    /\ \A e \in Entries : e.key[2] = src[e.ctx]
    /\ socket = "closed" => fds = {}

(* An answer goes to whoever asked: no association ever sends for another  *)
(* client than the one its answers go to, though descriptors and cache     *)
(* places are used again.                                                  *)
OwnAnswers == \A d \in watched : asked[d] \subseteq {src[d]}

(* An association is only freed when it has been idle, when it is the one  *)
(* used longest ago and the cache is full, or at the end.  One more case   *)
(* is how the code is: an idle one of the same client to destinations of   *)
(* another family than the server's takes it for itself.                   *)
Idle(e) == e.ctx \in due
Mistaken(e, x) ==
    /\ e.key[1] = ServerFamily /\ x.key[1] # ServerFamily
    /\ e.key[2] = x.key[2] /\ Idle(x)
FreedForAReason ==
    [][\A e \in Entries : e.ctx \notin fds' =>
          \/ Idle(e)
          \/ e = Head(cache) /\ Len(cache) = Capacity - 1
          \/ \E x \in Entries : Mistaken(e, x)
          \/ socket' = "closed"]_vars

(* Once nobody sends any more, every association to destinations of the    *)
(* family of the server is freed, as time passes.                          *)
TimePasses == \A d \in Descriptor : WF_vars(Elapse(d)) /\ WF_vars(RemoteTimeout(d))
QuietIsFreed == TimePasses => (quiet ~> \A e \in Entries : e.key[1] # ServerFamily)
=============================================================================
