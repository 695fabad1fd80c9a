----------------------------- MODULE AuthSimple -----------------------------
(***************************************************************************)
(* The auth_simple protocol plugin (impl/plugin/proto/AuthSimpleProtocol)  *)
(* as the sessions of one SSRLocal use it.  Every accepted connection gets *)
(* a plugin object of its own; all of them share one HashMap, shareParam,  *)
(* which holds the client id and the connection id the server uses to tell *)
(* a new connection from a replayed one.  beforeEncrypt runs on the thread *)
(* of the session's local socket, so calls of different sessions           *)
(* interleave; the part that reads and bumps the ids is one synchronized   *)
(* block, hence one step.                                                  *)
(***************************************************************************)
EXTENDS Naturals, Sequences

CONSTANTS
    Session,     \* the plugin objects (one per accepted connection)
    ClientId,    \* the values randomBytes(4) can return
    SeedBound,   \* randomInt(16777216): the first id is below this value
    WrapLimit,   \* 0xFF000000: above it a new client id is drawn
    NoId         \* an absent key of shareParam

ASSUME SeedBoundAssumption == SeedBound \in Nat \ {0}
ASSUME WrapLimitAssumption == WrapLimit \in Nat /\ SeedBound <= WrapLimit
ASSUME NoIdAssumption == NoId \notin Nat /\ NoId \notin ClientId

VARIABLES
    connId,      \* shareParam["CONN_ID"]
    clientId,    \* shareParam["CLI_ID"]
    drawn,       \* client ids drawn so far (a random 4-byte id never repeats)
    created,     \* sessions whose plugin object exists
    headSent,    \* headSent of each plugin object
    heads        \* the first packages put on the wire, in order of sending

vars == <<connId, clientId, drawn, created, headSent, heads>>

FirstPackage == [session : Session, client : ClientId, conn : Nat]

TypeOK ==
    /\ connId \in 0..(WrapLimit + 1) \cup {NoId}
    /\ clientId \in ClientId \cup {NoId}
    /\ drawn \subseteq ClientId
    /\ created \subseteq Session
    /\ headSent \in [Session -> BOOLEAN]
    /\ heads \in Seq(FirstPackage)

Init ==
    /\ connId = NoId
    /\ clientId = NoId
    /\ drawn = {}
    /\ created = {}
    /\ headSent = [s \in Session |-> FALSE]
    /\ heads = <<>>

RandomSeed == 0..(SeedBound - 1)
FreshClient == ClientId \ drawn

(* The constructor, run by the accept thread: absent ids are drawn once.   *)
NewPlugin(s) ==
    /\ s \notin created
    /\ created' = created \cup {s}
    /\ \/ /\ connId = NoId
          /\ connId' \in RandomSeed
          /\ \E c \in FreshClient :
                /\ clientId' = c
                /\ drawn' = drawn \cup {c}
       \/ /\ connId # NoId
          /\ UNCHANGED <<connId, clientId, drawn>>
    /\ UNCHANGED <<headSent, heads>>

(* What session s, owing a head or not, puts on the wire under ids c, n.   *)
SendPackage(s, owesHead, c, n) ==
    /\ headSent' = [headSent EXCEPT ![s] = TRUE]
    /\ heads' = IF owesHead
                THEN Append(heads, [session |-> s, client |-> c, conn |-> n])
                ELSE heads

(* Variant: a package that is not a head is the only one to bump the id.   *)
BumpDataOnly(s) ==
    /\ s \in created
    /\ connId <= WrapLimit
    /\ connId' = IF headSent[s] THEN connId + 1 ELSE connId
    /\ SendPackage(s, ~headSent[s], clientId, connId')
    /\ UNCHANGED <<clientId, drawn, created>>

(* Variant: the limit is never looked at.                                  *)
BumpPastLimit(s) ==
    /\ s \in created
    /\ connId' = connId + 1
    /\ SendPackage(s, ~headSent[s], clientId, connId')
    /\ UNCHANGED <<clientId, drawn, created>>

(* beforeEncrypt: the id is bumped for every package, head or not.         *)
BeforeEncrypt(s) ==
    /\ s \in created
    /\ connId <= WrapLimit
    /\ connId' = connId + 1
    /\ SendPackage(s, ~headSent[s], clientId, connId')
    /\ UNCHANGED <<clientId, drawn, created>>

(* Variant: the client id survives the new seed.                           *)
WrapKeepsClient(s) ==
    /\ s \in created
    /\ connId > WrapLimit
    /\ \E seed \in RandomSeed :
          /\ connId' = seed + 1
          /\ SendPackage(s, TRUE, clientId, seed + 1)
    /\ UNCHANGED <<clientId, drawn, created>>

(* beforeEncrypt once the id is used up: a new client id, a new seed, and  *)
(* the session that met the limit owes the server a new head.              *)
BeforeEncryptWrap(s) ==
    /\ s \in created
    /\ connId > WrapLimit
    /\ \E c \in FreshClient, seed \in RandomSeed :
          /\ clientId' = c
          /\ drawn' = drawn \cup {c}
          /\ connId' = seed + 1
          /\ SendPackage(s, TRUE, c, seed + 1)
    /\ UNCHANGED created

Next == \E s \in Session : NewPlugin(s) \/ BeforeEncrypt(s) \/ BeforeEncryptWrap(s)

Spec == Init /\ [][Next]_vars
-----------------------------------------------------------------------------
(* The server rejects a connection whose (client id, connection id) pair   *)
(* it has seen: no two heads may carry the same pair, whichever sessions   *)
(* sent them and in whatever order their threads ran.                      *)
UniqueHeads ==
    \A i, j \in 1..Len(heads) :
        heads[i].client = heads[j].client /\ heads[i].conn = heads[j].conn => i = j

(* A session repeats its head only under a client id it has not used: the  *)
(* server never sees one session announce itself twice to the same client. *)
RepeatedHeadIsNewClient ==
    \A i, j \in 1..Len(heads) :
        heads[i].session = heads[j].session /\ heads[i].client = heads[j].client => i = j
=============================================================================
