# Verification of ShadowsocksRDroid

TLA+ modules for the two Android clients of the repository.  Of the one in
`src/jvmVer` (application `com.proxy.shadowsocksr`): the service that brings a
VPN up and down, the activities that drive it, the local proxy (accept loops,
TCP sessions, UDP relay, address list) and two of its protocol plugins.  Of the
one in `src/nativeVer`: the C programs that take the place of that proxy,
`ss-local` and `ss-tunnel`, with their TCP connections and UDP associations.  TLC
checks them on small instances; the theorems in the `*Proofs` modules hold for
every value of the constants and are checked by TLAPS.  Paths below are relative
to `src/jvmVer/src/main/java/com/proxy/shadowsocksr/`, those that end in `.c` to
`src/nativeVer/src/main/jni/shadowsocksr-libev/src/`.

- [Inventory](#inventory)
- [Modules and how they follow the code](#modules-and-how-they-follow-the-code)
- [Runs](#runs)
- [What the violations show](#what-the-violations-show)
- [Proofs](#proofs)
- [Limits](#limits)
- [Plan](#plan)

## Inventory

The application runs in three processes: the UI, `:vpn` (SSRVPNService) and
`:nat` (SSRNatService).  They talk through AIDL: `ISSRService.status()` is
synchronous, `start`, `stop`, `register...` and `unRegister...` are `oneway`, so
they are queued for the binder thread of the service; `ISSRServiceCallback`
carries a status back, which the activity posts to its main thread.

| component | state | operations | hard part |
|---|---|---|---|
| VPN service (`SSRVPNService.kt`) | `conn`, `local`, `tunnel`, `udprs`, `pdnsdProcess`, `tun2socksProcess`, `connProfile`, `isVPNConnected`, `callback` | `start`, `stop`, revoke, `register...`; `startRunner` on a thread of its own, `stopRunner`, `killProcesses` | a worker that is never cancelled or awaited shares every field with the binder thread, with no lock; an exception ends one call half-way or the whole process |
| Activities (`MainActivity.kt`, `StubActivity.kt`, `ui/DialogManager.kt`) | binding, callback, button, wait dialog | click, consent, status, connect and disconnect, create and destroy | the disabled button is the only lock of the protocol; activities and processes come and go between its steps |
| Accept loops (`impl/SSRLocal.kt`, `impl/SSRTunnel.kt`) | `ssc`, `isRunning`, `localThreadPool` | `run`, `stopSSRLocal`, `stopTunnel` | the stop changes three variables one by one while the loop reads them one by one; servers in succession share one port |
| TCP sessions (same files) | two sockets, two threads, `isDirect`, buffers | authenticate, request, connect, relay, `cleanSession` | two threads clean up one session and assign null to what the other reads |
| UDP relay (`impl/UDPRelayServer.kt`) | LRU cache of handlers, sockets | relay, evict, stop | stale cache entries, a shared decryptor, handlers whose socket nobody closes |
| auth_simple (`impl/plugin/proto/AuthSimpleProtocol.kt`) | ids shared by all sessions, `headSent` of each | `beforeEncrypt` | the wrap of the id, ids unique over threads |
| verify_simple (`impl/plugin/proto/VerifySimpleProtocol.kt`) | `tmpBuf` | `beforeEncrypt`, `afterDecrypt` | reads cut the stream anywhere; room of the buffers |
| http_simple, ciphers (`impl/plugin/obfs`, `impl/TCPEncryptor.kt`, `impl/ImplUtils.kt`) | "header sent / received", IVs, one `MessageDigest` | `afterEncrypt`, `beforeDecrypt`, `encrypt`, `decrypt` | first chunks cut short, a shared digest |
| ACL (`impl/AddressUtils.kt`) | none | `checkInCIDRRange` | prefixes that are no multiple of 8 |
| NAT service (`SSRNatService.kt`) | processes, iptables rules | `start`, `stop`, `flushDns`, `setupIptables` | rules left behind by a stop during a start |
| Profiles (`SSRApplication.kt`, `MainActivity.kt`, `fragment/PrefFragment.kt`) | list of labels, profile per label, current label | add, delete, rename, select | two keys written one after the other |
| Native client (`src/nativeVer`) | as the VPN service, with child processes `ss-local`, `ss-tunnel` and a `ProtectThread` | same | same, and a thread that hands sockets to the child |
| TCP connections of shadowsocksr-libev (`local.c`, `tunnel.c`) | `struct server`, `struct remote`: two sockets, two buffers, watchers, timers, handshake stage | the callbacks of one event loop | structs freed while watchers refer to them; a socket that accepts only a part; timers that hand over |
| UDP associations of shadowsocksr-libev (`udprelay.c`, `cache.c`) | sockets to the server, a cache of them by family and client, a timer each | relay, answer, evict, time out | descriptors used again; the timer makes its key from another family than the cache |
| Other parts of shadowsocksr-libev | plugins in C, `server.c`, `redir.c`, `manager.c` | | the three programs are not built for the application |
| Vendored programs | | | not part of the project |

What makes them correct, in the order of importance:

1. VPN service and activities: after any story of clicks, failures and crashes,
   when nothing is under way the VPN is there as a whole or not at all, the screen
   says which, and every click has been answered (as long as one screen after the
   other asks: see the [limits](#limits)).  Nothing that runs is out of the reach of
   the next stop.  No field rests on a closed descriptor
   or on something that was stopped.
2. Accept loops: a stopped server ends and serves nobody; a started one listens.
3. Plugins: no two sessions present the same ids; whatever pieces the stream is
   read in, every frame is returned once, complete and in time; the buffers have
   room.
4. TCP sessions: what one side sends the other gets, or both threads end and
   both sockets are closed, whoever fails first.
5. UDP relay: what the cache holds is served, a failed handler costs a packet and
   not the server, and a stop ends the server.
6. Address list: the listed addresses bypass the proxy, and no others.
7. Connections of ss-local and ss-tunnel: no callback meets a freed struct, each
   direction loses and repeats nothing, and both sides end together.
8. UDP associations: a client gets its own answers; an association is freed when
   idle, when evicted, or at the end, and for no other reason.
9. NAT service, profiles, the service of the native client: see the
   [plan](#plan).

The hazards of the code, each with its line and the property that watches it,
are listed in `PROJECT.json`.

## Modules and how they follow the code

    VpnService   <- MainActivity     <- MCMainActivity
                 <- VpnServiceProofs
                 <- MCVpnService
    VpnLifecycle <- MainActivity
    MainActivity, VpnServiceProofs   <- MainActivityProofs
    TcpListener  <- MCTcpListener
    Pipe         <- TcpSession   <- MCTcpSession,   TcpSessionProofs
                 <- LibevSession <- MCLibevSession, LibevSessionProofs
    AuthSimple, VerifySimple <- ProtocolChooser <- MCProtocolChooser, ProtocolChooserProofs
    VerifySimple <- MCVerifySimple
    UdpRelay     <- MCUdpRelay, UdpRelayProofs
    LibevUdp     <- MCLibevUdp, LibevUdpProofs
    Cidr         <- MCCidr
    TcpListener, Cidr <- SSRLocalProofs

### VpnService (`SSRVPNService.kt`)

Threads: 0 is the binder thread, `a` in `1..MaxStarts` the worker of the a-th
start.  `thread[t].pc` is the statement a thread is at; each access to a shared
field that another thread may change is a step of its own, so that
`if (conn != null) conn!!.close(); conn = null` is `CloseCheck`, `CloseFd`,
`CloseNull`.  `k` is a loop index (the entry of `KillOrder`, the number of
`sendFd` tries) or the address a resolve has found; `answer` is the status
`stopRunner` is run for, or "spawn" when `startRunner` runs `killProcesses`.

A start call has a number that names all that comes of it.  A field of the class
holds the number of the start whose object it refers to (0 is null), `obj[f][a]`
what became of the object itself: a thread that is created, started and later
scheduled, or a child process.  So an object that no field refers to any more
and that runs on is visible, and so is a field that refers to a dead one.
`tun` holds the open tun descriptors, `conn` the field.

| action | code |
|---|---|
| `Call`, `Post`, `Serving` | the oneway calls of `ISSRService.aidl` and their queue; revoke is `LAST_CALL_TRANSACTION`, 56-74 |
| `ServeRegister`, `ServeStart`, `ServeStop` | 81-130; the missing daemon binary (97) is a choice |
| `Reset` ... `Answer` | `stopRunner` 289-315, `killProcesses` 481-510, the status that follows |
| `KillDone` | the return of `killProcesses`: to `startRunner`, which makes the worker (196), or to `stopRunner` |
| `Resolve`, `StoreAddress` | 197-219 |
| `StartLocal`, `StartUdp`, `StartTunnel`, `StartDnsDaemon` | 317-385: assignment and `start()` are two steps; `IfTunnel` is the second test of `dnsForward` (222), of whatever `connProfile` is by then |
| `Establish`, `CheckConn`, `StartTun2socks` | `startVpn` 387-479 |
| `Sleep`, `SendFd`, `SetConnected`, `TellConnected`, `StartForeground` | 231-270 |
| `ServerBegins` | the scheduler: `run()` of a started server begins |

Exceptions: `x!!` on null, `start()` on a thread that was started, `shutdown()`
on a pool that `run()` has not made (`SSRTunnel.kt` 235, `UDPRelayServer.kt` 65)
and a child that cannot be executed end the call.  On the binder thread of a
`oneway` call the exception goes no further (`Throw` returns to "idle": the stop
ends half-way); on a worker it ends the process (`crashed`).

### MainActivity (`MainActivity.kt`, `StubActivity.kt`, `ui/DialogManager.kt`)

Extends VpnService: the instances `a` in `Client` of the activity, one after the
other, each with its life cycle, binding, button (`fab`, `icon`) and open
consent dialog; `pd` is `DialogManager.pd`.  `AskStart` is the body of
`onActivityResult` (403-427), which `onClick` calls directly when the VPN needs
no consent; `OnStatusChanged` is the posted lambda (146-169).  `world` is chosen
once for a behaviour: its `may` names what the environment may do, "revoke"
(another VPN, the system's dialog), "recreate" (the activity ends although a
dialog is open), "lateDestroy" (its `onDestroy` comes after the next instance's
`onCreate`), "boot" (StubActivity); `starts` and `activities` bound the clicks
and the instances.  A property that does not hold in some world says so.
An uncaught exception on the main thread ends the UI process with every instance,
dialog and posted status in it (`UiEnds`, life "gone"); the service keeps the
callback it was given, and what it sends there is lost (`StatusIsLost`).  Three
statements can do that: `ssrs!!` when the service has died behind the consent
dialog (`UiDies`); `pref!!` in an instance that is made from its saved state, which
never assigns `pref` (69-73, `OnCreateSaved`); and the dismissal of a wait dialog
whose activity was destroyed under it, for `onDestroy` leaves `pd` alone
(`OnStatusThrows`; it may also do nothing).  A click on a service that has died and
whose `onServiceDisconnected` is still to come ends in `switchUI(true)`, with the
dialog shown when it is `stop` that throws (`OnClickFails`, 393-396).
When the service's process dies, `OnServiceDisconnected` stands for the death of
its threads and children, the callback of the binding, and the new process.

### VpnLifecycle, and how the service implements it

`VpnLifecycle` is what one who starts and stops the VPN from one screen is promised
of it: a start only adds to what there is of the VPN, a stop only takes from it, the
two never overlap, and the VPN counts as up once it is complete and as down once
nothing of it is left.  MainActivity instantiates it (`Vpn`) in its serial worlds,
where no other start, no revoke and no late onDestroy comes in between:

| abstract | in MainActivity over VpnService |
|---|---|
| `phase` | `Phase`: "dead" from an uncaught exception to the new process; "stopping" while a stop is in the queue or a thread is in `stopRunner` (`Undoing`; the `killProcesses` that opens a start is no stop); "up" while `isVPNConnected`; "starting" while a start is queued, being served or at work; otherwise "down" |
| `shape` | `Shape(starts)`: the tun and the parts that `dnsForward` of the last start asks for |
| `on` | `On`: the servers that are started, the children that run, and "tun" while any tun is open, of whichever start |

`Start` is the click, `Grow` the statements of the worker, `Complete` its
assignment to `isVPNConnected`, `GiveUp` the click that stops, or the worker's own
decision to, `Shrink` `stopRunner`, `Rest` its end, `Die` an uncaught exception and
`Recover` `OnServiceDisconnected`.  A start that finds no daemon binary ends by way
of "stopping" with nothing to take away.  `OneLifecycle` is `Vpn!LifecycleSpec`: the
run `ui` checks it, OneVpn proves it.

### TcpListener (`SSRLocal.kt` 62-92, 365-377; `SSRTunnel.kt` 72-103, 224-237)

The thread of a server, statement by statement, against the stop function, which
closes, shuts down and clears one thing after the other.  `kind` chooses between
the two classes, which differ in when the pool is made.  A bind fails if the
port is held by another server's socket.  `accept()` reads `ssc` once and then
waits on the socket, not on the field.  `Arrive` is what ends the wait from outside:
a connection, or an exception of `accept()`.

### TcpSession (`SSRLocal.kt` 95-417, `SSRTunnel.kt` 105-272)

Thread "L" is the `LocalSocketHandler` of a session, "R" its
`RemoteSocketHandler`, which L starts in `Execute`.  `kind` tells SSRLocal
("local") from SSRTunnel ("tunnel": R has started before the first read, and two
early returns skip `cleanSession`).  Whether SSRLocal has a list is chosen at the
end of `Handshake`: with one the request is read (`First`) before the remote is
prepared, and sent after R has started; without one R starts first.
`field` says which of `attach.localSkt` and `attach.remoteSkt` is not null, `skt`
what has become of the socket itself, so that a socket which is forgotten and
open is visible.  `Check`, `Fetch`, `Read`, `Encode`, `Write` are one round of
either loop: the test, the use of the field for `inputStream`, the blocked read,
the use of the other field for `outputStream`, and the blocked write, which goes
on unit by unit as the peer makes room.  An exception anywhere leads to
`cleanSession`, whose two closes and two nulls are four steps; the plugin fields
and buffers are nulled after them and a null there ends the loop in the same way.
`sent`, `taken`, `put`, `got` count the units of each stream at its four stages.

### Pipe, and how sessions implement it

`Pipe` is what every relay of the repository promises for one direction: take
some units, give all of them before taking more, end at any moment and then move
nothing.  TcpSession and LibevSession each instantiate it twice, for the way up
and the way down, with their own notion of what was taken, what was given and
when the session is over, and check `Pipes`, that both instances hold, as a
PROPERTY; RelaysAsPipes proves it for each.  Two threads with blocking sockets,
and callbacks with buffers and watchers, are two ways to keep the same promise.
In TcpSession the units are those read and written; in LibevSession `Due` is what
the server is owed for what was taken from the client: the payload, and a header
of one unit unless the destination is direct.

### LibevSession (`local.c` 199-1035, `tunnel.c` 168-656)

One connection, of ss-local or of ss-tunnel (`kind`).  A callback is one step:
the loop has one thread, and `ev_io_stop` and `ev_timer_stop` drop what is
pending.  `live` says which of `struct server` and `struct remote` are
allocated, `fd` what has become of their descriptors, `reading` and `writing`
which `recv_ctx->io` and `send_ctx->io` are started, `timer` which of the two
timers of the remote, `len` is `buf_len` of each side.  A stream is counted in
units as in TcpSession; a read takes any number of them, and a socket accepts
what there is room for (`Room` units its peer has not taken), which is how a
partial `send` and EAGAIN arise.

| action | code |
|---|---|
| `AcceptLocal`, `AcceptTunnel` | `accept_cb`; ss-tunnel connects at once, and may fail to |
| `ServerRecvGreeting`, `ServerRecvRequest`, `ServerRecvRefused` | stages 0 and 1 of `server_recv_cb`, with the connect that follows in its loop |
| `ServerRecvRelays`, `ServerRecvEnds` | stage 5, and what `recv` may say before |
| `RemoteSendRefused`, `RemoteSendConnectedLocal`, `RemoteSendConnectedTunnel` | `remote_send_cb` as long as the remote is not connected; the two programs differ |
| `RemoteSendFlush`, `ServerSend` | the rest of `remote_send_cb`; `server_send_cb` |
| `RemoteRecvRelays`, `RemoteRecvEnds` | `remote_recv_cb` |
| `Timeout`, `Terminate` | `remote_timeout_cb`; `free_connections` after SIGTERM |
| `Forward`, `Flush`, `Free` | a `send` of what was read, a `send` of what is kept, `close_and_free_*` |

### LibevUdp (`udprelay.c`, `cache.c`)

The associations of one relay, in the same loop.  `cache` is `conn_cache`, the
eldest entry first (uthash keeps the order of insertion; a lookup inserts
anew); an association is named by its descriptor, the lowest free one.
`ServerRecvHit`, `ServerRecvMiss` and `ServerRecvFails` are `server_recv_cb` with
what it finds in the cache, `Evicted` what `cache_insert` throws out, `RemoteRecv`
an answer, `RemoteTimeout` the timer, whose key is made from the family of the
server.  A datagram may come again, late or never: `asked` only remembers whose
datagrams an association has sent.

### UdpRelay (`UDPRelayServer.kt`)

The server's thread, the stop (on the binder thread) and a thread for each
handler.  `sock` is the `DatagramSocket` made last, `udpServer` whether the field
refers to it; a handler is named by the packet it was made for.  `cache` is the
`LruCache`, the eldest entry first: `Lookup` is `get` (which makes the entry the
youngest), `Put` is `put` with `trimToSize`, `HandlerEnds` removes by client, as
`cache.remove(localAddress)` does.  `HandlerReceive` includes the `break` on an
answer that is too short, which leaves the entry in the cache ("broken").
`mayFail` chooses once whether calls fail in this behaviour that no other thread
makes fail, so that one specification serves both kinds of promise: an error on a
handler's socket (`HandlerFails`), a new socket (138), a send (165, 221; of the
server, on the packets `Unsendable` names), and a bind for which another program
holds the port (84, "barred": `run()` returns).  The server answers a
handler's packets as often as it likes (`Network`).  Clients are alike, and the
first packet is taken to come from `FirstClient`.  A
packet that is too short or no SOCKS5 packet is skipped and is not a step.

### Cidr (`AddressUtils.kt` 32-81)

An Int is the set of its bits, a Long a number; `Width` stands for 32.  The
loop is kept, since `netmask` and `address` are or-ed into and must be reset
between entries.  `Low` and `High` are `lowLong` and `highLong` to the letter,
with the sign extension of `toLong()`.  `InRange` is the reference: the same
first bits.  `Pow` and `Upto` are recursive functions over the bits, so that
what they compute can be proved.  The parts are called `RangeInit`, `RangeNext`, ...,
since SSRLocalProofs extends this module and TcpListener.
`LengthsAssumption`: no range has two addresses.  The longest prefix of
`route_arrays.xml` is 29; of a range of two, which begins above 1, the code would
find 0.0.0.0 and 0.0.0.1 listed.

### ProtocolChooser (`ProtocolChooser.kt`)

The plugin that a profile names, one for all sessions of a SSRLocal: AuthSimple
or VerifySimple (whose parts are called `FramesInit`, `FramesNext`, ...), chosen
once.  The default plugin changes nothing and keeps nothing, so it has no actions.
An AuthSimpleProtocol frames its data with a VerifySimpleProtocol of its own, and
not the arrays it was given but a head of 12 bytes with the beginning of the data,
and then the rest (`HeadAndRest`, `GiveToVsp`, `VspEncrypt`; without a head the
array itself).  `followed` is any one session, or none: its frames are the variables
of VerifySimple, while all sessions share the ids.

### AuthSimple (`AuthSimpleProtocol.kt`)

`connId`, `clientId` are the entries of `shareParam`; one step is one
`synchronized` block with what follows from it.  A drawn client id is fresh (four
random bytes); the limit 0xFF000000 and the seed bound 2^24 are constants.

### VerifySimple (`VerifySimpleProtocol.kt`)

Numbers of bytes, with the sizes of the code (8100, 8191, 7 and the read buffer
of 8224).  `marks` says where in the stream each frame ends, and how much data
the frames up to it carry.  `BeginEncrypt`/`Encode` are `beforeEncrypt` and one
round of its loop, `Read` is a read of the socket and the call of
`afterDecrypt`, `Decode` a round of its loop, `Return` what follows the loop
(`tmpBuf`).  The bytes are abstracted, so `FrameLen` is what the header says as
long as the decoder stands on a frame, which is what `Aligned` says it does; the
CRC32 branch and the check of the length against 7 and 8191 are never taken on
an intact stream.

## Runs

| run | cfg | bounds | shows |
|---|---|---|---|
| `vpn` | `MCVpnService.cfg` | 2 starts, the first of a profile with `dnsForward` (UDP relay) and the second without (tunnel and pdnsd), backlog 1, all calls and revoke, 2 tries of `sendFd` | `ConnIsOpen`, `ReferredIsLive`, `NothingLost`, `OwnProfile` |
| `ui` | `MCMainActivity.cfg` | 4 worlds: 2 activities and 2 starts; 2 recreated activities with 1 start, and boot or late onDestroy; 1 activity and 1 start with revoke and boot (`WholeOrNothing`, `UiTruthful`, `OneLifecycle` and `StartsAlone` speak of the first only) | `WholeOrNothing`, `UiTruthful`, `OneLifecycle`, `StartsAlone`, `ButtonComesBack`, `DialogCloses` |
| `tcp_listener` | `MCTcpListener.cfg` | 2 servers, 2 connections | `StoppedEnds`, `NothingAfterStop`, `ListensUnlessLeaked` |
| `tcp_listener_fast` | `MCTcpListenerFast.cfg` | the same | violation of `StartedListens` |
| `tcp_session` | `MCTcpSession.cfg` | every kind, 2 units each way, sockets that hold 1 | `ForgottenIsClosed`, `OverIsClosed`, `Pipes`, `StopEnds`, `EndTogether`, `Relayed` |
| `udp_relay` | `MCUdpRelay.cfg` | 2 clients, a cache of 1, 3 packets, the second of which may be unsendable | `CachedIsServed`, `Recovers`, `StoppedEnds`, `AnswersRelayed` |
| `plugins` | `MCProtocolChooser.cfg` | auth_simple: 3 sessions, 3 client ids, wrap after 4, `CONSTRAINT` of 5 heads; verify_simple: 3 arrays of 60, 8100 or 8101 bytes, padding 0 or 15, reads of 70, 8112 or all there is; auth_simple with the frames of a session followed: that session, 3 arrays given to its plugin (head, rest and one more), heads with 7 or 61 bytes of data, `CONSTRAINT` of 3 frames | `UniqueHeads`, `RepeatedHeadIsNewClient`, `EncoderFits`, `Aligned`, `NothingHeldBack` |
| `verify_simple_fits` | `MCVerifySimpleFits.cfg` | verify_simple: 2 arrays of 1, 60, 8100, 8101 or 16200 bytes, padding and reads as above | violation of `DecoderFits` |
| `cidr` | `MCCidr.cfg` | 4 bits, lists of 2 prefixes of length 0, 1, 2 or 4 | `EndsOfRange`, `OnlyListed` |
| `cidr_found` | `MCCidrFound.cfg` | 4 bits, lists of 1 prefix of length 1 or 2 | violation of `ListedIsFound` |
| `libev_session` | `MCLibevSession.cfg` | both programs, 3 units of payload each way, sockets with room for 2 | `WatchedIsLive`, `TakesTurns`, `AlwaysTimed`, `Pipes`, `Relayed`, `EndTogether` |
| `libev_udp` | `MCLibevUdp.cfg` | 2 clients, destinations of 2 families, a cache that fills at 4 | `CachedOnce`, `OwnAnswers`, `FreedForAReason`, `QuietIsFreed` |

Why the bounds are enough.  Every conflict in the service is between two of its
threads, or between a thread and what an earlier start left behind: two starts
give two workers and the binder thread.  One call in the queue is enough because
the binder serves one at a time and clients ask again.  `SendTries` is 4 in the
code; with 1 or 2 there is already a last try and one before it.  Two servers
are enough for a port held by the one before.  Two or three arrays of up to two units
give streams in which a read ends before, in and after a header, joins several
frames, and leaves a remainder that the next read completes.  The wrap of
auth_simple needs only a small limit; a seed below it is what the code
guarantees (2^24 < 0xFF000000).  Where the frames of a session are followed, the other
sessions, which do not touch them, are left to the behaviours in which none is.  With two units and a socket that holds one, a
session can be stuck in a write with more to come, on either side and on both.
Two clients over a cache of one make every second packet an eviction, and a
third packet brings the first client back while its old handler still runs; a send
that fails on the second finds handlers cached and evicted, and one is enough to
end a round.  Four bits and prefixes of 0, 1, 2 or 4 give ranges of 16, 8, 4 and a
single address; the lists in `route_arrays.xml` have prefixes of 3 to 29 bits, hence
ranges of 8 addresses and more, and for those NearlyNothingIsFound and
OnlyListedBypasses are proved at any width.  In LibevSession
three units over a room of two give every partial send: a read that is accepted
whole, in part and not at all, and a buffer that takes two sends to empty; a
header and payload may wait together.  In LibevUdp four places, of which the code
fills three, are one less than the four pairs of a client and a family, so that
evictions happen with keys that come back.  The worlds of `ui` are the smallest in
which each liberty of the environment meets a start under way.  Only the serial one
has two starts: with two, the others do not fit (with "recreate" alone there are
millions of states and no end).  That bound hides something, and the properties say
so: an instance that was recreated, or one beside a start after boot, can ask for a
second start while the worker of the first runs, and two workers over the same
fields break `WholeOrNothing` in the code.  `WholeOrNothing`, `UiTruthful`,
`OneLifecycle` and `StartsAlone` are therefore stated of serial worlds;
`ButtonComesBack` and `DialogCloses` are checked in the other worlds for one start,
and nothing is claimed there of two.  `CHECK_DEADLOCK FALSE` everywhere: the bounds
on calls let every system come to a rest.

`OneWorker` in `vpn` is a promise of the clients, not of the service (a start is
asked for only when the worker before has answered); `ui` shows with
`StartsAlone` that one activity at a time keeps it.  Workers that overlap, as a
start after boot and a click make them, are left to the theorems: `TypeOK`,
`ConnIsOpen` and `ReferredIsLive` are proved without it, while `NothingLost` and
`OwnProfile` are false then.

Fairness.  `LiveUiSpec` asks weak fairness of each thread of the service (the
Android scheduler runs them all; the resolver, `establish()` and `sleep` return),
of the main thread that runs posted statuses, of the system's callbacks of a
binding, and of the user's answer to the consent dialog.  Nobody has to click, to
call or to revoke.  `TcpListener` asks weak fairness of the two threads; what ends
a wait in `accept()` from outside (`Arrive`) is not fair: nobody has to connect.
TcpSession's `Spec` asks it of what the two threads do at once; a handshake, a
connect, a read or a write that waits may wait for ever.  The rest is a hypothesis of the
property that needs it.  `TimeoutsAndStops`, for `StopEnds`: `soTimeout` is set on
both sockets and `connect` gives up at last, and the service that stops a server
kills tun2socks and pdnsd, its clients.  `PeersRead`, for `EndTogether` and
`Relayed`: the two peers read what they are sent.  `ConnectAnswers`, for
`Relayed`: a connect succeeds or fails at last.  No timeout of a read is
assumed for either.  UdpRelay
asks weak fairness of each thread; nobody has to send, to answer, to fail or to
stop.  LibevSession asks weak fairness of the four kinds of callback, which the
loop runs when they are ready; `PeersTake` (both peers take what they are sent)
and `TimerFires("connect")` (a timer that is not stopped runs out) are hypotheses
of `Relayed` and `EndTogether`.  LibevUdp asks for nothing; `TimePasses`, for
`QuietIsFreed`, lets the timers of associations run out and their callbacks run.

Each property of a passing run has a mutant, listed in `PROJECT.json`: a
definition marked "Variant" in the module (a forgotten reset, a lock
left out, a socket that is not closed, ...) with which TLC finds the property
violated.

## What the violations show

1. `tcp_listener_fast`.  `stopSSRLocal` runs after the loop has tested
   `isRunning` and before it binds a new `ServerSocket`: its close finds null or
   the socket of the round before.  The loop binds, finds `isRunning` false, and
   if `ssc = null` (376) comes before its cleanup, the cleanup finds null and the
   bound socket is never closed.  The server of the next start tries in vain to
   bind, in a loop that never sleeps.  `ListensUnlessLeaked` shows that nothing
   else keeps a server from listening.  `UDPRelayServer.kt` has the same window:
   its stop (51-66) between the test of `isRunning` (79) and the bind (84) leaves
   a socket that the cleanup (175) may not find; UdpRelay models one server, so it
   follows the leak but not the next start.
2. `verify_simple_fits`.  `afterDecrypt` allocates for frames of the largest
   size; frames with little padding are shorter, so a read with one full frame
   and some of the next carries more data than the buffer holds and the session
   ends with a BufferOverflowException.  In the run: 8100 bytes and 1 byte
   without padding, read together.
3. `cidr_found`.  The bounds of the comparison are `broadcast - (network + 1)` and
   `broadcast - (broadcast - 1)`, that is the size of the range minus 2, and 1: a
   conditional that was meant to choose the ends became the second operand of a
   subtraction.  No address is between them (save 0.255.255.255 for 0.0.0.0/8),
   so a list never lets anything bypass the proxy.  `EndsOfRange` shows that
   `network` and `broadcast` themselves are right, and the theorem
   `NearlyNothingIsFound` that this is so of words of any width and of any list
   without a range of two addresses.

## Proofs

| module | theorems |
|---|---|
| `VpnServiceProofs` | `TypeCorrect`, `ConnStaysOpen` (`ConnIsOpen`), `ReferencesStayLive` (`ReferredIsLive`), `OneAtATime`, `NothingIsLost` (`NothingLost`), `ProfileIsItsOwn` (`OwnProfile`) |
| `MainActivityProofs` | `UiTypeCorrect`, `ServiceKeepsItsWord`, `ButtonTellsTheTruth` (`UiTruthful`), `ButtonSerialises` (`StartsAlone`), `SerialNothingLost`, `ConnectedIsWhole` (`WholeOrNothing`), `OneVpn` (`OneLifecycle`) |
| `SSRLocalProofs` | `TypeCorrect`, `StoppedServesNobody` (`NothingAfterStop`), `RangeTypeCorrect`, `EndsAreRight` (`EndsOfRange`), `OnlyListedBypasses` (`OnlyListed`), `NearlyNothingIsFound` |
| `TcpSessionProofs` | `TypeCorrect`, `NullIsClosed` (`ForgottenIsClosed`), `NothingStaysOpen` (`OverIsClosed`), `DropsNothing` (`NothingDropped`), `RelaysAsPipes` (`Pipes`) |
| `UdpRelayProofs` | `TypeCorrect`, `CachedAreServed` (`CachedIsServed`) |
| `ProtocolChooserProofs` | `HeadsTypeCorrect`, `HeadsAreUnique` (`UniqueHeads`), `RepeatedHeadsAreFresh` (`RepeatedHeadIsNewClient`), `FramesTypeCorrect`, `EncoderHasRoom` (`EncoderFits`), `DecoderStaysAligned` (`Aligned`), `EveryFrameIsReturned` (`NothingHeldBack`), `ChosenPluginKeepsItsPromises` |
| `LibevSessionProofs` | `Invariance`, `NoWatcherOfTheFreed` (`WatchedIsLive`), `OneWatcherEachWay` (`TakesTurns`), `NeverUntimed` (`AlwaysTimed`), `RelaysAsPipes` (`Pipes`) |
| `LibevUdpProofs` | `EntriesStayApart` (`CachedOnce`), `NobodyElsesAnswers` (`OwnAnswers`), `FreedOnlyForAReason` (`FreedForAReason`) |

Assumptions are the named ASSUMEs of the modules, nothing else.  Each module
states an inductive invariant `IInv`, shows that `Init` gives it and that each
action keeps it, one lemma per action or group of actions, and derives the rest.

- VpnService.  The safety of the descriptor and of the references depends on who
  writes a field when: `conn` is only ever left on a closed descriptor by a
  thread between `close()` and the assignment of null.  That an overwritten field
  is harmless needs that an attempt's objects are made once, hence that a worker
  is made once for each start (`Fresh`), hence how calls are numbered in the
  queue (`Profiled`) and who spawns (`Spawning`); `Indexed` bounds the loop
  indices.  It holds however many workers overlap.
- VpnService while no two starts overlap.  `NothingLost` is not inductive: that
  the field written is the last chance to stop what it referred to depends on how
  far the one worker is.  `OneInv` says that there is one (`Alone`: at most one
  start queued, being served or at work), that the profile is its own (`Ours`,
  `Addresses`), that what a worker has still to make is null (`Unmade`), that
  `killProcesses` leaves null what it has passed (`Cleared`) and has told what it
  is about to forget (`Told`).  `OneWorker` is a constant, the assumption on the
  clients, and `OneWorker => OneInv` is inductive beside `IInv`.
- MainActivity.  `ServiceKeepsItsWord` lifts the invariant of the service to its
  real clients: each step of the UI is a post, a look at the queue of statuses, a
  death of the service's process or nothing to the service (`StepsOfTheService`),
  and a new process satisfies the invariant (`NewProcess`).
  `ButtonTellsTheTruth` and `ButtonSerialises` hold of the serial worlds, where
  one instance after the other asks and nobody else.  There at most one errand is
  under way (`Errands`: a start or stop in the queue, a thread at work, or the
  status it ends with on its way back), and the screen agrees with it (`Screen`):
  as long as there is one, the wait dialog is up and the button disabled (`Waits`),
  and when there is none and the service is up, the icon of the bound instance is
  `connected` (`Truthful`).  Neither half is inductive without the other: it is the
  dialog that keeps the second errand away, and the errand that explains the
  dialog.
- `SerialNothingLost` joins the two.  `VpnServiceProofs` assumes of the clients
  that starts do not overlap; `ButtonSerialises` says that the button lets none
  overlap.  With `OneServiceNext` and `OnePost`, the same steps as in
  `OneAtATime`, the conclusions of `NothingLost` and `OwnProfile` hold of the
  serial worlds with `OneWorker` discharged, and not just assumed.
- `ConnectedIsWhole` needs more than that one errand is under way: how far it is.
  `Whole` gives its stage at each statement.  A worker has made the parts of its
  profile that it has passed and no others (`Building`: `Making`, `Route`,
  `Opening`); `stopRunner` has made null what it has passed and owns at most the
  one tun that `conn` names (`Tearing`, `Closing`); and between errands the VPN is
  up as its worker left it or down (`Settled`).  What the proof turns on is that
  the binder thread never throws half-way through `killProcesses`, which would
  leave the rest running with `isVPNConnected` cleared: in a serial world it only
  stops what a worker has finished, every server of which was seen to run before
  `sendFd`.  A worker that throws ends the process, and its successor starts with
  nothing.  With two errands at once none of these stages holds, so that in the
  worlds with `boot` or `recreate` the property is false, and is not stated of them.
- `OneVpn` is the refinement.  The state function `Phase` looks at the queue, at every
  thread and at `isVPNConnected`; the proof replaces it by what the one errand under
  way says of itself, the statement its thread is at (`Turn`): `Fits` has the phase
  that goes with each statement and the parts that can be there then, which `Whole` and
  `Errands` give.  Each statement of the service is then one turn of the lifecycle or a
  stutter (`ServiceTurns`), and so is each step of the UI.  That what a worker builds is
  part of the shape of the *last* start needs one more invariant, `Latest`: a
  queued start is the last one that was asked for, and while none is queued
  `connProfile` is null or that of the last.  In a world that is not serial the mapping is constant, so that the
  property says nothing of it.
- AuthSimple (in `ProtocolChooserProofs`).  Every head that was sent has, under the present client id, a
  connection id not above the present one, so that a bumped id is new; a wrap
  draws a client id that no head carries.
- TcpListener.  A server whose stop has returned has a pool that is shut, or,
  when `stopTunnel` threw before `run()` had made it, a loop that was not entered
  and will find `isRunning` false.
- TcpSession.  Three facts carry the proof.  As long as R has not started, only L
  has touched the session (`Alone`).  A thread that is about to assign null has
  closed both sockets, and one that has ended has assigned it (`Cleaned`): since
  closed sockets stay closed and null fields stay null, it does not matter what
  the other thread does meanwhile.  And what a thread has read and not written is
  in its hands, at "encode" or "write" (`InHand`).  For `RelaysAsPipes` a second
  invariant says that nothing has been relayed while the session is set up
  (`Fresh`); every step is then one read with nothing in hand, one unit written,
  or no move of either stream (`StreamStep`), which is a step of one of the two
  Pipes and a stutter of the other.
- LibevSession.  `TakesTurns` alone is not inductive: which watchers and timers
  there may be depends on the phase, so the invariant has a part for each of
  them: freed (`Freed`), without a remote (`Alone`), waiting for the connection
  (`Connecting`), connected (`Connected`).  `Kept` says that what was taken has
  been put or is in the buffer, which with the reader stopped while the buffer is
  in use makes each callback a step of a Pipe (`Streams`): a read with an empty
  buffer is a Take, a flush a Give, a close an End.
- VerifySimple (the first half of `ProtocolChooserProofs`).  Encoder: all units but the last are whole, and each frame is at
  most 8122 bytes long.  Decoder: what was read is what was decoded and what is
  kept (`Aligned`), frames are longer than their overhead (`Growing`), and what
  was returned is the data up to the mark.  None of this depends on which arrays are
  given to `beforeEncrypt` (`RoomForFrames` and `FramesStepKept` take any size), so
  that it holds of the heads and the rests which AuthSimpleProtocol gives to its
  own (`Given`: they are natural numbers) as of the data itself:
  `ChosenPluginKeepsItsPromises` joins the two.
- LibevUdp.  That entries stay apart rests on `cache_insert` and `cache_lookup`
  moving one entry and never two (`WithoutOne`), on the lowest free descriptor
  being no entry's, and on an association's key holding the client of its
  descriptor.  That the cache always has a place left (`Len(cache) < Capacity`)
  keeps `Evicted` to one entry.
- UdpRelay.  Four parts.  `CacheTyped`: one handler for a client, since `Lookup`
  and `HandlerEnds` take out all of a client's (`WithoutLess`).  `Numbered`: the
  handler in hand is newer than all that are cached.  `InHand`: from the lookup
  that finds nothing to the put, nobody else caches one for the client, which is
  where the server being the only thread that puts matters.  `Stopping`: the pool
  is shut only once `isRunning` is false, so that `execute` of a running relay is
  never rejected.

- Cidr.  That the two variables are 0 before an entry is or-ed into them makes
  `network` and `broadcast` the first and last address of that entry (`RangeIInv`);
  the rest is arithmetic.  The mask cuts a word in two: the bits above the prefix
  contribute a multiple of 2^host (`UptoMultiple`), the ones below a number less
  than that (`UptoBound`), which is 0 in `network` and the largest in `broadcast`
  (`UptoZeros`, `UptoOnes`); and every number between the two ends is some word
  (`UptoOnto`).  From these the bounds compared with are worked out modulo 2^Width
  (`HitIsInRange`): 1 and the size less 2, or twice the last address.  The inductions
  over the bits take no predicate as a parameter, which the provers could not
  instantiate, but a set: one that holds m and with each number the next holds
  m..Width (`Climb`), since a set of naturals has a least element (`Smallest`, from
  `WFMin` of the library).  The same makes a recursive function satisfy its
  equation (`PowIs`, `UptoIs`).

Only model-checked: the liveness properties (`ButtonComesBack`, `DialogCloses`,
`StoppedEnds`, `ListensUnlessLeaked`, `Recovers`, `AnswersRelayed`, `StopEnds`,
`EndTogether`, `Relayed`, `QuietIsFreed`), which need fairness and ENABLED and are
out of the reach of TLAPS here.

## Limits

- VpnService: `stopSelf`, the onDestroy of the service, the notification's text,
  the removal of `pdnsd-vpn.conf` and the application list are left out.  The
  copy of the daemon binaries is its result.  `Sleep` takes it that a thread
  started before a sleep of a second has begun by its end.  `sendFd` can only
  succeed while some tun2socks runs; children die with the service's process
  group.  Revoke happens only to an open tun.
- A revoke that is served after the worker has seen `sendFd` succeed (242) and
  before it sets `isVPNConnected` (244) is undone by the worker: `stopRunner`
  kills everything, closes the tun and clears the flag, the worker sets it again
  and says CONNECTED over a closed tun.  `WholeOrNothing` is stated of serial
  worlds, which have no revoke, for that reason among others.
- MainActivity: the server list, the QR code import and the NAT mode are left
  out.  The code has weaknesses for which no document makes a promise to quote,
  and which the properties leave out by name: a start after boot that overlaps a
  click gives two workers, and the screen may say "play" over a connected VPN,
  since StubActivity registers no callback; an activity that is made anew while the
  start of the former is under way finds `status()` false (117) and has an enabled
  button, so that a second click (342) gives two workers, one of whose servers may be
  lost, running and referred to by nobody; a late onDestroy takes the callback of the
  next instance away; after a death of the service's process the wait dialog stays,
  since `onServiceDisconnected` does not dismiss it.  An instance made from its saved
  state ends the UI process with its first `switchUI`; the modelled "recreate" ends an
  instance and makes the next one fresh or from its saved state.
- TcpListener: the accepted socket is not followed into its session, nor is the
  one a shut pool rejects; no finalizer closes a leaked socket.
- TcpSession: what a session relays is counted, not what it is; a UDP ASSOCIATE
  request goes on like a connect, as in the code.  `OverIsClosed` exempts a tunnel
  session whose protect fails: line 120 returns without `cleanSession` before any
  other thread exists, and both sockets stay open.
- UdpRelay: encryption and the `crypto` object that the handlers share are left
  out.  A server whose port another program has taken (`barred`) is not followed
  further: its thread has returned.  A handler that was evicted and fails takes out
  of the cache whatever its client has there by then; the model does so too, and
  promises nothing of the handler taken out.  An entry whose handler got an answer that is too short stays in the cache
  with no thread; `CachedIsServed` exempts it.
- Cidr: the entries are well-formed; in the runs four bits stand for thirty-two.
- LibevSession: the greeting and the request of a client each arrive whole, as the
  code takes it that they do; the two short replies to them are not counted as
  units, and a reply that is not accepted is a refusal.  `create_remote` returns
  NULL when there are no descriptors left, and the branch of a bypassed
  destination (`local.c` 496-497) uses the result before the test for NULL: the
  model refuses the request there.  Fast open (313-353) and one-time
  authentication are switched off in the configuration the application writes;
  the statistics of traffic are left out.  A read that the plugins swallow whole
  (return 0) is part of the read that completes it.
- LibevSession is one connection: that `free_connections` (199-210) reads
  `curr->next` from a struct it has just freed, when several are open at the end,
  is not visible in it.
- What the code of LibevSession does not promise, and the model shows when asked:
  in ss-local a client that connects and sends nothing is never timed out, since
  both timers belong to the remote; in ss-tunnel no timer runs once the
  connection is up; only bytes from the server start the idle timer anew, so that
  a long upload without an answer is cut; and `accept_cb` of ss-tunnel returns
  with the accepted descriptor open when `socket` or `protect_socket` fails.
- LibevUdp: what datagrams hold is left out; an error of `recvfrom`, or a datagram
  or an answer that cannot be parsed or decoded, changes nothing and is no step.
  A tunnel has one destination, hence one family.  The comparison of the addresses
  after a lookup (line 1006) is left out: the model then takes an association for the
  client's own at least as often as the code does, so that `OwnAnswers` is the
  stronger claim.  `Capacity` is 256 in the code.
  `remote_timeout_cb` makes its key from `remote_ctx->af`, the family of the server
  (line 1087), while the cache uses that of the destination: an association to
  another family is never freed by its timer, and its timer may free the
  association of the same client to the server's family.  `FreedForAReason` and
  `QuietIsFreed` name both; no document promises otherwise.
- AuthSimple and VerifySimple: bytes are not modelled, nor the stream of a peer
  that deviates from the protocol.

## Plan

Done, in this order: VpnService, MainActivity, AuthSimple, TcpListener,
VerifySimple, TcpSession; UdpRelay, Cidr; Pipe as the abstract relay, with
TcpSession shown to implement it; LibevSession and LibevUdp; VpnLifecycle as the
abstract VPN, with MainActivity over VpnService shown to implement it; each with its
proofs.

The runs are few and broad: one passing run for each component, and a composition
such as ProtocolChooser where small components belong together.  What follows
would join these runs or take the place of their weaker properties.

1. `StreamPipeline` (`TCPEncryptor.kt`, `HttpSimpleObfs.kt`, `ImplUtils.kt`,
   `UDPEncryptor.kt`, and the plugins in C): what the first chunks of a stream lose
   when they are cut inside the IV or the HTTP header; the digest and the
   decryptor that threads share.
2. `NatService` (`SSRNatService.kt`) with the iptables rules and redsocks, and the
   switch between the modes in `PrefFragment.kt`.
3. `ProfileStore` (`SSRApplication.kt`, `MainActivity.kt`, `PrefFragment.kt`) and
   `DaemonFiles` (`SSRVPNService.kt` 132-190).
4. The service of the native client with `ProtectThread`, over LibevSession, whose
   `protect_socket` it answers.

Not modelled, and not planned: the ciphers, which are mathematics; layout, link
parsing and shell commands of the user interface; `server.c`, `redir.c` and
`manager.c`, which the application does not build; the vendored programs.
