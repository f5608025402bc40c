----------------------------------- MODULE Net ----------------------------------
(***************************************************************************)
(* The sockets of stx::net: TCPServer and UDPServer listen and re-arm      *)
(* themselves in the event loop, an accepted descriptor travels in a       *)
(* scheduled task to the TCPConnection that will own it, clients connect   *)
(* with and without blocking.  Descriptor numbers are reused, as the       *)
(* kernel does: a close too many closes somebody else's connection.        *)
(*                                                                         *)
(* And DNSCache::resolve(), which looks an address up under its mutex,     *)
(* resolves it without it, and stores the answer under it again.  An       *)
(* address is the sequence of its parts between colons, a host and perhaps *)
(* a port; the name service may answer differently every time, or not at   *)
(* all.  The sockets and the cache share no state: SocketsNext, DNSNext.   *)
(***************************************************************************)
EXTENDS Integers, Sequences, FiniteSets

CONSTANTS
  Connections,    \* TCPConnection objects
  Nobody,
  MaxFd,          \* bounds on the open descriptors,
  MaxSockets,     \* the sockets opened over a behaviour
  MaxBytes,       \* and the bytes on the wire
  Resolvers,      \* callers of DNSCache::resolve()
  Addresses,          \* the addresses asked for
  Ips,            \* what the name service may answer
  NoAddr

\* Without a port it is 0.
portOf(addr) == IF Len(addr) = 2 THEN addr[2] ELSE 0

ASSUME NetAssumption ==
  /\ MaxFd \in Nat /\ MaxSockets \in Nat /\ MaxBytes \in Nat
  /\ Nobody \notin Connections
  /\ \A ip \in Ips, a \in Addresses : NoAddr # [ip |-> ip, port |-> portOf(a)]

VARIABLES
  fds,            \* [descriptor -> [id, bytes, nonblock]]: id names the socket behind it
  sockets,        \* how many sockets there have been
  tcp, udp,       \* the listening sockets: [fd, armed]
  callback,       \* on_connection_cb_ is set
  backlog,        \* connections the kernel has completed
  tasks,          \* descriptors in on_connection_cb_ tasks not yet run
  conn,           \* [Connections -> [state, fd, id, closed]]
  async,          \* the connectAsync() call: [pc, obj]
  ready,          \* objects whose on_ready is registered with the loop
  lost,           \* history: sockets no object refers to any more
  misused,        \* history: an object closed, read or wrote a descriptor it was not given
  cache,          \* DNSCache::cache_: [Addresses -> InetAddr or NoAddr]
  look            \* [Resolvers -> [pc, addr, got, hit]]: hit, the answer came from the cache

socketsVars == <<fds, sockets, tcp, udp, callback, backlog, tasks, conn, async, ready, lost, misused>>

Closed == [fd |-> -1, armed |-> FALSE]
NoConn == [state |-> "none", fd |-> -1, id |-> 0, closed |-> FALSE]

SocketsInit ==
  /\ fds = <<>> /\ sockets = 0 /\ tcp = Closed /\ udp = Closed
  /\ callback = FALSE /\ backlog = 0 /\ tasks = {}
  /\ conn = [o \in Connections |-> NoConn] /\ async = [pc |-> "idle", obj |-> Nobody]
  /\ ready = {} /\ lost = {} /\ misused = FALSE

-----------------------------------------------------------------------------
(* The kernel.                                                             *)

Fds == 0..(MaxFd - 1)
CanOpen == sockets < MaxSockets /\ Cardinality(DOMAIN fds) < MaxFd
newFd == CHOOSE n \in Fds \ DOMAIN fds : \A m \in Fds \ DOMAIN fds : n <= m
OpenedFds(nonblock) ==
  [d \in DOMAIN fds \cup {newFd} |->
     IF d = newFd THEN [id |-> sockets + 1, bytes |-> 0, nonblock |-> nonblock] ELSE fds[d]]
ClosedFds(fd) == [d \in DOMAIN fds \ {fd} |-> fds[d]]
Unused == {o \in Connections : conn[o].state = "none"}
NewConn(o, fd, id) == [conn EXCEPT ![o] = [state |-> "live", fd |-> fd, id |-> id, closed |-> FALSE]]

\* Does the descriptor of this object still lead to the socket it was made for?
Own(o) == conn[o].fd \in DOMAIN fds /\ fds[conn[o].fd].id = conn[o].id

\* Bytes arrive on a connection; a peer's connect() completes.
Arrive ==
  /\ \E fd \in DOMAIN fds :
       /\ fds[fd].bytes < MaxBytes /\ \A s \in {tcp, udp} : s.fd # fd
       /\ fds' = [fds EXCEPT ![fd].bytes = @ + 1]
  /\ UNCHANGED <<sockets, tcp, udp, callback, backlog, tasks, conn, async, ready, lost, misused>>
Peer ==
  /\ tcp.armed /\ backlog = 0 /\ backlog' = 1
  /\ UNCHANGED <<fds, sockets, tcp, udp, callback, tasks, conn, async, ready, lost, misused>>
\* A peer gives up between the select() and the accept() that it made ready.
PeerLeaves ==
  /\ backlog = 1 /\ backlog' = 0
  /\ UNCHANGED <<fds, sockets, tcp, udp, callback, tasks, conn, async, ready, lost, misused>>

-----------------------------------------------------------------------------
(* TCPServer and UDPServer.                                                *)

onConnection ==
  /\ ~callback /\ callback' = TRUE
  /\ UNCHANGED <<fds, sockets, tcp, udp, backlog, tasks, conn, async, ready, lost, misused>>

\* Any of setsockopt, fcntl, bind and listen may fail: the socket stays open, and the
\* next listen() forgets it.
listenTCP ==
  /\ ~tcp.armed /\ backlog = 0 /\ CanOpen
  /\ fds' = OpenedFds(TRUE) /\ sockets' = sockets + 1
  /\ lost' = IF tcp.fd = -1 THEN lost ELSE lost \cup {tcp.fd}
  /\ \E ok \in BOOLEAN : tcp' = [fd |-> newFd, armed |-> ok]
  /\ UNCHANGED <<udp, callback, backlog, tasks, conn, async, ready, misused>>

listenUDP ==
  /\ ~udp.armed /\ CanOpen
  /\ fds' = OpenedFds(TRUE) /\ sockets' = sockets + 1
  /\ lost' = IF udp.fd = -1 THEN lost ELSE lost \cup {udp.fd}
  /\ \E ok \in BOOLEAN : udp' = [fd |-> newFd, armed |-> ok]
  /\ UNCHANGED <<tcp, callback, backlog, tasks, conn, async, ready, misused>>

\* The loop calls accept() once per registration.  Without a callback nobody takes the
\* descriptor.
accept ==
  /\ tcp.armed /\ backlog = 1 /\ CanOpen
  /\ fds' = OpenedFds(FALSE) /\ sockets' = sockets + 1 /\ backlog' = 0
  /\ tasks' = IF callback THEN tasks \cup {newFd} ELSE tasks
  /\ lost' = IF callback THEN lost ELSE lost \cup {newFd}
  /\ UNCHANGED <<tcp, udp, callback, conn, async, ready, misused>>

\* accept() raises when the peer has left: that is before the server is armed again.
acceptRaises ==
  /\ tcp.armed /\ backlog = 0 /\ tcp' = [tcp EXCEPT !.armed = FALSE]
  /\ UNCHANGED <<fds, sockets, udp, callback, backlog, tasks, conn, async, ready, lost, misused>>

\* A scheduler thread runs the task: the TCPConnection is made there.
connectionTask ==
  /\ \E fd \in tasks, o \in Unused :
       /\ tasks' = tasks \ {fd} /\ conn' = NewConn(o, fd, fds[fd].id)
  /\ UNCHANGED <<fds, sockets, tcp, udp, callback, backlog, async, ready, lost, misused>>

-----------------------------------------------------------------------------
(* TCPConnection.                                                          *)

\* close() does not test closed_: whoever calls it twice closes what the number means by
\* then.  Not to use a connection that it has closed is left to the caller, here and in
\* read() and write().
closeConnection(o) ==
  /\ conn[o].state = "live" /\ o \notin ready /\ async.obj # o /\ ~conn[o].closed
  /\ fds' = ClosedFds(conn[o].fd) /\ conn' = [conn EXCEPT ![o].closed = TRUE]
  /\ misused' = (misused \/ ~Own(o))
  /\ UNCHANGED <<sockets, tcp, udp, callback, backlog, tasks, async, ready, lost>>

\* What the destructor leaves of an object and of its descriptor.
Destroyed(o) ==
  /\ conn' = [conn EXCEPT ![o] = NoConn]
  /\ fds' = IF conn[o].closed THEN fds ELSE ClosedFds(conn[o].fd)
  /\ misused' = (misused \/ (~conn[o].closed /\ ~Own(o)))

destroyConnection(o) ==
  /\ conn[o].state = "live" /\ o \notin ready /\ async.obj # o /\ Destroyed(o)
  /\ UNCHANGED <<sockets, tcp, udp, callback, backlog, tasks, async, ready, lost>>

\* read() takes what is there; with nothing there it blocks, or raises kWouldBlockError,
\* which changes nothing.
readFrom(o) ==
  /\ conn[o].state = "live" /\ o \notin ready /\ async.obj # o /\ ~conn[o].closed
  /\ misused' = (misused \/ ~Own(o))
  /\ conn[o].fd \in DOMAIN fds => fds[conn[o].fd].bytes > 0
  /\ fds' = IF Own(o) THEN [fds EXCEPT ![conn[o].fd].bytes = @ - 1] ELSE fds
  /\ UNCHANGED <<sockets, tcp, udp, callback, backlog, tasks, conn, async, ready, lost>>

\* write() passes bytes to the descriptor, or raises.
writeTo(o) ==
  /\ conn[o].state = "live" /\ o \notin ready /\ async.obj # o /\ ~conn[o].closed
  /\ misused' = (misused \/ ~Own(o))
  /\ UNCHANGED <<fds, sockets, tcp, udp, callback, backlog, tasks, conn, async, ready, lost>>

setNonblocking(o, nonblocking) ==
  /\ conn[o].state = "live" /\ Own(o) /\ fds[conn[o].fd].nonblock # nonblocking
  /\ o \notin ready /\ async.obj # o
  /\ fds' = [fds EXCEPT ![conn[o].fd].nonblock = nonblocking]
  /\ UNCHANGED <<sockets, tcp, udp, callback, backlog, tasks, conn, async, ready, lost, misused>>

\* connect(): the socket, its object and the blocking connectImpl(); when that raises the
\* unique_ptr destroys the object and nothing is left.
connectImpl(o) == conn' = NewConn(o, newFd, sockets + 1)
connect ==
  /\ CanOpen /\ sockets' = sockets + 1
  /\ \E o \in Unused : (connectImpl(o) /\ fds' = OpenedFds(FALSE)) \/ UNCHANGED <<conn, fds>>
  /\ UNCHANGED <<tcp, udp, callback, backlog, tasks, async, ready, lost, misused>>

\* connectAsync() on a caller's thread: make and connect the object; register on_ready
\* with the loop, which may run it from here on; let go of it.
connectAsync ==
  /\ async.pc = "idle" /\ CanOpen /\ sockets' = sockets + 1
  /\ \E o \in Unused :
       \/ connectImpl(o) /\ fds' = OpenedFds(TRUE) /\ async' = [pc |-> "register", obj |-> o]
       \/ UNCHANGED <<conn, fds, async>>
  /\ UNCHANGED <<tcp, udp, callback, backlog, tasks, ready, lost, misused>>
registered ==
  /\ async.pc = "register" /\ ready' = ready \cup {async.obj}
  /\ async' = [async EXCEPT !.pc = "release"]
  /\ UNCHANGED <<fds, sockets, tcp, udp, callback, backlog, tasks, conn, lost, misused>>
\* runOnWritable() raises for a descriptor above FD_SETSIZE: the object goes.
registrationRaises ==
  /\ async.pc = "register" /\ async' = [pc |-> "idle", obj |-> Nobody] /\ Destroyed(async.obj)
  /\ UNCHANGED <<sockets, tcp, udp, callback, backlog, tasks, ready, lost>>
released_destroys ==
  /\ async.pc = "release" /\ async' = [pc |-> "idle", obj |-> Nobody]
  /\ Destroyed(async.obj)
  /\ UNCHANGED <<sockets, tcp, udp, callback, backlog, tasks, ready, lost>>
released ==
  /\ async.pc = "release" /\ async' = [pc |-> "idle", obj |-> Nobody]
  /\ UNCHANGED <<fds, sockets, tcp, udp, callback, backlog, tasks, conn, ready, lost, misused>>
\* The loop runs on_ready, whose unique_ptr owns the object now, whatever the connect came
\* to: it may drop it at once, with connectAsync() still in its last line.
onReady ==
  /\ \E o \in ready :
       /\ ready' = ready \ {o}
       /\ \/ Destroyed(o)
          \/ UNCHANGED <<conn, fds, misused>>
  /\ UNCHANGED <<sockets, tcp, udp, callback, backlog, tasks, async, lost>>

-----------------------------------------------------------------------------

SocketsNext ==
  \/ Arrive \/ Peer \/ PeerLeaves \/ onConnection \/ listenTCP \/ listenUDP
  \/ accept \/ acceptRaises \/ connectionTask \/ connect
  \/ connectAsync \/ registered \/ registrationRaises \/ released \/ onReady
  \/ \E o \in Connections : closeConnection(o) \/ destroyConnection(o) \/ readFrom(o) \/ writeTo(o)
  \/ \E o \in Connections, b \in BOOLEAN : setNonblocking(o, b)

-----------------------------------------------------------------------------
(* DNSCache.                                                               *)

DNSInit ==
  /\ cache = [a \in Addresses |-> NoAddr]
  /\ look = [t \in Resolvers |-> [pc |-> "idle", addr |-> <<>>, got |-> NoAddr, hit |-> FALSE]]

\* InetAddr::resolve(): the addresses a string may stand for, none when it raises: the
\* host is looked up when there are one or two parts.
resolvesTo(addr) ==
  IF Len(addr) \in 1..2
  THEN {[ip |-> ip, port |-> portOf(addr)] : ip \in Ips} ELSE {}

resolve(t, addr) ==
  /\ look[t].pc = "idle"
  /\ look' = [look EXCEPT ![t] =
       [pc |-> IF cache[addr] = NoAddr THEN "asking" ELSE "done", addr |-> addr,
        got |-> cache[addr], hit |-> cache[addr] # NoAddr]]
  /\ UNCHANGED cache

\* emplace() keeps the address that is there; the caller gets the one it asked for.
resolved_overwrites(t) ==
  /\ look[t].pc = "asking"
  /\ \E a \in resolvesTo(look[t].addr) :
       /\ cache' = [cache EXCEPT ![look[t].addr] = a]
       /\ look' = [look EXCEPT ![t].pc = "done", ![t].got = a]
resolved(t) ==
  /\ look[t].pc = "asking"
  /\ \E a \in resolvesTo(look[t].addr) :
       /\ cache' = [cache EXCEPT ![look[t].addr] = IF @ = NoAddr THEN a ELSE @]
       /\ look' = [look EXCEPT ![t].pc = "done", ![t].got = a]

\* The address is malformed or not known: resolve() raises with the mutex released.
unresolved(t) ==
  /\ look[t].pc = "asking" /\ look' = [look EXCEPT ![t].pc = "idle"] /\ UNCHANGED cache

\* A thread that had to ask comes back.
again(t) ==
  /\ look[t].pc = "done" /\ ~look[t].hit
  /\ look' = [look EXCEPT ![t].pc = "idle"] /\ UNCHANGED cache

DNSNext ==
  \E t \in Resolvers :
    (\E a \in Addresses : resolve(t, a)) \/ resolved(t) \/ unresolved(t) \/ again(t)

dnsVars == <<cache, look>>
NetInit == SocketsInit /\ DNSInit
NetNext == (SocketsNext /\ UNCHANGED dnsVars) \/ (DNSNext /\ UNCHANGED socketsVars)
NetSpec == NetInit /\ [][NetNext]_<<socketsVars, dnsVars>>

-----------------------------------------------------------------------------

\* Who would close this descriptor.
Holders(fd) ==
  {<<"tcp", d>> : d \in {tcp.fd} \cap {fd}} \cup {<<"udp", d>> : d \in {udp.fd} \cap {fd}}
  \cup {<<"task", d>> : d \in tasks \cap {fd}} \cup {<<"lost", d>> : d \in lost \cap {fd}}
  \cup {<<"conn", o>> : o \in {c \in Connections : conn[c].state = "live" /\ ~conn[c].closed /\ conn[c].fd = fd}}

\* Every open socket has exactly one holder: a server, the task that carries it from
\* accept() to its connection, a TCPConnection that has not closed it, or nobody ever
\* again (accepted without a callback, a failed listen()).  No connection reads, writes
\* or closes a descriptor that by then means another socket, connectAsync()'s last
\* line included, which the loop may have overtaken.
SocketsOwned == ~misused /\ \A fd \in DOMAIN fds : Cardinality(Holders(fd)) = 1

\* Threads that missed together may get different addresses, but whoever was answered
\* from DNSCache was answered what it still holds: the first address stored stays.
\* Nobody gets the port another address was asked with.
CachedAddrStays ==
  \A t \in Resolvers :
    /\ look[t].hit => look[t].got = cache[look[t].addr]
    /\ look[t].pc = "done" => look[t].got.port = portOf(look[t].addr)

\* Every open socket has exactly one holder, and no connection reads, writes or closes a
\* descriptor that has become another one's; an address DNSCache has answered stays.
SocketsSafe == SocketsOwned /\ CachedAddrStays
=================================================================================
