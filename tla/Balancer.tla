------------------------------ MODULE Balancer ------------------------------
(***************************************************************************)
(* The load balancer's event loop (balancer/src/balancer.c): one thread, a *)
(* level-triggered epoll, and for every proxied connection one buffer per  *)
(* direction.  Which backend a connection goes to is module Selection.     *)
(*                                                                         *)
(* A connection is a slot of memory, so that a freed lb_connection_t can   *)
(* come back from malloc as the next one while events that point to it are *)
(* still to be dispatched.  Each peer sends the bytes 1, 2, 3 ... ; the    *)
(* bytes of the PROXY header are 0.                                        *)
(***************************************************************************)
EXTENDS Selection

CONSTANTS
    ConnCount,     \* the connections there is memory for
    BufferSize,    \* LB_BUFFER_SIZE
    Setups,        \* the ways the balancer is set up and used, see SetupType
    Faults         \* the calls of lb_handle_new_connection that may fail

Slot == 1 .. ConnCount
Side == {"client", "backend"}

\* The weights of the configured backends, lb->strategy, the bytes of the PROXY
\* header (0 if it is off), and two bounds on the environment: the connections
\* at a time and the bytes each peer sends on one.
SetupType ==
    [weights : Seq(Nat \ {0}), strategy : {"round_robin", "least_conn", "ip_hash", "random"},
     header : Nat, conns : Slot, sent : [Side -> Nat]]

ASSUME BalancerAssumption ==
    /\ {ConnCount, BufferSize, FailureThreshold} \subseteq Nat \ {0}
    /\ Setups \subseteq SetupType
    /\ Faults \subseteq {"accept", "nonblocking", "connect", "resources"}

VARIABLES
    setup,
    backends,
    backlog,   \* a client waits to be accepted
    conns,     \* the lb_connection_t in each slot
    socks,     \* what the kernel and the peers know of its two sockets
    events     \* the events of the current batch not yet dispatched

vars == <<setup, backends, backlog, conns, socks, events>>

Backend == DOMAIN backends

Bytes(n) == [i \in 1 .. n |-> i]
Header == [i \in 1 .. setup.header |-> 0]

-----------------------------------------------------------------------------
(***************************************************************************)
(* lb_connection_t.  A buffer is the part of it that is still to be sent.  *)
(* fresh marks a connection made during the current batch; it is not in    *)
(* the code.                                                               *)
(***************************************************************************)
FreeSlot ==
    [state |-> "free", backend |-> 1, proxy_hdr |-> <<>>, client_buffer |-> <<>>,
     backend_buffer |-> <<>>, client_eof |-> FALSE, fresh |-> FALSE]

NewConnection(b) ==
    [FreeSlot EXCEPT !.state = "open", !.backend = b, !.proxy_hdr = Header, !.fresh = TRUE]

(***************************************************************************)
(* A socket: the bytes read() can deliver and those sent by the peer so    *)
(* far, the bytes the peer was given, how the peer's side ended, whether   *)
(* the send buffer has room, and the events epoll watches it for.          *)
(***************************************************************************)
NewSocket(end) ==
    [in |-> <<>>, sent |-> 0, got |-> <<>>, end |-> end, room |-> end = "open",
     interest |-> {"in"}]

NoSockets == [client |-> NewSocket("open"), backend |-> NewSocket("open")]
NewSockets == [client |-> NewSocket("open"), backend |-> NewSocket("connecting")]

\* What epoll_wait reports of a socket.  A reset one counts as readable and
\* writable; that it hung up is reported whatever the interest.
Reported(sock) ==
    (sock.interest \cap
        ((IF sock.in # <<>> \/ sock.end \in {"fin", "rst"} THEN {"in"} ELSE {})
         \cup (IF sock.room \/ sock.end = "rst" THEN {"out"} ELSE {})))
    \cup (IF sock.end = "rst" THEN {"hup"} ELSE {})

ListenEvent == [conn |-> 0, role |-> "listen", mask |-> {"in"}]

ReadyEvents ==
    {e \in {[conn |-> s, role |-> side, mask |-> Reported(socks[s][side])] : s \in Slot, side \in Side} :
        conns[e.conn].state = "open" /\ e.mask # {}}
    \cup (IF backlog THEN {ListenEvent} ELSE {})

\* write() until all is sent or it blocks: what is accepted, and whether there
\* is room left then.
Writes(sock, bytes) ==
    IF bytes = <<>> \/ ~sock.room THEN {[n |-> 0, room |-> sock.room]}
    ELSE {w \in [n : 1 .. Len(bytes), room : BOOLEAN] : w.room => w.n = Len(bytes)}

Written(sock, bytes, w) ==
    [sock EXCEPT !.got = @ \o SubSeq(bytes, 1, w.n), !.room = w.room]

Rest(bytes, n) == SubSeq(bytes, n + 1, Len(bytes))

\* read(): a chunk of what is there.
Chunk(sock) == SubSeq(sock.in, 1, IF Len(sock.in) < BufferSize THEN Len(sock.in) ELSE BufferSize)
ReadFrom(sock) == [sock EXCEPT !.in = Rest(@, Len(Chunk(sock)))]

-----------------------------------------------------------------------------
\* Mutant of ClientInterest: the client is read whatever is still to be sent.
ClientInterestAlways(c) ==
    (IF ~c.client_eof THEN {"in"} ELSE {})
    \cup (IF c.backend_buffer # <<>> THEN {"out"} ELSE {})

\* Mutant of ClientInterest: nobody waits for the client to become writable.
ClientInterestReads(c) ==
    IF c.client_buffer \o c.proxy_hdr = <<>> /\ ~c.client_eof THEN {"in"} ELSE {}

\* update_epoll_interest
ClientInterest(c) ==
    (IF c.client_buffer \o c.proxy_hdr = <<>> /\ ~c.client_eof THEN {"in"} ELSE {})
    \cup (IF c.backend_buffer # <<>> THEN {"out"} ELSE {})

BackendInterest(c) ==
    (IF c.backend_buffer = <<>> THEN {"in"} ELSE {})
    \cup (IF c.client_buffer \o c.proxy_hdr # <<>> THEN {"out"} ELSE {})

update_epoll_interest(s, c, k) ==
    /\ conns' = [conns EXCEPT ![s] = c]
    /\ socks' = [socks EXCEPT ![s] = [k EXCEPT !.client.interest = ClientInterest(c),
                                               !.backend.interest = BackendInterest(c)]]

\* Mutant of Closed: the connection is freed at once.
ClosedAndFreed(c) == FreeSlot

\* The slot of a connection on closed_list.
Closed(c) == [FreeSlot EXCEPT !.state = "closed"]

\* lb_close_connection, with the backends as the handler left them.
lb_close_connection(s, bs) ==
    /\ backends' = [bs EXCEPT ![conns[s].backend].current_connections = @ - 1]
    /\ conns' = [conns EXCEPT ![s] = Closed(@)]
    /\ socks' = [socks EXCEPT ![s] = NoSockets]

CloseAndBlame(s) == lb_close_connection(s, mark_backend_failure(backends, conns[s].backend))

(***************************************************************************)
(* flush_client_to_backend and flush_backend_to_client, for a connection c *)
(* and its sockets k as the handler left them.                             *)
(***************************************************************************)
ForBackend(c) == c.proxy_hdr \o c.client_buffer

flush_client_to_backend(s, c, k) ==
    IF ForBackend(c) # <<>> /\ k.backend.end = "rst"
    THEN CloseAndBlame(s)
    ELSE \E w \in Writes(k.backend, ForBackend(c)) :
            /\ update_epoll_interest(s,
                   [c EXCEPT !.proxy_hdr = Rest(@, w.n),
                             !.client_buffer = IF w.n <= Len(c.proxy_hdr) THEN @
                                               ELSE Rest(@, w.n - Len(c.proxy_hdr))],
                   [k EXCEPT !.backend = Written(@, ForBackend(c), w)])
            /\ UNCHANGED backends

flush_backend_to_client(s, c, k, bs) ==
    IF c.backend_buffer # <<>> /\ k.client.end = "rst"
    THEN lb_close_connection(s, bs)
    ELSE \E w \in Writes(k.client, c.backend_buffer) :
            /\ update_epoll_interest(s, [c EXCEPT !.backend_buffer = Rest(@, w.n)],
                   [k EXCEPT !.client = Written(@, c.backend_buffer, w)])
            /\ backends' = bs

-----------------------------------------------------------------------------
(***************************************************************************)
(* The loop: free what the last batch closed, wait for the next one, and   *)
(* dispatch its events one by one.                                         *)
(***************************************************************************)
EpollWait ==
    /\ events = {} /\ ReadyEvents # {}
    /\ conns' = [s \in Slot |-> IF conns[s].state = "closed" THEN FreeSlot
                                ELSE [conns[s] EXCEPT !.fresh = FALSE]]
    /\ events' = ReadyEvents
    /\ UNCHANGED <<setup, backends, backlog, socks>>

Dispatched(e) ==
    /\ e \in events
    /\ events' = events \ {e}
    /\ UNCHANGED setup

\* lb_handle_new_connection: accept() itself fails and the client stays queued.
AcceptFails ==
    /\ Dispatched(ListenEvent) /\ "accept" \in Faults
    /\ UNCHANGED <<backends, backlog, conns, socks>>

\* The client is closed again: set_nonblocking fails.
NonblockingFails ==
    /\ Dispatched(ListenEvent) /\ "nonblocking" \in Faults
    /\ backlog' = FALSE
    /\ UNCHANGED <<backends, conns, socks>>

Recovered == {passive_recovery(backends, due) : due \in SUBSET Backend}

\* No healthy backend: send_503.
Refuse ==
    /\ Dispatched(ListenEvent)
    /\ \E bs \in Recovered : Healthy(bs) = {} /\ backends' = bs
    /\ backlog' = FALSE
    /\ UNCHANGED <<conns, socks>>

Selections == UNION {select_backend(setup.strategy, bs) : bs \in Recovered}

\* connect() fails at once.
ConnectFails ==
    /\ Dispatched(ListenEvent) /\ "connect" \in Faults
    /\ \E sel \in Selections : backends' = mark_backend_failure(sel.backends, sel.id)
    /\ backlog' = FALSE
    /\ UNCHANGED <<conns, socks>>

\* malloc or add_connection_to_epoll fails.
OutOfResources ==
    /\ Dispatched(ListenEvent)
    /\ "resources" \in Faults \/ \A s \in 1 .. setup.conns : conns[s].state # "free"
    /\ \E sel \in Selections : backends' = sel.backends
    /\ backlog' = FALSE
    /\ UNCHANGED <<conns, socks>>

Accept ==
    /\ Dispatched(ListenEvent)
    /\ \E sel \in Selections, s \in 1 .. setup.conns :
          /\ conns[s].state = "free"
          /\ conns' = [conns EXCEPT ![s] = NewConnection(sel.id)]
          /\ socks' = [socks EXCEPT ![s] = NewSockets]
          /\ backends' = [sel.backends EXCEPT ![sel.id].current_connections = @ + 1]
    /\ backlog' = FALSE

\* An earlier event of the batch closed the connection.
SkipClosed(e) ==
    /\ Dispatched(e) /\ e.role # "listen" /\ conns[e.conn].state # "open"
    /\ UNCHANGED <<backends, backlog, conns, socks>>

LiveEvent(e, sides) ==
    /\ Dispatched(e) /\ e.role \in sides /\ conns[e.conn].state = "open"
    /\ UNCHANGED backlog

lb_handle_connection_error(e) ==
    /\ LiveEvent(e, Side)
    /\ "hup" \in e.mask /\ "in" \notin e.mask
    /\ IF socks[e.conn].backend.end = "rst" THEN CloseAndBlame(e.conn)
       ELSE lb_close_connection(e.conn, backends)

\* Mutant of AtClientEof: a client that stops sending is hung up on.
HangUpAtClientEof(s) == lb_close_connection(s, backends)

\* The client half-closed: its response is still relayed.
AtClientEof(s) ==
    /\ update_epoll_interest(s, [conns[s] EXCEPT !.client_eof = TRUE], socks[s])
    /\ UNCHANGED backends

lb_handle_client_data(e) ==
    LET s == e.conn
        sock == socks[s].client
    IN  /\ LiveEvent(e, {"client"}) /\ "in" \in e.mask
        /\ \/ /\ sock.in # <<>>
              /\ flush_client_to_backend(s, [conns[s] EXCEPT !.client_buffer = Chunk(sock)],
                                         [socks[s] EXCEPT !.client = ReadFrom(@)])
           \/ sock.in = <<>> /\ sock.end = "fin" /\ AtClientEof(s)
           \/ sock.in = <<>> /\ sock.end = "rst" /\ lb_close_connection(s, backends)

lb_handle_backend_data(e) ==
    LET s == e.conn
        sock == socks[s].backend
    IN  /\ LiveEvent(e, {"backend"}) /\ "in" \in e.mask
        /\ \/ /\ sock.in # <<>>
              /\ flush_backend_to_client(s, [conns[s] EXCEPT !.backend_buffer = Chunk(sock)],
                                         [socks[s] EXCEPT !.backend = ReadFrom(@)],
                                         mark_backend_success(backends, conns[s].backend))
           \/ sock.in = <<>> /\ sock.end = "fin" /\ lb_close_connection(s, backends)
           \/ sock.in = <<>> /\ sock.end = "rst" /\ CloseAndBlame(s)

lb_handle_client_write(e) ==
    /\ LiveEvent(e, {"client"}) /\ e.mask = {"out"}
    /\ flush_backend_to_client(e.conn, conns[e.conn], socks[e.conn], backends)

lb_handle_backend_write(e) ==
    /\ LiveEvent(e, {"backend"}) /\ e.mask = {"out"}
    /\ flush_client_to_backend(e.conn, conns[e.conn], socks[e.conn])

-----------------------------------------------------------------------------
(***************************************************************************)
(* The peers.                                                              *)
(***************************************************************************)
Env(s, side, sock) ==
    /\ conns[s].state = "open"
    /\ socks' = [socks EXCEPT ![s][side] = sock]
    /\ UNCHANGED <<setup, backends, backlog, conns, events>>

PeerConnects ==
    /\ ~backlog /\ backlog' = TRUE
    /\ UNCHANGED <<setup, backends, conns, socks, events>>

BackendAccepts(s) ==
    /\ socks[s].backend.end = "connecting"
    /\ Env(s, "backend", [socks[s].backend EXCEPT !.end = "open", !.room = TRUE])

PeerSends(s, side) ==
    LET sock == socks[s][side] IN
    /\ sock.end = "open" /\ sock.sent < setup.sent[side]
    /\ Env(s, side, [sock EXCEPT !.sent = @ + 1, !.in = Append(@, sock.sent + 1)])

PeerFinishes(s, side) ==
    /\ socks[s][side].end = "open"
    /\ Env(s, side, [socks[s][side] EXCEPT !.end = "fin"])

\* The peer resets the connection, or refuses it.
PeerResets(s, side) ==
    /\ socks[s][side].end # "rst"
    /\ Env(s, side, [socks[s][side] EXCEPT !.end = "rst"])

\* The peer reads, so that there is room again.
PeerReads(s, side) ==
    /\ ~socks[s][side].room /\ socks[s][side].end \in {"open", "fin"}
    /\ Env(s, side, [socks[s][side] EXCEPT !.room = TRUE])

-----------------------------------------------------------------------------
\* load_balancer_init and add_backend; main leaves strategy at round_robin.
Init ==
    /\ setup \in Setups
    /\ backends = [b \in DOMAIN setup.weights |-> AddedBackend(setup.weights[b])]
    /\ backlog = FALSE
    /\ conns = [s \in Slot |-> FreeSlot]
    /\ socks = [s \in Slot |-> NoSockets]
    /\ events = {}

Dispatch ==
    \/ AcceptFails \/ NonblockingFails \/ Refuse \/ ConnectFails \/ OutOfResources \/ Accept
    \/ \E e \in events :
          \/ SkipClosed(e) \/ lb_handle_connection_error(e)
          \/ lb_handle_client_data(e) \/ lb_handle_backend_data(e)
          \/ lb_handle_client_write(e) \/ lb_handle_backend_write(e)

Peers ==
    \/ PeerConnects
    \/ \E s \in Slot : BackendAccepts(s)
    \/ \E s \in Slot, side \in Side :
          PeerSends(s, side) \/ PeerFinishes(s, side) \/ PeerResets(s, side) \/ PeerReads(s, side)

Next == EpollWait \/ Dispatch \/ Peers

Spec == Init /\ [][Next]_vars

\* The loop runs, and a peer that is sent something reads it or goes away.
FairSpec ==
    /\ Spec
    /\ WF_vars(EpollWait) /\ WF_vars(Dispatch)
    /\ \A s \in Slot, side \in Side : WF_vars(PeerReads(s, side))

-----------------------------------------------------------------------------
\* Every variable has its type; no buffer holds more than BufferSize.
TypeOK ==
    /\ setup \in Setups
    /\ \A b \in Backend :
          /\ backends[b].health_status \in {0, 1}
          /\ {backends[b].consecutive_failures, backends[b].current_connections} \subseteq Nat
          /\ backends[b].current_weight \in Int
    /\ backlog \in BOOLEAN
    /\ \A s \in Slot :
          /\ conns[s].state \in {"free", "open", "closed"} /\ conns[s].backend \in Backend
          /\ {Len(conns[s].client_buffer), Len(conns[s].backend_buffer)} \subseteq 0 .. BufferSize
          /\ \A side \in Side :
                /\ {socks[s][side].in, socks[s][side].got} \subseteq Seq(Nat)
                /\ socks[s][side].end \in {"connecting", "open", "fin", "rst"}
                /\ socks[s][side].interest \subseteq {"in", "out"}

\* No byte is lost, duplicated or reordered on its way through the balancer,
\* and the PROXY header goes first: what a peer was given, what is buffered for
\* it and what is still to be read make up what the other peer has sent.  In
\* particular no chunk is read into a buffer whose last one is not sent yet,
\* and none is larger than the buffer (TypeOK).
StreamsIntact ==
    TypeOK /\ \A s \in Slot : conns[s].state = "open" =>
        LET c == conns[s]
            k == socks[s]
        IN  /\ k.backend.got \o c.proxy_hdr \o c.client_buffer \o k.client.in
                = Header \o Bytes(k.client.sent)
            /\ k.client.got \o c.backend_buffer \o k.backend.in = Bytes(k.backend.sent)

\* An event is never dispatched to freed memory, nor to a later connection in
\* the memory of the one it was reported for: that is what the deferred free
\* of closed_list is for.
EventsReachTheirConnection ==
    \A e \in events : e.role # "listen" =>
        conns[e.conn].state # "free" /\ ~conns[e.conn].fresh

\* current_connections, which least_connection_select compares, is the number
\* of open connections, whichever way connections failed, and is 0 when idle.
ConnectionsCounted ==
    \A b \in Backend : backends[b].current_connections =
        Cardinality({s \in Slot : conns[s].state = "open" /\ conns[s].backend = b})

\* A backend is out of rotation exactly while its failures since the last
\* success or recovery reach the threshold.
HealthFollowsFailures ==
    \A b \in Backend :
        backends[b].health_status = 0 <=> backends[b].consecutive_failures >= FailureThreshold

\* Smooth round robin neither makes nor loses weight, whichever backends drop
\* out or come back in between, and no current_weight drifts away: the int in
\* backend_t cannot overflow and no healthy backend is passed over for good.
WeightsBalanced ==
    LET all == SumOf([b \in Backend |-> backends[b].weight]) IN
    /\ SumOf([b \in Backend |-> backends[b].current_weight]) = 0
    /\ \A b \in Backend : backends[b].current_weight \in -all .. all

\* When the backend has ended its response in order and the client has not
\* reset the connection, the balancer does not close before the client has
\* been given the whole response.
ResponseIsComplete ==
    [][\A s \in Slot :
          (/\ conns[s].state = "open" /\ conns'[s].state # "open"
           /\ socks[s].backend.end = "fin" /\ socks[s].client.end # "rst")
          => socks[s].client.got = Bytes(socks[s].backend.sent)]_vars

\* Once the backend is done with a connection, or the client has reset it, the
\* balancer gets to release it: nothing stays unread or unsent for good.
EndedIsReleased ==
    \A s \in Slot :
        (conns[s].state = "open"
            /\ (socks[s].backend.end \in {"fin", "rst"} \/ socks[s].client.end = "rst"))
        ~> conns[s].state # "open"
=============================================================================
