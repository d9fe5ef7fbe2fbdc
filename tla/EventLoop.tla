----------------------------- MODULE EventLoop ------------------------------
(***************************************************************************)
(* One event loop of the server (server/src/worker.c) with its clients,    *)
(* the storage pool it hands blocking handlers to, and the main thread     *)
(* that accepts connections and shuts the server down (server.c, main.c).  *)
(*                                                                         *)
(* A connection is touched by one thread at a time, so an event is handled *)
(* in one step up to the point where another thread can interfere: the     *)
(* offloaded flag, the list lock, the pool and the socket.                 *)
(***************************************************************************)
EXTENDS Integers, Sequences, FiniteSets

CONSTANTS
    Conn,        \* the connections of this event loop
    Sends,       \* what clients send: a subset of Tokens
    MaxSent,     \* bound on the pieces a client sends on one connection
    MaxBuffered, \* pieces that fit in the read buffer (max_request_size)
    Faults,      \* "add": epoll_ctl refuses a new fd; "submit": no memory to offload
    NoConn       \* the list lock is free

(***************************************************************************)
(* A request arrives as some number of incomplete pieces and the piece     *)
(* that completes it, which tells what it asks for: an inline handler, an  *)
(* offloaded one, a WebSocket upgrade, or nothing that can be framed or    *)
(* parsed.  After an upgrade the pieces are WebSocket frames.              *)
(***************************************************************************)
Requests == {"inline", "offload", "upgrade", "bad"}
Frames   == {"data", "close"}
Tokens   == {"part"} \cup Requests \cup Frames

ASSUME SendsAssumption == Sends \subseteq Tokens
ASSUME BoundsAssumption == MaxSent \in Nat /\ MaxBuffered \in Nat \ {0}
ASSUME FaultAssumption == Faults \subseteq {"add", "submit"}
ASSUME NoConnAssumption == NoConn \notin Conn

VARIABLES
    conn,           \* each connection_t with the kernel's side of its socket
    connections,    \* worker->connections
    deferred,       \* the connections the exiting loop leaves on its list
    batch,          \* the events epoll_wait returned that are not yet handled
    loop,           \* where the event loop is
    lock,           \* the connection a pool thread holds connections_lock for
    pool_waiting,   \* the offloaded connections queued in the pool
    pool_running,   \* the ones whose handler runs
    pool_open,      \* the pool has not been destroyed
    g_running,      \* g_server.running, cleared by the signal handler
    worker_running, \* worker->running
    main            \* where the main thread is

vars == <<conn, connections, deferred, batch, loop, lock, pool_waiting, pool_running,
          pool_open, g_running, worker_running, main>>

poolVars   == <<pool_waiting, pool_running, pool_open>>
serverVars == <<g_running, worker_running, main>>

Pool == INSTANCE PoolSpec WITH Task <- Conn, waiting <- pool_waiting,
                               running <- pool_running, open <- pool_open

-----------------------------------------------------------------------------
(***************************************************************************)
(* life, state, offloaded, read_buffer, write_buffer and the flags are     *)
(* connection_t's.  inbox, eof and reset are what the peer has done that   *)
(* was not read yet, full says that the socket takes no more bytes,        *)
(* interest is the epoll mask and ready that the socket is on epoll's      *)
(* ready list.                                                             *)
(***************************************************************************)
Connection ==
    [life : {"none", "new", "live", "freed"},
     state : {"READING_REQUEST", "WRITING_RESPONSE", "WEBSOCKET"},
     offloaded : BOOLEAN, read_buffer : Seq(Tokens), write_buffer : Seq({"101", "bytes", "file"}),
     close_after : BOOLEAN, websocket : BOOLEAN,
     inbox : Seq(Tokens), sent : 0 .. MaxSent, eof : BOOLEAN, reset : BOOLEAN,
     full : BOOLEAN, interest : SUBSET {"in", "out"}, ready : BOOLEAN]

Unused == [life |-> "none", state |-> "READING_REQUEST", offloaded |-> FALSE,
           read_buffer |-> <<>>, write_buffer |-> <<>>, close_after |-> FALSE,
           websocket |-> FALSE, inbox |-> <<>>, sent |-> 0, eof |-> FALSE,
           reset |-> FALSE, full |-> FALSE, interest |-> {}, ready |-> FALSE]

free_connection == [Unused EXCEPT !.life = "freed"]

Init ==
    /\ conn = [c \in Conn |-> Unused]
    /\ connections = {}
    /\ deferred = {}
    /\ batch = <<>>
    /\ loop = "wait"
    /\ lock = NoConn
    /\ Pool!SpecInit
    /\ g_running = TRUE
    /\ worker_running = TRUE
    /\ main = "accept"

(***************************************************************************)
(* What epoll would report of a socket now.  An edge-triggered socket is   *)
(* put on the ready list when something it is armed for happens, and when  *)
(* it is armed for something that is already the case.                     *)
(***************************************************************************)
Readiness(k) == (IF k.inbox # <<>> \/ k.eof THEN {"in"} ELSE {})
                \cup (IF k.full THEN {} ELSE {"out"})
                \cup (IF k.reset THEN {"hup"} ELSE {})

Reported(k) == Readiness(k) \cap (k.interest \cup {"hup"})

arm_socket(k, events) ==
    LET armed == [k EXCEPT !.interest = events]
    IN  [armed EXCEPT !.ready = k.ready \/ Reported(armed) # {}]

Happens(k, event) ==
    [k EXCEPT !.ready = @ \/ (k.life = "live" /\ event \in k.interest \cup {"hup"})]

-----------------------------------------------------------------------------
(***************************************************************************)
(* Handlers, as the sets of connections they can leave behind; a -1 that   *)
(* makes the caller tear the connection down is a freed one.               *)
(***************************************************************************)
Gone == {free_connection}

Ends(s)  == {i \in 1 .. Len(s) : s[i] # "part"}
First(S) == CHOOSE i \in S : \A j \in S : i <= j
Last(S)  == CHOOSE i \in S : \A j \in S : i >= j
From(s, i) == SubSeq(s, i, Len(s))

finalize_response(k) == arm_socket([k EXCEPT !.state = "WRITING_RESPONSE"], {"out"})

reject_request(k) ==
    {finalize_response([k EXCEPT !.write_buffer = <<"bytes">>, !.close_after = TRUE,
                                 !.read_buffer = <<>>])}

(***************************************************************************)
(* A handler stages a response, kept alive or not.  Files are served by    *)
(* offloaded handlers only; an upgrade, the request left, succeeds or is   *)
(* answered with an error, which closes the connection.                    *)
(***************************************************************************)
Staged(k, bodies) ==
    UNION {{[k EXCEPT !.write_buffer = b, !.close_after = e] : b \in bodies} : e \in BOOLEAN}

run_with_middleware(k, request) ==
    CASE request = "inline"  -> Staged(k, {<<"bytes">>})
      [] request = "offload" -> Staged(k, {<<"bytes">>, <<"bytes", "file">>})
      [] OTHER ->
           {[k EXCEPT !.write_buffer = <<"101">>, !.websocket = TRUE],
            [k EXCEPT !.write_buffer = <<"bytes">>, !.close_after = TRUE]}

drain_socket_reads(k) ==
    LET room == MaxBuffered - Len(k.read_buffer)
        n    == IF Len(k.inbox) < room THEN Len(k.inbox) ELSE room
    IN  [k EXCEPT !.read_buffer = @ \o SubSeq(k.inbox, 1, n), !.inbox = From(k.inbox, n + 1)]

(***************************************************************************)
(* The frames of an upgraded connection are echoed together.  A frame that *)
(* ends the connection, one that is too big for the read buffer included,  *)
(* is answered with a Close.  The frames waiting never fill the buffer     *)
(* here (MaySend), so one pass of the loop reads and decodes them all.     *)
(***************************************************************************)
handle_websocket_data(k) ==
    LET s      == k.read_buffer \o k.inbox
        closes == {i \in 1 .. Len(s) : s[i] = "close"}
        n      == IF closes # {} THEN First(closes)
                  ELSE IF Ends(s) # {} THEN Last(Ends(s)) ELSE 0
        rest   == [k EXCEPT !.inbox = <<>>, !.read_buffer = From(s, n + 1)]
    IN  IF k.reset \/ k.eof THEN Gone
        ELSE IF n = 0 THEN {rest}
        ELSE {finalize_response([rest EXCEPT !.write_buffer = <<"bytes">>,
                                             !.close_after = closes # {}])}

resolve_handler(k, request) ==
    LET inline == {finalize_response(h) : h \in run_with_middleware(k, request)}
    IN  IF request = "offload" /\ g_running /\ pool_open
        THEN {arm_socket([k EXCEPT !.offloaded = TRUE], {})}
               \cup (IF "submit" \in Faults THEN inline ELSE {})
        ELSE inline

handle_client_data(k) ==
    LET d       == drain_socket_reads(k)
        full    == Len(d.read_buffer) = MaxBuffered
        n       == First(Ends(d.read_buffer))
        request == d.read_buffer[n]
    IN  IF k.state = "WEBSOCKET" THEN handle_websocket_data(k)
        ELSE IF ~full /\ (d.reset \/ (d.eof /\ d.read_buffer = <<>>)) THEN Gone
        ELSE IF Ends(d.read_buffer) = {}
             THEN IF full THEN reject_request(d) ELSE IF d.eof THEN Gone ELSE {d}
        ELSE IF request = "bad" THEN reject_request(d)
        ELSE resolve_handler([d EXCEPT !.read_buffer = From(@, n + 1)], request)

(***************************************************************************)
(* The response is written until it is out or the socket is full.  Then    *)
(* the connection closes, returns to frames, or is reset for the next      *)
(* request, which is handled at once if it is already buffered.  A file    *)
(* that shrank under sendfile closes the connection.                       *)
(***************************************************************************)
WouldBlock(k) ==
    IF k.full THEN {k}
    ELSE {[k EXCEPT !.write_buffer = From(@, i), !.full = TRUE] : i \in 1 .. Len(k.write_buffer)}

FileShrank(k) == IF "file" \in {k.write_buffer[i] : i \in 1 .. Len(k.write_buffer)}
                 THEN Gone ELSE {}

\* Mutant of Flushed: a request already buffered waits for the next event.
FlushedWaits(k) ==
    LET sent == [k EXCEPT !.write_buffer = <<>>]
        next == arm_socket([sent EXCEPT !.state = "READING_REQUEST"], {"in"})
    IN  IF k.close_after THEN Gone
        ELSE IF k.websocket THEN {arm_socket([sent EXCEPT !.state = "WEBSOCKET"], {"in"})}
        ELSE {next}

Flushed(k) ==
    LET sent == [k EXCEPT !.write_buffer = <<>>]
        next == arm_socket([sent EXCEPT !.state = "READING_REQUEST"], {"in"})
    IN  IF k.close_after THEN Gone
        ELSE IF k.websocket THEN {arm_socket([sent EXCEPT !.state = "WEBSOCKET"], {"in"})}
        ELSE IF k.read_buffer # <<>> THEN handle_client_data(next)
        ELSE {next}

handle_client_write(k) ==
    IF k.state # "WRITING_RESPONSE" \/ k.reset THEN Gone
    ELSE WouldBlock(k) \cup FileShrank(k) \cup (IF k.full THEN {} ELSE Flushed(k))

dispatch_connection_event(k, events) ==
    LET read == IF "in" \in events THEN handle_client_data(k) ELSE {k}
    IN  IF k.offloaded THEN {k}
        ELSE IF "hup" \in events THEN Gone
        ELSE UNION {IF r.life = "freed" \/ r.offloaded \/ "out" \notin events
                    THEN {r} ELSE handle_client_write(r) : r \in read}

-----------------------------------------------------------------------------
(***************************************************************************)
(* The event loop.                                                         *)
(***************************************************************************)
EpollWait ==
    /\ loop = "wait"
    /\ worker_running
    /\ LET reported == {c \in Conn : conn[c].ready /\ Reported(conn[c]) # {}}
       IN  /\ batch' = [c \in reported |-> Reported(conn[c])]
           /\ conn' = [c \in Conn |-> [conn[c] EXCEPT !.ready = FALSE]]
    /\ loop' = "handle"
    /\ UNCHANGED <<connections, deferred, lock, poolVars, serverVars>>

HandleEvent(c) ==
    /\ loop = "handle"
    /\ c \in DOMAIN batch
    /\ batch' = [d \in DOMAIN batch \ {c} |-> batch[d]]
    /\ \E k \in dispatch_connection_event(conn[c], batch[c]) :
         /\ conn' = [conn EXCEPT ![c] = k]
         /\ IF k.life = "freed"
            THEN lock = NoConn /\ connections' = connections \ {c}
            ELSE UNCHANGED connections
         /\ IF k.offloaded /\ ~conn[c].offloaded
            THEN Pool!Submit(c)
            ELSE UNCHANGED poolVars
    /\ UNCHANGED <<deferred, loop, lock, serverVars>>

\* Mutant of reap_idle_connections: offloaded connections are not spared.
reap_offloaded_too ==
    /\ loop = "handle"
    /\ DOMAIN batch = {}
    /\ lock = NoConn
    /\ \E idle \in SUBSET {c \in connections : conn[c].life = "live"} :
         /\ conn' = [c \in Conn |-> IF c \in idle THEN free_connection ELSE conn[c]]
         /\ connections' = connections \ idle
    /\ loop' = "wait"
    /\ UNCHANGED <<deferred, batch, lock, poolVars, serverVars>>

\* Mutant of reap_idle_connections: the sweep runs between two events of a batch.
reap_between_events ==
    /\ loop = "handle"
    /\ lock = NoConn
    /\ \E idle \in SUBSET {c \in connections : conn[c].life = "live" /\ ~conn[c].offloaded} :
         /\ conn' = [c \in Conn |-> IF c \in idle THEN free_connection ELSE conn[c]]
         /\ connections' = connections \ idle
    /\ loop' = IF DOMAIN batch = {} THEN "wait" ELSE "handle"
    /\ UNCHANGED <<deferred, batch, lock, poolVars, serverVars>>

(***************************************************************************)
(* Any connection may have been idle for the keep-alive timeout, except    *)
(* one whose accept has not yet returned.                                  *)
(***************************************************************************)
reap_idle_connections ==
    /\ loop = "handle"
    /\ DOMAIN batch = {}
    /\ lock = NoConn
    /\ \E idle \in SUBSET {c \in connections : conn[c].life = "live" /\ ~conn[c].offloaded} :
         /\ conn' = [c \in Conn |-> IF c \in idle THEN free_connection ELSE conn[c]]
         /\ connections' = connections \ idle
    /\ loop' = "wait"
    /\ UNCHANGED <<deferred, batch, lock, poolVars, serverVars>>

LoopEnds ==
    /\ loop = "wait"
    /\ ~worker_running
    /\ loop' = "drain"
    /\ UNCHANGED <<conn, connections, deferred, batch, lock, poolVars, serverVars>>

(***************************************************************************)
(* drain_worker_connections visits the list without taking the lock.       *)
(***************************************************************************)
DrainConnection(c) ==
    /\ loop = "drain"
    /\ c \in connections
    /\ connections' = connections \ {c}
    /\ IF conn[c].offloaded
       THEN deferred' = deferred \cup {c} /\ UNCHANGED conn
       ELSE conn' = [conn EXCEPT ![c] = free_connection] /\ UNCHANGED deferred
    /\ UNCHANGED <<batch, loop, lock, poolVars, serverVars>>

\* Mutant of DrainEnds: the connections still offloaded are forgotten.
DrainForgets ==
    /\ loop = "drain"
    /\ connections = {}
    /\ deferred' = {}
    /\ loop' = "exited"
    /\ UNCHANGED <<conn, connections, batch, lock, poolVars, serverVars>>

DrainEnds ==
    /\ loop = "drain"
    /\ connections = {}
    /\ connections' = deferred
    /\ deferred' = {}
    /\ loop' = "exited"
    /\ UNCHANGED <<conn, batch, lock, poolVars, serverVars>>
-----------------------------------------------------------------------------
(***************************************************************************)
(* run_offloaded_handler on a pool thread: the handler, then the hand-back *)
(* under the list lock, which clears the flag and only then re-arms the    *)
(* socket.  Re-arming a closed descriptor does nothing to the connection.  *)
(***************************************************************************)
HandlerStarts(c) ==
    /\ Pool!Start(c)
    /\ UNCHANGED <<conn, connections, deferred, batch, loop, lock, serverVars>>

HandlerReturns(c) ==
    /\ c \in pool_running
    /\ conn[c].offloaded
    /\ lock = NoConn
    /\ lock' = c
    /\ \E k \in run_with_middleware(conn[c], "offload") :
         conn' = [conn EXCEPT ![c] = [k EXCEPT !.state = "WRITING_RESPONSE",
                                               !.offloaded = FALSE]]
    /\ UNCHANGED <<connections, deferred, batch, loop, poolVars, serverVars>>

\* Mutant of HandlerRearms: the socket is left parked.
HandlerLeavesParked(c) ==
    /\ lock = c
    /\ lock' = NoConn
    /\ Pool!Finish(c)
    /\ UNCHANGED <<conn, connections, deferred, batch, loop, serverVars>>

HandlerRearms(c) ==
    /\ lock = c
    /\ lock' = NoConn
    /\ Pool!Finish(c)
    /\ conn' = [conn EXCEPT ![c] = IF @.life = "live" THEN arm_socket(@, {"out"}) ELSE @]
    /\ UNCHANGED <<connections, deferred, batch, loop, serverVars>>

-----------------------------------------------------------------------------
(***************************************************************************)
(* The main thread: accept and handle_new_connection until the signal      *)
(* handler clears g_server.running, then http_server_stop and              *)
(* http_server_cleanup.                                                    *)
(***************************************************************************)
Accept(c) ==
    /\ main = "accept"
    /\ conn[c].life = "none"
    /\ lock = NoConn
    /\ conn' = [conn EXCEPT ![c].life = "new"]
    /\ connections' = connections \cup {c}
    /\ main' = "add"
    /\ UNCHANGED <<deferred, batch, loop, lock, poolVars, g_running, worker_running>>

AddSocket(c) ==
    /\ main = "add"
    /\ conn[c].life = "new"
    /\ conn' = [conn EXCEPT ![c] = arm_socket([@ EXCEPT !.life = "live"], {"in"})]
    /\ main' = "accept"
    /\ UNCHANGED <<connections, deferred, batch, loop, lock, poolVars, g_running,
                   worker_running>>

AddSocketFails(c) ==
    /\ "add" \in Faults
    /\ main = "add"
    /\ conn[c].life = "new"
    /\ lock = NoConn
    /\ conn' = [conn EXCEPT ![c] = free_connection]
    /\ connections' = connections \ {c}
    /\ main' = "accept"
    /\ UNCHANGED <<deferred, batch, loop, lock, poolVars, g_running, worker_running>>

http_signal_handler ==
    /\ g_running
    /\ g_running' = FALSE
    /\ UNCHANGED <<conn, connections, deferred, batch, loop, lock, poolVars,
                   worker_running, main>>

\* Mutant of http_server_stop: the event loops are not told.
stop_without_workers ==
    /\ main = "accept"
    /\ ~g_running
    /\ main' = "join"
    /\ UNCHANGED <<conn, connections, deferred, batch, loop, lock, poolVars, g_running,
                   worker_running>>

http_server_stop ==
    /\ main = "accept"
    /\ ~g_running
    /\ worker_running' = FALSE
    /\ main' = "join"
    /\ UNCHANGED <<conn, connections, deferred, batch, loop, lock, poolVars, g_running>>

JoinWorker ==
    /\ main = "join"
    /\ loop = "exited"
    /\ main' = "destroy"
    /\ UNCHANGED <<conn, connections, deferred, batch, loop, lock, poolVars, g_running,
                   worker_running>>

DestroyPool ==
    /\ main = "destroy"
    /\ Pool!Close
    /\ main' = "free"
    /\ UNCHANGED <<conn, connections, deferred, batch, loop, lock, g_running,
                   worker_running>>

FreeDeferred ==
    /\ main = "free"
    /\ conn' = [c \in Conn |-> IF c \in connections THEN free_connection ELSE conn[c]]
    /\ connections' = {}
    /\ main' = "done"
    /\ UNCHANGED <<deferred, batch, loop, lock, poolVars, g_running, worker_running>>

-----------------------------------------------------------------------------
(***************************************************************************)
(* Clients.  One that asked for an upgrade waits for the 101 before it     *)
(* sends frames, and keeps fewer unread than the read buffer holds.        *)
(***************************************************************************)
Connected(c) == conn[c].life \in {"new", "live"} /\ ~conn[c].reset

Unread(k) == k.read_buffer \o k.inbox

MaySend(k, token) ==
    IF k.websocket THEN /\ token \in {"part"} \cup Frames
                        /\ k.write_buffer # <<"101">>
                        /\ Len(Unread(k)) + 1 < MaxBuffered
    ELSE token \notin Frames /\ \A i \in 1 .. Len(Unread(k)) : Unread(k)[i] # "upgrade"

ClientSends(c, token) ==
    /\ Connected(c)
    /\ ~conn[c].eof
    /\ conn[c].sent < MaxSent
    /\ MaySend(conn[c], token)
    /\ conn' = [conn EXCEPT ![c] = Happens([@ EXCEPT !.inbox = Append(@, token),
                                                     !.sent = @ + 1], "in")]
    /\ UNCHANGED <<connections, deferred, batch, loop, lock, poolVars, serverVars>>

ClientShutsDown(c) ==
    /\ Connected(c)
    /\ ~conn[c].eof
    /\ conn' = [conn EXCEPT ![c] = Happens([@ EXCEPT !.eof = TRUE], "in")]
    /\ UNCHANGED <<connections, deferred, batch, loop, lock, poolVars, serverVars>>

ClientResets(c) ==
    /\ Connected(c)
    /\ conn' = [conn EXCEPT ![c] = Happens([@ EXCEPT !.reset = TRUE], "hup")]
    /\ UNCHANGED <<connections, deferred, batch, loop, lock, poolVars, serverVars>>

ClientReads(c) ==
    /\ Connected(c)
    /\ conn[c].full
    /\ conn' = [conn EXCEPT ![c] = Happens([@ EXCEPT !.full = FALSE], "out")]
    /\ UNCHANGED <<connections, deferred, batch, loop, lock, poolVars, serverVars>>

-----------------------------------------------------------------------------
LoopStep == \/ EpollWait \/ reap_idle_connections \/ LoopEnds \/ DrainEnds
            \/ \E c \in Conn : HandleEvent(c) \/ DrainConnection(c)

PoolStep(c) == HandlerStarts(c) \/ HandlerReturns(c) \/ HandlerRearms(c)

MainStep == \/ http_server_stop \/ JoinWorker \/ DestroyPool \/ FreeDeferred
            \/ \E c \in Conn : AddSocket(c) \/ AddSocketFails(c)

ClientStep(c) == \/ \E token \in Sends : ClientSends(c, token)
                 \/ ClientShutsDown(c) \/ ClientResets(c) \/ ClientReads(c)

Next == \/ LoopStep \/ MainStep \/ http_signal_handler
        \/ \E c \in Conn : Accept(c) \/ PoolStep(c) \/ ClientStep(c)

Spec == Init /\ [][Next]_vars

(***************************************************************************)
(* The threads are scheduled, epoll_wait times out after a second, and     *)
(* handlers return.  Clients and the signal owe nothing.                   *)
(***************************************************************************)
FairSpec == Spec /\ WF_vars(LoopStep) /\ WF_vars(MainStep)
                 /\ \A c \in Conn : WF_vars(PoolStep(c))

-----------------------------------------------------------------------------
(***************************************************************************)
(* The types of the connections and of the threads' positions.             *)
(***************************************************************************)
TypeOK ==
    /\ conn \in [Conn -> Connection]
    /\ connections \subseteq Conn /\ deferred \subseteq Conn
    /\ DOMAIN batch \subseteq Conn
    /\ \A c \in DOMAIN batch : batch[c] \in SUBSET {"in", "out", "hup"}
    /\ loop \in {"wait", "handle", "drain", "exited"}
    /\ lock \in Conn \cup {NoConn}
    /\ pool_waiting \subseteq Conn /\ pool_running \subseteq Conn
    /\ {pool_open, g_running, worker_running} \subseteq BOOLEAN
    /\ main \in {"accept", "add", "join", "destroy", "free", "done"}

(***************************************************************************)
(* A connection handed to the pool is not freed and stays flagged until    *)
(* its pool thread gives it back: events, the idle sweep, the drain at     *)
(* shutdown and http_server_cleanup all leave it alone.                    *)
(***************************************************************************)
OffloadedIsKept ==
    \A c \in pool_waiting \cup (pool_running \ {lock}) :
        conn[c].life = "live" /\ conn[c].offloaded

(***************************************************************************)
(* No connection whose event is still to be handled has been freed, so the *)
(* pointers epoll_wait returned stay valid for the whole batch.            *)
(***************************************************************************)
BatchIsLive == \A c \in DOMAIN batch : conn[c].life = "live"

(***************************************************************************)
(* A connection is on the worker's list from its accept to its end, and    *)
(* when http_server_cleanup returns all have been freed and none is left   *)
(* in the pool.                                                            *)
(***************************************************************************)
ListsAreExact ==
    /\ connections \cup deferred = {c \in Conn : conn[c].life \in {"new", "live"}}
    /\ main = "done" => connections \cup deferred \cup pool_waiting \cup pool_running = {}

(***************************************************************************)
(* No connection is lost between its accept and http_server_cleanup, and   *)
(* no field leaves its type on the way.                                    *)
(***************************************************************************)
NothingLeaks == TypeOK /\ ListsAreExact

(***************************************************************************)
(* While the pool thread re-arms a socket under the list lock, the worker  *)
(* has not freed the connection and closed the descriptor.                 *)
(***************************************************************************)
RearmsLiveSocket == lock # NoConn => conn[lock].life = "live"

Busy(c) == \/ Ends(Unread(conn[c])) # {}
           \/ conn[c].offloaded
           \/ conn[c].state = "WRITING_RESPONSE"

(***************************************************************************)
(* Whatever was sent whole is handled and its response written, unless the *)
(* connection closes or its client stops reading: neither an event dropped *)
(* while the pool had the connection, nor a pipelined request whose bytes  *)
(* will cause no further edge, leaves it hanging.                          *)
(***************************************************************************)
RequestsAnswered == \A c \in Conn :
    (conn[c].life = "live" /\ Busy(c)) ~> (conn[c].life = "freed" \/ ~Busy(c) \/ conn[c].full)

(***************************************************************************)
(* A peer that has gone is noticed: its connection is freed.               *)
(***************************************************************************)
DeadPeersDropped == \A c \in Conn : conn[c].reset ~> (conn[c].life = "freed")

(***************************************************************************)
(* After the signal the server stops: the loop exits, the pool is          *)
(* destroyed and the cleanup returns.                                      *)
(***************************************************************************)
ServerStops == ~g_running ~> (main = "done")
=============================================================================
