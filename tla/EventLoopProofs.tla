-------------------------- MODULE EventLoopProofs ---------------------------
(***************************************************************************)
(* Proofs about EventLoop for any number of connections, requests and      *)
(* faults: who owns a connection, that the pointers of a batch stay valid, *)
(* and that shutdown frees every connection.                               *)
(***************************************************************************)
EXTENDS EventLoop, TLAPS

ConnFields == DOMAIN Unused

(***************************************************************************)
(* The fields of a connection that ownership is about.                     *)
(***************************************************************************)
Shaped(k) ==
    /\ DOMAIN k = ConnFields
    /\ k.life \in {"none", "new", "live", "freed"}
    /\ k.offloaded \in BOOLEAN
    /\ k.ready => k.life = "live"

(***************************************************************************)
(* A connection the loop is handling, and what an event may leave of it:   *)
(* freed, still in hand, or given to the pool with its socket parked.      *)
(***************************************************************************)
InHand(k) == Shaped(k) /\ k.life = "live" /\ ~k.offloaded

Left(k) == \/ k = free_connection
           \/ InHand(k)
           \/ Shaped(k) /\ k.life = "live" /\ k.offloaded /\ k.interest = {}

(***************************************************************************)
(* A connection the pool has was handed to it once, keeps its socket       *)
(* parked, and has no event in the batch but a hang-up.  The pool thread   *)
(* that holds the list lock is giving its connection back.                 *)
(***************************************************************************)
PoolOwns ==
    /\ pool_waiting \cap pool_running = {}
    /\ lock # NoConn => lock \in pool_running
    /\ \A c \in pool_waiting \cup pool_running :
          /\ c \in Conn
          /\ conn[c].life \in {"live", "freed"}
          /\ conn[c].interest = {}
          /\ c \in DOMAIN batch => batch[c] \subseteq {"hup"}

(***************************************************************************)
(* How far the loop and the main thread can be apart.                      *)
(***************************************************************************)
Phases ==
    /\ loop # "handle" => DOMAIN batch = {}
    /\ loop # "drain" => deferred = {}
    /\ connections \cap deferred = {}
    /\ main \in {"accept", "add"} => worker_running
    /\ loop \in {"drain", "exited"} => ~worker_running
    /\ main \in {"destroy", "free", "done"} => loop = "exited"
    /\ main \in {"free", "done"} => pool_waiting = {} /\ pool_running = {}

(***************************************************************************)
(* The inductive invariant.                                                *)
(***************************************************************************)
Shapes == conn = [c \in Conn |-> conn[c]] /\ \A c \in Conn : Shaped(conn[c])

LoopInv == /\ Shapes /\ OffloadedIsKept /\ PoolOwns /\ Phases /\ ListsAreExact
           /\ DOMAIN batch \subseteq Conn /\ BatchIsLive

-----------------------------------------------------------------------------
(***************************************************************************)
(* The fields of connection_t and of its socket.                           *)
(***************************************************************************)
LEMMA Fields ==
    ConnFields = {"life", "state", "offloaded", "read_buffer", "write_buffer", "close_after",
                  "websocket", "inbox", "sent", "eof", "reset", "full", "interest", "ready"}
  BY DEF ConnFields, Unused

(***************************************************************************)
(* free_connection leaves nothing that anybody could own.                  *)
(***************************************************************************)
LEMMA Freed ==
    /\ Shaped(free_connection) /\ free_connection.life = "freed"
    /\ free_connection.offloaded = FALSE /\ free_connection.interest = {}
    /\ free_connection.ready = FALSE
  BY DEF Shaped, free_connection, Unused, ConnFields

(***************************************************************************)
(* Arming a live socket changes its interest and whether it is ready.      *)
(***************************************************************************)
LEMMA Armed ==
    ASSUME NEW k, Shaped(k), k.life = "live", NEW events
    PROVE  /\ Shaped(arm_socket(k, events))
           /\ arm_socket(k, events).life = "live"
           /\ arm_socket(k, events).offloaded = k.offloaded
           /\ arm_socket(k, events).interest = events
  BY Fields DEF Shaped, arm_socket

(***************************************************************************)
(* A handler run by run_with_middleware stages a response only.            *)
(***************************************************************************)
LEMMA Ran ==
    ASSUME NEW k, Shaped(k), NEW request, NEW h \in run_with_middleware(k, request)
    PROVE  /\ Shaped(h) /\ h.life = k.life
           /\ h.offloaded = k.offloaded /\ h.interest = k.interest
  <1> DEFINE Responded(b, e) == [k EXCEPT !.write_buffer = b, !.close_after = e]
  <1>1. ASSUME NEW b, NEW e
        PROVE  /\ Shaped(Responded(b, e)) /\ Responded(b, e).life = k.life
               /\ Responded(b, e).offloaded = k.offloaded
               /\ Responded(b, e).interest = k.interest
    BY Fields DEF Shaped
  <1>2. CASE request \in {"inline", "offload"}
    <2>1. PICK bodies : h \in Staged(k, bodies)
      BY <1>2 DEF run_with_middleware
    <2>2. PICK e \in BOOLEAN : h \in {Responded(b, e) : b \in bodies}
      BY <2>1, ZenonT(30) DEF Staged
    <2>3. PICK b \in bodies : h = Responded(b, e)
      BY <2>2, ZenonT(60)
    <2> HIDE DEF Responded
    <2> QED
      BY <1>1, <2>3
  <1>3. CASE request \notin {"inline", "offload"}
    BY <1>3, Fields, ZenonT(60) DEF run_with_middleware, Shaped
  <1> QED
    BY <1>2, <1>3

(***************************************************************************)
(* A response leaves the connection with the loop.                         *)
(***************************************************************************)
LEMMA Finalized ==
    ASSUME NEW k, InHand(k)
    PROVE  InHand(finalize_response(k))
  <1>1. InHand([k EXCEPT !.state = "WRITING_RESPONSE"])
    BY Fields DEF InHand, Shaped
  <1> HIDE DEF InHand
  <1>2. \A j : InHand(j) => InHand(arm_socket(j, {"out"}))
    BY Armed DEF InHand
  <1> QED
    BY <1>1, <1>2 DEF finalize_response

(***************************************************************************)
(* So does an error response, which reject_request stages.                 *)
(***************************************************************************)
LEMMA Rejected ==
    ASSUME NEW k, InHand(k), NEW r \in reject_request(k)
    PROVE  Left(r)
  <1>1. InHand([k EXCEPT !.write_buffer = <<"bytes">>, !.close_after = TRUE,
                         !.read_buffer = <<>>])
    BY Fields DEF InHand, Shaped
  <1> QED
    BY <1>1, Finalized DEF reject_request, Left

(***************************************************************************)
(* A resolved handler answers in place, or the connection goes to the pool *)
(* with its socket parked.                                                 *)
(***************************************************************************)
LEMMA Resolved ==
    ASSUME NEW k, InHand(k), NEW request, NEW r \in resolve_handler(k, request)
    PROVE  Left(r)
  <1>1. \A h \in run_with_middleware(k, request) : InHand(finalize_response(h))
    BY Ran, Finalized DEF InHand
  <1>2. /\ Shaped([k EXCEPT !.offloaded = TRUE])
        /\ [k EXCEPT !.offloaded = TRUE].life = "live"
        /\ [k EXCEPT !.offloaded = TRUE].offloaded
    BY Fields DEF InHand, Shaped
  <1>3. Left(arm_socket([k EXCEPT !.offloaded = TRUE], {}))
    BY <1>2, Armed, ZenonT(60) DEF Left
  <1> QED
    BY <1>1, <1>3, ZenonT(60) DEF resolve_handler, Left

(***************************************************************************)
(* Frames are echoed or end the connection.                                *)
(***************************************************************************)
LEMMA Echoed ==
    ASSUME NEW k, InHand(k), NEW r \in handle_websocket_data(k)
    PROVE  Left(r)
  <1>1. \A rest, b : InHand([k EXCEPT !.inbox = <<>>, !.read_buffer = rest])
    BY Fields DEF InHand, Shaped
  <1>2. \A j, b : InHand(j) => InHand([j EXCEPT !.write_buffer = <<"bytes">>, !.close_after = b])
    BY Fields DEF InHand, Shaped
  <1>3. \A j : InHand(j) => InHand(finalize_response(j))
    BY Finalized
  <1> QED
    BY <1>1, <1>2, <1>3, ZenonT(60) DEF handle_websocket_data, Left, Gone

(***************************************************************************)
(* handle_client_data reads, and then rejects, resolves or waits.          *)
(***************************************************************************)
LEMMA DataHandled ==
    ASSUME NEW k, InHand(k), NEW r \in handle_client_data(k)
    PROVE  Left(r)
  <1>1. InHand(drain_socket_reads(k))
    BY Fields DEF InHand, Shaped, drain_socket_reads
  <1>2. \A j, s : InHand(j) => InHand([j EXCEPT !.read_buffer = s])
    BY Fields DEF InHand, Shaped
  <1> DEFINE d == drain_socket_reads(k)
             n == First(Ends(d.read_buffer))
             q == d.read_buffer[n]
             j == [d EXCEPT !.read_buffer = From(@, n + 1)]
  <1>3. InHand(j)
    BY <1>1, <1>2
  <1>4. \/ r \in handle_websocket_data(k) \/ r \in Gone \/ r \in reject_request(d) \/ r = d
        \/ r \in resolve_handler(j, q)
    BY DEF handle_client_data
  <1> HIDE DEF d, n, q, j
  <1> QED
    BY <1>1, <1>3, <1>4, Echoed, Rejected, Resolved DEF Left, Gone, d

(***************************************************************************)
(* handle_client_write writes, closes, or goes on with the next request.   *)
(***************************************************************************)
LEMMA WriteHandled ==
    ASSUME NEW k, InHand(k), NEW r \in handle_client_write(k)
    PROVE  Left(r)
  <1>1. \A s : /\ InHand([k EXCEPT !.write_buffer = s, !.full = TRUE])
               /\ InHand([k EXCEPT !.write_buffer = s])
    BY Fields DEF InHand, Shaped
  <1>2. \A j, s : InHand(j) => InHand([j EXCEPT !.state = s])
    BY Fields DEF InHand, Shaped
  <1>3. \A j, e : InHand(j) => InHand(arm_socket(j, e))
    BY Armed, SMTT(60) DEF InHand
  <1>4. r \in WouldBlock(k) => Left(r)
    BY <1>1, ZenonT(60) DEF WouldBlock, Left
  <1>5. r \in FileShrank(k) => Left(r)
    BY DEF FileShrank, Left, Gone
  <1>6. r \in Flushed(k) => Left(r)
    <2> DEFINE sent == [k EXCEPT !.write_buffer = <<>>]
               next == arm_socket([sent EXCEPT !.state = "READING_REQUEST"], {"in"})
               ws   == arm_socket([sent EXCEPT !.state = "WEBSOCKET"], {"in"})
    <2>1. InHand(next) /\ InHand(ws)
      BY <1>1, <1>2, <1>3, ZenonT(60)
    <2>2. r \in Flushed(k) => r \in Gone \/ r = ws \/ r \in handle_client_data(next) \/ r = next
      BY DEF Flushed
    <2> HIDE DEF next, ws
    <2> QED
      BY <2>1, <2>2, DataHandled, SMTT(60) DEF Left, Gone
  <1> QED
    BY <1>4, <1>5, <1>6 DEF handle_client_write, Left, Gone

(***************************************************************************)
(* An event of a connection in hand.                                       *)
(***************************************************************************)
LEMMA Dispatched ==
    ASSUME NEW k, InHand(k), NEW events, NEW r \in dispatch_connection_event(k, events)
    PROVE  /\ Left(r)
           /\ events \subseteq {"hup"} => r = free_connection \/ r = k
  <1>1. \A j \in handle_client_data(k) : Left(j)
    BY DataHandled
  <1>2. \A j : Left(j) /\ j.life # "freed" /\ ~j.offloaded => InHand(j)
    BY Freed DEF Left
  <1>3. \A j, q : InHand(j) /\ q \in handle_client_write(j) => Left(q)
    BY WriteHandled
  <1>4. CASE "hup" \in events
    BY <1>4 DEF dispatch_connection_event, InHand, Left, Gone
  <1>5. CASE "hup" \notin events
    <2>1. PICK j \in (IF "in" \in events THEN handle_client_data(k) ELSE {k}) :
            r \in (IF j.life = "freed" \/ j.offloaded \/ "out" \notin events
                   THEN {j} ELSE handle_client_write(j))
      BY <1>5 DEF dispatch_connection_event, InHand
    <2>2. Left(j)
      BY <1>1, <2>1 DEF Left
    <2>3. events \subseteq {"hup"} => j = k /\ r = j
      BY <1>5, <2>1
    <2> QED
      BY <1>2, <1>3, <2>1, <2>2, <2>3
  <1> QED
    BY <1>4, <1>5

-----------------------------------------------------------------------------
(***************************************************************************)
(* epoll_wait reports live sockets only, and of one that is parked only a  *)
(* hang-up.                                                                *)
(***************************************************************************)
LEMMA EpollWaits ==
    ASSUME LoopInv, EpollWait
    PROVE  LoopInv'
  <1>1. \A c \in Conn : /\ Shaped(conn'[c]) /\ conn'[c].life = conn[c].life
                        /\ conn'[c].offloaded = conn[c].offloaded
                        /\ conn'[c].interest = conn[c].interest
    BY Fields DEF LoopInv, Shapes, Shaped, EpollWait
  <1>2. Shapes'
    BY <1>1 DEF EpollWait, Shapes
  <1>3. OffloadedIsKept'
    BY <1>1 DEF LoopInv, OffloadedIsKept, PoolOwns, EpollWait, poolVars
  <1>4. /\ DOMAIN batch' \subseteq Conn
        /\ \A c \in DOMAIN batch' : conn[c].ready /\ batch'[c] = Reported(conn[c])
    BY DEF EpollWait
  <1>5. BatchIsLive'
    BY <1>1, <1>4 DEF BatchIsLive, LoopInv, Shapes, Shaped
  <1>6. PoolOwns'
    BY <1>1, <1>4 DEF LoopInv, PoolOwns, Reported, EpollWait, poolVars
  <1>7. Phases'
    BY DEF LoopInv, Phases, EpollWait, poolVars, serverVars
  <1>8. ListsAreExact'
    BY <1>1 DEF LoopInv, ListsAreExact, EpollWait, poolVars, serverVars
  <1> QED
    BY <1>2, <1>3, <1>4, <1>5, <1>6, <1>7, <1>8 DEF LoopInv

(***************************************************************************)
(* An event of a connection with the pool is dropped; any other leaves the *)
(* connection in hand, with the pool, or freed and off the list.           *)
(***************************************************************************)
LEMMA EventHandled ==
    ASSUME LoopInv, NEW c \in Conn, HandleEvent(c)
    PROVE  LoopInv'
  <1>1. PICK k \in dispatch_connection_event(conn[c], batch[c]) :
           /\ conn' = [conn EXCEPT ![c] = k]
           /\ IF k.life = "freed" THEN lock = NoConn /\ connections' = connections \ {c}
                                  ELSE UNCHANGED connections
           /\ IF k.offloaded /\ ~conn[c].offloaded THEN Pool!Submit(c) ELSE UNCHANGED poolVars
    BY ZenonT(60) DEF HandleEvent
  <1>2. /\ loop = "handle" /\ c \in DOMAIN batch
        /\ batch' = [d \in DOMAIN batch \ {c} |-> batch[d]]
        /\ UNCHANGED <<deferred, loop, lock, serverVars>>
    BY DEF HandleEvent
  <1>3. Shaped(conn[c]) /\ conn[c].life = "live" /\ deferred = {}
    BY <1>2 DEF LoopInv, Shapes, BatchIsLive, Phases
  <1>4. CASE conn[c].offloaded
    <2>1. k = conn[c]
      BY <1>1, <1>4 DEF dispatch_connection_event
    <2>2. UNCHANGED <<conn, connections, poolVars>>
      BY <1>1, <1>3, <2>1, <1>4 DEF LoopInv, Shapes
    <2> QED
      BY <1>2, <2>2, SMTT(60) DEF LoopInv, Shapes, OffloadedIsKept, BatchIsLive, PoolOwns, Phases,
                        ListsAreExact, poolVars, serverVars
  <1>5. CASE ~conn[c].offloaded
    <2>1. Left(k) /\ (batch[c] \subseteq {"hup"} => k = free_connection \/ k = conn[c])
      BY <1>1, <1>3, <1>5, Dispatched DEF InHand
    <2>2. /\ conn'[c] = k /\ conn' = [d \in Conn |-> conn'[d]]
          /\ \A d \in Conn \ {c} : conn'[d] = conn[d]
      BY <1>1 DEF LoopInv, Shapes
    <2>3. Shaped(k) /\ k.life \in {"live", "freed"} /\ (k.offloaded => k.life = "live" /\ k.interest = {})
      BY <2>1, Freed DEF Left, InHand
    <2>4. c \in pool_waiting \cup pool_running => c = lock /\ k = conn[c]
      BY <1>1, <1>5, <1>2, <2>1, Freed, NoConnAssumption DEF LoopInv, OffloadedIsKept, PoolOwns
    <2>5. /\ pool_waiting' \in {pool_waiting, pool_waiting \cup {c}} /\ pool_running' = pool_running
          /\ c \in pool_waiting' => k.offloaded
      BY <1>1, <1>5, <2>4, NoConnAssumption DEF Pool!Submit, poolVars, LoopInv, PoolOwns
    <2>6. Shapes'
      BY <2>2, <2>3 DEF LoopInv, Shapes
    <2>7. OffloadedIsKept'
      BY <1>2, <2>2, <2>3, <2>4, <2>5 DEF LoopInv, OffloadedIsKept, PoolOwns
    <2>8. DOMAIN batch' \subseteq Conn /\ BatchIsLive'
      BY <1>2, <2>2 DEF LoopInv, BatchIsLive
    <2>9. PoolOwns'
      BY <1>2, <1>5, <2>2, <2>3, <2>4, <2>5 DEF LoopInv, PoolOwns
    <2>10. Phases'
      <3>1. connections' \subseteq connections
        BY <1>1
      <3> QED
        BY <1>2, <1>3, <2>5, <3>1 DEF LoopInv, Phases, serverVars
    <2>11. ListsAreExact'
      BY <1>1, <1>2, <1>3, <2>2, <2>3 DEF LoopInv, ListsAreExact, Phases, serverVars
    <2> QED
      BY <2>6, <2>7, <2>8, <2>9, <2>10, <2>11 DEF LoopInv
  <1> QED
    BY <1>4, <1>5

(***************************************************************************)
(* The idle sweep frees connections that are with the loop, when no event  *)
(* is left in the batch.                                                   *)
(***************************************************************************)
LEMMA IdleReaped ==
    ASSUME LoopInv, reap_idle_connections
    PROVE  LoopInv'
  <1>1. PICK idle \in SUBSET {c \in connections : conn[c].life = "live" /\ ~conn[c].offloaded} :
           /\ conn' = [c \in Conn |-> IF c \in idle THEN free_connection ELSE conn[c]]
           /\ connections' = connections \ idle
    BY DEF reap_idle_connections
  <1>2. /\ lock = NoConn /\ DOMAIN batch = {} /\ loop = "handle" /\ loop' = "wait"
        /\ UNCHANGED <<deferred, batch, lock, poolVars, serverVars>>
    BY DEF reap_idle_connections
  <1>3. Shapes'
    BY <1>1, Freed DEF LoopInv, Shapes
  <1>4. \A c \in pool_waiting \cup pool_running : conn'[c] = conn[c]
    BY <1>1, <1>2, NoConnAssumption DEF LoopInv, OffloadedIsKept, PoolOwns
  <1>5. OffloadedIsKept' /\ PoolOwns'
    BY <1>2, <1>4 DEF LoopInv, OffloadedIsKept, PoolOwns, poolVars
  <1>6. DOMAIN batch' \subseteq Conn /\ BatchIsLive' /\ Phases'
    BY <1>1, <1>2 DEF BatchIsLive, LoopInv, Phases, poolVars, serverVars
  <1>7. ListsAreExact'
    BY <1>1, <1>2, Freed DEF LoopInv, ListsAreExact, Phases, poolVars, serverVars
  <1> QED
    BY <1>3, <1>5, <1>6, <1>7 DEF LoopInv

(***************************************************************************)
(* The exiting loop frees what it owns and puts the rest back on its list. *)
(***************************************************************************)
LEMMA LoopExits ==
    ASSUME LoopInv, LoopEnds \/ DrainEnds
    PROVE  LoopInv'
  <1>1. UNCHANGED <<conn, batch, lock, poolVars, serverVars>>
    BY DEF LoopEnds, DrainEnds
  <1>2. connections' \cup deferred' = connections \cup deferred /\ Phases'
    BY <1>1 DEF LoopEnds, DrainEnds, LoopInv, Phases, poolVars, serverVars
  <1> QED
    BY <1>1, <1>2 DEF LoopInv, Shapes, OffloadedIsKept, BatchIsLive, PoolOwns, ListsAreExact,
                      poolVars, serverVars

(***************************************************************************)
(* The same for one connection of the list.                                *)
(***************************************************************************)
LEMMA ConnectionDrained ==
    ASSUME LoopInv, NEW c \in Conn, DrainConnection(c)
    PROVE  LoopInv'
  <1>1. /\ loop = "drain" /\ c \in connections /\ connections' = connections \ {c}
        /\ UNCHANGED <<batch, loop, lock, poolVars, serverVars>>
    BY DEF DrainConnection
  <1>2. CASE conn[c].offloaded
    <2>1. deferred' = deferred \cup {c} /\ UNCHANGED conn
      BY <1>2 DEF DrainConnection
    <2>2. connections' \cup deferred' = connections \cup deferred
      BY <1>1, <2>1
    <2>3. Phases'
      BY <1>1, <2>1 DEF LoopInv, Phases, poolVars, serverVars
    <2> QED
      BY <1>1, <2>1, <2>2, <2>3 DEF LoopInv, Shapes, OffloadedIsKept, BatchIsLive, PoolOwns,
                                    ListsAreExact, poolVars, serverVars
  <1>3. CASE ~conn[c].offloaded
    <2>1. conn' = [conn EXCEPT ![c] = free_connection] /\ UNCHANGED deferred
      BY <1>3 DEF DrainConnection
    <2>2. conn'[c] = free_connection /\ \A d \in Conn \ {c} : conn'[d] = conn[d]
      BY <2>1 DEF LoopInv, Shapes
    <2>3. Shapes'
      BY <2>1, Freed DEF LoopInv, Shapes
    <2>4. OffloadedIsKept' /\ PoolOwns'
      BY <1>1, <1>3, <2>2, Freed DEF LoopInv, OffloadedIsKept, PoolOwns, poolVars
    <2>5. DOMAIN batch' \subseteq Conn /\ BatchIsLive' /\ Phases'
      BY <1>1, <2>1 DEF BatchIsLive, LoopInv, Phases, poolVars, serverVars
    <2>6. ListsAreExact'
      BY <1>1, <2>1, <2>2, Freed DEF LoopInv, ListsAreExact, Phases, poolVars, serverVars
    <2> QED
      BY <2>3, <2>4, <2>5, <2>6 DEF LoopInv
  <1> QED
    BY <1>2, <1>3

-----------------------------------------------------------------------------
(***************************************************************************)
(* A pool thread takes a connection, runs its handler, and gives it back.  *)
(***************************************************************************)
LEMMA HandlerRuns ==
    ASSUME LoopInv, NEW c \in Conn, PoolStep(c)
    PROVE  LoopInv'
  <1>1. CASE HandlerStarts(c)
    BY <1>1, ZenonT(60) DEF HandlerStarts, Pool!Start, LoopInv, Shapes, OffloadedIsKept, BatchIsLive, PoolOwns,
                Phases, ListsAreExact, serverVars
  <1>2. CASE HandlerReturns(c)
    <2>1. PICK k \in run_with_middleware(conn[c], "offload") :
             conn' = [conn EXCEPT ![c] = [k EXCEPT !.state = "WRITING_RESPONSE", !.offloaded = FALSE]]
      BY <1>2, ZenonT(60) DEF HandlerReturns
    <2>2. /\ c \in pool_running /\ conn[c].offloaded /\ lock = NoConn /\ lock' = c
          /\ UNCHANGED <<connections, deferred, batch, loop, poolVars, serverVars>>
      BY <1>2 DEF HandlerReturns
    <2>3. Shaped(conn[c]) /\ Shaped(k) /\ k.life = conn[c].life /\ k.interest = conn[c].interest
      BY <2>1, Ran DEF LoopInv, Shapes
    <2>4. /\ Shaped(conn'[c]) /\ conn'[c].life = conn[c].life
          /\ conn'[c].interest = conn[c].interest
          /\ \A d \in Conn \ {c} : conn'[d] = conn[d]
      BY <2>1, <2>3, Fields, ZenonT(60) DEF LoopInv, Shapes, Shaped
    <2>5. Shapes'
      BY <2>1, <2>4 DEF LoopInv, Shapes
    <2>6. OffloadedIsKept' /\ PoolOwns'
      <3>1. /\ pool_waiting' = pool_waiting /\ pool_running' = pool_running /\ batch' = batch
            /\ lock' = c /\ c \in pool_running
        BY <2>2 DEF poolVars
      <3>2. OffloadedIsKept'
        BY <2>2, <2>4, <3>1, NoConnAssumption DEF LoopInv, OffloadedIsKept, PoolOwns
      <3>3. PoolOwns'
        BY <2>4, <3>1 DEF LoopInv, PoolOwns
      <3> QED
        BY <3>2, <3>3
    <2>7. DOMAIN batch' \subseteq Conn /\ BatchIsLive' /\ Phases'
      BY <2>2, <2>4 DEF BatchIsLive, LoopInv, Phases, poolVars, serverVars
    <2>8. ListsAreExact'
      BY <2>2, <2>4 DEF LoopInv, ListsAreExact, poolVars, serverVars
    <2> QED
      BY <2>5, <2>6, <2>7, <2>8 DEF LoopInv
  <1>3. CASE HandlerRearms(c)
    <2>1. /\ lock = c /\ lock' = NoConn /\ Pool!Finish(c)
          /\ conn' = [conn EXCEPT ![c] = IF conn[c].life = "live" THEN arm_socket(conn[c], {"out"})
                                         ELSE conn[c]]
          /\ UNCHANGED <<connections, deferred, batch, loop, serverVars>>
      BY <1>3 DEF HandlerRearms
    <2>2. /\ Shaped(conn'[c]) /\ conn'[c].life = conn[c].life
          /\ \A d \in Conn \ {c} : conn'[d] = conn[d]
      BY <2>1, Armed DEF LoopInv, Shapes
    <2>3. /\ pool_running' = pool_running \ {c} /\ pool_waiting' = pool_waiting
          /\ c \notin pool_waiting
      BY <2>1, NoConnAssumption DEF Pool!Finish, LoopInv, PoolOwns
    <2>4. Shapes'
      BY <2>1, <2>2 DEF LoopInv, Shapes
    <2>5. OffloadedIsKept' /\ PoolOwns'
      BY <2>1, <2>2, <2>3 DEF LoopInv, OffloadedIsKept, PoolOwns
    <2>6. DOMAIN batch' \subseteq Conn /\ BatchIsLive' /\ Phases'
      BY <2>1, <2>2, <2>3 DEF BatchIsLive, LoopInv, Phases, serverVars
    <2>7. ListsAreExact'
      BY <2>1, <2>2, <2>3 DEF LoopInv, ListsAreExact, serverVars
    <2> QED
      BY <2>4, <2>5, <2>6, <2>7 DEF LoopInv
  <1> QED
    BY <1>1, <1>2, <1>3 DEF PoolStep

-----------------------------------------------------------------------------
(***************************************************************************)
(* A connection being accepted is on the list before it is on epoll, and   *)
(* off it again if epoll refuses it.                                       *)
(***************************************************************************)
LEMMA Accepted ==
    ASSUME LoopInv, NEW c \in Conn, Accept(c) \/ AddSocket(c) \/ AddSocketFails(c)
    PROVE  LoopInv'
  <1>1. /\ UNCHANGED <<deferred, batch, loop, lock, poolVars, worker_running>>
        /\ main \in {"accept", "add"} /\ main' \in {"accept", "add"}
        /\ conn[c].life \in {"none", "new"}
    BY DEF Accept, AddSocket, AddSocketFails
  <1>2. c \notin pool_waiting \cup pool_running /\ c \notin DOMAIN batch /\ deferred = {}
    BY <1>1 DEF LoopInv, PoolOwns, BatchIsLive, Phases
  <1>3. \E k : conn' = [conn EXCEPT ![c] = k]
    BY DEF Accept, AddSocket, AddSocketFails, LoopInv, Shapes
  <1>4. /\ conn' = [d \in Conn |-> conn'[d]]
        /\ \A d \in Conn \ {c} : conn'[d] = conn[d]
    BY <1>3 DEF LoopInv, Shapes
  <1>5. /\ Shaped(conn'[c])
        /\ connections' = IF conn'[c].life \in {"new", "live"} THEN connections \cup {c}
                          ELSE connections \ {c}
    <2>1. CASE Accept(c)
      BY <2>1, Fields DEF Accept, LoopInv, Shapes, Shaped
    <2>2. CASE AddSocket(c)
      <3> DEFINE k == [conn[c] EXCEPT !.life = "live"]
      <3>1. Shaped(k) /\ k.life = "live"
        BY Fields DEF LoopInv, Shapes, Shaped
      <3>2. conn'[c] = arm_socket(k, {"in"}) /\ connections' = connections
        BY <2>2 DEF AddSocket, LoopInv, Shapes
      <3> HIDE DEF k
      <3>3. c \in connections
        BY <2>2, <1>2 DEF AddSocket, LoopInv, ListsAreExact
      <3>4. Shaped(conn'[c]) /\ conn'[c].life = "live"
        BY <3>1, <3>2, Armed
      <3> QED
        BY <3>2, <3>3, <3>4
    <2>3. CASE AddSocketFails(c)
      BY <2>3, Freed DEF AddSocketFails, LoopInv, Shapes
    <2> QED
      BY <2>1, <2>2, <2>3
  <1>6. Shapes'
    BY <1>4, <1>5 DEF LoopInv, Shapes
  <1>7. OffloadedIsKept' /\ PoolOwns'
    BY <1>1, <1>2, <1>4 DEF LoopInv, OffloadedIsKept, PoolOwns, poolVars
  <1>8. DOMAIN batch' \subseteq Conn /\ BatchIsLive' /\ Phases'
    BY <1>1, <1>2, <1>4 DEF BatchIsLive, LoopInv, Phases, poolVars
  <1>9. ListsAreExact'
    BY <1>1, <1>2, <1>4, <1>5 DEF LoopInv, ListsAreExact, Shapes, Shaped
  <1> QED
    BY <1>6, <1>7, <1>8, <1>9 DEF LoopInv

(***************************************************************************)
(* Shutdown: the flags, the joins, the pool, and what was left on lists.   *)
(***************************************************************************)
LEMMA Stopped ==
    ASSUME LoopInv, \/ http_signal_handler \/ http_server_stop \/ JoinWorker
                    \/ DestroyPool \/ FreeDeferred
    PROVE  LoopInv'
  <1>1. CASE http_signal_handler \/ http_server_stop \/ JoinWorker
    <2>1. /\ UNCHANGED <<conn, connections, deferred, batch, loop, lock, poolVars>>
          /\ main' = "done" => main = "done"
      BY <1>1 DEF http_signal_handler, http_server_stop, JoinWorker, LoopInv, Phases
    <2>2. Phases'
      BY <1>1, <2>1 DEF http_signal_handler, http_server_stop, JoinWorker, LoopInv, Phases, poolVars
    <2>3. ListsAreExact'
      BY <2>1 DEF LoopInv, ListsAreExact, poolVars
    <2>4. PoolOwns' /\ OffloadedIsKept'
      BY <2>1 DEF LoopInv, PoolOwns, OffloadedIsKept, poolVars
    <2> QED
      BY <2>1, <2>2, <2>3, <2>4 DEF LoopInv, Shapes, OffloadedIsKept, BatchIsLive
  <1>2. CASE DestroyPool
    BY <1>2 DEF DestroyPool, Pool!Close, LoopInv, Shapes, OffloadedIsKept, BatchIsLive, PoolOwns,
                Phases, ListsAreExact
  <1>3. CASE FreeDeferred
    <2>1. /\ pool_waiting' = {} /\ pool_running' = {} /\ deferred' = {} /\ DOMAIN batch' = {}
          /\ lock' = lock /\ connections' = {} /\ main' = "done" /\ loop' = "exited"
          /\ worker_running' = worker_running
          /\ conn' = [c \in Conn |-> IF c \in connections THEN free_connection ELSE conn[c]]
      BY <1>3 DEF FreeDeferred, LoopInv, Phases, poolVars
    <2>2. Shapes'
      BY <2>1, Freed DEF LoopInv, Shapes
    <2>3. OffloadedIsKept' /\ PoolOwns' /\ DOMAIN batch' \subseteq Conn /\ BatchIsLive'
      BY <2>1, <1>3 DEF OffloadedIsKept, PoolOwns, BatchIsLive, LoopInv, Phases, FreeDeferred
    <2>4. Phases'
      BY <2>1, <1>3 DEF LoopInv, Phases, FreeDeferred
    <2>5. ListsAreExact'
      BY <2>1, <1>3, Freed DEF LoopInv, ListsAreExact, Phases, FreeDeferred
    <2> QED
      BY <2>2, <2>3, <2>4, <2>5 DEF LoopInv
  <1> QED
    BY <1>1, <1>2, <1>3

(***************************************************************************)
(* Whatever a client does changes what is to be read or written only.      *)
(***************************************************************************)
LEMMA ClientActs ==
    ASSUME LoopInv, NEW c \in Conn, ClientStep(c)
    PROVE  LoopInv'
  <1>1. UNCHANGED <<connections, deferred, batch, loop, lock, poolVars, serverVars>>
    BY ZenonT(60) DEF ClientStep, ClientSends, ClientShutsDown, ClientResets, ClientReads
  <1>2. \A k, e : Shaped(k) => /\ Shaped(Happens(k, e)) /\ Happens(k, e).life = k.life
                               /\ Happens(k, e).offloaded = k.offloaded
                               /\ Happens(k, e).interest = k.interest
    BY Fields, ZenonT(60) DEF Shaped, Happens
  <1>3. PICK k, e : /\ Shaped(k) /\ k.life = conn[c].life /\ k.offloaded = conn[c].offloaded
                    /\ k.interest = conn[c].interest
                    /\ conn' = [conn EXCEPT ![c] = Happens(k, e)]
    <2> DEFINE Kept(k) == /\ Shaped(k) /\ k.life = conn[c].life
                          /\ k.offloaded = conn[c].offloaded /\ k.interest = conn[c].interest
    <2>1. /\ \A x, n : Kept([conn[c] EXCEPT !.inbox = x, !.sent = n])
          /\ Kept([conn[c] EXCEPT !.eof = TRUE])
          /\ Kept([conn[c] EXCEPT !.reset = TRUE])
          /\ Kept([conn[c] EXCEPT !.full = FALSE])
      BY Fields DEF LoopInv, Shapes, Shaped
    <2>2. \E k, e : Kept(k) /\ conn' = [conn EXCEPT ![c] = Happens(k, e)]
      <3> HIDE DEF Kept
      <3> QED
        BY <2>1, ZenonT(60) DEF ClientStep, ClientSends, ClientShutsDown, ClientResets, ClientReads
    <2> QED
      BY <2>2, ZenonT(60)
  <1>4. \A d \in Conn : /\ Shaped(conn'[d]) /\ conn'[d].life = conn[d].life
                        /\ conn'[d].offloaded = conn[d].offloaded
                        /\ conn'[d].interest = conn[d].interest
    BY <1>2, <1>3 DEF LoopInv, Shapes
  <1>5. Shapes'
    BY <1>3, <1>4 DEF LoopInv, Shapes
  <1> QED
    BY <1>1, <1>4, <1>5, SMTT(60) DEF LoopInv, OffloadedIsKept, BatchIsLive, PoolOwns, Phases, ListsAreExact,
                            poolVars, serverVars

-----------------------------------------------------------------------------
(***************************************************************************)
(* LoopInv is inductive.                                                   *)
(***************************************************************************)
LEMMA LoopInvAlways == Spec => []LoopInv
  <1>1. Init => LoopInv
    <2> SUFFICES ASSUME Init PROVE LoopInv
      OBVIOUS
    <2>1. Shaped(Unused) /\ Unused.life = "none"
      BY DEF Shaped, Unused, ConnFields
    <2>2. Shapes /\ ListsAreExact
      BY <2>1 DEF Init, Shapes, ListsAreExact
    <2>3. OffloadedIsKept /\ PoolOwns /\ DOMAIN batch \subseteq Conn /\ BatchIsLive /\ Phases
      BY DEF Init, Pool!SpecInit, OffloadedIsKept, BatchIsLive, PoolOwns, Phases
    <2> QED
      BY <2>2, <2>3 DEF LoopInv
  <1>2. LoopInv /\ [Next]_vars => LoopInv'
    <2>1. ASSUME LoopInv, Next PROVE LoopInv'
      BY <2>1, EpollWaits, EventHandled, IdleReaped, LoopExits, ConnectionDrained, HandlerRuns,
         Accepted, Stopped, ClientActs DEF Next, LoopStep, MainStep
    <2>2. ASSUME LoopInv, UNCHANGED vars PROVE LoopInv'
      BY <2>2, ZenonT(60) DEF vars, LoopInv, Shapes, OffloadedIsKept, BatchIsLive, PoolOwns, Phases,
                  ListsAreExact
    <2> QED
      BY <2>1, <2>2
  <1> QED
    BY <1>1, <1>2, PTL DEF Spec

(***************************************************************************)
(* A connection handed to the pool is not freed and stays offloaded,       *)
(* whatever the loop, the sweep, the drain and the cleanup do, until its   *)
(* pool thread hands it back.                                              *)
(***************************************************************************)
THEOREM OffloadedStaysKept == Spec => []OffloadedIsKept
  <1>1. LoopInv => OffloadedIsKept
    BY DEF LoopInv
  <1> QED
    BY <1>1, LoopInvAlways, PTL

(***************************************************************************)
(* The connections of the events still to be handled have not been freed.  *)
(***************************************************************************)
THEOREM BatchStaysLive == Spec => []BatchIsLive
  <1>1. LoopInv => BatchIsLive
    BY DEF LoopInv
  <1> QED
    BY <1>1, LoopInvAlways, PTL

(***************************************************************************)
(* A connection is on a list of the worker exactly while it exists, and    *)
(* none is left when http_server_cleanup returns.                          *)
(***************************************************************************)
THEOREM ListsStayExact == Spec => []ListsAreExact
  <1>1. LoopInv => ListsAreExact
    BY DEF LoopInv
  <1> QED
    BY <1>1, LoopInvAlways, PTL
=============================================================================
