--------------------------- MODULE BalancerProofs ---------------------------
(***************************************************************************)
(* Proofs about Balancer for any number of connections and backends, any   *)
(* weights, strategy and faults: an event never reaches freed or reused    *)
(* memory, current_connections is exact, and a backend is out of rotation  *)
(* exactly while its failures reach the threshold.                         *)
(***************************************************************************)
EXTENDS Balancer, FiniteSetTheorems, TLAPS

BackendFields == DOMAIN AddedBackend(1)
ConnFields    == DOMAIN FreeSlot

(***************************************************************************)
(* The backends are records of backend_t's fields, and health_status says  *)
(* whether consecutive_failures has reached the threshold.                 *)
(***************************************************************************)
SoundBackends(bs) ==
    \A b \in DOMAIN bs :
        /\ DOMAIN bs[b] = BackendFields
        /\ bs[b].health_status \in {0, 1}
        /\ bs[b].consecutive_failures \in Nat
        /\ bs[b].health_status = 0 <=> bs[b].consecutive_failures >= FailureThreshold

(***************************************************************************)
(* The same backends with the same current_connections.                    *)
(***************************************************************************)
SameCounts(bs, cs) ==
    /\ DOMAIN cs = DOMAIN bs
    /\ \A b \in DOMAIN bs : cs[b].current_connections = bs[b].current_connections

(***************************************************************************)
(* The connections are records of lb_connection_t's fields; the events of  *)
(* a batch are of connections that are not free and were there before it.  *)
(***************************************************************************)
SoundConns ==
    /\ DOMAIN conns = Slot
    /\ \A s \in Slot : DOMAIN conns[s] = ConnFields
    /\ \A e \in events : e.role # "listen" => e.conn \in Slot

(***************************************************************************)
(* The setup stays the one chosen by Init.                                 *)
(***************************************************************************)
LegalSetup == setup \in Setups

(***************************************************************************)
(* The inductive invariant.                                                *)
(***************************************************************************)
BalancerInv ==
    /\ SoundBackends(backends)
    /\ SoundConns
    /\ EventsReachTheirConnection
    /\ ConnectionsCounted

-----------------------------------------------------------------------------
(***************************************************************************)
(* The fields of backend_t and of a connection's slot.                     *)
(***************************************************************************)
LEMMA Fields ==
    /\ BackendFields = {"weight", "health_status", "consecutive_failures",
                        "current_weight", "current_connections"}
    /\ ConnFields = {"state", "backend", "proxy_hdr", "client_buffer", "backend_buffer",
                     "client_eof", "fresh"}
  BY DEF BackendFields, ConnFields, AddedBackend, FreeSlot

(***************************************************************************)
(* mark_backend_failure takes a backend out when it counts the failure     *)
(* that reaches the threshold, and changes no connection count.            *)
(***************************************************************************)
LEMMA FailureMarked ==
    ASSUME NEW bs, SoundBackends(bs), NEW b
    PROVE  /\ SoundBackends(mark_backend_failure(bs, b))
           /\ SameCounts(bs, mark_backend_failure(bs, b))
  BY Fields, BalancerAssumption DEF SoundBackends, SameCounts, mark_backend_failure

(***************************************************************************)
(* mark_backend_success clears the failures and the verdict together.      *)
(***************************************************************************)
LEMMA SuccessMarked ==
    ASSUME NEW bs, SoundBackends(bs), NEW b
    PROVE  /\ SoundBackends(mark_backend_success(bs, b))
           /\ SameCounts(bs, mark_backend_success(bs, b))
  BY Fields, BalancerAssumption DEF SoundBackends, SameCounts, mark_backend_success

(***************************************************************************)
(* passive_recovery puts a backend back with its failures cleared.         *)
(***************************************************************************)
LEMMA RecoveryMarked ==
    ASSUME NEW bs, SoundBackends(bs), NEW due
    PROVE  /\ SoundBackends(passive_recovery(bs, due))
           /\ SameCounts(bs, passive_recovery(bs, due))
  BY Fields, BalancerAssumption DEF SoundBackends, SameCounts, passive_recovery

(***************************************************************************)
(* The effect of counting a connection in or out of backend b.             *)
(***************************************************************************)
Recounted(bs, b, n) == backends' = [bs EXCEPT ![b].current_connections = n]

(***************************************************************************)
(* Counting a connection in or out leaves the health alone.                *)
(***************************************************************************)
LEMMA Counting ==
    ASSUME NEW bs, SoundBackends(bs), SameCounts(backends, bs), NEW b, NEW n,
           Recounted(bs, b, n)
    PROVE  /\ SoundBackends(backends')
           /\ DOMAIN backends' = DOMAIN backends
           /\ \A c \in DOMAIN backends : backends'[c].current_connections =
                 IF c = b THEN n ELSE backends[c].current_connections
  <1>1. SoundBackends(backends')
    BY Fields DEF SoundBackends, Recounted
  <1>2. /\ DOMAIN backends' = DOMAIN bs
        /\ \A c \in DOMAIN bs : backends'[c].current_connections =
              IF c = b THEN n ELSE bs[c].current_connections
    BY Fields DEF SoundBackends, Recounted
  <1> QED
    BY <1>1, <1>2 DEF SameCounts

(***************************************************************************)
(* No strategy touches health or counts.                                   *)
(***************************************************************************)
LEMMA Selected ==
    ASSUME NEW bs, SoundBackends(bs), NEW strategy, NEW sel \in select_backend(strategy, bs),
           strategy \in {"round_robin", "least_conn", "ip_hash", "random"}
    PROVE  SoundBackends(sel.backends) /\ SameCounts(bs, sel.backends)
  <1>1. SoundBackends(Raised(bs)) /\ SameCounts(bs, Raised(bs))
    BY Fields DEF SoundBackends, SameCounts, Raised
  <1>2. ASSUME NEW cs, SoundBackends(cs), SameCounts(bs, cs), NEW b, NEW n
        PROVE  LET ds == [cs EXCEPT ![b].current_weight = n] IN
               SoundBackends(ds) /\ SameCounts(bs, ds)
    BY <1>2, Fields, SMTT(60) DEF SoundBackends, SameCounts
  <1>3. CASE sel = backend_round_robin_select(bs)
    BY <1>1, <1>2, <1>3, ZenonT(60) DEF backend_round_robin_select
  <1>4. CASE sel.backends = bs
    BY <1>4 DEF SameCounts
  <1>5. Healthy(bs) # {}
    BY DEF select_backend
  <1>6. CASE strategy = "round_robin"
    BY <1>3, <1>5, <1>6 DEF select_backend
  <1>7. CASE strategy = "least_conn"
    BY <1>4, <1>5, <1>7 DEF select_backend, least_connection_select
  <1>8. CASE strategy = "ip_hash"
    <2>1. PICK hash : sel = ip_hash_select(bs, hash)
      BY <1>5, <1>8 DEF select_backend
    <2> QED
      BY <1>4, <2>1 DEF ip_hash_select
  <1>9. CASE strategy = "random"
    BY <1>4, <1>5, <1>9 DEF select_backend, random_select
  <1> QED
    BY <1>6, <1>7, <1>8, <1>9

(***************************************************************************)
(* What lb_handle_new_connection leaves of the backends it selects from.   *)
(***************************************************************************)
LEMMA RecoveredSelected ==
    ASSUME BalancerInv, LegalSetup
    PROVE  /\ \A bs \in Recovered : SoundBackends(bs) /\ SameCounts(backends, bs)
           /\ \A sel \in Selections :
                 SoundBackends(sel.backends) /\ SameCounts(backends, sel.backends)
  <1>1. \A bs \in Recovered : SoundBackends(bs) /\ SameCounts(backends, bs)
    BY RecoveryMarked DEF BalancerInv, Recovered
  <1>2. ASSUME NEW sel \in Selections
        PROVE  SoundBackends(sel.backends) /\ SameCounts(backends, sel.backends)
    <2>1. PICK bs \in Recovered : sel \in select_backend(setup.strategy, bs)
      BY <1>2 DEF Selections
    <2>2. setup.strategy \in {"round_robin", "least_conn", "ip_hash", "random"}
      BY BalancerAssumption DEF LegalSetup, SetupType
    <2>3. SoundBackends(sel.backends) /\ SameCounts(bs, sel.backends)
      BY <1>1, <2>1, <2>2, Selected
    <2> QED
      BY <1>1, <2>3 DEF SameCounts
  <1> QED
    BY <1>1, <1>2

-----------------------------------------------------------------------------
(***************************************************************************)
(* There are finitely many slots to count.                                 *)
(***************************************************************************)
LEMMA SlotsFinite == IsFiniteSet(Slot)
  <1>1. ConnCount \in Int
    BY BalancerAssumption
  <1> QED
    BY <1>1, FS_Interval DEF Slot

(***************************************************************************)
(* A step that leaves every connection's slot in its state and with its    *)
(* backend keeps the invariant.                                            *)
(***************************************************************************)
LEMMA SlotsKept ==
    ASSUME BalancerInv, SoundBackends(backends'), SameCounts(backends, backends'),
           events' \subseteq events,
           DOMAIN conns' = Slot,
           \A s \in Slot : /\ DOMAIN conns'[s] = ConnFields
                            /\ conns'[s].state = conns[s].state
                            /\ conns'[s].backend = conns[s].backend
                            /\ conns'[s].fresh = conns[s].fresh
    PROVE  BalancerInv'
  <1>1. SoundConns' /\ EventsReachTheirConnection'
    BY DEF BalancerInv, SoundConns, EventsReachTheirConnection
  <1>2. ConnectionsCounted'
    <2>1. ASSUME NEW b
          PROVE  {s \in Slot : conns'[s].state = "open" /\ conns'[s].backend = b}
                  = {s \in Slot : conns[s].state = "open" /\ conns[s].backend = b}
      OBVIOUS
    <2> QED
      BY <2>1 DEF BalancerInv, ConnectionsCounted, SameCounts, Backend
  <1> QED
    BY <1>1, <1>2 DEF BalancerInv

(***************************************************************************)
(* lb_close_connection: the slot is kept until the batch is over, and the  *)
(* connection is counted out of its backend.                               *)
(***************************************************************************)
LEMMA ClosedSlot ==
    ASSUME BalancerInv, NEW s \in Slot, conns[s].state = "open",
           NEW bs, SoundBackends(bs), SameCounts(backends, bs),
           lb_close_connection(s, bs), events' \subseteq events
    PROVE  BalancerInv'
  <1>1. /\ DOMAIN conns' = Slot
        /\ \A r \in Slot \ {s} : conns'[r] = conns[r]
        /\ conns'[s] = Closed(conns[s])
        /\ DOMAIN conns'[s] = ConnFields
        /\ conns'[s].state = "closed" /\ ~conns'[s].fresh
    BY Fields DEF BalancerInv, SoundConns, lb_close_connection, Closed, FreeSlot
  <1>2. SoundConns'
    BY <1>1 DEF BalancerInv, SoundConns
  <1>3. EventsReachTheirConnection'
    BY <1>1 DEF BalancerInv, SoundConns, EventsReachTheirConnection
  <1>4. PICK n : n = bs[conns[s].backend].current_connections - 1
    OBVIOUS
  <1>5. backends' = [bs EXCEPT ![conns[s].backend].current_connections = n]
    BY <1>4 DEF lb_close_connection
  <1>6. /\ SoundBackends(backends')
        /\ DOMAIN backends' = DOMAIN backends
        /\ \A c \in DOMAIN backends : backends'[c].current_connections =
              IF c = conns[s].backend THEN n ELSE backends[c].current_connections
    <2>1. PICK b : b = conns[s].backend
      OBVIOUS
    <2>2. Recounted(bs, b, n)
      BY <1>5, <2>1 DEF Recounted
    <2> QED
      BY <2>1, <2>2, Counting
  <1>7. ConnectionsCounted'
    <2>1. SUFFICES ASSUME NEW b \in DOMAIN backends
                   PROVE  backends'[b].current_connections =
                            Cardinality({r \in Slot : conns'[r].state = "open" /\ conns'[r].backend = b})
      BY <1>6 DEF ConnectionsCounted, Backend
    <2> DEFINE Of(b1) == {r \in Slot : conns[r].state = "open" /\ conns[r].backend = b1}
               OfNow(b1) == {r \in Slot : conns'[r].state = "open" /\ conns'[r].backend = b1}
    <2>2. IsFiniteSet(Of(b))
      BY SlotsFinite, FS_Subset
    <2>3. backends[b].current_connections = Cardinality(Of(b))
      BY DEF BalancerInv, ConnectionsCounted, Backend
    <2>4. CASE b = conns[s].backend
      <3>1. s \in Of(b) /\ OfNow(b) = Of(b) \ {s}
        BY <1>1, <2>4
      <3>2. Cardinality(OfNow(b)) = Cardinality(Of(b)) - 1
        BY <2>2, <3>1, FS_RemoveElement, ZenonT(60)
      <3>3. bs[b].current_connections = backends[b].current_connections
        BY DEF SameCounts
      <3> QED
        BY <1>4, <1>6, <2>3, <2>4, <3>2, <3>3, SMTT(60)
    <2>5. CASE b # conns[s].backend
      <3>1. OfNow(b) = Of(b)
        BY <1>1, <2>5
      <3> QED
        BY <1>6, <2>3, <2>5, <3>1, ZenonT(60)
    <2> QED
      BY <2>4, <2>5
  <1> QED
    BY <1>2, <1>3, <1>6, <1>7 DEF BalancerInv

(***************************************************************************)
(* A new connection takes a free slot, which no event points to.           *)
(***************************************************************************)
LEMMA OpenedSlot ==
    ASSUME BalancerInv, NEW s \in Slot, conns[s].state = "free",
           NEW bs, SoundBackends(bs), SameCounts(backends, bs), NEW b,
           Recounted(bs, b, bs[b].current_connections + 1),
           conns' = [conns EXCEPT ![s] = NewConnection(b)],
           events' \subseteq events
    PROVE  BalancerInv'
  <1>1. /\ DOMAIN conns' = Slot
        /\ \A r \in Slot \ {s} : conns'[r] = conns[r]
        /\ DOMAIN conns'[s] = ConnFields
        /\ conns'[s].state = "open" /\ conns'[s].backend = b
    BY Fields DEF BalancerInv, SoundConns, NewConnection, FreeSlot
  <1>2. SoundConns'
    BY <1>1 DEF BalancerInv, SoundConns
  <1>3. EventsReachTheirConnection'
    BY <1>1 DEF BalancerInv, SoundConns, EventsReachTheirConnection
  <1>4. /\ SoundBackends(backends')
        /\ DOMAIN backends' = DOMAIN backends
        /\ \A c \in DOMAIN backends : backends'[c].current_connections =
              IF c = b THEN bs[b].current_connections + 1
              ELSE backends[c].current_connections
    BY Counting
  <1>5. ConnectionsCounted'
    <2>1. SUFFICES ASSUME NEW c \in DOMAIN backends
                   PROVE  backends'[c].current_connections =
                            Cardinality({r \in Slot : conns'[r].state = "open" /\ conns'[r].backend = c})
      BY <1>4 DEF ConnectionsCounted, Backend
    <2> DEFINE Of == {r \in Slot : conns[r].state = "open" /\ conns[r].backend = c}
               OfNow == {r \in Slot : conns'[r].state = "open" /\ conns'[r].backend = c}
    <2>2. IsFiniteSet(Of)
      BY SlotsFinite, FS_Subset
    <2>3. backends[c].current_connections = Cardinality(Of)
      BY DEF BalancerInv, ConnectionsCounted, Backend
    <2>4. CASE c = b
      <3>1. s \notin Of /\ OfNow = Of \cup {s}
        BY <1>1, <2>4
      <3>2. Cardinality(OfNow) = Cardinality(Of) + 1
        BY <2>2, <3>1, FS_AddElement, ZenonT(60)
      <3>3. bs[c].current_connections = backends[c].current_connections
        BY DEF SameCounts
      <3> QED
        BY <1>4, <2>3, <2>4, <3>2, <3>3
    <2>5. CASE c # b
      <3>1. OfNow = Of
        BY <1>1, <2>5
      <3> QED
        BY <1>4, <2>3, <2>5, <3>1, ZenonT(60)
    <2> QED
      BY <2>4, <2>5
  <1> QED
    BY <1>2, <1>3, <1>4, <1>5 DEF BalancerInv

(***************************************************************************)
(* update_epoll_interest, after a handler that changed buffers only.       *)
(***************************************************************************)
LEMMA UpdatedSlot ==
    ASSUME BalancerInv, NEW s \in Slot, NEW c, NEW k, update_epoll_interest(s, c, k),
           DOMAIN c = ConnFields, c.state = conns[s].state,
           c.backend = conns[s].backend, c.fresh = conns[s].fresh,
           SoundBackends(backends'), SameCounts(backends, backends'), events' \subseteq events
    PROVE  BalancerInv'
  <1>1. DOMAIN conns' = Slot /\ conns'[s] = c /\ \A r \in Slot \ {s} : conns'[r] = conns[r]
    BY SMTT(60) DEF BalancerInv, SoundConns, update_epoll_interest
  <1> QED
    BY <1>1, SlotsKept DEF BalancerInv, SoundConns

(***************************************************************************)
(* Both flushes, for a connection whose buffers the handler may have       *)
(* changed before.                                                         *)
(***************************************************************************)
LEMMA FlushedToBackend ==
    ASSUME BalancerInv, NEW s \in Slot, conns[s].state = "open", NEW c, NEW k,
           DOMAIN c = ConnFields, c.state = conns[s].state,
           c.backend = conns[s].backend, c.fresh = conns[s].fresh,
           flush_client_to_backend(s, c, k), events' \subseteq events
    PROVE  BalancerInv'
  <1>1. CASE CloseAndBlame(s)
    BY <1>1, FailureMarked, ClosedSlot DEF CloseAndBlame, BalancerInv
  <1>2. CASE ~(ForBackend(c) # <<>> /\ k.backend.end = "rst")
    <2>1. PICK w \in Writes(k.backend, ForBackend(c)) :
             /\ update_epoll_interest(s,
                    [c EXCEPT !.proxy_hdr = Rest(@, w.n),
                              !.client_buffer = IF w.n <= Len(c.proxy_hdr) THEN @
                                                ELSE Rest(@, w.n - Len(c.proxy_hdr))],
                    [k EXCEPT !.backend = Written(@, ForBackend(c), w)])
             /\ UNCHANGED backends
      BY <1>2, ZenonT(60) DEF flush_client_to_backend
    <2>2. PICK d : d = [c EXCEPT !.proxy_hdr = Rest(@, w.n),
                                 !.client_buffer = IF w.n <= Len(c.proxy_hdr) THEN @
                                                   ELSE Rest(@, w.n - Len(c.proxy_hdr))]
      OBVIOUS
    <2>3. /\ DOMAIN d = ConnFields /\ d.state = conns[s].state
          /\ d.backend = conns[s].backend /\ d.fresh = conns[s].fresh
      BY <2>2, Fields
    <2>4. SoundBackends(backends') /\ SameCounts(backends, backends')
      BY <2>1 DEF BalancerInv, SameCounts
    <2> QED
      BY <2>1, <2>2, <2>3, <2>4, UpdatedSlot, ZenonT(60)
  <1> QED
    BY <1>1, <1>2, ZenonT(60) DEF flush_client_to_backend

(***************************************************************************)
(* flush_backend_to_client likewise: it closes the connection or keeps it. *)
(***************************************************************************)
LEMMA FlushedToClient ==
    ASSUME BalancerInv, NEW s \in Slot, conns[s].state = "open", NEW c, NEW k,
           DOMAIN c = ConnFields, c.state = conns[s].state,
           c.backend = conns[s].backend, c.fresh = conns[s].fresh,
           NEW bs, SoundBackends(bs), SameCounts(backends, bs),
           flush_backend_to_client(s, c, k, bs), events' \subseteq events
    PROVE  BalancerInv'
  <1>1. CASE lb_close_connection(s, bs)
    BY <1>1, ClosedSlot
  <1>2. CASE ~(c.backend_buffer # <<>> /\ k.client.end = "rst")
    <2>1. PICK w \in Writes(k.client, c.backend_buffer) :
             /\ update_epoll_interest(s, [c EXCEPT !.backend_buffer = Rest(@, w.n)],
                    [k EXCEPT !.client = Written(@, c.backend_buffer, w)])
             /\ backends' = bs
      BY <1>2, ZenonT(60) DEF flush_backend_to_client
    <2>2. PICK d : d = [c EXCEPT !.backend_buffer = Rest(@, w.n)]
      BY ZenonT(60)
    <2>3. /\ DOMAIN d = ConnFields /\ d.state = conns[s].state
          /\ d.backend = conns[s].backend /\ d.fresh = conns[s].fresh
      BY <2>2, Fields
    <2> QED
      BY <2>1, <2>2, <2>3, UpdatedSlot, ZenonT(60)
  <1> QED
    BY <1>1, <1>2 DEF flush_backend_to_client

-----------------------------------------------------------------------------
(***************************************************************************)
(* Accepting a connection, in each of the ways it can end.                 *)
(***************************************************************************)
LEMMA AcceptSteps ==
    ASSUME BalancerInv, LegalSetup,
           \/ AcceptFails \/ NonblockingFails \/ Refuse \/ ConnectFails \/ OutOfResources
           \/ Accept
    PROVE  BalancerInv'
  <1>1. events' \subseteq events
    BY DEF AcceptFails, NonblockingFails, Refuse, ConnectFails, OutOfResources, Accept, Dispatched
  <1>2. CASE AcceptFails \/ NonblockingFails
    BY <1>1, <1>2, SlotsKept
       DEF AcceptFails, NonblockingFails, BalancerInv, SoundConns, SameCounts
  <1>3. CASE Refuse
    BY <1>1, <1>3, RecoveredSelected, SlotsKept DEF Refuse, BalancerInv, SoundConns
  <1>4. CASE ConnectFails
    <2>1. PICK sel \in Selections : backends' = mark_backend_failure(sel.backends, sel.id)
      BY <1>4 DEF ConnectFails
    <2>2. SoundBackends(sel.backends) /\ SameCounts(backends, sel.backends)
      BY RecoveredSelected
    <2>3. SoundBackends(backends') /\ SameCounts(sel.backends, backends')
      BY <2>1, <2>2, FailureMarked
    <2>4. SameCounts(backends, backends')
      BY <2>2, <2>3 DEF SameCounts
    <2> QED
      BY <1>1, <1>4, <2>3, <2>4, SlotsKept DEF ConnectFails, BalancerInv, SoundConns
  <1>5. CASE OutOfResources
    BY <1>1, <1>5, RecoveredSelected, SlotsKept DEF OutOfResources, BalancerInv, SoundConns
  <1>6. CASE Accept
    <2>1. PICK sel \in Selections, s \in 1 .. setup.conns :
             /\ conns[s].state = "free"
             /\ conns' = [conns EXCEPT ![s] = NewConnection(sel.id)]
             /\ backends' = [sel.backends EXCEPT ![sel.id].current_connections = @ + 1]
      BY <1>6, ZenonT(60) DEF Accept
    <2>2. s \in Slot
      BY BalancerAssumption DEF LegalSetup, SetupType, Slot
    <2>3. PICK bs, b : bs = sel.backends /\ b = sel.id
      OBVIOUS
    <2>4. SoundBackends(bs) /\ SameCounts(backends, bs)
      BY <2>3, RecoveredSelected
    <2>5. /\ Recounted(bs, b, bs[b].current_connections + 1)
          /\ conns' = [conns EXCEPT ![s] = NewConnection(b)]
      BY <2>1, <2>3 DEF Recounted
    <2> QED
      BY <1>1, <2>1, <2>2, <2>3, <2>4, <2>5, OpenedSlot, ZenonT(60)
  <1> QED
    BY <1>2, <1>3, <1>4, <1>5, <1>6

(***************************************************************************)
(* The relay's handlers, each for an event of a connection that is open.   *)
(***************************************************************************)
LEMMA RelaySteps ==
    ASSUME BalancerInv, NEW e \in events,
           \/ SkipClosed(e) \/ lb_handle_connection_error(e)
           \/ lb_handle_client_data(e) \/ lb_handle_backend_data(e)
           \/ lb_handle_client_write(e) \/ lb_handle_backend_write(e)
    PROVE  BalancerInv'
  <1>1. events' \subseteq events
    BY DEF SkipClosed, lb_handle_connection_error, lb_handle_client_data, lb_handle_backend_data,
           lb_handle_client_write, lb_handle_backend_write, LiveEvent, Dispatched
  <1>2. CASE SkipClosed(e)
    BY <1>1, <1>2, SlotsKept DEF SkipClosed, BalancerInv, SoundConns, SameCounts
  <1>3. PICK s : s = e.conn
    OBVIOUS
  <1>4. SUFFICES ASSUME ~SkipClosed(e) PROVE BalancerInv'
    BY <1>2
  <1>5. s \in Slot /\ conns[s].state = "open" /\ DOMAIN conns[s] = ConnFields
    <2>1. e.role \in Side /\ conns[s].state = "open"
      BY <1>3, <1>4
         DEF lb_handle_connection_error, lb_handle_client_data, lb_handle_backend_data,
             lb_handle_client_write, lb_handle_backend_write, LiveEvent, Side
    <2> QED
      BY <1>3, <2>1, SMTT(60) DEF BalancerInv, SoundConns, Side
  <1>6. SoundBackends(backends) /\ SameCounts(backends, backends)
    BY DEF BalancerInv, SameCounts
  <1>7. ASSUME CloseAndBlame(s) \/ lb_close_connection(s, backends) PROVE BalancerInv'
    BY <1>1, <1>5, <1>6, <1>7, FailureMarked, ClosedSlot, SMTT(60) DEF CloseAndBlame
  <1>8. CASE lb_handle_connection_error(e)
    BY <1>3, <1>7, <1>8, SMTT(60) DEF lb_handle_connection_error
  <1>9. CASE lb_handle_client_data(e)
    <2>1. CASE lb_close_connection(s, backends)
      BY <1>7, <2>1
    <2>2. CASE AtClientEof(s)
      <3>1. PICK c : c = [conns[s] EXCEPT !.client_eof = TRUE]
        BY ZenonT(60)
      <3>2. /\ DOMAIN c = ConnFields /\ c.state = conns[s].state
            /\ c.backend = conns[s].backend /\ c.fresh = conns[s].fresh
        BY <1>5, <3>1, Fields
      <3>3. update_epoll_interest(s, c, socks[s]) /\ UNCHANGED backends
        BY <2>2, <3>1 DEF AtClientEof
      <3> QED
        BY <1>1, <1>5, <1>6, <3>2, <3>3, UpdatedSlot
    <2>3. CASE flush_client_to_backend(s, [conns[s] EXCEPT !.client_buffer = Chunk(socks[s].client)],
                                       [socks[s] EXCEPT !.client = ReadFrom(@)])
      <3>1. PICK c, k : /\ c = [conns[s] EXCEPT !.client_buffer = Chunk(socks[s].client)]
                        /\ k = [socks[s] EXCEPT !.client = ReadFrom(@)]
        BY ZenonT(60)
      <3>2. /\ DOMAIN c = ConnFields /\ c.state = conns[s].state
            /\ c.backend = conns[s].backend /\ c.fresh = conns[s].fresh
        BY <1>5, <3>1, Fields
      <3>3. flush_client_to_backend(s, c, k)
        BY <2>3, <3>1
      <3> QED
        BY <1>1, <1>5, <3>2, <3>3, FlushedToBackend
    <2> QED
      BY <1>3, <1>9, <2>1, <2>2, <2>3 DEF lb_handle_client_data
  <1>10. CASE lb_handle_backend_data(e)
    <2>1. CASE lb_close_connection(s, backends) \/ CloseAndBlame(s)
      BY <1>7, <2>1
    <2>2. CASE flush_backend_to_client(s, [conns[s] EXCEPT !.backend_buffer = Chunk(socks[s].backend)],
                                       [socks[s] EXCEPT !.backend = ReadFrom(@)],
                                       mark_backend_success(backends, conns[s].backend))
      <3>1. PICK c, k, bs : /\ c = [conns[s] EXCEPT !.backend_buffer = Chunk(socks[s].backend)]
                            /\ k = [socks[s] EXCEPT !.backend = ReadFrom(@)]
                            /\ bs = mark_backend_success(backends, conns[s].backend)
        BY ZenonT(60)
      <3>2. /\ DOMAIN c = ConnFields /\ c.state = conns[s].state
            /\ c.backend = conns[s].backend /\ c.fresh = conns[s].fresh
        BY <1>5, <3>1, Fields
      <3>3. SoundBackends(bs) /\ SameCounts(backends, bs)
        BY <1>6, <3>1, SuccessMarked
      <3>4. flush_backend_to_client(s, c, k, bs)
        BY <2>2, <3>1
      <3> QED
        BY <1>1, <1>5, <3>2, <3>3, <3>4, FlushedToClient
    <2> QED
      BY <1>3, <1>10, <2>1, <2>2 DEF lb_handle_backend_data
  <1>11. CASE lb_handle_client_write(e)
    BY <1>1, <1>3, <1>5, <1>6, <1>11, FlushedToClient DEF lb_handle_client_write
  <1>12. CASE lb_handle_backend_write(e)
    BY <1>1, <1>3, <1>5, <1>12, FlushedToBackend DEF lb_handle_backend_write
  <1> QED
    BY <1>4, <1>8, <1>9, <1>10, <1>11, <1>12

(***************************************************************************)
(* The next batch: what the last one closed is freed, and events are of    *)
(* open connections only.                                                  *)
(***************************************************************************)
LEMMA BatchStep ==
    ASSUME BalancerInv, EpollWait
    PROVE  BalancerInv'
  <1>1. /\ DOMAIN conns' = Slot
        /\ \A s \in Slot : DOMAIN conns'[s] = ConnFields
        /\ \A s \in Slot : (conns'[s].state = "open") = (conns[s].state = "open")
        /\ \A s \in Slot : conns[s].state = "open" =>
                conns'[s].backend = conns[s].backend /\ ~conns'[s].fresh
    <2>1. DOMAIN conns' = Slot
      BY DEF EpollWait
    <2>2. ASSUME NEW s \in Slot, conns[s].state = "closed"
          PROVE  conns'[s] = FreeSlot
      BY <2>2 DEF EpollWait
    <2>3. ASSUME NEW s \in Slot, conns[s].state # "closed"
          PROVE  conns'[s] = [conns[s] EXCEPT !.fresh = FALSE]
      BY <2>3 DEF EpollWait
    <2>4. ASSUME NEW s \in Slot
          PROVE  /\ DOMAIN conns'[s] = ConnFields
                 /\ (conns'[s].state = "open") = (conns[s].state = "open")
                 /\ conns[s].state = "open" =>
                       conns'[s].backend = conns[s].backend /\ ~conns'[s].fresh
      <3>1. DOMAIN conns[s] = ConnFields
        BY DEF BalancerInv, SoundConns
      <3>2. CASE conns[s].state = "closed"
        BY <2>2, <3>2, Fields DEF FreeSlot
      <3>3. CASE conns[s].state # "closed"
        BY <2>3, <3>1, <3>3, Fields, ZenonT(60)
      <3> QED
        BY <3>2, <3>3
    <2> QED
      BY <2>1, <2>4
  <1>2. \A e \in events' : e.role # "listen" => e.conn \in Slot /\ conns[e.conn].state = "open"
    BY DEF EpollWait, ReadyEvents, ListenEvent
  <1>3. SoundConns' /\ EventsReachTheirConnection'
    BY <1>1, <1>2 DEF SoundConns, EventsReachTheirConnection
  <1>4. backends' = backends
    BY DEF EpollWait
  <1>5. ConnectionsCounted'
    <2>1. ASSUME NEW b
          PROVE  {s \in Slot : conns'[s].state = "open" /\ conns'[s].backend = b}
                  = {s \in Slot : conns[s].state = "open" /\ conns[s].backend = b}
      BY <1>1
    <2> QED
      BY <1>4, <2>1 DEF BalancerInv, ConnectionsCounted, Backend
  <1> QED
    BY <1>3, <1>4, <1>5 DEF BalancerInv

(***************************************************************************)
(* Before the first batch there is no connection and no failure.           *)
(***************************************************************************)
LEMMA BalancerInvInit == Init => BalancerInv /\ LegalSetup
  <1> SUFFICES ASSUME Init PROVE BalancerInv /\ LegalSetup
    OBVIOUS
  <1>1. /\ DOMAIN backends = DOMAIN setup.weights
        /\ \A b \in DOMAIN backends : backends[b] = AddedBackend(setup.weights[b])
    BY DEF Init
  <1>2. SoundBackends(backends) /\ \A b \in Backend : backends[b].current_connections = 0
    <2>1. ASSUME NEW b \in DOMAIN backends
          PROVE  /\ DOMAIN backends[b] = BackendFields
                 /\ backends[b].health_status = 1
                 /\ backends[b].consecutive_failures = 0
                 /\ backends[b].current_connections = 0
      <3>1. PICK w : backends[b] = AddedBackend(w)
        BY <1>1
      <3> QED
        BY <3>1 DEF BackendFields, AddedBackend
    <2>2. FailureThreshold \in Nat \ {0}
      BY BalancerAssumption
    <2> QED
      BY <2>1, <2>2 DEF SoundBackends, Backend
  <1>3. /\ \A s \in Slot : conns[s] = FreeSlot
        /\ DOMAIN conns = Slot /\ events = {} /\ setup \in Setups
    BY DEF Init
  <1>4. SoundConns /\ EventsReachTheirConnection
    BY <1>3 DEF SoundConns, EventsReachTheirConnection, ConnFields
  <1>5. ConnectionsCounted
    <2>1. \A b \in Backend :
             {s \in Slot : conns[s].state = "open" /\ conns[s].backend = b} = {}
      BY <1>3 DEF FreeSlot
    <2> QED
      BY <1>2, <2>1, FS_EmptySet DEF ConnectionsCounted
  <1> QED
    BY <1>2, <1>3, <1>4, <1>5 DEF BalancerInv, LegalSetup

(***************************************************************************)
(* BalancerInv is inductive.  The peers change nothing it speaks of.       *)
(***************************************************************************)
LEMMA BalancerInvStep ==
    ASSUME BalancerInv, LegalSetup, [Next]_vars
    PROVE  BalancerInv' /\ LegalSetup'
  <1>1. setup' = setup
    BY ZenonT(60) DEF Next, EpollWait, Dispatch, Peers, vars, PeerConnects, BackendAccepts, PeerSends,
           PeerFinishes, PeerResets, PeerReads, Env, AcceptFails, NonblockingFails, Refuse,
           ConnectFails, OutOfResources, Accept, SkipClosed, lb_handle_connection_error,
           lb_handle_client_data, lb_handle_backend_data, lb_handle_client_write,
           lb_handle_backend_write, LiveEvent, Dispatched
  <1>2. ASSUME UNCHANGED <<backends, conns, events>> PROVE BalancerInv'
    BY <1>2, SlotsKept DEF BalancerInv, SoundConns, SameCounts
  <1>3. ASSUME Peers PROVE BalancerInv'
    BY <1>2, <1>3, ZenonT(60) DEF Peers, PeerConnects, BackendAccepts, PeerSends, PeerFinishes, PeerResets,
                      PeerReads, Env
  <1>4. ASSUME UNCHANGED vars PROVE BalancerInv'
    BY <1>2, <1>4 DEF vars
  <1>5. ASSUME Dispatch PROVE BalancerInv'
    BY <1>5, AcceptSteps, RelaySteps DEF Dispatch
  <1> QED
    BY <1>1, <1>3, <1>4, <1>5, BatchStep, SMTT(60) DEF Next, LegalSetup

(***************************************************************************)
(* The invariant holds throughout.                                         *)
(***************************************************************************)
LEMMA BalancerInvAlways == Spec => [](BalancerInv /\ LegalSetup)
  BY BalancerInvInit, BalancerInvStep, PTL DEF Spec

(***************************************************************************)
(* With any number of connections, no event of a batch is dispatched to    *)
(* freed memory or to a connection that took the place of a closed one:    *)
(* closed_list keeps closed connections until the batch is over.           *)
(***************************************************************************)
THEOREM EventsNeverStray == Spec => []EventsReachTheirConnection
  <1>1. BalancerInv => EventsReachTheirConnection
    BY DEF BalancerInv
  <1> QED
    BY <1>1, BalancerInvAlways, PTL

(***************************************************************************)
(* current_connections of every backend is the number of its open          *)
(* connections, whatever fails in lb_handle_new_connection or the relay.   *)
(***************************************************************************)
THEOREM CountsStayExact == Spec => []ConnectionsCounted
  <1>1. BalancerInv => ConnectionsCounted
    BY DEF BalancerInv
  <1> QED
    BY <1>1, BalancerInvAlways, PTL

(***************************************************************************)
(* For every threshold and strategy, a backend is unhealthy exactly while  *)
(* its consecutive_failures have reached HEALTH_FAILURE_THRESHOLD.         *)
(***************************************************************************)
THEOREM HealthStaysExact == Spec => []HealthFollowsFailures
  <1>1. BalancerInv => HealthFollowsFailures
    BY DEF BalancerInv, SoundBackends, HealthFollowsFailures, Backend
  <1> QED
    BY <1>1, BalancerInvAlways, PTL
=============================================================================
