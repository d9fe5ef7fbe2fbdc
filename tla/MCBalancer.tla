---------------------------- MODULE MCBalancer ------------------------------
(***************************************************************************)
(* Balancer for TLC: a connection with its bytes, two connections that     *)
(* come and go side by side, and, for every strategy, backends of          *)
(* different weight and connections to them one after the other.           *)
(***************************************************************************)
EXTENDS Balancer

Silent == [client |-> 0, backend |-> 0]

Relaying ==
    [weights |-> <<1>>, strategy |-> "round_robin", header |-> 1, conns |-> 1,
     sent |-> [client |-> 3, backend |-> 2]]

SideBySide ==
    [weights |-> <<1>>, strategy |-> "round_robin", header |-> 0, conns |-> 2, sent |-> Silent]

Spreading(strategy) ==
    [weights |-> <<2, 1>>, strategy |-> strategy, header |-> 0, conns |-> 1, sent |-> Silent]

SmallSetups ==
    {Relaying, SideBySide}
    \cup {Spreading(st) : st \in {"round_robin", "least_conn", "ip_hash", "random"}}
=============================================================================
