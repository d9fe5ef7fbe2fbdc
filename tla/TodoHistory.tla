---------------------------- MODULE TodoHistory -----------------------------
(***************************************************************************)
(* TodoApi with history variables, for what the handlers promise about     *)
(* more than one state: what a DELETE removed, and what a collection GET   *)
(* should have shown.  The history only watches: every step of TodoApi is  *)
(* possible here and changes TodoApi's variables in the same way.          *)
(***************************************************************************)
EXTENDS TodoApi

VARIABLES
    gone,      \* ids whose row a DELETE has removed
    stored,    \* per listing: the user's ids stored from its start, not deleted since
    untouched  \* per listing: the ids of stored that no PUT or DELETE has worked on since

history == <<gone, stored, untouched>>

Removing(t) == At(t, "delete_row") /\ rows[IdOf(t)] # Null /\ rows'[IdOf(t)] = Null

ListingOf(t) == {i \in Id : Owned(rows[i], call'[t].user) /\ ~Busy(i)}

Watch(t, seen, kept) ==
    CASE At(t, "idle") /\ call'[t].step \in {"list_index", "list_all"} -> ListingOf(t)
      [] call'[t].step \in ListSteps /\ ~At(t, "idle") -> seen \cap kept
      [] OTHER -> {}

HInit ==
    /\ Init
    /\ gone = {}
    /\ stored = [t \in Thread |-> {}]
    /\ untouched = [t \in Thread |-> {}]

HNext ==
    /\ Next
    /\ gone' = gone \cup {IdOf(t) : t \in {s \in Thread : Removing(s)}}
    /\ stored' = [t \in Thread |-> Watch(t, stored[t], Id \ gone')]
    /\ untouched' = [t \in Thread |-> Watch(t, untouched[t], {i \in Id : ~Busy(i)'})]

HSpec == HInit /\ [][HNext]_<<vars, history>>

FairHSpec == HSpec /\ \A t \in Thread : WF_vars(Step(t))

-----------------------------------------------------------------------------
(***************************************************************************)
(* A row that a DELETE removed never comes back: no PUT re-creates it      *)
(* after the fact (the comment on g_todo_write_lock) and no id is reused.  *)
(***************************************************************************)
DeletedStaysDeleted == \A i \in gone : rows[i] = Null

(***************************************************************************)
(* A listing shows every todo of its user that was stored when it started  *)
(* and that no PUT or DELETE worked on while it ran.                       *)
(***************************************************************************)
UntouchedTodosListed ==
    \A t \in Thread : At(t, "list_answer") => untouched[t] \subseteq listing[t].out

(***************************************************************************)
(* A listing shows every todo of its user that was stored when it started  *)
(* and that nobody deleted while it ran: "one listing is a consistent      *)
(* snapshot" (the comment on g_todo_cache).                                *)
(***************************************************************************)
ListingIsSnapshot ==
    \A t \in Thread : At(t, "list_answer") => stored[t] \subseteq listing[t].out
=============================================================================
