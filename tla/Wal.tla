-------------------------------- MODULE Wal ---------------------------------
(***************************************************************************)
(* The write-ahead log of storage/src/wal.c as a value.  wal_mutex makes   *)
(* every call one step.  A log is a record with                            *)
(*   buffer    the records in wal_buffer, not yet written;                 *)
(*   log       the records in the log file, oldest first;                  *)
(*   next_lsn  the next log sequence number.                               *)
(* Every record takes one of WalBufferSize slots; payload and checksum are *)
(* abstracted to the change the record describes.  A write that fails may  *)
(* have written any part of the buffer before, and may end inside a record *)
(* (Torn).  What the operating system has accepted survives the death of   *)
(* the process, so fsync is not modelled.                                  *)
(***************************************************************************)
EXTENDS Integers, Sequences

CONSTANT WalBufferSize

Torn == [lsn |-> 0, txn |-> 0, type |-> "torn", change |-> 0]

Opened(log) == [buffer |-> <<>>, log |-> log, next_lsn |-> 1]

(***************************************************************************)
(* flush_wal_buffer, and the flush inside write_wal_record: the set of     *)
(* results, a record of the value returned and the log afterwards.  A      *)
(* failure keeps the buffer.                                               *)
(***************************************************************************)
Flushed(w) == [ok |-> TRUE, wal |-> [w EXCEPT !.log = @ \o w.buffer, !.buffer = <<>>]]

CutShort(w) ==
    {[ok |-> FALSE, wal |-> [w EXCEPT !.log = @ \o SubSeq(w.buffer, 1, n) \o rest]] :
        n \in 0 .. Len(w.buffer) - 1, rest \in {<<>>, <<Torn>>}}

flush_wal_buffer(w, failing) == {Flushed(w)} \cup (IF failing THEN CutShort(w) ELSE {})

(***************************************************************************)
(* write_wal_record: a full buffer is flushed first, and when that fails   *)
(* the record is dropped and takes no LSN.                                 *)
(***************************************************************************)
Appended(w, txn, type, change) ==
    [w EXCEPT !.buffer = Append(@, [lsn |-> w.next_lsn, txn |-> txn, type |-> type,
                                    change |-> change]),
              !.next_lsn = @ + 1]

write_wal_record(w, txn, type, change, failing) ==
    IF Len(w.buffer) < WalBufferSize
    THEN {Appended(w, txn, type, change)}
    ELSE {IF r.ok THEN Appended(r.wal, txn, type, change) ELSE r.wal :
             r \in flush_wal_buffer(w, failing)}

Logged(w, change) == \E i \in DOMAIN w.log : w.log[i].change = change
=============================================================================
