----------------------------- MODULE DurableLog -----------------------------
(***************************************************************************)
(* What Wal promises the callers of reserve_*() and await_durable(): a     *)
(* record is acknowledged only when it is durable, records become durable  *)
(* in LSN order, one that was reported as failed never does while the log  *)
(* is open, and opening it again loses only its oldest records and those   *)
(* after a failed one.                                                     *)
(***************************************************************************)
EXTENDS Integers

CONSTANT Lsns

VARIABLES durable, acked, failed

Init == durable = {} /\ acked = {} /\ failed = {}

\* One round of group commit.
Commit(S) ==
  /\ S # {} /\ S \cap (durable \cup failed) = {}
  /\ \A l \in S, d \in durable : d < l
  /\ durable' = durable \cup S
  /\ UNCHANGED <<acked, failed>>

Ack(l) ==
  /\ l \in durable
  /\ acked' = acked \cup {l}
  /\ UNCHANGED <<durable, failed>>

Fail(S) ==
  /\ S \cap durable = {}
  /\ failed' = failed \cup S
  /\ UNCHANGED <<durable, acked>>

\* The log is opened again with its records from first on; S was being written.
Reopen(first, S) ==
  /\ S \cap (durable \cup failed) = {}
  /\ \A l \in S, d \in durable : d < l
  /\ \E kept \in SUBSET durable :
       /\ \A d \in durable : d >= first /\ (\A f \in failed : d < f) => d \in kept
       /\ durable' = kept \cup S
  /\ acked' = acked \cap durable'
  /\ failed' = {}

Next ==
  \/ \E S \in SUBSET Lsns : Commit(S) \/ Fail(S)
  \/ \E l \in Lsns : Ack(l)
  \/ \E first \in Lsns \cup {l + 1 : l \in Lsns}, S \in SUBSET Lsns : Reopen(first, S)

Spec == Init /\ [][Next]_<<durable, acked, failed>>
=============================================================================
