----------------------------- MODULE DeleteLoop -----------------------------
(***************************************************************************)
(* The handling of EVENT_SCHED_DEL in ac_scheduler_task, one round of the   *)
(* compaction loop per step, on a table chosen at the start.                *)
(***************************************************************************)
EXTENDS ScheduleTable

CONSTANT DeleteEntries      \* the entries a table is filled with

ASSUME DeleteAssumption == DeleteEntries \subseteq Entry

VARIABLES initial,          \* the table before the request (history)
          deleted,          \* the index the request names (history)
          compacted,        \* entries
          sched_index, next_index, delete_pc

delete_vars == <<initial, deleted, compacted, sched_index, next_index, delete_pc>>

DeleteInit ==
  /\ initial \in [Slots -> DeleteEntries]
  /\ deleted \in Slots
  /\ compacted = initial
  /\ sched_index = deleted
  /\ next_index = deleted
  /\ delete_pc = "invalidate"

Invalidate ==
  /\ delete_pc = "invalidate"
  /\ compacted' = [compacted EXCEPT ![sched_index].is_valid = FALSE]
  /\ next_index' = sched_index + 1
  /\ delete_pc' = "loop"
  /\ UNCHANGED <<initial, deleted, sched_index>>

(* A plausible slip: one entry too few is moved. *)
MovedShort(tbl, to, from) ==
  [j \in Slots |-> IF j >= to /\ j + 1 < to + (MAX_SCHEDULE_ENTRIES - from)
                   THEN tbl[j + from - to] ELSE tbl[j]]

(* memmove of MAX_SCHEDULE_ENTRIES - from entries, from slot "from" to "to". *)
Moved(tbl, to, from) ==
  [j \in Slots |-> IF j >= to /\ j < to + (MAX_SCHEDULE_ENTRIES - from)
                   THEN tbl[j + from - to] ELSE tbl[j]]

LoopCondition == next_index < MAX_SCHEDULE_ENTRIES /\ compacted[next_index].is_valid

Round ==
  /\ delete_pc = "loop"
  /\ LoopCondition
  /\ compacted' = Moved(compacted, sched_index, next_index)
  /\ sched_index' = sched_index + 1
  /\ next_index' = next_index + 1
  /\ UNCHANGED <<initial, deleted, delete_pc>>

Exit ==
  /\ delete_pc = "loop"
  /\ ~LoopCondition
  /\ delete_pc' = "done"
  /\ UNCHANGED <<initial, deleted, compacted, sched_index, next_index>>

DeleteNext == Invalidate \/ Round \/ Exit

DeleteSpec == DeleteInit /\ [][DeleteNext]_delete_vars

-----------------------------------------------------------------------------
DeleteTypeOK ==
  /\ initial \in Tables
  /\ deleted \in Slots
  /\ compacted \in Tables
  /\ sched_index \in Slots
  /\ next_index \in 0..MAX_SCHEDULE_ENTRIES
  /\ delete_pc \in {"invalidate", "loop", "done"}

(* The loop of a deletion computes what Deleted says, the closed form every  *)
(* other module uses for EVENT_SCHED_DEL (server_schedule.c:359).            *)
ComputesDeleted == delete_pc = "done" => compacted = Deleted(initial, deleted)
=============================================================================
