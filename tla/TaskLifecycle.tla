--------------------------- MODULE TaskLifecycle ---------------------------
(***************************************************************************)
(* serdes-ai-a2a/src/task.rs: the life of a task as its methods start,     *)
(* complete, fail and cancel document it, for every task of the storage.   *)
(* No method runs on the stored record: handlers and workers save copies.  *)
(* A task nobody asks to cancel follows the documented life all the same;  *)
(* one that is to be cancelled may be overwritten twice, by the snapshot   *)
(* of the cancel handler after its end and by the copy of its worker after *)
(* the cancellation.                                                       *)
(***************************************************************************)
CONSTANT Tasks

VARIABLES
  status,  \* the stored status of each task, "unsaved" before the first
  asked    \* the tasks somebody asked to cancel

Init ==
  /\ status = [t \in Tasks |-> "unsaved"]
  /\ asked = {}

Becomes(t, from, to) ==
  /\ status[t] \in from
  /\ status' = [status EXCEPT ![t] = to]
  /\ UNCHANGED asked

Save(t) == Becomes(t, {"unsaved"}, "pending")

Start(t) == Becomes(t, {"pending"}, "running")

Complete(t) == Becomes(t, {"running"}, "completed")

Fail(t) == Becomes(t, {"running"}, "failed")

Ask(t) ==
  /\ status[t] \in {"pending", "running"}
  /\ asked' = asked \cup {t}
  /\ UNCHANGED status

Cancel(t) == t \in asked /\ Becomes(t, {"pending", "running"}, "cancelled")

(* The handler saves its snapshot though the task has ended meanwhile. *)
CancelLate(t) == t \in asked /\ Becomes(t, {"completed", "failed"}, "cancelled")

(* The worker saves its copy of a task that was cancelled meanwhile. *)
Resume(t) ==
  /\ t \in asked
  /\ \E to \in {"running", "completed", "failed"} : Becomes(t, {"cancelled"}, to)

Next ==
  \E t \in Tasks :
    \/ Save(t) \/ Start(t) \/ Complete(t) \/ Fail(t)
    \/ Ask(t) \/ Cancel(t) \/ CancelLate(t) \/ Resume(t)

Spec == Init /\ [][Next]_<<status, asked>>
=============================================================================
