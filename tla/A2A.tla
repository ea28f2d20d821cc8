-------------------------------- MODULE A2A --------------------------------
(***************************************************************************)
(* serdes-ai-a2a: the HTTP handlers of server.rs, the broker, the storage  *)
(* of storage.rs and the workers of worker.rs, all running concurrently.   *)
(*                                                                         *)
(* A task lives in four places at once: its record in the storage, its     *)
(* copy in the queue, the copy its worker mutates and the snapshot a       *)
(* cancel handler took.  update_task overwrites the stored record with     *)
(* whichever copy its caller holds.                                        *)
(***************************************************************************)
EXTENDS Broker

CONSTANTS
  Cancellers,    \* cancel requests that may be in flight
  AllowShutdown, \* somebody may shut the broker down
  AllowClear,    \* somebody may clear the broker
  Stoppable,     \* the workers whose handle may be stopped or dropped
  AllowHangUp    \* a client may disconnect, which drops its handler

VARIABLES
  storage,   \* the stored record of each task, None before save_task
  submit,    \* where the handler that submits a task is
  local,     \* the copy of the task a worker has taken
  bound,     \* the worker holds the token of the map, not a fresh one
  stopping,  \* workers with a message (or a closed sender) in shutdown_rx
  cancel,    \* where each cancel request is
  target,    \* the task it is about
  snapshot   \* the record its handler read

serverVars == <<submit, cancel, target, snapshot>>
workerVars == <<local, bound, stopping>>
vars == <<brokerVars, pc, holding, storage, serverVars, workerVars>>

----------------------------------------------------------------------------
(* A task, as far as anybody tells its copies apart: its status, whether   *)
(* the agent's message was added, whether an error was set.                *)

TaskStatus == {"pending", "running", "completed", "failed", "cancelled"}

Completed == {"completed", "failed", "cancelled"}

Task == [status: TaskStatus, replied: BOOLEAN, error: BOOLEAN]

NewTask == [status |-> "pending", replied |-> FALSE, error |-> FALSE]

ASSUME A2AAssumption ==
  /\ {AllowShutdown, AllowClear, AllowHangUp} \subseteq BOOLEAN
  /\ Stoppable \subseteq Workers
  /\ None \notin Task

Init ==
  /\ BrokerInit
  /\ storage = [t \in Tasks |-> None]
  /\ submit = [t \in Tasks |-> "new"]
  /\ local = [w \in Workers |-> NewTask]
  /\ bound = [w \in Workers |-> FALSE]
  /\ stopping = {}
  /\ cancel = [c \in Cancellers |-> "idle"]
  /\ target = [c \in Cancellers |-> None]
  /\ snapshot = [c \in Cancellers |-> NewTask]

Update(t, task) == storage' = [storage EXCEPT ![t] = task]

Handler(t, place) == submit' = [submit EXCEPT ![t] = place]

Canceller(c, place) == cancel' = [cancel EXCEPT ![c] = place]

----------------------------------------------------------------------------
(* POST /tasks: save, then submit to the broker *)

SaveTask(t) ==
  /\ submit[t] = "new"
  /\ Update(t, NewTask)
  /\ Handler(t, "saved")
  /\ UNCHANGED <<brokerVars, pc, holding, workerVars, cancel, target, snapshot>>

(* A refused task stays in the storage, pending. *)
CheckOpen(t) ==
  /\ submit[t] = "saved"
  /\ Handler(t, IF down THEN "refused" ELSE "open")
  /\ UNCHANGED <<brokerVars, pc, holding, storage, workerVars, cancel, target, snapshot>>

SubmitTask(t) ==
  /\ submit[t] = "open"
  /\ Enqueue(t)
  /\ Handler(t, "queued")
  /\ UNCHANGED <<storage, workerVars, cancel, target, snapshot>>

RefuseFull(t) ==
  /\ submit[t] = "open"
  /\ Full
  /\ Handler(t, "refused")
  /\ UNCHANGED <<brokerVars, pc, holding, storage, workerVars, cancel, target, snapshot>>

(* The client learns the id of its task now, and not before. *)
AcceptTask(t) ==
  /\ submit[t] = "queued"
  /\ AnnounceTask
  /\ Handler(t, "accepted")
  /\ UNCHANGED <<storage, workerVars, cancel, target, snapshot>>

----------------------------------------------------------------------------
(* The worker: wait_for_task, then process_task *)

TakeTask(w) ==
  /\ WaitForTask(w)
  /\ local' = [local EXCEPT ![w] = NewTask]
  /\ UNCHANGED <<storage, serverVars, bound, stopping>>

GetToken(w) ==
  /\ pc[w] = "taken"
  /\ bound' = [bound EXCEPT ![w] = holding[w] \in tokens]
  /\ Goto(w, "start")
  /\ UNCHANGED <<brokerVars, holding, storage, serverVars, local, stopping>>

(* Mutant: the running task is not stored. *)
StartUnsaved(w) ==
  /\ pc[w] = "start"
  /\ local' = [local EXCEPT ![w].status = "running"]
  /\ Goto(w, "running")
  /\ UNCHANGED <<brokerVars, holding, storage, serverVars, bound, stopping>>

(* The copy that was queued is pending whatever the stored record says. *)
StartTask(w) ==
  /\ pc[w] = "start"
  /\ local' = [local EXCEPT ![w].status = "running"]
  /\ Update(holding[w], local'[w])
  /\ Goto(w, "running")
  /\ UNCHANGED <<brokerVars, holding, serverVars, bound, stopping>>

Signalled(w) == bound[w] /\ holding[w] \in signalled

(* The select! between the agent and the token. *)
AbortAgent(w) ==
  /\ pc[w] = "running"
  /\ Signalled(w)
  /\ local' = [local EXCEPT ![w].status = "cancelled"]
  /\ Goto(w, "saving")
  /\ UNCHANGED <<brokerVars, holding, storage, serverVars, bound, stopping>>

(* Mutant: the token is not looked at again when the agent is done. *)
AgentSucceedsAnyway(w) ==
  /\ pc[w] = "running"
  /\ local' = [local EXCEPT ![w].status = "completed", ![w].replied = TRUE]
  /\ Goto(w, "saving")
  /\ UNCHANGED <<brokerVars, holding, storage, serverVars, bound, stopping>>

AgentSucceeds(w) ==
  /\ pc[w] = "running"
  /\ local' = IF Signalled(w)
              THEN [local EXCEPT ![w].status = "cancelled"]
              ELSE [local EXCEPT ![w].status = "completed", ![w].replied = TRUE]
  /\ Goto(w, "saving")
  /\ UNCHANGED <<brokerVars, holding, storage, serverVars, bound, stopping>>

AgentFails(w) ==
  /\ pc[w] = "running"
  /\ local' = [local EXCEPT ![w].status = "failed", ![w].error = TRUE]
  /\ Goto(w, "saving")
  /\ UNCHANGED <<brokerVars, holding, storage, serverVars, bound, stopping>>

SaveResult(w) ==
  /\ pc[w] = "saving"
  /\ Update(holding[w], local[w])
  /\ holding' = [holding EXCEPT ![w] = None]
  /\ Goto(w, "check")
  /\ UNCHANGED <<brokerVars, serverVars, workerVars>>

(* shutdown_rx is looked at only while the worker waits for a task. *)
StopWorker(w) ==
  /\ w \in stopping
  /\ DropWait(w)
  /\ UNCHANGED <<storage, serverVars, workerVars>>

----------------------------------------------------------------------------
(* POST /tasks/:id/cancel *)

ReadTask(c) ==
  /\ cancel[c] = "idle"
  /\ \E t \in Tasks :
       /\ submit[t] = "accepted"
       /\ target' = [target EXCEPT ![c] = t]
       /\ snapshot' = [snapshot EXCEPT ![c] = storage[t]]
       /\ Canceller(c, IF storage[t].status \in Completed THEN "conflict" ELSE "read")
  /\ UNCHANGED <<brokerVars, pc, holding, storage, workerVars, submit>>

Dequeue(c) ==
  /\ cancel[c] = "read"
  /\ RemoveFromQueue(target[c])
  /\ Canceller(c, "dequeued")
  /\ UNCHANGED <<storage, workerVars, submit, target, snapshot>>

Signal(c) ==
  /\ cancel[c] = "dequeued"
  /\ SignalToken(target[c])
  /\ Canceller(c, "signalled")
  /\ UNCHANGED <<storage, workerVars, submit, target, snapshot>>

(* Mutant: the record is read again, its status is not. *)
SaveCancelledAnew(c) ==
  /\ cancel[c] = "signalled"
  /\ Update(target[c], [storage[target[c]] EXCEPT !.status = "cancelled"])
  /\ Canceller(c, "done")
  /\ UNCHANGED <<brokerVars, pc, holding, workerVars, submit, target, snapshot>>

(* task.cancel() is asked of the snapshot, which is not completed. *)
SaveCancelled(c) ==
  /\ cancel[c] = "signalled"
  /\ Update(target[c], [snapshot[c] EXCEPT !.status = "cancelled"])
  /\ Canceller(c, "done")
  /\ UNCHANGED <<brokerVars, pc, holding, workerVars, submit, target, snapshot>>

----------------------------------------------------------------------------
(* The environment *)

ShutDown ==
  /\ AllowShutdown
  /\ ~down
  /\ Shutdown
  /\ UNCHANGED <<storage, serverVars, workerVars>>

ClearBroker ==
  /\ AllowClear
  /\ queue # <<>> \/ tokens # {}
  /\ Clear
  /\ UNCHANGED <<storage, serverVars, workerVars>>

(* WorkerHandle::stop, or the handle is dropped and recv() returns None. *)
StopSignal(w) ==
  /\ w \in Stoppable \ stopping
  /\ stopping' = stopping \cup {w}
  /\ UNCHANGED <<brokerVars, pc, holding, storage, serverVars, local, bound>>

(* The server drops a handler at an await when its client disconnects. *)
HangUp ==
  /\ AllowHangUp
  /\ \/ \E t \in Tasks : submit[t] \in {"saved", "open"} /\ Handler(t, "gone")
                          /\ UNCHANGED cancel
     \/ \E c \in Cancellers : cancel[c] \in {"read", "dequeued", "signalled"}
                               /\ Canceller(c, "gone") /\ UNCHANGED submit
  /\ UNCHANGED <<brokerVars, pc, holding, storage, workerVars, target, snapshot>>

----------------------------------------------------------------------------
SubmitHandler(t) == CheckOpen(t) \/ SubmitTask(t) \/ RefuseFull(t) \/ AcceptTask(t)

Work(w) ==
  \/ TakeTask(w)
  \/ GetToken(w)
  \/ StartTask(w)
  \/ AbortAgent(w)
  \/ AgentSucceeds(w)
  \/ AgentFails(w)
  \/ SaveResult(w)

CancelHandler(c) == Dequeue(c) \/ Signal(c) \/ SaveCancelled(c)

Next ==
  \/ \E t \in Tasks : SaveTask(t) \/ SubmitHandler(t)
  \/ \E w \in Workers : Work(w) \/ StopWorker(w) \/ StopSignal(w)
  \/ \E c \in Cancellers : ReadTask(c) \/ CancelHandler(c)
  \/ ShutDown
  \/ ClearBroker
  \/ HangUp

Spec == Init /\ [][Next]_vars

(* Handlers and workers are tokio tasks, polled until they are done; the   *)
(* agent's run returns.  Requests, stops and shutdowns need never come.    *)
Fairness ==
  /\ \A t \in Tasks : WF_vars(SubmitHandler(t))
  /\ \A w \in Workers : WF_vars(Work(w)) /\ WF_vars(StopWorker(w))
  /\ \A c \in Cancellers : WF_vars(CancelHandler(c))

FairSpec == Spec /\ Fairness

----------------------------------------------------------------------------
(* What the service promises *)

TypeOK ==
  /\ BrokerTypeOK
  /\ pc \in [Workers -> {"check", "poll", "register", "waiting", "stopped",
                         "taken", "start", "running", "saving"}]
  /\ storage \in [Tasks -> Task \cup {None}]
  /\ submit \in [Tasks -> {"new", "saved", "open", "queued", "accepted", "refused", "gone"}]
  /\ local \in [Workers -> Task]
  /\ bound \in [Workers -> BOOLEAN]
  /\ stopping \subseteq Workers
  /\ cancel \in [Cancellers -> {"idle", "read", "dequeued", "signalled", "done",
                                "conflict", "gone"}]
  /\ target \in [Cancellers -> Tasks \cup {None}]
  /\ snapshot \in [Cancellers -> Task]

StatusIn(t, statuses) == storage[t] # None /\ storage[t].status \in statuses

Working(w) == pc[w] \in {"taken", "start", "running", "saving"}

Cancelling(c) == cancel[c] \in {"read", "dequeued", "signalled"}

(* A task is in one place: queued once, or in the hands of one worker, and *)
(* not both, whatever is cancelled, stopped or shut down meanwhile; so no  *)
(* task is executed twice.                                                 *)
OneOwner ==
  /\ \A i, j \in DOMAIN queue : queue[i] = queue[j] => i = j
  /\ \A w \in Workers : Working(w) => holding[w] \notin Queued
  /\ \A v, w \in Workers :
       (Working(v) /\ Working(w) /\ holding[v] = holding[w]) => v = w

(* The queued copy of a task never differs from its stored record, and a   *)
(* task that was cancelled is no longer queued, so that process_task may   *)
(* start from the copy: the check for a cancelled copy at its top is never *)
(* needed.                                                                 *)
QueuedTaskIsPending ==
  \A t \in Queued : storage[t] = NewTask /\ t \notin signalled

(* An accepted task that is not over is on its way: queued, with a worker, *)
(* or about to be marked as cancelled.  A clear(), which also drops the    *)
(* token of the task, loses it by design, and a client that hangs up       *)
(* during a cancellation may leave it behind.                              *)
NoTaskLost ==
  \A t \in Tasks :
    (submit[t] = "accepted" /\ t \in tokens /\ ~StatusIn(t, Completed))
      => \/ t \in Queued
         \/ \E w \in Workers : Working(w) /\ holding[w] = t
         \/ \E c \in Cancellers : (Cancelling(c) \/ cancel[c] = "gone") /\ target[c] = t

(* Whole records are overwritten, so a record read by a client is one that *)
(* somebody meant: a completed task has its reply, a failed one its error, *)
(* and no other has either; though a cancellation may have wiped a reply.  *)
RecordIsConsistent ==
  \A t \in Tasks : storage[t] # None =>
    /\ storage[t].replied <=> storage[t].status = "completed"
    /\ storage[t].error <=> storage[t].status = "failed"

(* Wherever the handlers and workers are, a task has one owner, is pending *)
(* while it is queued, and is never lost.                                  *)
TasksAccounted == TypeOK /\ OneOwner /\ QueuedTaskIsPending /\ NoTaskLost

(* What excuses a task from ending: the broker is shut down, a worker was  *)
(* told to stop, or a client hung up in the middle of a cancellation.      *)
Disturbed ==
  \/ down
  \/ stopping # {}
  \/ \E c \in Cancellers : cancel[c] = "gone"

(* Every accepted task ends, as long as the workers run and nobody clears  *)
(* the broker: no interleaving of submissions, polls, wakeups and          *)
(* cancellations leaves it waiting.                                        *)
AcceptedTaskEnds ==
  \A t \in Tasks :
    submit[t] = "accepted" ~> (StatusIn(t, Completed) \/ t \notin tokens \/ Disturbed)

(* A task whose token was signalled before its agent was done comes to     *)
(* rest as cancelled or failed, though its record may be running again for *)
(* a while; unless the client hangs up before its handler saves.           *)
SignalledTaskSettles ==
  \A t \in Tasks :
    (\E w \in Workers : pc[w] = "running" /\ holding[w] = t /\ Signalled(w))
      ~> []StatusIn(t, {"cancelled", "failed"})

(* The stored status of every task, and the tasks whose record a cancel    *)
(* handler read and is about to overwrite, or has.                         *)
AbstractStatus ==
  [t \in Tasks |-> IF storage[t] = None THEN "unsaved" ELSE storage[t].status]

AskedToCancel ==
  {target[c] : c \in {d \in Cancellers : cancel[d] \notin {"idle", "conflict"}}}

Lifecycle == INSTANCE TaskLifecycle WITH status <- AbstractStatus, asked <- AskedToCancel

(* The stored records follow the documented life of a task, and stray from *)
(* it only where TaskLifecycle says a cancellation may lead them.          *)
ImplementsLifecycle == Lifecycle!Spec

(* broker.rs:124: shutdown() "will cause `wait_for_task` to return `None`  *)
(* for all waiting workers", also the one that has looked at the flag and  *)
(* not registered for a wakeup yet.                                        *)
ShutdownEndsWaits ==
  \A w \in Workers : (down /\ pc[w] \in {"check", "poll", "register", "waiting"})
                       ~> (pc[w] = "stopped" \/ Working(w))
=============================================================================
