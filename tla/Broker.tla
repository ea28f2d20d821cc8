------------------------------- MODULE Broker -------------------------------
(***************************************************************************)
(* serdes-ai-a2a/src/broker.rs: InMemoryBroker, a FIFO of tasks behind a   *)
(* mutex, a tokio Notify that wakes the workers waiting in wait_for_task,  *)
(* a shutdown flag behind a mutex of its own and the cancellation tokens   *)
(* behind a third.  Each critical section is one action; the locks are     *)
(* released between them, and that is where tasks and workers interleave.  *)
(*                                                                         *)
(* The Notify is modelled as the code uses it: notify_one wakes the waiter *)
(* that has waited longest or, when there is none, leaves one permit (a    *)
(* second one is lost); notify_waiters wakes those waiting now and leaves  *)
(* nothing behind.                                                         *)
(***************************************************************************)
EXTENDS Naturals, Sequences, FiniteSets, Retain

CONSTANTS
  Tasks,    \* ids of the tasks that may be submitted
  Workers,  \* the workers that call wait_for_task
  MaxSize,  \* max_size of the queue, None for an unbounded one
  None      \* Rust's Option::None

ASSUME BrokerAssumption ==
  /\ None \notin Nat \cup Tasks
  /\ MaxSize \in Nat \cup {None}

VARIABLES
  queue,      \* ids of the queued tasks: their copies are all still pending
  permit,     \* the permit stored in the Notify
  waiters,    \* workers registered with the Notify, first come first
  woken,      \* how the Notify woke a worker that has not run since
  down,       \* the shutdown flag
  tokens,     \* tasks with a token in the map
  signalled,  \* tasks whose token was cancelled
  pc,         \* where each worker is
  holding     \* the task each worker has taken from the queue

brokerVars == <<queue, permit, waiters, woken, down, tokens, signalled>>

BrokerInit ==
  /\ queue = <<>>
  /\ permit = FALSE
  /\ waiters = <<>>
  /\ woken = [w \in Workers |-> "no"]
  /\ down = FALSE
  /\ tokens = {}
  /\ signalled = {}
  /\ pc = [w \in Workers |-> "check"]
  /\ holding = [w \in Workers |-> None]

BrokerTypeOK ==
  /\ queue \in Seq(Tasks)
  /\ MaxSize # None => Len(queue) <= MaxSize
  /\ permit \in BOOLEAN
  /\ waiters \in Seq(Workers)
  /\ woken \in [Workers -> {"no", "one", "all"}]
  /\ down \in BOOLEAN
  /\ tokens \subseteq Tasks
  /\ signalled \subseteq Tasks
  /\ holding \in [Workers -> Tasks \cup {None}]

Queued == {queue[i] : i \in DOMAIN queue}

Goto(w, place) == pc' = [pc EXCEPT ![w] = place]

----------------------------------------------------------------------------
(* Notify *)

NotifyOne ==
  IF waiters = <<>>
  THEN permit' = TRUE /\ UNCHANGED <<waiters, woken>>
  ELSE /\ woken' = [woken EXCEPT ![Head(waiters)] = "one"]
       /\ waiters' = Tail(waiters)
       /\ UNCHANGED permit

NotifyWaiters ==
  /\ woken' = [w \in Workers |->
                IF \E i \in DOMAIN waiters : waiters[i] = w THEN "all" ELSE woken[w]]
  /\ waiters' = <<>>
  /\ UNCHANGED permit

----------------------------------------------------------------------------
(* submit_task, in three critical sections: the shutdown check is done     *)
(* with its own lock, the notification comes after the queue lock.         *)

Full == MaxSize # None /\ Len(queue) >= MaxSize

(* Mutant: a full queue makes room by dropping its oldest task. *)
EnqueueDroppingOldest(t) ==
  /\ queue' = Append(IF Full THEN Tail(queue) ELSE queue, t)
  /\ tokens' = tokens \cup {t}
  /\ UNCHANGED <<permit, waiters, woken, down, signalled, pc, holding>>

Enqueue(t) ==
  /\ ~Full
  /\ queue' = Append(queue, t)
  /\ tokens' = tokens \cup {t}
  /\ UNCHANGED <<permit, waiters, woken, down, signalled, pc, holding>>

(* Mutant: notify_waiters() instead of notify_one(). *)
AnnounceToWaiters ==
  /\ NotifyWaiters
  /\ UNCHANGED <<queue, down, tokens, signalled, pc, holding>>

AnnounceTask ==
  /\ NotifyOne
  /\ UNCHANGED <<queue, down, tokens, signalled, pc, holding>>

----------------------------------------------------------------------------
(* wait_for_task *)

(* A worker whose wait returns None leaves its loop. *)
CheckShutdown(w) ==
  /\ pc[w] = "check"
  /\ Goto(w, IF down THEN "stopped" ELSE "poll")
  /\ UNCHANGED <<brokerVars, holding>>

PollTask(w) ==
  /\ pc[w] = "poll"
  /\ queue # <<>>
  /\ holding' = [holding EXCEPT ![w] = Head(queue)]
  /\ queue' = Tail(queue)
  /\ Goto(w, "taken")
  /\ UNCHANGED <<permit, waiters, woken, down, tokens, signalled>>

PollEmpty(w) ==
  /\ pc[w] = "poll"
  /\ queue = <<>>
  /\ Goto(w, "register")
  /\ UNCHANGED <<brokerVars, holding>>

(* notified().await: takes the permit at once or queues up for a wakeup. *)
AwaitNotify(w) ==
  /\ pc[w] = "register"
  /\ IF permit
     THEN permit' = FALSE /\ Goto(w, "check") /\ UNCHANGED waiters
     ELSE waiters' = Append(waiters, w) /\ Goto(w, "waiting") /\ UNCHANGED permit
  /\ UNCHANGED <<queue, woken, down, tokens, signalled, holding>>

Wake(w) ==
  /\ pc[w] = "waiting"
  /\ woken[w] # "no"
  /\ woken' = [woken EXCEPT ![w] = "no"]
  /\ Goto(w, "check")
  /\ UNCHANGED <<queue, permit, waiters, down, tokens, signalled, holding>>

WaitForTask(w) ==
  CheckShutdown(w) \/ PollTask(w) \/ PollEmpty(w) \/ AwaitNotify(w) \/ Wake(w)

(* The worker drops the wait_for_task future.  A Notified that was woken   *)
(* by notify_one and not polled since passes its wakeup on.                *)
DropWait(w) ==
  /\ pc[w] \in {"check", "poll", "register", "waiting"}
  /\ Goto(w, "stopped")
  /\ IF pc[w] = "waiting" /\ woken[w] = "one"
     THEN IF waiters = <<>>
          THEN /\ permit' = TRUE
               /\ woken' = [woken EXCEPT ![w] = "no"]
               /\ UNCHANGED waiters
          ELSE /\ woken' = [woken EXCEPT ![w] = "no", ![Head(waiters)] = "one"]
               /\ waiters' = Tail(waiters)
               /\ UNCHANGED permit
     ELSE /\ woken' = [woken EXCEPT ![w] = "no"]
          /\ waiters' = Without(waiters, w)
          /\ UNCHANGED permit
  /\ UNCHANGED <<queue, down, tokens, signalled, holding>>

----------------------------------------------------------------------------
(* cancel_task, in two critical sections *)

RemoveFromQueue(t) ==
  /\ queue' = Without(queue, t)
  /\ UNCHANGED <<permit, waiters, woken, down, tokens, signalled, pc, holding>>

SignalToken(t) ==
  /\ signalled' = IF t \in tokens THEN signalled \cup {t} ELSE signalled
  /\ UNCHANGED <<queue, permit, waiters, woken, down, tokens, pc, holding>>

----------------------------------------------------------------------------
(* shutdown and clear *)

Shutdown ==
  /\ down' = TRUE
  /\ NotifyWaiters
  /\ UNCHANGED <<queue, tokens, signalled, pc, holding>>

(* The queue lock is held while the tokens are dropped. *)
Clear ==
  /\ queue' = <<>>
  /\ tokens' = {}
  /\ UNCHANGED <<permit, waiters, woken, down, signalled, pc, holding>>
=============================================================================
