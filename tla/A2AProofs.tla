----------------------------- MODULE A2AProofs -----------------------------
(***************************************************************************)
(* Theorems about every A2A: whatever the tasks, the workers, the cancel   *)
(* requests, the size of the queue and who may disturb them.               *)
(***************************************************************************)
EXTENDS A2A, Integers, FiniteSetTheorems, WellFoundedInduction, TLAPS

----------------------------------------------------------------------------
(* Sequences *)

(* The order of the natural numbers, as a relation. *)
LEMMA NatOrder ==
  \E R : IsWellFoundedOn(R, Nat) /\ \A m, n \in Nat : <<n, m>> \in R <=> n < m
<1> DEFINE R == OpToRel(<, Nat)
<1>1. IsWellFoundedOn(R, Nat)
  BY NatLessThanWellFounded
<1>2. \A m, n \in Nat : <<n, m>> \in R <=> n < m
  BY DEF OpToRel
<1> HIDE DEF R
<1>3. QED
  BY <1>1, <1>2

(* A set of natural numbers has a least element.  An induction over data   *)
(* is the absence of a least counterexample.                               *)
LEMMA Least ==
  ASSUME NEW T, T \subseteq Nat, T # {}
  PROVE  \E m \in T : \A n \in T : m <= n
<1>1. PICK R : IsWellFoundedOn(R, Nat) /\ \A m, n \in Nat : <<n, m>> \in R <=> n < m
  BY NatOrder
<1>2. PICK m \in T : \A n \in T : <<n, m>> \notin R
  BY <1>1, WFMin
<1>3. ASSUME NEW n \in T
      PROVE  m <= n
  <2>1. m \in Nat /\ n \in Nat /\ <<n, m>> \notin R
    BY <1>2
  <2>2. QED
    BY <1>1, <2>1
<1>4. QED
  BY <1>3

(* The recursion of Only, one step of it, on a function f.                 *)
OnlyStep(s, kept, f, n) ==
  IF n = 0 THEN <<>>
  ELSE IF s[n] \in kept THEN Append(f[n - 1], s[n]) ELSE f[n - 1]

(* The recursion has a solution. *)
LEMMA OnlyExists ==
  ASSUME NEW s, NEW kept, NEW l \in Nat
  PROVE  \E f : f = [n \in 0 .. l |-> OnlyStep(s, kept, f, n)]
<1> DEFINE Solved(m) == \E f : f = [n \in 0 .. m |-> OnlyStep(s, kept, f, n)]
           Unsolved == {m \in Nat : ~ Solved(m)}
<1>1. SUFFICES ASSUME Unsolved # {} PROVE FALSE
  OBVIOUS
<1>2. PICK m \in Unsolved : \A n \in Unsolved : m <= n
  BY <1>1, Least
<1>3. Solved(0)
  <2> DEFINE f == [n \in 0 .. 0 |-> <<>>]
  <2>1. f = [n \in 0 .. 0 |-> OnlyStep(s, kept, f, n)]
    BY DEF OnlyStep
  <2>2. QED
    BY <2>1
<1>4. m \in Nat /\ m # 0
  BY <1>2, <1>3
<1>5. m - 1 \in Nat /\ m - 1 \notin Unsolved
  BY <1>2, <1>4
<1>6. PICK f : f = [n \in 0 .. m - 1 |-> OnlyStep(s, kept, f, n)]
  BY <1>5
<1> DEFINE g == [n \in 0 .. m |-> IF n = m THEN OnlyStep(s, kept, f, m) ELSE f[n]]
<1>7. \A n \in 0 .. m : OnlyStep(s, kept, g, n) = g[n]
  <2>1. \A n \in 0 .. m - 1 : n # m /\ g[n] = f[n]
    BY <1>4
  <2>2. \A n \in 0 .. m : n # 0 => n - 1 \in 0 .. m - 1
    BY <1>4
  <2>3. \A n \in 0 .. m : OnlyStep(s, kept, g, n) = OnlyStep(s, kept, f, n)
    BY <2>1, <2>2 DEF OnlyStep
  <2>4. \A n \in 0 .. m - 1 : f[n] = OnlyStep(s, kept, f, n)
    BY <1>6
  <2>5. \A n \in 0 .. m : n = m \/ n \in 0 .. m - 1
    BY <1>4
  <2>6. g[m] = OnlyStep(s, kept, f, m)
    BY <1>4
  <2>7. QED
    BY <2>1, <2>3, <2>4, <2>5, <2>6
<1>8. g = [n \in 0 .. m |-> OnlyStep(s, kept, g, n)]
  BY <1>7
<1>9. Solved(m)
  BY <1>8
<1>10. QED
  BY <1>2, <1>9

(* Only is the last value of a function that satisfies its recursion.      *)
LEMMA OnlyUnfolds ==
  ASSUME NEW S, NEW s \in Seq(S), NEW kept
  PROVE  \E f : /\ Only(s, kept) = f[Len(s)]
                /\ f[0] = <<>>
                /\ \A n \in 1 .. Len(s) :
                     f[n] = IF s[n] \in kept THEN Append(f[n - 1], s[n]) ELSE f[n - 1]
<1> DEFINE f == CHOOSE h : h = [n \in 0 .. Len(s) |-> OnlyStep(s, kept, h, n)]
<1>1. f = [n \in 0 .. Len(s) |-> OnlyStep(s, kept, f, n)]
  BY OnlyExists
<1>2. Only(s, kept) = f[Len(s)]
  BY DEF Only, OnlyStep
<1> HIDE DEF f
<1>3. \A n \in 0 .. Len(s) : f[n] = OnlyStep(s, kept, f, n)
  BY <1>1
<1>4. f[0] = <<>>
  BY <1>3 DEF OnlyStep
<1>5. ASSUME NEW n \in 1 .. Len(s)
      PROVE  f[n] = IF s[n] \in kept THEN Append(f[n - 1], s[n]) ELSE f[n - 1]
  <2>1. n \in 0 .. Len(s) /\ n # 0
    OBVIOUS
  <2>2. f[n] = OnlyStep(s, kept, f, n)
    BY <1>3, <2>1
  <2>3. QED
    BY <2>1, <2>2 DEF OnlyStep
<1>6. QED
  BY <1>2, <1>4, <1>5

Members(s) == {s[i] : i \in DOMAIN s}

Distinct(s) == \A i, j \in DOMAIN s : s[i] = s[j] => i = j

(* A sequence that loses its head.                                         *)
LEMMA TailMembers ==
  ASSUME NEW S, NEW s \in Seq(S), s # <<>>
  PROVE  /\ Head(s) \in S
         /\ Tail(s) \in Seq(S)
         /\ Len(Tail(s)) = Len(s) - 1
         /\ Members(s) = Members(Tail(s)) \cup {Head(s)}
         /\ Distinct(s) => Distinct(Tail(s)) /\ Head(s) \notin Members(Tail(s))
<1>1. /\ Head(s) \in S /\ Head(s) = s[1]
      /\ Tail(s) \in Seq(S)
      /\ Len(Tail(s)) = Len(s) - 1
      /\ \A i \in 1 .. Len(s) - 1 : Tail(s)[i] = s[i + 1]
      /\ Len(s) \in Nat \ {0}
  OBVIOUS
<1>2. Members(s) \subseteq Members(Tail(s)) \cup {Head(s)}
  <2>1. SUFFICES ASSUME NEW i \in 1 .. Len(s), i # 1
                 PROVE  s[i] \in Members(Tail(s))
    BY <1>1 DEF Members
  <2>2. i - 1 \in DOMAIN Tail(s) /\ Tail(s)[i - 1] = s[i]
    BY <1>1, <2>1
  <2>3. QED
    BY <2>2 DEF Members
<1>3. Members(Tail(s)) \cup {Head(s)} \subseteq Members(s)
  BY <1>1 DEF Members
<1>4. ASSUME Distinct(s)
      PROVE  Distinct(Tail(s)) /\ Head(s) \notin Members(Tail(s))
  BY <1>1, <1>4 DEF Distinct, Members
<1>5. QED
  BY <1>1, <1>2, <1>3, <1>4

(* A sequence that gets an element more.                                   *)
LEMMA AppendMembers ==
  ASSUME NEW S, NEW s \in Seq(S), NEW e \in S
  PROVE  /\ Append(s, e) \in Seq(S)
         /\ Len(Append(s, e)) = Len(s) + 1
         /\ Members(Append(s, e)) = Members(s) \cup {e}
         /\ Distinct(s) /\ e \notin Members(s) => Distinct(Append(s, e))
<1>1. /\ Append(s, e) \in Seq(S)
      /\ Len(Append(s, e)) = Len(s) + 1
      /\ \A i \in DOMAIN s : Append(s, e)[i] = s[i]
      /\ Append(s, e)[Len(s) + 1] = e
      /\ DOMAIN Append(s, e) = DOMAIN s \cup {Len(s) + 1}
  OBVIOUS
<1>2. QED
  BY <1>1 DEF Members, Distinct

(* retain keeps the elements of the set, and none twice if none was there  *)
(* twice.                                                                  *)
LEMMA OnlyMembers ==
  ASSUME NEW S, NEW s \in Seq(S), NEW kept
  PROVE  /\ Only(s, kept) \in Seq(S)
         /\ Len(Only(s, kept)) <= Len(s)
         /\ Members(Only(s, kept)) = Members(s) \cap kept
         /\ Distinct(s) => Distinct(Only(s, kept))
<1>1. PICK f : /\ Only(s, kept) = f[Len(s)]
               /\ f[0] = <<>>
               /\ \A n \in 1 .. Len(s) :
                    f[n] = IF s[n] \in kept THEN Append(f[n - 1], s[n]) ELSE f[n - 1]
  BY OnlyUnfolds
<1> DEFINE upto(n) == {s[i] : i \in 1 .. n}
           Good(n) == /\ f[n] \in Seq(S) /\ Len(f[n]) <= n
                      /\ Members(f[n]) = upto(n) \cap kept
                      /\ Distinct(s) => Distinct(f[n])
           Bad == {n \in 0 .. Len(s) : ~ Good(n)}
<1>2. Good(0)
  <2>1. <<>> \in Seq(S) /\ Len(<<>>) = 0 /\ Members(<<>>) = {} /\ Distinct(<<>>)
    BY DEF Members, Distinct
  <2>2. upto(0) = {}
    OBVIOUS
  <2>3. QED
    BY <1>1, <2>1, <2>2
<1>3. ASSUME NEW n \in 1 .. Len(s), Good(n - 1)
      PROVE  Good(n)
  <2>1. upto(n) = upto(n - 1) \cup {s[n]} /\ s[n] \in S /\ Len(f[n - 1]) \in Nat /\ n \in Nat
    <3>1. 1 .. n = 1 .. n - 1 \cup {n} /\ n \in Nat /\ s[n] \in S
      OBVIOUS
    <3>2. QED
      BY <1>3, <3>1
  <2>2. CASE s[n] \in kept
    <3>1. f[n] = Append(f[n - 1], s[n])
      BY <1>1, <2>2
    <3>2. Distinct(s) => s[n] \notin Members(f[n - 1])
      <4>1. Distinct(s) => \A i \in 1 .. n - 1 : s[i] # s[n]
        BY DEF Distinct
      <4>2. QED
        BY <1>3, <4>1
    <3> HIDE DEF upto
    <3>3. f[n] \in Seq(S) /\ Len(f[n]) <= n
      BY <1>3, <2>1, <3>1
    <3>4. Members(f[n]) = Members(f[n - 1]) \cup {s[n]}
      BY <1>3, <2>1, <3>1, AppendMembers
    <3>5. Distinct(s) => Distinct(f[n])
      BY <1>3, <2>1, <3>1, <3>2, AppendMembers
    <3>6. QED
      BY <1>3, <2>1, <2>2, <3>3, <3>4, <3>5
  <2>3. CASE s[n] \notin kept
    <3>1. f[n] = f[n - 1]
      BY <1>1, <2>3
    <3> HIDE DEF upto
    <3>2. QED
      BY <1>3, <2>1, <2>3, <3>1
  <2>4. QED
    BY <2>2, <2>3
<1> HIDE DEF Good
<1>4. Bad = {}
  <2>1. SUFFICES ASSUME Bad # {} PROVE FALSE
    OBVIOUS
  <2>2. PICK n \in Bad : \A m \in Bad : n <= m
    <3>1. Bad \subseteq Nat
      OBVIOUS
    <3>2. QED
      BY <2>1, <3>1, Least
  <2>3. n \in 1 .. Len(s) /\ n - 1 \in 0 .. Len(s)
    BY <1>2, <2>2
  <2>4. Good(n - 1)
    BY <2>2, <2>3
  <2>5. QED
    BY <1>3, <2>2, <2>3, <2>4
<1>5. Good(Len(s))
  BY <1>4
<1>6. Members(s) = upto(Len(s))
  BY DEF Members
<1>7. QED
  BY <1>1, <1>5, <1>6 DEF Good

(* The same of one that keeps every element but one.                       *)
LEMMA WithoutMembers ==
  ASSUME NEW S, NEW s \in Seq(S), NEW x
  PROVE  /\ Without(s, x) \in Seq(S)
         /\ Len(Without(s, x)) <= Len(s)
         /\ Members(Without(s, x)) = Members(s) \ {x}
         /\ Distinct(s) => Distinct(Without(s, x))
<1>1. Without(s, x) = Only(s, Members(s) \ {x})
  BY DEF Without, Members
<1>2. Members(s) \cap (Members(s) \ {x}) = Members(s) \ {x}
  OBVIOUS
<1>3. QED
  BY <1>1, <1>2, OnlyMembers

----------------------------------------------------------------------------
(* The invariant *)

(* The handler that submitted the task has put it into the queue. *)
Submitted(t) == submit[t] \in {"queued", "accepted"}

(* A task that is queued, that a worker has taken, or that is about to be  *)
(* marked as cancelled.                                                    *)
OnItsWay(t) ==
  \/ t \in Queued
  \/ \E w \in Workers : Working(w) /\ holding[w] = t
  \/ \E c \in Cancellers : (Cancelling(c) \/ cancel[c] = "gone") /\ target[c] = t

(* What the place of a task's handler says of its record: saved first,     *)
(* untouched until the task is queued, and cancelled on demand only.       *)
TaskInv ==
  \A t \in Tasks :
    /\ submit[t] = "new" <=> storage[t] = None
    /\ submit[t] \in {"saved", "open", "refused", "gone"} => storage[t] = NewTask
    /\ t \in Queued => Submitted(t) /\ storage[t] = NewTask /\ t \notin signalled
    /\ t \in signalled \/ StatusIn(t, {"cancelled"}) => t \in AskedToCancel
    /\ (Submitted(t) /\ t \in tokens /\ ~StatusIn(t, Completed)) => OnItsWay(t)

(* What the place of a worker says of the task it has taken: its record is *)
(* where the worker left it unless it was cancelled meanwhile, and its     *)
(* copy is what the worker made of a new one.                              *)
WorkerInv ==
  \A w \in Workers : Working(w) =>
    /\ holding[w] \in Tasks
    /\ Submitted(holding[w])
    /\ pc[w] \in {"taken", "start"} => StatusIn(holding[w], {"pending", "cancelled"})
    /\ pc[w] \in {"running", "saving"} => StatusIn(holding[w], {"running", "cancelled"})
    /\ pc[w] = "running" => local[w] = [NewTask EXCEPT !.status = "running"]
    /\ pc[w] \in {"taken", "start"} => local[w] = NewTask
    /\ pc[w] = "saving" =>
         /\ local[w].status \in Completed
         /\ local[w].status = "cancelled" => holding[w] \in AskedToCancel
         /\ local[w].replied <=> local[w].status = "completed"
         /\ local[w].error <=> local[w].status = "failed"

(* What the place of a cancel request says of its task: it was accepted,   *)
(* has left the queue if the request has, and was not over when it was     *)
(* read.                                                                   *)
CancelInv ==
  \A c \in Cancellers :
    /\ cancel[c] # "idle" => target[c] \in Tasks /\ submit[target[c]] = "accepted"
    /\ cancel[c] \in {"dequeued", "signalled", "done"} => target[c] \notin Queued
    /\ Cancelling(c) =>
         /\ snapshot[c].status \in {"pending", "running"}
         /\ ~snapshot[c].replied
         /\ ~snapshot[c].error

Inv ==
  /\ TypeOK
  /\ OneOwner
  /\ TaskInv
  /\ WorkerInv
  /\ CancelInv
  /\ RecordIsConsistent

----------------------------------------------------------------------------
(* Types *)

(* A new task is a task and something. *)
LEMMA NewTaskType == NewTask \in Task /\ NewTask # None
<1>1. NewTask \in Task
  BY DEF NewTask, Task, TaskStatus
<1>2. QED
  BY <1>1, A2AAssumption

(* Nothing is queued, taken or saved at first. *)
LEMMA InvInit == Init => Inv
<1> SUFFICES ASSUME Init PROVE Inv
  OBVIOUS
<1> USE DEF Init, BrokerInit
<1>1. NewTask \in Task
  BY DEF NewTask, Task, TaskStatus
<1>2. BrokerTypeOK
  <2>1. queue \in Seq(Tasks) /\ Len(queue) = 0 /\ waiters \in Seq(Workers)
    OBVIOUS
  <2>2. MaxSize # None => Len(queue) <= MaxSize
    BY <2>1, BrokerAssumption
  <2>3. QED
    BY <2>1, <2>2 DEF BrokerTypeOK
<1>3. TypeOK
  BY <1>1, <1>2 DEF TypeOK
<1>4. Queued = {}
  BY DEF Queued
<1>5. OneOwner
  BY DEF OneOwner, Working
<1>6. TaskInv /\ WorkerInv /\ CancelInv /\ RecordIsConsistent
  BY <1>4 DEF TaskInv, WorkerInv, CancelInv, RecordIsConsistent, Submitted, StatusIn,
              Working, Cancelling
<1>7. QED
  BY <1>3, <1>5, <1>6 DEF Inv

(* A worker in wait_for_task. *)
InWait(w) == pc[w] \in {"check", "poll", "register", "waiting"}

(* The Notify only moves wakeups about. *)
LEMMA NotifyType ==
  ASSUME BrokerTypeOK
  PROVE  /\ NotifyOne \/ NotifyWaiters =>
              /\ permit' \in BOOLEAN
              /\ waiters' \in Seq(Workers)
              /\ woken' \in [Workers -> {"no", "one", "all"}]
         /\ \A w \in Workers : DropWait(w) =>
              /\ permit' \in BOOLEAN
              /\ waiters' \in Seq(Workers)
              /\ woken' \in [Workers -> {"no", "one", "all"}]
<1> USE DEF BrokerTypeOK
<1>1. waiters # <<>> => Head(waiters) \in Workers /\ Tail(waiters) \in Seq(Workers)
  OBVIOUS
<1>2. CASE NotifyOne
  BY <1>1, <1>2 DEF NotifyOne
<1>3. CASE NotifyWaiters
  <2>1. <<>> \in Seq(Workers)
    OBVIOUS
  <2>2. QED
    BY <1>3, <2>1 DEF NotifyWaiters
<1>4. ASSUME NEW w \in Workers, DropWait(w)
      PROVE  /\ permit' \in BOOLEAN
             /\ waiters' \in Seq(Workers)
             /\ woken' \in [Workers -> {"no", "one", "all"}]
  <2>1. Without(waiters, w) \in Seq(Workers)
    BY WithoutMembers
  <2>2. CASE pc[w] = "waiting" /\ woken[w] = "one"
    BY <1>1, <1>4, <2>2 DEF DropWait
  <2>3. CASE ~(pc[w] = "waiting" /\ woken[w] = "one")
    BY <1>4, <2>1, <2>3 DEF DropWait
  <2>4. QED
    BY <2>2, <2>3
<1>5. QED
  BY <1>2, <1>3, <1>4

(* Every action keeps the types; a worker at work has taken a task, which  *)
(* is what makes its record one that can be saved.                         *)
LEMMA TypeNext == Inv /\ [Next]_vars => TypeOK'
<1> SUFFICES ASSUME Inv, [Next]_vars PROVE TypeOK'
  OBVIOUS
<1> USE DEF Inv, TypeOK
<1>a. NewTask \in Task /\ BrokerTypeOK
  BY DEF NewTask, Task, TaskStatus
<1>b. \A task \in Task, status \in TaskStatus : [task EXCEPT !.status = status] \in Task
  BY DEF Task
<1>1. ASSUME NEW t \in Tasks, SaveTask(t) \/ CheckOpen(t) \/ RefuseFull(t)
      PROVE  TypeOK'
  BY <1>1, <1>a DEF SaveTask, CheckOpen, RefuseFull, Update, Handler, brokerVars, workerVars,
                    BrokerTypeOK
<1>2. ASSUME NEW t \in Tasks, SubmitTask(t)
      PROVE  TypeOK'
  <2>1. queue' \in Seq(Tasks) /\ Len(queue') = Len(queue) + 1
    BY <1>2, <1>a, AppendMembers DEF SubmitTask, Enqueue, BrokerTypeOK
  <2>2. MaxSize # None => Len(queue') <= MaxSize
    BY <1>2, <1>a, <2>1, BrokerAssumption DEF SubmitTask, Enqueue, Full, BrokerTypeOK
  <2>3. QED
    BY <1>2, <1>a, <2>1, <2>2 DEF SubmitTask, Enqueue, Handler, BrokerTypeOK, workerVars
<1>3. ASSUME NEW t \in Tasks, AcceptTask(t)
      PROVE  TypeOK'
  BY <1>3, <1>a, NotifyType DEF AcceptTask, AnnounceTask, Handler, BrokerTypeOK, workerVars
<1>4. ASSUME NEW w \in Workers, TakeTask(w)
      PROVE  TypeOK'
  <2>1. local' \in [Workers -> Task]
    BY <1>4, <1>a DEF TakeTask
  <2>2. CASE PollTask(w)
    <3>1. queue' \in Seq(Tasks) /\ Len(queue') = Len(queue) - 1 /\ Head(queue) \in Tasks
      BY <1>a, <2>2, TailMembers DEF PollTask, BrokerTypeOK
    <3>2. MaxSize # None => Len(queue') <= MaxSize
      BY <1>a, <2>2, <3>1, BrokerAssumption DEF BrokerTypeOK
    <3>3. QED
      BY <1>4, <1>a, <2>1, <2>2, <3>1, <3>2
         DEF TakeTask, PollTask, Goto, BrokerTypeOK, serverVars
  <2>3. CASE CheckShutdown(w) \/ PollEmpty(w) \/ Wake(w)
    BY <1>4, <1>a, <2>1, <2>3 DEF TakeTask, CheckShutdown, PollEmpty, Wake, Goto,
                                 BrokerTypeOK, serverVars, brokerVars
  <2>4. CASE AwaitNotify(w)
    <3>1. waiters' \in Seq(Workers) /\ permit' \in BOOLEAN
      <4>1. Append(waiters, w) \in Seq(Workers)
        BY <1>a DEF BrokerTypeOK
      <4>2. QED
        BY <1>a, <2>4, <4>1 DEF AwaitNotify, BrokerTypeOK
    <3>2. QED
      BY <1>4, <1>a, <2>1, <2>4, <3>1 DEF TakeTask, AwaitNotify, Goto, BrokerTypeOK, serverVars
  <2>5. QED
    BY <1>4, <2>2, <2>3, <2>4 DEF TakeTask, WaitForTask
<1>5. ASSUME NEW w \in Workers, GetToken(w)
      PROVE  TypeOK'
  BY <1>5, <1>a DEF GetToken, Goto, BrokerTypeOK, brokerVars, serverVars
<1>6. ASSUME NEW w \in Workers, AbortAgent(w) \/ AgentSucceeds(w) \/ AgentFails(w)
      PROVE  TypeOK'
  <2>1. local[w] \in Task
    OBVIOUS
  <2>2. local'[w] \in Task /\ local' = [local EXCEPT ![w] = local'[w]]
    BY <1>6, <2>1 DEF AbortAgent, AgentSucceeds, AgentFails, Task, TaskStatus
  <2>3. QED
    BY <1>6, <1>a, <2>2 DEF AbortAgent, AgentSucceeds, AgentFails, Goto, BrokerTypeOK,
                           brokerVars, serverVars
<1>7. ASSUME NEW w \in Workers, StartTask(w)
      PROVE  TypeOK'
  <2>1. holding[w] \in Tasks
    BY <1>7 DEF StartTask, WorkerInv, Working
  <2>2. local'[w] \in Task /\ local' = [local EXCEPT ![w] = local'[w]]
    BY <1>7 DEF StartTask, Task, TaskStatus
  <2>3. QED
    BY <1>7, <1>a, <2>1, <2>2 DEF StartTask, Update, Goto, BrokerTypeOK, brokerVars, serverVars
<1>8. ASSUME NEW w \in Workers, SaveResult(w)
      PROVE  TypeOK'
  <2>1. holding[w] \in Tasks
    BY <1>8 DEF SaveResult, WorkerInv, Working
  <2>2. QED
    BY <1>8, <1>a, <2>1 DEF SaveResult, Update, Goto, BrokerTypeOK, brokerVars, serverVars,
                           workerVars
<1>9. ASSUME NEW w \in Workers, StopWorker(w)
      PROVE  TypeOK'
  BY <1>9, <1>a, NotifyType DEF StopWorker, DropWait, Goto, BrokerTypeOK, serverVars, workerVars
<1>10. ASSUME NEW w \in Workers, StopSignal(w)
       PROVE  TypeOK'
  BY <1>10, <1>a DEF StopSignal, BrokerTypeOK, serverVars, brokerVars
<1>11. ASSUME NEW c \in Cancellers, ReadTask(c)
       PROVE  TypeOK'
  <2>1. PICK t \in Tasks :
          /\ submit[t] = "accepted"
          /\ target' = [target EXCEPT ![c] = t]
          /\ snapshot' = [snapshot EXCEPT ![c] = storage[t]]
          /\ cancel' \in {[cancel EXCEPT ![c] = "conflict"], [cancel EXCEPT ![c] = "read"]}
    BY <1>11 DEF ReadTask, Canceller
  <2>2. storage[t] \in Task
    BY <2>1 DEF TaskInv
  <2>3. QED
    BY <1>11, <1>a, <2>1, <2>2 DEF ReadTask, BrokerTypeOK, brokerVars, workerVars
<1>12. ASSUME NEW c \in Cancellers, Dequeue(c)
       PROVE  TypeOK'
  <2>1. queue' \in Seq(Tasks) /\ Len(queue') <= Len(queue)
    BY <1>12, <1>a, WithoutMembers DEF Dequeue, RemoveFromQueue, BrokerTypeOK
  <2>2. MaxSize # None => Len(queue') <= MaxSize
    BY <1>a, <2>1, BrokerAssumption DEF BrokerTypeOK
  <2>3. QED
    BY <1>12, <1>a, <2>1, <2>2 DEF Dequeue, RemoveFromQueue, Canceller, BrokerTypeOK, workerVars
<1>13. ASSUME NEW c \in Cancellers, Signal(c)
       PROVE  TypeOK'
  BY <1>13, <1>a DEF Signal, SignalToken, Canceller, BrokerTypeOK, workerVars
<1>14. ASSUME NEW c \in Cancellers, SaveCancelled(c)
       PROVE  TypeOK'
  <2>1. target[c] \in Tasks /\ [snapshot[c] EXCEPT !.status = "cancelled"] \in Task
    BY <1>14, <1>b DEF SaveCancelled, CancelInv, TaskStatus
  <2>2. QED
    BY <1>14, <1>a, <2>1 DEF SaveCancelled, Update, Canceller, BrokerTypeOK, brokerVars,
                            workerVars
<1>15. CASE ShutDown
  BY <1>15, <1>a, NotifyType DEF ShutDown, Shutdown, BrokerTypeOK, serverVars, workerVars
<1>16. CASE ClearBroker
  <2>1. queue' \in Seq(Tasks) /\ (MaxSize # None => Len(queue') <= MaxSize)
    <3>1. queue' = <<>> /\ Len(queue') = 0
      BY <1>16 DEF ClearBroker, Clear
    <3>2. QED
      BY <3>1, BrokerAssumption
  <2>2. QED
    BY <1>16, <1>a, <2>1 DEF ClearBroker, Clear, BrokerTypeOK, serverVars, workerVars
<1>17. CASE HangUp
  BY <1>17, <1>a DEF HangUp, Handler, Canceller, BrokerTypeOK, brokerVars, workerVars
<1>18. CASE UNCHANGED vars
  BY <1>18, <1>a DEF vars, BrokerTypeOK, brokerVars, serverVars, workerVars
<1>19. QED
  BY <1>1, <1>2, <1>3, <1>4, <1>5, <1>6, <1>7, <1>8, <1>9, <1>10, <1>11, <1>12, <1>13, <1>14,
     <1>15, <1>16, <1>17, <1>18 DEF Next, SubmitHandler, Work, CancelHandler

----------------------------------------------------------------------------
(* The owners of a task *)

(* No request to cancel is taken back. *)
LEMMA AskedGrows ==
  ASSUME Inv, [Next]_vars
  PROVE  AskedToCancel \subseteq AskedToCancel'
<1> SUFFICES ASSUME NEW c \in Cancellers, cancel[c] \notin {"idle", "conflict"}
             PROVE  cancel'[c] \notin {"idle", "conflict"} /\ target'[c] = target[c]
  BY DEF AskedToCancel
<1> USE DEF Inv, TypeOK
<1>1. CASE UNCHANGED <<cancel, target>>
  BY <1>1
<1>2. ASSUME NEW d \in Cancellers, ReadTask(d) \/ CancelHandler(d)
      PROVE  cancel'[c] \notin {"idle", "conflict"} /\ target'[c] = target[c]
  BY <1>2 DEF ReadTask, CancelHandler, Dequeue, Signal, SaveCancelled, Canceller
<1>3. CASE HangUp
  BY <1>3 DEF HangUp, Canceller
<1>4. QED
  BY <1>1, <1>2, <1>3 DEF Next, SaveTask, SubmitHandler, CheckOpen, SubmitTask, RefuseFull,
     AcceptTask, Work, TakeTask, GetToken, StartTask, AbortAgent, AgentSucceeds, AgentFails,
     SaveResult, StopWorker, StopSignal, ShutDown, ClearBroker, vars, serverVars

LEMMA QueuedMembers == Queued = Members(queue) /\ Queued' = Members(queue')
BY DEF Queued, Members

(* A new task is in nobody's hands until it is queued. *)
LEMMA SubmitKeepsInv ==
  ASSUME Inv, NEW t \in Tasks, SaveTask(t) \/ SubmitHandler(t)
  PROVE  OneOwner' /\ TaskInv' /\ WorkerInv' /\ CancelInv' /\ RecordIsConsistent'
<1> USE DEF Inv, TypeOK
<1>a. UNCHANGED <<pc, holding, local, cancel, target, snapshot, signalled>>
  BY DEF SaveTask, SubmitHandler, CheckOpen, SubmitTask, RefuseFull, AcceptTask, Enqueue,
         AnnounceTask, brokerVars, workerVars
<1>b. AskedToCancel' = AskedToCancel
  BY <1>a DEF AskedToCancel
<1>c. \A w \in Workers : Working(w)' = Working(w)
  BY <1>a DEF Working
<1>d. \A c \in Cancellers : Cancelling(c)' = Cancelling(c)
  BY <1>a DEF Cancelling
<1>1. CASE SaveTask(t)
  <2>1. /\ submit[t] = "new" /\ submit' = [submit EXCEPT ![t] = "saved"]
        /\ storage' = [storage EXCEPT ![t] = NewTask]
        /\ UNCHANGED <<queue, tokens>> /\ Queued' = Queued
    BY <1>1 DEF SaveTask, Handler, Update, Queued, brokerVars
  <2>2. t \notin Queued /\ t \notin AskedToCancel
    BY <2>1 DEF TaskInv, CancelInv, Submitted, AskedToCancel
  <2>3. OneOwner'
    BY <1>a, <1>c, <2>1 DEF OneOwner
  <2>4. TaskInv'
    <3>1. NewTask # None /\ NewTask.status # "cancelled"
      BY NewTaskType DEF NewTask
    <3>2. \A u \in Tasks : u # t => submit'[u] = submit[u] /\ storage'[u] = storage[u]
      BY <2>1
    <3>3. submit'[t] = "saved" /\ storage'[t] = NewTask /\ t \notin Queued' /\ t \notin signalled'
      BY <1>a, <2>1, <2>2 DEF TaskInv
    <3>4. QED
      BY <1>a, <1>b, <1>c, <1>d, <2>1, <3>1, <3>2, <3>3 DEF TaskInv, Submitted, StatusIn, OnItsWay
  <2>5. WorkerInv'
    BY <1>a, <1>b, <1>c, <2>1 DEF WorkerInv, Submitted, StatusIn
  <2>6. CancelInv'
    BY <1>a, <1>d, <2>1 DEF CancelInv
  <2>7. RecordIsConsistent'
    BY <2>1 DEF RecordIsConsistent, NewTask
  <2>8. QED
    BY <2>3, <2>4, <2>5, <2>6, <2>7
<1>2. CASE CheckOpen(t) \/ RefuseFull(t) \/ AcceptTask(t)
  <2>1. /\ \/ submit[t] \in {"saved", "open"} /\ submit'[t] \in {"open", "refused"}
           \/ submit[t] = "queued" /\ submit'[t] = "accepted"
        /\ submit' = [submit EXCEPT ![t] = submit'[t]]
        /\ UNCHANGED <<queue, tokens, storage>> /\ Queued' = Queued
    BY <1>2 DEF CheckOpen, RefuseFull, AcceptTask, AnnounceTask, Handler, Queued, brokerVars
  <2>3. OneOwner'
    BY <1>a, <1>c, <2>1 DEF OneOwner
  <2>4. TaskInv'
    BY <1>a, <1>b, <1>c, <1>d, <2>1 DEF TaskInv, Submitted, StatusIn, OnItsWay
  <2>5. WorkerInv'
    BY <1>a, <1>b, <1>c, <2>1 DEF WorkerInv, Submitted, StatusIn
  <2>6. CancelInv'
    BY <1>a, <1>d, <2>1 DEF CancelInv
  <2>7. RecordIsConsistent'
    BY <2>1 DEF RecordIsConsistent
  <2>8. QED
    BY <2>3, <2>4, <2>5, <2>6, <2>7
<1>3. CASE SubmitTask(t)
  <2>1. /\ submit[t] = "open" /\ submit' = [submit EXCEPT ![t] = "queued"]
        /\ queue' = Append(queue, t) /\ tokens' = tokens \cup {t}
        /\ UNCHANGED storage
    BY <1>3 DEF SubmitTask, Enqueue, Handler
  <2>2. t \notin Queued /\ storage[t] = NewTask
    BY <2>1 DEF TaskInv, Submitted
  <2>3. Queued' = Queued \cup {t} /\ (Distinct(queue) => Distinct(queue'))
    BY <2>1, <2>2, QueuedMembers, AppendMembers DEF BrokerTypeOK
  <2>4. \A w \in Workers : Working(w) => holding[w] # t
    BY <2>1 DEF WorkerInv, Submitted
  <2>5. \A c \in Cancellers : cancel[c] # "idle" => target[c] # t
    BY <2>1 DEF CancelInv
  <2>6. OneOwner'
    BY <1>a, <1>c, <2>3, <2>4 DEF OneOwner, Distinct
  <2>7. TaskInv'
    <3>1. t \notin signalled
      BY <2>5 DEF TaskInv, AskedToCancel
    <3>2. QED
      BY <1>a, <1>b, <1>c, <1>d, <2>1, <2>2, <2>3, <3>1
         DEF TaskInv, Submitted, StatusIn, OnItsWay
  <2>8. WorkerInv'
    BY <1>a, <1>b, <1>c, <2>1 DEF WorkerInv, Submitted, StatusIn
  <2>9. CancelInv'
    BY <1>a, <1>d, <2>1, <2>3, <2>5 DEF CancelInv
  <2>10. QED
    BY <2>1, <2>6, <2>7, <2>8, <2>9 DEF RecordIsConsistent
<1>4. QED
  BY <1>1, <1>2, <1>3 DEF SubmitHandler

(* A worker takes a task from the queue, so that no other has it; and what *)
(* it stores is what comes next in the life of the task.                   *)
LEMMA WorkKeepsInv ==
  ASSUME Inv, NEW w \in Workers, Work(w) \/ StopWorker(w) \/ StopSignal(w)
  PROVE  OneOwner' /\ TaskInv' /\ WorkerInv' /\ CancelInv' /\ RecordIsConsistent'
<1> USE DEF Inv, TypeOK
<1>a. UNCHANGED <<tokens, signalled, submit, cancel, target, snapshot>>
  BY DEF Work, TakeTask, WaitForTask, CheckShutdown, PollTask, PollEmpty, AwaitNotify, Wake,
         GetToken, StartTask, AbortAgent, AgentSucceeds, AgentFails, SaveResult, StopWorker,
         DropWait, StopSignal, brokerVars, serverVars
<1>b. AskedToCancel' = AskedToCancel
  BY <1>a DEF AskedToCancel
<1>c. \A c \in Cancellers : Cancelling(c)' = Cancelling(c)
  BY <1>a DEF Cancelling
<1>d. CancelInv' \/ Queued' # Queued
  BY <1>a, <1>c DEF CancelInv
<1>1. CASE PollTask(w) /\ TakeTask(w)
  <2> DEFINE t == Head(queue)
  <2>1. /\ pc[w] = "poll" /\ pc' = [pc EXCEPT ![w] = "taken"]
        /\ queue # <<>> /\ queue' = Tail(queue)
        /\ holding' = [holding EXCEPT ![w] = t]
        /\ local' = [local EXCEPT ![w] = NewTask]
        /\ UNCHANGED storage
    BY <1>1 DEF PollTask, TakeTask, Goto
  <2>2. /\ t \in Tasks /\ Queued = Queued' \cup {t}
        /\ Distinct(queue) => t \notin Queued' /\ Distinct(queue')
    BY <2>1, QueuedMembers, TailMembers DEF BrokerTypeOK
  <2> HIDE DEF t
  <2>3. t \notin Queued' /\ Distinct(queue')
    BY <2>2 DEF OneOwner, Distinct
  <2>4. \A v \in Workers : Working(v)' = (Working(v) \/ v = w)
    BY <2>1 DEF Working
  <2>5. OneOwner'
    <3>1. \A v \in Workers : Working(v) => v # w /\ holding'[v] = holding[v] /\ holding[v] # t
      BY <2>1, <2>2 DEF OneOwner, Working
    <3>2. holding'[w] = t
      BY <2>1, <2>2 DEF BrokerTypeOK
    <3>3. QED
      BY <2>2, <2>3, <2>4, <3>1, <3>2 DEF OneOwner, Distinct
  <2>6. Submitted(t) /\ storage[t] = NewTask
    BY <2>2 DEF TaskInv
  <2>7. TaskInv'
    <3>1. Working(w)' /\ holding'[w] = t
      BY <2>1, <2>2, <2>4 DEF BrokerTypeOK
    <3>2. \A v \in Workers : Working(v) => Working(v)' /\ holding'[v] = holding[v]
      BY <2>1, <2>4 DEF Working
    <3>3. \A u \in Tasks : OnItsWay(u) => OnItsWay(u)'
      BY <1>a, <1>c, <2>2, <3>1, <3>2 DEF OnItsWay
    <3>4. QED
      BY <1>a, <1>b, <2>1, <2>2, <3>3 DEF TaskInv, Submitted, StatusIn
  <2>8. WorkerInv'
    <3>1. StatusIn(t, {"pending", "cancelled"})
      BY <2>6, NewTaskType DEF StatusIn, NewTask
    <3>2. QED
      BY <1>a, <1>b, <2>1, <2>2, <2>4, <2>6, <3>1
         DEF WorkerInv, Submitted, StatusIn, BrokerTypeOK, Working
  <2>9. CancelInv'
    BY <1>a, <1>c, <2>2 DEF CancelInv
  <2>10. RecordIsConsistent'
    BY <2>1 DEF RecordIsConsistent
  <2>11. QED
    BY <2>5, <2>7, <2>8, <2>9, <2>10
<1>2. CASE /\ UNCHANGED <<queue, storage, holding>>
           /\ \/ ~Working(w) /\ ~Working(w)'
              \/ pc[w] = "taken" /\ pc'[w] \in {"taken", "start"} /\ local'[w] = local[w]
              \/ pc'[w] = pc[w] /\ local'[w] = local[w]
           /\ \A v \in Workers : v # w => pc'[v] = pc[v] /\ local'[v] = local[v]
  <2>1. Queued' = Queued /\ \A v \in Workers : Working(v)' = Working(v)
    BY <1>2 DEF Queued, Working
  <2>2. OneOwner'
    BY <1>2, <2>1 DEF OneOwner
  <2>3. TaskInv'
    BY <1>2, <1>a, <1>b, <1>c, <2>1 DEF TaskInv, Submitted, StatusIn, OnItsWay
  <2>4. WorkerInv'
    BY <1>2, <1>a, <1>b, <2>1 DEF WorkerInv, Submitted, StatusIn, Working
  <2>5. QED
    BY <1>2, <1>d, <2>1, <2>2, <2>3, <2>4 DEF RecordIsConsistent
<1>3. CASE TakeTask(w) /\ ~PollTask(w)
  <2>1. /\ UNCHANGED <<queue, storage, holding>>
        /\ ~Working(w) /\ ~Working(w)'
        /\ \A v \in Workers : v # w => pc'[v] = pc[v] /\ local'[v] = local[v]
    BY <1>3 DEF TakeTask, WaitForTask, CheckShutdown, PollEmpty, AwaitNotify, Wake, Goto,
                Working, brokerVars
  <2>2. QED
    BY <1>2, <2>1
<1>4. CASE GetToken(w) \/ StopWorker(w) \/ StopSignal(w)
  <2>1. /\ UNCHANGED <<queue, storage, holding, local>>
        /\ \/ ~Working(w) /\ ~Working(w)'
           \/ pc[w] = "taken" /\ pc'[w] = "start"
           \/ pc'[w] = pc[w]
        /\ \A v \in Workers : v # w => pc'[v] = pc[v]
    BY <1>4 DEF GetToken, StopWorker, DropWait, StopSignal, Goto, Working, brokerVars, workerVars
  <2>2. QED
    BY <1>2, <2>1
<1> DEFINE t == holding[w]
<1>5. CASE StartTask(w)
  <2>1. /\ pc[w] = "start" /\ pc' = [pc EXCEPT ![w] = "running"]
        /\ UNCHANGED <<queue, holding>>
        /\ Working(w) /\ t \in Tasks
        /\ local' = [local EXCEPT ![w].status = "running"]
        /\ storage' = [storage EXCEPT ![t] = local'[w]]
    BY <1>5 DEF StartTask, Update, Goto, WorkerInv, Working, brokerVars
  <2>2. local'[w] = [NewTask EXCEPT !.status = "running"]
    BY <2>1 DEF WorkerInv
  <2>3. /\ storage'[t] = local'[w]
        /\ storage'[t] # None
        /\ storage'[t].status = "running" /\ ~storage'[t].replied /\ ~storage'[t].error
        /\ \A u \in Tasks : u # t => storage'[u] = storage[u]
    <3>1. local'[w] \in Task
      BY <2>2, NewTaskType DEF Task, TaskStatus
    <3>2. local'[w] # None
      BY <3>1, A2AAssumption
    <3>3. QED
      BY <2>1, <2>2, <3>2 DEF NewTask
  <2>4. /\ Queued' = Queued /\ Submitted(t) /\ t \notin Queued
        /\ \A v \in Workers : Working(v)' = Working(v)
        /\ \A v \in Workers : Working(v) /\ v # w => holding[v] # t
    BY <2>1 DEF Queued, Working, WorkerInv, OneOwner
  <2>5. OneOwner'
    BY <2>1, <2>4 DEF OneOwner
  <2>6. TaskInv'
    <3>1. \A u \in Tasks : OnItsWay(u)' = OnItsWay(u)
      BY <1>a, <1>c, <2>1, <2>4 DEF OnItsWay
    <3>2. OnItsWay(t)
      BY <2>1 DEF OnItsWay
    <3>3. QED
      BY <1>a, <1>b, <2>1, <2>3, <2>4, <3>1, <3>2 DEF TaskInv, Submitted, StatusIn
  <2>7. WorkerInv'
    <3>1. \A v \in Workers : Working(v) => holding[v] \in Tasks
      BY DEF WorkerInv
    <3>2. QED
      BY <1>a, <1>b, <2>1, <2>2, <2>3, <2>4, <3>1 DEF WorkerInv, Submitted, StatusIn
  <2>8. RecordIsConsistent'
    BY <2>3 DEF RecordIsConsistent
  <2>9. QED
    BY <1>d, <2>4, <2>5, <2>6, <2>7, <2>8
<1>6. CASE AbortAgent(w) \/ AgentSucceeds(w) \/ AgentFails(w)
  <2>1. /\ pc[w] = "running" /\ pc' = [pc EXCEPT ![w] = "saving"]
        /\ UNCHANGED <<queue, holding, storage>>
        /\ Working(w) /\ t \in Tasks
        /\ \A v \in Workers : v # w => local'[v] = local[v]
    BY <1>6 DEF AbortAgent, AgentSucceeds, AgentFails, Goto, WorkerInv, Working, brokerVars
  <2>2. local[w] = [status |-> "running", replied |-> FALSE, error |-> FALSE]
    BY <2>1 DEF WorkerInv, NewTask
  <2>3. /\ local'[w].status \in Completed
        /\ local'[w].status = "cancelled" => t \in signalled
        /\ local'[w].replied <=> local'[w].status = "completed"
        /\ local'[w].error <=> local'[w].status = "failed"
    BY <1>6, <2>2 DEF AbortAgent, AgentSucceeds, AgentFails, Signalled, Completed
  <2>4. t \in signalled => t \in AskedToCancel
    BY <2>1 DEF TaskInv
  <2>5. Queued' = Queued /\ \A v \in Workers : Working(v)' = Working(v)
    BY <2>1 DEF Queued, Working
  <2>6. OneOwner'
    BY <2>1, <2>5 DEF OneOwner
  <2>7. TaskInv'
    BY <1>a, <1>b, <1>c, <2>1, <2>5 DEF TaskInv, Submitted, StatusIn, OnItsWay
  <2>8. WorkerInv'
    BY <1>a, <1>b, <2>1, <2>3, <2>4, <2>5 DEF WorkerInv, Submitted, StatusIn
  <2>9. QED
    BY <1>d, <2>1, <2>5, <2>6, <2>7, <2>8 DEF RecordIsConsistent
<1>7. CASE SaveResult(w)
  <2>1. /\ pc[w] = "saving" /\ pc' = [pc EXCEPT ![w] = "check"]
        /\ UNCHANGED <<queue, local>>
        /\ Working(w) /\ t \in Tasks
        /\ holding' = [holding EXCEPT ![w] = None]
        /\ storage' = [storage EXCEPT ![t] = local[w]]
    BY <1>7 DEF SaveResult, Update, Goto, WorkerInv, Working, brokerVars, workerVars
  <2>2. /\ storage'[t] = local[w] /\ local[w] # None
        /\ \A u \in Tasks : u # t => storage'[u] = storage[u]
    <3>1. local[w] \in Task
      OBVIOUS
    <3>2. QED
      BY <2>1, <3>1, A2AAssumption
  <2>3. /\ Queued' = Queued /\ Submitted(t) /\ t \notin Queued
        /\ \A v \in Workers : Working(v)' = (Working(v) /\ v # w)
        /\ \A v \in Workers : v # w => holding'[v] = holding[v]
        /\ \A v \in Workers : Working(v) /\ v # w => holding[v] # t
    BY <2>1 DEF Queued, Working, WorkerInv, OneOwner
  <2>4. /\ local[w].status \in Completed
        /\ local[w].status = "cancelled" => t \in AskedToCancel
        /\ local[w].replied <=> local[w].status = "completed"
        /\ local[w].error <=> local[w].status = "failed"
    BY <2>1 DEF WorkerInv
  <2>a. \A v \in Workers : Working(v)' => Working(v) /\ v # w /\ holding'[v] = holding[v]
    BY <2>3
  <2>5. OneOwner'
    <3>1. \A v \in Workers : Working(v)' => holding'[v] \notin Queued'
      BY <2>3, <2>a DEF OneOwner
    <3>2. \A u, v \in Workers :
            Working(u)' /\ Working(v)' /\ holding'[u] = holding'[v] => u = v
      BY <2>a DEF OneOwner
    <3>3. QED
      BY <2>1, <3>1, <3>2 DEF OneOwner
  <2>6. TaskInv'
    <3>1. \A u \in Tasks : u # t /\ OnItsWay(u) => OnItsWay(u)'
      BY <1>a, <1>c, <2>1, <2>3 DEF OnItsWay
    <3>2. QED
      BY <1>a, <1>b, <2>1, <2>2, <2>3, <2>4, <3>1 DEF TaskInv, Submitted, StatusIn
  <2>7. WorkerInv'
    <3>1. SUFFICES ASSUME NEW v \in Workers, Working(v)'
                   PROVE  WorkerInv!(v)'
      BY DEF WorkerInv
    <3>2. /\ Working(v) /\ v # w /\ holding'[v] = holding[v] /\ pc'[v] = pc[v]
          /\ holding[v] # t /\ local'[v] = local[v] /\ holding[v] \in Tasks
      BY <2>1, <2>3, <2>a, <3>1 DEF WorkerInv
    <3>3. storage'[holding[v]] = storage[holding[v]]
      BY <2>2, <3>2
    <3>4. QED
      BY <1>a, <1>b, <3>2, <3>3 DEF WorkerInv, Submitted, StatusIn
  <2>8. RecordIsConsistent'
    BY <2>2, <2>4 DEF RecordIsConsistent
  <2>9. QED
    BY <1>d, <2>3, <2>5, <2>6, <2>7, <2>8
<1>8. QED
  BY <1>1, <1>3, <1>4, <1>5, <1>6, <1>7 DEF Work

(* A task that is to be cancelled leaves the queue before its token is     *)
(* signalled and its record overwritten.                                   *)
LEMMA CancelKeepsInv ==
  ASSUME Inv, [Next]_vars, NEW c \in Cancellers, ReadTask(c) \/ CancelHandler(c)
  PROVE  OneOwner' /\ TaskInv' /\ WorkerInv' /\ CancelInv' /\ RecordIsConsistent'
<1> USE DEF Inv, TypeOK
<1>a. UNCHANGED <<pc, holding, local, submit, tokens>>
  BY DEF ReadTask, CancelHandler, Dequeue, Signal, SaveCancelled, RemoveFromQueue, SignalToken,
         brokerVars, workerVars
<1>b. AskedToCancel \subseteq AskedToCancel'
  BY AskedGrows
<1>c. \A w \in Workers : Working(w)' = Working(w)
  BY <1>a DEF Working
<1>d. \A d \in Cancellers : d # c => cancel'[d] = cancel[d] /\ target'[d] = target[d]
                                     /\ snapshot'[d] = snapshot[d]
  BY DEF ReadTask, CancelHandler, Dequeue, Signal, SaveCancelled, Canceller
<1> DEFINE t == target[c]
<1>1. CASE ReadTask(c)
  <2>1. PICK u \in Tasks :
          /\ cancel[c] = "idle"
          /\ submit[u] = "accepted"
          /\ target' = [target EXCEPT ![c] = u]
          /\ snapshot' = [snapshot EXCEPT ![c] = storage[u]]
          /\ cancel' = [cancel EXCEPT ![c] = IF storage[u].status \in Completed
                                             THEN "conflict" ELSE "read"]
    BY <1>1 DEF ReadTask, Canceller
  <2>2. UNCHANGED <<queue, storage, signalled>> /\ Queued' = Queued
    BY <1>1 DEF ReadTask, brokerVars, Queued
  <2>3. storage[u] \in Task
    BY <2>1 DEF TaskInv
  <2>4. cancel'[c] = "read" =>
          /\ storage[u].status \in {"pending", "running"}
          /\ ~storage[u].replied /\ ~storage[u].error
    <3>1. cancel'[c] = "read" => storage[u].status \notin Completed
      BY <2>1
    <3>2. storage[u].status \in TaskStatus
      BY <2>3 DEF Task
    <3>3. storage[u] # None
      BY <2>3, A2AAssumption
    <3>4. QED
      BY <3>1, <3>2, <3>3 DEF RecordIsConsistent, Completed, TaskStatus
  <2>5. OneOwner'
    BY <1>a, <1>c, <2>2 DEF OneOwner
  <2>6. TaskInv'
    <3>1. \A v \in Tasks : OnItsWay(v) => OnItsWay(v)'
      BY <1>a, <1>c, <1>d, <2>1, <2>2 DEF OnItsWay, Cancelling
    <3>2. QED
      BY <1>a, <1>b, <2>2, <3>1 DEF TaskInv, Submitted, StatusIn
  <2>7. WorkerInv'
    BY <1>a, <1>b, <1>c, <2>2 DEF WorkerInv, Submitted, StatusIn
  <2>8. CancelInv'
    BY <1>a, <1>d, <2>1, <2>2, <2>4 DEF CancelInv, Cancelling
  <2>9. QED
    BY <2>2, <2>5, <2>6, <2>7, <2>8 DEF RecordIsConsistent
<1>2. CASE Dequeue(c)
  <2>1. /\ cancel[c] = "read" /\ cancel' = [cancel EXCEPT ![c] = "dequeued"]
        /\ queue' = Without(queue, t)
        /\ UNCHANGED <<storage, signalled, target, snapshot>>
    BY <1>2 DEF Dequeue, RemoveFromQueue, Canceller
  <2>2. Queued' = Queued \ {t} /\ (Distinct(queue) => Distinct(queue'))
    BY <2>1, QueuedMembers, WithoutMembers DEF BrokerTypeOK
  <2>3. OneOwner'
    BY <1>a, <1>c, <2>2 DEF OneOwner, Distinct
  <2>4. TaskInv'
    <3>1. \A u \in Tasks : OnItsWay(u) => OnItsWay(u)'
      BY <1>a, <1>c, <1>d, <2>1, <2>2 DEF OnItsWay, Cancelling
    <3>2. QED
      BY <1>a, <1>b, <2>1, <2>2, <3>1 DEF TaskInv, Submitted, StatusIn
  <2>5. WorkerInv'
    BY <1>a, <1>b, <1>c, <2>1 DEF WorkerInv, Submitted, StatusIn
  <2>6. CancelInv'
    BY <1>a, <1>d, <2>1, <2>2 DEF CancelInv, Cancelling
  <2>7. QED
    BY <2>1, <2>3, <2>4, <2>5, <2>6 DEF RecordIsConsistent
<1>3. CASE Signal(c)
  <2>1. /\ cancel[c] = "dequeued" /\ cancel' = [cancel EXCEPT ![c] = "signalled"]
        /\ signalled' \in {signalled, signalled \cup {t}}
        /\ UNCHANGED <<queue, storage, target, snapshot>> /\ Queued' = Queued
    BY <1>3 DEF Signal, SignalToken, Canceller, Queued
  <2>2. t \in AskedToCancel' /\ t \notin Queued
    BY <2>1 DEF AskedToCancel, CancelInv
  <2>3. OneOwner'
    BY <1>a, <1>c, <2>1 DEF OneOwner
  <2>4. TaskInv'
    <3>1. \A u \in Tasks : OnItsWay(u) => OnItsWay(u)'
      BY <1>a, <1>c, <1>d, <2>1 DEF OnItsWay, Cancelling
    <3>2. QED
      BY <1>a, <1>b, <2>1, <2>2, <3>1 DEF TaskInv, Submitted, StatusIn
  <2>5. WorkerInv'
    BY <1>a, <1>b, <1>c, <2>1 DEF WorkerInv, Submitted, StatusIn
  <2>6. CancelInv'
    BY <1>a, <1>d, <2>1, <2>2 DEF CancelInv, Cancelling
  <2>7. QED
    BY <2>1, <2>3, <2>4, <2>5, <2>6 DEF RecordIsConsistent
<1>4. CASE SaveCancelled(c)
  <2>1. /\ cancel[c] = "signalled" /\ cancel' = [cancel EXCEPT ![c] = "done"]
        /\ storage' = [storage EXCEPT ![t] = [snapshot[c] EXCEPT !.status = "cancelled"]]
        /\ UNCHANGED <<queue, signalled, target, snapshot>> /\ Queued' = Queued
    BY <1>4 DEF SaveCancelled, Update, Canceller, Queued, brokerVars
  <2>2. t \in Tasks /\ submit[t] = "accepted" /\ t \notin Queued /\ t \in AskedToCancel'
    BY <2>1 DEF CancelInv, AskedToCancel
  <2>3. /\ storage'[t].status = "cancelled" /\ ~storage'[t].replied /\ ~storage'[t].error
        /\ storage'[t] # None
        /\ \A u \in Tasks : u # t => storage'[u] = storage[u]
    <3>1. /\ storage'[t] = [snapshot[c] EXCEPT !.status = "cancelled"]
          /\ snapshot[c] \in Task
      BY <2>1, <2>2
    <3>2. storage'[t] \in Task
      BY <3>1 DEF Task, TaskStatus
    <3>3. storage'[t] # None
      BY <3>2, A2AAssumption
    <3>4. ~snapshot[c].replied /\ ~snapshot[c].error
      BY <2>1 DEF CancelInv, Cancelling
    <3>5. QED
      BY <2>1, <2>2, <3>1, <3>3, <3>4 DEF Task
  <2>4. OneOwner'
    BY <1>a, <1>c, <2>1 DEF OneOwner
  <2>5. TaskInv'
    <3>1. \A u \in Tasks : u # t /\ OnItsWay(u) => OnItsWay(u)'
      BY <1>a, <1>c, <1>d, <2>1 DEF OnItsWay, Cancelling
    <3>2. QED
      BY <1>a, <1>b, <2>1, <2>2, <2>3, <3>1 DEF TaskInv, Submitted, StatusIn, Completed
  <2>6. WorkerInv'
    <3>1. \A w \in Workers : Working(w) => holding[w] \in Tasks
      BY DEF WorkerInv
    <3>2. QED
      BY <1>a, <1>b, <1>c, <2>1, <2>2, <2>3, <3>1 DEF WorkerInv, Submitted, StatusIn
  <2>7. CancelInv'
    BY <1>a, <1>d, <2>1, <2>2 DEF CancelInv, Cancelling
  <2>8. RecordIsConsistent'
    BY <2>3 DEF RecordIsConsistent
  <2>9. QED
    BY <2>4, <2>5, <2>6, <2>7, <2>8
<1>5. QED
  BY <1>1, <1>2, <1>3, <1>4 DEF CancelHandler

(* A handler that is dropped was between two of its steps.                 *)
LEMMA HangUpStep ==
  ASSUME Inv, HangUp
  PROVE  /\ \A t \in Tasks :
                submit'[t] = submit[t] \/ (submit[t] \in {"saved", "open"} /\ submit'[t] = "gone")
         /\ \A c \in Cancellers :
                cancel'[c] = cancel[c] \/ (Cancelling(c) /\ cancel'[c] = "gone")
<1> USE DEF Inv, TypeOK
<1>1. CASE \E t \in Tasks : /\ submit[t] \in {"saved", "open"}
                           /\ Handler(t, "gone")
                           /\ UNCHANGED cancel
  <2>1. PICK t \in Tasks : /\ submit[t] \in {"saved", "open"}
                          /\ submit' = [submit EXCEPT ![t] = "gone"]
                          /\ cancel' = cancel
    BY <1>1 DEF Handler
  <2>2. QED
    BY <2>1
<1>2. CASE \E c \in Cancellers : /\ cancel[c] \in {"read", "dequeued", "signalled"}
                                /\ Canceller(c, "gone")
                                /\ UNCHANGED submit
  <2>1. PICK c \in Cancellers : /\ Cancelling(c)
                               /\ cancel' = [cancel EXCEPT ![c] = "gone"]
                               /\ submit' = submit
    BY <1>2 DEF Canceller, Cancelling
  <2>2. QED
    BY <2>1
<1>3. QED
  BY <1>1, <1>2 DEF HangUp

(* What is left moves no task but the ones a clear() drops.                *)
LEMMA RestKeepsInv ==
  ASSUME Inv, [Next]_vars, ShutDown \/ ClearBroker \/ HangUp \/ UNCHANGED vars
  PROVE  OneOwner' /\ TaskInv' /\ WorkerInv' /\ CancelInv' /\ RecordIsConsistent'
<1> USE DEF Inv, TypeOK
<1>a. UNCHANGED <<pc, holding, local, storage, signalled, target, snapshot>>
  BY DEF ShutDown, Shutdown, ClearBroker, Clear, HangUp, vars, brokerVars, serverVars, workerVars
<1>b. AskedToCancel \subseteq AskedToCancel'
  BY AskedGrows
<1>c. \A w \in Workers : Working(w)' = Working(w)
  BY <1>a DEF Working
<1>1. CASE UNCHANGED <<queue, tokens, submit, cancel>>
  <2>1. Queued' = Queued /\ \A c \in Cancellers : Cancelling(c)' = Cancelling(c)
    BY <1>1 DEF Queued, Cancelling
  <2>2. OneOwner'
    BY <1>a, <1>c, <1>1, <2>1 DEF OneOwner
  <2>3. TaskInv'
    BY <1>a, <1>b, <1>c, <1>1, <2>1 DEF TaskInv, Submitted, StatusIn, OnItsWay
  <2>4. WorkerInv'
    BY <1>a, <1>b, <1>c, <1>1 DEF WorkerInv, Submitted, StatusIn
  <2>5. CancelInv'
    BY <1>a, <1>1, <2>1 DEF CancelInv
  <2>6. QED
    BY <1>a, <2>2, <2>3, <2>4, <2>5 DEF RecordIsConsistent
<1>2. CASE ClearBroker
  <2>1. /\ queue' = <<>> /\ tokens' = {} /\ Queued' = {}
        /\ UNCHANGED <<submit, cancel>>
        /\ \A c \in Cancellers : Cancelling(c)' = Cancelling(c)
    BY <1>2 DEF ClearBroker, Clear, Queued, Cancelling, serverVars
  <2>2. OneOwner'
    BY <1>a, <1>c, <2>1 DEF OneOwner
  <2>3. TaskInv'
    BY <1>a, <1>b, <2>1 DEF TaskInv, Submitted, StatusIn
  <2>4. WorkerInv'
    BY <1>a, <1>b, <1>c, <2>1 DEF WorkerInv, Submitted, StatusIn
  <2>5. CancelInv'
    BY <1>a, <2>1 DEF CancelInv
  <2>6. QED
    BY <1>a, <2>2, <2>3, <2>4, <2>5 DEF RecordIsConsistent
<1>3. CASE HangUp
  <2>1. /\ UNCHANGED <<queue, tokens>> /\ Queued' = Queued
        /\ \A t \in Tasks :
                submit'[t] = submit[t] \/ (submit[t] \in {"saved", "open"} /\ submit'[t] = "gone")
        /\ \A c \in Cancellers :
                cancel'[c] = cancel[c] \/ (Cancelling(c) /\ cancel'[c] = "gone")
    BY <1>3, HangUpStep DEF HangUp, brokerVars, Queued
  <2>2. \A t \in Tasks : Submitted(t)' = Submitted(t)
    BY <2>1 DEF Submitted
  <2>3. OneOwner'
    BY <1>a, <1>c, <2>1 DEF OneOwner
  <2>4. TaskInv'
    <3>1. \A t \in Tasks : OnItsWay(t) => OnItsWay(t)'
      BY <1>a, <1>c, <2>1 DEF OnItsWay, Cancelling
    <3>2. QED
      BY <1>a, <1>b, <2>1, <2>2, <3>1 DEF TaskInv, StatusIn
  <2>5. WorkerInv'
    BY <1>a, <1>b, <1>c, <2>2 DEF WorkerInv, StatusIn
  <2>6. CancelInv'
    BY <1>a, <2>1 DEF CancelInv, Cancelling
  <2>7. QED
    BY <1>a, <2>3, <2>4, <2>5, <2>6 DEF RecordIsConsistent
<1>4. QED
  BY <1>1, <1>2, <1>3 DEF ShutDown, Shutdown, vars, brokerVars, serverVars

LEMMA InvNext == Inv /\ [Next]_vars => Inv'
<1> SUFFICES ASSUME Inv, [Next]_vars PROVE Inv'
  OBVIOUS
<1>1. TypeOK'
  BY TypeNext
<1>2. OneOwner' /\ TaskInv' /\ WorkerInv' /\ CancelInv' /\ RecordIsConsistent'
  BY SubmitKeepsInv, WorkKeepsInv, CancelKeepsInv, RestKeepsInv DEF Next
<1>3. QED
  BY <1>1, <1>2 DEF Inv

LEMMA InvAlways == Spec => []Inv
BY InvInit, InvNext, PTL DEF Spec

----------------------------------------------------------------------------
(* The life of the stored records *)

LEMMA LifecycleInit == Init => Lifecycle!Init
BY DEF Init, Lifecycle!Init, AbstractStatus, AskedToCancel

(* A record that is overwritten changes the status of one task.            *)
LEMMA StoredStatus ==
  ASSUME Inv, NEW t \in Tasks, NEW task \in Task, Update(t, task)
  PROVE  AbstractStatus' = [AbstractStatus EXCEPT ![t] = task.status]
<1>1. task # None
  BY A2AAssumption
<1>2. \A u \in Tasks : storage'[u] = IF u = t THEN task ELSE storage[u]
  BY DEF Update, Inv, TypeOK
<1>3. QED
  BY <1>1, <1>2 DEF AbstractStatus

(* A submission saves a new record.                                        *)
LEMMA SubmitRefines ==
  ASSUME Inv, NEW t \in Tasks, SaveTask(t) \/ SubmitHandler(t)
  PROVE  [Lifecycle!Next]_<<AbstractStatus, AskedToCancel>>
<1>1. AskedToCancel' = AskedToCancel
  BY DEF SaveTask, SubmitHandler, CheckOpen, SubmitTask, RefuseFull, AcceptTask, AskedToCancel
<1>2. CASE SaveTask(t)
  <2>1. AbstractStatus' = [AbstractStatus EXCEPT ![t] = "pending"]
    BY <1>2, NewTaskType, StoredStatus DEF SaveTask, NewTask
  <2>2. AbstractStatus[t] = "unsaved"
    BY <1>2 DEF SaveTask, Inv, TaskInv, AbstractStatus
  <2>3. Lifecycle!Save(t)
    BY <1>1, <2>1, <2>2 DEF Lifecycle!Save, Lifecycle!Becomes
  <2>4. QED
    BY <2>3 DEF Lifecycle!Next
<1>3. CASE SubmitHandler(t)
  BY <1>1, <1>3 DEF SubmitHandler, CheckOpen, SubmitTask, RefuseFull, AcceptTask, AbstractStatus
<1>4. QED
  BY <1>2, <1>3

(* A worker starts a pending task and ends a running one; or it overwrites *)
(* the record of one that was cancelled.                                   *)
LEMMA WorkRefines ==
  ASSUME Inv, NEW w \in Workers, Work(w) \/ StopWorker(w) \/ StopSignal(w)
  PROVE  [Lifecycle!Next]_<<AbstractStatus, AskedToCancel>>
<1>1. AskedToCancel' = AskedToCancel
  BY DEF Work, TakeTask, GetToken, StartTask, AbortAgent, AgentSucceeds, AgentFails, SaveResult,
         StopWorker, StopSignal, AskedToCancel, serverVars
<1> DEFINE t == holding[w]
<1>2. CASE StartTask(w)
  <2>1. /\ t \in Tasks /\ local'[w] \in Task /\ local'[w].status = "running"
        /\ StatusIn(t, {"pending", "cancelled"})
        /\ Update(t, local'[w])
    BY <1>2, InvNext, NewTaskType
       DEF StartTask, Inv, TypeOK, WorkerInv, Working, Task, TaskStatus, NewTask
  <2>2. AbstractStatus' = [AbstractStatus EXCEPT ![t] = "running"]
    BY <2>1, StoredStatus
  <2>3. /\ AbstractStatus[t] \in {"pending", "cancelled"}
        /\ AbstractStatus[t] = "cancelled" => t \in AskedToCancel
    BY <2>1 DEF StatusIn, AbstractStatus, Inv, TaskInv
  <2>4. Lifecycle!Start(t) \/ Lifecycle!Resume(t)
    BY <1>1, <2>2, <2>3 DEF Lifecycle!Start, Lifecycle!Resume, Lifecycle!Becomes
  <2>5. QED
    BY <2>1, <2>4 DEF Lifecycle!Next
<1>3. CASE SaveResult(w)
  <2>1. /\ t \in Tasks /\ local[w] \in Task /\ local[w].status \in Completed
        /\ StatusIn(t, {"running", "cancelled"})
        /\ local[w].status = "cancelled" => t \in AskedToCancel
        /\ Update(t, local[w])
    BY <1>3 DEF SaveResult, Inv, TypeOK, WorkerInv, Working
  <2>2. AbstractStatus' = [AbstractStatus EXCEPT ![t] = local[w].status]
    BY <2>1, StoredStatus
  <2>3. /\ AbstractStatus[t] \in {"running", "cancelled"}
        /\ AbstractStatus[t] = "cancelled" => t \in AskedToCancel
    BY <2>1 DEF StatusIn, AbstractStatus, Inv, TaskInv
  <2>4. CASE local[w].status \in {"completed", "failed"}
    <3>1. Lifecycle!Complete(t) \/ Lifecycle!Fail(t) \/ Lifecycle!Resume(t)
      BY <1>1, <2>2, <2>3, <2>4
         DEF Lifecycle!Complete, Lifecycle!Fail, Lifecycle!Resume, Lifecycle!Becomes
    <3>2. QED
      BY <2>1, <3>1 DEF Lifecycle!Next
  <2>5. CASE local[w].status = "cancelled"
    <3>1. CASE AbstractStatus[t] = "running"
      <4>1. Lifecycle!Cancel(t)
        BY <1>1, <2>1, <2>2, <2>5, <3>1 DEF Lifecycle!Cancel, Lifecycle!Becomes
      <4>2. QED
        BY <2>1, <4>1 DEF Lifecycle!Next
    <3>2. CASE AbstractStatus[t] = "cancelled"
      <4>1. AbstractStatus' = AbstractStatus
        BY <2>1, <2>2, <2>5, <3>2 DEF AbstractStatus
      <4>2. QED
        BY <1>1, <4>1
    <3>3. QED
      BY <2>3, <3>1, <3>2
  <2>6. QED
    BY <2>1, <2>4, <2>5 DEF Completed
<1>4. CASE storage' = storage
  BY <1>1, <1>4 DEF AbstractStatus
<1>5. QED
  BY <1>2, <1>3, <1>4 DEF Work, TakeTask, GetToken, AbortAgent, AgentSucceeds, AgentFails,
     StopWorker, StopSignal

(* A request to cancel asks first, and overwrites what it finds.           *)
LEMMA CancelRefines ==
  ASSUME Inv, NEW c \in Cancellers, ReadTask(c) \/ CancelHandler(c)
  PROVE  [Lifecycle!Next]_<<AbstractStatus, AskedToCancel>>
<1> USE DEF Inv, TypeOK
<1>1. CASE ReadTask(c)
  <2>1. PICK t \in Tasks :
          /\ cancel[c] = "idle" /\ submit[t] = "accepted"
          /\ target' = [target EXCEPT ![c] = t]
          /\ cancel' = [cancel EXCEPT ![c] = IF storage[t].status \in Completed
                                             THEN "conflict" ELSE "read"]
          /\ UNCHANGED storage
    BY <1>1 DEF ReadTask, Canceller
  <2>2. AbstractStatus' = AbstractStatus
    BY <2>1 DEF AbstractStatus
  <2>3. \A d \in Cancellers : d # c => cancel'[d] = cancel[d] /\ target'[d] = target[d]
    BY <2>1
  <2>4. CASE storage[t].status \in Completed
    <3>1. cancel'[c] = "conflict" /\ cancel[c] = "idle"
      BY <2>1, <2>4
    <3>2. AskedToCancel' = AskedToCancel
      BY <2>3, <3>1 DEF AskedToCancel
    <3>3. QED
      BY <2>2, <3>2
  <2>5. CASE storage[t].status \notin Completed
    <3>1. cancel'[c] = "read" /\ target'[c] = t /\ cancel[c] = "idle"
      BY <2>1, <2>5
    <3>2. AskedToCancel' = AskedToCancel \cup {t}
      BY <2>3, <3>1 DEF AskedToCancel
    <3>3. AbstractStatus[t] \in {"pending", "running"}
      <4>1. storage[t] \in Task /\ storage[t] # None
        BY <2>1, A2AAssumption DEF TaskInv
      <4>2. QED
        BY <2>5, <4>1 DEF AbstractStatus, Task, TaskStatus, Completed
    <3>4. Lifecycle!Ask(t)
      BY <2>2, <3>2, <3>3 DEF Lifecycle!Ask
    <3>5. QED
      BY <3>4 DEF Lifecycle!Next
  <2>6. QED
    BY <2>4, <2>5
<1>2. CASE CancelHandler(c)
  <2>1. /\ Cancelling(c) /\ target' = target
        /\ cancel' = [cancel EXCEPT ![c] = cancel'[c]]
        /\ cancel'[c] \in {"dequeued", "signalled", "done"}
    BY <1>2 DEF CancelHandler, Dequeue, Signal, SaveCancelled, Canceller, Cancelling
  <2>2. AskedToCancel' = AskedToCancel
    BY <2>1 DEF AskedToCancel, Cancelling
  <2>3. CASE SaveCancelled(c)
    <3> DEFINE t == target[c]
               task == [snapshot[c] EXCEPT !.status = "cancelled"]
    <3>1. t \in Tasks /\ t \in AskedToCancel /\ storage[t] # None /\ Update(t, task)
      BY <2>1, <2>3 DEF SaveCancelled, CancelInv, Cancelling, AskedToCancel, TaskInv
    <3>2. task \in Task /\ task.status = "cancelled"
      BY DEF Task, TaskStatus
    <3>3. AbstractStatus' = [AbstractStatus EXCEPT ![t] = "cancelled"]
      BY <3>1, <3>2, StoredStatus
    <3>4. AbstractStatus[t] \in {"pending", "running", "completed", "failed", "cancelled"}
      BY <3>1 DEF AbstractStatus, Task, TaskStatus
    <3>5. CASE AbstractStatus[t] # "cancelled"
      <4>1. Lifecycle!Cancel(t) \/ Lifecycle!CancelLate(t)
        BY <2>2, <3>1, <3>3, <3>4, <3>5
           DEF Lifecycle!Cancel, Lifecycle!CancelLate, Lifecycle!Becomes
      <4>2. QED
        BY <3>1, <4>1 DEF Lifecycle!Next
    <3>6. CASE AbstractStatus[t] = "cancelled"
      <4>1. AbstractStatus' = AbstractStatus
        BY <3>1, <3>3, <3>6 DEF AbstractStatus
      <4>2. QED
        BY <2>2, <4>1
    <3>7. QED
      BY <3>5, <3>6
  <2>4. CASE Dequeue(c) \/ Signal(c)
    BY <2>2, <2>4 DEF Dequeue, Signal, AbstractStatus
  <2>5. QED
    BY <1>2, <2>3, <2>4 DEF CancelHandler
<1>3. QED
  BY <1>1, <1>2

LEMMA LifecycleNext ==
  Inv /\ [Next]_vars => [Lifecycle!Next]_<<AbstractStatus, AskedToCancel>>
<1> SUFFICES ASSUME Inv, [Next]_vars
             PROVE  [Lifecycle!Next]_<<AbstractStatus, AskedToCancel>>
  OBVIOUS
<1>1. CASE ShutDown \/ ClearBroker \/ UNCHANGED vars
  BY <1>1 DEF ShutDown, ClearBroker, vars, serverVars, AbstractStatus, AskedToCancel
<1>2. CASE HangUp
  <2>1. /\ UNCHANGED <<storage, target>>
        /\ \A c \in Cancellers :
                cancel'[c] = cancel[c] \/ (Cancelling(c) /\ cancel'[c] = "gone")
    BY <1>2, HangUpStep DEF HangUp
  <2>2. QED
    BY <2>1 DEF AbstractStatus, AskedToCancel, Cancelling
<1>3. QED
  BY <1>1, <1>2, SubmitRefines, WorkRefines, CancelRefines DEF Next

----------------------------------------------------------------------------
(* Theorems *)

(* Whatever is submitted, cancelled, stopped, cleared, shut down or        *)
(* abandoned meanwhile, no task is executed twice, a queued copy is the    *)
(* stored record, and an accepted task is on its way until it is over.     *)
THEOREM TasksAlwaysAccounted == Spec => []TasksAccounted
<1>1. Inv => TasksAccounted
  <2> SUFFICES ASSUME Inv PROVE TasksAccounted
    OBVIOUS
  <2>1. Queued \subseteq Tasks
    BY DEF Inv, TypeOK, BrokerTypeOK, Queued
  <2>2. QueuedTaskIsPending
    BY <2>1 DEF Inv, TaskInv, QueuedTaskIsPending
  <2>3. NoTaskLost
    BY DEF Inv, TaskInv, NoTaskLost, Submitted, OnItsWay
  <2>4. QED
    BY <2>2, <2>3 DEF Inv, TasksAccounted
<1>2. QED
  BY <1>1, InvAlways, PTL

(* A stored record is one somebody meant, whoever overwrites it.           *)
THEOREM RecordsAlwaysConsistent == Spec => []RecordIsConsistent
<1>1. Inv => RecordIsConsistent
  BY DEF Inv
<1>2. QED
  BY <1>1, InvAlways, PTL

(* The stored records live as TaskLifecycle permits.                       *)
THEOREM ServiceImplementsLifecycle == Spec => ImplementsLifecycle
BY LifecycleInit, LifecycleNext, InvAlways, PTL DEF Spec, ImplementsLifecycle, Lifecycle!Spec
=============================================================================
