----------------------------- MODULE McpToolset -----------------------------
(***************************************************************************)
(* serdes-ai-mcp/src/toolset.rs: McpToolset puts an McpClient behind a     *)
(* mutex that each operation holds until its request is answered, and      *)
(* keeps the last listing of the server's tools in tools_cache.  Without a *)
(* toolset the program shares the client itself: `owner` says which.       *)
(***************************************************************************)
EXTENDS McpClient

CONSTANT Owners \* who may own the client: "toolset", "program"

ASSUME OwnersAssumption == Owners \subseteq {"toolset", "program"}

VARIABLES
  owner,   \* who owns it
  holder,  \* the caller that holds the mutex
  cache    \* the request whose answer is in tools_cache, 0 for none

toolsetVars == <<owner, holder, cache>>
vars == <<mcpVars, toolsetVars>>

ToolsetOps == {"enter", "get_tools", "refresh", "call_tool", "exit"}

TypeOK ==
  /\ pending \subseteq 1..(nextId - 1)
  /\ toClient \in Seq(Answer)
  /\ reader \in {"reading", "ended"}
  /\ {torn, alive, connected, initialized, ready, readable} \subseteq BOOLEAN
  /\ nextId \in Nat \ {0}
  /\ pc \in [Callers -> {"idle", "lock", "entering", "ensure", "call", "write",
                         "unregister", "waiting", "notify", "flag", "closing", "kill",
                         "returned", "done", "dropped"}]
  /\ op \in [Callers -> ClientOps \cup ToolsetOps \cup {"none"}]
  /\ id \in [Callers -> 0..(nextId - 1)]
  /\ inbox \in [Callers -> Answer \cup {None}]
  /\ outcome \in [Callers -> {"none", "ok", "io", "protocol", "no_result", "not_initialized"}]
  /\ received \subseteq Request
  /\ mangled \subseteq Callers
  /\ noise \in 0..MaxNoise
  /\ owner \in Owners
  /\ holder \in Callers \cup {None}
  /\ cache \in 0..(nextId - 1)

Init ==
  /\ McpInit
  /\ owner \in Owners
  /\ holder = None
  /\ cache = 0

----------------------------------------------------------------------------
(* Without a toolset *)

UseClient(c) ==
  /\ owner = "program"
  /\ \E o \in ClientOps : ClientBegins(c, o)
  /\ UNCHANGED toolsetVars

----------------------------------------------------------------------------
(* With a toolset *)

Begin(c, o, place) ==
  /\ owner = "toolset"
  /\ pc[c] = "idle"
  /\ op' = [op EXCEPT ![c] = o]
  /\ Goto(c, place)
  /\ UNCHANGED <<transportVars, clientVars, id, inbox, serverVars, toolsetVars>>

UseToolset(c) ==
  /\ \E o \in ToolsetOps : /\ o = "get_tools" => cache = 0
                           /\ Begin(c, o, "lock")
  /\ UNCHANGED outcome

(* get_tools looks into the cache before it asks for the mutex, and not    *)
(* again once it holds it.                                                 *)
GetCachedTools(c) ==
  /\ cache # 0
  /\ Begin(c, "get_tools", "done")
  /\ outcome' = [outcome EXCEPT ![c] = "ok"]

(* Mutant: the mutex is not held during the operation. *)
MutexIgnored == TRUE

MutexFree == holder = None

LockClient(c) ==
  /\ pc[c] = "lock"
  /\ MutexFree
  /\ holder' = c
  /\ Goto(c, CASE op[c] = "enter" -> "entering"
               [] op[c] = "exit" -> "closing"
               [] OTHER -> "ensure")
  /\ UNCHANGED <<transportVars, clientVars, op, id, inbox, outcome, serverVars, owner, cache>>

EnterToolset(c) ==
  /\ pc[c] = "entering"
  /\ IF initialized THEN Return(c, "ok") ELSE Goto(c, "call") /\ UNCHANGED outcome
  /\ UNCHANGED <<transportVars, clientVars, op, id, inbox, serverVars, toolsetVars>>

(* A listing replaces the cache before the mutex is released. *)
Unlock(c) ==
  /\ owner = "toolset"
  /\ pc[c] = "returned"
  /\ Goto(c, "done")
  /\ holder' = None
  /\ cache' = IF op[c] \in {"get_tools", "refresh"} /\ outcome[c] = "ok"
              THEN id[c] ELSE cache
  /\ UNCHANGED <<transportVars, clientVars, op, id, inbox, outcome, serverVars, owner>>

ClientWorks(c) == ClientStep(c) /\ UNCHANGED toolsetVars

(* The guard of the mutex goes with the future that held it. *)
DropCaller(c) ==
  /\ Drop(c)
  /\ holder' = IF holder = c THEN None ELSE holder
  /\ UNCHANGED <<owner, cache>>

Caller(c) ==
  \/ UseClient(c)
  \/ UseToolset(c)
  \/ GetCachedTools(c)
  \/ LockClient(c)
  \/ EnterToolset(c)
  \/ ClientWorks(c)
  \/ Unlock(c)

(* Every caller has returned or was dropped, and the rest has nothing left *)
(* to do: only lines that are never read remain.                           *)
Next ==
  \/ \E c \in Callers : Caller(c) \/ DropCaller(c)
  \/ (Transport \/ Server) /\ UNCHANGED toolsetVars

Spec == Init /\ [][Next]_vars

(* The executor polls the callers and the reader task; the server is       *)
(* assumed to answer what it reads while it runs.                          *)
FairSpec ==
  /\ Spec
  /\ \A c \in Callers : WF_vars(LockClient(c) \/ EnterToolset(c) \/ ClientWorks(c) \/ Unlock(c))
  /\ WF_vars(Transport /\ UNCHANGED toolsetVars)
  /\ WF_vars(\E r \in received, k \in {"result", "error"} :
               ServerAnswers(r, k) /\ UNCHANGED toolsetVars)

----------------------------------------------------------------------------
(* Properties *)

(* A caller is handed nothing but what the server answered to its own      *)
(* request, whatever order the answers come in and whatever requests were  *)
(* dropped before (transport.rs reader_task, client.rs next_id).  Requests *)
(* of the server's own are the exception: the parser cannot tell them from *)
(* answers.                                                                *)
AnswersMatched ==
  \A c \in Callers :
    inbox[c] # None /\ inbox[c].kind # "request" =>
      inbox[c].from = c /\ inbox[c].method = Method(op[c])

(* Each request that waits has either its sender in the map or its answer  *)
(* in the channel, never both and never neither; one that has returned has *)
(* no sender left, so that the map holds nothing beyond the requests in    *)
(* flight and those that were dropped (transport.rs request).              *)
PendingAccounted ==
  /\ \A c \in Callers :
       /\ pc[c] \in Waiting => (id[c] \in pending <=> inbox[c] = None)
       /\ pc[c] \in {"returned", "done"} => id[c] \notin pending
  /\ \A i \in pending : \E c \in Callers : id[c] = i

(* Each request has its own answer, or none yet. *)
RequestsAccounted == TypeOK /\ AnswersMatched /\ PendingAccounted

(* The server gets notifications/initialized before it gets any request    *)
(* but initialize, however many callers race to use the client, as long as *)
(* no line was glued to the remains of a dropped one (client.rs initialize *)
(* and ensure_initialized).                                                *)
HandshakeFirst ==
  mangled = {} => \A r \in received : r.method # "initialize" => ready

(* A toolset whose server was closed never takes itself for initialized    *)
(* again: a later enter finds the pipe broken (toolset.rs exit and enter). *)
ClosedStaysClosed == owner = "toolset" /\ ~connected => ~initialized

(* Whoever enters, leaves and calls in whatever order, requests are made   *)
(* only between the handshake and the close.                               *)
HandshakeKept == HandshakeFirst /\ ClosedStaysClosed

(* The toolset's cache never goes back to an older listing: the mutex is   *)
(* held from the request until its answer is stored (toolset.rs refresh    *)
(* and get_tools).                                                         *)
CacheNeverGoesBack == [][cache' >= cache]_vars

(* As long as the server runs and its lines can be read, and no line of a  *)
(* caller was mangled, each operation comes to its end: nothing else keeps *)
(* a caller waiting, neither the mutex nor lines that answer nothing nor   *)
(* requests dropped before it (transport.rs reader_task; one line that is  *)
(* not UTF-8 ends it, and every caller after that waits for ever).         *)
ServedCallsEnd ==
  \A c \in Callers :
    pc[c] \notin {"idle", "returned", "done", "dropped"} ~>
      (pc[c] \in {"returned", "done", "dropped"} \/ ~alive \/ ~readable \/ mangled # {})
=============================================================================
