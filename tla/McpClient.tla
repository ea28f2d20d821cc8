------------------------------ MODULE McpClient ------------------------------
(***************************************************************************)
(* serdes-ai-mcp: McpClient (client.rs) over StdioTransport (transport.rs).*)
(* Callers share one client.  A request puts a oneshot sender for its id   *)
(* in `pending`, writes a line to the server's stdin and waits; a reader   *)
(* task takes the lines of the server's stdout, finds the sender by id and *)
(* hands the line over.  Callers, reader and server interleave; a caller's *)
(* future may be dropped wherever it waits.                                *)
(*                                                                         *)
(* list_tools, list_resources, read_resource and list_prompts make the     *)
(* moves of call_tool with another method and have no operation of their   *)
(* own.                                                                    *)
(***************************************************************************)
EXTENDS Naturals, Sequences, FiniteSets

CONSTANTS
  Callers,     \* the futures that use the client, one operation each
  None,        \* Rust's Option::None
  Droppable,   \* the callers whose future may be dropped
  ServerDies,  \* the server process may exit by itself
  MaxNoise,    \* lines the server may write that answer nothing
  ServerIds    \* ids of the requests among them

VARIABLES
  pending,      \* the ids with a sender in the map
  torn,         \* the last line written lacks its end: its writer was dropped
  toClient,     \* lines the server wrote to stdout, not read yet
  reader,       \* the reader task: "reading" until end of file or a read error
  alive,        \* the server process runs
  connected,    \* what is_connected answers
  nextId,       \* request_id
  initialized,  \* the client's flag
  pc, op, id,   \* each caller: where it is, what it does, its request's id
  inbox,        \* what its oneshot channel holds
  outcome,      \* what its operation returned
  received,     \* requests in the server's stdin, read or not, that it has not answered
  ready,        \* notifications/initialized was written to the server
  mangled,      \* callers with a line that was glued to a torn one
  noise,        \* lines of MaxNoise written
  readable      \* each line the server wrote could be read

transportVars == <<pending, torn, toClient, reader, alive, connected, mangled>>
clientVars == <<nextId, initialized>>
callerVars == <<pc, op, id, inbox, outcome>>
serverVars == <<received, ready, noise, readable>>
mcpVars == <<transportVars, clientVars, callerVars, serverVars>>

ClientOps == {"initialize", "call_tool", "close"}

(* Where an operation of the client starts. *)
Entry(o) == CASE o = "initialize" -> "call"
              [] o = "close" -> "closing"
              [] OTHER -> "ensure"

(* The method of the request an operation makes. *)
Method(o) == CASE o \in {"initialize", "enter"} -> "initialize"
               [] o \in {"get_tools", "refresh"} -> "tools/list"
               [] OTHER -> "tools/call"

Waiting == {"write", "unregister", "waiting"}

Methods == {"initialize", "tools/list", "tools/call"}

Request == [method: Methods, id: Nat, from: Callers]

Answer == [id: Nat, kind: {"result", "error", "request", "skipped", "unreadable"},
           method: Methods \cup {"none"},
           from: Callers \cup {None}]

ASSUME McpAssumption ==
  /\ Droppable \subseteq Callers
  /\ ServerDies \in BOOLEAN
  /\ MaxNoise \in Nat
  /\ ServerIds \subseteq Nat
  /\ None \notin Callers \cup Answer

McpInit ==
  /\ pending = {}
  /\ torn = FALSE
  /\ toClient = <<>>
  /\ reader = "reading"
  /\ alive = TRUE
  /\ connected = TRUE
  /\ nextId = 1
  /\ initialized = FALSE
  /\ pc = [c \in Callers |-> "idle"]
  /\ op = [c \in Callers |-> "none"]
  /\ id = [c \in Callers |-> 0]
  /\ inbox = [c \in Callers |-> None]
  /\ outcome = [c \in Callers |-> "none"]
  /\ received = {}
  /\ ready = FALSE
  /\ mangled = {}
  /\ noise = 0
  /\ readable = TRUE

Goto(c, place) == pc' = [pc EXCEPT ![c] = place]

Return(c, result) ==
  /\ Goto(c, "returned")
  /\ outcome' = [outcome EXCEPT ![c] = result]

----------------------------------------------------------------------------
(* The client *)

ClientBegins(c, o) ==
  /\ pc[c] = "idle"
  /\ op' = [op EXCEPT ![c] = o]
  /\ Goto(c, Entry(o))
  /\ UNCHANGED <<transportVars, clientVars, id, inbox, outcome, serverVars>>

(* Mutant: it is enough that the transport is connected. *)
Connected == connected

Initialized == initialized

(* ensure_initialized: the flag is read under its lock and may change next. *)
EnsureInitialized(c) ==
  /\ pc[c] = "ensure"
  /\ IF Initialized
     THEN Goto(c, "call") /\ UNCHANGED outcome
     ELSE Return(c, "not_initialized")
  /\ UNCHANGED <<transportVars, clientVars, op, id, inbox, serverVars>>

(* Mutant: the ids start again when a connection is initialized. *)
IdsRestarted(c) == IF Method(op[c]) = "initialize" THEN 1 ELSE nextId

NextRequestId(c) == nextId

(* next_id, then the sender goes into the map before the line is written. *)
Register(c) ==
  /\ pc[c] = "call"
  /\ id' = [id EXCEPT ![c] = NextRequestId(c)]
  /\ nextId' = NextRequestId(c) + 1
  /\ pending' = pending \cup {NextRequestId(c)}
  /\ Goto(c, "write")
  /\ UNCHANGED <<torn, toClient, reader, alive, connected, mangled,
                 initialized, op, inbox, outcome, serverVars>>

(* send_raw: one line at a time under the lock of stdin, in the order the  *)
(* server will read them.  After a torn line the server sees the two as    *)
(* one, which is no message: it answers nothing, or answers an id 0 that   *)
(* nobody has.                                                             *)
SendRaw(c) ==
  /\ alive
  /\ mangled' = IF torn THEN mangled \cup {c} ELSE mangled
  /\ torn' = FALSE
  /\ UNCHANGED <<pending, toClient, reader, alive, connected>>

WriteRequest(c) ==
  /\ pc[c] = "write"
  /\ SendRaw(c)
  /\ received' = IF torn THEN received
                 ELSE received \cup {[method |-> Method(op[c]), id |-> id[c], from |-> c]}
  /\ Goto(c, "waiting")
  /\ UNCHANGED <<clientVars, op, id, inbox, outcome, ready, noise, readable>>

WriteFails(c) ==
  /\ pc[c] = "write"
  /\ ~alive
  /\ Goto(c, "unregister")
  /\ UNCHANGED <<transportVars, clientVars, op, id, inbox, outcome, serverVars>>

Unregister(c) ==
  /\ pc[c] = "unregister"
  /\ pending' = pending \ {id[c]}
  /\ inbox' = [inbox EXCEPT ![c] = None]
  /\ Return(c, "io")
  /\ UNCHANGED <<torn, toClient, reader, alive, connected, mangled,
                 clientVars, op, id, serverVars>>

(* The answer to initialize is followed by the notification. *)
AfterAnswer(c, answer) ==
  CASE answer.kind = "error" -> Return(c, "protocol")
    [] answer.kind = "request" -> Return(c, "no_result")
    [] answer.kind = "result" /\ Method(op[c]) = "initialize" ->
         Goto(c, "notify") /\ UNCHANGED outcome
    [] OTHER -> Return(c, "ok")

TakeAnswer(c) ==
  /\ pc[c] = "waiting"
  /\ inbox[c] # None
  /\ AfterAnswer(c, inbox[c])
  /\ inbox' = [inbox EXCEPT ![c] = None]
  /\ UNCHANGED <<transportVars, clientVars, op, id, serverVars>>

NotifyInitialized(c) ==
  /\ pc[c] = "notify"
  /\ IF alive
     THEN /\ SendRaw(c)
          /\ ready' = (ready \/ ~torn)
          /\ Goto(c, "flag")
          /\ UNCHANGED outcome
     ELSE /\ Return(c, "io")
          /\ UNCHANGED <<transportVars, ready>>
  /\ UNCHANGED <<clientVars, op, id, inbox, received, noise, readable>>

SetInitialized(c) ==
  /\ pc[c] = "flag"
  /\ initialized' = TRUE
  /\ Return(c, "ok")
  /\ UNCHANGED <<transportVars, nextId, op, id, inbox, serverVars>>

ClearInitialized(c) ==
  /\ pc[c] = "closing"
  /\ initialized' = FALSE
  /\ Goto(c, "kill")
  /\ UNCHANGED <<transportVars, nextId, op, id, inbox, outcome, serverVars>>

ProcessEnds ==
  /\ alive' = FALSE
  /\ received' = {}
  /\ UNCHANGED <<ready, noise, readable>>

(* A second close finds no child to kill. *)
CloseTransport(c) ==
  /\ pc[c] = "kill"
  /\ connected' = FALSE
  /\ ProcessEnds
  /\ Return(c, "ok")
  /\ UNCHANGED <<pending, torn, toClient, reader, mangled, clientVars, op, id, inbox>>

ClientStep(c) ==
  \/ EnsureInitialized(c)
  \/ Register(c)
  \/ WriteRequest(c)
  \/ WriteFails(c)
  \/ Unregister(c)
  \/ TakeAnswer(c)
  \/ NotifyInitialized(c)
  \/ SetInitialized(c)
  \/ ClearInitialized(c)
  \/ CloseTransport(c)

(* The future goes away where it waits, and with it its receiver; its      *)
(* sender stays in the map.  A line may have been written in part.         *)
Drop(c) ==
  /\ c \in Droppable
  /\ pc[c] \in {"lock", "entering", "ensure", "call", "notify", "closing", "kill"} \cup Waiting
  /\ Goto(c, "dropped")
  /\ inbox' = [inbox EXCEPT ![c] = None]
  /\ torn' \in {torn, torn \/ (alive /\ pc[c] \in {"write", "notify"})}
  /\ UNCHANGED <<pending, toClient, reader, alive, connected, mangled,
                 clientVars, op, id, outcome, serverVars>>

----------------------------------------------------------------------------
(* The reader task *)

(* Mutant: the first line that is not an answer ends the task. *)
ReaderStops(line) == line.kind \in {"skipped", "unreadable"}

(* A line that is not UTF-8 is a read error, and ends the task beside a    *)
(* server that runs on.                                                    *)
ReaderEnds(line) == line.kind = "unreadable"

(* A line is parsed whatever it was meant as: a request of the server's    *)
(* own is a response without a result.  A sender without its receiver      *)
(* takes the line to nobody.                                               *)
DispatchLine ==
  /\ reader = "reading"
  /\ toClient # <<>>
  /\ LET line == Head(toClient)
     IN IF line.kind \notin {"skipped", "unreadable"} /\ line.id \in pending
        THEN /\ pending' = pending \ {line.id}
             /\ inbox' = [c \in Callers |->
                            IF id[c] = line.id /\ pc[c] \in Waiting THEN line ELSE inbox[c]]
        ELSE UNCHANGED <<pending, inbox>>
  /\ reader' = IF ReaderEnds(Head(toClient)) THEN "ended" ELSE reader
  /\ toClient' = Tail(toClient)
  /\ UNCHANGED <<torn, alive, connected, mangled, clientVars,
                 pc, op, id, outcome, serverVars>>

(* The senders still in the map keep their requests waiting. *)
EndOfFile ==
  /\ reader = "reading"
  /\ toClient = <<>>
  /\ ~alive
  /\ reader' = "ended"
  /\ UNCHANGED <<pending, torn, toClient, alive, connected, mangled,
                 clientVars, callerVars, serverVars>>

----------------------------------------------------------------------------
(* The server: any process that speaks the protocol *)

(* McpServer answers one request after the other; others need not.  Every  *)
(* request has an answer there, an error for an unknown method or tool.    *)
ServerAnswers(request, kind) ==
  /\ alive
  /\ toClient' = Append(toClient, [id |-> request.id, kind |-> kind,
                                   method |-> request.method, from |-> request.from])
  /\ received' = received \ {request}
  /\ UNCHANGED <<pending, torn, reader, alive, connected, mangled,
                 clientVars, callerVars, ready, noise, readable>>

(* A notification or an answer with a foreign id is skipped; a request of  *)
(* the server's own has an id of the server's own counter; some line may   *)
(* not be text at all.                                                     *)
ServerChatters(line) ==
  /\ alive
  /\ noise < MaxNoise
  /\ noise' = noise + 1
  /\ readable' = (readable /\ line.kind # "unreadable")
  /\ toClient' = Append(toClient, line)
  /\ UNCHANGED <<pending, torn, reader, alive, connected, mangled,
                 clientVars, callerVars, received, ready>>

Chatter ==
  {[id |-> 0, kind |-> k, method |-> "none", from |-> None] : k \in {"skipped", "unreadable"}} \cup
  {[id |-> i, kind |-> "request", method |-> "none", from |-> None] : i \in ServerIds}

ServerExits ==
  /\ ServerDies
  /\ alive
  /\ ProcessEnds
  /\ UNCHANGED <<pending, torn, toClient, reader, connected, mangled, clientVars, callerVars>>

Transport == DispatchLine \/ EndOfFile

Server ==
  \/ \E request \in received, kind \in {"result", "error"} : ServerAnswers(request, kind)
  \/ \E line \in Chatter : ServerChatters(line)
  \/ ServerExits
=============================================================================
