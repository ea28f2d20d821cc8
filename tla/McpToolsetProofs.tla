-------------------------- MODULE McpToolsetProofs --------------------------
(***************************************************************************)
(* Theorems about every McpToolset: whatever the callers, those that may   *)
(* be dropped, the noise of the server and who owns the client.            *)
(***************************************************************************)
EXTENDS McpToolset, TLAPS

----------------------------------------------------------------------------
(* The invariant *)

BeforeRequest == {"idle", "lock", "entering", "ensure", "call", "closing", "kill"}

(* A caller has an id from the moment it registers, and nobody else has it. *)
IdInv ==
  /\ \A c \in Callers : pc[c] \in BeforeRequest => id[c] = 0
  /\ \A c, d \in Callers : id[c] = id[d] /\ id[c] # 0 => c = d

(* A line, or a request, stems from the caller that has its id. *)
StemsFromCaller(line) ==
  /\ line.from \in Callers
  /\ line.id = id[line.from]
  /\ line.method = Method(op[line.from])
  /\ pc[line.from] \notin BeforeRequest

LinesInv ==
  /\ \A r \in received : StemsFromCaller(r)
  /\ \A i \in 1..Len(toClient) :
       toClient[i].kind \in {"result", "error"} => StemsFromCaller(toClient[i])

(* An answer is in the channel only while its caller waits for it; once it *)
(* is taken the sender is gone.                                            *)
ChannelInv ==
  \A c \in Callers :
    /\ inbox[c] # None => pc[c] \in Waiting
    /\ pc[c] \in {"notify", "flag"} => id[c] \notin pending

(* The notification was written, unless a torn line swallowed something. *)
HandshakeDone == mangled = {} => ready

HandshakeInv ==
  /\ initialized => HandshakeDone
  /\ \A c \in Callers :
       /\ pc[c] = "flag" => HandshakeDone
       /\ pc[c] \in {"call"} \cup Waiting /\ Method(op[c]) # "initialize" => HandshakeDone
       /\ pc[c] = "entering" => op[c] = "enter"
  /\ \A r \in received : r.method # "initialize" => HandshakeDone

Locked == {"entering", "ensure", "call", "notify", "flag", "closing", "kill", "returned"} \cup Waiting

(* In a toolset one caller at a time is at the client... *)
MutexInv ==
  owner = "toolset" => \A c \in Callers : pc[c] \in Locked => holder = c

(* ... so that no initialization overlaps a close... *)
CloseInv ==
  owner = "toolset" =>
    /\ ~connected => ~alive /\ ~initialized
    /\ \A c \in Callers :
         /\ pc[c] = "kill" => ~initialized
         /\ pc[c] = "flag" => connected

(* ... nor two listings: whoever is about to store one has the newest id.  *)
CacheInv ==
  /\ owner = "program" => cache = 0
  /\ \A c \in Callers :
       /\ pc[c] \in {"closing", "kill"} => op[c] \in {"close", "exit"}
       /\ pc[c] \in {"notify", "flag", "returned"} \cup Waiting
            /\ op[c] \in {"get_tools", "refresh"} /\ (pc[c] = "returned" => outcome[c] = "ok")
          => cache <= id[c]

Inv ==
  /\ TypeOK
  /\ IdInv
  /\ LinesInv
  /\ ChannelInv
  /\ PendingAccounted
  /\ AnswersMatched
  /\ HandshakeInv
  /\ MutexInv
  /\ CloseInv
  /\ CacheInv

----------------------------------------------------------------------------
(* The invariant is inductive, part by part *)

(* Types of what the steps read. *)
LEMMA McpTypes ==
  ASSUME TypeOK
  PROVE  /\ pending \subseteq 1..(nextId - 1) /\ nextId \in Nat \ {0}
         /\ \A c \in Callers : id[c] \in 0..(nextId - 1) /\ Method(op[c]) \in Methods
         /\ toClient \in Seq(Answer)
         /\ torn \in BOOLEAN /\ ready \in BOOLEAN
  BY DEF TypeOK, Method, Methods

LEMMA FirstLine ==
  ASSUME TypeOK, toClient # <<>>
  PROVE  /\ Head(toClient) = toClient[1] /\ Head(toClient) \in Answer
         /\ Tail(toClient) \in Seq(Answer) /\ Len(toClient) \in Nat \ {0}
         /\ Len(Tail(toClient)) = Len(toClient) - 1
         /\ \A i \in 1..Len(Tail(toClient)) : Tail(toClient)[i] = toClient[i + 1]
<1>1. toClient \in Seq(Answer)
  BY DEF TypeOK
<1>2. QED
  BY <1>1

(* Types *)
LEMMA TypeNext ==
  ASSUME Inv, [Next]_vars PROVE TypeOK'
<1> USE DEF transportVars, clientVars, callerVars, serverVars, toolsetVars, Goto, Return
<1>1. ASSUME NEW c \in Callers, GetCachedTools(c) PROVE TypeOK'
  BY <1>1, McpAssumption, OwnersAssumption DEF GetCachedTools, Begin, Inv, TypeOK, Entry,
     ClientOps, ToolsetOps
<1>2. ASSUME NEW c \in Callers, UseClient(c) PROVE TypeOK'
  BY <1>2, McpAssumption, OwnersAssumption DEF UseClient, ClientBegins, Entry, Inv, TypeOK,
     ClientOps, ToolsetOps
<1>3. ASSUME NEW c \in Callers, UseToolset(c) PROVE TypeOK'
  BY <1>3, McpAssumption, OwnersAssumption DEF UseToolset, Begin, Inv, TypeOK, Entry, ClientOps,
     ToolsetOps
<1>4. ASSUME NEW c \in Callers, Unlock(c) PROVE TypeOK'
  BY <1>4, McpAssumption, OwnersAssumption DEF Unlock, Inv, TypeOK, Entry, ClientOps, ToolsetOps
<1>5. ASSUME NEW c \in Callers, LockClient(c) PROVE TypeOK'
  BY <1>5, McpAssumption, OwnersAssumption DEF LockClient, MutexFree, Inv, TypeOK, Entry,
     ClientOps, ToolsetOps
<1>6. ASSUME NEW c \in Callers, EnterToolset(c) PROVE TypeOK'
  BY <1>6, McpAssumption, OwnersAssumption DEF EnterToolset, Inv, TypeOK, Entry, ClientOps,
     ToolsetOps
<1>7. ASSUME NEW c \in Callers, DropCaller(c) PROVE TypeOK'
  BY <1>7, McpAssumption, OwnersAssumption DEF DropCaller, Drop, Inv, TypeOK, Entry, ClientOps,
     ToolsetOps
<1>8. ASSUME NEW c \in Callers, Unregister(c), UNCHANGED toolsetVars PROVE TypeOK'
  BY <1>8, McpAssumption, OwnersAssumption DEF Unregister, Inv, TypeOK, Entry, ClientOps,
     ToolsetOps
<1>9. ASSUME NEW c \in Callers, EnsureInitialized(c), UNCHANGED toolsetVars PROVE TypeOK'
  BY <1>9, McpAssumption, OwnersAssumption DEF EnsureInitialized, Initialized, Inv, TypeOK,
     Entry, ClientOps, ToolsetOps
<1>10. ASSUME NEW c \in Callers, WriteFails(c), UNCHANGED toolsetVars PROVE TypeOK'
  BY <1>10, McpAssumption, OwnersAssumption DEF WriteFails, Inv, TypeOK, Entry, ClientOps,
     ToolsetOps
<1>11. ASSUME NEW c \in Callers, Register(c), UNCHANGED toolsetVars PROVE TypeOK'
  <2>1. /\ nextId \in Nat \ {0} /\ nextId' = nextId + 1 /\ pending' = pending \cup {nextId}
        /\ id' = [id EXCEPT ![c] = nextId] /\ pc' = [pc EXCEPT ![c] = "write"] /\ cache' = cache
        /\ UNCHANGED <<toClient, reader, torn, alive, connected, initialized, ready, op, inbox,
                       outcome, received, mangled, noise, readable, owner, holder>>
    BY <1>11, McpTypes DEF Register, NextRequestId, Inv
  <2>2. /\ pending' \subseteq 1..(nextId' - 1) /\ nextId' \in Nat \ {0}
        /\ cache' \in 0..(nextId' - 1)
    BY <2>1 DEF Inv, TypeOK
  <2>3. id' \in [Callers -> 0..(nextId' - 1)]
    <3>1. 0..(nextId - 1) \subseteq 0..(nextId' - 1) /\ nextId \in 0..(nextId' - 1)
      BY <2>1
    <3>2. QED
      BY <2>1, <3>1 DEF Inv, TypeOK
  <2>4. QED
    BY <2>1, <2>2, <2>3 DEF Inv, TypeOK
<1>12. ASSUME NEW c \in Callers, WriteRequest(c), UNCHANGED toolsetVars PROVE TypeOK'
  <2>1. [method |-> Method(op[c]), id |-> id[c], from |-> c] \in Request
    BY McpTypes DEF Inv, Request
  <2>2. received' \subseteq Request
    BY <1>12, <2>1 DEF WriteRequest, Inv, TypeOK
  <2>3. QED
    BY <1>12, <2>2 DEF WriteRequest, SendRaw, Inv, TypeOK
<1>13. ASSUME NEW c \in Callers, TakeAnswer(c), UNCHANGED toolsetVars PROVE TypeOK'
  BY <1>13, McpAssumption, OwnersAssumption DEF TakeAnswer, AfterAnswer, Inv, TypeOK, Entry,
     ClientOps, ToolsetOps
<1>14. ASSUME NEW c \in Callers, NotifyInitialized(c), UNCHANGED toolsetVars PROVE TypeOK'
  <2>1. ready' \in BOOLEAN /\ torn' \in BOOLEAN
    BY <1>14, McpTypes DEF NotifyInitialized, SendRaw, Inv
  <2>2. QED
    BY <1>14, <2>1 DEF NotifyInitialized, SendRaw, Inv, TypeOK
<1>15. ASSUME NEW c \in Callers, CloseTransport(c), UNCHANGED toolsetVars PROVE TypeOK'
  BY <1>15, McpAssumption, OwnersAssumption DEF CloseTransport, ProcessEnds, Inv, TypeOK, Entry,
     ClientOps, ToolsetOps
<1>16. ASSUME NEW c \in Callers, SetInitialized(c), UNCHANGED toolsetVars PROVE TypeOK'
  BY <1>16, McpAssumption, OwnersAssumption DEF SetInitialized, Inv, TypeOK, Entry, ClientOps,
     ToolsetOps
<1>17. ASSUME NEW c \in Callers, ClearInitialized(c), UNCHANGED toolsetVars PROVE TypeOK'
  BY <1>17, McpAssumption, OwnersAssumption DEF ClearInitialized, Inv, TypeOK, Entry, ClientOps,
     ToolsetOps
<1>18. CASE DispatchLine /\ UNCHANGED toolsetVars
  <2>1. Head(toClient) \in Answer /\ Tail(toClient) \in Seq(Answer)
    BY <1>18, FirstLine DEF DispatchLine, Inv
  <2>2. inbox' \in [Callers -> Answer \cup {None}]
    BY <1>18, <2>1 DEF DispatchLine, Inv, TypeOK
  <2>3. pending' \subseteq pending /\ reader' \in {"reading", "ended"}
    BY <1>18 DEF DispatchLine, Inv, TypeOK
  <2>4. QED
    BY <1>18, <2>1, <2>2, <2>3 DEF DispatchLine, Inv, TypeOK
<1>19. CASE (EndOfFile \/ ServerExits) /\ UNCHANGED toolsetVars
  BY <1>19, McpAssumption, OwnersAssumption DEF EndOfFile, ServerExits, ProcessEnds, Inv,
     TypeOK, Entry, ClientOps, ToolsetOps, Request, Answer, Methods, Method
<1>20. ASSUME NEW r \in received, NEW kind \in {"result", "error"}, ServerAnswers(r, kind),
            UNCHANGED toolsetVars PROVE TypeOK'
  BY <1>20, McpAssumption, OwnersAssumption DEF ServerAnswers, Inv, TypeOK, Entry, ClientOps,
     ToolsetOps, Request, Answer, Methods, Method
<1>21. ASSUME NEW line \in Chatter, ServerChatters(line), UNCHANGED toolsetVars PROVE TypeOK'
  <2>1. line \in Answer
    BY McpAssumption DEF Chatter, Answer
  <2>2. toClient' \in Seq(Answer) /\ noise' \in 0..MaxNoise /\ readable' \in BOOLEAN
    BY <1>21, <2>1, McpAssumption DEF ServerChatters, Inv, TypeOK
  <2>3. QED
    BY <1>21, <2>2 DEF ServerChatters, Inv, TypeOK
<1>22. CASE UNCHANGED vars
  BY <1>22 DEF vars, mcpVars, Inv, TypeOK, Entry, ClientOps, ToolsetOps
<1>23. QED
  BY <1>1, <1>2, <1>3, <1>4, <1>5, <1>6, <1>7, <1>8, <1>9, <1>10, <1>11, <1>12, <1>13, <1>14,
     <1>15, <1>16, <1>17, <1>18, <1>19, <1>20, <1>21, <1>22
  DEF Next, Caller, ClientWorks, ClientStep, Transport, Server

(* Ids are handed out once. *)
LEMMA IdNext ==
  ASSUME Inv, [Next]_vars PROVE IdInv'
<1> USE DEF transportVars, clientVars, callerVars, serverVars, toolsetVars, Goto, Return
<1>1. ASSUME NEW c \in Callers, UseClient(c) \/ UseToolset(c) \/ GetCachedTools(c) PROVE IdInv'
  BY <1>1 DEF UseClient, ClientBegins, Entry, UseToolset, Begin, GetCachedTools, Inv, TypeOK,
     IdInv, BeforeRequest, Waiting
<1>2. ASSUME NEW c \in Callers, LockClient(c) \/ EnterToolset(c) \/ Unlock(c) PROVE IdInv'
  BY <1>2 DEF LockClient, MutexFree, EnterToolset, Unlock, Inv, TypeOK, IdInv, BeforeRequest,
     Waiting
<1>3. ASSUME NEW c \in Callers, DropCaller(c) PROVE IdInv'
  BY <1>3 DEF DropCaller, Drop, Inv, TypeOK, IdInv, BeforeRequest, Waiting
<1>4. ASSUME NEW c \in Callers, EnsureInitialized(c) \/ WriteFails(c) \/ Unregister(c),
            UNCHANGED toolsetVars PROVE IdInv'
  BY <1>4 DEF EnsureInitialized, Initialized, WriteFails, Unregister, Inv, TypeOK, IdInv,
     BeforeRequest, Waiting
<1>5. ASSUME NEW c \in Callers, Register(c), UNCHANGED toolsetVars PROVE IdInv'
  BY <1>5 DEF Register, NextRequestId, Inv, TypeOK, IdInv, BeforeRequest, Waiting
<1>6. ASSUME NEW c \in Callers, WriteRequest(c), UNCHANGED toolsetVars PROVE IdInv'
  BY <1>6 DEF WriteRequest, SendRaw, Inv, TypeOK, IdInv, BeforeRequest, Waiting
<1>7. ASSUME NEW c \in Callers, TakeAnswer(c), UNCHANGED toolsetVars PROVE IdInv'
  BY <1>7 DEF TakeAnswer, AfterAnswer, Inv, TypeOK, IdInv, BeforeRequest, Waiting
<1>8. ASSUME NEW c \in Callers, NotifyInitialized(c), UNCHANGED toolsetVars PROVE IdInv'
  BY <1>8 DEF NotifyInitialized, SendRaw, Inv, TypeOK, IdInv, BeforeRequest, Waiting
<1>9. ASSUME NEW c \in Callers, SetInitialized(c) \/ ClearInitialized(c) \/ CloseTransport(c),
            UNCHANGED toolsetVars PROVE IdInv'
  BY <1>9 DEF SetInitialized, ClearInitialized, CloseTransport, ProcessEnds, Inv, TypeOK, IdInv,
     BeforeRequest, Waiting
<1>10. CASE DispatchLine /\ UNCHANGED toolsetVars
  BY <1>10 DEF DispatchLine, ReaderEnds, Inv, TypeOK, IdInv, BeforeRequest, Waiting
<1>11. CASE (EndOfFile \/ ServerExits) /\ UNCHANGED toolsetVars
  BY <1>11 DEF EndOfFile, ServerExits, ProcessEnds, Inv, TypeOK, IdInv, BeforeRequest, Waiting
<1>12. ASSUME NEW r \in received, NEW kind \in {"result", "error"}, ServerAnswers(r, kind),
            UNCHANGED toolsetVars PROVE IdInv'
  BY <1>12 DEF ServerAnswers, Inv, TypeOK, IdInv, BeforeRequest, Waiting
<1>13. ASSUME NEW line \in Chatter, ServerChatters(line), UNCHANGED toolsetVars PROVE IdInv'
  BY <1>13 DEF ServerChatters, Chatter, Inv, TypeOK, IdInv, BeforeRequest, Waiting
<1>14. CASE UNCHANGED vars
  BY <1>14 DEF vars, mcpVars, Inv, TypeOK, IdInv, BeforeRequest, Waiting
<1>15. QED
  BY <1>1, <1>2, <1>3, <1>4, <1>5, <1>6, <1>7, <1>8, <1>9, <1>10, <1>11, <1>12, <1>13, <1>14
  DEF Next, Caller, ClientWorks, ClientStep, Transport, Server

(* Channels *)
LEMMA ChannelNext ==
  ASSUME Inv, [Next]_vars PROVE ChannelInv'
<1> USE DEF transportVars, clientVars, callerVars, serverVars, toolsetVars, Goto, Return
<1>1. ASSUME NEW c \in Callers, UseClient(c) \/ UseToolset(c) \/ GetCachedTools(c) PROVE ChannelInv'
  <2>1. /\ inbox' = inbox /\ pending' = pending /\ id' = id /\ pc[c] = "idle"
        /\ \E place \in {"call", "closing", "ensure", "lock", "done"} :
             pc' = [pc EXCEPT ![c] = place]
    BY <1>1 DEF UseClient, ClientBegins, Entry, UseToolset, Begin, GetCachedTools
  <2>2. QED
    BY <2>1 DEF Inv, TypeOK, ChannelInv, Waiting
<1>2. ASSUME NEW c \in Callers, LockClient(c) \/ EnterToolset(c) \/ Unlock(c) PROVE ChannelInv'
  BY <1>2, McpAssumption DEF LockClient, MutexFree, EnterToolset, Unlock, Inv, TypeOK, IdInv,
     ChannelInv, PendingAccounted, BeforeRequest, Waiting
<1>3. ASSUME NEW c \in Callers, DropCaller(c) PROVE ChannelInv'
  BY <1>3, McpAssumption DEF DropCaller, Drop, Inv, TypeOK, IdInv, ChannelInv, PendingAccounted,
     BeforeRequest, Waiting
<1>4. ASSUME NEW c \in Callers, EnsureInitialized(c) \/ WriteFails(c) \/ Unregister(c),
            UNCHANGED toolsetVars PROVE ChannelInv'
  BY <1>4, McpAssumption DEF EnsureInitialized, Initialized, WriteFails, Unregister, Inv,
     TypeOK, IdInv, ChannelInv, PendingAccounted, BeforeRequest, Waiting
<1>5. ASSUME NEW c \in Callers, Register(c), UNCHANGED toolsetVars PROVE ChannelInv'
  BY <1>5, McpAssumption DEF Register, NextRequestId, Inv, TypeOK, IdInv, ChannelInv,
     PendingAccounted, BeforeRequest, Waiting
<1>6. ASSUME NEW c \in Callers, WriteRequest(c), UNCHANGED toolsetVars PROVE ChannelInv'
  BY <1>6, McpAssumption DEF WriteRequest, SendRaw, Inv, TypeOK, IdInv, ChannelInv,
     PendingAccounted, BeforeRequest, Waiting
<1>7. ASSUME NEW c \in Callers, TakeAnswer(c), UNCHANGED toolsetVars PROVE ChannelInv'
  BY <1>7, McpAssumption DEF TakeAnswer, AfterAnswer, Inv, TypeOK, IdInv, ChannelInv,
     PendingAccounted, BeforeRequest, Waiting
<1>8. ASSUME NEW c \in Callers, NotifyInitialized(c), UNCHANGED toolsetVars PROVE ChannelInv'
  BY <1>8, McpAssumption DEF NotifyInitialized, SendRaw, Inv, TypeOK, IdInv, ChannelInv,
     PendingAccounted, BeforeRequest, Waiting
<1>9. ASSUME NEW c \in Callers, SetInitialized(c) \/ ClearInitialized(c) \/ CloseTransport(c),
            UNCHANGED toolsetVars PROVE ChannelInv'
  BY <1>9, McpAssumption DEF SetInitialized, ClearInitialized, CloseTransport, ProcessEnds, Inv,
     TypeOK, IdInv, ChannelInv, PendingAccounted, BeforeRequest, Waiting
<1>10. CASE DispatchLine /\ UNCHANGED toolsetVars
  BY <1>10, McpAssumption DEF DispatchLine, ReaderEnds, Inv, TypeOK, IdInv, ChannelInv,
     PendingAccounted, BeforeRequest, Waiting
<1>11. CASE (EndOfFile \/ ServerExits) /\ UNCHANGED toolsetVars
  BY <1>11, McpAssumption DEF EndOfFile, ServerExits, ProcessEnds, Inv, TypeOK, IdInv,
     ChannelInv, PendingAccounted, BeforeRequest, Waiting
<1>12. ASSUME NEW r \in received, NEW kind \in {"result", "error"}, ServerAnswers(r, kind),
            UNCHANGED toolsetVars PROVE ChannelInv'
  BY <1>12, McpAssumption DEF ServerAnswers, Inv, TypeOK, IdInv, ChannelInv, PendingAccounted,
     BeforeRequest, Waiting
<1>13. ASSUME NEW line \in Chatter, ServerChatters(line), UNCHANGED toolsetVars PROVE ChannelInv'
  BY <1>13, McpAssumption DEF ServerChatters, Chatter, Inv, TypeOK, IdInv, ChannelInv,
     PendingAccounted, BeforeRequest, Waiting
<1>14. CASE UNCHANGED vars
  BY <1>14 DEF vars, mcpVars, Inv, TypeOK, IdInv, ChannelInv, PendingAccounted, BeforeRequest,
     Waiting
<1>15. QED
  BY <1>1, <1>2, <1>3, <1>4, <1>5, <1>6, <1>7, <1>8, <1>9, <1>10, <1>11, <1>12, <1>13, <1>14
  DEF Next, Caller, ClientWorks, ClientStep, Transport, Server

(* The map and the channels *)
LEMMA PendingNext ==
  ASSUME Inv, [Next]_vars PROVE PendingAccounted'
<1> USE DEF transportVars, clientVars, callerVars, serverVars, toolsetVars, Goto, Return
<1>1. ASSUME NEW c \in Callers, UseClient(c) \/ UseToolset(c) \/ GetCachedTools(c) PROVE PendingAccounted'
  BY <1>1, McpAssumption DEF UseClient, ClientBegins, Entry, UseToolset, Begin, GetCachedTools,
     Inv, TypeOK, IdInv, ChannelInv, PendingAccounted, BeforeRequest, Waiting
<1>2. ASSUME NEW c \in Callers, LockClient(c) \/ EnterToolset(c) \/ Unlock(c) PROVE PendingAccounted'
  BY <1>2, McpAssumption DEF LockClient, MutexFree, EnterToolset, Unlock, Inv, TypeOK, IdInv,
     ChannelInv, PendingAccounted, BeforeRequest, Waiting
<1>3. ASSUME NEW c \in Callers, DropCaller(c) PROVE PendingAccounted'
  BY <1>3, McpAssumption DEF DropCaller, Drop, Inv, TypeOK, IdInv, ChannelInv, PendingAccounted,
     BeforeRequest, Waiting
<1>4. ASSUME NEW c \in Callers, Unregister(c), UNCHANGED toolsetVars PROVE PendingAccounted'
  BY <1>4, McpAssumption DEF Unregister, Inv, TypeOK, IdInv, ChannelInv, PendingAccounted,
     BeforeRequest, Waiting
<1>5. ASSUME NEW c \in Callers, EnsureInitialized(c), UNCHANGED toolsetVars PROVE PendingAccounted'
  BY <1>5, McpAssumption DEF EnsureInitialized, Initialized, Inv, TypeOK, IdInv, ChannelInv,
     PendingAccounted, BeforeRequest, Waiting
<1>6. ASSUME NEW c \in Callers, WriteFails(c), UNCHANGED toolsetVars PROVE PendingAccounted'
  BY <1>6, McpAssumption DEF WriteFails, Inv, TypeOK, IdInv, ChannelInv, PendingAccounted,
     BeforeRequest, Waiting
<1>7. ASSUME NEW c \in Callers, Register(c), UNCHANGED toolsetVars PROVE PendingAccounted'
  <2>1. /\ nextId \in Nat \ {0} /\ id[c] = 0 /\ inbox[c] = None
        /\ \A d \in Callers : id[d] \in 0..(nextId - 1)
        /\ pending \subseteq 1..(nextId - 1)
    BY <1>7, McpTypes DEF Register, Inv, IdInv, ChannelInv, BeforeRequest, Waiting
  <2>2. /\ pending' = pending \cup {nextId} /\ inbox' = inbox
        /\ id' = [id EXCEPT ![c] = nextId] /\ pc' = [pc EXCEPT ![c] = "write"]
    BY <1>7 DEF Register, NextRequestId
  <2>3. /\ id'[c] = nextId /\ pc'[c] = "write"
        /\ \A d \in Callers \ {c} : id'[d] = id[d] /\ pc'[d] = pc[d] /\ id[d] # nextId
    BY <2>1, <2>2 DEF Inv, TypeOK
  <2>4. \A i \in pending' : \E d \in Callers : id'[d] = i
    <3>1. ASSUME NEW i \in pending PROVE \E d \in Callers : id'[d] = i
      <4>1. PICK d \in Callers : id[d] = i
        BY <3>1 DEF Inv, PendingAccounted
      <4>2. d # c
        BY <2>1, <3>1, <4>1
      <4>3. QED
        BY <2>3, <4>1, <4>2
    <3>2. QED
      BY <2>2, <2>3, <3>1
  <2>5. ASSUME NEW d \in Callers
        PROVE  /\ pc'[d] \in Waiting => (id'[d] \in pending' <=> inbox'[d] = None)
               /\ pc'[d] \in {"returned", "done"} => id'[d] \notin pending'
    BY <2>1, <2>2, <2>3, <2>5 DEF Inv, PendingAccounted
  <2>6. QED
    BY <2>4, <2>5 DEF PendingAccounted
<1>8. ASSUME NEW c \in Callers, WriteRequest(c), UNCHANGED toolsetVars PROVE PendingAccounted'
  BY <1>8, McpAssumption DEF WriteRequest, SendRaw, Inv, TypeOK, IdInv, ChannelInv,
     PendingAccounted, BeforeRequest, Waiting
<1>9. ASSUME NEW c \in Callers, TakeAnswer(c), UNCHANGED toolsetVars PROVE PendingAccounted'
  BY <1>9, McpAssumption DEF TakeAnswer, AfterAnswer, Inv, TypeOK, IdInv, ChannelInv,
     PendingAccounted, BeforeRequest, Waiting
<1>10. ASSUME NEW c \in Callers, NotifyInitialized(c), UNCHANGED toolsetVars PROVE PendingAccounted'
  <2>1. pending' = pending /\ inbox' = inbox /\ id' = id /\ id[c] \notin pending
    BY <1>10 DEF NotifyInitialized, SendRaw, Inv, ChannelInv
  <2>2. /\ pc'[c] \in {"flag", "returned"}
        /\ \A d \in Callers \ {c} : pc'[d] = pc[d]
    BY <1>10 DEF NotifyInitialized, Inv, TypeOK
  <2>3. QED
    BY <2>1, <2>2 DEF Inv, PendingAccounted, Waiting
<1>11. ASSUME NEW c \in Callers, CloseTransport(c), UNCHANGED toolsetVars PROVE PendingAccounted'
  <2>1. pending' = pending /\ inbox' = inbox /\ id' = id /\ id[c] \notin pending
    <3>1. id[c] = 0 /\ 0 \notin pending
      BY <1>11, McpTypes DEF CloseTransport, Inv, IdInv, BeforeRequest
    <3>2. QED
      BY <1>11, <3>1 DEF CloseTransport
  <2>2. pc'[c] = "returned" /\ \A d \in Callers \ {c} : pc'[d] = pc[d]
    BY <1>11 DEF CloseTransport, Inv, TypeOK
  <2>3. QED
    BY <2>1, <2>2 DEF Inv, PendingAccounted, Waiting
<1>12. ASSUME NEW c \in Callers, SetInitialized(c), UNCHANGED toolsetVars PROVE PendingAccounted'
  BY <1>12, McpAssumption DEF SetInitialized, Inv, TypeOK, IdInv, ChannelInv, PendingAccounted,
     BeforeRequest, Waiting
<1>13. ASSUME NEW c \in Callers, ClearInitialized(c), UNCHANGED toolsetVars PROVE PendingAccounted'
  BY <1>13, McpAssumption DEF ClearInitialized, Inv, TypeOK, IdInv, ChannelInv,
     PendingAccounted, BeforeRequest, Waiting
<1>14. CASE DispatchLine /\ UNCHANGED toolsetVars
  <2> DEFINE line == Head(toClient)
  <2>1. id' = id /\ pc' = pc
    BY <1>14 DEF DispatchLine
  <2>2. CASE line.kind \notin {"skipped", "unreadable"} /\ line.id \in pending
    <3>1. /\ pending' = pending \ {line.id}
          /\ inbox' = [d \in Callers |->
                         IF id[d] = line.id /\ pc[d] \in Waiting THEN line ELSE inbox[d]]
      BY <1>14, <2>2 DEF DispatchLine
    <3>2. line # None
      BY <1>14, FirstLine, McpAssumption DEF DispatchLine, Inv
    <3> HIDE DEF line
    <3>3. ASSUME NEW d \in Callers, pc[d] \in Waiting PROVE id[d] \in pending' <=> inbox'[d] = None
      BY <3>1, <3>2, <3>3 DEF Inv, PendingAccounted
    <3>4. QED
      BY <2>1, <3>1, <3>3 DEF Inv, PendingAccounted
  <2>3. CASE ~(line.kind \notin {"skipped", "unreadable"} /\ line.id \in pending)
    BY <1>14, <2>1, <2>3 DEF DispatchLine, Inv, PendingAccounted
  <2>4. QED
    BY <2>2, <2>3
<1>15. CASE (EndOfFile \/ ServerExits) /\ UNCHANGED toolsetVars
  BY <1>15, McpAssumption DEF EndOfFile, ServerExits, ProcessEnds, Inv, TypeOK, IdInv,
     ChannelInv, PendingAccounted, BeforeRequest, Waiting
<1>16. ASSUME NEW r \in received, NEW kind \in {"result", "error"}, ServerAnswers(r, kind),
            UNCHANGED toolsetVars PROVE PendingAccounted'
  BY <1>16, McpAssumption DEF ServerAnswers, Inv, TypeOK, IdInv, ChannelInv, PendingAccounted,
     BeforeRequest, Waiting
<1>17. ASSUME NEW line \in Chatter, ServerChatters(line), UNCHANGED toolsetVars PROVE PendingAccounted'
  BY <1>17, McpAssumption DEF ServerChatters, Chatter, Inv, TypeOK, IdInv, ChannelInv,
     PendingAccounted, BeforeRequest, Waiting
<1>18. CASE UNCHANGED vars
  BY <1>18 DEF vars, mcpVars, Inv, TypeOK, IdInv, ChannelInv, PendingAccounted, BeforeRequest,
     Waiting
<1>19. QED
  BY <1>1, <1>2, <1>3, <1>4, <1>5, <1>6, <1>7, <1>8, <1>9, <1>10, <1>11, <1>12, <1>13, <1>14,
     <1>15, <1>16, <1>17, <1>18
  DEF Next, Caller, ClientWorks, ClientStep, Transport, Server

(* What the server has read and written *)
LEMMA LinesNext ==
  ASSUME Inv, [Next]_vars PROVE LinesInv'
<1> USE DEF transportVars, clientVars, callerVars, serverVars, toolsetVars, Goto, Return
<1>1. ASSUME NEW c \in Callers, GetCachedTools(c) PROVE LinesInv'
  BY <1>1, McpAssumption DEF GetCachedTools, Begin, Inv, TypeOK, LinesInv, StemsFromCaller,
     BeforeRequest, Waiting
<1>2. ASSUME NEW c \in Callers, UseClient(c) PROVE LinesInv'
  BY <1>2, McpAssumption DEF UseClient, ClientBegins, Entry, Inv, TypeOK, LinesInv,
     StemsFromCaller, BeforeRequest, Waiting
<1>3. ASSUME NEW c \in Callers, UseToolset(c) PROVE LinesInv'
  BY <1>3, McpAssumption DEF UseToolset, Begin, Inv, TypeOK, LinesInv, StemsFromCaller,
     BeforeRequest, Waiting
<1>4. ASSUME NEW c \in Callers, LockClient(c) \/ EnterToolset(c) \/ Unlock(c) PROVE LinesInv'
  BY <1>4, McpAssumption DEF LockClient, MutexFree, EnterToolset, Unlock, Inv, TypeOK, LinesInv,
     StemsFromCaller, BeforeRequest, Waiting
<1>5. ASSUME NEW c \in Callers, DropCaller(c) PROVE LinesInv'
  BY <1>5, McpAssumption DEF DropCaller, Drop, Inv, TypeOK, LinesInv, StemsFromCaller,
     BeforeRequest, Waiting
<1>6. ASSUME NEW c \in Callers, WriteFails(c) \/ Unregister(c), UNCHANGED toolsetVars PROVE LinesInv'
  BY <1>6, McpAssumption DEF WriteFails, Unregister, Inv, TypeOK, LinesInv, StemsFromCaller,
     BeforeRequest, Waiting
<1>7. ASSUME NEW c \in Callers, EnsureInitialized(c), UNCHANGED toolsetVars PROVE LinesInv'
  BY <1>7, McpAssumption DEF EnsureInitialized, Initialized, Inv, TypeOK, LinesInv,
     StemsFromCaller, BeforeRequest, Waiting
<1>8. ASSUME NEW c \in Callers, Register(c), UNCHANGED toolsetVars PROVE LinesInv'
  BY <1>8, McpAssumption DEF Register, NextRequestId, Inv, TypeOK, IdInv, LinesInv,
     StemsFromCaller, BeforeRequest, Waiting
<1>9. ASSUME NEW c \in Callers, WriteRequest(c), UNCHANGED toolsetVars PROVE LinesInv'
  BY <1>9, McpAssumption DEF WriteRequest, SendRaw, Inv, TypeOK, IdInv, LinesInv,
     StemsFromCaller, BeforeRequest, Waiting
<1>10. ASSUME NEW c \in Callers, TakeAnswer(c), UNCHANGED toolsetVars PROVE LinesInv'
  BY <1>10, McpAssumption DEF TakeAnswer, AfterAnswer, Inv, TypeOK, LinesInv, StemsFromCaller,
     BeforeRequest, Waiting
<1>11. ASSUME NEW c \in Callers, NotifyInitialized(c), UNCHANGED toolsetVars PROVE LinesInv'
  BY <1>11, McpAssumption DEF NotifyInitialized, SendRaw, Inv, TypeOK, LinesInv,
     StemsFromCaller, BeforeRequest, Waiting
<1>12. ASSUME NEW c \in Callers, SetInitialized(c) \/ ClearInitialized(c) \/ CloseTransport(c),
            UNCHANGED toolsetVars PROVE LinesInv'
  BY <1>12, McpAssumption DEF SetInitialized, ClearInitialized, CloseTransport, ProcessEnds,
     Inv, TypeOK, LinesInv, StemsFromCaller, BeforeRequest, Waiting
<1>13. CASE DispatchLine /\ UNCHANGED toolsetVars
  <2>1. toClient # <<>> /\ toClient' = Tail(toClient) /\ UNCHANGED <<received, id, op, pc>>
    BY <1>13 DEF DispatchLine
  <2>2. /\ Len(toClient) \in Nat \ {0} /\ Len(toClient') = Len(toClient) - 1
        /\ \A i \in 1..Len(toClient') : toClient'[i] = toClient[i + 1]
    BY <2>1, FirstLine DEF Inv
  <2>3. ASSUME NEW i \in 1..Len(toClient'), toClient'[i].kind \in {"result", "error"}
        PROVE  StemsFromCaller(toClient[i + 1])
    <3>1. i + 1 \in 1..Len(toClient) /\ toClient'[i] = toClient[i + 1]
      BY <2>2
    <3>2. QED
      BY <2>3, <3>1 DEF Inv, LinesInv
  <2>4. ASSUME NEW i \in 1..Len(toClient'), toClient'[i].kind \in {"result", "error"}
        PROVE  StemsFromCaller(toClient[i])'
    BY <2>1, <2>2, <2>3, <2>4 DEF StemsFromCaller
  <2>5. \A r \in received' : StemsFromCaller(r)'
    BY <2>1 DEF Inv, LinesInv, StemsFromCaller
  <2>6. QED
    BY <2>4, <2>5 DEF LinesInv
<1>14. CASE (EndOfFile \/ ServerExits) /\ UNCHANGED toolsetVars
  BY <1>14, McpAssumption DEF EndOfFile, ServerExits, ProcessEnds, Inv, TypeOK, LinesInv,
     StemsFromCaller, BeforeRequest, Waiting
<1>15. ASSUME NEW r \in received, NEW kind \in {"result", "error"}, ServerAnswers(r, kind),
            UNCHANGED toolsetVars PROVE LinesInv'
  BY <1>15, McpAssumption DEF ServerAnswers, Inv, TypeOK, LinesInv, StemsFromCaller,
     BeforeRequest, Waiting
<1>16. ASSUME NEW line \in Chatter, ServerChatters(line), UNCHANGED toolsetVars PROVE LinesInv'
  BY <1>16, McpAssumption DEF ServerChatters, Chatter, Inv, TypeOK, LinesInv, StemsFromCaller,
     BeforeRequest, Waiting
<1>17. CASE UNCHANGED vars
  BY <1>17 DEF vars, mcpVars, Inv, TypeOK, LinesInv, StemsFromCaller, BeforeRequest, Waiting
<1>18. QED
  BY <1>1, <1>2, <1>3, <1>4, <1>5, <1>6, <1>7, <1>8, <1>9, <1>10, <1>11, <1>12, <1>13, <1>14,
     <1>15, <1>16, <1>17
  DEF Next, Caller, ClientWorks, ClientStep, Transport, Server

(* What the callers are handed *)
LEMMA AnswersNext ==
  ASSUME Inv, [Next]_vars PROVE AnswersMatched'
<1> USE DEF transportVars, clientVars, callerVars, serverVars, toolsetVars, Goto, Return
<1>1. ASSUME NEW c \in Callers, GetCachedTools(c) PROVE AnswersMatched'
  BY <1>1, McpAssumption DEF GetCachedTools, Begin, Inv, TypeOK, ChannelInv, AnswersMatched,
     Waiting
<1>2. ASSUME NEW c \in Callers, UseClient(c) PROVE AnswersMatched'
  <2>1. inbox' = inbox /\ inbox[c] = None /\ \A d \in Callers \ {c} : op'[d] = op[d]
    BY <1>2 DEF UseClient, ClientBegins, Inv, TypeOK, ChannelInv, Waiting
  <2>2. QED
    BY <2>1 DEF Inv, AnswersMatched
<1>3. ASSUME NEW c \in Callers, UseToolset(c) PROVE AnswersMatched'
  <2>1. inbox' = inbox /\ inbox[c] = None /\ \A d \in Callers \ {c} : op'[d] = op[d]
    BY <1>3 DEF UseToolset, Begin, Inv, TypeOK, ChannelInv, Waiting
  <2>2. QED
    BY <2>1 DEF Inv, AnswersMatched
<1>4. ASSUME NEW c \in Callers, LockClient(c) \/ EnterToolset(c) \/ Unlock(c) PROVE AnswersMatched'
  BY <1>4, McpAssumption DEF LockClient, MutexFree, EnterToolset, Unlock, Inv, TypeOK,
     ChannelInv, AnswersMatched, Waiting
<1>5. ASSUME NEW c \in Callers, DropCaller(c) PROVE AnswersMatched'
  BY <1>5, McpAssumption DEF DropCaller, Drop, Inv, TypeOK, ChannelInv, AnswersMatched, Waiting
<1>6. ASSUME NEW c \in Callers, EnsureInitialized(c) \/ WriteFails(c) \/ Unregister(c),
            UNCHANGED toolsetVars PROVE AnswersMatched'
  BY <1>6, McpAssumption DEF EnsureInitialized, Initialized, WriteFails, Unregister, Inv,
     TypeOK, ChannelInv, AnswersMatched, Waiting
<1>7. ASSUME NEW c \in Callers, Register(c), UNCHANGED toolsetVars PROVE AnswersMatched'
  BY <1>7, McpAssumption DEF Register, NextRequestId, Inv, TypeOK, ChannelInv, AnswersMatched,
     Waiting
<1>8. ASSUME NEW c \in Callers, WriteRequest(c), UNCHANGED toolsetVars PROVE AnswersMatched'
  BY <1>8, McpAssumption DEF WriteRequest, SendRaw, Inv, TypeOK, ChannelInv, AnswersMatched,
     Waiting
<1>9. ASSUME NEW c \in Callers, TakeAnswer(c), UNCHANGED toolsetVars PROVE AnswersMatched'
  BY <1>9, McpAssumption DEF TakeAnswer, AfterAnswer, Inv, TypeOK, ChannelInv, AnswersMatched,
     Waiting
<1>10. ASSUME NEW c \in Callers, NotifyInitialized(c), UNCHANGED toolsetVars PROVE AnswersMatched'
  BY <1>10, McpAssumption DEF NotifyInitialized, SendRaw, Inv, TypeOK, ChannelInv,
     AnswersMatched, Waiting
<1>11. ASSUME NEW c \in Callers, SetInitialized(c) \/ ClearInitialized(c) \/ CloseTransport(c),
            UNCHANGED toolsetVars PROVE AnswersMatched'
  BY <1>11, McpAssumption DEF SetInitialized, ClearInitialized, CloseTransport, ProcessEnds,
     Inv, TypeOK, ChannelInv, AnswersMatched, Waiting
<1>12. CASE DispatchLine /\ UNCHANGED toolsetVars
  <2> DEFINE line == Head(toClient)
  <2>1. UNCHANGED <<id, op, pc>>
    BY <1>12 DEF DispatchLine
  <2>2. line \in Answer /\ (line.kind \in {"result", "error"} => StemsFromCaller(line))
    <3>1. line = toClient[1] /\ 1 \in 1..Len(toClient) /\ line \in Answer
      BY <1>12, FirstLine DEF DispatchLine, Inv
    <3>2. QED
      BY <3>1 DEF Inv, LinesInv
  <2>3. ASSUME NEW d \in Callers, inbox'[d] # inbox[d], inbox'[d].kind # "request"
        PROVE  inbox'[d].from = d /\ inbox'[d].method = Method(op[d])
    <3>1. /\ inbox'[d] = line /\ id[d] = line.id /\ line.id \in pending
          /\ line.kind \notin {"skipped", "unreadable"}
      BY <1>12, <2>3 DEF DispatchLine, Inv, TypeOK
    <3>2. StemsFromCaller(line)
      BY <2>2, <2>3, <3>1 DEF Answer
    <3>3. line.id # 0
      BY <3>1, McpTypes DEF Inv
    <3>4. line.from = d
      BY <3>1, <3>2, <3>3 DEF StemsFromCaller, Inv, IdInv
    <3>5. QED
      BY <3>1, <3>2, <3>4 DEF StemsFromCaller
  <2>4. QED
    BY <2>1, <2>3 DEF Inv, AnswersMatched
<1>13. CASE (EndOfFile \/ ServerExits) /\ UNCHANGED toolsetVars
  BY <1>13, McpAssumption DEF EndOfFile, ServerExits, ProcessEnds, Inv, TypeOK, ChannelInv,
     AnswersMatched, Waiting
<1>14. ASSUME NEW r \in received, NEW kind \in {"result", "error"}, ServerAnswers(r, kind),
            UNCHANGED toolsetVars PROVE AnswersMatched'
  BY <1>14, McpAssumption DEF ServerAnswers, Inv, TypeOK, ChannelInv, AnswersMatched, Waiting
<1>15. ASSUME NEW line \in Chatter, ServerChatters(line), UNCHANGED toolsetVars PROVE AnswersMatched'
  BY <1>15, McpAssumption DEF ServerChatters, Chatter, Inv, TypeOK, ChannelInv, AnswersMatched,
     Waiting
<1>16. CASE UNCHANGED vars
  BY <1>16 DEF vars, mcpVars, Inv, TypeOK, ChannelInv, AnswersMatched, Waiting
<1>17. QED
  BY <1>1, <1>2, <1>3, <1>4, <1>5, <1>6, <1>7, <1>8, <1>9, <1>10, <1>11, <1>12, <1>13, <1>14,
     <1>15, <1>16
  DEF Next, Caller, ClientWorks, ClientStep, Transport, Server

(* The handshake *)
LEMMA HandshakeNext ==
  ASSUME Inv, [Next]_vars PROVE HandshakeInv'
<1> USE DEF transportVars, clientVars, callerVars, serverVars, toolsetVars, Goto, Return
<1>1. ASSUME NEW c \in Callers, GetCachedTools(c) PROVE HandshakeInv'
  BY <1>1, McpAssumption DEF GetCachedTools, Begin, Inv, TypeOK, HandshakeInv, HandshakeDone,
     Waiting, Method, ClientOps, ToolsetOps
<1>2. ASSUME NEW c \in Callers, UseClient(c) PROVE HandshakeInv'
  BY <1>2, McpAssumption DEF UseClient, ClientBegins, Entry, Inv, TypeOK, HandshakeInv,
     HandshakeDone, Waiting, Method, ClientOps, ToolsetOps
<1>3. ASSUME NEW c \in Callers, UseToolset(c) PROVE HandshakeInv'
  BY <1>3, McpAssumption DEF UseToolset, Begin, Inv, TypeOK, HandshakeInv, HandshakeDone,
     Waiting, Method, ClientOps, ToolsetOps
<1>4. ASSUME NEW c \in Callers, Unlock(c) PROVE HandshakeInv'
  BY <1>4, McpAssumption DEF Unlock, Inv, TypeOK, HandshakeInv, HandshakeDone, Waiting, Method,
     ClientOps, ToolsetOps
<1>5. ASSUME NEW c \in Callers, LockClient(c) PROVE HandshakeInv'
  BY <1>5, McpAssumption DEF LockClient, MutexFree, Inv, TypeOK, HandshakeInv, HandshakeDone,
     Waiting, Method, ClientOps, ToolsetOps
<1>6. ASSUME NEW c \in Callers, EnterToolset(c) PROVE HandshakeInv'
  BY <1>6, McpAssumption DEF EnterToolset, Inv, TypeOK, HandshakeInv, HandshakeDone, Waiting,
     Method, ClientOps, ToolsetOps
<1>7. ASSUME NEW c \in Callers, DropCaller(c) PROVE HandshakeInv'
  BY <1>7, McpAssumption DEF DropCaller, Drop, Inv, TypeOK, HandshakeInv, HandshakeDone,
     Waiting, Method, ClientOps, ToolsetOps
<1>8. ASSUME NEW c \in Callers, WriteFails(c) \/ Unregister(c), UNCHANGED toolsetVars PROVE HandshakeInv'
  BY <1>8, McpAssumption DEF WriteFails, Unregister, Inv, TypeOK, HandshakeInv, HandshakeDone,
     Waiting, Method, ClientOps, ToolsetOps
<1>9. ASSUME NEW c \in Callers, EnsureInitialized(c), UNCHANGED toolsetVars PROVE HandshakeInv'
  <2>1. /\ UNCHANGED <<initialized, mangled, ready, received, op>>
        /\ \A d \in Callers \ {c} : pc'[d] = pc[d]
        /\ pc'[c] = "returned" \/ (pc'[c] = "call" /\ initialized)
    BY <1>9 DEF EnsureInitialized, Initialized, Inv, TypeOK
  <2>2. QED
    BY <2>1 DEF Inv, HandshakeInv, HandshakeDone, Waiting
<1>10. ASSUME NEW c \in Callers, Register(c), UNCHANGED toolsetVars PROVE HandshakeInv'
  BY <1>10, McpAssumption DEF Register, NextRequestId, Inv, TypeOK, HandshakeInv, HandshakeDone,
     Waiting, Method, ClientOps, ToolsetOps
<1>11. ASSUME NEW c \in Callers, WriteRequest(c), UNCHANGED toolsetVars PROVE HandshakeInv'
  BY <1>11, McpAssumption DEF WriteRequest, SendRaw, Inv, TypeOK, HandshakeInv, HandshakeDone,
     Waiting, Method, ClientOps, ToolsetOps
<1>12. ASSUME NEW c \in Callers, TakeAnswer(c), UNCHANGED toolsetVars PROVE HandshakeInv'
  BY <1>12, McpAssumption DEF TakeAnswer, AfterAnswer, Inv, TypeOK, HandshakeInv, HandshakeDone,
     Waiting, Method, ClientOps, ToolsetOps
<1>13. ASSUME NEW c \in Callers, NotifyInitialized(c), UNCHANGED toolsetVars PROVE HandshakeInv'
  <2>1. /\ UNCHANGED <<initialized, received, op>>
        /\ pc'[c] \in {"flag", "returned"} /\ \A d \in Callers \ {c} : pc'[d] = pc[d]
    BY <1>13 DEF NotifyInitialized, Inv, TypeOK
  <2>2. /\ pc'[c] = "flag" => HandshakeDone'
        /\ HandshakeDone => HandshakeDone'
    BY <1>13, McpTypes DEF NotifyInitialized, SendRaw, HandshakeDone, Inv, TypeOK
  <2>3. QED
    BY <2>1, <2>2 DEF Inv, HandshakeInv, Waiting
<1>14. ASSUME NEW c \in Callers, CloseTransport(c), UNCHANGED toolsetVars PROVE HandshakeInv'
  BY <1>14, McpAssumption DEF CloseTransport, ProcessEnds, Inv, TypeOK, HandshakeInv,
     HandshakeDone, Waiting, Method, ClientOps, ToolsetOps
<1>15. ASSUME NEW c \in Callers, SetInitialized(c), UNCHANGED toolsetVars PROVE HandshakeInv'
  BY <1>15, McpAssumption DEF SetInitialized, Inv, TypeOK, HandshakeInv, HandshakeDone, Waiting,
     Method, ClientOps, ToolsetOps
<1>16. ASSUME NEW c \in Callers, ClearInitialized(c), UNCHANGED toolsetVars PROVE HandshakeInv'
  BY <1>16, McpAssumption DEF ClearInitialized, Inv, TypeOK, HandshakeInv, HandshakeDone,
     Waiting, Method, ClientOps, ToolsetOps
<1>17. CASE DispatchLine /\ UNCHANGED toolsetVars
  BY <1>17, McpAssumption DEF DispatchLine, ReaderEnds, Inv, TypeOK, HandshakeInv,
     HandshakeDone, Waiting, Method, ClientOps, ToolsetOps
<1>18. CASE (EndOfFile \/ ServerExits) /\ UNCHANGED toolsetVars
  BY <1>18, McpAssumption DEF EndOfFile, ServerExits, ProcessEnds, Inv, TypeOK, HandshakeInv,
     HandshakeDone, Waiting, Method, ClientOps, ToolsetOps
<1>19. ASSUME NEW r \in received, NEW kind \in {"result", "error"}, ServerAnswers(r, kind),
            UNCHANGED toolsetVars PROVE HandshakeInv'
  BY <1>19, McpAssumption DEF ServerAnswers, Inv, TypeOK, HandshakeInv, HandshakeDone, Waiting,
     Method, ClientOps, ToolsetOps
<1>20. ASSUME NEW line \in Chatter, ServerChatters(line), UNCHANGED toolsetVars PROVE HandshakeInv'
  BY <1>20, McpAssumption DEF ServerChatters, Chatter, Inv, TypeOK, HandshakeInv, HandshakeDone,
     Waiting, Method, ClientOps, ToolsetOps
<1>21. CASE UNCHANGED vars
  BY <1>21 DEF vars, mcpVars, Inv, TypeOK, HandshakeInv, HandshakeDone, Waiting, Method,
     ClientOps, ToolsetOps
<1>22. QED
  BY <1>1, <1>2, <1>3, <1>4, <1>5, <1>6, <1>7, <1>8, <1>9, <1>10, <1>11, <1>12, <1>13, <1>14,
     <1>15, <1>16, <1>17, <1>18, <1>19, <1>20, <1>21
  DEF Next, Caller, ClientWorks, ClientStep, Transport, Server

(* The mutex *)
LEMMA MutexNext ==
  ASSUME Inv, [Next]_vars PROVE MutexInv'
<1> USE DEF transportVars, clientVars, callerVars, serverVars, toolsetVars, Goto, Return
<1>1. ASSUME NEW c \in Callers, UseClient(c) \/ UseToolset(c) \/ GetCachedTools(c) PROVE MutexInv'
  BY <1>1, McpAssumption DEF UseClient, ClientBegins, Entry, UseToolset, Begin, GetCachedTools,
     Inv, TypeOK, MutexInv, Locked, Waiting
<1>2. ASSUME NEW c \in Callers, LockClient(c) \/ EnterToolset(c) \/ Unlock(c) PROVE MutexInv'
  BY <1>2, McpAssumption DEF LockClient, MutexFree, EnterToolset, Unlock, Inv, TypeOK, MutexInv,
     Locked, Waiting
<1>3. ASSUME NEW c \in Callers, DropCaller(c) PROVE MutexInv'
  BY <1>3, McpAssumption DEF DropCaller, Drop, Inv, TypeOK, MutexInv, Locked, Waiting
<1>4. ASSUME NEW c \in Callers, EnsureInitialized(c) \/ WriteFails(c) \/ Unregister(c),
            UNCHANGED toolsetVars PROVE MutexInv'
  BY <1>4, McpAssumption DEF EnsureInitialized, Initialized, WriteFails, Unregister, Inv,
     TypeOK, MutexInv, Locked, Waiting
<1>5. ASSUME NEW c \in Callers, Register(c), UNCHANGED toolsetVars PROVE MutexInv'
  BY <1>5, McpAssumption DEF Register, NextRequestId, Inv, TypeOK, MutexInv, Locked, Waiting
<1>6. ASSUME NEW c \in Callers, WriteRequest(c), UNCHANGED toolsetVars PROVE MutexInv'
  BY <1>6, McpAssumption DEF WriteRequest, SendRaw, Inv, TypeOK, MutexInv, Locked, Waiting
<1>7. ASSUME NEW c \in Callers, TakeAnswer(c), UNCHANGED toolsetVars PROVE MutexInv'
  BY <1>7, McpAssumption DEF TakeAnswer, AfterAnswer, Inv, TypeOK, MutexInv, Locked, Waiting
<1>8. ASSUME NEW c \in Callers, NotifyInitialized(c), UNCHANGED toolsetVars PROVE MutexInv'
  BY <1>8, McpAssumption DEF NotifyInitialized, SendRaw, Inv, TypeOK, MutexInv, Locked, Waiting
<1>9. ASSUME NEW c \in Callers, SetInitialized(c) \/ ClearInitialized(c) \/ CloseTransport(c),
            UNCHANGED toolsetVars PROVE MutexInv'
  BY <1>9, McpAssumption DEF SetInitialized, ClearInitialized, CloseTransport, ProcessEnds, Inv,
     TypeOK, MutexInv, Locked, Waiting
<1>10. CASE DispatchLine /\ UNCHANGED toolsetVars
  BY <1>10, McpAssumption DEF DispatchLine, ReaderEnds, Inv, TypeOK, MutexInv, Locked, Waiting
<1>11. CASE (EndOfFile \/ ServerExits) /\ UNCHANGED toolsetVars
  BY <1>11, McpAssumption DEF EndOfFile, ServerExits, ProcessEnds, Inv, TypeOK, MutexInv,
     Locked, Waiting
<1>12. ASSUME NEW r \in received, NEW kind \in {"result", "error"}, ServerAnswers(r, kind),
            UNCHANGED toolsetVars PROVE MutexInv'
  BY <1>12, McpAssumption DEF ServerAnswers, Inv, TypeOK, MutexInv, Locked, Waiting
<1>13. ASSUME NEW line \in Chatter, ServerChatters(line), UNCHANGED toolsetVars PROVE MutexInv'
  BY <1>13, McpAssumption DEF ServerChatters, Chatter, Inv, TypeOK, MutexInv, Locked, Waiting
<1>14. CASE UNCHANGED vars
  BY <1>14 DEF vars, mcpVars, Inv, TypeOK, MutexInv, Locked, Waiting
<1>15. QED
  BY <1>1, <1>2, <1>3, <1>4, <1>5, <1>6, <1>7, <1>8, <1>9, <1>10, <1>11, <1>12, <1>13, <1>14
  DEF Next, Caller, ClientWorks, ClientStep, Transport, Server

(* Open and closed *)
LEMMA CloseNext ==
  ASSUME Inv, [Next]_vars PROVE CloseInv'
<1> USE DEF transportVars, clientVars, callerVars, serverVars, toolsetVars, Goto, Return
<1>1. ASSUME NEW c \in Callers, UseClient(c) \/ UseToolset(c) \/ GetCachedTools(c) PROVE CloseInv'
  BY <1>1, McpAssumption DEF UseClient, ClientBegins, Entry, UseToolset, Begin, GetCachedTools,
     Inv, TypeOK, MutexInv, CloseInv, Locked, Waiting
<1>2. ASSUME NEW c \in Callers, LockClient(c) \/ EnterToolset(c) \/ Unlock(c) PROVE CloseInv'
  BY <1>2, McpAssumption DEF LockClient, MutexFree, EnterToolset, Unlock, Inv, TypeOK, MutexInv,
     CloseInv, Locked, Waiting
<1>3. ASSUME NEW c \in Callers, DropCaller(c) PROVE CloseInv'
  BY <1>3, McpAssumption DEF DropCaller, Drop, Inv, TypeOK, MutexInv, CloseInv, Locked, Waiting
<1>4. ASSUME NEW c \in Callers, EnsureInitialized(c) \/ WriteFails(c) \/ Unregister(c),
            UNCHANGED toolsetVars PROVE CloseInv'
  BY <1>4, McpAssumption DEF EnsureInitialized, Initialized, WriteFails, Unregister, Inv,
     TypeOK, MutexInv, CloseInv, Locked, Waiting
<1>5. ASSUME NEW c \in Callers, Register(c), UNCHANGED toolsetVars PROVE CloseInv'
  BY <1>5, McpAssumption DEF Register, NextRequestId, Inv, TypeOK, MutexInv, CloseInv, Locked,
     Waiting
<1>6. ASSUME NEW c \in Callers, WriteRequest(c), UNCHANGED toolsetVars PROVE CloseInv'
  BY <1>6, McpAssumption DEF WriteRequest, SendRaw, Inv, TypeOK, MutexInv, CloseInv, Locked,
     Waiting
<1>7. ASSUME NEW c \in Callers, TakeAnswer(c), UNCHANGED toolsetVars PROVE CloseInv'
  BY <1>7, McpAssumption DEF TakeAnswer, AfterAnswer, Inv, TypeOK, MutexInv, CloseInv, Locked,
     Waiting
<1>8. ASSUME NEW c \in Callers, NotifyInitialized(c), UNCHANGED toolsetVars PROVE CloseInv'
  BY <1>8, McpAssumption DEF NotifyInitialized, SendRaw, Inv, TypeOK, MutexInv, CloseInv,
     Locked, Waiting
<1>9. ASSUME NEW c \in Callers, SetInitialized(c) \/ ClearInitialized(c) \/ CloseTransport(c),
            UNCHANGED toolsetVars PROVE CloseInv'
  <2>1. /\ \A d \in Callers \ {c} : pc'[d] = pc[d]
        /\ pc[c] \in {"flag", "closing", "kill"}
        /\ owner = "toolset" => \A d \in Callers \ {c} : pc[d] \notin Locked
    BY <1>9 DEF SetInitialized, ClearInitialized, CloseTransport, Inv, TypeOK, MutexInv, Locked
  <2>2. CASE SetInitialized(c)
    BY <1>9, <2>1, <2>2 DEF SetInitialized, Inv, TypeOK, CloseInv, Locked
  <2>3. CASE ClearInitialized(c)
    BY <1>9, <2>1, <2>3 DEF ClearInitialized, Inv, TypeOK, CloseInv, Locked
  <2>4. CASE CloseTransport(c)
    BY <1>9, <2>1, <2>4 DEF CloseTransport, ProcessEnds, Inv, TypeOK, CloseInv, Locked
  <2>5. QED
    BY <1>9, <2>2, <2>3, <2>4
<1>10. CASE DispatchLine /\ UNCHANGED toolsetVars
  BY <1>10, McpAssumption DEF DispatchLine, ReaderEnds, Inv, TypeOK, MutexInv, CloseInv, Locked,
     Waiting
<1>11. CASE (EndOfFile \/ ServerExits) /\ UNCHANGED toolsetVars
  BY <1>11, McpAssumption DEF EndOfFile, ServerExits, ProcessEnds, Inv, TypeOK, MutexInv,
     CloseInv, Locked, Waiting
<1>12. ASSUME NEW r \in received, NEW kind \in {"result", "error"}, ServerAnswers(r, kind),
            UNCHANGED toolsetVars PROVE CloseInv'
  BY <1>12, McpAssumption DEF ServerAnswers, Inv, TypeOK, MutexInv, CloseInv, Locked, Waiting
<1>13. ASSUME NEW line \in Chatter, ServerChatters(line), UNCHANGED toolsetVars PROVE CloseInv'
  BY <1>13, McpAssumption DEF ServerChatters, Chatter, Inv, TypeOK, MutexInv, CloseInv, Locked,
     Waiting
<1>14. CASE UNCHANGED vars
  BY <1>14 DEF vars, mcpVars, Inv, TypeOK, MutexInv, CloseInv, Locked, Waiting
<1>15. QED
  BY <1>1, <1>2, <1>3, <1>4, <1>5, <1>6, <1>7, <1>8, <1>9, <1>10, <1>11, <1>12, <1>13, <1>14
  DEF Next, Caller, ClientWorks, ClientStep, Transport, Server

(* The cache *)
LEMMA CacheNext ==
  ASSUME Inv, [Next]_vars PROVE CacheInv'
<1> USE DEF transportVars, clientVars, callerVars, serverVars, toolsetVars, Goto, Return
<1>1. ASSUME NEW c \in Callers, UseClient(c) \/ UseToolset(c) \/ GetCachedTools(c) PROVE CacheInv'
  <2>1. /\ UNCHANGED <<owner, cache, id>> /\ id[c] = 0
        /\ \A d \in Callers \ {c} : pc'[d] = pc[d] /\ op'[d] = op[d] /\ outcome'[d] = outcome[d]
        /\ pc'[c] \in {"closing", "kill"} => op'[c] = "close"
        /\ pc'[c] \in {"lock", "done", "ensure", "call", "closing"}
    <3>1. CASE UseClient(c)
      BY <3>1 DEF UseClient, ClientBegins, Entry, ClientOps, Inv, TypeOK, IdInv, BeforeRequest
    <3>2. CASE UseToolset(c) \/ GetCachedTools(c)
      BY <3>2 DEF UseToolset, GetCachedTools, Begin, Inv, TypeOK, IdInv, BeforeRequest
    <3>3. QED
      BY <1>1, <3>1, <3>2
  <2>2. QED
    BY <2>1 DEF Inv, CacheInv, Waiting
<1>2. ASSUME NEW c \in Callers, LockClient(c) \/ EnterToolset(c) \/ Unlock(c) PROVE CacheInv'
  BY <1>2, McpAssumption, OwnersAssumption DEF LockClient, MutexFree, EnterToolset, Unlock, Inv,
     TypeOK, IdInv, MutexInv, HandshakeInv, CacheInv, Locked, Waiting, BeforeRequest, ClientOps,
     ToolsetOps
<1>3. ASSUME NEW c \in Callers, DropCaller(c) PROVE CacheInv'
  BY <1>3, McpAssumption, OwnersAssumption DEF DropCaller, Drop, Inv, TypeOK, IdInv, MutexInv,
     HandshakeInv, CacheInv, Locked, Waiting, BeforeRequest, ClientOps, ToolsetOps
<1>4. ASSUME NEW c \in Callers, EnsureInitialized(c) \/ WriteFails(c) \/ Unregister(c),
            UNCHANGED toolsetVars PROVE CacheInv'
  BY <1>4, McpAssumption, OwnersAssumption DEF EnsureInitialized, Initialized, WriteFails,
     Unregister, Inv, TypeOK, IdInv, MutexInv, HandshakeInv, CacheInv, Locked, Waiting,
     BeforeRequest, ClientOps, ToolsetOps
<1>5. ASSUME NEW c \in Callers, Register(c), UNCHANGED toolsetVars PROVE CacheInv'
  BY <1>5, McpAssumption, OwnersAssumption DEF Register, NextRequestId, Inv, TypeOK, IdInv,
     MutexInv, HandshakeInv, CacheInv, Locked, Waiting, BeforeRequest, ClientOps, ToolsetOps
<1>6. ASSUME NEW c \in Callers, WriteRequest(c), UNCHANGED toolsetVars PROVE CacheInv'
  BY <1>6, McpAssumption, OwnersAssumption DEF WriteRequest, SendRaw, Inv, TypeOK, IdInv,
     MutexInv, HandshakeInv, CacheInv, Locked, Waiting, BeforeRequest, ClientOps, ToolsetOps
<1>7. ASSUME NEW c \in Callers, TakeAnswer(c), UNCHANGED toolsetVars PROVE CacheInv'
  BY <1>7, McpAssumption, OwnersAssumption DEF TakeAnswer, AfterAnswer, Inv, TypeOK, IdInv,
     MutexInv, HandshakeInv, CacheInv, Locked, Waiting, BeforeRequest, ClientOps, ToolsetOps
<1>8. ASSUME NEW c \in Callers, NotifyInitialized(c), UNCHANGED toolsetVars PROVE CacheInv'
  BY <1>8, McpAssumption, OwnersAssumption DEF NotifyInitialized, SendRaw, Inv, TypeOK, IdInv,
     MutexInv, HandshakeInv, CacheInv, Locked, Waiting, BeforeRequest, ClientOps, ToolsetOps
<1>9. ASSUME NEW c \in Callers, SetInitialized(c) \/ ClearInitialized(c) \/ CloseTransport(c),
            UNCHANGED toolsetVars PROVE CacheInv'
  BY <1>9, McpAssumption, OwnersAssumption DEF SetInitialized, ClearInitialized, CloseTransport,
     ProcessEnds, Inv, TypeOK, IdInv, MutexInv, HandshakeInv, CacheInv, Locked, Waiting,
     BeforeRequest, ClientOps, ToolsetOps
<1>10. CASE DispatchLine /\ UNCHANGED toolsetVars
  BY <1>10, McpAssumption, OwnersAssumption DEF DispatchLine, ReaderEnds, Inv, TypeOK, IdInv,
     MutexInv, HandshakeInv, CacheInv, Locked, Waiting, BeforeRequest, ClientOps, ToolsetOps
<1>11. CASE (EndOfFile \/ ServerExits) /\ UNCHANGED toolsetVars
  BY <1>11, McpAssumption, OwnersAssumption DEF EndOfFile, ServerExits, ProcessEnds, Inv,
     TypeOK, IdInv, MutexInv, HandshakeInv, CacheInv, Locked, Waiting, BeforeRequest, ClientOps,
     ToolsetOps
<1>12. ASSUME NEW r \in received, NEW kind \in {"result", "error"}, ServerAnswers(r, kind),
            UNCHANGED toolsetVars PROVE CacheInv'
  BY <1>12, McpAssumption, OwnersAssumption DEF ServerAnswers, Inv, TypeOK, IdInv, MutexInv,
     HandshakeInv, CacheInv, Locked, Waiting, BeforeRequest, ClientOps, ToolsetOps
<1>13. ASSUME NEW line \in Chatter, ServerChatters(line), UNCHANGED toolsetVars PROVE CacheInv'
  BY <1>13, McpAssumption, OwnersAssumption DEF ServerChatters, Chatter, Inv, TypeOK, IdInv,
     MutexInv, HandshakeInv, CacheInv, Locked, Waiting, BeforeRequest, ClientOps, ToolsetOps
<1>14. CASE UNCHANGED vars
  BY <1>14 DEF vars, mcpVars, Inv, TypeOK, IdInv, MutexInv, HandshakeInv, CacheInv, Locked,
     Waiting, BeforeRequest, ClientOps, ToolsetOps
<1>15. QED
  BY <1>1, <1>2, <1>3, <1>4, <1>5, <1>6, <1>7, <1>8, <1>9, <1>10, <1>11, <1>12, <1>13, <1>14
  DEF Next, Caller, ClientWorks, ClientStep, Transport, Server

LEMMA InvInit == Init => Inv
<1> SUFFICES ASSUME Init PROVE Inv
  OBVIOUS
<1>1. TypeOK
  <2>1. /\ pending \subseteq 1..(nextId - 1) /\ toClient \in Seq(Answer) /\ received \subseteq Request
        /\ id \in [Callers -> 0..(nextId - 1)] /\ inbox \in [Callers -> Answer \cup {None}]
        /\ nextId \in Nat \ {0} /\ cache \in 0..(nextId - 1) /\ noise \in 0..MaxNoise
    BY McpAssumption DEF Init, McpInit
  <2>2. /\ op \in [Callers -> ClientOps \cup ToolsetOps \cup {"none"}]
        /\ {torn, alive, connected, initialized, ready, readable} \subseteq BOOLEAN
        /\ owner \in Owners /\ holder \in Callers \cup {None} /\ mangled \subseteq Callers
    BY DEF Init, McpInit
  <2>3. QED
    BY <2>1, <2>2 DEF Init, McpInit, TypeOK
<1>2. IdInv /\ LinesInv /\ ChannelInv /\ PendingAccounted /\ AnswersMatched
  BY DEF Init, McpInit, IdInv, LinesInv, ChannelInv, PendingAccounted, AnswersMatched, BeforeRequest,
     Waiting
<1>3. HandshakeInv /\ MutexInv /\ CloseInv /\ CacheInv
  BY DEF Init, McpInit, HandshakeInv, MutexInv, CloseInv, CacheInv, Locked, Waiting
<1>4. QED
  BY <1>1, <1>2, <1>3 DEF Inv

LEMMA Invariance == Spec => []Inv
<1>1. Init => Inv
  BY InvInit
<1>2. Inv /\ [Next]_vars => Inv'
  BY TypeNext, IdNext, ChannelNext, PendingNext, LinesNext, AnswersNext, HandshakeNext, MutexNext,
     CloseNext, CacheNext DEF Inv
<1>3. QED
  BY <1>1, <1>2, PTL DEF Spec

----------------------------------------------------------------------------
(* What the client and its toolset promise *)

(* However many callers share a client, and whoever of them is dropped,    *)
(* each request is handed its own answer or none yet, and the map of       *)
(* senders holds nothing but the requests in flight and the dropped ones.  *)
THEOREM RequestsAlwaysAccounted == Spec => []RequestsAccounted
<1>1. Inv => RequestsAccounted
  BY DEF Inv, RequestsAccounted
<1>2. QED
  BY <1>1, Invariance, PTL

(* Requests are made between the handshake and the close. *)
THEOREM HandshakeAlwaysKept == Spec => []HandshakeKept
<1>1. Inv => HandshakeKept
  BY DEF Inv, HandshakeInv, HandshakeDone, CloseInv, HandshakeKept, HandshakeFirst, ClosedStaysClosed
<1>2. QED
  BY <1>1, Invariance, PTL

(* A listing never replaces a newer one. *)
THEOREM CacheNeverOlder == Spec => CacheNeverGoesBack
<1>1. Inv /\ [Next]_vars => [cache' >= cache]_vars
  <2> SUFFICES ASSUME Inv, Next PROVE cache' >= cache
    OBVIOUS
  <2>1. cache \in Nat
    BY McpTypes DEF Inv, TypeOK
  <2>2. ASSUME NEW c \in Callers, Unlock(c) PROVE cache' >= cache
    <3>1. id[c] \in Nat
      BY McpTypes DEF Inv
    <3>2. cache' = cache \/ (cache' = id[c] /\ cache <= id[c])
      BY <2>2 DEF Unlock, Inv, CacheInv
    <3>3. QED
      BY <2>1, <3>1, <3>2
  <2>3. cache' = cache \/ \E c \in Callers : Unlock(c)
    BY DEF Next, Caller, ClientWorks, UseClient, UseToolset, GetCachedTools, Begin, LockClient,
      EnterToolset, DropCaller, toolsetVars
  <2>4. QED
    BY <2>1, <2>2, <2>3
<1>2. QED
  BY <1>1, Invariance, PTL DEF Spec, CacheNeverGoesBack
=============================================================================
