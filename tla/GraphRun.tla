------------------------------ MODULE GraphRun ------------------------------
(***************************************************************************)
(* The graph executor of serdes-ai-graph over one run id: graph runs, and  *)
(* the resume, get_result and delete of workers that share the store.      *)
(* Nodes are user code: a node does a unit of work on the state, may save  *)
(* the state it has (the executor itself never does) and names its         *)
(* successor.  A graph state is the number of units of work in it.         *)
(***************************************************************************)
EXTENDS GraphStore

CONSTANTS Limits,    \* the values of max_steps
          MaxCalls,  \* bound: calls of the executor and of the store
          MaxWork    \* bound: units of work told apart; a run that could
                     \* do more does not begin

ASSUME GraphAssumption ==
  /\ Limits \subseteq Nat
  /\ MaxCalls \in Nat /\ MaxWork \in Nat
  /\ Bare \subseteq {"result"}
  /\ ({Absent, None} \cup Damage) \cap Nat = {} /\ Absent \notin Damage
  /\ Garbled \notin {Empty, Torn}
  /\ None \notin [key : Entries, live : BOOLEAN]

VARIABLES
  limit, autoSave,  \* max_steps and auto_save of the executor
  call,     \* per worker, the call it is in
  answer,   \* per worker, what its last call returned
  calls,    \* the number of calls so far
  saved,    \* ghost: the states handed to save_state
  ends,     \* ghost: the results of the resumed runs that reached their end
  renewed   \* ghost: per worker, the entries written since its call began

executor == <<limit, autoSave>>
ghosts == <<saved, ends, renewed>>
vars == <<store, executor, call, answer, calls, ghosts>>

(* resume -> loading -> node (-> saving -> node)* -> ended -> storing      *)
(* delete -> deleting (-> removing) -> erasing (-> unlinking)              *)
Running == {"node", "saving", "ended", "storing"}
Deleting == {"deleting", "removing", "erasing", "unlinking"}
Call == [pc : {"idle", "loading", "fetching"} \cup Running \cup Deleting,
         resumed : BOOLEAN, garbled : BOOLEAN, from : Nat, state : Nat, step : Nat,
         saves : BOOLEAN]
Idle == [pc |-> "idle", resumed |-> FALSE, garbled |-> FALSE, from |-> 0, state |-> 0,
         step |-> 0, saves |-> FALSE]
Answer == [is : {"none", "missing", "error", "deleted", "ended", "result"},
           value : Nat \cup {None, Garbled}]

TypeOK ==
  /\ StoreOK(Nat)
  /\ limit \in Limits /\ autoSave \in BOOLEAN
  /\ call \in [Workers -> Call]
  /\ answer \in [Workers -> Answer]
  /\ calls \in 0..MaxCalls
  /\ saved \subseteq Nat /\ ends \subseteq Nat
  /\ renewed \in [Workers -> SUBSET Entries]
  /\ \A w \in Workers : open[w] # None => call[w].pc \in {"saving", "storing"}

Init ==
  /\ StoreInit
  /\ limit \in Limits /\ autoSave \in BOOLEAN
  /\ call = [w \in Workers |-> Idle]
  /\ answer = [w \in Workers |-> [is |-> "none", value |-> None]]
  /\ calls = 0
  /\ saved = {} /\ ends = {}
  /\ renewed = [w \in Workers |-> {}]

At(w, pc) == call[w].pc = pc
Goes(w, pc) == call' = [call EXCEPT ![w].pc = pc]
Gives(w, a, v) ==
  /\ call' = [call EXCEPT ![w] = Idle]
  /\ answer' = [answer EXCEPT ![w] = [is |-> a, value |-> v]]
Returns(w, a) == Gives(w, a, None)

Called(w) ==
  /\ At(w, "idle") /\ calls < MaxCalls
  /\ calls' = calls + 1
  /\ renewed' = [renewed EXCEPT ![w] = {}]

Renews(k) == renewed' = [w \in Workers |-> renewed[w] \cup {k}]

(* Mutant: a run is given one step less than it counted. *)
TooManySteps(step) == step > limit + 1

TooMany(step) == step > limit

(* run_from_with_options up to its first node.  A garbled state is any     *)
(* state; 0 stands for it.                                                 *)
Begins(w, resumed, s) ==
  IF TooMany(1)
  THEN Returns(w, "error")
  ELSE /\ s + limit <= MaxWork
       /\ call' = [call EXCEPT ![w] = [pc |-> "node", resumed |-> resumed,
                                       garbled |-> resumed /\ entry["state"] = Garbled,
                                       from |-> s, state |-> s, step |-> 1, saves |-> TRUE]]
       /\ UNCHANGED answer

Run(w) ==
  /\ Called(w)
  /\ Begins(w, FALSE, 0)
  /\ UNCHANGED <<store, executor, saved, ends>>

(* load_state first asks whether the file exists; the map is looked into   *)
(* once.                                                                   *)
Resume(w) ==
  /\ Called(w)
  /\ \/ entry["state"] = Absent /\ Returns(w, "missing")
     \/ /\ entry["state"] # Absent /\ medium = "memory"
        /\ Begins(w, TRUE, entry["state"])
     \/ /\ entry["state"] # Absent /\ medium = "file"
        /\ Goes(w, "loading") /\ UNCHANGED answer
  /\ UNCHANGED <<store, executor, saved, ends>>

(* Mutant: a file that does not parse is taken for the default state. *)
ParsesByDefault(c) == c # Absent

(* Then it reads the file: it may be gone, or not parse. *)
Parses(c) == c \notin {Absent, Empty, Torn}

StateIn(c) == IF c \in Damage THEN 0 ELSE c
ResultIn(c) == IF c \in {Empty, Torn} THEN 0 ELSE c

(* The run starts at the entry node again, with no step taken. *)
Load(w) ==
  /\ At(w, "loading")
  /\ IF Parses(entry["state"])
     THEN Begins(w, TRUE, StateIn(entry["state"]))
     ELSE Returns(w, "error")
  /\ UNCHANGED <<store, executor, calls, ghosts>>

----------------------------------------------------------------------------
(* A node *)

NodeSaves(w) ==
  /\ At(w, "node") /\ call[w].saves
  /\ \/ OpenEntry(w, "state") /\ Goes(w, "saving")
     \/ /\ InsertEntry("state", call[w].state)
        /\ call' = [call EXCEPT ![w].saves = FALSE]
  /\ saved' = saved \cup {call[w].state}
  /\ Renews("state")
  /\ UNCHANGED <<executor, answer, calls, ends>>

NodeSaved(w) ==
  /\ At(w, "saving")
  /\ WriteEntry(w, call[w].state)
  /\ call' = [call EXCEPT ![w].pc = "node", ![w].saves = FALSE]
  /\ Renews("state")
  /\ UNCHANGED <<executor, answer, calls, saved, ends>>

(* Mutant: a named transition is not counted. *)
CountedOnce(step) == step

Counted(step) == step + 1

Worked(s) == IF s < MaxWork THEN s + 1 ELSE s

(* NodeResult::Next, or NextNamed of a node the graph has. *)
NodeContinues(w) ==
  /\ At(w, "node")
  /\ IF TooMany(Counted(call[w].step))
     THEN Returns(w, "error")
     ELSE /\ call' = [call EXCEPT ![w].state = Worked(@), ![w].step = Counted(@),
                                  ![w].saves = TRUE]
          /\ UNCHANGED answer
  /\ UNCHANGED <<store, executor, calls, ghosts>>

(* The node fails, or names a node the graph has not. *)
NodeFails(w) ==
  /\ At(w, "node")
  /\ Returns(w, "error")
  /\ UNCHANGED <<store, executor, calls, ghosts>>

StoresResult(w) == call[w].resumed /\ autoSave

NodeEnds(w) ==
  /\ At(w, "node")
  /\ LET end == Worked(call[w].state) IN
       IF StoresResult(w)
       THEN /\ call' = [call EXCEPT ![w].pc = "ended", ![w].state = end]
            /\ ends' = ends \cup {end}
            /\ UNCHANGED answer
       ELSE Returns(w, "ended") /\ UNCHANGED ends
  /\ UNCHANGED <<store, executor, calls, saved, renewed>>

(* save_result *)
OpenResult(w) ==
  /\ At(w, "ended")
  /\ \/ OpenEntry(w, "result") /\ Goes(w, "storing") /\ UNCHANGED answer
     \/ InsertEntry("result", call[w].state) /\ Returns(w, "ended")
  /\ Renews("result")
  /\ UNCHANGED <<executor, calls, saved, ends>>

WriteResult(w) ==
  /\ At(w, "storing")
  /\ WriteEntry(w, call[w].state)
  /\ Returns(w, "ended")
  /\ Renews("result")
  /\ UNCHANGED <<executor, calls, saved, ends>>

(* A failed write fails the call; a failed save_state fails the node. *)
WriteFails(w) ==
  /\ call[w].pc \in {"saving", "storing"}
  /\ AbandonEntry(w)
  /\ Returns(w, "error")
  /\ UNCHANGED <<executor, calls, ghosts>>

----------------------------------------------------------------------------
(* The other calls of the store *)

GetResult(w) ==
  /\ Called(w)
  /\ \/ entry["result"] = Absent /\ Returns(w, "missing")
     \/ /\ entry["result"] # Absent /\ medium = "memory"
        /\ Gives(w, "result", entry["result"])
     \/ /\ entry["result"] # Absent /\ medium = "file"
        /\ Goes(w, "fetching") /\ UNCHANGED answer
  /\ UNCHANGED <<store, executor, saved, ends>>

Fetch(w) ==
  /\ At(w, "fetching")
  /\ IF Parses(entry["result"])
     THEN Gives(w, "result", ResultIn(entry["result"]))
     ELSE Returns(w, "error")
  /\ UNCHANGED <<store, executor, calls, ghosts>>

Delete(w) ==
  /\ Called(w)
  /\ Goes(w, "deleting")
  /\ UNCHANGED <<store, executor, answer, saved, ends>>

Doomed(w) == IF call[w].pc \in {"deleting", "removing"} THEN "state" ELSE "result"

(* Mutant: nothing is left to do when there is no state. *)
DeletedOne(w) == Returns(w, "deleted")

(* The state is gone; now the result, and with it the delete is done. *)
Deleted(w) ==
  IF Doomed(w) = "state"
  THEN Goes(w, "erasing") /\ UNCHANGED answer
  ELSE Returns(w, "deleted")

(* Each file is looked for before it is removed, and another delete may    *)
(* remove it in between; the locked map has no such gap.                   *)
DeleteLooks(w) ==
  /\ call[w].pc \in {"deleting", "erasing"}
  /\ \/ /\ entry[Doomed(w)] = Absent
        /\ Deleted(w)
        /\ UNCHANGED store
     \/ /\ entry[Doomed(w)] # Absent /\ medium = "memory"
        /\ Deleted(w)
        /\ RemoveEntry(Doomed(w))
     \/ /\ entry[Doomed(w)] # Absent /\ medium = "file"
        /\ Goes(w, IF Doomed(w) = "state" THEN "removing" ELSE "unlinking")
        /\ UNCHANGED <<store, answer>>
  /\ UNCHANGED <<executor, calls, ghosts>>

DeleteRemoves(w) ==
  /\ call[w].pc \in {"removing", "unlinking"}
  /\ IF entry[Doomed(w)] = Absent
     THEN Returns(w, "error") /\ UNCHANGED store
     ELSE Deleted(w) /\ RemoveEntry(Doomed(w))
  /\ UNCHANGED <<executor, calls, ghosts>>

(* The process of w dies; with the store in memory, its task is dropped. *)
Crash(w) ==
  /\ ~At(w, "idle")
  /\ AbandonEntry(w)
  /\ Returns(w, "none")
  /\ UNCHANGED <<executor, calls, ghosts>>

----------------------------------------------------------------------------

Progress(w) ==
  \/ Load(w) \/ Fetch(w)
  \/ NodeSaved(w) \/ NodeContinues(w) \/ NodeFails(w) \/ NodeEnds(w)
  \/ OpenResult(w) \/ WriteResult(w)
  \/ DeleteLooks(w) \/ DeleteRemoves(w)

Next ==
  \E w \in Workers :
    \/ Run(w) \/ Resume(w) \/ GetResult(w) \/ Delete(w)
    \/ NodeSaves(w) \/ WriteFails(w) \/ Crash(w)
    \/ Progress(w)

Spec == Init /\ [][Next]_vars

(* The futures are polled, and every node returns. *)
FairSpec == Spec /\ \A w \in Workers : WF_vars(Progress(w))

----------------------------------------------------------------------------
(* Properties *)

(* A resumed run starts from a state that some node saved, as it was       *)
(* saved: never from a file that is empty or torn, nor from a mixture of   *)
(* two that were written at once, unless one of the two was cut short      *)
(* (executor.rs resume, persistence.rs load_state).                        *)
ResumesSavedState ==
  \A w \in Workers :
    call[w].resumed =>
      IF call[w].garbled THEN MayBeGarbled("state") ELSE call[w].from \in saved

(* What is on file as the result, and what get_result returns, is the end  *)
(* of a resumed run that reached it; a run without auto_save leaves none.  *)
(* Where results are bare numbers, which have no end of their own, one     *)
(* write cut short or two at once are enough for a number that no run      *)
(* ended with (executor.rs resume, get_result).                            *)
ResultFromAnEnd ==
  LET Known(v) == v \in ends \/ (v = Garbled /\ MayBeGarbled("result"))
  IN /\ entry["result"] \in {Absent, Empty, Torn} \/ Known(entry["result"])
     /\ \A w \in Workers : answer[w].is = "result" => Known(answer[w].value)
     /\ ~autoSave => entry["result"] = Absent

(* What is read back from the store is what was written to it, or else     *)
(* writes that were cut short or crossed say why not.                      *)
StoreFaithful == TypeOK /\ ResumesSavedState /\ ResultFromAnEnd

(* A run has done exactly the nodes its step counter says, and no more     *)
(* than max_steps, whatever was saved, resumed or refused on the way       *)
(* (graph.rs run_from_with_options).                                       *)
StepsAreWork ==
  \A w \in Workers :
    /\ call[w].pc \in {"node", "saving"} =>
         call[w].state - call[w].from = call[w].step - 1
    /\ call[w].pc \in {"ended", "storing"} =>
         call[w].state - call[w].from = call[w].step
    /\ call[w].step <= limit

(* A delete that succeeds leaves nothing from before it: what is there was *)
(* written while it ran (persistence.rs delete).                           *)
DeleteErases ==
  [][\A w \in Workers :
       call[w].pc \in Deleting /\ answer'[w].is = "deleted" /\ call'[w].pc = "idle" =>
         \A k \in Entries : entry'[k] # Absent => k \in renewed'[w]]_vars

(* Every call of the executor and of the store returns: a graph that goes  *)
(* round in circles is stopped by max_steps.                               *)
CallReturns == \A w \in Workers : call[w].pc # "idle" ~> call[w].pc = "idle"
=============================================================================
