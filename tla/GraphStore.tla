----------------------------- MODULE GraphStore -----------------------------
(***************************************************************************)
(* The two entries a graph run has in its store, its state and its result  *)
(* (serdes-ai-graph/src/persistence.rs).  FilePersistence writes a file in *)
(* place: it is truncated, then written, by several processes at once if   *)
(* they please, and a process may die before or in the middle of its       *)
(* write.  InMemoryPersistence inserts into a locked map.                  *)
(*                                                                         *)
(* What is in a file is what was saved, or nothing yet (Empty), or bytes   *)
(* that do not parse (Torn), or bytes that parse as what nobody saved      *)
(* (Garbled).  A state is written inside a JSON object, a result as the    *)
(* bare JSON of the graph's End: a part of an object never parses, a part  *)
(* of a number does.                                                       *)
(***************************************************************************)
EXTENDS Naturals

CONSTANTS Workers,   \* the processes, or tasks, that use the store
          Bare,      \* {"result"} where the graph's End is a number, or {}
          Absent, Empty, Torn, Garbled, None

VARIABLES medium,    \* "file", "memory"
          entry,     \* "state", "result" -> a mark above or what was saved
          open,      \* per worker, the entry it has open for writing: `live`
                     \* until the file is removed under it
          broken,    \* ghost: the entries whose writing was cut short
          crossed    \* ghost: the entries two workers had open at once
store == <<medium, entry, open, broken, crossed>>

Entries == {"state", "result"}
Damage == {Empty, Torn, Garbled}

StoreInit ==
  /\ medium \in {"file", "memory"}
  /\ entry = [k \in Entries |-> Absent]
  /\ open = [w \in Workers |-> None]
  /\ broken = {} /\ crossed = {}

StoreOK(Value) ==
  /\ medium \in {"file", "memory"}
  /\ entry \in [Entries -> {Absent} \cup Damage \cup Value]
  /\ open \in [Workers -> {None} \cup [key : Entries, live : BOOLEAN]]
  /\ broken \subseteq Entries /\ crossed \subseteq Entries
  /\ medium = "memory" => (\A k \in Entries : entry[k] \notin Damage)
                          /\ \A w \in Workers : open[w] = None

HasOpen(w, k) == open[w] # None /\ open[w].key = k /\ open[w].live

(* tokio::fs::write, first half: the file is created or truncated.         *)
OpenEntry(w, k) ==
  /\ medium = "file"
  /\ entry' = [entry EXCEPT ![k] = Empty]
  /\ open' = [open EXCEPT ![w] = [key |-> k, live |-> TRUE]]
  /\ crossed' = crossed \cup {e \in {k} : \E v \in Workers \ {w} : HasOpen(v, e)}
  /\ UNCHANGED <<medium, broken>>

(* The first bytes of a value alone; also, a whole value and the rest of a *)
(* longer one behind it.                                                   *)
Part(k) == IF k \in Bare THEN {Torn, Garbled} ELSE {Torn}

(* Second half.  Over what another writer has put there since, the longer  *)
(* of the two shows below the shorter.                                     *)
Written(k, v) == IF entry[k] = Empty THEN {v} ELSE {v} \cup Part(k)

WriteEntry(w, v) ==
  /\ \E c \in Written(open[w].key, v) :
       entry' = IF open[w].live THEN [entry EXCEPT ![open[w].key] = c] ELSE entry
  /\ open' = [open EXCEPT ![w] = None]
  /\ UNCHANGED <<medium, broken, crossed>>

(* The first bytes of a value, over what another writer has put there.     *)
CutShort(k) == IF entry[k] = Empty THEN Part(k) ELSE {Torn, Garbled}

(* The process dies, or the write fails, with the file as far as it got.   *)
AbandonEntry(w) ==
  /\ \/ UNCHANGED <<entry, broken>>
     \/ /\ open[w] # None
        /\ open[w].live
        /\ \E c \in CutShort(open[w].key) : entry' = [entry EXCEPT ![open[w].key] = c]
        /\ broken' = broken \cup {open[w].key}
  /\ open' = [open EXCEPT ![w] = None]
  /\ UNCHANGED <<medium, crossed>>

InsertEntry(k, v) ==
  /\ medium = "memory"
  /\ entry' = [entry EXCEPT ![k] = v]
  /\ UNCHANGED <<medium, open, broken, crossed>>

(* remove_file: a writer keeps its handle on the unlinked file.            *)
RemoveEntry(k) ==
  /\ entry' = [entry EXCEPT ![k] = Absent]
  /\ open' = [w \in Workers |-> IF open[w] # None /\ open[w].key = k
                                THEN [open[w] EXCEPT !.live = FALSE] ELSE open[w]]
  /\ UNCHANGED <<medium, broken, crossed>>

(* What it takes for an entry to be read as what nobody saved.             *)
MayBeGarbled(k) ==
  IF k \in Bare THEN k \in broken \/ k \in crossed ELSE k \in broken /\ k \in crossed
=============================================================================
