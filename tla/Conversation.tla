---------------------------- MODULE Conversation ----------------------------
(***************************************************************************)
(* What the holder of an agent run may rely on, whichever loop drives it:  *)
(* the conversation only grows, a response enters it together with the     *)
(* answers to its calls, at most MaxOutputRetries corrections are asked    *)
(* for, and the run is over with an accepted output or without any.        *)
(***************************************************************************)
EXTENDS Integers, Sequences

CONSTANTS
  AcceptedOutputs,  \* outputs as the validators pass them on
  MaxOutputRetries, \* corrections the model may be asked for
  None              \* no output

VARIABLES
  messages,   \* the conversation
  rejections, \* outputs rejected so far
  status,     \* "open", "finished" with an output, "closed"
  output      \* the output of a finished run, delivered when it is closed

vars == <<messages, rejections, status, output>>

Verdict == {"returned", "error", "not_found", "cancelled"}

Init ==
  /\ messages = <<[kind |-> "prompt"]>>
  /\ rejections = 0
  /\ status = "open"
  /\ output = None

(* Response n, newer than any before it, enters with the answers to its    *)
(* calls, one each.                                                        *)
Exchange(n, answers) ==
  /\ status = "open"
  /\ \A k \in DOMAIN messages : messages[k].kind = "response" => messages[k].of < n
  /\ answers # {}
  /\ answers \subseteq Nat \X Verdict
  /\ \A a, b \in answers : a[1] = b[1] => a = b
  /\ messages' = Append(Append(messages, [kind |-> "response", of |-> n]),
                        [kind |-> "answers", of |-> n, answers |-> answers])
  /\ UNCHANGED <<rejections, status, output>>

AskAgain ==
  /\ status = "open"
  /\ rejections < MaxOutputRetries
  /\ rejections' = rejections + 1
  /\ messages' = Append(messages, [kind |-> "retry"])
  /\ UNCHANGED <<status, output>>

Reject ==
  /\ status = "open"
  /\ rejections >= MaxOutputRetries
  /\ rejections' = rejections + 1
  /\ UNCHANGED <<messages, status, output>>

Settle(v) ==
  /\ status = "open"
  /\ v \in AcceptedOutputs
  /\ status' = "finished"
  /\ output' = v
  /\ UNCHANGED <<messages, rejections>>

Deliver ==
  /\ status = "finished"
  /\ status' = "closed"
  /\ UNCHANGED <<messages, rejections, output>>

Abandon ==
  /\ status \in {"open", "finished"}
  /\ status' = "closed"
  /\ output' = None
  /\ UNCHANGED <<messages, rejections>>

(* n and answers range over what the last two messages of a longer         *)
(* conversation say, which is what Exchange makes them.                    *)
Converse ==
  LET last_message == messages'[Len(messages')]
  IN /\ Len(messages') = Len(messages) + 2
     /\ Exchange(last_message.of, last_message.answers)

Next ==
  \/ Converse
  \/ AskAgain
  \/ Reject
  \/ \E v \in AcceptedOutputs : Settle(v)
  \/ Deliver
  \/ Abandon

Spec == Init /\ [][Next]_vars
=============================================================================
