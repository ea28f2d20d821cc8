# A TLA+ model of serdesAI

This directory holds TLA+ modules that model the parts of serdesAI whose correctness hangs on
order: the loop of an agent run, its streaming twin, the task service of the agent-to-agent (A2A)
protocol, the client of the model context protocol (MCP), the chain of models behind a request
with its retries, what goes to a model and what comes back from it as a stream, and the
persistence of graph runs. TLC checks them on small instances; TLAPS proves what is said of the
agent run, the agent stream, the streamed responses, the task service, the MCP client, the chain of
models, the parts manager and the graph runs for every value of their constants. Paths below are relative to the
repository (`src/` here is its root).

## 1. Inventory

serdesAI is a workspace of Rust crates around one loop: an *agent* sends a conversation to a
*model*, executes the *tools* the model calls, and stops on an *output* its validators accept.

| Component (crate) | State it keeps | Operations | Interacts with | What is hard | What makes it correct |
|---|---|---|---|---|---|
| agent run loop (`serdes-ai-agent/src/run.rs`) | messages, responses, usage, output retries, final output, finished flag; per step the tool futures | `step`, `run_to_completion`, `finalize`, `cancel`, both tool executors | model (await), tools (await), token shared with any task | step futures dropped at an await, tools that finish in any order, cancellation, limits checked between steps, retries | each call answered once, right output, exact counts, bounded overshoot, nothing new after a cancellation, termination |
| usage and limits (`context.rs`) | counters of a run, limits | `add_request`, `record_tool_call`, `check`, `check_time` | run loop, stream | off-by-one of the comparison, mixed totals | counts are what happened, limits bound them |
| agent configuration (`agent.rs`, `builder.rs`, `output.rs`, `instructions.rs`) | immutable | build, find a tool, parse, validate | run loop | defaults, zero permits | read-only |
| agent stream (`stream.rs`) | as the run, plus a channel of 64 events and a spawned task | `new`, `new_with_cancel`, `poll_next` | model stream, tools, consumer, token | backpressure, dropped consumer, cancellation inside a model stream | the history agrees with what was streamed; the task ends |
| history processors (`history.rs`) | none | truncate, filter, summarise, chain | run loop | orphaned calls and results | no orphan leaves a processor |
| A2A broker (`serdes-ai-a2a/src/broker.rs`) | queue, flag, tokens, `Notify` | submit, poll, wait, cancel, shutdown, clear | handlers, workers | lost wakeups, critical sections interleaving | nothing lost, nothing taken twice |
| A2A server and storage (`server.rs`, `storage.rs`) | stored records | submit, cancel, read | broker, storage, clients | stale snapshots, dropped handlers | records consistent |
| A2A worker (`worker.rs`) | copy of a task | wait, process, stop | broker, storage, agent | select! drops a wait, token racing the agent | accepted tasks end |
| A2A task, schema (`task.rs`, `schema.rs`) | status machine of a task | start, complete, fail, cancel | all of the above | states forced | the documented life cycle |
| graph engine (`serdes-ai-graph`) | graph state, step, persistence | run, resume, iterate, save, load | nodes, files | cycles, crash and resume, in-place writes | resumes where it stopped, ends within its bound |
| retries (`serdes-ai-retries`) | attempt, elapsed time | `with_retry_policy` | any future | deadline against delay | number of attempts, last error kept |
| model fallback and retry (`serdes-ai-models/src/{fallback,retry}.rs`) | index in the chain | request, request stream | models | a stream failing at its first event | no model skipped or asked twice |
| model providers (`serdes-ai-models/src/*`) | HTTP client | translate, send, parse SSE | network | wire formats | data translation |
| streaming (`serdes-ai-streaming`) | parts under construction, batches | apply deltas, debounce, throttle, coalesce | model stream, UI | split tags, timers, end of stream | nothing lost or reordered |
| MCP (`serdes-ai-mcp`) | pending requests, reader task, tool cache | request, notify, close, call tool | child process or HTTP | end of file with requests pending, locks held over awaits | each request answered or failed |
| tools (`serdes-ai-tools`) | registry, deferred calls | register, call, defer | run loop | approvals | calls and results match |
| toolsets (`serdes-ai-toolsets`) | wrapped toolsets, one RwLock | list, call, enter, exit | tools, MCP | names rewritten both ways, partial enter | inverse naming, no conflict |
| structured output (`serdes-ai-output`) | captured output | parse, validate | run loop | data | - |
| evals (`serdes-ai-evals`) | results | run cases in parallel | agents | timeout, permits | every case reported |
| providers, OAuth (`serdes-ai-providers`) | registry, token | look up, log in | HTTP | sequential I/O | - |
| embeddings, UI adapters, macros, facade, core types | little or none | translate | - | mostly data | - |

The interactions that matter here:

* the run loop owns its state exclusively (`step` takes `&mut self`). What runs beside it is the
  holder of the cancellation token, the tool futures inside one step, and a caller that drops a
  step future at an await and calls `step` again;
* in the A2A service HTTP handlers, workers and whoever stops or clears the broker share the
  broker (three locks and a `Notify`) and the storage (one `RwLock`). A task exists in up to
  four copies: stored, queued, in a worker, in the snapshot of a cancel handler.

`PROJECT.json` lists every component with its files and every hazard at the line where it bites.

## 2. Modules

| Module | Models | Corresponds to |
|---|---|---|
| `AgentCore` | responses and parts, usage, limits | `messages/{response,parts}.rs`, `context.rs`; constants for what an agent is configured with |
| `AgentRun` | one run | `run.rs` |
| `Conversation` | what a holder of a run may rely on (abstract) | refined by `AgentRun` |
| `Retain` | `Vec::retain` and `filter`, as recursive functions | used by `broker.rs`, `history.rs`, and for the parts of one kind in `ModelStream` |
| `History` | history processors, and the removal of orphaned calls and results (extends `Retain`) | `history.rs` |
| `AgentStream` | one streamed run: task, channel, consumer, token (extends `History`) | `stream.rs` of the agent |
| `Broker` | the queue, the flag, the tokens and the `Notify` (extends `Retain`) | `broker.rs` |
| `A2A` | handlers, storage, workers around the broker (extends `Broker`) | `server.rs`, `storage.rs`, `worker.rs`, `task.rs` |
| `TaskLifecycle` | the life of a task as its methods document it, with what a cancel request may do to the record (abstract) | refined by `A2A` |
| `McpClient` | callers of one client, reader task, server process | `client.rs`, `transport.rs` of the MCP crate |
| `McpToolset` | the mutex and the cache around it (extends `McpClient`) | `toolset.rs` |
| `ModelChain` | one call through retries, fallback and retries, with a clock | `retry.rs`, `fallback.rs`, `error.rs`, `serdes-ai-retries` |
| `ProviderMessages` | a history grown over runs, processed, and turned into the messages of thirteen models (extends `History`) | the `convert_messages` of each model |
| `ModelStream` | the lines of a server, seven parsers and the agent's collector (extends `Retain`) | `openai`, `google`, `antigravity`, `anthropic`, `claude_code_oauth`, `huggingface`, `cohere`, `chatgpt_oauth`, and the model loop of the agent's `stream.rs` |
| `PartsManager` | the deltas of a response, parts and the events about them | `parts_manager.rs` |
| `GraphStore` | the entries of a run id, in memory or on files | `persistence.rs` |
| `GraphRun` | workers that run, resume, read and delete it (extends `GraphStore`) | `executor.rs`, `Graph::run` of `graph.rs` |
| `MC...` | instances for TLC | - |
| `AgentRunProofs`, `AgentStreamProofs`, `ModelStreamProofs`, `A2AProofs`, `McpToolsetProofs`, `ModelChainProofs`, `PartsManagerProofs`, `GraphRunProofs` | theorems about the module they are named for, with the lemmas about sequences they need | - |

What is kept of a sequence is `Only` (in `Retain`), a recursive function where the library has
`SelectSeq`: the provers see nothing of `SelectSeq`, which rests on a recursive operator. For the
same reason `Scan` and `Read` (in `PartsManager`) and `Processed` (in `History`) are recursive
functions.

### AgentRun

Variables have the names of the fields of `AgentRun` (`step`, `messages`, `responses`, `usage`,
`output_retries`, `final_output`, `finished`); `pc` says at which await the step is, `execs` holds
the tool futures of the step, `cancelled` is the token, `overtime` the clock, `outcome` what the
last `step()` returned, `result` what `finalize` returned. `lost` is a ghost: the tool calls charged
in steps that were dropped.

Code between two awaits is one action, the awaits are the states between:

| Code | Actions |
|---|---|
| `step_inner`: the token, the limits, up to the await on `process_history` | `StepCancelled`, `StepOverLimits`, `BeginStep` |
| from there to the await on the model: nothing is checked again | `SendRequest` |
| the await on the model, usage, `process_response` up to the branch on calls | `ModelError`, `ModelResponse` |
| `execute_tools_sequential`, `execute_tools_parallel`, `execute_single_tool` | `SkipCall`, `StartCall`, `ToolReturns`, `ToolRetries`, `ToolFails` |
| `add_tool_returns` | `AddToolReturns` |
| the rest of `process_response` | `AcceptOutputEarly`, `RetryOutput`, `RejectOutput`, `FinishOnStop`, `UnexpectedStop`, `ContinueRun` |
| `run_to_completion`, `finalize`, a caller of `step` | `CallStep` (a guard), `Finalize`, `GiveUp`, `DropStep` |
| `CancellationToken::cancel`, the clock | `Cancel`, `TimePasses` |

What is abstracted: a text or an argument list is the value that is parsed from it, or `Unparsable`; a
tool call id is the position of the call in its response; an answer is its verdict. The validators of an
agent are a function of the value they are shown: they reject it, or return another, which the run
stores in its place (`Validated`). History processors work on a copy of the messages that is sent once;
what they make of it is in `ProviderMessages`. The sequential executor runs in order; the futures of the
parallel one may start in any order, although `join_all` mostly polls them in theirs: the model allows
more. `max_concurrent_tools(0)` makes a semaphore without permits on which every step with a call waits
for ever: the instances have at least one permit (see the hazard).

### AgentStream

`AgentStream::new` and `new_with_cancel` spawn the same loop, written out twice; the module is
both, with `Cancellable` telling them apart where they differ. Variables are the locals of the task
(`step`, `messages`, `responses`, `usage`, `pending` for `pending_tool_names`, `answers` for
`tool_req`); `reply` and `streamed` say how far the model stream is. The channel is the sequence
`log` of all that was ever sent and the number `read` of what the consumer took; an Err item is a
`failed` event. A send is an await of its own: an action leaves what it sends in `outbox`, and the
next one waits until `SendEvent` has emptied it, or `SendRefused` when the receiver is gone.

| Code | Actions |
|---|---|
| top of the loop, limits, `RequestStart`, `ContextInfo` | `ObserveCancel`, `BeginStep` |
| context compression | `KeepContext`, `TruncateContext`, `SummarizeContext` |
| `request_stream` | `RequestOpens`, `RequestFails` |
| the loop over the model stream, its biased `select!` | `StreamPart`, `StreamFails`, `ObserveCancel` |
| end of the stream, usage, `ResponseComplete` | `ResponseWithCalls`, `FinalResponse`, `ResponseCutShort` |
| the loop over the tools | `ObserveCancel`, `CallTool`, `BeginTool`, `ToolAnswers` |
| `poll_next`, the drop of the stream, `cancel` | `Receive`, `DropStream`, `Cancel` |

What is abstracted: deltas extend a part that has started and are folded into it, with the events
that carry them; `StreamComplete` is folded into the end of the stream; text parts are not empty;
how many messages a truncation keeps, and whether a context is over its threshold, depends on
sizes in bytes and is left open; the model request behind a summary is folded into its outcome
(a failed or empty one truncates). The run starts without a `message_history`. A shutdown of the
tokio runtime, which drops the task anywhere, is left out.

A call, and the answer to it, has a `tool_call_id` or none (Google's and Antigravity's parsers give
none, and the stream copies that into the answer): `HaveIds` is whether a message's have, `Unnamed` the
responses of a provider that gives none. The repair in `History` looks at ids only and keeps every part
without one, so that a cut leaves such calls and answers alone; with ids, none.

Who cancels, drops, limits or compresses is chosen by `options`, so that one run of TLC has both
a stream with a consumer that interferes and one with a long history.

### Broker and A2A

Each critical section of a lock is one action, the locks are released between; a handler or a
worker is where its `pc`, `submit` or `cancel` says. `Notify` is external (tokio) and modelled as
used: `notify_one` wakes the longest waiter or leaves one permit, `notify_waiters` wakes those
waiting and leaves nothing, a dropped `Notified` that `notify_one` had woken passes its wakeup on.
A task's copies are records of status, whether a reply was added and whether an error was set,
all that tells them apart. The storage's own failures, which the in-memory storage has only for
unknown ids, and `delete`, which no handler calls, are left out.

### McpClient and McpToolset

Each caller is a future with a `pc`: the lock of the toolset, the flag of `ensure_initialized`,
the registration of a sender in `pending`, the write to the child's stdin, the wait on the
oneshot, the removal after a failed write. `Transport` is the reader task (a line matched by id,
noise skipped; it ends at the end of file, and on a line that is not UTF-8, from a server that may
well run on), `Server` the child process: it answers what it reads in any order,
writes lines nobody asked for (requests and notifications of its own and one that cannot be read
among them), and may die.
`DropCaller` drops a future at any await; within `write_all` it leaves half a line (`torn`), to
which the next request is glued (`mangled`). `list_tools` and its siblings make the moves of
`call_tool`. Left out: the HTTP and in-memory transports and the reconnection of a program that
builds a new client.

### ModelChain

`with_retry_policy` is the record `loop[layer]` (attempts, deadline, last failure) for the outer and the
inner layer, the fallback the index `model` between them. The server behind the model that is asked
refuses, answers, hangs, or breaks its stream (`ServerRefuses`, `ServerAnswers`, `StreamBegins`,
`StreamBreaks`, ...); timers race it (`AttemptTimesOut`, `BackoffEnds`, `CallTimesOut`,
`OuterBackoffEnds`), up to `Lag` ticks late. A failure is what `ModelError::model_failure` leaves of it:
whether it is a rate limit, transient or permanent, and the delay the server asked for. Jitter is the
range of waits it may yield. A layer that is not there is a policy with one attempt and no budget.
`reported` is the list of failures inside the error the outer loop holds, which is what the caller is
handed in the end; the ghosts `tried` and `gaveUp` are the models that failed in this round of the
chain, and in the last one given up. `answered` (when the last answer came, and the delay it asked for)
is there for `RetryAfterHonoured`. A new request resets it: the code forgets a delay when the chain goes
on to another model and is then retried as a whole, and the property speaks of two requests in a row to
the same model.

### ProviderMessages

The actions grow a history as `run.rs` and `stream.rs` do (`StartRun`, `RunTools`,
`RejectOutput`, `EndRun`), over runs that hand it on. `mode` is which of the two it is: a run takes its
output from a call of the output tool, and when it executes others beside it leaves that call without
an answer (`Executed`); a stream executes every call, and keeps its last response. `named` is whether the
model gives its calls an id.

What the models do with the history is the operator `Converted`, and what they differ in is a record
`Style`, one for each of twelve `convert_messages` (some are equal). The thirteenth, Cohere's,
has one pending message and a list before it, and is `CohereSends`. `Processed` (in `History`) is what
a chain of history processors may make of a history first: a truncation by tokens may keep any
number of recent messages. The loop over `history_processors` is in `run.rs` only: a streamed run has
none.

### ModelStream

One action per kind of line: chunks for OpenAI and Google (Antigravity wraps the same response),
blocks for Anthropic, tokens for HuggingFace, events for Cohere, body lines for ChatGPT, which
reads the whole body before it makes events. The parsers have the names of their providers
(`OpenAIParse`, ...); `Collect` is the agent's loop. Content is the sequence of the numbers of the
lines that brought it, so that loss, repetition and exchange are all visible. `lost` says that not
all the server wrote was read.

A chunk of bytes that does not begin and end with a character is dropped by the OpenAI, Google and
Antigravity parsers, wherever in a line it lies. A line may vanish (`Dropped`), or leave its head in the
buffer (`held`) for the tail of a later one to be glued to (`HeadAndTail`). The result may parse, as more
of the part the head names with what the tail says, as what the tail says of its own, as a call whose
arguments are gone, or as nothing: `JoinedPieces` has them all, `joined` remembers that it happened. The
other parsers lose whole lines. A chunk may also be read in part: the first content in it ends the work
on it (`Leftover`).

OpenAI gives a part its index when it is first mentioned, and starts it with its first content. A
call that comes without arguments takes an index and does not start; a part that starts with a greater
index meanwhile takes its place in the collected list, and all later deltas are off by one. `overtaken`
says that this has happened.

### PartsManager

One action per handler. Tagged text is fed in chunks of every length. Text is a sequence of
bytes, a tag is three of them, one character has two. The content of any other delta is a token.
`view` is what a consumer rebuilds from the events alone. The loop of
`handle_text_with_thinking_tags` is `Scan`, a round of it `Round`: each takes a byte at least, so as
many rounds as bytes are enough, and a round with nothing left does nothing.

### GraphStore and GraphRun

A worker is in one call at a time; a state is the number of units of work in it. On files a write
truncates first (`OpenEntry`) and writes later, a load and a delete look first and read or remove
later; the locked map of the memory store has no such gaps. What is in a file is what was saved, or
nothing yet (`Empty`), or bytes that do not parse (`Torn`), or bytes that parse as what nobody saved
(`Garbled`). A state is written inside an object, beside its step, and a part of an object never parses; a
mixture of two may, if one of them was cut short. A result is the bare JSON of the graph's `End`
(`persistence.rs:217`). Where that is a number (`Bare`; the graphs in the tests end in `i32`), its first
digits are a number too. `broken` and `crossed` are ghosts: the entries of which a write was cut short, and
those two workers had open at once. `Crash` ends a worker anywhere. A
node may save, continue, fail or end. The one bound, `MaxWork` units of work, is a guard of
`Begins`: a run that might exceed it does not begin, so that no run is cut short by the bound.

## 3. Runs

A property of a run is often a conjunction of named parts, each with its own comment in the
module: `OutputAccounted` is `OutputProvenance` and `RetryBudget`; `UsageAccounted` is
`UsageIsExact`, `OvershootBounded` and `StepsBounded`; `WorkAccounted` is `CallsAnswered` and
`UsageAccounted`; `TasksAccounted` is `TypeOK`, `OneOwner`,
`QueuedTaskIsPending` and `NoTaskLost`; and so on for `ReportsTrue`, `RequestsAccounted`,
`HandshakeKept`, `ResponseTrue`, `AttemptsAccounted`, `StoreFaithful`, `HistorySent`, `PartsFaithful`.

| Run | Shows | Bounds, and why they are enough |
|---|---|---|
| `run_sequential` | sequential executor, `EndStrategy::Exhaustive`, cancellation, limits, `run_to_completion`: calls answered once (`CallsAnswered`), the output is what the validators made of the last one they accepted, retries within their budget, usage exact, overshoot bounded by one request and the calls of one response, nothing new after a cancellation but a request whose step was preparing the history, every run ends | eleven responses, one for each path through `process_response`; two tools, one retried once; two accepted outputs (one can replace the other, one is changed by its validator) and one rejected; 6 steps, which `StepsBounded` shows `run_to_completion` never needs (a stepwise caller may step on past failing requests, so it says nothing of one) |
| `run_stepwise` | parallel executor with two permits, `EndStrategy::Early`, a caller that steps on after errors and drops futures, token and time limits: calls are answered once and charged once, dropped steps included (`WorkAccounted`), a finished run is frozen, no drop leaves half an exchange (`ImplementsConversation`) | two calls at once; 4 steps: a call, a rejected and a corrected output, and one more |
| `stream_run` | what the events say is what happened (`ReportsTrue`, `HistoryMatchesEvents`), requests pair answers with the calls that have ids however often the context was compressed, and with all calls while it is not (`WellPairedRequests`, but for summaries without a system prompt, which it excludes), nothing begun after a cancellation, an abandoned stream ends | five responses, one from a provider without ids; a channel of two events, so that most sends wait for the consumer; two requests that may succeed with an interfering consumer; three exchanges when compressing, so that a cut falls inside one, between two, and into a history cut before |
| `a2a_safety` | no task executed twice, queued copies are pending, no accepted task lost, records consistent, the records implement `TaskLifecycle`; with shutdown, clear, a worker that may stop and clients that hang up | two tasks contend for two workers and a queue of one; one cancel request at a time: requests about different tasks share only the locks, a second about the same task does what a hung-up first one does |
| `a2a_liveness` | while the workers run, accepted tasks end, and signalled ones come to rest as cancelled or failed, also when the broker is cleared | the same with an unbounded queue |
| `mcp_toolset` | each caller gets its own answer, the handshake comes before other requests and nothing follows the close, the cache never goes back, a call the server serves ends while the lines it writes can be read | three callers: one that may be dropped, two that race; one line of noise, which may be one that ends the reader; a server that may die |
| `model_chain` | the caller sees the events of one model, and of a call that fails before any it is handed the failures of the last round the chain gave up; budgets bound every attempt and wait, a server's delay is waited for, every budgeted call returns | two models, five pairs of policies with each layer absent, limited and unlimited, three fallback policies, 24 ticks, more than any of the budgets |
| `model_stream` | the response is what the server sent, part by part (`ResponseFaithful`); a torn stream puts no content in another part unless two lines were joined, and none out of order (`NothingInvented`); events are in place but for starts that overtake a call without arguments; completion means the provider confirmed it | text, thinking and two calls; six lines: a line for each part, a finish and the terminal line. Four for OpenAI, five for Google and Antigravity, whose chunks bring two pieces and a finish at once and whose lines may be joined: four are enough for a call without arguments, a part that overtakes it, a delta that goes astray, and the end |
| `provider_messages` | where the API demands it turns alternate, and the results of exactly the calls before follow them but for a call the output was taken from; every text and result is sent once and in order, with every system prompt, but for what `NothingLost` and `CohereAsksTheLatest` say of single models; also after processors have cut the history | three requests over up to three runs, eight responses, with and without ids, of a run or a stream; twenty-nine chains: truncations to 0..4 messages, by tokens with 0..2 first ones kept, filters before a truncation, cuts before a filter |
| `parts_manager` | every way to cut a text with tags yields the same parts; parts and events agree for deltas of all kinds | texts of three words (a tag, part of a tag, a blank, characters of one and two bytes) beside another delta; three deltas over two vendor ids |
| `graph_run` | a run resumes what somebody saved unless writes of the state were both cut short and crossed, a result is one a run ended with unless, being a bare number, its write was cut short or crossed; steps count the work done, a delete leaves nothing, every call returns | two workers, three calls, limits of no and of two steps, results that are bare numbers |

`CHECK_DEADLOCK FALSE` in the runs of the service, the client, the chain, the messages, the stream
parsers, the parts and the graph: the first may go quiet when every task is over, the others end
when the call, the response or their calls have. The agent runs check deadlock: `Over` is the only
way to rest. That `stream_run` bounds the requests does not make `AbandonedStreamEnds` empty:
`RequestAnnounced` and `NoWorkAfterCancel` show that an abandoned stream opens no request but one
already announced, so it ends by itself and not because the bound is reached.

### Where the code and what is said of it part

`doc_shutdown` (`expect: violation`) checks `ShutdownEndsWaits`: shutdown is to make all waits
return (`broker.rs:124`), but a worker between its check of the flag and its registration misses
`notify_waiters` and sleeps for ever.

More disagreements follow from the models. Where a property had to be stated weaker for one, its
comment says so.

In the agent run and the stream:

* without a system prompt a summary keeps the first response and swallows the answers to its
  calls, although it is to keep the system prompt and the first user prompt (`stream.rs:365`,
  `:377`) and calls without results are API errors (`history.rs:349`); `WellPairedRequests` leaves that case
  out, with a condition in the property;
* a parsed output-tool call beside another call is never answered (`run.rs:453`), which is what
  providers reject (`history.rs:349`);
* the token is checked before a step, but not again once the history processors have been awaited
  (`run.rs:385`): a run cancelled meanwhile still asks the model, and charges the request;
* a call without an id stays when its answer is cut away, and an answer when its call is
  (`history.rs:129`), though calls without results are API errors (`history.rs:349`): Google's and
  Antigravity's streams give no ids. `WellPairedRequests` speaks of calls with ids, and of all calls
  where nothing is compressed;
* the token is checked "before each tool execution" (`run.rs:132`), but the parallel executor never
  looks at it; `NoWorkAfterCancel` states what does hold;
* `FinishReason::is_complete` holds of `Stop` and `EndTurn` (`response.rs:389`), but only `Stop` ends
  a run: under `Exhaustive` an `end_turn` answer is asked for again on the same messages;
* `EndStrategy::Early` is to skip the remaining tools (`agent.rs:23`), but tools run first and output
  found beside them is dropped;
* a limit of n requests permits n + 1 (`context.rs:315`; `OvershootBounded` states what does hold);
* a retry prompt is pushed without the rejected response, so two user messages follow each other
  (`run.rs:758` against `run.rs:712`);
* a cancelled stream is to abort in-flight tool calls (`stream.rs:921`), but the tool is awaited;
  `pending_tools` are the tools "in progress when cancelled" (`stream.rs:131`), but a name leaves the
  list before its tool runs, and takes with it other calls of the same tool (`stream.rs:1398`;
  `PendingReported` states what does hold);
* `RunComplete` carries the "complete message history" (`stream.rs:114`), but a response cut short
  is never pushed, and compression replaces the history itself;
* a clean end of a model stream is taken for completion although no finish was seen
  (`stream.rs:691`-`703`), except by the Anthropic parser, which refuses it;
* the history processors of an agent are applied in `run.rs` only. `TruncateHistory` with room for
  two messages drops the answers to the last calls as orphans (`LatestSent` needs three). A
  truncation that keeps the system prompt and cuts before a response leaves the assistant's
  message first, one by tokens that keeps two messages may put two responses next to each other,
  and one that finds the history short enough repairs nothing a filter took apart before it.

In the models:

* the ClaudeCode and Antigravity converters do not merge user messages, although "Anthropic
  requires alternating user/assistant messages" (`claude_code_oauth/model.rs:405`);
* an OpenAI call that comes without arguments takes an index and emits no start
  (`openai/stream.rs:288`), while the collector counts the starts (`stream.rs:619`): the parts behind it
  arrive one place early, and their deltas go to their neighbours (`overtaken`);
* OpenAI, Google and Antigravity drop a chunk of bytes that does not begin and end with a character
  (`openai/stream.rs:138`, `google/stream.rs:166`, `antigravity/stream.rs:170`), so that the head of one
  line is read with the tail of another (`joined`): a part may then hold what was said of another;
* OpenAI and Google read the first piece of a chunk and ignore the others; HuggingFace sends deltas for a part
  it never starts, so that the collector drops the answer (`huggingface/model.rs:348`);
* Cohere's conversion keeps one pending user message: a retry prompt overwrites it
  (`cohere/model.rs:153`), it is sent behind the whole history, and of several system prompts the last
  is sent. OpenAI's Responses model sends the last system prompt as well, Claude Code's those of the first
  run, and ChatGPT's leaves out results without an id;
* the Cohere parser opens the text part with an empty text and drops the first piece
  (`cohere/model.rs:449`): "Hel" and "lo" arrive as "lo"; an answer without text ends a part that
  never started, and calls are ignored;
* `StreamComplete` is "only emitted when the provider confirms successful completion"
  (`events.rs:672`), but the ChatGPT model reports `Stop` for any body it could read, also one
  without `response.completed` (`chatgpt_oauth/model.rs:590`), and puts the text before the calls;
* the parts manager buffers a "potential partial tag at end of text" (`parts_manager.rs:241`) of tags
  its caller is free to choose (`:373`), but `find_partial_tag_suffix` takes the shortest suffix that
  begins the tag: of a chunk that ends in `[[` only one bracket is held back, and `[[think]]` is then
  missed and shown as text (`:921`): with such a `StartTag`, TLC finds `ChunkingInvisible` violated by
  the second chunk, and the theorem about it excludes such tags. `<think>` and the other tags in use
  have a first byte that does not come back;
* the suffix search of the parts manager counts bytes and slices within a character, which panics
  (`parts_manager.rs:922`; `TextPanics` is that step).

In the service, the client and the graph:

* only pending and running tasks can be cancelled (`task.rs:174`), but whole records are overwritten
  (`worker.rs:156`): a cancelled task runs again, a completed one becomes cancelled; `TaskLifecycle`
  permits this where a cancellation was asked for, and only there;
* a worker that is stopped between a wakeup and its poll takes the wakeup with it (`worker.rs:106`),
  which is why `a2a_liveness` stops no worker;
* an MCP server that dies leaves its callers waiting: nothing empties the pending map at end of
  file (`transport.rs:140`), which is why `ServedCallsEnd` speaks of a server that runs; nor when the
  reader ends on a line that is not UTF-8 (`transport.rs:168`), beside a server that does, so it speaks of
  lines that can be read, too; a message
  of the server's own that has an id is handed over as the answer to a request with that id;
* a result is written in place as bare JSON (`persistence.rs:217`): where the graph ends in a number, what a
  crash has left of one, or what two writers have made of two, is loaded as a result that no run had;
* the graph executor is to "automatically save state" (`executor.rs:65`), but it saves results
  only; states are saved by nodes, if they do;
* `GraphIter::into_result` is to return the result (`iter.rs:107`), but `step` drops the value of an
  ending node and never sets it: it always returns none.

### Fairness

`AgentRun`: the loop of `run_to_completion` is ordinary code and goes on; the model client answers
or fails (its HTTP client has a timeout); a tool returns, and its retries are bounded by
`MaxRetries`. Nothing is assumed of the holder of the token, nor of a stepwise caller.
`AgentStream`: the spawned task is polled until it ends, model client and tools return, and the
consumer reads on until it drops the stream (one that holds the stream and never polls it blocks
the task at a full channel, deaf to its token: there is no other way out in the code). `A2A`:
handlers and workers are tokio tasks and are polled until they are done; the agent run behind a
worker returns. Requests, stops and shutdowns need never come. `McpToolset`: callers and the
reader task are polled, and the server answers what it has read while it runs. `ModelChain`: the
clock advances and timers fire; no server owes an answer. `GraphRun`: the calls of a worker are
polled and every node returns; nobody need make a call. All fairness is weak: an enabled step of a
task stays enabled until it is taken, as no lock is held between actions; where one is (the mutex
of `McpToolset`, the map of the store), its holder is fair too.

## 4. Proofs

The theorems hold for every value of the constants that the `ASSUME` of the module allows: any sets of
tools, tasks, workers and callers, any responses of any length, any limits, policies and budgets. TLC
evaluates each assumption in the runs. Besides the types of the constants, they say that the markers
used for "nothing" or for damage (`None`, `Absent`, `Empty`, `Torn`, `Garbled`) are not numbers, tasks,
failures or answers; the bounds of the model (`MaxSteps`, `MaxWork`, `MaxTime`) are arbitrary numbers.

| Theorem | States | For |
|---|---|---|
| `TypeCorrect`, `CallsAlwaysAnswered` | `TypeOK`, `CallsAnswered` | agent run |
| `OutputAlwaysAccounted`, `UsageAlwaysAccounted` | `OutputAccounted`, `UsageAccounted` | |
| `CancelStopsNewWork`, `FinishedStaysFinal` | the action properties `NoWorkAfterCancel`, `FinishedIsFinal` | |
| `RunImplementsConversation` | the refinement of `Conversation` | |
| `StreamReportsTruth`, `StreamHistoryMatches`, `StreamPairsCalls` | `ReportsTrue`, `HistoryMatchesEvents`, `WellPairedRequests` | agent stream |
| `CancelledStreamStopsWork` | the action property `NoWorkAfterCancel` | |
| `ResponseAlwaysTrue`, `EventsAlwaysInPlace`, `CompletionConfirmed` | `ResponseTrue`, `EventsInPlace`, `TerminalConfirmed` | streamed responses |
| `TasksAlwaysAccounted`, `RecordsAlwaysConsistent` | `TasksAccounted`, `RecordIsConsistent` | A2A service |
| `ServiceImplementsLifecycle` | the refinement of `TaskLifecycle` | |
| `RequestsAlwaysAccounted`, `HandshakeAlwaysKept` | `RequestsAccounted`, `HandshakeKept` | MCP client |
| `CacheNeverOlder` | the action property `CacheNeverGoesBack` | |
| `ChainSpeaksWithOneVoice`, `ChainAccountsForAttempts`, `ChainKeepsBudgets` | `OneVoice`, `AttemptsAccounted`, `BudgetKept` | chain of models |
| `ChainHonoursRetryAfter` | the action property `RetryAfterHonoured` | |
| `PartsAlwaysFaithful`, `ChunkingStaysInvisible` | `PartsFaithful`, `ChunkingInvisible` (the second for tags whose first byte does not come back before the last) | parts manager |
| `StoreAlwaysFaithful`, `StepsAreAlwaysWork` | `StoreFaithful`, `StepsAreWork` | graph runs |
| `DeleteAlwaysErases` | the action property `DeleteErases` | |

Few of these properties are inductive. What each proof adds, and why:

**Agent run.** `TypeOK` needs to know that in the middle of a step the last response exists and that the
futures are exactly its calls (`StepInv`); with it, `Inv1` is inductive. `EndInv`: a finished run is
between steps and holds what the validators made of an accepted output. `MessageInv` is `CallsAnswered`
with the order of the responses in the conversation: those pushed are older than the one being answered,
which is what `Conversation` demands of an exchange. The refinement maps an exchange to
`AddToolReturns`, a correction or rejection to `RetryOutput` and `RejectOutput`, the end to
`AcceptOutputEarly` and `FinishOnStop`; every other step stutters (`RefinesNext`).

Two theorems count. `UsageInv` ties the counters to the history: one request for
each response that reported usage (`Metered`), one tool call for each answered call of the
messages, for each one of the step that is charged by now (`ChargedCalls`: all of them at once in the
parallel executor, which answers none with a cancellation), and for those that went with
dropped steps (`lost`). `SpendInv`: from the check of the limits until the request is answered usage is
within them, and while tools run the excess is at most the calls begun in this step; `OvershootBounded`
follows when the step is over. `PaceInv` (of `run_to_completion` only): as many steps as responses, but for
the request that is prepared or out; with exact usage and the limits, that bounds the steps.

`CancelStopsNewWork` follows from single steps: what it allows, a request of a step that is "preparing",
is what lies between the check of the token and the await on the model.

**Agent stream.** `Typed` and `PlaceInv` say what the place in the loop knows (the reply that is
streamed is the last response, answers are to its calls, steps are within their bound). The properties
are about the log of a channel whose end still sits in `outbox`. So the invariant is about `Sent`, both
together while there is a receiver: every prefix of it is faithful (`AllFaithful`), and its tallies
agree with the task's own state - the usage (`UsageKnown`), the answers in the messages and of this step
(`AnswersKnown`), the names announced and not yet begun (`PendingKnown`). A property of the log is that
of a prefix of `Sent`. `EndInv`: an end is said last, and once. `WellPairedRequests` is the hard one,
because a compression cuts the history in places it does not choose. `PairInv` says that between
requests each response with calls is followed at once by answers to exactly its calls if these have ids,
that responses are told apart by their number, and that no message is empty (`Exchanges`, `Settled`);
`RepairedPairs` shows that the removal of orphans makes such a history again from any selection of its
messages in order, and `TruncationPairs` and `SummaryPairs` that a truncation and a summary are such
selections, if what they put first is not a response. That is where the system prompt is needed
(`Headed`). Of calls without ids, which a cut may separate from their answers, `WholeInv` says the same
while nothing is compressed.

**Streamed responses.** What was collected is tied to what the server said by the parser's table
of indices. `Slotted`: the indices are the places of the collected parts, one for one. `Told`: the
part at the place of a key has its kind and holds, in order, lines the server wrote of it; this is
`NothingInvented` with a witness, and survives any loss. Once two lines were taken for one it is true
only of lines written of anything: `Source` is what the parts are compared with, `said` before and `All`
after, so that one invariant carries both. `Same`: as long as nothing was lost, parts and sayings are
equal, place for place; this is `ResponseFaithful`.

OpenAI's table also has the calls that came without arguments. `OpenAIInv` says that the indices are given
out one after the other (`Numbered`), and, until a part overtakes such a call, all the above of the
parts that started (`Placed`): they are the first ones of the table, and the calls that have not started
come behind them (`SameStarted`). That is exactly what an overtaking start breaks. `BufferInv`: a
head that waits in the buffer is of a part the server mentioned and the parser does not know, and lines
are joined only where bytes are dropped.

`OpenInv` and `FinishInv` say which parts a parser still holds open and who has finished
what, by provider; with them each event finds its place. Cohere, which loses its first piece and
knows only text, needs a statement of its own (`CohereInv`), and so does ChatGPT, which collects
nothing until the end: `BodyInv` says the same of its body (`Tells`, and `Mirrors` when nothing was
lost), and the response is what `TextFirst` makes of it. Each line of a server has a lemma
(`...Kept`). Nothing is assumed of the order in which pieces come: OpenAI and Google give indices in the
order of first mention, Anthropic's come from the server.

**A2A service.** `OneOwner` (a task is in one place) is preserved only if a queued task is new,
unsignalled and pending in the storage, if an accepted task with a token is on its way
(`OnItsWay`: queued, held by a worker, or in the hands of a cancel request), and if a token is signalled or
a record cancelled only when it was asked for (`TaskInv`); if the copy in a worker is what its
place says, and the stored record differs from it by a cancellation at most (`WorkerInv`); and if a
cancel request has taken its task from the queue and its snapshot was one of a task that could be
cancelled (`CancelInv`). The same invariant carries the refinement: each write of a whole record is
a step of `TaskLifecycle` or one that a cancel request excuses.

**MCP client.** `IdInv`: ids are used once. `LinesInv`: what the server has read, and each answer in
the pipe, stems from the caller with that id, which is what makes a match by id a match of caller
and answer. `ChannelInv`: an answer is in a channel only while its caller waits. `HandshakeInv`:
`initialized` implies that the notification was written, unless a torn line swallowed it.
`MutexInv`, `CloseInv` and `CacheInv` are about a client owned by a toolset: one caller at a time, so
that no handshake overlaps a close, and whoever is about to fill the cache has the newest listing.

**Chain of models.** `LoopInv`: a wait ends within the budget of its loop (`Sleeps`). `AnswerInv`:
behind a wait is the answer it waits for. `FailureInv`: the failures recorded are those of the models
before the present one, which is what makes `AttemptsAccounted` survive the step to the next model.
`ReportInv`: the list inside the outer loop's error is that of the last round given up, and the error
the last of it, so that the caller is handed these whichever way the outer loop ends (`FailuresAccounted`).
`ShownInv`: the caller has seen nothing before a stream was selected, and nothing of another request.

**Parts manager.** `PartsInv` says of the record of parts, index and view that it is sound and that
the view shows each part (`Sound`, `Seen`), and what became of each delta (`Kept`): it is in one
part or in none, in a part of its kind, with those of its id, in order; and, which `DeltasKept` does
not say and needs, the id of a delta stays in the index, and the part it names has the delta if it
is of its kind (`NamedById`). Each handler either leaves the record alone or puts a content in one
part (`Put`, `Reached`); from that one form of a step follow all the conjuncts (`TokenKept`). For
tagged text the same is shown of each round of the loop (`RoundLoops`) and, by induction on the
rounds, of the loop (`ScanLoops`).

`ChunkInv` is about the text. It compares the manager with a reader that takes one byte at a time
and holds back the longest end of what it has that may become the next tag (`ReadByte`). `ReadAll`:
the manager shows what the reader has read, holds back what it holds back, and is inside the
thinking when it is. The reader does not know of chunks, the manager starts each chunk anew from
what it held back; `Remains` says where in the whole text the rest of a chunk lies, and `Progress`
that after each round the reader, stopped there, has read what the parts show. A round jumps to a
tag or to the end, so its proof follows the reader through all the bytes in between: as long as no
tag is complete, what it has read and what hangs on are the fragment so far (`Reads`, `Hangs`,
`NextHangs`). The manager holds back the shortest end that may become the tag, the reader the
longest; the two are the same for a `Simple` tag, whose first byte does not come back before its
last: only one end of a text can be a beginning of it (`OneHangs`). For other tags the statement is
false (see section 3). The text may be in one part only, which is why the property leaves out a text
whose id another delta took (`OwnText`). Of white space before the text, what was dropped is a blank
beginning (`Trimmed`). Assumed are: tags are not empty, tokens differ from each other and from
bytes.

**Graph runs.** `FileInv`: an open file that nobody removed is still empty, unless another worker has had
it open at the same time, which is what `crossed` remembers. So a write that finds bytes in its file
is a crossed one, and `Garbled` needs what `MayBeGarbled` says (`Sound`). `StoreInv` adds that a worker in
the middle of a write has its file open. `CallInv`: a call that resumed started from a saved state, or a
garbled one that may be; what it has counted is the work done since. `DeleteInv`: after a delete has
removed the state, none is there but one written since. `ResultFromAnEnd` is inductive with these.

Induction over data. What a recursive function does is proved without the library's induction
theorems, which take an operator as a parameter that the provers cannot instantiate: `Least`
gives a set of numbers that is not empty its least member, and a proof takes the
least counterexample and contradicts it. `OnlyUnfolds`, `OnlyPlaces` and `OnlyMembers` are proved
so: `Only` keeps exactly the members asked for, in their order. So are `CollectedMore`,
`StartsCollected` and `EndsCollected` (`ModelStreamProofs`): what the collector makes of a list of
events, of a response that starts whole, and of parts that end in any order.

A proof reads a definition as TLA+ does and not as TLC evaluates it: of a `CASE` with overlapping
guards TLC takes the first branch, while its value is that of any. The proofs found three of these,
in `ModelStream`, `History` and `ProviderMessages`; they are IF/ELSE now, in the order the code tests.

Model-checked only:

* the liveness properties (`RunEnds`, `AbandonedStreamEnds`, `AcceptedTaskEnds`, `ServedCallsEnd`,
  `CallReturns` and what else ends): fairness and ENABLED are outside
  what the prover handles;
* `ProviderMessages` (`TurnsAlternate`, `ResultsFollowCalls`, `HistorySent`): nothing about them is
  proved yet. They compute with the folds of the community modules over messages that are split and
  merged, and every fact about one needs an argument of the kind of `OnlyPlaces`.

## 5. Plan

Done, in this order: `AgentCore`, `AgentRun`, `Conversation`, `Broker`, `A2A`, `TaskLifecycle`,
`History`, `AgentStream`, `McpClient`, `McpToolset`, `ModelChain`, `GraphStore`, `GraphRun`,
`ProviderMessages`, `ModelStream`, `PartsManager`; the proofs about `AgentRun`, `A2A`, `ModelChain`,
`McpToolset`, `GraphRun`, `AgentStream`, `ModelStream` and `PartsManager`. Next, the most important first:

1. Proofs: `TurnsAlternate` of `ProviderMessages` for the converters that merge user messages.
2. Debounced and coalesced streams with a timer, deferred tools, the evals runner with its permits.

## 6. Not modelled

`PROJECT.json` has the reason for each component. In short:

* data and translation without a state whose order could go wrong: wire types, schemas, settings,
  the parsing of answers that are not streamed, profiles, embeddings (floating-point), formatting
  of UI protocols, Mermaid drawings, code generation by macros, re-exports and examples;
* plain sequential input and output: provider lookup, OAuth, HTTP clients, built-in tools;
* user code behind a trait: tools, nodes, validators, `FnProcessor`, toolset wrappers that rewrite
  names under one lock;
* parts of modelled components: the HTTP and in-memory MCP transports and the MCP server, which
  answer one request at a time; `GraphIter`, `SimpleGraph` (a loop without a bound over a table of
  edges), `list_runs` and `validate`; the older `with_retry` and the retry of HTTP requests; stream
  parsers that emit one event per line without a state; threads, artifacts and reads of the A2A
  storage; a shutdown of the tokio runtime, which drops every task anywhere;
* streams that depend on when they are polled (debounce, throttle), whose properties are about
  elapsed time only.
