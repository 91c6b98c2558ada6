# A TLA+ model of win_inference

win_inference is a single-process inference server: HTTP handlers validate
requests, turn them into prompts and submit them to a scheduler; one decode
thread prefills and decodes them; a KV-cache allocator and a GPU router account
for device memory; per-request token queues carry the output back; main brings
the parts up and takes them down on a signal. This directory holds TLA+ modules
for these parts, TLC configurations that check them on small instances, and TLAPS
proofs of the most important safety properties for every configuration.

`PROJECT.json` is the index: components, runs, the source lines behind each
definition (`map`), one plausible bug per property (`mutants`), findings, hazards
and theorems. Paths below are relative to the repository's root.

    tlc -workers 2 -config MCScheduler.cfg MCScheduler   # a run
    tlapm SchedulerProofs.tla                            # the proofs of a module

## 1. The system

### Threads

| thread | runs | touches |
|---|---|---|
| HTTP thread, one per request | `chat_completions` (`src/api/routes.cpp`): parse, validate, build the prompt, `submit`, poll the token queue, write chunks or a response | registry, pending queue, token queue, cancellation token, the request's fields, metrics |
| decode thread | `Scheduler::decode_loop` (`src/scheduler/scheduler.cpp`): pop, prefill, one step per active request and round | everything of a request, allocator, router, backend, metrics |
| main thread | `main` (`src/main.cpp`): bring up, wait for a shutdown request, `server.stop()`, `scheduler->stop()`, `unload_model` | the shutdown flag and its mutex, `running_` of server and scheduler, the joins |
| server thread | the lambda of `Server::start` (`src/api/server.cpp`): httplib's `listen` | `running_` of the server |
| signal or console handler | `request_shutdown`, on a thread of its own (Windows) or on main's stack (POSIX) | the shutdown flag and its mutex |

### Components, their state and operations

| component | state | operations | what makes it correct |
|---|---|---|---|
| Token queue (`request.hpp`) | bounded queue, `closed`, drop counter | `push` (drops when full), `pop` with a timeout, `close` | tokens, then one terminal event; losses counted |
| Scheduler | `running_`, `pending_queue_`, `active_requests_`, counters | `start`, `stop`, `submit`/`admit`, `cancel`, `decode_loop`, `process_queue`, `run_prefill`, `run_decode_step`, `emit_token`, `complete_request`, `fail_request`, `free_resources` | nothing lost or run twice; served in order; caches owned; bounds; final results; every request ends |
| Registry | map from id to request | `add`, `remove`, `cancel`, `cancel_all` | knows exactly what waits or runs |
| Request | state, result, deadlines, KV handle, output | `set_state`, `is_terminal`, deadline tests | terminal is final |
| Handler | loop position, what was sent | see above | tells the client what happened, abandons nothing |
| Request validator, API types | none | `validate`, `apply_defaults`, `from_json` | what is accepted can be served |
| Prompt builder and tokenizer | vocabulary | `build`, `encode`, `decode_token` | the model sees the conversation the client sent |
| Sampler | generator | `sample`: greedy, `top_p` | draws from the nucleus |
| Stop checker | none | `check`, `find_stop_sequence`, `trim_stop_sequence` | stops at the first place where it should, the limit included |
| Contiguous allocator | per-device statistics, allocations | `allocate`, `allocate_tensor_parallel`, `free`, `can_allocate` | accounts balance, no leak on a CUDA error |
| Pooled allocator | slots, free stack, id-to-slot map | the same, with overflow | slots exclusive, never lost or doubled |
| GPU router | per-device budgets (`size_t`) | `route`, `can_place`, `reserve`, `commit`, `unreserve`, `free` | the account agrees with what requests hold, never wraps |
| Device manager | device list, round-robin counter | `recommend_strategy`, `select_device` | |
| Cancellation token | flag, callbacks | `cancel`, `on_cancel` | a cancellation is never missed |
| SSE streamer | event queue, `active_`, `disconnected_` | `push_chunk`, `push_error`, `complete`, `run`, `stop` | in order, terminal last, ends |
| Metrics | counters, gauges, histograms | `increment`, `decrement`, `observe`, `export_prometheus` | an export is consistent; gauges drift only by overlapping updates |
| Server, main | listener, its thread, the shutdown flag | `start`, `stop`, `request_shutdown` | a shutdown completes, parts outlive their users, the exit status is true |
| Memory budget, batch coordinator, logger, `Result`, CUDA wrappers, TensorRT stub | | | see section 8 |

### How they interact

A handler calls `submit` on its own thread; `submit` calls `admit`, which looks
at the queue, the router and the allocator under three different locks, then
registers and queues the request. The decode thread takes a request from the
queue, holds it outside both locks while it routes, reserves, allocates, commits
and prefills, and only then makes it active. Each round works on a snapshot of
the active list. Tokens go to the request's queue, which the handler polls every
100 ms. The terminal state is stored before the terminal event is pushed and
before the queue is closed. A client that disconnects, a handler's timeout, the
registry's `cancel` and `stop` all speak to the decode thread through the
request's cancellation token only. Main stops the server first: httplib joins its
workers before `listen` returns, so no handler is left when the scheduler stops.

### What is hard here

The `hazards` of `PROJECT.json` give each with its line: test and push under
different locks (admission, queue bound), a request in nobody's container
(`process_queue`), a snapshot that goes stale within a round, the order of state,
event, close and release at the end of a request, results read without a lock, a
bounded queue that drops, four kinds of timeout, cancellation at any moment,
resources released twice after a failed prefill, CUDA errors halfway through the
devices, unsigned budgets, `stop` that cancels after the join, a gauge that is a
load and a store, an export under three locks, a wake-up between a test and a
wait, a listener that fails early or late, tests of `active_` outside the
streamer's lock, a token cancelled while a streamer registers, markers and stop
sequences across the borders of chunks and tokens, and the arithmetic of prompt,
limit and context.

## 2. Modules

| module | models | state and actions |
|---|---|---|
| `TokenQueue` | `TokenQueue` of `request.hpp` | operators on a record `[events, closed, dropped]` |
| `RequestLifecycle` | what the scheduler promises its clients | abstract: a request is refused or accepted once, accepted ones start in order and at most `MaxActive` at a time, and each ends once with a final outcome |
| `Scheduler` | `scheduler.cpp`, `request_registry.cpp`, `Request` | `dpc`/`cur`/`todo` are the decode thread's control, request and rest of the snapshot; `spc` the HTTP threads' control in `submit`; `main` the main thread's; `kv` says whether a request's handle is valid and what `free_resources` has released of it; `Lifecycle` is its refinement mapping |
| `ChatCompletions` | `chat_completions`, `Server::stop`, `main` | EXTENDS `Scheduler`: the handler takes the place of its free environment (`hpc` is its control) |
| `RequestValidator`, `PromptBuilder`, `Sampler`, `StopChecker` | the pure parts of a request's way | operators |
| `Sums` | | sums of finitely many numbers, as the number of units they count |
| `Generation` | the data of one request, from its body to its text | EXTENDS the four above; one action per stage |
| `KVAllocator` | the interface of both allocators | devices, results |
| `KVContiguous`, `KVPooled` | the two allocators | one action per operation, since each holds the mutex throughout |
| `GpuRouter` | `gpu_router.cpp`, two choices of `device_manager.cpp` | pure operators from budgets to budgets, modulo `Word` |
| `MemoryPlane` | the calls `scheduler.cpp` makes to router and allocator | EXTENDS `GpuRouter`, INSTANCE `KVContiguous`; a step ends at each unlock; the history variable `lost` remembers what allocations charged that failed halfway |
| `Metrics` | `metrics.hpp`, `metrics.cpp` and the updates that race | submitters (`hpc`), decode thread (`dpc`), export (`xpc`) |
| `SSEStreamer` | `sse_streamer.cpp`, `cancellation.hpp` | producer (`ppc`), streaming thread (`rpc`), cancellers (`cpc`) |
| `Process` | `main.cpp`, `server.cpp` | main (`mpc`), shutdown requests (`spc`, `stack` for those that interrupt main), server thread (`srv`), httplib's workers (`handlers`) |
| `SchedulerProofs`, `ChatCompletionsProofs`, `KVContiguousProofs`, `KVPooledProofs`, `MemoryPlaneProofs`, `GenerationProofs`, `ServerProofs` (the process, the streamer and the metrics) | | the theorems of section 6 |
| `SumTheorems` | | lemmas about `Sums`, and the least element of a set of numbers |
| `MCScheduler`, `MCKVAllocators`, `MCMemoryPlane`, `MCMetrics`, `MCGeneration` | | model values, symmetry and inputs for TLC |

A step of a module ends where the code lets another thread see the change: at an
unlock, an atomic store, a queue push. `Scheduler` therefore splits `submit` in
five steps and the end of a request in four (`Settle` stores the state, `Publish`
pushes the event, `CloseQueue`, `Release`); `Metrics` splits an update of a gauge
in its load and its store; `Process` splits main's wait into lock, test and block.

Main correspondences in `Scheduler`: `SubmitCheckRunning`, `AdmitQueueLength`,
`AdmitMemory`, `Register`, `Enqueue` are `submit`; `ProcessQueuePop`,
`QueueTimeout`, `BeginPrefill`, `AllocateKV`/`AllocateFails`,
`PrefillDone`/`PrefillFails`, `ProcessQueueDone` are `process_queue` and
`run_prefill`; `Visit`, `StepCancelled`, `StepFails`, `StepToken`, `EmitToken`,
`RoundDone` are a round.

`Scheduler` is about both allocators. They differ in what `free` makes of a
handle on several devices: the contiguous one clears it, the pooled one, which is
main's default, frees the first device's cache and leaves `device_caches` and
`is_tensor_parallel`, so that `is_valid()` stays true (`kv_allocator.cpp` 526-528,
`kv_allocator.hpp` 32-36). The constant `Spread` is the set of requests whose
handle behaves so: with the pooled allocator those routed to several devices, with
the contiguous one none. Such a handle goes from `"held"` to `"freed"` and, at a
second `free_resources`, to `"freedTwice"`, which is where the router's budget is
released again; any other goes back to `"none"`, and the second call does nothing.
`MemoryPlane`, where the budgets are computed, has the contiguous allocator only.

Abstractions: in `Scheduler` and `ChatCompletions` a token or a chunk is its kind
and a sampled token meets a stop condition or does not, while `Generation` has the
tokens, their texts and the stop sequences of one request that nothing disturbs. A
text is a sequence of characters from a small alphabet, in which a marker is a
sequence of two. Weights of the sampler are integers and `top_p` is in tenths;
the draw is any token of the nucleus. A deadline passes at some moment after it is
set, so every order of timeouts and other steps is covered and durations are not.
Memory tests and backend calls have every outcome their interface allows in
`Scheduler`, while `MemoryPlane` computes them. A K and a V block are one cache;
ids are distinct.

## 3. Runs

Passing runs:

| run | instance | shows |
|---|---|---|
| `MCScheduler` | 2 requests, one of them in `Spread`, 1 active slot, queue of 1, token queue of 1, 1 token, the request deadline, fair threads | the scheduler's safety (`HeldOnce`, `StateMatchesPlace`, `KVOwnership`, `KVWithinAllocation`, `ActiveBound`, `RegistryExact`, `StreamWellFormed`, `CountersExact`), that it implements `RequestLifecycle` (`ServesInOrder`), and liveness (`AcceptedEnds`, `StopReturns`, `FinishedReleases`) |
| `MCChatCompletions` | a streamed and a plain request, 2 slots, 2 tokens, token queue of 1, handler timeouts, fair threads | `StreamAccounts`, `ResponseFaithful`, `NoOrphan`; `Safety`: handler and scheduler together implement `Scheduler`; `HandlerEnds` |
| `MCKVAllocators` | both allocators, 4 handles, 2 devices, 2 slots, with and without overflow, CUDA errors at either device | `Conservation`, `NoCacheLeak`, `NoOvercommit`, `SlotsConsistent`, `SlotsExclusive` |
| `MCMemoryPlane` | the contiguous allocator, 4 requests of three lengths, 2 devices of one size | `BudgetExact`, `UsedWithinTotal`; `EndedSettled`: an ended request has no cache, and `used_bytes` is what the caches hold and what failed tensor-parallel allocations left |
| `MCMetrics` | 3 submitting threads, the decode thread, an export | `ScrapeConsistent`: an export counts no request and no observation it should not, and its parts differ only by what happened meanwhile; `QueueDepthDrift`: the gauge is off by no more than the updates that overlapped |
| `MCGeneration` | bodies with valid and invalid fields, contents with half and whole markers of every kind, a context of 16, 5 tokens, 3 weightings | `PromptFaithful` (the conversation can be read back from the tokens), `ContextFits`, `DrawnFromNucleus`, `StopExact`, each against a definition that does not follow the code |
| `SSEStreamer` | 4 calls, queue of 2, fair threads | `InOrder`, `TerminalLast`, `CancelEnds`, `CompletedEnds`, `DisconnectCancels` |
| `Process` | 2 shutdown requests, 2 handlers, fair threads | `PartsOutliveUsers`, `ExitFaithful`, `ShutdownCompletes` |

Runs that end in a violation, each a place where the code does something else
than a document or a test says (`findings` quotes the lines):

| run | what TLC shows |
|---|---|
| `MCActiveGaugeExact` | `fail_request` decrements the gauge for requests that were not counted, or twice |
| `MCStreamEnds` | a handler leaves on the terminal state before the terminal event is pushed: no `[DONE]` |
| `MCFreedEverywhere` | the pooled `free` of a tensor-parallel handle frees its cache on one device only |
| `MCStreamingEquivalence` | a stop sequence trimmed from the response has already been streamed |

The models show further deviations that have no run of their own:

- `AdmitQueueLength` and `Enqueue` are two critical sections, so two submits that
  both saw the last free place overfill the queue (`scheduler.cpp` 147, 97).
- A cancelled decoding request ends as Completed or Errored (`Visit`,
  `StepCancelled`, `StepFails`); no action stores `Cancelled`, and
  `cancelled_count_` stays 0, whatever `request.hpp:109` says of the state.
- `StopJoined` sets the tokens when no thread is left to act on them: a scheduler
  stopped with active requests keeps their caches. In the program the server is
  stopped first, and `HandlerEnds` shows that nothing is active then.
- A tensor-parallel allocation that fails at a later device (`AllocateTP` of
  `KVContiguous`) leaves the earlier ones charged for good, which is why
  `NoOvercommit` says "at most" and not "equal". `EndedSettled` says that in the
  server nothing else is left.
- A freed tensor-parallel handle of `KVPooled` keeps its `device_caches` and is
  still valid. When a prefill fails, or is refused because the request was
  cancelled, `free_resources` runs twice (`scheduler.cpp` 228 and 569) and the
  second call releases the router's budget again: `"freedTwice"` in `Scheduler`.
  `KVOwnership` says that this is the only way there, and `FinishedReleases` that
  the handle then stays valid; `BudgetExact` of `MemoryPlane` does not hold with
  this allocator.
- `AdmitRouter` and `AdmitAllocator` take no memory: of two requests admitted
  against the same memory the second is refused at its prefill. A request routed
  to another device than the first is still allocated on the first.
- After a failed `listen` nobody joins `server_thread_`, and its destructor calls
  `std::terminate`: `ExitFaithful` names this exit.
- `ShutdownCompletes` excepts two hangs: `SelfDeadlock`, a POSIX signal that
  interrupts main between its lock and its wait and locks the same mutex, and
  `StopMissed`, a `stop` that comes before httplib listens.
- The text of `<|im_end|>` stays in `output_text` (`StopExact` says so).

## 4. Bounds

Symmetry is used for requests, handles and submitters, in safety runs only. Two
requests on one slot make every conflict of two actors (both in `submit`, one
queued and one active, one in hand and one queued); one of them is in `Spread`,
so that either kind of handle goes through every path; the two slots of
`MCChatCompletions` add rounds with two requests and a stale snapshot.
`MaxQueueSize = 1` is the smallest queue that is both full and empty.
`MaxSize = 1` lets a token queue drop tokens and terminal events. Where the number
of tokens matters (`MCChatCompletions`) `MaxTokens = 2`: the first token is not
the last, and a token can be dropped. `"request"` is the timeout that the code
tests both in the queue and while decoding. `MCStreamEnds` has room for every
event, so that its counterexample is not a drop. In the memory plane the budget
of 6 holds one long or some short requests, so admission passes and allocation
fails, and `TPThreshold = 2` puts the two lengths on different strategies;
`Word = 32` is above any sum a correct account reaches, so that a wrap is seen.
Four handles on two slots exhaust the pool, and 8 units of memory refuse the last
of four contiguous ones. Prompts of 8 to 20 tokens in a context of 16 leave room
for all that is asked, for less, or for none; stop sequences of up to two
characters and tokens with texts of up to two let a sequence span tokens and a
token run past a sequence; the limits on candidates are below the size of the
vocabulary, so that the nucleus is cut. A second shutdown request arrives during
the first. Three submitters make two overlap while a third is popped.

`MaxCalls`, `MaxHandlers` and the numbers of submitters and signals are the
counters cut off artificially: after them the producer or the environment is
silent. `MaxCalls = 4` allows pushes after the terminal event and past the bound
of the queue. `CHECK_DEADLOCK FALSE` is used where the system may really stop: all
handlers done and main down, all requests ended, a streamer that has exited, a
process that has ended, a generation that is done. `MCScheduler` can always
`start` again, and the allocators can always be called.

## 5. Fairness

`Spec`: weak fairness of the decode thread, of the join in `stop` and of each
HTTP thread inside `submit`. All are code that runs on a thread of its own and
waits only on mutexes released after finitely many steps or on waits with a
timeout; the operating system runs such threads. Nothing obliges a client to
read or to cancel, a deadline to pass or main to stop. `HSpec` adds weak fairness
of each handler, whose loop waits in `pop` for at most 100 ms; `SSpec` that of the
streaming thread, of a push past its test and of a canceller between its flag and
its callbacks. `PSpec`: weak fairness of main, of the server thread and of a
handler's end (which `HandlerEnds` shows), and strong fairness of the lock of a
shutdown request: main, woken spuriously again and again, takes the mutex and
releases it again and again, and a mutex that is free infinitely often is granted.
No failure, signal or client is owed anywhere.

In `MCChatCompletions` the handlers may time out but need not: they end because
the scheduler outlives them and finishes what they submitted.

## 6. What is proved

For all sets of requests, handles, devices and threads, all request bodies and
all values of the constants that the named assumptions allow:

| theorem | states |
|---|---|
| `SchedulerProofs!TypeCorrect` | `Spec => []TypeOK`, the bound on outputs and cache lengths included |
| `NothingLost` | `Spec => []HeldOnce` |
| `StatesAgree` | `Spec => []StateMatchesPlace` |
| `KVSafe` | `Spec => []KVOwnership`, for both allocators (any `Spread`) |
| `KVFits` | `Spec => []KVWithinAllocation` |
| `RegistryTracks` | `Spec => []RegistryExact` |
| `SlotsBounded` | `Spec => []ActiveBound` |
| `ResultsFinal` | `Spec => ResultFinal`, an action property |
| `ImplementsLifecycle` | `Spec => ServesInOrder`: the scheduler implements `RequestLifecycle` |
| `StreamsWellFormed` | `Spec => []StreamWellFormed` |
| `FinishedCounted` | `Spec => []CountersExact` |
| `ChatCompletionsProofs!ImplementsScheduler` | `HSpec => Safety`: the handlers are an environment of the scheduler |
| `NoneAbandoned` | `HSpec => []NoOrphan` |
| `ResponsesFaithful` | `HSpec => []ResponseFaithful` |
| `TokensAccounted` | `HSpec => []StreamAccounts` |
| `KVContiguousProofs!BudgetConserved` | `CSpec => []Conservation` |
| `CachesOwned` | `CSpec => []NoCacheLeak` |
| `NeverOvercommitted` | `CSpec => []NoOvercommit` |
| `KVPooledProofs!SlotsStayConsistent` | `PSpec => []SlotsConsistent` |
| `SlotsStayExclusive` | `PSpec => []SlotsExclusive` |
| `MemoryPlaneProofs!EndedRequestsSettle` | `MSpec => []EndedSettled` |
| `AccountIsExact` | `HeadsSplitEvenly => (MSpec => []BudgetExact)` |
| `AccountsAgree` | `HeadsSplitEvenly => (MSpec => []UsedWithinTotal)` |
| `ImplementsAllocator` | `MSpec => KV!CSpec`: to the allocator, the plane is one of its environments |
| `ServerProofs!PartsOutlive` | `PSpec => []PartsOutliveUsers` |
| `ExitsFaithfully` | `PSpec => []ExitFaithful` |
| `DeliveredInOrder` | `SSpec => []InOrder` |
| `NothingAfterEnd` | `SSpec => []TerminalLast` |
| `DriftBounded` | `MSpec => []QueueDepthDrift` (of `Metrics`) |
| `ExportsConsistent` | `MSpec => []ScrapeConsistent` (of `Metrics`) |
| `GenerationProofs!OutputFits` | `GSpec => []ContextFits` |
| `DrawsFromNucleus` | `GSpec => []DrawnFromNucleus` |
| `StopsExactly` | `GSpec => []StopExact` |
| `EncodingLossless` | `\A s \in Text : Spelling(Tokenize(s)) = s` |
| `PromptsFaithful` | `GSpec => []PromptFaithful` |

Assumptions, each evaluated by TLC in the runs: `MaxSizeAssumption` (`TokenQueue`)
and `SchedulerAssumption` (the bounds are positive, as `validate_config` and the
validator ensure; `Spread` is a set of requests; `NoRequest` is none), `HandlerAssumption` (the streamed
requests are requests), `ProcessAssumption` (finitely many signals, none of them
main), `StreamerAssumption`, `AllocatorAssumption` (a device is listed once),
`ContiguousAssumption`, `PooledAssumption`, `PlaneAssumption` (sizes and lengths
are numbers), `MetricsAssumption` (finitely many submitting threads; the bounds of
a histogram ascend, as those of `metrics.hpp` do), `ValidatorAssumption` and
`SamplerAssumption` (limits are numbers, the number of candidates is not 0),
`GenerationAssumption` (texts are over an alphabet that has the characters of the
markers and of the template; bodies, configurations and logits have the types the
code gives them).

**Scheduler.** The inductive invariant is `IInv`, the conjunction of `TypeOK`,
`StateMatchesPlace`, `HeldOnce`, `KVOwnership`, `KVWithinAllocation` and
`RegistryExact`. None is inductive alone: that a cache is not freed under an
active request needs to know that the decode thread's request is where its
control says (`StateMatchesPlace`); that a request in hand is not also queued
needs `HeldOnce`; the bound in `TypeOK` needs that an active request about to take
a step is below its limit (`KVWithinAllocation`). For a handle that outlives its
cache, the invariant knows that its request is settling or terminal, so no path
allocates into it or calls the backend with it, and that one freed before the end
of its request has the error of a failed prefill. There is one lemma per conjunct
with one step per action. `ActiveBound` needs, beside `IInv`, that the occupied
slots are finitely many and that only `ProcessQueuePop`, guarded by `SlotFree`,
takes a further one (`BoundInv`). `ResultsFinal` is a property of single steps
from `IInv`: no action writes to a request that is terminal.

**Results.** `ResultInv` ties error and finish reason to the state of a request
and of its ending, `StreamInv` its queue to how far that ending has come, and
`CountInv` the counters to the requests that have passed `Release`. Every step is
`Silent` or `Speaking` (it pushes, pops or closes), which keeps the case split of
the stream to the few steps that can disturb it.

**Lifecycle.** The mapping takes the phase of a request from the container that
holds it. A step of the scheduler is a refusal (`RefuseStep`), an acceptance
(`AcceptStep`), a start (`StartStep`, which needs `BoundInv` for the bound of the
abstract specification), an end (`EndStep`) or changes none of the abstract
variables.

**Handlers.** `HPlace` says where the request of a handler can be for each
position of the handler, which makes each handler step one of the scheduler's
environment (`HandlerIsClient`). With it the scheduler's invariants hold of the
composed server (`JInv`), and the handler's own properties follow because states
only move forward and results of terminal requests stay (`Monotone`,
`KeepsResults`). `StreamAccounts` needs the books while the stream goes on
(`AccountInv`): until its terminal event, the tokens handled, those unread in the
queue and those still owed (dropped, or sampled and not yet pushed) are the
output there is; the terminal event is read last, when nothing is unread.

**Process.** The invariant of the process says, for each position of main, which
parts exist, whether the server thread can still be joined, and what the exit
status is; `ThreadsInv` ties `running_` to the server thread, the point on which
`stop` relies.

**Streamer.** `RunInv` names the event the streaming thread holds: pushed is what
was written, that event, and what is queued.

**Sums.** A sum of numbers over a set is the cardinality of the set of their units
(`Sums`), so that what a step does to a sum is what it does to a set, and the
theorems about cardinality apply; an induction over finite sets, which the provers
cannot instantiate, is not needed. For functions defined by recursion over
positions (`FlattenSeq`, `Tokenize`) `LeastOf` takes its place: of the positions
where a claim fails take the least, and the equation of the function there refutes
it.

**Allocators.** The pooled invariant says what each handle's pointer is to
(`PointersInv`), that the map of slots is injective (`OwnersInv`), that the stack
holds every free slot once (`StackInv`) and that blocks belong to valid handles
(`BlocksInv`). The contiguous `CInv` is its properties with the types and
`HeldInv`, that what the handles hold on a device is finite and charged there; one
lemma each for a grant, for a failure halfway and for a free. Two more say by how
much `used_bytes` exceeds what is held: only a failure halfway adds to it
(`AllocateDrift`, `FreeDrift`).

**Memory plane.** Steps of the plane are steps of the contiguous allocator
(`AllocatorStep`), so `CInv` carries over; with `PlaneInv`, which says that a cache is
asked for only into a handle that is free and freed only out of one that is valid,
the plane implements the allocator's specification (`ImplementsAllocator`) and the
theorems of `KVContiguousProofs` hold of the allocator in the server. `PlaneInv` adds what the request in hand
has been given so far (`CurInv`) and, for each request, how its cache, its devices
and its bytes go together (`RequestInv`): a request is released twice only when it
holds nothing any more. `BudgetExact` is inductive with it, once the sums are known
to be below `Word` (`ChargedBound`): they are at most what the allocator has charged.
That comparison is where `HeadsSplitEvenly` is needed. The router divides the bytes
of a tensor-parallel request by the devices, the allocator the KV heads; nothing in
the code validates that the second division leaves no remainder, and with three
devices and two heads the allocator charges nothing and `UsedWithinTotal` fails.

`EndedSettled` needs no such hypothesis. A charge that a failed allocation left
is in no handle, so `LostInv` follows it by the history variable `lost` and says
where its request can be: in hand with no cache, or ended. Hence it never comes to
another allocation, each loss is noted once, and `used_bytes` is what is held and
what is lost, which the two lemmas about the excess carry through every step.

**Metrics.** A gauge is right up to the updates that overlapped (`DepthInv`): so is
what each thread has loaded and will store, which is what makes it inductive, since
a store brings back an old value. For the export `MetricsInv` says that the
histogram is exact at every moment (`HistInv`: each bucket counts the observations
up to its bound) and that each part read lies between the value when the export
began and the value now (`ExportInv`).

**Data of a request.** `GInv` says what each stage knows: the request is valid
and has its defaults (`InputInv`), prompt and limit fit the context (`RoomInv`), and
while a generation goes on, text and stream are what its tokens spell and no token
so far could have ended it (`OutputInv`). The nucleus of the candidates is compared
with that of the whole vocabulary by their sums: a prefix of the sorted candidates
that is still below `top_p` of the weight of the candidates is below `top_p` of all
the weight.

**Prompts.** An encoding is a function from the positions of a text to the tokens of
what follows them (`Encoding`), each value given by those at later positions. Going
back from the end, its tokens spell the text, and it has one special token for each
place where a marker stands (`MarkersCounted`): markers cannot overlap, since a `<`
only begins one, and half a marker before a whole one does not hide it. A message
without markers of its own becomes its turn (`TurnEncodes`); with the texts and the
turns of the messages as two stacks that grow together, the whole conversation becomes
its turns (`ConversationEncodes`), where the k-th message lies between the k-th
`im_start` and the k-th `im_end` (`ConversationReadBack`). `PromptInv` carries this
from the step that builds the prompt. The hypothesis is that no content spells a
marker, `<|endoftext|>` included: such a marker is a token in the middle of the content,
so that what is read back is no longer the content's characters.

## 7. What is only model-checked

Liveness (`AcceptedEnds`, `StopReturns`, `FinishedReleases`, `HandlerEnds`,
`ShutdownCompletes`, `CancelEnds`, `CompletedEnds`, `DisconnectCancels`): fairness
and ENABLED are outside TLAPS's reach here. Every safety property of a passing run
is stated by a theorem of section 6. The properties of the runs that end in a
violation are refuted, and there is nothing to prove.

## 8. What is not modelled

- Configuration parsing, `--help` and `--version`; `load_config` and
  `validate_config` are a step of main that succeeds or ends it.
- JSON formatting, the logger, `Result`, CUDA discovery and the thin CUDA
  wrappers, the health, models and metrics routes, which read and format: no
  protocol of their own.
- `memory_budget.cpp`, `bpe.cpp`, the batch coordinator, the TensorRT backend,
  `CancellationGuard`, `reset` of allocators, token and metrics, `Server::wait`
  and the deprecated callbacks of `Request`: nothing in the program uses them.
- Softmax, temperature and the random draw: any token of the nucleus. `top_k` and
  the repetition penalty are never switched on by the scheduler. With a seed the
  generator is seeded anew for each token, which does not change what can be drawn.
- The vocabulary and its file: the built-in one does not map every text back to
  itself, which the alphabet of `PromptBuilder` does not show.
- Real time: only the order of timeouts and other steps is covered. On Windows
  the process may be ended soon after a console handler returns for
  `CTRL_CLOSE_EVENT`.
- Router and pooled allocator together: `MemoryPlane` has the contiguous one. It
  also gives every device the same total, as a configured `max_total_memory` does;
  with 0 the code asks each device, and totals may differ.
- `SSEStreamer` is modelled as its header documents it, but no handler of the
  program uses the class.
- Lifetime of objects below `Process`; ids of requests are taken as distinct.

## 9. Plan

Done: the scheduler with its queue and its abstract lifecycle; the handler; the
data of a request; the allocators; router and memory plane; metrics; the streamer;
the process; and proofs of all their safety properties. What is left:

1. The memory plane with the pooled allocator, and with devices of different
   totals: how far the second `free_resources` that `Scheduler` shows takes the
   unsigned budgets.
2. A registry whose ids may collide.
