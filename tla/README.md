# Verification of vla.cpp

TLA+ specifications of vla.cpp: the parts whose correctness depends on order,
concurrency, failure or reuse as state machines, and the graph builders of every
architecture as operators that say which function a graph computes; the TLC runs
that check them on small instances, and TLAPS proofs of the main properties for
every instance. Everything is translated from the source; paths below are
relative to the repository root.

1. [The system](#the-system)
2. [Modules](#modules)
3. [Runs and what they show](#runs-and-what-they-show)
4. [Fairness](#fairness)
5. [Proofs](#proofs)
6. [Disagreements found](#disagreements-found)
7. [Not modelled](#not-modelled)
8. [What could come next](#what-could-come-next)

To check: `tlc -config <Run>.cfg <module>` for a run of the table below and
`tlapm <Module>Proofs.tla` for a module's proofs.

## The system

vla.cpp runs vision-language-action policies on ggml. A process loads a GGUF
model, builds a compute graph per input shape and answers *observation ->
action chunk* requests, through a C API, a Python binding, or a ZeroMQ server.

```
 simulator drivers ── VlaCppClient (REQ) ──tcp── vla-server (REP) ─┐
 Python programs ── vla_cpp.Model ── ctypes ───────────────────────┼─ C API ── arch pipeline ── ggml backend
 vla-bench, vla-cli ───────────────────────────────────────────────┘  handle    graph_cache     (or fallback split)
 chat client (DEALER) ──tcp── vlm-server (ROUTER) ── Engine::chat ── llama.cpp
 ci/run_remote.sh ── vla-ci-ctl (REQ) ──tcp── vla-ci-agent (REP) ── spawned servers
```

### Components, their state and operations

| Component | State it keeps | Operations | What is hard |
|---|---|---|---|
| CPU-fallback backend, `src/backend_fallback.cpp` | where each node runs, host storage pool, weight mirrors kept across calls | `graph_compute`: classify, split into runs, enqueue on the accelerator or build host objects, compute, write back | the accelerator's queue is asynchronous; the allocator reuses memory, so views and mirrors may go stale; a run may fail; on Hexagon a copy reads back wrong on the host |
| C API and dispatch, `src/vla_c_api.cpp`, `src/model.cpp` | handle: model, flags, mutex | load, predict, encode_images, last_stats, free | several threads and handles; free against calls in progress; every failure path must release the mutex |
| Options, `src/options.cpp` | thread-local flash-attention and precision flags, a process-wide *fa takes views* flag | set at load, read back, re-applied per call | flags of one handle leaking into another's graphs |
| Graph reuse, `src/scratch_ctx.h` | graph_cache: key, graph, input tensors | ensure | a key that misses a baked-in dimension; an input not refilled on a hit; a build that fails halfway |
| pi05 under concurrent calls, `src/models/pi05.cpp` | two graph caches, phase timings | predict, encode_images | as above, with precomputed embeddings and token padding |
| In-place K/V, `src/modules/gemma_expert.h`, `src/models/smolvla.cpp`, `src/modules/fused_lm.h` | one pair of K/V buffers per layer, or one for all | prefix write, step write, attention, cross-attention projection | a kernel's operands do not show that a buffer was written; the order is in added edges |
| Python binding, `bindings/python/vla_cpp` | handle, lock | Model(), predict, encode_images, last_stats, close | ctypes releases the GIL; close races a call |
| vla-server, `src/serving/server.cpp` | REP socket state, shutdown flag | poll, receive, drain, check, predict, reply | malformed and multipart requests, peers that left, a send that fails, signals, restarts |
| Evaluation client, `eval/client/vla_cpp_client.py` | REQ socket, step and episode numbers, action queue | get_action, reset | timeouts with late replies; request ids that start over per episode |
| vlm-server, `src/serving/vlm-server.cpp` | ROUTER socket, shutdown flag | receive, check, stream deltas, final | a multipart left open, full pipes, a failed send in the middle of a stream |
| Chat engine, `src/vlm/engine.cpp` | generated text, bytes held back | chat: prefill, decode loop | tokens cut UTF-8 characters anywhere; text and stream can differ |
| Chat client, `examples/chat/vlm_chat_client.py` | transcript, DEALER socket | a turn, `/clear` | never looks at request ids; unreadable messages; timeout |
| Architecture pipelines, `src/models/*.cpp` (14 of them) | graph caches, what their constants were set for, host tables (time embeddings, encoded instructions, prompt rows) | predict: per phase, check, ensure a graph, fill inputs, compute, copy out | keys that leave out what a graph depends on; inputs whose memory the allocator reuses; tables kept for another request; a call that ends in the middle |
| Layers, `src/layers` | none | graph builders with assertions; a plain chain of ggml operators, fused CUDA nodes, fused SYCL nodes | every variant has to be the same function; shapes and strides a node accepts |
| Towers, language models and heads, `src/modules` | weights | declare, load checks, blocks, prompt assembly, positions, merge order | as above, and index arithmetic |
| FoldQuant, `src/foldquant.cpp`, `fq_linear.h`, `fq_rope_attn.h` | sites and their codes | which weights are sites, nodes per backend | a folded weight has to undo what is done to its activation |
| BitVLA kernels, `src/kernels/bitvla` | device weights, buffers kept per width | vision layers, language-model layers, head | two GEMM paths and a CPU graph for one function |
| CI agent, `ci/agent` | spawned processes by name | run, spawn, stop, put, get | single thread; timeouts of the control client; process groups that outlive their leader |
| Python inference server, `eval/utils/service.py` | REP socket | run | a second send after a failed one |
| Weight loader, hf_fetch, backend selection, command-line tools, numeric kernels, OpenVINO, conversion and CI scripts | – | – | sequential or numeric, see [Not modelled](#not-modelled) |

### How they interact

* **Calls.** Binding, servers and tools call the C API; the C API calls the
  arch; the arch fills graph inputs and calls a ggml backend, which may be the
  fallback wrapper. A call holds its handle's mutex from the flags to the end.
* **Messages.** Clients and servers talk over ZeroMQ. REQ/REP pairs one request
  with one reply; ROUTER/DEALER streams many. Requests and replies may be lost
  when a peer goes, dropped when a pipe is full, and arrive after a timeout.
* **Shared state.** Thread-local flags (by thread), handles (by mutex), graphs
  and their inputs (by handle), device memory (by the graph's edges and the
  accelerator's queue), the process-wide *takes views* flag (by nothing).
* **Callbacks.** `Engine::chat` streams through a callback that sends on the
  socket of the request being served.

### What makes each part correct

* Fallback: the split graph computes what the graph means on one memory.
* Engine: an answer is to the caller's own request, under the flags the handle
  was loaded with; timings are of one call; the mutex is given back.
* Architectures: a reused graph is the graph the request would build, and every
  element of its inputs is this request's; what loads builds; options, fused
  nodes and backends choose how a function is computed and never which.
* K/V buffers: a reader sees its own layer's prefix and its own step's rows.
* Binding: no call ever reaches a freed handle.
* Serving: an action is a row of the chunk for the observation of the call it
  is returned by; the server stops for signals only, and keeps serving.
* Chat: messages are UTF-8, the stream is the text, a turn reads its own
  replies only, the transcript is what was said.

The hazards behind these are listed one by one, at their lines, in
`PROJECT.json`.

## Modules

| Module | Models | Built on |
|---|---|---|
| `Graph` | ggml graphs: nodes, sources, views, cells of memory; when a graph is well formed and its memory plan valid | – |
| `GraphExec` | abstract: a graph's nodes computed one after the other on one memory | `Graph` |
| `FallbackSplit` | the fallback backend in detail; implements `GraphExec` | `Graph`, `GraphExec` |
| `Engine` | C API, flags, graph caches, pi05's predict and encode_images | – |
| `Tensor` | ggml tensors (type, extents, layout, the term they hold) and constructors with their assertions | – |
| `FusedOps`, `FusedEw` | the fused CUDA nodes; the fused SYCL nodes, INT8 linears, attention over a cached prefix | `Tensor`; `Layers` |
| `Layers` | linear, norm, attention, RoPE, conv, FFN and the other shared layers, activation types | `FusedOps` |
| `FoldQuant` | quantised sites: which there are, their nodes, what the folded product is | `FusedEw` |
| `Vision`, `QwenVit` | SigLIP, encoder stacks and the dual tower; the Qwen3-VL tower with merge order and position interpolation | `FusedEw`; `Vision` |
| `Gemma`, `Dit`, `Lm` | Gemma prefix and expert layers; diffusion transformer and action expert; Qwen3 layers, fused layers, prompts | `Vision`, `FoldQuant` |
| `Arch` | what a step of a predict is: cache, key, inputs, fills, host tables, checks | `Lm`, `QwenVit` |
| `Gr00t` | GR00T N1.5, N1.6, N1.7, VLA-JEPA | `Arch` |
| `Pi`, `Smol`, `Evo1` | pi0 and pi0.5; SmolVLA; Evo-1 | `Arch`, `Gemma` |
| `DualVla`, `Act`, `Turbo`, `Octo`, `Bitvla` | OpenVLA-OFT and VLA-Adapter; ACT; TurboVLA; Octo; BitVLA | `Arch` |
| `ArchCalls` | predict of every architecture, call after call, with every failure | `Arch` |
| `PyModel` | the Python binding as the engine's caller | `Engine` |
| `KvCache` | in-place K/V buffers under any execution order | – |
| `PolicyClient` | abstract: what the driver of a robot may rely on | – |
| `VlaServer` | vla-server's loop over a REP socket, with crash and restart | – |
| `VlaServing` | server, network and Python clients; implements `PolicyClient` | `VlaServer`, `PolicyClient` |
| `Utf8` | the cut at whole characters | – |
| `VlmServer` | vlm-server, chat engine and chat clients | `Utf8` |
| `FallbackSplitProofs`, `EngineProofs`, `PyModelProofs`, `KvCacheProofs`, `VlaServingProofs`, `ArchCallsProofs` | proofs | their module, TLAPS |
| `Utf8Proofs`, `VlmServerProofs` | proofs, those of the chat on those of the cut | `Utf8`; `VlmServer`, `Utf8Proofs` |
| `MC...` | small instances (`VlaServing` needs none: its `.cfg` names the clients) | their module |

### How state and actions correspond to the code

**FallbackSplit.** `where` is `fc->where`; a run is `lo .. hi - 1`; `queue` is
what was enqueued on the accelerator and has not executed, and `AccelStep` is
the accelerator executing one node at its own pace. `Classify`, with its two
passes (`PullCopies` walks back from CPU nodes to copies on Hexagon,
`FillViews` gives views the side of a neighbour), then per run `RunOnAccel` or
`RunOnCpu`, `BuildNode` (host objects, `host_input`), `ComputeNode`,
`WriteBack`, and `FailRun`. Tensors are cells of memory and may share one when
the allocator's plan allows it. Values are symbolic: a node's value is the
operation applied to what it read. `logical` is auxiliary: memory as the nodes
computed so far define it. What the CPU or the accelerator computes is
external.

**Engine.** One thread's call moves through program counters: a load through
`create` and `handle`, a call through `lock`, `flags`, `main`, `vision`,
`infer` and `unlock`; between any two of them other threads run. `tls` is the
pair of thread-local flags, `faViews` the process-wide one, `has` what the
handle re-applies, `wants` (auxiliary) what its load decided. A graph is the
record of the key, the flags and the view decision it was built with; an input
is what a call put there. The images and tokens of a request are one value, so
that an answer that mixes two requests shows. `id` numbers calls, so that
timings can be traced.

**PyModel.** Every action of the engine guarded by the Model's lock `mu` and by
`open` (`_h is not None`) as the binding guards it. `close` is `Free` without
the engine's *nobody is in a call* guard: that the binding keeps this contract is
what is checked.

**The graphs.** A tensor is its element type, extents, memory layout and `val`,
a term over the reals: permutations, casts and quantisation leave it alone, sums
and products are sets, attention is one term whichever operator computes it. A
constructor whose `GGML_ASSERT` fails gives `Bad`, and so does everything built
on it. A builder is an operator with the same branches as the code, over the
options `o` (environment switches, build, backend) and dimensions; a stack of
equal layers is one of them. Two builds of a part are the same function exactly
when their terms are equal.

**Architectures.** `XxxSteps(c, r)` lists what predict does with model `c` and
request `r` on an engine that has served nothing: a step has a cache and its
key, the inputs of its graph, what each `tensor_set` writes (first element,
count, value), which inputs are constants set once per graph and what those
depend on (`tag`), host tables it refills or drops, its checks before and after
the graph is looked up, what is copied into a later graph, which caches it
replaces (`ousts`) and what it remembers for the next call (`memo`, `learns`).
`parts` are the pieces whose functions are compared with the plain build's.

**ArchCalls.** Runs those lists on an engine that has served other requests.
`graphs` is every `graph_cache` with its key, `mem` what each input holds,
element ranges and all, `hosts` the host tables, `fresh` whether this call made
a graph the model keeps note of. `Ensure` is `graph_cache::ensure` on a hit and
a miss, `SetInputs` the tensor_sets, `Compute` the backend: ggml's allocator may
give an input's memory to a later node, so afterwards an input holds nothing,
unless it is an output as well (`Spent`). `With` and `Without` are what a map
of caches gains and loses. `Skip`, `Refuse`, `FetchFails`,
`EnsureFails`, `RefuseViews` (some inputs are written already) and
`ComputeFails` are the ways out. Graphs are compared through `SameGraph`, the
first step of a model that builds the same one. `CallsAssumption` says what every
list has, a last step that computes a graph, and `KeysDecide` that no key leaves
out a thing its graph depends on. A tensor_set over a part of what an earlier
one wrote leaves that one incomplete, so `Over` drops every write a new one
overlaps. `ListsAgree`, in eight parts, says what the lists of one model owe each
other, step against step, for no call to find what another left; no call appears
in it. `Agreeing` are the models whose file agrees with itself in what the load
does not compare; only of those does `AgreeingBuild` ask that their graphs build.

Simplifications inside these modules: TurboVLA's patches and state are set before
its text graph runs and are modelled after it; Octo's assembled input is one
write per run of tokens; SmolVLA's phase graphs are two caches; BitVLA's image
rows are written straight into the language model's input, its CUDA buffers are
modelled at the width in use, and its weights are taken to be ternary times a
scale. Its language model and its tower get their CUDA contexts independently,
and a tower left to the CPU beside a language model on the device is one of the
models.

**KvCache.** A node is what it does (write K, V or both; attend; project for
cross-attention), its step and its layer. `Sources` are a node's operands and
the edges `add_dep` adds. A backend may begin any node whose sources are done,
several at a time; from begin to end the rows it writes hold nothing. Rows are
identified by the layer and step that wrote them; a new call on the same graph
finds whatever was left. With pi05's quantised prefix (`pack`) the prefix pass
makes the buffers, so its own writes are operands of what writes into them later.

**VlaServer, VlaServing.** `srv` is where the loop is, `rep` the REP socket's
state machine, `inbox` and `back` requests and replies on their way, by peer.
Faults: a signal, a crash (with `Start` after it), and a broken connection,
which loses the requests sent first (`LoseRequest`) or the replies sent last
(`LoseReply`); what a socket has not sent yet goes out once it reconnects. A
request is *good*, *refused* by one of the checks, *garbled* (not a
`PredictRequest`) or of several *frames*. A client's REQ socket
numbers its requests (`corr`, REQ_CORRELATE) and may send again without an
answer (REQ_RELAXED). `acted` is auxiliary: the row last returned.

**VlmServer.** `gen` is `Engine::chat`'s loop: everything generated, the text
without special tokens, and the bytes held back. A byte is its class (ASCII,
lead byte of 2, 3 or 4, continuation). `open` is a multipart that was left
unfinished. `said` and `torn` are auxiliary: what each final said, and whose
stream lost something. A client's `history` is its transcript.

## Runs and what they show

| Run | Instance | Checks |
|---|---|---|
| `Fallback` | six shapes of 4-node graphs and two of 3 nodes, every choice of refused nodes, every memory plan over 3 slots, an HTP session with and without host-visible buffers and another accelerator, a second call with changed inputs for the small graphs, failure anywhere | `TypeOK`, `Coherent`, `HostReadsNoNpuCopy`, `MirrorsAreFresh`, `ImplementsGraphExec`, `CallsReturn` |
| `ArchCalls` | 69 models: 14 architectures with their options and backends, the files' own dimensions, one layer per tower, small images; per model a base request and those that differ from it | `TypeOK`, `CachedIsFresh`, `InputsAreThisCalls`, `AgreeingBuild`, `OptionsKeepTheFunction` |
| `EngineCalls` | 2 threads, 2 handles, 2 backends, 4 options, 6 requests, 3 calls | `TypeOK`, `AnswersItsRequest`, `StatsOfOneCall`, `MutexIsReleased` |
| `EngineViews` | two loads on different backends | `ViewsOnlyWhereTaken` is **violated** |
| `EngineStats` | predict and encode on one handle | `StatsOfPredict` is **violated** |
| `PyClosing` | 3 threads on one Model, 4 calls | `NoCallOnFreed`, `KeepsTheContract`, `ModelLockIsReleased` |
| `KvInPlace` | 3 layers, up to 3 steps, six kinds of graph, call after call | `TypeOK`, `ReadsOwnRows`, and no deadlock |
| `ServingLateReplies` | a client, 3 observations, a reset, a crash and restart, lost replies, timeouts | `TypeOK`, `ImplementsPolicy` |
| `ServingAnyRequest` | a client and another program that sends anything, a signal, a restart | `StopsOnlyWhenSignalled`, `KeepsServing`, `SignalEndsIt`, `CallsAreAnswered` |
| `ChatText` | a client, 2 turns of up to 3 tokens that split characters, a full pipe, a failed send | `TypeOK`, `MessagesAreText`, `StreamedIsText`, `TranscriptIsSaid` |
| `ChatCalm` | 2 clients, 2 turns each, refusals, a signal | `OwnReplies`, `TurnsAreAnswered`, `SignalEndsIt` |
| `ChatCorrupt` | a send of a delta fails | `NoReplyIsCorrupt` is **violated** |

What each shows, and why the instance is large enough:

* **Fallback.** A wrong split needs a producer on one side, a consumer on the
  other, and something between them that overwrites or views the same memory:
  four nodes over shared slots hold all of these (the graphs of
  `MCFallbackSplit` name them). A stale mirror needs a second call with other
  inputs, hence the second call, for graphs with a weight, a view across runs
  and an in-place op (`FewGraphs`). `GraphExec` ties the outcome to node-by-node
  execution, whatever is refused and however late the queue runs.
* **Architectures.** A stale graph or input needs an earlier call that differs
  in one respect: other contents of the same shape, another number of views,
  precomputed embeddings, another pixel format or image size, a token out of the
  vocabulary, and what an architecture alone looks at (a suite, a window, a
  padded width, an instruction, a prompt of the same length laid out another way).
  The run explores every sequence of these, with
  a failure at every step, until nothing new is reached: there is no bound on
  calls. Dimensions are those of the files, since assertions depend on them; one
  layer stands for all, since all are the same operator. `MCArchCalls` also
  states, as assumptions TLC evaluates, what the index arithmetic is for: patches
  in merge order cover the grid (`MergeBlocksCoverTheGrid`), positions are
  interpolated between neighbouring rows of the table (`InterpolatedBetween`),
  rows scattered on the device are the rows the host would assemble
  (`ScatterIsFetch`), and a time falls in a bucket (`BucketsInRange`); the proofs
  have them for all sizes. It evaluates `KeysDecide` and `ListsAgree` too, so
  the theorems about cached graphs and their inputs hold of these models under
  any calls.
* **Engine.** Interference needs one other thread or one earlier call: two of
  each, and a third call to meet a cache that two calls have changed. The
  requests are the ways two calls can differ: same shape and other contents,
  same bucket and another mask, another shape, embeddings from outside, the
  tower alone. The options are all that decide the flags.
* **Binding.** A call, a second one waiting and a `close`, or two, are three
  threads; the engine's own behaviour is another run's, so one request of each
  kind suffices.
* **K/V buffers.** Interference between steps needs a step, its successor and
  one more that could overtake; between layers, a first, a middle and a last.
  The six graphs are the kinds the archs build: pi05 with and without the fused
  RoPE, and with its quantised prefix, whose pass makes the buffers that the
  steps write through views; smolvla with some or all layers cross-attending;
  and a tower with one pair for all layers. Above 192 query rows FoldQuant's
  attention is one node that writes and reads its own rows, which leaves nothing
  to order. The proof covers every other size.
* **Serving.** A late reply needs a call, its timeout and the call after it;
  with a reset between, request ids repeat; with the noise probe, one call has
  two requests. Two rows per chunk are enough to tell the order. In
  `ServingAnyRequest` the other program's requests come before, between and
  after the client's.
* **Chat.** The pieces are chosen so that characters of two bytes and more are
  cut after each byte, at a length limit and at an error; two turns are needed
  for a reply of the turn before to be read; a pipe of two drops deltas.

Bounds, all named constants: `MaxCalls` (API or compute calls), `MaxNode`
(graph size), `Often` (graphs that get a second call), `MaxRequests`, `MaxEpisodes`, `MaxStarts` (server starts),
`MaxTurns`, `MaxFailures` (failed sends), `Hwm` (messages a pipe holds),
`Budget` (tokens asked for), `Steps` (rows of a chunk).

`CHECK_DEADLOCK FALSE` appears where the system really may stop: the bounded
number of calls, turns or requests is used up, or the server has ended on a
signal. In `KvInPlace` it never may, and deadlock is checked.

Every property of a passing run has a mutant in `PROJECT.json`: a plausible
bug in one mapped definition, written next to it under *A broken variant*,
that breaks the property.

## Fairness

* `FallbackSplit`: the calling thread keeps running, and the accelerator works
  through its queue; both are what `synchronize` waits for. No fairness for
  `Call`.
* `Engine`, `PyModel`: weak fairness of each thread inside a call, for the
  scheduler runs threads that can run; none for starting calls. A mutex that is
  released over and over may starve a thread: no property says otherwise.
* `VlaServing` (`CalmSpec`): the server's loop and a client's `recv` run (weak),
  the server is started, and libzmq's fair queuing takes from every peer
  (strong, since another peer's request may be taken in between). `CalmSpec`
  leaves out crashes and lost replies, under which a call ends by its timeout.
* `VlmServer` (`FairSpec`): the server runs, a waiting client reads, and the
  ROUTER takes from every peer. A client's timeout is not fair: it may never
  come, and a turn must end without it.

## Proofs

TLAPS checks these for every value of the constants that the named
assumptions allow (`LeafAssumption`, `SplitAssumption`, `EngineAssumption`,
`KvAssumption`, `ServingAssumption`, `ChatAssumption`, `SpecialAssumption`,
`CallsAssumption`). They are types of the parameters, and three facts: in
`KvCache`, only a tower without steps shares its buffers; in `VlmServer`, a special
token is whole characters; in `ArchCalls`, predict ends in a graph that it
computes. The second is needed: with a special piece that ends in the first byte
of a character, the streamed text would lose bytes that the final has.

| Theorem | Says | Argument |
|---|---|---|
| `FallbackSplitProofs!TypeCorrect` | types | the cursors stay inside the run, and the run inside the graph |
| `FallbackSplitProofs!Coherence` | `Coherent`, any graph, any memory plan | `Pending`: during a run device memory differs from `logical` only in cells the run has computed and not written back, and the last of the run's nodes on a cell holds the cell's value. Two results in one cell go back in node order, so the last one stays; a base owns its cell until its last in-place write (`BaseOwnsCell`), so no write-back reaches an alias of device memory that still holds a later value |
| `FallbackSplitProofs!Refinement` | `ImplementsGraphExec` | `ShadowsCurrent`: a host object holds the logical value of everything a node of the run has yet to read, so a computed node is `RunNode` on `logical`; it needs `Objects` (which object a tensor has), `Mirrors`, and, for what is read back, `NpuCells` and `Pulled`. `Done` counts computed nodes on the CPU and executed nodes on the accelerator; every other step is a stutter |
| `FallbackSplitProofs!HostReads` | `HostReadsNoNpuCopy`, provided that the value an NPU copy reads back as is nobody else's (`OnlyReadBackGarbles`; the instance of `Fallback` takes a fresh model value) | `Pulled`: after the backward walk no CPU node names an NPU copy. `NpuCells`: a cell of the NPU that a later node reads holds the copy that node names. So what the host reads is `logical`, which never holds the garbled value |
| `FallbackSplitProofs!MirrorsFresh` | `MirrorsAreFresh`, any number of calls | `Mirrors`: only weights are mirrored, and nothing writes a weight's cell |
| `EngineProofs!TypeCorrect` | types | with the invariant below |
| `EngineProofs!Answers` | `AnswersItsRequest` | `Owner`: who works on a handle has its mutex, so nobody else changes its graphs, inputs or timings. `FlagsKept`: a thread's flags are its handle's while it builds graphs. `GraphsBuilt`: a kept graph was built with them. `Progress`: how far a call has got and what it left in the inputs. The property alone is not inductive: it says nothing until the call is over |
| `EngineProofs!OneCallsStats` | `StatsOfOneCall` | `Timings`: while a call holds the handle, its timings are zero or the call's own, since `Reapply` starts them over |
| `PyModelProofs!NoUseAfterClose` | `NoCallOnFreed` | `CallHoldsLock`: who is in a call has the lock of a Model that is open. `OpenIsLive`: an open Model owns a live handle. `LoadIsAlone`: a handle that is being loaded belongs to one thread and to no Model. The property alone says nothing of a thread that waits for the lock |
| `PyModelProofs!Contract` | `KeepsTheContract` | the same invariant; every step of a Python program is a step of `Engine`, in particular `close` satisfies `Free`'s *nobody is in a call*. What is proved of the engine's threads so holds of every Python program |
| `KvCacheProofs!TypeCorrect` | types, and no node runs twice | – |
| `KvCacheProofs!OwnRows` | `ReadsOwnRows`, any number of layers and steps, any order | `Closed`: what has begun has its sources done. `InOrder`: so every attention before it in the residual stream is done, which is the induction over the graph, carried by the steps. `Held`: so a writer that is not done comes after the last reader of the rows it overwrites, and rows hold what was written until a later write begins |
| `VlaServingProofs!TypeCorrect` | types | with the invariant below |
| `VlaServingProofs!Refinement` | `ImplementsPolicy` | `Matched`: among requests, the one being served and replies of a client, those with the number of its last request are about the observation it asks for, so REQ_CORRELATE lets no other through; every step maps to a step of `PolicyClient` or leaves it as it is |
| `VlaServingProofs!OnlySignalsStop` | `StopsOnlyWhenSignalled` | the drained frames and the REP state agree, so no send is refused |
| `VlmServerProofs!TypeCorrect` | types, and what is held back fits three bytes | with the invariant below; `CompletePrefix` is bounded by cases, not by induction |
| `VlmServerProofs!WhoseReplies` | `OwnReplies`, any number of clients | `OneTurn`: a client's turn is in one place, its request in the queue, or being served, or its final last in the pipe, and never in two; so nothing of a turn is left when the next one starts |
| `VlmServerProofs!TranscriptKept` | `TranscriptIsSaid` | `Transcript`: turns in a transcript are over, so nobody says anything in them again; and a final that is no error carries what was said |
| `Utf8Proofs!StreamIsCut`, `Utf8Proofs!CutIsTheWholeText` | the cut of a text is the cut of its pieces, each with what was held back; and it is as many whole characters as there are | `CompletePrefix` looks at the last three bytes only, so the cut of a longer text is decided by cases on where its last lead byte is |
| `VlmServerProofs!MessagesParse` | `MessagesAreText`, when the pieces are UTF-8 (`~AnyBytes`) | `Generated`: what is held back is what the cut of all bytes so far leaves, and the text ends in it. `GeneratedText`: the text and the bytes with special tokens break off in the same character. So a delta, and what the final is cut to, is whole characters. When tokens are any bytes the property is false, as it is of the code |
| `VlmServerProofs!StreamedIsTheText` | `StreamedIsText`, any pieces | `StreamGood`: what a client has read and what is in its pipe add up (`StreamsTo`) to the cut of the bytes so far while it is served, to nothing before, and after it to a text that agrees with its final, unless something of the turn was lost. `OwnRequest`: the request being served is the one its client waits for |
| `ArchCallsProofs!TypeCorrect` | types, and each graph's inputs are its own | `Caches`: a cached graph is one that some step of the loaded model builds, kept under that step's key (`OfAStep`), and its inputs go when it goes |
| `ArchCallsProofs!CachedGraphs` | `CachedIsFresh`, any models, requests, sequence of calls and failures, provided `KeysDecide` | by `Caches` a hit finds a graph that some step built under this key, and `KeysDecide` makes it this step's; `Current` carries that to the compute, since only a step's own `Ensure` replaces its graph. The hypothesis compares steps pairwise and says nothing of calls; TLC evaluates it for the 69 models |
| `ArchCallsProofs!InputsOfThisCall` | `InputsAreThisCalls`, any models, requests, sequence of calls and failures, provided `KeysDecide` and `ListsAgree` | below |
| `ArchCallsProofs!BucketsInRange`, `!InterpolatedBetween`, `!ScatterIsFetch`, `!MergeBlocksCoverTheGrid` | the index arithmetic, for every size | a quotient is the floor (`Quotient`), there is one quotient and remainder (`DivIs`); for the scatter, an image token has fewer image tokens before it than there are |

**What a call finds in its inputs.** `InputsAreThisCalls` speaks of one moment, the
compute, and of one graph. What may go wrong there happened calls ago: a constant
that was set for another prompt, an image row another request's encoder wrote, a
view that was half sent, a host table nobody refilled. The invariant
`InputsInv` therefore says of every graph, at every moment:

* `LaidOut`, `NoOverlap`: what an input holds sits where some step of the graph's
  key puts a write, and nothing overlaps. So the fills of the next step cover
  what is there, and none of it survives unless it is what they would write.
* `Lasts`: the inputs that are not filled again (`consts`, `once`) hold what every
  step of this key and tag counts on. A refused call may write a view over them,
  a compute may take the memory of any input that is not an output, and both must
  leave these alone.
* `Tabled`: a host table is one that some step makes or learns, so that its key
  says what it is.
* `Remains`: where the tables say that a step can be skipped, its gifts to other
  graphs are where it put them, or this call is about to make them anew
  (`Redone`). This is TurboVLA's text: the main graph, rebuilt after a failed
  call, has lost the encoded text and its masks while `text_ids` still vouches for
  them, and only `fresh` and `text_ids.clear()` make the call encode again.
* During a call: the graphs set up stand (`Ready`), what earlier steps learned and
  gave is at hand (`Learned`, `Given`), the step's own graph is new or rightly
  tagged (`Mine`).

Each action then keeps these (`CallInputs` to `ComputeFailsInputs`), and
`FillIsDue` is the heart: on such a graph, writing the fills that are not skipped
leaves exactly what is due. TLC checked every part of `InputsInv` as an invariant
before it was proved. A proof that failed changed the model: `Over` used to drop
only writes at the very place of a new one, so that a prompt of the same length
and another layout would leave rows behind that the code overwrites. BitVLA's
request `turned` is now such a prompt.

The hypotheses, with what they stand for in the code:

| Part of `ListsAgree` | Says | In the code |
|---|---|---|
| `HostsDecide` | equal keys of a host table, equal tables | `c_mask_seq == SEQ` and the like name all that the table is made of |
| `HostsAtHand` | what a step fills from is made in it, or learned earlier in the call | `predict` makes a table before it sets an input from it; Octo's language rows are kept with their key |
| `OneLayout` | a step's fills cover each input once; of two layouts under one key, one is filled over the other | most inputs are set whole, `ggml_nbytes` of them; views and rows in parts that the key's lengths lay out |
| `ConstsAgree` | steps of one key and tag keep the same, and compute and refused views leave it alone | `consts_set` is a field of the graph's io; an input that is set once is `ggml_set_output` too, as `t_lmmask` |
| `SetupsStay` | a graph set up is not replaced before the call ends | within a call a cache is asked for one key only |
| `GiftsLand` | a gift goes to a place of its own in a graph that was set up | TurboVLA's `enh_mask` and `fus_mask`, and rows its text graph computes and its main graph reads |
| `GivenFirst` | what a step does not fill, an earlier one gave in this call | the order of the phases |
| `GiversRedo` | a step that may be skipped gives anew after the graph it gives to was rebuilt | TurboVLA's `fresh` or `ids != text_ids`, with `text_ids.clear()` first |

They compare steps, two at a time. `MCArchCalls` evaluates all of them for the 69
models; lists that break one stop the run before its first state.

Only model-checked: liveness, which is out of the prover's reach, and with it
everything under fairness; and two invariants of `ArchCalls`. `AgreeingBuild` and
`OptionsKeepTheFunction` say of the tables themselves that their entries are
sound, so a proof would be TLC's evaluation again.

## Disagreements found

* **The views flag is the process's, not the backend's** (`EngineViews`).
  `fa_takes_views` is documented as a property of "the active backend", but
  is never reset: after a SYCL model was loaded, a later model on another backend
  builds its graphs with views.
* **Timings after encode_images** (`EngineStats`). `vla.h` documents
  `vla_last_stats` as the timings of the most recent `vla_predict`;
  `vla_encode_images` overwrites them.
* **A failed streamed send corrupts the next delta** (`ChatCorrupt`). The comment in
  `vlm-server.cpp` says the server shuts down cleanly instead of corrupting the
  next reply; the callback lets generation go on, and the deltas that follow go into
  the open multipart.
* **A file's dimensions are not all compared when it is loaded** (`OddFilesLoad`).
  `model.h` says that a load with a shape mismatch aborts. Evo-1's
  `num_image_token` is never compared with its patch grid: the rows of the image
  buffer come from the one and the copies into it from the other, so with fewer
  tokens the first predict copies past the buffer, and with more it leaves slots
  at zero. BitVLA's widths are compared with those its CUDA kernels are compiled
  for only inside the kernels, in the first request. So `AgreeingBuild` is about
  files that agree (`Agreeing`, from `EvoAgrees` and `BitvlaAgrees`), and
  `OddFilesLoad`, which TLC evaluates with the run `ArchCalls`, shows three that do
  not: an Evo-1 with fewer image tokens, one with more, a BitVLA with a width no
  kernel was compiled for. Each loads, and serves a request with a graph that
  does not build.

## Not modelled

* What numeric kernels compute: CUDA, SYCL, FoldQuant and BitVLA kernels and the
  CPU's vectorised paths. TLC has no floating point, and the repository checks
  them against reference implementations. The nodes that call them, their
  operands, shapes, assertions and functions are modelled; rounding, repacking
  of weights and errors of the CUDA runtime are not.
* ggml, llama.cpp, libzmq and protobuf: external, modelled from how the code
  uses them. So are the rows a file holds.
* OpenVINO's conversion of graphs and the NPU vision worker, a process outside
  that is given a file.
* Weight loading (reading, staging, uploading), backend selection, the tokenizer,
  `hf_fetch`, command-line tools, conversion and CI scripts, simulator adapters:
  sequential, and without state that a later call could meet.
* The CI agent with its control client, and `service.py`: state machines of their
  own beside the engine; their hazards are listed in `PROJECT.json` with the
  reason no property covers them.
* Within modelled parts: argument and option parsing, architecture detection,
  the individual checks of a request to a server (one outcome each), array
  packing; in `ArchCalls`, concurrency (a handle's mutex serialises calls, which
  `Engine` checks) and the output's own post-processing where it is arithmetic.
* A final's text is detokenised in one go (`engine.cpp:290`) and modelled as the
  concatenation of its tokens' pieces. The two are equal for vocabularies without
  `add_space_prefix` and `clean_spaces`, which is an assumption of the chat's model.

## What could come next

* `CiAgent`: the agent's REP loop, its spawned processes and `vla-ci-ctl`'s
  timeout, composed with `run_remote.sh`.
* `service.py` on the sockets of `VlaServing`.
* The weight loader's declare, allocate, read and convert, with what a failure
  on the way leaves; `hf_fetch` with its download tool as an external step.
* An abstract chat, one atomic turn, that `VlmServer` implements.
* BitVLA's device weights and buffers as state, with CUDA errors.
