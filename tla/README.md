# A formal model of erl_hls

erl_hls compiles Erlang modules that follow an actor behaviour (`hls_gs`, a
server; `hls_statem`, a phase machine) to XLS hardware actors, and runs the same
modules on the BEAM. Python tools build the hardware, run the regressions and
read what the hardware observed. This directory holds TLA+ specifications of the
parts of that system whose correctness depends on order, failure or limits, and of
the algorithms others rely on: what TLC checks on small instances, and what TLAPS
proves for every instance.

Paths below are relative to the repository. `PROJECT.json` names, for every
definition of a module, the lines it stands for.

1. [The system](#1-the-system)
2. [Modules and how they correspond to the code](#2-modules-and-how-they-correspond-to-the-code)
3. [What is checked](#3-what-is-checked)
4. [Bounds](#4-bounds)
5. [Fairness](#5-fairness)
6. [What is proved](#6-what-is-proved)
7. [What is not modelled, and the plan](#7-what-is-not-modelled-and-the-plan)
8. [Running it](#8-running-it)

## 1. The system

### Components

| Component | State | Operations | What makes it correct |
| --- | --- | --- | --- |
| **Mailbox** `hls_mailbox.erl` | slots (free, reserved, committed), tickets, arrival counter, generation, identity | reserve, cancel, cancel_owner, commit, receive, select/consume, reset, new | a token is honoured by the slot it was issued for and no other; messages are received in publication order; capacity is a promise to whoever reserved |
| **Statem scheduler** `hls_statem.erl`, `hls_callback_actions.erl` | phase, bounded mailbox, postponed inputs, retained calls, one pending continuation, one collection, its completion | connect, admit a cast or call, dispatch, conclude (consume, postpone, contribute, next/repeat phase), complete a collection, run a continuation | no input lost, repeated or stranded; a completion holds what was contributed; every private event runs once |
| **Collections** `hls_reduction.erl`, `hls_indexed_gather.erl` | one open reduction or gather: key, expected population, contributions | open, contribute, offer | completes exactly when its population has contributed |
| **Reply book** `hls_reply_book.erl` | retained callers by handle, next handle | admit, complete | a handle names one caller for ever |
| **Generic server** `hls_gs.erl`, `hls_gs_deferred.erl` | reply book, pending private event | call, cast, continue, reply later, refuse with `busy` | every call answered once, to its own caller |
| **Hardware server driver** `hls_server.x`, `hls_reply.x` | reply slots, sequence, latched failure, continuation | accept a frame, reject, refuse, invoke the worker, send, drain after a failure | the hardware twin keeps the same promise, with transaction IDs in place of processes |
| **Fabric client** `hls_fabric_client.erl` | transaction slots, outstanding sends, status | request, cast, send result, frame, caller DOWN, broker DOWN | a late reply never reaches a newer caller; slots do not leak |
| **Fabric broker** `hls_fabric.erl`, `hls_fabric_session.erl`, `hls_fabric_io.erl` | write queue and active write, routes, receipts, one buffered frame, sessions | register, send, ack, drain, writer/reader events, deadlines, process deaths | `not_sent` is never a lie; order of writes; receive credits return; a drain means what it says |
| **Fabric lease** `hls_fabric_lease.erl` | reservations, a copy that survives a crash, waiters, two workers per reservation | open, closed, await, DOWN of brokers and workers, restart | an endpoint is never opened by two brokers; a confirmed release is a closed one |
| **Packet multiplexers** `hls_fabric_egress.v`, `hls_fabric_ingress.v` | owner of the stream, round-robin cursor, captured beat; mode and target | select a port, send the route word, send beats; route, forward, drop | packets arrive whole at their destination; nobody starves |
| **Application framing** `axis.x`, `frame_transport.x` | decoder state | header, payload, drain of a rejected frame | a bad frame does not corrupt the next |
| **Spatial router, arbitration** `hls_spatial_router.x`, `hls_fabric_router.x`, `arbitration.x` | child queues | route, copy, merge | every copy delivered once, no deadlock of the tree |
| **Debug client** `hls_debug*.erl`, `hls_topology_debug.erl` | session over a fabric client | counters, trace, query, release | a query is answered by its own snapshot |
| **Debug hardware** `priv/rtl/debug` | owner of the management route, trace ring, counters | request, reply, freeze, read | a reply takes the route of its request |
| **Wait analysis** `hls_topology_wait.erl` | none | search for candidate wait cycles in a snapshot | reports every cycle of the snapshot, and no other |
| **Topology** `hls_topology*.erl` | none | expand families, check endpoints | expansion is complete and unambiguous |
| **Compiler frontend** `src/src/frontend` | none | source to checked facts | rejects what it does not support |
| **XLS backend** `src/src/backend` | none | phase analysis, lowering, text | lowered actors follow the scheduler above |
| **Toolchain** `src/src/toolchain` | files | commands, artifact bundle | a bundle is published whole |
| **Values and codecs** `hls_type`, `hls_nums`, `hls_bits`, `hls_fixed` | none | encode, decode, wrap | round trips; the two numeric models agree |
| **Build executor** `priv/tools/compile_xls.py`, `compile_source_build.py` | stage cache, releases and link of each output, locks, run reports | plan, snapshot, run or reuse a stage, publish an entry, publish a release, report | a release is what its manifest says, whoever else builds; the output never names half a release |
| **Build recipes** the same files | none | plan the stages of a flat build or of a bundle | every file a stage can read is in its cache key; every file has one owner |
| **Regression runner** `run_regression.py`, `regression_steps.py` | a stage directory and a receipt for each case | check stages, run steps, judge commands, save receipts | a receipt that says *passed* is true of one attempt |
| **CI diagnostics** `ci_diagnostics.py` | none | choose what is uploaded | the failed step's evidence is in, within the limits |
| **CI selection and qualification** `regression_inventory.py`, `ci_plan.py`, `ci.yml` | record of fingerprints that passed | select cases, plan groups, reuse a record | narrowing a run loses nothing |
| **Timing profile** `hls_profile.py` | none | validate, longest path, prerequisites, window, overlay, export | reported paths are the longest, times add up, a window shows the same values |
| **Topology and actor probes** `topology_debug*.py`, `measure_topology_debug.py` | none | accept a projection, lay out taps, generate the reads, check a report | a query is answered with the bits of the thing it names |
| **Compiler differential tests** `compiler_differential*.py` | campaign progress | generate programs, run, minimize a failure | generated programs are legal; what is reported shows the failure found |
| **Other tools** `src/tools` | none | audits, measurements | outside the product |

### How they interact

```
 caller --gen call--> hls_gs / hls_debug proxy --(fabric client)--> broker or session
                                                                     |  casts, monitors
                         lease registry <--closed/2-- writer, reader (one raw fd each)
                                                                     |  FIFO or DMA stream
                                                          egress / ingress circuits
                                                                     |
                                    framing -- hardware server driver -- callback worker
```

* A proxy submits with `gen_server:send_request`, so the completion of its write
  and the reply of the device reach its mailbox as separate messages, in either
  order, next to the DOWN messages of callers and of the broker.
* The broker talks to its two workers by message and never blocks in an operating
  system call; a write may finish after its deadline, a read after its route died.
* The registry learns that a descriptor is closed by a cast to a registered name,
  which is lost while the registry is down.
* The build executor is used by the regression runner (which borrows its `run`), by
  the flat adapter and by the bundle driver. Several processes share its cache directory and
  meet only at two kinds of lock, one for each output and one for each cache entry.
* CI starts a plan at each push, runs the regression runner on the planned cases and
  uploads what `ci_diagnostics` picks from the stages.
* CPU actors get their inputs from a mailbox under the scheduler; the hardware
  twin has the channel in front of the driver.

### What is hard here

The hazards are listed in `PROJECT.json`, each at its line. They come in six
families: tokens, handles and IDs that outlive what they name (mailbox,
reply book, transaction slots, hardware handles); answers that race with
deadlines, deaths and drains (broker, client, lease); limits that make one party
wait for another (receive credits, full mailbox, full reply book, output channel);
crash and restart of the lease registry with its workers alive; the order of
events inside one handler (phase boundaries, retried inputs, completions,
private events); and, in the tools, files that outlive the process that wrote them
(cache entries, releases, links, stages, receipts, records of passed runs).

## 2. Modules and how they correspond to the code

Each module of a component has one action per handler or operation; helper
functions of the code are operators with the code's names. Where a helper of the
code takes and returns a state, its operator does too, and the action applies the
operators in the code's order. Operators marked `Mutant` are wrong versions of
the definition below them; each property is known to fail under one.

### Mailbox: `Mailbox`, `MailboxClients`, `MailboxQueue`, `MailboxRefinement`

`Mailbox` is the data type: one operator per exported function, from a mailbox to
`[reply, mailbox]`. `MailboxClients` adds clients that keep every token they were
given and may present it at any time: after the slot was reused, after a reset, to
the mailbox that replaced it. `MailboxQueue` is the abstract specification (credits per
owner and a queue in publication order, with an atomic selective receive; it
follows docs/formal-contracts.md), and `MailboxRefinement` maps the first to the
second: credits are the reserved slots of the owner, the queue is the committed slots by
arrival age. A clause is a set of messages.

### Fabric broker: `Fabric` over `Queues`

`broker` is the `#state{}` record. `PumpTx`, `PumpRx`, `Retire`, `FinishDraining`
are the functions of those names; every handler is one action
that ends in the pump and drain check the code ends in. `RetireSessions` is
`retire_session/2` for a set of sessions: the fold of `finish_draining/1` retires
sessions that are not busy, which have nothing in the broker that retiring
another one could touch, so its order does not matter. `Without` of `Queues` is the
`lists:partition` over the queue, as a function on positions. Writer and reader
processes, session processes, their channel to the broker, and owners are separate
actors. A deadline is a member of `late` once it has passed: `expired/1` reads the
set, and a timer message may arrive at any time after. A frame that the broker has
delivered stands in its owner's mailbox as long as its receipt is outstanding. `Ack` asks for the receipt
only: an acknowledgement may have been sent before its owner died and arrive after.
Left out: `info/1` and statistics, payloads, encoding errors of a frame (answered
before any state changes).

### Fabric client: `FabricClient`

The table of `hls_fabric_client.erl` between callers, an abstract broker and a
device. The broker here shows what `Fabric` shows: it writes in order, answers
`not_sent` only for what it did not write, and its messages arrive in order,
except the DOWN message. `BrokerRejects` stands for every rejection (limits,
deadline, drain of the session); `BrokerStops` answers first and `BrokerKilled`
answers nothing. Callers may die at any time. A frame carries the number of
the request it answers, which the client never reads. The device answers each
request at most once: docs/host-transactions.md states that a device that invents
replies is outside the contract.

### Fabric lease: `FabricLease`

The registry, its stored copy, both descriptor workers of each reservation, brokers
and waiters. `fds` is the set of workers that hold a descriptor. `RegistryCrashes`
may happen at any point, between storing a reservation and the two `open`
messages too (`registry` is then the lease being served). `closed/2` is lost while the
registry is down, and such a reservation stays quarantined; the code
means that, since nobody can tell whether the endpoint is free. `WorkerKilled`
and a failed close leave the descriptor in `fds`.

### Statem scheduler: `Statem` over `ReplyBook`, `Collections` and `Queues`

One handler of the process admits an input and then runs `process_messages/1`
until nothing is eligible. Each turn of that loop is a step, with `status = "busy"`
in between so that no input arrives; `Settle` ends the handler. Callbacks may
conclude with anything that the behaviour allows, and with what it does not
allow, which stops the machine. `Connect` is the attachment of the outputs; taken
with an empty mailbox it is also a start with outputs. `Collections` gives the
results of `hls_reduction` and `hls_indexed_gather` as functions of the open
collection. Left out: the casts an entry publishes, the application's own data,
`info/1`.

### Generic server: `DeferredServer`

`hls_gs` on the CPU with retained replies: `gen_server` runs a continuation before
the next message; `refuse` is the `busy` answer when `PendingCalls` answers
are owed. It uses the same `ReplyBook`.

`CallOwnership` is what both schedulers promise their callers: calls are taken
in order, at most `Limit` are owed, each is answered once, and a refusal means the
limit was reached. `Statem` and `DeferredServer` each implement it
(`KeepsOwnership`) under the same mapping: `owed` is what the reply book holds. The property
also says that what each caller gets is the answer that was meant for it (`CallsAnsweredOnce`).

### Hardware server: `HardwareServer`

`Driver.next` of `hls_server.x`. One activation receives a frame or none, invokes
the worker, and sends what it has to send; `invoked` and `sending` hold one that
has not ended. The worker answers each invocation with anything: a reply, an
error, a handle it was given before. The host keeps the ID rules of `FabricClient`
except for `MaxFaults` frames.

### Packet link: `FabricLink`

`hls_fabric_egress.v` feeding `hls_fabric_ingress.v`. A step is a clock of both
circuits in which a beat moves. Payload beats look like route words to their own
source, the worst they could be. `ready` of the sinks and gaps of the
sources are arbitrary. Left out: route words that are partial or end a
packet, which the egress never sends. `Reset` is a reset of the circuits and of
everything attached; a reset of one circuit only is outside its documentation.

### Build executor: `BuildExecutor`

`execute`, `stage`, `run`, `locked` and `checked` of `compile_xls.py`, with the
planning of `compile_source_build.py` in front for outputs that are bundles. Each
build is a process; `proc[b].at` is where in `execute` it is. Every step that touches something
shared (hashing the compiler, copying an input, looking an entry up, starting the
compiler, taking the entry's lock, moving a damaged entry, renaming the new one,
installing a release, making and switching the link, reporting) is an action of its own, so another
build, a kill (`Crash`) or an exception (`Raise`, also SIGTERM and the compiler's timeout) comes
between any two. Bytes are known by their lineage: the source versions and the
compiler runs behind them, with a `Salt` for the choices that make two runs of one
stage differ. Equal values stand for equal SHA-256.

Sources are edited, the emitter seals a new manifest, the compiler is upgraded, and
entries and releases are damaged while builds run. Versions only grow: a compiler that is replaced and put
back during one stage is not modelled (the code compares hashes before and after,
and would not see it). An entry is not damaged between its check and its copy.

### Build recipes: `StageRecipes`

What `build()` and `plan_build()`/`compile_build()` hand to the executor, as pure
operators: files of the snapshot, stages with arguments and declared inputs, the
selected files of the release, and all the checks that refuse a recipe. A directory is its path.
The property compares declared inputs with what the tool could read (`Reads`): files named on its
command line and every `.x` file at and below its import roots, `--dslx_path=.` of the flat adapter among
them. A module among the assets of a flat build is such a file and is in no key: `RecipesSound`
sets it aside, and the run `flat_imports` shows it (section 3). Outside
the inputs enumerated are a bundle unit whose output has suffix `.x`, and an RTL list that names a log
of a unit, which is refused only when the release is assembled.

### Regression: `RegressionCases`, `RegressionRunner`, `CiDiagnostics`

`RegressionCases` declares the cases that the runner and CI share.
`run_regression.py`: runners that are started with one STAGE, are interrupted or killed anywhere, and
find stages with leftovers. As in `make_cases`, a runner of one case works in STAGE itself (`Root`) and a runner of several
in STAGE/case (`StageOf`), so runners of different cases meet in STAGE, and STAGE may
contain the stages of others: it is then not empty for `require_fresh` (`Fresh`), `mkdir(parents=True)`
creates it (`Made`), removing it removes them. Nothing keeps a
runner that has found STAGE empty from sharing it with stages that others make inside afterwards. A receipt names
its case. The model takes it that no case gives a file or directory of its own the name of another case. A recipe is a sequence of copies,
commands with what the case demands of them, and tables whose rows are
read when their turn comes; a command ends in every way of `Result`. A command whose
runner was killed is gone before its stage is used again. `CiDiagnostics` applies `collect` and
`regression_priorities` to every state in which no runner is active. The receipt of a
killed runner still says *running*: the code gives it the priority of a passed one. A receipt
grows with its rows, one unit for two.

### CI: `RegressionSelection`, `CiQualification`

The first holds the pure functions of `regression_inventory.py` and `ci_plan.py`
over trees (path to mode and content), the second the runs of `ci.yml` on one branch: each push plans against
the commit before it and cancels the run before it, a run is skipped, or
runs its jobs and records the fingerprint; records may be evicted. Whether a case passes depends on
what it reads in the tree (`Passes`), which is what makes "narrowing loses nothing" a statement.

### Timing profile: `TimingProfile`

The algorithms of `hls_profile.py` next to definitions that do not use them: all
chains of dependencies, acyclicity by subsets, the value a counter shows at a time: that of its last sample,
where samples at one time count in the order of the profile, as `svg` draws them and the stable
sort of `perfetto` exports them (`Shows`). `ProfileSound` compares the two.

### Probes: `ActorProbes`, `TopologyProbes`

`ActorProbes` follows a bit from the port of a bank through the vector of taps and
the generated slices to its place in a 128-bit answer; `Expected` says where it
has to come from without computing an offset. Its `WriteExact` gives the meaning of the
write contract for every value of the signals. `TopologyProbes` finds channels and queues from the nets
of an elaborated design, with aliases and tied-off handshakes. Left out: the valid bit that gates a live
row, Verilog text, Yosys.

### Differential tests: `DifferentialCases`, `DifferentialCampaign`

Program trees as the generator draws them, the scope of bound names as the emitter builds
it, and reductions; then the campaign, one action for each batch and each candidate
that the minimizer tries, over tools with a given set of defects. Trees have one
subtree that is deeper than a leaf; `orelse` is `andalso`; the helper function of a
program is one operation; the tie-break of the cost is by leaves.

### Which module uses which

```
Queues <- OrderLemmas <----------------------------------+
Queues, ReplyBook, Collections <- Statem <- ActorProofs -+
                   Statem, DeferredServer --> CallOwnership
Mailbox <- MailboxClients <- MailboxRefinement -> MailboxQueue
                         <- MailboxProofs                |
Queues <- Fabric <- FabricProofs ------------------------+
FabricClient <- FabricClientProofs ----------------------+
FabricLease <- FabricLeaseProofs                         |
FabricLink, HardwareServer <- CircuitProofs -------------+
ReplyBook <- DeferredServer <- ActorProofs
BuildExecutor <- ToolProofs -----------------------------+
RegressionCases <- RegressionRunner <- CiDiagnostics     |
                   RegressionRunner <- ToolProofs        |
RegressionCases <- RegressionSelection <- CiQualification <- ToolProofs
DifferentialCases <- DifferentialCampaign
StageRecipes, TimingProfile, ActorProbes, TopologyProbes
```

`MC*` modules give the constants of a component values for TLC. `MCStatem` also lists
the entries and contributions its callbacks use, `MCFabric` restricts the two
directions of traffic. `MCParts` holds the hardware driver, the CPU server, the packet link and the
reservations, `MCBuilds` the executor and the diagnostics, `MCTools` the other Python
tools: a behaviour of these three picks one of their systems at the start and stays with it, and the
others keep their initial states. `MCRegression` has the recipes of the regression cases. The pure tools of
`MCTools` take every input of a set in one step, and their invariant is evaluated on it.

## 3. What is checked

Properties of the broker, the client and the others are stated in their modules, each
under a comment that names the code or document it comes from.

| Run | Question | Properties |
| --- | --- | --- |
| `mailbox` | Two ingresses, two slots, stale tokens, a reset and a respawn: can a token ever touch a slot it was not issued for, and is the mailbox the credit queue? | `OneTokenPerReservedSlot`, `SelectionIsReceive`, `DeadTokensStayDead`, `ImplementsQueue` |
| `fabric_safety` | Writes under deadlines, deaths, drains and failures, receives under credits: does `{not_sent, _}` always mean that the frame did not reach the writer, is each caller answered once and in order, does a credit ever belong to nobody, does a retired route come back? | `WritesTruthful`, `DrainIsClean`, `CreditsCanReturn`, `RoutesNeverReused` |
| `fabric_progress` | Is every admitted write answered, does a frame that waits behind a full window leave, and does a drain end that meets it? | `EveryWriteSettles`, `StreamMoves`, `DrainCompletes` |
| `client_transactions` | Late replies, rejections, caller deaths and broker loss over two slots: does each caller hear its own reply and is it answered, is a slot held exactly as long as its request is open, and does it return? | `RepliesMatch`, `SlotHeldWhileOpen`, `EveryCallAnswered`, `AbandonedSlotsReturn` |
| `statem` | Arbitrary callbacks over casts, calls, postponement, phases, private events and both collections: is anything lost, seen twice, stranded or answered wrongly? | `InputsAccounted`, `NothingStranded`, `ContinuationKept`, `CompletionExact`, `KeepsOwnership` |
| `parts` | *Servers*: The hardware driver under any worker and a host that breaks the rules once: is every call in one place until it is answered, and does a failure reach everybody? The CPU server: does it keep the promise of the phase machine? *Link*: Gaps, stalls, resets, unknown destinations: do packets arrive whole, and is nobody passed over for long? *Reservations*: Two brokers, one endpoint, crashes of everything: can two hold it open, is a confirmed release true, is a dead broker's reservation settled? | `CallsBalance`, `FailureReachesAll`, `KeepsOwnership`, `PacketsWhole`, `BypassBound`, `OffersTaken`, `ExclusiveDescriptors`, `ConfirmedIsClosed`, `StoppedIsSettled` |
| `builds` | *Executor*: Two builds share a cache while sources, the compiler and files change and either is killed: is every release what its manifest says, is a cached product what its key says, does the output always name a whole release, does every build end? *Diagnostics*: Passed, failed and killed cases whose receipts compete for the read budget and whose files compete for the bundle: is the evidence of a failure uploaded? | `OutputIsComplete`, `ReleasesCoherent`, `CacheIsTrue`, `EveryBuildEnds`, `DiagnosticsUseful` |
| `diagnostics_precedence` | Does the evidence of a failure take precedence without a proviso? | `FailuresTakePrecedence`, violated |
| `tools` | CI over a branch, recipes, profiles, probes, generated programs and campaigns: do the algorithms give what their definitions ask? *Runners*: Two runners of one or both cases with one STAGE, kills, leftovers, stages inside the stage, every way a command ends: is a receipt that says *passed* true? | `SelectionSafe`, `RecipesSound`, `ProfileSound`, `ProbesExact`, `FailuresReduced`, `ReceiptsTruthful` |
| `flat_imports` | Is every staged module that the converter can import in the key of IR conversion? | `ImportsKeyed`, violated |
| `profile_window` | Does a window retain the preceding value of every counter? | `WindowRetains`, violated |
| `ci_reuse` | Is a run skipped because its inputs "already passed" only when they did? | `ReuseIsQualified`, violated |

All of them hold but the four marked, which are findings (below). Types are proved for the
components with proofs, in section 6. What the answers depend on:

* `DrainCompletes` holds because the device becomes quiet (`MaxFrames`): a device that
  never stops sending on a route that is draining keeps producing receipts to wait for.
* `RepliesMatch` of the client needs a device that answers a request once. It does not
  need it to be fast: the point of the slot rule is that late replies are harmless.
* `AbandonedSlotsReturn` and `EveryCallAnswered` need a device that answers. With
  one that does not, slots are lost by design (docs/host-transactions.md).
* `StoppedIsSettled` is about the registry that monitors the broker. After a crash
  of the registry its reservations are `registry_restarted`, which is settled:
  `await/2` answers and does not wait.
* `ConfirmedIsClosed` holds although confirmations can be lost, since a lost one
  only delays: the reservation stays.
* `CallsBalance` counts the second use of an open ID as one call that the failed
  activation swallows: the host broke the rule and hears one error for both.
* `OutputIsComplete` exempts a release that was itself damaged after it was selected. Nothing in
  the executor looks at the output again until the next build of the same release.
* `CacheIsTrue` rests on `flock`, which the kernel drops with its process, and on
  compiler versions that do not come back.
* `EveryBuildEnds` needs the timeout of `run`: a compiler that never ends would hold an output, though
  not the cache, since an entry is locked only to be published.
* `ReceiptsTruthful` rests on `mkdir` of `logs/` without `exist_ok`: the two looks at an
  empty stage are not atomic, and this is what stops the second runner.
* `ReceiptsTruthful` does not say that a stage holds nothing but its attempt: in STAGE itself there may be the
  stages that other runners made inside. It says so of the products of the stage itself.
* `DiagnosticsUseful` promises the evidence only if it fits the limits by itself, and only if it can be found:
  the receipts of all cases that are short enough to be read, with the command records of failed steps, fit the budget they are
  read from, and no failed receipt is over the file limit. Without the first proviso it is false (below).
* `ProfileSound` asks for equal counter values in a window if no counter was sampled twice at one time before it. Otherwise
  it is false (below).
* `RecipesSound` exempts modules among the assets of the flat adapter (below).
* The lease registry forgets a waiter before it answers, so a timer that fires while a release is handled finds its ID gone. That
  the two orders are steps of `WaiterLeaves` and `Notify` loses nothing: a timeout for an ID that is gone changes nothing.
* `SelectionSafe` is relative: a run that passed vouches for its commit if the commit it was
  compared with was good. Nothing in `ci_plan.py` checks that it was.

### Findings

**Reuse of a qualification** (`ci_reuse`). `ci.yml` skips a run whose fingerprint is on record and writes that "these exact source,
dependency, test and workflow inputs already passed" (`.github/workflows/ci.yml:56`; the
docstring of `tools/ci_plan.py` says "previously qualified inputs"). The record is written by any run that
succeeds, and names the tree but not the cases that ran. In the trace a push breaks the
fixture of case B and its run is cancelled by the next push; that one changes a
fixture of case A only, so A alone is run, passes, and records a tree in which B fails. B is
repaired, and broken again in the same way. The run of that last push selects B, finds the tree on record and is
skipped. A cancelled run is not even needed: the run of the first push may also simply fail.

**Evidence that is not found** (`diagnostics_precedence`). `docs/ci.md:25` and the docstring of `collect`
(`tools/ci_diagnostics.py:75`) say that failed regression records and their step logs take
precedence over completed steps. To know which records failed and where their steps wrote, `regression_priorities` reads
records, and the command record of each failed step, in order of size from one budget (`ci_diagnostics.py:20-31`), and the records of passed and
killed cases spend it too. What comes when too little is left is not read. In the trace the limits are 6 units in all and 2 for a file;
the records of a killed and of a passed case leave 2 for the failed one, which is read, and nothing for the command record of its failed step.
The stdout that only this record names keeps the priority of any other file and is left out, although all the evidence fits the bundle. With one unit less
the failed record itself is not read and has the priority of a passed one.

**An importable asset** (`flat_imports`). `docs/incremental-xls-builds.md:33` lists as inputs of IR conversion
"Every staged `.x` file with its relative path". The flat adapter stages assets under
`assets/` of the directory in which the converter runs with `--dslx_path=.` (`compile_xls.py:526`, `535`), so an asset `lib.x` can be imported as
`assets.lib`, but only the flat sources and the standard library are declared as inputs of the stage (`compile_xls.py:563`). A changed asset is
then a hit of the old entry. The property fails on the first such recipe.

**A counter sampled twice** (`profile_window`). `docs/profiling.md:26` says of `--window` that it "retains the preceding counter values".
Of two samples of a counter at one time, `window` keeps the first (`hls_profile.py:241` replaces only an
earlier one), while `svg` and the export of the whole profile show the last. `validate` accepts such a profile. In the trace a counter is set
to 1 and to 2 at time 0; from 1 on the profile shows 2, the window 1.

## 4. Bounds

| Run | Instance | Why it is enough to show the behaviour |
| --- | --- | --- |
| `mailbox` | 2 slots, 2 owners, 2 messages, 4 reservations, 1 reset, 1 respawn, 1 held selection; 240,704 states | the mailbox fills, a slot is reused while an old token and an old selection for it are still about, and both kinds of restart happen |
| `fabric_safety` | 2 owners, 1 session, 2 routes, 2 credits in each direction (1 per receiving route), 2 writes, 2 frames; 2,361,786 states | a route is retired while its write is at the device; frames of both routes compete for the credits; a drain meets a death |
| `fabric_progress` | 1 owner, 1 session, 1 route, 2 receive credits of which a route has 1, 2 writes, or 1 with 2 frames; 153,619 states | the second write waits for the credit of the first; the second frame is read and stands in the buffer behind a full window, also while the session drains and while a write is active |
| `client_transactions` | 2 callers, 2 slots, 3 submissions, 1 stray frame; 573,494 states | a third call waits for a slot that an abandoned call still holds, and IDs are used again |
| `statem` | 2 phases, 3 mailbox slots, 4 inputs, 2 phase entries, 1 retained call, 3 handles, width 2; 249,489 states | inputs are postponed past a phase change, the book and the handles run out, a collection of 2 is completed and padded |
| `parts` | driver: 2 slots, 3 call IDs, 4 frames, depth 1, 4 sequence numbers, 1 fault; CPU server: 5 messages, 2 retained calls, 5 handles; link: 3 ports, 4 addresses of which one is nobody's, packets of 1 to 3 beats; reservations: 2 leases of one endpoint, 1 waiter, any number of crashes of the registry; 148,194 states | an ID is used twice, the sequence ends, a fault comes with calls in every stage; a handle outlives its caller; the bound of the arbiter is met, and a packet for nobody is drained while others wait; two reservations compete for one endpoint across a crash |
| `builds` | executor: 2 builds, a flat output and a bundle, 1 input, 2 stages, 2 salts, 1 change around them, 2 starts; diagnostics: 1 runner, 2 starts, so 3 stages with receipts of 1 to 3 units; files of 2 units and 6 in all, logs of 1 or 4, 6 files; 477,626 states | two builds race for each entry with different bytes; a stage builds on a loser's or winner's product; the compiler or a source changes at any step; each of the three limits is met; evidence competes with passed and killed cases; the budget of the records is used up to the last unit, and exceeded where the proviso says so. The theorems of section 6 have no bound on builds |
| `diagnostics_precedence` | as `builds` | |
| `tools` | CI: 3 pushes over 4 paths and 3 cases; profiles of 3 events; recipes of 2 files, units and flags; trees of depth 2; campaigns of 3 programs with up to 2 defects and budgets of 0, 3, 12 and 60; runners: 2 runners, 2 cases and so 3 stages, tables of at most 1 row, 2 starts; 1,257,405 states | a run is skipped, cancelled and compared with an older base; every branch of the pure functions is taken (each has a mutant); one runner resumes what another left, while it still runs; runners of one case and of both meet in STAGE and inside it |
| `flat_imports`, `profile_window` | as `tools` | |
| `ci_reuse` | 4 pushes | the shortest counterexample has 4 |

`SequenceLimit` stands for 2^56 and `HandleLimit` for the end of the handle
range: small values reach the boundary. `MCFabric` lets a behaviour carry writes or frames
on two routes, not both at their largest (`OneDirection`, `Light`): the two directions
meet only in drains, retirements and the end of the broker, and those happen in both. In `fabric_progress` a behaviour
with a second write receives nothing and has no route for it (`Light`). Symmetry is used only in runs with
invariants and box formulas over interchangeable owners, routes and runners, never
with liveness. Deadlock is not checked: the bounds stop the environment, or the process may end: a broker is
closed, a machine fails, every lease has been used; there the liveness properties
say what must not be left waiting.

## 5. Fairness

Weak fairness only, and only of what the runtime or the clock guarantees.

* `Fabric`: each message to the broker is handled, the two workers open, take and
  finish their work (a blocked FIFO has a peer in the end), DOWN messages
  arrive, owners that live acknowledge what they were given. Deadlines, deaths, stops and new
  requests are not fair: nothing depends on them.
* `FabricClient`: messages are handled, the broker writes and completes, the device
  answers each request. Rejections and deaths are not fair.
* `FabricLease`: the registry handles messages and DOWNs, workers open, stop and close
  once their broker is dead. Starting the registry is not fair: it starts when
  somebody calls it, and a crash needs no recovery for the properties stated.
* `Statem`: one `Turn` of the scheduler loop, that is, callbacks return. No input need arrive.
* `HardwareServer` (in `MCParts`): the driver and the worker are clocked and the host
  reads. It need not send.
* `BuildExecutor`: a build that can take a step takes one (weak fairness of `Step(b)` for
  each build): `execute` waits for nothing but the lock of a cache entry, whose
  holder never waits, and `run` bounds the compiler. Kills, failures and changes around it are
  not fair.
* `CiQualification`: planned runs are skipped or run. Pushes, evictions and dispatches are not fair.
* `FabricLink`: the clock with every sink ready keeps coming back, and a source ends a packet
  it began. docs/fabric-routing.md asks both of whoever is attached. A source need
  not begin a packet.

## 6. What is proved

TLAPS checks these theorems for every value of the constants, so without the
bounds of section 4. None of them rests on an assumption other than the `ASSUME`s
of the modules, which TLC evaluates in each run.

| Module | Theorem | States |
| --- | --- | --- |
| `MailboxProofs` | `TypeCorrect` | `[]TypeOK` |
| | `ArrivalsAreOrdered` | arrival ages of resident messages are distinct and behind the counter |
| | `GrantedSlotsAreExclusive` | `[]OneTokenPerReservedSlot` |
| | `SelectThenConsumeIsReceive` | `[]SelectionIsReceive` |
| | `TokensNeverRevive` | `DeadTokensStayDead`, an action property |
| `FabricProofs` | `BrokerConsistent` | the invariant below |
| | `WritesAreTruthful` | `[]WritesTruthful` |
| | `CreditsReturn` | `[]CreditsCanReturn` |
| | `DrainsAreClean` | `[]DrainIsClean` |
| | `RoutesBelong` | `RoutesNeverReused`, an action property |
| `FabricClientProofs` | `RepliesAreMatched` | `[]RepliesMatch` |
| | `SlotsAreHeld` | a request under way holds its slot, and is in one place |
| | `SlotsReturn` | `[]SlotHeldWhileOpen` |
| `CircuitProofs` | `TypeCorrect`, `PacketsArriveWhole`, `PassedOverAtMost` | `[]TypeOK`, `[]PacketsWhole`, `[]BypassBound` |
| | `CallsAreBalanced` | `[]CallsBalance` of the hardware server |
| `FabricLeaseProofs` | `TypeCorrect`, `DescriptorsAreExclusive`, `ConfirmationsAreTrue` | `[]LeaseTypeOK`, `[]ExclusiveDescriptors`, `[]ConfirmedIsClosed` |
| `ActorProofs` | `InputsAreAccounted` | `[]InputsAccounted` |
| | `NothingIsStranded` | `[]NothingStranded` |
| | `ContinuationsAreKept` | `[]ContinuationKept` |
| | `CompletionsAreExact` | `[]CompletionExact` |
| | `OwnershipIsKept` | `KeepsOwnership`: `Statem` implements `CallOwnership`, with the right answers |
| | `ServerKeepsOwnership` | `KeepsOwnership`: `DeferredServer` implements it too |
| `ToolProofs` | `TypeCorrect`, `OutputsAreComplete`, `ReleasesAreCoherent`, `CacheTellsTheTruth` | `[]TypeOK`, `[]OutputIsComplete`, `[]ReleasesCoherent`, `[]CacheIsTrue` of the build executor |
| | `ReceiptsAreTruthful` | `[]ReceiptsTruthful` of the regression runner |
| | `SelectionIsSafe` | `[]SelectionSafe` of CI |

### Mailbox

Assumed: the capacity is positive, clause lists are sequences of sets of
messages, `MaxGeneration` is a number. `SelectionIsReceive` is not inductive: a
step could publish a message that an old selection happens to name. What excludes it is
`TokensPrecedeCounters`: every token of the live mailbox and generation carries a
ticket and an arrival behind the counters, so nothing new can look like it.
With it `IInv` (types, `ArrivalsOrdered`, `TokensPrecedeCounters`,
`OneTokenPerReservedSlot`, `SelectionIsReceive`) is inductive. The proof
first shows that every action changes the state in one of six ways (grant, release,
publish, select, remove, restart) and then treats those six. `TokensNeverRevive` follows
for each of the six from the same invariant.

### Fabric broker

Assumed: the windows are positive, the bounds on what arrives are numbers, `None` is
none of the things it stands in for, and an owner is not one of the two marks of a route. Nothing
is assumed of the numbers of owners, sessions and routes.

None of the safety properties is inductive. They compare what callers heard with what the
device got, and both come from a transmission that was in the queue, then active, then neither.
`IInv` says of the transmissions:

* `Recorded`: the queue and the active one hold what was admitted, but that nobody may wait for the
  active one any more (`from = none`);
* `InLine`: the wire, the request to the writer and the queue are one line of increasing IDs,
  so whatever is taken from the middle of the queue, the head is later than
  all that was given to the writer;
* `Truthful`: an answer is given once, and is *not sent* exactly if the ID was not given to the writer;
  whatever is queued, and the active one if somebody waits, is unanswered;
* `WritesPending`: an admitted write is settled, or lost with its session or the broker, or still
  queued or active. `WritesClosed`: a closed session has no queued write, a drained one none at all.
  A closed session never opens again, so what was settled when the drain was answered stays
  settled.

Of the receipts: `Windows` and `Returnable` (together `CreditsCanReturn`), `Credits` (a frame that
was delivered is acknowledged, lost, or has its receipt, on a route that still has the
owner it was delivered to) and `RoutesClosed`. `Hand` ties the broker to the writer process: with
nothing active, nothing is on its way to the writer, so the next write cannot overtake.

The handlers of the broker are compositions of functions on its state, and so is the proof: one lemma
for each function says what it keeps of `Working` (the invariant of a broker that is up) and
that routes only go forward (`Onward`), and the lemma of a handler chains them.
`WithoutFacts` in `OrderLemmas` is what they need of the queue: what is left is in
order, and nothing is missing but what was to go. It is proved from the recursion by the least position
at which it fails (`Climb`), for queues of every length.

### Fabric client

Assumed: slots, send limit and submissions are numbers, the first two positive; `None` is
neither a caller nor a pending entry. The wire carries a transaction ID, the property speaks of
requests, so `RepliesMatch` is not inductive. `IInv` adds: a slot in use names an unanswered
request of that ID (`Slots`); a submission on its way is in one place, the broker's queue, the
device, or one message that settles it (`Unique`); and while the proxy is up each such request
holds its slot (`Holds`). So the reply that arrives for a slot is the reply to the request that
holds it, and a rejection that comes late finds another ID in the slot or its own. A proxy that is
down holds nothing and answers nothing. `FreeSlotIsFree` shows that the search of
`free_slot/3` ends at a free slot; `FinishKeeps`, `SendsKeep` and `FailKeeps` carry what
the handlers share, and `TakeFacts` what taking a message off the mailbox changes.

`SlotHeldWhileOpen` also says that no slot leaks, and that needs the other direction
(`Accounts`): while client and broker run, every slot in use names a submission under way (`Used`).
A rejection frees its slot only if the client still waits for that send, so the client must
wait for whatever is queued, being written or reported (`Expected`), and each submission must be in one of these
places and be reported once, *not sent* exactly if the broker refused it (`Posted`). A broker that is gone
accounts for nothing: it took messages with it, and the client closes when it hears of it.

### Statem scheduler

Assumed: sizes and limits are numbers, `PendingCalls` among them; the entries and offers of callbacks
are what the behaviour allows (`prepare_entry_actions/4` raises for the others, which is the
entry `Raise`); `None` is neither a collection nor a completion. Nothing is assumed of the phases, nor
of what callbacks choose. There are four invariants, by what they are about.

* `Queueing`, for `InputsAccounted` and `NothingStranded`. That inputs are dispatched in order is
  not inductive: the next one must be later than all that were dispatched since the phase was
  entered, although postponed inputs before it stay in the mailbox. `Dispatching` says that everything
  still to be offered is later (`Later`) and that what is postponed was dispatched. A boundary empties
  both (`ConcludeBoundary`); otherwise `OldestEligible` shows that the head of what is eligible is
  before all the rest. `NothingStranded` follows because `Settle` needs an empty `Eligible`.
* `Continuing`: with a continuation pending no other turn may ask for one.
* `Collecting`, for `CompletionExact`. The property speaks of the completion, and what it holds was gathered
  over many turns and phases: `ReductionTallies` and `GatherTallies` say what an open collection
  has accepted, how many are missing, and that no member was counted twice, and `Holds` what the last
  one makes of it. A value must be new for the count to go up by one. Values are the IDs of inputs,
  accepted ones were consumed, and by `Queueing` an input that is dispatched was not.
* `Calling`, for `KeepsOwnership`: a handle was issued once, for one call; the calls in the book differ,
  were consumed and are not answered; an answer is the one that was meant; calls that wait are in the
  mailbox and not postponed. So the oldest eligible input, if it is a call, is the oldest call
  although casts before it may be postponed, which is the order that `CallOwnership` asks for.

The refinement is shown in the same pass as `Calling`: each lemma of a turn also proves `OwnerStep`,
that the turn is a step of `CallOwnership` or a stutter. A stale handle answers nobody (`ReplyKeeps`),
since the book's next handle is above all that were issued.

### Generic server

Assumed: `PendingCalls` and the number of messages are numbers. `Serving` is `Calling` for a server
that postpones nothing: messages are queued in the order of their numbers, a call was taken exactly
if it left the queue, and what was taken is owed or answered. What the reply book guarantees is proved
once for both schedulers (`AdmitKeeps`, `CompleteKeeps`, `ReplyKeeps`, over any book that
keeps `BookKept`), and `ServerViews` says what one message does to the state that `CallOwnership` sees. The
oldest call is the head of the queue when the head is a call.

### Packet link

Assumed: at least one port, endpoint IDs that are distinct, packets of at least one
beat. `LinkInv` adds to the types: `InStep` (the ingress is in the mode the egress has put it
in), `Captured` and `Counts` (what the captured beat is, and that sources count their
beats), `Arrived` (what has been delivered is what the owner has given), and
`Waits`. The bound is the conjunct `waited[p] + Distance(p, Cursor) <= Ports - 1`: the
lemma `CandidateIsNearest` says that the two scans pick the requester nearest to the
cursor going round, and `PassingComesNearer` that whoever is passed over comes
nearer by at least one. `PacketsWhole` follows from `Arrived`. The repository
checks the circuits with Yosys for 1, 2, 3, 5 and 8 ports; these theorems are
about the model, for every number.

### Hardware server

Assumed: there is a slot, sequence numbers are positive, and `None` is not a retained call. Nothing is
assumed of the worker: it may answer with any handle, own or stale, at any time. The host may break its ID
rules, so two calls may be open on one ID, and then only their numbers tell them apart.
An error closes the oldest open call of its ID, whichever the driver meant, so the danger is an error that hits a
call some slot still holds: its handle would later answer nobody. `CallsBalance` counts, and a count does
not tell which call was closed. `IInv` says it call by call:

* `Arriving`: frames are queued in the order of their numbers;
* `Waiting`: an open call is in the queue, or is older than all that are queued on its ID;
* `Retaining`: a handle was given to one call only; a live handle stands for an open call, and a call
  that is open on the same ID and later is still in the queue or was swallowed. So of the calls on its ID that the driver took, a
  slot's is the last that anybody still hears of;
* `Replying`: each answer on its way meets an open call that no slot holds, and `Meets` says
  that no more answers are ahead of it than older calls;
* `Balanced`: `CallsBalance`, and what it needs of `swallowed`.

The proof counts sets against queues: `OlderEnough` finds the call that an answer closes,
`LaterBound` bounds the calls after it, and `ClosingFacts` carries `Meets` over the removal of the
oldest. The freshness of handles follows from `Retaining` and the sequence, which stops before it wraps.

### Lease

Assumed: the names of the registry's states are not leases, and `Nothing` is neither a lease nor an
entry. `ExclusiveDescriptors` says less than an induction needs. `IInv` adds: each
worker of a lease that was handed out is either still counted by the stored
reservation or done (exited, without its descriptor) (`Guarded`); a good
confirmation under way is true (`Truthful`), so a reservation forgets a worker only when
it is done; stored reservations share no key (`Disjoint`); while the registry is
up, its table agrees with the stored one but for the status (`Agreement`), so what
`reserve/5` compares against is what survives a crash; a confirmed lease is gone for good
(`Gone`). `ShapeKeeps` and `StatusKeeps` carry every step that changes only a status;
`WorkerStepKeeps` every step of a worker.

### Build executor

Assumed: bundles are outputs, a recipe has at least one stage, an output has inputs. For any
number of builds, stages, upgrades, edits and damaged files. None of the three properties is
inductive: they speak of what is installed, and what is installed next is in a
build's private record. `IInv` therefore says what every build knows of itself (`Knows`), as
operators of its record and the shared state it was learnt from:

* `Filled` and `Chained`: which fields a step has filled in, and that products continue one another from the snapshot;
* `Dated`: the compilers a build has met are ordered. The plan's is no newer than the one hashed at the start, and
  everything it ran or reused lies between that one and the present. So when the check after the last
  stage finds the first version still installed, all of them are that version, cached stages of
  other builds included; the same argument makes the compiler that really ran the one of the key;
* `Worked`: the bytes in the attempt directory are a run of the key's compiler on the key's input;
* `Bound`: what a bundle copied is a sealed manifest; `Assembled` and `Placed`: its release is what it built,
  and is installed (or was damaged since) before the link can name it;
* `Held`: its products are still the bytes of their entries, or an entry was damaged.

A step of one build changes its own record and only adds to what others rely on (`StepKeeps`,
`PrivateKeeps`, `EndKeeps`); a step of the surroundings moves time and damage forward
(`SurroundingKeeps`, from `DatedLasts`, `BoundLasts`, `PlacedLasts` and `HeldLasts`).
`AdvanceKeeps` is the one place where a stage's bytes join the chain, for reuse, adoption and installation alike.
That versions only grow is part of the model (section 2) and is what `Dated` rests on.

### Regression runner

Assumed (`RecipeAssumption`): a table stands for commands, a compilation demands no product file and
is no row of a table, commands end in the ways of `Ending`, and STAGE is not a case. For any cases and recipes, any
number of runners with one STAGE, of one case or several, rows of any number. The invariant is indexed by stage directories, not by
cases: `StageTurnover` says what a step in one directory leaves of the others, where `Made` and `RemoveStage` reach
the directories around and inside it. A receipt says *passed* long after the
reasons were seen, so `RunnersInv` says what a runner knows (`Knowledge`) as an operator of its record,
its stage and the compilations that succeeded:

* `OneOwner`: of two runners that made the logs directory of a stage, one is gone. Nobody else
  writes there, which is why `OwnerKeeps` may change the stage freely, and the one
  fact a runner in front of `mkdir` relies on is that no logs directory means no leftovers (`OpenKeeps`, `LogsKeep`);
* `Recorded`: the receipt on disk is the runner's own list of rows, with one log entry each;
* `Course`, the recorded entries followed by what is left to do, is in recipe order from the first
  receipt on. Beginning a step moves it from the one to the other (`CourseStays`), and a table that becomes its
  rows keeps the order (`TableExpands`), however many there are;
* `Produced`: every product in the stage is of this attempt and of a step that wrote it. With the order
  of the course no two steps have one place, so the file a step finds by name is its own
  (in `JudgeKeeps`), although the code looks for the name only;
* `Proved`: each step behind the runner ended as its case demands. The compilation of the BEAMs leads
  the course of the first case (`Leads`), so each later case was reached through it.

`StageSound` carries the truth of a finished receipt through whatever happens to the stage later.

### CI selection

Assumed: documentation is among the paths (`ProseAssumption`); fixtures are no
documentation and the group "test" is known, which `load_inventory` and `plan` require
(`InventoryAssumption`); and what every case reads is neither a listed fixture nor documentation
(`SharedAssumption`, the rule of `regression_inventory.py:1` that "only
enumerated fixture consumers may narrow coverage"). The last one is not checked by the code: it is what a
reviewer of the inventory has to see to.

The argument is that of two trees. `PassedOver`: what a case reads that the selection passed over did
not change. `SameSight`: then, unless documentation became executable or a link, the case reads the same and
gives the same result. `CommitsAgree` and `WorkAgrees` find that condition in what `changed_paths` and
`paths_since` return, for a working tree through the commit in between: an entry may change there and change
back, and is selected for it all the same. `Planned` remembers which comparison a run was planned from until its
verdict, whatever is pushed, cancelled or evicted meanwhile.

### What is only model-checked

Liveness, everywhere: TLAPS has no rule for `ENABLED` of these actions, and fairness
needs it. One refinement: `ImplementsQueue` maps slots to a sorted sequence, whose induction over
length the provers cannot do. `DiagnosticsUseful`, whose budget is a fold over the files, and the
invariants of the pure tools in `MCTools`: their recursive algorithms are compared with their
definitions on bounded inputs. Of recursive definitions only `Without` is proved about, with its
induction spelt out.

## 7. What is not modelled, and the plan

### Not modelled now

| Part | Why |
| --- | --- |
| Application framing, spatial router, arbitration, debug circuits | next modules, below |
| Debug client | a session over `FabricClient`; its decoding is data only |
| Wait analysis, topology expansion, phase analysis and entry outcomes of the XLS backend | sequential algorithms without state: to be written as operators and compared with reference definitions over bounded inputs |
| RAM-backed reply book of `hls_reply.x` | the register version is modelled; the RAM adds latency between lookup and release |
| Proxy path of `hls_gs`, `hls_debug` above the client | encoding and decoding around `FabricClient` |
| Codecs and numeric types | pure data; candidates for bounded comparison of the two numeric models |
| Compiler frontend, code generation | syntax and text: nothing concurrent, and covered by the repository's differential tests |
| Toolchain (Erlang) | command lines and files; the atomic publication of a bundle is a candidate |
| Regression recipes, audits and measurement scripts of `src/tools` | lists of commands and text scans: no state, and nothing that an order of events could break |

Inside modelled parts: statistics and `info`, payload contents, the casts that a phase's entry
publishes, encoding errors, and the wording of errors; in the tools command lines, the
syntax of manifests and inventories, drawing, generated text, and the digests themselves.

### Plan

In this order; each item names what it is for.

1. **`HostSession`**: `FabricClient` composed with `HardwareServer` instead of its abstract
   device. Shows that the two halves of the transaction contract fit: the driver
   answers each ID once, which is what the client assumes.
2. **`DebugRoute`** (`hls_debug_route.v` with `hls_trace_store.v`): a management reply must use the
   route of its request although a later request is waiting; a trace that is frozen
   is read back whole.
3. **`FrameDecoder`** (`axis.x`): length checks and the drain of a rejected frame. The
   property: after any malformed frame the next header is read as a header.
4. **`SpatialRouter`** with the frame multiplexers: one full child stops its
   siblings; what may and what may not wait for what.
5. **`WaitCycles`** (`hls_topology_wait.erl`): the search against the definition of a cycle in a
   graph, over all small snapshots.
6. **`Topology`**: expansion of families, uniqueness and coverage of endpoint names.
7. **`PhaseAnalysis`**: the backend's analysis of phases and entry outcomes, against the
   runs of `Statem` with the same callbacks.

Abstract specifications still worth stating: the broker as an ordered channel that
answers sent, not sent or unknown, which `Fabric` implements and `FabricClient`
uses in place of its own abstraction; the debug session as an atomic snapshot.

Theorem still worth proving: `DiagnosticsUseful` of `CiDiagnostics`, whose budget is
a fold over the files of all stages.

## 8. Running it

From this directory, with TLC and TLAPS on the path:

```
tlc -workers 2 -config MCFabricLive.cfg MCFabric.tla
tlapm FabricLeaseProofs.tla
```

`PROJECT.json` lists every run with its module and configuration. The longest
takes less than three minutes on two cores. A mutant listed there replaces a definition by the
operator above it; the run it names then reports the property violated.
