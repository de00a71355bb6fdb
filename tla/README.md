# Verification of the model broker

The model broker (`src/src/model_broker`) gives several users of one machine access to
language models that do not all fit on its GPUs at once. It admits a chat request when its
model is loaded, and otherwise unloads the models in the way, if they are idle, and loads
the one asked for. This directory holds TLA+ models of the broker, the runs of TLC that
check them on small instances, and proofs checked by TLAPS.

## 1. Inventory

| Component | State it keeps | Operations | Interacts with |
| --- | --- | --- | --- |
| Scheduler (`scheduler.py`) | records of loaded models (`LoadedModel`: active, queued, ready, error, leaving, last activity, decode count), problems, waiting tickets, one lock, background tasks | `admit`/`acquire`, `check_router`, `reinspect`, `join`, `place`+`busy`, `swap`, `finish_load`, `load_failed`, `record_baseline`, `track` | requests call it; it awaits the adapters; tasks and requests share the records |
| Resource claims (`catalogue.py`) | the immutable catalogue | preset parsing, `resource_claims`, `claims_conflict`, `max_loaded_models` | read by the scheduler |
| Router adapter (`llama.py`, `backend.py`) | none between calls | `load`, `unload`, `wait_for_state`, `model_states`, `activity`, `props`, chat | HTTP calls to the llama.cpp router |
| Managed service adapter (`managed.py`, `strata.py`) | none between calls | the same, by starting and stopping a container | the service-control client, the service's API |
| Service-control client (`servicecontrol.py`) | one connection per call | `status`, `start`, `stop` with a timeout | Unix socket to the helper |
| Service-control helper (`model-broker-service-control.py`) | one lock per service, threads; the container belongs to Docker | `status`, `start`, `stop`, each docker call with a timeout | Docker |
| HTTP application (`application.py`) | the scheduler, start-up | chat completions, lists, health, lifespan | scheduler, proxy |
| Chat proxy (`proxy.py`) | one response, the stack of resources to close | relay, watch for the client leaving | adapter, ASGI server, scheduler (release) |
| Host facts helper (`model-broker-host-facts.py`) | its socket, the last CPU sample, the NVIDIA libraries it found | `inventory`, `utilisation`, one connection at a time | its clients, NVML, CUDA, sysfs; systemd restarts it |
| API keys, events | tables read at start, log lines | lookups | - |

Hard behaviours, and what makes each component correct:

- **Scheduler.** Coroutines interleave at every await, clients leave at any await, servers
  fail or answer late, the broker restarts while servers go on. Correct means: the
  counters of a record are exactly the requests on it; a model chosen to be unloaded is
  used by nobody; a decision made after awaits holds of the present; conflicting models
  are never held together; failure paths free resources only when the server has; arrival
  order among conflicting requests; every wait ends.
- **Claims.** A variant claims what its server will use; `max_loaded_models` is at least
  the size of every set of compatible models; an ID means one model; the models of one
  service exclude each other.
- **Adapters.** An unload or load reports success only in the state it promises, and a
  lost answer is never success.
- **Helper and client.** Changes of one service do not interleave; a call the client gave
  up on may still run and must not undo a later one.
- **Host facts.** What is said of a GPU is true of that GPU although each library may leave
  something out; no client keeps the others from the helper; it survives its own end.
- **Proxy.** The admission is released exactly once however the response ends, and a client
  that leaves at the last byte is not taken for an error.

## 2. Plan

| Order | Module | What it covers | State |
| --- | --- | --- | --- |
| 1 | `Claims` | claims and conflicts | done |
| 2 | `Scheduler` | the scheduler with its servers | done |
| 3 | `Turns`, `SchedulerTurns` | what the scheduler promises, and the refinement | done |
| 4 | `SchedulerDocs` | statements of the documents the code does not keep | done |
| 5 | `SchedulerProofs`, `SchedulerSafety`, `TurnsProofs` | theorems | every safety property of the scheduler, and that it implements `Turns` |
| 6 | `ServiceControl` | client, helper threads and locks, docker calls that outlive their client, `ManagedService` on top | done |
| 7 | `Catalogue` | presets, claims, `max_loaded_models`, `router_problems`: the start-up | done |
| 8 | `Backend`, `Adapter` | `load`, `unload`, `wait_for_state` poll by poll, and the protocol they implement | done |
| 9 | `ProxiedChat` | relay, disconnect, release | done |
| 10 | `Serving` | the adapter and the chats together | done |
| 11 | `CatalogueProofs`, `ServingProofs`, `ServiceControlProofs` | theorems | every safety property of their modules |
| 12 | `HostFacts`, `HostFactsProofs` | the host facts helper; theorems | done; types, facts, CPU shares |
| 13 | `ServiceControl` as an implementation of `Backend`, up to an abandoned change | refinement, its proof | planned |

`Scheduler` and `ServiceControl` meet at a load, an unload, a survey of one service: what is
a sequence of calls in `ServiceControl` is one or two steps of the service in `Scheduler`.
`Scheduler` and `Adapter` meet in the same way at the router.

Still worth doing: `ServiceControl` as an implementation of `Backend`, which its adapter is for
the scheduler as `LlamaAdapter` is for the router. An abandoned start breaks that protocol, so
it can hold only up to one.

## 3. The model of the scheduler

### How `Scheduler` corresponds to the code

The broker is one asyncio process, so one action is the code between two awaits that can
really suspend. The state:

- `loaded`, `rec`, `problems` are `RouterView` and its `LoadedModel`s. Records have
  identities (`Records`) because the code compares identities (`load_failed`) and because
  requests and tasks keep records the view has dropped. `ready` is the event, `recent`
  says that `last_activity` is within the protection window, `moved` that the decode count
  is unknown or has changed since the last observation.
- `pc`, `want`, `on`, `ahead`, `late` are the requests: `check` awaits the lock in
  `check_router`, `try` is the loop of `acquire` (running or in `wait_for_change`),
  `place` awaits the lock or an observation in `place`, `wait` awaits `ready` in `join`,
  `active` is admitted. `ahead` is the order of the list `waiting`.
- `lock`, `stage`, `probe`, `scan` are the scheduling lock and the local variables of its
  holder: `observe` is `busy` awaiting one model's activity, `survey` is `survey` reading
  the servers, `track` is `track` awaiting a baseline. `Boot` is the start-up, which
  surveys and tracks before the first request is served.
- `job` is the background task of a record, `swap` or `finish_load`, with what it awaits:
  `unload` (the next victim is to be asked for), `drain` (waiting for `unloaded`), `load`,
  `loading` (waiting for `loaded`), `confirm` (`load_failed` asks for the state),
  `baseline`; `died` is a task that ended in an exception.
- `server` and `outside` are the servers: what they hold, and work that reaches them
  without the broker.
- `misled` and `blind` are history variables that only properties read. `misled` is set
  when a survey merges an answer that is no longer true of its server, or gives up a
  record that a swap or a waiting request still counts on. The code has these races (the
  findings below are about them), so the safety properties that they break are stated up
  to `misled`: every other way to break them is excluded, and the `Doc` runs show what the
  races do. `blind` is the set of servers not read since the broker started.

Abstractions, each on the side of more behaviours unless said otherwise:

- A waiting request may look again at any time; notifications and the poll only decide
  when. The order in which `busy` visits the models is arbitrary, and so is the order
  within a survey, except that the router is read before the services. A request whose
  `ready` is set may take its turn late.
- A call to a server may fail at any time (bounded by `MaxFaults`), having had its effect
  or not. What follows from a state without a fault (a model that is not running, an exit
  code) costs none.
- A record that nothing tracks is read by its queued requests only (`ready`, `error`), so
  its other fields are put back to `Blank` to keep equal situations equal (`Outlived`,
  `Unqueued`).
- A model is the set of resources it claims exclusively. `loading` models are adopted as
  not ready; the states `sleeping` and those the broker does not know are problems like
  any other (`flawed`).
- Fewer behaviours than the code: a load whose request was lost does not begin later
  (`ServiceControl` models that it does, for a service); no one but the broker loads or unloads models; a managed service is taken to hold one model
  of its own (it is unfit otherwise, see `ServiceApart`); models that the catalogue does
  not know are left out.

`Init` lets the servers hold any compatible models, loading, loaded or unloading, and the
broker has just started.

`Claims` gives conflicts, `Turns` the abstract promise, `SchedulerTurns` the mapping,
`SchedulerDocs` the statements of the documents that do not hold.

### The promise: `Turns`

`Turns` knows only which models are open and which model each request uses. Models that
conflict are never open together, a model in use is not closed, requests begin only on
open models, and a broker restart cuts every connection. A model is open in the scheduler
(`Open`) when its record is tracked, ready, sound and not leaving. `ImplementsTurns` says
that every step of the scheduler is a step of `Turns` until the broker has been misled.

## 4. The model of a managed service

`ServiceControl` models one service whose model is changed by stopping its container and
starting it with other settings. Three parties run side by side:

- **Docker** (`container`): its state, the model whose settings it was created with,
  whether the service's API answers, whether it is being stopped. `Ready`, `Crash`,
  `ComesBack` (the restart policy) and `Stopped` are steps nobody in this repository takes.
- **The helper** (`thread`, `mutex`; `model-broker-service-control.py`). One connection is
  one thread. A start or stop takes the lock (`Lock`), runs compose (`UpStopOld`,
  `UpRemoveOld`, `UpCreate`, `UpStart`; `StopAsk`, `StopDone`) and ends like a status call,
  with `docker ps` (`List`) and `docker inspect` (`Inspect`), each of which may fail
  (`CommandFails`). A status call takes no lock. A thread goes on when its client has left.
- **The broker** (`task`, `known`, `look`; `managed.py`, `servicecontrol.py`, and what
  `scheduler.py` does with the service): one load, unload or `load_failed` of a model that the
  broker loads or unloads, with the call it awaits and the answer (`task`); what its record
  takes each model for (`known`); and what a survey has read and not yet merged (`look`).
  `ManagedService.load` is `Load`, `LoadChecked`, `Changed`, then `wait_for_state`:
  `AwaitLoaded`, `Poll`, `Deadline`; `unload` likewise. A call fails when the helper says
  so, when the helper restarts, or at the client's time limit (`GiveUp`). That limit, 300 s,
  is longer than any one docker command may take (180 s), so a call exceeds it only if it
  waits for the lock or for a second command; the guard of `GiveUp` says this.

A survey may read the service (`SurveyRead`) and be merged (`Merge`) at any moment, also in the
middle of a task, as `reinspect` does because of a problem of another server: it replaces the
record of a failed load, and drops one that is not listed unless a task or a request holds it
(`scheduler.py:399-407`). A survey that replaces the record which `load_failed` is asking
about, or that an unload was chosen for, makes the task's record another one (`own`). The waits for
models that were found loading (`Adoption`, `AdoptionFailed`) go on beside everything else.

`task.raced`, `misled` and `overtaken` are history. An answer was given while a start or stop
whose client had left was under way, to this task (`raced`), or to anybody (`misled`): it may be
out of date before anything can be done about it (finding `doc_late_start`). `overtaken` says that
a survey's answer was merged after the end of a load that had not ended when it was given
(`Ages`): this is the race of `doc_shared`, and drops the model that runs. `HolderTracked` holds
up to these two, and no other order of calls breaks it.

Abstractions: `paused` is like `restarting` and `dead` like `exited`, because every test in
the code treats them alike; a running container with settings of no model is `Unrecognised`;
a request that serves a model only keeps its record from being dropped (a survey may drop a
ready record or not).
Fewer behaviours than the code: one load, unload or `load_failed` of them at a time (a swap
within a service unloads before it loads, but a survey that drops a record in between could
make room for a second one); a load begins while no model of the service is tracked, the
decision having been taken before; the status calls of surveys and of the waits for adopted
models have no thread of their own, take no lock, and are taken as of the moment they read (the
call that `props` makes and the one of `model_states` are one); a docker command that is killed at its time limit leaves
the container where it was, except that a stop that was asked for goes on; nobody else
uses Docker on the container.

## 5. The model of the start-up

`Catalogue` follows `lifespan` (`application.py`): the router's preset is read section by
section (`ReadSection`), the services' preset likewise (`ReadServiceSection`), the two are
merged (`ServicesRead`), a backend is opened for each server (`OpenBackends`), and the
servers' settings are surveyed (`Inspect`), again whenever a request comes while there are
problems. Any invalid section ends the start-up (`Fails`).

A section is a record of the settings that the checks tell apart, with `Absent` for one it
lacks and `Bad` for one that cannot be parsed; `[*]` (`defaults`) fills in what is absent
before anything is checked, as `defaults | section` does. `main-gpu` and `tensor-split` are
treated as `split-mode` is, by one test of the code, and stand in its place. What the text
of a preset can do wrong before it has sections is one step, `Unreadable`.

`Uses` is the reference for `ClaimsMatchUse`: which resources llama.cpp puts weights on,
given the settings. It is written from what the comments in `catalogue.py` say of llama.cpp
(all layers or none on the devices, experts to RAM by `n-cpu-moe`, a draft model on its own
device list or else the model's), not from `resource_claims`. It sees only the settings that the
code checks: one that moves weights and that the code does not look at is outside of it.

`NeverEvicts` compares `max_loaded_models`, which counts size by size over distinct sets of
resources and stops at the first size that fails, with every set of compatible models, where
compatible is `claims_conflict`, the relation the scheduler uses. `ServiceApart` shows that
the same check with `max_instances = 1` (`ManagedService.props`) makes the models of one
service exclude each other, unless neither claims anything.

## 6. The models of the adapter and of a proxied chat

**`Backend`** is the protocol of `backend.py`: what a server says of each model (`state`),
the call under way, and its result. A call may return well only if its state was met since
it began, and a model leaves `unloaded` only while a load is under way. `Freed` follows.

**`Adapter`** is `LlamaAdapter` and the router. `call[m].at` is where the adapter awaits:
`post` (the request to load or unload is on its way), `posted` (its answer is), `check` and
`checked` (`GET /models` after a refused unload), `poll`, `polled` and `sleep` (the loop of
`wait_for_state`). `worker` is the router's process for the model: it may become loaded, fail,
crash, or exit with or without an exit code, at any time between the router's taking a
request and the adapter's reading the answer. `answer` is therefore what was true earlier.
`met` is history: it is what `Backend` knows of the call. `ImplementsBackend` is the refinement.

Everything that makes a request fail (connection, status, form of the answer, a model not
listed) is `Lost`, which may come before or after the router has acted. A request that is
lost on the way is not delivered later. An unload that was accepted, and whose worker exits
with a code, is reported as failed (`state.failed` is tested before `state.value`,
`llama.py:196-200`): the docstring's "its worker crashed, the unload has already happened"
holds for a refused unload only. The scheduler then keeps the model as loaded.

**`ProxiedChat`** is `ProxiedChat.__call__`, await by await. `relay` is what the relay
awaits: the router's response (`open`), the client (`send`, and `last` for the last part), the
next piece of the body (`read`); `sent` is a relay that has only to return. `watch` says that
the watcher is in `receive()`; `line` that the router may be working on the request; then
`close` and `release` are the two steps of `resources.aclose()`. A cancellation takes
effect at an await (`Cut`), which may be later than the one the relay is in, or comes from
outside at any time (`Abort`). Closing the request may itself fail; the admission ends all
the same, as an exit stack does it.

**`Serving`** composes both with what the scheduler does to one model between them: `known` is
what its record takes the model for, `leaving` whether that record is a victim, `victim` whether a
swap has the model to unload by its name, `look` what a survey has read, `target` which model
a chat is admitted to. `Admit` is `acquire` and `join`; `Choose`, `AskUnload`, `Spare`,
`UnloadReturns`, `Place`, `Withdraw`, `AskLoad` are `place` and `swap`, where a record is chosen
also if its load had failed and was not confirmed; `AskWait`, `LoadReturns`, `WaitBeside`, `Confirm`
are `finish_load` and `load_failed`. A survey (`SurveyRead`, `Merge`) may come between any two
of them. So a record that was chosen may be replaced by one that takes requests before, or
while, it is unloaded. `UnloadsIdle` says what remains true: only victims are unloaded,
and if the record is still the one that was chosen (`leaving`), the router works on none of
its requests. `design.md` makes no such exception: see the observations below the findings.

Fewer behaviours than the code: no load or unload begins on a model until an unload of it has
returned, and a record that took a victim's place is not chosen in its turn meanwhile; that a
request waits for a record is left out, so it is admitted when the model is ready.

## 7. The model of the host facts helper

`HostFacts` models `model-broker-host-facts.py` as a process with clients. Nothing in the
broker reads it; it tells whoever deploys the broker which CUDA device is which card, and how
fast its path to the CPU is.

| Model | Code |
| --- | --- |
| `phase`, `path`: `OpenNvidia`, `PrepareSocket`, `Bind`, `Permit` | `main`, step by step: the socket left by a helper that was killed is removed, the new one is root's alone until `chmod` |
| `Ends` | any step raises, the helper is killed, or `serve_forever` raises and its `finally` removes the socket |
| `queue`, `serving`: `Accept`, `Reply` | the single-threaded `FactsServer`; the backlog of the socket |
| `client`: `Connect`, `SendByte`, `SendLine`, `Leave` | what a client does at the other end, in any order and at any moment |
| `Unauthorised`, `Malformed`, `TimesOut`, `CollectFails` | the `except` clauses of `FactsHandler.handle` |
| `Inventory`, `GpuInventory`, `CudaOrdinals`, `Lowest` | `gpu_inventory` and what it calls; any handle, address, ordinal or link file may fail |
| `Utilisation`, `previous` | `collect`, `utilisation`, `cpu_percent` |

A GPU stands for its PCI address. `now` stands for the counters of `/proc/stat`, so a share of
CPU time is the pair of times it is about. `bytes` counts a line that is not finished; `Limit`
and `Backlog` are small instead of 16384 and 5.

## 8. Runs

The runs of the scheduler use the module `MCScheduler`. Models are strings: `gpu0` and `gpu1` claim one card
each, `dual` both. Each model has two records: one tracked, and one still used by requests
or a task; a third is never needed at once in these instances because an adoption waits
for a free record, which is the only effect of the bound. Requests are symmetric.

| Run | Instance | Checks |
| --- | --- | --- |
| `partial` | three models; one request that may be cancelled anywhere; 1 fault; work behind the broker's back | `CountsMatch`, `SwapExclusive`, `LeavingIsVictim`, `DecisionCurrent` |
| `services` | `gpu0` on a managed service, `dual` on the router; two requests; 2 faults, 1 restart | `TypeOK`, `CountsMatch`, `WaitersDriven`, `ResourceExclusive`, `HoldersTracked`, `LoadAfterUnload`, `ImplementsTurns` |
| `live` | `gpu0`, `dual`; two requests; 1 fault; fairness, no symmetry | `VictimsUnused`, `ArrivalOrder`, `Answered` |
| `service` | one service with two models (symmetric), two calls at once, 1 fault, 1 restart of the broker | `TypeOK`, `HolderTracked`, `StoppedToUnload` |
| `service_live` | the same with one model; fairness | `TaskEnds` |
| `catalogue` | two GPUs; up to three sections of the router, of six IDs, and two of services; four `[*]` sections; every report of a server | `TypeOK`, `ClaimsMatchUse`, `NeverEvicts`, `ServiceApart`, `IdsKept` |
| `serving` | one model, one chat, 1 fault; fairness | `TypeOK`, `Freed`, `AdmittedWhileOpen`, `ToldTruth`, `ImplementsBackend`, `UnloadsIdle`, `CallsReturn`, `LeaverFrees` |
| `host_facts` | two GPUs, in another order for CUDA; a client with access and one without; lines of 1 byte, 3 moments, 1 fault; fairness | `TypeOK`, `FactsTrue`, `SharesRecent`, `Served`, `ComesBack` |
| `doc_*` | as small as shows the trace | one statement of the documents each, violated |

Why the bounds are enough: a conflict needs two models; a decision with several victims
needs three; a request that joins while
another decides needs two requests; every failure path is taken by one fault, and the
swaps that follow it are unbounded; that a survey fails while models are tracked takes a
second one, which made the survey necessary. The restart is at any moment of any of that.
`partial` is where a decision observes one model after another while those it has passed may
fail, and where an unload may fail before, between or after others of its swap: this takes
three models, one request at a time and one fault (it was also run with two requests, and with
two faults without outside work: 2.5 and 2.7 million states). All these properties were also run
on two models with two requests that may both be cancelled (780,000 states), and the arrival
order on three models with outside work (380,000). In `service`, a call that was
abandoned and the one that the broker waits for are two threads; two abandoned ones
(three threads) were run without a restart, and two faults with two threads (1.7 and 1.1
million states). In `catalogue`, three sections make the
largest set that two GPUs and `RAM:weights` admit, so `max_loaded_models` reaches its highest
value and every smaller one; each check of a section is failed by some value. In `serving`,
the models do not interact, so one is enough; two chats are what it takes for one to end
while another holds the model, and its safety was also
run with two symmetric chats, without and with a fault (1.6 and 4.8 million states). In `host_facts`,
two GPUs in two orders are what it takes to mistake one for the other, three moments what it
takes to keep a sample too long, and one client to wait behind another; the helper does not tell
the clients that have access apart, so one stands for all. The
scheduler's properties were also run in TLC's simulation mode on three models, three
requests, two backends, two faults, a restart and outside work, without a violation other
than those listed under findings.

**Fairness.** `FairSpec` assumes that the event loop runs every coroutine that can go on,
that responses end, deadlines pass and servers finish loading and unloading: weak fairness
of each. `asyncio.Lock` serves its waiters first-in first-out, so a request that waits for
the lock gets it although it is free only now and then: strong fairness of taking it.
Nothing is assumed of arrivals, cancellations, faults, restarts or protection windows.
In `ServiceControl`, `FairSpec` assumes that every thread goes on, that the broker's task does, that
its deadline passes, and that Docker stops a container it was asked to stop (`compose stop`
kills it after the grace period). It does not assume that a service becomes ready, nor that
a container stays up. A free lock is free until somebody takes it, and one of a finite number
of threads then has it, so weak fairness is enough.
In `Serving`, requests to the router are answered or lost in the end, because each has a
time limit (`Lost` needs no fairness of its own: the answer is the alternative); the call goes
on, and its deadline passes. Nothing is assumed of workers. In a chat, the
watcher is woken when the client has left, a cancelled relay is cut off, and what is sent to a
client that has left ends at once; the router need never answer, and a client that is there
need not read.
In `HostFacts`, systemd starts the helper again (`Restart=on-failure`), the helper goes on, and
a read ends by its time limit if by nothing else (`socket.timeout` of every `recv`; a client that
trickles meets the bound of the line). Nothing is assumed of the clients. How long that may
take is not modelled: a client that sends one byte every few seconds has the helper to itself
until it has sent 16 KiB.

`Answered` has an exception: a request that finds its obstacle gone looks again without
looking at its deadline (`continue`, `scheduler.py:364-365`), so it may try for ever, but
only while somebody else is admitted again and again.

**Deadlock** is checked in every run but `services` and `partial`: elsewhere some step is always
possible. With the two faults of `services`, or the one of `partial` whose other models give a
survey its reason, the broker can stop for good, every request waiting for a swap that has
died (the finding `doc_swap_dies`).

### Mistakes

Each property of a passing run is tested with a mutant: the body of one definition of
the modules is replaced with the definition before it that is marked `MISTAKE`, which is
what a plausible bug would make of it (a dropped counter check, a skipped `finally`, a
timeout taken for proof), and TLC must find the property violated.

### Findings

| Run | What the code does | What the document says |
| --- | --- | --- |
| `doc_protected` | `place` checks the counters again after observing, but not the last activity (`scheduler.py:457`) | `design.md:195`: active recently is busy |
| `doc_shared` | a survey drops a model whose load ended after its server was read (`scheduler.py:403-407`) | `design.md:41`: no two loaded models hold the same resource |
| `doc_swap_dies` | `del self.loaded[...]` raises `KeyError` when a survey has dropped the victim (`scheduler.py:481`); waiters hang | docstring of `swap`: ready either way |
| `doc_late_start` | a start given up by the client goes on in the helper after its container was seen stopped, and the model's resources were released (`scheduler.py:535`, `servicecontrol.py:117`) | `design.md:214`: a timeout does not show that the worker has gone; the model keeps its resources |

All need a particular order of events within a few awaits, except `doc_late_start`, which
needs docker to be slow twice.

Observations without a run of their own:

- After a failed unload nothing reads `GET /models` again (`scheduler.py:486-492`): `problems`
  stays empty, so a model that unloads late counts as loaded for ever, its requests go to a
  server that does not hold it, and its claims are never released. `design.md:214` says that it
  counts as loaded "until `GET /models` shows it gone".
- A request that is cancelled during `track` (`scheduler.py:417`) leaves adopted models that
  are still loading without a task, and their waiters hang: a second way to violate
  `WaitersReleased`. The run of that property has no cancellation and does not show it.
- A survey replaces the record of a model whose load failed even while a swap has it to unload
  (`scheduler.py:402`). The new record is not leaving, takes requests, and the swap then has the
  model unloaded by its name (`:480`) under them, although `design.md:200` says that "an in-progress
  request is never interrupted to make room for another model". `Scheduler` and `Serving` both do this
  (with two models and two requests, in 20 steps), and `UnloadsIdle` names it as its exception.
- A swap may start after `problems` became non-empty, because `place` does not look at them.
- A survey that is out of date may adopt a model beside a conflicting one that is being loaded.
- `design.md:41` says "Every variant holds at least one exclusive resource", and `design.md:134`
  that "two models of one service conflict, as they must". Two `--cpu` sections of a service
  without `exclusive` hold nothing, do not conflict, and count as one in `max_loaded_models`,
  so nothing is reported. Hence the exception in `ServiceApart`.
- A service preset may name its service `llama`. Its models are then given to the router,
  which does not have them. `NeverEvicts` is about the models of the router's own preset.

## 9. Proofs

`SchedulerProofs` proves, for any catalogue, servers, numbers of requests and records, and
any bounds (assumptions: `ClaimsAssumption`, `SchedulerAssumption`, the latter asking that
`Requests` be finite):

- `TypeCorrect`: `Spec => []TypeOK`. `TypeOK` is inductive as it stands because it also ties
  the lock to its holder: the holder's `pc` names the await its `stage` is in, which is what
  makes `Unlock` and the move of `pc` go together.
- `CountersCorrect` and `VictimsNeverUsed`: `CountsMatch` and `VictimsUnused` from the
  inductive invariant `Inv == TypeOK /\ CountsMatch /\ VictimsUnused`. Neither is inductive
  alone: that a waking request's record is not a victim follows from its being counted
  there (`CountedInUse`), and that a fresh record starts at zero from nobody being on it
  (`FreeCounts`). One lemma per action; two say what all actions share: `RequestMoves`
  (one request moves, the counters follow) and `CountersStay` (none moves).
- `ArrivalKept`: `Spec => ArrivalOrder` from the invariant `InOrder`: whoever has asked for
  the lock has no rival in line before it. It is preserved because the line in front of a
  request only shrinks and a request in line never changes its model.

`SchedulerSafety` proves the rest, under the same assumptions, from one inductive invariant:
`SafeInv == Inv /\ (~misled => Safe)`. None of the properties is inductive alone, because the
records, the tasks and the servers depend on each other; `Safe` says how:

- `Sound`, what is true at any moment. `JobsSound`: which flags a record has at each step of its
  task, and that the model of a swap is on no server before its load is asked for.
  `VictimsSound`: a victim is tracked, ready, leaving, and of one swap only. `Adopting`: the
  records a survey has yet to visit are its own. With `HoldersTracked`, `SwapExclusive` and
  `LeavingIsVictim`.
- `Uninformed`: until every server was read, no request passes `check_router` and no swap runs.
  Without it, a decision could miss a model that a server holds and the broker does not track.
- `Placing`: while `place` awaits an observation, its list misses no tracked model in the way,
  and those it has passed are tracked, ready and not leaving. This carries the decision over the
  awaits: what may happen during one leaves the list true, and whether a model on it has come
  into use is what the last look at the counters finds.
- `Attached`: the record a request is on is tracked unless its load failed, and ready once the
  request is admitted.

TLC checked `SafeInv` on the instances of `services`, and on two and three models with one fault, before it was proved
(`Placing` was too weak at first). Its steps follow the actions: `QuietSound` is for the many
that choose, drop and load nothing; `DecideSound` for the decision, `RemovedSound` and
`SwapFailsSound` for the two ends of an unload, `LoadSound` for a load, `MergeSound` for a survey.
`~misled` is used only where a survey merges: there it says that what was answered is
still true, and that no record that somebody counts on is given up. From `SafeInv` follow

- `SwapsExclude`, `LeavingIsDriven`, `HoldersKnown` and `WaitersAreDriven`
  (`Spec => []SwapExclusive`, `[]LeavingIsVictim`, `[]HoldersTracked`, `[]WaitersDriven`), which
  are parts of it or close to one;
- `ResourcesExclusive` (`Spec => []ResourceExclusive`): a server's model is tracked, tracked
  models that conflict are a swap's and its victim's, and a swap's model is on no server;
- `DecisionsCurrent` (`Spec => DecisionCurrent`) from `Placing`, and `LoadsFollowUnloads`
  (`Spec => LoadAfterUnload`) from `JobsSound` and `SwapExclusive`;
- `SchedulerTakesTurns` (`Spec => ImplementsTurns`): every step maps to a step of `Turns` or to
  none. Open models are compatible (from `SwapExclusive`: a swap's victims are leaving), and an
  admitted request uses an open one (from `Attached`, and from its being counted on a record that
  is then no victim); `Admitted` is both, so a model that is closed is in use by nobody.

`TurnsProofs` proves `TurnsTaken`: in every behaviour of `Turns`, requests in service never
use conflicting models. With `SchedulerTakesTurns` this is what the scheduler's users get.

`ServiceControlProofs` proves, for any models of the service, threads of the helper and bounds
(assumption: `ServiceAssumption`), from one inductive invariant `SInv`, which TLC checked on the
instance of `service` first:

- `LockIsHeld`: `Spec => []TypeOK`, with the lock tied to the one thread that is past it.
- `HolderIsTracked`: `Spec => []HolderTracked`. The argument is about answers. Nothing that an
  answer to a task says can be overtaken unless a change was under way when it was given
  (`Fresh`): the task changes nothing while it has an answer in hand, so `Busy` is empty, and a
  container by itself only ends or comes back. If the change was one that the broker had
  given up, the answer makes it `misled`. What a survey has read is overtaken by a load that runs
  beside it, but as long as that load has not ended, what may run unlisted is of the model of the task
  (`Current`), whose record no survey drops (`Kept`, in `Asked`). So whatever runs or may yet be
  started, for the broker or for nobody, is of a model that holds its resources (`Holding`).
- `StopsAreUnloads`: `Spec => StoppedToUnload`, from `Sole`: a change that was asked for after an
  answer that nothing raced with is the only one, until it is answered itself, and the container
  that it finds is of its own model or does not run.

`CatalogueProofs` proves, for any IDs, devices, sections and limits (assumption:
`CatalogueAssumption`, which asks for finitely many IDs):

- `RouterNeverEvicts`: `Spec => []NeverEvicts`. The heart is `MaxCovers`: the sets claimed by
  compatible models that each hold something are distinct and disjoint, so they are one of the
  groups of their size, and every smaller size has a group too (`SubsetOfSize`), so
  `max_loaded_models` does not stop before. The invariant `CInv` adds that each model of the
  router's preset holds something (`VariantHolds`), without which two such models would count
  as one, and that a limit which suits has been read of this catalogue.
- `ServiceModelsExclude`: `Spec => []ServiceApart`, from the same invariant: two models of a
  service that do not conflict, and hold different resources, are a group of two, so that
  `max_loaded_models` exceeds the one model that a service can have.
- `CatalogueTyped`: `Spec => []TypeOK`; `Typed` adds the types of what is not merged yet.
- `ClaimsAreUse`: `Spec => []ClaimsMatchUse`, from `VariantUses`, which compares a valid
  section's claims with its use, with or without devices.
- `IdsAreKept`: `Spec => IdsKept`: a section is new, and merged catalogues share no ID.

`HostFactsProofs` proves, for any clients, GPUs, chains of links, order of CUDA and bounds
(assumption: `HostFactsAssumption`: every chain has a slowest link, CUDA numbers no GPU twice):

- `FactsAreTrue`: `Spec => []FactsTrue`. The reply under way is the only state; the lemmas are
  about the operators: `LowestIsLeast`, `OrdinalIsOwn`, and `InventoryTrue` from both.
- `ConnectionsCorrect`: `Spec => []TypeOK`, inductive as it stands: that the client which is
  handled does not also wait, and that none waits twice, is what keeps "connected exactly while
  its one connection waits or is handled".
- `SharesAreRecent`: `Spec => SharesRecent`, from `LastSample`: the sample that is kept is of the
  last time it was asked for.

`ServingProofs` proves, for any models, chats and number of faults (assumptions:
`AdapterAssumption` and `ServingAssumption`):

- `AdapterImplementsBackend`: `Spec => ImplementsBackend`, and `UnloadFrees`:
  `Spec => []Freed`. The invariant `Sound` says of each model that a call in whose time the
  model is or was in the promised state is marked `met`, also if only an answer on its way
  says so, and that an unload that has met its state still finds it. One lemma for each kind of
  step (`WorkerStep`, `CallStep`, `ReturnStep`) keeps `Sound` and maps it to a step of
  `Backend` or to none; one case per action follows.
- `OpenIsAdmitted`: `Spec => []AdmittedWhileOpen`, from `Closing`, which adds that a chat at
  `release` has closed its request. `NeverUnderRequest`: `Spec => UnloadsIdle`, from `Apart`: an
  unload is asked for a victim only, and while its record is leaving nobody is admitted to it,
  whatever surveys are merged meanwhile.
- `LeaversToldTruly`: `Spec => []ToldTruth`, from `Told`: the last part is sent with `finishing`
  set, so a client that the watcher finds gone without it had left before; being served is
  never taken for leaving. `ServingTyped`: `Spec => []TypeOK`.

So every invariant and every action property that a passing run checks is proved. Only
model-checked: `Answered`, `TaskEnds`, `CallsReturn`, `LeaverFrees`, `Served` and `ComesBack`,
which hold under fairness and are out of the prover's reach. What is proved of the scheduler from
`SafeInv` is proved up to `misled`, and of a managed service up to `misled` and `overtaken`
(`HolderIsTracked`) or `task.raced` (`StopsAreUnloads`), as it is checked (sections 3 and 4).

## 10. Not modelled

HTTP formats and errors, authentication and events: text in, text out, without state that
changes. Of the host facts helper, the values that are read one by one and passed on (NUMA
nodes, memory, names, GPU utilisation), and the parsers of text. That the counters of `/proc/stat`
only grow is assumed; the kernel lets the share it counts as waiting for I/O decrease
(proc(5)), and `cpu_percent` does not bound what follows. Of presets, the characters: a section is its settings. Of
the service-control helper, its configuration, the validation of requests and the check of
the peer. Of the adapter, the parsers of answers (every fault of form is one failure) and
`activity` request by request: `Scheduler` takes the two as one observation that may fail, and
whatever happens between them is in the order of the observations of different models there.
That the settings of a service's models tell them apart is assumed (`managed.py:71-76` takes
the first that matches, and the parser does not check it).
