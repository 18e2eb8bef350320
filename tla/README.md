# A TLA+ development of django-litefs

The repository integrates LiteFS (replicated SQLite, one writer) into Python web
applications: it elects a primary, forwards writes to it, guards the database against
writes on the wrong node, and reports on all this. This directory models that logic in
TLA+, checks the models on small instances with TLC, and proves the main safety results
for every value of the constants with TLAPS.

Contents: [the system](#the-system) | [the modules](#the-modules) | [runs](#runs) |
[proofs](#proofs) | [disagreements](#where-the-code-and-its-texts-disagree) |
[not modelled](#what-is-not-modelled) | [plan](#plan) | [how to run](#how-to-run)

## The system

Paths below are relative to `packages/`. `litefs/` holds the framework-free core
(`domain/` value objects, `usecases/`, `adapters/`), `py-leader/` the Raft wrapper,
`litefs-django/` and `litefs-fastapi/` the integrations.

| Component | State | Operations | Talks to |
|---|---|---|---|
| Circuit breaker `domain/circuit_breaker.py` | state, failure count, time of opening (immutable; each call returns a new one) | record failure/success, allow?, half-open?, move to half-open | write forwarding |
| Write forwarding `litefs_django/middleware.py` | one breaker per process behind a lock; per request: attempt, time read, result | decide, check the breaker, resolve the primary, send, retry, record, answer | breaker, retry policy, URL resolver, forwarding port, primary detector |
| Failover coordinator `usecases/failover_coordinator.py` | node state, health flag | poll the election, three demotions, mark health | election port, event emitter, gauges |
| Settings and cluster configuration `domain/settings.py`, `domain/raft.py`, the two `settings.py`, `factories.py` | none | read, validate, construct the election | environment, election node |
| Election node `py_leader/_raft_node.py`, `election.py` | leader flag behind a lock; the Raft library's role; members, own address, partners, quorum | construct, role-change callback, listener, count responding nodes, destroy | Raft library (PySyncObj), coordinator, split-brain detection |
| Split-brain detection `adapters/split_brain_detector_adapter.py`, `usecases/split_brain_detector.py` | none between calls; per call the list of members asked so far | ask each member, count the leaders | election node, HTTP to the other nodes |
| Split-brain middleware `litefs_django/middleware.py` | the detector, or none | refuse with 503, or pass on | detection, signal receivers |
| Database backend `db/backends/litefs/base.py` | detectors, transaction mode | detect, check primary, write | detection, primary detector, SQL detector |
| Primary marker `apps.py`, `primary_marker_writer.py`, `primary_detector.py`, `primary_url_detector.py`, `cached_primary_detector.py` | the `.primary` file of a node, a cached answer | write at start, remove at exit, read | LiteFS, worker processes |
| Probes `health_checker.py`, `readiness_checker.py`, `liveness_checker.py`, views and routes | flags | combine marker, coordinator and detection | load balancer |
| FastAPI forwarding `litefs_fastapi/middleware.py` | primary detector with or without a cache, forwarding port; the event loop | read the body, forward once, no retry, no breaker; refuse for a split brain | the other nodes, over HTTP |
| SQL detection, path exclusion | none | pure functions of a text | write forwarding, cursor |
| Binary download and installation `httpx_binary_downloader.py`, `filesystem_binary_resolver.py`, `installation_checker.py`, two commands | a file in a cache directory | download, resolve, check | network, file system, operator |
| Configuration generator and parser, mount validator, management commands | none | text and printing | operator |

**What is hard.** (1) Request threads share a breaker whose check, half-opening and
recording are separate critical sections, each with a time read before its lock was
taken. (2) The election changes in the library's thread while the coordinator and the
requests read it. (3) Detection asks the members one after the other, over a network that
loses answers, and what it finds is used later without being checked again. (4) Nodes
crash and forget their votes. (5) Transitions are written out five times, each with its
own order of election, state, event and gauge. (6) Every process of a node that runs the
Django app writes and removes the same marker file, which the requests and the probes read
in two steps. (7) A FastAPI node stands still while it waits for another node, which may be
waiting for it. (8) A binary is written in place, by several processes, and run by others.
(9) Each node has settings of its own, validated in four places. `PROJECT.json` lists each hazard at its
line with the properties that watch over it.

## The modules

| Module | What it is |
|---|---|
| `CircuitBreaker` | the breaker's methods as operators on a record |
| `BreakerContract` | abstract specification: the state machine of the class docstring |
| `WriteForwarding` | the Django middleware's threads over one breaker; EXTENDS `CircuitBreaker`, implements `BreakerContract` |
| `WriteContract` | abstract specification: what the client of a write is promised, in either framework |
| `WriteDelivery` | what becomes of the copies of a write that `WriteForwarding` sends; EXTENDS it, implements `WriteContract` |
| `Failover` | the coordinator over each election adapter |
| `RaftElection` | the election node on each node of a cluster; Raft library, network and processes are external |
| `RaftFailover` | the coordinator of a node over that cluster; EXTENDS `RaftElection`, implements `Failover` |
| `SplitBrain` | detection, middleware and cursor over that cluster; EXTENDS `RaftElection` |
| `PrimaryMarker` | the `.primary` file of a node and the processes that write and remove it |
| `Node` | requests and probes that look at that file; EXTENDS `PrimaryMarker` |
| `FastForwarding` | the FastAPI middlewares on nodes that forward to each other; implements `WriteContract` |
| `Installation` | the binary: download, resolver and check, in several processes |
| `Membership` | from the settings of each node to its place and its quorum in the cluster |
| `WriteForwarding_proofs`, `Failover_proofs`, `RaftFailover_proofs`, `SplitBrain_proofs`, `Node_proofs`, `FastForwarding_proofs`, `Installation_proofs`, `Membership_proofs` | the theorems |
| `MCWriteForwarding`, `MCWriteDelivery`, `MCFailover`, `MCRaftFailover`, `MCSplitBrain`, `MCNode`, `MCFastForwarding`, `MCInstallation`, `MCMembership` | instances for TLC |

Definitions whose names start with `Bug` are mutants: a plausible mistake in the definition
that follows them. Nothing uses them; a run with the mutant in place of the definition
violates the property `PROJECT.json` pairs it with, which shows that the property sees the
code.

### WriteForwarding

A step is what a thread does between two points where another thread can act: one
acquisition of `_circuit_lock`, one call of the forwarding port, one sleep. `pc[t]` is where
thread `t` is: `check` and `half_open` are the two locked sections of `_forward_request`,
`resolve` the URL, `send`/`await` the port call, `record_success`/`record_failure` the
locked sections of the retry loop, `backoff` the sleep. `now[t]` is `current_time`: it is
assigned before the lock is asked for (`StartForward`, `Fail`) and used under it (`Admit`,
`MaybeHalfOpen`, `TellFailure`), so the clock and the other threads may move on between.

`PortResults` is what the port may do: a response that is no gateway error (of any status),
a gateway error (502, 503, 504), a transient or a permanent error among those the loop
catches, or `httpx.RequestError`, which it does not catch. `Resolutions` is what the
resolver may do: a URL, none, or an exception. `__call__` up to the decision (enabled,
method, excluded path, primary) is the choice between `HandleLocally` and `StartForward`: a
detector that fails counts as a replica, so any request may go either way.

The history variables `sends`, `recorded` and `streak` are read by no action;
the properties compare the code's state with them.

### WriteContract and WriteDelivery

What a client can rely on is about the write and not about the middleware, so it is stated
by itself: `told[w]` is what the client of `w` was told and `executions[w]` how often an
application has executed it. A success is told of a write that was executed (`ExecuteHere`,
`Succeed`); a refused write was not (`Refuse`) and will not be (`ExecuteThere` asks for it);
of every other answer, `GiveUp`, nothing follows; and nothing is executed more often than
`MaxExecutions`.

`WriteDelivery` adds to `WriteForwarding` what its port hides. Every attempt (`SendCopy`) is
a copy of the write, which the primary, external, executes while its sender waits (`Serve`),
after the sender has given it up (`late[w]`, `ServeLate`), or never. An answer that is no
gateway error comes from the application (`AnswerReturns` asks for `served[t]`); any other
end of an attempt says nothing of its copy (`AnswerIsLost`). A write carries no key, so that
each copy counts: the contract holds with `MaxRetries + 1`. The circuit-open and the
unknown-primary answers are refusals; 503 after the retries, a gateway error passed on and
an exception leave the client in the dark. In `FastForwarding` the same contract holds with
one execution; there a split-brain answer is the refusal.

### Failover

A step is what a method does up to its next access to something that others change: read
the election (`CoordinateTransition`), compare with the state (`Decide`), assign
(`Assign`), emit (`Emit`), write the gauges (`UpdateStateMetrics`). The demotions share the
last steps, skip the gauges and call `demote_from_leader`, which changes only the in-memory
adapter. `port` is the adapter: `raft` changes at any time and has a quorum, `static` never
changes, `in_memory` (the adapter of `py_leader/raft_leader.py`) is told.

The class leaves it to its callers to synchronise themselves (lines 50-53, which name the
health flag). `Serialised` says whether they do: `MayCall` then lets one in when no other is.
`NewProcess` is a process that ends, in the middle of a method too, and the start of its
successor, whose Raft node leads nothing (`_raft_node.py:49`). The election may change before
the coordinator is constructed (`Construct`) and before the constructor looks at it again for
the gauges (`UpdateStateMetrics`); methods are called when `constructed`.

### RaftElection and SplitBrain

`role` is the Raft library's state of a node and `is_leader` the flag of
`LeaderElectionNode`. `SetState` is the library moving a node to another role and calling
`_handle_state_change` in its own thread; the node takes no further step of Raft until the
callback has returned (`HandleStateChange` to the release of the lock, `NotifyListener`
after it). Of Raft itself only what the code relies on is modelled: a candidate that reaches
a majority of nodes that are not leading may win, a leader may step down or may not have
heard that it was voted out. There are no terms and no votes, so two leaders at a time are
possible more often than Raft allows; the safety properties hold nevertheless. `Partition`
cuts a set of nodes off, `Crash` and `Restart` lose all of a node's state, since no journal
is configured.

`RaftFailover` is `Failover` with `elected` replaced by the flag of the node `me`: `Poll`
and `Construct` read it, `ProcessEnds` is `Crash(me)` and a `NewProcess` without a
coordinator. `GiveUp` is a demotion, whose `demote_from_leader` does nothing here. `synced` is a history: the flag was up to date
when it was last polled, and leadership has neither changed nor been given up since.

A request arrives on a node, runs the middleware's detection if there is a detector, then
the cursor's, then the primary check, then the write. `index[r]` is the position in
`cluster_members` and `found[r]` the members that answered that they lead. A member that is
this node is asked by its flag; another one is reached and answers with its flag
(`QueryAnswered`), or is listed as not leading (`QueryUnanswered`), or ends the detection
with an exception the adapter does not catch (`DetectionFails`), after which the middleware
lets the request on and the cursor does not. That the answer travels is not a step of its
own: listing it later touches nothing but the request. The primary check reads the marker
file, which nothing of the election writes, so it may say anything. `Abandon` is the death
of a worker; a node crashes when no request is on it, that is, after it abandoned them.

`steady[r]` and `sometime[r]` are histories: the nodes that led at every, and at some,
moment since the detection began; `answered[r]` are the members that answered it. The code
tells members apart by host name, so the model assumes one member to a host (the code's
check for duplicates compares addresses, and would take two ports on one host).

### PrimaryMarker and Node

A step is what a process does up to its next access to the file system. `Start` to
`Register` is `LiteFSConfig.ready` (`apps.py`): validate, look whether the marker exists,
read it (a log line depends on it), open the file, which empties it, write it, register the
clean-up; `Exit` and `RemoveMarker` are the clean-up. Every process that imports the app
does this, a management command as well as a server worker. `linked` holds the processes
whose open file is still the one with the name `.primary`: after an unlink the rest of a
write goes nowhere. Any process may crash anywhere, any write may fail, and the mount may
come and go (`MountChanges`). With Raft nothing in the packages writes the file, and
`LiteFSWrites` (external) does. `config` is everything the settings can mean for a node;
`"unset"` is also what leaves a node in dev mode for lack of settings. `leftover` and
`removed` are histories: a crash or a failed call is to blame for the marker that is there;
the marker was taken away since it was last written.

In `Node` the processes of `Servers` serve requests, each one at a time: a write goes
through the decision of the Django middleware (`StatMount`, `StatFile`, `Resolve`: the
detector, then the URL resolver), the probes through the three Django views or the FastAPI
routes. Each look at the mount, at the marker and at the coordinator is a step, so that all
of the above may happen in between. The Django views construct a coordinator for each
request, over a new election, and so `CoordinatorStates` is decided by the settings alone
(a Raft node just made is not the leader); FastAPI is given one that lasts.
`facts[s]` is a history: what was so at some moment since the request of `s` began.

### FastForwarding

A request is a client's write after some hops (`<<client, hop>>`), since a node that
receives a forwarded write handles it like any other. `loop[n]` is the request for which
the event loop of `n` stands still: the forwarding call is synchronous, so that from `Send`
to `Respond` or `Timeout` the node runs nothing else. `Arrive` to `Execute` are the two
middlewares: alarm, local handling, forwarding; the detector, whose answer may be anything
at any time, is behind a `CachedPrimaryDetector` on the nodes of `cached`. The body arrives
in `Chunks`, each an `await` of `_read_body`; `ReadDisconnect` is the `http.disconnect`
message, which ends the loop like a last part. `executed` (what the application did) and
`asked` (what the detector behind a cache last found) are histories.

### Installation

A file is its two halves and its execute bit; a half holds part of the archive of a version,
of a binary that runs, or nothing. Every call to the file system is a step: one place of the
resolver (`Resolve`), the open that empties the file (`Open`), the two halves of
`write_bytes`, and the three looks of the check. `Places` are the resolver's in its order;
the last is the cache, the only one a download writes. An operator installs, removes and
chmods (`Touch`), at most `Touches` times. `held`, `seen`, `steady` and `blamed` are
histories: where a file has been ever since `p` began to look, the file that `p` judges and
whether it has changed since, and whether a download was cut short or met another version.

### Membership

Everything a node does between its settings and its election is one step of that node, since
no two nodes share state: the reader of its framework (`DjangoAccepts`, `FastAPIAccepts`),
`LiteFSSettings` (`SettingsValid`), the node id, the factory (`ClusterMembers`), the checks
of `RaftLeaderElection` (`ElectionAccepts`), its own address, partners and quorum. What
interleaves is the cluster: nodes are configured, started and stopped one by one, so that
nodes whose settings differ run at the same time. `counted[n]` are the partners that the
Raft library reports as connected (external: `Connect`, `Disconnect`); a connection may
outlive the node at its other end. A text is what is before its first colon, what follows
it, and whether there is whitespace around it or a control character in it, because that is
all that the code takes texts apart for: the node id is stripped (`ResolveNodeID`), a
hostname with either is refused (`HostnameValid`), an address is compared as it is.

## Runs

Passing runs:

| Run | Instance | Distinct states |
|---|---|---|
| `forwarding` | 2 threads, 3 requests, threshold 2, reset 1 s, 1 retry, 3 s, every port result and resolution | 219399 |
| `delivery` | 2 threads, 2 requests, 1 retry, threshold 2, every port result and resolution, 1 s | 96960 |
| `failover` | 2 callers that take turns, all three adapters, unbounded | 5950 |
| `coordination` | 3 nodes of which 2 stand for election, may be cut off and may crash; the coordinator of one of them, 1 caller; unbounded | 80190 |
| `cluster` | 3 nodes of which 2 stand for election, one of which may be cut off; all may crash; 1 request with both detectors | 297000 |
| `node` | 1 server and 2 management commands, both frameworks, all 6 configurations, unbounded | 681980 |
| `fastapi` | 2 nodes, 2 clients, 1 hop, bodies of 2 parts, time to live 2, clock of 2; two configurations | about 105000 |
| `install` | 2 processes, 2 versions, 2 places, 1 intervention of the operator | 1.4 million |
| `membership` | 3 nodes, one of them FastAPI, 19 settings of up to 4 members | 244144 |

*Bounds.* In `forwarding`, threshold 2 with 1 retry lets one request open the circuit by
itself or two of them together; a clock of 3 lets it open, time out, half-open, reopen and
time out again; 3 requests on 2 threads give a late answer after another request has opened
and half-opened the circuit. In `delivery` two requests of two attempts each leave copies
that are executed after the retry, after the answer, and while the other thread opens the
circuit; the breaker's timing is the matter of `forwarding`. In `failover` and
`coordination` nothing is bounded; a second caller of the cluster's coordinator would add
nothing, since callers take turns. In `cluster` two contenders
and one voter are the smallest cluster with two leaders at a time (one of them cut off and
not yet told); partitions come and go without bound. A second request adds no behaviour to
the properties of `cluster`, because requests do not change the cluster; the run
`unreachable_writes`, which is about two writers, has two. In `node` only the processes are
bounded: three, so that one writes the marker while a second exits and a third looks; the
two commands do the same and are interchangeable (symmetry; no liveness is checked there).
In `fastapi` the configurations are two nodes that name each other, and two that name the
second, which so names itself, with a cache on the first; one hop makes a node wait for the
other or for itself, and with two clients both wait at the same time; a clock that reaches
the time to live lets an entry expire. The clock runs only where there is a cache. A request
ends there and none follows it, so that this run and `truncated_body` are not checked
for deadlock; all others are. In `install` one intervention
at any moment is what it takes to disturb each check, and two processes with two versions
mix a file or repair it; processes and versions are interchangeable. The settings of
`membership` have each mistake that one of the checks is there for, a host with two
addresses, and clusters of two, three and four that differ from one another by one member.

Properties (each with its hazard in `PROJECT.json`):

- `CountsConsecutiveFailures`: no update of one thread of the breaker is lost to another.
- `AnswersAreTrue` (`WriteForwarding`): a circuit-open or unknown-primary answer means that
  nothing was sent; a gateway error or a 503 that the retries are used up, or that the error
  was permanent.
- `FailuresAllRecorded`: the breaker heard of every failed attempt, once.
- `ImplementsContract`: the whole middleware refines `BreakerContract`.
- `KeepsPromise`, in both frameworks: the client of a write is told a success only if it was
  executed; a refused write is not executed, then or later; copies that nobody waits for
  make no more executions than there are attempts.
- `EveryRequestAnswered` (`WriteForwarding`): a request that was taken is answered.
- `EventsTellState`, `EventsAlternate`: the events alternate and the last one tells the
  state, however the election flickers between two steps of a method.
- `PrimaryIsVisible`: the gauge never hides a primary. `FollowsElection`: polling makes the
  state follow the election.
- `ImplementsFailover`: over a cluster, with its callbacks, cuts and crashes, the coordinator
  does only what `Failover` does over a port that says anything, so that what holds there
  holds here. `StateFollowsRole`: what the free port cannot say, that state and last event
  are those of the role which the Raft library gave the node, once it was polled in time.
  `FollowsRole`: a node that stays leader is PRIMARY again and again (a demotion for its
  health is undone by the next poll), one that stays out becomes REPLICA for good.
- `FlagFollowsRole`, `ListenerHearsChanges`: between callbacks flag, listener and role
  agree, and the listener is never told the same twice.
- `AlarmIsFounded`: a request is refused for a split brain only if two members led while it
  asked. They may have led one after the other: the code cannot tell.
- `NoWriteInSteadySplitBrain`: a cursor with a detector does not get past a split brain that
  lasted through its detection among members that answered.
- `DetectionPrecedesWrite`: the cursor writes only behind its own complete detection, which
  neither the middleware's nor a failed one can replace.
- `EveryRequestEnds`: a detection ends, whatever the members do.
- `MarkerHasOwner`: a marker that nobody will remove was left by a crash or a failed call,
  and only the designated primary ever has one; so it is gone once all have exited cleanly.
- `MarkerKeptUntilExit`: the marker is whole while a process that wrote it runs, unless it
  is being written again, a call failed, or another process's exit took it away. The last of
  these is what the code does, not what one would wish (see below).
- `AnswersAreTrue` (`Node`): what an answer says of mount and marker was so at some moment
  of its request. `StaticRolesAgree`: with a static election, what answers for a primary is
  the designated node, in the state PRIMARY, and healthy if it says it accepts writes.
- `AnswersAreTrue` (`FastForwarding`): a success was executed, and a write refused for a
  split brain, here or further on, never is.
- `CachedAnswerIsYoung`: a cache answers with what its detector found less than the time to
  live ago. `EveryRequestAnswered` (`FastForwarding`): nodes that wait for each other, or for
  themselves, do not wait for ever.
- `ResolvedIsFirst`: the resolver passes over no file that was there all the time.
- `VerdictIsTrue`: what the check says is true of a file that nobody changed meanwhile.
- `TornHasCause`: a file of two origins is being written, or a download was cut short or met
  another version; downloads of one version do not disturb each other.
- `QuorumsIntersect`: two nodes that report a quorum have counted one in common, also if
  their members differ by one.
- `RunsAsConfigured`: a node whose id names the host of its own address runs there, with its
  peers for partners. `MajorityIsQuorum`: a quorum is exactly more than half of the distinct
  addresses; the mutant lets an address into the list twice.

The run of each module has its type invariant; of the modules that add variables to another
one, `WriteDelivery` and `RaftFailover`, type correctness is proved.

*Fairness.* In `WriteForwarding` and `SplitBrain` only threads that were given a request are
fair (`WF` of `Proceed`): the locks are held for a moment, port and HTTP calls have
timeouts, sleeps end. In `Failover` a process constructs its coordinator, a method that was called returns, and
`coordinate_transition` is called again and again: its docstring makes polling the caller's
part, and nothing in the packages does it (see the hazards), so `FollowsElection` is a
promise to an application that polls. `RaftFailover` asks for the same, and for the Raft
library's thread to run its callback to the end. In `FastForwarding` each request that arrived goes on
(`WF` of its `Continue`): a loop runs what is ready, clients send their bodies, and a
forwarded call times out (`httpx_forwarding.py:42-47`). No fairness is assumed of arrivals,
disconnects, the clock, elections, partitions, crashes or restarts. `Node`, `Installation`
and `Membership` promise nothing that must happen: a process of theirs may be killed at any
step and is not started again by the code; they state no fairness.

## Proofs

All theorems hold for every value of the constants under the named assumptions of the
modules (a positive threshold and timeout; a finite cluster; one member to a host in
`SplitBrain`; places that are different from one another; a body of at least one part and a
positive time to live; settings that name texts).

- **WriteForwarding.** The invariant adds to the checked ones what makes them inductive: a
  thread's `now` is never in the future, and where a thread is in the loop fixes how
  `attempt`, `sends`, `recorded` and `result` are related (the number of attempts made is
  `attempt`, or one more from the call on). `TypeStep`, `BreakerStep` and `LoopStep` carry
  its three parts separately. `ImplementsBreakerContract` maps the initial state and each
  action: the locked sections to `ToldFailure`, `ToldSuccess` and `Probe`, the tick to
  `Pass`, everything else to a stutter.
- **WriteDelivery.** That its steps are steps of `WriteForwarding` or stutters
  (`DeliveryImplementsForwarding`) brings the invariant above with it. `OpenInv` adds that
  the copies of a write in progress are the attempts made: executed, perhaps still to be
  executed, or waited for; `Distinct` that no two threads work on one write; `WriteInv` that
  a write has at most `MaxRetries + 1` copies and a refused one none. A step of a thread
  touches one write (`OwnStepKeeps`), so that each action needs to look only at its own.
  `PromiseKept` maps each step to a step of `WriteContract`; a refusal can be mapped because
  a request that was not let through has made no attempt (`LoopInv`).
- **Failover.** Type correctness for any callers. The safety results need an invariant that
  ties `pc` of the caller that is in a method to state, last event and gauge. They are
  proved for any number of callers that take turns, or for one (`OneAtATime`): at most one
  caller is then in a method. Callers that do not take turns make the code emit redundant
  events, and its docstring leaves synchronisation to them.
- **RaftFailover.** `ImplementsFreePort` maps every step of cluster, process and coordinator
  to a step of `Failover` or a stutter: a callback of the library is an `ElectionChanges`.
  The invariant of `Failover` is then carried over by the refinement (`CoordinatorProofs`
  instantiates its proofs), and `StateTellsRole` joins it with `FlagFollowsRole`'s invariant
  for one node: flag and role agree unless a callback is on its way, and `seen` is the flag
  as long as `synced` says so.
- **SplitBrain.** `CallbackInv`: where the callback of a node is fixes how flag and listener
  stand to the roles before and after the change. `RequestInv`: during a detection
  `steady \subseteq Leaders \subseteq sometime`, every member that answered and led all
  along was found, and none was found that never led; past it, at most one was found. A step
  of the cluster preserves this since it only shrinks `steady` and grows `sometime`; a
  question preserves it since the member asked is in `Leaders` exactly if its flag is set.
  `AlarmsFounded` and `NoWriteSteady` then follow by cardinality of finite subsets.

- **Node.** `MarkerInv`: where a process is says what it has to do with the file, and every
  marker that is there is answered for by an open file, a clean-up to come, or a blame.
  `MarkerHasOwner` is not inductive by itself, because a process that is about to write
  must be on the designated primary. The requests touch none of this and need `ServerInv`:
  where a request is says what it has seen (`RequestInv`), and its answer is covered by
  `facts` (`AnswerInv`), which grow with every step while the request lasts.
- **FastForwarding.** `ChainInv`: of the requests of one client, only the last that was
  reached can still execute the write or send it on, and those before it have sent it or
  given up (`Chain`); what was executed is the last (`ExecutedIsLast`), and a refusal leaves
  nobody who could execute (`RefusedIsOver`). A time-out releases a request that has sent
  its write on and can only be answered, which is why it does no harm. The bound on the age
  of a cached answer follows from `cache = asked` (`CacheIsAnswer`). `PromiseKept` maps the
  execution and the answer at the client's own node to steps of `WriteContract`, where
  `told` and `executions` are read off `answer` and `executed`.
- **Installation.** Types are inductive only with `Placed` (who writes has opened a file).
  `ResolveInv`: no place that was passed held a file throughout, since such a file would
  have ended the search. `VerdictInv`: what a check has found so far about an unchanged
  file. `TornInv`: unless something is to blame, all writers write one version, and the
  first half is theirs or will still be written.
- **Membership.** `IInv`: each status tells what the settings must have been
  (`StatusExplained`), a running election is what its settings make of it (`RaftAsStarted`),
  and only partners are counted. Quorums then intersect by counting: two sets of more than
  half of two clusters one member apart (`MajoritiesIntersect`), for clusters of any size,
  from the cardinality theorems of the library.

*Proved and not among the properties of a run*, because a deeper property that is one says
nearly as much: `BreakerConsistent` (the fields of the breaker fit together and its time is
never in the future; `ImplementsContract`), `ExecutedAtMostOnce` (a write that is forwarded
to and fro is executed once; `KeepsPromise`), `ReadersAgree` (both frameworks come to the
same, up to the sections FastAPI does not read), and the types of `WriteDelivery` and
`RaftFailover`.

*Only model-checked:* the liveness properties (both `EveryRequestAnswered`,
`FollowsElection`, `FollowsRole`, `EveryRequestEnds`): liveness under fairness and ENABLED
are beyond this prover, as is induction over recursive definitions. The refuted properties
are about single behaviours and need no proof. Every other property of a passing run is a
theorem.

## Where the code and its texts disagree

Each has a run that expects a violation; its trace is the explanation.

| Run | The text | The code |
|---|---|---|
| `promotion_unguarded` | `failover_transitions.feature:8-9`: guarded by health and quorum | `coordinate_transition` asks neither; a node that stays unhealthy is promoted whenever it is elected, or again after a demotion for its health. The guard is in the test's own step (`test_failover_transitions.py:316-321`) |
| `unreachable_writes` | `split_brain_detector_adapter.py:79-81`: an unreachable node cannot write | a leader that was cut off writes after a detection that found only itself |
| `truncated_body` | `litefs_fastapi/middleware.py:292,298`: the full request body | a disconnect ends the reading, and the part that was read is forwarded without its content-length and executed |

Met while modelling and not given a run, because one line of the code shows them:

*Forwarding.* The loop catches `(ConnectionError, TimeoutError, OSError)` (`middleware.py:586`)
and the production adapter raises `httpx.RequestError` (`httpx_forwarding.py:77`), which is
none of them: a network failure leaves the middleware as an exception (`Escape`), with no
retry and no record in the breaker, though 441-442 promise the primary's answer or a 503. Any
success closes a half-open circuit (`BreakerContract`), also of a request that was let
through before the circuit opened, where `circuit_breaker.py:29` says "on successful probe
request". The retry loop does not ask the breaker again and sends while the circuit is
open, which `circuit_breaker.py:23-24` says it prevents. `max_retries` of 3 makes 4 attempts,
while `tests/features/django/forwarding_resilience.feature:70-74` counts 3; a retry that
follows a timeout may apply a write twice (`WriteDelivery` says how often at most). With forwarding but no `PRIMARY_URL` the URL is
asked of `PrimaryDetector`, which has no `get_primary_url`: the write ends in an exception
(`Resolve` in `Node`). FastAPI reads neither `FORWARDING` nor `PROXY`.

*Detection.* The middleware's detector is never built, because `PrimaryDetector` does not
implement the port it is checked against (`middleware.py:151`), and the backend's is None
although its docstring (`base.py:238-239`) says that one is created. `/health/status`, which
detection asks for, is served by neither integration, so that every remote member counts as
not leading.

*Roles.* Demotions do not update the gauge of "current node state"
(`prometheus_metrics.py:48`). Nothing connects Raft leadership to the `.primary` marker.
`PrimaryDetector` takes the marker's existence to mean "this node is primary" and
`PrimaryURLDetector` takes its content to be the URL of another node. A primary that runs
loses its marker to the exit of another process, say `manage.py migrate` (`apps.py:209`), and
then forwards its writes. The in-memory `raft_leader.is_quorum_reached` is always true.

*Probes.* The readiness checker speaks of healthy nodes only (`readiness_checker.py:46-48`),
its code lets replicas be degraded (117-136). With Raft the Django health and readiness
views make a new Raft node for each request (`views.py:109`), which is never destroyed and
never the leader.

*Configuration.* `RaftSettings` wants its node id among the cluster members
(`raft.py:64-68`), `RaftLeaderElection` the host part of one (`election.py:150-153`): the
same id and members never satisfy both, and nothing converts between them. The example of `factories.py:65`, `node_id="node1:20202"`, is always
rejected, and with `InvalidConfigurationError`, not the `ValueError` that 54-57 announces.
`LiteFSSettings` accepts peers that `RaftLeaderElection` rejects later. Two times that
differ by less than a millisecond become equal in `int(x * 1000)`. `get_dev_mode_reason`
gives no reason for a node in dev mode for lack of settings, unless DEBUG is set.

*Binary.* `litefs_download` writes the `.tar.gz` of the release under the name `litefs`,
neither unpacked nor executable, although `litefs_download.py:30` says "Download and install
LiteFS binary". The advice of `litefs_check` then leads from MISSING to a download, to
UNUSABLE, to chmod, to CORRUPT; in `Installation` only what the operator installs is ever
`"ok"`. Redirects are not followed, a version with a `v` makes a URL with two, and `--force`
writes the cache while a file on `$PATH` still hides it.

## What is not modelled

- *SQL write detection* and *path exclusion*: each is one pure scan of a text whose result
  is decided by lexical detail (comments, quotes, keywords; `fnmatch` and `re`), so that an
  abstract model would have nothing left to check. Their results are free inputs:
  a statement that writes (`SplitBrain`), local or forwarded (`WriteForwarding`).
- *Dev mode* by `DEV_MODE` or `ENABLED`: it switches everything off. (Dev mode for lack of
  settings is a configuration of `PrimaryMarker`.)
- *Configuration generator and parser*, the *mount validator* beyond its verdict, the rest of
  `litefs_check` and `litefs_status`: text and printing, with no state.
- *Connection parameters, transaction mode and executescript* of the backend: sqlite3's.
- *Ports and fakes*: protocols and test doubles; what they promise is in the modules that use
  them. The in-memory election's membership: nothing in the packages constructs one.
- *`RaftSettings`*: nothing in the packages constructs one.
- *Timers and `QuorumPolicy`*: values that nothing reads, or that every caller leaves at its
  default. `success_count` and the gauges of split brain and health: written, never read.
- *Headers, bodies, log messages, response texts, the length of a back-off* (only that it
  ends), *checksums and sizes*.
- *Raft inside PySyncObj, LiteFS, sockets*: external, modelled as far as the code relies on
  them. That a port is already bound by the Raft node of an earlier probe is part of
  `ConstructRaftFails`.

## Plan

Done, in this order: `CircuitBreaker`, `BreakerContract`, `WriteForwarding`; `Failover`;
`RaftElection`, `SplitBrain`; `PrimaryMarker`, `Node`; `FastForwarding`; `Installation`;
`Membership`; `RaftFailover`; `WriteContract`, `WriteDelivery`; and the proofs of each.

Open:

1. What survives of `Failover` with callers that do not take turns: the state is one that
   the election had, though the events may lie.
2. Detection as the refinement of an abstract one that reads each member once, at some
   moment between its start and its end; `steady` and `sometime` say this by invariants.
3. Abstract specifications of the marker and of the installation, whose invariants name
   causes (`leftover`, `blamed`) that a contract could state as steps.

## How to run

    tlc -workers 2 -config forwarding.cfg MCWriteForwarding.tla
    tlc -workers 2 -config delivery.cfg   MCWriteDelivery.tla
    tlc -workers 2 -config failover.cfg   MCFailover.tla
    tlc -workers 2 -config coordination.cfg MCRaftFailover.tla
    tlc -workers 2 -config cluster.cfg    MCSplitBrain.tla
    tlc -workers 2 -config node.cfg       MCNode.tla
    tlc -workers 2 -config fastapi.cfg    MCFastForwarding.tla
    tlc -workers 2 -config install.cfg    MCInstallation.tla
    tlc -workers 2 -config membership.cfg MCMembership.tla
    tlapm Node_proofs.tla

and likewise for the other proof modules. The longest run is `install`, of about a minute
and a half. The other configurations are named after the runs of `PROJECT.json`, which also
names the module of each. The modules need the TLA+ standard modules, the community modules
`Functions` and its like, and the library of TLAPS.
