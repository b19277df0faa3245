# Verification of the Ashat coding agent

TLA+ models of the Ashat coding agent (the omega server and its scripts), the
TLC runs that check them on small instances, and TLAPS proofs of what holds for
every instance. Paths below are relative to the repository; `demand.rs` stands
for `crates/omega-core/src/demand.rs`, and so on:

| short name | file |
|---|---|
| `demand.rs`, `queue.rs`, `router.rs`, `proxy.rs`, `tool_loop.rs` | `crates/omega-core/src/` |
| `handlers.rs`, `main.rs`, `peer_telemetry.rs`, `alpha_status.rs`, `auth.rs` | `crates/omega-server/src/` |
| `metrics.rs`, `workspace.rs`, `config.rs`, `models.rs` | `crates/omega-common/src/` |
| `seed_slave.sh`, `github_sync.sh` | `scripts/` |

## 1. The system

A master (omega) receives chat requests, spreads them over a *row chain* of
backends (itself and its peers, beta, delta, ...) by weighted round robin, and
serves its own share on llama-server processes that it spawns on demand, one
per port ("lanes"). An admin brings new code to the master and its peers by two
HTTP endpoints and the two shell scripts they start.

| component | state | operations | correct means |
|---|---|---|---|
| **demand pool** `demand.rs` | `active` (port -> child), `idle_since`, `free_ports`, each behind its own std Mutex | `acquire` = take_idle, spawn_on_demand, wait_and_pump; drop of an `InstanceGuard`; `reap_idle` (a task, every 30 s); `kill_active` (shutdown) | a lane has one user; children are tracked; ports are not lost; every `acquire` ends |
| **wait queue** `queue.rs` | deque of tickets, Notify | `try_enqueue`, `wait`, `notify_slot_available`, `remove` | a waiter never loses its ticket to another; refusal only when full |
| **row router** `router.rs` | health cache (verdict and time per backend), running weights | `pick` = probe what is stale, collect the healthy, select; `mark_unhealthy` | picks converge on what is up; shares follow the weights; no starvation |
| **chat handler** `handlers.rs` | one task per request | `chat`: pick, local or remote, mark, pick again, retry once | every request is answered, after one retry at most |
| **local proxy** `proxy.rs` | `active_requests`, records | `forward`, `forward_streaming`, `GuardedStream`, `RequestActivity` | the counter is exact on every way out; answers are recorded once |
| **streams** `proxy.rs` | a buffer of bytes, tokens seen | `LaneAnnotatingStream`, `GuardedStream`, `CrossServerStream` | whole events in order, each with its lane, none held back; the record has the tokens that passed |
| **tool loop** `tool_loop.rs` | conversation, round, `active_runs` | `run`: think, call a tool, sweep, answer | ends within its budget; the end of one run unlists no other |
| **cross-server proxy** `proxy.rs` | none of its own | `forward`, `forward_streaming` | tells a failed connection from an error status |
| **tools** `tool_loop.rs` | files of a workspace | read, write, list, search, apply_patch, run_command, git | a patch changes what it says where it says, and an ok names what changed; it is applied when its author would expect it |
| **metrics store** `metrics.rs` | capped rings of records and events, `active_requests`, `active_runs` | record, mark_run_start / finish, active_run_etas, summary, time series | counters agree with what is going on |
| **admin endpoints** `handlers.rs` | `update_lock` | `admin_update`, `github_sync` | a peer is seeded once at a time; `ok` means deployed, or nothing to pull |
| **seed_slave.sh** | peer's binary and `.previous` | backup, copy, restart, verify, roll back | a peer ends on a build that comes up, if its copies were made |
| **github_sync.sh** | working copy, HEAD, origin/main | `pull`, `push`, `status`, `init` | HEAD is left at code that passed its checks |
| **peer telemetry**, **alpha status**, **auth**, **status handlers** | a cache, replaced by a poll | poll, post, compare, format | - |
| **agent workspace**, **config**, **models**, **log** | files | create, sweep, parse | - |

How they interact. `chat` calls `RowRouter::pick`, whose probes are HTTP GETs
that several requests may have in flight at once. Omega's requests call
`DemandPool::acquire` through the local proxy or the tool loop, which hold the
returned guard for as long as they work and give the lane back by dropping it;
the drop notifies the wait queue. All of them write the metrics store. An HTTP
client that disconnects drops the handler's future wherever it is suspended.
The admin endpoints start `seed_slave.sh` directly or through `github_sync.sh`
with `kill_on_drop`, under `update_lock`.

What is hard here: the pool's four locks are taken one at a time and never
together; a lane's port lives in a local variable across two awaits; `Notify`
stores no permit for `notify_waiters`; the health cache is written by whichever
probe comes last; the running weights persist while the set they select among
changes; a stream outlives the call that opened it; a kill of a script does not
kill what the script has started; SSE events arrive in any chunking; a patch
meets files that are not the ones it was made for.

## 2. The modules

| module | models | composed from |
|---|---|---|
| `LanePool` | what the pool promises: an exclusive allocator (`Acquire`, `Release`) | |
| `WaitQueue` | `queue.rs` | |
| `DemandPool` | `demand.rs` | EXTENDS WaitQueue; implements LanePool |
| `DemandPoolProofs` | theorems | EXTENDS DemandPool |
| `SmoothWeighted` | `select_weighted`, the pure part | |
| `WeightedPicks` | the rotation while the healthy set changes | EXTENDS SmoothWeighted |
| `RowRouter` | `router.rs`: cache, probes, picks | EXTENDS SmoothWeighted |
| `ChatHandler` | `chat` in `handlers.rs` | EXTENDS RowRouter; implements RouterSpec |
| `SmoothWeightedProofs`, `WeightedPicksProofs` | lemmas and theorems | EXTENDS their modules |
| `ChatHandlerProofs` | theorems about the router and the handler | EXTENDS ChatHandler, SmoothWeightedProofs |
| `LocalLanes` | local proxy, tool loop, metrics counters | INSTANCE LanePool |
| `LocalLanesProofs` | theorems | EXTENDS LocalLanes |
| `EventStream` | what the client of a stream is promised | |
| `LaneStream` | the three stream wrappers of `proxy.rs` | implements EventStream |
| `LaneStreamProofs` | theorems | EXTENDS LaneStream |
| `UnifiedDiff` | what a unified diff is and means (not code of the repository) | |
| `ApplyPatch` | `apply_patch` of `tool_loop.rs` | EXTENDS UnifiedDiff |
| `ApplyPatchProofs` | theorems | EXTENDS ApplyPatch |
| `SeedPeer` | `seed_slave.sh` | |
| `Rollout` | admin endpoints and `github_sync.sh` | EXTENDS SeedPeer |
| `RolloutProofs` | theorems | EXTENDS Rollout |
| `MC*` | symmetry sets, chains, weights, events, files and patches for TLC | |

Three abstractions carry the composition: `LanePool`, which `DemandPool`
implements and on which `LocalLanes` is built; `RouterSpec`, which `RowRouter`
defines and `ChatHandler` implements; and `EventStream`, which `LaneStream`
implements. What is checked or proved about the local paths does not look into
the pool, and what is checked of the router holds under the handler's use of it.

### DemandPool and WaitQueue

One action is one critical section of a std Mutex, or the code between two
awaits that touches one of them; `Cancel` may hit a request at every await.

| model | code |
|---|---|
| `active`, `idle`, `free` | `active`, the keys of `idle_since`, `free_ports` (in its order) |
| `lane[r]` | the port in `r`'s hands: a local of `spawn_on_demand`, or its guard |
| `pc[r]` | where `acquire` is (`acquire`, `spawn`, `health`, ..., `held`, `dropped`, `done`) |
| `reaper`, `expired`, `victim` | `reap_idle`: the list of its scan, and the port it is at |
| `tickets`, `waiters`, `ticketed`, `late` | the length of the deque; who sleeps on the Notify; who is between `try_enqueue` and `remove`; whose deadline has passed |
| `TakeIdle`/`NoIdle`, `PopFree`/`NoFree`, `Spawned`, ..., `Reject`, `Woken`, `ReturnPort`, ... | the branches of `acquire` in order |
| `ReapScan`, `ReapUnlist`, `ReapTake`, `ReapFree`, `ReapNotify`, `KillActive` | `reap_idle`, `kill_active` |

A ticket has no identity in the code (`remove` pops the front), so the deque is
its length. Expiry of an idle lane (1800 s) and of a wait (`acquire_timeout`)
may happen at any time. Left out: the failure texts and counters of the status
report and the `always_alive` baseline lane (demand.rs:78-159), which `main.rs`
never configures; the death of a child that is idle.

The specifications differ in what goes on around the calls: `Spec` allows
everything; `RaceFreeSpec` forbids only that a lane is taken from idle when the
reaper has already listed it; `UndisturbedSpec` has neither disconnects nor
shutdown; `CalmSpec` is both; `DisconnectSpec` is `CalmSpec` with disconnects;
`FairSpec` is `CalmSpec` with fairness.

### SmoothWeighted, WeightedPicks, RowRouter

`current` is the map of running weights; `EffectiveWeight` is `max(1)`,
`Credited`, `Winner` (first of the greatest, in chain order) and `Charged` are
the three steps of `select_weighted`. `WeightedPicks` lets the healthy set
change between picks, with the history variable `shares` counting picks since
the set last changed on an empty rotation.

In `RowRouter` a pick goes `out -> probing -> collecting -> selecting ->
picked | exhausted`; probing waits for all answers, then stores them under one
lock. `verdict` and `fresh` are the cache (an entry that is not fresh has
outlived 5 s after a success or 2 s after a failure), `up` is which backends
would answer, `marked` is history. `Total` is a sum along the chain, as the
loop of the code computes it. `RouterSpec` lets callers report any backend
they were given; `HonestSpec` lets them report those that are down.

### ChatHandler

`phase` is where `chat` is: `routing`, `toolLoop` (an agent request on omega),
`local`, `forwarding`, `marking`/`marked` (between `mark_unhealthy` and the
second pick), `rerouting`, `retrying`. `outcome` is the last answer, `failed`
the backend whose connection failed. Validation of the body, which ends in a
400 before anything happens, is left out. Forwarding is modelled by its three
outcomes: an answer, an error status, a failed connection, each possible at any
time, whatever `up` says of the backend. For `up` is what probes find, which go
to http (router.rs:151), while forwards go to https (proxy.rs:532, 629): a server
whose TLS is broken is healthy and answers nobody. So "a down backend never
causes a long run of 503s" (handlers.rs:707) is not a property here; it would have to
assume that both agree. What the code does ensure of a backend that its probes
find down is `DeadBackendIsDropped`. `ChatFairSpec` adds fairness.

### LocalLanes

`holder` is the LanePool's variable; `at`, `mode` (`forward`, `stream`,
`agent`) and `round` say where a request is; `active`, `runs` and `recorded`
are the store's `active_requests`, the ports in `active_runs`, and the record
written for the request; `reply` is what its client got. `PruneRun` may drop any
entry at any time: the code prunes by age (three average runs and a minute,
metrics.rs:186-203), short runs lower that average, and a run of many rounds
outlives it. So an agent may be running and not be listed; what is stated is
that its age is the only reason (`OnlyAgeUnlists`).

### EventStream and LaneStream

A byte stream is a sequence of parts: a line is two parts and its newline, an
event its lines and a blank one, so a chunk may end inside a line, between the
two newlines of a terminator, or at an event's end. A line has a kind (a token
or a usage in JSON, a usage that is null, `[DONE]`, broken JSON, a comment) and
for usage a number of tokens. `upstream` is what has not arrived, `buffer` the
stream's own, `out` what it gave, poll by poll. `GiveEvent`, `ReadChunk`,
`FlushTrailing`, `Close` are the branches of `poll_next` in their order;
`Break` is an error or time-out of the connection, `Leave` the drop. `remote`
selects `CrossServerStream`, which annotates but does not count and was recorded
when it was opened. `EventStream` knows no bytes: events one by one in order,
each as `Promised` says, then the unfinished rest.

### UnifiedDiff and ApplyPatch

`UnifiedDiff` is the reference: a `plan` is a list of sections (modify a file
by edits, create, delete), `Unified(base, plan, git)` the diff that standard
tools write for it, `Intended(base, plan)` the files its author means. Nothing
in it is taken from the code. `ApplyPatch` reads such a diff line by line, as
`mode` says: `FindHeader`, `ReadNewPath`, `SkipToHunk`, `BeginHunk`,
`HunkLine`, `EndHunk`, `SkipLine` parse a section, `DeleteFile`, `CreateFile`,
`ReadFile`, `PatchHunk` (from the last hunk to the first), `WriteBack` apply it,
and every failure ends the call with what has been written left in place and
the names collected so far thrown away (`Fails`). A failure is an `error` of the
diff (`Fail`), or an `ioError` of the file system: a file cannot be deleted, read
or opened (`IoFails`), or is truncated and then not written to its end
(`WriteFails`). A line is its marker and a text; `Reach` is the distance in which
the code looks for a hunk's context (50 lines). `before` and `base` may differ:
the patch then was made for another version of the files; `diff` may be cut
short.

What the code tells apart in a line is what it begins with. A text in `Minuses`
begins with `-- `, so that its removal reads as a `---` header, and one in
`Pluses` with `++ `, so that adding it reads as a `+++` header; such a header
names the path `Stray`, at which there is no file. `Stamped` diffs, as `diff -u`
writes them, have a tab and a time after each path, which the code takes as a
part of it: their headers name `Stray` too. The lines of a file end with LF, or
all of them with CRLF (`crlf`); `lines()` takes both away and `join("\n")` puts
LF, so a file that is patched is no longer in `crlf`. Left out: a file without an
end of line at its end and the `\` line that says so, a file that mixes ends
of line, the paths of stray headers that do name a file, and lines that begin
with `-- a/` or the like.

### SeedPeer and Rollout

A commit is a model value, a branch or a build the set of its commits; with a
commit in `Broken` the tests fail, with one in `Unhealthy` the tests pass and
the service does not come up. `binary`, `previous`, `running` are each peer's
installed file, rollback copy and live process; `step`/`target` are the runs of
`seed_slave.sh`, whose order is `backup -> copy -> restart -> verify` and on
failure `rollback -> restartOld -> recheck`. Both copies on the peer end in
`|| true` (seed_slave.sh:93, 229), so they may be skipped and the script goes on
(`CopySkipped`): the disk is full, or the file is the text of a process that
runs. `Verify` may find any build unhealthy, for it fails as well when ssh does
or when a start is slow. `Break` is `set -e`, at every step, the exits in the sync
of models and configuration included (line 113, say); `CutShort` is what it leaves
of the command under way: done, or not. `doubt` is a history variable: the peers
where a copy was skipped, or a script ended between the new binary and the
verdict on it, since a seed last succeeded. Such a peer may have a rollback copy
that does not come up.

`Rollout` has jobs (`update`, `pull`, and `forcedPull`, which is `pull --force`
at a shell and takes no lock), the four git references `head`, `prior` (`@{1}`),
`remote`, `origin`, `lock`, and the `answer` of the job that has ended: a pull that
finds itself up to date answers ok (`UpToDate`), one that finds a diverged history
failed (`Diverged`). `SeedTimesOut` and `Killed` are the budgets and the
disconnects: they free the lock and kill the script itself only. A `seed_slave.sh`
of a killed pull runs on, its output being /dev/null (github_sync.sh:359), and so
do a `git merge` and a `cargo build` (`stray`), which may still move HEAD or
replace `target/release` (`StrayMerge`, `StrayBuild`). Not modelled: a command on a
peer that finishes only after the lock has gone to the next job, when the seed of
an update was killed while it ran.

Two assumptions on people: nobody commits or builds on the master while a pull
has its HEAD in hand, and the peers have been seeded once before. `Spec` allows
everything, `EndpointSpec` no calls by hand, `ByHandSpec` only those.
`OrderlySpec` keeps all but this: a pull by hand has the master for itself
(`CallsInTurn`); a pull is not killed while it merges, tests or builds, or while
a seed of it runs (`HarmlessInterruption`; updates and their seeds may be
interrupted anywhere, and a seed of either may break off anywhere); and nobody
builds by hand while a script is at work. What goes wrong then is in section 5.

## 3. The runs

| run | instance | checks |
|---|---|---|
| `pool` | `RaceFreeSpec`, 2 ports, 3 requests, QueueMax 2, symmetric; 90 thousand states | `TypeOK`, `TicketsCoverWaiters`, `ExclusiveLanes`, `LanesAreTracked`; refinement of LanePool |
| `pool_live` | `FairSpec`, 1 port, 3 requests, QueueMax 2; 34 thousand | `PortsConserved`; every `acquire` returns |
| `pool_leaked_tickets` | `CalmSpec` | violated: `RejectedOnlyWhenSaturated` (section 5) |
| `weights` | 4 backends, weights 5:3:2:0; 238 thousand | `CreditConserved`, `CreditBounded`, `FairShare`, `NobodyStarves` |
| `router` | `FairSpec`, 2 enabled backends and a disabled one, 2 tasks; 107 thousand | `TypeOK`, `ExactOnceStable`, `DeadBackendIsDropped`, `RecoveredBackendRejoins` |
| `chat` | `ChatFairSpec`, 1 task, 3 enabled backends; 508 thousand | `ChatTypeOK`, the handler implements `RouterSpec`, `EveryRequestAnswered` |
| `lanes` | `FairSpec`, 3 requests, 2 lanes, 2 rounds; 213 thousand | `TypeOK`, `ActiveRequestsExact`, `OnlyAgeUnlists`, `AnswersAreRecorded`, `EveryRequestEnds` |
| `stream` | up to 2 events of seven forms and an unfinished one; 181 thousand | `TypeOK`, `RecordMatchesStream`, `EventsDoNotWait`; refinement of EventStream |
| `patch` | 3 versions of 2 files and one of them with CRLF, patches of 1 to 3 hunks or 2 files; 1.18 million | `TypeOK`, `LinesAccountedFor`, `ChangedWhereItStands`, `NoUnsaidChange`, `UnderstoodDiffApplies`, `PatchReturns` |
| `patch_standard` | 2 versions of 2 files, without such lines | violated: `StandardDiffApplies` (section 5) |
| `rollout` | `OrderlySpec`, 2 peers, 2 jobs, 2 seeds, 2 commits, symmetric; 2.7 million | `TypeOK`, `OneSeedPerPeer`, `PeersStayUp`, `HeadIsVerified`, `OkMeansDeployed` |
| `rollout_orphan` | `EndpointSpec`, 1 peer | violated: `OneSeedPerPeer` (section 5) |

Every property of a passing run has a seeded bug (operators introduced by "A
bug the checks must notice") under which TLC finds it violated.

Why the bounds are enough to be interesting:

* `pool`: with 3 requests and 2 ports there is always one request too many, so
  all of idle, spawn, queue, reject, wake-up and time-out happen; QueueMax 2
  is reached because tickets stay behind. One request slot may call `acquire`
  again and again, so sequences are unbounded. `pool_live` has one port, where
  contention is worst and a wake-up can be lost to either of two others.
* `weights` 5:3:2:0 has unequal weights, a weight that `max(1)` lifts, and every
  sequence of the 15 healthy sets. Its bounds are those of every chain (section
  4): half a round for each other backend. A chain of three, as configured (omega,
  beta, delta), stays within one round, and a longer one need not: in a chain of
  five, such as 1:1:5:37:37, a running weight does exceed one round.
* `router`: two tasks suffice for one to read what another is about to write;
  a disabled backend shows it is never probed or picked. `chat` has one task,
  which makes request after request while the cache ages and backends come and
  go, and three enabled backends, so that the second pick can meet a second
  dead one; that concurrent requests use the router as it allows is proved for
  any number of them (section 4).
* `lanes`: with 3 requests on 2 lanes requests are turned away and lanes change
  hands between modes, also while the agent on the other lane runs; 2 rounds
  reach the budget's end from a tool call and from a stall. Its cap
  `MaxRounds` is the code's own `max_iterations`.
* `stream`: the state between two events is the buffer alone, so 2 events and a
  rest show every transition; the forms include an event of two data lines whose
  first is not JSON, one with a comment before its data, and one without data.
* `patch`: files have lines that repeat, so a block stands in more than one
  place, a blank last line, a version that was moved down by a line, lines that
  read as headers where they are removed, added or kept, and CRLF; edits
  begin at line 1 to 4 with up to 2 lines of context, remove up to 2 lines and
  add up to 2; a diff may be cut after any line; diffs have `diff --git` lines
  or not, or time stamps. `Reach` is 2 instead of 50, which is as far as such short files make
  a difference.
* `rollout`: two jobs contend for the lock, and a third kind of call, by hand,
  takes turns; two peers let one fail and the other succeed; one commit is good,
  and a bad one fails its tests, or comes up nowhere if it is built by hand.

Fairness. Tokio runs every runnable task and no lock is held across an await,
so steps of a request are weakly fair. Waiting is bounded by the code: boots
and health polls by their timeout, `acquire` by one deadline, probes by
`PROBE_TIMEOUT` (2 s), upstream calls by 120 s or the proxy's timeout, commands
by theirs; cache entries expire because time passes. Nothing makes a
client call, a lane expire or a backend come back. `pool_live` uses strong
fairness for looking at the idle lanes, because that step, which never blocks
in the code, is the one the race-free restriction can hold back. `router`
assumes that requests keep coming and clients stay connected; `chat` assumes
nothing of either. `stream` assumes a client that reads on and a server that sends
on or is timed out; `apply_patch` is sequential code.

## 4. What is proved

For all values of the constants, under the named assumptions in the modules
(finite `Requests` and `Ports`, a natural `QueueMax` or `MaxRounds`, `NoPort`
not a port; a chain without repetitions with natural weights, enabled backends
from the chain; peers, jobs and seeds of any number; events of one line or more,
any number of them; files, diffs and patches of any length, where the new lines
of a hunk begin at line 1 or later, no text of a line is that of a header, and
there is no file at the path of a stray one).

`DemandPoolProofs`:

* `TypeCorrect`: `Spec => []TypeOK`.
* `LanesAreExclusive`: `RaceFreeSpec => []ExclusiveLanes`. Not inductive alone:
  a port that is free twice, or idle and free, would later have two users, and
  the reaper moves whatever it has on its list. `LaneInv` adds that `free` has
  no duplicates, that idle, free and the reaper's victim are disjoint, and that
  what is on the list is still idle. The last conjunct is what fails without
  the race-free restriction, and the code fails with it (section 5).
* `LanesStayTracked`: `RaceFreeSpec => []LanesAreTracked`, from `LaneInv`: no
  step of one owner removes the child of another's port.
* `TicketsSuffice`: `Spec => []TicketsCoverWaiters`. Strengthened by: whoever
  sleeps, waits or has aged out holds a ticket.
* `PortsAreConserved`: `CalmSpec => []PortsConserved`.
* `RefinesLanePool`: `RaceFreeSpec => Abstract!Spec`, with the holder of a lane
  being the request whose `pc` is `held`: each step is an `Acquire`, a
  `Release`, or a stutter; exclusiveness gives `Acquire` its guard. Under `Spec`
  it is not so: the lane that the reaper is about to kill is taken (section 5).

`LocalLanesProofs`: `TypeCorrect`, `UsesLanePool` (the local paths take and
give back lanes as LanePool allows), and `OnlyAgeUnlistsAgents`
(`Spec => OnlyAgeUnlists`): when a run ends, its entry goes, and the entry of
another running agent is under another port because lanes are held by one
request at a time.

* `CounterIsExact` (`Spec => []ActiveRequestsExact`): every step that starts or
  ends a request changes the set of counted ones by that request and the counter by
  one, or neither; the library's facts about cardinality do the rest.
* `AnswersGetRecorded` (`Spec => []AnswersAreRecorded`), from `RecordInv`: until
  a request is over, or its run has finished, nothing is recorded for it.

`SmoothWeightedProofs`, the lemmas of the rotation. That a finite non-empty set
has a highest score, and that sums over the chain add up, is induction over the
chain, which the provers cannot do from a theorem with an operator parameter.
It is done with sets instead: among the subsets of a finite set on which a
statement fails there is a least one (`LeastSubset`, from the well-foundedness
of strict inclusion; `LeastNumber` follows), and removing an element, or looking
one position back, refutes it. So `WinnerIsHealthy` (ties are broken by
position, there is one winner) and `PickConserves` (what is credited is charged).

* `ChatHandlerProofs`, `TypeCorrect`: `RouterSpec => []TypeOK`. `RouterInv` adds
  that who selects has something to select from, without which there were no
  winner to be an enabled backend, and that probes go to enabled backends only.
* `ChatHandlerProofs`, `ImplementsRouter`: `Spec => RouterSpec`, step by step;
  `ChatTypeCorrect`: `Spec => []ChatTypeOK`, of which the router's part follows
  from the refinement and its theorem, and the handler's (a request never sends to the
  backend it has reported) from `PhaseFits`, which relates where a request is in
  `chat` to where its task is in `pick`.

`WeightedPicksProofs`, for every chain, all weights and every sequence of
healthy sets:

* `CreditIsConserved`: `Spec => []CreditConserved`.
* `CreditIsBounded` (`CreditBounded`) and `RotationIsFair` (`FairShare`). That one
  running weight is within a bound is not inductive: the winner is charged what
  the others were credited, so a bound on each alone allows a pick that breaks
  it. What is inductive is a bound on every set of backends at once: `Balanced`
  says that the credit of a set of k of the n backends, doubled, is at most
  k(n - k) rounds. If a pick broke it, take a least set that it breaks: it has not
  the winner, and some member of it is credited. With the winner added, it keeps
  its bound, as the pick lowers what that set has; without that member too, being
  smaller. The two bounds add up to that of the set (`Parabola`), unless the
  winner had less credit than that member. With k = 1 this is the bound on one backend
  from above, and with k = n - 1 and conservation from below. `FairShare` is the
  same bound on the set that has been healthy since the weights were all zero,
  as `Tally` relates its running weights to the picks.

`RolloutProofs`: `TypeCorrect`, whatever is killed or fails. The invariant
`ChainInv` adds that no two jobs wait for the same seed and that a job of an
endpoint holds the lock until it is done.

And under `OrderlySpec`:

* `SeedsAreExclusive` (`OneSeedPerPeer`): `OrderInv` adds that every seed has a
  job that waits for it and that a forced pull is alone; two seeds would have two
  jobs at work.
* `HeadStaysVerified` (`HeadIsVerified`): `HeadInv` says of every place in a
  pull which of `head` and `@{1}` is trusted, and that where `@{1}` is not, HEAD
  lacks something of the remote, so that the next merge moves it and renews
  `@{1}`: that is what makes a rollback end at trusted code.
* `PeersAreLeftUp` (`PeersStayUp`): `PeersInv` says at each step of a seed which
  of binary, rollback copy and process is one that comes up, unless the peer is
  in `doubt`; the order of the script's steps is what keeps it. Where a copy is
  skipped or a script ends too early there is nothing to keep, and the peer is in
  doubt until a seed succeeds, which shows that what it runs comes up.
* `OkIsDeployed` (`OkMeansDeployed`, an action property): `DeployInv` says that the
  peers a job is through with, unless one failed, run the master's build. That a
  pull with nothing to pull answers ok without any of this is part of the
  statement.

`LaneStreamProofs`, for events of any number and length, in any chunks. It begins
with the lemmas about `FlattenSeq`, whose definition is a recursive function
(`Unrolls` names it); induction over a sequence is once more a least number at
which, or a shortest sequence of which (`ShortestOf`), the statement fails.

* `ClientGetsWhatIsPromised`: `Spec` implies the initial states and the steps of
  `EventStream`. `StreamInv` says that the bytes in the buffer and those still to
  come are those of the events not yet given, then the unfinished rest. The step
  that matters is that the first two newlines in the buffer are the end of the
  first event not given, wherever a chunk has ended: two adjacent newlines occur
  nowhere else in the bytes of an event, and what is annotated is the line
  that is promised.
* `NoEventWaits` (`EventsDoNotWait`): without a boundary in the buffer, no event
  not yet given can have arrived whole.
* `EveryRecordMatches` (`RecordMatchesStream`): `RecordInv` says of a stream that
  is open that its tokens and its first answer are those of what it has given.
* `StreamTypeCorrect`: `Spec => []TypeOK`, from both invariants.

`ApplyPatchProofs`, for any files and patches and any diff made of them, cut at
any line, as long as they are `Ordinary`: no line of them begins with `-- ` or
`++ `, and headers have no time stamps. The theorems have the form
`Spec => [](Ordinary => P)`; what is not ordinary is only model-checked, the type
invariant too. One inductive invariant serves them all (`PatchInvariant`):
`PatchHolds`, which is that the file system has failed and the call is over, or
`PatchInv`, `LinesInv` and `FollowInv`, each of which needs those before it.

* `AnswersAreComplete` (`NoUnsaidChange`). `PatchInv` has the types, that the paths
  in hand are those of files where the code writes, which takes a lemma on what
  the lines of a diff are, that a hunk is in hand where its lines are
  collected, and that what was changed is in `report` until the call fails.
* `EveryLineIsAccountedFor` (`LinesAccountedFor`). A text is counted in
  the file, in the copy, in the hunks in hand and in the diff since its
  section's header, and `LinesInv` bounds each count by the next.
  - *The diff.* `DiffIsLaid`: each `---` line of a diff begins a section, no two
    of them the same one; while no other begins, a text is said to be removed, or
    added, no more often than `CutLines`, or `AddedLines`, has it. This goes by
    induction over the sections (the shortest counterexample), and what a
    section's lines are follows from the unrolled `FlattenSeq`.
  - *The hunks.* While they are collected they hold no more `-` and `+` lines of
    a text than were read (`Collected`), sorting them changes no count
    (`TallySorted`), and each that is applied moves its counts from the hunks to
    the copy (`Patching`).
  - *Headers taken for lines.* Without a `diff --git` line between two sections
    the next section's `---` and `+++` lines land in the hunk before them. Such a
    hunk would bring in the lines of another file. `HeadersInPairs` is why it
    does not: a hunk that adds a `+++` line also removes a `---` line, no file of
    these has that text, so the hunk fits nowhere (`HunkIsClean`) and the call
    ends with an error.
  - *The files.* Those of sections not yet reached are as they were (`Untouched`),
    as a patch has at most one section per file.
  That no line of a file reads as a header is needed for the third point.
* `PatchesGoWhereTheyStand` (`ChangedWhereItStands`) and
  `UnderstoodPatchesApply` (`UnderstoodDiffApplies`) are about whole diffs,
  and compare what becomes of a file with what the diff's author wrote, place by
  place. `FollowInv` is the invariant of both.
  - *The diff.* `UnifiedIsPlaced`: every section of the patch has its `---` line,
    its other lines follow it one by one, and then comes the next section or the end.
  - *Reading.* In a section with one hunk, what is held is the hunk's header and
    the lines read since, in order (`ReadSoFar`), unless a header was taken for
    a line. This says more than the counts of `LinesInv` and costs a lemma for each
    step that reads (`HunkLineReads`, ..., `PatchHunkReads`).
  - *Placing.* `HunkSays` gives what the code makes of such a hunk: the context
    before and after its changes, the removed lines, the added ones. `AnchorStands`:
    a place that was found by context has all of these before the change, and
    `PlacedWhereItStands` that the result is the file with the hunk put there. A
    hunk that changes nothing is applied anywhere, to no effect. `GoesWhereMeant`:
    if the start in the header is read right and the file is the one the diff was
    made for, the search ends at once, where the author meant.
  - *All the files.* `Going` adds for a patch that is understood that every
    section before the one in hand has made of its file what it should
    (`Settled`), that none of the failures can be met (`NoNewPathNever`,
    `NoFileNever`, `HunkMisfitsNever`), and that no header is taken for a line
    (`NoOldInHunk`). When no header is left, every section has been before it, and
    `IntendedIs` says that the files are then those of `Intended`, whose
    fold is unrolled there.
  Why the context must not be empty in `ChangedWhereItStands`: without it the code
  goes by the line number alone, which says nothing about another version of the file.

Only model-checked: liveness and everything with fairness (out of the prover's
reach), so also the fairness of `EventStream`, that `apply_patch` returns, what it does with
files and diffs that are not ordinary, and the
router's `ExactOnceStable`, `DeadBackendIsDropped` and `RecoveredBackendRejoins`.

## 5. Where code and comments disagree

Three are runs of their own:

* **Tickets of those who were served stay in the queue** (`pool_leaked_tickets`).
  `acquire` returns at demand.rs:251 without `queue.remove()`. After QueueMax such
  successes every caller that finds no lane at once gets PoolExhausted though
  nobody waits; demand.rs:206 reserves that "for true saturation".
* **An orphaned seed** (`rollout_orphan`). Killing `github_sync.sh`
  (handlers.rs:522) frees `update_lock` while its `seed_slave.sh` runs on, so
  the next update seeds the same peer; handlers.rs:463 says the lock prevents it.
* **Standard diffs are not applied** (`patch_standard`). A hunk header with a
  count, `+3,4`, is not parsed (tool_loop.rs:1083-1089) and the hunk is
  taken to start at line 1; collecting a hunk's lines consumes the `@@` of the
  next (1091-1097), which is then skipped. Such a diff is refused, put in another
  place where its context stands too, or applied in part and reported as "patched";
  tool_loop.rs:1015 promises "a standard unified diff string".

The others can be reproduced by checking the property under the specification
named (both are in the modules):

| property, specification | code | what is said |
|---|---|---|
| `NoWaiterSleepsBesideFreePort`, DemandPool `CalmSpec` | demand.rs:313: the notify of a failed spawn is sent before the sender itself starts to wait | "so the pump retries the spawn rather than stalling until the acquire timeout" (demand.rs:311-312) |
| `NoWaiterSleepsBesideIdleLane`, DemandPool `CalmSpec` | demand.rs:501: a woken waiter tries `spawn_on_demand` only, which pops `free_ports`; the lane of a dropped guard is idle | "Wakes all current awaiters so they retry the slot-acquire path" (queue.rs:58) |
| `ReaperSparesHeldLanes`, DemandPool `UndisturbedSpec` | demand.rs:326, 343: a lane may be taken after the scan listed it; it is killed under its request | the reaper kills idle lanes |
| `MissOnlyWhenAllBusy`, DemandPool `DisconnectSpec` | demand.rs:254-266: a request dropped while booting takes its port along | a miss means every port is busy |
| `NoBurstyRuns`, WeightedPicks `SteadySpec`, weights 2:1:1 | router.rs:180-201 picks A B C A, A B C A, ... : A twice in a row | "A B A C ... with no bursty runs" (router.rs:162-163) |
| `LastResort`, RowRouter `RouterSpec` | router.rs:127: an error | "return the first enabled backend anyway" (router.rs:78-79) |
| `MarkSticks`, RowRouter `HonestSpec` | router.rs:105: an answer from before the mark replaces it | "loses its share immediately" (router.rs:137-139) |
| `OmegaServedLocally`, ChatHandler `Spec` | handlers.rs:717: the retry sends whatever it picked, omega too, through the cross-server proxy | "omega goes through the local ... pool" (handlers.rs:696-698) |
| `RollbackComesUp`, Rollout `OrderlySpec` | seed_slave.sh:93: `.previous` is overwritten by every seed, after an unfinished one by an unverified build; and a copy that fails there or at line 229 is passed over, so that the new build stays | "kept as .previous and restored automatically" (seed_slave.sh:24-25) |
| `RollbackRestoresHead`, Rollout `ByHandSpec` | github_sync.sh:330: `@{1}` is not this pull's when it had nothing to merge | "Rolling back to pre-merge state" (github_sync.sh:329) |
| `HeadIsVerified`, Rollout `EndpointSpec` | github_sync.sh:321: HEAD moves before the tests; a kill leaves it there | github_sync.sh:15-17 |

A peer that is behind is not told of twice: after a propagation that failed, the
next pull is already up to date and answers ok (github_sync.sh:292-295,
handlers.rs:493) whatever the peers run; `OkMeansDeployed` has this as its stated
exception. `PeersStayUp` fails under `EndpointSpec`, where the orphan of a killed
pull and the next job seed the same peer.

Not a matter of states, and noted only: README.md:13 and ROADMAP.md:23 say an
instance is killed when its response lands (demand.rs:367-368 too), and the
code keeps it idle for 30 minutes; the header of `github_sync.sh` lists `fmt` among its checks, and no
`fmt` is run; a timeout after a peer has begun to work counts as a failed
connection (proxy.rs:553), so the request is run a second time elsewhere.

Of `apply_patch`, met while modelling it and kept in the model:

* without `diff` lines between files the `---` and `+++` of the next file are taken
  for a removed and an added line of the last hunk (or a `++ b/x` line of a
  file that is created);
* a removed line that begins with `-- ` is taken for a header where one is
  looked for (tool_loop.rs:1030, 1099): a file with such a line is deleted, and the
  call then ends with an error (1036);
* a path keeps what follows it on its line (1041-1049), so the headers of
  `diff -u`, with a tab and a time, name no file;
* a file with CRLF that is patched has LF on every line afterwards (1131, 1229);
* a text that ends in a blank line loses it, and a file that is emptied keeps
  one (1229-1233);
* deleting does not compare the contents and creating overwrites; the counts of a
  hunk are not checked, so a diff that was cut short is applied as far as it goes;
* an error names no file: what was deleted, created or patched before it stays so
  and is said nowhere (1036, 1059-1062, 1108-1130, 1199, 1209, 1217, 1234).

## 6. What is not modelled

* The tools other than `apply_patch`, `safe_join`, agent workspaces: file and
  process I/O, strings of paths.
* The rings of the metrics store (the oldest record goes when there are 1024), its
  summary and time series, the merge of peer telemetry: arithmetic over records; what
  the age of an active run is compared with comes from there, and any entry
  may be old in the model.
* The record of a cross-server call that is not streamed.
* Peer telemetry's poll and alpha status's post: one periodic writer of one
  value each. Authentication: a stateless comparison. Status and telemetry
  handlers, dashboards, configuration, model discovery, logging: formatting and
  parsing, read once or read only.
* `seed_slave.sh`'s sync of sources, models and unit files, and
  `github_sync.sh init` and its secrets guard (a refusal in the model).
* Of `apply_patch`: see the end of its part in section 2.
* The death of a child process while its lane is idle: no step of the pool asks
  whether the process lives, so the model with dead children has the same steps;
  what follows is a forward that fails, which `LocalLanes` has.

## 7. The plan

Order of the work: the pool and its queue, being the core and the most
concurrent part; the rotation and the router; the handler that composes them;
the local paths; the rollout; patches; streams. Done: all of these, with the
proofs of section 4.

Left, to model: the rings and the summary of the metrics store, and peer telemetry (merge
of lanes), if they come to matter to a decision of the program; a pool that
knows of dead children, should the code begin to ask.

Left, to prove: every safety property of the runs has its theorem. What remains is
liveness, which stays with TLC, and diffs that are not `Ordinary`: with lines that
look like headers, or time stamps in theirs.
