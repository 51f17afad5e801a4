# A TLA+ model of AT-Field

AT-Field (`src/`) is a thermal and resource watchdog. A service samples the
machine about once a second, runs the samples through a rule engine, and
throttles or kills the process tree that causes the load. Around that loop are
collectors for each sensor source, a local HTTP API with a tray application, an
audit log, a delivery thread for reports, and an inbox that tells the owners of
the load what is about to happen.

This directory holds TLA+ modules of the parts whose correctness depends on
order, time or several actors, the TLC runs that check them on small instances,
and proofs, checked by TLAPS, of what must hold for every instance.

Paths below are relative to `src/src/atfield/` unless they start with `src/`.

    tlc -workers 2 -config MCActuator.cfg MCActuator     one run
    tlapm EngineProofs.tla                               the proofs of a module

`PROJECT.json` lists the runs, the theorems, which lines of the code each
definition stands for, and the hazards the properties are aimed at.

## 1. The system

### Components

| Component | Source | State | Operations | Modelled in |
|---|---|---|---|---|
| Policy engine | `policy.py`, `signals.py` | per rule: window, verdict, cooldown, dose, starvation; per engine: cadence, pause, queued health changes | `tick`, `set_paused`, `drain_signal_health_changes` | `PolicyEngine`, `EnginePromises` |
| Throttle | `actuator.py` | `_active_throttles`, one timer thread per throttle | `_execute_throttle`, `_resume_pids`, `shutdown` | `Throttle` |
| Kill and escalation | `actuator.py`, `client_registry.py` | `_clients_by_pid`, `_futile_kills`, `_stop_requested` | `execute`, `enforce_rss_cap`, `_escalate` | `ProcessTable`, `KillRoot`, `KillTree` |
| Service loop | `service.py` | config, engine, actuator, observe-only, last pause check | one tick: reload, pause check, sample, engine, RSS cap, dispatch, sleep | `ServiceLoop` |
| Presence sentinel | `service.py` | the last opinion, the last idle sample; a file | touch or unlink on a change | `Presence` |
| Restart budget | `service.py` | a file of past restarts, a flag | exit for a fresh process | `RestartBudget` |
| HTTP API and state mirror | `http_api.py` | mirror of signals, pause and health, reload flag, drill queue, histories of three densities | pause, PATCH, profile, drill, snapshots | the writes that reach the loop: `ServiceLoop`; PATCH, presets and reload: `ConfigPatch`; what readers are told: `StateMirror` |
| Command line | `cli.py` | none | `atf pause`, `atf unpause`, displays | the pauses: `ServiceLoop` |
| Configuration | `config.py`, `config_writer.py` | `config.toml` | parse, validate, rewrite one field | its outcomes: `ServiceLoop`; the text, its edits and what the loader rejects of them: `ConfigPatch` |
| Hub reporter | `reporter.py` | a bounded queue, an on-disk spool, a backoff | enqueue, deliver, drain the spool, ping | `Reporter` |
| Forensic recorder | `forensics.py` | staged samples under a lock, a live file and archives | record, flush, rotate, stop | `Forensics` |
| NVML collector | `collectors/nvml.py` | failure spell, driver version | sample, ask for a fresh process | `NvmlCollector`, with the loop: `SelfRestart` |
| LHM helper collector | `collectors/lhmlib.py` | helper process, last reading and its age, sensor map | probe, read loop, sample, shutdown | `LhmHelper`, `SensorDiscovery` |
| LHM supervisor | `lhm_supervisor.py`, `lhm_config.py` | child process, backoff, status | spawn, probe HTTP, restart, stop | `LhmSupervisor` |
| Owner notices | `agent_inbox.py`, `notify_prefs.py` | rate limit, snoozes and mutes, in a file | notify, snooze, mute, observe jobs, prune | `Notices` |
| System collector | `collectors/system.py` | the source of the idle time | probe, sample | the idle time: `InputIdle` |
| LHM HTTP and AMD collectors | `collectors/lhm.py`, `amd.py` | paths found at the probe | probe, sample | no protocol of their own |
| Audit log, metrics, profiles | `audit.py`, `prometheus_exporter.py`, `rule_profiles.py`, ... | none that is read back by the loop | append, render | pure output |
| Tray, sensor helper, installer | `src/at-field-tray`, `src/helper`, `src/scripts`, `src/packaging` | none of the watchdog | polling, hardware I/O, setup | not modelled |

### Who runs, and where they meet

* The **service thread** is `run_service()`: one loop, one tick at a time. The
  engine and the kill path run on it and nowhere else.
* Each **throttle timer** is a daemon `threading.Timer`. It meets the service
  thread at `_throttle_lock`, which guards `_active_throttles` and not the
  suspends and resumes themselves.
* **HTTP threads** write three things the loop reads: `pause.sentinel`,
  `config.toml` and the `_reload_requested` flag. They also write the pause in
  the API mirror, which the loop overwrites on every pause check.
* **`atf`** is another process. It writes `pause.sentinel` and nothing else.
* **Editors** write `config.toml`.
* **NSSM** starts a fresh process whenever the old one exits. Only the files are
  left: config, sentinels, restart budget, reporter spool.
* **The machine** moves on between any two steps of the actuator: processes
  exit, are respawned by their supervisors, and pids are recycled.
* The **delivery thread** of the reporter takes events from a bounded queue, the
  **forensic flusher** takes samples from a list under a lock, the **reader
  thread** of the helper collector overwrites the last line, and the **LHM
  supervisor** has a thread of its own that `stop()` has to join.
* **Helper processes** print, hang and die at any time; **subscribers** and the
  **disk** fail and come back.

### What is hard, and what makes each part correct

**Policy engine.** Every limit (samples needed, freshness, starvation) is
re-derived from a smoothed tick rate, so jitter and stalls move the limits while
evidence is on its way; pause, cooldown, missing samples and the dose's own
warning interact. Correct means: it acts on evidence that lasted as long as the
rule says; it acts when it has it; never twice within a cooldown, never while
paused; a rule whose signal is dark is reported exactly, and reported once.

**Throttle.** A suspended process stays suspended until someone resumes it, and
that someone is a timer that the next throttle cancels. Where suspends nest, as
with the `NtSuspendProcess` of the shipped platform, one resume does not undo
two suspends. Correct means: whoever is suspended has someone about to resume
it, and runs again in the end, also when the service stops.

**Kill and escalation.** The protection, the owner and the targets are read
before a kill that takes seconds of grace, and used by pid after it. Killing the
children of a supervisor that respawns them sheds no load, so the third futile
kill goes for the supervisor, which was protected until then. Correct means: no
protected process, sibling job or listed process dies by a rule or the cap; the
owner is asked before it is killed; the treadmill ends, as far as the system
lets it.

**Service loop.** The pause is cached in the engine and in the API mirror, and
set by three parties; the config is re-read on request and may be unusable.
Correct means: within one check interval the engine does what the sentinel says
and `/health` tells it; a malformed file touches no process; a PATCH that was
accepted is loaded.

**Presence sentinel.** The file outlives the process that wrote it and is
written on changes of opinion only. The opinion comes from an idle time whose
source (the console session or the own one) is chosen once, from a 32-bit
counter that wraps. Correct means: the file stands only on the word of a recent
sample that is true, and a person that a sample has shown is shown to others.

**Restart budget.** A crash loop has to be bounded across lifetimes, by a file.
The file may fail, and counts as empty then. Correct means: at most N restarts
in any window, as far as the file works, and an uptime floor between two of them
whatever it does; and with the GPU collector,
which decides by consecutive failures, jumps of the clock and driver versions on
disk when to ask: no restart for a transient, and a card that is really lost
comes back.

**LHM helper and sensor discovery.** A helper that hangs leaves a reading that
looks alive, one that died leaves its last line to its successor; which sensor
feeds which rule is decided once, from a few samples. Correct means: no rule
sees an old reading, and none for VRAM is bound to a die temperature.

**LHM supervisor.** Status, pid and web server are three facts about several
processes, the port may have another listener, and `stop()` races a loop that
may be about to spawn, and does not wait for it for ever. Correct means:
"ready" is never left over from another process, and after `stop()` no child
is left.

**State mirror.** The API repeats what the loop told it last, also when the loop
has stopped. Correct means: a rule that is blind is named as blind, however it
got there, and a history counts each sample once.

**Reporter, forensics.** Both hand data to a thread that writes it while the
disk or a subscriber fails or the process dies. Correct means: what is lost is
lost for a reason the code accepts, and nothing else; nothing arrives twice
but what was not answered in time; the spool empties in the end.

**Owner notices.** A rate limit, snoozes and mutes decide together whether a
session hears of a kill, and a post may fail. Correct means: a kill is told
unless it was silenced, or another one has just been posted; a mute lasts as long as its job, over restarts.

**Configuration edits.** Two HTTP threads edit the text of one file without a
lock while the loop reloads it. The writer reads lines by
patterns, the loader reads TOML. Correct means: an edit changes one field of one
rule, the file stays one, and in the end the engine runs what it says.

## 2. The modules

| Module | Models | Composes |
|---|---|---|
| `PolicyEngine` | the engine, one `tick()` per step | |
| `EnginePromises` | history variables (what was measured, what was done) and the engine's properties | extends `PolicyEngine`, instantiates `ActionGate` |
| `ActionGate` | abstract: what the service relies on from the engine | |
| `Throttle` | suspends, timer threads, reload, shutdown | |
| `ProcessTable` | operators: subtree, climb, job root | |
| `KillRoot` | `find_kill_root()`, an iteration per step | extends `ProcessTable` |
| `KillTree` | a kill action and its escalation, the machine in between | extends `ProcessTable` |
| `ServiceLoop` | the loop by phases, HTTP, `atf`, editor, restarts | takes the engine as its gate |
| `Presence` | the presence block of the loop | |
| `InputIdle` | where the idle time comes from | extends `Presence` |
| `RestartBudget` | the block of the loop that ends the process for a fresh one | |
| `NvmlCollector` | GPU failures, driver swaps, the request for a fresh process | |
| `SelfRestart` | collector, loop and the next process together | extends `NvmlCollector`, instantiates `RestartBudget` |
| `LhmHelper` | helper process, pipe, reader threads, sampling | |
| `SensorDiscovery` | which sensor feeds which signal | |
| `LhmSupervisor` | supervise loop, `stop()`, the LHM process | |
| `StateMirror` | what the API says about signals and their history | |
| `Reporter` | queue, delivery thread, spool, subscribers, disk | |
| `Forensics` | staging, flusher, `stop()`, rotation | |
| `Notices` | rate limit, snoozes, mutes, their file | |
| `ConfigPatch` | the text of `config.toml`, its editors, the reload | |
| `MC...` | instances for TLC | `MCActuator`, `MCSensors` and `MCSideChannels` hold several components each |

The proofs are in modules of their own; section 4 says what each proves.

| Proofs | Extends |
|---|---|
| `EngineProofs` | `EnginePromises`, `Recursion` |
| `ThrottleProofs` | `Throttle` |
| `KillProofs` | `KillTree`, `KillRoot`, `Recursion` |
| `ServiceLoopProofs` | `ServiceLoop` |
| `RestartBudgetProofs` | `RestartBudget` |
| `SensorProofs` | `SelfRestart`, `LhmHelper`, `LhmSupervisor`, `SensorDiscovery`, `StateMirror`, `InputIdle`, `Recursion`; instantiates `RestartBudgetProofs` |
| `SideProofs` | `Notices`, `ConfigPatch`, `Forensics`, `Reporter`, `Recursion` |
| `Recursion` | lemmas about sets of numbers and functions defined step by step, of no component |

Modules that meet in one MC or proof module have the component's name in their
specification (`ForensicsSpec`, `ConfigFileSpec`, `MirrorSpec`, `IdleSpec`,
`KillSpec`, `ThrottleSpec`, ...), so that they can be extended together.

How they fit together: `EnginePromises` is shown to implement `ActionGate` (run
`engine_window`, theorem `EngineIsGate`), and the engine inside `ServiceLoop` is
that gate with one rule: it may act when it is not paused and out of its
cooldown. The kill loop of `KillRoot` is shown to return `KillRootOf` of
`ProcessTable`, and `KillTree` uses `KillRootOf` for its job root. `SelfRestart`
replaces the "a collector gives up" of `RestartBudget` by the NVML collector, and
is shown to implement it (`ImplementsRestartBudget`, by TLC and as a theorem), so
that the budget proved of the abstract loop holds with the real collector.
`InputIdle` supplies the samples that `Presence` leaves open.

`MCActuator`, `MCSensors` and `MCSideChannels` each extend the modules of components
that share no state. Their variable `subject` is chosen at the start, the component it names runs, and the others stay as they
begin: the state space is the sum of those of the components, and nothing is
checked of one component that depends on another. The fairness of a component is
that of its module, of the steps of its subject.

A definition whose name starts with `Faulty` is not part of the model. It is a
bug that could be in the code; each property is known to fail when the
definition that follows the faulty one is replaced by it.

### State and actions, and the code

**`PolicyEngine`.** `TickAt(t, samples)` is the whole of `tick()`: cadence,
window or dose, starvation, verdict, the check whether the rule can ever fire,
cooldown, pause, the returned actions. Its parts are operators named for the
methods they stand for (`NextInterval` is `_note_tick_cadence`, `MinSamplesFor`
is `min_samples_for` with the floor of `evaluate_window`, `TrackStarvation` is
`_track_starvation`, `TickDose` is `_tick_dose`). Time is whole seconds; the
smoothed interval is kept in 1/`Scale` seconds. A window is the set of its
samples, since ticks come at distinct times. Globs are expanded before the
engine is built, so `Rules` is the effective rules. Left out: the statistics
for display, the texts of actions, and the guard against non-finite readings.

**`EnginePromises`** adds variables that record, from the samples and the
returned actions alone, when a rule last acted, for how long it has been hot,
how much heat was measured since its last action, and which health events were
drained. An engine that loses track of its own bookkeeping therefore disagrees
with them.

**`Throttle`.** `stage` is the service thread: `BeginThrottle`, `SuspendOne`,
`AllSuspended`, `Record` (under the lock), `StartTimer`, then `BeginShutdown`,
`ShutdownResumesOne`, `Exit`. Timers have their own steps: `TimerFires`,
`TimerForgets` (under the lock), `TimerResumesOne`. `Timer.cancel()` has no
effect on a timer that has fired. A reload replaces the actuator and leaves the
old one's timers alive. Durations are not modelled, a started timer may fire at
any later time. `Nested` says whether two suspends need two resumes, as with
`NtSuspendProcess` (`actuator.py:403`), or one, as with SIGSTOP; the runs
`actuator` and `throttle_nested` have the first, `throttle_overlap` the second, the
proofs both. `stops` counts the suspends that
keep a process from running, `roused` remembers who was resumed since its last
suspend: `AwaitsResume` is the difference between the two.

**`KillRoot` and `KillTree`.** The first is the climb through the parent chain,
over every table, with parent cycles. The second is a kill action: `BeginKill`
reads the protection, `Choose` picks offender, root, owner and targets,
`Terminate` and `ForceKill` are the two phases (`ForceKill` alone for an
immediate kill and for the cap), `Escalate` is `_escalate`. The system may refuse
any kill (AccessDenied is swallowed, survivors are only reported): `ForceKill`
and `SpareAll` take any part of the targets, and `unyielding` remembers whose
kill was refused after the ask. Between these,
`Respawn`, `ProcessExits`, `Recycle` and `LongCalm` are the machine; a process
starts below one that lives, or below none, so the living form a forest
(`MachineAssumption` says so of the first). How an offender is ranked is a choice
of any eligible process; `blamed` records which it was. The cap picks its next
offender from the table as it then is; the code walks a list it made at the
start, so the model has the code's behaviours and more.

**`ServiceLoop`.** One step per phase; the phases that may be preceded by
somebody else's write are separate, so that `CheckPause` and `MirrorPause` (the
two reads of the sentinel) can see different files. HTTP requests take two
steps: sentinel then mirror, file then reload flag. A time is what is left of
it, in seconds. Abstractions: one HTTP request at a time; the sentinel is read
in one step; a PATCH changes one field; a config is its action and whether the
RSS cap kills. Sampling, credibility, notices, drills and telemetry are left
out.

**`Presence`, `InputIdle`.** `SampleArrives` and `NoSample` are the presence
block of a tick, `Toggle` a reload that turns the section on or off, `Restart`
the next process, which finds the file and not the opinion. `InputIdle` adds the
sessions: `Touch` is a key in one of them, `Switch` moves the console,
`Resolvable` is what `_resolve_input_idle_reader` can come to, `TickCountSince`
the subtraction of two 32-bit tick counts (`Wrap` stands for 2^32 ms).
`IdleSpec` is the two together.

**`NvmlCollector`, `RestartBudget`, `SelfRestart`.** `Sample` is one `sample()`:
driver check, request, failure count, health. `Install`, `InstallEnds` and
`Breaks` are the machine, `gap` a jump of the wall clock. In `SelfRestart` a tick
is `Poll`, then `Answer` (exit with the budget written, or the budget spent) or
`GoOn`; `Stop` and `Start` are any end and NSSM's next process. The budget file
fails as it likes: a reading gives what is recent or nothing (`Readings`), a
writing leaves the new list, the old one or none, and the service restarts all
the same. `flawless` is how long ago a restart was lost from the file.

**`LhmHelper`.** `Prints`, `Hangs`, `Dies` are the helper; `Read` is the reader
thread of any helper, also of one that is gone; `ProbeStarts`, `ProbeEnds`,
`SampleDead`, `SampleStale`, `SampleServes`, `Shutdown` the collector. A line is
its age: `born` records when the reading in `_latest` was printed, which the code
does not know.

**`SensorDiscovery`.** `_discover()` and `_resolve_gpu_temps()` as operators over
a catalogue of sensors, the orders in which a sample can list them and histories
of values, each of which may be missing from a sample, with the median of the
code (of the values that are there; doubled, to stay in integers).

**`LhmSupervisor`.** The supervise loop by its waits, with `proc`, the status
and a `stop()` that takes the process it sees (`StopBegins`), terminates it and
joins. Between `LoopHead` and `SpawnOnce` nobody looks at the stop event. The join
of `StopReturns` ends with the loop or before it; `ServiceExits` takes an
unfinished loop along. A process that outlasts its grace is killed and not
waited for (`killed`). `ProbeHttp` is answered by whoever listens on the port:
the child, one before it that still lives, or a foreign program (`PortChanges`);
`impostor` remembers that it was not the child. A process id is used again once
it is free.

**`StateMirror`.** `RecordTick` is `record_tick()` with any subset of signals,
credible or not; `Liveness`, `NotLive`, `Slice` and `Excluded` are the reader's
side, evaluated at any time; the centre of a slice is bounded from below only
(`http_api.py:740`). A mean is known by the set of samples it is the mean of, and
a slice is the set of places of the rings that it is made of; `Precedes` is the
order in which they are read.

**`Reporter`.** `Report` and `Ping` queue; `Take`, `Deliver`, `Timeout`, `Resend`
and `PassEnds` are the delivery thread, `pass` the call of `_drain_spool()` that
is under way. Subscribers take, fail, refuse, or take a report and answer too
late ("late"), which the thread cannot tell from a failure; `unanswered` has what
was received so. The disk fails and recovers; a
`Restart` at any point keeps the spool. The pause between two passes doubles up to
its cap (`Doubled`) and falls back once a pass got something through.

**`Forensics`.** The two writers (flusher and `stop()`) take a batch under the
lock and write it without; `Cascade(f, n)` is the first n renames of a rotation,
of which any one may fail, and of those that overwrite, after the unlink.

**`Notices`.** `Notify` is `deliver()` to one owner; its post gets through or not,
and the limit is spent either way. `killAgo` and `lostAgo` are when a kill was last
told, or its post lost. `Snooze`, `Mute`, `Unmute`,
`Snapshot` the HTTP calls, `Observe` the look at live workers, `Crash` and
`Restart` keep the file. Each method holds its lock, so it is a step.

**`ConfigPatch`.** The text is a sequence of the lines that matter, each a key, a
value and the marks of what the patterns of `config_writer.py` do not see of it:
an exponent or underscores (half matched), a sign (not matched), blanks in a
header, a missing final newline, a comment. `SeenHeader`, `Names` and `Matches`
are those patterns, `RuleOf` and `ValueOf` the loader. `Replaced` rewrites what the
pattern matches and keeps the rest, or adds a line after the block, which is
`Glued` to a last line that does not end. A handler
thread goes through `Look`, `Materialize`, `Read`, `Write`, `RequestReload` for
each field and `Answer`s; `Refuse` is every 4xx or 5xx. The loop `Consume`s the
flag and then `Reload`s. A service with no config file runs the defaults,
whatever is written later. `MutableFields` are the fields a request may name;
`Loadable` has of the loader what an edit can violate.

## 3. The runs

| Run | Config | Distinct states | Shows |
|---|---|---|---|
| `engine_window` | one window rule, 2/3 of 6 s, ticks 1 or 2 s apart, 8 s | 363,632 | evidence, its converse, starvation and what it leaves of a verdict, the gate |
| `engine_dose` | one dose rule, budget 8, gaps of 1 and 3 s around a cap of 2, 11 s | 52,329 | heat is paid for, not forgiven, and announced |
| `actuator` | every table over 3 processes; a pool of supervisor, worker, watchdog, client with a recycled pid, refused kills and quiet spells; 3 throttles of a tree of 2 and a reload, suspends nest | 295,696 | the root, protection, escalation, the end of the treadmill; every suspended process is covered, and every suspend answered by a resume |
| `throttle_overlap` | the second tree is smaller than the first; suspends do not nest | violation | finding 1 |
| `throttle_nested` | a tree twice, one process of which cannot be suspended; suspends nest | violation | finding 2 |
| `kill_refusal` | a client below the supervisor refuses every kill | violation | finding 3 |
| `service` | pauses of 3 s, checked every 2 s, PATCHes, edits, restarts, any file | 590,331 | pauses hold, end and are told; malformed files and PATCHes |
| `service_cap_paused` | the RSS cap kills, during a pause | violation | finding 4 |
| `sensors` | GPU collector in its loop, helper, supervisor, discovery, presence, mirror | 683,714 | see below |
| `helper_hung` | the helper alone, with fairness | violation | finding 5 |
| `side_channels` | reporter, forensics, notices, configuration edits | 477,694 | see below |
| `config_unloadable` | configuration edits alone | violation | finding 6 |

Deadlock is checked in the engine and service runs and in `kill_refusal`. It is
not where the program or a bounded instance stops: in `actuator` the walk has
returned, and in all runs of `Throttle` the service has exited and the processes
are gone; in `sensors` the discovery is made, the service has exited, and the
mirror is watched up to `MaxTime`; in `side_channels` and `config_unloadable` the
handlers have answered all requests of the bound; in `helper_hung` the collector
is shut down.

**Engine.** `SustainedEvidence` is the promise that "67% of the last 30 s" takes
20 s of data, 67% of it over the threshold: the samples behind an action span the
fraction, up to one tick.
The smoothed cadence may lag behind the real one; the samples of a window may
then be denser than it says, and span as much less (section 6). The property
says so for whatever distance d the samples keep; for d equal to the smoothed
interval it is the plain promise. `HotRuleFires` is its converse: a rule that
was hot for as long as its window keeps samples acts, unless it cools down, is
paused, or is reported unable to fire. `StarvedIsSilence` has two halves:
`StarvedExactly` ties the starved flag to the silence of the signal, and
`StarvedRulesAbstain` the verdict to the flag: the age at which a sample is stale
grows with the cadence, and until 2.5 ticks outlast the starvation limit a rule
that is reported starved judges nothing. (Beyond it, it does: the disjunct of the
property is needed, also in this instance.)
`HeatIsPaidFor` and `HeatIsNotForgiven` bound the dose from both sides: an action
spends a budget that was really measured, and unbroken heat is never lost.
`KillIsAnnounced` is the near-limit warning (in a run without pauses; see section
6). `IsActionGate` is the refinement. The bounds: eight seconds hold a whole
window of six, its cooldown and a pause of four begun anywhere;
eleven hold a dose that is filled, drained
over a gap, filled again and spent. Two readings (three for the dose) are all a
rule tells apart: under, over, and over by more.

**Throttle.** Three throttles are the least in which a timer is cancelled after
its successor was; two actuators are one reload; two processes are a tree that can
be half suspended. A process that refuses to be suspended is in
`throttle_nested` only, and in the proofs. With suspends that nest, "covered"
is about the resume that every suspend is owed, not about the process running
again: `EverySuspendIsAnswered` says that it comes, and finding 2 that it may not
be enough. `ExitLeavesOnlyInFlight` says
what a shutdown may leave behind: a process whose timer thread had popped it and
died with the service before the resume. It is stated for a service that never
reloaded, see section 6.

**Kill.** `FindsTheRoot` is checked over every parent relation, set of keepers
and protection on three processes, cycles included. The pool is the least
machine with a protected owner, siblings, and a protected process (the watchdog)
below a target. `ProtectedSpared` and `SiblingsSpared` hold whatever exits and
is respawned during the grace period; a process that took over a recycled pid is
the one exception, and section 6 says so. `SiblingsSpared` counts the victims
that were children of a protected process above the offender (`OwnersAbove`).
`AskedBeforeKilled` and `TreadmillEnds` are about the whole spell of kills. The
treadmill need not end: a supervisor whose kill the system refuses lives on with
its count popped, and a count goes stale when kills are further apart than the
futility window. The property names both, and any number of each may happen. The
limits of the code (ask at 2, kill at 3) are used as they are.

**Service.** All events happen in one run, between any two phases. A pause of 3 s
outlasts a check interval of 2 s and runs out before the next check or on it;
ticks of 1 and 2 s put every phase against every distance to the check and to
the end of a cooldown. `PauseHonoured`, `PauseEnds` and `HealthTellsThePause`
compare the three copies of the pause once the last write, and the last new
engine, is a check interval old. `CooldownKept` is about one engine's rule.
`PatchesTakeEffect` is a leads-to: after a PATCH that was accepted, the file is
the loaded config in the end, whoever changes it in between, or it is no config
any more. `service_cap_paused` checks the pause for all the service does to
processes (`NothingWhilePaused`), the rules and the cap.

**GPU restarts.** `RestartsBounded`, `NoRestartForATransient`, `CardComesBack` and
`ImplementsRestartBudget` are about the GPU collector in its loop, as a subject of
`sensors`. A budget that is kept in a file is worth what the file is, so
`RestartsBounded` has two halves: `WithinBudget` is about the restarts since the
file last failed, and `RestartsApart`, which holds with any file, is what is left
without it, the uptime floor. The instance has one restart in 3 s and a floor of
2 s, so that the floor alone would allow a second one in the window; two driver
versions and two installs, which hold an install that is taken back; one jump of
the clock. Every other budget, window and floor is the theorem's.

**Sensors.** `ServedIsFresh` compares what `sample()` returns with
the time the line was printed, over a helper that hangs, dies and is replaced
while an old line is in the pipe. `ReadyIsTrue` and `StopLeavesNothing` have two
process ids, so that one is reused, a foreign listener that comes and goes, and
every limit of the supervisor reached. `ReadyIsTrue` allows a child whose own
probe was answered by another listener, and `StopLeavesNothing` a service that
exits before its loop has drained; section 6 has both.
`NoDieReadingAsVram` is checked over every order of every subset of four sensors
on two cards, and every history of two samples, missing values included, of the
two that matter.
`PresenceIsTrue` has a tick count that wraps after 4 s, two sessions, any start of
the sentinel, one reload and one failing file operation. `BlindIsListed` and
`HistoryIsExact` have rings of 2 and 3 entries with means of 2 and 4 samples, so
nine ticks fill, overflow and splice all three. The three reach exactly as far
back as they are read or one tick further, which is the hard case.

Ages are capped one step past the limit they are compared with, so these state
spaces are complete except for the counters named as bounds.

**Side channels.** `NothingVanishes` accounts for each event at each moment, with
two webhooks, two events, a queue and a spool of two (three items overflow both),
one outage, and one crash or disk failure; `DeliveredOnce` and `SpoolDrains` are
its other half, where a report whose receipt was not answered in time may arrive
twice. `NothingSlips` accounts for each tick of the forensic stream
over two failing operations and three archives. `KillsAreTold` and `MuteHolds`
compare what is told with what was asked for, over a crash or a failing write.
`LoadedFollowsFile` and `EditsAreLocal` have two requests out of seven kinds, at
once or in sequence, on files laid out in two ways, missing, or written by hand:
with numbers the pattern half matches or misses, blanks in a header, no final
newline, with and without a comment on the last line.

### Fairness

* `Throttle`: the service thread runs on, and each timer's wait ends and its
  thread runs. No fairness for throttles, reloads, shutdown or process exits.
* `KillTree`: a kill action that has begun is one call and runs to its end.
  Respawns are free to happen or not; the treadmill is about runs in which they
  do.
* `ServiceLoop`: the loop ticks, and an HTTP request that has begun is finished
  (`do_POST` is one call on its thread).
* `SelfRestart` (`CardComesBack`): the loop ticks; nothing is assumed of NSSM, a
  process that is down is excused.
* `LhmHelper` (`HungIsReplaced`): the loop samples once a tick, reader threads
  read, time passes. Nothing is assumed of the helper.
* `LhmSupervisor` (`StopLeavesNothing`): its thread runs, a `stop()` that has
  begun goes on, and a process that was killed ends. Every wait of the loop ends
  by itself or at the stop event. Nothing is assumed of how long the loop takes:
  the join may time out, and the exit of the service is not fair.
* `Reporter` (`SpoolDrains`): the delivery thread runs, time passes, and the
  telemetry ping, which is on by default, comes again and again; without it
  nobody would notice an old spool. Subscribers and disk get better for good only
  as the premise of the property.
* The other modules check safety only and assume none.

## 4. The proofs

**`EngineProofs`**, for every rule table, reading, tick gap, pause and bound.
The inductive invariant `IInv` is TypeInvariant together with

* `ClockInv`: the engine's instants (`lastSampleAt`, `doseAt`, `firstTickAt`) are
  those of the readings and ticks it was given, and none is in the future.
  Without it a dose step could run backwards in time.
* `CooldownInv`: a rule's `cooldownUntil` is its last action plus its cooldown.
  Neither `CooldownSpacing` nor the refinement is inductive without it.
* `HeatInv`: `hotHeat <= dose <= measured`. The dose lies between the heat of the
  current hot run and all the heat since the last action; each side gives one of
  the two promises about heat.
* `StarvedExactly`, `HeatIsPaidFor`, `HeatIsNotForgiven` themselves.

`StepIInv` has one lemma per part for a tick (`TickType`, `TickClock`,
`TickCooldown`, `TickStarvation`, `TickHeat`); pauses and drains leave all but
types alone. From it: `TypeCorrect`, `StarvationExact`, `HeatPaidFor`,
`HeatNotForgiven`, `CooldownHolds`. `EngineIsGate` is the refinement: initial
states map to initial states, a tick maps to a gate tick (`TickIsGateTick`), a
pause or unpause to the gate's, a drain to a stutter. Assumptions:
`ConfigAssumption` (a rule has the fields config.py validates),
`BoundsAssumption` (naturals, ticks move time forward), `PendingAssumption`,
`WarnAssumption` (the warn fraction is below 1), `AgeAssumption` (the least age of
a stale sample is below the starvation limit: `max(2 / hz, 2)` against
`max(10, 5 / hz)`).

`StarvationExact` also needs, for the half that is about verdicts, that a window holds nothing its rule has not read
(`WindowIsRead`): then all of it is as old as the silence, which is stale unless
2.5 ticks are longer still (`SilenceIsStale`).

`KillsAreAnnounced` has two hypotheses: nobody pauses (a pause swallows a
warning, section 6), and no single reading carries a dose from below the warn
fraction to a full budget (`StepsAreSmall`; the shipped rule is far from it).
Its invariant is `AnnounceInv`, which `engine_dose` checks as well: a dose beyond
the fraction is flagged, a flagged dose is above zero and was warned of. So the
flag neither falls while the dose is beyond the fraction nor outlives its drain
to zero, which would leave the next dose without a warning.

`EvidenceIsSustained` has no hypothesis. `EvidenceInv` adds to `IInv` that a window
holds one sample of each tick (`OneSamplePerTick`), so that its samples can be
counted by the time they span: samples that are d apart are at most span / d + 1
(`SpacedAreFew`), and the rule asked for the fraction of the window at the
smoothed rate (`TickSpan`). That the fraction of them is over the threshold is
`TickOver`, from what `evaluate_window` compares. (`FractionAssumption`: `config.py:817` to `:821`)

`HotRulesFire` has the hypothesis `CadenceFits(lo, hi)`: ticks are between lo and
hi apart, and at the slowest of them a window holds as many samples as the rule
can ask for at the fastest. So it is, about, while the slowest tick is no longer
than the fastest by more than the inverse of the fraction (half as long again for
0.67): the loop sleeps to a fixed period, and MCEngine checks that its instance, 1
or 2 s for a fraction of 2/3 of 6 s, is on the edge of it. Beyond it the rule can
be a sample short just after the loop slows down, before the smoothed rate says
that it is unable. `HotInv` has `CadenceInv` (the smoothed interval is never below
lo) and `FilledWhileHot` (any span of hi within the hot time has a sample, and
all of them are over), from which `FilledAreMany` counts enough samples.

**`KillProofs`**, for every table of finitely many processes.

`KillRoot`: `RootIsFound` says that the loop of `find_kill_root()`, when it ends,
has the root that `KillRootOf` defines, in tables with parent cycles too.
`FollowsTheClimb` is what the loop keeps: it has been over a chain of the climb,
from each process it has left it went to the parent, and it stands on the next
one. The climb is a recursive function of the parents; that it is closed
(`ClimbClosed`) and the least set that is (`ClimbLeast`) are lemmas by the
induction of `Recursion`. `RootIsSafe` and `TypeCorrect` come with it. Assumes that
the marker `"walking"` is no process. That the loop ends is model-checked.

`KillTree`: `TreeInv` is `KillTypes` together with

* `Forest`: who lives has a parent that lives, or none, and processes can be put
  in an order that has parents first. Deaths, respawns and recycled pids keep it.
  In a forest two children of one process have no common descendant, and that is
  why a subtree is one job;
* `WellChosen`: from the choice of the targets on, none of them is protected, of
  the children of owners above the offender they have at most one, and whoever
  was killed is one of them.

It gives `KillTypeCorrect`, `ProtectedAreSpared` and `SiblingsAreSpared`, for any
machine, strangers and manifests, and for the escalation at any limits.
`OwnersAreAskedFirst` (`AskInv`: whoever has futile kills enough to be asked, or is
marked as asked, was asked in this spell of kills) has one hypothesis, that no
pid is recycled (`MaxRecycled = 0`). It is needed: the code counts futile kills by
pid, and a stranger that takes over the pid of an owner inherits its count.
Assumptions: `PidsAssumption`, `EscalationAssumption` (ask before kill),
`MachineAssumption`.

**`ServiceLoopProofs`**, for every check interval, cooldown, pause and tick
length, and with all events (pauses, PATCHes, any edit, restarts). `IInv` is

* `Types`, the types of the variables;
* `PhaseInv`: what the engine asked for is pending only until the dispatch, what
  was done is on record only until the sleep, and the pause check is over when
  the engine runs;
* `DisarmedInv`: a malformed file disarms the service, and a disarmed service
  runs the default config, whose every action is a kill that is demoted;
* `GateInv`: what is pending or done by a rule was decided by an engine that is
  not paused, and the cooldown covers what the last action leaves of it;
* `CopiesInv`: engine and mirror agree with the sentinel, unless it was touched,
  or the engine replaced, since the last check, or a request or check is half
  done.

It gives `MalformedNeverActs`, `PausesEnd`, `PausesHold`, `HealthIsTrue` and
`CooldownsHold`. None of the three about time is inductive without `CopiesInv`
or `GateInv`: the properties name the sentinel, and the engine acts on its copy.

**`ThrottleProofs`**, for any processes, kill roots, number of throttles and
reloads, timers that fire anywhere, and suspends that nest or do not.
`SuspendedAreCovered` has one hypothesis: no process belongs to two kill roots
(`DisjointTrees`); without it the run `throttle_overlap` is a counterexample. `CoverInv` is TypeInvariant and the property together with

* `PhaseInv`, `StopsInv`, `TrackedInv`: only a throttle at work has processes in
  its hands, only live and suspendable ones are stopped, and a tracked timer has
  the process that tracks it;
* `TimerInv` and `TreeInv`: a timer, and the throttle at work, have all that is
  left to suspend of one tree. So what a new throttle takes from a timer that it
  cancels, it takes as a whole;
* `WholeInv`: a pending timer that is tracked for one of its processes is
  tracked for all of them, and another timer of that actuator that meets it
  contains it. So a late timer that forgets somebody else's processes forgets
  all of them, and a shutdown cancels no timer half of which it does not resume.

What an action does to the sequence of timers is stated once, in a lemma per
action (`RecordShape`, `ForgetsShape`, ...), and the invariant has a lemma per
action. `ExitLeavesInFlight` has no hypothesis; its `ExitInv` says that as long as one
actuator serves, a process that awaits its resume is in the hands of the
throttle, tracked, or being resumed. Neither says that one resume wakes a process
that was suspended twice; where suspends nest it does not (finding 2).

**`RestartBudgetProofs`**, for every budget, window, uptime floor and tick, under
the hypothesis `Bounds` (they are naturals), and for a file that fails at any
reading or writing: `BudgetHolds`, of the restarts since it last did, from an
invariant that relates the file, the uptime, the last failure and the exits of all
lifetimes, and with any file the uptime floor between two restarts, from the part
of the invariant that leaves the file out.

**`SensorProofs`**, one section per component.

* `SelfRestart`. `CollectorFitsTheLoop` is the refinement, with the GPU
  collector's request as `wants`: each step of collector and loop is a step of
  `RestartBudget` or a stutter, since a request once made stands until the
  process ends. `BudgetHoldsForTheCard` follows from `RestartBudgetProofs`, and
  `TransientsAreSpared` from an invariant that bounds the length of the failure
  spell by the time since the last good tick. (`LimitsAssumption`)
* `LhmHelper`. `ReadingsAreFresh`, for every limit: `AgeInv` says that the reading in
  `_latest` is at most `ReaderDelay` older than the collector believes, of
  whichever helper it is. (`HelperAssumption`)
* `LhmSupervisor`. `ReadyIsSaidTruly`, for any coming and going of other listeners:
  what was answered for a child that never came up was answered by its own probe.
  `StopIsClean`, the safety half of `StopLeavesNothing`: once `stop()` has returned
  and the loop has ended no child is alive but those that are killed, whether or
  not the join waited. `SupervisorInv` has `ChildrenAreKnown`: a child that lives is
  killed, in `_proc`, or in the hands of the loop or of `stop()`, which end it; this
  is what the race between a spawn and a stop could break.
  (`SupervisorAssumption`)
* `SensorDiscovery`. `NoDieReadingIsVram`, for any catalogue, tolerance, order of
  listing and history with missing values, under the hypothesis that a card has
  one hot spot (`OneHotspotPerDevice`; the junction is compared with the first
  only). A copy is missing where the hot spot is, so both have the same number of
  values; then the k-th smallest of the one is within the tolerance of the k-th
  smallest of the other (`RanksAreClose`), and so are the medians. (`DiscoveryAssumption`)
* `StateMirror`. `BlindRulesAreListed`, for any signals, rings and limits.
  `MirrorInv`: the newest sample ends the finest ring, and if it is credible it is
  the last one that was believed. (`MirrorAssumption`)

  `HistoriesAreExact`, for any rings that reach as far back as they are read.
  `HistoryInv` relates the three rings of a signal to all that was ever pushed:
  what has not left a pending mean is less than one block and newer than the
  rest (so each ring has its own "all that came to it"); of that, `RingInv` says,
  a ring holds the newest blocks, in order, and two blocks of a ring are as many
  block lengths apart as places. `Aligned` says that a block of tier 1 lies within
  one of tier 2 or after it; the order across the seam needs it. From this,
  `RingReaches` (nothing within the reach of a ring is gone) and `Seam` (what is
  missing up to the end of a span is one block that straddles it, or what waits)
  give the bound. (`RingsAssumption`: 3600 samples for an hour, 2160 blocks of 10
  for six, 1440 of 60 for a day are exactly enough at a tick a second; more ticks a
  second are outside it, see section 6)
* `InputIdle`. `SentinelIsTrue`, for any sessions, thresholds and period of the tick
  count. `IdleInv`: no session is newer than the last touch, the loop's count of
  its silence is the age of the last sample, and opinion, sample and file agree
  unless the section was turned off or a file operation failed.
  (`IdleAssumption`)

**`SideProofs`**, likewise.

* `Notices`, for any sessions, jobs, rules and limits. `KillsAreAlwaysTold` needs
  `LimitInv`: a spent budget for kills is no older than the last kill notice that
  was posted, or whose post failed; that is where the separate class for warnings
  counts. `MutesAlwaysHold` needs
  `MuteInv`: each mute that must hold is in memory with as much time left as the
  next look may take (`Slack`), its job is alive, and, as long as the last write
  worked, it would be read again after a crash. (`NoticesAssumption`: a look at the
  workers comes before a job counts as gone)
* `ConfigPatch`. `EngineFollowsTheFile`, for any number of clients (`ConfigInv`: a
  loaded config that is not the file's has its reload requested, under way, or
  about to be requested by a handler that has written). `EditsStayLocal` is about
  the text: what `update_rule_field()` is about to write says the new value of the
  field and, of every other field and rule, what the file said, where the writer
  reads of the text what the loader does (`ReadsAlike`: it sees every header, the
  field is no number it matches in part or not at all, and where it has to be added
  the file ends with a newline; section 6 has what happens otherwise). It holds of all texts whose
  tables have one name each (`IsPlain`, which `PlainInv` keeps over any edits); a
  table with two names is no TOML, so a file that has one is refused by the loader.
  The lemmas are about texts: an insertion and a replacement keep which lines are
  of one table, and a line that is glued is of the table it was (`AlikeIsPlain`,
  `LinesStayLines`, `ReplacedIsPlain`). (`RequestsAssumption`: clients name
  `MutableFields`; others are refused)
* `Forensics`. `NoTickSlips`, for any number of archives, ticks and failures:
  `RotationKeeps` says that a rotation, whole or broken off at any rename, loses at
  most the archive it pushes out and what `excused` names.
  (`ArchivesAssumption`)
* `Reporter`. `NoReportVanishes` (`PassAccounts`: what a pass has read is delivered,
  given up, still to be tried or kept to be written back) and `ReportsArriveOnce`
  (`OnceInv`: until something breaks down, a report is in one place and there
  once, and what is still to be sent was not received or its receipt not answered
  in time). For any subscribers, queue and spool. (`ReporterAssumption`)

**`Recursion`** replaces the induction theorems of the library, which take a
predicate as a parameter: `Induct` is induction for a set of naturals, `StepByStep`
the existence of a sequence whose n-th member a function makes of the one before.
The proofs about `Subtree`, `Climb`, `Cascade` and the first or last line of a text
rest on them. `SpacedAreFew` and `FilledAreMany` count the instants of a span: those
that are d apart are few, and those that leave no gap of d are many. The proofs
about the engine's windows and the mirror's blocks rest on these.

**Only model-checked**:

* every liveness property, as fairness is out of the prover's reach:
  `EverySuspendIsAnswered`, `TreadmillEnds`, `PatchesTakeEffect`, `CardComesBack`,
  `SpoolDrains`, and the liveness half of `StopLeavesNothing`;
* the types of components for which no theorem names them; the invariants above
  contain the types that the proofs need.

## 5. Findings

Each is the one property of a run that TLC violates.

1. **`throttle_overlap`: a process may stay suspended for ever.** A throttle
   cancels the timer of each process it suspends again (`actuator.py:1242`), but
   that timer was to resume a whole tree. When the second tree is smaller, since
   a parent died in between, the rest of the first is left suspended until the
   service exits.
2. **`throttle_nested`: a process that is throttled twice stays suspended.** Where
   suspends nest (`NtSuspendProcess`, `actuator.py:403`), the second throttle
   suspends again and cancels the resume of the first; the one resume that is
   left, of the timer or of a shutdown, does not wake the process.
3. **`kill_refusal`: a client that refuses every kill dies with its owner.**
   `_escalate` looks for `atfield_never_kill` on the owner only; the owner's tree
   is filtered by name and command line.
4. **`service_cap_paused`: the RSS cap kills during a pause.** `enforce_rss_cap`
   asks for observe-only mode and not for the pause.
5. **`helper_hung`: a sensor helper that hangs is never replaced.** `sample()`
   reports it as degraded and starts a new helper only when the process has
   ended; the module says of a stalled helper that it will try to re-spawn it.
6. **`config_unloadable`: a PATCH that is answered with 200 can leave a file that
   the loader refuses**, after which the service runs the default rules and only
   observes: the action `kill` for a rule with `notify = true`, a fraction of 0,
   or a key that a hand-written rule has before its name, which is then there
   twice. A field that is added after a last line without a newline is glued to
   it, and `notify = truecooldown_s = 300` is no TOML either.

## 6. Behaviours the properties have to allow

The model has these as well. They are conditions of the properties above, or
outside the instance of a run, and a reader of the properties should know why.

* Pause and cooldown live in the engine, and a reload builds a new engine
  (`service.py:662`): up to a check interval of a pause, and all of a cooldown,
  are lost. So `quiet` and `sinceAction`, which the properties of the pause and
  of the cooldown are stated with, start over with a new engine; a restart voids
  the cooldown too, but not the pause, as its first tick checks it.
* A reload replaces the actuator without its `shutdown()` (`service.py:663`): at
  an exit after it nothing resumes what the old one had suspended. So
  `ExitLeavesOnlyInFlight` is for the first actuator.
* A kill that the system refuses is only reported (`actuator.py:391`, `:1465`,
  `:1505`), and the count of an owner that was to be killed is popped all the same
  (`:965`). `TreadmillEnds` has this and the stale count as ways not to end.
* `_resume_pids` pops every pid, whichever timer tracks it now
  (`actuator.py:1265`), so a late timer forgets a newer throttle's entry. The
  newer timer is alive and resumes all the same; only a shutdown misses it, and
  its timer thread dies with it.
* The two phases of a kill act on bare pids (`actuator.py:1464`); a stranger that
  took a pid over during the grace period may be killed. The kill properties
  except it by name (`stranger`).
* One long tick (a gap of up to 60 s counts as cadence) raises the smoothed
  interval so far that the sample requirement falls to three
  (`policy.py:404`), and ticks at the usual pace then fill it early. So the span that
  `SustainedEvidence` promises shrinks in the proportion of the real distance of
  the samples to the smoothed one. The other way round, just after the loop has
  slowed down, a rule may wait for more samples than its window can still hold
  and not be reported unable yet; `CadenceFits` keeps `HotRulesFire` to paces
  for which it cannot.
* The freshness limit widens with the observed tick while the starvation limit
  is fixed (`policy.py:316`, `:434`), so on a very slow loop a rule that is
  reported starved may act: the condition of `StarvedRulesAbstain`.
* With a fraction of 1.0 and a non-integral product of window and rate, a rule
  is reported unable although its slack-widened window fires.
* The near-limit warning is dropped by a pause and its flag stays set
  (`policy.py:629`), so a kill after the pause may be unannounced.
* Bytes that are not UTF-8 raise what `load_config` does not translate: a reload
  keeps the old engine, and a start crashes. `MalformedIsSafe` is about files
  that parse as text.
* A service started without a config file goes on without one: a PATCH creates
  a file that no reload looks at. `PatchesTakeEffect` asks for `hasPath`. An
  editor's save is loaded only at the next reload request or restart.
* A budget file that cannot be read, or is torn, counts as empty, a write that
  fails is logged, and the service restarts all the same (`service.py:99` to
  `:113`). So without its file the budget is none; what is left is the uptime floor.
  `WithinBudget` counts from the last failure of the file.
* Turning `[presence]` off, or an unlink that fails, leaves the sentinel
  standing, as the loop writes on changes of opinion only. `PresenceIsTrue` asks
  for neither in its first half. The source of the idle time is chosen once: a
  service probed before anybody logs on publishes no presence until it restarts.
* The NVML collector asks for a restart for a driver on disk that it saw differ
  twice an interval apart, also if the file cannot be read, or is the old one
  again, at the second look. A process that starts in the middle of an install
  fails its probe, and that collector is never polled again; `CardComesBack`
  excuses it (`gpuHealth # "failed"`).
* `LhmSupervisor`: the probe is a connection to the port, and any listener takes
  it (`lhm_supervisor.py:702`), such as a LHM that an earlier service has leaked. So
  a child that serves nothing may be called ready: the exception of `ReadyIsTrue`
  (`impostor`).
* `LhmSupervisor`: the join of `stop()` gives up after 10 s (`lhm_supervisor.py:311`),
  which the loop may spend before it spawns; the service may then exit over a
  child that nobody ends, as its thread goes with it before it drains. The
  exception of `StopLeavesNothing` (`loop = "gone"`).
* `LhmSupervisor`: while it backs off after a restart for HTTP, the status still
  says `running`, with the pid of the process it has killed. A killed process is
  not waited for (`lhm_supervisor.py:558`): it may outlive `stop()` for a moment,
  and hold the port against the next child.
* `/headroom` takes its median over all samples of a minute, also those that were
  not credible. A rule can be `live` by its signal and `starved` by the engine at
  once. With more than one tick a second the first history tier covers less than
  the hour that `slice` takes from it. The rings are cut by wall-clock times, and
  the model's clock never runs backwards; a clock that is set back would leave
  samples out of order in the rings.
* Reporter: the leftover spool of an earlier process is noticed only with the
  next event of the same directory; one that cannot be read is forgotten until
  then; a crash in the middle of a pass sends again what the pass had delivered;
  new events overtake spooled ones.
* Forensics: the cascade keeps one archive more than `KEEP_ARCHIVES`, and a rename
  that fails after its unlink loses an archive although the docstring calls the
  rotation crash-safe; `excused` has both.
* Reporter: a POST that times out counts as failed (`reporter.py:79`), so a report
  that the subscriber has taken by then is sent again (`unanswered`).
* Notices: the rate limit is spent by a post that fails, so the next kill of the
  period is not told either (`src/CHANGELOG.md:297` accepts it); `lostAgo` has the
  post in `KillsAreTold`. A mute is pruned by the
  first request after an outage of about an hour although its job lives; the
  property excuses an outage of that length.
* Configuration: the pattern of a value (`config_writer.py:190`) matches the `9` of
  `9e1` and the `4` of `4_000`, and rewrites that much of them; it does not match
  `+85`, so that a second key is added; a header with blanks inside does not end a
  rule. A field that is added after a last line without a newline is glued to it
  (`:246` to `:253`): to a value it makes a line the loader refuses, and after a
  comment it is part of the comment. `ReadsAlike` keeps `EditsAreLocal` to texts
  without these.
* Configuration: two PATCHes at once may lose one of the edits (no property says
  that they do not; `LoadedFollowsFile` is about the file as it came out); a PATCH that fails
  on a later field leaves the earlier ones in the file and asks for no reload
  (`leftover`); half a preset is loaded when another request's reload comes in
  between.

## 7. Not modelled, and the plan

Not modelled, for good: the tray and the installer, rendering (metrics,
snapshots, texts, the displays of `atf`), the audit log (written, never read back
by the loop), sensor I/O, static tables.

Not modelled, as they have no protocol beyond one call: the LHM HTTP collector
(it reads by positions found at the probe, so hardware detected anew shifts
them) and the AMD collector; a torn file of notice preferences, which the code
counts as empty.

What could come next:

1. Drills: an engine of their own with a queue of eight, where a ninth request
   displaces the first.
2. `expand_rules` and the validation of `config.py` as operators against a
   reference.
3. Reload in `KillTree`: futile counts and stop requests are lost with the
   actuator.
4. The LHM HTTP collector behind the supervisor.

Every invariant and action property of the passing runs is stated by a theorem,
and so are both refinements. A further step is the hypotheses that remain:
`MaxRecycled = 0` of `OwnersAreAskedFirst`, no pauses in `KillsAreAnnounced`, and
`CadenceFits`.
