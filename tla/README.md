# tachi-agent in TLA+

tachi-agent is a TypeScript agent runtime: a ReAct loop over a model and MCP
tools, with a long-running daemon (HTTP gateway, persistent task queue,
schedules, streaming of runs), chat frontends, swarms of workers, and external
coding agents that run as child processes. This directory specifies the parts
of it where order, failure and restarts matter, checks them with TLC on small
instances, and proves some of what is checked with TLAPS for every value of
the constants. Paths below are relative to the repository (`src/daemon/queue.ts`
and so on); `PROJECT.json` maps every definition to the lines it stands for.

    tlc -config Daemon_queue.cfg MCDaemon.tla      (and so on, see "Runs")
    tlapm DaemonProofs.tla                         (and the other *Proofs.tla)

## 1. Inventory

One Node process is one event loop: what runs between two `await`s is atomic,
every `await` is a point where timers, other requests and other callbacks run.
Everything below shares that rule; the modules' actions are cut at the awaits.

| Component | State it keeps | Operations | Modules |
|---|---|---|---|
| Persistent task queue, `daemon/queue.ts` | `tasks` in memory, `queue.json`, one shared `.tmp` name | `open`, `enqueue`, `claim`, `complete`, `fail`, `flush` | TaskQueue, QueueFile, VersionedFile, AtomicRegister |
| Queue worker, `daemon/worker.ts` | `busy`, `current`, the interval | `start`, `tick`, `inFlight`, `stop` | Daemon |
| Schedules, `daemon/schedules.ts` | `lastRunAt` in memory and in `schedules-state.json`, definitions in a file people edit | `tick`, `isDue`, `flushState` | Daemon |
| Daemon life cycle, `daemon/index.ts` | drain flag, timers | start, GC timer, `drain`, exit, restart by a supervisor | Daemon, Gateway, Service |
| Run registry, `gateway/registry.ts` | per run: status, sequence number, ring buffer, subscribers, reference count, abort controller | `create`, `append`, `subscribe`, `incRef`/`decRef`, `finish`, `abort`, `collect`, `runningCount` | Gateway |
| Gateway server, `gateway/server.ts`, `sse.ts` | one sink per SSE response | `POST /runs`, `GET /runs/:id/events`, cancel, `POST /tasks` | Gateway, Daemon |
| Streaming client, `bridge/openclaw/client.ts` | last event id | `attach`, resume, abort | Gateway, EventStream, Chat |
| Coding workers, `coding-agents/{concurrency,mcp,coordination,runner,preflight,review-worktree}.ts` | semaphore, leases (in an external server), throwaway worktrees, child processes and their timers | `acquire`/`release`, `runCodingAgentHandler`, `runCodingAgent`, `executeCommand` | Coding |
| Orchestrator, `agent.ts` | conversation of one run, counters | `run`: iterate, dispatch tools, halt | Agent |
| MCP tool host, `host/mcp.ts` | connected servers | `call` with timeout and abort | Agent |
| Memory, `memory/dokoro.ts` | none (an external server's) | `recall`, `note`, `log`, best effort | Agent |
| Swarm, `swarm/swarm.ts` | next worker index, results | bounded pool, quorum, synthesis | Swarm |
| Chat sessions, `chat-commands.ts` | driver, skill and history of a chat | `handleChatLine`, `resolveRunOptions`, `pushHistory` | Sessions, Conversation |
| Chat front ends, `frontends/{telegram,slack,repl}.ts` | offset, map of sessions, the controller of the turn under way, status messages | poll or receive, run a turn, show it, `/reset`, Ctrl-C, eviction, end | Chat |
| Unified client, `client/unified.ts` | none | `run` in the process or on a daemon | Chat |
| Run event log, `daemon/eventlog.ts` | a chain of appends per process, one file per run | `append`, `read` | EventLog |
| Installation, `setup.ts`, `service.ts`, `env-bootstrap.ts`, `doctor.ts` | env file, launchd's property list, launchd's copy of it, the daemon's environment | the wizard, `service install` and `uninstall`, the doctor, launch and restart by launchd | Service |
| Model drivers, notifications, the other commands, skills | none that outlives a call | | Service has the driver's API key; else see section 7 |

How they interact:

- `POST /tasks`, the worker and the schedules call the queue's synchronous
  mutations and then, each on its own, `flush()`. Nothing orders the flushes.
- The worker calls the orchestrator (`runTask`) and `notify`; the gateway calls
  the orchestrator for `POST /runs` and appends its events to the registry,
  which pushes them to the subscribed sinks.
- `drain` stops the timers, waits for the worker's task against a timer, tells
  the sinks, waits for them against a timer, and exits.
- The process may die at any point. The supervisor starts it again; what it
  then has is what `open()` and `readState()` load.
- A chat front end runs a turn through the unified client: in its own process,
  or as a run on the daemon whose events it streams. It edits a status message
  at the vendor while the run goes on, and nobody waits for these edits.
- The daemon's settings come from the property list that launchd has loaded,
  with the env file for defaults; the programs at the command line write both,
  each on its own.

What is hard here, and which properties answer for it, is listed with its line
in `PROJECT.json` under `hazards`. The themes:

- *overlapping flushes* of one file under one temporary name;
- *crashes* between claim, run, complete, flush of the queue and flush of the
  schedules' state, and failures of a flush inside `tick()`'s `try` block;
- *reconnecting clients* against a ring buffer that evicts, runs that are
  aborted while they still emit, GC, and drain;
- *one slot, one lease, one child process* per coding call, which must be given
  back on every path, whoever of abort, timeout, overflow and exit comes first;
- checks that come before an await whose answer is used after it;
- *sessions that change while a turn runs*, messages handled twice or lost with
  a bot that dies, Ctrl-C at any await between the terminal and the daemon;
- *appends nobody waits for*, which must land in order and survive each other's
  failures;
- *four copies of one setting*, written by programs that can be killed between
  any two steps and may run at the same time.

What makes each component correct, in a sentence: the queue neither loses, nor
repeats beyond its limits, nor gives up on a task unfairly; the worker runs one
task at a time and every task settles; a schedule fires again only when a period of
its present definition has begun, and its state is never ahead of the queue; a
client sees a run's events in order and without holes, and every stream ends; a coding call gets its slot in order and
gives slot and lease back; a run of the agent gives the true reason for its end
and stops soon after an abort; a swarm runs each role once and synthesizes last.

## 2. Modules

**TaskQueue** is the data of the queue and its synchronous mutators, as
operators: `Enqueued`, `Claimed` (with `NextDue`, the first queued and due
record), `Completed`, `FailedAttempt`, `Reopened` (what `open()` does to a
parsed file). Tasks are numbered in creation order, which is the order of the
array. `notBefore` is the Boolean `cooling`; texts, answers and timestamps are
left out.

**QueueFile** is `flush()` at the granularity of `mkdir`, `writeFile` (open
with truncation, write, close) and `rename`, for any number of callers with one
temporary name. The content of a file is the set of snapshots its bytes come
from: `{}` empty, `{d}` the text of `d`, more than one a text laid over a longer
one. A descriptor follows its file through a rename, so a late write can land in
the queue file itself. `flush()` returns by the rename or rejects (ENOENT when
another flush has taken the temporary file, or a fault of the file system).

**VersionedFile** puts a version number in the place of the queue, lets callers
flush at will and the process die at any step, and relates the whole to
**AtomicRegister**, the abstract specification of what an atomically saved file
promises: what is stored is a version the memory has had, and it never goes
back. The refinement mapping takes `stored` to be what a reboot would load.

**Daemon** composes TaskQueue and QueueFile with the request handlers of
`POST /tasks`, the worker's tick, the schedules' tick, drain, crash and restart.
State: `tasks` is the live queue; `worker`, `poster`, `sched` say at which await
each activity is and which task it holds; `stateFile` is `schedules-state.json`;
`disk` and `flush` come from QueueFile. Actions, by code:

| Code | Actions |
|---|---|
| `POST /tasks` | `PostArrives` (before the body), `PostEnqueues`, `PostRefused`, `PostAnswered` |
| `tick()` of the worker | `WorkerClaims`, `RunAnswers` / `RunFails`, `WorkerFlushed`, `FlushTakenForFailure` (the flush rejects in the `try` block), `UnhandledRejection` (it rejects in the `catch` block), `Said` |
| `tick()` of the schedules | `SchedTicks`, `SchedFires`, `SchedFlushed` / `SchedFlushRejects`, `SchedSaves` |
| `flush()` | `FlushGoesOn` and the outcomes above |
| `drain()`, the process | `DrainBegins`, `DrainEnds`, `Crash`, `Restart` |
| time | `BackoffElapses`, `TimePasses` |

The clock is in units of which a day has `DayUnits`. At each tick of the schedules
the definitions are any that a hand may have left in the file since the last one
(`Definition`: a kind with its time of day or its interval): entries come, go and
change. Variables such as `runs`, `ran`, `acked`, `fired` are history: no action of the
program reads them.

**Gateway** is the registry with its handlers and the streaming client. Events
are their sequence numbers, so the ring of a run is the last `BufferMax` of
`1 .. seq`; each connection has a server end (open, subscribed, written) and a
client end (alive, frames under way); the client is its `Last-Event-ID` and its
outcome. `Emits`/`EmitsFinal`/`RunResolves`/`RunRejects` are the execution,
`Attaches` is the GET handler with the 404, the 409 and the replay, `Collects`
the GC, `Breaks` and `ServerSeesClose` the two ends of a lost connection, which
are not simultaneous. **EventStream** is the abstract specification: a client
is handed consecutive events, in order, once. `StreamsAreFaithful` says that
Gateway implements it for every client.

**Coding** is the semaphore, the handler of `run_coding_agent`, the claim of a
lease on an external server that may not answer (`Claims`, `Reports`,
`LeaseExpires`), the preflight and the throwaway worktree of a review
(`Prepares`, `Copies`, `CleansUp`), and the process runner with its timeout, its
abort listener and its SIGKILL timers. A worker process runs on its own and may
ignore SIGTERM. The handler is cut at its awaits: `cwd`, `claim`, `preflight`,
`worktree`, `exec`, `clean`, `report`, `leave`.

**Agent** is `run()` of the orchestrator, cut at its awaits: recall, grounding
search, inspection, the driver's turn, each tool call, note and refreshed recall,
log. `LoopHead` is the head of the loop (iterations, signal, deadline, in this
order), `Halted` what follows the loop. A call of the host hears the signal only
if it was made before the signal was raised (`Calling`); `Aborts` cuts those
that hear it. The conversation is reduced to what the answer is taken from: the
last text of the assistant that is not the empty string, which may be white
space. **Swarm** extends it with the pool, the quorum check and the synthesizer;
one signal and one counter are shared by all.

**Sessions** has a chat session and its commands as operators: `Handled` is
`handleChatLine`, `RunOptions` is `resolveRunOptions`, `Pushed` with `Capped` is
`pushHistory`. A setting is the number of the message that made it, so that one
can say which of two is the later. **Conversation** is the abstract
specification: a memory of the latest exchanges, each whole and once, in the
order in which they ended, that can be forgotten at any time.

**Chat** is the three front ends, each in one of two modes, local or daemon
(`front` and `mode` are chosen in `Init`), with the sessions, the map of
sessions and its eviction, the handlers of messages and what the user sees:

| Code | Actions |
|---|---|
| Telegram's poll loop and handler | `Polls`, `TelegramReceives`, `ReplySettles`, `TaskSettles` |
| Slack's Socket Mode | `SlackConnects`, `SlackDisconnects`, `SlackReceives` |
| the terminal | `ReplReceives`, `ReplBegins`, `CtrlCPosting`, `CtrlC`, `TerminalCloses`; `LetsGo` within the steps that end a turn |
| `run()` of the unified client | `LocalRunEnds`; `Posts`, `Attaches`, `StreamEnds`, `DaemonRunEnds` |
| what a bot shows | `StatusSettles`, `Progress`, `EditSettles`, `FinalEditSettles`, `FallbackSettles`, `ErrorSettles` |
| the process | `Ends` (also a crash), `Dies` within the steps whose rejection nobody handles, `Restart` |

The loop over a batch of Telegram updates has no await, so nothing else runs
while it goes on (`Idle`). Slack has no commands, and the terminal has one
session. `paused` is the terminal's readline: `runTurn()` pauses it, and the end
of a turn, or the prompt after a command of the same pasted block, resumes it.
While it is paused nothing typed is read, neither a line nor Ctrl-C
(`ReplReceives`, `CtrlC` and `TerminalCloses` have `~paused`). `ConversationsKept`
says that every session object, also one that was evicted while a turn held it,
implements Conversation.

**EventLog** is `append()` with its chain of promises, the directory that is
made once, and its failures, where a write may leave a part of its line;
`Readable` is what `read()` finds. **Service** composes it with the daemon that
keeps it and with the installation: `envFile`, `plist`, `loaded` and `daemon` are
the copies of three settings that stand for all (the token, the driver, and the
API key of one of the drivers). The programs at the command line are cut at
their awaits: `Begins` (with the defaults from the env file), the wizard's
`Answered`, `EmptiesFile`, `WritesFile`, `Offers`, the installer's `Collects`,
`EmptiesPlist`, `WritesPlist`, `BootsOut`, `BootsUp`, `Removes`, and the doctor's
`Examines`; launchd has `Starts`, `Dies` and `LogsIn`. A file is written by
emptying it first, and a write may break off anywhere (`Torn`). The history
variable `doubt` names the settings whose copies may differ, and every place
where the code makes them differ adds to it.

**MC...** modules only declare the model values that the `.cfg` files use (and,
for Gateway, who follows which run). **...Proofs** modules hold the theorems.

## 3. Runs

| Run | What it asks | Instance |
|---|---|---|
| `daemon_queue` | what never happens to a task | 1 request handler, 2 tasks, limit 2, a crash or drain and a restart |
| `daemon_live` | every task settles | the same without restart |
| `daemon_schedules` | one firing per period; state file behind the queue file | one schedule that is edited to be absent, daily at one of two times, or at an interval; days of 2 units, times 0 to 2, 3 firings, one fault, one restart |
| `gateway_streams` | the client's stream is the run's; counts, cap, sinks | 2 runs, 1 client, 2 connections, ring of 1, 3 events |
| `file_callers` | the flush protocol is an atomic register until flushes overlap | 2 callers, 3 versions, 1 fault |
| `coding_calls` | slots, leases, copies and workers in step; every call returns | 4 calls, 2 with the same file, 1 review, 2 slots |
| `swarm_agents` | reasons, abort, the pool, its end | 3 members, one with 4 iterations, 2 tools a turn, pool of 2 |
| `chat_fronts` | sessions, delivery, what is shown, abort | 3 messages of 2 chats, a map of 1 session, a history of 2 exchanges, 1 restart; each front end in both modes |
| `service_logs` | the copies of the settings; the event log | 2 programs with any answers, 1 end of the daemon or logout, 1 run with 3 events |
| `file_shared` | refuted: "Persistence is atomic" | 2 callers, 2 versions |
| `gateway_leak` | refuted: running runs are what the cap counts | as `gateway_streams` |
| `chat_loop` | refuted: "one error can't kill the loop" | as `chat_fronts` |

Why the bounds are enough. *Two callers* of `flush()` are all that a race over
one temporary name needs; in Daemon there are three (request, worker, schedules)
and each may come again. *Two tasks* make one wait behind the other, and *limit
2* separates a first failure from the last. *Two incarnations* give a reload
from an old file; what repeated restarts do is covered by the theorems, which
hold for any number. *Days of two units and
times 0 to 2* reach the second day's HH:MM of a schedule at the beginning of the
day, and both of a day's two times, so that moving one to the other fires twice a
day; *three firings* are two with an edit between them and one of the next day.
The second incarnation is followed through the first day and two tasks only
(`SecondLifeIsShort`), which is a firing before and one after the crash. The
clock never goes back. *A ring of one event and three events* make the ring evict while a
client is away, and *two connections* are what a reconnecting client has while
the server has not noticed the break. *Four calls for two slots* give two
waiters (order, and the abort of either) while two workers run; one of those
that plan the file reviews in a copy of its own.
*Four iterations* of one member, with one blank turn
forgiven, are what a streak of blank turns, its interruption by a tool turn and
the last iteration need; the other runs have one turn each and end early, late
or never before their timeout, which is all the pool sees of them; *three roles
for two workers* leave one to be taken by whoever is through first. One member
has memoryInLoop and the inspector, as `makeAgent` is the caller's to give.
*Three messages, the first and the last of one chat*, are a turn, another chat
that evicts its session from a map of one, and a command or a second turn of the
first chat while the first turn still runs; *a history of two exchanges* has
an order, and the third pushes the first out. What each message may be is fixed in MCChat,
so that the kinds that interact (a driver, a plain turn, `/reset`, `/task`) are
met in the order in which they do. *Two programs* are what a race over the env
file or the list needs, or a wizard after a broken one; *one end* comes between
any two steps of them. *Three events* are one that fails with a part of its
line, the one glued to it, and one after. That more programs, events or ends
change nothing is proved (section 5).
`CHECK_DEADLOCK FALSE` stands where the bounds, or the exit of the process,
really stop the system.

Fairness. `daemon_live`: the worker's interval keeps firing, `runTask`, `notify`
and file-system calls settle (runTask is bounded by its timeout), backoffs pass;
requests and crashes owe nothing. `gateway_streams`: a run that executes ends
(the agent's deadline) and its promise is handled, and a client reads what has
arrived; nobody owes an abort, a GC or a drain. `coding_calls`: the handler's
awaits settle (each call of the host has a timeout), timers fire, and a process
group that is gone closes its pipes; a worker need not exit, nor a caller abort.
`swarm_agents`: each call of the host and each request of a driver settles (both
have timers of their own); the deadline need never pass and nobody need abort.
`chat_fronts`: the calls of vendors and of the daemon settle, runs end (their
deadline), a poll or a new connection brings what waits, and a bot that died is
started again; the Slack bot's receiving is strongly fair, because its
connection may be lost again and again but not each time before anything comes
over it. Nobody owes a line of the terminal, Ctrl-C, a lost connection or the
end of a process. `service_logs` has no liveness: launchd, the user and the
programs owe nothing.

## 4. What the checks show

- Until two flushes overlap, the file is always one whole queue, saved
  atomically, whatever crashes and faults there are. Once they overlap it is
  not: a rename may publish an empty or older text, and the other rename rejects
  (`file_shared`). Everything that depends on the file says `~overlap`.
- A task is never run twice at a time; a restart can cost it one attempt beyond
  its limit and no path gives it up early. An attempt that a crash interrupts is
  not counted unless somebody else has flushed meanwhile (see below).
- A flush that rejects right after `complete()` queues an answered task again;
  `DoneStaysDone` names this as the only way.
- A process fires a schedule again only when a new period of the definition then
  in force has begun since its last firing: today's HH:MM lies between, or the
  interval has elapsed. An entry that is not edited thus fires once a day or once
  in its interval; one whose `at` is moved to a later time after it has fired fires
  again the same day, as it then asks. The state file never records a firing whose
  task is not on disk. After a crash between the two flushes the next process
  fires again: `OneFiringPerPeriod` is about one incarnation only.
- Clients see gapless streams over breaks, eviction and resumes, every stream
  ends, and a stream that is cut short belongs to an aborted run.
- Coding slots are counted exactly, given in order and never idle, a confirmed
  lease is its worker's alone while the worker is watched, lease and copy are
  given back on every path but those `GivenBack` names, and every call ends
  even if its worker ignores SIGTERM. `NothingLeftBehind` names the two things
  that can outlive a settled run: a worker that overflowed its output and ignores
  SIGTERM, and a first SIGKILL timer after two terminations.
- An agent's run reports the true reason for its end, over any mixture of
  blank and tool turns, deadline and abort. After an abort it dispatches the rest
  of its turn's tools (with a signal the host no longer hears), a note, a recall
  and the log, and no further turn unless the inspector was writing.
- A swarm runs each role once, synthesizes when all are recorded, and returns.
- A chat session, in the map or evicted, remembers whole exchanges once and in
  order, and a `/reset` cannot be undone by a run that ends after it. A run
  begins with the settings of the commands before it. Every turn of a bot is
  shown to its end unless the very last call for it failed or a progress edit
  was carried out after it. The terminal is deaf only while a turn is under way,
  and a Ctrl-C that it hears then stops that turn, here or on the daemon, unless
  the daemon could not be reached, refused the events, or its answer had not come;
  once two turns of a pasted block have overlapped it may stop the wrong one, or
  close the terminal under the one that is left (`overlap`). A call that
  fails outside a `try` block ends the Telegram bot (`chat_loop`); with a
  restart every message is still begun.
- Readers of the event log see the events of a run in order, and one failure
  costs at most one event more (the line glued to a broken one).
- Copies of a setting differ only after a broken write, after two programs at
  once, when the daemon was installed with settings that are not the env file's,
  and, for driver and key, while the wizard's change is not installed. The
  wizard, run alone and with the installation, makes them agree from any state.
  Nothing is installed, loaded or running without a token, and whoever is told
  to use OpenRouter has its key, but for the case named at `DriverHasKey`.

Other places where documents say more than the code does, or where the code does
something nobody may have meant, met while modelling and not given a run:

- README "a queued task survives restarts": an acknowledged task can be lost to
  overlapping or rejected flushes.
- `queue.ts:7-9` lets an interrupted attempt count against the limit, but the
  worker does not flush after `claim()` (`worker.ts:54`): unless somebody else
  flushes meanwhile, the file has the task queued, with the attempt not counted.
- "a still-running run is never collected" (`registry.ts:138`): an aborted run
  still executes and may be collected; "no more events will come"
  (`server.ts:293`): it still emits; heartbeats "pass no seq" (`sse.ts:13`):
  `server.ts:267` gives them the newest number, harmless by `SinksSound`.
- A critical role that halted without text counts as one that answered: the
  placeholder of `agent.ts:273` is text to `swarm.ts:79`.
- A review task that looks like a flag makes the command throw after the
  worktree was made and before the `try` block (`runner.ts:588`): the copy stays.
- A worker that printed too much and ignores SIGTERM outlives its slot and its
  lease (`runner.ts:331` clears the timer that would kill it).
- "Ctrl-C stops the current turn" (`repl.ts:6`): readline is paused while a turn
  runs (`repl.ts:171`), and a terminal in raw mode whose input is paused reads no
  Ctrl-C. The turn goes on; the Ctrl-C is read when it is over, and since `active`
  is null by then it closes the terminal (`repl.ts:222-225`). It is heard in
  time only when the prompt of a command pasted along, of a `/task` that settles, or
  of another turn's end has resumed readline. In the model: `CtrlC` is never enabled
  in a behaviour in which each line comes after the one before has settled.
- A chat over a daemon whose history has grown beyond what `gateway/server.ts:138`
  accepts is refused at each turn until `/reset`; entries are capped by number
  (`chat-commands.ts:29`), not by size.
- `/task` queues without the session's or the skill's driver
  (`chat-commands.ts:291`), although turns use them.
- `eventlog.ts:54` means to make the directory once; `mkdirDone ??=` keeps a
  rejected promise as well, so one failure refuses every later append of the
  process (`Refused`).
- `service install` takes the driver of the shell and not its API key
  (`service.ts:216`), and a wizard that is not asked to install leaves launchd
  with the old driver: the daemon runs the old one, or ends at each launch.

## 5. Proofs

All with TLAPS, for any values of the constants that the named assumptions
allow (natural-number bounds, positive attempt limits, the flushers being the
requests, the worker and the schedules).

- **QueueFileProofs**: lemmas on the flush protocol: types, and that no step
  makes a snapshot that was not held before, but for the one it takes.
- **VersionedFileProofs**: `SoloWriter`, `FileIsWhole`, `RenameFindsOwnText`,
  together `FlushesAreSound`, and `AtomicWithoutOverlap`. The inductive
  invariant is `TypeOK /\ (~overlap => Solo)`, where `Solo` says that one flush
  at most is past its snapshot, that the snapshot lies between the stored and the
  current version, that the temporary file is that flush's own, and that the
  stored version is not ahead. Without the second part a rename could not be
  shown not to go back. The refinement of AtomicRegister follows step by step.
- **DaemonProofs**: lemmas on what the queue's mutators do to one record and
  leave alone in the others; `TypeCorrect`, then `Invariance` of
  `Inv == TypeOK /\ DownIsEmpty /\ WorkerHasTask /\ CopiesSound /\ OneRunAtATime`.
  `CopiesSound` is the strengthening: `AttemptsFair` speaks of the queue in
  memory after a restart, which is *some* queue that a flush had taken, possibly
  under way during others; so every copy, in memory, in a flush or in a file,
  must be sound, relative to counters (tasks issued, runs, restarts) that only
  grow. A step changes the copy in memory and lets the others be what they or the
  memory were (`HeldStep`), and `SoundStays` does the rest. `WorkerRunsOne` and
  `AttemptsAreFair` (from `AttemptsAreBounded` and `GivenUpFairly`) follow, and the
  action property `DoneIsKept`. What is promised of the file, `AcksAreDurable`,
  `SchedulesAreSound` and `DrainIsClean`, needs a second invariant, `FlowInv`:
  while no two flushes have overlapped, one at most carries a text (`SoloFlush`);
  what is stored is in that text and what is in the text is in memory
  (`NothingDropped`); the task a request waits for, and the firings that the tick
  waits for, are in the text of *their* flush (`AcksFollow`, `StateFollows`); and
  no text shows a task running that this incarnation has run, but for the one
  whose tick is under way, which the worker's own text never does (`RunsFollow`).
  `Flows` is what a step does to stored and carried texts; each part is preserved
  from that. `FiringsBehind` (every firing of this incarnation lies at or before
  `lastRunAt`, also when the state could not be written) gives one firing per
  period, whatever overlaps and however the definitions are edited: what is due by
  a definition has begun a period of that definition since `lastRunAt`, and so
  since every earlier firing (`DueIsNewPeriod`).
- **SwarmProofs**: `TypeCorrect`, `PoolSound` and `SynthesizerIsLast` from
  `Inv == TypeOK /\ PoolIsSound /\ PoolSawAll`. A step of an agent, a deadline or
  an abort neither begins a run nor brings one back (`StepTypes`); all steps of
  the pool go through `Pulls`, whose effect on a role depends on its place
  relative to the counter (`PullPlaces`). `PoolSawAll` (an idle worker of a started
  pool has seen the end of the roles) is what `SynthesisLast` needs.
  `ReasonsAreTrue` and `AbortedRunsDoLittle` follow from `RunsSound`: the kind of a
  run's last turn fits the await it is at, its streak of blank turns is the true
  one until it logs, and the calls made after the signal are at most those that
  lead from a turn of the driver to that await (`CallsBy`), which needs that a turn
  is not begun once the signal is up, except from the inspector's await.
- **CodingProofs**: `TypeCorrect`, `SlotsAreSound`, `LeasesGuard`, `AllGivenBack`,
  and two action properties, `FirstComeIsFirstServed` and `NothingIsLeftBehind`.
  The invariant adds to the properties where things belong: the waiters are queued
  calls, each once (`Queue`), without which a slot could be given to somebody who
  does not wait; a confirmed lease is its call's until the handler reports, and one
  that the server keeps is known to its call, doubted or over (`Leases`); a copy is
  on disk from the worker's start to its end or is litter (`CopiesKnown`); and a
  SIGKILL timer is armed only after one of the two causes has been used, a stray
  one after both (`TimersUsed`). A step of a call with a slot needs only what
  `Keeps` lists; one that gives a slot back lets in exactly the oldest waiter
  (`LetsOneIn`), since nobody waits while a slot is free.
- **GatewayProofs**: `TypeCorrect`, `CapIsKept`, `SinksAreSound`,
  `NothingIsWithheld` and the refinement `StreamsImplementEventStream`, for any
  size of the ring and finitely many requests and connections
  (`GatewayAssumption`: counts are over them). That no client meets a hole is
  not inductive: the invariant says what is under way on a connection that is
  read. Its frames are, with a shutdown frame among them at most, the events that
  end with the newest one written, without a gap (`Shape`), each of its kind
  (`Kinds`), and they begin no later than the event that the client needs next
  (`Streams`). `ReplayShape` shows that the ring gives a new connection such
  frames unless the handler answers 409. `ConnSound` has the server's end: an open
  sink is subscribed, up to date, and its run has not published its last event.
  That a sink is not left open on a run that has needs the client: the replay
  would hold that event, or the client has it and does not attach again
  (`StaysWithAnActiveRun`, from `ClientSound`). The refinement follows from
  `RunsPublish` and `ConnsHandOver`.
- **ServiceProofs**: `LogSound`, `TypeCorrect`, `SettingsSound`, `KeysSound`. The
  log's invariant says that the numbers of events grow along a file and from the
  file to the chain (`InOrder`), and that each event waits, is lost, or has its
  line (`Accounted`); `LogKept` alone is not inductive, since it does not say what
  waits. The settings' invariant is `SettingsInv`: whoever is not alone leaves
  everything in doubt, so only a program that is alone has something to preserve;
  it knows what the files hold (`Knows`: the wizard holds what it writes, and has
  written to the list what the env file has); and the copies agree with the env
  file or, while that is empty, with what its writer holds (`CopiesAgree`).
  `Focus` reduces the step of a program to that case.

- **ChatProofs**: `TypeCorrect`, `DeliveryHolds`, `LastWordHolds`, `EndShown`,
  `AbortReaches` and the action property `ConversationsHold`, for any number of
  messages and chats and any even `SESSION_HISTORY_MAX`. `LastWordCounts` speaks of
  runs that have begun; it follows from the settings of the sessions, but only of
  those that a message can still reach (`SettingsLast` over `Live`): an object of a
  process that is gone, or one that was evicted and that no turn holds, has none of
  its lines' settings. That an exchange is pushed once rests on `MemoryKept`: what a
  session remembers are turns of its own whose run is over. What an abort finds rests on
  `ActiveRuns`: the turn in `active` is the youngest under way, and the lines of a
  pasted block that have not gone on are younger than the running turns, so a turn
  that begins stays the youngest. Nearly all steps are
  those of one turn (`Moves`, preserved once and for all by `MovesKeepInv`), and the
  lemmas named after the actions show that each is one. `PushedHistory` is the
  lemma on the splice: of the entries the latest pairs are left.

**The safety half of the liveness properties.** Fairness and ENABLED are beyond
the prover, so the five liveness properties themselves are only model-checked, on
the small instances of the runs. An argument for one has two parts that are
safety, and these are proved for any values of the constants: the steps cannot go
on for ever without progress, and whoever waits waits for somebody whose step has
its guard satisfied. What then remains is that this step, which FairSpec calls
fair, is taken in the end.

| Property (run by TLC) | Progress | Nobody waits in vain |
|---|---|---|
| `EveryTaskSettles` | `TasksLive`: only a claim counts an attempt, only `complete()` and `fail()` settle a task or put it back | `QueueNeverStuck`: an awaited flush has a next step; a queued task that does not cool down has an idle worker that finds a due task, or a worker that waits for a run, a notification or such a flush |
| `EveryStreamEnds` | bounded by the run's events, `StreamsImplementEventStream` | `WaitsAreNotInVain`: a client without a frame to read is subscribed to a run still executing, or its response was ended early |
| `EveryCallReturns` | `NothingGoesOnForEver`: each step lowers (`Stage`, `ProcLeft`) of a call and raises no other's, or ends a lease | `NobodyWaitsForNobody`: some call is between its awaits, has a dead worker to report, or a timer set |
| `SwarmReturns` | `SwarmGoesNotRound`: each step advances a run (iterations, then `Place`), the pool, or the signal, and takes none back | `SwarmWaitsForSomebody`: the pool can step, or a run has an answer to come |
| `MessagesSettle` | `TurnsOnlyGoForward`: `Rank` of a turn only grows while the process lives, and each `TurnStep` raises it or ends the process | the same theorem: a turn that waits for events has a run that goes on or an end to tell |

The invariants these need are small beside those of the safety proofs: that a
flush is under way exactly while its caller awaits it, with a file open when it is
to write (`FlushesAwaited`); that a connection being read is open or was ended by
the server, and that what was written to a client that has been handed nothing is
still on its way (`Fed`); that a queued call is among the waiters and a
running worker has a timer (`Queued`, `Timed`); and that a run within the tool
calls of a turn has one left (`ToolsLeft`). Which of several due tasks comes first
is not proved, since the least element of a set of naturals rests on an induction
the installed provers cannot instantiate; `QueueGoesOn` therefore says that a due
task exists.

Only model-checked: fairness, and with it the liveness properties as stated.
Recursive definitions, were there any, would stay with TLC as well: the prover
handles neither RECURSIVE operators nor induction over data.

## 6. Plan

Order: what persists and restarts first (queue, daemon), then what several
parties follow at once (gateway), what runs processes (coding), the agent's loop
with the swarm around it, the chat front ends over both, and what is installed
around the daemon. All of that is done. What is left, in this order:

1. Connecting the tool host to its servers.
2. `/task` of a chat composed with the daemon's queue.

## 7. Not modelled

Text (prompts, answers, HTML, Markdown, SSE bytes), wording of errors, logging,
authentication and validation (a refusal has no reason here), HTTP itself,
several tenants (they share nothing but the process), parsing of schedule
entries and of workers' output, model drivers (one request, no state),
what the memory's external server stores, notifications beyond
the fact that they settle, the MCP server front end (one call of the
orchestrator per request), the evaluation scripts under `scripts/`, the other
commands (they call the daemon or read the log, and print), skills (files that
are read), and the wizard's questions about other settings than the three.
Slack's redelivery of an event whose acknowledgement was lost is another message
here, as it is for `slack.ts`, which runs it again. The history that is passed to
a run is left out (in the process it is passed by reference, and a run sees it
capped only after its recall, `agent.ts:183`; no property is about what a run
does with it). In the event log an event is numbered by the order of the calls;
the code writes 0 for one of an aborted run that was collected while it went on
(`gateway/server.ts:158-160`). Of the terminal the TTY is modelled: with a pipe
for input there is no Ctrl-C, and what is typed ahead, or a Ctrl-C that arrives
in one read with a line, is read with that read. `broken` of a turn covers a GET
of the events that was refused as well as a connection that was lost. The reuse
of process numbers by the operating system and power loss (files are taken to be
on disk when the call returns) are outside the models too.
