# Verification of nanobot's agent gateway

nanobot (softnixclaw) is a personal agent: a *gateway* process receives messages
from chat channels, runs them as turns of a language model with tools, and sends
the replies back; an *admin* server manages the gateway's files and relays a
mobile app.  The admin server also starts, stops and supervises the gateways of its
instances.  This directory holds TLA+ models of the parts whose behaviour
depends on interleaving, failure and restarts, TLC runs that check them on small
instances, and TLAPS proofs for every instance.

Paths below are relative to the repository; line numbers are in `PROJECT.json`.

## The system

| Component | State | Operations | Talks to |
|---|---|---|---|
| Message bus (`bus/`) | two unbounded queues | publish, consume | channels, loop |
| Agent loop (`agent/loop.py`) | `_active_tasks`, `_processing_lock`, `_consolidating`, `_consolidation_locks` | `run`, `_handle_stop`, `_dispatch`, `_process_message`, `process_direct` | everything |
| Subagents (`agent/subagent.py`) | running tasks by id and by session | spawn, announce, cancel by session | bus, loop |
| Tools' context (`agent/tools/{message,spawn,cron}.py`) | target chat, `_sent_in_turn`, last message | `set_context`, `start_turn`, `execute` | bus, subagents, cron |
| Sessions (`session/manager.py`) | messages, `last_consolidated`, JSONL file | load, save, clear | loop |
| Memory (`agent/memory.py`) | `MEMORY.md`, `HISTORY.md` | `consolidate` | model, sessions |
| Cron (`cron/service.py`) | jobs, mtime of `jobs.json`, one timer task | start, stop, tick, add, remove, enable, run | loop, other processes through the file |
| Heartbeat (`heartbeat/service.py`) | one timer task | tick, `trigger_now` | model, loop |
| Channels and their manager (`channels/`) | connections, seen ids, albums | start, stop, receive, send | bus |
| Mobile relay (`channels/softnix_app.py`, `admin/service.py`) | `inbound.jsonl`, `outbound.jsonl`, histories, push offsets | poll, append, fetch, push | channel, admin |
| Accounts and routes (`admin/auth_store.py`, `admin/auth.py`, `admin/server.py`) | users and sessions in JSON files | log in, check, change, revoke; match a path to a permission and to an operation | admin server's threads |
| Devices and web chat (`admin/auth_store.py`, `admin/service.py`) | pairing tokens, devices, tickets, web sessions, transfers in JSON files; the list of senders in `config.json` and `allow_from.json` | pair, log in, approve, transfer, delete, edit | admin's threads, channel, gateway |
| Access requests (`channels/access_requests.py`) | one JSON file | record, remove | channels, admin |
| Instance lifecycle (`admin/layout.py`, `admin/service.py`) | pid files, stop file, container, watchdog and gateway processes, `restart_required` | start, stop, restart, status, reload, switch of mode, delete, create | admin's threads, watchdog, gateway |
| Control policy (`security/policy.py`) | versioned policy file, mtime cache | load, save, enforce | loop, admin |
| Configuration, providers, tools, context, skills, integrations, front ends, bridge | files or none | see `PROJECT.json` | |

The gateway is one asyncio loop: what lies between two awaits is atomic, and what
is read before an await may be stale after it.  Three places are concurrent
beyond that: other processes write `jobs.json` and the relay files, the admin
server has threads and runs shell scripts, and any step may be the last before a restart.

What makes each component correct, and hard to test:

* **Dispatch.** Each message gets one turn, in order of arrival, unless a `/stop`
  cancels it; `/stop` ends all work of its session and what it cancelled stays
  silent.  The hard part is `/stop` running beside task start, the lock's queue,
  done callbacks and the announcements of subagents.
* **Turn context.** A turn's tools act on the turn's chat; a reply is dropped only
  if the turn has spoken itself.  One context serves all turns, and some turns do
  not take the lock.
* **Sessions and memory.** A session is append-only until `/new`; every message
  that leaves the prompt's window is summarised; `/new` clears only what the
  model was asked to archive.  Consolidation awaits the model while turns go on.
* **Cron.** A due job runs, once; a removed or disabled job does not; one tick at a
  time.  A job's turn calls tools that edit the very schedule, and other processes
  edit the file.
* **Relay.** Messages reach the bus in order and once, answers reach the client, a
  push is sent once per answer.  Two processes append to, empty and rewrite the
  same files without a lock.
* **Accounts, devices, requests.** A used token or ticket stays used, a revoked session
  revoked, a deleted device out, and nobody slips past the owner's decision.  Every
  file is loaded, changed and replaced by threads that do not know of each other.
* **Channels.** A message is handled once or accounted for, in order, and a chat shows
  as typing only for a reason; reconnections, redelivery, albums and bounded
  memories of ids stand against it.
* **Lifecycle.** "stopped" means stopped, "started" started, and one gateway serves an
  instance.  Scripts, watchdog and handlers know each other from three files that
  any of them may write, and process ids outlive a reboot in them.
* **Policy.** The policy in force is the one saved, in every gateway, and the strictest
  rule that hits a text decides what is left of it.  Saves share one temporary file,
  loads write the default policy, and caches go by an mtime read before the file.

## Modules

| Module | Models | Runs | Proofs |
|---|---|---|---|
| `CronService` | `cron/service.py`, `CronTool`, edits by other processes | `cron` | `CronProofs` |
| `AgentDispatch` | bus, `run`, `_handle_stop`, `_dispatch`, subagents, outbound dispatcher | `dispatch` | `AgentProofs` |
| `TurnServer` | abstract: what the loop promises of its messages | `ServesInOrder` of `dispatch` | `LoopImplementsServer` |
| `SessionMemory` | turns of a session, `SessionManager`, `consolidate`, `/new` | `memory`, `memory_forgotten` | `MemoryProofs` |
| `TurnContext` | the tools' shared context, `process_direct` beside the lock | `turn_context` | `ChatProofs` |
| `MobileRelay` | the files between admin server and softnix_app channel, the push notifier | `relay` | `RelayProofs` |
| `AdminRoutes` | roles, permissions and operations of the admin server's paths, as operators | `accounts` | `AccountsProofs` |
| `AdminAccounts` (extends `AdminRoutes`) | users, sessions, passwords, requests step by step | `accounts` | `AccountsProofs` |
| `DeviceAccess` | devices, tokens, tickets, web sessions, access requests, lists of senders | `devices` | `DeviceProofs` |
| `Channels` | Telegram, Discord, WhatsApp, Slack and email between platform and bus | `channels` | `ChatProofs` |
| `ContentPolicy` | the policy file, its saves, loads and caches, and the judgement of texts | `policy` | `AgentProofs` |
| `Lifecycle` | scripts, watchdog and handlers that start, stop and keep an instance running | `lifecycle` | `LifecycleProofs` |

Each `MC...` module instantiates one of them.  A definition `X_Something` beside
`X` is a mutant of it: the form a plausible bug would give `X`.  A property's
mutant in `PROJECT.json` shows that the property notices that bug.

Variables marked *history* in a module record what properties speak about and
influence no action.

### CronService

`mem` is the gateway's `_store`, `disk` the file, `synced` the comparison of the
file's mtime with `_last_mtime` (an edit clears it; a save or load sets it).
`ticks` are the asyncio tasks `_arm_timer` creates, `handle` is `_timer_task`.
A tick wakes (`TickWake`: load, compute due jobs, begin the first), ends one job
after the other (`ExecDone`: record it, then the next, or save and re-arm), and
may be cancelled in between by a tool call of any turn (`ToolAdd`, `ToolRemove`
re-arm the timer, `Cancelled`).  `Stop` and `Start` are stops, crashes and restarts.
Other processes read (`ExtLoad`) and write (`ExtAdd`, `ExtRemove`, `ExtEnable`,
`ExtRun`) in two steps.  `_save_store` is two steps as well: an action of the gateway
that saves ends with the write, and `Stat` reads the mtime before the gateway does anything else.
A write by another process moves the mtime, unless it comes before `Stat` or within the same
tick of the file system's clock (`stamp`); the gateway then takes it for its own write (`missed`,
history) until it saves again, over that write.  The order of due jobs is left open, schedules are reduced
to a kind and a number, and the file is written in one step.

### AgentDispatch and TurnServer

Messages are numbered as they enter the queue, so the queue is the interval
`Inbox` and `asyncio.Lock`'s queue is `waiting`, served smallest first.  `Take`
makes a task and files it under its session key, `TakeStop`/`StopSubs`/`StopAck`
are the three parts of `_handle_stop` between its awaits, `TaskCancelled` is the
arrival of a cancellation, `Forget` the done callback.  `SubDone` puts a subagent's
announcement on the inbound queue as a system message.  `SendEnd` covers a send that
returns and one that raises: the dispatcher does the same.

`TurnServer` knows only which messages are pending and which were served: they
arrive in order, the oldest is served next, and some are withdrawn.  The mapping is
`pending <- Pending` (queued or live), `served <- served`.

### SessionMemory

The n-th message of a session is the number n.  `jobs[s]` is the queue of the
session's consolidation lock, `call[s]` the request its holder awaits, with what it
took before the await: the messages to summarise and the facts of `MEMORY.md`.
`JobDone`, `JobUntold`, `JobFails` and `JobHalfDone` are the outcomes; `Crash` goes back
to the saved files.  A call of `save_memory` counts as success whatever it holds: when
its `history_entry` is missing, empty or blocked by the policy, nothing is appended
(`JobUntold`) and the offset moves on, or `/new` clears the session, all the same
(`agent/memory.py:64-68,149-161`).  Such messages are in no summary; `untold` records
them and `ClearedAreArchived` and `NothingForgotten` make an exception of them.

### TurnContext

`target`, `sentInTurn`, `last` are the tools' fields.  `Begin` is a turn up to its first
await; user and system turns take `holder`, cron and heartbeat turns do not.  `Say`,
`SpawnSub`, `AddJob` are tool calls, `EndUser`, `EndSystem`, `EndCron`,
`EndHeartbeat`, `Abort`, `Refuse` the ways turns end, with what the caller delivers.
`overlapped` records which turns ran beside one outside the lock.

### MobileRelay

`inbound` and `outbound` are the two JSONL files, `log[d]` the history of a device,
`polled` what the channel has read and not yet published.  `listed` is `allow_from.json`, `None` while the
admin server writes it in place (`ListOpen`, `ListWrite`); `accepts` is the channel's list, which it reads
before each poll (`PollList`) and after a signal (`Reload`).  `PollRead` reads the lines,
`PollClear` empties the file and publishes the lines of devices that `accepts` has (`From`): the admin server
relays a paired device whether it is on the list or not, and the channel drops what it does not accept.
What `RelayIn` appends between `PollRead` and `PollClear` is gone.  `unheard` (history) keeps
both: messages nobody listened to, and those of a device that was not allowed all the time since.  `FetchRead` and `FetchWrite` are the two
halves of `get_mobile_replies`, `HistoryRead` and `HistoryShow` those of
`get_mobile_chat_events`; `marker` is the client's cursor.  `PushStat`, `PushRead`,
`PushNext`, `PushSave` are one scan of the notifier.  Both processes crash
(`Halt`, `AdminCrash`) and start again.

### AdminRoutes and AdminAccounts

`AdminRoutes` has the two classifications of a path as operators: `Permission...`
is `_match_permission`, `Operation...` the resolvers.  `AdminAccounts` runs requests:
a thread loads, decides, changes its `copy` and saves it, each access to a file
being a step of its own.  The status of an account is free text, of which the code compares only two values:
the guards test for `"disabled"`, the count of owners for its absence, a login for `"active"`; every other text
is `"other"`.  `Owners` is what the code counts, `ActiveOwners` who can log in; `demoted` (history) says that an owner
lost the role or was given such another status, which nothing checks.  The switch of a connector is served on any path that
begins and ends like one (`Switches`), with the connector's name in any of the `Spellings` that the code reduces to lower
case; the list of permissions has the plain paths only (`Respelled` are the others).  A copy is `stale` once another request has saved the
file, and `lost` names the files that were overwritten with a stale copy: the
exemption every property of read-modify-write files states.

### DeviceAccess

A request is a list of steps (`Plan`), each loading and saving one of the seven files;
the gateway is started, signalled, polls or stops meanwhile.  It writes one of the files itself: a channel that refuses
a sender records the request in `access_requests.json` (`note`), loading and saving the file beside the admin
server, while its event loop does nothing else (`Noting`).  That file is written in place, so that another writer may read it
empty (`Contents`), and a gateway that is ended in the middle leaves it so (`Breaks`).  `relay` is
`allow_from.json` (`None`: not there), `strangers` (history) the senders the
gateway has accepted although they are not on the list.

### Channels

One module for the five channels, whose common path is `BaseChannel._handle_message`:
`setup.kind` selects the guards and memories of each.  `offered` is what the
platform holds for the bot, `hand` and `got` what the channel has taken,
`album` Telegram's buffers, `known` the bounded memory of ids.  `denied`, `ignored`,
`dropped`, `missed`, `forgotten` and `again` (history) say where a message went.  The mail server returns the
mail it is asked for or passes it over, and may refuse to mark it as seen (`MarkSeen`), of which the channel does not
learn; `unmarked` (history) keeps such mails.

### Lifecycle

The scripts are read as a whole when they start; each of their commands that touches
a file or process is a step, at the place `thr[t].at`.  `Look` and `Fix` are
`find_host_gateway_pid` and `find_watchdog_pid` at the fifteen places in `Finds`.
A watchdog is a process with a place (`pc`) and a child it knows.  `Settled`: the
waits of the scripts (half a second and more) elapse only while no watchdog has a
command to run, and a stop's ten seconds for the watchdog end after the watchdog's
own ten for the gateway, which began before.  Docker is installed and answers, a
gateway ends after TERM, an id is used once per boot, and only a container binds the
published port.  The reply of every operation includes a probe of the status; it
is the operation `status`.

A script has sixty seconds (`Cut`).  The time limit kills the process the handler has started and none of
its children: when it is `restart.sh`, the `stop.sh` or `start.sh` it is in goes on (`Inner`); when it is
one of these itself, the docker command under way goes on (`Late`): a `docker run` that has an image to fetch,
a `docker stop` that waits, a `docker rm`.  Either is, from then on, the operation `orphan` of its thread, at the place
where it was (`Outlives`).  Commands of milliseconds have ended by the time of the kill.  A status probe has fifteen seconds and
may fail besides; then the status is `"unknown"` (`ProbeFails`).  `lapses` (history) holds what excuses the scripts:

* `overlap`, `probe`: two operations at once, or a status beside another (no lock
  orders them; the `rm -f` of a probe may remove the file a start has just written).  An operation that begins beside
  an orphan overlaps it: a start that goes on launches a watchdog after a later stop has said "stopped", a stop that
  goes on ends the watchdog a later start has found, a container appears beside a host gateway;
* `slip`: TERM reached the watchdog after it had launched a gateway and before it
  knew its id: the gateway goes on alone; or `start.sh` was cut off for good after it had launched
  a watchdog and before it noted its id: no other script finds that watchdog;
* `skip`: `stop.sh` of sandbox mode found no container and said "stopped" without
  looking for a host gateway (after a change of mode there is one);
* `switch`: the mode was changed, or the instance deleted and created anew, while something
  ran or a watchdog was at work;
* `already`: a start found the instance running, and cleared `restart_required`;
* `left`: the time limit ended a script for good that had written the file
  `stop`: the watchdog it was meant for ends, though nobody waits for it any more;
* `blind`: a connector was switched while `status.sh` gave no answer: what is not known to run counts as
  not running, and `restart_required` is cleared beside a gateway on the old configuration.

An invariant names the lapses it needs, and no other: each of them was met by TLC or in the
course of a proof, as a behaviour of the code.  Two came with the proofs.  "Already running"
can be said of a watchdog that a stop cut off in the middle has told to end (`left`), and
`restart_required` can be down beside a gateway no watchdog knows (`slip`) or one whose pid
file a status probe removed (`probe`).

### ContentPolicy

`file` and `temp` are the inodes behind the two names of the policy file, so that a save whose
temporary file another save has renamed writes on into the file in force.  `ReadVersion`, `OpenTemp`,
`WriteTemp`, `Replace` are `save`; `Judge`, `Exists`, `Create`, `Fill`, `Read` are `PolicyCache.get`,
`load` and `ensure_exists`, from the look at the mtime to the judgement; `View` is a page that
loads the policy.  `PutIn` leaves the mtime as it was or moves it on: two writes may fall into one tick
of the clock.  A text is a length and the spans that each rule's detectors find in it; `Sorted`, `Joined`
and `Merged`, `Cut` and `Masked` are the two loops of `_mask_spans`, whose result is the places that are left,
0 for a label; `Enforced` is what the loop leaves of the text, `<<>>` being a refusal.  `seen` (history) says what the file
held while a text was judged, `held` what it has been: its inodes, with the mtimes and policies they had,
`raced` that two have been writing at once.  `VerdictFollowsFile` exempts a cached mtime that the file has had
with two contents (`Blurred`): two saves within one tick of the clock leave a gateway with the older policy,
which the code does nothing about.  A rule has an action and a priority, of which only the action counts.

## What the runs show

Bounds are constants: `MaxTime` (clock), `MaxExt` (external edits), `TickIds` (timer
tasks alive at once; one more than the code needs), `MaxMsgs` (messages),
`MaxJobs` (consolidations queued at a lock), `MaxFaults` (crashes and failed
writes), `MaxCalls` (effects after which no tool is called), `MaxPid` (process ids,
never reached), `MaxSessions`, `MaxHashes`, `MaxRequests`.  The modules of the
admin server take a set of *deployments* (`Setups`, `Offices`): what
is installed at first, which operations are offered and how many of each.  One run
covers all of them, each small.

| Run | Bounds | Shows |
|---|---|---|
| `cron` | 2 jobs, one-shot or interval, clock to 4, an external edit between any two steps | one live tick; a waking tick starts only what the file allows, but for an edit that has the mtime of the gateway's write; until the first edit the timer is armed for the earliest job, one-shots complete at most once and due jobs run |
| `dispatch` | 2 chats, 3 messages, 1 subagent | `/stop` silences what it cancels and ends the user's work; turns in order; all are served; every `/stop` is confirmed |
| `memory` | 5 messages, window 2, 3 jobs, 1 fault | without a fault nothing is summarised twice; `/new` clears only what was summarised or the model left out; the guard is given up |
| `memory_forgotten` | same | **violated**: a turn ending during a consolidation hides messages nobody summarised |
| `turn_context` | 3 turns, 2 chats, 2 effects before the last call | turns that overlap with none outside the lock act on their own chat and do not answer twice |
| `relay` | 2 devices, 2 processes; crashes of both; a list of devices that changes twice | bus in order and once; only messages appended at the wrong moment, or of a device the list leaves out, are lost; pushes follow the file until it is rewritten; the cursor skips no event |
| `accounts` | 2 requests at a time on 9 installations; every route with every role | each route's permission is the operation's, but for a connector switched under another spelling; an active owner remains, unless one lost the role or was suspended, and names are unique; ended sessions stay out, a new password ends the old sessions, unless a stale copy was saved |
| `devices` | 2 requests at a time on 9 deployments | tokens and tickets are used once; a deleted device's sessions stay out; each paired device is decided on or waits, also beside a gateway that writes requests; the gateway accepts nobody off the list |
| `channels` | 10 deployments, up to 4 messages | each message is published at most once or is one the memory forgot and the server would not mark, is accounted for and in order; typing has a reason |
| `policy` | 2 saves beside 3 judgements of 2 gateways; 2 requests and a judgement before there is a file; crashes; all 96 policies of 5 rules on 4 texts | texts are judged by what the file held meanwhile; a version names one policy; the strictest rule holds, except where priorities would let the text pass, and masks are exact |
| `policy_priority` | same | **violated**: a text is masked although a rule that only warns has a higher priority |
| `lifecycle` | 2 handlers on 12 deployments, up to 4 operations, a death, a reboot, a script or probe cut off | a stop that says so has stopped everything; one runtime; a start leaves something running; strangers are spared; `restart_required` is true; a dead gateway is launched again |

Why the bounds are enough: the interesting cases need two of something and one step
between them.  Two jobs let one be due while another runs, and a clock of 4 gives an
interval of 2 a run that ends after the next is due.  Three messages are a turn that runs, one that waits and
a `/stop`, or a subagent's announcement between them.  With a window of 2, five
messages bring two consolidations and a `/new`.  Three turns are two under the
lock and one outside it, and two effects let a turn be told of by another and still
speak.  For files that are loaded, changed and saved, two threads suffice for every
overlap of two requests, and one id more than a request needs for one that comes
after it.  An album needs two parts and one that is late, a bounded memory one entry
less than the messages.  A stop, a start and one operation before them, with one death
of the gateway, bring every race of scripts and watchdog; two threads, two handlers.
Two saves and a third judgement let a policy be loaded, replaced and judged by again.
The proofs remove these bounds for what they cover.

`TimerCoversEarliest`, `OneShotCompletesOnce` and `DueJobRuns` are stated until the first edit of
`jobs.json` that passes the gateway by (`Unedited`): a job that another process adds has no timer
until the next tick.

### Findings

`PROJECT.json` lists two with the text they contradict: messages that are forgotten, and the
order of policy rules.  FR-9 of the PRD (`PRD-CONTROL-POLICY.md:402-408`) resolves conflicts
by "higher priority first", then by the more severe action; `enforce_text` takes the most
severe action and looks at priorities only between rules of the same action
(`security/policy.py:793`).  A text that a rule of high priority would let pass is masked or
blocked by one of low priority: `PriorityDecides` is violated, and `StrictestRuleHolds` makes an
exception of such texts (`Overruled`), of which it does not say who is right.
The modules state more properties that documents, comments or tests of the repository
suggest and the code violates; TLC finds each in seconds with the configuration named:

| Property, configuration | What happens |
|---|---|
| `OneShotRunsOnce`, `MCCronOneShot` | `_arm_timer` cancels the tick that executes a job when the job's turn edits the schedule: the one-shot starts again (`skills/cron/SKILL.md:14`) |
| `HonoursExternalDisable`, `MCCronDisable` | a job disabled or removed by another process while a tick executes still starts (`tests/test_cron_service.py:36`) |
| `StopEndsTurns`, `MCDispatchSystem` | `/stop` is confirmed while the turn that reports a subagent's result goes on (`agent/loop.py:523`) |
| `StopEndsUserWork`, `MCDispatchThread` | in a session with a key of its own, the turn's subagent survives `/stop` (`agent/loop.py:523`) |
| `FactsKept`, `MCMemoryFacts` | a consolidation overwrites facts written to `MEMORY.md` while it awaited the model |
| `WithheldOnlyForOwnMessage`, `MCTurnContextShared` | a cron turn's message suppresses a user's reply (`tests/test_message_tool_suppress.py:23`) |
| `EditedListHolds`, `MCDeviceEdited` | `update_channel` does not write `allow_from.json`: at its next poll the gateway goes back to the old list (`channels/manager.py:225`) |
| `FailsOnCached`, `MCPolicyFails` | while the policy file cannot be read, texts pass unjudged although a policy is cached, and a consolidation of memory, which judges too, fails (`JobFails`, `JobHalfDone`) (`PRD-CONTROL-POLICY.md:543`) |
| `NoAutoReply`, `MCChannelsAutoReply` | a mail without subject is answered although `auto_reply_enabled` is false (`config/schema.py:74`) |

Others were met while reading and need no model checker:

* a schedule run from the admin console is recorded although nothing executes it
  (`ExtRun`), and a failed system turn reports its error to a channel that does
  not exist (`Abort` of `TurnContext`);
* Telegram starts typing before it checks the sender, so a refused chat types for
  ever; Discord and Slack refuse senders on their own and record no access
  request, against the log line of `channels/manager.py`; a Slack direct message that
  mentions the bot is passed over;
* `_match_permission` (`admin/server.py:1387`) lists `/admin/skills-bank` under POST, it is
  served by GET; the check of the last owner covers disabling, not a change of role nor a status such as
  "suspended", with which nobody can log in any more (`demoted`);
* a connector is switched on any path that begins and ends like that of a switch, and the permission is asked for on the
  plain paths only: under another spelling the switch asks for none (`Respelled`);
* approving a request of a device that was deleted meanwhile leaves an entry on the list;
  a ticket approved before its device was deleted can still be exchanged;
* a `save_memory` call without an entry counts as success, and `/new` then clears messages that
  are in no summary (`untold` of `SessionMemory`);
* a memory update that the policy blocks empties `MEMORY.md` (`agent/memory.py:60`), and the policy's
  `on_error`, `fail_closed_for_block_rules` by default, is read by nothing;
* the lapses of `Lifecycle` above; and the sandbox scripts and the HUP of a reload
  signal the process in the file without a look at its command line.

### Fairness

* `CronService!FairSpec`: a save is finished, a timer task whose sleep is over runs, and the turn of
  a job returns or raises (the loop bounds its iterations, the provider its
  requests).  Neither users, other processes nor the clock have to act.
* `AgentDispatch!FairSpec`: the event loop runs ready callbacks (the run loop, the
  lock's next waiter, a task with a cancellation on its way, the dispatcher); turns,
  subagents and sends end.  Nobody has to write.
* `SessionMemory!FairSpec`: consolidations make progress; the request returns or
  fails.
* `Lifecycle!Fairness`: the watchdog's commands are executed, and a gateway that got
  TERM ends.  No handler has to act.
* The other modules state no liveness: their actors are users, platforms and clients,
  who need not act.

`CHECK_DEADLOCK FALSE` is set where the bounds on messages, turns, operations or faults let
the system rest; the gateway of `CronService` never does.

## What is proved

All theorems hold for every value of the constants that satisfies the named
assumptions of the module.

* **Cron** (`CronProofs`): `TypeOK`, `LiveTickIsHandle`, `CacheCoherent`,
  `WakeHonoursFile`, `TimerCoversEarliest`, `OneShotCompletesOnce`; and, of a gateway that is alone with
  its file, `IntervalKept` and `OnlyStoredJobsStart`.  `IInv` adds that a stored job has a known schedule and that an
  executing tick has a job.  The first is needed to compute a next run at all, the
  second to finish a job; `LiveTickIsHandle` is inductive because every
  operation that creates a task first cancels `handle`.  `CacheCoherent` and `WakeHonoursFile` hold
  while no write of another process has been `missed`.  The last four rest on `Undisturbed`:
  nothing the gateway holds is stale (`Alone`), a one-shot that has completed is not
  scheduled again even in the file a crash leaves (`OneShotsSpent`), an interval job is
  scheduled an interval after it completed (`IntervalsAhead`), and what an executing tick
  has yet to start was due when it woke and has not changed since (`QueueFresh`).  `AloneInv` states it
  until the first edit by another process; the theorems of the last two have `MaxExt = 0`.
* **Dispatch** (`AgentProofs`): `TypeOK`, `ActiveIsLive`, `HolderIsOldest`, that
  `AgentDispatch` implements `TurnServer`, and `HaltedStaySilent`.  `IInv` adds `LockOK`
  (a task is cancelled only while it holds or awaits the lock, and does not do both) and
  `SubsHaveChat`.  The refinement follows from `HolderIsOldest`: the turn that ends is
  the oldest pending one.  `HaltedStaySilent` rests on `Silenced`: no turn that a
  confirmed `/stop` has halted is at work, and one that a `/stop` still awaits is at work
  only with its cancellation on the way; `NewReplies` says that only turns at work add
  to the replies.  `StopEndsUserWork` rests on `Emptied`: while a `/stop` is handled its session
  has no task, and once the subagents of the chat are cancelled none begins.  The theorem
  has the hypothesis `Overrides = {}`, that no channel sets session keys of its own:
  subagents are filed under the chat and `/stop` cancels those filed under the key, so that
  with such keys TLC refutes the property (`MCDispatchThread.cfg`).
* **Memory** (`MemoryProofs`): `TypeOK`, `OffsetInRange`, `DiskBehind`, `GuardMeansWork`,
  `MessagesAppendOnly`, `ClearedAreArchived`, `SummarisedOnce`.  `IInv` is the types and, per session,
  `SessionInv`: with `LockOK`, a `/new` is last in the lock's queue, and the request
  of the lock's holder still fits the session: a background job has something to
  move the offset over, and `/new` has all unconsolidated messages in hand.  Without
  it `JobDone` could leave an offset beyond the session.  `SummarisedOnce` needs `InOrder` of
  each session: messages are told in order, what lies behind the offset is newer than every
  summary unless a fault came between, and a call has in hand only what lies between the offset
  and what is kept (`Unsettled`).
* **Turn context** (`ChatProofs`): the types with the lock's exclusion (`TurnTypes`),
  `StaysHome`, `WithheldIsHeard`, `NoSecondAnswer`.  `TurnIInv` adds `Apart` (two running
  turns both overlap, since one of them is outside the lock), so that a turn that
  does not overlap is alone with the context (`OwnContext`, `OwnRecord`).
* **Channels** (`ChatProofs`, which `Channels` and `TurnContext` share: their names differ, down to
  `TurnInit` and `TurnNext`): `TypeOK`, `AtMostOnce`, `Accounted`, `TypingHasReason`, `InOrder`, from
  `ChannelsAssumption`, for any deployments, any number of messages and any bounds.  `Places`
  says which of the places a message can be in a channel has.  `Reckoned` follows a message
  from the platform to the bus, event by event.  `AtMostOnce` counts publications; what is
  inductive is `Single`: a message that nothing excuses (`Excused`) is published or on its way, at
  one place, in one turn (`Alone`), and `Guarded`: what was published cannot come again, its
  `Barrier` is the bounded memory of ids, the flag on the server, unless the server refused it (`unmarked`), or the platform
  that has let it go.  For `InOrder`, `Queued`: what Telegram and Discord hold is newer than what the handler has
  in hand, and that newer than what was published; and `InTurn`: a mail that is older
  than one that was read, was read before it or passed over.  The attempt to prove the latter showed
  that a mail which the server does not return is passed over and fetched later: it joined `again`.
* **Relay** (`RelayProofs`): `TypeOK`, `PublishedInOrder`, `NoMessageLost`, `CursorSkipsNothing`,
  `PushFollowsFile`, `RepliesInOrder`.  The order needs
  `Sorted`: what was published is older than what the channel has read and what is still
  in the file.  The second needs `Heard`: until the gateway stops, the lines it will throw
  away are those it was deaf to, down or between the read and the clear, and `Judged`: whose message is not `unheard` is
  on the list the channel has read, so that `From` keeps it (`PollListKeeps`, `ListingKeeps`).  The third
  needs `CursorInv`: an item is in the history or was late, what a request has read of
  the file was all of it at some time (`ViewsWhole`), and a client whose last event came from the file
  has the older ones of the file (`MarkersSound`).  The fourth needs `PushInv`: until a
  fetch rewrites the file, three line numbers describe the notifier, those up to which the persisted
  offset, the dispatched lines and the offset in memory have got, and both offsets are
  ends of lines (`Reached`); the lemmas before it turn bytes into lines and back.
  The types and `RepliesInOrder` rest on `Typed`, by which what a fetch is about to write back is in
  order too, and on `FromFacts`: what is picked of a file of any length, for a set of devices, is in the file's order and is
  their lines.  That is an induction over the lines, done as the one for
  `StrictestRuleHolds` below.
* **Lifecycle** (`LifecycleProofs`): `TypeOK`, `StrangersSpared`, the watchdog's `Children`,
  `OneRuntime`, `StopMeansStopped`, `StartMeansRunning`, `FlagTells`, the last four but for the lapses
  each of them names.  `IInv` joins the first three
  with `Keeps` of every thread: an id that a script is about to signal after a look at its
  command line, or that it has from its own launch, is one of the system's own.  Ids are
  given out once per boot, so an id of the system stays the system's until the reboot that
  also ends the scripts.  On it rest, one after the other:
  * `Orderly`: a thread is at a place of the script its operation runs, of the mode the
    instance has, and beside one that changes something there is none that does, without a lapse.  `Orphaned` is what a cut leaves: the inner script at its
    place or a docker command (`CutMoves`), or nothing; it counts among what changes something;
  * `Apart`: no script takes a watchdog for a gateway, nor a gateway's file for a watchdog's;
  * `Tended`: there is one watchdog (`OneDog`), what serves is its child (`Parents`), no
    container is beside it (`BoxAlone`), its file names it or `start.sh` is about to write it (`Known`), what
    runs is what the mode asks for (`ModeRuns`), and `Claims`: what each place of a script relies
    on, that there is no watchdog, or none but the one it has found.  The claim
    of "stopped" is `StopMeansStopped`; `OneRuntime` follows from the other parts;
  * `Steady`: a watchdog that does not watch has no child (`Childless`), a gateway has
    a watchdog (`Minded`), a watchdog is asked to end only while a stop is under way that
    goes on to see it ended (`Pursued`), and the places that lead to "started" and "already
    running" have a watchdog to speak of (`Promises`): `StartMeansRunning`;
  * `Honest`: what is older than the configuration is told by the flag (`Told`), and a script on
    its way to clearing the flag has seen that nothing older runs (`Knows`), unless it saw nothing (`blind`): `FlagTells`.

  The invariants are inductive for any number of handlers and operations; the assumptions are
  that the bounds of a deployment are numbers and leave ids enough, and that `None` is no process id, operation,
  orphan or process and is not 0.

* **Devices** (`DeviceProofs`): `TypeOK`, `UsedOnce`, `DeletedSessionsStayOut`, `NobodyInLimbo`,
  `NoStrangers`, from `DeviceAssumption` (deployments are what they are said to be)
  and `NoneAssumption`.  `Types` adds `JobOK`: a request is on its plan, a copy is a whole
  file of those it is about to save, and its id was issued for its kind.  Each other proof rests on a
  statement about the file and one about every copy of it that is not stale:
  `UsedInv` (what is open is unused, and the copy of a request that uses an id has it closed),
  `DeadInv` (a dead session is out in the file; a session in a copy is in the file or is one nobody
  knows of yet), `ListInv` (a copy is the list but for the device of the request, the
  list the gateway heeds is the one in `config.json` but for devices on their way out).  The
  proofs show where each exemption of the properties comes in: `lost` in the save of a stale copy, be it the gateway's, and in a
  write that breaks off (`ListBreaks`), and nowhere else.

* **Accounts** (`AccountsProofs`): `TypeOK`, `EndedStayOut`, `AccountsSound`,
  `NewPasswordEndsSessions`, `OperationsAuthorised`, from `AccountAssumption` (identifiers, roles),
  `OfficeAssumption` (every installation starts with sound accounts) and `SpellingAssumption` (a connector's name is a spelling of it).  `IInv`: a copy of the
  sessions file that is not stale revives nobody, and the number of a new session is in nobody
  else's copy.  `UInv`: what a request that is not stale knows is `Current`: its copy is
  the users file but for one record, which it has checked against that very file.  `PInv`: such
  a copy of the sessions keeps live ones as they are, and that of a new password has none of
  its user.  The three are needed together: a login's session has the password of the
  file because the login is current.  `Sound` gives `AccountsSound`: an owner the code counts is an active one until one is `demoted`.  They hold for any number of threads; the run has two.
  `OperationsAuthorised` is proved for every path, a sequence of any segments under any of the four
  methods.  `RoutesCovered` compares the two lists of tests: whatever order they try a
  path in, the permission that is asked for `Covers` the operation the path ends in, since it is the
  one for that operation, or the operation is anybody's, or both are an operator's work, and
  roles nest (`RolesNest`); a switch of a connector that is `Respelled` is the one exception, in the list as in the theorem.  `OpenUnserved`: a path that is open without a session ends in
  none of these operations.  `Seen` carries what the gate has found to where the operation is called.

* **Policy** (`AgentProofs`): `PolicyTypes`, `VerdictFollowsFile`, `VersionNames`, `StrictestRuleHolds`.  The disk is one
  argument (`DiskStep`, `DiskInv`, `Onward`): a step writes to an inode or renames, so the
  file is always among what `held` records, an inode that has been the file is never called the
  temporary file again, and its mtime only grows.  A cache rests on it (`CacheInv`): the mtime
  it goes with is one the file has had, and if that entry is the only one of its mtime, then it
  is the entry of the cached policy, or its inode is the file no more or has been written since (`Goes`).  So
  when the mtimes agree the policies do, or two entries share the mtime (`Blurred`): the look at
  the mtime comes before the load, and that is the order in which this holds.  `VersionNames` rests on `RaceInv`: until two
  have been writing at once, who writes has the temporary file, or the missing one, to itself,
  the file is torn only while the default is written, and the versions of what it has been go up.
  What a crash leaves of a save, a torn temporary file without a writer, is within it.  `StrictestRuleHolds` is proved for texts of every
  length and rules of every number, with any spans: an induction over the spans and the merged ones.
  The prover has no induction that takes a predicate, so it is one over a *set* of numbers:
  strict inclusion of finite sets is well-founded, hence a set of numbers has a least one (`NatMin`),
  hence what is in 0 and handed on is everywhere (`Upwards`); `Iterated` gives the recursive functions
  of the model their values.  `SortedFacts`: ranks are a bijection.  `MergedFacts`: what has been merged
  is apart, and covers what the spans cover.  `MaskedFacts`: what has been put out is in order,
  and is what no span covers up to the cursor.

Some of these theorems have no run of their own (the types, `ActiveIsLive`,
`HolderIsOldest`, `OffsetInRange`, `DiskBehind`, `GuardMeansWork`, `MessagesAppendOnly`,
`Children`, `CacheCoherent`, `IntervalKept`, `OnlyStoredJobsStart`, `WithheldIsHeard`, `RepliesInOrder`): they are what the
others rest on, or follow from the same invariant, and a TLC run of them would add little.

Only model-checked is liveness (`DueJobRuns`, `EveryMessageServed`, `EveryStopConfirmed`, `GuardReleased`,
`Relaunched`), which is out of the prover's reach.

## What is not modelled

Per component in `PROJECT.json`.  In the models above:

* torn files (a write is one step, except in `ContentPolicy`, of `access_requests.json` and of the relay's `allow_from.json`),
  which is what a crash inside the `open(..., "w")` of the cron store, the sessions and the relay's lines can leave;
* the payload budget of `get_history`, the compaction of tool calls in `_save_turn`, progress messages
  and their filters, the order of due jobs, and the delegation of tool calls to an
  ephemeral runner;
* media of the relay, subscriptions to pushes and the deadlines of the push service;
* slash commands, downloads and formatting of the channels, and their limits of length;
* rate limits, scopes of instances and e-mail addresses of the accounts;
* in `ContentPolicy`, what detectors find, labels and messages, the order of the matched rules, what a
  validation rejects and the audit event of an update;
* in `Lifecycle`, several instances and the registry they are listed in, the purge of a
  deleted instance's files, the container's id file, and docker commands that fail.

Providers, context and skills, the shell and web tools, the front ends and the bridge have no state
that outlives a call and that another actor changes, or are pure input and output: TLC
has nothing to explore there.

## Plan

1. *Schedules, skills, connectors*: the admin service's handlers that load, change and save
   the configuration of an instance, composed with `DeviceAccess`, whose list of senders they share.
2. *Heartbeat and progress*: the timer beside `trigger_now`, and progress messages between
   a turn's tools and the outbound dispatcher.
3. *Composition*: dispatch and turn context under one lock, with cron ticks as the
   source of turns outside it.
4. *Proofs*: of what these add; the refinement of an abstract relay that loses no event.
