# A verification of TitoOS

TLA+ models of TitoOS, a kernel that schedules cooperative agents in ticks,
routes their messages, supervises their failures, and saves and restores its
state. TLC checks the models on small instances; TLAPS proves some of what they
say for every instance. Paths below are relative to `src/`; README.md of the
repository is called the manual.

## The system

| Component | State | Operations |
| --- | --- | --- |
| Message bus (`titoos/bus.py`) | a mailbox (deque) per name, a lock | register, unregister, send, post, broadcast, receive, receive_many, requeue, pending, any_pending, dump, load |
| Kernel (`titoos/kernel.py`) | the agents by name, the tick, errors, stop_reason, shutdown_thread, a lock | register, unregister, step, run, snapshot, restore, shutdown |
| Agent, Context (`titoos/agent.py`) | state, parent, restarts | what user code may call in a step: send, broadcast, spawn, wait, exit, call, and through `ctx.kernel` anything else |
| Backends (`titoos/backends.py`) | a thread pool, or an event loop | run_tick, shutdown |
| Persistence (`titoos/persistence.py`) | a snapshot | to and from JSON |
| Integrations (`titoos/integrations/`) | the drivers by name, under a lock | install, uninstall, call, close |
| File driver (`integrations/files.py`) | a directory; of each call in progress, its descriptors | read_text, write_text, append_text, list_dir, exists, delete |
| Shell driver (`integrations/shell.py`) | of each command, its process, three pipes and two reader threads | run |
| HTTP, clock drivers | none; a counter | request; now, timestamp, monotonic, sleep |
| Platforms (`titoos/platforms/base.py`) | adapters' factories; an agent's turns and seed | a turn: translate, invoke, dispatch the replies |
| GUI (`titoos/gui/`) | a server thread, two lifecycle locks, a lock on the kernel's use | start, serve_forever, stop; state, step, run, send, snapshot |

How they interact. The operator calls `step()` or `run()`. `step()` takes the
live agents, drains all their mailboxes under one lock, and hands the agents
that have something to do to the backend with the mail drained for each. Agents
run user code on the backend's workers, where they send into the mailboxes that
the *next* tick will drain. When all have returned or raised (the barrier), the
kernel restarts the failed ones their policy covers, puts their mail back, tells
the parents of the others, and reclaims the mailboxes of those that finished.
Other threads may post and register at any time, and shut the kernel down.

What is hard about it, and what each component must get right:

* Bus: methods are atomic, but the kernel's decisions are made of several of
  them. Order must survive redelivery; a mailbox must exist exactly for those
  that can still be written to.
* Kernel: workers, other threads and the kernel's own thread interleave; user
  code and its hooks may raise anywhere; agents may fail together with their
  parents; names may be used again. Mail must be handed out in order, once,
  never in its own tick, and never be lost to a failure; restarts and
  escalations must add up; `run()` must end, and say truly why.
* Backends: only *how* agents run may differ, never what they see.
* Persistence: a crash may come anywhere; the mailboxes that were not saved
  because they were empty must come back.
* Shutdown: several threads call it, ticks go on meanwhile, `close()` may fail,
  the wait may be interrupted. Nothing may be closed under a call, everything
  must be closed, and it must end.
* Platforms: the seed, the count of turns and the mail of a failed turn must
  survive failures, restarts and crashes; replies leave one at a time.
* GUI: several threads start, serve and stop it; one of them may be the one that
  serves, or be interrupted. One may serve at a time, `stop()` must leave nobody
  serving and must end, and what the dashboard shows must be of one moment.
* File driver: agents of a tick call it at once, and each call is several system
  calls. Limits, whole contents and parent directories must survive that.
* Shell driver: the child, its pipes and what it forks do as they like; `run()`
  must read all, keep some, and come back.

`PROJECT.json` lists the hazards one by one, at their lines, with the property
that watches each.

## The modules

| Module | Models |
| --- | --- |
| `MessageBus` | `MessageBus`, as operators from bus to bus. A bus is a partial function from names to sequences of messages; its domain is the mailboxes that exist. Each method holds the bus lock throughout, so each is one operator, used within one action. |
| `Kernel` | The scheduler with the agents and backends. |
| `ReliableMail` | What the kernel promises about mail: each name has a queue and an owner that is idle, working or failed; mail leaves a queue only when work on it completes or the name closes, and failed work is retried. No ticks, no workers. |
| `KernelDelivery` | The refinement mapping from `Kernel` to `ReliableMail`. |
| `KernelPersistence` | `Kernel` with `snapshot()`, crashes and `restore()`. |
| `Shutdown` | `shutdown()` with the thread backend's pool, the drivers and adapters, and the steps that call them. |
| `GuiServer` | The GUI's server: its life, and the requests it carries out on the kernel. |
| `ShellRun` | One command of the shell driver. |
| `FileDriver` | The calls of several workers on the file driver. |
| `Drivers` | `ShellRun` and `FileDriver` side by side. They share nothing, so a behaviour is of one or the other; composed, they are checked in one run. |
| `PlatformAgents` | `KernelPersistence` with agents whose steps are platform turns. |
| `MCKernel`, `MCPersistence`, `MCPlatform`, `MCShutdown` | Values of the constants that a cfg cannot write. |
| `Kernel_proofs`, `KernelAgents_proofs` | Theorems about the scheduler: types and mail; agents, their names and `run()`. |
| `KernelDelivery_proofs` | That the scheduler implements `ReliableMail`. |
| `PlatformAgents_proofs` | Theorems about snapshots, crashes and restores, and about platform agents. |
| `Shutdown_proofs`, `GuiServer_proofs`, `FileDriver_proofs` | Theorems about the module of that name. |
| `Drivers_proofs` | Theorems about `ShellRun`, and about `Drivers`. |

### Kernel

| State | Code |
| --- | --- |
| `registered`, `regno` | `kernel._agents` and its insertion order |
| `astate`, `parent`, `restarts` | the agents' attributes |
| `errors` | how many entries of `kernel.errors` name each agent |
| `bus` | `kernel.bus` |
| `inTick`, `job`, `inbox` | the locals of `step()` (`scheduled`, `inboxes`, `outcomes`) and the progress of each worker |
| `dropping` | an agent between the two halves of `unregister()` |
| `inRun`, `budget`, `stopReason`, `tick` | `run()`, its loop counter, `stop_reason`, `_tick` |
| `check`, `live` | how far `run()` is with the checks before a tick, and the live agents it has read for them |
| `posted` | the number of messages sent, which serves as their id |
| `horizon`, `told`, `knew`, `askedAt` | history, for the properties |

One action for each thing a thread does between two points where another could
interfere:

* `OperatorPosts`, `OperatorRegisters` at any time; `OperatorUnregisters`,
  `OperatorRuns` between ticks.
* `BeginTick`: `step()` to the hand-over. The drain is one locked pass, so it
  is the instant a tick begins; what the kernel's thread reads before it (the
  live agents) changes only by an agent being registered, which then has no
  place in the tick and no mail in it either.
* `RefuseTick`: the same, when `_reject_async()` raises.
* `StartAgent`, then any of `Send`, `Broadcast`, `Spawn`, `Wait`, `Exit`,
  `UnregisterAgent` and `UnregisterMailbox` in any order and number, then
  `Return`, `Raise` (an `Exception`) or `Abort` (`SystemExit`,
  `KeyboardInterrupt`). A pool starts agents in the order of submission: an
  agent starts when fewer than `MaxWorkers` are running or queued before it.
  One worker is `SerialBackend`; as many as agents is `AsyncBackend`, whose
  interleavings (only at awaits) are among those.
* `SuperviseRestarts`, `OnRestartRaises`, `SuperviseGivesUp`; `Escalate`,
  `EscalateRaises`; `Reclaim`: the barrier, agent by agent in registration
  order, since other threads may post or register between them.
* `ReadLive`, `AskPending`, `RunReturns`: `run()` before each tick and after the
  last. It reads the live agents under the kernel's lock, then, if they all wait,
  asks for their mail under the bus's, and then ticks (`BeginTick`, `RefuseTick`) or
  sets `stop_reason` and returns; others post and register in between. The states
  of agents are read one by one, but change in ticks only, and none goes on.

Two agent objects may share a name (`NameOf`), since `unregister()` frees it.
An agent object is registered once.

### KernelPersistence

`Snapshot` keeps the agents in their order, their states, parents and restart
counts, and the non-empty mailboxes. `CrashAndRestore` may happen in any state
and takes all but the last snapshot away. The restored kernel registers the
agents, replaces all mailboxes by the saved ones, and adds an empty one for each
live agent without. `NoFactory` are the agents nobody can rebuild; when one
of them is live in the snapshot `restore()` raises and there is no step. A
finished one comes back as an inert `FinishedAgent`, which for the kernel is the
agent.

### PlatformAgents

A platform agent's `step()` takes the place of user code: it composes the
actions of `Kernel` (`Wait`, `Send`, `Broadcast`, `Exit`, `Raise`, `Return`) with
the agent's own state. `Idle` is the wait with nothing to do; `Invoke` a platform
that answers and `PlatformRaises` one that does not; `Dispatch` sends the next
reply where `_dispatch()` would, and `Undeliverable` raises where it or the bus
would; `Complete` is the end of `_finish()`, `EndTurn` the return. `SaveAll` and
`LoadAll` add `save_state()` and `load_state()` to `Snapshot` and
`CrashAndRestore`.

### Shutdown

Messages play no part here, so a step is a worker that goes in and out of calls
on resources. `pool` is the attribute `_pool`, and the pools are numbered.
`_executor()` reads the attribute twice (`CheckPool`, `FetchPool`), and the swap
in `ThreadBackend.shutdown()` is a read and a store (`ReadPool`, `StorePool`):
Python guarantees no more.

A step is an agent and a tick (`Job`), because a tick may end before its steps
do: `run_tick()` collects the results one by one, and one that is a
`KeyboardInterrupt` or `SystemExit` leaves it (`AbortTick`) while the pool goes
on with the others. So does a submit that raises (`SubmitRaises`). In the tick
that follows, an agent whose step is still running may be run again at the same
time; no document speaks of it.

`Programs` are the programs that use the kernel, from which `Init` chooses one.
A program says when it calls `shutdown()` (only between ticks; also while the
steps of a tick are running, starting none meanwhile; at any time), whether
Ctrl-C may reach its calls, whether its steps abort ticks, and how many
agents a tick has. Ctrl-C may come before or in the join of a deferred shutdown
(`JoinInterrupted`: the handle is gone and nothing is done in its place), in
`backend.shutdown()` (`Interrupted`: everything is closed at once) or between two
`close()` calls (`ClosingInterrupted`). `forsaken` keeps the threads whose join was
cut short. `Careful` programs are those the manual's sentences can be
asked of: not "at any time", and not interrupted.

### GuiServer

| State | Code |
| --- | --- |
| `thread`, `serveThread`, `serving`, `stopped` | `_thread`, `_serve_thread`, `_serving`, `_stopped` |
| `stopLock`, `lock` | `_stop_lock`, `_lock`; `_lifecycle_lock` is held for single actions |
| `cutShort` | history: Ctrl-C came outside the server's loop |
| `asked`, `loopOver`, `open` | the flag, the event and the socket of the server |
| `pc`, `joins` | where each thread is, and what a `stop()` is to join |
| `rpc`, `op`, `todo`, `ran`, `view` | of each request: its handler, what it asks, the ticks left, the reports collected, what `state()` has read |
| `tick`, `inTick`, `reports` | the kernel, and the deque of reports |

`Start`, `Serve` and `EndServing` are the sections of `start()` and
`serve_forever()`; `Listen`, `Poll`, `Accept`, `LoopEnds` the loop of
`socketserver`, which clears its event when it begins and looks at its flag
before each request. `CtrlC` is the thread that Ctrl-C may interrupt while it serves,
the main thread: in the loop it ends it (`LoopEnds`), and elsewhere in
`serve_forever()` it leaves the attributes half set or half cleared, or the event of
`socketserver` unset (`CutShort`). `BeginStop`, `AskShutdown`, `AwaitShutdown`, `Join`,
`EndStop` are `stop()`. Threads are of four kinds: the one `start()` starts; a
`Server` that just serves; an `Owner` that serves inside a `with` statement, as
`gui/__main__.py` does, and so calls `stop()` after; and a `Caller` of `start()`
and `stop()`. A request is refused before the lock (`Refuse`), or enters
(`Enter`) and posts, reads (`ReadKernel` and then `ReadReports`, for `state()`
reads piece by piece; `snapshot()` is such a read too) or ticks (`BeginTick`,
`EndTick`, `Record`). A tick or a read may raise (`TickRaises`, `ReadRaises`):
`do_POST()` answers an `Exception` and `do_GET()` three of those of `snapshot()`; what
they do not catch ends the handler, and the request is *dropped*. Each request is served once; of its answer
the model keeps what it read.

### ShellRun

`runpc` is where `run()` is, `reader` where each `_BoundedReader` is. Text is
counted in units, of which a read asks for a chunk. Of its encoding the model keeps
whether it can be done: the child may write what does not decode (`bad`), at which
`read()` raises `UnicodeDecodeError`, a `ValueError` that ends the reader with its pipe
open (`DecodeFails`); and an input may be one that cannot be encoded, which leaves
`run()` from `write()` (`Popen`). A text of fewer units than a chunk stays in the buffer of
`stdin` and is sent by `close()`, outside the `except OSError` that covers
`write()`. The child and what it forks may read, write, shut its stdin, fork and
exit in any order; `CloseStream` is `Popen.__exit__()`, which for each stream
waits for a `read()` in progress.

### FileDriver

One action per system call: `Mkdir` and `OpenDir` for each directory on the way,
`Open`, `Check` (the fstat), `Write` (text given to `handle.write()` reaches the
file when it is closed; within `max_bytes` that is one write), `ReadAll` until
there is no more, `Delete`, `Look`. A file is a number, so that a path may come
to name another file while the old one is open. The contents are the numbers of
the calls that wrote them. `stale`, `raced` and `mixed` record where one call
changed a file between two steps of another.

## What the runs check

Passing:

| Run | Instance | Shows |
| --- | --- | --- |
| `threads` | 3 agents (one spawned), a child registered before its parent, an operator that posts, 2 workers, 2 ticks | `MailOrder`: what is in hand is in order and before what is in the mailbox. `TickBarrier`: what is in hand was sent before the tick, and nothing older is left in the mailbox. `LiveHaveMailbox`: nobody that was alive at the start of the tick is an unknown recipient. `MailboxesOfTheLive`: between ticks, no mailbox but those of live agents. `SupervisionBudget`: between ticks the failures of each agent are its restarts, plus one if it is FAILED, within `max_restarts`. `ParentTold`: a live parent has been told exactly once of each child that failed for good, even if it failed and was restarted in the same tick. `Delivery`: the kernel implements `ReliableMail`, so mail leaves only by a step that returns or with its agent. |
| `quiescence` | 3 agents of whom two share a name in turn and one is async, a hook that raises, steps that unregister and abort, 2 ticks, an operator that posts, registers, unregisters and runs; fair | `StopReasonTrue`: what `stop_reason` says is true of what `run()` looked at, but for what others posted and registered since, and it says finished or quiescent if that is so when it returns. `QuiescenceIsFinal`: no tick changes a quiescent kernel. `RunReturnsEventually`: every `run()` returns or raises. `WaitingWakes`: a waiting agent that has mail when `run()` looks is run, if a tick is left. |
| `platform` | 3 agents, two of them platform agents of 2 turns, one with a seed and one that no factory rebuilds; 1 worker, 2 ticks, 1 crash | `RestoreIsExact`, and the two properties of mailboxes across the crash. `SeedOnce`: the seed is in the first completed turn only. `TurnsEnd`: an agent is DONE exactly when its turns are used up. `ReadyHasMail`: an agent that has begun is scheduled only with mail to act on, a failed turn's included. |
| `shutdown` | 1 caller, 2 agents, 2 ticks, a driver whose `close()` raises and an adapter; three programs: one that may find a tick running, and whose steps abort ticks; one that shuts down at any time, with ticks of one agent or two; one whose calls Ctrl-C interrupts; fair | `NeverMeetsClosed`: no step is in a call when something closes, not even one that an aborted tick left behind. `OneCloser`: closing never overlaps. `WaitMeansClosed`: whoever waited finds all closed and no step running. These three of the careful program; of all, `OneDeferred`: never two deferred threads at work, but for those whose join Ctrl-C cut short, and `ShutdownEnds`: every shutdown ends. |
| `gui` | 2 threads that may start and stop, 1 that serves and may get Ctrl-C, the GUI's own; 2 requests, 2 ticks, a history of 1; fair | `OneServer`: one thread serves at a time. `ClosedNotServing`: nobody does, or comes to, once the port is released. `StopEnds`: every `stop()` returns, unless Ctrl-C came outside the loop. `ReportsTell`: the reports kept are those of the latest ticks, but for those of requests that raised. `AnswerConsistent`: an answer's reports go with its tick. `RequestsEnd`: every request accepted is over some time, answered unless it raised what nobody catches, though another's tick or read raises or the GUI stops. |
| `drivers` | a child with inputs of 0, 1 and 3 units, or one that cannot be encoded, pipes of 2, chunks of 2, at most 1 kept, at most 3 written to each of 2 streams, decodable or not; 2 workers, 3 calls, a file in a directory, contents of 1 or 2 units, `max_bytes` 2; fair | `ReadToTheEnd`: a reader ends only at the end of its pipe, when it is closed, or at what does not decode. `OutputTrue`: a result whose readers were waited for has all the child wrote, up to the limit; or less than what precedes the first of it that does not decode. `ReturnsUnlessHeld`: `run()` returns, or is held in one of the ways below. `WithinLimit`: no file outgrows `max_bytes`, and no text read does, but where a file changed between a call's measure and its use. `WholeContents`: what a call wrote is in a file whole or not at all, but where a write met another's contents. `WritersMakeParents`: a call that writes does not fail for a missing directory, nor for one that another call makes. |

The largest of them are `drivers` (863,684 distinct states), `threads` (641,564)
and `gui` (458,060), of two to three minutes each.

Violations, each of a sentence the manual, a comment or a docstring says:

| Run | The sentence | What happens |
| --- | --- | --- |
| `send_order` | "serial, threaded and async runs give the same result" (manual, line 12); "All three backends produce identical results for the same program." (213) | Two agents of one tick send to the same mailbox from two workers. The mail is in the order of the race, and the next tick hands it out so. The limitation the manual admits (line 173) is about spawn and broadcast only. |
| `child_notice` | "the exception is recorded in `kernel.errors` so one bad agent cannot take down the rest of the system" (manual, line 183) | A platform agent answers the sender of its mail by default. The sender of `CHILD_FAILED` is a child whose mailbox is gone: the answer raises KeyError and the parent fails too. |
| `snapshot_mid_tick` | "The kernel refuses to snapshot at any other time" (persistence.py, line 5; manual, line 269) | An agent that called `ctx.wait()` is not RUNNING; its snapshot lacks the mail drained for those still to run. |
| `shutdown_two_callers` | "a step still inside a call never meets a closed driver" (manual, line 371) | The second caller finds no pool to wait for. |
| `gui_stop_elsewhere` | "Serve on the calling thread until `stop` is called elsewhere" (`gui/server.py`, line 244); "Stop serving and release the port" (260) | The thread that serves is inside `with KernelGUI(...)`. The other's `stop()` holds the stop lock and joins it, and it waits for the stop lock in `__exit__()`: neither ends. |
| `shell_timeout` | "A grandchild that inherited the pipes can hold them open forever, and the timeout of `ShellIntegration.run` has to mean something" (`shell.py`, lines 25-27) | After the timeout, the kill and the grace period, leaving `with process` closes the pipes, and a close waits for the reader inside `read()`. |

The passing runs leave those circumstances out on purpose, and some more:

* `SupervisionBudget` and `ParentTold` are checked where no hook raises. An
  `on_restart()` that raises ends `step()`: its agent stays FAILED with the restart
  counted, and later casualties of the tick stay FAILED with restarts to spare,
  where the manual says "A failing agent is reset to READY and run again on the
  next tick" (line 234) and "one bad agent cannot take down the rest" (183). What
  was in hand is lost. The run `quiescence` makes such ticks, and asks only that
  `run()` ends and what it says; so it does of a `step()` that raises because the
  parent to be told has lost its mailbox.
* `LiveHaveMailbox` and `MailboxesOfTheLive` are checked where no step
  unregisters agents: an agent that unregisters itself, spawns a successor of
  its name and exits has the barrier reclaim the successor's mailbox, since
  reclaiming goes by name; and an agent registered between the two halves of an
  `unregister()` of its name loses its mailbox to the second.
* No run asks that a tick hands out the mail it drained, for a tick refused
  because of an async agent (`RefuseTick`) does not: its mail is lost, while the
  manual says that "A waiting agent runs on a tick if and only if its mailbox
  was non-empty at that tick's boundary" (line 165). So is that of an aborted tick.
  `TickBarrier` is about the boundary; that no mail is lost is `Delivery`, of
  programs whose ticks are neither refused nor left.
* `StopReasonTrue` excepts what others do after `run()` has looked: an agent
  registered meanwhile may be live though it says finished, and one posted to may
  have mail though it says quiescent. No document says otherwise.
* `NeverMeetsClosed` passes where one thread shuts down, starts no tick
  meanwhile, and no tick has a single agent: a later tick would make a pool that
  nobody waits for, and the only agent of a tick runs outside the pool
  (`backends.py`, line 110), where another thread's shutdown has nobody to wait
  for and closes the driver it is calling. So do all agents of the serial and
  async backends, which have no workers to wait for;
  closing a running event loop raises, and the drivers are closed all the same.
* `OneDeferred` excepts the threads whose join Ctrl-C cut short, and is checked
  with one caller. `shutdown(wait=True)` takes the handle away before it joins the
  thread: when the join is interrupted, or meanwhile if there is a second caller, a
  `shutdown(wait=False)` finds no handle and starts another thread beside the first.
  The docstring says "A second `wait=False` call while that thread is still
  running is a no-op rather than a second concurrent close" (`kernel.py`, lines
  459-460). `OneCloser` and the other two are asked of careful programs, which
  nothing interrupts.
* `StopEnds` is checked where the thread that serves does not itself stop the GUI
  after (no `Owner`): that is the violation `gui_stop_elsewhere`. It also excepts a
  Ctrl-C that comes after `_serving` is set and before socketserver's `try`
  (`gui/server.py`, lines 251-254): the event is not set, nobody is left to set it,
  and a `stop()` that finds `_serving` waits for it for ever (line 268) with the stop
  lock, where its docstring says "Stop serving and release the port". (In the `finally`
  clause Ctrl-C may leave `_serving` set too, but then the event has been set, and
  `stop()` returns.)
* `RequestsEnd` does not ask for an answer to what `do_POST()` and `do_GET()` do not
  catch: a `SystemExit` or `KeyboardInterrupt` of a step, which the kernel passes on
  and `except Exception` (line 412) does not take, and whatever `state()` raises, or
  `snapshot()` beyond three errors (372-389). The handler ends, the lock is given
  back, and the client finds its connection closed.
* `ReadToTheEnd` and `OutputTrue` except a stream on which the child wrote what does
  not decode. The reader takes the `ValueError` for that of a closed pipe (`shell.py`,
  line 261) and ends: nobody drains the pipe any more, though "The pipe has to be read
  to the end or the child blocks once its buffer fills" (line 234), and `run()`
  returns what was kept as the command's output, without what the failing read had.
* `ReturnsUnlessHeld` lists all that may hold `run()` up: a child that does not
  read its input, which is written before the timeout is armed; a process it
  forked that holds the pipes; and a child that lives on when its input failed, for
  then there is no timeout: when it has shut its stdin, for the broken pipe of
  `stdin.close()` (if the child has exited, that is a BrokenPipeError that no driver
  error wraps), or when the input cannot be encoded, for the UnicodeEncodeError of
  `write()`.
* `WithinLimit` excepts files that two calls appended to at once: both may
  measure before either writes, on the descriptor as the comment says (`files.py`,
  lines 247-248), and the limit does not hold. `WholeContents` excepts files where a
  `write_text` found something again after emptying them: the two texts are laid
  over one another. `WritersMakeParents` excepts a path on which a *file* had the
  directory's name, which `mkdir` passes over, and was deleted before the open.

These exceptions are part of the formulas, or hypotheses of the theorems below, and
not left out of the models. Where a sentence of the code or the manual is broken by
one, and no violation shows it, the line is given here.

### Bounds

`MaxTicks` and `MaxPosts` bound the ticks and the messages user code sends; an
agent may otherwise do anything any number of times. Two ticks are what the
properties of safety span: one to send or fail in, one to receive in or to fail
again after the single restart allowed. `RunLimits` are the ticks that `run()` is
called with: none, so that only the last check is made, and as many as there are, or
fewer, so that one `run()` follows another. Two
messages are enough to be in a wrong order, one of them redelivered. Two agents
give every race of two workers; the third is spawned, or is the second failure
or second sender of a tick. In `Shutdown` the first program has three calls of `shutdown()`, which is what it
takes to defer, join and defer again, and two ticks, so that the steps of an
aborted one meet those of the next; the one that is interrupted has the three
calls and one tick, so that what Ctrl-C leaves behind is met by another deferred
shutdown; the one that takes no care has two calls and one tick. In `GuiServer` the second request is what meets the first's lock, and the
third thread a second `stop()` or a `start()` after the first; two ticks overflow
the history of one. In `ShellRun` the input is none, one that `close()` sends or
one longer than a pipe; what the child writes fills a pipe, a chunk and the
limit, exceeds each by one, and takes a second `read()`; any unit of it may be the
first that does not decode. In `FileDriver` two calls make each race of two, and the
third deletes or creates again.
The platform agents of `platform` may answer nothing, a broadcast, or two
replies; their two turns fill the two ticks. `MaxCrashes` is 1: what a restored
kernel starts from is a state like that of the first, and snapshots may be taken
again after it only to be kept.
The same numbers with one action of the model changed, as in the mutants of
`PROJECT.json`, make each property fail, so each instance is large enough for
its property to be at stake.

Deadlock is checked in the runs on the kernel and `Shutdown`. The kernel always
has an operator who may call `run(0)`, and `Shutdown` says with `Rest` where the
program may be done. The GUI and the drivers come to rest: when the GUI is
stopped and its clients have their answers, or the calls are made. There the
liveness properties say that nothing waits for ever.

### Fairness

`Kernel!Fairness`: the kernel's own thread goes on once it is inside `step()` or
`run()` (it waits for nothing but the workers), and a worker goes on once its
agent is queued or running. User code is only assumed to end, by returning or
raising: the kernel has no time limit, and with a step that never ends the
tick's barrier is never reached. No operator action is fair: nobody has to call,
post or register. `Shutdown!FairSpec` is alike: strong fairness of `EndStep`
says that a step makes no calls for ever, and without it shutdown waits for
ever, as `pool.shutdown(wait=True)` does.

`GuiServer!FairSpec`: a thread that has begun goes on, and so does a handler;
nobody has to start, stop or serve, no client to send, and Ctrl-C need not come.
The loop looks at its flag again and again, which is the fairness of `LoopEnds`
once asked. `Drivers!Spec`: time passes (a timeout comes, a grace period ends) and
the threads of `run()` go on. The child need not do anything, not even exit; the
file driver has no liveness to check, for its calls never wait.

## What is proved

### Kernel: types and mail

`Kernel_proofs`, for any finite set of agents, any names, policies, number of
workers, calls and bounds, from the assumptions named in `Kernel`
(`NamesAssumption`, `BootAssumption`, `PolicyAssumption`, `BoundsAssumption`):

* `TypeCorrect`: `Spec => []TypeOK`. `TypeOK` is inductive by itself; the lemmas
  before it say that each method of the bus returns a bus.
* `MailInOrder`: `Spec => []MailOrder`, and `TicksAreBarriers`:
  `Spec => []TickBarrier`, both from `MailInvariant`: `Spec => []InvMail`.

`MailOrder` and `TickBarrier` are not inductive. They relate an agent's inbox to
the mailbox of its *name*, so another agent of the same tick and name could put
its mail back in between: `InvMail` adds that the agents of a tick have distinct
names (`JobsUnique`), which holds because the registered ones have
(`NamesUnique`) when the tick begins, and that only agents of the tick have mail
in hand (`InHandOfJobs`). And a new message is the last in its mailbox only
because no id exceeds `posted` (`AllSent`).

The steps fall in three kinds. A `Tame` step empties, keeps or appends one new
message to each mailbox, and empties or keeps each inbox; `TameKeeps` proves
once and for all that such a step keeps the invariant, and each action of the
operator, the workers and the barrier is shown to be tame, with two exceptions
that have proofs of their own. `DrainMail` is the drain at the start of a tick,
which moves whole mailboxes into inboxes; `RestartMail` is `requeue()`, where
mail in hand goes back before what came since. Nothing is assumed about the
operator or user code, so the theorems cover unregistering from a step, names
used again and hooks that raise too; aborted steps, as `Kernel` has them, with one
worker only. They say nothing of mail that a refused or aborted tick drained: it
is in no inbox and no mailbox.

### Agents and their names

`KernelAgents_proofs` has what is false of some programs the model allows. Each
hypothesis is a condition on the constants, named, and cited only where it is
needed:

| Hypothesis | Says | Without it |
| --- | --- | --- |
| `NoneUnregisters` | no `step()` unregisters an agent | the barrier may reclaim a successor's mailbox |
| `HooksReturn` | no hook raises, no step aborts the tick | the barrier is left half done |
| `StepsRun` | the backend awaits steps, or no agent is async | a refused tick loses the mail it drained, and ends `run()` by raising |

The operator may still unregister between ticks. The runs that check a
property satisfy the hypotheses of the theorem on it;
"The passing runs leave those circumstances out" above says what happens beyond.

* `BudgetKept`: `Spec => []SupervisionBudget` (`HooksReturn`). `BudgetInv` carries
  the sum through the barrier: a FAILED agent with a restart left is one the
  barrier has still to come to.
* `LiveAreReachable`: `Spec => []LiveHaveMailbox` (`NoneUnregisters`), and
  `MailboxesAreOfTheLive`: `Spec => []MailboxesOfTheLive` (also `HooksReturn`). The
  mailboxes are of names, and the claim of agents. `BoxInv` and `ExactInv` speak
  of the agents that live *or have a part in the tick* (`Boxed`), registered under
  distinct names, for a finished one keeps its mailbox to the barrier. `RegInv`
  says that who has no number was never registered.
* `ParentsAreTold`: `Spec => []ParentTold` (both). `ToldInv` adds that no parent
  comes back to life after the barrier has passed it over: whoever is `Hopeful`
  when its child is given up is told.
* `StopReasonIsTrue`: `Spec => StopReasonTrue`, from no hypothesis: whatever user code,
  hooks and refused ticks do. `CheckInv` says what `run()` knows between its steps:
  whom it read as live was registered and known then, and states change in ticks
  only; when it found nobody to live, those it knew are finished; when it found all
  waiting and asked for their mail, whatever is in their mailboxes came after.
* `QuiescentForGood`: `Spec => QuiescenceIsFinal`, from no hypothesis: the
  tick that begins in a quiescent kernel schedules nobody, and its barrier finds
  nothing to do.

### Mail, as promised

`KernelDelivery_proofs`: `DeliversReliably`, `Spec => Delivery`
(`NoneUnregisters`, `HooksReturn`, `StepsRun`). Under the mapping of
`KernelDelivery` a name's queue is what its agent has in hand followed by its
mailbox. So the drain, which moves all mailboxes at once, changes no queue: it is
a stutter, or the start of all the work of the tick at once; a return takes from
the queue exactly what was in hand; and a restart puts it back where the mapping
already had it. The proof needs that what is in hand is of one owner per name
(`HandInv`, from `InvMail` and `BoxInv`) and that no more messages are sent than user
code sends and agents fail (`SentInv`, the bound of `SentIds`). `Maps` shows each step of `Kernel` to be a step or a stutter of
`ReliableMail`, action by action.

### Crashes and platforms

`PlatformAgents_proofs` first lifts what holds of the kernel to `SpecP`, where it
may crash in any state. A restore puts back what the last snapshot has, so each
invariant needs a copy that speaks of the snapshot:

* `MailSurvivesCrashes`: `SpecP => [](MailOrder /\ TickBarrier)`, with `SnapType` and
  `SnapMail`, from no hypothesis.
* `RestoresExactly`: `SpecP => RestoreIsExact`, and `MailboxesSurviveCrashes`
  (`NoneUnregisters`, `HooksReturn`, and `AtBoundaries`: no step takes a snapshot,
  the violation `snapshot_mid_tick`). At a boundary the mailboxes are those of the
  live agents (`WholeInv`), so to save the others' mail, and give each live agent
  without one an empty mailbox, restores them all.

A platform's turn is a composition of the kernel's own actions, so that
`PlatformIsProgram`: `SpecPlatform => SpecP`, and all of the above holds of
platforms. Of the agents themselves:

* `SeedsOnce`: `SpecPlatform => []SeedOnce`, and `TurnsAreCounted`:
  `SpecPlatform => []TurnsEnd`, from no hypothesis. `SeedInv` ties
  the flag and the seeds given to the count of turns, in the agents and in what is
  saved of them; the second needs what the place of a turn says of the agent's state
  (`PlaceInv`) and that the count in the snapshot goes with the state in it
  (`CountInv`).
* `ReadyHaveMail`: `SpecPlatform => []ReadyHasMail` (`NoneUnregisters`, `HooksReturn`,
  `StepsRun`, `AtBoundaries`). `DueInv` follows the mail of a turn: in hand while the
  turn goes on or has failed, back in the mailbox when it is restarted, in the
  snapshot when that has the agent READY.

### Shutdown

`Shutdown_proofs`, for any agents, drivers, adapters, programs and ticks:

* `TypeCorrect`: `Spec => [](TypeOK /\ SeenInv)`.
* `ClosesAlone`: `Spec => []OneCloser`, which is of careful programs, and `DefersOnce`:
  `Spec => []OneDeferred`, of any
  (`OneCaller`: one thread calls `shutdown()`, the violation `shutdown_two_callers`).
  `SoloInv` is who knows whom: a deferred thread at work is the kernel's
  `shutdown_thread`, or is being joined by the caller that took the handle, or was
  forsaken when that was interrupted; and in a careful program a
  caller at work has left none.
* `NothingClosesUnderACall`: `Spec => NeverMeetsClosed`, and `WaitedMeansClosed`:
  `Spec => WaitMeansClosed` (`OneCaller`, and `Pooled`: a program that shuts down in
  a tick has no tick of one agent, which would run outside the pool). `CareInv`
  says where a step that is not over is to be found: with the kernel's thread, in
  the current pool, or in one that a shutdown has taken out and waits for. So
  when a thread closes there is none left. `FutureInv` says that a tick to come has
  left nothing yet, and `CloseInv` what a thread that closes has still to close.

### GUI

`GuiServer_proofs`, for any threads, requests, history and bounds, from
`GuiAssumption`:

* `TypeCorrect`: `Spec => []TypeOK`, from `TypeInvariant`, which adds that a
  request in a tick has begun one (`TickBegun`): what is appended to the reports
  is a tick from 1.
* `ServesAlone`: `Spec => []OneServer`, and `ClosedForGood`:
  `Spec => []ClosedNotServing`, both from `LifeInvariant`: `Spec => []LifeInv`.

Neither is inductive, for both speak of where threads are and the code decides by
its attributes. `LifeInv` ties the two: the thread that serves is the one noted,
and but for what Ctrl-C cut short nobody is noted who does not (`NotedServes`); the one that `start()` starts is not there before
(`NotStarted`); a `stop()` under way has the stop lock, has set `_stopped`, and is
to join whoever still serves (`StopTaken`), so that when it closes nobody does,
and nobody can begin (`ClosedStopped`). The steps that only move a thread about
share a lemma (`LifeMoves`); the others have a step per conjunct.

* `ReportsAreTrue`: `Spec => []ReportsTell`, and `AnswersAreConsistent`:
  `Spec => []AnswerConsistent`, both from `TellInvariant`: `Spec => []TellInv`.

Between two ticks of one request the kernel is ahead of the reports, so neither
is inductive. `TellInv` says them of the ticks *before* the request that holds the
lock (`Base`): its own are those since, in order and none lost; the reports kept,
and those in answers given, are the latest of the ones before. `RecentLatest` is
what the bounded deque does: when what is added comes after all there is, the
latest are kept. `LoseLater` is what a request that raises does: its ticks are
not reported, and were in no answer.

### Drivers

`FileDriver_proofs`, for any workers, paths, sizes and calls, from
`FileAssumption`:

* `FileTypeCorrect`: `FileSpec => []FileTypeOK`.
* `WithinTheLimit`: `FileSpec => []WithinLimit`, from `LimitInvariant`. The
  invariant adds what each call has measured (`Measures`): what it is to write
  fits, its file is as long as when it was measured and has room, unless the call
  is `stale`; then an append by a call that is not stale keeps the file within
  the limit, and one by a call that is marks it as raced.
* `ParentsAreMade`: `FileSpec => []WritersMakeParents`. `MakesInv`: the directory that
  a call made or found is there until it has opened it.
* `ContentsAreWhole`: `FileSpec => []WholeContents`. `WholeInv`: calls that go on have
  numbers of their own that no file has yet, so that what one appends is the only
  part with its number.

`Drivers_proofs`, for any streams, inputs, behaviour of the child and sizes of
pipe, chunk and limit, from `ShellAssumption`:

* `ShellTypeCorrect`: `ShellSpec => []ShellTypeOK`.
* `ReadsToTheEnd`: `ShellSpec => []ReadToTheEnd`, and `OutputIsTrue`:
  `ShellSpec => []OutputTrue`, both from `OutputInvariant`:
  `ShellSpec => []OutputInv`.

`OutputTrue` speaks of the end alone, so `OutputInv` keeps the books on the way:
what the child wrote is in the pipe, in a reader's hand or was taken up, none of it
beyond what decodes, or less if a block did not (`Counted`); a reader that was joined without haste has ended, and no stream is
closed until all are joined (`Joins`), so that one that finds its stream closed was
not waited for; and otherwise, if all of it decodes, a reader ends only when its pipe
is empty and nobody may write to it (`AtEnd`), which stays so.

And `TypeCorrect`: `Spec => []TypeOK`, and `DriversKeepTheirPromises`: all the
safety properties of both, of `Drivers!Spec`, for a behaviour of it is of one
driver's steps and leaves the other alone.

### What is only model-checked

Every safety and action property that a passing run checks is a theorem, and so
is the refinement. Liveness is left to TLC, for the prover has no rule for
fairness and none for ENABLED: `RunReturnsEventually`, `WaitingWakes`, `ShutdownEnds`,
`StopEnds`, `RequestsEnd`, `ReturnsUnlessHeld`. So are the violations, which are
counterexamples.

## What is left

Not modelled, and why:

* JSON, message payloads and metadata: immutable data. `TickReport`: a view of the
  outcomes.
* HTTP driver: URL checks and one request, input validation without state. Clock:
  reads a clock, or a counter under a lock.
* The event loop's own life in `AsyncBackend`: created, used by one thread and
  closed. (Its error message names a `Kernel.run_async()` that does not exist.)
* `IntegrationRegistry.install()` and `uninstall()`: one dict operation each, under
  the lock; `uninstall()` then closes a driver without waiting for calls on it, of
  which no document speaks.
* `PlatformRegistry`: its methods are dict operations under a lock, but `get()`
  imports a module meanwhile. What a module does when it is imported is not of
  this code: if it registers a platform, the entry is overwritten after, and a
  thread that imports it by itself waits for the lock inside its import.
* Ctrl-C inside the GUI's `stop()`, and in a `shutdown()` between its statements where
  nothing waits but those modelled; an `Abort` with several workers in `Kernel`, whose
  effect on the pool is in `Shutdown`.
* Text that the file driver cannot encode or decode: `write_text` and `append_text`
  raise before they open anything, `read_text` after it has read.
* The GUI's page, HTTP parsing and the demo; symbolic links under the file
  driver's root, whose refusal is `O_NOFOLLOW` in every open of the model.

What could be proved next:

1. How much of `Shutdown` is left with two callers, to be tried with TLC first:
   `OneDeferred` where neither of them waits, say.
2. What a barrier that a hook leaves keeps: `MailboxesOfTheLive` but for the agents
   that finished in such a tick.
3. `KernelPersistence` as a `ReliableMail` whose queues may go back to what they
   were: what a crash can take away, and no more.
