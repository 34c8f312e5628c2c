------------------------------- MODULE Kernel -------------------------------
(***************************************************************************)
(* The scheduler of titoos/kernel.py, with the agents' Context of          *)
(* titoos/agent.py, the backends of titoos/backends.py and the mailboxes   *)
(* of titoos/bus.py.                                                       *)
(*                                                                         *)
(* The threads are the operator's (which calls step() and run() and is     *)
(* the kernel's thread while it is in them), one worker per running agent, *)
(* and any other thread that posts or registers.  An agent's step() is     *)
(* user code: once started it makes any of the calls in Calls, in any      *)
(* order, and then returns or raises.                                      *)
(*                                                                         *)
(* agents are objects and names are what mailboxes are keyed by: two       *)
(* agents may have one name, as long as they are not registered together.  *)
(***************************************************************************)
EXTENDS MessageBus, FiniteSets

CONSTANTS
  Agent,          \* the Agent objects the program may ever create
  Name,           \* the names agents have
  NameOf,         \* agent.name
  None,           \* Python's None
  Operator,       \* the sender of messages no agent sent
  Boot,           \* the agents registered before the first tick, in order
  BootParent,     \* the parent= the operator registers each of them with
  OnFailure,      \* the agents whose restart_policy is ON_FAILURE
  MaxRestarts,    \* agent.max_restarts
  HookRaises,     \* the agents whose on_restart() may raise
  AsyncAgents,    \* the agents whose step() is async def
  AwaitsSteps,    \* backend.supports_async_agents
  MaxWorkers,     \* steps in flight at once: 1 for SerialBackend, max_workers
                  \* for ThreadBackend, no limit (any n >= agents) for AsyncBackend
  Calls,          \* the API calls that the operator and the agents make
  RunLimits,      \* the max_ticks the operator calls run() with
  MaxTicks,       \* bound: ticks the operator asks for
  MaxPosts        \* bound: messages that user code sends

CallKinds == {"post", "register", "unregister", "send", "broadcast", "spawn",
              "wait", "exit", "unregister_in_step", "raise", "abort"}

ASSUME NamesAssumption ==
  /\ None \notin Name /\ Operator \notin Name
  /\ NameOf \in [Agent -> Name]
  /\ IsFiniteSet(Agent)

ASSUME BootAssumption ==
  /\ Boot \in Seq(Agent)
  /\ \A i, j \in 1..Len(Boot) : NameOf[Boot[i]] = NameOf[Boot[j]] => i = j
  /\ BootParent \in [Agent -> Name \cup {None}]

ASSUME PolicyAssumption ==
  /\ OnFailure \subseteq Agent /\ HookRaises \subseteq Agent
  /\ AsyncAgents \subseteq Agent /\ AwaitsSteps \in BOOLEAN
  /\ MaxRestarts \in [Agent -> Nat]
  /\ MaxWorkers \in Nat \ {0}

ASSUME BoundsAssumption ==
  /\ Calls \subseteq CallKinds /\ RunLimits \subseteq Nat
  /\ MaxTicks \in Nat /\ MaxPosts \in Nat

VARIABLES
  registered,  \* the agents in kernel._agents
  regno,       \* when each agent was registered (dict order); 0: never
  astate,      \* agent.state
  parent,      \* agent.parent
  restarts,    \* agent.restarts
  errors,      \* the number of entries of each agent in kernel.errors
  bus,         \* kernel.bus
  posted,      \* how many messages were ever sent: the id of the latest
  tick,        \* kernel._tick
  inTick,      \* the kernel's thread is inside step()
  job,         \* what step() and the worker have done with each agent
  inbox,       \* the messages drained for each agent and not yet settled
  dropping,    \* the name whose mailbox an agent in unregister() drops next
  inRun,       \* the kernel's thread is inside run()
  budget,      \* the ticks run() may still make
  stopReason,  \* kernel.stop_reason
  check,       \* how far run() is with its check, or what it found
  live,        \* the live agents that run() has read
  knew,        \* history: the agents registered when it read them
  askedAt,     \* history: posted when it asked for their mail
  horizon,     \* history: posted at the start of the tick
  told         \* history: the CHILD_FAILED messages sent about each agent

agentVars == << registered, regno, parent >>
mailVars  == << bus, posted >>
runVars   == << inRun, budget, stopReason, check, live, knew, askedAt >>
jobVars   == << tick, inTick, job, inbox, horizon >>
failVars  == << restarts, errors, told >>
vars == << agentVars, mailVars, runVars, jobVars, failVars, astate, dropping >>

AgentStates == {"ready", "running", "waiting", "done", "failed"}
Finished    == {"done", "failed"}

\* "skipped": waiting without mail; "ok", "failed": the outcome of the step;
\* then, at the barrier, a failed one is "restarted" or "fallen", and "told"
\* once _escalate() has dealt with it.
JobStates == {"none", "skipped", "queued", "running", "ok", "failed",
              "restarted", "fallen", "told"}
StopReasons == {None, "finished", "quiescent", "max_ticks"}

\* "asking": all that live wait, and the mailboxes are to be looked at.
Checks == {"none", "asking", "finished", "quiescent", "runnable"}

Message == [id : Nat, from : Name \cup {Operator}, kind : {"mail", "child_failed"}]

TypeOK ==
  /\ registered \subseteq Agent
  /\ regno \in [Agent -> Nat]
  /\ astate \in [Agent -> AgentStates]
  /\ parent \in [Agent -> Name \cup {None}]
  /\ restarts \in [Agent -> Nat] /\ errors \in [Agent -> Nat]
  /\ DOMAIN bus \subseteq Name /\ bus \in [DOMAIN bus -> Seq(Message)]
  /\ posted \in Nat /\ tick \in Nat /\ horizon \in Nat /\ budget \in Nat
  /\ inTick \in BOOLEAN /\ inRun \in BOOLEAN
  /\ job \in [Agent -> JobStates]
  /\ inbox \in [Agent -> Seq(Message)]
  /\ dropping \in [Agent -> Name \cup {None}]
  /\ stopReason \in StopReasons
  /\ check \in Checks /\ live \subseteq Agent /\ knew \subseteq Agent
  /\ askedAt \in Nat
  /\ told \in [Agent -> Nat]

-----------------------------------------------------------------------------
(* The registry, and what the kernel reads from it.                        *)

Names(S) == {NameOf[a] : a \in S}
Alive(a) == astate[a] \notin Finished
Live     == {a \in registered : Alive(a)}

AllWait(S) == \A a \in S : astate[a] = "waiting"

\* Fault: any_pending() left out.
MailFor_Unasked(S) == FALSE

MailFor(S) == AnyPending(bus, Names(S))

\* is_quiescent(): every live agent waits and no message is pending for one.
IsQuiescent == Live # {} /\ AllWait(Live) /\ ~MailFor(Live)

\* The agents of S in registration order, one at a time.
IsFirst(a, S) == a \in S /\ \A b \in S : regno[a] <= regno[b]

JobsIn(states) == {a \in Agent : job[a] \in states}
AtBarrier == inTick /\ JobsIn({"queued", "running"}) = {}

NextMail(sender) == [id |-> posted + 1, from |-> sender, kind |-> "mail"]

\* register(): ValueError for a name in use.  An agent object is registered
\* once (it is the program that would have to register it again).
Register(a, p) ==
  /\ regno[a] = 0 /\ NameOf[a] \notin Names(registered)
  /\ registered' = registered \cup {a}
  /\ regno' = [regno EXCEPT ![a] = 1 + Cardinality({b \in Agent : regno[b] # 0})]
  /\ parent' = [parent EXCEPT ![a] = p]
  /\ bus' = RegisterBox(bus, NameOf[a])

Init ==
  /\ registered = {Boot[i] : i \in 1..Len(Boot)}
  /\ regno = [a \in Agent |-> IF a \in registered
                              THEN CHOOSE i \in 1..Len(Boot) : Boot[i] = a ELSE 0]
  /\ astate = [a \in Agent |-> "ready"]
  /\ parent = [a \in Agent |-> IF a \in registered THEN BootParent[a] ELSE None]
  /\ restarts = [a \in Agent |-> 0] /\ errors = [a \in Agent |-> 0]
  /\ bus = EmptyBus(Names(registered))
  /\ posted = 0 /\ tick = 0 /\ horizon = 0 /\ budget = 0
  /\ inTick = FALSE /\ inRun = FALSE
  /\ job = [a \in Agent |-> "none"]
  /\ inbox = [a \in Agent |-> << >>]
  /\ dropping = [a \in Agent |-> None]
  /\ stopReason = None /\ check = "none"
  /\ live = {} /\ knew = {} /\ askedAt = 0
  /\ told = [a \in Agent |-> 0]

-----------------------------------------------------------------------------
(* The operator: posts and registers at any time, from any thread; starts  *)
(* run() and step(), and unregisters, between ticks.                       *)

OperatorPosts(N) ==
  /\ "post" \in Calls /\ posted < MaxPosts
  /\ CanDeliver(bus, N)
  /\ bus' = Deliver(bus, N, NextMail(Operator))
  /\ posted' = posted + 1
  /\ UNCHANGED << agentVars, runVars, jobVars, failVars, astate, dropping >>

OperatorRegisters(a, p) ==
  /\ "register" \in Calls
  /\ Register(a, p)
  /\ UNCHANGED << posted, runVars, jobVars, failVars, astate, dropping >>

\* No agent runs, so the two halves of unregister() are one step.
OperatorUnregisters(N) ==
  /\ "unregister" \in Calls /\ ~inTick /\ ~inRun
  /\ N \in Names(registered)
  /\ registered' = {a \in registered : NameOf[a] # N}
  /\ bus' = UnregisterBoxes(bus, {N})
  /\ UNCHANGED << regno, parent, posted, runVars, jobVars, failVars, astate, dropping >>

OperatorRuns(n) ==
  /\ ~inTick /\ ~inRun
  /\ tick + n <= MaxTicks
  /\ inRun' = TRUE /\ budget' = n /\ stopReason' = "max_ticks"
  /\ UNCHANGED << agentVars, mailVars, jobVars, failVars, astate, dropping,
                  check, live, knew, askedAt >>

-----------------------------------------------------------------------------
(* run() between its ticks, the last one included: it reads the live       *)
(* agents under the kernel's lock, then asks for their mail under the      *)
(* bus's, and then ticks or returns.  Others post and register in between. *)

\* Fault: no check after the last tick of the budget.
Found_NoFinalCheck ==
  IF budget = 0 THEN "runnable" ELSE IF Live = {} THEN "finished"
  ELSE IF AllWait(Live) THEN "asking" ELSE "runnable"

\* What the live agents tell; their states change in ticks only.
Found == IF Live = {} THEN "finished" ELSE IF AllWait(Live) THEN "asking" ELSE "runnable"

ReadLive ==
  /\ inRun /\ ~inTick /\ check = "none"
  /\ live' = Live /\ knew' = registered /\ check' = Found
  /\ UNCHANGED << agentVars, mailVars, jobVars, failVars, astate, dropping,
                  inRun, budget, stopReason, askedAt >>

\* any_pending(), for the agents that were read.
AskPending ==
  /\ check = "asking"
  /\ check' = IF MailFor(live) THEN "runnable" ELSE "quiescent"
  /\ askedAt' = posted
  /\ UNCHANGED << agentVars, mailVars, jobVars, failVars, astate, dropping,
                  inRun, budget, stopReason, live, knew >>

Forget == check' = "none" /\ live' = {} /\ knew' = {} /\ askedAt' = 0

\* Either break, or the end of the budget.
RunReturns ==
  /\ check \in {"finished", "quiescent"} \/ (check = "runnable" /\ budget = 0)
  /\ inRun' = FALSE /\ budget' = 0 /\ Forget
  /\ stopReason' = IF check = "runnable" THEN stopReason ELSE check
  /\ UNCHANGED << agentVars, mailVars, jobVars, failVars, astate, dropping >>

-----------------------------------------------------------------------------
(* step(), up to run_tick().                                               *)

\* Who called step(): the operator, or run() after its check.
StepCalled ==
  /\ ~inTick
  /\ (~inRun /\ tick < MaxTicks) \/ (check = "runnable" /\ budget > 0)

\* The live agents with something to do, as read after the drain.
Scheduled == {a \in Live : astate[a] = "waiting" => Pending(bus, NameOf[a]) # << >>}

\* _reject_async(), called after the mailboxes were drained.
Refused == ~AwaitsSteps /\ Scheduled \cap AsyncAgents # {}

BeginTick ==
  /\ StepCalled /\ ~Refused
  /\ budget' = (IF inRun THEN budget - 1 ELSE budget) /\ Forget
  /\ tick' = tick + 1 /\ inTick' = TRUE
  /\ bus' = Drain(bus, Names(Live))
  /\ inbox' = [a \in Agent |-> IF a \in Scheduled THEN Pending(bus, NameOf[a]) ELSE << >>]
  /\ job' = [a \in Agent |-> IF a \in Scheduled THEN "queued"
                             ELSE IF a \in Live THEN "skipped" ELSE "none"]
  /\ horizon' = posted
  /\ UNCHANGED << agentVars, posted, inRun, stopReason, failVars, astate, dropping >>

\* An exception leaves step(), and run() with it.
StepRaises ==
  /\ inTick' = FALSE /\ inRun' = FALSE /\ budget' = 0 /\ Forget
  /\ job' = [a \in Agent |-> "none"] /\ inbox' = [a \in Agent |-> << >>]
  /\ UNCHANGED << stopReason, horizon >>

\* The TypeError of _reject_async() leaves step() with the mail already drained.
RefuseTick ==
  /\ StepCalled /\ Refused
  /\ tick' = tick + 1
  /\ bus' = Drain(bus, Names(Live))
  /\ StepRaises
  /\ UNCHANGED << agentVars, posted, failVars, astate, dropping >>

-----------------------------------------------------------------------------
(* run_tick(): the agents of the tick, on their workers.  The pool takes   *)
(* them in registration order: an agent starts when one of the MaxWorkers  *)
(* is left after those running and those taken before it.                  *)

WorkerFor(a) ==
  Cardinality(JobsIn({"running"}))
    + Cardinality({b \in JobsIn({"queued"}) : regno[b] < regno[a]}) < MaxWorkers

StartAgent(a) ==
  /\ job[a] = "queued" /\ WorkerFor(a)
  /\ job' = [job EXCEPT ![a] = "running"]
  /\ astate' = [astate EXCEPT ![a] = "running"]
  /\ UNCHANGED << agentVars, mailVars, runVars, failVars, dropping, tick, inTick, inbox, horizon >>

\* The agent's own code has the control of its worker.
InStep(a) == job[a] = "running" /\ dropping[a] = None

Send(a, N) ==
  /\ InStep(a) /\ "send" \in Calls /\ posted < MaxPosts
  /\ CanDeliver(bus, N)
  /\ bus' = Deliver(bus, N, NextMail(NameOf[a]))
  /\ posted' = posted + 1
  /\ UNCHANGED << agentVars, runVars, jobVars, failVars, astate, dropping >>

Broadcast(a) ==
  /\ InStep(a) /\ "broadcast" \in Calls /\ posted < MaxPosts
  /\ bus' = DeliverAll(bus, NextMail(NameOf[a]))
  /\ posted' = posted + 1
  /\ UNCHANGED << agentVars, runVars, jobVars, failVars, astate, dropping >>

Spawn(a, b) ==
  /\ InStep(a) /\ "spawn" \in Calls
  /\ Register(b, NameOf[a])
  /\ UNCHANGED << posted, runVars, jobVars, failVars, astate, dropping >>

Wait(a) ==
  /\ InStep(a) /\ "wait" \in Calls
  /\ astate' = [astate EXCEPT ![a] = "waiting"]
  /\ UNCHANGED << agentVars, mailVars, runVars, jobVars, failVars, dropping >>

Exit(a) ==
  /\ InStep(a) /\ "exit" \in Calls
  /\ astate' = [astate EXCEPT ![a] = "done"]
  /\ UNCHANGED << agentVars, mailVars, runVars, jobVars, failVars, dropping >>

\* ctx.kernel.unregister(N): the agent leaves under the kernel's lock, the
\* mailbox under the bus's, and other workers run in between.
UnregisterAgent(a, N) ==
  /\ InStep(a) /\ "unregister_in_step" \in Calls
  /\ CanDeliver(bus, N) \/ N \in Names(registered)
  /\ registered' = {b \in registered : NameOf[b] # N}
  /\ dropping' = [dropping EXCEPT ![a] = N]
  /\ UNCHANGED << regno, parent, mailVars, runVars, jobVars, failVars, astate >>

UnregisterMailbox(a) ==
  /\ dropping[a] # None
  /\ bus' = UnregisterBoxes(bus, {dropping[a]})
  /\ dropping' = [dropping EXCEPT ![a] = None]
  /\ UNCHANGED << agentVars, posted, runVars, jobVars, failVars, astate >>

\* The messages of a step that returned are settled.
Return(a) ==
  /\ InStep(a)
  /\ job' = [job EXCEPT ![a] = "ok"]
  /\ inbox' = [inbox EXCEPT ![a] = << >>]
  /\ astate' = [astate EXCEPT ![a] = IF @ = "running" THEN "ready" ELSE @]
  /\ UNCHANGED << agentVars, mailVars, runVars, failVars, dropping, tick, inTick, horizon >>

\* Fault: a failed step is run again within its tick, uncounted.
Raise_RunsAgain(a) ==
  /\ InStep(a) /\ "raise" \in Calls
  /\ job' = [job EXCEPT ![a] = "queued"]
  /\ astate' = [astate EXCEPT ![a] = "ready"]
  /\ UNCHANGED << agentVars, mailVars, runVars, failVars, dropping, tick, inTick, inbox, horizon >>

\* An Exception: _record_failure().  Its messages stay with the kernel.
Raise(a) ==
  /\ InStep(a) /\ "raise" \in Calls
  /\ job' = [job EXCEPT ![a] = "failed"]
  /\ astate' = [astate EXCEPT ![a] = "failed"]
  /\ errors' = [errors EXCEPT ![a] = @ + 1]
  /\ UNCHANGED << agentVars, mailVars, runVars, dropping, restarts, told,
                  tick, inTick, inbox, horizon >>

\* A BaseException that is no Exception (sys.exit(), Ctrl-C) passes through
\* _run_agent() and step().  Modelled where the step runs on the kernel's own
\* thread; with a pool, the other workers would run on.
Abort(a) ==
  /\ InStep(a) /\ "abort" \in Calls /\ MaxWorkers = 1
  /\ StepRaises
  /\ UNCHANGED << agentVars, mailVars, failVars, astate, dropping, tick >>

-----------------------------------------------------------------------------
(* The barrier: supervise the casualties, escalate what stayed failed,     *)
(* reclaim the mailboxes of those that finished; each in registration      *)
(* order.                                                                  *)

\* Fault: one restart too many.
Restartable_OffByOne(a) == a \in OnFailure /\ restarts[a] <= MaxRestarts[a]

Restartable(a) == a \in OnFailure /\ restarts[a] < MaxRestarts[a]
NextCasualty(a) == AtBarrier /\ IsFirst(a, JobsIn({"failed"}))

SuperviseRestarts(a) ==
  /\ NextCasualty(a) /\ Restartable(a)
  /\ restarts' = [restarts EXCEPT ![a] = @ + 1]
  /\ astate' = [astate EXCEPT ![a] = "ready"]
  /\ bus' = Requeue(bus, NameOf[a], inbox[a])
  /\ inbox' = [inbox EXCEPT ![a] = << >>]
  /\ job' = [job EXCEPT ![a] = "restarted"]
  /\ UNCHANGED << agentVars, posted, runVars, dropping, errors, told, tick, inTick, horizon >>

\* on_restart() is user code; what it raises leaves step(), with the restart
\* already counted and nothing else done.
OnRestartRaises(a) ==
  /\ NextCasualty(a) /\ Restartable(a) /\ a \in HookRaises
  /\ restarts' = [restarts EXCEPT ![a] = @ + 1]
  /\ StepRaises
  /\ UNCHANGED << agentVars, mailVars, astate, dropping, errors, told, tick >>

SuperviseGivesUp(a) ==
  /\ NextCasualty(a) /\ ~Restartable(a)
  /\ job' = [job EXCEPT ![a] = "fallen"]
  /\ UNCHANGED << agentVars, mailVars, runVars, failVars, astate, dropping,
                  tick, inTick, inbox, horizon >>

NextFallen(a) == AtBarrier /\ JobsIn({"failed"}) = {} /\ IsFirst(a, JobsIn({"fallen"}))

\* Fault: a parent that failed in this tick is passed over.
HasLiveParent_NotRestarted(a) ==
  \E p \in Live : NameOf[p] = parent[a] /\ job[p] # "restarted"

\* _escalate() finds a parent to tell.
HasLiveParent(a) == \E p \in Live : NameOf[p] = parent[a]

Escalate(a) ==
  /\ NextFallen(a)
  /\ HasLiveParent(a) => CanDeliver(bus, parent[a])
  /\ IF HasLiveParent(a)
     THEN /\ bus' = Deliver(bus, parent[a], [id |-> posted + 1, from |-> NameOf[a],
                                             kind |-> "child_failed"])
          /\ posted' = posted + 1
          /\ told' = [told EXCEPT ![a] = @ + 1]
     ELSE UNCHANGED << bus, posted, told >>
  /\ job' = [job EXCEPT ![a] = "told"]
  /\ UNCHANGED << agentVars, runVars, astate, dropping, restarts, errors,
                  tick, inTick, inbox, horizon >>

\* The parent is live and its mailbox is gone: bus.post() raises KeyError.
EscalateRaises(a) ==
  /\ NextFallen(a)
  /\ HasLiveParent(a) /\ ~CanDeliver(bus, parent[a])
  /\ StepRaises
  /\ UNCHANGED << agentVars, mailVars, failVars, astate, dropping, tick >>

\* Faults: every agent that ran; only those that exited.
ToReclaim_All      == JobsIn({"ok", "restarted", "told"})
ToReclaim_DoneOnly == {a \in JobsIn({"ok"}) : ~Alive(a)}

ToReclaim == {a \in JobsIn({"ok", "restarted", "told"}) : ~Alive(a)}

\* _unregister_finished_mailbox() for every scheduled agent, and the return.
Reclaim ==
  /\ AtBarrier /\ JobsIn({"failed", "fallen"}) = {}
  /\ bus' = UnregisterBoxes(bus, Names(ToReclaim))
  /\ inTick' = FALSE
  /\ job' = [a \in Agent |-> "none"] /\ inbox' = [a \in Agent |-> << >>]
  /\ UNCHANGED << agentVars, posted, runVars, failVars, astate, dropping, tick, horizon >>

-----------------------------------------------------------------------------
OperatorStep ==
  \/ \E N \in Name : OperatorPosts(N) \/ OperatorUnregisters(N)
  \/ \E a \in Agent, p \in Name \cup {None} : OperatorRegisters(a, p)
  \/ \E n \in RunLimits : OperatorRuns(n)

UserCode(a) ==
  \/ \E N \in Name : Send(a, N) \/ UnregisterAgent(a, N)
  \/ \E b \in Agent : Spawn(a, b)
  \/ Broadcast(a) \/ Wait(a) \/ Exit(a)

WorkerStep(a) == StartAgent(a) \/ UnregisterMailbox(a) \/ Return(a) \/ Raise(a) \/ Abort(a)

BarrierStep ==
  \/ \E a \in Agent : \/ SuperviseRestarts(a) \/ OnRestartRaises(a) \/ SuperviseGivesUp(a)
                      \/ Escalate(a) \/ EscalateRaises(a)
  \/ Reclaim

RunStep == ReadLive \/ AskPending \/ RunReturns

Next ==
  \/ OperatorStep
  \/ BeginTick \/ RefuseTick
  \/ \E a \in Agent : UserCode(a) \/ WorkerStep(a)
  \/ BarrierStep
  \/ RunStep

Spec == Init /\ [][Next]_vars

\* Once in step() or run() the kernel's thread goes on, and so does a worker;
\* an agent's step() is assumed to end (the kernel has no time limit on it).
\* Nothing makes the operator call anything.
Fairness ==
  /\ WF_vars(BarrierStep) /\ WF_vars(RunStep)
  /\ WF_vars(inRun /\ (BeginTick \/ RefuseTick))
  /\ \A a \in Agent : WF_vars(WorkerStep(a))

FairSpec == Spec /\ Fairness

-----------------------------------------------------------------------------
(* Safety.                                                                 *)

Ordered(mail) == \A i, j \in DOMAIN mail : i < j => mail[i].id < mail[j].id

\* Mail is handed out in the order it was sent, and once: the messages in an
\* agent's hands come before those in its mailbox, whatever was redelivered
\* after a failure in the meantime (kernel.py _supervise(), bus.py requeue()).
MailOrder ==
  /\ \A N \in DOMAIN bus : Ordered(bus[N])
  /\ \A a \in Agent :
       /\ Ordered(inbox[a])
       /\ \A i \in DOMAIN inbox[a], j \in DOMAIN Pending(bus, NameOf[a]) :
            inbox[a][i].id < Pending(bus, NameOf[a])[j].id

\* A tick is a barrier: what an agent is handed was all sent before the tick,
\* whoever posts while it goes on, and none of what was sent before is left in
\* its mailbox for the next (README "Ticks are barriers", step()'s drain).  That
\* what was drained is not lost is Delivery's to say.
TickBarrier ==
  inTick => \A a \in Agent :
    /\ \A i \in DOMAIN inbox[a] : inbox[a][i].id <= horizon
    /\ job[a] \notin {"none", "restarted"} =>
         \A i \in DOMAIN Pending(bus, NameOf[a]) : Pending(bus, NameOf[a])[i].id > horizon

\* No one sending to an agent that is alive, or that was when the tick began,
\* meets the KeyError of an unknown recipient (step()'s comment on reclaiming).
LiveHaveMailbox ==
  \A a \in registered : Alive(a) \/ job[a] # "none" => CanDeliver(bus, NameOf[a])

\* Between ticks the mailboxes are those of the live agents, no more: nobody
\* can send to one that finished and fill a mailbox that no tick drains.
MailboxesOfTheLive == ~inTick => DOMAIN bus = Names(Live)

\* Between ticks every failure is accounted for: it used up a restart, or it
\* left the agent FAILED with no restart to use (_supervise()).
SupervisionBudget ==
  ~inTick => \A a \in Agent :
    /\ errors[a] = restarts[a] + (IF astate[a] = "failed" THEN 1 ELSE 0)
    /\ restarts[a] <= (IF a \in OnFailure THEN MaxRestarts[a] ELSE 0)
    /\ astate[a] = "failed" => ~Restartable(a)

\* Between ticks, a live parent has been told once of each child that failed
\* for good, and of no other, even a parent that itself failed and was
\* restarted in that tick (step()'s comment on supervision).
ParentTold ==
  ~inTick => \A a \in registered :
    /\ told[a] <= (IF astate[a] = "failed" THEN 1 ELSE 0)
    /\ \A p \in Live : /\ astate[a] = "failed" /\ parent[a] = NameOf[p]
                       /\ p \in {Boot[i] : i \in 1..Len(Boot)} \/ regno[p] < regno[a]
                       => told[a] = 1

\* The mail of one tick lies in a mailbox in the registration order of its
\* senders, as SerialBackend leaves it ("serial, threaded and async runs give
\* the same result", README).
SenderOrder ==
  ~inTick => \A N \in DOMAIN bus : \A i, j \in DOMAIN bus[N] : \A a, b \in registered :
    /\ horizon < bus[N][i].id /\ i < j
    /\ bus[N][i].kind = "mail" /\ bus[N][i].from = NameOf[a]
    /\ bus[N][j].kind = "mail" /\ bus[N][j].from = NameOf[b]
    => regno[a] <= regno[b]

-----------------------------------------------------------------------------
(* Action properties.                                                      *)

\* When run() returns, and nothing was raised: if no agent is live it says so,
\* and so it does if the kernel is quiescent.  And what it says is true but for
\* what others did since it looked: only agents registered since are live after
\* "finished", and after "quiescent" the others all wait, for whom every message
\* came since; "max_ticks" means that none was left (StopReason's comments).
StopReasonTrue ==
  [][inRun /\ ~inRun' /\ ~inTick /\ tick' = tick =>
       /\ Live = {} => stopReason' = "finished"
       /\ IsQuiescent => stopReason' = "quiescent"
       /\ stopReason' = "finished" => Live \cap knew = {}
       /\ stopReason' = "quiescent" => \A a \in Live \cap knew :
            /\ astate[a] = "waiting"
            /\ \A i \in DOMAIN Pending(bus, NameOf[a]) :
                 Pending(bus, NameOf[a])[i].id > askedAt
       /\ stopReason' = "max_ticks" => budget = 0]_vars

\* Quiescence is final: unless the operator posts, registers or unregisters,
\* no tick made in it runs an agent ("no further tick could change anything").
Settled == IsQuiescent /\ JobsIn(JobStates \ {"none", "skipped"}) = {}
QuiescenceIsFinal ==
  [][Settled /\ posted' = posted /\ registered' = registered => Settled']_vars

-----------------------------------------------------------------------------
(* Liveness.                                                               *)

\* run() returns.
RunReturnsEventually == inRun ~> ~inRun

\* A waiting agent with mail when run() looks, and ticks left, is run, unless
\* run() is left by an exception.  (Mail that comes after run() has looked and
\* found none is for the next run().)
WaitingWakes ==
  \A a \in Agent :
    (/\ inRun /\ ~inTick /\ check = "none" /\ budget > 0
     /\ a \in Live /\ astate[a] = "waiting" /\ Pending(bus, NameOf[a]) # << >>)
    ~> job[a] = "running" \/ (~inRun /\ stopReason = "max_ticks")

=============================================================================
