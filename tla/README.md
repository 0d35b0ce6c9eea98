# GeneHub: a formal model of its core

GeneHub is a local-first workbench for coding agents. One daemon per machine owns
the conversations ("sessions"), starts agent processes, feeds them prompts and
keeps what they say; browsers, a desktop shell and a CLI watch and steer it,
directly or through a relay. This directory holds TLA+ models of the parts where
its correctness is decided, TLC configurations that check them, and TLAPS proofs.

## The system and its parts

| part | where | state it keeps | operations | what is hard |
| --- | --- | --- | --- | --- |
| session execution | `apps/daemon/src/session/manager.rs` | the claim (`Live::execution`), the agent, the pump, `retirement`, `interaction_lock`, `closing` | send, hand over, hear, stop, close, switch Agent, shut down | every path talks to a process and awaits; three of them may end the same turn |
| session inbox | `session/inbox.rs` | the ledger of receipts in the session's metadata, `paused` | accept, promote, steer, deliver, settle, pause, recover | an acknowledged message must survive exits and deaths between any two writes |
| human pause | `manager.rs`, `provider_control.rs` | `pending_permission`, `human_continuation`, `continuation_dispatched` | request, pause, answer, continue, grant, withdraw | an answer races the turn's end, a stop, other messages and a restart; it is written in several places |
| session persistence | `manager.rs`, `session/rounds.rs`, `session/store.rs` | the items of the turn, its checkpoint, the chat log, the rounds | begin, grow, checkpoint, flush, promote | a death between the append and the removal of the checkpoint; an append that stops halfway |
| event replay and resync | `manager.rs`, `dataplane/endpoint.rs`, `packages/workbench/src/protocol/client.ts` | sequence number, replay window, forwarding task, the client's cursor | publish, subscribe, lag, resync, reconnect | events over a snapshot, receivers that lag, restarts |
| relay fabric | `apps/relay/src/forward` | endpoints, routes, streams, tombstones, fences, counters | admit, open, accept, data, reset, revoke, expire, evict | authorization is awaited while everything it was asked about changes |
| component store | `apps/host/src/store.rs`, `update.rs`, `load.rs` | candidate, highest version (the fence), active component | stage, fence, commit, recover, load, discard | several processes; a loss of power between any two writes; old versions that come back |
| managed update | `session/managed_update.rs`, `packages/frontdoor/src/managed_update.rs`, `apps/cli/src/update.rs` | request, progress, heartbeat and continuation files | request, work, hand a session over, resume | three programs, two files, a worker that may be dead or slow |
| instance lock | `packages/frontdoor/src/fs_lock.rs`, `lifecycle.rs` | the kernel's file lock, the published endpoint | take, hand over, reap | two daemons for one data directory |
| data plane | `apps/daemon/src/dataplane` | channels, streams, logical connections | admit, open, flow, close | admission limits, replaced carriers |
| router, adapters | `router.rs`, `adapter/` | tables of requests and replies | dispatch; prompt, steer, interrupt, close | a reply that does not come |
| the rest | built-in agent, processes and PTYs, files and git, link and hub, workbench UI, desktop shell, CLI, capture | — | — | I/O, presentation, or programs of their own |

How they interact: a client's `session.send` reaches the router, which gives a
message with an id to the inbox and one without an id straight to the execution.
The inbox hands messages to the execution every 250 ms (`lib.rs`), or into the
turn that is running. The execution starts a process through an adapter, and its
event pump turns what the process says into items, rounds and published events.
A request for permission ends the turn early and leaves a card; its answer is
told to a later turn. Whatever ends a turn settles the inbox entries it carried
and flushes its items. Published events go to the tasks of subscribed connections, over
the relay if the client is far away. A daemon that exits fences deliveries, shuts
every session down and leaves the rest to recovery by the next one. The daemon itself
is a component that a Host process loads from the component store.

## The modules

| module | models | form |
| --- | --- | --- |
| `ExecutionClaim` | what a session promises about its executions | abstract specification |
| `SessionExecution` | one live session: claim, handover, pump, stop, close, switch, shutdown | an action per stretch of code between two awaits |
| `SessionInbox` | one session's ledger, its deliveries, exits and deaths of the daemon | an action per durable write or await |
| `HumanPause` | requests, answers and continuations of one session, with the inbox's entries and the execution they meet | an action per durable write or await |
| `SessionLog` | what a session's turns leave in memory, in the checkpoint and in the log | an action per write |
| `SessionStream` | the events of one session on their way to one client | an action per thing read or sent |
| `FabricPromise` | what the relay promises to endpoints and authority | abstract specification |
| `RelayFabric` | the relay's core and forwarder, its authority as environment | an action per handler, cut at its awaits |
| `ComponentStore` | the Hosts that share a component store | an action per write and per sync |
| `MC...` | the sets and mixtures of moves a run uses | for TLC |
| `SessionExecution_inv`, `SessionExecution_proofs`, `SessionInbox_proofs`, `HumanPause_proofs`, `SessionLog_proofs`, `SessionStream_proofs`, `RelayFabric_proofs`, `ComponentStore_proofs` | inductive invariants, lemmas, theorems | proofs |

The session modules look at the same session from different sides, and each keeps
of the others only what it needs: `SessionExecution` has every step of a handover
and a retirement, `SessionInbox` of an execution only its phase and `input_ids`,
`HumanPause` an entry's state and the phase, `SessionLog` whether a turn runs. What
one assumes of another is what that other's run checks. Mutated variants of an
action stand beside it, marked as such; no specification uses them.

### SessionExecution

The daemon is a single-threaded guest, so code between two awaits is one action
(a lock taken uncontended does not split one). `claim`, `phase`, `canceled`,
`terminal` and `bound` are the fields of the `Execution` in `Live::execution`;
`agent`, `procs` and `serves` are `Live::agent`, the processes that exist and the
execution whose prompt each works on; `pump`, `pumpAt`, `pumpOf` are the event pump and
how far it is with the end of a turn; `task` has one entry for each future that may
retire an execution: its handover, the task of the `Handover` guard, the cleanup
task of a stop, the shutdown. An execution is its number, a process is named by
the execution that spawned it. `send_prepared` and `start_turn` are `DirectSend`,
`DeliverClaim` and `Hand...`, each of which looks at the cancel flag first, as the
biased `select!` does; `retire_execution` is `Retire...`; `pump_events` is `Pump...`;
`interrupt` is `StopRequest` and `StopEnter`; `switch_agent_with_routing` is
`Switch...`; `Live::shutdown` is `Down...`.

### SessionInbox

`entry` and `turnOf` are the ledger (every write saves a clone before it is
assigned, so disk and memory agree), `chat` and `summed` what the chat log holds,
`paused` and `onDisk` the pause in memory and on disk. `accept_input` is
`AcceptReserve`, `AcceptAppend`, `AcceptQueue` with a death or a failed write possible
after each, and `AcceptResumes`, `AcceptAgain` for a sender that retries.
`dispatch_deliveries` and `deliver_inputs` are `Deliver...`, `steer_inputs` is
`DeliverSteers` with its three answers, `start_turn` is `HandMark`, `HandSend`,
`HandBind`; `settle_inputs` is part of `TurnCompletes` and `TurnFails`;
`recover_deliveries` is `Boot`. `offered`, `unheard`, `withdrawn`, `acked` are history.
`agent` is what the session's agent can do (here and in `HumanPause`): it takes a
message into its turn (`"steers"`), it does not but can be interrupted and resumed
(`"stops"`), or neither (`"bare"`, what a script agent that declares no capabilities is,
`inbox.rs:643`). The one adapter that steers declares both (`adapter/genet.rs:130`).

### HumanPause

`pending`, `decision`, `done` are `pending_permission`, `human_continuation` and its
`completed`; `card` is what clients are shown; `carries` and `consult` are the
execution's `human_request_id` and its consultation; `ask` is a request on its way
(`pause_for_permission`: wait for the execution lock, save, stop the agent, show),
`answer` an answer on its way (`respond_permission`: record in the chat, save,
acknowledge or hand over). `DeliverDecides` begins the continuation of a saved
decision, `DeliverCollects` adds the messages that may go with it. An accept and a
direct send are one step each.

### SessionLog

`items` are the texts in memory, `turnItems` what the next flush appends, `open` the
checkpoint, `log` the chat log, `round`, `record`, `unsaved` the rounds in memory, on
disk and owed. `persist_open_turn_if_due` is `Checkpoint`; `flush_turn` is
`FlushRounds`, `FlushAppends`, `FlushForgets`, `FlushFails` with the rows written so far
left in the log. A checkpoint that cannot be written is logged and still due, so it is
no step, and the error item that tells of a failed save is left out; loading a session is `Load`, `LoadClears`, `LoadFails`.

### SessionStream

Events are numbered as they are applied. The pump's text is applied and published
under the execution lock; messages and metadata are applied and published later,
without it. A subscribe is `Join`, `ReadReplay`, `ReadSummary`, `ReadItems`, `Answer`, in
the order of `subscribe_window` and `snapshot_unlocked`. `rx` is the forwarding task's
receiver, `wire` its frames; `sub`, `call`, `view` are the client's `Subscription`,
its one subscribe call and its timeline. A frame is an event's number or a notice
to synchronize again.

### RelayFabric

An operator on a core is a method of `FabricCore`, so a handler reads as the calls
it makes. `conn` is an upgrade and its awaits, `op` an `OPEN` with its reservation,
its answer and its binding. The authority is external: it issues generations in
order, never grants what it has revoked, and its sync contains everything revoked
so far. Two more things are asked of it. Routes lead to another endpoint, as
`rendezvous.ts:60` sees to. And the
grants of one endpoint expire in the order of their generations: `pruneConnectionGenerations`
(`fabric-core.ts:863`) drops the fence of an endpoint that left when its last generation
expires, so an older generation with a later expiry, still on its way, would come in over
a newer one. The contract does not spell that out; `ImplementsPromise` rests on it. `FabricPromise` keeps the highest generation an endpoint had, the one it
is online with, the bound streams and what is revoked.

### ComponentStore

`dir` is the directory as it is seen, `left` what a loss of power may leave of it:
its changes, in the order they were made, are undone from the last one on, and a
sync of the directory makes the visible one the only one. `step` and `holder` are
the transaction under way, `host` the processes. Starting is `Start`, `Lock` and the
steps of `recover_candidate` and of the bundled version's floor; applying an update
is `Download` (which compares with the version that runs), `Lock`, `Stage`, the fence
and `Commit`, each write followed by its sync; `Load` and `LoadDiscards` are the start
and reload of the component; every step may fail, every process may die, the
machine may lose power, a file may be damaged, or be intact and fail to be read,
which the code treats alike: it discards it. On Windows `sync_directory` does
nothing (`store.rs:305`): there only what does not depend on `left` having shrunk
is claimed, the order of the changes.

## What is checked

The environment's moves (requests, failures, deaths) are bounded by *mixtures*
(`Settings`, `Allowances`, `Profiles`): a run explores a set of them, each allowing some kinds
of move once or twice. That keeps the graphs small and lets the kinds meet in
every order.

| run | expects | shows |
| --- | --- | --- |
| `session_ordinary` | pass | no process works for an execution that does not own the session; a cancelled handover never runs; the pump commits what it heard; a stopping execution has someone who finishes it and a running one is heard; a session told closed has nothing left; a process whose close failed takes no prompt; every step implements `ExecutionClaim` |
| `session_live` | pass | stops are carried out, stopping and starting executions end, shutdowns end |
| `inbox_ordinary` | pass | an acknowledged message is kept; what an agent was given is not sent as new, and nothing is called handled that was not offered or called off after its mark; a running turn owns what it has to settle; a queued message is handed over or there is a visible reason, one of which is a turn of an agent that can be neither told nor interrupted |
| `human_pause` | pass | an acknowledged answer lives on until it was told; the card and the metadata agree; a card stops work; a grant is carried out in its mode and nothing else is; a decision is told, unless it waits for a consultation of an agent that cannot be interrupted |
| `session_log` | pass | what the next flush would not append is in the log; what a restart would show never shrinks; what is said is soon on disk |
| `session_stream` | pass | the cursor speaks for what is on screen; no gap is silent; the client ends up in sync |
| `relay_fabric` | pass | maps and counters agree; a revoked handle is out, whatever authorization returns late; an abandoned `OPEN` binds nothing; an end that is told of a stream is told of its end; every handler implements `FabricPromise`; revocations take effect |
| `component_store` | pass | the fence covers what is active, whatever a loss of power leaves; no release comes back below one that was durably active; an update reported as applied stays; a reload never goes back |
| `session_switch_kills_turn` | violation | a switch of Agent kills a turn that claimed the session while the switch awaited a catalog |
| `inbox_dropped` | violation | an exit between mark and prompt ends in an acknowledged message no agent ever gets |
| `inbox_unheard_resent` | violation | an unanswered steer is sent again as new |
| `inbox_saving_stuck` | violation | nothing in the inbox retries a turn that could not be saved |

What the passing runs leave out on purpose, because the code breaks a property in
it, is stated beside the mixtures and here:

- `session_ordinary`: a switch of Agent together with a direct send
  (`session_switch_kills_turn`) or with a failing close, after which the next send
  prompts a process whose close failed, against `manager.rs:6453`; a switch that cuts its
  wait for the pump short, and a wait cut short after a failed save, which leave a
  running turn unheard (`StrainedMixtures`); a delivery that
  interrupts an execution it never looked at (`InterruptHitsWhatItSaw`,
  `inbox.rs:648`).
- `human_pause`: an agent that raises a request before it was told of the
  answer that is waiting (`LateSetting`: `manager.rs:6527` clears the decision); an
  answer that differs after a failed save (`ChangedSetting`: the chat keeps the
  first, `manager.rs:4295`); a send without a message id between a decision and its
  delivery (`BetweenSetting`: the grant is carried out by a process in the ordinary
  mode); such a send over an open card where a save may fail (`OverSetting`, against
  `CardStopsWork`: the turn that asked could not be saved, so its session is failed and
  no longer waiting, `manager.rs:5360`, and `claim_execution` refuses only a waiting one).
  Where saves succeed the run does try to send over the card, and it is refused.
- `session_log`: a flush of the dispatcher beside a running turn (`AsideMixture`:
  what the turn says later of a flushed item does not reach the log, and its
  checkpoint is removed, against `manager.rs:7894`).
- `session_stream`: an event published without the lock while a subscribe reads
  (`BesideProfiles`, against `manager.rs:2768`), a retry between dial and identity
  (`DialingProfiles`), an event in the new numbering that overtakes the reset after
  a restart (`OvertakeProfiles`). Each makes the client count an event as seen that
  it never showed.

The inbox's mixtures do contain unanswered steers, failed saves and exits; the three
inbox violations are properties of their own, and the properties of the pass run
say what is left when they happen: `LedgerTellsTruth` admits a handover called off
after its mark, `QueuedIsDelivered` a turn that cannot be saved. Each of these three
violation runs allows one kind of trouble once, so each shows its cause alone.

### Bounds

*Executions*: `MaxExec = 2` sends and one shutdown, which claims a number of its own:
an old execution's task, pump or delivery meets the next owner. *Messages*: two of
a person and one notice in the inbox, with `MaxPending = 2` so that the queue is full;
two messages and two requests in `HumanPause`, so that a request meets the answer of
the one before. *Turns*: `MaxTurns = 8` never binds (with 9 there are as many states).
*Log*: three items, texts of two steps, two turns: an item of the first turn, one of
the second and one noticed in between. *Stream*: three events, a replay window and
a broadcast of one, two frames on the wire: each overflows. *Relay*: two endpoints,
two routes, two stream ids, three upgrades, two `OPEN`s; a profile for each thing that
may go wrong or pair that meets, some with a limit of one. *Store*: two processes, four
releases, an App that bundles the first and a later one of another interface that
bundles the third, one death, one loss of power, one failed step and one file damaged
or once not read, in any order. What these bounds hide is a fault that needs three executions,
processes or clients, or more failures of one kind; for the theorems the proofs
close that gap.

### Fairness

Weak fairness is assumed only of what the programs themselves run: in
`SessionExecution` handovers (bounded by `HANDOVER_BUDGET`), retirements (ask, grace
and joins have time limits), the pump, the delivery ticks, a stop that waits for
`interaction_lock`, switches, shutdowns; in `SessionInbox` an accept that has begun, the
delivery task, the stop, and that a daemon that went down is started again; in
`HumanPause` the dispatcher, a request or an answer on its way, the stop, the start;
in `SessionLog` the pump's clock, a flush that has begun, the loading of the session;
in `SessionStream` the publishers of what was applied, the daemon's tasks, the client's
reader, timers and reconnects; in `RelayFabric` only that a
revocation that is owed arrives. No turn has to end, no agent has to answer well, nobody has to
send or to answer a card, and failures never have to happen. `ComponentStore` has no
liveness property: nothing makes anyone update.

Deadlock is checked except in `relay_fabric` and `session_stream`, which stop when their
budgets are spent and everything is delivered; the session modules mark that state
with a step `Rest`.

## What is proved

`tlapm` checks, for every value of the constants:

| module | theorem | says |
| --- | --- | --- |
| `SessionExecution_proofs` | `TypesHold` | `Spec => []TypeOK` |
| | `TurnsAreOwned` | `Spec => []NoUnownedTurn` |
| | `CancelsAreKept` | `Spec => []CancelIsKept` |
| | `PumpCommitsOwned` | `Spec => []PumpCommitsItsOwn` |
| | `SessionImplementsClaim` | `Spec => ImplementsClaim` |
| | `EndsAreSeenTo` | `Spec /\ [][Calm]_vars => []SomebodyEndsIt` |
| | `ClosedAreGone` | `Spec /\ [][Calm]_vars => []ClosedMeansGone` |
| | `UncleanAreSpared` | `Spec /\ [][Calm]_vars => UncleanTakesNoPrompt` |
| `SessionInbox_proofs` | `TypesKept` | `Spec => []TypeOK` |
| | `AckedSafe` | `Spec => []AckedIsKept` |
| | `LedgerSafe` | `Spec => []LedgerTellsTruth` |
| | `InputsOwned` | `Spec => []RunningOwnsItsInputs` |
| `ComponentStore_proofs` | `TypeCorrect` | `Spec => []TypeOK` |
| | `FenceSafe` | `Spec => []FenceCoversActive` |
| | `NoDowngradeSafe` | `Spec => []NoDowngrade` |
| | `AppliedSafe` | `Spec => []AppliedIsKept` |
| | `ReloadSafe` | `Spec => ReloadGoesForward` |
| `RelayFabric_proofs` | `TypesKept` | `Spec => []TypeOK` |
| | `MapsKept` | `Spec => []MapsAgree` |
| | `RevocationHolds` | `Spec => []RevokedIsOut` |
| | `AbandonedBindsNone` | `Spec => AbandonedStaysDead` |
| | `NobodyHangs` | `Spec => []NoneIsLeftHanging` |
| | `FabricKeepsPromise` | `Spec => ImplementsPromise` |
| `HumanPause_proofs` | `TypesKept` | `Spec => []TypeOK` |
| | `CardsAreShown` | `Spec => []PendingIsShown` |
| | `AnswersAreKept` | `Spec /\ NoneLate => []AnswerIsKept` |
| | `CardsStopWork` | `Spec /\ NoneUnsaved => []CardStopsWork` |
| | `CardsStopWorkUnlessOver` | `Spec /\ NoneOver => []CardStopsWork` |
| | `GrantsAreApplied` | `Spec /\ NoneOver /\ NoneBetween => []GrantIsApplied` |
| `SessionLog_proofs` | `TypesKept` | `Spec => []TypeOK` |
| | `NothingForgotten` | `Spec /\ NoneAside => []NothingIsForgotten` |
| | `KeptGrows` | `Spec /\ NoneAside => KeptNeverShrinks` |
| `SessionStream_proofs` | `TypesKept` | `Spec => []TypeOK` |
| | `CursorSpeaks` | `Spec /\ NoneBeside => []SeenIsShown` |
| | `NoGapIsSilent` | `Spec /\ NoneOvertakes => []NoSilentGap` |

Some properties do not hold of everything the code does, which is why their runs leave
certain moves out (see *What is checked*). Their theorems say so as well: the hypothesis
names the moves, as an action formula `[][...]_vars` over the budget they spend, and
forbids nothing else. A mixture that grants none of
those moves satisfies it in every behaviour, whatever else it grants.

*SessionExecution.* The only assumption is `BoundsAssumption`: there is at least one send,
and a mixture asks for at most `Shutdowns` shutdowns. None of the properties is
inductive: a retirement may close the agent because nobody can take the session
while it holds the retirement lock, which rests on the cancel flag it set, on the
pump having been joined, and on the handover looking at the flag before each of its
steps. `IInv` in `SessionExecution_inv` says that, one part for each of the actors that
may touch the claim (`HandOwns`, `RetireOwns`, `PumpOwns`, `SwitchOwns`, `ServeOwns`), with
`Fresh` and `IdsSuffice` for the numbering; there is a lemma for each part and a case
for each action that can disturb it. The refinement maps an execution's owner to
`claim`, the work to the executions some process serves, and the ended ones to those
with an outcome. The five theorems without a hypothesis include the mixtures
`session_ordinary` leaves out.

The other three are about *calm* sessions. `Calm` says that no five-second wait for the
pump is cut short, and that while the Agent is switched no direct send claims the session
and no process refuses to close. Deaths, failed saves and handovers, dropped
senders and shutdowns are allowed everywhere, failed closes outside a switch. Each part
of the hypothesis is needed by one of them: `StrainedMixtures` in `MCSessionExecution` has one least
mixture for each. `ClosedMeansGone` shares it because it is proved from the same
invariant; there it may ask for more than it needs. One mixture of `session_ordinary`
does cut waits short, so for it these three are only model-checked.

`Calmly`, kept beside `IInv`, says what the actors know of each other. A handover not
withdrawn has the session to itself (`Starts`). Past its wait a shutdown finds nobody
starting and retires the owner (`Fenced`, `Waits`, `NoneStarts`, `Downs`, `OneDown`). A delivery
and a switch exclude each other by `interaction_lock` (`Delivers`, `OneHand`, `Locks`), so what a
switch finds claimed past its check is a shutdown's (`Switches`). Unless somebody ends the
turn, the pump listens to the agent (`Loose`), a prompt sent is being worked on or its end
is on the way (`Sent`), and so is what runs (`Runs`). `Numbers`, `New`, `Processes` and `Unclean`
say which processes there can be: the agent, and one that a handover has just spawned.
From this also follows that a switch never has to abort a pump that waits for the lock
the switch holds (`CalmSteps`), and that a stop finds a future that ends it
(`StoppingHasOwner`).

*SessionInbox.* `InboxAssumption` says that the absent message is none of the messages,
that at least one may be pending, and that a mixture counts with natural numbers. The
properties are about entries at rest; what they need besides is what the daemon knows of
the entries it is busy with. `Body`: an entry is queued only with its body in the log, and
the one being accepted is queued by nobody else. `Carried`: what a delivery has collected
is queued, is what its execution will settle, and is sent once it is marked; a steer under
way means that the turn runs. `Given`: an entry that is marked was offered, is unheard, was
called off or is being carried, and what was offered stays marked, so that only a question
to the agent, never a retry, turns a message into one that it may have. `Numbered`: a turn
that begins has a number no entry carries. The theorems include every mixture of exits,
deaths and failed writes, those of the violation runs too.

*ComponentStore.* `StoreAssumption` says that there is a process and an App, that every
release was built for an interface, and that Apps bundle releases or nothing. The
properties speak of every directory a loss of power may leave, but what keeps them is
the fence: `DirInv` adds that, unless it is damaged, the fence of every such directory
covers what is active there, what was ever durably active and what was reported. Of a
commit under way `CommitInv` remembers that it renamed what its process wants, or a damaged
file. For a reload, `RunInv` says that what a process runs above its bundled version
came from the store: it is covered by the fence always, and by the active file as long
as nothing was dropped, or as soon as a rename has replaced what was. The theorems hold
for any number of processes, Apps, releases and faults.

*RelayFabric.* `RelayFabricAssumption` says that endpoints and routes are named apart,
that stream ids are finitely many and never 0, and that the budgets of a profile and the
bounds on connections and OPENs are natural numbers. `IInv` has three parts. `Basics`
types the environment. `Tight` ties the maps of the core to the OPENs: a stream is held
by both its connections under the ids its route names, a reservation by its source, the
count is the number of reservations, and an OPEN that is under way is held. The methods
of the core that take things away (`unregister`, `closeBindings`, `cancelPending`, the
rejection, the pruning) each have a lemma that they keep the maps agreeing (`Good`) and
only trim them (`Trims`); a handler composes those lemmas, and one lemma carries
`Fenced` over whatever was trimmed. The admission, the reservation, the binding and the
revocation have proofs of their own. `Fenced` says what the relay knows of a revocation
while something is still asked about it: a question carries a mark no later than the
core's sequence (`Asked`); an answer that came back granted is either newer than the
revocation the table or the floor remembers, or will be found revoked when it is used
(`Answered`, `Granted`); without a synchronized authority nothing is installed
(`Synced`). From this `Out`, that nothing revoked and told is in use, is kept by the
steps that install something. The theorems hold for any number of endpoints,
connections, routes, outages and prunings.

`NoneIsLeftHanging` has an invariant of its own beside `IInv`. `Shown` says that what an
endpoint with an open socket was told of is a stream or a reservation of its connection,
and that a connection that is no longer current was told of nothing. Closing a binding
sends its RESETs before the next handler runs, so the lemmas are about the core in the
middle of one: they take a set of legs that are still to be told. The refinement of
`FabricPromise` rests on generations (`Gens`). A fence is above everything its endpoint
has had (`FenceAbove`); an answer asked for after the fence was raised is newer than it
(`LaterNewer`); and where a fence was pruned, an answer still in flight is newer than
every connection there was, or has lapsed (`UnfencedNewer`). The last is why pruning is
sound, and it is where the numbers of the authority and the clock of the relay meet: it
needs the order of expiry that `Lapse` assumes of the authority. Each
handler is shown to take connections, endpoints and bindings away in an order the
abstract specification allows, and to install at most one.

*HumanPause.* `PauseAssumption` asks for a request at least and numeric budgets. `Base` is kept by every step:
request, answer and delivery exclude each other through `interaction_lock` (`Apart`),
requests are numbered before they are anywhere (`Numbered`), and `Asked`, `Heard`, `Handed`,
`Marked` say what the pending request, the open decision, the turn that carries it and the
entries know of each other. That what is pending is shown is part of it, without
hypothesis. `AnswerIsKept` further needs that no request replaces a decision its agent has
not heard of (`Replaced`), that an answer is cleared only when told or when nothing follows
from it (`Cleared`), and that the chat shows it as it was given (`Recorded`); the hypothesis
`NoneLate` leaves out a request that comes in between and an answer changed after a failed save.
`CardStopsWork` and `GrantIsApplied` share `Grants`: which process may be alive behind a
card (`Quiet`, `Stopped`), and that one started without the permission ends before the grant
is told (`Prepared`, `Ready`). Two direct sends break them. `NoneBetween` leaves out the one
between a decision and its delivery (`manager.rs:3311`), which only the grant minds. `NoneOver`
leaves out the one over an open card. `CardsStopWork` does without it if every save
succeeds (`NoneUnsaved`): then the status is waiting as long as a card is open (`Guarded`), so
the claim refuses that send, and nothing but a consultation runs beside a card (`Alone`).
`CardsStopWorkUnlessOver` lets saves fail and leaves the send out instead.

*SessionLog.* `LogAssumption` types the bounds, which are any positive numbers. `Held` says
that items are numbered as they begin (`Numbered`), that only one flush is under way and
none while the agent speaks (`Apart`), that a flush has taken all there was to append as it
still is (`Taken`), and that what memory would append covers what the files have
(`Covers`). Failed appends, crashes at every write and reloads keep it.
`NoneAside` leaves out the dispatcher's flush beside the owner, for which it is false
(`inbox.rs:446`). That what a restart would show never shrinks is a property of steps; it
follows from `Held` before and after.

*SessionStream.* `SessionStreamAssumption` asks for positive queues and numeric budgets.
`Base` ties together what three parties hold: a connection that is down has no call, no
task and an empty queue (`Lines`), a cursor is of the numbering it was taken from
(`Numbering`), a call exists exactly while the subscription opens or asks again (`Asking`),
and a cursor of this numbering is in the log and not beyond the reply to come (`Ahead`).
`Whole` adds what makes a cursor speak: a call made on this connection asks about the
present cursor (`Ours`), what a subscribe has read is the whole session up to its number
(`Read`), and so what is shown is whole up to the cursor (`Level`, `Seen`). `Gaps` says that
what was forwarded beyond a reply on its way, or beyond the cursor, is on the wire or
covered by a frame that says something is lost. `NoneBeside` and `NoneOvertakes` leave out the
moves listed as hazards at `manager.rs:2808`, `client.ts:1491` and `client.ts:1432`.

Every safety invariant and every action property of the passing runs is a theorem above,
those that do not hold of everything under the hypothesis named there. Only model-checked
is what the mixtures of a run grant beyond that hypothesis, which is the one mixture of
`session_ordinary`, and liveness (`ComesToAnEnd`, `QueuedIsDelivered`, `DecisionIsTold`,
`SaidIsKept`, `RevocationTakesEffect`, `CatchesUp`): it is beyond the prover, as is `ENABLED`.

## Disagreements between code and documents

Four are findings in `PROJECT.json`, with the lines and the quoted text, each
reproduced by a violation run. Those listed under *What is checked* are left out of the
passing runs. Noticed besides, without a run:

- The comment on `Live::execution` (`manager.rs:137`) says its lock never covers a call
  into an agent; `steer_inputs` holds it while it awaits the agent's answer.
- `claim_execution` takes an execution that is only waiting to be saved without
  settling its inputs, so a completed message is delivered once more, labelled sent.
- `manager.rs:4697` says that a restart retries a continuation that could not be
  delivered; the failed turn saved `inbox.paused`, and a paused inbox is not eligible
  after the restart (`inbox.rs:380`). `RestartRetriesDecision` in `HumanPause` states it,
  `RestartSetting` breaks it. The one-turn mode override of `manager.rs:3303` is never
  undone.
- `store.rs:110` allows the same version again to repair a damaged file; `apply_manifest`
  compares with the fence when nothing runs and refuses the equal version
  (`update.rs:408`), so the repair is not reached that way.
- `report_cleanup_failure` marks whatever execution there is (`manager.rs:6450`), so the
  failure of an older retirement turns a send that has just claimed the session into
  `CleanupFailed`; the pump then ignores the end of its turn, and a later binding makes it
  running with nobody to end it. A switch that gives up on the pump (`manager.rs:4037`)
  leaves the agent alive without a pump, and the next send uses it (`StrainedMixtures`).
- The native command line compares an update only with the bundled version
  (`update.rs:553`); a stale download is refused later, by the fence.

## What is not modelled, and why

- *Inside the sessions*: trunks and blobs of large items, previews and titles;
  attachments and media routing, except that it may switch the Agent; the retired
  workflow lane; fork, import and queries. An adapter whose channel vanishes without
  the process ending. A claim that fails because what is still to be saved cannot be is,
  to `SessionExecution`, a direct send that never began. A direct send is one step in `SessionInbox` and `HumanPause`. A save that
  fails between the mark of a steer and its question is not told from one that never
  began. In `HumanPause`: agent close failures, provider configuration requests, the
  refresh of an expired plan, closing and deleting the session. In `SessionLog`: user
  messages, the notice of a failed save, several rounds of one turn.
- *Stream*: leaving a session, closing it under a subscriber, the switch of a connection to
  another path, paging and the merge of a windowed snapshot; the arrival of a reply and
  its installation are one step.
- *Relay*: the outbound queues with their byte budgets, presence reports, data
  sequence numbers (a frame that breaks a rule is `Violates`), the rendezvous.
- *Store*: manifest, channel, download, signatures and derived files; a deleted fence; a
  loss of power that reorders changes of the directory.
- *Managed update, instance lock*: three programs that meet in files and in locks of the
  kernel; the store they end in is modelled.
- *Data plane* beyond subscriptions, *adapters, processes, files, git, link, UI, CLI,
  capture, wire types*: I/O, presentation and packaging without a protocol of their
  own, or programs of their own.

Hazards without a property are listed in `PROJECT.json` with the reason.

## Plan

1. Two or three executions with cut-short waits for the pump: the weakest hypothesis under
   which `ClosedMeansGone` is a theorem.
2. The managed update's handoff between the old daemon, the worker and the new daemon.
3. The relay's flow queue with the shared byte budget.
4. Closing a session under a subscriber.

## Running it

    tlc -workers 2 -config SessionOrdinary.cfg MCSessionExecution
    tlc -workers 2 -config InboxOrdinary.cfg MCSessionInbox
    tlc -workers 2 -config HumanPause.cfg MCHumanPause
    tlc -workers 2 -config SessionLog.cfg MCSessionLog
    tlc -workers 2 -config SessionStream.cfg MCSessionStream
    tlc -workers 2 -config RelayFabric.cfg MCRelayFabric
    tlc -workers 2 -config ComponentStore.cfg MCComponentStore
    tlapm SessionExecution_inv.tla
    tlapm SessionExecution_proofs.tla
    tlapm SessionInbox_proofs.tla
    tlapm ComponentStore_proofs.tla
    tlapm RelayFabric_proofs.tla
    tlapm HumanPause_proofs.tla
    tlapm SessionLog_proofs.tla
    tlapm SessionStream_proofs.tla
