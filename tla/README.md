# A TLA+ verification of acp-agents

This directory models and checks the concurrent core of the `acp-agents`
workspace: `acp-client`, which runs one coding agent as a child process and
speaks the Agent Client Protocol (line-delimited JSON-RPC in both directions)
over its stdio, and `acp-agents`, which decides what to run. Paths below are
relative to `src/crates/`.

## 1. Inventory

| Component | State it keeps | Operations | Talks to |
|---|---|---|---|
| **Connection** `acp-client/src/connection.rs` | `pending` (id → oneshot sender), `stale` (id of an abandoned turn → session), `replaying` (sessions), `activity` (session → instant), `alive`, `diagnostics` + `stderr_open`, the stdin lock, the event sender | `send`, `awaited`, `request`, `notify`, `respond`, `write`, `replay_guard`, `quarantine`; reader task: `dispatch`, `asked`, `notified`, `closed`; stderr task | agent (pipes), product (bounded event channel), every Session (shared by `Arc`) |
| **Session** `session.rs` | `options` (behind a lock), the reply that opened it | `prompt_blocks`, `set_config`, `apply`, `cancel`, `close` | Connection |
| **Agent** `agent.rs` | handshake, `ChildGuard` | `launch`, `new_session`, `load_session`, `stop`, `Drop` | Connection, Orphans, the operating system |
| **Deadlines** `lib.rs` | four durations | read by `awaited`, `apply`, `launch` | Connection |
| **Orphans** `orphans.rs` | a JSON file and its temporary | `register`, `unregister`, `reap`, `kill_group` | operating system, other launches of the same product |
| **Wire** `wire.rs` | none | `classify`, `id_key`, `session_of`, the frame builders | Connection |
| **Event** `event.rs` | the `PermissionRequest` a product holds | `answer`, `allow`, `deny`, `cancel`; `map_update`, `permission_request`, `session_options`, `turn_outcome` | Connection, product |
| **Lookup** `acp-agents/src/path.rs`, `lib.rs` | the cached `user_path` | `directories`, `candidates`, `found`, `installed`, `available`, `first_installed`, `launch` | file system, the person's shell; its `Launch` goes to `Agent::launch` |

What is hard about it:

* *Interleaving.* One reader task, one stderr task and any number of request
  tasks share five locks, and every critical section is a single map operation:
  between two of them anything may happen. A deadline expires on one side while
  the answer is dispatched on the other.
* *Ordering.* A session's abandoned turn keeps talking; its words must not be
  attributed to the next turn. The replay that `session/load` provokes must not
  be mistaken for news. `Closed` must come last, and after the waiters were let go.
* *Failure.* The agent dies at any moment, prints garbage, answers late, asks
  questions nobody will answer; the product is killed between any two steps of
  the registry's read-modify-write, and process ids are reused.
* *Time.* Silence is measured per session, sampled once per tick. A write to a
  full pipe is under no clock at all.
* *The machine.* What is installed is asked one file at a time, of a disk that
  others change, along a PATH the person's shell has a say in.

What makes each part correct is stated as properties in the modules; the list
of hazards, each at its line with the properties that would catch it, is in
`PROJECT.json`.

## 2. The modules

| Module | Models | State ↔ code |
|---|---|---|
| `Connection` | one agent's stdio and every call made through it | `pending`, `stale`, `replaying`, `alive` are the fields of the same name; `slot[c]` is what call `c`'s oneshot receiver would yield; `pc[c]` is the place in `send` / `awaited` / `prompt_blocks` / `load_session` where its task stands; `reader` is the place in the reader task; `stdin`, `stdout` are the pipes, `events` the product's channel; `work`, `said`, `blocked`, `replied` describe the agent (external) |
| `Requests` | the promise a request makes to its caller, with no map, channel or reader | refined by `Connection` (`Promise`, `ImplementsPromise`) and, for the one request of a launch, by `Startup` (`Initialize`, `HandshakeIsARequest`) |
| `Deadlines` | the clocks of `send`, `dispatch`, `awaited`, and the startup timeout | `heard`/`seen` are the `activity` map, `sent[c]` is `awaited`'s local, `due[c]` the next tick |
| `Orphans` | process groups, `ChildGuard`, the registry file and `reap` | `file` and `tmp` are the two files, `task[t]` a `register`/`unregister` in progress, `reaper` the locals of `reap`; `excused` and `stale` are history |
| `Knobs` | `Session::options`, `set_config`, `apply` against an agent whose knobs withdraw one another | `options` is the list behind the lock, `pc` and `at` where a task stands and which of the wanted knobs `apply` is at; `now` is the agent's own state, `stated`, `uninformed` and `refused` are history |
| `Lookup` | one call of `acp_agents::launch`, an `is_file` at a time, and the PATH it searches | `path` is `user_path`'s cell, `heard` what the shell printed; `pc` is the stage of `launch`, `names` and `left` what `first_installed` and `found` have still to look at, `hit` a file found and not yet verified, `launch` the `Launch` returned; `files` is the disk (external), `steady` and `ever` its history |
| `Startup` | `Agent::launch` from the spawn to the end of the handshake, the stderr task, `diagnostics_settled`, what `Closed` carries | `tail` and `stderr_open` are the fields `diagnostics` and `stderr_open`; `stage` is the place in `launch`, `why` and `told` the failure it returns; `slot`, `reader` are the receiver of the initialize call and the reader task, as far as this one call needs them; `agentUp`, `helperUp` are the agent and a process it started (external) |
| `Launching` | the two composed: what was found is spawned, on a disk that may have changed | `SpawnFound` joins the end of `Lookup` to the start of `Startup` |
| `MCConnection`, `MCDeadlines`, `MCOrphans`, `MCKnobs`, `MCLaunching` | constants for TLC | |
| `Connection_proofs`, `Reader_proofs`, `Knobs_proofs`, `Orphans_proofs`, `Deadlines_proofs`, `Lookup_proofs`, `Launching_proofs` | the theorems | |

How the actions follow the code. A step ends wherever the code awaits or gives
up a lock. `send` is `Register` (slot filed), `Write` (frame written or not),
`TakeBack`; `awaited` is `Answered`, `LetGo`, `Expire` (the tick found a
deadline passed) and `Forget` (the slot taken back); a prompt that expired goes
on to `Quarantine` and `Cancel`, a load lifts its guard in `GuardOff`. The
reader keeps the line it dispatches at the head of `stdout` until it is done:
`ReadLine`, then `EndQuarantine` and `Complete` for a reply, `CheckReplaying`,
`CheckStale` and `Deliver` for an update, `Asked` for a question; `StopReading`,
`Clear` and `Announce` are the end of the loop and `closed()`.

Abstractions. JSON is reduced to what the code branches on: a line is a reply,
an update, a permission request, a request for something never offered, a
request that cannot be read, or bytes that are not UTF-8. A request's id is the
call itself, since `fetch_add` never repeats one. A JSON-RPC error is an answer
like any other. A frame is written whole or not at all: stdin holds `StdinCap` of them, and whoever
writes to a full one waits (the lock around the write adds no state: to wait for
the lock is to wait for that room). Stdout has no capacity, since its reader is
what is modelled.
Lines the client ignores (`Unroutable`, `Ignore`, other notifications) change no
state and are left out. The futures a caller drops are those the code drops
itself (tokio's timeout around plain requests). A product answers a permission
request at most once. In `Orphans` the entries are group ids; the command beside
each is modelled by what it decides: `still_ours` looks for the agent's name in the
command lines of the group, so whoever wears an id is an agent, a stranger of another
name (`foreign`), or a process of the owner which that name matches (`lookalike`, where
`LookAlikes`). The look and the `killpg` are two steps, and ids change hands between
them. Where `PsMayFail`, any `ps` may turn out not to run, or not to show an agent by
its name; where `DiskMayFail`, any read of the list may come out empty (`Readings`),
any write or rename fail (`WriteFails`, `ReapWriteFails`) and the list not be removed.
A temporary is written in one step, and its removal after a failure is one step with
that.

In `Deadlines` an instant read a few instructions later is the same instant, and
a timer that has gone off is polled before the clock moves on (`Pass`); the
theorems are about waiting measured by that clock.

In `Knobs` a list of options is which knobs are offered and which were chosen; an
empty one is what an agent says that says nothing. A knob's time runs out
(`GiveUp`) only while its reply is waited for: the lock taken afterwards is not
contended while the `apply` of `new_session` runs, since the product has no `Session`
yet. `Session::apply` is public (`session.rs:173`), too: a product that calls it later,
beside a `set_config`, is one more setter to the model, and two at once are what
`knobs_race` is about. The agent
of `Knobs` may answer with its list, with an empty one or not at all, and change
knobs itself (`OwnChange`, at most `MaxOwn` times), unless it is `Helpful`.

In `Lookup` a directory is a name, an answer of the shell a list of lines and a
line the list of entries `split_paths` makes of it; an entry that is not absolute
is a `Word`. Which of several version managers exist is the constant `Managers`.
Whether an `agent` is Cursor's (`name_verified`) is a property of the directory it
lies in (`Cursors`) while the file is there, since it is its target that is looked at;
of one that has gone by then the path alone speaks, as `canonicalize` then leaves it
(`CursorNamed`). A person's override is a path or a bare name. `add_missing`
and the filter of `merged_path` are functions of the number of turns their loop
has taken. The disk is followed until the search has ended without an answer or its
answer was spawned; `Used` forgets the search then.

In `Launching` a bare name is searched for by the system on the `PATH` the child is
given: the one this process has, or, if the product passes it on in `Config::env`
(`PassesPath`), `spawn_path`; directories whose files it cannot run are passed over. A
spawn may fail whatever the file, over a `cwd` that is not there or for want of a
process (`denied`).

In `Startup` the one request of a launch is filed (`Register`) and written (`Send`) in
two steps, and stdout may end between them; the agent is taken to keep its stdin open
while it lives. A line of stderr is its number, and 0 is one that is not UTF-8. The
agent may write to stderr, reply, refuse, print what is not UTF-8 on stdout and die
at any moment, before it is asked or after nobody waits any more; the helper holds
stderr only. `Announce` keeps in `closing` what `Closed` carries, which may lack
the last words: stdout and stderr are drained by two tasks, and only a failed
launch waits for both.

The agent answers a session's turns one at a time and says all it has to say
about a turn before the reply; it owes nothing else. Where fairness is not
assumed it may stop, die or ask at any moment.

## 3. What is checked

| Run | Instance | Question |
|---|---|---|
| `turns` | 2 prompts and 1 load of one session, event and stdin capacity 1, one line per turn before its reply, permission and unreadable questions, death | the safety core, no guard left behind, and the refinement of `Requests` |
| `unattended` | a prompt and a droppable request, `RefuseAll`, stdin and event capacity 1, one line per turn, a line that is not UTF-8, death; working agent | questions are never surfaced and never left unanswered; every wait ends; death is announced; a dropped future's slot lasts until its late reply and no longer |
| `deadlines` | 3 calls, 2 sessions, Startup = Idle = 3, Hard = 5, Tick = 2, clock to 7 | how late silence and the wall clock are noticed |
| `orphans` | 3 group ids (obedient, deaf, refusing), 1 thread, 2 crashes; look-alikes, a `ps` and a disk that may fail | every live agent is recorded but for those a failure was about, a stranger is signalled only by a reap and only for its name or in the moment after the look, orphans go |
| `knobs` | `apply` over 3 knobs of which the first withdraws the second, then a `set_config`; an agent that may be terse, mute or late and changes up to 2 knobs itself | the list is what the agent said, never supposed, never undone by a late answer |
| `startup` | 3 directories (the prefix, one given, one only the shell knows), 3 harnesses (an adapter with a package, two names for one CLI, a CLI that speaks ACP), 5 lookups (prefix, npx, explicit search, both kinds of override), up to 3 files and 1 change; every directory but the prefix `Runnable`, the process's own PATH to spawn on; a tail of 2 lines, 3 lines said and one that is not UTF-8, on either pipe, a helper that outlives the agent | what is run was there and speaks ACP; nothing better was passed over; a spawn fails for cause; the handshake keeps the promise of a request; a failure quotes the agent's last lines; launch ends |

*Turns.* `NoStrandedWaiter`, `WaitersLetGoFirst`,
`AnswerBeatsDeath`, `ClosedIsLast` are about the order in which the reader, the
deadline and the end of the connection reach one slot. `NoStaleWords` says that
no word of a quarantined turn gets through, however many turns of its session
were abandoned; `HistorySuppressed` that a load's history does not while the
load is in flight. Two prompts and a load of one session are the smallest
instance in which one abandoned turn can be confused with another and with a
replay; event capacity 1 makes the reader wait, stdin capacity 1 the writers. One
session is enough because `stale` and `replaying` are looked up per session and
every clash is within one. `HistorySuppressed` is a promise about one load per
session: of two overlapping loads the first to end lifts the guard of the other
(`load_session` keeps a set, not a count), and a load with `replay` lifts it at
once. What holds however many loads overlap is `MutedOnlyWhileLoading`: no guard is
left behind.

*Unattended.* `WaitsEnd` needs an agent that reads what it is sent and replies
when it may (`WorkingAgentSpec`), the runtime polling ready tasks and the
product draining its channel (`ClientFairness`): tokio does the first, the
crate's contract asks the second. Deadlines are given no fairness, so no wait
ends here by timing out. A request the client cannot read is left out: the code
never answers one, under `RefuseAll` either, and its turn ends only by the
deadline. `QuestionsEnd` is `WaitsEnd` seen from the agent: it holds of a turn
nobody waits for any more, too. `PendingOwned` is checked here because this run has a
request whose future is dropped: nothing takes its slot back but the late reply, which
must do so though nobody listens. After a line that is
not UTF-8 nothing more is read, and `WaitsEnd` says so (`Garbled`); what that means
for a later call is `asked_after_close`. Stdin that holds one frame makes the reader
wait whenever it answers a question, and the run shows that an agent that reads
is enough to release it.

*Deadlines.* The tick does not divide the idle deadline or the hard one, so
both bounds are met with a remainder. The clock bound lets a call be sent late
and still reach every end.

*Orphans.* One thread, because with two the registry loses entries (below).
`LiveAgentsRecorded` excuses exactly these: the groups that were ended the ordinary way,
which are struck out by design; the one whose product died between spawning and
recording it, a window the code cannot close; the one whose write failed, which is only
warned about (`orphans.rs:74`); those a reap took for gone because its `ps` did not run
(`orphans.rs:104`), though "only a group that is actually gone leaves the list"
(`orphans.rs:170`); and those on a list that was read as empty (`orphans.rs:40`), which
the next write makes true. A crash ends the excuse of whoever is still in the file. What
is checked is that each failure costs those agents and no others.

`OnlyOursSignalled` is what the name and the two steps leave of "members were just
confirmed to still include the agent we started" (`orphans.rs:162`). `stop` and `drop`
never signal a stranger, since the id is pinned by a `Child` nobody has waited for. A
reap may, in two ways and no others: its id is on the list and its command line bears
the agent's name, or it took the id between the look and the signal. The run reaches
both.

Fairness is that a killed product is started again, its reap runs, and an agent that
does not ignore SIGTERM obeys it.

*Knobs.* Three wanted knobs are the fewest with one withdrawn before its turn and
one asked after that; one `set_config` may meet a late answer to `apply`.
`KnownKnobsOnly` and `ListIsLatest` hold only of an agent every statement of
which was the answer to a request still waited for (`uninformed`): the other
ways to fall behind are by design, an event being the product's to record. Two
calls of `set_config` at once break `ListIsLatest` (below). Only `ApplyEnds` uses
the fairness, that tasks and the reader are polled and that a deadline passes;
the agent owes nothing.

*Startup.* Each of the three harnesses takes another branch of `launch`, and
three directories are the fewest in which the order of prefix, given and added
can be got wrong; the given and the added one are Cursor's, so an `agent` in the
prefix is a stranger's, and of two that are Cursor's the first is the better.
One change is enough for every race of one search with one install or removal;
three files leave room for a better candidate, a worse one and `npx`. A tail
of two and three lines make the tail overflow once. The prefix is the directory whose
files cannot be run. `SpawnFailsForCause` says what a spawn that fails over its file
tells of it: that it could not be run, that it was not there all the time, or that it was
an override by a bare name, found on the person's PATH and in no directory of the one
the system searches; the last cannot happen to a product that passes `spawn_path` on.
All three are reached, and the bare name that does start. The fairness is that `launch` goes
on, the client's tasks are polled and a deadline or a grace passes; the agent owes
nothing. `NothingBetterWasThere` excepts an `agent` that lies behind one that is
somebody else's or does not stay: `first_installed` verifies one place per name, so a
stranger's `agent` in an earlier directory, or one that goes between the two looks
at it, hides Cursor's in a later one. `HandshakeIsARequest` says that a launch ends
its one request as `Requests` has it: with an answer only if the agent gave one, with
"closed" only if the agent has gone or cannot be read, and for good, so that an
answer which comes while stderr is heard out changes nothing.

Where this code is looser than a reader may expect: `installed` says "right now" and asks `is_file`, not
whether the file is executable; `Closed` is announced with the stderr that was
read by then, which may lack the "last thing it said" (`event.rs:63`); a line of fish's space-separated PATH that starts
with "/" stays as one absolute directory that does not exist; a handshake that
runs into the startup deadline does not quote stderr; a stderr line that is not
UTF-8 ends the tail for good.

A run may end in deadlock where the system may stop: `CHECK_DEADLOCK FALSE` is
said where every call may be done with nothing left to happen, or where the
clock stops; `orphans` checks deadlock.

### Where the code and its comments disagree

| Run | What TLC shows |
|---|---|
| `late_reply` | A reply dispatched after `awaited` took its slot back and before `prompt_blocks` filed the quarantine: the entry is never removed, and the session's later turns are muted (`connection.rs:357`, `session.rs:135`). |
| `asked_after_close` | After a line that is not UTF-8 the reader ends with stdin still open; a request made then is filed, written and waited for, until the idle deadline (`connection.rs:110`, `305`). |
| `silent_clock` | `send` refreshes the connection's clock and not the session's: a turn begun after a pause longer than the idle deadline is declared silent at its first tick (`connection.rs:316`). |
| `lost_entry` | Two launches at once: one registry entry overwrites the other (`orphans.rs:82`). |
| `stuck_call` | An agent that stays alive and does not read: the frame of a request, or the cancel of an abandoned turn, waits for room in the pipe for ever, since no deadline covers a write (`connection.rs:308`, `session.rs:136`, against `connection.rs:285`, `session.rs:109`). |
| `knobs_race` | Two `set_config` calls: the replies arrive in order and are recorded in the other one, and `options()` is not what the agent last stated (`session.rs:154`, against `session.rs:96`). |

## 4. What is proved

The theorems assume of the constants what each module's ASSUME says: any calls,
sessions, policy, channel capacity and agent (`CallsAssumption`,
`PolicyAssumption`), any deadlines and tick that are positive numbers
(`KeysAssumption`, `DeadlinesAssumption`), any group ids, threads, number of crashes and
failures of `ps` and disk (`ThreadsAssumption`, `CrashesAssumption`,
`WhimsAssumption`), any directories, shell, version managers
and lookups (`LookupAssumption`, `RunnableAssumption`), any length of the tail that
is not zero (`StartupAssumption`), any knobs and ids. What a theorem assumes beyond
that is named below.

* `TypeCorrect`: the types, and the channel's bound. The strengthening
  (`Dispatching`) says that the line being dispatched is still at the head of
  stdout and of the kind that brought the reader where it is.
* `NobodyStranded`, `WaitersGoFirst`, from one invariant
  `WaitInv`. `NoStrandedWaiter` alone is not inductive: one must know that a slot
  is filed before it can be waited for (`SlotsFiled`) and that a filed slot is
  still empty (`SlotsFresh`). `WaitersLetGoFirst` needs `CleanEnd`: without
  garbage the reader stops only once both pipes are closed, so nothing can be
  written after the map was cleared.
* `PromiseKept`: `Connection` implements `Requests`. Every step maps to a step of
  the promise or to a stutter because nothing travels on either pipe that does
  not come from a request made (`Honest`), and because only an answer fills a
  receiver and only the end empties one (`Outcomes`).
* `NeverForever`, `SilenceIsNoticed`, `PatienceFromSending` (and
  `ClocksAreSound`) in `Deadlines`: the invariant is that a wait is never past
  its own wake-up (`OnTime`) and that a wake-up was set a tick after a moment at
  which neither deadline had passed (`DueInTime`).
* In `Lookup_proofs`, about one search, for every disk and every change to it.
  `AddMissingIs` and `UserPathIs` say what the PATH consists of, whatever the shell
  prints. A loop is taken up turn by turn: the function of its turns exists
  (`Looping`, by the least turn at which it would not), and what each turn keeps
  holds of the last, since a set of turns that has 0 and with each turn the next has
  them all (`Upward`, from `Least`). The search itself has one invariant,
  `LookupInv`. None of the properties is inductive: an answer is right because of
  places that were looked at before, and the disk may since have changed. So
  the invariant keeps, in terms of `steady` and `ever` only, what the search has left
  behind: within a name, no place before this one was there all the time (`InOrder`);
  no name before this one could have been taken (`NamesPassed`), nor could any of an
  earlier stage (`StagesPassed`), nor, at an end without an answer, anything
  (`NothingLeft`); and an answer is the best there was (`Justified`, `Best`). A change
  to the disk can only shrink `steady` and grow `ever`, and all of these bear that
  (`Fades`).
* In `Launching_proofs`, about the search and the spawn together: `TypeCorrect`;
  `PathHolds`, `ProtocolHolds`, `BestHolds` and `ReadyHolds`, the four properties of a
  search, from `LookupInv`. `SpawnFailureHolds` must also know that after a spawn
  which failed neither the answer nor the disk moved, and that the system would not run
  that answer (`SpawnRefused`).
  `SearchAdvances` is the part of `LaunchEnds` that needs no fairness: every step of a
  search brings it lexicographically nearer to its end (stage, then names, then
  places, then a find to verify), and no other step takes it further from it.
* About the start-up: `TailHolds` and `ReasonHolds`, that the tail is the latest lines
  of stderr in their order (`TailIsLatest`, inductive with the types and the lemma
  `LastOfNext`), and that a handshake which failed while stderr was heard out quotes
  them. The strengthening (`Drained`) says that the stderr task drops its flag only
  once the pipe is empty and nobody is left who could write to it. `HandshakeKept`
  is the second refinement of `Requests`; it rests on `Greeting`, what stage, reason,
  slot and reply can be at once: a slot is filled by a reply that was read, emptied
  only when the agent has gone or cannot be read, and a reason once given stays.
* In `Reader_proofs`, about the reader task of `Connection` and for the same
  constants. `ClosedComesLast` is inductive with the types. `RefusedAreUnseen`
  must also know that under `RefuseAll` only updates are ever on their way to the
  product (`Unseen`). `MutedNoLonger` says that a guard belongs to a load still
  under way (`GuardsOwned`), however many loads overlap; `HistoryStaysBack`, that
  the guard of a load in flight is there (`GuardsUp`), needs `OneLoadEach`, no
  session loaded twice, since `replaying` is a set and not a count.
  `AnswersBeatDeath` rests on `HeardOut`: a request whose reply was written and
  whose slot is filed has that reply still in stdout, and the reader stops only
  once stdout is empty. From that and `SlotsOwned`, `SlotsAreOwned` (`PendingOwned`): a
slot of a dropped future has its reply still to come. `AbandonedTurnsSilent` (`NoStaleWords`) is the longest: a
  request is in one place only, on its way, in the agent's hands or replied to
  (`Once`), so that what is in stdout after its reply is not its own, and a turn
  that is abandoned and no longer quarantined has no word left there (`Spoken`).
* In `Knobs_proofs`, for any knobs and agent: `TypeCorrect`; `ListIsNeverAhead`,
  from what every statement on its way says (`Told`); `WithdrawnUnasked`, for any
  number of setters, from an agent kept up with while `apply` runs (`UpToDate`,
  `KeepingUp`). `NothingUntold` and `ListCatchesUp` assume `OneSetter`, one task that
  calls `set_config`: whose turn it is (`Turns`), and the statements on their way
  grow in the order in which they will be recorded (`InOrder`). With two setters
  both fail, as `knobs_race` shows of the second.
* In `Orphans_proofs`, for any ids, threads and number of crashes: `TypeCorrect`;
  `StrangersUntouched` (`OnlyOursSignalled`), from `GuardsPin`, an id is free or a
  stranger's only while nobody holds its `Child`, and `ReapLooks`, what is about to be
  signalled is on the list and was an agent or a look-alike when it was looked at, and
  still is unless it has changed hands. `NobodyForgotten` (`LiveAgentsRecorded`) assumes
  `OneAtATime`, one thread: a live agent is in the file and in whatever is about to
  replace it, a list that was read, the temporary, what a reap has left
  (`Recorded`). `lost_entry` shows that the assumption cannot go.

Only model-checked: the liveness properties (`WaitsEnd`, `DeathAnnounced`,
`QuestionsEnd`, `OrphansGo`, `ApplyEnds`, `LaunchEnds`), since liveness under fairness
and ENABLED are out of the prover's reach. Every invariant and every action property
of a passing run is stated by a theorem. No module uses RECURSIVE. The library's
induction rule takes an operator for its hypothesis, which the installed provers
cannot instantiate; where a proof goes along a loop it reasons about a set of turns
instead, as above.

## 5. Not modelled, and the plan

1. **Confirmation after `stop`**: a deaf agent that outlives `stop` or `drop` is struck
   off before anybody looks (`agent.rs:450`); `excused` is where it would bite.
2. **Wire**: `classify`, `id_key` and `session_of` as operators against the
   protocol's own definition.

Left out for good: the JSON shapes and wording (`map_update`, `turn_outcome`,
`http_mcp_server`, `install_command`, error messages), which keep no state; the
futures a product drops by itself (half a frame in the pipe, a replay guard that
no destructor lifts); Windows, where the registry does nothing.
