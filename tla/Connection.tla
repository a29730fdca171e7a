---------------------------- MODULE Connection ----------------------------
(***************************************************************************)
(* One agent process's stdio (acp-client/src/connection.rs) together with   *)
(* the calls that use it: prompts, loads and plain requests                 *)
(* (session.rs, agent.rs).                                                  *)
(*                                                                          *)
(* The processes are the reader task, one task per call the product has     *)
(* made, the product draining the event channel, and the agent itself       *)
(* (external: it is modelled from the frames the client sends it and the    *)
(* lines the client understands).  A step ends wherever the code releases a *)
(* lock or awaits, so two tasks interleave here wherever they can there.    *)
(*                                                                          *)
(* A request is identified with the call that makes it: next_id.fetch_add   *)
(* never yields one id twice.  Time is absent: a deadline may expire at any *)
(* moment at which the wait looks at its clocks (module Deadlines says      *)
(* when they let it).                                                       *)
(***************************************************************************)
EXTENDS Naturals, Sequences

CONSTANTS
  Calls,     \* the requests the product makes, each with an id of its own
  Sessions,
  Kind,      \* what each call is, see Kinds
  Target,    \* the session each call is about
  AskKinds,  \* the questions this agent may put to the client
  Policy,    \* PermissionPolicy: "ask" or "refuse"
  EventCap,  \* capacity of the product's event channel
  StdinCap,  \* frames the agent's stdin holds before a write has to wait
  MaxSaid,   \* bound: lines an agent writes during one turn before its reply
  MayGarble  \* whether the agent may print a line that is not UTF-8

(* prompt: Session::prompt_blocks.  load, replay: Agent::load_session with  *)
(* SessionOpts::replay off and on.  request: everything else that goes      *)
(* through Connection::request (initialize, new, set_config_option, close). *)
Kinds == {"prompt", "load", "replay", "request"}
Questions == {"permission", "foreign", "unreadable"}

ASSUME CallsAssumption ==
  /\ Kind \in [Calls -> Kinds]
  /\ Target \in [Calls -> Sessions]
ASSUME PolicyAssumption ==
  /\ AskKinds \subseteq Questions
  /\ Policy \in {"ask", "refuse"}
  /\ EventCap \in Nat \ {0} /\ StdinCap \in Nat \ {0}
  /\ MaxSaid \in Nat
  /\ MayGarble \in BOOLEAN

VARIABLES
  pc,        \* where each call's task is
  result,    \* how each call ended
  pending,   \* the calls whose oneshot sender is filed in the map
  slot,      \* what each call's oneshot receiver would yield
  stale,     \* the quarantined calls; the map's values are their Targets
  replaying, \* sessions whose replayed history is being suppressed
  alive, reader, events, listening,
  held,      \* questions the product has been handed and not answered
  stdin, stdout, stdinOpen, stdoutOpen,
  work,      \* agent: calls accepted and not yet answered, oldest first
  said,      \* agent: lines written so far for each call
  blocked,   \* agent: turns waiting for the answer to a question
  replied    \* agent: calls whose reply has been written

client == <<pc, result, pending, slot, stale, replaying>>
pump   == <<alive, reader, events>>
app    == <<listening, held>>
agent  == <<work, said, blocked, replied>>
ends   == <<stdinOpen, stdoutOpen>>
vars   == <<client, pump, app, stdin, stdout, ends, agent>>

PCs == {"new", "guarded", "registered", "unsent", "waiting", "expired",
        "forgotten", "quarantined", "unguard", "done"}
Results == {"none", "ok", "closed", "failed", "timeout", "dropped"}
ReaderPCs == {"read", "unstale", "complete", "replaying", "stale", "asked",
              "deliver", "clear", "announce", "done"}
Frames == [kind : {"request", "cancel", "answer"}, call : Calls]
Lines  == [kind : {"reply", "update"} \cup Questions, call : Calls]
            \cup [kind : {"garbled"}]
Events == [kind : {"update", "permission"}, call : Calls]
            \cup [kind : {"closed"}]

Frame(k, c) == [kind |-> k, call |-> c]
Line == Head(stdout)   \* the line being dispatched stays at the head till then
IsTurn(c) == Kind[c] # "request"
IsLoad(c) == Kind[c] \in {"load", "replay"}

(* The state is sound to look at: one conjunct per variable.               *)
TypeOK ==
  /\ pc \in [Calls -> PCs]
  /\ result \in [Calls -> Results]
  /\ pending \subseteq Calls
  /\ slot \in [Calls -> {"empty", "reply", "dropped"}]
  /\ stale \subseteq Calls
  /\ replaying \subseteq Sessions
  /\ alive \in BOOLEAN /\ reader \in ReaderPCs
  /\ events \in Seq(Events) /\ Len(events) <= EventCap
  /\ listening \in BOOLEAN
  /\ held \subseteq Calls
  /\ stdin \in Seq(Frames) /\ Len(stdin) <= StdinCap
  /\ stdout \in Seq(Lines)
  /\ stdinOpen \in BOOLEAN /\ stdoutOpen \in BOOLEAN
  /\ work \in Seq(Calls)
  /\ said \in [Calls -> Nat]
  /\ blocked \subseteq Calls /\ replied \subseteq Calls

Init ==
  /\ pc = [c \in Calls |-> "new"] /\ result = [c \in Calls |-> "none"]
  /\ pending = {} /\ slot = [c \in Calls |-> "empty"]
  /\ stale = {} /\ replaying = {}
  /\ alive = TRUE /\ reader = "read" /\ events = <<>> /\ listening = TRUE
  /\ held = {}
  /\ stdin = <<>> /\ stdout = <<>> /\ stdinOpen = TRUE /\ stdoutOpen = TRUE
  /\ work = <<>> /\ said = [c \in Calls |-> 0]
  /\ blocked = {} /\ replied = {}

---------------------------------------------------------------------------
(* The calls.                                                              *)

Goto(c, label) == pc' = [pc EXCEPT ![c] = label]

(* The call has its answer.  A load lifts its guard before returning it.   *)
Leave(c, r) ==
  /\ result' = [result EXCEPT ![c] = r]
  /\ Goto(c, IF IsLoad(c) THEN "unguard" ELSE "done")

(* write: the frame goes out whole as soon as there is room, however long   *)
(* that takes, or the pipe is closed and it fails.  Whoever else wants to   *)
(* write waits for the lock meanwhile, which is to wait for that room.      *)
Send(frame) ==
  \/ stdinOpen /\ Len(stdin) < StdinCap /\ stdin' = Append(stdin, frame)
  \/ ~stdinOpen /\ UNCHANGED stdin

GuardUnnegated(c) ==   \* slip: the flag is passed as it is
  /\ pc[c] = "new" /\ IsLoad(c)
  /\ Goto(c, "guarded")
  /\ replaying' = IF Kind[c] = "replay" THEN replaying \cup {Target[c]}
                                        ELSE replaying \ {Target[c]}
  /\ UNCHANGED <<result, pending, slot, stale, pump, app, stdin, stdout, ends, agent>>

(* load_session: replay_guard(id, !opts.replay).                           *)
GuardOn(c) ==
  /\ pc[c] = "new" /\ IsLoad(c)
  /\ Goto(c, "guarded")
  /\ replaying' = IF Kind[c] = "load" THEN replaying \cup {Target[c]}
                                      ELSE replaying \ {Target[c]}
  /\ UNCHANGED <<result, pending, slot, stale, pump, app, stdin, stdout, ends, agent>>

(* send: the slot is filed before the frame is written.                    *)
Register(c) ==
  /\ pc[c] = IF IsLoad(c) THEN "guarded" ELSE "new"
  /\ pending' = pending \cup {c}
  /\ Goto(c, "registered")
  /\ UNCHANGED <<result, slot, stale, replaying, pump, app, stdin, stdout, ends, agent>>

Write(c) ==
  /\ pc[c] = "registered"
  /\ Send(Frame("request", c))
  /\ Goto(c, IF stdinOpen THEN "waiting" ELSE "unsent")
  /\ UNCHANGED <<result, pending, slot, stale, replaying, pump, app, stdout, ends, agent>>

(* send: a frame that was not written gives its slot back.                 *)
TakeBack(c) ==
  /\ pc[c] = "unsent"
  /\ pending' = pending \ {c}
  /\ Leave(c, "failed")
  /\ UNCHANGED <<slot, stale, replaying, pump, app, stdin, stdout, ends, agent>>

AnsweredAnyhow(c) ==   \* slip: a dropped sender taken for an answer
  /\ pc[c] = "waiting" /\ slot[c] # "empty"
  /\ Leave(c, "ok")
  /\ UNCHANGED <<pending, slot, stale, replaying, pump, app, stdin, stdout, ends, agent>>

(* awaited: the receiver is looked at before the clock.                    *)
Answered(c) ==
  /\ pc[c] = "waiting" /\ slot[c] = "reply"
  /\ Leave(c, "ok")
  /\ UNCHANGED <<pending, slot, stale, replaying, pump, app, stdin, stdout, ends, agent>>

LetGo(c) ==
  /\ pc[c] = "waiting" /\ slot[c] = "dropped"
  /\ pending' = pending \ {c}
  /\ Leave(c, "closed")
  /\ UNCHANGED <<slot, stale, replaying, pump, app, stdin, stdout, ends, agent>>

(* awaited: a tick found the deadline passed; nothing is undone yet.       *)
Expire(c) ==
  /\ pc[c] = "waiting" /\ slot[c] = "empty"
  /\ Goto(c, "expired")
  /\ UNCHANGED <<result, pending, slot, stale, replaying, pump, app, stdin, stdout, ends, agent>>

ForgetNothing(c) ==   \* slip: the slot stays in the map
  /\ pc[c] = "expired"
  /\ IF Kind[c] = "prompt" THEN Goto(c, "forgotten") /\ UNCHANGED result
                           ELSE Leave(c, "timeout")
  /\ UNCHANGED <<pending, slot, stale, replaying, pump, app, stdin, stdout, ends, agent>>

(* awaited: the slot is taken back; whether the caller has more to do      *)
(* before it returns depends on what it asked.                             *)
Forget(c) ==
  /\ pc[c] = "expired"
  /\ pending' = pending \ {c}
  /\ IF Kind[c] = "prompt" THEN Goto(c, "forgotten") /\ UNCHANGED result
                           ELSE Leave(c, "timeout")
  /\ UNCHANGED <<slot, stale, replaying, pump, app, stdin, stdout, ends, agent>>

(* prompt_blocks: the turn was abandoned; its words are not to be trusted. *)
Quarantine(c) ==
  /\ pc[c] = "forgotten"
  /\ stale' = stale \cup {c}
  /\ Goto(c, "quarantined")
  /\ UNCHANGED <<result, pending, slot, replaying, pump, app, stdin, stdout, ends, agent>>

Cancel(c) ==
  /\ pc[c] = "quarantined"
  /\ Send(Frame("cancel", c))
  /\ Leave(c, "timeout")
  /\ UNCHANGED <<pending, slot, stale, replaying, pump, app, stdout, ends, agent>>

GuardKept(c) ==   \* slip: the guard outlives the load
  /\ pc[c] = "unguard"
  /\ Goto(c, "done")
  /\ UNCHANGED <<result, pending, slot, stale, replaying, pump, app, stdin, stdout, ends, agent>>

(* load_session: replay_guard(id, false), before the reply is looked at.   *)
GuardOff(c) ==
  /\ pc[c] = "unguard"
  /\ replaying' = replaying \ {Target[c]}
  /\ Goto(c, "done")
  /\ UNCHANGED <<result, pending, slot, stale, pump, app, stdin, stdout, ends, agent>>

(* launch and apply: tokio's timeout drops the future of a plain request   *)
(* where it stands, and nothing takes its slot back.                       *)
Drop(c) ==
  /\ Kind[c] = "request"
  /\ pc[c] \in {"registered", "unsent", "waiting", "expired"}
  /\ result' = [result EXCEPT ![c] = "dropped"]
  /\ Goto(c, "done")
  /\ UNCHANGED <<pending, slot, stale, replaying, pump, app, stdin, stdout, ends, agent>>

---------------------------------------------------------------------------
(* The reader task.                                                        *)

(* The dispatch of the line at the head is over: on to the next one.       *)
NextLine == stdout' = Tail(stdout) /\ reader' = "read"

(* next_line and classify.                                                 *)
ReadLine ==
  /\ reader = "read" /\ stdout # <<>> /\ Line.kind # "garbled"
  /\ reader' = CASE Line.kind = "reply"  -> "unstale"
                 [] Line.kind = "update" -> "replaying"
                 [] OTHER                -> "asked"
  /\ UNCHANGED <<client, alive, events, app, stdin, stdout, ends, agent>>

StopAtOnce ==   \* slip: what the agent wrote before it went is not read
  /\ reader = "read" /\ ~stdoutOpen
  /\ alive' = FALSE /\ reader' = "clear"
  /\ UNCHANGED <<client, events, app, stdin, stdout, ends, agent>>

AnnounceUncleared ==   \* slip: the product is told, the waiters are not
  /\ reader = "read" /\ stdout = <<>> /\ ~stdoutOpen
  /\ alive' = FALSE /\ reader' = "announce"
  /\ UNCHANGED <<client, events, app, stdin, stdout, ends, agent>>

(* next_line yields None at the end of stdout, and an error on a line that *)
(* is not UTF-8; `while let Ok(Some(_))` ends on either.                   *)
StopReading ==
  /\ reader = "read"
  /\ IF stdout = <<>> THEN ~stdoutOpen ELSE Line.kind = "garbled"
  /\ alive' = FALSE /\ reader' = "clear"
  /\ UNCHANGED <<client, events, app, stdin, stdout, ends, agent>>

EndSessionQuarantine ==   \* slip: any reply of the session ends it
  /\ reader = "unstale"
  /\ stale' = {c \in stale : Target[c] # Target[Line.call]}
  /\ reader' = "complete"
  /\ UNCHANGED <<pc, result, pending, slot, replaying, alive, events, app,
                 stdin, stdout, ends, agent>>

(* dispatch, Reply: the quarantine this reply was to end is over.          *)
EndQuarantine ==
  /\ reader = "unstale"
  /\ stale' = stale \ {Line.call}
  /\ reader' = "complete"
  /\ UNCHANGED <<pc, result, pending, slot, replaying, alive, events, app,
                 stdin, stdout, ends, agent>>

CompleteIfHeard ==   \* slip: a slot whose receiver is gone is passed over
  /\ reader = "complete"
  /\ IF Line.call \in pending /\ result[Line.call] # "dropped"
       THEN /\ pending' = pending \ {Line.call}
            /\ slot' = [slot EXCEPT ![Line.call] = "reply"]
       ELSE UNCHANGED <<pending, slot>>
  /\ NextLine
  /\ UNCHANGED <<pc, result, stale, replaying, alive, events, app, stdin, ends, agent>>

(* dispatch, Reply: to whoever is waiting, if anybody still is.            *)
Complete ==
  /\ reader = "complete"
  /\ pending' = pending \ {Line.call}
  /\ slot' = IF Line.call \in pending THEN [slot EXCEPT ![Line.call] = "reply"]
                                      ELSE slot
  /\ NextLine
  /\ UNCHANGED <<pc, result, stale, replaying, alive, events, app, stdin, ends, agent>>

(* notified: drop a session's history while it is being replayed...        *)
CheckReplaying ==
  /\ reader = "replaying"
  /\ IF Target[Line.call] \in replaying
       THEN NextLine
       ELSE reader' = "stale" /\ UNCHANGED stdout
  /\ UNCHANGED <<client, alive, events, app, stdin, ends, agent>>

(* ...and whatever its session says while any of its turns is quarantined. *)
CheckStale ==
  /\ reader = "stale"
  /\ IF \E c \in stale : Target[c] = Target[Line.call]
       THEN NextLine
       ELSE reader' = "deliver" /\ UNCHANGED stdout
  /\ UNCHANGED <<client, alive, events, app, stdin, ends, agent>>

AskedUnfiltered ==   \* slip: the policy is not looked at
  /\ reader = "asked" /\ reader' = "deliver"
  /\ UNCHANGED <<client, alive, events, app, stdin, stdout, ends, agent>>

AskedSilently ==   \* slip: what was never offered is not answered
  /\ reader = "asked"
  /\ NextLine
  /\ IF Line.kind = "permission" THEN Send(Frame("answer", Line.call))
                                 ELSE UNCHANGED stdin
  /\ UNCHANGED <<client, alive, events, app, ends, agent>>

(* asked: an error for what was never offered, "cancelled" under           *)
(* RefuseAll, nothing for a request that cannot be read.                   *)
Asked ==
  /\ reader = "asked"
  /\ \/ /\ Line.kind = "unreadable"
        /\ NextLine /\ UNCHANGED stdin
     \/ /\ \/ Line.kind = "foreign"
           \/ Line.kind = "permission" /\ Policy = "refuse"
        /\ Send(Frame("answer", Line.call)) /\ NextLine
     \/ /\ Line.kind = "permission" /\ Policy = "ask"
        /\ reader' = "deliver" /\ UNCHANGED <<stdin, stdout>>
  /\ UNCHANGED <<client, alive, events, app, ends, agent>>

SurfaceUnbounded(event) ==   \* slip: a full channel is no reason to wait
  IF listening THEN events' = Append(events, event) ELSE UNCHANGED events

SurfaceToNobody(event) ==   \* slip: waits for room though nobody listens
  listening /\ Len(events) < EventCap /\ events' = Append(events, event)

(* events.send: waits for room; fails at once when nobody is listening.    *)
Surface(event) ==
  \/ listening /\ Len(events) < EventCap /\ events' = Append(events, event)
  \/ ~listening /\ UNCHANGED events

Deliver ==
  /\ reader = "deliver"
  /\ Surface([kind |-> Line.kind, call |-> Line.call])
  /\ NextLine
  /\ UNCHANGED <<client, alive, app, stdin, ends, agent>>

ClearSilently ==   \* slip: the slots go and their waiters are not woken
  /\ reader = "clear"
  /\ pending' = {} /\ reader' = "announce"
  /\ UNCHANGED <<pc, result, slot, stale, replaying, alive, events, app,
                 stdin, stdout, ends, agent>>

(* closed: the waiters are let go first...                                 *)
Clear ==
  /\ reader = "clear"
  /\ pending' = {}
  /\ slot' = [c \in Calls |-> IF c \in pending THEN "dropped" ELSE slot[c]]
  /\ reader' = "announce"
  /\ UNCHANGED <<pc, result, stale, replaying, alive, events, app,
                 stdin, stdout, ends, agent>>

AnnounceAgain ==   \* slip: told, and then closed once more
  /\ reader = "announce"
  /\ Surface([kind |-> "closed"])
  /\ reader' = "clear"
  /\ UNCHANGED <<client, alive, app, stdin, stdout, ends, agent>>

(* ...and then the product is told.                                        *)
Announce ==
  /\ reader = "announce"
  /\ Surface([kind |-> "closed"])
  /\ reader' = "done"
  /\ UNCHANGED <<client, alive, app, stdin, stdout, ends, agent>>

---------------------------------------------------------------------------
(* The product, at its end of the event channel.                           *)

Drain ==
  /\ events # <<>>
  /\ events' = Tail(events)
  /\ held' = IF Head(events).kind = "permission" THEN held \cup {Head(events).call}
                                                 ELSE held
  /\ UNCHANGED <<client, alive, reader, listening, stdin, stdout, ends, agent>>

(* PermissionRequest::answer, deny or cancel.  It borrows the request, so   *)
(* nothing but the product itself keeps a question from a second answer;    *)
(* this product gives one, if it gives any.                                 *)
Answer(c) ==
  /\ c \in held
  /\ held' = held \ {c}
  /\ Send(Frame("answer", c))
  /\ UNCHANGED <<client, pump, listening, stdout, ends, agent>>

StopListening ==
  /\ listening
  /\ listening' = FALSE /\ events' = <<>>
  /\ UNCHANGED <<client, alive, reader, held, stdin, stdout, ends, agent>>

---------------------------------------------------------------------------
(* The agent (external).  It takes a session's turns one at a time, says   *)
(* everything it has to say about a turn before its reply, and answers     *)
(* every other request whenever it likes.                                  *)

Accept ==
  /\ stdinOpen /\ stdin # <<>>
  /\ stdin' = Tail(stdin)
  /\ CASE Head(stdin).kind = "request" ->
            work' = Append(work, Head(stdin).call) /\ UNCHANGED blocked
       [] Head(stdin).kind = "answer" ->
            blocked' = blocked \ {Head(stdin).call} /\ UNCHANGED work
       [] OTHER -> UNCHANGED <<work, blocked>>
  /\ UNCHANGED <<client, pump, app, stdout, ends, said, replied>>

(* The i-th call of work is c, and may be worked on.                       *)
ActiveAt(i, c) ==
  /\ work[i] = c /\ c \notin blocked
  /\ IsTurn(c) => \A j \in 1..(i - 1) :
                    ~(IsTurn(work[j]) /\ Target[work[j]] = Target[c])

Speak(c, kind) ==
  /\ stdoutOpen /\ IsTurn(c) /\ said[c] < MaxSaid
  /\ \E i \in 1..Len(work) : ActiveAt(i, c)
  /\ said' = [said EXCEPT ![c] = @ + 1]
  /\ stdout' = Append(stdout, [kind |-> kind, call |-> c])

Say(c) ==
  /\ Speak(c, "update")
  /\ UNCHANGED <<client, pump, app, stdin, ends, work, blocked, replied>>

Question(c) ==
  /\ Kind[c] = "prompt"
  /\ \E k \in AskKinds : Speak(c, k)
  /\ blocked' = blocked \cup {c}
  /\ UNCHANGED <<client, pump, app, stdin, ends, work, replied>>

Reply(c) ==
  /\ stdoutOpen
  /\ \E i \in 1..Len(work) :
       /\ ActiveAt(i, c)
       /\ work' = SubSeq(work, 1, i - 1) \o SubSeq(work, i + 1, Len(work))
  /\ replied' = replied \cup {c}
  /\ stdout' = Append(stdout, [kind |-> "reply", call |-> c])
  /\ UNCHANGED <<client, pump, app, stdin, ends, said, blocked>>

(* One log line that is not UTF-8, while there is a reader to see it.      *)
Garble ==
  /\ MayGarble /\ stdoutOpen /\ alive
  /\ \A i \in 1..Len(stdout) : stdout[i].kind # "garbled"
  /\ stdout' = Append(stdout, [kind |-> "garbled"])
  /\ UNCHANGED <<client, pump, app, stdin, ends, agent>>

(* The process and its group are gone: both pipes close, unread input with *)
(* them.  What it had written can still be read.                           *)
Die ==
  /\ stdoutOpen
  /\ stdinOpen' = FALSE /\ stdoutOpen' = FALSE
  /\ stdin' = <<>> /\ work' = <<>>
  /\ UNCHANGED <<client, pump, app, stdout, said, blocked, replied>>

---------------------------------------------------------------------------
Begin(c) == pc[c] = "new" /\ (GuardOn(c) \/ Register(c))

(* What a call's task does as soon as it is polled.                        *)
CallStep(c) ==
  \/ Register(c) /\ pc[c] = "guarded"
  \/ Write(c) \/ TakeBack(c) \/ Answered(c) \/ LetGo(c)
  \/ Forget(c) \/ Quarantine(c) \/ Cancel(c) \/ GuardOff(c)

ReaderStep ==
  \/ ReadLine \/ StopReading \/ EndQuarantine \/ Complete
  \/ CheckReplaying \/ CheckStale \/ Asked \/ Deliver \/ Clear \/ Announce

AgentStep(c) == Say(c) \/ Question(c) \/ Reply(c)

Next ==
  \/ \E c \in Calls : Begin(c) \/ CallStep(c) \/ Expire(c) \/ Drop(c)
  \/ ReaderStep
  \/ Drain \/ StopListening \/ \E c \in Calls : Answer(c)
  \/ Accept \/ Garble \/ Die \/ \E c \in Calls : AgentStep(c)

Spec == Init /\ [][Next]_vars

(* The runtime polls every task that is ready, and the product keeps       *)
(* draining its channel.  Nothing is assumed of the agent, and nothing     *)
(* obliges a deadline to expire.                                           *)
ClientFairness ==
  /\ WF_vars(ReaderStep)
  /\ \A c \in Calls : WF_vars(CallStep(c))
  /\ WF_vars(Drain)

FairSpec == Spec /\ ClientFairness

(* The deadlines do expire: time passes while a call is waited for.        *)
PassingTimeSpec == FairSpec /\ \A c \in Calls : WF_vars(Expire(c))

(* An agent that reads what it is sent and finishes what it may finish, or *)
(* dies.                                                                   *)
WorkingAgentSpec ==
  /\ FairSpec
  /\ WF_vars(Accept)
  /\ \A c \in Calls : WF_vars(Reply(c))
---------------------------------------------------------------------------
(* Safety.                                                                 *)

(* A task that waits on an empty receiver has its sender filed: whatever   *)
(* order the reader, the deadline and the end of the connection come in,   *)
(* somebody can still wake it (send, dispatch, awaited, closed).           *)
NoStrandedWaiter ==
  \A c \in Calls : pc[c] = "waiting" /\ slot[c] = "empty" => c \in pending

ReplyToCome(c) ==
  \/ c \notin replied
  \/ \E i \in 1..Len(stdout) : stdout[i].kind = "reply" /\ stdout[i].call = c

(* The map does not fill with replies that cannot come: a slot belongs to  *)
(* a task still holding its receiver, or to a future a caller dropped, and *)
(* that one only until its late reply has been read (send's take-back,     *)
(* awaited's removals, dispatch).                                          *)
PendingOwned ==
  \A c \in pending :
    \/ pc[c] \in {"registered", "unsent", "waiting", "expired"}
    \/ result[c] = "dropped" /\ ReplyToCome(c)

(* By the time the product can read Closed, no task is waiting for a reply *)
(* that will not come: the frame is written only after the slot is filed,  *)
(* and the slots are cleared only after stdout has ended (closed).         *)
WaitersLetGoFirst ==
  ~MayGarble =>
    (reader \in {"announce", "done"} =>
       \A c \in Calls : pc[c] = "waiting" => slot[c] # "empty")

(* An answer the agent managed to write before it went is delivered as an  *)
(* answer: "closed" is never said of a request that was replied to, since  *)
(* the reader empties stdout before it lets the waiters go.                *)
AnswerBeatsDeath ==
  ~MayGarble => \A c \in replied : slot[c] # "dropped"

(* Closed is the last thing the product hears, and is said once.           *)
ClosedIsLast ==
  \A i \in 1..Len(events) :
    events[i].kind = "closed" => i = Len(events) /\ reader = "done"

(* Under RefuseAll no question is ever surfaced or left with the product.  *)
RefusedUnseen ==
  Policy = "refuse" =>
    held = {} /\ \A i \in 1..Len(events) : events[i].kind # "permission"

(* Once a turn is quarantined, nothing it says is let through to the       *)
(* product, however many turns of its session have been abandoned and in   *)
(* whatever order their replies come (notified, quarantine, dispatch).     *)
NoStaleWords ==
  [][reader = "stale" /\ reader' = "deliver" /\ Kind[Line.call] = "prompt" =>
       pc[Line.call] # "quarantined" /\ result[Line.call] # "timeout"]_vars

(* What a load that suppresses its replay makes the agent repeat is not    *)
(* let through while the call is in flight (load_session).                 *)
HistorySuppressed ==
  [][reader = "replaying" /\ reader' = "stale" /\ Kind[Line.call] = "load" =>
       pc[Line.call] \notin {"registered", "unsent", "waiting", "expired"}]_vars

(* A session is muted only while a load that suppresses its replay is in    *)
(* flight: no load, however it ends and whatever else loads that session,   *)
(* leaves its guard behind (load_session, replay_guard, notified).          *)
MutedOnlyWhileLoading ==
  [][reader = "replaying" /\ reader' = "read" =>
       \E c \in Calls : /\ Kind[c] = "load" /\ Target[c] = Target[Line.call]
                        /\ pc[c] \notin {"new", "done"}]_vars

(* A turn somebody is waiting for is silenced only while the agent is still *)
(* finishing an abandoned turn of its session: the quarantine ends with the *)
(* reply to the turn it was for (quarantine, dispatch, notified).           *)
LiveTurnHeard ==
  [][reader = "stale" /\ reader' = "read" =>
       \/ Kind[Line.call] # "prompt" \/ pc[Line.call] # "waiting"
       \/ \E c \in stale : Target[c] = Target[Line.call] /\ ReplyToCome(c)]_vars

---------------------------------------------------------------------------
(* Liveness.                                                               *)

(* Once the client itself calls the agent gone, no wait on it goes on,      *)
(* deadlines or no deadlines (closed, Agent::alive).                        *)
ClosedEndsWaits ==
  \A c \in Calls : (~alive /\ pc[c] = "waiting") ~> (pc[c] # "waiting")

(* The product learns that the agent went, through a full channel too.     *)
DeathAnnounced == ~stdoutOpen ~> (reader = "done")

(* A line that is not UTF-8 is never got past.                             *)
Garbled == \E i \in 1..Len(stdout) : stdout[i].kind = "garbled"

(* An agent that answers everything it is free to answer is never kept     *)
(* from it by this client - its questions are answered, its replies reach   *)
(* their task - and one that dies releases everybody: every wait ends,      *)
(* unless the reader was lost to a line it could not decode.                *)
WaitsEnd ==
  \A c \in Calls : (pc[c] = "waiting") ~> (pc[c] # "waiting" \/ Garbled)

(* Unattended, a turn that asked something is not left waiting for the       *)
(* answer: silence would block it for ever (RefuseAll, asked).              *)
QuestionsEnd ==
  \A c \in Calls :
    Policy = "refuse" /\ c \in blocked ~> (c \notin blocked \/ Garbled \/ ~stdinOpen)

(* Whatever the agent does or does not do, a call ends: it waits "as long   *)
(* as the deadlines allow" (request), and a turn that goes silent past them *)
(* is abandoned (prompt).                                                   *)
CallsEnd == \A c \in Calls : (pc[c] = "registered") ~> (pc[c] = "done")

---------------------------------------------------------------------------
(* The promise the connection implements.                                  *)

Promise == INSTANCE Requests WITH
  asked    <- {c \in Calls : pc[c] \notin {"new", "guarded"}},
  answered <- replied,
  gone     <- ~alive \/ ~stdinOpen,
  outcome  <- result

(* Every behaviour of the connection is one the promise allows.            *)
ImplementsPromise == Promise!Spec
===========================================================================
