----------------------------- MODULE Deadlines -----------------------------
(***************************************************************************)
(* The clocks a request is measured against (Deadlines in                   *)
(* acp-client/src/lib.rs; Connection::send, dispatch and awaited in         *)
(* connection.rs; the startup deadline of Agent::launch and Session::apply).*)
(*                                                                          *)
(* `now` is the monotonic clock in units finer than every deadline.  A wait *)
(* wakes `Tick` after it last looked; time does not pass a wake-up that is  *)
(* due, that is, the runtime polls an expired timer within one unit.        *)
(***************************************************************************)
EXTENDS Integers

CONSTANTS
  Calls, Sessions,
  Everything,        \* EVERYTHING, the key of a call that names no session
  Watching,          \* the key each call's silence is read from
  Limited,           \* calls under the startup deadline as well
  Startup, Idle, Hard, Tick,
  Horizon            \* bound on the clock

Keys == Sessions \cup {Everything}

ASSUME KeysAssumption ==
  /\ Everything \notin Sessions
  /\ Watching \in [Calls -> Keys]
  /\ Limited \subseteq Calls
ASSUME DeadlinesAssumption ==
  /\ {Startup, Idle, Hard, Tick} \subseteq Nat \ {0}
  /\ Horizon \in Nat

VARIABLES
  now,
  heard,  \* the keys of the activity map
  seen,   \* and when each last showed a sign of life
  state,  \* of each call: "new", "waiting", or how it ended
  sent,   \* when each call began to wait
  due     \* when each waiting call will look at the clocks next

vars == <<now, heard, seen, state, sent, due>>

Ends == {"reply", "silent", "stuck", "startup"}

(* Every value is of its type and no clock reading is from the future.     *)
TypeOK ==
  /\ now \in Nat
  /\ heard \subseteq Keys
  /\ seen \in [Keys -> Nat] /\ \A k \in Keys : seen[k] <= now
  /\ state \in [Calls -> {"new", "waiting"} \cup Ends]
  /\ sent \in [Calls -> Nat] /\ \A c \in Calls : sent[c] <= now
  /\ due \in [Calls -> Nat]

Init ==
  /\ now = 0 /\ heard = {} /\ seen = [k \in Keys |-> 0]
  /\ state = [c \in Calls |-> "new"]
  /\ sent = [c \in Calls |-> 0] /\ due = [c \in Calls |-> 0]

---------------------------------------------------------------------------
SignOfLife(keys) ==
  /\ heard' = heard \cup keys
  /\ seen' = [k \in Keys |-> IF k \in keys THEN now ELSE seen[k]]

AskFromFirstTick(c) ==   \* slip: the wait is counted from its first tick
  /\ state[c] = "new"
  /\ SignOfLife({Everything})
  /\ state' = [state EXCEPT ![c] = "waiting"]
  /\ sent' = [sent EXCEPT ![c] = now + Tick]
  /\ due' = [due EXCEPT ![c] = now + Tick]
  /\ UNCHANGED now

AskQuietly(c) ==   \* slip: sending is not a sign of life
  /\ state[c] = "new"
  /\ state' = [state EXCEPT ![c] = "waiting"]
  /\ sent' = [sent EXCEPT ![c] = now]
  /\ due' = [due EXCEPT ![c] = now + Tick]
  /\ UNCHANGED <<now, heard, seen>>

(* send, then awaited: sending is a sign of life under EVERYTHING.         *)
Ask(c) ==
  /\ state[c] = "new"
  /\ SignOfLife({Everything})
  /\ state' = [state EXCEPT ![c] = "waiting"]
  /\ sent' = [sent EXCEPT ![c] = now]
  /\ due' = [due EXCEPT ![c] = now + Tick]
  /\ UNCHANGED now

(* dispatch: any line is a sign of life, one that names a session is one   *)
(* for that session too.                                                   *)
Hear(key) ==
  /\ SignOfLife({Everything, key})
  /\ UNCHANGED <<now, state, sent, due>>

(* dispatch: a reply names no session.                                     *)
Reply(c) ==
  /\ state[c] = "waiting"
  /\ SignOfLife({Everything})
  /\ state' = [state EXCEPT ![c] = "reply"]
  /\ UNCHANGED <<now, sent, due>>

IdleForAnybody(c) ==   \* slip: the whole agent's silence, not the session's
  now - (IF Everything \in heard THEN seen[Everything] ELSE sent[c])

(* awaited: how long the watched key has been quiet; a key never heard of  *)
(* has been quiet since the request was sent.                              *)
IdleFor(c) == now - (IF Watching[c] \in heard THEN seen[Watching[c]] ELSE sent[c])

Overdue(c) == state[c] = "waiting" /\ now >= due[c]

KeepListening(c) ==   \* slip: a talkative agent has no wall clock
  /\ Overdue(c)
  /\ IdleFor(c) < Idle
  /\ due' = [due EXCEPT ![c] = now + Tick]
  /\ UNCHANGED <<now, heard, seen, state, sent>>

(* awaited: neither silent nor past the wall clock.                        *)
KeepWaiting(c) ==
  /\ Overdue(c)
  /\ IdleFor(c) < Idle /\ now - sent[c] < Hard
  /\ due' = [due EXCEPT ![c] = now + Tick]
  /\ UNCHANGED <<now, heard, seen, state, sent>>

GiveUp(c) ==
  /\ Overdue(c)
  /\ IdleFor(c) >= Idle \/ now - sent[c] >= Hard
  /\ state' = [state EXCEPT ![c] = IF IdleFor(c) >= Idle THEN "silent" ELSE "stuck"]
  /\ UNCHANGED <<now, heard, seen, sent, due>>

(* launch, apply: tokio's timeout around the whole request.                *)
StartupOver(c) ==
  /\ c \in Limited /\ state[c] = "waiting" /\ now >= sent[c] + Startup
  /\ state' = [state EXCEPT ![c] = "startup"]
  /\ UNCHANGED <<now, heard, seen, sent, due>>

(* The clock moves on when no timer that has gone off is left unpolled.    *)
Pass ==
  /\ now < Horizon
  /\ \A c \in Calls : state[c] = "waiting" =>
       now < due[c] /\ (c \in Limited => now < sent[c] + Startup)
  /\ now' = now + 1
  /\ UNCHANGED <<heard, seen, state, sent, due>>

Next ==
  \/ Pass
  \/ \E k \in Keys : Hear(k)
  \/ \E c \in Calls :
       Ask(c) \/ Reply(c) \/ KeepWaiting(c) \/ GiveUp(c) \/ StartupOver(c)

Spec == Init /\ [][Next]_vars

---------------------------------------------------------------------------
(* The last sign of life a call may count from: its own beginning, or what  *)
(* was heard under its key after that.                                      *)
Since(c) ==
  IF Watching[c] \in heard /\ seen[Watching[c]] > sent[c]
    THEN seen[Watching[c]] ELSE sent[c]

Waiting == {c \in Calls : state[c] = "waiting"}

(* A session that has gone quiet is noticed within one tick of the idle     *)
(* deadline, whatever every other session says: a busy session cannot keep  *)
(* a stuck one looking alive (activity, awaited).                           *)
StuckIsNoticed == \A c \in Waiting : now < Since(c) + Idle + Tick

(* However talkative the agent, no request is waited for longer than the    *)
(* wall clock and one tick (Deadlines::hard, awaited).                      *)
HardBound == \A c \in Waiting : now < sent[c] + Hard + Tick

(* A call that names no session is never given up on as silent before it    *)
(* has itself waited the idle deadline, however long the agent had been     *)
(* quiet before it: sending is a sign of life (send).                       *)
FirstRequestPatience ==
  [][\A c \in Calls :
       state[c] = "waiting" /\ state'[c] = "silent" /\ Watching[c] = Everything
         => now - sent[c] >= Idle]_vars

(* The same of every request: nobody is judged against a clock that started *)
(* when the agent last spoke (send, awaited).                               *)
EveryRequestPatience ==
  [][\A c \in Calls :
       state[c] = "waiting" /\ state'[c] = "silent" => now - sent[c] >= Idle]_vars
===========================================================================
