------------------------------ MODULE Startup ------------------------------
(***************************************************************************)
(* Agent::launch from the spawn to the end of the handshake (agent.rs), and *)
(* what an agent says on stderr: the tail that is kept of it, the failure    *)
(* that quotes it, the Closed event that carries it (connection.rs).        *)
(*                                                                          *)
(* Four tasks share this: launch, the reader of stdout, the reader of        *)
(* stderr, and the agent with a process of its own that may outlive it and   *)
(* hold stderr open.  A line of stderr is its number.  Time is absent: a     *)
(* deadline may pass whenever it is looked at.                               *)
(***************************************************************************)
EXTENDS Naturals, Sequences

CONSTANTS
  DIAGNOSTIC_LINES,
  MaxLines,   \* bound: lines the agent writes to stderr
  MayGarble   \* whether what it writes may not be UTF-8

ASSUME StartupAssumption ==
  /\ DIAGNOSTIC_LINES \in Nat \ {0} /\ MaxLines \in Nat /\ MayGarble \in BOOLEAN

VARIABLES
  stage,       \* where launch is
  why, told,   \* the failure it returns: its reason, the lines it quotes
  slot,        \* what the receiver of the initialize reply would yield
  reader,      \* the task that reads stdout
  tail,        \* Connection::diagnostics
  stderr_open, \* the flag of that name
  closing,     \* at most one: the lines the Closed event carries
  agentUp, helperUp, \* who is running; the helper holds stderr only
  reply,       \* what the agent has written on stdout and nobody has read
  stderr,      \* what it has written there and nobody has read
  said,        \* history: how many lines it has written to stderr
  garbled,     \* history: one of them was not UTF-8
  cut          \* history: the grace ended before stderr did

handshake == <<stage, why, told>>
client == <<slot, reader, closing>>
drain == <<tail, stderr_open>>
agent == <<agentUp, helperUp, reply>>
words == <<stderr, said, garbled>>
startupVars == <<handshake, client, drain, agent, words, cut>>

Connected == stage # "spawning" /\ why \notin {"spawn", "denied"}
Reasons == {"spawn", "denied", "unsent", "refused", "closed", "expired", "silent"}
Garbage == 0
Line == 1..MaxLines

(* Each variable is of its type; the tail never outgrows its bound.        *)
StartupTypeOK ==
  /\ stage \in {"spawning", "sending", "filed", "asking", "settling", "up", "failed"}
  /\ why \in {"none"} \cup Reasons
  /\ told \in Seq(Line) /\ tail \in Seq(Line) /\ Len(tail) <= DIAGNOSTIC_LINES
  /\ slot \in {"empty", "ok", "refused", "dropped"}
  /\ reader \in {"reading", "closing", "done"}
  /\ stderr_open \in BOOLEAN /\ closing \subseteq Seq(Line)
  /\ agentUp \in BOOLEAN /\ helperUp \in BOOLEAN
  /\ reply \in {"none", "ok", "refused", "garbage", "read"}
  /\ stderr \in Seq(Line \cup {Garbage}) /\ said \in 0..MaxLines
  /\ garbled \in BOOLEAN /\ cut \in BOOLEAN

StartupInit ==
  /\ stage = "spawning" /\ why = "none" /\ told = <<>>
  /\ slot = "empty" /\ reader = "reading" /\ closing = {}
  /\ tail = <<>> /\ stderr_open = TRUE
  /\ agentUp = FALSE /\ helperUp = FALSE /\ reply = "none"
  /\ stderr = <<>> /\ said = 0 /\ garbled = FALSE /\ cut = FALSE

---------------------------------------------------------------------------
(* launch.                                                                 *)

Fail(reason, lines) == stage' = "failed" /\ why' = reason /\ told' = lines
Settle(reason) == stage' = "settling" /\ why' = reason /\ UNCHANGED told

Spawn ==
  /\ stage = "spawning" /\ stage' = "sending"
  /\ agentUp' = TRUE /\ helperUp' \in BOOLEAN
  /\ UNCHANGED <<why, told, client, drain, reply, words, cut>>

(* Over the file ("spawn"), or whatever file it is ("denied").             *)
SpawnFails(reason) ==
  /\ stage = "spawning" /\ Fail(reason, <<>>)
  /\ UNCHANGED <<client, drain, agent, words, cut>>

(* send: the slot of the initialize request is filed...                    *)
Register ==
  /\ stage = "sending" /\ stage' = "filed"
  /\ UNCHANGED <<why, told, client, drain, agent, words, cut>>

(* ...and its frame written, to an agent that may be gone already.         *)
Send ==
  /\ stage = "filed"
  /\ IF agentUp THEN stage' = "asking" /\ UNCHANGED <<why, told>>
                ELSE Settle("unsent")
  /\ UNCHANGED <<client, drain, agent, words, cut>>

FailAtOnce ==   \* slip: what the agent said is not waited for
  /\ stage = "asking" /\ slot # "empty"
  /\ IF slot = "ok" THEN stage' = "up" /\ UNCHANGED <<why, told>>
     ELSE Fail(IF slot = "refused" THEN "refused" ELSE "closed", tail)
  /\ UNCHANGED <<client, drain, agent, words, cut>>

AnsweredLate ==   \* slip: an answer counts though the deadline has passed
  /\ stage \in {"asking", "settling"} /\ slot # "empty"
  /\ IF slot = "ok" THEN stage' = "up" /\ why' = "none" /\ UNCHANGED told
     ELSE Settle(IF slot = "refused" THEN "refused" ELSE "closed")
  /\ UNCHANGED <<client, drain, agent, words, cut>>

(* A reply, an error, or nobody left to answer.                            *)
Answered ==
  /\ stage = "asking" /\ slot # "empty"
  /\ IF slot = "ok" THEN stage' = "up" /\ UNCHANGED <<why, told>>
     ELSE Settle(IF slot = "refused" THEN "refused" ELSE "closed")
  /\ UNCHANGED <<client, drain, agent, words, cut>>

(* awaited: initialize has the idle and the hard deadline of any request.  *)
Expire ==
  /\ stage = "asking" /\ slot = "empty" /\ Settle("expired")
  /\ UNCHANGED <<client, drain, agent, words, cut>>

(* tokio's timeout looks at the request before it looks at its clock; what  *)
(* the agent said is not quoted.                                            *)
StartupOver ==
  /\ stage \in {"sending", "filed"} \/ (stage = "asking" /\ slot = "empty")
  /\ Fail("silent", <<>>)
  /\ UNCHANGED <<client, drain, agent, words, cut>>

(* diagnostics_settled: stderr has ended...                                *)
Settled ==
  /\ stage = "settling" /\ ~stderr_open
  /\ Fail(why, tail)
  /\ UNCHANGED <<client, drain, agent, words, cut>>

GraceForTheDead ==   \* slip: a grace for an agent that is gone only
  /\ stage = "settling" /\ stderr_open /\ ~helperUp
  /\ Fail(why, tail) /\ cut' = TRUE
  /\ UNCHANGED <<client, drain, agent, words>>

(* ...or whoever holds it has had its grace.                               *)
GraceOver ==
  /\ stage = "settling" /\ stderr_open
  /\ Fail(why, tail) /\ cut' = TRUE
  /\ UNCHANGED <<client, drain, agent, words>>

---------------------------------------------------------------------------
(* The reader of stdout.                                                   *)

Dispatch ==
  /\ reader = "reading" /\ reply \in {"ok", "refused"}
  /\ slot' = reply /\ reply' = "read"
  /\ UNCHANGED <<handshake, reader, closing, drain, agentUp, helperUp, words, cut>>

(* closed: out of stdout, or a line of it that is not UTF-8; the waiter is  *)
(* let go, if there is one yet...                                          *)
StdoutEnds ==
  /\ reader = "reading" /\ Connected
  /\ IF agentUp THEN reply = "garbage" ELSE reply \in {"none", "garbage", "read"}
  /\ slot' = IF slot = "empty" /\ stage \in {"filed", "asking"} THEN "dropped" ELSE slot
  /\ reader' = "closing"
  /\ UNCHANGED <<handshake, closing, drain, agent, words, cut>>

(* ...and the product is told, with the tail as it is now.                 *)
Announce ==
  /\ reader = "closing" /\ reader' = "done" /\ closing' = {tail}
  /\ UNCHANGED <<handshake, slot, drain, agent, words, cut>>

---------------------------------------------------------------------------
(* The reader of stderr.                                                   *)

KeepFirst ==   \* slip: once it is full nothing more is kept
  /\ stderr_open /\ stderr # <<>> /\ Head(stderr) # Garbage
  /\ tail' = IF Len(tail) = DIAGNOSTIC_LINES THEN tail ELSE Append(tail, Head(stderr))
  /\ stderr' = Tail(stderr)
  /\ UNCHANGED <<handshake, client, stderr_open, agent, said, garbled, cut>>

KeepAll ==   \* slip: off by one
  /\ stderr_open /\ stderr # <<>> /\ Head(stderr) # Garbage
  /\ tail' = Append(IF Len(tail) > DIAGNOSTIC_LINES THEN Tail(tail) ELSE tail, Head(stderr))
  /\ stderr' = Tail(stderr)
  /\ UNCHANGED <<handshake, client, stderr_open, agent, said, garbled, cut>>

Keep ==
  /\ stderr_open /\ stderr # <<>> /\ Head(stderr) # Garbage
  /\ tail' = Append(IF Len(tail) = DIAGNOSTIC_LINES THEN Tail(tail) ELSE tail, Head(stderr))
  /\ stderr' = Tail(stderr)
  /\ UNCHANGED <<handshake, client, stderr_open, agent, said, garbled, cut>>

(* The end of it, or a line that is not UTF-8: the rest is read by nobody.  *)
StderrEnds ==
  /\ stderr_open /\ Connected
  /\ IF stderr = <<>> THEN ~agentUp /\ ~helperUp ELSE Head(stderr) = Garbage
  /\ stderr_open' = FALSE /\ stderr' = <<>>
  /\ UNCHANGED <<handshake, client, tail, agent, said, garbled, cut>>

---------------------------------------------------------------------------
(* The agent and the process it started (external).  What they write where  *)
(* nobody reads is lost.                                                    *)

Write(line) == stderr' = IF stderr_open THEN Append(stderr, line) ELSE stderr

Tell ==
  /\ (agentUp \/ helperUp) /\ said < MaxLines
  /\ said' = said + 1 /\ Write(said')
  /\ UNCHANGED <<handshake, client, drain, agent, garbled, cut>>

TellGarbage ==
  /\ MayGarble /\ ~garbled /\ (agentUp \/ helperUp)
  /\ garbled' = TRUE /\ Write(Garbage)
  /\ UNCHANGED <<handshake, client, drain, agent, said, cut>>

Reply ==
  /\ agentUp /\ reply = "none"
  /\ \/ stage \in {"asking", "settling"} /\ why # "unsent" /\ reply' \in {"ok", "refused"}
     \/ stage \in {"sending", "filed", "asking"} /\ MayGarble /\ reply' = "garbage"
  /\ UNCHANGED <<handshake, client, drain, agentUp, helperUp, words, cut>>

Leave ==
  /\ \/ agentUp /\ agentUp' = FALSE /\ UNCHANGED helperUp
     \/ helperUp /\ helperUp' = FALSE /\ UNCHANGED agentUp
  /\ UNCHANGED <<handshake, client, drain, reply, words, cut>>

---------------------------------------------------------------------------
LaunchStep == Register \/ Send \/ Answered \/ Settled
ReaderStep == Dispatch \/ StdoutEnds \/ Announce
StderrStep == Keep \/ StderrEnds
TimePasses == Expire \/ StartupOver \/ GraceOver
AgentStep == Tell \/ TellGarbage \/ Reply \/ Leave
StartupNext == LaunchStep \/ ReaderStep \/ StderrStep \/ TimePasses \/ AgentStep

---------------------------------------------------------------------------
(* The last lines of the first n.                                          *)
LastOf(n) ==
  LET kept == IF n < DIAGNOSTIC_LINES THEN n ELSE DIAGNOSTIC_LINES IN
    [i \in 1..kept |-> n - kept + i]

(* What is kept of stderr is its latest lines, each once and in order, and  *)
(* what is on the way follows them (the stderr task of Connection::spawn).  *)
TailIsLatest ==
  ~garbled =>
    /\ tail = LastOf(said - Len(stderr))
    /\ stderr = [i \in 1..Len(stderr) |-> said - Len(stderr) + i]

(* An agent that failed is reported with what it said: if the handshake came *)
(* to an end, and stderr did within its grace, the failure quotes the very   *)
(* last lines, those written after the reply and those still in the pipe     *)
(* when the agent went included (launch, diagnostics_settled).               *)
ReasonTold ==
  stage = "failed" /\ why \notin {"spawn", "denied", "silent"} /\ ~cut /\ ~garbled =>
    told = LastOf(said)

(* The handshake is a request like any other, and what Connection promises   *)
(* to each of those it keeps: it ends once, with an answer only if this      *)
(* agent gave one, with "closed" only if the agent has gone or cannot be     *)
(* read, and an answer that comes after the deadline brings nobody back      *)
(* (launch, awaited).                                                      *)
Outcome ==
  CASE stage = "up" \/ why = "refused" -> "ok"   \* an error is an answer, too
    [] why = "closed" -> "closed"
    [] why = "unsent" -> "failed"
    [] why = "expired" -> "timeout"
    [] why = "silent" -> "dropped"
    [] OTHER -> "none"

Initialize == INSTANCE Requests WITH
  Calls    <- {"initialize"},
  asked    <- IF Connected THEN {"initialize"} ELSE {},
  answered <- IF reply \in {"none", "garbage"} THEN {} ELSE {"initialize"},
  gone     <- Connected /\ (~agentUp \/ reply = "garbage"),
  outcome  <- [c \in {"initialize"} |-> Outcome]

HandshakeIsARequest == Initialize!Spec
===========================================================================
