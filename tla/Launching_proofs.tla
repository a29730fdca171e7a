-------------------------- MODULE Launching_proofs --------------------------
(***************************************************************************)
(* What holds of a launch for every set of directories, every answer of the *)
(* shell, every disk, every tail length and every agent.                    *)
(***************************************************************************)
EXTENDS Launching, Lookup_proofs

(* What a spawn may fail of.                                               *)
Reason == {"spawn", "denied"}

(* The handshake's part of the state changes only so.                      *)
StartupMoves ==
  \/ Spawn \/ \E reason \in Reason : SpawnFails(reason)
  \/ StartupNext \/ UNCHANGED startupVars

LEMMA StepMoves == [Next]_vars => StartupMoves
BY DEF Next, vars, SpawnFound, StartupMoves, ChangeBeforeSpawn, Reason

LEMMA KeepType ==
  ASSUME StartupTypeOK, stderr # <<>>, Head(stderr) # Garbage
  PROVE  LET kept == Append(IF Len(tail) = DIAGNOSTIC_LINES THEN Tail(tail) ELSE tail,
                            Head(stderr))
         IN kept \in Seq(Line) /\ Len(kept) <= DIAGNOSTIC_LINES
<1> USE StartupAssumption DEF StartupTypeOK
<1>1. Head(stderr) \in Line
  OBVIOUS
<1>2. CASE Len(tail) = DIAGNOSTIC_LINES
  <2>1. tail # <<>>
    BY <1>2
  <2>2. Tail(tail) \in Seq(Line) /\ Len(Tail(tail)) = Len(tail) - 1
    BY <2>1, HeadTailProperties
  <2> QED
    BY <1>1, <1>2, <2>2, AppendProperties
<1>3. CASE Len(tail) # DIAGNOSTIC_LINES
  <2>1. Len(tail) < DIAGNOSTIC_LINES
    BY <1>3, LenProperties
  <2> QED
    BY <1>1, <1>3, <2>1, AppendProperties
<1> QED
  BY <1>2, <1>3

LEMMA StartupTypeStep == StartupTypeOK /\ StartupMoves => StartupTypeOK'
<1> SUFFICES ASSUME StartupTypeOK, StartupMoves PROVE StartupTypeOK'
  OBVIOUS
<1> USE StartupAssumption
<1> USE DEF StartupTypeOK, Reasons, handshake, client, drain, agent, words
<1>0. <<>> \in Seq(Line) /\ <<>> \in Seq(Line \cup {Garbage})
  OBVIOUS
<1>21. CASE Spawn
  BY <1>0, <1>21 DEF Spawn
<1>22. ASSUME NEW reason \in Reason, SpawnFails(reason) PROVE StartupTypeOK'
  BY <1>0, <1>22 DEF SpawnFails, Fail, Reason
<1>32. CASE Register
  BY <1>0, <1>32 DEF Register
<1>23. CASE Send
  BY <1>0, <1>23 DEF Send, Settle
<1>24. CASE Answered
  BY <1>0, <1>24 DEF Answered, Settle
<1>25. CASE Settled
  BY <1>0, <1>25 DEF Settled, Fail
<1>26. CASE Expire
  BY <1>0, <1>26 DEF Expire, Settle
<1>27. CASE StartupOver
  BY <1>0, <1>27 DEF StartupOver, Fail
<1>28. CASE GraceOver
  BY <1>0, <1>28 DEF GraceOver, Fail
<1>29. CASE Dispatch
  BY <1>0, <1>29 DEF Dispatch
<1>30. CASE StdoutEnds
  BY <1>0, <1>30 DEF StdoutEnds
<1>31. CASE Announce
  BY <1>0, <1>31 DEF Announce
<1>4. CASE Keep
  <2>1. tail' \in Seq(Line) /\ Len(tail') <= DIAGNOSTIC_LINES
    BY <1>4, KeepType DEF Keep
  <2>2. stderr' \in Seq(Line \cup {Garbage})
    BY <1>4 DEF Keep
  <2> QED
    BY <1>4, <2>1, <2>2 DEF Keep
<1>5. CASE StderrEnds
  <2>1. /\ stderr_open' = FALSE /\ stderr' = <<>>
        /\ UNCHANGED <<handshake, client, tail, agent, said, garbled, cut>>
    BY <1>5, Zenon DEF StderrEnds
  <2>2. stderr_open' \in BOOLEAN /\ stderr' \in Seq(Line \cup {Garbage})
    BY <1>0, <2>1
  <2> QED
    BY <2>1, <2>2
<1>6. CASE Tell
  <2>1. said' \in Line /\ said' \in 0..MaxLines
    BY <1>6 DEF Tell, Line
  <2>2. stderr' \in Seq(Line \cup {Garbage})
    BY <1>6, <2>1 DEF Tell, Write
  <2> QED
    BY <1>6, <2>1, <2>2 DEF Tell
<1>7. CASE TellGarbage
  BY <1>7 DEF TellGarbage, Write
<1>8. CASE Reply
  BY <1>8 DEF Reply
<1>10. CASE Leave
  <2>1. agentUp' \in BOOLEAN /\ helperUp' \in BOOLEAN
    BY <1>10, Zenon DEF Leave
  <2>2. UNCHANGED <<handshake, client, drain, reply, words, cut>>
    BY <1>10, Zenon DEF Leave
  <2> QED
    BY <2>1, <2>2
<1>9. CASE UNCHANGED startupVars
  BY <1>9 DEF startupVars
<1> QED
  BY <1>4, <1>5, <1>6, <1>7, <1>8, <1>9, <1>10, <1>21, <1>22, <1>23, <1>24, <1>25, <1>26, <1>27, <1>28, <1>29, <1>30, <1>31, <1>32
     DEF StartupMoves, StartupNext, LaunchStep, TimePasses, ReaderStep, StderrStep, AgentStep
---------------------------------------------------------------------------
(* Stderr.  The tail is right because one task alone moves lines into it,   *)
(* in their order; the report is right because that task drops its flag     *)
(* only once the pipe is empty and nobody is left to write to it.           *)

Drained ==
  /\ ~garbled => stderr \in Seq(Line)
  /\ stage = "spawning" => stderr_open
  /\ ~stderr_open /\ ~garbled => stderr = <<>> /\ ~agentUp /\ ~helperUp
  /\ stage = "failed" /\ why \notin {"spawn", "denied", "silent"} /\ ~cut =>
       ~stderr_open /\ told = tail

LEMMA DrainedStep == StartupTypeOK /\ Drained /\ StartupMoves => Drained'
<1> SUFFICES ASSUME StartupTypeOK, Drained, StartupMoves PROVE Drained'
  OBVIOUS
<1> USE DEF Drained, StartupTypeOK, Reasons, handshake, client, drain, agent, words
<1>21. CASE Spawn
  BY <1>21 DEF Spawn
<1>22. ASSUME NEW reason \in Reason, SpawnFails(reason) PROVE Drained'
  BY <1>22 DEF SpawnFails, Fail, Reason
<1>32. CASE Register
  BY <1>32 DEF Register
<1>23. CASE Send
  BY <1>23 DEF Send, Settle
<1>24. CASE Answered
  BY <1>24 DEF Answered, Settle
<1>25. CASE Settled
  BY <1>25 DEF Settled, Fail
<1>26. CASE Expire
  BY <1>26 DEF Expire, Settle
<1>27. CASE StartupOver
  BY <1>27 DEF StartupOver, Fail
<1>28. CASE GraceOver
  BY <1>28 DEF GraceOver, Fail
<1>29. CASE Dispatch
  BY <1>29 DEF Dispatch
<1>30. CASE StdoutEnds
  BY <1>30 DEF StdoutEnds
<1>31. CASE Announce
  BY <1>31 DEF Announce
<1>3. CASE Keep
  BY <1>3 DEF Keep
<1>4. CASE StderrEnds
  <2>1. /\ ~stderr_open' /\ stderr' = <<>>
        /\ UNCHANGED <<handshake, client, tail, agent, said, garbled, cut>>
    BY <1>4, Zenon DEF StderrEnds
  <2>2. stage # "spawning" /\ stderr_open
    BY <1>4, Zenon DEF StderrEnds, Connected
  <2>3. IF stderr = <<>> THEN ~agentUp /\ ~helperUp ELSE Head(stderr) = Garbage
    BY <1>4, Zenon DEF StderrEnds
  <2>4. ~garbled => stderr \in Seq(Line)
    OBVIOUS
  <2>7. stderr \in Seq(Line) /\ stderr # <<>> => Head(stderr) # Garbage
    BY StartupAssumption DEF Line, Garbage
  <2>5. ~garbled => ~agentUp /\ ~helperUp
    BY <2>3, <2>4, <2>7, Zenon
  <2>6. <<>> \in Seq(Line)
    OBVIOUS
  <2> QED
    BY <2>1, <2>2, <2>5, <2>6
<1>5. CASE Tell
  <2>1. said' \in Line
    BY <1>5, StartupAssumption DEF Tell, Line
  <2> QED
    BY <1>5, <2>1 DEF Tell, Write
<1>7. CASE TellGarbage
  BY <1>7 DEF TellGarbage, Write
<1>8. CASE Reply
  BY <1>8 DEF Reply
<1>9. CASE Leave
  <2>1. agentUp \/ helperUp
    BY <1>9, Zenon DEF Leave
  <2>2. UNCHANGED <<handshake, client, drain, reply, words, cut>>
    BY <1>9, Zenon DEF Leave
  <2>3. ~agentUp /\ ~helperUp => ~agentUp' /\ ~helperUp'
    BY <2>1
  <2> QED
    BY <2>1, <2>2, <2>3
<1>6. CASE UNCHANGED startupVars
  BY <1>6 DEF startupVars
<1> QED
  BY <1>3, <1>4, <1>5, <1>6, <1>7, <1>8, <1>9, <1>21, <1>22, <1>23, <1>24, <1>25, <1>26, <1>27, <1>28, <1>29, <1>30, <1>31, <1>32
     DEF StartupMoves, StartupNext, LaunchStep, TimePasses, ReaderStep, StderrStep, AgentStep
---------------------------------------------------------------------------
LEMMA LastOfType ==
  ASSUME NEW n \in Nat
  PROVE  LastOf(n) \in Seq(Nat) /\ Len(LastOf(n)) = IF n < DIAGNOSTIC_LINES THEN n
                                                      ELSE DIAGNOSTIC_LINES
BY StartupAssumption DEF LastOf

(* One line more: the oldest goes, if the tail was full.                   *)
LEMMA LastOfNext ==
  ASSUME NEW n \in Nat
  PROVE  LastOf(n + 1) =
           Append(IF Len(LastOf(n)) = DIAGNOSTIC_LINES THEN Tail(LastOf(n)) ELSE LastOf(n),
                  n + 1)
<1> USE StartupAssumption
<1>1. LastOf(n) \in Seq(Nat) /\ LastOf(n + 1) \in Seq(Nat)
  BY LastOfType
<1>2. CASE n < DIAGNOSTIC_LINES
  <2>1. Len(LastOf(n)) = n /\ Len(LastOf(n + 1)) = n + 1
    BY <1>2, LastOfType
  <2> DEFINE t == Append(LastOf(n), n + 1)
  <2>2. t \in Seq(Nat) /\ Len(t) = n + 1
    BY <1>1, <2>1, AppendProperties
  <2>3. \A i \in 1..(n + 1) : LastOf(n + 1)[i] = i
    BY <1>2 DEF LastOf
  <2>4. \A i \in 1..n : LastOf(n)[i] = i
    BY <1>2 DEF LastOf
  <2>5. \A i \in 1..(n + 1) : t[i] = i
    BY <1>1, <2>1, <2>4, AppendProperties
  <2>6. t = LastOf(n + 1)
    BY <1>1, <2>1, <2>2, <2>3, <2>5, SeqEqual
  <2> QED
    BY <1>2, <2>1, <2>6
<1>3. CASE n >= DIAGNOSTIC_LINES
  <2> DEFINE D == DIAGNOSTIC_LINES
             u == Tail(LastOf(n))
             t == Append(u, n + 1)
  <2>1. Len(LastOf(n)) = D /\ Len(LastOf(n + 1)) = D
    BY <1>3, LastOfType
  <2>2. LastOf(n) # <<>>
    BY <2>1
  <2>3. u \in Seq(Nat) /\ Len(u) = D - 1
    BY <1>1, <2>1, <2>2, HeadTailProperties
  <2>4. t \in Seq(Nat) /\ Len(t) = D
    BY <2>3, AppendProperties
  <2>5. \A i \in 1..D : LastOf(n)[i] = n - D + i /\ LastOf(n + 1)[i] = n + 1 - D + i
    BY <1>3 DEF LastOf
  <2>6. \A i \in 1..(D - 1) : u[i] = n - D + (i + 1)
    BY <1>1, <2>1, <2>2, <2>3, <2>5, HeadTailProperties
  <2>7. \A i \in 1..D : t[i] = n + 1 - D + i
    BY <2>3, <2>6, AppendProperties
  <2>8. \A i \in 1..Len(t) : t[i] = LastOf(n + 1)[i]
    BY <2>4, <2>5, <2>7
  <2> HIDE DEF t
  <2>9. t = LastOf(n + 1)
    BY <1>1, <2>1, <2>4, <2>8, SeqEqual
  <2> QED
    BY <2>1, <2>9 DEF t
<1> QED
  BY <1>2, <1>3

LEMMA TailStep ==
  StartupTypeOK /\ Drained /\ TailIsLatest /\ StartupMoves => TailIsLatest'
<1> SUFFICES ASSUME StartupTypeOK, Drained, TailIsLatest, StartupMoves, ~garbled'
             PROVE  /\ tail' = LastOf(said' - Len(stderr'))
                    /\ stderr' = [i \in 1..Len(stderr') |-> said' - Len(stderr') + i]
  BY DEF TailIsLatest
<1> USE StartupAssumption DEF StartupTypeOK
<1>1. CASE UNCHANGED <<tail, stderr, said, garbled>>
  BY <1>1, Zenon DEF TailIsLatest
<1>2. CASE Keep
  <2>1. ~garbled /\ stderr # <<>> /\ stderr \in Seq(Line)
    BY <1>2 DEF Keep, words, Drained
  <2> DEFINE n == said - Len(stderr)
  <2>2. /\ tail = LastOf(n)
        /\ stderr = [i \in 1..Len(stderr) |-> said - Len(stderr) + i]
    BY <2>1 DEF TailIsLatest
  <2>3. Len(stderr) \in Nat /\ Len(stderr) >= 1
    BY <2>1
  <2>4. Head(stderr) = n + 1
    BY <2>1, <2>2, <2>3
  <2>5. n \in Nat
    BY <2>1, <2>3, <2>4 DEF Line
  <2>6. tail' = Append(IF Len(tail) = DIAGNOSTIC_LINES THEN Tail(tail) ELSE tail,
                       Head(stderr))
    BY <1>2 DEF Keep
  <2>7. tail' = LastOf(n + 1)
    BY <2>2, <2>4, <2>5, <2>6, LastOfNext
  <2>8. stderr' = Tail(stderr) /\ said' = said
    BY <1>2 DEF Keep
  <2>9. /\ stderr' \in Seq(Line) /\ Len(stderr') = Len(stderr) - 1
        /\ \A i \in 1..Len(stderr') : stderr'[i] = stderr[i + 1]
    BY <2>1, <2>8, HeadTailProperties
  <2>10. said' - Len(stderr') = n + 1
    BY <2>3, <2>8, <2>9
  <2>11. \A i \in 1..Len(stderr') : stderr'[i] = said' - Len(stderr') + i
    <3> TAKE i \in 1..Len(stderr')
    <3>1. i + 1 \in 1..Len(stderr)
      BY <2>3, <2>9
    <3>2. stderr[i + 1] = said - Len(stderr) + (i + 1)
      BY <2>2, <3>1
    <3> QED
      BY <2>3, <2>8, <2>9, <3>2
  <2>12. stderr' = [i \in 1..Len(stderr') |-> stderr'[i]]
    BY <2>9
  <2>13. stderr' = [i \in 1..Len(stderr') |-> said' - Len(stderr') + i]
    BY <2>11, <2>12, Zenon
  <2> QED
    BY <2>7, <2>10, <2>13
<1>3. CASE Tell
  <2>1. ~garbled /\ (agentUp \/ helperUp)
    BY <1>3, Zenon DEF Tell
  <2>2. stderr_open /\ stderr \in Seq(Line)
    BY <2>1, Zenon DEF Drained
  <2>3. /\ said' = said + 1 /\ tail' = tail
        /\ stderr' = Append(stderr, said + 1)
    BY <1>3, <2>2 DEF Tell, Write, drain
  <2>4. /\ tail = LastOf(said - Len(stderr))
        /\ stderr = [i \in 1..Len(stderr) |-> said - Len(stderr) + i]
    BY <2>1 DEF TailIsLatest
  <2>5. said + 1 \in Line
    BY <1>3 DEF Tell, Line
  <2>6. /\ Len(stderr') = Len(stderr) + 1
        /\ \A i \in 1..Len(stderr) : stderr'[i] = stderr[i]
        /\ stderr'[Len(stderr) + 1] = said + 1
        /\ stderr' \in Seq(Line)
    BY <2>2, <2>3, <2>5, AppendProperties
  <2>7. Len(stderr) \in Nat /\ said \in Nat
    BY <2>2
  <2>8. said' - Len(stderr') = said - Len(stderr)
    BY <2>3, <2>6, <2>7
  <2>9. \A i \in 1..Len(stderr') : stderr'[i] = said' - Len(stderr') + i
    <3> TAKE i \in 1..Len(stderr')
    <3>1. CASE i = Len(stderr) + 1
      BY <2>6, <2>7, <2>8, <3>1
    <3>2. CASE i \in 1..Len(stderr)
      <4>1. stderr[i] = said - Len(stderr) + i
        BY <2>4, <3>2
      <4> QED
        BY <2>6, <2>8, <3>2, <4>1
    <3> QED
      BY <2>6, <2>7, <3>1, <3>2
  <2>10. stderr' = [i \in 1..Len(stderr') |-> stderr'[i]]
    BY <2>6
  <2>11. stderr' = [i \in 1..Len(stderr') |-> said' - Len(stderr') + i]
    BY <2>9, <2>10, Zenon
  <2> QED
    BY <2>3, <2>4, <2>8, <2>11
<1>4. CASE StderrEnds
  <2>1. ~garbled /\ UNCHANGED <<tail, said>> /\ stderr' = <<>>
    BY <1>4, Zenon DEF StderrEnds
  <2>2. stderr \in Seq(Line)
    BY <2>1, Zenon DEF Drained
  <2>3. stderr # <<>> => Head(stderr) # Garbage
    BY <2>2 DEF Line, Garbage
  <2>4. stderr = <<>>
    BY <1>4, <2>3, Zenon DEF StderrEnds
  <2> QED
    BY <2>1, <2>4, Zenon DEF TailIsLatest
<1>5. CASE TellGarbage
  BY <1>5 DEF TellGarbage
<1>6. CASE Spawn \/ (\E reason \in Reason : SpawnFails(reason)) \/ Register \/ Send \/ Answered \/ Settled \/ Expire
           \/ StartupOver \/ GraceOver \/ ReaderStep \/ Reply \/ Leave
  BY <1>1, <1>6, Zenon DEF Spawn, SpawnFails, Register, Send, Answered, Settled, Expire, StartupOver,
     GraceOver, ReaderStep, Dispatch, StdoutEnds, Announce, Reply, Leave, drain, words, client
<1>7. CASE UNCHANGED startupVars
  BY <1>1, <1>7, Zenon DEF startupVars, drain, words
<1> QED
  BY <1>1, <1>2, <1>3, <1>4, <1>5, <1>6, <1>7, Zenon
     DEF StartupMoves, StartupNext, LaunchStep, TimePasses, StderrStep, AgentStep

StartupInv == StartupTypeOK /\ Drained /\ TailIsLatest

LEMMA StartupHolds == Spec => []StartupInv
<1>1. Init => StartupInv
  <2> SUFFICES ASSUME StartupInit PROVE StartupInv
    BY DEF Init
  <2>0. <<>> \in Seq(Line) /\ <<>> \in Seq(Line \cup {Garbage}) /\ Len(<<>>) = 0
    OBVIOUS
  <2>1. StartupTypeOK
    <3>1. /\ told \in Seq(Line) /\ tail \in Seq(Line) /\ Len(tail) <= DIAGNOSTIC_LINES
          /\ stderr \in Seq(Line \cup {Garbage}) /\ said \in 0..MaxLines
      BY <2>0, StartupAssumption DEF StartupInit
    <3>2. closing \subseteq Seq(Line)
      BY DEF StartupInit
    <3> QED
      BY <3>1, <3>2 DEF StartupInit, StartupTypeOK, Reasons
  <2>2. Drained
    <3>1. stage = "spawning" /\ stderr = <<>> /\ stderr_open
      BY Zenon DEF StartupInit
    <3>2. stage # "failed" /\ stderr \in Seq(Line)
      BY <2>0, <3>1
    <3> QED
      BY <3>1, <3>2, Zenon DEF Drained
  <2>3. LastOf(0) = <<>>
    BY StartupAssumption DEF LastOf
  <2>4. said = 0 /\ tail = <<>> /\ stderr = <<>>
    BY Zenon DEF StartupInit
  <2>5. stderr = [i \in 1..Len(stderr) |-> said - Len(stderr) + i]
    <3>1. Len(stderr) = 0
      BY <2>4
    <3>2. [i \in 1..Len(stderr) |-> said - Len(stderr) + i] = <<>>
      BY <3>1
    <3> QED
      BY <2>4, <3>2
  <2> QED
    <3>0. Len(stderr) = 0
      BY <2>4
    <3>3. 0 - 0 = 0
      OBVIOUS
    <3>1. said - Len(stderr) = 0
      BY <2>4, <3>0, <3>3, Zenon
    <3>2. tail = LastOf(said - Len(stderr))
      BY <2>3, <2>4, <3>1
    <3> QED
      BY <2>1, <2>2, <2>5, <3>2, Zenon DEF StartupInv, TailIsLatest
<1>2. StartupInv /\ [Next]_vars => StartupInv'
  BY StepMoves, StartupTypeStep, DrainedStep, TailStep, Zenon DEF StartupInv
<1> QED
  BY <1>1, <1>2, PTL DEF Spec

(* What is kept of stderr is its latest lines, whatever the tail's length,  *)
(* whoever writes them and however late they are read.                     *)
THEOREM TailHolds == Spec => []TailIsLatest
<1>1. StartupInv => TailIsLatest
  BY DEF StartupInv
<1> QED
  BY <1>1, StartupHolds, PTL

(* A handshake that fails while stderr is heard out quotes the very last    *)
(* lines the agent wrote.                                                  *)
THEOREM ReasonHolds == Spec => []ReasonTold
<1>1. StartupInv => ReasonTold
  <2> SUFFICES ASSUME StartupInv, stage = "failed", why \notin {"spawn", "denied", "silent"},
                      ~cut, ~garbled
               PROVE  told = LastOf(said)
    BY DEF ReasonTold
  <2>1. told = tail /\ stderr = <<>>
    BY DEF StartupInv, Drained
  <2>2. tail = LastOf(said - 0)
    BY <2>1 DEF StartupInv, TailIsLatest
  <2> QED
    BY <2>1, <2>2 DEF StartupInv, StartupTypeOK
<1> QED
  BY <1>1, StartupHolds, PTL

---------------------------------------------------------------------------
(* The search.                                                             *)

LEMMA LookupHolds == Spec => []LookupInv
<1>1. Init => LookupInv
  BY LookupStarts DEF Init
<1>2. [Next]_vars => LookupMoves
  BY DEF Next, vars, LookupNext, ChangeBeforeSpawn, SpawnFound, LookupMoves
<1>3. LookupInv /\ [Next]_vars => LookupInv'
  BY <1>2, LookupKeeps
<1> QED
  BY <1>1, <1>3, PTL DEF Spec

(* Every variable of a launch keeps its type, and a search has an answer    *)
(* exactly while it has found one that was not used yet.                   *)
THEOREM TypeCorrect == Spec => []TypeOK
<1>1. LookupInv /\ StartupInv => TypeOK
  BY DEF LookupInv, StartupInv, TypeOK
<1> QED
  BY <1>1, LookupHolds, StartupHolds, PTL

(* The PATH that is searched begins with the one this process was given,    *)
(* whatever a shell says and whatever version managers there are, and what   *)
(* comes after it is what they add, each directory once.                   *)
THEOREM PathHolds == Spec => []GivenKeepsItsPlace
BY LookupHolds, PathRight, PTL

(* What is to be run was there and speaks ACP, however the disk changes     *)
(* while it is looked for.                                                 *)
THEOREM ProtocolHolds == Spec => []SpeaksTheProtocol
BY LookupHolds, LaunchSpeaks, PTL

(* Nothing that was there all the time is passed over for something that is *)
(* trusted less, for every disk and every change to it.                    *)
THEOREM BestHolds == Spec => []NothingBetterWasThere
BY LookupHolds, NoneBetter, PTL

(* What a settings panel shows as installed can be launched.               *)
THEOREM ReadyHolds == Spec => []ReadyMeansLaunchable
BY LookupHolds, ReadyLaunches, PTL

(* However the disk changes under it, a search of launch ends: there is no  *)
(* stage, name or place it comes back to, and nobody else sends it back.     *)
THEOREM SearchAdvances ==
  Spec => [][(LookupStep => Nearer) /\ (~LookupStep /\ pc \in Stages => Rank' = Rank)]_vars
<1>1. LookupInv /\ [Next]_vars
        => [(LookupStep => Nearer) /\ (~LookupStep /\ pc \in Stages => Rank' = Rank)]_vars
  <2> SUFFICES ASSUME LookupInv, Next, ~LookupStep, pc \in Stages PROVE Rank' = Rank
    BY StepsAreFinite
  <2>1. CASE Change \/ UNCHANGED lookupVars
    BY <2>1 DEF Change, lookupVars, Rank
  <2>2. CASE SpawnFound
    <3>1. launch # {} /\ pc # "found"
      BY <2>2 DEF SpawnFound, Stages
    <3> QED
      BY <3>1 DEF LookupInv, LookupTypeOK
  <2> QED
    BY <2>1, <2>2 DEF Next, LookupNext, ChangeBeforeSpawn
<1> QED
  BY <1>1, LookupHolds, PTL DEF Spec

(* A spawn that failed: what was found could not be run at that moment, and *)
(* neither the answer nor the disk has moved since.                        *)
SpawnRefused ==
  why = "spawn" =>
    /\ stage = "failed" /\ pc = "found"
    /\ \A l \in launch : ~Runs(l.bin, files)

LEMMA RefusedStep ==
  LookupInv /\ StartupTypeOK /\ SpawnRefused /\ [Next]_vars => SpawnRefused'
<1> SUFFICES ASSUME LookupInv, StartupTypeOK, SpawnRefused, [Next]_vars, why' = "spawn"
             PROVE  /\ stage' = "failed" /\ pc' = "found"
                    /\ \A l \in launch' : ~Runs(l.bin, files)'
  BY DEF SpawnRefused
<1> USE DEF handshake, client, drain, agent, words
<1>1. ASSUME NEW l \in launch, ~Runs(l.bin, files), SpawnFails("spawn"), UNCHANGED lookupVars
      PROVE  /\ stage' = "failed" /\ pc' = "found"
             /\ \A k \in launch' : ~Runs(k.bin, files)'
  <2>1. pc = "found"
    BY DEF LookupInv, LookupTypeOK
  <2>2. launch = {l}
    BY <2>1 DEF LookupInv
  <2> QED
    BY <1>1, <2>1, <2>2
       DEF SpawnFails, Fail, lookupVars, asked, cached, disk, Runs, Searched, Directories
<1>2. CASE why = "spawn" /\ UNCHANGED <<lookupVars, why, stage>>
  BY <1>2 DEF SpawnRefused, lookupVars, asked, cached, disk, Runs, Searched, Directories
<1>3. CASE Spawn
  BY <1>3 DEF Spawn, SpawnRefused
<1>4. CASE UNCHANGED startupVars /\ (LookupNext \/ ChangeBeforeSpawn)
  <2>1. why = "spawn" /\ stage = "failed" /\ pc = "found"
    BY <1>4 DEF startupVars, SpawnRefused
  <2>2. ~ChangeBeforeSpawn
    BY <2>1 DEF ChangeBeforeSpawn
  <2>3. ~LookupNext
    BY <2>1 DEF LookupNext, LookupStep, Start, NextName, Probe, Verify, StageOver,
                LookupInv, InOrder, Stages
  <2> QED
    BY <1>4, <2>2, <2>3
<1> QED
  <2>1. CASE StartupNext /\ UNCHANGED lookupVars
    <3>1. why = "spawn"
      BY <2>1 DEF StartupTypeOK, Reasons, StartupNext, LaunchStep, TimePasses, ReaderStep,
         StderrStep, AgentStep, Register, Send, Answered, Settled, Expire, StartupOver, GraceOver,
         Dispatch, StdoutEnds, Announce, Keep, StderrEnds, Tell, TellGarbage, Reply, Leave,
         Settle, Fail
    <3>2. stage = "failed"
      BY <3>1 DEF SpawnRefused
    <3>3. UNCHANGED <<why, stage>>
      BY <2>1, <3>2 DEF StartupNext, LaunchStep, TimePasses, ReaderStep,
         StderrStep, AgentStep, Register, Send, Answered, Settled, Expire, StartupOver, GraceOver,
         Dispatch, StdoutEnds, Announce, Keep, StderrEnds, Tell, TellGarbage, Reply, Leave
    <3> QED
      BY <1>2, <2>1, <3>1, <3>3
  <2>2. CASE SpawnFound
    <3>1. CASE \E l \in launch : ~Runs(l.bin, files) /\ SpawnFails("spawn")
      <4>1. ~Spawn /\ ~SpawnFails("denied")
        BY <3>1 DEF Spawn, SpawnFails, Fail
      <4> QED
        BY <1>1, <2>2, <4>1 DEF SpawnFound
    <3>2. ~SpawnFails("denied")
      BY DEF SpawnFails, Fail
    <3> QED
      BY <1>3, <2>2, <3>1, <3>2 DEF SpawnFound
  <2>3. CASE UNCHANGED vars
    BY <1>2, <2>3 DEF vars, startupVars
  <2> QED
    BY <1>4, <2>1, <2>2, <2>3 DEF Next

(* A spawn that fails over its file fails over one that was found and that  *)
(* the system will not run, that was not there all the time, or that the     *)
(* system's own search of another PATH does not come to; passing spawn_path  *)
(* on leaves the first two.                                                  *)
THEOREM SpawnFailureHolds == Spec => []SpawnFailsForCause
<1>1. Init => SpawnRefused
  BY DEF Init, StartupInit, SpawnRefused
<1>2. StartupInv => StartupTypeOK
  BY DEF StartupInv
<1>3. LookupInv /\ SpawnRefused => SpawnFailsForCause
  <2> SUFFICES ASSUME LookupInv, why = "spawn", NEW l \in launch, ~Runs(l.bin, files)
               PROVE  \E d \in Dirs \cup {Elsewhere} :
                        /\ l.bin \in {Bare, <<d, l.bin[2]>>}
                        /\ <<d, l.bin[2]>> \in ever
                        /\ \/ d \notin Runnable \/ <<d, l.bin[2]>> \notin steady
                           \/ l.bin = Bare /\ d \notin ToSet(Searched)
                        /\ l.bin = Bare => d \in ToSet(path)
    BY DEF SpawnRefused, SpawnFailsForCause
  <2>1. /\ Justified(l) /\ look.override \in Overrides /\ path \in Seq(Dirs)
        /\ harness \in DOMAIN HARNESSES /\ steady \subseteq files /\ ever \subseteq Places
    BY LookupAssumption DEF LookupInv, LookupTypeOK
  <2>2. CASE look.override = "name"
    <3>1. PICK d \in ToSet(path) : <<d, Wrapper>> \in ever
      BY <2>1, <2>2 DEF Justified
    <3>2. l.bin = Bare /\ l.bin[2] = Wrapper
      <4>1. Bare[2] = Wrapper
        BY DEF Bare
      <4> QED
        BY <2>1, <2>2, <4>1 DEF Justified
    <3>3. d \in Dirs
      BY <2>1, Indices
    <3>4. d \notin Runnable \/ <<d, Wrapper>> \notin steady \/ d \notin ToSet(Searched)
      BY <2>1, <3>1, <3>2 DEF Runs
    <3> QED
      BY <3>1, <3>2, <3>3, <3>4
  <2>3. CASE look.override # "name"
    <3>1. l.bin \in ever /\ l.bin # Bare
      <4>1. CASE look.override = "path"
        <5>1. l.bin = <<Elsewhere, Wrapper>> /\ l.bin \in ever
          BY <2>1, <4>1 DEF Justified
        <5> QED
          BY <5>1 DEF Bare, Elsewhere
      <4>2. CASE look.override = "none"
        <5>1. l.bin \in ever
          BY <2>1, <4>2 DEF Justified
        <5>2. l.bin[2] \in ToSet(Speakers) \/ l.bin[2] = "npx"
          BY <2>1, <4>2, Foremost DEF Justified, Best
        <5>3. Wrapper # "npx" /\ Wrapper \notin ToSet(Speakers)
          <6>1. Wrapper \notin ToSet(h.adapter) /\ Wrapper \notin ToSet(h.cli)
            <7>1. /\ h.adapter \in Seq(Names) /\ h.cli \in Seq(Names)
                  /\ \A n \in 1..Len(h.adapter) : h.adapter[n] # Wrapper
                  /\ \A n \in 1..Len(h.cli) : h.cli[n] # Wrapper
              BY <2>1, Table
            <7>2. /\ ToSet(h.adapter) = {h.adapter[n] : n \in 1..Len(h.adapter)}
                  /\ ToSet(h.cli) = {h.cli[n] : n \in 1..Len(h.cli)}
              BY <7>1, Indices
            <7> QED
              BY <7>1, <7>2
          <6>2. Speakers = h.adapter \/ Speakers = h.cli
            BY <2>1, Table
          <6>3. Wrapper # "npx"
            BY DEF Wrapper
          <6> QED
            BY <6>1, <6>2, <6>3, Zenon
        <5>4. Bare[2] = Wrapper
          BY DEF Bare
        <5> QED
          BY <5>1, <5>2, <5>3, <5>4
      <4> QED
        BY <2>1, <2>3, <4>1, <4>2 DEF Overrides
    <3>2. l.bin \in Places /\ l.bin[1] \in Dirs \cup {Elsewhere}
      BY <2>1, <3>1 DEF Places
    <3>3. l.bin = <<l.bin[1], l.bin[2]>>
      BY <3>2 DEF Places
    <3>4. l.bin[1] \notin Runnable \/ l.bin \notin steady
      BY <2>1, <3>1 DEF Runs
    <3> QED
      BY <3>1, <3>2, <3>3, <3>4
  <2> QED
    BY <2>2, <2>3
<1> QED
  BY <1>1, <1>2, <1>3, RefusedStep, LookupHolds, StartupHolds, PTL DEF Spec

---------------------------------------------------------------------------
(* The handshake as a request.                                             *)

Greeting ==
  /\ stage = "spawning" => why = "none" /\ ~agentUp /\ reply = "none" /\ slot = "empty"
  /\ why \in {"spawn", "denied"} => stage = "failed" /\ ~agentUp /\ reply = "none"
  /\ stage \in {"sending", "filed", "asking", "up"} => why = "none"
  /\ stage = "settling" => why \notin {"none", "spawn", "denied"}
  /\ stage = "failed" => why # "none"
  /\ slot \in {"ok", "refused"} => reply = "read"
  /\ slot = "dropped" => ~agentUp \/ reply = "garbage"

LEMMA GreetingStep == StartupTypeOK /\ Greeting /\ StartupMoves => Greeting'
<1> SUFFICES ASSUME StartupTypeOK, Greeting, StartupMoves PROVE Greeting'
  OBVIOUS
<1> USE DEF Greeting, StartupTypeOK, Reasons, handshake, client, drain, agent, words
<1>1. CASE Spawn
  BY <1>1 DEF Spawn
<1>2. ASSUME NEW reason \in Reason, SpawnFails(reason) PROVE Greeting'
  BY <1>2 DEF SpawnFails, Fail, Reason
<1>17. CASE Register
  BY <1>17 DEF Register
<1>3. CASE Send
  BY <1>3 DEF Send, Settle
<1>4. CASE Answered
  BY <1>4 DEF Answered, Settle
<1>5. CASE Settled
  BY <1>5 DEF Settled, Fail
<1>6. CASE Expire
  BY <1>6 DEF Expire, Settle
<1>7. CASE StartupOver
  BY <1>7 DEF StartupOver, Fail
<1>8. CASE GraceOver
  BY <1>8 DEF GraceOver, Fail
<1>9. CASE Dispatch
  BY <1>9 DEF Dispatch
<1>10. CASE StdoutEnds
  BY <1>10 DEF StdoutEnds, Connected
<1>11. CASE Announce
  BY <1>11 DEF Announce
<1>12. CASE Keep \/ Tell \/ TellGarbage
  BY <1>12 DEF Keep, Tell, TellGarbage
<1>13. CASE StderrEnds
  <2>1. UNCHANGED <<handshake, client, agent>>
    BY <1>13, Zenon DEF StderrEnds
  <2> QED
    BY <2>1
<1>14. CASE Reply
  BY <1>14 DEF Reply
<1>15. CASE Leave
  <2>1. UNCHANGED <<handshake, client, reply>> /\ (agentUp' = FALSE \/ agentUp' = agentUp)
    BY <1>15, Zenon DEF Leave
  <2>2. ~agentUp => ~agentUp'
    BY <2>1, Zenon
  <2> QED
    BY <2>1, <2>2
<1>16. CASE UNCHANGED startupVars
  BY <1>16 DEF startupVars
<1> QED
  BY <1>1, <1>2, <1>3, <1>4, <1>5, <1>6, <1>7, <1>8, <1>9, <1>10, <1>11, <1>12, <1>13, <1>14,
     <1>15, <1>16, <1>17
     DEF StartupMoves, StartupNext, LaunchStep, TimePasses, ReaderStep, StderrStep, AgentStep

(* A step that ends the request, and one that has no part in it.           *)
LEMMA RequestEnds ==
  ASSUME Connected, UNCHANGED <<agentUp, reply>>, Connected', Outcome = "none",
         NEW r \in {"ok", "closed", "failed", "timeout", "dropped"}, Outcome' = r,
         \/ r = "ok" /\ reply \notin {"none", "garbage"}
         \/ r \in {"closed", "failed"} /\ (~agentUp \/ reply = "garbage")
         \/ r \in {"timeout", "dropped"}
  PROVE  Initialize!Next
<1>1. Initialize!End("initialize", r)
  BY DEF Initialize!End
<1> QED
  BY <1>1 DEF Initialize!Next

LEMMA RequestKept ==
  ASSUME UNCHANGED <<agentUp, reply>>, Connected' = Connected, Outcome' = Outcome
  PROVE  UNCHANGED Initialize!vars
BY DEF Initialize!vars

LEMMA RequestStep ==
  StartupTypeOK /\ Greeting /\ StartupMoves => [Initialize!Next]_(Initialize!vars)
<1> SUFFICES ASSUME StartupTypeOK, Greeting, StartupMoves
             PROVE  Initialize!Next \/ UNCHANGED Initialize!vars
  OBVIOUS
<1> USE DEF handshake, client, drain, agent, words
<1>1. CASE UNCHANGED <<stage, why, agentUp, reply>>
  <2>1. Connected' = Connected /\ Outcome' = Outcome
    BY <1>1 DEF Connected, Outcome
  <2> QED
    BY <1>1, <2>1, RequestKept
<1>2. CASE Spawn
  <2>1. /\ stage = "spawning" /\ why = "none" /\ ~agentUp /\ reply = "none"
        /\ stage' = "sending" /\ why' = "none" /\ agentUp' = TRUE /\ reply' = "none"
    BY <1>2 DEF Spawn, Greeting
  <2>2. ~Connected /\ Connected' /\ Outcome' = Outcome
    BY <2>1 DEF Connected, Outcome
  <2>3. Initialize!Ask("initialize")
    BY <2>1, <2>2 DEF Initialize!Ask
  <2> QED
    BY <2>3 DEF Initialize!Next
<1>3. ASSUME NEW reason \in Reason, SpawnFails(reason) PROVE Initialize!Next \/ UNCHANGED Initialize!vars
  <2>1. /\ stage = "spawning" /\ why = "none" /\ stage' = "failed" /\ why' \in Reason
        /\ UNCHANGED <<agentUp, reply>>
    BY <1>3 DEF SpawnFails, Fail, Greeting
  <2>2. Connected' = Connected /\ Outcome' = Outcome
    BY <2>1 DEF Connected, Outcome, Reason
  <2> QED
    BY <2>1, <2>2, RequestKept
<1>13. CASE Register
  <2>1. UNCHANGED <<why, agentUp, reply>> /\ stage = "sending" /\ stage' = "filed"
    BY <1>13 DEF Register
  <2>2. Connected' = Connected /\ Outcome' = Outcome
    BY <2>1 DEF Connected, Outcome
  <2> QED
    BY <2>1, <2>2, RequestKept
<1>4. CASE Send
  <2>1. stage = "filed" /\ why = "none" /\ UNCHANGED <<agentUp, reply>>
    BY <1>4 DEF Send, Greeting
  <2>2. CASE agentUp
    <3>1. Connected' = Connected /\ Outcome' = Outcome
      BY <1>4, <2>1, <2>2 DEF Send, Connected, Outcome
    <3> QED
      BY <2>1, <3>1, RequestKept
  <2>3. CASE ~agentUp
    <3>1. Connected /\ Connected' /\ Outcome = "none" /\ Outcome' = "failed"
      BY <1>4, <2>1, <2>3 DEF Send, Settle, Connected, Outcome
    <3> QED
      BY <2>1, <2>3, <3>1, RequestEnds
  <2> QED
    BY <2>2, <2>3
<1>5. CASE Answered
  <2>1. /\ stage = "asking" /\ why = "none" /\ slot # "empty" /\ UNCHANGED <<agentUp, reply>>
        /\ slot \in {"ok", "refused"} => reply = "read"
        /\ slot = "dropped" => ~agentUp \/ reply = "garbage"
    BY <1>5 DEF Answered, Greeting
  <2>2. Connected /\ Connected' /\ Outcome = "none"
    BY <1>5, <2>1 DEF Answered, Settle, Connected, Outcome
  <2>3. CASE slot \in {"ok", "refused"}
    <3>1. Outcome' = "ok"
      BY <1>5, <2>1, <2>3 DEF Answered, Settle, Outcome
    <3> QED
      BY <2>1, <2>2, <2>3, <3>1, RequestEnds
  <2>4. CASE slot = "dropped"
    <3>1. Outcome' = "closed"
      BY <1>5, <2>1, <2>4 DEF Answered, Settle, Outcome
    <3> QED
      BY <2>1, <2>2, <2>4, <3>1, RequestEnds
  <2> QED
    BY <2>1, <2>3, <2>4 DEF StartupTypeOK
<1>6. CASE Expire
  <2>1. Connected /\ Connected' /\ Outcome = "none" /\ Outcome' = "timeout"
          /\ UNCHANGED <<agentUp, reply>>
    BY <1>6 DEF Expire, Settle, Connected, Outcome, Greeting
  <2> QED
    BY <2>1, RequestEnds
<1>7. CASE StartupOver
  <2>1. Connected /\ Connected' /\ Outcome = "none" /\ Outcome' = "dropped"
          /\ UNCHANGED <<agentUp, reply>>
    BY <1>7 DEF StartupOver, Fail, Connected, Outcome, Greeting
  <2> QED
    BY <2>1, RequestEnds
<1>8. CASE Settled \/ GraceOver
  <2>1. Connected' = Connected /\ Outcome' = Outcome /\ UNCHANGED <<agentUp, reply>>
    BY <1>8 DEF Settled, GraceOver, Fail, Connected, Outcome
  <2> QED
    BY <2>1, RequestKept
<1>9. CASE Dispatch
  <2>1. /\ UNCHANGED <<stage, why, agentUp>> /\ reply \in {"ok", "refused"} /\ reply' = "read"
    BY <1>9 DEF Dispatch
  <2>2. Connected' = Connected /\ Outcome' = Outcome
    BY <2>1 DEF Connected, Outcome
  <2> QED
    BY <2>1, <2>2 DEF Initialize!vars
<1>10. CASE Reply
  <2>1. /\ UNCHANGED <<stage, why, agentUp>> /\ agentUp /\ reply = "none"
        /\ stage \in {"sending", "filed", "asking", "settling"} /\ reply' \in {"ok", "refused", "garbage"}
    BY <1>10 DEF Reply
  <2>2. Connected /\ Connected' /\ Outcome' = Outcome
    BY <2>1 DEF Connected, Outcome, Greeting
  <2>3. CASE reply' = "garbage"
    <3>1. Initialize!AgentLeaves
      BY <2>1, <2>2, <2>3 DEF Initialize!AgentLeaves
    <3> QED
      BY <3>1 DEF Initialize!Next
  <2>4. CASE reply' # "garbage"
    <3>1. Initialize!AgentAnswers("initialize")
      BY <2>1, <2>2, <2>4 DEF Initialize!AgentAnswers
    <3> QED
      BY <3>1 DEF Initialize!Next
  <2> QED
    BY <2>3, <2>4
<1>11. CASE Leave
  <2>1. UNCHANGED <<stage, why, reply>> /\ (agentUp' = FALSE \/ agentUp' = agentUp)
    BY <1>11, Zenon DEF Leave
  <2>2. Connected' = Connected /\ Outcome' = Outcome
    BY <2>1 DEF Connected, Outcome
  <2>3. CASE agentUp' = agentUp \/ ~Connected
    BY <2>1, <2>2, <2>3 DEF Initialize!vars
  <2>4. CASE agentUp' = FALSE /\ Connected
    <3>1. Initialize!AgentLeaves
      BY <2>1, <2>2, <2>4 DEF Initialize!AgentLeaves
    <3> QED
      BY <3>1 DEF Initialize!Next
  <2> QED
    BY <2>1, <2>3, <2>4
<1>12. CASE StdoutEnds \/ Announce \/ Keep \/ StderrEnds \/ Tell \/ TellGarbage
              \/ UNCHANGED startupVars
  BY <1>1, <1>12, Zenon
     DEF StdoutEnds, Announce, Keep, StderrEnds, Tell, TellGarbage, startupVars
<1> QED
  BY <1>2, <1>3, <1>4, <1>5, <1>6, <1>7, <1>8, <1>9, <1>10, <1>11, <1>12, <1>13
     DEF StartupMoves, StartupNext, LaunchStep, TimePasses, ReaderStep, StderrStep, AgentStep

(* The handshake implements what Requests promises of any request: whatever *)
(* the agent does and however late it answers, the request ends once, and    *)
(* for a reason that holds.                                                *)
THEOREM HandshakeKept == Spec => HandshakeIsARequest
<1>1. Init => Greeting /\ Initialize!Init
  BY DEF Init, StartupInit, Greeting, Initialize!Init, Connected, Outcome
<1>2. StartupInv => StartupTypeOK
  BY DEF StartupInv
<1>3. StartupTypeOK /\ Greeting /\ [Next]_vars
        => Greeting' /\ [Initialize!Next]_(Initialize!vars)
  BY StepMoves, GreetingStep, RequestStep
<1> QED
  BY <1>1, <1>2, <1>3, StartupHolds, PTL DEF Spec, HandshakeIsARequest, Initialize!Spec

===========================================================================
