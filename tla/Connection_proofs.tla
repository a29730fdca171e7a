------------------------- MODULE Connection_proofs -------------------------
(***************************************************************************)
(* What holds of Connection for every set of calls and sessions, every      *)
(* policy, every channel capacity and every agent.                          *)
(***************************************************************************)
EXTENDS Connection, TLAPS, SequenceTheorems

(* While the reader is in the middle of a dispatch, the line it dispatches *)
(* is still at the head of stdout and is of the kind that brought it there. *)
Dispatching ==
  /\ reader \in {"unstale", "complete"} => stdout # <<>> /\ Line.kind = "reply"
  /\ reader \in {"replaying", "stale"} => stdout # <<>> /\ Line.kind = "update"
  /\ reader = "asked" => stdout # <<>> /\ Line.kind \in Questions
  /\ reader = "deliver" =>
       stdout # <<>> /\ Line.kind \in {"update", "permission"}

TypeInv == TypeOK /\ Dispatching

LEMMA HeadOfAppend ==
  ASSUME NEW S, NEW s \in Seq(S), s # <<>>, NEW x
  PROVE  Head(Append(s, x)) = Head(s) /\ Append(s, x) # <<>>
OBVIOUS

LEMMA RemoveAtType ==
  ASSUME NEW S, NEW s \in Seq(S), NEW i \in 1..Len(s)
  PROVE  SubSeq(s, 1, i - 1) \o SubSeq(s, i + 1, Len(s)) \in Seq(S)
<1>1. SubSeq(s, 1, i - 1) \in Seq(S)
  BY SubSeqProperties
<1>2. SubSeq(s, i + 1, Len(s)) \in Seq(S)
  BY SubSeqProperties
<1> QED
  BY <1>1, <1>2, ConcatProperties

LEMMA SendType ==
  ASSUME stdin \in Seq(Frames), Len(stdin) <= StdinCap, NEW f \in Frames, Send(f)
  PROVE  stdin' \in Seq(Frames) /\ Len(stdin') <= StdinCap
<1>1. CASE UNCHANGED stdin
  BY <1>1
<1>2. CASE Len(stdin) < StdinCap /\ stdin' = Append(stdin, f)
  BY <1>2, AppendProperties, PolicyAssumption
<1> QED
  BY <1>1, <1>2 DEF Send

LEMMA FrameType ==
  ASSUME NEW c \in Calls, NEW k \in {"request", "cancel", "answer"}
  PROVE  Frame(k, c) \in Frames
BY DEF Frame, Frames

LEMMA LineType ==
  ASSUME stdout \in Seq(Lines), stdout # <<>>, Line.kind # "garbled"
  PROVE  Line.call \in Calls /\ Line.kind \in {"reply", "update"} \cup Questions
<1>1. Line \in Lines
  BY DEF Line
<1> QED
  BY <1>1 DEF Lines

LEMMA NextLineType ==
  ASSUME stdout \in Seq(Lines), stdout # <<>>, NextLine
  PROVE  stdout' \in Seq(Lines) /\ reader' \in ReaderPCs /\ Dispatching'
BY DEF NextLine, ReaderPCs, Dispatching

(* Writing to stdout leaves the line being dispatched where it is.         *)
LEMMA WriteLineType ==
  ASSUME TypeOK, Dispatching, NEW line \in Lines,
         stdout' = Append(stdout, line), UNCHANGED reader
  PROVE  stdout' \in Seq(Lines) /\ Dispatching'
<1>1. stdout' \in Seq(Lines)
  BY DEF TypeOK
<1>2. stdout # <<>> => Line' = Line /\ stdout' # <<>>
  BY HeadOfAppend DEF TypeOK, Line
<1> QED
  BY <1>1, <1>2 DEF Dispatching

LEMMA SurfaceType ==
  ASSUME TypeOK, NEW e \in Events, Surface(e)
  PROVE  events' \in Seq(Events) /\ Len(events') <= EventCap
<1>1. CASE UNCHANGED events
  BY <1>1 DEF TypeOK
<1>2. CASE Len(events) < EventCap /\ events' = Append(events, e)
  <2>1. events' \in Seq(Events) /\ Len(events') = Len(events) + 1
    BY <1>2 DEF TypeOK
  <2> QED
    BY <1>2, <2>1, PolicyAssumption DEF TypeOK
<1> QED
  BY <1>1, <1>2 DEF Surface

LEMMA TypeInit == Init => TypeInv
BY CallsAssumption, PolicyAssumption
   DEF Init, TypeInv, TypeOK, Dispatching, PCs, Results, ReaderPCs

LEMMA TypeStep == TypeInv /\ [Next]_vars => TypeInv'
<1> SUFFICES ASSUME TypeInv, [Next]_vars PROVE TypeInv'
  OBVIOUS
<1> USE CallsAssumption, PolicyAssumption
<1> USE DEF TypeInv, TypeOK, Dispatching, Line, client, pump, app, ends, agent,
        PCs, Results, ReaderPCs
<1>1. ASSUME NEW c \in Calls, GuardOn(c) PROVE TypeInv'
  BY <1>1 DEF GuardOn, Goto
<1>2. ASSUME NEW c \in Calls, Register(c) PROVE TypeInv'
  BY <1>2 DEF Register, Goto
<1>3. ASSUME NEW c \in Calls, Write(c) PROVE TypeInv'
  BY <1>3, SendType, FrameType DEF Write, Goto
<1>4. ASSUME NEW c \in Calls, TakeBack(c) PROVE TypeInv'
  BY <1>4 DEF TakeBack, Goto, Leave
<1>5. ASSUME NEW c \in Calls, Answered(c) PROVE TypeInv'
  BY <1>5 DEF Answered, Goto, Leave
<1>6. ASSUME NEW c \in Calls, LetGo(c) PROVE TypeInv'
  BY <1>6 DEF LetGo, Goto, Leave
<1>7. ASSUME NEW c \in Calls, Expire(c) PROVE TypeInv'
  BY <1>7 DEF Expire, Goto
<1>8. ASSUME NEW c \in Calls, Forget(c) PROVE TypeInv'
  BY <1>8 DEF Forget, Goto, Leave
<1>9. ASSUME NEW c \in Calls, Quarantine(c) PROVE TypeInv'
  BY <1>9 DEF Quarantine, Goto
<1>10. ASSUME NEW c \in Calls, Cancel(c) PROVE TypeInv'
  BY <1>10, SendType, FrameType DEF Cancel, Goto, Leave
<1>11. ASSUME NEW c \in Calls, GuardOff(c) PROVE TypeInv'
  BY <1>11 DEF GuardOff, Goto
<1>12. ASSUME NEW c \in Calls, Drop(c) PROVE TypeInv'
  BY <1>12 DEF Drop, Goto
<1>13. CASE ReadLine
  BY <1>13 DEF ReadLine, Lines, Questions
<1>14. CASE StopReading
  BY <1>14 DEF StopReading
<1>15. CASE EndQuarantine
  BY <1>15 DEF EndQuarantine
<1>16. CASE Complete
  BY <1>16, NextLineType DEF Complete
<1>17. CASE CheckReplaying
  BY <1>17, NextLineType DEF CheckReplaying
<1>18. CASE CheckStale
  BY <1>18, NextLineType DEF CheckStale
<1>19. CASE Asked
  BY <1>19, NextLineType, SendType, FrameType, LineType DEF Asked, Questions
<1>20. CASE Deliver
  <2>1. [kind |-> Line.kind, call |-> Line.call] \in Events
    BY <1>20, LineType DEF Deliver, Events
  <2> QED
    BY <1>20, <2>1, NextLineType, SurfaceType DEF Deliver
<1>21. CASE Clear
  BY <1>21 DEF Clear
<1>22. CASE Announce
  <2>1. [kind |-> "closed"] \in Events
    BY DEF Events
  <2> QED
    BY <1>22, <2>1, SurfaceType DEF Announce
<1>23. CASE Drain
  <2>1. Head(events) \in Events /\ Tail(events) \in Seq(Events)
       /\ Len(Tail(events)) <= EventCap
    BY <1>23 DEF Drain
  <2>2. held' \subseteq Calls
    BY <1>23, <2>1 DEF Drain, Events
  <2> QED
    BY <1>23, <2>1, <2>2 DEF Drain
<1>24. CASE StopListening
  <2>1. events' \in Seq(Events) /\ Len(events') <= EventCap
    <3>1. events' = <<>>
      BY <1>24 DEF StopListening
    <3>2. Len(events') = 0
      BY <3>1
    <3> QED
      BY <3>1, <3>2, PolicyAssumption
  <2> QED
    BY <1>24, <2>1 DEF StopListening
<1>25. ASSUME NEW c \in Calls, Answer(c) PROVE TypeInv'
  BY <1>25, SendType, FrameType DEF Answer
<1>26. CASE Accept
  <2>1. Head(stdin) \in Frames /\ Tail(stdin) \in Seq(Frames)
    BY <1>26 DEF Accept
  <2>2. Head(stdin).call \in Calls
    BY <2>1 DEF Frames
  <2>3. work' \in Seq(Calls) /\ blocked' \subseteq Calls
    <3>1. CASE Head(stdin).kind = "request"
      <4>1. work' = Append(work, Head(stdin).call) /\ UNCHANGED blocked
        BY <1>26, <3>1 DEF Accept
      <4> QED
        BY <2>2, <4>1
    <3>2. CASE Head(stdin).kind = "answer"
      <4>1. blocked' = blocked \ {Head(stdin).call} /\ UNCHANGED work
        BY <1>26, <3>2 DEF Accept
      <4> QED
        BY <4>1
    <3>3. CASE Head(stdin).kind \notin {"request", "answer"}
      BY <1>26, <3>3 DEF Accept
    <3> QED
      BY <3>1, <3>2, <3>3
  <2>4. UNCHANGED <<client, pump, app, stdout, ends, said, replied>> /\ stdin' = Tail(stdin)
    BY <1>26 DEF Accept
  <2> QED
    BY <2>1, <2>3, <2>4
<1>27. ASSUME NEW c \in Calls, NEW k \in {"update"} \cup Questions, Speak(c, k),
              UNCHANGED reader
       PROVE  Dispatching' /\ said' \in [Calls -> Nat] /\ stdout' \in Seq(Lines)
  <2>1. [kind |-> k, call |-> c] \in Lines
    BY DEF Lines
  <2>2. said' \in [Calls -> Nat]
    BY <1>27 DEF Speak
  <2>3. Dispatching' /\ stdout' \in Seq(Lines)
    BY <1>27, <2>1, WriteLineType DEF Speak
  <2> QED
    BY <2>2, <2>3
<1>28. ASSUME NEW c \in Calls, Say(c) PROVE TypeInv'
  BY <1>27, <1>28 DEF Say
<1>29. ASSUME NEW c \in Calls, Question(c) PROVE TypeInv'
  BY <1>27, <1>29 DEF Question
<1>30. ASSUME NEW c \in Calls, Reply(c) PROVE TypeInv'
  <2>1. [kind |-> "reply", call |-> c] \in Lines
    BY DEF Lines
  <2>2. work' \in Seq(Calls)
    BY <1>30, RemoveAtType DEF Reply
  <2> QED
    BY <1>30, <2>1, <2>2, WriteLineType DEF Reply
<1>31. CASE Garble
  <2>1. [kind |-> "garbled"] \in Lines
    BY DEF Lines
  <2> QED
    BY <1>31, <2>1, WriteLineType DEF Garble
<1>32. CASE Die
  <2>1. <<>> \in Seq(Frames) /\ <<>> \in Seq(Calls)
    OBVIOUS
  <2>2. stdin' = <<>>
    BY <1>32 DEF Die
  <2>3. Len(stdin') = 0
    BY <2>2
  <2>4. Len(stdin') <= StdinCap
    BY <2>3, PolicyAssumption
  <2> QED
    BY <1>32, <2>1, <2>2, <2>4 DEF Die
<1>33. CASE UNCHANGED vars
  BY <1>33 DEF vars
<1> HIDE DEF TypeInv
<1> QED
  BY <1>1, <1>2, <1>3, <1>4, <1>5, <1>6, <1>7, <1>8, <1>9, <1>10, <1>11, <1>12,
     <1>13, <1>14, <1>15, <1>16, <1>17, <1>18, <1>19, <1>20, <1>21, <1>22, <1>23,
     <1>24, <1>25, <1>26, <1>28, <1>29, <1>30, <1>31, <1>32, <1>33
     DEF Next, Begin, CallStep, ReaderStep, AgentStep

(* Every variable keeps its type, and the event channel never holds more   *)
(* than its capacity.                                                      *)
THEOREM TypeCorrect == Spec => []TypeOK
<1>1. Spec => []TypeInv
  BY TypeInit, TypeStep, PTL DEF Spec
<1>2. TypeInv => TypeOK
  BY DEF TypeInv
<1> QED
  BY <1>1, <1>2, PTL
---------------------------------------------------------------------------
(* The waiters.  What makes NoStrandedWaiter inductive is the order in      *)
(* `send`: the slot is filed before the request can be waited for, and a    *)
(* slot has been answered or dropped only once it has left the map.  What   *)
(* makes WaitersLetGoFirst inductive is that, for an agent that prints only *)
(* UTF-8, the reader stops only after both pipes have closed, so that no    *)
(* request can be written once the map has been cleared.                    *)

SlotsFiled ==
  \A c \in Calls :
    pc[c] \in {"registered", "waiting"} /\ slot[c] = "empty" => c \in pending

SlotsFresh ==
  /\ \A c \in pending : slot[c] = "empty"
  /\ \A c \in Calls : pc[c] \in {"new", "guarded"} => slot[c] = "empty"

SlotsOwned ==
  \A c \in pending :
    \/ pc[c] \in {"registered", "unsent", "waiting", "expired"}
    \/ result[c] = "dropped"

DroppedIsOver == \A c \in Calls : result[c] = "dropped" => pc[c] = "done"

CleanEnd ==
  /\ stdinOpen = stdoutOpen
  /\ ~MayGarble =>
       /\ \A i \in 1..Len(stdout) : stdout[i].kind # "garbled"
       /\ reader \in {"clear", "announce", "done"} => ~stdoutOpen

WaitInv ==
  /\ SlotsFiled /\ SlotsOwned /\ SlotsFresh /\ DroppedIsOver
  /\ CleanEnd /\ WaitersLetGoFirst

LEMMA WaitInit == Init => WaitInv
BY DEF Init, WaitInv, SlotsFiled, SlotsOwned, SlotsFresh, DroppedIsOver, CleanEnd,
       WaitersLetGoFirst

(* The part of the invariant that concerns the calls and the map.          *)
CallsInv == SlotsFiled /\ SlotsOwned /\ SlotsFresh /\ DroppedIsOver

LEMMA CallsStep == TypeInv /\ CallsInv /\ [Next]_vars => CallsInv'
<1> SUFFICES ASSUME TypeInv, CallsInv, [Next]_vars PROVE CallsInv'
  OBVIOUS
<1> USE DEF CallsInv, SlotsFiled, SlotsOwned, SlotsFresh, DroppedIsOver
<1>1. pc \in [Calls -> PCs] /\ result \in [Calls -> Results]
      /\ slot \in [Calls -> {"empty", "reply", "dropped"}] /\ pending \subseteq Calls
  BY DEF TypeInv, TypeOK
<1>2. ASSUME NEW c \in Calls, Begin(c) \/ CallStep(c) \/ Expire(c) \/ Drop(c)
      PROVE  CallsInv'
  <2>1. CASE GuardOn(c)
    BY <1>1, <2>1 DEF GuardOn, Goto
  <2>2. CASE Register(c)
    BY <1>1, <2>2 DEF Register, Goto
  <2>3. CASE Write(c)
    BY <1>1, <2>3 DEF Write, Goto
  <2>4. CASE TakeBack(c)
    BY <1>1, <2>4 DEF TakeBack, Goto, Leave
  <2>5. CASE Answered(c)
    BY <1>1, <2>5 DEF Answered, Goto, Leave
  <2>6. CASE LetGo(c)
    BY <1>1, <2>6 DEF LetGo, Goto, Leave
  <2>7. CASE Expire(c)
    BY <1>1, <2>7 DEF Expire, Goto
  <2>8. CASE Forget(c)
    BY <1>1, <2>8 DEF Forget, Goto, Leave
  <2>9. CASE Quarantine(c)
    BY <1>1, <2>9 DEF Quarantine, Goto
  <2>10. CASE Cancel(c)
    BY <1>1, <2>10 DEF Cancel, Goto, Leave
  <2>11. CASE GuardOff(c)
    BY <1>1, <2>11 DEF GuardOff, Goto
  <2>12. CASE Drop(c)
    BY <1>1, <2>12 DEF Drop, Goto
  <2> QED
    BY <1>2, <2>1, <2>2, <2>3, <2>4, <2>5, <2>6, <2>7, <2>8, <2>9, <2>10, <2>11, <2>12
       DEF Begin, CallStep
<1>3. CASE Complete
  BY <1>1, <1>3 DEF Complete
<1>4. CASE Clear
  BY <1>1, <1>4 DEF Clear
<1>5. CASE UNCHANGED <<pc, result, pending, slot>>
  BY <1>1, <1>5
<1> HIDE DEF CallsInv
<1> QED
  BY <1>2, <1>3, <1>4, <1>5
     DEF Next, vars, client, ReaderStep, AgentStep, ReadLine, StopReading, EndQuarantine,
         CheckReplaying, CheckStale, Asked, Deliver, Announce, Drain, StopListening,
         Answer, Accept, Garble, Die, Say, Question, Reply

LEMMA CleanEndStep == TypeInv /\ CleanEnd /\ [Next]_vars => CleanEnd'
<1> SUFFICES ASSUME TypeInv, CleanEnd, [Next]_vars PROVE CleanEnd'
  OBVIOUS
<1> DEFINE Stopped == reader \in {"clear", "announce", "done"}
<1>1. ASSUME stdinOpen' = stdinOpen, stdoutOpen' = stdoutOpen, Stopped' => Stopped,
             stdout' = stdout \/ (stdout # <<>> /\ stdout' = Tail(stdout))
      PROVE  CleanEnd'
  <2>1. ASSUME NEW i \in 1..Len(stdout')
        PROVE  \E j \in 1..Len(stdout) : stdout'[i] = stdout[j]
    <3>1. CASE stdout' = stdout
      BY <3>1
    <3>2. CASE stdout # <<>> /\ stdout' = Tail(stdout)
      <4>1. stdout \in Seq(Lines)
        BY DEF TypeInv, TypeOK
      <4>2. Len(stdout') = Len(stdout) - 1 /\ stdout'[i] = stdout[i + 1]
        BY <3>2, <4>1
      <4>3. i + 1 \in 1..Len(stdout)
        BY <4>1, <4>2
      <4> QED
        BY <4>2, <4>3
    <3> QED
      BY <1>1, <3>1, <3>2
  <2> QED
    BY <1>1, <2>1 DEF CleanEnd
<1>2. ASSUME UNCHANGED <<stdinOpen, stdoutOpen, reader>>,
             NEW line, stdout' = Append(stdout, line),
             MayGarble \/ line.kind # "garbled"
      PROVE  CleanEnd'
  <2>1. ASSUME NEW i \in 1..Len(stdout')
        PROVE  \/ \E j \in 1..Len(stdout) : stdout'[i] = stdout[j]
               \/ stdout'[i] = line
    BY <1>2 DEF TypeInv, TypeOK
  <2> QED
    BY <1>2, <2>1 DEF CleanEnd
<1>3. CASE StopReading
  <2>1. stdout # <<>> => 1 \in 1..Len(stdout) /\ stdout[1] = Line
    BY DEF TypeInv, TypeOK, Line
  <2> QED
    BY <1>3, <2>1 DEF StopReading, CleanEnd, ends
<1>4. CASE Die
  BY <1>4 DEF Die, CleanEnd, pump
<1>5. CASE \E c \in Calls : Say(c) \/ Question(c) \/ Reply(c)
  BY <1>2, <1>5, PolicyAssumption
     DEF Say, Question, Reply, Speak, Questions, pump, ends
<1>6. CASE Garble
  BY <1>2, <1>6 DEF Garble, pump, ends
<1>7. CASE ReadLine
  BY <1>1, <1>7 DEF ReadLine, ends
<1>8. CASE EndQuarantine \/ Complete \/ CheckReplaying \/ CheckStale \/ Asked \/ Deliver
  BY <1>1, <1>8
     DEF EndQuarantine, Complete, CheckReplaying, CheckStale, Asked, Deliver, NextLine,
         ends, TypeInv, Dispatching
<1>9. CASE Clear \/ Announce
  BY <1>1, <1>9 DEF Clear, Announce, ends
<1>10. CASE UNCHANGED <<reader, stdout, stdinOpen, stdoutOpen>>
  <2>1. stdinOpen' = stdinOpen /\ stdoutOpen' = stdoutOpen /\ stdout' = stdout
        /\ (Stopped' => Stopped)
    BY <1>10
  <2> QED
    BY <1>1, <2>1
<1> QED
  BY <1>3, <1>4, <1>5, <1>6, <1>7, <1>8, <1>9, <1>10
     DEF Next, Begin, CallStep, ReaderStep, AgentStep, vars, pump, ends, GuardOn, Register,
         Write, TakeBack, Answered, LetGo, Expire, Forget, Quarantine, Cancel, GuardOff,
         Drop, Drain, StopListening, Answer, Accept

LEMMA WaitersStep == TypeInv /\ WaitInv /\ [Next]_vars => WaitersLetGoFirst'
<1> SUFFICES ASSUME TypeInv, WaitInv, [Next]_vars, ~MayGarble,
                    reader' \in {"announce", "done"},
                    NEW d \in Calls, pc'[d] = "waiting"
             PROVE  slot'[d] # "empty"
  BY DEF WaitersLetGoFirst
<1>1. pc \in [Calls -> PCs] /\ slot \in [Calls -> {"empty", "reply", "dropped"}]
  BY DEF TypeInv, TypeOK
<1>2. ASSUME UNCHANGED <<reader, slot>>, pc[d] = "waiting"
      PROVE  slot'[d] # "empty"
  BY <1>2 DEF WaitInv, WaitersLetGoFirst
<1>3. ASSUME NEW c \in Calls, Write(c) PROVE slot'[d] # "empty"
  <2>1. ~stdinOpen
    BY <1>3 DEF Write, pump, WaitInv, CleanEnd
  <2>2. pc[d] = "waiting"
    BY <1>1, <1>3, <2>1 DEF Write, Goto
  <2> QED
    BY <1>2, <1>3, <2>2 DEF Write, pump
<1>4. ASSUME NEW c \in Calls, Begin(c) \/ CallStep(c) \/ Expire(c) \/ Drop(c), ~Write(c)
      PROVE  slot'[d] # "empty"
  BY <1>1, <1>2, <1>4
     DEF Begin, CallStep, GuardOn, Register, TakeBack, Answered, LetGo, Expire, Forget,
         Quarantine, Cancel, GuardOff, Drop, Goto, Leave, pump
<1>5. CASE Clear
  BY <1>1, <1>5 DEF Clear, WaitInv, SlotsFiled
<1>6. CASE Announce
  BY <1>6 DEF Announce, client, WaitInv, WaitersLetGoFirst
<1>7. CASE ReadLine \/ StopReading \/ EndQuarantine \/ Complete \/ CheckReplaying
           \/ CheckStale \/ Asked \/ Deliver
  BY <1>7 DEF ReadLine, StopReading, EndQuarantine, Complete, CheckReplaying, CheckStale,
              Asked, Deliver, NextLine
<1>8. CASE UNCHANGED <<reader, slot, pc>>
  BY <1>2, <1>8
<1> QED
  BY <1>3, <1>4, <1>5, <1>6, <1>7, <1>8
     DEF Next, ReaderStep, AgentStep, vars, client, pump, Drain, StopListening, Answer,
         Accept, Say, Question, Reply, Garble, Die

LEMMA WaitStep == TypeInv /\ WaitInv /\ [Next]_vars => WaitInv'
BY CallsStep, CleanEndStep, WaitersStep DEF WaitInv, CallsInv

LEMMA Waits == Spec => []WaitInv
<1>1. TypeInv /\ WaitInv /\ [Next]_vars => TypeInv' /\ WaitInv'
  BY TypeStep, WaitStep
<1>2. Init => TypeInv /\ WaitInv
  BY TypeInit, WaitInit
<1> QED
  BY <1>1, <1>2, PTL DEF Spec

(* Whatever order replies, deadlines and the end of the connection come in, *)
(* a task waiting on an empty receiver can still be woken.                  *)
THEOREM NobodyStranded == Spec => []NoStrandedWaiter
<1>1. WaitInv => NoStrandedWaiter
  BY DEF WaitInv, SlotsFiled, NoStrandedWaiter
<1> QED
  BY <1>1, Waits, PTL

(* An agent that prints only UTF-8 is announced as closed only once nobody  *)
(* is left waiting for an answer of it that will not come.                  *)
THEOREM WaitersGoFirst == Spec => []WaitersLetGoFirst
<1>1. WaitInv => WaitersLetGoFirst
  BY DEF WaitInv
<1> QED
  BY <1>1, Waits, PTL
---------------------------------------------------------------------------
(* The promise.  Every step is one of the promise's, or a stutter, because  *)
(* nothing travels on either pipe that does not come from a request made    *)
(* (Begun) or an answer given, because only an answer fills a receiver, and *)
(* because only the end of the connection empties one.                      *)

Begun == {c \in Calls : pc[c] \notin {"new", "guarded"}}

HonestFrames == {f \in Frames : f.kind = "request" => f.call \in Begun}
HonestLines  == {l \in Lines : l.kind = "reply" => l.call \in replied}

Honest ==
  /\ stdin \in Seq(HonestFrames)
  /\ work \in Seq(Begun)
  /\ stdout \in Seq(HonestLines)

Outcomes ==
  /\ \A c \in Calls : slot[c] = "reply" => c \in replied
  /\ \A c \in Calls : slot[c] = "dropped" => ~alive
  /\ \A c \in Calls : pc[c] = "unsent" => ~stdinOpen
  /\ \A c \in Calls : result[c] # "none" => pc[c] \in {"unguard", "done"}
  /\ reader \in {"clear", "announce", "done"} => ~alive

LEMMA SeqMonotone ==
  ASSUME NEW S, NEW T, S \subseteq T, NEW s \in Seq(S) PROVE s \in Seq(T)
OBVIOUS

LEMMA HonestInit == Init => Honest /\ Outcomes
BY DEF Init, Honest, Outcomes

LEMMA HonestStep == TypeInv /\ Honest /\ [Next]_vars => Honest'
<1> SUFFICES ASSUME TypeInv, Honest, [Next]_vars PROVE Honest'
  OBVIOUS
<1>1. pc \in [Calls -> PCs] /\ stdin \in Seq(Frames) /\ stdout \in Seq(Lines)
  BY DEF TypeInv, TypeOK
<1>2. ASSUME Begun \subseteq Begun', replied \subseteq replied'
      PROVE  /\ stdin \in Seq(HonestFrames') /\ work \in Seq(Begun')
             /\ stdout \in Seq(HonestLines')
  <2>1. HonestFrames \subseteq HonestFrames' /\ HonestLines \subseteq HonestLines'
    BY <1>2 DEF HonestFrames, HonestLines, Frames, Lines
  <2> QED
    BY <1>2, <2>1, SeqMonotone DEF Honest
<1>3. ASSUME NEW c \in Calls, NEW l, pc' = [pc EXCEPT ![c] = l], l \notin {"new", "guarded"}
      PROVE  Begun \subseteq Begun' /\ c \in Begun'
  BY <1>1, <1>3 DEF Begun
<1>4. ASSUME NEW k \in {"request", "cancel", "answer"}, NEW c \in Calls,
             k = "request" => c \in Begun',
             Begun \subseteq Begun', replied \subseteq replied', Send(Frame(k, c))
      PROVE  stdin' \in Seq(HonestFrames')
  <2>1. Frame(k, c) \in HonestFrames'
    BY <1>4 DEF Frame, Frames, HonestFrames
  <2> QED
    BY <1>2, <1>4, <2>1 DEF Send
<1>5. ASSUME NEW c \in Calls, Begin(c) \/ CallStep(c) \/ Expire(c) \/ Drop(c)
      PROVE  Honest'
  <2>1. CASE GuardOn(c)
    <3>1. Begun' = Begun
      BY <1>1, <2>1 DEF GuardOn, Goto, Begun
    <3> QED
      BY <1>2, <2>1, <3>1 DEF GuardOn, agent, Honest
  <2>2. CASE Write(c)
    <3>1. \E l : l \notin {"new", "guarded"} /\ pc' = [pc EXCEPT ![c] = l]
      BY <2>2 DEF Write, Goto
    <3>2. Begun \subseteq Begun' /\ c \in Begun'
      BY <1>3, <3>1
    <3> QED
      BY <1>2, <1>4, <2>2, <3>2 DEF Write, agent, Honest
  <2>3. CASE Cancel(c)
    BY <1>2, <1>3, <1>4, <2>3 DEF Cancel, Goto, Leave, agent, Honest
  <2>4. CASE Register(c) \/ TakeBack(c) \/ Answered(c) \/ LetGo(c) \/ Expire(c)
             \/ Forget(c) \/ Quarantine(c) \/ GuardOff(c) \/ Drop(c)
    <3>1. \E l : l \notin {"new", "guarded"} /\ pc' = [pc EXCEPT ![c] = l]
      BY <2>4 DEF Register, TakeBack, Answered, LetGo, Expire, Forget, Quarantine,
                  GuardOff, Drop, Goto, Leave
    <3>2. UNCHANGED <<stdin, stdout, work, replied>>
      BY <2>4 DEF Register, TakeBack, Answered, LetGo, Expire, Forget, Quarantine,
                  GuardOff, Drop, agent
    <3> QED
      BY <1>2, <1>3, <3>1, <3>2 DEF Honest
  <2> QED
    BY <1>5, <2>1, <2>2, <2>3, <2>4 DEF Begin, CallStep
<1>6. ASSUME UNCHANGED <<pc, replied>> PROVE Begun' = Begun /\ replied' = replied
  BY <1>6 DEF Begun
<1>7. CASE Complete \/ CheckReplaying \/ CheckStale \/ Deliver
  <2>1. stdout # <<>>
    BY <1>7 DEF TypeInv, Dispatching, Complete, CheckReplaying, CheckStale, Deliver
  <2>2. stdout' = stdout \/ stdout' = Tail(stdout)
    BY <1>7 DEF Complete, CheckReplaying, CheckStale, Deliver, NextLine
  <2>3. UNCHANGED <<pc, stdin, work, replied>>
    BY <1>7 DEF Complete, CheckReplaying, CheckStale, Deliver, client, agent
  <2>4. /\ stdin \in Seq(HonestFrames') /\ work \in Seq(Begun')
        /\ stdout \in Seq(HonestLines')
    BY <1>2, <1>6, <2>3
  <2>5. stdout' \in Seq(HonestLines')
    <3>1. Tail(stdout) \in Seq(HonestLines')
      BY <2>1, <2>4, HeadTailProperties, Zenon
    <3> QED
      BY <2>2, <2>4, <3>1, Zenon
  <2> QED
    BY <2>3, <2>4, <2>5 DEF Honest
<1>8. CASE Asked
  <2>1. stdout # <<>> /\ Line.call \in Calls
    BY <1>1, <1>8, LineType DEF TypeInv, Dispatching, Asked, Questions
  <2>2. stdout' = stdout \/ stdout' = Tail(stdout)
    BY <1>8 DEF Asked, NextLine
  <2>3. UNCHANGED <<pc, work, replied>>
    BY <1>8 DEF Asked, client, agent
  <2>4. stdin' \in Seq(HonestFrames')
    BY <1>2, <1>4, <1>6, <1>8, <2>1, <2>3 DEF Asked
  <2>5. stdout \in Seq(HonestLines')
    BY <1>2, <1>6, <2>3
  <2>6. Tail(stdout) \in Seq(HonestLines')
    BY <2>1, <2>5
  <2>7. stdout' \in Seq(HonestLines')
    BY <2>2, <2>5, <2>6
  <2>8. work' \in Seq(Begun')
    BY <1>2, <1>6, <2>3
  <2> QED
    BY <2>4, <2>7, <2>8 DEF Honest
<1>9. ASSUME NEW c \in Calls, Answer(c) PROVE Honest'
  <2>1. UNCHANGED <<pc, stdout, work, replied>>
    BY <1>9 DEF Answer, client, agent
  <2> QED
    BY <1>2, <1>4, <1>6, <1>9, <2>1 DEF Answer, Honest
<1>10. CASE Accept
  <2>1. Head(stdin) \in HonestFrames /\ Tail(stdin) \in Seq(HonestFrames)
    BY <1>10 DEF Accept, Honest
  <2>2. UNCHANGED <<pc, stdout, replied>>
    BY <1>10 DEF Accept, client
  <2>3. work' \in Seq(Begun)
    <3>1. CASE Head(stdin).kind = "request"
      <4>1. work' = Append(work, Head(stdin).call) /\ Head(stdin).call \in Begun
        BY <1>10, <2>1, <3>1 DEF Accept, HonestFrames
      <4> QED
        BY <4>1 DEF Honest
    <3>2. CASE Head(stdin).kind # "request"
      BY <1>10, <3>2 DEF Accept, Honest
    <3> QED
      BY <3>1, <3>2
  <2>4. HonestFrames' = HonestFrames /\ HonestLines' = HonestLines /\ Begun' = Begun
    BY <2>2 DEF HonestFrames, HonestLines, Begun
  <2> QED
    BY <1>10, <2>1, <2>2, <2>3, <2>4 DEF Accept, Honest
<1>11. ASSUME NEW l \in Lines, stdout' = Append(stdout, l), UNCHANGED <<pc, stdin>>,
              replied \subseteq replied', l.kind = "reply" => l.call \in replied',
              work' \in Seq(Begun)
       PROVE  Honest'
  <2>1. Begun' = Begun
    BY <1>11 DEF Begun
  <2>2. l \in HonestLines'
    BY <1>11 DEF HonestLines
  <2> QED
    BY <1>2, <1>11, <2>1, <2>2 DEF Honest
<1>12. ASSUME NEW c \in Calls, Say(c) \/ Question(c) PROVE Honest'
  <2>1. PICK k \in {"update"} \cup Questions : Speak(c, k)
    BY <1>12, PolicyAssumption DEF Say, Question
  <2>2. [kind |-> k, call |-> c] \in Lines
    BY DEF Lines
  <2>3. UNCHANGED <<pc, stdin, work, replied>>
    BY <1>12 DEF Say, Question, client
  <2> QED
    BY <1>11, <2>1, <2>2, <2>3 DEF Speak, Questions, Honest
<1>13. ASSUME NEW c \in Calls, Reply(c) PROVE Honest'
  <2>1. [kind |-> "reply", call |-> c] \in Lines
    BY DEF Lines
  <2>2. work' \in Seq(Begun)
    BY <1>13, RemoveAtType DEF Reply, Honest
  <2> QED
    BY <1>11, <1>13, <2>1, <2>2 DEF Reply, client
<1>14. CASE Garble
  <2>1. [kind |-> "garbled"] \in Lines
    BY DEF Lines
  <2> QED
    BY <1>11, <1>14, <2>1 DEF Garble, client, agent, Honest
<1>15. CASE Die
  <2>1. <<>> \in Seq(HonestFrames') /\ <<>> \in Seq(Begun')
    OBVIOUS
  <2>2. UNCHANGED <<pc, replied, stdout>>
    BY <1>15 DEF Die, client
  <2> QED
    BY <1>2, <1>6, <1>15, <2>1, <2>2 DEF Die, Honest
<1>16. ASSUME UNCHANGED <<pc, replied, stdin, stdout, work>> PROVE Honest'
  BY <1>2, <1>6, <1>16 DEF Honest
<1> QED
  BY <1>5, <1>7, <1>8, <1>9, <1>10, <1>12, <1>13, <1>14, <1>15, <1>16
     DEF Next, ReaderStep, AgentStep, vars, client, agent, ReadLine, StopReading,
         EndQuarantine, Clear, Announce, Drain, StopListening

LEMMA OutcomesStep == TypeInv /\ Honest /\ Outcomes /\ [Next]_vars => Outcomes'
<1> SUFFICES ASSUME TypeInv, Honest, Outcomes, [Next]_vars PROVE Outcomes'
  OBVIOUS
<1> USE DEF Outcomes
<1>1. /\ pc \in [Calls -> PCs] /\ result \in [Calls -> Results]
      /\ slot \in [Calls -> {"empty", "reply", "dropped"}]
      /\ stdinOpen \in BOOLEAN
  BY DEF TypeInv, TypeOK
<1>2. ASSUME NEW c \in Calls, Begin(c) \/ CallStep(c) \/ Expire(c) \/ Drop(c)
      PROVE  Outcomes'
  <2>1. CASE GuardOn(c)
    BY <1>1, <2>1 DEF GuardOn, Goto, pump, ends, agent
  <2>2. CASE Register(c)
    BY <1>1, <2>2 DEF Register, Goto, pump, ends, agent
  <2>3. CASE Write(c)
    BY <1>1, <2>3 DEF Write, Goto, pump, ends, agent
  <2>4. CASE TakeBack(c)
    BY <1>1, <2>4 DEF TakeBack, Goto, Leave, pump, ends, agent
  <2>5. CASE Answered(c)
    BY <1>1, <2>5 DEF Answered, Goto, Leave, pump, ends, agent
  <2>6. CASE LetGo(c)
    BY <1>1, <2>6 DEF LetGo, Goto, Leave, pump, ends, agent
  <2>7. CASE Expire(c)
    BY <1>1, <2>7 DEF Expire, Goto, pump, ends, agent
  <2>8. CASE Forget(c)
    BY <1>1, <2>8 DEF Forget, Goto, Leave, pump, ends, agent
  <2>9. CASE Quarantine(c)
    BY <1>1, <2>9 DEF Quarantine, Goto, pump, ends, agent
  <2>10. CASE Cancel(c)
    BY <1>1, <2>10 DEF Cancel, Goto, Leave, pump, ends, agent
  <2>11. CASE GuardOff(c)
    BY <1>1, <2>11 DEF GuardOff, Goto, pump, ends, agent
  <2>12. CASE Drop(c)
    BY <1>1, <2>12 DEF Drop, Goto, pump, ends, agent
  <2> QED
    BY <1>2, <2>1, <2>2, <2>3, <2>4, <2>5, <2>6, <2>7, <2>8, <2>9, <2>10, <2>11, <2>12
       DEF Begin, CallStep
<1>3. CASE Complete
  <2>1. Line \in HonestLines /\ Line.kind = "reply"
    BY <1>3 DEF Complete, TypeInv, Dispatching, Honest, Line
  <2>2. Line.call \in replied
    BY <2>1 DEF HonestLines
  <2> QED
    BY <1>1, <1>3, <2>2 DEF Complete, NextLine, ends, agent
<1>4. CASE Clear
  BY <1>1, <1>4 DEF Clear, ends, agent
<1>5. CASE ReadLine \/ StopReading \/ EndQuarantine \/ CheckReplaying \/ CheckStale
           \/ Asked \/ Deliver \/ Announce
  BY <1>5 DEF ReadLine, StopReading, EndQuarantine, CheckReplaying, CheckStale, Asked,
              Deliver, Announce, NextLine, client, ends, agent
<1>6. CASE \E c \in Calls : Reply(c)
  BY <1>6 DEF Reply, client, pump, ends
<1>7. CASE Die
  BY <1>7 DEF Die, client, pump
<1>8. CASE UNCHANGED <<pc, result, slot, alive, reader, stdinOpen, replied>>
  BY <1>8
<1> HIDE DEF Outcomes
<1> QED
  BY <1>2, <1>3, <1>4, <1>5, <1>6, <1>7, <1>8
     DEF Next, ReaderStep, AgentStep, vars, client, pump, ends, agent, Drain,
         StopListening, Answer, Accept, Say, Question, Garble

LEMMA PromiseInit == Init => Promise!Init
BY DEF Init, Promise!Init

LEMMA PromiseStep ==
  TypeInv /\ Honest /\ Outcomes /\ [Next]_vars => [Promise!Next]_(Promise!vars)
<1> SUFFICES ASSUME TypeInv, Honest, Outcomes, [Next]_vars
             PROVE  Promise!Next \/ UNCHANGED Promise!vars
  OBVIOUS
<1> DEFINE Asked_ == {c \in Calls : pc[c] \notin {"new", "guarded"}}
           Gone == ~alive \/ ~stdinOpen
           Same == UNCHANGED <<replied, result>> /\ Asked_' = Asked_ /\ Gone' = Gone
<1>1. /\ pc \in [Calls -> PCs] /\ result \in [Calls -> Results]
      /\ alive \in BOOLEAN /\ stdinOpen \in BOOLEAN
      /\ slot \in [Calls -> {"empty", "reply", "dropped"}]
  BY DEF TypeInv, TypeOK
<1>2. Same => UNCHANGED Promise!vars
  BY DEF Promise!vars
<1>3. ASSUME NEW c \in Calls, Begin(c) \/ CallStep(c) \/ Expire(c) \/ Drop(c)
      PROVE  Promise!Next \/ UNCHANGED Promise!vars
  <2>1. ASSUME NEW l \in PCs, NEW r \in {"ok", "closed", "failed", "timeout", "dropped"},
               pc[c] \notin {"new", "guarded", "unguard", "done"},
               l \notin {"new", "guarded"}, pc' = [pc EXCEPT ![c] = l],
               result' = [result EXCEPT ![c] = r],
               UNCHANGED <<alive, stdinOpen, replied>>,
               r = "ok" => c \in replied,
               r \in {"closed", "failed"} => Gone
        PROVE  Promise!Next
    <3>1. Asked_' = Asked_ /\ c \in Asked_ /\ Gone' = Gone
      BY <1>1, <2>1
    <3>2. result[c] = "none"
      BY <2>1 DEF Outcomes
    <3>3. Promise!End(c, r)
      BY <2>1, <3>1, <3>2 DEF Promise!End
    <3> QED
      BY <3>3 DEF Promise!Next
  <2>2. ASSUME NEW l \in PCs, l \notin {"new", "guarded"}, pc[c] \notin {"new", "guarded"},
               pc' = [pc EXCEPT ![c] = l], UNCHANGED <<result, alive, stdinOpen, replied>>
        PROVE  Same
    BY <1>1, <2>2
  <2>3. CASE GuardOn(c)
    <3>1. Same
      BY <1>1, <2>3 DEF GuardOn, Goto, pump, ends, agent
    <3> QED
      BY <1>2, <3>1
  <2>4. CASE Register(c)
    <3>1. CASE pc[c] \in {"new", "guarded"}
      <4>1. c \notin Asked_ /\ Asked_' = Asked_ \cup {c} /\ Gone' = Gone
        BY <1>1, <2>4, <3>1 DEF Register, Goto, pump, ends
      <4>2. Promise!Ask(c)
        BY <2>4, <4>1 DEF Promise!Ask, Register, agent
      <4> QED
        BY <4>2 DEF Promise!Next
    <3> QED
      BY <2>4, <3>1 DEF Register
  <2>5. CASE Write(c) \/ Expire(c) \/ Quarantine(c) \/ GuardOff(c)
    <3>1. Same
      BY <2>2, <2>5 DEF Write, Expire, Quarantine, GuardOff, Goto, PCs, pump, ends, agent
    <3> QED
      BY <1>2, <3>1
  <2>6. CASE TakeBack(c)
    BY <2>1, <2>6 DEF TakeBack, Leave, Goto, Outcomes, PCs, pump, ends, agent
  <2>7. CASE Answered(c)
    BY <2>1, <2>7 DEF Answered, Leave, Goto, Outcomes, PCs, pump, ends, agent
  <2>8. CASE LetGo(c)
    BY <2>1, <2>8 DEF LetGo, Leave, Goto, Outcomes, PCs, pump, ends, agent
  <2>9. CASE Forget(c)
    <3>1. CASE Kind[c] = "prompt"
      <4>1. Same
        BY <2>2, <2>9, <3>1 DEF Forget, Goto, PCs, pump, ends, agent
      <4> QED
        BY <1>2, <4>1
    <3>2. CASE Kind[c] # "prompt"
      BY <2>1, <2>9, <3>2 DEF Forget, Leave, Goto, PCs, pump, ends, agent
    <3> QED
      BY <3>1, <3>2
  <2>10. CASE Cancel(c)
    BY <2>1, <2>10 DEF Cancel, Leave, Goto, PCs, pump, ends, agent
  <2>11. CASE Drop(c)
    BY <2>1, <2>11 DEF Drop, Goto, PCs, pump, ends, agent
  <2> QED
    BY <1>3, <2>3, <2>4, <2>5, <2>6, <2>7, <2>8, <2>9, <2>10, <2>11 DEF Begin, CallStep
<1>4. CASE StopReading \/ Die
  <2>1. Promise!AgentLeaves
    BY <1>4 DEF StopReading, Die, Promise!AgentLeaves, client, pump, ends, agent
  <2> QED
    BY <2>1 DEF Promise!Next
<1>5. ASSUME NEW c \in Calls, Reply(c) PROVE Promise!Next
  <2>1. c \in Asked_
    BY <1>5 DEF Reply, ActiveAt, Honest, Begun
  <2>2. Promise!AgentAnswers(c)
    BY <1>5, <2>1 DEF Reply, Promise!AgentAnswers, client, pump, ends
  <2> QED
    BY <2>2 DEF Promise!Next
<1>6. ASSUME UNCHANGED <<pc, result, alive, stdinOpen, replied>>
      PROVE  UNCHANGED Promise!vars
  BY <1>2, <1>6
<1> QED
  BY <1>3, <1>4, <1>5, <1>6
     DEF Next, ReaderStep, AgentStep, vars, client, pump, ends, agent, ReadLine,
         EndQuarantine, Complete, CheckReplaying, CheckStale, Asked, Deliver, Clear,
         Announce, Drain, StopListening, Answer, Accept, Say, Question, Garble

(* A request ends at most once, with the agent's own answer to it or with a *)
(* reason that holds: the connection implements what Requests promises.     *)
THEOREM PromiseKept == Spec => ImplementsPromise
<1>1. Init => TypeInv /\ Honest /\ Outcomes /\ Promise!Init
  BY TypeInit, HonestInit, PromiseInit
<1>2. TypeInv /\ Honest /\ Outcomes /\ [Next]_vars
        => TypeInv' /\ Honest' /\ Outcomes' /\ [Promise!Next]_(Promise!vars)
  BY TypeStep, HonestStep, OutcomesStep, PromiseStep
<1> QED
  BY <1>1, <1>2, PTL DEF Spec, ImplementsPromise, Promise!Spec
===========================================================================
