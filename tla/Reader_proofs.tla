---------------------------- MODULE Reader_proofs ----------------------------
(***************************************************************************)
(* What holds of the lines the reader lets through, and of the last of them, *)
(* for every set of calls and sessions, every policy, every channel capacity *)
(* and every agent.                                                         *)
(***************************************************************************)
EXTENDS Connection_proofs

(* The steps that are not the reader's leave the dispatch where it is, and  *)
(* stdout as it was but for what the agent appends.                         *)
LEMMA OthersAppend ==
  ASSUME TypeInv, [Next]_vars, ~ReaderStep
  PROVE  /\ reader' = reader
         /\ \/ stdout' = stdout
            \/ stdoutOpen /\ \E l \in Lines : stdout' = Append(stdout, l)
<1>1. ASSUME NEW c \in Calls, Begin(c) \/ CallStep(c) \/ Expire(c) \/ Drop(c)
      PROVE  UNCHANGED <<reader, stdout>>
  BY <1>1 DEF Begin, CallStep, GuardOn, Register, Write, TakeBack, Answered, LetGo,
     Expire, Forget, Quarantine, Cancel, GuardOff, Drop, pump
<1>2. ASSUME NEW c \in Calls, AgentStep(c)
      PROVE  /\ reader' = reader /\ stdoutOpen
             /\ \E l \in Lines : stdout' = Append(stdout, l)
  <2>1. \A k \in {"reply", "update"} \cup Questions : [kind |-> k, call |-> c] \in Lines
    BY DEF Lines
  <2>2. AskKinds \subseteq Questions
    BY PolicyAssumption
  <2>3. CASE Say(c)
    BY <2>1, <2>3 DEF Say, Speak, pump
  <2>4. CASE Question(c)
    BY <2>1, <2>2, <2>4 DEF Question, Speak, pump
  <2>5. CASE Reply(c)
    BY <2>1, <2>5 DEF Reply, pump
  <2> QED
    BY <1>2, <2>3, <2>4, <2>5 DEF AgentStep
<1>3. CASE Garble
  <2>1. [kind |-> "garbled"] \in Lines
    BY DEF Lines
  <2> QED
    BY <1>3, <2>1 DEF Garble, pump
<1>4. CASE Drain \/ StopListening \/ (\E c \in Calls : Answer(c)) \/ Accept \/ Die
  BY <1>4 DEF Drain, StopListening, Answer, Accept, Die, pump
<1>5. CASE UNCHANGED vars
  BY <1>5 DEF vars, pump
<1> QED
  BY <1>1, <1>2, <1>3, <1>4, <1>5 DEF Next
---------------------------------------------------------------------------
(* Closed comes last.                                                      *)

LEMMA AnnouncedStep == TypeInv /\ ClosedIsLast /\ [Next]_vars => ClosedIsLast'
<1> SUFFICES ASSUME TypeInv, ClosedIsLast, [Next]_vars PROVE ClosedIsLast'
  OBVIOUS
<1> USE DEF ClosedIsLast
<1>1. events \in Seq(Events)
  BY DEF TypeInv, TypeOK
<1>2. ASSUME NEW e \in Events, Surface(e), reader # "done",
             e.kind # "closed" \/ reader' = "done"
      PROVE  ClosedIsLast'
  <2>1. CASE UNCHANGED events
    BY <1>2, <2>1
  <2>2. CASE events' = Append(events, e)
    <3>1. /\ Len(events') = Len(events) + 1 /\ events'[Len(events) + 1] = e
          /\ \A i \in 1..Len(events) : events'[i] = events[i]
      BY <1>1, <2>2
    <3> QED
      BY <1>1, <1>2, <3>1
  <2> QED
    BY <1>2, <2>1, <2>2 DEF Surface
<1>3. CASE Deliver
  <2>1. [kind |-> Line.kind, call |-> Line.call] \in Events
        /\ Line.kind # "closed"
    BY <1>3, LineType DEF Deliver, Events, TypeInv, TypeOK, Dispatching
  <2> QED
    BY <1>2, <1>3, <2>1 DEF Deliver
<1>4. CASE Announce
  <2>1. [kind |-> "closed"] \in Events
    BY DEF Events
  <2> QED
    BY <1>2, <1>4, <2>1 DEF Announce
<1>5. CASE Drain
  <2>1. /\ Len(events') = Len(events) - 1
        /\ \A i \in 1..Len(events') : events'[i] = events[i + 1]
        /\ reader' = reader
    BY <1>1, <1>5, HeadTailProperties DEF Drain
  <2>2. ASSUME NEW i \in 1..Len(events'), events'[i].kind = "closed"
        PROVE  i = Len(events') /\ reader' = "done"
    <3>1. i + 1 \in 1..Len(events) /\ events[i + 1].kind = "closed"
      BY <1>1, <2>1, <2>2
    <3> QED
      BY <1>1, <2>1, <3>1
  <2> QED
    BY <2>2
<1>6. CASE StopListening
  BY <1>6 DEF StopListening
<1>7. ASSUME UNCHANGED events, reader = "done" => reader' = "done"
      PROVE  ClosedIsLast'
  BY <1>7
<1>8. CASE ReadLine \/ StopReading \/ EndQuarantine \/ Complete \/ CheckReplaying
           \/ CheckStale \/ Asked \/ Clear
  <2>1. UNCHANGED events /\ reader # "done"
    BY <1>8 DEF ReadLine, StopReading, EndQuarantine, Complete, CheckReplaying,
                CheckStale, Asked, Clear
  <2> QED
    BY <1>7, <2>1
<1>9. CASE ~ReaderStep /\ ~Drain /\ ~StopListening
  <2>1. UNCHANGED events
    BY <1>9 DEF Next, Begin, CallStep, AgentStep, GuardOn, Register, Write, TakeBack,
       Answered, LetGo, Expire, Forget, Quarantine, Cancel, GuardOff, Drop, Answer,
       Accept, Garble, Die, Say, Question, Reply, pump, vars
  <2> QED
    BY <1>7, <1>9, <2>1, OthersAppend
<1> HIDE DEF ClosedIsLast
<1> QED
  BY <1>3, <1>4, <1>5, <1>6, <1>8, <1>9 DEF ReaderStep

(* Closed is the last event the product hears, and the only one of its kind. *)
THEOREM ClosedComesLast == Spec => []ClosedIsLast
<1>1. Init => TypeInv /\ ClosedIsLast
  BY TypeInit DEF Init, ClosedIsLast
<1>2. TypeInv /\ ClosedIsLast /\ [Next]_vars => TypeInv' /\ ClosedIsLast'
  BY TypeStep, AnnouncedStep
<1> QED
  BY <1>1, <1>2, PTL DEF Spec
---------------------------------------------------------------------------
(* Refused questions.  The only way into "deliver" that is not an update is  *)
(* a permission request under "ask".                                        *)

Unseen ==
  Policy = "refuse" =>
    /\ held = {}
    /\ \A i \in 1..Len(events) : events[i].kind # "permission"
    /\ reader = "deliver" => Line.kind = "update"

LEMMA UnseenStep == TypeInv /\ Unseen /\ [Next]_vars => Unseen'
<1> SUFFICES ASSUME TypeInv, Unseen, [Next]_vars, Policy = "refuse" PROVE Unseen'
  BY DEF Unseen
<1> USE DEF Unseen
<1>1. events \in Seq(Events) /\ stdout \in Seq(Lines)
  BY DEF TypeInv, TypeOK
<1>2. ASSUME NEW e \in Events, Surface(e), e.kind # "permission", UNCHANGED held,
             reader' # "deliver"
      PROVE  Unseen'
  <2>1. CASE UNCHANGED events
    BY <1>2, <2>1
  <2>2. CASE events' = Append(events, e)
    <3>1. /\ Len(events') = Len(events) + 1 /\ events'[Len(events) + 1] = e
          /\ \A i \in 1..Len(events) : events'[i] = events[i]
      BY <1>1, <2>2
    <3> QED
      BY <1>1, <1>2, <3>1
  <2> QED
    BY <1>2, <2>1, <2>2 DEF Surface
<1>3. CASE Deliver
  <2>1. [kind |-> Line.kind, call |-> Line.call] \in Events /\ Line.kind = "update"
    BY <1>3, LineType DEF Deliver, Events, TypeInv, TypeOK, Dispatching
  <2> QED
    BY <1>2, <1>3, <2>1 DEF Deliver, NextLine, app
<1>4. CASE Announce
  <2>1. [kind |-> "closed"] \in Events
    BY DEF Events
  <2> QED
    BY <1>2, <1>4, <2>1 DEF Announce, app
<1>5. CASE Drain
  <2>1. /\ Len(events') = Len(events) - 1
        /\ \A i \in 1..Len(events') : events'[i] = events[i + 1]
        /\ reader' = reader /\ Line' = Line
    BY <1>1, <1>5, HeadTailProperties DEF Drain, Line
  <2>2. \A i \in 1..Len(events') : events'[i].kind # "permission"
    <3> TAKE i \in 1..Len(events')
    <3>1. i + 1 \in 1..Len(events)
      BY <1>1, <2>1
    <3> QED
      BY <2>1, <3>1
  <2>3. events # <<>> /\ Head(events) = events[1] /\ 1 \in 1..Len(events)
    BY <1>1, <1>5 DEF Drain
  <2>4. held' = held
    BY <1>5, <2>3 DEF Drain
  <2> QED
    BY <2>1, <2>2, <2>4
<1>6. CASE StopListening
  BY <1>6 DEF StopListening, Line
<1>7. CASE ReadLine \/ StopReading \/ EndQuarantine \/ Complete \/ CheckReplaying
           \/ CheckStale \/ Asked \/ Clear
  <2>1. UNCHANGED <<events, held>>
    BY <1>7 DEF ReadLine, StopReading, EndQuarantine, Complete, CheckReplaying,
                CheckStale, Asked, Clear, app
  <2>2. reader' = "deliver" => Line'.kind = "update"
    BY <1>7 DEF ReadLine, StopReading, EndQuarantine, Complete, CheckReplaying,
                CheckStale, Asked, Clear, NextLine, Line, TypeInv, Dispatching
  <2> QED
    BY <2>1, <2>2
<1>8. CASE ~ReaderStep /\ ~Drain /\ ~StopListening
  <2>1. UNCHANGED events /\ held' \subseteq held
    BY <1>8 DEF Next, Begin, CallStep, AgentStep, GuardOn, Register, Write, TakeBack,
       Answered, LetGo, Expire, Forget, Quarantine, Cancel, GuardOff, Drop, Answer,
       Accept, Garble, Die, Say, Question, Reply, pump, app, vars
  <2>2. reader' = "deliver" => Line' = Line
    <3>1. reader' = "deliver" => stdout # <<>>
      BY <1>8, OthersAppend DEF TypeInv, Dispatching
    <3> QED
      BY <1>1, <1>8, <3>1, OthersAppend, HeadOfAppend DEF Line
  <2>3. reader' = reader
    BY <1>8, OthersAppend
  <2> QED
    BY <2>1, <2>2, <2>3
<1> HIDE DEF Unseen
<1> QED
  BY <1>3, <1>4, <1>5, <1>6, <1>7, <1>8 DEF ReaderStep

(* Under RefuseAll no question reaches the product, by whatever way.       *)
THEOREM RefusedAreUnseen == Spec => []RefusedUnseen
<1>1. Init => TypeInv /\ Unseen
  BY TypeInit DEF Init, Unseen
<1>2. TypeInv /\ Unseen /\ [Next]_vars => TypeInv' /\ Unseen'
  BY TypeStep, UnseenStep
<1>3. Unseen => RefusedUnseen
  BY DEF Unseen, RefusedUnseen
<1> QED
  BY <1>1, <1>2, <1>3, PTL DEF Spec
---------------------------------------------------------------------------
(* The replay guard.  A session in the set has a load under way that put it  *)
(* there, since a load takes its session out whichever way it ends.         *)

Loading(s) == \E c \in Calls : /\ Kind[c] = "load" /\ Target[c] = s
                              /\ pc[c] \notin {"new", "done"}

GuardsOwned == \A s \in replaying : Loading(s)

LEMMA GuardsStep == TypeInv /\ GuardsOwned /\ [Next]_vars => GuardsOwned'
<1> SUFFICES ASSUME TypeInv, GuardsOwned, [Next]_vars, NEW s \in replaying'
             PROVE  Loading(s)'
  BY DEF GuardsOwned
<1>1. pc \in [Calls -> PCs]
  BY DEF TypeInv, TypeOK
<1> USE CallsAssumption
<1>2. ASSUME s \in replaying,
             \A d \in Calls : Kind[d] = "load" /\ Target[d] = s /\ pc[d] \notin {"new", "done"}
                                => pc'[d] \notin {"new", "done"}
      PROVE  Loading(s)'
  BY <1>2 DEF GuardsOwned, Loading
<1>3. ASSUME NEW c \in Calls, GuardOn(c) PROVE Loading(s)'
  <2>1. pc' = [pc EXCEPT ![c] = "guarded"]
    BY <1>3 DEF GuardOn, Goto
  <2>2. CASE Kind[c] = "load" /\ Target[c] = s
    BY <1>1, <2>1, <2>2 DEF Loading
  <2>3. CASE ~(Kind[c] = "load" /\ Target[c] = s)
    <3>1. s \in replaying
      BY <1>3, <2>3 DEF GuardOn
    <3> QED
      BY <1>1, <1>2, <2>1, <3>1
  <2> QED
    BY <2>2, <2>3
<1>4. ASSUME NEW c \in Calls, GuardOff(c) PROVE Loading(s)'
  BY <1>1, <1>2, <1>4 DEF GuardOff, Goto
<1>5. ASSUME NEW c \in Calls, Register(c) \/ Write(c) \/ TakeBack(c) \/ Answered(c)
               \/ LetGo(c) \/ Forget(c) \/ Quarantine(c) \/ Cancel(c) \/ Expire(c) \/ Drop(c)
      PROVE  Loading(s)'
  BY <1>1, <1>2, <1>5 DEF Register, Write, TakeBack, Answered, LetGo, Forget, Quarantine,
     Cancel, Expire, Drop, Goto, Leave, IsLoad
<1>6. ASSUME UNCHANGED <<pc, replaying>> PROVE Loading(s)'
  BY <1>2, <1>6
<1>7. CASE ReaderStep
  BY <1>6, <1>7 DEF ReaderStep, ReadLine, StopReading, EndQuarantine, Complete,
     CheckReplaying, CheckStale, Asked, Deliver, Clear, Announce, client
<1> QED
  BY <1>3, <1>4, <1>5, <1>6, <1>7 DEF Next, Begin, CallStep, AgentStep, vars, client,
     Drain, StopListening, Answer, Accept, Garble, Die, Say, Question, Reply

LEMMA GuardedReader ==
  ASSUME TypeInv, [Next]_vars, reader = "replaying", reader' # reader
  PROVE  IF Target[Line.call] \in replaying THEN reader' = "read" ELSE reader' = "stale"
<1>1. ReaderStep
  BY OthersAppend
<1> QED
  BY <1>1 DEF ReaderStep, ReadLine, StopReading, EndQuarantine, Complete,
     CheckReplaying, CheckStale, Asked, Deliver, Clear, Announce, NextLine

(* However many loads of a session overlap and however each of them ends,   *)
(* the session is muted only while one that suppresses its replay is under  *)
(* way.                                                                    *)
THEOREM MutedNoLonger == Spec => MutedOnlyWhileLoading
<1>1. Init => TypeInv /\ GuardsOwned
  BY TypeInit DEF Init, GuardsOwned
<1>2. TypeInv /\ GuardsOwned /\ [Next]_vars => TypeInv' /\ GuardsOwned'
  BY TypeStep, GuardsStep
<1>3. TypeInv /\ GuardsOwned /\ [Next]_vars =>
        [reader = "replaying" /\ reader' = "read" =>
           \E c \in Calls : /\ Kind[c] = "load" /\ Target[c] = Target[Line.call]
                            /\ pc[c] \notin {"new", "done"}]_vars
  BY GuardedReader DEF GuardsOwned, Loading
<1> QED
  BY <1>1, <1>2, <1>3, PTL DEF Spec, MutedOnlyWhileLoading

(* What a product must keep to for history to stay suppressed: no session   *)
(* is loaded twice.  The guard is a set, not a count.                       *)
OneLoadEach ==
  \A c, d \in Calls : IsLoad(c) /\ IsLoad(d) /\ Target[c] = Target[d] => c = d

GuardsUp ==
  \A c \in Calls :
    /\ pc[c] = "unguard" => IsLoad(c)
    /\ Kind[c] = "load" /\ pc[c] \notin {"new", "done"} => Target[c] \in replaying

LEMMA GuardsUpStep ==
  ASSUME OneLoadEach
  PROVE  TypeInv /\ GuardsUp /\ [Next]_vars => GuardsUp'
<1> SUFFICES ASSUME TypeInv, GuardsUp, [Next]_vars, NEW d \in Calls
             PROVE  /\ pc'[d] = "unguard" => IsLoad(d)
                    /\ Kind[d] = "load" /\ pc'[d] \notin {"new", "done"}
                         => Target[d] \in replaying'
  BY DEF GuardsUp, IsLoad
<1> DEFINE Goal == /\ pc'[d] = "unguard" => IsLoad(d)
                   /\ Kind[d] = "load" /\ pc'[d] \notin {"new", "done"}
                        => Target[d] \in replaying'
<1>1. pc \in [Calls -> PCs]
  BY DEF TypeInv, TypeOK
<1>2. ASSUME replaying' = replaying, pc'[d] = pc[d] PROVE Goal
  BY <1>2 DEF GuardsUp
<1>3. ASSUME NEW c \in Calls, GuardOn(c) \/ GuardOff(c) PROVE Goal
  <2>1. CASE c = d
    BY <1>1, <1>3, <2>1 DEF GuardOn, GuardOff, Goto
  <2>2. CASE c # d
    <3>1. pc'[d] = pc[d]
      BY <1>1, <1>3, <2>2 DEF GuardOn, GuardOff, Goto
    <3>2. IsLoad(c)
      BY <1>3 DEF GuardOn, GuardOff, GuardsUp
    <3>3. Kind[d] = "load" => Target[c] # Target[d]
      BY <2>2, <3>2 DEF OneLoadEach, IsLoad
    <3>4. Kind[d] = "load" /\ Target[d] \in replaying => Target[d] \in replaying'
      BY <1>3, <3>3 DEF GuardOn, GuardOff
    <3> QED
      BY <3>1, <3>4 DEF GuardsUp
  <2> QED
    BY <2>1, <2>2
<1>4. ASSUME NEW c \in Calls, Register(c) \/ Write(c) \/ TakeBack(c) \/ Answered(c)
               \/ LetGo(c) \/ Forget(c) \/ Quarantine(c) \/ Cancel(c) \/ Expire(c) \/ Drop(c)
      PROVE  Goal
  <2>1. replaying' = replaying
    BY <1>4 DEF Register, Write, TakeBack, Answered, LetGo, Forget, Quarantine, Cancel,
                Expire, Drop
  <2>2. CASE c = d
    <3>1. pc'[d] = "unguard" => IsLoad(d)
      BY <1>1, <1>4, <2>2 DEF Register, Write, TakeBack, Answered, LetGo, Forget,
         Quarantine, Cancel, Expire, Drop, Goto, Leave
    <3>2. Kind[d] = "load" => pc[d] \notin {"new", "done"}
      BY <1>4, <2>2 DEF Register, Write, TakeBack, Answered, LetGo, Forget, Quarantine,
         Cancel, Expire, Drop, IsLoad
    <3> QED
      BY <2>1, <3>1, <3>2 DEF GuardsUp
  <2>3. CASE c # d
    <3>1. pc'[d] = pc[d]
      BY <1>1, <1>4, <2>3 DEF Register, Write, TakeBack, Answered, LetGo, Forget,
         Quarantine, Cancel, Expire, Drop, Goto, Leave
    <3> QED
      BY <1>2, <2>1, <3>1
  <2> QED
    BY <2>2, <2>3
<1>5. CASE ReaderStep
  BY <1>2, <1>5 DEF ReaderStep, ReadLine, StopReading, EndQuarantine, Complete,
     CheckReplaying, CheckStale, Asked, Deliver, Clear, Announce, client
<1>6. CASE UNCHANGED <<pc, replaying>>
  BY <1>2, <1>6
<1> QED
  BY <1>3, <1>4, <1>5, <1>6 DEF Next, Begin, CallStep, AgentStep, vars, client,
     Drain, StopListening, Answer, Accept, Garble, Die, Say, Question, Reply

(* If no session is loaded twice, no line of the history a load makes the   *)
(* agent repeat is let through while that load is in flight.               *)
THEOREM HistoryStaysBack ==
  ASSUME OneLoadEach
  PROVE  Spec => HistorySuppressed
<1>1. Init => TypeInv /\ GuardsUp
  BY TypeInit DEF Init, GuardsUp
<1>2. TypeInv /\ GuardsUp /\ [Next]_vars => TypeInv' /\ GuardsUp'
  BY TypeStep, GuardsUpStep
<1>3. TypeInv /\ GuardsUp /\ [Next]_vars =>
        [reader = "replaying" /\ reader' = "stale" /\ Kind[Line.call] = "load" =>
           pc[Line.call] \notin {"registered", "unsent", "waiting", "expired"}]_vars
  <2> SUFFICES ASSUME TypeInv, GuardsUp, [Next]_vars, reader = "replaying",
                      reader' = "stale", Kind[Line.call] = "load"
               PROVE  pc[Line.call] \notin {"registered", "unsent", "waiting", "expired"}
    OBVIOUS
  <2>1. Line.call \in Calls
    BY LineType DEF TypeInv, TypeOK, Dispatching
  <2>2. Target[Line.call] \notin replaying
    BY GuardedReader
  <2> QED
    BY <2>1, <2>2 DEF GuardsUp
<1> QED
  BY <1>1, <1>2, <1>3, PTL DEF Spec, HistorySuppressed
---------------------------------------------------------------------------
(* Answers and death.  A reply that has been written and not been dispatched *)
(* is still in stdout, and the reader stops only once stdout is empty and    *)
(* nobody can write to it.                                                 *)

Replying(c) == \E i \in 1..Len(stdout) : stdout[i].kind = "reply" /\ stdout[i].call = c

HeardOut ==
  /\ \A c \in Calls : c \in replied => pc[c] \notin {"new", "guarded"}
  /\ \A c \in Calls : c \in replied /\ c \in pending => Replying(c)
  /\ reader \in {"clear", "announce", "done"} /\ ~MayGarble => stdout = <<>>
  /\ \A c \in Calls : slot[c] = "dropped" => reader \in {"announce", "done"}
  /\ AnswerBeatsDeath

LEMMA ReplyingOn ==
  ASSUME stdout \in Seq(Lines), NEW c \in Calls, Replying(c),
         \/ stdout' = stdout
         \/ \E l \in Lines : stdout' = Append(stdout, l)
         \/ stdout # <<>> /\ stdout' = Tail(stdout) /\ ~(Line.kind = "reply" /\ Line.call = c)
  PROVE  Replying(c)'
<1> PICK i \in 1..Len(stdout) : stdout[i].kind = "reply" /\ stdout[i].call = c
  BY DEF Replying
<1>1. CASE stdout' = stdout
  BY <1>1 DEF Replying
<1>2. ASSUME NEW l \in Lines, stdout' = Append(stdout, l) PROVE Replying(c)'
  <2>1. i \in 1..Len(stdout') /\ stdout'[i] = stdout[i]
    BY <1>2
  <2> QED
    BY <2>1 DEF Replying
<1>3. CASE stdout # <<>> /\ stdout' = Tail(stdout) /\ ~(Line.kind = "reply" /\ Line.call = c)
  <2>1. i # 1
    BY <1>3 DEF Line
  <2>2. i - 1 \in 1..Len(stdout') /\ stdout'[i - 1] = stdout[i]
    BY <1>3, <2>1, HeadTailProperties
  <2> QED
    BY <2>2 DEF Replying
<1> QED
  BY <1>1, <1>2, <1>3

LEMMA HeardOutStep ==
  TypeInv /\ CleanEnd /\ Honest /\ HeardOut /\ [Next]_vars => HeardOut'
<1> SUFFICES ASSUME TypeInv, CleanEnd, Honest, HeardOut, [Next]_vars PROVE HeardOut'
  OBVIOUS
<1> USE DEF HeardOut, AnswerBeatsDeath
<1>1. /\ pc \in [Calls -> PCs] /\ stdout \in Seq(Lines) /\ pending \subseteq Calls
      /\ slot \in [Calls -> {"empty", "reply", "dropped"}]
  BY DEF TypeInv, TypeOK
<1>2. ASSUME NEW c \in Calls, Begin(c) \/ CallStep(c) \/ Expire(c) \/ Drop(c)
      PROVE  HeardOut'
  <2>1. UNCHANGED <<slot, reader, stdout, replied>>
    BY <1>2 DEF Begin, CallStep, GuardOn, Register, Write, TakeBack, Answered, LetGo,
       Expire, Forget, Quarantine, Cancel, GuardOff, Drop, pump, agent
  <2>2. \A d \in Calls : d \in replied =>
          pc'[d] \notin {"new", "guarded"} /\ (d \in pending' => d \in pending)
    BY <1>1, <1>2 DEF Begin, CallStep, GuardOn, Register, Write, TakeBack, Answered, LetGo,
       Expire, Forget, Quarantine, Cancel, GuardOff, Drop, Goto, Leave
  <2>3. \A d \in Calls : Replying(d) => Replying(d)'
    BY <1>1, <2>1, ReplyingOn
  <2> QED
    BY <2>1, <2>2, <2>3
<1>3. CASE StopReading
  <2>1. ~MayGarble => stdout = <<>>
    <3>1. stdout # <<>> => 1 \in 1..Len(stdout) /\ stdout[1] = Line
      BY <1>1 DEF Line
    <3> QED
      BY <1>3, <3>1 DEF StopReading, CleanEnd
  <2>2. UNCHANGED <<pc, slot, pending, stdout, replied>> /\ reader = "read"
    BY <1>3 DEF StopReading, client, agent
  <2>3. \A d \in Calls : Replying(d) => Replying(d)'
    BY <1>1, <2>2, ReplyingOn
  <2> QED
    BY <2>1, <2>2, <2>3
<1>4. CASE Complete
  <2>1. /\ stdout # <<>> /\ stdout' = Tail(stdout) /\ reader' = "read"
        /\ pending' = pending \ {Line.call} /\ UNCHANGED <<pc, replied>>
        /\ \A d \in Calls : slot'[d] \in {slot[d], "reply"}
        /\ reader = "complete"
    BY <1>1, <1>4 DEF Complete, NextLine, TypeInv, Dispatching, agent
  <2>2. \A d \in Calls : d # Line.call /\ Replying(d) => Replying(d)'
    BY <1>1, <2>1, ReplyingOn
  <2>3. \A d \in Calls : slot'[d] # "dropped"
    BY <2>1
  <2>4. \A d \in Calls : d \in replied' /\ d \in pending' => Replying(d)'
    BY <2>1, <2>2
  <2>5. replied' \subseteq Calls
    BY <2>1 DEF TypeInv, TypeOK
  <2> QED
    BY <2>1, <2>3, <2>4, <2>5
<1>5. CASE CheckReplaying \/ CheckStale \/ Asked \/ Deliver
  <2>1. /\ stdout # <<>> /\ Line.kind # "reply" /\ (stdout' = stdout \/ stdout' = Tail(stdout))
        /\ UNCHANGED <<pc, pending, replied, slot>>
        /\ reader' \notin {"clear", "announce", "done"}
        /\ reader \notin {"clear", "announce", "done"}
    BY <1>5 DEF CheckReplaying, CheckStale, Asked, Deliver, NextLine, TypeInv, Dispatching,
       Questions, client, agent
  <2>2. \A d \in Calls : Replying(d) => Replying(d)'
    BY <1>1, <2>1, ReplyingOn
  <2> QED
    BY <2>1, <2>2
<1>6. CASE ReadLine \/ EndQuarantine
  <2>1. /\ UNCHANGED <<pc, pending, replied, slot, stdout>>
        /\ reader' \notin {"clear", "announce", "done"}
        /\ reader \notin {"clear", "announce", "done"}
    BY <1>6 DEF ReadLine, EndQuarantine, client, agent
  <2>2. \A d \in Calls : Replying(d) => Replying(d)'
    BY <1>1, <2>1, ReplyingOn
  <2> QED
    BY <2>1, <2>2
<1>7. CASE Clear
  <2>1. /\ UNCHANGED <<pc, replied, stdout>> /\ pending' = {}
        /\ reader = "clear" /\ reader' = "announce"
        /\ \A d \in Calls : slot'[d] = IF d \in pending THEN "dropped" ELSE slot[d]
    BY <1>7 DEF Clear, agent
  <2>2. ASSUME ~MayGarble, NEW d \in replied, d \in pending PROVE FALSE
    <3>1. stdout = <<>> /\ Replying(d)
      BY <1>1, <2>1, <2>2
    <3> QED
      BY <3>1 DEF Replying
  <2>3. replied \subseteq Calls
    BY DEF TypeInv, TypeOK
  <2> QED
    BY <2>1, <2>2, <2>3
<1>8. CASE Announce
  <2>1. /\ UNCHANGED <<pc, replied, stdout, pending, slot>>
        /\ reader = "announce" /\ reader' = "done"
    BY <1>8 DEF Announce, client, agent
  <2>2. \A d \in Calls : Replying(d) => Replying(d)'
    BY <1>1, <2>1, ReplyingOn
  <2> QED
    BY <2>1, <2>2
<1>9. ASSUME ~ReaderStep, UNCHANGED <<pc, pending, replied, slot>> PROVE HeardOut'
  <2>1. \A d \in Calls : Replying(d) => Replying(d)'
    BY <1>1, <1>9, OthersAppend, ReplyingOn
  <2>2. reader' \in {"clear", "announce", "done"} /\ ~MayGarble => stdout' = stdout
    BY <1>9, OthersAppend DEF CleanEnd
  <2>3. reader' = reader
    BY <1>9, OthersAppend
  <2> QED
    BY <1>9, <2>1, <2>2, <2>3
<1>10. ASSUME NEW c \in Calls, Reply(c) PROVE HeardOut'
  <2>1. /\ UNCHANGED <<pc, pending, slot, reader>> /\ replied' = replied \cup {c}
        /\ stdoutOpen /\ stdout' = Append(stdout, [kind |-> "reply", call |-> c])
    BY <1>10 DEF Reply, client, pump
  <2>2. c \in Begun
    BY <1>10 DEF Reply, ActiveAt, Honest
  <2>3. [kind |-> "reply", call |-> c] \in Lines
    BY DEF Lines
  <2>4. \A d \in Calls : Replying(d) => Replying(d)'
    BY <1>1, <2>1, <2>3, ReplyingOn
  <2>5. Replying(c)'
    <3>1. /\ Len(stdout) + 1 \in 1..Len(stdout')
          /\ stdout'[Len(stdout) + 1] = [kind |-> "reply", call |-> c]
      BY <1>1, <2>1, <2>3
    <3> QED
      BY <3>1 DEF Replying
  <2>6. reader \in {"clear", "announce", "done"} => MayGarble
    BY <2>1 DEF CleanEnd
  <2> QED
    BY <2>1, <2>2, <2>4, <2>5, <2>6 DEF Begun
<1>11. CASE ReaderStep
  BY <1>3, <1>4, <1>5, <1>6, <1>7, <1>8, <1>11 DEF ReaderStep
<1>12. CASE ~ReaderStep
  <2>1. ASSUME NEW c \in Calls, Say(c) \/ Question(c) \/ Answer(c)
        PROVE  UNCHANGED <<pc, pending, replied, slot>>
    BY <2>1 DEF Say, Question, Answer, client, agent
  <2>2. CASE Drain \/ StopListening \/ Accept \/ Garble \/ Die
    BY <1>9, <1>12, <2>2 DEF Drain, StopListening, Accept, Garble, Die, client, agent
  <2>3. CASE UNCHANGED vars
    BY <1>9, <1>12, <2>3 DEF vars, client, agent
  <2> HIDE DEF HeardOut
  <2> QED
    BY <1>2, <1>9, <1>10, <1>12, <2>1, <2>2, <2>3 DEF Next, AgentStep
<1> QED
  BY <1>11, <1>12

LEMMA Heard == Spec => [](TypeInv /\ CleanEnd /\ Honest /\ HeardOut)
<1>1. Init => TypeInv /\ CleanEnd /\ Honest /\ HeardOut
  BY TypeInit, WaitInit, HonestInit DEF WaitInv, Init, HeardOut, AnswerBeatsDeath
<1>2. TypeInv /\ CleanEnd /\ Honest /\ HeardOut /\ [Next]_vars
        => TypeInv' /\ CleanEnd' /\ Honest' /\ HeardOut'
  BY TypeStep, CleanEndStep, HonestStep, HeardOutStep
<1> QED
  BY <1>1, <1>2, PTL DEF Spec

(* An answer the agent managed to write is never reported as a connection   *)
(* that closed, if it prints only UTF-8.                                   *)
THEOREM AnswersBeatDeath == Spec => []AnswerBeatsDeath
<1>1. HeardOut => AnswerBeatsDeath
  BY DEF HeardOut
<1> QED
  BY <1>1, Heard, PTL

(* The map holds no slot but those of tasks still holding their receiver,   *)
(* and of dropped futures whose reply the reader has yet to come to.        *)
THEOREM SlotsAreOwned == Spec => []PendingOwned
<1>1. TypeInv /\ WaitInv /\ HeardOut => PendingOwned
  BY DEF WaitInv, SlotsOwned, HeardOut, PendingOwned, Replying, ReplyToCome, TypeInv, TypeOK
<1> QED
  BY <1>1, Heard, Waits, PTL
---------------------------------------------------------------------------
(* Stale words.  A request travels once: from its writing to stdin, from     *)
(* stdin to the agent's work, and from there to its one reply.  So an agent  *)
(* that has replied to a turn has nothing more to say about it, and by the   *)
(* time the reply ends the quarantine no word of the turn is left in stdout. *)

Unwritten == {"new", "guarded", "registered"}

Once ==
  /\ \A i, j \in 1..Len(stdin) :
       stdin[i].kind = "request" /\ stdin[j].kind = "request" /\ stdin[i].call = stdin[j].call
         => i = j
  /\ \A i, j \in 1..Len(work) : work[i] = work[j] => i = j
  /\ \A i \in 1..Len(stdin) : stdin[i].kind = "request" =>
       /\ pc[stdin[i].call] \notin Unwritten /\ stdin[i].call \notin replied
       /\ \A j \in 1..Len(work) : work[j] # stdin[i].call
  /\ \A j \in 1..Len(work) : pc[work[j]] \notin Unwritten /\ work[j] \notin replied
  /\ \A c \in replied : pc[c] \notin Unwritten

Without(s, i) == SubSeq(s, 1, i - 1) \o SubSeq(s, i + 1, Len(s))

LEMMA RemoveAtElements ==
  ASSUME NEW S, NEW s \in Seq(S), NEW i \in 1..Len(s)
  PROVE  /\ Len(Without(s, i)) = Len(s) - 1
         /\ \A k \in 1..(Len(s) - 1) :
              Without(s, i)[k] = IF k < i THEN s[k] ELSE s[k + 1]
<1>0. Len(s) \in Nat /\ i \in Nat /\ i >= 1 /\ i <= Len(s)
  BY LenProperties
<1> DEFINE t == Without(s, i)
<1> DEFINE a == SubSeq(s, 1, i - 1)
           b == SubSeq(s, i + 1, Len(s))
<1>1. a \in Seq(S) /\ Len(a) = i - 1 /\ \A k \in 1..(i - 1) : a[k] = s[k]
  BY SubSeqProperties
<1>2. b \in Seq(S) /\ Len(b) = Len(s) - i /\ \A k \in 1..(Len(s) - i) : b[k] = s[i + k]
  BY SubSeqProperties
<1>3. Len(a \o b) = Len(a) + Len(b)
      /\ \A k \in 1..(Len(a) + Len(b)) :
           (a \o b)[k] = IF k <= Len(a) THEN a[k] ELSE b[k - Len(a)]
  BY <1>1, <1>2, ConcatProperties
<1>4. t = a \o b
  BY DEF Without
<1> HIDE DEF a, b, t
<1>5. Len(t) = Len(s) - 1
  <2>1. Len(t) = Len(a) + Len(b)
    BY <1>3, <1>4, Zenon
  <2> QED
    BY <1>0, <1>1, <1>2, <2>1
<1>6. ASSUME NEW k \in 1..(Len(s) - 1) PROVE t[k] = IF k < i THEN s[k] ELSE s[k + 1]
  <2>1. CASE k < i
    BY <1>0, <1>1, <1>2, <1>3, <1>4, <2>1
  <2>2. CASE ~(k < i)
    <3>1. k - Len(a) \in 1..(Len(s) - i) /\ i + (k - Len(a)) = k + 1
      BY <1>0, <1>1, <2>2
    <3>2. k \in 1..(Len(a) + Len(b)) /\ ~(k <= Len(a))
      BY <1>0, <1>1, <1>2, <2>2
    <3>3. t[k] = b[k - Len(a)]
      BY <1>3, <1>4, <3>2
    <3> QED
      BY <1>2, <2>2, <3>1, <3>3
  <2> QED
    BY <2>1, <2>2
<1> QED
  BY <1>5, <1>6 DEF t

LEMMA OnceStep == TypeInv /\ Once /\ [Next]_vars => Once'
<1> SUFFICES ASSUME TypeInv, Once, [Next]_vars PROVE Once'
  OBVIOUS
<1> USE DEF Once, Unwritten
<1>1. /\ pc \in [Calls -> PCs] /\ stdin \in Seq(Frames) /\ work \in Seq(Calls)
      /\ replied \subseteq Calls
  BY DEF TypeInv, TypeOK
<1>2. /\ \A i \in 1..Len(stdin) : stdin[i].call \in Calls
      /\ \A i \in 1..Len(work) : work[i] \in Calls
  <2>1. \A i \in 1..Len(stdin) : stdin[i] \in Frames
    BY <1>1, ElementOfSeq
  <2>2. \A f \in Frames : f.call \in Calls
    BY DEF Frames
  <2>3. \A i \in 1..Len(work) : work[i] \in Calls
    BY <1>1, ElementOfSeq
  <2> QED
    BY <2>1, <2>2, <2>3
<1>3. ASSUME UNCHANGED <<work, replied>>,
             \A c \in Calls : pc[c] \notin Unwritten => pc'[c] \notin Unwritten,
             \/ stdin' = stdin
             \/ \E f \in Frames : stdin' = Append(stdin, f) /\ f.kind # "request"
      PROVE  Once'
  <2>1. CASE stdin' = stdin
    BY <1>1, <1>2, <1>3, <2>1
  <2>2. ASSUME NEW f \in Frames, stdin' = Append(stdin, f), f.kind # "request"
        PROVE  Once'
    <3>1. /\ Len(stdin') = Len(stdin) + 1 /\ stdin'[Len(stdin) + 1] = f
          /\ \A i \in 1..Len(stdin) : stdin'[i] = stdin[i]
      BY <1>1, <2>2
    <3>2. \A i \in 1..Len(stdin') : stdin'[i].kind = "request" =>
            i \in 1..Len(stdin) /\ stdin'[i] = stdin[i]
      BY <1>1, <2>2, <3>1
    <3> QED
      BY <1>1, <1>2, <1>3, <3>2
  <2> QED
    BY <1>3, <2>1, <2>2
<1>4. ASSUME NEW c \in Calls, Write(c) PROVE Once'
  <2>1. /\ pc[c] = "registered" /\ UNCHANGED <<work, replied>>
        /\ \A d \in Calls : pc'[d] = IF d = c THEN IF stdinOpen THEN "waiting" ELSE "unsent"
                                              ELSE pc[d]
    BY <1>1, <1>4 DEF Write, Goto, agent
  <2>2. \A d \in Calls : pc[d] \notin Unwritten => pc'[d] \notin Unwritten
    BY <2>1
  <2>3. CASE stdin' = stdin
    BY <1>3, <2>1, <2>2, <2>3
  <2>4. CASE stdin' = Append(stdin, Frame("request", c))
    <3>1. Frame("request", c) \in Frames
      BY FrameType
    <3>2. /\ Len(stdin') = Len(stdin) + 1
          /\ stdin'[Len(stdin) + 1].kind = "request" /\ stdin'[Len(stdin) + 1].call = c
          /\ \A i \in 1..Len(stdin) : stdin'[i] = stdin[i]
      BY <1>1, <2>4, <3>1 DEF Frame
    <3>3. /\ \A i \in 1..Len(stdin) : stdin[i].kind = "request" => stdin[i].call # c
          /\ \A i \in 1..Len(work) : work[i] # c
          /\ c \notin replied /\ pc'[c] \notin Unwritten
      BY <1>1, <2>1
    <3>4. \A i \in 1..Len(stdin') : i \in 1..Len(stdin) \/ i = Len(stdin) + 1
      BY <1>1, <3>2
    <3>5. \A i, j \in 1..Len(stdin') :
            stdin'[i].kind = "request" /\ stdin'[j].kind = "request"
              /\ stdin'[i].call = stdin'[j].call => i = j
      BY <3>2, <3>3, <3>4
    <3>6. ASSUME NEW i \in 1..Len(stdin'), stdin'[i].kind = "request"
          PROVE  /\ pc'[stdin'[i].call] \notin Unwritten /\ stdin'[i].call \notin replied'
                 /\ \A j \in 1..Len(work') : work'[j] # stdin'[i].call
      <4>1. CASE i = Len(stdin) + 1
        BY <2>1, <3>2, <3>3, <4>1
      <4>2. CASE i \in 1..Len(stdin)
        <5>1. stdin'[i] = stdin[i] /\ stdin[i].call \in Calls
          BY <1>2, <3>2, <4>2
        <5> QED
          BY <2>1, <2>2, <3>6, <4>2, <5>1
      <4> QED
        BY <3>4, <4>1, <4>2
    <3>7. \A j \in 1..Len(work') : pc'[work'[j]] \notin Unwritten /\ work'[j] \notin replied'
      BY <1>2, <2>1, <2>2
    <3>8. \A d \in replied' : pc'[d] \notin Unwritten
      BY <1>1, <2>1, <2>2
    <3> QED
      BY <2>1, <3>5, <3>6, <3>7, <3>8
  <2> QED
    BY <1>4, <2>3, <2>4 DEF Write, Send
<1>5. ASSUME NEW c \in Calls, Begin(c) \/ CallStep(c) \/ Expire(c) \/ Drop(c), ~Write(c)
      PROVE  Once'
  <2>1. UNCHANGED <<work, replied>>
    BY <1>5 DEF Begin, CallStep, GuardOn, Register, TakeBack, Answered, LetGo,
       Expire, Forget, Quarantine, Cancel, GuardOff, Drop, agent
  <2>2. \A d \in Calls : pc[d] \notin Unwritten => pc'[d] \notin Unwritten
    BY <1>1, <1>5 DEF Begin, CallStep, GuardOn, Register, TakeBack, Answered, LetGo,
       Expire, Forget, Quarantine, Cancel, GuardOff, Drop, Goto, Leave
  <2>3. \/ stdin' = stdin
        \/ \E f \in Frames : stdin' = Append(stdin, f) /\ f.kind # "request"
    <3>1. Frame("cancel", c) \in Frames /\ Frame("cancel", c).kind # "request"
      BY FrameType DEF Frame
    <3> QED
      BY <1>5, <3>1 DEF Begin, CallStep, GuardOn, Register, TakeBack, Answered, LetGo,
         Expire, Forget, Quarantine, Cancel, GuardOff, Drop, Send
  <2> QED
    BY <1>3, <2>1, <2>2, <2>3
<1>6. ASSUME UNCHANGED <<pc, work, replied>>,
             stdin' = stdin \/ \E c \in Calls : Send(Frame("answer", c))
      PROVE  Once'
  <2>1. \A c \in Calls : Frame("answer", c) \in Frames /\ Frame("answer", c).kind # "request"
    BY FrameType DEF Frame
  <2> QED
    BY <1>3, <1>6, <2>1 DEF Send
<1>7. CASE ReaderStep
  <2>1. UNCHANGED <<pc, work, replied>>
    BY <1>7 DEF ReaderStep, ReadLine, StopReading, EndQuarantine, Complete, CheckReplaying,
       CheckStale, Asked, Deliver, Clear, Announce, client, agent
  <2>2. CASE Asked
    <3>1. Line.call \in Calls
      BY <2>2, LineType DEF Asked, TypeInv, TypeOK, Dispatching, Questions
    <3> QED
      BY <1>6, <2>1, <2>2, <3>1 DEF Asked
  <2>3. CASE ~Asked
    <3>1. stdin' = stdin
      BY <1>7, <2>3 DEF ReaderStep, ReadLine, StopReading, EndQuarantine, Complete,
         CheckReplaying, CheckStale, Deliver, Clear, Announce
    <3> QED
      BY <1>6, <2>1, <3>1
  <2> QED
    BY <2>2, <2>3
<1>8. ASSUME NEW c \in Calls, Say(c) \/ Question(c) \/ Answer(c) PROVE Once'
  BY <1>6, <1>8 DEF Say, Question, Answer, client, agent
<1>9. CASE Drain \/ StopListening \/ Garble \/ UNCHANGED vars
  BY <1>6, <1>9 DEF Drain, StopListening, Garble, vars, client, agent
<1>10. CASE Accept
  <2>1. /\ stdin # <<>> /\ stdin' = Tail(stdin) /\ UNCHANGED <<pc, replied>>
        /\ Head(stdin) = stdin[1]
    BY <1>1, <1>10 DEF Accept, client
  <2>2. /\ Len(stdin') = Len(stdin) - 1
        /\ \A i \in 1..Len(stdin') : i + 1 \in 1..Len(stdin) /\ stdin'[i] = stdin[i + 1]
    BY <1>1, <2>1, HeadTailProperties
  <2>3. CASE stdin[1].kind = "request"
    <3> DEFINE c == stdin[1].call
    <3>1. work' = Append(work, c) /\ c \in Calls /\ 1 \in 1..Len(stdin)
      BY <1>1, <1>2, <1>10, <2>1, <2>3 DEF Accept
    <3>2. /\ Len(work') = Len(work) + 1 /\ work'[Len(work) + 1] = c
          /\ \A i \in 1..Len(work) : work'[i] = work[i]
      BY <1>1, <3>1
    <3>3. /\ pc[c] \notin Unwritten /\ c \notin replied
          /\ \A j \in 1..Len(work) : work[j] # c
          /\ \A i \in 1..Len(stdin') : stdin'[i].kind = "request" => stdin'[i].call # c
      <4>1. pc[c] \notin Unwritten /\ c \notin replied /\ \A j \in 1..Len(work) : work[j] # c
        BY <2>3, <3>1
      <4>2. ASSUME NEW i \in 1..Len(stdin'), stdin'[i].kind = "request", stdin'[i].call = c
            PROVE  FALSE
        <5>1. i + 1 = 1
          BY <2>2, <2>3, <3>1, <4>2
        <5> QED
          BY <1>1, <5>1
      <4> QED
        BY <4>1, <4>2
    <3> HIDE DEF c
    <3>4. \A i, j \in 1..Len(work') : work'[i] = work'[j] => i = j
      BY <1>1, <3>2, <3>3
    <3>5. \A j \in 1..Len(work') : pc'[work'[j]] \notin Unwritten /\ work'[j] \notin replied'
      BY <1>1, <2>1, <3>2, <3>3
    <3>6. \A i \in 1..Len(stdin') : stdin'[i].kind = "request" =>
            /\ pc'[stdin'[i].call] \notin Unwritten /\ stdin'[i].call \notin replied'
            /\ \A j \in 1..Len(work') : work'[j] # stdin'[i].call
      <4> SUFFICES ASSUME NEW i \in 1..Len(stdin'), stdin'[i].kind = "request"
                   PROVE  /\ pc[stdin'[i].call] \notin Unwritten
                          /\ stdin'[i].call \notin replied
                          /\ \A j \in 1..Len(work') : work'[j] # stdin'[i].call
        BY <2>1
      <4>1. i + 1 \in 1..Len(stdin) /\ stdin'[i] = stdin[i + 1]
        BY <2>2
      <4>2. /\ pc[stdin'[i].call] \notin Unwritten /\ stdin'[i].call \notin replied
            /\ \A j \in 1..Len(work) : work[j] # stdin'[i].call
        BY <4>1
      <4>3. \A j \in 1..Len(work') : j \in 1..Len(work) \/ j = Len(work) + 1
        BY <1>1, <3>2
      <4> QED
        BY <3>2, <3>3, <4>2, <4>3
    <3>7. \A i, j \in 1..Len(stdin') :
            stdin'[i].kind = "request" /\ stdin'[j].kind = "request"
              /\ stdin'[i].call = stdin'[j].call => i = j
      <4> TAKE i, j \in 1..Len(stdin')
      <4>1. (stdin[i + 1].kind = "request" /\ stdin[j + 1].kind = "request"
               /\ stdin[i + 1].call = stdin[j + 1].call) => i + 1 = j + 1
        BY <2>2
      <4> QED
        BY <2>2, <4>1
    <3> QED
      BY <2>1, <3>4, <3>5, <3>6, <3>7
  <2>4. CASE stdin[1].kind # "request"
    <3>1. work' = work
      BY <1>10, <2>1, <2>4 DEF Accept
    <3>2. \A i, j \in 1..Len(stdin') :
            stdin'[i].kind = "request" /\ stdin'[j].kind = "request"
              /\ stdin'[i].call = stdin'[j].call => i = j
      <4> TAKE i, j \in 1..Len(stdin')
      <4>1. (stdin[i + 1].kind = "request" /\ stdin[j + 1].kind = "request"
               /\ stdin[i + 1].call = stdin[j + 1].call) => i + 1 = j + 1
        BY <2>2
      <4> QED
        BY <2>2, <4>1
    <3> QED
      BY <2>1, <2>2, <3>1, <3>2
  <2> QED
    BY <2>3, <2>4
<1>11. ASSUME NEW c \in Calls, Reply(c) PROVE Once'
  <2>1. PICK i \in 1..Len(work) :
          /\ work[i] = c
          /\ work' = Without(work, i)
    BY <1>11 DEF Reply, ActiveAt, Without
  <2>2. /\ Len(work') = Len(work) - 1 /\ Len(work) \in Nat
        /\ \A k \in 1..Len(work') : work'[k] = IF k < i THEN work[k] ELSE work[k + 1]
    <3>1. /\ Len(Without(work, i)) = Len(work) - 1
          /\ \A k \in 1..(Len(work) - 1) :
               Without(work, i)[k] = IF k < i THEN work[k] ELSE work[k + 1]
      BY <1>1, RemoveAtElements
    <3>2. Len(work) \in Nat
      BY <1>1, LenProperties
    <3> QED
      BY <2>1, <3>1, <3>2
  <2>3. replied' = replied \cup {c} /\ UNCHANGED <<pc, stdin>>
    BY <1>11 DEF Reply, client
  <2>4. \A k \in 1..Len(work') : /\ work'[k] # c
                                /\ \E j \in 1..Len(work) : work'[k] = work[j]
    <3> TAKE k \in 1..Len(work')
    <3> DEFINE j == IF k < i THEN k ELSE k + 1
    <3>1. j \in 1..Len(work) /\ j # i /\ work'[k] = work[j]
      BY <2>1, <2>2
    <3> QED
      BY <2>1, <3>1
  <2>5. \A k, l \in 1..Len(work') : work'[k] = work'[l] => k = l
    <3> TAKE k, l \in 1..Len(work')
    <3> DEFINE j(n) == IF n < i THEN n ELSE n + 1
    <3>1. /\ j(k) \in 1..Len(work) /\ work'[k] = work[j(k)]
          /\ j(l) \in 1..Len(work) /\ work'[l] = work[j(l)]
      BY <2>1, <2>2
    <3>2. j(k) = j(l) => k = l
      BY <2>1, <2>2
    <3> HIDE DEF j
    <3> QED
      BY <3>1, <3>2
  <2>6. /\ pc[c] \notin Unwritten
        /\ \A k \in 1..Len(stdin) : stdin[k].kind = "request" => stdin[k].call # c
    BY <2>1
  <2>7. \A k \in 1..Len(stdin') : stdin'[k].kind = "request" =>
          /\ pc'[stdin'[k].call] \notin Unwritten /\ stdin'[k].call \notin replied'
          /\ \A j \in 1..Len(work') : work'[j] # stdin'[k].call
    <3> SUFFICES ASSUME NEW k \in 1..Len(stdin), stdin[k].kind = "request"
                 PROVE  /\ pc[stdin[k].call] \notin Unwritten
                        /\ stdin[k].call \notin replied'
                        /\ \A j \in 1..Len(work') : work'[j] # stdin[k].call
      BY <2>3
    <3>1. /\ pc[stdin[k].call] \notin Unwritten /\ stdin[k].call \notin replied
          /\ \A j \in 1..Len(work) : work[j] # stdin[k].call
      OBVIOUS
    <3> QED
      BY <2>3, <2>4, <2>6, <3>1
  <2>8. \A k \in 1..Len(work') : pc'[work'[k]] \notin Unwritten /\ work'[k] \notin replied'
    BY <2>3, <2>4
  <2>9. \A d \in replied' : pc'[d] \notin Unwritten
    BY <2>3, <2>6
  <2> QED
    BY <2>3, <2>5, <2>7, <2>8, <2>9
<1>12. CASE Die
  <2>1. stdin' = <<>> /\ work' = <<>> /\ UNCHANGED <<pc, replied>>
    BY <1>12 DEF Die, client
  <2>2. Len(stdin') = 0 /\ Len(work') = 0
    BY <2>1
  <2> QED
    BY <2>1, <2>2
<1> HIDE DEF Once
<1> QED
  BY <1>4, <1>5, <1>7, <1>8, <1>9, <1>10, <1>11, <1>12 DEF Next, AgentStep

Abandoned(c) == Kind[c] = "prompt" /\ (pc[c] = "quarantined" \/ result[c] = "timeout")
WordsLeft(c) == \E i \in 1..Len(stdout) : stdout[i].kind = "update" /\ stdout[i].call = c

Spoken ==
  /\ \A i, j \in 1..Len(stdout) :
       i < j /\ stdout[i].kind = "reply" /\ stdout[j].kind = "update"
         => stdout[i].call # stdout[j].call
  /\ \A c \in Calls :
       Abandoned(c) /\ c \notin stale => c \in replied /\ ~WordsLeft(c)

(* Only the call's own task abandons it, and then files it as stale first.  *)
LEMMA AbandonedStep ==
  ASSUME TypeInv, NEW c \in Calls, Begin(c) \/ CallStep(c) \/ Expire(c) \/ Drop(c)
  PROVE  /\ UNCHANGED <<stdout, replied>>
         /\ \A d \in Calls : Abandoned(d)' /\ d \notin stale' => Abandoned(d) /\ d \notin stale
<1> USE DEF Abandoned
<1>1. pc \in [Calls -> PCs] /\ result \in [Calls -> Results] /\ stale \subseteq Calls
  BY DEF TypeInv, TypeOK
<1>2. CASE GuardOn(c)
  BY <1>1, <1>2 DEF GuardOn, Goto, agent
<1>3. CASE Register(c)
  BY <1>1, <1>3 DEF Register, Goto, agent
<1>4. CASE Write(c)
  BY <1>1, <1>4 DEF Write, Goto, agent
<1>5. CASE TakeBack(c)
  BY <1>1, <1>5 DEF TakeBack, Goto, Leave, agent
<1>6. CASE Answered(c)
  BY <1>1, <1>6 DEF Answered, Goto, Leave, agent
<1>7. CASE LetGo(c)
  BY <1>1, <1>7 DEF LetGo, Goto, Leave, agent
<1>8. CASE Expire(c)
  BY <1>1, <1>8 DEF Expire, Goto, agent
<1>9. CASE Forget(c)
  BY <1>1, <1>9 DEF Forget, Goto, Leave, agent
<1>10. CASE Quarantine(c)
  BY <1>1, <1>10 DEF Quarantine, Goto, agent
<1>11. CASE Cancel(c)
  BY <1>1, <1>11 DEF Cancel, Goto, Leave, agent
<1>12. CASE GuardOff(c)
  BY <1>1, <1>12 DEF GuardOff, Goto, agent
<1>13. CASE Drop(c)
  BY <1>1, <1>13 DEF Drop, Goto, agent
<1> QED
  BY <1>2, <1>3, <1>4, <1>5, <1>6, <1>7, <1>8, <1>9, <1>10, <1>11, <1>12, <1>13
     DEF Begin, CallStep

LEMMA SpokenStep == TypeInv /\ Honest /\ Once /\ Spoken /\ [Next]_vars => Spoken'
<1> SUFFICES ASSUME TypeInv, Honest, Once, Spoken, [Next]_vars PROVE Spoken'
  OBVIOUS
<1>1. /\ stdout \in Seq(Lines) /\ work \in Seq(Calls) /\ replied \subseteq Calls
      /\ Len(stdout) \in Nat
  BY LenProperties DEF TypeInv, TypeOK
<1>2. \A i \in 1..Len(stdout) :
        stdout[i].kind = "reply" => stdout[i].call \in replied
  <2>1. \A i \in 1..Len(stdout) : stdout[i] \in HonestLines
    BY ElementOfSeq DEF Honest
  <2> QED
    BY <2>1 DEF HonestLines
<1>3. ASSUME UNCHANGED replied, stdout' = stdout \/ (stdout # <<>> /\ stdout' = Tail(stdout)),
             \A d \in Calls : Abandoned(d)' /\ d \notin stale' => Abandoned(d) /\ d \notin stale
      PROVE  Spoken'
  <2>1. PICK n \in {0, 1} :
          /\ Len(stdout') = Len(stdout) - n
          /\ \A i \in 1..Len(stdout') : i + n \in 1..Len(stdout) /\ stdout'[i] = stdout[i + n]
    <3>1. CASE stdout' = stdout
      BY <1>1, <3>1
    <3>2. CASE stdout # <<>> /\ stdout' = Tail(stdout)
      BY <1>1, <3>2, HeadTailProperties
    <3> QED
      BY <1>3, <3>1, <3>2
  <2>2. \A c \in Calls : WordsLeft(c)' => WordsLeft(c)
    BY <2>1 DEF WordsLeft
  <2>3. \A i, j \in 1..Len(stdout') :
          i < j /\ stdout'[i].kind = "reply" /\ stdout'[j].kind = "update"
            => stdout'[i].call # stdout'[j].call
    <3> TAKE i, j \in 1..Len(stdout')
    <3>1. i < j => i + n < j + n
      BY <1>1, <2>1
    <3> QED
      BY <2>1, <3>1 DEF Spoken
  <2> QED
    BY <1>3, <2>2, <2>3 DEF Spoken
<1>4. ASSUME NEW l \in Lines, stdout' = Append(stdout, l), UNCHANGED <<pc, result, stale>>,
             replied \subseteq replied', l.kind = "update" => l.call \notin replied
      PROVE  Spoken'
  <2>1. /\ Len(stdout') = Len(stdout) + 1 /\ stdout'[Len(stdout) + 1] = l
        /\ \A i \in 1..Len(stdout) : stdout'[i] = stdout[i]
    BY <1>1, <1>4
  <2>2. \A i \in 1..Len(stdout') : i \in 1..Len(stdout) \/ i = Len(stdout) + 1
    BY <1>1, <2>1
  <2>3. \A i, j \in 1..Len(stdout') :
          i < j /\ stdout'[i].kind = "reply" /\ stdout'[j].kind = "update"
            => stdout'[i].call # stdout'[j].call
    <3> SUFFICES ASSUME NEW i \in 1..Len(stdout'), NEW j \in 1..Len(stdout'), i < j,
                        stdout'[i].kind = "reply", stdout'[j].kind = "update"
                 PROVE  stdout'[i].call # stdout'[j].call
      OBVIOUS
    <3>1. i \in 1..Len(stdout) /\ stdout'[i] = stdout[i]
      BY <1>1, <2>1, <2>2
    <3>2. CASE j \in 1..Len(stdout)
      BY <2>1, <3>1, <3>2 DEF Spoken
    <3>3. CASE j = Len(stdout) + 1
      BY <1>2, <1>4, <2>1, <3>1, <3>3
    <3> QED
      BY <2>2, <3>2, <3>3
  <2>4. ASSUME NEW c \in Calls, Abandoned(c)', c \notin stale'
        PROVE  c \in replied' /\ ~WordsLeft(c)'
    <3>1. c \in replied /\ ~WordsLeft(c)
      BY <1>4, <2>4 DEF Spoken, Abandoned
    <3> QED
      BY <1>4, <2>1, <2>2, <3>1 DEF WordsLeft
  <2> QED
    BY <2>3, <2>4 DEF Spoken
<1>5. ASSUME NEW c \in Calls, Begin(c) \/ CallStep(c) \/ Expire(c) \/ Drop(c) PROVE Spoken'
  <2>1. /\ UNCHANGED <<stdout, replied>>
        /\ \A d \in Calls : Abandoned(d)' /\ d \notin stale' => Abandoned(d) /\ d \notin stale
    BY <1>5, AbandonedStep
  <2> QED
    BY <1>3, <2>1
<1>6. CASE EndQuarantine
  <2>1. /\ stdout # <<>> /\ stdout[1] = Line /\ Line.kind = "reply" /\ 1 \in 1..Len(stdout)
        /\ UNCHANGED <<pc, result, stdout, replied>> /\ stale' = stale \ {Line.call}
    BY <1>1, <1>6 DEF EndQuarantine, TypeInv, Dispatching, Line, agent
  <2>2. Line.call \in replied /\ ~WordsLeft(Line.call)
    <3>1. \A j \in 1..Len(stdout) : j = 1 \/ 1 < j
      BY <1>1
    <3> QED
      BY <1>2, <2>1, <3>1 DEF Spoken, WordsLeft
  <2> HIDE DEF Line
  <2> QED
    BY <2>1, <2>2 DEF Spoken, Abandoned, WordsLeft
<1>7. CASE ReaderStep /\ ~EndQuarantine
  <2>1. UNCHANGED <<pc, result, stale, replied>>
    BY <1>7 DEF ReaderStep, ReadLine, StopReading, Complete, CheckReplaying,
       CheckStale, Asked, Deliver, Clear, Announce, client, agent
  <2>2. stdout' = stdout \/ (stdout # <<>> /\ stdout' = Tail(stdout))
    <3>1. CASE Complete \/ CheckReplaying \/ CheckStale
      BY <3>1 DEF Complete, CheckReplaying, CheckStale, NextLine, TypeInv, Dispatching
    <3>2. CASE Asked
      BY <3>2 DEF Asked, NextLine, TypeInv, Dispatching
    <3>3. CASE Deliver
      BY <3>3 DEF Deliver, NextLine, TypeInv, Dispatching
    <3>4. CASE ReadLine \/ StopReading \/ Clear \/ Announce
      BY <3>4 DEF ReadLine, StopReading, Clear, Announce
    <3> QED
      BY <1>7, <3>1, <3>2, <3>3, <3>4 DEF ReaderStep
  <2>3. \A d \in Calls : Abandoned(d)' /\ d \notin stale' => Abandoned(d) /\ d \notin stale
    BY <2>1 DEF Abandoned
  <2> QED
    BY <1>3, <2>1, <2>2, <2>3
<1>8. ASSUME NEW c \in Calls, Say(c) \/ Question(c) PROVE Spoken'
  <2>1. PICK k \in {"update"} \cup Questions : Speak(c, k)
    BY <1>8, PolicyAssumption DEF Say, Question
  <2>2. [kind |-> k, call |-> c] \in Lines /\ UNCHANGED <<pc, result, stale, replied>>
    BY <1>8 DEF Lines, Say, Question, client
  <2>3. c \notin replied
    BY <2>1 DEF Speak, ActiveAt, Once
  <2> QED
    BY <1>4, <2>1, <2>2, <2>3 DEF Speak
<1>9. ASSUME NEW c \in Calls, Reply(c) PROVE Spoken'
  <2>1. [kind |-> "reply", call |-> c] \in Lines
    BY DEF Lines
  <2> QED
    BY <1>4, <1>9, <2>1 DEF Reply, client
<1>10. CASE Garble
  <2>1. [kind |-> "garbled"] \in Lines
    BY DEF Lines
  <2> QED
    BY <1>4, <1>10, <2>1 DEF Garble, client, agent
<1>11. CASE UNCHANGED <<pc, result, stale, stdout, replied>>
  <2>1. \A d \in Calls : Abandoned(d)' /\ d \notin stale' => Abandoned(d) /\ d \notin stale
    BY <1>11 DEF Abandoned
  <2> QED
    BY <1>3, <1>11, <2>1
<1> QED
  BY <1>5, <1>6, <1>7, <1>8, <1>9, <1>10, <1>11
     DEF Next, AgentStep, vars, client, agent, Drain, StopListening, Answer, Accept, Die

LEMMA SpokenInit == Init => Once /\ Spoken
<1> SUFFICES ASSUME Init PROVE Once /\ Spoken
  OBVIOUS
<1>1. Len(stdin) = 0 /\ Len(work) = 0 /\ Len(stdout) = 0 /\ replied = {}
  BY DEF Init
<1>2. \A c \in Calls : ~Abandoned(c)
  BY DEF Init, Abandoned
<1> QED
  BY <1>1, <1>2 DEF Once, Spoken, WordsLeft

(* Nothing an abandoned turn says is let through to the product, however   *)
(* many turns of its session have been abandoned and in whatever order the  *)
(* replies come.                                                           *)
THEOREM AbandonedTurnsSilent == Spec => NoStaleWords
<1>1. Init => TypeInv /\ Honest /\ Once /\ Spoken
  BY TypeInit, HonestInit, SpokenInit
<1>2. TypeInv /\ Honest /\ Once /\ Spoken /\ [Next]_vars
        => TypeInv' /\ Honest' /\ Once' /\ Spoken'
  BY TypeStep, HonestStep, OnceStep, SpokenStep
<1>3. TypeInv /\ Spoken /\ [Next]_vars =>
        [reader = "stale" /\ reader' = "deliver" /\ Kind[Line.call] = "prompt" =>
           pc[Line.call] # "quarantined" /\ result[Line.call] # "timeout"]_vars
  <2> SUFFICES ASSUME TypeInv, Spoken, [Next]_vars,
                      reader = "stale", reader' = "deliver", Kind[Line.call] = "prompt"
               PROVE  ~Abandoned(Line.call)
    BY DEF Abandoned
  <2>1. CheckStale
    BY DEF Next, Begin, CallStep, ReaderStep, AgentStep, vars, pump, GuardOn, Register,
       Write, TakeBack, Answered, LetGo, Expire, Forget, Quarantine, Cancel, GuardOff, Drop,
       ReadLine, StopReading, EndQuarantine, Complete, CheckReplaying, Asked, Deliver, Clear,
       Announce, Drain, StopListening, Answer, Accept, Garble, Die, Say, Question, Reply
  <2>2. /\ stdout # <<>> /\ Line.kind = "update" /\ Line.call \in Calls
        /\ Line = stdout[1] /\ 1 \in 1..Len(stdout)
    BY LineType DEF TypeInv, TypeOK, Dispatching, Line
  <2>3. Line.call \notin stale
    BY <2>1 DEF CheckStale, NextLine
  <2> HIDE DEF Line
  <2> QED
    BY <2>2, <2>3 DEF Spoken, WordsLeft
<1> QED
  BY <1>1, <1>2, <1>3, PTL DEF Spec, NoStaleWords
===========================================================================
