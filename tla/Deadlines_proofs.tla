-------------------------- MODULE Deadlines_proofs --------------------------
(***************************************************************************)
(* How long a request can be waited for, whatever the deadlines, the tick,  *)
(* the number of calls and sessions and whatever the agent says.            *)
(*                                                                          *)
(* The bounds are not inductive by themselves.  What carries them from one  *)
(* look at the clocks to the next is that a wait is never past its own      *)
(* wake-up, and that a wake-up is set one tick after a moment at which      *)
(* neither deadline had passed.                                             *)
(***************************************************************************)
EXTENDS Deadlines, TLAPS

OnTime == \A c \in Waiting : now <= due[c]

DueInTime ==
  \A c \in Waiting : due[c] < Since(c) + Idle + Tick /\ due[c] < sent[c] + Hard + Tick

(* Sending was the latest sign of life there was.                          *)
SentWasHeard ==
  \A c \in Waiting : Everything \in heard /\ sent[c] <= seen[Everything]

ClockInv == TypeOK /\ OnTime /\ DueInTime /\ SentWasHeard

LEMMA Numbers == /\ Startup \in Nat \ {0} /\ Idle \in Nat \ {0}
                 /\ Hard \in Nat \ {0} /\ Tick \in Nat \ {0}
BY DeadlinesAssumption

LEMMA SinceType ==
  ASSUME TypeOK, NEW c \in Calls
  PROVE  Since(c) \in Nat /\ sent[c] <= Since(c) /\ Since(c) <= now
BY KeysAssumption DEF TypeOK, Since, Keys

(* A sign of life never makes a call's silence longer.                     *)
LEMMA SinceGrows ==
  ASSUME TypeOK, NEW keys \in SUBSET Keys, SignOfLife(keys),
         UNCHANGED <<now, sent>>, NEW c \in Calls
  PROVE  Since(c) <= Since(c)'
<1>1. Watching[c] \in Keys /\ now \in Nat /\ sent[c] \in Nat /\ sent[c] <= now
      /\ seen[Watching[c]] \in Nat /\ seen[Watching[c]] <= now
  BY KeysAssumption DEF TypeOK
<1>2. heard \subseteq heard' /\ sent'[c] = sent[c]
      /\ seen'[Watching[c]] = IF Watching[c] \in keys THEN now ELSE seen[Watching[c]]
  BY <1>1 DEF SignOfLife
<1>3. Watching[c] \in keys => Watching[c] \in heard'
  BY DEF SignOfLife
<1> QED
  BY <1>1, <1>2, <1>3 DEF Since

LEMMA ClockInit == Init => ClockInv
BY KeysAssumption DEF Init, ClockInv, TypeOK, OnTime, DueInTime, SentWasHeard, Waiting

LEMMA SignType ==
  ASSUME TypeOK, NEW keys \in SUBSET Keys, SignOfLife(keys)
  PROVE  /\ heard' \subseteq Keys
         /\ seen' \in [Keys -> Nat]
         /\ \A k \in Keys : seen'[k] <= now /\ seen[k] <= seen'[k]
         /\ heard \subseteq heard'
BY DEF TypeOK, SignOfLife

LEMMA ClockStep == ClockInv /\ [Next]_vars => ClockInv'
<1> SUFFICES ASSUME ClockInv, [Next]_vars PROVE ClockInv'
  OBVIOUS
<1> USE Numbers
<1>1. TypeOK /\ OnTime /\ DueInTime /\ SentWasHeard
  BY DEF ClockInv
<1>2. CASE Pass
  <2>1. TypeOK'
    BY <1>1, <1>2 DEF Pass, TypeOK
  <2>2. Waiting' = Waiting /\ now' = now + 1 /\ \A c \in Calls : Since(c)' = Since(c)
    BY <1>2 DEF Pass, Waiting, Since
  <2>3. OnTime'
    BY <1>1, <1>2, <2>2 DEF Pass, OnTime, Waiting, TypeOK
  <2>4. DueInTime' /\ SentWasHeard'
    BY <1>1, <1>2, <2>2 DEF Pass, DueInTime, SentWasHeard, Waiting
  <2> QED
    BY <2>1, <2>3, <2>4 DEF ClockInv
<1>3. ASSUME NEW keys \in SUBSET Keys, SignOfLife(keys), UNCHANGED <<now, sent, due>>,
             Waiting' \subseteq Waiting,
             state' \in [Calls -> {"new", "waiting"} \cup Ends]
      PROVE  ClockInv'
  <2>1. TypeOK'
    BY <1>1, <1>3, SignType DEF TypeOK
  <2>2. ASSUME NEW c \in Waiting'
        PROVE  /\ now' <= due'[c]
               /\ due'[c] < Since(c)' + Idle + Tick /\ due'[c] < sent'[c] + Hard + Tick
               /\ Everything \in heard' /\ sent'[c] <= seen'[Everything]
    <3>1. c \in Waiting /\ c \in Calls /\ due[c] \in Nat /\ sent[c] \in Nat /\ now \in Nat
      BY <1>1, <1>3, <2>2 DEF Waiting, TypeOK
    <3>2. Since(c) \in Nat /\ Since(c)' \in Nat /\ Since(c) <= Since(c)'
      <4>1. Since(c) \in Nat
        BY <1>1, <3>1, SinceType
      <4>2. Since(c)' \in Nat
        BY <2>1, <3>1, KeysAssumption DEF TypeOK, Since, Keys
      <4>3. Since(c) <= Since(c)'
        BY <1>1, <1>3, <3>1, SinceGrows
      <4> QED
        BY <4>1, <4>2, <4>3
    <3>3. now' <= due'[c] /\ due'[c] < sent'[c] + Hard + Tick
      BY <1>1, <1>3, <3>1 DEF OnTime, DueInTime
    <3>4. due'[c] < Since(c)' + Idle + Tick
      BY <1>1, <1>3, <3>1, <3>2 DEF DueInTime
    <3>5. Everything \in heard' /\ sent'[c] <= seen'[Everything]
      <4>1. Everything \in heard /\ sent[c] <= seen[Everything]
        BY <1>1, <3>1 DEF SentWasHeard
      <4>2. Everything \in Keys /\ seen[Everything] \in Nat /\ seen'[Everything] \in Nat
        BY <1>1, <2>1 DEF TypeOK, Keys
      <4>3. heard \subseteq heard' /\ seen[Everything] <= seen'[Everything]
        BY <1>1, <1>3, <4>2, SignType
      <4> QED
        BY <1>3, <3>1, <4>1, <4>2, <4>3
    <3> QED
      BY <3>3, <3>4, <3>5
  <2> QED
    BY <2>1, <2>2 DEF ClockInv, OnTime, DueInTime, SentWasHeard
<1>4. ASSUME NEW k \in Keys, Hear(k) PROVE ClockInv'
  <2>1. {Everything, k} \in SUBSET Keys
    BY DEF Keys
  <2> QED
    BY <1>1, <1>3, <1>4, <2>1 DEF Hear, Waiting, TypeOK
<1>5. ASSUME NEW d \in Calls, Reply(d) PROVE ClockInv'
  <2>1. {Everything} \in SUBSET Keys
    BY DEF Keys
  <2>2. state' \in [Calls -> {"new", "waiting"} \cup Ends] /\ Waiting' \subseteq Waiting
    BY <1>1, <1>5 DEF Reply, Waiting, TypeOK, Ends
  <2> QED
    BY <1>3, <1>5, <2>1, <2>2 DEF Reply
<1>6. ASSUME NEW d \in Calls, Ask(d) PROVE ClockInv'
  <2>1. {Everything} \in SUBSET Keys /\ Everything \in Keys
    BY DEF Keys
  <2>2. TypeOK'
    BY <1>1, <1>6, <2>1, SignType DEF Ask, TypeOK
  <2>3. ASSUME NEW c \in Waiting'
        PROVE  /\ now' <= due'[c]
               /\ due'[c] < Since(c)' + Idle + Tick /\ due'[c] < sent'[c] + Hard + Tick
               /\ Everything \in heard' /\ sent'[c] <= seen'[Everything]
    <3>1. c \in Calls /\ now \in Nat /\ now' = now
          /\ due[c] \in Nat /\ sent[c] \in Nat /\ sent[c] <= now
      BY <1>1, <1>6, <2>3 DEF Waiting, TypeOK, Ask
    <3>2. Everything \in heard' /\ seen'[Everything] = now
      BY <1>6, <2>1 DEF Ask, SignOfLife
    <3>3. Since(c)' \in Nat /\ sent'[c] <= Since(c)'
      BY <2>2, <3>1, KeysAssumption DEF TypeOK, Since, Keys
    <3>4. CASE c = d
      <4>1. sent'[c] = now /\ due'[c] = now + Tick
        BY <1>1, <1>6, <3>4 DEF Ask, TypeOK
      <4> QED
        BY <3>1, <3>2, <3>3, <4>1
    <3>5. CASE c # d
      <4>1. sent'[c] = sent[c] /\ due'[c] = due[c] /\ c \in Waiting
        BY <1>1, <1>6, <2>3, <3>5 DEF Ask, Waiting, TypeOK
      <4>2. Since(c) \in Nat
        BY <1>1, <3>1, SinceType
      <4>3. Since(c) <= Since(c)'
        <5>1. Watching[c] \in Keys
          BY <3>1, KeysAssumption
        <5>2. /\ seen'[Watching[c]] \in Nat /\ seen[Watching[c]] \in Nat
              /\ seen[Watching[c]] <= seen'[Watching[c]]
          BY <1>1, <1>6, <2>1, <5>1, SignType DEF Ask, TypeOK
        <5>3. heard \subseteq heard'
          BY <1>6 DEF Ask, SignOfLife
        <5> QED
          BY <3>1, <4>1, <5>2, <5>3 DEF Since
      <4>4. now <= due[c] /\ due[c] < Since(c) + Idle + Tick /\ due[c] < sent[c] + Hard + Tick
        BY <1>1, <4>1 DEF OnTime, DueInTime
      <4> QED
        BY <3>1, <3>2, <3>3, <4>1, <4>2, <4>3, <4>4
    <3> QED
      BY <3>4, <3>5
  <2> QED
    BY <2>2, <2>3 DEF ClockInv, OnTime, DueInTime, SentWasHeard
<1>7. ASSUME NEW d \in Calls, KeepWaiting(d) PROVE ClockInv'
  <2>1. TypeOK'
    BY <1>1, <1>7 DEF KeepWaiting, TypeOK
  <2>2. Waiting' = Waiting /\ \A c \in Calls : Since(c)' = Since(c)
    BY <1>7 DEF KeepWaiting, Waiting, Since
  <2>3. ASSUME NEW c \in Waiting
        PROVE  /\ now <= due'[c]
               /\ due'[c] < Since(c) + Idle + Tick /\ due'[c] < sent[c] + Hard + Tick
    <3>1. c \in Calls /\ now \in Nat /\ due[c] \in Nat /\ sent[c] \in Nat
      BY <1>1 DEF Waiting, TypeOK
    <3>2. CASE c = d
      <4>1. due'[c] = now + Tick
        BY <1>1, <1>7, <3>2 DEF KeepWaiting, TypeOK
      <4>2. now < sent[c] + Hard
        BY <1>7, <3>1, <3>2 DEF KeepWaiting
      <4>3. Since(c) \in Nat /\ now < Since(c) + Idle
        <5>1. Watching[c] \in Keys /\ seen[Watching[c]] \in Nat
          BY <1>1, <3>1, KeysAssumption DEF TypeOK
        <5> QED
          BY <1>7, <3>1, <3>2, <5>1 DEF KeepWaiting, IdleFor, Since
      <4> QED
        BY <3>1, <4>1, <4>2, <4>3
    <3>3. CASE c # d
      BY <1>1, <1>7, <3>1, <3>3 DEF KeepWaiting, TypeOK, OnTime, DueInTime
    <3> QED
      BY <3>2, <3>3
  <2>4. OnTime' /\ DueInTime'
    BY <1>7, <2>2, <2>3 DEF KeepWaiting, OnTime, DueInTime, Waiting
  <2>5. SentWasHeard'
    BY <1>1, <1>7, <2>2 DEF KeepWaiting, SentWasHeard
  <2> QED
    BY <2>1, <2>4, <2>5 DEF ClockInv
<1>8. ASSUME NEW d \in Calls, GiveUp(d) \/ StartupOver(d) PROVE ClockInv'
  <2>1. TypeOK'
    BY <1>1, <1>8 DEF GiveUp, StartupOver, TypeOK, Ends
  <2>2. Waiting' \subseteq Waiting /\ UNCHANGED <<now, heard, seen, sent, due>>
    BY <1>1, <1>8 DEF GiveUp, StartupOver, Waiting, TypeOK
  <2>3. \A c \in Calls : Since(c)' = Since(c)
    BY <2>2 DEF Since
  <2>4. Waiting' \subseteq Calls
    BY DEF Waiting
  <2> QED
    BY <1>1, <2>1, <2>2, <2>3, <2>4 DEF ClockInv, OnTime, DueInTime, SentWasHeard
<1>9. CASE UNCHANGED vars
  <2>1. Waiting' = Waiting /\ \A c \in Calls : Since(c)' = Since(c)
    BY <1>9 DEF vars, Waiting, Since
  <2>2. Waiting \subseteq Calls
    BY DEF Waiting
  <2> QED
    BY <1>1, <1>9, <2>1, <2>2
       DEF vars, ClockInv, TypeOK, OnTime, DueInTime, SentWasHeard
<1> QED
  BY <1>2, <1>4, <1>5, <1>6, <1>7, <1>8, <1>9 DEF Next

LEMMA Clocks == Spec => []ClockInv
BY ClockInit, ClockStep, PTL DEF Spec

(* Every clock reading is a number, and none is from the future.           *)
THEOREM ClocksAreSound == Spec => []TypeOK
<1>1. ClockInv => TypeOK
  BY DEF ClockInv
<1> QED
  BY <1>1, Clocks, PTL

(* No request outlives the wall clock by more than a tick, however much the *)
(* agent says (Deadlines::hard, awaited).                                   *)
THEOREM NeverForever == Spec => []HardBound
<1>1. ClockInv => HardBound
  <2> SUFFICES ASSUME ClockInv, NEW c \in Waiting PROVE now < sent[c] + Hard + Tick
    BY DEF HardBound
  <2>1. now \in Nat /\ due[c] \in Nat /\ sent[c] \in Nat
    BY DEF ClockInv, TypeOK, Waiting
  <2>2. now <= due[c] /\ due[c] < sent[c] + Hard + Tick
    BY DEF ClockInv, OnTime, DueInTime
  <2> QED
    BY <2>1, <2>2, Numbers
<1> QED
  BY <1>1, Clocks, PTL

(* No request outlives its own session's silence by more than the idle      *)
(* deadline and a tick, whatever the other sessions say (activity, awaited). *)
THEOREM SilenceIsNoticed == Spec => []StuckIsNoticed
<1>1. ClockInv => StuckIsNoticed
  <2> SUFFICES ASSUME ClockInv, NEW c \in Waiting PROVE now < Since(c) + Idle + Tick
    BY DEF StuckIsNoticed
  <2>1. TypeOK /\ c \in Calls /\ now \in Nat /\ due[c] \in Nat
    BY DEF ClockInv, TypeOK, Waiting
  <2>2. now <= due[c] /\ due[c] < Since(c) + Idle + Tick
    BY DEF ClockInv, OnTime, DueInTime
  <2> QED
    BY <2>1, <2>2, SinceType, Numbers
<1> QED
  BY <1>1, Clocks, PTL

(* A request that names no session is given the whole idle deadline from    *)
(* the moment it was sent (send).                                           *)
THEOREM PatienceFromSending == Spec => FirstRequestPatience
<1> DEFINE Patient == \A c \in Calls :
             state[c] = "waiting" /\ state'[c] = "silent" /\ Watching[c] = Everything
               => now - sent[c] >= Idle
<1>1. ClockInv /\ [Next]_vars => [Patient]_vars
  <2> SUFFICES ASSUME ClockInv, Next, NEW c \in Calls, state[c] = "waiting",
                      state'[c] = "silent", Watching[c] = Everything
               PROVE  now - sent[c] >= Idle
    BY Zenon
  <2>1. TypeOK /\ Everything \in heard /\ sent[c] <= seen[Everything]
    BY DEF ClockInv, SentWasHeard, Waiting
  <2>2. now \in Nat /\ sent[c] \in Nat /\ seen[Everything] \in Nat /\ Idle \in Nat
    BY <2>1, Numbers DEF TypeOK, Keys
  <2>3. state \in [Calls -> {"new", "waiting"} \cup Ends]
    BY <2>1 DEF TypeOK
  <2>4. GiveUp(c) /\ IdleFor(c) >= Idle
    <3>1. ASSUME NEW d \in Calls, Ask(d) \/ Reply(d) \/ KeepWaiting(d) \/ StartupOver(d)
          PROVE  FALSE
      BY <2>3, <3>1 DEF Ask, Reply, KeepWaiting, StartupOver
    <3>2. ~Pass /\ \A k \in Keys : ~Hear(k)
      BY DEF Pass, Hear
    <3>3. PICK d \in Calls : GiveUp(d)
      BY <3>1, <3>2 DEF Next
    <3> QED
      BY <2>3, <3>3 DEF GiveUp
  <2>5. IdleFor(c) = now - seen[Everything]
    BY <2>1 DEF IdleFor
  <2> QED
    BY <2>1, <2>2, <2>4, <2>5
<1> QED
  BY <1>1, Clocks, PTL DEF Spec, FirstRequestPatience
=============================================================================
