-------------------------- MODULE Orphans_proofs --------------------------
(***************************************************************************)
(* What holds of Orphans for every set of groups and threads and every      *)
(* number of crashes.                                                       *)
(***************************************************************************)
EXTENDS Orphans, FiniteSetTheorems, TLAPS

AtMostOne == tmp = {} \/ \E s \in SUBSET Groups : tmp = {s}

Tasks == [job : Jobs, at : {"idle", "read", "write", "rename", "end"},
          on : SUBSET Groups, got : SUBSET Groups]
Reapers == [at : {"read", "check", "signal", "confirm", "write", "rename", "over"},
            todo : SUBSET Groups, on : SUBSET Groups, survivors : SUBSET Groups]

(* A job is about one group.                                               *)
AboutOne(r) == IF r = Idle THEN r.on = {} ELSE \E p \in Groups : r.on = {p}
JobOn == \A t \in Threads : AboutOne(task[t])

(* TypeOK, with the cardinalities written out.                              *)
TypeInv ==
  /\ group \in [Groups -> {"free", "agent", "zombie"} \cup Others]
  /\ signalled \subseteq Groups /\ file \subseteq Groups
  /\ AtMostOne
  /\ held \subseteq Groups /\ excused \subseteq Groups
  /\ task \in [Threads -> Tasks] /\ JobOn
  /\ reaper \in Reapers
  /\ up \in BOOLEAN /\ crashes \in 0..MaxCrashes /\ stale \in BOOLEAN

LEMMA IdleType == Idle \in Tasks /\ AboutOne(Idle)
BY DEF Idle, Tasks, Jobs, AboutOne

LEMMA RestingType ==
  ASSUME NEW step \in {"read", "check", "signal", "confirm", "write", "rename", "over"}
  PROVE  Resting(step) \in Reapers
BY DEF Resting, Reapers

LEMMA TypeInit == Init => TypeInv
<1> SUFFICES ASSUME Init PROVE TypeInv
  OBVIOUS
<1>1. reaper \in Reapers
  BY RestingType DEF Init
<1>2. task \in [Threads -> Tasks] /\ JobOn
  BY IdleType DEF Init, JobOn
<1>3. crashes \in 0..MaxCrashes
  BY CrashesAssumption DEF Init
<1> QED
  BY <1>1, <1>2, <1>3 DEF Init, TypeInv, AtMostOne

LEMMA TaskType ==
  ASSUME task \in [Threads -> Tasks], JobOn, NEW t \in Threads,
         NEW r \in Tasks, AboutOne(r), task' = [task EXCEPT ![t] = r]
  PROVE  task' \in [Threads -> Tasks] /\ JobOn'
BY DEF JobOn

(* One step further in a job that has begun.                               *)
LEMMA StepType ==
  ASSUME NEW r \in Tasks, AboutOne(r), r.at # "idle",
         NEW step \in {"read", "write", "rename", "end"}, NEW g \in SUBSET Groups
  PROVE  /\ [r EXCEPT !.at = step] \in Tasks /\ AboutOne([r EXCEPT !.at = step])
         /\ [r EXCEPT !.at = step, !.got = g] \in Tasks
         /\ AboutOne([r EXCEPT !.at = step, !.got = g])
<1>1. r # Idle /\ \E p \in Groups : r.on = {p}
  BY DEF AboutOne, Idle
<1>2. /\ [r EXCEPT !.at = step] \in Tasks
      /\ [r EXCEPT !.at = step, !.got = g] \in Tasks
  BY DEF Tasks
<1>3. /\ [r EXCEPT !.at = step].at = step /\ [r EXCEPT !.at = step].on = r.on
      /\ [r EXCEPT !.at = step, !.got = g].at = step
      /\ [r EXCEPT !.at = step, !.got = g].on = r.on
  BY DEF Tasks
<1>4. Idle.at = "idle"
  BY DEF Idle
<1> QED
  BY <1>1, <1>2, <1>3, <1>4 DEF AboutOne

LEMMA PublishType ==
  ASSUME TypeInv, Publish PROVE file' \subseteq Groups /\ AtMostOne'
BY DEF TypeInv, AtMostOne, Publish

LEMMA TypeStep == TypeInv /\ [Next]_vars => TypeInv'
<1> SUFFICES ASSUME TypeInv, [Next]_vars PROVE TypeInv'
  OBVIOUS
<1> USE CrashesAssumption DEF TypeInv
<1>1. ASSUME NEW t \in Threads, NEW j \in {"launch", "stop", "drop"}, NEW p \in Groups,
             Begin(t, j, p)
      PROVE  task' \in [Threads -> Tasks] /\ JobOn'
  <2> DEFINE r == [job |-> j, at |-> "read", on |-> {p}, got |-> {}]
  <2>1. r \in Tasks /\ AboutOne(r)
    BY DEF Tasks, Jobs, AboutOne, Idle
  <2> QED
    BY <1>1, <2>1, TaskType DEF Begin
<1>2. ASSUME NEW t \in Threads, NEW p \in Groups, Spawn(t, p) PROVE TypeInv'
  BY <1>1, <1>2 DEF Spawn, AtMostOne
<1>3. ASSUME NEW t \in Threads, NEW j \in {"stop", "drop"}, NEW p \in Groups, End(t, j, p)
      PROVE  TypeInv'
  BY <1>1, <1>3 DEF End, KillGroup, AtMostOne
<1>4. ASSUME NEW t \in Threads, task[t].at # "idle",
             NEW step \in {"read", "write", "rename", "end"}, NEW g \in SUBSET Groups,
             \/ task' = [task EXCEPT ![t].at = step]
             \/ task' = [task EXCEPT ![t].at = step, ![t].got = g]
      PROVE  task' \in [Threads -> Tasks] /\ JobOn'
  <2>1. task[t] \in Tasks /\ AboutOne(task[t])
    BY DEF JobOn
  <2>2. PICK r \in Tasks : AboutOne(r) /\ task' = [task EXCEPT ![t] = r]
    BY <1>4, <2>1, StepType
  <2> QED
    BY <2>2, TaskType
<1>5. ASSUME NEW t \in Threads, ReadFile(t) PROVE TypeInv'
  <2>1. task[t].at # "idle" /\ task[t] \in Tasks
    BY <1>5 DEF ReadFile, At
  <2>2. \A list \in Readings : /\ list \cup task[t].on \in SUBSET Groups
                               /\ list \ task[t].on \in SUBSET Groups
    BY <2>1 DEF Tasks, Readings
  <2>3. task' \in [Threads -> Tasks] /\ JobOn'
    <3>1. \/ task' = [task EXCEPT ![t].at = "end"]
          \/ \E g \in SUBSET Groups : task' = [task EXCEPT ![t].at = "write", ![t].got = g]
      BY <1>5, <2>2 DEF ReadFile, Step
    <3> QED
      BY <1>4, <2>1, <3>1
  <2>4. /\ UNCHANGED <<group, signalled, file, tmp, held, reaper, up, crashes, stale>>
        /\ excused' \subseteq Groups
    BY <1>5 DEF ReadFile, Missing
  <2> QED
    BY <2>3, <2>4 DEF AtMostOne
<1>6. ASSUME NEW t \in Threads, WriteTmp(t) PROVE TypeInv'
  <2>1. task[t].at # "idle" /\ task[t] \in Tasks /\ task[t].got \in SUBSET Groups
    BY <1>6 DEF WriteTmp, At, Tasks
  <2>2. task' \in [Threads -> Tasks] /\ JobOn'
    BY <1>4, <1>6, <2>1 DEF WriteTmp, Step
  <2> QED
    BY <1>6, <2>1, <2>2 DEF WriteTmp, AtMostOne
<1>7. ASSUME NEW t \in Threads, Rename(t) PROVE TypeInv'
  <2>1. task[t].at # "idle" /\ {} \in SUBSET Groups
    BY <1>7 DEF Rename, At
  <2>2. task' \in [Threads -> Tasks] /\ JobOn'
    BY <1>4, <1>7, <2>1 DEF Rename, Step
  <2> QED
    BY <1>7, <2>2, PublishType DEF Rename
<1>17. ASSUME NEW t \in Threads, WriteFails(t) PROVE TypeInv'
  <2>1. task[t].at # "idle" /\ {} \in SUBSET Groups
    BY <1>17 DEF WriteFails, At
  <2>2. task' \in [Threads -> Tasks] /\ JobOn'
    BY <1>4, <1>17, <2>1 DEF WriteFails, Step
  <2>3. excused' \subseteq Groups
    <3>1. task[t].on \in SUBSET Groups
      BY DEF Tasks
    <3> QED
      BY <1>17, <3>1 DEF WriteFails
  <2> QED
    BY <1>17, <2>2, <2>3 DEF WriteFails, AtMostOne
<1>8. ASSUME NEW t \in Threads, Finish(t) PROVE TypeInv'
  <2>1. task' \in [Threads -> Tasks] /\ JobOn'
    BY <1>8, TaskType, IdleType DEF Finish
  <2>2. held' \subseteq Groups
    BY <1>8 DEF Finish, Tasks
  <2>3. group' \in [Groups -> {"free", "agent", "zombie"} \cup Others]
    BY <1>8 DEF Finish
  <2> QED
    BY <1>8, <2>1, <2>2, <2>3 DEF Finish, AtMostOne
<1>9. ASSUME NEW p \in Groups, ReapSkip(p) \/ ReapLook(p) \/ ReapSignal(p) \/ ReapConfirm(p)
      PROVE  TypeInv'
  <2>1. reaper' \in Reapers
    <3> DEFINE kept == reaper.survivors \cup {p}
               rest == reaper.todo \ {p}
    <3>1. /\ kept \in SUBSET Groups /\ rest \in SUBSET Groups
          /\ {p} \in SUBSET Groups /\ {} \in SUBSET Groups
      BY DEF Reapers
    <3>2. CASE ReapSkip(p)
      <4>1. reaper' = [reaper EXCEPT !.todo = rest]
        BY <3>2 DEF ReapSkip
      <4> QED
        BY <3>1, <4>1 DEF Reapers
    <3>3. CASE ReapSignal(p)
      <4>1. \/ reaper' = [reaper EXCEPT !.at = "check", !.on = {}, !.survivors = kept]
            \/ reaper' = [reaper EXCEPT !.at = "confirm"]
        BY <3>3 DEF ReapSignal
      <4> QED
        BY <3>1, <4>1 DEF Reapers
    <3>4. CASE ReapConfirm(p)
      <4>1. PICK more \in {{}, {p}} :
              reaper' = [reaper EXCEPT !.at = "check", !.on = {},
                           !.survivors = reaper.survivors \cup more]
        BY <3>4 DEF ReapConfirm
      <4>2. reaper.survivors \cup more \in SUBSET Groups
        BY DEF Reapers
      <4> QED
        BY <3>1, <4>1, <4>2 DEF Reapers
    <3>5. CASE ReapLook(p)
      <4>1. reaper' = [reaper EXCEPT !.todo = rest, !.at = "signal", !.on = {p}]
        BY <3>5 DEF ReapLook
      <4> QED
        BY <3>1, <4>1 DEF Reapers
    <3> QED
      BY <1>9, <3>2, <3>3, <3>4, <3>5
  <2>2. excused' \subseteq Groups
    BY <1>9 DEF ReapSkip, ReapLook, ReapSignal, ReapConfirm, Overlook
  <2>3. /\ UNCHANGED <<group, file, tmp, held, task, up, crashes>> /\ signalled' \subseteq Groups
        /\ stale' \in BOOLEAN
    BY <1>9 DEF ReapSkip, ReapLook, ReapSignal, ReapConfirm, KillGroup
  <2> QED
    BY <2>1, <2>2, <2>3 DEF AtMostOne, JobOn
<1>10. CASE ReapRead
  <2>1. reaper' \in Reapers /\ excused' \subseteq Groups
    <3>1. Resting("check") \in Reapers /\ Resting("over") \in Reapers
      BY RestingType
    <3>2. \A list \in Readings : list \in SUBSET Groups
      BY DEF Readings
    <3> QED
      BY <1>10, <3>1, <3>2 DEF ReapRead, Reapers, Missing
  <2> QED
    BY <1>10, <2>1 DEF ReapRead, AtMostOne, JobOn
<1>11. CASE ReapEnd
  <2>1. reaper' \in Reapers
    <3>1. Resting("over") \in Reapers
      BY RestingType
    <3> QED
      BY <1>11, <3>1 DEF ReapEnd, Reapers
  <2> QED
    BY <1>11, <2>1 DEF ReapEnd, AtMostOne, JobOn
<1>12. CASE ReapWrite
  <2>1. reaper' \in Reapers /\ reaper.survivors \in SUBSET Groups
    BY <1>12 DEF ReapWrite, Reapers
  <2> QED
    BY <1>12, <2>1 DEF ReapWrite, AtMostOne, JobOn
<1>13. CASE ReapRename
  <2>1. Resting("over") \in Reapers
    BY RestingType
  <2> QED
    BY <1>13, <2>1, PublishType DEF ReapRename, JobOn
<1>18. CASE ReapWriteFails
  <2>1. Resting("over") \in Reapers
    BY RestingType
  <2> QED
    BY <1>18, <2>1 DEF ReapWriteFails, AtMostOne, JobOn
<1>14. CASE Crash
  <2>1. Resting("read") \in Reapers
    BY RestingType
  <2>2. task' \in [Threads -> Tasks] /\ JobOn'
    BY <1>14, IdleType DEF Crash, JobOn
  <2>3. group' \in [Groups -> {"free", "agent", "zombie"} \cup Others] /\ excused' \subseteq Groups
    BY <1>14 DEF Crash
  <2> QED
    <3>1. crashes' \in 0..MaxCrashes
      BY <1>14 DEF Crash
    <3>2. reaper' \in Reapers /\ held' \subseteq Groups /\ {up', stale'} \subseteq BOOLEAN
      BY <1>14, <2>1 DEF Crash
    <3>3. UNCHANGED <<signalled, file, tmp>>
      BY <1>14 DEF Crash
    <3> QED
      BY <2>2, <2>3, <3>1, <3>2, <3>3 DEF AtMostOne
<1>15. CASE Restart \/ \E p \in Groups : Exit(p) \/ Foreign(p)
  <2>1. CASE Restart
    BY <2>1 DEF Restart, AtMostOne, JobOn
  <2>2. ASSUME NEW p \in Groups, Exit(p) \/ Foreign(p) PROVE TypeInv'
    <3>1. stale' \in BOOLEAN
      BY <2>2 DEF Exit, Foreign, Passes
    <3>2. group' \in [Groups -> {"free", "agent", "zombie"} \cup Others]
      BY <2>2 DEF Exit, Foreign
    <3> QED
      BY <2>2, <3>1, <3>2 DEF Exit, Foreign, AtMostOne, JobOn
  <2> QED
    BY <1>15, <2>1, <2>2
<1>16. CASE UNCHANGED vars
  BY <1>16 DEF vars, AtMostOne, JobOn
<1> HIDE DEF TypeInv
<1> QED
  BY <1>2, <1>3, <1>5, <1>6, <1>7, <1>8, <1>9, <1>10, <1>11, <1>12, <1>13, <1>14, <1>15,
     <1>16, <1>17, <1>18 DEF Next, ThreadStep, ReapStep

LEMMA TypeInvOK == TypeInv => TypeOK
<1> SUFFICES ASSUME TypeInv PROVE TypeOK
  OBVIOUS
<1>0. Cardinality({}) = 0 /\ \A x : Cardinality({x}) = 1
  BY FS_EmptySet, FS_Singleton
<1>1. tmp \subseteq SUBSET Groups /\ Cardinality(tmp) <= 1
  <2>1. CASE tmp = {}
    BY <1>0, <2>1
  <2>2. ASSUME NEW s \in SUBSET Groups, tmp = {s}
        PROVE  tmp \subseteq SUBSET Groups /\ Cardinality(tmp) <= 1
    BY <1>0, <2>2
  <2> QED
    BY <2>1, <2>2 DEF TypeInv, AtMostOne
<1>2. ASSUME NEW t \in Threads
      PROVE  Cardinality(task[t].on) = (IF task[t] = Idle THEN 0 ELSE 1)
  <2>1. IF task[t] = Idle THEN task[t].on = {} ELSE \E p \in Groups : task[t].on = {p}
    BY DEF TypeInv, JobOn, AboutOne
  <2> QED
    BY <1>0, <2>1
<1> QED
  BY <1>1, <1>2 DEF TypeInv, TypeOK, Tasks, Reapers

(* Every variable keeps its type, and there is never more than one          *)
(* temporary beside the file.                                               *)
THEOREM TypeCorrect == Spec => []TypeOK
<1>1. Spec => []TypeInv
  BY TypeInit, TypeStep, PTL DEF Spec
<1> QED
  BY <1>1, TypeInvOK, PTL
---------------------------------------------------------------------------
(* The guards.  A ChildGuard pins its group: while the child is unwaited-for *)
(* the id stays with it, alive or dead, so whoever stops or drops through    *)
(* the guard cannot meet a stranger.  That is inductive because no two jobs  *)
(* are about one group and a drop has taken its guard away.                  *)

GuardsPin ==
  /\ \A p \in Groups : Pinned(p) => group[p] \in {"agent", "zombie"}
  /\ \A t, u \in Threads : t # u => task[t].on \cap task[u].on = {}
  /\ \A t \in Threads : task[t].job \in {"launch", "drop"} => task[t].on \cap held = {}

LEMMA GuardsPinInit == Init => GuardsPin
BY DEF Init, GuardsPin, Pinned, Idle

LEMMA GuardsPinStep == TypeInv /\ GuardsPin /\ [Next]_vars => GuardsPin'
<1> SUFFICES ASSUME TypeInv, GuardsPin, [Next]_vars PROVE GuardsPin'
  OBVIOUS
<1> USE DEF GuardsPin, Pinned, Idle, Tasks, Others
<1>0. /\ group \in [Groups -> {"free", "agent", "zombie"} \cup Others]
      /\ held \subseteq Groups
      /\ task \in [Threads -> Tasks]
      /\ \A t \in Threads : task[t] = Idle => task[t].on = {}
  BY DEF TypeInv, JobOn, AboutOne
<1>1. ASSUME UNCHANGED <<group, held>>, NEW t \in Threads,
             \A u \in Threads : task'[u].on = task[u].on /\ task'[u].job = task[u].job
      PROVE  GuardsPin'
  BY <1>0, <1>1
<1>2. ASSUME NEW t \in Threads, NEW p \in Groups, Spawn(t, p) PROVE GuardsPin'
  BY <1>0, <1>2 DEF Spawn, Begin
<1>3. ASSUME NEW t \in Threads, NEW j \in {"stop", "drop"}, NEW p \in Groups, End(t, j, p)
      PROVE  GuardsPin'
  BY <1>0, <1>3 DEF End, Begin
<1>4. ASSUME NEW t \in Threads, ReadFile(t) \/ WriteTmp(t) \/ Rename(t) \/ WriteFails(t)
      PROVE  GuardsPin'
  <2>1. /\ UNCHANGED <<group, held>>
        /\ \A u \in Threads : task'[u].on = task[u].on /\ task'[u].job = task[u].job
    BY <1>0, <1>4 DEF ReadFile, WriteTmp, Rename, WriteFails, Step
  <2> QED
    BY <1>1, <2>1
<1>5. ASSUME NEW t \in Threads, Finish(t) PROVE GuardsPin'
  BY <1>0, <1>5 DEF Finish
<1>6. CASE ReapStep \/ Restart \/ UNCHANGED vars
  <2>1. UNCHANGED <<group, held, task>>
    BY <1>6 DEF ReapStep, ReapRead, ReapEnd, ReapWrite, ReapRename, ReapWriteFails, ReapSkip,
       ReapLook, ReapSignal, ReapConfirm, Restart, vars
  <2> QED
    BY <2>1
<1>7. CASE Crash
  BY <1>0, <1>7 DEF Crash
<1>8. ASSUME NEW p \in Groups, Exit(p) \/ Foreign(p) PROVE GuardsPin'
  BY <1>0, <1>8 DEF Exit, Foreign
<1> HIDE DEF GuardsPin
<1> QED
  BY <1>2, <1>3, <1>4, <1>5, <1>6, <1>7, <1>8 DEF Next, ThreadStep

(* The reap has the product to itself, goes by the list, and is about to    *)
(* signal what its look let through or what has come there since.           *)
ReapLooks ==
  /\ \A t \in Threads : task[t].at # "idle" => reaper.at = "over"
  /\ reaper.at \in {"check", "signal", "confirm"} => reaper.todo \subseteq file
  /\ reaper.at = "signal" =>
       \A p \in reaper.on : p \in file /\ (LooksOurs(p) \/ stale)

LEMMA ReapLooksInit == Init => ReapLooks
BY DEF Init, ReapLooks, Idle, Resting

LEMMA ReapLooksStep == TypeInv /\ ReapLooks /\ [Next]_vars => ReapLooks'
<1> SUFFICES ASSUME TypeInv, ReapLooks, [Next]_vars PROVE ReapLooks'
  OBVIOUS
<1> USE DEF ReapLooks, LooksOurs
<1>0. /\ task \in [Threads -> Tasks] /\ reaper \in Reapers
      /\ group \in [Groups -> {"free", "agent", "zombie"} \cup Others]
  BY DEF TypeInv
<1>1. ASSUME reaper.at = "over", UNCHANGED reaper PROVE ReapLooks'
  BY <1>1
<1>2. ASSUME NEW t \in Threads, NEW p \in Groups,
             Spawn(t, p) \/ \E j \in {"stop", "drop"} : End(t, j, p)
      PROVE  ReapLooks'
  BY <1>1, <1>2 DEF Spawn, End, Begin
<1>3. ASSUME NEW t \in Threads, ThreadStep(t) PROVE ReapLooks'
  <2>1. task[t].at # "idle" /\ UNCHANGED reaper
    BY <1>3 DEF ThreadStep, ReadFile, WriteTmp, Rename, WriteFails, Finish, At
  <2> QED
    BY <1>1, <2>1
<1>4. ASSUME ReapStep PROVE ReapLooks'
  <2>0. reaper.at # "over" /\ UNCHANGED <<group, task>>
    BY <1>4 DEF ReapStep, ReapRead, ReapEnd, ReapWrite, ReapRename, ReapWriteFails, ReapSkip,
       ReapLook, ReapSignal, ReapConfirm, Reaping
  <2>9. \A t \in Threads : task'[t].at = "idle"
    BY <2>0
  <2>1. CASE ReapRead
    BY <1>0, <2>9, <2>0, <2>1 DEF ReapRead, Resting, Readings
  <2>2. CASE ReapEnd \/ ReapWrite \/ ReapRename \/ ReapWriteFails
    BY <1>0, <2>9, <2>0, <2>2
       DEF ReapEnd, ReapWrite, ReapRename, ReapWriteFails, Reaping, Resting, Reapers
  <2>3. ASSUME NEW p \in Groups, ReapSkip(p) PROVE ReapLooks'
    BY <1>0, <2>9, <2>0, <2>3 DEF ReapSkip, Reaping, Reapers
  <2>4. ASSUME NEW p \in Groups, ReapLook(p) PROVE ReapLooks'
    BY <1>0, <2>9, <2>0, <2>4 DEF ReapLook, Reaping, Reapers
  <2>5. ASSUME NEW p \in Groups, ReapSignal(p) PROVE ReapLooks'
    BY <1>0, <2>9, <2>0, <2>5 DEF ReapSignal, Reaping, Reapers
  <2>6. ASSUME NEW p \in Groups, ReapConfirm(p) PROVE ReapLooks'
    BY <1>0, <2>9, <2>0, <2>6 DEF ReapConfirm, Reaping, Reapers
  <2> QED
    BY <1>4, <2>1, <2>2, <2>3, <2>4, <2>5, <2>6 DEF ReapStep
<1>5. CASE Crash
  BY <1>5 DEF Crash, Idle, Resting
<1>6. CASE Restart \/ UNCHANGED vars
  BY <1>6 DEF Restart, vars
<1>7. ASSUME NEW p \in Groups, Exit(p) \/ Foreign(p) PROVE ReapLooks'
  <2>1. UNCHANGED <<file, task, reaper>> /\ Passes(p)
    BY <1>7 DEF Exit, Foreign
  <2>2. \A q \in Groups : q # p => group'[q] = group[q]
    BY <1>0, <1>7 DEF Exit, Foreign
  <2>3. ASSUME reaper.at = "signal", NEW q \in reaper.on PROVE LooksOurs(q)' \/ stale'
    <3>1. CASE q = p
      BY <2>1, <2>3, <3>1 DEF Passes
    <3>2. CASE q # p
      BY <1>0, <2>1, <2>2, <2>3, <3>2 DEF Passes, Reapers
    <3> QED
      BY <3>1, <3>2
  <2> QED
    BY <2>1, <2>3
<1> HIDE DEF ReapLooks
<1> QED
  BY <1>2, <1>3, <1>4, <1>5, <1>6, <1>7 DEF Next

(* A stop or a drop never signals a process of the machine's owner; a reap  *)
(* signals one only under a listed id, and only where it goes by the        *)
(* agent's name or has come after the look.  With any number of threads and *)
(* crashes, and whatever the disk and ps do.                                *)
THEOREM StrangersUntouched == Spec => OnlyOursSignalled
<1>1. Init => TypeInv /\ GuardsPin /\ ReapLooks
  BY TypeInit, GuardsPinInit, ReapLooksInit
<1>2. TypeInv /\ GuardsPin /\ ReapLooks /\ [Next]_vars
        => TypeInv' /\ GuardsPin' /\ ReapLooks'
  BY TypeStep, GuardsPinStep, ReapLooksStep
<1>3. TypeInv /\ GuardsPin /\ ReapLooks /\ [Next]_vars =>
        [\A p \in Groups : p \in signalled' \ signalled =>
                             group[p] = "agent" \/ TakenForOurs(p)]_vars
  <2> SUFFICES ASSUME TypeInv, GuardsPin, ReapLooks, [Next]_vars,
                      NEW p \in Groups, p \in signalled', p \notin signalled
               PROVE  group[p] = "agent" \/ TakenForOurs(p)
    OBVIOUS
  <2>1. group \in [Groups -> {"free", "agent", "zombie"} \cup Others]
    BY DEF TypeInv
  <2>2. ASSUME NEW t \in Threads, NEW j \in {"stop", "drop"}, NEW q \in Groups, End(t, j, q)
        PROVE  group[p] = "agent"
    BY <2>1, <2>2 DEF End, KillGroup, GuardsPin, Pinned, Others
  <2>3. ASSUME NEW q \in Groups, ReapSignal(q) PROVE group[p] = "agent" \/ TakenForOurs(p)
    <3>1. p = q /\ reaper.at = "signal" /\ p \in reaper.on
      BY <2>3 DEF ReapSignal, Reaping, KillGroup
    <3> QED
      BY <3>1 DEF ReapLooks, LooksOurs, TakenForOurs
  <2> QED
    BY <2>2, <2>3
       DEF Next, ThreadStep, ReapStep, Spawn, ReadFile, WriteTmp, Rename, WriteFails, Finish,
           ReapRead, ReapEnd, ReapWrite, ReapRename, ReapWriteFails, ReapSkip, ReapLook,
           ReapConfirm, Crash, Restart, Exit, Foreign, vars
<1> QED
  BY <1>1, <1>2, <1>3, PTL DEF Spec, OnlyOursSignalled
---------------------------------------------------------------------------
(* The record.  Live groups are in the file, and in whatever is about to    *)
(* replace it: a list that a job has read and changed, the temporary, the   *)
(* survivors of a reap.  That needs the reader of the file to be its next   *)
(* writer, which is so while one thread at a time launches, stops or drops  *)
(* (with two the list is lost, MCLostEntry).                                *)

OneAtATime == \A t, u \in Threads : t = u

Live == {p \in Groups : group[p] = "agent" /\ p \notin excused /\ ~Launching(p)}

JobsKeepRecord ==
  /\ \A t \in Threads : task[t].at \in {"write", "rename"} =>
       /\ Live \subseteq task[t].got
       /\ task[t].job = "launch" => task[t].on \subseteq task[t].got
  /\ \A t \in Threads : task[t].at = "rename" => tmp = {task[t].got}
  /\ \A t \in Threads : task[t].job \in {"stop", "drop"} =>
       \A p \in task[t].on : group[p] = "agent" => p \in excused
  /\ \A t \in Threads : task[t].at # "idle" => up /\ reaper.at = "over"
  /\ \A t \in Threads : task[t].job = "none" <=> task[t].at = "idle"

ReapKeepsRecord ==
  /\ reaper.at \in {"check", "signal", "confirm"} =>
       Live \subseteq reaper.todo \cup reaper.on \cup reaper.survivors
  /\ reaper.at = "check" => reaper.on = {}
  /\ reaper.at \in {"signal", "confirm"} => \E p \in Groups : reaper.on = {p}
  /\ reaper.at \in {"write", "rename"} => Live \subseteq reaper.survivors
  /\ reaper.at = "rename" => tmp = {reaper.survivors}

Recorded == Live \subseteq file /\ JobsKeepRecord /\ ReapKeepsRecord

LEMMA RecordedInit == Init => Recorded
<1> SUFFICES ASSUME Init PROVE Recorded
  OBVIOUS
<1>1. Live = {}
  BY DEF Init, Live
<1> QED
  BY <1>1 DEF Init, Recorded, JobsKeepRecord, ReapKeepsRecord, Idle, Resting

(* Nothing but the end of a launch adds to the groups the file must name.   *)
LEMMA LiveStep ==
  ASSUME TypeInv, [Next]_vars, ~Crash, \A t \in Threads : ~Rename(t) /\ ~WriteFails(t)
  PROVE  Live' \subseteq Live
<1> USE DEF Live, Launching, Tasks, Idle, Others
<1>0. /\ task \in [Threads -> Tasks]
      /\ group \in [Groups -> {"free", "agent", "zombie"} \cup Others]
  BY DEF TypeInv
<1>1. ASSUME NEW t \in Threads, NEW p \in Groups, Spawn(t, p) PROVE Live' \subseteq Live
  BY <1>0, <1>1 DEF Spawn, Begin
<1>2. ASSUME NEW t \in Threads, NEW j \in {"stop", "drop"}, NEW p \in Groups, End(t, j, p)
      PROVE  Live' \subseteq Live
  BY <1>0, <1>2 DEF End, Begin
<1>3. ASSUME NEW t \in Threads, ReadFile(t) \/ WriteTmp(t) \/ Finish(t)
      PROVE  Live' \subseteq Live
  <2>1. CASE ReadFile(t)
    <3>1. UNCHANGED group /\ excused \subseteq excused'
      BY <2>1 DEF ReadFile, Missing
    <3>2. \A u \in Threads : /\ task'[u].job = task[u].job /\ task'[u].on = task[u].on
                             /\ task[u].at # "end" /\ u # t => task'[u].at # "end"
      BY <1>0, <2>1 DEF ReadFile, Step
    <3>3. task[t].job = "launch" => task'[t].at # "end"
      BY <1>0, <2>1 DEF ReadFile, Step
    <3>4. \A u \in Threads : task[u].job = "launch" /\ task[u].at # "end" => task'[u].at # "end"
      BY <3>2, <3>3
    <3>5. \A p \in Groups : Launching(p) => Launching(p)'
      BY <3>2, <3>4
    <3> HIDE DEF Launching
    <3> QED
      BY <3>1, <3>5
  <2>2. CASE WriteTmp(t) \/ Finish(t)
    BY <1>0, <2>2 DEF WriteTmp, Finish, At, Step
  <2> QED
    BY <1>3, <2>1, <2>2
<1>4. CASE ReapStep \/ Restart \/ UNCHANGED vars
  <2>1. UNCHANGED <<group, task>> /\ excused \subseteq excused'
    BY <1>4 DEF ReapStep, ReapRead, ReapEnd, ReapWrite, ReapRename, ReapWriteFails, ReapSkip,
       ReapLook, ReapSignal, ReapConfirm, Missing, Overlook, Restart, vars
  <2> QED
    BY <2>1
<1>5. ASSUME NEW p \in Groups, Exit(p) \/ Foreign(p) PROVE Live' \subseteq Live
  BY <1>0, <1>5 DEF Exit, Foreign
<1> QED
  BY <1>1, <1>2, <1>3, <1>4, <1>5 DEF Next, ThreadStep

LEMMA RecordedStep ==
  ASSUME OneAtATime PROVE TypeInv /\ GuardsPin /\ Recorded /\ [Next]_vars => Recorded'
<1> SUFFICES ASSUME TypeInv, GuardsPin, Recorded, [Next]_vars PROVE Recorded'
  OBVIOUS
<1> USE DEF Recorded, JobsKeepRecord, ReapKeepsRecord
<1>0. /\ task \in [Threads -> Tasks]
      /\ group \in [Groups -> {"free", "agent", "zombie"} \cup Others]
      /\ reaper \in Reapers
  BY DEF TypeInv
<1>1. ASSUME NEW t \in Threads, NEW p \in Groups, Spawn(t, p) PROVE Recorded'
  <2>1. Live' \subseteq Live
    <3>1. up /\ up' = up /\ task[t].at = "idle"
      BY <1>1 DEF Spawn, Begin, Idle
    <3>2. ~Crash /\ \A u \in Threads : ~Rename(u) /\ ~WriteFails(u)
      BY <3>1 DEF Crash, Rename, WriteFails, At, OneAtATime
    <3> QED
      BY <3>2, LiveStep
  <2> QED
    BY <1>0, <1>1, <2>1 DEF Spawn, Begin, OneAtATime, Tasks, Idle
<1>2. ASSUME NEW t \in Threads, NEW j \in {"stop", "drop"}, NEW p \in Groups, End(t, j, p)
      PROVE  Recorded'
  <2>1. Live' \subseteq Live
    BY <1>2, LiveStep DEF Crash, End, Begin, Rename, WriteFails, At, OneAtATime, Idle
  <2> QED
    BY <1>0, <1>2, <2>1 DEF End, Begin, OneAtATime, Tasks, Idle
<1>3. ASSUME NEW t \in Threads, ReadFile(t) PROVE Recorded'
  <2>1. Live' \subseteq Live
    BY <1>3, LiveStep DEF Crash, ReadFile, Rename, WriteFails, At, OneAtATime
  <2>2. Live' \cap task[t].on = {} \/ task[t].job = "launch"
    <3>1. task[t].job \in {"launch", "stop", "drop"}
      BY <1>0, <1>3 DEF ReadFile, At, Tasks, Jobs
    <3>2. \A p \in Live : group[p] = "agent" /\ p \notin excused
      BY DEF Live
    <3> QED
      BY <2>1, <3>1, <3>2
  <2>3. PICK list \in Readings :
          /\ Missing(list)
          /\ task' = IF task[t].job = "launch"
                       THEN [task EXCEPT ![t].at = "write", ![t].got = list \cup task[t].on]
                     ELSE IF task[t].on \subseteq list
                       THEN [task EXCEPT ![t].at = "write", ![t].got = list \ task[t].on]
                     ELSE Step(t, "end")
    BY <1>3 DEF ReadFile
  <2>4. UNCHANGED <<group, file, tmp, reaper, up>> /\ task[t].at = "read"
    BY <1>3 DEF ReadFile, At
  <2>5. excused \subseteq excused' /\ Live' \subseteq list
    BY <2>1, <2>3, <2>4 DEF Missing, Live
  <2>6. ReapKeepsRecord' /\ Live' \subseteq file'
    BY <2>1, <2>4
  <2>7. /\ task'[t].job = task[t].job /\ task'[t].on = task[t].on
        /\ task'[t].at \in {"write", "end"}
        /\ task'[t].at = "write" =>
             /\ Live' \subseteq task'[t].got
             /\ task[t].job = "launch" => task[t].on \subseteq task'[t].got
    <3>1. CASE task[t].job = "launch"
      BY <1>0, <2>3, <2>5, <3>1 DEF Tasks
    <3>2. CASE task[t].job # "launch" /\ task[t].on \subseteq list
      BY <1>0, <2>2, <2>3, <2>5, <3>2 DEF Tasks
    <3>3. CASE task[t].job # "launch" /\ ~(task[t].on \subseteq list)
      BY <1>0, <2>3, <3>3 DEF Step, Tasks
    <3> QED
      BY <3>1, <3>2, <3>3
  <2>8. JobsKeepRecord'
    <3>1. \A u \in Threads : u = t
      BY DEF OneAtATime
    <3> QED
      BY <2>4, <2>5, <2>7, <3>1
  <2> QED
    BY <2>6, <2>8
<1>4. ASSUME NEW t \in Threads, WriteTmp(t) PROVE Recorded'
  <2>1. Live' \subseteq Live
    BY <1>4, LiveStep DEF Crash, WriteTmp, Rename, WriteFails, At, OneAtATime
  <2> QED
    <3>1. /\ UNCHANGED <<group, file, reaper, up, excused>> /\ tmp' = {task[t].got}
          /\ task[t].at = "write" /\ reaper.at = "over"
      BY <1>4 DEF WriteTmp, At
    <3>2. /\ task'[t].at = "rename" /\ task'[t].got = task[t].got
          /\ task'[t].on = task[t].on /\ task'[t].job = task[t].job
      BY <1>0, <1>4 DEF WriteTmp, Step, Tasks
    <3>3. ReapKeepsRecord' /\ Live' \subseteq file'
      BY <2>1, <3>1
    <3>4. JobsKeepRecord'
      BY <2>1, <3>1, <3>2 DEF OneAtATime
    <3> QED
      BY <3>3, <3>4
<1>5. ASSUME NEW t \in Threads, Rename(t) PROVE Recorded'
  <2>1. /\ task[t].at = "rename" /\ tmp = {task[t].got} /\ file' = task[t].got /\ tmp' = {}
        /\ Live \subseteq task[t].got
        /\ task[t].job = "launch" => task[t].on \subseteq task[t].got
    <3>1. /\ task[t].at = "rename" /\ tmp = {task[t].got} /\ Live \subseteq task[t].got
          /\ task[t].job = "launch" => task[t].on \subseteq task[t].got
      BY <1>5 DEF Rename, At
    <3>2. UNION {task[t].got} = task[t].got /\ tmp # {}
      BY <3>1
    <3> QED
      BY <1>5, <3>1, <3>2 DEF Rename, Publish
  <2>2. Live' \subseteq Live \cup (IF task[t].job = "launch" THEN task[t].on ELSE {})
    BY <1>0, <1>5 DEF Rename, At, Step, Live, Launching, Tasks
  <2> QED
    BY <1>0, <1>5, <2>1, <2>2 DEF Rename, At, Step, OneAtATime, Tasks
<1>11. ASSUME NEW t \in Threads, WriteFails(t) PROVE Recorded'
  <2>1. /\ UNCHANGED <<group, file, reaper, up>> /\ tmp' = {} /\ reaper.at = "over" /\ up
        /\ excused' = excused \cup {p \in task[t].on : group[p] = "agent" /\ p \notin file}
        /\ task[t].at \in {"write", "rename"}
    BY <1>11 DEF WriteFails, At
  <2>2. /\ task'[t].at = "end" /\ task'[t].on = task[t].on /\ task'[t].job = task[t].job
    BY <1>0, <1>11 DEF WriteFails, Step, Tasks
  <2>3. Live' \subseteq file
    <3>1. ASSUME NEW p \in Live', p \notin Live PROVE p \in file
      <4>1. group[p] = "agent" /\ p \notin excused' /\ p \in Groups
        BY <2>1, <3>1 DEF Live
      <4>2. p \in task[t].on
        BY <2>1, <3>1, <4>1 DEF Live, Launching, OneAtATime
      <4> QED
        BY <2>1, <4>1, <4>2
    <3> QED
      BY <3>1
  <2>4. \A u \in Threads : u = t
    BY DEF OneAtATime
  <2>5. JobsKeepRecord'
    BY <2>1, <2>2, <2>4
  <2> QED
    BY <2>1, <2>3, <2>5
<1>6. ASSUME NEW t \in Threads, Finish(t) PROVE Recorded'
  <2>1. Live' \subseteq Live
    BY <1>6, LiveStep DEF Crash, Finish, Rename, WriteFails, At, OneAtATime
  <2> QED
    BY <1>0, <1>6, <2>1 DEF Finish, At, OneAtATime, Tasks, Idle
<1>7. CASE ReapStep
  <2>1. Live' \subseteq Live
    <3>1. up /\ up' = up /\ reaper.at # "over"
      BY <1>7 DEF ReapStep, ReapRead, ReapEnd, ReapWrite, ReapRename, ReapWriteFails, ReapSkip,
         ReapLook, ReapSignal, ReapConfirm, Reaping
    <3>2. ~Crash
      BY <3>1 DEF Crash
    <3>3. \A t \in Threads : ~Rename(t) /\ ~WriteFails(t)
      BY <3>1 DEF Rename, WriteFails, At
    <3> QED
      BY <3>2, <3>3, LiveStep
  <2>2. ReapKeepsRecord' /\ Live' \subseteq file'
    <3>1. CASE ReapEnd \/ ReapWrite \/ ReapRename \/ ReapWriteFails
      BY <1>0, <2>1, <3>1
         DEF ReapEnd, ReapWrite, ReapRename, ReapWriteFails, Reaping, Resting, Publish, Reapers
    <3>5. CASE ReapRead
      <4>1. PICK list \in Readings :
              /\ reaper' = IF list = {} THEN Resting("over")
                                        ELSE [Resting("check") EXCEPT !.todo = list]
              /\ Missing(list)
        BY <3>5 DEF ReapRead
      <4>2. UNCHANGED <<group, file, task>>
        BY <3>5 DEF ReapRead
      <4>3. Live' \subseteq list
        BY <2>1, <4>1, <4>2 DEF Missing, Live
      <4>4. Live' \subseteq file'
        BY <2>1, <4>2
      <4>5. \/ reaper'.at = "over"
            \/ reaper'.at = "check" /\ reaper'.on = {} /\ reaper'.todo = list
        BY <4>1 DEF Resting
      <4> QED
        BY <4>3, <4>4, <4>5
    <3>6. ASSUME NEW p \in Groups, ReapLook(p) PROVE ReapKeepsRecord' /\ Live' \subseteq file'
      <4>1. /\ reaper'.at = "signal" /\ reaper'.on = {p} /\ reaper'.todo = reaper.todo \ {p}
            /\ reaper'.survivors = reaper.survivors /\ UNCHANGED file /\ reaper.at = "check"
        BY <1>0, <3>6 DEF ReapLook, Reaping, Reapers
      <4> QED
        BY <2>1, <4>1
    <3>2. ASSUME NEW p \in Groups, ReapSkip(p) PROVE ReapKeepsRecord' /\ Live' \subseteq file'
      BY <1>0, <2>1, <3>2 DEF ReapSkip, Overlook, Reaping, Reapers, Live
    <3>3. ASSUME NEW p \in Groups, ReapSignal(p) PROVE ReapKeepsRecord' /\ Live' \subseteq file'
      <4>1. /\ reaper.at = "signal" /\ reaper.on = {p} /\ UNCHANGED <<file, tmp>>
            /\ Live \subseteq reaper.todo \cup {p} \cup reaper.survivors
        BY <3>3 DEF ReapSignal, Reaping
      <4>2. \/ /\ reaper'.at = "check" /\ reaper'.on = {} /\ reaper'.todo = reaper.todo
               /\ reaper'.survivors = reaper.survivors \cup {p}
            \/ /\ reaper'.at = "confirm" /\ reaper'.on = {p} /\ reaper'.todo = reaper.todo
               /\ reaper'.survivors = reaper.survivors
        BY <1>0, <3>3, <4>1 DEF ReapSignal, Reapers
      <4> QED
        BY <2>1, <4>1, <4>2
    <3>4. ASSUME NEW p \in Groups, ReapConfirm(p) PROVE ReapKeepsRecord' /\ Live' \subseteq file'
      <4>1. PICK more \in {{}, {p}} :
              /\ more = {} => p \notin Live'
              /\ reaper' = [reaper EXCEPT !.at = "check", !.on = {},
                              !.survivors = reaper.survivors \cup more]
        BY <3>4 DEF ReapConfirm, Overlook, Live
      <4>2. /\ reaper.at = "confirm" /\ reaper.on = {p} /\ UNCHANGED <<file, tmp>>
            /\ Live \subseteq reaper.todo \cup reaper.on \cup reaper.survivors
        BY <1>0, <3>4 DEF ReapConfirm, Reaping, AtMostOne
      <4>3. /\ reaper'.at = "check" /\ reaper'.on = {} /\ reaper'.todo = reaper.todo
            /\ reaper'.survivors = reaper.survivors \cup more
        BY <1>0, <4>1 DEF Reapers
      <4>4. p \in Live' => p \in more
        BY <4>1
      <4> QED
        BY <2>1, <4>2, <4>3, <4>4
    <3> QED
      BY <1>7, <3>1, <3>2, <3>3, <3>4, <3>5, <3>6 DEF ReapStep
  <2>3. JobsKeepRecord'
    <3>1. UNCHANGED <<group, task, up>> /\ reaper.at # "over"
      BY <1>7 DEF ReapStep, ReapRead, ReapEnd, ReapWrite, ReapRename, ReapWriteFails, ReapSkip,
         ReapLook, ReapSignal, ReapConfirm, Reaping
    <3> QED
      BY <3>1
  <2> QED
    BY <2>2, <2>3
<1>8. CASE Crash
  <2>1. Live' \subseteq file'
    BY <1>0, <1>8 DEF Crash, Live, Launching, Idle
  <2> QED
    BY <1>0, <1>8, <2>1 DEF Crash, Idle, Resting
<1>9. CASE Restart \/ UNCHANGED vars
  BY <1>0, <1>9 DEF Restart, vars, Live, Launching
<1>10. ASSUME NEW p \in Groups, Exit(p) \/ Foreign(p) PROVE Recorded'
  <2>1. Live' \subseteq Live
    BY <1>0, <1>10 DEF Exit, Foreign, Live, Launching, Others
  <2>2. UNCHANGED <<file, tmp, task, reaper, up>>
        /\ \A q \in Groups : group'[q] = "agent" => group[q] = "agent" /\ (q \in excused => q \in excused')
    BY <1>0, <1>10 DEF Exit, Foreign, Others
  <2>3. JobsKeepRecord'
    BY <1>0, <2>1, <2>2 DEF Tasks
  <2>4. ReapKeepsRecord' /\ Live' \subseteq file'
    BY <2>1, <2>2
  <2> QED
    BY <2>3, <2>4
<1> QED
  BY <1>1, <1>2, <1>3, <1>4, <1>5, <1>6, <1>7, <1>8, <1>9, <1>10, <1>11
     DEF Next, ThreadStep

(* While one thread at a time launches, stops or drops, every live agent     *)
(* that was not ended the ordinary way is written down, through any number   *)
(* of crashes at any step; a write or a read that fails and a look that      *)
(* misses cost only the agents they are about.                               *)
THEOREM NobodyForgotten == ASSUME OneAtATime PROVE Spec => []LiveAgentsRecorded
<1>1. Init => TypeInv /\ GuardsPin /\ Recorded
  BY TypeInit, GuardsPinInit, RecordedInit
<1>2. TypeInv /\ GuardsPin /\ Recorded /\ [Next]_vars
        => TypeInv' /\ GuardsPin' /\ Recorded'
  BY TypeStep, GuardsPinStep, RecordedStep
<1>3. Recorded => LiveAgentsRecorded
  BY DEF Recorded, Live, LiveAgentsRecorded
<1> QED
  BY <1>1, <1>2, <1>3, PTL DEF Spec
===========================================================================
