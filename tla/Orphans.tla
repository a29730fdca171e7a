------------------------------ MODULE Orphans ------------------------------
(***************************************************************************)
(* The agents' process groups, the guards that own them and the registry    *)
(* file that outlives the product (acp-client/src/orphans.rs, and           *)
(* Agent::launch, stop and ChildGuard in agent.rs).                         *)
(*                                                                          *)
(* A registry entry is the group's id; the command recorded beside it is    *)
(* what is to tell an agent from a process of the machine's owner that      *)
(* wears a reused id.  It is compared by name, so an owner who runs the      *)
(* agent's program himself wears a lookalike; and the look comes before the *)
(* signal.  The file is read whole and replaced whole: a temporary is        *)
(* written, then renamed over it.  Every look, signal, read, temporary and   *)
(* rename is a step; the product may be killed between any two, and the      *)
(* disk may fail any read or write.                                          *)
(***************************************************************************)
EXTENDS Naturals, FiniteSets

CONSTANTS
  Groups,     \* the process group ids the machine hands out
  Threads,    \* the product's threads that may launch, stop or drop at once
  Deaf,       \* group ids whose holder ignores SIGTERM
  Refusing,   \* group ids whose holder this user may not signal
  PsMayFail,  \* whether ps may not run, or not show an agent by its name
  DiskMayFail, \* whether the list may turn out unreadable or unwritable
  LookAlikes, \* whether the owner may run what an agent's name matches
  MaxCrashes  \* bound: how often the product is killed

ASSUME ThreadsAssumption == Threads # {} /\ Deaf \cup Refusing \subseteq Groups
ASSUME CrashesAssumption == MaxCrashes \in Nat
ASSUME WhimsAssumption == {PsMayFail, DiskMayFail, LookAlikes} \subseteq BOOLEAN

VARIABLES
  group,     \* who wears each id
  signalled, \* groups whose holder was sent SIGTERM
  file,      \* the registry's entries; a missing file reads as none
  tmp,       \* {} or {contents} of the temporary beside it
  held,      \* the groups whose ChildGuard exists
  task,      \* per thread: what it is doing, at which step, to which group
  reaper,    \* reap: where it is, what it has left, what resisted
  up,        \* whether the product is running
  crashes,
  excused,   \* history: live groups ended the ordinary way, never recorded,
             \* overlooked by a reap, or on a list that could not be read
  stale      \* history: what the reap is about to signal has changed hands
             \* since it looked

vars == <<group, signalled, file, tmp, held, task, reaper, up, crashes, excused, stale>>

Others == {"foreign"} \cup (IF LookAlikes THEN {"lookalike"} ELSE {})
Jobs == {"none", "launch", "stop", "drop"}
Idle == [job |-> "none", at |-> "idle", on |-> {}, got |-> {}]
Resting(step) == [at |-> step, todo |-> {}, on |-> {}, survivors |-> {}]

(* Every variable is of its type, and a job is about one group.            *)
TypeOK ==
  /\ group \in [Groups -> {"free", "agent", "zombie"} \cup Others]
  /\ signalled \subseteq Groups /\ file \subseteq Groups
  /\ tmp \subseteq SUBSET Groups /\ Cardinality(tmp) <= 1
  /\ held \subseteq Groups /\ excused \subseteq Groups
  /\ task \in [Threads -> [job : Jobs, at : {"idle", "read", "write", "rename", "end"},
                           on : SUBSET Groups, got : SUBSET Groups]]
  /\ \A t \in Threads : Cardinality(task[t].on) = (IF task[t] = Idle THEN 0 ELSE 1)
  /\ reaper \in [at : {"read", "check", "signal", "confirm", "write", "rename", "over"},
                 todo : SUBSET Groups, on : SUBSET Groups, survivors : SUBSET Groups]
  /\ up \in BOOLEAN /\ crashes \in 0..MaxCrashes /\ stale \in BOOLEAN

Init ==
  /\ group = [p \in Groups |-> "free"] /\ signalled = {}
  /\ file = {} /\ tmp = {} /\ held = {}
  /\ task = [t \in Threads |-> Idle]
  /\ reaper = Resting("read") /\ up = TRUE /\ crashes = 0 /\ excused = {}
  /\ stale = FALSE

---------------------------------------------------------------------------
(* The operating system.                                                   *)

(* A Child nobody has waited for keeps its id, dead or alive.              *)
Pinned(p) == p \in held \/ \E t \in Threads : p \in task[t].on

KillGroup(p) ==
  signalled' = IF group[p] \in {"agent"} \cup Others /\ p \notin Refusing
                 THEN signalled \cup {p} ELSE signalled

(* Somebody else wears the id the reap has just looked at.                 *)
Passes(p) == stale' = (stale \/ (reaper.at = "signal" /\ p \in reaper.on))

Exit(p) ==
  /\ group[p] = "agent"
  /\ group' = [group EXCEPT ![p] = IF Pinned(p) THEN "zombie" ELSE "free"]
  /\ signalled' = signalled \ {p} /\ excused' = excused \ {p}
  /\ Passes(p)
  /\ UNCHANGED <<file, tmp, held, task, reaper, up, crashes>>

(* A free id goes to a process of the machine's owner, and comes back.     *)
Foreign(p) ==
  /\ \/ group[p] = "free" /\ \E o \in Others : group' = [group EXCEPT ![p] = o]
     \/ group[p] \in Others /\ group' = [group EXCEPT ![p] = "free"]
  /\ signalled' = signalled \ {p}
  /\ Passes(p)
  /\ UNCHANGED <<file, tmp, held, task, reaper, up, crashes, excused>>

---------------------------------------------------------------------------
(* Launching, stopping and dropping an agent.                              *)

Begin(t, j, p) ==
  /\ up /\ reaper.at = "over" /\ task[t] = Idle
  /\ task' = [task EXCEPT ![t] = [job |-> j, at |-> "read", on |-> {p}, got |-> {}]]

(* launch: the process is spawned into a group of its own, then recorded.  *)
Spawn(t, p) ==
  /\ group[p] = "free"
  /\ Begin(t, "launch", p)
  /\ group' = [group EXCEPT ![p] = "agent"]
  /\ UNCHANGED <<signalled, file, tmp, held, reaper, up, crashes, excused, stale>>

(* ChildGuard::stop leaves the guard where it is; Drop ends it, when       *)
(* nobody else can still be stopping through it.                           *)
End(t, j, p) ==
  /\ j \in {"stop", "drop"} /\ p \in held
  /\ \A u \in Threads : p \notin task[u].on
  /\ Begin(t, j, p)
  /\ KillGroup(p)
  /\ held' = IF j = "drop" THEN held \ {p} ELSE held
  /\ excused' = IF group[p] = "agent" THEN excused \cup {p} ELSE excused
  /\ UNCHANGED <<group, file, tmp, reaper, up, crashes, stale>>

At(t, step) == up /\ task[t].at = step
Step(t, to) == [task EXCEPT ![t].at = to]

(* read: a list that cannot be read or parsed is an empty one.  What stood  *)
(* on it is lost with the next write.                                      *)
Readings == IF DiskMayFail THEN {file, {}} ELSE {file}
Missing(list) == excused' = excused \cup {p \in file \ list : group[p] = "agent"}

(* register, unregister: read, then the new list; unregister writes        *)
(* nothing when there is nothing to strike out.                            *)
ReadFile(t) ==
  /\ At(t, "read")
  /\ \E list \in Readings :
       /\ task' = IF task[t].job = "launch"
                    THEN [task EXCEPT ![t].at = "write", ![t].got = list \cup task[t].on]
                  ELSE IF task[t].on \subseteq list
                    THEN [task EXCEPT ![t].at = "write", ![t].got = list \ task[t].on]
                  ELSE Step(t, "end")
       /\ Missing(list)
  /\ UNCHANGED <<group, signalled, file, tmp, held, reaper, up, crashes, stale>>

WriteOwnTmp(t) ==   \* slip: a temporary for every write, never cleaned up
  /\ At(t, "write")
  /\ tmp' = tmp \cup {task[t].got}
  /\ task' = Step(t, "rename")
  /\ UNCHANGED <<group, signalled, file, held, reaper, up, crashes, excused, stale>>

(* write: the temporary's name is the same for every writer.               *)
WriteTmp(t) ==
  /\ At(t, "write")
  /\ tmp' = {task[t].got}
  /\ task' = Step(t, "rename")
  /\ UNCHANGED <<group, signalled, file, held, reaper, up, crashes, excused, stale>>

(* rename: publishes whatever the temporary holds by now; it fails, and is *)
(* only warned about, when another writer has taken the temporary away.    *)
Publish == IF tmp = {} THEN UNCHANGED <<file, tmp>>
                       ELSE file' = UNION tmp /\ tmp' = {}

Rename(t) ==
  /\ At(t, "rename")
  /\ Publish
  /\ task' = Step(t, "end")
  /\ UNCHANGED <<group, signalled, held, reaper, up, crashes, excused, stale>>

(* write: whichever half fails, the temporary goes and the file stays; the *)
(* agent being launched runs on, written down nowhere.                      *)
WriteFails(t) ==
  /\ DiskMayFail /\ (At(t, "write") \/ At(t, "rename"))
  /\ tmp' = {}
  /\ task' = Step(t, "end")
  /\ excused' = excused \cup {p \in task[t].on : group[p] = "agent" /\ p \notin file}
  /\ UNCHANGED <<group, signalled, file, held, reaper, up, crashes, stale>>

(* A launch ends with its guard, a drop by letting go of the child.        *)
Finish(t) ==
  /\ At(t, "end")
  /\ task' = [task EXCEPT ![t] = Idle]
  /\ held' = IF task[t].job = "launch" THEN held \cup task[t].on ELSE held
  /\ group' = [p \in Groups |->
                 IF task[t].job = "drop" /\ p \in task[t].on /\ group[p] = "zombie"
                   THEN "free" ELSE group[p]]
  /\ UNCHANGED <<signalled, file, tmp, reaper, up, crashes, excused, stale>>

---------------------------------------------------------------------------
(* reap, at startup, before anything spawns.                               *)

Reaping(step) == up /\ reaper.at = step

ReapRead ==
  /\ Reaping("read")
  /\ \E list \in Readings :
       /\ reaper' = IF list = {} THEN Resting("over")
                                 ELSE [Resting("check") EXCEPT !.todo = list]
       /\ Missing(list)
  /\ UNCHANGED <<group, signalled, file, tmp, held, task, up, crashes, stale>>

(* still_ours: a live process of the group has the recorded command's last *)
(* path component somewhere in its command line.                            *)
LooksOurs(p) == group[p] \in {"agent", "lookalike"}
(* group_commands: a ps that does not run shows an empty group.            *)
LooksEmpty(p) == group[p] = "free" \/ PsMayFail
Overlook(p) == excused' = IF group[p] = "agent" THEN excused \cup {p} ELSE excused

(* An entry nobody answers to, or nobody is seen to, is dropped.           *)
ReapSkip(p) ==
  /\ Reaping("check") /\ p \in reaper.todo
  /\ ~LooksOurs(p) \/ PsMayFail
  /\ reaper' = [reaper EXCEPT !.todo = @ \ {p}]
  /\ Overlook(p)
  /\ UNCHANGED <<group, signalled, file, tmp, held, task, up, crashes, stale>>

ReapBlindly(p) ==   \* slip: whoever wears the id is taken for an agent
  /\ Reaping("check") /\ p \in reaper.todo
  /\ group[p] # "free"
  /\ reaper' = [reaper EXCEPT !.todo = @ \ {p}, !.at = "signal", !.on = {p}]
  /\ stale' = FALSE
  /\ UNCHANGED <<group, signalled, file, tmp, held, task, up, crashes, excused>>

ReapLook(p) ==
  /\ Reaping("check") /\ p \in reaper.todo
  /\ LooksOurs(p)
  /\ reaper' = [reaper EXCEPT !.todo = @ \ {p}, !.at = "signal", !.on = {p}]
  /\ stale' = FALSE
  /\ UNCHANGED <<group, signalled, file, tmp, held, task, up, crashes, excused>>

ReapUnsignalled(p) ==   \* slip: waits for a death nobody asked for
  /\ Reaping("signal") /\ p \in reaper.on
  /\ reaper' = [reaper EXCEPT !.at = "confirm"]
  /\ stale' = FALSE
  /\ UNCHANGED <<group, signalled, file, tmp, held, task, up, crashes, excused>>

(* killpg goes to whoever wears the id by now; where there is nobody, or   *)
(* somebody this user may not signal, the entry stays on the list.         *)
ReapSignal(p) ==
  /\ Reaping("signal") /\ p \in reaper.on
  /\ KillGroup(p)
  /\ reaper' = IF p \in Refusing \/ group[p] = "free"
       THEN [reaper EXCEPT !.at = "check", !.on = {}, !.survivors = @ \cup {p}]
       ELSE [reaper EXCEPT !.at = "confirm"]
  /\ stale' = FALSE
  /\ UNCHANGED <<group, file, tmp, held, task, up, crashes, excused>>

(* Ten looks for an empty group, or it stays on the list.                  *)
ReapConfirm(p) ==
  /\ Reaping("confirm") /\ p \in reaper.on
  /\ \E kept \in {{}, {p}} :
       /\ IF kept = {} THEN LooksEmpty(p) /\ Overlook(p)
                       ELSE group[p] # "free" /\ UNCHANGED excused
       /\ reaper' = [reaper EXCEPT !.at = "check", !.on = {},
                       !.survivors = @ \cup kept]
  /\ UNCHANGED <<group, signalled, file, tmp, held, task, up, crashes, stale>>

ReapForgetful ==   \* slip: the file goes whatever resisted
  /\ Reaping("check") /\ reaper.todo = {}
  /\ file' = {} /\ reaper' = Resting("over")
  /\ UNCHANGED <<group, signalled, tmp, held, task, up, crashes, excused, stale>>

(* What resisted is written back; with nothing left the file goes, if it   *)
(* can be removed.                                                         *)
ReapEnd ==
  /\ Reaping("check") /\ reaper.todo = {}
  /\ IF reaper.survivors = {}
       THEN /\ file' = {} \/ (DiskMayFail /\ UNCHANGED file)
            /\ reaper' = Resting("over")
       ELSE UNCHANGED file /\ reaper' = [reaper EXCEPT !.at = "write"]
  /\ UNCHANGED <<group, signalled, tmp, held, task, up, crashes, excused, stale>>

ReapWrite ==
  /\ Reaping("write")
  /\ tmp' = {reaper.survivors}
  /\ reaper' = [reaper EXCEPT !.at = "rename"]
  /\ UNCHANGED <<group, signalled, file, held, task, up, crashes, excused, stale>>

ReapRename ==
  /\ Reaping("rename")
  /\ Publish
  /\ reaper' = Resting("over")
  /\ UNCHANGED <<group, signalled, held, task, up, crashes, excused, stale>>

(* The list stays as it was, with what is dead by now still on it.         *)
ReapWriteFails ==
  /\ DiskMayFail /\ (Reaping("write") \/ Reaping("rename"))
  /\ tmp' = {}
  /\ reaper' = Resting("over")
  /\ UNCHANGED <<group, signalled, file, held, task, up, crashes, excused, stale>>

---------------------------------------------------------------------------
(* kill -9: no destructor runs, every child goes to init.  What is still on *)
(* the list is the next launch's to take down, whoever was about to strike   *)
(* it out.                                                                  *)
Crash ==
  /\ up /\ crashes < MaxCrashes
  /\ up' = FALSE /\ crashes' = crashes + 1
  /\ group' = [p \in Groups |-> IF group[p] = "zombie" THEN "free" ELSE group[p]]
  /\ held' = {} /\ task' = [t \in Threads |-> Idle] /\ reaper' = Resting("read")
  /\ excused' = (excused \ file) \cup
       {p \in Groups : group[p] = "agent" /\ p \notin file
                       /\ \E t \in Threads : task[t].job = "launch" /\ p \in task[t].on}
  /\ stale' = FALSE
  /\ UNCHANGED <<signalled, file, tmp>>

Restart ==
  /\ ~up /\ up' = TRUE
  /\ UNCHANGED <<group, signalled, file, tmp, held, task, reaper, crashes, excused, stale>>

ReapStep ==
  \/ ReapRead \/ ReapEnd \/ ReapWrite \/ ReapRename \/ ReapWriteFails
  \/ \E p \in Groups : ReapSkip(p) \/ ReapLook(p) \/ ReapSignal(p) \/ ReapConfirm(p)

ThreadStep(t) == ReadFile(t) \/ WriteTmp(t) \/ Rename(t) \/ WriteFails(t) \/ Finish(t)

Next ==
  \/ \E t \in Threads :
       \/ ThreadStep(t)
       \/ \E p \in Groups : Spawn(t, p) \/ \E j \in {"stop", "drop"} : End(t, j, p)
  \/ ReapStep \/ Crash \/ Restart
  \/ \E p \in Groups : Exit(p) \/ Foreign(p)

Spec == Init /\ [][Next]_vars

(* A product that was killed is started again and its startup runs; an     *)
(* agent that does not ignore SIGTERM obeys it.                            *)
FairSpec ==
  /\ Spec
  /\ WF_vars(Restart) /\ WF_vars(ReapStep)
  /\ \A p \in Groups \ Deaf : WF_vars(Exit(p) /\ p \in signalled)

---------------------------------------------------------------------------
Launching(p) ==
  \E t \in Threads : task[t].job = "launch" /\ task[t].at # "end" /\ p \in task[t].on

(* Every live agent that was not ended the ordinary way is written down,    *)
(* through crashes at any step, restarts, reused ids and groups that shrug  *)
(* off SIGTERM, so that the next launch can finish the job.  A failure costs *)
(* only the agents it is about: the one a product was killed before          *)
(* recording, or whose write failed; the one a look missed; those on a list  *)
(* that could not be read, unless a crash finds them in the file still       *)
(* (register, unregister, write, read, reap).                                *)
LiveAgentsRecorded ==
  \A p \in Groups :
    group[p] = "agent" /\ p \notin excused /\ ~Launching(p) => p \in file

TakenForOurs(p) ==
  /\ reaper.at = "signal" /\ p \in reaper.on /\ p \in file
  /\ group[p] = "lookalike" \/ stale

(* A stop or a drop never signals a process of the machine's owner, not     *)
(* even after the agent has died.  A reap may, and only so: the id is on    *)
(* the list, and its holder either goes by the agent's name or has come     *)
(* after the one the reap had just looked at (ChildGuard, still_ours,       *)
(* reap).                                                                   *)
OnlyOursSignalled ==
  [][\A p \in Groups : p \in signalled' \ signalled =>
       group[p] = "agent" \/ TakenForOurs(p)]_vars

(* What a killed product leaves behind is taken down by a later launch: an  *)
(* agent that outlived its product and obeys SIGTERM does not stay, unless   *)
(* the reap could not read the list or did not see it (reap).               *)
OrphansGo ==
  \A p \in Groups \ (Deaf \cup Refusing) :
    (~up /\ group[p] = "agent" /\ p \in file)
      ~> (group[p] # "agent" \/ Pinned(p) \/ p \in excused)
===========================================================================
