----------------------------- MODULE Launching -----------------------------
(***************************************************************************)
(* From "which agent" to an agent that has answered: what Lookup found is   *)
(* handed to Agent::launch, which spawns it.  Between the two the product   *)
(* may do as it likes and the disk may change; a file that is there need    *)
(* not be one the system will run.                                          *)
(***************************************************************************)
EXTENDS Lookup, Startup

CONSTANTS
  Runnable,    \* the directories whose files may be executed
  PassesPath   \* whether the product hands the agent spawn_path for a PATH

ASSUME RunnableAssumption == Runnable \subseteq Dirs \cup {Elsewhere} /\ PassesPath \in BOOLEAN

vars == <<lookupVars, startupVars>>

Init == LookupInit /\ StartupInit

(* Both halves are of their types.                                         *)
TypeOK == LookupTypeOK /\ StartupTypeOK

(* The system looks a bare name up for itself, on the PATH the child is     *)
(* given, or the one this process has, and passes over what it cannot run.  *)
Searched == IF PassesPath THEN Directories ELSE Given

Runs(bin, there) ==
  IF bin = Bare THEN \E d \in ToSet(Searched) \cap Runnable : <<d, Wrapper>> \in there
                ELSE bin \in there /\ bin[1] \in Runnable

(* Whatever the file, there may be no such cwd, or no process to be had.    *)
SpawnFound ==
  \E l \in launch :
    \/ Runs(l.bin, files) /\ Spawn /\ Used
    \/ ~Runs(l.bin, files) /\ SpawnFails("spawn") /\ UNCHANGED lookupVars
    \/ SpawnFails("denied") /\ UNCHANGED lookupVars

ChangeBeforeSpawn == pc = "found" /\ stage = "spawning" /\ Change

Next ==
  \/ (LookupNext \/ ChangeBeforeSpawn) /\ UNCHANGED startupVars
  \/ SpawnFound
  \/ StartupNext /\ UNCHANGED lookupVars

Spec == Init /\ [][Next]_vars

(* The product goes on to spawn what was found; the client's tasks are      *)
(* polled; time passes.  Nothing is assumed of the agent.                   *)
FairSpec ==
  /\ Spec
  /\ WF_vars(LookupStep /\ UNCHANGED startupVars)
  /\ WF_vars(SpawnFound)
  /\ WF_vars(LaunchStep /\ UNCHANGED lookupVars)
  /\ WF_vars(ReaderStep /\ UNCHANGED lookupVars)
  /\ WF_vars(StderrStep /\ UNCHANGED lookupVars)
  /\ WF_vars((StartupOver \/ GraceOver) /\ UNCHANGED lookupVars)

---------------------------------------------------------------------------
(* A spawn that fails over its file fails for one of three reasons: what    *)
(* was found cannot be run, it was not there all the time, or it was named   *)
(* by its name alone and found where the system does not look - which a      *)
(* product that passes spawn_path on never meets.  Launch never names a file *)
(* that was nowhere (launch in acp-agents, Agent::launch in acp-client).     *)
SpawnFailsForCause ==
  why = "spawn" =>
    \A l \in launch : \E d \in Dirs \cup {Elsewhere} :
      /\ l.bin \in {Bare, <<d, l.bin[2]>>}
      /\ <<d, l.bin[2]>> \in ever
      /\ \/ d \notin Runnable \/ <<d, l.bin[2]>> \notin steady
         \/ l.bin = Bare /\ d \notin ToSet(Searched)
      /\ l.bin = Bare => d \in ToSet(path)

(* Whatever is on the disk and whatever the agent does, the product gets    *)
(* its answer: no such agent, an agent that answered, or a failure - even    *)
(* while something the agent left behind holds its stderr open.             *)
LaunchEnds == <>(pc = "nowhere" \/ stage \in {"up", "failed"})
===========================================================================
