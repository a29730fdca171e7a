------------------------------- MODULE Knobs -------------------------------
(***************************************************************************)
(* The knobs of one session: Session::options, set_config and apply         *)
(* (acp-client/src/session.rs), session_options and the Config event        *)
(* (event.rs), against an agent whose knobs withdraw one another.           *)
(*                                                                          *)
(* What the agent states about its knobs is which of them it offers and     *)
(* which have been chosen.  An empty list is no statement at all.  apply    *)
(* runs before the product has the Session (Agent::new_session,             *)
(* load_session); set_config is called by any number of tasks after that.   *)
(***************************************************************************)
EXTENDS Naturals, Sequences

CONSTANTS
  KnobIds,
  Wanted,     \* SessionOpts::config: the knobs apply sets, in order
  Setters,    \* the product's calls of set_config
  Sets,       \* the knob each of them sets
  Withdraws,  \* the knobs each knob withdraws when it is set
  Apply,      \* the task that runs apply
  Helpful,    \* whether the agent answers everything, with its full list
  MaxOwn      \* bound: changes the agent makes of its own accord

ASSUME KnobsAssumption ==
  /\ Wanted \in Seq(KnobIds) /\ Sets \in [Setters -> KnobIds]
  /\ Withdraws \in [KnobIds -> SUBSET KnobIds]
  /\ \A k \in KnobIds : k \notin Withdraws[k]
  /\ Apply \notin Setters /\ Helpful \in BOOLEAN /\ MaxOwn \in Nat

Tasks == Setters \cup {Apply}
Statements == [offered : SUBSET KnobIds, chosen : SUBSET KnobIds]
Requests == [by : Tasks, nth : Nat, knob : KnobIds]
Replies == [to : Requests, says : Statements] \cup [to : Requests, refuses : {TRUE}]

VARIABLES
  options,    \* the list behind Session's lock
  pc,         \* where each task is
  at,         \* the request each task makes: for apply, its place in Wanted
  reply,      \* per task: {} or {the reply its wait was given}
  wire,       \* requests on their way to the agent
  back,       \* replies on their way to the reader
  now,        \* agent: its knobs as they are
  own,        \* agent: changes made of its own accord
  stated,     \* history: what the agent last stated, to anybody
  uninformed, \* history: a statement was withheld, missed or never asked for
  refused     \* history: the requests the agent refused

client == <<options, pc, at, reply>>
vars == <<client, wire, back, now, own, stated, uninformed, refused>>

Nothing == [offered |-> {}, chosen |-> {}]
Everything == [offered |-> KnobIds, chosen |-> {}]
Knob(t) == IF t = Apply THEN Wanted[at[t]] ELSE Sets[t]
Request(t) == [by |-> t, nth |-> at[t], knob |-> Knob(t)]

(* Every variable is of its type, and apply is within its list.            *)
TypeOK ==
  /\ options \in Statements
  /\ pc \in [Tasks -> {"new", "next", "asking", "waiting", "replied", "done"}]
  /\ at \in [Tasks -> Nat] /\ at[Apply] \in 1..(Len(Wanted) + 1)
  /\ pc[Apply] \in {"asking", "waiting", "replied"} => at[Apply] <= Len(Wanted)
  /\ \A t \in Tasks : reply[t] \subseteq Replies
  /\ wire \in Seq(Requests) /\ back \in Seq(Replies)
  /\ now \in Statements /\ stated \in Statements /\ own \in 0..MaxOwn
  /\ uninformed \in BOOLEAN /\ refused \subseteq Requests

(* The session has just been opened, by a reply that may say nothing about  *)
(* knobs.                                                                   *)
Init ==
  /\ options \in {Everything} \cup IF Helpful THEN {} ELSE {Nothing}
  /\ pc = [t \in Tasks |-> IF t = Apply THEN "next" ELSE "new"]
  /\ at = [t \in Tasks |-> 1] /\ reply = [t \in Tasks |-> {}]
  /\ wire = <<>> /\ back = <<>>
  /\ now = Everything /\ own = 0
  /\ stated = options /\ uninformed = (options = Nothing) /\ refused = {}

---------------------------------------------------------------------------
(* The tasks.                                                              *)

Goto(t, label) == pc' = [pc EXCEPT ![t] = label]

OfferedOnce(k) == k \in Everything.offered   \* slip: the list of the opening

Offered(k) == options.offered = {} \/ k \in options.offered

(* apply: on to the next knob, over the ones withdrawn by now.             *)
NextKnob ==
  /\ pc[Apply] = "next"
  /\ IF at[Apply] > Len(Wanted) THEN Goto(Apply, "done") /\ UNCHANGED at
     ELSE IF Offered(Wanted[at[Apply]]) THEN Goto(Apply, "asking") /\ UNCHANGED at
     ELSE UNCHANGED pc /\ at' = [at EXCEPT ![Apply] = @ + 1]
  /\ UNCHANGED <<options, reply, wire, back, now, own, stated, uninformed, refused>>

(* new_session hands out the Session once apply is over.  A product that    *)
(* calls apply again, which it may, is one more setter.                     *)
SetConfig(t) ==
  /\ t \in Setters /\ pc[t] = "new" /\ pc[Apply] = "done"
  /\ Goto(t, "asking")
  /\ UNCHANGED <<options, at, reply, wire, back, now, own, stated, uninformed, refused>>

Ask(t) ==
  /\ pc[t] = "asking"
  /\ wire' = Append(wire, Request(t))
  /\ Goto(t, "waiting")
  /\ UNCHANGED <<options, at, reply, back, now, own, stated, uninformed, refused>>

GoOnTwice(t) ==   \* slip: the next knob is skipped as well
  IF t = Apply THEN Goto(t, "next") /\ at' = [at EXCEPT ![t] = @ + 2]
               ELSE Goto(t, "done") /\ UNCHANGED at

(* How a task goes on when one request is over, well or not.               *)
GoOn(t) ==
  IF t = Apply THEN Goto(t, "next") /\ at' = [at EXCEPT ![t] = @ + 1]
               ELSE Goto(t, "done") /\ UNCHANGED at

RecordAsked(t) ==   \* slip: what was asked for, not what the agent said
  /\ pc[t] = "replied"
  /\ options' = [options EXCEPT !.chosen = @ \cup {Knob(t)}]
  /\ reply' = [reply EXCEPT ![t] = {}]
  /\ GoOn(t)
  /\ UNCHANGED <<wire, back, now, own, stated, uninformed, refused>>

RecordEmpty(t) ==   \* slip: an empty list replaces ours too
  /\ pc[t] = "replied"
  /\ \E r \in reply[t] : options' = IF "says" \in DOMAIN r THEN r.says ELSE options
  /\ reply' = [reply EXCEPT ![t] = {}]
  /\ GoOn(t)
  /\ UNCHANGED <<wire, back, now, own, stated, uninformed, refused>>

KeepOurs(t) ==   \* slip: a list is taken only where we have none
  /\ pc[t] = "replied"
  /\ \E r \in reply[t] :
       options' = IF "says" \in DOMAIN r /\ options = Nothing THEN r.says ELSE options
  /\ reply' = [reply EXCEPT ![t] = {}]
  /\ GoOn(t)
  /\ UNCHANGED <<wire, back, now, own, stated, uninformed, refused>>

(* set_config: the agent's list replaces ours, unless it is empty; a        *)
(* refusal leaves ours alone.                                               *)
Record(t) ==
  /\ pc[t] = "replied"
  /\ \E r \in reply[t] :
       options' = IF "says" \in DOMAIN r /\ r.says.offered # {} THEN r.says ELSE options
  /\ reply' = [reply EXCEPT ![t] = {}]
  /\ GoOn(t)
  /\ UNCHANGED <<wire, back, now, own, stated, uninformed, refused>>

GiveUpLater(t) ==   \* slip: apply waits as long as a turn would
  /\ ~Helpful
  /\ t # Apply /\ pc[t] = "waiting"
  /\ GoOn(t)
  /\ uninformed' = TRUE
  /\ UNCHANGED <<options, reply, wire, back, now, own, stated, refused>>

(* The startup deadline around each knob of apply, the turn's deadlines     *)
(* around a set_config: nobody waits for the reply any more.                *)
GiveUp(t) ==
  /\ ~Helpful
  /\ pc[t] = "waiting"
  /\ GoOn(t)
  /\ uninformed' = TRUE
  /\ UNCHANGED <<options, reply, wire, back, now, own, stated, refused>>

---------------------------------------------------------------------------
(* The reader: to the task whose request it answers, if it still waits.    *)
Deliver ==
  /\ back # <<>>
  /\ back' = Tail(back)
  /\ LET r == Head(back)
         t == r.to.by IN
       IF pc[t] = "waiting" /\ Request(t) = r.to
         THEN reply' = [reply EXCEPT ![t] = {r}] /\ Goto(t, "replied")
         ELSE UNCHANGED <<reply, pc>>
  /\ UNCHANGED <<options, at, wire, now, own, stated, uninformed, refused>>

---------------------------------------------------------------------------
(* The agent (external).                                                   *)

Choosing(k) ==
  [offered |-> now.offered \ Withdraws[k], chosen |-> now.chosen \cup {k}]

(* It sets the knob and answers with its list, or, unless it is helpful,    *)
(* with an empty one or not at all; a knob it does not offer it refuses.    *)
Serve ==
  /\ wire # <<>> /\ wire' = Tail(wire)
  /\ LET r == Head(wire)
         set == Choosing(r.knob) IN
       \/ /\ r.knob \in now.offered
          /\ now' = set /\ stated' = set
          /\ back' = Append(back, [to |-> r, says |-> set])
          /\ UNCHANGED <<uninformed, refused>>
       \/ /\ ~Helpful /\ r.knob \in now.offered
          /\ now' = set /\ uninformed' = TRUE
          /\ back' \in {back, Append(back, [to |-> r, says |-> Nothing])}
          /\ UNCHANGED <<stated, refused>>
       \/ /\ r.knob \notin now.offered
          /\ back' = Append(back, [to |-> r, refuses |-> TRUE])
          /\ refused' = refused \cup {r}
          /\ UNCHANGED <<now, stated, uninformed>>
  /\ UNCHANGED <<client, own>>

(* config_option_update: it reaches the product as an event and leaves      *)
(* Session's list alone.                                                    *)
OwnChange(k) ==
  /\ own < MaxOwn /\ own' = own + 1
  /\ k \in now.offered
  /\ now' = Choosing(k) /\ stated' = Choosing(k) /\ uninformed' = TRUE
  /\ UNCHANGED <<client, wire, back, refused>>

---------------------------------------------------------------------------
TaskStep(t) == Ask(t) \/ Record(t)

Next ==
  \/ NextKnob \/ Deliver \/ Serve
  \/ \E t \in Tasks : TaskStep(t) \/ SetConfig(t) \/ GiveUp(t)
  \/ \E k \in KnobIds : OwnChange(k)

Spec == Init /\ [][Next]_vars

(* Tasks and reader are polled, and a deadline that can pass does.  The     *)
(* agent owes nothing.                                                      *)
FairSpec ==
  /\ Spec
  /\ WF_vars(NextKnob) /\ WF_vars(Deliver)
  /\ \A t \in Tasks : WF_vars(TaskStep(t)) /\ WF_vars(GiveUp(t))

---------------------------------------------------------------------------
OnTheWay ==
  \/ \E i \in 1..Len(back) : "says" \in DOMAIN back[i]
  \/ \E t \in Tasks : reply[t] # {}

(* An agent that says what it offers is never asked by apply for a knob an  *)
(* earlier choice withdrew: each answer is taken to heart before the next   *)
(* knob is looked at (apply, set_config).                                   *)
KnownKnobsOnly ==
  ~uninformed => \A r \in refused : r.by # Apply

(* A late answer to a knob that was given up on never undoes what a later   *)
(* one told us: what the list shows as chosen stays chosen, since choices   *)
(* are not unmade (set_config, dispatch).                                   *)
ListNeverGoesBack == [][options.chosen \subseteq options'.chosen]_vars

(* What the list shows was stated by the agent, never supposed by us: it is *)
(* never ahead of the agent's own knobs (set_config).                       *)
NothingSupposed ==
  /\ options.chosen \subseteq now.chosen
  /\ options # Nothing => now.offered \subseteq options.offered

(* The list is what the agent last stated, once nothing it said is still on *)
(* its way, as long as every statement was the answer to a request          *)
(* (Session::options).                                                      *)
ListIsLatest == uninformed \/ OnTheWay \/ options = stated

(* An agent that never answers a knob does not wedge the session (apply).  *)
ApplyEnds == <>(pc[Apply] = "done")
===========================================================================
