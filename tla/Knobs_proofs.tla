--------------------------- MODULE Knobs_proofs ---------------------------
(***************************************************************************)
(* What holds of Knobs for every set of knobs, whatever they withdraw, and  *)
(* every number of tasks that set them.                                     *)
(***************************************************************************)
EXTENDS Knobs, SequenceTheorems, TLAPS

PCs == {"new", "next", "asking", "waiting", "replied", "done"}

TypeInv == TypeOK /\ reply \in [Tasks -> SUBSET Replies]

LEMMA Constants ==
  /\ Wanted \in Seq(KnobIds) /\ Len(Wanted) \in Nat
  /\ \A n \in 1..Len(Wanted) : Wanted[n] \in KnobIds
  /\ Apply \in Tasks /\ Setters \subseteq Tasks /\ Apply \notin Setters
  /\ MaxOwn \in Nat /\ Helpful \in BOOLEAN
  /\ Nothing \in Statements /\ Everything \in Statements
BY KnobsAssumption, LenProperties, ElementOfSeq
   DEF Tasks, Nothing, Everything, Statements

LEMMA TypeInit == Init => TypeInv
<1> SUFFICES ASSUME Init PROVE TypeInv
  OBVIOUS
<1>1. options \in Statements
  BY Constants DEF Init
<1> QED
  BY <1>1, Constants DEF Init, TypeInv, TypeOK

LEMMA ChoosingType ==
  ASSUME now \in Statements, NEW k \in KnobIds PROVE Choosing(k) \in Statements
BY DEF Choosing, Statements

LEMMA RequestType ==
  ASSUME TypeOK, NEW t \in Tasks, t = Apply => at[t] <= Len(Wanted)
  PROVE  Request(t) \in Requests
<1>1. Knob(t) \in KnobIds
  BY Constants, KnobsAssumption DEF TypeOK, Knob, Tasks
<1> QED
  BY <1>1 DEF Request, Requests, TypeOK

LEMMA GoOnType ==
  ASSUME TypeInv, NEW t \in Tasks, pc[t] \in {"waiting", "replied"}, GoOn(t)
  PROVE  /\ pc' \in [Tasks -> PCs]
         /\ at' \in [Tasks -> Nat] /\ at'[Apply] \in 1..(Len(Wanted) + 1)
         /\ pc'[Apply] \in {"asking", "waiting", "replied"} => at'[Apply] <= Len(Wanted)
<1>1. /\ pc \in [Tasks -> PCs] /\ at \in [Tasks -> Nat] /\ at[Apply] \in 1..(Len(Wanted) + 1)
      /\ pc[Apply] \in {"asking", "waiting", "replied"} => at[Apply] <= Len(Wanted)
  BY DEF TypeInv, TypeOK, PCs
<1>2. CASE t = Apply
  <2>1. /\ pc' = [pc EXCEPT ![Apply] = "next"] /\ at' = [at EXCEPT ![Apply] = at[Apply] + 1]
        /\ at[Apply] <= Len(Wanted)
    BY <1>1, <1>2 DEF GoOn, Goto
  <2> QED
    BY <1>1, <2>1, Constants DEF PCs
<1>3. CASE t # Apply
  BY <1>1, <1>3, Constants DEF GoOn, Goto, PCs
<1> QED
  BY <1>2, <1>3

(* What a reply says, if it says anything, is a statement.                  *)
LEMMA SaysType ==
  ASSUME NEW r \in Replies
  PROVE  /\ r.to \in Requests /\ r.to.by \in Tasks
         /\ "says" \in DOMAIN r => r.says \in Statements
BY DEF Replies, Requests

LEMMA TypeStep == TypeInv /\ [Next]_vars => TypeInv'
<1> SUFFICES ASSUME TypeInv, [Next]_vars PROVE TypeInv'
  OBVIOUS
<1> USE Constants DEF TypeInv, TypeOK, PCs
<1>1. CASE NextKnob
  <2>1. CASE at[Apply] > Len(Wanted)
    BY <1>1, <2>1 DEF NextKnob, Goto
  <2>2. CASE at[Apply] <= Len(Wanted) /\ Offered(Wanted[at[Apply]])
    BY <1>1, <2>2 DEF NextKnob, Goto
  <2>3. CASE at[Apply] <= Len(Wanted) /\ ~Offered(Wanted[at[Apply]])
    <3>1. at' = [at EXCEPT ![Apply] = at[Apply] + 1] /\ UNCHANGED pc /\ pc[Apply] = "next"
      BY <1>1, <2>3 DEF NextKnob
    <3> QED
      BY <1>1, <2>3, <3>1 DEF NextKnob
  <2> QED
    BY <2>1, <2>2, <2>3
<1>2. ASSUME NEW t \in Tasks, SetConfig(t) PROVE TypeInv'
  BY <1>2 DEF SetConfig, Goto
<1>3. ASSUME NEW t \in Tasks, Ask(t) PROVE TypeInv'
  <2>1. Request(t) \in Requests
    BY <1>3, RequestType DEF Ask
  <2> QED
    BY <1>3, <2>1 DEF Ask, Goto
<1>4. ASSUME NEW t \in Tasks, Record(t) PROVE TypeInv'
  <2>1. options' \in Statements
    BY <1>4, SaysType DEF Record
  <2>2. /\ pc' \in [Tasks -> PCs]
        /\ at' \in [Tasks -> Nat] /\ at'[Apply] \in 1..(Len(Wanted) + 1)
        /\ pc'[Apply] \in {"asking", "waiting", "replied"} => at'[Apply] <= Len(Wanted)
    BY <1>4, GoOnType DEF Record
  <2> QED
    BY <1>4, <2>1, <2>2 DEF Record
<1>5. ASSUME NEW t \in Tasks, GiveUp(t) PROVE TypeInv'
  <2>2. /\ pc' \in [Tasks -> PCs]
        /\ at' \in [Tasks -> Nat] /\ at'[Apply] \in 1..(Len(Wanted) + 1)
        /\ pc'[Apply] \in {"asking", "waiting", "replied"} => at'[Apply] <= Len(Wanted)
    BY <1>5, GoOnType DEF GiveUp
  <2> QED
    BY <1>5, <2>2 DEF GiveUp
<1>6. CASE Deliver
  <2>1. Head(back) \in Replies /\ Tail(back) \in Seq(Replies)
    BY <1>6 DEF Deliver
  <2>2. Head(back).to.by \in Tasks
    BY <2>1, SaysType
  <2>3. /\ pc' \in [Tasks -> PCs] /\ reply' \in [Tasks -> SUBSET Replies]
        /\ pc'[Apply] \in {"asking", "waiting", "replied"} => at[Apply] <= Len(Wanted)
    <3> DEFINE t == Head(back).to.by
    <3>1. CASE UNCHANGED <<reply, pc>>
      BY <3>1
    <3>2. CASE /\ pc[t] = "waiting" /\ reply' = [reply EXCEPT ![t] = {Head(back)}]
               /\ pc' = [pc EXCEPT ![t] = "replied"]
      BY <2>1, <2>2, <3>2
    <3> QED
      BY <1>6, <3>1, <3>2 DEF Deliver, Goto
  <2> QED
    BY <1>6, <2>1, <2>3 DEF Deliver
<1>7. CASE Serve
  <2>1. Head(wire) \in Requests /\ Tail(wire) \in Seq(Requests)
    BY <1>7 DEF Serve
  <2>2. Choosing(Head(wire).knob) \in Statements
    BY <2>1, ChoosingType DEF Requests
  <2>3. ASSUME NEW s \in Statements PROVE [to |-> Head(wire), says |-> s] \in Replies
    BY <2>1 DEF Replies
  <2>4. [to |-> Head(wire), refuses |-> TRUE] \in Replies
    BY <2>1 DEF Replies
  <2>5. /\ now' \in Statements /\ stated' \in Statements
        /\ back' \in Seq(Replies)
        /\ uninformed' \in BOOLEAN /\ refused' \subseteq Requests
    <3> DEFINE r == Head(wire)
               set == Choosing(r.knob)
    <3> HIDE DEF r, set
    <3>1. set \in Statements /\ r \in Requests /\ Nothing \in Statements
          /\ Append(back, [to |-> r, says |-> set]) \in Seq(Replies)
          /\ Append(back, [to |-> r, says |-> Nothing]) \in Seq(Replies)
          /\ Append(back, [to |-> r, refuses |-> TRUE]) \in Seq(Replies)
      BY <2>1, <2>2, <2>3, <2>4 DEF r, set
    <3>2. \/ /\ now' = set /\ stated' = set
             /\ back' = Append(back, [to |-> r, says |-> set])
             /\ UNCHANGED <<uninformed, refused>>
          \/ /\ now' = set /\ uninformed' = TRUE
             /\ back' \in {back, Append(back, [to |-> r, says |-> Nothing])}
             /\ UNCHANGED <<stated, refused>>
          \/ /\ back' = Append(back, [to |-> r, refuses |-> TRUE])
             /\ refused' = refused \cup {r}
             /\ UNCHANGED <<now, stated, uninformed>>
      BY <1>7 DEF Serve, r, set
    <3> QED
      BY <3>1, <3>2
  <2> QED
    BY <1>7, <2>1, <2>5 DEF Serve, client
<1>8. ASSUME NEW k \in KnobIds, OwnChange(k) PROVE TypeInv'
  <2>1. Choosing(k) \in Statements
    BY ChoosingType
  <2> QED
    BY <1>8, <2>1 DEF OwnChange, client
<1>9. CASE UNCHANGED vars
  BY <1>9 DEF vars, client
<1> HIDE DEF TypeInv
<1> QED
  BY <1>1, <1>2, <1>3, <1>4, <1>5, <1>6, <1>7, <1>8, <1>9 DEF Next, TaskStep

(* Every variable keeps its type, and apply never runs past its list.       *)
THEOREM TypeCorrect == Spec => []TypeOK
<1>1. TypeInv => TypeOK
  BY DEF TypeInv
<1> QED
  BY <1>1, TypeInit, TypeStep, PTL DEF Spec
---------------------------------------------------------------------------
(* What is told.  A choice is never unmade and a withdrawn knob never comes  *)
(* back, so what the agent stated once stays behind what it has now: a       *)
(* statement may be old when it is recorded, and is never an invention.      *)

Says(r) == "says" \in DOMAIN r
Truthful(s, n) ==
  s.chosen \subseteq n.chosen /\ (s # Nothing => n.offered \subseteq s.offered)

Told ==
  /\ Truthful(options, now)
  /\ \A i \in 1..Len(back) : Says(back[i]) => Truthful(back[i].says, now)
  /\ \A t \in Tasks : \A r \in reply[t] : Says(r) => Truthful(r.says, now)

LEMMA ToldInit == Init => Told
BY Constants DEF Init, Told, Truthful, Everything, Nothing

LEMMA AgentMoves ==
  ASSUME TypeInv, [Next]_vars
  PROVE  now.chosen \subseteq now'.chosen /\ now'.offered \subseteq now.offered
<1>1. CASE Serve
  BY <1>1 DEF Serve, Choosing
<1>2. ASSUME NEW k \in KnobIds, OwnChange(k)
      PROVE  now.chosen \subseteq now'.chosen /\ now'.offered \subseteq now.offered
  BY <1>2 DEF OwnChange, Choosing
<1>3. CASE UNCHANGED now
  BY <1>3
<1> QED
  BY <1>1, <1>2, <1>3
     DEF Next, TaskStep, NextKnob, Deliver, Ask, Record, SetConfig, GiveUp, vars

(* The replies on their way, from the front and at the back.                *)
LEMMA FrontOfBack ==
  ASSUME TypeInv, back # <<>>
  PROVE  /\ Head(back) = back[1] /\ 1 \in 1..Len(back)
         /\ Len(Tail(back)) = Len(back) - 1
         /\ \A i \in 1..Len(Tail(back)) :
              i + 1 \in 1..Len(back) /\ Tail(back)[i] = back[i + 1]
<1>1. back \in Seq(Replies) /\ Len(back) \in Nat
  BY LenProperties DEF TypeInv, TypeOK
<1> QED
  BY <1>1, HeadTailProperties

LEMMA BackOfBack ==
  ASSUME TypeInv, NEW x
  PROVE  /\ Len(Append(back, x)) = Len(back) + 1
         /\ Append(back, x)[Len(back) + 1] = x
         /\ \A i \in 1..Len(back) : Append(back, x)[i] = back[i]
         /\ \A i \in 1..Len(Append(back, x)) : i \in 1..Len(back) \/ i = Len(back) + 1
<1>1. back \in Seq(Replies) /\ Len(back) \in Nat
  BY LenProperties DEF TypeInv, TypeOK
<1> QED
  BY <1>1

(* What Serve writes: an answer that says what the agent has by then, one   *)
(* that says nothing, or a refusal.                                         *)
LEMMA Served ==
  ASSUME TypeInv, Serve
  PROVE  \/ UNCHANGED back
         \/ \E r : /\ back' = Append(back, r) /\ r.to = Head(wire)
                   /\ Says(r) => r.says = now' \/ r.says = Nothing
<1> DEFINE h == Head(wire)
<1> HIDE DEF h
<1>1. /\ [to |-> h, says |-> now'].says = now' /\ [to |-> h, says |-> now'].to = h
      /\ [to |-> h, says |-> Nothing].says = Nothing /\ [to |-> h, says |-> Nothing].to = h
      /\ ~Says([to |-> h, refuses |-> TRUE]) /\ [to |-> h, refuses |-> TRUE].to = h
  BY DEF Says
<1>2. \/ UNCHANGED back
      \/ back' = Append(back, [to |-> h, says |-> now'])
      \/ back' = Append(back, [to |-> h, says |-> Nothing])
      \/ back' = Append(back, [to |-> h, refuses |-> TRUE])
  BY DEF Serve, h
<1> QED
  BY <1>1, <1>2 DEF h

LEMMA ToldStep == TypeInv /\ Told /\ [Next]_vars => Told'
<1> SUFFICES ASSUME TypeInv, Told, [Next]_vars PROVE Told'
  OBVIOUS
<1>0. /\ reply \in [Tasks -> SUBSET Replies]
      /\ Truthful(options, now')
      /\ \A i \in 1..Len(back) : Says(back[i]) => Truthful(back[i].says, now')
      /\ \A t \in Tasks : \A r \in reply[t] : Says(r) => Truthful(r.says, now')
  BY AgentMoves DEF TypeInv, Told, Truthful
<1>1. CASE UNCHANGED <<options, back, reply>>
  BY <1>0, <1>1 DEF Told
<1>2. ASSUME NEW t \in Tasks, Record(t) PROVE Told'
  <2>1. Truthful(options', now')
    BY <1>0, <1>2 DEF Record, Says
  <2> QED
    BY <1>0, <1>2, <2>1 DEF Told, Record
<1>3. CASE Deliver
  <2>1. back # <<>> /\ back' = Tail(back) /\ UNCHANGED options
    BY <1>3 DEF Deliver
  <2>2. \A i \in 1..Len(back') : Says(back'[i]) => Truthful(back'[i].says, now')
    BY <1>0, <2>1, FrontOfBack
  <2>3. \A t \in Tasks : reply'[t] = reply[t] \/ reply'[t] = {Head(back)}
    BY <1>0, <1>3 DEF Deliver
  <2>4. Says(Head(back)) => Truthful(Head(back).says, now')
    BY <1>0, <2>1, FrontOfBack
  <2> QED
    BY <1>0, <2>1, <2>2, <2>3, <2>4 DEF Told
<1>4. CASE Serve
  <2>1. Truthful(now', now') /\ Truthful(Nothing, now')
    BY DEF Truthful, Nothing
  <2>2. \A i \in 1..Len(back') : Says(back'[i]) => Truthful(back'[i].says, now')
    <3>1. CASE UNCHANGED back
      BY <1>0, <3>1
    <3>2. ASSUME NEW r, back' = Append(back, r), Says(r) => r.says = now' \/ r.says = Nothing
          PROVE  \A i \in 1..Len(back') : Says(back'[i]) => Truthful(back'[i].says, now')
      BY <1>0, <2>1, <3>2, BackOfBack
    <3> QED
      BY <1>4, <3>1, <3>2, Served
  <2>3. UNCHANGED <<options, reply>>
    BY <1>4 DEF Serve, client
  <2> QED
    BY <1>0, <2>2, <2>3 DEF Told
<1> QED
  BY <1>1, <1>2, <1>3, <1>4
     DEF Next, TaskStep, NextKnob, SetConfig, Ask, GiveUp, OwnChange, client, vars

(* What the list shows was stated by the agent, never supposed by us: it is *)
(* never ahead of the agent's own knobs, however many tasks set them and    *)
(* however late their answers come.                                         *)
THEOREM ListIsNeverAhead == Spec => []NothingSupposed
<1>1. Init => TypeInv /\ Told
  BY TypeInit, ToldInit
<1>2. TypeInv /\ Told /\ [Next]_vars => TypeInv' /\ Told'
  BY TypeStep, ToldStep
<1>3. Told => NothingSupposed
  BY DEF Told, Truthful, NothingSupposed
<1> QED
  BY <1>1, <1>2, <1>3, PTL DEF Spec
---------------------------------------------------------------------------
(* Whose turn it is.  apply is over before any set_config begins, so with   *)
(* one task that calls set_config there is one request at a time, and the   *)
(* replies of those that were given up on come back in the order in which   *)
(* the agent gave them.                                                     *)

OneSetter == \A t, u \in Setters : t = u
Active(t) == pc[t] \in {"asking", "waiting", "replied"}

Turns ==
  /\ pc[Apply] # "done" => \A t \in Setters : pc[t] = "new"
  /\ \A t \in Setters : pc[t] # "next"
  /\ \A t \in Tasks : reply[t] # {} => pc[t] = "replied"

LEMMA TurnsInit == Init => Turns
BY Constants DEF Init, Turns

LEMMA TurnsStep == TypeInv /\ Turns /\ [Next]_vars => Turns'
<1> SUFFICES ASSUME TypeInv, Turns, [Next]_vars PROVE Turns'
  OBVIOUS
<1> USE Constants DEF Turns
<1>0. pc \in [Tasks -> PCs] /\ reply \in [Tasks -> SUBSET Replies]
  BY DEF TypeInv, TypeOK, PCs
<1>1. CASE NextKnob
  BY <1>0, <1>1 DEF NextKnob, Goto
<1>2. ASSUME NEW t \in Tasks, SetConfig(t) \/ Ask(t) PROVE Turns'
  BY <1>0, <1>2 DEF SetConfig, Ask, Goto
<1>3. ASSUME NEW t \in Tasks, Record(t) \/ GiveUp(t) PROVE Turns'
  <2>1. pc' = [pc EXCEPT ![t] = IF t = Apply THEN "next" ELSE "done"]
    BY <1>3 DEF Record, GiveUp, GoOn, Goto
  <2>2. pc[t] \in {"waiting", "replied"} /\ (reply' = reply \/ reply' = [reply EXCEPT ![t] = {}])
        /\ (reply' = reply => pc[t] = "waiting" \/ reply'[t] = {})
    BY <1>0, <1>3 DEF Record, GiveUp
  <2> QED
    BY <1>0, <2>1, <2>2
<1>4. CASE Deliver
  <2>1. Head(back).to.by \in Tasks
    BY <1>4, SaysType DEF Deliver, TypeInv, TypeOK
  <2> QED
    BY <1>0, <1>4, <2>1 DEF Deliver, Goto
<1>5. CASE UNCHANGED <<pc, reply>>
  BY <1>5
<1> QED
  BY <1>1, <1>2, <1>3, <1>4, <1>5 DEF Next, TaskStep, Serve, OwnChange, client, vars

LEMMA OneActive ==
  ASSUME OneSetter, Turns
  PROVE  \A t, u \in Tasks : Active(t) /\ Active(u) => t = u
BY DEF OneSetter, Turns, Active, Tasks

Telling(r) == Says(r) /\ r.says.offered # {}

InOrder ==
  /\ \A i, j \in 1..Len(back) :
       i < j /\ Telling(back[i]) /\ Telling(back[j])
         => back[i].says.chosen \subseteq back[j].says.chosen
  /\ \A i \in 1..Len(back) :
       Telling(back[i]) => options.chosen \subseteq back[i].says.chosen
  /\ \A t \in Tasks : \A r \in reply[t] : Telling(r) =>
       /\ options.chosen \subseteq r.says.chosen
       /\ \A i \in 1..Len(back) :
            Telling(back[i]) => r.says.chosen \subseteq back[i].says.chosen

LEMMA InOrderInit == Init => InOrder
<1> SUFFICES ASSUME Init PROVE InOrder
  OBVIOUS
<1>1. Len(back) = 0 /\ \A t \in Tasks : reply[t] = {}
  BY DEF Init
<1> QED
  BY <1>1 DEF InOrder

LEMMA InOrderStep ==
  ASSUME OneSetter PROVE TypeInv /\ Turns /\ Told /\ InOrder /\ [Next]_vars => InOrder'
<1> SUFFICES ASSUME TypeInv, Turns, Told, InOrder, [Next]_vars PROVE InOrder'
  OBVIOUS
<1>0. /\ reply \in [Tasks -> SUBSET Replies] /\ Len(back) \in Nat
  BY LenProperties DEF TypeInv, TypeOK
<1>1. CASE UNCHANGED <<options, back, reply>>
  BY <1>1 DEF InOrder
<1>2. ASSUME NEW t \in Tasks, Record(t) PROVE InOrder'
  <2>1. pc[t] = "replied" /\ reply' = [reply EXCEPT ![t] = {}] /\ UNCHANGED back
    BY <1>2 DEF Record
  <2>2. \A u \in Tasks : reply'[u] = {}
    BY <1>0, <2>1, OneActive DEF Turns, Active
  <2>3. options' = options \/ \E r \in reply[t] : Telling(r) /\ options' = r.says
    BY <1>2 DEF Record, Telling, Says
  <2>4. \A i \in 1..Len(back) :
          Telling(back[i]) => options'.chosen \subseteq back[i].says.chosen
    BY <2>3 DEF InOrder
  <2> QED
    BY <2>1, <2>2, <2>4 DEF InOrder
<1>3. CASE Deliver
  <2>1. back # <<>> /\ back' = Tail(back) /\ UNCHANGED options
    BY <1>3 DEF Deliver
  <2>2. \A t \in Tasks : reply'[t] = reply[t] \/ reply'[t] = {back[1]}
    BY <1>0, <1>3, <2>1, FrontOfBack DEF Deliver
  <2>3. \A i \in 1..Len(back') : i + 1 \in 1..Len(back) /\ back'[i] = back[i + 1] /\ 1 < i + 1
    BY <1>0, <2>1, FrontOfBack
  <2>4. \A i, j \in 1..Len(back') :
          i < j /\ Telling(back'[i]) /\ Telling(back'[j])
            => back'[i].says.chosen \subseteq back'[j].says.chosen
    <3> TAKE i, j \in 1..Len(back')
    <3>1. i < j => i + 1 < j + 1
      BY <1>0, <2>1, FrontOfBack
    <3> QED
      BY <2>3, <3>1 DEF InOrder
  <2>5. \A i \in 1..Len(back') :
          Telling(back'[i]) => options'.chosen \subseteq back'[i].says.chosen
    BY <2>1, <2>3 DEF InOrder
  <2>6. ASSUME NEW t \in Tasks, NEW r \in reply'[t], Telling(r)
        PROVE  /\ options'.chosen \subseteq r.says.chosen
               /\ \A i \in 1..Len(back') :
                    Telling(back'[i]) => r.says.chosen \subseteq back'[i].says.chosen
    <3>1. CASE r \in reply[t]
      BY <2>1, <2>3, <2>6, <3>1 DEF InOrder
    <3>2. CASE r = back[1]
      <4>1. 1 \in 1..Len(back)
        BY <2>1, FrontOfBack
      <4> QED
        BY <2>1, <2>3, <2>6, <3>2, <4>1 DEF InOrder
    <3> QED
      BY <2>2, <2>6, <3>1, <3>2
  <2> QED
    BY <2>4, <2>5, <2>6 DEF InOrder
<1>4. CASE Serve
  <2>1. UNCHANGED <<options, reply>>
    BY <1>4 DEF Serve, client
  <2>2. CASE UNCHANGED back
    BY <2>1, <2>2 DEF InOrder
  <2>3. ASSUME NEW r, back' = Append(back, r), Says(r) => r.says = now' \/ r.says = Nothing
        PROVE  InOrder'
    <3>1. Telling(r) => r.says = now'
      BY <2>3 DEF Telling, Nothing
    <3>2. /\ options.chosen \subseteq now'.chosen
          /\ \A i \in 1..Len(back) : Telling(back[i]) => back[i].says.chosen \subseteq now'.chosen
          /\ \A t \in Tasks : \A q \in reply[t] : Telling(q) => q.says.chosen \subseteq now'.chosen
      BY AgentMoves DEF Told, Truthful, Telling
    <3>3. /\ Len(back') = Len(back) + 1 /\ back'[Len(back) + 1] = r
          /\ \A i \in 1..Len(back) : back'[i] = back[i]
          /\ \A i \in 1..Len(back') : i \in 1..Len(back) \/ i = Len(back) + 1
      BY <2>3, BackOfBack
    <3>4. ASSUME NEW i \in 1..Len(back'), NEW j \in 1..Len(back'), i < j,
                 Telling(back'[i]), Telling(back'[j])
          PROVE  back'[i].says.chosen \subseteq back'[j].says.chosen
      <4>1. i \in 1..Len(back) /\ back'[i] = back[i]
        BY <1>0, <3>3, <3>4
      <4>2. CASE j \in 1..Len(back)
        BY <3>3, <3>4, <4>1, <4>2 DEF InOrder
      <4>3. CASE j = Len(back) + 1
        BY <3>1, <3>2, <3>3, <3>4, <4>1, <4>3
      <4> QED
        BY <3>3, <4>2, <4>3
    <3>5. ASSUME NEW i \in 1..Len(back'), Telling(back'[i])
          PROVE  /\ options.chosen \subseteq back'[i].says.chosen
                 /\ \A t \in Tasks : \A q \in reply[t] :
                      Telling(q) => q.says.chosen \subseteq back'[i].says.chosen
      <4>1. CASE i \in 1..Len(back)
        BY <3>3, <3>5, <4>1 DEF InOrder
      <4>2. CASE i = Len(back) + 1
        BY <3>1, <3>2, <3>3, <3>5, <4>2
      <4> QED
        BY <3>3, <4>1, <4>2
    <3>6. \A t \in Tasks : \A q \in reply[t] :
            Telling(q) => options.chosen \subseteq q.says.chosen
      BY DEF InOrder
    <3> QED
      BY <2>1, <3>4, <3>5, <3>6 DEF InOrder
  <2> QED
    BY <1>4, <2>2, <2>3, Served
<1> QED
  BY <1>1, <1>2, <1>3, <1>4
     DEF Next, TaskStep, NextKnob, SetConfig, Ask, GiveUp, OwnChange, client, vars

(* With one task that calls set_config, a late answer to a knob that was    *)
(* given up on never undoes what a later one told us.                       *)
THEOREM NothingUntold == ASSUME OneSetter PROVE Spec => ListNeverGoesBack
<1>1. Init => TypeInv /\ Turns /\ Told /\ InOrder
  BY TypeInit, TurnsInit, ToldInit, InOrderInit
<1>2. TypeInv /\ Turns /\ Told /\ InOrder /\ [Next]_vars
        => TypeInv' /\ Turns' /\ Told' /\ InOrder'
  BY TypeStep, TurnsStep, ToldStep, InOrderStep
<1>3. TypeInv /\ InOrder /\ [Next]_vars => [options.chosen \subseteq options'.chosen]_vars
  <2> SUFFICES ASSUME InOrder, [Next]_vars PROVE options.chosen \subseteq options'.chosen
    OBVIOUS
  <2>1. ASSUME NEW t \in Tasks, Record(t) PROVE options.chosen \subseteq options'.chosen
    BY <2>1 DEF Record, InOrder, Telling, Says
  <2>2. CASE UNCHANGED options
    BY <2>2
  <2> QED
    BY <2>1, <2>2
       DEF Next, TaskStep, NextKnob, SetConfig, Ask, GiveUp, Deliver, Serve, OwnChange,
           client, vars
<1> QED
  BY <1>1, <1>2, <1>3, PTL DEF Spec, ListNeverGoesBack
---------------------------------------------------------------------------
(* Keeping up.  While every statement is an answer that somebody took, the   *)
(* list and the agent agree whenever nothing is on its way, and what is on   *)
(* its way is one request, or one answer that says what the agent has: apply *)
(* therefore looks at the list as it is before it asks for the next knob.    *)

Calm == wire = <<>> /\ back = <<>> /\ options = now
Acceptable(t) == t = Apply => Knob(t) \in now.offered
Fresh(r, t) ==
  IF Says(r) THEN r.says = now ELSE options = now /\ t # Apply

Exchange(t) ==
  \/ pc[t] = "asking" /\ Calm /\ Acceptable(t)
  \/ /\ pc[t] = "waiting" /\ wire = <<Request(t)>> /\ back = <<>> /\ options = now
     /\ Acceptable(t)
  \/ /\ pc[t] = "waiting" /\ wire = <<>>
     /\ \E r \in Replies : back = <<r>> /\ r.to = Request(t) /\ Fresh(r, t)
  \/ /\ pc[t] = "replied" /\ wire = <<>> /\ back = <<>>
     /\ \E r \in Replies : reply[t] = {r} /\ Fresh(r, t)

KeepingUp ==
  \/ Calm /\ \A t \in Tasks : ~Active(t)
  \/ \E t \in Tasks : Exchange(t) /\ \A u \in Tasks : Active(u) => u = t

UpToDate ==
  ~uninformed =>
    /\ \A r \in refused : r.by # Apply
    /\ stated = now
    /\ OneSetter \/ pc[Apply] # "done" => KeepingUp
    /\ pc[Apply] = "done" => \A i \in 1..Len(wire) : wire[i].by # Apply

(* An agent always offers at least the knob that was chosen last.          *)
Offering == KnobIds # {} => now.offered # {}

LEMMA UpToDateInit == Init => Offering /\ UpToDate
<1> SUFFICES ASSUME Init PROVE Offering /\ UpToDate
  OBVIOUS
<1>1. ~uninformed => Calm
  BY DEF Init, Calm
<1>2. \A t \in Tasks : ~Active(t)
  BY DEF Init, Active
<1>3. Len(wire) = 0 /\ refused = {}
  BY DEF Init
<1>4. Offering
  BY DEF Init, Offering, Everything
<1> QED
  BY <1>1, <1>2, <1>3, <1>4 DEF Init, UpToDate, KeepingUp, Calm

LEMMA OfferingStep == TypeInv /\ Offering /\ [Next]_vars => Offering'
<1> SUFFICES ASSUME TypeInv, Offering, [Next]_vars PROVE Offering'
  OBVIOUS
<1>1. ASSUME NEW k \in KnobIds, k \in now.offered, now' = Choosing(k) PROVE Offering'
  <2>1. k \in Choosing(k).offered
    BY <1>1, KnobsAssumption DEF Choosing
  <2> QED
    BY <1>1, <2>1 DEF Offering
<1>2. CASE Serve
  <2>1. Head(wire).knob \in KnobIds
    <3>1. wire \in Seq(Requests) /\ wire # <<>>
      BY <1>2 DEF Serve, TypeInv, TypeOK
    <3>2. Head(wire) \in Requests
      BY <3>1
    <3> QED
      BY <3>2 DEF Requests
  <2> QED
    BY <1>1, <1>2, <2>1 DEF Serve, Offering
<1>3. ASSUME NEW k \in KnobIds, OwnChange(k) PROVE Offering'
  BY <1>1, <1>3 DEF OwnChange
<1>4. CASE UNCHANGED now
  BY <1>4 DEF Offering
<1> QED
  BY <1>2, <1>3, <1>4
     DEF Next, TaskStep, NextKnob, SetConfig, Ask, Record, GiveUp, Deliver, client, vars

LEMMA KeepingUpStep ==
  TypeInv /\ Turns /\ Offering /\ UpToDate /\ [Next]_vars /\ ~uninformed'
    /\ (OneSetter \/ pc'[Apply] # "done") => KeepingUp'
<1> SUFFICES ASSUME TypeInv, Turns, Offering, UpToDate, [Next]_vars, ~uninformed',
                    OneSetter \/ pc'[Apply] # "done"
             PROVE  KeepingUp'
  OBVIOUS
<1>0. /\ pc \in [Tasks -> PCs] /\ reply \in [Tasks -> SUBSET Replies]
      /\ at \in [Tasks -> Nat]
      /\ wire \in Seq(Requests) /\ back \in Seq(Replies) /\ Apply \in Tasks
  BY Constants DEF TypeInv, TypeOK, PCs
<1>1. ~uninformed
  BY DEF Next, TaskStep, NextKnob, SetConfig, Ask, Record, GiveUp, Deliver, Serve,
         OwnChange, vars
<1>2. ASSUME pc[Apply] = "done" => pc'[Apply] = "done" PROVE KeepingUp
  BY <1>1, <1>2 DEF UpToDate
<1>3. CASE NextKnob
  <2>1. pc[Apply] = "next" /\ UNCHANGED <<options, reply, wire, back, now>>
    BY <1>3 DEF NextKnob
  <2>2. \A t \in Tasks : ~Active(t)
    BY <2>1 DEF Turns, Active, Tasks
  <2>3. Calm
    BY <1>2, <2>1, <2>2 DEF KeepingUp, Exchange, Active
  <2>4. CASE UNCHANGED pc \/ pc' = [pc EXCEPT ![Apply] = "done"]
    <3>1. \A t \in Tasks : ~Active(t)'
      BY <1>0, <2>2, <2>4 DEF Active
    <3> QED
      BY <2>1, <2>3, <3>1 DEF KeepingUp, Calm
  <2>5. CASE /\ pc' = [pc EXCEPT ![Apply] = "asking"] /\ UNCHANGED at
             /\ at[Apply] <= Len(Wanted) /\ Offered(Wanted[at[Apply]])
    <3>1. Wanted[at[Apply]] \in KnobIds
      BY <2>5, Constants DEF TypeInv, TypeOK
    <3>2. Knob(Apply) \in now.offered
      BY <2>3, <2>5, <3>1 DEF Calm, Offered, Offering, Knob
    <3>3. Exchange(Apply)'
      BY <1>0, <2>1, <2>3, <2>5, <3>2 DEF Exchange, Calm, Acceptable, Knob
    <3>4. \A u \in Tasks : Active(u)' => u = Apply
      BY <1>0, <2>2, <2>5 DEF Active
    <3> QED
      BY <1>0, <3>3, <3>4 DEF KeepingUp
  <2>6. at[Apply] \in Nat /\ Len(Wanted) \in Nat
    BY <1>0, Constants
  <2> QED
    BY <1>3, <2>4, <2>5, <2>6 DEF NextKnob, Goto
<1>4. ASSUME NEW t \in Tasks, SetConfig(t) PROVE KeepingUp'
  <2>1. /\ pc' = [pc EXCEPT ![t] = "asking"] /\ t \in Setters /\ pc[t] = "new"
        /\ pc[Apply] = "done" /\ UNCHANGED <<options, at, reply, wire, back, now>>
        /\ t # Apply
    BY <1>4, Constants DEF SetConfig, Goto
  <2>2. OneSetter
    BY <1>0, <2>1
  <2>3. \A u \in Tasks : ~Active(u)
    BY <2>1, <2>2 DEF OneSetter, Active, Tasks
  <2>4. Calm
    BY <1>0, <1>2, <2>1, <2>3 DEF KeepingUp, Exchange, Active
  <2>5. Exchange(t)'
    BY <1>0, <2>1, <2>4 DEF Exchange, Calm, Acceptable
  <2>6. \A u \in Tasks : Active(u)' => u = t
    BY <1>0, <2>1, <2>3 DEF Active
  <2> QED
    BY <2>5, <2>6 DEF KeepingUp
<1>5. ASSUME NEW t \in Tasks, Ask(t) PROVE KeepingUp'
  <2>1. /\ pc[t] = "asking" /\ pc' = [pc EXCEPT ![t] = "waiting"]
        /\ wire' = Append(wire, Request(t)) /\ UNCHANGED <<options, at, reply, back, now>>
    BY <1>5 DEF Ask, Goto
  <2>2. Exchange(t) /\ \A u \in Tasks : Active(u) => u = t
    <3>1. KeepingUp
      BY <1>0, <1>2, <2>1
    <3> QED
      BY <2>1, <3>1 DEF KeepingUp, Active
  <2>3. Calm /\ Acceptable(t)
    BY <2>1, <2>2 DEF Exchange
  <2>4. wire' = <<Request(t)>> /\ Request(t)' = Request(t) /\ Acceptable(t)'
    BY <2>1, <2>3 DEF Calm, Request, Knob, Acceptable
  <2>5. Exchange(t)'
    BY <1>0, <2>1, <2>3, <2>4 DEF Exchange, Calm
  <2>6. \A u \in Tasks : Active(u)' => u = t
    BY <1>0, <2>1, <2>2 DEF Active
  <2> QED
    BY <2>5, <2>6 DEF KeepingUp
<1>6. ASSUME NEW t \in Tasks, Record(t) PROVE KeepingUp'
  <2>1. /\ pc[t] = "replied" /\ UNCHANGED <<wire, back, now>>
        /\ pc' = [pc EXCEPT ![t] = IF t = Apply THEN "next" ELSE "done"]
    BY <1>6 DEF Record, GoOn, Goto
  <2>2. Exchange(t) /\ \A u \in Tasks : Active(u) => u = t
    <3>1. KeepingUp
      BY <1>0, <1>2, <2>1
    <3> QED
      BY <2>1, <3>1 DEF KeepingUp, Active
  <2>3. wire = <<>> /\ back = <<>> /\ \E r \in Replies : reply[t] = {r} /\ Fresh(r, t)
    BY <2>1, <2>2 DEF Exchange
  <2>4. options' = now
    <3>1. PICK r \in Replies : reply[t] = {r} /\ Fresh(r, t)
      BY <2>3
    <3>2. options' = IF Says(r) /\ r.says.offered # {} THEN r.says ELSE options
      BY <1>6, <3>1 DEF Record, Says
    <3>3. KnobIds # {}
      BY <3>1 DEF Replies, Requests
    <3>4. now.offered # {}
      BY <3>3 DEF Offering
    <3> QED
      BY <3>1, <3>2, <3>4 DEF Fresh
  <2>5. \A u \in Tasks : ~Active(u)'
    BY <1>0, <2>1, <2>2 DEF Active
  <2> QED
    BY <2>1, <2>3, <2>4, <2>5 DEF KeepingUp, Calm
<1>7. ASSUME NEW t \in Tasks, GiveUp(t) PROVE KeepingUp'
  BY <1>7 DEF GiveUp
<1>8. CASE Deliver
  <2>1. back # <<>> /\ UNCHANGED <<options, at, wire, now>> /\ back' = Tail(back)
    BY <1>8 DEF Deliver
  <2>2. KeepingUp
    <3>1. Head(back) \in Replies
      BY <1>0, <2>1
    <3>2. Head(back).to.by \in Tasks
      BY <3>1, SaysType
    <3> QED
      BY <1>0, <1>2, <1>8, <3>2 DEF Deliver, Goto
  <2>3. PICK t \in Tasks : Exchange(t) /\ \A u \in Tasks : Active(u) => u = t
    BY <2>1, <2>2 DEF KeepingUp, Calm
  <2>4. PICK r \in Replies : /\ pc[t] = "waiting" /\ wire = <<>> /\ back = <<r>>
                             /\ r.to = Request(t) /\ Fresh(r, t)
    BY <2>1, <2>3 DEF Exchange, Calm
  <2>5. Head(back) = r /\ Tail(back) = <<>> /\ r.to.by = t
    BY <2>4 DEF Request
  <2>6. reply' = [reply EXCEPT ![t] = {r}] /\ pc' = [pc EXCEPT ![t] = "replied"]
    BY <1>8, <2>4, <2>5 DEF Deliver, Goto
  <2>7. Exchange(t)'
    <3>1. reply'[t] = {r} /\ pc'[t] = "replied"
      BY <1>0, <2>6
    <3>2. Fresh(r, t)'
      BY <2>1, <2>4 DEF Fresh
    <3> QED
      BY <2>1, <2>4, <2>5, <3>1, <3>2 DEF Exchange
  <2>8. \A u \in Tasks : Active(u)' => u = t
    BY <1>0, <2>3, <2>6 DEF Active
  <2> QED
    BY <2>7, <2>8 DEF KeepingUp
<1>9. CASE Serve
  <2>1. wire # <<>> /\ UNCHANGED <<options, pc, at, reply>> /\ wire' = Tail(wire)
    BY <1>9 DEF Serve, client
  <2>2. PICK t \in Tasks : Exchange(t) /\ \A u \in Tasks : Active(u) => u = t
    BY <1>2, <2>1 DEF KeepingUp, Calm
  <2>3. /\ pc[t] = "waiting" /\ wire = <<Request(t)>> /\ back = <<>> /\ options = now
        /\ Acceptable(t)
    BY <2>1, <2>2 DEF Exchange, Calm
  <2> DEFINE h == Request(t)
  <2>4. Head(wire) = h /\ Tail(wire) = <<>> /\ h.knob = Knob(t) /\ Request(t)' = h
    BY <2>1, <2>3 DEF Request, Knob
  <2>5. h \in Requests
    BY <1>0, <2>1, <2>4
  <2> HIDE DEF h
  <2>6. \E r \in Replies : back' = <<r>> /\ r.to = h /\ Fresh(r, t)'
    <3>1. CASE /\ now' = Choosing(h.knob)
               /\ back' = Append(back, [to |-> h, says |-> now'])
      <4>1. /\ [to |-> h, says |-> now'] \in Replies
            /\ Says([to |-> h, says |-> now']) /\ [to |-> h, says |-> now'].says = now'
            /\ [to |-> h, says |-> now'].to = h
        <5>1. now' \in Statements
          BY <2>5, <3>1, ChoosingType DEF TypeInv, TypeOK, Requests
        <5> QED
          BY <2>5, <5>1 DEF Replies, Says
      <4>2. back' = <<[to |-> h, says |-> now']>>
        BY <2>3, <3>1
      <4> QED
        BY <4>1, <4>2 DEF Fresh
    <3>2. CASE /\ h.knob \notin now.offered /\ UNCHANGED now
               /\ back' = Append(back, [to |-> h, refuses |-> TRUE])
      <4>1. /\ [to |-> h, refuses |-> TRUE] \in Replies
            /\ ~Says([to |-> h, refuses |-> TRUE]) /\ [to |-> h, refuses |-> TRUE].to = h
        BY <2>5 DEF Replies, Says
      <4>2. back' = <<[to |-> h, refuses |-> TRUE]>> /\ t # Apply /\ options' = now'
        BY <2>1, <2>3, <2>4, <3>2 DEF Acceptable
      <4> QED
        BY <4>1, <4>2 DEF Fresh
    <3> QED
      BY <1>9, <2>4, <3>1, <3>2 DEF Serve
  <2>7. Exchange(t)'
    BY <2>1, <2>3, <2>4, <2>6 DEF Exchange
  <2>8. \A u \in Tasks : Active(u)' => u = t
    BY <2>1, <2>2 DEF Active
  <2> QED
    BY <2>7, <2>8 DEF KeepingUp
<1>10. ASSUME NEW k \in KnobIds, OwnChange(k) PROVE KeepingUp'
  BY <1>10 DEF OwnChange
<1>11. CASE UNCHANGED vars
  <2>1. UNCHANGED <<options, pc, at, reply, wire, back, now>>
    BY <1>11 DEF vars, client
  <2>2. KeepingUp
    BY <1>2, <2>1
  <2> QED
    BY <2>1, <2>2 DEF KeepingUp, Calm, Active, Exchange, Acceptable, Request, Knob, Fresh
<1> QED
  BY <1>3, <1>4, <1>5, <1>6, <1>7, <1>8, <1>9, <1>10, <1>11 DEF Next, TaskStep

LEMMA UpToDateStep ==
  TypeInv /\ Turns /\ Offering /\ UpToDate /\ [Next]_vars => UpToDate'
<1> SUFFICES ASSUME TypeInv, Turns, Offering, UpToDate, [Next]_vars, ~uninformed'
             PROVE  /\ \A r \in refused' : r.by # Apply
                    /\ stated' = now'
                    /\ pc'[Apply] = "done" => \A i \in 1..Len(wire') : wire'[i].by # Apply
  BY KeepingUpStep DEF UpToDate
<1>0. /\ pc \in [Tasks -> PCs] /\ wire \in Seq(Requests) /\ Apply \in Tasks
      /\ Len(wire) \in Nat
  BY Constants, LenProperties DEF TypeInv, TypeOK, PCs
<1>1. ~uninformed
  BY DEF Next, TaskStep, NextKnob, SetConfig, Ask, Record, GiveUp, Deliver, Serve,
         OwnChange, vars
<1>2. stated = now /\ \A r \in refused : r.by # Apply
  BY <1>1 DEF UpToDate
<1>3. CASE NextKnob
  <2>1. UNCHANGED <<refused, stated, now, wire>> /\ pc[Apply] = "next"
    BY <1>3 DEF NextKnob
  <2>2. wire = <<>>
    <3>1. \A t \in Tasks : ~Active(t)
      BY <2>1 DEF Turns, Active, Tasks
    <3> QED
      BY <1>1, <2>1, <3>1 DEF UpToDate, KeepingUp, Calm, Exchange, Active
  <2>3. Len(wire') = 0
    BY <2>1, <2>2
  <2> QED
    BY <1>2, <2>1, <2>3
<1>4. ASSUME NEW t \in Tasks, Ask(t)
      PROVE  /\ UNCHANGED <<refused, stated, now>>
             /\ pc'[Apply] = "done" => \A i \in 1..Len(wire') : wire'[i].by # Apply
  <2>1. /\ UNCHANGED <<refused, stated, now>> /\ pc[t] = "asking"
        /\ pc' = [pc EXCEPT ![t] = "waiting"] /\ wire' = Append(wire, Request(t))
    BY <1>4 DEF Ask, Goto
  <2>2. Request(t).by = t
    BY DEF Request
  <2>3. pc'[Apply] = "done" => t # Apply /\ pc[Apply] = "done"
    BY <1>0, <2>1
  <2>4. /\ Len(wire') = Len(wire) + 1 /\ wire'[Len(wire) + 1] = Request(t)
        /\ \A i \in 1..Len(wire) : wire'[i] = wire[i]
        /\ \A i \in 1..Len(wire') : i \in 1..Len(wire) \/ i = Len(wire) + 1
    BY <1>0, <2>1
  <2> QED
    BY <1>1, <2>1, <2>2, <2>3, <2>4 DEF UpToDate
<1>5. CASE Serve
  <2>1. /\ wire # <<>> /\ wire' = Tail(wire) /\ UNCHANGED pc
        /\ \/ UNCHANGED <<now, stated>>
           \/ now' = stated'
    BY <1>2, <1>5 DEF Serve, client
  <2>2. /\ Head(wire) = wire[1] /\ 1 \in 1..Len(wire)
        /\ \A i \in 1..Len(wire') : i + 1 \in 1..Len(wire) /\ wire'[i] = wire[i + 1]
    BY <1>0, <2>1, HeadTailProperties
  <2>3. refused' = refused \/ Head(wire).by # Apply
    <3>1. CASE pc[Apply] = "done"
      BY <1>1, <2>2, <3>1 DEF UpToDate
    <3>2. CASE pc[Apply] # "done"
      <4>1. PICK t \in Tasks : Exchange(t)
        BY <1>1, <2>1, <3>2 DEF UpToDate, KeepingUp, Calm
      <4>2. wire = <<Request(t)>> /\ Acceptable(t)
        BY <2>1, <4>1 DEF Exchange, Calm
      <4>3. Head(wire).by = t /\ Head(wire).knob = Knob(t)
        BY <4>2 DEF Request
      <4>4. CASE t = Apply
        BY <1>5, <4>2, <4>3, <4>4 DEF Serve, Acceptable
      <4> QED
        BY <4>3, <4>4
    <3> QED
      BY <3>1, <3>2
  <2>4. refused' = refused \/ refused' = refused \cup {Head(wire)}
    BY <1>5 DEF Serve
  <2>5. pc'[Apply] = "done" => \A i \in 1..Len(wire') : wire'[i].by # Apply
    BY <1>1, <2>1, <2>2 DEF UpToDate
  <2> QED
    BY <1>2, <2>1, <2>3, <2>4, <2>5
<1>6. ASSUME UNCHANGED <<refused, stated, now, wire>>, pc'[Apply] = "done" => pc[Apply] = "done"
      PROVE  /\ \A r \in refused' : r.by # Apply
             /\ stated' = now'
             /\ pc'[Apply] = "done" => \A i \in 1..Len(wire') : wire'[i].by # Apply
  BY <1>1, <1>6 DEF UpToDate
<1>7. ASSUME NEW t \in Tasks, SetConfig(t) \/ Record(t)
      PROVE  UNCHANGED <<refused, stated, now, wire>> /\ (pc'[Apply] = "done" => pc[Apply] = "done")
  BY <1>0, <1>7 DEF SetConfig, Record, GoOn, Goto
<1>8. CASE Deliver
  <2>1. Head(back).to.by \in Tasks
    BY <1>8, SaysType DEF Deliver, TypeInv, TypeOK
  <2>2. pc'[Apply] = "done" => pc[Apply] = "done"
    BY <1>0, <1>8, <2>1 DEF Deliver, Goto
  <2> QED
    BY <1>6, <1>8, <2>2 DEF Deliver
<1>9. ASSUME NEW t \in Tasks PROVE ~GiveUp(t)
  BY DEF GiveUp
<1>10. ASSUME NEW k \in KnobIds PROVE ~OwnChange(k)
  BY DEF OwnChange
<1>11. CASE UNCHANGED vars
  BY <1>6, <1>11 DEF vars, client
<1> QED
  BY <1>2, <1>3, <1>4, <1>5, <1>6, <1>7, <1>8, <1>9, <1>10, <1>11 DEF Next, TaskStep

LEMMA AlwaysUpToDate == Spec => [](TypeInv /\ Turns /\ UpToDate)
<1>1. Init => TypeInv /\ Turns /\ Offering /\ UpToDate
  BY TypeInit, TurnsInit, UpToDateInit
<1>2. TypeInv /\ Turns /\ Offering /\ UpToDate /\ [Next]_vars
        => TypeInv' /\ Turns' /\ Offering' /\ UpToDate'
  BY TypeStep, TurnsStep, OfferingStep, UpToDateStep
<1> QED
  BY <1>1, <1>2, PTL DEF Spec

(* An agent that says what it offers is never asked by apply for a knob an   *)
(* earlier choice withdrew, whatever withdraws what and whoever sets knobs    *)
(* afterwards.                                                              *)
THEOREM WithdrawnUnasked == Spec => []KnownKnobsOnly
<1>1. UpToDate => KnownKnobsOnly
  BY DEF UpToDate, KnownKnobsOnly
<1> QED
  BY <1>1, AlwaysUpToDate, PTL

(* With one task that calls set_config, the list is what the agent last     *)
(* stated once nothing it said is still on its way.                         *)
THEOREM ListCatchesUp == ASSUME OneSetter PROVE Spec => []ListIsLatest
<1>1. TypeInv /\ UpToDate => ListIsLatest
  <2> SUFFICES ASSUME TypeInv, UpToDate, ~uninformed, ~OnTheWay PROVE options = stated
    BY DEF ListIsLatest
  <2>1. KeepingUp /\ stated = now
    BY DEF UpToDate
  <2>2. ASSUME NEW t \in Tasks, Exchange(t) PROVE options = now
    <3>1. CASE pc[t] = "waiting" /\ \E r \in Replies : back = <<r>> /\ Fresh(r, t)
      <4>1. PICK r \in Replies : back = <<r>> /\ Fresh(r, t)
        BY <3>1
      <4>2. Len(back) = 1 /\ back[1] = r
        BY <4>1
      <4>3. ~Says(r)
        BY <4>2 DEF OnTheWay, Says
      <4> QED
        BY <4>1, <4>3 DEF Fresh
    <3>2. reply[t] = {}
      BY DEF OnTheWay
    <3> QED
      BY <2>2, <3>1, <3>2 DEF Exchange, Calm
  <2> QED
    BY <2>1, <2>2 DEF KeepingUp, Calm
<1> QED
  BY <1>1, AlwaysUpToDate, PTL
===========================================================================
