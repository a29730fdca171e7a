----------------------------- MODULE Requests -----------------------------
(***************************************************************************)
(* What Connection promises to whoever makes a request, with no map, no     *)
(* channel and no reader: a request ends at most once, an "ok" is the       *)
(* agent's own answer to that very request, "closed" and "failed" are said  *)
(* only of an agent that is gone, and a turn that was given up on stays     *)
(* given up, however late its answer comes.                                 *)
(***************************************************************************)
CONSTANT Calls

VARIABLES
  asked,     \* requests the client has undertaken
  answered,  \* requests the agent has answered
  gone,      \* the agent has left one of its pipes
  outcome    \* how each request ended, "none" until it does

vars == <<asked, answered, gone, outcome>>

Init ==
  /\ asked = {} /\ answered = {} /\ gone = FALSE
  /\ outcome = [c \in Calls |-> "none"]

Ask(c) ==
  /\ c \notin asked
  /\ asked' = asked \cup {c}
  /\ UNCHANGED <<answered, gone, outcome>>

AgentAnswers(c) ==
  /\ c \in asked
  /\ answered' = answered \cup {c}
  /\ UNCHANGED <<asked, gone, outcome>>

AgentLeaves ==
  /\ gone' = TRUE
  /\ UNCHANGED <<asked, answered, outcome>>

End(c, r) ==
  /\ c \in asked /\ outcome[c] = "none"
  /\ \/ r = "ok" /\ c \in answered
     \/ r \in {"closed", "failed"} /\ gone
     \/ r \in {"timeout", "dropped"}
  /\ outcome' = [outcome EXCEPT ![c] = r]
  /\ UNCHANGED <<asked, answered, gone>>

Next ==
  \/ AgentLeaves
  \/ \E c \in Calls :
       \/ Ask(c) \/ AgentAnswers(c)
       \/ \E r \in {"ok", "closed", "failed", "timeout", "dropped"} : End(c, r)

Spec == Init /\ [][Next]_vars
===========================================================================
