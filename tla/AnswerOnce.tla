----------------------------- MODULE AnswerOnce -----------------------------
(***************************************************************************)
(* What parallel ringing promises, said without sessions, locks or timers: *)
(* each accepted INVITE is decided at most once.  Either one leg whose     *)
(* endpoint accepted is chosen, and in that same step the caller is told   *)
(* so, or the INVITE is closed and no leg is ever chosen for it.           *)
(***************************************************************************)
EXTENDS Naturals

CONSTANTS
  Attempt,  \* the accepted INVITEs
  Leg,      \* the outbound legs
  NoLeg

VARIABLES
  phase,     \* "unused", "pending", "answered" or "closed"
  chosen,    \* the leg the caller is connected to
  told,      \* 200 responses sent to the caller
  accepted   \* legs whose endpoint accepted the call

vars == <<phase, chosen, told, accepted>>

Init ==
  /\ phase = [a \in Attempt |-> "unused"]
  /\ chosen = [a \in Attempt |-> NoLeg]
  /\ told = [a \in Attempt |-> 0]
  /\ accepted = {}

Open(a) ==
  /\ phase[a] = "unused"
  /\ phase' = [phase EXCEPT ![a] = "pending"]
  /\ UNCHANGED <<chosen, told, accepted>>

Accept(l) ==
  /\ accepted' = accepted \cup {l}
  /\ UNCHANGED <<phase, chosen, told>>

Choose(a, l) ==
  /\ phase[a] = "pending"
  /\ l \in accepted
  /\ phase' = [phase EXCEPT ![a] = "answered"]
  /\ chosen' = [chosen EXCEPT ![a] = l]
  /\ told' = [told EXCEPT ![a] = 1]
  /\ UNCHANGED accepted

Close(a) ==
  /\ phase[a] = "pending"
  /\ phase' = [phase EXCEPT ![a] = "closed"]
  /\ UNCHANGED <<chosen, told, accepted>>

Next ==
  \/ \E a \in Attempt : Open(a) \/ Close(a)
  \/ \E l \in Leg : Accept(l)
  \/ \E a \in Attempt, l \in Leg : Choose(a, l)

Spec == Init /\ [][Next]_vars
=============================================================================
