------------------------------- MODULE Fanout -------------------------------
(***************************************************************************)
(* One inbound dialog key (Call-ID and From tag) and the parallel ringing  *)
(* it starts: Server.Start's INVITE case for a bridge or conference group, *)
(* handleResponse, enforceRingTimeout, handleInboundCancel,                *)
(* handleInboundBye, cancelLosers and cleanupSession (internal/sip/        *)
(* server.go).  The grain is one step per critical section of sessionMu    *)
(* and per burst of network writes made outside it.                        *)
(*                                                                         *)
(* Three kinds of thread touch the session table: the UDP read loop, which *)
(* handles every request and every response to a UDP leg one at a time; a  *)
(* reader goroutine per TLS leg, which handles the responses to that leg;  *)
(* and a ring timer goroutine per INVITE that was fanned out.              *)
(***************************************************************************)
EXTENDS Naturals

CONSTANTS
  Ring,        \* the endpoints the router found for the caller
  TlsRing,     \* those reached over a TLS trunk
  Listed,      \* whether callers of this target enter the bridge table: those of
               \* a bridge do, those of a conference group when it is recorded
  MaxInvites,  \* bound: INVITEs with this key that open a session
  NoLeg        \* "no leg"

Attempt == 1..MaxInvites
Leg == [a : Attempt, e : Ring]

ASSUME FanoutAssumption ==
  /\ Ring # {}
  /\ TlsRing \subseteq Ring
  /\ Listed \in BOOLEAN
  /\ MaxInvites \in Nat \ {0}
  /\ NoLeg \notin Leg

IsTls(l) == l.e \in TlsRing

\* Final statuses the caller's INVITE may be answered with.
Codes == {200, 408, 480, 487}
NoCode == 0

Main == [kind |-> "main", a |-> 0, leg |-> NoLeg]
Timer(a) == [kind |-> "timer", a |-> a, leg |-> NoLeg]
Reader(l) == [kind |-> "reader", a |-> 0, leg |-> l]
Thread == {Main} \cup {Timer(a) : a \in Attempt}
                 \cup {Reader(l) : l \in {k \in Leg : IsTls(k)}}

VARIABLES
  invites,     \* INVITEs accepted so far; object a is the session of INVITE a
  current,     \* s.sessions[key]: the object the table holds, 0 for none
  legsOf,      \* sess.legs of each object
  winner,      \* sess.winnerCallID of each object
  terminated,  \* sess.terminated of each object
  finalStatus, \* leg.finalStatus: "none", "ok" (2xx) or "fail"
  registered,  \* domain of s.legsByCallID
  open,        \* legs whose outboundConn is open
  line,        \* s.bridgeCalls entry of the key: "absent", "early" or "up"
  pc,          \* what each thread does next
  callee,      \* what each called endpoint does
  cancelled,   \* legs a CANCEL reached the wire for
  byed,        \* legs a BYE reached the wire for
  finals,      \* how often each final status was sent to the caller, per INVITE
  left,        \* history: INVITEs whose ringing the caller ended with a BYE
  late         \* history: legs registered when their session had left the table

tables == <<current, legsOf, winner, terminated, finalStatus, registered, open>>
history == <<left, late>>
wire == <<cancelled, byed, finals, history>>
vars == <<invites, tables, line, pc, callee, wire>>

Idle == [at |-> "idle", sess |-> 0, legs |-> {}, target |-> NoLeg,
         code |-> NoCode, hangup |-> FALSE]

\* A handler's locals: the session object it captured, the legs it still has to
\* serve, the leg it singles out, the status it owes the caller, and whether
\* cleanupBridgeCallByKey follows (CANCEL and BYE handlers).
Ctx == [at : {"idle", "off", "armed", "done", "ring", "register", "losers",
              "write", "cleanup", "line"},
        sess : 0..MaxInvites, legs : SUBSET Leg, target : Leg \cup {NoLeg},
        code : Codes \cup {NoCode}, hangup : BOOLEAN]

TypeOK ==
  /\ invites \in 0..MaxInvites
  /\ current \in 0..MaxInvites
  /\ legsOf \in [Attempt -> SUBSET Leg]
  /\ winner \in [Attempt -> Leg \cup {NoLeg}]
  /\ terminated \in [Attempt -> BOOLEAN]
  /\ finalStatus \in [Leg -> {"none", "ok", "fail"}]
  /\ registered \subseteq Leg
  /\ open \subseteq Leg
  /\ line \in {"absent", "early", "up"}
  /\ pc \in [Thread -> Ctx]
  /\ \A a \in Attempt :
       /\ pc[Timer(a)].at \in {"off", "armed", "write", "cleanup", "done"}
       /\ ~pc[Timer(a)].hangup
  /\ callee \in [Leg -> {"unrung", "ringing", "accepted", "refused"}]
  /\ cancelled \subseteq Leg
  /\ byed \subseteq Leg
  /\ finals \in [Attempt -> [Codes -> Nat]]
  /\ left \subseteq Attempt
  /\ late \subseteq Leg

Init ==
  /\ invites = 0
  /\ current = 0
  /\ legsOf = [a \in Attempt |-> {}]
  /\ winner = [a \in Attempt |-> NoLeg]
  /\ terminated = [a \in Attempt |-> FALSE]
  /\ finalStatus = [l \in Leg |-> "none"]
  /\ registered = {}
  /\ open = {}
  /\ line = "absent"
  /\ pc = [t \in Thread |->
             IF t.kind = "timer" THEN [Idle EXCEPT !.at = "off"] ELSE Idle]
  /\ callee = [l \in Leg |-> "unrung"]
  /\ cancelled = {}
  /\ byed = {}
  /\ finals = [a \in Attempt |-> [c \in Codes |-> 0]]
  /\ left = {}
  /\ late = {}

-----------------------------------------------------------------------------
(* Shared pieces of the handlers.                                          *)

\* Definitions named Mut... are mutants: the definition below each, as a plausible
\* bug would have it.  Nothing uses them but the mutation runs.

\* Mutant: only the lookup is tested.
MutGone == current = 0

\* `!ok || sess.terminated` after the table lookup.
GoneOrTerminated == current = 0 \/ (current \in Attempt /\ terminated[current])

Goto(t, ctx) == pc' = [pc EXCEPT ![t] = ctx]

\* Mutant: the timer goroutine goes back to waiting for messages.
MutReturn(t) == Goto(t, Idle)

\* A goroutine's handler returns: the read loops wait for the next message, the
\* timer goroutine ends.
Return(t) == Goto(t, [Idle EXCEPT !.at = IF t.kind = "timer" THEN "done" ELSE "idle"])

Answer(a, code) == finals' = [finals EXCEPT ![a][code] = @ + 1]

\* writeLegOutbound: a TLS leg is reachable while its connection is open.  (Once
\* it is closed the request goes out as a UDP datagram to the target URI, which is
\* not the connection the endpoint's INVITE came over; it is not counted.)
Reachable(l) == IsTls(l) => l \in open

\* Mutant: only legs that have already answered are copied.
MutTakeSession(t, status, hangup) ==
  /\ terminated' = [terminated EXCEPT ![current] = TRUE]
  /\ Goto(t, [at |-> "write", sess |-> current,
              legs |-> {l \in legsOf[current] : finalStatus[l] # "none"},
              target |-> NoLeg, code |-> status, hangup |-> hangup])
  /\ UNCHANGED <<invites, current, legsOf, winner, finalStatus, registered, open,
                 line, callee, wire>>

\* The critical section CANCEL and the ring timer share: mark the session and
\* copy its legs; CANCELs, the final status and the cleanup follow.
TakeSession(t, status, hangup) ==
  /\ terminated' = [terminated EXCEPT ![current] = TRUE]
  /\ Goto(t, [at |-> "write", sess |-> current, legs |-> legsOf[current],
              target |-> NoLeg, code |-> status, hangup |-> hangup])
  /\ UNCHANGED <<invites, current, legsOf, winner, finalStatus, registered, open,
                 line, callee, wire>>

-----------------------------------------------------------------------------
(* INVITE without a To tag (Server.Start).                                 *)

\* The session is created, the caller enters the bridge table as an early SIPREC
\* participant, and the ring loop starts.  While the key is in the table a repeated
\* INVITE gets 486 and changes nothing.  (An INVITE to an ARD line somebody is on
\* does not get here: see module Line.)
Invite ==
  /\ pc[Main].at = "idle"
  /\ current = 0
  /\ invites < MaxInvites
  /\ invites' = invites + 1
  /\ current' = invites + 1
  /\ line' = IF Listed THEN "early" ELSE line
  /\ Goto(Main, [Idle EXCEPT !.at = "ring", !.sess = invites + 1,
                             !.legs = [a : {invites + 1}, e : Ring]])
  /\ UNCHANGED <<legsOf, winner, terminated, finalStatus, registered, open,
                 callee, wire>>

\* emitOutboundInvite wrote the INVITE; a TLS leg's reader starts at once.
EmitInvite(l) ==
  /\ pc[Main].at = "ring"
  /\ l \in pc[Main].legs
  /\ callee' = [callee EXCEPT ![l] = "ringing"]
  /\ open' = IF IsTls(l) THEN open \cup {l} ELSE open
  /\ Goto(Main, [pc[Main] EXCEPT !.at = "register", !.legs = @ \ {l}, !.target = l])
  /\ UNCHANGED <<invites, current, legsOf, winner, terminated, finalStatus,
                 registered, line, wire>>

\* emitOutboundInvite failed (no route, no trunk, dial error): the leg is skipped.
EmitFails(l) ==
  /\ pc[Main].at = "ring"
  /\ l \in pc[Main].legs
  /\ Goto(Main, [pc[Main] EXCEPT !.legs = @ \ {l}])
  /\ UNCHANGED <<invites, tables, line, callee, wire>>

\* The new leg is appended to the captured session object and indexed, whether or
\* not the table still holds that object.
RegisterLeg ==
  /\ pc[Main].at = "register"
  /\ legsOf' = [legsOf EXCEPT ![pc[Main].sess] = @ \cup {pc[Main].target}]
  /\ registered' = registered \cup {pc[Main].target}
  /\ late' = IF current = pc[Main].sess THEN late ELSE late \cup {pc[Main].target}
  /\ Goto(Main, [pc[Main] EXCEPT !.at = "ring", !.target = NoLeg])
  /\ UNCHANGED <<invites, current, winner, terminated, finalStatus, open, line,
                 callee, cancelled, byed, finals, left>>

\* Mutant: no ring timer is started.
MutRingingDone ==
  /\ pc[Main].at = "ring"
  /\ pc[Main].legs = {}
  /\ Goto(Main, Idle)
  /\ UNCHANGED <<invites, tables, line, callee, wire>>

\* 180 to the caller, `go s.enforceRingTimeout`, back to the read loop.
RingingDone ==
  /\ pc[Main].at = "ring"
  /\ pc[Main].legs = {}
  /\ pc' = [pc EXCEPT ![Main] = Idle,
                      ![Timer(pc[Main].sess)] = [Idle EXCEPT !.at = "armed"]]
  /\ UNCHANGED <<invites, tables, line, callee, wire>>

-----------------------------------------------------------------------------
(* handleResponse, direct fanout branch.                                   *)

\* Mutant: one final response settles the ringing.
MutAllFinal(a, status) == \E l \in legsOf[a] : status[l] # "none"

\* Every leg the session knows has had a final response.
AllFinal(a, status) == \A l \in legsOf[a] : status[l] # "none"

\* Mutant: any final response wins.
MutSuccess(l) == TRUE

\* The endpoint's final response is a 2xx.
Success(l) == callee[l] = "accepted"

\* The first 2xx wins: 200 to the caller and the bridge entry, under the lock;
\* the losers are cancelled afterwards.  When every known leg has failed the
\* caller gets 480.
HandleResponse(t, l) ==
  /\ t = IF IsTls(l) THEN Reader(l) ELSE Main
  /\ pc[t].at = "idle"
  /\ callee[l] \in {"accepted", "refused"}
  /\ IsTls(l) => l \in open
  /\ l \in registered
  /\ ~GoneOrTerminated
  /\ LET a == current
         status == [finalStatus EXCEPT ![l] =
                      IF Success(l) THEN "ok" ELSE "fail"]
         wins == Success(l) /\ winner[a] = NoLeg
     IN /\ finalStatus' = status
        /\ \/ /\ wins
              /\ winner' = [winner EXCEPT ![a] = l]
              /\ terminated' = [terminated EXCEPT ![a] = TRUE]
              /\ Answer(a, 200)
              /\ line' = IF Listed THEN "up" ELSE line
              /\ Goto(t, [Idle EXCEPT !.at = "losers", !.sess = a, !.target = l])
           \/ /\ ~wins /\ AllFinal(a, status)
              /\ Answer(a, 480)
              /\ Goto(t, [Idle EXCEPT !.at = "cleanup", !.sess = a])
              /\ UNCHANGED <<winner, terminated, line>>
           \/ /\ ~wins /\ ~AllFinal(a, status)
              /\ UNCHANGED <<winner, terminated, line, pc, finals>>
  /\ UNCHANGED <<invites, current, legsOf, registered, open, callee, cancelled, byed,
                 history>>

\* Mutant: the winner is not left out.
MutCancelLosers(t) ==
  /\ pc[t].at = "losers"
  /\ Goto(t, IF current \in Attempt
               THEN [pc[t] EXCEPT !.at = "write", !.target = NoLeg,
                                  !.legs = legsOf[current]]
               ELSE [pc[t] EXCEPT !.at = "cleanup"])
  /\ UNCHANGED <<invites, tables, line, callee, wire>>

\* cancelLosers looks the session up again and copies its legs, if it is there.
CancelLosers(t) ==
  /\ pc[t].at = "losers"
  /\ Goto(t, IF current \in Attempt
               THEN [pc[t] EXCEPT !.at = "write", !.target = NoLeg,
                                  !.legs = legsOf[current] \ {pc[t].target}]
               ELSE [pc[t] EXCEPT !.at = "cleanup"])
  /\ UNCHANGED <<invites, tables, line, callee, wire>>

\* The writes made outside the lock: CANCEL to each copied leg, BYE to the
\* winner, the final status owed to the caller.
WriteRequests(t) ==
  /\ pc[t].at = "write"
  /\ cancelled' = cancelled \cup {l \in pc[t].legs : Reachable(l)}
  /\ byed' = byed \cup {l \in {pc[t].target} \ {NoLeg} : Reachable(l)}
  /\ IF pc[t].code = NoCode THEN UNCHANGED finals ELSE Answer(pc[t].sess, pc[t].code)
  /\ Goto(t, [pc[t] EXCEPT !.at = "cleanup", !.code = NoCode])
  /\ UNCHANGED <<invites, tables, line, callee, history>>

\* Mutant: the connections are not closed.
MutCleanupSession(t) ==
  /\ pc[t].at = "cleanup"
  /\ IF current \in Attempt
       THEN registered' = registered \ legsOf[current] /\ current' = 0
       ELSE UNCHANGED <<registered, current>>
  /\ IF pc[t].hangup THEN Goto(t, [Idle EXCEPT !.at = "line"]) ELSE Return(t)
  /\ UNCHANGED <<invites, legsOf, winner, terminated, finalStatus, open, line,
                 callee, wire>>

\* cleanupSession removes whatever session the key holds now, its legs from the
\* index, and closes its TLS connections.
CleanupSession(t) ==
  /\ pc[t].at = "cleanup"
  /\ IF current \in Attempt
       THEN /\ registered' = registered \ legsOf[current]
            /\ open' = open \ legsOf[current]
            /\ current' = 0
       ELSE UNCHANGED <<registered, open, current>>
  /\ IF pc[t].hangup THEN Goto(t, [Idle EXCEPT !.at = "line"]) ELSE Return(t)
  /\ UNCHANGED <<invites, legsOf, winner, terminated, finalStatus, line, callee, wire>>

\* cleanupBridgeCallByKey.
CleanupLine ==
  /\ pc[Main].at = "line"
  /\ line' = "absent"
  /\ Return(Main)
  /\ UNCHANGED <<invites, tables, callee, wire>>

-----------------------------------------------------------------------------
(* enforceRingTimeout, handleInboundCancel, handleInboundBye.              *)

TimerFires(a) ==
  /\ pc[Timer(a)].at = "armed"
  /\ \/ /\ GoneOrTerminated
        /\ Return(Timer(a))
        /\ UNCHANGED <<invites, tables, line, callee, wire>>
     \/ /\ ~GoneOrTerminated
        /\ TakeSession(Timer(a), 408, FALSE)

\* The caller may cancel until it has seen a final status, which may be lost.
InboundCancel ==
  /\ pc[Main].at = "idle"
  /\ invites > 0
  /\ \/ /\ GoneOrTerminated
        /\ Goto(Main, [Idle EXCEPT !.at = "line"])
        /\ UNCHANGED <<invites, tables, line, callee, wire>>
     \/ /\ ~GoneOrTerminated
        /\ TakeSession(Main, 487, TRUE)

\* The caller hangs up, during the call or while it still rings: BYE looks neither
\* at terminated nor at the winner.  Nothing is sent to an INVITE that is pending.
InboundBye ==
  /\ pc[Main].at = "idle"
  /\ invites > 0
  /\ left' = IF GoneOrTerminated THEN left ELSE left \cup {current}
  /\ IF current \in Attempt
       THEN LET w == winner[current]
            IN /\ terminated' = [terminated EXCEPT ![current] = TRUE]
               /\ Goto(Main, [at |-> "write", sess |-> current,
                              legs |-> IF w = NoLeg THEN legsOf[current] ELSE {},
                              target |-> IF w \in legsOf[current] THEN w ELSE NoLeg,
                              code |-> NoCode, hangup |-> TRUE])
       ELSE /\ Goto(Main, [Idle EXCEPT !.at = "line"])
            /\ UNCHANGED terminated
  /\ UNCHANGED <<invites, current, legsOf, winner, finalStatus, registered, open,
                 line, callee, cancelled, byed, finals, late>>

-----------------------------------------------------------------------------
(* The called endpoints: answer or refuse (busy, unreachable, cancelled).  *)

CalleeResponds(l) ==
  /\ callee[l] = "ringing"
  /\ \E r \in {"accepted", "refused"} : callee' = [callee EXCEPT ![l] = r]
  /\ UNCHANGED <<invites, tables, line, pc, wire>>

RingLoop == (\E l \in Leg : EmitInvite(l) \/ EmitFails(l)) \/ RegisterLeg \/ RingingDone
Teardown(t) == CancelLosers(t) \/ WriteRequests(t) \/ CleanupSession(t)

Next ==
  \/ Invite \/ RingLoop
  \/ InboundCancel \/ InboundBye \/ CleanupLine
  \/ \E t \in Thread : Teardown(t)
  \/ \E t \in Thread, l \in Leg : HandleResponse(t, l)
  \/ \E a \in Attempt : TimerFires(a)
  \/ \E l \in Leg : CalleeResponds(l)

Spec == Init /\ [][Next]_vars

\* A goroutine in the middle of a handler goes on, and a Go timer fires.  Nothing
\* makes an endpoint answer or a caller hang up.
Fairness ==
  /\ WF_vars(RingLoop)
  /\ WF_vars(CleanupLine)
  /\ \A t \in Thread : WF_vars(Teardown(t))
  /\ \A a \in Attempt : WF_vars(TimerFires(a))

FairSpec == Spec /\ Fairness

-----------------------------------------------------------------------------
(* Properties.                                                             *)

\* The 200 of a winner, the 408 of the ring timer and the 487 of a CANCEL exclude
\* one another: whichever handler marks the session first owns the final status,
\* however the read loop, the TLS readers and the timers interleave.
OneDecision == \A a \in Attempt :
  finals[a][200] + finals[a][408] + finals[a][487] <= 1

\* The leg the caller was connected to is never sent a CANCEL, and only it is
\* ever sent a BYE (cancelLosers, enforceRingTimeout, handleInboundCancel and
\* handleInboundBye each work on a copy of the legs made under an earlier lock).
WinnerSpared == \A a \in Attempt :
  /\ winner[a] \notin cancelled
  /\ \A l \in legsOf[a] \cap byed : l = winner[a]

\* Nobody handles INVITE a any more and its session is out of the table.
Quiet(a) == a <= invites /\ current # a /\ \A t \in Thread : pc[t].sess # a

\* When the handling of an INVITE is over, no endpoint is left ringing without
\* having been sent a CANCEL.
NoLegForgotten == \A l \in Leg :
  Quiet(l.a) /\ callee[l] = "ringing" => l \in cancelled

\* When the handling of an INVITE is over, none of its legs is left in the
\* response index and none of its TLS connections is left open, whichever of
\* several INVITEs' handlers cleaned up, and although cleanupSession takes whatever
\* session the key holds.  The ring loop does not look whether its session is still
\* in the table when it registers a leg (server.go:1355): those legs are excepted.
NoLegLeak == \A l \in Leg :
  Quiet(l.a) /\ l \notin late => l \notin registered \cup open

\* 480 is only sent when every endpoint that was rung has refused ("Determine if
\* all legs have final responses").
FailureMeansAllRefused == \A a \in Attempt : finals[a][480] > 0 =>
  \A l \in Leg : l.a = a => callee[l] \in {"unrung", "refused"}

\* A failed INVITE is over: 480 is the only final status ("Also terminate if
\* everything failed").
SingleFinalStatus == \A a \in Attempt :
  finals[a][200] + finals[a][408] + finals[a][480] + finals[a][487] <= 1

\* Every accepted INVITE is answered: by a winner, by the failure of every leg, by
\* the caller's own CANCEL, or at the latest by the ring timer.  Only a caller who
\* sends a BYE while it rings gets no final status (handleInboundBye sends none).
CallerIsAnswered == \A a \in Attempt :
  invites >= a ~> a \in left \/ \E c \in Codes : finals[a][c] > 0

\* The fanout implements AnswerOnce: an object is pending while the table holds it
\* and nobody has marked it.
Phase == [a \in Attempt |->
  IF a > invites THEN "unused"
  ELSE IF winner[a] # NoLeg THEN "answered"
  ELSE IF terminated[a] \/ current # a THEN "closed" ELSE "pending"]

Abs == INSTANCE AnswerOnce WITH
  phase <- Phase, chosen <- winner,
  told <- [a \in Attempt |-> finals[a][200]],
  accepted <- {l \in Leg : callee[l] = "accepted"}

AnswersOnce == Abs!Spec
=============================================================================
