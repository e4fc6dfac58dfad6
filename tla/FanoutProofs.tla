---------------------------- MODULE FanoutProofs ----------------------------
(***************************************************************************)
(* TLAPS proofs about Fanout.  For any ring list, any mix of transports    *)
(* and any number of repeated INVITEs: its type invariant, OneDecision and *)
(* NoLegLeak.  For UDP endpoints: FailureMeansAllRefused and, when the     *)
(* caller does not ring again, NoLegForgotten.  For either: WinnerSpared.  *)
(* Each section says what goes wrong otherwise.                            *)
(* Last, that Fanout implements AnswerOnce.                                *)
(***************************************************************************)
EXTENDS Fanout, TLAPS

\* Handler t has marked session a and still owes the caller 408 or 487 for it.
Owes(t, a) == pc[t].sess = a /\ pc[t].code # NoCode

Decided(a) == finals[a][200] + finals[a][408] + finals[a][487]

\* A handler owes a status only between the lock section that marks the session
\* and its writes, and owes it for an accepted INVITE.
OwesWhileWriting == \A t \in Thread :
  /\ pc[t].code \in {NoCode, 408, 487}
  /\ pc[t].code # NoCode => pc[t].at = "write" /\ pc[t].sess \in Attempt

\* Only a marked session is decided or owed a status; at most one handler owes it,
\* and only while nothing was sent yet.
OwnedOnce == \A a \in Attempt :
  /\ Decided(a) <= 1
  /\ ~terminated[a] => Decided(a) = 0
  /\ \A t \in Thread : Owes(t, a) => terminated[a] /\ Decided(a) = 0
  /\ \A t, u \in Thread : Owes(t, a) /\ Owes(u, a) => t = u

\* The ring loop registers a leg it has just invited.
RegistersALeg == pc[Main].at = "register" => pc[Main].target \in Leg

TInv == TypeOK /\ RegistersALeg

\* The inductive invariant behind OneDecision.
IInv == TInv /\ OwesWhileWriting /\ OwnedOnce

\* The part of TypeOK that is about pc.
PcType ==
  /\ pc \in [Thread -> Ctx]
  /\ \A a \in Attempt :
       /\ pc[Timer(a)].at \in {"off", "armed", "write", "cleanup", "done"}
       /\ ~pc[Timer(a)].hangup

-----------------------------------------------------------------------------

\* The threads are told apart by their kind.
LEMMA Threads ==
  /\ Main \in Thread
  /\ \A a \in Attempt : Timer(a) \in Thread /\ Timer(a) # Main
  /\ \A l \in Leg : IsTls(l) => Reader(l) \in Thread /\ Reader(l) # Main
  /\ \A a \in Attempt, l \in Leg : Timer(a) # Reader(l)
  BY DEF Main, Timer, Reader, Thread

\* Idle is a handler's locals.
LEMMA IdleCtx == Idle \in Ctx /\ Idle.at = "idle" /\ ~Idle.hangup /\ Idle.code = NoCode
  BY FanoutAssumption DEF Idle, Ctx, NoCode

\* A thread's next step keeps the type of pc when the new locals have it.
LEMMA GotoType ==
  ASSUME TypeOK, NEW t \in Thread, NEW ctx \in Ctx, Goto(t, ctx),
         \A a \in Attempt : t = Timer(a) =>
            /\ ctx.at \in {"off", "armed", "write", "cleanup", "done"}
            /\ ~ctx.hangup
  PROVE  PcType'
  BY Threads DEF TypeOK, Goto, PcType

\* Returning from a handler keeps the type of pc.
LEMMA ReturnType ==
  ASSUME TypeOK, NEW t \in Thread, Return(t)
  PROVE  PcType'
  <1> DEFINE ctx == [Idle EXCEPT !.at = IF t.kind = "timer" THEN "done" ELSE "idle"]
  <1>1. ctx \in Ctx /\ ~ctx.hangup
    <2>1. CASE t.kind = "timer"
      BY <2>1, IdleCtx DEF Ctx
    <2>2. CASE t.kind # "timer"
      BY <2>2, IdleCtx DEF Ctx
    <2> QED
      BY <2>1, <2>2
  <1>2. \A a \in Attempt : t = Timer(a) => ctx.at = "done"
    BY DEF Timer, Idle
  <1>3. Goto(t, ctx)
    BY DEF Return
  <1> QED
    BY <1>1, <1>2, <1>3, GotoType

\* Counting one more final status keeps the type of finals.
LEMMA AnswerType ==
  ASSUME TypeOK, NEW a, NEW code \in Codes, Answer(a, code)
  PROVE  finals' \in [Attempt -> [Codes -> Nat]]
  <1>1. CASE a \in Attempt
    <2>1. [finals[a] EXCEPT ![code] = @ + 1] \in [Codes -> Nat]
      BY <1>1 DEF TypeOK
    <2> QED
      BY <1>1, <2>1 DEF TypeOK, Answer
  <1>2. CASE a \notin Attempt
    BY <1>2 DEF TypeOK, Answer
  <1> QED
    BY <1>1, <1>2

-----------------------------------------------------------------------------

LEMMA TypeInit == Init => TInv
  <1> SUFFICES ASSUME Init
               PROVE  TInv
    OBVIOUS
  <1>1. [Idle EXCEPT !.at = "off"] \in Ctx
    BY IdleCtx DEF Ctx
  <1>2. PcType
    <2>1. \A a \in Attempt : Timer(a) \in Thread /\ Timer(a).kind = "timer"
      BY Threads DEF Timer
    <2>2. pc \in [Thread -> Ctx]
      BY <1>1, IdleCtx DEF Init
    <2>3. \A a \in Attempt : pc[Timer(a)] = [Idle EXCEPT !.at = "off"]
      BY <2>1 DEF Init
    <2> QED
      BY <2>2, <2>3, IdleCtx DEF PcType, Ctx
  <1>3. RegistersALeg
    BY Threads, IdleCtx DEF Init, RegistersALeg, Main
  <1>4. finals \in [Attempt -> [Codes -> Nat]]
    BY DEF Init
  <1>5. invites \in 0..MaxInvites /\ current \in 0..MaxInvites
    BY FanoutAssumption DEF Init
  <1> QED
    BY <1>2, <1>3, <1>4, <1>5 DEF Init, TInv, TypeOK, PcType

\* Marking a session and copying its legs keeps the types.
LEMMA TakeType ==
  ASSUME TInv, ~GoneOrTerminated, NEW t \in Thread, NEW status \in Codes,
         NEW hangup \in BOOLEAN, TakeSession(t, status, hangup),
         \A a \in Attempt : t = Timer(a) => ~hangup
  PROVE  TInv'
  <1> DEFINE ctx == [at |-> "write", sess |-> current, legs |-> legsOf[current],
                     target |-> NoLeg, code |-> status, hangup |-> hangup]
  <1>1. current \in Attempt /\ ctx \in Ctx
    BY DEF TInv, TypeOK, GoneOrTerminated, Ctx, Attempt
  <1>2. Goto(t, ctx)
    BY DEF TakeSession
  <1>3. PcType'
    BY <1>1, <1>2, GotoType DEF TInv
  <1>4. RegistersALeg'
    BY <1>2, Threads DEF TInv, TypeOK, RegistersALeg, Goto
  <1> QED
    BY <1>1, <1>3, <1>4 DEF TInv, TypeOK, PcType, TakeSession, wire, history

LEMMA TypeStep == TInv /\ [Next]_vars => TInv'
  <1> SUFFICES ASSUME TInv, [Next]_vars
               PROVE  TInv'
    OBVIOUS
  <1> USE DEF TInv
  <1>1. CASE Invite
    <2>1. [Idle EXCEPT !.at = "ring", !.sess = invites + 1,
                       !.legs = [a : {invites + 1}, e : Ring]] \in Ctx
      <3>1. invites + 1 \in 0..MaxInvites /\ invites + 1 \in Attempt
        BY <1>1, FanoutAssumption DEF Invite, TypeOK, Attempt
      <3>2. [a : {invites + 1}, e : Ring] \subseteq Leg
        BY <3>1 DEF Leg
      <3> QED
        BY <3>1, <3>2, IdleCtx DEF Ctx
    <2>2. RegistersALeg'
      BY <1>1, Threads DEF Invite, TypeOK, RegistersALeg, Goto, Idle
    <2> QED
      <3>1. PcType'
        BY <1>1, <2>1, GotoType, Threads DEF Invite
      <3>2. invites' \in 0..MaxInvites /\ current' \in 0..MaxInvites
        BY <1>1, FanoutAssumption DEF Invite, TypeOK
      <3> QED
        BY <1>1, <2>2, <3>1, <3>2 DEF Invite, TypeOK, PcType, wire, history
  <1>2. ASSUME NEW l \in Leg, EmitInvite(l)
        PROVE  TInv'
    <2>1. [pc[Main] EXCEPT !.at = "register", !.legs = @ \ {l}, !.target = l] \in Ctx
      <3>1. pc[Main] \in Ctx
        BY Threads DEF TypeOK
      <3> QED
        BY ONLY <3>1, l \in Leg DEF Ctx
    <2>2. RegistersALeg'
      BY <1>2, Threads DEF EmitInvite, TypeOK, RegistersALeg, Goto, Ctx
    <2> QED
      <3>1. PcType'
        BY <1>2, <2>1, GotoType, Threads DEF EmitInvite
      <3>2. open' \subseteq Leg
        BY <1>2 DEF EmitInvite, TypeOK
      <3> QED
        BY <1>2, <2>2, <3>1, <3>2 DEF EmitInvite, TypeOK, PcType, wire, history
  <1>3. ASSUME NEW l \in Leg, EmitFails(l)
        PROVE  TInv'
    <2>1. [pc[Main] EXCEPT !.legs = @ \ {l}] \in Ctx
      <3>1. pc[Main] \in Ctx
        BY Threads DEF TypeOK
      <3> QED
        BY ONLY <3>1 DEF Ctx
    <2>2. RegistersALeg'
      BY <1>3, Threads DEF EmitFails, TypeOK, RegistersALeg, Goto, Ctx
    <2> QED
      BY <1>3, <2>1, <2>2, GotoType, Threads DEF EmitFails, TypeOK, PcType, tables, wire, history
  <1>4. CASE RegisterLeg
    <2>1. [pc[Main] EXCEPT !.at = "ring", !.target = NoLeg] \in Ctx
      <3>1. pc[Main] \in Ctx
        BY Threads DEF TypeOK
      <3> QED
        BY <3>1 DEF Ctx
    <2>2. RegistersALeg'
      BY <1>4, <2>1, Threads DEF RegisterLeg, TypeOK, RegistersALeg, Goto, Ctx
    <2> QED
      <3>1. PcType'
        BY <1>4, <2>1, GotoType, Threads DEF RegisterLeg
      <3>2. pc[Main].target \in Leg
        BY <1>4 DEF RegisterLeg, RegistersALeg
      <3> QED
        BY <1>4, <2>2, <3>1, <3>2 DEF RegisterLeg, TypeOK, PcType, wire, history
  <1>5. CASE RingingDone
    <2>1. pc' \in [Thread -> Ctx]
      BY <1>5, IdleCtx, Threads DEF RingingDone, TypeOK, Ctx
    <2>2. \A a \in Attempt :
            /\ pc'[Timer(a)].at \in {"off", "armed", "write", "cleanup", "done"}
            /\ ~pc'[Timer(a)].hangup
      BY <1>5, IdleCtx, Threads DEF RingingDone, TypeOK, Ctx
    <2>3. RegistersALeg'
      BY <1>5, IdleCtx, Threads DEF RingingDone, TypeOK, RegistersALeg, Ctx
    <2> QED
      BY <1>5, <2>1, <2>2, <2>3 DEF RingingDone, TypeOK, tables, wire, history
  <1>6. CASE InboundCancel
    <2>1. CASE GoneOrTerminated
      <3>1. [Idle EXCEPT !.at = "line"] \in Ctx
        BY IdleCtx DEF Ctx
      <3>2. RegistersALeg'
        BY <1>6, <2>1, IdleCtx, Threads
        DEF InboundCancel, TypeOK, RegistersALeg, Goto, Ctx
      <3> QED
        BY <1>6, <2>1, <3>1, <3>2, GotoType, Threads
        DEF InboundCancel, TypeOK, PcType, tables, wire, history
    <2>2. CASE ~GoneOrTerminated
      <3>1. TakeSession(Main, 487, TRUE)
        BY <1>6, <2>2 DEF InboundCancel
      <3>2. Main \in Thread /\ \A a \in Attempt : Main # Timer(a)
        BY Threads
      <3>3. 487 \in Codes
        BY DEF Codes
      <3> HIDE DEF TInv
      <3> QED
        BY <2>2, <3>1, <3>2, <3>3, TakeType
    <2> QED
      BY <2>1, <2>2
  <1>7. CASE InboundBye
    <2> DEFINE w == winner[current]
    <2> DEFINE ctx == [at |-> "write", sess |-> current,
                       legs |-> IF w = NoLeg THEN legsOf[current] ELSE {},
                       target |-> IF w \in legsOf[current] THEN w ELSE NoLeg,
                       code |-> NoCode, hangup |-> TRUE]
    <2>1. CASE current \in Attempt
      <3>1. ctx \in Ctx
        BY <2>1 DEF TypeOK, Ctx
      <3>2. Goto(Main, ctx)
        BY <1>7, <2>1 DEF InboundBye
      <3>3. RegistersALeg'
        <4>1. ctx.at # "register"
          OBVIOUS
        <4> HIDE DEF ctx
        <4>2. pc'[Main] = ctx
          BY <3>2, Threads DEF TypeOK, Goto
        <4> QED
          BY <4>1, <4>2 DEF RegistersALeg
      <3> HIDE DEF ctx
      <3>4. PcType'
        BY <3>1, <3>2, GotoType, Threads
      <3>5. terminated' \in [Attempt -> BOOLEAN]
        BY <1>7, <2>1 DEF InboundBye, TypeOK
      <3>6. UNCHANGED <<invites, current, legsOf, winner, finalStatus, registered, open,
                        line, callee, cancelled, byed, finals, late>>
        BY <1>7 DEF InboundBye
      <3>7. left' \subseteq Attempt
        BY <1>7, <2>1 DEF InboundBye, TypeOK
      <3> QED
        BY <3>3, <3>4, <3>5, <3>6, <3>7 DEF TypeOK, PcType
    <2>2. CASE current \notin Attempt
      <3>1. [Idle EXCEPT !.at = "line"] \in Ctx
        BY IdleCtx DEF Ctx
      <3>2. RegistersALeg'
        BY <1>7, <2>2, IdleCtx, Threads
        DEF InboundBye, TypeOK, RegistersALeg, Goto, Ctx
      <3>3. left' = left
        BY <1>7, <2>2 DEF InboundBye, TypeOK, GoneOrTerminated, Attempt
      <3> QED
        BY <1>7, <2>2, <3>1, <3>2, <3>3, GotoType, Threads DEF InboundBye, TypeOK, PcType
    <2> QED
      BY <2>1, <2>2
  <1>8. CASE CleanupLine
    <2>1. RegistersALeg'
      BY <1>8, IdleCtx, Threads
      DEF CleanupLine, Return, TypeOK, RegistersALeg, Goto, Ctx, Main
    <2> QED
      BY <1>8, <2>1, ReturnType, Threads DEF CleanupLine, TypeOK, PcType, tables, wire, history
  <1>9. ASSUME NEW t \in Thread, CancelLosers(t)
        PROVE  TInv'
    <2> DEFINE ctx == IF current \in Attempt
                        THEN [pc[t] EXCEPT !.at = "write", !.target = NoLeg,
                                           !.legs = legsOf[current] \ {pc[t].target}]
                        ELSE [pc[t] EXCEPT !.at = "cleanup"]
    <2>1. ctx \in Ctx /\ ctx.at \in {"write", "cleanup"} /\ ctx.hangup = pc[t].hangup
      <3>1. pc[t] \in Ctx
        BY DEF TypeOK
      <3>2. CASE current \in Attempt
        <4>1. legsOf[current] \ {pc[t].target} \in SUBSET Leg
          BY <3>2 DEF TypeOK
        <4> QED
          BY <3>1, <3>2, <4>1 DEF Ctx
      <3>3. CASE current \notin Attempt
        BY <3>1, <3>3 DEF Ctx
      <3> QED
        BY <3>2, <3>3
    <2>2. Goto(t, ctx)
      BY <1>9 DEF CancelLosers
    <2>3. RegistersALeg'
      BY <2>1, <2>2, Threads DEF TypeOK, RegistersALeg, Goto
    <2> HIDE DEF ctx
    <2>4. \A a \in Attempt : t = Timer(a) => ~ctx.hangup
      BY <2>1 DEF TypeOK
    <2> QED
      BY <1>9, <2>1, <2>2, <2>3, <2>4, GotoType, Threads
      DEF CancelLosers, TypeOK, PcType, tables, wire, history
  <1>10. ASSUME NEW t \in Thread, WriteRequests(t)
         PROVE  TInv'
    <2> DEFINE ctx == [pc[t] EXCEPT !.at = "cleanup", !.code = NoCode]
    <2>1. ctx \in Ctx /\ ctx.at = "cleanup" /\ ctx.hangup = pc[t].hangup
      <3>1. pc[t] \in Ctx
        BY DEF TypeOK
      <3> QED
        BY <3>1 DEF Ctx
    <2>2. Goto(t, ctx)
      BY <1>10 DEF WriteRequests
    <2>3. RegistersALeg'
      BY <2>1, <2>2, Threads DEF TypeOK, RegistersALeg, Goto
    <2>4. cancelled' \subseteq Leg /\ byed' \subseteq Leg
      BY <1>10 DEF WriteRequests, TypeOK, Ctx
    <2>5. finals' \in [Attempt -> [Codes -> Nat]]
      <3>1. CASE pc[t].code = NoCode
        BY <1>10, <3>1 DEF WriteRequests, TypeOK
      <3>2. CASE pc[t].code # NoCode
        <4>1. pc[t].code \in Codes
          BY <3>2 DEF TypeOK, Ctx
        <4> QED
          BY <1>10, <3>2, <4>1, AnswerType DEF WriteRequests
      <3> QED
        BY <3>1, <3>2
    <2> HIDE DEF ctx
    <2>6. \A a \in Attempt : t = Timer(a) => ~ctx.hangup
      BY <2>1 DEF TypeOK
    <2> QED
      BY <1>10, <2>1, <2>2, <2>3, <2>4, <2>5, <2>6, GotoType, Threads
      DEF WriteRequests, TypeOK, PcType, tables, history
  <1>11. ASSUME NEW t \in Thread, CleanupSession(t)
         PROVE  TInv'
    <2>1. /\ registered' \subseteq Leg
          /\ open' \subseteq Leg
          /\ current' \in 0..MaxInvites
      BY <1>11, FanoutAssumption DEF CleanupSession, TypeOK
    <2>2. PcType'
      <3>1. CASE pc[t].hangup
        <4>1. [Idle EXCEPT !.at = "line"] \in Ctx
          BY IdleCtx DEF Ctx
        <4>2. \A a \in Attempt : t # Timer(a)
          BY <3>1 DEF TypeOK
        <4> QED
          BY <1>11, <3>1, <4>1, <4>2, GotoType DEF CleanupSession
      <3>2. CASE ~pc[t].hangup
        BY <1>11, <3>2, ReturnType DEF CleanupSession
      <3> QED
        BY <3>1, <3>2
    <2>3. RegistersALeg'
      BY <1>11, IdleCtx, Threads
      DEF CleanupSession, Return, TypeOK, RegistersALeg, Goto, Idle
    <2> QED
      BY <1>11, <2>1, <2>2, <2>3 DEF CleanupSession, TypeOK, PcType, wire, history
  <1>12. ASSUME NEW t \in Thread, NEW l \in Leg, HandleResponse(t, l)
         PROVE  TInv'
    <2> DEFINE status == [finalStatus EXCEPT ![l] = IF Success(l) THEN "ok" ELSE "fail"]
               wins == Success(l) /\ winner[current] = NoLeg
    <2>1. current \in Attempt
      BY <1>12 DEF HandleResponse, GoneOrTerminated, TypeOK, Attempt
    <2>2. finalStatus' \in [Leg -> {"none", "ok", "fail"}]
      BY <1>12 DEF HandleResponse, TypeOK
    <2>3. \A a \in Attempt : t # Timer(a)
      BY <1>12, Threads DEF HandleResponse
    <2>4. CASE wins
      <3>1. [Idle EXCEPT !.at = "losers", !.sess = current, !.target = l] \in Ctx
        BY <2>1, IdleCtx DEF Ctx, TypeOK
      <3>2. Goto(t, [Idle EXCEPT !.at = "losers", !.sess = current, !.target = l])
        BY <1>12, <2>4 DEF HandleResponse
      <3>3. finals' \in [Attempt -> [Codes -> Nat]]
        BY <1>12, <2>4, AnswerType DEF HandleResponse, Codes
      <3>4. RegistersALeg'
        BY <3>2, IdleCtx, Threads DEF TypeOK, RegistersALeg, Goto, Ctx
      <3> QED
        <4>1. PcType'
          BY <2>3, <3>1, <3>2, GotoType
        <4>2. /\ winner' \in [Attempt -> Leg \cup {NoLeg}]
              /\ terminated' \in [Attempt -> BOOLEAN]
              /\ line' \in {"absent", "early", "up"}
          <5>1. terminated' = terminated \/ terminated' = [terminated EXCEPT ![current] = TRUE]
            BY <1>12, <2>4 DEF HandleResponse
          <5>2. winner' = winner \/ winner' = [winner EXCEPT ![current] = l]
            BY <1>12, <2>4 DEF HandleResponse
          <5>3. line' = line \/ line' = "up"
            BY <1>12, <2>4 DEF HandleResponse
          <5>4. terminated' \in [Attempt -> BOOLEAN]
            BY <5>1 DEF TypeOK
          <5>5. winner' \in [Attempt -> Leg \cup {NoLeg}]
            BY <5>2 DEF TypeOK
          <5>6. line' \in {"absent", "early", "up"}
            BY <5>3 DEF TypeOK
          <5> QED
            BY <5>4, <5>5, <5>6
        <4> QED
          BY <1>12, <2>2, <3>3, <3>4, <4>1, <4>2 DEF HandleResponse, TypeOK, PcType, history
    <2>5. CASE ~wins /\ AllFinal(current, status)
      <3>1. [Idle EXCEPT !.at = "cleanup", !.sess = current] \in Ctx
        BY <2>1, IdleCtx DEF Ctx, TypeOK
      <3>2. Goto(t, [Idle EXCEPT !.at = "cleanup", !.sess = current])
        BY <1>12, <2>5 DEF HandleResponse
      <3>3. finals' \in [Attempt -> [Codes -> Nat]]
        BY <1>12, <2>5, AnswerType DEF HandleResponse, Codes
      <3>4. RegistersALeg'
        BY <3>2, IdleCtx, Threads DEF TypeOK, RegistersALeg, Goto, Ctx
      <3> QED
        BY <1>12, <2>1, <2>2, <2>3, <2>5, <3>1, <3>2, <3>3, <3>4, GotoType
        DEF HandleResponse, TypeOK, PcType, history
    <2>6. CASE ~wins /\ ~AllFinal(current, status)
      BY <1>12, <2>2, <2>6 DEF HandleResponse, TypeOK, RegistersALeg, history
    <2> QED
      BY <2>4, <2>5, <2>6
  <1>13. ASSUME NEW a \in Attempt, TimerFires(a)
         PROVE  TInv'
    <2>1. CASE GoneOrTerminated
      <3>1. Return(Timer(a))
        BY <1>13, <2>1 DEF TimerFires
      <3>2. RegistersALeg'
        BY <3>1, Threads DEF Return, TypeOK, RegistersALeg, Goto
      <3> QED
        BY <1>13, <2>1, <3>1, <3>2, ReturnType, Threads DEF TimerFires, TypeOK, PcType, tables, wire, history
    <2>2. CASE ~GoneOrTerminated
      <3>1. TakeSession(Timer(a), 408, FALSE)
        BY <1>13, <2>2 DEF TimerFires
      <3>2. Timer(a) \in Thread /\ 408 \in Codes
        BY Threads DEF Codes
      <3> QED
        BY <2>2, <3>1, <3>2, TakeType
    <2> QED
      BY <2>1, <2>2
  <1>14. ASSUME NEW l \in Leg, CalleeResponds(l)
         PROVE  TInv'
    BY <1>14 DEF CalleeResponds, TypeOK, RegistersALeg, tables, wire, history
  <1>15. CASE UNCHANGED vars
    BY <1>15 DEF vars, tables, wire, history, TypeOK, RegistersALeg
  <1> QED
    BY <1>1, <1>2, <1>3, <1>4, <1>5, <1>6, <1>7, <1>8, <1>9, <1>10, <1>11, <1>12,
       <1>13, <1>14, <1>15 DEF Next, RingLoop, Teardown

\* Type correctness of the fanout, for every ring list and transport mix.
THEOREM TypeCorrect == Spec => []TypeOK
  <1>1. TInv => TypeOK
    BY DEF TInv
  <1> QED
    BY TypeInit, TypeStep, <1>1, PTL DEF Spec

-----------------------------------------------------------------------------
(* OneDecision.  A session is marked terminated in the lock section that    *)
(* decides it, so a handler that finds it unmarked knows that nothing was   *)
(* sent and that no other handler owes a status; the marker alone owes one  *)
(* until its writes.                                                        *)

LEMMA DecidedInNat ==
  ASSUME TypeOK, NEW a \in Attempt
  PROVE  Decided(a) \in Nat
  <1>1. finals[a] \in [Codes -> Nat]
    BY DEF TypeOK
  <1> QED
    BY <1>1 DEF Decided, Codes

\* One more 200, 408 or 487 is one more decision; 480 is none.
LEMMA AnswerDecides ==
  ASSUME TypeOK, NEW b \in Attempt, NEW code \in Codes, Answer(b, code)
  PROVE  /\ \A a \in Attempt : a # b => Decided(a)' = Decided(a)
         /\ code = 480 => Decided(b)' = Decided(b)
         /\ code # 480 => Decided(b)' = Decided(b) + 1
  <1>1. \A a \in Attempt : a # b => finals'[a] = finals[a]
    BY DEF TypeOK, Answer
  <1>2. finals[b] \in [Codes -> Nat]
    BY DEF TypeOK
  <1>3. finals'[b] = [finals[b] EXCEPT ![code] = @ + 1]
    BY DEF TypeOK, Answer
  <1>4. /\ finals[b][200] \in Nat /\ finals[b][408] \in Nat /\ finals[b][487] \in Nat
        /\ finals'[b][code] = finals[b][code] + 1
        /\ \A c \in Codes : c # code => finals'[b][c] = finals[b][c]
    BY <1>2, <1>3 DEF Codes
  <1>5. code \in {200, 408, 480, 487} /\ {200, 408, 480, 487} \subseteq Codes
    BY DEF Codes
  <1> QED
    BY <1>1, <1>4, <1>5 DEF Decided

\* A step that decides nothing, unmarks nothing and gives no handler a status to
\* send preserves the invariant.
LEMMA Undeciding ==
  ASSUME IInv,
         \A a \in Attempt : Decided(a)' = Decided(a),
         \A a \in Attempt : terminated[a] => terminated'[a],
         \A u \in Thread : pc'[u] = pc[u] \/ pc'[u].code = NoCode
  PROVE  OwesWhileWriting' /\ OwnedOnce'
  <1>1. \A u \in Thread : pc'[u].code # NoCode => pc'[u] = pc[u]
    OBVIOUS
  <1>2. \A u \in Thread, a \in Attempt : Owes(u, a)' => Owes(u, a)
    BY <1>1 DEF Owes
  <1>3. OwesWhileWriting'
    BY <1>1 DEF IInv, OwesWhileWriting
  <1>4. OwnedOnce'
    <2> SUFFICES ASSUME NEW a \in Attempt
                 PROVE  /\ Decided(a)' <= 1
                        /\ ~terminated'[a] => Decided(a)' = 0
                        /\ \A t \in Thread :
                             Owes(t, a)' => terminated'[a] /\ Decided(a)' = 0
                        /\ \A t, u \in Thread : Owes(t, a)' /\ Owes(u, a)' => t = u
      BY DEF OwnedOnce
    <2> QED
      BY <1>2 DEF IInv, OwnedOnce
  <1> QED
    BY <1>3, <1>4

\* A handler whose next locals owe no status decides nothing.
LEMMA GotoUndeciding ==
  ASSUME IInv, NEW t \in Thread, NEW ctx, Goto(t, ctx), ctx.code = NoCode,
         \A a \in Attempt : Decided(a)' = Decided(a),
         \A a \in Attempt : terminated[a] => terminated'[a]
  PROVE  OwesWhileWriting' /\ OwnedOnce'
  <1>1. \A u \in Thread : pc'[u] = pc[u] \/ pc'[u].code = NoCode
    BY DEF IInv, TInv, TypeOK, Goto
  <1> QED
    BY <1>1, Undeciding

\* Marking an unmarked session makes its handler the only one that owes it.
LEMMA TakeDecides ==
  ASSUME IInv, ~GoneOrTerminated, NEW t \in Thread, NEW status \in {408, 487},
         NEW hangup, TakeSession(t, status, hangup)
  PROVE  OwesWhileWriting' /\ OwnedOnce'
  <1>1. PICK b \in Attempt : b = current /\ ~terminated[b]
    BY DEF IInv, TInv, TypeOK, GoneOrTerminated, Attempt
  <1>2. /\ pc'[t].at = "write" /\ pc'[t].sess = b /\ pc'[t].code = status
        /\ \A u \in Thread : u # t => pc'[u] = pc[u]
    BY <1>1 DEF IInv, TInv, TypeOK, TakeSession, Goto
  <1>3. \A a \in Attempt : Decided(a)' = Decided(a)
    BY DEF TakeSession, wire, history, Decided
  <1>4. /\ terminated'[b] = TRUE
        /\ \A a \in Attempt : a # b => terminated'[a] = terminated[a]
    BY <1>1 DEF IInv, TInv, TypeOK, TakeSession
  <1>5. Decided(b) = 0 /\ \A u \in Thread : ~Owes(u, b)
    BY <1>1 DEF IInv, OwnedOnce
  <1>6. OwesWhileWriting'
    BY <1>1, <1>2 DEF IInv, OwesWhileWriting
  <1>7. /\ \A u \in Thread : u # t => ~Owes(u, b)'
        /\ \A u \in Thread, a \in Attempt : a # b /\ Owes(u, a)' => Owes(u, a)
    BY <1>2, <1>5 DEF Owes
  <1>8. OwnedOnce'
    <2> SUFFICES ASSUME NEW a \in Attempt
                 PROVE  /\ Decided(a)' <= 1
                        /\ ~terminated'[a] => Decided(a)' = 0
                        /\ \A v \in Thread :
                             Owes(v, a)' => terminated'[a] /\ Decided(a)' = 0
                        /\ \A v, u \in Thread : Owes(v, a)' /\ Owes(u, a)' => v = u
      BY DEF OwnedOnce
    <2>1. CASE a = b
      <3>1. /\ Decided(a)' = 0 /\ terminated'[a]
            /\ \A u \in Thread : u # t => ~Owes(u, a)'
        BY <2>1, <1>3, <1>4, <1>5, <1>7 DEF Owes, Decided
      <3> QED
        BY <3>1
    <2>2. CASE a # b
      BY <2>2, <1>3, <1>4, <1>7 DEF IInv, OwnedOnce
    <2> QED
      BY <2>1, <2>2
  <1> QED
    BY <1>6, <1>8

\* Deciding a session nobody else owes a status for.
LEMMA Deciding ==
  ASSUME IInv, NEW t \in Thread, NEW b \in Attempt, NEW code \in Codes,
         Answer(b, code), Decided(b) = 0,
         pc'[t].code = NoCode, \A u \in Thread : u # t => pc'[u] = pc[u],
         \A u \in Thread : Owes(u, b) => u = t,
         terminated'[b],
         \A a \in Attempt : a # b => terminated'[a] = terminated[a]
  PROVE  OwesWhileWriting' /\ OwnedOnce'
  <1>1. \A u \in Thread : pc'[u].code # NoCode => u # t /\ pc'[u] = pc[u]
    OBVIOUS
  <1>2. OwesWhileWriting'
    BY <1>1 DEF IInv, OwesWhileWriting, NoCode
  <1>3. /\ \A u \in Thread : ~Owes(u, b)'
        /\ \A u \in Thread, a \in Attempt : Owes(u, a)' => Owes(u, a)
    BY <1>1 DEF Owes
  <1>4. /\ \A a \in Attempt : a # b => Decided(a)' = Decided(a)
        /\ Decided(b)' \in {0, 1}
    <2>1. /\ \A a \in Attempt : a # b => Decided(a)' = Decided(a)
          /\ code = 480 => Decided(b)' = Decided(b)
          /\ code # 480 => Decided(b)' = Decided(b) + 1
      BY AnswerDecides DEF IInv, TInv
    <2>2. CASE code = 480
      BY <2>1, <2>2
    <2>3. CASE code # 480
      BY <2>1, <2>3
    <2> QED
      BY <2>1, <2>2, <2>3
  <1>5. OwnedOnce'
    <2> SUFFICES ASSUME NEW a \in Attempt
                 PROVE  /\ Decided(a)' <= 1
                        /\ ~terminated'[a] => Decided(a)' = 0
                        /\ \A v \in Thread :
                             Owes(v, a)' => terminated'[a] /\ Decided(a)' = 0
                        /\ \A v, u \in Thread : Owes(v, a)' /\ Owes(u, a)' => v = u
      BY DEF OwnedOnce
    <2>1. CASE a = b
      <3>1. Decided(a)' \in {0, 1} /\ terminated'[a] /\ \A u \in Thread : ~Owes(u, a)'
        BY <2>1, <1>3, <1>4 DEF Decided, Owes
      <3> QED
        BY <3>1
    <2>2. CASE a # b
      BY <2>2, <1>3, <1>4 DEF IInv, OwnedOnce
    <2> QED
      BY <2>1, <2>2
  <1> QED
    BY <1>2, <1>5

LEMMA DecisionInit == Init => IInv
  <1> SUFFICES ASSUME Init
               PROVE  IInv
    OBVIOUS
  <1>1. \A t \in Thread : pc[t].code = NoCode
    BY DEF Init, Idle
  <1>2. \A a \in Attempt : Decided(a) = 0 /\ ~terminated[a]
    BY DEF Init, Decided, Codes
  <1> QED
    BY <1>1, <1>2, TypeInit DEF IInv, OwesWhileWriting, OwnedOnce, Owes

LEMMA DecisionStep == IInv /\ [Next]_vars => IInv'
  <1> SUFFICES ASSUME IInv, [Next]_vars
               PROVE  OwesWhileWriting' /\ OwnedOnce'
    BY TypeStep DEF IInv
  <1> USE DEF IInv, TInv
  <1>1. ASSUME UNCHANGED <<terminated, finals>>,
               \A u \in Thread : pc'[u] = pc[u] \/ pc'[u].code = NoCode
        PROVE  OwesWhileWriting' /\ OwnedOnce'
    <2>1. \A a \in Attempt : Decided(a)' = Decided(a)
      BY <1>1 DEF Decided
    <2> QED
      BY <1>1, <2>1, Undeciding
  <1>2. ASSUME NEW t \in Thread, NEW ctx, Goto(t, ctx), ctx.code = NoCode,
               UNCHANGED <<terminated, finals>>
        PROVE  OwesWhileWriting' /\ OwnedOnce'
    BY <1>1, <1>2 DEF Goto, TypeOK
  <1>3. \A t \in Thread : pc[t].at # "write" => pc[t].code = NoCode
    BY DEF OwesWhileWriting
  <1>4. \A t \in Thread : Return(t) /\ UNCHANGED <<terminated, finals>>
          => OwesWhileWriting' /\ OwnedOnce'
    BY <1>2, IdleCtx DEF Return, Idle
  <1>5. CASE Invite
    BY <1>5, <1>2, IdleCtx, Threads DEF Invite, Idle, wire, history
  <1>6. ASSUME NEW l \in Leg, EmitInvite(l) \/ EmitFails(l)
        PROVE  OwesWhileWriting' /\ OwnedOnce'
    <2>1. pc[Main].code = NoCode /\ pc[Main] \in Ctx
      BY <1>6, <1>3, Threads DEF EmitInvite, EmitFails, TypeOK
    <2>2. UNCHANGED <<terminated, finals>>
      BY <1>6 DEF EmitInvite, EmitFails, tables, wire, history
    <2>3. CASE EmitInvite(l)
      <3> DEFINE ctx == [pc[Main] EXCEPT !.at = "register", !.legs = @ \ {l}, !.target = l]
      <3>1. Goto(Main, ctx) /\ ctx.code = NoCode
        BY <2>1, <2>3 DEF EmitInvite, Ctx
      <3> HIDE DEF ctx
      <3> QED
        BY <3>1, <2>2, <1>2, Threads
    <2>4. CASE EmitFails(l)
      <3> DEFINE ctx == [pc[Main] EXCEPT !.legs = @ \ {l}]
      <3>1. Goto(Main, ctx) /\ ctx.code = NoCode
        BY <2>1, <2>4 DEF EmitFails, Ctx
      <3> HIDE DEF ctx
      <3> QED
        BY <3>1, <2>2, <1>2, Threads
    <2> QED
      BY <1>6, <2>3, <2>4
  <1>7. CASE RegisterLeg
    <2> DEFINE ctx == [pc[Main] EXCEPT !.at = "ring", !.target = NoLeg]
    <2>1. pc[Main].code = NoCode /\ pc[Main] \in Ctx
      BY <1>7, <1>3, Threads DEF RegisterLeg, TypeOK
    <2>2. Goto(Main, ctx) /\ ctx.code = NoCode
      BY <1>7, <2>1 DEF RegisterLeg, Ctx
    <2>3. UNCHANGED <<terminated, finals>>
      BY <1>7 DEF RegisterLeg, wire, history
    <2> HIDE DEF ctx
    <2> QED
      BY <2>2, <2>3, <1>2, Threads
  <1>8. CASE RingingDone
    <2>1. \A u \in Thread : pc'[u] = pc[u] \/ pc'[u].code = NoCode
      BY <1>8, IdleCtx DEF RingingDone, TypeOK, Idle
    <2> QED
      BY <1>8, <1>1, <2>1 DEF RingingDone, tables, wire, history
  <1>9. CASE InboundCancel
    <2>1. CASE GoneOrTerminated
      BY <1>9, <2>1, <1>2, IdleCtx, Threads DEF InboundCancel, Idle, tables, wire, history
    <2>2. CASE ~GoneOrTerminated
      <3>1. TakeSession(Main, 487, TRUE)
        BY <1>9, <2>2 DEF InboundCancel
      <3>2. Main \in Thread
        BY Threads
      <3>3. ASSUME NEW hangup, TakeSession(Main, 487, hangup)
            PROVE  OwesWhileWriting' /\ OwnedOnce'
        BY <2>2, <3>2, <3>3, TakeDecides
      <3> QED
        BY <3>1, <3>3
    <2> QED
      BY <2>1, <2>2
  <1>10. CASE InboundBye
    <2>1. PICK ctx : Goto(Main, ctx) /\ ctx.code = NoCode
      BY <1>10, IdleCtx DEF InboundBye, Idle
    <2>2. \A a \in Attempt : Decided(a)' = Decided(a)
      BY <1>10 DEF InboundBye, wire, history, Decided
    <2>3. \A a \in Attempt : terminated[a] => terminated'[a]
      BY <1>10 DEF InboundBye, TypeOK
    <2> QED
      BY <2>1, <2>2, <2>3, GotoUndeciding, Threads
  <1>11. CASE CleanupLine
    BY <1>11, <1>4, Threads DEF CleanupLine, tables, wire, history
  <1>12. ASSUME NEW t \in Thread, CancelLosers(t)
         PROVE  OwesWhileWriting' /\ OwnedOnce'
    <2> DEFINE ctx == IF current \in Attempt
                        THEN [pc[t] EXCEPT !.at = "write", !.target = NoLeg,
                                           !.legs = legsOf[current] \ {pc[t].target}]
                        ELSE [pc[t] EXCEPT !.at = "cleanup"]
    <2>1. pc[t].code = NoCode /\ pc[t] \in Ctx
      BY <1>12, <1>3 DEF CancelLosers, TypeOK
    <2>2. Goto(t, ctx) /\ ctx.code = NoCode
      BY <1>12, <2>1 DEF CancelLosers, Ctx
    <2>3. UNCHANGED <<terminated, finals>>
      BY <1>12 DEF CancelLosers, tables, wire, history
    <2> HIDE DEF ctx
    <2> QED
      BY <2>2, <2>3, <1>2
  <1>13. ASSUME NEW t \in Thread, WriteRequests(t)
         PROVE  OwesWhileWriting' /\ OwnedOnce'
    <2> DEFINE ctx == [pc[t] EXCEPT !.at = "cleanup", !.code = NoCode]
    <2>1. pc[t] \in Ctx
      BY DEF TypeOK
    <2>2. Goto(t, ctx) /\ ctx.code = NoCode
      BY <1>13, <2>1 DEF WriteRequests, Ctx
    <2>3. UNCHANGED terminated
      BY <1>13 DEF WriteRequests, tables
    <2> HIDE DEF ctx
    <2>4. CASE pc[t].code = NoCode
      BY <1>13, <2>2, <2>3, <2>4, <1>2 DEF WriteRequests
    <2>5. CASE pc[t].code # NoCode
      <3>1. PICK b \in Attempt, code \in Codes : b = pc[t].sess /\ code = pc[t].code
        BY <2>1, <2>5 DEF OwesWhileWriting, Ctx
      <3>2. Answer(b, code)
        BY <1>13, <2>5, <3>1 DEF WriteRequests
      <3>3. Owes(t, b)
        BY <2>5, <3>1 DEF Owes
      <3>4. /\ Decided(b) = 0 /\ terminated[b]
            /\ \A u \in Thread : Owes(u, b) => u = t
        BY <3>3 DEF OwnedOnce
      <3>5. pc'[t].code = NoCode /\ \A u \in Thread : u # t => pc'[u] = pc[u]
        BY <2>2 DEF Goto, TypeOK
      <3> QED
        BY <2>3, <3>2, <3>4, <3>5, Deciding
    <2> QED
      BY <2>4, <2>5
  <1>14. ASSUME NEW t \in Thread, CleanupSession(t)
         PROVE  OwesWhileWriting' /\ OwnedOnce'
    <2>1. UNCHANGED <<terminated, finals>>
      BY <1>14 DEF CleanupSession, wire, history
    <2>2. CASE pc[t].hangup
      BY <1>14, <2>1, <2>2, <1>2, IdleCtx DEF CleanupSession, Idle
    <2>3. CASE ~pc[t].hangup
      BY <1>14, <2>1, <2>3, <1>4 DEF CleanupSession
    <2> QED
      BY <2>2, <2>3
  <1>15. ASSUME NEW t \in Thread, NEW l \in Leg, HandleResponse(t, l)
         PROVE  OwesWhileWriting' /\ OwnedOnce'
    <2> DEFINE status == [finalStatus EXCEPT ![l] = IF Success(l) THEN "ok" ELSE "fail"]
               wins == Success(l) /\ winner[current] = NoLeg
    <2>1. PICK b \in Attempt : b = current /\ ~terminated[b]
      BY <1>15 DEF HandleResponse, GoneOrTerminated, TypeOK, Attempt
    <2>2. CASE wins
      <3>1. Answer(b, 200)
        BY <1>15, <2>1, <2>2 DEF HandleResponse
      <3>2. Decided(b) = 0 /\ \A u \in Thread : ~Owes(u, b)
        BY <2>1 DEF OwnedOnce
      <3>3. terminated'[b] /\ \A a \in Attempt : a # b => terminated'[a] = terminated[a]
        BY <1>15, <2>1, <2>2 DEF HandleResponse, TypeOK
      <3>4. Goto(t, [Idle EXCEPT !.at = "losers", !.sess = current, !.target = l])
        BY <1>15, <2>2 DEF HandleResponse
      <3>5. pc'[t].code = NoCode /\ \A u \in Thread : u # t => pc'[u] = pc[u]
        <4>1. pc \in [Thread -> Ctx]
          BY DEF TypeOK
        <4> QED
          BY ONLY <3>4, <4>1, t \in Thread DEF Goto, Idle
      <3> QED
        BY <3>1, <3>2, <3>3, <3>5, Deciding DEF Codes
    <2>3. CASE ~wins /\ AllFinal(current, status)
      <3>1. Answer(b, 480) /\ UNCHANGED terminated
        BY <1>15, <2>1, <2>3 DEF HandleResponse
      <3>2. \A a \in Attempt : Decided(a)' = Decided(a)
        BY <3>1, AnswerDecides DEF Codes
      <3>3. Goto(t, [Idle EXCEPT !.at = "cleanup", !.sess = current])
        BY <1>15, <2>3 DEF HandleResponse
      <3> QED
        BY <3>1, <3>2, <3>3, GotoUndeciding, IdleCtx DEF Idle
    <2>4. CASE ~wins /\ ~AllFinal(current, status)
      BY <1>15, <2>4, <1>1 DEF HandleResponse
    <2> QED
      BY <2>2, <2>3, <2>4
  <1>16. ASSUME NEW a \in Attempt, TimerFires(a)
         PROVE  OwesWhileWriting' /\ OwnedOnce'
    <2>1. CASE GoneOrTerminated
      BY <1>16, <2>1, <1>4, Threads DEF TimerFires, tables, wire, history
    <2>2. CASE ~GoneOrTerminated
      <3>1. TakeSession(Timer(a), 408, FALSE)
        BY <1>16, <2>2 DEF TimerFires
      <3>2. Timer(a) \in Thread
        BY Threads
      <3>3. ASSUME NEW hangup, TakeSession(Timer(a), 408, hangup)
            PROVE  OwesWhileWriting' /\ OwnedOnce'
        BY <2>2, <3>2, <3>3, TakeDecides
      <3> QED
        BY <3>1, <3>3
    <2> QED
      BY <2>1, <2>2
  <1>17. ASSUME NEW l \in Leg, CalleeResponds(l)
         PROVE  OwesWhileWriting' /\ OwnedOnce'
    BY <1>17, <1>1 DEF CalleeResponds, tables, wire, history
  <1>18. CASE UNCHANGED vars
    BY <1>18, <1>1 DEF vars, tables, wire, history
  <1> QED
    BY <1>5, <1>6, <1>7, <1>8, <1>9, <1>10, <1>11, <1>12, <1>13, <1>14, <1>15,
       <1>16, <1>17, <1>18 DEF Next, RingLoop, Teardown

\* At most one of the winner's 200, the timer's 408 and the CANCEL's 487 is sent
\* for an INVITE, for every ring list, transport mix and number of INVITEs.
THEOREM OneDecisionHolds == Spec => []OneDecision
  <1>1. IInv => OneDecision
    BY DEF IInv, OwnedOnce, Decided, OneDecision
  <1> QED
    BY DecisionInit, DecisionStep, <1>1, PTL DEF Spec

-----------------------------------------------------------------------------
(* Who holds which leg.                                                    *)

Ringing == pc[Main].at \in {"ring", "register"}

\* The table holds the newest session or none, and a session that is won was
\* accepted before.
Newest ==
  /\ current \in {0, invites}
  /\ \A a \in Attempt : winner[a] # NoLeg => terminated[a] /\ a <= invites /\ winner[a].a <= a

\* The ring loop rings each endpoint once, for the newest session.
RungInTurn ==
  Ringing =>
    /\ pc[Main].sess = invites /\ invites \in Attempt
    /\ \A l \in pc[Main].legs : l.a = invites /\ l \notin legsOf[invites]
    /\ pc[Main].at = "register" =>
         /\ pc[Main].target.a = invites
         /\ pc[Main].target \notin legsOf[invites] \cup pc[Main].legs

\* A session has legs of its own INVITE, and only a session's legs are indexed.
OwnLegs ==
  /\ \A a \in Attempt : \A l \in legsOf[a] : l.a = a /\ a <= invites
  /\ \A l \in registered : l \in legsOf[l.a]

LegInv == TInv /\ Newest /\ RungInTurn /\ OwnLegs

\* A thread's next step leaves the others where they are.
LEMMA Moved ==
  ASSUME TypeOK, NEW t \in Thread, NEW ctx, Goto(t, ctx)
  PROVE  pc'[t] = ctx /\ \A u \in Thread : u # t => pc'[u] = pc[u]
  BY DEF TypeOK, Goto

LEMMA LegParts == \A l \in Leg : l.a \in Attempt /\ l.a \in Nat
  BY FanoutAssumption DEF Leg, Attempt

LEMMA Numbers ==
  ASSUME TypeOK
  PROVE  /\ invites \in Nat /\ current \in Nat /\ MaxInvites \in Nat \ {0}
         /\ \A a \in Attempt : a \in Nat /\ a # 0 /\ a <= MaxInvites
         /\ \A n \in Nat : n # 0 /\ n <= MaxInvites => n \in Attempt
         /\ invites <= MaxInvites /\ NoLeg \notin Leg /\ 0 \notin Attempt
         /\ current \in Attempt <=> current # 0
  BY FanoutAssumption DEF TypeOK, Attempt

LEMMA LegInit == Init => LegInv
  <1> SUFFICES ASSUME Init PROVE LegInv
    OBVIOUS
  <1>1. pc[Main].at = "idle"
    BY Threads, IdleCtx DEF Init, Main
  <1>2. Newest /\ RungInTurn /\ OwnLegs
    BY <1>1 DEF Init, Newest, RungInTurn, OwnLegs, Ringing
  <1> QED
    BY <1>2, TypeInit DEF LegInv

\* Handlers neither add nor give away legs once the ring loop is over.
LEMMA LegKept ==
  ASSUME LegInv, UNCHANGED <<invites, legsOf, winner>>, current' \in {0, current},
         \A a \in Attempt : terminated[a] => terminated'[a],
         registered' \subseteq registered,
         pc'[Main] = pc[Main] \/ pc'[Main].at \notin {"ring", "register"}
  PROVE  Newest' /\ RungInTurn' /\ OwnLegs'
  <1>1. Newest'
    BY DEF LegInv, Newest
  <1>2. RungInTurn'
    BY DEF LegInv, RungInTurn, Ringing
  <1>3. OwnLegs'
    BY DEF LegInv, OwnLegs
  <1> QED
    BY <1>1, <1>2, <1>3

\* What a step that rings nobody and connects nobody may do.
LEMMA Handling ==
  ASSUME TypeOK,
         \/ RingingDone \/ InboundCancel \/ InboundBye \/ CleanupLine
         \/ \E t \in Thread : Teardown(t)
         \/ \E a \in Attempt : TimerFires(a)
         \/ \E l \in Leg : CalleeResponds(l)
         \/ UNCHANGED vars
  PROVE  /\ UNCHANGED <<invites, legsOf, winner, finalStatus>> /\ current' \in {0, current}
         /\ \A a \in Attempt : terminated[a] => terminated'[a]
         /\ registered' \subseteq registered
         /\ pc'[Main] = pc[Main] \/ pc'[Main].at \notin {"ring", "register"}
         /\ open' \subseteq open
  <1>1. Main \in Thread /\ Main.kind # "timer" /\ (\A a \in Attempt : Timer(a) \in Thread /\ Timer(a) # Main)
        /\ pc \in [Thread -> Ctx] /\ terminated \in [Attempt -> BOOLEAN]
    BY Threads DEF TypeOK, Main
  <1>2. CASE RingingDone
    BY <1>1, <1>2, IdleCtx DEF RingingDone, tables
  <1>3. CASE InboundCancel
    <2>1. pc'[Main].at \in {"line", "write"}
      BY <1>1, <1>3 DEF InboundCancel, TakeSession, Goto, Idle
    <2> QED
      BY <1>1, <1>3, <2>1 DEF InboundCancel, TakeSession, tables
  <1>4. CASE InboundBye
    <2>1. pc'[Main].at \in {"line", "write"}
      BY <1>1, <1>4 DEF InboundBye, Goto, Idle
    <2> QED
      BY <1>1, <1>4, <2>1 DEF InboundBye, tables
  <1>5. CASE CleanupLine
    <2>1. pc'[Main].at = "idle"
      BY <1>1, <1>5 DEF CleanupLine, Return, Goto, Idle
    <2> QED
      BY <1>1, <1>5, <2>1 DEF CleanupLine, tables
  <1>6. ASSUME NEW t \in Thread, Teardown(t)
        PROVE  /\ UNCHANGED <<invites, legsOf, winner, finalStatus, terminated>> /\ current' \in {0, current}
               /\ registered' \subseteq registered /\ open' \subseteq open
               /\ pc'[Main] = pc[Main] \/ pc'[Main].at \notin {"ring", "register"}
    <2>1. /\ UNCHANGED <<invites, legsOf, winner, finalStatus, terminated>> /\ current' \in {0, current}
          /\ registered' \subseteq registered /\ open' \subseteq open
      BY <1>6 DEF Teardown, CancelLosers, WriteRequests, CleanupSession, tables
    <2>2. pc[t] \in Ctx
      BY <1>1
    <2>3. \E ctx : Goto(t, ctx) /\ ctx.at \notin {"ring", "register"}
      <3>1. CASE CancelLosers(t)
        <4> DEFINE ctx == IF current \in Attempt
                            THEN [pc[t] EXCEPT !.at = "write", !.target = NoLeg,
                                               !.legs = legsOf[current] \ {pc[t].target}]
                            ELSE [pc[t] EXCEPT !.at = "cleanup"]
        <4>1. Goto(t, ctx) /\ ctx.at \in {"write", "cleanup"}
          BY <2>2, <3>1 DEF CancelLosers, Ctx
        <4> HIDE DEF ctx
        <4> QED
          BY <4>1
      <3>2. CASE WriteRequests(t)
        <4> DEFINE ctx == [pc[t] EXCEPT !.at = "cleanup", !.code = NoCode]
        <4>1. Goto(t, ctx) /\ ctx.at = "cleanup"
          BY <2>2, <3>2 DEF WriteRequests, Ctx
        <4> HIDE DEF ctx
        <4> QED
          BY <4>1
      <3>3. CASE CleanupSession(t)
        BY <3>3, IdleCtx DEF CleanupSession, Return, Idle
      <3> QED
        BY <1>6, <3>1, <3>2, <3>3 DEF Teardown
    <2> QED
      BY <1>1, <2>1, <2>3, Moved
  <1>7. ASSUME NEW a \in Attempt, TimerFires(a)
        PROVE  /\ UNCHANGED <<invites, legsOf, winner, finalStatus, current, registered, open>>
               /\ \A b \in Attempt : terminated[b] => terminated'[b]
               /\ pc'[Main] = pc[Main]
    <2>1. pc'[Main] = pc[Main]
      BY <1>1, <1>7 DEF TimerFires, Return, TakeSession, Goto
    <2> QED
      BY <1>1, <1>7, <2>1 DEF TimerFires, TakeSession, tables
  <1>8. ASSUME NEW l \in Leg, CalleeResponds(l) PROVE UNCHANGED <<invites, tables, pc>>
    BY <1>8 DEF CalleeResponds
  <1>9. CASE UNCHANGED vars
    BY <1>9 DEF vars, tables
  <1> QED
    BY <1>2, <1>3, <1>4, <1>5, <1>6, <1>7, <1>8, <1>9 DEF tables

LEMMA LegStep == LegInv /\ [Next]_vars => LegInv'
  <1> SUFFICES ASSUME LegInv, [Next]_vars
               PROVE  Newest' /\ RungInTurn' /\ OwnLegs'
    BY TypeStep DEF LegInv
  <1> USE DEF LegInv
  <1>1. TypeOK /\ Main \in Thread /\ pc[Main] \in Ctx /\ RegistersALeg
    BY Threads DEF TInv, TypeOK
  <1>2. CASE \/ RingingDone \/ InboundCancel \/ InboundBye \/ CleanupLine
             \/ \E t \in Thread : Teardown(t)
             \/ \E a \in Attempt : TimerFires(a)
             \/ \E l \in Leg : CalleeResponds(l)
             \/ UNCHANGED vars
    BY <1>1, <1>2, Handling, LegKept
  <1>3. CASE Invite
    <2> DEFINE ctx == [Idle EXCEPT !.at = "ring", !.sess = invites + 1,
                                   !.legs = [a : {invites + 1}, e : Ring]]
    <2>1. /\ invites < MaxInvites /\ invites' = invites + 1 /\ current' = invites + 1
          /\ UNCHANGED <<legsOf, winner, terminated, registered>>
          /\ Goto(Main, ctx)
      BY <1>3 DEF Invite
    <2>2. pc'[Main] = ctx
      BY <1>1, <2>1, Moved
    <2>3. ctx.at = "ring" /\ ctx.sess = invites + 1 /\ ctx.legs = [a : {invites + 1}, e : Ring]
      BY DEF Idle
    <2> HIDE DEF ctx
    <2>4. invites' \in Attempt /\ invites \in Nat /\ ~(invites' <= invites)
      BY <1>1, <2>1, Numbers
    <2>5. \A a \in Attempt : a <= invites => a <= invites'
      BY <1>1, <2>1, Numbers
    <2>6. Newest'
      BY <2>1, <2>5 DEF Newest
    <2>7. RungInTurn'
      <3>1. \A l \in ctx.legs : l.a = invites'
        BY <2>1, <2>3
      <3>2. \A l \in legsOf[invites'] : FALSE
        BY <2>4 DEF OwnLegs
      <3> QED
        BY <2>1, <2>2, <2>3, <2>4, <3>1, <3>2 DEF RungInTurn
    <2>8. OwnLegs'
      BY <2>1, <2>5 DEF OwnLegs
    <2> QED
      BY <2>6, <2>7, <2>8
  <1>4. ASSUME NEW l \in Leg, EmitInvite(l) \/ EmitFails(l)
        PROVE  Newest' /\ RungInTurn' /\ OwnLegs'
    <2>1. /\ pc[Main].at = "ring" /\ l \in pc[Main].legs
          /\ UNCHANGED <<invites, current, legsOf, winner, terminated, registered>>
      BY <1>4 DEF EmitInvite, EmitFails, tables
    <2>2. /\ pc'[Main].sess = pc[Main].sess /\ pc'[Main].legs = pc[Main].legs \ {l}
          /\ pc'[Main].at = "register" => pc'[Main].target = l
      <3>1. CASE EmitInvite(l)
        <4> DEFINE ctx == [pc[Main] EXCEPT !.at = "register", !.legs = @ \ {l}, !.target = l]
        <4>1. pc'[Main] = ctx
          BY <1>1, <3>1, Moved DEF EmitInvite
        <4>2. ctx.sess = pc[Main].sess /\ ctx.legs = pc[Main].legs \ {l} /\ ctx.target = l
          BY <1>1 DEF Ctx
        <4> QED
          BY <4>1, <4>2
      <3>2. CASE EmitFails(l)
        <4> DEFINE ctx == [pc[Main] EXCEPT !.legs = @ \ {l}]
        <4>1. pc'[Main] = ctx
          BY <1>1, <3>2, Moved DEF EmitFails
        <4>2. ctx.sess = pc[Main].sess /\ ctx.legs = pc[Main].legs \ {l} /\ ctx.at = "ring"
          BY <1>1, <2>1 DEF Ctx
        <4> QED
          BY <4>1, <4>2
      <3> QED
        BY <1>4, <3>1, <3>2
    <2>3. RungInTurn'
      BY <2>1, <2>2 DEF RungInTurn, Ringing
    <2> QED
      BY <2>1, <2>3 DEF Newest, OwnLegs
  <1>5. CASE RegisterLeg
    <2> DEFINE ctx == [pc[Main] EXCEPT !.at = "ring", !.target = NoLeg]
               l == pc[Main].target
    <2>1. /\ pc[Main].at = "register"
          /\ legsOf' = [legsOf EXCEPT ![pc[Main].sess] = @ \cup {l}]
          /\ registered' = registered \cup {l}
          /\ UNCHANGED <<invites, current, winner, terminated>>
      BY <1>5 DEF RegisterLeg
    <2>2. pc'[Main] = ctx
      BY <1>1, <1>5, Moved DEF RegisterLeg
    <2>3. ctx.at = "ring" /\ ctx.sess = pc[Main].sess /\ ctx.legs = pc[Main].legs
      BY <1>1 DEF Ctx
    <2>4. /\ pc[Main].sess = invites /\ invites \in Attempt /\ l.a = invites
          /\ l \notin pc[Main].legs /\ \A m \in pc[Main].legs : m.a = invites /\ m \notin legsOf[invites]
      BY <2>1 DEF RungInTurn, Ringing
    <2> HIDE DEF ctx, l
    <2>5. /\ legsOf'[invites] = legsOf[invites] \cup {l}
          /\ \A a \in Attempt : a # invites => legsOf'[a] = legsOf[a]
      BY <1>1, <2>1, <2>4 DEF TypeOK
    <2>6. Newest'
      BY <2>1 DEF Newest
    <2>7. RungInTurn'
      BY <2>1, <2>2, <2>3, <2>4, <2>5 DEF RungInTurn
    <2>8. OwnLegs'
      <3>1. \A a \in Attempt : \A m \in legsOf'[a] : m.a = a /\ a <= invites
        <4> SUFFICES ASSUME NEW a \in Attempt, NEW m \in legsOf'[a] PROVE m.a = a /\ a <= invites
          OBVIOUS
        <4>1. CASE m \in legsOf[a]
          BY <4>1 DEF OwnLegs
        <4>2. CASE m \notin legsOf[a]
          <5>1. a = invites /\ m = l
            BY <2>5, <4>2
          <5> QED
            BY <2>4, <5>1, <1>1, Numbers
        <4> QED
          BY <4>1, <4>2
      <3>2. \A m \in registered' : m \in legsOf'[m.a]
        <4> SUFFICES ASSUME NEW m \in registered' PROVE m \in legsOf'[m.a]
          OBVIOUS
        <4>1. CASE m = l
          BY <2>4, <2>5, <4>1
        <4>2. CASE m \in registered
          <5>1. m \in legsOf[m.a] /\ m.a \in Attempt
            BY <1>1, <4>2, LegParts DEF OwnLegs, TypeOK
          <5> QED
            BY <2>5, <5>1
        <4> QED
          BY <2>1, <4>1, <4>2
      <3> QED
        BY <2>1, <3>1, <3>2 DEF OwnLegs
    <2> QED
      BY <2>6, <2>7, <2>8
  <1>6. ASSUME NEW t \in Thread, NEW l \in Leg, HandleResponse(t, l)
        PROVE  Newest' /\ RungInTurn' /\ OwnLegs'
    <2>1. /\ l \in registered /\ ~GoneOrTerminated /\ pc[t].at = "idle"
          /\ UNCHANGED <<invites, current, legsOf, registered>>
          /\ \/ UNCHANGED <<winner, terminated>>
             \/ /\ winner' = [winner EXCEPT ![current] = l]
                /\ terminated' = [terminated EXCEPT ![current] = TRUE]
          /\ \/ UNCHANGED pc
             \/ Goto(t, [Idle EXCEPT !.at = "losers", !.sess = current, !.target = l])
             \/ Goto(t, [Idle EXCEPT !.at = "cleanup", !.sess = current])
      BY <1>6 DEF HandleResponse
    <2>2. pc'[Main] = pc[Main] \/ pc'[Main].at \in {"losers", "cleanup"}
      <3> DEFINE ctx1 == [Idle EXCEPT !.at = "losers", !.sess = current, !.target = l]
                 ctx2 == [Idle EXCEPT !.at = "cleanup", !.sess = current]
      <3>1. ctx1.at = "losers" /\ ctx2.at = "cleanup"
        BY DEF Idle
      <3>2. UNCHANGED pc \/ Goto(t, ctx1) \/ Goto(t, ctx2)
        BY <2>1
      <3> HIDE DEF ctx1, ctx2
      <3> QED
        BY <1>1, <3>1, <3>2, Moved
    <2>3. RungInTurn' /\ OwnLegs'
      BY <2>1, <2>2 DEF RungInTurn, OwnLegs, Ringing
    <2>4. Newest'
      <3>1. CASE UNCHANGED <<winner, terminated>>
        BY <2>1, <3>1 DEF Newest
      <3>2. CASE /\ winner' = [winner EXCEPT ![current] = l]
                 /\ terminated' = [terminated EXCEPT ![current] = TRUE]
        <4>1. current \in Attempt /\ current = invites
          BY <1>1, <2>1, Numbers DEF GoneOrTerminated, Newest
        <4>2. l.a <= invites /\ l.a \in Attempt
          BY <2>1, LegParts DEF OwnLegs
        <4>3. /\ winner'[current] = l /\ terminated'[current]
              /\ \A a \in Attempt : a # current => winner'[a] = winner[a] /\ terminated'[a] = terminated[a]
          BY <1>1, <3>2, <4>1 DEF TypeOK
        <4>4. current <= invites
          BY <1>1, <4>1, Numbers
        <4> QED
          BY <2>1, <4>1, <4>2, <4>3, <4>4 DEF Newest
      <3> QED
        BY <2>1, <3>1, <3>2
    <2> QED
      BY <2>3, <2>4
  <1> QED
    BY <1>2, <1>3, <1>4, <1>5, <1>6 DEF Next, RingLoop

-----------------------------------------------------------------------------
(* WinnerSpared.  cancelLosers, the BYE handler and cleanupSession look the  *)
(* session up by its key again.  That they find their own is a matter of     *)
(* who runs beside whom: the read loop serves UDP endpoints one by one, and  *)
(* a caller who does not ring again has one session only.  Without either,   *)
(* the handler of a TLS endpoint's answer may meet the session of a later    *)
(* INVITE, and cancel its winner.                                            *)

OneAtATime == TlsRing = {} \/ MaxInvites = 1

\* A CANCEL has gone, or is going, to this leg.
Condemned(l) == l \in cancelled \/ \E t \in Thread : pc[t].at = "write" /\ l \in pc[t].legs

\* A handler that has connected the caller finds its own session in the table, or
\* none.
LosersAreOwn == \A t \in Thread : pc[t].at = "losers" =>
  /\ pc[t].sess \in Attempt /\ current \in {0, pc[t].sess}
  /\ pc[t].target = winner[pc[t].sess] /\ pc[t].target # NoLeg

\* A condemned leg leaves the index before another session can be won, and is
\* nobody's winner.
CondemnedAreOver == \A l \in Leg : Condemned(l) =>
  /\ l \in legsOf[l.a]
  /\ l \in registered => l.a = current /\ terminated[current]
  /\ \A a \in Attempt : winner[a] # l

\* Only the winner of its own session is sent a BYE.
WinnersAreHungUp ==
  /\ \A l \in byed : winner[l.a] = l
  /\ \A t \in Thread : pc[t].at = "write" /\ pc[t].target # NoLeg =>
       winner[pc[t].target.a] = pc[t].target

SpareInv == LosersAreOwn /\ CondemnedAreOver /\ WinnersAreHungUp

LEMMA SpareInit == Init => SpareInv
  <1> SUFFICES ASSUME Init PROVE SpareInv
    OBVIOUS
  <1>1. \A t \in Thread : pc[t].at \in {"idle", "off"}
    BY DEF Init, Idle
  <1> QED
    BY <1>1 DEF Init, SpareInv, LosersAreOwn, CondemnedAreOver, WinnersAreHungUp, Condemned

\* Steps that neither copy legs nor touch the tables leave it alone.
LEMMA SpareKept ==
  ASSUME SpareInv, UNCHANGED <<legsOf, winner, cancelled, byed, current, registered>>,
         \A a \in Attempt : terminated[a] => terminated'[a],
         \A u \in Thread : pc'[u] = pc[u] \/ pc'[u].at \notin {"write", "losers"}
  PROVE  SpareInv'
  <1>1. \A l : Condemned(l)' => Condemned(l)
    BY DEF Condemned
  <1>2. LosersAreOwn'
    BY DEF SpareInv, LosersAreOwn
  <1>3. CondemnedAreOver'
    <2> SUFFICES ASSUME NEW l \in Leg, Condemned(l)'
                 PROVE  /\ l \in legsOf[l.a]
                        /\ l \in registered => l.a = current /\ terminated'[current]
                        /\ \A a \in Attempt : winner[a] # l
      BY DEF CondemnedAreOver
    <2> QED
      BY <1>1, LegParts DEF SpareInv, CondemnedAreOver
  <1>4. WinnersAreHungUp'
    BY DEF SpareInv, WinnersAreHungUp
  <1> QED
    BY <1>2, <1>3, <1>4 DEF SpareInv

\* Copying legs of the session in the table, all but its winner.
LEMMA SpareCopied ==
  ASSUME LegInv, SpareInv, current \in Attempt, NEW t \in Thread,
         UNCHANGED <<legsOf, winner, cancelled, byed, current, registered>>,
         \A a \in Attempt : terminated[a] => terminated'[a], terminated'[current],
         pc'[t].at = "write", pc'[t].legs \subseteq legsOf[current] \ {winner[current]},
         pc'[t].target # NoLeg => winner[pc'[t].target.a] = pc'[t].target,
         \A u \in Thread : u # t => pc'[u] = pc[u]
  PROVE  SpareInv'
  <1>1. \A l \in Leg : Condemned(l)' => Condemned(l) \/ l \in legsOf[current] \ {winner[current]}
    BY DEF Condemned
  <1>2. LosersAreOwn'
    BY DEF SpareInv, LosersAreOwn
  <1>3. CondemnedAreOver'
    <2> SUFFICES ASSUME NEW l \in Leg, Condemned(l)'
                 PROVE  /\ l \in legsOf[l.a]
                        /\ l \in registered => l.a = current /\ terminated'[current]
                        /\ \A a \in Attempt : winner[a] # l
      BY DEF CondemnedAreOver
    <2>1. CASE Condemned(l)
      BY <2>1, LegParts DEF SpareInv, CondemnedAreOver
    <2>2. CASE l \in legsOf[current] \ {winner[current]}
      <3>1. l.a = current /\ current = invites
        BY <2>2, Numbers DEF LegInv, OwnLegs, Newest, TInv
      <3>2. ASSUME NEW a \in Attempt, winner[a] = l PROVE FALSE
        <4>1. a <= invites /\ l.a <= a /\ a \in Nat /\ invites \in Nat
          BY <3>2, Numbers DEF LegInv, Newest, TInv
        <4>2. a = current
          BY <3>1, <4>1
        <4> QED
          BY <2>2, <3>2, <4>2
      <3> QED
        BY <2>2, <3>1, <3>2
    <2> QED
      BY <1>1, <2>1, <2>2
  <1>4. WinnersAreHungUp'
    <2>1. \A u \in Thread : pc'[u].at = "write" /\ pc'[u].target # NoLeg =>
            winner[pc'[u].target.a] = pc'[u].target
      BY DEF SpareInv, WinnersAreHungUp
    <2> QED
      BY <2>1 DEF SpareInv, WinnersAreHungUp
  <1> QED
    BY <1>2, <1>3, <1>4 DEF SpareInv

\* Without TLS endpoints the read loop alone meets the answers.
LEMMA ReadLoopOnly ==
  ASSUME TypeOK, TlsRing = {}, NEW t \in Thread, pc[t].at \in {"losers", "idle", "line", "ring", "register"}
  PROVE  t = Main
  BY DEF TypeOK, Thread, IsTls

LEMMA SpareTake ==
  ASSUME LegInv, SpareInv, ~GoneOrTerminated, NEW t \in Thread, NEW status, NEW hangup,
         TakeSession(t, status, hangup)
  PROVE  SpareInv'
  <1> DEFINE ctx == [at |-> "write", sess |-> current, legs |-> legsOf[current],
                     target |-> NoLeg, code |-> status, hangup |-> hangup]
  <1>1. /\ terminated' = [terminated EXCEPT ![current] = TRUE] /\ Goto(t, ctx)
        /\ UNCHANGED <<legsOf, winner, cancelled, byed, current, registered>>
    BY DEF TakeSession, wire, history
  <1>2. current \in Attempt /\ ~terminated[current] /\ TypeOK
    BY Numbers DEF GoneOrTerminated, LegInv, TInv
  <1>3. ctx.at = "write" /\ ctx.legs = legsOf[current] /\ ctx.target = NoLeg
    OBVIOUS
  <1> HIDE DEF ctx
  <1>4. pc'[t] = ctx /\ \A u \in Thread : u # t => pc'[u] = pc[u]
    BY <1>1, <1>2, Moved
  <1>5. winner[current] = NoLeg /\ NoLeg \notin legsOf[current]
    BY <1>2, Numbers DEF LegInv, Newest, TypeOK
  <1>6. terminated'[current] /\ \A a \in Attempt : terminated[a] => terminated'[a]
    BY <1>1, <1>2 DEF TypeOK
  <1> QED
    BY <1>1, <1>2, <1>3, <1>4, <1>5, <1>6, SpareCopied

LEMMA SpareWin ==
  ASSUME LegInv, SpareInv, NEW t \in Thread, NEW l \in Leg, l \in registered, ~GoneOrTerminated,
         winner' = [winner EXCEPT ![current] = l],
         terminated' = [terminated EXCEPT ![current] = TRUE],
         pc'[t].at = "losers", pc'[t].sess = current, pc'[t].target = l,
         \A u \in Thread : u # t => pc'[u] = pc[u],
         UNCHANGED <<legsOf, cancelled, byed, current, registered>>
  PROVE  SpareInv'
  <1>1. current \in Attempt /\ ~terminated[current] /\ TypeOK /\ l # NoLeg
    BY Numbers DEF GoneOrTerminated, LegInv, TInv
  <1>2. winner[current] = NoLeg
    BY <1>1 DEF LegInv, Newest
  <1>3. /\ winner'[current] = l /\ terminated'[current]
        /\ \A a \in Attempt : a # current => winner'[a] = winner[a]
        /\ \A a \in Attempt : terminated[a] => terminated'[a]
    BY <1>1 DEF TypeOK
  <1>4. LosersAreOwn'
    <2> SUFFICES ASSUME NEW u \in Thread, pc'[u].at = "losers"
                 PROVE  /\ pc'[u].sess \in Attempt /\ current \in {0, pc'[u].sess}
                        /\ pc'[u].target = winner'[pc'[u].sess] /\ pc'[u].target # NoLeg
      BY DEF LosersAreOwn
    <2>1. CASE u = t
      BY <1>1, <1>3, <2>1
    <2>2. CASE u # t
      <3>1. pc[u].sess = current /\ winner[current] # NoLeg
        BY <1>1, <2>2, Numbers DEF SpareInv, LosersAreOwn
      <3> QED
        BY <1>2, <3>1
    <2> QED
      BY <2>1, <2>2
  <1>5. \A m : Condemned(m)' => Condemned(m)
    BY DEF Condemned
  <1>6. ~Condemned(l)
    BY <1>1 DEF SpareInv, CondemnedAreOver
  <1>7. CondemnedAreOver'
    <2> SUFFICES ASSUME NEW m \in Leg, Condemned(m)'
                 PROVE  /\ m \in legsOf[m.a]
                        /\ m \in registered => m.a = current /\ terminated'[current]
                        /\ \A a \in Attempt : winner'[a] # m
      BY DEF CondemnedAreOver
    <2> QED
      BY <1>3, <1>5, <1>6, LegParts DEF SpareInv, CondemnedAreOver
  <1>8. WinnersAreHungUp'
    <2>1. \A m \in Leg : winner[m.a] = m => m.a # current
      BY <1>1, <1>2, Numbers
    <2>2. \A m \in byed : winner'[m.a] = m
      BY <1>1, <1>3, <2>1, LegParts DEF SpareInv, WinnersAreHungUp, TypeOK
    <2>3. \A u \in Thread : pc'[u].at = "write" /\ pc'[u].target # NoLeg =>
            winner'[pc'[u].target.a] = pc'[u].target
      <3> SUFFICES ASSUME NEW u \in Thread, pc'[u].at = "write", pc'[u].target # NoLeg
                   PROVE  winner'[pc'[u].target.a] = pc'[u].target
        OBVIOUS
      <3>1. pc'[u] = pc[u] /\ pc[u].target \in Leg
        BY <1>1 DEF TypeOK, Ctx
      <3> QED
        BY <1>3, <2>1, <3>1, LegParts DEF SpareInv, WinnersAreHungUp
    <2> QED
      BY <2>2, <2>3 DEF WinnersAreHungUp
  <1> QED
    BY <1>4, <1>7, <1>8 DEF SpareInv

\* Condemned legs are written, and leave the index when their session does.
LEMMA SpareTeardown ==
  ASSUME LegInv, SpareInv, NEW t \in Thread, Teardown(t)
  PROVE  SpareInv'
  <1>1. TypeOK /\ pc[t] \in Ctx
    BY DEF LegInv, TInv, TypeOK
  <1>2. CASE CancelLosers(t)
    <2>1. /\ pc[t].at = "losers" /\ UNCHANGED <<invites, tables, line, callee, wire>>
      BY <1>2 DEF CancelLosers
    <2>2. /\ pc[t].sess \in Attempt /\ current \in {0, pc[t].sess}
          /\ pc[t].target = winner[pc[t].sess] /\ pc[t].target # NoLeg
      BY <2>1 DEF SpareInv, LosersAreOwn
    <2>3. CASE current \in Attempt
      <3> DEFINE ctx == [pc[t] EXCEPT !.at = "write", !.target = NoLeg,
                                      !.legs = legsOf[current] \ {pc[t].target}]
      <3>1. Goto(t, ctx)
        BY <1>2, <2>3 DEF CancelLosers
      <3>2. ctx.at = "write" /\ ctx.target = NoLeg /\ ctx.legs = legsOf[current] \ {pc[t].target}
        BY <1>1 DEF Ctx
      <3> HIDE DEF ctx
      <3>3. pc'[t] = ctx /\ \A u \in Thread : u # t => pc'[u] = pc[u]
        BY <1>1, <3>1, Moved
      <3>4. current = pc[t].sess
        BY <1>1, <2>2, <2>3, Numbers
      <3>5. terminated[current] /\ ctx.legs = legsOf[current] \ {winner[current]}
        BY <2>2, <3>2, <3>4 DEF LegInv, Newest
      <3>6. UNCHANGED <<legsOf, winner, cancelled, byed, current, registered, terminated>>
        BY <2>1 DEF tables, wire, history
      <3> QED
        BY <2>3, <3>2, <3>3, <3>5, <3>6, SpareCopied
    <2>4. CASE current \notin Attempt
      <3> DEFINE ctx == [pc[t] EXCEPT !.at = "cleanup"]
      <3>1. Goto(t, ctx) /\ ctx.at = "cleanup"
        BY <1>1, <1>2, <2>4 DEF CancelLosers, Ctx
      <3> HIDE DEF ctx
      <3>2. pc'[t] = ctx /\ \A u \in Thread : u # t => pc'[u] = pc[u]
        BY <1>1, <3>1, Moved
      <3> QED
        BY <2>1, <3>1, <3>2, SpareKept DEF tables, wire, history
    <2> QED
      BY <2>3, <2>4
  <1>3. CASE WriteRequests(t)
    <2> DEFINE ctx == [pc[t] EXCEPT !.at = "cleanup", !.code = NoCode]
    <2>1. /\ pc[t].at = "write" /\ UNCHANGED <<current, legsOf, winner, terminated, registered>>
          /\ Goto(t, ctx) /\ ctx.at = "cleanup"
          /\ cancelled' \subseteq cancelled \cup pc[t].legs
          /\ byed' \subseteq byed \cup ({pc[t].target} \ {NoLeg})
      BY <1>1, <1>3 DEF WriteRequests, tables, Ctx
    <2> HIDE DEF ctx
    <2>2. pc'[t] = ctx /\ \A u \in Thread : u # t => pc'[u] = pc[u]
      BY <1>1, <2>1, Moved
    <2>3. \A l : Condemned(l)' => Condemned(l)
      BY <2>1, <2>2 DEF Condemned
    <2>4. LosersAreOwn'
      BY <2>1, <2>2 DEF SpareInv, LosersAreOwn
    <2>5. CondemnedAreOver'
      BY <2>1, <2>3 DEF SpareInv, CondemnedAreOver
    <2>6. WinnersAreHungUp'
      <3>1. \A l \in byed' : winner[l.a] = l
        BY <2>1 DEF SpareInv, WinnersAreHungUp
      <3> QED
        BY <2>1, <2>2, <3>1 DEF SpareInv, WinnersAreHungUp
    <2> QED
      BY <2>4, <2>5, <2>6 DEF SpareInv
  <1>4. CASE CleanupSession(t)
    <2>1. /\ UNCHANGED <<invites, legsOf, winner, terminated, cancelled, byed>>
          /\ \/ current \in Attempt /\ current' = 0 /\ registered' = registered \ legsOf[current]
             \/ UNCHANGED <<current, registered>>
      BY <1>4 DEF CleanupSession, wire, history
    <2>2. \A u \in Thread : pc'[u] = pc[u] \/ pc'[u].at \notin {"write", "losers"}
      <3>1. \E ctx : Goto(t, ctx) /\ ctx.at \notin {"write", "losers"}
        BY <1>4, IdleCtx DEF CleanupSession, Return, Idle
      <3> QED
        BY <1>1, <3>1, Moved
    <2>3. CASE UNCHANGED <<current, registered>>
      BY <2>1, <2>2, <2>3, SpareKept
    <2>4. CASE current \in Attempt /\ current' = 0 /\ registered' = registered \ legsOf[current]
      <3>1. \A l : Condemned(l)' => Condemned(l)
        BY <2>1, <2>2 DEF Condemned
      <3>2. LosersAreOwn'
        BY <2>1, <2>2, <2>4 DEF SpareInv, LosersAreOwn
      <3>3. CondemnedAreOver'
        BY <2>1, <2>4, <3>1 DEF SpareInv, CondemnedAreOver
      <3>4. WinnersAreHungUp'
        BY <2>1, <2>2 DEF SpareInv, WinnersAreHungUp
      <3> QED
        BY <3>2, <3>3, <3>4 DEF SpareInv
    <2> QED
      BY <2>1, <2>3, <2>4
  <1> QED
    BY <1>2, <1>3, <1>4 DEF Teardown

LEMMA SpareInvite ==
  ASSUME LegInv, SpareInv, OneAtATime, Invite
  PROVE  SpareInv'
  <1> DEFINE ctx == [Idle EXCEPT !.at = "ring", !.sess = invites + 1,
                                 !.legs = [a : {invites + 1}, e : Ring]]
  <1>1. /\ pc[Main].at = "idle" /\ current = 0 /\ invites < MaxInvites /\ Goto(Main, ctx)
        /\ UNCHANGED <<legsOf, winner, terminated, registered, cancelled, byed>>
    BY DEF Invite, wire, history
  <1>2. ctx.at = "ring" /\ TypeOK /\ Main \in Thread
    BY Threads DEF Idle, LegInv, TInv
  <1> HIDE DEF ctx
  <1>3. pc'[Main] = ctx /\ \A u \in Thread : u # Main => pc'[u] = pc[u]
    BY <1>1, <1>2, Moved
  <1>4. \A t \in Thread : pc[t].at # "losers"
    <2> SUFFICES ASSUME NEW t \in Thread, pc[t].at = "losers" PROVE FALSE
      OBVIOUS
    <2>1. CASE TlsRing = {}
      BY <1>1, <1>2, <2>1, ReadLoopOnly
    <2>2. CASE MaxInvites = 1
      <3>1. invites = 0
        BY <1>1, <1>2, <2>2, Numbers
      <3>2. pc[t].sess \in Attempt /\ winner[pc[t].sess] # NoLeg
        BY DEF SpareInv, LosersAreOwn
      <3>3. pc[t].sess <= 0
        BY <3>1, <3>2 DEF LegInv, Newest
      <3> QED
        BY <1>2, <3>2, <3>3, Numbers
    <2> QED
      BY <2>1, <2>2 DEF OneAtATime
  <1>5. LosersAreOwn'
    BY <1>2, <1>3, <1>4 DEF LosersAreOwn
  <1>6. \A l : Condemned(l)' => Condemned(l)
    BY <1>1, <1>2, <1>3 DEF Condemned
  <1>7. CondemnedAreOver'
    <2>1. \A l \in Leg : Condemned(l) => l \notin registered
      BY <1>1, <1>2, LegParts, Numbers DEF SpareInv, CondemnedAreOver
    <2> QED
      BY <1>1, <1>6, <2>1 DEF SpareInv, CondemnedAreOver
  <1>8. WinnersAreHungUp'
    BY <1>1, <1>2, <1>3 DEF SpareInv, WinnersAreHungUp
  <1> QED
    BY <1>5, <1>7, <1>8 DEF SpareInv

LEMMA SpareRing ==
  ASSUME LegInv, SpareInv, RingLoop
  PROVE  SpareInv'
  <1>1. TypeOK /\ Main \in Thread /\ pc[Main] \in Ctx /\ \A a \in Attempt : Timer(a) \in Thread
    BY Threads DEF LegInv, TInv, TypeOK
  <1>2. ASSUME NEW l \in Leg, EmitInvite(l) \/ EmitFails(l)
        PROVE  SpareInv'
    <2>1. UNCHANGED <<legsOf, winner, terminated, cancelled, byed, current, registered>>
      BY <1>2 DEF EmitInvite, EmitFails, tables, wire, history
    <2>2. \A u \in Thread : pc'[u] = pc[u] \/ pc'[u].at \notin {"write", "losers"}
      <3>1. CASE EmitInvite(l)
        <4> DEFINE ctx == [pc[Main] EXCEPT !.at = "register", !.legs = @ \ {l}, !.target = l]
        <4>1. Goto(Main, ctx) /\ ctx.at = "register"
          BY <1>1, <3>1 DEF EmitInvite, Ctx
        <4> HIDE DEF ctx
        <4> QED
          BY <1>1, <4>1, Moved
      <3>2. CASE EmitFails(l)
        <4> DEFINE ctx == [pc[Main] EXCEPT !.legs = @ \ {l}]
        <4>1. Goto(Main, ctx) /\ ctx.at = "ring"
          BY <1>1, <3>2 DEF EmitFails, Ctx
        <4> HIDE DEF ctx
        <4> QED
          BY <1>1, <4>1, Moved
      <3> QED
        BY <1>2, <3>1, <3>2
    <2> QED
      BY <2>1, <2>2, SpareKept
  <1>3. CASE RegisterLeg
    <2> DEFINE ctx == [pc[Main] EXCEPT !.at = "ring", !.target = NoLeg]
               l == pc[Main].target
    <2>1. /\ pc[Main].at = "register" /\ Goto(Main, ctx) /\ ctx.at = "ring"
          /\ legsOf' = [legsOf EXCEPT ![pc[Main].sess] = @ \cup {l}]
          /\ registered' = registered \cup {l}
          /\ UNCHANGED <<current, winner, terminated, cancelled, byed>>
      BY <1>1, <1>3 DEF RegisterLeg, wire, history, Ctx
    <2>2. pc[Main].sess = invites /\ invites \in Attempt /\ l.a = invites /\ l \notin legsOf[invites]
      BY <2>1 DEF LegInv, RungInTurn, Ringing
    <2> HIDE DEF ctx, l
    <2>3. pc'[Main] = ctx /\ \A u \in Thread : u # Main => pc'[u] = pc[u]
      BY <1>1, <2>1, Moved
    <2>4. \A a \in Attempt : legsOf[a] \subseteq legsOf'[a]
      BY <1>1, <2>1, <2>2 DEF TypeOK
    <2>5. \A m : Condemned(m)' => Condemned(m)
      BY <2>1, <2>3 DEF Condemned
    <2>6. LosersAreOwn' /\ WinnersAreHungUp'
      BY <2>1, <2>3 DEF SpareInv, LosersAreOwn, WinnersAreHungUp
    <2>7. CondemnedAreOver'
      <3> SUFFICES ASSUME NEW m \in Leg, Condemned(m)
                   PROVE  /\ m \in legsOf'[m.a]
                          /\ m \in registered' => m.a = current /\ terminated[current]
                          /\ \A a \in Attempt : winner[a] # m
        BY <2>1, <2>5 DEF CondemnedAreOver
      <3>1. m \in legsOf[m.a] /\ m # l
        BY <2>2 DEF SpareInv, CondemnedAreOver
      <3> QED
        BY <2>1, <2>4, <3>1, LegParts DEF SpareInv, CondemnedAreOver
    <2> QED
      BY <2>6, <2>7 DEF SpareInv
  <1>4. CASE RingingDone
    <2>1. \A u \in Thread : pc'[u] = pc[u] \/ pc'[u].at \notin {"write", "losers"}
      BY <1>1, <1>4, IdleCtx DEF RingingDone, TypeOK, Idle
    <2> QED
      BY <1>4, <2>1, SpareKept DEF RingingDone, tables, wire, history
  <1> QED
    BY <1>2, <1>3, <1>4 DEF RingLoop

LEMMA SpareStep == LegInv /\ SpareInv /\ OneAtATime /\ [Next]_vars => SpareInv'
  <1> SUFFICES ASSUME LegInv, SpareInv, OneAtATime, [Next]_vars
               PROVE  SpareInv'
    OBVIOUS
  <1>1. TypeOK /\ Main \in Thread /\ \A a \in Attempt : Timer(a) \in Thread
    BY Threads DEF LegInv, TInv
  <1>2. \A t \in Thread : /\ Return(t) => \A u \in Thread : pc'[u] = pc[u] \/ pc'[u].at \notin {"write", "losers"}
                          /\ Goto(t, [Idle EXCEPT !.at = "line"]) =>
                               \A u \in Thread : pc'[u] = pc[u] \/ pc'[u].at \notin {"write", "losers"}
    BY <1>1, Moved DEF Return, Idle
  <1>3. CASE InboundCancel
    <2>1. CASE GoneOrTerminated
      BY <1>1, <1>2, <1>3, <2>1, SpareKept DEF InboundCancel, tables, wire, history
    <2>2. CASE ~GoneOrTerminated
      <3>1. TakeSession(Main, 487, TRUE)
        BY <1>3, <2>2 DEF InboundCancel
      <3>2. ASSUME NEW hangup, TakeSession(Main, 487, hangup) PROVE SpareInv'
        BY <1>1, <2>2, <3>2, SpareTake
      <3> QED
        BY <3>1, <3>2
    <2> QED
      BY <2>1, <2>2
  <1>4. CASE InboundBye
    <2>1. UNCHANGED <<legsOf, winner, cancelled, byed, current, registered>>
      BY <1>4 DEF InboundBye, wire, history
    <2>2. CASE current \in Attempt
      <3> DEFINE w == winner[current]
                 ctx == [at |-> "write", sess |-> current,
                         legs |-> IF w = NoLeg THEN legsOf[current] ELSE {},
                         target |-> IF w \in legsOf[current] THEN w ELSE NoLeg,
                         code |-> NoCode, hangup |-> TRUE]
      <3>1. terminated' = [terminated EXCEPT ![current] = TRUE] /\ Goto(Main, ctx)
        BY <1>4, <2>2 DEF InboundBye
      <3>2. /\ ctx.at = "write" /\ ctx.legs = (IF w = NoLeg THEN legsOf[current] ELSE {})
            /\ ctx.target = (IF w \in legsOf[current] THEN w ELSE NoLeg)
        OBVIOUS
      <3> HIDE DEF ctx
      <3>3. pc'[Main] = ctx /\ \A u \in Thread : u # Main => pc'[u] = pc[u]
        BY <1>1, <3>1, Moved
      <3>4. terminated'[current] /\ \A a \in Attempt : terminated[a] => terminated'[a]
        BY <1>1, <2>2, <3>1 DEF TypeOK
      <3>5. ctx.legs \subseteq legsOf[current] \ {winner[current]}
        BY <1>1, <2>2, <3>2, Numbers DEF TypeOK
      <3>6. ctx.target # NoLeg => winner[ctx.target.a] = ctx.target
        BY <2>2, <3>2 DEF LegInv, OwnLegs
      <3> QED
        BY <1>1, <2>1, <2>2, <3>2, <3>3, <3>4, <3>5, <3>6, SpareCopied
    <2>3. CASE current \notin Attempt
      BY <1>1, <1>2, <1>4, <2>1, <2>3, SpareKept DEF InboundBye
    <2> QED
      BY <2>2, <2>3
  <1>5. CASE CleanupLine
    BY <1>1, <1>2, <1>5, SpareKept DEF CleanupLine, tables, wire, history
  <1>6. ASSUME NEW t \in Thread, NEW l \in Leg, HandleResponse(t, l)
        PROVE  SpareInv'
    <2> DEFINE won == [Idle EXCEPT !.at = "losers", !.sess = current, !.target = l]
               failed == [Idle EXCEPT !.at = "cleanup", !.sess = current]
    <2>1. /\ l \in registered /\ ~GoneOrTerminated
          /\ UNCHANGED <<current, legsOf, registered, cancelled, byed>>
          /\ \/ /\ winner' = [winner EXCEPT ![current] = l]
                /\ terminated' = [terminated EXCEPT ![current] = TRUE]
                /\ Goto(t, won)
             \/ UNCHANGED <<winner, terminated>> /\ (Goto(t, failed) \/ UNCHANGED pc)
      BY <1>6 DEF HandleResponse
    <2>2. won.at = "losers" /\ won.sess = current /\ won.target = l /\ failed.at = "cleanup"
      BY DEF Idle
    <2> HIDE DEF won, failed
    <2>3. CASE /\ winner' = [winner EXCEPT ![current] = l]
               /\ terminated' = [terminated EXCEPT ![current] = TRUE]
               /\ Goto(t, won)
      <3>1. pc'[t] = won /\ \A u \in Thread : u # t => pc'[u] = pc[u]
        BY <1>1, <2>3, Moved
      <3>2. current \in Attempt /\ winner[current] = NoLeg
        BY <1>1, <1>6, <2>1, Numbers DEF GoneOrTerminated, LegInv, Newest
      <3> QED
        BY <1>1, <2>1, <2>2, <2>3, <3>1, <3>2, SpareWin
    <2>4. CASE UNCHANGED <<winner, terminated>> /\ (Goto(t, failed) \/ UNCHANGED pc)
      <3>1. \A u \in Thread : pc'[u] = pc[u] \/ pc'[u].at \notin {"write", "losers"}
        BY <1>1, <2>2, <2>4, Moved
      <3> QED
        BY <2>1, <2>4, <3>1, SpareKept
    <2> QED
      BY <2>1, <2>3, <2>4
  <1>7. ASSUME NEW a \in Attempt, TimerFires(a)
        PROVE  SpareInv'
    <2>1. CASE GoneOrTerminated
      BY <1>1, <1>2, <1>7, <2>1, SpareKept DEF TimerFires, tables, wire, history
    <2>2. CASE ~GoneOrTerminated
      <3>1. TakeSession(Timer(a), 408, FALSE)
        BY <1>7, <2>2 DEF TimerFires
      <3>2. ASSUME NEW hangup, TakeSession(Timer(a), 408, hangup) PROVE SpareInv'
        BY <1>1, <2>2, <3>2, SpareTake
      <3> QED
        BY <3>1, <3>2
    <2> QED
      BY <2>1, <2>2
  <1>8. ASSUME NEW l \in Leg, CalleeResponds(l) PROVE SpareInv'
    BY <1>8, SpareKept DEF CalleeResponds, tables, wire, history
  <1>9. CASE UNCHANGED vars
    BY <1>9, SpareKept DEF vars, tables, wire, history
  <1> QED
    BY <1>3, <1>4, <1>5, <1>6, <1>7, <1>8, <1>9, SpareInvite, SpareRing, SpareTeardown DEF Next

\* With UDP endpoints only, or one INVITE of the caller: the endpoint he was
\* connected to is not cancelled, and no other is hung up on, however answers,
\* ring timers, CANCEL and BYE interleave and whatever sessions came before
\* (cancelLosers, enforceRingTimeout, handleInboundCancel, handleInboundBye).
THEOREM WinnerSparedHolds == OneAtATime => (Spec => []WinnerSpared)
  <1> SUFFICES ASSUME OneAtATime PROVE Spec => []WinnerSpared
    OBVIOUS
  <1>1. Init => LegInv /\ SpareInv
    BY LegInit, SpareInit
  <1>2. LegInv /\ SpareInv /\ [Next]_vars => LegInv' /\ SpareInv'
    BY LegStep, SpareStep
  <1>3. LegInv /\ SpareInv => WinnerSpared
    <2> SUFFICES ASSUME LegInv, SpareInv, NEW a \in Attempt
                 PROVE  /\ winner[a] \notin cancelled
                        /\ \A l \in legsOf[a] \cap byed : l = winner[a]
      BY DEF WinnerSpared
    <2>1. winner[a] \notin cancelled
      <3>1. cancelled \subseteq Leg
        BY DEF LegInv, TInv, TypeOK
      <3> QED
        BY <3>1 DEF SpareInv, CondemnedAreOver, Condemned
    <2>2. \A l \in legsOf[a] \cap byed : l = winner[a]
      BY DEF LegInv, OwnLegs, SpareInv, WinnersAreHungUp
    <2> QED
      BY <2>1, <2>2
  <1> QED
    BY <1>1, <1>2, <1>3, PTL DEF Spec

-----------------------------------------------------------------------------
(* FailureMeansAllRefused.  480 is decided by looking at the legs the       *)
(* session knows.  With UDP endpoints the ring loop and the answers share   *)
(* the read loop, so it knows all that were rung; with TLS the first        *)
(* endpoint's refusal may be handled before the second is rung.             *)

\* Whoever was rung is in his session once the read loop is back.
RungAreKnown == \A l \in Leg : callee[l] # "unrung" =>
  /\ l.a <= invites
  /\ l \in legsOf[l.a] \/ (pc[Main].at = "register" /\ l = pc[Main].target)

\* What the session remembers of a leg is what the endpoint said, and a session
\* one of whose endpoints accepted is marked.
StatusIsTrue == \A l \in Leg :
  /\ finalStatus[l] # "none" => l.a <= invites
  /\ finalStatus[l] = "fail" => callee[l] = "refused"
  /\ finalStatus[l] = "ok" /\ l.a = current => terminated[current]

\* An INVITE that failed is no longer being rung.
FailedAreRung == \A a \in Attempt : finals[a][480] > 0 =>
  a <= invites /\ ~(Ringing /\ a = invites)

FailInv == RungAreKnown /\ StatusIsTrue /\ FailedAreRung /\ FailureMeansAllRefused

LEMMA FailInit == Init => FailInv
  <1> SUFFICES ASSUME Init PROVE FailInv
    OBVIOUS
  <1>1. /\ \A l \in Leg : callee[l] = "unrung" /\ finalStatus[l] = "none"
        /\ \A a \in Attempt : finals[a][480] = 0
    BY DEF Init, Codes
  <1> QED
    BY <1>1 DEF FailInv, RungAreKnown, StatusIsTrue, FailedAreRung, FailureMeansAllRefused

\* Steps that ring nobody, learn nothing and send no 480.
LEMMA FailKept ==
  ASSUME FailInv, UNCHANGED <<invites, legsOf, finalStatus>>, current' \in {0, current},
         \A l \in Leg : callee'[l] = callee[l] \/ callee[l] = "ringing",
         current' # 0 => \A a \in Attempt : terminated[a] => terminated'[a],
         current # 0 => current \in Attempt, \A l \in Leg : l.a \in Attempt,
         \A a \in Attempt : a # 0 /\ finals'[a][480] = finals[a][480],
         \/ pc'[Main] = pc[Main]
         \/ pc[Main].at # "register" /\ pc'[Main].at \notin {"ring", "register"}
  PROVE  FailInv'
  <1>1. RungAreKnown'
    BY DEF FailInv, RungAreKnown
  <1>2. StatusIsTrue'
    BY DEF FailInv, StatusIsTrue
  <1>3. FailedAreRung'
    BY DEF FailInv, FailedAreRung, Ringing
  <1>4. FailureMeansAllRefused'
    BY DEF FailInv, FailureMeansAllRefused
  <1> QED
    BY <1>1, <1>2, <1>3, <1>4 DEF FailInv

\* A status other than 480 leaves the count of 480s alone.
LEMMA AnswerOther ==
  ASSUME TypeOK, NEW b, NEW code, Answer(b, code)
  PROVE  \A a \in Attempt : a # b \/ code # 480 => finals'[a][480] = finals[a][480]
  <1> SUFFICES ASSUME NEW a \in Attempt, a # b \/ code # 480
               PROVE  finals'[a][480] = finals[a][480]
    OBVIOUS
  <1>1. finals[a] \in [Codes -> Nat] /\ 480 \in Codes
    BY DEF TypeOK, Codes
  <1>2. CASE a # b
    BY <1>2 DEF TypeOK, Answer
  <1>3. CASE a = b
    <2>1. finals'[a] = [finals[a] EXCEPT ![code] = @ + 1] /\ code # 480
      BY <1>3 DEF TypeOK, Answer
    <2> QED
      BY <1>1, <2>1
  <1> QED
    BY <1>2, <1>3

\* The steps of the handlers other than the ring loop and handleResponse.
LEMMA HandlingFails ==
  ASSUME TypeOK, OwesWhileWriting,
         \/ RingingDone \/ InboundCancel \/ InboundBye \/ CleanupLine
         \/ \E t \in Thread : Teardown(t)
         \/ \E a \in Attempt : TimerFires(a)
         \/ \E l \in Leg : CalleeResponds(l)
         \/ UNCHANGED vars
  PROVE  /\ \A l \in Leg : callee'[l] = callee[l] \/ callee[l] = "ringing"
         /\ \A a \in Attempt : finals'[a][480] = finals[a][480]
         /\ pc[Main].at = "register" => pc'[Main] = pc[Main]
  <1>1. Main \in Thread /\ (\A a \in Attempt : Timer(a) \in Thread /\ Timer(a) # Main)
        /\ pc \in [Thread -> Ctx]
    BY Threads DEF TypeOK
  <1>2. CASE RingingDone \/ InboundCancel \/ InboundBye \/ CleanupLine
    BY <1>2 DEF RingingDone, InboundCancel, InboundBye, CleanupLine, TakeSession, wire, history
  <1>3. ASSUME NEW t \in Thread, Teardown(t)
        PROVE  /\ UNCHANGED callee
               /\ \A a \in Attempt : finals'[a][480] = finals[a][480]
               /\ pc[Main].at = "register" => pc'[Main] = pc[Main]
    <2>1. pc[t].at # "register" /\ (\E ctx : Goto(t, ctx)) /\ UNCHANGED callee
      BY <1>3 DEF Teardown, CancelLosers, WriteRequests, CleanupSession, Return
    <2>2. pc[Main].at = "register" => pc'[Main] = pc[Main]
      BY <1>1, <2>1, Moved
    <2>3. \A a \in Attempt : finals'[a][480] = finals[a][480]
      <3>1. CASE WriteRequests(t)
        <4>1. pc[t].code # 480
          BY DEF OwesWhileWriting, NoCode
        <4>2. UNCHANGED finals \/ Answer(pc[t].sess, pc[t].code)
          BY <3>1 DEF WriteRequests
        <4> QED
          BY <4>1, <4>2, AnswerOther
      <3>2. CASE CancelLosers(t) \/ CleanupSession(t)
        BY <3>2 DEF CancelLosers, CleanupSession, wire, history
      <3> QED
        BY <1>3, <3>1, <3>2 DEF Teardown
    <2> QED
      BY <2>1, <2>2, <2>3
  <1>4. ASSUME NEW a \in Attempt, TimerFires(a) PROVE UNCHANGED <<callee, finals>> /\ pc'[Main] = pc[Main]
    <2>1. UNCHANGED <<callee, finals>> /\ \E ctx : Goto(Timer(a), ctx)
      BY <1>4 DEF TimerFires, Return, TakeSession, wire, history
    <2> QED
      BY <1>1, <2>1, Moved
  <1>5. ASSUME NEW l \in Leg, CalleeResponds(l)
        PROVE  UNCHANGED <<pc, finals>> /\ \A k \in Leg : callee'[k] = callee[k] \/ callee[k] = "ringing"
    BY <1>5 DEF CalleeResponds, wire, history, TypeOK
  <1>6. CASE UNCHANGED vars
    BY <1>6 DEF vars, wire, history
  <1> QED
    BY <1>2, <1>3, <1>4, <1>5, <1>6

\* Ringing an endpoint of the newest session, which has not failed yet.
LEMMA FailRing ==
  ASSUME LegInv, FailInv, NEW l \in Leg, EmitInvite(l) \/ EmitFails(l)
  PROVE  FailInv'
  <1> USE DEF LegInv, FailInv
  <1>1. TypeOK /\ Main \in Thread /\ pc[Main] \in Ctx
    BY Threads DEF TInv, TypeOK
  <1>2. /\ pc[Main].at = "ring" /\ l \in pc[Main].legs
        /\ l.a = invites /\ l \notin legsOf[invites] /\ invites \in Nat /\ invites <= invites
        /\ UNCHANGED <<invites, current, legsOf, terminated, finalStatus, finals>>
    BY <1>1, Numbers DEF EmitInvite, EmitFails, tables, wire, history, RungInTurn, Ringing
  <1>3. CASE EmitInvite(l)
    <2> DEFINE ctx == [pc[Main] EXCEPT !.at = "register", !.legs = @ \ {l}, !.target = l]
    <2>1. pc'[Main] = ctx /\ callee' = [callee EXCEPT ![l] = "ringing"]
      BY <1>1, <1>3, Moved DEF EmitInvite
    <2>2. ctx.at = "register" /\ ctx.target = l
      BY <1>1 DEF Ctx
    <2> HIDE DEF ctx
    <2>3. callee'[l] = "ringing" /\ \A k \in Leg : k # l => callee'[k] = callee[k]
      BY <1>1, <2>1 DEF TypeOK
    <2>4. RungAreKnown'
      BY <1>2, <2>1, <2>2, <2>3 DEF RungAreKnown
    <2>5. finalStatus[l] # "fail"
      BY <1>2 DEF StatusIsTrue, RungAreKnown
    <2>6. StatusIsTrue'
      BY <1>2, <2>3, <2>5 DEF StatusIsTrue
    <2>7. FailedAreRung'
      BY <1>2 DEF FailedAreRung, Ringing
    <2>8. FailureMeansAllRefused'
      BY <1>2, <2>3 DEF FailureMeansAllRefused, FailedAreRung, Ringing
    <2> QED
      BY <2>4, <2>6, <2>7, <2>8
  <1>4. CASE EmitFails(l)
    <2> DEFINE ctx == [pc[Main] EXCEPT !.legs = @ \ {l}]
    <2>1. pc'[Main] = ctx /\ UNCHANGED callee
      BY <1>1, <1>4, Moved DEF EmitFails
    <2>2. ctx.at = "ring"
      BY <1>1, <1>2 DEF Ctx
    <2> HIDE DEF ctx
    <2>3. RungAreKnown'
      BY <1>2, <2>1, <2>2 DEF RungAreKnown
    <2>4. StatusIsTrue'
      BY <1>2, <2>1 DEF StatusIsTrue
    <2>5. FailedAreRung'
      BY <1>2 DEF FailedAreRung, Ringing
    <2>6. FailureMeansAllRefused'
      BY <1>2, <2>1 DEF FailureMeansAllRefused
    <2> QED
      BY <2>3, <2>4, <2>5, <2>6
  <1> QED
    BY <1>3, <1>4

LEMMA FailRegister ==
  ASSUME LegInv, FailInv, RegisterLeg
  PROVE  FailInv'
  <1> USE DEF LegInv, FailInv
  <1>1. TypeOK /\ Main \in Thread /\ pc[Main] \in Ctx /\ RegistersALeg
    BY Threads DEF TInv, TypeOK
  <1> DEFINE l == pc[Main].target
             ctx == [pc[Main] EXCEPT !.at = "ring", !.target = NoLeg]
  <1>2. /\ pc[Main].at = "register" /\ l.a = invites /\ invites \in Attempt /\ pc[Main].sess = invites
        /\ UNCHANGED <<invites, current, terminated, finalStatus, callee, finals>>
        /\ legsOf' = [legsOf EXCEPT ![invites] = @ \cup {l}]
    BY DEF RegisterLeg, wire, history, RungInTurn, Ringing
  <1>3. pc'[Main] = ctx
    BY <1>1, Moved DEF RegisterLeg
  <1>4. ctx.at = "ring"
    BY <1>1 DEF Ctx
  <1> HIDE DEF ctx, l
  <1>5. /\ legsOf'[invites] = legsOf[invites] \cup {l}
        /\ \A a \in Attempt : a # invites => legsOf'[a] = legsOf[a]
    BY <1>1, <1>2 DEF TypeOK
  <1>6. RungAreKnown'
    <2>1. \A k \in Leg : callee[k] # "unrung" => k.a <= invites /\ (k \in legsOf[k.a] \/ k = l)
      BY DEF RungAreKnown, l
    <2> QED
      BY <1>2, <1>5, <2>1, LegParts DEF RungAreKnown
  <1>7. StatusIsTrue'
    BY <1>2 DEF StatusIsTrue
  <1>8. FailedAreRung'
    BY <1>2 DEF FailedAreRung, Ringing
  <1>9. FailureMeansAllRefused'
    BY <1>2 DEF FailureMeansAllRefused
  <1> QED
    BY <1>6, <1>7, <1>8, <1>9

\* A new INVITE: nothing is known of its endpoints.
LEMMA FailInvite ==
  ASSUME LegInv, FailInv, Invite
  PROVE  FailInv'
  <1> USE DEF LegInv, FailInv
  <1>1. TypeOK /\ Main \in Thread
    BY Threads DEF TInv
  <1>2. /\ pc[Main].at = "idle" /\ invites' = invites + 1 /\ current' = invites + 1
        /\ UNCHANGED <<legsOf, terminated, finalStatus, callee, finals>>
    BY DEF Invite, wire, history
  <1>3. pc'[Main].at = "ring"
    <2> DEFINE ctx == [Idle EXCEPT !.at = "ring", !.sess = invites + 1,
                                   !.legs = [a : {invites + 1}, e : Ring]]
    <2>1. pc'[Main] = ctx
      BY <1>1, Moved DEF Invite
    <2>2. ctx.at = "ring"
      BY DEF Idle
    <2> QED
      BY <2>1, <2>2
  <1>4. \A a \in Attempt : a <= invites => a <= invites' /\ a # invites' /\ a # current'
    BY <1>1, <1>2, Numbers
  <1>5. RungAreKnown'
    BY <1>2, <1>4, LegParts DEF RungAreKnown
  <1>6. StatusIsTrue'
    BY <1>2, <1>4, LegParts DEF StatusIsTrue
  <1>7. FailedAreRung'
    BY <1>2, <1>4 DEF FailedAreRung
  <1>8. FailureMeansAllRefused'
    BY <1>2 DEF FailureMeansAllRefused
  <1> QED
    BY <1>5, <1>6, <1>7, <1>8

\* An answer met by the read loop, which rings nobody meanwhile.
LEMMA FailRespond ==
  ASSUME LegInv, FailInv, NEW l \in Leg, HandleResponse(Main, l)
  PROVE  FailInv'
  <1> USE DEF LegInv, FailInv
  <1>1. TypeOK /\ Main \in Thread
    BY Threads DEF TInv
  <1> DEFINE status == [finalStatus EXCEPT ![l] = IF Success(l) THEN "ok" ELSE "fail"]
             wins == Success(l) /\ winner[current] = NoLeg
             won == [Idle EXCEPT !.at = "losers", !.sess = current, !.target = l]
             failed == [Idle EXCEPT !.at = "cleanup", !.sess = current]
  <1>2. /\ pc[Main].at = "idle" /\ callee[l] \in {"accepted", "refused"} /\ l \in registered
        /\ finalStatus' = status
        /\ UNCHANGED <<invites, current, legsOf, callee>>
    BY DEF HandleResponse
  <1>3. \/ /\ wins /\ terminated' = [terminated EXCEPT ![current] = TRUE]
           /\ Answer(current, 200) /\ Goto(Main, won)
        \/ /\ ~wins /\ AllFinal(current, status) /\ UNCHANGED terminated
           /\ Answer(current, 480) /\ Goto(Main, failed)
        \/ ~wins /\ UNCHANGED <<terminated, pc, finals>>
    BY DEF HandleResponse
  <1>4. won.at = "losers" /\ failed.at = "cleanup"
    BY DEF Idle
  <1> HIDE DEF won, failed
  <1>5. pc'[Main].at \in {"idle", "losers", "cleanup"}
    BY <1>1, <1>2, <1>3, <1>4, Moved
  <1>6. current \in Attempt /\ ~terminated[current] /\ current = invites /\ winner[current] = NoLeg
    BY <1>1, Numbers DEF HandleResponse, GoneOrTerminated, Newest
  <1>7. /\ status[l] = (IF Success(l) THEN "ok" ELSE "fail")
        /\ \A k \in Leg : k # l => status[k] = finalStatus[k]
    BY <1>1 DEF TypeOK
  <1>8. /\ l.a \in Attempt /\ l.a <= invites
        /\ \A k \in Leg : callee[k] # "unrung" => k.a <= invites /\ k \in legsOf[k.a]
    BY <1>2, LegParts DEF OwnLegs, RungAreKnown
  <1> HIDE DEF status
  <1>9. RungAreKnown'
    BY <1>2, <1>8 DEF RungAreKnown
  <1>10. StatusIsTrue'
    <2> SUFFICES ASSUME NEW k \in Leg
                 PROVE  /\ status[k] # "none" => k.a <= invites
                        /\ status[k] = "fail" => callee[k] = "refused"
                        /\ status[k] = "ok" /\ k.a = current => terminated'[current]
      BY <1>2 DEF StatusIsTrue
    <2>1. CASE k = l
      <3>1. Success(l) => wins /\ terminated' = [terminated EXCEPT ![current] = TRUE]
        BY <1>3, <1>6
      <3>2. Success(l) => terminated'[current]
        BY <1>1, <1>6, <3>1 DEF TypeOK
      <3> QED
        BY <1>2, <1>7, <1>8, <2>1, <3>2 DEF Success
    <2>2. CASE k # l
      BY <1>6, <1>7, <2>2 DEF StatusIsTrue
    <2> QED
      BY <2>1, <2>2
  <1>11. \A a \in Attempt : a # current => finals'[a][480] = finals[a][480]
    BY <1>1, <1>3, AnswerOther
  <1>12. wins => finals'[current][480] = finals[current][480]
    BY <1>1, <1>3, <1>6, AnswerOther
  <1>13. FailedAreRung'
    <2>1. current <= invites /\ ~Ringing'
      BY <1>1, <1>5, <1>6, Numbers DEF Ringing
    <2>2. \A a \in Attempt : a # current /\ finals'[a][480] > 0 => a <= invites
      BY <1>11 DEF FailedAreRung
    <2> QED
      BY <1>2, <2>1, <2>2 DEF FailedAreRung
  <1>14. FailureMeansAllRefused'
    <2> SUFFICES ASSUME NEW a \in Attempt, finals'[a][480] > 0, NEW k \in Leg, k.a = a
                 PROVE  callee[k] \in {"unrung", "refused"}
      BY <1>2 DEF FailureMeansAllRefused
    <2>1. CASE finals'[a][480] = finals[a][480]
      BY <2>1 DEF FailureMeansAllRefused
    <2>2. CASE finals'[a][480] # finals[a][480]
      <3>1. a = current /\ ~wins /\ AllFinal(current, status)
        BY <1>3, <1>11, <1>12, <2>2
      <3>2. CASE callee[k] # "unrung"
        <4>1. status[k] # "none"
          BY <1>8, <3>1, <3>2 DEF AllFinal
        <4>2. ~Success(l)
          BY <1>6, <3>1
        <4>3. status[k] = "fail"
          BY <1>1, <1>6, <1>7, <3>1, <4>1, <4>2 DEF StatusIsTrue, TypeOK
        <4> QED
          BY <1>2, <1>7, <4>2, <4>3 DEF StatusIsTrue, Success
      <3> QED
        BY <3>2
    <2> QED
      BY <2>1, <2>2
  <1> QED
    BY <1>9, <1>10, <1>13, <1>14

LEMMA FailStep ==
  ASSUME TlsRing = {}
  PROVE  LegInv /\ OwesWhileWriting /\ FailInv /\ [Next]_vars => FailInv'
  <1> SUFFICES ASSUME LegInv, OwesWhileWriting, FailInv, [Next]_vars PROVE FailInv'
    OBVIOUS
  <1>1. TypeOK
    BY DEF LegInv, TInv
  <1>2. CASE \/ RingingDone \/ InboundCancel \/ InboundBye \/ CleanupLine
             \/ \E t \in Thread : Teardown(t)
             \/ \E a \in Attempt : TimerFires(a)
             \/ \E l \in Leg : CalleeResponds(l)
             \/ UNCHANGED vars
    <2>1. /\ UNCHANGED <<invites, legsOf, winner, finalStatus>> /\ current' \in {0, current}
          /\ \A a \in Attempt : terminated[a] => terminated'[a]
          /\ pc'[Main] = pc[Main] \/ pc'[Main].at \notin {"ring", "register"}
      BY <1>1, <1>2, Handling
    <2>2. /\ \A l \in Leg : callee'[l] = callee[l] \/ callee[l] = "ringing"
          /\ \A a \in Attempt : finals'[a][480] = finals[a][480]
          /\ pc[Main].at = "register" => pc'[Main] = pc[Main]
      BY <1>1, <1>2, HandlingFails
    <2> QED
      BY <1>1, <2>1, <2>2, Numbers, LegParts, FailKept
  <1>3. ASSUME NEW t \in Thread, NEW l \in Leg, HandleResponse(t, l) PROVE FailInv'
    <2>1. t = Main
      BY <1>3 DEF HandleResponse, IsTls
    <2> QED
      BY <1>3, <2>1, FailRespond
  <1> QED
    BY <1>2, <1>3, FailInvite, FailRing, FailRegister DEF Next, RingLoop

\* With UDP endpoints only, any number of them and of INVITEs, 480 is sent when
\* every endpoint that was rung has refused ("Determine if all legs have final
\* responses" in handleResponse).
THEOREM FailureMeansAllRefusedHolds == TlsRing = {} => (Spec => []FailureMeansAllRefused)
  <1> SUFFICES ASSUME TlsRing = {} PROVE Spec => []FailureMeansAllRefused
    OBVIOUS
  <1>1. Init => LegInv /\ IInv /\ FailInv
    BY LegInit, DecisionInit, FailInit
  <1>2. LegInv /\ IInv /\ FailInv /\ [Next]_vars => LegInv' /\ IInv' /\ FailInv'
    BY LegStep, DecisionStep, FailStep DEF IInv
  <1>3. FailInv => FailureMeansAllRefused
    BY DEF FailInv
  <1> QED
    BY <1>1, <1>2, <1>3, PTL DEF Spec

-----------------------------------------------------------------------------
(* NoLegForgotten, for UDP endpoints and a caller who does                  *)
(* not ring again.  A TLS endpoint may answer while others are being rung,  *)
(* and the timer of one INVITE may fire while the next is being rung; the   *)
(* legs registered afterwards belong to a session that is over.             *)

OneCall == TlsRing = {} /\ MaxInvites = 1

\* The caller rings once, so the timer starts when the ring loop is over, and the
\* session is gone when the read loop has served a winner.
FirstRing ==
  /\ Ringing => pc[Timer(1)].at = "off" /\ current = 1 /\ ~terminated[1]
  /\ invites = 0 => /\ current = 0 /\ pc[Main].at = "idle" /\ pc[Timer(1)].at = "off"
                    /\ ~terminated[1] /\ \A l \in Leg : callee[l] = "unrung"
  /\ pc[Main].at \in {"idle", "line"} /\ winner[1] # NoLeg => current = 0
  /\ pc[Main].at = "losers" => pc[Main].target \in Leg /\ callee[pc[Main].target] # "ringing"

\* Whoever still rings has been sent a CANCEL, or the handler that is about to
\* write has him on its list.
Served ==
  /\ current = 0 \/ (\E t \in Thread : pc[t].at = "cleanup") =>
       \A l \in Leg : callee[l] = "ringing" => l \in cancelled
  /\ \A t \in Thread : pc[t].at = "write" =>
       \A l \in Leg : callee[l] = "ringing" => l \in pc[t].legs \cup cancelled
  /\ \A l \in Leg : finalStatus[l] # "none" => callee[l] \in {"accepted", "refused"}

\* The index is empty when the session is gone, there is no connection, and no leg
\* comes late.
Released == open = {} /\ late = {} /\ (current = 0 => registered = {})

ServedInv == FirstRing /\ Served /\ Released

\* What there is in that case.
LEMMA Alone ==
  ASSUME OneCall, TypeOK
  PROVE  /\ Attempt = {1} /\ Thread = {Main, Timer(1)} /\ Timer(1) # Main
         /\ Main.kind # "timer" /\ Timer(1).kind = "timer"
         /\ \A l \in Leg : ~IsTls(l) /\ l.a = 1 /\ Reachable(l)
         /\ invites \in {0, 1} /\ current \in {0, 1} /\ terminated[1] \in BOOLEAN
         /\ pc[Main] \in Ctx /\ pc[Timer(1)] \in Ctx
         /\ pc[Timer(1)].at \in {"off", "armed", "write", "cleanup", "done"}
  <1>1. Attempt = {1}
    BY DEF OneCall, Attempt
  <1>2. Thread = {Main, Timer(1)} /\ Timer(1) # Main /\ Main.kind # "timer" /\ Timer(1).kind = "timer"
    BY <1>1 DEF OneCall, Thread, Main, Timer, IsTls
  <1>3. \A l \in Leg : ~IsTls(l) /\ l.a = 1 /\ Reachable(l)
    BY <1>1, LegParts DEF OneCall, IsTls, Reachable
  <1> QED
    BY <1>1, <1>2, <1>3 DEF OneCall, TypeOK

\* A thread's step, in that case.
LEMMA AloneMoved ==
  ASSUME OneCall, TypeOK, NEW t \in Thread, NEW ctx, Goto(t, ctx)
  PROVE  \/ t = Main /\ pc'[Main] = ctx /\ pc'[Timer(1)] = pc[Timer(1)]
         \/ t = Timer(1) /\ pc'[Timer(1)] = ctx /\ pc'[Main] = pc[Main]
  BY Alone, Moved

LEMMA ServedInit == OneCall /\ Init => ServedInv
  <1> SUFFICES ASSUME OneCall, Init PROVE ServedInv
    OBVIOUS
  <1>1. TypeOK
    BY TypeInit DEF TInv
  <1>2. pc[Main].at = "idle" /\ pc[Timer(1)].at = "off"
    BY <1>1, Alone DEF Init, Idle
  <1>3. /\ winner[1] = NoLeg /\ ~terminated[1]
        /\ \A l \in Leg : callee[l] = "unrung" /\ finalStatus[l] = "none"
    BY <1>1, Alone DEF Init
  <1> QED
    BY <1>1, <1>2, <1>3, Alone DEF Init, ServedInv, FirstRing, Served, Released, Ringing

\* The ring loop: the timer is off and nobody has answered.
LEMMA ServedRing ==
  ASSUME OneCall, LegInv, IInv, FailInv, ServedInv,
         Invite \/ RegisterLeg \/ RingingDone \/ \E l \in Leg : EmitInvite(l) \/ EmitFails(l)
  PROVE  ServedInv'
  <1> USE DEF ServedInv
  <1>1. TypeOK /\ Main \in Thread
    BY Threads DEF LegInv, TInv
  <1>2. CASE Invite
    <2> DEFINE ctx == [Idle EXCEPT !.at = "ring", !.sess = invites + 1,
                                   !.legs = [a : {invites + 1}, e : Ring]]
    <2>1. /\ invites = 0 /\ invites' = 1 /\ current' = 1
          /\ UNCHANGED <<terminated, finalStatus, registered, open, callee, cancelled, winner, late>>
          /\ Goto(Main, ctx)
      BY <1>1, <1>2, Alone DEF Invite, OneCall, wire, history
    <2>2. ctx.at = "ring"
      BY DEF Idle
    <2> HIDE DEF ctx
    <2>3. pc'[Main].at = "ring" /\ pc'[Timer(1)] = pc[Timer(1)]
      BY <1>1, <2>1, <2>2, Alone, Moved
    <2>4. /\ current = 0 /\ pc[Timer(1)].at = "off" /\ ~terminated[1]
          /\ \A l \in Leg : callee[l] = "unrung"
      BY <2>1 DEF FirstRing
    <2>5. FirstRing'
      BY <2>1, <2>3, <2>4 DEF FirstRing
    <2>6. Served'
      BY <1>1, <2>1, <2>3, <2>4, Alone DEF Served
    <2> QED
      BY <2>1, <2>5, <2>6 DEF Released
  <1>3. ASSUME NEW l \in Leg, EmitInvite(l) \/ EmitFails(l) PROVE ServedInv'
    <2>1. /\ pc[Main].at = "ring" /\ l \notin legsOf[1] /\ invites = 1
          /\ UNCHANGED <<invites, current, terminated, finalStatus, registered, open, cancelled, winner, late>>
          /\ callee' = callee \/ callee' = [callee EXCEPT ![l] = "ringing"]
      BY <1>1, <1>3, Alone DEF EmitInvite, EmitFails, tables, wire, history, LegInv, RungInTurn, Ringing
    <2>2. pc'[Main].at \in {"ring", "register"} /\ pc'[Timer(1)] = pc[Timer(1)]
      <3> DEFINE c1 == [pc[Main] EXCEPT !.at = "register", !.legs = @ \ {l}, !.target = l]
                 c2 == [pc[Main] EXCEPT !.legs = @ \ {l}]
      <3>1. Goto(Main, c1) \/ Goto(Main, c2)
        BY <1>3 DEF EmitInvite, EmitFails
      <3>2. c1.at = "register" /\ c2.at = "ring"
        BY <1>1, <2>1, Alone DEF Ctx
      <3> HIDE DEF c1, c2
      <3> QED
        BY <1>1, <3>1, <3>2, Alone, Moved
    <2>3. pc[Timer(1)].at = "off" /\ current = 1 /\ ~terminated[1]
      BY <2>1 DEF FirstRing, Ringing
    <2>4. callee[l] = "unrung"
      BY <1>1, <2>1, Alone DEF FailInv, RungAreKnown
    <2>5. finalStatus[l] = "none"
      BY <2>4 DEF Served
    <2>6. \A k \in Leg : k # l => callee'[k] = callee[k]
      BY <1>1, <2>1 DEF TypeOK
    <2>7. FirstRing'
      BY <2>1, <2>2, <2>3 DEF FirstRing
    <2>8. Served'
      BY <1>1, <2>1, <2>2, <2>3, <2>5, <2>6, Alone DEF Served
    <2> QED
      BY <2>1, <2>7, <2>8 DEF Released
  <1>4. CASE RegisterLeg
    <2> DEFINE ctx == [pc[Main] EXCEPT !.at = "ring", !.target = NoLeg]
    <2>1. /\ pc[Main].at = "register" /\ Goto(Main, ctx)
          /\ UNCHANGED <<invites, current, terminated, finalStatus, open, callee, cancelled, winner, late>>
      BY <1>1, <1>4, Alone DEF RegisterLeg, LegInv, RungInTurn, Ringing, FirstRing
    <2>2. ctx.at = "ring"
      BY <1>1, Alone DEF Ctx
    <2> HIDE DEF ctx
    <2>3. pc'[Main].at = "ring" /\ pc'[Timer(1)] = pc[Timer(1)]
      BY <1>1, <2>1, <2>2, Alone, Moved
    <2>4. pc[Timer(1)].at = "off" /\ current = 1 /\ ~terminated[1] /\ invites # 0
      BY <2>1 DEF FirstRing, Ringing
    <2>5. FirstRing'
      BY <2>1, <2>3, <2>4 DEF FirstRing
    <2>6. Served'
      BY <1>1, <2>1, <2>3, <2>4, Alone DEF Served
    <2> QED
      BY <2>1, <2>4, <2>5, <2>6 DEF Released
  <1>5. CASE RingingDone
    <2>1. /\ pc[Main].at = "ring"
          /\ UNCHANGED <<invites, current, terminated, finalStatus, registered, open, callee, cancelled, winner, late>>
      BY <1>5 DEF RingingDone, tables, wire, history
    <2>2. pc[Timer(1)].at = "off" /\ current = 1 /\ ~terminated[1] /\ pc[Main].sess = 1 /\ invites # 0
      BY <1>1, <2>1, Alone DEF FirstRing, Ringing, LegInv, RungInTurn
    <2>3. pc'[Main].at = "idle" /\ pc'[Timer(1)].at = "armed"
      BY <1>1, <1>5, <2>2, Alone DEF RingingDone, Idle, TypeOK
    <2>4. winner[1] = NoLeg
      BY <1>1, <2>2, Alone DEF LegInv, Newest
    <2>5. FirstRing'
      BY <2>1, <2>2, <2>3, <2>4 DEF FirstRing, Ringing
    <2>6. Served'
      BY <1>1, <2>1, <2>2, <2>3, Alone DEF Served
    <2> QED
      BY <2>1, <2>5, <2>6 DEF Released
  <1> QED
    BY <1>2, <1>3, <1>4, <1>5

\* A handler that copies the session's legs copies everyone who rings, but for one
\* who does not.
LEMMA ServedCopied ==
  ASSUME OneCall, TypeOK, FailInv, ServedInv, current = 1, invites # 0, NEW t \in Thread, NEW ctx,
         Goto(t, ctx), ctx.at = "write", pc[Main].at \notin {"ring", "register"},
         \A l \in legsOf[1] : callee[l] = "ringing" => l \in ctx.legs,
         UNCHANGED <<invites, current, finalStatus, registered, open, callee, cancelled, winner, late>>
  PROVE  ServedInv'
  <1> USE DEF ServedInv
  <1>1. \A l \in Leg : callee[l] = "ringing" => l \in ctx.legs
    <2> SUFFICES ASSUME NEW l \in Leg, callee[l] = "ringing" PROVE l \in ctx.legs
      OBVIOUS
    <2>1. l \in legsOf[1]
      BY Alone DEF FailInv, RungAreKnown
    <2> QED
      BY <2>1
  <1>2. pc'[Main].at \notin {"ring", "register"}
    BY AloneMoved
  <1>3. FirstRing'
    BY <1>2, AloneMoved DEF FirstRing, Ringing
  <1>4. Served'
    <2>1. ASSUME NEW u \in Thread, pc'[u].at = "write"
          PROVE  \A l \in Leg : callee[l] = "ringing" => l \in pc'[u].legs \cup cancelled
      <3>1. CASE u = t
        BY <1>1, <2>1, <3>1, Alone, AloneMoved
      <3>2. CASE u # t
        BY <2>1, <3>2, Moved DEF Served
      <3> QED
        BY <3>1, <3>2
    <2>2. (\E u \in Thread : pc'[u].at = "cleanup") => \E u \in Thread : pc[u].at = "cleanup"
      BY Moved
    <2> QED
      BY <2>1, <2>2 DEF Served
  <1> QED
    BY <1>3, <1>4 DEF Released

LEMMA ServedTeardown ==
  ASSUME OneCall, LegInv, IInv, FailInv, ServedInv, NEW t \in Thread, Teardown(t)
  PROVE  ServedInv'
  <1> USE DEF ServedInv
  <1>1. TypeOK /\ pc[t] \in Ctx
    BY DEF LegInv, TInv, TypeOK
  <1>2. pc[t].at \in {"losers", "write", "cleanup"}
    BY DEF Teardown, CancelLosers, WriteRequests, CleanupSession
  <1>3. invites # 0 /\ pc[Main].at \notin {"ring", "register"}
    BY <1>1, <1>2, Alone DEF FirstRing, Ringing
  <1>4. CASE CancelLosers(t)
    <2>1. t = Main /\ pc[Main].at = "losers"
      BY <1>1, <1>4, Alone DEF CancelLosers
    <2>2. UNCHANGED <<invites, current, terminated, finalStatus, registered, open, callee, cancelled, winner, late>>
      BY <1>4 DEF CancelLosers, tables, wire, history
    <2>3. CASE current = 1
      <3> DEFINE ctx == [pc[Main] EXCEPT !.at = "write", !.target = NoLeg,
                                         !.legs = legsOf[current] \ {pc[Main].target}]
      <3>1. Goto(Main, ctx)
        BY <1>1, <1>4, <2>1, <2>3, Alone DEF CancelLosers
      <3>2. ctx.at = "write" /\ ctx.legs = legsOf[1] \ {pc[Main].target}
        BY <1>1, <2>1, <2>3 DEF Ctx
      <3> HIDE DEF ctx
      <3>3. \A l \in legsOf[1] : callee[l] = "ringing" => l \in ctx.legs
        BY <2>1, <3>2 DEF FirstRing
      <3> QED
        BY <1>1, <1>3, <2>1, <2>2, <2>3, <3>1, <3>2, <3>3, ServedCopied
    <2>4. CASE current = 0
      <3> DEFINE ctx == [pc[Main] EXCEPT !.at = "cleanup"]
      <3>1. Goto(Main, ctx)
        BY <1>1, <1>4, <2>1, <2>4, Alone DEF CancelLosers
      <3>2. ctx.at = "cleanup"
        BY <1>1, <2>1 DEF Ctx
      <3> HIDE DEF ctx
      <3>3. pc'[Main].at = "cleanup" /\ pc'[Timer(1)] = pc[Timer(1)]
        BY <1>1, <3>1, <3>2, Alone, AloneMoved
      <3>4. FirstRing'
        BY <1>3, <2>2, <3>3 DEF FirstRing, Ringing
      <3>5. Served'
        BY <1>1, <2>2, <2>4, <3>3, Alone DEF Served
      <3> QED
        BY <2>2, <3>4, <3>5 DEF Released
    <2> QED
      BY <1>1, <2>3, <2>4, Alone
  <1>5. CASE WriteRequests(t)
    <2> DEFINE ctx == [pc[t] EXCEPT !.at = "cleanup", !.code = NoCode]
    <2>1. /\ UNCHANGED <<invites, current, terminated, finalStatus, registered, open, callee, winner, late>>
          /\ cancelled' = cancelled \cup {l \in pc[t].legs : Reachable(l)}
          /\ Goto(t, ctx) /\ pc[t].at = "write"
      BY <1>5 DEF WriteRequests, tables, history
    <2>2. ctx.at = "cleanup"
      BY <1>1 DEF Ctx
    <2> HIDE DEF ctx
    <2>3. cancelled \subseteq cancelled' /\ \A l \in Leg : callee[l] = "ringing" => l \in cancelled'
      <3>1. \A l \in Leg : callee[l] = "ringing" => l \in pc[t].legs \cup cancelled
        BY <2>1 DEF Served
      <3> QED
        BY <1>1, <2>1, <3>1, Alone
    <2>5. \/ pc'[Main].at = "cleanup" /\ pc'[Timer(1)] = pc[Timer(1)]
          \/ pc'[Main] = pc[Main] /\ pc'[Timer(1)].at = "cleanup"
      BY <1>1, <2>1, <2>2, AloneMoved
    <2>6. FirstRing'
      BY <1>3, <2>1, <2>5 DEF FirstRing, Ringing
    <2>7. Served'
      <3>1. \A l \in Leg : callee'[l] = "ringing" => l \in cancelled'
        BY <2>1, <2>3
      <3>2. \A l \in Leg : finalStatus'[l] # "none" => callee'[l] \in {"accepted", "refused"}
        BY <2>1 DEF Served
      <3> QED
        BY <3>1, <3>2 DEF Served
    <2> QED
      BY <2>1, <2>6, <2>7 DEF Released
  <1>6. CASE CleanupSession(t)
    <2>1. /\ UNCHANGED <<invites, terminated, finalStatus, callee, cancelled, winner, late>>
          /\ pc[t].at = "cleanup" /\ current' = 0 /\ open' = {} /\ registered' = {}
      <3>1. registered \ legsOf[1] = {}
        BY <1>1, Alone DEF LegInv, OwnLegs, TypeOK
      <3> QED
        BY <1>1, <1>6, <3>1, Alone DEF CleanupSession, wire, history, Released
    <2>2. \E ctx : Goto(t, ctx) /\ ctx.at \in {"line", "idle", "done"}
      BY <1>1, <1>6, IdleCtx DEF CleanupSession, Return, Idle
    <2>3. \/ pc'[Main].at \in {"line", "idle", "done"} /\ pc'[Timer(1)] = pc[Timer(1)]
          \/ pc'[Main] = pc[Main] /\ pc'[Timer(1)].at \in {"line", "idle", "done"}
      BY <1>1, <2>2, AloneMoved
    <2>4. FirstRing'
      BY <1>3, <2>1, <2>3 DEF FirstRing, Ringing
    <2>5. \A l \in Leg : callee[l] = "ringing" => l \in cancelled
      BY <2>1 DEF Served
    <2>6. Served'
      BY <2>1, <2>5 DEF Served
    <2> QED
      BY <2>1, <2>4, <2>6 DEF Released
  <1> QED
    BY <1>4, <1>5, <1>6 DEF Teardown

\* An answer met by the read loop: the winner does not ring, and when all have
\* failed nobody does.
LEMMA ServedRespond ==
  ASSUME OneCall, LegInv, IInv, FailInv, ServedInv, NEW l \in Leg, HandleResponse(Main, l)
  PROVE  ServedInv'
  <1> USE DEF ServedInv
  <1>1. TypeOK /\ Main \in Thread
    BY Threads DEF LegInv, TInv
  <1> DEFINE status == [finalStatus EXCEPT ![l] = IF Success(l) THEN "ok" ELSE "fail"]
             won == [Idle EXCEPT !.at = "losers", !.sess = current, !.target = l]
             failed == [Idle EXCEPT !.at = "cleanup", !.sess = current]
  <1>2. /\ pc[Main].at = "idle" /\ callee[l] \in {"accepted", "refused"}
        /\ finalStatus' = status
        /\ UNCHANGED <<invites, current, legsOf, registered, open, callee, cancelled, late>>
    BY DEF HandleResponse, history
  <1>3. \/ Goto(Main, won)
        \/ AllFinal(current, status) /\ Goto(Main, failed)
        \/ UNCHANGED <<pc, winner>>
    BY DEF HandleResponse
  <1>4. won.at = "losers" /\ won.target = l /\ failed.at = "cleanup"
    BY DEF Idle
  <1> HIDE DEF won, failed
  <1>5. current = 1 /\ invites # 0
    BY <1>1, Alone DEF HandleResponse, GoneOrTerminated, FirstRing
  <1>6. \A k \in Leg : status[k] # "none" => callee[k] \in {"accepted", "refused"}
    <2>1. \A k \in Leg : k # l => status[k] = finalStatus[k]
      BY <1>1 DEF TypeOK
    <2> QED
      BY <1>2, <2>1 DEF Served
  <1> HIDE DEF status
  <1>7. \/ pc'[Main] = won /\ pc'[Timer(1)] = pc[Timer(1)]
        \/ AllFinal(current, status) /\ pc'[Main] = failed /\ pc'[Timer(1)] = pc[Timer(1)]
        \/ UNCHANGED <<pc, winner>>
    BY <1>1, <1>3, Alone, Moved
  <1>8. FirstRing'
    BY <1>2, <1>4, <1>5, <1>7 DEF FirstRing, Ringing
  <1>9. Served'
    <2>1. CASE pc'[Main].at = "cleanup" /\ AllFinal(current, status)
      <3>1. ASSUME NEW k \in Leg, callee[k] = "ringing" PROVE FALSE
        <4>1. k \in legsOf[1]
          BY <1>1, <1>2, <3>1, Alone DEF FailInv, RungAreKnown
        <4> QED
          BY <1>5, <1>6, <2>1, <3>1, <4>1 DEF AllFinal
      <3> QED
        BY <1>2, <1>6, <3>1 DEF Served
    <2>2. CASE pc'[Main].at \notin {"cleanup", "write"} /\ pc'[Timer(1)] = pc[Timer(1)]
      BY <1>1, <1>2, <1>5, <1>6, <2>2, Alone DEF Served
    <2> QED
      BY <1>2, <1>4, <1>7, <2>1, <2>2
  <1> QED
    BY <1>2, <1>5, <1>8, <1>9 DEF Released

\* A handler finds nothing to do.
LEMMA ServedPassed ==
  ASSUME OneCall, TypeOK, ServedInv, NEW t \in Thread, NEW ctx, Goto(t, ctx),
         t = Main => pc[t].at \in {"idle", "line"}, pc[t].at \in {"idle", "armed", "line"},
         ctx.at \in {"idle", "done", "line"},
         invites # 0, pc[Main].at \notin {"ring", "register"}, UNCHANGED <<invites, tables, callee, wire>>
  PROVE  ServedInv'
  <1> USE DEF ServedInv
  <1>1. UNCHANGED <<invites, current, terminated, finalStatus, registered, open, callee, cancelled, winner, late>>
    BY DEF tables, wire, history
  <1>2. \/ /\ pc[Main].at \in {"idle", "line"} /\ pc'[Main].at \in {"idle", "done", "line"}
           /\ pc'[Timer(1)] = pc[Timer(1)]
        \/ pc'[Main] = pc[Main] /\ pc'[Timer(1)].at \in {"idle", "done", "line"}
    BY AloneMoved
  <1>3. FirstRing'
    BY <1>1, <1>2 DEF FirstRing, Ringing
  <1>4. Served'
    <2>1. \A u \in Thread : pc'[u].at \in {"write", "cleanup"} => pc'[u] = pc[u]
      BY <1>2, Moved
    <2> QED
      BY <1>1, <2>1 DEF Served
  <1> QED
    BY <1>1, <1>3, <1>4 DEF Released

LEMMA ServedTake ==
  ASSUME OneCall, TypeOK, FailInv, ServedInv, ~GoneOrTerminated, NEW t \in Thread,
         NEW status, NEW hangup, TakeSession(t, status, hangup),
         pc[Main].at \notin {"ring", "register"}
  PROVE  ServedInv'
  <1> DEFINE ctx == [at |-> "write", sess |-> current, legs |-> legsOf[current],
                     target |-> NoLeg, code |-> status, hangup |-> hangup]
  <1>1. /\ Goto(t, ctx)
        /\ UNCHANGED <<invites, current, finalStatus, registered, open, callee, cancelled, winner, late>>
    BY DEF TakeSession, wire, history
  <1>2. current = 1 /\ invites # 0
    BY Alone DEF GoneOrTerminated, ServedInv, FirstRing
  <1>3. ctx.at = "write" /\ \A l \in legsOf[1] : callee[l] = "ringing" => l \in ctx.legs
    BY <1>2
  <1> HIDE DEF ctx
  <1> QED
    BY <1>1, <1>2, <1>3, ServedCopied

LEMMA ServedStep ==
  ASSUME OneCall
  PROVE  LegInv /\ IInv /\ FailInv /\ ServedInv /\ [Next]_vars => ServedInv'
  <1> SUFFICES ASSUME LegInv, IInv, FailInv, ServedInv, [Next]_vars PROVE ServedInv'
    OBVIOUS
  <1>1. TypeOK /\ Main \in Thread /\ Timer(1) \in Thread /\ Timer(1) # Main
    BY Alone, Threads DEF LegInv, TInv
  <1>2. Idle.at = "idle" /\ \A at : [Idle EXCEPT !.at = at].at = at
    BY DEF Idle
  <1>3. \A t \in Thread : Return(t) => \E ctx : Goto(t, ctx) /\ ctx.at \in {"idle", "done"}
    BY DEF Return, Idle
  <1>5. CASE InboundCancel
    <2>1. pc[Main].at = "idle" /\ invites # 0
      BY <1>1, <1>5, Alone DEF InboundCancel
    <2>2. CASE GoneOrTerminated
      <3> DEFINE ctx == [Idle EXCEPT !.at = "line"]
      <3>1. ctx.at = "line"
        BY <1>2
      <3>2. Goto(Main, ctx) /\ UNCHANGED <<invites, tables, callee, wire>>
        BY <1>5, <2>2 DEF InboundCancel
      <3> HIDE DEF ctx
      <3> QED
        BY <1>1, <2>1, <3>1, <3>2, ServedPassed
    <2>3. CASE ~GoneOrTerminated
      <3>1. TakeSession(Main, 487, TRUE)
        BY <1>5, <2>3 DEF InboundCancel
      <3> QED
        BY <1>1, <2>1, <2>3, <3>1, ServedTake
    <2> QED
      BY <2>2, <2>3
  <1>6. CASE InboundBye
    <2>1. pc[Main].at = "idle" /\ invites # 0
      BY <1>1, <1>6, Alone DEF InboundBye
    <2>2. CASE current \in Attempt
      <3> DEFINE ctx == [at |-> "write", sess |-> current, legs |-> legsOf[current],
                         target |-> NoLeg,
                         code |-> NoCode, hangup |-> TRUE]
      <3>1. current = 1 /\ winner[1] = NoLeg
        BY <1>1, <2>1, <2>2, Alone DEF ServedInv, FirstRing
      <3>2. /\ Goto(Main, ctx)
            /\ UNCHANGED <<invites, current, finalStatus, registered, open, callee, cancelled, winner, late>>
        BY <1>6, <2>2, <3>1 DEF InboundBye
      <3>3. ctx.at = "write" /\ \A l \in legsOf[1] : callee[l] = "ringing" => l \in ctx.legs
        BY <3>1
      <3> HIDE DEF ctx
      <3> QED
        BY <1>1, <2>1, <3>1, <3>2, <3>3, ServedCopied
    <2>3. CASE current \notin Attempt
      <3> DEFINE ctx == [Idle EXCEPT !.at = "line"]
      <3>1. ctx.at = "line"
        BY <1>2
      <3>2. Goto(Main, ctx) /\ UNCHANGED <<invites, tables, callee, wire>>
        BY <1>1, <1>6, <2>3, Alone DEF InboundBye, tables, wire, history, GoneOrTerminated
      <3> HIDE DEF ctx
      <3> QED
        BY <1>1, <2>1, <3>1, <3>2, ServedPassed
    <2> QED
      BY <2>2, <2>3
  <1>7. CASE CleanupLine
    <2>1. pc[Main].at = "line" /\ Return(Main) /\ UNCHANGED <<invites, tables, callee, wire>>
      BY <1>7 DEF CleanupLine
    <2>2. invites # 0
      BY <2>1 DEF ServedInv, FirstRing
    <2>3. PICK ctx : Goto(Main, ctx) /\ ctx.at \in {"idle", "done"}
      BY <1>1, <1>3, <2>1
    <2> QED
      BY <1>1, <2>1, <2>2, <2>3, ServedPassed
  <1>8. ASSUME NEW a \in Attempt, TimerFires(a) PROVE ServedInv'
    <2>1. a = 1 /\ pc[Timer(1)].at = "armed"
      BY <1>1, <1>8, Alone DEF TimerFires
    <2>2. invites # 0 /\ pc[Main].at \notin {"ring", "register"}
      BY <2>1 DEF ServedInv, FirstRing, Ringing
    <2>3. CASE ~GoneOrTerminated
      <3>1. TakeSession(Timer(1), 408, FALSE)
        BY <1>8, <2>1, <2>3 DEF TimerFires
      <3> QED
        BY <1>1, <2>2, <2>3, <3>1, ServedTake
    <2>4. CASE GoneOrTerminated
      <3>1. Return(Timer(1)) /\ UNCHANGED <<invites, tables, callee, wire>>
        BY <1>8, <2>1, <2>4 DEF TimerFires
      <3>2. PICK ctx : Goto(Timer(1), ctx) /\ ctx.at \in {"idle", "done"}
        BY <1>1, <1>3, <3>1
      <3> QED
        BY <1>1, <2>1, <2>2, <3>1, <3>2, ServedPassed
    <2> QED
      BY <2>3, <2>4
  <1>9. ASSUME NEW l \in Leg, CalleeResponds(l) PROVE ServedInv'
    <2>1. /\ callee[l] = "ringing" /\ callee'[l] \in {"accepted", "refused"}
          /\ \A k \in Leg : k # l => callee'[k] = callee[k]
          /\ UNCHANGED <<invites, current, terminated, finalStatus, registered, open, pc, cancelled, winner, late>>
      BY <1>1, <1>9 DEF CalleeResponds, tables, wire, history, TypeOK
    <2>2. \A k \in Leg : callee'[k] = "ringing" => callee[k] = "ringing"
      BY <2>1
    <2>3. FirstRing'
      <3>1. invites # 0
        BY <2>1 DEF ServedInv, FirstRing
      <3>2. pc[Main].at = "losers" =>
              pc[Main].target \in Leg /\ callee'[pc[Main].target] # "ringing"
        <4>1. \A k \in Leg : callee[k] # "ringing" => callee'[k] # "ringing"
          BY <2>2
        <4>2. pc'[Main] = pc[Main]
          BY <2>1
        <4> QED
          BY <4>1, <4>2 DEF ServedInv, FirstRing
      <3> QED
        BY <2>1, <3>1, <3>2 DEF ServedInv, FirstRing, Ringing
    <2>4. Served'
      BY <2>1, <2>2 DEF ServedInv, Served
    <2> QED
      BY <2>1, <2>3, <2>4 DEF ServedInv, Released
  <1>10. CASE UNCHANGED vars
    BY <1>10 DEF vars, tables, wire, history, ServedInv, FirstRing, Served, Released, Ringing
  <1>11. ASSUME NEW t \in Thread, NEW l \in Leg, HandleResponse(t, l) PROVE ServedInv'
    <2>1. t = Main
      BY <1>1, <1>11, Alone DEF HandleResponse
    <2> QED
      BY <1>11, <2>1, ServedRespond
  <1> QED
    BY <1>5, <1>6, <1>7, <1>8, <1>9, <1>10, <1>11, ServedRing, ServedTeardown DEF Next, RingLoop

LEMMA ServedHolds == OneCall => (Spec => [](TypeOK /\ FailInv /\ ServedInv))
  <1> SUFFICES ASSUME OneCall PROVE Spec => [](TypeOK /\ FailInv /\ ServedInv)
    OBVIOUS
  <1>1. Init => LegInv /\ IInv /\ FailInv /\ ServedInv
    BY LegInit, DecisionInit, FailInit, ServedInit
  <1>2. LegInv /\ IInv /\ FailInv /\ ServedInv /\ [Next]_vars => LegInv' /\ IInv' /\ FailInv' /\ ServedInv'
    BY LegStep, DecisionStep, FailStep, ServedStep DEF IInv, OneCall
  <1>3. LegInv => TypeOK
    BY DEF LegInv, TInv
  <1> QED
    BY <1>1, <1>2, <1>3, PTL DEF Spec

\* One INVITE to UDP endpoints, any number of them: when its handling is over, no
\* endpoint is left ringing that was not sent a CANCEL, whoever decided
\* (cancelLosers, enforceRingTimeout, handleInboundCancel, handleInboundBye).
THEOREM NoLegForgottenHolds == OneCall => (Spec => []NoLegForgotten)
  <1> SUFFICES ASSUME OneCall PROVE Spec => []NoLegForgotten
    OBVIOUS
  <1>1. TypeOK /\ FailInv /\ ServedInv => NoLegForgotten
    BY Alone DEF NoLegForgotten, Quiet, ServedInv, Served
  <1> QED
    BY <1>1, ServedHolds, PTL

\* In the same case the ring loop registers no leg of a session that has left the
\* table, so that NoLegLeak has no exception.
THEOREM NothingLateHolds == OneCall => (Spec => [](late = {}))
  <1> SUFFICES ASSUME OneCall PROVE Spec => [](late = {})
    OBVIOUS
  <1>1. TypeOK /\ FailInv /\ ServedInv => late = {}
    BY DEF ServedInv, Released
  <1> QED
    BY <1>1, ServedHolds, PTL

-----------------------------------------------------------------------------
(* NoLegLeak, for any ring and any number of INVITEs.  cleanupSession may    *)
(* remove the session of another INVITE than its handler's, so what counts   *)
(* is where each indexed leg and open connection is accounted for.           *)

\* Each leg in the index or connected belongs to the session in the table, or is
\* the one the ring loop is about to register, or came late.
Accounted == \A l \in registered \cup open :
  \/ l \in late
  \/ current = l.a /\ l \in legsOf[l.a]
  \/ pc[Main].at = "register" /\ pc[Main].target = l

\* What a handler does to the legs that are accounted for.
LEMMA AccountedKept ==
  ASSUME Accounted, UNCHANGED <<legsOf, late>>, registered' \subseteq registered, open' \subseteq open,
         \A l \in registered' \cup open' : current' = current \/ current # l.a \/ l \notin legsOf[l.a],
         pc[Main].at = "register" => pc'[Main] = pc[Main]
  PROVE  Accounted'
  BY DEF Accounted

LEMMA AccountedStep == LegInv /\ Accounted /\ [Next]_vars => Accounted'
  <1> SUFFICES ASSUME LegInv, Accounted, [Next]_vars PROVE Accounted'
    OBVIOUS
  <1>1. TypeOK /\ Main \in Thread /\ pc[Main] \in Ctx /\ RegistersALeg /\ Main.kind # "timer"
    BY Threads DEF LegInv, TInv, TypeOK, Main
  <1>2. \A a \in Attempt : Timer(a) \in Thread /\ Timer(a) # Main
    BY Threads
  <1>3. CASE Invite
    <2>1. current = 0 /\ pc[Main].at = "idle" /\ UNCHANGED <<registered, open, late>>
      BY <1>3 DEF Invite, wire, history
    <2>2. \A l \in registered \cup open : l \in late
      BY <1>1, <2>1, LegParts, Numbers DEF Accounted, TypeOK
    <2> QED
      BY <2>1, <2>2 DEF Accounted
  <1>4. ASSUME NEW l \in Leg, EmitInvite(l) PROVE Accounted'
    <2> DEFINE ctx == [pc[Main] EXCEPT !.at = "register", !.legs = @ \ {l}, !.target = l]
    <2>1. /\ pc[Main].at = "ring" /\ registered' = registered /\ open' \subseteq open \cup {l}
          /\ UNCHANGED <<current, legsOf, late>>
      BY <1>4 DEF EmitInvite, wire, history
    <2>2. pc'[Main] = ctx
      BY <1>1, <1>4, Moved DEF EmitInvite
    <2>3. ctx.at = "register" /\ ctx.target = l
      BY <1>1 DEF Ctx
    <2> HIDE DEF ctx
    <2> QED
      BY <2>1, <2>2, <2>3 DEF Accounted
  <1>5. ASSUME NEW l \in Leg, EmitFails(l) PROVE Accounted'
    BY <1>5, AccountedKept DEF EmitFails, tables, wire, history
  <1>6. CASE RegisterLeg
    <2> DEFINE l == pc[Main].target
    <2>1. /\ pc[Main].at = "register"
          /\ legsOf' = [legsOf EXCEPT ![pc[Main].sess] = @ \cup {l}]
          /\ registered' = registered \cup {l} /\ UNCHANGED <<current, open>>
          /\ late' = IF current = pc[Main].sess THEN late ELSE late \cup {l}
      BY <1>6 DEF RegisterLeg
    <2>2. l \in Leg /\ l.a = pc[Main].sess /\ pc[Main].sess \in Attempt
      BY <1>1, <2>1 DEF RegistersALeg, LegInv, RungInTurn, Ringing
    <2>3. \A a \in Attempt : legsOf[a] \subseteq legsOf'[a]
      BY <1>1, <2>1 DEF TypeOK
    <2>4. l \in legsOf'[l.a]
      BY <1>1, <2>1, <2>2 DEF TypeOK
    <2> HIDE DEF l
    <2> SUFFICES ASSUME NEW k \in registered' \cup open', k \notin late'
                 PROVE  current' = k.a /\ k \in legsOf'[k.a]
      BY DEF Accounted
    <2>5. CASE k = l
      BY <2>1, <2>2, <2>4, <2>5
    <2>6. CASE k # l
      <3>1. k \in registered \cup open /\ k \notin late /\ k.a \in Attempt
        BY <1>1, <2>1, <2>6, LegParts DEF TypeOK
      <3>2. current = k.a /\ k \in legsOf[k.a]
        BY <2>6, <3>1 DEF Accounted, l
      <3> QED
        BY <2>1, <2>3, <3>1, <3>2
    <2> QED
      BY <2>5, <2>6
  <1>7. ASSUME NEW t \in Thread, CleanupSession(t) PROVE Accounted'
    <2>1. /\ pc[t].at = "cleanup" /\ UNCHANGED <<legsOf, late>>
          /\ registered' \subseteq registered /\ open' \subseteq open
      BY <1>7 DEF CleanupSession, wire, history
    <2>2. \A l \in registered' \cup open' : current' = current \/ current # l.a \/ l \notin legsOf[l.a]
      BY <1>7 DEF CleanupSession
    <2>3. \E ctx : Goto(t, ctx)
      BY <1>7 DEF CleanupSession, Return
    <2>4. pc[Main].at = "register" => pc'[Main] = pc[Main]
      BY <1>1, <2>1, <2>3, Moved
    <2> QED
      BY <2>1, <2>2, <2>4, AccountedKept
  <1>8. ASSUME NEW t \in Thread, CancelLosers(t) \/ WriteRequests(t) PROVE Accounted'
    <2>1. /\ pc[t].at # "register" /\ UNCHANGED <<legsOf, late, registered, open, current>>
          /\ \E ctx : Goto(t, ctx)
      BY <1>8 DEF CancelLosers, WriteRequests, tables, wire, history
    <2>2. pc[Main].at = "register" => pc'[Main] = pc[Main]
      BY <1>1, <2>1, Moved
    <2> QED
      BY <2>1, <2>2, AccountedKept
  <1>9. ASSUME NEW t \in Thread, NEW l \in Leg, HandleResponse(t, l) PROVE Accounted'
    <2>1. /\ pc[t].at = "idle" /\ UNCHANGED <<legsOf, late, registered, open, current>>
          /\ UNCHANGED pc \/ \E ctx : Goto(t, ctx)
      BY <1>9 DEF HandleResponse, history
    <2>2. pc[Main].at = "register" => pc'[Main] = pc[Main]
      BY <1>1, <2>1, Moved
    <2> QED
      BY <2>1, <2>2, AccountedKept
  <1>10. CASE RingingDone \/ InboundCancel \/ InboundBye \/ CleanupLine
    <2>1. pc[Main].at # "register" /\ UNCHANGED <<legsOf, late, registered, open, current>>
      BY <1>10 DEF RingingDone, InboundCancel, InboundBye, CleanupLine, TakeSession, tables, wire, history
    <2> QED
      BY <2>1, AccountedKept
  <1>11. ASSUME NEW a \in Attempt, TimerFires(a) PROVE Accounted'
    <2>1. UNCHANGED <<legsOf, late, registered, open, current>> /\ \E ctx : Goto(Timer(a), ctx)
      BY <1>11 DEF TimerFires, TakeSession, Return, tables, wire, history
    <2>2. pc'[Main] = pc[Main]
      BY <1>1, <1>2, <2>1, Moved
    <2> QED
      BY <2>1, <2>2, AccountedKept
  <1>12. ASSUME NEW l \in Leg, CalleeResponds(l) PROVE Accounted'
    BY <1>12, AccountedKept DEF CalleeResponds, tables, wire, history
  <1>13. CASE UNCHANGED vars
    BY <1>13, AccountedKept DEF vars, tables, wire, history
  <1> QED
    BY <1>3, <1>4, <1>5, <1>6, <1>7, <1>8, <1>9, <1>10, <1>11, <1>12, <1>13
    DEF Next, RingLoop, Teardown

\* Whatever the ring, the transports and the number of INVITEs: when the handling
\* of an INVITE is over, legsByCallID holds none of its legs and none of its TLS
\* connections is open (cleanupSession), but for legs that were registered when
\* their session was gone (server.go:1355).
THEOREM NoLegLeakHolds == Spec => []NoLegLeak
  <1>1. Init => Accounted
    BY DEF Init, Accounted
  <1>2. LegInv /\ Accounted => NoLegLeak
    <2> SUFFICES ASSUME LegInv, Accounted, NEW l \in Leg, Quiet(l.a), l \notin late, l \in registered \cup open
                 PROVE  FALSE
      BY DEF NoLegLeak
    <2>1. pc[Main].at = "register" /\ pc[Main].target = l
      BY DEF Accounted, Quiet
    <2>2. pc[Main].sess = l.a
      BY <2>1 DEF LegInv, RungInTurn, Ringing
    <2> QED
      BY <2>2, Threads DEF Quiet
  <1> QED
    BY LegInit, LegStep, AccountedStep, <1>1, <1>2, PTL DEF Spec

-----------------------------------------------------------------------------
(***************************************************************************)
(* The refinement: every step of the read loop, the TLS readers and the    *)
(* ring timers is a step of AnswerOnce or none, for any ring list, any mix *)
(* of transports and any number of repeated INVITEs.                       *)
(***************************************************************************)

\* What is still ahead was not touched, and a winner marks its session.
History ==
  /\ current <= invites
  /\ \A a \in Attempt : a > invites => winner[a] = NoLeg /\ ~terminated[a]
  /\ \A a \in Attempt : winner[a] # NoLeg => terminated[a]
  /\ \A l \in Leg : l.a > invites => callee[l] = "unrung"

\* The ring loop invites endpoints it has not invited yet.
RingsOnce == pc[Main].at \in {"ring", "register"} =>
  \A l \in pc[Main].legs : callee[l] = "unrung" /\ l.a <= invites

\* The inductive invariant behind the refinement.
RInv == IInv /\ History /\ RingsOnce

\* The abstract state beside Phase and winner.
Told == [a \in Attempt |-> finals[a][200]]
Accepted == {l \in Leg : callee[l] = "accepted"}

\* The step opens no session and answers nobody with 200: at most it marks the
\* session of now or takes it out of the table.
Silent ==
  /\ UNCHANGED <<invites, winner, callee>>
  /\ current' \in {current, 0}
  /\ \/ terminated' = terminated
     \/ current \in Attempt /\ terminated' = [terminated EXCEPT ![current] = TRUE]
  /\ \A a \in Attempt : finals'[a][200] = finals[a][200]

\* The ring loop has no new endpoint to invite after the step.
RingsNoMore == pc'[Main].at \in {"ring", "register"} =>
  pc[Main].at \in {"ring", "register"} /\ pc'[Main].legs \subseteq pc[Main].legs

-----------------------------------------------------------------------------

\* A handler that does not go to the ring loop leaves it nothing new.
LEMMA GotoRingsNoMore ==
  ASSUME TInv, NEW t \in Thread, NEW ctx, Goto(t, ctx), ctx.at \notin {"ring", "register"}
  PROVE  RingsNoMore
  BY Threads DEF TInv, TypeOK, Goto, RingsNoMore

\* The same for a handler that returns.
LEMMA ReturnRingsNoMore ==
  ASSUME TInv, NEW t \in Thread, Return(t)
  PROVE  RingsNoMore
  <1> DEFINE ctx == [Idle EXCEPT !.at = IF t.kind = "timer" THEN "done" ELSE "idle"]
  <1>1. ctx.at \notin {"ring", "register"}
    BY DEF Idle
  <1> QED
    BY <1>1, GotoRingsNoMore DEF Return

\* The phases of the abstract state, one session at a time.
LEMMA PhaseOf ==
  ASSUME NEW a \in Attempt
  PROVE  Phase[a] = IF a > invites THEN "unused"
                    ELSE IF winner[a] # NoLeg THEN "answered"
                    ELSE IF terminated[a] \/ current # a THEN "closed" ELSE "pending"
  BY DEF Phase

\* A silent step keeps the history; abstractly it closes the session of now, if that
\* is pending and the step decides it, and is a stutter otherwise.
LEMMA SilentStep ==
  ASSUME RInv, Silent
  PROVE  History' /\ [Abs!Next]_(Abs!vars)
  <1>1. TypeOK /\ History
    BY DEF RInv, IInv, TInv
  <1>2. History'
    <2>1. current' <= invites'
      BY <1>1 DEF Silent, History, TypeOK
    <2>2. ASSUME NEW a \in Attempt, a > invites'
          PROVE  winner'[a] = NoLeg /\ ~terminated'[a]
      <3>1. a > invites /\ a # current
        BY <1>1, <2>2 DEF Silent, History, TypeOK, Attempt
      <3>2. terminated'[a] <=> terminated[a]
        BY <1>1, <3>1 DEF Silent, TypeOK
      <3> QED
        BY <1>1, <3>1, <3>2 DEF Silent, History
    <2>3. \A a \in Attempt : winner'[a] # NoLeg => terminated'[a]
      BY <1>1 DEF Silent, History, TypeOK
    <2>4. \A l \in Leg : l.a > invites' => callee'[l] = "unrung"
      BY <1>1 DEF Silent, History
    <2> QED
      BY <2>1, <2>2, <2>3, <2>4 DEF History
  <1>3. winner' = winner /\ Told' = Told /\ Accepted' = Accepted
    BY DEF Silent, Told, Accepted
  <1>4. ASSUME current' = current, terminated' = terminated
        PROVE  UNCHANGED Abs!vars
    <2>1. Phase' = Phase
      BY <1>4 DEF Silent, Phase
    <2> QED
      BY <2>1, <1>3 DEF Abs!vars, Told, Accepted
  <1>5. ASSUME current \notin Attempt \/ terminated[current]
        PROVE  UNCHANGED Abs!vars
    <2>1. \A a \in Attempt : terminated'[a] <=> terminated[a]
      BY <1>1, <1>5 DEF Silent, TypeOK
    <2>2. \A a \in Attempt :
            terminated'[a] \/ current' # a <=> terminated[a] \/ current # a
      BY <1>1, <1>5, <2>1 DEF Silent, TypeOK, Attempt
    <2>3. Phase' = Phase
      BY <2>2 DEF Silent, Phase
    <2> QED
      BY <2>3, <1>3 DEF Abs!vars, Told, Accepted
  <1>6. ASSUME current \in Attempt, ~terminated[current],
               ~(current' = current /\ terminated' = terminated)
        PROVE  Abs!Next
    <2>1. winner[current] = NoLeg /\ current <= invites
      BY <1>1, <1>6 DEF History
    <2>2. Phase[current] = "pending"
      BY <1>1, <1>6, <2>1, PhaseOf DEF TypeOK, Attempt
    <2>3. terminated'[current] \/ current' # current
      BY <1>1, <1>6 DEF Silent, TypeOK
    <2>4. Phase' = [Phase EXCEPT ![current] = "closed"]
      <3>1. \A a \in Attempt : a # current =>
              (terminated'[a] \/ current' # a) /\ (terminated[a] \/ current # a)
        BY <1>1, <1>6 DEF Silent, TypeOK, Attempt
      <3>2. ASSUME NEW a \in Attempt, a # current
            PROVE  Phase'[a] = Phase[a]
        BY <3>1, <3>2 DEF Silent, Phase
      <3>3. Phase'[current] = "closed"
        BY <1>1, <1>6, <2>1, <2>3 DEF Silent, Phase, TypeOK, Attempt
      <3> QED
        BY <1>6, <3>2, <3>3 DEF Phase
    <2>5. Abs!Close(current)
      BY <1>3, <2>2, <2>4 DEF Abs!Close, Told, Accepted
    <2> QED
      BY <1>6, <2>5 DEF Abs!Next
  <1> QED
    BY <1>2, <1>4, <1>5, <1>6

\* A step that is silent and leaves the ring loop nothing new is a step of the
\* refinement.
LEMMA SilentRefines ==
  ASSUME RInv, Silent, RingsNoMore
  PROVE  History' /\ RingsOnce' /\ [Abs!Next]_(Abs!vars)
  <1>1. RingsOnce'
    BY DEF RInv, RingsOnce, Silent, RingsNoMore
  <1> QED
    BY <1>1, SilentStep

-----------------------------------------------------------------------------

\* The caller's INVITE opens the next session.
LEMMA InviteRefines ==
  ASSUME RInv, Invite
  PROVE  History' /\ RingsOnce' /\ [Abs!Next]_(Abs!vars)
  <1> DEFINE n == invites + 1
  <1>1. TypeOK /\ History
    BY DEF RInv, IInv, TInv
  <1>2. n \in Attempt /\ n > invites /\ n \in Nat /\ invites \in Nat
    BY <1>1, FanoutAssumption DEF Invite, TypeOK, Attempt
  <1>3. /\ invites' = n /\ current = 0 /\ current' = n
        /\ winner' = winner /\ terminated' = terminated
        /\ callee' = callee /\ finals' = finals
    BY DEF Invite, wire, history
  <1>4. History'
    BY <1>1, <1>2, <1>3 DEF History, Attempt, Leg
  <1>5. RingsOnce'
    <2>1. pc'[Main].legs = [a : {n}, e : Ring]
      BY <1>1, Threads DEF Invite, Goto, TypeOK, Idle
    <2>2. \A l \in [a : {n}, e : Ring] : l \in Leg /\ l.a = n
      BY <1>2 DEF Leg
    <2> QED
      BY <1>1, <1>2, <1>3, <2>1, <2>2 DEF History, RingsOnce
  <1>6. Abs!Open(n)
    <2>1. Phase[n] = "unused"
      BY <1>2, PhaseOf
    <2>2. \A a \in Attempt : a # n => Phase'[a] = Phase[a]
      BY <1>1, <1>2, <1>3 DEF Phase, Attempt
    <2>3. Phase'[n] = "pending"
      BY <1>1, <1>2, <1>3 DEF Phase, History
    <2>4. Phase' = [Phase EXCEPT ![n] = "pending"]
      BY <1>2, <2>2, <2>3 DEF Phase
    <2> QED
      BY <1>3, <2>1, <2>4 DEF Abs!Open
  <1> QED
    BY <1>2, <1>4, <1>5, <1>6 DEF Abs!Next

\* Inviting an endpoint is abstractly nothing: the endpoint had not been invited.
LEMMA EmitRefines ==
  ASSUME RInv, NEW l \in Leg, EmitInvite(l)
  PROVE  History' /\ RingsOnce' /\ [Abs!Next]_(Abs!vars)
  <1>1. TypeOK /\ History /\ RingsOnce
    BY DEF RInv, IInv, TInv
  <1>2. l \in pc[Main].legs /\ callee[l] = "unrung" /\ l.a <= invites
    BY <1>1 DEF EmitInvite, RingsOnce
  <1>3. /\ UNCHANGED <<invites, current, winner, terminated, finals>>
        /\ callee' = [callee EXCEPT ![l] = "ringing"]
    BY DEF EmitInvite, wire, history
  <1>4. \A m \in Leg : m # l => callee'[m] = callee[m]
    BY <1>1, <1>3 DEF TypeOK
  <1>5. History'
    BY <1>1, <1>2, <1>3, <1>4 DEF History, TypeOK, Attempt, Leg
  <1>6. RingsOnce'
    <2>1. pc'[Main].legs = pc[Main].legs \ {l}
      BY <1>1, Threads DEF EmitInvite, Goto, TypeOK, Ctx
    <2>2. pc[Main].legs \subseteq Leg
      BY <1>1, Threads DEF TypeOK, Ctx
    <2> QED
      BY <1>1, <1>3, <1>4, <2>1, <2>2 DEF EmitInvite, RingsOnce
  <1>7. Accepted' = Accepted
    BY <1>1, <1>2, <1>3, <1>4 DEF Accepted, TypeOK
  <1>8. Phase' = Phase /\ winner' = winner /\ Told' = Told
    BY <1>3 DEF Phase, Told
  <1> QED
    BY <1>5, <1>6, <1>7, <1>8 DEF Abs!vars, Told, Accepted

\* An endpoint's answer is the abstract Accept, or nothing when it refuses.
LEMMA RespondsRefines ==
  ASSUME RInv, NEW l \in Leg, CalleeResponds(l)
  PROVE  History' /\ RingsOnce' /\ [Abs!Next]_(Abs!vars)
  <1>1. TypeOK /\ History /\ RingsOnce
    BY DEF RInv, IInv, TInv
  <1>2. PICK r \in {"accepted", "refused"} : callee' = [callee EXCEPT ![l] = r]
    BY DEF CalleeResponds
  <1>3. /\ callee[l] = "ringing"
        /\ UNCHANGED <<invites, current, winner, terminated, pc, finals>>
    BY DEF CalleeResponds, tables, wire, history
  <1>4. callee'[l] = r /\ \A m \in Leg : m # l => callee'[m] = callee[m]
    BY <1>1, <1>2 DEF TypeOK
  <1>5. History'
    BY <1>1, <1>3, <1>4 DEF History, TypeOK
  <1>6. RingsOnce'
    <2>1. pc[Main].legs \subseteq Leg
      BY <1>1, Threads DEF TypeOK, Ctx
    <2> QED
      BY <1>1, <1>3, <1>4, <2>1 DEF RingsOnce
  <1>7. Phase' = Phase /\ winner' = winner /\ Told' = Told
    BY <1>3 DEF Phase, Told
  <1>8. CASE r = "accepted"
    <2>1. Accepted' = Accepted \cup {l}
      BY <1>4, <1>8 DEF Accepted
    <2>2. Abs!Accept(l)
      BY <1>7, <2>1 DEF Abs!Accept, Told, Accepted
    <2> QED
      BY <1>5, <1>6, <2>2 DEF Abs!Next
  <1>9. CASE r = "refused"
    <2>1. Accepted' = Accepted
      BY <1>3, <1>4, <1>9 DEF Accepted
    <2> QED
      BY <1>5, <1>6, <1>7, <2>1 DEF Abs!vars, Told, Accepted
  <1> QED
    BY <1>8, <1>9

\* Counting a status other than 200 tells the caller no 200.
LEMMA AnswersOther ==
  ASSUME TypeOK, NEW b, NEW code \in {408, 480, 487}, Answer(b, code)
  PROVE  \A a \in Attempt : finals'[a][200] = finals[a][200]
  BY DEF Answer, TypeOK, Codes

\* The winning answer is the abstract Choose; the failing ones are silent.
LEMMA ResponseRefines ==
  ASSUME RInv, NEW t \in Thread, NEW l \in Leg, HandleResponse(t, l)
  PROVE  History' /\ RingsOnce' /\ [Abs!Next]_(Abs!vars)
  <1> DEFINE b == current
             status == [finalStatus EXCEPT ![l] = IF Success(l) THEN "ok" ELSE "fail"]
             wins == Success(l) /\ winner[b] = NoLeg
  <1>1. TypeOK /\ History /\ RingsOnce /\ TInv
    BY DEF RInv, IInv, TInv
  <1>2. /\ b \in Attempt /\ ~terminated[b]
        /\ UNCHANGED <<invites, current, callee>>
    BY <1>1 DEF HandleResponse, GoneOrTerminated, TypeOK, Attempt
  <1>3. CASE wins
    <2>1. /\ winner' = [winner EXCEPT ![b] = l]
          /\ terminated' = [terminated EXCEPT ![b] = TRUE]
          /\ Answer(b, 200)
          /\ Goto(t, [Idle EXCEPT !.at = "losers", !.sess = b, !.target = l])
      BY <1>3 DEF HandleResponse
    <2>2. l # NoLeg /\ b <= invites /\ b \in Nat /\ invites \in Nat
      BY <1>1, <1>2, FanoutAssumption DEF History, TypeOK, Attempt
    <2>3. /\ winner'[b] = l /\ terminated'[b]
          /\ \A a \in Attempt : a # b =>
               winner'[a] = winner[a] /\ (terminated'[a] <=> terminated[a])
      BY <1>1, <1>2, <2>1 DEF TypeOK
    <2>4. History'
      <3>1. \A a \in Attempt : a > invites => a # b
        BY <2>2
      <3> QED
        BY <1>1, <1>2, <2>3, <3>1 DEF History
    <2>5. RingsOnce'
      <3>1. RingsNoMore
        BY <1>1, <2>1, GotoRingsNoMore DEF Idle
      <3> QED
        BY <1>1, <1>2, <3>1 DEF RingsOnce, RingsNoMore
    <2>6. Abs!Choose(b, l)
      <3>1. Phase[b] = "pending"
        BY <1>2, <1>3, <2>2, PhaseOf
      <3>2. l \in Accepted
        BY <1>3 DEF Success, Accepted
      <3>3. Phase' = [Phase EXCEPT ![b] = "answered"]
        <4>1. ASSUME NEW a \in Attempt, a # b
              PROVE  Phase'[a] = Phase[a]
          BY <1>2, <2>3, <4>1 DEF Phase
        <4>2. Phase'[b] = "answered"
          BY <1>2, <2>2, <2>3 DEF Phase
        <4> QED
          BY <1>2, <4>1, <4>2 DEF Phase
      <3>4. Told' = [Told EXCEPT ![b] = 1]
        <4>1. finals[b][200] = 0
          BY <1>2, DecidedInNat, <1>1 DEF RInv, IInv, OwnedOnce, Decided, TypeOK, Codes
        <4>2. finals'[b][200] = finals[b][200] + 1
          BY <1>1, <1>2, <2>1 DEF Answer, TypeOK, Codes
        <4>3. \A a \in Attempt : a # b => finals'[a] = finals[a]
          BY <1>1, <2>1 DEF Answer, TypeOK
        <4>4. Told'[b] = 1 /\ \A a \in Attempt : a # b => Told'[a] = Told[a]
          BY <1>2, <4>1, <4>2, <4>3 DEF Told
        <4> QED
          BY <1>2, <4>4 DEF Told
      <3>5. Accepted' = Accepted
        BY <1>2 DEF Accepted
      <3> QED
        BY <2>1, <3>1, <3>2, <3>3, <3>4, <3>5 DEF Abs!Choose, Told, Accepted
    <2> QED
      BY <1>2, <2>4, <2>5, <2>6 DEF Abs!Next
  <1>4. CASE ~wins
    <2>1. UNCHANGED <<winner, terminated>>
      BY <1>4 DEF HandleResponse
    <2>2. CASE AllFinal(b, status)
      <3>1. Answer(b, 480) /\ Goto(t, [Idle EXCEPT !.at = "cleanup", !.sess = b])
        BY <1>4, <2>2 DEF HandleResponse
      <3>2. Silent
        BY <1>1, <1>2, <2>1, <3>1, AnswersOther DEF Silent
      <3>3. RingsNoMore
        BY <1>1, <3>1, GotoRingsNoMore DEF Idle
      <3> QED
        BY <3>2, <3>3, SilentRefines
    <2>3. CASE ~AllFinal(b, status)
      <3>1. UNCHANGED <<pc, finals>>
        BY <1>4, <2>3 DEF HandleResponse
      <3>2. Silent /\ RingsNoMore
        BY <1>2, <2>1, <3>1 DEF Silent, RingsNoMore
      <3> QED
        BY <3>2, SilentRefines
    <2> QED
      BY <2>2, <2>3
  <1> QED
    BY <1>3, <1>4

\* Every other step of the ring loop is silent.
LEMMA RingLoopRefines ==
  ASSUME RInv, (\E l \in Leg : EmitFails(l)) \/ RegisterLeg \/ RingingDone
  PROVE  History' /\ RingsOnce' /\ [Abs!Next]_(Abs!vars)
  <1>1. pc \in [Thread -> Ctx] /\ TInv
    BY DEF RInv, IInv, TInv, TypeOK
  <1>2. Silent
    BY DEF EmitFails, RegisterLeg, RingingDone, Silent, tables, wire, history
  <1>3. CASE \E l \in Leg : EmitFails(l)
    BY <1>1, <1>2, <1>3, Threads, SilentRefines DEF EmitFails, Goto, Ctx, RingsNoMore
  <1>4. CASE RegisterLeg
    BY <1>1, <1>2, <1>4, Threads, SilentRefines DEF RegisterLeg, Goto, Ctx, RingsNoMore
  <1>5. CASE RingingDone
    <2>1. pc'[Main] = Idle \/ pc'[Main].at = "armed"
      BY <1>1, <1>5, Threads DEF RingingDone, Idle
    <2>2. RingsNoMore
      BY <2>1, IdleCtx DEF RingsNoMore
    <2> QED
      BY <1>2, <2>2, SilentRefines
  <1> QED
    BY <1>3, <1>4, <1>5

\* Taking the session is silent: the session of now is marked.
LEMMA TakeRefines ==
  ASSUME RInv, ~GoneOrTerminated, NEW t \in Thread, NEW status, NEW hangup,
         TakeSession(t, status, hangup)
  PROVE  History' /\ RingsOnce' /\ [Abs!Next]_(Abs!vars)
  <1>1. TInv /\ current \in Attempt
    BY DEF RInv, IInv, TInv, TypeOK, GoneOrTerminated, Attempt
  <1>2. Silent
    BY <1>1 DEF TakeSession, Silent, wire, history
  <1>3. RingsNoMore
    BY <1>1, GotoRingsNoMore DEF TakeSession
  <1> QED
    BY <1>2, <1>3, SilentRefines

\* What follows an unlock is silent: the 408 and the 487 are no 200.
LEMMA TeardownRefines ==
  ASSUME RInv, NEW t \in Thread, Teardown(t)
  PROVE  History' /\ RingsOnce' /\ [Abs!Next]_(Abs!vars)
  <1>1. TInv /\ TypeOK /\ pc[t] \in Ctx
    BY DEF RInv, IInv, TInv, TypeOK
  <1>2. CASE CancelLosers(t)
    <2>1. Silent
      BY <1>2 DEF CancelLosers, Silent, tables, wire, history
    <2>2. RingsNoMore
      BY <1>1, <1>2, GotoRingsNoMore DEF CancelLosers, Ctx
    <2> QED
      BY <2>1, <2>2, SilentRefines
  <1>3. CASE WriteRequests(t)
    <2>1. \A a \in Attempt : finals'[a][200] = finals[a][200]
      <3>1. CASE pc[t].code = NoCode
        BY <1>3, <3>1 DEF WriteRequests
      <3>2. CASE pc[t].code # NoCode
        <4>1. pc[t].code \in {408, 480, 487}
          BY <3>2 DEF RInv, IInv, OwesWhileWriting
        <4> QED
          BY <1>1, <1>3, <3>2, <4>1, AnswersOther DEF WriteRequests
      <3> QED
        BY <3>1, <3>2
    <2>2. Silent
      BY <1>3, <2>1 DEF WriteRequests, Silent, tables
    <2>3. RingsNoMore
      BY <1>1, <1>3, GotoRingsNoMore DEF WriteRequests, Ctx
    <2> QED
      BY <2>2, <2>3, SilentRefines
  <1>4. CASE CleanupSession(t)
    <2>1. Silent
      BY <1>4 DEF CleanupSession, Silent, wire, history
    <2>2. RingsNoMore
      BY <1>1, <1>4, GotoRingsNoMore, ReturnRingsNoMore DEF CleanupSession, Idle
    <2> QED
      BY <2>1, <2>2, SilentRefines
  <1> QED
    BY <1>2, <1>3, <1>4 DEF Teardown

\* The other handlers mark the session of now or do nothing.
LEMMA HandlersRefine ==
  ASSUME RInv, InboundCancel \/ InboundBye \/ CleanupLine
                 \/ \E a \in Attempt : TimerFires(a)
  PROVE  History' /\ RingsOnce' /\ [Abs!Next]_(Abs!vars)
  <1>1. TInv /\ Main \in Thread /\ \A a \in Attempt : Timer(a) \in Thread
    BY Threads DEF RInv, IInv
  <1>2. CASE InboundCancel
    <2>1. CASE GoneOrTerminated
      <3>1. Silent /\ Goto(Main, [Idle EXCEPT !.at = "line"])
        BY <1>2, <2>1 DEF InboundCancel, Silent, tables, wire, history
      <3>2. RingsNoMore
        BY <1>1, <3>1, GotoRingsNoMore DEF Idle
      <3> QED
        BY <3>1, <3>2, SilentRefines
    <2>2. CASE ~GoneOrTerminated
      <3>1. \E hangup : TakeSession(Main, 487, hangup)
        BY <1>2, <2>2, Zenon DEF InboundCancel
      <3> QED
        BY <1>1, <2>2, <3>1, TakeRefines
    <2> QED
      BY <2>1, <2>2
  <1>3. CASE InboundBye
    <2>1. Silent
      BY <1>3 DEF InboundBye, Silent, wire, history
    <2>2. PICK ctx : Goto(Main, ctx) /\ ctx.at \in {"write", "line"}
      BY <1>3 DEF InboundBye, Idle
    <2> QED
      BY <1>1, <2>1, <2>2, GotoRingsNoMore, SilentRefines
  <1>4. CASE CleanupLine
    <2>1. Silent
      BY <1>4 DEF CleanupLine, Silent, tables, wire, history
    <2> QED
      BY <1>1, <1>4, <2>1, ReturnRingsNoMore, SilentRefines DEF CleanupLine
  <1>5. ASSUME NEW a \in Attempt, TimerFires(a)
        PROVE  History' /\ RingsOnce' /\ [Abs!Next]_(Abs!vars)
    <2>1. CASE GoneOrTerminated
      <3>1. Silent /\ Return(Timer(a))
        BY <1>5, <2>1 DEF TimerFires, Silent, TakeSession, tables, wire, history
      <3> QED
        BY <1>1, <3>1, ReturnRingsNoMore, SilentRefines
    <2>2. CASE ~GoneOrTerminated
      <3>1. \E hangup : TakeSession(Timer(a), 408, hangup)
        BY <1>5, <2>2, Zenon DEF TimerFires
      <3> QED
        BY <1>1, <2>2, <3>1, TakeRefines
    <2> QED
      BY <2>1, <2>2
  <1> QED
    BY <1>2, <1>3, <1>4, <1>5

-----------------------------------------------------------------------------

\* Every step is a step of AnswerOnce or a stutter.
LEMMA RefinementStep == RInv /\ [Next]_vars => RInv' /\ [Abs!Next]_(Abs!vars)
  <1> SUFFICES ASSUME RInv, [Next]_vars
               PROVE  History' /\ RingsOnce' /\ [Abs!Next]_(Abs!vars)
    BY DecisionStep DEF RInv
  <1>1. CASE UNCHANGED vars
    <2>1. Silent /\ RingsNoMore
      BY <1>1 DEF vars, tables, wire, history, Silent, RingsNoMore
    <2> QED
      BY <2>1, SilentRefines
  <1> QED
    BY <1>1, InviteRefines, EmitRefines, RingLoopRefines, HandlersRefine, TeardownRefines,
       ResponseRefines, RespondsRefines DEF Next, RingLoop

\* The fanout implements AnswerOnce: each accepted INVITE is decided once, and a 200
\* goes to the caller in the same step in which an endpoint that accepted is chosen.
THEOREM Refinement == Spec => AnswersOnce
  <1>1. Init => RInv
    <2>1. Init => History /\ RingsOnce
      BY IdleCtx, Threads, FanoutAssumption
      DEF Init, History, RingsOnce, Attempt, Leg, Main
    <2> QED
      BY <2>1, DecisionInit DEF RInv
  <1>2. Init => Abs!Init
    <2> SUFFICES ASSUME Init
                 PROVE  Abs!Init
      OBVIOUS
    <2>1. Phase = [a \in Attempt |-> "unused"]
      BY FanoutAssumption DEF Init, Phase, Attempt
    <2>2. Told = [a \in Attempt |-> 0]
      BY DEF Init, Told, Codes
    <2>3. Accepted = {}
      BY DEF Init, Accepted
    <2> QED
      BY <2>1, <2>2, <2>3 DEF Init, Abs!Init, Told, Accepted
  <1> QED
    BY <1>1, <1>2, RefinementStep, PTL DEF Spec, AnswersOnce, Abs!Spec
=============================================================================
