---------------------------- MODULE SiprecProofs ----------------------------
(***************************************************************************)
(* TLAPS proofs about Siprec, for any number of callers and SIPREC legs.   *)
(* However many INVITEs, drops, TLS winners and group calls there are: its *)
(* type invariant and RecordingIsIndexed.  When each caller rings once:    *)
(* RecordedOnce.  When only the read loop ends his call as well:           *)
(* IndexedIsRecording, MediaEndsWithCall and, without group calls,         *)
(* AnsweredIsForked.                                                       *)
(***************************************************************************)
EXTENDS Siprec, TLAPS

\* What a handler's locals mean: it works for a caller, and the leg it holds is that
\* caller's.
Sound(ctx) ==
  /\ ctx.at # "idle" => ctx.call \in Call
  /\ ctx.at \in {"send", "undo", "ack", "lookup", "attach",
                 "find", "unhook", "write", "forget"}
       => ctx.leg \in Leg /\ ctx.leg.c = ctx.call

LocalsSound == \A t \in Thread : Sound(pc[t])

\* A ringing key had an INVITE, and the recording of a key is a leg of that key.
KeysSound ==
  /\ \A c \in ringing : invites[c] > 0
  /\ \A c \in Call : recording[c] # NoLeg => recording[c].c = c

TInv == TypeOK /\ LocalsSound /\ KeysSound

\* The thread has taken its leg out of the table and not yet out of the index.
TakingDown(t) == pc[t].at \in {"find", "unhook", "write", "forget"}

\* The recording of a key was built, and the index still holds it.
RecordingIsBuilt == \A c \in Call : recording[c] # NoLeg =>
  recording[c].n <= started[c] /\ recording[c] \in index

\* The leg a thread takes down is an earlier one than the key's recording of now.
TakenIsOld == \A t \in Thread : TakingDown(t) =>
  pc[t].leg.n <= started[pc[t].call] /\ pc[t].leg # recording[pc[t].call]

\* The inductive invariant behind RecordingIsIndexed.
IInv == TInv /\ RecordingIsBuilt /\ TakenIsOld

-----------------------------------------------------------------------------

\* The threads are the read loop, a reader, the API and the starters.
LEMMA Threads ==
  /\ Main \in Thread /\ Reader \in Thread /\ Api \in Thread
  /\ \A c \in Call, k \in 1..MaxCalls : Starter(c, k) \in Thread
  BY DEF Thread

\* A thread at rest holds nothing.
LEMMA IdleSound == Idle \in Ctx /\ Sound(Idle) /\ Idle.at = "idle"
  BY DEF Idle, Ctx, At, Sound

\* A thread that starts to work for a caller holds no leg.
LEMMA ForSound ==
  ASSUME NEW c \in Call, NEW at \in {"context", "take", "release"}
  PROVE  For(at, c) \in Ctx /\ Sound(For(at, c)) /\ For(at, c).at = at
  BY DEF For, Idle, Ctx, At, Sound

\* A thread's next step keeps the type of pc when its new locals are sound.
LEMMA GotoSound ==
  ASSUME TInv, NEW t \in Thread, NEW ctx \in Ctx, Sound(ctx), Goto(t, ctx)
  PROVE  pc' \in [Thread -> Ctx] /\ LocalsSound'
  BY DEF TInv, TypeOK, LocalsSound, Goto

\* The same for a step that changes only the place.
LEMMA StepSound ==
  ASSUME TInv, NEW t \in Thread, NEW at \in At, Step(t, at),
         Sound([pc[t] EXCEPT !.at = at])
  PROVE  pc' \in [Thread -> Ctx] /\ LocalsSound'
  <1>1. [pc[t] EXCEPT !.at = at] \in Ctx
    BY DEF TInv, TypeOK, Ctx
  <1>2. Goto(t, [pc[t] EXCEPT !.at = at])
    BY DEF Step, Goto
  <1> QED
    BY <1>1, <1>2, GotoSound

\* The same for the end of a handler.
LEMMA ReturnSound ==
  ASSUME TInv, NEW t \in Thread, Return(t)
  PROVE  pc' \in [Thread -> Ctx] /\ LocalsSound'
  BY IdleSound, GotoSound DEF Return

\* Between two places with the same needs the locals stay sound.
LEMMA StepKeeps ==
  ASSUME TInv, NEW t \in Thread, NEW at \in At, Step(t, at),
         \/ pc[t].at # "idle" /\ at \in {"check", "register", "take"}
         \/ pc[t].at \in {"send", "ack", "find", "unhook", "write"}
  PROVE  pc' \in [Thread -> Ctx] /\ LocalsSound'
  <1>1. pc[t] \in Ctx /\ Sound(pc[t])
    BY DEF TInv, TypeOK, LocalsSound
  <1>2. Sound([pc[t] EXCEPT !.at = at])
    BY <1>1 DEF Ctx, Sound
  <1> QED
    BY <1>2, StepSound

-----------------------------------------------------------------------------

\* Init has the types of TypeOK, and nobody is at work.
LEMMA TypeInit == Init => TInv
  BY SiprecAssumption, IdleSound DEF Init, TInv, TypeOK, LocalsSound, KeysSound

\* Every step keeps the types and the locals sound.
LEMMA TypeStep == TInv /\ [Next]_vars => TInv'
  <1> SUFFICES ASSUME TInv, [Next]_vars
               PROVE  TInv'
    OBVIOUS
  <1> DEFINE PcSound == pc \in [Thread -> Ctx] /\ LocalsSound
  <1> USE DEF TInv
  <1>1. \A t \in Thread : pc[t] \in Ctx /\ Sound(pc[t])
    BY DEF TypeOK, LocalsSound
  <1>2. \A c \in Call : invites[c] < MaxCalls =>
          /\ invites[c] + 1 \in 1..MaxCalls
          /\ \A up \in BOOLEAN : [c |-> c, k |-> invites[c] + 1, up |-> up] \in Entry
    BY SiprecAssumption DEF TypeOK, Entry
  <1>3. ASSUME NEW c \in Call, Enter(c)
        PROVE  TInv'
    <2>1. PcSound'
      BY <1>2, <1>3, Threads, ForSound, GotoSound DEF Enter
    <2>2. entry' \in [Call -> Entry \cup {NoEntry}]
      BY <1>2, <1>3 DEF Enter, TypeOK
    <2>3. invites' \in [Call -> 0..MaxCalls]
      BY <1>2, <1>3 DEF Enter, TypeOK
    <2> QED
      BY <1>3, <2>1, <2>2, <2>3 DEF Enter, TypeOK, KeysSound, legs, wire
  <1>4. ASSUME NEW c \in Call, Join(c)
        PROVE  TInv'
    <2>1. PcSound'
      BY <1>4, Threads, ForSound, GotoSound DEF Join
    <2>2. entry' \in [Call -> Entry \cup {NoEntry}]
      BY <1>2, <1>4 DEF Join, TypeOK
    <2>3. invites' \in [Call -> 0..MaxCalls]
      BY <1>2, <1>4 DEF Join, TypeOK
    <2> QED
      BY <1>4, <2>1, <2>2, <2>3 DEF Join, TypeOK, KeysSound, legs, wire
  <1>5. ASSUME NEW c \in Call, RingingFails(c)
        PROVE  TInv'
    BY <1>5 DEF RingingFails, TypeOK, LocalsSound, KeysSound, legs, wire
  <1>6. ASSUME NEW c \in Call, HangUp(c)
        PROVE  TInv'
    <2>1. PcSound'
      BY <1>6, Threads, ForSound, GotoSound DEF HangUp
    <2>2. media' \in [Entry -> Leg \cup {NoLeg}]
      BY <1>6 DEF HangUp, Unhooked, TypeOK
    <2> QED
      BY <1>6, <2>1, <2>2 DEF HangUp, TypeOK, KeysSound, legs, wire
  <1>7. ASSUME NEW c \in Call, Drop(c)
        PROVE  TInv'
    <2>1. PcSound'
      BY <1>7, Threads, ForSound, GotoSound DEF Drop
    <2> QED
      BY <1>7, <2>1, SiprecAssumption DEF Drop, TypeOK, KeysSound, calls, legs, wire
  <1>8. ASSUME NEW t \in {Main, Reader}, NEW c \in Call, Answered(t, c)
        PROVE  TInv'
    <2>1. PcSound'
      BY <1>8, Threads, ForSound, GotoSound DEF Answered
    <2>2. media' \in [Entry -> Leg \cup {NoLeg}]
      BY <1>8 DEF Answered, TypeOK
    <2>3. entry' \in [Call -> Entry \cup {NoEntry}]
      <3>1. [c |-> c, k |-> invites[c], up |-> TRUE] \in Entry
        BY <1>8, SiprecAssumption DEF Answered, KeysSound, TypeOK, Entry
      <3> QED
        BY <3>1, <1>8 DEF Answered, TypeOK
    <2> QED
      BY <1>8, <2>1, <2>2, <2>3 DEF Answered, TypeOK, KeysSound, legs, wire
  <1>9. CASE Release
    <2>1. PcSound'
      BY <1>1, <1>9, Threads, StepKeeps DEF Release, At
    <2>2. pc[Api].call \in Call
      BY <1>1, <1>9, Threads DEF Release, Sound
    <2>3. /\ media' \in [Entry -> Leg \cup {NoLeg}]
          /\ entry' \in [Call -> Entry \cup {NoEntry}]
      BY <1>9, <2>2 DEF Release, Unhooked, TypeOK
    <2> QED
      BY <1>9, <2>1, <2>3 DEF Release, TypeOK, KeysSound, legs, wire
  <1>10. ASSUME NEW t \in Thread, StartContext(t) \/ StartCheck(t)
         PROVE  TInv'
    <2>1. PcSound'
      BY <1>10, StepKeeps, ReturnSound DEF StartContext, StartCheck, At
    <2> QED
      BY <1>10, <2>1 DEF StartContext, StartCheck, TypeOK, KeysSound, calls, legs, wire
  <1>11. ASSUME NEW t \in Thread, Register(t)
         PROVE  TInv'
    <2> DEFINE c == pc[t].call
               l == [c |-> c, n |-> started[c] + 1]
    <2>1. c \in Call
      BY <1>1, <1>11 DEF Register, Sound
    <2>2. CASE Return(t) /\ UNCHANGED legs
      BY <1>11, <2>2, ReturnSound DEF Register, TypeOK, KeysSound, calls, legs, wire
    <2>3. CASE ~(Return(t) /\ UNCHANGED legs)
      <3>1. /\ started[c] < MaxLegs
            /\ started' = [started EXCEPT ![c] = @ + 1]
            /\ recording' = [recording EXCEPT ![c] = l]
            /\ index' = index \cup {l}
            /\ Goto(t, [pc[t] EXCEPT !.at = "send", !.leg = l])
            /\ UNCHANGED confirmed
        BY <1>11, <2>3 DEF Register
      <3>2. l \in Leg /\ started[c] + 1 \in 0..MaxLegs
        BY <2>1, <3>1, SiprecAssumption DEF Leg, TypeOK
      <3>3. /\ [pc[t] EXCEPT !.at = "send", !.leg = l] \in Ctx
            /\ Sound([pc[t] EXCEPT !.at = "send", !.leg = l])
        BY <1>1, <2>1, <3>2 DEF Ctx, At, Sound
      <3>4. PcSound'
        BY <3>1, <3>3, GotoSound
      <3>5. /\ started' \in [Call -> 0..MaxLegs]
            /\ recording' \in [Call -> Leg \cup {NoLeg}]
            /\ index' \subseteq Leg
        BY <2>1, <3>1, <3>2 DEF TypeOK
      <3> QED
        BY <1>11, <3>1, <3>4, <3>5 DEF Register, TypeOK, KeysSound, calls, wire
    <2> QED
      BY <2>2, <2>3
  <1>12. ASSUME NEW t \in Thread, Send(t)
         PROVE  TInv'
    <2>1. PcSound'
      BY <1>12, StepKeeps, ReturnSound DEF Send, At
    <2>2. recorder' \in [Leg -> {"none", "invited", "answered", "refused"}]
      BY <1>12 DEF Send, TypeOK
    <2> QED
      BY <1>12, <2>1, <2>2 DEF Send, TypeOK, KeysSound, calls, legs
  <1>13. ASSUME NEW t \in Thread, Undo(t)
         PROVE  TInv'
    <2>1. PcSound'
      BY <1>13, ReturnSound DEF Undo
    <2> QED
      BY <1>13, <2>1 DEF Undo, TypeOK, KeysSound, calls, wire
  <1>14. CASE Ack
    <2>1. PcSound'
      BY <1>14, Threads, StepKeeps DEF Ack, At
    <2>2. pc[Main].leg \in Leg
      BY <1>1, <1>14, Threads DEF Ack, Sound
    <2> QED
      BY <1>14, <2>1, <2>2 DEF Ack, TypeOK, KeysSound, calls, legs
  <1>15. CASE Lookup
    <2>1. Found(pc[Main].call) \in Entry \cup {NoEntry}
      BY <1>1, <1>15, Threads DEF Lookup, Found, Sound, TypeOK
    <2>2. ASSUME NEW o \in Entry \cup {NoEntry}
          PROVE  /\ [pc[Main] EXCEPT !.at = "attach", !.obj = o] \in Ctx
                 /\ Sound([pc[Main] EXCEPT !.at = "attach", !.obj = o])
      BY <1>1, <1>15, Threads DEF Lookup, Ctx, At, Sound
    <2>3. PcSound'
      BY <1>15, <2>1, <2>2, Threads, GotoSound, ReturnSound DEF Lookup
    <2> QED
      BY <1>15, <2>3 DEF Lookup, TypeOK, KeysSound, calls, legs, wire
  <1>16. CASE Attach
    <2>1. PcSound'
      BY <1>16, Threads, ReturnSound DEF Attach
    <2>2. pc[Main].leg \in Leg
      BY <1>1, <1>16, Threads DEF Attach, Sound
    <2> QED
      BY <1>16, <2>1, <2>2 DEF Attach, TypeOK, KeysSound, calls, legs, wire
  <1>17. ASSUME NEW t \in Thread, Take(t)
         PROVE  TInv'
    <2> DEFINE l == recording[pc[t].call]
               ctx == [pc[t] EXCEPT !.at = "find", !.leg = l, !.bye = l \in confirmed]
    <2>1. pc[t].call \in Call
      BY <1>1, <1>17 DEF Take, Sound
    <2>2. CASE l = NoLeg
      BY <1>17, <2>2, ReturnSound DEF Take, TypeOK, KeysSound, calls, wire
    <2>3. CASE l # NoLeg
      <3>1. l \in Leg /\ l.c = pc[t].call
        BY <2>1, <2>3 DEF TypeOK, KeysSound
      <3>2. ctx \in Ctx /\ Sound(ctx)
        <4>1. ASSUME NEW bye \in BOOLEAN
              PROVE  /\ [pc[t] EXCEPT !.at = "find", !.leg = l, !.bye = bye] \in Ctx
                     /\ Sound([pc[t] EXCEPT !.at = "find", !.leg = l, !.bye = bye])
          BY <1>1, <2>1, <3>1 DEF Ctx, At, Sound
        <4>2. (l \in confirmed) \in BOOLEAN
          OBVIOUS
        <4> QED
          BY <4>1, <4>2, Zenon
      <3>3. PcSound'
        BY <1>17, <2>3, <3>2, GotoSound DEF Take
      <3> QED
        BY <1>17, <2>1, <2>3, <3>3 DEF Take, TypeOK, KeysSound, calls, wire
    <2> QED
      BY <2>2, <2>3
  <1>18. ASSUME NEW t \in Thread, Find(t)
         PROVE  TInv'
    <2> DEFINE ctx == [pc[t] EXCEPT !.at = "unhook", !.obj = Found(pc[t].call)]
    <2>1. Found(pc[t].call) \in Entry \cup {NoEntry}
      BY <1>1, <1>18 DEF Find, Found, Sound, TypeOK
    <2>2. ctx \in Ctx /\ Sound(ctx)
      BY <1>1, <1>18, <2>1 DEF Find, Ctx, At, Sound
    <2>3. PcSound'
      BY <1>18, <2>2, GotoSound DEF Find
    <2> QED
      BY <1>18, <2>3 DEF Find, TypeOK, KeysSound, calls, legs, wire
  <1>19. ASSUME NEW t \in Thread, Unhook(t)
         PROVE  TInv'
    <2>1. PcSound'
      BY <1>19, StepKeeps DEF Unhook, At
    <2>2. media' \in [Entry -> Leg \cup {NoLeg}]
      BY <1>19 DEF Unhook, Unhooked, TypeOK
    <2> QED
      BY <1>19, <2>1, <2>2 DEF Unhook, TypeOK, KeysSound, calls, legs, wire
  <1>20. ASSUME NEW t \in Thread, Write(t)
         PROVE  TInv'
    <2>1. PcSound'
      BY <1>20, StepKeeps DEF Write, At
    <2>2. pc[t].leg \in Leg
      BY <1>1, <1>20 DEF Write, Sound
    <2>3. cancelled' \subseteq Leg /\ byed' \subseteq Leg
      BY <1>20, <2>2 DEF Write, TypeOK
    <2> QED
      BY <1>20, <2>1, <2>3 DEF Write, TypeOK, KeysSound, calls, legs
  <1>21. ASSUME NEW t \in Thread, Forget(t)
         PROVE  TInv'
    <2>1. PcSound'
      BY <1>21, ReturnSound DEF Forget
    <2> QED
      BY <1>21, <2>1 DEF Forget, TypeOK, KeysSound, calls, wire
  <1>22. ASSUME NEW l \in Leg, RecorderDecides(l)
         PROVE  TInv'
    BY <1>22 DEF RecorderDecides, TypeOK, LocalsSound, KeysSound, calls, legs
  <1>23. ASSUME NEW l \in Leg, RecorderOk(l)
         PROVE  TInv'
    <2> DEFINE ctx == [For("ack", l.c) EXCEPT !.leg = l]
    <2>1. l.c \in Call
      BY DEF Leg
    <2>2. ctx \in Ctx /\ Sound(ctx)
      BY <2>1 DEF For, Idle, Ctx, At, Sound
    <2>3. PcSound'
      BY <1>23, <2>2, Threads, GotoSound DEF RecorderOk
    <2> QED
      BY <1>23, <2>3 DEF RecorderOk, TypeOK, KeysSound, calls, wire
  <1>24. ASSUME NEW l \in Leg, RecorderRefusal(l)
         PROVE  TInv'
    BY <1>24 DEF RecorderRefusal, TypeOK, LocalsSound, KeysSound, calls, wire
  <1>25. CASE UNCHANGED vars
    BY <1>25 DEF vars, calls, legs, wire, TypeOK, LocalsSound, KeysSound
  <1> QED
    BY <1>3, <1>4, <1>5, <1>6, <1>7, <1>8, <1>9, <1>10, <1>11, <1>12, <1>13, <1>14,
       <1>15, <1>16, <1>17, <1>18, <1>19, <1>20, <1>21, <1>22, <1>23, <1>24, <1>25
    DEF Next, Emit, Settle, Stop

\* Siprec's variables keep their types, for every number of callers, legs and drops.
THEOREM TypeCorrect == Spec => []TypeOK
  <1>1. TInv => TypeOK
    BY DEF TInv
  <1> QED
    BY TypeInit, TypeStep, <1>1, PTL DEF Spec

-----------------------------------------------------------------------------

\* A step that leaves the tables alone keeps what IInv says of them when the thread
\* that takes it does not begin to take a leg down.
LEMMA TablesAlone ==
  ASSUME IInv, UNCHANGED <<started, recording, index>>,
         \A t \in Thread : TakingDown(t)' =>
            TakingDown(t) /\ pc'[t].leg = pc[t].leg /\ pc'[t].call = pc[t].call
  PROVE  RecordingIsBuilt' /\ TakenIsOld'
  BY DEF IInv, RecordingIsBuilt, TakenIsOld

\* The same for the step of one thread to another place.
LEMMA StepAlone ==
  ASSUME IInv, UNCHANGED <<started, recording, index>>, NEW t \in Thread, NEW at,
         Step(t, at), TakingDown(t) \/ at \notin {"find", "unhook", "write", "forget"}
  PROVE  RecordingIsBuilt' /\ TakenIsOld'
  <1>1. pc[t] \in Ctx /\ pc \in [Thread -> Ctx]
    BY DEF IInv, TInv, TypeOK
  <1>2. /\ pc'[t].at = at /\ pc'[t].leg = pc[t].leg /\ pc'[t].call = pc[t].call
        /\ \A u \in Thread : u # t => pc'[u] = pc[u]
    BY <1>1 DEF Step, Ctx
  <1> QED
    BY <1>2, TablesAlone DEF TakingDown

\* The same for a thread that goes where no leg is taken down.
LEMMA GotoAlone ==
  ASSUME IInv, UNCHANGED <<started, recording, index>>, NEW t \in Thread, NEW ctx,
         Goto(t, ctx), ctx.at \notin {"find", "unhook", "write", "forget"}
  PROVE  RecordingIsBuilt' /\ TakenIsOld'
  <1>1. pc \in [Thread -> Ctx]
    BY DEF IInv, TInv, TypeOK
  <1>2. pc'[t] = ctx /\ \A u \in Thread : u # t => pc'[u] = pc[u]
    BY <1>1 DEF Goto
  <1> QED
    BY <1>2, TablesAlone DEF TakingDown

\* A starter's new leg is later than all that are taken down, and whoever drops a
\* leg from the index has dropped it from the table before or does so with it.
LEMMA IndexStep == IInv /\ [Next]_vars => IInv'
  <1> SUFFICES ASSUME IInv, [Next]_vars
               PROVE  RecordingIsBuilt' /\ TakenIsOld'
    BY TypeStep DEF IInv
  <1>1. /\ \A t \in Thread : pc[t] \in Ctx /\ Sound(pc[t])
        /\ pc \in [Thread -> Ctx]
    BY DEF IInv, TInv, TypeOK, LocalsSound
  <1>2. \A c \in Call, at \in {"context", "take", "release"} : For(at, c).at = at
    BY ForSound
  <1>3. ASSUME NEW c \in Call, Enter(c)
        PROVE  RecordingIsBuilt' /\ TakenIsOld'
    <2>1. Starter(c, invites[c] + 1) \in Thread
      BY <1>3, Threads, SiprecAssumption DEF Enter, IInv, TInv, TypeOK
    <2> QED
      BY <1>2, <1>3, <2>1, GotoAlone DEF Enter, legs
  <1>4. ASSUME NEW c \in Call, Join(c) \/ HangUp(c) \/ Drop(c)
        PROVE  RecordingIsBuilt' /\ TakenIsOld'
    BY <1>2, <1>4, Threads, GotoAlone DEF Join, HangUp, Drop, legs
  <1>5. ASSUME NEW t \in {Main, Reader}, NEW c \in Call, Answered(t, c)
        PROVE  RecordingIsBuilt' /\ TakenIsOld'
    BY <1>2, <1>5, Threads, GotoAlone DEF Answered, legs
  <1>6. ASSUME NEW c \in Call, RingingFails(c)
        PROVE  RecordingIsBuilt' /\ TakenIsOld'
    BY <1>6, TablesAlone DEF RingingFails, TakingDown, legs
  <1>7. CASE Release
    BY <1>7, Threads, StepAlone DEF Release, legs
  <1>8. ASSUME NEW t \in Thread, StartContext(t) \/ StartCheck(t) \/ Send(t)
        PROVE  RecordingIsBuilt' /\ TakenIsOld'
    BY <1>8, IdleSound, StepAlone, GotoAlone DEF StartContext, StartCheck, Send, Return, legs
  <1>9. ASSUME NEW t \in Thread, Register(t)
        PROVE  RecordingIsBuilt' /\ TakenIsOld'
    <2> DEFINE c == pc[t].call
               l == [c |-> c, n |-> started[c] + 1]
    <2>1. c \in Call
      BY <1>1, <1>9 DEF Register, Sound
    <2>2. CASE Return(t) /\ UNCHANGED legs
      BY <2>2, IdleSound, GotoAlone DEF Return, legs
    <2>3. CASE ~(Return(t) /\ UNCHANGED legs)
      <3>1. /\ started' = [started EXCEPT ![c] = @ + 1]
            /\ recording' = [recording EXCEPT ![c] = l]
            /\ index' = index \cup {l}
            /\ pc'[t].at = "send"
            /\ \A u \in Thread : u # t => pc'[u] = pc[u]
        <4>1. Goto(t, [pc[t] EXCEPT !.at = "send", !.leg = l])
          BY <1>9, <2>3 DEF Register
        <4>2. pc'[t].at = "send" /\ \A u \in Thread : u # t => pc'[u] = pc[u]
          BY <1>1, <4>1 DEF Goto, Ctx
        <4> QED
          BY <1>9, <2>3, <4>2 DEF Register
      <3>2. \A d \in Call :
              started[d] \in Nat /\ started'[d] \in Nat /\ started[d] <= started'[d]
        <4>1. \A d \in Call : started[d] \in Nat
          BY SiprecAssumption DEF IInv, TInv, TypeOK
        <4>2. \A d \in Call : started'[d] = IF d = c THEN started[d] + 1 ELSE started[d]
          BY <3>1 DEF IInv, TInv, TypeOK
        <4> QED
          BY <4>1, <4>2
      <3>3. recording'[c] = l /\ started'[c] = started[c] + 1
        BY <2>1, <3>1 DEF IInv, TInv, TypeOK
      <3>4. \A d \in Call : d # c => recording'[d] = recording[d]
        BY <3>1 DEF IInv, TInv, TypeOK
      <3>5. RecordingIsBuilt'
        BY <3>1, <3>2, <3>3, <3>4 DEF IInv, TInv, TypeOK, RecordingIsBuilt, Leg
      <3>6. ASSUME NEW u \in Thread, TakingDown(u)'
            PROVE  /\ pc'[u].leg.n <= started'[pc'[u].call]
                   /\ pc'[u].leg # recording'[pc'[u].call]
        <4>1. u # t /\ pc'[u] = pc[u] /\ TakingDown(u)
          BY <3>1, <3>6 DEF TakingDown
        <4>2. /\ pc[u].leg \in Leg /\ pc[u].call \in Call
              /\ pc[u].leg.n <= started[pc[u].call]
              /\ pc[u].leg # recording[pc[u].call]
          BY <1>1, <4>1 DEF TakingDown, Sound, IInv, TakenIsOld
        <4>3. pc[u].leg.n \in Nat
          BY <4>2, SiprecAssumption DEF Leg
        <4>4. CASE pc[u].call = c
          <5>1. started[c] \in Nat /\ pc[u].leg.n <= started[c]
            BY <2>1, <3>2, <4>2, <4>4
          <5>2. recording'[c].n = started[c] + 1 /\ started'[c] = started[c] + 1
            BY <3>3
          <5>3. pc[u].leg.n <= started'[c] /\ pc[u].leg # recording'[c]
            BY <4>3, <5>1, <5>2
          <5> QED
            BY <4>1, <4>4, <5>3
        <4>5. CASE pc[u].call # c
          BY <4>1, <4>2, <4>3, <4>5, <3>2, <3>4
        <4> QED
          BY <4>4, <4>5
      <3> QED
        BY <3>5, <3>6 DEF TakenIsOld
    <2> QED
      BY <2>2, <2>3
  <1>10. ASSUME NEW t \in Thread, Undo(t)
         PROVE  RecordingIsBuilt' /\ TakenIsOld'
    <2>1. pc[t].call \in Call /\ pc[t].leg \in Leg /\ pc[t].leg.c = pc[t].call
      BY <1>1, <1>10 DEF Undo, Sound
    <2>2. /\ recording'[pc[t].call] = NoLeg
          /\ \A d \in Call : d # pc[t].call => recording'[d] = recording[d]
      BY <1>10, <2>1 DEF Undo, IInv, TInv, TypeOK
    <2>3. RecordingIsBuilt'
      BY <1>10, <2>1, <2>2 DEF Undo, IInv, TInv, KeysSound, RecordingIsBuilt
    <2>4. TakenIsOld'
      <3>1. \A u \in Thread : TakingDown(u)' => TakingDown(u) /\ pc'[u] = pc[u]
        BY <1>1, <1>10, IdleSound DEF Undo, Return, Goto, TakingDown
      <3>2. \A u \in Thread : TakingDown(u) => pc[u].leg \in Leg /\ pc[u].call \in Call
        BY <1>1 DEF TakingDown, Sound
      <3> QED
        BY <1>10, <2>2, <3>1, <3>2, SiprecAssumption DEF Undo, IInv, TakenIsOld
    <2> QED
      BY <2>3, <2>4
  <1>11. CASE Ack
    BY <1>11, Threads, StepAlone DEF Ack, legs
  <1>12. CASE Lookup
    <2>1. [pc[Main] EXCEPT !.at = "attach", !.obj = Found(pc[Main].call)].at = "attach"
      BY <1>1, Threads DEF Ctx
    <2> QED
      BY <1>12, <2>1, IdleSound, Threads, GotoAlone DEF Lookup, Return, legs
  <1>13. CASE Attach
    BY <1>13, IdleSound, Threads, GotoAlone DEF Attach, Return, legs
  <1>14. ASSUME NEW t \in Thread, Take(t)
         PROVE  RecordingIsBuilt' /\ TakenIsOld'
    <2> DEFINE l == recording[pc[t].call]
    <2>1. pc[t].call \in Call
      BY <1>1, <1>14 DEF Take, Sound
    <2>2. CASE l = NoLeg
      BY <1>14, <2>2, IdleSound, GotoAlone DEF Take, Return
    <2>3. CASE l # NoLeg
      <3>1. /\ recording' = [recording EXCEPT ![pc[t].call] = NoLeg]
            /\ UNCHANGED <<started, index>>
        BY <1>14, <2>3 DEF Take
      <3>2. /\ pc'[t].leg = l /\ pc'[t].call = pc[t].call
            /\ \A u \in Thread : u # t => pc'[u] = pc[u]
        <4>1. PICK bye :
                Goto(t, [pc[t] EXCEPT !.at = "find", !.leg = l, !.bye = bye])
          BY <1>14, <2>3, Zenon DEF Take
        <4> QED
          BY <1>1, <4>1 DEF Goto, Ctx
      <3>3. l \in Leg /\ l.n <= started[pc[t].call]
        BY <2>1, <2>3 DEF IInv, TInv, TypeOK, RecordingIsBuilt
      <3>4. /\ recording'[pc[t].call] = NoLeg
            /\ \A d \in Call : d # pc[t].call => recording'[d] = recording[d]
        BY <2>1, <3>1 DEF IInv, TInv, TypeOK
      <3>5. RecordingIsBuilt'
        BY <3>1, <3>4 DEF IInv, RecordingIsBuilt
      <3>6. ASSUME NEW u \in Thread, TakingDown(u)'
            PROVE  /\ pc'[u].leg.n <= started'[pc'[u].call]
                   /\ pc'[u].leg # recording'[pc'[u].call]
        <4>1. CASE u = t
          BY <4>1, <3>1, <3>2, <3>3, <3>4, SiprecAssumption
        <4>2. CASE u # t
          <5>1. pc'[u] = pc[u] /\ TakingDown(u)
            BY <4>2, <3>2, <3>6 DEF TakingDown
          <5>2. /\ pc[u].leg \in Leg /\ pc[u].call \in Call
                /\ pc[u].leg.n <= started[pc[u].call]
                /\ pc[u].leg # recording[pc[u].call]
            BY <1>1, <5>1 DEF TakingDown, Sound, IInv, TakenIsOld
          <5> QED
            BY <5>1, <5>2, <3>1, <3>4, SiprecAssumption
        <4> QED
          BY <4>1, <4>2
      <3> QED
        BY <3>5, <3>6 DEF TakenIsOld
    <2> QED
      BY <2>2, <2>3
  <1>15. ASSUME NEW t \in Thread, Find(t)
         PROVE  RecordingIsBuilt' /\ TakenIsOld'
    <2>1. /\ TakingDown(t) /\ pc'[t].leg = pc[t].leg /\ pc'[t].call = pc[t].call
          /\ \A u \in Thread : u # t => pc'[u] = pc[u]
      BY <1>1, <1>15 DEF Find, Goto, Ctx, TakingDown
    <2> QED
      BY <1>15, <2>1, TablesAlone DEF Find, TakingDown, legs
  <1>16. ASSUME NEW t \in Thread, Unhook(t) \/ Write(t)
         PROVE  RecordingIsBuilt' /\ TakenIsOld'
    BY <1>16, StepAlone DEF Unhook, Write, TakingDown, legs
  <1>17. ASSUME NEW t \in Thread, Forget(t)
         PROVE  RecordingIsBuilt' /\ TakenIsOld'
    <2>1. /\ TakingDown(t) /\ pc[t].call \in Call
          /\ pc[t].leg.c = pc[t].call /\ pc[t].leg # recording[pc[t].call]
      BY <1>1, <1>17 DEF Forget, TakingDown, Sound, IInv, TakenIsOld
    <2>2. \A d \in Call : recording[d] # NoLeg => recording[d] # pc[t].leg
      BY <2>1 DEF IInv, TInv, KeysSound
    <2>3. RecordingIsBuilt'
      BY <1>17, <2>2 DEF Forget, IInv, RecordingIsBuilt
    <2>4. \A u \in Thread : TakingDown(u)' => TakingDown(u) /\ pc'[u] = pc[u]
      BY <1>1, <1>17, IdleSound DEF Forget, Return, Goto, TakingDown
    <2> QED
      BY <1>17, <2>3, <2>4 DEF Forget, IInv, TakenIsOld
  <1>18. ASSUME NEW l \in Leg, RecorderDecides(l)
         PROVE  RecordingIsBuilt' /\ TakenIsOld'
    BY <1>18, TablesAlone DEF RecorderDecides, TakingDown, legs
  <1>19. ASSUME NEW l \in Leg, RecorderOk(l)
         PROVE  RecordingIsBuilt' /\ TakenIsOld'
    <2>1. [For("ack", l.c) EXCEPT !.leg = l].at = "ack"
      BY DEF For, Idle
    <2> QED
      BY <1>19, <2>1, Threads, GotoAlone DEF RecorderOk
  <1>20. ASSUME NEW l \in Leg, RecorderRefusal(l)
         PROVE  RecordingIsBuilt' /\ TakenIsOld'
    <2>1. l.c \in Call
      BY DEF Leg
    <2>2. /\ recording'[l.c] = NoLeg
          /\ \A d \in Call : d # l.c => recording'[d] = recording[d]
      BY <1>20, <2>1 DEF RecorderRefusal, IInv, TInv, TypeOK
    <2>3. RecordingIsBuilt'
      BY <1>20, <2>2 DEF RecorderRefusal, IInv, TInv, KeysSound, RecordingIsBuilt
    <2>4. \A u \in Thread : TakingDown(u) => pc[u].leg \in Leg /\ pc[u].call \in Call
      BY <1>1 DEF TakingDown, Sound
    <2>5. TakenIsOld'
      BY <1>20, <2>2, <2>4, SiprecAssumption
      DEF RecorderRefusal, IInv, TakenIsOld, TakingDown
    <2> QED
      BY <2>3, <2>5
  <1>21. CASE UNCHANGED vars
    BY <1>21, TablesAlone DEF vars, legs, TakingDown
  <1> QED
    BY <1>3, <1>4, <1>5, <1>6, <1>7, <1>8, <1>9, <1>10, <1>11, <1>12, <1>13, <1>14,
       <1>15, <1>16, <1>17, <1>18, <1>19, <1>20, <1>21 DEF Next, Emit, Settle, Stop

\* A recording the server holds is one whose answers it still hears, however the
\* starters, the read loop, the readers and the API interleave.
THEOREM RecordingIsIndexedHolds == Spec => []RecordingIsIndexed
  <1>1. Init => IInv
    <2>1. Init => RecordingIsBuilt
      BY DEF Init, RecordingIsBuilt
    <2>2. Init => TakenIsOld
      BY IdleSound DEF Init, TakenIsOld, TakingDown
    <2> QED
      BY <2>1, <2>2, TypeInit DEF IInv
  <1>2. IInv => RecordingIsIndexed
    BY DEF IInv, RecordingIsBuilt, RecordingIsIndexed
  <1> QED
    BY <1>1, <1>2, IndexStep, PTL DEF Spec
-----------------------------------------------------------------------------
(***************************************************************************)
(* One INVITE per caller.  A caller who rings once starts two recordings   *)
(* at most, the early one and the winner's: a third would find the first   *)
(* still in the index.                                                     *)
(***************************************************************************)
OneInvite == MaxCalls = 1

\* The thread may still build a leg for c.
MayStart(t, c) == pc[t].at \in {"context", "check", "register"} /\ pc[t].call = c

\* The starters of a caller, and how many of them are left.
StartsOf(c) ==
  /\ \A t \in Thread : MayStart(t, c) => t \in {Main, Reader, Starter(c, 1)}
  /\ ~(MayStart(Main, c) /\ MayStart(Reader, c))
  /\ invites[c] = 0 => started[c] = 0 /\ \A t \in Thread : ~MayStart(t, c)
  /\ c \in ringing =>
       /\ ~MayStart(Main, c) /\ ~MayStart(Reader, c)
       /\ started[c] <= 1
       /\ MayStart(Starter(c, 1), c) => started[c] = 0
  /\ started[c] <= 2
  /\ started[c] = 1 => ~(\E t \in {Main, Reader} : MayStart(t, c) /\ MayStart(Starter(c, 1), c))
  /\ started[c] = 2 => \A t \in Thread : ~MayStart(t, c)
StartsLeft == \A c \in Call : StartsOf(c)

\* A leg that was followed by another is being taken down, and so is the only leg of
\* a caller without a recording.
OthersAreStopping == \A l \in index :
  /\ l.n <= started[l.c]
  /\ l.n < started[l.c] \/ (recording[l.c] = NoLeg /\ started[l.c] = 1) => Stopping(l)

\* What a starter is about to send was built.
SentIsBuilt == \A t \in Thread :
  pc[t].at \in {"send", "undo"} => pc[t].leg.n <= started[pc[t].call]

\* The goroutine of the early start does nothing else.
Starting == {"context", "check", "register", "send", "undo"}
StartersStart == \A c \in Call : pc[Starter(c, 1)].at \in Starting \cup {"idle"}

StartInv == IInv /\ StartsLeft /\ OthersAreStopping /\ SentIsBuilt /\ StartersStart

\* The threads are different.
LEMMA Apart ==
  /\ Main # Reader /\ Main # Api /\ Reader # Api
  /\ \A c, k : Starter(c, k) \notin {Main, Reader, Api}
  /\ \A c, d, k, j : Starter(c, k) = Starter(d, j) => c = d /\ k = j
  BY DEF Main, Reader, Api, Starter

\* What a thread's own step does to pc.
LEMMA GotoDoes ==
  ASSUME TInv, NEW t \in Thread, NEW ctx, Goto(t, ctx)
  PROVE  pc'[t] = ctx /\ \A u \in Thread : u # t => pc'[u] = pc[u]
  BY DEF TInv, TypeOK, Goto

LEMMA StepDoes ==
  ASSUME TInv, NEW t \in Thread, NEW at, Step(t, at)
  PROVE  /\ pc'[t].at = at /\ pc'[t].call = pc[t].call /\ pc'[t].leg = pc[t].leg
         /\ pc'[t].obj = pc[t].obj
         /\ \A u \in Thread : u # t => pc'[u] = pc[u]
  <1>1. pc[t] \in Ctx /\ pc \in [Thread -> Ctx]
    BY DEF TInv, TypeOK
  <1> QED
    BY <1>1 DEF Step, Ctx

LEMMA ReturnDoes ==
  ASSUME TInv, NEW t \in Thread, Return(t)
  PROVE  pc'[t].at = "idle" /\ pc'[t].leg = NoLeg /\ \A u \in Thread : u # t => pc'[u] = pc[u]
  BY GotoDoes DEF Return, Idle

LEMMA ForDoes ==
  ASSUME NEW at, NEW c
  PROVE  /\ For(at, c).at = at /\ For(at, c).call = c /\ For(at, c).leg = NoLeg
         /\ For(at, c).obj = NoEntry
  BY DEF For, Idle

\* The new leg of Register, when it builds one.
LEMMA RegisterDoes ==
  ASSUME TInv, NEW t \in Thread, Register(t)
  PROVE  \/ Return(t) /\ UNCHANGED legs
         \/ LET c == pc[t].call
                l == [c |-> c, n |-> started[c] + 1]
            IN /\ c \in Call /\ l \in Leg /\ recording[c] = NoLeg
               /\ started[c] \in Nat
               /\ started' = [started EXCEPT ![c] = @ + 1]
               /\ recording' = [recording EXCEPT ![c] = l]
               /\ index' = index \cup {l} /\ UNCHANGED confirmed
               /\ pc'[t].at = "send" /\ pc'[t].leg = l /\ pc'[t].call = c
               /\ \A u \in Thread : u # t => pc'[u] = pc[u]
  <1> DEFINE c == pc[t].call
             l == [c |-> c, n |-> started[c] + 1]
  <1> SUFFICES ASSUME ~(Return(t) /\ UNCHANGED legs)
               PROVE  /\ c \in Call /\ l \in Leg /\ recording[c] = NoLeg
                      /\ started[c] \in Nat
                      /\ started' = [started EXCEPT ![c] = @ + 1]
                      /\ recording' = [recording EXCEPT ![c] = l]
                      /\ index' = index \cup {l} /\ UNCHANGED confirmed
                      /\ pc'[t].at = "send" /\ pc'[t].leg = l /\ pc'[t].call = c
                      /\ \A u \in Thread : u # t => pc'[u] = pc[u]
    OBVIOUS
  <1>1. /\ started[c] < MaxLegs /\ recording[c] = NoLeg
        /\ started' = [started EXCEPT ![c] = @ + 1]
        /\ recording' = [recording EXCEPT ![c] = l]
        /\ index' = index \cup {l}
        /\ Goto(t, [pc[t] EXCEPT !.at = "send", !.leg = l])
        /\ UNCHANGED confirmed
    BY DEF Register
  <1>2. pc[t] \in Ctx /\ Sound(pc[t])
    BY DEF TInv, TypeOK, LocalsSound
  <1>3. c \in Call
    BY <1>2 DEF Register, Sound
  <1>4. started[c] \in Nat /\ l \in Leg
    BY <1>1, <1>3, SiprecAssumption DEF TInv, TypeOK, Leg
  <1>5. /\ pc'[t].at = "send" /\ pc'[t].leg = l /\ pc'[t].call = c
        /\ \A u \in Thread : u # t => pc'[u] = pc[u]
    <2>1. pc'[t] = [pc[t] EXCEPT !.at = "send", !.leg = l] /\ \A u \in Thread : u # t => pc'[u] = pc[u]
      BY <1>1, GotoDoes
    <2> QED
      BY <1>2, <2>1 DEF Ctx
  <1> QED
    BY <1>1, <1>3, <1>4, <1>5

\* Steps that build no leg for a caller and start nobody for him.
LEMMA StartsOfKept ==
  ASSUME OneInvite, NEW c \in Call, StartsOf(c), started'[c] = started[c],
         c \in ringing' => c \in ringing, invites'[c] = 0 => invites[c] = 0,
         \A t \in Thread : MayStart(t, c)' => MayStart(t, c)
  PROVE  StartsOf(c)'
  <1>1. Starter(c, 1) \in Thread /\ Main \in Thread /\ Reader \in Thread
    BY Threads DEF OneInvite
  <1> QED
    BY <1>1 DEF StartsOf

LEMMA StartsKept ==
  ASSUME OneInvite, StartsLeft, UNCHANGED started, ringing' \subseteq ringing,
         \A c \in Call : invites'[c] = 0 => invites[c] = 0,
         \A t \in Thread, c \in Call : MayStart(t, c)' => MayStart(t, c)
  PROVE  StartsLeft'
  BY StartsOfKept DEF StartsLeft

LEMMA MayKept ==
  ASSUME NEW t \in Thread, \A u \in Thread : u # t => pc'[u] = pc[u],
         pc'[t].at \in {"context", "check", "register"} =>
           pc[t].at \in {"context", "check", "register"} /\ pc'[t].call = pc[t].call
  PROVE  \A u \in Thread, c \in Call : MayStart(u, c)' => MayStart(u, c)
  BY DEF MayStart

\* What is being taken down still is when a thread goes on.
LEMMA StoppingKept ==
  ASSUME NEW t \in Thread, \A u \in Thread : u # t => pc'[u] = pc[u],
         TakingDown(t) => TakingDown(t)' /\ pc'[t].leg = pc[t].leg
  PROVE  \A l : Stopping(l) => Stopping(l)'
  BY DEF Stopping, TakingDown

\* A step that leaves the recordings alone and starts nobody.
LEMMA StartQuiet ==
  ASSUME OneInvite, StartInv, NEW t \in Thread, \A u \in Thread : u # t => pc'[u] = pc[u],
         UNCHANGED <<started, recording, index>>, ringing' \subseteq ringing,
         \A c \in Call : invites'[c] = 0 => invites[c] = 0,
         pc'[t].at \in {"context", "check", "register"} =>
           pc[t].at \in {"context", "check", "register"} /\ pc'[t].call = pc[t].call,
         TakingDown(t) => TakingDown(t)' /\ pc'[t].leg = pc[t].leg,
         pc'[t].at \in {"send", "undo"} =>
           pc[t].at \in {"send", "undo"} /\ pc'[t].leg = pc[t].leg /\ pc'[t].call = pc[t].call,
         t \in {Main, Reader, Api} \/ pc'[t].at \in Starting \cup {"idle"}
  PROVE  StartsLeft' /\ OthersAreStopping' /\ SentIsBuilt' /\ StartersStart'
  <1>1. StartsLeft'
    BY MayKept, StartsKept DEF StartInv
  <1>2. OthersAreStopping'
    <2>1. \A l : Stopping(l) => Stopping(l)'
      BY StoppingKept
    <2> QED
      BY <2>1 DEF StartInv, OthersAreStopping
  <1>3. SentIsBuilt'
    BY DEF StartInv, SentIsBuilt
  <1>4. StartersStart'
    BY Apart, Threads DEF StartInv, StartersStart, OneInvite
  <1> QED
    BY <1>1, <1>2, <1>3, <1>4

\* The winner's thread, or the read loop that answers at once, starts a recording.
LEMMA WinnerStarts ==
  ASSUME OneInvite, StartInv, NEW c \in Call, NEW t \in {Main, Reader}, Goto(t, For("context", c)),
         pc[t].at = "idle", UNCHANGED <<started, recording, index>>
  PROVE  OthersAreStopping' /\ SentIsBuilt' /\ StartersStart'
  <1>1. t \in Thread /\ TInv
    BY Threads DEF StartInv, IInv
  <1>2. pc'[t].at = "context" /\ \A u \in Thread : u # t => pc'[u] = pc[u]
    BY <1>1, GotoDoes, ForDoes
  <1>3. ~TakingDown(t)
    BY DEF TakingDown
  <1>4. \A l : Stopping(l) => Stopping(l)'
    BY <1>1, <1>2, <1>3, StoppingKept
  <1>5. OthersAreStopping'
    BY <1>4 DEF StartInv, OthersAreStopping
  <1>6. SentIsBuilt'
    BY <1>2 DEF StartInv, SentIsBuilt
  <1>7. StartersStart'
    BY <1>2, Apart, Threads DEF StartInv, StartersStart, OneInvite
  <1> QED
    BY <1>5, <1>6, <1>7

LEMMA StartOfCaller ==
  ASSUME OneInvite, StartInv, NEW c \in Call,
         \/ Enter(c) \/ Join(c) \/ RingingFails(c) \/ HangUp(c) \/ Drop(c)
         \/ \E t \in {Main, Reader} : Answered(t, c)
  PROVE  StartsLeft' /\ OthersAreStopping' /\ SentIsBuilt' /\ StartersStart'
  <1> USE DEF StartInv, IInv
  <1>1. /\ invites \in [Call -> 0..MaxCalls] /\ \A d \in Call : invites[d] \in {0, 1}
        /\ \A d \in ringing : invites[d] > 0
    BY DEF OneInvite, TInv, TypeOK, KeysSound
  <1>3. CASE Enter(c)
    <2>1. invites[c] = 0 /\ c \notin ringing /\ invites'[c] = 1
      BY <1>1, <1>3 DEF Enter, OneInvite
    <2>2. /\ Starter(c, 1) \in Thread /\ Goto(Starter(c, 1), For("context", c))
          /\ UNCHANGED <<started, recording, index>>
      BY <1>3, <2>1, Threads DEF Enter, OneInvite, legs
    <2>3. /\ pc'[Starter(c, 1)].at = "context" /\ pc'[Starter(c, 1)].call = c
          /\ \A u \in Thread : u # Starter(c, 1) => pc'[u] = pc[u]
      BY <2>2, GotoDoes, ForDoes
    <2>4. \A d \in Call : Starter(d, 1) \in Thread
      BY Threads DEF OneInvite
    <2>5. StartsLeft'
      <3>1. \A d \in Call, u \in Thread : MayStart(u, d)' <=>
               (MayStart(u, d) /\ u # Starter(c, 1)) \/ (u = Starter(c, 1) /\ d = c)
        BY <2>3 DEF MayStart
      <3>2. /\ started[c] = 0 /\ \A u \in Thread : ~MayStart(u, c)
            /\ \A u \in Thread : MayStart(u, c)' => u = Starter(c, 1)
        BY <2>1, <3>1 DEF StartsLeft, StartsOf
      <3>3. ASSUME NEW d \in Call, d # c
            PROVE  /\ \A u \in Thread : MayStart(u, d)' => MayStart(u, d)
                   /\ started'[d] = started[d] /\ invites'[d] = invites[d]
                   /\ d \in ringing' => d \in ringing
        BY <1>1, <1>3, <2>2, <3>1, <3>3 DEF Enter
      <3>4. started'[c] = 0 /\ invites'[c] = 1
        BY <2>1, <2>2, <3>2
      <3>5. Main # Starter(c, 1) /\ Reader # Starter(c, 1) /\ Main \in Thread /\ Reader \in Thread
        BY Apart, Threads
      <3>8. StartsOf(c)'
        BY <3>2, <3>4, <3>5 DEF StartsOf
      <3> QED
        BY <3>8, <3>3, StartsOfKept DEF StartsLeft
    <2>6. \A l : Stopping(l) => Stopping(l)'
      <3>1. ~TakingDown(Starter(c, 1))
        BY DEF StartersStart, Starting, TakingDown
      <3> QED
        BY <2>2, <2>3, <3>1, StoppingKept
    <2>7. StartersStart'
      BY <2>3, Apart, <2>4 DEF StartersStart, Starting
    <2> QED
      BY <2>2, <2>3, <2>5, <2>6, <2>7 DEF OthersAreStopping, SentIsBuilt
  <1>4. CASE Join(c)
    <2>1. invites[c] = 0 /\ c \notin ringing /\ invites'[c] = 1 /\ pc[Main].at = "idle"
      BY <1>1, <1>4 DEF Join, OneInvite
    <2>2. Main \in Thread /\ Goto(Main, For("context", c)) /\ UNCHANGED <<started, recording, index>>
      BY <1>4, Threads DEF Join, legs
    <2>3. /\ pc'[Main].at = "context" /\ pc'[Main].call = c
          /\ \A u \in Thread : u # Main => pc'[u] = pc[u]
      BY <2>2, GotoDoes, ForDoes
    <2>4. StartsLeft'
      <3>1. \A d \in Call, u \in Thread : MayStart(u, d)' <=>
               (MayStart(u, d) /\ u # Main) \/ (u = Main /\ d = c)
        BY <2>3 DEF MayStart
      <3>2. /\ started[c] = 0 /\ \A u \in Thread : ~MayStart(u, c)
            /\ \A u \in Thread : MayStart(u, c)' => u = Main
        BY <2>1, <3>1 DEF StartsLeft, StartsOf
      <3>3. ASSUME NEW d \in Call, d # c
            PROVE  /\ \A u \in Thread : MayStart(u, d)' => MayStart(u, d)
                   /\ started'[d] = started[d] /\ invites'[d] = invites[d]
                   /\ d \in ringing' => d \in ringing
        BY <1>1, <1>4, <2>2, <3>1, <3>3 DEF Join
      <3>4. started'[c] = 0 /\ invites'[c] = 1 /\ c \notin ringing'
        BY <1>4, <2>1, <2>2, <3>2 DEF Join
      <3>5. Main # Reader /\ Main \in Thread /\ Reader \in Thread
            /\ \A d \in Call : Starter(d, 1) # Main /\ Starter(d, 1) \in Thread
        BY Apart, Threads DEF OneInvite
      <3>8. StartsOf(c)'
        BY <3>2, <3>4, <3>5 DEF StartsOf
      <3> QED
        BY <3>8, <3>3, StartsOfKept DEF StartsLeft
    <2> QED
      BY <2>1, <2>2, <2>4, WinnerStarts
  <1>5. ASSUME NEW t \in {Main, Reader}, Answered(t, c)
        PROVE  StartsLeft' /\ OthersAreStopping' /\ SentIsBuilt' /\ StartersStart'
    <2>1. c \in ringing /\ ringing' = ringing \ {c} /\ UNCHANGED invites /\ pc[t].at = "idle"
      BY <1>5 DEF Answered
    <2>2. t \in Thread /\ Goto(t, For("context", c)) /\ UNCHANGED <<started, recording, index>>
      BY <1>5, Threads DEF Answered, legs
    <2>3. /\ pc'[t].at = "context" /\ pc'[t].call = c
          /\ \A u \in Thread : u # t => pc'[u] = pc[u]
      BY <2>2, GotoDoes, ForDoes
    <2>4. StartsLeft'
      <3>1. \A d \in Call, u \in Thread : MayStart(u, d)' <=>
               (MayStart(u, d) /\ u # t) \/ (u = t /\ d = c)
        BY <2>3 DEF MayStart
      <3>2. Main # Reader /\ Main \in Thread /\ Reader \in Thread
            /\ \A d \in Call : Starter(d, 1) \notin {Main, Reader} /\ Starter(d, 1) \in Thread
        BY Apart, Threads DEF OneInvite
      <3>3. /\ \A u \in Thread : MayStart(u, c)' => u \in {t, Starter(c, 1)}
            /\ started[c] <= 1 /\ (MayStart(Starter(c, 1), c)' => started[c] = 0)
            /\ started[c] # 2 /\ invites[c] # 0
        <4>1. MayStart(Starter(c, 1), c)' => MayStart(Starter(c, 1), c)
          BY <3>1, <3>2
        <4>2. started[c] <= 1 /\ (MayStart(Starter(c, 1), c) => started[c] = 0)
          BY <2>1 DEF StartsLeft, StartsOf
        <4>3. started[c] # 2 /\ invites[c] # 0
          <5>1. started[c] \in Nat
            BY SiprecAssumption DEF TInv, TypeOK
          <5> QED
            BY <1>1, <2>1, <4>2, <5>1
        <4>4. \A u \in Thread : MayStart(u, c)' => u \in {t, Starter(c, 1)}
          <5>1. ~MayStart(Main, c) /\ ~MayStart(Reader, c)
                /\ \A u \in Thread : MayStart(u, c) => u \in {Main, Reader, Starter(c, 1)}
            BY <2>1 DEF StartsLeft, StartsOf
          <5> QED
            BY <3>1, <5>1
        <4> QED
          BY <4>1, <4>2, <4>3, <4>4
      <3>4. ASSUME NEW d \in Call, d # c
            PROVE  /\ \A u \in Thread : MayStart(u, d)' => MayStart(u, d)
                   /\ started'[d] = started[d] /\ invites'[d] = invites[d]
                   /\ d \in ringing' => d \in ringing
        BY <2>1, <2>2, <3>1, <3>4
      <3>5. started'[c] = started[c] /\ invites'[c] = invites[c] /\ c \notin ringing'
        BY <2>1, <2>2
      <3>6. started[c] = 1 => ~MayStart(Starter(c, 1), c)'
        BY <3>3
      <3>7. started[c] <= 2
        BY DEF StartsLeft, StartsOf
      <3>8. ~(MayStart(Main, c)' /\ MayStart(Reader, c)')
        BY <3>2, <3>3, <1>5
      <3>9. StartsOf(c)'
        BY <1>5, <3>2, <3>3, <3>5, <3>6, <3>7, <3>8 DEF StartsOf
      <3> QED
        BY <3>9, <3>4, StartsOfKept DEF StartsLeft
    <2> QED
      BY <2>1, <2>2, <2>4, WinnerStarts
  <1>6. CASE RingingFails(c)
    BY <1>6, StartQuiet, Threads DEF RingingFails, TakingDown, legs
  <1>7. CASE HangUp(c) \/ Drop(c)
    <2>1. \E t \in {Main, Api}, at \in {"take", "release"} :
            /\ Goto(t, For(at, c)) /\ pc[t].at = "idle" /\ UNCHANGED <<started, recording, index>>
            /\ ringing' \subseteq ringing /\ UNCHANGED invites
      <3>1. CASE HangUp(c)
        BY <3>1, Threads DEF HangUp, legs
      <3>2. CASE Drop(c)
        BY <3>2, Threads DEF Drop, legs, calls
      <3> QED
        BY <1>7, <3>1, <3>2
    <2> PICK t \in {Main, Api}, at \in {"take", "release"} :
            /\ Goto(t, For(at, c)) /\ pc[t].at = "idle" /\ UNCHANGED <<started, recording, index>>
            /\ ringing' \subseteq ringing /\ UNCHANGED invites
      BY <2>1
    <2>2. pc'[t].at = at /\ \A u \in Thread : u # t => pc'[u] = pc[u]
      BY GotoDoes, ForDoes, Threads
    <2> QED
      BY <2>2, StartQuiet, Threads DEF TakingDown
  <1> QED
    BY <1>3, <1>4, <1>5, <1>6, <1>7

\* A starter that builds a leg is no longer one of those left, and what is in the
\* index when it finds no recording is being taken down.
LEMMA StartBuilds ==
  ASSUME OneInvite, StartInv, NEW t \in Thread, NEW c \in Call, NEW l \in Leg,
         pc[t].at = "register", pc[t].call = c, UNCHANGED <<invites, ringing>>,
         l = [c |-> c, n |-> started[c] + 1], recording[c] = NoLeg, started[c] \in Nat,
         started' = [started EXCEPT ![c] = @ + 1],
         recording' = [recording EXCEPT ![c] = l], index' = index \cup {l},
         pc'[t].at = "send", pc'[t].leg = l, pc'[t].call = c,
         \A u \in Thread : u # t => pc'[u] = pc[u]
  PROVE  StartsLeft' /\ OthersAreStopping' /\ SentIsBuilt' /\ StartersStart'
  <1>inv. TInv /\ StartsLeft /\ OthersAreStopping /\ SentIsBuilt /\ StartersStart
    BY DEF StartInv, IInv
  <1>up. ~TakingDown(t)
    BY DEF TakingDown
  <1>1. \A u \in Thread, d \in Call : MayStart(u, d)' => MayStart(u, d) /\ u # t
    BY DEF MayStart
  <1>2. MayStart(t, c)
    BY DEF MayStart
  <1>3. /\ started'[c] = started[c] + 1 /\ recording'[c] = l
        /\ \A d \in Call : d # c => started'[d] = started[d] /\ recording'[d] = recording[d]
    BY DEF TInv, TypeOK, StartInv, IInv
  <1>4. StartsLeft'
    <2>1. StartsOf(c) /\ started[c] \in {0, 1}
      <3>1. StartsOf(c)
        BY <1>inv DEF StartsLeft
      <3>2. started[c] <= 2 /\ started[c] # 2
        BY <3>1, <1>2 DEF StartsOf
      <3> QED
        BY <3>1, <3>2
    <2>2. /\ t \in {Main, Reader, Starter(c, 1)}
          /\ \A u \in Thread : MayStart(u, c)' => u \in {Main, Reader, Starter(c, 1)} /\ u # t
      BY <1>1, <1>2, <2>1 DEF StartsOf
    <2>3. Main \in Thread /\ Reader \in Thread /\ Starter(c, 1) \in Thread
          /\ Main # Reader /\ Starter(c, 1) \notin {Main, Reader}
      BY Threads, Apart DEF OneInvite
    <2>4. c \in ringing => started[c] = 0 /\ t = Starter(c, 1)
      BY <1>2, <2>1, <2>2, <2>3 DEF StartsOf
    <2>5. started'[c] = 2 => \A u \in Thread : ~MayStart(u, c)'
      <3>1. started[c] = 1 => \A u \in Thread : MayStart(u, c) => u = t
        BY <1>2, <2>1, <2>2, <2>3 DEF StartsOf
      <3> QED
        BY <1>1, <1>3, <2>1, <3>1
    <2>6. started'[c] = 1 =>
            ~(\E u \in {Main, Reader} : MayStart(u, c)' /\ MayStart(Starter(c, 1), c)')
      BY <1>1, <1>2, <2>1, <2>2, <2>3 DEF StartsOf
    <2>7. StartsOf(c)'
      <3>1. invites'[c] # 0 /\ started'[c] \in {1, 2} /\ (c \in ringing' => started'[c] = 1)
        BY <1>2, <1>3, <2>1, <2>4 DEF StartsOf
      <3>2. c \in ringing' => ~MayStart(Main, c)' /\ ~MayStart(Reader, c)'
                              /\ ~MayStart(Starter(c, 1), c)'
        BY <1>1, <2>1, <2>3, <2>4 DEF StartsOf
      <3>3. ~(MayStart(Main, c)' /\ MayStart(Reader, c)')
        BY <1>1, <2>1, <2>3 DEF StartsOf
      <3> QED
        BY <2>2, <2>5, <2>6, <3>1, <3>2, <3>3 DEF StartsOf
    <2> QED
      BY <1>inv, <1>1, <1>3, <2>7, StartsOfKept DEF StartsLeft
  <1>5. OthersAreStopping'
    <2>1. \A m : Stopping(m) => Stopping(m)'
      BY <1>up, StoppingKept
    <2> SUFFICES ASSUME NEW m \in index'
                 PROVE  /\ m.n <= started'[m.c]
                        /\ m.n < started'[m.c] \/ (recording'[m.c] = NoLeg /\ started'[m.c] = 1)
                             => Stopping(m)'
      BY DEF OthersAreStopping
    <2>2. CASE m = l
      BY <1>3, <2>2, SiprecAssumption
    <2>3. CASE m \in index /\ m.c # c
      <3>1. m.c \in Call
        BY <1>inv, <2>3 DEF TInv, TypeOK, Leg
      <3> QED
        BY <1>inv, <1>3, <2>1, <2>3, <3>1 DEF OthersAreStopping
    <2>4. CASE m \in index /\ m.c = c
      <3>1. m.n \in Nat /\ m.n >= 1
        BY <1>inv, <2>4, SiprecAssumption DEF TInv, TypeOK, Leg
      <3>2. m.n <= started[c] /\ started[c] \in {0, 1}
        <4>1. started[c] <= 2 /\ started[c] # 2
          BY <1>inv, <1>2 DEF StartsLeft, StartsOf
        <4> QED
          BY <1>inv, <2>4, <4>1 DEF OthersAreStopping
      <3>3. started[c] = 1
        BY <3>1, <3>2
      <3>4. Stopping(m)
        BY <1>inv, <2>4, <3>3 DEF OthersAreStopping
      <3> QED
        BY <1>3, <2>1, <2>4, <3>1, <3>2, <3>4
    <2> QED
      BY <2>2, <2>3, <2>4
  <1>6. SentIsBuilt'
    <2> SUFFICES ASSUME NEW u \in Thread, pc'[u].at \in {"send", "undo"}
                 PROVE  pc'[u].leg.n <= started'[pc'[u].call]
      BY DEF SentIsBuilt
    <2>1. CASE u = t
      BY <1>3, <2>1
    <2>2. CASE u # t
      <3>1. /\ pc'[u] = pc[u] /\ pc[u].leg \in Leg /\ pc[u].call \in Call
            /\ pc[u].leg.n <= started[pc[u].call]
        BY <1>inv, <2>2 DEF SentIsBuilt, TInv, LocalsSound, Sound
      <3>2. pc[u].leg.n \in Nat
        BY <3>1, SiprecAssumption DEF Leg
      <3> QED
        BY <1>3, <3>1, <3>2
    <2> QED
      BY <2>1, <2>2
  <1>7. StartersStart'
    BY <1>inv, Threads DEF StartersStart, Starting, OneInvite
  <1> QED
    BY <1>4, <1>5, <1>6, <1>7

LEMMA StartRegister ==
  ASSUME OneInvite, StartInv, NEW t \in Thread, Register(t)
  PROVE  StartsLeft' /\ OthersAreStopping' /\ SentIsBuilt' /\ StartersStart'
  <1>1. TInv
    BY DEF StartInv, IInv
  <1>2. pc[t].at = "register" /\ UNCHANGED <<invites, ringing>>
    BY DEF Register, calls
  <1>3. ~TakingDown(t)
    BY <1>2 DEF TakingDown
  <1>4. CASE Return(t) /\ UNCHANGED legs
    BY <1>1, <1>2, <1>3, <1>4, ReturnDoes, StartQuiet DEF legs
  <1> QED
    BY <1>1, <1>2, <1>4, RegisterDoes, StartBuilds

\* A leg that leaves the index or the table, by the read loop or by whoever took it.
LEMMA StartForgets ==
  ASSUME OneInvite, StartInv, NEW t \in Thread, NEW l \in Leg,
         pc'[t].at \in {"idle", "find"}, \A u \in Thread : u # t => pc'[u] = pc[u],
         UNCHANGED <<invites, ringing, started>>,
         \/ /\ recording' = recording
            /\ pc'[t].at = "idle" /\ pc[t].at = "forget" /\ pc[t].leg = l /\ index' = index \ {l}
         \/ /\ recording' = [recording EXCEPT ![l.c] = NoLeg]
            /\ index' = index \ {l} /\ l.n <= started[l.c] /\ ~TakingDown(t) /\ pc'[t].at = "idle"
         \/ /\ recording' = [recording EXCEPT ![l.c] = NoLeg] /\ recording[l.c] = l
            /\ index' = index /\ ~TakingDown(t) /\ pc'[t].at = "find" /\ pc'[t].leg = l
            /\ t \in {Main, Reader, Api}
  PROVE  StartsLeft' /\ OthersAreStopping' /\ SentIsBuilt' /\ StartersStart'
  <1>1. TInv /\ StartsLeft /\ OthersAreStopping /\ SentIsBuilt /\ StartersStart
    BY DEF StartInv, IInv
  <1>2. StartsLeft'
    BY <1>1, MayKept, StartsKept
  <1>3. \A m : m # l /\ Stopping(m) => Stopping(m)'
    BY DEF Stopping, TakingDown
  <1>4. OthersAreStopping'
    <2> SUFFICES ASSUME NEW m \in index'
                 PROVE  /\ m.n <= started[m.c]
                        /\ m.n < started[m.c] \/ (recording'[m.c] = NoLeg /\ started[m.c] = 1)
                             => Stopping(m)'
      BY DEF OthersAreStopping
    <2>1. m \in index /\ m \in Leg /\ m.c \in Call
      BY <1>1 DEF TInv, TypeOK, Leg
    <2>2. m.n <= started[m.c] /\ (m.n < started[m.c] => Stopping(m))
      BY <1>1, <2>1 DEF OthersAreStopping
    <2>3. CASE m = l
      <3>1. pc'[t].at = "find" /\ pc'[t].leg = l
        BY <2>3
      <3> QED
        BY <2>2, <2>3, <3>1 DEF Stopping
    <2>4. CASE m # l /\ (m.c # l.c \/ recording' = recording)
      <3>1. recording'[m.c] = recording[m.c]
        BY <1>1, <2>1, <2>4 DEF TInv, TypeOK
      <3> QED
        BY <1>1, <1>3, <2>1, <2>4, <3>1 DEF OthersAreStopping
    <2>5. CASE m # l /\ m.c = l.c /\ recording' # recording
      <3>1. l.n <= started[l.c]
        BY <2>5, <2>1, SiprecAssumption DEF StartInv, IInv, RecordingIsBuilt
      <3>2. m.n # l.n /\ m.n \in Nat /\ l.n \in Nat /\ m.n >= 1 /\ l.n >= 1
        BY <2>1, <2>5, SiprecAssumption DEF Leg
      <3>3. started[m.c] # 1
        BY <2>2, <2>5, <3>1, <3>2
      <3> QED
        BY <1>3, <2>2, <2>5, <3>3
    <2> QED
      BY <2>3, <2>4, <2>5
  <1>5. SentIsBuilt'
    BY <1>1 DEF SentIsBuilt
  <1>6. StartersStart'
    <2> SUFFICES ASSUME NEW c \in Call PROVE pc'[Starter(c, 1)].at \in Starting \cup {"idle"}
      BY DEF StartersStart
    <2>1. Starter(c, 1) \in Thread /\ Starter(c, 1) \notin {Main, Reader, Api}
      BY Threads, Apart DEF OneInvite
    <2> QED
      BY <1>1, <2>1 DEF StartersStart
  <1> QED
    BY <1>2, <1>4, <1>5, <1>6

LEMMA StartStep == OneInvite /\ StartInv /\ [Next]_vars => StartInv'
  <1> SUFFICES ASSUME OneInvite, StartInv, [Next]_vars
               PROVE  StartsLeft' /\ OthersAreStopping' /\ SentIsBuilt' /\ StartersStart'
    BY IndexStep DEF StartInv
  <1>1. /\ TInv /\ \A t \in Thread : pc[t] \in Ctx /\ Sound(pc[t])
        /\ pc \in [Thread -> Ctx]
    BY DEF StartInv, IInv, TInv, TypeOK, LocalsSound
  <1>2. \A t \in Thread : pc[t].at \notin Starting \cup {"idle"} => t \in {Main, Reader, Api}
    BY DEF StartInv, StartersStart, Thread, OneInvite
  <1>3. ASSUME NEW c \in Call,
               \/ Enter(c) \/ Join(c) \/ RingingFails(c) \/ HangUp(c) \/ Drop(c)
               \/ \E t \in {Main, Reader} : Answered(t, c)
        PROVE  StartsLeft' /\ OthersAreStopping' /\ SentIsBuilt' /\ StartersStart'
    BY <1>3, StartOfCaller
  <1>4. ASSUME NEW t \in Thread, Register(t)
        PROVE  StartsLeft' /\ OthersAreStopping' /\ SentIsBuilt' /\ StartersStart'
    BY <1>4, StartRegister
  <1>5. ASSUME NEW t \in Thread, NEW at, Step(t, at), UNCHANGED <<calls, started, recording, index>>,
               \/ pc[t].at \in {"context", "check"} /\ at \in {"check", "register"}
               \/ pc[t].at = "send" /\ at = "undo"
               \/ pc[t].at = "ack" /\ at = "lookup"
               \/ TakingDown(t) /\ at \in {"unhook", "write", "forget"}
        PROVE  StartsLeft' /\ OthersAreStopping' /\ SentIsBuilt' /\ StartersStart'
    <2>1. /\ pc'[t].at = at /\ pc'[t].call = pc[t].call /\ pc'[t].leg = pc[t].leg
          /\ \A u \in Thread : u # t => pc'[u] = pc[u]
      BY <1>1, <1>5, StepDoes
    <2>2. t \in {Main, Reader, Api} \/ at \in Starting \cup {"idle"}
      BY <1>2, <1>5 DEF Starting, TakingDown
    <2> QED
      BY <1>5, <2>1, <2>2, StartQuiet DEF TakingDown, calls
  <1>6. ASSUME NEW t \in Thread, Return(t), UNCHANGED <<calls, started, recording, index>>,
               ~TakingDown(t)
        PROVE  StartsLeft' /\ OthersAreStopping' /\ SentIsBuilt' /\ StartersStart'
    BY <1>1, <1>6, ReturnDoes, StartQuiet DEF calls
  <1>7. ASSUME UNCHANGED <<pc, calls, started, recording, index>>
        PROVE  StartsLeft' /\ OthersAreStopping' /\ SentIsBuilt' /\ StartersStart'
    BY <1>7, Threads, StartQuiet DEF calls, TakingDown
  <1>8. ASSUME NEW t \in Thread, StartContext(t) \/ StartCheck(t) \/ Send(t)
        PROVE  StartsLeft' /\ OthersAreStopping' /\ SentIsBuilt' /\ StartersStart'
    <2>1. CASE StartContext(t) \/ StartCheck(t)
      BY <1>5, <1>6, <2>1 DEF StartContext, StartCheck, legs, TakingDown
    <2>2. CASE Send(t)
      BY <1>5, <1>6, <2>2 DEF Send, legs, TakingDown
    <2> QED
      BY <1>8, <2>1, <2>2
  <1>9. ASSUME NEW t \in Thread, Undo(t)
        PROVE  StartsLeft' /\ OthersAreStopping' /\ SentIsBuilt' /\ StartersStart'
    <2>1. /\ pc[t].leg \in Leg /\ pc[t].leg.c = pc[t].call /\ pc[t].leg.n <= started[pc[t].call]
          /\ ~TakingDown(t)
      BY <1>1, <1>9 DEF Undo, Sound, TakingDown, StartInv, SentIsBuilt
    <2>2. pc'[t].at = "idle" /\ \A u \in Thread : u # t => pc'[u] = pc[u]
      BY <1>1, <1>9, ReturnDoes DEF Undo
    <2>3. /\ UNCHANGED <<invites, ringing, started>> /\ index' = index \ {pc[t].leg}
          /\ recording' = [recording EXCEPT ![pc[t].leg.c] = NoLeg]
      BY <1>9, <2>1 DEF Undo, calls
    <2> QED
      BY <2>1, <2>2, <2>3, StartForgets
  <1>10. ASSUME NEW l \in Leg, RecorderRefusal(l)
         PROVE  StartsLeft' /\ OthersAreStopping' /\ SentIsBuilt' /\ StartersStart'
    <2>1. /\ pc[Main].at = "idle" /\ l \in index /\ UNCHANGED <<invites, ringing, started, pc>>
          /\ index' = index \ {l} /\ recording' = [recording EXCEPT ![l.c] = NoLeg]
      BY <1>10 DEF RecorderRefusal, calls
    <2>2. l.n <= started[l.c] /\ ~TakingDown(Main)
      BY <2>1 DEF StartInv, OthersAreStopping, TakingDown
    <2> QED
      BY <2>1, <2>2, Threads, StartForgets
  <1>11. ASSUME NEW l \in Leg, RecorderOk(l)
         PROVE  StartsLeft' /\ OthersAreStopping' /\ SentIsBuilt' /\ StartersStart'
    <2> DEFINE ctx == [For("ack", l.c) EXCEPT !.leg = l]
    <2>1. ctx.at = "ack"
      BY DEF For, Idle
    <2>2. pc'[Main].at = "ack" /\ \A u \in Thread : u # Main => pc'[u] = pc[u]
      BY <1>1, <1>11, <2>1, Threads, GotoDoes DEF RecorderOk
    <2>3. ~TakingDown(Main) /\ UNCHANGED <<invites, ringing, started, recording, index>>
      BY <1>11 DEF RecorderOk, TakingDown, calls
    <2> QED
      BY <2>2, <2>3, Threads, StartQuiet
  <1>12. ASSUME NEW t \in Thread, Take(t)
         PROVE  StartsLeft' /\ OthersAreStopping' /\ SentIsBuilt' /\ StartersStart'
    <2> DEFINE l == recording[pc[t].call]
    <2>1. CASE l = NoLeg
      BY <1>6, <1>12, <2>1 DEF Take, TakingDown
    <2>2. CASE l # NoLeg
      <3>1. pc[t].call \in Call /\ l \in Leg /\ l.c = pc[t].call
        BY <1>1, <1>12, <2>2 DEF Take, Sound, TInv, TypeOK, KeysSound
      <3>2. /\ pc'[t].at = "find" /\ pc'[t].leg = l
            /\ \A u \in Thread : u # t => pc'[u] = pc[u]
        <4>1. PICK bye : Goto(t, [pc[t] EXCEPT !.at = "find", !.leg = l, !.bye = bye])
          BY <1>12, <2>2, Zenon DEF Take
        <4> QED
          BY <1>1, <4>1 DEF Goto, Ctx
      <3>3. /\ UNCHANGED <<invites, ringing, started, index>> /\ ~TakingDown(t)
            /\ recording' = [recording EXCEPT ![l.c] = NoLeg] /\ recording[l.c] = l
        BY <1>12, <2>2, <3>1 DEF Take, TakingDown, calls
      <3>4. t \in {Main, Reader, Api}
        BY <1>2, <1>12 DEF Take, Starting
      <3> HIDE DEF l
      <3> QED
        BY <3>1, <3>2, <3>3, <3>4, StartForgets
    <2> QED
      BY <2>1, <2>2
  <1>13. ASSUME NEW t \in Thread, Find(t)
         PROVE  StartsLeft' /\ OthersAreStopping' /\ SentIsBuilt' /\ StartersStart'
    <2>1. /\ pc'[t].at = "unhook" /\ pc'[t].leg = pc[t].leg
          /\ \A u \in Thread : u # t => pc'[u] = pc[u]
      BY <1>1, <1>13 DEF Find, Goto, Ctx
    <2>2. t \in {Main, Reader, Api} /\ UNCHANGED <<invites, ringing, started, recording, index>>
      BY <1>2, <1>13 DEF Find, Starting, legs, calls
    <2> QED
      BY <2>1, <2>2, StartQuiet DEF TakingDown
  <1>14. ASSUME NEW t \in Thread, Unhook(t) \/ Write(t)
         PROVE  StartsLeft' /\ OthersAreStopping' /\ SentIsBuilt' /\ StartersStart'
    <2>1. CASE Unhook(t)
      BY <1>5, <2>1 DEF Unhook, legs, TakingDown
    <2>2. CASE Write(t)
      BY <1>5, <2>2 DEF Write, legs, TakingDown
    <2> QED
      BY <1>14, <2>1, <2>2
  <1>15. ASSUME NEW t \in Thread, Forget(t)
         PROVE  StartsLeft' /\ OthersAreStopping' /\ SentIsBuilt' /\ StartersStart'
    <2>1. pc[t].at = "forget" /\ pc[t].leg \in Leg
      BY <1>1, <1>15 DEF Forget, Sound
    <2>2. pc'[t].at = "idle" /\ \A u \in Thread : u # t => pc'[u] = pc[u]
      BY <1>1, <1>15, ReturnDoes DEF Forget
    <2>3. /\ UNCHANGED <<invites, ringing, started, recording>> /\ index' = index \ {pc[t].leg}
      BY <1>15 DEF Forget, calls
    <2> QED
      BY <2>1, <2>2, <2>3, StartForgets
  <1>16. CASE Ack
    BY <1>5, <1>16, Threads DEF Ack, legs
  <1>17. CASE Lookup \/ Attach
    <2>1. \/ Return(Main)
          \/ \E o : Goto(Main, [pc[Main] EXCEPT !.at = "attach", !.obj = o])
      BY <1>17 DEF Lookup, Attach
    <2>2. pc'[Main].at \in {"idle", "attach"} /\ \A u \in Thread : u # Main => pc'[u] = pc[u]
      <3>1. CASE Return(Main)
        BY <1>1, <3>1, ReturnDoes, Threads
      <3>2. ASSUME NEW o, Goto(Main, [pc[Main] EXCEPT !.at = "attach", !.obj = o])
            PROVE  pc'[Main].at = "attach" /\ \A u \in Thread : u # Main => pc'[u] = pc[u]
        BY <1>1, <3>2, Threads DEF Goto, Ctx
      <3> QED
        BY <2>1, <3>1, <3>2
    <2>3. ~TakingDown(Main) /\ UNCHANGED <<invites, ringing, started, recording, index>>
      BY <1>17 DEF Lookup, Attach, TakingDown, legs, calls
    <2> QED
      BY <2>2, <2>3, Threads, StartQuiet
  <1>18. CASE Release
    <2>1. /\ pc'[Api].at = "take" /\ \A u \in Thread : u # Api => pc'[u] = pc[u]
      BY <1>1, <1>18, Threads, StepDoes DEF Release
    <2>2. ~TakingDown(Api) /\ UNCHANGED <<invites, ringing, started, recording, index>>
      BY <1>18 DEF Release, TakingDown, legs
    <2> QED
      BY <2>1, <2>2, Threads, StartQuiet
  <1>19. ASSUME NEW l \in Leg, RecorderDecides(l)
         PROVE  StartsLeft' /\ OthersAreStopping' /\ SentIsBuilt' /\ StartersStart'
    BY <1>7, <1>19 DEF RecorderDecides, legs
  <1>20. CASE UNCHANGED vars
    BY <1>7, <1>20 DEF vars, legs
  <1> QED
    BY <1>3, <1>4, <1>8, <1>9, <1>10, <1>11, <1>12, <1>13, <1>14, <1>15, <1>16, <1>17,
       <1>18, <1>19, <1>20 DEF Next, Emit, Settle, Stop

\* A call is recorded once, with TLS winners, drops and any number of callers, when
\* each of them rings once ("Duplicate tryStartSIPREC from the winner path is deduped by
\* emitSIPRECInvite"): of the legs that can still be answered one at most is not being
\* taken down.
THEOREM RecordedOnceHolds == OneInvite => (Spec => []RecordedOnce)
  <1> SUFFICES ASSUME OneInvite PROVE Spec => []RecordedOnce
    OBVIOUS
  <1>1. Init => StartInv
    <2> SUFFICES ASSUME Init PROVE StartInv
      OBVIOUS
    <2>1. IInv
      BY TypeInit, IdleSound DEF Init, IInv, RecordingIsBuilt, TakenIsOld, TakingDown
    <2>2. \A t \in Thread : pc[t].at = "idle"
      BY DEF Init, Idle
    <2>3. Main \in Thread /\ Reader \in Thread /\ \A c \in Call : Starter(c, 1) \in Thread
      BY Threads DEF OneInvite
    <2>4. StartsLeft
      <3>1. \A t \in Thread, c \in Call : ~MayStart(t, c)
        BY <2>2 DEF MayStart
      <3>2. \A c \in Call : started[c] = 0 /\ c \notin ringing
        BY DEF Init
      <3>3. ASSUME NEW c \in Call PROVE StartsOf(c)
        <4>1. /\ \A t \in Thread : ~MayStart(t, c)
              /\ ~MayStart(Main, c) /\ ~MayStart(Reader, c) /\ ~MayStart(Starter(c, 1), c)
          BY <2>3, <3>1
        <4>2. started[c] = 0 /\ c \notin ringing
          BY <3>2
        <4> QED
          BY <4>1, <4>2 DEF StartsOf
      <3> QED
        BY <3>3 DEF StartsLeft
    <2>5. OthersAreStopping /\ SentIsBuilt
      BY <2>2 DEF Init, OthersAreStopping, SentIsBuilt
    <2>6. StartersStart
      BY <2>2, <2>3 DEF StartersStart
    <2> QED
      BY <2>1, <2>4, <2>5, <2>6 DEF StartInv
  <1>2. StartInv /\ [Next]_vars => StartInv'
    BY StartStep
  <1>3. StartInv => RecordedOnce
    <2> SUFFICES ASSUME StartInv, NEW l \in index, NEW m \in index,
                        l.c = m.c, ~Stopping(l), ~Stopping(m)
                 PROVE  l = m
      BY DEF RecordedOnce
    <2>1. l \in Leg /\ m \in Leg
      BY DEF StartInv, IInv, TInv, TypeOK
    <2>2. l.n <= started[l.c] /\ ~(l.n < started[l.c]) /\ m.n <= started[l.c] /\ ~(m.n < started[l.c])
      BY DEF StartInv, OthersAreStopping
    <2>3. l.n \in Nat /\ m.n \in Nat /\ started[l.c] \in Nat
      BY <2>1, SiprecAssumption DEF StartInv, IInv, TInv, TypeOK, Leg
    <2> QED
      BY <2>1, <2>2, <2>3 DEF Leg
  <1> QED
    BY <1>1, <1>2, <1>3, PTL DEF Spec

-----------------------------------------------------------------------------
(***************************************************************************)
(* One INVITE per caller, no TLS winner and no drops: the read loop and    *)
(* the early starter are alone, and only the read loop takes a leg down.   *)
(***************************************************************************)
ReadLoopOnly == MaxCalls = 1 /\ ~TlsWinner /\ MaxDrops = 0

Settling == {"ack", "lookup", "attach"}
Ending == {"take", "find", "unhook", "write", "forget"}

OnlyTwo ==
  /\ pc[Reader].at = "idle" /\ pc[Api].at = "idle"
  /\ \A c \in Call : pc[Starter(c, 1)].at # "idle" =>
       /\ pc[Starter(c, 1)].at \in Starting /\ pc[Starter(c, 1)].call = c
       /\ invites[c] = 1

\* Where the read loop stands.
ReadLoopKnows ==
  /\ pc[Main].at # "idle" => invites[pc[Main].call] = 1 /\ pc[Main].at # "release"
  /\ pc[Main].at \in Starting => pc[Main].call \notin ringing
  /\ pc[Main].at \in Settling =>
       recording[pc[Main].call] = pc[Main].leg /\ recorder[pc[Main].leg] = "answered"
  /\ pc[Main].at = "attach" => pc[Main].obj = entry[pc[Main].call] /\ pc[Main].obj # NoEntry
  /\ pc[Main].at \in Ending => entry[pc[Main].call] = NoEntry /\ pc[Main].call \notin ringing
  /\ pc[Main].at = "unhook" => pc[Main].obj = NoEntry

\* A caller has an entry while he rings, and none before his INVITE.
EntriesAreOwn == \A c \in Call :
  /\ invites[c] = 0 => entry[c] = NoEntry /\ recording[c] = NoLeg
  /\ c \in ringing => entry[c] = [c |-> c, k |-> 1, up |-> FALSE]
  /\ entry[c] # NoEntry => entry[c].c = c

LegsAreBuilt == \A l \in Leg :
  /\ l \in index \/ l \in confirmed \/ recorder[l] # "none" => l.n <= started[l.c]
  /\ l \in confirmed => recorder[l] = "answered"

\* The caller has gone, and nobody starts a recording for him but the early starter.
Over(c) ==
  /\ invites[c] = 1 /\ c \notin ringing /\ entry[c] = NoEntry
  /\ ~(pc[Main].at \in Starting /\ pc[Main].call = c)

\* A leg that is about to be sent is the recording of its caller, unless he has gone.
SentIsRecording ==
  /\ \A t \in Thread : pc[t].at \in {"send", "undo"} =>
       recorder[pc[t].leg] = "none" /\ pc[t].leg.n <= started[pc[t].call]
  /\ pc[Main].at \in {"send", "undo"} =>
       /\ recording[pc[Main].call] = pc[Main].leg
       /\ pc[Starter(pc[Main].call, 1)].at \notin {"send", "undo"}
  /\ \A c \in Call : pc[Starter(c, 1)].at \in {"send", "undo"} =>
       \/ recording[c] = pc[Starter(c, 1)].leg
       \/ recording[c] = NoLeg /\ Over(c)

\* What is forwarded goes from the caller's entry to his recorder, which has answered.
MediaIsOwn == \A o \in Entry : media[o] # NoLeg =>
  entry[o.c] = o /\ recording[o.c] = media[o] /\ recorder[media[o]] = "answered"

\* A recorder that has answered gets the media, or the read loop is on the way.
ForkedOrUnderway == GroupCall = {} =>
  \A c \in Call : entry[c] # NoEntry /\ recording[c] \in confirmed =>
    media[entry[c]] = recording[c] \/ (pc[Main].at \in Settling /\ pc[Main].call = c)

LoopParts ==
  /\ OnlyTwo /\ ReadLoopKnows /\ EntriesAreOwn /\ LegsAreBuilt /\ SentIsRecording
  /\ IndexedIsRecording /\ MediaIsOwn /\ ForkedOrUnderway

\* The inductive invariant behind the three properties.
LoopInv == IInv /\ LoopParts

\* Who is at work: the read loop, or the early starter of a caller.
LEMMA Who ==
  ASSUME ReadLoopOnly, LoopInv, NEW t \in Thread, pc[t].at # "idle"
  PROVE  \/ t = Main
         \/ \E c \in Call : /\ t = Starter(c, 1) /\ pc[t].call = c /\ pc[t].at \in Starting
                            /\ invites[c] = 1
  BY DEF Thread, ReadLoopOnly, LoopInv, LoopParts, OnlyTwo

\* The read loop alone takes legs down.
LEMMA MainStops ==
  ASSUME ReadLoopOnly, LoopInv, NEW l, Stopping(l)
  PROVE  TakingDown(Main) /\ pc[Main].leg = l
  BY Who DEF Stopping, TakingDown, Starting

\* What LoopInv says of the tables' types, and of the callers' threads.
LEMMA LoopTypes ==
  ASSUME ReadLoopOnly, LoopInv
  PROVE  /\ TInv
         /\ \A t \in Thread : pc[t] \in Ctx /\ Sound(pc[t])
         /\ Main \in Thread /\ \A c \in Call : Starter(c, 1) \in Thread /\ Starter(c, 1) # Main
         /\ \A c, d : Starter(c, 1) = Starter(d, 1) => c = d
         /\ \A c \in Call : invites[c] \in {0, 1} /\ started[c] \in Nat
         /\ \A c \in ringing : invites[c] = 1
         /\ \A l \in Leg : l.c \in Call /\ l.n \in Nat /\ l # NoLeg
         /\ \A c \in Call : recording[c] # NoLeg =>
              /\ recording[c] \in Leg /\ recording[c].c = c /\ recording[c].n <= started[c]
              /\ recording[c] \in index
         /\ \A o \in Entry : o.c \in Call /\ o # NoEntry
         /\ confirmed \subseteq Leg /\ index \subseteq Leg /\ ringing \subseteq Call
  <1>1. TInv /\ \A t \in Thread : pc[t] \in Ctx /\ Sound(pc[t])
    BY DEF LoopInv, IInv, TInv, TypeOK, LocalsSound
  <1>2. Main \in Thread /\ \A c \in Call : Starter(c, 1) \in Thread /\ Starter(c, 1) # Main
    BY Threads, Apart DEF ReadLoopOnly
  <1>3. \A c, d : Starter(c, 1) = Starter(d, 1) => c = d
    BY Apart
  <1>4. \A c \in Call : invites[c] \in {0, 1} /\ started[c] \in Nat
    BY <1>1, SiprecAssumption DEF ReadLoopOnly, TInv, TypeOK
  <1>5. \A c \in ringing : invites[c] = 1
    <2> SUFFICES ASSUME NEW c \in ringing PROVE invites[c] = 1
      OBVIOUS
    <2>1. c \in Call /\ invites[c] > 0
      BY <1>1 DEF TInv, TypeOK, KeysSound
    <2> QED
      BY <1>4, <2>1
  <1>6. \A l \in Leg : l.c \in Call /\ l.n \in Nat /\ l # NoLeg
    BY SiprecAssumption DEF Leg
  <1>7. \A c \in Call : recording[c] # NoLeg =>
              /\ recording[c] \in Leg /\ recording[c].c = c /\ recording[c].n <= started[c]
              /\ recording[c] \in index
    BY <1>1 DEF LoopInv, IInv, TInv, TypeOK, KeysSound, RecordingIsBuilt
  <1>8. \A o \in Entry : o.c \in Call /\ o # NoEntry
    BY SiprecAssumption DEF Entry
  <1>9. confirmed \subseteq Leg /\ index \subseteq Leg /\ ringing \subseteq Call
    BY <1>1 DEF TInv, TypeOK
  <1> QED
    BY <1>1, <1>2, <1>3, <1>4, <1>5, <1>6, <1>7, <1>8, <1>9

\* A step of the read loop that moves nothing but the read loop.
LEMMA QuietMain ==
  ASSUME ReadLoopOnly, LoopInv, UNCHANGED <<calls, media, legs, recorder>>,
         \A u \in Thread : u # Main => pc'[u] = pc[u],
         pc'[Main].at # "release",
         pc'[Main].at # "idle" => pc[Main].at # "idle" /\ pc'[Main].call = pc[Main].call,
         pc'[Main].at \in Starting => pc[Main].at \in Starting,
         pc'[Main].at \in {"send", "undo"} =>
           pc[Main].at \in {"send", "undo"} /\ pc'[Main].leg = pc[Main].leg,
         pc'[Main].at \in Settling => pc[Main].at \in Settling /\ pc'[Main].leg = pc[Main].leg,
         pc'[Main].at = "attach" =>
           pc'[Main].obj = entry[pc[Main].call] /\ pc'[Main].obj # NoEntry,
         pc'[Main].at \in Ending => pc[Main].at \in Ending,
         pc'[Main].at = "unhook" => pc'[Main].obj = NoEntry,
         TakingDown(Main) => TakingDown(Main)' /\ pc'[Main].leg = pc[Main].leg,
         pc[Main].at \in Settling =>
           pc'[Main].at \in Settling \/ GroupCall # {} \/ entry[pc[Main].call] = NoEntry
  PROVE  LoopParts'
  <1> USE DEF LoopInv, LoopParts, calls, legs
  <1>1. OnlyTwo'
    BY LoopTypes, Threads, Apart DEF OnlyTwo
  <1>2. ReadLoopKnows'
    BY DEF ReadLoopKnows, Starting, Settling, Ending
  <1>3. EntriesAreOwn'
    BY DEF EntriesAreOwn
  <1>4. LegsAreBuilt'
    BY DEF LegsAreBuilt
  <1>5. SentIsRecording'
    <2>1. \A c \in Call : pc'[Starter(c, 1)] = pc[Starter(c, 1)]
      BY LoopTypes
    <2>2. pc[Main].at # "idle" => pc[Main].call \in Call
      BY LoopTypes DEF Sound
    <2>3. \A c \in Call : Over(c) => Over(c)'
      BY DEF Over, Starting
    <2>4. \A t \in Thread : pc'[t].at \in {"send", "undo"} =>
            pc[t].at \in {"send", "undo"} /\ pc'[t].leg = pc[t].leg /\ pc'[t].call = pc[t].call
      OBVIOUS
    <2>5. (\A t \in Thread : pc[t].at \in {"send", "undo"} =>
             recorder[pc[t].leg] = "none" /\ pc[t].leg.n <= started[pc[t].call])'
      BY <2>4 DEF SentIsRecording
    <2>6. (pc[Main].at \in {"send", "undo"} =>
            /\ recording[pc[Main].call] = pc[Main].leg
            /\ pc[Starter(pc[Main].call, 1)].at \notin {"send", "undo"})'
      BY <2>1, <2>2, <2>4, LoopTypes DEF SentIsRecording
    <2>7. (\A c \in Call : pc[Starter(c, 1)].at \in {"send", "undo"} =>
             \/ recording[c] = pc[Starter(c, 1)].leg
             \/ recording[c] = NoLeg /\ Over(c))'
      BY <2>1, <2>3 DEF SentIsRecording
    <2> QED
      BY <2>5, <2>6, <2>7 DEF SentIsRecording
  <1>6. IndexedIsRecording'
    <2>1. \A l : Stopping(l) => Stopping(l)'
      BY LoopTypes, StoppingKept
    <2> QED
      BY <2>1 DEF IndexedIsRecording
  <1>7. MediaIsOwn'
    BY DEF MediaIsOwn
  <1>8. ForkedOrUnderway'
    BY DEF ForkedOrUnderway, Settling
  <1> QED
    BY <1>1, <1>2, <1>3, <1>4, <1>5, <1>6, <1>7, <1>8

\* The same for an early starter.
LEMMA QuietStarter ==
  ASSUME ReadLoopOnly, LoopInv, NEW c \in Call, UNCHANGED <<calls, media, legs, recorder>>,
         \A u \in Thread : u # Starter(c, 1) => pc'[u] = pc[u],
         pc'[Starter(c, 1)].at # "idle" =>
           /\ pc[Starter(c, 1)].at # "idle" /\ pc'[Starter(c, 1)].at \in Starting
           /\ pc'[Starter(c, 1)].call = pc[Starter(c, 1)].call,
         pc'[Starter(c, 1)].at \in {"send", "undo"} =>
           pc[Starter(c, 1)].at \in {"send", "undo"} /\ pc'[Starter(c, 1)].leg = pc[Starter(c, 1)].leg
  PROVE  LoopParts'
  <1> USE DEF LoopInv, LoopParts, calls, legs
  <1>1. pc'[Main] = pc[Main] /\ \A d \in Call : d # c => pc'[Starter(d, 1)] = pc[Starter(d, 1)]
    BY LoopTypes
  <1>2. OnlyTwo'
    BY <1>1, LoopTypes, Threads, Apart DEF OnlyTwo
  <1>3. ReadLoopKnows'
    BY <1>1 DEF ReadLoopKnows
  <1>4. EntriesAreOwn'
    BY DEF EntriesAreOwn
  <1>5. LegsAreBuilt'
    BY DEF LegsAreBuilt
  <1>6. SentIsRecording'
    <2>1. \A d \in Call : Over(d) => Over(d)'
      BY <1>1 DEF Over
    <2>2. \A t \in Thread : pc'[t].at \in {"send", "undo"} =>
            pc[t].at \in {"send", "undo"} /\ pc'[t].leg = pc[t].leg /\ pc'[t].call = pc[t].call
      BY DEF Starting
    <2>3. (\A t \in Thread : pc[t].at \in {"send", "undo"} =>
             recorder[pc[t].leg] = "none" /\ pc[t].leg.n <= started[pc[t].call])'
      BY <2>2 DEF SentIsRecording
    <2>4. (pc[Main].at \in {"send", "undo"} =>
            /\ recording[pc[Main].call] = pc[Main].leg
            /\ pc[Starter(pc[Main].call, 1)].at \notin {"send", "undo"})'
      BY <1>1, <2>2, LoopTypes DEF SentIsRecording, Sound
    <2>5. (\A d \in Call : pc[Starter(d, 1)].at \in {"send", "undo"} =>
             \/ recording[d] = pc[Starter(d, 1)].leg
             \/ recording[d] = NoLeg /\ Over(d))'
      BY <2>1, <2>2, LoopTypes DEF SentIsRecording
    <2> QED
      BY <2>3, <2>4, <2>5 DEF SentIsRecording
  <1>7. IndexedIsRecording'
    <2>1. \A l : Stopping(l) => Stopping(l)'
      <3>1. ~TakingDown(Starter(c, 1))
        BY LoopTypes DEF OnlyTwo, Starting, TakingDown
      <3> QED
        BY <3>1, LoopTypes, StoppingKept
    <2> QED
      BY <2>1 DEF IndexedIsRecording
  <1>8. MediaIsOwn'
    BY DEF MediaIsOwn
  <1>9. ForkedOrUnderway'
    BY <1>1 DEF ForkedOrUnderway
  <1> QED
    BY <1>2, <1>3, <1>4, <1>5, <1>6, <1>7, <1>8, <1>9

\* A caller whom the server does not know yet.
LEMMA NewCaller ==
  ASSUME ReadLoopOnly, LoopInv, NEW c \in Call, invites[c] < MaxCalls
  PROVE  /\ invites[c] = 0 /\ entry[c] = NoEntry /\ recording[c] = NoLeg
         /\ pc[Starter(c, 1)].at = "idle" /\ ~Over(c) /\ c \notin ringing
         /\ \A o \in Entry : media[o] # NoLeg => o.c # c
  <1>1. invites[c] = 0
    BY LoopTypes DEF ReadLoopOnly
  <1>2. entry[c] = NoEntry /\ recording[c] = NoLeg
    BY <1>1 DEF LoopInv, LoopParts, EntriesAreOwn
  <1>3. pc[Starter(c, 1)].at = "idle" /\ ~Over(c)
    BY <1>1 DEF LoopInv, LoopParts, OnlyTwo, Over
  <1>4. c \notin ringing
    BY <1>1, LoopTypes
  <1>5. \A o \in Entry : media[o] # NoLeg => o.c # c
    BY <1>2, LoopTypes DEF LoopInv, LoopParts, MediaIsOwn
  <1> QED
    BY <1>1, <1>2, <1>3, <1>4, <1>5

\* The entry of a key is one of the key's.
LEMMA EntryTypes ==
  ASSUME ReadLoopOnly, LoopInv, NEW c \in Call, entry[c] # NoEntry
  PROVE  entry[c] \in Entry /\ entry[c].c = c /\ invites[c] = 1
  <1>1. entry[c] \in Entry
    BY LoopTypes DEF TInv, TypeOK
  <1>2. entry[c].c = c /\ invites[c] # 0
    BY DEF LoopInv, LoopParts, EntriesAreOwn
  <1> QED
    BY <1>1, <1>2, LoopTypes

LEMMA LoopEnter ==
  ASSUME ReadLoopOnly, LoopInv, NEW c \in Call, Enter(c)
  PROVE  LoopParts'
  <1> USE DEF LoopInv, LoopParts
  <1>1. /\ invites[c] = 0 /\ entry[c] = NoEntry /\ recording[c] = NoLeg
        /\ pc[Starter(c, 1)].at = "idle" /\ ~Over(c) /\ c \notin ringing
        /\ \A o \in Entry : media[o] # NoLeg => o.c # c
    BY NewCaller DEF Enter
  <1>2. /\ Goto(Starter(c, 1), For("context", c)) /\ pc[Main].at = "idle"
        /\ UNCHANGED <<media, started, recording, index, confirmed, recorder>>
    BY <1>1 DEF Enter, legs, wire
  <1>3. /\ pc'[Starter(c, 1)].at = "context" /\ pc'[Starter(c, 1)].call = c
        /\ \A u \in Thread : u # Starter(c, 1) => pc'[u] = pc[u]
    BY <1>2, LoopTypes, GotoDoes, ForDoes
  <1>4. pc'[Main] = pc[Main] /\ \A d \in Call : d # c => pc'[Starter(d, 1)] = pc[Starter(d, 1)]
    BY <1>3, LoopTypes
  <1>5. invites'[c] = 1 /\ \A d \in Call : d # c => invites'[d] = invites[d]
    BY <1>1, LoopTypes DEF Enter, TInv, TypeOK
  <1>6. /\ entry'[c] = [c |-> c, k |-> 1, up |-> FALSE]
        /\ \A d \in Call : d # c => entry'[d] = entry[d]
    BY <1>1, LoopTypes DEF Enter, TInv, TypeOK
  <1>7. ringing' = ringing \cup {c}
    BY DEF Enter
  <1>8. OnlyTwo'
    BY <1>3, <1>4, <1>5, Threads, Apart DEF OnlyTwo, Starting
  <1>9. ReadLoopKnows'
    BY <1>2, <1>4 DEF ReadLoopKnows, Starting, Settling, Ending
  <1>10. EntriesAreOwn'
    <2> SUFFICES ASSUME NEW d \in Call
                 PROVE  /\ invites'[d] = 0 => entry'[d] = NoEntry /\ recording[d] = NoLeg
                        /\ d \in ringing' => entry'[d] = [c |-> d, k |-> 1, up |-> FALSE]
                        /\ entry'[d] # NoEntry => entry'[d].c = d
      BY <1>2 DEF EntriesAreOwn
    <2>1. CASE d = c
      BY <1>5, <1>6, <2>1
    <2>2. CASE d # c
      BY <1>5, <1>6, <1>7, <2>2 DEF EntriesAreOwn
    <2> QED
      BY <2>1, <2>2
  <1>11. LegsAreBuilt'
    BY <1>2 DEF LegsAreBuilt
  <1>12. SentIsRecording'
    <2>1. \A d \in Call : Over(d) => d # c /\ Over(d)'
      BY <1>1, <1>2, <1>4, <1>5, <1>6, <1>7 DEF Over, Starting
    <2> QED
      BY <1>2, <1>3, <1>4, <2>1 DEF SentIsRecording
  <1>13. IndexedIsRecording'
    BY <1>2, MainStops DEF IndexedIsRecording, TakingDown
  <1>14. MediaIsOwn'
    BY <1>1, <1>2, <1>6, LoopTypes DEF MediaIsOwn
  <1>15. ForkedOrUnderway'
    BY <1>1, <1>2, <1>4, <1>6, LoopTypes DEF ForkedOrUnderway
  <1> QED
    BY <1>8, <1>9, <1>10, <1>11, <1>12, <1>13, <1>14, <1>15

LEMMA LoopJoin ==
  ASSUME ReadLoopOnly, LoopInv, NEW c \in Call, Join(c)
  PROVE  LoopParts'
  <1> USE DEF LoopInv, LoopParts
  <1>1. /\ invites[c] = 0 /\ entry[c] = NoEntry /\ recording[c] = NoLeg
        /\ pc[Starter(c, 1)].at = "idle" /\ ~Over(c) /\ c \notin ringing
        /\ \A o \in Entry : media[o] # NoLeg => o.c # c
    BY NewCaller DEF Join
  <1>2. /\ Goto(Main, For("context", c)) /\ pc[Main].at = "idle"
        /\ UNCHANGED <<ringing, media, started, recording, index, confirmed, recorder>>
    BY DEF Join, legs, wire
  <1>3. /\ pc'[Main].at = "context" /\ pc'[Main].call = c
        /\ \A u \in Thread : u # Main => pc'[u] = pc[u]
    BY <1>2, LoopTypes, GotoDoes, ForDoes
  <1>4. \A d \in Call : pc'[Starter(d, 1)] = pc[Starter(d, 1)]
    BY <1>3, LoopTypes
  <1>5. invites'[c] = 1 /\ \A d \in Call : d # c => invites'[d] = invites[d]
    BY <1>1, LoopTypes DEF Join, TInv, TypeOK
  <1>6. /\ entry'[c] = [c |-> c, k |-> 1, up |-> TRUE]
        /\ \A d \in Call : d # c => entry'[d] = entry[d]
    BY <1>1, LoopTypes DEF Join, TInv, TypeOK
  <1>8. OnlyTwo'
    BY <1>3, <1>4, <1>5, Threads, Apart DEF OnlyTwo, Starting
  <1>9. ReadLoopKnows'
    BY <1>1, <1>2, <1>3, <1>5 DEF ReadLoopKnows, Starting, Settling, Ending
  <1>10. EntriesAreOwn'
    <2> SUFFICES ASSUME NEW d \in Call
                 PROVE  /\ invites'[d] = 0 => entry'[d] = NoEntry /\ recording[d] = NoLeg
                        /\ d \in ringing => entry'[d] = [c |-> d, k |-> 1, up |-> FALSE]
                        /\ entry'[d] # NoEntry => entry'[d].c = d
      BY <1>2 DEF EntriesAreOwn
    <2>1. CASE d = c
      BY <1>1, <1>5, <1>6, <2>1
    <2>2. CASE d # c
      BY <1>5, <1>6, <2>2 DEF EntriesAreOwn
    <2> QED
      BY <2>1, <2>2
  <1>11. LegsAreBuilt'
    BY <1>2 DEF LegsAreBuilt
  <1>12. SentIsRecording'
    <2>1. \A d \in Call : Over(d) => d # c /\ Over(d)'
      BY <1>1, <1>2, <1>3, <1>5, <1>6 DEF Over, Starting
    <2> QED
      BY <1>2, <1>3, <1>4, <2>1 DEF SentIsRecording
  <1>13. IndexedIsRecording'
    BY <1>2, MainStops DEF IndexedIsRecording, TakingDown
  <1>14. MediaIsOwn'
    BY <1>1, <1>2, <1>6, LoopTypes DEF MediaIsOwn
  <1>15. ForkedOrUnderway'
    BY <1>1, <1>2, <1>6, LoopTypes DEF ForkedOrUnderway, Settling
  <1> QED
    BY <1>8, <1>9, <1>10, <1>11, <1>12, <1>13, <1>14, <1>15

LEMMA LoopRingingFails ==
  ASSUME ReadLoopOnly, LoopInv, NEW c \in Call, RingingFails(c)
  PROVE  LoopParts'
  <1> USE DEF LoopInv, LoopParts
  <1>1. /\ ringing' = ringing \ {c} /\ UNCHANGED <<invites, entry, media, pc, recorder>>
        /\ UNCHANGED <<started, recording, index, confirmed>>
    BY DEF RingingFails, legs, wire
  <1>2. OnlyTwo' /\ ReadLoopKnows' /\ EntriesAreOwn' /\ LegsAreBuilt'
    BY <1>1 DEF OnlyTwo, ReadLoopKnows, EntriesAreOwn, LegsAreBuilt
  <1>3. SentIsRecording'
    BY <1>1 DEF SentIsRecording, Over
  <1>4. IndexedIsRecording'
    BY <1>1 DEF IndexedIsRecording, Stopping
  <1>5. MediaIsOwn' /\ ForkedOrUnderway'
    BY <1>1 DEF MediaIsOwn, ForkedOrUnderway
  <1> QED
    BY <1>2, <1>3, <1>4, <1>5

LEMMA LoopHangUp ==
  ASSUME ReadLoopOnly, LoopInv, NEW c \in Call, HangUp(c)
  PROVE  LoopParts'
  <1> USE DEF LoopInv, LoopParts
  <1>1. /\ pc[Main].at = "idle" /\ entry[c] # NoEntry /\ entry[c] \in Entry /\ entry[c].c = c
        /\ ringing' = ringing \ {c} /\ invites[c] = 1
    BY EntryTypes DEF HangUp
  <1>2. /\ Goto(Main, For("take", c))
        /\ UNCHANGED <<invites, started, recording, index, confirmed, recorder>>
    BY DEF HangUp, legs, wire
  <1>3. /\ pc'[Main].at = "take" /\ pc'[Main].call = c
        /\ \A u \in Thread : u # Main => pc'[u] = pc[u]
    BY <1>2, LoopTypes, GotoDoes, ForDoes
  <1>4. \A d \in Call : pc'[Starter(d, 1)] = pc[Starter(d, 1)]
    BY <1>3, LoopTypes
  <1>5. entry'[c] = NoEntry /\ \A d \in Call : d # c => entry'[d] = entry[d]
    BY LoopTypes DEF HangUp, TInv, TypeOK
  <1>6. media'[entry[c]] = NoLeg /\ \A o \in Entry : o # entry[c] => media'[o] = media[o]
    BY <1>1, LoopTypes DEF HangUp, Unhooked, TInv, TypeOK
  <1>7. OnlyTwo'
    BY <1>2, <1>3, <1>4, Threads, Apart DEF OnlyTwo
  <1>8. ReadLoopKnows'
    BY <1>1, <1>2, <1>3, <1>5 DEF ReadLoopKnows, Starting, Settling, Ending
  <1>9. EntriesAreOwn'
    BY <1>1, <1>2, <1>5 DEF EntriesAreOwn
  <1>10. LegsAreBuilt'
    BY <1>2 DEF LegsAreBuilt
  <1>11. SentIsRecording'
    <2>1. \A d \in Call : Over(d) => Over(d)'
      BY <1>1, <1>2, <1>3, <1>5 DEF Over, Starting
    <2> QED
      BY <1>2, <1>3, <1>4, <2>1 DEF SentIsRecording
  <1>12. IndexedIsRecording'
    BY <1>1, <1>2, MainStops DEF IndexedIsRecording, TakingDown
  <1>13. MediaIsOwn'
    <2> SUFFICES ASSUME NEW o \in Entry, media'[o] # NoLeg
                 PROVE  entry'[o.c] = o /\ recording'[o.c] = media'[o] /\ recorder'[media'[o]] = "answered"
      BY DEF MediaIsOwn
    <2>1. o # entry[c] /\ media'[o] = media[o]
      BY <1>6
    <2>2. entry[o.c] = o /\ recording[o.c] = media[o] /\ recorder[media[o]] = "answered"
      BY <2>1 DEF MediaIsOwn
    <2> QED
      BY <1>2, <1>5, <2>1, <2>2, LoopTypes
  <1>14. ForkedOrUnderway'
    <2> SUFFICES ASSUME GroupCall = {}, NEW d \in Call, entry'[d] # NoEntry, recording[d] \in confirmed
                 PROVE  media'[entry'[d]] = recording[d]
      BY <1>2 DEF ForkedOrUnderway
    <2>1. d # c /\ entry'[d] = entry[d]
      BY <1>5
    <2>2. media[entry[d]] = recording[d]
      BY <1>1, <2>1 DEF ForkedOrUnderway, Settling
    <2>3. entry[d] \in Entry /\ entry[d].c = d
      BY <2>1, EntryTypes
    <2> QED
      BY <1>1, <1>6, <2>1, <2>2, <2>3
  <1> QED
    BY <1>7, <1>8, <1>9, <1>10, <1>11, <1>12, <1>13, <1>14

LEMMA LoopAnswered ==
  ASSUME ReadLoopOnly, LoopInv, NEW c \in Call, Answered(Main, c)
  PROVE  LoopParts'
  <1> USE DEF LoopInv, LoopParts
  <1> DEFINE old == [c |-> c, k |-> 1, up |-> FALSE]
             new == [c |-> c, k |-> 1, up |-> TRUE]
  <1>1. /\ pc[Main].at = "idle" /\ c \in ringing /\ entry[c] = old /\ invites[c] = 1
        /\ ringing' = ringing \ {c} /\ old \in Entry /\ new \in Entry /\ old # new
        /\ old # NoEntry
    <2>1. pc[Main].at = "idle" /\ c \in ringing /\ ringing' = ringing \ {c}
      BY DEF Answered
    <2>2. entry[c] = old /\ invites[c] = 1
      BY <2>1, LoopTypes DEF EntriesAreOwn
    <2>3. old \in Entry /\ new \in Entry /\ old # new
      BY DEF Entry, ReadLoopOnly
    <2> QED
      BY <2>1, <2>2, <2>3, SiprecAssumption
  <1>2. /\ Goto(Main, For("context", c))
        /\ UNCHANGED <<invites, started, recording, index, confirmed, recorder>>
    BY DEF Answered, legs, wire
  <1>3. /\ pc'[Main].at = "context" /\ pc'[Main].call = c
        /\ \A u \in Thread : u # Main => pc'[u] = pc[u]
    BY <1>2, LoopTypes, GotoDoes, ForDoes
  <1>4. \A d \in Call : pc'[Starter(d, 1)] = pc[Starter(d, 1)]
    BY <1>3, LoopTypes
  <1>5. entry'[c] = new /\ \A d \in Call : d # c => entry'[d] = entry[d]
    BY <1>1, LoopTypes DEF Answered, TInv, TypeOK
  <1>6. /\ media'[new] = media[old] /\ media'[old] = NoLeg
        /\ \A o \in Entry : o \notin {old, new} => media'[o] = media[o]
    <2>1. media' = [media EXCEPT ![new] = media[old], ![old] = NoLeg]
      BY <1>1 DEF Answered
    <2>2. media \in [Entry -> Leg \cup {NoLeg}]
      BY LoopTypes DEF TInv, TypeOK
    <2> HIDE DEF old, new
    <2> QED
      BY <1>1, <2>1, <2>2
  <1>7. old.c = c /\ new.c = c
    OBVIOUS
  <1> HIDE DEF old, new
  <1>8. OnlyTwo'
    BY <1>2, <1>3, <1>4, Threads, Apart DEF OnlyTwo
  <1>9. ReadLoopKnows'
    BY <1>1, <1>2, <1>3, <1>5 DEF ReadLoopKnows, Starting, Settling, Ending
  <1>10. EntriesAreOwn'
    BY <1>1, <1>2, <1>5, <1>7 DEF EntriesAreOwn
  <1>11. LegsAreBuilt'
    BY <1>2 DEF LegsAreBuilt
  <1>12. SentIsRecording'
    <2>1. \A d \in Call : Over(d) => d # c /\ Over(d)'
      BY <1>1, <1>2, <1>3, <1>5 DEF Over, Starting
    <2> QED
      BY <1>2, <1>3, <1>4, <2>1 DEF SentIsRecording
  <1>13. IndexedIsRecording'
    BY <1>1, <1>2, MainStops DEF IndexedIsRecording, TakingDown
  <1>14. MediaIsOwn'
    <2> SUFFICES ASSUME NEW o \in Entry, media'[o] # NoLeg
                 PROVE  entry'[o.c] = o /\ recording[o.c] = media'[o] /\ recorder[media'[o]] = "answered"
      BY <1>2 DEF MediaIsOwn
    <2>1. CASE o = new
      <3>1. recording[c] = media[old] /\ recorder[media[old]] = "answered"
        BY <1>1, <1>6, <1>7, <2>1 DEF MediaIsOwn
      <3> QED
        BY <1>5, <1>6, <1>7, <2>1, <3>1
    <2>2. CASE o # new
      <3>1. o # old /\ media'[o] = media[o]
        BY <1>6, <2>2
      <3>2. entry[o.c] = o /\ recording[o.c] = media[o] /\ recorder[media[o]] = "answered"
        BY <3>1 DEF MediaIsOwn
      <3> QED
        BY <1>1, <1>5, <3>1, <3>2, LoopTypes
    <2> QED
      BY <2>1, <2>2
  <1>15. ForkedOrUnderway'
    <2> SUFFICES ASSUME GroupCall = {}, NEW d \in Call, entry'[d] # NoEntry, recording[d] \in confirmed
                 PROVE  media'[entry'[d]] = recording[d]
      BY <1>2 DEF ForkedOrUnderway
    <2>1. CASE d = c
      <3>1. media[entry[c]] = recording[c]
        BY <1>1, <2>1 DEF ForkedOrUnderway, Settling
      <3> QED
        BY <1>1, <1>5, <1>6, <2>1, <3>1
    <2>2. CASE d # c
      <3>1. media[entry[d]] = recording[d] /\ entry'[d] = entry[d]
        BY <1>1, <1>5, <2>2 DEF ForkedOrUnderway, Settling
      <3>2. entry[d] \in Entry /\ entry[d].c = d
        BY <2>2, <3>1, EntryTypes
      <3> QED
        BY <1>6, <1>7, <2>2, <3>1, <3>2
    <2> QED
      BY <2>1, <2>2
  <1> QED
    BY <1>8, <1>9, <1>10, <1>11, <1>12, <1>13, <1>14, <1>15

\* A leg is built by the read loop or by an early starter.
LEMMA LoopBuilds ==
  ASSUME ReadLoopOnly, LoopInv, NEW t \in Thread, NEW c \in Call, NEW l \in Leg,
         t = Main \/ t = Starter(c, 1), pc[t].at = "register", pc[t].call = c,
         UNCHANGED <<calls, media, confirmed, recorder>>,
         l = [c |-> c, n |-> started[c] + 1], recording[c] = NoLeg,
         started' = [started EXCEPT ![c] = @ + 1],
         recording' = [recording EXCEPT ![c] = l], index' = index \cup {l},
         pc'[t].at = "send", pc'[t].leg = l, pc'[t].call = c,
         \A u \in Thread : u # t => pc'[u] = pc[u]
  PROVE  LoopParts'
  <1> USE DEF LoopInv, LoopParts
  <1>1. /\ started'[c] = started[c] + 1 /\ recording'[c] = l
        /\ \A d \in Call : d # c => started'[d] = started[d] /\ recording'[d] = recording[d]
        /\ \A d \in Call : started[d] <= started'[d] /\ started'[d] \in Nat
    <2>1. /\ started'[c] = started[c] + 1 /\ recording'[c] = l
          /\ \A d \in Call : d # c => started'[d] = started[d] /\ recording'[d] = recording[d]
      BY LoopTypes DEF TInv, TypeOK
    <2> QED
      BY <2>1, LoopTypes
  <1>2. l.c = c /\ l.n = started[c] + 1
    OBVIOUS
  <1>3. UNCHANGED <<invites, ringing, entry>>
    BY DEF calls
  <1>4. \A d \in Call : pc'[Starter(d, 1)] = pc[Starter(d, 1)] \/ (d = c /\ t = Starter(c, 1))
    BY LoopTypes
  <1>5. pc'[Main] = pc[Main] \/ t = Main
    BY LoopTypes
  <1>6. invites[c] = 1 /\ (t = Main => c \notin ringing)
    BY LoopTypes DEF ReadLoopKnows, OnlyTwo, Starting
  <1>7. OnlyTwo'
    BY <1>3, <1>4, <1>6, Threads, Apart DEF OnlyTwo, Starting
  <1>8. ~(t # Main /\ pc[Main].call = c /\ pc[Main].at \in Settling \cup {"send", "undo"})
    BY LoopTypes DEF ReadLoopKnows, SentIsRecording, Sound, Settling
  <1>9. pc[Main].at # "idle" => pc[Main].call \in Call
    BY LoopTypes DEF Sound
  <1>10. ReadLoopKnows'
    <2>1. CASE t = Main
      BY <1>3, <1>6, <2>1 DEF ReadLoopKnows, Starting, Settling, Ending
    <2>2. CASE t # Main
      <3>1. pc'[Main] = pc[Main]
        BY <1>5, <2>2
      <3>2. pc[Main].at \in Settling => recording'[pc[Main].call] = recording[pc[Main].call]
        BY <1>1, <1>8, <1>9, <2>2 DEF Settling
      <3> QED
        BY <1>3, <3>1, <3>2 DEF ReadLoopKnows
    <2> QED
      BY <2>1, <2>2
  <1>11. EntriesAreOwn'
    <2>1. \A d \in Call : invites[d] = 0 => recording'[d] = recording[d]
      BY <1>1, <1>6
    <2> QED
      BY <1>3, <2>1 DEF EntriesAreOwn
  <1>12. recorder[l] = "none" /\ l \notin confirmed /\ l \notin index
    BY <1>2, LoopTypes DEF LegsAreBuilt
  <1>13. LegsAreBuilt'
    <2> SUFFICES ASSUME NEW m \in Leg
                 PROVE  /\ m \in index' \/ m \in confirmed \/ recorder[m] # "none" => m.n <= started'[m.c]
                        /\ m \in confirmed => recorder[m] = "answered"
      BY DEF LegsAreBuilt
    <2>1. CASE m = l
      BY <1>1, <1>2, <1>12, <2>1, LoopTypes
    <2>2. CASE m # l
      <3>1. m \in index' \/ m \in confirmed \/ recorder[m] # "none" => m.n <= started[m.c]
        BY <2>2 DEF LegsAreBuilt
      <3>2. m.c \in Call /\ m.n \in Nat /\ started[m.c] \in Nat
        BY LoopTypes
      <3> QED
        BY <1>1, <3>1, <3>2 DEF LegsAreBuilt
    <2> QED
      BY <2>1, <2>2
  <1>14. SentIsRecording'
    <2>1. (\A u \in Thread : pc[u].at \in {"send", "undo"} =>
             recorder[pc[u].leg] = "none" /\ pc[u].leg.n <= started[pc[u].call])'
      <3> SUFFICES ASSUME NEW u \in Thread, pc'[u].at \in {"send", "undo"}
                   PROVE  recorder[pc'[u].leg] = "none" /\ pc'[u].leg.n <= started'[pc'[u].call]
        OBVIOUS
      <3>1. CASE u = t
        BY <1>1, <1>2, <1>12, <3>1, LoopTypes
      <3>2. CASE u # t
        <4>1. /\ pc'[u] = pc[u] /\ pc[u].call \in Call /\ pc[u].leg \in Leg
              /\ recorder[pc[u].leg] = "none" /\ pc[u].leg.n <= started[pc[u].call]
          BY <3>2, LoopTypes DEF SentIsRecording, Sound
        <4>2. pc[u].leg.n \in Nat /\ started[pc[u].call] \in Nat
          BY <4>1, LoopTypes
        <4> QED
          BY <1>1, <4>1, <4>2
      <3> QED
        BY <3>1, <3>2
    <2>2. (pc[Main].at \in {"send", "undo"} =>
            /\ recording[pc[Main].call] = pc[Main].leg
            /\ pc[Starter(pc[Main].call, 1)].at \notin {"send", "undo"})'
      <3>1. CASE t = Main
        <4>1. pc[Main].at \in Starting /\ pc[Main].call = c
          BY <3>1 DEF Starting
        <4>2. ~Over(c)
          BY <4>1 DEF Over
        <4>3. pc[Starter(c, 1)].at \in {"send", "undo"} => pc[Starter(c, 1)].leg = NoLeg
          BY <4>2 DEF SentIsRecording
        <4>4. pc[Starter(c, 1)].at \notin {"send", "undo"}
          BY <4>3, LoopTypes DEF Sound
        <4>5. pc'[Starter(c, 1)] = pc[Starter(c, 1)] /\ pc'[Main].call = c /\ pc'[Main].leg = l
          BY <3>1, LoopTypes
        <4> QED
          BY <1>1, <4>4, <4>5
      <3>2. CASE t # Main
        <4> SUFFICES ASSUME pc[Main].at \in {"send", "undo"}
                     PROVE  /\ recording'[pc[Main].call] = pc[Main].leg
                            /\ pc'[Starter(pc[Main].call, 1)].at \notin {"send", "undo"}
          BY <1>5, <3>2
        <4>1. pc[Main].call # c /\ pc[Main].call \in Call
          BY <1>8, <1>9, <3>2
        <4>2. pc'[Starter(pc[Main].call, 1)] = pc[Starter(pc[Main].call, 1)]
          BY <1>4, <4>1
        <4> QED
          BY <1>1, <4>1, <4>2 DEF SentIsRecording
      <3> QED
        BY <3>1, <3>2
    <2>3. (\A d \in Call : pc[Starter(d, 1)].at \in {"send", "undo"} =>
             \/ recording[d] = pc[Starter(d, 1)].leg
             \/ recording[d] = NoLeg /\ Over(d))'
      <3> SUFFICES ASSUME NEW d \in Call, pc'[Starter(d, 1)].at \in {"send", "undo"}
                   PROVE  \/ recording'[d] = pc'[Starter(d, 1)].leg
                          \/ recording'[d] = NoLeg /\ Over(d)'
        OBVIOUS
      <3>1. CASE d = c /\ t = Starter(c, 1)
        BY <1>1, <3>1
      <3>2. CASE d = c /\ t # Starter(c, 1)
        <4>1. t = Main /\ ~Over(c)
          BY <3>2 DEF Over, Starting
        <4>2. pc[Starter(c, 1)].at \in {"send", "undo"} => pc[Starter(c, 1)].leg = NoLeg
          BY <4>1 DEF SentIsRecording
        <4> QED
          BY <1>4, <3>2, <4>2, LoopTypes DEF Sound
      <3>3. CASE d # c
        <4>1. Over(d) => Over(d)'
          BY <1>3, <1>5, <3>3 DEF Over
        <4> QED
          BY <1>1, <1>4, <3>3, <4>1 DEF SentIsRecording
      <3> QED
        BY <3>1, <3>2, <3>3
    <2> QED
      BY <2>1, <2>2, <2>3 DEF SentIsRecording
  <1>15. IndexedIsRecording'
    <2>1. \A m : Stopping(m) => Stopping(m)'
      BY StoppingKept DEF TakingDown
    <2> SUFFICES ASSUME NEW m \in index' PROVE recording'[m.c] = m \/ Stopping(m)'
      BY DEF IndexedIsRecording
    <2>2. CASE m = l
      BY <1>1, <1>2, <2>2
    <2>3. CASE m # l
      <3>1. m \in Leg /\ m.c \in Call /\ m # NoLeg /\ (recording[m.c] = m \/ Stopping(m))
        BY <2>3, LoopTypes DEF IndexedIsRecording
      <3> QED
        BY <1>1, <2>1, <3>1
    <2> QED
      BY <2>2, <2>3
  <1>16. MediaIsOwn'
    BY <1>1, <1>3, LoopTypes DEF MediaIsOwn
  <1>17. ForkedOrUnderway'
    <2> SUFFICES ASSUME GroupCall = {}, NEW d \in Call, entry[d] # NoEntry, recording'[d] \in confirmed
                 PROVE  \/ media[entry[d]] = recording'[d]
                        \/ (pc'[Main].at \in Settling /\ pc'[Main].call = d)
      BY <1>3 DEF ForkedOrUnderway
    <2>1. d # c /\ recording'[d] = recording[d]
      BY <1>1, <1>12
    <2>2. media[entry[d]] = recording[d] \/ (pc[Main].at \in Settling /\ pc[Main].call = d)
      BY <2>1 DEF ForkedOrUnderway
    <2> QED
      BY <1>5, <2>1, <2>2 DEF Settling
  <1> QED
    BY <1>7, <1>10, <1>11, <1>13, <1>14, <1>15, <1>16, <1>17

\* The INVITE reaches the recorder: what was about to be sent was invited by nobody.
LEMMA LoopSends ==
  ASSUME ReadLoopOnly, LoopInv, NEW t \in Thread, NEW c \in Call,
         t = Main \/ t = Starter(c, 1), pc[t].at = "send", pc[t].call = c,
         UNCHANGED <<calls, media, legs>>,
         recorder' = [recorder EXCEPT ![pc[t].leg] = "invited"],
         pc'[t].at = "idle", \A u \in Thread : u # t => pc'[u] = pc[u]
  PROVE  LoopParts'
  <1> USE DEF LoopInv, LoopParts, calls, legs
  <1> DEFINE l == pc[t].leg
  <1>1. l \in Leg /\ l.c = c /\ recorder[l] = "none" /\ l.n <= started[c]
    BY LoopTypes DEF Sound, SentIsRecording
  <1>2. recorder'[l] = "invited" /\ \A m \in Leg : m # l => recorder'[m] = recorder[m]
    BY <1>1, LoopTypes DEF TInv, TypeOK
  <1>3. \A d \in Call : pc'[Starter(d, 1)] = pc[Starter(d, 1)] \/ (d = c /\ t = Starter(c, 1))
    BY LoopTypes
  <1>4. pc'[Main] = pc[Main] \/ t = Main
    BY LoopTypes
  <1>5. OnlyTwo'
    BY <1>3, Threads, Apart DEF OnlyTwo
  <1>6. ReadLoopKnows'
    <2>1. CASE t = Main
      BY <2>1 DEF ReadLoopKnows, Starting, Settling, Ending
    <2>2. CASE t # Main
      <3>1. pc'[Main] = pc[Main]
        BY <1>4, <2>2
      <3>2. pc[Main].at \in Settling => recorder'[pc[Main].leg] = "answered"
        BY <1>1, <1>2, LoopTypes DEF ReadLoopKnows, Sound, Settling
      <3> QED
        BY <3>1, <3>2 DEF ReadLoopKnows
    <2> QED
      BY <2>1, <2>2
  <1>7. EntriesAreOwn'
    BY DEF EntriesAreOwn
  <1>8. LegsAreBuilt'
    BY <1>1, <1>2 DEF LegsAreBuilt
  <1>9. SentIsRecording'
    <2>1. ASSUME NEW u \in Thread, pc'[u].at \in {"send", "undo"}
          PROVE  /\ pc'[u] = pc[u] /\ u # t /\ pc[u].leg # l
    <3>1. u # t /\ pc'[u] = pc[u]
      BY <2>1
    <3>2. u = Main \/ \E d \in Call : u = Starter(d, 1) /\ pc[u].call = d
      BY <2>1, <3>1, Who
    <3>3. t # Main \/ pc[Starter(c, 1)].at \notin {"send", "undo"}
      BY DEF SentIsRecording
    <3>4. pc[u].call # c
      BY <2>1, <3>1, <3>2, <3>3 DEF SentIsRecording
    <3>5. pc[u].leg.c = pc[u].call
      BY <2>1, <3>1, LoopTypes DEF Sound
    <3> QED
      BY <1>1, <3>1, <3>4, <3>5
    <2>2. (\A u \in Thread : pc[u].at \in {"send", "undo"} =>
             recorder[pc[u].leg] = "none" /\ pc[u].leg.n <= started[pc[u].call])'
      BY <1>2, <2>1, LoopTypes DEF SentIsRecording, Sound
    <2>3. (pc[Main].at \in {"send", "undo"} =>
            /\ recording[pc[Main].call] = pc[Main].leg
            /\ pc[Starter(pc[Main].call, 1)].at \notin {"send", "undo"})'
      BY <1>3, <1>4, LoopTypes DEF SentIsRecording, Sound
    <2>4. (\A d \in Call : pc[Starter(d, 1)].at \in {"send", "undo"} =>
             \/ recording[d] = pc[Starter(d, 1)].leg
             \/ recording[d] = NoLeg /\ Over(d))'
      <3>1. \A d \in Call : Over(d) => Over(d)'
        BY <1>4 DEF Over, Starting
      <3> QED
        BY <1>3, <3>1 DEF SentIsRecording
    <2> QED
      BY <2>2, <2>3, <2>4 DEF SentIsRecording
  <1>10. IndexedIsRecording'
    <2>1. \A m : Stopping(m) => Stopping(m)'
      BY StoppingKept DEF TakingDown
    <2> QED
      BY <2>1 DEF IndexedIsRecording
  <1>11. MediaIsOwn'
    <2> SUFFICES ASSUME NEW o \in Entry, media[o] # NoLeg
                 PROVE  recorder'[media[o]] = "answered"
      BY DEF MediaIsOwn
    <2>1. media[o] \in Leg /\ recorder[media[o]] = "answered"
      BY LoopTypes DEF MediaIsOwn, TInv, TypeOK
    <2> QED
      BY <1>1, <1>2, <2>1
  <1>12. ForkedOrUnderway'
    BY <1>4 DEF ForkedOrUnderway, Settling
  <1> QED
    BY <1>5, <1>6, <1>7, <1>8, <1>9, <1>10, <1>11, <1>12

\* A leg that could not be sent leaves the index and the table.
LEMMA LoopUndoes ==
  ASSUME ReadLoopOnly, LoopInv, NEW t \in Thread, NEW c \in Call, NEW l \in Leg,
         t = Main \/ t = Starter(c, 1), pc[t].at = "undo", pc[t].call = c, pc[t].leg = l,
         UNCHANGED <<calls, media, started, confirmed, recorder>>,
         recording' = [recording EXCEPT ![c] = NoLeg], index' = index \ {l},
         pc'[t].at = "idle", \A u \in Thread : u # t => pc'[u] = pc[u]
  PROVE  LoopParts'
  <1> USE DEF LoopInv, LoopParts
  <1>1. l.c = c /\ recorder[l] = "none" /\ (recording[c] = l \/ recording[c] = NoLeg)
    BY LoopTypes DEF Sound, SentIsRecording
  <1>2. recording'[c] = NoLeg /\ \A d \in Call : d # c => recording'[d] = recording[d]
    BY LoopTypes DEF TInv, TypeOK
  <1>3. UNCHANGED <<invites, ringing, entry>>
    BY DEF calls
  <1>4. \A d \in Call : pc'[Starter(d, 1)] = pc[Starter(d, 1)] \/ (d = c /\ t = Starter(c, 1))
    BY LoopTypes
  <1>5. pc'[Main] = pc[Main] \/ t = Main
    BY LoopTypes
  <1>6. OnlyTwo'
    BY <1>3, <1>4, Threads, Apart DEF OnlyTwo
  <1>7. pc[Main].at # "idle" => pc[Main].call \in Call
    BY LoopTypes DEF Sound
  <1>8. t # Main /\ pc[Main].at \in Settling \cup {"send", "undo"} => pc[Main].call # c
    <2>1. pc[Main].at \in Settling => pc[Main].call # c
      BY <1>1, LoopTypes DEF ReadLoopKnows, Sound, Settling
    <2>2. t # Main /\ pc[Main].at \in {"send", "undo"} => pc[Main].call # c
      BY DEF SentIsRecording
    <2> QED
      BY <2>1, <2>2
  <1>9. ReadLoopKnows'
    <2>1. CASE t = Main
      BY <2>1 DEF ReadLoopKnows, Starting, Settling, Ending
    <2>2. CASE t # Main
      <3>1. pc'[Main] = pc[Main]
        BY <1>5, <2>2
      <3>2. pc[Main].at \in Settling => recording'[pc[Main].call] = recording[pc[Main].call]
        BY <1>2, <1>7, <1>8, <2>2 DEF Settling
      <3> QED
        BY <1>3, <3>1, <3>2 DEF ReadLoopKnows
    <2> QED
      BY <2>1, <2>2
  <1>10. EntriesAreOwn'
    BY <1>2, <1>3 DEF EntriesAreOwn
  <1>11. LegsAreBuilt'
    BY DEF LegsAreBuilt
  <1>12. SentIsRecording'
    <2>1. (\A u \in Thread : pc[u].at \in {"send", "undo"} =>
             recorder[pc[u].leg] = "none" /\ pc[u].leg.n <= started[pc[u].call])'
      BY DEF SentIsRecording
    <2>2. (pc[Main].at \in {"send", "undo"} =>
            /\ recording[pc[Main].call] = pc[Main].leg
            /\ pc[Starter(pc[Main].call, 1)].at \notin {"send", "undo"})'
      <3> SUFFICES ASSUME pc'[Main].at \in {"send", "undo"}
                   PROVE  /\ recording'[pc'[Main].call] = pc'[Main].leg
                          /\ pc'[Starter(pc'[Main].call, 1)].at \notin {"send", "undo"}
        OBVIOUS
      <3>1. t # Main /\ pc'[Main] = pc[Main]
        BY <1>5
      <3>2. pc[Main].call # c /\ pc[Main].call \in Call
        BY <1>7, <1>8, <3>1
      <3>3. pc'[Starter(pc[Main].call, 1)] = pc[Starter(pc[Main].call, 1)]
        BY <1>4, <3>2
      <3> QED
        BY <1>2, <3>1, <3>2, <3>3 DEF SentIsRecording
    <2>3. (\A d \in Call : pc[Starter(d, 1)].at \in {"send", "undo"} =>
             \/ recording[d] = pc[Starter(d, 1)].leg
             \/ recording[d] = NoLeg /\ Over(d))'
      <3>1. \A d \in Call : Over(d) => Over(d)'
        BY <1>3, <1>5 DEF Over, Starting
      <3>2. pc'[Starter(c, 1)].at \notin {"send", "undo"}
        <4>1. t = Main => pc[Starter(c, 1)].at \notin {"send", "undo"}
          BY DEF SentIsRecording
        <4> QED
          BY <4>1, LoopTypes
      <3> QED
        BY <1>2, <1>4, <3>1, <3>2 DEF SentIsRecording
    <2> QED
      BY <2>1, <2>2, <2>3 DEF SentIsRecording
  <1>13. IndexedIsRecording'
    <2>1. \A m : Stopping(m) => Stopping(m)'
      BY StoppingKept DEF TakingDown
    <2> SUFFICES ASSUME NEW m \in index' PROVE recording'[m.c] = m \/ Stopping(m)'
      BY DEF IndexedIsRecording
    <2>2. m \in Leg /\ m.c \in Call /\ m # NoLeg /\ m # l /\ (recording[m.c] = m \/ Stopping(m))
      BY LoopTypes DEF IndexedIsRecording
    <2>3. recording[m.c] = m => m.c # c
      BY <1>1, <2>2
    <2> QED
      BY <1>2, <2>1, <2>2, <2>3
  <1>14. MediaIsOwn'
    <2> SUFFICES ASSUME NEW o \in Entry, media[o] # NoLeg
                 PROVE  entry[o.c] = o /\ recording'[o.c] = media[o] /\ recorder[media[o]] = "answered"
      BY <1>3 DEF MediaIsOwn
    <2>1. entry[o.c] = o /\ recording[o.c] = media[o] /\ recorder[media[o]] = "answered" /\ o.c \in Call
      BY LoopTypes DEF MediaIsOwn
    <2>2. o.c # c
      BY <1>1, <2>1
    <2> QED
      BY <1>2, <2>1, <2>2
  <1>15. ForkedOrUnderway'
    <2> SUFFICES ASSUME GroupCall = {}, NEW d \in Call, entry[d] # NoEntry, recording'[d] \in confirmed
                 PROVE  \/ media[entry[d]] = recording'[d]
                        \/ (pc'[Main].at \in Settling /\ pc'[Main].call = d)
      BY <1>3 DEF ForkedOrUnderway
    <2>1. d # c /\ recording'[d] = recording[d]
      BY <1>2, LoopTypes
    <2>2. media[entry[d]] = recording[d] \/ (pc[Main].at \in Settling /\ pc[Main].call = d)
      BY <2>1 DEF ForkedOrUnderway
    <2> QED
      BY <1>5, <2>1, <2>2 DEF Settling
  <1> QED
    BY <1>6, <1>9, <1>10, <1>11, <1>12, <1>13, <1>14, <1>15

\* The forwarding begins: the entry is the caller's, and the leg his recording.
LEMMA LoopAttach ==
  ASSUME ReadLoopOnly, LoopInv, Attach
  PROVE  LoopParts'
  <1> USE DEF LoopInv, LoopParts, calls, legs
  <1> DEFINE c == pc[Main].call
             l == pc[Main].leg
             o == pc[Main].obj
  <1>1. /\ pc[Main].at = "attach" /\ c \in Call /\ l \in Leg /\ o = entry[c] /\ o # NoEntry
        /\ recording[c] = l /\ recorder[l] = "answered"
    BY LoopTypes DEF Attach, Sound, ReadLoopKnows, Settling
  <1>2. o \in Entry /\ o.c = c
    BY <1>1, EntryTypes
  <1>3. media'[o] = l /\ \A p \in Entry : p # o => media'[p] = media[p]
    BY <1>1, <1>2, LoopTypes DEF Attach, TInv, TypeOK
  <1>4. UNCHANGED <<calls, legs, recorder>>
    BY DEF Attach, wire
  <1>5. pc'[Main].at = "idle" /\ \A u \in Thread : u # Main => pc'[u] = pc[u]
    BY LoopTypes, ReturnDoes DEF Attach
  <1>6. \A d \in Call : pc'[Starter(d, 1)] = pc[Starter(d, 1)]
    BY <1>5, LoopTypes
  <1> HIDE DEF c, l, o
  <1>7. OnlyTwo'
    BY <1>4, <1>5, <1>6, Threads, Apart DEF OnlyTwo
  <1>8. ReadLoopKnows' /\ EntriesAreOwn' /\ LegsAreBuilt'
    BY <1>4, <1>5 DEF ReadLoopKnows, Starting, Settling, Ending, EntriesAreOwn, LegsAreBuilt
  <1>9. SentIsRecording'
    <2>1. \A d \in Call : Over(d) => Over(d)'
      BY <1>4, <1>5 DEF Over, Starting
    <2> QED
      BY <1>4, <1>5, <1>6, <2>1 DEF SentIsRecording
  <1>10. IndexedIsRecording'
    BY <1>1, <1>4, MainStops DEF IndexedIsRecording, TakingDown
  <1>11. MediaIsOwn'
    BY <1>1, <1>2, <1>3, <1>4 DEF MediaIsOwn
  <1>12. ForkedOrUnderway'
    <2> SUFFICES ASSUME GroupCall = {}, NEW d \in Call, entry[d] # NoEntry, recording[d] \in confirmed
                 PROVE  media'[entry[d]] = recording[d]
      BY <1>4 DEF ForkedOrUnderway
    <2>1. CASE d = c
      BY <1>1, <1>3, <2>1
    <2>2. CASE d # c
      <3>1. media[entry[d]] = recording[d]
        BY <2>2 DEF ForkedOrUnderway, c
      <3>2. entry[d] \in Entry /\ entry[d].c = d
        BY EntryTypes
      <3> QED
        BY <1>2, <1>3, <2>2, <3>1, <3>2
    <2> QED
      BY <2>1, <2>2
  <1> QED
    BY <1>7, <1>8, <1>9, <1>10, <1>11, <1>12

LEMMA LoopDecides ==
  ASSUME ReadLoopOnly, LoopInv, NEW l \in Leg, RecorderDecides(l)
  PROVE  LoopParts'
  <1> USE DEF LoopInv, LoopParts, calls, legs
  <1>1. /\ recorder[l] = "invited" /\ UNCHANGED <<calls, media, legs, pc>>
        /\ \A m \in Leg : m # l => recorder'[m] = recorder[m]
    BY LoopTypes DEF RecorderDecides, TInv, TypeOK
  <1>2. OnlyTwo' /\ EntriesAreOwn' /\ ForkedOrUnderway'
    BY <1>1 DEF OnlyTwo, EntriesAreOwn, ForkedOrUnderway
  <1>3. ReadLoopKnows'
    <2>1. pc[Main].at \in Settling => recorder'[pc[Main].leg] = "answered"
      BY <1>1, LoopTypes DEF ReadLoopKnows, Sound, Settling
    <2> QED
      BY <1>1, <2>1 DEF ReadLoopKnows
  <1>4. LegsAreBuilt'
    BY <1>1 DEF LegsAreBuilt
  <1>5. SentIsRecording'
    <2>1. \A t \in Thread : pc[t].at \in {"send", "undo"} => recorder'[pc[t].leg] = "none"
      BY <1>1, LoopTypes DEF SentIsRecording, Sound
    <2> QED
      BY <1>1, <2>1 DEF SentIsRecording, Over
  <1>6. IndexedIsRecording'
    BY <1>1 DEF IndexedIsRecording, Stopping
  <1>7. MediaIsOwn'
    <2> SUFFICES ASSUME NEW o \in Entry, media[o] # NoLeg PROVE recorder'[media[o]] = "answered"
      BY <1>1 DEF MediaIsOwn
    <2>1. media[o] \in Leg /\ recorder[media[o]] = "answered"
      BY LoopTypes DEF MediaIsOwn, TInv, TypeOK
    <2> QED
      BY <1>1, <2>1
  <1> QED
    BY <1>2, <1>3, <1>4, <1>5, <1>6, <1>7

\* The leg that an answer of the recorder names is the recording of its caller.
LEMMA AnswerNames ==
  ASSUME ReadLoopOnly, LoopInv, NEW l \in index, pc[Main].at = "idle"
  PROVE  recording[l.c] = l /\ l \in Leg /\ l.c \in Call /\ invites[l.c] = 1
  <1> USE DEF LoopInv, LoopParts
  <1>1. l \in Leg /\ l.c \in Call /\ l # NoLeg
    BY LoopTypes
  <1>2. recording[l.c] = l
    BY MainStops DEF IndexedIsRecording, TakingDown
  <1>3. invites[l.c] # 0
    BY <1>1, <1>2 DEF EntriesAreOwn
  <1> QED
    BY <1>1, <1>2, <1>3, LoopTypes

LEMMA LoopOk ==
  ASSUME ReadLoopOnly, LoopInv, NEW l \in Leg, RecorderOk(l)
  PROVE  LoopParts'
  <1> USE DEF LoopInv, LoopParts
  <1>1. /\ pc[Main].at = "idle" /\ recorder[l] = "answered" /\ l \in index
        /\ confirmed' = confirmed \cup {l}
        /\ UNCHANGED <<invites, ringing, entry, media, started, recording, index, recorder>>
        /\ Goto(Main, [For("ack", l.c) EXCEPT !.leg = l])
    BY DEF RecorderOk, calls, wire
  <1>2. recording[l.c] = l /\ l.c \in Call /\ invites[l.c] = 1
    BY <1>1, AnswerNames
  <1>3. /\ pc'[Main].at = "ack" /\ pc'[Main].call = l.c /\ pc'[Main].leg = l
        /\ \A u \in Thread : u # Main => pc'[u] = pc[u]
    <2> DEFINE ctx == [For("ack", l.c) EXCEPT !.leg = l]
    <2>1. ctx.at = "ack" /\ ctx.call = l.c /\ ctx.leg = l
      BY DEF For, Idle
    <2>2. pc'[Main] = ctx /\ \A u \in Thread : u # Main => pc'[u] = pc[u]
      BY <1>1, LoopTypes, GotoDoes
    <2> QED
      BY <2>1, <2>2
  <1>4. \A d \in Call : pc'[Starter(d, 1)] = pc[Starter(d, 1)]
    BY <1>3, LoopTypes
  <1>5. OnlyTwo'
    BY <1>1, <1>3, <1>4, Threads, Apart DEF OnlyTwo
  <1>6. ReadLoopKnows' /\ EntriesAreOwn'
    BY <1>1, <1>2, <1>3 DEF ReadLoopKnows, Starting, Settling, Ending, EntriesAreOwn
  <1>7. LegsAreBuilt'
    BY <1>1 DEF LegsAreBuilt
  <1>8. SentIsRecording'
    <2>1. \A d \in Call : Over(d) => Over(d)'
      BY <1>1, <1>3 DEF Over, Starting
    <2> QED
      BY <1>1, <1>3, <1>4, <2>1 DEF SentIsRecording
  <1>9. IndexedIsRecording'
    BY <1>1, MainStops DEF IndexedIsRecording, TakingDown
  <1>10. MediaIsOwn'
    BY <1>1 DEF MediaIsOwn
  <1>11. ForkedOrUnderway'
    <2> SUFFICES ASSUME GroupCall = {}, NEW d \in Call, entry[d] # NoEntry,
                        recording[d] \in confirmed \cup {l}
                 PROVE  media[entry[d]] = recording[d] \/ d = l.c
      BY <1>1, <1>3 DEF ForkedOrUnderway, Settling
    <2>1. CASE recording[d] \in confirmed
      BY <1>1, <2>1 DEF ForkedOrUnderway, Settling
    <2>2. CASE recording[d] = l
      BY <2>2, LoopTypes
    <2> QED
      BY <2>1, <2>2
  <1> QED
    BY <1>5, <1>6, <1>7, <1>8, <1>9, <1>10, <1>11

LEMMA LoopRefusal ==
  ASSUME ReadLoopOnly, LoopInv, NEW l \in Leg, RecorderRefusal(l)
  PROVE  LoopParts'
  <1> USE DEF LoopInv, LoopParts
  <1>1. /\ pc[Main].at = "idle" /\ recorder[l] = "refused" /\ l \in index
        /\ index' = index \ {l}
        /\ UNCHANGED <<invites, ringing, entry, media, started, confirmed, recorder, pc>>
    BY DEF RecorderRefusal, calls, wire
  <1>2. recording[l.c] = l /\ l.c \in Call
    BY <1>1, AnswerNames
  <1>3. recording'[l.c] = NoLeg /\ \A d \in Call : d # l.c => recording'[d] = recording[d]
    BY <1>2, LoopTypes DEF RecorderRefusal, TInv, TypeOK
  <1>4. OnlyTwo' /\ LegsAreBuilt'
    BY <1>1 DEF OnlyTwo, LegsAreBuilt
  <1>5. ReadLoopKnows'
    BY <1>1 DEF ReadLoopKnows, Starting, Settling, Ending
  <1>6. EntriesAreOwn'
    BY <1>1, <1>3 DEF EntriesAreOwn
  <1>7. SentIsRecording'
    <2>1. pc[Starter(l.c, 1)].at \notin {"send", "undo"}
      <3> SUFFICES ASSUME pc[Starter(l.c, 1)].at \in {"send", "undo"} PROVE FALSE
        OBVIOUS
      <3>1. Starter(l.c, 1) \in Thread /\ l # NoLeg
        BY <1>2, LoopTypes
      <3>2. recording[l.c] = pc[Starter(l.c, 1)].leg
        BY <1>2, <3>1 DEF SentIsRecording
      <3>3. recorder[pc[Starter(l.c, 1)].leg] = "none"
        BY <3>1 DEF SentIsRecording
      <3> QED
        BY <1>1, <1>2, <3>2, <3>3
    <2> QED
      BY <1>1, <1>3, <2>1 DEF SentIsRecording, Over
  <1>8. IndexedIsRecording'
    <2> SUFFICES ASSUME NEW m \in index, m # l PROVE recording'[m.c] = m
      BY <1>1 DEF IndexedIsRecording
    <2>1. recording[m.c] = m /\ m.c \in Call
      BY <1>1, AnswerNames
    <2> QED
      BY <1>2, <1>3, <2>1
  <1>9. MediaIsOwn'
    <2> SUFFICES ASSUME NEW o \in Entry, media[o] # NoLeg
                 PROVE  entry[o.c] = o /\ recording'[o.c] = media[o] /\ recorder[media[o]] = "answered"
      BY <1>1 DEF MediaIsOwn
    <2>1. entry[o.c] = o /\ recording[o.c] = media[o] /\ recorder[media[o]] = "answered" /\ o.c \in Call
      BY LoopTypes DEF MediaIsOwn
    <2> QED
      BY <1>1, <1>2, <1>3, <2>1
  <1>10. ForkedOrUnderway'
    BY <1>1, <1>3, LoopTypes DEF ForkedOrUnderway
  <1> QED
    BY <1>4, <1>5, <1>6, <1>7, <1>8, <1>9, <1>10

\* The leg leaves the table, and the read loop takes it down.
LEMMA LoopTakes ==
  ASSUME ReadLoopOnly, LoopInv, Take(Main), recording[pc[Main].call] # NoLeg
  PROVE  LoopParts'
  <1> USE DEF LoopInv, LoopParts
  <1> DEFINE c == pc[Main].call
             l == recording[c]
  <1>1. /\ pc[Main].at = "take" /\ c \in Call /\ invites[c] = 1 /\ entry[c] = NoEntry
        /\ c \notin ringing
    BY LoopTypes DEF Take, Sound, ReadLoopKnows, Ending
  <1>2. l \in Leg /\ l.c = c /\ l \in index
    BY <1>1, LoopTypes
  <1>3. recording'[c] = NoLeg /\ \A d \in Call : d # c => recording'[d] = recording[d]
    BY <1>1, LoopTypes DEF Take, TInv, TypeOK
  <1>4. /\ pc'[Main].at = "find" /\ pc'[Main].leg = l /\ pc'[Main].call = c
        /\ \A u \in Thread : u # Main => pc'[u] = pc[u]
    <2>1. PICK bye : Goto(Main, [pc[Main] EXCEPT !.at = "find", !.leg = l, !.bye = bye])
      BY Zenon DEF Take
    <2> QED
      BY <2>1, LoopTypes DEF Goto, Ctx, TInv, TypeOK
  <1>5. \A d \in Call : pc'[Starter(d, 1)] = pc[Starter(d, 1)]
    BY <1>4, LoopTypes
  <1>6. UNCHANGED <<invites, ringing, entry, media, started, index, confirmed, recorder>>
    BY DEF Take, calls, wire
  <1> HIDE DEF c, l
  <1>7. OnlyTwo'
    BY <1>4, <1>5, <1>6, Threads, Apart DEF OnlyTwo
  <1>8. ReadLoopKnows'
    BY <1>1, <1>4, <1>6 DEF ReadLoopKnows, Starting, Settling, Ending
  <1>9. EntriesAreOwn' /\ LegsAreBuilt'
    BY <1>3, <1>6 DEF EntriesAreOwn, LegsAreBuilt
  <1>10. SentIsRecording'
    <2>1. \A d \in Call : Over(d) => Over(d)'
      BY <1>4, <1>6 DEF Over, Starting
    <2>2. \A d \in Call : d = c => Over(d)'
      BY <1>1, <1>4, <1>6 DEF Over, Starting
    <2>3. (\A d \in Call : pc[Starter(d, 1)].at \in {"send", "undo"} =>
             \/ recording[d] = pc[Starter(d, 1)].leg
             \/ recording[d] = NoLeg /\ Over(d))'
      BY <1>3, <1>5, <2>1, <2>2 DEF SentIsRecording
    <2> QED
      BY <1>4, <1>6, <2>3 DEF SentIsRecording
  <1>11. IndexedIsRecording'
    <2> SUFFICES ASSUME NEW m \in index PROVE recording'[m.c] = m \/ Stopping(m)'
      BY <1>6 DEF IndexedIsRecording
    <2>1. recording[m.c] = m /\ m \in Leg /\ m.c \in Call
      BY <1>1, MainStops, LoopTypes DEF IndexedIsRecording, TakingDown
    <2>2. CASE m = l
      BY <1>4, <2>2, LoopTypes DEF Stopping
    <2>3. CASE m # l
      BY <1>3, <2>1, <2>3 DEF l
    <2> QED
      BY <2>2, <2>3
  <1>12. MediaIsOwn'
    <2> SUFFICES ASSUME NEW o \in Entry, media[o] # NoLeg
                 PROVE  entry[o.c] = o /\ recording'[o.c] = media[o] /\ recorder[media[o]] = "answered"
      BY <1>6 DEF MediaIsOwn
    <2>1. entry[o.c] = o /\ recording[o.c] = media[o] /\ recorder[media[o]] = "answered"
          /\ o.c \in Call /\ o # NoEntry
      BY LoopTypes DEF MediaIsOwn
    <2> QED
      BY <1>1, <1>3, <2>1
  <1>13. ForkedOrUnderway'
    BY <1>1, <1>3, <1>4, <1>6 DEF ForkedOrUnderway, Settling
  <1> QED
    BY <1>7, <1>8, <1>9, <1>10, <1>11, <1>12, <1>13

\* The leg that was taken down leaves the index.
LEMMA LoopForgets ==
  ASSUME ReadLoopOnly, LoopInv, Forget(Main)
  PROVE  LoopParts'
  <1> USE DEF LoopInv, LoopParts
  <1>1. /\ pc[Main].at = "forget" /\ index' = index \ {pc[Main].leg}
        /\ UNCHANGED <<invites, ringing, entry, media, started, recording, confirmed, recorder>>
    BY DEF Forget, calls, wire
  <1>2. pc'[Main].at = "idle" /\ \A u \in Thread : u # Main => pc'[u] = pc[u]
    BY LoopTypes, ReturnDoes DEF Forget
  <1>3. \A d \in Call : pc'[Starter(d, 1)] = pc[Starter(d, 1)]
    BY <1>2, LoopTypes
  <1>4. OnlyTwo'
    BY <1>1, <1>2, <1>3, Threads, Apart DEF OnlyTwo
  <1>5. ReadLoopKnows' /\ EntriesAreOwn' /\ LegsAreBuilt'
    BY <1>1, <1>2 DEF ReadLoopKnows, Starting, Settling, Ending, EntriesAreOwn, LegsAreBuilt
  <1>6. SentIsRecording'
    <2>1. \A d \in Call : Over(d) => Over(d)'
      BY <1>1, <1>2 DEF Over, Starting
    <2> QED
      BY <1>1, <1>2, <1>3, <2>1 DEF SentIsRecording
  <1>7. IndexedIsRecording'
    BY <1>1, MainStops DEF IndexedIsRecording
  <1>8. MediaIsOwn' /\ ForkedOrUnderway'
    BY <1>1 DEF MediaIsOwn, ForkedOrUnderway, Settling
  <1> QED
    BY <1>4, <1>5, <1>6, <1>7, <1>8

\* The steps of a starter, the read loop's or an early one's.
LEMMA LoopEmits ==
  ASSUME ReadLoopOnly, LoopInv, NEW t \in Thread, Emit(t)
  PROVE  LoopParts'
  <1>1. pc[t].at \in Starting
    BY DEF Emit, StartContext, StartCheck, Register, Send, Undo, Starting
  <1>2. PICK c \in Call : pc[t].call = c /\ (t = Main \/ t = Starter(c, 1))
    BY <1>1, Who, LoopTypes DEF Starting, Sound
  <1>3. TInv
    BY LoopTypes
  <1>4. ASSUME UNCHANGED <<calls, media, legs, recorder>>,
               \A u \in Thread : u # t => pc'[u] = pc[u],
               \/ pc'[t].at = "idle"
               \/ /\ pc'[t].at \in Starting /\ pc'[t].call = pc[t].call
                  /\ pc'[t].leg = pc[t].leg
                  /\ pc'[t].at \in {"send", "undo"} => pc[t].at \in {"send", "undo"}
        PROVE  LoopParts'
    <2>1. CASE t = Main
      BY <1>1, <1>4, <2>1, QuietMain DEF Starting, Settling, Ending, TakingDown
    <2>2. CASE t = Starter(c, 1)
      BY <1>1, <1>4, <2>2, QuietStarter DEF Starting
    <2> QED
      BY <1>2, <2>1, <2>2
  <1>5. CASE StartContext(t) \/ StartCheck(t)
    <2>1. /\ UNCHANGED <<calls, media, legs, recorder>>
          /\ Step(t, "check") \/ Step(t, "register") \/ Return(t)
      BY <1>5 DEF StartContext, StartCheck, wire
    <2>2. CASE Step(t, "check") \/ Step(t, "register")
      BY <1>3, <1>4, <2>1, <2>2, StepDoes DEF Starting
    <2>3. CASE Return(t)
      BY <1>3, <1>4, <2>1, <2>3, ReturnDoes
    <2> QED
      BY <2>1, <2>2, <2>3
  <1>6. CASE Register(t)
    <2>1. pc[t].at = "register" /\ UNCHANGED <<calls, media, recorder>>
      BY <1>6 DEF Register, wire
    <2>2. CASE Return(t) /\ UNCHANGED legs
      BY <1>3, <1>4, <2>1, <2>2, ReturnDoes
    <2>3. CASE ~(Return(t) /\ UNCHANGED legs)
      <3> DEFINE l == [c |-> c, n |-> started[c] + 1]
      <3>1. /\ l \in Leg /\ recording[c] = NoLeg
            /\ started' = [started EXCEPT ![c] = @ + 1]
            /\ recording' = [recording EXCEPT ![c] = l]
            /\ index' = index \cup {l} /\ UNCHANGED confirmed
            /\ pc'[t].at = "send" /\ pc'[t].leg = l /\ pc'[t].call = c
            /\ \A u \in Thread : u # t => pc'[u] = pc[u]
        BY <1>2, <1>3, <1>6, <2>3, RegisterDoes
      <3> QED
        BY <1>2, <2>1, <3>1, LoopBuilds
    <2> QED
      BY <2>2, <2>3
  <1>7. CASE Send(t)
    <2>1. pc[t].at = "send" /\ UNCHANGED <<calls, media, legs>>
      BY <1>7 DEF Send
    <2>2. CASE recorder' = [recorder EXCEPT ![pc[t].leg] = "invited"] /\ Return(t)
      BY <1>2, <1>3, <2>1, <2>2, ReturnDoes, LoopSends
    <2>3. CASE Step(t, "undo") /\ UNCHANGED recorder
      BY <1>3, <1>4, <2>1, <2>3, StepDoes DEF Starting
    <2> QED
      BY <1>7, <2>2, <2>3 DEF Send
  <1>8. CASE Undo(t)
    <2>1. /\ pc[t].at = "undo" /\ UNCHANGED <<calls, media, started, confirmed, recorder>>
          /\ recording' = [recording EXCEPT ![c] = NoLeg] /\ index' = index \ {pc[t].leg}
          /\ Return(t)
      BY <1>2, <1>8 DEF Undo, wire
    <2>2. pc[t].leg \in Leg
      BY <2>1, LoopTypes DEF Sound
    <2> QED
      BY <1>2, <1>3, <2>1, <2>2, ReturnDoes, LoopUndoes
  <1> QED
    BY <1>5, <1>6, <1>7, <1>8 DEF Emit

\* The read loop after a 2xx.
LEMMA LoopSettles ==
  ASSUME ReadLoopOnly, LoopInv, Settle
  PROVE  LoopParts'
  <1>1. TInv /\ Main \in Thread
    BY LoopTypes
  <1>2. CASE Ack
    <2>1. /\ pc[Main].at = "ack" /\ Step(Main, "lookup")
          /\ UNCHANGED <<calls, media, legs, recorder>>
      BY <1>2 DEF Ack
    <2> QED
      BY <1>1, <2>1, StepDoes, QuietMain DEF Starting, Settling, Ending, TakingDown
  <1>3. CASE Lookup
    <2> DEFINE o == Found(pc[Main].call)
    <2>1. pc[Main].at = "lookup" /\ UNCHANGED <<calls, media, legs, recorder>>
      BY <1>3 DEF Lookup, wire
    <2>2. CASE o = NoEntry
      <3>1. Return(Main)
        BY <1>3, <2>2 DEF Lookup
      <3>2. GroupCall # {} \/ entry[pc[Main].call] = NoEntry
        BY <2>2 DEF Found
      <3> QED
        BY <1>1, <2>1, <3>1, <3>2, ReturnDoes, QuietMain DEF Starting, Settling, Ending, TakingDown
    <2>3. CASE o # NoEntry
      <3>1. Goto(Main, [pc[Main] EXCEPT !.at = "attach", !.obj = o])
        BY <1>3, <2>3 DEF Lookup
      <3>2. o = entry[pc[Main].call]
        BY <2>3 DEF Found
      <3>3. /\ pc'[Main].at = "attach" /\ pc'[Main].obj = o
            /\ pc'[Main].call = pc[Main].call /\ pc'[Main].leg = pc[Main].leg
            /\ \A u \in Thread : u # Main => pc'[u] = pc[u]
        BY <1>1, <3>1, LoopTypes DEF Goto, Ctx, TInv, TypeOK
      <3> HIDE DEF o
      <3> QED
        BY <2>1, <2>3, <3>2, <3>3, QuietMain DEF Starting, Settling, Ending, TakingDown
    <2> QED
      BY <2>2, <2>3
  <1> QED
    BY <1>2, <1>3, LoopAttach DEF Settle

\* The read loop taking a leg down.
LEMMA LoopStops ==
  ASSUME ReadLoopOnly, LoopInv, NEW t \in Thread, Stop(t)
  PROVE  LoopParts'
  <1>1. pc[t].at \in Ending
    BY DEF Stop, Take, Find, Unhook, Write, Forget, Ending
  <1>2. t = Main
    BY <1>1, Who DEF Ending, Starting
  <1>3. TInv /\ Main \in Thread
    BY LoopTypes
  <1>4. entry[pc[Main].call] = NoEntry
    BY <1>1, <1>2 DEF LoopInv, LoopParts, ReadLoopKnows
  <1>5. CASE Take(Main) /\ recording[pc[Main].call] = NoLeg
    <2>1. pc[Main].at = "take" /\ UNCHANGED <<calls, media, legs, recorder>> /\ Return(Main)
      BY <1>5 DEF Take, wire, legs
    <2> QED
      BY <1>3, <2>1, ReturnDoes, QuietMain DEF Starting, Settling, Ending, TakingDown
  <1>6. CASE Find(Main)
    <2>1. /\ pc[Main].at = "find" /\ UNCHANGED <<calls, media, legs, recorder>>
          /\ Goto(Main, [pc[Main] EXCEPT !.at = "unhook", !.obj = Found(pc[Main].call)])
      BY <1>6 DEF Find, wire
    <2>2. Found(pc[Main].call) = NoEntry
      BY <1>4 DEF Found
    <2>3. /\ pc'[Main].at = "unhook" /\ pc'[Main].obj = NoEntry
          /\ pc'[Main].call = pc[Main].call /\ pc'[Main].leg = pc[Main].leg
          /\ \A u \in Thread : u # Main => pc'[u] = pc[u]
      BY <1>3, <2>1, <2>2, LoopTypes DEF Goto, Ctx, TInv, TypeOK
    <2> QED
      BY <2>1, <2>3, QuietMain DEF Starting, Settling, Ending, TakingDown
  <1>7. CASE Unhook(Main)
    <2>1. /\ pc[Main].at = "unhook" /\ Step(Main, "write")
          /\ UNCHANGED <<calls, legs, recorder>> /\ media' = Unhooked(pc[Main].obj)
      BY <1>7 DEF Unhook, wire
    <2>2. UNCHANGED media
      BY <2>1 DEF LoopInv, LoopParts, ReadLoopKnows, Unhooked
    <2> QED
      BY <1>3, <2>1, <2>2, StepDoes, QuietMain DEF Starting, Settling, Ending, TakingDown
  <1>8. CASE Write(Main)
    <2>1. /\ pc[Main].at = "write" /\ Step(Main, "forget")
          /\ UNCHANGED <<calls, media, legs, recorder>>
      BY <1>8 DEF Write
    <2> QED
      BY <1>3, <2>1, StepDoes, QuietMain DEF Starting, Settling, Ending, TakingDown
  <1> QED
    BY <1>2, <1>5, <1>6, <1>7, <1>8, LoopTakes, LoopForgets DEF Stop

\* Every step keeps LoopInv: no drop and no reader ever gets to work.
LEMMA LoopStep == ReadLoopOnly /\ LoopInv /\ [Next]_vars => LoopInv'
  <1> SUFFICES ASSUME ReadLoopOnly, LoopInv, [Next]_vars PROVE LoopParts'
    BY IndexStep DEF LoopInv
  <1>1. pc[Api].at = "idle" /\ drops \in 0..MaxDrops
    BY LoopTypes DEF LoopInv, LoopParts, OnlyTwo, TInv, TypeOK
  <1>2. ASSUME NEW c \in Call, Enter(c) \/ Join(c) \/ RingingFails(c) \/ HangUp(c) \/ Drop(c)
        PROVE  LoopParts'
    <2>1. ~Drop(c)
      BY <1>1 DEF Drop, ReadLoopOnly
    <2> QED
      BY <1>2, <2>1, LoopEnter, LoopJoin, LoopRingingFails, LoopHangUp
  <1>3. ASSUME NEW t \in {Main, Reader}, NEW c \in Call, Answered(t, c)
        PROVE  LoopParts'
    <2>1. t = Main
      BY <1>3 DEF Answered, ReadLoopOnly
    <2> QED
      BY <1>3, <2>1, LoopAnswered
  <1>4. ~Release
    BY <1>1 DEF Release
  <1>5. CASE UNCHANGED vars
    BY <1>5, QuietMain DEF vars, wire, LoopInv, LoopParts, ReadLoopKnows, Settling, Ending,
      TakingDown
  <1> QED
    BY <1>2, <1>3, <1>4, <1>5, LoopEmits, LoopStops, LoopSettles, LoopDecides, LoopOk,
       LoopRefusal DEF Next

LEMMA LoopInit == ReadLoopOnly /\ Init => LoopInv
  <1> SUFFICES ASSUME ReadLoopOnly, Init PROVE LoopInv
    OBVIOUS
  <1>1. IInv
    BY TypeInit, IdleSound DEF Init, IInv, RecordingIsBuilt, TakenIsOld, TakingDown
  <1>2. \A t \in Thread : pc[t].at = "idle"
    BY DEF Init, Idle
  <1>3. Main \in Thread /\ Reader \in Thread /\ Api \in Thread
        /\ \A c \in Call : Starter(c, 1) \in Thread
    BY Threads DEF ReadLoopOnly
  <1>4. OnlyTwo /\ ReadLoopKnows
    BY <1>2, <1>3 DEF OnlyTwo, ReadLoopKnows, Starting, Settling, Ending
  <1>5. EntriesAreOwn /\ LegsAreBuilt /\ IndexedIsRecording /\ MediaIsOwn /\ ForkedOrUnderway
    BY DEF Init, EntriesAreOwn, LegsAreBuilt, IndexedIsRecording, MediaIsOwn, ForkedOrUnderway
  <1>6. SentIsRecording
    BY <1>2, <1>3 DEF SentIsRecording
  <1> QED
    BY <1>1, <1>4, <1>5, <1>6 DEF LoopInv, LoopParts

\* While the read loop alone ends calls and every caller rings once, a leg that can
\* still be answered is the recording of its call or is being taken down, in group
\* calls as well.
THEOREM IndexedIsRecordingHolds == ReadLoopOnly => (Spec => []IndexedIsRecording)
  <1> SUFFICES ASSUME ReadLoopOnly PROVE Spec => []IndexedIsRecording
    OBVIOUS
  <1>1. Init => LoopInv
    BY LoopInit
  <1>2. LoopInv /\ [Next]_vars => LoopInv'
    BY LoopStep
  <1>3. LoopInv => IndexedIsRecording
    BY DEF LoopInv, LoopParts
  <1> QED
    BY <1>1, <1>2, <1>3, PTL DEF Spec

\* Under the same conditions no media goes on to a recorder after its call: only the
\* caller's entry of now forwards, and only to its recording.
THEOREM MediaEndsWithCallHolds == ReadLoopOnly => (Spec => []MediaEndsWithCall)
  <1> SUFFICES ASSUME ReadLoopOnly PROVE Spec => []MediaEndsWithCall
    OBVIOUS
  <1>1. Init => LoopInv
    BY LoopInit
  <1>2. LoopInv /\ [Next]_vars => LoopInv'
    BY LoopStep
  <1>3. LoopInv => MediaEndsWithCall
    BY DEF LoopInv, LoopParts, MediaIsOwn, MediaEndsWithCall
  <1> QED
    BY <1>1, <1>2, <1>3, PTL DEF Spec

\* Without group calls, whose key the server does not find its entry by, the media of
\* an answered recording is forked to its recorder once the handlers are done.
THEOREM AnsweredIsForkedHolds ==
  ReadLoopOnly /\ GroupCall = {} => (Spec => []AnsweredIsForked)
  <1> SUFFICES ASSUME ReadLoopOnly, GroupCall = {} PROVE Spec => []AnsweredIsForked
    OBVIOUS
  <1>1. Init => LoopInv
    BY LoopInit
  <1>2. LoopInv /\ [Next]_vars => LoopInv'
    BY LoopStep
  <1>3. LoopInv => AnsweredIsForked
    BY Threads DEF LoopInv, LoopParts, ForkedOrUnderway, AnsweredIsForked, Quiet
  <1> QED
    BY <1>1, <1>2, <1>3, PTL DEF Spec
=============================================================================
