----------------------------- MODULE IvrProofs -----------------------------
(***************************************************************************)
(* The IVR entry for every configuration, every key sequence, every number *)
(* of re-INVITEs, retransmissions and fanouts, and every interleaving of   *)
(* the read loop, the receivers, the fanouts, the ring timers and the      *)
(* readers of TLS legs.                                                    *)
(***************************************************************************)
EXTENDS Ivr, SliceProofs, FiniteSetTheorems

(***************************************************************************)
(* Types.  What the configuration sends a caller to, and whom it has rung  *)
(* for him, are the values of the operators that compute them.             *)
(***************************************************************************)
Value == Seq(Digits)
Resolved == {ivrAuthorizeAndResolveTarget(a, p).id : a \in Value, p \in Value}
Target == {""} \cup Resolved
Session == [state : {"none", "collectBridge", "collectUser", "joined", "joinedGroup"},
            buf : Value, access : Value, pin : Value, target : Target, side : {"", "A", "B"},
            rtp : Nat, dtmf : BOOLEAN, heard : Seq(Nat)]
Rung == {""} \cup UNION {RingOf(s) : s \in Session}
RungLeg == Fanouts \X Rung

Phone == [keys : Dialled, call : Nat, rtp : Nat, events : BOOLEAN, decoded : BOOLEAN,
          hungUp : BOOLEAN, offer : Offers]
Loop == [at : {"idle", "invite", "bye", "cancel", "won"}, call : Nat]
Entry == [up : BOOLEAN, target : Target, rtp : Nat, call : Nat]
Fan == [up : BOOLEAN, legs : SUBSET RungLeg, winner : Leg \cup {NoLeg}, terminated : BOOLEAN,
        cap : {"none", "open", "closed"}]
LegState == {"none", "ringing", "answered", "refused", "cancelled", "up"}
Fanout == [pc : {"off", "start", "ring", "register", "done"}, call : Nat, left : SUBSET Rung,
           at : Rung]
Timer == [pc : {"off", "armed", "cancel", "done"}, legs : SUBSET RungLeg]
Winner == [pc : {"off", "ack", "lookup", "relay", "done"}, legs : SUBSET RungLeg, call : Nat]
Rec == [starters : Nat, on : BOOLEAN, fwd : SUBSET Nat]

CallerTypeOK ==
  /\ phone \in Phone /\ info \in Seq(Nat) /\ events \in Seq(Nat) /\ loop \in Loop
  /\ last \in Nat /\ again \subseteq Nat
  /\ invites \in Nat /\ reinvites \in Nat
  /\ sess \in [Calls -> Session] /\ current \in Calls \cup {NoCall}
  /\ entry \in Entry /\ sockets \subseteq Nat /\ rec \in Rec
RingTypeOK ==
  /\ fan \in Fan /\ leg \in [Leg -> LegState] /\ legRtp \subseteq RungLeg
  /\ go \in [Fanouts -> Fanout] /\ timer \in [Fanouts -> Timer] /\ won \in Winner
  /\ \A p \in Fanouts : go[p].pc = "start" => go[p].call \in Calls
TypeOK == CallerTypeOK /\ RingTypeOK

USE DEF NoCall, NoSocket

LEMMA Legs == NoLeg \notin Leg /\ NoLeg \notin RungLeg
<1> QED
  BY DEF NoLeg, Leg, RungLeg

LEMMA CallsAreNat == Calls \subseteq Nat \ {0} /\ 1 \in Calls
<1> QED
  BY IvrAssumption DEF Calls

\* What a session may become without leaving its type.
LEMMA HeardField ==
  ASSUME NEW s \in Session, NEW k \in Nat, NEW t, t = [s EXCEPT !.heard = Append(@, k)]
  PROVE  /\ t \in Session /\ t.heard = Append(s.heard, k)
         /\ t.rtp = s.rtp /\ t.dtmf = s.dtmf /\ t.state = s.state
<1>1. s.heard \in Seq(Nat)
  BY DEF Session
<1>2. Append(s.heard, k) \in Seq(Nat)
  BY <1>1
<1> QED
  BY <1>2 DEF Session

LEMMA BufField ==
  ASSUME NEW s \in Session, NEW d \in Digits
  PROVE  [s EXCEPT !.buf = Append(@, d)] \in Session
<1>1. s.buf \in Seq(Digits)
  BY DEF Session, Value
<1>2. Append(s.buf, d) \in Value
  BY <1>1 DEF Value
<1> QED
  BY <1>2 DEF Session

LEMMA TypeInit == Init => TypeOK
<1> SUFFICES ASSUME Init PROVE TypeOK
  OBVIOUS
<1>1. <<>> \in Value /\ <<>> \in Seq(Nat) /\ <<>> \in Dialled
  BY IvrAssumption DEF Value
<1>2. NoSession \in Session
  BY <1>1 DEF NoSession, Session, Target
<1>3. phone \in Phone
  <2>1. phone \in [keys : {<<>>}, call : {NoCall}, rtp : {NoSocket}, events : {FALSE},
                   decoded : {FALSE}, hungUp : {FALSE}, offer : Offers]
    BY DEF Init
  <2>2. PICK o \in Offers :
          phone = [keys |-> <<>>, call |-> NoCall, rtp |-> NoSocket, events |-> FALSE,
                   decoded |-> FALSE, hungUp |-> FALSE, offer |-> o]
    BY <2>1
  <2> QED
    BY <1>1, <2>2 DEF Phone
<1>4. CallerTypeOK
  <2>1. /\ info = <<>> /\ events = <<>> /\ loop = NoLoop /\ invites = 0 /\ reinvites = 0
        /\ last = 0 /\ again = {}
        /\ sess = [n \in Calls |-> NoSession] /\ current = NoCall
        /\ entry = NoEntry /\ sockets = {} /\ rec = [starters |-> 0, on |-> FALSE, fwd |-> {}]
    BY DEF Init
  <2>2. NoLoop \in Loop /\ NoEntry \in Entry
    BY DEF NoLoop, Loop, NoEntry, Entry, Target
  <2>3. rec \in Rec
    BY <2>1 DEF Rec
  <2> QED
    BY <1>1, <1>2, <1>3, <2>1, <2>2, <2>3 DEF CallerTypeOK
<1>5. RingTypeOK
  BY DEF Init, RingTypeOK, NoFan, Fan, LegState, Fanout, Timer, Winner, Rung
<1> QED
  BY <1>4, <1>5 DEF TypeOK

StartsFanout(n) == go' = go \/ StartFanout(n)

LEMMA StartFanoutType ==
  ASSUME RingTypeOK, NEW n \in Calls, StartsFanout(n)
  PROVE  /\ go' \in [Fanouts -> Fanout]
         /\ \A p \in Fanouts : go'[p].pc = "start" => go'[p].call \in Calls
         /\ \A p \in Fanouts : \/ go'[p] = go[p]
                               \/ go[p].pc = "off" /\ go'[p].pc = "start"
<1>1. CASE go' = go
  BY <1>1 DEF RingTypeOK
<1>2. CASE StartFanout(n)
  <2>1. PICK p \in Fanouts : go[p].pc = "off" /\ go' = [go EXCEPT ![p].pc = "start", ![p].call = n]
    BY <1>2 DEF StartFanout
  <2>2. go \in [Fanouts -> Fanout] /\ n \in Nat
    BY CallsAreNat DEF RingTypeOK
  <2>3. go'[p] = [go[p] EXCEPT !.pc = "start", !.call = n] /\ go[p] \in Fanout
    BY <2>1, <2>2
  <2>4. go'[p] \in Fanout /\ go'[p].pc = "start" /\ go'[p].call = n
    BY <2>2, <2>3 DEF Fanout
  <2>5. go' \in [Fanouts -> Fanout]
    BY <2>1, <2>2, <2>4
  <2>6. \A q \in Fanouts : q # p => go'[q] = go[q]
    BY <2>1, <2>2
  <2> QED
    BY <2>1, <2>4, <2>5, <2>6 DEF RingTypeOK
<1> QED
  BY <1>1, <1>2 DEF StartsFanout

\* A key adds to what the session has heard; it may let the caller in, which
\* starts a recording or takes the session out of the table, and it may ring.
Hears(press) ==
  /\ \E s \in Session :
       /\ sess' = [sess EXCEPT ![current] = s]
       /\ s.heard = Append(sess[current].heard, press)
       /\ s.rtp = sess[current].rtp /\ s.dtmf = sess[current].dtmf
       /\ sess[current].state = "joinedGroup" => s.state = "joinedGroup"
       /\ \/ UNCHANGED <<current, entry>>
          \/ /\ current' = NoCall /\ s.state = "joined"
             /\ \E t \in Target : entry' = [up |-> TRUE, target |-> t, rtp |-> s.rtp,
                                            call |-> current]
  /\ rec' = rec \/ rec' = [rec EXCEPT !.starters = @ + 1]
  /\ StartsFanout(current)

LEMMA TargetsAndSides ==
  /\ \A a, p \in Value : ivrAuthorizeAndResolveTarget(a, p).id \in Target
  /\ \A g : callerSide(g) \in {"", "A", "B"}
<1>1. \A a, p \in Value : ivrAuthorizeAndResolveTarget(a, p).id \in Resolved
  BY DEF Resolved
<1>2. \A g : callerSide(g) \in {"", "A", "B"}
  BY DEF callerSide
<1> QED
  BY <1>1, <1>2 DEF Target

LEMMA DigitIsHeard ==
  ASSUME CallerTypeOK, current \in Calls,
         NEW press \in Nat, handleIVRDigitLocked(press)
  PROVE  Hears(press)
<1> DEFINE s == [sess[current] EXCEPT !.heard = Append(@, press)]
           d == phone.keys[press]
<1>1. /\ s \in Session /\ s.heard = Append(sess[current].heard, press)
      /\ s.rtp = sess[current].rtp /\ s.dtmf = sess[current].dtmf
      /\ s.state = sess[current].state
  <2>1. sess[current] \in Session
    BY DEF CallerTypeOK
  <2> QED
    BY <2>1, HeardField
<1>2. InCall(s, d) \/ Collect(s, d) \/ CommitAccess(s, d) \/ CommitUser(s, d)
  BY DEF handleIVRDigitLocked
<1> HIDE DEF s, d
<1>3. CASE InCall(s, d)
  <2>1. /\ sess' = [sess EXCEPT ![current] = s] /\ StartsFanout(current)
        /\ UNCHANGED <<current, entry, rec>>
    BY <1>3 DEF InCall, StartsFanout
  <2> QED
    BY <1>1, <2>1 DEF Hears
<1>4. CASE Collect(s, d)
  <2> DEFINE t == IF d \in Digits THEN [s EXCEPT !.buf = Append(@, d)] ELSE s
  <2>1. sess' = [sess EXCEPT ![current] = t] /\ UNCHANGED <<current, entry, rec, go>>
    BY <1>4 DEF Collect
  <2>2. t \in Session
    BY <1>1, BufField
  <2>3. t.heard = s.heard /\ t.rtp = s.rtp /\ t.dtmf = s.dtmf /\ t.state = s.state
    BY <1>1 DEF Session
  <2> HIDE DEF t
  <2> QED
    BY <1>1, <2>1, <2>2, <2>3 DEF Hears, StartsFanout
<1>5. CASE CommitAccess(s, d)
  <2> DEFINE t == [s EXCEPT !.access = s.buf, !.buf = <<>>, !.state = "collectUser"]
  <2>1. /\ s.state = "collectBridge" /\ sess' = [sess EXCEPT ![current] = t]
        /\ UNCHANGED <<current, entry, rec, go>>
    BY <1>5 DEF CommitAccess
  <2>2. <<>> \in Value
    BY DEF Value
  <2>3. /\ t \in Session /\ t.state = "collectUser"
        /\ t.heard = s.heard /\ t.rtp = s.rtp /\ t.dtmf = s.dtmf
    BY <1>1, <2>2 DEF Session
  <2> HIDE DEF t
  <2> QED
    BY <1>1, <2>1, <2>3 DEF Hears, StartsFanout
<1>6. CASE CommitUser(s, d)
  <2> DEFINE t == ivrAuthorizeAndResolveTarget(s.access, s.buf)
             s1 == [s EXCEPT !.pin = s.buf, !.buf = <<>>]
             g == Group(t.id)
             joined == [s1 EXCEPT !.state = "joined"]
             grouped == [s1 EXCEPT !.state = "joinedGroup", !.target = t.id,
                                   !.side = callerSide(g)]
  <2>1. s.state = "collectUser"
    BY <1>6 DEF CommitUser
  <2>2. \/ sess' = [sess EXCEPT ![current] = s1] /\ UNCHANGED <<current, entry, rec, go>>
        \/ /\ sess' = [sess EXCEPT ![current] = joined]
           /\ entry' = [up |-> TRUE, target |-> t.id, rtp |-> s.rtp, call |-> current]
           /\ current' = NoCall /\ UNCHANGED <<rec, go>>
        \/ /\ sess' = [sess EXCEPT ![current] = grouped]
           /\ rec' = [rec EXCEPT !.starters = @ + 1] /\ StartsFanout(current)
           /\ UNCHANGED <<current, entry>>
    BY <1>6 DEF CommitUser, StartsFanout
  <2>3. t.id \in Target /\ callerSide(g) \in {"", "A", "B"} /\ <<>> \in Value
    <3>1. s.access \in Value /\ s.buf \in Value
      BY <1>1 DEF Session
    <3>2. t.id \in Target
      BY <3>1, TargetsAndSides
    <3>3. callerSide(g) \in {"", "A", "B"}
      BY TargetsAndSides
    <3>4. <<>> \in Value
      BY DEF Value
    <3> QED
      BY <3>2, <3>3, <3>4
  <2> HIDE DEF t, g
  <2>4. /\ s1 \in Session /\ s1.heard = s.heard /\ s1.rtp = s.rtp /\ s1.dtmf = s.dtmf
        /\ s1.state = s.state
    BY <1>1, <2>3 DEF Session
  <2> HIDE DEF s1
  <2>5. /\ joined \in Session /\ joined.heard = s1.heard /\ joined.rtp = s1.rtp
        /\ joined.dtmf = s1.dtmf /\ joined.state = "joined"
    BY <2>4 DEF Session
  <2>6. /\ grouped \in Session /\ grouped.heard = s1.heard /\ grouped.rtp = s1.rtp
        /\ grouped.dtmf = s1.dtmf /\ grouped.state = "joinedGroup"
    BY <2>3, <2>4 DEF Session
  <2> HIDE DEF joined, grouped
  <2>7. CASE sess' = [sess EXCEPT ![current] = s1] /\ UNCHANGED <<current, entry, rec, go>>
    BY <1>1, <2>4, <2>7 DEF Hears, StartsFanout
  <2>8. CASE /\ sess' = [sess EXCEPT ![current] = joined]
             /\ entry' = [up |-> TRUE, target |-> t.id, rtp |-> s.rtp, call |-> current]
             /\ current' = NoCall /\ UNCHANGED <<rec, go>>
    BY <1>1, <2>1, <2>3, <2>4, <2>5, <2>8 DEF Hears, StartsFanout
  <2>9. CASE /\ sess' = [sess EXCEPT ![current] = grouped]
             /\ rec' = [rec EXCEPT !.starters = @ + 1] /\ StartsFanout(current)
             /\ UNCHANGED <<current, entry>>
    BY <1>1, <2>4, <2>6, <2>9 DEF Hears
  <2> QED
    BY <2>2, <2>7, <2>8, <2>9
<1> QED
  BY <1>2, <1>3, <1>4, <1>5, <1>6

\* A key that is heard or lost.
KeySteps == Info \/ RtpDigit \/ RtpAgain
CallerSteps ==
  \/ Invite \/ StoreSession \/ Press \/ InfoAgain \/ KeySteps
  \/ Reinvite \/ Cancel \/ Bye \/ CleanUp \/ Drop
RingSteps ==
  \/ \E p \in Fanouts : Begin(p) \/ Emit(p) \/ Register(p) \/ Timeout(p) \/ CancelAll(p)
  \/ \E l \in Leg : Answer(l) \/ Win(l)
  \/ AckWinner \/ LookUpSession \/ Relay

\* What a handled key does to the caller's types.
LEMMA HearsType ==
  ASSUME CallerTypeOK, current \in Calls, NEW press \in Nat, Hears(press)
  PROVE  /\ sess' \in [Calls -> Session] /\ current' \in Calls \cup {NoCall}
         /\ entry' \in Entry /\ rec' \in Rec
         /\ rec'.on = rec.on /\ rec'.fwd = rec.fwd
<1>1. PICK s \in Session :
        /\ sess' = [sess EXCEPT ![current] = s]
        /\ s.rtp = sess[current].rtp
        /\ \/ UNCHANGED <<current, entry>>
           \/ /\ current' = NoCall
              /\ \E t \in Target : entry' = [up |-> TRUE, target |-> t, rtp |-> s.rtp,
                                             call |-> current]
  BY DEF Hears
<1>2. sess' \in [Calls -> Session]
  BY <1>1 DEF CallerTypeOK
<1>3. current' \in Calls \cup {NoCall}
  BY <1>1 DEF CallerTypeOK
<1>4. entry' \in Entry
  <2>1. s.rtp \in Nat /\ current \in Nat
    BY CallsAreNat DEF Session
  <2>2. CASE entry' = entry
    BY <2>2 DEF CallerTypeOK
  <2>3. CASE entry' # entry
    <3>1. PICK t \in Target : entry' = [up |-> TRUE, target |-> t, rtp |-> s.rtp, call |-> current]
      BY <1>1, <2>3
    <3> QED
      BY <2>1, <3>1 DEF Entry
  <2> QED
    BY <2>2, <2>3
<1>5. rec' \in Rec /\ rec'.on = rec.on /\ rec'.fwd = rec.fwd
  <2> DEFINE n == rec.starters + 1
  <2>1. rec' = rec \/ rec' = [rec EXCEPT !.starters = n]
    BY DEF Hears
  <2>2. rec \in Rec /\ n \in Nat
    BY DEF CallerTypeOK, Rec
  <2> HIDE DEF n
  <2> QED
    BY <2>1, <2>2 DEF Rec
<1> QED
  BY <1>2, <1>3, <1>4, <1>5

\* A queue of keys, and what is left of it when the first is taken.
LEMMA Queue ==
  ASSUME NEW q \in Seq(Nat), q # <<>>
  PROVE  Head(q) \in Nat /\ Tail(q) \in Seq(Nat)
<1> QED
  OBVIOUS

\* A key that is handled, or lost: the one underway longest by either way, or by
\* RTP the one decoded last.
LEMMA KeyMoves ==
  ASSUME CallerTypeOK, KeySteps
  PROVE  /\ UNCHANGED <<phone, loop, invites, reinvites, sockets, fan, leg, legRtp, timer, won>>
         /\ again \subseteq again'
         /\ \/ /\ info # <<>> /\ info' = Tail(info) /\ UNCHANGED <<events, last, again>>
               /\ \/ UNCHANGED <<sess, current, entry, rec, go>>
                  \/ /\ current \in Calls /\ ~sess[current].dtmf /\ loop.at = "idle"
                     /\ handleIVRDigitLocked(Head(info))
            \/ /\ events # <<>> /\ events' = Tail(events) /\ UNCHANGED <<info, last, again>>
               /\ UNCHANGED <<sess, current, entry, rec, go>>
            \/ /\ events # <<>> /\ events' = Tail(events) /\ UNCHANGED <<info, again>>
               /\ last' = Head(events)
               /\ \/ UNCHANGED <<sess, current, entry, rec, go>> /\ current = NoCall
                  \/ /\ current \in Calls /\ phone.decoded
                     /\ handleIVRDigitLocked(Head(events))
            \/ /\ last # 0 /\ again' = again \cup {last} /\ UNCHANGED <<info, events, last>>
               /\ current \in Calls /\ phone.decoded
               /\ handleIVRDigitLocked(last)
<1>1. current # NoCall => current \in Calls
  BY DEF CallerTypeOK
<1>2. CASE Info
  BY <1>1, <1>2, Zenon DEF Info, Hear, Lost
<1>3. CASE RtpDigit
  <2>1. /\ events # <<>> /\ events' = Tail(events)
        /\ UNCHANGED <<phone, info, again, loop, invites, reinvites, sockets, fan, leg, legRtp,
                       timer, won>>
        /\ \/ Lost /\ UNCHANGED last
           \/ phone.decoded /\ last' = Head(events) /\ Hear(Head(events))
    BY <1>3, Zenon DEF RtpDigit, Decodes
  <2>2. Hear(Head(events)) => \/ Lost /\ current = NoCall
                              \/ current # NoCall /\ handleIVRDigitLocked(Head(events))
    BY Zenon DEF Hear
  <2> QED
    BY <1>1, <2>1, <2>2, Zenon DEF Lost
<1>4. CASE RtpAgain
  <2>1. /\ last # 0 /\ again' = again \cup {last} /\ current # NoCall /\ phone.decoded
        /\ handleIVRDigitLocked(last)
        /\ UNCHANGED <<phone, info, events, last, loop, invites, reinvites, sockets, fan, leg,
                       legRtp, timer, won>>
    BY <1>4, Zenon DEF RtpAgain, Decodes, Again
  <2>2. again \subseteq again'
    BY <2>1
  <2> QED
    BY <1>1, <2>1, <2>2
<1> QED
  BY <1>2, <1>3, <1>4 DEF KeySteps

LEMMA KeyType ==
  ASSUME CallerTypeOK, KeySteps
  PROVE  /\ CallerTypeOK'
         /\ \/ UNCHANGED <<sess, current, entry, rec, go>>
            \/ current \in Calls /\ \E press \in Nat : Hears(press)
<1>1. /\ UNCHANGED <<phone, loop, invites, reinvites, sockets>>
      /\ info' \in Seq(Nat) /\ events' \in Seq(Nat) /\ last' \in Nat /\ again' \subseteq Nat
      /\ \/ UNCHANGED <<sess, current, entry, rec, go>>
         \/ current \in Calls /\ \E press \in Nat : handleIVRDigitLocked(press)
  <2>1. /\ info \in Seq(Nat) /\ events \in Seq(Nat) /\ last \in Nat /\ again \subseteq Nat
        /\ info # <<>> => Head(info) \in Nat /\ Tail(info) \in Seq(Nat)
        /\ events # <<>> => Head(events) \in Nat /\ Tail(events) \in Seq(Nat)
    BY Queue DEF CallerTypeOK
  <2>2. again \cup {last} \subseteq Nat
    BY <2>1
  <2> QED
    BY <2>1, <2>2, KeyMoves, Zenon
<1>2. CASE UNCHANGED <<sess, current, entry, rec, go>>
  BY <1>1, <1>2 DEF CallerTypeOK
<1>3. ASSUME current \in Calls, NEW press \in Nat, handleIVRDigitLocked(press)
      PROVE  CallerTypeOK' /\ Hears(press)
  <2>1. Hears(press)
    BY <1>3, DigitIsHeard
  <2>2. CallerTypeOK'
    BY <1>1, <1>3, <2>1, HearsType DEF CallerTypeOK
  <2> QED
    BY <2>1, <2>2
<1> QED
  BY <1>1, <1>2, <1>3

LEMMA InfoAgainType ==
  ASSUME CallerTypeOK, InfoAgain
  PROVE  /\ CallerTypeOK'
         /\ UNCHANGED <<phone, events, last, loop, tables, ringing, rec>>
         /\ current \in Calls /\ ~sess[current].dtmf /\ Len(phone.keys) \in Nat \ {0}
         /\ info' = Append(info, Len(phone.keys)) /\ again' = again \cup {Len(phone.keys)}
<1>1. /\ phone.keys # <<>> /\ current # NoCall /\ ~sess[current].dtmf
      /\ info' = Append(info, Len(phone.keys)) /\ again' = again \cup {Len(phone.keys)}
      /\ UNCHANGED <<phone, events, last, loop, tables, ringing, rec>>
  BY DEF InfoAgain, Again
<1>2. phone.keys \in Seq(STRING)
  BY IvrAssumption DEF CallerTypeOK, Phone
<1>3. Len(phone.keys) \in Nat \ {0}
  BY <1>1, <1>2
<1>4. info' \in Seq(Nat) /\ again' \subseteq Nat /\ current \in Calls
  <2> DEFINE n == Len(phone.keys)
  <2>1. info \in Seq(Nat) /\ again \subseteq Nat /\ current \in Calls \cup {0} /\ n \in Nat
    BY <1>3 DEF CallerTypeOK
  <2>2. info' = Append(info, n) /\ again' = again \cup {n} /\ current # 0
    BY <1>1
  <2> HIDE DEF n
  <2> QED
    BY <2>1, <2>2
<1>5. UNCHANGED <<phone, events, last, loop, invites, reinvites, sess, current, entry, sockets, rec>>
  BY <1>1 DEF tables
<1>6. CallerTypeOK'
  BY <1>4, <1>5 DEF CallerTypeOK
<1> QED
  BY <1>1, <1>3, <1>4, <1>6

LEMMA ViaRtpIsBoolean == \A o \in Offers : ViaRtp(o) \in BOOLEAN /\ o.events \in BOOLEAN
<1> QED
  BY IvrAssumption DEF ViaRtp

LEMMA InviteType ==
  ASSUME CallerTypeOK, Invite
  PROVE  /\ CallerTypeOK' /\ invites' = invites + 1 /\ invites' \in Calls
         /\ phone'.hungUp = phone.hungUp /\ phone'.keys = phone.keys
         /\ phone'.offer = phone.offer
         /\ \E s \in Session : /\ sess' = [sess EXCEPT ![invites'] = s]
                               /\ s.state = "collectBridge" /\ s.heard = <<>>
                               /\ s.rtp = (IF phone.offer.audio THEN invites' ELSE NoSocket)
                               /\ s.dtmf = ViaRtp(phone.offer)
         /\ sockets' = sockets \cup ((IF phone.offer.audio THEN {invites'} ELSE {}))
         /\ \/ /\ phone'.events = ViaRtp(phone.offer) /\ phone'.decoded = ViaRtp(phone.offer)
               /\ phone'.call = invites'
            \/ invites' > 1 /\ UNCHANGED phone
<1> DEFINE n == invites + 1
           o == phone.offer
           socket == IF o.audio THEN n ELSE NoSocket
           s == [NoSession EXCEPT !.state = "collectBridge", !.rtp = socket, !.dtmf = ViaRtp(o)]
<1>1. /\ invites < MaxInvites /\ invites' = n
      /\ sess' = [sess EXCEPT ![n] = s]
      /\ sockets' = sockets \cup ({socket} \ {NoSocket})
      /\ loop' = [at |-> "invite", call |-> n]
      /\ \/ phone' = [phone EXCEPT !.call = n, !.rtp = socket, !.events = ViaRtp(o),
                                   !.decoded = ViaRtp(o)]
         \/ n > 1 /\ UNCHANGED phone
      /\ UNCHANGED <<info, events, last, again, reinvites, current, entry, rec>>
  BY DEF Invite, Takes
<1>2. /\ n \in Calls /\ n \in Nat \ {0} /\ phone \in Phone /\ o \in Offers
      /\ socket \in Nat /\ ViaRtp(o) \in BOOLEAN
  <2>1. invites \in Nat /\ MaxInvites \in Nat /\ phone \in Phone
    BY IvrAssumption DEF CallerTypeOK
  <2>2. n \in Calls /\ n \in Nat \ {0}
    BY <1>1, <2>1 DEF Calls
  <2>3. o \in Offers
    BY <2>1 DEF Phone
  <2> QED
    BY <2>1, <2>2, <2>3, ViaRtpIsBoolean
<1>3. sockets' = sockets \cup (IF o.audio THEN {n} ELSE {})
  BY <1>1, <1>2
<1> HIDE DEF n, o, socket
<1>4. /\ s \in Session /\ s.state = "collectBridge" /\ s.heard = <<>>
      /\ s.rtp = socket /\ s.dtmf = ViaRtp(o)
  <2>1. <<>> \in Value /\ <<>> \in Seq(Nat)
    BY DEF Value
  <2> QED
    BY <1>2, <2>1 DEF NoSession, Session, Target
<1> HIDE DEF s
<1>5. /\ phone' \in Phone /\ phone'.hungUp = phone.hungUp /\ phone'.keys = phone.keys
      /\ phone'.offer = phone.offer
      /\ \/ /\ phone'.events = ViaRtp(o) /\ phone'.decoded = ViaRtp(o)
            /\ phone'.call = n
         \/ n > 1 /\ UNCHANGED phone
  BY <1>1, <1>2 DEF Phone
<1>6. CallerTypeOK'
  <2>1. sess' \in [Calls -> Session]
    BY <1>1, <1>2, <1>4 DEF CallerTypeOK
  <2>2. loop' \in Loop /\ sockets' \subseteq Nat
    BY <1>1, <1>2, <1>3 DEF CallerTypeOK, Loop
  <2> QED
    BY <1>1, <1>2, <1>5, <2>1, <2>2 DEF CallerTypeOK
<1> QED
  BY <1>1, <1>2, <1>3, <1>4, <1>5, <1>6 DEF n, o, socket

LEMMA PressType ==
  ASSUME CallerTypeOK, Press
  PROVE  /\ CallerTypeOK'
         /\ UNCHANGED <<last, again, loop, tables, ringing, rec>>
         /\ \A f \in {"call", "rtp", "events", "decoded", "hungUp", "offer"} :
              phone'[f] = phone[f]
         /\ Len(phone'.keys) = Len(phone.keys) + 1
         /\ invites > 0 /\ ~phone.hungUp
         /\ info' = Append(info, Len(phone.keys) + 1)
         /\ events' = IF phone.events THEN Append(events, Len(phone.keys) + 1) ELSE events
<1> DEFINE i == Len(phone.keys) + 1
<1>1. /\ invites > 0 /\ ~phone.hungUp /\ UNCHANGED <<last, again, loop, tables, ringing, rec>>
      /\ info' = Append(info, i)
      /\ events' = IF phone.events THEN Append(events, i) ELSE events
  BY DEF Press
<1>2. PICK keys \in Dialled : Len(keys) = i /\ phone' = [phone EXCEPT !.keys = keys]
  BY DEF Press
<1>3. phone \in Phone /\ i \in Nat
  <2>1. phone \in Phone
    BY DEF CallerTypeOK
  <2>2. phone.keys \in Seq(STRING)
    BY <2>1, IvrAssumption DEF Phone
  <2> QED
    BY <2>1, <2>2
<1> HIDE DEF i
<1>4. /\ phone' \in Phone /\ phone'.keys = keys
      /\ phone'.call = phone.call /\ phone'.rtp = phone.rtp /\ phone'.events = phone.events
      /\ phone'.decoded = phone.decoded /\ phone'.hungUp = phone.hungUp
      /\ phone'.offer = phone.offer
  BY <1>2, <1>3 DEF Phone
<1>5. info' \in Seq(Nat) /\ events' \in Seq(Nat)
  BY <1>1, <1>3 DEF CallerTypeOK
<1>6. CallerTypeOK'
  BY <1>1, <1>4, <1>5 DEF CallerTypeOK, tables
<1> QED
  BY <1>1, <1>2, <1>4, <1>6 DEF i

\* A re-INVITE gives the entry, or else the session, a socket, takes the entry's
\* away, or leaves everything as it is.
LEMMA ReinviteType ==
  ASSUME CallerTypeOK, Reinvite
  PROVE  /\ CallerTypeOK'
         /\ loop.at = "idle" /\ invites > 0 /\ ~phone.hungUp /\ reinvites' = reinvites + 1
         /\ UNCHANGED <<info, events, again, loop, invites, current, ringing, rec>>
         /\ last' \in {0, last}
         /\ phone'.hungUp = phone.hungUp /\ phone'.keys = phone.keys
         /\ \E new \in Nat \ {NoSocket} :
              \/ UNCHANGED <<sess, entry, sockets, phone>>
              \/ /\ entry.up /\ UNCHANGED sess
                 /\ entry'.up
                 /\ sockets' = (sockets \ ({entry.rtp} \ {entry'.rtp}))
                                 \cup ({entry'.rtp} \ {NoSocket})
                 /\ phone'.decoded => phone.decoded
              \/ /\ ~entry.up /\ current # NoCall /\ phone.call = current
                 /\ UNCHANGED <<sess, entry, sockets>>
                 /\ phone'.decoded = phone.decoded
                 /\ sess[current].rtp = NoSocket => ~phone'.events
              \/ /\ ~entry.up /\ current # NoCall /\ phone.call = current
                 /\ UNCHANGED entry /\ sess[current].rtp = NoSocket
                 /\ \E s \in Session, b \in BOOLEAN :
                      /\ sess' = [sess EXCEPT ![current] = s]
                      /\ s.heard = sess[current].heard /\ s.state = sess[current].state
                      /\ s.rtp = new /\ s.dtmf = b /\ phone'.decoded = b
                 /\ sockets' = sockets \cup {new} /\ last' = 0
<1>1. PICK o \in Offers : BridgeReinvite(o) \/ IvrReinvite(o)
  BY DEF Reinvite
<1> DEFINE new == invites + reinvites + 1
<1>2. /\ loop.at = "idle" /\ invites > 0 /\ ~phone.hungUp /\ reinvites' = reinvites + 1
      /\ UNCHANGED <<info, events, again, loop, invites, current, ringing, rec>>
  BY DEF Reinvite
<1>3. /\ new \in Nat \ {NoSocket} /\ reinvites' \in Nat
      /\ phone \in Phone /\ entry \in Entry /\ sess \in [Calls -> Session]
      /\ ViaRtp(o) \in BOOLEAN /\ o.events \in BOOLEAN
  BY <1>2, ViaRtpIsBoolean DEF CallerTypeOK
<1>4. CASE BridgeReinvite(o)
  <2> DEFINE rtp == IF ~o.audio THEN NoSocket ELSE IF entry.rtp # NoSocket THEN entry.rtp ELSE new
             b == phone.decoded /\ rtp = phone.rtp
             v == ViaRtp(o)
  <2>1. /\ entry.up /\ UNCHANGED sess
        /\ last' \in {0, last}
        /\ \/ UNCHANGED <<entry, sockets, phone>>
           \/ /\ entry' = [entry EXCEPT !.rtp = rtp]
              /\ sockets' = (sockets \ ({entry.rtp} \ {rtp})) \cup ({rtp} \ {NoSocket})
              /\ phone' = [phone EXCEPT !.rtp = rtp, !.events = v, !.decoded = b]
    BY <1>4 DEF BridgeReinvite
  <2>2. rtp \in Nat /\ b \in BOOLEAN /\ v \in BOOLEAN /\ (b => phone.decoded)
    BY <1>3 DEF Entry, Phone
  <2> HIDE DEF rtp, b, v
  <2>3. CASE UNCHANGED <<entry, sockets, phone>>
    BY <1>2, <1>3, <2>1, <2>3 DEF CallerTypeOK
  <2>4. CASE ~UNCHANGED <<entry, sockets, phone>>
    <3>1. /\ phone' \in Phone /\ phone'.hungUp = phone.hungUp /\ phone'.keys = phone.keys
          /\ phone'.decoded = b
      BY <1>3, <2>1, <2>2, <2>4 DEF Phone
    <3>2. entry' \in Entry /\ entry'.up = entry.up /\ entry'.rtp = rtp
      BY <1>3, <2>1, <2>2, <2>4 DEF Entry
    <3>3. sockets' = (sockets \ ({entry.rtp} \ {rtp})) \cup ({rtp} \ {NoSocket})
      BY <2>1, <2>4
    <3>4. CallerTypeOK'
      BY <1>2, <1>3, <2>1, <2>2, <3>1, <3>2, <3>3 DEF CallerTypeOK
    <3> QED
      BY <1>2, <1>3, <2>1, <2>2, <3>1, <3>2, <3>3, <3>4
  <2> QED
    BY <2>3, <2>4
<1>5. CASE IvrReinvite(o)
  <2> DEFINE s == sess[current]
             starts == o.audio /\ s.rtp = NoSocket
             t == [s EXCEPT !.rtp = new, !.dtmf = o.events]
             v == ViaRtp(o)
             b == IF starts THEN o.events ELSE phone.decoded
             r == sess'[current].rtp
  <2>1. /\ ~entry.up /\ current # NoCall /\ UNCHANGED entry
        /\ last' \in {0, last}
        /\ \/ UNCHANGED <<sess, sockets, phone>>
           \/ /\ phone.call = current /\ last' = IF starts THEN 0 ELSE last
              /\ sess' = IF starts THEN [sess EXCEPT ![current].rtp = new,
                                                     ![current].dtmf = o.events] ELSE sess
              /\ sockets' = IF starts THEN sockets \cup {new} ELSE sockets
              /\ phone' = [phone EXCEPT !.rtp = r, !.events = v, !.decoded = b]
    BY <1>5 DEF IvrReinvite
  <2>2. current \in Calls /\ s \in Session /\ b \in BOOLEAN /\ v \in BOOLEAN
    BY <1>3, <2>1 DEF CallerTypeOK, Phone
  <2>3. /\ t \in Session /\ t.heard = s.heard /\ t.state = s.state
        /\ t.rtp = new /\ t.dtmf = o.events
    BY <1>3, <2>2 DEF Session
  <2>4. CASE UNCHANGED <<sess, sockets, phone>>
    BY <1>2, <1>3, <2>1, <2>4 DEF CallerTypeOK
  <2>5. CASE ~UNCHANGED <<sess, sockets, phone>>
    <3>1. /\ sess' = IF starts THEN [sess EXCEPT ![current] = t] ELSE sess
          /\ sess' \in [Calls -> Session] /\ r \in Nat
      <4>1. sess' = IF starts THEN [sess EXCEPT ![current] = t] ELSE sess
        BY <1>3, <2>1, <2>2, <2>5
      <4>2. sess' \in [Calls -> Session]
        BY <1>3, <2>2, <2>3, <4>1
      <4> QED
        BY <2>2, <4>1, <4>2 DEF Session
    <3>2. v => o.audio
      BY DEF ViaRtp
    <3> HIDE DEF t, b, v, r, new
    <3>3. /\ phone' \in Phone /\ phone'.hungUp = phone.hungUp /\ phone'.keys = phone.keys
          /\ phone'.decoded = b /\ phone'.events = v
      BY <1>3, <2>1, <2>2, <2>5, <3>1 DEF Phone
    <3>4. sockets' \subseteq Nat
      BY <1>3, <2>1, <2>5 DEF CallerTypeOK
    <3>5. CallerTypeOK'
      BY <1>2, <1>3, <2>1, <3>1, <3>3, <3>4 DEF CallerTypeOK
    <3>6. CASE starts
      <4>1. /\ sess' = [sess EXCEPT ![current] = t] /\ sockets' = sockets \cup {new}
            /\ s.rtp = NoSocket /\ phone.call = current /\ phone'.decoded = o.events
            /\ last' = 0
        BY <2>1, <2>5, <3>1, <3>3, <3>6 DEF b
      <4>2. \E x \in Session, c \in BOOLEAN :
              /\ sess' = [sess EXCEPT ![current] = x]
              /\ x.heard = s.heard /\ x.state = s.state
              /\ x.rtp = new /\ x.dtmf = c /\ phone'.decoded = c
        BY <1>3, <2>3, <4>1
      <4> QED
        BY <1>2, <1>3, <2>1, <3>3, <3>5, <4>1, <4>2
    <3>7. CASE ~starts
      BY <1>2, <1>3, <2>1, <2>5, <3>1, <3>2, <3>3, <3>5, <3>7 DEF b
    <3> QED
      BY <3>6, <3>7
  <2> QED
    BY <2>4, <2>5
<1> QED
  BY <1>1, <1>4, <1>5

LEMMA ByeType ==
  ASSUME CallerTypeOK, Bye
  PROVE  /\ CallerTypeOK' /\ loop.at = "idle" /\ ~phone.hungUp /\ phone'.hungUp
         /\ loop' = [at |-> "bye", call |-> current] /\ current' = NoCall
         /\ UNCHANGED <<info, events, last, again, invites, reinvites, sess, entry, sockets,
                        leg, legRtp, go, timer, won, rec>>
         /\ fan' = [fan EXCEPT !.terminated = @ \/ fan.up]
         /\ phone'.decoded = phone.decoded /\ phone'.keys = phone.keys
         /\ phone'.events = phone.events /\ phone'.offer = phone.offer
<1>1. /\ loop.at = "idle" /\ ~phone.hungUp /\ phone' = [phone EXCEPT !.hungUp = TRUE]
      /\ loop' = [at |-> "bye", call |-> current] /\ current' = NoCall
      /\ UNCHANGED <<info, events, last, again, invites, reinvites, sess, entry, sockets, leg,
                     legRtp, go, timer, won, rec>>
      /\ fan' = [fan EXCEPT !.terminated = @ \/ fan.up]
  BY DEF Bye
<1>2. /\ phone' \in Phone /\ phone'.hungUp /\ phone'.decoded = phone.decoded
      /\ phone'.keys = phone.keys /\ phone'.events = phone.events /\ phone'.offer = phone.offer
  BY <1>1 DEF CallerTypeOK, Phone
<1>3. loop' \in Loop
  BY <1>1, CallsAreNat DEF CallerTypeOK, Loop
<1> QED
  BY <1>1, <1>2, <1>3 DEF CallerTypeOK

LEMMA CancelType ==
  ASSUME CallerTypeOK, Cancel
  PROVE  /\ CallerTypeOK' /\ loop.at = "idle" /\ ~phone.hungUp
         /\ loop' = [at |-> "cancel", call |-> current] /\ current' = NoCall
         /\ UNCHANGED <<phone, info, events, last, again, invites, reinvites, sess, entry, sockets,
                        fan, leg, legRtp, go, timer, won, rec>>
<1>1. /\ loop.at = "idle" /\ ~phone.hungUp
      /\ loop' = [at |-> "cancel", call |-> current] /\ current' = NoCall
      /\ UNCHANGED <<phone, info, events, last, again, invites, reinvites, sess, entry, sockets,
                     fan, leg, legRtp, go, timer, won, rec>>
  BY DEF Cancel, caller, ringing
<1>2. loop' \in Loop
  BY <1>1, CallsAreNat DEF CallerTypeOK, Loop
<1> QED
  BY <1>1, <1>2 DEF CallerTypeOK

LEMMA CleanUpType ==
  ASSUME CallerTypeOK, CleanUp
  PROVE  /\ CallerTypeOK' /\ loop.at \in {"bye", "cancel"} /\ loop' = NoLoop
         /\ sockets' = sockets \ ({entry.rtp} \cup
                           (IF loop.call = NoCall THEN {} ELSE {sess[loop.call].rtp}))
         /\ entry' = NoEntry
         /\ rec'.on = FALSE /\ rec'.fwd = rec.fwd \ {loop.call}
         /\ fan' = [fan EXCEPT !.cap = IF @ = "open" /\ loop.at = "bye" THEN "closed" ELSE @]
         /\ UNCHANGED <<caller, invites, reinvites, sess, current, leg, legRtp, go, timer, won>>
<1>1. /\ loop.at \in {"bye", "cancel"} /\ loop' = NoLoop
      /\ sockets' = sockets \ ({entry.rtp} \cup
                           (IF loop.call = NoCall THEN {} ELSE {sess[loop.call].rtp}))
      /\ entry' = NoEntry
      /\ rec' = [rec EXCEPT !.on = FALSE, !.fwd = @ \ {loop.call}]
      /\ fan' = [fan EXCEPT !.cap = IF @ = "open" /\ loop.at = "bye" THEN "closed" ELSE @]
      /\ UNCHANGED <<caller, invites, reinvites, sess, current, leg, legRtp, go, timer, won>>
  BY DEF CleanUp
<1>2. rec' \in Rec /\ rec'.on = FALSE /\ rec'.fwd = rec.fwd \ {loop.call}
  BY <1>1 DEF CallerTypeOK, Rec
<1>3. NoLoop \in Loop /\ NoEntry \in Entry
  BY DEF NoLoop, Loop, NoEntry, Entry, Target
<1>4. sockets' \subseteq Nat
  BY <1>1 DEF CallerTypeOK
<1> QED
  BY <1>1, <1>2, <1>3, <1>4 DEF CallerTypeOK, caller

LEMMA DropType ==
  ASSUME CallerTypeOK, Drop
  PROVE  /\ CallerTypeOK' /\ entry.up /\ entry' = NoEntry /\ sockets' = sockets \ {entry.rtp}
         /\ UNCHANGED <<caller, loop, invites, reinvites, sess, current, ringing, rec>>
<1>1. /\ entry.up /\ entry' = NoEntry /\ sockets' = sockets \ {entry.rtp}
      /\ UNCHANGED <<caller, loop, invites, reinvites, sess, current, ringing, rec>>
  BY DEF Drop
<1>2. NoEntry \in Entry
  BY DEF NoEntry, Entry, Target
<1>3. sockets' \subseteq Nat
  BY <1>1 DEF CallerTypeOK
<1> QED
  BY <1>1, <1>2, <1>3 DEF CallerTypeOK, caller

(***************************************************************************)
(* The fanout: who is connected.                                           *)
(***************************************************************************)
\* Nobody is rung twice by one fanout.
RungOnce ==
  \A l \in Leg : leg[l] # "none" => /\ go[l[1]].pc \in {"ring", "register"}
                                    /\ l[2] \notin go[l[1]].left

\* The winner is the one who is connected, from the time he is acked.
WinnerIsUp ==
  /\ \A l \in Leg : leg[l] = "up" => l = fan.winner
  /\ won.pc = "off" <=> fan.winner = NoLeg
  /\ won.pc = "ack" => leg[fan.winner] = "answered"
  /\ won.pc \in {"lookup", "relay", "done"} => leg[fan.winner] = "up"

\* A ring timer that takes the legs down has ended the fanout before anybody won,
\* so the legs of a fanout that goes on have their sockets.
SocketsStay ==
  /\ \A p \in Fanouts : timer[p].pc = "cancel" => fan.terminated /\ fan.winner = NoLeg
  /\ ~fan.terminated =>
       /\ fan.legs \subseteq legRtp
       /\ \A p \in Fanouts : go[p].pc = "register" => <<p, go[p].at>> \in legRtp
  /\ fan.winner # NoLeg => fan.winner \in legRtp

FanInv == RingTypeOK /\ RungOnce /\ WinnerIsUp /\ SocketsStay

LEMMA LegParts == \A l \in Leg : l[1] \in Fanouts /\ l = <<l[1], l[2]>>
<1> QED
  BY DEF Leg

LEMMA FanInit == Init => FanInv
<1> SUFFICES ASSUME Init PROVE FanInv
  OBVIOUS
<1>1. RingTypeOK
  BY TypeInit DEF TypeOK
<1>2. RungOnce /\ WinnerIsUp /\ SocketsStay
  BY DEF Init, NoFan, RungOnce, WinnerIsUp, SocketsStay
<1> QED
  BY <1>1, <1>2 DEF FanInv

\* What the caller does reaches the fanout as a new one that has not rung anybody,
\* as the end of it, or as the end of its capture.
FanLeftAlone ==
  /\ UNCHANGED <<leg, legRtp, timer, won>>
  /\ go' = go \/ (current \in Calls /\ StartsFanout(current))
  /\ fan' \in Fan /\ fan'.legs = fan.legs /\ fan'.winner = fan.winner
  /\ fan.terminated => fan'.terminated

LEMMA FanLeftAlonePreserves == FanInv /\ FanLeftAlone => FanInv'
<1> SUFFICES ASSUME FanInv, FanLeftAlone PROVE FanInv'
  OBVIOUS
<1>1. /\ go' \in [Fanouts -> Fanout]
      /\ \A p \in Fanouts : go'[p].pc = "start" => go'[p].call \in Calls
      /\ \A p \in Fanouts : go'[p] = go[p] \/ (go[p].pc = "off" /\ go'[p].pc = "start")
  BY StartFanoutType DEF FanInv, FanLeftAlone, RingTypeOK
<1>2. RingTypeOK'
  BY <1>1 DEF FanInv, FanLeftAlone, RingTypeOK
<1>3. RungOnce'
  BY <1>1, LegParts DEF FanInv, FanLeftAlone, RungOnce
<1>4. WinnerIsUp'
  BY DEF FanInv, FanLeftAlone, WinnerIsUp
<1>5. SocketsStay'
  BY <1>1 DEF FanInv, FanLeftAlone, SocketsStay
<1> QED
  BY <1>2, <1>3, <1>4, <1>5 DEF FanInv

LEMMA CallerLeavesFanAlone ==
  ASSUME TypeOK, CallerSteps \/ StartRecording \/ Attach
  PROVE  FanLeftAlone
<1>1. CASE UNCHANGED ringing
  BY <1>1 DEF ringing, FanLeftAlone, TypeOK, RingTypeOK
<1>2. CASE KeySteps
  <2>1. UNCHANGED <<fan, leg, legRtp, timer, won>>
    BY <1>2, KeyMoves DEF TypeOK
  <2>2. go' = go \/ (current \in Calls /\ StartsFanout(current))
    BY <1>2, KeyType DEF TypeOK, Hears
  <2> QED
    BY <2>1, <2>2 DEF FanLeftAlone, TypeOK, RingTypeOK
<1>3. CASE Bye \/ CleanUp
  <2>1. /\ UNCHANGED <<leg, legRtp, go, timer, won>>
        /\ \/ fan' = [fan EXCEPT !.terminated = @ \/ fan.up]
           \/ fan' = [fan EXCEPT !.cap = IF @ = "open" /\ loop.at = "bye" THEN "closed" ELSE @]
    BY <1>3 DEF Bye, CleanUp
  <2>2. fan \in Fan
    BY DEF TypeOK, RingTypeOK
  <2>3. CASE fan' = [fan EXCEPT !.terminated = @ \/ fan.up]
    <3> DEFINE b == fan.terminated \/ fan.up
    <3>1. b \in BOOLEAN /\ (fan.terminated => b)
      BY <2>2 DEF Fan
    <3> HIDE DEF b
    <3> QED
      BY <2>1, <2>2, <2>3, <3>1 DEF FanLeftAlone, Fan, b
  <2>4. CASE fan' = [fan EXCEPT !.cap = IF @ = "open" /\ loop.at = "bye" THEN "closed" ELSE @]
    <3> DEFINE c == IF fan.cap = "open" /\ loop.at = "bye" THEN "closed" ELSE fan.cap
    <3>1. c \in {"none", "open", "closed"} /\ fan' = [fan EXCEPT !.cap = c]
      BY <2>2, <2>4 DEF Fan
    <3> HIDE DEF c
    <3> QED
      BY <2>1, <2>2, <3>1 DEF FanLeftAlone, Fan
  <2> QED
    BY <2>1, <2>3, <2>4
<1>4. Invite \/ StoreSession \/ Press \/ InfoAgain \/ Reinvite \/ Cancel \/ Drop
        \/ StartRecording \/ Attach
        => UNCHANGED ringing
  BY DEF Invite, StoreSession, Press, InfoAgain, Reinvite, Cancel, Drop, StartRecording, Attach
<1> QED
  BY <1>1, <1>2, <1>3, <1>4 DEF CallerSteps

LEMMA FanBegin ==
  ASSUME TypeOK, FanInv, NEW p \in Fanouts, Begin(p)
  PROVE  FanInv'
<1> DEFINE ring == RingOf(sess[go[p].call])
           pc == IF ring = {} THEN "done" ELSE "ring"
           tpc == IF ring = {} THEN timer[p].pc ELSE "armed"
           up == IF ring = {} THEN fan.up ELSE TRUE
<1>1. go[p].pc = "start" /\ UNCHANGED <<leg, legRtp, won>>
  BY DEF Begin
<1>2. /\ go' = [go EXCEPT ![p].pc = pc, ![p].left = ring]
      /\ fan' = IF ring = {} THEN fan ELSE [fan EXCEPT !.up = TRUE]
      /\ timer' = IF ring = {} THEN timer ELSE [timer EXCEPT ![p].pc = "armed"]
  BY DEF Begin
<1>3. ring \subseteq Rung
  <2>1. go[p].call \in Calls /\ sess \in [Calls -> Session]
    BY <1>1 DEF TypeOK, RingTypeOK, CallerTypeOK
  <2>2. sess[go[p].call] \in Session
    BY <2>1
  <2>3. \A s \in Session : RingOf(s) \subseteq Rung
    BY DEF Rung
  <2> QED
    BY <2>2, <2>3
<1>4. pc \in {"ring", "done"}
  OBVIOUS
<1> HIDE DEF pc, ring
<1>5. go \in [Fanouts -> Fanout] /\ timer \in [Fanouts -> Timer] /\ fan \in Fan
  BY DEF FanInv, RingTypeOK
<1>6. /\ go' \in [Fanouts -> Fanout] /\ go'[p].pc = pc
      /\ \A q \in Fanouts : q # p => go'[q] = go[q]
  BY <1>2, <1>3, <1>4, <1>5 DEF Fanout
<1>7. /\ timer' \in [Fanouts -> Timer]
      /\ \A q \in Fanouts : timer'[q].pc = "cancel" => timer[q].pc = "cancel"
  BY <1>2, <1>5 DEF Timer
<1>8. /\ fan' \in Fan /\ fan'.legs = fan.legs /\ fan'.winner = fan.winner
      /\ fan'.terminated = fan.terminated
  BY <1>2, <1>5 DEF Fan
<1>9. RingTypeOK'
  BY <1>1, <1>4, <1>6, <1>7, <1>8 DEF FanInv, RingTypeOK
<1>10. RungOnce'
  BY <1>1, <1>6, LegParts DEF FanInv, RungOnce
<1>11. WinnerIsUp'
  BY <1>1, <1>8 DEF FanInv, WinnerIsUp
<1>12. SocketsStay'
  BY <1>1, <1>4, <1>6, <1>7, <1>8 DEF FanInv, SocketsStay
<1> QED
  BY <1>9, <1>10, <1>11, <1>12 DEF FanInv

LEMMA FanEmit ==
  ASSUME FanInv, NEW p \in Fanouts, Emit(p)
  PROVE  FanInv'
<1>1. PICK e \in go[p].left :
        \/ /\ go' = [go EXCEPT ![p].pc = "register", ![p].left = @ \ {e}, ![p].at = e]
           /\ leg' = [leg EXCEPT ![<<p, e>>] = "ringing"]
           /\ legRtp' = legRtp \cup {<<p, e>>}
        \/ /\ go' = [go EXCEPT ![p].left = @ \ {e}]
           /\ UNCHANGED <<leg, legRtp>>
  BY DEF Emit
<1>2. go[p].pc = "ring" /\ UNCHANGED <<fan, timer, won>>
  BY DEF Emit
<1>3. go \in [Fanouts -> Fanout] /\ leg \in [Leg -> LegState] /\ legRtp \subseteq RungLeg
  BY DEF FanInv, RingTypeOK
<1>4. e \in Rung /\ <<p, e>> \in RungLeg /\ go[p].left \subseteq Rung
  BY <1>3 DEF Fanout, RungLeg
<1>5. /\ go' \in [Fanouts -> Fanout] /\ go'[p].pc \in {"ring", "register"}
      /\ go'[p].left = go[p].left \ {e}
      /\ \A q \in Fanouts : q # p => go'[q] = go[q]
      /\ go'[p].pc = "register" => /\ go'[p].at = e /\ legRtp' = legRtp \cup {<<p, e>>}
  BY <1>1, <1>2, <1>3, <1>4 DEF Fanout
<1>6. /\ leg' \in [Leg -> LegState] /\ legRtp' \subseteq RungLeg /\ legRtp \subseteq legRtp'
      /\ \A l \in Leg : leg'[l] = leg[l] \/ (l = <<p, e>> /\ leg'[l] = "ringing")
  BY <1>1, <1>3, <1>4 DEF LegState
<1>7. RingTypeOK'
  BY <1>2, <1>5, <1>6 DEF FanInv, RingTypeOK
<1>8. RungOnce'
  <2> SUFFICES ASSUME NEW l \in Leg, leg'[l] # "none"
               PROVE  go'[l[1]].pc \in {"ring", "register"} /\ l[2] \notin go'[l[1]].left
    BY DEF RungOnce
  <2>1. CASE leg'[l] = leg[l]
    BY <1>2, <1>5, <2>1, LegParts DEF FanInv, RungOnce
  <2>2. CASE leg'[l] # leg[l]
    <3>1. l = <<p, e>>
      BY <1>6, <2>2
    <3> QED
      BY <1>5, <3>1
  <2> QED
    BY <2>1, <2>2
<1>9. leg[<<p, e>>] = "none" \/ <<p, e>> \notin Leg
  BY DEF FanInv, RungOnce
<1>10. WinnerIsUp'
  <2>1. won.pc \in {"ack", "lookup", "relay", "done"} => fan.winner \in Leg /\ leg'[fan.winner] = leg[fan.winner]
    BY <1>6, <1>9 DEF FanInv, WinnerIsUp, RingTypeOK, Fan
  <2> QED
    BY <1>2, <1>6, <2>1 DEF FanInv, WinnerIsUp
<1>11. SocketsStay'
  BY <1>2, <1>5, <1>6 DEF FanInv, SocketsStay
<1> QED
  BY <1>7, <1>8, <1>10, <1>11 DEF FanInv

LEMMA FanRegister ==
  ASSUME FanInv, NEW p \in Fanouts, Register(p)
  PROVE  FanInv'
<1> DEFINE l == <<p, go[p].at>>
           ls == fan.legs \cup {l}
<1>1. /\ go[p].pc = "register" /\ UNCHANGED <<leg, legRtp, timer, won>>
      /\ go' = [go EXCEPT ![p].pc = "ring", ![p].at = ""]
      /\ fan' = [fan EXCEPT !.legs = ls]
  BY DEF Register
<1>2. go \in [Fanouts -> Fanout] /\ fan \in Fan
  BY DEF FanInv, RingTypeOK
<1>3. /\ go' \in [Fanouts -> Fanout] /\ go'[p].pc = "ring" /\ go'[p].left = go[p].left
      /\ \A q \in Fanouts : q # p => go'[q] = go[q]
  <2>1. "" \in Rung
    BY DEF Rung
  <2> QED
    BY <1>1, <1>2, <2>1 DEF Fanout
<1>4. ls \subseteq RungLeg
  BY <1>2 DEF Fan, Fanout, RungLeg
<1> HIDE DEF l
<1> HIDE DEF ls
<1>5. /\ fan' \in Fan /\ fan'.legs = ls /\ fan'.winner = fan.winner
      /\ fan'.terminated = fan.terminated
  BY <1>1, <1>2, <1>4 DEF Fan
<1>6. RingTypeOK'
  BY <1>1, <1>3, <1>5 DEF FanInv, RingTypeOK
<1>7. RungOnce'
  BY <1>1, <1>3, LegParts DEF FanInv, RungOnce
<1>8. WinnerIsUp'
  BY <1>1, <1>5 DEF FanInv, WinnerIsUp
<1>9. SocketsStay'
  <2>1. ~fan.terminated => ls \subseteq legRtp
    BY <1>1 DEF FanInv, SocketsStay, l, ls
  <2>2. ASSUME ~fan.terminated, NEW q \in Fanouts, go'[q].pc = "register"
        PROVE  <<q, go'[q].at>> \in legRtp
    <3>1. go'[q] = go[q]
      BY <1>3, <2>2
    <3> QED
      BY <2>2, <3>1 DEF FanInv, SocketsStay
  <2>3. fan.winner # NoLeg => fan.winner \in legRtp
    BY DEF FanInv, SocketsStay
  <2>4. \A q \in Fanouts : timer[q].pc = "cancel" => fan.terminated /\ fan.winner = NoLeg
    BY DEF FanInv, SocketsStay
  <2> QED
    <3>1. ~fan.terminated =>
            /\ ls \subseteq legRtp
            /\ \A q \in Fanouts : go'[q].pc = "register" => <<q, go'[q].at>> \in legRtp
      BY <2>1, <2>2
    <3>2. /\ legRtp' = legRtp /\ timer' = timer /\ fan'.legs = ls
          /\ fan'.winner = fan.winner /\ fan'.terminated = fan.terminated
      BY <1>1, <1>5
    <3> QED
      BY <2>3, <2>4, <3>1, <3>2 DEF SocketsStay
<1> QED
  BY <1>6, <1>7, <1>8, <1>9 DEF FanInv

LEMMA FanTimeout ==
  ASSUME FanInv, NEW p \in Fanouts, Timeout(p)
  PROVE  FanInv'
<1> DEFINE late == fan.terminated \/ fan.winner # NoLeg
           ls == IF late THEN {} ELSE fan.legs
           pc == IF late THEN "done" ELSE "cancel"
<1>1. /\ UNCHANGED <<leg, legRtp, go, won>>
      /\ timer' = [timer EXCEPT ![p] = [pc |-> pc, legs |-> ls]]
      /\ fan' = IF late THEN fan ELSE [fan EXCEPT !.terminated = TRUE]
  BY DEF Timeout
<1>2. timer \in [Fanouts -> Timer] /\ fan \in Fan
  BY DEF FanInv, RingTypeOK
<1>3. pc \in {"done", "cancel"} /\ ls \subseteq RungLeg
  BY <1>2 DEF Fan
<1>4. \/ /\ fan' \in Fan /\ fan'.legs = fan.legs /\ fan'.winner = fan.winner
         /\ fan'.terminated
      \/ late /\ fan' = fan
  BY <1>1, <1>2 DEF Fan
<1>5. [pc |-> pc, legs |-> ls] \in Timer
  BY <1>3 DEF Timer
<1>6. /\ timer' \in [Fanouts -> Timer] /\ timer'[p].pc = pc
      /\ \A q \in Fanouts : q # p => timer'[q] = timer[q]
  BY <1>1, <1>2, <1>5
<1>7. fan' \in Fan /\ fan'.winner = fan.winner
  BY <1>2, <1>4
<1>8. RingTypeOK'
  BY <1>1, <1>6, <1>7 DEF FanInv, RingTypeOK
<1>9. RungOnce' /\ WinnerIsUp'
  BY <1>1, <1>7 DEF FanInv, RungOnce, WinnerIsUp
<1>10. SocketsStay'
  <2>1. CASE late
    BY <1>1, <1>6, <2>1 DEF FanInv, SocketsStay
  <2>2. CASE ~late
    <3>1. fan'.terminated /\ fan'.winner = NoLeg
      BY <1>4, <1>7, <2>2
    <3> QED
      BY <1>1, <3>1 DEF FanInv, SocketsStay
  <2> QED
    BY <2>1, <2>2
<1> QED
  BY <1>8, <1>9, <1>10 DEF FanInv

\* CANCEL reaches those who still ring.
LEMMA StoppedLegs ==
  ASSUME leg \in [Leg -> LegState], NEW ls
  PROVE  /\ Stopped(ls) \in [Leg -> LegState]
         /\ \A l \in Leg : Stopped(ls)[l] = leg[l] \/ (leg[l] = "ringing" /\ Stopped(ls)[l] = "cancelled")
<1> QED
  BY DEF Stopped, LegState

LEMMA FanCancelAll ==
  ASSUME FanInv, NEW p \in Fanouts, CancelAll(p)
  PROVE  FanInv'
<1>1. /\ timer[p].pc = "cancel" /\ UNCHANGED <<fan, go, won>>
      /\ timer' = [timer EXCEPT ![p] = [pc |-> "done", legs |-> {}]]
      /\ leg' = Stopped(timer[p].legs) /\ legRtp' = legRtp \ timer[p].legs
  BY DEF CancelAll
<1>2. timer \in [Fanouts -> Timer] /\ leg \in [Leg -> LegState] /\ legRtp \subseteq RungLeg
  BY DEF FanInv, RingTypeOK
<1>3. /\ leg' \in [Leg -> LegState]
      /\ \A l \in Leg : leg'[l] = leg[l] \/ (leg[l] = "ringing" /\ leg'[l] = "cancelled")
  BY <1>1, <1>2, StoppedLegs
<1>4. /\ timer' \in [Fanouts -> Timer]
      /\ \A q \in Fanouts : timer'[q].pc = "cancel" => timer[q].pc = "cancel"
  BY <1>1, <1>2 DEF Timer
<1>5. fan.terminated /\ fan.winner = NoLeg
  BY <1>1 DEF FanInv, SocketsStay
<1>6. RingTypeOK'
  BY <1>1, <1>2, <1>3, <1>4 DEF FanInv, RingTypeOK
<1>7. RungOnce' /\ WinnerIsUp'
  BY <1>1, <1>3, <1>5 DEF FanInv, RungOnce, WinnerIsUp
<1>8. SocketsStay'
  BY <1>1, <1>4, <1>5 DEF FanInv, SocketsStay
<1> QED
  BY <1>6, <1>7, <1>8 DEF FanInv

LEMMA FanAnswer ==
  ASSUME FanInv, NEW l \in Leg, Answer(l)
  PROVE  FanInv'
<1>1. PICK s \in {"answered", "refused"} : leg' = [leg EXCEPT ![l] = s]
  BY DEF Answer
<1>2. leg[l] = "ringing" /\ UNCHANGED <<fan, legRtp, go, timer, won>>
  BY DEF Answer
<1>3. leg \in [Leg -> LegState]
  BY DEF FanInv, RingTypeOK
<1>4. /\ leg' \in [Leg -> LegState] /\ leg'[l] = s
      /\ \A m \in Leg : m # l => leg'[m] = leg[m]
  BY <1>1, <1>3 DEF LegState
<1>5. RingTypeOK'
  BY <1>2, <1>4 DEF FanInv, RingTypeOK
<1>6. RungOnce'
  BY <1>2, <1>4 DEF FanInv, RungOnce
<1>7. WinnerIsUp'
  <2>1. won.pc # "off" => fan.winner \in Leg
    BY DEF FanInv, WinnerIsUp, RingTypeOK, Fan
  <2>2. won.pc \in {"off", "ack", "lookup", "relay", "done"}
    BY DEF FanInv, RingTypeOK, Winner
  <2>3. won.pc # "off" => leg'[fan.winner] = leg[fan.winner]
    BY <1>2, <1>4, <2>1, <2>2 DEF FanInv, WinnerIsUp
  <2> QED
    BY <1>2, <1>4, <2>3 DEF FanInv, WinnerIsUp
<1>8. SocketsStay'
  BY <1>2 DEF FanInv, SocketsStay
<1> QED
  BY <1>5, <1>6, <1>7, <1>8 DEF FanInv

LEMMA FanWin ==
  ASSUME FanInv, NEW l \in Leg, Win(l)
  PROVE  FanInv'
<1>1. /\ leg[l] = "answered" /\ l \in fan.legs /\ ~fan.terminated /\ fan.winner = NoLeg
      /\ fan' = [fan EXCEPT !.winner = l]
      /\ won' = [won EXCEPT !.pc = "ack", !.legs = fan.legs]
      /\ UNCHANGED <<leg, legRtp, go, timer>>
  BY DEF Win
<1>2. fan \in Fan /\ won \in Winner
  BY DEF FanInv, RingTypeOK
<1>3. /\ fan' \in Fan /\ fan'.winner = l /\ fan'.legs = fan.legs
      /\ fan'.terminated = fan.terminated
  BY <1>1, <1>2 DEF Fan
<1>4. won' \in Winner /\ won'.pc = "ack"
  <2>1. fan.legs \subseteq RungLeg
    BY <1>2 DEF Fan
  <2> QED
    BY <1>1, <1>2, <2>1 DEF Winner
<1>5. RingTypeOK'
  BY <1>1, <1>3, <1>4 DEF FanInv, RingTypeOK
<1>6. RungOnce'
  BY <1>1 DEF FanInv, RungOnce
<1>7. WinnerIsUp'
  <2>1. \A m \in Leg : leg[m] # "up"
    BY <1>1, Legs DEF FanInv, WinnerIsUp
  <2> QED
    BY <1>1, <1>3, <1>4, <2>1, Legs DEF WinnerIsUp
<1>8. SocketsStay'
  BY <1>1, <1>3 DEF FanInv, SocketsStay
<1> QED
  BY <1>5, <1>6, <1>7, <1>8 DEF FanInv

LEMMA FanAckWinner == FanInv /\ AckWinner => FanInv'
<1> SUFFICES ASSUME FanInv, AckWinner PROVE FanInv'
  OBVIOUS
<1> DEFINE ls == won.legs \ {fan.winner}
<1>1. /\ won.pc = "ack" /\ won' = [won EXCEPT !.pc = "lookup"]
      /\ leg' = [Stopped(ls) EXCEPT ![fan.winner] = "up"]
      /\ UNCHANGED <<fan, legRtp, go, timer>>
  BY DEF AckWinner
<1>2. leg \in [Leg -> LegState] /\ won \in Winner /\ fan \in Fan
  BY DEF FanInv, RingTypeOK
<1>3. fan.winner \in Leg
  BY <1>1, <1>2 DEF FanInv, WinnerIsUp, Fan
<1> HIDE DEF ls
<1>4. /\ leg' \in [Leg -> LegState] /\ leg'[fan.winner] = "up"
      /\ \A l \in Leg : l # fan.winner =>
           leg'[l] = leg[l] \/ (leg[l] = "ringing" /\ leg'[l] = "cancelled")
  <2>1. /\ Stopped(ls) \in [Leg -> LegState]
        /\ \A l \in Leg : \/ Stopped(ls)[l] = leg[l]
                          \/ leg[l] = "ringing" /\ Stopped(ls)[l] = "cancelled"
    BY <1>2, StoppedLegs
  <2> QED
    BY <1>1, <1>3, <2>1 DEF LegState
<1>5. won' \in Winner /\ won'.pc = "lookup"
  BY <1>1, <1>2 DEF Winner
<1>6. RingTypeOK'
  BY <1>1, <1>4, <1>5 DEF FanInv, RingTypeOK
<1>7. RungOnce'
  <2>1. leg[fan.winner] = "answered"
    BY <1>1 DEF FanInv, WinnerIsUp
  <2> QED
    BY <1>1, <1>3, <1>4, <2>1 DEF FanInv, RungOnce
<1>8. WinnerIsUp' /\ SocketsStay'
  BY <1>1, <1>3, <1>4, <1>5, Legs DEF FanInv, WinnerIsUp, SocketsStay
<1> QED
  BY <1>6, <1>7, <1>8 DEF FanInv

LEMMA FanCarriedThrough == FanInv /\ CallerTypeOK /\ (LookUpSession \/ Relay) => FanInv'
<1> SUFFICES ASSUME FanInv, CallerTypeOK, LookUpSession \/ Relay PROVE FanInv'
  OBVIOUS
<1>1. won \in Winner /\ fan \in Fan /\ current \in Nat
  BY CallsAreNat DEF FanInv, RingTypeOK, CallerTypeOK
<1>2. CASE LookUpSession
  <2>1. /\ won.pc = "lookup" /\ won' = [won EXCEPT !.pc = "relay", !.call = current]
        /\ UNCHANGED <<fan, leg, legRtp, go, timer>>
    BY <1>2 DEF LookUpSession
  <2>2. won' \in Winner /\ won'.pc = "relay"
    BY <1>1, <2>1 DEF Winner
  <2> QED
    BY <2>1, <2>2 DEF FanInv, RingTypeOK, RungOnce, WinnerIsUp, SocketsStay
<1>3. CASE Relay
  <2>1. /\ won.pc = "relay" /\ won' = [won EXCEPT !.pc = "done"]
        /\ fan' = fan \/ fan' = [fan EXCEPT !.cap = "open"]
        /\ UNCHANGED <<leg, legRtp, go, timer>>
    BY <1>3 DEF Relay
  <2>2. won' \in Winner /\ won'.pc = "done"
    BY <1>1, <2>1 DEF Winner
  <2>3. /\ fan' \in Fan /\ fan'.legs = fan.legs /\ fan'.winner = fan.winner
        /\ fan'.terminated = fan.terminated
    BY <1>1, <2>1 DEF Fan
  <2>4. RingTypeOK'
    BY <2>1, <2>2, <2>3 DEF FanInv, RingTypeOK
  <2> QED
    BY <2>1, <2>2, <2>3, <2>4 DEF FanInv, RungOnce, WinnerIsUp, SocketsStay
<1> QED
  BY <1>2, <1>3

\* What the fanout leaves of the caller's state: the loop may be busy with an
\* answer, and a recording may be asked for.
LEMMA RingLeavesCallerAlone ==
  ASSUME TypeOK, RingSteps
  PROVE  /\ CallerTypeOK' /\ UNCHANGED <<caller, tables>>
         /\ loop' = loop \/ loop' = NoLoop \/ (loop' = [loop EXCEPT !.at = "won"] /\ loop.at = "idle")
         /\ rec'.on = rec.on /\ rec'.fwd = rec.fwd
<1>1. /\ UNCHANGED <<caller, tables>>
      /\ \/ loop' = loop
         \/ loop' = NoLoop
         \/ loop' = [loop EXCEPT !.at = "won"] /\ loop.at = "idle"
      /\ rec' = rec \/ rec' = [rec EXCEPT !.starters = @ + 1]
  BY DEF RingSteps, Begin, Emit, Register, Timeout, CancelAll, Answer, Win, AckWinner,
         LookUpSession, Relay, Holds
<1>2. loop' \in Loop
  BY <1>1 DEF TypeOK, CallerTypeOK, Loop, NoLoop
<1>3. rec' \in Rec /\ rec'.on = rec.on /\ rec'.fwd = rec.fwd
  <2> DEFINE n == rec.starters + 1
  <2>1. n \in Nat /\ rec \in Rec
    BY DEF TypeOK, CallerTypeOK, Rec
  <2>2. rec' = rec \/ rec' = [rec EXCEPT !.starters = n]
    BY <1>1
  <2> HIDE DEF n
  <2> QED
    BY <2>1, <2>2 DEF Rec
<1> QED
  BY <1>1, <1>2, <1>3 DEF TypeOK, CallerTypeOK, caller, tables

\* The recorder's side.
LEMMA RecordingType ==
  ASSUME CallerTypeOK, StartRecording \/ Attach
  PROVE  /\ CallerTypeOK' /\ UNCHANGED <<caller, loop, tables>>
         /\ rec'.on => rec.on \/ \E n \in Calls : sess[n].state = "joinedGroup"
         /\ rec'.fwd = rec.fwd \/ (rec.on /\ rec'.fwd = rec.fwd \cup ({current} \ {NoCall}))
<1>1. CASE StartRecording
  <2>1. PICK n \in Calls :
          /\ sess[n].state = "joinedGroup"
          /\ rec' = [rec EXCEPT !.starters = @ - 1, !.on = @ \/ Records(sess[n])]
    BY <1>1 DEF StartRecording
  <2> DEFINE k == rec.starters - 1
             b == rec.on \/ Records(sess[n])
  <2>2. k \in Nat /\ b \in BOOLEAN /\ rec \in Rec /\ rec' = [rec EXCEPT !.starters = k, !.on = b]
    <3>1. rec \in Rec /\ rec.starters > 0
      BY <1>1 DEF StartRecording, CallerTypeOK
    <3>2. k \in Nat
      BY <3>1 DEF Rec
    <3>3. b \in BOOLEAN
      OBVIOUS
    <3> QED
      BY <2>1, <3>1, <3>2, <3>3
  <2> HIDE DEF k, b
  <2>3. rec' \in Rec /\ rec'.fwd = rec.fwd
    BY <2>2 DEF Rec
  <2>4. UNCHANGED <<caller, loop, tables>>
    BY <1>1 DEF StartRecording
  <2> QED
    BY <2>1, <2>3, <2>4 DEF CallerTypeOK, caller, tables
<1>2. CASE Attach
  <2>1. /\ rec.on /\ UNCHANGED <<caller, loop, tables>>
        /\ rec' = [rec EXCEPT !.fwd = @ \cup ({current} \ {NoCall})]
    BY <1>2 DEF Attach
  <2>2. {current} \ {NoCall} \subseteq Nat /\ rec \in Rec
    BY CallsAreNat DEF CallerTypeOK
  <2>3. /\ rec' \in Rec /\ rec'.on = rec.on
        /\ rec'.fwd = rec.fwd \cup ({current} \ {NoCall})
    BY <2>1, <2>2 DEF Rec
  <2> QED
    BY <2>1, <2>3 DEF CallerTypeOK, caller, tables
<1> QED
  BY <1>1, <1>2

LEMMA StoreSessionType ==
  ASSUME CallerTypeOK, StoreSession, loop.call \in Calls
  PROVE  CallerTypeOK'
<1>1. /\ loop' = NoLoop /\ current' = loop.call
      /\ UNCHANGED <<caller, invites, reinvites, sess, entry, sockets, rec>>
  BY DEF StoreSession
<1>2. NoLoop \in Loop
  BY DEF NoLoop, Loop
<1> QED
  BY <1>1, <1>2 DEF CallerTypeOK, caller

(***************************************************************************)
(* The caller's dialog: what the hang-up leaves behind.                    *)
(***************************************************************************)
Numbered ==
  /\ invites <= MaxInvites /\ current <= invites /\ loop.call <= invites
  /\ \A n \in Calls : n > invites => sess[n].state = "none"
  /\ loop.at = "invite" => /\ loop.call = invites /\ invites > 0 /\ ~phone.hungUp
                           /\ current < invites /\ sess[invites].state = "collectBridge"
  /\ phone.hungUp => current = NoCall
  /\ loop.at = "bye" => phone.hungUp
  /\ loop.at = "cancel" => current = NoCall /\ ~phone.hungUp
  /\ rec.on => \E n \in Calls : sess[n].state = "joinedGroup"

\* The sockets of the only session there is: with the entry once he is in a
\* bridge, with the session before that, and with the read loop in between.
SocketsAreHeld ==
  /\ NoSocket \notin sockets
  /\ entry.up \/ entry.rtp = NoSocket
  /\ phone.hungUp /\ loop.at # "bye" => ~entry.up
  /\ invites = 0 => sockets = {} /\ rec.fwd = {} /\ ~entry.up
  /\ invites = 1 =>
       /\ entry.up => current = NoCall /\ loop.at # "invite"
       /\ rec.fwd # {} =>
            /\ rec.fwd = {1} /\ sess[1].state = "joinedGroup"
            /\ current = 1 \/ (loop.at \in {"bye", "cancel"} /\ loop.call = 1)
       /\ \A s \in sockets : \/ s = entry.rtp
                             \/ current = 1 /\ s = sess[1].rtp
                             \/ /\ loop.at \in {"invite", "bye", "cancel"} /\ loop.call = 1
                                /\ s = sess[1].rtp

\* The read loop has the winner of a UDP leg in hand until the media are relayed.
CaptureIsHeld ==
  /\ fan.winner = NoLeg => fan.cap = "none"
  /\ fan.winner # NoLeg /\ ~IsTls(fan.winner) =>
       /\ won.pc \in {"ack", "lookup", "relay"} => loop.at = "won"
       /\ phone.hungUp /\ won.pc = "relay" => won.call = NoCall
       /\ phone.hungUp /\ loop.at # "bye" => fan.cap # "open"

CallInv == TypeOK /\ FanInv /\ Numbered /\ SocketsAreHeld /\ CaptureIsHeld

LEMMA CallInit == Init => CallInv
<1> SUFFICES ASSUME Init PROVE CallInv
  OBVIOUS
<1>1. TypeOK /\ FanInv
  BY TypeInit, FanInit
<1>2. /\ phone.hungUp = FALSE /\ loop = NoLoop /\ invites = 0 /\ current = NoCall
      /\ sess = [n \in Calls |-> NoSession] /\ entry = NoEntry /\ sockets = {}
      /\ rec = [starters |-> 0, on |-> FALSE, fwd |-> {}] /\ fan = NoFan
  BY DEF Init
<1>3. Numbered
  <2>1. loop.at = "idle" /\ loop.call = 0 /\ MaxInvites \in Nat /\ rec.on = FALSE
    BY <1>2, IvrAssumption DEF NoLoop
  <2>2. \A n \in Calls : sess[n].state = "none"
    BY <1>2 DEF NoSession
  <2> QED
    BY <1>2, <2>1, <2>2 DEF Numbered
<1>4. SocketsAreHeld /\ CaptureIsHeld
  BY <1>2 DEF SocketsAreHeld, CaptureIsHeld, NoEntry, NoFan
<1> QED
  BY <1>1, <1>3, <1>4 DEF CallInv

\* TypeOK and FanInv, for every step.
LEMMA FanStep == CallInv /\ Next => TypeOK' /\ FanInv'
<1> SUFFICES ASSUME CallInv, Next PROVE TypeOK' /\ FanInv'
  OBVIOUS
<1> USE DEF CallInv
<1>1. CASE CallerSteps
  <2>1. FanInv'
    BY <1>1, CallerLeavesFanAlone, FanLeftAlonePreserves
  <2>2. CASE StoreSession
    <3>1. loop.call \in Calls
      BY <2>2 DEF StoreSession, Numbered, Calls, TypeOK, CallerTypeOK, Loop
    <3> QED
      BY <2>1, <2>2, <3>1, StoreSessionType DEF TypeOK, FanInv
  <2>3. CASE ~StoreSession
    BY <1>1, <2>1, <2>3, InviteType, PressType, KeyType, InfoAgainType, ReinviteType, CancelType, ByeType,
       CleanUpType, DropType
       DEF CallerSteps, TypeOK, FanInv
  <2> QED
    BY <2>2, <2>3
<1>2. CASE RingSteps
  <2>1. CallerTypeOK'
    BY <1>2, RingLeavesCallerAlone
  <2>2. FanInv'
    BY <1>2, FanBegin, FanEmit, FanRegister, FanTimeout, FanCancelAll, FanAnswer, FanWin,
       FanAckWinner, FanCarriedThrough DEF RingSteps, TypeOK
  <2> QED
    BY <2>1, <2>2 DEF TypeOK, FanInv
<1>3. CASE StartRecording \/ Attach
  <2>1. FanInv'
    BY <1>3, CallerLeavesFanAlone, FanLeftAlonePreserves
  <2> QED
    BY <1>3, <2>1, RecordingType DEF TypeOK, FanInv
<1> QED
  BY <1>1, <1>2, <1>3 DEF Next, CallerSteps, KeySteps, RingSteps

LEMMA CallNumbers ==
  ASSUME CallInv
  PROVE  /\ invites \in Nat /\ MaxInvites \in Nat \ {0} /\ current \in Nat /\ loop.call \in Nat
         /\ loop \in Loop /\ entry \in Entry /\ rec \in Rec /\ phone \in Phone /\ fan \in Fan
         /\ won \in Winner /\ sess \in [Calls -> Session]
         /\ \A n \in Nat \ {0} : n <= MaxInvites => n \in Calls
<1> QED
  BY CallsAreNat, IvrAssumption DEF CallInv, TypeOK, CallerTypeOK, RingTypeOK, Loop, Calls

LEMMA CallInvite == CallInv /\ Invite => Numbered' /\ SocketsAreHeld' /\ CaptureIsHeld'
<1> SUFFICES ASSUME CallInv, Invite PROVE Numbered' /\ SocketsAreHeld' /\ CaptureIsHeld'
  OBVIOUS
<1>1. /\ loop.at = "idle" /\ ~phone.hungUp /\ invites < MaxInvites /\ invites' = invites + 1
      /\ loop' = [at |-> "invite", call |-> invites']
      /\ UNCHANGED <<current, entry, rec, fan, won>>
  BY DEF Invite, ringing
<1>2. PICK s \in Session : /\ sess' = [sess EXCEPT ![invites'] = s]
                           /\ s.state = "collectBridge"
                           /\ s.rtp = (IF phone.offer.audio THEN invites' ELSE NoSocket)
  BY InviteType DEF CallInv, TypeOK
<1>3. /\ phone'.hungUp = phone.hungUp /\ invites' \in Calls
      /\ sockets' = sockets \cup (IF phone.offer.audio THEN {invites'} ELSE {})
  BY InviteType DEF CallInv, TypeOK
<1>4. /\ sess'[invites'] = s /\ \A n \in Calls : n # invites' => sess'[n] = sess[n]
  BY <1>2, <1>3, CallNumbers
<1>5. Numbered'
  <2>1. current <= invites /\ invites + 1 <= MaxInvites
    BY <1>1, CallNumbers DEF CallInv, Numbered
  <2>2. \A n \in Calls : n > invites' => sess'[n].state = "none"
    BY <1>1, <1>4, CallNumbers, CallsAreNat DEF CallInv, Numbered
  <2>3. rec.on => \E n \in Calls : sess'[n].state = "joinedGroup"
    <3> SUFFICES ASSUME rec.on PROVE \E n \in Calls : sess'[n].state = "joinedGroup"
      OBVIOUS
    <3>1. PICK n \in Calls : sess[n].state = "joinedGroup"
      BY DEF CallInv, Numbered
    <3>2. n # invites'
      BY <1>1, <3>1, CallNumbers, CallsAreNat DEF CallInv, Numbered
    <3> QED
      BY <1>4, <3>1, <3>2
  <2> QED
    BY <1>1, <1>2, <1>3, <1>4, <2>1, <2>2, <2>3, CallNumbers DEF CallInv, Numbered
<1>6. SocketsAreHeld'
  <2>1. NoSocket \notin sockets'
    BY <1>3, CallsAreNat DEF CallInv, SocketsAreHeld
  <2>2. CASE invites' = 1
    <3>1. invites = 0 /\ sockets = {} /\ rec.fwd = {} /\ ~entry.up
      BY <1>1, <2>2, CallNumbers DEF CallInv, SocketsAreHeld
    <3> QED
      BY <1>1, <1>2, <1>3, <1>4, <2>1, <2>2, <3>1 DEF CallInv, SocketsAreHeld
  <2>3. CASE invites' # 1
    BY <1>1, <1>3, <2>1, <2>3, CallNumbers, CallsAreNat DEF CallInv, SocketsAreHeld
  <2> QED
    BY <2>2, <2>3
<1>7. CaptureIsHeld'
  BY <1>1, <1>3 DEF CallInv, CaptureIsHeld
<1> QED
  BY <1>5, <1>6, <1>7

LEMMA CallStoreSession == CallInv /\ StoreSession => Numbered' /\ SocketsAreHeld' /\ CaptureIsHeld'
<1> SUFFICES ASSUME CallInv, StoreSession PROVE Numbered' /\ SocketsAreHeld' /\ CaptureIsHeld'
  OBVIOUS
<1>1. /\ loop.at = "invite" /\ loop' = NoLoop /\ current' = loop.call
      /\ UNCHANGED <<phone, invites, sess, entry, sockets, rec, fan, won>>
  BY DEF StoreSession, caller, ringing
<1>2. Numbered'
  BY <1>1, CallNumbers DEF CallInv, Numbered, NoLoop
<1>3. SocketsAreHeld'
  BY <1>1 DEF CallInv, Numbered, SocketsAreHeld, NoLoop
<1>4. CaptureIsHeld'
  BY <1>1 DEF CallInv, CaptureIsHeld, Numbered
<1> QED
  BY <1>2, <1>3, <1>4

LEMMA CallPress == CallInv /\ Press => Numbered' /\ SocketsAreHeld' /\ CaptureIsHeld'
<1> SUFFICES ASSUME CallInv, Press PROVE Numbered' /\ SocketsAreHeld' /\ CaptureIsHeld'
  OBVIOUS
<1>1. /\ UNCHANGED <<loop, invites, sess, current, entry, sockets, rec, fan, won>>
      /\ phone'["hungUp"] = phone["hungUp"]
  BY PressType DEF CallInv, TypeOK, tables, ringing
<1>2. phone'.hungUp = phone.hungUp
  BY <1>1
<1>3. Numbered'
  BY <1>1, <1>2 DEF CallInv, Numbered
<1>4. SocketsAreHeld'
  BY <1>1, <1>2 DEF CallInv, SocketsAreHeld
<1>5. CaptureIsHeld'
  BY <1>1, <1>2 DEF CallInv, CaptureIsHeld
<1> QED
  BY <1>3, <1>4, <1>5

LEMMA CallInfoAgain == CallInv /\ InfoAgain => Numbered' /\ SocketsAreHeld' /\ CaptureIsHeld'
<1> SUFFICES ASSUME CallInv, InfoAgain PROVE Numbered' /\ SocketsAreHeld' /\ CaptureIsHeld'
  OBVIOUS
<1>1. UNCHANGED <<phone, loop, invites, sess, current, entry, sockets, rec, fan, won>>
  BY InfoAgainType DEF CallInv, TypeOK, tables, ringing
<1>2. Numbered'
  BY <1>1 DEF CallInv, Numbered
<1>3. SocketsAreHeld'
  BY <1>1 DEF CallInv, SocketsAreHeld
<1>4. CaptureIsHeld'
  BY <1>1 DEF CallInv, CaptureIsHeld
<1> QED
  BY <1>2, <1>3, <1>4

LEMMA CallKey == CallInv /\ KeySteps => Numbered' /\ SocketsAreHeld' /\ CaptureIsHeld'
<1> SUFFICES ASSUME CallInv, KeySteps PROVE Numbered' /\ SocketsAreHeld' /\ CaptureIsHeld'
  OBVIOUS
<1>1. UNCHANGED <<phone, loop, invites, sockets, fan, won>>
  BY KeyMoves DEF CallInv, TypeOK
<1>2. CaptureIsHeld'
  BY <1>1 DEF CallInv, CaptureIsHeld
<1>3. CASE UNCHANGED <<sess, current, entry, rec, go>>
  BY <1>1, <1>2, <1>3 DEF CallInv, Numbered, SocketsAreHeld
<1>4. CASE current \in Calls /\ \E press \in Nat : Hears(press)
  <2>1. PICK press \in Nat : Hears(press)
    BY <1>4
  <2>2. PICK s \in Session :
          /\ sess' = [sess EXCEPT ![current] = s]
          /\ s.rtp = sess[current].rtp
          /\ sess[current].state = "joinedGroup" => s.state = "joinedGroup"
          /\ \/ UNCHANGED <<current, entry>>
             \/ /\ current' = NoCall /\ s.state = "joined"
                /\ \E t \in Target : entry' = [up |-> TRUE, target |-> t, rtp |-> s.rtp,
                                               call |-> current]
    BY <2>1 DEF Hears
  <2>3. /\ sess'[current] = s /\ \A n \in Calls : n # current => sess'[n] = sess[n]
        /\ current \in Calls /\ current # 0 /\ ~phone.hungUp
    BY <1>4, <2>2, CallNumbers, CallsAreNat DEF CallInv, Numbered
  <2>4. rec'.on = rec.on /\ rec'.fwd = rec.fwd
    BY <1>4, <2>1, HearsType DEF CallInv, TypeOK
  <2>5. loop.at = "invite" => current # invites /\ loop.call = invites
    BY CallNumbers DEF CallInv, Numbered
  <2>6. Numbered'
    <3>1. current' <= invites
      BY <2>2, CallNumbers DEF CallInv, Numbered
    <3>2. \A n \in Calls : n > invites => sess'[n].state = "none"
      BY <2>3, CallNumbers, CallsAreNat DEF CallInv, Numbered
    <3>3. loop.at = "invite" => current' < invites /\ sess'[invites].state = "collectBridge"
      <4> SUFFICES ASSUME loop.at = "invite"
                   PROVE  current' < invites /\ sess'[invites].state = "collectBridge"
        OBVIOUS
      <4>1. current < invites /\ invites > 0 /\ invites <= MaxInvites /\ sess[invites].state = "collectBridge"
        BY DEF CallInv, Numbered
      <4>2. invites \in Calls
        BY <4>1, CallNumbers
      <4>3. current' < invites
        BY <2>2, <4>1, CallNumbers
      <4> QED
        BY <2>3, <2>5, <4>1, <4>2, <4>3
    <3>4. rec.on => \E n \in Calls : sess'[n].state = "joinedGroup"
      <4> SUFFICES ASSUME rec.on PROVE \E n \in Calls : sess'[n].state = "joinedGroup"
        OBVIOUS
      <4>1. PICK n \in Calls : sess[n].state = "joinedGroup"
        BY DEF CallInv, Numbered
      <4>2. sess'[n].state = "joinedGroup"
        BY <2>2, <2>3, <4>1
      <4> QED
        BY <4>2
    <3>5. phone.hungUp => current' = NoCall
      BY <2>3
    <3>6. invites <= MaxInvites /\ loop.call <= invites
      BY DEF CallInv, Numbered
    <3>7. loop.at = "invite" => loop.call = invites /\ invites > 0 /\ ~phone.hungUp
      BY DEF CallInv, Numbered
    <3>8. /\ loop.at = "bye" => phone.hungUp
          /\ loop.at = "cancel" => current' = NoCall /\ ~phone.hungUp
      BY <2>3 DEF CallInv, Numbered
    <3> QED
      BY <1>1, <2>4, <3>1, <3>2, <3>3, <3>4, <3>5, <3>6, <3>7, <3>8 DEF Numbered
  <2>7. SocketsAreHeld'
    <3>1. invites # 0 /\ (invites = 1 => current = 1)
      BY <2>3, CallNumbers DEF CallInv, Numbered
    <3>2. entry'.up \/ entry'.rtp = NoSocket
      BY <2>2 DEF CallInv, SocketsAreHeld
    <3>3. CASE invites = 1
      <4>1. current = 1 /\ loop.at \notin {"bye", "cancel", "invite"} /\ ~entry.up /\ entry.rtp = NoSocket
        BY <2>3, <2>5, <3>1, <3>3 DEF CallInv, Numbered, SocketsAreHeld
      <4>2. sockets \subseteq {sess[1].rtp}
        BY <3>3, <4>1 DEF CallInv, SocketsAreHeld
      <4>3. rec.fwd # {} => rec.fwd = {1} /\ sess[1].state = "joinedGroup"
        BY <3>3 DEF CallInv, SocketsAreHeld
      <4>4. sess'[1].rtp = sess[1].rtp
        BY <2>2, <2>3, <4>1
      <4>5. CASE UNCHANGED <<current, entry>>
        <5>1. rec.fwd # {} => sess'[1].state = "joinedGroup"
          BY <2>2, <2>3, <4>1, <4>3
        <5> QED
          BY <5>1, <1>1, <2>3, <2>4, <3>1, <3>2, <3>3, <4>1, <4>2, <4>3, <4>4, <4>5 DEF CallInv, SocketsAreHeld
      <4>6. CASE /\ current' = NoCall /\ s.state = "joined"
                 /\ \E t \in Target : entry' = [up |-> TRUE, target |-> t, rtp |-> s.rtp,
                                                call |-> current]
        <5>1. entry'.up /\ entry'.rtp = sess[1].rtp
          BY <2>2, <4>1, <4>6
        <5>2. sess'[1].state = "joined"
          BY <2>3, <4>1, <4>6
        <5>3. sess'[1].state = "joinedGroup" => FALSE
          BY <5>2
        <5>4. rec.fwd = {}
          BY <2>2, <4>1, <4>3, <4>6
        <5> QED
          BY <1>1, <2>3, <2>4, <3>2, <3>3, <4>1, <4>2, <4>6, <5>1, <5>3, <5>4
             DEF CallInv, SocketsAreHeld
      <4> QED
        BY <2>2, <4>5, <4>6
    <3>4. CASE invites # 1
      BY <1>1, <2>3, <3>1, <3>2, <3>4 DEF CallInv, SocketsAreHeld
    <3> QED
      BY <3>3, <3>4
  <2> QED
    BY <1>2, <2>6, <2>7
<1> QED
  BY <1>3, <1>4, KeyType DEF CallInv, TypeOK

LEMMA CallReinvite == CallInv /\ Reinvite => Numbered' /\ SocketsAreHeld' /\ CaptureIsHeld'
<1> SUFFICES ASSUME CallInv, Reinvite PROVE Numbered' /\ SocketsAreHeld' /\ CaptureIsHeld'
  OBVIOUS
<1>1. /\ loop.at = "idle" /\ invites > 0 /\ ~phone.hungUp /\ phone'.hungUp = phone.hungUp
      /\ UNCHANGED <<loop, invites, current, rec, fan, won>>
  BY ReinviteType DEF CallInv, TypeOK, ringing
<1>2. /\ sess' \in [Calls -> Session] /\ current \in 0..invites
      /\ \A n \in Calls : sess'[n].state = sess[n].state
      /\ \/ UNCHANGED <<sess, entry, sockets>>
         \/ /\ entry.up /\ UNCHANGED sess
            /\ entry'.up
            /\ sockets' = (sockets \ ({entry.rtp} \ {entry'.rtp})) \cup ({entry'.rtp} \ {NoSocket})
         \/ /\ ~entry.up /\ current # NoCall /\ UNCHANGED entry
            /\ sess[current].rtp = NoSocket
            /\ \E s \in Session : /\ sess' = [sess EXCEPT ![current] = s] /\ s.rtp # NoSocket
                                  /\ s.state = sess[current].state
                                  /\ sockets' = sockets \cup {s.rtp}
  <2>1. \E new \in Nat \ {NoSocket} :
          \/ UNCHANGED <<sess, entry, sockets>>
          \/ /\ entry.up /\ UNCHANGED sess
             /\ entry'.up
             /\ sockets' = (sockets \ ({entry.rtp} \ {entry'.rtp})) \cup ({entry'.rtp} \ {NoSocket})
          \/ /\ ~entry.up /\ current # NoCall /\ UNCHANGED entry
             /\ sess[current].rtp = NoSocket
             /\ \E s \in Session : /\ sess' = [sess EXCEPT ![current] = s] /\ s.rtp = new
                                   /\ s.state = sess[current].state
             /\ sockets' = sockets \cup {new}
    BY ReinviteType DEF CallInv, TypeOK
  <2>2. sess' \in [Calls -> Session] /\ sess \in [Calls -> Session] /\ current \in 0..invites
    BY ReinviteType, CallNumbers DEF CallInv, TypeOK, CallerTypeOK, Numbered
  <2>3. \A n \in Calls : sess'[n].state = sess[n].state
    BY <2>1, <2>2
  <2> QED
    BY <2>1, <2>2, <2>3
<1>3. Numbered'
  <2>1. invites \in Calls
    BY <1>1, CallNumbers DEF CallInv, Numbered
  <2> QED
    BY <1>1, <1>2, <2>1 DEF CallInv, Numbered
<1>4. CaptureIsHeld'
  BY <1>1 DEF CallInv, CaptureIsHeld
<1>5. SocketsAreHeld'
  <2>1. invites # 0 /\ entry.rtp \in Nat /\ invites \in Nat
    BY <1>1, CallNumbers DEF Entry
  <2>2. CASE UNCHANGED <<sess, entry, sockets>>
    BY <1>1, <2>2 DEF CallInv, SocketsAreHeld
  <2>3. CASE /\ entry.up /\ UNCHANGED sess /\ entry'.up
             /\ sockets' = (sockets \ ({entry.rtp} \ {entry'.rtp})) \cup ({entry'.rtp} \ {NoSocket})
    BY <1>1, <2>1, <2>3 DEF CallInv, SocketsAreHeld
  <2>4. CASE /\ ~entry.up /\ current # NoCall /\ UNCHANGED entry
             /\ sess[current].rtp = NoSocket
             /\ \E s \in Session : /\ sess' = [sess EXCEPT ![current] = s] /\ s.rtp # NoSocket
                                   /\ s.state = sess[current].state
                                   /\ sockets' = sockets \cup {s.rtp}
    <3>1. PICK s \in Session : /\ sess' = [sess EXCEPT ![current] = s] /\ s.rtp # NoSocket
                               /\ sockets' = sockets \cup {s.rtp}
      BY <2>4
    <3>2. CASE invites = 1
      <4>1. current = 1 /\ 1 \in Calls
        BY <1>2, <2>4, <3>2, CallsAreNat
      <4>2. sess'[1] = s /\ sess'[1].state = sess[1].state
        BY <1>2, <3>1, <4>1, CallNumbers
      <4> QED
        BY <1>1, <2>1, <2>4, <3>1, <3>2, <4>1, <4>2 DEF CallInv, SocketsAreHeld
    <3>3. CASE invites # 1
      BY <1>1, <2>1, <2>4, <3>1, <3>3 DEF CallInv, SocketsAreHeld
    <3> QED
      BY <3>2, <3>3
  <2> QED
    BY <1>2, <2>2, <2>3, <2>4
<1> QED
  BY <1>3, <1>4, <1>5

LEMMA CallBye == CallInv /\ Bye => Numbered' /\ SocketsAreHeld' /\ CaptureIsHeld'
<1> SUFFICES ASSUME CallInv, Bye PROVE Numbered' /\ SocketsAreHeld' /\ CaptureIsHeld'
  OBVIOUS
<1>1. /\ loop.at = "idle" /\ ~phone.hungUp /\ phone'.hungUp
      /\ loop' = [at |-> "bye", call |-> current] /\ current' = NoCall
      /\ UNCHANGED <<invites, sess, entry, sockets, won, rec>>
      /\ fan' = [fan EXCEPT !.terminated = @ \/ fan.up]
  BY ByeType DEF CallInv, TypeOK
<1>2. fan'.winner = fan.winner /\ fan'.cap = fan.cap
  BY <1>1, CallNumbers DEF Fan
<1>3. Numbered'
  BY <1>1, CallNumbers DEF CallInv, Numbered
<1>4. SocketsAreHeld'
  BY <1>1 DEF CallInv, SocketsAreHeld
<1>5. CaptureIsHeld'
  BY <1>1, <1>2 DEF CallInv, CaptureIsHeld
<1> QED
  BY <1>3, <1>4, <1>5

LEMMA CallCancel == CallInv /\ Cancel => Numbered' /\ SocketsAreHeld' /\ CaptureIsHeld'
<1> SUFFICES ASSUME CallInv, Cancel PROVE Numbered' /\ SocketsAreHeld' /\ CaptureIsHeld'
  OBVIOUS
<1>1. /\ loop.at = "idle" /\ ~phone.hungUp
      /\ loop' = [at |-> "cancel", call |-> current] /\ current' = NoCall
      /\ UNCHANGED <<phone, invites, sess, entry, sockets, fan, won, rec>>
  BY CancelType DEF CallInv, TypeOK
<1>2. Numbered'
  BY <1>1, CallNumbers DEF CallInv, Numbered
<1>3. SocketsAreHeld'
  BY <1>1 DEF CallInv, SocketsAreHeld
<1>4. CaptureIsHeld'
  BY <1>1 DEF CallInv, CaptureIsHeld
<1> QED
  BY <1>2, <1>3, <1>4

LEMMA CallCleanUp == CallInv /\ CleanUp => Numbered' /\ SocketsAreHeld' /\ CaptureIsHeld'
<1> SUFFICES ASSUME CallInv, CleanUp PROVE Numbered' /\ SocketsAreHeld' /\ CaptureIsHeld'
  OBVIOUS
<1>1. /\ loop.at \in {"bye", "cancel"} /\ loop' = NoLoop
      /\ sockets' = sockets \ ({entry.rtp} \cup
                           (IF loop.call = NoCall THEN {} ELSE {sess[loop.call].rtp}))
      /\ entry' = NoEntry
      /\ rec'.on = FALSE /\ rec'.fwd = rec.fwd \ {loop.call}
      /\ fan' = [fan EXCEPT !.cap = IF @ = "open" /\ loop.at = "bye" THEN "closed" ELSE @]
      /\ UNCHANGED <<phone, invites, sess, current, won>>
  BY CleanUpType DEF CallInv, TypeOK, caller
<1>2. /\ fan'.winner = fan.winner /\ (phone.hungUp => fan'.cap # "open")
      /\ fan.winner = NoLeg => fan'.cap = "none"
  BY <1>1, CallNumbers DEF CallInv, Numbered, CaptureIsHeld, Fan
<1>3. current = NoCall
  BY <1>1 DEF CallInv, Numbered
<1>4. loop'.at = "idle" /\ loop'.call = NoCall /\ ~entry'.up /\ entry'.rtp = NoSocket
  BY <1>1 DEF NoLoop, NoEntry
<1>5. Numbered'
  BY <1>1, <1>3, <1>4, CallNumbers DEF CallInv, Numbered
<1>6. SocketsAreHeld'
  <2>1. invites = 1 => sockets' = {} /\ rec'.fwd = {}
    BY <1>1, <1>3 DEF CallInv, SocketsAreHeld
  <2> QED
    BY <1>1, <1>3, <1>4, <2>1 DEF CallInv, SocketsAreHeld
<1>7. CaptureIsHeld'
  BY <1>1, <1>2 DEF CallInv, CaptureIsHeld
<1> QED
  BY <1>5, <1>6, <1>7

LEMMA CallDrop == CallInv /\ Drop => Numbered' /\ SocketsAreHeld' /\ CaptureIsHeld'
<1> SUFFICES ASSUME CallInv, Drop PROVE Numbered' /\ SocketsAreHeld' /\ CaptureIsHeld'
  OBVIOUS
<1>1. /\ entry.up /\ entry' = NoEntry /\ sockets' = sockets \ {entry.rtp}
      /\ UNCHANGED <<phone, loop, invites, sess, current, fan, won, rec>>
  BY DropType DEF CallInv, TypeOK, caller, ringing
<1>2. ~entry'.up /\ entry'.rtp = NoSocket
  BY <1>1 DEF NoEntry
<1>3. Numbered'
  BY <1>1 DEF CallInv, Numbered
<1>4. SocketsAreHeld'
  BY <1>1, <1>2 DEF CallInv, SocketsAreHeld
<1>5. CaptureIsHeld'
  BY <1>1 DEF CallInv, CaptureIsHeld
<1> QED
  BY <1>3, <1>4, <1>5

LEMMA CallRing == CallInv /\ RingSteps => Numbered' /\ SocketsAreHeld' /\ CaptureIsHeld'
<1> SUFFICES ASSUME CallInv, RingSteps PROVE Numbered' /\ SocketsAreHeld' /\ CaptureIsHeld'
  OBVIOUS
<1>1. /\ UNCHANGED <<phone, invites, sess, current, entry, sockets>>
      /\ rec'.on = rec.on /\ rec'.fwd = rec.fwd
  BY RingLeavesCallerAlone DEF CallInv, caller, tables
<1>2. \/ UNCHANGED <<loop, won>> /\ fan' \in Fan /\ fan'.winner = fan.winner /\ fan'.cap = fan.cap
      \/ \E l \in Leg : Win(l)
      \/ AckWinner \/ LookUpSession \/ Relay
  <2>1. ASSUME NEW p \in Fanouts, Begin(p)
        PROVE  UNCHANGED <<loop, won>> /\ fan' \in Fan /\ fan'.winner = fan.winner /\ fan'.cap = fan.cap
    BY <2>1, CallNumbers DEF Begin, Fan
  <2>2. ASSUME NEW p \in Fanouts, Register(p)
        PROVE  UNCHANGED <<loop, won>> /\ fan' \in Fan /\ fan'.winner = fan.winner /\ fan'.cap = fan.cap
    <3>1. FanInv'
      BY <2>2, FanRegister DEF CallInv
    <3>2. fan' \in Fan
      BY <3>1 DEF FanInv, RingTypeOK
    <3> QED
      BY <2>2, <3>2, CallNumbers DEF Register, Fan
  <2>3. ASSUME NEW p \in Fanouts, Timeout(p)
        PROVE  UNCHANGED <<loop, won>> /\ fan' \in Fan /\ fan'.winner = fan.winner /\ fan'.cap = fan.cap
    BY <2>3, CallNumbers DEF Timeout, Fan
  <2>4. ASSUME NEW p \in Fanouts, Emit(p) \/ CancelAll(p)
        PROVE  UNCHANGED <<loop, won, fan>>
    BY <2>4 DEF Emit, CancelAll
  <2>5. ASSUME NEW l \in Leg, Answer(l) PROVE UNCHANGED <<loop, won, fan>>
    BY <2>5 DEF Answer
  <2> QED
    BY <2>1, <2>2, <2>3, <2>4, <2>5, CallNumbers DEF RingSteps
<1>3. CASE UNCHANGED <<loop, won>> /\ fan' \in Fan /\ fan'.winner = fan.winner /\ fan'.cap = fan.cap
  BY <1>1, <1>3 DEF CallInv, Numbered, SocketsAreHeld, CaptureIsHeld
<1>4. ASSUME CaptureIsHeld',
             \/ UNCHANGED loop
             \/ /\ loop'.call \in {loop.call, NoCall} /\ loop.at \in {"idle", "won"}
                /\ loop'.at \in {"idle", "won"}
      PROVE  Numbered' /\ SocketsAreHeld' /\ CaptureIsHeld'
  <2>1. Numbered'
    BY <1>1, <1>4, CallNumbers DEF CallInv, Numbered
  <2>2. SocketsAreHeld'
    BY <1>1, <1>4 DEF CallInv, SocketsAreHeld
  <2> QED
    BY <1>4, <2>1, <2>2
<1>5. ASSUME NEW l \in Leg, Win(l)
      PROVE  Numbered' /\ SocketsAreHeld' /\ CaptureIsHeld'
  <2>1. /\ fan.winner = NoLeg /\ fan' = [fan EXCEPT !.winner = l]
        /\ won' = [won EXCEPT !.pc = "ack", !.legs = fan.legs]
        /\ IsTls(l) \/ loop.at = "idle"
        /\ loop' = IF IsTls(l) THEN loop ELSE [loop EXCEPT !.at = "won"]
    BY <1>5 DEF Win, Holds
  <2>2. fan'.winner = l /\ fan'.cap = "none" /\ won'.pc = "ack"
    BY <2>1, CallNumbers DEF CallInv, CaptureIsHeld, Fan, Winner
  <2>3. ~IsTls(l) => loop'.at = "won" /\ loop'.call = loop.call
    BY <2>1, CallNumbers DEF Loop
  <2>4. CaptureIsHeld'
    BY <2>2, <2>3, Legs DEF CaptureIsHeld
  <2> QED
    BY <1>4, <2>1, <2>3, <2>4
<1>6. CASE AckWinner
  <2>1. won.pc = "ack" /\ won' = [won EXCEPT !.pc = "lookup"] /\ UNCHANGED <<loop, fan>>
    BY <1>6 DEF AckWinner
  <2>2. won'.pc = "lookup"
    BY <2>1, CallNumbers DEF Winner
  <2>3. CaptureIsHeld'
    BY <1>1, <2>1, <2>2 DEF CallInv, CaptureIsHeld
  <2> QED
    BY <1>4, <2>1, <2>3
<1>7. CASE LookUpSession
  <2>1. /\ won.pc = "lookup" /\ won' = [won EXCEPT !.pc = "relay", !.call = current]
        /\ UNCHANGED <<loop, fan>>
    BY <1>7 DEF LookUpSession
  <2>2. won'.pc = "relay" /\ won'.call = current
    BY <2>1, CallNumbers DEF Winner
  <2>3. CaptureIsHeld'
    BY <1>1, <2>1, <2>2 DEF CallInv, CaptureIsHeld, Numbered
  <2> QED
    BY <1>4, <2>1, <2>3
<1>8. CASE Relay
  <2>1. /\ won.pc = "relay" /\ won' = [won EXCEPT !.pc = "done"]
        /\ fan' = IF won.call # NoCall /\ sess[won.call].rtp # NoSocket
                  THEN [fan EXCEPT !.cap = "open"] ELSE fan
        /\ loop' = IF IsTls(fan.winner) THEN loop ELSE NoLoop
    BY <1>8 DEF Relay
  <2>2. fan.winner # NoLeg
    BY <2>1 DEF CallInv, FanInv, WinnerIsUp
  <2>3. won'.pc = "done" /\ fan'.winner = fan.winner
    BY <2>1, CallNumbers DEF Winner, Fan
  <2>4. ~IsTls(fan.winner) => loop.at = "won" /\ (phone.hungUp => fan' = fan)
    BY <2>1, <2>2 DEF CallInv, CaptureIsHeld
  <2>5. CaptureIsHeld'
    BY <1>1, <2>1, <2>2, <2>3, <2>4 DEF CallInv, CaptureIsHeld
  <2> QED
    BY <1>4, <2>1, <2>4, <2>5 DEF NoLoop
<1> QED
  BY <1>2, <1>3, <1>5, <1>6, <1>7, <1>8

LEMMA CallRecording ==
  CallInv /\ (StartRecording \/ Attach) => Numbered' /\ SocketsAreHeld' /\ CaptureIsHeld'
<1> SUFFICES ASSUME CallInv, StartRecording \/ Attach
             PROVE  Numbered' /\ SocketsAreHeld' /\ CaptureIsHeld'
  OBVIOUS
<1>1. /\ UNCHANGED <<phone, loop, invites, sess, current, entry, sockets, fan, won>>
      /\ rec'.on => rec.on \/ \E n \in Calls : sess[n].state = "joinedGroup"
      /\ rec'.fwd = rec.fwd \/ (rec.on /\ rec'.fwd = rec.fwd \cup ({current} \ {NoCall}))
  BY RecordingType DEF CallInv, TypeOK, caller, tables, StartRecording, Attach, ringing
<1>2. Numbered'
  BY <1>1 DEF CallInv, Numbered
<1>3. CaptureIsHeld'
  BY <1>1 DEF CallInv, CaptureIsHeld
<1>4. SocketsAreHeld'
  <2>1. CASE rec'.fwd = rec.fwd
    BY <1>1, <2>1 DEF CallInv, SocketsAreHeld
  <2>2. CASE rec.on /\ rec'.fwd # rec.fwd
    <3>1. current \in Nat /\ current # 0 /\ invites \in Nat /\ current <= invites
      BY <1>1, <2>2, CallNumbers DEF CallInv, Numbered
    <3>2. rec'.fwd = rec.fwd \cup {current}
      BY <1>1, <2>2, <3>1
    <3>3. CASE invites = 1
      <4>1. PICK n \in Calls : sess[n].state = "joinedGroup"
        BY <2>2 DEF CallInv, Numbered
      <4>2. ~(n > invites) /\ n \in Nat \ {0}
        BY <4>1, CallsAreNat DEF CallInv, Numbered
      <4>3. n = 1 /\ current = 1
        BY <3>1, <3>3, <4>2
      <4>4. rec'.fwd = {1}
        BY <3>2, <3>3, <4>3 DEF CallInv, SocketsAreHeld
      <4> QED
        BY <1>1, <3>3, <4>1, <4>3, <4>4 DEF CallInv, SocketsAreHeld
    <3>4. CASE invites # 1
      BY <1>1, <3>1, <3>4 DEF CallInv, SocketsAreHeld
    <3> QED
      BY <3>3, <3>4
  <2> QED
    BY <1>1, <2>1, <2>2
<1> QED
  BY <1>2, <1>3, <1>4

LEMMA CallStep == CallInv /\ [Next]_vars => CallInv'
<1> SUFFICES ASSUME CallInv, [Next]_vars PROVE CallInv'
  OBVIOUS
<1>1. CASE Next
  <2>1. TypeOK' /\ FanInv'
    BY <1>1, FanStep
  <2>2. Numbered' /\ SocketsAreHeld' /\ CaptureIsHeld'
    <3>1. CASE CallerSteps
      BY <3>1, CallInvite, CallStoreSession, CallPress, CallInfoAgain, CallKey, CallReinvite,
         CallCancel, CallBye, CallCleanUp, CallDrop
         DEF CallerSteps
    <3>2. CASE RingSteps
      BY <3>2, CallRing
    <3>3. CASE StartRecording \/ Attach
      BY <3>3, CallRecording
    <3> QED
      BY <1>1, <3>1, <3>2, <3>3 DEF Next, CallerSteps, KeySteps, RingSteps
  <2> QED
    BY <2>1, <2>2 DEF CallInv
<1>2. CASE UNCHANGED vars
  <2>1. UNCHANGED <<phone, info, events, last, again, loop, invites, reinvites, sess, current, entry, sockets,
                    fan, leg, legRtp, go, timer, won, rec>>
    BY <1>2 DEF vars, caller, tables, ringing
  <2> QED
    BY <2>1 DEF CallInv, TypeOK, CallerTypeOK, RingTypeOK, FanInv, RungOnce, WinnerIsUp,
                SocketsStay, Numbered, SocketsAreHeld, CaptureIsHeld
<1> QED
  BY <1>1, <1>2

\* The inductive invariant of the caller's dialog and the fanout together: who
\* holds each socket, the recording and the capture, and who has won.
THEOREM CallInvHolds == Spec => []CallInv
<1>1. Init => CallInv
  BY CallInit
<1>2. CallInv /\ [Next]_vars => CallInv'
  BY CallStep
<1> QED
  BY <1>1, <1>2, PTL DEF Spec

\* Whatever is answered, rung again, cancelled or hung up, and whichever thread
\* comes first: at most one endpoint is connected, it stays connected once it is
\* acked, and it keeps its socket (handleResponse, enforceIVRConfRingTimeout).
THEOREM OneConnectedHolds == Spec => []OneConnected
<1>1. CallInv => OneConnected
  <2> SUFFICES ASSUME CallInv PROVE OneConnected
    OBVIOUS
  <2> DEFINE up == {l \in Leg : leg[l] = "up"}
  <2>1. up \subseteq {fan.winner}
    BY DEF CallInv, FanInv, WinnerIsUp
  <2>2. IsFiniteSet({fan.winner}) /\ Cardinality({fan.winner}) = 1
    BY FS_Singleton
  <2>3. Cardinality(up) <= 1
    BY <2>1, <2>2, FS_Subset
  <2>4. won.pc \in {"off", "ack", "lookup", "relay", "done"}
    BY CallNumbers DEF Winner
  <2> HIDE DEF up
  <2>5. /\ fan.winner # NoLeg /\ won.pc # "ack" => leg[fan.winner] = "up"
        /\ fan.winner # NoLeg => fan.winner \in legRtp
    BY <2>4 DEF CallInv, FanInv, WinnerIsUp, SocketsStay
  <2> QED
    BY <2>3, <2>5 DEF OneConnected, up
<1> QED
  BY <1>1, CallInvHolds, PTL

\* A caller who has hung up leaves no socket and no forwarding to the recorder
\* behind, unless his INVITE was retransmitted, and no open capture, unless the
\* endpoint that won is on TLS (handleInboundBye, cleanupBridgeCallByKey).
THEOREM NothingOutlivesTheCallHolds == Spec => []NothingOutlivesTheCall
<1>1. CallInv => NothingOutlivesTheCall
  <2> SUFFICES ASSUME CallInv, phone.hungUp, loop.at = "idle"
               PROVE  /\ invites = 1 => sockets = {} /\ rec.fwd = {}
                      /\ fan.winner = NoLeg \/ ~IsTls(fan.winner) => fan.cap # "open"
    BY DEF NothingOutlivesTheCall
  <2>1. current = NoCall /\ entry.rtp = NoSocket /\ NoSocket \notin sockets
    BY DEF CallInv, Numbered, SocketsAreHeld
  <2>2. invites = 1 => sockets = {} /\ rec.fwd = {}
    BY <2>1 DEF CallInv, SocketsAreHeld
  <2>3. fan.winner = NoLeg \/ ~IsTls(fan.winner) => fan.cap # "open"
    BY DEF CallInv, CaptureIsHeld
  <2> QED
    BY <2>2, <2>3
<1> QED
  BY <1>1, CallInvHolds, PTL

(***************************************************************************)
(* The keys.  A session hears keys by one way at a time, and what is       *)
(* underway by that way comes after all it has heard, or is a press that   *)
(* came in twice.                                                          *)
(***************************************************************************)
Rising(q, A) == \A i, j \in DOMAIN q : i < j => q[i] < q[j] \/ (q[i] = q[j] /\ q[i] \in A)
UpTo(q, n) == \A i \in DOMAIN q : q[i] \in 1..n
From(q, n) == \A i \in DOMAIN q : n <= q[i]
Before(h, q, A) ==
  \A i \in DOMAIN h, j \in DOMAIN q : h[i] < q[j] \/ (h[i] = q[j] /\ h[i] \in A)

LEMMA Wider ==
  ASSUME NEW A, NEW B, A \subseteq B, NEW q
  PROVE  /\ Rising(q, A) => Rising(q, B)
         /\ \A h : Before(h, q, A) => Before(h, q, B)
<1> QED
  BY DEF Rising, Before

\* A key that is later than all before it, or a repeated one that is not earlier.
LEMMA QueueGrows ==
  ASSUME NEW q \in Seq(Nat), NEW n \in Nat, NEW k \in Nat \ {0}, NEW A, NEW B, A \subseteq B,
         n < k \/ (n = k /\ k \in B), Rising(q, A), UpTo(q, n)
  PROVE  /\ Rising(Append(q, k), B) /\ UpTo(Append(q, k), k) /\ UpTo(q, k)
         /\ \A h \in Seq(Nat) : UpTo(h, n) /\ Before(h, q, A) => Before(h, Append(q, k), B)
<1>1. /\ DOMAIN Append(q, k) = 1..(Len(q) + 1) /\ DOMAIN q = 1..Len(q) /\ Len(q) \in Nat
      /\ Append(q, k)[Len(q) + 1] = k
      /\ \A i \in 1..Len(q) : Append(q, k)[i] = q[i] /\ q[i] \in Nat
  OBVIOUS
<1> DEFINE r == Append(q, k)
<1> HIDE DEF r
<1>2. /\ DOMAIN r = 1..(Len(q) + 1) /\ r[Len(q) + 1] = k
      /\ \A i \in 1..Len(q) : r[i] = q[i]
  BY <1>1 DEF r
<1>3. \A i \in DOMAIN r : i = Len(q) + 1 \/ (i \in 1..Len(q) /\ r[i] = q[i] /\ q[i] \in Nat)
  BY <1>1, <1>2
<1>4. \A x \in 1..n : x \in 1..k /\ (x < k \/ (x = k /\ k \in B))
  OBVIOUS
<1>5. \A i \in 1..Len(q) : q[i] \in 1..n
  BY <1>1 DEF UpTo
<1>6. Rising(r, B)
  <2> SUFFICES ASSUME NEW i \in DOMAIN r, NEW j \in DOMAIN r, i < j
               PROVE  r[i] < r[j] \/ (r[i] = r[j] /\ r[i] \in B)
    BY DEF Rising
  <2>1. /\ i \in 1..Len(q) /\ r[i] = q[i] /\ (j \in 1..Len(q) => r[j] = q[j])
        /\ j \notin 1..Len(q) => r[j] = k
    BY <1>1, <1>2
  <2>2. CASE j \in 1..Len(q)
    <3>1. q[i] < q[j] \/ (q[i] = q[j] /\ q[i] \in A)
      BY <1>1, <2>1, <2>2 DEF Rising
    <3> QED
      BY <2>1, <2>2, <3>1
  <2>3. CASE j \notin 1..Len(q)
    <3>1. q[i] < k \/ (q[i] = k /\ k \in B)
      BY <1>4, <1>5, <2>1
    <3> QED
      BY <2>1, <2>3, <3>1
  <2> QED
    BY <2>2, <2>3
<1>7. UpTo(q, k)
  BY <1>1, <1>4, <1>5 DEF UpTo
<1>8. UpTo(r, k)
  <2>1. k \in 1..k
    OBVIOUS
  <2> QED
    BY <1>1, <1>2, <1>3, <1>7, <2>1 DEF UpTo
<1>9. ASSUME NEW h \in Seq(Nat), UpTo(h, n), Before(h, q, A) PROVE Before(h, r, B)
  <2> SUFFICES ASSUME NEW i \in DOMAIN h, NEW j \in DOMAIN r
               PROVE  h[i] < r[j] \/ (h[i] = r[j] /\ h[i] \in B)
    BY DEF Before
  <2>1. CASE j = Len(q) + 1
    <3>1. h[i] \in 1..n /\ r[j] = k
      BY <1>2, <1>9, <2>1 DEF UpTo
    <3>2. h[i] < k \/ (h[i] = k /\ k \in B)
      BY <1>4, <3>1
    <3> QED
      BY <3>1, <3>2
  <2>2. CASE j \in 1..Len(q)
    <3>1. h[i] < q[j] \/ (h[i] = q[j] /\ h[i] \in A)
      BY <1>1, <1>9, <2>2 DEF Before
    <3>2. r[j] = q[j]
      BY <1>2, <2>2
    <3> QED
      BY <3>1, <3>2
  <2> QED
    BY <1>3, <2>1, <2>2
<1> QED
  BY <1>6, <1>7, <1>8, <1>9 DEF r

\* A repeated key that nothing underway is earlier than.
LEMMA HeardAgain ==
  ASSUME NEW h \in Seq(Nat), NEW q \in Seq(Nat), NEW k \in Nat, NEW A, NEW B, A \subseteq B,
         k \in B, Before(h, q, A), From(q, k)
  PROVE  Before(Append(h, k), q, B)
<1> DEFINE r == Append(h, k)
<1>1. \A i \in DOMAIN r : r[i] = k \/ (i \in DOMAIN h /\ r[i] = h[i])
  OBVIOUS
<1>2. \A j \in DOMAIN q : q[j] \in Nat
  OBVIOUS
<1> HIDE DEF r
<1> SUFFICES ASSUME NEW i \in DOMAIN r, NEW j \in DOMAIN q
             PROVE  r[i] < q[j] \/ (r[i] = q[j] /\ r[i] \in B)
  BY DEF Before, r
<1>3. CASE r[i] = k
  BY <1>2, <1>3 DEF From
<1>4. CASE i \in DOMAIN h /\ r[i] = h[i]
  BY <1>4 DEF Before
<1> QED
  BY <1>1, <1>3, <1>4

\* A key that is heard leaves later ones underway.
LEMMA QueueTaken ==
  ASSUME NEW q \in Seq(Nat), q # <<>>, NEW h \in Seq(Nat), NEW n \in Nat, NEW A,
         Rising(q, A), UpTo(q, n)
  PROVE  /\ Rising(Tail(q), A) /\ UpTo(Tail(q), n) /\ Head(q) \in 1..n /\ From(Tail(q), Head(q))
         /\ Before(h, q, A) => Before(h, Tail(q), A)
         /\ \A m \in Nat : From(q, m) => From(Tail(q), m)
         /\ Before(h, q, A) /\ Rising(h, A) =>
              LET r == Append(h, Head(q))
              IN Rising(r, A) /\ Before(r, Tail(q), A) /\ (UpTo(h, n) => UpTo(r, Head(q)))
<1>1. /\ Len(q) \in Nat \ {0} /\ DOMAIN q = 1..Len(q) /\ Head(q) = q[1]
      /\ DOMAIN Tail(q) = 1..(Len(q) - 1)
      /\ \A i \in 1..(Len(q) - 1) : Tail(q)[i] = q[i + 1]
      /\ \A i \in 1..Len(q) : q[i] \in Nat
  OBVIOUS
<1> DEFINE t == Tail(q)
           r == Append(h, Head(q))
<1>2. /\ DOMAIN r = 1..(Len(h) + 1) /\ DOMAIN h = 1..Len(h) /\ Len(h) \in Nat
      /\ r[Len(h) + 1] = Head(q)
      /\ \A i \in 1..Len(h) : r[i] = h[i] /\ h[i] \in Nat
  <2>1. Head(q) \in Nat
    BY <1>1
  <2> QED
    BY <2>1
<1>3. DOMAIN t = 1..(Len(q) - 1) /\ \A i \in DOMAIN t : t[i] = q[i + 1] /\ i + 1 \in DOMAIN q
  BY <1>1
<1> HIDE DEF t, r
<1>4. Rising(t, A)
  BY <1>1, <1>3 DEF Rising
<1>5. UpTo(t, n) /\ Head(q) \in 1..n
  <2>1. 1 \in DOMAIN q /\ \A i \in DOMAIN q : q[i] \in 1..n
    BY <1>1 DEF UpTo
  <2>2. \A i \in DOMAIN t : t[i] \in 1..n
    BY <1>3, <2>1
  <2> QED
    BY <1>1, <2>1, <2>2 DEF UpTo
<1>6. Before(h, q, A) => Before(h, t, A)
  BY <1>3 DEF Before
<1>7. \A m \in Nat : From(q, m) => From(t, m)
  BY <1>3 DEF From
<1>8. \A j \in DOMAIN t : t[j] \in Nat /\ (q[1] < t[j] \/ (q[1] = t[j] /\ q[1] \in A))
  <2> SUFFICES ASSUME NEW j \in DOMAIN t
               PROVE  t[j] \in Nat /\ (q[1] < t[j] \/ (q[1] = t[j] /\ q[1] \in A))
    OBVIOUS
  <2>1. t[j] = q[j + 1] /\ j + 1 \in DOMAIN q /\ 1 < j + 1 /\ 1 \in DOMAIN q
    BY <1>1, <1>3
  <2> QED
    BY <1>1, <2>1 DEF Rising
<1>9. From(t, Head(q))
  <2> DEFINE k == Head(q)
  <2>1. k = q[1] /\ k \in Nat
    BY <1>1
  <2> HIDE DEF k
  <2>2. \A j \in DOMAIN t : k <= t[j]
    BY <1>8, <2>1
  <2>3. From(t, k)
    BY <2>2 DEF From
  <2> QED
    BY <2>3 DEF k
<1>10. ASSUME Before(h, q, A), Rising(h, A)
       PROVE  Rising(r, A) /\ Before(r, t, A) /\ (UpTo(h, n) => UpTo(r, Head(q)))
  <2> DEFINE k == Head(q)
             end == Len(h) + 1
  <2>1. k \in Nat \ {0} /\ 1 \in DOMAIN q /\ k = q[1]
    BY <1>1, <1>5
  <2> HIDE DEF k
  <2>2. \A i \in DOMAIN h : h[i] \in Nat /\ (h[i] < k \/ (h[i] = k /\ h[i] \in A))
    BY <1>2, <1>10, <2>1 DEF Before
  <2>3. \A i \in DOMAIN r : \/ i = end /\ r[i] = k
                            \/ i \in DOMAIN h /\ r[i] = h[i] /\ i < end
    BY <1>2 DEF k
  <2>4. \A i \in DOMAIN r : i \in Nat /\ i <= end
    BY <1>2
  <2>5. Rising(r, A)
    <3> SUFFICES ASSUME NEW i \in DOMAIN r, NEW j \in DOMAIN r, i < j
                 PROVE  r[i] < r[j] \/ (r[i] = r[j] /\ r[i] \in A)
      BY DEF Rising
    <3>1. i \in DOMAIN h /\ r[i] = h[i]
      BY <2>3, <2>4
    <3>2. CASE j = end /\ r[j] = k
      BY <2>2, <3>1, <3>2
    <3>3. CASE j \in DOMAIN h /\ r[j] = h[j]
      BY <1>10, <3>1, <3>3 DEF Rising
    <3> QED
      BY <2>3, <3>2, <3>3
  <2>6. ASSUME UpTo(h, n) PROVE UpTo(r, k)
    <3>1. \A i \in DOMAIN h : h[i] \in 1..k
      <4>1. \A i \in DOMAIN h : h[i] \in Nat \ {0} /\ h[i] <= k
        BY <2>1, <2>2, <2>6 DEF UpTo
      <4> QED
        BY <2>1, <4>1
    <3>2. k \in 1..k
      BY <2>1
    <3> QED
      BY <2>3, <3>1, <3>2 DEF UpTo
  <2>7. Before(r, t, A)
    <3> SUFFICES ASSUME NEW i \in DOMAIN r, NEW j \in DOMAIN t
                 PROVE  r[i] < t[j] \/ (r[i] = t[j] /\ r[i] \in A)
      BY DEF Before
    <3>1. t[j] \in Nat /\ (k < t[j] \/ (k = t[j] /\ k \in A))
      BY <1>8, <2>1
    <3>2. CASE r[i] = k
      BY <3>1, <3>2
    <3>3. CASE i \in DOMAIN h /\ r[i] = h[i]
      BY <1>6, <1>10, <3>3 DEF Before
    <3> QED
      BY <2>3, <3>2, <3>3
  <2> QED
    BY <2>5, <2>6, <2>7 DEF k
<1> QED
  BY <1>4, <1>5, <1>6, <1>7, <1>9, <1>10 DEF t, r

KeysInOrder ==
  /\ Rising(info, again) /\ UpTo(info, Len(phone.keys))
  /\ Rising(events, again) /\ UpTo(events, Len(phone.keys))
  /\ last <= Len(phone.keys) /\ From(events, last)
  /\ \A n \in Calls : Rising(sess[n].heard, again) /\ UpTo(sess[n].heard, Len(phone.keys))

\* The decoder runs for sessions that hear by RTP only, and a session without a
\* socket has a phone that sends no events.
OneWay ==
  current # NoCall =>
    /\ phone.decoded => sess[current].dtmf
    /\ Before(sess[current].heard, IF sess[current].dtmf THEN events ELSE info, again)
    /\ sess[current].dtmf /\ last # 0 => UpTo(sess[current].heard, last)
    /\ ~entry.up /\ sess[current].rtp = NoSocket =>
         events = <<>> /\ ~phone.events /\ ~sess[current].dtmf

\* Until a re-INVITE the first offer is in force everywhere.
AsOffered ==
  /\ loop.at = "invite" => reinvites = 0 /\ sess[invites].heard = <<>>
  /\ reinvites = 0 =>
       /\ ~ViaRtp(phone.offer) => events = <<>>
       /\ invites > 0 => phone.decoded = ViaRtp(phone.offer) /\ phone.events = ViaRtp(phone.offer)
       /\ \A n \in Calls : n <= invites =>
            /\ sess[n].dtmf = ViaRtp(phone.offer)
            /\ sess[n].rtp = NoSocket <=> ~phone.offer.audio

KeyInv == KeysInOrder /\ OneWay /\ AsOffered

\* A session that another one's bridge entry stands beside has a socket: the keys
\* that led to the bridge came by RTP, on the offer that both sessions answered.
\* So the entry may be dropped.
EntryIsAside ==
  entry.up =>
    /\ phone.keys # <<>>
    /\ loop.at = "invite" => ViaRtp(phone.offer)
    /\ current # NoCall => sess[current].rtp # NoSocket

LEMMA KeyTypes ==
  ASSUME CallInv
  PROVE  /\ info \in Seq(Nat) /\ events \in Seq(Nat) /\ Len(phone.keys) \in Nat
         /\ last \in Nat
         /\ reinvites \in Nat /\ phone.offer \in Offers
         /\ \A n \in Calls : sess[n] \in Session /\ sess[n].heard \in Seq(Nat) /\ sess[n].rtp \in Nat
         /\ current = NoCall \/ current \in Calls
<1>1. CallerTypeOK
  BY DEF CallInv, TypeOK
<1>2. phone.keys \in Seq(STRING) /\ phone.offer \in Offers
  BY <1>1, IvrAssumption DEF CallerTypeOK, Phone
<1>3. Len(phone.keys) \in Nat
  BY <1>2
<1>4. \A n \in Calls : sess[n] \in Session /\ sess[n].heard \in Seq(Nat) /\ sess[n].rtp \in Nat
  BY <1>1 DEF CallerTypeOK, Session
<1> QED
  BY <1>1, <1>2, <1>3, <1>4 DEF CallerTypeOK

LEMMA KeyInit == Init => KeyInv /\ EntryIsAside
<1> SUFFICES ASSUME Init PROVE KeyInv /\ EntryIsAside
  OBVIOUS
<1>1. /\ info = <<>> /\ events = <<>> /\ loop.at = "idle" /\ invites = 0 /\ current = NoCall
      /\ last = 0
      /\ ~entry.up /\ \A n \in Calls : sess[n].heard = <<>>
  BY DEF Init, NoLoop, NoSession, NoEntry
<1>2. last <= Len(phone.keys)
  <2>1. phone \in Phone
    BY TypeInit DEF TypeOK, CallerTypeOK
  <2>2. Len(phone.keys) \in Nat
    BY <2>1, IvrAssumption DEF Phone
  <2> QED
    BY <1>1, <2>2
<1>3. KeysInOrder
  BY <1>1, <1>2 DEF KeysInOrder, Rising, UpTo, From
<1>4. \A n \in Calls : ~(n <= 0)
  BY CallsAreNat
<1> QED
  BY <1>1, <1>3, <1>4 DEF KeyInv, OneWay, AsOffered, EntryIsAside

\* What a handled key leaves of the session that hears it.
LEMMA HearsKey ==
  ASSUME CallInv, current \in Calls, NEW press \in Nat, Hears(press)
  PROVE  /\ sess'[current].heard = Append(sess[current].heard, press)
         /\ \A m \in Calls : m # current => sess'[m] = sess[m]
         /\ \A m \in Calls : sess'[m].dtmf = sess[m].dtmf /\ sess'[m].rtp = sess[m].rtp
         /\ UNCHANGED <<current, entry>> \/ current' = NoCall
<1>1. PICK s \in Session :
        /\ sess' = [sess EXCEPT ![current] = s]
        /\ s.heard = Append(sess[current].heard, press)
        /\ s.rtp = sess[current].rtp /\ s.dtmf = sess[current].dtmf
        /\ UNCHANGED <<current, entry>> \/ current' = NoCall
  BY DEF Hears
<1>2. sess'[current] = s /\ \A m \in Calls : m # current => sess'[m] = sess[m]
  BY <1>1, CallNumbers
<1> QED
  BY <1>1, <1>2

LEMMA KeyHeard ==
  ASSUME CallInv, KeyInv, KeySteps
  PROVE  KeyInv'
<1> DEFINE n == Len(phone.keys)
<1>1. /\ CallerTypeOK
      /\ UNCHANGED <<phone, loop, invites, reinvites>> /\ again \subseteq again'
      /\ events = <<>> => events' = <<>>
  <2>1. CallerTypeOK
    BY DEF CallInv, TypeOK
  <2>2. UNCHANGED <<phone, loop, invites, reinvites>> /\ again \subseteq again'
    BY <2>1, KeyMoves
  <2>3. events = <<>> => events' = <<>>
    BY <2>1, KeyMoves, Zenon
  <2> QED
    BY <2>1, <2>2, <2>3
<1>2. /\ Rising(info, again) /\ UpTo(info, n) /\ Rising(events, again) /\ UpTo(events, n)
      /\ last \in Nat /\ last <= n /\ From(events, last)
      /\ \A m \in Calls : /\ sess[m].heard \in Seq(Nat)
                          /\ Rising(sess[m].heard, again) /\ UpTo(sess[m].heard, n)
      /\ info \in Seq(Nat) /\ events \in Seq(Nat) /\ n \in Nat
      /\ <<>> \in Seq(Nat)
  BY KeyTypes DEF KeyInv, KeysInOrder
<1>3. n' = n
  BY <1>1
<1> HIDE DEF n
<1>4. /\ info # <<>> => /\ Rising(Tail(info), again) /\ UpTo(Tail(info), n)
                        /\ Head(info) \in 1..n
      /\ events # <<>> => /\ Rising(Tail(events), again) /\ UpTo(Tail(events), n)
                          /\ Head(events) \in 1..n
                          /\ From(Tail(events), Head(events)) /\ From(Tail(events), last)
  BY <1>2, QueueTaken
\* The session hears it.
<1>5. ASSUME current \in Calls, NEW press \in 1..n, Hears(press),
             LET r == Append(sess[current].heard, press)
             IN /\ Rising(r, again')
                /\ UpTo(r, n)
                /\ Before(r, IF sess[current].dtmf THEN events' ELSE info', again')
                /\ sess[current].dtmf => UpTo(r, last'),
             /\ Rising(info', again') /\ UpTo(info', n) /\ Rising(events', again') /\ UpTo(events', n),
             last' <= n, From(events', last')
      PROVE  KeyInv'
  <2> DEFINE r == Append(sess[current].heard, press)
  <2> HIDE DEF r
  <2>1. /\ sess'[current].heard = r
        /\ \A m \in Calls : m # current => sess'[m] = sess[m]
        /\ \A m \in Calls : sess'[m].dtmf = sess[m].dtmf /\ sess'[m].rtp = sess[m].rtp
        /\ UNCHANGED <<current, entry>> \/ current' = NoCall
    <3>1. press \in Nat
      BY <1>2
    <3> QED
      BY <1>5, <3>1, HearsKey DEF r
  <2>2. KeysInOrder'
    <3>1. \A m \in Calls : Rising(sess'[m].heard, again') /\ UpTo(sess'[m].heard, n)
      BY <1>1, <1>2, <1>5, <2>1, Wider DEF r
    <3> QED
      BY <1>3, <1>5, <3>1 DEF KeysInOrder, n
  <2>3. OneWay'
    <3>1. CASE UNCHANGED <<current, entry>>
      <4>1. /\ Before(sess'[current].heard, IF sess'[current].dtmf THEN events' ELSE info', again')
            /\ sess'[current].dtmf => UpTo(sess'[current].heard, last')
        BY <1>5, <2>1 DEF r
      <4>2. /\ phone.decoded => sess'[current].dtmf
            /\ ~entry.up /\ sess'[current].rtp = NoSocket =>
                 events' = <<>> /\ ~phone.events /\ ~sess'[current].dtmf
        BY <1>1, <1>5, <2>1, CallsAreNat DEF KeyInv, OneWay
      <4> QED
        BY <1>1, <3>1, <4>1, <4>2 DEF OneWay
    <3>2. CASE current' = NoCall
      BY <3>2 DEF OneWay
    <3> QED
      BY <2>1, <3>1, <3>2
  <2>4. AsOffered'
    <3>1. loop.at = "invite" => current # invites /\ invites \in Calls
      BY CallNumbers DEF CallInv, Numbered
    <3>2. loop.at = "invite" => reinvites = 0 /\ sess'[invites].heard = <<>>
      BY <2>1, <3>1 DEF KeyInv, AsOffered
    <3> QED
      BY <1>1, <2>1, <3>2 DEF KeyInv, AsOffered
  <2> QED
    BY <2>2, <2>3, <2>4 DEF KeyInv
\* Nobody does.
<1>6. ASSUME UNCHANGED <<sess, current, entry>>, UNCHANGED again,
             UNCHANGED last \/ current = NoCall,
             \/ info # <<>> /\ info' = Tail(info) /\ UNCHANGED events
             \/ events # <<>> /\ events' = Tail(events) /\ UNCHANGED info,
             Rising(info', again') /\ UpTo(info', n) /\ Rising(events', again') /\ UpTo(events', n),
             last' <= n, From(events', last')
      PROVE  KeyInv'
  <2>1. KeysInOrder'
    BY <1>2, <1>3, <1>6 DEF KeysInOrder, n
  <2>2. OneWay'
    <3> SUFFICES ASSUME current # NoCall PROVE OneWay'
      BY <1>6 DEF OneWay
    <3>1. current \in Calls /\ sess[current].heard \in Seq(Nat)
      BY KeyTypes
    <3>2. /\ Before(sess[current].heard, info, again) => Before(sess[current].heard, info', again)
          /\ Before(sess[current].heard, events, again) => Before(sess[current].heard, events', again)
      BY <1>2, <1>6, <3>1, QueueTaken
    <3>3. Before(sess[current].heard, IF sess[current].dtmf THEN events ELSE info, again)
      BY DEF KeyInv, OneWay
    <3>4. Before(sess[current].heard, IF sess[current].dtmf THEN events' ELSE info', again)
      BY <3>2, <3>3
    <3> QED
      BY <1>1, <1>6, <3>4 DEF KeyInv, OneWay
  <2>3. AsOffered'
    BY <1>1, <1>6 DEF KeyInv, AsOffered
  <2> QED
    BY <2>1, <2>2, <2>3 DEF KeyInv
<1>7. CASE /\ info # <<>> /\ info' = Tail(info) /\ UNCHANGED <<events, last, again>>
           /\ \/ UNCHANGED <<sess, current, entry, rec, go>>
              \/ /\ current \in Calls /\ ~sess[current].dtmf /\ loop.at = "idle"
                 /\ handleIVRDigitLocked(Head(info))
  <2>1. /\ Rising(info', again') /\ UpTo(info', n) /\ Rising(events', again') /\ UpTo(events', n)
        /\ last' <= n /\ From(events', last')
    BY <1>2, <1>4, <1>7
  <2>2. CASE UNCHANGED <<sess, current, entry, rec, go>>
    BY <1>6, <1>7, <2>1, <2>2
  <2>3. CASE /\ current \in Calls /\ ~sess[current].dtmf
             /\ handleIVRDigitLocked(Head(info))
    <3> DEFINE press == Head(info)
               h == sess[current].heard
               r == Append(h, press)
    <3>1. press \in 1..n /\ press \in Nat /\ Hears(press)
      BY <1>1, <1>2, <1>4, <1>7, <2>3, DigitIsHeard
    <3>2. h \in Seq(Nat) /\ Rising(h, again) /\ UpTo(h, n) /\ Before(h, info, again)
      BY <1>2, <2>3, CallsAreNat DEF KeyInv, OneWay
    <3>3. Rising(r, again) /\ Before(r, Tail(info), again) /\ UpTo(r, press)
      BY <1>2, <1>7, <3>2, QueueTaken
    <3> HIDE DEF r
    <3>4. UpTo(r, n)
      BY <1>2, <3>1, <3>3 DEF UpTo
    <3> HIDE DEF press
    <3> QED
      BY <1>5, <1>7, <2>1, <2>3, <3>1, <3>3, <3>4 DEF r
  <2> QED
    BY <1>7, <2>2, <2>3
<1>8. CASE /\ events # <<>> /\ events' = Tail(events) /\ UNCHANGED <<info, last, again>>
           /\ UNCHANGED <<sess, current, entry, rec, go>>
  <2>1. /\ Rising(info', again') /\ UpTo(info', n) /\ Rising(events', again') /\ UpTo(events', n)
        /\ last' <= n /\ From(events', last')
    BY <1>2, <1>4, <1>8
  <2> QED
    BY <1>6, <1>8, <2>1
<1>9. CASE /\ events # <<>> /\ events' = Tail(events) /\ UNCHANGED <<info, again>>
           /\ last' = Head(events)
           /\ \/ UNCHANGED <<sess, current, entry, rec, go>> /\ current = NoCall
              \/ /\ current \in Calls /\ phone.decoded
                 /\ handleIVRDigitLocked(Head(events))
  <2> DEFINE press == Head(events)
  <2>1. press \in 1..n /\ press \in Nat /\ press <= n
    BY <1>2, <1>4, <1>9
  <2>2. /\ Rising(info', again') /\ UpTo(info', n) /\ Rising(events', again') /\ UpTo(events', n)
        /\ last' <= n /\ From(events', last')
    BY <1>2, <1>4, <1>9, <2>1
  <2>3. CASE UNCHANGED <<sess, current, entry, rec, go>> /\ current = NoCall
    BY <1>6, <1>9, <2>2, <2>3
  <2>4. CASE /\ current \in Calls /\ phone.decoded
             /\ handleIVRDigitLocked(Head(events))
    <3> DEFINE h == sess[current].heard
               r == Append(h, press)
    <3>1. Hears(press)
      BY <1>1, <2>1, <2>4, DigitIsHeard
    <3>2. /\ h \in Seq(Nat) /\ Rising(h, again) /\ UpTo(h, n) /\ Before(h, events, again)
          /\ sess[current].dtmf
      BY <1>2, <2>4, CallsAreNat DEF KeyInv, OneWay
    <3>3. Rising(r, again) /\ Before(r, Tail(events), again) /\ UpTo(r, press)
      BY <1>2, <1>9, <3>2, QueueTaken
    <3> HIDE DEF r
    <3>4. UpTo(r, n)
      BY <1>2, <2>1, <3>3 DEF UpTo
    <3>5. last' = press
      BY <1>9
    <3> HIDE DEF press
    <3> QED
      BY <1>5, <1>9, <2>1, <2>2, <2>4, <3>1, <3>2, <3>3, <3>4, <3>5 DEF r
  <2> QED
    BY <1>9, <2>3, <2>4
<1>10. CASE /\ last # 0 /\ again' = again \cup {last} /\ UNCHANGED <<info, events, last>>
            /\ current \in Calls /\ phone.decoded
            /\ handleIVRDigitLocked(last)
  <2> DEFINE h == sess[current].heard
             r == Append(h, last)
  <2>1. last \in 1..n /\ last \in Nat \ {0} /\ Hears(last)
    BY <1>1, <1>2, <1>10, DigitIsHeard
  <2>2. /\ h \in Seq(Nat) /\ Rising(h, again) /\ UpTo(h, last) /\ Before(h, events, again)
        /\ sess[current].dtmf
    BY <1>2, <1>10, CallsAreNat DEF KeyInv, OneWay
  <2>3. last \in again'
    BY <1>10
  <2>4. Rising(r, again') /\ UpTo(r, last)
    BY <1>1, <2>1, <2>2, <2>3, QueueGrows
  <2>5. Before(r, events, again')
    BY <1>1, <1>2, <2>1, <2>2, <2>3, HeardAgain
  <2> HIDE DEF r
  <2>6. UpTo(r, n)
    BY <1>2, <2>1, <2>4 DEF UpTo
  <2>7. /\ Rising(info', again') /\ UpTo(info', n) /\ Rising(events', again') /\ UpTo(events', n)
        /\ last' <= n /\ From(events', last')
    BY <1>1, <1>2, <1>10, Wider
  <2> QED
    BY <1>5, <1>10, <2>1, <2>2, <2>4, <2>5, <2>6, <2>7 DEF r
<1> QED
  BY <1>1, <1>7, <1>8, <1>9, <1>10, KeyMoves, Zenon

LEMMA KeyRepeated == CallInv /\ KeyInv /\ InfoAgain => KeyInv'
<1> SUFFICES ASSUME CallInv, KeyInv, InfoAgain PROVE KeyInv'
  OBVIOUS
<1> DEFINE n == Len(phone.keys)
<1>1. /\ UNCHANGED <<phone, events, last, loop, invites, reinvites, sess, current, entry>>
      /\ current \in Calls /\ ~sess[current].dtmf /\ n \in Nat \ {0}
      /\ info' = Append(info, n) /\ again' = again \cup {n}
  BY InfoAgainType DEF CallInv, TypeOK, tables
<1>2. n' = n
  BY <1>1
<1>3. again \subseteq again' /\ n \in again'
  BY <1>1
<1>4. /\ Rising(info, again) /\ UpTo(info, n) /\ Rising(events, again) /\ UpTo(events, n)
      /\ last <= n /\ From(events, last)
      /\ \A m \in Calls : /\ sess[m].heard \in Seq(Nat)
                          /\ Rising(sess[m].heard, again) /\ UpTo(sess[m].heard, n)
      /\ info \in Seq(Nat) /\ events \in Seq(Nat)
  BY KeyTypes DEF KeyInv, KeysInOrder
<1>5. Before(sess[current].heard, info, again)
  BY <1>1, CallsAreNat DEF KeyInv, OneWay
<1> HIDE DEF n
<1>6. Rising(info', again') /\ UpTo(info', n)
  BY <1>1, <1>3, <1>4, QueueGrows
<1>7. Before(sess[current].heard, info', again')
  BY <1>1, <1>3, <1>4, <1>5, QueueGrows
<1>8. Rising(events, again') /\ \A m \in Calls : Rising(sess[m].heard, again')
  BY <1>3, <1>4, Wider
<1>9. KeysInOrder'
  BY <1>1, <1>2, <1>4, <1>6, <1>8 DEF KeysInOrder, n
<1>10. OneWay'
  BY <1>1, <1>7 DEF KeyInv, OneWay
<1>11. AsOffered'
  BY <1>1 DEF KeyInv, AsOffered
<1> QED
  BY <1>9, <1>10, <1>11 DEF KeyInv

LEMMA KeyInvite == CallInv /\ KeyInv /\ Invite => KeyInv'
<1> SUFFICES ASSUME CallInv, KeyInv, Invite PROVE KeyInv'
  OBVIOUS
<1>1. /\ reinvites = 0 /\ invites' = invites + 1 /\ invites' \in Calls
      /\ phone'.keys = phone.keys /\ phone'.offer = phone.offer
      /\ loop'.at = "invite"
      /\ UNCHANGED <<info, events, last, again, reinvites, current, entry>>
  BY InviteType DEF CallInv, TypeOK, Invite
<1>2. PICK s \in Session : /\ sess' = [sess EXCEPT ![invites'] = s] /\ s.heard = <<>>
                           /\ s.rtp = (IF phone.offer.audio THEN invites' ELSE NoSocket)
                           /\ s.dtmf = ViaRtp(phone.offer)
  BY InviteType DEF CallInv, TypeOK
<1>3. sess'[invites'] = s /\ \A n \in Calls : n # invites' => sess'[n] = sess[n]
  BY <1>1, <1>2, CallNumbers
<1>4. phone'.decoded = ViaRtp(phone.offer) /\ phone'.events = ViaRtp(phone.offer)
  <2>1. CASE phone'.events = ViaRtp(phone.offer) /\ phone'.decoded = ViaRtp(phone.offer)
    BY <2>1
  <2>2. CASE invites' > 1 /\ UNCHANGED phone
    BY <1>1, <2>2, CallNumbers DEF KeyInv, AsOffered
  <2> QED
    BY <2>1, <2>2, InviteType DEF CallInv, TypeOK
<1>5. KeysInOrder'
  BY <1>1, <1>2, <1>3 DEF KeyInv, KeysInOrder, Rising, UpTo
<1>6. current # NoCall => current # invites' /\ current \in Calls /\ current <= invites /\ invites > 0
  BY <1>1, CallNumbers, KeyTypes DEF CallInv, Numbered
<1>7. OneWay'
  <2> SUFFICES ASSUME current # NoCall PROVE OneWay'
    BY <1>1 DEF OneWay
  <2>1. sess'[current] = sess[current] /\ phone.decoded = phone'.decoded /\ phone.events = phone'.events
    BY <1>1, <1>3, <1>4, <1>6 DEF KeyInv, AsOffered
  <2> QED
    BY <1>1, <2>1 DEF KeyInv, OneWay
<1>8. AsOffered'
  <2>1. \A n \in Calls : n <= invites' => n = invites' \/ n <= invites
    BY <1>1, CallNumbers, CallsAreNat
  <2>2. invites' # NoSocket
    BY <1>1, CallsAreNat
  <2>3. \A n \in Calls : n <= invites' => /\ sess'[n].dtmf = ViaRtp(phone.offer)
                                          /\ sess'[n].rtp = NoSocket <=> ~phone.offer.audio
    <3> SUFFICES ASSUME NEW n \in Calls, n <= invites'
                 PROVE  /\ sess'[n].dtmf = ViaRtp(phone.offer)
                        /\ sess'[n].rtp = NoSocket <=> ~phone.offer.audio
      OBVIOUS
    <3>1. CASE n = invites'
      BY <1>2, <1>3, <2>2, <3>1
    <3>2. CASE n # invites' /\ n <= invites
      BY <1>1, <1>3, <3>2 DEF KeyInv, AsOffered
    <3> QED
      BY <2>1, <3>1, <3>2
  <2>4. ~ViaRtp(phone.offer) => events = <<>>
    BY <1>1 DEF KeyInv, AsOffered
  <2> QED
    BY <1>1, <1>2, <1>3, <1>4, <2>3, <2>4 DEF AsOffered
<1> QED
  BY <1>5, <1>7, <1>8 DEF KeyInv

LEMMA KeyStoreSession == CallInv /\ KeyInv /\ StoreSession => KeyInv'
<1> SUFFICES ASSUME CallInv, KeyInv, StoreSession PROVE KeyInv'
  OBVIOUS
<1>1. /\ loop.at = "invite" /\ loop' = NoLoop /\ current' = loop.call
      /\ UNCHANGED <<phone, info, events, last, again, invites, reinvites, sess, entry>>
  BY DEF StoreSession, caller
<1>2. invites \in Calls /\ current' = invites
  BY <1>1, CallNumbers DEF CallInv, Numbered
<1>3. KeysInOrder'
  BY <1>1 DEF KeyInv, KeysInOrder
<1>4. AsOffered'
  BY <1>1 DEF KeyInv, AsOffered, NoLoop
<1>5. OneWay'
  <2>1. /\ sess[invites].heard = <<>> /\ reinvites = 0
        /\ sess[invites].dtmf = ViaRtp(phone.offer)
        /\ sess[invites].rtp = NoSocket <=> ~phone.offer.audio
        /\ phone.decoded = ViaRtp(phone.offer) /\ phone.events = ViaRtp(phone.offer)
        /\ ~ViaRtp(phone.offer) => events = <<>>
    BY <1>1, <1>2, CallNumbers, CallsAreNat DEF KeyInv, AsOffered
  <2>2. \A q : Before(<<>>, q, again) /\ UpTo(<<>>, last)
    BY DEF Before, UpTo
  <2>3. ~phone.offer.audio => ~ViaRtp(phone.offer)
    BY DEF ViaRtp
  <2> QED
    BY <1>1, <1>2, <2>1, <2>2, <2>3 DEF OneWay
<1> QED
  BY <1>3, <1>4, <1>5 DEF KeyInv

LEMMA KeyPress == CallInv /\ KeyInv /\ Press => KeyInv'
<1> SUFFICES ASSUME CallInv, KeyInv, Press PROVE KeyInv'
  OBVIOUS
<1> DEFINE n == Len(phone.keys)
<1>1. /\ \A f \in {"call", "rtp", "events", "decoded", "hungUp", "offer"} : phone'[f] = phone[f]
      /\ Len(phone'.keys) = n + 1
      /\ info' = Append(info, n + 1)
      /\ events' = IF phone.events THEN Append(events, n + 1) ELSE events
      /\ UNCHANGED <<last, again, loop, invites, reinvites, sess, current, entry>> /\ invites > 0
  BY PressType DEF CallInv, TypeOK, tables
<1>2. phone'.decoded = phone.decoded /\ phone'.events = phone.events /\ phone'.offer = phone.offer
  BY <1>1
<1>3. /\ Rising(info, again) /\ UpTo(info, n) /\ Rising(events, again) /\ UpTo(events, n)
      /\ last \in Nat /\ last <= n /\ From(events, last)
      /\ \A m \in Calls : /\ sess[m].heard \in Seq(Nat)
                          /\ Rising(sess[m].heard, again) /\ UpTo(sess[m].heard, n)
      /\ info \in Seq(Nat) /\ events \in Seq(Nat) /\ n \in Nat
  BY KeyTypes DEF KeyInv, KeysInOrder
<1>4. n' = n + 1
  BY <1>1
<1> HIDE DEF n
<1>5. /\ Rising(info', again) /\ UpTo(info', n + 1) /\ Rising(events', again) /\ UpTo(events', n + 1)
      /\ \A h \in Seq(Nat) : UpTo(h, n) /\ Before(h, info, again) => Before(h, info', again)
      /\ \A h \in Seq(Nat) : UpTo(h, n) /\ Before(h, events, again) => Before(h, events', again)
  <2>1. n + 1 \in Nat \ {0} /\ n < n + 1
    BY <1>3
  <2>2. /\ Rising(Append(info, n + 1), again) /\ UpTo(Append(info, n + 1), n + 1)
        /\ \A h \in Seq(Nat) : UpTo(h, n) /\ Before(h, info, again)
                             => Before(h, Append(info, n + 1), again)
    BY <1>3, <2>1, QueueGrows
  <2>3. /\ Rising(Append(events, n + 1), again) /\ UpTo(Append(events, n + 1), n + 1)
        /\ UpTo(events, n + 1)
        /\ \A h \in Seq(Nat) : UpTo(h, n) /\ Before(h, events, again)
                             => Before(h, Append(events, n + 1), again)
    BY <1>3, <2>1, QueueGrows
  <2> QED
    BY <1>1, <1>3, <2>2, <2>3
<1>6. /\ \A m \in Calls : UpTo(sess[m].heard, n + 1)
      /\ last <= n + 1 /\ From(events', last)
  <2>1. \A q : UpTo(q, n) => UpTo(q, n + 1)
    BY <1>3 DEF UpTo
  <2>2. From(Append(events, n + 1), last)
    BY <1>3 DEF From
  <2> QED
    BY <1>1, <1>3, <2>1, <2>2
<1>7. KeysInOrder'
  BY <1>1, <1>3, <1>4, <1>5, <1>6 DEF KeysInOrder, n
<1>8. OneWay'
  <2> SUFFICES ASSUME current # NoCall PROVE OneWay'
    BY <1>1 DEF OneWay
  <2>1. current \in Calls
    BY KeyTypes
  <2>2. Before(sess[current].heard, IF sess[current].dtmf THEN events' ELSE info', again)
    BY <1>3, <1>5, <2>1 DEF KeyInv, OneWay
  <2> QED
    BY <1>1, <1>2, <2>2 DEF KeyInv, OneWay
<1>9. AsOffered'
  BY <1>1, <1>2 DEF KeyInv, AsOffered
<1> QED
  BY <1>7, <1>8, <1>9 DEF KeyInv

LEMMA KeyReinvite == CallInv /\ KeyInv /\ Reinvite => KeyInv'
<1> SUFFICES ASSUME CallInv, KeyInv, Reinvite PROVE KeyInv'
  OBVIOUS
<1>1. /\ loop.at = "idle" /\ reinvites' = reinvites + 1 /\ phone'.keys = phone.keys
      /\ UNCHANGED <<info, events, again, loop, invites, current>> /\ last' \in {0, last}
  BY ReinviteType DEF CallInv, TypeOK
<1>2. AsOffered'
  BY <1>1, KeyTypes DEF AsOffered
<1>3. \/ UNCHANGED <<sess, entry, phone>>
      \/ entry'.up /\ UNCHANGED sess /\ (phone'.decoded => phone.decoded)
      \/ /\ UNCHANGED <<sess, entry>> /\ phone'.decoded = phone.decoded
         /\ sess[current].rtp = NoSocket => ~phone'.events
      \/ /\ ~entry.up /\ current # NoCall /\ UNCHANGED entry /\ sess[current].rtp = NoSocket
         /\ \E s \in Session : /\ sess' = [sess EXCEPT ![current] = s]
                               /\ s.heard = sess[current].heard
                               /\ s.rtp # NoSocket /\ phone'.decoded = s.dtmf
         /\ last' = 0
  BY ReinviteType DEF CallInv, TypeOK
<1>6. last' \in Nat /\ last' <= Len(phone.keys) /\ From(events, last')
  <2>1. last \in Nat /\ Len(phone.keys) \in Nat /\ events \in Seq(Nat)
    BY KeyTypes
  <2>2. From(events, 0) /\ From(events, last) /\ last <= Len(phone.keys)
    BY <2>1 DEF KeyInv, KeysInOrder, From
  <2> QED
    BY <1>1, <2>1, <2>2
<1>4. CASE UNCHANGED sess /\ (UNCHANGED <<entry, phone>> \/ entry'.up
                              \/ (UNCHANGED entry /\ (sess[current].rtp = NoSocket => ~phone'.events)))
           /\ (phone'.decoded => phone.decoded)
  <2>1. KeysInOrder'
    BY <1>1, <1>4, <1>6 DEF KeyInv, KeysInOrder
  <2>2. OneWay'
    BY <1>1, <1>4 DEF KeyInv, OneWay
  <2> QED
    BY <1>2, <2>1, <2>2 DEF KeyInv
<1>5. CASE /\ ~entry.up /\ current # NoCall /\ UNCHANGED entry /\ sess[current].rtp = NoSocket
           /\ \E s \in Session : /\ sess' = [sess EXCEPT ![current] = s]
                                 /\ s.heard = sess[current].heard
                                 /\ s.rtp # NoSocket /\ phone'.decoded = s.dtmf
           /\ last' = 0
  <2>1. PICK s \in Session : /\ sess' = [sess EXCEPT ![current] = s]
                             /\ s.heard = sess[current].heard
                             /\ s.rtp # NoSocket /\ phone'.decoded = s.dtmf
    BY <1>5
  <2>2. /\ sess'[current] = s /\ \A n \in Calls : n # current => sess'[n] = sess[n]
        /\ current \in Calls
    BY <1>5, <2>1, CallNumbers, KeyTypes
  <2>3. KeysInOrder'
    BY <1>1, <1>6, <2>1, <2>2 DEF KeyInv, KeysInOrder
  <2>4. events = <<>> /\ ~sess[current].dtmf /\ Before(sess[current].heard, info, again)
    BY <1>5 DEF KeyInv, OneWay
  <2>5. Before(s.heard, IF s.dtmf THEN events ELSE info, again)
    BY <2>1, <2>4 DEF Before
  <2>6. OneWay'
    BY <1>1, <1>5, <2>1, <2>2, <2>5 DEF OneWay
  <2> QED
    BY <1>2, <2>3, <2>6 DEF KeyInv
<1> QED
  BY <1>3, <1>4, <1>5

LEMMA KeyHangUp == CallInv /\ KeyInv /\ (Cancel \/ Bye \/ CleanUp) => KeyInv'
<1> SUFFICES ASSUME CallInv, KeyInv, Cancel \/ Bye \/ CleanUp PROVE KeyInv'
  OBVIOUS
<1>1. /\ UNCHANGED <<info, events, last, again, invites, reinvites, sess>> /\ current' = NoCall
      /\ phone'.keys = phone.keys /\ phone'.decoded = phone.decoded
      /\ phone'.events = phone.events /\ phone'.offer = phone.offer
      /\ loop'.at # "invite"
  <2>1. CASE Bye
    BY <2>1, ByeType DEF CallInv, TypeOK
  <2>2. CASE CleanUp
    BY <2>2, CleanUpType DEF CallInv, TypeOK, Numbered, caller, NoLoop
  <2>3. CASE Cancel
    BY <2>3, CancelType DEF CallInv, TypeOK
  <2> QED
    BY <2>1, <2>2, <2>3
<1> QED
  BY <1>1 DEF KeyInv, KeysInOrder, OneWay, AsOffered

LEMMA KeyDrop == CallInv /\ KeyInv /\ EntryIsAside /\ Drop => KeyInv'
<1> SUFFICES ASSUME CallInv, KeyInv, EntryIsAside, Drop PROVE KeyInv'
  OBVIOUS
<1>1. entry.up /\ UNCHANGED <<phone, info, events, last, again, loop, invites, reinvites, sess, current>>
  BY DropType DEF CallInv, TypeOK, caller
<1>2. OneWay'
  BY <1>1 DEF KeyInv, OneWay, EntryIsAside
<1> QED
  BY <1>1, <1>2 DEF KeyInv, KeysInOrder, AsOffered

\* EntryIsAside, for every step.
LEMMA EntryBegins ==
  ASSUME CallInv, KeyInv, KeySteps, entry' # entry
  PROVE  /\ current' = NoCall /\ phone.keys # <<>>
         /\ loop.at = "invite" => ViaRtp(phone.offer)
<1>1. CallerTypeOK /\ UNCHANGED <<phone, loop>>
  BY KeyMoves DEF CallInv, TypeOK
<1>2. /\ info # <<>> => Head(info) \in 1..Len(phone.keys) /\ Head(info) \in Nat
      /\ events # <<>> => Head(events) \in 1..Len(phone.keys) /\ Head(events) \in Nat
      /\ last # 0 => last \in 1..Len(phone.keys) /\ last \in Nat
  BY KeyTypes DEF KeyInv, KeysInOrder, UpTo
<1>3. PICK press \in 1..Len(phone.keys) :
        /\ press \in Nat /\ current \in Calls /\ handleIVRDigitLocked(press)
        /\ loop.at = "invite" => phone.decoded
  <2>1. CASE /\ info # <<>> /\ current \in Calls /\ loop.at = "idle"
             /\ handleIVRDigitLocked(Head(info))
    BY <1>2, <2>1, Zenon
  <2>2. CASE /\ events # <<>> /\ current \in Calls /\ phone.decoded
             /\ handleIVRDigitLocked(Head(events))
    BY <1>2, <2>2, Zenon
  <2>3. CASE last # 0 /\ current \in Calls /\ phone.decoded /\ handleIVRDigitLocked(last)
    BY <1>2, <2>3, Zenon
  <2>4. \/ /\ info # <<>> /\ current \in Calls /\ loop.at = "idle"
           /\ handleIVRDigitLocked(Head(info))
        \/ /\ events # <<>> /\ current \in Calls /\ phone.decoded
           /\ handleIVRDigitLocked(Head(events))
        \/ last # 0 /\ current \in Calls /\ phone.decoded /\ handleIVRDigitLocked(last)
        \/ entry' = entry
    BY <1>1, KeyMoves, Zenon
  <2> QED
    BY <2>1, <2>2, <2>3, <2>4, Zenon
<1>4. Hears(press)
  BY <1>1, <1>3, DigitIsHeard
<1>5. current' = NoCall
  BY <1>4 DEF Hears
<1>6. phone.keys # <<>>
  BY <1>3, KeyTypes
<1>7. loop.at = "invite" => ViaRtp(phone.offer)
  <2>1. loop.at = "invite" => reinvites = 0 /\ invites > 0
    BY DEF KeyInv, AsOffered, CallInv, Numbered
  <2> QED
    BY <1>3, <2>1 DEF KeyInv, AsOffered
<1> QED
  BY <1>5, <1>6, <1>7

LEMMA EntryAsideKey == CallInv /\ KeyInv /\ EntryIsAside /\ KeySteps => EntryIsAside'
<1> SUFFICES ASSUME CallInv, KeyInv, EntryIsAside, KeySteps PROVE EntryIsAside'
  OBVIOUS
<1>1. CallerTypeOK /\ UNCHANGED <<phone, loop>>
  BY KeyMoves DEF CallInv, TypeOK
<1>2. CASE entry' # entry
  BY <1>1, <1>2, EntryBegins DEF EntryIsAside
<1>3. CASE entry' = entry
  <2>1. \/ UNCHANGED <<sess, current>>
        \/ current \in Calls /\ \E press \in Nat : Hears(press)
    BY <1>1, KeyType
  <2>2. ASSUME current \in Calls, NEW press \in Nat, Hears(press) PROVE EntryIsAside'
    <3>1. \A m \in Calls : sess'[m].rtp = sess[m].rtp
      BY <2>2, HearsKey
    <3>2. current' = current \/ current' = NoCall
      BY <2>2, HearsKey
    <3> QED
      BY <1>1, <1>3, <2>2, <3>1, <3>2 DEF EntryIsAside
  <2> QED
    BY <1>1, <1>3, <2>1, <2>2 DEF EntryIsAside
<1> QED
  BY <1>2, <1>3

LEMMA EntryAsideStep == CallInv /\ KeyInv /\ EntryIsAside /\ [Next]_vars => EntryIsAside'
<1> SUFFICES ASSUME CallInv, KeyInv, EntryIsAside, [Next]_vars PROVE EntryIsAside'
  OBVIOUS
<1>1. CASE Invite
  BY <1>1, InviteType DEF CallInv, TypeOK, Invite, EntryIsAside
<1>2. CASE StoreSession
  <2>1. /\ loop.at = "invite" /\ loop' = NoLoop /\ current' = loop.call
        /\ UNCHANGED <<phone, invites, sess, entry>>
    BY <1>2 DEF StoreSession, caller
  <2>2. invites \in Calls /\ loop.call = invites /\ reinvites = 0
    BY <2>1, CallNumbers DEF KeyInv, AsOffered, CallInv, Numbered
  <2>3. phone.offer.audio => sess[invites].rtp # NoSocket
    BY <2>2, CallNumbers DEF KeyInv, AsOffered
  <2> QED
    BY <2>1, <2>2, <2>3 DEF EntryIsAside, ViaRtp, NoLoop
<1>3. CASE Press
  <2>1. /\ phone'.offer = phone.offer /\ Len(phone'.keys) = Len(phone.keys) + 1
        /\ UNCHANGED <<loop, sess, current, entry>> /\ CallerTypeOK'
    BY <1>3, PressType DEF CallInv, TypeOK, tables
  <2>2. phone'.keys # <<>>
    BY <2>1, KeyTypes
  <2> QED
    BY <2>1, <2>2 DEF EntryIsAside
<1>4. CASE InfoAgain
  BY <1>4 DEF InfoAgain, tables, EntryIsAside
<1>5. CASE KeySteps
  BY <1>5, EntryAsideKey
<1>6. CASE Reinvite
  <2>1. /\ phone'.keys = phone.keys /\ loop.at = "idle" /\ UNCHANGED <<loop, current>>
        /\ \/ UNCHANGED <<sess, entry>>
           \/ entry.up /\ UNCHANGED sess
           \/ ~entry.up /\ UNCHANGED entry
    BY <1>6, ReinviteType DEF CallInv, TypeOK
  <2> QED
    BY <2>1 DEF EntryIsAside
<1>7. CASE Cancel
  BY <1>7, CancelType DEF CallInv, TypeOK, Cancel, EntryIsAside
<1>8. CASE Bye
  BY <1>8, ByeType DEF CallInv, TypeOK, Bye, EntryIsAside
<1>9. CASE CleanUp \/ Drop
  <2>1. entry' = NoEntry
    BY <1>9, Zenon DEF CleanUp, Drop
  <2> QED
    BY <2>1 DEF NoEntry, EntryIsAside
<1>10. CASE RingSteps
  <2>1. /\ UNCHANGED <<caller, tables>>
        /\ \/ loop' = loop \/ loop' = NoLoop
           \/ loop' = [loop EXCEPT !.at = "won"] /\ loop.at = "idle"
    BY <1>10, RingLeavesCallerAlone DEF CallInv
  <2>2. loop'.at = "invite" => loop.at = "invite"
    BY <2>1, CallNumbers DEF NoLoop, Loop
  <2> QED
    BY <2>1, <2>2 DEF EntryIsAside, caller, tables
<1>11. CASE StartRecording \/ Attach
  BY <1>11 DEF StartRecording, Attach, EntryIsAside, caller, tables
<1>12. CASE UNCHANGED vars
  BY <1>12 DEF vars, EntryIsAside, caller, tables
<1> QED
  BY <1>1, <1>2, <1>3, <1>4, <1>5, <1>6, <1>7, <1>8, <1>9, <1>10, <1>11, <1>12
     DEF Next, KeySteps, RingSteps

LEMMA KeyStep == CallInv /\ KeyInv /\ EntryIsAside /\ [Next]_vars => KeyInv' /\ EntryIsAside'
<1> SUFFICES ASSUME CallInv, KeyInv, EntryIsAside, [Next]_vars PROVE KeyInv'
  BY EntryAsideStep
<1>1. CASE CallerSteps
  BY <1>1, KeyInvite, KeyStoreSession, KeyPress, KeyRepeated, KeyHeard, KeyReinvite, KeyHangUp,
     KeyDrop DEF CallerSteps
<1>2. ASSUME UNCHANGED <<caller, tables>>, loop'.at = "invite" => loop.at = "invite"
      PROVE  KeyInv'
  BY <1>2 DEF KeyInv, KeysInOrder, OneWay, AsOffered, caller, tables
<1>3. CASE RingSteps
  <2>1. /\ UNCHANGED <<caller, tables>>
        /\ \/ loop' = loop \/ loop' = NoLoop
           \/ loop' = [loop EXCEPT !.at = "won"] /\ loop.at = "idle"
    BY <1>3, RingLeavesCallerAlone DEF CallInv
  <2>2. loop'.at = "invite" => loop.at = "invite"
    BY <2>1, CallNumbers DEF NoLoop, Loop
  <2> QED
    BY <1>2, <2>1, <2>2
<1>4. CASE StartRecording \/ Attach
  BY <1>2, <1>4 DEF StartRecording, Attach
<1>5. CASE UNCHANGED vars
  BY <1>2, <1>5 DEF vars
<1> QED
  BY <1>1, <1>3, <1>4, <1>5 DEF Next, CallerSteps, KeySteps, RingSteps

\* A press is heard once at most by whichever way and in however many packets it
\* comes, however the caller's media are renegotiated and his INVITE retransmitted
\* in between, unless its INFO or an end packet after the 150 ms came in again
\* (dtmfViaRTP in handleInboundInfo, decodeTelephoneEvent, tryHandleIVRReinvite).
THEOREM EachKeyOnceHolds == Spec => []EachKeyOnce
<1>1. Init => KeyInv /\ EntryIsAside
  BY KeyInit
<1>2. CallInv /\ KeyInv /\ EntryIsAside /\ [Next]_vars => KeyInv' /\ EntryIsAside'
  BY KeyStep
<1>3. CallInv /\ KeyInv => EachKeyOnce
  <2> SUFFICES ASSUME CallInv, KeyInv, NEW n \in Calls,
                      NEW i \in DOMAIN sess[n].heard, NEW j \in DOMAIN sess[n].heard,
                      sess[n].heard[i] = sess[n].heard[j], i # j
               PROVE  sess[n].heard[i] \in again
    BY DEF EachKeyOnce
  <2> DEFINE h == sess[n].heard
  <2>1. h \in Seq(Nat) /\ Rising(h, again)
    BY KeyTypes DEF KeyInv, KeysInOrder
  <2> HIDE DEF h
  <2>2. i \in Nat /\ j \in Nat /\ h[i] \in Nat /\ h[j] \in Nat /\ h[i] = h[j] /\ (i < j \/ j < i)
    BY <2>1 DEF h
  <2>3. h[i] \in again
    BY <2>1, <2>2 DEF Rising, h
  <2> QED
    BY <2>3 DEF h
<1> QED
  BY <1>1, <1>2, <1>3, CallInvHolds, PTL DEF Spec

(***************************************************************************)
(* What a caller dials                                                     *)
(***************************************************************************)
\* A set of numbers up to n has a latest one.
LEMMA LatestHolds ==
  ASSUME NEW n \in Nat, NEW set, set \subseteq 1..n
  PROVE  /\ Latest(set) \in 0..n
         /\ set = {} => Latest(set) = 0
         /\ set # {} => Latest(set) \in set
         /\ \A h \in set : h <= Latest(set)
<1>1. CASE set = {}
  BY <1>1 DEF Latest
<1>2. CASE set # {}
  <2> DEFINE T == {n - h : h \in set}
  <2>1. T \subseteq Nat /\ T # {}
    <3>1. \A h \in set : n - h \in Nat
      OBVIOUS
    <3> QED
      BY <1>2, <3>1
  <2>2. \E t \in T : \A m \in T : ~(m < t)
    <3> HIDE DEF T
    <3> QED
      BY <2>1, Least
  <2>3. PICK j \in set : \A h \in set : ~(n - h < n - j)
    BY <2>2
  <2>4. \A h \in set : h <= j
    BY <2>3
  <2>5. Latest(set) = CHOOSE i \in set : \A h \in set : h <= i
    BY <1>2 DEF Latest
  <2>6. Latest(set) \in set /\ \A h \in set : h <= Latest(set)
    <3> DEFINE k == Latest(set)
    <3> HIDE DEF k
    <3>1. k \in set /\ \A h \in set : h <= k
      BY <2>4, <2>5, Zenon DEF k
    <3> QED
      BY <3>1, Zenon DEF k
  <2> DEFINE k == Latest(set)
  <2> HIDE DEF k
  <2>7. k \in set => k \in 0..n
    OBVIOUS
  <2> QED
    BY <1>2, <2>6, <2>7 DEF k
<1> QED
  BY <1>1, <1>2

LEMMA LatestIs ==
  ASSUME NEW n \in Nat, NEW set, set \subseteq 1..n, NEW j \in set, \A h \in set : h <= j
  PROVE  Latest(set) = j
<1> DEFINE k == Latest(set)
<1>1. k \in set /\ j <= k
  BY LatestHolds
<1> HIDE DEF k
<1>2. k <= j /\ k \in Nat /\ j \in Nat
  BY <1>1
<1> QED
  BY <1>1, <1>2 DEF k

\* What a further key changes of the values told: a "#" ends one, a digit goes to
\* the one that is being told, and another key is not heard.
LEMMA KeyAppended ==
  ASSUME NEW keys, IsSlice(keys), NEW d
  PROVE  LET more == Append(keys, d)
             n == Len(keys)
         IN /\ n \in Nat /\ IsSlice(more) /\ Len(more) = n + 1
            /\ Hashes(keys) \subseteq 1..n
            /\ d # "#" => Hashes(more) = Hashes(keys)
            /\ d = "#" => Hashes(more) = Hashes(keys) \cup {n + 1}
            /\ \A i \in 1..(n + 1) : Since(more, i) = Since(keys, i)
            /\ d = "#" => Since(more, n + 2) = <<>>
            /\ d \in Digits => Since(more, n + 2) = Append(Since(keys, n + 1), d)
            /\ d \notin Digits /\ d # "#" => Since(more, n + 2) = Since(keys, n + 1)
<1> DEFINE more == Append(keys, d)
           n == Len(keys)
           E == Elems(keys) \cup {d}
           Old(i) == {j \in Hashes(keys) : j < i}
           New(i) == {j \in Hashes(more) : j < i}
<1>1. keys \in Seq(E) /\ d \in E
  BY DEF IsSlice, Elems
<1>2. Elems(more) = E
  BY <1>1, Grows
<1>3. /\ n \in Nat /\ DOMAIN keys = 1..n /\ more \in Seq(E) /\ Len(more) = n + 1
      /\ DOMAIN more = 1..(n + 1) /\ more[n + 1] = d /\ \A i \in 1..n : more[i] = keys[i]
  BY <1>1
<1>4. IsSlice(more)
  BY <1>2, <1>3 DEF IsSlice
<1>5. Hashes(keys) \subseteq 1..n
  BY <1>3 DEF Hashes
<1>6. Hashes(more) = IF d = "#" THEN Hashes(keys) \cup {n + 1} ELSE Hashes(keys)
  <2> HIDE DEF more, n, E
  <2>1. \A i \in 1..n : i \in Hashes(more) <=> i \in Hashes(keys)
    BY <1>3 DEF Hashes
  <2>2. n + 1 \in Hashes(more) <=> d = "#"
    BY <1>3 DEF Hashes
  <2>3. Hashes(more) \subseteq 1..(n + 1)
    BY <1>3 DEF Hashes
  <2>4. \A i \in 1..(n + 1) : i \in 1..n \/ i = n + 1
    BY <1>3
  <2> QED
    BY <1>5, <2>1, <2>2, <2>3, <2>4
<1> HIDE DEF more, E
<1>7. \A i \in 1..(n + 1) : New(i) = Old(i)
  BY <1>3, <1>5, <1>6
<1>8. ASSUME NEW i \in 1..(n + 1) PROVE Latest(Old(i)) + 1 \in Nat \ {0} /\ Latest(Old(i)) + 1 <= i
  <2>1. i - 1 \in Nat /\ Old(i) \subseteq 1..(i - 1)
    BY <1>3, <1>5
  <2> DEFINE k == Latest(Old(i))
  <2>2. k \in 0..(i - 1)
    BY <2>1, LatestHolds
  <2> HIDE DEF k
  <2>3. k + 1 \in Nat \ {0} /\ k + 1 <= i
    BY <2>1, <2>2
  <2> QED
    BY <2>3 DEF k
<1>9. \A seq, i : Since(seq, i) = Select(SubSeq(seq, Latest({j \in Hashes(seq) : j < i}) + 1, i - 1), Digits)
  BY DEF Since
<1>10. ASSUME NEW i \in 1..(n + 1) PROVE Since(more, i) = Since(keys, i)
  <2> DEFINE a == Latest(Old(i)) + 1
             b == i - 1
  <2>1. b \in Nat /\ b <= n
    BY <1>3
  <2>2. Since(more, i) = Select(SubSeq(more, a, b), Digits)
    BY <1>7, <1>9
  <2>3. Since(keys, i) = Select(SubSeq(keys, a, b), Digits)
    BY <1>9
  <2>4. a \in Nat \ {0}
    BY <1>8
  <2> HIDE DEF a, b
  <2>5. SubSeq(more, a, b) = SubSeq(keys, a, b)
    BY <2>1, <2>4, PartHolds DEF more
  <2> QED
    BY <2>2, <2>3, <2>5
<1>11. n + 2 - 1 = n + 1 /\ n + 1 - 1 = n /\ n + 1 \in 1..(n + 1)
  BY <1>3
<1>12. ASSUME d = "#" PROVE Since(more, n + 2) = <<>>
  <2>1. New(n + 2) \subseteq 1..(n + 1) /\ n + 1 \in New(n + 2) /\ n + 1 \in Nat
        /\ \A h \in New(n + 2) : h <= n + 1
    BY <1>3, <1>5, <1>6, <1>12
  <2>2. Latest(New(n + 2)) = n + 1
    <3> DEFINE set == New(n + 2)
               m == n + 1
    <3>1. set \subseteq 1..m /\ m \in set /\ m \in Nat /\ \A h \in set : h <= m
      BY <2>1
    <3> HIDE DEF set, m
    <3>2. Latest(set) = m
      BY <3>1, LatestIs
    <3> QED
      BY <3>2 DEF set, m
  <2>3. SubSeq(more, n + 1 + 1, n + 2 - 1) = <<>>
    BY <1>3, SubSeqEmpty
  <2>4. Since(more, n + 2) = Select(<<>>, Digits)
    <3>1. Since(more, n + 2) = Select(SubSeq(more, Latest(New(n + 2)) + 1, n + 2 - 1), Digits)
      BY <1>9
    <3> QED
      BY <2>2, <2>3, <3>1, Zenon
  <2>5. IsSlice(<<>>) /\ Elems(<<>>) = {}
    BY DEF IsSlice, Elems
  <2>6. Select(<<>>, Digits) = <<>>
    BY <2>5, SelectNone
  <2> QED
    BY <2>4, <2>6
<1>13. ASSUME d # "#"
       PROVE  /\ d \in Digits => Since(more, n + 2) = Append(Since(keys, n + 1), d)
              /\ d \notin Digits => Since(more, n + 2) = Since(keys, n + 1)
  <2> DEFINE a == Latest(Old(n + 1)) + 1
             part == SubSeq(keys, a, n)
  <2>1. New(n + 2) = Old(n + 1)
    BY <1>3, <1>5, <1>6, <1>13
  <2>2. Since(keys, n + 1) = Select(part, Digits)
    <3>1. Since(keys, n + 1) = Select(SubSeq(keys, a, n + 1 - 1), Digits)
      BY <1>9
    <3> QED
      BY <1>11, <3>1
  <2>3. Since(more, n + 2) = Select(SubSeq(more, a, n + 1), Digits)
    <3>1. Since(more, n + 2) = Select(SubSeq(more, Latest(New(n + 2)) + 1, n + 2 - 1), Digits)
      BY <1>9
    <3> QED
      BY <1>11, <2>1, <3>1
  <2>4. a \in Nat \ {0} /\ a <= n + 1
    BY <1>8, <1>11
  <2> HIDE DEF a
  <2>5. SubSeq(more, a, n + 1) = Append(part, d)
    BY <2>4, PartGrows DEF more
  <2>6. IsSlice(part)
    BY <1>3, <2>4, PartHolds
  <2> HIDE DEF part
  <2>7. /\ d \in Digits => Select(Append(part, d), Digits) = Append(Select(part, Digits), d)
        /\ d \notin Digits => Select(Append(part, d), Digits) = Select(part, Digits)
    BY <2>6, SelectAppend
  <2> QED
    BY <2>2, <2>3, <2>5, <2>7, Zenon
<1>14. "#" \notin Digits
  BY DEF Digits
<1> QED
  BY <1>3, <1>4, <1>5, <1>6, <1>10, <1>12, <1>13, <1>14 DEF more

\* What a session that takes key d comes to.
KeyTaken(s, t, d) ==
  \/ s.state = "joinedGroup" /\ t.state = s.state /\ t.access = s.access /\ t.pin = s.pin
  \/ /\ s.state # "joinedGroup" /\ d # "#"
     /\ t.state = s.state /\ t.access = s.access /\ t.pin = s.pin
     /\ t.buf = IF d \in Digits THEN Append(s.buf, d) ELSE s.buf
  \/ /\ s.state = "collectBridge" /\ d = "#"
     /\ t.state = "collectUser" /\ t.access = s.buf /\ t.buf = <<>>
  \/ /\ s.state = "collectUser" /\ d = "#" /\ t.access = s.access
     /\ \/ /\ ivrAuthorizeAndResolveTarget(s.access, s.buf) = Denied
           /\ t.state = s.state /\ t.buf = <<>>
        \/ /\ ivrAuthorizeAndResolveTarget(s.access, s.buf) # Denied
           /\ t.state \in {"joined", "joinedGroup"} /\ t.pin = s.buf

\* Where that takes the caller, and whether his group's far side is rung.
KeyLeads(s, t, d) ==
  LET a == ivrAuthorizeAndResolveTarget(t.access, t.pin)
  IN \/ /\ t.state = s.state /\ t.access = s.access /\ t.pin = s.pin
        /\ t.target = s.target /\ t.side = s.side /\ entry' = entry
        /\ go' = go \/ (s.state = "joinedGroup" /\ d = "9" /\ StartFanout(current))
     \/ /\ s.state \in {"collectBridge", "collectUser"} /\ t.state = "collectUser"
        /\ entry' = entry /\ go' = go
     \/ /\ s.state = "collectUser" /\ t.state = "joined" /\ a.kind = "bridge" /\ go' = go
        /\ entry'.target = a.id /\ entry'.call = current
     \/ /\ s.state = "collectUser" /\ t.state = "joinedGroup" /\ a.kind = "group"
        /\ t.target = a.id /\ entry' = entry
        /\ go' = go \/ (Group(t.target).type # "mrd" /\ StartFanout(current))

\* What is decided, and what is still collected.
AsTold(s, keys) ==
  /\ IsDecidedBy(s, keys)
  /\ s.state \in {"collectBridge", "collectUser"} => s.buf = Since(keys, Len(keys) + 1)
  /\ s.state = "collectUser" => s.access = Since(keys, Code(keys))

LEMMA DecidedIs ==
  ASSUME NEW s, NEW keys
  PROVE  IsDecidedBy(s, keys) <=>
           /\ Hashes(keys) = {} => s.state = "collectBridge"
           /\ Hashes(keys) # {} /\ Fitting(keys) = {} => s.state = "collectUser"
           /\ Fitting(keys) # {} =>
                /\ s.state \in {"joined", "joinedGroup"}
                /\ s.access = Since(keys, Code(keys))
                /\ \E i \in Fitting(keys) : /\ \A j \in Fitting(keys) : i <= j
                                            /\ s.pin = Since(keys, i)
<1> DEFINE all == /\ s.state \in {"joined", "joinedGroup"}
                  /\ s.access = Since(keys, Code(keys))
                  /\ \E i \in Fitting(keys) : /\ \A j \in Fitting(keys) : i <= j
                                              /\ s.pin = Since(keys, i)
<1>1. Hashes(keys) = {} => Fitting(keys) = {}
  BY DEF Fitting
<1>2. IsDecidedBy(s, keys) = CASE Hashes(keys) = {} -> s.state = "collectBridge"
                               [] Hashes(keys) # {} /\ Fitting(keys) = {} -> s.state = "collectUser"
                               [] OTHER -> all
  BY Zenon DEF IsDecidedBy
<1> HIDE DEF all
<1>3. IsDecidedBy(s, keys) <=> /\ Hashes(keys) = {} => s.state = "collectBridge"
                               /\ Hashes(keys) # {} /\ Fitting(keys) = {} => s.state = "collectUser"
                               /\ Fitting(keys) # {} => all
  BY <1>1, <1>2
<1> QED
  BY <1>3 DEF all

\* The first "#" of a slice of keys.
LEMMA CodeHolds ==
  ASSUME NEW keys, IsSlice(keys), Hashes(keys) # {}
  PROVE  /\ Code(keys) \in Hashes(keys) /\ \A j \in Hashes(keys) : Code(keys) <= j
         /\ \A i \in Hashes(keys) : (\A j \in Hashes(keys) : i <= j) => i = Code(keys)
<1>1. Hashes(keys) \subseteq Nat
  BY KeyAppended
<1>2. PICK i \in Hashes(keys) : \A j \in Hashes(keys) : ~(j < i)
  BY <1>1, Least
<1>3. \A j \in Hashes(keys) : i <= j
  BY <1>1, <1>2
<1> DEFINE c == Code(keys)
<1>4. c \in Hashes(keys) /\ \A j \in Hashes(keys) : c <= j
  BY <1>3, Zenon DEF Code
<1> HIDE DEF c
<1>5. \A h \in Hashes(keys) : (\A j \in Hashes(keys) : h <= j) => h = c
  <2> SUFFICES ASSUME NEW h \in Hashes(keys), \A j \in Hashes(keys) : h <= j PROVE h = c
    OBVIOUS
  <2>1. h <= c /\ c <= h /\ h \in Nat /\ c \in Nat
    BY <1>1, <1>4
  <2> QED
    BY <2>1
<1> QED
  BY <1>4, <1>5 DEF c

\* What a further key changes of the code and of the values that let the caller in.
LEMMA KeyDecides ==
  ASSUME NEW keys, IsSlice(keys), NEW d
  PROVE  LET more == Append(keys, d)
             n == Len(keys)
         IN /\ Hashes(keys) # {} => Code(more) = Code(keys) /\ Since(more, Code(more)) = Since(keys, Code(keys))
            /\ Hashes(keys) = {} /\ d = "#" =>
                 Code(more) = n + 1 /\ Fitting(more) = {} /\ Since(more, Code(more)) = Since(keys, n + 1)
            /\ d # "#" => Fitting(more) = Fitting(keys)
            /\ Hashes(keys) # {} /\ d = "#" =>
                 Fitting(more) =
                   IF ivrAuthorizeAndResolveTarget(Since(keys, Code(keys)), Since(keys, n + 1)) # Denied
                   THEN Fitting(keys) \cup {n + 1} ELSE Fitting(keys)
<1> DEFINE more == Append(keys, d)
           n == Len(keys)
           Fits(seq, c, i) == i > c /\ ivrAuthorizeAndResolveTarget(Since(seq, c), Since(seq, i)) # Denied
<1>1. /\ n \in Nat /\ IsSlice(more)
      /\ Hashes(keys) \subseteq 1..n
      /\ d # "#" => Hashes(more) = Hashes(keys)
      /\ d = "#" => Hashes(more) = Hashes(keys) \cup {n + 1}
      /\ \A i \in 1..(n + 1) : Since(more, i) = Since(keys, i)
  BY KeyAppended
<1>2. \A seq : Fitting(seq) = {i \in Hashes(seq) : Fits(seq, Code(seq), i)}
  BY DEF Fitting
<1> HIDE DEF more, n
<1>3. Hashes(more) \subseteq 1..(n + 1) /\ n + 1 \in 1..(n + 1) /\ \A i \in 1..n : i \in 1..(n + 1) /\ i < n + 1
  BY <1>1
<1>4. ASSUME Hashes(keys) # {}
      PROVE  /\ Code(more) = Code(keys) /\ Code(keys) \in 1..n
             /\ Since(more, Code(more)) = Since(keys, Code(keys))
  <2> DEFINE c == Code(keys)
  <2>1. c \in Hashes(keys) /\ \A j \in Hashes(keys) : c <= j
    BY <1>4, CodeHolds
  <2> HIDE DEF c
  <2>2. c \in Hashes(more) /\ \A j \in Hashes(more) : c <= j
    BY <1>1, <2>1
  <2>3. c = Code(more)
    BY <1>1, <2>2, CodeHolds
  <2>4. c \in 1..n
    BY <1>1, <2>1
  <2>5. Since(more, c) = Since(keys, c)
    BY <1>1, <1>3, <2>4
  <2> QED
    BY <2>3, <2>4, <2>5 DEF c
<1>5. ASSUME Hashes(keys) = {}, d = "#"
      PROVE  Code(more) = n + 1 /\ Fitting(more) = {} /\ Since(more, Code(more)) = Since(keys, n + 1)
  <2>1. Hashes(more) = {n + 1}
    BY <1>1, <1>5
  <2>2. Code(more) \in Hashes(more)
    BY <1>1, <2>1, CodeHolds
  <2>3. Code(more) = n + 1
    BY <2>1, <2>2
  <2>4. ~(n + 1 > n + 1)
    BY <1>1
  <2>5. Fitting(more) = {}
    BY <1>2, <2>1, <2>3, <2>4
  <2> QED
    BY <1>1, <1>3, <2>3, <2>5
<1>6. \A i \in Hashes(keys) : Hashes(keys) # {} =>
        (Fits(more, Code(more), i) <=> Fits(keys, Code(keys), i))
  <2> SUFFICES ASSUME NEW i \in Hashes(keys), Hashes(keys) # {}
               PROVE  Fits(more, Code(more), i) <=> Fits(keys, Code(keys), i)
    OBVIOUS
  <2>1. i \in 1..(n + 1)
    BY <1>1, <1>3
  <2>2. Since(more, i) = Since(keys, i)
    BY <1>1, <2>1
  <2> QED
    BY <1>4, <2>2
<1>7. ASSUME d # "#" PROVE Fitting(more) = Fitting(keys)
  <2>1. Hashes(more) = Hashes(keys)
    BY <1>1, <1>7
  <2>2. Fitting(more) = {i \in Hashes(more) : Fits(more, Code(more), i)}
        /\ Fitting(keys) = {i \in Hashes(keys) : Fits(keys, Code(keys), i)}
    BY <1>2
  <2> HIDE DEF Fits
  <2> QED
    BY <1>6, <2>1, <2>2
<1>8. ASSUME Hashes(keys) # {}, d = "#"
      PROVE  Fitting(more) =
               IF ivrAuthorizeAndResolveTarget(Since(keys, Code(keys)), Since(keys, n + 1)) # Denied
               THEN Fitting(keys) \cup {n + 1} ELSE Fitting(keys)
  <2>1. Hashes(more) = Hashes(keys) \cup {n + 1}
    BY <1>1, <1>8
  <2>2. Fitting(more) = {i \in Hashes(more) : Fits(more, Code(more), i)}
        /\ Fitting(keys) = {i \in Hashes(keys) : Fits(keys, Code(keys), i)}
    BY <1>2
  <2>3. Fits(more, Code(more), n + 1) <=>
          ivrAuthorizeAndResolveTarget(Since(keys, Code(keys)), Since(keys, n + 1)) # Denied
    <3>1. Since(more, n + 1) = Since(keys, n + 1)
      BY <1>1, <1>3
    <3>2. n + 1 > Code(more)
      BY <1>4, <1>8, <1>1
    <3> QED
      BY <1>4, <1>8, <3>1, <3>2
  <2> HIDE DEF Fits
  <2> QED
    BY <1>6, <1>8, <2>1, <2>2, <2>3
<1> QED
  BY <1>4, <1>5, <1>7, <1>8 DEF more, n

LEMMA ToldHolds ==
  ASSUME NEW keys, IsSlice(keys), NEW d, NEW s, NEW t, AsTold(s, keys), KeyTaken(s, t, d)
  PROVE  AsTold(t, Append(keys, d))
<1> DEFINE more == Append(keys, d)
           n == Len(keys)
           told == Since(more, n + 2)
<1>1. /\ n \in Nat /\ Len(more) = n + 1 /\ Hashes(keys) \subseteq 1..n
      /\ d # "#" => Hashes(more) = Hashes(keys)
      /\ d = "#" => Hashes(more) = Hashes(keys) \cup {n + 1}
      /\ \A i \in 1..(n + 1) : Since(more, i) = Since(keys, i)
      /\ d = "#" => told = <<>>
      /\ d \in Digits => told = Append(Since(keys, n + 1), d)
      /\ d \notin Digits /\ d # "#" => told = Since(keys, n + 1)
  BY KeyAppended
<1>2. /\ Hashes(keys) # {} => Code(more) = Code(keys) /\ Since(more, Code(more)) = Since(keys, Code(keys))
      /\ Hashes(keys) = {} /\ d = "#" => /\ Fitting(more) = {}
                                         /\ Since(more, Code(more)) = Since(keys, n + 1)
      /\ d # "#" => Fitting(more) = Fitting(keys)
      /\ Hashes(keys) # {} /\ d = "#" =>
           Fitting(more) =
             IF ivrAuthorizeAndResolveTarget(Since(keys, Code(keys)), Since(keys, n + 1)) # Denied
             THEN Fitting(keys) \cup {n + 1} ELSE Fitting(keys)
  BY KeyDecides
<1>3. (n + 1) + 1 = n + 2 /\ n + 1 \in 1..(n + 1)
  BY <1>1
<1>4. Fitting(keys) \subseteq Hashes(keys) /\ Fitting(more) \subseteq Hashes(more)
  BY DEF Fitting
<1> HIDE DEF more, n, told
<1>5. /\ Hashes(keys) = {} => s.state = "collectBridge"
      /\ Hashes(keys) # {} /\ Fitting(keys) = {} => s.state = "collectUser"
      /\ Fitting(keys) # {} =>
           /\ s.state \in {"joined", "joinedGroup"}
           /\ s.access = Since(keys, Code(keys))
           /\ \E i \in Fitting(keys) : /\ \A j \in Fitting(keys) : i <= j
                                       /\ s.pin = Since(keys, i)
  BY DecidedIs DEF AsTold
<1>6. /\ s.state \in {"collectBridge", "collectUser"} => s.buf = Since(keys, n + 1)
      /\ s.state = "collectUser" => s.access = Since(keys, Code(keys))
  BY DEF AsTold, n
<1>7. SUFFICES ASSUME /\ Hashes(more) = {} => t.state = "collectBridge"
                      /\ Hashes(more) # {} /\ Fitting(more) = {} => t.state = "collectUser"
                      /\ Fitting(more) # {} =>
                           /\ t.state \in {"joined", "joinedGroup"}
                           /\ t.access = Since(more, Code(more))
                           /\ \E i \in Fitting(more) : /\ \A j \in Fitting(more) : i <= j
                                                       /\ t.pin = Since(more, i)
                      => IsDecidedBy(t, more)
               PROVE  /\ IsDecidedBy(t, more)
                      /\ t.state \in {"collectBridge", "collectUser"} => t.buf = told
                      /\ t.state = "collectUser" => t.access = Since(more, Code(more))
  <2>1. IsDecidedBy(t, more) <=>
           /\ Hashes(more) = {} => t.state = "collectBridge"
           /\ Hashes(more) # {} /\ Fitting(more) = {} => t.state = "collectUser"
           /\ Fitting(more) # {} =>
                /\ t.state \in {"joined", "joinedGroup"}
                /\ t.access = Since(more, Code(more))
                /\ \E i \in Fitting(more) : /\ \A j \in Fitting(more) : i <= j
                                            /\ t.pin = Since(more, i)
    BY DecidedIs
  <2>2. AsTold(t, more) <=> /\ IsDecidedBy(t, more)
                            /\ t.state \in {"collectBridge", "collectUser"} => t.buf = told
                            /\ t.state = "collectUser" => t.access = Since(more, Code(more))
    BY <1>1, <1>3 DEF AsTold, told
  <2> QED
    BY <2>1, <2>2, Zenon DEF more
\* The caller is in already: what let him in stays the first that does.
<1>8. CASE s.state \in {"joined", "joinedGroup"} /\ t.state = s.state /\ t.access = s.access /\ t.pin = s.pin
  <2>1. Fitting(keys) # {} /\ Hashes(keys) # {}
    BY <1>4, <1>5, <1>8
  <2>2. PICK i \in Fitting(keys) : (\A j \in Fitting(keys) : i <= j) /\ s.pin = Since(keys, i)
    BY <1>5, <2>1
  <2>3. i \in 1..n /\ i \in 1..(n + 1) /\ i <= n + 1
    BY <1>1, <1>4, <2>2
  <2>4. Fitting(more) \subseteq Fitting(keys) \cup {n + 1} /\ i \in Fitting(more)
    BY <1>2, <2>1, <2>2
  <2>5. \A j \in Fitting(more) : i <= j
    BY <2>2, <2>3, <2>4
  <2>6. t.pin = Since(more, i)
    BY <1>1, <1>8, <2>2, <2>3
  <2>7. t.access = Since(more, Code(more))
    BY <1>2, <1>5, <1>8, <2>1
  <2> QED
    BY <1>4, <1>7, <1>8, <2>4, <2>5, <2>6, <2>7
\* Still told.
<1>9. CASE /\ s.state \in {"collectBridge", "collectUser"} /\ d # "#"
           /\ t.state = s.state /\ t.access = s.access /\ t.pin = s.pin
           /\ t.buf = IF d \in Digits THEN Append(s.buf, d) ELSE s.buf
  <2>1. Fitting(keys) = {} /\ Fitting(more) = {} /\ Hashes(more) = Hashes(keys)
    BY <1>1, <1>2, <1>5, <1>9
  <2>2. t.buf = told
    BY <1>1, <1>6, <1>9
  <2>3. s.state = "collectUser" => Hashes(keys) # {}
    BY <1>5
  <2>4. t.state = "collectUser" => t.access = Since(more, Code(more))
    BY <1>2, <1>6, <1>9, <2>3
  <2> QED
    BY <1>5, <1>7, <1>9, <2>1, <2>2, <2>4
\* The first value.
<1>10. CASE /\ s.state = "collectBridge" /\ d = "#"
            /\ t.state = "collectUser" /\ t.access = s.buf /\ t.buf = <<>>
  <2>1. Hashes(keys) = {} /\ Hashes(more) # {}
    BY <1>1, <1>5, <1>10
  <2>2. Fitting(more) = {} /\ t.access = Since(more, Code(more))
    BY <1>2, <1>6, <1>10, <2>1
  <2> QED
    BY <1>1, <1>7, <1>10, <2>1, <2>2
\* A later one.
<1>11. CASE /\ s.state = "collectUser" /\ d = "#" /\ t.access = s.access
            /\ \/ /\ ivrAuthorizeAndResolveTarget(s.access, s.buf) = Denied
                  /\ t.state = s.state /\ t.buf = <<>>
               \/ /\ ivrAuthorizeAndResolveTarget(s.access, s.buf) # Denied
                  /\ t.state \in {"joined", "joinedGroup"} /\ t.pin = s.buf
  <2>1. Hashes(keys) # {} /\ Fitting(keys) = {} /\ Hashes(more) # {}
    BY <1>1, <1>5, <1>11
  <2>2. s.access = Since(keys, Code(keys)) /\ s.buf = Since(keys, n + 1)
    BY <1>6, <1>11
  <2>3. t.access = Since(more, Code(more))
    BY <1>2, <1>11, <2>1, <2>2
  <2>4. CASE /\ ivrAuthorizeAndResolveTarget(s.access, s.buf) = Denied
             /\ t.state = s.state /\ t.buf = <<>>
    <3>1. Fitting(more) = {}
      BY <1>2, <1>11, <2>1, <2>2, <2>4
    <3> QED
      BY <1>1, <1>7, <1>11, <2>1, <2>3, <2>4, <3>1
  <2>5. CASE /\ ivrAuthorizeAndResolveTarget(s.access, s.buf) # Denied
             /\ t.state \in {"joined", "joinedGroup"} /\ t.pin = s.buf
    <3>1. Fitting(more) = {n + 1}
      BY <1>2, <1>11, <2>1, <2>2, <2>5
    <3>2. n + 1 <= n + 1 /\ t.pin = Since(more, n + 1)
      BY <1>1, <1>3, <2>2, <2>5
    <3> QED
      BY <1>7, <2>1, <2>3, <2>5, <3>1, <3>2
  <2> QED
    BY <1>11, <2>4, <2>5
<1>12. s.state \in {"collectBridge", "collectUser", "joined", "joinedGroup"}
  BY <1>5
<1>13. \/ s.state = "joinedGroup" /\ t.state = s.state /\ t.access = s.access /\ t.pin = s.pin
       \/ /\ s.state # "joinedGroup" /\ d # "#"
          /\ t.state = s.state /\ t.access = s.access /\ t.pin = s.pin
          /\ t.buf = IF d \in Digits THEN Append(s.buf, d) ELSE s.buf
       \/ /\ s.state = "collectBridge" /\ d = "#"
          /\ t.state = "collectUser" /\ t.access = s.buf /\ t.buf = <<>>
       \/ /\ s.state = "collectUser" /\ d = "#" /\ t.access = s.access
          /\ \/ /\ ivrAuthorizeAndResolveTarget(s.access, s.buf) = Denied
                /\ t.state = s.state /\ t.buf = <<>>
             \/ /\ ivrAuthorizeAndResolveTarget(s.access, s.buf) # Denied
                /\ t.state \in {"joined", "joinedGroup"} /\ t.pin = s.buf
  BY DEF KeyTaken
<1> QED
  BY <1>8, <1>9, <1>10, <1>11, <1>12, <1>13

\* What a session with state s and another, t, have in common when a key is handled.
LEMMA DigitIsTaken ==
  ASSUME CallerTypeOK, current \in Calls, NEW press, handleIVRDigitLocked(press)
  PROVE  \E t : /\ sess' = [sess EXCEPT ![current] = t]
                /\ t.heard = Append(sess[current].heard, press)
                /\ KeyTaken(sess[current], t, phone.keys[press])
                /\ KeyLeads(sess[current], t, phone.keys[press])
<1> DEFINE s0 == sess[current]
           s == [s0 EXCEPT !.heard = Append(@, press)]
           d == phone.keys[press]
<1>1. s0 \in Session
  BY DEF CallerTypeOK
<1>2. InCall(s, d) \/ Collect(s, d) \/ CommitAccess(s, d) \/ CommitUser(s, d)
  BY DEF handleIVRDigitLocked
<1> HIDE DEF s0
<1>3. /\ DOMAIN s = DOMAIN s0
      /\ DOMAIN s0 = {"state", "buf", "access", "pin", "target", "side", "rtp", "dtmf", "heard"}
      /\ s.heard = Append(s0.heard, press) /\ s.state = s0.state /\ s.buf = s0.buf
      /\ s.access = s0.access /\ s.pin = s0.pin /\ s.target = s0.target /\ s.side = s0.side
  BY <1>1 DEF Session
<1> SUFFICES \E t : /\ sess' = [sess EXCEPT ![current] = t] /\ t.heard = s.heard
                    /\ KeyTaken(s0, t, d) /\ KeyLeads(s0, t, d)
  BY <1>3 DEF s0
<1> HIDE DEF s, d
<1>4. CASE InCall(s, d)
  <2>1. /\ s.state = "joinedGroup" /\ sess' = [sess EXCEPT ![current] = s] /\ entry' = entry
        /\ go' = go \/ (d = "9" /\ StartFanout(current))
    BY <1>4, Zenon DEF InCall
  <2>2. KeyTaken(s0, s, d)
    BY <1>3, <2>1 DEF KeyTaken
  <2>3. KeyLeads(s0, s, d)
    BY <1>3, <2>1, Zenon DEF KeyLeads
  <2> QED
    BY <2>1, <2>2, <2>3
<1>5. CASE Collect(s, d)
  <2> DEFINE t == IF d \in Digits THEN [s EXCEPT !.buf = Append(@, d)] ELSE s
  <2>1. /\ sess' = [sess EXCEPT ![current] = t] /\ s.state # "joinedGroup" /\ d # "#"
        /\ entry' = entry /\ go' = go
    BY <1>5 DEF Collect
  <2>2. /\ t.heard = s.heard /\ t.state = s.state /\ t.access = s.access /\ t.pin = s.pin
        /\ t.target = s.target /\ t.side = s.side
        /\ t.buf = IF d \in Digits THEN Append(s.buf, d) ELSE s.buf
    BY <1>3
  <2> HIDE DEF t
  <2>3. KeyTaken(s0, t, d)
    BY <1>3, <2>1, <2>2 DEF KeyTaken
  <2>4. KeyLeads(s0, t, d)
    BY <1>3, <2>1, <2>2, Zenon DEF KeyLeads
  <2> QED
    BY <2>1, <2>2, <2>3, <2>4
<1>6. CASE CommitAccess(s, d)
  <2> DEFINE t == [s EXCEPT !.access = s.buf, !.buf = <<>>, !.state = "collectUser"]
  <2>1. /\ sess' = [sess EXCEPT ![current] = t] /\ s.state = "collectBridge" /\ d = "#"
        /\ entry' = entry /\ go' = go
    BY <1>6 DEF CommitAccess
  <2>2. t.heard = s.heard /\ t.state = "collectUser" /\ t.access = s.buf /\ t.buf = <<>>
    BY <1>3
  <2> HIDE DEF t
  <2>3. KeyTaken(s0, t, d)
    BY <1>3, <2>1, <2>2 DEF KeyTaken
  <2>4. KeyLeads(s0, t, d)
    BY <1>3, <2>1, <2>2 DEF KeyLeads
  <2> QED
    BY <2>1, <2>2, <2>3, <2>4
<1>7. CASE CommitUser(s, d)
  <2> DEFINE a == ivrAuthorizeAndResolveTarget(s.access, s.buf)
             s1 == [s EXCEPT !.pin = s.buf, !.buf = <<>>]
             g == Group(a.id)
             joined == [s1 EXCEPT !.state = "joined"]
             grouped == [s1 EXCEPT !.state = "joinedGroup", !.target = a.id,
                                   !.side = callerSide(g)]
  <2>1. /\ s.state = "collectUser" /\ d = "#"
        /\ \/ a = Denied /\ sess' = [sess EXCEPT ![current] = s1] /\ entry' = entry /\ go' = go
           \/ /\ a.kind = "bridge" /\ sess' = [sess EXCEPT ![current] = joined] /\ go' = go
              /\ entry' = [up |-> TRUE, target |-> a.id, rtp |-> s.rtp, call |-> current]
           \/ /\ a.kind = "group" /\ sess' = [sess EXCEPT ![current] = grouped] /\ entry' = entry
              /\ go' = go \/ (Group(a.id).type # "mrd" /\ StartFanout(current))
    BY <1>7, Zenon DEF CommitUser
  <2>2. a.kind \in {"bridge", "group"} => a # Denied
    <3> HIDE DEF a
    <3>1. Denied.kind = "none"
      BY DEF Denied
    <3>2. a = Denied => a.kind = Denied.kind
      BY Zenon
    <3> QED
      BY <3>1, <3>2
  <2>3. a = ivrAuthorizeAndResolveTarget(s0.access, s0.buf)
    BY <1>3
  <2> HIDE DEF a, g
  <2>4. /\ s1.heard = s.heard /\ s1.pin = s.buf /\ s1.buf = <<>> /\ s1.access = s.access
        /\ s1.state = s.state /\ DOMAIN s1 = DOMAIN s
    BY <1>3
  <2>10. ivrAuthorizeAndResolveTarget(s1.access, s1.pin) = a
    BY <2>4 DEF a
  <2> HIDE DEF s1
  <2>5. /\ joined.heard = s1.heard /\ joined.pin = s1.pin /\ joined.access = s1.access
        /\ joined.state = "joined"
        /\ ivrAuthorizeAndResolveTarget(joined.access, joined.pin) = a
    BY <1>3, <2>4, <2>10
  <2>6. /\ grouped.heard = s1.heard /\ grouped.pin = s1.pin /\ grouped.access = s1.access
        /\ grouped.state = "joinedGroup" /\ grouped.target = a.id
        /\ ivrAuthorizeAndResolveTarget(grouped.access, grouped.pin) = a
    BY <1>3, <2>4, <2>10
  <2> HIDE DEF joined, grouped
  <2>7. CASE a = Denied /\ sess' = [sess EXCEPT ![current] = s1] /\ entry' = entry /\ go' = go
    <3>1. KeyTaken(s0, s1, d)
      BY <1>3, <2>1, <2>3, <2>4, <2>7 DEF KeyTaken
    <3>2. KeyLeads(s0, s1, d)
      BY <1>3, <2>1, <2>4, <2>7, Zenon DEF KeyLeads
    <3> QED
      BY <2>4, <2>7, <3>1, <3>2
  <2>8. CASE /\ a.kind = "bridge" /\ sess' = [sess EXCEPT ![current] = joined] /\ go' = go
             /\ entry' = [up |-> TRUE, target |-> a.id, rtp |-> s.rtp, call |-> current]
    <3>1. KeyTaken(s0, joined, d)
      BY <1>3, <2>1, <2>2, <2>3, <2>4, <2>5, <2>8 DEF KeyTaken
    <3>2. entry'.target = a.id /\ entry'.call = current
      BY <2>8
    <3>3. KeyLeads(s0, joined, d)
      BY <1>3, <2>1, <2>5, <2>8, <3>2, Zenon DEF KeyLeads
    <3> QED
      BY <2>4, <2>5, <2>8, <3>1, <3>3
  <2>9. CASE /\ a.kind = "group" /\ sess' = [sess EXCEPT ![current] = grouped] /\ entry' = entry
             /\ go' = go \/ (Group(a.id).type # "mrd" /\ StartFanout(current))
    <3>1. KeyTaken(s0, grouped, d)
      BY <1>3, <2>1, <2>2, <2>3, <2>4, <2>6, <2>9 DEF KeyTaken
    <3>2. go' = go \/ (Group(grouped.target).type # "mrd" /\ StartFanout(current))
      BY <2>6, <2>9
    <3>3. KeyLeads(s0, grouped, d)
      BY <1>3, <2>1, <2>6, <2>9, <3>2, Zenon DEF KeyLeads
    <3> QED
      BY <2>4, <2>6, <2>9, <3>1, <3>3
  <2> QED
    BY <2>1, <2>7, <2>8, <2>9
<1> QED
  BY <1>2, <1>4, <1>5, <1>6, <1>7

\* The keys a session has heard, out of those pressed.
Read(keys, heard) == [i \in DOMAIN heard |-> keys[heard[i]]]

LEMMA ReadHolds ==
  ASSUME NEW keys, NEW h \in Seq(Nat)
  PROVE  /\ IsSlice(Read(keys, h))
         /\ \A x \in Nat : Read(keys, Append(h, x)) = Append(Read(keys, h), keys[x])
         /\ \A more : \A n \in Nat : UpTo(h, n) /\ (\A x \in 1..n : more[x] = keys[x]) =>
              Read(more, h) = Read(keys, h)
<1> DEFINE r == Read(keys, h)
<1>1. Len(h) \in Nat /\ DOMAIN h = 1..Len(h) /\ r = [i \in 1..Len(h) |-> keys[h[i]]]
  BY DEF Read
<1>2. IsSlice(r)
  <2>1. \A i \in 1..Len(h) : keys[h[i]] \in Elems(r)
    BY <1>1 DEF Elems
  <2> DEFINE E == Elems(r)
  <2> HIDE DEF E
  <2>2. [i \in 1..Len(h) |-> keys[h[i]]] \in Seq(E)
    BY <1>1, <2>1 DEF E
  <2>3. r \in Seq(E)
    BY <1>1, <2>2
  <2> QED
    BY <2>3 DEF E, IsSlice
<1>3. ASSUME NEW x \in Nat PROVE Read(keys, Append(h, x)) = Append(r, keys[x])
  <2> DEFINE g == Append(h, x)
             E == Elems(r) \cup {keys[x]}
  <2>1. DOMAIN g = 1..(Len(h) + 1) /\ g[Len(h) + 1] = x /\ \A i \in 1..Len(h) : g[i] = h[i]
    BY <1>1
  <2>2. r \in Seq(E) /\ Len(r) = Len(h)
    <3>1. r \in Seq(Elems(r))
      BY <1>2 DEF IsSlice
    <3>2. DOMAIN r = 1..Len(h)
      BY <1>1
    <3> HIDE DEF r
    <3>3. Len(r) = Len(h)
      BY <1>1, <3>1, <3>2
    <3> QED
      BY <3>1, <3>3
  <2>3. \A i \in 1..Len(h) : r[i] = keys[h[i]]
    BY <1>1
  <2> HIDE DEF r
  <2> DEFINE a == Append(r, keys[x])
  <2>4. /\ a = [i \in 1..(Len(h) + 1) |-> a[i]]
        /\ a[Len(h) + 1] = keys[x] /\ \A i \in 1..Len(h) : a[i] = r[i]
    BY <1>1, <2>2
  <2> HIDE DEF g, a
  <2>5. \A i \in 1..(Len(h) + 1) : a[i] = keys[g[i]]
    <3>1. \A i \in 1..Len(h) : a[i] = keys[g[i]]
      BY <2>1, <2>3, <2>4, Zenon
    <3>2. a[Len(h) + 1] = keys[g[Len(h) + 1]]
      BY <2>1, <2>4, Zenon
    <3>3. \A i \in 1..(Len(h) + 1) : i \in 1..Len(h) \/ i = Len(h) + 1
      BY <1>1
    <3> QED
      BY <3>1, <3>2, <3>3, Zenon
  <2>6. [i \in 1..(Len(h) + 1) |-> keys[g[i]]] = a
    BY <2>4, <2>5
  <2>7. Read(keys, g) = a
    BY <2>1, <2>6 DEF Read
  <2> QED
    BY <2>7 DEF a, g
<1>4. ASSUME NEW n \in Nat, NEW more, UpTo(h, n), \A x \in 1..n : more[x] = keys[x]
      PROVE  Read(more, h) = r
  BY <1>4 DEF Read, UpTo
<1> QED
  BY <1>2, <1>3, <1>4 DEF r

LEMMA HeardIs == \A n \in Calls : Heard(n) = Read(phone.keys, sess[n].heard)
BY DEF Heard, Read

(***************************************************************************)
(* What the keys decide.  A step that is not a key leaves the sessions as  *)
(* decided as they were.                                                   *)
(***************************************************************************)
Alike(n) ==
  /\ sess'[n].state = sess[n].state /\ sess'[n].buf = sess[n].buf
  /\ sess'[n].access = sess[n].access /\ sess'[n].pin = sess[n].pin
  /\ sess'[n].target = sess[n].target /\ sess'[n].side = sess[n].side
  /\ Heard(n)' = Heard(n)

\* Every session has done what the keys it heard ask for.
DigitsInv == \A n \in Calls : sess[n].state # "none" => AsTold(sess[n], Heard(n))

LEMMA DigitsInit == Init => DigitsInv
<1>1. Init => \A n \in Calls : sess[n] = NoSession
  BY DEF Init
<1>2. NoSession.state = "none"
  BY DEF NoSession
<1> QED
  BY <1>1, <1>2 DEF DigitsInv

LEMMA DigitsAlike == DigitsInv /\ (\A n \in Calls : Alike(n)) => DigitsInv'
<1>1. \A n \in Calls : Alike(n) /\ AsTold(sess[n], Heard(n)) => AsTold(sess'[n], Heard(n)')
  BY DEF Alike, AsTold, IsDecidedBy
<1> QED
  BY <1>1 DEF DigitsInv, Alike

\* A key that is heard by a session, or lost.
LEMMA KeyIsTaken ==
  ASSUME CallInv, KeySteps
  PROVE  \/ UNCHANGED <<phone, sess, entry, go, leg>>
         \/ /\ current \in Calls /\ UNCHANGED <<phone, leg>>
            /\ \A n \in Calls : n # current => sess'[n] = sess[n]
            /\ \E press \in Nat :
                 /\ sess'[current].heard = Append(sess[current].heard, press)
                 /\ KeyTaken(sess[current], sess'[current], phone.keys[press])
                 /\ KeyLeads(sess[current], sess'[current], phone.keys[press])
<1>1. CallerTypeOK
  BY DEF CallInv, TypeOK
<1>2. /\ UNCHANGED <<phone, leg>>
      /\ \/ UNCHANGED <<sess, entry, go>>
         \/ /\ current \in Calls
            /\ \E press \in Nat : handleIVRDigitLocked(press)
  <2>1. /\ info # <<>> => Head(info) \in Nat
        /\ events # <<>> => Head(events) \in Nat
        /\ last \in Nat
    BY Queue, KeyTypes
  <2> QED
    BY <1>1, <2>1, KeyMoves, Zenon
<1>3. ASSUME current \in Calls, NEW press \in Nat, handleIVRDigitLocked(press)
      PROVE  /\ \A n \in Calls : n # current => sess'[n] = sess[n]
             /\ sess'[current].heard = Append(sess[current].heard, press)
             /\ KeyTaken(sess[current], sess'[current], phone.keys[press])
             /\ KeyLeads(sess[current], sess'[current], phone.keys[press])
  <2>1. PICK t : /\ sess' = [sess EXCEPT ![current] = t]
                 /\ t.heard = Append(sess[current].heard, press)
                 /\ KeyTaken(sess[current], t, phone.keys[press])
                 /\ KeyLeads(sess[current], t, phone.keys[press])
    BY <1>1, <1>3, DigitIsTaken
  <2>2. sess'[current] = t /\ \A n \in Calls : n # current => sess'[n] = sess[n]
    BY <1>3, <2>1, CallNumbers
  <2> QED
    BY <2>1, <2>2
<1> QED
  BY <1>2, <1>3

LEMMA DigitsTaken == CallInv /\ DigitsInv /\ KeySteps => DigitsInv'
<1> SUFFICES ASSUME CallInv, DigitsInv, KeySteps PROVE DigitsInv'
  OBVIOUS
<1>1. CASE UNCHANGED <<phone, sess>>
  BY <1>1 DEF DigitsInv, Heard
<1>2. ASSUME current \in Calls, UNCHANGED phone, NEW press \in Nat,
             \A n \in Calls : n # current => sess'[n] = sess[n],
             sess'[current].heard = Append(sess[current].heard, press),
             KeyTaken(sess[current], sess'[current], phone.keys[press])
      PROVE  DigitsInv'
  <2> DEFINE t == sess'[current]
  <2>1. sess[current].heard \in Seq(Nat)
    BY <1>2, KeyTypes
  <2>2. ASSUME sess[current].state # "none" PROVE AsTold(t, Read(phone.keys, t.heard))
    <3> DEFINE read == Read(phone.keys, sess[current].heard)
    <3>1. AsTold(sess[current], read)
      BY <1>2, <2>2, HeardIs DEF DigitsInv
    <3>2. IsSlice(read) /\ Read(phone.keys, t.heard) = Append(read, phone.keys[press])
      BY <1>2, <2>1, ReadHolds
    <3> HIDE DEF read, t
    <3>3. AsTold(t, Append(read, phone.keys[press]))
      BY <1>2, <3>1, <3>2, ToldHolds DEF t
    <3> QED
      BY <3>2, <3>3
  <2>3. sess[current].state = "none" => t.state = "none"
    BY <1>2 DEF KeyTaken
  <2>4. \A n \in Calls : Heard(n)' = Read(phone.keys, sess'[n].heard)
    BY <1>2 DEF Heard, Read
  <2> QED
    BY <1>2, <2>2, <2>3, <2>4, HeardIs DEF DigitsInv
<1> QED
  BY <1>1, <1>2, KeyIsTaken

LEMMA PressAlike == CallInv /\ KeyInv /\ Press => \A n \in Calls : Alike(n)
<1> SUFFICES ASSUME CallInv, KeyInv, Press PROVE \A n \in Calls : Alike(n)
  OBVIOUS
<1> DEFINE n == Len(phone.keys)
<1>1. n \in Nat /\ phone \in Phone /\ Dialled \subseteq Seq(STRING)
  BY KeyTypes, IvrAssumption DEF CallInv, TypeOK, CallerTypeOK
<1>2. PICK keys \in Dialled : /\ Len(keys) = n + 1 /\ SubSeq(keys, 1, (n + 1) - 1) = phone.keys
                              /\ phone' = [phone EXCEPT !.keys = keys]
  BY Zenon DEF Press
<1>3. UNCHANGED sess /\ phone'.keys = keys
  BY <1>1, <1>2 DEF Press, tables, Phone
<1> HIDE DEF n
<1>4. \A x \in 1..n : keys[x] = phone.keys[x]
  <2>1. keys \in Seq(STRING) /\ (n + 1) - 1 = n
    BY <1>1, <1>2
  <2>2. \A i \in 1..n : keys[i] \in STRING
    BY <1>1, <1>2, <2>1
  <2>3. \A i \in 1..(n - 1 + 1) : SubSeq(keys, 1, n)[i] = keys[1 + i - 1]
    BY <1>1, <2>2, SubSeqProperties
  <2>4. \A i \in 1..n : i \in 1..(n - 1 + 1) /\ 1 + i - 1 = i
    BY <1>1
  <2>5. SubSeq(keys, 1, n) = phone.keys
    BY <1>2, <2>1
  <2> QED
    BY <2>3, <2>4, <2>5
<1>5. \A m \in Calls : Heard(m)' = Heard(m)
  <2> SUFFICES ASSUME NEW m \in Calls PROVE Heard(m)' = Heard(m)
    OBVIOUS
  <2>1. sess[m].heard \in Seq(Nat) /\ UpTo(sess[m].heard, n)
    BY KeyTypes DEF KeyInv, KeysInOrder, n
  <2>2. Read(keys, sess[m].heard) = Read(phone.keys, sess[m].heard)
    BY <1>1, <1>4, <2>1, ReadHolds
  <2>3. Heard(m)' = Read(keys, sess[m].heard)
    BY <1>3 DEF Heard, Read
  <2> QED
    BY <2>2, <2>3, HeardIs
<1> QED
  BY <1>3, <1>5 DEF Alike

LEMMA DigitsInvite == CallInv /\ DigitsInv /\ Invite => DigitsInv'
<1> SUFFICES ASSUME CallInv, DigitsInv, Invite PROVE DigitsInv'
  OBVIOUS
<1> DEFINE n == invites + 1
           o == phone.offer
           socket == IF o.audio THEN n ELSE NoSocket
           s == [NoSession EXCEPT !.state = "collectBridge", !.rtp = socket, !.dtmf = ViaRtp(o)]
<1>1. /\ sess' = [sess EXCEPT ![n] = s]
      /\ Takes(n, socket, o) \/ UNCHANGED phone
  BY DEF Invite
<1>2. phone'.keys = phone.keys
  BY <1>1 DEF Takes, CallInv, TypeOK, CallerTypeOK, Phone
<1>3. s.state = "collectBridge" /\ s.heard = <<>> /\ s.buf = <<>>
  BY DEF NoSession
<1> HIDE DEF s, n
<1>4. AsTold(s, <<>>)
  <2>1. /\ Hashes(<<>>) = {} /\ Len(<<>>) = 0 /\ IsSlice(<<>>) /\ Elems(<<>>) = {}
    BY DEF Hashes, IsSlice, Elems
  <2>2. Latest({}) = 0
    BY DEF Latest
  <2>3. {j \in Hashes(<<>>) : j < 1} = {}
    BY <2>1
  <2>4. SubSeq(<<>>, 0 + 1, 1 - 1) = <<>>
    BY SubSeqEmpty
  <2>5. Since(<<>>, 0 + 1) = <<>>
    <3>1. Since(<<>>, 1) = Select(SubSeq(<<>>, 0 + 1, 1 - 1), Digits)
      BY <2>2, <2>3 DEF Since
    <3>2. Select(<<>>, Digits) = <<>>
      BY <2>1, SelectNone
    <3>3. 0 + 1 = 1
      OBVIOUS
    <3> QED
      BY <2>4, <3>1, <3>2, <3>3, Zenon
  <2>6. IsDecidedBy(s, <<>>)
    BY <1>3, <2>1 DEF IsDecidedBy
  <2> QED
    BY <1>3, <2>1, <2>5, <2>6 DEF AsTold
<1>5. Read(phone.keys, <<>>) = <<>>
  BY DEF Read
<1>6. \A m \in Calls : Heard(m)' = Read(phone.keys, sess'[m].heard)
  BY <1>2 DEF Heard, Read
<1>7. \A m \in Calls : sess'[m] = IF m = n THEN s ELSE sess[m]
  BY <1>1, CallNumbers
<1> QED
  BY <1>3, <1>4, <1>5, <1>6, <1>7, HeardIs DEF DigitsInv

LEMMA ReinviteAlike == CallInv /\ Reinvite => \A n \in Calls : Alike(n)
<1> SUFFICES ASSUME CallInv, Reinvite PROVE \A n \in Calls : Alike(n)
  OBVIOUS
<1>1. phone'.keys = phone.keys
  BY ReinviteType DEF CallInv, TypeOK
<1>2. \A m \in Calls : sess[m] \in Session
  BY KeyTypes
<1>3. \A m \in Calls : \A f \in {"state", "buf", "access", "pin", "target", "side", "heard"} : sess'[m][f] = sess[m][f]
  <2>1. PICK o \in Offers : BridgeReinvite(o) \/ IvrReinvite(o)
    BY DEF Reinvite
  <2>2. CASE BridgeReinvite(o)
    BY <2>2 DEF BridgeReinvite
  <2>3. CASE IvrReinvite(o)
    <3> DEFINE new == invites + reinvites + 1
    <3>1. \/ UNCHANGED sess
          \/ sess' = [sess EXCEPT ![current].rtp = new, ![current].dtmf = o.events]
      BY <2>3 DEF IvrReinvite
    <3>2. sess \in [Calls -> Session]
      BY DEF CallInv, TypeOK, CallerTypeOK
    <3> HIDE DEF new
    <3>3. CASE sess' = [sess EXCEPT ![current].rtp = new, ![current].dtmf = o.events]
      BY <3>2, <3>3 DEF Session
    <3> QED
      BY <3>1, <3>3
  <2> QED
    BY <2>1, <2>2, <2>3
<1>4. \A m \in Calls : /\ sess'[m].state = sess[m].state /\ sess'[m].buf = sess[m].buf
                       /\ sess'[m].access = sess[m].access /\ sess'[m].pin = sess[m].pin
                       /\ sess'[m].target = sess[m].target /\ sess'[m].side = sess[m].side
                       /\ sess'[m].heard = sess[m].heard
  BY <1>3
<1>5. \A m \in Calls : Heard(m)' = Heard(m)
  BY <1>1, <1>4 DEF Heard
<1> QED
  BY <1>4, <1>5 DEF Alike

\* The steps that neither take a key nor begin a session.
OtherSteps ==
  \/ StoreSession \/ Press \/ InfoAgain \/ Reinvite \/ Cancel \/ Bye \/ CleanUp \/ Drop
  \/ RingSteps \/ StartRecording \/ Attach

LEMMA OthersAlike == CallInv /\ KeyInv /\ (OtherSteps \/ UNCHANGED vars) => \A n \in Calls : Alike(n)
<1> SUFFICES ASSUME CallInv, KeyInv, OtherSteps \/ UNCHANGED vars PROVE \A n \in Calls : Alike(n)
  OBVIOUS
<1>1. ASSUME UNCHANGED sess, phone'.keys = phone.keys PROVE \A n \in Calls : Alike(n)
  BY <1>1 DEF Alike, Heard
<1>2. CASE StoreSession \/ InfoAgain \/ Cancel \/ Bye \/ CleanUp \/ Drop
  BY <1>1, <1>2, ByeType, CancelType, InfoAgainType
     DEF StoreSession, CleanUp, Drop, caller, tables, CallInv, TypeOK
<1>3. CASE Press \/ Reinvite
  BY <1>3, PressAlike, ReinviteAlike
<1>4. CASE RingSteps
  BY <1>1, <1>4, RingLeavesCallerAlone DEF CallInv, caller, tables
<1>5. CASE StartRecording \/ Attach
  BY <1>1, <1>5 DEF StartRecording, Attach, caller, tables
<1>6. CASE UNCHANGED vars
  BY <1>1, <1>6 DEF vars, caller, tables
<1> QED
  BY <1>2, <1>3, <1>4, <1>5, <1>6 DEF OtherSteps

LEMMA DigitsStep == CallInv /\ KeyInv /\ DigitsInv /\ [Next]_vars => DigitsInv'
<1> SUFFICES ASSUME CallInv, KeyInv, DigitsInv, [Next]_vars PROVE DigitsInv'
  OBVIOUS
<1> QED
  BY DigitsAlike, DigitsTaken, DigitsInvite, OthersAlike DEF Next, OtherSteps, KeySteps, RingSteps

(***************************************************************************)
(* Where the caller gets, and who is rung for him.                         *)
(***************************************************************************)
\* A "9" after a value that lets the caller in.
Nines(keys) == \E i \in DOMAIN keys : keys[i] = "9" /\ \E h \in Fitting(keys) : h < i

LEMMA NinesStay ==
  ASSUME NEW keys, IsSlice(keys), NEW d
  PROVE  /\ Nines(keys) => Nines(Append(keys, d))
         /\ d = "9" /\ Fitting(keys) # {} => Nines(Append(keys, d))
<1> DEFINE more == Append(keys, d)
           n == Len(keys)
<1>1. n \in Nat /\ Hashes(keys) \subseteq 1..n /\ Fitting(keys) \subseteq Hashes(keys)
  BY KeyAppended DEF Fitting
<1>2. Fitting(keys) \subseteq Fitting(more)
  <2>1. Fitting(keys) # {} => Hashes(keys) # {}
    BY DEF Fitting
  <2> QED
    BY <2>1, KeyDecides
<1>3. /\ DOMAIN keys = 1..n /\ DOMAIN more = 1..(n + 1) /\ more[n + 1] = d
      /\ \A i \in 1..n : more[i] = keys[i]
  <2>1. keys \in Seq(Elems(keys) \cup {d}) /\ d \in Elems(keys) \cup {d}
    BY DEF IsSlice, Elems
  <2> QED
    BY <2>1
<1> HIDE DEF more, n
<1>4. Nines(keys) => Nines(more)
  BY <1>1, <1>2, <1>3 DEF Nines
<1>5. ASSUME d = "9", Fitting(keys) # {} PROVE Nines(more)
  <2>1. PICK h \in Fitting(keys) : TRUE
    BY <1>5
  <2>2. h < n + 1 /\ n + 1 \in DOMAIN more /\ h \in Fitting(more)
    BY <1>1, <1>2, <1>3
  <2> QED
    BY <1>3, <1>5, <2>2 DEF Nines
<1> QED
  BY <1>4, <1>5 DEF more

\* The bridge that lists the caller, and whoever a fanout has rung or is about to.
IsOut(p) == go[p].pc # "off"
PlacesInv ==
  /\ \A n \in Calls : IsSent(sess[n])
  /\ entry.up => entry.call \in Calls /\ IsListed
  /\ \A p \in Fanouts :
       /\ IsOut(p) => go[p].call \in Calls /\ AsksToRing(go[p].call)
       /\ go[p].pc \in {"off", "start"} => go[p].left = {}
       /\ IsOut(p) => go[p].left \subseteq RingOf(sess[go[p].call])
  /\ \A l \in Leg : leg[l] # "none" => IsOut(l[1]) /\ l[2] \in RingOf(sess[go[l[1]].call])

LEMMA PlacesInit == Init => PlacesInv
<1> SUFFICES ASSUME Init PROVE PlacesInv
  OBVIOUS
<1>1. /\ \A n \in Calls : sess[n].state = "none"
      /\ ~entry.up
      /\ \A p \in Fanouts : go[p].pc = "off" /\ go[p].left = {}
      /\ \A l \in Leg : leg[l] = "none"
  BY DEF Init, NoSession, NoEntry
<1> QED
  BY <1>1 DEF PlacesInv, IsSent, IsOut

\* What a session that has joined keeps.
Stays(n) ==
  sess[n].state \in {"joined", "joinedGroup"} =>
    /\ sess'[n].state = sess[n].state /\ sess'[n].access = sess[n].access
    /\ sess'[n].pin = sess[n].pin
    /\ sess'[n].target = sess[n].target /\ sess'[n].side = sess[n].side
    /\ Nines(Heard(n)) => Nines(Heard(n)')

LEMMA AlikeStays == ASSUME NEW n, Alike(n) PROVE Stays(n) /\ (IsSent(sess[n]) => IsSent(sess'[n]))
<1> QED
  BY DEF Alike, Stays, IsSent

\* A new fanout, of a session that asks for it.
IsAskedFor(p) ==
  /\ go[p].pc = "off" /\ go'[p].pc = "start" /\ go'[p].left = go[p].left
  /\ go'[p].call \in Calls /\ AsksToRing(go[p].call)'

LEMMA AskedFor ==
  ASSUME RingTypeOK, NEW n \in Calls, StartFanout(n), AsksToRing(n)'
  PROVE  \A p \in Fanouts : go'[p] = go[p] \/ IsAskedFor(p)
<1>1. PICK p \in Fanouts : go[p].pc = "off" /\ go' = [go EXCEPT ![p].pc = "start", ![p].call = n]
  BY DEF StartFanout
<1>2. \A q \in Fanouts : q # p => go'[q] = go[q]
  BY <1>1 DEF RingTypeOK
<1>3. go'[p].pc = "start" /\ go'[p].call = n /\ go'[p].left = go[p].left
  BY <1>1 DEF RingTypeOK, Fanout
<1>4. IsAskedFor(p)
  BY <1>1, <1>3 DEF IsAskedFor
<1> QED
  BY <1>2, <1>4

LEMMA PlacesKept ==
  ASSUME PlacesInv, UNCHANGED leg,
         \A n \in Calls : Stays(n) /\ IsSent(sess'[n]),
         \/ ~entry'.up
         \/ entry.up /\ entry'.target = entry.target /\ entry'.call = entry.call
         \/ entry'.call \in Calls /\ IsListed',
         \A p \in Fanouts : go'[p] = go[p] \/ IsAskedFor(p)
  PROVE  PlacesInv'
<1>1. \A n \in Calls : sess[n].state = "joinedGroup" => RingOf(sess'[n]) = RingOf(sess[n])
  BY DEF Stays, RingOf
<1>2. \A n \in Calls : AsksToRing(n) => AsksToRing(n)'
  BY DEF Stays, AsksToRing, Nines
<1>3. entry'.up => entry'.call \in Calls /\ IsListed'
  BY DEF PlacesInv, Stays, IsListed
<1>4. ASSUME NEW p \in Fanouts
      PROVE  /\ IsOut(p)' => go'[p].call \in Calls /\ AsksToRing(go[p].call)'
             /\ go'[p].pc \in {"off", "start"} => go'[p].left = {}
             /\ IsOut(p)' => go'[p].left \subseteq RingOf(sess'[go'[p].call])
             /\ IsOut(p) => IsOut(p)' /\ RingOf(sess'[go'[p].call]) = RingOf(sess[go[p].call])
  <2>1. CASE go'[p] = go[p]
    <3>1. IsOut(p)' <=> IsOut(p)
      BY <2>1 DEF IsOut
    <3>2. IsOut(p) => /\ go[p].call \in Calls /\ AsksToRing(go[p].call)
                      /\ sess[go[p].call].state = "joinedGroup"
      BY DEF PlacesInv, AsksToRing
    <3>3. IsOut(p) => AsksToRing(go[p].call)'
      BY <1>2, <2>1, <3>2
    <3>4. IsOut(p) => RingOf(sess'[go'[p].call]) = RingOf(sess[go[p].call])
      BY <1>1, <2>1, <3>2
    <3> QED
      BY <2>1, <3>1, <3>2, <3>3, <3>4 DEF PlacesInv
  <2>2. CASE IsAskedFor(p)
    BY <2>2 DEF IsAskedFor, IsOut, PlacesInv
  <2> QED
    BY <2>1, <2>2
<1>5. \A l \in Leg : leg'[l] # "none" => IsOut(l[1])' /\ l[2] \in RingOf(sess'[go'[l[1]].call])
  BY <1>4, LegParts DEF PlacesInv
<1> QED
  BY <1>3, <1>4, <1>5 DEF PlacesInv

LEMMA PlacesTaken == CallInv /\ DigitsInv /\ PlacesInv /\ KeySteps => PlacesInv'
<1> SUFFICES ASSUME CallInv, DigitsInv, PlacesInv, KeySteps PROVE PlacesInv'
  OBVIOUS
<1>1. CASE UNCHANGED <<phone, sess, entry, go, leg>>
  <2>1. \A n \in Calls : Alike(n)
    BY <1>1 DEF Alike, Heard
  <2>2. \A n \in Calls : Stays(n) /\ IsSent(sess'[n])
    BY <2>1, AlikeStays DEF PlacesInv
  <2> QED
    BY <1>1, <2>2, PlacesKept
<1>2. ASSUME NEW c \in Calls, c = current, UNCHANGED <<phone, leg>>, NEW press \in Nat,
             \A n \in Calls : n # c => sess'[n] = sess[n],
             sess'[c].heard = Append(sess[c].heard, press),
             KeyTaken(sess[c], sess'[c], phone.keys[press]),
             KeyLeads(sess[c], sess'[c], phone.keys[press])
      PROVE  PlacesInv'
  <2> DEFINE s == sess[c]
             t == sess'[c]
             d == phone.keys[press]
             keys == Heard(c)
             a == ivrAuthorizeAndResolveTarget(t.access, t.pin)
  <2>1. IsSlice(keys) /\ Heard(c)' = Append(keys, d)
    <3>1. s.heard \in Seq(Nat)
      BY <1>2, KeyTypes
    <3>2. Heard(c)' = Read(phone.keys, t.heard)
      BY <1>2 DEF Heard, Read
    <3> QED
      BY <1>2, <3>1, <3>2, HeardIs, ReadHolds
  <2>2. s.state = "joinedGroup" => Fitting(keys) # {}
    <3>1. s.state = "joinedGroup" => IsDecidedBy(s, keys)
      BY <1>2 DEF DigitsInv, AsTold
    <3> HIDE DEF s, keys
    <3> QED
      BY <3>1, DecidedIs
  <2>3. Nines(keys) => Nines(Heard(c)')
    BY <2>1, NinesStay
  <2>4. s.state = "joinedGroup" /\ d = "9" => Nines(Heard(c)')
    BY <2>1, <2>2, NinesStay
  <2>5. IsSent(s)
    BY <1>2 DEF PlacesInv
  <2>6. ASSUME NEW n \in Calls, n # c PROVE Stays(n) /\ IsSent(sess'[n])
    <3>1. sess'[n] = sess[n] /\ Heard(n)' = Heard(n)
      BY <1>2, <2>6 DEF Heard
    <3> QED
      BY <3>1 DEF Stays, PlacesInv
  <2> HIDE DEF s, t, d, keys
  <2>7. KeyLeads(s, t, d) /\ Stays(c) <=> KeyLeads(s, t, d) /\
          (s.state \in {"joined", "joinedGroup"} =>
             /\ t.state = s.state /\ t.access = s.access /\ t.pin = s.pin
             /\ t.target = s.target /\ t.side = s.side /\ (Nines(keys) => Nines(Heard(c)')))
    BY DEF Stays, s, t, keys
  <2>8. /\ \A n \in Calls : n # c => Stays(n) /\ IsSent(sess'[n])
        /\ Stays(c) /\ IsSent(t) =>
             \A n \in Calls : Stays(n) /\ IsSent(sess'[n])
    BY <2>6 DEF t
  <2>9. KeyLeads(s, t, d)
    BY <1>2 DEF s, t, d
  <2>10. AsksToRing(c)' <=> /\ t.state = "joinedGroup"
                            /\ Group(t.target).type = "mrd" => Nines(Heard(c)')
    <3>1. AsksToRing(c)' <=> /\ sess'[c].state = "joinedGroup"
                             /\ Group(sess'[c].target).type = "mrd" => Nines(Heard(c)')
      BY DEF AsksToRing, Nines
    <3> QED
      BY <3>1, Zenon DEF t
  <2>15. StartFanout(current) => StartFanout(c)
    BY <1>2 DEF StartFanout
  \* He was in already, or still tells what he dials.
  <2>11. CASE /\ t.state = s.state /\ t.access = s.access /\ t.pin = s.pin
              /\ t.target = s.target /\ t.side = s.side /\ entry' = entry
              /\ go' = go \/ (s.state = "joinedGroup" /\ d = "9" /\ StartFanout(current))
    <3>1. Stays(c) /\ IsSent(t)
      BY <2>3, <2>5, <2>7, <2>9, <2>11 DEF IsSent
    <3>2. \A p \in Fanouts : go'[p] = go[p] \/ IsAskedFor(p)
      <4>1. s.state = "joinedGroup" /\ d = "9" => AsksToRing(c)'
        BY <2>4, <2>10, <2>11
      <4> QED
        BY <2>11, <2>15, <4>1, AskedFor DEF CallInv, FanInv
    <3>3. UNCHANGED entry
      BY <2>11
    <3> QED
      BY <1>2, <2>8, <3>1, <3>2, <3>3, PlacesKept
  \* Nothing but the values told.
  <2>12. CASE /\ s.state \in {"collectBridge", "collectUser"} /\ t.state = "collectUser"
              /\ entry' = entry /\ go' = go
    <3>1. Stays(c) /\ IsSent(t)
      BY <2>7, <2>9, <2>12 DEF IsSent
    <3> QED
      BY <1>2, <2>8, <2>12, <3>1, PlacesKept
  \* The bridge.
  <2>13. CASE /\ s.state = "collectUser" /\ t.state = "joined" /\ a.kind = "bridge" /\ go' = go
              /\ entry'.target = a.id /\ entry'.call = current
    <3>1. Stays(c) /\ IsSent(t)
      BY <2>7, <2>9, <2>13 DEF IsSent
    <3>2. entry'.call \in Calls /\ IsListed'
      BY <1>2, <2>13 DEF IsListed, t
    <3> QED
      BY <1>2, <2>8, <2>13, <3>1, <3>2, PlacesKept
  \* The group.
  <2>14. CASE /\ s.state = "collectUser" /\ t.state = "joinedGroup" /\ a.kind = "group"
              /\ t.target = a.id /\ entry' = entry
              /\ go' = go \/ (Group(t.target).type # "mrd" /\ StartFanout(current))
    <3>1. Stays(c) /\ IsSent(t)
      BY <2>7, <2>9, <2>14 DEF IsSent
    <3>2. \A p \in Fanouts : go'[p] = go[p] \/ IsAskedFor(p)
      <4>1. Group(t.target).type # "mrd" => AsksToRing(c)'
        BY <2>10, <2>14
      <4> QED
        BY <2>14, <2>15, <4>1, AskedFor DEF CallInv, FanInv
    <3> QED
      BY <1>2, <2>8, <2>14, <3>1, <3>2, PlacesKept
  <2> QED
    BY <2>9, <2>11, <2>12, <2>13, <2>14, Zenon DEF KeyLeads
<1> QED
  BY <1>1, <1>2, KeyIsTaken

LEMMA PlacesInvite == CallInv /\ PlacesInv /\ Invite => PlacesInv'
<1> SUFFICES ASSUME CallInv, PlacesInv, Invite PROVE PlacesInv'
  OBVIOUS
<1>1. UNCHANGED <<entry, ringing>>
  BY DEF Invite
<1>2. /\ phone'.keys = phone.keys /\ invites' = invites + 1 /\ invites' \in Calls
      /\ \E s \in Session : sess' = [sess EXCEPT ![invites'] = s] /\ s.state = "collectBridge"
  BY InviteType DEF CallInv, TypeOK
<1>3. sess[invites'].state = "none"
  BY <1>2, CallNumbers DEF CallInv, Numbered
<1>4. \A n \in Calls : n # invites' => sess'[n] = sess[n]
  BY <1>2, CallNumbers
<1>5. sess'[invites'].state = "collectBridge"
  BY <1>2, CallNumbers
<1>6. ASSUME NEW n \in Calls PROVE Stays(n) /\ IsSent(sess'[n])
  <2>1. CASE n = invites'
    BY <1>3, <1>5, <2>1 DEF Stays, IsSent
  <2>2. CASE n # invites'
    <3>1. sess'[n] = sess[n] /\ Heard(n)' = Heard(n)
      BY <1>2, <1>4, <2>2 DEF Heard
    <3> QED
      BY <3>1 DEF Stays, PlacesInv
  <2> QED
    BY <2>1, <2>2
<1> QED
  BY <1>1, <1>6, PlacesKept DEF ringing

\* What the fanouts do to their rings: the first of them is the caller's far side.
LEMMA RingMoves ==
  ASSUME RingTypeOK, WinnerIsUp, RingSteps
  PROVE  /\ \A p \in Fanouts :
              /\ go'[p].call = go[p].call /\ (go'[p].pc = "off" <=> go[p].pc = "off")
              /\ go'[p].pc = "start" => go'[p] = go[p]
              /\ \/ go'[p].left \subseteq go[p].left
                 \/ go[p].pc = "start" /\ go'[p].left = RingOf(sess[go[p].call])
         /\ \A l \in Leg : \/ leg'[l] = "none"
                           \/ leg[l] # "none"
                           \/ go[l[1]].pc # "off" /\ l[2] \in go[l[1]].left
<1>1. \A p \in Fanouts : go[p] \in Fanout
  BY DEF RingTypeOK
<1>2. go \in [Fanouts -> Fanout] /\ leg \in [Leg -> LegState]
  BY DEF RingTypeOK
<1>3. ASSUME NEW p \in Fanouts, Begin(p) \/ Register(p)
      PROVE  /\ UNCHANGED leg
             /\ \A q \in Fanouts :
                  /\ go'[q].call = go[q].call /\ (go'[q].pc = "off" <=> go[q].pc = "off")
                  /\ go'[q].pc = "start" => go'[q] = go[q]
                  /\ \/ go'[q].left \subseteq go[q].left
                     \/ go[q].pc = "start" /\ go'[q].left = RingOf(sess[go[q].call])
  <2>1. CASE Begin(p)
    <3> DEFINE ring == RingOf(sess[go[p].call])
               pc == IF ring = {} THEN "done" ELSE "ring"
    <3>1. go[p].pc = "start" /\ UNCHANGED leg /\ go' = [go EXCEPT ![p].pc = pc, ![p].left = ring]
      BY <2>1 DEF Begin
    <3>2. pc \notin {"off", "start"}
      OBVIOUS
    <3> HIDE DEF ring, pc
    <3>3. go'[p].pc = pc /\ go'[p].left = ring /\ go'[p].call = go[p].call
      BY <1>1, <1>2, <3>1 DEF Fanout
    <3>4. \A q \in Fanouts : q # p => go'[q] = go[q]
      BY <1>2, <3>1
    <3> QED
      BY <3>1, <3>2, <3>3, <3>4 DEF ring
  <2>2. CASE Register(p)
    BY <1>1, <1>2, <2>2 DEF Register, Fanout
  <2> QED
    BY <1>3, <2>1, <2>2
<1>4. ASSUME NEW p \in Fanouts, Emit(p)
      PROVE  /\ \A q \in Fanouts :
                  /\ go'[q].call = go[q].call /\ (go'[q].pc = "off" <=> go[q].pc = "off")
                  /\ go'[q].pc = "start" => go'[q] = go[q]
                  /\ go'[q].left \subseteq go[q].left
             /\ \A l \in Leg : \/ leg'[l] = leg[l]
                               \/ go[l[1]].pc # "off" /\ l[2] \in go[l[1]].left
  <2>1. PICK e \in go[p].left :
          /\ go[p].pc = "ring"
          /\ \/ /\ go' = [go EXCEPT ![p].pc = "register", ![p].left = @ \ {e}, ![p].at = e]
                /\ leg' = [leg EXCEPT ![<<p, e>>] = "ringing"]
             \/ /\ go' = [go EXCEPT ![p].left = @ \ {e}]
                /\ UNCHANGED leg
    BY <1>4 DEF Emit
  <2>2. \A q \in Fanouts : q # p => go'[q] = go[q]
    BY <1>2, <2>1
  <2>3. /\ go'[p].call = go[p].call /\ go'[p].pc \in {"register", "ring"}
        /\ go'[p].left = go[p].left \ {e}
    BY <1>1, <1>2, <2>1 DEF Fanout
  <2>4. \A l \in Leg : leg'[l] = leg[l] \/ l = <<p, e>>
    BY <1>2, <2>1
  <2> QED
    BY <2>1, <2>2, <2>3, <2>4
<1>5. ASSUME \/ \E p \in Fanouts : Timeout(p) \/ CancelAll(p)
             \/ \E l \in Leg : Answer(l) \/ Win(l)
             \/ AckWinner \/ LookUpSession \/ Relay
      PROVE  UNCHANGED go /\ \A l \in Leg : leg'[l] = "none" \/ leg[l] # "none"
  <2>1. CASE \E p \in Fanouts : Timeout(p)
    BY <2>1 DEF Timeout
  <2>2. CASE \E p \in Fanouts : CancelAll(p)
    <3>1. UNCHANGED go /\ \E legs : leg' = Stopped(legs)
      BY <2>2 DEF CancelAll
    <3> QED
      BY <3>1 DEF Stopped
  <2>3. CASE \E l \in Leg : Answer(l)
    BY <1>2, <2>3 DEF Answer
  <2>4. CASE \E l \in Leg : Win(l)
    BY <2>4 DEF Win
  <2>5. CASE AckWinner
    <3>1. UNCHANGED go /\ leg[fan.winner] = "answered"
          /\ leg' = [Stopped(won.legs \ {fan.winner}) EXCEPT ![fan.winner] = "up"]
      BY <2>5 DEF AckWinner, WinnerIsUp
    <3>2. \A l \in Leg : l # fan.winner => leg'[l] = Stopped(won.legs \ {fan.winner})[l]
      BY <3>1 DEF Stopped
    <3> QED
      BY <3>1, <3>2 DEF Stopped
  <2>6. CASE LookUpSession \/ Relay
    BY <2>6 DEF LookUpSession, Relay
  <2> QED
    BY <1>5, <2>1, <2>2, <2>3, <2>4, <2>5, <2>6
<1> QED
  BY <1>3, <1>4, <1>5 DEF RingSteps

LEMMA PlacesRing == CallInv /\ PlacesInv /\ RingSteps => PlacesInv'
<1> SUFFICES ASSUME CallInv, PlacesInv, RingSteps PROVE PlacesInv'
  OBVIOUS
<1>1. UNCHANGED <<phone, sess, entry>>
  BY RingLeavesCallerAlone DEF CallInv, caller, tables
<1>2. \A n : (Heard(n)' = Heard(n)) /\ (AsksToRing(n)' <=> AsksToRing(n))
  <2>1. \A n : Heard(n)' = Heard(n)
    BY <1>1 DEF Heard
  <2> QED
    BY <1>1, <2>1 DEF AsksToRing
<1>3. IsListed' <=> IsListed
  BY <1>1 DEF IsListed
<1>4. /\ \A p \in Fanouts :
           /\ go'[p].call = go[p].call /\ (go'[p].pc = "off" <=> go[p].pc = "off")
           /\ go'[p].pc = "start" => go'[p] = go[p]
           /\ \/ go'[p].left \subseteq go[p].left
              \/ go[p].pc = "start" /\ go'[p].left = RingOf(sess[go[p].call])
      /\ \A l \in Leg : \/ leg'[l] = "none"
                        \/ leg[l] # "none"
                        \/ go[l[1]].pc # "off" /\ l[2] \in go[l[1]].left
  BY RingMoves DEF CallInv, FanInv
<1>5. ASSUME NEW p \in Fanouts
      PROVE  /\ IsOut(p)' <=> IsOut(p)
             /\ IsOut(p)' => go'[p].call \in Calls /\ AsksToRing(go[p].call)'
             /\ go'[p].pc \in {"off", "start"} => go'[p].left = {}
             /\ IsOut(p)' => go'[p].left \subseteq RingOf(sess[go[p].call])
  <2>1. IsOut(p)' <=> IsOut(p)
    BY <1>4 DEF IsOut
  <2>2. AsksToRing(go[p].call)' <=> AsksToRing(go[p].call)
    <3>1. go'[p].call = go[p].call
      BY <1>4
    <3> QED
      BY <1>1, <1>2, <3>1 DEF AsksToRing, Heard
  <2>3. go'[p].pc \in {"off", "start"} => go'[p].left = {}
    BY <1>4 DEF PlacesInv
  <2>4. IsOut(p) => go'[p].left \subseteq RingOf(sess[go[p].call])
    BY <1>4 DEF PlacesInv
  <2> QED
    BY <1>4, <2>1, <2>2, <2>3, <2>4 DEF PlacesInv
<1>6. \A l \in Leg : leg'[l] # "none" => IsOut(l[1])' /\ l[2] \in RingOf(sess'[go'[l[1]].call])
  <2> SUFFICES ASSUME NEW l \in Leg, leg'[l] # "none"
               PROVE  IsOut(l[1])' /\ l[2] \in RingOf(sess'[go'[l[1]].call])
    OBVIOUS
  <2>1. l[1] \in Fanouts
    BY LegParts
  <2>2. IsOut(l[1]) /\ l[2] \in RingOf(sess[go[l[1]].call])
    <3>1. CASE leg[l] # "none"
      BY <3>1 DEF PlacesInv
    <3>2. CASE go[l[1]].pc # "off" /\ l[2] \in go[l[1]].left
      BY <2>1, <3>2 DEF PlacesInv, IsOut
    <3> QED
      BY <1>4, <3>1, <3>2
  <2> QED
    BY <1>1, <1>4, <1>5, <2>1, <2>2
<1> QED
  BY <1>1, <1>3, <1>4, <1>5, <1>6 DEF PlacesInv

LEMMA PlacesStep == CallInv /\ KeyInv /\ DigitsInv /\ PlacesInv /\ [Next]_vars => PlacesInv'
<1> SUFFICES ASSUME CallInv, KeyInv, DigitsInv, PlacesInv, [Next]_vars PROVE PlacesInv'
  OBVIOUS
<1>1. CASE OtherSteps \/ UNCHANGED vars
  <2>1. CASE RingSteps
    BY <2>1, PlacesRing
  <2>2. ASSUME ~RingSteps PROVE PlacesInv'
    <3>1. \A n \in Calls : Stays(n) /\ IsSent(sess'[n])
      BY <1>1, OthersAlike, AlikeStays DEF PlacesInv
    <3>2. /\ UNCHANGED <<go, leg>>
          /\ \/ UNCHANGED entry
             \/ ~entry'.up
             \/ entry.up /\ entry'.target = entry.target /\ entry'.call = entry.call
      <4>1. CASE Reinvite
        <5>1. UNCHANGED <<go, leg>>
          BY <4>1 DEF Reinvite, ringing
        <5>2. PICK o \in Offers : BridgeReinvite(o) \/ IvrReinvite(o)
          BY <4>1 DEF Reinvite
        <5>3. \/ UNCHANGED entry
              \/ entry.up /\ \E rtp : entry' = [entry EXCEPT !.rtp = rtp]
          BY <5>2 DEF BridgeReinvite, IvrReinvite
        <5>4. entry \in Entry
          BY CallNumbers
        <5> QED
          BY <5>1, <5>3, <5>4 DEF Entry
      <4>2. CASE StoreSession \/ Press \/ InfoAgain \/ Cancel \/ Bye \/ CleanUp \/ Drop
        <5>1. ~NoEntry.up
          BY DEF NoEntry
        <5>2. CASE StoreSession
          BY <5>2 DEF StoreSession, ringing
        <5>3. CASE Press \/ InfoAgain
          BY <5>3 DEF Press, InfoAgain, tables, ringing
        <5>4. CASE Cancel \/ Bye
          BY <5>4 DEF Cancel, Bye, ringing
        <5>5. CASE CleanUp \/ Drop
          BY <5>1, <5>5 DEF CleanUp, Drop, ringing
        <5> QED
          BY <4>2, <5>2, <5>3, <5>4, <5>5
      <4>3. CASE StartRecording \/ Attach
        BY <4>3 DEF StartRecording, Attach, tables, ringing
      <4>4. CASE UNCHANGED vars
        BY <4>4 DEF vars, tables, ringing
      <4> QED
        BY <1>1, <2>2, <4>1, <4>2, <4>3, <4>4 DEF OtherSteps
    <3>3. entry' = entry => ~entry'.up \/ (entry.up /\ entry'.target = entry.target
                                             /\ entry'.call = entry.call)
      OBVIOUS
    <3>4. \A p \in Fanouts : go'[p] = go[p]
      BY <3>2
    <3> QED
      BY <3>1, <3>2, <3>3, <3>4, PlacesKept
  <2> QED
    BY <2>1, <2>2
<1>2. CASE Invite
  BY <1>2, PlacesInvite
<1>3. CASE KeySteps
  BY <1>3, PlacesTaken
<1> QED
  BY <1>1, <1>2, <1>3 DEF Next, OtherSteps, KeySteps, RingSteps

\* The keys that are heard alone decide where the caller gets, whom he has rung and
\* not before when, by whichever way they come, however often, however the media are
\* renegotiated and whatever the fanout does beside (handleIVRDigitLocked,
\* startIVRConferenceFanout).
THEOREM KeysDecideHolds == Spec => []KeysDecide
<1>1. Init => KeyInv /\ EntryIsAside /\ DigitsInv /\ PlacesInv
  BY KeyInit, DigitsInit, PlacesInit
<1>2. CallInv /\ KeyInv /\ EntryIsAside /\ DigitsInv /\ PlacesInv /\ [Next]_vars
      => KeyInv' /\ EntryIsAside' /\ DigitsInv' /\ PlacesInv'
  BY KeyStep, DigitsStep, PlacesStep
<1>3. DigitsInv /\ PlacesInv => KeysDecide
  BY DEF DigitsInv, PlacesInv, KeysDecide, AsTold, IsOut
<1> QED
  BY <1>1, <1>2, <1>3, CallInvHolds, PTL DEF Spec
=============================================================================
