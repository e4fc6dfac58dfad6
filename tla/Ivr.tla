-------------------------------- MODULE Ivr --------------------------------
(***************************************************************************)
(* A caller on the IVR entry (internal/sip/server.go): the INVITE that is  *)
(* answered at once, the digits that come by SIP INFO and by RTP event,    *)
(* the authorisation by access code and PIN, the bridge or conference      *)
(* group he joins, and the fanout to the group's far side with its own     *)
(* session table, ring timer and winner.                                   *)
(*                                                                         *)
(* One caller key.  The read loop handles requests and responses of UDP    *)
(* legs one at a time; RTP receivers, the readers of TLS legs, the fanout  *)
(* goroutines, the ring timers and the starters of the recording run       *)
(* beside it.  One step is one critical section of sessionMu, or what is   *)
(* done between two of them.                                               *)
(***************************************************************************)
EXTENDS Naturals, FiniteSets, Slices

CONSTANTS
  Bridges, Groups, Users,  \* the configuration: sequences, in its order
  Caller,                  \* user in the caller's From
  TlsEndpoints,            \* endpoints reached over a TLS trunk
  Recording,               \* recording is configured
  Offers,                  \* what the caller's phone may offer
  Dialled,                 \* what callers press: sequences of keys, with their prefixes
  MaxPending,              \* bound: keys underway at a time
  MaxInvites,              \* bound: the INVITE, retransmissions of it, re-INVITEs
  MaxFanouts,              \* bound: fanout goroutines
  Repeatable               \* bound: presses that may come in twice

Calls == 1..MaxInvites
NoCall == 0
Sockets == 1..MaxInvites
NoSocket == 0
Fanouts == 1..MaxFanouts
Endpoint == UNION {{g.sideA[i] : i \in DOMAIN g.sideA} : g \in {Groups[i] : i \in DOMAIN Groups}}
       \cup UNION {{g.sideB[i] : i \in DOMAIN g.sideB} : g \in {Groups[i] : i \in DOMAIN Groups}}
Leg == Fanouts \X Endpoint
NoLeg == <<>>

ASSUME IvrAssumption ==
  /\ Offers \subseteq [audio : BOOLEAN, events : BOOLEAN]
  /\ Dialled \subseteq Seq(STRING)
  /\ <<>> \in Dialled /\ \A d \in Dialled \ {<<>>} : SubSeq(d, 1, Len(d) - 1) \in Dialled
  /\ TlsEndpoints \subseteq Endpoint
  /\ Recording \in BOOLEAN
  /\ MaxPending \in Nat
  /\ {MaxInvites, MaxFanouts} \subseteq Nat \ {0}

VARIABLES
  phone,    \* the caller: keys pressed, what was negotiated, whether he hung up
  info,     \* presses underway by INFO, oldest first
  events,   \* presses underway as RTP events
  last,     \* the press the phone's RTP receiver decoded last
  again,    \* presses that came in twice
  loop,     \* what the read loop is in the middle of
  invites, reinvites,
  sess,     \* every ivrSession object
  current,  \* s.ivrSessions[key]
  entry,    \* the caller's entry in s.bridgeCalls
  sockets,  \* open RTP sockets of the caller
  fan,      \* s.ivrConfSessions["ivrconf|" + key]
  leg,      \* what each called endpoint does
  legRtp,   \* legs with an open RTP socket
  go,       \* the fanout goroutines
  timer,    \* the ring timers
  won,      \* the handler of the winning 2xx
  rec       \* the recording of the conference
caller == <<phone, info, events, last, again>>
tables == <<invites, reinvites, sess, current, entry, sockets>>
ringing == <<fan, leg, legRtp, go, timer, won>>
vars == <<caller, loop, tables, ringing, rec>>

Digits == {"0", "1", "2", "3", "4", "5", "6", "7", "8", "9"}
NoLoop == [at |-> "idle", call |-> NoCall]
NoSession == [state |-> "none", buf |-> <<>>, access |-> <<>>, pin |-> <<>>, target |-> "",
              side |-> "", rtp |-> NoSocket, dtmf |-> FALSE, heard |-> <<>>]
NoEntry == [up |-> FALSE, target |-> "", rtp |-> NoSocket, call |-> NoCall]
NoFan == [up |-> FALSE, legs |-> {}, winner |-> NoLeg, terminated |-> FALSE, cap |-> "none"]

Init ==
  /\ phone \in [keys : {<<>>}, call : {NoCall}, rtp : {NoSocket}, events : {FALSE}, decoded : {FALSE},
                hungUp : {FALSE}, offer : Offers]
  /\ info = <<>> /\ events = <<>> /\ last = 0 /\ again = {} /\ loop = NoLoop
  /\ invites = 0 /\ reinvites = 0
  /\ sess = [n \in Calls |-> NoSession] /\ current = NoCall
  /\ entry = NoEntry /\ sockets = {}
  /\ fan = NoFan /\ leg = [l \in Leg |-> "none"] /\ legRtp = {}
  /\ go = [p \in Fanouts |-> [pc |-> "off", call |-> NoCall, left |-> {}, at |-> ""]]
  /\ timer = [p \in Fanouts |-> [pc |-> "off", legs |-> {}]]
  /\ won = [pc |-> "off", legs |-> {}, call |-> NoCall]
  /\ rec = [starters |-> 0, on |-> FALSE, fwd |-> {}]

\* Digits come by RTP when G.711 and telephone events are agreed.
ViaRtp(o) == o.audio /\ o.events

IsTls(l) == l[2] \in TlsEndpoints
-----------------------------------------------------------------------------
(***************************************************************************)
(* Authorisation                                                           *)
(***************************************************************************)
Denied == [kind |-> "none", id |-> ""]

\* The access code of a bridge goes before that of a group; the first user with
\* the PIN decides, whoever else has it.
ivrAuthorizeAndResolveTarget(access, pin) ==
  LET Dials(x) == x.ddi /\ x.number = access
      HasPin(u) == u.pin = pin
      Resolved == IF First(Bridges, Dials) # {}
                  THEN {[kind |-> "bridge", id |-> b.id] : b \in First(Bridges, Dials)}
                  ELSE {[kind |-> "group", id |-> g.id] : g \in First(Groups, Dials)}
      allowed == {t \in Resolved : \E u \in First(Users, HasPin) : t.id \in u.allowed}
  IN IF access = <<>> \/ pin = <<>> \/ allowed = {} THEN Denied
     ELSE CHOOSE t \in allowed : TRUE

Group(id) == CHOOSE g \in Elems(Groups) : g.id = id
callerSide(g) == IF Caller \in Elems(g.sideB) THEN "B" ELSE "A"
\* A hoot rings both sides, the caller's own endpoint included.
RingOf(s) ==
  LET g == Group(s.target)
  IN IF g.type = "hoot" THEN Elems(g.sideA) \cup Elems(g.sideB)
     ELSE IF s.side = "A" THEN Elems(g.sideB) ELSE Elems(g.sideA)
-----------------------------------------------------------------------------
(***************************************************************************)
(* Digits                                                                  *)
(***************************************************************************)
StartFanout(n) ==
  \E p \in Fanouts :
    /\ go[p].pc = "off" /\ \A q \in 1..(p - 1) : go[q].pc # "off"
    /\ go' = [go EXCEPT ![p].pc = "start", ![p].call = n]

\* A joined caller may only ring the far side of an MRD group.
InCall(s, d) ==
  /\ s.state = "joinedGroup"
  /\ sess' = [sess EXCEPT ![current] = s]
  /\ IF d = "9" /\ Group(s.target).type = "mrd" THEN StartFanout(current) ELSE UNCHANGED go
  /\ UNCHANGED <<current, entry, rec>>

Collect(s, d) ==
  /\ s.state # "joinedGroup" /\ d # "#"
  /\ sess' = [sess EXCEPT ![current] =
                IF d \in Digits THEN [s EXCEPT !.buf = Append(@, d)] ELSE s]
  /\ UNCHANGED <<current, entry, rec, go>>

MutCommitAccess(s, d) ==
  /\ s.state = "collectBridge" /\ d = "#"
  /\ sess' = [sess EXCEPT ![current] = [s EXCEPT !.access = s.buf, !.state = "collectUser"]]
  /\ UNCHANGED <<current, entry, rec, go>>

CommitAccess(s, d) ==
  /\ s.state = "collectBridge" /\ d = "#"
  /\ sess' = [sess EXCEPT ![current] = [s EXCEPT !.access = s.buf, !.buf = <<>>,
                                                 !.state = "collectUser"]]
  /\ UNCHANGED <<current, entry, rec, go>>

\* The access code stays when the PIN is refused.
CommitUser(s, d) ==
  LET t == ivrAuthorizeAndResolveTarget(s.access, s.buf)
      s1 == [s EXCEPT !.pin = s.buf, !.buf = <<>>]
      g == Group(t.id)
  IN /\ s.state = "collectUser" /\ d = "#"
     /\ \/ /\ t = Denied
           /\ sess' = [sess EXCEPT ![current] = s1]
           /\ UNCHANGED <<current, entry, rec, go>>
        \/ /\ t.kind = "bridge"
           /\ entry' = [up |-> TRUE, target |-> t.id, rtp |-> s.rtp, call |-> current]
           /\ sess' = [sess EXCEPT ![current] = [s1 EXCEPT !.state = "joined"]]
           /\ current' = NoCall
           /\ UNCHANGED <<rec, go>>
        \/ /\ t.kind = "group"
           /\ sess' = [sess EXCEPT ![current] = [s1 EXCEPT !.state = "joinedGroup",
                         !.target = t.id, !.side = callerSide(g)]]
           /\ rec' = [rec EXCEPT !.starters = @ + 1]
           /\ IF g.type = "mrd" THEN UNCHANGED go ELSE StartFanout(current)
           /\ UNCHANGED <<current, entry>>

handleIVRDigitLocked(press) ==
  LET s == [sess[current] EXCEPT !.heard = Append(@, press)]
      d == phone.keys[press]
  IN InCall(s, d) \/ Collect(s, d) \/ CommitAccess(s, d) \/ CommitUser(s, d)

Lost == UNCHANGED <<sess, current, entry, rec, go>>

Hear(press) == IF current = NoCall THEN Lost ELSE handleIVRDigitLocked(press)

MutInfo ==
  /\ loop.at = "idle" /\ info # <<>>
  /\ info' = Tail(info)
  /\ Hear(Head(info))
  /\ UNCHANGED <<phone, events, last, again, loop, invites, reinvites, sockets, fan, leg,
                 legRtp, timer, won>>

\* handleInboundInfo: digits by INFO count only without RTP events, and every
\* INFO counts, a repeated one too.
Info ==
  /\ loop.at = "idle" /\ info # <<>>
  /\ info' = Tail(info)
  /\ IF current # NoCall /\ sess[current].dtmf THEN Lost ELSE Hear(Head(info))
  /\ UNCHANGED <<phone, events, last, again, loop, invites, reinvites, sockets, fan, leg,
                 legRtp, timer, won>>

\* The receiver of the socket the phone sends to decodes an end packet; its
\* callback looks the session up by the caller's key.
Decodes == phone.rtp \in sockets /\ phone.decoded
\* decodeTelephoneEvent compares events, not presses.
SameEvent(press) == last # 0 /\ phone.keys[last] = phone.keys[press]

\* The first end packet of a press.  Within 150 ms of one with the same event it
\* is dropped.
RtpDigit ==
  /\ events # <<>>
  /\ events' = Tail(events)
  /\ LET press == Head(events)
     IN \/ (Decodes => SameEvent(press)) /\ Lost /\ UNCHANGED last
        \/ Decodes /\ last' = press /\ Hear(press)
  /\ UNCHANGED <<phone, info, again, loop, invites, reinvites, sockets, fan, leg, legRtp,
                 timer, won>>

\* A press comes in a second time.
Again(press) ==
  /\ press \in Repeatable \ again
  /\ again' = again \cup {press}

\* The 150 ms are gone for good.
MutRtpAgain ==
  /\ Decodes /\ last # 0 /\ current # NoCall
  /\ handleIVRDigitLocked(last)
  /\ UNCHANGED <<phone, info, events, last, again, loop, invites, reinvites, sockets, fan, leg,
                 legRtp, timer, won>>

\* A further end packet of the press decoded last.  Within the 150 ms nothing
\* happens; after them it counts like a press.  One that nobody hears is left out.
RtpAgain ==
  /\ Decodes /\ last # 0 /\ current # NoCall /\ Again(last)
  /\ handleIVRDigitLocked(last)
  /\ UNCHANGED <<phone, info, events, last, loop, invites, reinvites, sockets, fan, leg,
                 legRtp, timer, won>>

\* The phone sends the INFO of its last press again: the 200 did not arrive.  One
\* that nobody will hear is left out.
InfoAgain ==
  /\ phone.keys # <<>> /\ ~phone.hungUp /\ Len(info) < MaxPending
  /\ current # NoCall /\ ~sess[current].dtmf
  /\ Again(Len(phone.keys))
  /\ info' = Append(info, Len(phone.keys))
  /\ UNCHANGED <<phone, events, last, loop, tables, ringing, rec>>

\* The phone takes the socket and the To tag of an answer it gets.
Takes(n, socket, o) ==
  phone' = [phone EXCEPT !.call = n, !.rtp = socket, !.events = ViaRtp(o),
                         !.decoded = ViaRtp(o)]

\* By INFO, and by RTP event too where that is negotiated.
Press ==
  /\ invites > 0 /\ ~phone.hungUp
  /\ Len(info) < MaxPending /\ Len(events) < MaxPending
  /\ \E keys \in Dialled :
       LET i == Len(phone.keys) + 1
       IN /\ Len(keys) = i /\ SubSeq(keys, 1, i - 1) = phone.keys
          /\ phone' = [phone EXCEPT !.keys = keys]
          /\ info' = Append(info, i)
          /\ events' = IF phone.events THEN Append(events, i) ELSE events
  /\ UNCHANGED <<last, again, loop, tables, ringing, rec>>
-----------------------------------------------------------------------------
(***************************************************************************)
(* The caller's dialog                                                     *)
(***************************************************************************)
\* The INVITE is answered, and the receiver runs, before the session is stored.
\* A retransmission is a new call to the server: it replaces the session.  None
\* is delayed past the first key or a re-INVITE.
Invite ==
  /\ loop.at = "idle" /\ invites < MaxInvites /\ ~phone.hungUp
  /\ reinvites = 0 /\ phone.keys = <<>>
  /\ LET n == invites + 1
         o == phone.offer
         socket == IF o.audio THEN n ELSE NoSocket
     IN /\ invites' = n
        /\ sess' = [sess EXCEPT ![n] = [NoSession EXCEPT !.state = "collectBridge",
                      !.rtp = socket, !.dtmf = ViaRtp(o)]]
        /\ sockets' = sockets \cup ({socket} \ {NoSocket})
        /\ \/ Takes(n, socket, o)
           \/ n > 1 /\ UNCHANGED phone
        /\ loop' = [at |-> "invite", call |-> n]
  /\ UNCHANGED <<info, events, last, again, reinvites, current, entry, ringing, rec>>
StoreSession ==
  /\ loop.at = "invite" /\ loop' = NoLoop
  /\ current' = loop.call
  /\ UNCHANGED <<caller, invites, reinvites, sess, entry, sockets, ringing, rec>>

\* tryHandleBridgeReinvite comes first: an entry without RTP is given it, and
\* one that is offered no audio loses it.
BridgeReinvite(o) ==
  LET new == invites + reinvites + 1
      rtp == IF ~o.audio THEN NoSocket ELSE IF entry.rtp # NoSocket THEN entry.rtp ELSE new
  IN /\ entry.up
     /\ IF phone.call # entry.call THEN UNCHANGED <<entry, sockets, phone, last>>
        ELSE /\ entry' = [entry EXCEPT !.rtp = rtp]
             /\ sockets' = (sockets \ ({entry.rtp} \ {rtp})) \cup ({rtp} \ {NoSocket})
             /\ phone' = [phone EXCEPT !.rtp = rtp, !.events = ViaRtp(o),
                                       !.decoded = @ /\ rtp = phone.rtp]
             /\ last' = IF rtp = phone.rtp THEN last ELSE 0
     /\ UNCHANGED sess

\* tryHandleIVRReinvite: a session that has RTP keeps its socket and its
\* decoder, whatever is offered.
IvrReinvite(o) ==
  LET s == sess[current]
      new == invites + reinvites + 1
      starts == o.audio /\ s.rtp = NoSocket
  IN /\ ~entry.up /\ current # NoCall
     /\ IF phone.call # current THEN UNCHANGED <<sess, sockets, phone, last>>
        ELSE /\ sess' = IF starts THEN [sess EXCEPT ![current].rtp = new,
                                                    ![current].dtmf = o.events] ELSE sess
             /\ sockets' = IF starts THEN sockets \cup {new} ELSE sockets
             /\ phone' = [phone EXCEPT !.rtp = sess'[current].rtp,
                             !.events = ViaRtp(o),
                             !.decoded = IF starts THEN o.events ELSE @]
             /\ last' = IF starts THEN 0 ELSE last
     /\ UNCHANGED entry

Reinvite ==
  /\ loop.at = "idle" /\ invites > 0 /\ ~phone.hungUp
  /\ invites + reinvites < MaxInvites /\ reinvites' = reinvites + 1
  /\ \E o \in Offers : BridgeReinvite(o) \/ IvrReinvite(o)
  /\ UNCHANGED <<info, events, again, loop, invites, current, ringing, rec>>

\* handleInboundBye: the tables first, then what it found there.
Bye ==
  /\ loop.at = "idle" /\ invites > 0 /\ ~phone.hungUp
  /\ phone' = [phone EXCEPT !.hungUp = TRUE]
  /\ loop' = [at |-> "bye", call |-> current]
  /\ current' = NoCall
  /\ fan' = [fan EXCEPT !.terminated = @ \/ fan.up]
  /\ UNCHANGED <<info, events, last, again, invites, reinvites, sess, entry, sockets, leg,
                 legRtp, go, timer, won, rec>>

\* handleInboundCancel: the phone gives up before it has seen the 200.  The
\* fanout, had one begun, would not be stopped.
Cancel ==
  /\ loop.at = "idle" /\ invites > 0 /\ ~phone.hungUp
  /\ reinvites = 0 /\ phone.keys = <<>>
  /\ loop' = [at |-> "cancel", call |-> current]
  /\ current' = NoCall
  /\ UNCHANGED <<caller, invites, reinvites, sess, entry, sockets, ringing, rec>>

MutCleanUp ==
  /\ loop.at \in {"bye", "cancel"} /\ loop' = NoLoop
  /\ sockets' = sockets \ (IF loop.call = NoCall THEN {} ELSE {sess[loop.call].rtp})
  /\ entry' = NoEntry
  /\ rec' = [rec EXCEPT !.on = FALSE]
  /\ UNCHANGED <<caller, invites, reinvites, sess, current, ringing>>

\* For a BYE the capture; then the forwarding, the RTP sockets, the recording,
\* and cleanupBridgeCallByKey.
CleanUp ==
  /\ loop.at \in {"bye", "cancel"} /\ loop' = NoLoop
  /\ fan' = [fan EXCEPT !.cap = IF @ = "open" /\ loop.at = "bye" THEN "closed" ELSE @]
  /\ sockets' = sockets \ ({entry.rtp} \cup
                           (IF loop.call = NoCall THEN {} ELSE {sess[loop.call].rtp}))
  /\ entry' = NoEntry
  /\ rec' = [rec EXCEPT !.on = FALSE, !.fwd = @ \ {loop.call}]
  /\ UNCHANGED <<caller, invites, reinvites, sess, current, leg, legRtp, go, timer, won>>

\* DropBridgeCall: a request of the API takes a caller out of his bridge, beside
\* whatever the read loop is doing.  His own BYE may cross the one it sends him.
Drop ==
  /\ entry.up
  /\ sockets' = sockets \ {entry.rtp}
  /\ entry' = NoEntry
  /\ UNCHANGED <<caller, loop, invites, reinvites, sess, current, ringing, rec>>
-----------------------------------------------------------------------------
(***************************************************************************)
(* The fanout                                                              *)
(***************************************************************************)
\* Up to the ring: a fanout of the key that exists is used again, also when it
\* is terminated or won, and the timer runs before anybody is rung.
Begin(p) ==
  /\ go[p].pc = "start"
  /\ LET ring == RingOf(sess[go[p].call])
     IN /\ go' = [go EXCEPT ![p].pc = IF ring = {} THEN "done" ELSE "ring", ![p].left = ring]
        /\ fan' = IF ring = {} THEN fan ELSE [fan EXCEPT !.up = TRUE]
        /\ timer' = IF ring = {} THEN timer ELSE [timer EXCEPT ![p].pc = "armed"]
  /\ UNCHANGED <<caller, loop, tables, leg, legRtp, won, rec>>

\* emitOutboundInvite of the next endpoint, in any order (Routing has it).
Emit(p) ==
  /\ go[p].pc = "ring"
  /\ \E e \in go[p].left :
       \/ /\ go' = [go EXCEPT ![p].pc = "register", ![p].left = @ \ {e}, ![p].at = e]
          /\ leg' = [leg EXCEPT ![<<p, e>>] = "ringing"]
          /\ legRtp' = legRtp \cup {<<p, e>>}
       \/ /\ go' = [go EXCEPT ![p].left = @ \ {e}]
          /\ UNCHANGED <<leg, legRtp>>
  /\ UNCHANGED <<caller, loop, tables, fan, timer, won, rec>>
Register(p) ==
  /\ go[p].pc = "register"
  /\ go' = [go EXCEPT ![p].pc = "ring", ![p].at = ""]
  /\ fan' = [fan EXCEPT !.legs = @ \cup {<<p, go[p].at>>}]
  /\ UNCHANGED <<caller, loop, tables, leg, legRtp, timer, won, rec>>

Stopped(legs) == [l \in Leg |-> IF l \in legs /\ leg[l] = "ringing" THEN "cancelled" ELSE leg[l]]

MutCancelAll(p) ==
  /\ timer[p].pc = "cancel"
  /\ timer' = [timer EXCEPT ![p] = [pc |-> "done", legs |-> {}]]
  /\ legRtp' = legRtp \ timer[p].legs
  /\ UNCHANGED <<caller, loop, tables, fan, leg, go, won, rec>>

\* enforceIVRConfRingTimeout
Timeout(p) ==
  /\ timer[p].pc = "armed"
  /\ LET late == fan.terminated \/ fan.winner # NoLeg
     IN /\ timer' = [timer EXCEPT ![p] = IF late THEN [pc |-> "done", legs |-> {}]
                                         ELSE [pc |-> "cancel", legs |-> fan.legs]]
        /\ fan' = IF late THEN fan ELSE [fan EXCEPT !.terminated = TRUE]
  /\ UNCHANGED <<caller, loop, tables, leg, legRtp, go, won, rec>>
CancelAll(p) ==
  /\ timer[p].pc = "cancel"
  /\ timer' = [timer EXCEPT ![p] = [pc |-> "done", legs |-> {}]]
  /\ leg' = Stopped(timer[p].legs)
  /\ legRtp' = legRtp \ timer[p].legs
  /\ UNCHANGED <<caller, loop, tables, fan, go, won, rec>>

\* A called endpoint answers, and repeats its 200 until it is acked, or refuses.
Answer(l) ==
  /\ leg[l] = "ringing"
  /\ \E s \in {"answered", "refused"} : leg' = [leg EXCEPT ![l] = s]
  /\ UNCHANGED <<caller, loop, tables, fan, legRtp, go, timer, won, rec>>
-----------------------------------------------------------------------------
(***************************************************************************)
(* The answer (handleResponse, the ivrconf branch): on the read loop, or   *)
(* on the reader of a TLS leg.  Answers of legs not registered yet, of a   *)
(* terminated fanout and after the first are ignored.                      *)
(***************************************************************************)
Holds(l) == IF IsTls(l) THEN loop ELSE [loop EXCEPT !.at = "won"]
MutWin(l) ==
  /\ leg[l] = "answered" /\ l \in fan.legs /\ ~fan.terminated
  /\ won.pc \in {"off", "done"} /\ (IsTls(l) \/ loop.at = "idle")
  /\ fan' = [fan EXCEPT !.winner = l]
  /\ won' = [won EXCEPT !.pc = "ack", !.legs = fan.legs]
  /\ loop' = Holds(l)
  /\ UNCHANGED <<caller, tables, leg, legRtp, go, timer, rec>>

Win(l) ==
  /\ leg[l] = "answered" /\ l \in fan.legs /\ ~fan.terminated /\ fan.winner = NoLeg
  /\ IsTls(l) \/ loop.at = "idle"
  /\ fan' = [fan EXCEPT !.winner = l]
  /\ won' = [won EXCEPT !.pc = "ack", !.legs = fan.legs]
  /\ loop' = Holds(l)
  /\ UNCHANGED <<caller, tables, leg, legRtp, go, timer, rec>>
AckWinner ==
  /\ won.pc = "ack" /\ won' = [won EXCEPT !.pc = "lookup"]
  /\ leg' = [Stopped(won.legs \ {fan.winner}) EXCEPT ![fan.winner] = "up"]
  /\ UNCHANGED <<caller, loop, tables, fan, legRtp, go, timer, rec>>
LookUpSession ==
  /\ won.pc = "lookup" /\ won' = [won EXCEPT !.pc = "relay", !.call = current]
  /\ rec' = IF current = NoCall THEN rec ELSE [rec EXCEPT !.starters = @ + 1]
  /\ UNCHANGED <<caller, loop, tables, fan, leg, legRtp, go, timer>>

\* The relay between the two sockets, and openConferenceCapture.
Relay ==
  /\ won.pc = "relay" /\ won' = [won EXCEPT !.pc = "done"]
  /\ fan' = IF won.call # NoCall /\ sess[won.call].rtp # NoSocket
            THEN [fan EXCEPT !.cap = "open"] ELSE fan
  /\ loop' = IF IsTls(fan.winner) THEN loop ELSE NoLoop
  /\ UNCHANGED <<caller, tables, leg, legRtp, go, timer, rec>>
-----------------------------------------------------------------------------
(***************************************************************************)
(* The recording of the conference (the SIPREC dialog itself: Siprec)      *)
(***************************************************************************)
Records(s) ==
  LET HasPin(u) == u.pin = s.pin
  IN Recording /\ (Group(s.target).records \/ \E u \in First(Users, HasPin) : u.optIn)

\* tryStartSIPRECForIVRConference: it does not ask whether the caller is there.
StartRecording ==
  /\ rec.starters > 0
  /\ \E n \in Calls :
       /\ sess[n].state = "joinedGroup"
       /\ rec' = [rec EXCEPT !.starters = @ - 1, !.on = @ \/ Records(sess[n])]
  /\ UNCHANGED <<caller, loop, tables, ringing>>
\* attachSIPRECMediaFromAnswer for the recorder's 2xx.
Attach ==
  /\ loop.at = "idle" /\ rec.on
  /\ rec' = [rec EXCEPT !.fwd = @ \cup ({current} \ {NoCall})]
  /\ UNCHANGED <<caller, loop, tables, ringing>>
-----------------------------------------------------------------------------
Next ==
  \/ Invite \/ StoreSession \/ Press \/ Info \/ RtpDigit \/ InfoAgain \/ RtpAgain
  \/ Reinvite \/ Cancel \/ Bye \/ CleanUp \/ Drop
  \/ \E p \in Fanouts : Begin(p) \/ Emit(p) \/ Register(p) \/ Timeout(p) \/ CancelAll(p)
  \/ \E l \in Leg : Answer(l) \/ Win(l)
  \/ AckWinner \/ LookUpSession \/ Relay \/ StartRecording \/ Attach

\* Ring timers fire, and a handler that has begun is carried through.
Fairness ==
  /\ \A p \in Fanouts : WF_vars(Timeout(p)) /\ WF_vars(CancelAll(p))
  /\ WF_vars(AckWinner) /\ WF_vars(LookUpSession) /\ WF_vars(Relay)

Spec == Init /\ [][Next]_vars /\ Fairness
-----------------------------------------------------------------------------
(***************************************************************************)
(* Properties                                                              *)
(***************************************************************************)
\* A press that comes by INFO and by RTP, in several end packets, is heard once
\* at most, however the media are renegotiated in between, unless its INFO was
\* sent again or an end packet of it came after the 150 ms (dtmfViaRTP in
\* handleInboundInfo, decodeTelephoneEvent, tryHandleIVRReinvite).
EachKeyOnce ==
  \A n \in Calls : \A i, j \in DOMAIN sess[n].heard :
    sess[n].heard[i] = sess[n].heard[j] => i = j \/ sess[n].heard[i] \in again

\* Each "#" ends a value: the digits since the "#" before.  The first one is the
\* access code.
Hashes(keys) == {i \in DOMAIN keys : keys[i] = "#"}
Latest(set) == IF set = {} THEN 0 ELSE CHOOSE j \in set : \A h \in set : h <= j
Since(keys, i) == Select(SubSeq(keys, Latest({j \in Hashes(keys) : j < i}) + 1, i - 1), Digits)
Code(keys) == CHOOSE i \in Hashes(keys) : \A j \in Hashes(keys) : i <= j
\* The later values that are the PIN of somebody allowed where the code leads.
Fitting(keys) ==
  {i \in Hashes(keys) :
     i > Code(keys)
     /\ ivrAuthorizeAndResolveTarget(Since(keys, Code(keys)), Since(keys, i)) # Denied}

Heard(n) == [i \in DOMAIN sess[n].heard |-> phone.keys[sess[n].heard[i]]]

\* What session s must have come to after these keys.
IsDecidedBy(s, keys) ==
  CASE Hashes(keys) = {} -> s.state = "collectBridge"
    [] Hashes(keys) # {} /\ Fitting(keys) = {} -> s.state = "collectUser"
    [] OTHER -> /\ s.state \in {"joined", "joinedGroup"}
                /\ s.access = Since(keys, Code(keys))
                /\ \E i \in Fitting(keys) : /\ \A j \in Fitting(keys) : i <= j
                                            /\ s.pin = Since(keys, i)

\* A bridge takes him out of the table of sessions, a group keeps him there.
IsSent(s) ==
  LET t == ivrAuthorizeAndResolveTarget(s.access, s.pin)
  IN /\ s.state = "joined" => t.kind = "bridge"
     /\ s.state = "joinedGroup" => t.kind = "group" /\ s.target = t.id
IsListed ==
  LET s == sess[entry.call]
  IN s.state = "joined" /\ entry.target = ivrAuthorizeAndResolveTarget(s.access, s.pin).id
\* Session n asks for its group's far side: by joining, in an MRD group by a "9"
\* after that.
AsksToRing(n) ==
  /\ sess[n].state = "joinedGroup"
  /\ Group(sess[n].target).type = "mrd" =>
       \E i \in DOMAIN Heard(n) : Heard(n)[i] = "9" /\ \E h \in Fitting(Heard(n)) : h < i

\* The keys that are heard alone decide where the caller gets: the first value is
\* the access code, and the first later value that is the PIN of somebody allowed
\* there lets him into the bridge or group these two lead to.  The bridge that
\* lists him is that one, and whoever is rung is on the far side of that group
\* and is rung after he was let in, for an MRD group after a "9" of his
\* (handleIVRDigitLocked, startIVRConferenceFanout).
KeysDecide ==
  /\ \A n \in Calls : sess[n].state # "none" => IsDecidedBy(sess[n], Heard(n)) /\ IsSent(sess[n])
  /\ entry.up => IsListed
  /\ \A p \in Fanouts : go[p].pc # "off" => AsksToRing(go[p].call)
  /\ \A l \in Leg : leg[l] # "none" => go[l[1]].pc # "off" /\ l[2] \in RingOf(sess[go[l[1]].call])

\* However many endpoints answer, and however often the far side is rung, one
\* of them is connected to the caller at most, and none that is connected is
\* cancelled (handleResponse, enforceIVRConfRingTimeout).  This is so for every
\* kind of group, which for a hoot is not what README.md says: EveryoneIsBridged.
OneConnected ==
  /\ Cardinality({l \in Leg : leg[l] = "up"}) <= 1
  /\ (fan.winner # NoLeg /\ won.pc # "ack" => leg[fan.winner] = "up")
  /\ (fan.winner # NoLeg => fan.winner \in legRtp)

\* When the caller has hung up, his sockets are closed and the recorder gets no
\* media of his, unless a retransmitted INVITE replaced a session that is still
\* in use, and the capture is closed unless a TLS endpoint's answer was being
\* handled beside the BYE (handleInboundBye, cleanupBridgeCallByKey).
NothingOutlivesTheCall ==
  phone.hungUp /\ loop.at = "idle" =>
    /\ (invites = 1 => sockets = {} /\ rec.fwd = {})
    /\ (fan.winner = NoLeg \/ ~IsTls(fan.winner)) => fan.cap # "open"

\* An endpoint that is rung while the fanout is undecided stops ringing, unless
\* the caller hangs up first (cancels after the first 2xx, ring timer).
RingingEnds ==
  \A l \in Leg : (l \in fan.legs /\ ~fan.terminated /\ fan.winner = NoLeg)
                 ~> (leg[l] # "ringing" \/ phone.hungUp)

\* Everybody who answers a hoot is bridged: an endpoint that answers when another
\* one has been connected is connected too, while the caller is there ("Everyone
\* who answers is bridged into a shared session", README.md; handleResponse).
EveryoneIsBridged ==
  \A l \in Leg :
    (leg[l] = "answered" /\ l \in fan.legs /\ fan.winner # NoLeg /\ ~fan.terminated
       /\ Group(sess[go[l[1]].call].target).type = "hoot")
    ~> (leg[l] = "up" \/ phone.hungUp)
=============================================================================
