------------------------------- MODULE Media -------------------------------
(***************************************************************************)
(* The media of one call (internal/sip/server.go, internal/sip/rtp.go):    *)
(* the RTP sockets of the caller and of the endpoint that answered, the    *)
(* relay between them, and the forwarding to the recorder's two streams,   *)
(* with the silence that stands in for an endpoint without audio.          *)
(*                                                                         *)
(* The read loop, the reader of a TLS endpoint that answers, one receiver  *)
(* goroutine per socket and the silence goroutines run side by side.  A    *)
(* receiver picks up its callback under the socket's lock and calls it     *)
(* after; the callbacks are set one by one after the call is in the table. *)
(* Which answers come is modules Fanout and Siprec's; the caller's key is  *)
(* used by one call.                                                       *)
(***************************************************************************)
EXTENDS Naturals, FiniteSets

CONSTANTS
  Scenarios,      \* the calls there may be: [kind, caller, callee, tls]
  MaxReinvites,   \* bound: re-INVITEs
  MaxAttach,      \* bound: answers of the recorder, repeated ones included
  MaxSilences,    \* bound: silence goroutines
  MaxConns        \* bound: sockets opened towards the recorder

Kinds == {"bridge",     \* fanout to a bridge
          "group",      \* fanout to a recorded conference group
          "unrecorded", \* fanout to a group that is not recorded
          "dialin",     \* IVR caller let into a bridge
          "room"}       \* caller of a bridge nobody else is in

ASSUME MediaAssumption ==
  /\ Scenarios \subseteq [kind : Kinds, caller : BOOLEAN, callee : BOOLEAN, tls : BOOLEAN]
  /\ {MaxReinvites, MaxAttach, MaxSilences, MaxConns} \subseteq Nat

VARIABLES
  call,     \* the scenario, how far the call is, what the recorder has answered, and
            \* whether its entry was taken away while a handler had it in hand
  listed,   \* the entry under the caller's key in s.bridgeCalls
  entry,    \* the two bridgeCall objects: the early one and the answered one
  sockets,  \* open RTP sockets
  callback, \* onRTPPacket of each socket
  rx,       \* the callback each receiver has picked up
  silence,  \* the silence goroutines: their object, channel and whether they run
  conns,    \* sockets towards the recorder
  at        \* what the read loop and the TLS reader are in the middle of
mediaVars == <<call, listed, entry, sockets, callback, rx, silence, conns, at>>

NoSocket == 0
CallerSocket == 1
CalleeSocket == 2
Socket == 1..(2 + MaxReinvites)
Object == {"early", "up"}
NoObject == "none"
Threads == {"loop", "reader"}

NewEntry == [rtp |-> NoSocket, peer |-> NoSocket, dst |-> FALSE, conn |-> 0, stop |-> 0]
NoCallback == [object |-> NoObject, stream |-> 0, to |-> NoSocket]
Idle == [pc |-> "idle", object |-> NoObject, in |-> NoSocket, peer |-> NoSocket]

Init ==
  /\ \E s \in Scenarios :
       call = [phase |-> "new", kind |-> s.kind, caller |-> s.caller, callee |-> s.callee,
               tls |-> s.tls, answers |-> 0, attached |-> FALSE, reinvites |-> 0,
               crossed |-> FALSE]
  /\ listed = NoObject /\ entry = [o \in Object |-> NewEntry]
  /\ sockets = {}
  /\ callback = [s \in Socket |-> NoCallback] /\ rx = [s \in Socket |-> NoCallback]
  /\ silence = [i \in 1..MaxSilences |-> [object |-> NoObject, closed |-> FALSE, runs |-> FALSE]]
  /\ conns = [opened |-> 0, open |-> {}]
  /\ at = [t \in Threads |-> Idle]

\* Definitions named Mut... are mutants, as in module Fanout.
Goto(t, pc) == at' = [at EXCEPT ![t].pc = pc]
Done(t) == at' = [at EXCEPT ![t] = Idle]
ClosedSilence(i) == IF i = 0 THEN silence ELSE [silence EXCEPT ![i].closed = TRUE]
-----------------------------------------------------------------------------
(***************************************************************************)
(* The call                                                                *)
(***************************************************************************)
\* The early entry of a call that will be recorded.
Ring ==
  /\ call.phase = "new" /\ call.kind \in {"bridge", "group", "unrecorded"}
  /\ call' = [call EXCEPT !.phase = "ringing"]
  /\ listed' = IF call.kind = "unrecorded" THEN NoObject ELSE "early"
  /\ UNCHANGED <<entry, sockets, callback, rx, silence, conns, at>>

\* A caller is let in without ringing anybody; only the IVR has a socket for him.
Join ==
  /\ call.phase = "new" /\ call.kind \in {"dialin", "room"}
  /\ LET rtp == IF call.kind = "dialin" /\ call.caller THEN CallerSocket ELSE NoSocket
     IN /\ entry' = [entry EXCEPT !["up"].rtp = rtp]
        /\ sockets' = {rtp} \ {NoSocket}
  /\ call' = [call EXCEPT !.phase = "up"]
  /\ listed' = "up"
  /\ UNCHANGED <<callback, rx, silence, conns, at>>

\* Mutant: the destinations stay with the early entry.
Mutmerge(new) == [entry EXCEPT !["up"] = new]
\* mergeBridgeCallSIPRECState
merge(new) ==
  LET old == entry["early"]
  IN [entry EXCEPT !["up"] = [new EXCEPT !.dst = old.dst, !.conn = old.conn],
                   !["early"] = [old EXCEPT !.dst = FALSE, !.conn = 0, !.stop = 0]]

\* An endpoint accepts: sockets for those who offer G.711, none for the endpoint
\* alone, and the answered entry in the place of the early one.
Answer(t) ==
  /\ call.phase = "ringing" /\ at[t].pc = "idle" /\ t = (IF call.tls THEN "reader" ELSE "loop")
  /\ LET rtp == IF call.caller THEN CallerSocket ELSE NoSocket
         peer == IF call.caller /\ call.callee THEN CalleeSocket ELSE NoSocket
     IN /\ sockets' = {rtp, peer} \ {NoSocket}
        /\ IF call.kind = "unrecorded" THEN UNCHANGED <<listed, entry, silence>>
           ELSE /\ listed' = "up"
                /\ entry' = merge([NewEntry EXCEPT !.rtp = rtp, !.peer = peer])
                /\ silence' = ClosedSilence(entry["early"].stop)
        /\ IF rtp = NoSocket \/ call.kind = "unrecorded" THEN UNCHANGED at ELSE Goto(t, "wire")
  /\ call' = [call EXCEPT !.phase = "up", !.crossed = @ \/ at["loop"].pc = "store"]
  /\ UNCHANGED <<callback, rx, conns>>

\* wireBridgeRTPRelay: the caller's callback, then the callee's; each closes over
\* the other's socket.
WireCaller(t) ==
  /\ at[t].pc = "wire"
  /\ LET e == entry["up"]
         Set(to) == callback' = [callback EXCEPT ![e.rtp] =
                                   [object |-> "up", stream |-> 0, to |-> to]]
     IN \/ e.rtp = NoSocket /\ Done(t) /\ UNCHANGED callback
        \/ /\ e.rtp # NoSocket /\ e.peer # NoSocket /\ Set(e.peer)
           /\ at' = [at EXCEPT ![t] = [pc |-> "wirePeer", object |-> "up", in |-> e.rtp,
                                        peer |-> e.peer]]
        \/ e.rtp # NoSocket /\ e.peer = NoSocket /\ Set(NoSocket) /\ Goto(t, "silence")
  /\ UNCHANGED <<call, listed, entry, sockets, rx, silence, conns>>
WireCallee(t) ==
  /\ at[t].pc = "wirePeer"
  /\ callback' = [callback EXCEPT ![at[t].peer] =
                    [object |-> "up", stream |-> 1, to |-> at[t].in]]
  /\ Done(t)
  /\ UNCHANGED <<call, listed, entry, sockets, rx, silence, conns>>

\* Mutant: a second goroutine takes the first one's place.
MutStartSilence(t) ==
  /\ at[t].pc = "silence" /\ Done(t)
  /\ \E i \in 1..MaxSilences :
       /\ silence[i].object = NoObject /\ \A j \in 1..(i - 1) : silence[j].object # NoObject
       /\ silence' = [silence EXCEPT ![i] = [object |-> "up", closed |-> FALSE, runs |-> TRUE]]
       /\ entry' = [entry EXCEPT !["up"].stop = i]
  /\ UNCHANGED <<call, listed, sockets, callback, rx, conns>>

\* startBridgeSIPRECSecondLegSilence
StartSilence(t) ==
  /\ at[t].pc = "silence" /\ Done(t)
  /\ IF entry["up"].stop # 0 THEN UNCHANGED <<silence, entry>>
     ELSE \E i \in 1..MaxSilences :
       /\ silence[i].object = NoObject /\ \A j \in 1..(i - 1) : silence[j].object # NoObject
       /\ silence' = [silence EXCEPT ![i] = [object |-> "up", closed |-> FALSE, runs |-> TRUE]]
       /\ entry' = [entry EXCEPT !["up"].stop = i]
  /\ UNCHANGED <<call, listed, sockets, callback, rx, conns>>

\* Mutant: a call with both parties loses its relay.
MutAttach ==
  /\ at["loop"].pc = "store" /\ call' = [call EXCEPT !.attached = TRUE]
  /\ LET o == at["loop"].object
     IN /\ entry' = [entry EXCEPT ![o].dst = TRUE]
        /\ IF entry[o].rtp # NoSocket THEN Goto("loop", "attach") ELSE Done("loop")
  /\ UNCHANGED <<listed, sockets, callback, rx, silence, conns>>

\* attachSIPRECMediaFromAnswer, for every 2xx of the recorder: the entry is looked
\* up, that of a group under half of its ID (module Siprec) and not found.
AttachLookUp ==
  /\ at["loop"].pc = "idle" /\ call.phase # "new"
  /\ call.answers < MaxAttach /\ call' = [call EXCEPT !.answers = @ + 1]
  /\ at' = IF listed = NoObject \/ call.kind = "group" THEN at
           ELSE [at EXCEPT !["loop"] = [Idle EXCEPT !.pc = "store", !.object = listed]]
  /\ UNCHANGED <<listed, entry, sockets, callback, rx, silence, conns>>
\* After the unlock it is given the destinations.
Attach ==
  /\ at["loop"].pc = "store" /\ call' = [call EXCEPT !.attached = TRUE]
  /\ LET o == at["loop"].object
     IN /\ entry' = [entry EXCEPT ![o].dst = TRUE]
        /\ IF entry[o].rtp # NoSocket /\ entry[o].peer = NoSocket
           THEN Goto("loop", "attach") ELSE Done("loop")
  /\ UNCHANGED <<listed, sockets, callback, rx, silence, conns>>
\* wireBridgeSIPRECFromInboundOnly
WireCallerOnly ==
  /\ at["loop"].pc = "attach"
  /\ IF entry["up"].rtp = NoSocket THEN Done("loop") /\ UNCHANGED callback
     ELSE /\ callback' = [callback EXCEPT ![entry["up"].rtp] =
                            [object |-> "up", stream |-> 0, to |-> NoSocket]]
          /\ Goto("loop", "silence")
  /\ UNCHANGED <<call, listed, entry, sockets, rx, silence, conns>>

\* Mutant: the entry keeps the socket it closed.
MutReinvite ==
  /\ call.phase = "up" /\ at["loop"].pc = "idle" /\ listed # NoObject
  /\ call.reinvites < MaxReinvites /\ call' = [call EXCEPT !.reinvites = @ + 1]
  /\ sockets' = sockets \ {entry[listed].rtp}
  /\ UNCHANGED <<listed, entry, callback, rx, silence, conns, at>>

\* tryHandleBridgeReinvite with a body: G.711 moves the socket's far end or opens
\* one for an entry that has none, anything else closes it.  No callback is set.
Reinvite ==
  /\ call.phase = "up" /\ at["loop"].pc = "idle" /\ listed # NoObject
  /\ call.reinvites < MaxReinvites /\ call' = [call EXCEPT !.reinvites = @ + 1]
  /\ LET rtp == entry[listed].rtp
         new == 3 + call.reinvites
     IN \/ rtp # NoSocket /\ UNCHANGED <<entry, sockets>>
        \/ /\ rtp = NoSocket
           /\ entry' = [entry EXCEPT ![listed].rtp = new]
           /\ sockets' = sockets \cup {new}
        \/ /\ entry' = [entry EXCEPT ![listed].rtp = NoSocket]
           /\ sockets' = sockets \ {rtp}
  /\ UNCHANGED <<listed, callback, rx, silence, conns, at>>

\* Mutant: the destinations stay.
Mutclear(e) == [e EXCEPT !.rtp = NoSocket, !.peer = NoSocket, !.conn = 0, !.stop = 0]
\* clearBridgeSIPRECForwarding, and the sockets cleanupBridgeCallByKey closes
clear(e) == NewEntry

\* What cleanupBridgeCallByKey and DropBridgeCall do under sessionMu.
TakeDown ==
  /\ listed' = NoObject
  /\ IF listed = NoObject THEN UNCHANGED <<entry, sockets, silence, conns>>
     ELSE LET e == entry[listed]
          IN /\ entry' = [entry EXCEPT ![listed] = clear(e)]
             /\ sockets' = sockets \ {e.rtp, e.peer}
             /\ silence' = ClosedSilence(e.stop)
             /\ conns' = [conns EXCEPT !.open = @ \ {e.conn}]

\* CANCEL or BYE.
HangUp ==
  /\ call.phase \in {"ringing", "up"} /\ at["loop"].pc = "idle"
  /\ call' = [call EXCEPT !.phase = "over"]
  /\ TakeDown
  /\ UNCHANGED <<callback, rx, at>>

\* DropBridgeCall: the API says goodbye to the caller and ends his recording,
\* whatever the threads are in the middle of; a ringing call goes on ringing.
Drop ==
  /\ listed # NoObject
  /\ call' = [call EXCEPT !.phase = IF listed = "up" THEN "over" ELSE @, !.attached = FALSE,
                          !.crossed = @ \/ \E t \in Threads : at[t].pc # "idle"]
  /\ TakeDown
  /\ UNCHANGED <<callback, rx, at>>
-----------------------------------------------------------------------------
(***************************************************************************)
(* Packets                                                                 *)
(***************************************************************************)
\* forwardSIPRECBridgeLeg opens the socket at the first packet that has somewhere
\* to go; so does the silence.
Forward(o) ==
  IF entry[o].dst /\ entry[o].conn = 0
  THEN /\ conns.opened < MaxConns
       /\ conns' = [opened |-> conns.opened + 1, open |-> conns.open \cup {conns.opened + 1}]
       /\ entry' = [entry EXCEPT ![o].conn = conns.opened + 1]
  ELSE UNCHANGED <<conns, entry>>

Receive(s) ==
  /\ s \in sockets /\ rx[s] = NoCallback /\ callback[s] # NoCallback
  /\ rx' = [rx EXCEPT ![s] = callback[s]]
  /\ UNCHANGED <<call, listed, entry, sockets, callback, silence, conns, at>>
\* The relay writes to the other socket, whether it is open or not.
Deliver(s) ==
  /\ rx[s] # NoCallback
  /\ Forward(rx[s].object)
  /\ rx' = [rx EXCEPT ![s] = NoCallback]
  /\ UNCHANGED <<call, listed, sockets, callback, silence, at>>
\* When tick and stop are both ready, either may be taken.
Tick(i) ==
  /\ silence[i].runs
  /\ Forward(silence[i].object)
  /\ UNCHANGED <<call, listed, sockets, callback, rx, silence, at>>
SilenceEnds(i) ==
  /\ silence[i].runs /\ silence[i].closed
  /\ silence' = [silence EXCEPT ![i].runs = FALSE]
  /\ UNCHANGED <<call, listed, entry, sockets, callback, rx, conns, at>>
-----------------------------------------------------------------------------
Next ==
  \/ Ring \/ Join \/ AttachLookUp \/ Attach \/ WireCallerOnly \/ Reinvite \/ HangUp \/ Drop
  \/ \E t \in Threads : Answer(t) \/ WireCaller(t) \/ WireCallee(t) \/ StartSilence(t)
  \/ \E s \in Socket : Receive(s) \/ Deliver(s)
  \/ \E i \in 1..MaxSilences : Tick(i) \/ SilenceEnds(i)

MediaSpec == Init /\ [][Next]_mediaVars
-----------------------------------------------------------------------------
(***************************************************************************)
(* Properties                                                              *)
(***************************************************************************)
Settled == \A t \in Threads : at[t].pc = "idle"

\* As long as no re-INVITE took the caller's socket away, the two parties of a
\* call in the table hear each other, and a recorder that has answered, before or after the
\* endpoint did, hears both, or the caller and silence, unless the entry was
\* replaced or dropped while a handler had it in hand (wireBridgeRTPRelay,
\* mergeBridgeCallSIPRECState, attachSIPRECMediaFromAnswer).
EverySideIsHeard ==
  call.phase = "up" /\ listed = "up" /\ Settled /\ entry["up"].rtp = CallerSocket /\ ~call.crossed =>
    LET e == entry["up"]
        Hears(s, stream, to) == callback[s] = [object |-> "up", stream |-> stream, to |-> to]
        Silence == e.stop # 0 /\ silence[e.stop].runs /\ ~silence[e.stop].closed
    IN /\ (e.peer # NoSocket => Hears(e.rtp, 0, e.peer) /\ Hears(e.peer, 1, e.rtp))
       /\ (call.attached => e.dst)
       /\ (call.attached /\ e.peer = NoSocket => Hears(e.rtp, 0, NoSocket) /\ Silence)

\* The sockets of a call that is in the table are open: what reads them there,
\* the IPTV forwarding and the re-INVITE, never meets a closed one
\* (tryHandleBridgeReinvite, cleanupBridgeCallByKey, forwardIPTVToBridges).
ListedSocketsAreOpen ==
  listed # NoObject => {entry[listed].rtp, entry[listed].peer} \ {NoSocket} \subseteq sockets

\* After the hang-up or the drop nothing is left, whatever packet, tick or answer
\* was still underway: no RTP socket, no socket towards the recorder, no silence
\* that was not told to stop.  Excepted are the call of an unrecorded group, whose
\* sockets nobody holds, the silence a TLS endpoint's answer may start beside the
\* BYE, and what a handler gives an entry that was replaced or dropped while it had
\* it in hand (cleanupBridgeCallByKey, DropBridgeCall, clearBridgeSIPRECForwarding).
NothingOutlivesTheCall ==
  call.phase = "over" /\ Settled =>
    /\ (call.kind # "unrecorded" => sockets = {})
    /\ (~call.crossed => conns.open = {})
    /\ (~call.crossed /\ ~call.tls => \A i \in 1..MaxSilences : silence[i].runs => silence[i].closed)
=============================================================================
