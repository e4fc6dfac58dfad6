----------------------------- MODULE MediaProofs -----------------------------
(***************************************************************************)
(* Proofs about the modules Media and Iptv.                                *)
(*                                                                         *)
(* For every set of scenarios and every number of re-INVITEs, recorder     *)
(* answers, packets and silences: a call in the table has open sockets,    *)
(* everybody in it is heard once the threads have settled, and nothing of  *)
(* it is left after the hang-up.  The entry, the sockets, the callbacks    *)
(* and the silence change in different handlers, in the order the threads  *)
(* happen to run.                                                          *)
(***************************************************************************)
EXTENDS Media, Iptv, TLAPS

Call == [phase : {"new", "ringing", "up", "over"}, kind : Kinds, caller : BOOLEAN,
         callee : BOOLEAN, tls : BOOLEAN, answers : Nat, attached : BOOLEAN, reinvites : Nat,
         crossed : BOOLEAN]
\* A re-INVITE never opens the endpoint's socket.
Entry == [rtp : Nat \ {CalleeSocket}, peer : {NoSocket, CalleeSocket}, dst : BOOLEAN,
          conn : Nat, stop : Nat]

MediaTypeOK ==
  /\ call \in Call
  /\ listed \in Object \cup {NoObject}
  /\ entry \in [Object -> Entry]
  /\ conns \in [opened : Nat, open : SUBSET Nat]

\* Nothing is there before the call is, and nobody ever holds the sockets of a
\* call that is not recorded.
NewIsEmpty ==
  call.phase = "new" => \A o \in Object : entry[o].rtp = NoSocket /\ entry[o].peer = NoSocket
UnrecordedIsUnlisted == call.kind = "unrecorded" => listed = NoObject

OverIsUnlisted == call.phase = "over" => listed = NoObject
SocketsAreListed ==
  call.kind # "unrecorded" =>
    sockets \subseteq IF listed = NoObject THEN {}
                       ELSE {entry[listed].rtp, entry[listed].peer} \ {NoSocket}

Inv ==
  /\ MediaTypeOK
  /\ NewIsEmpty /\ UnrecordedIsUnlisted /\ OverIsUnlisted
  /\ ListedSocketsAreOpen /\ SocketsAreListed

USE DEF Object, NoObject, NoSocket, CallerSocket, CalleeSocket, Kinds

LEMMA InitEstablishes == Init => Inv
<1> SUFFICES ASSUME Init PROVE Inv
  OBVIOUS
<1>1. PICK s \in Scenarios :
        call = [phase |-> "new", kind |-> s.kind, caller |-> s.caller, callee |-> s.callee,
                tls |-> s.tls, answers |-> 0, attached |-> FALSE, reinvites |-> 0,
                crossed |-> FALSE]
  BY DEF Init
<1>2. s \in [kind : Kinds, caller : BOOLEAN, callee : BOOLEAN, tls : BOOLEAN]
  BY MediaAssumption
<1>3. call \in Call
  BY <1>1, <1>2 DEF Call
<1>4. NewEntry \in Entry /\ NewEntry.rtp = NoSocket /\ NewEntry.peer = NoSocket
  BY DEF NewEntry, Entry
<1>5. /\ listed = NoObject /\ entry = [o \in Object |-> NewEntry] /\ sockets = {}
      /\ conns = [opened |-> 0, open |-> {}]
  BY DEF Init
<1>6. MediaTypeOK
  BY <1>3, <1>4, <1>5 DEF MediaTypeOK
<1> QED
  BY <1>4, <1>5, <1>6 DEF Inv, NewIsEmpty, UnrecordedIsUnlisted, OverIsUnlisted,
                          ListedSocketsAreOpen, SocketsAreListed

\* A step that leaves the table and the open sockets alone, and of the entries
\* the sockets.
Quiet ==
  /\ UNCHANGED <<listed, sockets>>
  /\ MediaTypeOK'
  /\ call'.kind = call.kind /\ call'.phase = call.phase
  /\ \A o \in Object : entry'[o].rtp = entry[o].rtp /\ entry'[o].peer = entry[o].peer

LEMMA QuietPreserves == Inv /\ Quiet => Inv'
<1> SUFFICES ASSUME Inv, Quiet PROVE Inv'
  OBVIOUS
<1>1. NewIsEmpty' /\ UnrecordedIsUnlisted' /\ OverIsUnlisted'
  BY DEF Inv, Quiet, NewIsEmpty, UnrecordedIsUnlisted, OverIsUnlisted
<1>2. ListedSocketsAreOpen' /\ SocketsAreListed'
  BY DEF Inv, Quiet, MediaTypeOK, ListedSocketsAreOpen, SocketsAreListed
<1> QED
  BY <1>1, <1>2 DEF Inv, Quiet

LEMMA EntryFields ==
  ASSUME NEW e \in Entry
  PROVE  /\ [e EXCEPT !.dst = TRUE] \in Entry
         /\ \A n \in Nat : [e EXCEPT !.conn = n] \in Entry /\ [e EXCEPT !.stop = n] \in Entry
<1> QED
  BY DEF Entry

LEMMA ForwardIsQuiet ==
  ASSUME Inv, NEW o, Forward(o), UNCHANGED <<call, listed, sockets>>
  PROVE  Quiet
<1>1. CASE UNCHANGED <<conns, entry>>
  BY <1>1 DEF Quiet, Inv, MediaTypeOK
<1>2. CASE ~UNCHANGED <<conns, entry>>
  <2> DEFINE n == conns.opened + 1
  <2>1. /\ entry' = [entry EXCEPT ![o].conn = n]
        /\ conns' = [opened |-> n, open |-> conns.open \cup {n}]
    BY <1>2 DEF Forward
  <2>2. n \in Nat /\ conns.open \subseteq Nat
    BY DEF Inv, MediaTypeOK
  <2> HIDE DEF n
  <2>3. entry' \in [Object -> Entry]
    BY <2>1, <2>2, EntryFields DEF Inv, MediaTypeOK
  <2>4. \A p \in Object : entry'[p].rtp = entry[p].rtp /\ entry'[p].peer = entry[p].peer
    BY <2>1 DEF Inv, MediaTypeOK, Entry
  <2> QED
    BY <2>1, <2>2, <2>3, <2>4 DEF Quiet, Inv, MediaTypeOK
<1> QED
  BY <1>1, <1>2

LEMMA RingPreserves == Inv /\ Ring => Inv'
<1> SUFFICES ASSUME Inv, Ring PROVE Inv'
  OBVIOUS
<1>1. /\ call.phase = "new" /\ call' = [call EXCEPT !.phase = "ringing"]
      /\ listed' = IF call.kind = "unrecorded" THEN NoObject ELSE "early"
      /\ UNCHANGED <<entry, sockets, conns>>
  BY DEF Ring
<1>2. call' \in Call /\ call'.phase = "ringing" /\ call'.kind = call.kind
  BY <1>1 DEF Inv, MediaTypeOK, Call
<1> QED
  BY <1>1, <1>2 DEF Inv, MediaTypeOK, NewIsEmpty, UnrecordedIsUnlisted, OverIsUnlisted,
                    ListedSocketsAreOpen, SocketsAreListed

LEMMA JoinPreserves == Inv /\ Join => Inv'
<1> SUFFICES ASSUME Inv, Join PROVE Inv'
  OBVIOUS
<1> DEFINE rtp == IF call.kind = "dialin" /\ call.caller THEN CallerSocket ELSE NoSocket
<1>1. /\ call.phase = "new" /\ call.kind \in {"dialin", "room"}
      /\ call' = [call EXCEPT !.phase = "up"] /\ listed' = "up"
      /\ entry' = [entry EXCEPT !["up"].rtp = rtp] /\ sockets' = {rtp} \ {NoSocket}
      /\ conns' = conns
  BY DEF Join
<1>2. call' \in Call /\ call'.phase = "up" /\ call'.kind = call.kind
  BY <1>1 DEF Inv, MediaTypeOK, Call
<1>3. entry["up"] \in Entry /\ entry["up"].peer = NoSocket
  BY <1>1 DEF Inv, MediaTypeOK, NewIsEmpty
<1>4. rtp \in Nat \ {CalleeSocket}
  OBVIOUS
<1> HIDE DEF rtp
<1>5. [entry["up"] EXCEPT !.rtp = rtp] \in Entry
  BY <1>3, <1>4 DEF Entry
<1>6. entry' \in [Object -> Entry] /\ entry'["up"] = [entry["up"] EXCEPT !.rtp = rtp]
  BY <1>1, <1>5 DEF Inv, MediaTypeOK
<1>7. entry'["up"].rtp = rtp /\ entry'["up"].peer = NoSocket
  BY <1>3, <1>6 DEF Entry
<1> QED
  BY <1>1, <1>2, <1>6, <1>7 DEF Inv, MediaTypeOK, NewIsEmpty, UnrecordedIsUnlisted,
                                OverIsUnlisted, ListedSocketsAreOpen, SocketsAreListed

LEMMA AnswerPreserves ==
  ASSUME Inv, NEW t \in Threads, Answer(t)
  PROVE  Inv'
<1> DEFINE rtp == IF call.caller THEN CallerSocket ELSE NoSocket
           peer == IF call.caller /\ call.callee THEN CalleeSocket ELSE NoSocket
           new == [NewEntry EXCEPT !.rtp = rtp, !.peer = peer]
           b == call.crossed \/ at["loop"].pc = "store"
<1>1. /\ call' = [call EXCEPT !.phase = "up", !.crossed = b]
      /\ sockets' = {rtp, peer} \ {NoSocket} /\ conns' = conns
      /\ IF call.kind = "unrecorded" THEN UNCHANGED <<listed, entry>>
         ELSE listed' = "up" /\ entry' = merge(new)
  BY DEF Answer
<1>2. call' \in Call /\ call'.phase = "up" /\ call'.kind = call.kind
  <2>1. b \in BOOLEAN /\ call \in Call
    BY DEF Inv, MediaTypeOK, Call
  <2> HIDE DEF b
  <2> QED
    BY <1>1, <2>1 DEF Call
<1> HIDE DEF b
<1>3. CASE call.kind = "unrecorded"
  BY <1>1, <1>2, <1>3 DEF Inv, MediaTypeOK, NewIsEmpty, UnrecordedIsUnlisted,
                          OverIsUnlisted, ListedSocketsAreOpen, SocketsAreListed
<1>4. CASE call.kind # "unrecorded"
  <2> DEFINE old == entry["early"]
             e == [new EXCEPT !.dst = old.dst, !.conn = old.conn]
             f == [old EXCEPT !.dst = FALSE, !.conn = 0, !.stop = 0]
  <2>1. /\ rtp \in Nat \ {CalleeSocket} /\ peer \in {NoSocket, CalleeSocket}
        /\ old \in Entry
    BY DEF Inv, MediaTypeOK
  <2>2. entry' = [entry EXCEPT !["up"] = e, !["early"] = f]
    BY <1>1, <1>4 DEF merge
  <2> HIDE DEF rtp, peer, old
  <2>3. new \in Entry /\ new.rtp = rtp /\ new.peer = peer
    BY <2>1 DEF NewEntry, Entry
  <2>4. e \in Entry /\ e.rtp = rtp /\ e.peer = peer
    BY <2>1 DEF NewEntry, Entry
  <2>5. f \in Entry
    BY <2>1 DEF Entry
  <2> HIDE DEF e, f
  <2>6. entry' \in [Object -> Entry] /\ entry'["up"] = e
    BY <2>2, <2>4, <2>5 DEF Inv, MediaTypeOK
  <2> QED
    BY <1>1, <1>2, <1>4, <2>4, <2>6 DEF Inv, MediaTypeOK, NewIsEmpty, UnrecordedIsUnlisted,
                                       OverIsUnlisted, ListedSocketsAreOpen, SocketsAreListed
<1> QED
  BY <1>3, <1>4

\* The callbacks, the receivers and the silence know the sockets; none of them
\* opens or closes one, or changes the entry's.
LEMMA WiringIsQuiet ==
  ASSUME Inv, NEW t \in Threads, WireCaller(t) \/ WireCallee(t) \/ StartSilence(t)
  PROVE  Quiet
<1>1. CASE WireCaller(t) \/ WireCallee(t)
  <2>1. UNCHANGED <<call, listed, entry, sockets, conns>>
    BY <1>1 DEF WireCaller, WireCallee
  <2> QED
    BY <2>1 DEF Quiet, Inv, MediaTypeOK
<1>2. CASE StartSilence(t)
  <2>1. /\ UNCHANGED <<call, listed, sockets, conns>>
        /\ entry' = entry \/ \E i \in 1..MaxSilences : entry' = [entry EXCEPT !["up"].stop = i]
    BY <1>2 DEF StartSilence
  <2>2. CASE entry' = entry
    BY <2>1, <2>2 DEF Quiet, Inv, MediaTypeOK
  <2>3. CASE \E i \in 1..MaxSilences : entry' = [entry EXCEPT !["up"].stop = i]
    <3>1. PICK i \in 1..MaxSilences : entry' = [entry EXCEPT !["up"].stop = i]
      BY <2>3
    <3>2. i \in Nat
      BY MediaAssumption
    <3>3. entry' \in [Object -> Entry]
      BY <3>1, <3>2, EntryFields DEF Inv, MediaTypeOK
    <3>4. \A p \in Object : entry'[p].rtp = entry[p].rtp /\ entry'[p].peer = entry[p].peer
      BY <3>1 DEF Inv, MediaTypeOK, Entry
    <3> QED
      BY <2>1, <3>3, <3>4 DEF Quiet, Inv, MediaTypeOK
  <2> QED
    BY <2>1, <2>2, <2>3
<1> QED
  BY <1>1, <1>2

LEMMA AttachIsQuiet == Inv /\ (AttachLookUp \/ Attach \/ WireCallerOnly) => Quiet
<1> SUFFICES ASSUME Inv, AttachLookUp \/ Attach \/ WireCallerOnly PROVE Quiet
  OBVIOUS
<1>1. CASE WireCallerOnly
  <2>1. UNCHANGED <<call, listed, entry, sockets, conns>>
    BY <1>1 DEF WireCallerOnly
  <2> QED
    BY <2>1 DEF Quiet, Inv, MediaTypeOK
<1>2. CASE AttachLookUp
  <2> DEFINE n == call.answers + 1
  <2>1. call' = [call EXCEPT !.answers = n] /\ UNCHANGED <<listed, entry, sockets, conns>>
    BY <1>2 DEF AttachLookUp
  <2>2. n \in Nat
    BY DEF Inv, MediaTypeOK, Call
  <2> HIDE DEF n
  <2>3. call' \in Call /\ call'.kind = call.kind /\ call'.phase = call.phase
    BY <2>1, <2>2 DEF Inv, MediaTypeOK, Call
  <2> QED
    BY <2>1, <2>3 DEF Quiet, Inv, MediaTypeOK
<1>3. CASE Attach
  <2>1. /\ call' = [call EXCEPT !.attached = TRUE] /\ UNCHANGED <<listed, sockets, conns>>
        /\ entry' = [entry EXCEPT ![at["loop"].object].dst = TRUE]
    BY <1>3 DEF Attach
  <2>2. call' \in Call /\ call'.kind = call.kind /\ call'.phase = call.phase
    BY <2>1 DEF Inv, MediaTypeOK, Call
  <2>3. entry' \in [Object -> Entry]
    BY <2>1, EntryFields DEF Inv, MediaTypeOK
  <2>4. \A p \in Object : entry'[p].rtp = entry[p].rtp /\ entry'[p].peer = entry[p].peer
    BY <2>1 DEF Inv, MediaTypeOK, Entry
  <2> QED
    BY <2>1, <2>2, <2>3, <2>4 DEF Quiet, Inv, MediaTypeOK
<1> QED
  BY <1>1, <1>2, <1>3

\* What a re-INVITE opens or closes, it puts in the entry or takes out of it.
LEMMA ReinvitePreserves == Inv /\ Reinvite => Inv'
<1> SUFFICES ASSUME Inv, Reinvite PROVE Inv'
  OBVIOUS
<1> DEFINE n == call.reinvites + 1
           rtp == entry[listed].rtp
           new == 3 + call.reinvites
<1>1. /\ call.phase = "up" /\ listed # NoObject
      /\ call' = [call EXCEPT !.reinvites = n] /\ UNCHANGED <<listed, conns>>
      /\ \/ UNCHANGED <<entry, sockets>>
         \/ /\ entry' = [entry EXCEPT ![listed].rtp = new] /\ sockets' = sockets \cup {new}
            /\ rtp = NoSocket
         \/ entry' = [entry EXCEPT ![listed].rtp = NoSocket] /\ sockets' = sockets \ {rtp}
  BY DEF Reinvite
<1>2. n \in Nat /\ new \in Nat \ {NoSocket, CalleeSocket}
  BY DEF Inv, MediaTypeOK, Call
<1>3. listed \in Object /\ entry[listed] \in Entry
  BY <1>1 DEF Inv, MediaTypeOK
<1>4. {rtp, entry[listed].peer} \ {NoSocket} \subseteq sockets
  BY <1>1 DEF Inv, ListedSocketsAreOpen
<1>5. rtp # entry[listed].peer \/ rtp = NoSocket
  BY <1>3 DEF Entry
<1> HIDE DEF n, new
<1>6. call' \in Call /\ call'.phase = "up" /\ call'.kind = call.kind
  BY <1>1, <1>2 DEF Inv, MediaTypeOK, Call
<1>7. \A s \in Nat \ {CalleeSocket} :
        LET e == [entry[listed] EXCEPT !.rtp = s]
        IN e \in Entry /\ e.rtp = s /\ e.peer = entry[listed].peer
  BY <1>3 DEF Entry
<1>8. entry' \in [Object -> Entry]
  BY <1>1, <1>2, <1>3, <1>7 DEF Inv, MediaTypeOK
<1>10. call.kind # "unrecorded" => sockets \subseteq {rtp, entry[listed].peer} \ {NoSocket}
  BY <1>1 DEF Inv, SocketsAreListed
<1>9. ListedSocketsAreOpen' /\ SocketsAreListed'
  <2>1. CASE UNCHANGED <<entry, sockets>>
    BY <1>1, <1>4, <1>6, <1>10, <2>1 DEF ListedSocketsAreOpen, SocketsAreListed
  <2>2. CASE /\ entry' = [entry EXCEPT ![listed].rtp = new] /\ sockets' = sockets \cup {new}
             /\ rtp = NoSocket
    <3>1. entry'[listed].rtp = new /\ entry'[listed].peer = entry[listed].peer
      BY <1>2, <1>3, <1>7, <2>2 DEF Inv, MediaTypeOK
    <3> QED
      BY <1>1, <1>2, <1>4, <1>6, <1>10, <2>2, <3>1 DEF ListedSocketsAreOpen, SocketsAreListed
  <2>3. CASE entry' = [entry EXCEPT ![listed].rtp = NoSocket] /\ sockets' = sockets \ {rtp}
    <3>1. entry'[listed].rtp = NoSocket /\ entry'[listed].peer = entry[listed].peer
      BY <1>3, <1>7, <2>3 DEF Inv, MediaTypeOK
    <3> QED
      BY <1>1, <1>4, <1>5, <1>6, <1>10, <2>3, <3>1 DEF ListedSocketsAreOpen, SocketsAreListed
  <2> QED
    BY <1>1, <2>1, <2>2, <2>3
<1> QED
  BY <1>1, <1>6, <1>8, <1>9 DEF Inv, MediaTypeOK, NewIsEmpty, UnrecordedIsUnlisted, OverIsUnlisted

LEMMA TakenDown ==
  ASSUME Inv, TakeDown
  PROVE  /\ listed' = NoObject /\ entry' \in [Object -> Entry]
         /\ conns' \in [opened : Nat, open : SUBSET Nat]
         /\ call.kind # "unrecorded" => sockets' = {}
<1> DEFINE e == entry[listed]
           open == conns.open \ {e.conn}
<1>1. /\ listed' = NoObject
      /\ \/ listed = NoObject /\ UNCHANGED <<entry, sockets, conns>>
         \/ /\ entry' = [entry EXCEPT ![listed] = NewEntry]
            /\ conns' = [conns EXCEPT !.open = open]
            /\ listed # NoObject /\ sockets' = sockets \ {e.rtp, e.peer}
  BY DEF TakeDown, clear
<1>2. entry' \in [Object -> Entry]
  <2>1. NewEntry \in Entry
    BY DEF NewEntry, Entry
  <2> QED
    BY <1>1, <2>1 DEF Inv, MediaTypeOK
<1>3. conns' \in [opened : Nat, open : SUBSET Nat]
  <2>1. open \subseteq Nat
    BY DEF Inv, MediaTypeOK
  <2> HIDE DEF open
  <2> QED
    BY <1>1, <2>1 DEF Inv, MediaTypeOK
<1>4. call.kind # "unrecorded" => sockets' = {}
  BY <1>1 DEF Inv, SocketsAreListed
<1> QED
  BY <1>1, <1>2, <1>3, <1>4

LEMMA HangUpPreserves == Inv /\ (HangUp \/ Drop) => Inv'
<1> SUFFICES ASSUME Inv, HangUp \/ Drop PROVE Inv'
  OBVIOUS
<1>1. TakeDown
  <2>1. HangUp => TakeDown
    BY DEF HangUp
  <2>2. Drop => TakeDown
    BY DEF Drop
  <2> QED
    BY <2>1, <2>2
<1>2. /\ listed' = NoObject /\ entry' \in [Object -> Entry]
      /\ conns' \in [opened : Nat, open : SUBSET Nat]
      /\ call.kind # "unrecorded" => sockets' = {}
  BY <1>1, TakenDown
<1>3. call' \in Call /\ call'.kind = call.kind /\ (call'.phase = "over" \/ call'.phase = call.phase)
  <2>1. CASE HangUp
    BY <2>1 DEF HangUp, Inv, MediaTypeOK, Call
  <2>2. CASE Drop
    <3> DEFINE p == IF listed = "up" THEN "over" ELSE call.phase
               b == call.crossed \/ \E t \in Threads : at[t].pc # "idle"
    <3>1. call' = [call EXCEPT !.phase = p, !.attached = FALSE, !.crossed = b]
      BY <2>2 DEF Drop
    <3>2. call \in Call /\ p \in {"over", call.phase} /\ b \in BOOLEAN
      BY DEF Inv, MediaTypeOK, Call
    <3> HIDE DEF p, b
    <3> QED
      BY <3>1, <3>2 DEF Call
  <2> QED
    BY <2>1, <2>2
<1>4. NewIsEmpty'
  <2>1. CASE call.phase = "new"
    <3>1. Drop
      BY <2>1 DEF HangUp
    <3>2. \A o \in Object : entry[o].rtp = NoSocket /\ entry[o].peer = NoSocket
      BY <2>1 DEF Inv, NewIsEmpty
    <3>3. entry' = [entry EXCEPT ![listed] = NewEntry]
      BY <3>1 DEF Drop, TakeDown, clear
    <3> QED
      BY <3>2, <3>3 DEF NewIsEmpty, NewEntry, Inv, MediaTypeOK
  <2>2. CASE call.phase # "new"
    BY <1>3, <2>2 DEF NewIsEmpty
  <2> QED
    BY <2>1, <2>2
<1> QED
  BY <1>2, <1>3, <1>4 DEF Inv, MediaTypeOK, UnrecordedIsUnlisted, OverIsUnlisted,
                          ListedSocketsAreOpen, SocketsAreListed

LEMMA PacketsAreQuiet ==
  /\ \A s \in Socket : Inv /\ (Receive(s) \/ Deliver(s)) => Quiet
  /\ \A i \in 1..MaxSilences : Inv /\ (Tick(i) \/ SilenceEnds(i)) => Quiet
<1>1. ASSUME Inv, UNCHANGED <<call, listed, entry, sockets, conns>> PROVE Quiet
  BY <1>1 DEF Quiet, Inv, MediaTypeOK
<1>2. ASSUME Inv, NEW s \in Socket, Deliver(s) PROVE Quiet
  BY <1>2, ForwardIsQuiet DEF Deliver
<1>3. ASSUME Inv, NEW i \in 1..MaxSilences, Tick(i) PROVE Quiet
  BY <1>3, ForwardIsQuiet DEF Tick
<1> QED
  BY <1>1, <1>2, <1>3 DEF Receive, SilenceEnds

LEMMA StepPreserves == Inv /\ [Next]_mediaVars => Inv'
<1> SUFFICES ASSUME Inv, [Next]_mediaVars PROVE Inv'
  OBVIOUS
<1>1. CASE UNCHANGED mediaVars
  BY <1>1 DEF Inv, mediaVars, MediaTypeOK, NewIsEmpty, UnrecordedIsUnlisted, OverIsUnlisted,
              ListedSocketsAreOpen, SocketsAreListed
<1>2. ASSUME NEW t \in Threads, Answer(t) \/ WireCaller(t) \/ WireCallee(t) \/ StartSilence(t)
      PROVE  Inv'
  BY <1>2, AnswerPreserves, WiringIsQuiet, QuietPreserves
<1> QED
  BY <1>1, <1>2, RingPreserves, JoinPreserves, AttachIsQuiet, ReinvitePreserves,
     HangUpPreserves, PacketsAreQuiet, QuietPreserves DEF Next

THEOREM InvHolds == MediaSpec => []Inv
<1> QED
  BY InitEstablishes, StepPreserves, PTL DEF MediaSpec

\* Whatever answers, re-INVITEs, packets and the hang-up do in which order, the
\* sockets the table names are open (tryHandleBridgeReinvite, cleanupBridgeCallByKey),
\* which is what forwardIPTVToBridges relies on.
THEOREM ListedSocketsHold == MediaSpec => []ListedSocketsAreOpen
<1>1. Inv => ListedSocketsAreOpen
  BY DEF Inv
<1> QED
  BY <1>1, InvHolds, PTL
-----------------------------------------------------------------------------
(***************************************************************************)
(* What each side hears, and what the hang-up leaves behind.  The answered *)
(* entry, the callbacks and the silence are set in steps of two threads,   *)
(* so the invariant says for every step what the one before it has left.   *)
(***************************************************************************)
Callback == {NoCallback} \cup [object : {"up"}, stream : Nat, to : Nat]
Thread == [pc : {"idle", "store", "wire", "wirePeer", "attach", "silence"},
           object : Object \cup {NoObject}, in : Nat, peer : Nat]
Silence == [object : Object \cup {NoObject}, closed : BOOLEAN, runs : BOOLEAN]

WiringTypeOK ==
  /\ at \in [Threads -> Thread]
  /\ callback \in [Socket -> Callback] /\ rx \in [Socket -> Callback]
  /\ silence \in [1..MaxSilences -> Silence]

\* Which entry the table holds in which phase; only the answered one is wired.
EntryFollowsPhase ==
  /\ listed = "early" => call.phase = "ringing"
  /\ listed = "up" => call.phase = "up"
  /\ call.phase = "up" /\ call.kind # "unrecorded" => listed = "up"
  /\ call.phase \in {"new", "ringing"} /\ listed = NoObject => ~call.attached
  /\ entry["early"].rtp = NoSocket /\ entry["early"].peer = NoSocket /\ entry["early"].stop = 0

\* The read loop is not in the middle of anything when the call is hung up, and
\* what it has looked up stays in the table; the reader of a TLS endpoint may be.
ThreadsFollowPhase ==
  /\ at["loop"].pc = "store" => listed # NoObject /\ at["loop"].object = listed
  /\ at["loop"].pc \notin {"idle", "store"} => listed = "up"
  /\ at["reader"].pc # "store"
  /\ at["reader"].pc # "idle" => call.tls /\ call.phase \in {"up", "over"}
  /\ at["loop"].pc = "attach" => entry["up"].peer = NoSocket
  /\ \A t \in Threads : at[t].pc = "wirePeer" =>
       /\ at[t].peer = CalleeSocket
       /\ listed = "up" /\ entry["up"].rtp = CallerSocket => at[t].in = CallerSocket

Hears(s, stream, to) == callback[s] = [object |-> "up", stream |-> stream, to |-> to]

\* A call with two parties is relayed, or a thread is about to; the caller alone
\* is recorded beside silence as soon as the recorder has answered, or a thread
\* is about to see to it.
WiredOrUnderway ==
  listed = "up" /\ entry["up"].rtp = CallerSocket =>
    /\ entry["up"].peer # NoSocket =>
         \/ \E t \in Threads : at[t].pc = "wire"
         \/ /\ Hears(CallerSocket, 0, CalleeSocket)
            /\ \/ \E t \in Threads : at[t].pc = "wirePeer"
               \/ Hears(CalleeSocket, 1, CallerSocket)
    /\ call.attached /\ entry["up"].peer = NoSocket =>
         \/ \E t \in Threads : at[t].pc \in {"wire", "attach"}
         \/ /\ Hears(CallerSocket, 0, NoSocket)
            /\ \/ \E t \in Threads : at[t].pc = "silence"
               \/ entry["up"].stop # 0

\* The answered entry holds the channel of every silence that nobody told to
\* stop, unless a TLS endpoint's reader started it.
SilenceIsHeld ==
  /\ \A i \in 1..MaxSilences :
       silence[i].runs => /\ silence[i].object = "up"
                          /\ ~silence[i].closed /\ ~call.tls =>
                               listed = "up" /\ entry["up"].stop = i
  /\ listed = "up" /\ entry["up"].stop # 0 =>
       /\ entry["up"].stop \in 1..MaxSilences
       /\ silence[entry["up"].stop].runs /\ ~silence[entry["up"].stop].closed
  /\ call.phase \in {"new", "ringing"} =>
       entry["up"].stop = 0 /\ \A i \in 1..MaxSilences : ~silence[i].runs

\* Only the entry in the table has somewhere to forward to, and it holds every
\* socket opened towards the recorder.
RecorderIsHeld ==
  /\ \A o \in Object : entry[o].dst \/ entry[o].conn # 0 => listed = o
  /\ \A c \in conns.open : c # 0 /\ \E o \in Object : c = entry[o].conn
  /\ listed # NoObject /\ call.attached => entry[listed].dst

HeardInv ==
  /\ Inv /\ WiringTypeOK
  /\ EntryFollowsPhase /\ ThreadsFollowPhase /\ WiredOrUnderway
  /\ SilenceIsHeld /\ RecorderIsHeld

USE DEF Threads, Thread

LEMMA HeardInit == Init => HeardInv
<1> SUFFICES ASSUME Init PROVE HeardInv
  OBVIOUS
<1>1. Inv
  BY InitEstablishes
<1>2. /\ call.phase = "new" /\ ~call.attached
      /\ listed = NoObject /\ entry = [o \in Object |-> NewEntry] /\ sockets = {}
      /\ conns = [opened |-> 0, open |-> {}]
      /\ silence = [i \in 1..MaxSilences |->
                      [object |-> NoObject, closed |-> FALSE, runs |-> FALSE]]
      /\ at = [t \in Threads |-> Idle]
      /\ callback = [s \in Socket |-> NoCallback] /\ rx = [s \in Socket |-> NoCallback]
  BY DEF Init
<1>3. WiringTypeOK
  BY <1>2 DEF WiringTypeOK, Callback, Silence, Idle
<1>4. EntryFollowsPhase /\ RecorderIsHeld
  BY <1>2 DEF EntryFollowsPhase, RecorderIsHeld, NewEntry
<1>5. ThreadsFollowPhase /\ WiredOrUnderway
  BY <1>2 DEF ThreadsFollowPhase, WiredOrUnderway, Idle
<1>6. SilenceIsHeld
  BY <1>2 DEF SilenceIsHeld, NewEntry
<1> QED
  BY <1>1, <1>3, <1>4, <1>5, <1>6 DEF HeardInv

LEMMA HeardRing == HeardInv /\ Ring => HeardInv'
<1> SUFFICES ASSUME HeardInv, Ring PROVE HeardInv'
  OBVIOUS
<1>1. /\ call.phase = "new" /\ call' = [call EXCEPT !.phase = "ringing"]
      /\ listed' = IF call.kind = "unrecorded" THEN NoObject ELSE "early"
      /\ UNCHANGED <<entry, sockets, callback, rx, silence, conns, at>>
  BY DEF Ring
<1>2. /\ call'.phase = "ringing" /\ call'.kind = call.kind /\ call'.tls = call.tls
      /\ ~call'.attached /\ listed = NoObject
  BY <1>1 DEF HeardInv, Inv, MediaTypeOK, Call, EntryFollowsPhase
<1>3. Inv' /\ WiringTypeOK'
  BY <1>1, RingPreserves DEF HeardInv, WiringTypeOK
<1>4. EntryFollowsPhase' /\ ThreadsFollowPhase' /\ WiredOrUnderway'
  BY <1>1, <1>2 DEF HeardInv, EntryFollowsPhase, ThreadsFollowPhase, WiredOrUnderway
<1>5. SilenceIsHeld'
  BY <1>1, <1>2 DEF HeardInv, SilenceIsHeld
<1>6. RecorderIsHeld'
  BY <1>1, <1>2 DEF HeardInv, RecorderIsHeld
<1> QED
  BY <1>3, <1>4, <1>5, <1>6 DEF HeardInv

LEMMA HeardJoin == HeardInv /\ Join => HeardInv'
<1> SUFFICES ASSUME HeardInv, Join PROVE HeardInv'
  OBVIOUS
<1> DEFINE rtp == IF call.kind = "dialin" /\ call.caller THEN CallerSocket ELSE NoSocket
<1>1. /\ call.phase = "new" /\ call.kind \in {"dialin", "room"}
      /\ call' = [call EXCEPT !.phase = "up"] /\ listed' = "up"
      /\ entry' = [entry EXCEPT !["up"].rtp = rtp] /\ sockets' = {rtp} \ {NoSocket}
      /\ UNCHANGED <<callback, rx, silence, conns, at>>
  BY DEF Join
<1>2. /\ call'.phase = "up" /\ call'.kind = call.kind /\ call'.tls = call.tls
      /\ ~call'.attached /\ listed = NoObject
  BY <1>1 DEF HeardInv, Inv, MediaTypeOK, Call, EntryFollowsPhase
<1>3. /\ entry["up"] \in Entry /\ entry["up"].peer = NoSocket
      /\ entry["up"].dst = FALSE /\ entry["up"].conn = 0
  BY <1>1, <1>2 DEF HeardInv, Inv, MediaTypeOK, NewIsEmpty, Entry, RecorderIsHeld
<1> HIDE DEF rtp
<1>4. /\ entry'["early"] = entry["early"] /\ entry'["up"].rtp = rtp
      /\ entry'["up"].peer = NoSocket /\ entry'["up"].dst = FALSE /\ entry'["up"].conn = 0
      /\ entry'["up"].stop = entry["up"].stop
  BY <1>1, <1>3 DEF HeardInv, Inv, MediaTypeOK, Entry
<1>5. entry["up"].stop = 0 /\ \A i \in 1..MaxSilences : ~silence[i].runs
  BY <1>1, <1>2 DEF HeardInv, SilenceIsHeld
<1>6. Inv' /\ WiringTypeOK'
  BY <1>1, JoinPreserves DEF HeardInv, WiringTypeOK
<1>7. EntryFollowsPhase' /\ ThreadsFollowPhase' /\ WiredOrUnderway'
  BY <1>1, <1>2, <1>4 DEF HeardInv, EntryFollowsPhase, ThreadsFollowPhase, WiredOrUnderway
<1>8. SilenceIsHeld'
  BY <1>1, <1>2, <1>4, <1>5 DEF HeardInv, SilenceIsHeld
<1>9. RecorderIsHeld'
  BY <1>1, <1>2, <1>4 DEF HeardInv, RecorderIsHeld
<1> QED
  BY <1>6, <1>7, <1>8, <1>9 DEF HeardInv

LEMMA HeardAnswer ==
  ASSUME HeardInv, NEW t \in Threads, Answer(t), ~call'.crossed
  PROVE  HeardInv'
<1> DEFINE rtp == IF call.caller THEN CallerSocket ELSE NoSocket
           peer == IF call.caller /\ call.callee THEN CalleeSocket ELSE NoSocket
           new == [NewEntry EXCEPT !.rtp = rtp, !.peer = peer]
           old == entry["early"]
           e == [new EXCEPT !.dst = old.dst, !.conn = old.conn]
           f == [old EXCEPT !.dst = FALSE, !.conn = 0, !.stop = 0]
           b == call.crossed \/ at["loop"].pc = "store"
<1>1. /\ call.phase = "ringing" /\ t = (IF call.tls THEN "reader" ELSE "loop")
      /\ call' = [call EXCEPT !.phase = "up", !.crossed = b]
      /\ sockets' = {rtp, peer} \ {NoSocket}
      /\ UNCHANGED <<callback, rx, conns>>
      /\ IF call.kind = "unrecorded" THEN UNCHANGED <<listed, entry, silence>>
         ELSE /\ listed' = "up" /\ entry' = [entry EXCEPT !["up"] = e, !["early"] = f]
              /\ silence' = ClosedSilence(old.stop)
      /\ IF rtp = NoSocket \/ call.kind = "unrecorded" THEN UNCHANGED at ELSE Goto(t, "wire")
  BY DEF Answer, merge
<1>2. /\ call'.phase = "up" /\ call'.kind = call.kind /\ call'.tls = call.tls
      /\ call'.attached = call.attached /\ listed # "up"
      /\ \A u \in Threads : at[u].pc = "idle"
  <2>1. call' = [call EXCEPT !.phase = "up", !.crossed = b] /\ call \in Call
        /\ call.phase = "ringing"
    BY <1>1 DEF HeardInv, Inv, MediaTypeOK
  <2>2. listed # "up"
    BY <2>1 DEF HeardInv, EntryFollowsPhase
  <2>4. ~b
    <3> HIDE DEF b
    <3> QED
      BY <2>1 DEF Call
  <2>3. \A u \in Threads : at[u].pc = "idle"
    BY <2>1, <2>2, <2>4 DEF HeardInv, ThreadsFollowPhase
  <2> HIDE DEF b
  <2> QED
    BY <2>1, <2>2, <2>3 DEF Call
<1>3. old.stop = 0 /\ old \in Entry /\ old.rtp = NoSocket /\ old.peer = NoSocket
  BY DEF HeardInv, EntryFollowsPhase, Inv, MediaTypeOK
<1>4. silence' = silence
  BY <1>1, <1>3 DEF ClosedSilence
<1>5. /\ at' \in [Threads -> Thread]
      /\ \A u \in Threads : u # t => at'[u].pc = "idle"
      /\ rtp = NoSocket \/ call.kind = "unrecorded" => at'[t].pc = "idle"
      /\ rtp # NoSocket /\ call.kind # "unrecorded" => at'[t].pc = "wire"
  <2>1. at \in [Threads -> Thread]
    BY DEF HeardInv, WiringTypeOK
  <2> HIDE DEF rtp
  <2>2. at' = at \/ at' = [at EXCEPT ![t].pc = "wire"]
    BY <1>1 DEF Goto
  <2>3. at' \in [Threads -> Thread]
    BY <2>1, <2>2
  <2>4. \A u \in Threads : u # t => at'[u].pc = "idle"
    BY <1>2, <2>1, <2>2
  <2> QED
    BY <1>1, <1>2, <2>1, <2>3, <2>4 DEF Goto
<1>6. Inv' /\ WiringTypeOK'
  BY <1>1, <1>4, <1>5, AnswerPreserves DEF HeardInv, WiringTypeOK
<1>7. CASE call.kind = "unrecorded"
  <2>1. UNCHANGED <<listed, entry, silence, at, conns>> /\ listed = NoObject
    BY <1>1, <1>7 DEF HeardInv, Inv, UnrecordedIsUnlisted
  <2>2. EntryFollowsPhase' /\ ThreadsFollowPhase' /\ WiredOrUnderway'
    BY <1>2, <1>7, <2>1 DEF HeardInv, EntryFollowsPhase, ThreadsFollowPhase, WiredOrUnderway
  <2>3. SilenceIsHeld'
    BY <1>2, <1>7, <2>1 DEF HeardInv, SilenceIsHeld
  <2>4. RecorderIsHeld'
    BY <1>2, <2>1 DEF HeardInv, RecorderIsHeld
  <2> QED
    BY <1>6, <2>2, <2>3, <2>4 DEF HeardInv
<1>8. CASE call.kind # "unrecorded"
  <2>1. /\ listed' = "up" /\ entry' = [entry EXCEPT !["up"] = e, !["early"] = f]
    BY <1>1, <1>8
  <2>2. /\ rtp \in {NoSocket, CallerSocket} /\ peer \in {NoSocket, CalleeSocket}
        /\ peer # NoSocket => rtp # NoSocket
    OBVIOUS
  <2> HIDE DEF rtp, peer, old
  <2>3. /\ e.rtp = rtp /\ e.peer = peer /\ e.dst = old.dst /\ e.conn = old.conn /\ e.stop = 0
        /\ f.rtp = NoSocket /\ f.peer = NoSocket /\ f.dst = FALSE /\ f.conn = 0 /\ f.stop = 0
    BY <1>3, <2>2 DEF NewEntry, Entry
  <2> HIDE DEF e, f
  <2>4. entry'["up"] = e /\ entry'["early"] = f
    BY <2>1 DEF HeardInv, Inv, MediaTypeOK
  <2>5. EntryFollowsPhase'
    BY <1>2, <2>1, <2>3, <2>4 DEF HeardInv, EntryFollowsPhase
  <2>6. ThreadsFollowPhase'
    BY <1>1, <1>2, <1>5, <2>1 DEF HeardInv, ThreadsFollowPhase
  <2>7. WiredOrUnderway'
    BY <1>5, <1>8, <2>2, <2>3, <2>4 DEF WiredOrUnderway
  <2>8. SilenceIsHeld'
    BY <1>2, <1>4, <2>1, <2>3, <2>4 DEF HeardInv, SilenceIsHeld
  <2>9. RecorderIsHeld'
    <3>1. entry["up"].dst = FALSE /\ entry["up"].conn = 0
      BY <1>2 DEF HeardInv, RecorderIsHeld, Inv, MediaTypeOK, Entry
    <3>2. \A c \in conns.open : c # 0 /\ c = e.conn
      BY <3>1, <2>3 DEF HeardInv, RecorderIsHeld, old
    <3>3. call.attached => e.dst
      BY <1>1, <1>2, <2>3 DEF HeardInv, RecorderIsHeld, EntryFollowsPhase, Inv, MediaTypeOK, old
    <3> QED
      BY <1>1, <1>2, <2>1, <2>3, <2>4, <3>2, <3>3 DEF RecorderIsHeld
  <2> QED
    BY <1>6, <2>5, <2>6, <2>7, <2>8, <2>9 DEF HeardInv
<1> QED
  BY <1>7, <1>8

\* A step that sets callbacks and moves threads disturbs what those are about only.
LEMMA OnlyWiring ==
  ASSUME HeardInv, UNCHANGED <<call, listed, entry, sockets, silence, conns>>
  PROVE  Inv' /\ EntryFollowsPhase' /\ SilenceIsHeld' /\ RecorderIsHeld'
<1>1. Inv'
  BY DEF HeardInv, Inv, MediaTypeOK, NewIsEmpty, UnrecordedIsUnlisted, OverIsUnlisted,
         ListedSocketsAreOpen, SocketsAreListed
<1>2. EntryFollowsPhase' /\ SilenceIsHeld'
  BY DEF HeardInv, EntryFollowsPhase, SilenceIsHeld
<1>3. RecorderIsHeld'
  BY DEF HeardInv, RecorderIsHeld
<1> QED
  BY <1>1, <1>2, <1>3

LEMMA HeardWireCaller ==
  ASSUME HeardInv, NEW t \in Threads, WireCaller(t)
  PROVE  HeardInv'
<1> DEFINE e == entry["up"]
           c(to) == [object |-> "up", stream |-> 0, to |-> to]
<1>1. /\ at[t].pc = "wire" /\ UNCHANGED <<call, listed, entry, sockets, rx, silence, conns>>
      /\ \/ e.rtp = NoSocket /\ at' = [at EXCEPT ![t] = Idle] /\ callback' = callback
         \/ /\ e.rtp # NoSocket /\ e.peer # NoSocket
            /\ callback' = [callback EXCEPT ![e.rtp] = c(e.peer)]
            /\ at' = [at EXCEPT ![t] = [pc |-> "wirePeer", object |-> "up", in |-> e.rtp,
                                         peer |-> e.peer]]
         \/ /\ e.rtp # NoSocket /\ e.peer = NoSocket
            /\ callback' = [callback EXCEPT ![e.rtp] = c(NoSocket)]
            /\ at' = [at EXCEPT ![t].pc = "silence"]
  BY DEF WireCaller, Done, Goto
<1>2. /\ at \in [Threads -> Thread] /\ callback \in [Socket -> Callback]
      /\ e.rtp \in Nat /\ e.peer \in {NoSocket, CalleeSocket}
  BY DEF HeardInv, WiringTypeOK, Inv, MediaTypeOK, Entry
<1> HIDE DEF e
<1>3. \A to \in Nat : c(to) \in Callback
  BY DEF Callback
<1>4. WiringTypeOK'
  <2>1. at' \in [Threads -> Thread]
    BY <1>1, <1>2 DEF Idle
  <2>2. callback' \in [Socket -> Callback]
    BY <1>1, <1>2, <1>3
  <2> QED
    BY <1>1, <2>1, <2>2 DEF HeardInv, WiringTypeOK
<1>5. /\ \A u \in Threads : u # t => at'[u] = at[u]
      /\ e.rtp = NoSocket => at'[t].pc = "idle"
      /\ e.rtp # NoSocket /\ e.peer # NoSocket =>
           at'[t] = [pc |-> "wirePeer", object |-> "up", in |-> e.rtp, peer |-> e.peer]
      /\ e.rtp # NoSocket /\ e.peer = NoSocket => at'[t].pc = "silence"
  BY <1>1, <1>2 DEF Idle
<1>6. ThreadsFollowPhase'
  BY <1>1, <1>2, <1>5 DEF HeardInv, ThreadsFollowPhase, e
<1>7. WiredOrUnderway'
  <2> SUFFICES ASSUME listed' = "up", entry'["up"].rtp = CallerSocket PROVE WiredOrUnderway'
    BY DEF WiredOrUnderway
  <2>1. e.rtp = CallerSocket /\ CallerSocket \in Socket /\ entry' = entry
    BY <1>1, MediaAssumption DEF Socket, e
  <2>2. callback' = [callback EXCEPT ![CallerSocket] = c(e.peer)]
    BY <1>1, <1>2, <2>1
  <2>3. callback'[CallerSocket] = c(e.peer)
    BY <1>2, <2>1, <2>2
  <2>4. CASE e.peer = NoSocket
    BY <1>5, <2>1, <2>3, <2>4 DEF WiredOrUnderway, Hears, e
  <2>5. CASE e.peer # NoSocket
    BY <1>2, <1>5, <2>1, <2>3, <2>5 DEF WiredOrUnderway, Hears, e
  <2> QED
    BY <2>4, <2>5
<1> QED
  BY <1>1, <1>4, <1>6, <1>7, OnlyWiring DEF HeardInv

LEMMA HeardWireCallee ==
  ASSUME HeardInv, NEW t \in Threads, WireCallee(t)
  PROVE  HeardInv'
<1> DEFINE c == [object |-> "up", stream |-> 1, to |-> at[t].in]
<1>1. /\ at[t].pc = "wirePeer" /\ UNCHANGED <<call, listed, entry, sockets, rx, silence, conns>>
      /\ callback' = [callback EXCEPT ![at[t].peer] = c]
      /\ at' = [at EXCEPT ![t] = Idle]
  BY DEF WireCallee, Done
<1>2. /\ at \in [Threads -> Thread] /\ callback \in [Socket -> Callback]
      /\ at[t].peer = CalleeSocket
      /\ listed = "up" /\ entry["up"].rtp = CallerSocket => at[t].in = CallerSocket
  BY <1>1 DEF HeardInv, WiringTypeOK, ThreadsFollowPhase
<1>3. c \in Callback
  BY <1>2 DEF Callback
<1>4. /\ \A u \in Threads : u # t => at'[u] = at[u]
      /\ at'[t].pc = "idle"
      /\ at' \in [Threads -> Thread]
  BY <1>1, <1>2 DEF Idle
<1>5. /\ CalleeSocket \in Socket /\ callback'[CalleeSocket] = c
      /\ callback'[CallerSocket] = callback[CallerSocket]
  BY <1>1, <1>2, MediaAssumption DEF Socket
<1>6. callback' \in [Socket -> Callback]
  BY <1>1, <1>2, <1>3
<1>7. WiringTypeOK' /\ ThreadsFollowPhase'
  BY <1>1, <1>4, <1>6 DEF HeardInv, WiringTypeOK, ThreadsFollowPhase
<1>8. WiredOrUnderway'
  <2> SUFFICES ASSUME listed' = "up", entry'["up"].rtp = CallerSocket PROVE WiredOrUnderway'
    BY DEF WiredOrUnderway
  <2>1. callback'[CalleeSocket] = [object |-> "up", stream |-> 1, to |-> CallerSocket]
    BY <1>1, <1>2, <1>5
  <2>2. \A u \in Threads : at[u].pc \in {"wire", "attach", "silence"} => at'[u] = at[u]
    BY <1>1, <1>4
  <2>3. entry["up"].peer # NoSocket =>
          \/ \E u \in Threads : at'[u].pc = "wire"
          \/ Hears(CallerSocket, 0, CalleeSocket)' /\ Hears(CalleeSocket, 1, CallerSocket)'
    BY <1>1, <1>5, <2>1, <2>2 DEF HeardInv, WiredOrUnderway, Hears
  <2>4. call.attached /\ entry["up"].peer = NoSocket =>
          \/ \E u \in Threads : at'[u].pc \in {"wire", "attach"}
          \/ /\ Hears(CallerSocket, 0, NoSocket)'
             /\ \/ \E u \in Threads : at'[u].pc = "silence"
                \/ entry["up"].stop # 0
    BY <1>1, <1>5, <2>2 DEF HeardInv, WiredOrUnderway, Hears
  <2> QED
    BY <1>1, <2>3, <2>4 DEF WiredOrUnderway
<1> QED
  BY <1>1, <1>7, <1>8, OnlyWiring DEF HeardInv

LEMMA HeardStartSilence ==
  ASSUME HeardInv, NEW t \in Threads, StartSilence(t)
  PROVE  HeardInv'
<1>1. /\ at[t].pc = "silence" /\ at' = [at EXCEPT ![t] = Idle]
      /\ UNCHANGED <<call, listed, sockets, callback, rx, conns>>
  BY DEF StartSilence, Done
<1>2. at \in [Threads -> Thread]
  BY DEF HeardInv, WiringTypeOK
<1>3. /\ \A u \in Threads : u # t => at'[u] = at[u]
      /\ at'[t].pc = "idle"
      /\ at' \in [Threads -> Thread]
  BY <1>1, <1>2 DEF Idle
<1>4. Inv'
  BY WiringIsQuiet, QuietPreserves DEF HeardInv
<1>5. CASE entry["up"].stop # 0
  <2>1. UNCHANGED <<silence, entry>>
    BY <1>5 DEF StartSilence
  <2>2. WiringTypeOK' /\ ThreadsFollowPhase'
    BY <1>1, <1>3, <2>1 DEF HeardInv, WiringTypeOK, ThreadsFollowPhase
  <2>3. WiredOrUnderway'
    <3>1. \A u \in Threads : at[u].pc \in {"wire", "wirePeer", "attach"} => at'[u] = at[u]
      BY <1>1, <1>3
    <3> QED
      BY <1>1, <1>5, <2>1, <3>1 DEF HeardInv, WiredOrUnderway, Hears
  <2> QED
    BY <1>1, <2>1, <2>2, <2>3, OnlyWiring DEF HeardInv
<1>6. CASE entry["up"].stop = 0
  <2> DEFINE new == [object |-> "up", closed |-> FALSE, runs |-> TRUE]
  <2>1. PICK i \in 1..MaxSilences :
          /\ silence' = [silence EXCEPT ![i] = new]
          /\ entry' = [entry EXCEPT !["up"].stop = i]
    BY <1>6 DEF StartSilence
  <2>2. /\ silence \in [1..MaxSilences -> Silence] /\ entry["up"] \in Entry
        /\ i \in Nat \ {0} /\ new \in Silence
    BY MediaAssumption DEF HeardInv, WiringTypeOK, Inv, MediaTypeOK, Silence
  <2>3. /\ silence' \in [1..MaxSilences -> Silence] /\ silence'[i] = new
        /\ \A j \in 1..MaxSilences : j # i => silence'[j] = silence[j]
    BY <2>1, <2>2
  <2>4. /\ entry'["early"] = entry["early"] /\ entry'["up"].stop = i
        /\ entry'["up"].rtp = entry["up"].rtp /\ entry'["up"].peer = entry["up"].peer
        /\ entry'["up"].dst = entry["up"].dst /\ entry'["up"].conn = entry["up"].conn
    BY <2>1, <2>2 DEF HeardInv, Inv, MediaTypeOK, Entry
  <2>5. WiringTypeOK' /\ ThreadsFollowPhase'
    BY <1>1, <1>3, <2>3, <2>4 DEF HeardInv, WiringTypeOK, ThreadsFollowPhase
  <2>6. WiredOrUnderway'
    <3>1. \A u \in Threads : at[u].pc \in {"wire", "wirePeer", "attach"} => at'[u] = at[u]
      BY <1>1, <1>3
    <3> QED
      BY <1>1, <2>2, <2>4, <3>1 DEF HeardInv, WiredOrUnderway, Hears
  <2>7. SilenceIsHeld'
    <3>1. at[t].pc = "silence"
      BY <1>1
    <3>2. call.phase \in {"up", "over"} /\ (~call.tls => listed = "up")
      BY <3>1 DEF HeardInv, ThreadsFollowPhase, EntryFollowsPhase
    <3>3. \A j \in 1..MaxSilences : silence[j].runs =>
            silence[j].object = "up" /\ (silence[j].closed \/ call.tls)
      BY <1>6, <2>2 DEF HeardInv, SilenceIsHeld
    <3> QED
      BY <1>1, <2>2, <2>3, <2>4, <3>2, <3>3 DEF SilenceIsHeld
  <2>8. EntryFollowsPhase'
    BY <1>1, <2>4 DEF HeardInv, Inv, MediaTypeOK, EntryFollowsPhase
  <2>9. RecorderIsHeld'
    BY <1>1, <2>4 DEF HeardInv, Inv, MediaTypeOK, RecorderIsHeld
  <2> QED
    BY <1>4, <2>5, <2>6, <2>7, <2>8, <2>9 DEF HeardInv
<1> QED
  BY <1>5, <1>6 DEF HeardInv, Inv, MediaTypeOK, Entry

LEMMA HeardAttachLookUp == HeardInv /\ AttachLookUp => HeardInv'
<1> SUFFICES ASSUME HeardInv, AttachLookUp PROVE HeardInv'
  OBVIOUS
<1> DEFINE n == call.answers + 1
           th == [Idle EXCEPT !.pc = "store", !.object = listed]
<1>1. /\ at["loop"].pc = "idle" /\ call' = [call EXCEPT !.answers = n]
      /\ UNCHANGED <<listed, entry, sockets, callback, rx, silence, conns>>
      /\ at' = at \/ (listed # NoObject /\ at' = [at EXCEPT !["loop"] = th])
  BY DEF AttachLookUp
<1>2. /\ call'.phase = call.phase /\ call'.kind = call.kind /\ call'.tls = call.tls
      /\ call'.attached = call.attached
  <2> HIDE DEF n
  <2> QED
    BY <1>1 DEF HeardInv, Inv, MediaTypeOK, Call
<1>3. at \in [Threads -> Thread] /\ listed \in Object \cup {NoObject}
  BY DEF HeardInv, WiringTypeOK, Inv, MediaTypeOK
<1>4. th \in Thread /\ th.pc = "store" /\ th.object = listed
  BY <1>3 DEF Idle
<1> HIDE DEF th
<1>5. /\ at' \in [Threads -> Thread] /\ at'["reader"] = at["reader"]
      /\ at'["loop"] = at["loop"] \/ (listed # NoObject /\ at'["loop"] = th)
  <2>1. CASE at' = at
    BY <1>3, <2>1
  <2>2. CASE at' = [at EXCEPT !["loop"] = th] /\ listed # NoObject
    BY <1>3, <1>4, <2>2
  <2> QED
    BY <1>1, <2>1, <2>2
<1>6. Inv'
  BY AttachIsQuiet, QuietPreserves DEF HeardInv
<1>7. WiringTypeOK'
  BY <1>1, <1>5 DEF HeardInv, WiringTypeOK
<1>8. EntryFollowsPhase' /\ SilenceIsHeld' /\ RecorderIsHeld'
  BY <1>1, <1>2 DEF HeardInv, EntryFollowsPhase, SilenceIsHeld, RecorderIsHeld
<1>9. ThreadsFollowPhase'
  BY <1>1, <1>2, <1>4, <1>5 DEF HeardInv, ThreadsFollowPhase
<1>10. WiredOrUnderway'
  <2>1. ASSUME NEW u \in Threads, at[u].pc # "idle" PROVE at'[u] = at[u]
    BY <1>1, <1>5, <2>1
  <2> QED
    BY <1>1, <1>2, <2>1 DEF HeardInv, WiredOrUnderway, Hears
<1> QED
  BY <1>6, <1>7, <1>8, <1>9, <1>10 DEF HeardInv

LEMMA HeardAttach == HeardInv /\ Attach => HeardInv'
<1> SUFFICES ASSUME HeardInv, Attach PROVE HeardInv'
  OBVIOUS
<1> DEFINE wires == entry[listed].rtp # NoSocket /\ entry[listed].peer = NoSocket
<1>1. /\ at["loop"].pc = "store" /\ at["loop"].object = listed /\ listed # NoObject
      /\ call' = [call EXCEPT !.attached = TRUE]
      /\ UNCHANGED <<listed, sockets, callback, rx, silence, conns>>
      /\ entry' = [entry EXCEPT ![listed].dst = TRUE]
      /\ IF wires THEN at' = [at EXCEPT !["loop"].pc = "attach"]
         ELSE at' = [at EXCEPT !["loop"] = Idle]
  BY DEF Attach, Goto, Done, HeardInv, ThreadsFollowPhase
<1>2. /\ call'.phase = call.phase /\ call'.kind = call.kind /\ call'.tls = call.tls
      /\ call'.attached = TRUE
  BY <1>1 DEF HeardInv, Inv, MediaTypeOK, Call
<1>3. /\ at \in [Threads -> Thread]
      /\ listed \in Object /\ entry \in [Object -> Entry]
  BY <1>1 DEF HeardInv, WiringTypeOK, Inv, MediaTypeOK
<1>4. /\ at' \in [Threads -> Thread]
      /\ at'["reader"] = at["reader"]
      /\ wires => at'["loop"].pc = "attach"
      /\ ~wires => at'["loop"].pc = "idle"
  <2> HIDE DEF wires
  <2> QED
    BY <1>1, <1>3 DEF Idle
<1>5. /\ \A o \in Object :
           /\ entry'[o].rtp = entry[o].rtp /\ entry'[o].peer = entry[o].peer
           /\ entry'[o].conn = entry[o].conn /\ entry'[o].stop = entry[o].stop
           /\ entry'[o].dst => entry[o].dst \/ listed = o
      /\ entry'[listed].dst
  BY <1>1, <1>3 DEF Entry
<1>6. wires => listed = "up" /\ call.phase = "up"
  BY <1>3 DEF HeardInv, EntryFollowsPhase
<1>7. Inv'
  BY AttachIsQuiet, QuietPreserves DEF HeardInv
<1>8. WiringTypeOK'
  BY <1>1, <1>4 DEF HeardInv, WiringTypeOK
<1>9. EntryFollowsPhase'
  BY <1>1, <1>2, <1>5 DEF HeardInv, EntryFollowsPhase
<1>10. ThreadsFollowPhase'
  BY <1>1, <1>2, <1>4, <1>5, <1>6 DEF HeardInv, ThreadsFollowPhase
<1>11. WiredOrUnderway'
  <2> SUFFICES ASSUME listed' = "up", entry'["up"].rtp = CallerSocket PROVE WiredOrUnderway'
    BY DEF WiredOrUnderway
  <2>1. listed = "up" /\ entry["up"].rtp = CallerSocket
    BY <1>1, <1>5
  <2>2. CASE entry["up"].peer # NoSocket
    <3>1. ASSUME NEW u \in Threads, at[u].pc \in {"wire", "wirePeer"} PROVE at'[u] = at[u]
      BY <1>1, <1>4, <3>1
    <3> QED
      BY <1>1, <1>5, <2>1, <2>2, <3>1 DEF HeardInv, WiredOrUnderway, Hears
  <2>3. CASE entry["up"].peer = NoSocket
    BY <1>4, <1>5, <2>1, <2>3 DEF WiredOrUnderway
  <2> QED
    BY <2>2, <2>3
<1>12. SilenceIsHeld'
  BY <1>1, <1>2, <1>5 DEF HeardInv, SilenceIsHeld
<1>13. RecorderIsHeld'
  BY <1>1, <1>2, <1>3, <1>5 DEF HeardInv, RecorderIsHeld
<1> QED
  BY <1>7, <1>8, <1>9, <1>10, <1>11, <1>12, <1>13 DEF HeardInv

LEMMA HeardWireCallerOnly == HeardInv /\ WireCallerOnly => HeardInv'
<1> SUFFICES ASSUME HeardInv, WireCallerOnly PROVE HeardInv'
  OBVIOUS
<1> DEFINE c == [object |-> "up", stream |-> 0, to |-> NoSocket]
<1>1. /\ at["loop"].pc = "attach"
      /\ IF entry["up"].rtp = NoSocket THEN at' = [at EXCEPT !["loop"] = Idle] /\ callback' = callback
         ELSE /\ callback' = [callback EXCEPT ![entry["up"].rtp] = c]
              /\ at' = [at EXCEPT !["loop"].pc = "silence"]
      /\ UNCHANGED <<call, listed, entry, sockets, rx, silence, conns>>
  BY DEF WireCallerOnly, Goto, Done
<1>2. /\ at \in [Threads -> Thread] /\ callback \in [Socket -> Callback]
      /\ entry["up"].peer = NoSocket /\ listed = "up"
  BY <1>1 DEF HeardInv, WiringTypeOK, ThreadsFollowPhase
<1>3. c \in Callback
  BY DEF Callback
<1>4. /\ at' \in [Threads -> Thread]
      /\ at'["loop"].pc = (IF entry["up"].rtp = NoSocket THEN "idle" ELSE "silence")
      /\ at'["reader"] = at["reader"] /\ callback' \in [Socket -> Callback]
  BY <1>1, <1>2, <1>3 DEF Idle
<1>5. WiringTypeOK' /\ ThreadsFollowPhase'
  BY <1>1, <1>2, <1>4 DEF HeardInv, WiringTypeOK, ThreadsFollowPhase
<1>6. entry["up"].rtp = CallerSocket => callback'[CallerSocket] = c
  BY <1>1, <1>2, MediaAssumption DEF Socket
<1>7. WiredOrUnderway'
  BY <1>1, <1>2, <1>4, <1>6 DEF WiredOrUnderway, Hears
<1> QED
  BY <1>1, <1>5, <1>7, OnlyWiring DEF HeardInv

LEMMA HeardReinvite == HeardInv /\ Reinvite => HeardInv'
<1> SUFFICES ASSUME HeardInv, Reinvite PROVE HeardInv'
  OBVIOUS
<1> DEFINE n == call.reinvites + 1
           rtp == entry[listed].rtp
           new == 3 + call.reinvites
<1>1. /\ call.phase = "up" /\ at["loop"].pc = "idle" /\ listed # NoObject
      /\ call' = [call EXCEPT !.reinvites = n]
      /\ UNCHANGED <<listed, callback, rx, silence, conns, at>>
      /\ \/ UNCHANGED <<entry, sockets>>
         \/ /\ entry' = [entry EXCEPT ![listed].rtp = new] /\ sockets' = sockets \cup {new}
            /\ rtp = NoSocket
         \/ entry' = [entry EXCEPT ![listed].rtp = NoSocket] /\ sockets' = sockets \ {rtp}
  BY DEF Reinvite
<1>2. /\ n \in Nat /\ new \in Nat \ {NoSocket, CallerSocket, CalleeSocket}
      /\ entry \in [Object -> Entry]
  BY DEF HeardInv, Inv, MediaTypeOK, Call
<1>3. listed = "up"
  BY <1>1 DEF HeardInv, EntryFollowsPhase, Inv, MediaTypeOK
<1> HIDE DEF n, new
<1>4. /\ call'.phase = call.phase /\ call'.kind = call.kind /\ call'.tls = call.tls
      /\ call'.attached = call.attached
  BY <1>1, <1>2 DEF HeardInv, Inv, MediaTypeOK, Call
<1>5. /\ entry'["early"] = entry["early"]
      /\ entry'["up"].peer = entry["up"].peer /\ entry'["up"].dst = entry["up"].dst
      /\ entry'["up"].conn = entry["up"].conn /\ entry'["up"].stop = entry["up"].stop
      /\ \/ entry'["up"].rtp = entry["up"].rtp /\ sockets' = sockets
         \/ entry'["up"].rtp = new /\ sockets' = sockets \cup {new} /\ rtp = NoSocket
         \/ entry'["up"].rtp = NoSocket /\ sockets' = sockets \ {rtp}
  BY <1>1, <1>2, <1>3 DEF Entry
<1>6. entry'["up"].rtp = CallerSocket => entry["up"].rtp = CallerSocket
  BY <1>2, <1>5
<1>7. Inv' /\ WiringTypeOK'
  BY <1>1, ReinvitePreserves DEF HeardInv, WiringTypeOK
<1>8. EntryFollowsPhase' /\ ThreadsFollowPhase'
  BY <1>1, <1>4, <1>5, <1>6 DEF HeardInv, EntryFollowsPhase, ThreadsFollowPhase
<1>9. WiredOrUnderway'
  BY <1>1, <1>4, <1>5, <1>6 DEF HeardInv, WiredOrUnderway, Hears
<1>10. SilenceIsHeld'
  BY <1>1, <1>4, <1>5 DEF HeardInv, SilenceIsHeld
<1>11. RecorderIsHeld'
  <2>1. \A o \in Object : entry'[o].dst = entry[o].dst /\ entry'[o].conn = entry[o].conn
    BY <1>5
  <2> QED
    BY <1>1, <1>3, <1>4, <2>1 DEF HeardInv, RecorderIsHeld
<1> QED
  BY <1>7, <1>8, <1>9, <1>10, <1>11 DEF HeardInv

LEMMA HeardHangUp ==
  ASSUME HeardInv, HangUp \/ Drop, ~call'.crossed
  PROVE  HeardInv'
<1> DEFINE e == entry[listed]
           open == conns.open \ {e.conn}
<1>1. /\ listed' = NoObject /\ UNCHANGED <<callback, rx, at>>
      /\ IF listed = NoObject THEN UNCHANGED <<entry, sockets, silence, conns>>
         ELSE /\ entry' = [entry EXCEPT ![listed] = NewEntry]
              /\ sockets' = sockets \ {e.rtp, e.peer}
              /\ silence' = ClosedSilence(e.stop)
              /\ conns' = [conns EXCEPT !.open = open]
  <2>1. TakeDown /\ UNCHANGED <<callback, rx, at>>
    <3>1. CASE HangUp
      BY <3>1 DEF HangUp
    <3>2. CASE Drop
      BY <3>2 DEF Drop
    <3> QED
      BY <3>1, <3>2
  <2> QED
    BY <2>1 DEF TakeDown, clear
<1>2. /\ call'.kind = call.kind /\ call'.tls = call.tls /\ at["loop"].pc = "idle"
      /\ \/ call'.phase = "over" /\ call.phase # "new"
         \/ /\ call'.phase = "ringing" /\ ~call'.attached /\ call.phase = "ringing"
            /\ at["reader"].pc = "idle"
  <2>1. CASE HangUp
    BY <2>1 DEF HangUp, HeardInv, Inv, MediaTypeOK, Call
  <2>2. CASE Drop
    <3> DEFINE p == IF listed = "up" THEN "over" ELSE call.phase
               b == call.crossed \/ \E t \in Threads : at[t].pc # "idle"
    <3>1. call' = [call EXCEPT !.phase = p, !.attached = FALSE, !.crossed = b]
          /\ listed # NoObject
      BY <2>2 DEF Drop
    <3>2. call \in Call /\ listed \in Object \cup {NoObject}
      BY DEF HeardInv, Inv, MediaTypeOK
    <3>3. ~b
      <4> HIDE DEF p, b
      <4> QED
        BY <3>1, <3>2 DEF Call
    <3>4. \/ listed = "up" /\ p = "over" /\ call.phase = "up"
          \/ listed = "early" /\ p = "ringing" /\ call.phase = "ringing"
      BY <3>1, <3>2 DEF HeardInv, EntryFollowsPhase
    <3>5. at["loop"].pc = "idle" /\ at["reader"].pc = "idle"
      BY <3>3
    <3> HIDE DEF p, b
    <3> QED
      BY <3>1, <3>2, <3>4, <3>5 DEF Call
  <2> QED
    BY <2>1, <2>2
<1>3. Inv'
  BY HangUpPreserves DEF HeardInv
<1>4. silence \in [1..MaxSilences -> Silence] /\ entry \in [Object -> Entry]
  BY DEF HeardInv, WiringTypeOK, Inv, MediaTypeOK
<1>5. /\ silence' \in [1..MaxSilences -> Silence]
      /\ \A i \in 1..MaxSilences :
           /\ silence'[i].runs = silence[i].runs /\ silence'[i].object = silence[i].object
           /\ silence[i].closed => silence'[i].closed
           /\ listed # NoObject /\ e.stop = i => silence'[i].closed
  <2>1. CASE silence' = silence
    <3>1. listed # NoObject => silence' = ClosedSilence(e.stop) 
      BY <1>1
    <3>2. listed # NoObject /\ e.stop # 0 => silence' = [silence EXCEPT ![e.stop].closed = TRUE]
      BY <3>1 DEF ClosedSilence
    <3> QED
      BY <1>4, <2>1, <3>2 DEF Silence
  <2>2. CASE silence' # silence
    <3>1. silence' = [silence EXCEPT ![e.stop].closed = TRUE]
      BY <1>1, <2>2 DEF ClosedSilence
    <3> QED
      BY <1>4, <3>1 DEF Silence
  <2> QED
    BY <2>1, <2>2
<1>6. WiringTypeOK'
  BY <1>1, <1>5 DEF HeardInv, WiringTypeOK
<1>7. EntryFollowsPhase' /\ ThreadsFollowPhase' /\ WiredOrUnderway'
  <2>1. entry'["early"].rtp = NoSocket /\ entry'["early"].peer = NoSocket
        /\ entry'["early"].stop = 0
    BY <1>1, <1>4 DEF HeardInv, EntryFollowsPhase, NewEntry
  <2> QED
    BY <1>1, <1>2, <2>1 DEF HeardInv, EntryFollowsPhase, ThreadsFollowPhase, WiredOrUnderway
<1>8. SilenceIsHeld'
  <2>1. ASSUME NEW i \in 1..MaxSilences, silence'[i].runs
        PROVE  silence'[i].object = "up" /\ (silence'[i].closed \/ call.tls)
    BY <1>1, <1>5, <2>1 DEF HeardInv, SilenceIsHeld
  <2>2. call.phase = "ringing" =>
          entry'["up"].stop = 0 /\ \A i \in 1..MaxSilences : ~silence'[i].runs
    BY <1>1, <1>4, <1>5 DEF HeardInv, SilenceIsHeld, NewEntry
  <2> QED
    BY <1>1, <1>2, <2>1, <2>2 DEF SilenceIsHeld
<1>9. RecorderIsHeld' /\ conns'.open = {}
  <2>1. listed \in Object \cup {NoObject} /\ conns \in [opened : Nat, open : SUBSET Nat]
    BY DEF HeardInv, Inv, MediaTypeOK
  <2>2. \A o \in Object : entry'[o].dst = FALSE /\ entry'[o].conn = 0
    BY <1>1, <1>4, <2>1 DEF HeardInv, RecorderIsHeld, NewEntry, Entry
  <2>3. \A c \in conns.open : listed # NoObject /\ c = e.conn
    BY <2>1 DEF HeardInv, RecorderIsHeld
  <2>4. conns'.open = {}
    <3>1. open = {}
      BY <2>1, <2>3
    <3> HIDE DEF open
    <3> QED
      BY <1>1, <2>1, <2>3, <3>1
  <2> QED
    BY <1>1, <2>2, <2>4 DEF RecorderIsHeld
<1> QED
  BY <1>3, <1>6, <1>7, <1>8, <1>9 DEF HeardInv

\* A packet or a tick is forwarded by the entry that has somewhere to forward to,
\* and that is the one in the table.
LEMMA HeardForward ==
  ASSUME HeardInv, NEW o \in Object, Forward(o), WiringTypeOK',
         UNCHANGED <<call, listed, sockets, callback, silence, at>>
  PROVE  HeardInv'
<1>1. CASE UNCHANGED <<conns, entry>>
  <2>1. ThreadsFollowPhase' /\ WiredOrUnderway'
    BY <1>1 DEF HeardInv, ThreadsFollowPhase, WiredOrUnderway, Hears
  <2> QED
    BY <1>1, <2>1, OnlyWiring DEF HeardInv
<1>2. CASE ~UNCHANGED <<conns, entry>>
  <2> DEFINE n == conns.opened + 1
  <2>1. /\ entry[o].dst /\ entry[o].conn = 0
        /\ entry' = [entry EXCEPT ![o].conn = n]
        /\ conns' = [opened |-> n, open |-> conns.open \cup {n}]
    BY <1>2 DEF Forward
  <2>2. n \in Nat \ {0} /\ entry \in [Object -> Entry]
    BY DEF HeardInv, Inv, MediaTypeOK
  <2> HIDE DEF n
  <2>3. /\ \A p \in Object :
             /\ entry'[p].rtp = entry[p].rtp /\ entry'[p].peer = entry[p].peer
             /\ entry'[p].dst = entry[p].dst /\ entry'[p].stop = entry[p].stop
             /\ p # o => entry'[p].conn = entry[p].conn
        /\ entry'[o].conn = n
    BY <2>1, <2>2 DEF Entry
  <2>4. Inv'
    BY ForwardIsQuiet, QuietPreserves DEF HeardInv
  <2>5. EntryFollowsPhase' /\ ThreadsFollowPhase' /\ WiredOrUnderway'
    BY <2>3 DEF HeardInv, EntryFollowsPhase, ThreadsFollowPhase, WiredOrUnderway, Hears
  <2>6. SilenceIsHeld'
    BY <2>3 DEF HeardInv, SilenceIsHeld
  <2>7. RecorderIsHeld'
    <3>1. listed = o
      BY <2>1 DEF HeardInv, RecorderIsHeld
    <3>2. \A c \in conns'.open : c # 0 /\ \E p \in Object : c = entry'[p].conn
      <4> SUFFICES ASSUME NEW c \in conns'.open
                   PROVE  c # 0 /\ \E p \in Object : c = entry'[p].conn
        OBVIOUS
      <4>1. CASE c = n
        BY <2>2, <2>3, <4>1
      <4>2. CASE c \in conns.open
        <5>1. PICK p \in Object : c # 0 /\ c = entry[p].conn
          BY <4>2 DEF HeardInv, RecorderIsHeld
        <5> QED
          BY <2>1, <2>3, <5>1
      <4> QED
        BY <2>1, <4>1, <4>2
    <3> QED
      BY <2>2, <2>3, <3>1, <3>2 DEF HeardInv, RecorderIsHeld, Inv, MediaTypeOK
  <2> QED
    BY <2>4, <2>5, <2>6, <2>7 DEF HeardInv
<1> QED
  BY <1>1, <1>2

LEMMA HeardPackets ==
  /\ \A s \in Socket : HeardInv /\ (Receive(s) \/ Deliver(s)) => HeardInv'
  /\ \A i \in 1..MaxSilences : HeardInv /\ (Tick(i) \/ SilenceEnds(i)) => HeardInv'
<1>1. ASSUME HeardInv, NEW s \in Socket, Receive(s) PROVE HeardInv'
  <2>1. UNCHANGED <<call, listed, entry, sockets, callback, silence, conns, at>>
    BY <1>1 DEF Receive
  <2>2. WiringTypeOK'
    BY <1>1, <2>1 DEF Receive, HeardInv, WiringTypeOK
  <2>3. ThreadsFollowPhase' /\ WiredOrUnderway'
    BY <1>1, <2>1 DEF HeardInv, ThreadsFollowPhase, WiredOrUnderway, Hears
  <2> QED
    BY <1>1, <2>1, <2>2, <2>3, OnlyWiring DEF HeardInv
<1>2. ASSUME HeardInv, NEW s \in Socket, Deliver(s) PROVE HeardInv'
  <2>1. /\ rx[s] # NoCallback /\ Forward(rx[s].object)
        /\ rx' = [rx EXCEPT ![s] = NoCallback]
        /\ UNCHANGED <<call, listed, sockets, callback, silence, at>>
    BY <1>2 DEF Deliver
  <2>2. rx[s].object \in Object
    BY <1>2, <2>1 DEF HeardInv, WiringTypeOK, Callback
  <2>3. WiringTypeOK'
    BY <1>2, <2>1 DEF HeardInv, WiringTypeOK, Callback
  <2> QED
    BY <1>2, <2>1, <2>2, <2>3, HeardForward
<1>3. ASSUME HeardInv, NEW i \in 1..MaxSilences, Tick(i) PROVE HeardInv'
  <2>1. /\ silence[i].runs /\ Forward(silence[i].object)
        /\ UNCHANGED <<call, listed, sockets, callback, rx, silence, at>>
    BY <1>3 DEF Tick
  <2>2. silence[i].object \in Object /\ WiringTypeOK'
    BY <1>3, <2>1 DEF HeardInv, WiringTypeOK, SilenceIsHeld
  <2> QED
    BY <1>3, <2>1, <2>2, HeardForward
<1>4. ASSUME HeardInv, NEW i \in 1..MaxSilences, SilenceEnds(i) PROVE HeardInv'
  <2>1. /\ silence[i].closed /\ silence' = [silence EXCEPT ![i].runs = FALSE]
        /\ UNCHANGED <<call, listed, entry, sockets, callback, rx, conns, at>>
    BY <1>4 DEF SilenceEnds
  <2>2. silence \in [1..MaxSilences -> Silence]
    BY <1>4 DEF HeardInv, WiringTypeOK
  <2>3. /\ silence' \in [1..MaxSilences -> Silence]
        /\ \A j \in 1..MaxSilences :
             /\ silence'[j].object = silence[j].object /\ silence'[j].closed = silence[j].closed
             /\ silence'[j].runs => silence[j].runs
             /\ j # i => silence'[j] = silence[j]
    BY <1>4, <2>1, <2>2 DEF Silence
  <2>4. Inv' /\ EntryFollowsPhase' /\ RecorderIsHeld'
    BY <1>4, <2>1 DEF HeardInv, Inv, MediaTypeOK, NewIsEmpty, UnrecordedIsUnlisted, OverIsUnlisted,
                      ListedSocketsAreOpen, EntryFollowsPhase, RecorderIsHeld, SocketsAreListed
  <2>5. ThreadsFollowPhase' /\ WiredOrUnderway' /\ WiringTypeOK'
    BY <1>4, <2>1, <2>3 DEF HeardInv, ThreadsFollowPhase, WiredOrUnderway, Hears, WiringTypeOK
  <2>6. SilenceIsHeld'
    BY <1>4, <2>1, <2>3 DEF HeardInv, SilenceIsHeld
  <2> QED
    BY <2>4, <2>5, <2>6 DEF HeardInv
<1> QED
  BY <1>1, <1>2, <1>3, <1>4

\* The invariant lasts until an entry is replaced or dropped while a handler has
\* it in hand.
LEMMA HeardStep == HeardInv /\ [Next]_mediaVars /\ ~call'.crossed => HeardInv'
<1> SUFFICES ASSUME HeardInv, [Next]_mediaVars, ~call'.crossed PROVE HeardInv'
  OBVIOUS
<1>1. CASE UNCHANGED mediaVars
  <2>1. UNCHANGED <<call, listed, entry, sockets, callback, rx, silence, conns, at>>
    BY <1>1 DEF mediaVars
  <2>2. ThreadsFollowPhase' /\ WiredOrUnderway' /\ WiringTypeOK'
    BY <2>1 DEF HeardInv, ThreadsFollowPhase, WiredOrUnderway, Hears, WiringTypeOK
  <2> QED
    BY <2>1, <2>2, OnlyWiring DEF HeardInv
<1>2. ASSUME NEW t \in Threads, Answer(t) \/ WireCaller(t) \/ WireCallee(t) \/ StartSilence(t)
      PROVE  HeardInv'
  BY <1>2, HeardAnswer, HeardWireCaller, HeardWireCallee, HeardStartSilence
<1> QED
  BY <1>1, <1>2, HeardRing, HeardJoin, HeardAttachLookUp, HeardAttach, HeardWireCallerOnly,
     HeardReinvite, HeardHangUp, HeardPackets DEF Next

LEMMA CrossedStays == Inv /\ [Next]_mediaVars /\ call.crossed => call'.crossed
<1> SUFFICES ASSUME Inv, [Next]_mediaVars, call.crossed PROVE call'.crossed
  OBVIOUS
<1>1. call \in Call
  BY DEF Inv, MediaTypeOK
<1>2. CASE UNCHANGED call
  BY <1>2
<1>3. CASE Ring \/ Join \/ AttachLookUp \/ Attach \/ Reinvite \/ HangUp
  <2>1. \/ \E p \in {"ringing", "up", "over"} : call' = [call EXCEPT !.phase = p]
        \/ call' = [call EXCEPT !.answers = @ + 1] \/ call' = [call EXCEPT !.attached = TRUE]
        \/ call' = [call EXCEPT !.reinvites = @ + 1]
    BY <1>3 DEF Ring, Join, AttachLookUp, Attach, Reinvite, HangUp
  <2> QED
    BY <1>1, <2>1 DEF Call
<1>4. CASE Drop
  <2> DEFINE p == IF listed = "up" THEN "over" ELSE call.phase
             b == call.crossed \/ \E t \in Threads : at[t].pc # "idle"
  <2>1. call' = [call EXCEPT !.phase = p, !.attached = FALSE, !.crossed = b] /\ b
    BY <1>4 DEF Drop
  <2> HIDE DEF p, b
  <2> QED
    BY <1>1, <2>1 DEF Call
<1>5. ASSUME NEW t \in Threads, Answer(t) PROVE call'.crossed
  <2> DEFINE b == call.crossed \/ at["loop"].pc = "store"
  <2>1. call' = [call EXCEPT !.phase = "up", !.crossed = b] /\ b
    BY <1>5 DEF Answer
  <2> HIDE DEF b
  <2> QED
    BY <1>1, <2>1 DEF Call
<1>6. ASSUME NEW t \in Threads, WireCaller(t) \/ WireCallee(t) \/ StartSilence(t)
      PROVE  UNCHANGED call
  BY <1>6 DEF WireCaller, WireCallee, StartSilence
<1>7. ASSUME NEW s \in Socket, Receive(s) \/ Deliver(s) PROVE UNCHANGED call
  BY <1>7 DEF Receive, Deliver
<1>8. ASSUME NEW i \in 1..MaxSilences, Tick(i) \/ SilenceEnds(i) PROVE UNCHANGED call
  BY <1>8 DEF Tick, SilenceEnds
<1> QED
  BY <1>2, <1>3, <1>4, <1>5, <1>6, <1>7, <1>8 DEF Next, mediaVars, WireCallerOnly

THEOREM HeardInvHolds == MediaSpec => [](Inv /\ (call.crossed \/ HeardInv))
<1>1. Init => Inv /\ (call.crossed \/ HeardInv)
  BY InitEstablishes, HeardInit
<1>2. Inv /\ (call.crossed \/ HeardInv) /\ [Next]_mediaVars
        => (Inv /\ (call.crossed \/ HeardInv))'
  BY StepPreserves, HeardStep, CrossedStays
<1> QED
  BY <1>1, <1>2, PTL DEF MediaSpec

\* Once no thread is in the middle of anything, the two parties of a call hear each
\* other and the recorder that has answered hears both, whatever order the
\* endpoint's and the recorder's answers came in, unless the entry was replaced or
\* dropped in a handler's hands (wireBridgeRTPRelay, mergeBridgeCallSIPRECState,
\* attachSIPRECMediaFromAnswer).
THEOREM EverySideIsHeardHolds == MediaSpec => []EverySideIsHeard
<1>1. Inv /\ (call.crossed \/ HeardInv) => EverySideIsHeard
  <2> SUFFICES ASSUME HeardInv, call.phase = "up", listed = "up", Settled,
                      entry["up"].rtp = CallerSocket
               PROVE  EverySideIsHeard
    BY DEF EverySideIsHeard
  <2>1. entry["up"].peer \in {NoSocket, CalleeSocket}
    BY DEF HeardInv, Inv, MediaTypeOK, Entry
  <2>2. \A t \in Threads : at[t].pc = "idle"
    BY DEF Settled
  <2>3. entry["up"].peer # NoSocket =>
          Hears(CallerSocket, 0, CalleeSocket) /\ Hears(CalleeSocket, 1, CallerSocket)
    BY <2>2 DEF HeardInv, WiredOrUnderway
  <2>4. call.attached /\ entry["up"].peer = NoSocket =>
          /\ Hears(CallerSocket, 0, NoSocket) /\ entry["up"].stop # 0
          /\ silence[entry["up"].stop].runs /\ ~silence[entry["up"].stop].closed
    BY <2>2 DEF HeardInv, WiredOrUnderway, SilenceIsHeld
  <2>5. call.attached => entry["up"].dst
    BY DEF HeardInv, RecorderIsHeld
  <2> QED
    BY <2>1, <2>3, <2>4, <2>5 DEF EverySideIsHeard, Hears
<1> QED
  BY <1>1, HeardInvHolds, PTL

\* What the hang-up or the drop leaves behind: no RTP socket in any case, and no
\* socket towards the recorder and no silence that goes on, unless it crossed a
\* handler (cleanupBridgeCallByKey, DropBridgeCall, clearBridgeSIPRECForwarding).
THEOREM NothingOutlivesTheCallHolds == MediaSpec => []NothingOutlivesTheCall
<1>1. Inv /\ (call.crossed \/ HeardInv) => NothingOutlivesTheCall
  <2> SUFFICES ASSUME Inv, call.crossed \/ HeardInv, call.phase = "over", Settled
               PROVE  NothingOutlivesTheCall
    BY DEF NothingOutlivesTheCall
  <2>1. listed = NoObject
    BY DEF Inv, OverIsUnlisted
  <2>2. call.kind # "unrecorded" => sockets = {}
    BY <2>1 DEF Inv, SocketsAreListed
  <2>3. ASSUME HeardInv PROVE conns.open = {}
    <3>1. \A o \in Object : entry[o].conn = 0
      BY <2>1, <2>3 DEF HeardInv, RecorderIsHeld
    <3> QED
      BY <2>3, <3>1 DEF HeardInv, RecorderIsHeld
  <2>4. ASSUME HeardInv, ~call.tls
        PROVE  \A i \in 1..MaxSilences : silence[i].runs => silence[i].closed
    BY <2>1, <2>4 DEF HeardInv, SilenceIsHeld
  <2> QED
    BY <2>2, <2>3, <2>4 DEF NothingOutlivesTheCall
<1> QED
  BY <1>1, HeardInvHolds, PTL

(***************************************************************************)
(* IPTV subscriptions, for any sources, requests and receivers: what is in *)
(* the table has not been closed, and only overlapping starts of one       *)
(* source leave a running receiver that nobody holds.                      *)
(***************************************************************************)
ReceiverState == [source : Source \cup {NoReceiver}, closed : BOOLEAN,
          reader : {"none", "read", "push", "onPacket", "done"}, queue : Nat,
          worker : {"none", "wait", "onPacket", "done"}, jbStop : BOOLEAN]

IptvTypeOK ==
  /\ subs \in [Source -> Receiver \cup {NoReceiver}]
  /\ handler \in [Handler -> [at : {"idle", "open", "insert", "close"},
                              source : Source \cup {NoReceiver},
                              receiver : Receiver \cup {NoReceiver}]]
  /\ receiver \in [Receiver -> ReceiverState]
  /\ overlapped \subseteq Source

\* A request holds a receiver exactly while it inserts or closes it, and what it
\* holds is a receiver of its source that is still open.
HeldIsOpen ==
  \A h \in Handler :
    LET a == handler[h]
    IN /\ (a.at \in {"insert", "close"}) = (a.receiver # NoReceiver)
       /\ a.at # "idle" => a.source \in Source
       /\ a.receiver # NoReceiver =>
            /\ receiver[a.receiver].source = a.source
            /\ receiver[a.receiver].reader # "none" /\ ~receiver[a.receiver].closed

\* No receiver is held twice, or held and listed.
HeldOnce ==
  /\ \A g, h \in Handler : handler[g].receiver = handler[h].receiver =>
       g = h \/ handler[g].receiver = NoReceiver
  /\ \A h \in Handler, s \in Source : subs[s] = handler[h].receiver => subs[s] = NoReceiver

IptvInv == IptvTypeOK /\ ListedReceiverIsLive /\ HeldIsOpen /\ HeldOnce /\ NoStrayReceiver
-----------------------------------------------------------------------------
LEMMA IptvInitEstablishes == IptvInit => IptvInv
<1> SUFFICES ASSUME IptvInit PROVE IptvInv
  OBVIOUS
<1>1. IptvTypeOK
  BY DEF IptvInit, IptvTypeOK, Free, In, NotStarted, ReceiverState
<1>2. ListedReceiverIsLive /\ HeldIsOpen /\ HeldOnce /\ NoStrayReceiver
  BY DEF IptvInit, ListedReceiverIsLive, HeldIsOpen, HeldOnce, NoStrayReceiver, Free, In,
         NotStarted
<1> QED
  BY <1>1, <1>2 DEF IptvInv

\* The goroutines of a receiver change what it is doing, never whose it is,
\* whether it was started or whether it was closed.
LEMMA RunsKeep ==
  ASSUME IptvTypeOK, NEW r \in Receiver, Runs(r)
  PROVE  /\ UNCHANGED <<subs, handler, overlapped>>
         /\ IptvTypeOK'
         /\ \A q \in Receiver :
              /\ receiver'[q].source = receiver[q].source
              /\ receiver'[q].closed = receiver[q].closed
              /\ (receiver'[q].reader = "none") = (receiver[q].reader = "none")
<1> USE IptvAssumption
<1> DEFINE v == receiver[r]
<1>0. v \in ReceiverState
  BY DEF IptvTypeOK
<1>1. \E w \in ReceiverState : w.source = v.source /\ w.closed = v.closed
                       /\ (w.reader = "none") = (v.reader = "none") /\ Step(r, w)
  <2>1. CASE Read(r)
    <3>1. \A x \in {"push", "onPacket"} : [v EXCEPT !.reader = x] \in ReceiverState
      BY <1>0 DEF ReceiverState
    <3>2. v.reader = "read"
      BY <2>1 DEF Read
    <3> QED
      BY <1>0, <2>1, <3>1, <3>2 DEF Read, ReceiverState
  <2>2. CASE Push(r)
    <3> DEFINE n == IF v.queue < QueueSize THEN v.queue + 1 ELSE v.queue
    <3>1. n \in Nat
      BY <1>0 DEF ReceiverState
    <3>2. [v EXCEPT !.reader = "read", !.queue = n] \in ReceiverState
      BY <1>0, <3>1 DEF ReceiverState
    <3>3. v.reader = "push" /\ Step(r, [v EXCEPT !.reader = "read", !.queue = n])
      BY <2>2 DEF Push
    <3> HIDE DEF n
    <3> QED
      BY <1>0, <3>2, <3>3 DEF ReceiverState
  <2>3. CASE TakePacket(r)
    <3>1. v.queue \in Nat /\ v.queue > 0
      BY <1>0, <2>3 DEF TakePacket, ReceiverState
    <3> DEFINE n == v.queue - 1
    <3>2. n \in Nat
      BY <3>1
    <3>3. Step(r, [v EXCEPT !.worker = "onPacket", !.queue = n])
      BY <2>3 DEF TakePacket
    <3> HIDE DEF n
    <3>4. [v EXCEPT !.worker = "onPacket", !.queue = n] \in ReceiverState
      BY <1>0, <3>2 DEF ReceiverState
    <3> QED
      BY <1>0, <3>3, <3>4 DEF ReceiverState
  <2>4. CASE OnPacket(r)
    <3>1. /\ [v EXCEPT !.reader = "read"] \in ReceiverState
          /\ [v EXCEPT !.worker = "wait"] \in ReceiverState
      BY <1>0 DEF ReceiverState
    <3>2. \/ v.reader = "onPacket" /\ Step(r, [v EXCEPT !.reader = "read"])
          \/ Step(r, [v EXCEPT !.worker = "wait"])
      BY <2>4 DEF OnPacket
    <3> QED
      BY <1>0, <3>1, <3>2 DEF ReceiverState
  <2>5. CASE ReaderEnds(r)
    <3>1. [v EXCEPT !.reader = "done"] \in ReceiverState
      BY <1>0 DEF ReceiverState
    <3> QED
      BY <1>0, <2>5, <3>1 DEF ReaderEnds, ReceiverState
  <2>6. CASE StopJitterBuffer(r)
    <3>1. [v EXCEPT !.jbStop = TRUE] \in ReceiverState
      BY <1>0 DEF ReceiverState
    <3> QED
      BY <1>0, <2>6, <3>1 DEF StopJitterBuffer, ReceiverState
  <2>7. CASE WorkerEnds(r)
    <3>1. [v EXCEPT !.worker = "done"] \in ReceiverState
      BY <1>0 DEF ReceiverState
    <3> QED
      BY <1>0, <2>7, <3>1 DEF WorkerEnds, ReceiverState
  <2> QED
    BY <2>1, <2>2, <2>3, <2>4, <2>5, <2>6, <2>7 DEF Runs
<1>2. PICK w \in ReceiverState : /\ w.source = v.source /\ w.closed = v.closed
                         /\ (w.reader = "none") = (v.reader = "none") /\ Step(r, w)
  BY <1>1
<1>3. /\ receiver' = [receiver EXCEPT ![r] = w]
      /\ UNCHANGED <<subs, handler, overlapped>>
  BY <1>2 DEF Step
<1>4. receiver'[r] = w /\ \A q \in Receiver \ {r} : receiver'[q] = receiver[q]
  BY <1>3 DEF IptvTypeOK
<1>5. receiver' \in [Receiver -> ReceiverState]
  BY <1>3 DEF IptvTypeOK
<1>6. IptvTypeOK'
  BY <1>3, <1>5 DEF IptvTypeOK
<1> QED
  BY <1>2, <1>3, <1>4, <1>6

LEMMA RunsPreserve ==
  ASSUME IptvInv, NEW r \in Receiver, Runs(r)
  PROVE  IptvInv'
<1>1. /\ UNCHANGED <<subs, handler, overlapped>>
      /\ IptvTypeOK'
      /\ \A q \in Receiver :
           /\ receiver'[q].source = receiver[q].source
           /\ receiver'[q].closed = receiver[q].closed
           /\ (receiver'[q].reader = "none") = (receiver[q].reader = "none")
  BY RunsKeep DEF IptvInv
<1>2. ListedReceiverIsLive'
  BY <1>1 DEF IptvInv, IptvTypeOK, ListedReceiverIsLive
<1>3. HeldIsOpen'
  BY <1>1 DEF IptvInv, IptvTypeOK, HeldIsOpen
<1>4. HeldOnce'
  BY <1>1 DEF IptvInv, HeldOnce
<1>5. NoStrayReceiver'
  BY <1>1 DEF IptvInv, NoStrayReceiver
<1> QED
  BY <1>1, <1>2, <1>3, <1>4, <1>5 DEF IptvInv

LEMMA StartCheckPreserves ==
  ASSUME IptvInv, NEW h \in Handler, NEW s \in Source, StartCheck(h, s)
  PROVE  IptvInv'
<1>0. /\ handler[h].receiver = NoReceiver
      /\ UNCHANGED <<subs, receiver, overlapped>>
      /\ handler' = [handler EXCEPT ![h] = In("open", s, NoReceiver)]
  BY DEF IptvInv, IptvTypeOK, HeldIsOpen, StartCheck
<1>1. /\ handler'[h] = In("open", s, NoReceiver)
      /\ \A g \in Handler \ {h} : handler'[g] = handler[g]
  BY <1>0 DEF IptvInv, IptvTypeOK
<1>2. \A g \in Handler : handler'[g].receiver = handler[g].receiver
  BY <1>0, <1>1 DEF In
<1>3. IptvTypeOK'
  BY <1>0 DEF IptvInv, IptvTypeOK, In
<1>4. ListedReceiverIsLive'
  BY <1>0 DEF IptvInv, ListedReceiverIsLive
<1>5. HeldIsOpen'
  BY <1>0, <1>1 DEF IptvInv, HeldIsOpen, In
<1>6. HeldOnce' /\ NoStrayReceiver'
  BY <1>0, <1>2 DEF IptvInv, HeldOnce, NoStrayReceiver
<1> QED
  BY <1>3, <1>4, <1>5, <1>6 DEF IptvInv

\* A receiver is new: nobody holds it and it is not listed.
LEMMA OpenPreserves ==
  ASSUME IptvInv, NEW h \in Handler, Open(h)
  PROVE  IptvInv'
<1> USE IptvAssumption
<1> DEFINE s == handler[h].source
<1> PICK r \in Receiver :
      /\ receiver[r].reader = "none"
      /\ receiver' = [receiver EXCEPT ![r] = Started(s)]
      /\ handler' = [handler EXCEPT ![h] = In("insert", s, r)]
  BY DEF Open
<1>0. /\ handler[h].at = "open" /\ handler[h].receiver = NoReceiver
      /\ s \in Source /\ UNCHANGED <<subs, overlapped>>
  BY DEF Open, IptvInv, IptvTypeOK, HeldIsOpen
<1>1. /\ \A g \in Handler : handler[g].receiver # r
      /\ \A t \in Source : subs[t] # r
  BY DEF IptvInv, HeldIsOpen, ListedReceiverIsLive
<1>2. /\ Started(s) \in ReceiverState /\ Started(s).source = s /\ Started(s).reader = "read"
      /\ ~Started(s).closed
  BY <1>0 DEF Started, NotStarted, ReceiverState
<1>3. /\ receiver'[r] = Started(s)
      /\ \A q \in Receiver \ {r} : receiver'[q] = receiver[q]
  BY DEF IptvInv, IptvTypeOK
<1>4. /\ handler'[h] = In("insert", s, r)
      /\ In("insert", s, r).at = "insert" /\ In("insert", s, r).source = s
      /\ In("insert", s, r).receiver = r
      /\ \A g \in Handler \ {h} : handler'[g] = handler[g]
  BY DEF IptvInv, IptvTypeOK, In
<1>9. IptvTypeOK'
  <2>1. receiver' \in [Receiver -> ReceiverState]
    BY <1>2 DEF IptvInv, IptvTypeOK
  <2>2. handler' \in [Handler -> [at : {"idle", "open", "insert", "close"},
                                  source : Source \cup {NoReceiver},
                                  receiver : Receiver \cup {NoReceiver}]]
    BY <1>0 DEF IptvInv, IptvTypeOK, In
  <2> QED
    BY <1>0, <2>1, <2>2 DEF IptvInv, IptvTypeOK
<1>5. ListedReceiverIsLive'
  BY <1>0, <1>1, <1>3 DEF IptvInv, IptvTypeOK, ListedReceiverIsLive
<1>6. HeldOnce'
  <2>0. \A g1, g2 \in Handler : handler[g1].receiver = handler[g2].receiver =>
          g1 = g2 \/ handler[g1].receiver = NoReceiver
    BY DEF IptvInv, HeldOnce
  <2>1. \A g1, g2 \in Handler : handler'[g1].receiver = handler'[g2].receiver =>
          g1 = g2 \/ handler'[g1].receiver = NoReceiver
    BY <1>1, <1>4, <2>0
  <2>2. \A g \in Handler, t \in Source : subs[t] = handler'[g].receiver => subs[t] = NoReceiver
    BY <1>1, <1>4 DEF IptvInv, HeldOnce
  <2> QED
    BY <1>0, <2>1, <2>2 DEF HeldOnce
<1>7. NoStrayReceiver'
  <2> SUFFICES ASSUME NEW q \in Receiver, receiver'[q].reader # "none", ~receiver'[q].closed
               PROVE  \/ subs'[receiver'[q].source] = q
                      \/ \E g \in Handler : handler'[g].receiver = q
                      \/ receiver'[q].source \in overlapped'
    BY DEF NoStrayReceiver
  <2>1. CASE q = r
    BY <1>4, <2>1
  <2>2. CASE q # r
    <3>1. \/ subs[receiver[q].source] = q
          \/ \E g \in Handler : handler[g].receiver = q
          \/ receiver[q].source \in overlapped
      BY <1>3, <2>2 DEF IptvInv, NoStrayReceiver
    <3>2. \A g \in Handler : handler[g].receiver = q => handler'[g].receiver = q
      BY <1>0, <1>4
    <3> QED
      BY <1>0, <1>3, <2>2, <3>1, <3>2
  <2> QED
    BY <2>1, <2>2
<1>8. HeldIsOpen'
  BY <1>0, <1>1, <1>2, <1>3, <1>4 DEF IptvInv, IptvTypeOK, HeldIsOpen
<1> QED
  BY <1>5, <1>6, <1>7, <1>8, <1>9 DEF IptvInv

LEMMA OpenFailsPreserves ==
  ASSUME IptvInv, NEW h \in Handler, OpenFails(h)
  PROVE  IptvInv'
<1>0. /\ handler[h].receiver = NoReceiver
      /\ UNCHANGED <<subs, receiver, overlapped>>
      /\ handler' = [handler EXCEPT ![h] = Free]
  BY DEF IptvInv, IptvTypeOK, HeldIsOpen, OpenFails
<1>1. handler'[h] = Free /\ \A g \in Handler \ {h} : handler'[g] = handler[g]
  BY <1>0 DEF IptvInv, IptvTypeOK
<1>2. \A g \in Handler : handler'[g].receiver = handler[g].receiver
  BY <1>0, <1>1 DEF Free, In
<1>3. IptvTypeOK'
  BY <1>0 DEF IptvInv, IptvTypeOK, Free, In
<1>4. ListedReceiverIsLive'
  BY <1>0 DEF IptvInv, ListedReceiverIsLive
<1>5. HeldIsOpen'
  BY <1>0, <1>1 DEF IptvInv, HeldIsOpen, Free, In
<1>6. HeldOnce' /\ NoStrayReceiver'
  BY <1>0, <1>2 DEF IptvInv, HeldOnce, NoStrayReceiver
<1> QED
  BY <1>3, <1>4, <1>5, <1>6 DEF IptvInv

\* What the insertion pushes out of the table belongs to a source that is
\* overlapped from then on.
LEMMA InsertPreserves ==
  ASSUME IptvInv, NEW h \in Handler, Insert(h)
  PROVE  IptvInv'
<1> USE IptvAssumption
<1> DEFINE r == handler[h].receiver
           s == handler[h].source
<1>0. /\ r \in Receiver /\ s \in Source
      /\ receiver[r].source = s /\ receiver[r].reader # "none" /\ ~receiver[r].closed
      /\ receiver' = receiver
  BY DEF IptvInv, IptvTypeOK, HeldIsOpen, Insert
<1>1. /\ handler' = [handler EXCEPT ![h] = Free]
      /\ handler'[h] = Free /\ \A g \in Handler \ {h} : handler'[g] = handler[g]
  BY DEF IptvInv, IptvTypeOK, Insert
<1>2. /\ subs' = [subs EXCEPT ![s] = r]
      /\ subs'[s] = r /\ \A t \in Source \ {s} : subs'[t] = subs[t]
  BY <1>0 DEF IptvInv, IptvTypeOK, Insert
<1>3. overlapped' = IF subs[s] = NoReceiver THEN overlapped ELSE overlapped \cup {s}
  BY DEF Insert
<1>4. IptvTypeOK'
  BY <1>0, <1>1, <1>2, <1>3 DEF IptvInv, IptvTypeOK, Free, In
<1>5. ListedReceiverIsLive'
  BY <1>0, <1>2 DEF IptvInv, ListedReceiverIsLive
<1>6. HeldIsOpen'
  BY <1>0, <1>1 DEF IptvInv, HeldIsOpen, Free, In
<1>7. HeldOnce'
  <2>1. \A g1, g2 \in Handler : handler'[g1].receiver = handler'[g2].receiver =>
          g1 = g2 \/ handler'[g1].receiver = NoReceiver
    BY <1>1 DEF IptvInv, HeldOnce, Free, In
  <2>2. ASSUME NEW g \in Handler, NEW t \in Source, subs'[t] = handler'[g].receiver
        PROVE  subs'[t] = NoReceiver
    <3>1. CASE g = h
      BY <1>1, <2>2, <3>1 DEF Free, In
    <3>2. CASE g # h /\ t = s
      BY <1>0, <1>1, <1>2, <2>2, <3>2 DEF IptvInv, HeldOnce
    <3>3. CASE g # h /\ t # s
      BY <1>1, <1>2, <2>2, <3>3 DEF IptvInv, HeldOnce
    <3> QED
      BY <3>1, <3>2, <3>3
  <2> QED
    BY <2>1, <2>2 DEF HeldOnce
<1>8. NoStrayReceiver'
  <2> SUFFICES ASSUME NEW q \in Receiver, receiver[q].reader # "none", ~receiver[q].closed
               PROVE  \/ subs'[receiver[q].source] = q
                      \/ \E g \in Handler : handler'[g].receiver = q
                      \/ receiver[q].source \in overlapped'
    BY <1>0 DEF NoStrayReceiver
  <2>1. CASE q = r
    BY <1>0, <1>2, <2>1
  <2>2. CASE q # r
    <3>1. \/ subs[receiver[q].source] = q
          \/ \E g \in Handler : handler[g].receiver = q
          \/ receiver[q].source \in overlapped
      BY DEF IptvInv, NoStrayReceiver
    <3>2. subs[receiver[q].source] = q =>
            subs'[receiver[q].source] = q \/ receiver[q].source \in overlapped'
      <4>1. CASE receiver[q].source = s
        BY <1>3, <4>1
      <4>2. CASE receiver[q].source # s
        BY <1>0, <1>2, <4>2 DEF IptvInv, IptvTypeOK
      <4> QED
        BY <4>1, <4>2
    <3>3. \A g \in Handler : handler[g].receiver = q => handler'[g].receiver = q
      BY <1>1, <2>2
    <3>4. receiver[q].source \in overlapped => receiver[q].source \in overlapped'
      BY <1>3
    <3> QED
      BY <3>1, <3>2, <3>3, <3>4
  <2> QED
    BY <2>1, <2>2
<1> QED
  BY <1>4, <1>5, <1>6, <1>7, <1>8 DEF IptvInv

\* What leaves the table is held by the request until it is closed.
LEMMA StopPreserves ==
  ASSUME IptvInv, NEW h \in Handler, NEW s \in Source, Stop(h, s)
  PROVE  IptvInv'
<1> USE IptvAssumption
<1>0. /\ handler[h].at = "idle" /\ handler[h].receiver = NoReceiver
      /\ UNCHANGED <<receiver, overlapped>>
  BY DEF IptvInv, IptvTypeOK, HeldIsOpen, Stop
<1>1. /\ subs' = [subs EXCEPT ![s] = NoReceiver]
      /\ subs'[s] = NoReceiver /\ \A t \in Source \ {s} : subs'[t] = subs[t]
  BY DEF IptvInv, IptvTypeOK, Stop
<1>2. CASE subs[s] = NoReceiver
  <2>1. handler' = handler /\ subs' = subs
    BY <1>1, <1>2 DEF IptvInv, IptvTypeOK, Stop
  <2> QED
    BY <1>0, <2>1 DEF IptvInv, IptvTypeOK, ListedReceiverIsLive, HeldIsOpen, HeldOnce,
                      NoStrayReceiver
<1>3. CASE subs[s] # NoReceiver
  <2> DEFINE held == In("close", s, subs[s])
  <2>0. held.at = "close" /\ held.source = s /\ held.receiver = subs[s]
    BY DEF In
  <2>1. /\ handler' = [handler EXCEPT ![h] = held]
        /\ handler'[h] = held /\ \A g \in Handler \ {h} : handler'[g] = handler[g]
    BY <1>3 DEF IptvInv, IptvTypeOK, Stop
  <2>2. /\ subs[s] \in Receiver /\ receiver[subs[s]].source = s
        /\ receiver[subs[s]].reader # "none" /\ ~receiver[subs[s]].closed
    BY <1>3 DEF IptvInv, IptvTypeOK, ListedReceiverIsLive
  <2>3. IptvTypeOK'
    BY <1>0, <1>1, <2>1, <2>2 DEF IptvInv, IptvTypeOK, In
  <2>4. ListedReceiverIsLive'
    BY <1>0, <1>1 DEF IptvInv, ListedReceiverIsLive
  <2>5. HeldIsOpen'
    BY <1>0, <2>0, <2>1, <2>2 DEF IptvInv, HeldIsOpen
  <2>6. HeldOnce'
    <3>1. \A g1, g2 \in Handler : handler'[g1].receiver = handler'[g2].receiver =>
            g1 = g2 \/ handler'[g1].receiver = NoReceiver
      BY <1>3, <2>0, <2>1 DEF IptvInv, HeldOnce
    <3>2. ASSUME NEW g \in Handler, NEW t \in Source, subs'[t] = handler'[g].receiver
          PROVE  subs'[t] = NoReceiver
      <4>1. CASE t = s
        BY <1>1, <4>1
      <4>2. CASE t # s /\ g # h
        BY <1>1, <2>1, <3>2, <4>2 DEF IptvInv, HeldOnce
      <4>3. CASE t # s /\ g = h
        <5>1. subs[t] = subs[s]
          BY <1>1, <2>0, <2>1, <3>2, <4>3
        <5> QED
          BY <1>3, <2>2, <4>3, <5>1 DEF IptvInv, ListedReceiverIsLive
      <4> QED
        BY <4>1, <4>2, <4>3
    <3> QED
      BY <3>1, <3>2 DEF HeldOnce
  <2>7. NoStrayReceiver'
    <3> SUFFICES ASSUME NEW q \in Receiver, receiver[q].reader # "none", ~receiver[q].closed
                 PROVE  \/ subs'[receiver[q].source] = q
                        \/ \E g \in Handler : handler'[g].receiver = q
                        \/ receiver[q].source \in overlapped
      BY <1>0 DEF NoStrayReceiver
    <3>1. \/ subs[receiver[q].source] = q
          \/ \E g \in Handler : handler[g].receiver = q
          \/ receiver[q].source \in overlapped
      BY DEF IptvInv, NoStrayReceiver
    <3>2. CASE subs[receiver[q].source] = q
      <4>1. CASE receiver[q].source = s
        BY <2>0, <2>1, <3>2, <4>1
      <4>2. CASE receiver[q].source # s
        BY <1>1, <3>2, <4>2 DEF IptvInv, IptvTypeOK
      <4> QED
        BY <4>1, <4>2
    <3>3. CASE \E g \in Handler : handler[g].receiver = q
      BY <1>0, <2>1, <3>3
    <3> QED
      BY <3>1, <3>2, <3>3
  <2> QED
    BY <2>3, <2>4, <2>5, <2>6, <2>7 DEF IptvInv
<1> QED
  BY <1>2, <1>3

LEMMA ClosedState ==
  ASSUME NEW v \in ReceiverState
  PROVE  [v EXCEPT !.closed = TRUE] \in ReceiverState
<1> QED
  BY DEF ReceiverState

LEMMA ClosePreserves ==
  ASSUME IptvInv, NEW h \in Handler, Close(h)
  PROVE  IptvInv'
<1> USE IptvAssumption
<1> DEFINE r == handler[h].receiver
<1>0. /\ r \in Receiver /\ r # NoReceiver
      /\ UNCHANGED <<subs, overlapped>>
  BY DEF IptvInv, IptvTypeOK, HeldIsOpen, Close
<1>1. /\ handler' = [handler EXCEPT ![h] = Free]
      /\ handler'[h] = Free /\ \A g \in Handler \ {h} : handler'[g] = handler[g]
  BY DEF IptvInv, IptvTypeOK, Close
<1>2. /\ receiver' = [receiver EXCEPT ![r].closed = TRUE]
      /\ receiver'[r].closed /\ \A q \in Receiver \ {r} : receiver'[q] = receiver[q]
  BY <1>0 DEF IptvInv, IptvTypeOK, Close
<1>3. /\ \A g \in Handler \ {h} : handler[g].receiver # r
      /\ \A s \in Source : subs[s] # r
  BY <1>0 DEF IptvInv, HeldOnce
<1>4. IptvTypeOK'
  <2>1. [receiver[r] EXCEPT !.closed = TRUE] \in ReceiverState
    BY <1>0, ClosedState DEF IptvInv, IptvTypeOK
  <2>2. receiver' = [receiver EXCEPT ![r] = [receiver[r] EXCEPT !.closed = TRUE]]
    BY <1>2
  <2>3. receiver' \in [Receiver -> ReceiverState]
    BY <1>0, <2>1, <2>2 DEF IptvInv, IptvTypeOK
  <2> QED
    BY <1>0, <1>1, <2>3 DEF IptvInv, IptvTypeOK, Free, In
<1>5. ListedReceiverIsLive'
  BY <1>0, <1>2, <1>3 DEF IptvInv, IptvTypeOK, ListedReceiverIsLive
<1>6. HeldIsOpen'
  BY <1>1, <1>2, <1>3 DEF IptvInv, IptvTypeOK, HeldIsOpen, Free, In
<1>7. HeldOnce'
  BY <1>0, <1>1 DEF IptvInv, HeldOnce, Free, In
<1>8. NoStrayReceiver'
  BY <1>0, <1>1, <1>2 DEF IptvInv, NoStrayReceiver
<1> QED
  BY <1>4, <1>5, <1>6, <1>7, <1>8 DEF IptvInv

LEMMA IptvStepPreserves == IptvInv /\ [IptvNext]_iptvVars => IptvInv'
<1> SUFFICES ASSUME IptvInv, [IptvNext]_iptvVars PROVE IptvInv'
  OBVIOUS
<1>1. CASE UNCHANGED iptvVars
  BY <1>1 DEF IptvInv, iptvVars, IptvTypeOK, ListedReceiverIsLive, HeldIsOpen, HeldOnce,
              NoStrayReceiver
<1>2. ASSUME NEW h \in Handler, Request(h) PROVE IptvInv'
  BY <1>2, StartCheckPreserves, StopPreserves, OpenPreserves, OpenFailsPreserves,
     InsertPreserves, ClosePreserves DEF Request
<1>3. ASSUME NEW r \in Receiver, Runs(r) PROVE IptvInv'
  BY <1>3, RunsPreserve
<1> QED
  BY <1>1, <1>2, <1>3 DEF IptvNext

THEOREM IptvInvHolds == IptvSpec => []IptvInv
<1> QED
  BY IptvInitEstablishes, IptvStepPreserves, PTL DEF IptvSpec

\* Whatever requests start and stop, and however the receivers' goroutines run,
\* what s.iptvSubs lists has not been closed (StopIPTVSubscription removes the
\* entry before it closes the receiver).
THEOREM ListedIsLiveHolds == IptvSpec => []ListedReceiverIsLive
<1>1. IptvInv => ListedReceiverIsLive
  BY DEF IptvInv
<1> QED
  BY <1>1, IptvInvHolds, PTL

\* A running receiver is listed or held by a request, unless two starts of its
\* source overlapped (StartIPTVSubscription).
THEOREM NoStrayHolds == IptvSpec => []NoStrayReceiver
<1>1. IptvInv => NoStrayReceiver
  BY DEF IptvInv
<1> QED
  BY <1>1, IptvInvHolds, PTL
=============================================================================
