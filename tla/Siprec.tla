------------------------------- MODULE Siprec -------------------------------
(***************************************************************************)
(* The recording of bridge calls: the entry a caller has in s.bridgeCalls, *)
(* the SIPREC leg recorded for it in s.siprecRecordings, and the media     *)
(* forwarding between the two (internal/sip/siprec_ctrl.go, the SIPREC     *)
(* branch of handleResponse, cleanupBridgeCallByKey, DropBridgeCall and    *)
(* attachSIPRECMediaFromAnswer in internal/sip/server.go).  One step per   *)
(* critical section and per network write.                                 *)
(*                                                                         *)
(* Five threads meet here: the UDP read loop; a TLS leg's reader, which    *)
(* enters the winner's call; the goroutine `go s.tryStartSIPRECForBridge`  *)
(* of an early start; the HTTP API, which drops calls; and the recorder.   *)
(* What the ringing does to the caller is module Fanout's; here a ringing  *)
(* call is answered, fails or is hung up at any time.                      *)
(***************************************************************************)
EXTENDS Naturals

CONSTANTS
  Call,        \* caller keys, each with one logical recording key
  GroupCall,   \* those entered under a synthetic bridge ID "ardGroup:<group>"
  OptIn,       \* those of them recorded only because their user has opted in
  Failing,     \* calls whose start may end without a leg: metadata or INVITE that
               \* cannot be built, no recorder or no listener any more
  TlsWinner,   \* whether a ringing call may be won by a TLS leg
  MaxCalls,    \* bound: INVITEs per caller key
  MaxLegs,     \* bound: SIPREC legs per caller key
  MaxDrops,    \* bound: calls dropped through the HTTP API
  NoLeg,       \* "no leg"
  NoEntry      \* "no entry"

\* bridgeCall objects: INVITE k enters one when it starts ringing and another when
\* it is answered.
Entry == [c : Call, k : 1..MaxCalls, up : BOOLEAN]
Leg == [c : Call, n : 1..MaxLegs]

ASSUME SiprecAssumption ==
  /\ GroupCall \subseteq Call /\ OptIn \subseteq GroupCall /\ Failing \subseteq Call
  /\ MaxCalls \in Nat /\ MaxLegs \in Nat /\ MaxDrops \in Nat
  /\ NoLeg \notin Leg
  /\ NoEntry \notin Entry
  /\ TlsWinner \in BOOLEAN

Main == [kind |-> "main", c |-> NoEntry, k |-> 0]
Reader == [kind |-> "reader", c |-> NoEntry, k |-> 0]
Api == [kind |-> "api", c |-> NoEntry, k |-> 0]
Starter(c, k) == [kind |-> "starter", c |-> c, k |-> k]
Thread == {Main, Reader, Api} \cup {Starter(c, k) : c \in Call, k \in 1..MaxCalls}

VARIABLES
  invites,    \* INVITEs accepted so far, per caller key
  ringing,    \* keys with a fanout session that is not decided yet
  entry,      \* s.bridgeCalls: the entry of each key, or NoEntry
  media,      \* siprecFwdDst of each entry object: the leg whose recorder it feeds
  started,    \* SIPREC legs built so far, per key
  recording,  \* s.siprecRecordings
  index,      \* the SIPREC legs in s.legsByCallID
  confirmed,  \* legs whose toHeader is set
  recorder,   \* what the recorder did with each leg
  acked, cancelled, byed,   \* requests a recorder was sent, per leg
  drops,      \* calls dropped through the API so far
  pc          \* what each thread does next, and for whom

calls == <<invites, ringing, entry>>
legs == <<started, recording, index, confirmed>>
wire == <<recorder, acked, cancelled, byed>>
vars == <<calls, media, legs, wire, drops, pc>>

At == {"idle", "context", "check", "register", "send", "undo", "ack", "lookup", "attach",
       "release", "take", "find", "unhook", "write", "forget"}
Ctx == [at : At, call : Call \cup {NoEntry}, leg : Leg \cup {NoLeg},
        obj : Entry \cup {NoEntry}, bye : BOOLEAN]
Idle == [at |-> "idle", call |-> NoEntry, leg |-> NoLeg, obj |-> NoEntry, bye |-> FALSE]

TypeOK ==
  /\ invites \in [Call -> 0..MaxCalls]
  /\ ringing \subseteq Call
  /\ entry \in [Call -> Entry \cup {NoEntry}]
  /\ media \in [Entry -> Leg \cup {NoLeg}]
  /\ started \in [Call -> 0..MaxLegs]
  /\ recording \in [Call -> Leg \cup {NoLeg}]
  /\ index \subseteq Leg
  /\ confirmed \subseteq Leg
  /\ recorder \in [Leg -> {"none", "invited", "answered", "refused"}]
  /\ acked \subseteq Leg /\ cancelled \subseteq Leg /\ byed \subseteq Leg
  /\ drops \in 0..MaxDrops
  /\ pc \in [Thread -> Ctx]

Init ==
  /\ invites = [c \in Call |-> 0]
  /\ ringing = {}
  /\ entry = [c \in Call |-> NoEntry]
  /\ media = [o \in Entry |-> NoLeg]
  /\ started = [c \in Call |-> 0]
  /\ recording = [c \in Call |-> NoLeg]
  /\ index = {}
  /\ confirmed = {}
  /\ recorder = [l \in Leg |-> "none"]
  /\ acked = {} /\ cancelled = {} /\ byed = {}
  /\ drops = 0
  /\ pc = [t \in Thread |-> Idle]

Goto(t, ctx) == pc' = [pc EXCEPT ![t] = ctx]
Step(t, at) == pc' = [pc EXCEPT ![t].at = at]
Return(t) == Goto(t, Idle)
For(at, c) == [Idle EXCEPT !.at = at, !.call = c]

\* Definitions named Mut... are mutants, as in module Fanout.

\* The bridge ID and caller key read back from the recording key, which is cut at
\* the first colon: the bridge ID of a group call has a colon of its own.
Found(c) == IF c \in GroupCall THEN NoEntry ELSE entry[c]

Unhooked(o) == IF o = NoEntry THEN media ELSE [media EXCEPT ![o] = NoLeg]

-----------------------------------------------------------------------------
(* The caller's side: Server.Start, handleResponse, cleanupBridgeCallByKey. *)

\* A recorded INVITE starts ringing: the early entry replaces whatever the key had,
\* and a goroutine starts the recording.
Enter(c) ==
  /\ pc[Main].at = "idle"
  /\ c \notin ringing
  /\ invites[c] < MaxCalls
  /\ invites' = [invites EXCEPT ![c] = @ + 1]
  /\ ringing' = ringing \cup {c}
  /\ entry' = [entry EXCEPT ![c] = [c |-> c, k |-> invites[c] + 1, up |-> FALSE]]
  /\ Goto(Starter(c, invites[c] + 1), For("context", c))
  /\ UNCHANGED <<media, legs, wire, drops>>

\* Mutant: the forwarding of the entry that is replaced is not taken over.
MutAnswered(t, c) ==
  /\ t = Reader => TlsWinner
  /\ pc[t].at = "idle"
  /\ c \in ringing
  /\ ringing' = ringing \ {c}
  /\ entry' = [entry EXCEPT ![c] = [c |-> c, k |-> invites[c], up |-> TRUE]]
  /\ Goto(t, For("context", c))
  /\ UNCHANGED <<invites, media, legs, wire, drops>>

\* The winner's thread replaces the entry, takes the forwarding over from the one
\* it finds, and starts the recording itself.
Answered(t, c) ==
  /\ t = Reader => TlsWinner
  /\ pc[t].at = "idle"
  /\ c \in ringing
  /\ ringing' = ringing \ {c}
  /\ LET old == entry[c]
         new == [c |-> c, k |-> invites[c], up |-> TRUE]
     IN /\ entry' = [entry EXCEPT ![c] = new]
        /\ media' = IF old = NoEntry THEN media
                    ELSE [media EXCEPT ![new] = media[old], ![old] = NoLeg]
  /\ Goto(t, For("context", c))
  /\ UNCHANGED <<invites, legs, wire, drops>>

\* A caller is answered at once: an empty bridge room, or an ARD line in use.
Join(c) ==
  /\ pc[Main].at = "idle"
  /\ c \notin ringing
  /\ invites[c] < MaxCalls
  /\ invites' = [invites EXCEPT ![c] = @ + 1]
  /\ entry' = [entry EXCEPT ![c] = [c |-> c, k |-> invites[c] + 1, up |-> TRUE]]
  /\ Goto(Main, For("context", c))
  /\ UNCHANGED <<ringing, media, legs, wire, drops>>

\* 408 or 480: the entry stays.
RingingFails(c) ==
  /\ c \in ringing
  /\ ringing' = ringing \ {c}
  /\ UNCHANGED <<invites, entry, media, legs, wire, drops, pc>>

\* Mutant: the recording is stopped while the entry's forwarding goes on.
MutHangUp(c) ==
  /\ pc[Main].at = "idle"
  /\ entry[c] # NoEntry
  /\ ringing' = ringing \ {c}
  /\ entry' = [entry EXCEPT ![c] = NoEntry]
  /\ Goto(Main, For("take", c))
  /\ UNCHANGED <<invites, media, legs, wire, drops>>

\* CANCEL or BYE: the entry goes, with its forwarding, and the recording is stopped.
HangUp(c) ==
  /\ pc[Main].at = "idle"
  /\ entry[c] # NoEntry
  /\ ringing' = ringing \ {c}
  /\ entry' = [entry EXCEPT ![c] = NoEntry]
  /\ media' = Unhooked(entry[c])
  /\ Goto(Main, For("take", c))
  /\ UNCHANGED <<invites, legs, wire, drops>>

-----------------------------------------------------------------------------
(* DropBridgeCall.                                                          *)

\* The call is looked up and the caller is sent a BYE.
Drop(c) ==
  /\ pc[Api].at = "idle"
  /\ drops < MaxDrops
  /\ entry[c] # NoEntry
  /\ drops' = drops + 1
  /\ Goto(Api, For("release", c))
  /\ UNCHANGED <<calls, media, legs, wire>>

\* Under a second lock, the key's entry of now is removed.
Release ==
  /\ pc[Api].at = "release"
  /\ LET c == pc[Api].call
     IN /\ entry' = [entry EXCEPT ![c] = NoEntry]
        /\ media' = Unhooked(entry[c])
  /\ Step(Api, "take")
  /\ UNCHANGED <<invites, ringing, legs, wire, drops>>

-----------------------------------------------------------------------------
(* tryStartSIPRECForBridge and emitSIPRECInvite.                            *)

\* Mutant: every call needs a participant who is still there.
MutStartContext(t) ==
  /\ pc[t].at = "context"
  /\ IF entry[pc[t].call] = NoEntry THEN Return(t) ELSE Step(t, "check")
  /\ UNCHANGED <<calls, media, legs, wire, drops>>

\* The starter reads the user of the key's entry: a call recorded by opt-in is
\* skipped when its entry is gone.  Then it builds the metadata.
StartContext(t) ==
  /\ pc[t].at = "context"
  /\ LET c == pc[t].call
         gone == c \in OptIn /\ entry[c] = NoEntry
     IN \/ ~gone /\ Step(t, "check")
        \/ (gone \/ c \in Failing) /\ Return(t)
  /\ UNCHANGED <<calls, media, legs, wire, drops>>

\* Mutant: the test of the table is inverted.
MutStartCheck(t) ==
  /\ pc[t].at = "check"
  /\ IF recording[pc[t].call] # NoLeg THEN Step(t, "register") ELSE Return(t)
  /\ UNCHANGED <<calls, media, legs, wire, drops>>

\* The first look at the table.
StartCheck(t) ==
  /\ pc[t].at = "check"
  /\ IF recording[pc[t].call] = NoLeg THEN Step(t, "register") ELSE Return(t)
  /\ UNCHANGED <<calls, media, legs, wire, drops>>

\* Mutant: the table is not looked at again.
MutRegister(t) ==
  /\ pc[t].at = "register"
  /\ LET c == pc[t].call
         l == [c |-> c, n |-> started[c] + 1]
     IN /\ started[c] < MaxLegs
        /\ started' = [started EXCEPT ![c] = @ + 1]
        /\ recording' = [recording EXCEPT ![c] = l]
        /\ index' = index \cup {l}
        /\ Goto(t, [pc[t] EXCEPT !.at = "send", !.leg = l])
  /\ UNCHANGED <<calls, media, confirmed, wire, drops>>

\* The request is built outside the lock, which may fail; then the second look at
\* the table.
Register(t) ==
  /\ pc[t].at = "register"
  /\ LET c == pc[t].call
         l == [c |-> c, n |-> started[c] + 1]
     IN \/ /\ recording[c] # NoLeg \/ c \in Failing
           /\ Return(t)
           /\ UNCHANGED legs
        \/ /\ recording[c] = NoLeg
           /\ started[c] < MaxLegs
           /\ started' = [started EXCEPT ![c] = @ + 1]
           /\ recording' = [recording EXCEPT ![c] = l]
           /\ index' = index \cup {l}
           /\ Goto(t, [pc[t] EXCEPT !.at = "send", !.leg = l])
           /\ UNCHANGED confirmed
  /\ UNCHANGED <<calls, media, wire, drops>>

\* The INVITE is written to the recorder, or there is no way to reach it.
Send(t) ==
  /\ pc[t].at = "send"
  /\ \/ /\ recorder' = [recorder EXCEPT ![pc[t].leg] = "invited"]
        /\ Return(t)
     \/ /\ Step(t, "undo")
        /\ UNCHANGED recorder
  /\ UNCHANGED <<calls, media, legs, acked, cancelled, byed, drops>>

\* Mutant: the key keeps the leg that was never sent.
MutUndo(t) ==
  /\ pc[t].at = "undo"
  /\ index' = index \ {pc[t].leg}
  /\ Return(t)
  /\ UNCHANGED <<calls, media, started, recording, confirmed, wire, drops>>

\* The failed leg leaves the index, and the key its recording.
Undo(t) ==
  /\ pc[t].at = "undo"
  /\ index' = index \ {pc[t].leg}
  /\ recording' = [recording EXCEPT ![pc[t].call] = NoLeg]
  /\ Return(t)
  /\ UNCHANGED <<calls, media, started, confirmed, wire, drops>>

-----------------------------------------------------------------------------
(* The recorder's answer: handleResponse's SIPREC branch.                   *)

\* A cancelled INVITE may still be answered: the 200 and the CANCEL may cross.
RecorderDecides(l) ==
  /\ recorder[l] = "invited"
  /\ \E r \in {"answered", "refused"} : recorder' = [recorder EXCEPT ![l] = r]
  /\ UNCHANGED <<calls, media, legs, acked, cancelled, byed, drops, pc>>

\* Mutant: the 2xx is not acked.
MutRecorderOk(l) ==
  /\ pc[Main].at = "idle"
  /\ recorder[l] = "answered"
  /\ l \in index
  /\ confirmed' = confirmed \cup {l}
  /\ Goto(Main, [For("lookup", l.c) EXCEPT !.leg = l])
  /\ UNCHANGED <<calls, media, started, recording, index, wire, drops>>

\* 2xx, for a leg the index still holds; the recorder repeats it until it is acked.
RecorderOk(l) ==
  /\ pc[Main].at = "idle"
  /\ recorder[l] = "answered"
  /\ l \in index
  /\ confirmed' = confirmed \cup {l}
  /\ Goto(Main, [For("ack", l.c) EXCEPT !.leg = l])
  /\ UNCHANGED <<calls, media, started, recording, index, wire, drops>>

Ack ==
  /\ pc[Main].at = "ack"
  /\ acked' = acked \cup {pc[Main].leg}
  /\ Step(Main, "lookup")
  /\ UNCHANGED <<calls, media, legs, recorder, cancelled, byed, drops>>

\* attachSIPRECMediaFromAnswer finds the entry under sessionMu ...
Lookup ==
  /\ pc[Main].at = "lookup"
  /\ LET o == Found(pc[Main].call)
     IN IF o = NoEntry THEN Return(Main)
        ELSE Goto(Main, [pc[Main] EXCEPT !.at = "attach", !.obj = o])
  /\ UNCHANGED <<calls, media, legs, wire, drops>>

\* ... and sets its destinations after the unlock.
Attach ==
  /\ pc[Main].at = "attach"
  /\ media' = [media EXCEPT ![pc[Main].obj] = pc[Main].leg]
  /\ Return(Main)
  /\ UNCHANGED <<calls, legs, wire, drops>>

\* Mutant: the refused leg stays in the response index.
MutRecorderRefusal(l) ==
  /\ pc[Main].at = "idle"
  /\ recorder[l] = "refused"
  /\ l \in index
  /\ recording' = [recording EXCEPT ![l.c] = NoLeg]
  /\ UNCHANGED <<calls, media, started, index, confirmed, wire, drops, pc>>

\* 4xx and above: the key's recording is forgotten.
RecorderRefusal(l) ==
  /\ pc[Main].at = "idle"
  /\ recorder[l] = "refused"
  /\ l \in index
  /\ recording' = [recording EXCEPT ![l.c] = NoLeg]
  /\ index' = index \ {l}
  /\ UNCHANGED <<calls, media, started, confirmed, wire, drops, pc>>

-----------------------------------------------------------------------------
(* stopSIPRECRecording.                                                     *)

\* The leg leaves the table; whether it has a dialog is read here.
Take(t) ==
  /\ pc[t].at = "take"
  /\ LET l == recording[pc[t].call]
     IN IF l = NoLeg THEN Return(t) /\ UNCHANGED recording
        ELSE /\ recording' = [recording EXCEPT ![pc[t].call] = NoLeg]
             /\ Goto(t, [pc[t] EXCEPT !.at = "find", !.leg = l, !.bye = l \in confirmed])
  /\ UNCHANGED <<calls, media, started, index, confirmed, wire, drops>>

\* clearSIPRECMediaForwardingByKey: the entry is found, then cleared.
Find(t) ==
  /\ pc[t].at = "find"
  /\ Goto(t, [pc[t] EXCEPT !.at = "unhook", !.obj = Found(pc[t].call)])
  /\ UNCHANGED <<calls, media, legs, wire, drops>>

Unhook(t) ==
  /\ pc[t].at = "unhook"
  /\ media' = Unhooked(pc[t].obj)
  /\ Step(t, "write")
  /\ UNCHANGED <<calls, legs, wire, drops>>

\* BYE for a dialog, CANCEL for none; a recorder that was not invited yet has
\* nothing to cancel.
Write(t) ==
  /\ pc[t].at = "write"
  /\ LET l == pc[t].leg
     IN IF pc[t].bye THEN byed' = byed \cup {l} /\ UNCHANGED cancelled
        ELSE /\ cancelled' = cancelled \cup ({l} \ {m \in Leg : recorder[m] = "none"})
             /\ UNCHANGED byed
  /\ Step(t, "forget")
  /\ UNCHANGED <<calls, media, legs, recorder, acked, drops>>

Forget(t) ==
  /\ pc[t].at = "forget"
  /\ index' = index \ {pc[t].leg}
  /\ Return(t)
  /\ UNCHANGED <<calls, media, started, recording, confirmed, wire, drops>>

Emit(t) == StartContext(t) \/ StartCheck(t) \/ Register(t) \/ Send(t) \/ Undo(t)
Settle == Ack \/ Lookup \/ Attach
Stop(t) == Take(t) \/ Find(t) \/ Unhook(t) \/ Write(t) \/ Forget(t)

Next ==
  \/ \E c \in Call : Enter(c) \/ Join(c) \/ RingingFails(c) \/ HangUp(c) \/ Drop(c)
  \/ \E t \in {Main, Reader}, c \in Call : Answered(t, c)
  \/ \E t \in Thread : Emit(t) \/ Stop(t)
  \/ Release \/ Settle
  \/ \E l \in Leg : RecorderDecides(l) \/ RecorderOk(l) \/ RecorderRefusal(l)

Spec == Init /\ [][Next]_vars

\* A goroutine in the middle of a handler goes on, and a recorder repeats its answer
\* until the read loop has taken it.  Nobody has to call, answer or hang up.
Fairness ==
  /\ \A t \in Thread : WF_vars(Emit(t) \/ Stop(t))
  /\ WF_vars(Settle)
  /\ WF_vars(Release)
  /\ \A l \in Leg : SF_vars(RecorderOk(l) \/ RecorderRefusal(l))

FairSpec == Spec /\ Fairness

-----------------------------------------------------------------------------
(* Properties.                                                              *)

\* A thread is taking leg l down.
Stopping(l) == \E t \in Thread :
  pc[t].leg = l /\ pc[t].at \in {"find", "unhook", "write", "forget"}

\* No thread is at work for caller c.
Quiet(c) == \A t \in Thread : pc[t].call # c

\* A recording the server holds is one whose answers it still hears: the two tables
\* are written by the starter, the read loop and the API under separate locks.
RecordingIsIndexed == \A c \in Call : recording[c] # NoLeg => recording[c] \in index

\* A call is recorded once ("Duplicate tryStartSIPREC from the winner path is deduped
\* by emitSIPRECInvite"): of the legs that can still be answered, at most one is not
\* being taken down.
RecordedOnce == \A l, m \in index :
  l.c = m.c /\ ~Stopping(l) /\ ~Stopping(m) => l = m

\* A leg that can still be answered is the recording of its call or is being taken
\* down: none is left that no BYE or CANCEL of the caller would stop.
IndexedIsRecording == \A l \in index : recording[l.c] = l \/ Stopping(l)

\* Once the handlers are done, the caller's media is forked to the recorder that
\* answered ("Media is forked to the recorder"), whether the answer came while the
\* call was ringing or after it was won.
AnsweredIsForked == \A c \in Call :
  Quiet(c) /\ entry[c] # NoEntry /\ recording[c] \in confirmed
    => media[entry[c]] = recording[c]

\* Once the handlers are done, only the caller's entry of now forwards media, and
\* only to its recording.
MediaEndsWithCall == \A o \in Entry :
  Quiet(o.c) /\ media[o] # NoLeg => entry[o.c] = o /\ recording[o.c] = media[o]

\* When the caller is gone and the handlers are done, no recorder is left in a
\* recording session ("SIPREC sessions run in parallel to the bridged call").
NoOrphanRecording == \A l \in Leg :
  Quiet(l.c) /\ entry[l.c] = NoEntry /\ recorder[l] = "answered" => l \in byed

\* A recorder that answers a leg the server still knows is acked, unless the leg is
\* taken down first.
AnswerIsAcked == \A l \in Leg :
  recorder[l] = "answered" /\ l \in index ~> l \in acked \/ l \notin index

\* Every call is brought before a recorder: sooner or later a SIPREC leg is built,
\* also for a caller who hangs up before the starter has run.  Only an opt-in caller
\* who is gone by then is not recorded (his entry is what names his user).
EveryCallIsRecorded == \A c \in Call \ Failing :
  invites[c] > 0 ~> started[c] > 0 \/ (c \in OptIn /\ entry[c] = NoEntry)
=============================================================================
