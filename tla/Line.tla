-------------------------------- MODULE Line --------------------------------
(***************************************************************************)
(* Several callers on one ARD line: the admission of an INVITE against the *)
(* capacity, the choice between joining the line and ringing the far side, *)
(* and the two tables both read, s.sessions and the line's entries in      *)
(* s.bridgeCalls (Server.Start's INVITE case, internal/sip/server.go, and  *)
(* internal/sip/conference_ard.go).                                        *)
(*                                                                         *)
(* The read loop takes one INVITE, CANCEL or BYE at a time, but looks at   *)
(* the tables under a new lock for each question it asks; TLS readers,     *)
(* ring timers and the HTTP API change them in between.  How a ringing is  *)
(* decided among its legs is module Fanout's; here it is answered, fails   *)
(* or times out.                                                           *)
(***************************************************************************)
EXTENDS Naturals, FiniteSets

CONSTANTS
  Caller,      \* dialog keys (Call-ID and From tag) of the line's callers
  Recorded,    \* whether the group is recorded: only then do callers who are
               \* rung for enter the table
  MaxDialogs,  \* cluster.max_concurrent_calls
  MaxInvites,  \* bound: INVITEs per caller
  Redialling,  \* bound: callers who dial more than once
  MaxDrops,    \* bound: calls dropped through the HTTP API
  NoCaller     \* "no caller"

ASSUME LineAssumption ==
  /\ IsFiniteSet(Caller)
  /\ Recorded \in BOOLEAN
  /\ MaxDialogs \in Nat \ {0}
  /\ MaxInvites \in Nat /\ MaxDrops \in Nat
  /\ Redialling \subseteq Caller
  /\ NoCaller \notin Caller

VARIABLES
  invites,     \* INVITEs received so far, per caller
  sessions,    \* domain of s.sessions
  terminated,  \* the sessions that are decided
  entry,       \* s.bridgeCalls[ardGroup:<id>]: "none", "early", "up" or "joined"
  connected,   \* callers who got a 200 and neither hung up nor were dropped
  gone,        \* callers who hung up after their last INVITE
  loop,        \* the read loop: what it does next, for which caller
  api,         \* the caller an API drop has sent a BYE to
  drops        \* calls dropped so far

tables == <<sessions, terminated, entry>>
vars == <<invites, tables, connected, gone, loop, api, drops>>

Idle == [at |-> "idle", c |-> NoCaller]
Goto(at, c) == loop' = [at |-> at, c |-> c]
Return == loop' = Idle

TypeOK ==
  /\ invites \in [Caller -> 0..MaxInvites]
  /\ sessions \subseteq Caller
  /\ terminated \subseteq sessions
  /\ entry \in [Caller -> {"none", "early", "up", "joined"}]
  /\ connected \subseteq Caller
  /\ gone \subseteq Caller
  /\ loop \in [at : {"idle", "count", "dup", "join", "open", "early", "clean",
                     "unlist"}, c : Caller \cup {NoCaller}]
  /\ api \in Caller \cup {NoCaller}
  /\ drops \in 0..MaxDrops

Init ==
  /\ invites = [c \in Caller |-> 0]
  /\ sessions = {}
  /\ terminated = {}
  /\ entry = [c \in Caller |-> "none"]
  /\ connected = {}
  /\ gone = {}
  /\ loop = Idle
  /\ api = NoCaller
  /\ drops = 0

\* Definitions named Mut... are mutants, as in module Fanout.

Listed == {c \in Caller : entry[c] # "none"}

\* ActiveDialogCount.
Dialogs == Cardinality(sessions) + Cardinality(Listed)

-----------------------------------------------------------------------------
(* INVITE without a To tag.                                                *)

\* Mutant: the last dialog is let in when the limit is already reached.
MutFull == Dialogs > MaxDialogs

\* tryRejectInviteForCapacity.
Full == Dialogs >= MaxDialogs

\* An INVITE is turned away (503 or 302), or goes on.
Invite(c) ==
  /\ loop.at = "idle"
  /\ invites[c] < MaxInvites /\ (invites[c] > 0 => c \in Redialling)
  /\ invites' = [invites EXCEPT ![c] = @ + 1]
  /\ IF Full THEN UNCHANGED <<loop, gone>> ELSE Goto("count", c) /\ gone' = gone \ {c}
  /\ UNCHANGED <<tables, connected, api, drops>>

\* Mutant: only answered callers count as being on the line.
MutOnLine == {c \in Caller : entry[c] \in {"up", "joined"}}

\* ardEstablishedParticipantCount counts every entry.
OnLine == Listed

Count ==
  /\ loop.at = "count"
  /\ Goto(IF OnLine # {} THEN "dup" ELSE "open", loop.c)
  /\ UNCHANGED <<invites, tables, connected, gone, api, drops>>

\* Somebody is on the line: a caller who is there already gets 486.
Dup ==
  /\ loop.at = "dup"
  /\ IF loop.c \in sessions \cup Listed THEN Return ELSE Goto("join", loop.c)
  /\ UNCHANGED <<invites, tables, connected, gone, api, drops>>

\* answerARDJoinInbound: 200, and an entry.
Join ==
  /\ loop.at = "join"
  /\ entry' = [entry EXCEPT ![loop.c] = "joined"]
  /\ connected' = connected \cup {loop.c}
  /\ Return
  /\ UNCHANGED <<invites, sessions, terminated, gone, api, drops>>

\* Nobody is: the caller is on neither side of the group (480), is being rung for
\* already (486), or a session is opened.
Open ==
  /\ loop.at = "open"
  /\ \/ Return /\ UNCHANGED sessions
     \/ /\ loop.c \in sessions
        /\ Return
        /\ UNCHANGED sessions
     \/ /\ loop.c \notin sessions
        /\ sessions' = sessions \cup {loop.c}
        /\ Goto("early", loop.c)
  /\ UNCHANGED <<invites, terminated, entry, connected, gone, api, drops>>

\* Mutant: the caller enters the table only with the answer.
MutEarly ==
  /\ loop.at = "early"
  /\ Return
  /\ UNCHANGED <<invites, tables, connected, gone, api, drops>>

\* startSIPRECForConferenceFanoutEarly: the caller of a recorded group enters the
\* table as soon as the ringing starts.
Early ==
  /\ loop.at = "early"
  /\ entry' = IF Recorded THEN [entry EXCEPT ![loop.c] = "early"] ELSE entry
  /\ Return
  /\ UNCHANGED <<invites, sessions, terminated, connected, gone, api, drops>>

-----------------------------------------------------------------------------
(* The end of the ringing: handleResponse on the read loop or a TLS reader, *)
(* enforceRingTimeout, and the cleanupSession that ends both.               *)

Pending(c) == c \in sessions \ terminated

\* The session was opened just now and nobody has been rung for it.
Opening(c) == loop = [at |-> "early", c |-> c]

Answered(c) ==
  /\ Pending(c)
  /\ ~Opening(c)
  /\ terminated' = terminated \cup {c}
  /\ entry' = IF Recorded THEN [entry EXCEPT ![c] = "up"] ELSE entry
  /\ connected' = connected \cup {c}
  /\ UNCHANGED <<invites, sessions, gone, loop, api, drops>>

\* 480 or 408; the timer of an earlier INVITE of the key does not tell sessions apart.
RingingFails(c) ==
  /\ Pending(c)
  /\ Opening(c) => invites[c] > 1
  /\ terminated' = terminated \cup {c}
  /\ UNCHANGED <<invites, sessions, entry, connected, gone, loop, api, drops>>

\* Mutant: only answered sessions are removed.
MutCleanupSession(c) ==
  /\ c \in terminated \cap connected
  /\ sessions' = sessions \ {c}
  /\ terminated' = terminated \ {c}
  /\ UNCHANGED <<invites, entry, connected, gone, loop, api, drops>>

\* A handler that has decided the session removes it.
CleanupSession(c) ==
  /\ c \in terminated
  /\ sessions' = sessions \ {c}
  /\ terminated' = terminated \ {c}
  /\ UNCHANGED <<invites, entry, connected, gone, loop, api, drops>>

-----------------------------------------------------------------------------
(* CANCEL and BYE; DropBridgeCall.                                         *)

\* The caller gives up (CANCEL, which leaves a decided session to its handler) or
\* hangs up (BYE): the session is marked, then removed.
HangUp(c) ==
  /\ loop.at = "idle"
  /\ invites[c] > 0
  /\ c \notin gone
  /\ gone' = gone \cup {c}
  /\ connected' = connected \ {c}
  /\ \/ /\ Pending(c) \/ c \in sessions \cap connected
        /\ terminated' = terminated \cup {c}
        /\ Goto("clean", c)
     \/ /\ ~Pending(c)
        /\ Goto("unlist", c)
        /\ UNCHANGED terminated
  /\ UNCHANGED <<invites, sessions, entry, api, drops>>

Clean ==
  /\ loop.at = "clean"
  /\ sessions' = sessions \ {loop.c}
  /\ terminated' = terminated \ {loop.c}
  /\ Goto("unlist", loop.c)
  /\ UNCHANGED <<invites, entry, connected, gone, api, drops>>

\* Mutant: an early entry is left for the ringing to settle.
MutUnlist ==
  /\ loop.at = "unlist"
  /\ entry' = [entry EXCEPT ![loop.c] = IF @ = "early" THEN @ ELSE "none"]
  /\ Return
  /\ UNCHANGED <<invites, sessions, terminated, connected, gone, api, drops>>

\* cleanupBridgeCallByKey.
Unlist ==
  /\ loop.at = "unlist"
  /\ entry' = [entry EXCEPT ![loop.c] = "none"]
  /\ Return
  /\ UNCHANGED <<invites, sessions, terminated, connected, gone, api, drops>>

\* The API finds the entry and sends the caller a BYE ...
Drop(c) ==
  /\ api = NoCaller
  /\ drops < MaxDrops
  /\ c \in Listed
  /\ api' = c
  /\ drops' = drops + 1
  /\ connected' = connected \ {c}
  /\ UNCHANGED <<invites, tables, gone, loop>>

\* ... and removes the key's entry under another lock.
Release ==
  /\ api # NoCaller
  /\ entry' = [entry EXCEPT ![api] = "none"]
  /\ api' = NoCaller
  /\ UNCHANGED <<invites, sessions, terminated, connected, gone, loop, drops>>

ReadLoop == Count \/ Dup \/ Join \/ Open \/ Early \/ Clean \/ Unlist

Next ==
  \/ ReadLoop \/ Release
  \/ \E c \in Caller :
       \/ Invite(c) \/ HangUp(c) \/ Drop(c)
       \/ Answered(c) \/ RingingFails(c) \/ CleanupSession(c)

Spec == Init /\ [][Next]_vars

\* The read loop goes on, a ring timer fires, a handler finishes.
Fairness ==
  /\ WF_vars(ReadLoop)
  /\ \A c \in Caller : WF_vars(RingingFails(c)) /\ WF_vars(CleanupSession(c))

FairSpec == Spec /\ Fairness

-----------------------------------------------------------------------------
(* Properties.                                                             *)

\* A drop through the API takes an entry away whose session still rings.
Undisturbed == drops = 0

\* Admission is decided before the dialog is counted, and one INVITE adds two
\* dialogs, a session and an early entry: the limit is overrun by one at most,
\* as long as nobody is dropped.
CapacityBound == Undisturbed => Dialogs <= MaxDialogs + 1

\* The far side is rung for one caller at a time, as long as nobody is dropped:
\* whoever dials while it rings is joined to the line instead.
OneRinging == Undisturbed => Cardinality(sessions \ terminated) <= 1

\* A line somebody is connected on is never rung again, as long as nobody is
\* dropped ("join without re-ringing when line is up").
NoReRing == [][Undisturbed /\ sessions' \ sessions # {} => connected = {}]_vars

\* A caller joins only a line on which somebody is connected ("established lines
\* can be counted").
JoinsEstablished == [][\A c \in Caller :
  entry[c] # "joined" /\ entry'[c] = "joined" => connected \ {c} # {}]_vars

\* A caller who hung up stays off the line: no late answer, timer or drop puts the
\* caller's session or entry back.
HungUpIsGone == \A c \in gone : loop.c # c =>
  c \notin sessions \ terminated /\ entry[c] = "none"

\* Every session ends, whatever the far side does.
SessionsEnd == \A c \in Caller : c \in sessions ~> c \notin sessions
=============================================================================
