-------------------------------- MODULE Iptv --------------------------------
(***************************************************************************)
(* IPTV subscriptions: the table s.iptvSubs (internal/sip/server.go), the  *)
(* HTTP handlers that start and stop one (internal/api), and the receivers *)
(* they own (internal/iptv): a multicast reader that hands each packet to  *)
(* the calls itself, or a reader of ffmpeg's output that pushes into a     *)
(* jitter buffer with a worker of its own.                                 *)
(*                                                                         *)
(* One step is one critical section of sessionMu, one channel operation,   *)
(* or the start or close of a receiver.  Sources are the enabled ones.     *)
(***************************************************************************)
EXTENDS Naturals

CONSTANTS
  Source,        \* enabled IPTV sources
  Extracted,     \* those whose audio ffmpeg extracts
  Handler,       \* HTTP requests served at a time
  NoReceiver,
  QueueSize,     \* packets a jitter buffer holds: 512 in the code
  MaxReceivers,  \* bound: receivers ever started
  MaxStops       \* bound: stop requests

Receiver == 1..MaxReceivers

ASSUME IptvAssumption ==
  /\ Extracted \subseteq Source
  /\ NoReceiver \notin Receiver
  /\ QueueSize \in Nat \ {0} /\ MaxReceivers \in Nat /\ MaxStops \in Nat

VARIABLES
  subs,        \* s.iptvSubs
  handler,     \* what each request is in the middle of
  receiver,    \* every receiver ever started
  stops,       \* stop requests so far
  overlapped   \* sources two starts of which passed the check together
iptvVars == <<subs, handler, receiver, stops, overlapped>>

In(at, s, r) == [at |-> at, source |-> s, receiver |-> r]
Free == In("idle", NoReceiver, NoReceiver)
NotStarted == [source |-> NoReceiver, closed |-> FALSE, reader |-> "none", queue |-> 0,
               worker |-> "none", jbStop |-> FALSE]
Started(s) == [NotStarted EXCEPT !.source = s, !.reader = "read",
                                 !.worker = IF s \in Extracted THEN "wait" ELSE "none"]

IptvInit ==
  /\ subs = [s \in Source |-> NoReceiver]
  /\ handler = [h \in Handler |-> Free]
  /\ receiver = [r \in Receiver |-> NotStarted]
  /\ stops = 0 /\ overlapped = {}

\* Definitions named Mut... are mutants, as in module Fanout.
-----------------------------------------------------------------------------
(***************************************************************************)
(* Requests                                                                *)
(***************************************************************************)
\* A source that has a subscription is left alone.
StartCheck(h, s) ==
  /\ handler[h].at = "idle" /\ subs[s] = NoReceiver
  /\ handler' = [handler EXCEPT ![h] = In("open", s, NoReceiver)]
  /\ UNCHANGED <<subs, receiver, stops, overlapped>>

\* StartMulticast or StartFFmpegAudioExtract, outside the lock.
Open(h) ==
  /\ handler[h].at = "open"
  /\ \E r \in Receiver :
       /\ receiver[r].reader = "none" /\ \A q \in 1..(r - 1) : receiver[q].reader # "none"
       /\ receiver' = [receiver EXCEPT ![r] = Started(handler[h].source)]
       /\ handler' = [handler EXCEPT ![h] = In("insert", handler[h].source, r)]
  /\ UNCHANGED <<subs, stops, overlapped>>
\* No socket, or no ffmpeg.
OpenFails(h) ==
  /\ handler[h].at = "open"
  /\ handler' = [handler EXCEPT ![h] = Free]
  /\ UNCHANGED <<subs, receiver, stops, overlapped>>

\* The table is not looked at again.
Insert(h) ==
  /\ handler[h].at = "insert"
  /\ LET s == handler[h].source
     IN /\ subs' = [subs EXCEPT ![s] = handler[h].receiver]
        /\ overlapped' = IF subs[s] = NoReceiver THEN overlapped ELSE overlapped \cup {s}
  /\ handler' = [handler EXCEPT ![h] = Free]
  /\ UNCHANGED <<receiver, stops>>

\* Mutant: the entry stays in the table.
MutStop(h, s) ==
  /\ handler[h].at = "idle" /\ stops < MaxStops /\ stops' = stops + 1
  /\ handler' = IF subs[s] = NoReceiver THEN handler
                ELSE [handler EXCEPT ![h] = In("close", s, subs[s])]
  /\ UNCHANGED <<subs, receiver, overlapped>>

\* StopIPTVSubscription: out of the table first, closed after the unlock.
Stop(h, s) ==
  /\ handler[h].at = "idle" /\ stops < MaxStops /\ stops' = stops + 1
  /\ handler' = IF subs[s] = NoReceiver THEN handler
                ELSE [handler EXCEPT ![h] = In("close", s, subs[s])]
  /\ subs' = [subs EXCEPT ![s] = NoReceiver]
  /\ UNCHANGED <<receiver, overlapped>>

\* Mutant: the receiver is left open.
MutClose(h) ==
  /\ handler[h].at = "close"
  /\ handler' = [handler EXCEPT ![h] = Free]
  /\ UNCHANGED <<subs, receiver, stops, overlapped>>

\* CloseFn: the stop channel, ffmpeg and the socket.
Close(h) ==
  /\ handler[h].at = "close"
  /\ receiver' = [receiver EXCEPT ![handler[h].receiver].closed = TRUE]
  /\ handler' = [handler EXCEPT ![h] = Free]
  /\ UNCHANGED <<subs, stops, overlapped>>
-----------------------------------------------------------------------------
(***************************************************************************)
(* Receivers                                                               *)
(***************************************************************************)
Step(r, state) ==
  /\ receiver' = [receiver EXCEPT ![r] = state]
  /\ UNCHANGED <<subs, handler, stops, overlapped>>

Read(r) ==
  /\ receiver[r].reader = "read" /\ ~receiver[r].closed
  /\ Step(r, [receiver[r] EXCEPT !.reader =
                IF receiver[r].source \in Extracted THEN "push" ELSE "onPacket"])
\* A full jitter buffer drops the packet.
Push(r) ==
  /\ receiver[r].reader = "push"
  /\ Step(r, [receiver[r] EXCEPT !.reader = "read",
                                 !.queue = IF @ < QueueSize THEN @ + 1 ELSE @])
TakePacket(r) ==
  /\ receiver[r].worker = "wait" /\ receiver[r].queue > 0
  /\ Step(r, [receiver[r] EXCEPT !.worker = "onPacket", !.queue = @ - 1])
\* onPacket: the payload type, the metrics, and forwardIPTVToBridges, which
\* writes to the sockets of the listed calls of the source's groups under
\* sessionMu, wherever the packet comes from.
OnPacket(r) ==
  \/ /\ receiver[r].reader = "onPacket"
     /\ Step(r, [receiver[r] EXCEPT !.reader = "read"])
  \/ /\ receiver[r].worker = "onPacket"
     /\ Step(r, [receiver[r] EXCEPT !.worker = "wait"])
ReaderEnds(r) ==
  /\ receiver[r].reader = "read" /\ receiver[r].closed
  /\ Step(r, [receiver[r] EXCEPT !.reader = "done"])

\* Mutant: the buffer is not stopped with its extractor.
MutStopJitterBuffer(r) ==
  FALSE /\ Step(r, [receiver[r] EXCEPT !.jbStop = TRUE])
StopJitterBuffer(r) ==
  /\ receiver[r].worker # "none" /\ receiver[r].closed /\ ~receiver[r].jbStop
  /\ Step(r, [receiver[r] EXCEPT !.jbStop = TRUE])
WorkerEnds(r) ==
  /\ receiver[r].worker = "wait" /\ receiver[r].jbStop
  /\ Step(r, [receiver[r] EXCEPT !.worker = "done"])
-----------------------------------------------------------------------------
Request(h) ==
  \/ \E s \in Source : StartCheck(h, s) \/ Stop(h, s)
  \/ Open(h) \/ OpenFails(h) \/ Insert(h) \/ Close(h)
Runs(r) ==
  Read(r) \/ Push(r) \/ TakePacket(r) \/ OnPacket(r) \/ ReaderEnds(r)
    \/ StopJitterBuffer(r) \/ WorkerEnds(r)
IptvNext == (\E h \in Handler : Request(h)) \/ (\E r \in Receiver : Runs(r))

IptvSpec == IptvInit /\ [][IptvNext]_iptvVars
-----------------------------------------------------------------------------
(***************************************************************************)
(* Properties                                                              *)
(***************************************************************************)
\* A receiver in the table, which the status page shows as running, has not
\* been closed (StartIPTVSubscription, StopIPTVSubscription).
ListedReceiverIsLive ==
  \A s \in Source : subs[s] # NoReceiver =>
    /\ receiver[subs[s]].source = s /\ receiver[subs[s]].reader # "none"
    /\ ~receiver[subs[s]].closed

\* A receiver that runs can be stopped: it is in the table, or a request that
\* starts or stops it still holds it.  Two overlapping starts of one source
\* lose one (StartIPTVSubscription inserts without a second check).
NoStrayReceiver ==
  \A r \in Receiver :
    LET v == receiver[r]
    IN v.reader # "none" /\ ~v.closed =>
         \/ subs[v.source] = r
         \/ \E h \in Handler : handler[h].receiver = r
         \/ v.source \in overlapped

\* The goroutines of a receiver that was closed end, whatever was queued
\* (Extractor.Close, jitterBuffer.Close).
ClosedReceiverEnds ==
  \A r \in Receiver :
    receiver[r].closed ~> (receiver[r].reader = "done" /\ receiver[r].worker \in {"none", "done"})
=============================================================================
