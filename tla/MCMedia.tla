------------------------------ MODULE MCMedia ------------------------------
(***************************************************************************)
(* A call, and the IPTV subscriptions.  They share no variable: all that   *)
(* forwardIPTVToBridges takes from the table of calls is the sockets of an *)
(* entry, under sessionMu.  So each is explored with the other at rest.    *)
(***************************************************************************)
EXTENDS Media, Iptv

Kind(k, callers, callees, tls) ==
  [kind : {k}, caller : callers, callee : callees, tls : tls]
MCScenarios ==
  Kind("bridge", BOOLEAN, BOOLEAN, BOOLEAN) \cup Kind("group", {TRUE}, {TRUE}, {FALSE})
    \cup Kind("unrecorded", {TRUE}, {TRUE}, {FALSE})
    \cup Kind("dialin", BOOLEAN, {FALSE}, {FALSE}) \cup Kind("room", {TRUE}, {FALSE}, {FALSE})

MCInit == Init /\ IptvInit
CallsAtRest == call.phase = "new" /\ call.kind = "group"
MCNext ==
  \/ IptvInit /\ Next /\ UNCHANGED iptvVars
  \/ CallsAtRest /\ IptvNext /\ UNCHANGED mediaVars

\* The goroutines of a receiver go on.
MCFairness ==
  \A r \in Receiver :
    WF_iptvVars(Push(r)) /\ WF_iptvVars(OnPacket(r)) /\ WF_iptvVars(ReaderEnds(r))
      /\ WF_iptvVars(TakePacket(r)) /\ WF_iptvVars(StopJitterBuffer(r))
      /\ WF_iptvVars(WorkerEnds(r))
MCSpec == MCInit /\ [][MCNext]_<<mediaVars, iptvVars>> /\ MCFairness
=============================================================================
