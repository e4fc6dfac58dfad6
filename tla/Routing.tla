------------------------------ MODULE Routing ------------------------------
(***************************************************************************)
(* Who is rung for an INVITE, in which order and over which trunk:         *)
(* Router.MatchInvite (internal/sip/router.go), the ring list of the       *)
(* INVITE case (server.go), the HOOT rules (conference_ard.go), the        *)
(* caller's region (region_ring.go) and the dial plan (server.go).         *)
(*                                                                         *)
(* Every step asks the router for the configuration anew, and it may have  *)
(* been replaced in between; the target that was matched keeps the         *)
(* bridge or group as it was.                                              *)
(*                                                                         *)
(* An endpoint is [id, user, region]: user is what ExtractUserFromURI gets *)
(* out of its URI, "" where there is none.  Labels are compared folded.    *)
(***************************************************************************)
EXTENDS Integers, FiniteSets, Slices

CONSTANTS
  Fold(_),          \* case folding
  HasPrefix(_, _),  \* strings.HasPrefix
  Matches(_, _),    \* whether a uri_regex compiles and matches an endpoint's URI
  Configs,          \* configurations that may become current
  Dialled, Callers, \* users in the request URI and in From
  Domain(_),        \* the domain an endpoint's URI is in
  MaxChanges        \* bound: configuration changes

\* The lists of a document are slices, and an empty label stays empty when folded.
ASSUME RoutingAssumption ==
  /\ MaxChanges \in Nat /\ "" \in Callers
  /\ Fold("") = ""
  /\ \A c \in Configs :
       /\ IsSlice(c.plan)
       /\ \A g \in Elems(c.groups) : IsSlice(g.sideA) /\ IsSlice(g.sideB)
       /\ \A h \in Elems(c.hoots) : IsSlice(h.talkers) /\ IsSlice(h.listeners)
       /\ \A b \in Elems(c.bridges) : IsSlice(b.participants)

VARIABLES
  cfg,      \* what router.CurrentConfig returns
  call,     \* the INVITE that is handled
  changes
vars == <<cfg, call, changes>>

ById(seq, id) == LET Is(x) == x.id = id IN First(seq, Is)
FirstGiven(seq) == LET Is(x) == x # "" IN First(seq, Is)
OrEmpty(set) == IF set = {} THEN "" ELSE CHOOSE x \in set : TRUE

Others(seq, user) == Select(seq, {e \in Elems(seq) : e.user # user})
Lists(seq, user) == user # "" /\ \E e \in Elems(seq) : e.user = user
-----------------------------------------------------------------------------
(***************************************************************************)
(* The target                                                              *)
(***************************************************************************)
NoTarget == [kind |-> "none"]
Target(kind, found) ==
  IF found = {} THEN NoTarget
  ELSE [kind |-> kind, group |-> CHOOSE g \in found : TRUE]

\* The first route for the user decides, also when what it names is not there.
MatchInvite(user) ==
  LET Is(r) == r.user = user
      route == CHOOSE r \in First(cfg.routes, Is) : TRUE
  IN CASE user = "" -> NoTarget
       [] user # "" /\ user = cfg.ivr -> [kind |-> "ivr"]
       [] user # "" /\ user # cfg.ivr /\ First(cfg.routes, Is) = {} -> NoTarget
       [] OTHER ->
            CASE route.kind = "ivr" -> [kind |-> "ivr"]
              [] route.kind = "conferenceGroup" ->
                   Target("conferenceGroup", ById(cfg.groups, route.id))
              [] route.kind = "hootGroup" -> Target("hootGroup", ById(cfg.hoots, route.id))
              [] OTHER -> Target("bridge", ById(cfg.bridges, route.id))
-----------------------------------------------------------------------------
(***************************************************************************)
(* The ring list                                                           *)
(***************************************************************************)
\* Talkers ring the listeners and listeners the talkers; a list that would be
\* empty falls back to the caller's own side, and nobody rings himself.
MutHOOT(caller, talkers, listeners) ==
  LET ring == CASE Lists(talkers, caller)   -> listeners
                [] ~Lists(talkers, caller) /\ Lists(listeners, caller) -> talkers
                [] OTHER -> talkers \o listeners
  IN IF caller = "" THEN ring ELSE Others(ring, caller)

buildHOOTRingEndpoints(caller, talkers, listeners) ==
  LET talks == Lists(talkers, caller)
      listens == Lists(listeners, caller)
      Filter(ring) == IF caller = "" THEN ring ELSE Others(ring, caller)
      ring == Filter(CASE talks   -> listeners
                       [] ~talks /\ listens -> talkers
                       [] OTHER   -> talkers \o listeners)
  IN IF ring # <<>> THEN ring
     ELSE IF talks /\ talkers # <<>> THEN Filter(talkers)
     ELSE IF listens THEN Filter(listeners) ELSE <<>>

callerSide(g, caller) ==
  CASE Lists(g.sideA, caller) -> "A"
    [] ~Lists(g.sideA, caller) /\ Lists(g.sideB, caller) -> "B"
    [] OTHER -> ""

GroupRing(g, caller) ==
  CASE g.type = "hoot" -> buildHOOTRingEndpoints(caller, g.sideA, g.sideB)
    [] g.type # "hoot" /\ callerSide(g, caller) = "A" -> g.sideB
    [] g.type # "hoot" /\ callerSide(g, caller) = "B" -> g.sideA
    [] OTHER -> <<>>

\* A participant with a pair rings the other end of the pair only, anybody else
\* every participant but himself.
BridgeRing(b, caller) ==
  LET Is(p) == caller # "" /\ p.user = caller
      me == First(b.participants, Is)
      paired == \E p \in me : p.pair # ""
      Rings(p) ==
        /\ p.user # ""
        /\ IF paired THEN \E m \in me : p.pair = m.pair /\ "" \notin {p.end, m.end}
                                        /\ p.end # m.end
           ELSE p.user # caller
  IN Select(b.participants, {p \in Elems(b.participants) : Rings(p)})

userRegionForUserID(id) ==
  IF id = "" THEN "" ELSE OrEmpty({u.region : u \in ById(cfg.users, id)})

\* The region of the caller: of the endpoint it is, or of the user the endpoint
\* is named after.
Hints(endpoints, caller) ==
  LET mine == Select(endpoints, {e \in Elems(endpoints) : caller # "" /\ e.user = caller})
  IN [i \in DOMAIN mine |->
        IF mine[i].region # "" THEN mine[i].region ELSE userRegionForUserID(mine[i].id)]
preferredRegionForConferenceCaller(g, caller) ==
  OrEmpty(FirstGiven(Hints(g.sideA \o g.sideB, caller)))
preferredRegionForBridgeCaller(b, caller) ==
  OrEmpty(FirstGiven(Hints(b.participants, caller)))

MutSort(ring, preferred) ==
  Select(ring, {e \in Elems(ring) : Fold(e.region) = Fold(preferred)})

sortEndpointsByPreferredRegion(ring, preferred) ==
  LET near == {e \in Elems(ring) : e.region # "" /\ Fold(e.region) = Fold(preferred)}
  IN IF preferred = "" THEN ring ELSE Select(ring, near) \o Select(ring, Elems(ring) \ near)

RingList(t, caller) ==
  CASE t.kind = "bridge" ->
         sortEndpointsByPreferredRegion(BridgeRing(t.group, caller),
                                        preferredRegionForBridgeCaller(t.group, caller))
    [] t.kind = "conferenceGroup" ->
         sortEndpointsByPreferredRegion(GroupRing(t.group, caller),
                                        preferredRegionForConferenceCaller(t.group, caller))
    [] OTHER -> buildHOOTRingEndpoints(caller, t.group.talkers, t.group.listeners)
-----------------------------------------------------------------------------
(***************************************************************************)
(* The trunk: the first rule of the dial plan that is enabled, matches and *)
(* names a trunk with a usable address; of trunks with one id the last.    *)
(***************************************************************************)
TrunkById(id) ==
  {cfg.trunks[i] : i \in {i \in DOMAIN cfg.trunks :
     id # "" /\ cfg.trunks[i].id = id
     /\ \A j \in DOMAIN cfg.trunks : cfg.trunks[j].id = id => j <= i}}
Usable(t) == t.proxy = "ip" /\ t.port \in 1..65535
RuleMatches(r, e) ==
  /\ r.enabled
  /\ HasPrefix(e.user, r.prefix)
  /\ r.domain # "" => Fold(r.domain) = Fold(Domain(e.user))
  /\ r.regex # "" => Matches(r.regex, e.user)
Carries(r, e) == RuleMatches(r, e) /\ \E t \in TrunkById(r.trunk) : Usable(t)

\* The loop goes on behind the rule it found.
MutSelectLast(e) ==
  LET found == {i \in DOMAIN cfg.plan : Carries(cfg.plan[i], e)}
  IN UNION {TrunkById(cfg.plan[i].trunk) : i \in {i \in found : \A j \in found : j <= i}}

\* The first rule that matches decides, whether its trunk can be used or not.
MutSelectTrunk(e) ==
  LET Matching(r) == RuleMatches(r, e)
      chosen == First(cfg.plan, Matching)
  IN {t \in UNION {TrunkById(r.trunk) : r \in chosen} : Usable(t)}

selectTrunkForTarget(e) ==
  LET CarriesIt(r) == Carries(r, e)
      chosen == First(cfg.plan, CarriesIt)
  IN UNION {TrunkById(r.trunk) : r \in chosen}
-----------------------------------------------------------------------------
Idle == [pc |-> "idle", from |-> "", target |-> NoTarget, ring |-> <<>>, at |-> 1,
         trunk |-> {}]

Init == cfg \in Configs /\ call = Idle /\ changes = 0

Invite ==
  /\ call.pc = "idle"
  /\ \E user \in Dialled, from \in Callers :
       LET t == MatchInvite(user)
       IN call' = [Idle EXCEPT !.pc = IF t.kind \in {"none", "ivr"} THEN "idle" ELSE "ring",
                               !.from = from, !.target = t]
  /\ UNCHANGED <<cfg, changes>>

Ring ==
  /\ call.pc = "ring"
  /\ call' = [call EXCEPT !.pc = "emit", !.ring = RingList(call.target, call.from)]
  /\ UNCHANGED <<cfg, changes>>

\* emitOutboundInvite of the next endpoint that has a URI.
Emit ==
  /\ call.pc = "emit"
  /\ IF call.at > Len(call.ring) THEN call' = Idle
     ELSE LET e == call.ring[call.at]
          IN call' = [call EXCEPT !.at = @ + 1,
                                  !.trunk = IF e.user = "" THEN {} ELSE selectTrunkForTarget(e)]
  /\ UNCHANGED <<cfg, changes>>

\* The configuration manager stores another document.
Reconfigure ==
  /\ changes < MaxChanges /\ changes' = changes + 1
  /\ cfg' \in Configs
  /\ UNCHANGED call

Next == Invite \/ Ring \/ Emit \/ Reconfigure
Spec == Init /\ [][Next]_vars
-----------------------------------------------------------------------------
(***************************************************************************)
(* Properties                                                              *)
(***************************************************************************)
Endpoints(t) ==
  CASE t.kind = "bridge" -> t.group.participants
    [] t.kind = "conferenceGroup" -> t.group.sideA \o t.group.sideB
    [] OTHER -> t.group.talkers \o t.group.listeners

IsHoot(t) == t.kind = "hootGroup" \/ (t.kind = "conferenceGroup" /\ t.group.type = "hoot")
ListedOnce(seq, user) == \A i, j \in DOMAIN seq : seq[i].user = user /\ seq[j].user = user => i = j

\* Whatever list or fallback an endpoint comes from, the caller is never rung
\* at the number he calls from, and whoever dials a hoot group reaches somebody
\* if there is anybody else on it (buildHOOTRingEndpoints, INVITE case).  On a line
\* or a bridge that lists him twice he may be the far end of himself.
NobodyRingsHimself ==
  call.pc = "emit" /\ call.from # "" =>
    /\ IsHoot(call.target) \/ ListedOnce(Endpoints(call.target), call.from)
         => ~Lists(call.ring, call.from)
    /\ IsHoot(call.target) =>
         (call.ring = <<>> => \A e \in Elems(Endpoints(call.target)) : e.user = call.from)

\* The endpoints of one region, in their order.
OfRegion(seq, listed, region) == Select(seq, {e \in Elems(listed) : e.region = region})

\* Ordering by region loses nobody, adds nobody and keeps the configured order
\* among the endpoints of one region, and nobody of another region is rung
\* before one of the caller's (sortEndpointsByPreferredRegion).
RegionOnlyReorders ==
  [][call.pc = "ring" /\ call'.pc = "emit" /\ call.target.kind = "conferenceGroup" =>
    LET listed == GroupRing(call.target.group, call.from)
        Regions == {Fold(e.region) : e \in Elems(listed)}
    IN /\ Len(call'.ring) = Len(listed)
       /\ \A region \in {e.region : e \in Elems(listed)} :
            OfRegion(call'.ring, listed, region) = OfRegion(listed, listed, region)
       /\ \A region \in Regions \ {""} : \A i, j \in DOMAIN call'.ring :
            region = Fold(preferredRegionForConferenceCaller(call.target.group, call.from))
            /\ Fold(call'.ring[i].region) # region /\ Fold(call'.ring[j].region) = region => j < i]_vars

\* Each endpoint is rung over the trunk of the first rule of the plan that matches it
\* and can carry the call, with rules, trunks and addresses all of the configuration of
\* that moment, whichever one the ring list came from; a rule that leads to no usable
\* trunk hides none behind it, and without such a rule the default route is taken
\* (selectTrunkForTarget, emitOutboundInvite).
DialPlanFallsThrough ==
  [][call.pc = "emit" /\ call.at <= Len(call.ring) /\ call'.at > call.at =>
       LET e == call.ring[call.at]
           fitting == {i \in DOMAIN cfg.plan : Carries(cfg.plan[i], e)}
       IN IF e.user = "" \/ fitting = {} THEN call'.trunk = {}
          ELSE /\ \E t \in call'.trunk : Usable(t)
               /\ \E i \in fitting :
                    /\ \A j \in fitting : i <= j
                    /\ call'.trunk = TrunkById(cfg.plan[i].trunk)]_vars
=============================================================================
