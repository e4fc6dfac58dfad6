--------------------------- MODULE RoutingProofs ---------------------------
(***************************************************************************)
(* Proofs about module Routing: nobody rings himself, ordering by region   *)
(* only reorders, and the dial plan falls through to a rule that carries   *)
(* the call.                                                               *)
(***************************************************************************)
EXTENDS Routing, SliceProofs

LEMMA OthersHold ==
  ASSUME NEW seq, IsSlice(seq), NEW user
  PROVE  IsSlice(Others(seq, user)) /\ Elems(Others(seq, user)) = {e \in Elems(seq) : e.user # user}
<1> DEFINE set == {e \in Elems(seq) : e.user # user}
<1>1. Others(seq, user) = Select(seq, set)
  BY DEF Others
<1>2. Elems(seq) \cap set = set
  OBVIOUS
<1> HIDE DEF set
<1>3. IsSlice(Select(seq, set)) /\ Elems(Select(seq, set)) = Elems(seq) \cap set
  BY SelectHolds
<1> QED
  BY <1>1, <1>2, <1>3 DEF set

(***************************************************************************)
(* The ring lists                                                          *)
(***************************************************************************)
\* The list of a hoot group is a slice; whoever calls from a number is not on it,
\* and it is empty only when everybody on the group has that number.
LEMMA HootHolds ==
  ASSUME NEW caller, NEW talkers, NEW listeners, IsSlice(talkers), IsSlice(listeners)
  PROVE  LET ring == buildHOOTRingEndpoints(caller, talkers, listeners)
         IN /\ IsSlice(ring)
            /\ caller # "" => ~Lists(ring, caller)
            /\ caller # "" /\ ring = <<>> =>
                 \A e \in Elems(talkers \o listeners) : e.user = caller
<1> DEFINE ring == buildHOOTRingEndpoints(caller, talkers, listeners)
           talks == Lists(talkers, caller)
           listens == Lists(listeners, caller)
           both == talkers \o listeners
           Filter(seq) == IF caller = "" THEN seq ELSE Others(seq, caller)
           first == CASE talks -> listeners
                      [] ~talks /\ listens -> talkers
                      [] OTHER -> both
<1>1. IsSlice(both) /\ Elems(both) = Elems(talkers) \cup Elems(listeners)
  BY JoinHolds
<1>2. ring = IF Filter(first) # <<>> THEN Filter(first)
             ELSE IF talks /\ talkers # <<>> THEN Filter(talkers)
             ELSE IF listens THEN Filter(listeners) ELSE <<>>
  BY Zenon DEF buildHOOTRingEndpoints
<1>3. IsSlice(<<>>) /\ Elems(<<>>) = {}
  BY DEF IsSlice, Elems
<1>4. first \in {talkers, listeners, both}
      /\ (talks => first = listeners)
      /\ (~talks /\ listens => first = talkers)
      /\ (~talks /\ ~listens => first = both)
  <2> HIDE DEF both, talks, listens
  <2> QED
    OBVIOUS
<1>5. \A seq : IsSlice(seq) =>
        /\ IsSlice(Filter(seq))
        /\ caller # "" => Elems(Filter(seq)) = {e \in Elems(seq) : e.user # caller}
        /\ Filter(seq) = <<>> <=> Elems(Filter(seq)) = {}
        /\ seq = <<>> <=> Elems(seq) = {}
  <2>1. ASSUME NEW seq, IsSlice(seq)
        PROVE  /\ IsSlice(Filter(seq))
               /\ caller # "" => Elems(Filter(seq)) = {e \in Elems(seq) : e.user # caller}
    BY <2>1, OthersHold, Zenon
  <2> HIDE DEF Filter
  <2> QED
    BY <2>1, EmptyHolds
<1>6. /\ talks <=> caller # "" /\ \E e \in Elems(talkers) : e.user = caller
      /\ listens <=> caller # "" /\ \E e \in Elems(listeners) : e.user = caller
      /\ \A seq : Lists(seq, caller) <=> caller # "" /\ \E e \in Elems(seq) : e.user = caller
  BY Zenon DEF Lists
<1> HIDE DEF ring, talks, listens, both, Filter, first
<1>7. IsSlice(first)
  BY <1>1, <1>4
<1>8. IsSlice(Filter(first)) /\ IsSlice(Filter(talkers)) /\ IsSlice(Filter(listeners))
  BY <1>5, <1>7
<1>9. ring \in {Filter(first), Filter(talkers), Filter(listeners), <<>>}
  BY <1>2
<1>10. IsSlice(ring)
  BY <1>3, <1>8, <1>9
<1>11. ASSUME caller # "" PROVE ~Lists(ring, caller)
  <2>1. \A seq : IsSlice(seq) => \A e \in Elems(Filter(seq)) : e.user # caller
    BY <1>5, <1>11
  <2>2. \A e \in Elems(ring) : e.user # caller
    BY <2>1, <1>3, <1>7, <1>9
  <2> QED
    BY <1>6, <2>2
<1>12. ASSUME caller # "", ring = <<>> PROVE \A e \in Elems(both) : e.user = caller
  <2>1. Filter(first) = <<>>
    BY <1>2, <1>12
  <2>2. \A seq : IsSlice(seq) /\ Filter(seq) = <<>> => \A e \in Elems(seq) : e.user = caller
    BY <1>5, <1>12
  <2>3. \A e \in Elems(first) : e.user = caller
    BY <1>7, <2>1, <2>2
  <2>4. CASE talks
    <3>1. talkers # <<>>
      BY <1>5, <1>6, <2>4
    <3>2. Filter(talkers) = <<>>
      BY <1>2, <1>12, <2>1, <2>4, <3>1
    <3>3. \A e \in Elems(talkers) : e.user = caller
      BY <2>2, <3>2
    <3> QED
      BY <1>1, <1>4, <2>3, <2>4, <3>3
  <2>5. CASE ~talks /\ listens
    <3>1. Filter(listeners) = <<>>
      BY <1>2, <1>12, <2>1, <2>5
    <3>2. \A e \in Elems(listeners) : e.user = caller
      BY <2>2, <3>1
    <3> QED
      BY <1>1, <1>4, <2>3, <2>5, <3>2
  <2>6. CASE ~talks /\ ~listens
    BY <1>4, <2>3, <2>6
  <2> QED
    BY <2>4, <2>5, <2>6
<1> QED
  BY <1>10, <1>11, <1>12 DEF ring, both

\* Ordering by region gives a slice of the same endpoints.
LEMMA SortHolds ==
  ASSUME NEW ring, IsSlice(ring), NEW preferred
  PROVE  LET sorted == sortEndpointsByPreferredRegion(ring, preferred)
         IN IsSlice(sorted) /\ Elems(sorted) = Elems(ring)
<1> DEFINE near == {e \in Elems(ring) : e.region # "" /\ Fold(e.region) = Fold(preferred)}
           far == Elems(ring) \ near
           sorted == sortEndpointsByPreferredRegion(ring, preferred)
<1>1. sorted = IF preferred = "" THEN ring ELSE Select(ring, near) \o Select(ring, far)
  BY Zenon DEF sortEndpointsByPreferredRegion
<1>2. near \cup far = Elems(ring) /\ Elems(ring) \cap near = near /\ Elems(ring) \cap far = far
  OBVIOUS
<1> HIDE DEF near, far, sorted
<1>3. IsSlice(Select(ring, near)) /\ Elems(Select(ring, near)) = near
  BY <1>2, SelectHolds
<1>4. IsSlice(Select(ring, far)) /\ Elems(Select(ring, far)) = far
  BY <1>2, SelectHolds
<1>5. /\ IsSlice(Select(ring, near) \o Select(ring, far))
      /\ Elems(Select(ring, near) \o Select(ring, far)) = near \cup far
  BY <1>3, <1>4, JoinHolds
<1> QED
  BY <1>1, <1>2, <1>5 DEF sorted

\* On a line that lists the caller once, he is not on the side he rings.
LEMMA GroupHolds ==
  ASSUME NEW g, IsSlice(g.sideA), IsSlice(g.sideB), NEW caller
  PROVE  /\ IsSlice(GroupRing(g, caller))
         /\ caller # "" /\ (g.type = "hoot" \/ ListedOnce(g.sideA \o g.sideB, caller)) =>
              ~Lists(GroupRing(g, caller), caller)
         /\ caller # "" /\ g.type = "hoot" /\ GroupRing(g, caller) = <<>> =>
              \A e \in Elems(g.sideA \o g.sideB) : e.user = caller
<1> DEFINE A == g.sideA
           B == g.sideB
           ring == GroupRing(g, caller)
<1>1. CASE g.type = "hoot"
  <2>1. ring = buildHOOTRingEndpoints(caller, A, B)
    BY <1>1 DEF GroupRing
  <2> HIDE DEF ring
  <2>2. /\ IsSlice(ring)
        /\ caller # "" => ~Lists(ring, caller)
        /\ caller # "" /\ ring = <<>> => \A e \in Elems(A \o B) : e.user = caller
    BY <2>1, HootHolds
  <2> QED
    BY <1>1, <2>2 DEF ring
<1>2. CASE g.type # "hoot"
  <2>1. \/ ring = B /\ Lists(A, caller)
        \/ ring = A /\ Lists(B, caller)
        \/ ring = <<>>
    <3>1. callerSide(g, caller) = "A" => Lists(A, caller)
      BY DEF callerSide
    <3>2. callerSide(g, caller) = "B" => Lists(B, caller)
      BY DEF callerSide
    <3> QED
      BY <1>2, <3>1, <3>2 DEF GroupRing
  <2>2. IsSlice(<<>>) /\ ~Lists(<<>>, caller)
    BY DEF IsSlice, Elems, Lists
  <2>3. ASSUME ListedOnce(A \o B, caller), Lists(A, caller), Lists(B, caller) PROVE FALSE
    <3>1. PICK i \in DOMAIN A : A[i].user = caller
      BY <2>3 DEF Lists, Elems
    <3>2. PICK j \in DOMAIN B : B[j].user = caller
      BY <2>3 DEF Lists, Elems
    <3> DEFINE E == Elems(A) \cup Elems(B)
    <3>3. A \in Seq(E) /\ B \in Seq(E)
      BY DEF IsSlice, Elems
    <3>4. i \in 1..Len(A) /\ j \in 1..Len(B) /\ Len(A) \in Nat /\ Len(B) \in Nat
      BY <3>1, <3>2, <3>3
    <3>5. DOMAIN (A \o B) = 1..(Len(A) + Len(B))
      BY <3>3
    <3> HIDE DEF A, B, E
    <3>6. (A \o B)[i] = A[i] /\ (A \o B)[Len(A) + j] = B[j]
      BY <3>3, <3>4
    <3>7. i \in 1..(Len(A) + Len(B)) /\ Len(A) + j \in 1..(Len(A) + Len(B)) /\ i # Len(A) + j
      BY <3>4
    <3> QED
      BY <2>3, <3>1, <3>2, <3>5, <3>6, <3>7, Zenon DEF ListedOnce
  <2> HIDE DEF ring
  <2>4. IsSlice(ring)
    BY <2>1, <2>2
  <2>5. ListedOnce(A \o B, caller) => ~Lists(ring, caller)
    BY <2>1, <2>2, <2>3
  <2> QED
    BY <1>2, <2>4, <2>5 DEF ring
<1> QED
  BY <1>1, <1>2

\* In a bridge that lists the caller once, he is not a participant he rings.
LEMMA BridgeHolds ==
  ASSUME NEW b, IsSlice(b.participants), NEW caller
  PROVE  /\ IsSlice(BridgeRing(b, caller))
         /\ caller # "" /\ ListedOnce(b.participants, caller) =>
              ~Lists(BridgeRing(b, caller), caller)
<1> DEFINE Is(p) == caller # "" /\ p.user = caller
           all == b.participants
           me == First(all, Is)
           paired == \E p \in me : p.pair # ""
           Rings(p) ==
             /\ p.user # ""
             /\ IF paired THEN \E m \in me : p.pair = m.pair /\ "" \notin {p.end, m.end}
                                             /\ p.end # m.end
                ELSE p.user # caller
           set == {p \in Elems(all) : Rings(p)}
<1>1. BridgeRing(b, caller) = Select(all, set)
  BY Zenon DEF BridgeRing
<1>2. ASSUME caller # "", ListedOnce(all, caller), NEW p \in set, p.user = caller PROVE FALSE
  <2>1. p \in Elems(all) /\ Rings(p)
    OBVIOUS
  <2>2. PICK m \in me : p.end # m.end
    BY <2>1, <1>2
  <2>3. \E i \in DOMAIN all : m = all[i] /\ m.user = caller
    BY <2>2 DEF First
  <2>4. m = p
    BY <2>1, <2>3, <1>2 DEF ListedOnce, Elems
  <2> QED
    BY <2>2, <2>4
<1> HIDE DEF set
<1>3. IsSlice(Select(all, set)) /\ Elems(Select(all, set)) = Elems(all) \cap set
  BY SelectHolds
<1> QED
  BY <1>1, <1>2, <1>3 DEF Lists

(***************************************************************************)
(* The invariant: the call keeps its fields, and a target that is rung has *)
(* the lists of slices of the document it was matched in.                  *)
(***************************************************************************)
GoodTarget(t) ==
  \/ t.kind = "bridge" /\ IsSlice(t.group.participants)
  \/ t.kind = "conferenceGroup" /\ IsSlice(t.group.sideA) /\ IsSlice(t.group.sideB)
  \/ t.kind = "hootGroup" /\ IsSlice(t.group.talkers) /\ IsSlice(t.group.listeners)

GoodCall(c) ==
  /\ DOMAIN c = {"pc", "from", "target", "ring", "at", "trunk"}
  /\ c.at \in Nat \ {0}
  /\ c.pc \in {"ring", "emit"} => GoodTarget(c.target)

CallInv == cfg \in Configs /\ GoodCall(call)

LEMMA MatchHolds ==
  ASSUME cfg \in Configs, NEW user
  PROVE  MatchInvite(user).kind \in {"none", "ivr"} \/ GoodTarget(MatchInvite(user))
<1> DEFINE Is(r) == r.user = user
           route == CHOOSE r \in First(cfg.routes, Is) : TRUE
           groups == ById(cfg.groups, route.id)
           hoots == ById(cfg.hoots, route.id)
           bridges == ById(cfg.bridges, route.id)
<1>1. \/ MatchInvite(user) \in {NoTarget, [kind |-> "ivr"]}
      \/ MatchInvite(user) = Target("conferenceGroup", groups)
      \/ MatchInvite(user) = Target("hootGroup", hoots)
      \/ MatchInvite(user) = Target("bridge", bridges)
  <2> DEFINE by ==
        CASE route.kind = "ivr" -> [kind |-> "ivr"]
          [] route.kind = "conferenceGroup" -> Target("conferenceGroup", groups)
          [] route.kind = "hootGroup" -> Target("hootGroup", hoots)
          [] OTHER -> Target("bridge", bridges)
             none == First(cfg.routes, Is) = {}
  <2>1. MatchInvite(user) =
          CASE user = "" -> NoTarget
            [] user # "" /\ user = cfg.ivr -> [kind |-> "ivr"]
            [] user # "" /\ user # cfg.ivr /\ none -> NoTarget
            [] OTHER -> by
    BY Zenon DEF MatchInvite
  <2>2. by \in {[kind |-> "ivr"], Target("conferenceGroup", groups),
                Target("hootGroup", hoots), Target("bridge", bridges)}
    <3> HIDE DEF groups, hoots, bridges, route
    <3> QED
      OBVIOUS
  <2> HIDE DEF by, none
  <2>3. MatchInvite(user) \in {NoTarget, [kind |-> "ivr"], by}
    BY <2>1
  <2> QED
    BY <2>2, <2>3
<1>2. groups \subseteq Elems(cfg.groups) /\ hoots \subseteq Elems(cfg.hoots)
      /\ bridges \subseteq Elems(cfg.bridges)
  BY DEF ById, First, Elems
<1> HIDE DEF groups, hoots, bridges
<1>3. ASSUME NEW kind, NEW found, found # {}
      PROVE  Target(kind, found).kind = kind /\ Target(kind, found).group \in found
  BY <1>3 DEF Target
<1>4. \A kind : Target(kind, {}).kind = "none"
  BY DEF Target, NoTarget
<1>5. NoTarget.kind = "none" /\ [kind |-> "ivr"].kind = "ivr"
  BY DEF NoTarget
<1>6. ASSUME MatchInvite(user) = Target("conferenceGroup", groups)
      PROVE  MatchInvite(user).kind = "none" \/ GoodTarget(MatchInvite(user))
  <2>1. \A g \in groups : IsSlice(g.sideA) /\ IsSlice(g.sideB)
    BY <1>2, RoutingAssumption
  <2> QED
    BY <2>1, <1>3, <1>4, <1>6 DEF GoodTarget
<1>7. ASSUME MatchInvite(user) = Target("hootGroup", hoots)
      PROVE  MatchInvite(user).kind = "none" \/ GoodTarget(MatchInvite(user))
  <2>1. \A h \in hoots : IsSlice(h.talkers) /\ IsSlice(h.listeners)
    BY <1>2, RoutingAssumption
  <2> QED
    BY <2>1, <1>3, <1>4, <1>7 DEF GoodTarget
<1>8. ASSUME MatchInvite(user) = Target("bridge", bridges)
      PROVE  MatchInvite(user).kind = "none" \/ GoodTarget(MatchInvite(user))
  <2>1. \A b \in bridges : IsSlice(b.participants)
    BY <1>2, RoutingAssumption
  <2> QED
    <3>1. CASE bridges = {}
      BY <3>1, <1>4, <1>8
    <3>2. CASE bridges # {}
      <4>1. MatchInvite(user).kind = "bridge" /\ MatchInvite(user).group \in bridges
        BY <3>2, <1>3, <1>8, Zenon
      <4> QED
        BY <4>1, <2>1 DEF GoodTarget
    <3> QED
      BY <3>1, <3>2
<1> QED
  BY <1>1, <1>5, <1>6, <1>7, <1>8

LEMMA IdleHolds == GoodCall(Idle)
<1>1. DOMAIN Idle = {"pc", "from", "target", "ring", "at", "trunk"} /\ Idle.at = 1
      /\ Idle.pc = "idle"
  BY DEF Idle
<1> QED
  BY <1>1 DEF GoodCall

LEMMA CallInit == Init => CallInv
<1> SUFFICES ASSUME Init PROVE CallInv
  OBVIOUS
<1>1. call = Idle /\ cfg \in Configs
  BY DEF Init
<1> QED
  BY <1>1, IdleHolds DEF CallInv

LEMMA CallStep == CallInv /\ [Next]_vars => CallInv'
<1> SUFFICES ASSUME CallInv, [Next]_vars PROVE CallInv'
  OBVIOUS
<1>1. /\ cfg \in Configs /\ call.at \in Nat \ {0}
      /\ DOMAIN call = {"pc", "from", "target", "ring", "at", "trunk"}
      /\ call.pc \in {"ring", "emit"} => GoodTarget(call.target)
  BY DEF CallInv, GoodCall
<1>2. \A c : GoodCall(c) /\ call' = c => GoodCall(call)'
  BY DEF GoodCall
<1>3. CASE Invite
  <2>1. PICK user \in Dialled, from \in Callers :
          call' = [Idle EXCEPT !.pc = IF MatchInvite(user).kind \in {"none", "ivr"} THEN "idle"
                                      ELSE "ring",
                               !.from = from, !.target = MatchInvite(user)]
    BY <1>3, Zenon DEF Invite
  <2> DEFINE t == MatchInvite(user)
             c == [Idle EXCEPT !.pc = IF t.kind \in {"none", "ivr"} THEN "idle" ELSE "ring",
                               !.from = from, !.target = t]
  <2>2. t.kind \in {"none", "ivr"} \/ GoodTarget(t)
    BY <1>1, MatchHolds
  <2> HIDE DEF t
  <2>3. GoodCall(c)
    BY <2>2 DEF GoodCall, Idle
  <2>4. call' = c
    BY <2>1 DEF t
  <2> HIDE DEF c
  <2>5. GoodCall(call)'
    BY <1>2, <2>3, <2>4
  <2>6. cfg' = cfg
    BY <1>3 DEF Invite
  <2> QED
    BY <1>1, <2>5, <2>6 DEF CallInv
<1>4. CASE Ring
  <2> DEFINE list == RingList(call.target, call.from)
             c == [call EXCEPT !.pc = "emit", !.ring = list]
  <2>1. call' = c /\ call.pc = "ring" /\ cfg' = cfg
    BY <1>4 DEF Ring
  <2> HIDE DEF list
  <2>2. GoodCall(c)
    BY <1>1, <2>1 DEF GoodCall
  <2> HIDE DEF c
  <2>3. GoodCall(call)'
    BY <1>2, <2>1, <2>2
  <2> QED
    BY <1>1, <2>1, <2>3 DEF CallInv
<1>5. CASE Emit
  <2>1. /\ cfg' = cfg /\ call.pc = "emit"
        /\ \/ call' = Idle
           \/ \E x : call' = [call EXCEPT !.at = @ + 1, !.trunk = x]
    BY <1>5 DEF Emit
  <2>2. CASE call' = Idle
    BY <1>1, <1>2, <2>1, <2>2, IdleHolds DEF CallInv
  <2>3. CASE \E x : call' = [call EXCEPT !.at = @ + 1, !.trunk = x]
    <3>1. PICK x : call' = [call EXCEPT !.at = @ + 1, !.trunk = x]
      BY <2>3
    <3> DEFINE c == [call EXCEPT !.at = @ + 1, !.trunk = x]
    <3>2. GoodCall(c)
      <4>1. DOMAIN c = DOMAIN call /\ c.at = call.at + 1 /\ c.pc = call.pc
            /\ c.target = call.target
        BY <1>1
      <4> HIDE DEF c
      <4>2. c.at \in Nat \ {0}
        BY <1>1, <4>1
      <4>3. GoodTarget(c.target)
        BY <1>1, <2>1, <4>1
      <4> QED
        BY <1>1, <4>1, <4>2, <4>3, Zenon DEF GoodCall
    <3> HIDE DEF c
    <3>3. call' = c
      BY <3>1 DEF c
    <3> QED
      BY <1>1, <1>2, <2>1, <3>2, <3>3 DEF CallInv
  <2> QED
    BY <2>1, <2>2, <2>3
<1>6. CASE Reconfigure
  BY <1>6, <1>1, <1>2 DEF Reconfigure, CallInv, GoodCall
<1>7. CASE UNCHANGED vars
  BY <1>7, <1>1, <1>2 DEF vars, CallInv, GoodCall
<1> QED
  BY <1>3, <1>4, <1>5, <1>6, <1>7 DEF Next

THEOREM CallInvariant == Spec => []CallInv
<1> QED
  BY CallInit, CallStep, PTL DEF Spec

(***************************************************************************)
(* Nobody rings himself                                                    *)
(***************************************************************************)
\* What NobodyRingsHimself says of the list rung for a target and a caller.
Spares(t, caller, ring) ==
  caller # "" =>
    /\ IsHoot(t) \/ ListedOnce(Endpoints(t), caller) => ~Lists(ring, caller)
    /\ IsHoot(t) => (ring = <<>> => \A e \in Elems(Endpoints(t)) : e.user = caller)

LEMMA SortSpares ==
  ASSUME NEW ring, IsSlice(ring), NEW preferred, NEW t, NEW caller, Spares(t, caller, ring)
  PROVE  Spares(t, caller, sortEndpointsByPreferredRegion(ring, preferred))
<1> DEFINE sorted == sortEndpointsByPreferredRegion(ring, preferred)
<1>1. IsSlice(sorted) /\ Elems(sorted) = Elems(ring)
  BY SortHolds
<1> HIDE DEF sorted
<1>2. Lists(sorted, caller) <=> Lists(ring, caller)
  BY <1>1 DEF Lists
<1>3. sorted = <<>> <=> ring = <<>>
  BY <1>1, EmptyHolds
<1>4. Spares(t, caller, sorted)
  BY <1>2, <1>3 DEF Spares
<1> QED
  BY <1>4 DEF sorted

LEMMA RingListSpares ==
  ASSUME NEW t, GoodTarget(t), NEW caller
  PROVE  Spares(t, caller, RingList(t, caller))
<1>1. CASE t.kind = "bridge"
  <2> DEFINE ring == BridgeRing(t.group, caller)
             preferred == preferredRegionForBridgeCaller(t.group, caller)
  <2>1. RingList(t, caller) = sortEndpointsByPreferredRegion(ring, preferred)
    BY <1>1 DEF RingList
  <2>2. Endpoints(t) = t.group.participants /\ ~IsHoot(t) /\ IsSlice(t.group.participants)
    BY <1>1 DEF Endpoints, IsHoot, GoodTarget
  <2>3. IsSlice(ring) /\ (caller # "" /\ ListedOnce(Endpoints(t), caller) => ~Lists(ring, caller))
    BY <2>2, BridgeHolds
  <2> HIDE DEF ring, preferred
  <2>4. Spares(t, caller, ring)
    BY <2>2, <2>3 DEF Spares
  <2> QED
    BY <2>1, <2>3, <2>4, SortSpares
<1>2. CASE t.kind = "conferenceGroup"
  <2> DEFINE ring == GroupRing(t.group, caller)
             preferred == preferredRegionForConferenceCaller(t.group, caller)
  <2>1. RingList(t, caller) = sortEndpointsByPreferredRegion(ring, preferred)
    BY <1>2 DEF RingList
  <2>2. /\ Endpoints(t) = t.group.sideA \o t.group.sideB /\ (IsHoot(t) <=> t.group.type = "hoot")
        /\ IsSlice(t.group.sideA) /\ IsSlice(t.group.sideB)
    BY <1>2 DEF Endpoints, IsHoot, GoodTarget
  <2>3. /\ IsSlice(ring)
        /\ caller # "" /\ (IsHoot(t) \/ ListedOnce(Endpoints(t), caller)) => ~Lists(ring, caller)
        /\ caller # "" /\ IsHoot(t) /\ ring = <<>> =>
             \A e \in Elems(Endpoints(t)) : e.user = caller
    BY <2>2, GroupHolds
  <2> HIDE DEF ring, preferred
  <2>4. Spares(t, caller, ring)
    BY <2>3 DEF Spares
  <2> QED
    BY <2>1, <2>3, <2>4, SortSpares
<1>3. CASE t.kind = "hootGroup"
  <2> DEFINE ring == buildHOOTRingEndpoints(caller, t.group.talkers, t.group.listeners)
  <2>1. RingList(t, caller) = ring
    BY <1>3 DEF RingList
  <2>2. Endpoints(t) = t.group.talkers \o t.group.listeners
        /\ IsSlice(t.group.talkers) /\ IsSlice(t.group.listeners)
    BY <1>3 DEF Endpoints, GoodTarget
  <2>3. /\ caller # "" => ~Lists(ring, caller)
        /\ caller # "" /\ ring = <<>> =>
             \A e \in Elems(t.group.talkers \o t.group.listeners) : e.user = caller
    BY <2>2, HootHolds
  <2> HIDE DEF ring
  <2> QED
    BY <2>1, <2>2, <2>3, Zenon DEF Spares
<1> QED
  BY <1>1, <1>2, <1>3 DEF GoodTarget

\* On the list that is kept while the outbound INVITEs go out, the caller is never
\* rung at the number he calls from, and a hoot group that has somebody else on it
\* is not left unrung: for every configuration, changed at any moment.
THEOREM NobodyRingsHimselfHolds == Spec => []NobodyRingsHimself
<1>1. NobodyRingsHimself <=> (call.pc = "emit" => Spares(call.target, call.from, call.ring))
  BY DEF NobodyRingsHimself, Spares
<1>2. Init => NobodyRingsHimself
  <2>1. Idle.pc = "idle"
    BY DEF Idle
  <2> QED
    BY <2>1 DEF Init, NobodyRingsHimself
<1>3. ASSUME CallInv, NobodyRingsHimself, [Next]_vars PROVE NobodyRingsHimself'
  <2>1. GoodCall(call)
    BY <1>3 DEF CallInv
  <2>2. \A c : c = call' =>
          (NobodyRingsHimself' <=> (c.pc = "emit" => Spares(c.target, c.from, c.ring)))
    BY DEF NobodyRingsHimself, Spares
  <2>3. CASE Invite
    <3>1. call'.pc \in {"idle", "ring"}
      BY <2>3, Zenon DEF Invite, Idle
    <3> QED
      BY <2>2, <3>1
  <2>4. CASE Ring
    <3> DEFINE list == RingList(call.target, call.from)
    <3>1. call' = [call EXCEPT !.pc = "emit", !.ring = list] /\ call.pc = "ring"
      BY <2>4 DEF Ring
    <3>2. Spares(call.target, call.from, list)
      BY <2>1, <3>1, RingListSpares DEF GoodCall
    <3> HIDE DEF list
    <3>3. call'.target = call.target /\ call'.from = call.from /\ call'.ring = list
      BY <2>1, <3>1 DEF GoodCall
    <3> QED
      BY <2>2, <3>2, <3>3
  <2>5. CASE Emit
    <3>1. /\ call.pc = "emit"
          /\ \/ call' = Idle
             \/ \E x : call' = [call EXCEPT !.at = @ + 1, !.trunk = x]
      BY <2>5 DEF Emit
    <3>2. CASE call' = Idle
      <4>1. Idle.pc = "idle"
        BY DEF Idle
      <4> QED
        BY <2>2, <3>2, <4>1
    <3>3. CASE \E x : call' = [call EXCEPT !.at = @ + 1, !.trunk = x]
      <4>1. call'.target = call.target /\ call'.from = call.from /\ call'.ring = call.ring
        BY <2>1, <3>3 DEF GoodCall
      <4> QED
        BY <1>1, <1>3, <2>2, <3>1, <4>1
    <3> QED
      BY <3>1, <3>2, <3>3
  <2>6. CASE Reconfigure \/ UNCHANGED vars
    <3>1. call' = call
      BY <2>6 DEF Reconfigure, vars
    <3> QED
      BY <1>1, <1>3, <2>2, <3>1
  <2> QED
    BY <1>3, <2>3, <2>4, <2>5, <2>6 DEF Next
<1> QED
  BY <1>2, <1>3, CallInvariant, PTL DEF Spec

(***************************************************************************)
(* The dial plan                                                           *)
(***************************************************************************)
\* Where one element of a slice passes, there is a first one that does.
LEMMA FirstHolds ==
  ASSUME NEW seq, IsSlice(seq), NEW set, \E x \in Elems(seq) : x \in set
  PROVE  \E i \in DOMAIN seq : seq[i] \in set /\ \A j \in 1..(i - 1) : seq[j] \notin set
<1> DEFINE T == {i \in DOMAIN seq : seq[i] \in set}
<1>1. DOMAIN seq = 1..Len(seq) /\ Len(seq) \in Nat
  BY DEF IsSlice
<1>2. T # {} /\ T \subseteq Nat
  BY <1>1 DEF Elems
<1>3. PICK i \in T : \A j \in T : ~(j < i)
  <2> HIDE DEF T
  <2> QED
    BY <1>2, Least
<1>4. ASSUME NEW j \in 1..(i - 1) PROVE seq[j] \notin set
  <2>1. i \in 1..Len(seq)
    BY <1>1
  <2>2. j \in DOMAIN seq /\ j < i
    BY <1>1, <2>1
  <2> QED
    BY <1>3, <2>2
<1> QED
  BY <1>4

\* The trunk is the one of the first rule that can carry the call.
LEMMA PlanHolds ==
  ASSUME cfg \in Configs, NEW e
  PROVE  LET fitting == {i \in DOMAIN cfg.plan : Carries(cfg.plan[i], e)}
         IN \/ fitting = {} /\ selectTrunkForTarget(e) = {}
            \/ \E i \in fitting :
                 /\ \A j \in fitting : i <= j
                 /\ selectTrunkForTarget(e) = TrunkById(cfg.plan[i].trunk)
<1> DEFINE plan == cfg.plan
           P(r) == Carries(r, e)
           fitting == {i \in DOMAIN plan : P(plan[i])}
           found == {i \in DOMAIN plan : P(plan[i]) /\ \A j \in 1..(i - 1) : ~P(plan[j])}
           trunks == {TrunkById(plan[i].trunk) : i \in found}
<1>1. DOMAIN plan = 1..Len(plan) /\ Len(plan) \in Nat
  <2>1. IsSlice(plan)
    BY RoutingAssumption
  <2> HIDE DEF plan
  <2> QED
    BY <2>1 DEF IsSlice
<1>2. selectTrunkForTarget(e) = UNION trunks
  <2> DEFINE chosen == First(plan, P)
  <2>1. selectTrunkForTarget(e) = UNION {TrunkById(q.trunk) : q \in chosen}
    BY Zenon DEF selectTrunkForTarget
  <2>2. chosen = {plan[i] : i \in found}
    BY Zenon DEF First
  <2> HIDE DEF chosen, found
  <2>3. {TrunkById(q.trunk) : q \in chosen} = trunks
    BY <2>2
  <2> QED
    BY <2>1, <2>3
<1> HIDE DEF P, plan
<1>3. CASE fitting = {}
  <2>1. found = {}
    BY <1>3
  <2>2. trunks = {}
    BY <2>1
  <2>3. UNION trunks = {}
    BY <2>2
  <2> QED
    BY <1>2, <1>3, <2>3 DEF P, plan
<1>4. CASE fitting # {}
  <2>1. fitting # {} /\ fitting \subseteq Nat
    BY <1>1, <1>4
  <2>2. PICK i \in fitting : \A j \in fitting : ~(j < i)
    <3> HIDE DEF fitting
    <3> QED
      BY <2>1, Least
  <2>3. i \in DOMAIN plan /\ P(plan[i]) /\ \A j \in fitting : i <= j
    BY <1>1, <2>2
  <2>4. i \in found
    <3>1. ASSUME NEW j \in 1..(i - 1) PROVE ~P(plan[j])
      <4>1. j \in DOMAIN plan /\ ~(i <= j)
        BY <1>1, <2>3
      <4> QED
        BY <2>3, <4>1
    <3> QED
      BY <2>3, <3>1
  <2>5. ASSUME NEW k \in found PROVE k = i
    <3>1. k \in DOMAIN plan /\ k \in fitting /\ i <= k
      BY <2>3
    <3>2. k > i => i \in 1..(k - 1)
      BY <1>1, <2>3, <3>1
    <3>3. ~(k > i)
      BY <2>3, <3>2
    <3> QED
      BY <1>1, <2>3, <3>1, <3>3
  <2>6. trunks = {TrunkById(plan[i].trunk)}
    BY <2>4, <2>5
  <2>7. UNION trunks = TrunkById(plan[i].trunk)
    <3> HIDE DEF trunks
    <3> QED
      BY <2>6
  <2>8. selectTrunkForTarget(e) = TrunkById(plan[i].trunk)
    BY <1>2, <2>7
  <2> QED
    BY <2>2, <2>3, <2>8 DEF P, plan
<1> QED
  BY <1>3, <1>4

\* Every endpoint goes over the trunk of the first rule of the plan that matches it and
\* can carry the call, over a usable one, or by default where there is no such rule:
\* whatever configurations there are and whenever they are replaced.
THEOREM DialPlanFallsThroughHolds == Spec => DialPlanFallsThrough
<1> DEFINE fitting == {i \in DOMAIN cfg.plan : Carries(cfg.plan[i], call.ring[call.at])}
           A ==
      call.pc = "emit" /\ call.at <= Len(call.ring) /\ call'.at > call.at =>
        IF call.ring[call.at].user = "" \/ fitting = {} THEN call'.trunk = {}
        ELSE /\ \E t \in call'.trunk : Usable(t)
             /\ \E i \in fitting :
                  /\ \A j \in fitting : i <= j
                  /\ call'.trunk = TrunkById(cfg.plan[i].trunk)
<1>1. ASSUME CallInv, [Next]_vars PROVE A
  <2> SUFFICES ASSUME call.pc = "emit", call.at <= Len(call.ring), call'.at > call.at PROVE A
    OBVIOUS
  <2> DEFINE e == call.ring[call.at]
             trunk == IF e.user = "" THEN {} ELSE selectTrunkForTarget(e)
  <2>1. GoodCall(call) /\ cfg \in Configs /\ call.at \in Nat \ {0}
    BY <1>1 DEF CallInv, GoodCall
  <2>2. ~Invite /\ ~Ring
    BY DEF Invite, Ring
  <2>3. call' # call
    BY <2>1
  <2>4. Emit
    BY <1>1, <2>2, <2>3 DEF Next, Reconfigure, vars
  <2>5. call' # Idle
    <3>1. Idle.at = 1
      BY DEF Idle
    <3>2. \A c : c = call' => c.at > call.at
      OBVIOUS
    <3> QED
      BY <2>1, <3>1, <3>2
  <2>6. call' = [call EXCEPT !.at = @ + 1, !.trunk = trunk]
    BY <2>4, <2>5, Zenon DEF Emit
  <2> HIDE DEF trunk
  <2>7. call'.trunk = trunk
    BY <2>1, <2>6 DEF GoodCall
  <2>8. \/ fitting = {} /\ selectTrunkForTarget(e) = {}
        \/ \E i \in fitting :
             /\ \A j \in fitting : i <= j
             /\ selectTrunkForTarget(e) = TrunkById(cfg.plan[i].trunk)
    BY <2>1, PlanHolds, Zenon
  <2>9. \A i \in fitting : \E t \in TrunkById(cfg.plan[i].trunk) : Usable(t)
    BY DEF Carries
  <2> HIDE DEF fitting
  <2> QED
    BY <2>7, <2>8, <2>9, Zenon DEF trunk
<1> QED
  BY <1>1, CallInvariant, PTL DEF Spec, DialPlanFallsThrough

(***************************************************************************)
(* Ordering by region                                                      *)
(***************************************************************************)
\* Ordering by region keeps the number of endpoints and the order of those of one
\* region, which are all on the near side or all on the far side.
LEMMA SortKeeps ==
  ASSUME NEW ring, IsSlice(ring), NEW preferred,
         NEW sorted, sorted = sortEndpointsByPreferredRegion(ring, preferred)
  PROVE  /\ Len(sorted) = Len(ring)
         /\ \A label : OfRegion(sorted, ring, label) = OfRegion(ring, ring, label)
<1> SUFFICES ASSUME NEW label
             PROVE  /\ Len(sorted) = Len(ring)
                    /\ OfRegion(sorted, ring, label) = OfRegion(ring, ring, label)
  BY Zenon
<1> DEFINE set == {e \in Elems(ring) : e.region = label}
<1>1. /\ set \subseteq Elems(ring) /\ \A e \in Elems(ring) : e \in set <=> e.region = label
      /\ OfRegion(sorted, ring, label) = Select(sorted, set)
      /\ OfRegion(ring, ring, label) = Select(ring, set)
  BY DEF OfRegion
<1> HIDE DEF set
<1> DEFINE near == {e \in Elems(ring) : e.region # "" /\ Fold(e.region) = Fold(preferred)}
           far == Elems(ring) \ near
           front == Select(ring, near)
           back == Select(ring, far)
<1>2. sorted = IF preferred = "" THEN ring ELSE front \o back
  BY Zenon DEF sortEndpointsByPreferredRegion
<1>3. set \subseteq near \/ (set \cap near = {} /\ set \subseteq far)
  <2>1. CASE label # "" /\ Fold(label) = Fold(preferred)
    <3>1. ASSUME NEW e \in set PROVE e \in near
      <4>1. e \in Elems(ring) /\ e.region = label
        BY <1>1, Zenon
      <4> QED
        BY <2>1, <4>1, Zenon
    <3> QED
      BY <3>1, Zenon
  <2>2. CASE ~(label # "" /\ Fold(label) = Fold(preferred))
    <3>1. set \cap near = {}
      BY <1>1, <2>2
    <3> HIDE DEF near
    <3>2. set \subseteq far
      BY <1>1, <3>1
    <3> QED
      BY <3>1, <3>2
  <2> QED
    BY <2>1, <2>2, Zenon
<1>4. Len(front) + Len(back) = Len(ring)
  BY SelectCounts
<1>5. set \subseteq Elems(ring) /\ near \subseteq Elems(ring) /\ near \cap far = {}
  BY <1>1
<1> HIDE DEF near, far
<1>6. /\ IsSlice(front) /\ Elems(front) = Elems(ring) \cap near
      /\ IsSlice(back) /\ Elems(back) = Elems(ring) \cap far
  BY SelectHolds
<1>7. Select(front \o back, set) = Select(front, set) \o Select(back, set)
  BY <1>6, SelectJoin
<1>8. IsSlice(Select(ring, set))
  BY SelectHolds
<1>9. Select(ring, set) \o <<>> = Select(ring, set) /\ <<>> \o Select(ring, set) = Select(ring, set)
  BY <1>8, ConcatEmptySeq DEF IsSlice
<1>10. ASSUME set \subseteq near PROVE Select(front \o back, set) = Select(ring, set)
  <2>1. Select(front, set) = Select(ring, set)
    BY <1>10, SelectTwice
  <2>2. Select(back, set) = <<>>
    BY <1>5, <1>6, <1>10, SelectNone
  <2> QED
    BY <1>7, <1>9, <2>1, <2>2, Zenon
<1>11. ASSUME set \cap near = {}, set \subseteq far
       PROVE  Select(front \o back, set) = Select(ring, set)
  <2>1. Select(front, set) = <<>>
    BY <1>6, <1>11, SelectNone
  <2>2. Select(back, set) = Select(ring, set)
    BY <1>11, SelectTwice
  <2> QED
    BY <1>7, <1>9, <2>1, <2>2, Zenon
<1>12. Select(sorted, set) = Select(ring, set)
  BY <1>2, <1>3, <1>10, <1>11, Zenon
<1>13. Len(sorted) = Len(ring)
  <2>1. Len(front \o back) = Len(front) + Len(back)
    BY <1>6 DEF IsSlice
  <2> QED
    BY <1>2, <1>4, <2>1, Zenon
<1> QED
  BY <1>1, <1>12, <1>13

LEMMA Bounds ==
  /\ \A l, m \in Nat : \A n \in 1..(l + m) : n \in Nat \ {0} /\ (n <= l => n \in 1..l)
  /\ \A l, i, j \in Nat : ~(i <= l) /\ ~(j > l) => j < i
OBVIOUS

LEMMA NearFirst ==
  ASSUME NEW ring, IsSlice(ring), NEW preferred, Fold(preferred) # "",
         NEW sorted, sorted = sortEndpointsByPreferredRegion(ring, preferred),
         NEW i \in DOMAIN sorted, NEW j \in DOMAIN sorted,
         Fold(sorted[i].region) # Fold(preferred), Fold(sorted[j].region) = Fold(preferred)
  PROVE  j < i
<1> DEFINE near == {e \in Elems(ring) : e.region # "" /\ Fold(e.region) = Fold(preferred)}
           far == Elems(ring) \ near
           front == Select(ring, near)
           back == Select(ring, far)
<1>1. preferred # "" /\ Fold("") = ""
  BY RoutingAssumption
<1>2. sorted = front \o back
  BY <1>1, Zenon DEF sortEndpointsByPreferredRegion
<1>3. sorted[j].region # ""
  BY <1>1
<1>4. Elems(front) = Elems(ring) \cap near /\ Elems(back) = Elems(ring) \cap far
      /\ front \in Seq(Elems(ring)) /\ back \in Seq(Elems(ring))
  BY SelectHolds
<1>5. \A e \in near : Fold(e.region) = Fold(preferred)
  OBVIOUS
<1>6. \A e \in far : ~(e.region # "" /\ Fold(e.region) = Fold(preferred))
  OBVIOUS
<1> HIDE DEF near, far, front, back
<1>7. /\ Len(front) \in Nat /\ DOMAIN sorted \subseteq Nat \ {0}
      /\ \A n \in DOMAIN sorted : n <= Len(front) => sorted[n] \in near
      /\ \A n \in DOMAIN sorted : n > Len(front) => sorted[n] \in far
  <2>1. /\ Len(front) \in Nat /\ Len(back) \in Nat
        /\ DOMAIN (front \o back) = 1..(Len(front) + Len(back))
        /\ \A n \in 1..Len(front) : (front \o back)[n] \in Elems(front)
        /\ \A n \in 1..(Len(front) + Len(back)) : n > Len(front) =>
             (front \o back)[n] \in Elems(back)
    BY <1>4, Joined
  <2>2. \A n \in 1..(Len(front) + Len(back)) : n \in Nat \ {0}
        /\ (n <= Len(front) => n \in 1..Len(front))
    BY <2>1, Bounds, Zenon
  <2>3. Elems(front) \subseteq near /\ Elems(back) \subseteq far
    BY <1>4
  <2>4. /\ DOMAIN sorted = 1..(Len(front) + Len(back))
        /\ \A n \in 1..Len(front) : sorted[n] \in Elems(front)
        /\ \A n \in 1..(Len(front) + Len(back)) : n > Len(front) => sorted[n] \in Elems(back)
    BY <1>2, <2>1, Zenon
  <2>5. DOMAIN sorted \subseteq Nat \ {0}
    BY <2>2, <2>4
  <2>6. \A n \in DOMAIN sorted : n <= Len(front) => sorted[n] \in near
    BY <2>2, <2>3, <2>4, Zenon
  <2>7. \A n \in DOMAIN sorted : n > Len(front) => sorted[n] \in far
    BY <2>3, <2>4, Zenon
  <2> QED
    BY <2>1, <2>5, <2>6, <2>7
<1>8. sorted[i] \notin near /\ sorted[j] \notin far
  BY <1>3, <1>5, <1>6, Zenon
<1>9. ~(i <= Len(front)) /\ ~(j > Len(front))
  BY <1>7, <1>8, Zenon
<1>10. i \in Nat /\ j \in Nat
  BY <1>7
<1> QED
  BY <1>7, <1>9, <1>10, Bounds, Zenon

\* On a line or a hoot group of any size, ordering by the caller's region rings
\* everybody who was to be rung, in the configured order within every region, and
\* nobody of another region before one of the caller's.
THEOREM RegionOnlyReordersHolds == Spec => RegionOnlyReorders
<1> DEFINE A ==
      call.pc = "ring" /\ call'.pc = "emit" /\ call.target.kind = "conferenceGroup" =>
        LET listed == GroupRing(call.target.group, call.from)
            Regions == {Fold(e.region) : e \in Elems(listed)}
        IN /\ Len(call'.ring) = Len(listed)
           /\ \A region \in {e.region : e \in Elems(listed)} :
                OfRegion(call'.ring, listed, region) = OfRegion(listed, listed, region)
           /\ \A region \in Regions \ {""} : \A i, j \in DOMAIN call'.ring :
                region = Fold(preferredRegionForConferenceCaller(call.target.group, call.from))
                /\ Fold(call'.ring[i].region) # region
                /\ Fold(call'.ring[j].region) = region => j < i
<1>1. ASSUME CallInv, [Next]_vars PROVE A
  <2> SUFFICES ASSUME call.pc = "ring", call'.pc = "emit", call.target.kind = "conferenceGroup"
               PROVE A
    OBVIOUS
  <2> DEFINE t == call.target
             listed == GroupRing(t.group, call.from)
             preferred == preferredRegionForConferenceCaller(t.group, call.from)
             sorted == sortEndpointsByPreferredRegion(listed, preferred)
   <2>1. GoodCall(call)
    BY <1>1 DEF CallInv
  <2>2. IsSlice(t.group.sideA) /\ IsSlice(t.group.sideB)
    BY <2>1 DEF GoodCall, GoodTarget
  <2>3. IsSlice(listed)
    BY <2>2, GroupHolds
  <2>4. ~Invite
    BY DEF Invite
  <2>5. ~Emit /\ call' # call
    BY DEF Emit
  <2>6. Ring
    BY <1>1, <2>4, <2>5 DEF Next, Reconfigure, vars
  <2>7. RingList(t, call.from) = sorted
    BY DEF RingList
  <2>8. call' = [call EXCEPT !.pc = "emit", !.ring = RingList(t, call.from)]
    BY <2>6, Zenon DEF Ring
  <2> HIDE DEF sorted
  <2>9. call'.ring = sorted
    BY <2>1, <2>7, <2>8 DEF GoodCall
  <2> HIDE DEF listed, preferred
  <2>10. /\ Len(sorted) = Len(listed)
         /\ \A region : OfRegion(sorted, listed, region) = OfRegion(listed, listed, region)
    <3>1. sorted = sortEndpointsByPreferredRegion(listed, preferred)
      BY DEF sorted
    <3> QED
      BY <2>3, <3>1, SortKeeps
  <2>11. ASSUME NEW region, region # "", region = Fold(preferred),
                NEW i \in DOMAIN sorted, NEW j \in DOMAIN sorted,
                Fold(sorted[i].region) # region, Fold(sorted[j].region) = region
         PROVE  j < i
    <3>1. sorted = sortEndpointsByPreferredRegion(listed, preferred)
      BY DEF sorted
    <3> QED
      BY <2>3, <2>11, <3>1, NearFirst
  <2>12. \A ring : ring = sorted =>
           \A region : \A i, j \in DOMAIN ring :
                region # "" /\ region = Fold(preferred) /\ Fold(ring[i].region) # region
                /\ Fold(ring[j].region) = region => j < i
    BY <2>11, Zenon
  <2>13. Len(call'.ring) = Len(listed)
    BY <2>9, <2>10, Zenon
  <2>14. \A region : OfRegion(call'.ring, listed, region)
                        = OfRegion(listed, listed, region)
    BY <2>9, <2>10, Zenon
  <2>15. \A region : \A i, j \in DOMAIN call'.ring :
            region # "" /\ region = Fold(preferred) /\ Fold(call'.ring[i].region) # region
            /\ Fold(call'.ring[j].region) = region => j < i
    BY <2>9, <2>12, Zenon
  <2> QED
    BY <2>13, <2>14, <2>15 DEF listed, preferred
<1> QED
  BY <1>1, CallInvariant, PTL DEF Spec, RegionOnlyReorders
=============================================================================
