----------------------------- MODULE MCRouting -----------------------------
(***************************************************************************)
(* Small configurations for module Routing: every hoot group over three    *)
(* users with at most two on a side, a line and a bridge with pairs, and   *)
(* dial plans whose first rules lead nowhere, or elsewhere.                *)
(***************************************************************************)
EXTENDS Routing

MCFold(label) == IF label = "EU" THEN "eu" ELSE label
MCHasPrefix(user, prefix) == prefix \in {"", user}
\* "[bc]" is the numbers b and c; "(" does not compile.
MCMatches(regex, user) == regex = "[bc]" /\ user \in {"b", "c"}
MCDomain(user) == IF user = "c" THEN "EU" ELSE "us"

Ep(user, region) == [id |-> user, user |-> user, region |-> region]
Side == {<<>>, <<Ep("a", "")>>, <<Ep("b", "")>>, <<Ep("a", ""), Ep("b", "")>>,
         <<Ep("a", ""), Ep("c", "")>>, <<Ep("b", ""), Ep("c", "")>>}

P(user, pair, end) == [id |-> user, user |-> user, region |-> "", pair |-> pair, end |-> end]
Room == [id |-> "b1", participants |-> <<P("a", "p", "A"), P("b", "p", "B"),
                                         P("c", "", ""), P("", "p", "B")>>]
LineGroup == [id |-> "g1", type |-> "ard",
              sideA |-> <<Ep("a", "")>>,
              sideB |-> <<Ep("b", "us"), Ep("c", "EU"), Ep("d", ""), Ep("e", "eu")>>]

Route(user, kind, id) == [user |-> user, kind |-> kind, id |-> id]
MCRoutes == <<Route("line", "conferenceGroup", "g1"), Route("hoot", "hootGroup", "h1"),
              Route("shout", "conferenceGroup", "g2"), Route("room", "", "b1"),
              Route("nowhere", "conferenceGroup", "g9"), Route("menu", "ivr", "")>>

Trunk(id, proxy, port) == [id |-> id, proxy |-> proxy, port |-> port]
Rule(enabled, prefix, domain, regex, trunk) ==
  [enabled |-> enabled, prefix |-> prefix, domain |-> domain, regex |-> regex,
   trunk |-> trunk]
Trunks == <<Trunk("t1", "name", 5060), Trunk("t2", "ip", 5060), Trunk("t3", "ip", 0),
            Trunk("t2", "ip", 5062), Trunk("t4", "ip", 5064)>>
To(trunk) == Rule(TRUE, "", "", "", trunk)
Plans == {<<>>,
          <<To("t9"), To("t1"), To("t2"), To("t4")>>,
          <<Rule(FALSE, "", "", "", "t2"), Rule(TRUE, "b", "", "", "t2"),
            Rule(TRUE, "", "eu", "", "t4")>>,
          <<Rule(TRUE, "", "", "(", "t2"), Rule(TRUE, "b", "", "[bc]", "t3"),
            Rule(TRUE, "", "", "[bc]", "t4"), To("t2")>>}

Config(tl, plan, users) ==
  [ivr |-> "ivr", routes |-> MCRoutes, bridges |-> <<Room>>,
   groups |-> <<LineGroup, [id |-> "g2", type |-> "hoot", sideA |-> tl[1], sideB |-> tl[2]]>>,
   hoots |-> <<[id |-> "h1", talkers |-> tl[2], listeners |-> tl[1]]>>,
   users |-> users, trunks |-> Trunks, plan |-> plan]
MCConfigs == {Config(tl, <<>>, <<[id |-> "a", region |-> "eu"]>>) : tl \in Side \X Side}
  \cup {Config(<<<<Ep("a", "")>>, <<Ep("b", ""), Ep("c", "")>>>>, plan, <<>>) :
             plan \in Plans}
=============================================================================
