------------------------------- MODULE MCIvr -------------------------------
(***************************************************************************)
(* A bridge with access code 9, in front of a group with the same, an MRD  *)
(* group with 1 and a recorded hoot group with 11; PIN 1 may use these     *)
(* groups, PIN 9 the bridge, and a second user with PIN 1 is never asked.  *)
(***************************************************************************)
EXTENDS Ivr

MCBridges == <<[id |-> "off", ddi |-> FALSE, number |-> <<"1">>],
               [id |-> "room", ddi |-> TRUE, number |-> <<"9">>]>>
MCGroups ==
  <<[id |-> "mrd", ddi |-> TRUE, number |-> <<"1">>, type |-> "mrd", records |-> FALSE,
     sideA |-> <<"a">>, sideB |-> <<"b">>],
    [id |-> "shadowed", ddi |-> TRUE, number |-> <<"9">>, type |-> "ard", records |-> TRUE,
     sideA |-> <<"a">>, sideB |-> <<"b">>],
    [id |-> "hoot", ddi |-> TRUE, number |-> <<"1", "1">>, type |-> "hoot", records |-> TRUE,
     sideA |-> <<"a">>, sideB |-> <<"c">>]>>
MCUsers ==
  <<[pin |-> <<"1">>, allowed |-> {"mrd", "hoot"}, optIn |-> FALSE],
    [pin |-> <<"9">>, allowed |-> {"room", "shadowed"}, optIn |-> FALSE],
    [pin |-> <<"1">>, allowed |-> {"room"}, optIn |-> FALSE]>>

Keys == {"1", "9", "#"}
Upto(n) == UNION {[1..i -> Keys] : i \in 0..n}
Prefixes(s) == {SubSeq(s, 1, i) : i \in 0..Len(s)}
\* Anything up to two keys, and calls that get somewhere: the group, which is
\* rung twice, the bridge, a PIN at the third try, whose last digit may come in
\* twice, the hoot, which is recorded.
MCDialled ==
  Upto(2) \cup UNION {Prefixes(s) :
    s \in {<<"1", "#", "1", "#", "9", "9">>, <<"9", "#", "9", "#">>,
           <<"1", "*", "#", "9", "#", "#", "1", "#">>, <<"1", "1", "#", "1", "#">>}}

Audio == [audio |-> TRUE, events |-> TRUE]
OtherAudio == [audio |-> FALSE, events |-> TRUE]
MCOffers == {Audio, OtherAudio}

\* A call to the hoot; an answer that arrives is handled.
HootDialled == Prefixes(<<"1", "1", "#", "1", "#">>)
HootOffers == {Audio}
HootSpec == Spec /\ \A l \in Leg : WF_vars(Win(l))
=============================================================================
