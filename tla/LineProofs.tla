----------------------------- MODULE LineProofs -----------------------------
(***************************************************************************)
(* TLAPS proofs about Line, for any number of callers and any capacity:    *)
(* the type invariant and HungUpIsGone whatever is dropped through the     *)
(* API; CapacityBound, OneRinging and NoReRing for a recorded line whose   *)
(* calls are not dropped.                                                  *)
(***************************************************************************)
EXTENDS Line, FiniteSetTheorems, TLAPS

\* The read loop works for a caller exactly when it is not idle.
LoopHasCaller == loop.at = "idle" <=> loop.c = NoCaller

\* Between an admitted INVITE and its end the caller has not hung up; between the
\* end of the teardown's session and its table entry no session is pending.
LoopKnowsCaller ==
  /\ loop.at \in {"count", "dup", "join", "open", "early"} => loop.c \notin gone
  /\ loop.at = "unlist" => ~Pending(loop.c)

\* The inductive invariant behind HungUpIsGone.
GoneInv == TypeOK /\ LoopHasCaller /\ LoopKnowsCaller /\ HungUpIsGone

\* No drop is under way, and at most one session is pending: the one being opened,
\* or one whose caller is in the table.
PendingIsListed ==
  /\ api = NoCaller
  /\ \A c \in Caller : Pending(c) => Opening(c) \/ c \in Listed
  /\ \A c, d \in Caller : Pending(c) /\ Pending(d) => c = d

\* Whoever is connected is in the table, until the caller's own teardown.
ConnectedIsListed ==
  /\ connected \subseteq Listed
  /\ loop.at \in {"clean", "unlist"} => loop.c \notin connected /\ ~Pending(loop.c)

\* The table seen empty stays empty until the session is opened and listed.
SeenEmpty == loop.at \in {"open", "early"} => Listed = {}

\* The inductive invariant behind OneRinging and NoReRing.
RingInv == TypeOK /\ LoopHasCaller /\ PendingIsListed /\ ConnectedIsListed /\ SeenEmpty

\* The INVITE that was let in leaves room for the dialogs it has yet to add.
Room ==
  /\ Dialogs <= MaxDialogs + 1
  /\ loop.at \in {"count", "dup", "join", "open"} => Dialogs < MaxDialogs
  /\ loop.at = "early" => Dialogs <= MaxDialogs

\* The inductive invariant behind CapacityBound.
CapacityInv == RingInv /\ Room

-----------------------------------------------------------------------------

\* Init has the types of TypeOK.
LEMMA TypeInit == Init => TypeOK /\ LoopHasCaller
  BY LineAssumption DEF Init, TypeOK, LoopHasCaller, Idle

\* Every step keeps the types.
LEMMA TypeStep == TypeOK /\ LoopHasCaller /\ [Next]_vars => TypeOK' /\ LoopHasCaller'
  <1> SUFFICES ASSUME TypeOK, LoopHasCaller, [Next]_vars
               PROVE  TypeOK' /\ LoopHasCaller'
    OBVIOUS
  <1>1. loop.at # "idle" => loop.c \in Caller
    BY DEF TypeOK, LoopHasCaller
  <1>2. ASSUME NEW c \in Caller, Invite(c)
        PROVE  TypeOK' /\ LoopHasCaller'
    <2>1. invites' \in [Caller -> 0..MaxInvites]
      BY <1>2, LineAssumption DEF Invite, TypeOK
    <2>2. gone' \subseteq Caller
      BY <1>2 DEF Invite, TypeOK
    <2>3. /\ loop' \in [at : {"idle", "count", "dup", "join", "open", "early", "clean",
                              "unlist"}, c : Caller \cup {NoCaller}]
          /\ LoopHasCaller'
      BY <1>2, LineAssumption DEF Invite, TypeOK, Goto, LoopHasCaller
    <2> QED
      BY <1>2, <2>1, <2>2, <2>3 DEF Invite, TypeOK, tables
  <1>3. CASE Count
    BY <1>1, <1>3, LineAssumption DEF Count, TypeOK, LoopHasCaller, Goto, tables
  <1>4. CASE Dup
    BY <1>1, <1>4, LineAssumption
    DEF Dup, TypeOK, LoopHasCaller, Goto, Return, Idle, tables
  <1>5. CASE Join
    BY <1>1, <1>5, LineAssumption DEF Join, TypeOK, LoopHasCaller, Return, Idle
  <1>6. CASE Open
    BY <1>1, <1>6, LineAssumption DEF Open, TypeOK, LoopHasCaller, Goto, Return, Idle
  <1>7. CASE Early
    BY <1>1, <1>7, LineAssumption DEF Early, TypeOK, LoopHasCaller, Return, Idle
  <1>8. CASE Clean
    BY <1>1, <1>8, LineAssumption DEF Clean, TypeOK, LoopHasCaller, Goto
  <1>9. CASE Unlist
    BY <1>1, <1>9, LineAssumption DEF Unlist, TypeOK, LoopHasCaller, Return, Idle
  <1>10. CASE Release
    BY <1>10 DEF Release, TypeOK, LoopHasCaller
  <1>11. ASSUME NEW c \in Caller, HangUp(c)
         PROVE  TypeOK' /\ LoopHasCaller'
    BY <1>11, LineAssumption DEF HangUp, TypeOK, LoopHasCaller, Goto, Pending
  <1>12. ASSUME NEW c \in Caller, Drop(c)
         PROVE  TypeOK' /\ LoopHasCaller'
    BY <1>12, LineAssumption DEF Drop, TypeOK, LoopHasCaller, tables
  <1>13. ASSUME NEW c \in Caller, Answered(c)
         PROVE  TypeOK' /\ LoopHasCaller'
    BY <1>13 DEF Answered, Pending, TypeOK, LoopHasCaller
  <1>14. ASSUME NEW c \in Caller, RingingFails(c)
         PROVE  TypeOK' /\ LoopHasCaller'
    BY <1>14 DEF RingingFails, Pending, TypeOK, LoopHasCaller
  <1>15. ASSUME NEW c \in Caller, CleanupSession(c)
         PROVE  TypeOK' /\ LoopHasCaller'
    BY <1>15 DEF CleanupSession, TypeOK, LoopHasCaller
  <1>16. CASE UNCHANGED vars
    BY <1>16 DEF vars, tables, TypeOK, LoopHasCaller
  <1> QED
    BY <1>2, <1>3, <1>4, <1>5, <1>6, <1>7, <1>8, <1>9, <1>10, <1>11, <1>12, <1>13,
       <1>14, <1>15, <1>16 DEF Next, ReadLoop

\* Line's variables keep their types, for every number of callers.
THEOREM TypeCorrect == Spec => []TypeOK
  BY TypeInit, TypeStep, PTL DEF Spec

-----------------------------------------------------------------------------

\* No step of another handler puts a caller who hung up back: it would have to
\* answer a session that is not pending.
LEMMA GoneStep == GoneInv /\ [Next]_vars => GoneInv'
  <1> SUFFICES ASSUME GoneInv, [Next]_vars
               PROVE  LoopKnowsCaller' /\ HungUpIsGone'
    BY TypeStep DEF GoneInv
  <1> USE DEF GoneInv
  <1>1. loop.at = "idle" => loop.c \notin Caller
    BY LineAssumption DEF LoopHasCaller
  <1>2. gone \subseteq Caller
    BY DEF TypeOK
  <1>3. loop.at # "idle" => loop.c \in Caller
    BY DEF TypeOK, LoopHasCaller
  <1>4. ASSUME NEW c \in Caller, Invite(c)
        PROVE  LoopKnowsCaller' /\ HungUpIsGone'
    BY <1>1, <1>2, <1>4 DEF Invite, Goto, LoopKnowsCaller, HungUpIsGone, Pending, tables
  <1>5. CASE Count
    BY <1>5 DEF Count, Goto, LoopKnowsCaller, HungUpIsGone, Pending, tables
  <1>6. CASE Dup
    BY <1>6 DEF Dup, Goto, Return, Idle, LoopKnowsCaller, HungUpIsGone, Pending, tables
  <1>7. CASE Join
    BY <1>3, <1>7 DEF Join, Return, Idle, LoopKnowsCaller, HungUpIsGone, Pending, TypeOK
  <1>8. CASE Open
    BY <1>3, <1>8 DEF Open, Goto, Return, Idle, LoopKnowsCaller, HungUpIsGone, Pending
  <1>9. CASE Early
    BY <1>3, <1>9 DEF Early, Return, Idle, LoopKnowsCaller, HungUpIsGone, Pending, TypeOK
  <1>10. CASE Clean
    BY <1>10 DEF Clean, Goto, LoopKnowsCaller, HungUpIsGone, Pending
  <1>11. CASE Unlist
    BY <1>2, <1>3, <1>11
    DEF Unlist, Return, Idle, LoopKnowsCaller, HungUpIsGone, Pending, TypeOK
  <1>12. CASE Release
    BY <1>2, <1>12 DEF Release, LoopKnowsCaller, HungUpIsGone, Pending, TypeOK
  <1>13. ASSUME NEW c \in Caller, HangUp(c)
         PROVE  LoopKnowsCaller' /\ HungUpIsGone'
    BY <1>1, <1>2, <1>13 DEF HangUp, Goto, LoopKnowsCaller, HungUpIsGone, Pending, TypeOK
  <1>14. ASSUME NEW c \in Caller, Drop(c)
         PROVE  LoopKnowsCaller' /\ HungUpIsGone'
    BY <1>14 DEF Drop, LoopKnowsCaller, HungUpIsGone, Pending, tables
  <1>15. ASSUME NEW c \in Caller, Answered(c)
         PROVE  LoopKnowsCaller' /\ HungUpIsGone'
    BY <1>2, <1>15 DEF Answered, LoopKnowsCaller, HungUpIsGone, Pending, TypeOK
  <1>16. ASSUME NEW c \in Caller, RingingFails(c)
         PROVE  LoopKnowsCaller' /\ HungUpIsGone'
    BY <1>16 DEF RingingFails, LoopKnowsCaller, HungUpIsGone, Pending
  <1>17. ASSUME NEW c \in Caller, CleanupSession(c)
         PROVE  LoopKnowsCaller' /\ HungUpIsGone'
    BY <1>17 DEF CleanupSession, LoopKnowsCaller, HungUpIsGone, Pending
  <1>18. CASE UNCHANGED vars
    BY <1>18 DEF vars, tables, LoopKnowsCaller, HungUpIsGone, Pending
  <1> QED
    BY <1>4, <1>5, <1>6, <1>7, <1>8, <1>9, <1>10, <1>11, <1>12, <1>13, <1>14, <1>15,
       <1>16, <1>17, <1>18 DEF Next, ReadLoop

\* A caller who hung up is not put back by a late answer, timer or drop, whatever
\* is dropped through the API and whether or not the line is recorded.
THEOREM HungUpStaysGone == Spec => []HungUpIsGone
  <1>1. Init => GoneInv
    BY TypeInit DEF Init, Idle, GoneInv, LoopKnowsCaller, HungUpIsGone
  <1>2. GoneInv => HungUpIsGone
    BY DEF GoneInv
  <1> QED
    BY <1>1, <1>2, GoneStep, PTL DEF Spec

-----------------------------------------------------------------------------

\* Nobody rings or talks at first.
LEMMA RingInit == Init => RingInv
  BY TypeInit DEF Init, Idle, RingInv, PendingIsListed, ConnectedIsListed, SeenEmpty,
                  Pending, Listed

\* Drops are counted, never taken back.
LEMMA DropsStay ==
  ASSUME TypeOK, [Next]_vars
  PROVE  Undisturbed' => Undisturbed
  <1>1. drops \in Nat
    BY LineAssumption DEF TypeOK
  <1>2. drops' = drops \/ drops' = drops + 1
    BY DEF Next, ReadLoop, Invite, Count, Dup, Join, Open, Early, Clean, Unlist, Release,
           HangUp, Drop, Answered, RingingFails, CleanupSession, vars
  <1> QED
    BY <1>1, <1>2 DEF Undisturbed

\* On a recorded line every step but a drop keeps the callers in the table who ring
\* or talk, so the next INVITE sees them.
LEMMA RingStep ==
  ASSUME Recorded, RingInv, [Next]_vars, Undisturbed'
  PROVE  RingInv'
  <1> DEFINE Kept == PendingIsListed /\ ConnectedIsListed /\ SeenEmpty
  <1> SUFFICES Kept'
    BY TypeStep DEF RingInv
  <1> USE DEF RingInv, PendingIsListed, ConnectedIsListed, SeenEmpty, Pending, Opening,
              Listed
  <1>1. loop.at = "idle" => loop.c \notin Caller
    BY LineAssumption DEF LoopHasCaller
  <1>2. loop.at # "idle" => loop.c \in Caller
    BY DEF TypeOK, LoopHasCaller
  <1>3. drops = 0 /\ drops' = 0 /\ Recorded
    BY DropsStay DEF Undisturbed
  <1>4. ASSUME NEW c \in Caller, Invite(c)
        PROVE  Kept'
    BY <1>1, <1>3, <1>4 DEF Invite, Goto, tables, TypeOK
  <1>5. CASE Count
    BY <1>3, <1>5 DEF Count, OnLine, Goto, tables, TypeOK
  <1>6. CASE Dup
    BY <1>3, <1>6 DEF Dup, Goto, Return, Idle, tables, TypeOK
  <1>7. CASE Join
    BY <1>2, <1>3, <1>7 DEF Join, Return, Idle, TypeOK
  <1>8. CASE Open
    BY <1>2, <1>3, <1>8 DEF Open, Goto, Return, Idle, TypeOK
  <1>9. CASE Early
    BY <1>2, <1>3, <1>9 DEF Early, Return, Idle, TypeOK
  <1>10. CASE Clean
    BY <1>3, <1>10 DEF Clean, Goto, TypeOK
  <1>11. CASE Unlist
    BY <1>2, <1>3, <1>11 DEF Unlist, Return, Idle, TypeOK
  <1>12. CASE Release
    BY <1>3, <1>12 DEF Release, TypeOK
  <1>13. ASSUME NEW c \in Caller, HangUp(c)
         PROVE  Kept'
    BY <1>1, <1>3, <1>13 DEF HangUp, Goto, TypeOK
  <1>14. ASSUME NEW c \in Caller, Drop(c)
         PROVE  Kept'
    BY <1>3, <1>14 DEF Drop, tables, TypeOK
  <1>15. ASSUME NEW c \in Caller, Answered(c)
         PROVE  Kept'
    BY <1>3, <1>15 DEF Answered, TypeOK
  <1>16. ASSUME NEW c \in Caller, RingingFails(c)
         PROVE  Kept'
    BY <1>3, <1>16 DEF RingingFails, TypeOK
  <1>17. ASSUME NEW c \in Caller, CleanupSession(c)
         PROVE  Kept'
    BY <1>3, <1>17 DEF CleanupSession, TypeOK
  <1>18. CASE UNCHANGED vars
    BY <1>18 DEF vars, tables
  <1> QED
    BY <1>4, <1>5, <1>6, <1>7, <1>8, <1>9, <1>10, <1>11, <1>12, <1>13, <1>14, <1>15,
       <1>16, <1>17, <1>18 DEF Next, ReadLoop

\* A recorded line keeps RingInv until the first drop.
LEMMA RingInvariant ==
  ASSUME Recorded
  PROVE  Spec => [](Undisturbed => RingInv)
  <1> DEFINE Inv == TypeOK /\ LoopHasCaller /\ (Undisturbed => RingInv)
  <1>1. Init => Inv
    BY TypeInit, RingInit
  <1>2. Inv /\ [Next]_vars => Inv'
    BY TypeStep, DropsStay, RingStep
  <1> QED
    BY <1>1, <1>2, PTL DEF Spec

\* A recorded line rings the far side for one caller at a time until a call is
\* dropped, however many dial and whatever the capacity is.
THEOREM OneRingingHolds ==
  ASSUME Recorded
  PROVE  Spec => []OneRinging
  <1>1. (Undisturbed => RingInv) => OneRinging
    <2> SUFFICES ASSUME RingInv
                 PROVE  Cardinality(sessions \ terminated) <= 1
      BY DEF OneRinging
    <2>1. CASE sessions \ terminated = {}
      BY <2>1, FS_EmptySet
    <2>2. ASSUME NEW c \in sessions \ terminated
          PROVE  Cardinality(sessions \ terminated) = 1
      <3>1. sessions \ terminated = {c}
        BY <2>2 DEF RingInv, PendingIsListed, Pending, TypeOK
      <3> QED
        BY <3>1, FS_Singleton
    <2> QED
      BY <2>1, <2>2
  <1> QED
    BY <1>1, RingInvariant, PTL

\* On such a line no session is opened while somebody is connected.
THEOREM NoReRingHolds ==
  ASSUME Recorded
  PROVE  Spec => NoReRing
  <1>1. (Undisturbed => RingInv) /\ [Next]_vars =>
          (Undisturbed /\ sessions' \ sessions # {} => connected = {})
    <2> SUFFICES ASSUME RingInv, [Next]_vars, sessions' \ sessions # {}
                 PROVE  connected = {}
      OBVIOUS
    <2>1. Open
      BY DEF Next, ReadLoop, Invite, Count, Dup, Join, Early, Clean, Unlist, Release,
             HangUp, Drop, Answered, RingingFails, CleanupSession, vars, tables
    <2> QED
      BY <2>1 DEF Open, RingInv, SeenEmpty, ConnectedIsListed
  <1> QED
    BY <1>1, RingInvariant, PTL DEF Spec, NoReRing

-----------------------------------------------------------------------------

\* Both tables are finite, so the dialogs can be counted.
LEMMA DialogsCounted ==
  TypeOK => /\ IsFiniteSet(sessions) /\ IsFiniteSet(Listed)
            /\ Cardinality(sessions) \in Nat /\ Cardinality(Listed) \in Nat
            /\ Dialogs \in Nat
  <1> SUFFICES ASSUME TypeOK
               PROVE  /\ IsFiniteSet(sessions) /\ IsFiniteSet(Listed)
                      /\ Cardinality(sessions) \in Nat /\ Cardinality(Listed) \in Nat
                      /\ Dialogs \in Nat
    OBVIOUS
  <1>1. IsFiniteSet(Caller)
    BY LineAssumption
  <1>2. IsFiniteSet(sessions)
    BY <1>1, FS_Subset DEF TypeOK
  <1>3. IsFiniteSet(Listed)
    BY <1>1, FS_Subset DEF Listed
  <1> QED
    BY <1>2, <1>3, FS_CardinalityType DEF Dialogs

\* A step that opens no session and lists no caller adds no dialog.
LEMMA NoneAdded ==
  ASSUME TypeOK, sessions' \subseteq sessions, Listed' \subseteq Listed
  PROVE  Dialogs' <= Dialogs /\ Dialogs' \in Nat
  <1>1. /\ IsFiniteSet(sessions) /\ Cardinality(sessions) \in Nat
        /\ IsFiniteSet(Listed) /\ Cardinality(Listed) \in Nat
    BY DialogsCounted
  <1>2. IsFiniteSet(sessions') /\ Cardinality(sessions') <= Cardinality(sessions)
    BY <1>1, FS_Subset
  <1>3. IsFiniteSet(Listed') /\ Cardinality(Listed') <= Cardinality(Listed)
    BY <1>1, FS_Subset
  <1>4. Cardinality(sessions') \in Nat /\ Cardinality(Listed') \in Nat
    BY <1>2, <1>3, FS_CardinalityType
  <1> QED
    BY <1>1, <1>2, <1>3, <1>4 DEF Dialogs

\* Opening one session, or listing one caller, adds one dialog at most.
LEMMA OneAdded ==
  ASSUME TypeOK, NEW c,
         \/ sessions' = sessions \cup {c} /\ Listed' = Listed
         \/ sessions' = sessions /\ Listed' = Listed \cup {c}
  PROVE  Dialogs' <= Dialogs + 1 /\ Dialogs' \in Nat
  <1>1. /\ IsFiniteSet(sessions) /\ Cardinality(sessions) \in Nat
        /\ IsFiniteSet(Listed) /\ Cardinality(Listed) \in Nat
    BY DialogsCounted
  <1>2. /\ Cardinality(sessions \cup {c})
             \in {Cardinality(sessions), Cardinality(sessions) + 1}
        /\ Cardinality(Listed \cup {c}) \in {Cardinality(Listed), Cardinality(Listed) + 1}
    BY <1>1, FS_AddElement
  <1> QED
    BY <1>1, <1>2 DEF Dialogs

\* On a recorded line a late answer lists nobody who was not in the table, so only
\* the read loop adds dialogs, and only those it left room for.
LEMMA RoomStep ==
  ASSUME Recorded, CapacityInv, [Next]_vars
  PROVE  Room'
  <1>1. TypeOK /\ Room /\ MaxDialogs \in Nat /\ Dialogs \in Nat
    BY DialogsCounted, LineAssumption DEF CapacityInv, RingInv
  <1>2. loop.at # "idle" => loop.c \in Caller
    BY DEF CapacityInv, RingInv, TypeOK, LoopHasCaller
  <1>3. ASSUME NEW c \in Caller, Invite(c)
        PROVE  Room'
    <2>1. UNCHANGED Dialogs
      BY <1>3 DEF Invite, tables, Dialogs, Listed
    <2>2. loop' = loop \/ (Dialogs < MaxDialogs /\ Goto("count", c))
      <3>1. ~Full => Dialogs < MaxDialogs
        BY <1>1 DEF Full
      <3> QED
        BY <3>1, <1>3 DEF Invite
    <2> QED
      BY <1>1, <2>1, <2>2 DEF Room, Goto
  <1>4. CASE Count \/ Dup
    <2>1. UNCHANGED Dialogs
      BY <1>4 DEF Count, Dup, tables, Dialogs, Listed
    <2>2. loop.at \in {"count", "dup"} /\ loop'.at \in {"dup", "open", "join", "idle"}
      BY <1>4 DEF Count, Dup, Goto, Return, Idle
    <2> QED
      BY <1>1, <2>1, <2>2 DEF Room
  <1>5. CASE Join
    <2>1. sessions' = sessions /\ Listed' = Listed \cup {loop.c}
      BY <1>1, <1>2, <1>5 DEF Join, Listed, TypeOK
    <2>2. loop.at = "join" /\ loop'.at = "idle"
      BY <1>5 DEF Join, Return, Idle
    <2>3. Dialogs' <= Dialogs + 1 /\ Dialogs' \in Nat
      BY <1>1, <2>1, OneAdded
    <2> QED
      BY <1>1, <2>2, <2>3 DEF Room
  <1>6. CASE Open
    <2>1. Listed' = Listed
      BY <1>6 DEF Open, Listed
    <2>2. CASE sessions' = sessions
      <3>1. UNCHANGED Dialogs
        BY <2>1, <2>2 DEF Dialogs
      <3> QED
        BY <1>1, <1>6, <3>1 DEF Open, Room, Goto, Return, Idle
    <2>3. CASE sessions' = sessions \cup {loop.c}
      <3>1. Dialogs' <= Dialogs + 1 /\ Dialogs' \in Nat
        BY <1>1, <2>1, <2>3, OneAdded
      <3>2. loop.at = "open" /\ loop'.at \in {"early", "idle"}
        BY <1>6 DEF Open, Goto, Return, Idle
      <3> QED
        BY <1>1, <3>1, <3>2 DEF Room
    <2> QED
      BY <1>6, <2>2, <2>3 DEF Open
  <1>7. CASE Early
    <2>1. sessions' = sessions /\ Listed' = Listed \cup {loop.c}
      BY <1>1, <1>2, <1>7 DEF Early, Listed, TypeOK
    <2>2. loop.at = "early" /\ loop'.at = "idle"
      BY <1>7 DEF Early, Return, Idle
    <2>3. Dialogs' <= Dialogs + 1 /\ Dialogs' \in Nat
      BY <1>1, <2>1, OneAdded
    <2> QED
      BY <1>1, <2>2, <2>3 DEF Room
  <1>8. ASSUME sessions' \subseteq sessions, Listed' \subseteq Listed,
               loop' = loop \/ loop'.at \in {"idle", "clean", "unlist"}
        PROVE  Room'
    <2>1. Dialogs' <= Dialogs /\ Dialogs' \in Nat
      BY <1>1, <1>8, NoneAdded
    <2> QED
      BY <1>1, <1>8, <2>1 DEF Room
  <1>9. CASE Clean \/ Unlist \/ Release
    BY <1>1, <1>8, <1>9
    DEF Clean, Unlist, Release, Goto, Return, Idle, Listed, TypeOK
  <1>10. ASSUME NEW c \in Caller, HangUp(c) \/ Drop(c)
         PROVE  Room'
    BY <1>8, <1>10 DEF HangUp, Drop, tables, Goto, Listed
  <1>11. ASSUME NEW c \in Caller, Answered(c)
         PROVE  Room'
    <2>1. c \in Listed
      BY <1>11 DEF Answered, CapacityInv, RingInv, PendingIsListed
    <2>2. Listed' \subseteq Listed
      BY <1>1, <1>11, <2>1 DEF Answered, Listed, TypeOK
    <2> QED
      BY <1>8, <1>11, <2>2 DEF Answered
  <1>12. ASSUME NEW c \in Caller, RingingFails(c) \/ CleanupSession(c)
         PROVE  Room'
    BY <1>8, <1>12 DEF RingingFails, CleanupSession, Listed
  <1>13. CASE UNCHANGED vars
    BY <1>8, <1>13 DEF vars, tables, Listed
  <1> QED
    BY <1>3, <1>4, <1>5, <1>6, <1>7, <1>9, <1>10, <1>11, <1>12, <1>13 DEF Next, ReadLoop

\* A recorded line exceeds the capacity by one dialog at most until a call is
\* dropped, however many callers dial and whatever the capacity is.
THEOREM CapacityHolds ==
  ASSUME Recorded
  PROVE  Spec => []CapacityBound
  <1> DEFINE Inv == TypeOK /\ LoopHasCaller /\ (Undisturbed => CapacityInv)
  <1>1. Init => Inv
    <2> SUFFICES ASSUME Init
                 PROVE  RingInv /\ Room
      BY TypeInit DEF CapacityInv
    <2>1. RingInv
      BY RingInit
    <2>2. sessions = {} /\ Listed = {} /\ loop.at = "idle"
      BY DEF Init, Idle, Listed
    <2>3. Dialogs = 0
      BY <2>2, FS_EmptySet DEF Dialogs
    <2> QED
      BY <2>1, <2>2, <2>3, LineAssumption DEF Room
  <1>2. Inv /\ [Next]_vars => Inv'
    BY TypeStep, DropsStay, RingStep, RoomStep DEF CapacityInv
  <1>3. Inv => CapacityBound
    BY DEF CapacityInv, Room, CapacityBound
  <1> QED
    BY <1>1, <1>2, <1>3, PTL DEF Spec
=============================================================================
