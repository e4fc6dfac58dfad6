---------------------------- MODULE ConfigProofs ----------------------------
(***************************************************************************)
(* TLAPS proofs about Config, for any documents, settings and number of    *)
(* requests under way: its types and SavedSectionsStart.  One writer at a  *)
(* time keeps FileIsWhole, MemoryIsDisk and PinsUnique.                    *)
(***************************************************************************)
EXTENDS Config, FiniteSetTheorems, SequenceTheorems, TLAPS

Locals == [pc : {"idle", "edit", "open", "fill", "unlink", "rename", "hash", "store"},
           arr : ArrayIds, rest : Rest \cup {NoDoc}, out : Document \cup {NoDoc},
           fd : Inodes \cup {NoFile},
           edit : {"none", "inplace", "copy", "whole", "load"}]

TypeOK ==
  /\ mode \in {"file", "http", "poll"} /\ up \in BOOLEAN
  /\ dir \in [path : Inodes \cup {NoFile}, tmp : Inodes \cup {NoFile}]
  /\ inode \in [Inodes -> Document \cup {Torn}]
  /\ cur \in [arr : ArrayIds, rest : Rest \cup {NoDoc}]
  /\ heap \in [ArrayIds -> Seq(UserRecord)]
  /\ remote \in Document
  /\ proc \in [Proc -> Locals]
  /\ hand \in BOOLEAN /\ taint \subseteq {"memory", "file"}
  /\ count \in [requests : Nat, edits : Nat, crashes : Nat]

\* What a goroutine holds at each step: an editing handler a snapshot, the others a
\* document that was checked.
Holds(l) ==
  /\ l.pc = "edit" => l.rest \in Rest
  /\ l.pc \in {"open", "fill", "unlink", "rename", "hash", "store"} =>
       l.out \in Document /\ l.out.versioned /\ Valid(l.out)
  /\ IF l.pc = "fill" THEN l.fd \in Inodes ELSE l.fd = NoFile

HoldsWell ==
  /\ up => cur.rest \in Rest
  /\ \A p \in Proc : Holds(proc[p]) /\ (~up => proc[p].pc = "idle")
  /\ proc[Poller].pc \in {"idle", "hash", "store"}

TypeInv == TypeOK /\ HoldsWell

-----------------------------------------------------------------------------
(* Names and arrays that are free.                                         *)

LEMMA Procs == Handler \subseteq Proc /\ Poller \in Proc /\ \A p \in Proc : p \in Handler \/ p = Poller
  BY DEF Proc

\* A function has no more values than arguments.
LEMMA Values ==
  ASSUME NEW S, IsFiniteSet(S), NEW T, NEW f \in [S -> T]
  PROVE  /\ IsFiniteSet({f[x] : x \in S})
         /\ Cardinality({f[x] : x \in S}) <= Cardinality(S)
  <1>1. f \in Surjection(S, {f[x] : x \in S})
    <2>1. f \in [S -> {f[x] : x \in S}]
      OBVIOUS
    <2> QED
      BY <2>1 DEF Surjection
  <1> QED
    BY <1>1, FS_Surjection

\* One value more than a function has, and one more again, do not fill an interval
\* of as many numbers.
LEMMA Free ==
  ASSUME NEW T, NEW f \in [Handler -> T], NEW one
  PROVE  \E i \in 0..(Cardinality(Handler) + 1) : i # one /\ \A h \in Handler : i # f[h]
  <1> DEFINE Used == {f[h] : h \in Handler}
             bound == Cardinality(Handler) + 1
  <1>1. IsFiniteSet(Handler)
    BY ConfigAssumption
  <1>2. IsFiniteSet(Used) /\ Cardinality(Used) <= Cardinality(Handler)
    BY <1>1, Values, Zenon
  <1>3. Cardinality(Handler) \in Nat /\ Cardinality(Used) \in Nat
    BY <1>1, <1>2, FS_CardinalityType
  <1> HIDE DEF Used
  <1>4. /\ IsFiniteSet(Used \cup {one})
        /\ Cardinality(Used \cup {one}) \in {Cardinality(Used), Cardinality(Used) + 1}
    BY <1>2, FS_AddElement
  <1>5. bound \in Nat /\ 0 \in Int /\ bound \in Int /\ ~(0 > bound)
        /\ Cardinality(Handler) = bound - 1
    BY <1>3
  <1> HIDE DEF bound
  <1>6. IsFiniteSet(0..bound) /\ Cardinality(0..bound) = bound + 1
    <2>1. Cardinality(0..bound) = bound - 0 + 1 /\ IsFiniteSet(0..bound)
      BY <1>5, FS_Interval
    <2> QED
      BY <1>5, <2>1
  <1>7. ~(0..bound \subseteq Used \cup {one})
    <2> SUFFICES ASSUME 0..bound \subseteq Used \cup {one} PROVE FALSE
      OBVIOUS
    <2>1. Cardinality(0..bound) <= Cardinality(Used \cup {one})
      BY <1>4, FS_Subset
    <2> QED
      BY <1>2, <1>3, <1>4, <1>5, <1>6, <2>1
  <1> QED
    BY <1>7 DEF Used, bound

LEMMA Sizes ==
  /\ Cardinality(Handler) \in Nat /\ 0 \in Inodes /\ 1 \in Inodes /\ 0 \in ArrayIds
  /\ Inodes = 0..(Cardinality(Handler) + 1) /\ ArrayIds = 0..(Cardinality(Handler) + 1)
  /\ NoFile \notin Inodes /\ Inodes \subseteq Nat
  <1>1. Cardinality(Handler) \in Nat
    BY ConfigAssumption, FS_CardinalityType
  <1>2. Cardinality(Proc) = Cardinality(Handler) + 1
    BY ConfigAssumption, FS_AddElement DEF Proc
  <1> QED
    BY <1>1, <1>2, ConfigAssumption DEF Inodes, ArrayIds

\* A file that is created gets an inode of its own.
LEMMA FreshInode ==
  ASSUME TypeInv, dir.tmp = NoFile \/ dir.path = NoFile
  PROVE  LET i == CHOOSE j \in Inodes : j \notin UsedInodes
         IN  i \in Inodes /\ i \notin UsedInodes
  <1> DEFINE f == [h \in Handler |-> proc[h].fd]
             Names == Inodes \cup {NoFile}
  <1>1. f \in [Handler -> Names]
    BY Procs DEF TypeInv, TypeOK, Locals
  <1> HIDE DEF f, Names
  <1> DEFINE other == IF dir.tmp = NoFile THEN dir.path ELSE dir.tmp
  <1> HIDE DEF other
  <1>2. PICK i \in 0..(Cardinality(Handler) + 1) : i # other /\ \A h \in Handler : i # f[h]
    <2>1. \E i \in 0..(Cardinality(Handler) + 1) : i # dir.path /\ \A h \in Handler : i # f[h]
      BY <1>1, Free
    <2>2. \E i \in 0..(Cardinality(Handler) + 1) : i # dir.tmp /\ \A h \in Handler : i # f[h]
      BY <1>1, Free
    <2> QED
      BY <2>1, <2>2, Zenon DEF other
  <1>3. proc[Poller].fd = NoFile
    BY Procs DEF TypeInv, HoldsWell, Holds
  <1>4. i \notin UsedInodes
    <2>1. i # NoFile /\ \A p \in Proc : i # proc[p].fd
      BY <1>2, <1>3, Procs, Sizes DEF f
    <2> QED
      BY <1>2, <2>1 DEF UsedInodes, other
  <1>5. \E j \in Inodes : j \notin UsedInodes
    BY <1>2, <1>4, Sizes
  <1> QED
    BY <1>5, Zenon

\* The new snapshot gets an array of its own.
LEMMA FreshArray ==
  ASSUME TypeInv
  PROVE  LET a == CHOOSE b \in ArrayIds : b \notin LiveArrays
         IN  a \in ArrayIds /\ a \notin LiveArrays
  <1> DEFINE f == [h \in Handler |-> proc[h].arr]
  <1>1. f \in [Handler -> ArrayIds]
    BY Procs DEF TypeInv, TypeOK, Locals
  <1> HIDE DEF f
  <1>2. PICK i \in 0..(Cardinality(Handler) + 1) : i # cur.arr /\ \A h \in Handler : i # f[h]
    BY <1>1, Free
  <1>3. i \notin LiveArrays
    <2>1. \A p \in Proc : proc[p].pc = "edit" => i # proc[p].arr
      BY <1>2, Procs DEF TypeInv, HoldsWell, f
    <2> QED
      BY <1>2, <2>1 DEF LiveArrays, EditedArrays
  <1>4. \E b \in ArrayIds : b \notin LiveArrays
    BY <1>2, <1>3, Sizes
  <1> QED
    BY <1>4, Zenon

-----------------------------------------------------------------------------
(***************************************************************************)
(* What an edit does: it gives up, saves a changed copy of the snapshot,   *)
(* or writes to the shared array and saves the result or is refused.       *)
(***************************************************************************)
Unique(users) ==
  /\ DistinctIds(users)
  /\ \A i, j \in DOMAIN users : users[i].pin = users[j].pin => i = j

Saving(doc, edit) == [Idle EXCEPT !.pc = "open", !.out = doc, !.edit = edit]

Accepted(h, doc) ==
  /\ mode = "file" /\ doc \in Document /\ doc.versioned /\ Valid(doc)
  /\ Unique(Snapshot(h)) => Unique(doc.users)
  /\ SectionsStart(proc[h].rest) => SectionsStart(doc.rest)

Kept(h) == Set(h, Idle) /\ UNCHANGED <<heap, taint>>
Copied(h) == \E doc \in Document : Accepted(h, doc) /\ Set(h, Saving(doc, "copy")) /\ UNCHANGED <<heap, taint>>
Written(h) ==
  \E users \in Seq(UserRecord) :
    /\ heap' = [heap EXCEPT ![proc[h].arr] = users]
    /\ \/ Set(h, Idle) /\ taint' = taint \cup {"memory"}
       \/ \E doc \in Document : Accepted(h, doc) /\ Set(h, Saving(doc, "inplace")) /\ UNCHANGED taint

LEMMA Editing ==
  ASSUME TypeInv, NEW h \in Handler, proc[h].pc = "edit"
  PROVE  Snapshot(h) \in Seq(UserRecord) /\ proc[h].rest \in Rest
  BY Procs DEF TypeInv, TypeOK, Locals, HoldsWell, Holds, Snapshot

LEMMA DocumentIs ==
  ASSUME NEW users \in Seq(UserRecord), NEW rest \in Rest
  PROVE  LET doc == [users |-> users, versioned |-> TRUE, rest |-> rest]
         IN  doc \in Document /\ doc.versioned /\ doc.users = users /\ doc.rest = rest
  BY DEF Document

LEMMA SectionDoes ==
  ASSUME TypeInv, NEW h \in Handler, proc[h].pc = "edit", NEW rest \in Rest,
         SectionsStart(proc[h].rest) => SectionsStart(rest),
         Section(h, rest)
  PROVE  Kept(h) \/ Copied(h)
  <1> DEFINE doc == [users |-> Snapshot(h), versioned |-> TRUE, rest |-> rest]
  <1>1. doc \in Document /\ doc.versioned /\ doc.users = Snapshot(h) /\ doc.rest = rest
    BY Editing, DocumentIs
  <1>2. Submit(h, doc, "copy") /\ UNCHANGED heap
    BY DEF Section
  <1> HIDE DEF doc
  <1>3. CASE mode = "file" /\ doc.versioned /\ Valid(doc)
    <2>1. Set(h, Saving(doc, "copy")) /\ UNCHANGED <<heap, taint>>
      BY <1>2, <1>3 DEF Submit, Saving
    <2>2. Accepted(h, doc)
      BY <1>1, <1>3 DEF Accepted
    <2> QED
      BY <1>1, <2>1, <2>2 DEF Copied
  <1>4. CASE ~(mode = "file" /\ doc.versioned /\ Valid(doc))
    BY <1>2, <1>4 DEF Submit, Refuse, Kept
  <1> QED
    BY <1>3, <1>4

LEMMA InPlaceDoes ==
  ASSUME TypeInv, NEW h \in Handler, proc[h].pc = "edit",
         NEW users \in Seq(UserRecord), NEW out \in Seq(UserRecord),
         Unique(Snapshot(h)) => Unique(out), InPlace(h, users, out)
  PROVE  Written(h)
  <1> DEFINE doc == [users |-> out, versioned |-> TRUE, rest |-> proc[h].rest]
  <1>1. doc \in Document /\ doc.versioned /\ doc.users = out /\ doc.rest = proc[h].rest
    BY Editing, DocumentIs
  <1>2. Submit(h, doc, "inplace") /\ heap' = [heap EXCEPT ![proc[h].arr] = users]
    BY DEF InPlace
  <1> HIDE DEF doc
  <1>3. CASE mode = "file" /\ doc.versioned /\ Valid(doc)
    <2>1. Set(h, Saving(doc, "inplace")) /\ UNCHANGED taint
      BY <1>2, <1>3 DEF Submit, Saving
    <2>2. Accepted(h, doc)
      BY <1>1, <1>3 DEF Accepted
    <2> QED
      BY <1>1, <1>2, <2>1, <2>2 DEF Written
  <1>4. CASE ~(mode = "file" /\ doc.versioned /\ Valid(doc))
    BY <1>2, <1>4 DEF Submit, Refuse, Written
  <1> QED
    BY <1>3, <1>4

\* A user whose id stays and whose PIN stays or is nobody else's.
LEMMA ChangedUser ==
  ASSUME NEW users \in Seq(UserRecord), NEW i \in DOMAIN users, NEW u \in UserRecord,
         u.id = users[i].id, u.pin = users[i].pin \/ ~participantIDTaken(users, u.pin, i)
  PROVE  /\ [users EXCEPT ![i] = u] \in Seq(UserRecord)
         /\ Unique(users) => Unique([users EXCEPT ![i] = u])
  <1> DEFINE new == [users EXCEPT ![i] = u]
  <1>1. DOMAIN users = 1..Len(users)
    BY LenProperties
  <1>2. /\ new \in Seq(UserRecord) /\ Len(new) = Len(users)
        /\ \A j \in 1..Len(users) : new[j] = IF j = i THEN u ELSE users[j]
    BY <1>1, ExceptSeq
  <1>3. DOMAIN new = 1..Len(users)
    BY <1>2, LenProperties
  <1> HIDE DEF new
  <1>4. ASSUME Unique(users) PROVE DistinctIds(new)
    BY <1>1, <1>2, <1>3, <1>4 DEF DistinctIds, Unique
  <1>5. ASSUME Unique(users), NEW j \in DOMAIN new, NEW k \in DOMAIN new, new[j].pin = new[k].pin
        PROVE  j = k
    BY <1>1, <1>2, <1>3, <1>5 DEF Unique, participantIDTaken
  <1>6. Unique(users) => Unique(new)
    BY <1>4, <1>5 DEF Unique
  <1> QED
    BY <1>2, <1>6 DEF new

LEMMA WithoutUser ==
  ASSUME NEW users \in Seq(UserRecord), NEW i \in DOMAIN users
  PROVE  /\ Without(users, i) \in Seq(UserRecord)
         /\ Append(Without(users, i), users[Len(users)]) \in Seq(UserRecord)
         /\ Unique(users) => Unique(Without(users, i))
  <1> DEFINE out == Without(users, i)
             n == Len(users) - 1
  <1>1. DOMAIN users = 1..Len(users) /\ Len(users) \in Nat /\ i \in 1..Len(users)
        /\ \A j \in 1..Len(users) : users[j] \in UserRecord
    BY LenProperties, ElementOfSeq
  <1>2. n \in Nat /\ \A j \in 1..n : j \in 1..Len(users) /\ j + 1 \in 1..Len(users)
    BY <1>1
  <1> HIDE DEF n
  <1>3. out = [j \in 1..n |-> IF j < i THEN users[j] ELSE users[j + 1]]
    BY DEF out, n, Without
  <1> HIDE DEF out
  <1>4. out \in [1..n -> UserRecord]
    BY <1>1, <1>2, <1>3
  <1>5. out \in Seq(UserRecord)
    BY <1>2, <1>4, SeqDef
  <1>6. users[Len(users)] \in UserRecord
    BY <1>1
  <1>7. Append(out, users[Len(users)]) \in Seq(UserRecord)
    BY <1>5, <1>6
  <1> DEFINE From(j) == IF j < i THEN j ELSE j + 1
  <1>8. \A j \in 1..n : From(j) \in DOMAIN users /\ out[j] = users[From(j)]
    BY <1>1, <1>2, <1>3
  <1>9. \A j, k \in 1..n : From(j) = From(k) => j = k
    BY <1>1, <1>2
  <1>10. DOMAIN out = 1..n
    BY <1>3
  <1> HIDE DEF From
  <1>11. Unique(users) => Unique(out)
    BY <1>8, <1>9, <1>10 DEF Unique, DistinctIds
  <1> QED
    BY <1>5, <1>7, <1>11 DEF out

\* No user is found under the id and none has the PIN: of users that are unique this
\* means that the id is new.
LEMMA NewUser ==
  ASSUME NEW users \in Seq(UserRecord), NEW u \in UserRecord,
         userIndexByID(users, u.id) = {}, ~participantIDTaken(users, u.pin, 0)
  PROVE  /\ Append(users, u) \in Seq(UserRecord)
         /\ Unique(users) => Unique(Append(users, u))
  <1> DEFINE new == Append(users, u)
  <1>1. DOMAIN users = 1..Len(users) /\ Len(users) \in Nat
    BY LenProperties
  <1>2. /\ new \in Seq(UserRecord) /\ DOMAIN new = 1..(Len(users) + 1)
        /\ \A j \in 1..Len(users) : new[j] = users[j]
        /\ new[Len(users) + 1] = u
    <2>1. new \in Seq(UserRecord) /\ Len(new) = Len(users) + 1
      BY AppendProperties
    <2>2. DOMAIN new = 1..Len(new)
      BY <2>1, LenProperties
    <2>3. \A j \in 1..Len(users) : new[j] = users[j]
      BY AppendProperties
    <2>4. new[Len(users) + 1] = u
      BY AppendProperties
    <2> QED
      BY <2>1, <2>2, <2>3, <2>4
  <1> HIDE DEF new
  <1>3. \A j \in DOMAIN users : users[j].pin # u.pin
    BY <1>1 DEF participantIDTaken
  <1>4. ASSUME Unique(users) PROVE \A j \in DOMAIN users : users[j].id # u.id
    <2> SUFFICES ASSUME NEW j \in DOMAIN users, users[j].id = u.id PROVE FALSE
      OBVIOUS
    <2>1. \A k \in 1..(j - 1) : k \in DOMAIN users /\ k # j
      BY <1>1
    <2>2. \A k \in 1..(j - 1) : users[k].id # u.id
      BY <1>4, <2>1 DEF Unique, DistinctIds
    <2>3. j \in userIndexByID(users, u.id)
      BY <2>2 DEF userIndexByID
    <2> QED
      BY <2>3
  <1>5. \A j \in DOMAIN new : j \in DOMAIN users \/ j = Len(users) + 1
    BY <1>1, <1>2
  <1>6. ASSUME Unique(users) PROVE DistinctIds(new)
    BY <1>1, <1>2, <1>4, <1>5, <1>6 DEF Unique, DistinctIds
  <1>7. ASSUME Unique(users), NEW j \in DOMAIN new, NEW k \in DOMAIN new, new[j].pin = new[k].pin
        PROVE  j = k
    BY <1>1, <1>2, <1>3, <1>5, <1>7 DEF Unique
  <1>8. Unique(users) => Unique(new)
    BY <1>6, <1>7 DEF Unique
  <1> QED
    BY <1>2, <1>8 DEF new

LEMMA UserEdits ==
  ASSUME TypeInv, NEW h \in Handler, proc[h].pc = "edit"
  PROVE  /\ UserPut(h) \/ UserResetPIN(h) \/ UserDelete(h) => Written(h)
         /\ UserCreate(h) => Kept(h) \/ Copied(h)
  <1> DEFINE S == Snapshot(h)
  <1>1. S \in Seq(UserRecord) /\ proc[h].rest \in Rest
    BY Editing
  <1>2. \A i \in DOMAIN S : S[i] \in UserRecord
    BY <1>1, LenProperties, ElementOfSeq
  <1>3. ASSUME UserPut(h) PROVE Written(h)
    <2> HIDE DEF S
    <2>1. PICK id \in UserIds, pin \in Pins \cup {""},
               devices \in {{}} \cup {{d} : d \in DeviceLists}, i \in DOMAIN S :
            /\ pin # "" => ~participantIDTaken(S, pin, i)
            /\ LET u == [S[i] EXCEPT !.pin = IF pin = "" THEN @ ELSE pin,
                                     !.devices = Over(@, devices)]
                   users == [S EXCEPT ![i] = u]
               IN InPlace(h, users, users)
      BY <1>3 DEF UserPut, userIndexByID, S
    <2>2. i \in DOMAIN S /\ S[i] \in UserRecord
      BY <1>2
    <2> DEFINE u == [S[i] EXCEPT !.pin = IF pin = "" THEN @ ELSE pin,
                                 !.devices = Over(@, devices)]
    <2>3. Over(S[i].devices, devices) \in Seq(Device)
      <3>1. CASE devices = {}
        BY <2>2, <3>1 DEF Over, Given, UserRecord
      <3>2. CASE \E d \in DeviceLists : devices = {d}
        BY <3>2, ConfigAssumption DEF Over, Given, The
      <3> QED
        BY <3>1, <3>2
    <2>4. pin # "" => pin \in STRING
      BY ConfigAssumption
    <2>5. u \in UserRecord /\ u.id = S[i].id /\ (u.pin = S[i].pin \/ (pin # "" /\ u.pin = pin))
      BY <2>2, <2>3, <2>4 DEF UserRecord
    <2>6. InPlace(h, [S EXCEPT ![i] = u], [S EXCEPT ![i] = u])
      BY <2>1
    <2> HIDE DEF u
    <2>7. u.pin = S[i].pin \/ ~participantIDTaken(S, u.pin, i)
      BY <2>1, <2>5
    <2>8. /\ [S EXCEPT ![i] = u] \in Seq(UserRecord)
          /\ Unique(S) => Unique([S EXCEPT ![i] = u])
      BY <1>1, <2>2, <2>5, <2>7, ChangedUser
    <2> QED
      BY <2>6, <2>8, InPlaceDoes DEF S
  <1>4. ASSUME UserResetPIN(h) PROVE Written(h)
    <2> HIDE DEF S
    <2>1. PICK id \in UserIds, pin \in Pins, i \in DOMAIN S :
            /\ ~participantIDTaken(S, pin, i)
            /\ InPlace(h, [S EXCEPT ![i].pin = pin], [S EXCEPT ![i].pin = pin])
      BY <1>4 DEF UserResetPIN, userIndexByID, S
    <2>2. i \in DOMAIN S /\ S[i] \in UserRecord
      BY <1>2
    <2> DEFINE u == [S[i] EXCEPT !.pin = pin]
    <2>3. u \in UserRecord /\ u.id = S[i].id /\ u.pin = pin
      BY <2>2, ConfigAssumption DEF UserRecord
    <2>4. InPlace(h, [S EXCEPT ![i] = u], [S EXCEPT ![i] = u])
      BY <2>1
    <2> HIDE DEF u
    <2>5. /\ [S EXCEPT ![i] = u] \in Seq(UserRecord)
          /\ Unique(S) => Unique([S EXCEPT ![i] = u])
      BY <1>1, <2>1, <2>2, <2>3, ChangedUser
    <2> QED
      BY <2>4, <2>5, InPlaceDoes DEF S
  <1>5. ASSUME UserDelete(h) PROVE Written(h)
    <2> HIDE DEF S
    <2>1. PICK id \in UserIds, i \in DOMAIN S :
            InPlace(h, Append(Without(S, i), S[Len(S)]), Without(S, i))
      BY <1>5 DEF UserDelete, userIndexByID, S
    <2> QED
      BY <1>1, <2>1, WithoutUser, InPlaceDoes DEF S
  <1>6. ASSUME UserCreate(h) PROVE Kept(h) \/ Copied(h)
    <2> HIDE DEF S
    <2>1. PICK id \in UserIds, pin \in Pins, devices \in DeviceLists :
            /\ userIndexByID(S, id) = {} /\ ~participantIDTaken(S, pin, 0)
            /\ Submit(h, [users |-> Append(S, [id |-> id, pin |-> pin, devices |-> devices]),
                          versioned |-> TRUE, rest |-> proc[h].rest], "copy")
            /\ UNCHANGED heap
      BY <1>6 DEF UserCreate, S
    <2> DEFINE u == [id |-> id, pin |-> pin, devices |-> devices]
               doc == [users |-> Append(S, u), versioned |-> TRUE, rest |-> proc[h].rest]
    <2>2. u \in UserRecord /\ u.id = id /\ u.pin = pin
      BY ConfigAssumption DEF UserRecord
    <2>3. Submit(h, doc, "copy")
      BY <2>1
    <2> HIDE DEF u
    <2>4. Append(S, u) \in Seq(UserRecord) /\ (Unique(S) => Unique(Append(S, u)))
      BY <1>1, <2>1, <2>2, NewUser
    <2>5. doc \in Document /\ doc.versioned /\ doc.users = Append(S, u) /\ doc.rest = proc[h].rest
      BY <1>1, <2>4, DocumentIs
    <2> HIDE DEF doc
    <2>6. CASE mode = "file" /\ doc.versioned /\ Valid(doc)
      <3>1. Set(h, Saving(doc, "copy")) /\ UNCHANGED <<heap, taint>>
        BY <2>1, <2>3, <2>6 DEF Submit, Saving
      <3>2. Accepted(h, doc)
        BY <2>4, <2>5, <2>6 DEF Accepted, S
      <3> QED
        BY <2>5, <3>1, <3>2 DEF Copied
    <2>7. CASE ~(mode = "file" /\ doc.versioned /\ Valid(doc))
      BY <2>1, <2>3, <2>7 DEF Submit, Refuse, Kept
    <2> QED
      BY <2>6, <2>7
  <1> QED
    BY <1>3, <1>4, <1>5, <1>6

\* A cluster section that passes its own check, or none, passes main's as well, where
\* the environment sets no limits.
LEMMA ClusterStarts ==
  ASSUME NEW S \in SUBSET ClusterSpec,
         \A c \in S : ValidateClusterSpec(c) /\ \A u, v \in c.uri : u = v
  PROVE  ValidateClusterLimits(MergeClusterLimits(NoLimits, S))
  <1>1. NoLimits.max = 0 /\ NoLimits.soft = 0 /\ NoLimits.redirect = FALSE
    BY DEF NoLimits
  <1>2. CASE S = {}
    <2>1. MergeClusterLimits(NoLimits, S) = NoLimits
      BY <1>2 DEF MergeClusterLimits, Given
    <2>2. NoLimits.max >= 0 /\ NoLimits.soft >= 0 /\ ~(NoLimits.max > 0)
      BY <1>1
    <2>3. ~NoLimits.redirect
      BY <1>1
    <2> QED
      BY <2>1, <2>2, <2>3 DEF ValidateClusterLimits
  <1>3. CASE S # {}
    <2> DEFINE c == The(S)
               max == Over(NoLimits.max, c.max)
               soft == Over(NoLimits.soft, c.soft)
               redirect == Over(NoLimits.redirect, c.redirect)
               uri == Over(NoLimits.uri, c.uri)
    <2>1. Given(S) /\ c \in S
      BY <1>3 DEF The, Given
    <2>2. MergeClusterLimits(NoLimits, S) = [max |-> max, soft |-> soft, redirect |-> redirect, uri |-> uri]
      BY <2>1 DEF MergeClusterLimits
    <2> HIDE DEF c
    <2>3. /\ c.max \subseteq Int /\ c.soft \subseteq Int /\ c.redirect \subseteq BOOLEAN
          /\ ValidateClusterSpec(c) /\ \A u, v \in c.uri : u = v
      BY <2>1 DEF ClusterSpec
    <2>4. (c.max = {} /\ max = 0) \/ max \in c.max
      BY <1>1 DEF Over, Given, The
    <2>5. (c.soft = {} /\ soft = 0) \/ soft \in c.soft
      BY <1>1 DEF Over, Given, The
    <2>6. (c.redirect = {} /\ redirect = FALSE) \/ redirect \in c.redirect
      BY <1>1 DEF Over, Given, The
    <2>7. c.uri # {} => uri \in c.uri
      BY DEF Over, Given, The
    <2> HIDE DEF max, soft, redirect, uri
    <2>8. max \in Int /\ max >= 0
      <3>1. \A m \in c.max : m \in Int /\ m >= 0
        BY <2>3 DEF ValidateClusterSpec
      <3> QED
        BY <2>4, <3>1
    <2>9. soft \in Int /\ soft >= 0 /\ (max > 0 => soft <= max)
      <3>1. CASE c.soft = {} /\ soft = 0
        BY <2>8, <3>1
      <3>2. CASE soft \in c.soft
        <4>1. soft \in Int /\ soft >= 0 /\ \A m \in c.max : soft <= m
          BY <2>3, <3>2 DEF ValidateClusterSpec
        <4> QED
          BY <2>4, <4>1
      <3> QED
        BY <2>5, <3>1, <3>2
    <2>10. redirect => uri # ""
      <3> SUFFICES ASSUME redirect PROVE uri # ""
        OBVIOUS
      <3>1. TRUE \in c.redirect
        BY <2>3, <2>6
      <3>2. c.uri # {} /\ c.uri # {""}
        BY <2>3, <3>1 DEF ValidateClusterSpec, Given
      <3>3. c.uri = {uri}
        BY <2>3, <2>7, <3>2
      <3> QED
        BY <3>2, <3>3
    <2> DEFINE l == MergeClusterLimits(NoLimits, S)
    <2>11. l.max = max /\ l.soft = soft /\ l.redirect = redirect /\ l.uri = uri
      BY <2>2
    <2> HIDE DEF l
    <2>12. l.max >= 0 /\ l.soft >= 0 /\ (l.max > 0 => l.soft <= l.max)
      BY <2>8, <2>9, <2>11
    <2>13. l.redirect => l.uri # ""
      BY <2>10, <2>11
    <2>14. ValidateClusterLimits(l)
      BY <2>12, <2>13 DEF ValidateClusterLimits
    <2> QED
      BY <2>14 DEF l
  <1> QED
    BY <1>2, <1>3

LEMMA SectionEdits ==
  ASSUME TypeInv, NEW h \in Handler, proc[h].pc = "edit",
         \/ ClusterPut(h) \/ ClusterDelete(h) \/ ServersPut(h)
         \/ RecordingPut(h) \/ RecordingDelete(h)
         \/ DatabasePut(h) \/ DatabaseDelete(h)
         \/ SIPSettingsPut(h) \/ SIPSettingsDelete(h)
  PROVE  Kept(h) \/ Copied(h)
  <1> DEFINE r == proc[h].rest
  <1>1. r \in Rest
    BY Editing
  <1> HIDE DEF r
  <1>2. ASSUME NEW rest, Section(h, rest), rest \in Rest,
               SectionsStart(r) => SectionsStart(rest)
        PROVE  Kept(h) \/ Copied(h)
    BY <1>2, SectionDoes DEF r
  <1>3. ASSUME ClusterPut(h) PROVE Kept(h) \/ Copied(h)
    <2>1. PICK c \in ClusterSpecs : ValidateClusterSpec(c) /\ Section(h, [r EXCEPT !.cluster = {c}])
      BY <1>3 DEF ClusterPut, r
    <2> DEFINE rest == [r EXCEPT !.cluster = {c}]
    <2>2. rest \in Rest /\ rest.sip = r.sip /\ rest.cluster = {c}
      BY <1>1, ConfigAssumption DEF Rest
    <2>3. Section(h, rest)
      BY <2>1
    <2> HIDE DEF rest
    <2>4. ValidateClusterLimits(MergeClusterLimits(NoLimits, {c}))
      <3>1. {c} \in SUBSET ClusterSpec /\ \A u, v \in c.uri : u = v
        BY ConfigAssumption
      <3> QED
        BY <2>1, <3>1, ClusterStarts
    <2>5. SectionsStart(r) => SectionsStart(rest)
      BY <2>2, <2>4 DEF SectionsStart
    <2> QED
      BY <1>2, <2>2, <2>3, <2>5
  <1>4. ASSUME ClusterDelete(h) PROVE Kept(h) \/ Copied(h)
    <2> DEFINE rest == [r EXCEPT !.cluster = {}]
    <2>2. rest \in Rest /\ rest.sip = r.sip /\ rest.cluster = {}
      BY <1>1 DEF Rest
    <2>3. Section(h, rest)
      BY <1>4 DEF ClusterDelete, r
    <2> HIDE DEF rest
    <2>4. SectionsStart(r) => SectionsStart(rest)
      BY <2>2, ClusterStarts DEF SectionsStart
    <2> QED
      BY <1>2, <2>2, <2>3, <2>4
  <1>5. ASSUME ServersPut(h) PROVE Kept(h) \/ Copied(h)
    <2>1. PICK s \in ServerLists : Section(h, [r EXCEPT !.servers = s])
      BY <1>5 DEF ServersPut, r
    <2> DEFINE rest == [r EXCEPT !.servers = s]
    <2>2. rest \in Rest /\ rest.sip = r.sip /\ rest.cluster = r.cluster
      BY <1>1, ConfigAssumption DEF Rest
    <2>3. Section(h, rest)
      BY <2>1
    <2> HIDE DEF rest
    <2> QED
      BY <1>2, <2>2, <2>3 DEF SectionsStart
  <1>6. ASSUME RecordingPut(h) PROVE Kept(h) \/ Copied(h)
    <2>1. PICK s \in Recordings : Section(h, [r EXCEPT !.recording = {s}])
      BY <1>6 DEF RecordingPut, r
    <2> DEFINE rest == [r EXCEPT !.recording = {s}]
    <2>2. rest \in Rest /\ rest.sip = r.sip /\ rest.cluster = r.cluster
      BY <1>1 DEF Rest
    <2>3. Section(h, rest)
      BY <2>1
    <2> HIDE DEF rest
    <2> QED
      BY <1>2, <2>2, <2>3 DEF SectionsStart
  <1>7. ASSUME RecordingDelete(h) PROVE Kept(h) \/ Copied(h)
    <2> DEFINE rest == [r EXCEPT !.recording = {}]
    <2>2. rest \in Rest /\ rest.sip = r.sip /\ rest.cluster = r.cluster
      BY <1>1 DEF Rest
    <2>3. Section(h, rest)
      BY <1>7 DEF RecordingDelete, r
    <2> HIDE DEF rest
    <2> QED
      BY <1>2, <2>2, <2>3 DEF SectionsStart
  <1>8. ASSUME DatabasePut(h) PROVE Kept(h) \/ Copied(h)
    <2>1. PICK d \in Databases : Section(h, [r EXCEPT !.database = {StorageNamed(d)}])
      BY <1>8 DEF DatabasePut, r
    <2> DEFINE rest == [r EXCEPT !.database = {StorageNamed(d)}]
    <2>2. rest \in Rest /\ rest.sip = r.sip /\ rest.cluster = r.cluster
      BY <1>1 DEF Rest
    <2>3. Section(h, rest)
      BY <2>1
    <2> HIDE DEF rest
    <2> QED
      BY <1>2, <2>2, <2>3 DEF SectionsStart
  <1>9. ASSUME DatabaseDelete(h) PROVE Kept(h) \/ Copied(h)
    <2> DEFINE rest == [r EXCEPT !.database = {}]
    <2>2. rest \in Rest /\ rest.sip = r.sip /\ rest.cluster = r.cluster
      BY <1>1 DEF Rest
    <2>3. Section(h, rest)
      BY <1>9 DEF DatabaseDelete, r
    <2> HIDE DEF rest
    <2> QED
      BY <1>2, <2>2, <2>3 DEF SectionsStart
  <1>10. ASSUME SIPSettingsPut(h) PROVE Kept(h) \/ Copied(h)
    <2>1. PICK s \in SipSpecs :
            /\ ValidateSIPConfig(MergeSIPFromSpec(EnvSip, {s}))
            /\ Section(h, [r EXCEPT !.sip = {s}])
      BY <1>10 DEF SIPSettingsPut, r
    <2> DEFINE rest == [r EXCEPT !.sip = {s}]
    <2>2. rest \in Rest /\ rest.sip = {s} /\ rest.cluster = r.cluster
      BY <1>1, ConfigAssumption DEF Rest
    <2>3. Section(h, rest)
      BY <2>1
    <2> HIDE DEF rest
    <2> QED
      BY <1>2, <2>1, <2>2, <2>3 DEF SectionsStart
  <1>11. ASSUME SIPSettingsDelete(h) PROVE Kept(h) \/ Copied(h)
    <2> DEFINE rest == [r EXCEPT !.sip = {}]
    <2>2. rest \in Rest /\ rest.sip = {} /\ rest.cluster = r.cluster
      BY <1>1 DEF Rest
    <2>3. Section(h, rest)
      BY <1>11 DEF SIPSettingsDelete, r
    <2> HIDE DEF rest
    <2> QED
      BY <1>2, <2>2, <2>3 DEF SectionsStart, Brought
  <1> QED
    BY <1>3, <1>4, <1>5, <1>6, <1>7, <1>8, <1>9, <1>10, <1>11

LEMMA EditDoes ==
  ASSUME TypeInv, NEW h \in Handler, Edit(h)
  PROVE  /\ up /\ proc[h].pc = "edit"
         /\ Kept(h) \/ Copied(h) \/ Written(h)
         /\ UNCHANGED <<mode, up, files, cur, lastHash, remote, hand, count>>
  <1>1. up /\ proc[h].pc = "edit"
    BY DEF Edit
  <1>2. GiveUp(h) => Kept(h)
    BY DEF GiveUp, Kept
  <1> QED
    BY <1>1, <1>2, UserEdits, SectionEdits DEF Edit

-----------------------------------------------------------------------------
(***************************************************************************)
(* The types.                                                              *)
(***************************************************************************)
PollerPc == {"idle", "hash", "store"}

LEMMA IdleIs ==
  /\ Idle \in Locals /\ Holds(Idle)
  /\ Idle.pc = "idle" /\ Idle.edit = "none" /\ Idle.fd = NoFile
  BY Sizes DEF Idle, Locals, Holds

LEMMA SavingIs ==
  ASSUME NEW doc \in Document, doc.versioned, Valid(doc),
         NEW edit \in {"inplace", "copy", "whole"}
  PROVE  LET l == Saving(doc, edit)
         IN  /\ l \in Locals /\ Holds(l)
             /\ l.pc = "open" /\ l.out = doc /\ l.edit = edit /\ l.fd = NoFile
  BY Sizes DEF Saving, Idle, Locals, Holds

LEMMA ReadingIs ==
  ASSUME NEW doc \in Document, doc.versioned, Valid(doc), NEW pc \in {"hash", "store"}
  PROVE  LET l == [Idle EXCEPT !.pc = pc, !.out = doc, !.edit = "load"]
         IN  /\ l \in Locals /\ Holds(l)
             /\ l.pc = pc /\ l.out = doc /\ l.edit = "load" /\ l.fd = NoFile
  BY Sizes DEF Idle, Locals, Holds

LEMMA LoadedIs ==
  ASSUME NEW doc \in Document
  PROVE  /\ LoadAppConfig(doc) \in Document /\ LoadAppConfig(doc).versioned
         /\ doc.versioned => LoadAppConfig(doc) = doc
         /\ doc # Torn
  <1>1. CASE doc.versioned
    BY <1>1, ConfigAssumption DEF LoadAppConfig
  <1>2. CASE ~doc.versioned
    <2> DEFINE rest == [doc.rest EXCEPT !.links = {}, !.cluster = {}, !.servers = <<>>,
                                        !.recording = {}, !.database = {}, !.sip = {}]
    <2>1. doc.rest \in Rest
      BY DEF Document
    <2>2. rest \in Rest
      BY <2>1, EmptySeq DEF Rest
    <2> HIDE DEF rest
    <2>3. LoadAppConfig(doc) = [doc EXCEPT !.versioned = TRUE, !.users = <<>>, !.rest = rest]
      BY <1>2 DEF LoadAppConfig, rest
    <2>4. LoadAppConfig(doc) \in Document /\ LoadAppConfig(doc).versioned
      BY <2>2, <2>3, EmptySeq DEF Document
    <2> QED
      BY <1>2, <2>4, ConfigAssumption
  <1> QED
    BY <1>1, <1>2

\* A step of one goroutine of a running process.
LEMMA Stepped ==
  ASSUME TypeInv, NEW p \in Proc, NEW l \in Locals, Holds(l), Set(p, l),
         p \in Handler \/ l.pc \in PollerPc, up, UNCHANGED up
  PROVE  /\ proc' \in [Proc -> Locals]
         /\ \A q \in Proc : Holds(proc'[q]) /\ (~up' => proc'[q].pc = "idle")
         /\ proc'[Poller].pc \in PollerPc
         /\ proc'[p] = l /\ \A q \in Proc : q # p => proc'[q] = proc[q]
  <1>1. proc \in [Proc -> Locals] /\ Poller \in Proc /\ Poller \notin Handler
        /\ proc' = [proc EXCEPT ![p] = l]
    BY Procs, ConfigAssumption DEF TypeInv, TypeOK, Set
  <1>2. proc' \in [Proc -> Locals] /\ proc'[p] = l /\ \A q \in Proc : q # p => proc'[q] = proc[q]
    BY <1>1
  <1>3. \A q \in Proc : Holds(proc'[q])
    BY <1>2 DEF TypeInv, HoldsWell
  <1>4. proc'[Poller].pc \in PollerPc
    BY <1>1, <1>2 DEF TypeInv, HoldsWell, PollerPc
  <1> QED
    BY <1>2, <1>3, <1>4

\* A step that moves on to the next file operation.
LEMMA Onward ==
  ASSUME TypeInv, NEW p \in Proc, NEW pc \in {"fill", "unlink", "rename", "store"},
         NEW fd, IF pc = "fill" THEN fd \in Inodes ELSE fd = NoFile,
         proc[p].pc \in {"open", "fill", "unlink", "rename", "hash"},
         proc' = [proc EXCEPT ![p].pc = pc, ![p].fd = fd]
  PROVE  LET l == [proc[p] EXCEPT !.pc = pc, !.fd = fd]
         IN  /\ l \in Locals /\ Holds(l) /\ Set(p, l)
             /\ l.pc = pc /\ l.fd = fd /\ l.out = proc[p].out /\ l.edit = proc[p].edit
             /\ l.out \in Document /\ l.out.versioned /\ Valid(l.out)
  <1> DEFINE l == [proc[p] EXCEPT !.pc = pc, !.fd = fd]
  <1>1. proc[p] \in Locals /\ Holds(proc[p])
    BY DEF TypeInv, TypeOK, HoldsWell
  <1>2. l \in Locals /\ l.pc = pc /\ l.fd = fd /\ l.out = proc[p].out /\ l.edit = proc[p].edit
    BY <1>1 DEF Locals
  <1>3. l.out \in Document /\ l.out.versioned /\ Valid(l.out)
    BY <1>1, <1>2 DEF Holds
  <1>4. Set(p, l)
    BY DEF Set
  <1> HIDE DEF l
  <1>5. Holds(l)
    BY <1>2, <1>3 DEF Holds
  <1> QED
    BY <1>2, <1>3, <1>4, <1>5 DEF l

LEMMA TypeInit == Init => TypeInv
  <1> SUFFICES ASSUME Init PROVE TypeInv
    OBVIOUS
  <1>1. FirstDoc \in Document /\ FirstDoc.users \in Seq(UserRecord) /\ FirstDoc.rest \in Rest
    BY ConfigAssumption DEF KnownDocs, Document
  <1>2. proc \in [Proc -> Locals] /\ \A p \in Proc : Holds(proc[p]) /\ proc[p].pc = "idle"
    BY IdleIs DEF Init
  <1>3. inode \in [Inodes -> Document \cup {Torn}]
    BY <1>1 DEF Init
  <1>4. heap \in [ArrayIds -> Seq(UserRecord)]
    BY <1>1 DEF Init
  <1>5. /\ mode \in {"file", "http", "poll"} /\ up \in BOOLEAN
        /\ dir \in [path : Inodes \cup {NoFile}, tmp : Inodes \cup {NoFile}]
        /\ cur \in [arr : ArrayIds, rest : Rest \cup {NoDoc}] /\ cur.rest \in Rest
        /\ remote \in Document
        /\ hand \in BOOLEAN /\ taint \subseteq {"memory", "file"}
        /\ count \in [requests : Nat, edits : Nat, crashes : Nat]
    BY <1>1, Sizes, ConfigAssumption DEF Init
  <1> QED
    BY <1>2, <1>3, <1>4, <1>5, Procs DEF TypeInv, TypeOK, HoldsWell

\* What a step of a goroutine has to say of the other variables.
LEMMA OthersTyped ==
  ASSUME TypeInv, NEW p \in Proc, NEW l \in Locals, Holds(l), Set(p, l),
         p \in Handler \/ l.pc \in PollerPc, up, UNCHANGED <<up, mode, remote>>,
         dir' \in [path : Inodes \cup {NoFile}, tmp : Inodes \cup {NoFile}],
         inode' \in [Inodes -> Document \cup {Torn}],
         cur' \in [arr : ArrayIds, rest : Rest],
         heap' \in [ArrayIds -> Seq(UserRecord)],
         hand' \in BOOLEAN, taint' \subseteq {"memory", "file"},
         count' \in [requests : Nat, edits : Nat, crashes : Nat]
  PROVE  TypeInv'
  <1>1. /\ proc' \in [Proc -> Locals]
        /\ \A q \in Proc : Holds(proc'[q]) /\ (~up' => proc'[q].pc = "idle")
        /\ proc'[Poller].pc \in PollerPc
    BY Stepped
  <1>2. mode' \in {"file", "http", "poll"} /\ up' \in BOOLEAN /\ remote' \in Document
    BY DEF TypeInv, TypeOK
  <1>3. cur' \in [arr : ArrayIds, rest : Rest \cup {NoDoc}] /\ cur'.rest \in Rest
    OBVIOUS
  <1>4. TypeOK'
    BY <1>1, <1>2, <1>3 DEF TypeOK
  <1>5. HoldsWell'
    BY <1>1, <1>3 DEF HoldsWell, PollerPc
  <1> QED
    BY <1>4, <1>5 DEF TypeInv

\* A running process has a snapshot.
LEMMA Running ==
  ASSUME TypeInv, up
  PROVE  /\ cur \in [arr : ArrayIds, rest : Rest]
         /\ dir \in [path : Inodes \cup {NoFile}, tmp : Inodes \cup {NoFile}]
         /\ inode \in [Inodes -> Document \cup {Torn}]
         /\ heap \in [ArrayIds -> Seq(UserRecord)]
         /\ hand \in BOOLEAN /\ taint \subseteq {"memory", "file"}
         /\ count \in [requests : Nat, edits : Nat, crashes : Nat]
         /\ proc \in [Proc -> Locals] /\ remote \in Document
  <1>1. cur \in [arr : ArrayIds, rest : Rest \cup {NoDoc}] /\ cur.rest \in Rest
    BY DEF TypeInv, TypeOK, HoldsWell
  <1>2. cur \in [arr : ArrayIds, rest : Rest]
    BY <1>1
  <1> QED
    BY <1>2 DEF TypeInv, TypeOK

LEMMA CountTyped ==
  ASSUME TypeInv, Requested \/ Edited \/ UNCHANGED count
  PROVE  count' \in [requests : Nat, edits : Nat, crashes : Nat]
  <1>1. count \in [requests : Nat, edits : Nat, crashes : Nat]
    BY DEF TypeInv, TypeOK
  <1>2. CASE Requested
    BY <1>1, <1>2 DEF Requested
  <1>3. CASE Edited
    BY <1>1, <1>3 DEF Edited
  <1> QED
    BY <1>1, <1>2, <1>3

LEMMA EditTyped ==
  ASSUME TypeInv, NEW h \in Handler, Edit(h)
  PROVE  TypeInv'
  <1>1. /\ up /\ proc[h].pc = "edit"
        /\ Kept(h) \/ Copied(h) \/ Written(h)
        /\ UNCHANGED <<mode, up, files, cur, lastHash, remote, hand, count>>
    BY EditDoes
  <1>2. h \in Proc
    BY Procs
  <1>3. UNCHANGED <<mode, up, dir, inode, cur, remote, hand, count>>
    BY <1>1 DEF files
  <1>4. Idle \in Locals /\ Holds(Idle)
    BY IdleIs
  <1>5. CASE Kept(h)
    <2>1. Set(h, Idle) /\ UNCHANGED <<heap, taint>>
      BY <1>5 DEF Kept
    <2> QED
      BY <1>1, <1>2, <1>3, <1>4, <2>1, Running, OthersTyped
  <1>6. CASE Copied(h)
    <2>1. PICK doc \in Document : Accepted(h, doc) /\ Set(h, Saving(doc, "copy")) /\ UNCHANGED <<heap, taint>>
      BY <1>6 DEF Copied
    <2>2. Saving(doc, "copy") \in Locals /\ Holds(Saving(doc, "copy"))
      BY <2>1, SavingIs DEF Accepted
    <2> QED
      BY <1>1, <1>2, <1>3, <2>1, <2>2, Running, OthersTyped
  <1>7. CASE Written(h)
    <2>1. PICK users \in Seq(UserRecord) :
            /\ heap' = [heap EXCEPT ![proc[h].arr] = users]
            /\ \/ Set(h, Idle) /\ taint' = taint \cup {"memory"}
               \/ \E doc \in Document : Accepted(h, doc) /\ Set(h, Saving(doc, "inplace")) /\ UNCHANGED taint
      BY <1>7 DEF Written
    <2>2. heap' \in [ArrayIds -> Seq(UserRecord)]
      BY <1>1, <2>1, Running
    <2>3. CASE Set(h, Idle) /\ taint' = taint \cup {"memory"}
      <3>1. taint' \subseteq {"memory", "file"}
        BY <1>1, <2>3, Running
      <3> QED
        BY <1>1, <1>2, <1>3, <1>4, <2>2, <2>3, <3>1, Running, OthersTyped
    <2>4. CASE \E doc \in Document : Accepted(h, doc) /\ Set(h, Saving(doc, "inplace")) /\ UNCHANGED taint
      <3>1. PICK doc \in Document : Accepted(h, doc) /\ Set(h, Saving(doc, "inplace")) /\ UNCHANGED taint
        BY <2>4
      <3>2. Saving(doc, "inplace") \in Locals /\ Holds(Saving(doc, "inplace"))
        BY <3>1, SavingIs DEF Accepted
      <3> QED
        BY <1>1, <1>2, <1>3, <2>2, <3>1, <3>2, Running, OthersTyped
    <2> QED
      BY <2>1, <2>3, <2>4
  <1> QED
    BY <1>1, <1>5, <1>6, <1>7

\* The four file operations.  The locals go on with the document and the edit
\* they had.
Continues(h, l, pc) ==
  /\ l \in Locals /\ Holds(l) /\ Set(h, l)
  /\ l.pc = pc /\ l.out = proc[h].out /\ l.edit = proc[h].edit
GoesOn == UNCHANGED <<mode, up, cur, heap, lastHash, remote, hand, count>>
Refused(h) ==
  /\ Set(h, Idle)
  /\ taint' = IF proc[h].edit = "inplace" THEN taint \cup {"memory"} ELSE taint

LEMMA OpenTmpDoes ==
  ASSUME TypeInv, NEW h \in Handler, OpenTmp(h)
  PROVE  /\ up /\ proc[h].pc = "open" /\ GoesOn /\ UNCHANGED taint
         /\ \E i \in Inodes, l \in Locals :
              /\ i = dir.tmp \/ (dir.tmp = NoFile /\ i \notin UsedInodes)
              /\ dir' = [dir EXCEPT !.tmp = i] /\ inode' = [inode EXCEPT ![i] = Torn]
              /\ Continues(h, l, "fill") /\ l.fd = i
  <1> DEFINE i == IF dir.tmp = NoFile THEN CHOOSE j \in Inodes : j \notin UsedInodes ELSE dir.tmp
             l == [proc[h] EXCEPT !.pc = "fill", !.fd = i]
  <1>1. up /\ proc[h].pc = "open" /\ GoesOn /\ UNCHANGED taint
    BY DEF OpenTmp, At, GoesOn, memory
  <1>2. /\ dir' = [dir EXCEPT !.tmp = i]
        /\ inode' = [inode EXCEPT ![i] = Torn]
        /\ proc' = [proc EXCEPT ![h].pc = "fill", ![h].fd = i]
    BY DEF OpenTmp
  <1>3. i \in Inodes /\ (i = dir.tmp \/ (dir.tmp = NoFile /\ i \notin UsedInodes))
    BY <1>1, FreshInode, Running
  <1> HIDE DEF i
  <1>4. Continues(h, l, "fill") /\ l.fd = i
    <2>1. l \in Locals /\ Holds(l) /\ Set(h, l)
      BY <1>1, <1>2, <1>3, Procs, Onward
    <2>2. proc[h] \in Locals
      BY <1>1, Procs, Running
    <2>3. l.pc = "fill" /\ l.fd = i /\ l.out = proc[h].out /\ l.edit = proc[h].edit
      BY <2>2 DEF Locals
    <2> HIDE DEF l
    <2> QED
      BY <2>1, <2>3 DEF Continues
  <1>5. l \in Locals
    BY <1>4 DEF Continues
  <1> HIDE DEF l
  <1> QED
    BY <1>1, <1>2, <1>3, <1>4, <1>5

\* The other three have closed the file.
LEMMA Closed ==
  ASSUME TypeInv, NEW h \in Handler, NEW pc \in {"unlink", "rename", "store"}, Goto(h, pc),
         proc[h].pc \in {"fill", "unlink", "rename"}
  PROVE  \E l \in Locals : Continues(h, l, pc)
  <1> DEFINE l == [proc[h] EXCEPT !.pc = pc, !.fd = NoFile]
  <1>1. proc' = [proc EXCEPT ![h].pc = pc, ![h].fd = NoFile]
    BY DEF Goto
  <1>2. proc[h] \in Locals /\ Holds(proc[h])
    BY Procs DEF TypeInv, TypeOK, HoldsWell
  <1>3. l \in Locals
    BY <1>2 DEF Locals
  <1>4. l.pc = pc /\ l.fd = NoFile /\ l.out = proc[h].out /\ l.edit = proc[h].edit
    BY <1>2 DEF Locals
  <1>5. Set(h, l)
    BY <1>1 DEF Set
  <1> HIDE DEF l
  <1>6. Holds(l)
    BY <1>2, <1>4 DEF Holds
  <1> QED
    BY <1>3, <1>4, <1>5, <1>6 DEF Continues

LEMMA FillTmpDoes ==
  ASSUME TypeInv, NEW h \in Handler, FillTmp(h)
  PROVE  /\ up /\ proc[h].pc = "fill" /\ GoesOn /\ UNCHANGED dir
         /\ proc[h].fd \in Inodes /\ proc[h].out \in Document /\ proc[h].out.versioned
         /\ \/ /\ inode' = [inode EXCEPT ![proc[h].fd] = proc[h].out] /\ UNCHANGED taint
               /\ \E l \in Locals : Continues(h, l, "unlink")
            \/ Refused(h) /\ UNCHANGED inode
  <1>1. up /\ proc[h].pc = "fill" /\ GoesOn /\ UNCHANGED dir
    BY DEF FillTmp, At, GoesOn, memory
  <1>2. proc[h].fd \in Inodes /\ proc[h].out \in Document /\ proc[h].out.versioned
    BY <1>1, Procs DEF TypeInv, HoldsWell, Holds
  <1>3. \/ inode' = [inode EXCEPT ![proc[h].fd] = proc[h].out] /\ Goto(h, "unlink") /\ UNCHANGED taint
        \/ Refuse(h, proc[h].edit) /\ UNCHANGED inode
    BY DEF FillTmp
  <1>4. Goto(h, "unlink") => \E l \in Locals : Continues(h, l, "unlink")
    BY <1>1, Closed
  <1> QED
    BY <1>1, <1>2, <1>3, <1>4 DEF Refuse, Refused

LEMMA UnlinkDoes ==
  ASSUME TypeInv, NEW h \in Handler, Unlink(h)
  PROVE  /\ up /\ proc[h].pc = "unlink" /\ GoesOn /\ UNCHANGED <<inode, taint>>
         /\ dir' = [dir EXCEPT !.path = NoFile]
         /\ \E l \in Locals : Continues(h, l, "rename")
  <1>1. up /\ proc[h].pc = "unlink" /\ GoesOn /\ UNCHANGED <<inode, taint>>
        /\ dir' = [dir EXCEPT !.path = NoFile]
    BY DEF Unlink, At, GoesOn, memory
  <1>2. Goto(h, "rename")
    BY DEF Unlink
  <1> QED
    BY <1>1, <1>2, Closed

LEMMA RenameDoes ==
  ASSUME TypeInv, NEW h \in Handler, Rename(h)
  PROVE  /\ up /\ proc[h].pc = "rename" /\ GoesOn /\ UNCHANGED inode
         /\ \/ /\ dir.tmp # NoFile /\ dir' = [path |-> dir.tmp, tmp |-> NoFile]
               /\ taint' = IF proc[h].edit = "whole" THEN taint \ {"file"}
                           ELSE IF taint # {} THEN taint \cup {"file"} ELSE taint
               /\ \E l \in Locals : Continues(h, l, "store")
            \/ /\ RenameOutcomes # {"ok"} \/ dir.tmp = NoFile
               /\ dir' = [dir EXCEPT !.tmp = NoFile] /\ Refused(h)
  <1>1. up /\ proc[h].pc = "rename" /\ GoesOn /\ UNCHANGED inode
    BY DEF Rename, At, GoesOn, memory
  <1>2. CASE /\ dir.tmp # NoFile /\ dir' = [path |-> dir.tmp, tmp |-> NoFile]
             /\ taint' = IF proc[h].edit = "whole" THEN taint \ {"file"}
                         ELSE IF taint # {} THEN taint \cup {"file"} ELSE taint
             /\ Goto(h, "store")
    BY <1>1, <1>2, Closed
  <1>3. CASE /\ RenameOutcomes # {"ok"} \/ dir.tmp = NoFile
             /\ dir' = [dir EXCEPT !.tmp = NoFile] /\ Refuse(h, proc[h].edit)
    BY <1>1, <1>3 DEF Refuse, Refused
  <1> QED
    BY <1>2, <1>3 DEF Rename

LEMMA WriteTyped ==
  ASSUME TypeInv, NEW h \in Handler, OpenTmp(h) \/ FillTmp(h) \/ Unlink(h) \/ Rename(h)
  PROVE  TypeInv'
  <1>1. up /\ GoesOn
    BY OpenTmpDoes, FillTmpDoes, UnlinkDoes, RenameDoes
  <1>2. UNCHANGED <<up, mode, remote, cur, heap, hand, count>>
    BY <1>1 DEF GoesOn
  <1>3. h \in Proc
    BY Procs
  <1>4. ASSUME NEW l \in Locals, Holds(l), Set(h, l),
               dir' \in [path : Inodes \cup {NoFile}, tmp : Inodes \cup {NoFile}],
               inode' \in [Inodes -> Document \cup {Torn}], taint' \subseteq {"memory", "file"}
        PROVE  TypeInv'
    BY <1>1, <1>2, <1>3, <1>4, Running, OthersTyped
  <1>5. /\ dir \in [path : Inodes \cup {NoFile}, tmp : Inodes \cup {NoFile}]
        /\ inode \in [Inodes -> Document \cup {Torn}] /\ taint \subseteq {"memory", "file"}
    BY <1>1, Running
  <1>6. ASSUME Refused(h),
               dir' \in [path : Inodes \cup {NoFile}, tmp : Inodes \cup {NoFile}],
               inode' \in [Inodes -> Document \cup {Torn}]
        PROVE  TypeInv'
    <2>1. Set(h, Idle) /\ taint' \subseteq {"memory", "file"}
      BY <1>5, <1>6 DEF Refused
    <2> QED
      BY <1>4, <1>6, <2>1, IdleIs
  <1>7. CASE OpenTmp(h)
    <2>1. PICK i \in Inodes, l \in Locals :
            /\ dir' = [dir EXCEPT !.tmp = i] /\ inode' = [inode EXCEPT ![i] = Torn]
            /\ Continues(h, l, "fill") /\ UNCHANGED taint
      BY <1>7, OpenTmpDoes
    <2>2. /\ dir' \in [path : Inodes \cup {NoFile}, tmp : Inodes \cup {NoFile}]
          /\ inode' \in [Inodes -> Document \cup {Torn}] /\ taint' \subseteq {"memory", "file"}
      BY <1>5, <2>1
    <2> QED
      BY <1>4, <2>1, <2>2 DEF Continues
  <1>8. CASE FillTmp(h)
    <2>1. /\ UNCHANGED dir /\ proc[h].fd \in Inodes /\ proc[h].out \in Document
          /\ \/ /\ inode' = [inode EXCEPT ![proc[h].fd] = proc[h].out] /\ UNCHANGED taint
                /\ \E l \in Locals : Continues(h, l, "unlink")
             \/ Refused(h) /\ UNCHANGED inode
      BY <1>8, FillTmpDoes
    <2>2. inode' \in [Inodes -> Document \cup {Torn}]
      BY <1>5, <2>1
    <2> QED
      BY <1>4, <1>5, <1>6, <2>1, <2>2 DEF Continues
  <1>9. CASE Unlink(h)
    <2>1. /\ dir' = [dir EXCEPT !.path = NoFile] /\ UNCHANGED <<inode, taint>>
          /\ \E l \in Locals : Continues(h, l, "rename")
      BY <1>9, UnlinkDoes
    <2>2. dir' \in [path : Inodes \cup {NoFile}, tmp : Inodes \cup {NoFile}]
      BY <1>5, <2>1
    <2> QED
      BY <1>4, <1>5, <2>1, <2>2 DEF Continues
  <1>10. CASE Rename(h)
    <2>1. /\ UNCHANGED inode
          /\ \/ /\ dir' = [path |-> dir.tmp, tmp |-> NoFile]
                /\ taint' \subseteq taint \cup {"file"}
                /\ \E l \in Locals : Continues(h, l, "store")
             \/ dir' = [dir EXCEPT !.tmp = NoFile] /\ Refused(h)
      BY <1>10, RenameDoes
    <2>2. dir' \in [path : Inodes \cup {NoFile}, tmp : Inodes \cup {NoFile}]
      BY <1>5, <2>1
    <2>3. taint' \subseteq taint \cup {"file"} => taint' \subseteq {"memory", "file"}
      BY <1>5
    <2> QED
      BY <1>4, <1>5, <1>6, <2>1, <2>2, <2>3 DEF Continues
  <1> QED
    BY <1>7, <1>8, <1>9, <1>10

\* The new snapshot is the document that was stored.
LEMMA StoreDoes ==
  ASSUME TypeInv, NEW p \in Proc, Store(p)
  PROVE  \E fresh \in ArrayIds \ LiveArrays :
           /\ up /\ proc[p].pc = "store"
           /\ cur' = [arr |-> fresh, rest |-> proc[p].out.rest]
           /\ heap' \in [ArrayIds -> Seq(UserRecord)] /\ heap'[fresh] = proc[p].out.users
           /\ proc[p].out \in Document /\ proc[p].out.versioned /\ Valid(proc[p].out)
           /\ proc[p].out.rest \in Rest
           /\ taint' = taint \ {"memory"} /\ hand' = FALSE /\ Set(p, Idle)
           /\ UNCHANGED <<mode, up, dir, inode, lastHash, remote, count>>
  <1> DEFINE fresh == CHOOSE a \in ArrayIds : a \notin LiveArrays
             new == [a \in ArrayIds |-> CASE a = fresh -> proc[p].out.users
                                          [] a \in EditedArrays -> heap[a]
                                          [] OTHER -> <<>>]
  <1>1. fresh \in ArrayIds \ LiveArrays
    BY FreshArray
  <1>2. up /\ proc[p].pc = "store"
    BY DEF Store, At
  <1>3. proc[p].out \in Document /\ proc[p].out.versioned /\ Valid(proc[p].out)
    BY <1>2 DEF TypeInv, HoldsWell, Holds
  <1>4. proc[p].out.rest \in Rest /\ proc[p].out.users \in Seq(UserRecord)
    BY <1>3 DEF Document
  <1>5. /\ cur' = [arr |-> fresh, rest |-> proc[p].out.rest]
        /\ heap' = new
        /\ taint' = taint \ {"memory"} /\ hand' = FALSE /\ Set(p, Idle)
        /\ UNCHANGED <<mode, up, dir, inode, lastHash, remote, count>>
    BY DEF Store, files
  <1> HIDE DEF fresh
  <1>6. new \in [ArrayIds -> Seq(UserRecord)]
    BY <1>2, <1>4, Running, EmptySeq
  <1>7. new[fresh] = proc[p].out.users
    BY <1>1 DEF LiveArrays
  <1> HIDE DEF new
  <1> QED
    BY <1>1, <1>2, <1>3, <1>4, <1>5, <1>6, <1>7

LEMMA ReadTyped ==
  ASSUME TypeInv, NEW h \in Handler, Read(h)
  PROVE  TypeInv'
  <1>1. up /\ h \in Proc /\ UNCHANGED <<up, mode, remote, dir, inode, cur, heap, hand, taint>>
    BY Procs DEF Read, files, memory
  <1> DEFINE l == [Idle EXCEPT !.pc = "edit", !.arr = cur.arr, !.rest = cur.rest]
  <1>2. l \in Locals /\ Holds(l)
    BY <1>1, Running, Sizes DEF Idle, Locals, Holds
  <1>3. Set(h, l) /\ Requested
    BY DEF Read
  <1> HIDE DEF l
  <1> QED
    BY <1>1, <1>2, <1>3, CountTyped, Running, OthersTyped

LEMMA ConfigPutDoes ==
  ASSUME TypeInv, NEW h \in Handler, ConfigPut(h)
  PROVE  /\ up /\ proc[h].pc = "idle" /\ mode = "file" /\ Requested
         /\ \E doc \in Docs : doc \in Document /\ doc.versioned /\ Valid(doc) /\ Set(h, Saving(doc, "whole"))
         /\ UNCHANGED <<mode, up, dir, inode, cur, heap, lastHash, remote, hand, taint>>
  <1>1. up /\ proc[h].pc = "idle" /\ mode = "file" /\ Requested
        /\ UNCHANGED <<mode, up, dir, inode, cur, heap, lastHash, remote, hand>>
    BY DEF ConfigPut, files, memory
  <1>2. PICK doc \in Docs : doc.versioned /\ Valid(doc) /\ Submit(h, doc, "whole")
    BY DEF ConfigPut
  <1>3. doc \in Document
    BY ConfigAssumption DEF KnownDocs
  <1>4. Set(h, Saving(doc, "whole")) /\ UNCHANGED taint
    BY <1>1, <1>2 DEF Submit, Saving
  <1> QED
    BY <1>1, <1>2, <1>3, <1>4

LEMMA ConfigPutTyped ==
  ASSUME TypeInv, NEW h \in Handler, ConfigPut(h)
  PROVE  TypeInv'
  <1>1. PICK doc \in Docs : doc \in Document /\ doc.versioned /\ Valid(doc) /\ Set(h, Saving(doc, "whole"))
    BY ConfigPutDoes
  <1>2. Saving(doc, "whole") \in Locals /\ Holds(Saving(doc, "whole"))
    BY <1>1, SavingIs
  <1> QED
    BY <1>1, <1>2, Procs, ConfigPutDoes, CountTyped, Running, OthersTyped

LEMMA ReloadTyped ==
  ASSUME TypeInv, NEW h \in Handler, ReloadFile(h)
  PROVE  /\ TypeInv'
         /\ OnDisk \in Document /\ dir.path # NoFile /\ OnDisk = inode[dir.path]
  <1>1. up /\ h \in Proc /\ UNCHANGED <<up, mode, remote, dir, inode, cur, heap, hand, taint>>
    BY Procs DEF ReloadFile, files, memory
  <1>2. OnDisk # Torn
    BY DEF ReloadFile
  <1>3. dir.path # NoFile /\ OnDisk = inode[dir.path]
    BY <1>2 DEF OnDisk
  <1>4. OnDisk \in Document
    BY <1>1, <1>2, <1>3, Running
  <1> DEFINE doc == LoadAppConfig(OnDisk)
             l == [Idle EXCEPT !.pc = "store", !.out = doc, !.edit = "load"]
  <1>5. doc \in Document /\ doc.versioned /\ Valid(doc)
    BY <1>4, LoadedIs DEF ReloadFile
  <1>6. Set(h, l) /\ Requested
    BY DEF ReloadFile
  <1> HIDE DEF doc
  <1>7. l \in Locals /\ Holds(l)
    BY <1>5, ReadingIs
  <1> HIDE DEF l
  <1> QED
    BY <1>1, <1>3, <1>4, <1>6, <1>7, CountTyped, Running, OthersTyped

LEMMA FetchTyped ==
  ASSUME TypeInv, NEW p \in Proc, Fetch(p)
  PROVE  TypeInv' /\ mode # "file"
  <1>1. up /\ UNCHANGED <<up, mode, remote, dir, inode, cur, heap, hand, taint>>
        /\ remote.versioned /\ Valid(remote)
    BY DEF Fetch, files, memory
  <1>2. (Requested \/ UNCHANGED count) /\ mode # "file"
    BY DEF Fetch
  <1> DEFINE l == [Idle EXCEPT !.pc = "hash", !.out = remote, !.edit = "load"]
  <1>3. Set(p, l)
    BY DEF Fetch
  <1>4. l \in Locals /\ Holds(l) /\ l.pc = "hash"
    BY <1>1, Running, ReadingIs
  <1> HIDE DEF l
  <1> QED
    BY <1>1, <1>2, <1>3, <1>4, CountTyped, Running, OthersTyped DEF PollerPc

LEMMA HashTyped ==
  ASSUME TypeInv, NEW p \in Proc, RecordHash(p)
  PROVE  TypeInv'
  <1>1. up /\ proc[p].pc = "hash" /\ Goto(p, "store")
        /\ UNCHANGED <<up, mode, remote, dir, inode, cur, heap, hand, taint, count>>
    BY DEF RecordHash, At, files
  <1> DEFINE l == [proc[p] EXCEPT !.pc = "store", !.fd = NoFile]
  <1>2. proc' = [proc EXCEPT ![p].pc = "store", ![p].fd = NoFile]
    BY <1>1 DEF Goto
  <1>3. l \in Locals /\ Holds(l) /\ Set(p, l) /\ l.pc = "store"
    <2>1. proc[p].pc \in {"open", "fill", "unlink", "rename", "hash"}
      BY <1>1
    <2>2. l \in Locals /\ Holds(l) /\ Set(p, l)
      BY <1>2, <2>1, Onward
    <2>3. proc[p] \in Locals
      BY DEF TypeInv, TypeOK
    <2> QED
      BY <2>2, <2>3 DEF Locals
  <1> HIDE DEF l
  <1> QED
    BY <1>1, <1>3, Running, OthersTyped DEF PollerPc

LEMMA StoreTyped ==
  ASSUME TypeInv, NEW p \in Proc, Store(p)
  PROVE  TypeInv'
  <1>1. PICK fresh \in ArrayIds \ LiveArrays :
          /\ up
          /\ cur' = [arr |-> fresh, rest |-> proc[p].out.rest]
          /\ heap' \in [ArrayIds -> Seq(UserRecord)]
          /\ proc[p].out.rest \in Rest
          /\ taint' = taint \ {"memory"} /\ hand' = FALSE /\ Set(p, Idle)
          /\ UNCHANGED <<mode, up, dir, inode, remote, count>>
    BY StoreDoes
  <1>2. cur' \in [arr : ArrayIds, rest : Rest] /\ hand' \in BOOLEAN
        /\ taint' \subseteq {"memory", "file"}
    BY <1>1, Running
  <1> QED
    BY <1>1, <1>2, IdleIs, Running, OthersTyped DEF PollerPc

LEMMA HandEditDoes ==
  ASSUME TypeInv, HandEdit
  PROVE  \E i \in Inodes, doc \in Docs :
           /\ dir' = [dir EXCEPT !.path = i] /\ inode' = [inode EXCEPT ![i] = doc]
           /\ i = dir.path \/ (dir.path = NoFile /\ i # dir.tmp)
           /\ doc \in Document
           /\ mode = "file" /\ Quiet /\ Edited /\ hand' = TRUE
           /\ UNCHANGED <<mode, up, cur, heap, lastHash, remote, proc, taint>>
  <1>1. PICK doc \in Docs :
          LET i == IF dir.path # NoFile THEN dir.path
                   ELSE CHOOSE j \in Inodes : j \notin UsedInodes
          IN dir' = [dir EXCEPT !.path = i] /\ inode' = [inode EXCEPT ![i] = doc]
    BY DEF HandEdit
  <1> DEFINE i == IF dir.path # NoFile THEN dir.path
                  ELSE CHOOSE j \in Inodes : j \notin UsedInodes
  <1>2. dir' = [dir EXCEPT !.path = i] /\ inode' = [inode EXCEPT ![i] = doc]
    BY <1>1
  <1>3. i \in Inodes /\ (i = dir.path \/ (dir.path = NoFile /\ i # dir.tmp))
    <2>1. dir \in [path : Inodes \cup {NoFile}, tmp : Inodes \cup {NoFile}]
      BY DEF TypeInv, TypeOK
    <2>2. CASE dir.path # NoFile
      BY <2>1, <2>2
    <2>3. CASE dir.path = NoFile
      BY <2>3, FreshInode DEF UsedInodes
    <2> QED
      BY <2>2, <2>3
  <1> HIDE DEF i
  <1>4. doc \in Document
    BY ConfigAssumption DEF KnownDocs
  <1>5. mode = "file" /\ Quiet /\ Edited /\ hand' = TRUE
        /\ UNCHANGED <<mode, up, cur, heap, lastHash, remote, proc, taint>>
    BY DEF HandEdit, memory
  <1> QED
    BY <1>2, <1>3, <1>4, <1>5

LEMMA BootDoes ==
  ASSUME TypeInv, Boot
  PROVE  \E found \in Document :
           LET doc == LoadAppConfig(found) IN
           /\ mode = "file" => dir.path # NoFile /\ found = inode[dir.path]
           /\ doc \in Document /\ Startable(doc)
           /\ doc.users \in Seq(UserRecord) /\ doc.rest \in Rest
           /\ cur' = [arr |-> 0, rest |-> doc.rest]
           /\ heap' = [heap EXCEPT ![0] = doc.users]
           /\ ~up /\ up' = TRUE /\ hand' = FALSE
           /\ UNCHANGED <<mode, dir, inode, remote, proc, taint, count>>
  <1> DEFINE found == IF mode = "file" THEN OnDisk ELSE remote
             doc == LoadAppConfig(found)
  <1>1. /\ found # Torn /\ Startable(doc)
        /\ cur' = [arr |-> 0, rest |-> doc.rest]
        /\ heap' = [heap EXCEPT ![0] = doc.users]
        /\ ~up /\ up' = TRUE /\ hand' = FALSE
        /\ UNCHANGED <<mode, dir, inode, remote, proc, taint, count>>
    BY DEF Boot, files
  <1>2. /\ found \in Document
        /\ mode = "file" => dir.path # NoFile /\ found = inode[dir.path]
    <2>1. CASE mode = "file"
      <3>1. dir.path # NoFile /\ found = inode[dir.path]
        BY <1>1, <2>1 DEF OnDisk
      <3>2. inode[dir.path] \in Document \cup {Torn}
        BY <3>1 DEF TypeInv, TypeOK
      <3> QED
        BY <1>1, <3>1, <3>2
    <2>2. CASE mode # "file"
      BY <2>2 DEF TypeInv, TypeOK
    <2> QED
      BY <2>1, <2>2
  <1>3. doc \in Document
    BY <1>2, LoadedIs
  <1>4. doc.users \in Seq(UserRecord) /\ doc.rest \in Rest
    BY <1>3 DEF Document
  <1> HIDE DEF found
  <1> QED
    BY <1>1, <1>2, <1>3, <1>4

LEMMA EnvironmentTyped ==
  ASSUME TypeInv, HandEdit \/ RemoteChanges \/ Crash \/ Boot
  PROVE  TypeInv'
  <1>1. CASE HandEdit
    <2>1. PICK i \in Inodes, doc \in Docs :
            /\ dir' = [dir EXCEPT !.path = i] /\ inode' = [inode EXCEPT ![i] = doc]
            /\ doc \in Document /\ Edited /\ hand' = TRUE
            /\ UNCHANGED <<mode, up, cur, heap, remote, proc, taint>>
      BY <1>1, HandEditDoes
    <2>2. /\ dir' \in [path : Inodes \cup {NoFile}, tmp : Inodes \cup {NoFile}]
          /\ inode' \in [Inodes -> Document \cup {Torn}] /\ hand' \in BOOLEAN
      BY <2>1 DEF TypeInv, TypeOK
    <2>3. count' \in [requests : Nat, edits : Nat, crashes : Nat]
      BY <2>1, CountTyped
    <2> QED
      BY <2>1, <2>2, <2>3 DEF TypeInv, TypeOK, HoldsWell
  <1>2. CASE RemoteChanges
    <2>1. remote' \in Document
      BY <1>2, ConfigAssumption DEF RemoteChanges, KnownDocs
    <2>2. count' \in [requests : Nat, edits : Nat, crashes : Nat]
      BY <1>2, CountTyped DEF RemoteChanges
    <2> QED
      BY <1>2, <2>1, <2>2 DEF RemoteChanges, TypeInv, TypeOK, HoldsWell, files, memory
  <1>3. CASE Crash
    <2>1. proc' \in [Proc -> Locals] /\ \A p \in Proc : Holds(proc'[p]) /\ proc'[p].pc = "idle"
      BY <1>3, IdleIs DEF Crash
    <2>2. heap' \in [ArrayIds -> Seq(UserRecord)]
      BY <1>3, EmptySeq DEF Crash
    <2>3. cur' \in [arr : ArrayIds, rest : Rest \cup {NoDoc}] /\ up' = FALSE
      BY <1>3, Sizes DEF Crash
    <2>4. count' \in [requests : Nat, edits : Nat, crashes : Nat]
      <3>1. count \in [requests : Nat, edits : Nat, crashes : Nat]
        BY DEF TypeInv, TypeOK
      <3> QED
        BY <1>3, <3>1 DEF Crash
    <2>5. taint' \subseteq {"memory", "file"} /\ UNCHANGED <<mode, dir, inode, remote, hand>>
      BY <1>3 DEF Crash, TypeInv, TypeOK, files
    <2>6. TypeOK'
      BY <2>1, <2>2, <2>3, <2>4, <2>5 DEF TypeInv, TypeOK
    <2>7. HoldsWell'
      BY <2>1, <2>3, Procs DEF HoldsWell
    <2> QED
      BY <2>6, <2>7 DEF TypeInv
  <1>4. CASE Boot
    <2>1. PICK found \in Document :
            LET doc == LoadAppConfig(found) IN
            /\ doc.users \in Seq(UserRecord) /\ doc.rest \in Rest
            /\ cur' = [arr |-> 0, rest |-> doc.rest]
            /\ heap' = [heap EXCEPT ![0] = doc.users]
            /\ up' = TRUE /\ hand' = FALSE
            /\ UNCHANGED <<mode, dir, inode, remote, proc, taint, count>>
      BY <1>4, BootDoes
    <2>2. cur' \in [arr : ArrayIds, rest : Rest] /\ heap' \in [ArrayIds -> Seq(UserRecord)]
      BY <2>1, Sizes DEF TypeInv, TypeOK
    <2> QED
      BY <2>1, <2>2 DEF TypeInv, TypeOK, HoldsWell
  <1> QED
    BY <1>1, <1>2, <1>3, <1>4

LEMMA TypeStep == TypeInv /\ [Next]_vars => TypeInv'
  <1> SUFFICES ASSUME TypeInv, [Next]_vars PROVE TypeInv'
    OBVIOUS
  <1>1. CASE \E h \in Handler : \/ Read(h) \/ Edit(h) \/ ConfigPut(h)
                                \/ OpenTmp(h) \/ FillTmp(h) \/ Unlink(h) \/ Rename(h)
                                \/ ReloadFile(h)
    BY <1>1, ReadTyped, EditTyped, ConfigPutTyped, WriteTyped, ReloadTyped
  <1>2. CASE \E p \in Proc : Fetch(p) \/ RecordHash(p) \/ Store(p)
    BY <1>2, FetchTyped, HashTyped, StoreTyped
  <1>3. CASE HandEdit \/ RemoteChanges \/ Crash \/ Boot
    BY <1>3, EnvironmentTyped
  <1>4. CASE UNCHANGED vars
    BY <1>4 DEF vars, files, memory, TypeInv, TypeOK, HoldsWell
  <1> QED
    BY <1>1, <1>2, <1>3, <1>4 DEF Next

\* Types, for any number of requests under way at once: every file holds a
\* document or is being written, every user list is an array of its own or the
\* snapshot's, and what is on its way to the disk or to the snapshot was validated.
THEOREM TypeInvHolds == Spec => []TypeInv
  <1>1. Init => TypeInv
    BY TypeInit
  <1>2. TypeInv /\ [Next]_vars => TypeInv'
    BY TypeStep
  <1> QED
    BY <1>1, <1>2, PTL DEF Spec

-----------------------------------------------------------------------------
(***************************************************************************)
(* One writer at a time, whose renames succeed.  Two writers share the     *)
(* temporary name and take it from each other, and a rename that fails     *)
(* leaves no file under the path.                                          *)
(***************************************************************************)
OneWriter == RenameOutcomes = {"ok"} /\ \A g, h \in Handler : g = h

Writing == {"open", "fill", "unlink", "rename"}
OnPath == inode[dir.path]

\* The path has a whole document, or the writer is between unlink and rename and the
\* temporary name has it.
FileInv ==
  /\ dir.path # NoFile => OnPath # Torn /\ dir.path # dir.tmp
  /\ dir.path = NoFile =>
       /\ mode = "file" /\ dir.tmp # NoFile /\ inode[dir.tmp] # Torn
       /\ up => \E h \in Handler : proc[h].pc = "rename"
  /\ \A h \in Handler :
       /\ proc[h].pc \in Writing => mode = "file" /\ proc[h].edit \in {"inplace", "copy", "whole"}
       /\ proc[h].pc = "fill" => proc[h].fd = dir.tmp
       /\ proc[h].pc \in {"unlink", "rename"} => dir.tmp # NoFile /\ inode[dir.tmp] = proc[h].out
       /\ proc[h].pc = "rename" => dir.path = NoFile

\* A step between two uses of the files.
Aside(p, l) ==
  /\ up /\ Set(p, l)
  /\ proc[p].pc \in {"idle", "edit", "hash", "store"}
  /\ l.pc \in {"idle", "edit", "open", "hash", "store"}
  /\ l.pc = "open" => mode = "file" /\ l.edit \in {"inplace", "copy", "whole"}
  /\ UNCHANGED <<mode, up, dir, inode>>

LEMMA AsideSteps ==
  ASSUME TypeInv,
         \/ \E h \in Handler : Read(h) \/ Edit(h) \/ ConfigPut(h) \/ ReloadFile(h)
         \/ \E p \in Proc : Fetch(p) \/ RecordHash(p) \/ Store(p)
  PROVE  \E p \in Proc, l \in Locals : Aside(p, l)
  <1>1. ASSUME NEW h \in Handler, Read(h) PROVE \E p \in Proc, l \in Locals : Aside(p, l)
    <2> DEFINE l == [Idle EXCEPT !.pc = "edit", !.arr = cur.arr, !.rest = cur.rest]
    <2>1. up /\ Set(h, l) /\ proc[h].pc = "idle" /\ UNCHANGED <<mode, up, dir, inode>>
      BY <1>1 DEF Read, files
    <2>2. l \in Locals /\ l.pc = "edit"
      BY <2>1, Running, Sizes DEF Idle, Locals
    <2> HIDE DEF l
    <2> QED
      BY <2>1, <2>2, Procs DEF Aside
  <1>2. ASSUME NEW h \in Handler, Edit(h) PROVE \E p \in Proc, l \in Locals : Aside(p, l)
    <2>1. up /\ proc[h].pc = "edit" /\ UNCHANGED <<mode, up, dir, inode>>
      BY <1>2, EditDoes DEF files
    <2>2. ASSUME Set(h, Idle) PROVE \E p \in Proc, l \in Locals : Aside(p, l)
      BY <2>1, <2>2, IdleIs, Procs DEF Aside
    <2>3. ASSUME NEW doc \in Document, Accepted(h, doc),
                 NEW edit \in {"inplace", "copy", "whole"}, Set(h, Saving(doc, edit))
          PROVE  \E p \in Proc, l \in Locals : Aside(p, l)
      <3>1. Saving(doc, edit) \in Locals /\ Saving(doc, edit).pc = "open" /\ Saving(doc, edit).edit = edit
            /\ mode = "file"
        BY <2>3, SavingIs DEF Accepted
      <3> QED
        BY <2>1, <2>3, <3>1, Procs DEF Aside
    <2> QED
      BY <1>2, <2>2, <2>3, EditDoes DEF Kept, Copied, Written
  <1>3. ASSUME NEW h \in Handler, ConfigPut(h) PROVE \E p \in Proc, l \in Locals : Aside(p, l)
    <2>1. PICK doc \in Docs : doc \in Document /\ doc.versioned /\ Valid(doc) /\ Set(h, Saving(doc, "whole"))
      BY <1>3, ConfigPutDoes
    <2>2. Saving(doc, "whole") \in Locals /\ Saving(doc, "whole").pc = "open" /\ Saving(doc, "whole").edit = "whole"
      BY <2>1, SavingIs
    <2> QED
      BY <1>3, <2>1, <2>2, ConfigPutDoes, Procs DEF Aside
  <1>4. ASSUME NEW h \in Handler, ReloadFile(h) PROVE \E p \in Proc, l \in Locals : Aside(p, l)
    <2> DEFINE l == [Idle EXCEPT !.pc = "store", !.out = LoadAppConfig(OnDisk), !.edit = "load"]
    <2>1. up /\ Set(h, l) /\ proc[h].pc = "idle" /\ UNCHANGED <<mode, up, dir, inode>>
      BY <1>4 DEF ReloadFile, files
    <2>2. l \in Locals /\ l.pc = "store"
      BY <1>4, ReloadTyped, LoadedIs, ReadingIs DEF ReloadFile
    <2> HIDE DEF l
    <2> QED
      BY <2>1, <2>2, Procs DEF Aside
  <1>5. ASSUME NEW p \in Proc, Fetch(p) PROVE \E q \in Proc, l \in Locals : Aside(q, l)
    <2> DEFINE l == [Idle EXCEPT !.pc = "hash", !.out = remote, !.edit = "load"]
    <2>1. up /\ Set(p, l) /\ proc[p].pc = "idle" /\ UNCHANGED <<mode, up, dir, inode>>
      BY <1>5 DEF Fetch, files
    <2>2. l \in Locals /\ l.pc = "hash"
      BY <1>5, Running, ReadingIs DEF Fetch
    <2> HIDE DEF l
    <2> QED
      BY <2>1, <2>2 DEF Aside
  <1>6. ASSUME NEW p \in Proc, RecordHash(p) PROVE \E q \in Proc, l \in Locals : Aside(q, l)
    <2> DEFINE l == [proc[p] EXCEPT !.pc = "store", !.fd = NoFile]
    <2>1. up /\ proc[p].pc = "hash" /\ UNCHANGED <<mode, up, dir, inode>>
          /\ proc' = [proc EXCEPT ![p].pc = "store", ![p].fd = NoFile]
      BY <1>6 DEF RecordHash, At, Goto, files
    <2>2. l \in Locals /\ Set(p, l)
      BY <2>1, Onward
    <2>3. proc[p] \in Locals
      BY DEF TypeInv, TypeOK
    <2>4. l.pc = "store"
      BY <2>3 DEF Locals
    <2> HIDE DEF l
    <2> QED
      BY <2>1, <2>2, <2>4 DEF Aside
  <1>7. ASSUME NEW p \in Proc, Store(p) PROVE \E q \in Proc, l \in Locals : Aside(q, l)
    <2>1. up /\ proc[p].pc = "store" /\ Set(p, Idle) /\ UNCHANGED <<mode, up, dir, inode>>
      BY <1>7 DEF Store, At, files
    <2> QED
      BY <2>1, IdleIs DEF Aside
  <1> QED
    BY <1>1, <1>2, <1>3, <1>4, <1>5, <1>6, <1>7

LEMMA SetLocals ==
  ASSUME TypeInv, NEW p \in Proc, NEW l, Set(p, l)
  PROVE  proc'[p] = l /\ \A q \in Proc : q # p => proc'[q] = proc[q]
  BY DEF TypeInv, TypeOK, Set

LEMMA FileAside ==
  ASSUME TypeInv, FileInv, NEW p \in Proc, NEW l, Aside(p, l)
  PROVE  FileInv'
  <1>1. proc'[p] = l /\ \A q \in Proc : q # p => proc'[q] = proc[q]
    BY SetLocals DEF Aside
  <1>2. UNCHANGED <<mode, up, dir, inode>> /\ proc[p].pc # "rename"
        /\ l.pc \notin {"fill", "unlink", "rename"}
        /\ (l.pc = "open" => mode = "file" /\ l.edit \in {"inplace", "copy", "whole"})
    BY DEF Aside
  <1>3. ASSUME NEW h \in Handler
        PROVE  /\ proc'[h].pc \in Writing => mode' = "file" /\ proc'[h].edit \in {"inplace", "copy", "whole"}
               /\ proc'[h].pc = "fill" => proc'[h].fd = dir'.tmp
               /\ proc'[h].pc \in {"unlink", "rename"} => dir'.tmp # NoFile /\ inode'[dir'.tmp] = proc'[h].out
               /\ proc'[h].pc = "rename" => dir'.path = NoFile
    <2>1. CASE h = p
      BY <1>1, <1>2, <2>1 DEF Writing
    <2>2. CASE h # p
      BY <1>1, <1>2, <2>2, Procs DEF FileInv
    <2> QED
      BY <2>1, <2>2
  <1>4. \A h \in Handler : proc[h].pc = "rename" => proc'[h].pc = "rename"
    BY <1>1, <1>2, Procs
  <1> QED
    BY <1>2, <1>3, <1>4 DEF FileInv, OnPath

LEMMA FileWrites ==
  ASSUME TypeInv, FileInv, OneWriter, NEW h \in Handler,
         OpenTmp(h) \/ FillTmp(h) \/ Unlink(h) \/ Rename(h)
  PROVE  FileInv'
  <1>1. h \in Proc /\ \A g \in Handler : g = h
    BY Procs DEF OneWriter
  <1>2. up /\ GoesOn
    BY OpenTmpDoes, FillTmpDoes, UnlinkDoes, RenameDoes
  <1>3. UNCHANGED <<mode, up>>
    BY <1>2 DEF GoesOn
  <1>4. /\ dir \in [path : Inodes \cup {NoFile}, tmp : Inodes \cup {NoFile}]
        /\ inode \in [Inodes -> Document \cup {Torn}] /\ NoFile \notin Inodes
    BY <1>2, Running, Sizes
  <1>5. CASE OpenTmp(h)
    <2>1. PICK i \in Inodes, l \in Locals :
            /\ i = dir.tmp \/ (dir.tmp = NoFile /\ i \notin UsedInodes)
            /\ dir' = [dir EXCEPT !.tmp = i] /\ inode' = [inode EXCEPT ![i] = Torn]
            /\ Continues(h, l, "fill") /\ l.fd = i /\ proc[h].pc = "open"
      BY <1>5, OpenTmpDoes
    <2>2. dir.path # NoFile
      BY <1>1, <1>2, <2>1 DEF FileInv
    <2>3. i # dir.path
      BY <2>1, <2>2 DEF FileInv, UsedInodes
    <2>4. dir'.path = dir.path /\ dir'.tmp = i /\ inode'[dir.path] = inode[dir.path]
      BY <1>4, <2>1, <2>2, <2>3
    <2>5. proc'[h] = l /\ l.pc = "fill" /\ l.edit = proc[h].edit
      BY <1>1, <2>1, SetLocals DEF Continues
    <2>6. mode = "file" /\ proc[h].edit \in {"inplace", "copy", "whole"}
      BY <2>1 DEF FileInv, Writing
    <2> QED
      BY <1>1, <1>3, <2>1, <2>2, <2>3, <2>4, <2>5, <2>6 DEF FileInv, OnPath
  <1>6. CASE FillTmp(h)
    <2>1. /\ proc[h].pc = "fill" /\ UNCHANGED dir
          /\ proc[h].fd \in Inodes /\ proc[h].out \in Document
          /\ \/ /\ inode' = [inode EXCEPT ![proc[h].fd] = proc[h].out]
                /\ \E l \in Locals : Continues(h, l, "unlink")
             \/ Refused(h) /\ UNCHANGED inode
      BY <1>6, FillTmpDoes
    <2>2. /\ mode = "file" /\ proc[h].edit \in {"inplace", "copy", "whole"}
          /\ dir.tmp = proc[h].fd /\ dir.path # NoFile /\ dir.path # dir.tmp
      BY <1>1, <1>2, <2>1 DEF FileInv, Writing
    <2>3. CASE /\ inode' = [inode EXCEPT ![proc[h].fd] = proc[h].out]
               /\ \E l \in Locals : Continues(h, l, "unlink")
      <3>1. proc'[h].pc = "unlink" /\ proc'[h].out = proc[h].out /\ proc'[h].edit = proc[h].edit
        BY <1>1, <2>3, SetLocals DEF Continues
      <3>2. inode'[dir.path] = inode[dir.path] /\ inode'[dir.tmp] = proc[h].out
        BY <1>4, <2>1, <2>2, <2>3
      <3> QED
        BY <1>1, <1>3, <1>4, <2>1, <2>2, <3>1, <3>2 DEF FileInv, OnPath
    <2>4. CASE Refused(h) /\ UNCHANGED inode
      <3>1. proc'[h] = Idle /\ Idle.pc = "idle"
        BY <1>1, <2>4, SetLocals, IdleIs DEF Refused
      <3> QED
        BY <1>1, <1>3, <2>1, <2>2, <2>4, <3>1 DEF FileInv, OnPath, Writing
    <2> QED
      BY <2>1, <2>3, <2>4
  <1>7. CASE Unlink(h)
    <2>1. PICK l \in Locals :
            /\ proc[h].pc = "unlink" /\ UNCHANGED inode
            /\ dir' = [dir EXCEPT !.path = NoFile] /\ Continues(h, l, "rename")
      BY <1>7, UnlinkDoes
    <2>2. proc'[h].pc = "rename" /\ proc'[h].out = proc[h].out /\ proc'[h].edit = proc[h].edit
      BY <1>1, <2>1, SetLocals DEF Continues
    <2>3. /\ mode = "file" /\ proc[h].edit \in {"inplace", "copy", "whole"}
          /\ dir.tmp # NoFile /\ inode[dir.tmp] = proc[h].out
      BY <2>1 DEF FileInv, Writing
    <2>4. proc[h].out # Torn
      BY <1>1, <2>1, ConfigAssumption DEF TypeInv, HoldsWell, Holds
    <2>5. dir'.path = NoFile /\ dir'.tmp = dir.tmp
      BY <1>4, <2>1
    <2> QED
      BY <1>1, <1>3, <2>1, <2>2, <2>3, <2>4, <2>5 DEF FileInv, OnPath
  <1>8. CASE Rename(h)
    <2>1. /\ proc[h].pc = "rename" /\ UNCHANGED inode
          /\ \/ /\ dir.tmp # NoFile /\ dir' = [path |-> dir.tmp, tmp |-> NoFile]
                /\ \E l \in Locals : Continues(h, l, "store")
             \/ RenameOutcomes # {"ok"} \/ dir.tmp = NoFile
      BY <1>8, RenameDoes
    <2>2. dir.tmp # NoFile /\ dir.path = NoFile /\ inode[dir.tmp] # Torn
      BY <2>1 DEF FileInv
    <2>3. PICK l \in Locals : dir' = [path |-> dir.tmp, tmp |-> NoFile] /\ Continues(h, l, "store")
      BY <2>1, <2>2 DEF OneWriter
    <2>4. proc'[h].pc = "store"
      BY <1>1, <2>3, SetLocals DEF Continues
    <2>5. dir'.path = dir.tmp /\ dir'.tmp = NoFile
      BY <2>3
    <2> QED
      BY <1>1, <1>3, <2>1, <2>2, <2>4, <2>5 DEF FileInv, OnPath, Writing
  <1> QED
    BY <1>5, <1>6, <1>7, <1>8

LEMMA FileEnvironment ==
  ASSUME TypeInv, FileInv, HandEdit \/ RemoteChanges \/ Crash \/ Boot
  PROVE  FileInv'
  <1>1. CASE HandEdit
    <2>1. PICK i \in Inodes, doc \in Docs :
            /\ dir' = [dir EXCEPT !.path = i] /\ inode' = [inode EXCEPT ![i] = doc]
            /\ i = dir.path \/ (dir.path = NoFile /\ i # dir.tmp)
            /\ doc \in Document
            /\ mode = "file" /\ Quiet
            /\ UNCHANGED <<mode, up, proc>>
      BY <1>1, HandEditDoes
    <2>2. /\ dir \in [path : Inodes \cup {NoFile}, tmp : Inodes \cup {NoFile}]
          /\ inode \in [Inodes -> Document \cup {Torn}] /\ NoFile \notin Inodes /\ Torn \notin Document
      BY Sizes, ConfigAssumption DEF TypeInv, TypeOK
    <2>3. dir'.path = i /\ dir'.tmp = dir.tmp /\ inode'[i] = doc
      BY <2>1, <2>2
    <2>4. i # dir.tmp
      BY <2>1, <2>2 DEF FileInv
    <2>5. \A h \in Handler : proc[h].pc = "idle"
      BY <2>1, Procs DEF Quiet
    <2> QED
      BY <2>1, <2>2, <2>3, <2>4, <2>5 DEF FileInv, OnPath, Writing
  <1>2. CASE RemoteChanges
    BY <1>2 DEF RemoteChanges, FileInv, OnPath, files
  <1>3. CASE Crash
    <2>1. \A h \in Handler : proc'[h].pc = "idle"
      BY <1>3, Procs, IdleIs DEF Crash
    <2> QED
      BY <1>3, <2>1 DEF Crash, FileInv, OnPath, Writing, files
  <1>4. CASE Boot
    <2>1. /\ mode = "file" => dir.path # NoFile
          /\ UNCHANGED <<mode, dir, inode, proc>>
      BY <1>4, BootDoes
    <2> QED
      BY <2>1 DEF FileInv, OnPath
  <1> QED
    BY <1>1, <1>2, <1>3, <1>4

LEMMA FileStep == TypeInv /\ FileInv /\ OneWriter /\ [Next]_vars => FileInv'
  <1> SUFFICES ASSUME TypeInv, FileInv, OneWriter, [Next]_vars PROVE FileInv'
    OBVIOUS
  <1>1. CASE \/ \E h \in Handler : Read(h) \/ Edit(h) \/ ConfigPut(h) \/ ReloadFile(h)
             \/ \E p \in Proc : Fetch(p) \/ RecordHash(p) \/ Store(p)
    BY <1>1, AsideSteps, FileAside
  <1>2. CASE \E h \in Handler : OpenTmp(h) \/ FillTmp(h) \/ Unlink(h) \/ Rename(h)
    BY <1>2, FileWrites
  <1>3. CASE HandEdit \/ RemoteChanges \/ Crash \/ Boot
    BY <1>3, FileEnvironment
  <1>4. CASE UNCHANGED vars
    BY <1>4 DEF vars, files, FileInv, OnPath
  <1> QED
    BY <1>1, <1>2, <1>3, <1>4 DEF Next

LEMMA FileInit == Init => FileInv
  <1> SUFFICES ASSUME Init PROVE FileInv
    OBVIOUS
  <1>1. dir.path = 0 /\ dir.tmp = NoFile /\ 0 # NoFile /\ inode[0] = FirstDoc /\ FirstDoc # Torn
    BY Sizes, ConfigAssumption DEF Init, KnownDocs
  <1>2. \A h \in Handler : proc[h].pc = "idle"
    BY IdleIs, Procs DEF Init
  <1> QED
    BY <1>1, <1>2 DEF FileInv, OnPath, Writing

LEMMA FileInvHolds == OneWriter => (Spec => [](TypeInv /\ FileInv))
  <1> SUFFICES ASSUME OneWriter PROVE Spec => [](TypeInv /\ FileInv)
    OBVIOUS
  <1>1. Init => FileInv
    BY FileInit
  <1>2. TypeInv /\ FileInv /\ [Next]_vars => FileInv'
    BY FileStep
  <1> QED
    BY <1>1, <1>2, TypeInvHolds, PTL DEF Spec

\* Whenever the process dies, the configuration is whole under one of its two names
\* (writeFileAtomic), as long as one request writes at a time and the rename that
\* follows the unlink succeeds.
THEOREM FileIsWholeHolds == OneWriter => (Spec => []FileIsWhole)
  <1> SUFFICES ASSUME OneWriter PROVE Spec => []FileIsWhole
    OBVIOUS
  <1>1. FileInv => FileIsWhole
    BY DEF FileInv, FileIsWhole, OnPath
  <1> QED
    BY <1>1, FileInvHolds, PTL

-----------------------------------------------------------------------------
(***************************************************************************)
(* The snapshot and the file.                                              *)
(***************************************************************************)
\* The handler has not yet made the snapshot and the file differ.
Saved(h) ==
  \/ proc[h].pc \in {"idle", "edit"}
  \/ proc[h].pc \in {"open", "fill", "unlink"} /\ proc[h].edit # "inplace"

MemInv ==
  mode = "file" =>
    /\ proc[Poller].pc = "idle"
    /\ \A h \in Handler :
         /\ proc[h].pc # "hash"
         /\ proc[h].pc = "edit" => proc[h].arr = cur.arr /\ proc[h].rest = cur.rest
         /\ proc[h].pc = "store" => dir.path # NoFile /\ LoadAppConfig(OnPath) = proc[h].out
    /\ up /\ ~hand /\ "memory" \notin taint /\ (\A h \in Handler : Saved(h)) =>
         LoadAppConfig(OnPath) = Current

\* The snapshot of a document is the document.
LEMMA SnapshotOf ==
  ASSUME NEW doc \in Document, doc.versioned, NEW a, NEW arrays, arrays[a] = doc.users
  PROVE  [users |-> arrays[a], versioned |-> TRUE, rest |-> doc.rest] = doc
  BY DEF Document

LEMMA MemAside ==
  ASSUME TypeInv, MemInv, OneWriter, mode = "file",
         \/ \E h \in Handler : Read(h) \/ Edit(h) \/ ConfigPut(h) \/ ReloadFile(h)
         \/ \E p \in Proc : Fetch(p) \/ RecordHash(p) \/ Store(p)
  PROVE  MemInv'
  <1>1. ASSUME NEW p \in Proc, proc[p].pc # "idle" PROVE p \in Handler /\ proc[p].pc # "hash"
    BY <1>1, Procs DEF MemInv
  <1>2. ASSUME NEW h \in Handler, NEW l, Set(h, l)
        PROVE  /\ proc'[h] = l /\ proc'[Poller].pc = "idle" /\ \A g \in Handler : g = h
               /\ Snapshot(h) = heap[proc[h].arr]
    BY <1>2, SetLocals, Procs, ConfigAssumption DEF MemInv, OneWriter, Snapshot
  <1>3. ASSUME NEW h \in Handler, Read(h) PROVE MemInv'
    <2> DEFINE l == [Idle EXCEPT !.pc = "edit", !.arr = cur.arr, !.rest = cur.rest]
    <2>1. /\ Set(h, l) /\ proc[h].pc = "idle"
          /\ UNCHANGED <<mode, up, dir, inode, cur, heap, hand, taint>>
      BY <1>3 DEF Read, files, memory
    <2>2. l.pc = "edit" /\ l.arr = cur.arr /\ l.rest = cur.rest
      BY DEF Idle
    <2> HIDE DEF l
    <2>3. proc'[h] = l /\ proc'[Poller].pc = "idle" /\ \A g \in Handler : g = h
      BY <1>2, <2>1
    <2>4. \A g \in Handler : Saved(g)
      BY <2>1, <2>3 DEF Saved
    <2> QED
      BY <2>1, <2>2, <2>3, <2>4 DEF MemInv, OnPath, Current
  <1>4. ASSUME NEW h \in Handler, Edit(h) PROVE MemInv'
    <2>1. proc[h].pc = "edit" /\ UNCHANGED <<mode, up, dir, inode, cur, hand>>
      BY <1>4, EditDoes DEF files
    <2>2. ASSUME NEW l, Set(h, l), l.pc \in {"idle", "open"}, UNCHANGED <<heap, taint>>
          PROVE  MemInv'
      <3>1. proc'[h] = l /\ proc'[Poller].pc = "idle" /\ \A g \in Handler : g = h
        BY <1>2, <2>2
      <3>2. \A g \in Handler : Saved(g)
        BY <2>1, <3>1 DEF Saved
      <3> QED
        BY <2>1, <2>2, <3>1, <3>2 DEF MemInv, OnPath, Current
    <2>3. CASE Kept(h)
      BY <2>2, <2>3, IdleIs DEF Kept
    <2>4. CASE Copied(h)
      <3>1. PICK doc \in Document : Accepted(h, doc) /\ Set(h, Saving(doc, "copy")) /\ UNCHANGED <<heap, taint>>
        BY <2>4 DEF Copied
      <3>2. Saving(doc, "copy").pc = "open"
        BY <3>1, SavingIs DEF Accepted
      <3> QED
        BY <2>2, <3>1, <3>2
    <2>5. CASE Written(h)
      <3>1. CASE Set(h, Idle) /\ taint' = taint \cup {"memory"}
        <4>1. proc'[h] = Idle /\ proc'[Poller].pc = "idle" /\ \A g \in Handler : g = h
          BY <1>2, <3>1
        <4> QED
          BY <2>1, <3>1, <4>1, IdleIs DEF MemInv
      <3>2. CASE \E doc \in Document : Accepted(h, doc) /\ Set(h, Saving(doc, "inplace"))
        <4>1. PICK doc \in Document : Accepted(h, doc) /\ Set(h, Saving(doc, "inplace"))
          BY <3>2
        <4>2. Saving(doc, "inplace").pc = "open" /\ Saving(doc, "inplace").edit = "inplace"
          BY <4>1, SavingIs DEF Accepted
        <4>3. proc'[h] = Saving(doc, "inplace") /\ proc'[Poller].pc = "idle" /\ \A g \in Handler : g = h
          BY <1>2, <4>1
        <4>4. ~Saved(h)'
          BY <4>2, <4>3 DEF Saved
        <4> QED
          BY <2>1, <4>2, <4>3, <4>4 DEF MemInv
      <3> QED
        BY <2>5, <3>1, <3>2 DEF Written
    <2> QED
      BY <1>4, <2>3, <2>4, <2>5, EditDoes
  <1>5. ASSUME NEW h \in Handler, ConfigPut(h) PROVE MemInv'
    <2>1. PICK doc \in Docs :
            /\ doc \in Document /\ doc.versioned /\ Valid(doc) /\ Set(h, Saving(doc, "whole"))
            /\ proc[h].pc = "idle" /\ UNCHANGED <<mode, up, dir, inode, cur, heap, hand, taint>>
      BY <1>5, ConfigPutDoes
    <2>2. Saving(doc, "whole").pc = "open"
      BY <2>1, SavingIs
    <2>3. proc'[h] = Saving(doc, "whole") /\ proc'[Poller].pc = "idle" /\ \A g \in Handler : g = h
      BY <1>2, <2>1
    <2>4. \A g \in Handler : Saved(g)
      BY <2>1, <2>3 DEF Saved
    <2> QED
      BY <2>1, <2>2, <2>3, <2>4 DEF MemInv, OnPath, Current
  <1>6. ASSUME NEW h \in Handler, ReloadFile(h) PROVE MemInv'
    <2> DEFINE l == [Idle EXCEPT !.pc = "store", !.out = LoadAppConfig(OnDisk), !.edit = "load"]
    <2>1. Set(h, l) /\ UNCHANGED <<mode, up, dir, inode, cur, heap, hand, taint>>
      BY <1>6 DEF ReloadFile, files, memory
    <2>2. l.pc = "store" /\ l.out = LoadAppConfig(OnDisk)
      BY DEF Idle
    <2>3. dir.path # NoFile /\ OnDisk = OnPath
      BY <1>6, ReloadTyped DEF OnPath
    <2> HIDE DEF l
    <2>4. proc'[h] = l /\ proc'[Poller].pc = "idle" /\ \A g \in Handler : g = h
      BY <1>2, <2>1
    <2>5. ~Saved(h)' /\ UNCHANGED OnPath
      BY <2>1, <2>2, <2>4 DEF Saved, OnPath
    <2> QED
      BY <2>1, <2>2, <2>3, <2>4, <2>5 DEF MemInv
  <1>7. ASSUME NEW p \in Proc, Fetch(p) \/ RecordHash(p) PROVE FALSE
    BY <1>1, <1>7, FetchTyped DEF RecordHash, At
  <1>8. ASSUME NEW p \in Proc, Store(p) PROVE MemInv'
    <2>1. PICK fresh \in ArrayIds \ LiveArrays :
            /\ proc[p].pc = "store"
            /\ cur' = [arr |-> fresh, rest |-> proc[p].out.rest]
            /\ heap'[fresh] = proc[p].out.users
            /\ proc[p].out \in Document /\ proc[p].out.versioned
            /\ Set(p, Idle) /\ UNCHANGED <<mode, up, dir, inode>>
      BY <1>8, StoreDoes
    <2>2. p \in Handler
      BY <1>1, <2>1
    <2>3. proc'[p] = Idle /\ proc'[Poller].pc = "idle" /\ \A g \in Handler : g = p
      BY <1>2, <2>1, <2>2
    <2>4. Current' = proc[p].out
      <3>1. [users |-> heap'[fresh], versioned |-> TRUE, rest |-> proc[p].out.rest] = proc[p].out
        BY <2>1, SnapshotOf
      <3> QED
        BY <2>1, <3>1 DEF Current
    <2>5. LoadAppConfig(OnPath') = proc[p].out
      BY <2>1, <2>2 DEF MemInv, OnPath
    <2> QED
      BY <2>1, <2>3, <2>4, <2>5, IdleIs DEF MemInv
  <1> QED
    BY <1>3, <1>4, <1>5, <1>6, <1>7, <1>8

\* What the writer does to the file that has the path, and the locals it has then.
LEMMA WriterSteps ==
  ASSUME TypeInv, FileInv, OneWriter, NEW h \in Handler,
         OpenTmp(h) \/ FillTmp(h) \/ Unlink(h) \/ Rename(h)
  PROVE  /\ \A g \in Handler : g = h
         /\ up /\ mode = "file" /\ UNCHANGED <<mode, up, cur, heap, hand>>
         /\ UNCHANGED proc[Poller]
         /\ \/ /\ UNCHANGED <<OnPath, taint, dir.path>>
               /\ <<proc[h].pc, proc'[h].pc>> \in {<<"open", "fill">>, <<"fill", "unlink">>}
               /\ proc'[h].out = proc[h].out /\ proc'[h].edit = proc[h].edit
            \/ /\ UNCHANGED <<OnPath, dir.path>> /\ Refused(h) /\ proc'[h] = Idle
               /\ proc[h].pc = "fill"
            \/ /\ dir'.path = NoFile /\ UNCHANGED taint
               /\ proc[h].pc = "unlink" /\ proc'[h].pc = "rename"
               /\ proc'[h].out = proc[h].out /\ proc'[h].edit = proc[h].edit
            \/ /\ dir'.path # NoFile /\ OnPath' = proc[h].out
               /\ taint' = IF proc[h].edit = "whole" THEN taint \ {"file"}
                           ELSE IF taint # {} THEN taint \cup {"file"} ELSE taint
               /\ proc[h].pc = "rename" /\ proc'[h].pc = "store"
               /\ proc'[h].out = proc[h].out
               /\ proc[h].out \in Document /\ proc[h].out.versioned
  <1>1. h \in Proc /\ h # Poller /\ \A g \in Handler : g = h
    BY Procs, ConfigAssumption DEF OneWriter
  <1>2. up /\ GoesOn /\ proc[h].pc \in Writing
    BY OpenTmpDoes, FillTmpDoes, UnlinkDoes, RenameDoes DEF Writing
  <1>3. mode = "file" /\ UNCHANGED <<mode, up, cur, heap, hand>>
    BY <1>2 DEF GoesOn, FileInv
  <1>4. /\ dir \in [path : Inodes \cup {NoFile}, tmp : Inodes \cup {NoFile}]
        /\ inode \in [Inodes -> Document \cup {Torn}] /\ NoFile \notin Inodes
    BY <1>2, Running, Sizes
  <1>5. ASSUME NEW l, Set(h, l) PROVE proc'[h] = l /\ UNCHANGED proc[Poller]
    BY <1>1, <1>5, SetLocals, Procs
  <1>6. ASSUME NEW l, NEW pc, Continues(h, l, pc)
        PROVE  /\ proc'[h].pc = pc /\ proc'[h].out = proc[h].out /\ proc'[h].edit = proc[h].edit
               /\ UNCHANGED proc[Poller]
    BY <1>5, <1>6 DEF Continues
  <1>7. CASE OpenTmp(h)
    <2>1. PICK i \in Inodes, l \in Locals :
            /\ i = dir.tmp \/ (dir.tmp = NoFile /\ i \notin UsedInodes)
            /\ dir' = [dir EXCEPT !.tmp = i] /\ inode' = [inode EXCEPT ![i] = Torn]
            /\ Continues(h, l, "fill") /\ proc[h].pc = "open" /\ UNCHANGED taint
      BY <1>7, OpenTmpDoes
    <2>2. dir.path # NoFile
      BY <1>1, <1>2, <2>1 DEF FileInv
    <2>3. i # dir.path
      BY <2>1, <2>2 DEF FileInv, UsedInodes
    <2>4. UNCHANGED <<OnPath, dir.path>>
      BY <1>4, <2>1, <2>2, <2>3 DEF OnPath
    <2> QED
      BY <1>1, <1>2, <1>3, <1>6, <2>1, <2>4
  <1>8. CASE FillTmp(h)
    <2>1. /\ proc[h].pc = "fill" /\ UNCHANGED dir
          /\ \/ /\ inode' = [inode EXCEPT ![proc[h].fd] = proc[h].out] /\ UNCHANGED taint
                /\ \E l \in Locals : Continues(h, l, "unlink")
             \/ Refused(h) /\ UNCHANGED inode
      BY <1>8, FillTmpDoes
    <2>2. dir.tmp = proc[h].fd /\ dir.path # NoFile /\ dir.path # dir.tmp
      BY <1>1, <1>2, <2>1 DEF FileInv
    <2>3. UNCHANGED <<OnPath, dir.path>>
      BY <1>4, <2>1, <2>2 DEF OnPath
    <2>4. CASE Refused(h)
      <3>1. proc'[h] = Idle /\ UNCHANGED proc[Poller]
        BY <1>5, <2>4 DEF Refused
      <3> QED
        BY <1>1, <1>2, <1>3, <2>1, <2>3, <2>4, <3>1
    <2>5. CASE UNCHANGED taint /\ \E l \in Locals : Continues(h, l, "unlink")
      BY <1>1, <1>2, <1>3, <1>6, <2>1, <2>3, <2>5
    <2> QED
      BY <2>1, <2>4, <2>5
  <1>9. CASE Unlink(h)
    <2>1. /\ proc[h].pc = "unlink" /\ UNCHANGED taint /\ dir' = [dir EXCEPT !.path = NoFile]
          /\ \E l \in Locals : Continues(h, l, "rename")
      BY <1>9, UnlinkDoes
    <2>2. dir'.path = NoFile
      BY <1>4, <2>1
    <2> QED
      BY <1>1, <1>2, <1>3, <1>6, <2>1, <2>2
  <1>10. CASE Rename(h)
    <2>1. /\ proc[h].pc = "rename" /\ UNCHANGED inode
          /\ \/ /\ dir.tmp # NoFile /\ dir' = [path |-> dir.tmp, tmp |-> NoFile]
                /\ taint' = IF proc[h].edit = "whole" THEN taint \ {"file"}
                            ELSE IF taint # {} THEN taint \cup {"file"} ELSE taint
                /\ \E l \in Locals : Continues(h, l, "store")
             \/ RenameOutcomes # {"ok"} \/ dir.tmp = NoFile
      BY <1>10, RenameDoes
    <2>2. dir.tmp # NoFile /\ inode[dir.tmp] = proc[h].out
      BY <2>1 DEF FileInv
    <2>3. PICK l \in Locals :
            /\ dir' = [path |-> dir.tmp, tmp |-> NoFile]
            /\ taint' = IF proc[h].edit = "whole" THEN taint \ {"file"}
                        ELSE IF taint # {} THEN taint \cup {"file"} ELSE taint
            /\ Continues(h, l, "store")
      BY <2>1, <2>2 DEF OneWriter
    <2>4. dir'.path # NoFile /\ OnPath' = proc[h].out
      BY <2>1, <2>2, <2>3 DEF OnPath
    <2>5. proc[h].out \in Document /\ proc[h].out.versioned
      BY <1>1, <2>1 DEF TypeInv, HoldsWell, Holds
    <2> QED
      BY <1>1, <1>2, <1>3, <1>6, <2>1, <2>3, <2>4, <2>5
  <1> QED
    BY <1>7, <1>8, <1>9, <1>10

LEMMA MemWrites ==
  ASSUME TypeInv, FileInv, MemInv, OneWriter, NEW h \in Handler,
         OpenTmp(h) \/ FillTmp(h) \/ Unlink(h) \/ Rename(h)
  PROVE  MemInv'
  <1>1. /\ \A g \in Handler : g = h
        /\ mode = "file" /\ UNCHANGED <<mode, up, cur, heap, hand>>
        /\ UNCHANGED proc[Poller] /\ UNCHANGED Current
    BY WriterSteps DEF Current
  <1>2. CASE /\ UNCHANGED <<OnPath, taint>>
             /\ <<proc[h].pc, proc'[h].pc>> \in {<<"open", "fill">>, <<"fill", "unlink">>}
             /\ proc'[h].edit = proc[h].edit
    <2>1. proc'[h].pc \in {"fill", "unlink"} /\ (Saved(h)' => Saved(h))
      BY <1>2 DEF Saved
    <2> QED
      BY <1>1, <1>2, <2>1 DEF MemInv
  <1>3. CASE UNCHANGED OnPath /\ Refused(h) /\ proc'[h] = Idle /\ proc[h].pc = "fill"
    <2>1. proc'[h].pc = "idle"
      BY <1>3, IdleIs
    <2>2. "memory" \notin taint' => "memory" \notin taint /\ Saved(h)
      BY <1>3 DEF Refused, Saved
    <2> QED
      BY <1>1, <1>3, <2>1, <2>2 DEF MemInv
  <1>4. CASE proc'[h].pc = "rename"
    BY <1>1, <1>4 DEF MemInv, Saved
  <1>5. CASE /\ dir'.path # NoFile /\ OnPath' = proc[h].out
             /\ proc'[h].pc = "store" /\ proc'[h].out = proc[h].out
             /\ proc[h].out \in Document /\ proc[h].out.versioned
    <2>1. LoadAppConfig(OnPath') = proc'[h].out
      BY <1>5, LoadedIs
    <2>2. ~Saved(h)'
      BY <1>5 DEF Saved
    <2> QED
      BY <1>1, <1>5, <2>1, <2>2 DEF MemInv
  <1> QED
    BY <1>2, <1>3, <1>4, <1>5, WriterSteps

LEMMA MemEnvironment ==
  ASSUME TypeInv, FileInv, MemInv, mode = "file", HandEdit \/ RemoteChanges \/ Crash \/ Boot
  PROVE  MemInv'
  <1>1. CASE HandEdit
    <2>1. Quiet /\ hand' = TRUE /\ UNCHANGED <<mode, proc>>
      BY <1>1, HandEditDoes
    <2> QED
      BY <2>1, Procs DEF Quiet, MemInv
  <1>2. ~RemoteChanges
    BY DEF RemoteChanges
  <1>3. CASE Crash
    <2>1. up' = FALSE /\ \A p \in Proc : proc'[p].pc = "idle"
      BY <1>3, IdleIs DEF Crash
    <2> QED
      BY <2>1, Procs DEF MemInv
  <1>4. CASE Boot
    <2>1. PICK found \in Document :
            /\ found = inode[dir.path]
            /\ cur' = [arr |-> 0, rest |-> LoadAppConfig(found).rest]
            /\ heap' = [heap EXCEPT ![0] = LoadAppConfig(found).users]
            /\ ~up /\ UNCHANGED <<mode, dir, inode, proc>>
      BY <1>4, BootDoes
    <2>2. \A p \in Proc : proc[p].pc = "idle"
      BY <2>1 DEF TypeInv, HoldsWell
    <2>3. heap'[0] = LoadAppConfig(found).users
      BY <2>1, Sizes DEF TypeInv, TypeOK
    <2>4. [users |-> heap'[0], versioned |-> TRUE, rest |-> LoadAppConfig(found).rest] = LoadAppConfig(found)
      BY <2>3, LoadedIs, SnapshotOf
    <2>5. Current' = LoadAppConfig(found) /\ OnPath' = found
      BY <2>1, <2>4 DEF Current, OnPath
    <2> QED
      BY <2>1, <2>2, <2>5, Procs DEF MemInv
  <1> QED
    BY <1>1, <1>2, <1>3, <1>4

LEMMA ModeStays ==
  ASSUME TypeInv, [Next]_vars
  PROVE  UNCHANGED mode
  <1>1. ASSUME NEW h \in Handler, OpenTmp(h) \/ FillTmp(h) \/ Unlink(h) \/ Rename(h)
        PROVE  UNCHANGED mode
    BY <1>1 DEF OpenTmp, FillTmp, Unlink, Rename
  <1>2. ASSUME \/ \E h \in Handler : Read(h) \/ Edit(h) \/ ConfigPut(h) \/ ReloadFile(h)
               \/ \E p \in Proc : Fetch(p) \/ RecordHash(p) \/ Store(p)
        PROVE  UNCHANGED mode
    BY <1>2 DEF Read, Edit, ConfigPut, ReloadFile, Fetch, RecordHash, Store
  <1>3. ASSUME HandEdit \/ RemoteChanges \/ Crash \/ Boot PROVE UNCHANGED mode
    BY <1>3 DEF HandEdit, RemoteChanges, Crash, Boot
  <1> QED
    BY <1>1, <1>2, <1>3 DEF Next, vars

LEMMA MemStep == TypeInv /\ FileInv /\ MemInv /\ OneWriter /\ [Next]_vars => MemInv'
  <1> SUFFICES ASSUME TypeInv, FileInv, MemInv, OneWriter, [Next]_vars PROVE MemInv'
    OBVIOUS
  <1>1. CASE mode # "file"
    BY <1>1, ModeStays DEF MemInv
  <1>2. CASE mode = "file" /\ \/ \E h \in Handler : Read(h) \/ Edit(h) \/ ConfigPut(h) \/ ReloadFile(h)
                              \/ \E p \in Proc : Fetch(p) \/ RecordHash(p) \/ Store(p)
    BY <1>2, MemAside
  <1>3. CASE \E h \in Handler : OpenTmp(h) \/ FillTmp(h) \/ Unlink(h) \/ Rename(h)
    BY <1>3, MemWrites
  <1>4. CASE mode = "file" /\ (HandEdit \/ RemoteChanges \/ Crash \/ Boot)
    BY <1>4, MemEnvironment
  <1>5. CASE UNCHANGED vars
    BY <1>5 DEF vars, files, memory, MemInv, OnPath, Saved, Current
  <1> QED
    BY <1>1, <1>2, <1>3, <1>4, <1>5 DEF Next

LEMMA MemInit == Init => MemInv
  <1> SUFFICES ASSUME Init PROVE MemInv
    OBVIOUS
  <1>1. \A p \in Proc : proc[p].pc = "idle"
    BY IdleIs DEF Init
  <1>2. FirstDoc \in Document /\ FirstDoc.versioned
    BY ConfigAssumption, FirstDocAssumption DEF KnownDocs
  <1>3. OnPath = FirstDoc /\ heap[0] = FirstDoc.users /\ cur = [arr |-> 0, rest |-> FirstDoc.rest]
    BY Sizes DEF Init, OnPath
  <1>4. [users |-> heap[0], versioned |-> TRUE, rest |-> FirstDoc.rest] = FirstDoc
    BY <1>2, <1>3, SnapshotOf
  <1>5. Current = FirstDoc /\ LoadAppConfig(OnPath) = FirstDoc
    BY <1>2, <1>3, <1>4, LoadedIs DEF Current
  <1> QED
    BY <1>1, <1>5, Procs DEF MemInv

LEMMA MemInvHolds == OneWriter => (Spec => [](TypeInv /\ FileInv /\ MemInv))
  <1> SUFFICES ASSUME OneWriter PROVE Spec => [](TypeInv /\ FileInv /\ MemInv)
    OBVIOUS
  <1>1. Init => MemInv
    BY MemInit
  <1>2. TypeInv /\ FileInv /\ MemInv /\ [Next]_vars => MemInv'
    BY MemStep
  <1> QED
    BY <1>1, <1>2, FileInvHolds, PTL DEF Spec

\* With one request at a time, what the process works with is what it would start
\* with, whatever was saved, reloaded, refused or lost in a crash before; a hand edit
\* and a refused user edit are the exceptions the property names.
THEOREM MemoryIsDiskHolds == OneWriter => (Spec => []MemoryIsDisk)
  <1> SUFFICES ASSUME OneWriter PROVE Spec => []MemoryIsDisk
    OBVIOUS
  <1>1. TypeInv /\ FileInv /\ MemInv => MemoryIsDisk
    <2> SUFFICES ASSUME TypeInv, FileInv, MemInv, up, Quiet, mode = "file", ~hand, "memory" \notin taint
                 PROVE  OnDisk # Torn /\ LoadAppConfig(OnDisk) = Current
      BY DEF MemoryIsDisk
    <2>1. \A h \in Handler : proc[h].pc = "idle"
      BY Procs DEF Quiet
    <2>2. dir.path # NoFile /\ OnPath # Torn
      BY <2>1 DEF FileInv
    <2>3. LoadAppConfig(OnPath) = Current
      BY <2>1 DEF MemInv, Saved
    <2> QED
      BY <2>2, <2>3 DEF OnDisk, OnPath
  <1> QED
    BY <1>1, MemInvHolds, PTL

-----------------------------------------------------------------------------
(***************************************************************************)
(* PINs and ids.                                                           *)
(***************************************************************************)
\* The documents that are put, edited by hand or start the process name no id and no
\* PIN twice: nothing checks them for it.
KnownUnique == \A doc \in KnownDocs : Unique(LoadAppConfig(doc).users)

PinInv ==
  mode = "file" =>
    /\ dir.path # NoFile /\ "file" \notin taint => Unique(LoadAppConfig(OnPath).users)
    /\ up /\ taint = {} /\ (\A h \in Handler : Saved(h)) => Unique(heap[cur.arr])
    /\ \A h \in Handler :
         proc[h].pc \in Writing /\ (taint = {} \/ proc[h].edit = "whole") =>
           Unique(proc[h].out.users)

LEMMA PinAside ==
  ASSUME TypeInv, FileInv, MemInv, PinInv, OneWriter, KnownUnique, mode = "file",
         \/ \E h \in Handler : Read(h) \/ Edit(h) \/ ConfigPut(h) \/ ReloadFile(h)
         \/ \E p \in Proc : Fetch(p) \/ RecordHash(p) \/ Store(p)
  PROVE  PinInv'
  <1>1. ASSUME NEW p \in Proc, proc[p].pc # "idle" PROVE p \in Handler /\ proc[p].pc # "hash"
    BY <1>1, Procs DEF MemInv
  <1>2. ASSUME NEW h \in Handler, NEW l, Set(h, l)
        PROVE  proc'[h] = l /\ \A g \in Handler : g = h
    BY <1>2, SetLocals, Procs DEF OneWriter
  \* Steps that leave the snapshot, the file and what is known of them.
  <1>3. ASSUME NEW h \in Handler, NEW l, Set(h, l), l.pc \notin Writing,
               l.pc \in {"idle", "edit"} => Saved(h),
               UNCHANGED <<mode, up, dir, inode, cur, heap, taint>>
        PROVE  PinInv'
    <2>1. proc'[h] = l /\ \A g \in Handler : g = h
      BY <1>2, <1>3
    <2>2. Saved(h)' => \A g \in Handler : Saved(g)
      BY <1>3, <2>1 DEF Saved, Writing
    <2> QED
      BY <1>3, <2>1, <2>2 DEF PinInv, OnPath
  <1>4. ASSUME NEW h \in Handler, Read(h) PROVE PinInv'
    <2>1. /\ Set(h, [Idle EXCEPT !.pc = "edit", !.arr = cur.arr, !.rest = cur.rest])
          /\ proc[h].pc = "idle" /\ UNCHANGED <<mode, up, dir, inode, cur, heap, taint>>
      BY <1>4 DEF Read, files, memory
    <2>2. [Idle EXCEPT !.pc = "edit", !.arr = cur.arr, !.rest = cur.rest].pc = "edit"
      BY DEF Idle
    <2> QED
      BY <1>3, <2>1, <2>2 DEF Saved, Writing
  <1>5. ASSUME NEW h \in Handler, Edit(h) PROVE PinInv'
    <2>1. up /\ proc[h].pc = "edit" /\ UNCHANGED <<mode, up, dir, inode, cur>> /\ Saved(h)
      BY <1>5, EditDoes DEF files, Saved
    <2>2. taint = {} => Unique(Snapshot(h))
      BY <2>1, <1>2 DEF PinInv, MemInv, Snapshot, OneWriter
    \* A result that is saved.
    <2>3. ASSUME NEW doc \in Document, Accepted(h, doc), UNCHANGED taint,
                 NEW edit \in {"inplace", "copy"}, Set(h, Saving(doc, edit)),
                 edit = "copy" => UNCHANGED heap
          PROVE  PinInv'
      <3>1. Saving(doc, edit).pc = "open" /\ Saving(doc, edit).out = doc
            /\ Saving(doc, edit).edit = edit
        BY <2>3, SavingIs DEF Accepted
      <3>2. proc'[h] = Saving(doc, edit) /\ \A g \in Handler : g = h
        BY <1>2, <2>3
      <3>3. taint = {} => Unique(doc.users)
        BY <2>2, <2>3 DEF Accepted
      <3>4. Saved(h)' => edit = "copy"
        BY <3>1, <3>2 DEF Saved
      <3>5. \A g \in Handler : Saved(g)
        BY <2>1, <3>2
      <3> QED
        BY <2>1, <2>3, <3>1, <3>2, <3>3, <3>4, <3>5 DEF PinInv, OnPath
    <2>4. CASE Kept(h)
      <3>1. Set(h, Idle) /\ UNCHANGED <<heap, taint>>
        BY <2>4 DEF Kept
      <3> QED
        BY <1>3, <2>1, <3>1, IdleIs DEF Writing
    <2>5. CASE Copied(h)
      BY <2>3, <2>5 DEF Copied
    <2>6. CASE Written(h)
      <3>1. CASE Set(h, Idle) /\ taint' = taint \cup {"memory"}
        <4>1. proc'[h] = Idle /\ \A g \in Handler : g = h
          BY <1>2, <3>1
        <4> QED
          BY <2>1, <3>1, <4>1, IdleIs DEF PinInv, OnPath, Writing
      <3>2. CASE \E doc \in Document : Accepted(h, doc) /\ Set(h, Saving(doc, "inplace")) /\ UNCHANGED taint
        BY <2>3, <3>2
      <3> QED
        BY <2>6, <3>1, <3>2 DEF Written
    <2> QED
      BY <1>5, <2>4, <2>5, <2>6, EditDoes
  <1>6. ASSUME NEW h \in Handler, ConfigPut(h) PROVE PinInv'
    <2>1. PICK doc \in Docs :
            /\ doc \in Document /\ doc.versioned /\ Valid(doc) /\ Set(h, Saving(doc, "whole"))
            /\ proc[h].pc = "idle" /\ UNCHANGED <<mode, up, dir, inode, cur, heap, taint>>
      BY <1>6, ConfigPutDoes
    <2>2. Saving(doc, "whole").pc = "open" /\ Saving(doc, "whole").out = doc
      BY <2>1, SavingIs
    <2>3. Unique(doc.users)
      BY <2>1, LoadedIs DEF KnownUnique, KnownDocs
    <2>4. proc'[h] = Saving(doc, "whole") /\ \A g \in Handler : g = h
      BY <1>2, <2>1
    <2>5. \A g \in Handler : Saved(g)
      BY <2>1, <2>4 DEF Saved
    <2> QED
      BY <2>1, <2>2, <2>3, <2>4, <2>5 DEF PinInv, OnPath
  <1>7. ASSUME NEW h \in Handler, ReloadFile(h) PROVE PinInv'
    <2>1. /\ Set(h, [Idle EXCEPT !.pc = "store", !.out = LoadAppConfig(OnDisk), !.edit = "load"])
          /\ UNCHANGED <<mode, up, dir, inode, cur, heap, taint>>
      BY <1>7 DEF ReloadFile, files, memory
    <2>2. [Idle EXCEPT !.pc = "store", !.out = LoadAppConfig(OnDisk), !.edit = "load"].pc = "store"
      BY DEF Idle
    <2> QED
      BY <1>3, <2>1, <2>2 DEF Writing
  <1>8. ASSUME NEW p \in Proc, Fetch(p) \/ RecordHash(p) PROVE FALSE
    BY <1>1, <1>8, FetchTyped DEF RecordHash, At
  <1>9. ASSUME NEW p \in Proc, Store(p) PROVE PinInv'
    <2>1. PICK fresh \in ArrayIds \ LiveArrays :
            /\ proc[p].pc = "store"
            /\ cur' = [arr |-> fresh, rest |-> proc[p].out.rest]
            /\ heap'[fresh] = proc[p].out.users
            /\ taint' = taint \ {"memory"}
            /\ Set(p, Idle) /\ UNCHANGED <<mode, up, dir, inode>>
      BY <1>9, StoreDoes
    <2>2. p \in Handler
      BY <1>1, <2>1
    <2>3. proc'[p] = Idle /\ \A g \in Handler : g = p
      BY <1>2, <2>1, <2>2
    <2>4. dir.path # NoFile /\ LoadAppConfig(OnPath) = proc[p].out
      BY <2>1, <2>2 DEF MemInv
    <2>5. "file" \notin taint' => Unique(heap'[cur'.arr])
      BY <2>1, <2>4 DEF PinInv
    <2> QED
      BY <2>1, <2>3, <2>5, IdleIs DEF PinInv, OnPath, Writing
  <1> QED
    BY <1>4, <1>5, <1>6, <1>7, <1>8, <1>9

LEMMA PinWrites ==
  ASSUME TypeInv, FileInv, MemInv, PinInv, OneWriter, NEW h \in Handler,
         OpenTmp(h) \/ FillTmp(h) \/ Unlink(h) \/ Rename(h)
  PROVE  PinInv'
  <1>1. /\ \A g \in Handler : g = h
        /\ mode = "file" /\ UNCHANGED <<mode, up, cur, heap>>
    BY WriterSteps
  <1>2. CASE /\ UNCHANGED <<OnPath, taint, dir.path>>
             /\ <<proc[h].pc, proc'[h].pc>> \in {<<"open", "fill">>, <<"fill", "unlink">>}
             /\ proc'[h].out = proc[h].out /\ proc'[h].edit = proc[h].edit
    <2>1. (Saved(h)' => Saved(h)) /\ proc[h].pc \in Writing
      BY <1>2 DEF Saved, Writing
    <2> QED
      BY <1>1, <1>2, <2>1 DEF PinInv
  <1>3. CASE UNCHANGED <<OnPath, dir.path>> /\ Refused(h) /\ proc'[h] = Idle /\ proc[h].pc = "fill"
    <2>1. proc'[h].pc = "idle"
      BY <1>3, IdleIs
    <2>2. (taint' = {} => taint = {} /\ Saved(h)) /\ ("file" \notin taint' => "file" \notin taint)
      BY <1>3 DEF Refused, Saved
    <2> QED
      BY <1>1, <1>3, <2>1, <2>2 DEF PinInv, Writing
  <1>4. CASE /\ dir'.path = NoFile /\ UNCHANGED taint
             /\ proc[h].pc = "unlink" /\ proc'[h].pc = "rename"
             /\ proc'[h].out = proc[h].out /\ proc'[h].edit = proc[h].edit
    <2>1. ~Saved(h)' /\ proc[h].pc \in Writing
      BY <1>4 DEF Saved, Writing
    <2> QED
      BY <1>1, <1>4, <2>1 DEF PinInv
  <1>5. CASE /\ dir'.path # NoFile /\ OnPath' = proc[h].out
             /\ taint' = IF proc[h].edit = "whole" THEN taint \ {"file"}
                         ELSE IF taint # {} THEN taint \cup {"file"} ELSE taint
             /\ proc[h].pc = "rename" /\ proc'[h].pc = "store"
             /\ proc[h].out \in Document /\ proc[h].out.versioned
    <2>1. LoadAppConfig(OnPath') = proc[h].out
      BY <1>5, LoadedIs
    <2>2. ~Saved(h)' /\ proc'[h].pc \notin Writing /\ proc[h].pc \in Writing
      BY <1>5 DEF Saved, Writing
    <2>3. "file" \notin taint' => taint = {} \/ proc[h].edit = "whole"
      BY <1>5
    <2>4. "file" \notin taint' => Unique(LoadAppConfig(OnPath').users)
      BY <1>1, <2>1, <2>2, <2>3 DEF PinInv
    <2> QED
      BY <1>1, <2>2, <2>4 DEF PinInv
  <1> QED
    BY <1>2, <1>3, <1>4, <1>5, WriterSteps

LEMMA PinEnvironment ==
  ASSUME TypeInv, FileInv, PinInv, KnownUnique, mode = "file",
         HandEdit \/ RemoteChanges \/ Crash \/ Boot
  PROVE  PinInv'
  <1>1. CASE HandEdit
    <2>1. PICK i \in Inodes, doc \in Docs :
            /\ dir' = [dir EXCEPT !.path = i] /\ inode' = [inode EXCEPT ![i] = doc]
            /\ Quiet /\ UNCHANGED <<mode, up, cur, heap, proc, taint>>
      BY <1>1, HandEditDoes
    <2>2. OnPath' = doc
      BY <2>1 DEF OnPath, TypeInv, TypeOK
    <2>3. Unique(LoadAppConfig(doc).users)
      BY DEF KnownUnique, KnownDocs
    <2>4. \A h \in Handler : proc[h].pc = "idle"
      BY <2>1, Procs DEF Quiet
    <2> QED
      BY <2>1, <2>2, <2>3, <2>4 DEF PinInv, Saved, Writing
  <1>2. ~RemoteChanges
    BY DEF RemoteChanges
  <1>3. CASE Crash
    <2>1. up' = FALSE /\ taint' = taint \ {"memory"} /\ UNCHANGED <<mode, dir, inode>>
          /\ \A p \in Proc : proc'[p].pc = "idle"
      BY <1>3, IdleIs DEF Crash, files
    <2> QED
      BY <2>1, Procs DEF PinInv, OnPath, Writing
  <1>4. CASE Boot
    <2>1. PICK found \in Document :
            /\ dir.path # NoFile /\ found = inode[dir.path]
            /\ cur' = [arr |-> 0, rest |-> LoadAppConfig(found).rest]
            /\ heap' = [heap EXCEPT ![0] = LoadAppConfig(found).users]
            /\ ~up /\ UNCHANGED <<mode, dir, inode, proc, taint>>
      BY <1>4, BootDoes
    <2>2. \A p \in Proc : proc[p].pc = "idle"
      BY <2>1 DEF TypeInv, HoldsWell
    <2>3. heap'[cur'.arr] = LoadAppConfig(found).users
      BY <2>1, Sizes DEF TypeInv, TypeOK
    <2>4. taint = {} => Unique(LoadAppConfig(OnPath).users)
      BY <2>1 DEF PinInv
    <2> QED
      BY <2>1, <2>2, <2>3, <2>4, Procs DEF PinInv, OnPath, Writing
  <1> QED
    BY <1>1, <1>2, <1>3, <1>4

LEMMA PinStep ==
  TypeInv /\ FileInv /\ MemInv /\ PinInv /\ OneWriter /\ KnownUnique /\ [Next]_vars => PinInv'
  <1> SUFFICES ASSUME TypeInv, FileInv, MemInv, PinInv, OneWriter, KnownUnique, [Next]_vars
               PROVE  PinInv'
    OBVIOUS
  <1>1. CASE mode # "file"
    BY <1>1, ModeStays DEF PinInv
  <1>2. CASE mode = "file" /\ \/ \E h \in Handler : Read(h) \/ Edit(h) \/ ConfigPut(h) \/ ReloadFile(h)
                              \/ \E p \in Proc : Fetch(p) \/ RecordHash(p) \/ Store(p)
    BY <1>2, PinAside
  <1>3. CASE \E h \in Handler : OpenTmp(h) \/ FillTmp(h) \/ Unlink(h) \/ Rename(h)
    BY <1>3, PinWrites
  <1>4. CASE mode = "file" /\ (HandEdit \/ RemoteChanges \/ Crash \/ Boot)
    BY <1>4, PinEnvironment
  <1>5. CASE UNCHANGED vars
    BY <1>5 DEF vars, files, memory, PinInv, OnPath, Saved
  <1> QED
    BY <1>1, <1>2, <1>3, <1>4, <1>5 DEF Next

LEMMA PinInit == Init /\ KnownUnique => PinInv
  <1> SUFFICES ASSUME Init, KnownUnique PROVE PinInv
    OBVIOUS
  <1>1. \A h \in Handler : proc[h].pc = "idle"
    BY IdleIs, Procs DEF Init
  <1>2. LoadAppConfig(FirstDoc) = FirstDoc /\ Unique(LoadAppConfig(FirstDoc).users)
    BY ConfigAssumption, FirstDocAssumption, LoadedIs DEF KnownDocs, KnownUnique
  <1>3. OnPath = FirstDoc /\ heap[cur.arr] = FirstDoc.users
    BY Sizes DEF Init, OnPath
  <1> QED
    BY <1>1, <1>2, <1>3 DEF PinInv, Writing

\* No sequence of creations, edits, deletions, PIN resets, reloads and crashes gives
\* two users in the file one PIN or one id, one request at a time and unless a document
\* someone wrote has them or a user edit was refused after it had changed the snapshot.
THEOREM PinsUniqueHolds == OneWriter /\ KnownUnique => (Spec => []PinsUnique)
  <1> SUFFICES ASSUME OneWriter, KnownUnique PROVE Spec => []PinsUnique
    OBVIOUS
  <1>1. Init => PinInv
    BY PinInit
  <1>2. TypeInv /\ FileInv /\ MemInv /\ PinInv /\ [Next]_vars => PinInv'
    BY PinStep
  <1>3. PinInv => PinsUnique
    <2> SUFFICES ASSUME PinInv, mode = "file", taint = {}, OnDisk # Torn
                 PROVE  Unique(LoadAppConfig(OnDisk).users)
      BY DEF PinsUnique, Unique
    <2>1. dir.path # NoFile /\ OnDisk = OnPath
      BY DEF OnDisk, OnPath
    <2> QED
      BY <2>1 DEF PinInv
  <1> QED
    BY <1>1, <1>2, <1>3, MemInvHolds, PTL DEF Spec

-----------------------------------------------------------------------------
(***************************************************************************)
(* The file and the next start, for any number of requests under way.      *)
(***************************************************************************)
Sound(doc) == Valid(doc) /\ SectionsStart(doc.rest)
Good(i) == inode[i] # Torn => Sound(LoadAppConfig(inode[i]))

TmpGood == dir.tmp # NoFile => Good(dir.tmp)
PathGood == dir.path # NoFile => Good(dir.path)
PathKnown ==
  dir.path # NoFile =>
    /\ dir.path # dir.tmp
    /\ OnPath # Torn /\ Valid(LoadAppConfig(OnPath)) => Good(dir.path)
LocalGood(l) ==
  /\ l.pc # "hash"
  /\ l.pc = "edit" => SectionsStart(l.rest)
  /\ l.pc \in Writing \cup {"store"} => SectionsStart(l.out.rest)

\* What is about to be stored is as good as what is on the disk by then, though it may
\* have been replaced since: only a hand edit is not, and none meets a request.
StartInv ==
  mode = "file" =>
    /\ TmpGood /\ PathKnown
    /\ ~hand \/ (\E p \in Proc : proc[p].pc = "store") => PathGood
    /\ up => SectionsStart(cur.rest)
    /\ \A p \in Proc : LocalGood(proc[p])

\* A document that is put, written by hand or started from first: its SIP section came
\* with it, and of the legacy form no section is left.
LEMMA KnownIsSound ==
  ASSUME NEW doc \in KnownDocs, Valid(LoadAppConfig(doc))
  PROVE  Sound(LoadAppConfig(doc))
  <1> DEFINE new == LoadAppConfig(doc)
  <1>1. doc \in Document /\ doc.rest \in Rest
    BY ConfigAssumption DEF Document
  <1>2. (new.rest.sip = {} /\ new.rest.cluster = {}) \/ new = doc
    <2>1. CASE doc.versioned
      BY <2>1 DEF LoadAppConfig
    <2>2. CASE ~doc.versioned
      <3> DEFINE rest == [doc.rest EXCEPT !.links = {}, !.cluster = {}, !.servers = <<>>,
                                          !.recording = {}, !.database = {}, !.sip = {}]
      <3>1. rest.sip = {} /\ rest.cluster = {}
        BY <1>1 DEF Rest
      <3> HIDE DEF rest
      <3>2. new = [doc EXCEPT !.versioned = TRUE, !.users = <<>>, !.rest = rest]
        BY <2>2 DEF LoadAppConfig, rest
      <3>3. new.rest = rest
        BY <1>1, <3>2 DEF Document
      <3> QED
        BY <3>1, <3>3
    <2> QED
      BY <2>1, <2>2
  <1>3. Brought(new.rest.sip)
    BY <1>2 DEF Brought
  <1>4. /\ new.rest.cluster \in SUBSET ClusterSpec
        /\ \A c \in new.rest.cluster : \A u, v \in c.uri : u = v
    <2>1. doc.rest.cluster \in SUBSET ClusterSpec
      BY <1>1 DEF Rest
    <2>2. \A c \in doc.rest.cluster : \A u, v \in c.uri : u = v
      BY ConfigAssumption
    <2> HIDE DEF new
    <2> QED
      BY <1>2, <2>1, <2>2
  <1>5. \A c \in new.rest.cluster : ValidateClusterSpec(c)
    <2> HIDE DEF new
    <2>1. Valid(new)
      BY DEF new
    <2> QED
      BY <2>1 DEF Valid, ValidateRoot
  <1> HIDE DEF new
  <1>6. ValidateClusterLimits(MergeClusterLimits(NoLimits, new.rest.cluster))
    BY <1>4, <1>5, ClusterStarts
  <1>7. SectionsStart(new.rest)
    BY <1>3, <1>6 DEF SectionsStart
  <1> QED
    BY <1>7 DEF Sound, new

LEMMA IdleGood == LocalGood(Idle)
  BY DEF LocalGood, Idle, Writing

LEMMA LocalsStayGood ==
  ASSUME TypeInv, StartInv, mode = "file", NEW p \in Proc, NEW l, Set(p, l), LocalGood(l)
  PROVE  /\ \A q \in Proc : LocalGood(proc'[q])
         /\ (\E q \in Proc : proc'[q].pc = "store") =>
              l.pc = "store" \/ \E q \in Proc : proc[q].pc = "store"
  <1>1. proc'[p] = l /\ \A q \in Proc : q # p => proc'[q] = proc[q]
    BY SetLocals
  <1>2. ASSUME NEW q \in Proc PROVE LocalGood(proc'[q])
    BY <1>1 DEF StartInv
  <1> QED
    BY <1>1, <1>2

\* Steps that leave the files and what is known of the hand edit.
LEMMA StartAside ==
  ASSUME TypeInv, StartInv, mode = "file", NEW p \in Proc, NEW l, Set(p, l), LocalGood(l),
         l.pc = "store" => PathGood, UNCHANGED <<mode, up, dir, inode, cur, hand>>
  PROVE  StartInv'
  <1>1. /\ \A q \in Proc : LocalGood(proc'[q])
        /\ (\E q \in Proc : proc'[q].pc = "store") =>
             l.pc = "store" \/ \E q \in Proc : proc[q].pc = "store"
    BY LocalsStayGood
  <1>2. UNCHANGED <<TmpGood, PathKnown, PathGood>>
    BY DEF TmpGood, PathKnown, PathGood, OnPath, Good
  <1> QED
    BY <1>1, <1>2 DEF StartInv

LEMMA StartRequests ==
  ASSUME TypeInv, StartInv, mode = "file", NEW h \in Handler,
         Read(h) \/ Edit(h) \/ ConfigPut(h) \/ ReloadFile(h)
  PROVE  StartInv'
  <1>1. h \in Proc
    BY Procs
  <1>2. CASE Read(h)
    <2> DEFINE l == [Idle EXCEPT !.pc = "edit", !.arr = cur.arr, !.rest = cur.rest]
    <2>1. Set(h, l) /\ up /\ UNCHANGED <<mode, up, dir, inode, cur, hand>>
      BY <1>2 DEF Read, files, memory
    <2>2. l.pc = "edit" /\ l.rest = cur.rest
      BY DEF Idle
    <2> HIDE DEF l
    <2>3. LocalGood(l)
      BY <2>1, <2>2 DEF LocalGood, StartInv, Writing
    <2> QED
      BY <1>1, <2>1, <2>2, <2>3, StartAside
  <1>3. CASE Edit(h)
    <2>1. proc[h].pc = "edit" /\ UNCHANGED <<mode, up, dir, inode, cur, hand>>
      BY <1>3, EditDoes DEF files
    <2>2. ASSUME Set(h, Idle) PROVE StartInv'
      BY <1>1, <2>1, <2>2, IdleGood, IdleIs, StartAside
    <2>3. ASSUME NEW doc \in Document, Accepted(h, doc), NEW edit \in {"inplace", "copy"},
                 Set(h, Saving(doc, edit))
          PROVE  StartInv'
      <3>1. Saving(doc, edit).pc = "open" /\ Saving(doc, edit).out = doc
        BY <2>3, SavingIs DEF Accepted
      <3>2. SectionsStart(proc[h].rest)
        BY <1>1, <2>1 DEF StartInv, LocalGood
      <3>3. LocalGood(Saving(doc, edit))
        BY <2>3, <3>1, <3>2 DEF LocalGood, Accepted
      <3> QED
        BY <1>1, <2>1, <2>3, <3>1, <3>3, StartAside
    <2> QED
      BY <1>3, <2>2, <2>3, EditDoes DEF Kept, Copied, Written
  <1>4. CASE ConfigPut(h)
    <2>1. PICK doc \in Docs :
            /\ doc \in Document /\ doc.versioned /\ Valid(doc) /\ Set(h, Saving(doc, "whole"))
            /\ UNCHANGED <<mode, up, dir, inode, cur, hand>>
      BY <1>4, ConfigPutDoes
    <2>2. Saving(doc, "whole").pc = "open" /\ Saving(doc, "whole").out = doc
      BY <2>1, SavingIs
    <2>3. SectionsStart(doc.rest)
      BY <2>1, LoadedIs, KnownIsSound DEF Sound, KnownDocs
    <2>4. LocalGood(Saving(doc, "whole"))
      BY <2>2, <2>3 DEF LocalGood
    <2> QED
      BY <1>1, <2>1, <2>2, <2>4, StartAside
  <1>5. CASE ReloadFile(h)
    <2> DEFINE doc == LoadAppConfig(OnDisk)
               l == [Idle EXCEPT !.pc = "store", !.out = doc, !.edit = "load"]
    <2>1. /\ Set(h, l) /\ UNCHANGED <<mode, up, dir, inode, cur, hand>>
          /\ OnDisk # Torn /\ Valid(doc)
      BY <1>5 DEF ReloadFile, files, memory
    <2>2. l.pc = "store" /\ l.out = doc
      BY DEF Idle
    <2>3. dir.path # NoFile /\ OnDisk = OnPath
      BY <1>5, ReloadTyped DEF OnPath
    <2>4. PathGood /\ Sound(doc)
      BY <2>1, <2>3 DEF StartInv, PathKnown, PathGood, Good, OnPath
    <2>5. SectionsStart(doc.rest)
      BY <2>4 DEF Sound
    <2> HIDE DEF l, doc
    <2>6. LocalGood(l)
      BY <2>2, <2>5 DEF LocalGood
    <2> QED
      BY <1>1, <2>1, <2>4, <2>6, StartAside
  <1> QED
    BY <1>2, <1>3, <1>4, <1>5

LEMMA StartStores ==
  ASSUME TypeInv, StartInv, mode = "file", NEW p \in Proc, Fetch(p) \/ RecordHash(p) \/ Store(p)
  PROVE  StartInv'
  <1>1. Store(p)
    BY FetchTyped DEF RecordHash, At, StartInv, LocalGood
  <1>2. PICK fresh \in ArrayIds \ LiveArrays :
          /\ up /\ proc[p].pc = "store"
          /\ cur' = [arr |-> fresh, rest |-> proc[p].out.rest]
          /\ Set(p, Idle) /\ UNCHANGED <<mode, up, dir, inode>>
    BY <1>1, StoreDoes
  <1>3. PathGood /\ SectionsStart(proc[p].out.rest)
    BY <1>2 DEF StartInv, LocalGood
  <1>4. \A q \in Proc : LocalGood(proc'[q])
    BY <1>2, IdleGood, LocalsStayGood
  <1>5. UNCHANGED <<TmpGood, PathKnown, PathGood>>
    BY <1>2 DEF TmpGood, PathKnown, PathGood, OnPath, Good
  <1> QED
    BY <1>2, <1>3, <1>4, <1>5 DEF StartInv

LEMMA StartWrites ==
  ASSUME TypeInv, StartInv, mode = "file", NEW h \in Handler,
         OpenTmp(h) \/ FillTmp(h) \/ Unlink(h) \/ Rename(h)
  PROVE  StartInv'
  <1>1. h \in Proc /\ up /\ GoesOn
    BY Procs, OpenTmpDoes, FillTmpDoes, UnlinkDoes, RenameDoes
  <1>2. UNCHANGED <<mode, up, cur, hand>>
    BY <1>1 DEF GoesOn
  <1>3. /\ dir \in [path : Inodes \cup {NoFile}, tmp : Inodes \cup {NoFile}]
        /\ inode \in [Inodes -> Document \cup {Torn}] /\ NoFile \notin Inodes
        /\ Torn \notin Document
    BY <1>1, Running, Sizes, ConfigAssumption
  \* It is enough to follow the files.
  <1>4. ASSUME NEW l, Set(h, l), LocalGood(l),
               TmpGood', PathKnown', PathGood \/ l.pc = "store" => PathGood'
        PROVE  StartInv'
    <2>1. /\ \A q \in Proc : LocalGood(proc'[q])
          /\ (\E q \in Proc : proc'[q].pc = "store") =>
               l.pc = "store" \/ \E q \in Proc : proc[q].pc = "store"
      BY <1>1, <1>4, LocalsStayGood
    <2> QED
      BY <1>2, <1>4, <2>1 DEF StartInv
  <1>5. ASSUME Refused(h), TmpGood', PathKnown', PathGood => PathGood'
        PROVE  StartInv'
    BY <1>4, <1>5, IdleGood, IdleIs DEF Refused
  <1>6. ASSUME NEW l, NEW pc \in {"fill", "unlink", "rename", "store"}, Continues(h, l, pc),
               proc[h].pc \in Writing,
               TmpGood', PathKnown', PathGood \/ pc = "store" => PathGood'
        PROVE  StartInv'
    <2>1. l.pc = pc /\ l.out = proc[h].out /\ Set(h, l)
      BY <1>6 DEF Continues
    <2>2. SectionsStart(l.out.rest)
      BY <1>1, <1>6, <2>1 DEF StartInv, LocalGood
    <2>3. LocalGood(l)
      BY <2>1, <2>2 DEF LocalGood
    <2> QED
      BY <1>4, <1>6, <2>1, <2>3
  <1>7. CASE OpenTmp(h)
    <2>1. PICK i \in Inodes, l \in Locals :
            /\ i = dir.tmp \/ (dir.tmp = NoFile /\ i \notin UsedInodes)
            /\ dir' = [dir EXCEPT !.tmp = i] /\ inode' = [inode EXCEPT ![i] = Torn]
            /\ Continues(h, l, "fill") /\ proc[h].pc \in Writing
      BY <1>7, OpenTmpDoes DEF Writing
    <2>2. dir'.tmp = i /\ dir'.path = dir.path /\ inode'[i] = Torn
      BY <1>3, <2>1
    <2>3. dir.path # NoFile => i # dir.path /\ inode'[dir.path] = inode[dir.path]
      BY <1>3, <2>1 DEF StartInv, PathKnown, UsedInodes
    <2>4. TmpGood'
      BY <2>2 DEF TmpGood, Good
    <2>5. PathKnown' /\ (PathGood => PathGood')
      BY <2>2, <2>3 DEF StartInv, PathKnown, PathGood, Good, OnPath
    <2> QED
      BY <1>6, <2>1, <2>4, <2>5
  <1>8. CASE FillTmp(h)
    <2>1. /\ proc[h].pc = "fill" /\ UNCHANGED dir
          /\ proc[h].fd \in Inodes /\ proc[h].out \in Document /\ proc[h].out.versioned
          /\ \/ /\ inode' = [inode EXCEPT ![proc[h].fd] = proc[h].out]
                /\ \E l \in Locals : Continues(h, l, "unlink")
             \/ Refused(h) /\ UNCHANGED inode
      BY <1>8, FillTmpDoes
    <2>2. CASE Refused(h) /\ UNCHANGED inode
      <3>1. UNCHANGED <<TmpGood, PathKnown, PathGood>>
        BY <2>1, <2>2 DEF TmpGood, PathKnown, PathGood, OnPath, Good
      <3> QED
        BY <1>5, <2>2, <3>1 DEF StartInv
    <2>3. CASE /\ inode' = [inode EXCEPT ![proc[h].fd] = proc[h].out]
               /\ \E l \in Locals : Continues(h, l, "unlink")
      <3>1. PICK i \in Inodes, out \in Document : i = proc[h].fd /\ out = proc[h].out
        BY <2>1
      <3>2. Valid(out) /\ out.versioned /\ SectionsStart(out.rest)
        BY <1>1, <2>1, <3>1 DEF TypeInv, HoldsWell, Holds, StartInv, LocalGood, Writing
      <3>3. Sound(LoadAppConfig(out))
        BY <3>2, LoadedIs DEF Sound
      <3>4. inode'[i] = out /\ \A j \in Inodes : j # i => inode'[j] = inode[j]
        BY <1>3, <2>3, <3>1
      <3>5. \A j \in Inodes : IF j = i THEN Sound(LoadAppConfig(inode'[j])) ELSE inode'[j] = inode[j]
        BY <3>3, <3>4
      <3>6. TmpGood'
        BY <1>3, <2>1, <3>5 DEF StartInv, TmpGood, Good
      <3>7. PathKnown' /\ (PathGood => PathGood')
        BY <1>3, <2>1, <3>5 DEF StartInv, PathKnown, PathGood, Good, OnPath
      <3>8. proc[h].pc \in Writing
        BY <2>1 DEF Writing
      <3> QED
        BY <1>6, <2>3, <3>6, <3>7, <3>8
    <2> QED
      BY <2>1, <2>2, <2>3
  <1>9. CASE Unlink(h)
    <2>1. /\ proc[h].pc \in Writing /\ UNCHANGED inode
          /\ dir' = [dir EXCEPT !.path = NoFile]
          /\ \E l \in Locals : Continues(h, l, "rename")
      BY <1>9, UnlinkDoes DEF Writing
    <2>2. dir'.path = NoFile /\ dir'.tmp = dir.tmp
      BY <1>3, <2>1
    <2>3. TmpGood' /\ PathKnown' /\ PathGood'
      BY <2>1, <2>2 DEF StartInv, TmpGood, PathKnown, PathGood, Good
    <2> QED
      BY <1>6, <2>1, <2>3
  <1>10. CASE Rename(h)
    <2>1. /\ proc[h].pc \in Writing /\ UNCHANGED inode
          /\ \/ /\ dir.tmp # NoFile /\ dir' = [path |-> dir.tmp, tmp |-> NoFile]
                /\ \E l \in Locals : Continues(h, l, "store")
             \/ dir' = [dir EXCEPT !.tmp = NoFile] /\ Refused(h)
      BY <1>10, RenameDoes DEF Writing
    <2>2. CASE /\ dir.tmp # NoFile /\ dir' = [path |-> dir.tmp, tmp |-> NoFile]
               /\ \E l \in Locals : Continues(h, l, "store")
      <3>1. dir'.path = dir.tmp /\ dir'.tmp = NoFile
        BY <2>2
      <3>2. TmpGood' /\ PathKnown' /\ PathGood'
        BY <2>1, <2>2, <3>1 DEF StartInv, TmpGood, PathKnown, PathGood, Good
      <3> QED
        BY <1>6, <2>1, <2>2, <3>2
    <2>3. CASE dir' = [dir EXCEPT !.tmp = NoFile] /\ Refused(h)
      <3>1. dir'.path = dir.path /\ dir'.tmp = NoFile
        BY <1>3, <2>3
      <3>2. TmpGood' /\ PathKnown' /\ (PathGood => PathGood')
        BY <2>1, <3>1 DEF StartInv, TmpGood, PathKnown, PathGood, Good, OnPath
      <3> QED
        BY <1>5, <2>3, <3>2
    <2> QED
      BY <2>1, <2>2, <2>3
  <1> QED
    BY <1>7, <1>8, <1>9, <1>10

LEMMA StartEnvironment ==
  ASSUME TypeInv, StartInv, mode = "file",
         HandEdit \/ RemoteChanges \/ Crash \/ Boot
  PROVE  StartInv'
  <1>1. CASE HandEdit
    <2>1. PICK i \in Inodes, doc \in Docs :
            /\ dir' = [dir EXCEPT !.path = i] /\ inode' = [inode EXCEPT ![i] = doc]
            /\ i = dir.path \/ (dir.path = NoFile /\ i # dir.tmp)
            /\ Quiet /\ hand' = TRUE /\ UNCHANGED <<mode, up, cur, proc>>
      BY <1>1, HandEditDoes
    <2>2. /\ dir \in [path : Inodes \cup {NoFile}, tmp : Inodes \cup {NoFile}]
          /\ inode \in [Inodes -> Document \cup {Torn}] /\ NoFile \notin Inodes
      BY Sizes DEF TypeInv, TypeOK
    <2>3. dir'.path = i /\ dir'.tmp = dir.tmp /\ inode'[i] = doc
          /\ \A j \in Inodes : j # i => inode'[j] = inode[j]
      BY <2>1, <2>2
    <2>4. i # dir.tmp
      BY <2>1, <2>2 DEF StartInv, PathKnown
    <2>5. TmpGood'
      BY <2>2, <2>3, <2>4 DEF StartInv, TmpGood, Good
    <2>6. PathKnown'
      BY <2>1, <2>3, <2>4, KnownIsSound DEF PathKnown, Good, OnPath, KnownDocs
    <2>7. \A p \in Proc : proc[p].pc # "store"
      BY <2>1 DEF Quiet
    <2> QED
      BY <2>1, <2>5, <2>6, <2>7 DEF StartInv
  <1>2. ~RemoteChanges
    BY DEF RemoteChanges
  <1>3. CASE Crash
    <2>1. up' = FALSE /\ UNCHANGED <<mode, dir, inode, hand>>
          /\ \A p \in Proc : proc'[p] = Idle
      BY <1>3 DEF Crash, files
    <2>2. UNCHANGED <<TmpGood, PathKnown, PathGood>>
      BY <2>1 DEF TmpGood, PathKnown, PathGood, OnPath, Good
    <2> QED
      BY <2>1, <2>2, IdleGood, IdleIs DEF StartInv
  <1>4. CASE Boot
    <2>1. PICK found \in Document :
            /\ dir.path # NoFile /\ found = inode[dir.path]
            /\ Valid(LoadAppConfig(found)) /\ found # Torn
            /\ cur' = [arr |-> 0, rest |-> LoadAppConfig(found).rest]
            /\ UNCHANGED <<mode, dir, inode, proc>>
      BY <1>4, BootDoes, LoadedIs DEF Startable
    <2>2. UNCHANGED <<TmpGood, PathKnown, PathGood>>
      BY <2>1 DEF TmpGood, PathKnown, PathGood, OnPath, Good
    <2>3. PathGood /\ Sound(LoadAppConfig(found))
      BY <2>1 DEF StartInv, PathKnown, PathGood, Good, OnPath
    <2>4. SectionsStart(cur'.rest)
      BY <2>1, <2>3 DEF Sound
    <2> QED
      BY <2>1, <2>2, <2>3, <2>4 DEF StartInv
  <1> QED
    BY <1>1, <1>2, <1>3, <1>4

LEMMA StartStep ==
  TypeInv /\ StartInv /\ [Next]_vars => StartInv'
  <1> SUFFICES ASSUME TypeInv, StartInv, [Next]_vars
               PROVE  StartInv'
    OBVIOUS
  <1>1. CASE mode # "file"
    BY <1>1, ModeStays DEF StartInv
  <1>2. CASE mode = "file" /\ \E h \in Handler : Read(h) \/ Edit(h) \/ ConfigPut(h) \/ ReloadFile(h)
    BY <1>2, StartRequests
  <1>3. CASE mode = "file" /\ \E p \in Proc : Fetch(p) \/ RecordHash(p) \/ Store(p)
    BY <1>3, StartStores
  <1>4. CASE mode = "file" /\ \E h \in Handler : OpenTmp(h) \/ FillTmp(h) \/ Unlink(h) \/ Rename(h)
    BY <1>4, StartWrites
  <1>5. CASE mode = "file" /\ (HandEdit \/ RemoteChanges \/ Crash \/ Boot)
    BY <1>5, StartEnvironment
  <1>6. CASE UNCHANGED vars
    BY <1>6 DEF vars, files, memory, StartInv, TmpGood, PathKnown, PathGood, OnPath, Good
  <1> QED
    BY <1>1, <1>2, <1>3, <1>4, <1>5, <1>6 DEF Next

LEMMA StartInit == Init => StartInv
  <1> SUFFICES ASSUME Init PROVE StartInv
    OBVIOUS
  <1>1. dir.path = 0 /\ dir.tmp = NoFile /\ 0 # NoFile /\ OnPath = FirstDoc
    BY Sizes DEF Init, OnPath
  <1>2. LoadAppConfig(FirstDoc) = FirstDoc /\ Sound(FirstDoc)
    BY ConfigAssumption, FirstDocAssumption, LoadedIs, KnownIsSound DEF KnownDocs, Startable
  <1>3. SectionsStart(FirstDoc.rest)
    BY <1>2 DEF Sound
  <1>4. cur.rest = FirstDoc.rest /\ \A p \in Proc : proc[p] = Idle
    BY DEF Init
  <1> QED
    BY <1>1, <1>2, <1>3, <1>4, IdleGood DEF StartInv, TmpGood, PathKnown, PathGood, Good, OnPath

\* However many requests overlap, and whichever file operation fails or is cut short by
\* a crash, the sections of the document under the path are ones main's checks pass,
\* but for limits of the environment and SIP sections that came with a whole document.
THEOREM SavedSectionsStartHolds == Spec => []SavedSectionsStart
  <1>1. Init => StartInv
    BY StartInit
  <1>2. TypeInv /\ StartInv /\ [Next]_vars => StartInv'
    BY StartStep
  <1>3. StartInv => SavedSectionsStart
    BY DEF StartInv, PathGood, Good, Sound, SavedSectionsStart, OnDisk
  <1> QED
    BY <1>1, <1>2, <1>3, TypeInvHolds, PTL DEF Spec
=============================================================================
