------------------------------- MODULE Config -------------------------------
(***************************************************************************)
(* The configuration manager and the handlers that change the              *)
(* configuration (internal/config/manager.go, internal/api): the file on   *)
(* disk, the snapshot in memory, the read-modify-write of every settings   *)
(* handler, the replacement of the file in three file operations, reload,  *)
(* polling over HTTP, and the start of the process (cmd/sipbridge).        *)
(*                                                                         *)
(* A document is its users and the rest of it.  The snapshot's users are a *)
(* Go slice: handlers get a copy of the snapshot that shares the slice's   *)
(* array, and PUT, DELETE and reset-pin write to it.  Arrays are therefore *)
(* explicit (heap), and so are inodes: two writers share one temporary     *)
(* name, and one may rename the file the other still writes to.            *)
(*                                                                         *)
(* Definitions named Mut... are mutants, as in module Fanout.              *)
(***************************************************************************)
EXTENDS Validation, FiniteSets

CONSTANTS
  Handler,       \* API requests that may be under way at once
  Poller,        \* the polling goroutine
  Modes,         \* where the configuration may come from: a set of "file",
                 \* "http" (read on reload only) and "poll"
  FirstDoc,      \* the document the process starts from
  Docs,          \* documents put as a whole, edited by hand or published
  UserIds, Pins, DeviceLists,
  ClusterSpecs, Recordings, ServerLists, Databases, SipSpecs,
                 \* values the settings handlers are sent, bad ones included
  EnvLimits, EnvSip,    \* what the environment says
  WriteOutcomes, RenameOutcomes,  \* subsets of {"ok", "fails"}
  PolledReload,  \* whether a reload may be requested while polling is on
  MaxRequests, MaxEdits, MaxCrashes, \* bounds on the environment
  NoFile, Torn, NoDoc

\* A document as far as the checks and the handlers look into it (RootConfig,
\* Spec, User); an optional field is a set of at most one value.
Device == [id : STRING, kind : STRING]
UserRecord == [id : STRING, pin : STRING, devices : Seq(Device)]
ClusterSpec == [max : SUBSET Int, soft : SUBSET Int, redirect : SUBSET BOOLEAN,
                uri : SUBSET STRING]
SipSpec == [bind : SUBSET STRING, port : SUBSET Int, proxy : SUBSET STRING,
            proxyPort : SUBSET Int, transport : SUBSET STRING]
Server == [id : STRING, name : STRING, url : STRING, weight : Int, sip : STRING]
KnownDocs == Docs \cup {FirstDoc}
\* A stored document says "yaml" where the request said nothing.
StorageNamed(d) == [d EXCEPT !.storage = IF @ = "" THEN "yaml" ELSE @]
Rest == [schemaOK : BOOLEAN, links : SUBSET [user : STRING, device : STRING],
         cluster : SUBSET ClusterSpec, servers : Seq(Server),
         recording : SUBSET (Recordings \cup UNION {d.rest.recording : d \in KnownDocs}),
         database : SUBSET ({StorageNamed(d) : d \in Databases}
                              \cup UNION {d.rest.database : d \in KnownDocs}),
         sip : SUBSET SipSpec]
Document == [users : Seq(UserRecord), versioned : BOOLEAN, rest : Rest]

ASSUME ConfigAssumption ==
  /\ IsFiniteSet(Handler) /\ Poller \notin Handler
  /\ Modes \subseteq {"file", "http", "poll"}
  /\ WriteOutcomes \subseteq {"ok", "fails"} /\ "ok" \in WriteOutcomes
  /\ RenameOutcomes \subseteq {"ok", "fails"} /\ "ok" \in RenameOutcomes
  /\ PolledReload \in BOOLEAN
  /\ MaxRequests \in Nat /\ MaxEdits \in Nat /\ MaxCrashes \in Nat
  /\ KnownDocs \subseteq Document
  /\ UserIds \subseteq STRING /\ Pins \subseteq STRING /\ DeviceLists \subseteq Seq(Device)
  /\ ClusterSpecs \subseteq ClusterSpec /\ ServerLists \subseteq Seq(Server)
  /\ SipSpecs \subseteq SipSpec
  /\ \A c \in ClusterSpecs \cup UNION {d.rest.cluster : d \in KnownDocs} :
       \A u, v \in c.uri : u = v
  /\ Torn \notin Document /\ NoFile \notin Nat

Proc == Handler \cup {Poller}
ArrayIds == 0..Cardinality(Proc)
Inodes == 0..(Cardinality(Handler) + 1)

VARIABLES
  mode,       \* httpURL and pollSeconds
  up,         \* the process runs
  dir,        \* the names "path" and "tmp": an inode or NoFile
  inode,      \* a document, or Torn while it is written
  cur,        \* Manager.cur: the array its users are in, and the rest
  heap,       \* the arrays
  lastHash,   \* Manager.lastHTTPHash, as the document it was taken of
  remote,     \* what CONFIG_HTTP_URL returns
  proc,       \* the locals of each handler and of the poller
  hand,       \* the file was edited by hand since the process last read it
  taint,      \* a user edit was refused after it changed the shared array:
              \* "memory" until the next save, "file" from then on
  count       \* requests, edits and crashes so far

files == <<dir, inode>>
memory == <<cur, heap, lastHash>>
vars == <<mode, up, files, memory, remote, proc, hand, taint, count>>

\* edit tells what a store means: "inplace" and "copy" save a change of the
\* snapshot, "whole" a document that was put, "load" one that was read.
Idle == [pc |-> "idle", arr |-> 0, rest |-> NoDoc, out |-> NoDoc,
         fd |-> NoFile, edit |-> "none"]

Quiet == \A p \in Proc : proc[p].pc = "idle"
OnDisk == IF dir.path = NoFile THEN Torn ELSE inode[dir.path]
Current == [users |-> heap[cur.arr], versioned |-> TRUE, rest |-> cur.rest]

\* The legacy form of the file, {routes, bridges}, has no users and no
\* sections.
LoadAppConfig(doc) ==
  IF doc.versioned THEN doc
  ELSE [doc EXCEPT !.versioned = TRUE, !.users = <<>>,
                   !.rest = [@ EXCEPT !.links = {}, !.cluster = {},
                                      !.servers = <<>>, !.recording = {},
                                      !.database = {}, !.sip = {}]]

Valid(doc) ==
  ValidateRoot([users |-> doc.users, schemaOK |-> doc.rest.schemaOK,
                links |-> doc.rest.links, cluster |-> doc.rest.cluster,
                servers |-> doc.rest.servers, recording |-> doc.rest.recording,
                database |-> doc.rest.database])

\* What main checks once the document is loaded; log.Fatalf otherwise.
Limits(doc) == MergeClusterLimits(EnvLimits, doc.rest.cluster)
Startable(doc) ==
  /\ Valid(doc)
  /\ ValidateSIPConfig(MergeSIPFromSpec(EnvSip, doc.rest.sip))
  /\ ValidateClusterLimits(Limits(doc))

\* Startable but for what no handler looks at: limits of the environment, and a SIP
\* section that came with a whole document, or none.
NoLimits == [max |-> 0, soft |-> 0, redirect |-> FALSE, uri |-> ""]
Brought(sip) == sip = {} \/ \E d \in KnownDocs : d.rest.sip = sip
SectionsStart(rest) ==
  /\ ValidateClusterLimits(MergeClusterLimits(NoLimits, rest.cluster))
  /\ ValidateSIPConfig(MergeSIPFromSpec(EnvSip, rest.sip)) \/ Brought(rest.sip)

\* The process the first document started.
ASSUME FirstDocAssumption == FirstDoc.versioned /\ Startable(FirstDoc)

EditedArrays == {proc[p].arr : p \in {q \in Proc : proc[q].pc = "edit"}}
LiveArrays == {cur.arr} \cup EditedArrays
UsedInodes == {dir.path, dir.tmp} \cup {proc[p].fd : p \in Proc}
Requested == count.requests < MaxRequests /\ count' = [count EXCEPT !.requests = @ + 1]
Set(p, l) == proc' = [proc EXCEPT ![p] = l]

Init ==
  /\ mode \in Modes
  /\ up = TRUE
  /\ dir = [path |-> 0, tmp |-> NoFile]
  /\ inode = [i \in Inodes |-> IF i = 0 THEN FirstDoc ELSE Torn]
  /\ heap = [a \in ArrayIds |-> IF a = 0 THEN FirstDoc.users ELSE <<>>]
  /\ cur = [arr |-> 0, rest |-> FirstDoc.rest]
  /\ remote = FirstDoc
  /\ lastHash = IF mode = "file" THEN NoDoc ELSE FirstDoc
  /\ proc = [p \in Proc |-> Idle]
  /\ hand = FALSE /\ taint = {}
  /\ count = [requests |-> 0, edits |-> 0, crashes |-> 0]
-----------------------------------------------------------------------------
(***************************************************************************)
(* Requests that change the configuration.  A handler takes the snapshot   *)
(* (Read), changes its copy and hands it to ApplyYAML (Submit), or refuses *)
(* the request for its body (GiveUp).                                      *)
(***************************************************************************)
Read(h) ==
  /\ up /\ proc[h].pc = "idle" /\ Requested
  /\ Set(h, [Idle EXCEPT !.pc = "edit", !.arr = cur.arr, !.rest = cur.rest])
  /\ UNCHANGED <<mode, up, files, memory, remote, hand, taint>>

\* ApplyYAML up to the write of the file; the document that is refused leaves
\* an array changed in place as it is.
Refuse(h, edit) ==
  /\ Set(h, Idle)
  /\ taint' = IF edit = "inplace" THEN taint \cup {"memory"} ELSE taint
Submit(h, doc, edit) ==
  IF mode = "file" /\ doc.versioned /\ Valid(doc)
  THEN Set(h, [Idle EXCEPT !.pc = "open", !.out = doc, !.edit = edit]) /\ UNCHANGED taint
  ELSE Refuse(h, edit)

Snapshot(h) == heap[proc[h].arr]
userIndexByID(users, id) == {i \in DOMAIN users : users[i].id = id
                               /\ \A j \in 1..(i - 1) : users[j].id # id}
MutTaken(users, pin, except) ==
  \E i \in DOMAIN users : i > except /\ users[i].pin = pin

participantIDTaken(users, pin, except) ==
  \E i \in DOMAIN users : i # except /\ users[i].pin = pin
InPlace(h, users, out) ==
  /\ heap' = [heap EXCEPT ![proc[h].arr] = users]
  /\ Submit(h, [users |-> out, versioned |-> TRUE, rest |-> proc[h].rest], "inplace")

\* handleUserPut; a nil pin or device list leaves the user's own.
UserPut(h) ==
  /\ mode = "file"
  /\ \E id \in UserIds, pin \in Pins \cup {""}, devices \in {{}} \cup {{d} : d \in DeviceLists} :
       \E i \in userIndexByID(Snapshot(h), id) :
         /\ \A d \in devices : ValidateUserDeviceList(d)
         /\ pin # "" => ~participantIDTaken(Snapshot(h), pin, i)
         /\ LET u == [Snapshot(h)[i] EXCEPT !.pin = IF pin = "" THEN @ ELSE pin,
                                            !.devices = Over(@, devices)]
                users == [Snapshot(h) EXCEPT ![i] = u]
            IN InPlace(h, users, users)

\* handleUserResetPIN: any PIN nobody has.
UserResetPIN(h) ==
  /\ mode = "file"
  /\ \E id \in UserIds, pin \in Pins : \E i \in userIndexByID(Snapshot(h), id) :
       /\ ~participantIDTaken(Snapshot(h), pin, i)
       /\ LET users == [Snapshot(h) EXCEPT ![i].pin = pin]
          IN InPlace(h, users, users)

\* handleUserDelete: append(users[:i], users[i+1:]...) shifts the shared array
\* and leaves its last user in place twice; only the handler's slice is
\* shorter.
Without(users, i) ==
  [j \in 1..(Len(users) - 1) |-> IF j < i THEN users[j] ELSE users[j + 1]]
UserDelete(h) ==
  /\ mode = "file"
  /\ \E id \in UserIds : \E i \in userIndexByID(Snapshot(h), id) :
       LET out == Without(Snapshot(h), i)
       IN InPlace(h, Append(out, Snapshot(h)[Len(Snapshot(h))]), out)

\* handleUserCreate: the append allocates an array of its own.
UserCreate(h) ==
  /\ mode = "file"
  /\ \E id \in UserIds, pin \in Pins, devices \in DeviceLists :
       /\ userIndexByID(Snapshot(h), id) = {}
       /\ ~participantIDTaken(Snapshot(h), pin, 0)
       /\ ValidateUserDeviceList(devices)
       /\ Submit(h, [users |-> Append(Snapshot(h), [id |-> id, pin |-> pin, devices |-> devices]),
                     versioned |-> TRUE, rest |-> proc[h].rest], "copy")
  /\ UNCHANGED heap

Section(h, rest) ==
  /\ Submit(h, [users |-> Snapshot(h), versioned |-> TRUE, rest |-> rest], "copy")
  /\ UNCHANGED heap
ClusterPut(h) ==
  \E c \in ClusterSpecs :
    /\ mode = "file" /\ ValidateClusterSpec(c)
    /\ Section(h, [proc[h].rest EXCEPT !.cluster = {c}])
ClusterDelete(h) == mode = "file" /\ Section(h, [proc[h].rest EXCEPT !.cluster = {}])
ServersPut(h) ==
  \E s \in ServerLists :
    ValidateManagedServers(s) /\ Section(h, [proc[h].rest EXCEPT !.servers = s])
RecordingPut(h) ==
  \E r \in Recordings :
    ValidateRecordingSpec(r) /\ Section(h, [proc[h].rest EXCEPT !.recording = {r}])
RecordingDelete(h) == Section(h, [proc[h].rest EXCEPT !.recording = {}])
DatabasePut(h) ==
  \E d \in Databases :
    /\ ValidateDatabaseSpec(d)
    /\ Section(h, [proc[h].rest EXCEPT !.database = {StorageNamed(d)}])
DatabaseDelete(h) == Section(h, [proc[h].rest EXCEPT !.database = {}])
MutSIPSettingsPut(h) ==
  \E s \in SipSpecs : Section(h, [proc[h].rest EXCEPT !.sip = {s}])

SIPSettingsPut(h) ==
  \E s \in SipSpecs :
    /\ ValidateSIPConfig(MergeSIPFromSpec(EnvSip, {s}))
    /\ Section(h, [proc[h].rest EXCEPT !.sip = {s}])
SIPSettingsDelete(h) == Section(h, [proc[h].rest EXCEPT !.sip = {}])

GiveUp(h) == Set(h, Idle) /\ UNCHANGED <<heap, taint>>

Edit(h) ==
  /\ up /\ proc[h].pc = "edit"
  /\ \/ UserPut(h) \/ UserResetPIN(h) \/ UserDelete(h) \/ UserCreate(h)
     \/ ClusterPut(h) \/ ClusterDelete(h) \/ ServersPut(h)
     \/ RecordingPut(h) \/ RecordingDelete(h)
     \/ DatabasePut(h) \/ DatabaseDelete(h)
     \/ SIPSettingsPut(h) \/ SIPSettingsDelete(h)
     \/ GiveUp(h)
  /\ UNCHANGED <<mode, up, files, cur, lastHash, remote, hand, count>>

\* handleConfigPut: a whole document, without reading the snapshot.
ConfigPut(h) ==
  /\ up /\ proc[h].pc = "idle" /\ mode = "file" /\ Requested
  /\ \E doc \in Docs : doc.versioned /\ Valid(doc) /\ Submit(h, doc, "whole")
  /\ UNCHANGED <<mode, up, files, memory, remote, hand>>
-----------------------------------------------------------------------------
(***************************************************************************)
(* writeFileAtomic: os.WriteFile on the temporary name, os.Remove of the   *)
(* path, os.Rename; then the store of the document that was parsed.        *)
(***************************************************************************)
At(h, pc) == up /\ proc[h].pc = pc
Goto(h, pc) == proc' = [proc EXCEPT ![h].pc = pc, ![h].fd = NoFile]

MutOpenTmp(h) ==
  /\ At(h, "open")
  /\ dir.path # NoFile
  /\ inode' = [inode EXCEPT ![dir.path] = Torn]
  /\ proc' = [proc EXCEPT ![h].pc = "fill", ![h].fd = dir.path]
  /\ UNCHANGED <<dir, mode, up, memory, remote, hand, taint, count>>

\* O_CREATE|O_TRUNC empties the file that has the name, whoever writes to it.
OpenTmp(h) ==
  /\ At(h, "open")
  /\ LET fresh == CHOOSE i \in Inodes : i \notin UsedInodes
         i == IF dir.tmp = NoFile THEN fresh ELSE dir.tmp
     IN /\ dir' = [dir EXCEPT !.tmp = i]
        /\ inode' = [inode EXCEPT ![i] = Torn]
        /\ proc' = [proc EXCEPT ![h].pc = "fill", ![h].fd = i]
  /\ UNCHANGED <<mode, up, memory, remote, hand, taint, count>>
FillTmp(h) ==
  /\ At(h, "fill")
  /\ \E outcome \in WriteOutcomes :
       \/ /\ outcome = "ok"
          /\ inode' = [inode EXCEPT ![proc[h].fd] = proc[h].out]
          /\ Goto(h, "unlink") /\ UNCHANGED taint
       \/ /\ outcome = "fails"
          /\ Refuse(h, proc[h].edit) /\ UNCHANGED inode
  /\ UNCHANGED <<dir, mode, up, memory, remote, hand, count>>

Unlink(h) ==
  /\ At(h, "unlink")
  /\ dir' = [dir EXCEPT !.path = NoFile]
  /\ Goto(h, "rename")
  /\ UNCHANGED <<inode, mode, up, memory, remote, hand, taint, count>>

\* The rename fails when another writer took the temporary file away; the file
\* under the path is gone by then.
Rename(h) ==
  /\ At(h, "rename")
  /\ \E outcome \in RenameOutcomes :
       \/ /\ outcome = "ok" /\ dir.tmp # NoFile
          /\ dir' = [path |-> dir.tmp, tmp |-> NoFile]
          /\ Goto(h, "store")
          /\ taint' = IF proc[h].edit = "whole" THEN taint \ {"file"}
                      ELSE IF taint # {} THEN taint \cup {"file"} ELSE taint
       \/ /\ outcome = "fails" \/ dir.tmp = NoFile
          /\ dir' = [dir EXCEPT !.tmp = NoFile]
          /\ Refuse(h, proc[h].edit)
  /\ UNCHANGED <<inode, mode, up, memory, remote, hand, count>>

MutStore(p) ==
  /\ At(p, "store")
  /\ cur' = [cur EXCEPT !.rest = proc[p].out.rest]
  /\ Set(p, Idle)
  /\ hand' = FALSE
  /\ UNCHANGED <<heap, taint, mode, up, files, lastHash, remote, count>>

\* m.cur.Store: a snapshot with an array of its own.
Store(p) ==
  /\ At(p, "store")
  /\ LET fresh == CHOOSE a \in ArrayIds : a \notin LiveArrays
     IN /\ cur' = [arr |-> fresh, rest |-> proc[p].out.rest]
        /\ heap' = [a \in ArrayIds |-> CASE a = fresh -> proc[p].out.users
                                        [] a \in EditedArrays -> heap[a]
                                        [] OTHER -> <<>>]
  /\ taint' = taint \ {"memory"}
  /\ hand' = FALSE
  /\ Set(p, Idle)
  /\ UNCHANGED <<mode, up, files, lastHash, remote, count>>
-----------------------------------------------------------------------------
(***************************************************************************)
(* Reading: reload of the file, reload and poll over HTTP.  A source that  *)
(* cannot be read or is not valid changes nothing.                         *)
(***************************************************************************)
ReloadFile(h) ==
  /\ up /\ proc[h].pc = "idle" /\ mode = "file" /\ Requested
  /\ OnDisk # Torn /\ Valid(LoadAppConfig(OnDisk))
  /\ Set(h, [Idle EXCEPT !.pc = "store", !.out = LoadAppConfig(OnDisk), !.edit = "load"])
  /\ UNCHANGED <<mode, up, files, memory, remote, hand, taint>>

\* loadFromHTTP up to the validation; only a poll skips the body it had last.
Fetch(p) ==
  /\ up /\ proc[p].pc = "idle"
  /\ mode \in IF p = Poller \/ PolledReload THEN {"http", "poll"} ELSE {"http"}
  /\ IF p = Poller THEN mode = "poll" /\ lastHash # remote /\ UNCHANGED count
     ELSE Requested
  /\ remote.versioned /\ Valid(remote)
  /\ Set(p, [Idle EXCEPT !.pc = "hash", !.out = remote, !.edit = "load"])
  /\ UNCHANGED <<mode, up, files, memory, remote, hand, taint>>

\* The hash of what is published by now.
MutRecordHash(p) ==
  /\ At(p, "hash")
  /\ lastHash' = remote
  /\ Goto(p, "store")
  /\ UNCHANGED <<mode, up, files, cur, heap, remote, hand, taint, count>>

RecordHash(p) ==
  /\ At(p, "hash")
  /\ lastHash' = proc[p].out
  /\ Goto(p, "store")
  /\ UNCHANGED <<mode, up, files, cur, heap, remote, hand, taint, count>>
-----------------------------------------------------------------------------
(***************************************************************************)
(* The environment: editors, the publisher, crashes; and main.             *)
(***************************************************************************)
Edited == count.edits < MaxEdits /\ count' = [count EXCEPT !.edits = @ + 1]

\* An editor replaces the file; it does not run while a request writes it.
HandEdit ==
  /\ mode = "file" /\ Edited /\ Quiet
  /\ \E doc \in Docs :
       LET i == IF dir.path # NoFile THEN dir.path
                ELSE CHOOSE j \in Inodes : j \notin UsedInodes
       IN dir' = [dir EXCEPT !.path = i] /\ inode' = [inode EXCEPT ![i] = doc]
  /\ hand' = TRUE
  /\ UNCHANGED <<mode, up, memory, remote, proc, taint>>

RemoteChanges ==
  /\ mode # "file" /\ Edited
  /\ remote' \in Docs
  /\ UNCHANGED <<mode, up, files, memory, proc, hand, taint>>

Crash ==
  /\ up /\ count.crashes < MaxCrashes
  /\ count' = [count EXCEPT !.crashes = @ + 1]
  /\ up' = FALSE
  /\ proc' = [p \in Proc |-> Idle]
  /\ cur' = [arr |-> 0, rest |-> NoDoc]
  /\ heap' = [a \in ArrayIds |-> <<>>]
  /\ lastHash' = NoDoc
  /\ taint' = taint \ {"memory"}
  /\ UNCHANGED <<mode, files, remote, hand>>

\* main: LoadFromFile, then the checks log.Fatalf ends the process on.
Boot ==
  /\ ~up
  /\ LET found == IF mode = "file" THEN OnDisk ELSE remote
         doc == LoadAppConfig(found)
     IN /\ found # Torn
        /\ mode # "file" => found.versioned
        /\ Startable(doc)
        /\ cur' = [arr |-> 0, rest |-> doc.rest]
        /\ heap' = [heap EXCEPT ![0] = doc.users]
        /\ lastHash' = IF mode = "file" THEN NoDoc ELSE remote
  /\ up' = TRUE /\ hand' = FALSE
  /\ UNCHANGED <<mode, files, remote, proc, taint, count>>

Next ==
  \/ \E h \in Handler :
       \/ Read(h) \/ Edit(h) \/ ConfigPut(h)
       \/ OpenTmp(h) \/ FillTmp(h) \/ Unlink(h) \/ Rename(h)
       \/ ReloadFile(h)
  \/ \E p \in Proc : Fetch(p) \/ RecordHash(p) \/ Store(p)
  \/ HandEdit \/ RemoteChanges \/ Crash \/ Boot

\* The ticker fires again and again, and a goroutine that runs is scheduled.
Fairness ==
  /\ WF_vars(Fetch(Poller))
  /\ \A p \in Proc : WF_vars(RecordHash(p)) /\ WF_vars(Store(p))
  /\ WF_vars(Boot)
Spec == Init /\ [][Next]_vars /\ Fairness
-----------------------------------------------------------------------------
(***************************************************************************)
(* Properties                                                              *)
(***************************************************************************)
\* Whatever moment the process dies at, the configuration survives whole: under
\* its name, or, between the unlink and the rename, under the temporary one
\* (writeFileAtomic; "replace" is not atomic, so the name may be missing).
FileIsWhole ==
  LET name == IF dir.path # NoFile THEN "path" ELSE "tmp"
  IN dir[name] # NoFile /\ inode[dir[name]] # Torn

\* When no request is under way the active configuration is what the next start
\* would load, unless someone edited the file or a refused user edit changed
\* the snapshot (ApplyYAML, the in-place writes of users.go).
MemoryIsDisk ==
  up /\ Quiet /\ mode = "file" /\ ~hand /\ "memory" \notin taint =>
    OnDisk # Torn /\ LoadAppConfig(OnDisk) = Current

\* What keeps the process from starting again is never a section a settings
\* handler saved by itself: its cluster section is right where the environment
\* sets no limits (ValidateClusterSpec against MergeClusterLimits), and its SIP
\* section is right with what the environment says.  A SIP section that came with
\* a whole document was checked by nobody, and no handler checks the limits of the
\* environment (handleClusterPut, handleSIPSettingsPut, main).
SavedSectionsStart ==
  mode = "file" /\ ~hand /\ OnDisk # Torn =>
    LET doc == LoadAppConfig(OnDisk)
    IN Valid(doc) /\ SectionsStart(doc.rest)

\* A PIN identifies one user, and so does an id, through any sequence of
\* creations, edits, deletions and PIN resets (the IVR takes the first user
\* whose PIN matches; no validation repeats the handlers' check).
PinsUnique ==
  mode = "file" /\ taint = {} /\ OnDisk # Torn =>
    LET users == LoadAppConfig(OnDisk).users
    IN DistinctIds(users)
       /\ \A i, j \in DOMAIN users : users[i].pin = users[j].pin => i = j

\* Polling ends up with what is published, whatever was published, loaded or
\* skipped in between and however often the process restarted, once the
\* publisher stops with a document that is valid.
PollConverges ==
  mode = "poll" => <>[](up /\ remote.versioned /\ Valid(remote) => Current = remote)
=============================================================================
