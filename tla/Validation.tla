----------------------------- MODULE Validation -----------------------------
(***************************************************************************)
(* What the configuration package accepts and how the sections of an       *)
(* accepted document meet the environment: the checks of ValidateRoot      *)
(* (internal/config/manager.go) and the merges main makes with the         *)
(* environment (cluster_spec.go, sip_stack_spec.go, config.go).            *)
(*                                                                         *)
(* An optional field or section is a set of at most one value, {} for nil. *)
(* Trimmed strings are what they are after trimming; "" is empty.          *)
(***************************************************************************)
EXTENDS Integers, Sequences

Given(opt) == opt # {}
The(opt) == CHOOSE x \in opt : TRUE
Over(base, opt) == IF Given(opt) THEN The(opt) ELSE base
Elems(seq) == {seq[i] : i \in DOMAIN seq}
DistinctIds(seq) ==
  \A i, j \in DOMAIN seq : seq[i].id = seq[j].id => i = j

(***************************************************************************)
(* Cluster limits                                                          *)
(***************************************************************************)
ValidateClusterSpec(c) ==
  /\ \A m \in c.max : m >= 0
  /\ \A s \in c.soft : s >= 0 /\ \A m \in c.max : s <= m
  /\ TRUE \in c.redirect => Given(c.uri) /\ c.uri # {""}

\* The process's limits: spec.cluster over the SIPBRIDGE_* variables.
MergeClusterLimits(base, opt) ==
  IF ~Given(opt) THEN base
  ELSE [max      |-> Over(base.max, The(opt).max),
        soft     |-> Over(base.soft, The(opt).soft),
        redirect |-> Over(base.redirect, The(opt).redirect),
        uri      |-> Over(base.uri, The(opt).uri)]

ValidateClusterLimits(l) ==
  /\ l.max >= 0 /\ l.soft >= 0
  /\ l.max > 0 => l.soft <= l.max
  /\ l.redirect => l.uri # ""

(***************************************************************************)
(* SIP stack: the addresses ("ip" for one that parses), the port and the   *)
(* outbound transport                                                      *)
(***************************************************************************)
MergeSIPFromSpec(base, opt) ==
  IF ~Given(opt) THEN base
  ELSE [bind      |-> Over(base.bind, The(opt).bind),
        port      |-> Over(base.port, The(opt).port),
        proxy     |-> Over(base.proxy, The(opt).proxy),
        proxyPort |-> Over(base.proxyPort, The(opt).proxyPort),
        transport |-> Over(base.transport, The(opt).transport)]

ValidateSIPConfig(s) ==
  /\ s.bind = "ip" /\ s.port \in 1..65535
  /\ s.proxy # "" => s.proxy = "ip" /\ s.proxyPort \in 1..65535
  /\ s.transport \in {"udp", "tls"}
  /\ s.transport = "tls" => s.proxy # ""

(***************************************************************************)
(* Servers, database, devices                                              *)
(***************************************************************************)
ValidateManagedServers(servers) ==
  /\ DistinctIds(servers)
  /\ \A s \in Elems(servers) :
       /\ s.id # "" /\ s.name # ""
       /\ s.url \in {"http", "https"}
       /\ s.weight \in 0..100
       /\ s.sip \in {"", "sip"}

ValidateDatabaseSpec(d) ==
  /\ d.storage \in {"", "yaml", "http", "postgres"}
  /\ d.storage = "postgres" => Given(d.postgres)
  /\ \A p \in d.postgres :
       /\ "" \notin {p.host, p.user, p.name}
       /\ p.port \in 1..65535
       /\ p.ssl \in {"", "disable", "allow", "prefer", "require", "verify-ca",
                    "verify-full"}

ValidateUserDeviceList(devices) ==
  /\ DistinctIds(devices)
  /\ \A d \in Elems(devices) :
       d.id # "" /\ d.kind \in {"ddi", "mobile", "private_wire", ""}

(***************************************************************************)
(* Recording: several recorders, one per trunk, or a single legacy one     *)
(***************************************************************************)
SipURI(u) == u = "" \/ u = "sip"

ValidateRecordingSpec(r) ==
  \A s \in r.siprec :
    s.enabled =>
      IF s.trunks # <<>>
      THEN LET ids == {t.id : t \in Elems(s.trunks)} IN
           /\ DistinctIds(s.trunks) /\ "" \notin ids
           /\ \A t \in Elems(s.trunks) :
                t.uri # "" /\ SipURI(t.uri) /\ SipURI(t.via)
           /\ s.default \in ids
           /\ \A reg \in DOMAIN s.regions : s.regions[reg] \in ids
      ELSE s.uri # "" /\ SipURI(s.uri) /\ SipURI(s.via)

\* A conference endpoint that names a user names one that exists, and a device
\* only one of that user's; of users with the same id the last one counts.
ValidateRecordingLinks(doc) ==
  \A l \in doc.links :
    \/ l.user = "" /\ l.device = ""
    \/ \E i \in DOMAIN doc.users :
         /\ l.user # "" /\ doc.users[i].id = l.user
         /\ \A j \in DOMAIN doc.users : doc.users[j].id = l.user => j <= i
         /\ l.device # "" => \E d \in Elems(doc.users[i].devices) : d.id = l.device

\* Everything ApplyYAML, a reload and a poll check.  spec.sipStack is not
\* among it.
ValidateRoot(doc) ==
  /\ doc.schemaOK
  /\ ValidateManagedServers(doc.servers)
  /\ \A c \in doc.cluster : ValidateClusterSpec(c)
  /\ \A d \in doc.database : ValidateDatabaseSpec(d)
  /\ \A r \in doc.recording : ValidateRecordingSpec(r)
  /\ \A u \in Elems(doc.users) : ValidateUserDeviceList(u.devices)
  /\ ValidateRecordingLinks(doc)
=============================================================================
