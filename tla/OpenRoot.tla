------------------------------- MODULE OpenRoot -------------------------------
(***************************************************************************)
(* The server of local names (crates/openroot/src/main.rs): a zone in      *)
(* memory, loaded at the start and again whenever openroot.json is found   *)
(* changed, while an administrator edits the file in place. A query reads  *)
(* the zone under its lock and changes nothing: what it is told is         *)
(* AnswerTo(zone, name, type).                                             *)
(***************************************************************************)
EXTENDS Integers, FiniteSets

CONSTANTS
  Name,        \* canonical names
  Local,       \* those under root, aegis, lan or home.arpa
  Below,       \* <<n, m>>: n ends with a dot and m
  Spelling,    \* keys a file may have
  Canonical,   \* canonical_domain of each spelling
  Ip,          \* IPv4 addresses
  Written,     \* contents: functions from spellings to addresses or NoIp
  Torn,        \* contents that are no zone: half an edit, other JSON
  NoFile, NoIp,
  MaxChanges,  \* bound: edits of the file
  MaxExits     \* bound: times the server is stopped

ASSUME ZoneAssumption ==
  /\ Canonical \in [Spelling -> Name] /\ Local \subseteq Name
  /\ [k \in {} |-> NoIp] \in Written /\ Torn \notin Written
  /\ NoFile \notin Written \cup {Torn} /\ NoIp \notin Ip

VARIABLES
  zoneFile,  \* content of openroot.json
  zone,      \* the zone in memory: a function from names to addresses
  server,    \* "down", "loaded", "up"
  seen,      \* bytes the polling task has read and not compared yet, or NoFile
  previous,  \* the content last applied by it; NoFile at first
  changes, exits

zoneVars == <<zoneFile, zone, server, seen, previous, changes, exits>>

-----------------------------------------------------------------------------
(* OpenRootZone::parse. Every key and address must be valid; of keys with  *)
(* the same canonical name the last in the order of a hash map wins.       *)
Keys(c, n) == {k \in DOMAIN c : Canonical[k] = n}
Listed(c) == {Canonical[k] : k \in DOMAIN c}

Parses(c) ==
  /\ c \in Written
  /\ \A k \in DOMAIN c : Canonical[k] \in Local /\ c[k] # NoIp

Readings(c) ==
  IF ~Parses(c) THEN {}
  ELSE {z \in [Listed(c) -> Ip] :
          \A n \in Listed(c) : \E k \in Keys(c, n) : z[n] = c[k]}

NoZone == [n \in {} |-> NoIp]

(* handle_query: the response code, and the address for a query of type A. *)
AnswerTo(z, n, type) ==
  IF n \notin Local THEN <<"refused">>
  ELSE IF n \in DOMAIN z
    THEN IF type = "A" THEN <<"noerror", z[n]>> ELSE <<"noerror">>
  ELSE IF \E m \in DOMAIN z : <<m, n>> \in Below THEN <<"noerror">>
  ELSE <<"nxdomain">>

ZoneTypeOK ==
  /\ zoneFile \in Written \cup {Torn, NoFile}
  /\ DOMAIN zone \subseteq Local /\ \A n \in DOMAIN zone : zone[n] \in Ip
  /\ server \in {"down", "loaded", "up"}
  /\ {seen, previous} \subseteq Written \cup {Torn, NoFile}
  /\ changes \in 0..MaxChanges /\ exits \in 0..MaxExits

ZoneInit ==
  /\ zoneFile \in Written \cup {Torn, NoFile}
  /\ zone = NoZone /\ server = "down"
  /\ seen = NoFile /\ previous = NoFile
  /\ changes = 0 /\ exits = 0

-----------------------------------------------------------------------------
(* load_zones: a missing file is created if the file system allows it, and *)
(* means no names in either case.                                          *)
LoadZones ==
  /\ server = "down"
  /\ \/ zone' \in Readings(zoneFile) /\ UNCHANGED zoneFile
     \/ zoneFile = NoFile /\ zone' = NoZone /\ UNCHANGED zoneFile
     \/ zoneFile = NoFile /\ zone' = NoZone /\ zoneFile' = NoZone
  /\ server' = "loaded"
  /\ UNCHANGED <<seen, previous, changes, exits>>

(* Seeded defect: the polling task begins with the file as it is then, to   *)
(* save a reload.                                                           *)
BindRemembers ==
  /\ server = "loaded" /\ server' = "up"
  /\ previous' = zoneFile
  /\ UNCHANGED <<zoneFile, zone, seen, changes, exits>>

(* Both sockets are bound and the tasks run.                               *)
Bind ==
  /\ server = "loaded" /\ server' = "up"
  /\ UNCHANGED <<zoneFile, zone, seen, previous, changes, exits>>

(* Every ten seconds the file is read, and compared with what was applied. *)
ReadFile ==
  /\ server = "up" /\ seen = NoFile
  /\ zoneFile \notin {NoFile, previous}
  /\ seen' = zoneFile
  /\ UNCHANGED <<zoneFile, zone, server, previous, changes, exits>>

(* What does not parse leaves the records as they are.                     *)
Apply ==
  /\ seen # NoFile
  /\ IF Parses(seen) THEN zone' \in Readings(seen) /\ previous' = seen
                     ELSE UNCHANGED <<zone, previous>>
  /\ seen' = NoFile
  /\ UNCHANGED <<zoneFile, server, changes, exits>>

(* An edit in place, seen half way or not; the file may go.                *)
ZoneChanges ==
  /\ changes < MaxChanges /\ changes' = changes + 1
  /\ zoneFile' \in Written \cup {Torn, NoFile}
  /\ UNCHANGED <<zone, server, seen, previous, exits>>

(* A listener ends and the server with it; its container starts it again.  *)
ExitServer ==
  /\ server # "down" /\ exits < MaxExits /\ exits' = exits + 1
  /\ server' = "down" /\ zone' = NoZone /\ seen' = NoFile /\ previous' = NoFile
  /\ UNCHANGED <<zoneFile, changes>>

ZoneNext == LoadZones \/ Bind \/ ReadFile \/ Apply \/ ZoneChanges \/ ExitServer

(* The container restarts the server until it loads; the task polls.       *)
ZoneFairness ==
  WF_zoneVars(LoadZones) /\ WF_zoneVars(Bind) /\ WF_zoneVars(ReadFile) /\ WF_zoneVars(Apply)

ZoneSpec == ZoneInit /\ [][ZoneNext]_zoneVars /\ ZoneFairness

-----------------------------------------------------------------------------
(* Once the administrator leaves the file alone and it is valid, the server*)
(* comes to give the answers of one of its readings, and keeps to them,    *)
(* whatever the file held before, however often it was found half written  *)
(* and whenever the server stopped. (Two spellings of one name give a file *)
(* two readings, and the first poll may replace the one by the other.)     *)
ZoneServed ==
  \A c \in {w \in Written : Parses(w)} :
    <>[](zoneFile = c) =>
      \E z \in Readings(c) :
        <>[](server = "up" /\ \A n \in Name, type \in {"A", "other"} :
                                AnswerTo(zone, n, type) = AnswerTo(z, n, type))
=============================================================================
