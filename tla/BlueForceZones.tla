---------------------------- MODULE BlueForceZones ----------------------------
(***************************************************************************)
(* The registry of friendly assets and the no-strike zones around them.    *)
(* Registering or moving an asset is four statements without a             *)
(* transaction: find the asset, write it, find its buffer zone, write the  *)
(* zone.  Deleting an asset leaves its zone; only a request of its own     *)
(* takes a zone away.                                                      *)
(***************************************************************************)
EXTENDS Naturals, FiniteSets

CONSTANTS
    Assets,
    Footprints,   \* a position with a buffer radius: what a buffer zone is drawn from
    ZoneIds,      \* the UUIDs a zone may be given
    Requests,     \* requests to register or move an asset
    Nil,
    MaxBreakOffs  \* bound: requests broken off by a failing statement or a crash

ASSUME BlueForceAssumption ==
    /\ Nil \notin Assets \cup Footprints \cup ZoneIds \cup Requests
    /\ MaxBreakOffs \in Nat

VARIABLES
    assets,         \* blue_force_assets: where each asset is, Nil when it has no row
    noStrikeZones,  \* no_strike_zones: whose buffer each zone is and where it lies
    request,        \* what each request asks
    statement,      \* the statement each request is at
    target,         \* the zone a request is about to write
    breakOffs,
    \* History:
    used,           \* the zone ids given out
    latest,         \* for each asset the request that wrote a zone of it last
    brokenOff,      \* the assets a request about which was broken off since their zone was written
    removed,        \* the assets a zone of which was taken away since it was last written
    overlapped      \* the assets two requests about which have run side by side

registryVars ==
    <<assets, noStrikeZones, request, statement, target, breakOffs, used, latest, brokenOff,
      removed, overlapped>>

NoZone == [asset |-> Nil, at |-> Nil]
Zone == [asset : Assets \cup {Nil}, at : Footprints]
NoRequest == [asset |-> Nil, at |-> Nil]

RegistryTypeOK ==
    /\ assets \in [Assets -> Footprints \cup {Nil}]
    /\ noStrikeZones \in [ZoneIds -> Zone \cup {NoZone}]
    /\ request \in [Requests -> [asset : Assets, at : Footprints] \cup {NoRequest}]
    /\ statement \in [Requests -> {"unmade", "insert", "update", "findZone", "putZone", "answer", "answered", "error"}]
    /\ target \in [Requests -> ZoneIds \cup {Nil}]
    /\ breakOffs \in 0..MaxBreakOffs
    /\ used \subseteq ZoneIds
    /\ latest \in [Assets -> Requests \cup {Nil}]
    /\ brokenOff \subseteq Assets
    /\ removed \subseteq Assets
    /\ overlapped \subseteq Assets

RegistryInit ==
    /\ assets = [a \in Assets |-> Nil]
    /\ noStrikeZones = [z \in ZoneIds |-> NoZone]
    /\ request = [r \in Requests |-> NoRequest]
    /\ statement = [r \in Requests |-> "unmade"]
    /\ target = [r \in Requests |-> Nil]
    /\ breakOffs = 0
    /\ used = {}
    /\ latest = [a \in Assets |-> Nil]
    /\ brokenOff = {}
    /\ removed = {}
    /\ overlapped = {}

InFlight(a) ==
    {r \in Requests : request[r].asset = a /\ statement[r] \in {"insert", "update", "findZone", "putZone"}}
BuffersOf(a) == {z \in ZoneIds : noStrikeZones[z].asset = a}

------------------------------------------------------------------------------
\* The request arrives and getBlueForceAsset looks for the row.
FindAsset(r, a, p) ==
    /\ statement[r] = "unmade"
    /\ request' = [request EXCEPT ![r] = [asset |-> a, at |-> p]]
    /\ statement' = [statement EXCEPT ![r] = IF assets[a] = Nil THEN "insert" ELSE "update"]
    /\ overlapped' = IF InFlight(a) = {} THEN overlapped ELSE overlapped \cup {a}
    /\ UNCHANGED <<assets, noStrikeZones, target, breakOffs, used, latest, brokenOff, removed>>

Refuse(r) ==
    /\ statement' = [statement EXCEPT ![r] = "error"]
    /\ brokenOff' = brokenOff \cup {request[r].asset}
    /\ UNCHANGED <<assets, noStrikeZones, request, target, breakOffs, used, latest, removed, overlapped>>

\* The insert violates the primary key when another request got there first; an
\* update that finds no row returns none, and reading its position throws.
WriteAsset(r) ==
    LET a == request[r].asset IN
    \/ /\ \/ statement[r] = "insert" /\ assets[a] = Nil
          \/ statement[r] = "update" /\ assets[a] # Nil
       /\ assets' = [assets EXCEPT ![a] = request[r].at]
       /\ statement' = [statement EXCEPT ![r] = "findZone"]
       /\ UNCHANGED <<noStrikeZones, request, target, breakOffs, used, latest, brokenOff, removed, overlapped>>
    \/ /\ \/ statement[r] = "insert" /\ assets[a] # Nil
          \/ statement[r] = "update" /\ assets[a] = Nil
       /\ Refuse(r)

\* Bug: the buffer zone of any asset is taken over.
FindZoneOfAnyone(r) ==
    /\ statement[r] = "findZone"
    /\ IF used # {}
       THEN \E z \in used : target' = [target EXCEPT ![r] = z] /\ UNCHANGED used
       ELSE \E z \in ZoneIds \ used : target' = [target EXCEPT ![r] = z] /\ used' = used \cup {z}
    /\ statement' = [statement EXCEPT ![r] = "putZone"]
    /\ UNCHANGED <<assets, noStrikeZones, request, breakOffs, latest, brokenOff, removed, overlapped>>

\* SELECT ... LIMIT 1: a zone of the asset if there is one, else a new id.
FindZone(r) ==
    /\ statement[r] = "findZone"
    /\ \/ \E z \in BuffersOf(request[r].asset) :
            target' = [target EXCEPT ![r] = z] /\ UNCHANGED used
       \/ /\ BuffersOf(request[r].asset) = {}
          /\ \E z \in ZoneIds \ used :
                target' = [target EXCEPT ![r] = z] /\ used' = used \cup {z}
    /\ statement' = [statement EXCEPT ![r] = "putZone"]
    /\ UNCHANGED <<assets, noStrikeZones, request, breakOffs, latest, brokenOff, removed, overlapped>>

\* INSERT ... ON CONFLICT (zone_id) DO UPDATE, drawn around the row this request
\* wrote.  A zone taken away in between is written anew.
PutZone(r) ==
    LET a == request[r].asset IN
    /\ statement[r] = "putZone"
    /\ noStrikeZones' = [noStrikeZones EXCEPT ![target[r]] = request[r]]
    /\ statement' = [statement EXCEPT ![r] = "answer"]
    /\ target' = [target EXCEPT ![r] = Nil]
    /\ latest' = [latest EXCEPT ![a] = r]
    /\ brokenOff' = brokenOff \ {a}
    /\ removed' = removed \ {a}
    /\ UNCHANGED <<assets, request, breakOffs, used, overlapped>>

\* upsertBufferZone returns, and with it the handler.
Answer(r) ==
    /\ statement[r] = "answer"
    /\ statement' = [statement EXCEPT ![r] = "answered"]
    /\ UNCHANGED <<assets, noStrikeZones, request, target, breakOffs, used, latest, brokenOff,
                   removed, overlapped>>

\* A statement throws, also one that was committed and only its answer lost, or
\* fusion-svc dies: what was written stays.
BreakOff(r) ==
    /\ statement[r] \in {"insert", "update", "findZone", "putZone", "answer"}
    /\ breakOffs < MaxBreakOffs
    /\ breakOffs' = breakOffs + 1
    /\ statement' = [statement EXCEPT ![r] = "error"]
    /\ target' = [target EXCEPT ![r] = Nil]
    /\ brokenOff' = IF statement[r] = "answer" THEN brokenOff ELSE brokenOff \cup {request[r].asset}
    /\ UNCHANGED <<assets, noStrikeZones, request, used, latest, removed, overlapped>>

\* Bug: the delete cascades to the buffer zones.
DeleteAssetCascading(a) ==
    /\ assets[a] # Nil
    /\ assets' = [assets EXCEPT ![a] = Nil]
    /\ noStrikeZones' = [z \in ZoneIds |-> IF noStrikeZones[z].asset = a THEN NoZone ELSE noStrikeZones[z]]
    /\ UNCHANGED <<request, statement, target, breakOffs, used, latest, brokenOff, removed, overlapped>>

\* The zone is deliberately left behind.
DeleteAsset(a) ==
    /\ assets[a] # Nil
    /\ assets' = [assets EXCEPT ![a] = Nil]
    /\ UNCHANGED <<noStrikeZones, request, statement, target, breakOffs, used, latest, brokenOff, removed, overlapped>>

CreateManualZone(z, p) ==
    /\ z \notin used
    /\ used' = used \cup {z}
    /\ noStrikeZones' = [noStrikeZones EXCEPT ![z] = [asset |-> Nil, at |-> p]]
    /\ UNCHANGED <<assets, request, statement, target, breakOffs, latest, brokenOff, removed, overlapped>>

DeleteNoStrikeZone(z) ==
    /\ noStrikeZones[z] # NoZone
    /\ noStrikeZones' = [noStrikeZones EXCEPT ![z] = NoZone]
    /\ removed' = IF noStrikeZones[z].asset = Nil THEN removed ELSE removed \cup {noStrikeZones[z].asset}
    /\ UNCHANGED <<assets, request, statement, target, breakOffs, used, latest, brokenOff, overlapped>>

\* The routes of a single statement each.
Edit ==
    \/ \E a \in Assets : DeleteAsset(a)
    \/ \E z \in ZoneIds, p \in Footprints : CreateManualZone(z, p)
    \/ \E z \in ZoneIds : DeleteNoStrikeZone(z)

\* PUT /blue-force-assets/:id.
Upsert(r) == WriteAsset(r) \/ FindZone(r) \/ PutZone(r) \/ Answer(r) \/ BreakOff(r)

RegistryNext ==
    \/ \E r \in Requests, a \in Assets, p \in Footprints : FindAsset(r, a, p)
    \/ \E r \in Requests : Upsert(r)
    \/ Edit

RegistrySpec == RegistryInit /\ [][RegistryNext]_registryVars

------------------------------------------------------------------------------
\* The README of fusion-svc: the buffer zone is "kept in sync on every position
\* update".  A registered asset nobody is moving, no request about
\* which was broken off before its zone was last written, has one buffer zone, drawn where the asset is, unless an operator
\* took it away - as long as no two requests about it have run side by side.
ZoneInSync ==
    \A a \in Assets :
        (assets[a] # Nil /\ InFlight(a) = {} /\ a \notin brokenOff \cup overlapped) =>
            /\ Cardinality(BuffersOf(a)) = 1 \/ (a \in removed /\ BuffersOf(a) = {})
            /\ \A z \in BuffersOf(a) : noStrikeZones[z].at = assets[a]

\* However requests overlap, fail after their write or lose their answer, and even
\* when the asset is deleted after: what a client was answered lies under a
\* no-strike zone as long as no operator takes the zone away, its own footprint or
\* that of the request about the asset that wrote last - which a client whose
\* request failed after its write did not learn.
AnsweredIsCovered ==
    \A r \in Requests :
        (statement[r] = "answered" /\ request[r].asset \notin removed) =>
            \E z \in ZoneIds : noStrikeZones[z] = request[latest[request[r].asset]]
===============================================================================
