--------------------------- MODULE StandaloneProofs ---------------------------
(***************************************************************************)
(* Proofs about the services whose modules extend no other and are not     *)
(* extended: the blue-force registry, the report scheduling, the inventory *)
(* and the geofence alerts.                                                *)
(***************************************************************************)
EXTENDS GeofenceAlerts, BlueForceZones, ReportDispatch, InventoryForecast, FiniteSetTheorems, TLAPS

------------------------------------------------------------------------------
(* The blue-force registry.                                                *)

\* A zone id that was not given out is no zone.  The zone a request is about to
\* write is one of its asset, or none any more, and nobody else's.
ZonesOwned ==
    /\ \A z \in ZoneIds \ used : noStrikeZones[z] = NoZone
    /\ \A r \in Requests : statement[r] = "putZone" =>
          /\ target[r] \in used
          /\ noStrikeZones[target[r]] = NoZone \/ noStrikeZones[target[r]].asset = request[r].asset
    /\ \A r, s \in Requests :
          (statement[r] = "putZone" /\ statement[s] = "putZone" /\ target[r] = target[s])
              => request[r].asset = request[s].asset

\* A request that was made is about an asset; latest is of those that wrote their
\* zone, and there is one once a request wrote.
RequestsMade ==
    /\ \A r \in Requests : statement[r] # "unmade" => request[r] \in [asset: Assets, at: Footprints]
    /\ \A a \in Assets : latest[a] # Nil =>
          statement[latest[a]] \in {"answer", "answered", "error"} /\ request[latest[a]].asset = a
    /\ \A r \in Requests : statement[r] \in {"answer", "answered"} => latest[request[r].asset] # Nil

\* What was written last stays, answered or not.
WrittenStays ==
    \A a \in Assets :
        (latest[a] # Nil /\ a \notin removed) => \E z \in ZoneIds : noStrikeZones[z] = request[latest[a]]

\* While no two requests about an asset have overlapped, it has one zone at most, the
\* one the request in flight is about to write; and no other moves the asset.
OneZone(a) ==
    /\ \A r, s \in InFlight(a) : r = s
    /\ \A y, z \in BuffersOf(a) : y = z
    /\ \A r \in InFlight(a) :
          /\ statement[r] = "putZone" => BuffersOf(a) \subseteq {target[r]}
          /\ statement[r] \in {"findZone", "putZone"} => assets[a] \in {Nil, request[r].at}

\* ZoneInSync for one asset, without the counting.
InSync(a) ==
    (assets[a] # Nil /\ InFlight(a) = {} /\ a \notin brokenOff) =>
        /\ BuffersOf(a) = {} => a \in removed
        /\ \A z \in BuffersOf(a) : noStrikeZones[z].at = assets[a]

\* Inductive: a zone follows its asset because a request that found it, or found
\* none, is still alone with it when it writes.
BlueInv ==
    /\ RegistryTypeOK
    /\ RequestsMade
    /\ ZonesOwned
    /\ \A a \in Assets \ overlapped : OneZone(a) /\ InSync(a)
    /\ WrittenStays

\* The constants as the proofs use them.
LEMMA BlueConstants ==
    /\ Nil \notin Assets /\ Nil \notin Footprints /\ Nil \notin ZoneIds /\ Nil \notin Requests
    /\ MaxBreakOffs \in Nat
BY BlueForceAssumption

LEMMA BlueInit == ASSUME RegistryInit PROVE BlueInv
<1>1. RegistryTypeOK
  BY BlueConstants DEF RegistryInit, RegistryTypeOK, NoZone, NoRequest
<1>2. RequestsMade /\ ZonesOwned /\ WrittenStays
  BY DEF RegistryInit, RequestsMade, ZonesOwned, WrittenStays
<1>3. ASSUME NEW a \in Assets PROVE InFlight(a) = {} /\ BuffersOf(a) = {} /\ assets[a] = Nil
  BY BlueConstants DEF RegistryInit, InFlight, BuffersOf, NoZone
<1> QED BY <1>1, <1>2, <1>3 DEF BlueInv, OneZone, InSync

\* The request in hand and the tables, one step further.
LEMMA FindAssetKeeps ==
    ASSUME BlueInv, NEW r \in Requests, NEW a \in Assets, NEW p \in Footprints,
           FindAsset(r, a, p)
    PROVE  BlueInv'
<1>1. /\ statement[r] = "unmade" /\ request' = [request EXCEPT ![r] = [asset |-> a, at |-> p]]
      /\ statement'[r] \in {"insert", "update"} /\ request'[r] = [asset |-> a, at |-> p]
      /\ \A s \in Requests \ {r} : statement'[s] = statement[s] /\ request'[s] = request[s]
      /\ UNCHANGED <<assets, noStrikeZones, target, breakOffs, used, latest, brokenOff, removed>>
      /\ overlapped' = IF InFlight(a) = {} THEN overlapped ELSE overlapped \cup {a}
  BY DEF BlueInv, RegistryTypeOK, FindAsset
<1>2. RegistryTypeOK'
  BY <1>1 DEF BlueInv, RegistryTypeOK, FindAsset
<1>3. RequestsMade'
  BY <1>1 DEF BlueInv, RequestsMade, RegistryTypeOK
<1>4. ZonesOwned'
  BY <1>1 DEF BlueInv, ZonesOwned, NoZone
<1>5. WrittenStays'
  BY <1>1 DEF BlueInv, RequestsMade, WrittenStays
<1>6. ASSUME NEW b \in Assets \ overlapped' PROVE (OneZone(b) /\ InSync(b))'
  <2>1. b \notin overlapped /\ OneZone(b) /\ InSync(b) /\ BuffersOf(b)' = BuffersOf(b)
    BY <1>1 DEF BlueInv, BuffersOf
  <2>2. InFlight(b)' = IF b = a THEN InFlight(b) \cup {r} ELSE InFlight(b)
    BY <1>1 DEF InFlight
  <2>3. b = a => InFlight(b) = {}
    BY <1>1
  <2>4. r \notin InFlight(b)
    BY <1>1 DEF InFlight
  <2>5. CASE b = a
    <3>1. InFlight(b)' = {r}
      BY <2>2, <2>3, <2>5
    <3> QED BY <1>1, <2>1, <3>1 DEF OneZone, InSync
  <2>6. CASE b # a
    <3>1. \A s \in InFlight(b) : s # r /\ s \in Requests
      BY <2>4 DEF InFlight
    <3> QED BY <1>1, <2>1, <2>2, <2>6, <3>1 DEF OneZone, InSync
  <2> QED BY <2>5, <2>6
<1> QED BY <1>2, <1>3, <1>4, <1>5, <1>6 DEF BlueInv

\* A request that ends in an error, its zone written or not.
LEMMA EndsInError ==
    ASSUME BlueInv, NEW r \in Requests,
           statement[r] \in {"insert", "update", "findZone", "putZone", "answer"},
           statement' = [statement EXCEPT ![r] = "error"],
           brokenOff' = IF statement[r] = "answer" THEN brokenOff ELSE brokenOff \cup {request[r].asset},
           target' \in {target, [target EXCEPT ![r] = Nil]},
           breakOffs' \in 0..MaxBreakOffs,
           UNCHANGED <<assets, noStrikeZones, request, used, latest, removed, overlapped>>
    PROVE  BlueInv'
<1>1. /\ request[r] \in [asset: Assets, at: Footprints]
      /\ statement'[r] = "error" /\ \A s \in Requests \ {r} : statement'[s] = statement[s] /\ target'[s] = target[s]
  BY DEF BlueInv, RegistryTypeOK, RequestsMade
<1>2. RegistryTypeOK'
  BY <1>1 DEF BlueInv, RegistryTypeOK
<1>3. RequestsMade'
  BY <1>1 DEF BlueInv, RequestsMade, RegistryTypeOK
<1>4. ZonesOwned'
  BY <1>1 DEF BlueInv, ZonesOwned, NoZone
<1>5. WrittenStays'
  BY DEF BlueInv, WrittenStays
<1>6. ASSUME NEW b \in Assets \ overlapped' PROVE (OneZone(b) /\ InSync(b))'
  <2>1. OneZone(b) /\ InSync(b) /\ BuffersOf(b)' = BuffersOf(b)
    BY DEF BlueInv, BuffersOf
  <2>2. InFlight(b)' = InFlight(b) \ {r}
    BY <1>1 DEF InFlight
  <2>3. \A s \in InFlight(b)' : s \in Requests \ {r} /\ s \in InFlight(b)
    BY <2>2 DEF InFlight
  <2>4. OneZone(b)'
    BY <1>1, <2>1, <2>3 DEF OneZone
  <2>5. CASE r \in InFlight(b)
    <3>1. request[r].asset = b /\ statement[r] # "answer"
      BY <2>5 DEF InFlight
    <3> QED BY <2>4, <3>1 DEF InSync
  <2>6. CASE r \notin InFlight(b)
    <3>1. InFlight(b)' = InFlight(b)
      BY <2>2, <2>6
    <3> QED BY <2>1, <2>4, <3>1 DEF InSync
  <2> QED BY <2>5, <2>6
<1> QED BY <1>2, <1>3, <1>4, <1>5, <1>6 DEF BlueInv

LEMMA WriteAssetKeeps ==
    ASSUME BlueInv, NEW r \in Requests, WriteAsset(r)
    PROVE  BlueInv'
<1> DEFINE a == request[r].asset
<1>1. CASE Refuse(r) /\ statement[r] \in {"insert", "update"}
  BY <1>1, EndsInError DEF Refuse, BlueInv, RegistryTypeOK
<1>2. CASE /\ statement[r] \in {"insert", "update"}
           /\ assets' = [assets EXCEPT ![a] = request[r].at]
           /\ statement' = [statement EXCEPT ![r] = "findZone"]
           /\ UNCHANGED <<noStrikeZones, request, target, breakOffs, used, latest, brokenOff, removed, overlapped>>
  <2>1. /\ request[r] \in [asset: Assets, at: Footprints] /\ a \in Assets
        /\ statement'[r] = "findZone" /\ \A s \in Requests \ {r} : statement'[s] = statement[s]
        /\ assets'[a] = request[r].at /\ \A b \in Assets \ {a} : assets'[b] = assets[b]
    BY <1>2 DEF BlueInv, RegistryTypeOK, RequestsMade
  <2>2. RegistryTypeOK'
    BY <1>2, <2>1 DEF BlueInv, RegistryTypeOK
  <2>3. RequestsMade'
    BY <1>2, <2>1 DEF BlueInv, RequestsMade, RegistryTypeOK
  <2>4. ZonesOwned'
    BY <1>2, <2>1 DEF BlueInv, ZonesOwned, NoZone
  <2>5. WrittenStays'
    BY <1>2 DEF BlueInv, WrittenStays
  <2>6. ASSUME NEW b \in Assets \ overlapped' PROVE (OneZone(b) /\ InSync(b))'
    <3>1. /\ OneZone(b) /\ InSync(b)
          /\ BuffersOf(b)' = BuffersOf(b) /\ InFlight(b)' = InFlight(b)
      BY <1>2, <2>1 DEF BlueInv, BuffersOf, InFlight
    <3>2. b = a => r \in InFlight(b)
      BY <1>2 DEF InFlight
    <3>3. OneZone(b)'
      BY <1>2, <2>1, <3>1, <3>2 DEF OneZone, InFlight
    <3>4. InSync(b)'
      BY <1>2, <2>1, <3>1, <3>2 DEF InSync
    <3> QED BY <3>3, <3>4
  <2> QED BY <2>2, <2>3, <2>4, <2>5, <2>6 DEF BlueInv
<1> QED BY <1>1, <1>2 DEF WriteAsset

LEMMA FindZoneKeeps ==
    ASSUME BlueInv, NEW r \in Requests, FindZone(r)
    PROVE  BlueInv'
<1> DEFINE a == request[r].asset
<1>1. PICK z \in ZoneIds :
          /\ target' = [target EXCEPT ![r] = z]
          /\ \/ z \in BuffersOf(a) /\ used' = used
             \/ BuffersOf(a) = {} /\ z \notin used /\ used' = used \cup {z}
  BY DEF FindZone, BuffersOf
<1>2. /\ statement[r] = "findZone" /\ statement' = [statement EXCEPT ![r] = "putZone"]
      /\ UNCHANGED <<assets, noStrikeZones, request, breakOffs, latest, brokenOff, removed, overlapped>>
  BY DEF FindZone
<1>3. /\ request[r] \in [asset: Assets, at: Footprints] /\ a \in Assets /\ a # Nil
      /\ statement'[r] = "putZone" /\ target'[r] = z
      /\ \A s \in Requests \ {r} : statement'[s] = statement[s] /\ target'[s] = target[s]
  BY <1>1, <1>2, BlueConstants DEF BlueInv, RegistryTypeOK, RequestsMade
<1>4. RegistryTypeOK'
  BY <1>1, <1>2 DEF BlueInv, RegistryTypeOK
<1>5. RequestsMade'
  BY <1>2, <1>3 DEF BlueInv, RequestsMade, RegistryTypeOK
<1>6. ZonesOwned'
  <2>1. z \in BuffersOf(a) => noStrikeZones[z].asset = a /\ noStrikeZones[z] # NoZone /\ z \in used
    BY <1>3 DEF BuffersOf, BlueInv, ZonesOwned, NoZone
  <2>2. z \notin used => noStrikeZones[z] = NoZone /\ \A s \in Requests : statement[s] = "putZone" => target[s] # z
    BY DEF BlueInv, ZonesOwned
  <2>3. \A s \in Requests \ {r} :
            statement'[s] = "putZone" /\ target'[s] = z => request[s].asset = a
    BY <1>1, <1>3, <2>1, <2>2 DEF BlueInv, ZonesOwned
  <2>4. z \in used' /\ used \subseteq used'
    BY <1>1, <2>1
  <2>5. noStrikeZones[z] = NoZone \/ noStrikeZones[z].asset = a
    BY <1>1, <2>1, <2>2
  <2> QED BY <1>2, <1>3, <2>3, <2>4, <2>5 DEF BlueInv, ZonesOwned, NoZone
<1>7. WrittenStays'
  BY <1>2 DEF BlueInv, WrittenStays
<1>8. ASSUME NEW b \in Assets \ overlapped' PROVE (OneZone(b) /\ InSync(b))'
  <2>1. /\ OneZone(b) /\ InSync(b)
        /\ BuffersOf(b)' = BuffersOf(b) /\ InFlight(b)' = InFlight(b)
    BY <1>2, <1>3 DEF BlueInv, BuffersOf, InFlight
  <2>2. b = a => BuffersOf(b) \subseteq {z}
    BY <1>1, <2>1 DEF OneZone
  <2>3. r \in InFlight(b) => b = a
    BY DEF InFlight
  <2>4. OneZone(b)'
    BY <1>2, <1>3, <2>1, <2>2, <2>3 DEF OneZone, InFlight
  <2>5. InSync(b)'
    BY <1>2, <2>1 DEF InSync
  <2> QED BY <2>4, <2>5
<1> QED BY <1>4, <1>5, <1>6, <1>7, <1>8 DEF BlueInv

LEMMA PutZoneKeeps ==
    ASSUME BlueInv, NEW r \in Requests, PutZone(r)
    PROVE  BlueInv'
<1> DEFINE a == request[r].asset
           z == target[r]
<1>1. /\ statement[r] = "putZone" /\ statement' = [statement EXCEPT ![r] = "answer"]
      /\ noStrikeZones' = [noStrikeZones EXCEPT ![z] = request[r]] /\ target' = [target EXCEPT ![r] = Nil]
      /\ latest' = [latest EXCEPT ![a] = r]
      /\ brokenOff' = brokenOff \ {a} /\ removed' = removed \ {a}
      /\ UNCHANGED <<assets, request, breakOffs, used, overlapped>>
  BY DEF PutZone
<1>2. /\ request[r] \in [asset: Assets, at: Footprints] /\ a \in Assets /\ a # Nil
      /\ z \in used /\ z \in ZoneIds
      /\ noStrikeZones[z] = NoZone \/ noStrikeZones[z].asset = a
  BY <1>1, BlueConstants DEF BlueInv, RegistryTypeOK, RequestsMade, ZonesOwned
<1>3. /\ statement'[r] = "answer" /\ \A s \in Requests \ {r} : statement'[s] = statement[s] /\ target'[s] = target[s]
      /\ noStrikeZones'[z] = request[r] /\ \A y \in ZoneIds \ {z} : noStrikeZones'[y] = noStrikeZones[y]
      /\ latest'[a] = r /\ \A b \in Assets \ {a} : latest'[b] = latest[b]
  BY <1>1, <1>2 DEF BlueInv, RegistryTypeOK
<1>4. RegistryTypeOK'
  BY <1>1, <1>2 DEF BlueInv, RegistryTypeOK, Zone
<1>5. RequestsMade'
  <2>1. RequestsMade /\ latest \in [Assets -> Requests \cup {Nil}] /\ r # Nil
    BY BlueConstants DEF BlueInv, RegistryTypeOK
  <2>2. \A s \in Requests : statement'[s] # "unmade" => request'[s] \in [asset: Assets, at: Footprints]
    BY <1>1, <1>2, <1>3, <2>1 DEF RequestsMade
  <2>3. ASSUME NEW b \in Assets, latest'[b] # Nil
        PROVE  statement'[latest'[b]] \in {"answer", "answered", "error"} /\ request'[latest'[b]].asset = b
    <3>1. CASE b = a
      BY <1>1, <1>3, <3>1
    <3>2. CASE b # a
      <4>1. latest'[b] = latest[b] /\ latest[b] \in Requests /\ latest[b] # r
        BY <1>1, <1>3, <2>1, <2>3, <3>2 DEF RequestsMade
      <4> QED BY <1>1, <1>3, <2>1, <2>3, <4>1 DEF RequestsMade
    <3> QED BY <3>1, <3>2
  <2>4. ASSUME NEW s \in Requests, statement'[s] \in {"answer", "answered"}
        PROVE  latest'[request'[s].asset] # Nil
    <3>1. CASE request[s].asset = a
      BY <1>1, <1>3, <2>1, <3>1
    <3>2. CASE request[s].asset # a
      <4>1. s # r /\ statement'[s] = statement[s] /\ request[s].asset \in Assets
        BY <1>3, <2>1, <2>4, <3>2 DEF RequestsMade
      <4> QED BY <1>1, <1>3, <2>1, <2>4, <3>2, <4>1 DEF RequestsMade
    <3> QED BY <3>1, <3>2
  <2> QED BY <2>2, <2>3, <2>4 DEF RequestsMade
<1>6. ZonesOwned'
  <2>1. \A s \in Requests \ {r} : statement'[s] = "putZone" /\ target'[s] = z => request[s].asset = a
    BY <1>1, <1>3 DEF BlueInv, ZonesOwned
  <2>2. \A s \in Requests \ {r} : statement'[s] = "putZone" => target'[s] \in ZoneIds
    BY <1>3 DEF BlueInv, ZonesOwned, RegistryTypeOK
  <2> QED BY <1>1, <1>2, <1>3, <2>1, <2>2 DEF BlueInv, ZonesOwned, NoZone
<1>7. WrittenStays'
  <2>1. ASSUME NEW b \in Assets, latest'[b] # Nil, b \notin removed'
        PROVE  \E y \in ZoneIds : noStrikeZones'[y] = request'[latest'[b]]
    <3>1. CASE b = a
      BY <1>1, <1>2, <1>3, <3>1
    <3>2. CASE b # a
      <4>1. PICK y \in ZoneIds : noStrikeZones[y] = request[latest[b]]
        BY <1>1, <1>3, <2>1, <3>2 DEF BlueInv, WrittenStays
      <4>2. noStrikeZones[y].asset = b
        BY <1>3, <2>1, <3>2, <4>1 DEF BlueInv, RequestsMade
      <4>3. y # z
        BY <1>2, <3>2, <4>2, BlueConstants DEF NoZone
      <4> QED BY <1>1, <1>3, <3>2, <4>1, <4>3
    <3> QED BY <3>1, <3>2
  <2> QED BY <2>1 DEF WrittenStays
<1>8. ASSUME NEW b \in Assets \ overlapped' PROVE (OneZone(b) /\ InSync(b))'
  <2>1. OneZone(b) /\ InSync(b)
    BY <1>1 DEF BlueInv
  <2>2. InFlight(b)' = InFlight(b) \ {r}
    BY <1>1, <1>3 DEF InFlight
  <2>3. CASE b = a
    <3>1. r \in InFlight(b)
      BY <1>1, <2>3 DEF InFlight
    <3>2. /\ InFlight(b)' = {} /\ BuffersOf(b) \subseteq {z}
          /\ assets[b] \in {Nil, request[r].at}
      BY <1>1, <2>1, <2>2, <3>1 DEF OneZone
    <3>3. BuffersOf(b)' = {z}
      BY <1>2, <1>3, <2>3, <3>2 DEF BuffersOf
    <3> QED BY <1>1, <1>3, <3>2, <3>3 DEF OneZone, InSync
  <2>4. CASE b # a
    <3>1. BuffersOf(b)' = BuffersOf(b)
      BY <1>2, <1>3, <2>4, BlueConstants DEF BuffersOf, NoZone
    <3>2. /\ InFlight(b)' = InFlight(b)
          /\ \A s \in InFlight(b) : s \in Requests \ {r}
      BY <2>2, <2>4 DEF InFlight
    <3>3. \A y \in BuffersOf(b) : noStrikeZones'[y] = noStrikeZones[y]
      BY <1>2, <1>3, <2>4, BlueConstants DEF BuffersOf, NoZone
    <3> QED BY <1>1, <1>3, <2>1, <2>4, <3>1, <3>2, <3>3 DEF OneZone, InSync
  <2> QED BY <2>3, <2>4
<1> QED BY <1>4, <1>5, <1>6, <1>7, <1>8 DEF BlueInv

LEMMA AnswerKeeps ==
    ASSUME BlueInv, NEW r \in Requests, Answer(r)
    PROVE  BlueInv'
<1>1. /\ statement[r] = "answer" /\ statement' = [statement EXCEPT ![r] = "answered"]
      /\ UNCHANGED <<assets, noStrikeZones, request, target, breakOffs, used, latest, brokenOff, removed, overlapped>>
  BY DEF Answer
<1>2. statement'[r] = "answered" /\ \A s \in Requests \ {r} : statement'[s] = statement[s]
  BY <1>1 DEF BlueInv, RegistryTypeOK
<1>3. RegistryTypeOK' /\ RequestsMade' /\ ZonesOwned' /\ WrittenStays'
  <2>1. RegistryTypeOK'
    BY <1>1 DEF BlueInv, RegistryTypeOK
  <2>2. RequestsMade'
    BY <1>1, <1>2 DEF BlueInv, RequestsMade, RegistryTypeOK
  <2>3. ZonesOwned' /\ WrittenStays'
    BY <1>1, <1>2 DEF BlueInv, ZonesOwned, WrittenStays, NoZone
  <2> QED BY <2>1, <2>2, <2>3
<1>4. ASSUME NEW b \in Assets \ overlapped' PROVE (OneZone(b) /\ InSync(b))'
  <2>1. /\ OneZone(b) /\ InSync(b) /\ BuffersOf(b)' = BuffersOf(b) /\ InFlight(b)' = InFlight(b)
        /\ \A s \in InFlight(b) : s \in Requests \ {r}
    BY <1>1, <1>2 DEF BlueInv, BuffersOf, InFlight
  <2> QED BY <1>1, <1>2, <2>1 DEF OneZone, InSync
<1> QED BY <1>1, <1>3, <1>4 DEF BlueInv

\* An operator's request changes neither a request under way nor its zone's owner.
LEMMA EditKeeps ==
    ASSUME BlueInv, Edit
    PROVE  BlueInv'
<1>1. UNCHANGED <<request, statement, target, breakOffs, latest, brokenOff, overlapped>>
  BY DEF Edit, DeleteAsset, CreateManualZone, DeleteNoStrikeZone
<1>2. RequestsMade' /\ \A a \in Assets : InFlight(a)' = InFlight(a)
  BY <1>1 DEF BlueInv, RequestsMade, InFlight
<1>3. CASE \E a \in Assets : DeleteAsset(a)
  <2>1. PICK a \in Assets : DeleteAsset(a)
    BY <1>3
  <2>2. /\ assets'[a] = Nil /\ \A b \in Assets \ {a} : assets'[b] = assets[b]
        /\ UNCHANGED <<noStrikeZones, used, removed>>
    BY <2>1 DEF DeleteAsset, BlueInv, RegistryTypeOK
  <2>3. RegistryTypeOK' /\ ZonesOwned' /\ WrittenStays'
    BY <1>1, <2>1, <2>2 DEF BlueInv, RegistryTypeOK, ZonesOwned, WrittenStays,
                            DeleteAsset, NoZone
  <2>4. ASSUME NEW b \in Assets \ overlapped PROVE (OneZone(b) /\ InSync(b))'
    <3>1. OneZone(b) /\ InSync(b) /\ BuffersOf(b)' = BuffersOf(b)
      BY <2>2 DEF BlueInv, BuffersOf
    <3> QED BY <1>1, <1>2, <2>2, <3>1 DEF OneZone, InSync
  <2> QED BY <1>1, <1>2, <2>3, <2>4 DEF BlueInv
<1>4. CASE \E z \in ZoneIds, p \in Footprints : CreateManualZone(z, p)
  <2>1. PICK z \in ZoneIds, p \in Footprints : CreateManualZone(z, p)
    BY <1>4
  <2>2. /\ z \notin used /\ used' = used \cup {z} /\ UNCHANGED <<assets, removed>>
        /\ noStrikeZones'[z] = [asset |-> Nil, at |-> p] /\ \A y \in ZoneIds \ {z} : noStrikeZones'[y] = noStrikeZones[y]
        /\ noStrikeZones[z] = NoZone
    BY <2>1 DEF CreateManualZone, BlueInv, RegistryTypeOK, ZonesOwned
  <2>3. RegistryTypeOK'
    BY <1>1, <2>1, <2>2 DEF BlueInv, RegistryTypeOK, CreateManualZone, Zone
  <2>4. ZonesOwned'
    <3>1. \A s \in Requests : statement[s] = "putZone" => target[s] \in ZoneIds \ {z}
      BY <2>2 DEF BlueInv, ZonesOwned, RegistryTypeOK
    <3> QED BY <1>1, <2>2, <3>1 DEF BlueInv, ZonesOwned, NoZone
  <2>5. WrittenStays'
    <3>1. ASSUME NEW a \in Assets, latest[a] # Nil, a \notin removed
          PROVE  \E y \in ZoneIds : noStrikeZones'[y] = request[latest[a]]
      <4>1. PICK y \in ZoneIds : noStrikeZones[y] = request[latest[a]]
        BY <3>1 DEF BlueInv, WrittenStays
      <4>2. noStrikeZones[y].asset = a
        BY <3>1, <4>1 DEF BlueInv, RequestsMade
      <4> QED BY <2>2, <4>1, <4>2, BlueConstants DEF NoZone
    <3> QED BY <1>1, <2>2, <3>1 DEF WrittenStays
  <2>6. ASSUME NEW b \in Assets \ overlapped PROVE (OneZone(b) /\ InSync(b))'
    <3>1. OneZone(b) /\ InSync(b)
      BY DEF BlueInv
    <3>2. /\ BuffersOf(b)' = BuffersOf(b)
          /\ \A y \in BuffersOf(b) : noStrikeZones'[y] = noStrikeZones[y]
      BY <2>2, BlueConstants DEF BuffersOf, NoZone
    <3> QED BY <1>1, <1>2, <2>2, <3>1, <3>2 DEF OneZone, InSync
  <2> QED BY <1>1, <1>2, <2>3, <2>4, <2>5, <2>6 DEF BlueInv
<1>5. CASE \E z \in ZoneIds : DeleteNoStrikeZone(z)
  <2>1. PICK z \in ZoneIds : DeleteNoStrikeZone(z)
    BY <1>5
  <2>2. /\ noStrikeZones'[z] = NoZone /\ \A y \in ZoneIds \ {z} : noStrikeZones'[y] = noStrikeZones[y]
        /\ UNCHANGED <<assets, used>>
        /\ removed \subseteq removed'
        /\ \A a \in Assets : noStrikeZones[z].asset = a => a \in removed'
    BY <2>1, BlueConstants DEF DeleteNoStrikeZone, BlueInv, RegistryTypeOK
  <2>3. RegistryTypeOK'
    BY <1>1, <2>1, <2>2 DEF BlueInv, RegistryTypeOK, DeleteNoStrikeZone, Zone, NoZone
  <2>4. ZonesOwned'
    <3>1. \A s \in Requests : statement[s] = "putZone" => target[s] \in ZoneIds
      BY DEF BlueInv, ZonesOwned, RegistryTypeOK
    <3> QED BY <1>1, <2>2, <3>1 DEF BlueInv, ZonesOwned, NoZone
  <2>5. WrittenStays'
    <3>1. ASSUME NEW a \in Assets, latest[a] # Nil, a \notin removed'
          PROVE  \E y \in ZoneIds : noStrikeZones'[y] = request[latest[a]]
      <4>1. PICK y \in ZoneIds : noStrikeZones[y] = request[latest[a]]
        BY <2>2, <3>1 DEF BlueInv, WrittenStays
      <4>2. noStrikeZones[y].asset = a
        BY <3>1, <4>1 DEF BlueInv, RequestsMade
      <4> QED BY <2>2, <3>1, <4>1, <4>2
    <3> QED BY <1>1, <3>1 DEF WrittenStays
  <2>6. ASSUME NEW b \in Assets \ overlapped PROVE (OneZone(b) /\ InSync(b))'
    <3>1. OneZone(b) /\ InSync(b)
      BY DEF BlueInv
    <3>2. /\ BuffersOf(b)' = BuffersOf(b) \ {z}
          /\ \A y \in BuffersOf(b)' : noStrikeZones'[y] = noStrikeZones[y]
          /\ z \in BuffersOf(b) => b \in removed'
      BY <2>2, BlueConstants DEF BuffersOf, NoZone
    <3> QED BY <1>1, <1>2, <2>2, <3>1, <3>2 DEF OneZone, InSync
  <2> QED BY <1>1, <1>2, <2>3, <2>4, <2>5, <2>6 DEF BlueInv
<1> QED BY <1>3, <1>4, <1>5 DEF Edit

LEMMA BlueInvNext ==
    ASSUME BlueInv, [RegistryNext]_registryVars
    PROVE  BlueInv'
<1>1. ASSUME NEW r \in Requests, BreakOff(r) PROVE BlueInv'
  <2>1. breakOffs' \in 0..MaxBreakOffs
    BY <1>1, BlueConstants DEF BreakOff, BlueInv, RegistryTypeOK
  <2> QED BY <1>1, <2>1, EndsInError DEF BreakOff
<1>2. CASE UNCHANGED registryVars
  <2>1. RegistryTypeOK' /\ RequestsMade' /\ ZonesOwned' /\ WrittenStays'
    BY <1>2 DEF BlueInv, registryVars, RegistryTypeOK, RequestsMade, ZonesOwned, WrittenStays,
                NoZone
  <2>2. ASSUME NEW b \in Assets \ overlapped PROVE (OneZone(b) /\ InSync(b))'
    BY <1>2 DEF BlueInv, registryVars, OneZone, InSync, InFlight, BuffersOf
  <2> QED BY <1>2, <2>1, <2>2 DEF BlueInv, registryVars
<1> QED BY <1>1, <1>2, FindAssetKeeps, WriteAssetKeeps, FindZoneKeeps, PutZoneKeeps, AnswerKeeps, EditKeeps
        DEF RegistryNext, Upsert

LEMMA BlueInvAlways == RegistrySpec => []BlueInv
<1>1. RegistryInit => BlueInv
  BY BlueInit
<1>2. BlueInv /\ [RegistryNext]_registryVars => BlueInv'
  BY BlueInvNext
<1> QED BY <1>1, <1>2, PTL DEF RegistrySpec

\* The buffer zone is kept in sync with its asset, unless two requests about it have
\* overlapped or one was broken off before the zone was last written (upsertBlueForceAsset in blueforce/queries.ts).
THEOREM ZoneFollowsAsset == RegistrySpec => []ZoneInSync
<1>1. BlueInv => ZoneInSync
  <2> SUFFICES ASSUME BlueInv, NEW a \in Assets, assets[a] # Nil, InFlight(a) = {},
                      a \notin brokenOff \cup overlapped
               PROVE  /\ \/ Cardinality(BuffersOf(a)) = 1
                         \/ a \in removed /\ BuffersOf(a) = {}
                      /\ \A z \in BuffersOf(a) : noStrikeZones[z].at = assets[a]
    BY DEF ZoneInSync
  <2>1. OneZone(a) /\ InSync(a)
    BY DEF BlueInv
  <2>2. ASSUME NEW z \in BuffersOf(a) PROVE Cardinality(BuffersOf(a)) = 1
    <3>1. BuffersOf(a) = {z}
      BY <2>1, <2>2 DEF OneZone
    <3> QED BY <3>1, FS_Singleton
  <2> QED BY <2>1, <2>2 DEF InSync
<1>2. RegistrySpec => []BlueInv
  BY BlueInvAlways
<1> QED BY <1>1, <1>2, PTL

\* Nobody but an operator and a request about the asset that writes later takes away
\* the zone of an answered request, however requests overlap and break off.
THEOREM AnsweredStays == RegistrySpec => []AnsweredIsCovered
<1>1. BlueInv => AnsweredIsCovered
  BY DEF BlueInv, RegistryTypeOK, RequestsMade, WrittenStays, AnsweredIsCovered
<1>2. RegistrySpec => []BlueInv
  BY BlueInvAlways
<1> QED BY <1>1, <1>2, PTL

------------------------------------------------------------------------------
(* The report scheduling.                                                  *)

\* What a tick is at between picking a schedule and being done with it.
Handling == {"create", "generate", "deliver", "stamp"}

\* A tick handles a schedule or none, and lists every other at most once.
Loop ==
    \A t \in Ticks :
        /\ IF tick[t].at \in Handling THEN tick[t].schedule \in Schedules ELSE tick[t].schedule = Unset
        /\ tick[t].at = "deliver" => tick[t].to > 0
        /\ \A x, y \in tick[t].todo : x.schedule = y.schedule => x = y
        /\ \A x \in tick[t].todo : x.schedule # tick[t].schedule

\* There is no tick after the last one, nor what only a later tick could have done.
NothingLater ==
    /\ \A t \in Ticks : t > lastTick => tick[t] = NotRunning
    /\ \A m \in mails : m[3] <= lastTick
    /\ \A s \in Schedules : lastRun[s] # Unset => lastRun[s] <= lastTick

\* Which mails of a tick have been sent tells from where it stands, and a schedule that
\* was stamped has sent all.
Mailed(s, t) == \A i \in 1..Recipients : <<s, i, t>> \in mails
SentBy(t) ==
    /\ \A x \in tick[t].todo : \A m \in mails : ~(m[1] = x.schedule /\ m[3] = t)
    /\ tick[t].at \in {"create", "generate"} =>
          \A m \in mails : ~(m[1] = tick[t].schedule /\ m[3] = t)
    /\ tick[t].at = "deliver" =>
          /\ reports[<<tick[t].schedule, t>>] = "COMPLETE"
          /\ \A i \in 1..(tick[t].to - 1) : <<tick[t].schedule, i, t>> \in mails
    /\ tick[t].at = "stamp" => Mailed(tick[t].schedule, t)
MailsSent ==
    /\ \A t \in Ticks : SentBy(t)
    /\ \A s \in Schedules : lastRun[s] # Unset => Mailed(s, lastRun[s])
    /\ \A m \in mails : reports[<<m[1], m[3]>>] = "COMPLETE"

\* A firing that was not mailed about is seen to by the last tick, unless that was
\* cut short.
SeenTo(s, f, t) ==
    /\ t >= f
    /\ \/ tick[t].schedule = s
       \/ \E x \in tick[t].todo : x.schedule = s /\ (x.last = Unset \/ x.last < f)
NothingOwed ==
    \A s \in Schedules, f \in 1..lastTick :
        f \in Fires[s] => MailedSince(s, f) \/ <<s, lastTick>> \in cutShort \/ SeenTo(s, f, lastTick)

\* Inductive: the firings of the past are mailed about or in the last tick's hand.
RepInv == DispatchTypeOK /\ Loop /\ NothingLater /\ MailsSent /\ NothingOwed

LEMMA RepConstants ==
    /\ MaxTime \in Nat /\ MaxFaults \in Nat /\ MaxRestarts \in Nat /\ Recipients \in Nat
    /\ Fires \in [Schedules -> SUBSET (1..MaxTime)]
    /\ Unset \notin Schedules /\ Unset \notin 0..MaxTime
    /\ Ticks = 1..MaxTime
BY DispatchAssumption DEF Ticks

\* What a tick is once a schedule is done with.
LEMMA RestIs ==
    ASSUME NEW rows \in SUBSET Row
    PROVE  /\ Rest(rows) \in [at: {"none", "pick"}, todo: SUBSET Row, schedule: {Unset}, to: {0}]
           /\ Rest(rows).todo = rows
BY DEF Rest, NotRunning

LEMMA RepInit == ASSUME DispatchInit PROVE RepInv
<1>1. \A t \in Ticks : tick[t] = NotRunning
  BY DEF DispatchInit
<1>2. DispatchTypeOK
  <2>1. NotRunning \in [at: {"none", "pick", "create", "generate", "deliver", "stamp"},
                           todo: SUBSET Row, schedule: Schedules \cup {Unset}, to: 0..Recipients]
    BY RepConstants DEF NotRunning
  <2>2. mails \subseteq Schedules \X (1..Recipients) \X Ticks
    BY DEF DispatchInit
  <2>3. tick \in [Ticks -> [at: {"none", "pick", "create", "generate", "deliver", "stamp"},
                           todo: SUBSET Row, schedule: Schedules \cup {Unset}, to: 0..Recipients]]
    BY <2>1 DEF DispatchInit
  <2>4. reports \in [Schedules \X Ticks -> Status]
    BY DEF DispatchInit, Status
  <2>5. /\ clock = 0 /\ lastRun \in [Schedules -> Ticks \cup {Unset}] /\ faults = 0 /\ restarts = 0
        /\ lastTick = 0 /\ cutShort = {} /\ ticksOverlapped \in BOOLEAN
    BY DEF DispatchInit
  <2> QED BY <2>2, <2>3, <2>4, <2>5, RepConstants DEF DispatchTypeOK
<1>3. Loop
  BY <1>1 DEF Loop, NotRunning, Handling
<1>4. NothingLater /\ MailsSent
  BY <1>1 DEF NothingLater, MailsSent, SentBy, NotRunning, DispatchInit
<1>5. NothingOwed
  BY DEF NothingOwed, DispatchInit
<1> QED BY <1>2, <1>3, <1>4, <1>5 DEF RepInv

\* A tick goes on: what is preserved when no mail and no stamp changes.  It may take
\* up a schedule, if every firing that it was to see to stays seen to.
LEMMA TickGoesOn ==
    ASSUME RepInv, NEW t \in Ticks,
           NEW new \in [at: {"none", "pick"} \cup Handling, todo: SUBSET tick[t].todo,
                        schedule: Schedules \cup {Unset}, to: 0..Recipients],
           tick[t].at # "none",
           tick' = [tick EXCEPT ![t] = new],
           IF new.at \in Handling THEN new.schedule \in Schedules ELSE new.schedule = Unset,
           new.at = "deliver" => new.to > 0,
           \A x \in new.todo : x.schedule # new.schedule,
           UNCHANGED <<lastTick>>, mails \subseteq mails', \A m \in mails' : m[3] <= lastTick,
           lastRun' = lastRun \/ \E s \in Schedules : lastRun' = [lastRun EXCEPT ![s] = t],
           \A s \in Schedules : \A f \in Fires[s] :
               SeenTo(s, f, t) => SeenTo(s, f, t)' \/ MailedSince(s, f)' \/ <<s, t>> \in cutShort',
           cutShort \subseteq cutShort'
    PROVE  Loop' /\ NothingLater' /\ NothingOwed'
<1>1. /\ tick'[t] = new /\ \A u \in Ticks \ {t} : tick'[u] = tick[u]
      /\ t <= lastTick /\ lastTick \in Nat
  BY RepConstants DEF RepInv, DispatchTypeOK, NothingLater, NotRunning
<1>2. Loop'
  BY <1>1 DEF RepInv, Loop
<1>3. NothingLater'
  <2>1. ASSUME NEW s \in Schedules PROVE lastRun'[s] # Unset => lastRun'[s] <= lastTick
    BY <1>1 DEF RepInv, NothingLater, DispatchTypeOK
  <2>2. ASSUME NEW u \in Ticks, u > lastTick PROVE tick'[u] = NotRunning
    BY <1>1, <2>2, RepConstants DEF RepInv, NothingLater
  <2> QED BY <2>1, <2>2 DEF NothingLater
<1>4. ASSUME NEW s \in Schedules, NEW f \in 1..lastTick', f \in Fires[s]
      PROVE  MailedSince(s, f)' \/ <<s, lastTick>> \in cutShort' \/ SeenTo(s, f, lastTick)'
  <2>1. MailedSince(s, f) => MailedSince(s, f)'
    BY DEF MailedSince
  <2>2. CASE SeenTo(s, f, lastTick)
    <3>1. lastTick \in Ticks
      BY <1>1, <1>4, RepConstants DEF RepInv, DispatchTypeOK
    <3>2. lastTick # t => SeenTo(s, f, lastTick)'
      BY <1>1, <2>2, <3>1 DEF SeenTo
    <3> QED BY <1>4, <2>2, <3>2
  <2> QED BY <2>1, <2>2, <1>4 DEF RepInv, NothingOwed
<1> QED BY <1>2, <1>3, <1>4 DEF NothingOwed

\* A mail as its three parts, and the states of the tick that sends it.
LEMMA MailIs ==
    ASSUME DispatchTypeOK, NEW m \in mails
    PROVE  m[1] \in Schedules /\ m[2] \in 1..Recipients /\ m[3] \in Ticks /\ m = <<m[1], m[2], m[3]>>
BY DEF DispatchTypeOK

TickType ==
    [at: {"none", "pick", "create", "generate", "deliver", "stamp"}, todo: SUBSET Row,
     schedule: Schedules \cup {Unset}, to: 0..Recipients]

\* The bookkeeping of one tick's step.
LEMMA TickTyped ==
    ASSUME DispatchTypeOK, NEW t \in Ticks, NEW new \in TickType, tick' = [tick EXCEPT ![t] = new]
    PROVE  /\ tick' \in [Ticks -> TickType] /\ tick'[t] = new
           /\ \A u \in Ticks \ {t} : tick'[u] = tick[u]
BY DEF DispatchTypeOK, TickType

LEMMA PickKeeps ==
    ASSUME RepInv, NEW t \in Ticks, Pick(t)
    PROVE  RepInv'
<1>1. /\ tick[t].at = "pick"
      /\ UNCHANGED <<clock, lastRun, reports, mails, faults, restarts, lastTick, cutShort, ticksOverlapped>>
      /\ tick[t] \in TickType
  BY DEF Pick, RepInv, DispatchTypeOK, TickType
<1>2. PICK row \in tick[t].todo :
          tick' = [tick EXCEPT ![t] =
              IF IsDue(row.schedule, row.last, t)
              THEN [NotRunning EXCEPT !.at = "create", !.todo = tick[t].todo \ {row},
                                          !.schedule = row.schedule]
              ELSE Rest(tick[t].todo \ {row})]
  BY DEF Pick
<1> DEFINE rest == tick[t].todo \ {row}
<1>3. rest \in SUBSET Row /\ row \in Row /\ row.schedule \in Schedules
  BY <1>1, <1>2 DEF TickType, Row
<1>4. PICK new \in TickType :
          /\ tick' = [tick EXCEPT ![t] = new]
          /\ new.todo = rest
          /\ \/ /\ IsDue(row.schedule, row.last, t)
                /\ new.at = "create" /\ new.schedule = row.schedule
             \/ /\ ~IsDue(row.schedule, row.last, t)
                /\ new.at \in {"none", "pick"} /\ new.schedule = Unset
  <2>1. CASE IsDue(row.schedule, row.last, t)
    <3> DEFINE due == [NotRunning EXCEPT !.at = "create", !.todo = rest, !.schedule = row.schedule]
    <3>1. NotRunning \in TickType
      BY RepConstants DEF TickType, NotRunning
    <3>2. due \in TickType /\ due.todo = rest /\ due.at = "create" /\ due.schedule = row.schedule
      BY <1>3, <3>1 DEF TickType
    <3> QED BY <1>2, <2>1, <3>2
  <2>2. CASE ~IsDue(row.schedule, row.last, t)
    <3>1. Rest(rest) \in TickType
      BY <1>3, RestIs, RepConstants DEF TickType
    <3> QED BY <1>2, <1>3, <2>2, <3>1, RestIs
  <2> QED BY <2>1, <2>2
<1> HIDE DEF rest
<1>5. /\ tick' \in [Ticks -> TickType] /\ tick'[t] = new
      /\ \A u \in Ticks \ {t} : tick'[u] = tick[u]
  BY <1>4, TickTyped DEF RepInv
<1>6. DispatchTypeOK'
  BY <1>1, <1>5 DEF RepInv, DispatchTypeOK, TickType
<1>7. MailsSent'
  <2>1. ASSUME NEW m \in mails PROVE ~(m[1] = row.schedule /\ m[3] = t)
    BY <1>2 DEF RepInv, MailsSent, SentBy
  <2>2. \A x \in new.todo : x \in tick[t].todo
    BY <1>4 DEF rest
  <2>3. new.at \in {"none", "pick", "create"} /\ (new.at = "create" => new.schedule = row.schedule)
    BY <1>4
  <2>4. SentBy(t)'
    BY <1>1, <1>5, <2>1, <2>2, <2>3 DEF RepInv, MailsSent, SentBy
  <2>5. ASSUME NEW u \in Ticks \ {t} PROVE SentBy(u)'
    BY <1>1, <1>5 DEF RepInv, MailsSent, SentBy, Mailed
  <2> QED BY <1>1, <2>4, <2>5 DEF RepInv, MailsSent, Mailed
<1>8. Loop' /\ NothingLater' /\ NothingOwed'
  <2>1. \A x \in new.todo : x.schedule # new.schedule
    <3>1. \A x \in rest : x.schedule # row.schedule /\ x.schedule # Unset
      BY <1>2, <1>3, RepConstants DEF RepInv, Loop, rest, Row
    <3> QED BY <1>4, <3>1
  <2>2. new \in [at: {"none", "pick"} \cup Handling, todo: SUBSET tick[t].todo,
                 schedule: Schedules \cup {Unset}, to: 0..Recipients]
    BY <1>4 DEF TickType, Handling, rest
  <2>3. ASSUME NEW s \in Schedules, NEW f \in Fires[s], SeenTo(s, f, t)
        PROVE  SeenTo(s, f, t)'
    <3>1. tick[t].schedule = Unset /\ s # Unset
      BY <1>1, RepConstants DEF RepInv, Loop, Handling
    <3>2. PICK x \in tick[t].todo : x.schedule = s /\ (x.last = Unset \/ x.last < f)
      BY <2>3, <3>1 DEF SeenTo
    <3>3. CASE x = row
      <4>1. IsDue(row.schedule, row.last, t)
        BY <2>3, <3>2, <3>3 DEF IsDue, SeenTo
      <4> QED BY <1>4, <1>5, <2>3, <3>2, <3>3, <4>1 DEF SeenTo
    <3>4. CASE x # row
      BY <1>4, <1>5, <2>3, <3>2, <3>4 DEF SeenTo, rest
    <3> QED BY <3>3, <3>4
  <2>4. IF new.at \in Handling THEN new.schedule \in Schedules ELSE new.schedule = Unset
    BY <1>3, <1>4 DEF Handling
  <2>5. \A m \in mails' : m[3] <= lastTick
    BY <1>1 DEF RepInv, NothingLater
  <2> QED BY <1>1, <1>4, <2>1, <2>2, <2>3, <2>4, <2>5, TickGoesOn
<1> QED BY <1>6, <1>7, <1>8 DEF RepInv

\* A tick that an unparsable expression ends sees to nothing any more.
LEMMA PickThrowsKeeps ==
    ASSUME RepInv, NEW t \in Ticks, PickThrows(t)
    PROVE  RepInv'
<1>1. /\ tick[t].at = "pick" /\ tick' = [tick EXCEPT ![t] = NotRunning]
      /\ cutShort' = cutShort \cup Pending(t) \X {t}
      /\ UNCHANGED <<clock, lastRun, reports, mails, faults, restarts, lastTick, ticksOverlapped>>
  BY DEF PickThrows
<1>2. /\ NotRunning \in TickType /\ NotRunning.at = "none" /\ NotRunning.todo = {}
      /\ NotRunning.schedule = Unset
  BY RepConstants DEF TickType, NotRunning
<1>3. /\ tick' \in [Ticks -> TickType] /\ tick'[t] = NotRunning
      /\ \A u \in Ticks \ {t} : tick'[u] = tick[u]
  BY <1>1, <1>2, TickTyped DEF RepInv
<1>4. Pending(t) \subseteq Schedules
  BY DEF RepInv, DispatchTypeOK, Row, Pending
<1>5. DispatchTypeOK'
  <2>1. cutShort' \subseteq Schedules \X Ticks
    BY <1>1, <1>4 DEF RepInv, DispatchTypeOK
  <2> QED BY <1>1, <1>3, <2>1 DEF RepInv, DispatchTypeOK, TickType
<1>6. MailsSent'
  <2>1. SentBy(t)'
    BY <1>2, <1>3 DEF SentBy
  <2>2. ASSUME NEW u \in Ticks \ {t} PROVE SentBy(u)'
    BY <1>1, <1>3 DEF RepInv, MailsSent, SentBy, Mailed
  <2> QED BY <1>1, <2>1, <2>2 DEF RepInv, MailsSent, Mailed
<1>7. Loop' /\ NothingLater' /\ NothingOwed'
  <2>1. PICK new \in [at: {"none", "pick"} \cup Handling, todo: SUBSET tick[t].todo,
                      schedule: Schedules \cup {Unset}, to: 0..Recipients] : new = NotRunning
    <3>1. 0 \in 0..Recipients /\ {} \in SUBSET tick[t].todo
      BY RepConstants
    <3>2. NotRunning \in [at: {"none", "pick"} \cup Handling, todo: SUBSET tick[t].todo,
                          schedule: Schedules \cup {Unset}, to: 0..Recipients]
      BY <3>1 DEF NotRunning
    <3> QED BY <3>2
  <2>2. ASSUME NEW s \in Schedules, NEW f \in Fires[s], SeenTo(s, f, t) PROVE <<s, t>> \in cutShort'
    <3>1. s \in Pending(t)
      BY <2>2, RepConstants DEF SeenTo, Pending
    <3> QED BY <1>1, <3>1
  <2>3. new.at \notin Handling /\ new.at # "deliver" /\ new.schedule = Unset /\ new.todo = {}
    BY <1>2, <2>1 DEF Handling
  <2>4. \A m \in mails' : m[3] <= lastTick
    BY <1>1 DEF RepInv, NothingLater
  <2> QED BY <1>1, <2>1, <2>2, <2>3, <2>4, TickGoesOn
<1> QED BY <1>5, <1>6, <1>7 DEF RepInv

\* A tick is not concerned with the mails and the reports of another.
LEMMA OthersSent ==
    ASSUME DispatchTypeOK, NEW t \in Ticks, NEW u \in Ticks \ {t}, SentBy(u), tick'[u] = tick[u],
           mails \subseteq mails', \A m \in mails' \ mails : m[3] = t,
           \A s \in Schedules : reports'[<<s, u>>] = reports[<<s, u>>],
           tick[u].at = "deliver" => tick[u].schedule \in Schedules
    PROVE  SentBy(u)'
BY DEF SentBy, Mailed

\* The handling of a schedule goes on to a new state of the tick, with the report's
\* status and the mails as given; lastRun is left alone.
LEMMA HandlingKeeps ==
    ASSUME RepInv, NEW t \in Ticks,
           NEW new \in TickType, tick' = [tick EXCEPT ![t] = new],
           tick[t].at \in Handling, new.todo = tick[t].todo,
           \/ new.at \in Handling /\ new.schedule = tick[t].schedule
           \/ new.at \in {"none", "pick"} /\ new.schedule = Unset,
           new.at = "deliver" => new.to > 0,
           NEW status \in Status,
           \/ reports' = reports
           \/ reports' = [reports EXCEPT ![<<tick[t].schedule, t>>] = status],
           mails' = mails \/ \E i \in 1..Recipients : mails' = mails \cup {<<tick[t].schedule, i, t>>},
           \A m \in mails' : m[1] = tick[t].schedule /\ m[3] = t =>
               reports'[<<tick[t].schedule, t>>] = "COMPLETE",
           new.at \in {"create", "generate"} =>
               \A m \in mails' : ~(m[1] = tick[t].schedule /\ m[3] = t),
           new.at = "deliver" =>
               /\ reports'[<<tick[t].schedule, t>>] = "COMPLETE"
               /\ \A i \in 1..(new.to - 1) : <<tick[t].schedule, i, t>> \in mails',
           new.at = "stamp" => Mailed(tick[t].schedule, t)',
           \/ lastRun' = lastRun
           \/ lastRun' = [lastRun EXCEPT ![tick[t].schedule] = t] /\ Mailed(tick[t].schedule, t),
           new.at \in {"none", "pick"} =>
               <<tick[t].schedule, t>> \in cutShort' \/ Mailed(tick[t].schedule, t),
           UNCHANGED <<clock, lastTick, ticksOverlapped>>,
           restarts' \in 0..MaxRestarts, faults' \in 0..MaxFaults,
           cutShort' \in {cutShort, cutShort \cup {<<tick[t].schedule, t>>}}
    PROVE  RepInv'
<1> DEFINE s == tick[t].schedule
<1>1. /\ s \in Schedules /\ t \in 1..MaxTime /\ MaxTime \in Nat
      /\ tick' \in [Ticks -> TickType] /\ tick'[t] = new
      /\ \A u \in Ticks \ {t} : tick'[u] = tick[u]
      /\ t <= lastTick
  <2>1. tick[t] # NotRunning
    BY DEF Handling, NotRunning
  <2>2. t <= lastTick
    BY <2>1, RepConstants DEF RepInv, NothingLater, DispatchTypeOK
  <2> QED BY <2>2, TickTyped, RepConstants DEF RepInv, Loop
<1>2. ASSUME NEW q \in Schedules, NEW u \in Ticks
      PROVE  q # s \/ u # t => reports'[<<q, u>>] = reports[<<q, u>>]
  BY <1>1 DEF RepInv, DispatchTypeOK
<1>3. DispatchTypeOK'
  <2>1. reports' \in [Schedules \X Ticks -> Status]
    BY DEF RepInv, DispatchTypeOK
  <2>2. mails' \subseteq Schedules \X (1..Recipients) \X Ticks
    BY <1>1 DEF RepInv, DispatchTypeOK
  <2>3. lastRun' \in [Schedules -> Ticks \cup {Unset}]
    BY DEF RepInv, DispatchTypeOK
  <2>4. cutShort' \subseteq Schedules \X Ticks
    BY <1>1 DEF RepInv, DispatchTypeOK
  <2> QED BY <1>1, <2>1, <2>2, <2>3, <2>4 DEF RepInv, DispatchTypeOK, TickType
<1>4. MailsSent'
  <2>1. SentBy(t)'
    <3>1. \A x \in new.todo : x.schedule # s /\ \A m \in mails : ~(m[1] = x.schedule /\ m[3] = t)
      BY DEF RepInv, Loop, MailsSent, SentBy
    <3>2. \A m \in mails' \ mails : m[1] = s
      BY <1>1
    <3>3. \A x \in new.todo : \A m \in mails' : ~(m[1] = x.schedule /\ m[3] = t)
      BY <3>1, <3>2
    <3>4. new.at \in {"create", "generate", "deliver", "stamp"} => new.schedule = s
      BY <1>1, RepConstants DEF Handling
    <3> QED BY <1>1, <3>3, <3>4 DEF SentBy
  <2>2. ASSUME NEW u \in Ticks \ {t} PROVE SentBy(u)'
    <3>1. mails \subseteq mails' /\ \A m \in mails' \ mails : m[3] = t
      BY <1>1
    <3>2. tick[u].at = "deliver" => tick[u].schedule \in Schedules
      BY DEF RepInv, Loop, Handling
    <3> QED BY <1>1, <1>2, <3>1, <3>2, OthersSent DEF RepInv, MailsSent
  <2>3. ASSUME NEW q \in Schedules, lastRun'[q] # Unset PROVE Mailed(q, lastRun[q])'
    <3>1. CASE lastRun'[q] = lastRun[q]
      BY <2>3, <3>1 DEF RepInv, MailsSent, Mailed
    <3>2. CASE q = s /\ lastRun'[q] = t /\ Mailed(s, t)
      BY <3>2 DEF Mailed
    <3> QED BY <1>1, <3>1, <3>2 DEF RepInv, DispatchTypeOK
  <2>4. ASSUME NEW m \in mails' PROVE reports'[<<m[1], m[3]>>] = "COMPLETE"
    <3>1. CASE m[1] = s /\ m[3] = t
      BY <3>1
    <3>2. CASE ~(m[1] = s /\ m[3] = t)
      <4>1. m \in mails
        BY <3>2, <1>1
      <4> QED BY <1>2, <3>2, <4>1, MailIs DEF RepInv, MailsSent
    <3> QED BY <3>1, <3>2
  <2> QED BY <2>1, <2>2, <2>3, <2>4 DEF MailsSent
<1>5. Loop' /\ NothingLater' /\ NothingOwed'
  <2>1. new \in [at: {"none", "pick"} \cup Handling, todo: SUBSET tick[t].todo,
                 schedule: Schedules \cup {Unset}, to: 0..Recipients]
    BY DEF TickType, Handling
  <2>2. IF new.at \in Handling THEN new.schedule \in Schedules ELSE new.schedule = Unset
    BY <1>1 DEF Handling
  <2>3. \A x \in new.todo : x.schedule # new.schedule
    <3>1. \A x \in new.todo : x.schedule # s /\ x.schedule \in Schedules
      BY DEF RepInv, Loop, DispatchTypeOK, Row
    <3> QED BY <3>1, RepConstants
  <2>4. \A m \in mails' : m[3] <= lastTick
    BY <1>1 DEF RepInv, NothingLater
  <2>5. ASSUME NEW q \in Schedules, NEW f \in Fires[q], SeenTo(q, f, t), <<q, t>> \notin cutShort'
        PROVE  SeenTo(q, f, t)' \/ MailedSince(q, f)'
    <3>1. CASE q # s
      BY <1>1, <2>5, <3>1 DEF SeenTo
    <3>2. CASE q = s /\ new.at \in Handling
      BY <1>1, <2>5, <3>2, RepConstants DEF SeenTo, Handling
    <3>3. CASE q = s /\ new.at \in {"none", "pick"}
      <4>1. Mailed(s, t)
        BY <2>5, <3>3
      <4>2. t \in f..MaxTime
        BY <1>1, <2>5, RepConstants DEF SeenTo
      <4> QED BY <3>3, <4>1, <4>2 DEF Mailed, MailedSince
    <3> QED BY <3>1, <3>2, <3>3 DEF Handling
  <2>6. lastRun' = lastRun \/ \E q \in Schedules : lastRun' = [lastRun EXCEPT ![q] = t]
    BY <1>1
  <2>7. mails \subseteq mails' /\ cutShort \subseteq cutShort' /\ tick[t].at # "none"
    BY DEF Handling
  <2> QED BY <2>1, <2>2, <2>3, <2>4, <2>5, <2>6, <2>7, TickGoesOn
<1> QED BY <1>3, <1>4, <1>5 DEF RepInv

\* The typed facts about a tick that handles a schedule.
LEMMA HandlingTyped ==
    ASSUME RepInv, NEW t \in Ticks, tick[t].at \in Handling
    PROVE  /\ tick[t] \in TickType /\ tick[t].schedule \in Schedules
           /\ reports \in [Schedules \X Ticks -> Status]
           /\ faults \in 0..MaxFaults /\ restarts \in 0..MaxRestarts /\ MaxFaults \in Nat
           /\ \A m \in mails : m[1] = tick[t].schedule /\ m[3] = t =>
                 reports[<<tick[t].schedule, t>>] = "COMPLETE"
           /\ Rest(tick[t].todo) \in TickType
           /\ Rest(tick[t].todo).todo = tick[t].todo
           /\ Rest(tick[t].todo).at \in {"none", "pick"}
           /\ Rest(tick[t].todo).schedule = Unset
<1>1. tick[t] \in TickType
  BY DEF RepInv, DispatchTypeOK, TickType
<1>2. \A m \in mails : m[1] = tick[t].schedule /\ m[3] = t => reports[<<tick[t].schedule, t>>] = "COMPLETE"
  BY DEF RepInv, MailsSent
<1>3. tick[t].todo \in SUBSET Row
  BY <1>1 DEF TickType
<1>4. tick[t].schedule \in Schedules
  BY DEF RepInv, Loop
<1>5. Rest(tick[t].todo) \in TickType
  BY <1>3, RestIs, RepConstants DEF TickType
<1> QED BY <1>1, <1>2, <1>3, <1>4, <1>5, RestIs, RepConstants DEF RepInv, DispatchTypeOK

LEMMA CreateKeeps ==
    ASSUME RepInv, NEW t \in Ticks, CreatePending(t)
    PROVE  RepInv'
<1> DEFINE new == [tick[t] EXCEPT !.at = "generate"]
<1>1. /\ tick[t].at = "create" /\ tick[t].at \in Handling
      /\ reports' = [reports EXCEPT ![<<tick[t].schedule, t>>] = "PENDING"]
      /\ tick' = [tick EXCEPT ![t] = new]
      /\ UNCHANGED <<clock, lastRun, mails, faults, restarts, lastTick, cutShort, ticksOverlapped>>
  BY DEF CreatePending, Handling
<1>2. /\ new \in TickType /\ new.at = "generate" /\ new.todo = tick[t].todo
      /\ new.schedule = tick[t].schedule
  BY <1>1, HandlingTyped DEF TickType
<1>3. \A m \in mails : ~(m[1] = tick[t].schedule /\ m[3] = t)
  BY <1>1 DEF RepInv, MailsSent, SentBy
<1>4. "PENDING" \in Status /\ new.at \in Handling
  BY <1>2 DEF Status, Handling
<1>5. faults' \in 0..MaxFaults /\ restarts' \in 0..MaxRestarts
  BY <1>1, HandlingTyped
<1> HIDE DEF new
<1> QED BY <1>1, <1>2, <1>3, <1>4, <1>5, HandlingKeeps

LEMMA GenerateKeeps ==
    ASSUME RepInv, NEW t \in Ticks, Generate(t)
    PROVE  RepInv'
<1>1. /\ tick[t].at = "generate" /\ tick[t].at \in Handling
      /\ reports' = [reports EXCEPT ![<<tick[t].schedule, t>>] = "COMPLETE"]
      /\ UNCHANGED <<clock, lastRun, mails, faults, restarts, lastTick, cutShort, ticksOverlapped>>
  BY DEF Generate, Handling
<1>2. PICK new \in TickType :
          /\ tick' = [tick EXCEPT ![t] = new]
          /\ new.todo = tick[t].todo /\ new.schedule = tick[t].schedule
          /\ \/ new.at = "stamp" /\ Recipients = 0
             \/ new.at = "deliver" /\ new.to = 1
  <2> DEFINE at == IF Recipients = 0 THEN "stamp" ELSE "deliver"
             to == IF Recipients = 0 THEN 0 ELSE 1
             new == [[tick[t] EXCEPT !.at = at] EXCEPT !.to = to]
  <2>1. tick' = [tick EXCEPT ![t] = new]
    BY DEF Generate, RepInv, DispatchTypeOK
  <2>2. new \in TickType
    <3>1. tick[t] \in TickType
      BY <1>1, HandlingTyped
    <3>2. at \in {"stamp", "deliver"} /\ to \in 0..Recipients
      BY RepConstants
    <3> HIDE DEF at, to
    <3> QED BY <3>1, <3>2 DEF TickType
  <2>3. new.at = at /\ new.to = to /\ new.todo = tick[t].todo /\ new.schedule = tick[t].schedule
    BY <1>1, HandlingTyped DEF TickType
  <2> QED BY <2>1, <2>2, <2>3
<1>3. reports'[<<tick[t].schedule, t>>] = "COMPLETE"
  BY <1>1, HandlingTyped
<1>4. "COMPLETE" \in Status /\ new.at \in Handling
  BY <1>2 DEF Status, Handling
<1>5. faults' \in 0..MaxFaults /\ restarts' \in 0..MaxRestarts
  BY <1>1, HandlingTyped
<1>6. new.at = "stamp" => Mailed(tick[t].schedule, t)'
  BY <1>2 DEF Mailed
<1>7. new.at = "deliver" => new.to > 0 /\ \A i \in 1..(new.to - 1) : <<tick[t].schedule, i, t>> \in mails'
  BY <1>2
<1> QED BY <1>1, <1>2, <1>3, <1>4, <1>5, <1>6, <1>7, HandlingKeeps

LEMMA DeliverKeeps ==
    ASSUME RepInv, NEW t \in Ticks, Deliver(t)
    PROVE  RepInv'
<1> DEFINE s == tick[t].schedule
           n == tick[t].to
<1>1. /\ tick[t].at = "deliver" /\ tick[t].at \in Handling
      /\ mails' = mails \cup {<<s, n, t>>}
      /\ UNCHANGED <<clock, lastRun, reports, faults, restarts, lastTick, cutShort, ticksOverlapped>>
  BY DEF Deliver, Handling
<1>2. n \in 1..Recipients /\ Recipients \in Nat
  <2>1. tick[t] \in TickType
    BY <1>1, HandlingTyped
  <2>2. n \in 0..Recipients /\ n > 0
    BY <1>1, <2>1 DEF TickType, RepInv, Loop
  <2> QED BY <2>2, RepConstants
<1>3. /\ reports[<<s, t>>] = "COMPLETE" /\ \A i \in 1..(n - 1) : <<s, i, t>> \in mails
  BY <1>1 DEF RepInv, MailsSent, SentBy
<1>4. PICK new \in TickType :
          /\ tick' = [tick EXCEPT ![t] = new]
          /\ new.todo = tick[t].todo /\ new.schedule = s
          /\ \/ new.at = "stamp" /\ n = Recipients
             \/ new.at = "deliver" /\ new.to = n + 1
  <2>1. CASE n = Recipients
    <3> DEFINE new == [tick[t] EXCEPT !.at = "stamp"]
    <3>1. new \in TickType /\ new.at = "stamp" /\ new.todo = tick[t].todo /\ new.schedule = s
      BY <1>1, HandlingTyped DEF TickType
    <3>2. tick' = [tick EXCEPT ![t] = new]
      BY <2>1 DEF Deliver
    <3> QED BY <2>1, <3>1, <3>2
  <2>2. CASE n # Recipients
    <3> DEFINE new == [tick[t] EXCEPT !.to = n + 1]
    <3>1. /\ new \in TickType /\ new.at = "deliver" /\ new.to = n + 1 /\ new.todo = tick[t].todo
          /\ new.schedule = s
      <4>1. tick[t] \in TickType
        BY <1>1, HandlingTyped
      <4>2. n + 1 \in 0..Recipients
        BY <1>2, <2>2
      <4> HIDE DEF n
      <4> QED BY <1>1, <4>1, <4>2 DEF TickType
    <3>2. tick' = [tick EXCEPT ![t] = new]
      BY <2>2 DEF Deliver
    <3> QED BY <3>1, <3>2
  <2> QED BY <2>1, <2>2
<1>5. \A i \in 1..n : <<s, i, t>> \in mails'
  BY <1>1, <1>2, <1>3
<1>6. new.at = "stamp" => Mailed(s, t)'
  BY <1>4, <1>5 DEF Mailed
<1>7. new.at = "deliver" => new.to > 0 /\ \A i \in 1..(new.to - 1) : <<s, i, t>> \in mails'
  BY <1>2, <1>4, <1>5
<1>8. faults' \in 0..MaxFaults /\ restarts' \in 0..MaxRestarts /\ "COMPLETE" \in Status
  BY <1>1, HandlingTyped DEF Status
<1>9. new.at \in Handling
  BY <1>4 DEF Handling
<1>10. new.at \in {"stamp", "deliver"}
  BY <1>4
<1> QED BY <1>1, <1>2, <1>3, <1>4, <1>6, <1>7, <1>8, <1>9, <1>10, HandlingKeeps

LEMMA StampKeeps ==
    ASSUME RepInv, NEW t \in Ticks, Stamp(t)
    PROVE  RepInv'
<1>1. /\ tick[t].at = "stamp" /\ tick[t].at \in Handling
      /\ lastRun' = [lastRun EXCEPT ![tick[t].schedule] = t]
      /\ tick' = [tick EXCEPT ![t] = Rest(tick[t].todo)]
      /\ UNCHANGED <<clock, reports, mails, faults, restarts, lastTick, cutShort, ticksOverlapped>>
  BY DEF Stamp, NextSchedule, Handling
<1>2. Mailed(tick[t].schedule, t)
  BY <1>1 DEF RepInv, MailsSent, SentBy
<1>3. faults' \in 0..MaxFaults /\ restarts' \in 0..MaxRestarts /\ "COMPLETE" \in Status
  BY <1>1, HandlingTyped DEF Status
<1>4. PICK new \in TickType :
          /\ new = Rest(tick[t].todo) /\ new.todo = tick[t].todo
          /\ new.at \in {"none", "pick"} /\ new.schedule = Unset
  BY <1>1, HandlingTyped
<1>5. new.at \notin {"create", "generate", "deliver", "stamp"}
  BY <1>4
<1>6. \A m \in mails' : m[1] = tick[t].schedule /\ m[3] = t => reports'[<<tick[t].schedule, t>>] = "COMPLETE"
  BY <1>1, HandlingTyped
<1> QED BY <1>1, <1>2, <1>3, <1>4, <1>5, <1>6, HandlingKeeps

LEMMA FailKeeps ==
    ASSUME RepInv, NEW t \in Ticks, TickFails(t)
    PROVE  RepInv'
<1>1. /\ tick[t].at \in Handling
      /\ \/ tick[t].at = "generate" /\ reports' = [reports EXCEPT ![<<tick[t].schedule, t>>] = "FAILED"]
         \/ reports' = reports
      /\ tick' = [tick EXCEPT ![t] = Rest(tick[t].todo)]
      /\ cutShort' = cutShort \cup {<<tick[t].schedule, t>>}
      /\ faults < MaxFaults /\ faults' = faults + 1
      /\ UNCHANGED <<clock, lastRun, mails, restarts, lastTick, ticksOverlapped>>
  BY DEF TickFails, NextSchedule, Handling
<1>2. \A m \in mails' : m[1] = tick[t].schedule /\ m[3] = t => reports'[<<tick[t].schedule, t>>] = "COMPLETE"
  <2>1. tick[t].at = "generate" => \A m \in mails : ~(m[1] = tick[t].schedule /\ m[3] = t)
    BY DEF RepInv, MailsSent, SentBy
  <2> QED BY <1>1, <2>1, HandlingTyped
<1>3. faults' \in 0..MaxFaults /\ restarts' \in 0..MaxRestarts /\ "FAILED" \in Status
  BY <1>1, HandlingTyped DEF Status
<1>4. PICK new \in TickType :
          /\ new = Rest(tick[t].todo) /\ new.todo = tick[t].todo
          /\ new.at \in {"none", "pick"} /\ new.schedule = Unset
  BY <1>1, HandlingTyped
<1>5. new.at \notin {"create", "generate", "deliver", "stamp"}
  BY <1>4
<1>6. /\ reports' = reports \/ reports' = [reports EXCEPT ![<<tick[t].schedule, t>>] = "FAILED"]
      /\ tick' = [tick EXCEPT ![t] = new]
      /\ <<tick[t].schedule, t>> \in cutShort'
  BY <1>1, <1>4
<1>7. UNCHANGED <<clock, lastRun, mails, lastTick, ticksOverlapped>>
  BY <1>1
<1> QED BY <1>1, <1>2, <1>3, <1>4, <1>5, <1>6, <1>7, HandlingKeeps

\* A new tick selects every schedule, and sees to all that its last stamp does not
\* show to be mailed about.
LEMMA TickKeeps ==
    ASSUME RepInv, Tick
    PROVE  RepInv'
<1>0. PICK n \in Nat : n = clock + 1
  BY RepConstants DEF RepInv, DispatchTypeOK
<1> DEFINE rows == {[schedule |-> s, last |-> lastRun[s]] : s \in Schedules}
           new == [[NotRunning EXCEPT !.at = "pick"] EXCEPT !.todo = rows]
<1>1. /\ clock \in 0..MaxTime /\ clock < MaxTime /\ lastTick \in 0..clock /\ MaxTime \in Nat
      /\ clock' = n /\ lastTick' = n
      /\ UNCHANGED <<lastRun, reports, mails, faults, restarts, cutShort>>
  BY <1>0, RepConstants DEF Tick, RepInv, DispatchTypeOK
<1>2. n \in Ticks /\ n > lastTick
  BY <1>0, <1>1, RepConstants
<1>3. rows \in SUBSET Row
  BY RepConstants DEF RepInv, DispatchTypeOK, Row
<1>4. new \in TickType /\ new.at = "pick" /\ new.todo = rows /\ new.schedule = Unset /\ new.to = 0
  <2>1. NotRunning \in TickType /\ NotRunning.schedule = Unset /\ NotRunning.to = 0
    BY RepConstants DEF TickType, NotRunning
  <2> HIDE DEF rows
  <2> QED BY <1>3, <2>1 DEF TickType
<1>5. tick' = [tick EXCEPT ![n] = new]
  BY <1>0 DEF Tick
<1> HIDE DEF new
<1>6. /\ tick' \in [Ticks -> TickType] /\ tick'[n] = new
      /\ \A u \in Ticks \ {n} : tick'[u] = tick[u]
  BY <1>2, <1>4, <1>5, TickTyped DEF RepInv
<1>7. \A x \in rows : x.schedule \in Schedules /\ x.last = lastRun[x.schedule]
                      /\ x = [schedule |-> x.schedule, last |-> lastRun[x.schedule]]
  OBVIOUS
<1>8. \A s \in Schedules : \E x \in rows : x.schedule = s /\ x.last = lastRun[s]
  <2> TAKE s \in Schedules
  <2>1. [schedule |-> s, last |-> lastRun[s]] \in rows
    OBVIOUS
  <2> QED BY <2>1
<1> HIDE DEF rows
<1>9. DispatchTypeOK'
  <2>1. ticksOverlapped' \in BOOLEAN
    BY DEF Tick
  <2>2. clock' \in 0..MaxTime /\ lastTick' \in 0..clock'
    BY <1>0, <1>1
  <2> QED BY <1>1, <1>6, <2>1, <2>2 DEF RepInv, DispatchTypeOK, TickType
<1>10. Loop'
  <2>1. \A x, y \in rows : x.schedule = y.schedule => x = y
    BY <1>7
  <2>2. \A x \in rows : x.schedule # Unset
    BY <1>7, RepConstants
  <2>3. new.at \notin Handling /\ new.at # "deliver"
    BY <1>4 DEF Handling
  <2> QED BY <1>4, <1>6, <2>1, <2>2, <2>3 DEF RepInv, Loop
<1>11. NothingLater'
  <2>1. ASSUME NEW u \in Ticks, u > n PROVE tick'[u] = NotRunning
    BY <1>1, <1>2, <1>6, <2>1, RepConstants DEF RepInv, NothingLater
  <2>2. ASSUME NEW m \in mails PROVE m[3] <= n
    BY <1>0, <1>1, <2>2, MailIs, RepConstants DEF RepInv, NothingLater
  <2>3. ASSUME NEW s \in Schedules, lastRun[s] # Unset PROVE lastRun[s] <= n
    BY <1>0, <1>1, <2>3, RepConstants DEF RepInv, NothingLater, DispatchTypeOK
  <2> QED BY <1>1, <2>1, <2>2, <2>3 DEF NothingLater
<1>12. MailsSent'
  <2>1. \A m \in mails : m[3] # n
    BY <1>1, <1>2, MailIs, RepConstants DEF RepInv, NothingLater
  <2>2. SentBy(n)'
    BY <1>1, <1>4, <1>6, <2>1 DEF SentBy
  <2>3. ASSUME NEW u \in Ticks \ {n} PROVE SentBy(u)'
    BY <1>1, <1>6 DEF RepInv, MailsSent, SentBy, Mailed
  <2> QED BY <1>1, <2>2, <2>3 DEF RepInv, MailsSent, Mailed
<1>13. NothingOwed'
  <2>1. ASSUME NEW s \in Schedules, NEW f \in 1..n, f \in Fires[s]
        PROVE  MailedSince(s, f)' \/ SeenTo(s, f, n)'
    <3>1. PICK x \in rows : x.schedule = s /\ x.last = lastRun[s]
      BY <1>8
    <3>2. CASE lastRun[s] = Unset \/ lastRun[s] < f
      BY <1>2, <1>4, <1>6, <3>1, <3>2 DEF SeenTo
    <3>3. CASE lastRun[s] # Unset /\ ~(lastRun[s] < f)
      <4>1. lastRun[s] \in f..MaxTime /\ Mailed(s, lastRun[s])
        BY <1>2, <3>3, RepConstants DEF RepInv, MailsSent, DispatchTypeOK
      <4> QED BY <1>1, <4>1 DEF Mailed, MailedSince
    <3> QED BY <3>2, <3>3
  <2> QED BY <1>1, <1>2, <2>1 DEF NothingOwed
<1> QED BY <1>9, <1>10, <1>11, <1>12, <1>13 DEF RepInv

\* Nothing that a dead process was at is forgotten: cutShort names it.
LEMMA CrashKeeps ==
    ASSUME RepInv, Restart
    PROVE  RepInv'
<1>1. /\ tick' = [t \in Ticks |-> NotRunning]
      /\ cutShort' = cutShort \cup UNION {Pending(t) \X {t} : t \in Running}
      /\ restarts < MaxRestarts /\ restarts' = restarts + 1
      /\ UNCHANGED <<clock, lastRun, reports, mails, faults, lastTick, ticksOverlapped>>
  BY DEF Restart
<1>2. NotRunning \in TickType /\ NotRunning.at = "none" /\ NotRunning.todo = {}
      /\ NotRunning.schedule = Unset
  BY RepConstants DEF TickType, NotRunning
<1>3. \A t \in Ticks : tick'[t] = NotRunning
  BY <1>1
<1>4. ASSUME NEW t \in Ticks PROVE Pending(t) \subseteq Schedules
  BY DEF RepInv, DispatchTypeOK, Row, Pending
<1>5. DispatchTypeOK'
  <2>1. tick' \in [Ticks -> TickType]
    BY <1>1, <1>2
  <2>2. cutShort' \subseteq Schedules \X Ticks
    BY <1>1, <1>4 DEF RepInv, DispatchTypeOK, Running
  <2>3. restarts' \in 0..MaxRestarts
    BY <1>1, RepConstants DEF RepInv, DispatchTypeOK
  <2> QED BY <1>1, <2>1, <2>2, <2>3 DEF RepInv, DispatchTypeOK, TickType
<1>6. Loop' /\ NothingLater'
  BY <1>1, <1>2, <1>3 DEF RepInv, Loop, NothingLater, Handling
<1>7. MailsSent'
  <2>1. \A t \in Ticks : SentBy(t)'
    BY <1>2, <1>3 DEF SentBy
  <2> QED BY <1>1, <2>1 DEF RepInv, MailsSent, Mailed
<1>8. NothingOwed'
  <2>1. ASSUME NEW s \in Schedules, NEW f, NEW t \in Ticks, SeenTo(s, f, t)
        PROVE  <<s, t>> \in cutShort'
    <3>1. s \in Pending(t)
      BY <2>1, RepConstants DEF SeenTo, Pending
    <3>2. t \in Running
      BY <1>2, <2>1, RepConstants DEF SeenTo, Running
    <3> QED BY <1>1, <3>1, <3>2
  <2>2. \A f \in 1..lastTick : lastTick \in Ticks
    BY RepConstants DEF RepInv, DispatchTypeOK
  <2> QED BY <1>1, <2>1, <2>2 DEF RepInv, NothingOwed, MailedSince
<1> QED BY <1>5, <1>6, <1>7, <1>8 DEF RepInv

LEMMA RepInvNext ==
    ASSUME RepInv, [DispatchNext]_dispatchVars
    PROVE  RepInv'
<1>1. CASE Down \/ UNCHANGED dispatchVars
  <2>1. /\ UNCHANGED <<lastRun, reports, mails, tick, restarts, lastTick, cutShort, ticksOverlapped>>
        /\ faults' \in 0..MaxFaults
    BY <1>1, RepConstants DEF Down, dispatchVars, RepInv, DispatchTypeOK
  <2>2. clock' \in 0..MaxTime /\ lastTick' \in 0..clock'
    BY <1>1, RepConstants DEF Down, dispatchVars, RepInv, DispatchTypeOK
  <2>3. DispatchTypeOK'
    BY <2>1, <2>2 DEF RepInv, DispatchTypeOK
  <2>4. Loop' /\ NothingLater' /\ MailsSent'
    BY <2>1 DEF RepInv, Loop, NothingLater, MailsSent, SentBy, Mailed
  <2>5. NothingOwed'
    BY <2>1 DEF RepInv, NothingOwed, SeenTo, MailedSince
  <2> QED BY <2>3, <2>4, <2>5 DEF RepInv
<1> QED BY <1>1, TickKeeps, CrashKeeps, PickKeeps, PickThrowsKeeps, CreateKeeps, GenerateKeeps, DeliverKeeps,
           StampKeeps, FailKeeps
        DEF DispatchNext, HandleSchedule

LEMMA RepInvAlways == DispatchSpec => []RepInv
<1>1. DispatchInit => RepInv
  BY RepInit
<1>2. RepInv /\ [DispatchNext]_dispatchVars => RepInv'
  BY RepInvNext
<1> QED BY <1>1, <1>2, PTL DEF DispatchSpec

\* No recipient is passed over, and no firing left behind by a last tick that was not
\* itself cut short, whatever fails, crashes, does not parse or overlaps
\* (runScheduledDispatchTick in scheduler.ts).
THEOREM NobodyPassedOver == DispatchSpec => []AtLeastOnce
<1>1. ASSUME RepInv PROVE AtLeastOnce
  <2>1. ASSUME NEW s \in Schedules, NEW f \in Ticks, lastRun[s] # Unset, f <= lastRun[s]
        PROVE  MailedSince(s, f)
    <3>1. lastRun[s] \in f..MaxTime /\ Mailed(s, lastRun[s])
      BY <1>1, <2>1, RepConstants DEF RepInv, MailsSent, DispatchTypeOK
    <3> QED BY <3>1 DEF Mailed, MailedSince
  <2>2. ASSUME NEW s \in Schedules, NEW f \in 1..lastTick, f \in Fires[s]
        PROVE  MailedSince(s, f) \/ s \in Pending(lastTick) \/ <<s, lastTick>> \in cutShort
    <3>1. SeenTo(s, f, lastTick) => s \in Pending(lastTick)
      BY RepConstants DEF SeenTo, Pending
    <3> QED BY <1>1, <2>2, <3>1 DEF RepInv, NothingOwed
  <2>3. \A m \in mails : reports[<<m[1], m[3]>>] = "COMPLETE"
    BY <1>1 DEF RepInv, MailsSent
  <2> QED BY <2>1, <2>2, <2>3 DEF AtLeastOnce
<1>2. DispatchSpec => []RepInv
  BY RepInvAlways
<1> QED BY <1>1, <1>2, PTL

------------------------------------------------------------------------------
\* The next fire of a schedule after its last stamp has come.
Due(s, t) == lastRun[s] = Unset \/ \E f \in Fires[s] : lastRun[s] < f /\ f <= t

\* While ticks have not overlapped, the last one is alone: what it selected is still
\* so, and what it handles is due.
OneTick ==
    \A t \in Ticks :
        /\ tick[t] # NotRunning => t = lastTick
        /\ \A x \in tick[t].todo : x.last = lastRun[x.schedule]
        /\ tick[t].schedule # Unset => Due(tick[t].schedule, t)

\* A mail was stamped, is of the tick at work, or of one that was cut short at it.
Stamped ==
    \A m \in mails :
        \/ <<m[1], m[3]>> \in cutShort
        \/ lastRun[m[1]] # Unset /\ m[3] <= lastRun[m[1]]
        \/ tick[m[3]].schedule = m[1]

\* Inductive: that a firing lies between two mails is seen when the second is due,
\* and the stamp stands for the first.
OnceInv == RepInv /\ OnePerFiring /\ (~ticksOverlapped => OneTick /\ Stamped)

\* The fields of a tick after a step of its loop.
LEMMA LoopStep ==
    ASSUME RepInv, NEW t \in Ticks, HandleSchedule(t)
    PROVE  /\ \A u \in Ticks \ {t} : tick'[u] = tick[u]
           /\ tick'[t].todo \subseteq tick[t].todo
           /\ tick[t] # NotRunning /\ tick'[t] \in TickType /\ tick[t] \in TickType
           /\ lastTick' = lastTick /\ ticksOverlapped' = ticksOverlapped
           /\ \/ /\ tick[t].schedule = Unset
                 /\ UNCHANGED <<lastRun, mails>> /\ cutShort \subseteq cutShort'
                 /\ tick'[t].schedule # Unset => \E x \in tick[t].todo :
                        tick'[t].schedule = x.schedule /\ IsDue(x.schedule, x.last, t)
              \/ /\ tick[t].schedule \in Schedules /\ tick'[t].schedule = tick[t].schedule
                 /\ UNCHANGED <<lastRun, cutShort>>
                 /\ mails' = mails \/ \E i \in 1..Recipients : mails' = mails \cup {<<tick[t].schedule, i, t>>}
              \/ /\ tick[t].schedule \in Schedules /\ tick'[t].schedule = Unset
                 /\ mails' = mails
                 /\ \/ lastRun' = [lastRun EXCEPT ![tick[t].schedule] = t] /\ cutShort' = cutShort
                    \/ lastRun' = lastRun /\ cutShort' = cutShort \cup {<<tick[t].schedule, t>>}
<1> USE DEF RepInv
<1>1. tick[t] \in TickType /\ tick \in [Ticks -> TickType]
  BY DEF DispatchTypeOK, TickType
<1>2. CASE Pick(t)
  <2>1. tick[t].at = "pick" /\ tick[t] # NotRunning /\ tick[t].schedule = Unset
        /\ UNCHANGED <<lastTick, ticksOverlapped, lastRun, mails, cutShort>>
    BY <1>2 DEF Pick, NotRunning, Loop, Handling
  <2>2. PICK row \in tick[t].todo :
          tick' = [tick EXCEPT ![t] =
              IF IsDue(row.schedule, row.last, t)
              THEN [NotRunning EXCEPT !.at = "create", !.todo = tick[t].todo \ {row},
                                          !.schedule = row.schedule]
              ELSE Rest(tick[t].todo \ {row})]
    BY <1>2 DEF Pick
  <2>3. tick[t].todo \ {row} \in SUBSET Row
    BY <1>1 DEF TickType
  <2>4. tick' \in [Ticks -> TickType]
    BY <1>2, PickKeeps DEF DispatchTypeOK, TickType
  <2>5. /\ tick'[t].todo = tick[t].todo \ {row}
        /\ \/ tick'[t].schedule = Unset
           \/ tick'[t].schedule = row.schedule /\ IsDue(row.schedule, row.last, t)
    <3> DEFINE rest == tick[t].todo \ {row}
               due == [NotRunning EXCEPT !.at = "create", !.todo = rest, !.schedule = row.schedule]
    <3>1. due.todo = rest /\ due.schedule = row.schedule
      BY DEF NotRunning
    <3>2. Rest(rest).todo = rest /\ Rest(rest).schedule = Unset
      BY <2>3, RestIs
    <3>3. tick'[t] = IF IsDue(row.schedule, row.last, t) THEN due ELSE Rest(rest)
      BY <1>1, <2>2
    <3> HIDE DEF due, rest
    <3>4. tick'[t].todo = rest
      BY <3>1, <3>2, <3>3
    <3>5. \/ tick'[t].schedule = Unset
          \/ tick'[t].schedule = row.schedule /\ IsDue(row.schedule, row.last, t)
      BY <3>1, <3>2, <3>3
    <3> QED BY <3>4, <3>5 DEF rest
  <2> QED BY <1>1, <2>1, <2>2, <2>4, <2>5
<1>3. ASSUME tick[t].at \in Handling, RepInv' PROVE /\ tick[t] # NotRunning /\ tick[t].schedule \in Schedules
                                           /\ tick'[t] \in TickType
  BY <1>3 DEF NotRunning, Handling, Loop, DispatchTypeOK, TickType
<1>4. CASE CreatePending(t)
  <2>1. tick[t].at \in Handling /\ RepInv'
    BY <1>4, CreateKeeps DEF CreatePending, Handling
  <2>2. \A u \in Ticks \ {t} : tick'[u] = tick[u]
    BY <1>1, <1>4 DEF CreatePending
  <2>3. tick'[t].todo = tick[t].todo /\ tick'[t].schedule = tick[t].schedule
    BY <1>1, <1>4 DEF CreatePending, TickType
  <2> QED BY <1>1, <1>3, <1>4, <2>1, <2>2, <2>3 DEF CreatePending
<1>5. CASE Generate(t)
  <2>1. tick[t].at \in Handling /\ RepInv'
    BY <1>5, GenerateKeeps DEF Generate, Handling
  <2>2. \A u \in Ticks \ {t} : tick'[u] = tick[u]
    BY <1>1, <1>5 DEF Generate
  <2>3. tick'[t].todo = tick[t].todo /\ tick'[t].schedule = tick[t].schedule
    BY <1>1, <1>5 DEF Generate, TickType
  <2> QED BY <1>1, <1>3, <1>5, <2>1, <2>2, <2>3 DEF Generate
<1>6. CASE Deliver(t)
  <2>1. tick[t].at \in Handling /\ RepInv'
    BY <1>6, DeliverKeeps DEF Deliver, Handling
  <2>2. \A u \in Ticks \ {t} : tick'[u] = tick[u]
    BY <1>1, <1>6 DEF Deliver
  <2>3. tick'[t].todo = tick[t].todo /\ tick'[t].schedule = tick[t].schedule
    BY <1>1, <1>6 DEF Deliver, TickType
  <2>4. tick[t].to \in 1..Recipients
    BY <1>1, <1>6, RepConstants DEF Deliver, Loop, TickType
  <2> QED BY <1>1, <1>3, <1>6, <2>1, <2>2, <2>3, <2>4 DEF Deliver
<1>7. CASE Stamp(t)
  <2>1. tick[t].at \in Handling /\ RepInv'
    BY <1>7, StampKeeps DEF Stamp, Handling
  <2>2. tick' = [tick EXCEPT ![t] = Rest(tick[t].todo)]
    BY <1>7 DEF Stamp, NextSchedule
  <2>3. tick'[t].todo = tick[t].todo /\ tick'[t].schedule = Unset
    BY <1>1, <2>1, <2>2, HandlingTyped
  <2> QED BY <1>1, <1>3, <1>7, <2>1, <2>2, <2>3 DEF Stamp
<1>8. CASE TickFails(t)
  <2>1. tick[t].at \in Handling /\ RepInv'
    BY <1>8, FailKeeps DEF TickFails, Handling
  <2>2. tick' = [tick EXCEPT ![t] = Rest(tick[t].todo)]
    BY <1>8 DEF TickFails, NextSchedule
  <2>3. tick'[t].todo = tick[t].todo /\ tick'[t].schedule = Unset
    BY <1>1, <2>1, <2>2, HandlingTyped
  <2> QED BY <1>1, <1>3, <1>8, <2>1, <2>2, <2>3 DEF TickFails
<1>9. CASE PickThrows(t)
  <2>1. /\ tick[t].at = "pick" /\ tick[t] # NotRunning /\ tick[t].schedule = Unset
        /\ UNCHANGED <<lastTick, ticksOverlapped, lastRun, mails>> /\ cutShort \subseteq cutShort'
        /\ tick' = [tick EXCEPT ![t] = NotRunning]
    BY <1>9 DEF PickThrows, NotRunning, Loop, Handling
  <2>2. NotRunning \in TickType /\ NotRunning.todo = {} /\ NotRunning.schedule = Unset
    BY RepConstants DEF TickType, NotRunning
  <2> QED BY <1>1, <2>1, <2>2
<1> QED BY <1>2, <1>4, <1>5, <1>6, <1>7, <1>8, <1>9 DEF HandleSchedule

\* A step of a loop sends a mail only when the schedule has fired since the one before.
LEMMA LoopKeepsOnce ==
    ASSUME OnceInv, NEW t \in Ticks, HandleSchedule(t), ~ticksOverlapped
    PROVE  (OnePerFiring /\ OneTick /\ Stamped)'
<1> DEFINE s == tick[t].schedule
<1>1. /\ RepInv /\ OneTick /\ Stamped /\ OnePerFiring
      /\ \A u \in Ticks \ {t} : tick'[u] = tick[u]
      /\ tick'[t].todo \subseteq tick[t].todo
      /\ lastTick' = lastTick /\ ticksOverlapped' = ticksOverlapped
      /\ t = lastTick /\ t \in 1..MaxTime /\ MaxTime \in Nat
      /\ Unset \notin Schedules
      /\ tick[t].todo \subseteq Row
  BY LoopStep, RepConstants DEF OnceInv, OneTick, TickType
<1>2. ASSUME NEW u \in Ticks, u # t PROVE tick[u] = NotRunning
  BY <1>1, <1>2 DEF OneTick
<1>3. NotRunning.schedule = Unset /\ NotRunning.todo = {}
  BY DEF NotRunning
<1>4. ASSUME NEW m \in mails, m[1] = s, s \in Schedules, <<s, m[3]>> \notin cutShort, m[3] # t
      PROVE  lastRun[s] # Unset /\ m[3] <= lastRun[s]
  <2>1. tick[m[3]].schedule = Unset
    BY <1>1, <1>2, <1>3, <1>4, MailIs DEF RepInv
  <2> QED BY <1>1, <1>4, <2>1 DEF Stamped
<1>5. \A m \in mails : m[3] \in Ticks /\ m[3] <= t /\ m[1] \in Schedules
  BY <1>1, MailIs DEF RepInv, NothingLater
<1>6. CASE /\ s = Unset /\ UNCHANGED <<lastRun, mails>> /\ cutShort \subseteq cutShort'
           /\ tick'[t].schedule # Unset => \E x \in tick[t].todo :
                  tick'[t].schedule = x.schedule /\ IsDue(x.schedule, x.last, t)
  <2>1. OneTick'
    <3>1. tick'[t].schedule # Unset => Due(tick[t].schedule, t)'
      BY <1>1, <1>6 DEF OneTick, Due, IsDue
    <3> QED BY <1>1, <1>2, <1>3, <1>6, <3>1 DEF OneTick
  <2>2. Stamped'
    BY <1>1, <1>5, <1>6 DEF Stamped
  <2> QED BY <1>1, <1>6, <2>1, <2>2 DEF OnePerFiring
<1>7. CASE /\ s \in Schedules /\ tick'[t].schedule = s
           /\ UNCHANGED <<lastRun, cutShort>>
           /\ mails' = mails \/ \E i \in 1..Recipients : mails' = mails \cup {<<s, i, t>>}
  <2>1. OneTick'
    BY <1>1, <1>2, <1>3, <1>7 DEF OneTick, Due
  <2>2. Stamped'
    <3>1. \A m \in mails' : m \in mails \/ (m[1] = s /\ m[3] = t)
      BY <1>7
    <3> QED BY <1>1, <1>5, <1>7, <3>1 DEF Stamped
  <2>3. OnePerFiring'
    <3>1. ASSUME NEW m \in mails', NEW n \in mails', m[1] = n[1], m[2] = n[2], m[3] < n[3],
                 <<m[1], m[3]>> \notin cutShort
          PROVE  \E f \in Fires[m[1]] : m[3] < f /\ f <= n[3]
      <4>1. CASE m \in mails /\ n \in mails
        BY <1>1, <3>1, <4>1 DEF OnePerFiring
      <4>2. CASE n \notin mails
        <5>1. n[1] = s /\ n[3] = t /\ m \in mails /\ m[3] # t
          BY <1>1, <1>7, <3>1, <4>2
        <5>2. lastRun[s] # Unset /\ m[3] <= lastRun[s] /\ m[3] \in 1..MaxTime
          BY <1>4, <1>5, <1>7, <3>1, <5>1, RepConstants
        <5>3. PICK f \in Fires[s] : lastRun[s] < f /\ f <= t
          BY <1>1, <1>7, <5>2 DEF OneTick, Due
        <5>4. f \in 1..MaxTime /\ lastRun[s] \in 1..MaxTime
          BY <1>1, <1>7, <5>2, RepConstants DEF RepInv, DispatchTypeOK
        <5> QED BY <3>1, <5>1, <5>2, <5>3, <5>4
      <4>3. CASE m \notin mails
        <5>1. m[3] = t /\ n \in mails
          BY <1>1, <1>7, <3>1, <4>3
        <5> QED BY <1>1, <1>5, <3>1, <5>1, RepConstants
      <4> QED BY <4>1, <4>2, <4>3
    <3> QED BY <1>7, <3>1 DEF OnePerFiring
  <2> QED BY <2>1, <2>2, <2>3
<1>8. CASE /\ s \in Schedules /\ tick'[t].schedule = Unset /\ mails' = mails
           /\ \/ lastRun' = [lastRun EXCEPT ![s] = t] /\ cutShort' = cutShort
              \/ lastRun' = lastRun /\ cutShort' = cutShort \cup {<<s, t>>}
  <2>1. ASSUME NEW q \in Schedules, q # s PROVE lastRun'[q] = lastRun[q]
    BY <1>1, <1>8, <2>1 DEF RepInv, DispatchTypeOK
  <2>2. OneTick'
    <3>1. \A x \in tick[t].todo : x.schedule # s /\ x.schedule \in Schedules
      BY <1>1 DEF RepInv, Loop, Row
    <3>2. \A x \in tick'[t].todo : x.last = lastRun'[x.schedule]
      BY <1>1, <2>1, <3>1 DEF OneTick
    <3> QED BY <1>1, <1>2, <1>3, <1>8, <3>2 DEF OneTick
  <2>3. Stamped'
    <3>1. ASSUME NEW m \in mails
          PROVE  \/ <<m[1], m[3]>> \in cutShort'
                 \/ lastRun'[m[1]] # Unset /\ m[3] <= lastRun'[m[1]]
                 \/ tick'[m[3]].schedule = m[1]
      <4>1. CASE m[1] # s
        BY <1>1, <1>5, <1>8, <2>1, <3>1, <4>1 DEF Stamped
      <4>2. CASE m[1] = s /\ lastRun'[s] = t
        BY <1>1, <1>5, <4>2, RepConstants
      <4>3. CASE m[1] = s /\ lastRun' = lastRun /\ <<s, t>> \in cutShort'
        BY <1>4, <1>8, <3>1, <4>3
      <4> QED BY <1>1, <1>8, <4>1, <4>2, <4>3 DEF RepInv, DispatchTypeOK
    <3> QED BY <1>8, <3>1 DEF Stamped
  <2>4. OnePerFiring'
    BY <1>1, <1>8 DEF OnePerFiring
  <2> QED BY <2>2, <2>3, <2>4
<1> HIDE DEF s
<1> QED BY <1>6, <1>7, <1>8, LoopStep, <1>1 DEF s

LEMMA OnceInvNext ==
    ASSUME OnceInv, [DispatchNext]_dispatchVars
    PROVE  OnceInv'
<1>1. RepInv'
  BY RepInvNext DEF OnceInv
<1>2. NotRunning.schedule = Unset /\ NotRunning.todo = {}
  BY DEF NotRunning
<1>3. CASE Tick
  <2>1. SUFFICES ASSUME ~ticksOverlapped' PROVE (OnePerFiring /\ OneTick /\ Stamped)'
    BY <1>1 DEF OnceInv, OnePerFiring
  <2>2. PICK n \in Nat : n = clock + 1
    BY RepConstants DEF OnceInv, RepInv, DispatchTypeOK
  <2>3. /\ Running = {} /\ ~ticksOverlapped /\ n \in Ticks /\ lastTick' = n
        /\ UNCHANGED <<lastRun, mails, cutShort>>
        /\ tick' = [tick EXCEPT ![n] = [NotRunning EXCEPT !.at = "pick",
               !.todo = {[schedule |-> s, last |-> lastRun[s]] : s \in Schedules}]]
    <3>1. clock \in 0..MaxTime /\ MaxTime \in Nat /\ Ticks = 1..MaxTime
      BY RepConstants DEF OnceInv, RepInv, DispatchTypeOK
    <3>2. clock < MaxTime /\ UNCHANGED <<lastRun, mails, cutShort>> /\ lastTick' = n
      BY <1>3, <2>2 DEF Tick
    <3>3. Running = {} /\ ~ticksOverlapped
      BY <1>3, <2>1 DEF Tick
    <3>4. tick' = [tick EXCEPT ![n] = [NotRunning EXCEPT !.at = "pick",
               !.todo = {[schedule |-> s, last |-> lastRun[s]] : s \in Schedules}]]
      BY <1>3, <2>2 DEF Tick
    <3> QED BY <2>2, <3>1, <3>2, <3>3, <3>4
  <2>4. /\ \A u \in Ticks : tick[u] = NotRunning
        /\ \A u \in Ticks \ {n} : tick'[u] = tick[u]
        /\ tick'[n].schedule = Unset
        /\ \A x \in tick'[n].todo : x.last = lastRun[x.schedule]
    <3>1. tick'[n] = [NotRunning EXCEPT !.at = "pick",
               !.todo = {[schedule |-> s, last |-> lastRun[s]] : s \in Schedules}]
      BY <2>3 DEF OnceInv, RepInv, DispatchTypeOK
    <3>2. tick'[n].schedule = Unset /\ tick'[n].todo = {[schedule |-> s, last |-> lastRun[s]] : s \in Schedules}
      BY <3>1 DEF NotRunning
    <3> QED BY <2>3, <3>2 DEF Running, OnceInv, RepInv, DispatchTypeOK
  <2>5. OneTick'
    BY <1>2, <2>3, <2>4 DEF OneTick
  <2>6. Stamped'
    <3>1. \A m \in mails : m[1] \in Schedules /\ m[3] \in Ticks
      BY MailIs DEF OnceInv, RepInv
    <3> QED BY <1>2, <2>3, <2>4, <3>1, RepConstants DEF OnceInv, Stamped
  <2> QED BY <2>3, <2>5, <2>6 DEF OnceInv, OnePerFiring
<1>4. CASE Restart
  <2>1. /\ \A t \in Ticks : tick'[t] = NotRunning
        /\ cutShort' = cutShort \cup UNION {Pending(t) \X {t} : t \in Running}
        /\ UNCHANGED <<lastRun, mails, lastTick, ticksOverlapped>>
    BY <1>4 DEF Restart
  <2>2. OneTick'
    BY <1>2, <2>1 DEF OneTick
  <2>3. ASSUME ~ticksOverlapped PROVE Stamped'
    <3>1. ASSUME NEW m \in mails, tick[m[3]].schedule = m[1] PROVE <<m[1], m[3]>> \in cutShort'
      <4>1. m[1] # Unset /\ m[3] \in Ticks
        BY MailIs, RepConstants DEF OnceInv, RepInv
      <4>2. m[3] \in Running /\ m[1] \in Pending(m[3])
        BY <1>2, <3>1, <4>1 DEF Running, Pending
      <4> QED BY <2>1, <4>2
    <3> QED BY <2>1, <2>3, <3>1 DEF OnceInv, Stamped
  <2>4. OnePerFiring'
    BY <2>1 DEF OnceInv, OnePerFiring
  <2> QED BY <1>1, <2>1, <2>2, <2>3, <2>4 DEF OnceInv
<1>5. CASE Down \/ UNCHANGED dispatchVars
  <2>1. UNCHANGED <<lastRun, mails, tick, lastTick, cutShort, ticksOverlapped>>
    BY <1>5 DEF Down, dispatchVars
  <2> QED BY <1>1, <2>1 DEF OnceInv, OneTick, Due, Stamped, OnePerFiring
<1>6. ASSUME NEW t \in Ticks, HandleSchedule(t) PROVE OnceInv'
  <2>1. ticksOverlapped' = ticksOverlapped
    BY <1>6, LoopStep DEF OnceInv
  <2> QED BY <1>1, <1>6, <2>1, LoopKeepsOnce DEF OnceInv, OnePerFiring
<1> QED BY <1>3, <1>4, <1>5, <1>6 DEF DispatchNext

\* Between two mails to one recipient the schedule has fired, unless a tick was broken
\* off at it or ticks overlapped (isDue in scheduler.ts).
THEOREM OncePerFiring == DispatchSpec => []OnePerFiring
<1>1. DispatchInit => OnceInv
  <2> SUFFICES ASSUME DispatchInit PROVE OnceInv
    OBVIOUS
  <2>1. /\ \A t \in Ticks : tick[t] = NotRunning
        /\ mails = {}
    BY DEF DispatchInit
  <2>2. NotRunning.schedule = Unset /\ NotRunning.todo = {}
    BY DEF NotRunning
  <2> QED BY <2>1, <2>2, RepInit DEF OnceInv, OneTick, Stamped, OnePerFiring
<1>2. OnceInv /\ [DispatchNext]_dispatchVars => OnceInv'
  BY OnceInvNext
<1>3. OnceInv => OnePerFiring
  BY DEF OnceInv
<1> QED BY <1>1, <1>2, <1>3, PTL DEF DispatchSpec

------------------------------------------------------------------------------
(* The copy of the inventory and its alerts.                               *)

Change == [item: Items, quantity: Quantities \cup {NoRow}]
CopyTyped ==
    /\ topic \in Seq(Change)
    /\ position \in 0..Len(topic) /\ committed \in 0..position
    /\ midway \in BOOLEAN
    /\ items \in [Items -> Quantities \cup {NoRow}]
    /\ history \in Seq(Nat)

\* The last change of an item, if there is one.
IsLast(i, k) == topic[k].item = i /\ \A j \in (k + 1)..Len(topic) : topic[j].item # i
Unchanged(i) == \A k \in 1..Len(topic) : topic[k].item # i

\* What the consumer has passed it has copied: the last change of each item, and
\* every point of the history.  A crash goes back over changes, and copying them again
\* ends with the last one again.
Copied ==
    /\ \A i \in Items :
          \/ Unchanged(i) /\ items[i] = NoRow
          \/ \E k \in 1..Len(topic) :
                IsLast(i, k) /\ (k <= position /\ k \notin skipped => items[i] = topic[k].quantity)
    /\ midway => position < Len(topic) /\ items[topic[position + 1].item] = topic[position + 1].quantity
    /\ \A k \in 1..position :
          k \notin skipped /\ topic[k].quantity # NoRow => \E h \in DOMAIN history : history[h] = k

CopyInv == CopyTyped /\ Copied

LEMMA StockInitCopy == ASSUME StockInit PROVE CopyInv
<1>1. topic = <<>> /\ history = <<>> /\ position = 0 /\ committed = 0 /\ midway = FALSE
      /\ items = [i \in Items |-> NoRow]
  BY DEF StockInit
<1>2. CopyTyped
  <2>1. topic \in Seq(Change) /\ history \in Seq(Nat) /\ Len(topic) = 0
    BY <1>1
  <2>2. items \in [Items -> Quantities \cup {NoRow}]
    BY <1>1
  <2>3. midway \in BOOLEAN
    BY <1>1, Zenon
  <2>4. position \in 0..Len(topic) /\ committed \in 0..position
    BY <1>1, <2>1
  <2> QED BY <2>1, <2>2, <2>3, <2>4 DEF CopyTyped
<1> QED BY <1>1, <1>2 DEF CopyInv, Copied, Unchanged

LEMMA ErpChangesKeeps ==
    ASSUME CopyInv, NEW i \in Items, NEW q \in Quantities \cup {NoRow}, ErpChanges(i, q)
    PROVE  CopyInv'
<1>1. PICK change \in Change : change = [item |-> i, quantity |-> q]
  BY DEF Change
<1>2. PICK n \in Nat : n = Len(topic)
  BY DEF CopyInv, CopyTyped
<1>3. /\ topic' = Append(topic, change)
      /\ UNCHANGED <<position, committed, midway, items, history, skipped>>
  BY <1>1 DEF ErpChanges, consumer
<1>4. /\ Len(topic') = n + 1 /\ topic'[n + 1] = change
      /\ \A k \in 1..n : topic'[k] = topic[k]
      /\ topic' \in Seq(Change) /\ change.item = i
      /\ position \in 0..n /\ committed \in 0..position
  BY <1>1, <1>2, <1>3 DEF CopyInv, CopyTyped
<1>5. CopyTyped'
  BY <1>2, <1>3, <1>4 DEF CopyInv, CopyTyped
<1>6. ASSUME NEW j \in Items
      PROVE  \/ Unchanged(j)' /\ items'[j] = NoRow
             \/ \E k \in 1..Len(topic') :
                   IsLast(j, k)' /\ (k <= position' /\ k \notin skipped' => items'[j] = topic'[k].quantity)
  <2>1. CASE j = i
    <3>1. PICK m \in 1..(n + 1) : m = n + 1
      OBVIOUS
    <3>2. IsLast(j, m)'
      BY <1>4, <2>1, <3>1 DEF IsLast
    <3>3. ~(m <= position')
      BY <1>3, <1>4, <3>1
    <3> QED BY <1>4, <3>1, <3>2, <3>3
  <2>2. CASE j # i /\ Unchanged(j) /\ items[j] = NoRow
    <3>1. \A k \in 1..(n + 1) : topic'[k].item # j
      BY <1>2, <1>4, <2>2 DEF Unchanged
    <3> QED BY <1>3, <1>4, <2>2, <3>1 DEF Unchanged
  <2>3. CASE j # i /\ \E k \in 1..n :
                IsLast(j, k) /\ (k <= position /\ k \notin skipped => items[j] = topic[k].quantity)
    <3>1. PICK k \in 1..n :
              IsLast(j, k) /\ (k <= position /\ k \notin skipped => items[j] = topic[k].quantity)
      BY <2>3
    <3>2. IsLast(j, k)'
      BY <1>2, <1>4, <2>3, <3>1 DEF IsLast
    <3> QED BY <1>3, <1>4, <3>1, <3>2
  <2> QED BY <1>2, <2>1, <2>2, <2>3 DEF CopyInv, Copied
<1>7. Copied'
  <2>1. midway => position < n /\ topic'[position + 1] = topic[position + 1]
    BY <1>2, <1>4 DEF CopyInv, Copied
  <2>2. \A k \in 1..position : topic'[k] = topic[k]
    BY <1>4
  <2> QED BY <1>2, <1>3, <1>4, <1>6, <2>1, <2>2 DEF CopyInv, Copied
<1> QED BY <1>5, <1>7 DEF CopyInv

\* The consumer goes on by one change, having copied it or having met an error.
LEMMA GoesOn ==
    ASSUME CopyInv, position < Len(topic), position' = position + 1, midway' \in BOOLEAN, ~midway',
           UNCHANGED <<topic, committed>>,
           items' \in [Items -> Quantities \cup {NoRow}], history' \in Seq(Nat),
           skipped \subseteq skipped',
           \A i \in Items : topic[position + 1].item # i => items'[i] = items[i],
           items' = items \/ items'[topic[position + 1].item] = topic[position + 1].quantity,
           \A h \in DOMAIN history : \E g \in DOMAIN history' : history'[g] = history[h],
           \/ position + 1 \in skipped'
           \/ /\ items'[topic[position + 1].item] = topic[position + 1].quantity
              /\ topic[position + 1].quantity # NoRow =>
                    \E h \in DOMAIN history' : history'[h] = position + 1
    PROVE  CopyInv'
<1>1. PICK p \in Nat : p = position + 1
  BY DEF CopyInv, CopyTyped
<1>2. p \in 1..Len(topic) /\ Len(topic) \in Nat /\ topic[p] \in Change /\ position \in Nat
  BY <1>1 DEF CopyInv, CopyTyped
<1>3. CopyTyped'
  <2>1. position' \in 0..Len(topic') /\ committed' \in 0..position' 
    BY <1>1, <1>2 DEF CopyInv, CopyTyped
  <2>2. topic' \in Seq(Change)
    BY DEF CopyInv, CopyTyped
  <2> QED BY <2>1, <2>2 DEF CopyTyped
<1>4. ASSUME NEW i \in Items
      PROVE  \/ Unchanged(i)' /\ items'[i] = NoRow
             \/ \E k \in 1..Len(topic') :
                   IsLast(i, k)' /\ (k <= position' /\ k \notin skipped' => items'[i] = topic'[k].quantity)
  <2>1. CASE Unchanged(i) /\ items[i] = NoRow
    BY <1>1, <1>2, <2>1 DEF Unchanged
  <2>2. CASE \E k \in 1..Len(topic) :
                IsLast(i, k) /\ (k <= position /\ k \notin skipped => items[i] = topic[k].quantity)
    <3>1. PICK k \in 1..Len(topic) :
              IsLast(i, k) /\ (k <= position /\ k \notin skipped => items[i] = topic[k].quantity)
      BY <2>2
    <3>2. IsLast(i, k)' /\ topic[k].item = i
      BY <3>1 DEF IsLast
    <3>3. CASE k < p
      <4>1. topic[p].item # i
        BY <1>2, <3>1, <3>3 DEF IsLast
      <4>2. k <= position /\ items'[i] = items[i]
        BY <1>1, <1>2, <3>3, <4>1
      <4> QED BY <3>1, <3>2, <4>2
    <3>4. CASE k = p
      BY <1>1, <3>1, <3>2, <3>4
    <3>5. CASE k > p
      BY <1>1, <3>2, <3>5
    <3> QED BY <3>3, <3>4, <3>5
  <2> QED BY <2>1, <2>2 DEF CopyInv, Copied
<1>5. ASSUME NEW k \in 1..position', k \notin skipped', topic[k].quantity # NoRow
      PROVE  \E h \in DOMAIN history' : history'[h] = k
  <2>1. CASE k = p
    BY <1>1, <1>5, <2>1
  <2>2. CASE k \in 1..position
    <3>1. PICK h \in DOMAIN history : history[h] = k
      BY <1>5, <2>2 DEF CopyInv, Copied
    <3> QED BY <3>1
  <2> QED BY <1>1, <1>2, <1>5, <2>1, <2>2
<1> QED BY <1>3, <1>4, <1>5 DEF CopyInv, Copied
\* The row is written, and its history point too when there is one to come.
LEMMA WriteItemKeeps == ASSUME CopyInv, WriteItem PROVE CopyInv'
<1>1. PICK p \in Nat : p = position + 1
  BY DEF CopyInv, CopyTyped
<1>2. /\ p \in 1..Len(topic) /\ Len(topic) \in Nat /\ topic[p] \in Change /\ ~midway
      /\ topic[p].item \in Items /\ topic[p].quantity \in Quantities \cup {NoRow}
  <2>1. position < Len(topic) /\ ~midway
    BY DEF WriteItem
  <2>2. p \in 1..Len(topic) /\ Len(topic) \in Nat /\ topic[p] \in Change
    BY <1>1, <2>1 DEF CopyInv, CopyTyped
  <2> QED BY <2>1, <2>2 DEF Change
<1>3. /\ items' = [items EXCEPT ![topic[p].item] = topic[p].quantity]
      /\ UNCHANGED <<topic, committed, history, skipped>>
  BY <1>1 DEF WriteItem, Event
<1>4. /\ items \in [Items -> Quantities \cup {NoRow}] /\ items' \in [Items -> Quantities \cup {NoRow}]
      /\ items'[topic[p].item] = topic[p].quantity
      /\ \A i \in Items : topic[p].item # i => items'[i] = items[i]
  BY <1>2, <1>3 DEF CopyInv, CopyTyped
<1>5. CASE topic[p].quantity = NoRow
  <2>1. position' = position + 1 /\ midway' = midway
    BY <1>1, <1>5 DEF WriteItem, Event
  <2>2. midway' \in BOOLEAN /\ history' \in Seq(Nat) /\ position < Len(topic)
    BY <1>1, <1>2, <1>3, <2>1 DEF CopyInv, CopyTyped
  <2> QED BY <1>1, <1>2, <1>3, <1>4, <1>5, <2>1, <2>2, GoesOn
<1>6. CASE topic[p].quantity # NoRow
  <2>1. position' = position /\ midway' = TRUE
    BY <1>1, <1>6 DEF WriteItem, Event
  <2>2. midway' \in BOOLEAN
    BY <2>1, Zenon
  <2>3. CopyTyped'
    BY <1>3, <1>4, <2>1, <2>2 DEF CopyInv, CopyTyped
  <2>4. ASSUME NEW i \in Items
        PROVE  \/ Unchanged(i)' /\ items'[i] = NoRow
               \/ \E k \in 1..Len(topic') :
                     IsLast(i, k)' /\ (k <= position' /\ k \notin skipped' => items'[i] = topic'[k].quantity)
    <3>1. CASE Unchanged(i) /\ items[i] = NoRow
      <4>1. topic[p].item # i
        BY <1>2, <3>1 DEF Unchanged
      <4> QED BY <1>3, <1>4, <3>1, <4>1 DEF Unchanged
    <3>2. CASE \E k \in 1..Len(topic) :
                  IsLast(i, k) /\ (k <= position /\ k \notin skipped => items[i] = topic[k].quantity)
      <4>1. PICK k \in 1..Len(topic) :
                IsLast(i, k) /\ (k <= position /\ k \notin skipped => items[i] = topic[k].quantity)
        BY <3>2
      <4>2. IsLast(i, k)'
        BY <1>3, <4>1 DEF IsLast
      <4>3. k <= position => topic[p].item # i
        BY <1>1, <1>2, <4>1 DEF IsLast, CopyInv, CopyTyped
      <4>4. k <= position' /\ k \notin skipped' => items'[i] = topic'[k].quantity
        BY <1>3, <1>4, <2>1, <4>1, <4>3
      <4>5. k \in 1..Len(topic')
        BY <1>3
      <4> QED BY <4>2, <4>4, <4>5
    <3> QED BY <3>1, <3>2 DEF CopyInv, Copied
  <2>5. midway' => position' < Len(topic')
                   /\ items'[topic'[position' + 1].item] = topic'[position' + 1].quantity
    BY <1>1, <1>2, <1>3, <1>4, <2>1 DEF CopyInv, CopyTyped
  <2>6. ASSUME NEW k \in 1..position', k \notin skipped', topic'[k].quantity # NoRow
        PROVE  \E h \in DOMAIN history' : history'[h] = k
    BY <1>3, <2>1, <2>6 DEF CopyInv, Copied
  <2> QED BY <2>3, <2>4, <2>5, <2>6 DEF CopyInv, Copied
<1> QED BY <1>5, <1>6

\* The point of the history is added.
LEMMA WriteHistoryKeeps == ASSUME CopyInv, WriteHistory PROVE CopyInv'
<1>1. PICK p \in Nat : p = position + 1
  BY DEF CopyInv, CopyTyped
<1>2. /\ position < Len(topic) /\ items[topic[p].item] = topic[p].quantity
      /\ history \in Seq(Nat) /\ items \in [Items -> Quantities \cup {NoRow}]
  BY <1>1 DEF WriteHistory, CopyInv, Copied, CopyTyped
<1>3. /\ history' = Append(history, p) /\ position' = position + 1 /\ midway' = FALSE
      /\ UNCHANGED <<topic, committed, items, skipped>>
  BY <1>1 DEF WriteHistory
<1>4. midway' \in BOOLEAN
  BY <1>3, Zenon
<1>5. /\ history' \in Seq(Nat) /\ history'[Len(history) + 1] = p /\ Len(history) \in Nat
      /\ DOMAIN history' = 1..(Len(history) + 1) /\ DOMAIN history = 1..Len(history)
      /\ \A h \in DOMAIN history : history'[h] = history[h]
  BY <1>1, <1>2, <1>3
<1>6. /\ \A h \in DOMAIN history : \E g \in DOMAIN history' : history'[g] = history[h]
      /\ \E h \in DOMAIN history' : history'[h] = p
  BY <1>5
<1>7. items' \in [Items -> Quantities \cup {NoRow}]
  BY <1>2, <1>3
<1> QED BY <1>1, <1>2, <1>3, <1>4, <1>5, <1>6, <1>7, GoesOn

LEMMA ApplyFailsKeeps == ASSUME CopyInv, ApplyFails PROVE CopyInv'
<1>1. /\ position < Len(topic) /\ position' = position + 1 /\ midway' = FALSE
      /\ skipped' = skipped \cup {position + 1}
      /\ UNCHANGED <<topic, committed, items, history>>
  BY DEF ApplyFails
<1>2. midway' \in BOOLEAN
  BY <1>1, Zenon
<1>3. items' \in [Items -> Quantities \cup {NoRow}] /\ history' \in Seq(Nat)
  BY <1>1 DEF CopyInv, CopyTyped
<1>4. \A h \in DOMAIN history : \E g \in DOMAIN history' : history'[g] = history[h]
  BY <1>1
<1> QED BY <1>1, <1>2, <1>3, <1>4, GoesOn

\* A crash goes back to what was committed.
LEMMA GoesBack ==
    ASSUME CopyInv, position' \in 0..position, committed' \in 0..position',
           midway' \in BOOLEAN, midway' => midway /\ position' = position,
           UNCHANGED <<topic, items, history, skipped>>
    PROVE  CopyInv'
<1>1. position \in 0..Len(topic) /\ Len(topic) \in Nat
  BY DEF CopyInv, CopyTyped
<1>2. CopyTyped'
  <2>1. position' \in 0..Len(topic')
    BY <1>1
  <2> QED BY <2>1 DEF CopyInv, CopyTyped
<1>3. ASSUME NEW i \in Items
      PROVE  \/ Unchanged(i)' /\ items'[i] = NoRow
             \/ \E k \in 1..Len(topic') :
                   IsLast(i, k)' /\ (k <= position' /\ k \notin skipped' => items'[i] = topic'[k].quantity)
  <2>1. CASE Unchanged(i) /\ items[i] = NoRow
    BY <2>1 DEF Unchanged
  <2>2. CASE \E k \in 1..Len(topic) :
                IsLast(i, k) /\ (k <= position /\ k \notin skipped => items[i] = topic[k].quantity)
    <3>1. PICK k \in 1..Len(topic) :
              IsLast(i, k) /\ (k <= position /\ k \notin skipped => items[i] = topic[k].quantity)
      BY <2>2
    <3>2. IsLast(i, k)'
      BY <3>1 DEF IsLast
    <3>3. k <= position' => k <= position
      BY <1>1
    <3> QED BY <3>1, <3>2, <3>3
  <2> QED BY <2>1, <2>2 DEF CopyInv, Copied
<1>4. midway' => position' < Len(topic')
                 /\ items'[topic'[position' + 1].item] = topic'[position' + 1].quantity
  BY DEF CopyInv, Copied
<1>5. \A k \in 1..position' : k \notin skipped' /\ topic'[k].quantity # NoRow
                                  => \E h \in DOMAIN history' : history'[h] = k
  <2>1. \A k \in 1..position' : k \in 1..position
    BY <1>1
  <2> QED BY <2>1 DEF CopyInv, Copied
<1> QED BY <1>2, <1>3, <1>4, <1>5 DEF CopyInv, Copied

LEMMA StockNextCopy == ASSUME CopyInv, [StockNext]_stockVars PROVE CopyInv'
<1>1. /\ position \in 0..Len(topic) /\ Len(topic) \in Nat /\ committed \in 0..position
      /\ midway \in BOOLEAN
  BY DEF CopyInv, CopyTyped
<1>2. ASSUME NEW i \in Items, NEW q \in Quantities \cup {NoRow}, ErpChanges(i, q)
      PROVE  CopyInv'
  BY <1>2, ErpChangesKeeps
<1>3. CASE Consume
  BY <1>3, WriteItemKeeps, WriteHistoryKeeps DEF Consume
<1>4. CASE ApplyFails
  BY <1>4, ApplyFailsKeeps
<1>5. CASE Commit
  <2>1. /\ committed' = position /\ UNCHANGED <<topic, position, midway, items, history, skipped>>
    BY <1>5 DEF Commit
  <2>2. position' \in 0..position /\ committed' \in 0..position' /\ midway' \in BOOLEAN
    BY <1>1, <2>1
  <2> QED BY <2>1, <2>2, GoesBack
<1>6. CASE StartOver
  <2>1. /\ position' = committed /\ midway' = FALSE
        /\ UNCHANGED <<topic, committed, items, history, skipped>>
    BY <1>6 DEF StartOver
  <2>2. midway' \in BOOLEAN
    BY <2>1, Zenon
  <2>3. position' \in 0..position /\ committed' \in 0..position'
    BY <1>1, <2>1
  <2> QED BY <2>1, <2>2, <2>3, GoesBack
<1>7. ASSUME UNCHANGED <<topic, position, committed, midway, items, history, skipped>>
      PROVE  CopyInv'
  <2>1. position' \in 0..position /\ committed' \in 0..position' /\ midway' \in BOOLEAN
    BY <1>1, <1>7
  <2> QED BY <1>7, <2>1, GoesBack
<1>8. ASSUME NEW c \in Cycles, Recompute(c) \/ CycleFails(c)
      PROVE  CopyInv'
  BY <1>7, <1>8 DEF Recompute, CycleFails, StartCycle, ReadItem,
     WriteForecast, InsertAlert, consumer
<1>9. CASE UNCHANGED stockVars
  BY <1>7, <1>9 DEF stockVars, consumer
<1> QED BY <1>2, <1>3, <1>4, <1>5, <1>6, <1>8, <1>9 DEF StockNext

\* ErpAfter and LastEvent take a maximum: the last change of the item.
LEMMA CopyIsErp ==
    ASSUME CopyInv, position = Len(topic), NEW i \in Items, LastEvent(i) \notin skipped
    PROVE  items[i] = ErpAfter(Len(topic), i)
<1>1. PICK n \in Nat : n = Len(topic) /\ DOMAIN topic = 1..n
  BY DEF CopyInv, CopyTyped
<1>2. DEFINE of == {k \in 1..n : topic[k].item = i}
<1>3. /\ LastEvent(i) = Max({0} \cup of)
      /\ ErpAfter(Len(topic), i) = IF of = {} THEN NoRow ELSE topic[Max(of)].quantity
  BY <1>1 DEF LastEvent, ErpAfter
<1>4. CASE Unchanged(i) /\ items[i] = NoRow
  <2>1. of = {}
    BY <1>1, <1>4 DEF Unchanged
  <2> QED BY <1>3, <1>4, <2>1
<1>5. CASE \E k \in 1..n : IsLast(i, k) /\ (k <= position /\ k \notin skipped => items[i] = topic[k].quantity)
  <2>1. PICK k \in 1..n : IsLast(i, k) /\ (k <= position /\ k \notin skipped => items[i] = topic[k].quantity)
    BY <1>5
  <2>2. k \in of /\ \A j \in of : j <= k
    BY <1>1, <2>1 DEF IsLast
  <2>3. Max(of) = k
    <3>1. \A j \in of : (\A l \in of : j >= l) => j = k
      BY <2>2
    <3> QED BY <2>2, <3>1 DEF Max
  <2>4. Max({0} \cup of) = k
    <3>1. k \in {0} \cup of /\ \A j \in {0} \cup of : k >= j
      BY <2>2
    <3>2. \A j \in {0} \cup of : (\A l \in {0} \cup of : j >= l) => j = k
      BY <2>2
    <3> HIDE DEF of
    <3> QED BY <3>1, <3>2 DEF Max
  <2>5. k \notin skipped /\ k <= position /\ of # {}
    BY <1>1, <1>3, <2>2, <2>4
  <2> HIDE DEF of
  <2> QED BY <1>3, <2>1, <2>3, <2>5
<1> QED BY <1>1, <1>4, <1>5 DEF CopyInv, Copied

LEMMA CaughtUpFollows == ASSUME CopyInv PROVE CaughtUp
<1>1. ASSUME position = Len(topic), NEW k \in DOMAIN topic \ skipped, topic[k].quantity # NoRow
      PROVE  k \in ToSet(history)
  <2>1. k \in 1..position
    BY <1>1 DEF CopyInv, CopyTyped
  <2>2. \E h \in DOMAIN history : history[h] = k
    BY <1>1, <2>1 DEF CopyInv, Copied
  <2> QED BY <2>2 DEF ToSet
<1> QED BY <1>1, CopyIsErp DEF CaughtUp

\* The copy of the inventory is that of the ERP table once everything is consumed, and
\* every point is in the history, however often the consumer was restarted
\* (applyChange, inventoryConsumer.ts).
THEOREM CopyCatchesUp == StockSpec => []CaughtUp
<1>1. CopyInv /\ [StockNext]_stockVars => CopyInv'
  BY StockNextCopy
<1> QED BY <1>1, StockInitCopy, CaughtUpFollows, PTL DEF StockSpec
------------------------------------------------------------------------------
Place == [at : {"idle", "next", "forecast", "alert"}, todo : SUBSET Snapshot,
          item : Items \cup {NoRow}, low : BOOLEAN, was : BOOLEAN]
AlertTyped ==
    /\ items \in [Items -> Quantities \cup {NoRow}]
    /\ forecasts \in [Items -> BOOLEAN \cup {NoRow}]
    /\ spell \in [Items -> Nat]
    /\ cycle \in [Cycles -> Place]

\* What a recomputation has in hand, if it has the item to itself: between the read and
\* the write of the forecast it remembers what the last one said, and before the alert
\* nobody has told of the spell.
InHand(w) ==
    /\ w.at \in {"forecast", "alert"} => w.item \in Items
    /\ w.item \notin contested =>
          /\ w.at = "forecast" => (w.was <=> WasLow(w.item))
          /\ w.at = "alert" => WasLow(w.item) /\ spell[w.item] = 0

\* An item that is not contested is before one recomputation at most.
Alone(i) == \A c, d \in Cycles : (i \in Ahead(cycle[c]) /\ i \in Ahead(cycle[d])) => c = d

\* An alert belongs to a spell, a spell has an alert, or the cycle that is to raise it.
Told(i) ==
    /\ spell[i] <= 1
    /\ ~WasLow(i) => spell[i] = 0
    /\ WasLow(i) => \/ spell[i] > 0
                          \/ i \in unannounced
                          \/ \E c \in Cycles : cycle[c].at = "alert" /\ cycle[c].item = i

AlertInv ==
    /\ AlertTyped
    /\ \A c \in Cycles : InHand(cycle[c])
    /\ \A i \in Items \ contested : Alone(i) /\ Told(i)

LEMMA IdlePlace == Idle \in Place /\ Idle.at = "idle" /\ Ahead(Idle) = {}
BY DEF Place, Idle, Ahead

\* The item in hand is ahead.
LEMMA HandAhead == ASSUME NEW w, w.at \in {"forecast", "alert"} PROVE w.item \in Ahead(w)
BY DEF Ahead

LEMMA StockInitAlert == ASSUME StockInit, NoRow \notin BOOLEAN PROVE AlertInv
<1>1. /\ items = [i \in Items |-> NoRow] /\ forecasts = [i \in Items |-> NoRow]
      /\ spell = [i \in Items |-> 0] /\ cycle = [c \in Cycles |-> Idle]
  BY DEF StockInit
<1>2. AlertTyped
  BY <1>1, IdlePlace DEF AlertTyped
<1>3. \A i \in Items : ~WasLow(i) /\ spell[i] = 0
  BY <1>1 DEF WasLow
<1>4. \A i \in Items : Alone(i) /\ Told(i)
  BY <1>1, <1>3, IdlePlace DEF Alone, Told
<1>5. \A c \in Cycles : InHand(cycle[c])
  BY <1>1, IdlePlace DEF InHand
<1> QED BY <1>2, <1>4, <1>5 DEF AlertInv

\* A step of a cycle that neither writes a forecast nor raises an alert: what it takes on
\* is contested, if it was before another.
LEMMA CycleGoesOn ==
    ASSUME AlertInv, NEW c \in Cycles, NEW w \in Place,
           w.at \in {"idle", "next", "forecast"}, InHand(w),
           \A i \in Ahead(w) \ contested' : i \in Ahead(cycle[c]) \/ i \notin AheadOfOthers(c),
           cycle' = [cycle EXCEPT ![c] = w],
           contested \subseteq contested', unannounced \subseteq unannounced',
           cycle[c].at = "alert" => cycle[c].item \in unannounced',
           UNCHANGED <<items, forecasts, spell>>
    PROVE  AlertInv'
<1>1. cycle' \in [Cycles -> Place] /\ cycle'[c] = w /\ \A d \in Cycles \ {c} : cycle'[d] = cycle[d]
  BY DEF AlertInv, AlertTyped
<1>2. AlertTyped'
  BY <1>1 DEF AlertInv, AlertTyped
<1>3. ASSUME NEW d \in Cycles PROVE InHand(cycle[d])'
  <2>1. InHand(cycle'[d])
    BY <1>1 DEF AlertInv
  <2> QED BY <2>1 DEF InHand, WasLow
<1>4. ASSUME NEW i \in Items \ contested' PROVE (Alone(i) /\ Told(i))'
  <2>1. /\ Alone(i) /\ Told(i)
        /\ (WasLow(i)' <=> WasLow(i)) /\ spell'[i] = spell[i]
    BY DEF AlertInv, WasLow
  <2>2. Told(i)'
    <3>1. ASSUME NEW d \in Cycles, cycle[d].at = "alert", cycle[d].item = i
          PROVE  i \in unannounced' \/ cycle'[d] = cycle[d]
      BY <1>1, <3>1
    <3> QED BY <2>1, <3>1 DEF Told
  <2>3. ASSUME NEW d \in Cycles \ {c}, i \in Ahead(cycle[d]) PROVE i \notin Ahead(w)
    <3>1. i \in AheadOfOthers(c)
      BY <2>3 DEF AheadOfOthers
    <3> QED BY <2>1, <2>3, <3>1 DEF Alone
  <2>4. \A d \in Cycles : Ahead(cycle[d])' = IF d = c THEN Ahead(w) ELSE Ahead(cycle[d])
    BY <1>1 DEF Ahead
  <2>5. Alone(i)'
    BY <2>1, <2>3, <2>4 DEF Alone
  <2> QED BY <2>2, <2>5
<1> QED BY <1>2, <1>3, <1>4 DEF AlertInv

\* The rows that are left.
LEMMA RowsLeft ==
    ASSUME NEW rows \in SUBSET Snapshot
    PROVE  /\ [Idle EXCEPT !.at = "next", !.todo = rows] \in Place
           /\ [Idle EXCEPT !.at = "next", !.todo = rows].at = "next"
           /\ [Idle EXCEPT !.at = "next", !.todo = rows].todo = rows
<1>1. PICK idle \in Place : idle = Idle
  BY IdlePlace
<1>2. [idle EXCEPT !.at = "next", !.todo = rows] \in Place
  BY DEF Place
<1>3. /\ [idle EXCEPT !.at = "next", !.todo = rows].at = "next"
      /\ [idle EXCEPT !.at = "next", !.todo = rows].todo = rows
  BY DEF Place
<1> QED BY <1>1, <1>2, <1>3

LEMMA EndItemPlace ==
    ASSUME NEW w \in Place
    PROVE  /\ EndItem(w.todo) \in Place /\ EndItem(w.todo).at \in {"idle", "next"}
           /\ Ahead(EndItem(w.todo)) \subseteq Ahead(w)
<1>1. w.todo \in SUBSET Snapshot
  BY DEF Place
<1>2. EndItem(w.todo) \in Place /\ EndItem(w.todo).at \in {"idle", "next"} /\ EndItem(w.todo).todo \subseteq w.todo
  BY <1>1, RowsLeft, IdlePlace DEF EndItem, Idle
<1> QED BY <1>2 DEF Ahead

LEMMA StartCycleKeeps ==
    ASSUME AlertInv, NEW c \in Cycles, StartCycle(c) PROVE AlertInv'
<1>1. PICK rows : rows = {[item |-> i, quantity |-> items[i]] : i \in {i \in Items : items[i] # NoRow}}
  OBVIOUS
<1>2. rows \in SUBSET Snapshot /\ \A row \in rows : row.item \in Items /\ items[row.item] # NoRow
  BY <1>1 DEF AlertInv, AlertTyped, Snapshot
<1>3. PICK w : w = [Idle EXCEPT !.at = "next", !.todo = rows]
  OBVIOUS
<1>4. w \in Place /\ w.at = "next" /\ w.todo = rows
  BY <1>2, <1>3, RowsLeft
<1>5. /\ cycle' = [cycle EXCEPT ![c] = w] /\ cycle[c] = Idle
      /\ contested' = contested \cup {i \in AheadOfOthers(c) : items[i] # NoRow}
      /\ UNCHANGED <<items, forecasts, spell, unannounced>>
  BY <1>1, <1>3 DEF StartCycle, consumer
<1>6. InHand(w)
  BY <1>4 DEF InHand
<1>7. \A i \in Ahead(w) : items[i] # NoRow
  BY <1>2, <1>4 DEF Ahead
<1> QED BY <1>4, <1>5, <1>6, <1>7, IdlePlace, CycleGoesOn

LEMMA ReadItemKeeps ==
    ASSUME AlertInv, NEW c \in Cycles, ReadItem(c) PROVE AlertInv'
<1>1. PICK row \in cycle[c].todo :
          cycle' = [cycle EXCEPT ![c] =
              [at |-> "forecast", todo |-> @.todo \ {row}, item |-> row.item,
               low |-> IsLowStock(row.item, row.quantity), was |-> WasLow(row.item)]]
  BY DEF ReadItem
<1>2. PICK low \in BOOLEAN : low = IsLowStock(row.item, row.quantity)
  BY DEF IsLowStock
<1>3. PICK was \in BOOLEAN : was = WasLow(row.item)
  BY DEF WasLow
<1>4. PICK w : w = [at |-> "forecast", todo |-> cycle[c].todo \ {row}, item |-> row.item,
                    low |-> low, was |-> was]
  OBVIOUS
<1>5. cycle[c].todo \in SUBSET Snapshot /\ row.item \in Items
  BY DEF AlertInv, AlertTyped, Place, Snapshot
<1>6. w \in Place /\ w.at = "forecast" /\ w.item = row.item /\ w.was = was /\ w.todo = cycle[c].todo \ {row}
  BY <1>4, <1>5 DEF Place
<1>7. cycle' = [cycle EXCEPT ![c] = w]
  BY <1>1, <1>2, <1>3, <1>4
<1>8. InHand(w)
  BY <1>3, <1>5, <1>6 DEF InHand
<1>9. cycle[c].at = "next" /\ UNCHANGED <<items, forecasts, spell, unannounced, contested>>
  BY DEF ReadItem, consumer
<1>10. Ahead(w) \subseteq Ahead(cycle[c])
  BY <1>6 DEF Ahead
<1> QED BY <1>6, <1>7, <1>8, <1>9, <1>10, CycleGoesOn

LEMMA CycleFailsKeeps ==
    ASSUME AlertInv, NEW c \in Cycles, CycleFails(c) PROVE AlertInv'
<1>1. /\ cycle' = [cycle EXCEPT ![c] = Idle]
      /\ unannounced' = unannounced \cup Unannounced({c})
      /\ UNCHANGED <<items, forecasts, spell, contested>>
  BY DEF CycleFails, consumer
<1>2. cycle[c].at = "alert" => cycle[c].item \in unannounced'
  BY <1>1 DEF Unannounced
<1>3. InHand(Idle)
  BY IdlePlace DEF InHand
<1> QED BY <1>1, <1>2, <1>3, IdlePlace, CycleGoesOn

\* A step of a cycle with the item it has in hand.  The others have it only if it
\* stays contested.
LEMMA CycleActs ==
    ASSUME AlertInv, AlertTyped', NEW c \in Cycles, NEW i \in Items, NEW next \in Place,
           cycle[c].at \in {"forecast", "alert"}, cycle[c].item = i,
           cycle' = [cycle EXCEPT ![c] = next], InHand(next)',
           Ahead(next) \subseteq Ahead(cycle[c]),
           \A j \in Items \ {i} :
               /\ forecasts'[j] = forecasts[j] /\ spell'[j] = spell[j]
               /\ j \in contested <=> j \in contested'
               /\ j \in unannounced <=> j \in unannounced',
           i \notin contested' => Told(i)' /\ (i \notin contested \/ i \notin AheadOfOthers(c))
    PROVE  AlertInv'
<1>1. /\ cycle'[c] = next /\ \A d \in Cycles \ {c} : cycle'[d] = cycle[d]
      /\ \A d \in Cycles : Ahead(cycle[d])' = IF d = c THEN Ahead(next) ELSE Ahead(cycle[d])
  BY DEF AlertInv, AlertTyped, Ahead
<1>2. ASSUME i \notin contested', NEW d \in Cycles \ {c} PROVE i \notin Ahead(cycle[d])
  <2>1. i \in Ahead(cycle[c])
    BY HandAhead
  <2>2. CASE i \notin contested
    BY <2>1, <2>2 DEF AlertInv, Alone
  <2>3. CASE i \notin AheadOfOthers(c)
    BY <2>3 DEF AheadOfOthers
  <2> QED BY <1>2, <2>2, <2>3
<1>3. ASSUME NEW d \in Cycles PROVE InHand(cycle[d])'
  <2>1. CASE d = c
    BY <1>1, <2>1
  <2>2. CASE d # c
    <3>1. InHand(cycle[d]) /\ cycle'[d] = cycle[d]
      BY <1>1, <2>2 DEF AlertInv
    <3>2. CASE cycle[d].at \notin {"forecast", "alert"}
      BY <3>1, <3>2 DEF InHand
    <3>3. CASE cycle[d].at \in {"forecast", "alert"} /\ cycle[d].item = i
      <4>1. i \in contested'
        BY <1>2, <2>2, <3>3, HandAhead
      <4> QED BY <3>1, <3>3, <4>1 DEF InHand
    <3>4. CASE cycle[d].at \in {"forecast", "alert"} /\ cycle[d].item # i
      <4>1. cycle[d].item \in Items \ {i}
        BY <3>1, <3>4 DEF InHand
      <4> QED BY <3>1, <4>1 DEF InHand, WasLow
    <3> QED BY <3>2, <3>3, <3>4
  <2> QED BY <2>1, <2>2
<1>4. ASSUME NEW j \in Items \ contested' PROVE (Alone(j) /\ Told(j))'
  <2>1. CASE j = i
    <3>1. Alone(i)'
      BY <1>1, <1>2, <1>4, <2>1 DEF Alone
    <3> QED BY <1>4, <2>1, <3>1
  <2>2. CASE j # i
    <3>1. Alone(j) /\ Told(j) /\ (WasLow(j)' <=> WasLow(j)) /\ spell'[j] = spell[j]
      BY <1>4, <2>2 DEF AlertInv, WasLow
    <3>2. Alone(j)'
      BY <1>1, <3>1 DEF Alone
    <3>3. \A d \in Cycles : cycle[d].at = "alert" /\ cycle[d].item = j => cycle'[d] = cycle[d]
      BY <1>1, <2>2
    <3>4. Told(j)'
      BY <1>4, <2>2, <3>1, <3>3 DEF Told
    <3> QED BY <3>2, <3>4
  <2> QED BY <2>1, <2>2
<1> QED BY <1>3, <1>4 DEF AlertInv

LEMMA WriteForecastKeeps ==
    ASSUME AlertInv, NEW c \in Cycles, WriteForecast(c) PROVE AlertInv'
<1>1. PICK w \in Place : w = cycle[c]
  BY DEF AlertInv, AlertTyped
<1>2. PICK i \in Items : i = w.item
  BY <1>1 DEF WriteForecast, AlertInv, InHand
<1>3. PICK low \in BOOLEAN : low = w.low
  BY <1>1 DEF Place
<1>4. PICK next : next = IF low /\ ~w.was THEN [w EXCEPT !.at = "alert"] ELSE EndItem(w.todo)
  OBVIOUS
<1>5. /\ w.at = "forecast"
      /\ forecasts' = [forecasts EXCEPT ![i] = low]
      /\ cycle' = [cycle EXCEPT ![c] = next]
      /\ UNCHANGED items
  BY <1>1, <1>2, <1>3, <1>4 DEF WriteForecast, consumer
<1>6. IF low THEN UNCHANGED <<spell, unannounced, contested>>
             ELSE /\ spell' = [spell EXCEPT ![i] = 0] /\ unannounced' = unannounced \ {i}
                  /\ contested' = IF i \in AheadOfOthers(c) THEN contested ELSE contested \ {i}
  BY <1>1, <1>2, <1>3 DEF WriteForecast, EndSpell
<1>7. /\ next \in Place /\ Ahead(next) \subseteq Ahead(w)
      /\ low /\ ~w.was => next.at = "alert" /\ next.item = i
      /\ ~(low /\ ~w.was) => next.at \in {"idle", "next"}
  <2>1. CASE low /\ ~w.was
    <3>1. next \in Place /\ next.at = "alert" /\ next.item = i /\ next.todo = w.todo
      BY <1>2, <1>4, <2>1 DEF Place
    <3> QED BY <1>2, <1>5, <2>1, <3>1 DEF Ahead
  <2>2. CASE ~(low /\ ~w.was)
    BY <1>4, <2>2, EndItemPlace
  <2> QED BY <2>1, <2>2
<1>8. /\ cycle' \in [Cycles -> Place] /\ cycle'[c] = next
      /\ forecasts' \in [Items -> BOOLEAN \cup {NoRow}] /\ forecasts'[i] = low
      /\ \A j \in Items \ {i} : forecasts'[j] = forecasts[j] /\ spell'[j] = spell[j]
      /\ spell' \in [Items -> Nat]
      /\ low => spell'[i] = spell[i]
      /\ ~low => spell'[i] = 0
  BY <1>5, <1>6, <1>7 DEF AlertInv, AlertTyped
<1>9. AlertTyped'
  BY <1>5, <1>8 DEF AlertInv, AlertTyped
<1>10. WasLow(i)' <=> low
  BY <1>3, <1>8 DEF WasLow
<1>11. i \notin contested => Told(i) /\ (w.was <=> WasLow(i))
  BY <1>1, <1>2, <1>5 DEF AlertInv, InHand
<1>12. InHand(next)'
  <2>1. CASE low /\ ~w.was
    BY <1>6, <1>7, <1>8, <1>10, <1>11, <2>1 DEF InHand, Told
  <2>2. CASE ~(low /\ ~w.was)
    BY <1>7, <2>2 DEF InHand
  <2> QED BY <2>1, <2>2
<1>13. ASSUME i \notin contested' PROVE Told(i)'
  <2>1. CASE ~low
    BY <1>8, <1>10, <2>1 DEF Told
  <2>2. CASE low
    <3>1. /\ i \notin contested /\ spell'[i] = spell[i] /\ unannounced' = unannounced
          /\ Told(i) /\ (w.was <=> WasLow(i))
      BY <1>6, <1>11, <1>13, <2>2
    <3>2. CASE w.was
      <4>1. ASSUME NEW d \in Cycles, cycle[d].at = "alert", cycle[d].item = i PROVE d # c
        BY <1>1, <1>5, <4>1
      <4>2. ASSUME NEW d \in Cycles, cycle[d].at = "alert", cycle[d].item = i
            PROVE  cycle'[d].at = "alert" /\ cycle'[d].item = i
        BY <1>5, <4>1, <4>2 DEF AlertInv, AlertTyped
      <4> QED BY <1>10, <2>2, <3>1, <3>2, <4>2 DEF Told
    <3>3. CASE ~w.was
      BY <1>7, <1>8, <1>10, <2>2, <3>1, <3>3 DEF Told
    <3> QED BY <3>2, <3>3
  <2> QED BY <2>1, <2>2
<1>14. \A j \in Items \ {i} :
           (j \in contested <=> j \in contested') /\ (j \in unannounced <=> j \in unannounced')
  BY <1>6
<1>15. i \notin contested' => i \notin contested \/ i \notin AheadOfOthers(c)
  BY <1>6
<1> QED BY <1>1, <1>2, <1>5, <1>7, <1>8, <1>9, <1>12, <1>13, <1>14, <1>15, CycleActs

LEMMA InsertAlertKeeps ==
    ASSUME AlertInv, NEW c \in Cycles, InsertAlert(c) PROVE AlertInv'
<1>1. PICK w \in Place : w = cycle[c]
  BY DEF AlertInv, AlertTyped
<1>2. PICK i \in Items : i = w.item
  BY <1>1 DEF InsertAlert, AlertInv, InHand
<1>3. PICK next : next = EndItem(w.todo)
  OBVIOUS
<1>4. next \in Place /\ next.at \in {"idle", "next"} /\ Ahead(next) \subseteq Ahead(w)
  BY <1>3, EndItemPlace
<1>5. /\ w.at = "alert" /\ cycle' = [cycle EXCEPT ![c] = next]
      /\ spell' = [spell EXCEPT ![i] = spell[i] + 1]
      /\ UNCHANGED <<items, forecasts, unannounced, contested>>
  BY <1>1, <1>2, <1>3 DEF InsertAlert, consumer
<1>6. i \notin contested => spell[i] = 0 /\ WasLow(i)
  BY <1>1, <1>2, <1>5 DEF AlertInv, InHand
<1>7. /\ spell' \in [Items -> Nat] /\ spell'[i] = spell[i] + 1
      /\ \A j \in Items \ {i} : spell'[j] = spell[j]
      /\ cycle' \in [Cycles -> Place]
  BY <1>4, <1>5 DEF AlertInv, AlertTyped
<1>8. AlertTyped'
  BY <1>5, <1>7 DEF AlertInv, AlertTyped
<1>9. InHand(next)'
  BY <1>4 DEF InHand
<1>10. i \notin contested => Told(i)'
  <2>1. WasLow(i)' <=> WasLow(i)
    BY <1>5 DEF WasLow
  <2> QED BY <1>6, <1>7, <2>1 DEF Told
<1> QED BY <1>1, <1>2, <1>4, <1>5, <1>7, <1>8, <1>9, <1>10, CycleActs

LEMMA CrashKeepsAlerts == ASSUME AlertInv, StartOver PROVE AlertInv'
<1>1. /\ cycle' = [c \in Cycles |-> Idle]
      /\ unannounced' = unannounced \cup Unannounced(Cycles)
      /\ UNCHANGED <<items, forecasts, spell, contested>>
  BY DEF StartOver
<1>2. AlertTyped'
  BY <1>1, IdlePlace DEF AlertInv, AlertTyped
<1>3. ASSUME NEW c \in Cycles PROVE InHand(cycle[c])' /\ Ahead(cycle[c])' = {}
  <2>1. cycle'[c] = Idle
    BY <1>1
  <2> QED BY <2>1, IdlePlace DEF InHand, Ahead
<1>4. ASSUME NEW i \in Items \ contested' PROVE (Alone(i) /\ Told(i))'
  <2>1. Told(i) /\ (WasLow(i)' <=> WasLow(i)) /\ spell'[i] = spell[i]
    BY <1>1 DEF AlertInv, WasLow
  <2>2. (\E d \in Cycles : cycle[d].at = "alert" /\ cycle[d].item = i) => i \in unannounced'
    BY <1>1 DEF Unannounced
  <2>3. i \in unannounced => i \in unannounced'
    BY <1>1
  <2>4. Alone(i)'
    BY <1>3 DEF Alone
  <2> QED BY <2>1, <2>2, <2>3, <2>4 DEF Told
<1> QED BY <1>2, <1>3, <1>4 DEF AlertInv

\* The consumer writes rows, and nothing else the alerts depend on.
LEMMA ConsumerKeepsAlerts ==
    ASSUME AlertInv, items' \in [Items -> Quantities \cup {NoRow}],
           UNCHANGED <<forecasts, spell, cycle, unannounced, contested>>
    PROVE  AlertInv'
<1>1. AlertTyped'
  BY DEF AlertInv, AlertTyped
<1>2. ASSUME NEW c \in Cycles PROVE InHand(cycle[c])'
  BY DEF AlertInv, InHand, WasLow
<1>3. ASSUME NEW i \in Items \ contested PROVE (Alone(i) /\ Told(i))'
  BY DEF AlertInv, Alone, Ahead, Told, WasLow
<1> QED BY <1>1, <1>2, <1>3 DEF AlertInv

LEMMA StockNextAlert ==
    ASSUME CopyInv, CopyInv', AlertInv, [StockNext]_stockVars PROVE AlertInv'
<1>1. items' \in [Items -> Quantities \cup {NoRow}]
  BY DEF CopyInv, CopyTyped
<1>2. ASSUME NEW i \in Items, NEW q \in Quantities \cup {NoRow}, ErpChanges(i, q)
      PROVE  AlertInv'
  BY <1>1, <1>2, ConsumerKeepsAlerts DEF ErpChanges
<1>3. CASE Consume \/ ApplyFails \/ Commit \/ UNCHANGED stockVars
  BY <1>1, <1>3, ConsumerKeepsAlerts
     DEF Consume, WriteItem, WriteHistory, ApplyFails, Commit, stockVars
<1>4. CASE StartOver
  BY <1>4, CrashKeepsAlerts
<1>5. ASSUME NEW c \in Cycles, Recompute(c) \/ CycleFails(c)
      PROVE  AlertInv'
  BY <1>5, StartCycleKeeps, ReadItemKeeps, WriteForecastKeeps, InsertAlertKeeps, CycleFailsKeeps
     DEF Recompute
<1> QED BY <1>2, <1>3, <1>4, <1>5 DEF StockNext

LEMMA AlertInvTells == ASSUME AlertInv PROVE OneAlertPerSpell
<1>1. \A i \in Items \ contested : Told(i)
  BY DEF AlertInv
<1> QED BY <1>1 DEF Told, OneAlertPerSpell, Unannounced

\* Every spell of an item being low has one alert, or one under way, or the cycle that
\* was to raise it was broken off, if no two recomputations have had the item before
\* them at once (recompute.ts; the timer of index.ts does not wait for the last one).
THEOREM OneAlertEach == StockSpec => []OneAlertPerSpell
<1>1. NoRow \notin BOOLEAN
  BY InventoryAssumption
<1>2. (CopyInv /\ AlertInv) /\ [StockNext]_stockVars => (CopyInv /\ AlertInv)'
  BY StockNextCopy, StockNextAlert
<1>3. StockInit => CopyInv /\ AlertInv
  BY <1>1, StockInitCopy, StockInitAlert
<1> QED BY <1>2, <1>3, AlertInvTells, PTL DEF StockSpec

------------------------------------------------------------------------------
(* The geofence alerts.                                                    *)

What == Transitions \cup {<<"ANOMALY">>}
AlertType == [job: 1..Len(jobs), what: What, sent: Nat, logged: BOOLEAN]
FenceTyped ==
    /\ jobs \in Seq(Entities \X Positions) /\ Len(jobs) <= MaxJobs
    /\ queue \in Seq(1..Len(jobs))
    /\ stalled \subseteq 1..Len(jobs)
    /\ stalls \in [JobIds -> Nat]
    /\ zones \subseteq Zones
    /\ inside \in [Entities -> SUBSET Zones]
    /\ alerts \in Seq(AlertType)
    /\ pc \in {"take", "query", "lookup", "alert", "dispatch", "log", "note"}
    /\ IF pc = "take" THEN job = None ELSE job \in 1..Len(jobs)
    /\ containing \subseteq Zones /\ leaving \subseteq Zones /\ todo \subseteq Transitions
    /\ samples \in [Entities -> Nat]

\* A job waits once, runs, has lost its worker, or has ended.
Waiting(j) == \E x \in DOMAIN queue : queue[x] = j
OnePlace ==
    /\ \A x, y \in DOMAIN queue : queue[x] = queue[y] => x = y
    /\ \A j \in stalled : ~Waiting(j) /\ j # job /\ stalls[j] > 0
    /\ \A j \in 1..Len(jobs) : Waiting(j) => j # job
    /\ \A j \in JobIds : stalls[j] > 0 => j <= Len(jobs)

\* What the job has in hand is what its position says, as far as the zones are there.
AtHand ==
    /\ pc \in {"take", "query"} => todo = {} /\ leaving = {} /\ containing = {}
    /\ pc # "take" =>
          /\ \A z \in containing : PositionOf(job) \in Holds[z]
          /\ \A z \in leaving \cap zones : PositionOf(job) \notin Holds[z]
          /\ \A z \in Zones : <<z, "ENTRY">> \in todo => z \in containing
          /\ \A z \in Zones : <<z, "EXIT">> \in todo => PositionOf(job) \notin Holds[z]
    /\ pc \in {"alert", "dispatch", "log", "note"} =>
          leaving = {} /\ inside[entity] = containing

\* An alert says where the entity was.
Said(j, w) == \E i \in DOMAIN alerts : alerts[i].job = j /\ alerts[i].what = w
SaidRightly ==
    \A j \in 1..Len(jobs), z \in Zones :
        /\ Said(j, <<z, "ENTRY">>) => PositionOf(j) \in Holds[z]
        /\ Said(j, <<z, "EXIT">>) => PositionOf(j) \notin Holds[z]

\* What keeps a job from saying the same again when it is run once more.
Remembered(j, w) ==
    \A z \in Zones :
        /\ w = <<z, "ENTRY">> => z \in inside[EntityOf(j)] \/ z \notin zones
        /\ w = <<z, "EXIT">> => z \notin inside[EntityOf(j)]
Unscored(j, w) == w = <<"ANOMALY">> => samples[EntityOf(j)] = 0

\* A job that lost its worker after an alert, until another one of its entity starts.
RunAgain ==
    /\ pc # "take" => \A j \in 1..Len(jobs) \ {job} :
          (stalls[j] > 0 /\ EntityOf(j) = entity) => j \in overtaken
    /\ \A j \in 1..Len(jobs), w \in What :
          (Waiting(j) \/ j \in stalled) /\ Said(j, w) =>
              stalls[j] > 0 /\ (j \in overtaken \/ (Remembered(j, w) /\ Unscored(j, w)))

\* The job that is run: it is not about to say what it has said.
RunsOn ==
    (pc # "take" /\ job \notin overtaken) =>
        \A w \in What : Said(job, w) =>
            /\ w \notin todo /\ Remembered(job, w)
            /\ pc # "note" => Unscored(job, w)
            /\ pc = "lookup" => \A z \in Zones :
                  /\ w = <<z, "ENTRY">> => z \in containing \/ z \notin zones
                  /\ w = <<z, "EXIT">> => z \notin leaving

\* An alert is dispatched right after it was written.
SentOnce ==
    /\ \A i \in DOMAIN alerts : alerts[i].sent <= 1
    /\ pc = "dispatch" => alerts # <<>> /\ alerts[Len(alerts)].sent = 0
    /\ pc \in {"log", "note"} => alerts # <<>>
SaidOnce ==
    \A i, j \in DOMAIN alerts :
        (i # j /\ alerts[i].job = alerts[j].job) =>
            alerts[i].what # alerts[j].what \/ alerts[i].job \in overtaken

FenceInv ==
    /\ FenceTyped /\ OnePlace /\ AtHand /\ SaidRightly
    /\ RunAgain /\ RunsOn /\ SentOnce /\ SaidOnce

\* The transitions of the job's entity without an alert, once Redis has been updated.
Unsaid(e, t) == IF pc \in {"alert", "dispatch", "log"} /\ e = entity /\ t \in todo THEN 1 ELSE 0
Balanced(e, z) ==
    Cardinality(AlertsOf(e, z, "ENTRY")) + Unsaid(e, <<z, "ENTRY">>)
        = Cardinality(AlertsOf(e, z, "EXIT")) + Unsaid(e, <<z, "EXIT">>) + (IF z \in inside[e] THEN 1 ELSE 0)

\* AlertsMatchMemory at every moment: before Redis is updated the job has in hand what
\* the two sets differ in, and after that the transitions still to be announced.
Followed == {z \in steady : Trigger[z] = {"ENTRY", "EXIT"}}
Compared ==
    pc = "lookup" => \A z \in Followed :
        /\ <<z, "ENTRY">> \in todo <=> (z \in containing /\ z \notin inside[entity])
        /\ (<<z, "EXIT">> \in todo \/ z \in leaving) <=> (z \in inside[entity] /\ z \notin containing)
MemoryInv ==
    /\ steady \subseteq zones
    /\ Compared
    /\ \A e \in Entities \ broken, z \in Followed : Balanced(e, z)

LEMMA FenceConstants ==
    /\ Holds \in [Zones -> SUBSET Positions] /\ Trigger \in [Zones -> SUBSET {"ENTRY", "EXIT"}]
    /\ Warmup \in Nat /\ MaxJobs \in Nat /\ Warmup > 0
    /\ \A j \in 1..MaxJobs : j # None
    /\ JobIds = 1..MaxJobs
BY AlertAssumption DEF JobIds

LEMMA Kinds ==
    /\ \A z, y : <<z, "ENTRY">> # <<y, "EXIT">>
    /\ \A z, y : (<<z, "ENTRY">> = <<y, "ENTRY">> \/ <<z, "EXIT">> = <<y, "EXIT">>) => z = y
    /\ \A t \in Transitions : t # <<"ANOMALY">>
    /\ \A z \in Zones : <<z, "ENTRY">> \in Transitions /\ <<z, "EXIT">> \in Transitions
<1>1. ASSUME NEW t \in Transitions PROVE t # <<"ANOMALY">>
  <2>1. DOMAIN t = {1, 2}
    BY DEF Transitions
  <2>2. DOMAIN <<"ANOMALY">> = {1}
    OBVIOUS
  <2> QED BY <2>1, <2>2
<1> QED BY <1>1 DEF Transitions

LEMMA TransitionKinds ==
    ASSUME NEW t \in Transitions
    PROVE  \E z \in Zones : t = <<z, "ENTRY">> \/ t = <<z, "EXIT">>
BY DEF Transitions

LEMMA JobFacts ==
    ASSUME FenceTyped
    PROVE  /\ Len(jobs) \in Nat /\ Len(jobs) <= MaxJobs
           /\ \A j \in 1..Len(jobs) : j \in JobIds /\ j # None /\ EntityOf(j) \in Entities
                                      /\ PositionOf(j) \in Positions
           /\ pc = "take" => job = None
           /\ pc # "take" => job \in 1..Len(jobs) /\ entity \in Entities
<1>1. Len(jobs) \in Nat /\ Len(jobs) <= MaxJobs /\ jobs \in Seq(Entities \X Positions)
  BY DEF FenceTyped
<1>2. \A j \in 1..Len(jobs) : jobs[j] \in Entities \X Positions
  BY <1>1
<1>3. \A j \in 1..Len(jobs) : j \in JobIds /\ j # None /\ EntityOf(j) \in Entities
                                      /\ PositionOf(j) \in Positions
  BY <1>1, <1>2, FenceConstants DEF EntityOf, PositionOf
<1> QED BY <1>1, <1>3 DEF FenceTyped, entity

\* The jobs stay, so do their entities and positions.
LEMMA JobsStay ==
    ASSUME UNCHANGED jobs
    PROVE  /\ \A j : EntityOf(j)' = EntityOf(j) /\ PositionOf(j)' = PositionOf(j)
           /\ job' = job => entity' = entity
BY DEF EntityOf, PositionOf, entity

\* An alert more.
LEMMA NewAlertSays ==
    ASSUME FenceTyped, pc # "take", NEW t \in What, alerts' = NewAlert(t), NEW n \in Nat, n = Len(alerts)
    PROVE  /\ alerts' \in Seq(AlertType) /\ alerts' # <<>>
           /\ Len(alerts') = n + 1 /\ DOMAIN alerts' = 1..(n + 1) /\ DOMAIN alerts = 1..n
           /\ \A i \in 1..n : alerts'[i] = alerts[i]
           /\ alerts'[n + 1].job = job /\ alerts'[n + 1].what = t /\ alerts'[n + 1].sent = 0
           /\ \A j, w : Said(j, w)' <=> Said(j, w) \/ (j = job /\ w = t)
<1>1. PICK a \in AlertType : a = [job |-> job, what |-> t, sent |-> 0, logged |-> FALSE]
  BY JobFacts DEF AlertType
<1>2. alerts' = Append(alerts, a) /\ alerts \in Seq(AlertType)
  BY <1>1 DEF NewAlert, FenceTyped
<1>3. /\ alerts' \in Seq(AlertType) /\ Len(alerts') = n + 1 /\ DOMAIN alerts' = 1..(n + 1)
      /\ DOMAIN alerts = 1..n /\ \A i \in 1..n : alerts'[i] = alerts[i]
      /\ alerts'[n + 1] = a
  BY <1>2
<1>4. a.job = job /\ a.what = t /\ a.sent = 0
  BY <1>1
<1>5. ASSUME NEW j, NEW w PROVE Said(j, w)' <=> Said(j, w) \/ (j = job /\ w = t)
  BY <1>3, <1>4 DEF Said
<1> QED BY <1>3, <1>4, <1>5

\* The last alert is dispatched, or its log is written.
LEMMA LastAlertSays ==
    ASSUME FenceTyped, alerts # <<>>,
           \/ alerts' = [alerts EXCEPT ![Len(alerts)].sent = @ + 1]
           \/ alerts' = [alerts EXCEPT ![Len(alerts)].logged = TRUE]
    PROVE  /\ alerts' \in Seq(AlertType) /\ alerts' # <<>>
           /\ Len(alerts') = Len(alerts) /\ DOMAIN alerts' = DOMAIN alerts
           /\ \A i \in DOMAIN alerts : alerts'[i].job = alerts[i].job /\ alerts'[i].what = alerts[i].what
           /\ \A i \in DOMAIN alerts : i # Len(alerts) => alerts'[i].sent = alerts[i].sent
           /\ alerts'[Len(alerts)].sent <= alerts[Len(alerts)].sent + 1
           /\ alerts' = [alerts EXCEPT ![Len(alerts)].logged = TRUE] =>
                 alerts'[Len(alerts)].sent = alerts[Len(alerts)].sent
           /\ \A j, w : Said(j, w)' <=> Said(j, w)
<1>0. alerts \in Seq(AlertType)
  BY DEF FenceTyped
<1>1. PICK n \in Nat : n = Len(alerts) /\ n # 0
  BY <1>0
<1>2. DOMAIN alerts = 1..n /\ alerts[n] \in AlertType
  BY <1>0, <1>1
<1>3. PICK a \in AlertType :
        /\ alerts' = [alerts EXCEPT ![n] = a]
        /\ a.job = alerts[n].job /\ a.what = alerts[n].what
        /\ a.sent <= alerts[n].sent + 1
        /\ alerts' = [alerts EXCEPT ![n].logged = TRUE] => a.sent = alerts[n].sent
  <2>1. PICK b \in AlertType : b = alerts[n]
    BY <1>2
  <2>2. [b EXCEPT !.sent = @ + 1] \in AlertType /\ [b EXCEPT !.logged = TRUE] \in AlertType
    <3>1. PICK k \in Nat : k = b.sent + 1
      BY DEF AlertType
    <3>2. [b EXCEPT !.sent = k] \in AlertType
      BY DEF AlertType
    <3>3. [b EXCEPT !.logged = TRUE] \in AlertType
      BY DEF AlertType
    <3> QED BY <3>1, <3>2, <3>3
  <2>3. /\ [b EXCEPT !.sent = @ + 1].job = b.job /\ [b EXCEPT !.sent = @ + 1].what = b.what
        /\ [b EXCEPT !.logged = TRUE].job = b.job /\ [b EXCEPT !.logged = TRUE].what = b.what
        /\ [b EXCEPT !.sent = @ + 1].sent = b.sent + 1 /\ [b EXCEPT !.logged = TRUE].sent = b.sent
        /\ b.sent \in Nat
    BY DEF AlertType
  <2>4. CASE alerts' = [alerts EXCEPT ![n].logged = TRUE]
    <3>1. PICK a \in AlertType : /\ a = [b EXCEPT !.logged = TRUE]
                                 /\ a.job = b.job /\ a.what = b.what /\ a.sent = b.sent
      BY <2>2, <2>3
    <3>2. alerts' = [alerts EXCEPT ![n] = a]
      BY <2>1, <2>4, <3>1
    <3>3. a.sent <= alerts[n].sent + 1 /\ a.sent = alerts[n].sent
      BY <2>1, <2>3, <3>1
    <3> QED BY <2>1, <3>1, <3>2, <3>3
  <2>5. CASE alerts' # [alerts EXCEPT ![n].logged = TRUE]
    <3>1. PICK a \in AlertType : /\ a = [b EXCEPT !.sent = @ + 1]
                                 /\ a.job = b.job /\ a.what = b.what /\ a.sent = b.sent + 1
      BY <2>2, <2>3
    <3>2. alerts' = [alerts EXCEPT ![n] = a]
      BY <1>1, <2>1, <2>5, <3>1
    <3>3. a.sent <= alerts[n].sent + 1
      BY <2>1, <2>3, <3>1
    <3> QED BY <2>1, <2>5, <3>1, <3>2, <3>3
  <2> QED BY <2>4, <2>5
<1>4. /\ alerts' \in Seq(AlertType) /\ Len(alerts') = n /\ DOMAIN alerts' = 1..n
      /\ \A i \in 1..n : alerts'[i] = IF i = n THEN a ELSE alerts[i]
  BY <1>0, <1>1, <1>2, <1>3
<1>5. \A i \in 1..n : alerts'[i].job = alerts[i].job /\ alerts'[i].what = alerts[i].what
  BY <1>3, <1>4
<1>6. ASSUME NEW j, NEW w PROVE Said(j, w)' <=> Said(j, w)
  BY <1>2, <1>4, <1>5 DEF Said
<1>7. alerts'[n].sent <= alerts[n].sent + 1
  BY <1>1, <1>3, <1>4
<1>8. ASSUME alerts' = [alerts EXCEPT ![n].logged = TRUE] PROVE alerts'[n].sent = alerts[n].sent
  <2>1. a.sent = alerts[n].sent
    BY <1>3, <1>8
  <2>2. alerts'[n] = a
    BY <1>1, <1>4
  <2> QED BY <2>1, <2>2
<1>9. alerts' # <<>>
  BY <1>1, <1>4
<1> QED BY <1>1, <1>2, <1>4, <1>5, <1>6, <1>7, <1>8, <1>9

LEMMA SaidFacts ==
    ASSUME FenceTyped, NEW j, NEW w, Said(j, w)
    PROVE  j \in 1..Len(jobs) /\ w \in What
<1>1. \A i \in DOMAIN alerts : alerts[i] \in AlertType
  BY DEF FenceTyped
<1> QED BY <1>1 DEF Said, AlertType

LEMMA FenceInitInv == ASSUME Init PROVE FenceInv
<1>1. /\ jobs = <<>> /\ queue = <<>> /\ stalled = {} /\ stalls = [j \in JobIds |-> 0]
      /\ zones \subseteq Zones /\ inside = [e \in Entities |-> {}] /\ alerts = <<>>
      /\ job = None /\ pc = "take" /\ containing = {} /\ leaving = {} /\ todo = {}
      /\ samples = [e \in Entities |-> 0]
  BY DEF Init
<1>2. FenceTyped
  <2>1. jobs \in Seq(Entities \X Positions) /\ Len(jobs) = 0 /\ queue \in Seq(1..Len(jobs))
    BY <1>1
  <2>2. alerts \in Seq(AlertType)
    BY <1>1
  <2>3. inside \in [Entities -> SUBSET Zones] /\ samples \in [Entities -> Nat]
    BY <1>1
  <2>4. stalls \in [JobIds -> Nat]
    BY <1>1
  <2> QED BY <1>1, <2>1, <2>2, <2>3, <2>4, FenceConstants DEF FenceTyped
<1>3. \A j, w : ~Said(j, w)
  BY <1>1 DEF Said
<1>4. OnePlace /\ AtHand /\ SentOnce /\ SaidOnce
  BY <1>1 DEF OnePlace, AtHand, SentOnce, SaidOnce, Waiting
<1> QED BY <1>1, <1>2, <1>3, <1>4 DEF FenceInv, SaidRightly, RunAgain, RunsOn

\* A job is queued.
LEMMA AddKeeps ==
    ASSUME FenceInv, NEW e \in Entities, NEW pos \in Positions, Add(e, pos)
    PROVE  FenceInv'
<1>1. PICK n \in Nat : n = Len(jobs)
  BY JobFacts DEF FenceInv
<1>2. PICK new \in Entities \X Positions : new = <<e, pos>>
  OBVIOUS
<1>3. /\ n < MaxJobs /\ jobs' = Append(jobs, new) /\ queue' = Append(queue, n + 1)
      /\ UNCHANGED <<stalled, stalls, zones, inside, alerts, job, pc, containing, leaving, todo,
                     samples, overtaken>>
  BY <1>1, <1>2 DEF Add, worker, bounds, past
<1>4. /\ jobs \in Seq(Entities \X Positions) /\ queue \in Seq(1..n)
      /\ stalled \subseteq 1..n /\ FenceTyped
  BY <1>1 DEF FenceInv, FenceTyped
<1>5. /\ jobs' \in Seq(Entities \X Positions) /\ Len(jobs') = n + 1
      /\ \A j \in 1..n : jobs'[j] = jobs[j]
  BY <1>1, <1>3, <1>4
<1>6. \A j \in 1..n : EntityOf(j)' = EntityOf(j) /\ PositionOf(j)' = PositionOf(j)
  BY <1>5 DEF EntityOf, PositionOf
<1>7. PICK q \in Nat : q = Len(queue)
  BY <1>4
<1>8. /\ queue' \in Seq(1..(n + 1)) /\ DOMAIN queue' = 1..(q + 1) /\ DOMAIN queue = 1..q
      /\ \A x \in 1..q : queue'[x] = queue[x] /\ queue[x] \in 1..n
      /\ queue'[q + 1] = n + 1
  <2>1. queue \in Seq(1..(n + 1)) /\ n + 1 \in 1..(n + 1)
    BY <1>4
  <2> QED BY <1>3, <1>4, <1>7, <2>1
<1>9. \A j : Waiting(j)' <=> Waiting(j) \/ j = n + 1
  <2>1. ASSUME NEW j PROVE Waiting(j)' <=> \E x \in 1..(q + 1) : queue'[x] = j
    BY <1>8 DEF Waiting
  <2>2. ASSUME NEW j PROVE Waiting(j) <=> \E x \in 1..q : queue[x] = j
    BY <1>8 DEF Waiting
  <2>3. 1..(q + 1) = (1..q) \cup {q + 1}
    BY <1>7
  <2> QED BY <1>8, <2>1, <2>2, <2>3
<1>10. \A j, w : (Said(j, w)' <=> Said(j, w)) /\ (Said(j, w) => j \in 1..n /\ w \in What)
  BY <1>1, <1>3, <1>4, SaidFacts DEF Said
<1>11. FenceTyped'
  <2>1. alerts' \in Seq(AlertType')
    <3>1. AlertType \subseteq AlertType'
      BY <1>1, <1>5 DEF AlertType
    <3>2. alerts \in Seq(AlertType)
      BY <1>4 DEF FenceTyped
    <3> QED BY <1>3, <3>1, <3>2
  <2>2. Len(jobs') <= MaxJobs
    BY <1>3, <1>5, FenceConstants
  <2>3. stalled' \subseteq 1..Len(jobs') /\ queue' \in Seq(1..Len(jobs'))
    BY <1>3, <1>4, <1>5, <1>8
  <2>4. IF pc' = "take" THEN job' = None ELSE job' \in 1..Len(jobs')
    BY <1>1, <1>3, <1>4, <1>5 DEF FenceTyped
  <2> QED BY <1>3, <1>4, <1>5, <2>1, <2>2, <2>3, <2>4 DEF FenceTyped
<1>12. n + 1 # job
  BY <1>1, <1>3, <1>4, JobFacts, FenceConstants
<1>13. OnePlace'
  <2>1. \A x, y \in DOMAIN queue' : queue'[x] = queue'[y] => x = y
    <3>1. \A x, y \in 1..q : queue[x] = queue[y] => x = y
      BY <1>8 DEF FenceInv, OnePlace
    <3>2. \A x \in 1..q : queue'[x] # n + 1
      BY <1>8
    <3> QED BY <1>8, <3>1, <3>2
  <2>2. \A j \in stalled' : ~Waiting(j)' /\ j # job' /\ stalls'[j] > 0
    BY <1>3, <1>4, <1>9 DEF FenceInv, OnePlace
  <2>3. \A j \in 1..Len(jobs') : Waiting(j)' => j # job'
    BY <1>1, <1>3, <1>5, <1>9, <1>12 DEF FenceInv, OnePlace
  <2>4. \A j \in JobIds : stalls'[j] > 0 => j <= Len(jobs')
    BY <1>1, <1>3, <1>5, FenceConstants DEF FenceInv, OnePlace
  <2> QED BY <2>1, <2>2, <2>3, <2>4 DEF OnePlace
<1>14. pc # "take" => entity' = entity /\ job \in 1..n
  BY <1>1, <1>3, <1>4, <1>6, JobFacts DEF entity
<1>15. AtHand'
  <2>1. pc # "take" => PositionOf(job)' = PositionOf(job)
    BY <1>3, <1>6, <1>14 DEF PositionOf
  <2> QED BY <1>3, <1>14, <2>1 DEF FenceInv, AtHand
<1>16. SaidRightly'
  <2>1. ASSUME NEW j \in 1..Len(jobs'), NEW z \in Zones, NEW w, Said(j, w)'
        PROVE  j \in 1..n /\ Said(j, w) /\ PositionOf(j)' = PositionOf(j)
    BY <1>6, <1>10, <2>1
  <2>2. ASSUME NEW j \in 1..Len(jobs'), NEW z \in Zones
        PROVE  /\ Said(j, <<z, "ENTRY">>)' => PositionOf(j)' \in Holds[z]
               /\ Said(j, <<z, "EXIT">>)' => PositionOf(j)' \notin Holds[z]
    BY <1>1, <2>1 DEF FenceInv, SaidRightly
  <2> QED BY <2>2 DEF SaidRightly
<1>17. \A j \in 1..n : \A w : /\ (Remembered(j, w)' <=> Remembered(j, w))
                               /\ (Unscored(j, w)' <=> Unscored(j, w))
  BY <1>3, <1>6 DEF Remembered, Unscored
<1>18. RunAgain'
  <2>1. ASSUME pc' # "take", NEW j \in 1..Len(jobs') \ {job'}, stalls'[j] > 0, EntityOf(j)' = entity'
        PROVE  j \in overtaken'
    <3>1. CASE j \in 1..n
      BY <1>1, <1>3, <1>6, <1>14, <2>1, <3>1 DEF FenceInv, RunAgain
    <3>2. CASE j = n + 1
      <4>1. j \in JobIds
        BY <1>3, <3>2, FenceConstants
      <4> QED BY <1>1, <1>3, <2>1, <3>2, <4>1 DEF FenceInv, OnePlace
    <3> QED BY <1>5, <3>1, <3>2
  <2>2. ASSUME NEW j \in 1..Len(jobs'), NEW w \in What, Waiting(j)' \/ j \in stalled', Said(j, w)'
        PROVE  stalls'[j] > 0 /\ (j \in overtaken' \/ (Remembered(j, w)' /\ Unscored(j, w)'))
    <3>1. j \in 1..n /\ Said(j, w)
      BY <1>10, <2>2
    <3>2. Waiting(j) \/ j \in stalled
      BY <1>3, <1>9, <2>2, <3>1
    <3> QED BY <1>1, <1>3, <1>17, <3>1, <3>2 DEF FenceInv, RunAgain
  <2> QED BY <2>1, <2>2 DEF RunAgain
<1>19. RunsOn'
  BY <1>3, <1>10, <1>14, <1>17 DEF FenceInv, RunsOn
<1>20. SentOnce' /\ SaidOnce'
  BY <1>3 DEF FenceInv, SentOnce, SaidOnce
<1> QED BY <1>11, <1>13, <1>15, <1>16, <1>18, <1>19, <1>20 DEF FenceInv

\* No alert more: what was said stays right.
LEMMA AlertsStay ==
    ASSUME FenceInv, UNCHANGED <<jobs, alerts, overtaken>>
    PROVE  /\ SaidRightly' /\ SaidOnce' /\ \A j, w : Said(j, w)' <=> Said(j, w)
           /\ \A i \in DOMAIN alerts : alerts[i].sent <= 1
           /\ alerts \in Seq(AlertType) /\ AlertType' = AlertType
<1>1. \A j, w : Said(j, w)' <=> Said(j, w)
  BY DEF Said
<1>2. SaidRightly'
  BY <1>1, JobsStay DEF FenceInv, SaidRightly
<1> QED BY <1>1, <1>2 DEF FenceInv, FenceTyped, SaidOnce, SentOnce, AlertType

\* While a job is run or ends, nothing changes for the jobs that will be run again:
\* the ones of its entity are overtaken.
LEMMA OthersStay ==
    ASSUME FenceInv, pc # "take", UNCHANGED <<jobs, queue, stalled, stalls, zones, overtaken>>,
           IF pc' = "take" THEN job' = None ELSE job' = job,
           \A e \in Entities \ {entity} : inside'[e] = inside[e] /\ samples'[e] = samples[e],
           \A j, w : j # job => (Said(j, w)' <=> Said(j, w))
    PROVE  OnePlace' /\ RunAgain'
<1>1. /\ stalled \subseteq 1..Len(jobs) /\ job \in 1..Len(jobs) /\ FenceTyped
      /\ \A j \in 1..Len(jobs) : j # None
  BY JobFacts DEF FenceInv, FenceTyped
<1>2. \A j : Waiting(j)' <=> Waiting(j)
  BY DEF Waiting
<1>3. OnePlace'
  <2>1. \A j \in stalled' : ~Waiting(j)' /\ j # job' /\ stalls'[j] > 0
    BY <1>1, <1>2 DEF FenceInv, OnePlace
  <2>2. \A j \in 1..Len(jobs') : Waiting(j)' => j # job'
    BY <1>1, <1>2 DEF FenceInv, OnePlace
  <2> QED BY <2>1, <2>2 DEF FenceInv, OnePlace
<1>4. RunAgain'
  <2>1. ASSUME pc' # "take", NEW j \in 1..Len(jobs') \ {job'}, stalls'[j] > 0, EntityOf(j)' = entity'
        PROVE  j \in overtaken'
    BY <2>1, JobsStay DEF FenceInv, RunAgain
  <2>2. ASSUME NEW j \in 1..Len(jobs'), NEW w \in What, Waiting(j)' \/ j \in stalled', Said(j, w)'
        PROVE  stalls'[j] > 0 /\ (j \in overtaken' \/ (Remembered(j, w)' /\ Unscored(j, w)'))
    <3>1. j # job /\ (Waiting(j) \/ j \in stalled)
      BY <1>1, <1>2, <2>2 DEF FenceInv, OnePlace
    <3>2. Said(j, w)
      BY <2>2, <3>1
    <3>3. stalls[j] > 0 /\ (j \in overtaken \/ (Remembered(j, w) /\ Unscored(j, w)))
      BY <2>2, <3>1, <3>2 DEF FenceInv, RunAgain
    <3>4. CASE EntityOf(j) = entity
      BY <2>2, <3>1, <3>3, <3>4 DEF FenceInv, RunAgain
    <3>5. CASE EntityOf(j) # entity
      <4>1. EntityOf(j) \in Entities \ {entity} /\ EntityOf(j)' = EntityOf(j)
        BY <1>1, <2>2, <3>5, JobFacts, JobsStay
      <4>2. PICK e \in Entities : e = EntityOf(j) /\ e # entity
        BY <4>1
      <4>3. Remembered(j, w)' <=> Remembered(j, w)
        BY <4>1, <4>2 DEF Remembered
      <4>4. Unscored(j, w)' <=> Unscored(j, w)
        BY <4>1, <4>2 DEF Unscored
      <4> QED BY <3>3, <4>3, <4>4
    <3> QED BY <3>4, <3>5
  <2> QED BY <2>1, <2>2 DEF RunAgain
<1> QED BY <1>3, <1>4

\* A zone is created, with an id no alert names, or deleted.
LEMMA ZonesKeep ==
    ASSUME FenceInv, NEW z \in Zones, CreateZone(z) \/ DeleteZone(z)
    PROVE  FenceInv'
<1>1. UNCHANGED <<jobs, queue, stalled, stalls, inside, alerts, job, pc, containing, leaving, todo,
                  samples, overtaken>>
  BY DEF CreateZone, DeleteZone, bullmq, worker, past
<1>2. zones' \subseteq Zones
  BY DEF CreateZone, DeleteZone, FenceInv, FenceTyped
<1>3. \A j, y : Said(j, <<y, "ENTRY">>) /\ y \notin zones => y \notin zones'
  <2>1. CASE CreateZone(z)
    <3>1. ASSUME NEW j, NEW y, Said(j, <<y, "ENTRY">>), y \notin zones, y \in zones' PROVE FALSE
      <4>1. PICK i \in DOMAIN alerts : alerts[i].what = <<y, "ENTRY">>
        BY <3>1 DEF Said
      <4>2. y = z /\ alerts[i].what[1] # z
        BY <2>1, <3>1 DEF CreateZone
      <4> QED BY <4>1, <4>2
    <3> QED BY <3>1
  <2>2. CASE DeleteZone(z)
    BY <2>2 DEF DeleteZone
  <2> QED BY <2>1, <2>2
<1>4. leaving \cap zones' \subseteq zones
  BY DEF CreateZone, DeleteZone
<1>5. /\ SaidRightly' /\ SaidOnce' /\ \A j, w : Said(j, w)' <=> Said(j, w)
      /\ alerts \in Seq(AlertType) /\ AlertType' = AlertType
  BY <1>1, AlertsStay
<1>6. \A j, w : Waiting(j)' <=> Waiting(j)
  BY <1>1 DEF Waiting
<1>7. FenceTyped' /\ OnePlace' /\ SentOnce'
  <2>1. FenceTyped'
    BY <1>1, <1>2, <1>5 DEF FenceInv, FenceTyped
  <2>2. OnePlace'
    BY <1>1, <1>6 DEF FenceInv, OnePlace
  <2> QED BY <1>1, <2>1, <2>2 DEF FenceInv, SentOnce
<1>8. PositionOf(job)' = PositionOf(job) /\ entity' = entity
  BY <1>1, JobsStay DEF PositionOf
<1>9. AtHand'
  BY <1>1, <1>4, <1>8 DEF FenceInv, AtHand
<1>10. ASSUME NEW j, NEW w, Said(j, w)
       PROVE  (Remembered(j, w) => Remembered(j, w)') /\ (Unscored(j, w)' <=> Unscored(j, w))
  BY <1>1, <1>3, <1>10, JobsStay DEF Remembered, Unscored
<1>11. RunAgain'
  BY <1>1, <1>5, <1>6, <1>10, JobsStay DEF FenceInv, RunAgain
<1>12. RunsOn'
  <2> SUFFICES ASSUME pc # "take", job \notin overtaken, NEW w \in What, Said(job, w)
               PROVE  /\ w \notin todo /\ Remembered(job, w)' /\ (pc # "note" => Unscored(job, w)')
                      /\ pc = "lookup" => \A y \in Zones :
                            /\ w = <<y, "ENTRY">> => y \in containing \/ y \notin zones'
                            /\ w = <<y, "EXIT">> => y \notin leaving
    <3>1. \A w \in What : Said(job, w)' <=> Said(job, w)
      BY <1>1, <1>5
    <3> QED BY <1>1, <3>1 DEF RunsOn
  <2>1. /\ w \notin todo /\ Remembered(job, w) /\ (pc # "note" => Unscored(job, w))
        /\ pc = "lookup" => \A y \in Zones :
              /\ w = <<y, "ENTRY">> => y \in containing \/ y \notin zones
              /\ w = <<y, "EXIT">> => y \notin leaving
    BY DEF FenceInv, RunsOn
  <2>2. Remembered(job, w)'
    BY <1>1, <1>3, <1>8, <2>1 DEF Remembered, entity
  <2>3. Unscored(job, w) => Unscored(job, w)'
    BY <1>1, <1>8 DEF Unscored, entity
  <2> QED BY <1>3, <2>1, <2>2, <2>3
<1> QED BY <1>5, <1>7, <1>9, <1>11, <1>12 DEF FenceInv

\* The worker takes a job: others of its entity that were broken off are overtaken now.
LEMMA TakeKeeps == ASSUME FenceInv, Take PROVE FenceInv'
<1>1. /\ pc = "take" /\ queue # <<>> /\ job' = Head(queue) /\ queue' = Tail(queue) /\ pc' = "query"
      /\ UNCHANGED <<jobs, stalled, stalls, zones, inside, alerts, containing, leaving, todo, samples>>
  BY DEF Take
<1>2. FenceTyped /\ OnePlace
  BY DEF FenceInv
<1>3. queue \in Seq(1..Len(jobs)) /\ Len(jobs) \in Nat /\ stalled \subseteq 1..Len(jobs)
  BY <1>2, JobFacts DEF FenceTyped
<1>4. PICK q \in Nat : q + 1 = Len(queue)
  BY <1>1, <1>3
<1>5. PICK k \in 1..Len(jobs) : k = queue[1] /\ job' = k
  BY <1>1, <1>3, <1>4
<1>6. /\ queue' \in Seq(1..Len(jobs)) /\ DOMAIN queue' = 1..q /\ DOMAIN queue = 1..(q + 1)
      /\ \A x \in 1..q : queue'[x] = queue[x + 1]
  BY <1>1, <1>3, <1>4
<1>7. \A x, y \in 1..(q + 1) : queue[x] = queue[y] => x = y
  BY <1>2, <1>6 DEF OnePlace
<1>8. Waiting(k) /\ \A j : Waiting(j)' => Waiting(j) /\ j # k
  <2>1. Waiting(k)
    BY <1>4, <1>5, <1>6 DEF Waiting
  <2>2. ASSUME NEW j, Waiting(j)' PROVE Waiting(j) /\ j # k
    <3>1. PICK x \in 1..q : queue'[x] = j
      BY <1>6, <2>2 DEF Waiting
    <3>2. x + 1 \in 1..(q + 1) /\ 1 \in 1..(q + 1) /\ x + 1 # 1 /\ queue[x + 1] = j
      BY <1>4, <1>6, <3>1
    <3> QED BY <1>5, <1>6, <1>7, <3>2 DEF Waiting
  <2> QED BY <2>1, <2>2
<1>9. /\ overtaken \subseteq overtaken'
      /\ \A j \in JobIds : (j # k /\ stalls[j] > 0 /\ EntityOf(j) = EntityOf(k)) => j \in overtaken'
  BY <1>5 DEF Take
<1>10. /\ \A j, w : Said(j, w)' <=> Said(j, w)
       /\ \A j, w : (Remembered(j, w)' <=> Remembered(j, w)) /\ (Unscored(j, w)' <=> Unscored(j, w))
  BY <1>1, JobsStay DEF Said, Remembered, Unscored
<1>11. FenceTyped'
  <2>1. AlertType' = AlertType
    BY <1>1 DEF AlertType
  <2> QED BY <1>1, <1>2, <1>5, <1>6, <2>1 DEF FenceTyped
<1>12. OnePlace'
  <2>1. \A x, y \in DOMAIN queue' : queue'[x] = queue'[y] => x = y
    <3>1. ASSUME NEW x \in 1..q, NEW y \in 1..q, queue'[x] = queue'[y] PROVE x = y
      <4>1. x + 1 \in 1..(q + 1) /\ y + 1 \in 1..(q + 1) /\ queue[x + 1] = queue[y + 1]
        BY <1>4, <1>6, <3>1
      <4>2. x + 1 = y + 1
        BY <1>7, <4>1
      <4> QED BY <4>2
    <3> QED BY <1>6, <3>1
  <2>2. \A j \in stalled' : ~Waiting(j)' /\ j # job' /\ stalls'[j] > 0
    BY <1>1, <1>2, <1>5, <1>8 DEF OnePlace
  <2>3. \A j \in 1..Len(jobs') : Waiting(j)' => j # job'
    BY <1>5, <1>8
  <2> QED BY <1>1, <1>2, <2>1, <2>2, <2>3 DEF OnePlace
<1>13. todo = {} /\ leaving = {} /\ containing = {}
  BY <1>1 DEF FenceInv, AtHand
<1>14. AtHand' /\ SaidRightly' /\ SentOnce'
  <2>1. AtHand'
    BY <1>1, <1>13 DEF AtHand
  <2>2. SaidRightly'
    BY <1>1, <1>10, JobsStay DEF FenceInv, SaidRightly
  <2> QED BY <1>1, <2>1, <2>2 DEF FenceInv, SentOnce
<1>15. SaidOnce'
  BY <1>1, <1>9 DEF FenceInv, SaidOnce
<1>16. RunAgain'
  <2>1. ASSUME NEW j \in 1..Len(jobs'), j # job', stalls'[j] > 0, EntityOf(j)' = entity'
        PROVE  j \in overtaken'
    <3>1. EntityOf(j) = EntityOf(k)
      BY <1>1, <1>5, <2>1 DEF EntityOf, entity
    <3>2. j \in JobIds
      BY <1>1, <1>2, JobFacts
    <3> QED BY <1>1, <1>5, <1>9, <2>1, <3>1, <3>2
  <2>2. ASSUME NEW j \in 1..Len(jobs'), NEW w \in What, Waiting(j)' \/ j \in stalled', Said(j, w)'
        PROVE  stalls'[j] > 0 /\ (j \in overtaken' \/ (Remembered(j, w)' /\ Unscored(j, w)'))
    <3>1. (Waiting(j) \/ j \in stalled) /\ Said(j, w) /\ j \in 1..Len(jobs)
      BY <1>1, <1>8, <1>10, <2>2
    <3>2. stalls[j] > 0 /\ (j \in overtaken \/ (Remembered(j, w) /\ Unscored(j, w)))
      BY <3>1 DEF FenceInv, RunAgain
    <3> QED BY <1>1, <1>9, <1>10, <3>2
  <2> QED BY <2>1, <2>2 DEF RunAgain
<1>17. RunsOn'
  <2>1. ASSUME k \notin overtaken', NEW w \in What, Said(k, w)
        PROVE  Remembered(k, w) /\ Unscored(k, w)
    BY <1>8, <1>9, <2>1 DEF FenceInv, RunAgain
  <2>2. \A w : Said(job, w)' => Said(k, w)
    BY <1>1, <1>5 DEF Said
  <2>3. \A w : (Remembered(k, w) => Remembered(job, w)') /\ (Unscored(k, w) => Unscored(job, w)')
    BY <1>1, <1>5 DEF Remembered, Unscored, EntityOf
  <2> QED BY <1>1, <1>5, <1>13, <2>1, <2>2, <2>3 DEF RunsOn
<1> QED BY <1>11, <1>12, <1>14, <1>15, <1>16, <1>17 DEF FenceInv

\* Its zones are compared with the remembered ones: what it has said is no difference.
LEMMA QueryKeeps == ASSUME FenceInv, Query PROVE FenceInv'
<1>1. /\ pc = "query" /\ pc' = "lookup"
      /\ UNCHANGED <<jobs, queue, stalled, stalls, zones, inside, alerts, job, samples, overtaken>>
      /\ containing' = {z \in zones : PositionOf(job) \in Holds[z]}
      /\ leaving' = inside[entity] \ containing'
  BY DEF Query, Containing, bullmq, past
<1>2. /\ FenceTyped /\ job \in 1..Len(jobs) /\ entity \in Entities
      /\ zones \subseteq Zones /\ inside \in [Entities -> SUBSET Zones]
  BY <1>1, JobFacts DEF FenceInv, FenceTyped
<1>3. PICK now \in SUBSET Zones : now = containing'
  BY <1>1, <1>2
<1>4. todo' = {<<z, "ENTRY">> : z \in {y \in now \ inside[entity] : "ENTRY" \in Trigger[y]}}
  BY <1>3 DEF Query, Entered
<1>5. /\ todo' \subseteq Transitions
      /\ \A z : <<z, "ENTRY">> \in todo' => z \in now \ inside[entity]
      /\ \A z : <<z, "EXIT">> \notin todo'
  <2>1. \A t \in todo' : \E z \in now \ inside[entity] : t = <<z, "ENTRY">>
    BY <1>4
  <2> QED BY <2>1, Kinds
<1>6. /\ SaidRightly' /\ SaidOnce' /\ \A j, w : Said(j, w)' <=> Said(j, w)
      /\ alerts \in Seq(AlertType) /\ AlertType' = AlertType
  BY <1>1, AlertsStay
<1>7. OnePlace' /\ RunAgain'
  BY <1>1, <1>6, OthersStay
<1>8. FenceTyped' /\ SentOnce'
  <2>1. FenceTyped'
    BY <1>1, <1>2, <1>3, <1>5, <1>6 DEF FenceTyped
  <2> QED BY <1>1, <2>1 DEF FenceInv, SentOnce
<1>9. PositionOf(job)' = PositionOf(job) /\ entity' = entity
  BY <1>1, JobsStay DEF PositionOf
<1>10. AtHand'
  <2>1. \A z \in containing' : PositionOf(job) \in Holds[z]
    BY <1>1
  <2>2. \A z \in leaving' \cap zones' : PositionOf(job) \notin Holds[z]
    BY <1>1
  <2> QED BY <1>1, <1>3, <1>5, <1>9, <2>1, <2>2 DEF AtHand
<1>11. RunsOn'
  <2>1. ASSUME job \notin overtaken, NEW w \in What, Said(job, w)
        PROVE  /\ w \notin todo' /\ Remembered(job, w) /\ Unscored(job, w)
               /\ \A z \in Zones :
                     /\ w = <<z, "ENTRY">> => z \in containing' \/ z \notin zones
                     /\ w = <<z, "EXIT">> => z \notin leaving'
    <3>1. Remembered(job, w) /\ Unscored(job, w)
      BY <1>1, <2>1 DEF FenceInv, RunsOn
    <3>2. \A z \in Zones : w = <<z, "ENTRY">> => z \in containing' \/ z \notin zones
      <4>1. ASSUME NEW z \in Zones, w = <<z, "ENTRY">> PROVE PositionOf(job) \in Holds[z]
        BY <1>2, <2>1, <4>1 DEF FenceInv, SaidRightly
      <4> QED BY <1>1, <4>1
    <3>3. \A z \in Zones : w = <<z, "EXIT">> => z \notin leaving'
      BY <1>1, <3>1 DEF Remembered, entity
    <3>4. w \notin todo'
      <4>1. ASSUME w \in todo' PROVE FALSE
        <5>1. PICK z \in now \ inside[entity] : w = <<z, "ENTRY">>
          BY <1>4, <4>1
        <5>2. z \in inside[entity] \/ z \notin zones
          BY <1>3, <3>1, <5>1 DEF Remembered, entity
        <5> QED BY <1>1, <1>3, <5>1, <5>2
      <4> QED BY <4>1
    <3> QED BY <3>1, <3>2, <3>3, <3>4
  <2>2. \A w : (Remembered(job, w) => Remembered(job, w)') /\ (Unscored(job, w) => Unscored(job, w)')
    BY <1>1, <1>9 DEF Remembered, Unscored, entity
  <2>3. \A w : Said(job, w)' => Said(job, w)
    BY <1>1 DEF Said
  <2> QED BY <1>1, <2>1, <2>2, <2>3 DEF RunsOn
<1> QED BY <1>6, <1>7, <1>8, <1>10, <1>11 DEF FenceInv

\* A zone that was left is looked up.
LEMMA LookupKeeps == ASSUME FenceInv, NEW z \in Zones, Lookup(z) PROVE FenceInv'
<1>1. /\ pc = "lookup" /\ pc' = "lookup" /\ z \in leaving /\ leaving' = leaving \ {z}
      /\ UNCHANGED <<jobs, queue, stalled, stalls, zones, inside, alerts, job, containing, samples,
                     overtaken>>
  BY DEF Lookup, bullmq, past
<1>2. FenceTyped /\ job \in 1..Len(jobs) /\ entity \in Entities
  BY <1>1, JobFacts DEF FenceInv
<1>3. \A t \in todo' : t \in todo \/ (t = <<z, "EXIT">> /\ z \in zones)
  BY DEF Lookup
<1>4. /\ todo' \subseteq Transitions
      /\ \A y : <<y, "ENTRY">> \in todo' => <<y, "ENTRY">> \in todo
      /\ \A y : <<y, "EXIT">> \in todo' => <<y, "EXIT">> \in todo \/ (y = z /\ z \in zones)
  <2>1. todo' \subseteq Transitions
    <3>1. todo \subseteq Transitions
      BY <1>2 DEF FenceTyped
    <3> QED BY <1>3, <3>1, Kinds
  <2>2. \A y : <<y, "ENTRY">> # <<z, "EXIT">> /\ (<<y, "EXIT">> = <<z, "EXIT">> => y = z)
    BY Kinds
  <2> QED BY <1>3, <2>1, <2>2
<1>5. /\ SaidRightly' /\ SaidOnce' /\ \A j, w : Said(j, w)' <=> Said(j, w)
      /\ alerts \in Seq(AlertType) /\ AlertType' = AlertType
  BY <1>1, AlertsStay
<1>6. OnePlace' /\ RunAgain'
  BY <1>1, <1>5, OthersStay
<1>7. FenceTyped' /\ SentOnce'
  <2>1. FenceTyped'
    BY <1>1, <1>2, <1>4, <1>5 DEF FenceTyped
  <2> QED BY <1>1, <2>1 DEF FenceInv, SentOnce
<1>8. PositionOf(job)' = PositionOf(job) /\ entity' = entity
  BY <1>1, JobsStay DEF PositionOf
<1>9. AtHand'
  <2>1. z \in zones => PositionOf(job) \notin Holds[z]
    BY <1>1 DEF FenceInv, AtHand
  <2>2. \A y \in Zones : <<y, "EXIT">> \in todo' => PositionOf(job) \notin Holds[y]
    BY <1>1, <1>4, <2>1 DEF FenceInv, AtHand
  <2>3. \A y \in Zones : <<y, "ENTRY">> \in todo' => y \in containing
    BY <1>1, <1>4 DEF FenceInv, AtHand
  <2> QED BY <1>1, <1>8, <2>2, <2>3 DEF FenceInv, AtHand
<1>10. RunsOn'
  <2>1. ASSUME job \notin overtaken, NEW w \in What, Said(job, w)
        PROVE  /\ w \notin todo' /\ Remembered(job, w) /\ Unscored(job, w)
               /\ \A y \in Zones :
                     /\ w = <<y, "ENTRY">> => y \in containing \/ y \notin zones
                     /\ w = <<y, "EXIT">> => y \notin leaving'
    <3>1. /\ w \notin todo /\ Remembered(job, w) /\ Unscored(job, w)
          /\ \A y \in Zones :
                /\ w = <<y, "ENTRY">> => y \in containing \/ y \notin zones
                /\ w = <<y, "EXIT">> => y \notin leaving
      BY <1>1, <2>1 DEF FenceInv, RunsOn
    <3> QED BY <1>1, <1>3, <3>1
  <2>2. \A w : (Remembered(job, w) => Remembered(job, w)') /\ (Unscored(job, w) => Unscored(job, w)')
    BY <1>1, <1>8 DEF Remembered, Unscored, entity
  <2>3. \A w : Said(job, w)' => Said(job, w)
    BY <1>1 DEF Said
  <2> QED BY <1>1, <2>1, <2>2, <2>3 DEF RunsOn
<1> QED BY <1>5, <1>6, <1>7, <1>9, <1>10 DEF FenceInv

\* Redis is updated.
LEMMA RememberKeeps == ASSUME FenceInv, Remember PROVE FenceInv'
<1>1. /\ pc = "lookup" /\ pc' = "alert" /\ leaving = {}
      /\ inside' = [inside EXCEPT ![entity] = containing]
      /\ UNCHANGED <<jobs, queue, stalled, stalls, zones, alerts, job, containing, leaving, todo,
                     samples, overtaken>>
  BY DEF Remember, bullmq, past
<1>2. /\ FenceTyped /\ job \in 1..Len(jobs) /\ entity \in Entities
      /\ inside \in [Entities -> SUBSET Zones] /\ containing \subseteq Zones
  BY <1>1, JobFacts DEF FenceInv, FenceTyped
<1>3. /\ inside' \in [Entities -> SUBSET Zones] /\ inside'[entity] = containing
      /\ \A e \in Entities \ {entity} : inside'[e] = inside[e]
  BY <1>1, <1>2
<1>4. /\ SaidRightly' /\ SaidOnce' /\ \A j, w : Said(j, w)' <=> Said(j, w)
      /\ alerts \in Seq(AlertType) /\ AlertType' = AlertType
  BY <1>1, AlertsStay
<1>5. OnePlace' /\ RunAgain'
  BY <1>1, <1>3, <1>4, OthersStay
<1>6. FenceTyped' /\ SentOnce'
  <2>1. FenceTyped'
    BY <1>1, <1>2, <1>3, <1>4 DEF FenceTyped
  <2> QED BY <1>1, <2>1 DEF FenceInv, SentOnce
<1>7. PositionOf(job)' = PositionOf(job) /\ entity' = entity
  BY <1>1, JobsStay DEF PositionOf
<1>8. AtHand'
  BY <1>1, <1>3, <1>7 DEF FenceInv, AtHand
<1>9. RunsOn'
  <2>1. ASSUME job \notin overtaken, NEW w \in What, Said(job, w)
        PROVE  w \notin todo /\ Unscored(job, w) /\ Remembered(job, w)'
    <3>1. /\ w \notin todo /\ Unscored(job, w)
          /\ \A y \in Zones : w = <<y, "ENTRY">> => y \in containing \/ y \notin zones
      BY <1>1, <2>1 DEF FenceInv, RunsOn
    <3>2. ASSUME NEW y \in Zones, w = <<y, "EXIT">> PROVE y \notin containing
      <4>1. PositionOf(job) \notin Holds[y]
        BY <1>2, <2>1, <3>2 DEF FenceInv, SaidRightly
      <4> QED BY <1>1, <4>1 DEF FenceInv, AtHand
    <3>3. inside'[EntityOf(job)'] = containing
      BY <1>3, <1>7 DEF entity
    <3> QED BY <1>1, <3>1, <3>2, <3>3 DEF Remembered
  <2>2. \A w : Unscored(job, w) => Unscored(job, w)'
    BY <1>1, <1>7 DEF Unscored, entity
  <2>3. \A w : Said(job, w)' => Said(job, w)
    BY <1>1 DEF Said
  <2> QED BY <1>1, <2>1, <2>2, <2>3 DEF RunsOn
<1> QED BY <1>4, <1>5, <1>6, <1>8, <1>9 DEF FenceInv

\* A transition becomes an alert.  It is none that the job has announced before.
LEMMA AlertKeeps == ASSUME FenceInv, NEW t \in Transitions, Alert(t) PROVE FenceInv'
<1>1. /\ pc = "alert" /\ pc' = "dispatch" /\ t \in todo /\ todo' = todo \ {t} /\ alerts' = NewAlert(t)
      /\ UNCHANGED <<jobs, queue, stalled, stalls, zones, inside, job, containing, leaving, samples,
                     overtaken>>
  BY DEF Alert, bullmq, past
<1>2. FenceTyped /\ job \in 1..Len(jobs) /\ entity \in Entities /\ t \in What
  BY <1>1, JobFacts DEF FenceInv, What
<1>3. PICK n \in Nat : n = Len(alerts)
  BY <1>2 DEF FenceTyped
<1>4. /\ alerts' \in Seq(AlertType) /\ alerts' # <<>>
      /\ Len(alerts') = n + 1 /\ DOMAIN alerts' = 1..(n + 1) /\ DOMAIN alerts = 1..n
      /\ \A i \in 1..n : alerts'[i] = alerts[i]
      /\ alerts'[n + 1].job = job /\ alerts'[n + 1].what = t /\ alerts'[n + 1].sent = 0
      /\ \A j, w : Said(j, w)' <=> Said(j, w) \/ (j = job /\ w = t)
  BY <1>1, <1>2, <1>3, NewAlertSays
<1>5. AlertType' = AlertType /\ entity' = entity /\ PositionOf(job)' = PositionOf(job)
  BY <1>1, JobsStay DEF AlertType, PositionOf
<1>6. OnePlace' /\ RunAgain'
  BY <1>1, <1>4, OthersStay
<1>7. FenceTyped' /\ AtHand'
  <2>1. FenceTyped'
    BY <1>1, <1>2, <1>4, <1>5 DEF FenceTyped
  <2>2. AtHand'
    BY <1>1, <1>5 DEF FenceInv, AtHand
  <2> QED BY <2>1, <2>2
<1>8. \A z \in Zones : /\ t = <<z, "ENTRY">> => z \in containing /\ PositionOf(job) \in Holds[z]
                       /\ t = <<z, "EXIT">> => z \notin containing /\ PositionOf(job) \notin Holds[z]
  BY <1>1 DEF FenceInv, AtHand
<1>9. SaidRightly'
  <2>1. ASSUME NEW j \in 1..Len(jobs), NEW z \in Zones
        PROVE  /\ Said(j, <<z, "ENTRY">>)' => PositionOf(j) \in Holds[z]
               /\ Said(j, <<z, "EXIT">>)' => PositionOf(j) \notin Holds[z]
    BY <1>4, <1>8 DEF FenceInv, SaidRightly
  <2> QED BY <1>1, <2>1, JobsStay DEF SaidRightly
<1>10. SentOnce'
  <2>1. \A i \in 1..(n + 1) : alerts'[i].sent <= 1
    <3>1. \A i \in 1..n : alerts'[i].sent <= 1
      BY <1>4 DEF FenceInv, SentOnce
    <3> QED BY <1>4, <3>1
  <2> QED BY <1>1, <1>4, <2>1 DEF SentOnce
<1>11. job \notin overtaken => ~Said(job, t)
  BY <1>1, <1>2 DEF FenceInv, RunsOn
<1>12. SaidOnce'
  <2>1. ASSUME NEW i \in 1..n, NEW j \in 1..n, i # j, alerts[i].job = alerts[j].job
        PROVE  alerts[i].what # alerts[j].what \/ alerts[i].job \in overtaken
    BY <1>4, <2>1 DEF FenceInv, SaidOnce
  <2>2. ASSUME NEW i \in 1..n, alerts[i].job = job PROVE alerts[i].what # t \/ job \in overtaken
    BY <1>4, <1>11, <2>2 DEF Said
  <2>3. ASSUME NEW i \in 1..(n + 1), NEW j \in 1..(n + 1), i # j, alerts'[i].job = alerts'[j].job
        PROVE  alerts'[i].what # alerts'[j].what \/ alerts'[i].job \in overtaken
    <3>1. CASE i \in 1..n /\ j \in 1..n
      BY <1>4, <2>1, <2>3, <3>1
    <3>2. CASE i = n + 1 /\ j \in 1..n
      BY <1>4, <2>2, <2>3, <3>2
    <3>3. CASE j = n + 1 /\ i \in 1..n
      BY <1>4, <2>2, <2>3, <3>3
    <3> QED BY <1>3, <2>3, <3>1, <3>2, <3>3
  <2> QED BY <1>1, <1>4, <2>3 DEF SaidOnce
<1>13. RunsOn'
  <2>1. ASSUME job \notin overtaken, NEW w \in What, Said(job, w) \/ w = t
        PROVE  w \notin todo' /\ Remembered(job, w) /\ Unscored(job, w)
    <3>1. CASE Said(job, w)
      BY <1>1, <2>1, <3>1 DEF FenceInv, RunsOn
    <3>2. CASE w = t
      <4>1. Unscored(job, t)
        BY Kinds DEF Unscored
      <4>2. inside[entity] = containing
        BY <1>1 DEF FenceInv, AtHand
      <4>3. Remembered(job, t)
        BY <1>8, <4>2 DEF Remembered, entity
      <4> QED BY <1>1, <3>2, <4>1, <4>3
    <3> QED BY <2>1, <3>1, <3>2
  <2>2. \A w : (Remembered(job, w) => Remembered(job, w)') /\ (Unscored(job, w) => Unscored(job, w)')
    BY <1>1, <1>5 DEF Remembered, Unscored, entity
  <2>3. \A w : Said(job, w)' => Said(job, w) \/ w = t
    <3>1. PICK k : k = job
      OBVIOUS
    <3>2. \A w : Said(job, w)' => Said(k, w)'
      BY <1>1, <3>1 DEF Said
    <3> QED BY <1>4, <3>1, <3>2
  <2> QED BY <1>1, <2>1, <2>2, <2>3 DEF RunsOn
<1> QED BY <1>6, <1>7, <1>9, <1>10, <1>12, <1>13 DEF FenceInv

\* The last alert goes out, or its log is written; the job may be done then.
LEMMA SendKeeps == ASSUME FenceInv, Dispatch \/ Log \/ Note PROVE FenceInv'
<1>1. /\ pc \in {"dispatch", "log", "note"}
      /\ UNCHANGED <<jobs, queue, stalled, stalls, zones, inside, samples, overtaken>>
      /\ \/ /\ pc' \in {"log", "alert"} /\ UNCHANGED <<job, containing, leaving, todo>>
            /\ pc # "note"
         \/ /\ pc' = "take" /\ job' = None /\ containing' = {} /\ leaving' = {} /\ todo' = {}
  BY DEF Dispatch, Log, Note, bullmq, past, Finished
<1>2. /\ FenceTyped /\ job \in 1..Len(jobs) /\ entity \in Entities /\ alerts # <<>>
      /\ alerts \in Seq(AlertType)
  BY <1>1, JobFacts DEF FenceInv, SentOnce, FenceTyped
<1>3. PICK n \in Nat : n = Len(alerts) /\ n # 0
  BY <1>2
<1>4. \/ alerts' = [alerts EXCEPT ![Len(alerts)].sent = @ + 1]
      \/ alerts' = [alerts EXCEPT ![Len(alerts)].logged = TRUE]
  BY DEF Dispatch, Log, Note
<1>5. /\ alerts' \in Seq(AlertType) /\ alerts' # <<>>
      /\ DOMAIN alerts' = 1..n /\ DOMAIN alerts = 1..n
      /\ \A i \in 1..n : alerts'[i].job = alerts[i].job /\ alerts'[i].what = alerts[i].what
      /\ \A i \in 1..n : i # n => alerts'[i].sent = alerts[i].sent
      /\ \A j, w : Said(j, w)' <=> Said(j, w)
  <2>1. DOMAIN alerts = 1..n
    BY <1>2, <1>3
  <2> QED BY <1>2, <1>3, <1>4, <2>1, LastAlertSays
<1>6. alerts'[n].sent <= 1
  <2>1. CASE Dispatch
    <3>1. alerts[n].sent = 0
      BY <1>3, <2>1 DEF Dispatch, FenceInv, SentOnce
    <3>2. alerts'[n].sent <= alerts[n].sent + 1
      BY <1>2, <1>3, <1>4, LastAlertSays
    <3> QED BY <3>1, <3>2
  <2>2. CASE Log \/ Note
    <3>1. alerts' = [alerts EXCEPT ![Len(alerts)].logged = TRUE]
      BY <2>2 DEF Log, Note
    <3>2. alerts'[n].sent = alerts[n].sent
      BY <1>2, <1>3, <3>1, LastAlertSays
    <3> QED BY <1>3, <1>5, <3>2 DEF FenceInv, SentOnce
  <2> QED BY <2>1, <2>2
<1>7. SentOnce'
  <2>1. \A i \in 1..n : alerts'[i].sent <= 1
    BY <1>5, <1>6 DEF FenceInv, SentOnce
  <2> QED BY <1>1, <1>5, <2>1 DEF SentOnce
<1>8. SaidOnce'
  BY <1>1, <1>5 DEF FenceInv, SaidOnce
<1>9. SaidRightly'
  BY <1>1, <1>5, JobsStay DEF FenceInv, SaidRightly
<1>10. OnePlace' /\ RunAgain'
  BY <1>1, <1>5, OthersStay
<1>11. AlertType' = AlertType /\ (job' = job => entity' = entity /\ PositionOf(job)' = PositionOf(job))
  BY <1>1, JobsStay DEF AlertType, PositionOf
<1>12. FenceTyped' /\ AtHand'
  <2>1. FenceTyped'
    BY <1>1, <1>2, <1>5, <1>11 DEF FenceTyped
  <2>2. AtHand'
    BY <1>1, <1>11 DEF FenceInv, AtHand
  <2> QED BY <2>1, <2>2
<1>13. RunsOn'
  <2>1. CASE pc' = "take"
    BY <2>1 DEF RunsOn
  <2>2. CASE pc' # "take"
    <3>1. job' = job /\ todo' = todo /\ pc # "note" /\ pc' \in {"log", "alert"}
      BY <1>1, <2>2
    <3>2. \A w : (Remembered(job, w) => Remembered(job, w)') /\ (Unscored(job, w) => Unscored(job, w)')
      BY <1>1, <1>11, <3>1 DEF Remembered, Unscored, entity
    <3>3. PICK k : k = job
      OBVIOUS
    <3>4. \A w : Said(job, w)' => Said(k, w)'
      BY <3>1, <3>3 DEF Said
    <3>5. \A w : Said(job, w)' => Said(job, w)
      BY <1>5, <3>3, <3>4
    <3> QED BY <1>1, <3>1, <3>2, <3>5 DEF FenceInv, RunsOn
  <2> QED BY <2>1, <2>2
<1> QED BY <1>7, <1>8, <1>9, <1>10, <1>12, <1>13 DEF FenceInv

\* The detector sees the job.  It is warm only after other jobs, and then the
\* job that had said ANOMALY before would have been overtaken or have seen the count reset.
LEMMA ScoreKeeps == ASSUME FenceInv, Score PROVE FenceInv'
<1>1. /\ pc = "alert" /\ todo = {}
      /\ samples' = [samples EXCEPT ![entity] = IF @ > Warmup THEN @ ELSE @ + 1]
      /\ UNCHANGED <<jobs, queue, stalled, stalls, zones, inside, overtaken>>
      /\ \/ /\ pc' = "take" /\ job' = None /\ containing' = {} /\ leaving' = {} /\ todo' = {}
            /\ alerts' = alerts
         \/ /\ samples'[entity] > Warmup /\ alerts' = NewAlert(<<"ANOMALY">>) /\ pc' = "note"
            /\ UNCHANGED <<job, containing, leaving, todo>>
  BY DEF Score, Finished, bullmq, past
<1>2. /\ FenceTyped /\ job \in 1..Len(jobs) /\ entity \in Entities /\ <<"ANOMALY">> \in What
      /\ alerts \in Seq(AlertType) /\ samples \in [Entities -> Nat]
  BY <1>1, JobFacts DEF FenceInv, What, FenceTyped
<1>3. PICK k \in Nat : k = IF samples[entity] > Warmup THEN samples[entity] ELSE samples[entity] + 1
  BY <1>2
<1>4. /\ samples' \in [Entities -> Nat] /\ samples'[entity] = k
      /\ \A e \in Entities \ {entity} : samples'[e] = samples[e]
  <2>1. samples' = [samples EXCEPT ![entity] = k]
    BY <1>1, <1>2, <1>3
  <2> QED BY <1>2, <2>1
<1>5. CASE pc' = "take"
  <2>1. /\ pc' = "take" /\ job' = None /\ containing' = {} /\ leaving' = {} /\ todo' = {}
        /\ alerts' = alerts
    BY <1>1, <1>5
  <2>2. /\ SaidRightly' /\ SaidOnce' /\ \A j, w : Said(j, w)' <=> Said(j, w)
        /\ AlertType' = AlertType
    BY <1>1, <2>1, AlertsStay
  <2>3. OnePlace' /\ RunAgain'
    BY <1>1, <1>4, <2>1, <2>2, OthersStay
  <2>4. FenceTyped'
    BY <1>1, <1>2, <1>4, <2>1, <2>2 DEF FenceTyped
  <2>5. AtHand' /\ RunsOn' /\ SentOnce'
    BY <2>1 DEF AtHand, RunsOn, SentOnce, FenceInv
  <2> QED BY <2>2, <2>3, <2>4, <2>5 DEF FenceInv
<1>6. CASE pc' # "take"
  <2>1. /\ samples'[entity] > Warmup /\ alerts' = NewAlert(<<"ANOMALY">>) /\ pc' = "note"
        /\ UNCHANGED <<job, containing, leaving, todo>>
    BY <1>1, <1>6
  <2>2. PICK n \in Nat : n = Len(alerts)
    BY <1>2
  <2>3. /\ alerts' \in Seq(AlertType) /\ alerts' # <<>>
        /\ Len(alerts') = n + 1 /\ DOMAIN alerts' = 1..(n + 1) /\ DOMAIN alerts = 1..n
        /\ \A i \in 1..n : alerts'[i] = alerts[i]
        /\ alerts'[n + 1].job = job /\ alerts'[n + 1].what = <<"ANOMALY">> /\ alerts'[n + 1].sent = 0
        /\ \A j, w : Said(j, w)' <=> Said(j, w) \/ (j = job /\ w = <<"ANOMALY">>)
    BY <1>1, <1>2, <2>1, <2>2, NewAlertSays
  <2>4. AlertType' = AlertType /\ entity' = entity /\ PositionOf(job)' = PositionOf(job)
    BY <1>1, <2>1, JobsStay DEF AlertType, PositionOf
  <2>5. OnePlace' /\ RunAgain'
    BY <1>1, <1>4, <2>1, <2>3, OthersStay
  <2>6. FenceTyped' /\ AtHand'
    <3>1. FenceTyped'
      BY <1>1, <1>2, <1>4, <2>1, <2>3, <2>4 DEF FenceTyped
    <3>2. AtHand'
      BY <1>1, <2>1, <2>4 DEF FenceInv, AtHand
    <3> QED BY <3>1, <3>2
  <2>7. SaidRightly'
    <3>1. ASSUME NEW j \in 1..Len(jobs), NEW z \in Zones
          PROVE  /\ Said(j, <<z, "ENTRY">>)' => PositionOf(j) \in Holds[z]
                 /\ Said(j, <<z, "EXIT">>)' => PositionOf(j) \notin Holds[z]
      BY <2>3, Kinds DEF FenceInv, SaidRightly
    <3> QED BY <1>1, <3>1, JobsStay DEF SaidRightly
  <2>8. SentOnce'
    <3>1. \A i \in 1..n : alerts'[i].sent <= 1
      BY <2>3 DEF FenceInv, SentOnce
    <3>2. \A i \in 1..(n + 1) : alerts'[i].sent <= 1
      BY <2>3, <3>1
    <3> QED BY <2>1, <2>3, <3>2 DEF SentOnce
  <2>9. job \notin overtaken => ~Said(job, <<"ANOMALY">>)
    <3>1. ASSUME job \notin overtaken, Said(job, <<"ANOMALY">>) PROVE FALSE
      <4>1. samples[entity] = 0
        BY <1>1, <1>2, <3>1 DEF FenceInv, RunsOn, Unscored, entity
      <4> QED BY <1>3, <1>4, <2>1, <4>1, FenceConstants
    <3> QED BY <3>1
  <2>10. SaidOnce'
    <3>1. ASSUME NEW i \in 1..n, NEW j \in 1..n, i # j, alerts[i].job = alerts[j].job
          PROVE  alerts[i].what # alerts[j].what \/ alerts[i].job \in overtaken
      BY <2>3, <3>1 DEF FenceInv, SaidOnce
    <3>2. ASSUME NEW i \in 1..n, alerts[i].job = job
          PROVE  alerts[i].what # <<"ANOMALY">> \/ job \in overtaken
      BY <2>3, <2>9, <3>2 DEF Said
    <3>3. ASSUME NEW i \in 1..(n + 1), NEW j \in 1..(n + 1), i # j, alerts'[i].job = alerts'[j].job
          PROVE  alerts'[i].what # alerts'[j].what \/ alerts'[i].job \in overtaken
      <4>1. CASE i \in 1..n /\ j \in 1..n
        BY <2>3, <3>1, <3>3, <4>1
      <4>2. CASE i = n + 1 /\ j \in 1..n
        BY <2>3, <3>2, <3>3, <4>2
      <4>3. CASE j = n + 1 /\ i \in 1..n
        BY <2>3, <3>2, <3>3, <4>3
      <4> QED BY <2>2, <3>3, <4>1, <4>2, <4>3
    <3> QED BY <1>1, <2>3, <3>3 DEF SaidOnce
  <2>11. RunsOn'
    <3>1. ASSUME job \notin overtaken, NEW w \in What, Said(job, w) \/ w = <<"ANOMALY">>
          PROVE  Remembered(job, w)
      <4>1. CASE Said(job, w)
        BY <1>1, <3>1, <4>1 DEF FenceInv, RunsOn
      <4>2. CASE w = <<"ANOMALY">>
        BY <4>2, Kinds DEF Remembered
      <4> QED BY <3>1, <4>1, <4>2
    <3>2. \A w : Remembered(job, w) => Remembered(job, w)'
      BY <1>1, <2>1, <2>4 DEF Remembered, entity
    <3>3. \A w : Said(job, w)' => Said(job, w) \/ w = <<"ANOMALY">>
      <4>1. PICK j : j = job
        OBVIOUS
      <4>2. \A w : Said(job, w)' => Said(j, w)'
        BY <2>1, <4>1 DEF Said
      <4> QED BY <2>3, <4>1, <4>2
    <3>4. todo' = {} /\ job' = job /\ pc' = "note" /\ overtaken' = overtaken
      BY <1>1, <2>1
    <3> QED BY <3>1, <3>2, <3>3, <3>4 DEF RunsOn
  <2> QED BY <2>5, <2>6, <2>7, <2>8, <2>10, <2>11 DEF FenceInv
<1> QED BY <1>5, <1>6

\* A call throws: the job has failed.
LEMMA ThrowKeeps == ASSUME FenceInv, Fail PROVE FenceInv'
<1>1. /\ pc # "take" /\ pc' = "take" /\ job' = None /\ containing' = {} /\ leaving' = {} /\ todo' = {}
      /\ UNCHANGED <<jobs, queue, stalled, stalls, zones, inside, alerts, samples, overtaken>>
  BY DEF Fail, Finished, bullmq
<1>2. FenceTyped /\ AlertType' = AlertType
  BY <1>1 DEF FenceInv, AlertType
<1>3. SaidRightly' /\ SaidOnce' /\ \A j, w : Said(j, w)' <=> Said(j, w)
  BY <1>1, AlertsStay
<1>4. OnePlace' /\ RunAgain'
  BY <1>1, <1>3, OthersStay
<1>5. FenceTyped'
  BY <1>1, <1>2 DEF FenceTyped
<1>6. AtHand' /\ RunsOn' /\ SentOnce'
  BY <1>1 DEF AtHand, RunsOn, SentOnce, FenceInv
<1> QED BY <1>3, <1>4, <1>5, <1>6 DEF FenceInv

\* The worker dies.  What its job has said is remembered, unless it was overtaken.
LEMMA DeathKeeps == ASSUME FenceInv, Crash PROVE FenceInv'
<1>1. /\ pc' = "take" /\ job' = None /\ containing' = {} /\ leaving' = {} /\ todo' = {}
      /\ samples' = [e \in Entities |-> 0] /\ stalled' = stalled \cup ({job} \ {None})
      /\ stalls' = [j \in JobIds |-> IF j = job THEN stalls[j] + 1 ELSE stalls[j]]
      /\ UNCHANGED <<jobs, queue, zones, inside, alerts, overtaken>>
  BY DEF Crash, Finished
<1>2. /\ FenceTyped /\ AlertType' = AlertType /\ stalled \subseteq 1..Len(jobs)
      /\ \A j \in 1..Len(jobs) : j \in JobIds /\ j # None /\ EntityOf(j) \in Entities
      /\ pc = "take" => job = None
      /\ pc # "take" => job \in 1..Len(jobs)
      /\ stalls \in [JobIds -> Nat]
  BY <1>1, JobFacts DEF FenceInv, AlertType, FenceTyped
<1>3. SaidRightly' /\ SaidOnce' /\ \A j, w : Said(j, w)' <=> Said(j, w)
  BY <1>1, AlertsStay
<1>4. /\ \A j : Waiting(j)' <=> Waiting(j)
      /\ \A j \in 1..Len(jobs) : j \in stalled' => j \in stalled \/ (j = job /\ pc # "take")
      /\ stalled' \subseteq 1..Len(jobs)
  BY <1>1, <1>2 DEF Waiting
<1>5. /\ stalls' \in [JobIds -> Nat]
      /\ \A j \in JobIds : /\ stalls[j] > 0 => stalls'[j] > 0
                           /\ stalls'[j] > 0 => stalls[j] > 0 \/ j = job
                           /\ j = job => stalls'[j] > 0
  BY <1>1, <1>2
<1>6. FenceTyped'
  <2>1. samples' \in [Entities -> Nat]
    BY <1>1
  <2> QED BY <1>1, <1>2, <1>4, <1>5, <2>1 DEF FenceTyped
<1>7. OnePlace'
  <2>1. \A j \in stalled' : ~Waiting(j)' /\ j # job' /\ stalls'[j] > 0
    <3>1. ASSUME NEW j \in stalled' PROVE ~Waiting(j) /\ j # None /\ stalls'[j] > 0
      BY <1>2, <1>4, <1>5 DEF FenceInv, OnePlace
    <3> QED BY <1>1, <1>4, <3>1
  <2>2. \A j \in 1..Len(jobs') : Waiting(j)' => j # job'
    BY <1>1, <1>2
  <2>3. \A j \in JobIds : stalls'[j] > 0 => j <= Len(jobs')
    <3>1. \A j \in JobIds : stalls[j] > 0 => j <= Len(jobs)
      BY DEF FenceInv, OnePlace
    <3>2. \A j \in JobIds : j = job => j <= Len(jobs)
      BY <1>2, FenceConstants
    <3> QED BY <1>1, <1>5, <3>1, <3>2
  <2>4. \A x, y \in DOMAIN queue' : queue'[x] = queue'[y] => x = y
    BY <1>1 DEF FenceInv, OnePlace
  <2> QED BY <2>1, <2>2, <2>3, <2>4 DEF OnePlace
<1>8. RunAgain'
  <2>1. ASSUME NEW j \in 1..Len(jobs'), NEW w \in What, Waiting(j)' \/ j \in stalled', Said(j, w)'
        PROVE  stalls'[j] > 0 /\ (j \in overtaken' \/ (Remembered(j, w)' /\ Unscored(j, w)'))
    <3>1. j \in 1..Len(jobs) /\ j \in JobIds /\ Said(j, w) /\ EntityOf(j)' = EntityOf(j)
      BY <1>1, <1>2, <1>3, <2>1, JobsStay
    <3>2. Unscored(j, w)'
      BY <1>1, <1>2, <3>1 DEF Unscored
    <3>3. Remembered(j, w) => Remembered(j, w)'
      BY <1>1, <3>1 DEF Remembered
    <3>4. CASE Waiting(j) \/ j \in stalled
      <4>1. stalls[j] > 0 /\ (j \in overtaken \/ Remembered(j, w))
        BY <3>1, <3>4 DEF FenceInv, RunAgain
      <4> QED BY <1>1, <1>5, <3>1, <3>2, <3>3, <4>1
    <3>5. CASE j = job /\ pc # "take"
      <4>1. j \in overtaken \/ Remembered(j, w)
        BY <3>1, <3>5 DEF FenceInv, RunsOn
      <4> QED BY <1>1, <1>5, <3>1, <3>2, <3>3, <3>5, <4>1
    <3> QED BY <1>4, <2>1, <3>1, <3>4, <3>5
  <2> QED BY <1>1, <2>1 DEF RunAgain
<1>9. AtHand' /\ RunsOn' /\ SentOnce'
  BY <1>1 DEF AtHand, RunsOn, SentOnce, FenceInv
<1> QED BY <1>3, <1>6, <1>7, <1>8, <1>9 DEF FenceInv

\* A stalled job goes back to the front of the queue, or has failed.
LEMMA RecoverKeeps == ASSUME FenceInv, NEW k \in JobIds, Recover(k) PROVE FenceInv'
<1>1. /\ k \in stalled /\ stalled' = stalled \ {k}
      /\ queue' = <<k>> \o queue \/ queue' = queue
      /\ UNCHANGED <<jobs, stalls, zones, inside, alerts, job, pc, containing, leaving, todo, samples,
                     overtaken>>
  BY DEF Recover, worker, past
<1>2. /\ FenceTyped /\ OnePlace /\ AlertType' = AlertType /\ k \in 1..Len(jobs)
      /\ queue \in Seq(1..Len(jobs)) /\ stalled \subseteq 1..Len(jobs)
  BY <1>1 DEF FenceInv, FenceTyped, AlertType
<1>3. SaidRightly' /\ SaidOnce' /\ \A j, w : Said(j, w)' <=> Said(j, w)
  BY <1>1, AlertsStay
<1>4. PICK q \in Nat : q = Len(queue) /\ DOMAIN queue = 1..q
  BY <1>2
<1>5. /\ queue' \in Seq(1..Len(jobs)) /\ \A j : Waiting(j)' => Waiting(j) \/ j = k
      /\ \A x, y \in DOMAIN queue' : queue'[x] = queue'[y] => x = y
  <2>1. CASE queue' = queue
    BY <1>2, <2>1 DEF Waiting, OnePlace
  <2>2. CASE queue' = <<k>> \o queue
    <3>1. /\ queue' \in Seq(1..Len(jobs)) /\ DOMAIN queue' = 1..(q + 1) /\ queue'[1] = k
          /\ \A x \in 2..(q + 1) : queue'[x] = queue[x - 1] /\ x - 1 \in 1..q
      BY <1>2, <1>4, <2>2
    <3>2. \A x \in 1..(q + 1) : x = 1 \/ x \in 2..(q + 1)
      BY <1>4
    <3>3. ~Waiting(k) /\ \A x \in 1..q : Waiting(queue[x])
      BY <1>1, <1>2, <1>4 DEF OnePlace, Waiting
    <3>4. \A j : Waiting(j)' => Waiting(j) \/ j = k
      <4>1. ASSUME NEW j, Waiting(j)' PROVE Waiting(j) \/ j = k
        <5>1. PICK x \in 1..(q + 1) : queue'[x] = j
          BY <3>1, <4>1 DEF Waiting
        <5> QED BY <3>1, <3>2, <3>3, <5>1
      <4> QED BY <4>1
    <3>5. ASSUME NEW x \in 2..(q + 1) PROVE queue'[x] # k
      BY <3>1, <3>3
    <3>6. ASSUME NEW x \in 2..(q + 1), NEW y \in 2..(q + 1), queue'[x] = queue'[y] PROVE x = y
      <4>1. queue[x - 1] = queue[y - 1] /\ x - 1 \in 1..q /\ y - 1 \in 1..q
        BY <3>1, <3>6
      <4>2. x - 1 = y - 1
        BY <1>2, <1>4, <4>1 DEF OnePlace
      <4> QED BY <4>2
    <3> QED BY <3>1, <3>2, <3>4, <3>5, <3>6
  <2> QED BY <1>1, <2>1, <2>2
<1>6. FenceTyped'
  BY <1>1, <1>2, <1>5 DEF FenceTyped
<1>7. OnePlace'
  <2>1. \A j \in stalled' : ~Waiting(j)' /\ j # job' /\ stalls'[j] > 0
    BY <1>1, <1>2, <1>5 DEF OnePlace
  <2>2. \A j \in 1..Len(jobs') : Waiting(j)' => j # job'
    BY <1>1, <1>2, <1>5 DEF OnePlace
  <2>3. \A j \in JobIds : stalls'[j] > 0 => j <= Len(jobs')
    BY <1>1, <1>2 DEF OnePlace
  <2> QED BY <1>5, <2>1, <2>2, <2>3 DEF OnePlace
<1>8. /\ \A j, w : (Remembered(j, w)' <=> Remembered(j, w)) /\ (Unscored(j, w)' <=> Unscored(j, w))
      /\ PositionOf(job)' = PositionOf(job) /\ entity' = entity
      /\ \A j : EntityOf(j)' = EntityOf(j)
  BY <1>1, JobsStay DEF Remembered, Unscored, PositionOf
<1>9. RunAgain'
  <2>1. ASSUME pc' # "take", NEW j \in 1..Len(jobs'), j # job', stalls'[j] > 0, EntityOf(j)' = entity'
        PROVE  j \in overtaken'
    BY <1>1, <1>8, <2>1 DEF FenceInv, RunAgain
  <2>2. ASSUME NEW j \in 1..Len(jobs'), NEW w \in What, Waiting(j)' \/ j \in stalled', Said(j, w)'
        PROVE  stalls'[j] > 0 /\ (j \in overtaken' \/ (Remembered(j, w)' /\ Unscored(j, w)'))
    <3>1. j \in 1..Len(jobs) /\ (Waiting(j) \/ j \in stalled) /\ Said(j, w)
      BY <1>1, <1>3, <1>5, <2>2
    <3> QED BY <1>1, <1>8, <3>1 DEF FenceInv, RunAgain
  <2> QED BY <2>1, <2>2 DEF RunAgain
<1>10. AtHand' /\ SentOnce'
  BY <1>1, <1>8 DEF FenceInv, AtHand, SentOnce
<1>11. RunsOn'
  <2>1. \A w : /\ Remembered(job, w) => Remembered(job, w)'
               /\ Unscored(job, w) => Unscored(job, w)'
               /\ Said(job, w)' => Said(job, w)
    BY <1>1, <1>8 DEF Remembered, Unscored, entity, Said
  <2> QED BY <1>1, <2>1 DEF FenceInv, RunsOn
<1> QED BY <1>3, <1>6, <1>7, <1>9, <1>10, <1>11 DEF FenceInv

LEMMA FenceNextInv == ASSUME FenceInv, [Next]_vars PROVE FenceInv'
<1>1. CASE UNCHANGED vars
  <2>1. /\ UNCHANGED <<jobs, queue, stalled, stalls, zones, inside, alerts, job, pc, containing,
                       leaving, todo, samples, overtaken>>
    BY <1>1 DEF vars, bullmq, worker, past
  <2>2. FenceTyped'
    BY <2>1 DEF FenceInv, FenceTyped, AlertType
  <2>3. OnePlace' /\ AtHand' /\ SentOnce' /\ SaidOnce'
    BY <2>1 DEF FenceInv, OnePlace, AtHand, SentOnce, SaidOnce, Waiting, PositionOf, entity, EntityOf
  <2>4. SaidRightly' /\ RunAgain' /\ RunsOn'
    BY <2>1 DEF FenceInv, SaidRightly, RunAgain, RunsOn, Said, Waiting, Remembered, Unscored,
                PositionOf, entity, EntityOf
  <2> QED BY <2>2, <2>3, <2>4 DEF FenceInv
<1>2. CASE Next
  BY <1>2, AddKeeps, ZonesKeep, TakeKeeps, QueryKeeps, LookupKeeps, RememberKeeps, AlertKeeps,
     SendKeeps, ScoreKeeps, ThrowKeeps, DeathKeeps, RecoverKeeps DEF Next, EditZones, ProcessJob
<1> QED BY <1>1, <1>2

\* No alert is written or dispatched a second time when a job is run again, unless
\* another job of its entity started in between (processJob, dispatchAlert).
THEOREM NothingSaidTwice == Spec => []NoSecondAlert
<1>1. FenceInv => NoSecondAlert
  BY DEF FenceInv, SaidOnce, SentOnce, NoSecondAlert
<1> QED BY <1>1, FenceInitInv, FenceNextInv, PTL DEF Spec

LEMMA AlertsCounted ==
    ASSUME FenceTyped, NEW e, NEW z, NEW event
    PROVE  /\ AlertsOf(e, z, event) \subseteq DOMAIN alerts /\ IsFiniteSet(AlertsOf(e, z, event))
           /\ Cardinality(AlertsOf(e, z, event)) \in Nat
<1>1. PICK n \in Nat : DOMAIN alerts = 1..n
  <2>1. alerts \in Seq(AlertType)
    BY DEF FenceTyped
  <2> QED BY <2>1
<1>2. IsFiniteSet(1..n)
  BY <1>1, FS_Interval
<1>3. AlertsOf(e, z, event) \subseteq 1..n
  BY <1>1 DEF AlertsOf
<1> QED BY <1>1, <1>2, <1>3, FS_Subset, FS_CardinalityType

\* The same alerts of the same jobs.
LEMMA CountsStay ==
    ASSUME FenceTyped, DOMAIN alerts' = DOMAIN alerts,
           \A i \in DOMAIN alerts : alerts'[i].job = alerts[i].job /\ alerts'[i].what = alerts[i].what,
           \A j \in 1..Len(jobs) : EntityOf(j)' = EntityOf(j)
    PROVE  \A e, z, event : AlertsOf(e, z, event)' = AlertsOf(e, z, event)
<1>1. \A i \in DOMAIN alerts : alerts[i].job \in 1..Len(jobs)
  <2>1. alerts \in Seq(AlertType)
    BY DEF FenceTyped
  <2>2. \A i \in DOMAIN alerts : alerts[i] \in AlertType
    BY <2>1
  <2> QED BY <2>2 DEF AlertType
<1>2. ASSUME NEW i \in DOMAIN alerts
      PROVE  EntityOf(alerts[i].job)' = EntityOf(alerts[i].job) /\ alerts[i].what' = alerts[i].what
  <2>1. PICK j \in 1..Len(jobs) : j = alerts[i].job /\ alerts'[i].job = j
    BY <1>1
  <2>2. EntityOf(alerts[i].job)' = EntityOf(j)'
    BY <2>1 DEF EntityOf
  <2> QED BY <2>1, <2>2
<1> QED BY <1>2 DEF AlertsOf

\* Where the alerts and Redis stay, and what is due of the entities that count.
LEMMA BalanceStays ==
    ASSUME MemoryInv, steady' \subseteq steady, broken \subseteq broken', inside' = inside,
           \A e, z, event : AlertsOf(e, z, event)' = AlertsOf(e, z, event),
           \A e \in Entities \ broken' : \A t : Unsaid(e, t)' = Unsaid(e, t)
    PROVE  \A e \in Entities \ broken', z \in Followed' : Balanced(e, z)'
<1>1. Followed' \subseteq Followed
  BY DEF Followed
<1>2. ASSUME NEW e \in Entities \ broken', NEW z \in Followed' PROVE Balanced(e, z)'
  <2>1. Balanced(e, z)
    BY <1>1 DEF MemoryInv
  <2> QED BY <2>1 DEF Balanced
<1> QED BY <1>2

\* The steps that neither announce anything nor change Redis or the job in hand.
LEMMA AsideKeeps ==
    ASSUME FenceInv, MemoryInv,
           \/ \E e \in Entities, pos \in Positions : Add(e, pos)
           \/ EditZones
           \/ \E j \in JobIds : Recover(j)
    PROVE  MemoryInv'
<1>1. /\ UNCHANGED <<inside, alerts, job, pc, containing, leaving, todo, broken>>
      /\ steady' \subseteq steady /\ steady' \subseteq zones'
  BY DEF Add, EditZones, CreateZone, DeleteZone, Recover, worker, past, MemoryInv
<1>2. FenceTyped /\ \A j \in 1..Len(jobs) : EntityOf(j)' = EntityOf(j)
  <2>1. jobs' = jobs \/ \E new \in Entities \X Positions : jobs' = Append(jobs, new)
    BY DEF Add, EditZones, CreateZone, DeleteZone, Recover, bullmq
  <2>2. jobs \in Seq(Entities \X Positions) /\ FenceTyped
    BY DEF FenceInv, FenceTyped
  <2>3. \A j \in 1..Len(jobs) : jobs'[j] = jobs[j]
    BY <2>1, <2>2
  <2> QED BY <2>2, <2>3 DEF EntityOf
<1>3. pc # "take" => entity' = entity
  BY <1>1, <1>2, JobFacts DEF entity, EntityOf
<1>4. \A f, t : Unsaid(f, t)' = Unsaid(f, t)
  BY <1>1, <1>3 DEF Unsaid
<1>5. \A f, y, event : AlertsOf(f, y, event)' = AlertsOf(f, y, event)
  BY <1>1, <1>2, CountsStay
<1>6. Compared'
  BY <1>1, <1>3 DEF MemoryInv, Compared, Followed
<1>7. \A f \in Entities \ broken', y \in Followed' : Balanced(f, y)'
  BY <1>1, <1>4, <1>5, BalanceStays
<1> QED BY <1>1, <1>6, <1>7 DEF MemoryInv

\* A job is taken, compared and looked up: nothing is due yet.
LEMMA ComparesKeeps ==
    ASSUME FenceInv, MemoryInv, Take \/ Query \/ \E z \in Zones : Lookup(z)
    PROVE  MemoryInv'
<1>1. /\ UNCHANGED <<jobs, zones, inside, alerts, steady, broken>>
      /\ pc \in {"take", "query", "lookup"} /\ pc' \in {"query", "lookup"}
  BY DEF Take, Query, Lookup, bullmq, past
<1>2. FenceTyped /\ zones \subseteq Zones
  BY DEF FenceInv, FenceTyped
<1>3. \A f, y, event : AlertsOf(f, y, event)' = AlertsOf(f, y, event)
  BY <1>1 DEF AlertsOf, EntityOf
<1>4. \A f, t : Unsaid(f, t)' = 0 /\ Unsaid(f, t) = 0
  BY <1>1 DEF Unsaid
<1>5. \A f \in Entities \ broken', y \in Followed' : Balanced(f, y)'
  BY <1>1, <1>3, <1>4, BalanceStays
<1>6. Followed' = Followed /\ \A y \in Followed : y \in zones /\ Trigger[y] = {"ENTRY", "EXIT"}
  BY <1>1 DEF Followed, MemoryInv
<1>7. Compared'
  <2>1. CASE Take
    BY <2>1 DEF Take, Compared
  <2>2. CASE Query
    <3>1. /\ job' = job /\ entity' = entity /\ inside' = inside
          /\ containing' = Containing(PositionOf(job)) /\ leaving' = inside[entity] \ containing'
          /\ todo' = Entered(containing', inside[entity])
      BY <1>1, <2>2, JobsStay DEF Query
    <3>2. PICK now : now = containing'
      OBVIOUS
    <3>3. todo' = {<<y, "ENTRY">> : y \in {x \in now \ inside[entity] : "ENTRY" \in Trigger[x]}}
      BY <3>1, <3>2 DEF Entered
    <3>4. ASSUME NEW y \in Followed
          PROVE  /\ <<y, "ENTRY">> \in todo' <=> (y \in now /\ y \notin inside[entity])
                 /\ <<y, "EXIT">> \notin todo'
      <4>1. "ENTRY" \in Trigger[y]
        BY <1>6
      <4>2. <<y, "EXIT">> \notin todo'
        BY <3>3, Kinds
      <4>3. ASSUME <<y, "ENTRY">> \in todo' PROVE y \in now \ inside[entity]
        <5>1. PICK x \in now \ inside[entity] : <<y, "ENTRY">> = <<x, "ENTRY">>
          BY <3>3, <4>3
        <5>2. x = y
          BY <5>1, Kinds
        <5> QED BY <5>1, <5>2
      <4> QED BY <3>3, <4>1, <4>2, <4>3
    <3>5. ASSUME NEW y \in Followed'
          PROVE  /\ <<y, "ENTRY">> \in todo' <=> (y \in containing' /\ y \notin inside'[entity'])
                 /\ (<<y, "EXIT">> \in todo' \/ y \in leaving')
                       <=> (y \in inside'[entity'] /\ y \notin containing')
      BY <1>6, <3>1, <3>2, <3>4
    <3> QED BY <3>5 DEF Compared
  <2>3. CASE \E z \in Zones : Lookup(z)
    <3>0. PICK z \in Zones : Lookup(z)
      BY <2>3
    <3>1. /\ pc = "lookup" /\ entity' = entity /\ inside' = inside /\ containing' = containing
          /\ leaving' = leaving \ {z} /\ z \in leaving
          /\ todo' = todo \cup {<<y, "EXIT">> : y \in {z} \cap {x \in zones : "EXIT" \in Trigger[x]}}
      BY <1>1, <3>0, JobsStay DEF Lookup
    <3>2. \A t \in todo' : t \in todo \/ t = <<z, "EXIT">>
      BY <3>1
    <3>3. z \in Followed => <<z, "EXIT">> \in todo'
      BY <1>6, <3>1
    <3>4. todo \subseteq todo'
      BY <3>1
    <3>5. ASSUME NEW y \in Followed
          PROVE  /\ <<y, "ENTRY">> \in todo' <=> <<y, "ENTRY">> \in todo
                 /\ (<<y, "EXIT">> \in todo' \/ y \in leaving') <=> (<<y, "EXIT">> \in todo \/ y \in leaving)
      BY <3>1, <3>2, <3>3, <3>4, Kinds
    <3>6. ASSUME NEW y \in Followed'
          PROVE  /\ <<y, "ENTRY">> \in todo' <=> (y \in containing' /\ y \notin inside'[entity'])
                 /\ (<<y, "EXIT">> \in todo' \/ y \in leaving')
                       <=> (y \in inside'[entity'] /\ y \notin containing')
      BY <1>6, <3>1, <3>5 DEF MemoryInv, Compared
    <3> QED BY <3>6 DEF Compared
  <2> QED BY <2>1, <2>2, <2>3
<1> QED BY <1>1, <1>5, <1>7 DEF MemoryInv

\* Redis is updated: what the two sets differed in is due now.
LEMMA RemembersDue == ASSUME FenceInv, MemoryInv, Remember PROVE MemoryInv'
<1>1. /\ pc = "lookup" /\ pc' = "alert" /\ leaving = {} /\ todo' = todo /\ job' = job
      /\ inside' = [inside EXCEPT ![entity] = containing]
      /\ UNCHANGED <<jobs, zones, alerts, steady, broken>>
  BY DEF Remember, bullmq, past
<1>2. FenceTyped /\ entity \in Entities /\ entity' = entity /\ inside \in [Entities -> SUBSET Zones]
  BY <1>1, JobFacts, JobsStay DEF FenceInv, FenceTyped
<1>3. inside'[entity] = containing /\ \A f \in Entities \ {entity} : inside'[f] = inside[f]
  BY <1>1, <1>2
<1>4. \A f, y, event : AlertsOf(f, y, event)' = AlertsOf(f, y, event)
  BY <1>1 DEF AlertsOf, EntityOf
<1>5. \A f, t : /\ Unsaid(f, t) = 0
                /\ Unsaid(f, t)' = IF f = entity /\ t \in todo THEN 1 ELSE 0
  BY <1>1, <1>2 DEF Unsaid
<1>6. ASSUME NEW f \in Entities \ broken, NEW y \in Followed PROVE Balanced(f, y)'
  <2>1. PICK n \in Nat, m \in Nat :
          n = Cardinality(AlertsOf(f, y, "ENTRY")) /\ m = Cardinality(AlertsOf(f, y, "EXIT"))
    BY <1>2, AlertsCounted
  <2>2. n = m + (IF y \in inside[f] THEN 1 ELSE 0)
    <3>1. Unsaid(f, <<y, "ENTRY">>) = 0 /\ Unsaid(f, <<y, "EXIT">>) = 0
      BY <1>5
    <3>2. Balanced(f, y)
      BY DEF MemoryInv
    <3>3. n + 0 = m + 0 + (IF y \in inside[f] THEN 1 ELSE 0)
      BY <2>1, <3>1, <3>2 DEF Balanced
    <3> QED BY <3>3
  <2>3. n + Unsaid(f, <<y, "ENTRY">>)' = m + Unsaid(f, <<y, "EXIT">>)' + (IF y \in inside'[f] THEN 1 ELSE 0)
    <3>1. CASE f # entity
      BY <1>3, <1>5, <2>2, <3>1
    <3>2. CASE f = entity
      <4>1. /\ <<y, "ENTRY">> \in todo <=> (y \in containing /\ y \notin inside[entity])
            /\ <<y, "EXIT">> \in todo <=> (y \in inside[entity] /\ y \notin containing)
        BY <1>1 DEF MemoryInv, Compared
      <4>2. PICK d \in Nat, x \in Nat : d = Unsaid(f, <<y, "ENTRY">>)' /\ x = Unsaid(f, <<y, "EXIT">>)'
        BY <1>5
      <4>3. /\ d = IF <<y, "ENTRY">> \in todo THEN 1 ELSE 0
            /\ x = IF <<y, "EXIT">> \in todo THEN 1 ELSE 0
        BY <1>5, <3>2, <4>2
      <4> QED BY <1>3, <2>2, <3>2, <4>1, <4>2, <4>3
    <3> QED BY <3>1, <3>2
  <2> QED BY <1>4, <2>1, <2>3 DEF Balanced
<1>7. Compared' /\ Followed' = Followed
  BY <1>1 DEF Compared, Followed
<1> QED BY <1>1, <1>6, <1>7 DEF MemoryInv

\* A transition is announced: it is counted and no longer due.
LEMMA AnnouncesDue == ASSUME FenceInv, MemoryInv, NEW t \in Transitions, Alert(t) PROVE MemoryInv'
<1>1. /\ pc = "alert" /\ pc' = "dispatch" /\ t \in todo /\ todo' = todo \ {t} /\ alerts' = NewAlert(t)
      /\ UNCHANGED <<jobs, zones, inside, job, steady, broken>>
  BY DEF Alert, bullmq, past
<1>2. FenceTyped /\ entity' = entity /\ t \in What
  BY <1>1, JobsStay DEF FenceInv, What
<1>3. PICK n \in Nat : n = Len(alerts)
  BY <1>2 DEF FenceTyped
<1>4. /\ DOMAIN alerts' = 1..(n + 1) /\ DOMAIN alerts = 1..n
      /\ \A i \in 1..n : alerts'[i] = alerts[i]
      /\ alerts'[n + 1].job = job /\ alerts'[n + 1].what = t
  BY <1>1, <1>2, <1>3, NewAlertSays
<1>5. \A f, y : /\ Unsaid(f, y) = IF f = entity /\ y \in todo THEN 1 ELSE 0
                /\ Unsaid(f, y)' = IF f = entity /\ y \in todo /\ y # t THEN 1 ELSE 0
  BY <1>1, <1>2 DEF Unsaid
<1>6. ASSUME NEW f, NEW y, NEW event
      PROVE  AlertsOf(f, y, event)' = AlertsOf(f, y, event) \cup
                (IF f = entity /\ <<y, event>> = t THEN {n + 1} ELSE {})
  <2>1. \A j : EntityOf(j)' = EntityOf(j)
    BY <1>1, JobsStay
  <2>2. ASSUME NEW i \in 1..n PROVE i \in AlertsOf(f, y, event)' <=> i \in AlertsOf(f, y, event)
    BY <1>1, <1>4 DEF AlertsOf, EntityOf
  <2>3. n + 1 \in AlertsOf(f, y, event)' <=> (f = entity /\ <<y, event>> = t)
    <3>1. n + 1 \in AlertsOf(f, y, event)' <=>
             (jobs'[alerts'[n + 1].job][1] = f /\ alerts'[n + 1].what = <<y, event>>)
      <4>1. PICK D : D = DOMAIN alerts' /\ n + 1 \in D
        BY <1>3, <1>4
      <4>2. AlertsOf(f, y, event)'
               = {i \in D : jobs'[alerts'[i].job][1] = f /\ alerts'[i].what = <<y, event>>}
        BY <4>1 DEF AlertsOf, EntityOf
      <4> QED BY <4>1, <4>2
    <3>2. jobs'[alerts'[n + 1].job][1] = entity
      BY <1>1, <1>4 DEF EntityOf, entity
    <3> QED BY <1>4, <3>1, <3>2
  <2>4. n + 1 \notin AlertsOf(f, y, event) /\ AlertsOf(f, y, event) \subseteq 1..n
        /\ AlertsOf(f, y, event)' \subseteq 1..(n + 1)
    BY <1>3, <1>4 DEF AlertsOf
  <2> QED BY <1>3, <2>2, <2>3, <2>4
<1>7. ASSUME NEW f \in Entities, NEW y \in Zones, NEW event
      PROVE  Cardinality(AlertsOf(f, y, event)') + Unsaid(f, <<y, event>>)'
                = Cardinality(AlertsOf(f, y, event)) + Unsaid(f, <<y, event>>)
  <2>1. PICK S : S = AlertsOf(f, y, event)
    OBVIOUS
  <2>2. IsFiniteSet(S) /\ S \subseteq 1..n /\ Cardinality(S) \in Nat
    BY <1>2, <1>4, <2>1, AlertsCounted
  <2>3. CASE f = entity /\ <<y, event>> = t
    <3>1. AlertsOf(f, y, event)' = S \cup {n + 1} /\ n + 1 \notin S
      BY <1>3, <1>6, <2>1, <2>2, <2>3
    <3>2. Cardinality(S \cup {n + 1}) = Cardinality(S) + 1
      BY <2>2, <3>1, FS_AddElement
    <3>3. Unsaid(f, <<y, event>>) = 1 /\ Unsaid(f, <<y, event>>)' = 0
      BY <1>1, <1>5, <2>3
    <3> QED BY <2>1, <2>2, <3>1, <3>2, <3>3
  <2>4. CASE ~(f = entity /\ <<y, event>> = t)
    <3>1. AlertsOf(f, y, event)' = S
      BY <1>6, <2>1, <2>4
    <3>2. Unsaid(f, <<y, event>>)' = Unsaid(f, <<y, event>>)
      BY <1>5, <2>4
    <3> QED BY <2>1, <3>1, <3>2
  <2> QED BY <2>3, <2>4
<1>8. ASSUME NEW f \in Entities \ broken, NEW y \in Followed PROVE Balanced(f, y)'
  <2>1. y \in Zones /\ inside' = inside
    BY <1>1 DEF MemoryInv, Followed, FenceInv, FenceTyped
  <2>2. Balanced(f, y)
    BY DEF MemoryInv
  <2> QED BY <1>7, <2>1, <2>2 DEF Balanced
<1>9. Compared' /\ Followed' = Followed
  BY <1>1 DEF Compared, Followed
<1> QED BY <1>1, <1>8, <1>9 DEF MemoryInv

\* An alert is sent or logged, or the job ends having announced all, or its entity counts no more.
LEMMA EndsKeep ==
    ASSUME FenceInv, MemoryInv, Dispatch \/ Log \/ Note \/ Score \/ Fail \/ Crash
    PROVE  MemoryInv'
<1>1. /\ UNCHANGED <<jobs, zones, inside, steady>> /\ broken \subseteq broken'
      /\ pc' \in {"log", "alert", "note", "take"}
  BY DEF Dispatch, Log, Note, Score, Fail, Crash, bullmq, past, Finished, BreaksOff
<1>2. FenceTyped /\ \A j : EntityOf(j)' = EntityOf(j)
  BY <1>1, JobsStay DEF FenceInv
<1>3. \A f, y : \A event \in {"ENTRY", "EXIT"} : AlertsOf(f, y, event)' = AlertsOf(f, y, event)
  <2>1. CASE alerts' = alerts
    BY <1>1, <2>1 DEF AlertsOf, EntityOf
  <2>2. CASE Dispatch \/ Log \/ Note
    <3>1. /\ alerts # <<>>
          /\ \/ alerts' = [alerts EXCEPT ![Len(alerts)].sent = @ + 1]
             \/ alerts' = [alerts EXCEPT ![Len(alerts)].logged = TRUE]
      BY <2>2 DEF Dispatch, Log, Note, FenceInv, SentOnce
    <3>2. /\ DOMAIN alerts' = DOMAIN alerts
          /\ \A i \in DOMAIN alerts : alerts'[i].job = alerts[i].job /\ alerts'[i].what = alerts[i].what
      BY <1>2, <3>1, LastAlertSays
    <3> QED BY <1>2, <3>2, CountsStay
  <2>3. CASE Score /\ alerts' = NewAlert(<<"ANOMALY">>)
    <3>1. PICK n \in Nat : n = Len(alerts)
      BY <1>2 DEF FenceTyped
    <3>2. pc # "take" /\ <<"ANOMALY">> \in What
      BY <2>3 DEF Score, What
    <3>3. /\ DOMAIN alerts' = 1..(n + 1) /\ DOMAIN alerts = 1..n
          /\ \A i \in 1..n : alerts'[i] = alerts[i]
          /\ alerts'[n + 1].what = <<"ANOMALY">>
      BY <1>2, <2>3, <3>1, <3>2, NewAlertSays
    <3>4. ASSUME NEW f, NEW y, NEW event PROVE AlertsOf(f, y, event)' = AlertsOf(f, y, event)
      <4>1. ASSUME NEW i \in 1..n PROVE i \in AlertsOf(f, y, event)' <=> i \in AlertsOf(f, y, event)
        BY <1>1, <3>1, <3>3 DEF AlertsOf, EntityOf
      <4>2. <<y, event>> # <<"ANOMALY">>
        OBVIOUS
      <4>3. n + 1 \notin AlertsOf(f, y, event)'
        BY <3>3, <4>2 DEF AlertsOf
      <4>4. AlertsOf(f, y, event) \subseteq 1..n /\ AlertsOf(f, y, event)' \subseteq 1..(n + 1)
        BY <3>3 DEF AlertsOf
      <4> QED BY <3>1, <4>1, <4>3, <4>4
    <3> QED BY <3>4
  <2> QED BY <2>1, <2>2, <2>3 DEF Score, Fail, Crash
<1>4. ASSUME NEW f \in Entities \ broken', NEW t PROVE Unsaid(f, t)' = Unsaid(f, t)
  <2>1. CASE Dispatch \/ Log
    <3>1. pc \in {"dispatch", "log"} /\ pc' \in {"log", "alert"} /\ UNCHANGED <<jobs, job, todo>>
      BY <2>1 DEF Dispatch, Log, bullmq
    <3>2. entity' = entity
      BY <3>1, JobsStay
    <3> QED BY <3>1, <3>2 DEF Unsaid
  <2>2. CASE Score
    BY <2>2 DEF Score, Finished, Unsaid
  <2>3. CASE Note
    BY <2>3 DEF Note, Finished, Unsaid
  <2>4. CASE Fail \/ Crash
    <3>1. pc' = "take" /\ todo' = {} /\ BreaksOff
      BY <2>4 DEF Fail, Crash, Finished
    <3>2. ~(pc \in {"alert", "dispatch", "log"} /\ todo # {} /\ f = entity)
      BY <3>1 DEF BreaksOff
    <3>3. Unsaid(f, t) = 0
      BY <3>2 DEF Unsaid
    <3> QED BY <3>1, <3>3 DEF Unsaid
  <2> QED BY <2>1, <2>2, <2>3, <2>4
<1>5. ASSUME NEW f \in Entities \ broken', NEW y \in Followed' PROVE Balanced(f, y)'
  <2>1. Balanced(f, y)
    BY <1>1 DEF MemoryInv, Followed
  <2>2. AlertsOf(f, y, "ENTRY")' = AlertsOf(f, y, "ENTRY") /\ AlertsOf(f, y, "EXIT")' = AlertsOf(f, y, "EXIT")
    BY <1>3
  <2> QED BY <1>1, <1>4, <2>1, <2>2 DEF Balanced
<1>6. Compared'
  BY <1>1 DEF Compared
<1> QED BY <1>1, <1>5, <1>6 DEF MemoryInv

LEMMA MemoryInitInv == ASSUME Init PROVE MemoryInv
<1>1. /\ steady = zones /\ pc = "take" /\ alerts = <<>> /\ inside = [e \in Entities |-> {}]
  BY DEF Init
<1>2. \A e, z, event : AlertsOf(e, z, event) = {}
  BY <1>1 DEF AlertsOf
<1>3. \A e \in Entities : \A z : Balanced(e, z)
  <2>1. ASSUME NEW e \in Entities, NEW z PROVE Balanced(e, z)
    <3>1. Unsaid(e, <<z, "ENTRY">>) = 0 /\ Unsaid(e, <<z, "EXIT">>) = 0 /\ z \notin inside[e]
      BY <1>1 DEF Unsaid
    <3>2. Cardinality(AlertsOf(e, z, "ENTRY")) = 0 /\ Cardinality(AlertsOf(e, z, "EXIT")) = 0
      BY <1>2, FS_EmptySet
    <3> QED BY <3>1, <3>2 DEF Balanced
  <2> QED BY <2>1
<1> QED BY <1>1, <1>3 DEF MemoryInv, Compared

LEMMA MemoryNextInv == ASSUME FenceInv, MemoryInv, [Next]_vars PROVE MemoryInv'
<1>1. CASE UNCHANGED vars
  <2>1. UNCHANGED <<jobs, zones, inside, alerts, job, pc, containing, leaving, todo, steady, broken>>
    BY <1>1 DEF vars, bullmq, worker, past
  <2>2. /\ \A e, t : Unsaid(e, t)' = Unsaid(e, t)
        /\ \A e, z, event : AlertsOf(e, z, event)' = AlertsOf(e, z, event)
    BY <2>1, JobsStay DEF Unsaid, AlertsOf, EntityOf
  <2>3. \A e \in Entities \ broken', z \in Followed' : Balanced(e, z)'
    BY <2>1, <2>2, BalanceStays
  <2>4. Compared'
    BY <2>1, JobsStay DEF MemoryInv, Compared, Followed
  <2> QED BY <2>1, <2>3, <2>4 DEF MemoryInv
<1>2. CASE Next
  BY <1>2, AsideKeeps, ComparesKeeps, RemembersDue, AnnouncesDue, EndsKeep DEF Next, ProcessJob
<1> QED BY <1>1, <1>2

\* An entity that Redis has in a zone nobody edited was announced there once more than it
\* was seen off, provided none of its jobs ended between the Redis update and its last
\* alert: jobs that fail, stall or are run again before the one or after the other change
\* nothing (processJob, the BullMQ queue).
THEOREM MemoryAnnounced == Spec => []AlertsMatchMemory
<1>1. ASSUME FenceInv, MemoryInv PROVE AlertsMatchMemory
  <2> SUFFICES ASSUME pc = "take", NEW e \in Entities \ broken, NEW z \in steady,
                      Trigger[z] = {"ENTRY", "EXIT"}
               PROVE  Cardinality(AlertsOf(e, z, "ENTRY"))
                         = Cardinality(AlertsOf(e, z, "EXIT")) + (IF z \in inside[e] THEN 1 ELSE 0)
    BY DEF AlertsMatchMemory
  <2>1. Balanced(e, z)
    BY <1>1 DEF MemoryInv, Followed
  <2>2. Unsaid(e, <<z, "ENTRY">>) = 0 /\ Unsaid(e, <<z, "EXIT">>) = 0
    BY DEF Unsaid
  <2>3. PICK n \in Nat, m \in Nat :
          n = Cardinality(AlertsOf(e, z, "ENTRY")) /\ m = Cardinality(AlertsOf(e, z, "EXIT"))
    BY <1>1, AlertsCounted DEF FenceInv
  <2>4. n + 0 = m + 0 + (IF z \in inside[e] THEN 1 ELSE 0)
    BY <2>1, <2>2, <2>3 DEF Balanced
  <2> QED BY <2>3, <2>4
<1> QED BY <1>1, FenceInitInv, FenceNextInv, MemoryInitInv, MemoryNextInv, PTL DEF Spec

\* Nothing has failed or died.  The worker has taken the jobs in their order.
Unfailed == failures = 0 /\ crashes = 0
TakenUp == Len(jobs) - Len(queue)
InOrder ==
    /\ TakenUp \in Nat
    /\ \A x \in DOMAIN queue : queue[x] = TakenUp + x
    /\ pc # "take" => job = TakenUp
    /\ stalled = {} /\ overtaken = {} /\ \A j \in JobIds : stalls[j] = 0

\* Redis has each entity where the jobs before left it, and then where the job leaves it.
Before == pc \in {"query", "lookup"}
RedisFollows ==
    \A e \in Entities, z \in steady :
        z \in inside[e] <=> IsIn(e, IF Before THEN TakenUp - 1 ELSE TakenUp, z)

\* What the jobs had to announce has been announced, and nothing else.
Asked(j, t) == t[2] \in Trigger[t[1]] /\ Crosses(j, t[1], t[2])
Steady == steady \X {"ENTRY", "EXIT"}
EndedAnnounced ==
    /\ \A i \in DOMAIN alerts : alerts[i].job <= TakenUp
    /\ \A j \in 1..TakenUp, t \in Steady : j # job => (Said(j, t) <=> Asked(j, t))

\* What the job has announced, has in hand or will find is what it has to announce.
JobAnnounces ==
    /\ Before => \A t \in Steady : ~Said(job, t)
    /\ pc = "lookup" => \A z \in steady :
          /\ z \in containing <=> PositionOf(job) \in Holds[z]
          /\ <<z, "ENTRY">> \in todo <=> Asked(job, <<z, "ENTRY">>)
          /\ (<<z, "EXIT">> \in todo \/ (z \in leaving /\ "EXIT" \in Trigger[z]))
                <=> Asked(job, <<z, "EXIT">>)
    /\ pc \in {"alert", "dispatch", "log", "note"} => \A t \in Steady :
          (Said(job, t) \/ t \in todo) <=> Asked(job, t)
    /\ pc = "note" => todo = {}

\* Every alert has been sent and logged, but for the last one of a job that goes on.
DealtWith ==
    \A i \in DOMAIN alerts : alerts[i].what \in Transitions =>
        \/ alerts[i].sent = 1 /\ alerts[i].logged
        \/ i = Len(alerts) /\ pc = "dispatch" /\ alerts[i].sent = 0
        \/ i = Len(alerts) /\ pc = "log" /\ alerts[i].sent = 1

CalmInv ==
    /\ failures \in Nat /\ crashes \in Nat
    /\ Unfailed => InOrder /\ RedisFollows /\ EndedAnnounced /\ JobAnnounces /\ DealtWith

LEMMA InNext ==
    ASSUME NEW n \in Nat, NEW e, NEW z
    PROVE  IsIn(e, n + 1, z) <=>
              IF EntityOf(n + 1) = e THEN PositionOf(n + 1) \in Holds[z] ELSE IsIn(e, n, z)
<1>1. CASE EntityOf(n + 1) = e
  <2>1. ASSUME PositionOf(n + 1) \in Holds[z] PROVE IsIn(e, n + 1, z)
    <3>1. \A h \in ((n + 1) + 1)..(n + 1) : EntityOf(h) # e
      OBVIOUS
    <3> QED BY <1>1, <2>1, <3>1 DEF IsIn
  <2>2. ASSUME IsIn(e, n + 1, z) PROVE PositionOf(n + 1) \in Holds[z]
    <3>1. PICK k \in 1..(n + 1) : /\ PositionOf(k) \in Holds[z]
                                  /\ \A h \in (k + 1)..(n + 1) : EntityOf(h) # e
      BY <2>2 DEF IsIn
    <3>2. k = n + 1
      BY <1>1, <3>1
    <3> QED BY <3>1, <3>2
  <2> QED BY <1>1, <2>1, <2>2
<1>2. CASE EntityOf(n + 1) # e
  <2>1. ASSUME IsIn(e, n + 1, z) PROVE IsIn(e, n, z)
    <3>1. PICK k \in 1..(n + 1) : /\ EntityOf(k) = e /\ PositionOf(k) \in Holds[z]
                                  /\ \A h \in (k + 1)..(n + 1) : EntityOf(h) # e
      BY <2>1 DEF IsIn
    <3>2. k \in 1..n
      BY <1>2, <3>1
    <3> QED BY <3>1, <3>2 DEF IsIn
  <2>2. ASSUME IsIn(e, n, z) PROVE IsIn(e, n + 1, z)
    <3>1. PICK k \in 1..n : /\ EntityOf(k) = e /\ PositionOf(k) \in Holds[z]
                            /\ \A h \in (k + 1)..n : EntityOf(h) # e
      BY <2>2 DEF IsIn
    <3>2. \A h \in (k + 1)..(n + 1) : EntityOf(h) # e
      <4>1. ASSUME NEW h \in (k + 1)..(n + 1) PROVE EntityOf(h) # e
        <5>1. h \in (k + 1)..n \/ h = n + 1
          OBVIOUS
        <5> QED BY <1>2, <3>1, <5>1
      <4> QED BY <4>1
    <3> QED BY <3>1, <3>2 DEF IsIn
  <2> QED BY <1>2, <2>1, <2>2
<1> QED BY <1>1, <1>2

\* Later jobs change nothing of the earlier ones.
LEMMA AskedStays ==
    ASSUME FenceTyped,
           jobs' = jobs \/ \E new \in Entities \X Positions : jobs' = Append(jobs, new)
    PROVE  /\ \A j \in 1..Len(jobs) : EntityOf(j)' = EntityOf(j) /\ PositionOf(j)' = PositionOf(j)
           /\ \A n \in 0..Len(jobs) : \A e, z : IsIn(e, n, z)' <=> IsIn(e, n, z)
           /\ \A j \in 1..Len(jobs) : \A t : Asked(j, t)' <=> Asked(j, t)
<1>1. PICK m \in Nat : m = Len(jobs)
  BY DEF FenceTyped
<1>2. \A j \in 1..m : jobs'[j] = jobs[j]
  <2>1. jobs \in Seq(Entities \X Positions)
    BY DEF FenceTyped
  <2>2. CASE \E new \in Entities \X Positions : jobs' = Append(jobs, new)
    BY <1>1, <2>1, <2>2
  <2> QED BY <2>2
<1>3. \A j \in 1..m : EntityOf(j)' = EntityOf(j) /\ PositionOf(j)' = PositionOf(j)
  BY <1>2 DEF EntityOf, PositionOf
<1>4. ASSUME NEW n \in 0..m, NEW e, NEW z PROVE IsIn(e, n, z)' <=> IsIn(e, n, z)
  <2>1. \A k \in 1..n : k \in 1..m /\ \A h \in (k + 1)..n : h \in 1..m
    BY <1>1
  <2> QED BY <1>3, <2>1 DEF IsIn
<1>5. ASSUME NEW j \in 1..m, NEW t PROVE Asked(j, t)' <=> Asked(j, t)
  <2>1. j - 1 \in 0..m
    BY <1>1
  <2>2. PICK e : e = EntityOf(j) /\ e = EntityOf(j)'
    BY <1>3
  <2>3. IsIn(e, j - 1, t[1])' <=> IsIn(e, j - 1, t[1])
    BY <1>4, <2>1
  <2> QED BY <1>3, <2>2, <2>3 DEF Asked, Crosses
<1> QED BY <1>1, <1>3, <1>4, <1>5

LEMMA TakenFacts ==
    ASSUME FenceTyped, InOrder
    PROVE  /\ Len(queue) \in Nat /\ Len(jobs) \in Nat /\ TakenUp \in 0..Len(jobs)
           /\ DOMAIN queue = 1..Len(queue)
           /\ pc # "take" => job = TakenUp /\ job \in 1..Len(jobs)
<1>1. Len(queue) \in Nat /\ Len(jobs) \in Nat /\ DOMAIN queue = 1..Len(queue)
  BY DEF FenceTyped
<1> QED BY <1>1, JobFacts DEF InOrder, TakenUp

\* A crossing is an entry or an exit of a zone.
LEMMA SteadyFacts ==
    ASSUME FenceTyped, steady \subseteq zones
    PROVE  /\ \A z \in steady : z \in Zones /\ z \in zones
           /\ Steady \subseteq Transitions
           /\ \A z \in steady : <<z, "ENTRY">> \in Steady /\ <<z, "EXIT">> \in Steady
           /\ \A t \in Steady : \E z \in steady : t = <<z, "ENTRY">> \/ t = <<z, "EXIT">>
BY DEF FenceTyped, Steady, Transitions

LEMMA AskedOf ==
    ASSUME NEW j, NEW z
    PROVE  /\ Asked(j, <<z, "ENTRY">>) <=> /\ "ENTRY" \in Trigger[z] /\ PositionOf(j) \in Holds[z]
                                           /\ ~IsIn(EntityOf(j), j - 1, z)
           /\ Asked(j, <<z, "EXIT">>) <=> /\ "EXIT" \in Trigger[z] /\ PositionOf(j) \notin Holds[z]
                                          /\ IsIn(EntityOf(j), j - 1, z)
<1>1. Asked(j, <<z, "ENTRY">>) <=> "ENTRY" \in Trigger[z] /\ Crosses(j, z, "ENTRY")
  BY DEF Asked
<1>2. Asked(j, <<z, "EXIT">>) <=> "EXIT" \in Trigger[z] /\ Crosses(j, z, "EXIT")
  BY DEF Asked
<1> QED BY <1>1, <1>2 DEF Crosses

LEMMA CalmInitInv == ASSUME Init PROVE CalmInv
<1>1. /\ jobs = <<>> /\ queue = <<>> /\ pc = "take" /\ alerts = <<>> /\ stalled = {} /\ overtaken = {}
      /\ inside = [e \in Entities |-> {}] /\ stalls = [j \in JobIds |-> 0]
      /\ failures = 0 /\ crashes = 0
  BY DEF Init
<1>2. TakenUp = 0 /\ ~Before
  BY <1>1 DEF TakenUp, Before
<1>3. \A e, z : ~IsIn(e, 0, z)
  BY DEF IsIn
<1>4. InOrder
  BY <1>1, <1>2 DEF InOrder
<1>5. RedisFollows
  BY <1>1, <1>2, <1>3 DEF RedisFollows
<1>6. EndedAnnounced /\ JobAnnounces /\ DealtWith
  BY <1>1, <1>2 DEF EndedAnnounced, JobAnnounces, DealtWith
<1> QED BY <1>1, <1>4, <1>5, <1>6 DEF CalmInv

\* The worker goes on with the job or ends it.
LEMMA OrderStays ==
    ASSUME InOrder, pc # "take", UNCHANGED <<jobs, queue, stalled, stalls, overtaken>>,
           pc' = "take" \/ job' = job
    PROVE  TakenUp' = TakenUp /\ InOrder'
BY DEF InOrder, TakenUp

\* Jobs are added, zones come and go: what is steady was there before.
LEMMA OthersWork ==
    ASSUME FenceInv, steady \subseteq zones, CalmInv,
           (\E e \in Entities, pos \in Positions : Add(e, pos)) \/ EditZones
    PROVE  CalmInv'
<1>1. /\ UNCHANGED <<stalled, stalls, inside, alerts, job, pc, containing, leaving, todo,
                     failures, crashes, overtaken>>
      /\ steady' \subseteq steady
      /\ \/ UNCHANGED <<jobs, queue>>
         \/ \E new \in Entities \X Positions :
               jobs' = Append(jobs, new) /\ queue' = Append(queue, Len(jobs) + 1)
  BY DEF Add, EditZones, CreateZone, DeleteZone, worker, past, bounds, bullmq
<1>2. SUFFICES ASSUME Unfailed
               PROVE  (InOrder /\ RedisFollows /\ EndedAnnounced /\ JobAnnounces /\ DealtWith)'
  BY <1>1 DEF CalmInv, Unfailed
<1>3. FenceTyped /\ InOrder /\ RedisFollows /\ EndedAnnounced /\ JobAnnounces /\ DealtWith
  BY <1>2 DEF CalmInv, FenceInv
<1>4. PICK n \in Nat, q \in Nat : /\ n = Len(jobs) /\ q = Len(queue) /\ DOMAIN queue = 1..q
                                  /\ TakenUp = n - q /\ TakenUp \in 0..n
  BY <1>3, TakenFacts DEF TakenUp
<1>5. TakenUp' = TakenUp /\ \A x \in DOMAIN queue' : queue'[x] = TakenUp + x
  <2>1. CASE UNCHANGED <<jobs, queue>>
    BY <1>3, <2>1 DEF TakenUp, InOrder
  <2>2. CASE \E new \in Entities \X Positions :
               jobs' = Append(jobs, new) /\ queue' = Append(queue, Len(jobs) + 1)
    <3>1. jobs \in Seq(Entities \X Positions) /\ queue \in Seq(1..Len(jobs))
      BY <1>3 DEF FenceTyped
    <3>2. Len(jobs') = n + 1 /\ Len(queue') = q + 1 /\ DOMAIN queue' = 1..(q + 1)
          /\ queue'[q + 1] = n + 1 /\ \A x \in 1..q : queue'[x] = queue[x]
      BY <1>4, <2>2, <3>1
    <3>3. TakenUp' = n - q
      BY <3>2 DEF TakenUp
    <3>4. \A x \in 1..q : queue'[x] = TakenUp + x
      BY <1>3, <1>4, <3>2 DEF InOrder
    <3>5. TakenUp' = TakenUp /\ n + 1 = TakenUp + (q + 1)
      BY <1>4, <3>3
    <3>6. \A x \in DOMAIN queue' : x \in 1..q \/ x = q + 1
      BY <3>2
    <3> QED BY <3>2, <3>4, <3>5, <3>6
  <2> QED BY <1>1, <2>1, <2>2
<1>6. InOrder'
  BY <1>1, <1>3, <1>5 DEF InOrder
<1>7. /\ \A j \in 1..n : EntityOf(j)' = EntityOf(j) /\ PositionOf(j)' = PositionOf(j)
      /\ \A k \in 0..n : \A e, z : IsIn(e, k, z)' <=> IsIn(e, k, z)
      /\ \A j \in 1..n : \A t : Asked(j, t)' <=> Asked(j, t)
  <2>1. jobs' = jobs \/ \E new \in Entities \X Positions : jobs' = Append(jobs, new)
    BY <1>1
  <2> QED BY <1>3, <1>4, <2>1, AskedStays
<1>8. (Before' <=> Before) /\ \A j, t : Said(j, t)' <=> Said(j, t)
  BY <1>1 DEF Before, Said
<1>9. pc # "take" => job \in 1..n /\ job = TakenUp
  BY <1>3, <1>4, TakenFacts
<1>10. RedisFollows'
  <2>1. PICK k \in 0..n : k = IF Before THEN TakenUp - 1 ELSE TakenUp
    <3>1. CASE Before
      <4>1. TakenUp \in 1..n
        BY <1>9, <3>1 DEF Before
      <4> QED BY <3>1, <4>1
    <3>2. CASE ~Before
      BY <1>4, <3>2
    <3> QED BY <3>1, <3>2
  <2>2. (IF Before THEN TakenUp - 1 ELSE TakenUp)' = k
    BY <1>5, <1>8, <2>1
  <2>3. ASSUME NEW e \in Entities, NEW z \in steady' PROVE z \in inside'[e] <=> IsIn(e, k, z)'
    BY <1>1, <1>3, <1>7, <2>1 DEF RedisFollows
  <2> QED BY <2>2, <2>3 DEF RedisFollows
<1>11. Steady' \subseteq Steady
  BY <1>1 DEF Steady
<1>12. EndedAnnounced'
  <2>1. \A i \in DOMAIN alerts' : alerts'[i].job <= TakenUp'
    BY <1>1, <1>3, <1>5 DEF EndedAnnounced
  <2>2. ASSUME NEW j \in 1..TakenUp', NEW t \in Steady', j # job' PROVE Said(j, t)' <=> Asked(j, t)'
    <3>1. j \in 1..TakenUp /\ j \in 1..n /\ t \in Steady /\ j # job
      BY <1>1, <1>4, <1>5, <1>11, <2>2
    <3> QED BY <1>3, <1>7, <1>8, <3>1 DEF EndedAnnounced
  <2> QED BY <2>1, <2>2 DEF EndedAnnounced
<1>13. JobAnnounces'
  <2>1. CASE pc = "take"
    BY <1>1, <2>1 DEF JobAnnounces, Before
  <2>2. CASE pc # "take"
    <3>1. PICK j \in 1..n : j = job /\ j = job'
      BY <1>1, <1>9, <2>2
    <3>2. /\ \A t : Asked(j, t)' <=> Asked(j, t)
          /\ PositionOf(j)' = PositionOf(j)
      BY <1>7
    <3>3. Before' => \A t \in Steady' : ~Said(j, t)'
      BY <1>3, <1>8, <1>11, <3>1 DEF JobAnnounces
    <3>4. pc' = "lookup" => \A z \in steady' :
            /\ z \in containing' <=> PositionOf(j)' \in Holds[z]
            /\ <<z, "ENTRY">> \in todo' <=> Asked(j, <<z, "ENTRY">>)'
            /\ (<<z, "EXIT">> \in todo' \/ (z \in leaving' /\ "EXIT" \in Trigger[z]))
                  <=> Asked(j, <<z, "EXIT">>)'
      BY <1>1, <1>3, <3>1, <3>2 DEF JobAnnounces
    <3>5. pc' \in {"alert", "dispatch", "log", "note"} => \A t \in Steady' :
            (Said(j, t)' \/ t \in todo') <=> Asked(j, t)'
      BY <1>1, <1>3, <1>8, <1>11, <3>1, <3>2 DEF JobAnnounces
    <3>6. pc' = "note" => todo' = {}
      BY <1>1, <1>3 DEF JobAnnounces
    <3> QED BY <3>1, <3>3, <3>4, <3>5, <3>6 DEF JobAnnounces
  <2> QED BY <2>1, <2>2
<1>14. DealtWith'
  BY <1>1, <1>3 DEF DealtWith
<1> QED BY <1>6, <1>10, <1>12, <1>13, <1>14

\* The next job in order is taken.
LEMMA TakesInOrder == ASSUME FenceInv, CalmInv, Take PROVE CalmInv'
<1>1. /\ UNCHANGED <<jobs, stalled, stalls, inside, alerts, failures, crashes, steady>>
      /\ pc = "take" /\ pc' = "query" /\ queue # <<>> /\ job' = Head(queue) /\ queue' = Tail(queue)
      /\ overtaken' = overtaken \cup
            {j \in JobIds \ {job'} : stalls[j] > 0 /\ EntityOf(j) = EntityOf(job')}
  BY DEF Take, bounds
<1>2. SUFFICES ASSUME Unfailed
               PROVE  (InOrder /\ RedisFollows /\ EndedAnnounced /\ JobAnnounces /\ DealtWith)'
  BY <1>1 DEF CalmInv, Unfailed
<1>3. FenceTyped /\ InOrder /\ RedisFollows /\ EndedAnnounced /\ JobAnnounces /\ DealtWith
  BY <1>2 DEF CalmInv, FenceInv
<1>4. PICK n \in Nat, q \in Nat, k \in Nat :
        /\ n = Len(jobs) /\ q = Len(queue) /\ k = TakenUp /\ k = n - q /\ q # 0
        /\ DOMAIN queue = 1..q /\ \A x \in 1..q : queue[x] = k + x
  <2>1. Len(queue) \in Nat /\ Len(jobs) \in Nat /\ TakenUp \in 0..Len(jobs) /\ DOMAIN queue = 1..Len(queue)
    BY <1>3, TakenFacts
  <2>2. Len(queue) # 0
    BY <1>1, <1>3 DEF FenceTyped
  <2> QED BY <1>3, <2>1, <2>2 DEF InOrder, TakenUp
<1>5. /\ Len(queue') = q - 1 /\ DOMAIN queue' = 1..(q - 1) /\ job' = k + 1
      /\ \A x \in 1..(q - 1) : queue'[x] = (k + 1) + x
  <2>1. queue \in Seq(1..Len(jobs))
    BY <1>3 DEF FenceTyped
  <2>2. job' = queue[1] /\ \A x \in 1..(q - 1) : queue'[x] = queue[x + 1]
    BY <1>1, <1>4, <2>1
  <2>3. Len(queue') = q - 1 /\ DOMAIN queue' = 1..(q - 1)
    BY <1>1, <1>4, <2>1
  <2>4. \A x \in 1..(q - 1) : x + 1 \in 1..q /\ queue[x + 1] = (k + 1) + x
    BY <1>4
  <2> QED BY <1>4, <2>2, <2>3, <2>4
<1>6. TakenUp' = k + 1
  BY <1>1, <1>4, <1>5 DEF TakenUp
<1>7. InOrder'
  <2>1. overtaken' = {}
    BY <1>1, <1>3 DEF InOrder
  <2> QED BY <1>1, <1>3, <1>5, <1>6, <2>1 DEF InOrder
<1>8. FenceTyped /\ jobs' = jobs
  BY <1>1, <1>3
<1>9. /\ \A e, z : IsIn(e, k, z)' <=> IsIn(e, k, z)
      /\ \A j \in 1..k : \A t : Asked(j, t)' <=> Asked(j, t)
  <2>1. k \in 0..n /\ \A j \in 1..k : j \in 1..n
    BY <1>4
  <2> QED BY <1>4, <1>8, <2>1, AskedStays
<1>10. RedisFollows'
  <2>1. Before' /\ ~Before
    BY <1>1 DEF Before
  <2>2. (IF Before THEN TakenUp - 1 ELSE TakenUp)' = k
    BY <1>6, <2>1
  <2>3. ASSUME NEW e \in Entities, NEW z \in steady' PROVE z \in inside'[e] <=> IsIn(e, k, z)'
    BY <1>1, <1>3, <1>4, <1>9, <2>1 DEF RedisFollows
  <2> QED BY <2>2, <2>3 DEF RedisFollows
<1>11. \A i \in DOMAIN alerts : alerts[i].job \in 1..n /\ alerts[i].job <= k
  <2>1. alerts \in Seq(AlertType)
    BY <1>3 DEF FenceTyped
  <2>2. \A i \in DOMAIN alerts : alerts[i] \in AlertType
    BY <2>1
  <2>3. \A i \in DOMAIN alerts : alerts[i].job \in 1..n
    BY <1>4, <2>2 DEF AlertType
  <2> QED BY <1>3, <1>4, <2>3 DEF EndedAnnounced
<1>12. (\A j, t : Said(j, t)' <=> Said(j, t)) /\ \A t : ~Said(k + 1, t)
  <2>1. \A j, t : Said(j, t)' <=> Said(j, t)
    BY <1>1 DEF Said
  <2>2. \A i \in DOMAIN alerts : alerts[i].job # k + 1
    BY <1>11
  <2> QED BY <2>1, <2>2 DEF Said
<1>13. job = None /\ \A j \in 1..k : j # None
  BY <1>1, <1>3, <1>4, JobFacts
<1>14. EndedAnnounced'
  <2>1. ASSUME NEW i \in DOMAIN alerts' PROVE alerts'[i].job <= TakenUp'
    <3>1. alerts[i].job \in 1..n /\ alerts[i].job <= k
      BY <1>1, <1>11
    <3> QED BY <1>1, <1>6, <3>1
  <2>2. ASSUME NEW j \in 1..TakenUp', NEW t \in Steady', j # job' PROVE Said(j, t)' <=> Asked(j, t)'
    <3>1. j \in 1..k /\ t \in Steady /\ j # job
      BY <1>1, <1>5, <1>6, <1>13, <2>2 DEF Steady
    <3> QED BY <1>3, <1>4, <1>9, <1>12, <3>1 DEF EndedAnnounced
  <2> QED BY <2>1, <2>2 DEF EndedAnnounced
<1>15. JobAnnounces'
  <2>1. \A t \in Steady' : ~Said(job, t)'
    BY <1>5, <1>12
  <2> QED BY <1>1, <2>1 DEF JobAnnounces
<1>16. DealtWith'
  BY <1>1, <1>3 DEF DealtWith
<1> QED BY <1>7, <1>10, <1>14, <1>15, <1>16

\* Steps of the job that add no alert: what has been announced stays.
LEMMA WorkStays ==
    ASSUME FenceTyped, InOrder, EndedAnnounced, DealtWith, pc # "take", pc \notin {"dispatch", "log"},
           UNCHANGED <<jobs, queue, stalled, stalls, alerts, steady, job, overtaken>>
    PROVE  /\ TakenUp' = TakenUp /\ TakenUp \in 1..Len(jobs) /\ job = TakenUp /\ entity' = entity
           /\ InOrder' /\ EndedAnnounced' /\ DealtWith' /\ Steady' = Steady
           /\ \A j, t : (Said(j, t)' <=> Said(j, t)) /\ (Asked(j, t)' <=> Asked(j, t))
           /\ \A e, n, z : IsIn(e, n, z)' <=> IsIn(e, n, z)
<1>1. /\ TakenUp' = TakenUp /\ TakenUp \in 1..Len(jobs) /\ job = TakenUp /\ InOrder'
      /\ Steady' = Steady /\ entity' = entity
  BY OrderStays, TakenFacts, JobsStay DEF Steady
<1>2. \A e, n, z : IsIn(e, n, z)' <=> IsIn(e, n, z)
  BY DEF IsIn, EntityOf, PositionOf
<1>3. \A j, t : (Said(j, t)' <=> Said(j, t)) /\ (Asked(j, t)' <=> Asked(j, t))
  BY <1>2 DEF Said, Asked, Crosses, EntityOf, PositionOf
<1>4. EndedAnnounced'
  BY <1>1, <1>3 DEF EndedAnnounced
<1>5. DealtWith'
  BY DEF DealtWith
<1> QED BY <1>1, <1>2, <1>3, <1>4, <1>5

\* The zones of the position and of Redis differ in what the job has to announce.
LEMMA FindsCrossings == ASSUME FenceInv, steady \subseteq zones, CalmInv, Query PROVE CalmInv'
<1>1. /\ pc = "query" /\ pc' = "lookup"
      /\ UNCHANGED <<jobs, queue, stalled, stalls, inside, alerts, job, failures, crashes, steady, overtaken>>
      /\ containing' = Containing(PositionOf(job)) /\ leaving' = inside[entity] \ containing'
      /\ todo' = Entered(containing', inside[entity])
  BY DEF Query, bullmq, bounds, past
<1>2. SUFFICES ASSUME Unfailed
               PROVE  (InOrder /\ RedisFollows /\ EndedAnnounced /\ JobAnnounces /\ DealtWith)'
  BY <1>1 DEF CalmInv, Unfailed
<1>3. FenceTyped /\ InOrder /\ RedisFollows /\ EndedAnnounced /\ JobAnnounces /\ DealtWith
  BY <1>2 DEF CalmInv, FenceInv
<1>4. /\ TakenUp' = TakenUp /\ TakenUp \in 1..Len(jobs) /\ job = TakenUp /\ entity' = entity
      /\ InOrder' /\ EndedAnnounced' /\ DealtWith' /\ Steady' = Steady
      /\ \A j, t : (Said(j, t)' <=> Said(j, t)) /\ (Asked(j, t)' <=> Asked(j, t))
      /\ \A e, n, z : IsIn(e, n, z)' <=> IsIn(e, n, z)
  BY <1>1, <1>3, WorkStays
<1>5. RedisFollows'
  <2>1. Before /\ Before'
    BY <1>1 DEF Before
  <2> QED BY <1>1, <1>3, <1>4, <2>1 DEF RedisFollows
<1>6. PICK now : now = containing'
  OBVIOUS
<1>7. entity \in Entities /\ PositionOf(job)' = PositionOf(job)
  BY <1>1, <1>3, JobFacts, JobsStay
<1>8. ASSUME NEW z \in steady
      PROVE  /\ z \in now <=> PositionOf(job) \in Holds[z]
             /\ <<z, "ENTRY">> \in todo' <=> Asked(job, <<z, "ENTRY">>)
             /\ <<z, "EXIT">> \notin todo'
             /\ (z \in leaving' /\ "EXIT" \in Trigger[z]) <=> Asked(job, <<z, "EXIT">>)
  <2>1. z \in zones
    OBVIOUS
  <2>2. z \in now <=> PositionOf(job) \in Holds[z]
    BY <1>1, <1>6, <2>1 DEF Containing
  <2>3. z \in inside[entity] <=> IsIn(entity, job - 1, z)
    <3>1. Before
      BY <1>1 DEF Before
    <3> QED BY <1>3, <1>4, <1>7, <3>1 DEF RedisFollows
  <2>4. EntityOf(job) = entity
    BY DEF entity
  <2>5. todo' = {<<y, "ENTRY">> : y \in {x \in now \ inside[entity] : "ENTRY" \in Trigger[x]}}
    BY <1>1, <1>6 DEF Entered
  <2>6. <<z, "EXIT">> \notin todo'
    BY <2>5, Kinds
  <2>7. <<z, "ENTRY">> \in todo' <=> z \in now /\ z \notin inside[entity] /\ "ENTRY" \in Trigger[z]
    <3>1. ASSUME <<z, "ENTRY">> \in todo'
          PROVE  z \in now /\ z \notin inside[entity] /\ "ENTRY" \in Trigger[z]
      <4>1. PICK x \in now \ inside[entity] : "ENTRY" \in Trigger[x] /\ <<z, "ENTRY">> = <<x, "ENTRY">>
        BY <2>5, <3>1
      <4>2. x = z
        BY <4>1, Kinds
      <4> QED BY <4>1, <4>2
    <3> QED BY <2>5, <3>1
  <2>8. z \in leaving' <=> z \in inside[entity] /\ z \notin now
    BY <1>1, <1>6
  <2> QED BY <2>2, <2>3, <2>4, <2>6, <2>7, <2>8, AskedOf
<1>9. JobAnnounces'
  <2>1. \A t \in Steady' : ~Said(job, t)'
    BY <1>1, <1>3, <1>4 DEF JobAnnounces, Before
  <2>2. ASSUME NEW z \in steady'
        PROVE  /\ z \in containing' <=> PositionOf(job)' \in Holds[z]
               /\ <<z, "ENTRY">> \in todo' <=> Asked(job, <<z, "ENTRY">>)'
               /\ (<<z, "EXIT">> \in todo' \/ (z \in leaving' /\ "EXIT" \in Trigger[z]))
                     <=> Asked(job, <<z, "EXIT">>)'
    <3>1. z \in steady
      BY <1>1
    <3>2. \A t : Asked(job, t)' <=> Asked(job, t)
      BY <1>1, <1>4 DEF Asked, Crosses, IsIn, EntityOf, PositionOf
    <3> QED BY <1>6, <1>7, <1>8, <3>1, <3>2
  <2> QED BY <1>1, <2>1, <2>2 DEF JobAnnounces
<1> QED BY <1>4, <1>5, <1>9

\* A zone that was left is still there if it is steady.
LEMMA LooksUp ==
    ASSUME FenceInv, steady \subseteq zones, CalmInv, NEW x \in Zones, Lookup(x)
    PROVE  CalmInv'
<1>1. /\ pc = "lookup" /\ pc' = "lookup" /\ x \in leaving /\ leaving' = leaving \ {x}
      /\ todo' = todo \cup {<<y, "EXIT">> : y \in {x} \cap {v \in zones : "EXIT" \in Trigger[v]}}
      /\ UNCHANGED <<jobs, queue, stalled, stalls, inside, alerts, job, containing, failures, crashes,
                     steady, overtaken>>
  BY DEF Lookup, bullmq, bounds, past
<1>2. SUFFICES ASSUME Unfailed
               PROVE  (InOrder /\ RedisFollows /\ EndedAnnounced /\ JobAnnounces /\ DealtWith)'
  BY <1>1 DEF CalmInv, Unfailed
<1>3. FenceTyped /\ InOrder /\ RedisFollows /\ EndedAnnounced /\ JobAnnounces /\ DealtWith
  BY <1>2 DEF CalmInv, FenceInv
<1>4. /\ TakenUp' = TakenUp /\ TakenUp \in 1..Len(jobs) /\ job = TakenUp /\ entity' = entity
      /\ InOrder' /\ EndedAnnounced' /\ DealtWith' /\ Steady' = Steady
      /\ \A j, t : (Said(j, t)' <=> Said(j, t)) /\ (Asked(j, t)' <=> Asked(j, t))
      /\ \A e, n, z : IsIn(e, n, z)' <=> IsIn(e, n, z)
  BY <1>1, <1>3, WorkStays
<1>5. RedisFollows'
  <2>1. Before /\ Before'
    BY <1>1 DEF Before
  <2> QED BY <1>1, <1>3, <1>4, <2>1 DEF RedisFollows
<1>6. ASSUME NEW z \in steady
      PROVE  /\ <<z, "ENTRY">> \in todo' <=> <<z, "ENTRY">> \in todo
             /\ (<<z, "EXIT">> \in todo' \/ (z \in leaving' /\ "EXIT" \in Trigger[z]))
                   <=> (<<z, "EXIT">> \in todo \/ (z \in leaving /\ "EXIT" \in Trigger[z]))
  <2>1. todo \subseteq todo' /\ \A t \in todo' : t \in todo \/ t = <<x, "EXIT">>
    BY <1>1
  <2>2. <<x, "EXIT">> \in todo' => <<x, "EXIT">> \in todo \/ "EXIT" \in Trigger[x]
    BY <1>1, Kinds
  <2>3. (x \in steady /\ "EXIT" \in Trigger[x]) => <<x, "EXIT">> \in todo'
    BY <1>1
  <2> QED BY <1>1, <2>1, <2>2, <2>3, Kinds
<1>7. \A t : (Said(job, t)' <=> Said(job, t)) /\ (Asked(job, t)' <=> Asked(job, t))
  BY <1>1 DEF Said, Asked, Crosses, IsIn, EntityOf, PositionOf
<1>8. PositionOf(job)' = PositionOf(job)
  BY <1>1, JobsStay
<1>9. JobAnnounces'
  <2>1. \A t \in Steady' : ~Said(job, t)'
    BY <1>1, <1>3, <1>4, <1>7 DEF JobAnnounces, Before
  <2>2. ASSUME NEW z \in steady'
        PROVE  /\ z \in containing' <=> PositionOf(job)' \in Holds[z]
               /\ <<z, "ENTRY">> \in todo' <=> Asked(job, <<z, "ENTRY">>)'
               /\ (<<z, "EXIT">> \in todo' \/ (z \in leaving' /\ "EXIT" \in Trigger[z]))
                     <=> Asked(job, <<z, "EXIT">>)'
    BY <1>1, <1>3, <1>6, <1>7, <1>8 DEF JobAnnounces
  <2> QED BY <1>1, <2>1, <2>2 DEF JobAnnounces
<1> QED BY <1>4, <1>5, <1>9

\* Redis is updated: what was found is in hand, and the entity is where the job leaves it.
LEMMA RemembersWhere == ASSUME FenceInv, steady \subseteq zones, CalmInv, Remember PROVE CalmInv'
<1>1. /\ pc = "lookup" /\ pc' = "alert" /\ leaving = {}
      /\ inside' = [inside EXCEPT ![entity] = containing]
      /\ UNCHANGED <<jobs, queue, stalled, stalls, alerts, job, todo, failures, crashes, steady, overtaken>>
  BY DEF Remember, bullmq, bounds, past
<1>2. SUFFICES ASSUME Unfailed
               PROVE  (InOrder /\ RedisFollows /\ EndedAnnounced /\ JobAnnounces /\ DealtWith)'
  BY <1>1 DEF CalmInv, Unfailed
<1>3. FenceTyped /\ InOrder /\ RedisFollows /\ EndedAnnounced /\ JobAnnounces /\ DealtWith
  BY <1>2 DEF CalmInv, FenceInv
<1>4. /\ TakenUp' = TakenUp /\ TakenUp \in 1..Len(jobs) /\ job = TakenUp /\ entity' = entity
      /\ InOrder' /\ EndedAnnounced' /\ DealtWith' /\ Steady' = Steady
      /\ \A j, t : (Said(j, t)' <=> Said(j, t)) /\ (Asked(j, t)' <=> Asked(j, t))
      /\ \A e, n, z : IsIn(e, n, z)' <=> IsIn(e, n, z)
  BY <1>1, <1>3, WorkStays
<1>5. PICK n \in Nat : n + 1 = job /\ job - 1 = n /\ TakenUp - 1 = n
  BY <1>3, <1>4, JobFacts
<1>6. RedisFollows'
  <2>1. Before /\ ~Before'
    BY <1>1 DEF Before
  <2>2. ASSUME NEW e \in Entities, NEW z \in steady PROVE z \in inside'[e] <=> IsIn(e, n + 1, z)
    <3>1. z \in inside[e] <=> IsIn(e, n, z)
      BY <1>3, <1>5, <2>1 DEF RedisFollows
    <3>2. z \in containing <=> PositionOf(job) \in Holds[z]
      BY <1>1, <1>3 DEF JobAnnounces
    <3>3. IsIn(e, n + 1, z) <=>
             IF EntityOf(n + 1) = e THEN PositionOf(n + 1) \in Holds[z] ELSE IsIn(e, n, z)
      BY InNext
    <3>4. inside'[e] = IF e = entity THEN containing ELSE inside[e]
      BY <1>1, <1>3 DEF FenceTyped
    <3>5. entity = EntityOf(n + 1) /\ PositionOf(job) = PositionOf(n + 1)
      BY <1>5 DEF entity
    <3> QED BY <3>1, <3>2, <3>3, <3>4, <3>5
  <2>3. ASSUME NEW e \in Entities, NEW z \in steady' PROVE z \in inside'[e] <=> IsIn(e, n + 1, z)'
    <3>1. IsIn(e, n + 1, z)' <=> IsIn(e, n + 1, z)
      BY <1>1 DEF IsIn, EntityOf, PositionOf
    <3> QED BY <1>1, <2>2, <3>1
  <2>4. (IF Before THEN TakenUp - 1 ELSE TakenUp)' = n + 1
    BY <1>4, <1>5, <2>1
  <2> QED BY <2>3, <2>4 DEF RedisFollows
<1>7. ASSUME NEW t \in Steady PROVE ~Said(job, t) /\ (t \in todo <=> Asked(job, t))
  <2>1. PICK z \in steady : t = <<z, "ENTRY">> \/ t = <<z, "EXIT">>
    BY <1>3, SteadyFacts
  <2>2. /\ <<z, "ENTRY">> \in todo <=> Asked(job, <<z, "ENTRY">>)
        /\ <<z, "EXIT">> \in todo <=> Asked(job, <<z, "EXIT">>)
    BY <1>1, <1>3 DEF JobAnnounces
  <2>3. ~Said(job, t)
    BY <1>1, <1>3 DEF JobAnnounces, Before
  <2> QED BY <2>1, <2>2, <2>3
<1>8. \A t : (Said(job, t)' <=> Said(job, t)) /\ (Asked(job, t)' <=> Asked(job, t))
  BY <1>1 DEF Said, Asked, Crosses, IsIn, EntityOf, PositionOf
<1>9. JobAnnounces'
  <2>1. ASSUME NEW t \in Steady' PROVE (Said(job, t)' \/ t \in todo') <=> Asked(job, t)'
    BY <1>1, <1>4, <1>7, <1>8
  <2> QED BY <1>1, <2>1 DEF JobAnnounces, Before
<1> QED BY <1>4, <1>6, <1>9

\* A transition is announced: it is no longer in hand.
LEMMA AnnouncesCrossing ==
    ASSUME FenceInv, steady \subseteq zones, CalmInv, NEW t \in Transitions, Alert(t)
    PROVE  CalmInv'
<1>1. /\ pc = "alert" /\ pc' = "dispatch" /\ t \in todo /\ todo' = todo \ {t} /\ alerts' = NewAlert(t)
      /\ UNCHANGED <<jobs, queue, stalled, stalls, inside, job, failures, crashes, steady, overtaken>>
  BY DEF Alert, bullmq, bounds, past
<1>2. SUFFICES ASSUME Unfailed
               PROVE  (InOrder /\ RedisFollows /\ EndedAnnounced /\ JobAnnounces /\ DealtWith)'
  BY <1>1 DEF CalmInv, Unfailed
<1>3. FenceTyped /\ InOrder /\ RedisFollows /\ EndedAnnounced /\ JobAnnounces /\ DealtWith
  BY <1>2 DEF CalmInv, FenceInv
<1>4. /\ TakenUp' = TakenUp /\ InOrder' /\ TakenUp \in 1..Len(jobs) /\ job = TakenUp /\ Steady' = Steady
  BY <1>1, <1>3, OrderStays, TakenFacts DEF Steady
<1>5. PICK n \in Nat : n = Len(alerts)
  BY <1>3 DEF FenceTyped
<1>6. /\ DOMAIN alerts' = 1..(n + 1) /\ DOMAIN alerts = 1..n /\ Len(alerts') = n + 1
      /\ \A i \in 1..n : alerts'[i] = alerts[i]
      /\ alerts'[n + 1].job = job /\ alerts'[n + 1].what = t /\ alerts'[n + 1].sent = 0
      /\ \A j, w : Said(j, w)' <=> Said(j, w) \/ (j = job /\ w = t)
  BY <1>1, <1>3, <1>5, NewAlertSays DEF What
<1>7. /\ \A e, m, z : IsIn(e, m, z)' <=> IsIn(e, m, z)
      /\ \A j, w : Asked(j, w)' <=> Asked(j, w)
  BY <1>1 DEF Asked, Crosses, IsIn, EntityOf, PositionOf
<1>8. RedisFollows'
  <2>1. ~Before /\ ~Before'
    BY <1>1 DEF Before
  <2> QED BY <1>1, <1>3, <1>4, <1>7, <2>1 DEF RedisFollows
<1>9. EndedAnnounced'
  <2>1. ASSUME NEW i \in 1..(n + 1) PROVE alerts'[i].job <= TakenUp
    <3>1. CASE i \in 1..n
      BY <1>3, <1>6, <3>1 DEF EndedAnnounced
    <3>2. CASE i = n + 1
      BY <1>4, <1>6, <3>2
    <3> QED BY <1>5, <3>1, <3>2
  <2>2. ASSUME NEW j \in 1..TakenUp, NEW w \in Steady, j # job PROVE Said(j, w)' <=> Asked(j, w)'
    BY <1>3, <1>6, <1>7, <2>2 DEF EndedAnnounced
  <2> QED BY <1>1, <1>4, <1>6, <2>1, <2>2 DEF EndedAnnounced
<1>10. JobAnnounces'
  <2>1. ASSUME NEW w \in Steady PROVE (Said(job, w)' \/ w \in todo') <=> Asked(job, w)
    <3>1. (Said(job, w) \/ w \in todo) <=> Asked(job, w)
      BY <1>1, <1>3 DEF JobAnnounces
    <3> QED BY <1>1, <1>6, <3>1
  <2>2. ASSUME NEW w \in Steady' PROVE (Said(job, w)' \/ w \in todo') <=> Asked(job, w)'
    BY <1>1, <1>4, <1>7, <2>1
  <2> QED BY <1>1, <2>2 DEF JobAnnounces, Before
<1>11. DealtWith'
  <2>1. ASSUME NEW i \in 1..(n + 1), alerts'[i].what \in Transitions
        PROVE  \/ alerts'[i].sent = 1 /\ alerts'[i].logged
               \/ i = n + 1 /\ alerts'[i].sent = 0
    <3>1. CASE i \in 1..n
      BY <1>1, <1>3, <1>6, <2>1, <3>1 DEF DealtWith
    <3>2. CASE i = n + 1
      BY <1>6, <3>2
    <3> QED BY <1>5, <3>1, <3>2
  <2> QED BY <1>1, <1>6, <2>1 DEF DealtWith
<1> QED BY <1>4, <1>8, <1>9, <1>10, <1>11

\* What becomes of the last alert.
LEMMA LastAlertRow ==
    ASSUME FenceTyped, NEW n \in Nat, n = Len(alerts), alerts # <<>>
    PROVE  /\ DOMAIN alerts = 1..n /\ n \in 1..n
           /\ alerts' = [alerts EXCEPT ![Len(alerts)].sent = @ + 1] =>
                 /\ DOMAIN alerts' = 1..n /\ \A i \in 1..n : i # n => alerts'[i] = alerts[i]
                 /\ alerts'[n].sent = alerts[n].sent + 1 /\ alerts'[n].what = alerts[n].what
           /\ alerts' = [alerts EXCEPT ![Len(alerts)].logged = TRUE] =>
                 /\ DOMAIN alerts' = 1..n /\ \A i \in 1..n : i # n => alerts'[i] = alerts[i]
                 /\ alerts'[n].sent = alerts[n].sent /\ alerts'[n].what = alerts[n].what
                 /\ alerts'[n].logged
<1>1. /\ alerts \in Seq(AlertType) /\ n # 0
  BY DEF FenceTyped
<1>2. DOMAIN alerts = 1..n /\ n \in 1..n
  BY <1>1
<1>3. PICK b \in AlertType : b = alerts[n]
  BY <1>1, <1>2
<1>4. /\ [b EXCEPT !.sent = @ + 1].what = b.what /\ [b EXCEPT !.sent = @ + 1].sent = b.sent + 1
      /\ [b EXCEPT !.logged = TRUE].what = b.what /\ [b EXCEPT !.logged = TRUE].sent = b.sent
      /\ [b EXCEPT !.logged = TRUE].logged = TRUE
  BY DEF AlertType
<1>5. ASSUME alerts' = [alerts EXCEPT ![Len(alerts)].sent = @ + 1]
      PROVE  /\ DOMAIN alerts' = 1..n /\ \A i \in 1..n : i # n => alerts'[i] = alerts[i]
             /\ alerts'[n].sent = alerts[n].sent + 1 /\ alerts'[n].what = alerts[n].what
  <2>1. /\ alerts'[n] = [b EXCEPT !.sent = @ + 1] /\ DOMAIN alerts' = 1..n
        /\ \A i \in 1..n : i # n => alerts'[i] = alerts[i]
    BY <1>1, <1>2, <1>3, <1>5
  <2> QED BY <1>3, <1>4, <2>1
<1>6. ASSUME alerts' = [alerts EXCEPT ![Len(alerts)].logged = TRUE]
      PROVE  /\ DOMAIN alerts' = 1..n /\ \A i \in 1..n : i # n => alerts'[i] = alerts[i]
             /\ alerts'[n].sent = alerts[n].sent /\ alerts'[n].what = alerts[n].what
             /\ alerts'[n].logged
  <2>1. /\ alerts'[n] = [b EXCEPT !.logged = TRUE] /\ DOMAIN alerts' = 1..n
        /\ \A i \in 1..n : i # n => alerts'[i] = alerts[i]
    BY <1>1, <1>2, <1>3, <1>6
  <2> QED BY <1>3, <1>4, <2>1
<1> QED BY <1>2, <1>5, <1>6

\* The alert is sent, then logged, and the job goes on with the next.
LEMMA SeesToAlert == ASSUME FenceInv, CalmInv, Dispatch \/ Log PROVE CalmInv'
<1>1. /\ UNCHANGED <<jobs, queue, stalled, stalls, inside, job, todo, failures, crashes, steady, overtaken>>
      /\ pc \in {"dispatch", "log"} /\ pc' \in {"log", "alert"}
      /\ \/ alerts' = [alerts EXCEPT ![Len(alerts)].sent = @ + 1]
         \/ alerts' = [alerts EXCEPT ![Len(alerts)].logged = TRUE]
  BY DEF Dispatch, Log, bullmq, bounds, past
<1>2. SUFFICES ASSUME Unfailed
               PROVE  (InOrder /\ RedisFollows /\ EndedAnnounced /\ JobAnnounces /\ DealtWith)'
  BY <1>1 DEF CalmInv, Unfailed
<1>3. FenceTyped /\ InOrder /\ RedisFollows /\ EndedAnnounced /\ JobAnnounces /\ DealtWith /\ SentOnce
  BY <1>2 DEF CalmInv, FenceInv
<1>4. /\ TakenUp' = TakenUp /\ InOrder' /\ TakenUp \in 1..Len(jobs) /\ job = TakenUp /\ Steady' = Steady
  BY <1>1, <1>3, OrderStays, TakenFacts DEF Steady
<1>5. PICK n \in Nat : n = Len(alerts)
  BY <1>3 DEF FenceTyped
<1>6. alerts # <<>> /\ DOMAIN alerts = 1..n /\ n \in 1..n
  <2>1. alerts # <<>>
    BY <1>1, <1>3 DEF SentOnce
  <2> QED BY <1>3, <1>5, <2>1, LastAlertRow
<1>7. /\ DOMAIN alerts' = 1..n /\ Len(alerts') = n
      /\ \A i \in DOMAIN alerts : alerts'[i].job = alerts[i].job
      /\ \A j, w : Said(j, w)' <=> Said(j, w)
  BY <1>1, <1>3, <1>5, <1>6, LastAlertSays
<1>8. /\ \A e, m, z : IsIn(e, m, z)' <=> IsIn(e, m, z)
      /\ \A j, w : Asked(j, w)' <=> Asked(j, w)
  BY <1>1 DEF Asked, Crosses, IsIn, EntityOf, PositionOf
<1>9. RedisFollows'
  <2>1. ~Before /\ ~Before'
    BY <1>1 DEF Before
  <2> QED BY <1>1, <1>3, <1>4, <1>8, <2>1 DEF RedisFollows
<1>10. EndedAnnounced'
  BY <1>1, <1>3, <1>4, <1>6, <1>7, <1>8 DEF EndedAnnounced
<1>11. JobAnnounces'
  <2>1. ASSUME NEW w \in Steady' PROVE (Said(job, w)' \/ w \in todo') <=> Asked(job, w)'
    BY <1>1, <1>3, <1>4, <1>7, <1>8 DEF JobAnnounces
  <2> QED BY <1>1, <2>1 DEF JobAnnounces, Before
<1>12. DealtWith'
  <2>1. \A i \in 1..n : (i # n /\ alerts[i].what \in Transitions) => alerts[i].sent = 1 /\ alerts[i].logged
    BY <1>3, <1>5, <1>6 DEF DealtWith
  <2>2. CASE Dispatch
    <3>1. pc = "dispatch" /\ pc' = "log" /\ alerts' = [alerts EXCEPT ![Len(alerts)].sent = @ + 1]
      BY <2>2 DEF Dispatch
    <3>2. /\ \A i \in 1..n : i # n => alerts'[i] = alerts[i]
          /\ alerts'[n].sent = alerts[n].sent + 1
      BY <1>3, <1>5, <1>6, <3>1, LastAlertRow
    <3>3. alerts[n].sent = 0
      BY <1>3, <1>5, <3>1 DEF SentOnce
    <3> QED BY <1>7, <2>1, <3>1, <3>2, <3>3 DEF DealtWith
  <2>3. CASE Log
    <3>1. pc = "log" /\ pc' = "alert" /\ alerts' = [alerts EXCEPT ![Len(alerts)].logged = TRUE]
      BY <2>3 DEF Log
    <3>2. /\ \A i \in 1..n : i # n => alerts'[i] = alerts[i]
          /\ alerts'[n].sent = alerts[n].sent /\ alerts'[n].what = alerts[n].what /\ alerts'[n].logged
      BY <1>3, <1>5, <1>6, <3>1, LastAlertRow
    <3>3. alerts[n].what \in Transitions => alerts[n].sent = 1
      BY <1>3, <1>5, <1>6, <3>1 DEF DealtWith
    <3> QED BY <1>7, <2>1, <3>1, <3>2, <3>3 DEF DealtWith
  <2> QED BY <2>2, <2>3
<1> QED BY <1>4, <1>9, <1>10, <1>11, <1>12

\* The job ends, having announced all it had to, or it writes down an anomaly first.
LEMMA EndsAnnounced ==
    ASSUME FenceInv, steady \subseteq zones, CalmInv, Score \/ Note
    PROVE  CalmInv'
<1>1. /\ UNCHANGED <<jobs, queue, stalled, stalls, inside, failures, crashes, steady, overtaken>>
      /\ pc \in {"alert", "note"} /\ pc' \in {"take", "note"} /\ todo' = {}
      /\ IF pc' = "take" THEN job' = None ELSE job' = job
      /\ pc = "alert" => todo = {}
      /\ \/ alerts' = alerts
         \/ pc = "note" /\ alerts' = [alerts EXCEPT ![Len(alerts)].logged = TRUE]
         \/ pc = "alert" /\ alerts' = NewAlert(<<"ANOMALY">>)
  BY DEF Score, Note, Finished, bullmq, bounds, past
<1>2. SUFFICES ASSUME Unfailed
               PROVE  (InOrder /\ RedisFollows /\ EndedAnnounced /\ JobAnnounces /\ DealtWith)'
  BY <1>1 DEF CalmInv, Unfailed
<1>3. FenceTyped /\ InOrder /\ RedisFollows /\ EndedAnnounced /\ JobAnnounces /\ DealtWith /\ SentOnce
  BY <1>2 DEF CalmInv, FenceInv
<1>4. /\ TakenUp' = TakenUp /\ InOrder' /\ TakenUp \in 1..Len(jobs) /\ job = TakenUp /\ Steady' = Steady
  BY <1>1, <1>3, OrderStays, TakenFacts DEF Steady
<1>5. PICK n \in Nat : n = Len(alerts)
  BY <1>3 DEF FenceTyped
<1>6. DOMAIN alerts = 1..n
  BY <1>3, <1>5 DEF FenceTyped
<1>7. \A t \in Steady : t # <<"ANOMALY">>
  BY <1>3, SteadyFacts, Kinds
<1>8. \A i \in 1..n : alerts[i].what \in Transitions => alerts[i].sent = 1 /\ alerts[i].logged
  BY <1>1, <1>3, <1>6 DEF DealtWith
<1>9. /\ \A i \in DOMAIN alerts' : alerts'[i].job <= TakenUp
      /\ \A i \in DOMAIN alerts' : alerts'[i].what \in Transitions => alerts'[i].sent = 1 /\ alerts'[i].logged
      /\ \A j : \A t \in Steady : Said(j, t)' <=> Said(j, t)
  <2>1. CASE alerts' = alerts
    BY <1>3, <1>6, <1>8, <2>1 DEF Said, EndedAnnounced
  <2>2. CASE pc = "note" /\ alerts' = [alerts EXCEPT ![Len(alerts)].logged = TRUE]
    <3>1. alerts # <<>>
      BY <1>3, <2>2 DEF SentOnce
    <3>2. /\ DOMAIN alerts' = 1..n /\ \A i \in 1..n : alerts'[i].job = alerts[i].job
          /\ \A j, w : Said(j, w)' <=> Said(j, w)
      BY <1>3, <1>6, <2>2, <3>1, LastAlertSays
    <3>3. /\ \A i \in 1..n : i # n => alerts'[i] = alerts[i]
          /\ alerts'[n].sent = alerts[n].sent /\ alerts'[n].what = alerts[n].what /\ alerts'[n].logged
      BY <1>3, <1>5, <2>2, <3>1, LastAlertRow
    <3>4. \A i \in 1..n : alerts'[i].what \in Transitions => alerts'[i].sent = 1 /\ alerts'[i].logged
      BY <1>8, <3>3
    <3>5. \A i \in 1..n : alerts'[i].job <= TakenUp
      BY <1>3, <1>6, <3>2 DEF EndedAnnounced
    <3> QED BY <3>2, <3>4, <3>5
  <2>3. CASE pc = "alert" /\ alerts' = NewAlert(<<"ANOMALY">>)
    <3>1. /\ DOMAIN alerts' = 1..(n + 1) /\ \A i \in 1..n : alerts'[i] = alerts[i]
          /\ alerts'[n + 1].job = job /\ alerts'[n + 1].what = <<"ANOMALY">>
          /\ \A j, w : Said(j, w)' <=> Said(j, w) \/ (j = job /\ w = <<"ANOMALY">>)
      BY <1>3, <1>5, <2>3, NewAlertSays DEF What
    <3>2. \A i \in 1..(n + 1) : i \in 1..n \/ i = n + 1
      BY <1>5
    <3>3. <<"ANOMALY">> \notin Transitions
      BY Kinds
    <3>4. \A i \in 1..(n + 1) : alerts'[i].what \in Transitions => alerts'[i].sent = 1 /\ alerts'[i].logged
      BY <1>8, <3>1, <3>2, <3>3
    <3>5. \A i \in 1..(n + 1) : alerts'[i].job <= TakenUp
      <4>1. \A i \in 1..n : alerts[i].job <= TakenUp
        BY <1>3, <1>6 DEF EndedAnnounced
      <4>2. job <= TakenUp
        BY <1>4
      <4> QED BY <3>1, <3>2, <4>1, <4>2
    <3> QED BY <1>7, <3>1, <3>4, <3>5
  <2> QED BY <1>1, <2>1, <2>2, <2>3
<1>10. /\ \A e, m, z : IsIn(e, m, z)' <=> IsIn(e, m, z)
       /\ \A j, w : Asked(j, w)' <=> Asked(j, w)
  BY <1>1 DEF Asked, Crosses, IsIn, EntityOf, PositionOf
<1>11. \A t \in Steady : Said(job, t) <=> Asked(job, t)
  BY <1>1, <1>3 DEF JobAnnounces
<1>12. RedisFollows'
  <2>1. ~Before /\ ~Before'
    BY <1>1 DEF Before
  <2> QED BY <1>1, <1>3, <1>4, <1>10, <2>1 DEF RedisFollows
<1>13. EndedAnnounced'
  <2>1. ASSUME NEW j \in 1..TakenUp, NEW t \in Steady PROVE Said(j, t)' <=> Asked(j, t)'
    BY <1>3, <1>9, <1>10, <1>11 DEF EndedAnnounced
  <2> QED BY <1>4, <1>9, <2>1 DEF EndedAnnounced
<1>14. JobAnnounces'
  <2>1. ASSUME pc' = "note", NEW t \in Steady' PROVE (Said(job, t)' \/ t \in todo') <=> Asked(job, t)'
    <3>1. job' = job /\ t \in Steady
      BY <1>1, <1>4, <2>1
    <3> QED BY <1>1, <1>9, <1>10, <1>11, <3>1
  <2> QED BY <1>1, <2>1 DEF JobAnnounces, Before
<1>15. DealtWith'
  BY <1>9 DEF DealtWith
<1> QED BY <1>4, <1>12, <1>13, <1>14, <1>15

LEMMA CalmNextInv ==
    ASSUME FenceInv, steady \subseteq zones, CalmInv, [Next]_vars
    PROVE  CalmInv'
<1>1. CASE UNCHANGED vars
  <2>1. UNCHANGED <<jobs, queue, stalled, stalls, inside, alerts, job, pc, containing, leaving, todo,
                    failures, crashes, steady, overtaken>>
    BY <1>1 DEF vars, bullmq, worker, past, bounds
  <2>2. /\ \A e, m, z : IsIn(e, m, z)' <=> IsIn(e, m, z)
        /\ \A j, w : (Said(j, w)' <=> Said(j, w)) /\ (Asked(j, w)' <=> Asked(j, w))
        /\ TakenUp' = TakenUp /\ (Before' <=> Before) /\ (Unfailed' <=> Unfailed) /\ Steady' = Steady
        /\ PositionOf(job)' = PositionOf(job)
    BY <2>1 DEF Said, Asked, Crosses, IsIn, EntityOf, PositionOf, TakenUp, Before, Unfailed, Steady
  <2>3. (InOrder' <=> InOrder) /\ (DealtWith' <=> DealtWith)
    BY <2>1, <2>2 DEF InOrder, DealtWith
  <2>4. RedisFollows => RedisFollows'
    BY <2>1, <2>2 DEF RedisFollows
  <2>5. EndedAnnounced => EndedAnnounced'
    BY <2>1, <2>2 DEF EndedAnnounced
  <2>6. JobAnnounces => JobAnnounces'
    <3>1. \A w : (Said(job, w)' <=> Said(job, w)) /\ (Asked(job, w)' <=> Asked(job, w))
      BY <2>1, <2>2
    <3> QED BY <2>1, <2>2, <3>1 DEF JobAnnounces
  <2> QED BY <2>1, <2>2, <2>3, <2>4, <2>5, <2>6 DEF CalmInv
<1>2. CASE Fail \/ Crash
  <2>1. ~Unfailed' /\ failures' \in Nat /\ crashes' \in Nat
    BY <1>2 DEF Fail, Crash, CalmInv, Unfailed
  <2> QED BY <2>1 DEF CalmInv
<1>3. CASE \E j \in JobIds : Recover(j)
  <2>1. stalled # {} /\ UNCHANGED <<failures, crashes>>
    BY <1>3 DEF Recover, bounds
  <2> QED BY <2>1 DEF CalmInv, Unfailed, InOrder
<1>4. CASE Next
  BY <1>2, <1>3, <1>4, OthersWork, TakesInOrder, FindsCrossings, LooksUp, RemembersWhere,
     AnnouncesCrossing, SeesToAlert, EndsAnnounced DEF Next, ProcessJob
<1> QED BY <1>1, <1>4

\* Unless a job fails or its worker dies, every crossing of a zone that asks for it has
\* become one alert of the job that crosses, sent and logged, and there are no others
\* (processJob, checkZones: the set in Redis is kept up from job to job).
THEOREM CrossingsAnnounced == Spec => []OneAlertPerCrossing
<1>1. ASSUME FenceInv, steady \subseteq zones, CalmInv PROVE OneAlertPerCrossing
  <2> SUFFICES ASSUME Calm, NEW e \in Entities, NEW z \in steady, NEW event \in {"ENTRY", "EXIT"},
                      NEW found, found = AlertsOf(e, z, event)
               PROVE  /\ {alerts[i].job : i \in found}
                            = {j \in DOMAIN jobs : EntityOf(j) = e /\ event \in Trigger[z]
                                                   /\ Crosses(j, z, event)}
                      /\ \A i, k \in found : alerts[i].job = alerts[k].job => i = k
                      /\ \A i \in found : alerts[i].sent = 1 /\ alerts[i].logged
    BY DEF OneAlertPerCrossing
  <2>1. /\ FenceTyped /\ SaidOnce /\ InOrder /\ EndedAnnounced /\ DealtWith
        /\ pc = "take" /\ queue = <<>> /\ overtaken = {}
    BY <1>1 DEF FenceInv, Calm, CalmInv, Unfailed, InOrder
  <2>2. PICK n \in Nat : n = Len(jobs) /\ DOMAIN jobs = 1..n /\ TakenUp = n
    BY <2>1 DEF FenceTyped, TakenUp
  <2>3. job = None /\ \A j \in 1..n : j # None
    BY <2>1, <2>2, JobFacts
  <2>4. <<z, event>> \in Steady /\ <<z, event>> \in Transitions
    BY <1>1, <2>1, SteadyFacts DEF Steady
  <2>5. \A j \in 1..n : Said(j, <<z, event>>) <=> (event \in Trigger[z] /\ Crosses(j, z, event))
    BY <2>1, <2>2, <2>3, <2>4 DEF EndedAnnounced, Asked
  <2>6. \A i \in DOMAIN alerts : alerts[i].job \in 1..n
    <3>1. alerts \in Seq(AlertType)
      BY <2>1 DEF FenceTyped
    <3>2. \A i \in DOMAIN alerts : alerts[i] \in AlertType
      BY <3>1
    <3> QED BY <2>2, <3>2 DEF AlertType
  <2>7. \A i \in found : i \in DOMAIN alerts /\ EntityOf(alerts[i].job) = e /\ alerts[i].what = <<z, event>>
    BY DEF AlertsOf
  <2>8. \A j \in 1..n : (\E i \in found : alerts[i].job = j) <=> (EntityOf(j) = e /\ Said(j, <<z, event>>))
    BY DEF AlertsOf, Said
  <2>9. {alerts[i].job : i \in found}
           = {j \in DOMAIN jobs : EntityOf(j) = e /\ event \in Trigger[z] /\ Crosses(j, z, event)}
    <3>1. ASSUME NEW i \in found
          PROVE  /\ alerts[i].job \in 1..n /\ EntityOf(alerts[i].job) = e
                 /\ event \in Trigger[z] /\ Crosses(alerts[i].job, z, event)
      BY <2>5, <2>6, <2>7, <2>8
    <3>2. ASSUME NEW j \in 1..n, EntityOf(j) = e, event \in Trigger[z], Crosses(j, z, event)
          PROVE  \E i \in found : alerts[i].job = j
      BY <2>5, <2>8, <3>2
    <3> QED BY <2>2, <3>1, <3>2
  <2>10. \A i, k \in found : alerts[i].job = alerts[k].job => i = k
    BY <2>1, <2>7 DEF SaidOnce
  <2>11. \A i \in found : alerts[i].sent = 1 /\ alerts[i].logged
    BY <2>1, <2>4, <2>7 DEF DealtWith
  <2> QED BY <2>9, <2>10, <2>11
<1>2. ASSUME MemoryInv PROVE steady \subseteq zones
  BY <1>2 DEF MemoryInv
<1> QED BY <1>1, <1>2, FenceInitInv, FenceNextInv, MemoryInitInv, MemoryNextInv,
           CalmInitInv, CalmNextInv, PTL DEF Spec
===============================================================================
