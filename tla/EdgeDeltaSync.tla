---------------------------- MODULE EdgeDeltaSync ----------------------------
(***************************************************************************)
(* edge-sync-svc on a Tactical Edge Node: startDeltaSync consumes the      *)
(* entity topic and keeps, in SQLite, a mirror of the entities and the     *)
(* last offset applied of each partition.  Every delivery is compared with *)
(* that offset first.  Mirror and offset are written by two statements.    *)
(*                                                                         *)
(* The store survives a crash.  What the broker keeps for the consumer     *)
(* group need not: the offsets of a group that has been away too long      *)
(* expire.  A consumer that joins (again) without a committed offset       *)
(* starts at the end of the partition, since it subscribes with            *)
(* fromBeginning: false.  At a process start the node's own offset is      *)
(* sought right after the join, before anything is delivered.              *)
(*                                                                         *)
(* Offsets start at 1, 0 stands for none.  A delta is known by partition   *)
(* and offset; a null entity is a row like any other.                      *)
(***************************************************************************)
EXTENDS Naturals, Sequences

CONSTANTS
    Partitions,      \* the partitions of the entity topic
    Entities,
    PartitionOf,     \* deltas are keyed by entity
    None,
    Early,           \* how far before the offset sought a delivery may start
    MaxLog,          \* bound: deltas per partition
    MaxCrashes,      \* bound: crashes of the node, and statements that throw
    MaxDisconnects,  \* bound: times the running node loses the broker
    MaxExpiries      \* bound: expiries of the group's offsets

ASSUME EdgeAssumption ==
    /\ PartitionOf \in [Entities -> Partitions]
    /\ None \notin Partitions
    /\ {Early, MaxLog, MaxCrashes, MaxDisconnects, MaxExpiries} \subseteq Nat

VARIABLES
    log,        \* the entity topic: whose delta each offset of a partition is
    committed,  \* the broker's offset of the consumer group
    stored,     \* SQLite: sync_offsets
    mirror,     \* SQLite: entities_mirror, the delta each row was written from
    node,       \* the process is down, connected, or running without the broker
    position,   \* the next offset the consumer delivers
    resolved,   \* the last offset the handler returned from since the join, 0 for none
    applying,   \* the partition whose handler is between its two statements
    crashes, disconnects, expiries

store == <<stored, mirror>>
bounds == <<crashes, disconnects, expiries>>
vars == <<log, committed, store, node, position, resolved, applying, bounds>>

TypeOK ==
    /\ log \in [Partitions -> Seq(Entities)]
    /\ \A p \in Partitions : Len(log[p]) <= MaxLog
    /\ committed \in [Partitions -> 0..MaxLog]
    /\ stored \in [Partitions -> 0..MaxLog]
    /\ mirror \in [Entities -> 0..MaxLog]
    /\ node \in {"down", "online", "offline"}
    /\ position \in [Partitions -> 1..(MaxLog + 1)]
    /\ resolved \in [Partitions -> 0..MaxLog]
    /\ applying \in Partitions \cup {None}
    /\ crashes \in 0..MaxCrashes
    /\ disconnects \in 0..MaxDisconnects
    /\ expiries \in 0..MaxExpiries

Init ==
    /\ log = [p \in Partitions |-> <<>>]
    /\ committed = [p \in Partitions |-> 0]
    /\ stored = [p \in Partitions |-> 0]
    /\ mirror = [e \in Entities |-> 0]
    /\ node = "down"
    /\ position = [p \in Partitions |-> 1]
    /\ resolved = [p \in Partitions |-> 0]
    /\ applying = None
    /\ crashes = 0
    /\ disconnects = 0
    /\ expiries = 0

------------------------------------------------------------------------------
\* fusion-svc publishes a delta.
Upserted(e) ==
    /\ Len(log[PartitionOf[e]]) < MaxLog
    /\ log' = [log EXCEPT ![PartitionOf[e]] = Append(@, e)]
    /\ UNCHANGED <<committed, store, node, position, resolved, applying, bounds>>

\* Where a consumer that joins the group starts.
Resume(p) == IF committed[p] = 0 THEN Len(log[p]) + 1 ELSE committed[p] + 1

\* Bug: no seek; the node goes on where the broker has its group.
StartWithoutSeek ==
    /\ node = "down"
    /\ node' = "online"
    /\ position' = [p \in Partitions |-> Resume(p)]
    /\ resolved' = [p \in Partitions |-> 0]
    /\ UNCHANGED <<log, committed, store, applying, bounds>>

\* startDeltaSync: run(), and seek() on every partition with an offset of its own.
Start ==
    /\ node = "down"
    /\ node' = "online"
    /\ \E back \in 0..Early :
          position' = [p \in Partitions |->
             IF stored[p] = 0 THEN Resume(p)
             ELSE IF stored[p] >= back THEN stored[p] + 1 - back ELSE 1]
    /\ resolved' = [p \in Partitions |-> 0]
    /\ UNCHANGED <<log, committed, store, applying, bounds>>

Delivered(p) ==
    /\ node = "online"
    /\ applying = None
    /\ position[p] <= Len(log[p])

AlreadyApplied(p) == stored[p] # 0 /\ position[p] <= stored[p]

\* Bug: a delta that was applied already is refused, and so delivered for ever.
SkipRefused(p) ==
    /\ Delivered(p)
    /\ AlreadyApplied(p)
    /\ UNCHANGED vars

\* eachMessage returns early.
Skip(p) ==
    /\ Delivered(p)
    /\ AlreadyApplied(p)
    /\ resolved' = [resolved EXCEPT ![p] = position[p]]
    /\ position' = [position EXCEPT ![p] = @ + 1]
    /\ UNCHANGED <<log, committed, store, node, applying, bounds>>

\* Bug: the delivery is not compared with the offset.
ApplyAlways(p) ==
    /\ Delivered(p)
    /\ mirror' = [mirror EXCEPT ![log[p][position[p]]] = position[p]]
    /\ applying' = p
    /\ UNCHANGED <<log, committed, stored, node, position, resolved, bounds>>

\* eachMessage: applyEntityUpsert...
Apply(p) ==
    /\ Delivered(p)
    /\ ~AlreadyApplied(p)
    /\ mirror' = [mirror EXCEPT ![log[p][position[p]]] = position[p]]
    /\ applying' = p
    /\ UNCHANGED <<log, committed, stored, node, position, resolved, bounds>>

\* ...then setOffset.
SetOffset(p) ==
    /\ applying = p
    /\ stored' = [stored EXCEPT ![p] = position[p]]
    /\ resolved' = [resolved EXCEPT ![p] = position[p]]
    /\ position' = [position EXCEPT ![p] = @ + 1]
    /\ applying' = None
    /\ UNCHANGED <<log, committed, mirror, node, bounds>>

\* kafkajs commits what the handler has returned from.
AutoCommit(p) ==
    /\ node = "online"
    /\ resolved[p] \notin {0, committed[p]}
    /\ committed' = [committed EXCEPT ![p] = resolved[p]]
    /\ UNCHANGED <<log, store, node, position, resolved, applying, bounds>>

\* The node dies, also between the two statements of the handler.
Crash ==
    /\ node # "down"
    /\ crashes < MaxCrashes
    /\ crashes' = crashes + 1
    /\ node' = "down"
    /\ applying' = None
    /\ UNCHANGED <<log, committed, store, position, resolved, disconnects, expiries>>

\* SQLite refuses the second statement: the row stays, the handler throws, and
\* kafkajs delivers the message again.
SetOffsetThrows(p) ==
    /\ applying = p
    /\ crashes < MaxCrashes
    /\ crashes' = crashes + 1
    /\ applying' = None
    /\ UNCHANGED <<log, committed, store, node, position, resolved, disconnects, expiries>>

\* The running node loses the broker and its place in the group.
Disconnect ==
    /\ node = "online"
    /\ applying = None
    /\ disconnects < MaxDisconnects
    /\ disconnects' = disconnects + 1
    /\ node' = "offline"
    /\ UNCHANGED <<log, committed, store, position, resolved, applying, crashes, expiries>>

\* kafkajs joins the group again by itself; startDeltaSync's seek is not repeated.
Rejoin ==
    /\ node = "offline"
    /\ node' = "online"
    /\ position' = [p \in Partitions |-> Resume(p)]
    /\ resolved' = [p \in Partitions |-> 0]
    /\ UNCHANGED <<log, committed, store, applying, bounds>>

\* The group is empty and the broker forgets its offsets.
Expire ==
    /\ node # "online"
    /\ expiries < MaxExpiries
    /\ expiries' = expiries + 1
    /\ committed' = [p \in Partitions |-> 0]
    /\ UNCHANGED <<log, store, node, position, resolved, applying, crashes, disconnects>>

EachMessage(p) == Skip(p) \/ Apply(p) \/ SetOffset(p)

Next ==
    \/ \E e \in Entities : Upserted(e)
    \/ \E p \in Partitions : EachMessage(p) \/ SetOffsetThrows(p) \/ AutoCommit(p)
    \/ Start \/ Crash \/ Disconnect \/ Rejoin \/ Expire

\* The process is restarted, reconnects, and handles what is delivered.
Fairness ==
    /\ WF_vars(Start) /\ WF_vars(Rejoin)
    /\ \A p \in Partitions : WF_vars(EachMessage(p))

Spec == Init /\ [][Next]_vars /\ Fairness

------------------------------------------------------------------------------
\* The consumer stands beyond what the node has applied.
PlaceLost == {p \in Partitions :
                node = "online" /\ stored[p] > 0 /\ position[p] > stored[p] + 1}

\* The partitions of which the broker has an offset of the group.
Remembered == {p \in Partitions : committed[p] # 0}

Mirror == INSTANCE EntityMirror WITH
    cursor <- stored, view <- mirror, lost <- PlaceLost, known <- Remembered

\* The mirror is a replay of the topic: no delta after the first is left out or
\* taken out of order, and a delta applied again shows the same (deltaSync.ts
\* calls this idempotent by construction).  Deltas are missed only by a running node
\* that rejoins a group whose offset the broker has forgotten: a node that starts seeks
\* what it has stored (line 57), and one that rejoins a group with an offset does not
\* stand beyond its own.
ReplaysTheTopic == Mirror!Spec

\* Whatever is delivered again, after a crash or a rejoin, the stored offsets never
\* go back, nor do the rows of the mirror that they vouch for: only a row written
\* from beyond a lost place can.
NeverGoesBack ==
    [][/\ \A p \in Partitions : stored'[p] >= stored[p]
       /\ \A e \in Entities :
             mirror[e] <= stored[PartitionOf[e]] + 1 => mirror'[e] >= mirror[e]]_vars

\* Once a node follows a partition it catches up with it, however often it crashes
\* in between, unless it loses its place.
CatchesUp ==
    \A p \in Partitions : \A o \in 1..MaxLog :
        (stored[p] > 0 /\ o <= Len(log[p])) ~> (stored[p] >= o \/ p \in PlaceLost)
==============================================================================
