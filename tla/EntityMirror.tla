---------------------------- MODULE EntityMirror ----------------------------
(***************************************************************************)
(* What a Tactical Edge Node promises of its mirror of the entity topic:   *)
(* after the first delta it takes from a partition it takes every later    *)
(* one, in order, each of them once, and the mirror shows for an entity    *)
(* the last delta taken.  Which delta is the first is left open.           *)
(*                                                                         *)
(* A node that has lost its place in a partition may go on further down,   *)
(* but never before the place it lost.  It loses a place in one way only:  *)
(* it is cut off while it runs, and when it rejoins the broker has         *)
(* forgotten where its group stood.  A process that starts knows its       *)
(* places, for it has stored them.                                         *)
(*                                                                         *)
(* A delta is known by its partition and offset, and offsets start at 1.   *)
(***************************************************************************)
EXTENDS Naturals, Sequences

CONSTANTS Partitions, Entities, PartitionOf

VARIABLES
    log,     \* the entity topic: whose delta each offset of a partition is
    cursor,  \* the last delta taken from a partition, 0 before the first
    view,    \* the delta the mirror shows of an entity, 0 for none
    lost,    \* the partitions in which the node has lost its place
    node,    \* the node is down, connected, or running without the broker
    known    \* the partitions whose place the broker remembers for the group

vars == <<log, cursor, view, lost, node, known>>

Init ==
    /\ log = [p \in Partitions |-> <<>>]
    /\ cursor = [p \in Partitions |-> 0]
    /\ view = [e \in Entities |-> 0]
    /\ lost = {}
    /\ node = "down"
    /\ known = {}

Upserted(e) ==
    /\ log' = [log EXCEPT ![PartitionOf[e]] = Append(@, e)]
    /\ UNCHANGED <<cursor, view, lost, node, known>>

\* Row and cursor are written one after the other, the row first; what is taken
\* again because the cursor was not written shows the same.
Takes(p, o) ==
    /\ node = "online"
    /\ view' = [view EXCEPT ![log[p][o]] = o]
    /\ \/ cursor' = [cursor EXCEPT ![p] = o] /\ lost' = lost \ {p}
       \/ UNCHANGED <<cursor, lost>>
    /\ UNCHANGED <<log, node, known>>

\* The first delta of a partition.
Join(p, o) == cursor[p] = 0 /\ Takes(p, o)

Take(p) ==
    /\ cursor[p] > 0
    /\ cursor[p] < Len(log[p])
    /\ Takes(p, cursor[p] + 1)

\* The deltas between the place lost and o are missed.
Jump(p, o) ==
    /\ p \in lost
    /\ cursor[p] < o
    /\ Takes(p, o)

\* The broker learns how far the group is.
Commit(p) ==
    /\ node = "online"
    /\ cursor[p] > 0
    /\ known' = known \cup {p}
    /\ UNCHANGED <<log, cursor, view, lost, node>>

\* While nobody of the group is connected the broker may forget.
Forget ==
    /\ node # "online"
    /\ known' = {}
    /\ UNCHANGED <<log, cursor, view, lost, node>>

\* A process that starts goes on where its store says.
Start ==
    /\ node = "down"
    /\ node' = "online"
    /\ UNCHANGED <<log, cursor, view, lost, known>>

\* The running node goes on where the broker says, which may be beyond its place only
\* where the broker has forgotten.
Rejoin ==
    /\ node = "offline"
    /\ node' = "online"
    /\ lost' \subseteq {p \in Partitions \ known : cursor[p] > 0}
    /\ UNCHANGED <<log, cursor, view, known>>

\* The process ends, or is cut off from the broker.
Leave ==
    /\ \/ node # "down" /\ node' = "down"
       \/ node = "online" /\ node' = "offline"
    /\ lost' = {}
    /\ UNCHANGED <<log, cursor, view, known>>

Next ==
    \/ \E e \in Entities : Upserted(e)
    \/ \E p \in Partitions :
          \/ Take(p)
          \/ \E o \in 1..Len(log[p]) : Join(p, o) \/ Jump(p, o)
          \/ Commit(p)
    \/ Forget \/ Start \/ Rejoin \/ Leave

Spec == Init /\ [][Next]_vars
=============================================================================
