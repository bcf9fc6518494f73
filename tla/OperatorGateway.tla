---------------------------- MODULE OperatorGateway ----------------------------
(***************************************************************************)
(* fusion-svc's Socket.io gateway: sockets that are let in by their token, *)
(* the areas of interest they subscribe to, and the entity events the      *)
(* pipeline emits while subscriptions are still on their way.  Each client *)
(* keeps a picture of the entities from the events it receives.            *)
(*                                                                         *)
(* A position is <<lat, lon>>, an area the box of its lowest and highest   *)
(* corners.  A socket's id is never used again; here it is, once all that  *)
(* is known of the old connection is gone.                                 *)
(***************************************************************************)
EXTENDS Access, Integers, Sequences

CONSTANTS
    Sockets,
    Entities,
    Positions,   \* pairs of integers
    Areas,       \* boxes [low |-> position, high |-> position]
    Tokens,      \* the tokens of a handshake
    MaxAsked     \* bound: messages of one client on their way

ASSUME GatewayAssumption ==
    /\ Positions \subseteq Int \X Int
    /\ Areas \subseteq [low: Int \X Int, high: Int \X Int]
    /\ MaxAsked \in Nat

Everything == [area |-> "everything"]   \* an entry of the map that is null
Absent == [area |-> "absent"]           \* no entry
Malformed == [area |-> "malformed"]     \* what BoundingBox.safeParse refuses
Nowhere == <<>>
Gone == <<"lost">>                       \* an evicted track

VARIABLES
    tracks,         \* TrackManager: where each entity is reckoned to be
    subscriptions,  \* the gateway's map
    asked,          \* messages of each client on their way: an area, Everything for unsubscribe, or Malformed
    wants,          \* what each client last asked for and may expect
    shown,          \* where each client shows each entity
    last,           \* history: the last event emitted of each entity
    since           \* history: entities with an event since the socket's entry was last set

vars == <<tracks, subscriptions, asked, wants, shown, last, since>>

Blank == [e \in Entities |-> Nowhere]
NoEvent == [kind |-> "none", at |-> Nowhere]

TypeOK ==
    /\ tracks \in [Entities -> Positions \cup {Nowhere, Gone}]
    /\ subscriptions \in [Sockets -> Areas \cup {Everything, Absent}]
    /\ \A s \in Sockets : \A i \in DOMAIN asked[s] : asked[s][i] \in Areas \cup {Everything, Malformed}
    /\ wants \in [Sockets -> Areas \cup {Everything}]
    /\ shown \in [Sockets -> [Entities -> Positions \cup {Nowhere}]]
    /\ last \in [Entities -> [kind: {"none", "new", "updated", "lost"}, at: Positions \cup {Nowhere}]]
    /\ since \in [Sockets -> SUBSET Entities]

Init ==
    /\ tracks = Blank
    /\ subscriptions = [s \in Sockets |-> Absent]
    /\ asked = [s \in Sockets |-> <<>>]
    /\ wants = [s \in Sockets |-> Everything]
    /\ shown = [s \in Sockets |-> Blank]
    /\ last = [e \in Entities |-> NoEvent]
    /\ since = [s \in Sockets |-> {}]

Connected(s) == subscriptions[s] # Absent

------------------------------------------------------------------------------
(* Sockets.                                                                *)

\* The handshake's middleware lets the socket in, and the connection handler
\* enters it in the map.  The token is never looked at again.
Connect(s) ==
    /\ ~Connected(s)
    /\ \E token \in Tokens : Admission(TRUE, token, "analyst+") = "pass"
    /\ subscriptions' = [subscriptions EXCEPT ![s] = Everything]
    /\ UNCHANGED <<tracks, asked, wants, shown, last, since>>

\* The client sends subscribe:area, with a box or with something else, or
\* unsubscribe.
Ask(s) ==
    /\ Connected(s)
    /\ Len(asked[s]) < MaxAsked
    /\ \E message \in Areas \cup {Everything, Malformed} :
          /\ asked' = [asked EXCEPT ![s] = Append(@, message)]
          /\ wants' = [wants EXCEPT ![s] = IF message = Malformed THEN @ ELSE message]
    /\ UNCHANGED <<tracks, subscriptions, shown, last, since>>

\* Bug: a malformed box ends the subscription the socket had.
EntryAfterReset(entry, message) == IF message = Malformed THEN Everything ELSE message

\* What a message makes of the socket's entry.
EntryAfter(entry, message) == IF message = Malformed THEN entry ELSE message

HandleMessage(s) ==
    /\ Connected(s) /\ asked[s] # <<>>
    /\ LET entry == EntryAfter(subscriptions[s], Head(asked[s]))
       IN  /\ subscriptions' = [subscriptions EXCEPT ![s] = entry]
           /\ since' = [since EXCEPT ![s] = IF entry = subscriptions[s] THEN @ ELSE {}]
    /\ asked' = [asked EXCEPT ![s] = Tail(@)]
    /\ UNCHANGED <<tracks, wants, shown, last>>

\* What was on its way is lost with the connection.
Disconnect(s) ==
    /\ Connected(s)
    /\ subscriptions' = [subscriptions EXCEPT ![s] = Absent]
    /\ asked' = [asked EXCEPT ![s] = <<>>]
    /\ wants' = [wants EXCEPT ![s] = Everything]
    /\ shown' = [shown EXCEPT ![s] = Blank]
    /\ since' = [since EXCEPT ![s] = {}]
    /\ UNCHANGED <<tracks, last>>

------------------------------------------------------------------------------
(* Entity events.                                                          *)

withinBbox(p, box) ==
    /\ p[1] >= box.low[1] /\ p[1] <= box.high[1]
    /\ p[2] >= box.low[2] /\ p[2] <= box.high[2]

\* Whether a socket with this entry is sent an event at p.
InScope(entry, p) == entry # Absent /\ (entry = Everything \/ withinBbox(p, entry))

\* Bug: the loop over the sockets ends at the first one that is out of scope.
EmitUntilOutOfScope(kind, e, p) ==
    /\ last' = [last EXCEPT ![e] = [kind |-> kind, at |-> p]]
    /\ shown' = [s \in Sockets |->
          IF \A other \in Sockets : Connected(other) => InScope(subscriptions[other], p)
          THEN [shown[s] EXCEPT ![e] = IF kind = "lost" THEN Nowhere ELSE p]
          ELSE shown[s]]
    /\ since' = [s \in Sockets |-> since[s] \cup {x \in {e} : Connected(s)}]

\* emitScoped(), and what each client's picture becomes.
emitScoped(kind, e, p) ==
    /\ last' = [last EXCEPT ![e] = [kind |-> kind, at |-> p]]
    /\ shown' = [s \in Sockets |->
          IF InScope(subscriptions[s], p)
          THEN [shown[s] EXCEPT ![e] = IF kind = "lost" THEN Nowhere ELSE p]
          ELSE shown[s]]
    /\ since' = [s \in Sockets |-> since[s] \cup {x \in {e} : Connected(s)}]

Silent == UNCHANGED <<last, shown, since>>

\* An observation moves a track, or starts one.  The clients hear of it, unless
\* the database failed first (see FusionPipeline).
Observe(e) ==
    /\ tracks[e] # Gone
    /\ \E p \in Positions :
          /\ tracks' = [tracks EXCEPT ![e] = p]
          /\ \/ last[e] = NoEvent /\ emitScoped("new", e, p)
             \/ emitScoped("updated", e, p)
             \/ Silent
    /\ UNCHANGED <<subscriptions, asked, wants>>

\* A stale track is evicted: its loss is told at the last position of the track.
Evict(e) ==
    /\ tracks[e] \notin {Nowhere, Gone}
    /\ tracks' = [tracks EXCEPT ![e] = Gone]
    /\ \/ emitScoped("lost", e, tracks[e])
       \/ Silent
    /\ UNCHANGED <<subscriptions, asked, wants>>

------------------------------------------------------------------------------
Next ==
    \/ \E s \in Sockets : Connect(s) \/ Ask(s) \/ HandleMessage(s) \/ Disconnect(s)
    \/ \E e \in Entities : Observe(e) \/ Evict(e)

Spec == Init /\ [][Next]_vars

------------------------------------------------------------------------------
(* Properties.                                                             *)

Truth(e) == IF last[e].kind = "lost" THEN Nowhere ELSE last[e].at

\* A picture is wrong of an entity only if the entity left the area, or was not
\* heard of since the area was set: a client shows an entity elsewhere than the
\* gateway last told, or shows one that was announced lost, only when that
\* news lay outside the area the gateway holds for it (gateway.ts:91: nobody
\* tells it that the entity went) or came before the area was set.
PictureTrueInside ==
    \A s \in Sockets, e \in Entities :
        shown[s][e] # Truth(e) =>
            e \notin since[s] \/ ~InScope(subscriptions[s], last[e].at)

\* A client's picture changes by an event outside the area it asked for only
\* while its request is still on its way: neither a malformed request nor one
\* from before a reconnect widens or narrows what it is sent.
OnlyWhatIsAskedFor ==
    [][\A s \in Sockets, e \in Entities :
          Connected(s) /\ shown'[s][e] # shown[s][e] /\ subscriptions'[s] # Absent =>
              \/ InScope(wants[s], last'[e].at)
              \/ \E i \in DOMAIN asked[s] : asked[s][i] # Malformed]_vars
===============================================================================
