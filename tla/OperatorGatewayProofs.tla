------------------------- MODULE OperatorGatewayProofs -------------------------
(***************************************************************************)
(* A client's picture is wrong only of what left its area, and follows what *)
(* the client asked for: for any sockets, entities, positions and areas,   *)
(* and any number of messages in transit.                                  *)
(***************************************************************************)
EXTENDS OperatorGateway, TLAPS

\* A socket that is not connected has heard of nothing: what a connection that
\* begins is entered with cannot be contradicted.
Unheard == \A s \in Sockets : ~Connected(s) => since[s] = {}

\* The maps have an entry for every socket and entity.
Shape ==
    /\ DOMAIN shown = Sockets
    /\ \A s \in Sockets : DOMAIN shown[s] = Entities
    /\ DOMAIN last = Entities
    /\ DOMAIN since = Sockets
    /\ DOMAIN subscriptions = Sockets

Inv == Shape /\ Unheard /\ PictureTrueInside

\* Before anything was emitted every picture is blank, and so is the truth.
LEMMA InitInv == Init => Inv
BY DEF Init, Inv, Shape, Unheard, PictureTrueInside, Truth, Blank, NoEvent, Connected

\* emitScoped() gives every socket in scope the new truth, and leaves out only
\* those for which it lies outside their area.
LEMMA EmitInv ==
    ASSUME NEW e \in Entities, NEW p, NEW kind, Inv, emitScoped(kind, e, p), UNCHANGED subscriptions
    PROVE  Inv'
<1>1. Shape'
  BY DEF Inv, Shape, emitScoped
<1>2. Unheard'
  BY DEF Inv, Shape, Unheard, emitScoped, Connected
<1>3. PictureTrueInside'
  <2> SUFFICES ASSUME NEW s \in Sockets, NEW f \in Entities, shown'[s][f] # Truth(f)', f \in since'[s]
               PROVE  ~InScope(subscriptions[s], last'[f].at)
    BY DEF PictureTrueInside, InScope, withinBbox
  <2>1. CASE f = e
    <3>1. last'[f] = [kind |-> kind, at |-> p]
      BY <2>1 DEF Inv, Shape, emitScoped
    <3>2. InScope(subscriptions[s], p) => shown'[s][f] = IF kind = "lost" THEN Nowhere ELSE p
      BY <2>1 DEF Inv, Shape, emitScoped
    <3> QED BY <3>1, <3>2 DEF Truth
  <2>2. CASE f # e
    <3>1. last'[f] = last[f] /\ shown'[s][f] = shown[s][f] /\ f \in since[s]
      BY <2>2 DEF Inv, Shape, emitScoped
    <3> QED BY <3>1 DEF Inv, PictureTrueInside, Truth
  <2> QED BY <2>1, <2>2
<1> QED BY <1>1, <1>2, <1>3 DEF Inv

\* Steps that tell nobody anything and change no entry keep the pictures as they
\* are.
LEMMA QuietInv ==
    ASSUME Inv, UNCHANGED <<subscriptions, shown, last, since>>
    PROVE  Inv'
BY DEF Inv, Shape, Unheard, PictureTrueInside, Truth, InScope, withinBbox, Connected

\* Every step keeps the invariant.
LEMMA NextInv == Inv /\ [Next]_vars => Inv'
<1> SUFFICES ASSUME Inv, [Next]_vars PROVE Inv'
  OBVIOUS
<1>1. ASSUME NEW s \in Sockets, Connect(s) PROVE Inv'
  <2>1. Shape' /\ Unheard'
    BY <1>1 DEF Inv, Shape, Unheard, Connect, Connected
  <2>2. PictureTrueInside'
    <3> SUFFICES ASSUME NEW t \in Sockets, NEW e \in Entities, shown[t][e] # Truth(e), e \in since[t]
                 PROVE  ~InScope(subscriptions'[t], last[e].at)
      BY <1>1 DEF PictureTrueInside, Connect, Truth, InScope, withinBbox
    <3>1. t # s
      BY <1>1 DEF Inv, Unheard, Connect
    <3>2. subscriptions'[t] = subscriptions[t]
      BY <1>1, <3>1 DEF Inv, Shape, Connect
    <3> QED BY <3>2 DEF Inv, PictureTrueInside
  <2> QED BY <2>1, <2>2 DEF Inv
<1>2. ASSUME NEW s \in Sockets, Ask(s) PROVE Inv'
  BY <1>2, QuietInv DEF Ask
<1>3. ASSUME NEW s \in Sockets, HandleMessage(s) PROVE Inv'
  <2> DEFINE entry == EntryAfter(subscriptions[s], Head(asked[s]))
  <2>1. /\ subscriptions' = [subscriptions EXCEPT ![s] = entry]
        /\ since' = [since EXCEPT ![s] = IF entry = subscriptions[s] THEN @ ELSE {}]
        /\ UNCHANGED <<shown, last>>
        /\ Connected(s)
    BY <1>3 DEF HandleMessage
  <2> HIDE DEF entry
  <2>2. Shape'
    BY <2>1 DEF Inv, Shape
  <2>3. \A t \in Sockets : \/ subscriptions'[t] = subscriptions[t] /\ since'[t] = since[t]
                           \/ since'[t] = {}
    BY <2>1 DEF Inv, Shape
  <2>4. Unheard'
    BY <2>3 DEF Inv, Unheard, Connected
  <2>5. PictureTrueInside'
    BY <2>1, <2>3 DEF Inv, PictureTrueInside, Truth, InScope, withinBbox
  <2> QED BY <2>2, <2>4, <2>5 DEF Inv
<1>4. ASSUME NEW s \in Sockets, Disconnect(s) PROVE Inv'
  <2>1. Shape'
    BY <1>4 DEF Inv, Shape, Disconnect, Blank
  <2>2. \A t \in Sockets : \/ t # s /\ subscriptions'[t] = subscriptions[t] /\ since'[t] = since[t]
                              /\ shown'[t] = shown[t]
                           \/ since'[t] = {}
    BY <1>4 DEF Inv, Shape, Disconnect
  <2>3. last' = last
    BY <1>4 DEF Disconnect
  <2>4. Unheard'
    BY <2>2 DEF Inv, Unheard, Connected
  <2>5. PictureTrueInside'
    BY <2>2, <2>3 DEF Inv, PictureTrueInside, Truth, InScope, withinBbox
  <2> QED BY <2>1, <2>4, <2>5 DEF Inv
<1>5. ASSUME NEW e \in Entities, Observe(e) PROVE Inv'
  <2>1. CASE Silent
    BY <1>5, <2>1, QuietInv DEF Observe, Silent
  <2>2. CASE ~Silent
    <3>1. PICK p \in Positions : emitScoped("new", e, p) \/ emitScoped("updated", e, p)
      BY <1>5, <2>2 DEF Observe
    <3>2. UNCHANGED subscriptions
      BY <1>5 DEF Observe
    <3> QED BY <3>1, <3>2, EmitInv
  <2> QED BY <2>1, <2>2
<1>6. ASSUME NEW e \in Entities, Evict(e) PROVE Inv'
  <2>1. CASE Silent
    BY <1>6, <2>1, QuietInv DEF Evict, Silent
  <2>2. CASE emitScoped("lost", e, tracks[e])
    BY <1>6, <2>2, EmitInv DEF Evict
  <2> QED BY <1>6, <2>1, <2>2 DEF Evict
<1>7. CASE UNCHANGED vars
  BY <1>7, QuietInv DEF vars
<1> QED BY <1>1, <1>2, <1>3, <1>4, <1>5, <1>6, <1>7 DEF Next

\* A client shows an entity elsewhere than it was last told of only if that was
\* outside the area the gateway holds for it, or before the area was set
\* (gateway.ts:91).
THEOREM PicturesTrue == Spec => []PictureTrueInside
<1>1. Inv => PictureTrueInside
  BY DEF Inv
<1> QED BY <1>1, InitInv, NextInv, PTL DEF Spec

------------------------------------------------------------------------------
Messages == Areas \cup {Everything, Malformed}

\* The maps of the subscriptions, and of what is on its way.
Asking ==
    /\ subscriptions \in [Sockets -> Areas \cup {Everything, Absent}]
    /\ asked \in [Sockets -> Seq(Messages)]
    /\ wants \in [Sockets -> Areas \cup {Everything}]
    /\ \A s \in Sockets : ~Connected(s) => asked[s] = <<>> /\ wants[s] = Everything

\* The last well-formed message on its way is what the client wants.
LastIsWanted(s) ==
    \A i \in DOMAIN asked[s] :
        (asked[s][i] # Malformed /\ \A j \in DOMAIN asked[s] : j > i => asked[s][j] = Malformed)
        => asked[s][i] = wants[s]

\* When none is on its way, the gateway's entry is.
NothingPending(s) == \A i \in DOMAIN asked[s] : asked[s][i] = Malformed
EntryIsWanted(s) == Connected(s) /\ NothingPending(s) => subscriptions[s] = wants[s]

\* Inductive: EntryIsWanted alone does not say what the entry becomes when the last
\* well-formed message is handled.
AskInv == Inv /\ Asking /\ \A s \in Sockets : LastIsWanted(s) /\ EntryIsWanted(s)

\* At first no socket is connected.
LEMMA AskInit == Init => AskInv
<1> SUFFICES ASSUME Init PROVE Asking /\ \A s \in Sockets : LastIsWanted(s) /\ EntryIsWanted(s)
  BY InitInv DEF AskInv
<1>1. Asking
  BY DEF Init, Asking
<1> QED BY <1>1 DEF Init, LastIsWanted, EntryIsWanted, Connected

\* No message makes an entry that is no entry.
LEMMA MessagesDiffer == Absent \notin Messages /\ Malformed \notin Areas \cup {Everything}
<1>1. ASSUME NEW area \in Areas PROVE area # Absent /\ area # Malformed
  <2>1. area \in [low: Int \X Int, high: Int \X Int]
    BY GatewayAssumption DEF GatewayAssumption
  <2>2. DOMAIN area = {"low", "high"}
    BY <2>1
  <2>3. DOMAIN Absent = {"area"} /\ DOMAIN Malformed = {"area"}
    BY DEF Absent, Malformed
  <2>4. {"low", "high"} # {"area"}
    OBVIOUS
  <2> QED BY <2>2, <2>3, <2>4
<1>2. Everything # Absent /\ Malformed # Absent /\ Everything # Malformed
  BY DEF Everything, Absent, Malformed
<1> QED BY <1>1, <1>2 DEF Messages

\* A socket whose entry, messages and wish stay as they are.
LEMMA SocketKept ==
    ASSUME NEW s \in Sockets, subscriptions'[s] = subscriptions[s], asked'[s] = asked[s],
           wants'[s] = wants[s], LastIsWanted(s), EntryIsWanted(s)
    PROVE  LastIsWanted(s)' /\ EntryIsWanted(s)'
BY DEF LastIsWanted, EntryIsWanted, NothingPending, Connected

\* A client that asks becomes the last to have asked.
LEMMA AskKeeps ==
    ASSUME Asking, NEW s \in Sockets, Ask(s), \A t \in Sockets : LastIsWanted(t) /\ EntryIsWanted(t)
    PROVE  Asking' /\ \A t \in Sockets : LastIsWanted(t)' /\ EntryIsWanted(t)'
<1>1. PICK message \in Messages :
          /\ asked' = [asked EXCEPT ![s] = Append(asked[s], message)]
          /\ wants' = [wants EXCEPT ![s] = IF message = Malformed THEN wants[s] ELSE message]
  BY DEF Ask, Messages
<1>2. Connected(s) /\ UNCHANGED subscriptions
  BY DEF Ask
<1>3. /\ asked[s] \in Seq(Messages) /\ asked'[s] = Append(asked[s], message)
      /\ wants'[s] = IF message = Malformed THEN wants[s] ELSE message
      /\ \A t \in Sockets \ {s} : asked'[t] = asked[t] /\ wants'[t] = wants[t]
  BY <1>1 DEF Asking
<1>4. Asking'
  <2>1. Append(asked[s], message) \in Seq(Messages)
    BY <1>3
  <2>2. asked' \in [Sockets -> Seq(Messages)]
    BY <1>1, <2>1 DEF Asking
  <2>3. wants' \in [Sockets -> Areas \cup {Everything}]
    BY <1>1 DEF Asking, Messages
  <2> QED BY <1>2, <1>3, <2>2, <2>3 DEF Asking, Connected
<1>5. /\ Len(asked[s]) \in Nat /\ DOMAIN asked[s] = 1..Len(asked[s])
      /\ DOMAIN asked'[s] = 1..(Len(asked[s]) + 1)
      /\ \A i \in 1..Len(asked[s]) : asked'[s][i] = asked[s][i]
      /\ asked'[s][Len(asked[s]) + 1] = message
  BY <1>3
<1>6. LastIsWanted(s)'
  <2> SUFFICES ASSUME NEW i \in DOMAIN asked'[s], asked'[s][i] # Malformed,
                      \A j \in DOMAIN asked'[s] : j > i => asked'[s][j] = Malformed
               PROVE  asked'[s][i] = wants'[s]
    BY DEF LastIsWanted
  <2>1. CASE i = Len(asked[s]) + 1
    BY <1>3, <1>5, <2>1
  <2>2. CASE i # Len(asked[s]) + 1
    <3>1. /\ i \in DOMAIN asked[s] /\ asked[s][i] = asked'[s][i] /\ message = Malformed
          /\ \A j \in DOMAIN asked[s] : j > i => asked[s][j] = Malformed
      BY <1>5, <2>2
    <3> QED BY <1>3, <3>1 DEF LastIsWanted
  <2> QED BY <2>1, <2>2
<1>7. EntryIsWanted(s)'
  <2>1. NothingPending(s)' => NothingPending(s) /\ message = Malformed
    BY <1>5 DEF NothingPending
  <2> QED BY <1>2, <1>3, <2>1 DEF EntryIsWanted
<1>8. ASSUME NEW t \in Sockets, t # s PROVE LastIsWanted(t)' /\ EntryIsWanted(t)'
  BY <1>2, <1>3, <1>8, SocketKept
<1> QED BY <1>4, <1>6, <1>7, <1>8

\* The last well-formed message, when it is handled, is the new entry.
LEMMA HandleKeeps ==
    ASSUME Asking, NEW s \in Sockets, HandleMessage(s),
           \A t \in Sockets : LastIsWanted(t) /\ EntryIsWanted(t)
    PROVE  Asking' /\ \A t \in Sockets : LastIsWanted(t)' /\ EntryIsWanted(t)'
<1> DEFINE message == Head(asked[s])
<1> DEFINE entry == EntryAfter(subscriptions[s], message)
<1>1. /\ subscriptions' = [subscriptions EXCEPT ![s] = entry]
      /\ asked' = [asked EXCEPT ![s] = Tail(asked[s])]
      /\ UNCHANGED wants
      /\ Connected(s) /\ asked[s] # <<>> /\ asked[s] \in Seq(Messages)
  BY DEF HandleMessage, Asking
<1>2. /\ Len(asked[s]) \in Nat \ {0} /\ DOMAIN asked[s] = 1..Len(asked[s])
      /\ message = asked[s][1] /\ message \in Messages /\ Tail(asked[s]) \in Seq(Messages)
      /\ DOMAIN Tail(asked[s]) = 1..(Len(asked[s]) - 1)
      /\ \A i \in 1..(Len(asked[s]) - 1) : Tail(asked[s])[i] = asked[s][i + 1]
  BY <1>1
<1>3. entry \in Areas \cup {Everything}
  BY <1>1, <1>2 DEF EntryAfter, Messages, Asking, Connected
<1> HIDE DEF entry
<1>4. /\ subscriptions'[s] = entry /\ asked'[s] = Tail(asked[s]) /\ wants' = wants
      /\ \A t \in Sockets \ {s} : subscriptions'[t] = subscriptions[t] /\ asked'[t] = asked[t]
  BY <1>1 DEF Asking
<1>5. Asking'
  <2>1. /\ subscriptions' \in [Sockets -> Areas \cup {Everything, Absent}]
        /\ asked' \in [Sockets -> Seq(Messages)]
    BY <1>1, <1>2, <1>3 DEF Asking
  <2>2. subscriptions'[s] # Absent
    BY <1>3, <1>4, MessagesDiffer DEF Messages
  <2> QED BY <1>4, <2>1, <2>2 DEF Asking, Connected
<1>6. LastIsWanted(s)'
  <2> SUFFICES ASSUME NEW i \in DOMAIN asked'[s], asked'[s][i] # Malformed,
                      \A j \in DOMAIN asked'[s] : j > i => asked'[s][j] = Malformed
               PROVE  asked'[s][i] = wants[s]
    BY <1>4 DEF LastIsWanted
  <2>1. /\ i + 1 \in DOMAIN asked[s] /\ asked[s][i + 1] = asked'[s][i]
        /\ \A j \in DOMAIN asked[s] : j > i + 1 => asked[s][j] = Malformed
    <3>1. i \in 1..(Len(asked[s]) - 1)
      BY <1>2, <1>4
    <3>2. ASSUME NEW j \in DOMAIN asked[s], j > i + 1 PROVE asked[s][j] = Malformed
      <4>1. j - 1 \in 1..(Len(asked[s]) - 1) /\ j - 1 > i /\ (j - 1) + 1 = j
        BY <1>2, <3>1, <3>2
      <4>2. asked'[s][j - 1] = Malformed /\ asked'[s][j - 1] = asked[s][j]
        BY <1>2, <1>4, <4>1
      <4> QED BY <4>2
    <3> QED BY <1>2, <1>4, <3>1, <3>2
  <2> QED BY <2>1 DEF LastIsWanted
<1>7. EntryIsWanted(s)'
  <2> SUFFICES ASSUME NothingPending(s)' PROVE entry = wants[s]
    BY <1>4 DEF EntryIsWanted
  <2>1. \A j \in DOMAIN asked[s] : j > 1 => asked[s][j] = Malformed
    <3> SUFFICES ASSUME NEW j \in DOMAIN asked[s], j > 1 PROVE asked[s][j] = Malformed
      OBVIOUS
    <3>1. j - 1 \in 1..(Len(asked[s]) - 1) /\ (j - 1) + 1 = j
      BY <1>2
    <3> QED BY <1>2, <1>4, <3>1 DEF NothingPending
  <2>2. CASE message = Malformed
    <3>1. NothingPending(s)
      BY <1>2, <2>1, <2>2 DEF NothingPending
    <3> QED BY <1>1, <2>2, <3>1 DEF EntryIsWanted, entry, EntryAfter
  <2>3. CASE message # Malformed
    <3>1. message = wants[s]
      BY <1>2, <2>1, <2>3 DEF LastIsWanted
    <3> QED BY <2>3, <3>1 DEF entry, EntryAfter
  <2> QED BY <2>2, <2>3
<1>8. ASSUME NEW t \in Sockets, t # s PROVE LastIsWanted(t)' /\ EntryIsWanted(t)'
  BY <1>4, <1>8, SocketKept
<1> QED BY <1>5, <1>6, <1>7, <1>8

\* A connection begins and ends with nothing asked and everything wanted.
LEMMA ConnectKeeps ==
    ASSUME Asking, NEW s \in Sockets, Connect(s) \/ Disconnect(s),
           \A t \in Sockets : LastIsWanted(t) /\ EntryIsWanted(t)
    PROVE  Asking' /\ \A t \in Sockets : LastIsWanted(t)' /\ EntryIsWanted(t)'
<1>1. /\ asked'[s] = <<>> /\ wants'[s] = Everything
      /\ subscriptions'[s] \in {Everything, Absent}
      /\ \A t \in Sockets \ {s} : /\ subscriptions'[t] = subscriptions[t]
                                  /\ asked'[t] = asked[t] /\ wants'[t] = wants[t]
  BY DEF Asking, Connect, Disconnect
<1>2. Asking'
  <2>1. /\ subscriptions' \in [Sockets -> Areas \cup {Everything, Absent}]
        /\ asked' \in [Sockets -> Seq(Messages)]
        /\ wants' \in [Sockets -> Areas \cup {Everything}]
    <3>1. <<>> \in Seq(Messages)
      OBVIOUS
    <3>2. CASE Connect(s)
      BY <3>2 DEF Asking, Connect
    <3>3. CASE Disconnect(s)
      BY <3>1, <3>3 DEF Asking, Disconnect
    <3> QED BY <3>2, <3>3
  <2> QED BY <1>1, <2>1 DEF Asking, Connected
<1>3. LastIsWanted(s)' /\ EntryIsWanted(s)'
  BY <1>1 DEF LastIsWanted, EntryIsWanted, Connected
<1>4. ASSUME NEW t \in Sockets, t # s PROVE LastIsWanted(t)' /\ EntryIsWanted(t)'
  BY <1>1, <1>4, SocketKept
<1> QED BY <1>2, <1>3, <1>4

\* Every step keeps what the entries and the messages say together.
LEMMA AskNext == AskInv /\ [Next]_vars => AskInv'
<1> SUFFICES ASSUME AskInv, [Next]_vars
             PROVE  Asking' /\ \A s \in Sockets : LastIsWanted(s)' /\ EntryIsWanted(s)'
  BY NextInv DEF AskInv
<1>1. CASE UNCHANGED <<subscriptions, asked, wants>>
  BY <1>1, SocketKept DEF AskInv, Asking, Connected
<1>2. ASSUME NEW s \in Sockets, Connect(s) \/ Ask(s) \/ HandleMessage(s) \/ Disconnect(s)
      PROVE  Asking' /\ \A t \in Sockets : LastIsWanted(t)' /\ EntryIsWanted(t)'
  BY <1>2, AskKeeps, HandleKeeps, ConnectKeeps DEF AskInv
<1> QED BY <1>1, <1>2 DEF Next, Observe, Evict, vars

\* A picture changes only by an event that the gateway's entry lets through.
LEMMA ShownInScope ==
    ASSUME Inv, Asking, [Next]_vars, NEW s \in Sockets, NEW e \in Entities,
           shown'[s][e] # shown[s][e], subscriptions'[s] # Absent
    PROVE  InScope(subscriptions[s], last'[e].at)
<1>1. ASSUME NEW f \in Entities, NEW p, NEW kind, emitScoped(kind, f, p)
      PROVE  InScope(subscriptions[s], last'[e].at)
  <2>1. InScope(subscriptions[s], p) /\ f = e
    BY <1>1 DEF Inv, Shape, emitScoped
  <2>2. last'[e] = [kind |-> kind, at |-> p]
    BY <1>1, <2>1 DEF Inv, Shape, emitScoped
  <2> QED BY <2>1, <2>2
<1>2. ASSUME NEW t \in Sockets, Disconnect(t) PROVE FALSE
  <2>1. t # s
    BY <1>2 DEF Asking, Disconnect
  <2> QED BY <1>2, <2>1 DEF Inv, Shape, Disconnect
<1>3. \/ UNCHANGED shown
      \/ \E t \in Sockets : Disconnect(t)
      \/ \E f \in Entities, p \in Positions : emitScoped("new", f, p) \/ emitScoped("updated", f, p)
      \/ \E f \in Entities : emitScoped("lost", f, tracks[f])
  BY DEF Next, Connect, Ask, HandleMessage, Observe, Evict, Silent, vars
<1> QED BY <1>1, <1>2, <1>3

\* Once no request of a client is on its way, its picture changes only by events in
\* the area it asked for last, whatever it sent that the schema refused and whatever
\* an earlier connection of it had asked (gateway.ts's subscriptions map).
THEOREM FollowsTheRequest == Spec => OnlyWhatIsAskedFor
<1>1. ASSUME AskInv, [Next]_vars, NEW s \in Sockets, NEW e \in Entities,
             Connected(s), shown'[s][e] # shown[s][e], subscriptions'[s] # Absent
      PROVE  \/ InScope(wants[s], last'[e].at)
             \/ \E i \in DOMAIN asked[s] : asked[s][i] # Malformed
  <2>1. InScope(subscriptions[s], last'[e].at)
    BY <1>1, ShownInScope DEF AskInv
  <2>2. NothingPending(s) => subscriptions[s] = wants[s]
    BY <1>1 DEF AskInv, EntryIsWanted
  <2> QED BY <2>1, <2>2 DEF NothingPending
<1>2. AskInv /\ [Next]_vars =>
        [\A s \in Sockets, e \in Entities :
            Connected(s) /\ shown'[s][e] # shown[s][e] /\ subscriptions'[s] # Absent =>
                \/ InScope(wants[s], last'[e].at)
                \/ \E i \in DOMAIN asked[s] : asked[s][i] # Malformed]_vars
  BY <1>1
<1> QED BY <1>2, AskInit, AskNext, PTL DEF Spec, OnlyWhatIsAskedFor
===============================================================================
