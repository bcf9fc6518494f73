---------------------------- MODULE FusionIngest ----------------------------
(***************************************************************************)
(* How sensor events reach the window inside fusion-svc: the eachMessage   *)
(* handler of ingestConsumers.ts copies every Kafka message onto the Redis *)
(* Stream of its domain, while the pipeline loop polls the window.         *)
(*                                                                         *)
(* index.ts hands ONE Redis client to both.  Redis serves the commands of  *)
(* a connection in order and none of them while a blocking XREAD waits, so *)
(* an XADD issued during the wait is executed after the wait.              *)
(*                                                                         *)
(* kafkajs runs one handler at a time and resolves the offset of a message *)
(* when its handler returns, also when the handler caught an error; what   *)
(* is resolved is committed some time later.  After a session time-out or  *)
(* a rebalance it joins the group again by itself, the process living on.  *)
(* Whoever joins goes on from what is committed; where the group has       *)
(* committed nothing it starts at the end of the topic, for the consumer   *)
(* subscribes with fromBeginning: false.                                   *)
(***************************************************************************)
EXTENDS WatermarkWindow

CONSTANTS
    None,         \* no handler is waiting for its XADD
    MaxMessages,  \* bound: Kafka messages, over all domains
    MaxDropped,   \* bound: XADDs that fail
    MaxJoins      \* bound: times the consumer joins its group again, crashed or running

\* The streams have room for every message and its redeliveries.
ASSUME IngestAssumption ==
    /\ None \notin Domains
    /\ {MaxMessages, MaxDropped, MaxJoins} \subseteq Nat
    /\ MaxStream >= MaxMessages * (MaxJoins + 1)

VARIABLES
    topic,        \* Kafka: the sensor_ts of the messages of each domain
    resolved,     \* the messages of each topic whose handler has returned
    committed,    \* the offset a restarted consumer resumes from, 0 for none
    adding,       \* the domain whose handler awaits its XADD, or None
    blocked,      \* the XREAD BLOCK of the pipeline loop is outstanding
    rejoins,      \* how often the running consumer has joined again
    origin,       \* history: the offset each stream entry came from
    resumed,      \* history: how long each stream was at the last join
    dropped,      \* history: the messages that were refused or whose XADD failed
    skipped       \* history: the messages a group without an offset passed over

joins == <<rejoins, resumed>>
ingest == <<topic, resolved, committed, adding, blocked, joins, origin, dropped, skipped>>
allVars == <<vars, ingest>>

Offsets == 1..MaxStream

IngestTypeOK ==
    /\ TypeOK
    /\ topic \in [Domains -> Seq(Timestamps)]
    /\ resolved \in [Domains -> 0..MaxStream]
    /\ committed \in [Domains -> 0..MaxStream]
    /\ adding \in Domains \cup {None}
    /\ blocked \in BOOLEAN
    /\ rejoins \in 0..MaxJoins
    /\ resumed \in [Domains -> 0..MaxStream]
    /\ origin \in [Domains -> Seq(Offsets)]
    /\ dropped \subseteq Domains \X Offsets
    /\ skipped \subseteq Domains \X Offsets

IngestInit ==
    /\ Init
    /\ topic = [d \in Domains |-> <<>>]
    /\ resolved = [d \in Domains |-> 0]
    /\ committed = [d \in Domains |-> 0]
    /\ adding = None
    /\ blocked = FALSE
    /\ rejoins = 0
    /\ resumed = [d \in Domains |-> 0]
    /\ origin = [d \in Domains |-> <<>>]
    /\ dropped = {}
    /\ skipped = {}

------------------------------------------------------------------------------
Produced == UNION {{d} \X (1..Len(topic[d])) : d \in Domains}

\* An adapter produces a message.
Produce(d, ts) ==
    /\ Cardinality(Produced) < MaxMessages
    /\ topic' = [topic EXCEPT ![d] = Append(@, ts)]
    /\ UNCHANGED <<vars, resolved, committed, adding, blocked, joins, origin, dropped, skipped>>

\* eachMessage: the message is parsed and its XADD is sent.
StartMessage(d) ==
    /\ adding = None
    /\ resolved[d] < Len(topic[d])
    /\ adding' = d
    /\ UNCHANGED <<vars, topic, resolved, committed, blocked, joins, origin, dropped, skipped>>

\* A message that does not parse or breaks its schema: onError, and it counts
\* as handled.
Refuse(d) ==
    /\ adding = None
    /\ resolved[d] < Len(topic[d])
    /\ Cardinality(dropped) < MaxDropped
    /\ dropped' = dropped \cup {<<d, resolved[d] + 1>>}
    /\ resolved' = [resolved EXCEPT ![d] = @ + 1]
    /\ UNCHANGED <<vars, topic, committed, adding, blocked, joins, origin, skipped>>

\* Bug: the handler returns without its offset being resolved.
AddServedRetried(d) ==
    /\ adding = d
    /\ ~blocked
    /\ Publish(d, topic[d][resolved[d] + 1])
    /\ origin' = [origin EXCEPT ![d] = Append(@, resolved[d] + 1)]
    /\ adding' = None
    /\ UNCHANGED <<topic, resolved, committed, blocked, joins, dropped, skipped>>

\* Redis executes the XADD, once the connection is not held by the XREAD.
AddServed(d) ==
    /\ adding = d
    /\ ~blocked
    /\ Publish(d, topic[d][resolved[d] + 1])
    /\ origin' = [origin EXCEPT ![d] = Append(@, resolved[d] + 1)]
    /\ resolved' = [resolved EXCEPT ![d] = @ + 1]
    /\ adding' = None
    /\ UNCHANGED <<topic, committed, blocked, joins, dropped, skipped>>

\* Redis rejects the XADD: onError, and the message counts as handled.
AddFailed(d) ==
    /\ adding = d
    /\ ~blocked
    /\ Cardinality(dropped) < MaxDropped
    /\ dropped' = dropped \cup {<<d, resolved[d] + 1>>}
    /\ resolved' = [resolved EXCEPT ![d] = @ + 1]
    /\ adding' = None
    /\ UNCHANGED <<vars, topic, committed, blocked, joins, origin, skipped>>

\* Bug: what has been fetched is committed.
AutoCommitFetched(d) ==
    /\ committed[d] # resolved[d]
    /\ committed' = [committed EXCEPT ![d] = Len(topic[d])]
    /\ UNCHANGED <<vars, topic, resolved, adding, blocked, joins, origin, dropped, skipped>>

\* kafkajs commits what is resolved.
AutoCommit(d) ==
    /\ committed[d] # resolved[d]
    /\ committed' = [committed EXCEPT ![d] = resolved[d]]
    /\ UNCHANGED <<vars, topic, resolved, adding, blocked, joins, origin, dropped, skipped>>

\* The pipeline loop polls.  An XADD that is already on the connection is
\* executed first.  With entries to read the XREAD returns at once...
LoopRead ==
    /\ ~blocked
    /\ adding = None
    /\ PollRead
    /\ UNCHANGED ingest

\* ...and without it waits.
LoopBlock ==
    /\ ~blocked
    /\ adding = None
    /\ Unread = {}
    /\ blocked' = TRUE
    /\ UNCHANGED <<vars, topic, resolved, committed, adding, joins, origin, dropped, skipped>>

\* blockMs have passed.
LoopTimeout ==
    /\ blocked
    /\ PollTimeout
    /\ blocked' = FALSE
    /\ UNCHANGED <<topic, resolved, committed, adding, joins, origin, dropped, skipped>>

\* The consumer joins its group: the handler is run again for every message after
\* the committed offset, or for none of those the topic holds by now.
JoinGroup ==
    /\ restarts + rejoins < MaxJoins
    /\ resolved' = [d \in Domains |-> IF committed[d] = 0 THEN Len(topic[d]) ELSE committed[d]]
    /\ skipped' = skipped \cup {m \in Produced : committed[m[1]] = 0}
    /\ resumed' = [d \in Domains |-> Len(origin[d])]

\* fusion-svc dies and comes back.
Crash ==
    /\ Restart
    /\ JoinGroup
    /\ adding' = None
    /\ blocked' = FALSE
    /\ UNCHANGED <<topic, committed, rejoins, origin, dropped>>

\* The session has timed out or the group is rebalanced: the handler in hand returns,
\* and the running consumer joins again.
Rejoin ==
    /\ adding = None
    /\ rejoins' = rejoins + 1
    /\ JoinGroup
    /\ UNCHANGED <<vars, topic, committed, adding, blocked, origin, dropped>>

IngestNext ==
    \/ \E d \in Domains, ts \in Timestamps : Produce(d, ts)
    \/ \E d \in Domains : \/ StartMessage(d)
                          \/ Refuse(d)
                          \/ AddServed(d)
                          \/ AddFailed(d)
                          \/ AutoCommit(d)
    \/ LoopRead
    \/ LoopBlock
    \/ LoopTimeout
    \/ Crash
    \/ Rejoin

\* The loop polls for ever, a blocked read times out, the consumer keeps
\* consuming and Redis answers what it is asked.
IngestFairness ==
    /\ WF_allVars(LoopRead) /\ WF_allVars(LoopBlock) /\ WF_allVars(LoopTimeout)
    /\ WF_allVars(\E d \in Domains : StartMessage(d))
    /\ WF_allVars(\E d \in Domains : AddServed(d) \/ AddFailed(d))

IngestSpec == IngestInit /\ [][IngestNext]_allVars /\ IngestFairness

------------------------------------------------------------------------------
\* Handled(d, o): the message is on its stream, or was refused.
Handled(d, o) == o \in ToSet(origin[d]) \/ <<d, o>> \in dropped

\* A message whose offset is committed was handled: a crash or a rejoin between the
\* steps of a handler repeats a message and never skips one.  The exception is a join
\* before the first commit.
CommittedIsStreamed ==
    \A d \in Domains : \A o \in 1..committed[d] : Handled(d, o) \/ <<d, o>> \in skipped

\* Only joining the group makes the consumer go back: of two entries of a stream, the
\* later comes from further down the topic, unless the consumer has joined the group
\* again, after a crash or while running, since the earlier one was written.
OnceInOrderPerJoin ==
    \A d \in Domains : \A i, j \in DOMAIN origin[d] :
        resumed[d] < i /\ i < j => origin[d][i] < origin[d][j]

\* The message came out of the window, was reported as failed, or was passed
\* over by a group without an offset.
Reached(d, o) ==
    \/ <<d, o>> \in dropped \cup skipped
    \/ \E i \in DOMAIN origin[d] : origin[d][i] = o /\ <<d, i>> \in delivered

\* Although the XADDs and the blocking XREAD wait for each other on the shared
\* connection, no message is left outstanding: once the last of the MaxMessages
\* is produced, all of them reach the pipeline.
ReachesThePipeline == <>[](\A m \in Produced : Reached(m[1], m[2]))

==============================================================================
