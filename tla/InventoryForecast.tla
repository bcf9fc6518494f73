-------------------------- MODULE InventoryForecast --------------------------
(***************************************************************************)
(* logistics-svc: a Kafka consumer copies the changes of the ERP table     *)
(* into inventory_items and inventory_history, and a timer recomputes the  *)
(* forecast of every item and raises a LOW_STOCK alert when an item turns  *)
(* low.  The consumer commits its offset now and then, so a crash replays  *)
(* what came after; an error is logged and the message is gone.            *)
(***************************************************************************)
EXTENDS Integers, FiniteSets, Sequences, SequencesExt

CONSTANTS
    Items,
    Quantities,
    Threshold,   \* reorder_threshold, one for all items
    LeadTime,    \* LOW_STOCK_LEAD_TIME_HOURS
    Cycles,      \* recomputations that may be under way at once: the timer waits for none
    NoRow,
    MaxEvents,   \* bound: changes of the ERP table
    MaxMishaps  \* bound: restarts of logistics-svc and statements that fail

ASSUME InventoryAssumption ==
    /\ Quantities \subseteq Nat /\ NoRow \notin Quantities \cup Items /\ NoRow \notin BOOLEAN
    /\ Threshold \in Nat /\ LeadTime \in Nat
    /\ MaxEvents \in Nat /\ MaxMishaps \in Nat

VARIABLES
    topic,       \* the change events; quantity NoRow is a delete
    position,    \* messages the consumer is done with
    committed,   \* its committed offset
    midway,      \* the item is written, its history point is not
    items,       \* inventory_items: the quantity, NoRow without a row
    history,     \* inventory_history, each row by its event (whose hour is its ts)
    forecasts,   \* low_stock in inventory_forecasts, NoRow without a row
    cycle,       \* where each recomputation stands
    mishaps,
    \* History:
    spell,       \* for each item the alerts raised since it was last forecast not low
    skipped,     \* the events an error was logged for
    unannounced, \* the items for which a cycle was broken off before their alert, and
    contested    \* those two cycles had before them at once, since they were last
                 \* forecast not low, by a cycle that had them to itself

consumer == <<position, committed, midway, items, history>>
stockVars == <<topic, consumer, forecasts, cycle, mishaps, spell, skipped,
               unannounced, contested>>

Idle == [at |-> "idle", todo |-> {}, item |-> NoRow, low |-> FALSE, was |-> FALSE]
Snapshot == [item : Items, quantity : Quantities]
Working ==
    [at : {"next", "forecast", "alert"}, todo : SUBSET Snapshot, item : Items \cup {NoRow},
     low : BOOLEAN, was : BOOLEAN]

StockTypeOK ==
    /\ topic \in Seq([item : Items, quantity : Quantities \cup {NoRow}])
    /\ position \in 0..Len(topic) /\ committed \in 0..position
    /\ midway \in BOOLEAN
    /\ items \in [Items -> Quantities \cup {NoRow}]
    /\ history \in Seq(1..Len(topic))
    /\ forecasts \in [Items -> BOOLEAN \cup {NoRow}]
    /\ \A c \in Cycles : cycle[c] = Idle \/ cycle[c] \in Working
    /\ mishaps \in 0..MaxMishaps
    /\ spell \in [Items -> Nat]
    /\ skipped \subseteq 1..Len(topic)
    /\ unannounced \subseteq Items /\ contested \subseteq Items

StockInit ==
    /\ topic = <<>>
    /\ position = 0 /\ committed = 0 /\ midway = FALSE
    /\ items = [i \in Items |-> NoRow]
    /\ history = <<>>
    /\ forecasts = [i \in Items |-> NoRow]
    /\ cycle = [c \in Cycles |-> Idle]
    /\ mishaps = 0
    /\ spell = [i \in Items |-> 0]
    /\ skipped = {} /\ unannounced = {} /\ contested = {}

------------------------------------------------------------------------------
\* The quantity of i in the ERP table after the first n events.
ErpAfter(n, i) ==
    LET of == {k \in 1..n : topic[k].item = i}
    IN  IF of = {} THEN NoRow ELSE topic[Max(of)].quantity

SumOver(h, f(_)) == FoldLeft(LAMBDA sum, k : sum + f(k), 0, h)

\* forecastDepletion: the least-squares line through quantity over hours.  With
\* Slope = num / den, the item runs out latest * den / -num hours from now.
RunsOut(h) ==
    LET x(k) == k - Min(ToSet(h))
        y(k) == topic[k].quantity
        xx(k) == x(k) * x(k)
        xy(k) == x(k) * y(k)
        n == Len(h)
        num == n * SumOver(h, xy) - SumOver(h, x) * SumOver(h, y)
        den == n * SumOver(h, xx) - SumOver(h, x) * SumOver(h, x)
    IN  /\ Cardinality(ToSet(h)) >= 2
        /\ num < 0
        /\ y(Max(ToSet(h))) * den <= LeadTime * (-num)

HistoryOf(i) == SelectSeq(history, LAMBDA k : topic[k].item = i)

IsLowStock(i, quantity) == quantity <= Threshold \/ RunsOut(HistoryOf(i))

------------------------------------------------------------------------------
\* The ERP row is created, updated or deleted; Debezium publishes the change.
ErpChanges(i, q) ==
    /\ Len(topic) < MaxEvents
    /\ q = NoRow => ErpAfter(Len(topic), i) # NoRow
    /\ topic' = Append(topic, [item |-> i, quantity |-> q])
    /\ UNCHANGED <<consumer, forecasts, cycle, mishaps, spell, skipped, unannounced, contested>>

Event == topic[position + 1]

\* applyChange: the row is upserted or deleted.
WriteItem ==
    /\ position < Len(topic) /\ ~midway
    /\ items' = [items EXCEPT ![Event.item] = Event.quantity]
    /\ IF Event.quantity = NoRow
       THEN position' = position + 1 /\ UNCHANGED midway
       ELSE midway' = TRUE /\ UNCHANGED position
    /\ UNCHANGED <<topic, committed, history, forecasts, cycle, mishaps, spell, skipped, unannounced, contested>>

WriteHistory ==
    /\ midway
    /\ history' = Append(history, position + 1)
    /\ midway' = FALSE
    /\ position' = position + 1
    /\ UNCHANGED <<topic, committed, items, forecasts, cycle, mishaps, spell, skipped, unannounced, contested>>

\* A statement throws; eachMessage hands the error to onError and returns.
ApplyFails ==
    /\ position < Len(topic)
    /\ mishaps < MaxMishaps
    /\ mishaps' = mishaps + 1
    /\ midway' = FALSE
    /\ position' = position + 1
    /\ skipped' = skipped \cup {position + 1}
    /\ UNCHANGED <<topic, committed, items, history, forecasts, cycle, spell, unannounced, contested>>

\* kafkajs commits what the handler is done with.
Commit ==
    /\ committed' = position
    /\ UNCHANGED <<topic, position, midway, items, history, forecasts, cycle, mishaps, spell, skipped, unannounced, contested>>

------------------------------------------------------------------------------
\* The items a recomputation has before it, in its rows or in hand.
Ahead(w) ==
    {row.item : row \in w.todo} \cup (IF w.at \in {"forecast", "alert"} THEN {w.item} ELSE {})
AheadOfOthers(c) == UNION {Ahead(cycle[d]) : d \in Cycles \ {c}}

\* The timer fires: SELECT * FROM inventory_items.
StartCycle(c) ==
    /\ cycle[c] = Idle
    /\ \E i \in Items : items[i] # NoRow
    /\ cycle' = [cycle EXCEPT ![c] =
          [Idle EXCEPT !.at = "next",
             !.todo = {[item |-> i, quantity |-> items[i]] : i \in {i \in Items : items[i] # NoRow}}]]
    /\ contested' = contested \cup {i \in AheadOfOthers(c) : items[i] # NoRow}
    /\ UNCHANGED <<topic, consumer, forecasts, mishaps, spell, skipped, unannounced>>

\* isPreviouslyLowStock: an item without a forecast was not.
WasLow(i) == forecasts[i] = TRUE

\* Bug: an item without a forecast counts as low before.
ReadItemLowByDefault(c) ==
    /\ cycle[c].at = "next"
    /\ \E row \in cycle[c].todo :
          cycle' = [cycle EXCEPT ![c] =
              [at |-> "forecast", todo |-> @.todo \ {row}, item |-> row.item,
               low |-> IsLowStock(row.item, row.quantity), was |-> forecasts[row.item] # FALSE]]
    /\ UNCHANGED <<topic, consumer, forecasts, mishaps, spell, skipped, unannounced, contested>>

\* The item's history and its last forecast are read.
ReadItem(c) ==
    /\ cycle[c].at = "next"
    /\ \E row \in cycle[c].todo :
          cycle' = [cycle EXCEPT ![c] =
              [at |-> "forecast", todo |-> @.todo \ {row}, item |-> row.item,
               low |-> IsLowStock(row.item, row.quantity), was |-> WasLow(row.item)]]
    /\ UNCHANGED <<topic, consumer, forecasts, mishaps, spell, skipped, unannounced, contested>>

\* What a forecast that is not low ends: the spell, and what went wrong in it.
EndSpell(c) ==
    LET i == cycle[c].item IN
    IF cycle[c].low
    THEN UNCHANGED <<spell, unannounced, contested>>
    ELSE /\ spell' = [spell EXCEPT ![i] = 0]
         /\ unannounced' = unannounced \ {i}
         /\ contested' = IF i \in AheadOfOthers(c) THEN contested ELSE contested \ {i}

EndItem(todo) ==
    IF todo = {} THEN Idle ELSE [Idle EXCEPT !.at = "next", !.todo = todo]

\* Bug: every low forecast raises an alert.
WriteForecastAlways(c) ==
    LET w == cycle[c] IN
    /\ w.at = "forecast"
    /\ forecasts' = [forecasts EXCEPT ![w.item] = w.low]
    /\ cycle' = [cycle EXCEPT ![c] =
          IF w.low THEN [w EXCEPT !.at = "alert"] ELSE EndItem(w.todo)]
    /\ EndSpell(c)
    /\ UNCHANGED <<topic, consumer, mishaps, skipped>>

\* The forecast is upserted; an alert follows when the item turned low.
WriteForecast(c) ==
    LET w == cycle[c] IN
    /\ w.at = "forecast"
    /\ forecasts' = [forecasts EXCEPT ![w.item] = w.low]
    /\ cycle' = [cycle EXCEPT ![c] =
          IF w.low /\ ~w.was THEN [w EXCEPT !.at = "alert"] ELSE EndItem(w.todo)]
    /\ EndSpell(c)
    /\ UNCHANGED <<topic, consumer, mishaps, skipped>>

InsertAlert(c) ==
    /\ cycle[c].at = "alert"
    /\ spell' = [spell EXCEPT ![cycle[c].item] = @ + 1]
    /\ cycle' = [cycle EXCEPT ![c] = EndItem(@.todo)]
    /\ UNCHANGED <<topic, consumer, forecasts, mishaps, skipped, unannounced, contested>>

Unannounced(cs) == {cycle[c].item : c \in {c \in cs : cycle[c].at = "alert"}}

\* A statement throws: the whole cycle is given up until the timer fires again.
CycleFails(c) ==
    /\ cycle[c] # Idle
    /\ mishaps < MaxMishaps
    /\ mishaps' = mishaps + 1
    /\ cycle' = [cycle EXCEPT ![c] = Idle]
    /\ unannounced' = unannounced \cup Unannounced({c})
    /\ UNCHANGED <<topic, consumer, forecasts, spell, skipped, contested>>

\* Bug: a restart goes on where the consumer was.
CrashResumes ==
    /\ mishaps < MaxMishaps
    /\ mishaps' = mishaps + 1
    /\ position' = IF midway THEN position + 1 ELSE position
    /\ midway' = FALSE
    /\ cycle' = [c \in Cycles |-> Idle]
    /\ unannounced' = unannounced \cup Unannounced(Cycles)
    /\ UNCHANGED <<topic, committed, items, history, forecasts, spell, skipped, contested>>

\* logistics-svc dies; its successor starts from the committed offset.
StartOver ==
    /\ mishaps < MaxMishaps
    /\ mishaps' = mishaps + 1
    /\ position' = committed
    /\ midway' = FALSE
    /\ cycle' = [c \in Cycles |-> Idle]
    /\ unannounced' = unannounced \cup Unannounced(Cycles)
    /\ UNCHANGED <<topic, committed, items, history, forecasts, spell, skipped, contested>>

Consume == WriteItem \/ WriteHistory
Recompute(c) == StartCycle(c) \/ ReadItem(c) \/ WriteForecast(c) \/ InsertAlert(c)

StockNext ==
    \/ \E i \in Items, q \in Quantities \cup {NoRow} : ErpChanges(i, q)
    \/ Consume \/ ApplyFails \/ Commit
    \/ \E c \in Cycles : Recompute(c) \/ CycleFails(c)
    \/ StartOver

\* A connected consumer gets the next message, and the timer keeps firing.
StockSpec ==
    /\ StockInit /\ [][StockNext]_stockVars
    /\ WF_stockVars(Consume) /\ \A c \in Cycles : WF_stockVars(Recompute(c))

------------------------------------------------------------------------------
LastEvent(i) == Max({0} \cup {k \in DOMAIN topic : topic[k].item = i})

\* The comment of inventoryConsumer.ts, "ERP delta reflected in VEKTOR": once the
\* consumer has caught up, an item whose last event met no error is that of the
\* ERP table, and every event that carries a quantity and met no error has its
\* point in the history, however often the consumer was restarted.
CaughtUp ==
    (position = Len(topic) /\ ~midway) =>
        /\ \A i \in Items : LastEvent(i) \notin skipped => items[i] = ErpAfter(Len(topic), i)
        /\ \A k \in DOMAIN topic \ skipped : topic[k].quantity # NoRow => k \in ToSet(history)

\* The comment of recompute.ts, "Only fire on the low-stock transition": an item
\* that stays low is alerted about once, not again until a forecast has found it
\* not low; and an item whose forecast says low has been alerted about or is about
\* to be, unless the cycle that found it low was broken off just before the alert.
\* Nothing is said of an item two recomputations have before them at once, which
\* the timer of index.ts does not prevent: both may alert about it, or the one that
\* read it earlier may undo the other's forecast and no alert follow.
OneAlertPerSpell ==
    \A i \in Items \ contested :
        /\ spell[i] <= 1
        /\ WasLow(i) => spell[i] > 0 \/ i \in unannounced \cup Unannounced(Cycles)

\* An item that stays low, the trend and the stock of the copy taken together,
\* is eventually alerted about, with the same two exceptions.
LowIsAlerted ==
    \A i \in Items :
        <>[](items[i] # NoRow /\ IsLowStock(i, items[i]))
            => []<>(spell[i] > 0 \/ i \in unannounced \cup contested)
===============================================================================
