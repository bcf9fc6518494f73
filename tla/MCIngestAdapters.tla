--------------------------- MODULE MCIngestAdapters ---------------------------
(***************************************************************************)
(* Three items for each adapter: frames of which one has a marker's bytes  *)
(* apart and one no dimensions, a report and lines a decoder skips or the  *)
(* schema refuses, messages and requests of every outcome, two files.      *)
(***************************************************************************)
EXTENDS IngestAdapters, TLC

MCFrames ==
    {<<"FF", "D8", "FF", "C0", "D8", "FF", "D9">>,
     <<"FF", "D8", "D9", "x", "FF", "D9">>}

Ais == [tagBlock |-> "closed", formatter |-> "VDM", fragments |-> 1, bits |-> 168,
        type |-> 1, positioned |-> TRUE, valid |-> TRUE]
MCAisLines ==
    {Ais, [Ais EXCEPT !.tagBlock = "open"], [Ais EXCEPT !.type = 5],
     [Ais EXCEPT !.fragments = 2], [Ais EXCEPT !.positioned = FALSE]}

Sbs1 == [kind |-> "MSG", columns |-> 22, addressed |-> TRUE, valid |-> TRUE]
MCAdsbLines == {Sbs1, [Sbs1 EXCEPT !.kind = "STA"], [Sbs1 EXCEPT !.addressed = FALSE],
                [Sbs1 EXCEPT !.valid = FALSE]}

MCMessages == [json : BOOLEAN, ts : {"none", "synced", "skewed", "noDate"}]

Telemetry == [path : {"telemetry"}, key : BOOLEAN, device : {"d1"},
              body : {"ok", "malformed"}, ts : {"none", "skewed"}]
Snapshots(device) ==
    [path : {"snapshot"}, key : {TRUE}, device : {device}, body : {"ok", "noSof0"},
     ts : {"synced", "skewed"}]
MCRequests ==
    Telemetry \cup Snapshots("d1")
    \cup {[path |-> "snapshot", key |-> key, device |-> d, body |-> "ok", ts |-> ts] :
             key \in BOOLEAN, d \in {"d2", "none"}, ts \in {"none", "noDate"}}

Symmetry == Permutations(Files)
===============================================================================
