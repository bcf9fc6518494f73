----------------------------- MODULE FeedDecoders -----------------------------
(***************************************************************************)
(* What ingest-svc's adapters do with bytes before anything is published:  *)
(* cut a stream into frames or lines, and tell a report from a line to     *)
(* skip.                                                                   *)
(*                                                                         *)
(* Bytes of a frame are the few the splitter and the dimension parser look *)
(* for, and others.  A line is the record of what its decoder asks of it,  *)
(* sent in two halves so that a chunk may end inside it.                   *)
(***************************************************************************)
EXTENDS Naturals, Sequences, FiniteSets, FiniteSetsExt

Bytes == {"FF", "D8", "D9", "C0", "x"}

\* Where a two-byte marker starts at or behind position p.
Markers(buffer, second, p) ==
    {i \in p..(Len(buffer) - 1) : buffer[i] = "FF" /\ buffer[i + 1] = second}

\* Bug: what a chunk has of a frame is not kept for the next.
FirstFrameNothingKept(buffer) ==
    LET starts == Markers(buffer, "D8", 1)
        ends == IF starts = {} THEN {} ELSE Markers(buffer, "D9", Min(starts) + 2)
    IN  IF ends = {} THEN [items |-> <<>>, rest |-> <<>>]
        ELSE [items |-> <<SubSeq(buffer, Min(starts), Min(ends) + 1)>>,
              rest |-> SubSeq(buffer, Min(ends) + 2, Len(buffer))]

\* One pass of the loop of MjpegFrameSplitter.push: the first frame in the buffer,
\* and what is kept.  Without a start marker nothing is, not even half of one.
FirstFrame(buffer) ==
    LET starts == Markers(buffer, "D8", 1)
        ends == IF starts = {} THEN {} ELSE Markers(buffer, "D9", Min(starts) + 2)
    IN  IF starts = {} THEN [items |-> <<>>, rest |-> <<>>]
        ELSE IF ends = {} THEN [items |-> <<>>, rest |-> SubSeq(buffer, Min(starts), Len(buffer))]
        ELSE [items |-> <<SubSeq(buffer, Min(starts), Min(ends) + 1)>>,
              rest |-> SubSeq(buffer, Min(ends) + 2, Len(buffer))]

\* A frame as ffmpeg's MJPEG muxer writes it: start and end marker are nowhere else.
IsJpeg(frame) ==
    /\ Markers(frame, "D8", 1) = {1}
    /\ Markers(frame, "D9", 3) = {Len(frame) - 1}

\* parseJpegDimensions finds a SOF0 segment behind the start marker.
HasDimensions(frame) == Markers(frame, "C0", 3) # {}

------------------------------------------------------------------------------
NewLine == [half |-> 0]
Half(line, k) == [half |-> k, line |-> line]
OnTheWire(line) == <<Half(line, 1), Half(line, 2), NewLine>>

\* buffer.split(/\r?\n/) of the TCP adapters, one line at a time: the first whole
\* line, unless it is blank, and what is kept.
FirstLine(buffer) ==
    LET ends == {i \in DOMAIN buffer : buffer[i] = NewLine}
    IN  IF ends = {} THEN [items |-> <<>>, rest |-> buffer]
        ELSE [items |-> IF buffer[1].half = 1 THEN <<buffer[1].line>> ELSE <<>>,
              rest |-> SubSeq(buffer, Min(ends) + 1, Len(buffer))]

\* decodeAivdmPositionReport returns a position: an optional tag block, a VDM or
\* VDO sentence in one fragment, 168 bits of a class A report with a position.
IsAisReport(s) ==
    /\ s.tagBlock \in {"none", "closed"}
    /\ s.formatter \in {"VDM", "VDO"}
    /\ s.fragments = 1
    /\ s.bits >= 168
    /\ s.type \in 1..3
    /\ s.positioned

\* parseSbs1Line returns a message: 22 columns, and the aircraft's address.
IsSbs1Message(s) == s.kind = "MSG" /\ s.columns >= 22 /\ s.addressed
===============================================================================
