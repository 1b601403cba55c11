---------------------------- MODULE EngineLines ----------------------------
(**************************************************************************)
(* The engine's stream on the wire (engine.py): the lines of a body that  *)
(* comes in chunks (_lines), and the events that the lines make           *)
(* (EngineStream.next_event).  A byte is kept if it ends a line or may be *)
(* taken off its end; a line is kept by how it starts.                    *)
(**************************************************************************)
EXTENDS Naturals, Sequences

CONSTANT MAX_LINE_BYTES

LOCAL INSTANCE SequencesExt

NewLines == [lines |-> <<>>, pending |-> <<>>, broken |-> FALSE]

WithoutReturn(line) == IF line # <<>> /\ Last(line) = "CR" THEN Front(line) ELSE line

WithByte(read, byte) ==
    IF byte = "LF" THEN [read EXCEPT !.lines = Append(@, WithoutReturn(read.pending)), !.pending = <<>>]
    ELSE [read EXCEPT !.pending = Append(@, byte)]

(* All the lines a chunk ends come before a rest that is too long.       *)
WithChunk(read, chunk) ==
    IF read.broken THEN read
    ELSE LET after == FoldLeft(WithByte, read, chunk)
         IN [after EXCEPT !.broken = Len(after.pending) > MAX_LINE_BYTES]

(* The rest of a body that ends is a line.                               *)
LinesOf(chunks) ==
    LET read == FoldLeft(WithChunk, NewLines, chunks)
    IN [lines |-> IF read.broken \/ read.pending = <<>> THEN read.lines ELSE Append(read.lines, read.pending),
        broken |-> read.broken]

NewEvents == [data |-> <<>>, events |-> <<>>, broken |-> FALSE]

WithLine(read, line) ==
    CASE read.broken \/ line.starts = ":" -> read
      [] line.starts = "data:" -> [read EXCEPT !.data = Append(@, line.rest)]
      [] line.starts = "other" -> [read EXCEPT !.broken = TRUE]
      [] line.starts = "blank" /\ read.data = <<>> -> read
      [] line.starts = "blank" -> [read EXCEPT !.events = Append(@, read.data), !.data = <<>>]

(* What next_event gives, one call after another, before it raises: at the *)
(* latest where the lines are over.                                        *)
EventsOf(lines) == FoldLeft(WithLine, NewEvents, lines).events
=============================================================================
