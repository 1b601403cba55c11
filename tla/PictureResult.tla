---------------------------- MODULE PictureResult ----------------------------
(*************************************************************************)
(* The pictures of a job on their way to its client                      *)
(* (src/simple_serving/pictures/graphs.py): which of a record's pictures *)
(* are sent, in which order, and what of their bytes.                    *)
(*************************************************************************)
EXTENDS Naturals, Sequences

CONSTANT IndexLimit    \* 2^32 - 1, from which on JavaScript takes no key for an index

ASSUME IndexLimitAssumption == IndexLimit \in Nat

LOCAL INSTANCE SequencesExt

(* A key of the outputs: its number, if it is digits without a leading   *)
(* zero, else {}.                                                        *)
IsIndex(key) == \E n \in key.number : n < IndexLimit

Sooner(a, b) == \E n \in a.number, m \in b.number : n < m

JsOrder(keys) ==
  SetToSortSeq({key \in ToSet(keys) : IsIndex(key)}, Sooner)
  \o SelectSeq(keys, LAMBDA key : ~IsIndex(key))

-----------------------------------------------------------------------------
(* Of a record: its outputs' keys as they came, and the pictures of each. *)
WithPictures(keys, images) == SelectSeq(keys, LAMBDA key : images[key] # <<>>)

NoFrame == <<>>

(* The frame, the first picture that is none of a copy, as a sequence of *)
(* at most one; and the first picture of each copy, in the order asked.  *)
FrameOf(keys, images, copies) ==
  LET others == SelectSeq(JsOrder(WithPictures(keys, images)), LAMBDA key : key \notin ToSet(copies))
  IN  IF others = <<>> THEN NoFrame ELSE <<[node |-> others[1], image |-> images[others[1]][1]]>>

CopiesOf(keys, images, copies) ==
  LET shown == SelectSeq(copies, LAMBDA node : node \in ToSet(keys) /\ images[node] # <<>>)
  IN  [i \in DOMAIN shown |-> [node |-> shown[i], image |-> images[shown[i]][1]]]

(* _deliver: what is sent, or nothing of a job that failed.              *)
SentOf(record, copies) ==
  IF record.status = "error" THEN <<>>
  ELSE LET frame == FrameOf(record.keys, record.images, copies)
       IN  IF frame = NoFrame THEN <<>> ELSE frame \o CopiesOf(record.keys, record.images, copies)

-----------------------------------------------------------------------------
(* A file: whether it starts with the PNG signature, and its chunks, of  *)
(* which one that is cut short can only be the last.                     *)
KEPT_CHUNKS == {"IHDR", "PLTE", "tRNS", "IDAT", "IEND"}

(* The chunks that are walked over: none after the first IEND.           *)
Walked(chunks) ==
  {i \in DOMAIN chunks : \A j \in 1..(i - 1) : chunks[j].kind # "IEND"}

Kept(chunks) ==
  SelectSeq([i \in 1..Cardinality(Walked(chunks)) |-> chunks[i]], LAMBDA chunk : chunk.kind \in KEPT_CHUNKS)

StripCode(file) ==
  IF ~file.signed THEN "not_a_png"
  ELSE IF \E i \in Walked(file.chunks) : ~file.chunks[i].whole THEN "truncated_png"
  ELSE IF Len(Kept(file.chunks)) < 2 THEN "not_a_png" ELSE "ok"

Stripped(file) == [file EXCEPT !.chunks = Kept(file.chunks)]
=============================================================================
