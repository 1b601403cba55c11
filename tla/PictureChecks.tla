---------------------------- MODULE PictureChecks ----------------------------
(***************************************************************************)
(* What a picture job is made of and what it hands out are pure: the       *)
(* definitions of PictureGraph, PictureResult, PictureInput, PictureMemory *)
(* and ComfyAnswers, held against what is asked of them over every small   *)
(* input.                                                                  *)
(***************************************************************************)
EXTENDS PictureGraph, PictureInput, PictureMemory, ComfyAnswers

-----------------------------------------------------------------------------
(* A caller with one live upload; nodes of a class that readers may run, *)
(* of one they may not, and of those with an effect of their own.        *)
Owned == {"mine"}
SomeTexts ==
  {[reads |-> "upload", name |-> "mine"], [reads |-> "upload", name |-> "yours"],
   [reads |-> "temp", name |-> "drawn"], [reads |-> "plain", name |-> "ref"]}
Mine == [reads |-> "upload", name |-> "mine"]
Single(S) == {{}} \cup {{x} : x \in S}
Nodes ==
  [proper : BOOLEAN, class_type : Single({"LoadImage", "PreviewImage", "Cheap", "Costly"}),
   image : Single(SomeTexts), others : Single(SomeTexts), nonce : {{}}]
Plain == [proper |-> TRUE, class_type |-> {"Cheap"}, image |-> {}, others |-> {}, nonce |-> {}]
ReaderNodes == {"LoadImage", "PreviewImage", "Cheap"}
OneNode == [{"1"} -> Nodes]
TwoNodes == [{"1", "2"} -> {node \in Nodes : node.proper /\ node.class_type \in {{"LoadImage"}, {"Cheap"}}}]

Allowed(graph, cls) == GraphAllowed(graph, <<>>, cls, ReaderNodes, 2, Owned)

(* An accepted graph reads no temporary file but the caller's own uploads; *)
(* only an experiment's reads the input directory or runs another node.    *)
ASSUME AllowedTouchesOwn ==
  \A graph \in OneNode \cup TwoNodes, cls \in {"reader", "internal"} : Allowed(graph, cls) =>
    \A id \in DOMAIN graph :
      /\ \A text \in Texts(graph[id]) : text.reads \in {"upload", "temp"} => text.name = "mine"
      /\ cls = "reader" => /\ graph[id].class_type # {"Costly"}
                           /\ graph[id].class_type = {"LoadImage"} => graph[id].image = {Mine}

(* The nonce makes no graph of another kind, and an upload that is gone  *)
(* only ever refuses one.                                                *)
ASSUME NonceKeepsGraph ==
  \A graph \in OneNode, cls \in {"reader", "internal"} :
    /\ Allowed(WithNonce(graph, "n"), cls) = Allowed(graph, cls)
    /\ References(WithNonce(graph, "n"), Owned) = References(graph, Owned)
    /\ GraphAllowed(graph, <<>>, cls, ReaderNodes, 2, {}) =>
         Allowed(graph, cls) /\ References(graph, Owned) = 0

(* A copy names a node of the graph, once.                               *)
ASSUME CopiesAreNodes ==
  \A copies \in UNION {[1..n -> {"1", "2", "3"}] : n \in 0..3}, flag \in BOOLEAN,
     fields \in SUBSET (PICTURE_FIELDS \cup {"x"}) :
    LET body == [fields |-> fields, graph |-> {[id \in {"1", "2"} |-> Plain]},
                 copies |-> copies, flagIsBoolean |-> flag]
    IN  PictureCode(body, "reader", ReaderNodes, 2, {}) = "ok"
    <=> "x" \notin fields /\ flag /\ copies \in {<<>>, <<"1">>, <<"2">>, <<"1", "2">>, <<"2", "1">>}

(* An upload under each kind of name, with each header and content.      *)
ASSUME UploadsSayOneType ==
  \A extension \in Single(DOMAIN UPLOAD_TYPES),
     content_type, magic \in Single({"image/png", "image/webp", "text/plain"}) :
    UploadAllowed(extension, content_type, magic)
    <=> <<extension, content_type, magic>> \in {<<{"png"}, {"image/png"}, {"image/png"}>>,
                                               <<{"webp"}, {"image/webp"}, {"image/webp"}>>}

-----------------------------------------------------------------------------
(* Keys of which two are indices, one is past them and one no number.    *)
SomeKeys == {[number |-> {0}], [number |-> {1}], [number |-> {2}], [number |-> {}]}
Orders == UNION {{s \in [1..n -> SomeKeys] : \A i, j \in 1..n : s[i] = s[j] => i = j} : n \in 0..4}

(* JavaScript's order: all the keys, each index before every other that is *)
(* greater or none, and those that are none as they came.                  *)
Indices == <<[number |-> {0}], [number |-> {1}]>>
ASSUME OrderIsJavaScripts ==
  \A keys \in Orders :
    JsOrder(keys) = LET given == {keys[i] : i \in DOMAIN keys} IN
      SelectSeq(Indices, LAMBDA key : key \in given)
      \o SelectSeq(keys, LAMBDA key : key \notin {Indices[1], Indices[2]})

(* What is sent of a record: a frame that is no copy's, then the copies  *)
(* that drew something, as asked; nothing without a frame.               *)
Pictures == [SomeKeys -> {<<>>, <<"a">>, <<"a", "b">>}]
ASSUME FrameThenCopies ==
  \A keys \in {s \in Orders : Len(s) = 3}, images \in Pictures, copies \in {s \in Orders : Len(s) <= 2} :
    LET sent == SentOf([status |-> "success", keys |-> keys, images |-> images], copies)
        drawn == {k \in {keys[i] : i \in DOMAIN keys} : images[k] # <<>>}
        wanted == {copies[i] : i \in DOMAIN copies}
    IN  /\ sent = <<>> <=> drawn \subseteq wanted
        /\ sent # <<>> => /\ sent[1].node \in drawn \ wanted
                          /\ {sent[i].node : i \in 2..Len(sent)} = drawn \cap wanted
        /\ \A i \in DOMAIN sent : sent[i].image = "a"

(* Files of up to four chunks, the last one whole or cut short.          *)
Files ==
  UNION {{[signed |-> signed,
           chunks |-> [i \in 1..n |-> [kind |-> kinds[i], whole |-> i < n \/ whole]]] :
            signed \in BOOLEAN, whole \in BOOLEAN,
            kinds \in [1..n -> {"IHDR", "IDAT", "tEXt", "IEND"}]} : n \in 0..4}

(* No text chunk and nothing behind the end goes out, the rest does, and a *)
(* second stripping changes nothing.                                       *)
ASSUME StrippedHasNoText ==
  \A file \in Files : StripCode(file) = "ok" =>
    LET kept == Stripped(file).chunks IN
      /\ \A i \in DOMAIN kept : 
           kept[i].kind # "tEXt" /\ kept[i].whole /\ (kept[i].kind = "IEND" => i = Len(kept))
      /\ \A i \in DOMAIN file.chunks : file.chunks[i].kind = "IEND" => kept[Len(kept)].kind = "IEND"
      /\ StripCode(Stripped(file)) = "ok" /\ Stripped(Stripped(file)) = Stripped(file)

(* What an experiment's PUT writes has no text, is the one content of its *)
(* name, and goes out the same from there when it is sent again; nobody   *)
(* else writes.                                                           *)
Contents == {file \in Files : Len(file.chunks) <= 3 /\ (StripCode(file) # "ok" => file.chunks = <<>>)}
Puts ==
  [cls : {"reader", "internal"}, formed : BOOLEAN, type : {"image/png", "image/jpeg"},
   body : {"whole", "large", "late", "gone"}, file : Contents,
   names : {file \in Contents : StripCode(file) = "ok" /\ Stripped(file) = file /\ Len(file.chunks) = 2},
   status : {"ready", "draining", "failed"}, taken : BOOLEAN]
ASSUME InputsAreTheirNames ==
  \A put \in Puts : InputWritten(put) # {} =>
    /\ put.cls = "internal" /\ put.body = "whole" /\ put.status = "ready"
    /\ InputWritten(put) = {<<put.names, put.names>>}
    /\ \A i \in DOMAIN put.names.chunks : put.names.chunks[i].kind # "tEXt"
    /\ InputWritten([put EXCEPT !.file = put.names]) = InputWritten(put)
    /\ InputCode(put) \in {"ok", "engine_unavailable"}

-----------------------------------------------------------------------------
(* Two devices at most, that name their index or do not, in up to two    *)
(* reads and a last one, each of which may fail.                         *)
Device(reads, index, free, torch) ==
  [reads |-> reads, index |-> index, total |-> 9, free |-> free, torch |-> torch]
Devices ==
  {Device(TRUE, {}, 4, {1}), Device(TRUE, {1}, 2, {}), Device(TRUE, {0}, 7, {0}), Device(FALSE, {}, 0, {})}
Reads ==
  {{}} \cup {{[devices |-> devices, ram |-> ram]} :
               devices \in UNION {[1..n -> Devices] : n \in 0..2},
               ram \in {{}, {[total |-> 8, free |-> 3]}, {[total |-> 8, free |-> 6]}}}
Readable(read) ==
  UNION {{<<i - 1, stats.devices[i]>> : i \in {i \in DOMAIN stats.devices : stats.devices[i].reads}} :
           stats \in read}
SeenOf(reads) == UNION {Readable(reads[i]) : i \in DOMAIN reads}
IndexOf(one) == IF one[2].index = {} THEN {one[1]} ELSE one[2].index

(* Each device that read once is told of once, with the most that was used *)
(* and occupied in any read; a sample is a read while it drew that had a   *)
(* device.                                                                 *)
Most(S) == CHOOSE n \in S : \A m \in S : m <= n
ASSUME MaximaOverReads ==
  \A a, b \in Reads, last \in {{}, {[devices |-> <<Device(TRUE, {1}, 0, {2})>>, ram |-> {}]}} :
    LET reads == <<a, b>>  all == <<a, b, last>>  told == MemoryOf(reads, last)
        UsedBy(i) == {Mib(Used(one[2])) : one \in {one \in SeenOf(all) : IndexOf(one) = {i}}}
        OccupiedOf(i) == {Mib(Used(one[2]) + free) : <<one, free>> \in
                            UNION {{<<o, f>> : f \in o[2].torch} : o \in {o \in SeenOf(all) : IndexOf(o) = {i}}}}
        RamUsed == {Mib(r.total - r.free) : r \in UNION {UNION {s.ram : s \in all[i]} : i \in 1..3}}
    IN  /\ {told.vram[k].index : k \in DOMAIN told.vram} = UNION {IndexOf(one) : one \in SeenOf(all)}
        /\ \A k \in DOMAIN told.vram :
             /\ \A l \in DOMAIN told.vram : told.vram[k].index = told.vram[l].index => k = l
             /\ told.vram[k].used = Most(UsedBy(told.vram[k].index))
             /\ LET S == OccupiedOf(told.vram[k].index)
                IN  told.vram[k].occupied = IF S = {} THEN {} ELSE {Most(S)}
        /\ told.samples = Cardinality({i \in 1..2 : Readable(reads[i]) # {}})
        /\ told.ram = IF RamUsed = {} THEN {}
                      ELSE {[least |-> CHOOSE n \in RamUsed : \A m \in RamUsed : n <= m,
                             most |-> Most(RamUsed)]}

(* The ring keeps the last three lines.  Lines that differ, as the times *)
(* in them let them, are counted from the submit on, as far as the ring  *)
(* still has them.                                                       *)
RingSize == 3
Ring(log) == SubSeq(log, 1 + (IF Len(log) > RingSize THEN Len(log) - RingSize ELSE 0), Len(log))
Logs ==
  UNION {{[i \in 1..n |-> [time |-> i, partial |-> partial[i]]] : partial \in [1..n -> BOOLEAN]} : n \in 0..5}
ASSUME LoadsAreNew ==
  \A log \in Logs : \A n \in 0..Len(log) :
    LET after == Ring(log) IN
      PartialLoads("internal", {Ring(SubSeq(log, 1, n))}, {after})
      = {Cardinality({i \in DOMAIN after : after[i].partial /\ after[i].time > n})}

-----------------------------------------------------------------------------
Answers(json) == [link : {"up", "refused", "lost"}, status : {200, 400, 500}, json : {{}} \cup {{v} : v \in json}]

(* An answer is taken for success only if it came whole and speaks of what *)
(* was asked, and ComfyUI's refusal of a graph is told from its failure.   *)
ASSUME AnswersAreOurs ==
  /\ \A answer \in Answers([prompt_id : Single({"ours", "another"})]) :
       /\ SubmitCode(answer, "ours") = "ok" =>
            answer.link = "up" /\ answer.status = 200 /\ answer.json = {[prompt_id |-> {"ours"}]}
       /\ SubmitCode(answer, "ours") = "rejected" => answer.link = "up" /\ answer.status = 400
  /\ \A answer \in Answers([name : Single({"a", "b"}), type : Single({"temp", "input"}), subfolder : Single({"", "s"})]) :
       /\ UploadCode(answer, "a", "temp", "s") = "ok"
            => answer.json = {[name |-> {"a"}, type |-> {"temp"}, subfolder |-> {"s"}]}
       /\ UploadCode(answer, "a", "temp", "s") # "ok" \/ UploadCode(answer, "a", "input", "") # "ok"

(* An entry of the queue that does not read hides no other, and a queue  *)
(* with one that holds the job never says that it is gone.               *)
Entry(number, id) == [number |-> number, prompt_id |-> id]
QueueEntries == {Entry({1}, {"ours"}), Entry({2}, {"another"}), Entry({}, {"ours"}), Entry({1}, {})}
Queues == UNION {[1..n -> QueueEntries] : n \in 0..2}
ASSUME UnreadableHidesNothing ==
  \A running, pending \in Queues :
    LET answer(r, p) == [link |-> "up", status |-> 200, json |-> {[running |-> {r}, pending |-> {p}]}]
        Good(entries) == SelectSeq(entries, LAMBDA e : e.number # {} /\ e.prompt_id # {})
        Named(entries) == SelectSeq(entries, LAMBDA e : e.prompt_id # {})
    IN  /\ Holds(answer(running, pending), "ours") = Holds(answer(Named(running), Good(pending)), "ours")
        /\ \A i \in DOMAIN running : running[i].prompt_id = {"ours"} => Holds(answer(running, pending), "ours")
        /\ \A i \in DOMAIN pending : pending[i] = Entry({1}, {"ours"}) => Holds(answer(running, pending), "ours")
        /\ Waiting(answer(running, pending)) =
              {<<CHOOSE n \in e.number : TRUE, CHOOSE id \in e.prompt_id : TRUE>> :
                 e \in {Good(pending)[i] : i \in DOMAIN Good(pending)}}

(* Of a list that is missing nothing is taken for an empty one, a record *)
(* is the job's own, and the attention may stand in either place.        *)
ASSUME PartsAreRead ==
  /\ \A running, pending \in Single({<<>>}), entries \in Single({<<>>}) :
       LET answer(json) == [link |-> "up", status |-> 200, json |-> {json}] IN
         /\ QueueCode(answer([running |-> running, pending |-> pending])) = "ok"
              <=> {} \notin {running, pending}
         /\ LogCode(answer([entries |-> entries])) = "ok" <=> entries # {}
  /\ \A ids \in SUBSET {"ours", "another"} :
       RecordOf([link |-> "up", status |-> 200, json |-> {[id \in ids |-> {id}]}], "ours")
       = {"ours"} \cap ids
  /\ \A first, second \in Single(SUBSET {"sdpa", "kitchen"}) :
       AttentionOffered([link |-> "up", status |-> 200,
                         json |-> {[attention |-> {[options_first |-> first, options_second |-> second]}]}], "kitchen")
       <=> "kitchen" \in UNION (IF first # {} THEN first ELSE second)
=============================================================================
