---------------------------- MODULE PictureGraph ----------------------------
(***************************************************************************)
(* What a picture request may be and touch on the card                     *)
(* (src/simple_serving/pictures/graphs.py, routes.py), before anything     *)
(* reaches it.                                                             *)
(*                                                                         *)
(* A graph is a function from the ids of its nodes.  Of a node it matters  *)
(* whether id and fields are the API format's, its class, the text that is *)
(* its input `image` ({} if that is none), the texts anywhere in its other *)
(* inputs, which _strings finds at any depth, and the nonce it was given.  *)
(* Of a text it matters which file it reads: an upload by its name in the  *)
(* temp directory, another temporary file, a plain name of the input       *)
(* directory, or none.                                                     *)
(***************************************************************************)
EXTENDS Naturals, Sequences, FiniteSets

Text == [reads : {"upload", "temp", "plain", "none"}, name : STRING]

UPLOAD_TYPES == [png |-> "image/png", jpg |-> "image/jpeg", webp |-> "image/webp"]
PICTURE_FIELDS == {"graph", "copies", "require_socket"}
MAX_COPIES == 16

Texts(node) == node.image \cup node.others

(* `owns`: the names of the live uploads of the caller's scope.          *)
OwnUpload(text, owns) == text.reads = "upload" /\ text.name \in owns

(* ComfyUI loads an image from its own upload, and for `internal` also   *)
(* from the input directory.                                             *)
ImageAllowed(node, cls, owns) ==
  node.class_type = {"LoadImage"} =>
    \E text \in node.image : OwnUpload(text, owns) \/ (cls = "internal" /\ text.reads = "plain")

NodeAllowed(node, cls, reader_nodes, owns) ==
  /\ node.proper /\ node.class_type # {}
  /\ cls # "internal" => node.class_type \subseteq reader_nodes
  /\ ImageAllowed(node, cls, owns)
  /\ \A text \in Texts(node) : text.reads \in {"upload", "temp"} => OwnUpload(text, owns)

CopiesAllowed(copies, graph) ==
  /\ Len(copies) <= MAX_COPIES
  /\ \A i, j \in 1..Len(copies) : copies[i] \in DOMAIN graph /\ (copies[i] = copies[j] => i = j)

GraphAllowed(graph, copies, cls, reader_nodes, max_nodes, owns) ==
  /\ Cardinality(DOMAIN graph) \in 1..max_nodes
  /\ \A id \in DOMAIN graph : NodeAllowed(graph[id], cls, reader_nodes, owns)
  /\ CopiesAllowed(copies, graph)

(* How many references the job reads: what `queued` says of it.          *)
References(graph, owns) ==
  Cardinality({id \in DOMAIN graph :
    graph[id].class_type = {"LoadImage"} /\ \E text \in graph[id].image : OwnUpload(text, owns)})

(* The code of a body that is an object; `graph` is {} where it has none. *)
PictureCode(body, cls, reader_nodes, max_nodes, owns) ==
  IF ~(body.fields \subseteq PICTURE_FIELDS) THEN "unsupported_field"
  ELSE IF body.graph = {} \/ ~body.flagIsBoolean THEN "invalid_request"
  ELSE IF \E graph \in body.graph : ~GraphAllowed(graph, body.copies, cls, reader_nodes, max_nodes, owns)
  THEN "graph_refused" ELSE "ok"

(* What is submitted: every preview node with a fresh key, so that none  *)
(* answers from an earlier job's output, whose file is gone.             *)
WithNonce(graph, nonce) ==
  [id \in DOMAIN graph |-> IF graph[id].class_type = {"PreviewImage"}
                           THEN [graph[id] EXCEPT !.nonce = {nonce}] ELSE graph[id]]

(* A reference to upload: the type that its name, its header and its first    *)
(* bytes say must be one, where `extension` is {} for a name of another form. *)
UploadAllowed(extension, content_type, magic) ==
  /\ \E e \in extension : content_type = {UPLOAD_TYPES[e]}
  /\ magic = content_type
=============================================================================
