----------------------------- MODULE MCRequest -----------------------------
EXTENDS Request, CardConfig, Measures, EngineLines, Preflight

(* The card's own file, of a manifest that drafts, loads the vision tower *)
(* and permits a thinking budget, and refuses a min_p.                    *)
Manifest ==
    [plain |-> [MODEL_PROFILE |-> "gemma", VLLM_VERSION |-> "0.30.0",
                MODEL_REPO |-> "heretic", MODEL_REVISION |-> "m", MODEL_FILES |-> "mf",
                TOKENIZER_REPO |-> "heretic", TOKENIZER_REVISION |-> "t", TOKENIZER_FILES |-> "tf",
                DRAFTER_REPO |-> "assistant", DRAFTER_REVISION |-> "d", DRAFTER_FILES |-> "df",
                MODEL_ALIAS |-> "gemma", CONTEXT_TOKENS |-> 65536, MAX_NUM_SEQS |-> 8,
                MTP_SPECULATIVE_TOKENS |-> 3, MIN_P_WHILE_DRAFTING |-> 0, THINKING_BUDGET |-> 1,
                VISION |-> 1, KV_OFFLOADING_GIB |-> 0,
                PUBLIC_PORT |-> 8090, CONTROL_PORT |-> 8091, ENGINE_PORT |-> 8092],
     prefixed |-> [qwen |-> NoVersions, small |-> NoVersions]]

ASSUME Prepared(Manifest) /\ WellFormed(Profiled(Manifest))

CardFile == Config(Profiled(Manifest), [client |-> "c", control |-> "o", metrics |-> {}])

(* And on top of its keys an agent's and an outside key, whose label is the *)
(* name of a scope.                                                         *)
Added(label, classes, default) ==
    [sha256 |-> label, label |-> label, classes |-> classes, default |-> default,
     scopes |-> FALSE, control |-> FALSE]

DataDef ==
    [CardFile EXCEPT !.keys = @ \o <<Added("agents", {"agent"}, "agent"),
                                      Added("agent", {"external"}, "external")>>]

(* vLLM lists a model of its own before the one under the alias.         *)
Listed(id, max_model_len) == [id |-> id, max_model_len |-> max_model_len]
Models == <<Listed("other", {8192}), Listed(Manifest.plain.MODEL_ALIAS, {40960})>>
EngineLengthDef == CHOOSE n \in ContextLength(Models) : TRUE

ASSUME ListsAreRead ==
    /\ LengthCode(Models) = "ok" /\ LengthCode(<<Listed("other", {})>>) = "ok"
    /\ \A length \in {{}, {0}} : LengthCode(<<Listed(Manifest.plain.MODEL_ALIAS, length)>>) = "engine_unavailable"

(* ------------------------- what is counted ---------------------------- *)

BUCKETSDef == <<1, 3, 4>>

PublicMetrics == Started("public", {"generation", "count", "models", "state"})
Rows == [listener : {"public"}, route : {"generation", "count", "state", "unknown"}, method : {"POST", "GET"},
         cls : {"reader", "none"}, status : {{}, {200}, {400}}, code : {"none", "timeout", "invalid_request"},
         accepted : BOOLEAN, cancelled : BOOLEAN, stop : {"none", "timeout", "shutdown"},
         input : {{3}}, output : {{}, {2}}, cached : {{}}, matches : {{FALSE}}]
CountedIn(counts) == {key \in DOMAIN counts : counts[key] # 0}

(* Whatever its row says, a request adds one to one series of its status,   *)
(* and if it is inference to one of its outcome, each there from the start. *)
ASSUME CountedOnce ==
    \A row \in Rows :
        LET after == Ended(PublicMetrics, row)
            inference == row.method = "POST" /\ row.route \in {"generation", "count"}
        IN /\ DOMAIN after.responses = DOMAIN PublicMetrics.responses
           /\ DOMAIN after.requests = DOMAIN PublicMetrics.requests
           /\ Cardinality(CountedIn(after.responses)) = 1
           /\ Cardinality(CountedIn(after.requests)) = IF inference THEN 1 ELSE 0
           /\ \A key \in CountedIn(after.requests) : key[3][1] = "success" => row.code = "none" /\ ~row.cancelled

(* Each bound is told how many stages took no longer.                    *)
ASSUME BucketsTell ==
    \A values \in UNION {[1..n -> -1..5] : n \in 0..3} :
        LET histogram == FoldLeft(Observed, Empty, values)
            told == Told(histogram)
        IN /\ \A i \in DOMAIN BUCKETS :
                told[i] = Cardinality({k \in DOMAIN values : values[k] <= BUCKETS[i]})
           /\ told[Len(BUCKETS) + 1] = histogram.count /\ histogram.count = Len(values)
           /\ histogram.sum = FoldLeft(LAMBDA sum, n : sum + (IF n > 0 THEN n ELSE 0), 0, values)

(* ----------------------- lines of the engine -------------------------- *)

Bytes == {"LF", "CR", "x"}
Bodies5 == UNION {[1..n -> Bytes] : n \in 0..5}
Chunked(body, cuts) ==
    LET from == {1} \cup {c + 1 : c \in cuts}
        End(a) == CHOOSE e \in cuts \cup {Len(body)} :
                    e >= a /\ \A f \in cuts \cup {Len(body)} : f >= a => e <= f
    IN [k \in 1..Cardinality(from) |->
          LET a == CHOOSE a \in from : Cardinality({b \in from : b < a}) = k - 1
          IN SubSeq(body, a, End(a))]

(* However a body is cut into chunks, its lines are the same if none is     *)
(* over the limit, with its return; one that is may break the stream, after *)
(* lines that are those of the whole.                                       *)
LongestLine(body) ==
    LET lengths == {b - a : <<a, b>> \in
                      {<<a, b>> \in (0..Len(body)) \X (0..Len(body)) :
                         a <= b /\ \A i \in (a + 1)..b : body[i] # "LF"}}
    IN CHOOSE n \in lengths : \A m \in lengths : m <= n

ASSUME CutsDoNotShow ==
    \A body \in Bodies5 : Len(body) > 0 =>
        \A cuts \in SUBSET (1..(Len(body) - 1)) :
            LET whole == LinesOf([i \in 1..Len(body) |-> <<body[i]>>])
                read == LinesOf(Chunked(body, cuts))
            IN /\ LongestLine(body) <= MAX_LINE_BYTES => read = whole /\ ~read.broken
               /\ read.broken => LongestLine(body) > MAX_LINE_BYTES
               /\ whole.broken => IsPrefix(whole.lines, read.lines)

(* Each blank line after data ends one event, of the data since the last, *)
(* up to a line that is none of the protocol's.                           *)
WireLines == {[starts |-> "data:", rest |-> "a"], [starts |-> "data:", rest |-> "b"],
              [starts |-> ":", rest |-> ""], [starts |-> "blank", rest |-> ""], [starts |-> "other", rest |-> ""]}

ASSUME EventsAreGroups ==
    \A lines \in UNION {[1..n -> WireLines] : n \in 0..5} :
        LET Before(i) == \A j \in 1..i : lines[j].starts # "other"
            Since(i) == {0} \cup {j \in 1..(i - 1) : lines[j].starts = "blank"}
            DataAt(i) == SelectSeq(SubSeq(lines, 1 + (CHOOSE j \in Since(i) : \A k \in Since(i) : k <= j), i),
                                 LAMBDA line : line.starts = "data:")
            ends == {i \in DOMAIN lines : Before(i) /\ lines[i].starts = "blank" /\ DataAt(i) # <<>>}
            events == EventsOf(lines)
        IN /\ Len(events) = Cardinality(ends)
           /\ \A i \in ends : events[Cardinality({e \in ends : e <= i})]
                              = [k \in DOMAIN DataAt(i) |-> DataAt(i)[k].rest]

(* ------------------ what the container must have ---------------------- *)

Readings == {[read |-> FALSE, number |-> {}]} \cup [read : {TRUE}, number : {{}, {700}, {5000}}]

(* The limit in force is the smaller of the two that are known; cgroup v1 *)
(* is not read where there is v2's file.                                  *)
ASSUME LimitsAreRead ==
    \A total \in {{}, {900}}, v2, v1 \in Readings :
        memory_limit_mib(total, v2, v1) =
            IF (IF v2.read THEN v2 ELSE v1).number = {700} THEN {700 \div MIB}
            ELSE {n \div MIB : n \in total}

(* A file that is there in part is fetched from where it ends.           *)
ASSUME PartsAreKept ==
    \A size, whole, part \in 0..3 :
        missing_bytes(<<[size |-> size, whole |-> {whole}, part |-> {part}], [size |-> 2, whole |-> {}, part |-> {}]>>)
        = 2 + Cardinality((1..size) \ ((1..whole) \cup (1..part)))
=============================================================================
