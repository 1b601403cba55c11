----------------------------- MODULE CardConfig -----------------------------
(***************************************************************************)
(* What a card makes of its manifest: what the preparation refuses         *)
(* (card/bootstrap.sh, card/pictures/bootstrap.sh), the engine's arguments *)
(* and the gateway's configuration file (card.py, pictures/card.py).       *)
(*                                                                         *)
(* A manifest is [plain, prefixed]: its names without a profile's prefix,  *)
(* and for each profile those with its prefix, which is left off.  Its     *)
(* numbers are numbers and its switches 0 or 1; a value that its pattern   *)
(* refuses is out of its range.  The paths of weights and tokenizers are   *)
(* the revisions that name them.                                           *)
(***************************************************************************)
EXTENDS Configuration

Profiles == {"qwen", "small"}

(* f, with the values of g where it has any: {**f, **g}.                 *)
Overlaid(f, g) == [n \in DOMAIN f \cup DOMAIN g |-> IF n \in DOMAIN g THEN g[n] ELSE f[n]]

Profile(m) == Get(m.plain, "MODEL_PROFILE", "gemma")

(* profiled: with a profile, its names stand for those without its prefix. *)
Profiled(m) == IF Profile(m) \in Profiles THEN Overlaid(m.plain, m.prefixed[Profile(m)]) ELSE m.plain

(* The pins that a profile has to name itself.                           *)
Own(profile, drafts) ==
    {"MODEL_REPO", "MODEL_REVISION", "MODEL_FILES", "TOKENIZER_REPO", "TOKENIZER_REVISION",
     "TOKENIZER_FILES", "MTP_SPECULATIVE_TOKENS"}
    \cup (IF profile = "qwen" THEN {"MODEL_SIZES", "MIN_COMPUTE_CAP", "MIN_GPU_MIB"} ELSE {})
    \cup (IF profile = "small" /\ drafts THEN {"DRAFTER_REPO", "DRAFTER_REVISION", "DRAFTER_FILES"} ELSE {})

Pins == {"VLLM_VERSION", "MODEL_REPO", "MODEL_REVISION", "MODEL_FILES", "TOKENIZER_REPO",
         "TOKENIZER_REVISION", "TOKENIZER_FILES"}

Switch(p, name) == name \in DOMAIN p /\ p[name] \in {0, 1}
Count(p, name) == name \in DOMAIN p /\ p[name] \in Nat

(* The checks of bootstrap.sh on a manifest as its profile reads it.     *)
Preparable(p, profile) ==
    /\ Pins \subseteq DOMAIN p
    /\ Count(p, "MTP_SPECULATIVE_TOKENS") /\ Count(p, "KV_OFFLOADING_GIB")
    /\ Switch(p, "THINKING_BUDGET") /\ Switch(p, "VISION") /\ Switch(p, "MIN_P_WHILE_DRAFTING")
    /\ Get(p, "WARM_UP", 0) \in {0, 1}
    /\ profile = "gemma" \/ p["VISION"] = 0
    /\ Get(p, "KV_CACHE_MEMORY_MIB", 0) \in Nat /\ Get(p, "GENERATIONS_AT_ONCE", 0) \in Nat
    /\ Get(p, "GENERATIONS_AT_ONCE", 0) <= p["MAX_NUM_SEQS"]
    /\ p["MTP_SPECULATIVE_TOKENS"] # 0 /\ profile # "qwen" =>
           {"DRAFTER_REPO", "DRAFTER_REVISION", "DRAFTER_FILES"} \subseteq DOMAIN p

Prepared(m) ==
    /\ Profile(m) \in Profiles \cup {"gemma"}
    /\ Profile(m) \in Profiles =>
           Own(Profile(m), Profiled(m)["MTP_SPECULATIVE_TOKENS"] # 0) \subseteq DOMAIN m.prefixed[Profile(m)]
    /\ Preparable(Profiled(m), Profile(m))

(* What nothing checks before the launcher reads it: the names that vLLM and *)
(* the gateway are started with.                                             *)
WellFormed(p) ==
    /\ {"MODEL_ALIAS", "CONTEXT_TOKENS", "MAX_NUM_SEQS", "PUBLIC_PORT", "CONTROL_PORT", "ENGINE_PORT"} \subseteq DOMAIN p
    /\ p["MODEL_ALIAS"] # "" /\ AtLeast(p["CONTEXT_TOKENS"], 1) /\ AtLeast(p["MAX_NUM_SEQS"], 1)
    /\ \A name \in {"PUBLIC_PORT", "CONTROL_PORT", "ENGINE_PORT"} : p[name] \in 0..LastPort

(* The digests on the card: two or three that differ, metrics as a set of *)
(* at most one.                                                           *)
CardKeysAccepted(k) ==
    /\ k.client # k.control
    /\ \A x \in k.metrics : x \notin {k.client, k.control}
    /\ \A x, y \in k.metrics : x = y

-----------------------------------------------------------------------------
(* Card.engine, and what adds to it: speculation, offloading, reasoning, *)
(* matching, cache, vision and runner.                                   *)
Drafts(p) == p["MTP_SPECULATIVE_TOKENS"] # 0

DraftsAndFilters(p) == Drafts(p) /\ p["MIN_P_WHILE_DRAFTING"] # 0

Drafter(p, profile) ==
    IF ~Drafts(p) THEN "none" ELSE IF profile = "qwen" THEN "own layer" ELSE p["DRAFTER_REVISION"]

Images(p, profile) == IF p["VISION"] = 0 \/ profile \in Profiles THEN 0 ELSE 1

Engine(p, profile) ==
    [model |-> p["MODEL_REVISION"], tokenizer |-> p["TOKENIZER_REVISION"],
     alias |-> p["MODEL_ALIAS"], host |-> "127.0.0.1", port |-> p["ENGINE_PORT"],
     context |-> p["CONTEXT_TOKENS"], seqs |-> p["MAX_NUM_SEQS"],
     parser |-> IF profile = "qwen" THEN "qwen3" ELSE "gemma4",
     markers |-> IF p["THINKING_BUDGET"] = 0 THEN "parser's own"
                 ELSE IF profile = "qwen" THEN "qwen3" ELSE "gemma4",
     drafted |-> p["MTP_SPECULATIVE_TOKENS"], drafter |-> Drafter(p, profile),
     runner |-> IF DraftsAndFilters(p) THEN "v2" ELSE "any",
     offload_gib |-> p["KV_OFFLOADING_GIB"], match_unit |-> Get(p, "PREFIX_MATCH_UNIT", 0),
     cache_mib |-> Get(p, "KV_CACHE_MEMORY_MIB", 0), images |-> Images(p, profile)]

(* vLLM's file with the line that refuses a min_p lifted, as bootstrap.sh *)
(* leaves it.                                                             *)
Lifted(p) == p["MIN_P_WHILE_DRAFTING"] = 1 /\ Drafts(p)

-----------------------------------------------------------------------------
(* Card.config.                                                          *)
ProvisionalLimits ==
    [reader |-> [active |-> 4, waiting |-> 8, max_tokens |-> 8192, wall_s |-> 300],
     agent |-> [active |-> 1, waiting |-> 2, max_tokens |-> 8192, wall_s |-> 900],
     internal |-> [active |-> 2, waiting |-> 8, max_tokens |-> 8192, wall_s |-> 900],
     external |-> [active |-> 2, waiting |-> 4, input_tokens |-> {8192}, max_tokens |-> 1024, wall_s |-> 120],
     external_per_key |-> [active |-> 1, waiting |-> 2],
     shared |-> [active |-> 4]]

Limits(p) ==
    LET n == Get(p, "GENERATIONS_AT_ONCE", 0)
        Times(c) == Overlaid(ProvisionalLimits[c], [active |-> n])
    IN IF n = 0 THEN ProvisionalLimits
       ELSE Overlaid(ProvisionalLimits, [shared |-> [active |-> n], reader |-> Times("reader"),
                                         agent |-> Times("agent"), internal |-> Times("internal")])

(* pinned_versions, as far as the gateway reads them.                    *)
PinnedNames(p) ==
    (IF Drafts(p) THEN {"mtp_speculative_tokens"} ELSE {})
    \cup (IF DraftsAndFilters(p) THEN {"min_p_while_drafting"} ELSE {})
    \cup (IF p["THINKING_BUDGET"] # 0 THEN {"thinking_budget"} ELSE {})
    \cup (IF p["VISION"] # 0 THEN {"vision"} ELSE {})

PinnedVersions(p) ==
    [n \in PinnedNames(p) |-> IF n = "mtp_speculative_tokens" THEN p["MTP_SPECULATIVE_TOKENS"]
                              ELSE IF n = "vision" THEN "1" ELSE "on"]

Listen(p) ==
    [public |-> [host |-> "127.0.0.1", port |-> p["PUBLIC_PORT"]],
     control |-> [host |-> "127.0.0.1", port |-> p["CONTROL_PORT"]]]

EngineUrl(p) == [scheme |-> "http", host |-> "127.0.0.1", port |-> p["ENGINE_PORT"]]

(* Card.keys: the client's, the control key and the metrics key, if any. *)
ClientKey(k) ==
    [sha256 |-> k.client, label |-> "client", classes |-> {"reader", "agent", "internal"},
     default |-> "internal", scopes |-> TRUE, control |-> FALSE]
ControlKey(k) ==
    [sha256 |-> k.control, label |-> "control", classes |-> {}, scopes |-> FALSE, control |-> TRUE]
MetricsKey(x) ==
    [sha256 |-> x, label |-> "metrics", classes |-> {}, scopes |-> FALSE, control |-> FALSE, metrics |-> TRUE]

CardKeys(k) ==
    IF k.metrics = {} THEN <<ClientKey(k), ControlKey(k)>>
    ELSE <<ClientKey(k), ControlKey(k), MetricsKey(CHOOSE x \in k.metrics : TRUE)>>

(* The client's key may send pictures while vLLM takes them.             *)
SightedKeys(p, k) ==
    IF p["VISION"] = 0 THEN CardKeys(k)
    ELSE [CardKeys(k) EXCEPT ![1] = Overlaid(ClientKey(k), [vision |-> TRUE])]

Config(p, k) ==
    [alias |-> p["MODEL_ALIAS"], context_tokens |-> {p["CONTEXT_TOKENS"]}, engine_url |-> EngineUrl(p),
     listen |-> Listen(p), keys |-> SightedKeys(p, k), limits |-> Limits(p),
     count_limits |-> [active |-> 8, per_outside_key |-> 2],
     engine_priority |-> [reader |-> 0, agent |-> 1, internal |-> 2, external |-> 3],
     body_limit_bytes |-> BodyLimit, drain_deadline_s |-> 60,
     versions |-> PinnedVersions(p), warm_up |-> Get(p, "WARM_UP", 0) = 1]

-----------------------------------------------------------------------------
(* The picture card.                                                     *)
PictureSettings == {"GPU_DIR", "IMAGE_QWEN", "IMAGE_TORCH", "IMAGE_TRITON", "IMAGE_GPU", "ENGINE_PORT"}

PicturePrepared(p) ==
    /\ {"MODEL_ALIAS", "LOAD_DEADLINE_S", "PUBLIC_PORT", "CONTROL_PORT", "READER_NODES"}
       \cup PictureSettings \subseteq DOMAIN p
    /\ p["MODEL_ALIAS"] # "" /\ p["READER_NODES"] # {}
    /\ p["IMAGE_QWEN"] = "only" /\ p["IMAGE_TORCH"] = "cu130" /\ p["IMAGE_TRITON"] \in {0, 1}

PictureWellFormed(p) ==
    \A name \in {"PUBLIC_PORT", "CONTROL_PORT", "ENGINE_PORT"} : p[name] \in 0..LastPort

(* PictureCard.engine: image-serve.sh with the manifest's settings, Viggle's *)
(* node off, under the lock that the old start takes.                        *)
PictureEngine(p) ==
    [settings |-> [s \in PictureSettings |-> p[s]], viggle |-> FALSE, lock |-> ".simple-chat-comfy.lock"]

PictureLimitsOf ==
    [reader |-> [jobs |-> 32, wall_s |-> 1860, uploads |-> 32],
     agent |-> [jobs |-> 4, wall_s |-> 1860, uploads |-> 16],
     internal |-> [jobs |-> 32, wall_s |-> 3600, uploads |-> 32],
     external |-> [jobs |-> 0, wall_s |-> 60, uploads |-> 0]]

(* PictureCard.config, with the pins of the copied image-manifest.env.   *)
PictureConfig(p, pins, k) ==
    [lane |-> "pictures", alias |-> p["MODEL_ALIAS"], engine_url |-> EngineUrl(p), listen |-> Listen(p),
     keys |-> CardKeys(k), limits |-> PictureLimitsOf, drain_deadline_s |-> 60,
     reader_nodes |-> p["READER_NODES"],
     expect |-> [comfyui |-> pins["COMFYUI_VERSION"], pytorch |-> pins["TORCH_CU130_VERSION"],
                 triton |-> p["IMAGE_TRITON"] = 1],
     versions |-> NoVersions]
=============================================================================
