--------------------------- MODULE Configuration ---------------------------
(****************************************************************************)
(* The gateways' configuration files: what `load` refuses to start with,    *)
(* and the configuration it returns (config.py, pictures/config.py).  A     *)
(* file is a record, whose optional fields may be left out.  A value of     *)
(* another JSON type counts as one that is out of its range, a null as a    *)
(* field left out, and seconds are whole.  Of the versions only those are   *)
(* told apart that the gateway reads, and the count among them is a number. *)
(****************************************************************************)
EXTENDS Integers, Sequences

(* The largest port, and the limits of a body and of an upload that a file *)
(* may leave out.                                                          *)
LastPort == 65535
BodyLimit == 4194304
PictureBodyLimit == 1048576
UploadLimit == 10485760

Classes == {"reader", "agent", "internal", "external"}

Get(d, field, default) == IF field \in DOMAIN d THEN d[field] ELSE default

(* _fields, and the fields that have no default.                         *)
HasFields(d, required, optional) ==
    required \subseteq DOMAIN d /\ DOMAIN d \subseteq required \cup optional

AtLeast(n, minimum) == n \in Int /\ n >= minimum
Seconds(s) == s \in Int /\ s > 0

(* A number that may be null, as a set of at most one.                   *)
OptionalAtLeast(o, minimum) == \A n \in o : AtLeast(n, minimum)

(* _is_loopback: the two stand for 127.0.0.0/8 and ::1.  A name is none. *)
IsLoopback(host) == host \in {"127.0.0.1", "::1"}

EngineUrlAccepted(url) == url.scheme \in {"http", "https"} /\ IsLoopback(url.host)

ListenerAccepted(l) ==
    HasFields(l, {"host", "port"}, {}) /\ l.host # "" /\ AtLeast(l.port, 0) /\ l.port <= LastPort

(* The control routes are reached from the machine alone.                *)
ListenAccepted(listen) ==
    /\ HasFields(listen, {"public", "control"}, {})
    /\ ListenerAccepted(listen.public) /\ ListenerAccepted(listen.control)
    /\ IsLoopback(listen.control.host)

-----------------------------------------------------------------------------
(* _key: an outside key uses the class external only, names no scopes and *)
(* sends no pictures.                                                     *)
KeyAccepted(e) ==
    /\ HasFields(e, {"sha256", "label", "classes", "scopes", "control"}, {"default", "metrics", "vision"})
    /\ e.classes \subseteq Classes
    /\ Get(e, "default", "absent") \in e.classes \cup {"absent"}
    /\ e.label # ""
    /\ e.scopes \in BOOLEAN /\ e.control \in BOOLEAN
    /\ Get(e, "metrics", FALSE) \in BOOLEAN /\ Get(e, "vision", FALSE) \in BOOLEAN
    /\ "external" \in e.classes => e.classes = {"external"} /\ ~e.scopes /\ ~Get(e, "vision", FALSE)

KeyOf(e) ==
    [digest |-> e.sha256, label |-> e.label, classes |-> e.classes, default |-> Get(e, "default", "absent"),
     scopes |-> e.scopes, control |-> e.control, metrics |-> Get(e, "metrics", FALSE),
     vision |-> Get(e, "vision", FALSE)]

(* The keys of either gateway: at least one, with digests and labels of  *)
(* their own.                                                            *)
KeysAccepted(keys) ==
    /\ keys # <<>>
    /\ \A i \in DOMAIN keys : KeyAccepted(keys[i])
    /\ \A i, j \in DOMAIN keys :
           i # j => keys[i].sha256 # keys[j].sha256 /\ keys[i].label # keys[j].label

KeysOf(keys) == {KeyOf(keys[i]) : i \in DOMAIN keys}

-----------------------------------------------------------------------------
(* The text gateway.                                                     *)
ClassLimitsAccepted(l) ==
    /\ HasFields(l, {"active", "waiting", "max_tokens", "wall_s"}, {"input_tokens"})
    /\ AtLeast(l.active, 1) /\ AtLeast(l.waiting, 0) /\ AtLeast(l.max_tokens, 1) /\ Seconds(l.wall_s)
    /\ OptionalAtLeast(Get(l, "input_tokens", {}), 1)

LimitsAccepted(l) ==
    /\ HasFields(l, Classes \cup {"external_per_key", "shared"}, {})
    /\ \A c \in Classes : ClassLimitsAccepted(l[c])
    /\ HasFields(l.external_per_key, {"active", "waiting"}, {})
    /\ AtLeast(l.external_per_key.active, 1) /\ AtLeast(l.external_per_key.waiting, 0)
    /\ HasFields(l.shared, {"active"}, {}) /\ AtLeast(l.shared.active, 1)

CountLimitsAccepted(l) ==
    /\ HasFields(l, {"active", "per_outside_key"}, {})
    /\ AtLeast(l.active, 1) /\ AtLeast(l.per_outside_key, 1)

PriorityAccepted(p) == HasFields(p, Classes, {}) /\ \A c \in Classes : p[c] \in Int

(* The entries of `versions` that permit a request's fields.             *)
VersionsAccepted(v) ==
    /\ "mtp_speculative_tokens" \in DOMAIN v => AtLeast(v["mtp_speculative_tokens"], 1)
    /\ "min_p_while_drafting" \in DOMAIN v =>
           v["min_p_while_drafting"] = "on" /\ "mtp_speculative_tokens" \in DOMAIN v
    /\ "thinking_budget" \in DOMAIN v => v["thinking_budget"] = "on"
    /\ "vision" \in DOMAIN v => v["vision"] = "1"

Required == {"alias", "engine_url", "listen", "keys", "limits", "count_limits", "engine_priority",
             "drain_deadline_s"}
Optional == {"context_tokens", "body_limit_bytes", "max_connections", "idle_timeout_s",
             "health_interval_s", "versions", "warm_up"}

NoVersions == [n \in {} |-> ""]
Versions(d) == Get(d, "versions", NoVersions)

(* load and _config: the files the text gateway starts with.             *)
Accepted(d) ==
    /\ HasFields(d, Required, Optional)
    /\ KeysAccepted(d.keys)
    /\ LimitsAccepted(d.limits) /\ CountLimitsAccepted(d.count_limits)
    /\ PriorityAccepted(d.engine_priority)
    /\ EngineUrlAccepted(d.engine_url) /\ ListenAccepted(d.listen)
    /\ VersionsAccepted(Versions(d))
    /\ (\E i \in DOMAIN d.keys : Get(d.keys[i], "vision", FALSE)) => "vision" \in DOMAIN Versions(d)
    /\ d.alias # ""
    /\ OptionalAtLeast(Get(d, "context_tokens", {}), 1)
    /\ AtLeast(Get(d, "body_limit_bytes", BodyLimit), 1) /\ AtLeast(Get(d, "max_connections", 64), 1)
    /\ Seconds(d.drain_deadline_s) /\ Seconds(Get(d, "idle_timeout_s", 780))
    /\ Seconds(Get(d, "health_interval_s", 5))
    /\ Get(d, "warm_up", FALSE) \in BOOLEAN

ClassLimitsOf(l) ==
    [active |-> l.active, waiting |-> l.waiting, input_tokens |-> Get(l, "input_tokens", {}),
     max_tokens |-> l.max_tokens, wall_s |-> l.wall_s]

(* The Config it returns.                                                *)
ConfigOf(d) ==
    [alias |-> d.alias, engine_url |-> d.engine_url, public |-> d.listen.public, control |-> d.listen.control,
     context_tokens |-> Get(d, "context_tokens", {}), keys |-> KeysOf(d.keys),
     limits |-> [c \in Classes |-> ClassLimitsOf(d.limits[c])],
     per_key_active |-> d.limits.external_per_key.active,
     per_key_waiting |-> d.limits.external_per_key.waiting,
     shared_places |-> d.limits.shared.active,
     count_active |-> d.count_limits.active, count_per_outside_key |-> d.count_limits.per_outside_key,
     engine_priority |-> [c \in Classes |-> d.engine_priority[c]],
     body_limit_bytes |-> Get(d, "body_limit_bytes", BodyLimit),
     max_connections |-> Get(d, "max_connections", 64),
     drain_deadline_s |-> d.drain_deadline_s, idle_timeout_s |-> Get(d, "idle_timeout_s", 780),
     health_interval_s |-> Get(d, "health_interval_s", 5), warm_up |-> Get(d, "warm_up", FALSE),
     speculative |-> "mtp_speculative_tokens" \in DOMAIN Versions(d),
     min_p_while_drafting |-> "min_p_while_drafting" \in DOMAIN Versions(d),
     thinking_budget |-> "thinking_budget" \in DOMAIN Versions(d),
     vision |-> "vision" \in DOMAIN Versions(d)]

-----------------------------------------------------------------------------
(* The picture gateway (pictures/config.py): no outside key, no pictures to *)
(* send, and limits of jobs and uploads that may be 0.                      *)
PictureLimitsAccepted(l) ==
    /\ HasFields(l, Classes, {})
    /\ \A c \in Classes : /\ HasFields(l[c], {"jobs", "wall_s", "uploads"}, {})
                          /\ AtLeast(l[c].jobs, 0) /\ Seconds(l[c].wall_s) /\ AtLeast(l[c].uploads, 0)

PictureRequired == {"lane", "alias", "engine_url", "listen", "keys", "limits", "reader_nodes", "expect",
                    "drain_deadline_s"}
PictureOptional == {"idle_timeout_s", "health_interval_s", "max_connections", "body_limit_bytes",
                    "upload_limit_bytes", "max_nodes", "versions"}

ExpectAccepted(e) ==
    /\ HasFields(e, {"comfyui", "pytorch", "triton"}, {})
    /\ e.comfyui # "" /\ e.pytorch # "" /\ e.triton \in BOOLEAN

PictureAccepted(d) ==
    /\ HasFields(d, PictureRequired, PictureOptional)
    /\ d.lane = "pictures"
    /\ KeysAccepted(d.keys)
    /\ \A i \in DOMAIN d.keys : ~Get(d.keys[i], "vision", FALSE) /\ "external" \notin d.keys[i].classes
    /\ PictureLimitsAccepted(d.limits) /\ ListenAccepted(d.listen)
    /\ EngineUrlAccepted(d.engine_url) /\ ExpectAccepted(d.expect)
    /\ d.reader_nodes # {} /\ d.alias # ""
    /\ Seconds(d.drain_deadline_s) /\ Seconds(Get(d, "idle_timeout_s", 780))
    /\ Seconds(Get(d, "health_interval_s", 5))
    /\ AtLeast(Get(d, "max_connections", 64), 1) /\ AtLeast(Get(d, "body_limit_bytes", PictureBodyLimit), 1)
    /\ AtLeast(Get(d, "upload_limit_bytes", UploadLimit), 1) /\ AtLeast(Get(d, "max_nodes", 64), 1)

PictureConfigOf(d) ==
    [alias |-> d.alias, engine_url |-> d.engine_url, public |-> d.listen.public, control |-> d.listen.control,
     keys |-> KeysOf(d.keys), limits |-> d.limits, reader_nodes |-> d.reader_nodes, expect |-> d.expect,
     drain_deadline_s |-> d.drain_deadline_s, idle_timeout_s |-> Get(d, "idle_timeout_s", 780),
     health_interval_s |-> Get(d, "health_interval_s", 5), max_connections |-> Get(d, "max_connections", 64),
     body_limit_bytes |-> Get(d, "body_limit_bytes", PictureBodyLimit),
     upload_limit_bytes |-> Get(d, "upload_limit_bytes", UploadLimit), max_nodes |-> Get(d, "max_nodes", 64)]
=============================================================================
