--------------------------- MODULE RequestProofs ---------------------------
(***************************************************************************)
(* A request, for every configuration the gateway accepts, every engine,   *)
(* client and order of its stops; and what the card hands the gateway.     *)
(*                                                                         *)
(* First the checks and the caches: the salts of two callers are equal     *)
(* only where they may share the engine's prefix cache.  Then the answers: *)
(* the few sequences of messages that a client may have been sent, what    *)
(* each message makes of them, and what a row may say at each of them.     *)
(* IInv ties the handler, the task, the stop, the row, what waits and what *)
(* has been sent together; every action keeps it.  Last, the file and the  *)
(* arguments that the launcher writes, and the offers that can be planned. *)
(***************************************************************************)
EXTENDS Request, CardConfig, Preflight, SequenceTheorems, WellFoundedInduction, TLAPS

(* ------------------------- checks and verdicts -------------------------- *)

(* A verdict is "ok" when no check fails, and the code of one that fails *)
(* otherwise.                                                            *)
LEMMA Verdicts ==
  ASSUME NEW checks, NEW n \in Nat, DOMAIN checks = 1..n
  PROVE  \/ Verdict(checks) = "ok" /\ \A i \in 1..n : ~checks[i].fails
         \/ \E i \in 1..n : checks[i].fails /\ Verdict(checks) = checks[i].code
<1> DEFINE failed == {i \in DOMAIN checks : checks[i].fails}
           first == CHOOSE i \in failed : \A j \in failed : i <= j
<1>1. CASE failed = {}
  BY <1>1 DEF Verdict
<1>2. CASE failed # {}
  <2>1. failed \subseteq Nat
    OBVIOUS
  <2> HIDE DEF failed
  <2>2. \E i \in failed : \A j \in failed : ~(<<j, i>> \in OpToRel(<, Nat))
    BY <1>2, <2>1, WFMin, NatLessThanWellFounded
  <2>3. \E i \in failed : \A j \in failed : i <= j
    <3>1. PICK i \in failed : \A j \in failed : ~(<<j, i>> \in OpToRel(<, Nat))
      BY <2>2
    <3>2. \A j \in failed : j \in Nat /\ i \in Nat /\ ~(j < i)
      BY <2>1, <3>1 DEF OpToRel
    <3> QED BY <3>2
  <2>4. first \in failed
    BY <2>3
  <2>5. Verdict(checks) = checks[first].code
    BY <1>2 DEF Verdict, failed
  <2> HIDE DEF first
  <2> QED BY <2>4, <2>5 DEF failed
<1> QED BY <1>1, <1>2

LEMMA VerdictCodes ==
  ASSUME NEW C, NEW S, \A x \in S : x.fails => x.code \in C, NEW checks \in Seq(S)
  PROVE  Verdict(checks) \in C \cup {"ok"}
<1>1. Len(checks) \in Nat /\ DOMAIN checks = 1..Len(checks)
  OBVIOUS
<1>2. \A i \in 1..Len(checks) : checks[i].fails => checks[i].code \in C
  OBVIOUS
<1> QED BY <1>1, <1>2, Verdicts

LEMMA SixChecks ==
  ASSUME NEW a, NEW b, NEW c, NEW d, NEW e, NEW f
  PROVE  /\ DOMAIN <<a, b, c, d, e, f>> = 1..6
         /\ <<a, b, c, d, e, f>>[1] = a
         /\ <<a, b, c, d, e, f>>[2] = b
         /\ <<a, b, c, d, e, f>>[3] = c
         /\ <<a, b, c, d, e, f>>[4] = d
         /\ <<a, b, c, d, e, f>>[5] = e
         /\ <<a, b, c, d, e, f>>[6] = f
OBVIOUS

LEMMA AuthorizeCodes ==
  ASSUME NEW k, NEW status, NEW c, NEW s, status \in Statuses
  PROVE  Authorize(k, status, c, s) \in
           {"unauthorized", "starting", "draining", "drained", "engine_unavailable", "class_not_allowed",
            "scope_not_allowed", "invalid_request", "ok"}
<1> DEFINE C == {"unauthorized", "starting", "draining", "drained", "engine_unavailable", "class_not_allowed",
                 "scope_not_allowed", "invalid_request", "ready"}
           c1 == Check(k = NoKey, "unauthorized")
           c2 == Serving(status)
           c3 == Check(ClassOf(k, c) \notin k.classes, "class_not_allowed")
           c4 == Check(s # "absent" /\ ~k.scopes, "scope_not_allowed")
           c5 == Check(~Outside(k) /\ s = "other", "invalid_request")
           c6 == Check(ClassOf(k, c) = "reader" /\ ScopeOf(k, c, s) \notin ReaderScopes, "invalid_request")
           checks == <<c1, c2, c3, c4, c5, c6>>
<1>1. c1.code \in C /\ c3.code \in C /\ c4.code \in C /\ c5.code \in C /\ c6.code \in C
  BY DEF Check
<1>2. c2.code \in C /\ (c2.fails => c2.code # "ready")
  BY DEF Check, Serving, Statuses
<1>3. (c1.code # "ready" /\ c3.code # "ready") /\ c4.code # "ready" /\ c5.code # "ready" /\ c6.code # "ready"
  BY DEF Check
<1>4. Authorize(k, status, c, s) = Verdict(checks)
  BY DEF Authorize
<1> HIDE DEF c1, c2, c3, c4, c5, c6
<1>5. \/ Verdict(checks) = "ok"
      \/ \E i \in 1..6 : checks[i].fails /\ Verdict(checks) = checks[i].code
  <2>1. DOMAIN checks = 1..6
    BY SixChecks
  <2> HIDE DEF checks
  <2> QED BY <2>1, Verdicts
<1>6. \A i \in 1..6 : checks[i].fails => checks[i].code \in C \ {"ready"}
  BY <1>1, <1>2, <1>3, SixChecks
<1> HIDE DEF checks
<1> QED BY <1>4, <1>5, <1>6 DEF C

(* An authorized caller has a key, whose class and scope it may use.     *)
LEMMA AuthorizedCaller ==
  ASSUME NEW k, NEW status, NEW c, NEW s, Authorize(k, status, c, s) = "ok", status \in Statuses
  PROVE  /\ k # NoKey
         /\ ClassOf(k, c) \in k.classes
         /\ s # "absent" => k.scopes
         /\ ~Outside(k) => s # "other"
         /\ ClassOf(k, c) = "reader" => ScopeOf(k, c, s) \in ReaderScopes
<1> DEFINE c1 == Check(k = NoKey, "unauthorized")
           c2 == Serving(status)
           c3 == Check(ClassOf(k, c) \notin k.classes, "class_not_allowed")
           c4 == Check(s # "absent" /\ ~k.scopes, "scope_not_allowed")
           c5 == Check(~Outside(k) /\ s = "other", "invalid_request")
           c6 == Check(ClassOf(k, c) = "reader" /\ ScopeOf(k, c, s) \notin ReaderScopes, "invalid_request")
           checks == <<c1, c2, c3, c4, c5, c6>>
<1>1. c1.code # "ok" /\ c2.code # "ok" /\ c3.code # "ok" /\ c4.code # "ok" /\ c5.code # "ok" /\ c6.code # "ok"
  BY DEF Check, Serving, Statuses
<1>2. Verdict(checks) = "ok"
  BY DEF Authorize
<1>3. (c1.fails <=> k = NoKey) /\ (c3.fails <=> ClassOf(k, c) \notin k.classes)
  BY DEF Check
<1>4. c4.fails <=> s # "absent" /\ ~k.scopes
  BY DEF Check
<1>5. c5.fails <=> ~Outside(k) /\ s = "other"
  BY DEF Check
<1>6. c6.fails <=> ClassOf(k, c) = "reader" /\ ScopeOf(k, c, s) \notin ReaderScopes
  BY DEF Check
<1> HIDE DEF c1, c2, c3, c4, c5, c6
<1>7. \A i \in 1..6 : ~checks[i].fails
  <2>1. DOMAIN checks = 1..6 /\ \A i \in 1..6 : checks[i].code # "ok"
    BY <1>1, SixChecks
  <2> HIDE DEF checks
  <2> QED BY <1>2, <2>1, Verdicts
<1>8. ~c1.fails /\ ~c3.fails /\ ~c4.fails /\ ~c5.fails /\ ~c6.fails
  BY <1>7, SixChecks
<1> QED BY <1>3, <1>4, <1>5, <1>6, <1>8

(* The keys of the configuration have labels of their own and classes    *)
(* that there are.                                                       *)
LEMMA KeysApart ==
  /\ \A k \in Keys : k.classes \subseteq Classes
  /\ \A k1, k2 \in Keys : k1.label = k2.label => k1 = k2
<1>1. Keys = KeysOf(Data.keys)
  BY DEF Keys, Settings, ConfigOf
<1>2. KeysAccepted(Data.keys)
  BY DataAccepted DEF Accepted
<1>3. \A i \in DOMAIN Data.keys : KeyOf(Data.keys[i]).classes \subseteq Classes
  BY <1>2 DEF KeysAccepted, KeyAccepted, KeyOf
<1>4. \A i, j \in DOMAIN Data.keys : KeyOf(Data.keys[i]).label = KeyOf(Data.keys[j]).label => i = j
  BY <1>2 DEF KeysAccepted, KeyOf
<1>5. \A k \in Keys : \E i \in DOMAIN Data.keys : k = KeyOf(Data.keys[i])
  BY <1>1 DEF KeysOf
<1> QED BY <1>3, <1>4, <1>5

(* The salt of an authorized caller: an outside key's own, or the scope's. *)
LEMMA Salts ==
  ASSUME NEW k \in Keys, NEW c \in ClassHeaders, NEW s \in ScopeHeaders, ClassOf(k, c) \in k.classes
  PROVE  IF Outside(k) THEN SaltInput(CallerOf(k, c, s)) = <<"key", k.label>>
         ELSE /\ CallerOf(k, c, s).scope # "none"
              /\ SaltInput(CallerOf(k, c, s)) = <<"scope", CallerOf(k, c, s).scope>>
<1>1. ClassOf(k, c) \in Classes
  BY KeysApart
<1>2. ClassOf(k, c) # "none" /\ s # "none"
  BY <1>1 DEF Classes, ScopeHeaders, ReaderScopes
<1>3. CASE Outside(k)
  <2>1. CallerOf(k, c, s).scope = "none" /\ CallerOf(k, c, s).key = k
    BY <1>3 DEF CallerOf, ScopeOf
  <2> QED BY <1>3, <2>1 DEF SaltInput
<1>4. CASE ~Outside(k)
  <2>1. CallerOf(k, c, s).scope # "none"
    BY <1>2, <1>4 DEF CallerOf, ScopeOf
  <2> QED BY <1>4, <2>1 DEF SaltInput
<1> QED BY <1>3, <1>4

LEMMA Pairs ==
  ASSUME NEW a, NEW b, NEW c, NEW d
  PROVE  (<<a, b>> = <<c, d>> <=> a = c /\ b = d) /\ <<a, b>> # <<c>>
OBVIOUS

(* Two authorized callers share the engine's cache only if they should.  *)
LEMMA CallersApart ==
  ASSUME NEW k \in Keys, NEW c \in ClassHeaders, NEW s \in ScopeHeaders, ClassOf(k, c) \in k.classes,
         NEW k0 \in Keys, NEW c0 \in ClassHeaders, NEW s0 \in ScopeHeaders, ClassOf(k0, c0) \in k0.classes,
         Payload(CallerOf(k, c, s)).cache_salt = Payload(CallerOf(k0, c0, s0)).cache_salt
  PROVE  IF Outside(k0) THEN k = k0
         ELSE ~Outside(k) /\ CallerOf(k, c, s).scope = CallerOf(k0, c0, s0).scope
<1> DEFINE w == CallerOf(k, c, s)
           w0 == CallerOf(k0, c0, s0)
<1>1. SaltInput(w) = SaltInput(w0)
  BY DEF Payload, GenerationPayload
<1>2. IF Outside(k) THEN SaltInput(w) = <<"key", k.label>> ELSE SaltInput(w) = <<"scope", w.scope>>
  BY Salts
<1>3. IF Outside(k0) THEN SaltInput(w0) = <<"key", k0.label>> ELSE SaltInput(w0) = <<"scope", w0.scope>>
  BY Salts
<1> HIDE DEF w, w0
<1>4. CASE Outside(k0)
  <2>1. Outside(k)
    <3>1. SUFFICES ASSUME ~Outside(k) PROVE FALSE
      OBVIOUS
    <3>2. <<"scope", w.scope>> = <<"key", k0.label>>
      BY <1>1, <1>2, <1>3, <1>4, <3>1, Zenon
    <3>3. "scope" = "key"
      BY <3>2, Pairs, Zenon
    <3> QED BY <3>3
  <2>2. <<"key", k.label>> = <<"key", k0.label>>
    BY <1>1, <1>2, <1>3, <1>4, <2>1, Zenon
  <2>3. k.label = k0.label
    BY <2>2, Pairs, Zenon
  <2> QED BY <1>4, <2>3, KeysApart
<1>5. CASE ~Outside(k0)
  <2>1. ~Outside(k)
    <3>1. SUFFICES ASSUME Outside(k) PROVE FALSE
      OBVIOUS
    <3>2. <<"key", k.label>> = <<"scope", w0.scope>>
      BY <1>1, <1>2, <1>3, <1>5, <3>1, Zenon
    <3>3. "key" = "scope"
      BY <3>2, Pairs, Zenon
    <3> QED BY <3>3
  <2>2. <<"scope", w.scope>> = <<"scope", w0.scope>>
    BY <1>1, <1>2, <1>3, <1>5, <2>1, Zenon
  <2>3. w.scope = w0.scope
    BY <2>2, Pairs, Zenon
  <2> QED BY <1>5, <2>1, <2>3 DEF w, w0
<1> QED BY <1>4, <1>5

(* A caller whose body is read was authorized.                           *)
CallerInv ==
  at = "reading" /\ kind \in Inference =>
    \E k \in Keys \cup {NoKey}, status \in Statuses, c \in ClassHeaders, s \in ScopeHeaders :
       Authorize(k, status, c, s) = "ok" /\ caller = CallerOf(k, c, s)

LEMMA CallerInvApart == CallerInv => CachesApart
<1> SUFFICES ASSUME CallerInv, at = "reading", kind \in Inference
             PROVE  CachesApart
  BY DEF CachesApart
<1>1. PICK k0 \in Keys \cup {NoKey}, status \in Statuses, c0 \in ClassHeaders, s0 \in ScopeHeaders :
         Authorize(k0, status, c0, s0) = "ok" /\ caller = CallerOf(k0, c0, s0)
  BY DEF CallerInv
<1>2. /\ k0 \in Keys /\ ClassOf(k0, c0) \in k0.classes
      /\ ClassOf(k0, c0) = "reader" => ScopeOf(k0, c0, s0) \in ReaderScopes
  BY <1>1, AuthorizedCaller
<1>3. caller.cls = "reader" => caller.scope \in ReaderScopes
  BY <1>1, <1>2 DEF CallerOf
<1>4. Payload(caller).cache_salt # WarmPayload.cache_salt
  <2>1. Payload(caller).cache_salt = SaltInput(caller) /\ WarmPayload.cache_salt = <<"warm-up">>
    BY DEF Payload, WarmPayload, GenerationPayload
  <2>2. SaltInput(caller) = <<"key", k0.label>> \/ SaltInput(caller) = <<"scope", caller.scope>>
    BY <1>1, <1>2, Salts
  <2>3. <<"key", k0.label>> # <<"warm-up">> /\ <<"scope", caller.scope>> # <<"warm-up">>
    BY Pairs
  <2>4. SaltInput(caller) # <<"warm-up">>
    BY <2>2, <2>3, Zenon
  <2> QED BY <2>1, <2>4, Zenon
<1>5. ASSUME NEW k \in Keys, NEW c \in ClassHeaders, NEW s \in ScopeHeaders,
             Authorize(k, "ready", c, s) = "ok",
             Payload(CallerOf(k, c, s)).cache_salt = Payload(caller).cache_salt
      PROVE  IF Outside(caller.key) THEN k = caller.key
             ELSE ~Outside(k) /\ CallerOf(k, c, s).scope = caller.scope
  <2>1. ClassOf(k, c) \in k.classes
    BY <1>5, AuthorizedCaller DEF Statuses
  <2>2. caller.key = k0
    BY <1>1 DEF CallerOf
  <2> QED BY <1>1, <1>2, <1>5, <2>1, <2>2, CallersApart
<1> QED BY <1>3, <1>4, <1>5 DEF CachesApart

(* Equal sequences are equal at each of their places; with it, what       *)
(* joining and cutting tuples of a few messages comes to.                 *)
LEMMA Equal ==
  ASSUME NEW S, NEW s \in Seq(S), NEW t \in Seq(S), NEW n \in Nat,
         Len(s) = n, Len(t) = n, \A i \in 1..n : s[i] = t[i]
  PROVE  s = t
BY SeqEqual

(* Short sequences joined, and their types, for any elements: the      *)
(* messages of an answer are put in place of the elements below.       *)
LEMMA Join11 ==
  ASSUME NEW a, NEW b
  PROVE  <<a>> \o <<b>> = <<a, b>>
<1> DEFINE S == {a, b}
           u == <<a>> \o <<b>>
           v == <<a, b>>
<1>1. <<a>> \in Seq(S) /\ <<b>> \in Seq(S) /\ v \in Seq(S)
  OBVIOUS
<1> HIDE DEF S
<1>2. u \in Seq(S) /\ Len(u) = 2 /\ Len(v) = 2 /\ \A i \in 1..2 : u[i] = v[i]
  BY <1>1
<1> HIDE DEF u, v
<1>3. u = v
  BY <1>1, <1>2, Equal
<1> QED BY <1>3 DEF u, v

LEMMA Join12 ==
  ASSUME NEW a, NEW b, NEW c
  PROVE  <<a>> \o <<b, c>> = <<a, b, c>>
<1> DEFINE S == {a, b, c}
           u == <<a>> \o <<b, c>>
           v == <<a, b, c>>
<1>1. <<a>> \in Seq(S) /\ <<b, c>> \in Seq(S) /\ v \in Seq(S)
  OBVIOUS
<1> HIDE DEF S
<1>2. u \in Seq(S) /\ Len(u) = 3 /\ Len(v) = 3 /\ \A i \in 1..3 : u[i] = v[i]
  BY <1>1
<1> HIDE DEF u, v
<1>3. u = v
  BY <1>1, <1>2, Equal
<1> QED BY <1>3 DEF u, v

LEMMA Join21 ==
  ASSUME NEW a, NEW b, NEW c
  PROVE  <<a, b>> \o <<c>> = <<a, b, c>>
<1> DEFINE S == {a, b, c}
           u == <<a, b>> \o <<c>>
           v == <<a, b, c>>
<1>1. <<a, b>> \in Seq(S) /\ <<c>> \in Seq(S) /\ v \in Seq(S)
  OBVIOUS
<1> HIDE DEF S
<1>2. u \in Seq(S) /\ Len(u) = 3 /\ Len(v) = 3 /\ \A i \in 1..3 : u[i] = v[i]
  BY <1>1
<1> HIDE DEF u, v
<1>3. u = v
  BY <1>1, <1>2, Equal
<1> QED BY <1>3 DEF u, v

LEMMA Join22 ==
  ASSUME NEW a, NEW b, NEW c, NEW d
  PROVE  <<a, b>> \o <<c, d>> = <<a, b, c, d>>
<1> DEFINE S == {a, b, c, d}
           u == <<a, b>> \o <<c, d>>
           v == <<a, b, c, d>>
<1>1. <<a, b>> \in Seq(S) /\ <<c, d>> \in Seq(S) /\ v \in Seq(S)
  OBVIOUS
<1> HIDE DEF S
<1>2. u \in Seq(S) /\ Len(u) = 4 /\ Len(v) = 4 /\ \A i \in 1..4 : u[i] = v[i]
  BY <1>1
<1> HIDE DEF u, v
<1>3. u = v
  BY <1>1, <1>2, Equal
<1> QED BY <1>3 DEF u, v

LEMMA Join31 ==
  ASSUME NEW a, NEW b, NEW c, NEW d
  PROVE  <<a, b, c>> \o <<d>> = <<a, b, c, d>>
<1> DEFINE S == {a, b, c, d}
           u == <<a, b, c>> \o <<d>>
           v == <<a, b, c, d>>
<1>1. <<a, b, c>> \in Seq(S) /\ <<d>> \in Seq(S) /\ v \in Seq(S)
  OBVIOUS
<1> HIDE DEF S
<1>2. u \in Seq(S) /\ Len(u) = 4 /\ Len(v) = 4 /\ \A i \in 1..4 : u[i] = v[i]
  BY <1>1
<1> HIDE DEF u, v
<1>3. u = v
  BY <1>1, <1>2, Equal
<1> QED BY <1>3 DEF u, v

LEMMA Join32 ==
  ASSUME NEW a, NEW b, NEW c, NEW d, NEW e
  PROVE  <<a, b, c>> \o <<d, e>> = <<a, b, c, d, e>>
<1> DEFINE S == {a, b, c, d, e}
           u == <<a, b, c>> \o <<d, e>>
           v == <<a, b, c, d, e>>
<1>1. <<a, b, c>> \in Seq(S) /\ <<d, e>> \in Seq(S) /\ v \in Seq(S)
  OBVIOUS
<1> HIDE DEF S
<1>2. u \in Seq(S) /\ Len(u) = 5 /\ Len(v) = 5 /\ \A i \in 1..5 : u[i] = v[i]
  BY <1>1
<1> HIDE DEF u, v
<1>3. u = v
  BY <1>1, <1>2, Equal
<1> QED BY <1>3 DEF u, v

LEMMA Join41 ==
  ASSUME NEW a, NEW b, NEW c, NEW d, NEW e
  PROVE  <<a, b, c, d>> \o <<e>> = <<a, b, c, d, e>>
<1> DEFINE S == {a, b, c, d, e}
           u == <<a, b, c, d>> \o <<e>>
           v == <<a, b, c, d, e>>
<1>1. <<a, b, c, d>> \in Seq(S) /\ <<e>> \in Seq(S) /\ v \in Seq(S)
  OBVIOUS
<1> HIDE DEF S
<1>2. u \in Seq(S) /\ Len(u) = 5 /\ Len(v) = 5 /\ \A i \in 1..5 : u[i] = v[i]
  BY <1>1
<1> HIDE DEF u, v
<1>3. u = v
  BY <1>1, <1>2, Equal
<1> QED BY <1>3 DEF u, v

LEMMA Tuple1 ==
  ASSUME NEW S, NEW a \in S
  PROVE  <<a>> \in Seq(S)
OBVIOUS

LEMMA Tuple2 ==
  ASSUME NEW S, NEW a \in S, NEW b \in S
  PROVE  <<a, b>> \in Seq(S)
OBVIOUS

LEMMA Tuple3 ==
  ASSUME NEW S, NEW a \in S, NEW b \in S, NEW c \in S
  PROVE  <<a, b, c>> \in Seq(S)
OBVIOUS

LEMMA Tuple4 ==
  ASSUME NEW S, NEW a \in S, NEW b \in S, NEW c \in S, NEW d \in S
  PROVE  <<a, b, c, d>> \in Seq(S)
OBVIOUS

LEMMA Tuple5 ==
  ASSUME NEW S, NEW a \in S, NEW b \in S, NEW c \in S, NEW d \in S, NEW e \in S
  PROVE  <<a, b, c, d, e>> \in Seq(S)
OBVIOUS

LEMMA NoneJoined ==
  ASSUME NEW S, NEW s \in Seq(S)
  PROVE  s \o <<>> = s /\ <<>> \o s = s
BY ConcatEmptySeq

Messages == {"ok", "error", "json", "stream", "delta", "finish", "usage", "done", "failed"}

(* Answers begun: a stream before and after its finish, and what of the  *)
(* rest may be sent while the answer is not whole.                       *)
Begun == {<<"stream">>, <<"stream", "delta">>}
Finished == {<<"stream", "finish">>, <<"stream", "delta", "finish">>}
Used == {<<"stream", "finish", "usage">>, <<"stream", "delta", "finish", "usage">>}
Unfinished == {<<>>, <<"ok">>, <<"error">>} \cup Begun \cup Finished \cup Used

(* The whole ones: in JSON, a stream that ends well, and one that fails. *)
EndedStreams == {<<"stream", "finish", "usage", "done">>, <<"stream", "delta", "finish", "usage", "done">>}
FailedStreams == {<<"stream", "failed">>, <<"stream", "delta", "failed">>,
                  <<"stream", "finish", "failed">>, <<"stream", "delta", "finish", "failed">>}
Wholes == {<<"ok", "json">>, <<"error", "json">>} \cup EndedStreams \cup FailedStreams

(* The parts of the answers are messages.                                *)
LEMMA Typed ==
  /\ <<"ok">> \in Seq(Messages)
  /\ <<"error">> \in Seq(Messages)
  /\ <<"stream">> \in Seq(Messages)
  /\ <<"stream", "delta">> \in Seq(Messages)
  /\ <<"stream", "finish">> \in Seq(Messages)
  /\ <<"stream", "delta", "finish">> \in Seq(Messages)
  /\ <<"stream", "finish", "usage">> \in Seq(Messages)
  /\ <<"stream", "delta", "finish", "usage">> \in Seq(Messages)
  /\ <<"stream", "finish", "usage", "done">> \in Seq(Messages)
  /\ <<"stream", "delta", "finish", "usage", "done">> \in Seq(Messages)
  /\ <<"stream", "failed">> \in Seq(Messages)
  /\ <<"stream", "delta", "failed">> \in Seq(Messages)
  /\ <<"stream", "finish", "failed">> \in Seq(Messages)
  /\ <<"stream", "delta", "finish", "failed">> \in Seq(Messages)
  /\ <<"ok", "json">> \in Seq(Messages)
  /\ <<"error", "json">> \in Seq(Messages)
  /\ <<"json">> \in Seq(Messages)
  /\ <<"failed">> \in Seq(Messages)
  /\ <<"done">> \in Seq(Messages)
  /\ <<"usage">> \in Seq(Messages)
  /\ <<"usage", "done">> \in Seq(Messages)
  /\ <<"delta">> \in Seq(Messages)
  /\ <<"finish">> \in Seq(Messages)
  /\ <<"delta", "finish">> \in Seq(Messages)
<1> DEFINE M == Messages
<1>1. /\ "ok" \in M /\ "error" \in M /\ "json" \in M /\ "stream" \in M /\ "delta" \in M /\ "finish" \in M
      /\ "usage" \in M /\ "done" \in M /\ "failed" \in M
  BY DEF Messages
<1> HIDE DEF M
<1>2. <<"ok">> \in Seq(M)
  BY <1>1, Tuple1, Zenon
<1>3. <<"error">> \in Seq(M)
  BY <1>1, Tuple1, Zenon
<1>4. <<"stream">> \in Seq(M)
  BY <1>1, Tuple1, Zenon
<1>5. <<"stream", "delta">> \in Seq(M)
  BY <1>1, Tuple2, Zenon
<1>6. <<"stream", "finish">> \in Seq(M)
  BY <1>1, Tuple2, Zenon
<1>7. <<"stream", "delta", "finish">> \in Seq(M)
  BY <1>1, Tuple3, Zenon
<1>8. <<"stream", "finish", "usage">> \in Seq(M)
  BY <1>1, Tuple3, Zenon
<1>9. <<"stream", "delta", "finish", "usage">> \in Seq(M)
  BY <1>1, Tuple4, Zenon
<1>10. <<"stream", "finish", "usage", "done">> \in Seq(M)
  BY <1>1, Tuple4, Zenon
<1>11. <<"stream", "delta", "finish", "usage", "done">> \in Seq(M)
  BY <1>1, Tuple5, Zenon
<1>12. <<"stream", "failed">> \in Seq(M)
  BY <1>1, Tuple2, Zenon
<1>13. <<"stream", "delta", "failed">> \in Seq(M)
  BY <1>1, Tuple3, Zenon
<1>14. <<"stream", "finish", "failed">> \in Seq(M)
  BY <1>1, Tuple3, Zenon
<1>15. <<"stream", "delta", "finish", "failed">> \in Seq(M)
  BY <1>1, Tuple4, Zenon
<1>16. <<"ok", "json">> \in Seq(M)
  BY <1>1, Tuple2, Zenon
<1>17. <<"error", "json">> \in Seq(M)
  BY <1>1, Tuple2, Zenon
<1>18. <<"json">> \in Seq(M)
  BY <1>1, Tuple1, Zenon
<1>19. <<"failed">> \in Seq(M)
  BY <1>1, Tuple1, Zenon
<1>20. <<"done">> \in Seq(M)
  BY <1>1, Tuple1, Zenon
<1>21. <<"usage">> \in Seq(M)
  BY <1>1, Tuple1, Zenon
<1>22. <<"usage", "done">> \in Seq(M)
  BY <1>1, Tuple2, Zenon
<1>23. <<"delta">> \in Seq(M)
  BY <1>1, Tuple1, Zenon
<1>24. <<"finish">> \in Seq(M)
  BY <1>1, Tuple1, Zenon
<1>25. <<"delta", "finish">> \in Seq(M)
  BY <1>1, Tuple2, Zenon
<1> QED BY <1>2, <1>3, <1>4, <1>5, <1>6, <1>7, <1>8, <1>9, <1>10, <1>11, <1>12, <1>13, <1>14, <1>15, <1>16, <1>17, <1>18, <1>19, <1>20, <1>21, <1>22, <1>23, <1>24, <1>25 DEF M

(* What the messages add to an answer.                                   *)
LEMMA Joined ==
  /\ <<"stream">> \o <<"delta">> = <<"stream", "delta">>
  /\ <<"stream">> \o <<"finish">> = <<"stream", "finish">>
  /\ <<"stream">> \o <<"delta", "finish">> = <<"stream", "delta", "finish">>
  /\ <<"stream", "delta">> \o <<"finish">> = <<"stream", "delta", "finish">>
  /\ <<"ok">> \o <<"json">> = <<"ok", "json">>
  /\ <<"error">> \o <<"json">> = <<"error", "json">>
  /\ <<"stream">> \o <<"failed">> = <<"stream", "failed">>
  /\ <<"stream", "delta">> \o <<"failed">> = <<"stream", "delta", "failed">>
  /\ <<"stream", "finish">> \o <<"failed">> = <<"stream", "finish", "failed">>
  /\ <<"stream", "delta", "finish">> \o <<"failed">> = <<"stream", "delta", "finish", "failed">>
  /\ <<"stream", "finish">> \o <<"usage">> = <<"stream", "finish", "usage">>
  /\ <<"stream", "delta", "finish">> \o <<"usage">> = <<"stream", "delta", "finish", "usage">>
  /\ <<"stream", "finish">> \o <<"usage", "done">> = <<"stream", "finish", "usage", "done">>
  /\ <<"stream", "delta", "finish">> \o <<"usage", "done">> = <<"stream", "delta", "finish", "usage", "done">>
  /\ <<"stream", "finish", "usage">> \o <<"done">> = <<"stream", "finish", "usage", "done">>
  /\ <<"stream", "delta", "finish", "usage">> \o <<"done">> = <<"stream", "delta", "finish", "usage", "done">>
  /\ <<"delta">> \o <<"finish">> = <<"delta", "finish">>
<1>1. <<"stream">> \o <<"delta">> = <<"stream", "delta">>
  BY Join11, Zenon
<1>2. <<"stream">> \o <<"finish">> = <<"stream", "finish">>
  BY Join11, Zenon
<1>3. <<"stream">> \o <<"delta", "finish">> = <<"stream", "delta", "finish">>
  BY Join12, Zenon
<1>4. <<"stream", "delta">> \o <<"finish">> = <<"stream", "delta", "finish">>
  BY Join21, Zenon
<1>5. <<"ok">> \o <<"json">> = <<"ok", "json">>
  BY Join11, Zenon
<1>6. <<"error">> \o <<"json">> = <<"error", "json">>
  BY Join11, Zenon
<1>7. <<"stream">> \o <<"failed">> = <<"stream", "failed">>
  BY Join11, Zenon
<1>8. <<"stream", "delta">> \o <<"failed">> = <<"stream", "delta", "failed">>
  BY Join21, Zenon
<1>9. <<"stream", "finish">> \o <<"failed">> = <<"stream", "finish", "failed">>
  BY Join21, Zenon
<1>10. <<"stream", "delta", "finish">> \o <<"failed">> = <<"stream", "delta", "finish", "failed">>
  BY Join31, Zenon
<1>11. <<"stream", "finish">> \o <<"usage">> = <<"stream", "finish", "usage">>
  BY Join21, Zenon
<1>12. <<"stream", "delta", "finish">> \o <<"usage">> = <<"stream", "delta", "finish", "usage">>
  BY Join31, Zenon
<1>13. <<"stream", "finish">> \o <<"usage", "done">> = <<"stream", "finish", "usage", "done">>
  BY Join22, Zenon
<1>14. <<"stream", "delta", "finish">> \o <<"usage", "done">> = <<"stream", "delta", "finish", "usage", "done">>
  BY Join32, Zenon
<1>15. <<"stream", "finish", "usage">> \o <<"done">> = <<"stream", "finish", "usage", "done">>
  BY Join31, Zenon
<1>16. <<"stream", "delta", "finish", "usage">> \o <<"done">> = <<"stream", "delta", "finish", "usage", "done">>
  BY Join41, Zenon
<1>17. <<"delta">> \o <<"finish">> = <<"delta", "finish">>
  BY Join11, Zenon
<1> QED BY <1>1, <1>2, <1>3, <1>4, <1>5, <1>6, <1>7, <1>8, <1>9, <1>10, <1>11, <1>12, <1>13, <1>14, <1>15, <1>16, <1>17


(* What a request is refused with, and what an accepted one fails with.  *)
RefusalCodes == {"queue_full", "not_found", "unauthorized", "starting", "draining", "drained",
                 "engine_unavailable", "class_not_allowed", "scope_not_allowed", "invalid_request",
                 "body_too_large", "unsupported_field", "vision_not_allowed", "limit_exceeded",
                 "min_p_unavailable", "thinking_budget_unavailable", "timeout"}
FailureCodes == {"engine_unavailable", "invalid_request", "limit_exceeded", "context_limit",
                 "internal_error", "timeout", "draining"}

(* The codes that each check of the code can give.                     *)
LEMMA AdmitCodes ==
  ASSUME NEW k, NEW w, NEW b, NEW status \in Statuses
  PROVE  Admit(k, w, b, status) \in RefusalCodes \cup {"ok"}
<1> DEFINE a1 == Check(b.form = "not_json", "invalid_request")
           a2 == Check(b.form = "unknown_field", "unsupported_field")
           a3 == Check(b.form = "bad_value", "invalid_request")
           a4 == Check(b.pictures > (IF Vision THEN 1 ELSE 0), "invalid_request")
           a5 == Check(b.pictures > 0 /\ ~w.key.vision, "vision_not_allowed")
           a6 == Check(b.long, "limit_exceeded")
           a7 == Check(MinPRefused /\ b.min_p, "min_p_unavailable")
           a8 == Check(b.budget # "none" /\ ~ThinkingBudget, "thinking_budget_unavailable")
           a9 == Check(b.budget = "over", "invalid_request")
           a10 == Serving(status)
           S == {a1, a2, a3, a4, a5, a6, a7, a8, a9, a10}
           limits == IF k = "generation" THEN <<a6, a7, a8, a9>> ELSE <<>>
           checks == <<a1, a2, a3, a4>> \o <<a5>> \o limits \o <<a10>>
<1>1. Admit(k, w, b, status) = Verdict(checks)
  BY DEF Admit, CheckChat, CheckLimits
<1>2. /\ a1.code \in RefusalCodes /\ a2.code \in RefusalCodes /\ a3.code \in RefusalCodes
      /\ a4.code \in RefusalCodes /\ a5.code \in RefusalCodes /\ a6.code \in RefusalCodes
      /\ a7.code \in RefusalCodes /\ a8.code \in RefusalCodes /\ a9.code \in RefusalCodes
  BY DEF Check, RefusalCodes
<1>3. a10.fails => a10.code \in RefusalCodes
  BY DEF Serving, Check, Statuses, RefusalCodes
<1> HIDE DEF a1, a2, a3, a4, a5, a6, a7, a8, a9, a10
<1>4. \A x \in S : x.fails => x.code \in RefusalCodes
  BY <1>2, <1>3
<1>5. checks \in Seq(S)
  <2>1. <<a1, a2, a3, a4>> \in Seq(S) /\ <<a5>> \in Seq(S) /\ <<a10>> \in Seq(S)
    OBVIOUS
  <2>2. <<a6, a7, a8, a9>> \in Seq(S) /\ <<>> \in Seq(S)
    OBVIOUS
  <2>3. limits \in Seq(S)
    BY <2>2, Zenon
  <2> HIDE DEF S, limits
  <2> QED BY <2>1, <2>3, ConcatProperties
<1> HIDE DEF S, checks
<1> QED BY <1>1, <1>4, <1>5, VerdictCodes

LEMMA TwoChecks ==
  ASSUME NEW x, NEW y
  PROVE  \/ Verdict(<<x, y>>) = "ok" /\ ~x.fails /\ ~y.fails
         \/ Verdict(<<x, y>>) = x.code /\ x.fails
         \/ Verdict(<<x, y>>) = y.code /\ y.fails
<1> DEFINE checks == <<x, y>>
<1>1. DOMAIN checks = 1..2 /\ checks[1] = x /\ checks[2] = y
  OBVIOUS
<1> HIDE DEF checks
<1>2. \/ Verdict(checks) = "ok" /\ \A i \in 1..2 : ~checks[i].fails
      \/ \E i \in 1..2 : checks[i].fails /\ Verdict(checks) = checks[i].code
  BY <1>1, Verdicts
<1>3. 1 \in 1..2 /\ 2 \in 1..2 /\ \A i \in 1..2 : i = 1 \/ i = 2
  OBVIOUS
<1>4. \/ Verdict(checks) = "ok" /\ ~x.fails /\ ~y.fails
      \/ Verdict(checks) = x.code /\ x.fails
      \/ Verdict(checks) = y.code /\ y.fails
  BY <1>1, <1>2, <1>3, Zenon
<1> QED BY <1>4 DEF checks

LEMMA CallCodes ==
  ASSUME NEW status
  PROVE  CallCode(status) \in {"ok", "invalid_request", "engine_unavailable"}
<1> DEFINE x == Check(status \in {400, 422}, "invalid_request")
           y == Check(status # 200, "engine_unavailable")
<1>1. x.code = "invalid_request" /\ y.code = "engine_unavailable"
  BY DEF Check
<1>2. CallCode(status) = Verdict(<<x, y>>)
  BY DEF CallCode
<1> HIDE DEF x, y
<1> QED BY <1>1, <1>2, TwoChecks

LEMMA CountCodes ==
  ASSUME NEW a
  PROVE  CountCode(a) \in {"ok", "invalid_request", "engine_unavailable"}
<1> DEFINE x == Check(CallCode(a.status) # "ok", CallCode(a.status))
           y == Check(\A n \in TokensIn(a) : n < 1, "engine_unavailable")
<1>1. x.code \in {"ok", "invalid_request", "engine_unavailable"} /\ y.code = "engine_unavailable"
  BY CallCodes DEF Check
<1>2. CountCode(a) = Verdict(<<x, y>>)
  BY DEF CountCode
<1> HIDE DEF x, y
<1> QED BY <1>1, <1>2, TwoChecks

LEMMA InputCodes ==
  ASSUME NEW w, NEW tokens, NEW max
  PROVE  CheckInput(w, tokens, max) \in {"ok", "limit_exceeded", "context_limit"}
<1> DEFINE x == Check(\E limit \in Settings.limits[w.cls].input_tokens : tokens > limit, "limit_exceeded")
           y == Check(tokens + max > ContextTokens, "context_limit")
<1>1. x.code = "limit_exceeded" /\ y.code = "context_limit"
  BY DEF Check
<1>2. CheckInput(w, tokens, max) = Verdict(<<x, y>>)
  BY DEF CheckInput
<1> HIDE DEF x, y
<1> QED BY <1>1, <1>2, TwoChecks

(* What an event that keeps the rules becomes, and what it makes of the  *)
(* translator.                                                           *)
Translators == [finish : BOOLEAN, usage : BOOLEAN, generated : BOOLEAN]

(* What one event of the engine makes of the stream: what is sent for  *)
(* it, and whether the reason of its end has come.                     *)
LEMMA ChunkShapes ==
  ASSUME NEW t \in Translators, NEW e \in Events, ~Breaks(t, e)
  PROVE  /\ Read(t, e) \in Translators
         /\ t.finish => Chunks(t, e) = <<>> /\ Read(t, e).finish
         /\ ~t.finish => \/ Chunks(t, e) \in {<<>>, <<"delta">>} /\ ~Read(t, e).finish
                         \/ Chunks(t, e) \in {<<"finish">>, <<"delta", "finish">>} /\ Read(t, e).finish
<1>1. e.kind = "chunk"
  BY DEF Breaks
<1>2. e.choices = {} \/ \E c \in Choice : e.choices = {c}
  BY <1>1 DEF Events, Event
<1>3. e.usage \in BOOLEAN
  BY <1>1 DEF Events, Event
<1>4. Read(t, e) \in Translators
  BY <1>3 DEF Read, Translators
<1>5. Read(t, e).finish = (t.finish \/ \E c \in (IF t.finish THEN {} ELSE e.choices) : c.finish # "none")
  BY DEF Read
<1>6. CASE t.finish
  BY <1>4, <1>5, <1>6 DEF Chunks
<1>7. CASE ~t.finish /\ e.choices = {}
  BY <1>4, <1>5, <1>7 DEF Chunks
<1>8. ASSUME ~t.finish, NEW c \in Choice, e.choices = {c}
      PROVE  \/ Chunks(t, e) \in {<<>>, <<"delta">>} /\ ~Read(t, e).finish
             \/ Chunks(t, e) \in {<<"finish">>, <<"delta", "finish">>} /\ Read(t, e).finish
  <2>1. Chunks(t, e) = ChunksOf(c)
    BY <1>8 DEF Chunks
  <2>2. Read(t, e).finish <=> c.finish # "none"
    BY <1>5, <1>8
  <2>3. CASE c.finish = "none"
    <3>1. ChunksOf(c) = <<"delta">> \o <<>>
      BY <2>3 DEF ChunksOf
    <3>2. <<"delta">> \o <<>> = <<"delta">>
      BY Typed, NoneJoined, Zenon
    <3> QED BY <2>1, <2>2, <2>3, <3>1, <3>2
  <2>4. CASE c.finish # "none"
    <3>1. ChunksOf(c) = (IF Len(c.parts) > 1 THEN <<"delta">> ELSE <<>>) \o <<"finish">>
      BY <2>4 DEF ChunksOf
    <3>2. <<"delta">> \o <<"finish">> = <<"delta", "finish">>
      BY Joined, Zenon
    <3>4. <<>> \o <<"finish">> = <<"finish">>
      BY Typed, NoneJoined, Zenon
    <3>3. ChunksOf(c) = <<"delta", "finish">> \/ ChunksOf(c) = <<"finish">>
      BY <3>1, <3>2, <3>4, Zenon
    <3> QED BY <2>1, <2>2, <2>4, <3>3
  <2> QED BY <2>3, <2>4
<1> QED BY <1>2, <1>4, <1>6, <1>7, <1>8

(* The answers of the contract are the whole sequences named above,    *)
(* and what has been sent of one begins it.                            *)
LEMMA WholesAreAnswers == A!Answers = Wholes
<1>1. A!Begun = Begun
  BY Zenon DEF A!Begun, Begun
<1>2. \A w : w \in A!Finished <=> w \in Finished
  <2>1. \A w : w \in Finished <=> \E s \in Begun : w = s \o <<"finish">>
    BY Joined, Zenon DEF Begun, Finished
  <2>2. \A w : w \in A!Finished <=> \E s \in Begun : w = s \o <<"finish">>
    BY <1>1, Zenon DEF A!Finished
  <2> QED BY <2>1, <2>2, Zenon
<1>3. \A w : w \in EndedStreams <=> \E s \in Finished : w = s \o <<"usage", "done">>
  BY Joined, Zenon DEF Finished, EndedStreams
<1>4. \A w : w \in FailedStreams <=> \E s \in Begun \cup Finished : w = s \o <<"failed">>
  BY Joined, Zenon DEF Begun, Finished, FailedStreams
<1>5. A!Finished = Finished
  BY <1>2, Zenon
<1>6. \A w : w \in A!Answers <=> \/ w \in {<<"ok", "json">>, <<"error", "json">>}
                                 \/ \E s \in Finished : w = s \o <<"usage", "done">>
                                 \/ \E s \in Begun \cup Finished : w = s \o <<"failed">>
  BY <1>1, <1>5, Zenon DEF A!Answers
<1>7. \A w : w \in A!Answers <=> w \in Wholes
  BY <1>3, <1>4, <1>6, Zenon DEF Wholes
<1> QED BY <1>7, Zenon

LEMMA AnswersTyped ==
  ASSUME NEW s \in Unfinished \cup Wholes
  PROVE  s \in Seq(Messages)
<1>1. CASE s = <<>>
  BY <1>1
<1>2. CASE s \in {<<"ok">>, <<"error">>} \cup Begun \cup Finished
  BY <1>2, Typed, Zenon DEF Begun, Finished
<1>3. CASE s \in Used \cup EndedStreams
  BY <1>3, Typed, Zenon DEF Used, EndedStreams
<1>4. CASE s \in {<<"ok", "json">>, <<"error", "json">>} \cup FailedStreams
  BY <1>4, Typed, Zenon DEF FailedStreams
<1> QED BY <1>1, <1>2, <1>3, <1>4, Zenon DEF Unfinished, Wholes

LEMMA PrefixOfJoin ==
  ASSUME NEW S, NEW s \in Seq(S), NEW u \in Seq(S)
  PROVE  A!IsPrefix(s, s \o u)
<1>1. Len(s \o u) = Len(s) + Len(u) /\ Len(s) \in Nat /\ Len(u) \in Nat
  OBVIOUS
<1>2. SubSeq(s \o u, 1, Len(s)) = SubSeq(s, 1, Len(s))
  <2>1. CASE Len(s) = 0
    BY <2>1, SubSeqEmpty
  <2>2. CASE Len(s) # 0
    <3>1. 1 \in 1..Len(s) /\ Len(s) \in 1..Len(s)
      BY <1>1, <2>2
    <3> QED BY <3>1, SubSeqOfConcat1
  <2> QED BY <2>1, <2>2
<1> QED BY <1>1, <1>2 DEF A!IsPrefix

(* What has been sent is there still after any message.                  *)
LEMMA WithExtends ==
  ASSUME NEW S, NEW s \in Seq(S), NEW ms \in Seq(S)
  PROVE  A!IsPrefix(s, With(s, ms))
<1>1. CASE GoesOn(s, ms)
  <2>1. ms # <<>>
    BY <1>1 DEF GoesOn
  <2>2. Tail(ms) \in Seq(S)
    BY <2>1
  <2> QED BY <1>1, <2>2, PrefixOfJoin DEF With
<1>2. CASE ~GoesOn(s, ms)
  BY <1>2, PrefixOfJoin DEF With
<1> QED BY <1>1, <1>2

LEMMA OfAnAnswer ==
  ASSUME NEW s \in Unfinished \cup Wholes
  PROVE  \E w \in Wholes : A!IsPrefix(s, w)
<1>1. s \in Seq(Messages)
  BY AnswersTyped
<1>3. CASE s \in Wholes
  <2>1. s \o <<>> = s /\ <<>> \in Seq(Messages)
    BY <1>1, NoneJoined
  <2> QED BY <1>1, <1>3, <2>1, PrefixOfJoin
<1>4. CASE s = <<>>
  <2>1. s \o <<"ok", "json">> = <<"ok", "json">>
    BY <1>4, Typed, NoneJoined, Zenon
  <2>2. A!IsPrefix(s, <<"ok", "json">>)
    BY <1>1, <2>1, Typed, PrefixOfJoin, Zenon
  <2> QED BY <2>2, Zenon DEF Wholes
<1>5. CASE s \in {<<"ok">>, <<"error">>}
  <2>1. s \o <<"json">> \in {<<"ok", "json">>, <<"error", "json">>}
    BY <1>5, Joined, Zenon
  <2>2. A!IsPrefix(s, s \o <<"json">>)
    BY <1>1, Typed, PrefixOfJoin, Zenon
  <2> QED BY <2>1, <2>2, Zenon DEF Wholes
<1>6. CASE s \in Begun \cup Finished
  <2>1. s \o <<"failed">> \in FailedStreams
    BY <1>6, Joined, Zenon DEF Begun, Finished, FailedStreams
  <2>2. A!IsPrefix(s, s \o <<"failed">>)
    BY <1>1, Typed, PrefixOfJoin, Zenon
  <2> QED BY <2>1, <2>2, Zenon DEF Wholes
<1>7. CASE s \in Used
  <2>1. s \o <<"done">> \in EndedStreams
    BY <1>7, Joined, Zenon DEF Used, EndedStreams
  <2>2. A!IsPrefix(s, s \o <<"done">>)
    BY <1>1, Typed, PrefixOfJoin, Zenon
  <2> QED BY <2>1, <2>2, Zenon DEF Wholes
<1> QED BY <1>3, <1>4, <1>5, <1>6, <1>7, Zenon DEF Unfinished

(* What a client reads of one, two or three messages, and what waits.  *)
LEMMA Cut1 ==
  ASSUME NEW a, NEW n \in 0..1
  PROVE  \/ n = 0 /\ SubSeq(<<a>>, 1, n) = <<>> /\ SubSeq(<<a>>, n + 1, Len(<<a>>)) = <<a>>
         \/ n = 1 /\ SubSeq(<<a>>, 1, n) = <<a>> /\ SubSeq(<<a>>, n + 1, Len(<<a>>)) = <<>>
<1> DEFINE S == {a}
           t == <<a>>
<1>1. <<a>> \in Seq(S)
  OBVIOUS
<1>2. Len(t) = 1 /\ (\A i \in 1..1 : t[i] \in S) /\ t[1] = a
  OBVIOUS
<1> HIDE DEF S, t
<1>3. SubSeq(t, 1, 1) = <<a>>
  <2> DEFINE u == SubSeq(t, 1, 1)
             v == <<a>>
  <2>1. u \in Seq(S) /\ Len(u) = 1 /\ \A i \in 1..1 : u[i] = t[i + 0]
    BY <1>2, SubSeqProperties
  <2>2. v \in Seq(S) /\ Len(v) = 1 /\ \A i \in 1..1 : v[i] = t[i + 0]
    BY <1>1, <1>2
  <2> HIDE DEF u, v
  <2>3. u = v
    BY <2>1, <2>2, Equal
  <2> QED BY <2>3 DEF u, v
<1>4. SubSeq(t, 1, 0) = <<>> /\ SubSeq(t, 2, 1) = <<>>
  BY SubSeqEmpty
<1>5. n = 0 \/ n = 1
  OBVIOUS
<1>6. CASE n = 0
  <2>1. n + 1 = 1 /\ Len(t) = 1
    BY <1>2, <1>6
  <2>2. SubSeq(t, 1, n) = <<>> /\ SubSeq(t, n + 1, Len(t)) = <<a>>
    BY <1>6, <2>1, <1>3, <1>4, Zenon
  <2> QED BY <1>6, <2>2, Zenon DEF t
<1>7. CASE n = 1
  <2>1. n + 1 = 2 /\ Len(t) = 1
    BY <1>2, <1>7
  <2>2. SubSeq(t, 1, n) = <<a>> /\ SubSeq(t, n + 1, Len(t)) = <<>>
    BY <1>7, <2>1, <1>3, <1>4, Zenon
  <2> QED BY <1>7, <2>2, Zenon DEF t
<1> QED BY <1>5, <1>6, <1>7, Zenon

LEMMA Cut2 ==
  ASSUME NEW a, NEW b, NEW n \in 0..2
  PROVE  \/ n = 0 /\ SubSeq(<<a, b>>, 1, n) = <<>> /\ SubSeq(<<a, b>>, n + 1, Len(<<a, b>>)) = <<a, b>>
         \/ n = 1 /\ SubSeq(<<a, b>>, 1, n) = <<a>> /\ SubSeq(<<a, b>>, n + 1, Len(<<a, b>>)) = <<b>>
         \/ n = 2 /\ SubSeq(<<a, b>>, 1, n) = <<a, b>> /\ SubSeq(<<a, b>>, n + 1, Len(<<a, b>>)) = <<>>
<1> DEFINE S == {a, b}
           t == <<a, b>>
<1>1. <<a>> \in Seq(S) /\ <<b>> \in Seq(S) /\ <<a, b>> \in Seq(S)
  OBVIOUS
<1>2. Len(t) = 2 /\ (\A i \in 1..2 : t[i] \in S) /\ t[1] = a /\ t[2] = b
  OBVIOUS
<1> HIDE DEF S, t
<1>3. SubSeq(t, 1, 1) = <<a>>
  <2> DEFINE u == SubSeq(t, 1, 1)
             v == <<a>>
  <2>1. u \in Seq(S) /\ Len(u) = 1 /\ \A i \in 1..1 : u[i] = t[i + 0]
    BY <1>2, SubSeqProperties
  <2>2. v \in Seq(S) /\ Len(v) = 1 /\ \A i \in 1..1 : v[i] = t[i + 0]
    BY <1>1, <1>2
  <2> HIDE DEF u, v
  <2>3. u = v
    BY <2>1, <2>2, Equal
  <2> QED BY <2>3 DEF u, v
<1>4. SubSeq(t, 1, 2) = <<a, b>>
  <2> DEFINE u == SubSeq(t, 1, 2)
             v == <<a, b>>
  <2>1. u \in Seq(S) /\ Len(u) = 2 /\ \A i \in 1..2 : u[i] = t[i + 0]
    BY <1>2, SubSeqProperties
  <2>2. v \in Seq(S) /\ Len(v) = 2 /\ \A i \in 1..2 : v[i] = t[i + 0]
    BY <1>1, <1>2
  <2> HIDE DEF u, v
  <2>3. u = v
    BY <2>1, <2>2, Equal
  <2> QED BY <2>3 DEF u, v
<1>5. SubSeq(t, 2, 2) = <<b>>
  <2> DEFINE u == SubSeq(t, 2, 2)
             v == <<b>>
  <2>1. u \in Seq(S) /\ Len(u) = 1 /\ \A i \in 1..1 : u[i] = t[i + 1]
    BY <1>2, SubSeqProperties
  <2>2. v \in Seq(S) /\ Len(v) = 1 /\ \A i \in 1..1 : v[i] = t[i + 1]
    BY <1>1, <1>2
  <2> HIDE DEF u, v
  <2>3. u = v
    BY <2>1, <2>2, Equal
  <2> QED BY <2>3 DEF u, v
<1>6. SubSeq(t, 1, 0) = <<>> /\ SubSeq(t, 3, 2) = <<>>
  BY SubSeqEmpty
<1>7. n = 0 \/ n = 1 \/ n = 2
  OBVIOUS
<1>8. CASE n = 0
  <2>1. n + 1 = 1 /\ Len(t) = 2
    BY <1>2, <1>8
  <2>2. SubSeq(t, 1, n) = <<>> /\ SubSeq(t, n + 1, Len(t)) = <<a, b>>
    BY <1>8, <2>1, <1>3, <1>4, <1>5, <1>6, Zenon
  <2> QED BY <1>8, <2>2, Zenon DEF t
<1>9. CASE n = 1
  <2>1. n + 1 = 2 /\ Len(t) = 2
    BY <1>2, <1>9
  <2>2. SubSeq(t, 1, n) = <<a>> /\ SubSeq(t, n + 1, Len(t)) = <<b>>
    BY <1>9, <2>1, <1>3, <1>4, <1>5, <1>6, Zenon
  <2> QED BY <1>9, <2>2, Zenon DEF t
<1>10. CASE n = 2
  <2>1. n + 1 = 3 /\ Len(t) = 2
    BY <1>2, <1>10
  <2>2. SubSeq(t, 1, n) = <<a, b>> /\ SubSeq(t, n + 1, Len(t)) = <<>>
    BY <1>10, <2>1, <1>3, <1>4, <1>5, <1>6, Zenon
  <2> QED BY <1>10, <2>2, Zenon DEF t
<1> QED BY <1>7, <1>8, <1>9, <1>10, Zenon

LEMMA Cut3 ==
  ASSUME NEW a, NEW b, NEW c, NEW n \in 0..3
  PROVE  \/ n = 0 /\ SubSeq(<<a, b, c>>, 1, n) = <<>> /\ SubSeq(<<a, b, c>>, n + 1, Len(<<a, b, c>>)) = <<a, b, c>>
         \/ n = 1 /\ SubSeq(<<a, b, c>>, 1, n) = <<a>> /\ SubSeq(<<a, b, c>>, n + 1, Len(<<a, b, c>>)) = <<b, c>>
         \/ n = 2 /\ SubSeq(<<a, b, c>>, 1, n) = <<a, b>> /\ SubSeq(<<a, b, c>>, n + 1, Len(<<a, b, c>>)) = <<c>>
         \/ n = 3 /\ SubSeq(<<a, b, c>>, 1, n) = <<a, b, c>> /\ SubSeq(<<a, b, c>>, n + 1, Len(<<a, b, c>>)) = <<>>
<1> DEFINE S == {a, b, c}
           t == <<a, b, c>>
<1>1. <<a>> \in Seq(S) /\ <<c>> \in Seq(S) /\ <<a, b>> \in Seq(S) /\ <<b, c>> \in Seq(S) /\ <<a, b, c>> \in Seq(S)
  OBVIOUS
<1>2. Len(t) = 3 /\ (\A i \in 1..3 : t[i] \in S) /\ t[1] = a /\ t[2] = b /\ t[3] = c
  OBVIOUS
<1> HIDE DEF S, t
<1>3. SubSeq(t, 1, 1) = <<a>>
  <2> DEFINE u == SubSeq(t, 1, 1)
             v == <<a>>
  <2>1. u \in Seq(S) /\ Len(u) = 1 /\ \A i \in 1..1 : u[i] = t[i + 0]
    BY <1>2, SubSeqProperties
  <2>2. v \in Seq(S) /\ Len(v) = 1 /\ \A i \in 1..1 : v[i] = t[i + 0]
    BY <1>1, <1>2
  <2> HIDE DEF u, v
  <2>3. u = v
    BY <2>1, <2>2, Equal
  <2> QED BY <2>3 DEF u, v
<1>4. SubSeq(t, 1, 2) = <<a, b>>
  <2> DEFINE u == SubSeq(t, 1, 2)
             v == <<a, b>>
  <2>1. u \in Seq(S) /\ Len(u) = 2 /\ \A i \in 1..2 : u[i] = t[i + 0]
    BY <1>2, SubSeqProperties
  <2>2. v \in Seq(S) /\ Len(v) = 2 /\ \A i \in 1..2 : v[i] = t[i + 0]
    BY <1>1, <1>2
  <2> HIDE DEF u, v
  <2>3. u = v
    BY <2>1, <2>2, Equal
  <2> QED BY <2>3 DEF u, v
<1>5. SubSeq(t, 1, 3) = <<a, b, c>>
  <2> DEFINE u == SubSeq(t, 1, 3)
             v == <<a, b, c>>
  <2>1. u \in Seq(S) /\ Len(u) = 3 /\ \A i \in 1..3 : u[i] = t[i + 0]
    BY <1>2, SubSeqProperties
  <2>2. v \in Seq(S) /\ Len(v) = 3 /\ \A i \in 1..3 : v[i] = t[i + 0]
    BY <1>1, <1>2
  <2> HIDE DEF u, v
  <2>3. u = v
    BY <2>1, <2>2, Equal
  <2> QED BY <2>3 DEF u, v
<1>6. SubSeq(t, 2, 3) = <<b, c>>
  <2> DEFINE u == SubSeq(t, 2, 3)
             v == <<b, c>>
  <2>1. u \in Seq(S) /\ Len(u) = 2 /\ \A i \in 1..2 : u[i] = t[i + 1]
    BY <1>2, SubSeqProperties
  <2>2. v \in Seq(S) /\ Len(v) = 2 /\ \A i \in 1..2 : v[i] = t[i + 1]
    BY <1>1, <1>2
  <2> HIDE DEF u, v
  <2>3. u = v
    BY <2>1, <2>2, Equal
  <2> QED BY <2>3 DEF u, v
<1>7. SubSeq(t, 3, 3) = <<c>>
  <2> DEFINE u == SubSeq(t, 3, 3)
             v == <<c>>
  <2>1. u \in Seq(S) /\ Len(u) = 1 /\ \A i \in 1..1 : u[i] = t[i + 2]
    BY <1>2, SubSeqProperties
  <2>2. v \in Seq(S) /\ Len(v) = 1 /\ \A i \in 1..1 : v[i] = t[i + 2]
    BY <1>1, <1>2
  <2> HIDE DEF u, v
  <2>3. u = v
    BY <2>1, <2>2, Equal
  <2> QED BY <2>3 DEF u, v
<1>8. SubSeq(t, 1, 0) = <<>> /\ SubSeq(t, 4, 3) = <<>>
  BY SubSeqEmpty
<1>9. n = 0 \/ n = 1 \/ n = 2 \/ n = 3
  OBVIOUS
<1>10. CASE n = 0
  <2>1. n + 1 = 1 /\ Len(t) = 3
    BY <1>2, <1>10
  <2>2. SubSeq(t, 1, n) = <<>> /\ SubSeq(t, n + 1, Len(t)) = <<a, b, c>>
    BY <1>10, <2>1, <1>3, <1>4, <1>5, <1>6, <1>7, <1>8, Zenon
  <2> QED BY <1>10, <2>2, Zenon DEF t
<1>11. CASE n = 1
  <2>1. n + 1 = 2 /\ Len(t) = 3
    BY <1>2, <1>11
  <2>2. SubSeq(t, 1, n) = <<a>> /\ SubSeq(t, n + 1, Len(t)) = <<b, c>>
    BY <1>11, <2>1, <1>3, <1>4, <1>5, <1>6, <1>7, <1>8, Zenon
  <2> QED BY <1>11, <2>2, Zenon DEF t
<1>12. CASE n = 2
  <2>1. n + 1 = 3 /\ Len(t) = 3
    BY <1>2, <1>12
  <2>2. SubSeq(t, 1, n) = <<a, b>> /\ SubSeq(t, n + 1, Len(t)) = <<c>>
    BY <1>12, <2>1, <1>3, <1>4, <1>5, <1>6, <1>7, <1>8, Zenon
  <2> QED BY <1>12, <2>2, Zenon DEF t
<1>13. CASE n = 3
  <2>1. n + 1 = 4 /\ Len(t) = 3
    BY <1>2, <1>13
  <2>2. SubSeq(t, 1, n) = <<a, b, c>> /\ SubSeq(t, n + 1, Len(t)) = <<>>
    BY <1>13, <2>1, <1>3, <1>4, <1>5, <1>6, <1>7, <1>8, Zenon
  <2> QED BY <1>13, <2>2, Zenon DEF t
<1> QED BY <1>9, <1>10, <1>11, <1>12, <1>13, Zenon

(* What one, two or three messages leave sent and waiting.               *)
LEMMA SendsOne ==
  ASSUME NEW a, NEW n \in 0..1, Sends(<<a>>, n)
  PROVE  \/ n = 0 /\ ~gone /\ answer' = With(answer, <<>>) /\ out' = <<a>>
         \/ n = 1 /\ answer' = (IF gone THEN answer ELSE With(answer, <<a>>)) /\ out' = <<>>
<1>1. Len(<<a>>) = 1 /\ 0 # 1
  OBVIOUS
<1> QED BY <1>1, Cut1, Zenon DEF Sends

LEMMA SendsTwo ==
  ASSUME NEW a, NEW b, NEW n \in 0..2, Sends(<<a, b>>, n)
  PROVE  \/ n = 0 /\ ~gone /\ answer' = With(answer, <<>>) /\ out' = <<a, b>>
         \/ n = 1 /\ ~gone /\ answer' = With(answer, <<a>>) /\ out' = <<b>>
         \/ n = 2 /\ answer' = (IF gone THEN answer ELSE With(answer, <<a, b>>)) /\ out' = <<>>
<1>1. Len(<<a, b>>) = 2 /\ 0 # 2 /\ 1 # 2
  OBVIOUS
<1> QED BY <1>1, Cut2, Zenon DEF Sends

LEMMA SendsThree ==
  ASSUME NEW a, NEW b, NEW c, NEW n \in 0..3, Sends(<<a, b, c>>, n)
  PROVE  \/ n = 0 /\ ~gone /\ answer' = With(answer, <<>>) /\ out' = <<a, b, c>>
         \/ n = 1 /\ ~gone /\ answer' = With(answer, <<a>>) /\ out' = <<b, c>>
         \/ n = 2 /\ ~gone /\ answer' = With(answer, <<a, b>>) /\ out' = <<c>>
         \/ n = 3 /\ answer' = (IF gone THEN answer ELSE With(answer, <<a, b, c>>)) /\ out' = <<>>
<1> DEFINE t == <<a, b, c>>
<1>1. Len(t) = 3 /\ 0 # 3 /\ 1 # 3 /\ 2 # 3
  OBVIOUS
<1>2. \/ n = 0 /\ SubSeq(t, 1, n) = <<>> /\ SubSeq(t, n + 1, Len(t)) = <<a, b, c>>
      \/ n = 1 /\ SubSeq(t, 1, n) = <<a>> /\ SubSeq(t, n + 1, Len(t)) = <<b, c>>
      \/ n = 2 /\ SubSeq(t, 1, n) = <<a, b>> /\ SubSeq(t, n + 1, Len(t)) = <<c>>
      \/ n = 3 /\ SubSeq(t, 1, n) = <<a, b, c>> /\ SubSeq(t, n + 1, Len(t)) = <<>>
  BY Cut3, Zenon
<1>3. /\ gone => n = Len(t)
      /\ answer' = IF gone THEN answer ELSE With(answer, SubSeq(t, 1, n))
      /\ out' = SubSeq(t, n + 1, Len(t))
  BY Zenon DEF Sends
<1> HIDE DEF t
<1> QED BY <1>1, <1>2, <1>3, Zenon

LEMMA WithNothing ==
  ASSUME NEW S, NEW s \in Seq(S)
  PROVE  With(s, <<>>) = s /\ With(<<>>, s) = s
BY NoneJoined DEF With, GoesOn

LEMMA Ends ==
  ASSUME NEW a, NEW b
  PROVE  /\ Head(<<a>>) = a /\ Head(<<a, b>>) = a /\ Last(<<a>>) = a /\ Last(<<a, b>>) = b
         /\ Tail(<<a>>) = <<>> /\ Tail(<<a, b>>) = <<b>> /\ <<a>> # <<>> /\ <<a, b>> # <<>>
<1>1. Head(<<a>>) = a /\ Head(<<a, b>>) = a /\ Last(<<a>>) = a /\ Last(<<a, b>>) = b
  BY DEF Last
<1>2. <<a>> # <<>> /\ <<a, b>> # <<>>
  OBVIOUS
<1>3. Tail(<<a>>) = <<>>
  OBVIOUS
<1>4. Tail(<<a, b>>) = <<b>>
  <2> DEFINE S == {a, b}
             u == Tail(<<a, b>>)
             v == <<b>>
  <2>1. <<a, b>> \in Seq(S) /\ v \in Seq(S) /\ <<a, b>> # <<>>
    OBVIOUS
  <2>2. u \in Seq(S) /\ Len(u) = 1 /\ Len(v) = 1 /\ u[1] = b /\ v[1] = b
    BY <2>1
  <2> HIDE DEF S, u, v
  <2>3. u = v
    BY <2>1, <2>2, Equal
  <2> QED BY <2>3 DEF u, v
<1> QED BY <1>1, <1>2, <1>3, <1>4

LEMMA WithOther ==
  ASSUME NEW s, NEW a, NEW b, a # "delta"
  PROVE  With(s, <<a>>) = s \o <<a>> /\ With(s, <<a, b>>) = s \o <<a, b>>
BY Ends, Zenon DEF With, GoesOn

LEMMA WithDelta ==
  ASSUME NEW s \in Begun
  PROVE  With(s, <<"delta">>) \in Begun /\ With(s, <<"delta", "finish">>) \in Finished
<1>1. CASE s = <<"stream">>
  <2>1. Last(s) = "stream" /\ "stream" # "delta"
    BY <1>1, Ends, Zenon
  <2>2. With(s, <<"delta">>) = s \o <<"delta">> /\ With(s, <<"delta", "finish">>) = s \o <<"delta", "finish">>
    BY <2>1, Zenon DEF With, GoesOn
  <2> QED BY <1>1, <2>2, Joined, Zenon DEF Begun, Finished
<1>2. CASE s = <<"stream", "delta">>
  <2>1. Last(s) = "delta" /\ s # <<>>
    BY <1>2, Ends, Zenon
  <2>2. GoesOn(s, <<"delta">>) /\ GoesOn(s, <<"delta", "finish">>)
    BY <2>1, Ends, Zenon DEF GoesOn
  <2>3. With(s, <<"delta">>) = s \o <<>> /\ With(s, <<"delta", "finish">>) = s \o <<"finish">>
    BY <2>2, Ends, Zenon DEF With
  <2>4. s \o <<>> = s
    BY <1>2, Typed, NoneJoined, Zenon
  <2> QED BY <1>2, <2>3, <2>4, Joined, Zenon DEF Begun, Finished
<1> QED BY <1>1, <1>2, Zenon DEF Begun

(* How an answer goes on.                                                *)
LEMMA Grows ==
  /\ \A s \in Begun : With(s, <<"finish">>) \in Finished
  /\ \A s \in Begun \cup Finished : With(s, <<"failed">>) \in FailedStreams
  /\ \A s \in Finished : With(s, <<"usage">>) \in Used /\ With(s, <<"usage", "done">>) \in EndedStreams
  /\ \A s \in Used : With(s, <<"done">>) \in EndedStreams
  /\ \A a \in {"ok", "error"} : With(<<a>>, <<"json">>) = <<a, "json">>
<1>1. "finish" # "delta" /\ "failed" # "delta" /\ "usage" # "delta" /\ "done" # "delta" /\ "json" # "delta"
  OBVIOUS
<1>2. ASSUME NEW s \in Begun PROVE With(s, <<"finish">>) \in Finished
  BY <1>1, WithOther, Joined, ZenonT(30) DEF Begun, Finished
<1>3. ASSUME NEW s \in Begun \cup Finished PROVE With(s, <<"failed">>) \in FailedStreams
  <2>1. With(s, <<"failed">>) = s \o <<"failed">>
    BY <1>1, WithOther, Zenon
  <2>2. s \o <<"failed">> \in FailedStreams
    BY Joined, Zenon DEF Begun, Finished, FailedStreams
  <2> QED BY <2>1, <2>2
<1>4. ASSUME NEW s \in Finished PROVE With(s, <<"usage">>) \in Used
  BY <1>1, WithOther, Joined, ZenonT(30) DEF Finished, Used
<1>5. ASSUME NEW s \in Finished PROVE With(s, <<"usage", "done">>) \in EndedStreams
  <2>1. With(s, <<"usage", "done">>) = s \o <<"usage", "done">>
    BY <1>1, WithOther, Zenon
  <2>2. s \o <<"usage", "done">> \in EndedStreams
    BY Joined, Zenon DEF Finished, EndedStreams
  <2> QED BY <2>1, <2>2
<1>6. ASSUME NEW s \in Used PROVE With(s, <<"done">>) \in EndedStreams
  <2>1. With(s, <<"done">>) = s \o <<"done">>
    BY <1>1, WithOther, Zenon
  <2>2. s \o <<"done">> \in EndedStreams
    BY Joined, Zenon DEF Used, EndedStreams
  <2> QED BY <2>1, <2>2
<1>7. ASSUME NEW a \in {"ok", "error"} PROVE With(<<a>>, <<"json">>) = <<a, "json">>
  BY <1>1, WithOther, Joined, Zenon
<1> QED BY <1>2, <1>3, <1>4, <1>5, <1>6, <1>7

(* ---------------------- what the row says ------------------------------ *)

(* How answers begin and end.                                            *)
LEMMA Ends1 ==
  ASSUME NEW a
  PROVE  Last(<<a>>) = a /\ <<a>>[1] = a /\ <<a>> # <<>>
BY DEF Last

LEMMA Ends2 ==
  ASSUME NEW a, NEW b
  PROVE  Last(<<a, b>>) = b /\ <<a, b>>[1] = a /\ <<a, b>> # <<>>
BY DEF Last

LEMMA Ends3 ==
  ASSUME NEW a, NEW b, NEW c
  PROVE  Last(<<a, b, c>>) = c /\ <<a, b, c>>[1] = a /\ <<a, b, c>> # <<>>
BY DEF Last

LEMMA Ends4 ==
  ASSUME NEW a, NEW b, NEW c, NEW d
  PROVE  Last(<<a, b, c, d>>) = d /\ <<a, b, c, d>>[1] = a /\ <<a, b, c, d>> # <<>>
BY DEF Last

LEMMA Ends5 ==
  ASSUME NEW a, NEW b, NEW c, NEW d, NEW e
  PROVE  Last(<<a, b, c, d, e>>) = e /\ <<a, b, c, d, e>>[1] = a /\ <<a, b, c, d, e>> # <<>>
BY DEF Last

LEMMA AnswerEnds ==
  /\ Last(<<"ok">>) = "ok" /\ <<"ok">>[1] = "ok" /\ <<"ok">> # <<>>
  /\ Last(<<"error">>) = "error" /\ <<"error">>[1] = "error" /\ <<"error">> # <<>>
  /\ Last(<<"stream">>) = "stream" /\ <<"stream">>[1] = "stream" /\ <<"stream">> # <<>>
  /\ Last(<<"stream", "delta">>) = "delta" /\ <<"stream", "delta">>[1] = "stream" /\ <<"stream", "delta">> # <<>>
  /\ Last(<<"stream", "finish">>) = "finish" /\ <<"stream", "finish">>[1] = "stream" /\ <<"stream", "finish">> # <<>>
  /\ Last(<<"stream", "delta", "finish">>) = "finish" /\ <<"stream", "delta", "finish">>[1] = "stream" /\ <<"stream", "delta", "finish">> # <<>>
  /\ Last(<<"stream", "finish", "usage">>) = "usage" /\ <<"stream", "finish", "usage">>[1] = "stream" /\ <<"stream", "finish", "usage">> # <<>>
  /\ Last(<<"stream", "delta", "finish", "usage">>) = "usage" /\ <<"stream", "delta", "finish", "usage">>[1] = "stream" /\ <<"stream", "delta", "finish", "usage">> # <<>>
  /\ Last(<<"ok", "json">>) = "json" /\ <<"ok", "json">>[1] = "ok" /\ <<"ok", "json">> # <<>>
  /\ Last(<<"error", "json">>) = "json" /\ <<"error", "json">>[1] = "error" /\ <<"error", "json">> # <<>>
  /\ Last(<<"stream", "finish", "usage", "done">>) = "done" /\ <<"stream", "finish", "usage", "done">>[1] = "stream" /\ <<"stream", "finish", "usage", "done">> # <<>>
  /\ Last(<<"stream", "delta", "finish", "usage", "done">>) = "done" /\ <<"stream", "delta", "finish", "usage", "done">>[1] = "stream" /\ <<"stream", "delta", "finish", "usage", "done">> # <<>>
  /\ Last(<<"stream", "failed">>) = "failed" /\ <<"stream", "failed">>[1] = "stream" /\ <<"stream", "failed">> # <<>>
  /\ Last(<<"stream", "delta", "failed">>) = "failed" /\ <<"stream", "delta", "failed">>[1] = "stream" /\ <<"stream", "delta", "failed">> # <<>>
  /\ Last(<<"stream", "finish", "failed">>) = "failed" /\ <<"stream", "finish", "failed">>[1] = "stream" /\ <<"stream", "finish", "failed">> # <<>>
  /\ Last(<<"stream", "delta", "finish", "failed">>) = "failed" /\ <<"stream", "delta", "finish", "failed">>[1] = "stream" /\ <<"stream", "delta", "finish", "failed">> # <<>>
<1>1. Last(<<"ok">>) = "ok" /\ <<"ok">>[1] = "ok" /\ <<"ok">> # <<>>
  BY Ends1, Zenon
<1>2. Last(<<"error">>) = "error" /\ <<"error">>[1] = "error" /\ <<"error">> # <<>>
  BY Ends1, Zenon
<1>3. Last(<<"stream">>) = "stream" /\ <<"stream">>[1] = "stream" /\ <<"stream">> # <<>>
  BY Ends1, Zenon
<1>4. Last(<<"stream", "delta">>) = "delta" /\ <<"stream", "delta">>[1] = "stream" /\ <<"stream", "delta">> # <<>>
  BY Ends2, Zenon
<1>5. Last(<<"stream", "finish">>) = "finish" /\ <<"stream", "finish">>[1] = "stream" /\ <<"stream", "finish">> # <<>>
  BY Ends2, Zenon
<1>6. Last(<<"stream", "delta", "finish">>) = "finish" /\ <<"stream", "delta", "finish">>[1] = "stream" /\ <<"stream", "delta", "finish">> # <<>>
  BY Ends3, Zenon
<1>7. Last(<<"stream", "finish", "usage">>) = "usage" /\ <<"stream", "finish", "usage">>[1] = "stream" /\ <<"stream", "finish", "usage">> # <<>>
  BY Ends3, Zenon
<1>8. Last(<<"stream", "delta", "finish", "usage">>) = "usage" /\ <<"stream", "delta", "finish", "usage">>[1] = "stream" /\ <<"stream", "delta", "finish", "usage">> # <<>>
  BY Ends4
<1>9. Last(<<"ok", "json">>) = "json" /\ <<"ok", "json">>[1] = "ok" /\ <<"ok", "json">> # <<>>
  BY Ends2, Zenon
<1>10. Last(<<"error", "json">>) = "json" /\ <<"error", "json">>[1] = "error" /\ <<"error", "json">> # <<>>
  BY Ends2, Zenon
<1>11. Last(<<"stream", "finish", "usage", "done">>) = "done" /\ <<"stream", "finish", "usage", "done">>[1] = "stream" /\ <<"stream", "finish", "usage", "done">> # <<>>
  BY Ends4
<1>12. Last(<<"stream", "delta", "finish", "usage", "done">>) = "done" /\ <<"stream", "delta", "finish", "usage", "done">>[1] = "stream" /\ <<"stream", "delta", "finish", "usage", "done">> # <<>>
  BY Ends5
<1>13. Last(<<"stream", "failed">>) = "failed" /\ <<"stream", "failed">>[1] = "stream" /\ <<"stream", "failed">> # <<>>
  BY Ends2, Zenon
<1>14. Last(<<"stream", "delta", "failed">>) = "failed" /\ <<"stream", "delta", "failed">>[1] = "stream" /\ <<"stream", "delta", "failed">> # <<>>
  BY Ends3, Zenon
<1>15. Last(<<"stream", "finish", "failed">>) = "failed" /\ <<"stream", "finish", "failed">>[1] = "stream" /\ <<"stream", "finish", "failed">> # <<>>
  BY Ends3, Zenon
<1>16. Last(<<"stream", "delta", "finish", "failed">>) = "failed" /\ <<"stream", "delta", "finish", "failed">>[1] = "stream" /\ <<"stream", "delta", "finish", "failed">> # <<>>
  BY Ends4
<1> QED BY <1>1, <1>2, <1>3, <1>4, <1>5, <1>6, <1>7, <1>8, <1>9, <1>10, <1>11, <1>12, <1>13, <1>14, <1>15, <1>16

LEMMA WholeEnds ==
  ASSUME NEW w \in Wholes
  PROVE  /\ w # <<>> /\ Last(w) \in {"json", "done", "failed"}
         /\ Last(w) = "done" <=> w \in EndedStreams
         /\ Last(w) = "failed" <=> w \in FailedStreams
         /\ w[1] = "error" <=> w = <<"error", "json">>
<1>1. CASE w = <<"ok", "json">>
  <2>1. w # <<>> /\ Last(w) = "json" /\ w[1] = "ok"
    BY <1>1, AnswerEnds, Zenon
  <2>2. w \notin EndedStreams /\ w \notin FailedStreams /\ w # <<"error", "json">>
    BY <2>1, AnswerEnds, Zenon DEF EndedStreams, FailedStreams
  <2> QED BY <2>1, <2>2
<1>2. CASE w = <<"error", "json">>
  <2>1. w # <<>> /\ Last(w) = "json" /\ w[1] = "error"
    BY <1>2, AnswerEnds, Zenon
  <2>2. w \notin EndedStreams /\ w \notin FailedStreams
    BY <2>1, AnswerEnds, Zenon DEF EndedStreams, FailedStreams
  <2> QED BY <1>2, <2>1, <2>2
<1>3. CASE w \in EndedStreams
  <2>1. w # <<>> /\ Last(w) = "done" /\ w[1] = "stream"
    BY <1>3, AnswerEnds, Zenon DEF EndedStreams
  <2>2. w \notin FailedStreams /\ w # <<"error", "json">>
    BY <2>1, AnswerEnds, Zenon DEF FailedStreams
  <2> QED BY <1>3, <2>1, <2>2
<1>4. CASE w \in FailedStreams
  <2>1. w # <<>> /\ Last(w) = "failed" /\ w[1] = "stream"
    BY <1>4, AnswerEnds, Zenon DEF FailedStreams
  <2>2. w \notin EndedStreams /\ w # <<"error", "json">>
    BY <2>1, AnswerEnds, Zenon DEF EndedStreams
  <2> QED BY <1>4, <2>1, <2>2
<1> QED BY <1>1, <1>2, <1>3, <1>4, Zenon DEF Wholes

LEMMA NotBoth ==
  ASSUME NEW s \in Unfinished
  PROVE  s \notin Wholes
<1>1. CASE s = <<>>
  BY <1>1, WholeEnds
<1>2. CASE s # <<>>
  <2>1. Last(s) \in {"ok", "error", "stream", "delta", "finish", "usage"}
    BY <1>2, AnswerEnds, Zenon DEF Unfinished, Begun, Finished, Used
  <2> QED BY <2>1, WholeEnds
<1> QED BY <1>1, <1>2

LEMMA SeriesOf ==
  ASSUME NEW o \in DOMAIN OUTCOMES, NEW c \in OUTCOMES[o]
  PROVE  <<o, c>> \in Series
<1> DEFINE X == {<<o, code>> : code \in OUTCOMES[o]}
<1>1. <<o, c>> \in X
  OBVIOUS
<1>2. X \in {{<<outcome, code>> : code \in OUTCOMES[outcome]} : outcome \in DOMAIN OUTCOMES}
  OBVIOUS
<1> HIDE DEF X
<1> QED BY <1>1, <1>2 DEF Series

(* The rows: which outcome belongs to which code, by the tables of the *)
(* metrics.                                                            *)
LEMMA OutcomeCodes ==
  /\ DOMAIN OUTCOMES = {"success", "rejected", "unavailable", "draining", "timeout", "engine_error",
                        "internal_error", "client_disconnect"}
  /\ OUTCOMES["success"] = {"none"} /\ OUTCOMES["client_disconnect"] = {"none"}
  /\ OUTCOMES["rejected"] = {"invalid_request", "unsupported_field", "limit_exceeded", "context_limit",
       "min_p_unavailable", "thinking_budget_unavailable", "vision_not_allowed", "unauthorized",
       "class_not_allowed", "scope_not_allowed", "body_too_large", "queue_full", "timeout", "forbidden",
       "not_found", "stale_boot", "stale_generation", "sleep_pending"}
  /\ OUTCOMES["unavailable"] = {"starting", "engine_unavailable", "none"}
  /\ OUTCOMES["draining"] = {"draining", "drained"} /\ OUTCOMES["timeout"] = {"timeout"}
  /\ OUTCOMES["engine_error"] = {"engine_unavailable"} /\ OUTCOMES["internal_error"] = {"internal_error"}
BY DEF OUTCOMES

LEMMA RefusalRow ==
  ASSUME NEW code \in RefusalCodes
  PROVE  /\ OutcomeOf(code, FALSE) \in {"rejected", "unavailable", "draining"} /\ code # "none"
         /\ <<OutcomeOf(code, FALSE), code>> \in Series
<1>1. \/ OutcomeOf(code, FALSE) = "rejected" /\ code \in OUTCOMES["rejected"]
      \/ OutcomeOf(code, FALSE) = "unavailable" /\ code \in OUTCOMES["unavailable"]
      \/ OutcomeOf(code, FALSE) = "draining" /\ code \in OUTCOMES["draining"]
  BY OutcomeCodes DEF OutcomeOf, RefusalCodes
<1>2. <<OutcomeOf(code, FALSE), code>> \in Series
  BY <1>1, OutcomeCodes, SeriesOf
<1>3. code # "none"
  BY DEF RefusalCodes
<1> QED BY <1>1, <1>2, <1>3

LEMMA FailureRow ==
  ASSUME NEW code \in FailureCodes
  PROVE  /\ OutcomeOf(code, TRUE) \in {"rejected", "draining", "timeout", "engine_error", "internal_error"}
         /\ code # "none"
         /\ <<OutcomeOf(code, TRUE), code>> \in Series
<1>1. \/ OutcomeOf(code, TRUE) = "rejected" /\ code \in OUTCOMES["rejected"]
      \/ OutcomeOf(code, TRUE) = "timeout" /\ code \in OUTCOMES["timeout"]
      \/ OutcomeOf(code, TRUE) = "engine_error" /\ code \in OUTCOMES["engine_error"]
      \/ OutcomeOf(code, TRUE) = "internal_error" /\ code \in OUTCOMES["internal_error"]
      \/ OutcomeOf(code, TRUE) = "draining" /\ code \in OUTCOMES["draining"]
  BY OutcomeCodes DEF OutcomeOf, FailureCodes
<1>2. <<OutcomeOf(code, TRUE), code>> \in Series
  BY <1>1, OutcomeCodes, SeriesOf
<1>3. code # "none"
  BY DEF FailureCodes
<1> QED BY <1>1, <1>2, <1>3

LEMMA PlainRows ==
  <<"success", "none">> \in Series /\ <<"client_disconnect", "none">> \in Series /\ <<"unavailable", "none">> \in Series
BY OutcomeCodes, SeriesOf

LEMMA StopCodes ==
  ASSUME NEW stop
  PROVE  /\ StopCode(stop) \in FailureCodes \cup {"none"}
         /\ stop \in {"timeout", "draining", "engine_changed"} => StopCode(stop) # "none"
         /\ stop \notin {"timeout", "draining", "engine_changed"} => StopCode(stop) = "none"
BY DEF StopCode, FailureCodes

(* Rows whose request has ended, and the answers they may have.          *)
LEMMA EndRefused ==
  ASSUME rec'.code \in RefusalCodes, rec'.accepted = FALSE,
         answer' \in Unfinished \cup {<<"error", "json">>}
  PROVE  OutcomeIsTrue'
<1> DEFINE o == OutcomeOf(rec'.code, FALSE)
<1>1. o \in {"rejected", "unavailable", "draining"} /\ rec'.code # "none" /\ <<o, rec'.code>> \in Series
  BY RefusalRow
<1>2. Row' = <<o, rec'.code>>
  BY <1>1, Zenon DEF Row, RequestOutcome
<1> HIDE DEF o
<1>3. Row'[1] = o /\ Row'[2] = rec'.code
  BY <1>2, SMT
<1>4. A!Whole' <=> answer' \in Wholes
  BY WholesAreAnswers, Zenon DEF A!Whole
<1>5. A!Whole' => answer' = <<"error", "json">>
  BY <1>4, NotBoth, Zenon
<1>6. A!Whole' => Last(answer') # "done"
  BY <1>5, AnswerEnds
<1> QED BY <1>1, <1>2, <1>3, <1>5, <1>6, Zenon DEF OutcomeIsTrue

LEMMA EndFailed ==
  ASSUME rec'.code \in FailureCodes, rec'.accepted = TRUE,
         answer' \in Unfinished \cup {<<"error", "json">>} \cup FailedStreams
  PROVE  OutcomeIsTrue'
<1> DEFINE o == OutcomeOf(rec'.code, TRUE)
<1>1. /\ o \in {"rejected", "draining", "timeout", "engine_error", "internal_error"} /\ rec'.code # "none"
      /\ <<o, rec'.code>> \in Series
  BY FailureRow
<1>2. Row' = <<o, rec'.code>>
  BY <1>1, Zenon DEF Row, RequestOutcome
<1> HIDE DEF o
<1>3. Row'[1] = o /\ Row'[2] = rec'.code
  BY <1>2, SMT
<1>4. A!Whole' <=> answer' \in Wholes
  BY WholesAreAnswers, Zenon DEF A!Whole
<1>5. A!Whole' => answer' \in {<<"error", "json">>} \cup FailedStreams
  BY <1>4, NotBoth, Zenon
<1>6. A!Whole' => Last(answer') # "done"
  BY <1>5, AnswerEnds, WholeEnds DEF Wholes
<1> QED BY <1>1, <1>2, <1>3, <1>6, Zenon DEF OutcomeIsTrue

LEMMA EndCut ==
  ASSUME rec'.code = "none", rec'.cancelled = FALSE, cut', answer' \in Unfinished
  PROVE  OutcomeIsTrue'
<1>1. Row' = <<"success", "none">>
  BY Zenon DEF Row, RequestOutcome
<1>2. Row'[1] = "success"
  BY <1>1, SMT
<1>3. ~A!Whole'
  BY WholesAreAnswers, NotBoth, Zenon DEF A!Whole
<1> QED BY <1>1, <1>2, <1>3, PlainRows, Zenon DEF OutcomeIsTrue

LEMMA EndStopped ==
  ASSUME rec'.code = "none", rec'.cancelled = TRUE, rec'.accepted = TRUE,
         rec'.stop \in {"timeout", "disconnect", "draining", "engine_changed", "shutdown"},
         rec'.stop = "disconnect" => gone', answer' \in Unfinished
  PROVE  OutcomeIsTrue'
<1> DEFINE c == StopCode(rec'.stop)
<1>1. ~A!Whole'
  BY WholesAreAnswers, NotBoth, Zenon DEF A!Whole
<1>2. CASE c # "none"
  <2> DEFINE o == OutcomeOf(c, TRUE)
  <2>1. o \in {"rejected", "draining", "timeout", "engine_error", "internal_error"} /\ <<o, c>> \in Series
    BY <1>2, StopCodes, FailureRow
  <2>2. Row' = <<o, c>>
    BY <1>2, Zenon DEF Row, RequestOutcome
  <2> HIDE DEF o, c
  <2>3. Row'[1] = o
    BY <2>2, SMT
  <2> QED BY <1>1, <2>1, <2>2, <2>3, Zenon DEF OutcomeIsTrue
<1>3. CASE c = "none"
  <2>1. rec'.stop \in {"disconnect", "shutdown"}
    BY <1>3, StopCodes
  <2> DEFINE o == IF rec'.stop = "shutdown" THEN "unavailable" ELSE "client_disconnect"
  <2>2. Row' = <<o, "none">>
    BY <1>3, Zenon DEF Row, RequestOutcome
  <2>3. o \in {"unavailable", "client_disconnect"} /\ (o = "client_disconnect" => gone')
    BY <2>1
  <2> HIDE DEF o, c
  <2>4. Row'[1] = o
    BY <2>2, SMT
  <2> QED BY <1>1, <2>2, <2>3, <2>4, PlainRows, Zenon DEF OutcomeIsTrue
<1> QED BY <1>2, <1>3

LEMMA EndLeft ==
  ASSUME rec'.code = "none", rec'.cancelled = TRUE, rec'.stop = "none", gone', answer' \in Unfinished
  PROVE  OutcomeIsTrue'
<1>1. ~A!Whole'
  BY WholesAreAnswers, NotBoth, Zenon DEF A!Whole
<1>2. StopCode(rec'.stop) = "none" /\ rec'.stop # "shutdown"
  BY StopCodes
<1>3. Row' = <<"client_disconnect", "none">>
  BY <1>2, Zenon DEF Row, RequestOutcome
<1>4. Row'[1] = "client_disconnect"
  BY <1>3, SMT
<1> QED BY <1>1, <1>3, <1>4, PlainRows, Zenon DEF OutcomeIsTrue

LEMMA EndGood ==
  ASSUME rec'.code = "none", rec'.cancelled = FALSE,
         IF gone' THEN answer' \in Unfinished ELSE answer' \in {<<"ok", "json">>} \cup EndedStreams
  PROVE  OutcomeIsTrue'
<1>1. Row' = <<"success", "none">>
  BY Zenon DEF Row, RequestOutcome
<1>2. Row'[1] = "success"
  BY <1>1, SMT
<1>3. A!Whole' <=> answer' \in Wholes
  BY WholesAreAnswers, Zenon DEF A!Whole
<1>4. gone' \/ A!Whole'
  BY <1>3, Zenon DEF Wholes
<1>5. A!Whole' => answer' \in {<<"ok", "json">>} \cup EndedStreams
  BY <1>3, NotBoth, Zenon
<1>6. A!Whole' => answer'[1] # "error" /\ Last(answer') # "failed"
  <2>1. \A w \in Wholes : w \in {<<"ok", "json">>} \cup EndedStreams => w[1] # "error" /\ Last(w) # "failed"
    <3>1. ASSUME NEW w \in EndedStreams PROVE w # <<"error", "json">> /\ w \notin FailedStreams
      BY AnswerEnds, Zenon DEF EndedStreams, FailedStreams
    <3>2. <<"ok", "json">> # <<"error", "json">> /\ <<"ok", "json">> \notin FailedStreams
      BY AnswerEnds, Zenon DEF FailedStreams
    <3> QED BY <3>1, <3>2, WholeEnds, Zenon
  <2> QED BY <1>3, <1>5, <2>1, Zenon
<1> QED BY <1>1, <1>2, <1>4, <1>6, PlainRows, Zenon DEF OutcomeIsTrue

(* ------------------ the inductive invariant ---------------------------- *)

NewRow == [code |-> "none", accepted |-> FALSE, cancelled |-> FALSE, stop |-> "none", total |-> FALSE]

Stops == {"timeout", "disconnect", "draining", "engine_changed", "shutdown"}

(* An answer in JSON of which something waits for the client.            *)
Waits(status) == \/ answer = <<>> /\ out = <<status, "json">>
                 \/ answer = <<status>> /\ out = <<"json">>

RowTyped ==
  /\ rec = [code |-> rec.code, accepted |-> rec.accepted, cancelled |-> rec.cancelled, stop |-> rec.stop,
            total |-> rec.total]
  /\ rec.accepted \in BOOLEAN /\ rec.cancelled \in BOOLEAN /\ rec.stop \in Stops \cup {"none"}

Types ==
  /\ kind \in Kinds /\ tr \in Translators
  /\ started \in BOOLEAN /\ gone \in BOOLEAN /\ cut \in BOOLEAN /\ late \in BOOLEAN

(* Before its answer.                                                    *)
EarlyInv ==
  /\ at = "scraping" => kind \notin Inference
  /\ at \in {"arrived", "reading", "scraping"} =>
       rec = NewRow /\ result = "none" /\ ~started /\ ~cut /\ answer = <<>> /\ out = <<>>

(* While a refusal, or the answer of another route, waits.               *)
RefusingInv ==
  at \in {"turned", "refusing"} =>
    /\ rec.cancelled = FALSE /\ rec.accepted = FALSE /\ rec.stop = "none"
    /\ kind \in Inference => rec.code \in RefusalCodes
    /\ ~gone => Waits("error") \/ (kind \notin Inference /\ Waits("ok"))

(* The task's parts, and what they leave to the handler.                 *)
TaskInv ==
  /\ task \notin {"none", "over"} => at = "serving" /\ result = "none" /\ rec.stop = "none"
  /\ task \in {"place_wait", "asking", "relay", "sending"} => kind = "generation"
  /\ task \in {"count_wait", "counting", "place_wait", "asking"} => ~started /\ answer = <<>> /\ out = <<>>
  /\ task = "over" => result \in FailureCodes \cup {"ok", "cancelled"}
  /\ result = "cancelled" => rec.stop # "none"

(* The translator is new until the engine streams.                       *)
FreshInv == task \in {"none", "count_wait", "counting", "place_wait", "asking"} => ~tr.finish

ServingInv ==
  /\ at \in {"serving", "cleanup", "terminal"} => task # "none"
  /\ at \in {"cleanup", "terminal"} => task = "over"
  /\ at = "serving" => ~cut /\ rec.cancelled = FALSE
  /\ at \in {"serving", "cleanup"} => rec.code = "none"
  /\ at = "cleanup" => IF cut THEN rec.cancelled => rec.stop # "none" ELSE rec.cancelled = FALSE
  /\ rec.stop = "disconnect" => gone
  /\ rec.stop = "shutdown" => cut

(* What has been sent and what waits, while the task relays the stream.  *)
RelayInv ==
  ~gone =>
    /\ task = "relay" /\ ~started => answer = <<>> /\ ~tr.finish
    /\ task = "relay" /\ started => answer \in IF tr.finish THEN Finished ELSE Begun
    /\ task = "sending" =>
         \/ ~started /\ answer = <<>> /\ out \in IF tr.finish THEN Finished ELSE Begun
         \/ started /\ answer \in Begun
            /\ out \in IF tr.finish THEN {<<"finish">>, <<"delta", "finish">>} ELSE {<<"delta">>}

(* And when it is over, before the terminal message.                     *)
OverInv ==
  ~gone /\ task = "over" /\ at \in {"serving", "cleanup"} =>
    /\ answer \in IF started THEN Begun \cup Finished ELSE {<<>>}
    /\ result = "ok" => IF kind = "generation" THEN started /\ answer \in Finished ELSE ~started

(* The terminal message, while a part of it waits.                       *)
TerminalWaits ==
  IF rec.code # "none" THEN Waits("error") \/ (out = <<"failed">> /\ answer \in Begun \cup Finished)
  ELSE IF kind = "count" THEN Waits("ok")
  ELSE \/ out = <<"usage", "done">> /\ answer \in Finished
       \/ out = <<"done">> /\ answer \in Used

TerminalInv ==
  at = "terminal" =>
    /\ rec.code \in FailureCodes \/ (rec.code = "none" /\ result = "ok")
    /\ rec.cancelled = (result = "cancelled")
    /\ ~gone => TerminalWaits

(* The answer is whole at the end only.                                  *)
AnswerInv == answer \in Unfinished \/ (at = "ended" /\ answer \in Wholes)

IInv == /\ TypeOK /\ Types /\ RowTyped /\ EarlyInv /\ RefusingInv /\ TaskInv /\ FreshInv
        /\ ServingInv /\ RelayInv /\ OverInv /\ TerminalInv /\ AnswerInv /\ CallerInv /\ OutcomeIsTrue

USE DEF Inference

LEMMA Distinct ==
  ASSUME NEW a, NEW b
  PROVE  <<a, b>> # <<>> /\ <<a>> # <<>>
OBVIOUS

(* An answer in JSON where nothing has been sent.                        *)
LEMMA JsonFromNothing ==
  ASSUME NEW status \in {"ok", "error"}, NEW pc, answer \in Unfinished,
         ~gone => answer = <<>>, HandlerSends(<<status, "json">>, pc)
  PROVE  /\ started' = TRUE
         /\ \/ /\ at' = pc /\ ~gone /\ Waits(status)' /\ out' # <<>> /\ answer' \in Unfinished
            \/ /\ at' = "ended" /\ out' = <<>> /\ answer' = IF gone THEN answer ELSE <<status, "json">>
<1> DEFINE ms == <<status, "json">>
<1>1. PICK n \in 0..2 : /\ Sends(ms, n)
                        /\ at' = IF n = 2 THEN "ended" ELSE pc
                        /\ started' = (started \/ ms # <<>>)
  <2>1. Len(ms) = 2
    OBVIOUS
  <2> HIDE DEF ms
  <2>2. HandlerSends(ms, pc)
    BY DEF ms
  <2> QED BY <2>1, <2>2, Zenon DEF HandlerSends
<1>2. started' = TRUE
  BY <1>1, Distinct, Zenon
<1>3. \/ n = 0 /\ ~gone /\ answer' = With(answer, <<>>) /\ out' = ms
      \/ n = 1 /\ ~gone /\ answer' = With(answer, <<status>>) /\ out' = <<"json">>
      \/ n = 2 /\ answer' = (IF gone THEN answer ELSE With(answer, ms)) /\ out' = <<>>
  BY <1>1, SendsTwo, Zenon
<1>4. /\ With(<<>>, <<>>) = <<>> /\ With(<<>>, <<status>>) = <<status>> /\ With(<<>>, ms) = ms
  <2>1. <<status>> \in Seq(Messages) /\ ms \in Seq(Messages)
    BY Typed, Zenon
  <2>2. <<>> \in Seq(Messages)
    OBVIOUS
  <2> QED BY <2>1, <2>2, WithNothing, Zenon
<1>5. <<>> \in Unfinished /\ <<status>> \in Unfinished
  BY Zenon DEF Unfinished
<1>6. 0 # 2 /\ 1 # 2
  OBVIOUS
<1>7. CASE n = 2
  BY <1>1, <1>2, <1>3, <1>4, <1>6, <1>7, Zenon
<1>8. CASE n = 0
  <2>1. answer' = <<>> /\ out' = ms /\ at' = pc /\ ~gone
    BY <1>1, <1>3, <1>4, <1>6, <1>8, Zenon
  <2> QED BY <1>2, <1>5, <2>1, Distinct, Zenon DEF Waits
<1>9. CASE n = 1
  <2>1. answer' = <<status>> /\ out' = <<"json">> /\ at' = pc /\ ~gone
    BY <1>1, <1>3, <1>4, <1>6, <1>9, Zenon
  <2> QED BY <1>2, <1>5, <2>1, Distinct, Zenon DEF Waits
<1> QED BY <1>3, <1>7, <1>8, <1>9, Zenon

(* A step of the preparation that sends an answer in JSON.               *)
LEMMA AnswerStep ==
  ASSUME IInv, at \in {"arrived", "reading", "scraping"}, NEW status \in {"ok", "error"},
         NEW pc \in {"turned", "refusing"}, HandlerSends(<<status, "json">>, pc), RowTyped',
         rec'.cancelled = FALSE, rec'.accepted = FALSE, rec'.stop = "none",
         kind \in Inference => status = "error" /\ rec'.code \in RefusalCodes,
         UNCHANGED <<kind, caller, late, work, gone, cut>>
  PROVE  IInv'
<1>1. TypeOK /\ Types /\ rec = NewRow /\ result = "none" /\ ~started /\ answer = <<>> /\ out = <<>> /\ task = "none"
  <2>1. TypeOK /\ Types /\ rec = NewRow /\ result = "none" /\ ~started /\ answer = <<>> /\ out = <<>>
    BY Zenon DEF IInv, EarlyInv
  <2>2. rec.accepted = FALSE
    BY <2>1, Zenon DEF NewRow
  <2>3. task = "none"
    BY <2>1, <2>2 DEF TypeOK
  <2> QED BY <2>1, <2>3
<1>0. answer \in Unfinished
  BY <1>1, Zenon DEF Unfinished
<1>2. /\ started' = TRUE
      /\ \/ /\ at' = pc /\ ~gone /\ Waits(status)' /\ out' # <<>> /\ answer' \in Unfinished
         \/ /\ at' = "ended" /\ out' = <<>> /\ answer' = IF gone THEN <<>> ELSE <<status, "json">>
  BY <1>0, <1>1, JsonFromNothing, Zenon
<1>3. /\ kind' = kind /\ caller' = caller /\ late' = late /\ task' = task /\ result' = result /\ tr' = tr
      /\ gone' = gone /\ cut' = cut
  BY Zenon DEF work
<1>4. TypeOK'
  BY <1>1, <1>2, <1>3 DEF TypeOK
<1>5. Types'
  BY <1>1, <1>2, <1>3, Zenon DEF Types
<1>6. EarlyInv' /\ TerminalInv' /\ CallerInv'
  BY <1>2 DEF EarlyInv, TerminalInv, CallerInv
<1>7. RefusingInv'
  BY <1>2, <1>3, Zenon DEF RefusingInv
<1>8. TaskInv' /\ FreshInv' /\ RelayInv' /\ OverInv'
  <2>1. FreshInv
    BY Zenon DEF IInv
  <2> QED BY <1>1, <1>3, <2>1 DEF TaskInv, FreshInv, RelayInv, OverInv
<1>9. ServingInv'
  BY <1>1, <1>2, <1>3 DEF ServingInv
<1>10. AnswerInv'
  BY <1>2, Zenon DEF AnswerInv, Unfinished, Wholes
<1>11. OutcomeIsTrue'
  <2>1. CASE at' = pc
    BY <2>1 DEF OutcomeIsTrue
  <2>2. CASE at' = "ended" /\ kind \in Inference
    BY <1>2, <2>2, EndRefused, Zenon DEF Unfinished
  <2>3. CASE kind \notin Inference
    BY <1>3, <2>3 DEF OutcomeIsTrue
  <2> QED BY <1>2, <2>1, <2>2, <2>3, Zenon
<1> QED BY <1>4, <1>5, <1>6, <1>7, <1>8, <1>9, <1>10, <1>11, Zenon DEF IInv

LEMMA RefusedStep ==
  ASSUME IInv, at \in {"arrived", "reading", "scraping"}, NEW code, kind \in Inference => code \in RefusalCodes,
         NEW pc \in {"turned", "refusing"}, rec' = [rec EXCEPT !.code = code], HandlerSends(ErrorMessages, pc),
         UNCHANGED <<kind, caller, late, work, gone, cut>>
  PROVE  IInv'
<1>1. rec = NewRow /\ ~started /\ RowTyped
  BY Zenon DEF IInv, EarlyInv
<1>2. HandlerSends(<<"error", "json">>, pc)
  BY <1>1, Zenon DEF ErrorMessages
<1>3. rec' = [NewRow EXCEPT !.code = code]
  BY <1>1, <1>2
<1>4. RowTyped' /\ rec'.code = code /\ rec'.cancelled = FALSE /\ rec'.accepted = FALSE /\ rec'.stop = "none"
  BY <1>3 DEF RowTyped, NewRow
<1> QED BY <1>2, <1>4, AnswerStep

LEMMA RefuseStep ==
  ASSUME IInv, at \in {"arrived", "reading", "scraping"}, NEW code, kind \in Inference => code \in RefusalCodes,
         Refuse(code), UNCHANGED <<kind, caller, late, work, gone, cut>>
  PROVE  IInv'
<1>1. rec' = [rec EXCEPT !.code = code] /\ HandlerSends(ErrorMessages, "refusing")
  BY Zenon DEF Refuse
<1> QED BY <1>1, RefusedStep

LEMMA ReplyStep ==
  ASSUME IInv, at \in {"arrived", "reading", "scraping"}, kind \notin Inference, NEW code, Replied(code),
         UNCHANGED <<kind, caller, late, work, gone, cut>>
  PROVE  IInv'
<1>1. CASE code = "ok"
  <2>1. HandlerSends(<<"ok", "json">>, "refusing") /\ rec' = rec
    BY <1>1, Zenon DEF Replied
  <2>2. rec = NewRow /\ RowTyped
    BY Zenon DEF IInv, EarlyInv
  <2>3. RowTyped' /\ rec'.cancelled = FALSE /\ rec'.accepted = FALSE /\ rec'.stop = "none"
    BY <2>1, <2>2 DEF RowTyped, NewRow
  <2> QED BY <2>1, <2>3, AnswerStep
<1>2. CASE code # "ok"
  <2>1. Refuse(code)
    BY <1>2, Zenon DEF Replied
  <2> QED BY <2>1, RefuseStep
<1> QED BY <1>1, <1>2

(* A step of the preparation that sends nothing.                         *)
LEMMA SilentStep ==
  ASSUME IInv, at \in {"arrived", "reading", "scraping"}, at' \in {"arrived", "reading", "scraping"},
         at' = "scraping" => kind \notin Inference, late' \in BOOLEAN, gone => gone', gone' \in BOOLEAN, CallerInv',
         UNCHANGED <<kind, rec, work, sends, cut>>
  PROVE  IInv'
<1>1. /\ TypeOK /\ Types /\ RowTyped /\ rec = NewRow /\ result = "none" /\ ~started /\ ~cut /\ answer = <<>> /\ out = <<>>
      /\ ServingInv
  BY Zenon DEF IInv, EarlyInv
<1>2. rec.accepted = FALSE /\ rec.stop = "none"
  BY <1>1, Zenon DEF NewRow
<1>3. task = "none"
  BY <1>1, <1>2 DEF TypeOK
<1>4. /\ kind' = kind /\ rec' = rec /\ task' = task /\ result' = result /\ tr' = tr
      /\ started' = started /\ out' = out /\ answer' = answer /\ cut' = cut
  BY Zenon DEF work, sends
<1>5. TypeOK'
  BY <1>1, <1>3, <1>4 DEF TypeOK
<1>6. Types' /\ RowTyped'
  BY <1>1, <1>4, Zenon DEF Types, RowTyped
<1>7. EarlyInv' /\ RefusingInv' /\ TerminalInv' /\ OutcomeIsTrue'
  BY <1>1, <1>4 DEF EarlyInv, RefusingInv, TerminalInv, OutcomeIsTrue
<1>8. TaskInv' /\ FreshInv' /\ RelayInv' /\ OverInv'
  <2>1. FreshInv
    BY Zenon DEF IInv
  <2> QED BY <1>1, <1>3, <1>4, <2>1 DEF TaskInv, FreshInv, RelayInv, OverInv
<1>9. ServingInv'
  BY <1>2, <1>4 DEF ServingInv
<1>10. AnswerInv'
  BY <1>1, <1>4, Zenon DEF AnswerInv, Unfinished
<1> QED BY <1>5, <1>6, <1>7, <1>8, <1>9, <1>10, Zenon DEF IInv

LEMMA TurnedStep ==
  ASSUME IInv, NEW code \in {"queue_full", "not_found"}, Turned(code)
  PROVE  IInv'
<1>1. code \in RefusalCodes
  BY DEF RefusalCodes
<1>2. /\ at = "arrived" /\ rec' = [rec EXCEPT !.code = code] /\ HandlerSends(ErrorMessages, "turned")
      /\ UNCHANGED <<kind, caller, late, work, gone, cut>>
  BY Zenon DEF Turned
<1> QED BY <1>1, <1>2, RefusedStep

LEMMA UnauthorizedStep ==
  ASSUME IInv, NEW k, NEW status \in Statuses, NEW c, NEW s, Unauthorized(k, status, c, s)
  PROVE  IInv'
<1>1. Authorize(k, status, c, s) \in RefusalCodes
  BY AuthorizeCodes DEF Unauthorized, RefusalCodes
<1> QED BY <1>1, RefuseStep DEF Unauthorized

LEMMA AuthorizedStep ==
  ASSUME IInv, NEW k \in Keys \cup {NoKey}, NEW status \in Statuses, NEW c \in ClassHeaders, NEW s \in ScopeHeaders,
         Authorized(k, status, c, s)
  PROVE  IInv'
<1>1. CallerInv'
  <2>1. Authorize(k, status, c, s) = "ok" /\ caller' = CallerOf(k, c, s)
    BY Zenon DEF Authorized
  <2>2. CallerOf(k, c, s)' = CallerOf(k, c, s)
    BY Zenon
  <2> QED BY <2>1, Zenon DEF CallerInv
<1>2. gone' = gone /\ late' = late /\ gone \in BOOLEAN /\ late \in BOOLEAN
  BY Zenon DEF IInv, Types, Authorized
<1>3. at = "arrived" /\ at' = "reading" /\ UNCHANGED <<kind, rec, work, sends, cut>>
  BY Zenon DEF Authorized
<1> QED BY <1>1, <1>2, <1>3, SilentStep

(* The steps of the code before the task, one each.                    *)
LEMMA PlainStep ==
  ASSUME IInv, NEW k, NEW ready, Plain(k, ready)
  PROVE  IInv'
<1> DEFINE code == PlainCode(k, ready)
<1>1. at = "arrived" /\ kind \notin Inference /\ UNCHANGED <<kind, caller, late, work, gone, cut>>
  BY Zenon DEF Plain
<1>2. \/ at' \in {"reading", "scraping"} /\ UNCHANGED <<rec, sends>>
      \/ Replied(code)
  BY DEF Plain
<1> HIDE DEF code
<1>3. CASE Replied(code)
  BY <1>1, <1>3, ReplyStep
<1>4. CASE at' \in {"reading", "scraping"} /\ UNCHANGED <<rec, sends>>
  <2>1. gone' = gone /\ late' = late /\ gone \in BOOLEAN /\ late \in BOOLEAN /\ kind' = kind
    BY <1>1, Zenon DEF IInv, Types
  <2>2. CallerInv'
    BY <1>1, <2>1, Zenon DEF CallerInv
  <2> QED BY <1>1, <1>4, <2>1, <2>2, SilentStep
<1> QED BY <1>2, <1>3, <1>4

LEMMA BodyStep ==
  ASSUME IInv, NEW b \in Bodies, NEW status \in Statuses, BodyRead(b, status)
  PROVE  IInv'
<1> DEFINE code == Admit(kind, caller, b, status)
<1>1. at = "reading" /\ kind \in Inference /\ ~gone /\ UNCHANGED <<kind, caller, late, gone, cut>>
  BY Zenon DEF BodyRead
<1>2. CASE code # "ok"
  <2>1. Refuse(code) /\ UNCHANGED work
    BY <1>2, Zenon DEF BodyRead
  <2>2. code \in RefusalCodes
    BY <1>2, AdmitCodes
  <2> HIDE DEF code
  <2> QED BY <1>1, <2>1, <2>2, RefuseStep
<1>3. CASE code = "ok"
  <2>1. /\ rec' = [rec EXCEPT !.accepted = TRUE] /\ at' = "serving" /\ task' = "count_wait"
        /\ UNCHANGED <<result, tr, sends>>
    BY <1>3, Zenon DEF BodyRead
  <2>2. /\ TypeOK /\ Types /\ RowTyped /\ rec = NewRow /\ result = "none" /\ ~started /\ answer = <<>> /\ out = <<>>
    BY <1>1, Zenon DEF IInv, EarlyInv
  <2>3. rec' = [NewRow EXCEPT !.accepted = TRUE]
    BY <2>1, <2>2
  <2>4. /\ RowTyped' /\ rec'.accepted = TRUE /\ rec'.cancelled = FALSE /\ rec'.stop = "none" /\ rec'.code = "none"
    BY <2>3 DEF RowTyped, NewRow
  <2>5. /\ kind' = kind /\ result' = result /\ tr' = tr /\ gone' = gone /\ late' = late
        /\ started' = started /\ out' = out /\ answer' = answer /\ cut' = cut
    BY <1>1, <2>1, Zenon DEF sends
  <2>6. TypeOK'
    BY <1>1, <2>1, <2>2, <2>4, <2>5 DEF TypeOK
  <2>7. Types' /\ EarlyInv' /\ RefusingInv' /\ TerminalInv' /\ OutcomeIsTrue' /\ CallerInv'
    BY <2>1, <2>2, <2>5 DEF Types, EarlyInv, RefusingInv, TerminalInv, OutcomeIsTrue, CallerInv
  <2>8. TaskInv' /\ FreshInv' /\ RelayInv' /\ OverInv'
    <3>1. FreshInv /\ rec.accepted = FALSE
      BY <2>2, Zenon DEF IInv, NewRow
    <3>2. task = "none"
      BY <2>2, <3>1 DEF TypeOK
    <3> QED BY <2>1, <2>2, <2>4, <2>5, <3>1, <3>2 DEF TaskInv, FreshInv, RelayInv, OverInv
  <2>9. ~cut
    BY <1>1, Zenon DEF IInv, EarlyInv
  <2>10. ServingInv'
    BY <2>1, <2>4, <2>5, <2>9 DEF ServingInv
  <2>11. AnswerInv'
    BY <2>2, <2>5, Zenon DEF AnswerInv, Unfinished
  <2> QED BY <2>4, <2>6, <2>7, <2>8, <2>10, <2>11, Zenon DEF IInv
<1> QED BY <1>2, <1>3

LEMMA ScrapedStep ==
  ASSUME IInv, NEW scrape, Scraped(scrape)
  PROVE  IInv'
<1>1. kind \notin Inference
  BY Zenon DEF IInv, EarlyInv, Scraped
<1> QED BY <1>1, ReplyStep DEF Scraped

LEMMA TooLargeStep ==
  ASSUME IInv, TooLarge
  PROVE  IInv'
<1>1. "body_too_large" \in RefusalCodes
  BY DEF RefusalCodes
<1> QED BY <1>1, RefuseStep DEF TooLarge

LEMMA ControlledStep ==
  ASSUME IInv, NEW code, Controlled(code)
  PROVE  IInv'
<1>1. at = "reading" /\ kind \notin Inference /\ Replied(code) /\ UNCHANGED <<kind, caller, late, work, gone, cut>>
  <2>1. at = "reading" /\ kind = "control" /\ Replied(code) /\ UNCHANGED <<kind, caller, late, work, gone, cut>>
    BY Zenon DEF Controlled
  <2>2. kind \notin Inference
    BY <2>1
  <2> QED BY <2>1, <2>2
<1> QED BY <1>1, ReplyStep

LEMMA BodyLateStep ==
  ASSUME IInv, BodyLate
  PROVE  IInv'
<1>1. "timeout" \in RefusalCodes
  BY DEF RefusalCodes
<1> QED BY <1>1, RefuseStep DEF BodyLate

(* The request ends before it is accepted, with nothing more sent.       *)
LEMMA EndsEarly ==
  ASSUME IInv, at \in {"arrived", "turned", "reading", "scraping", "refusing"}, at' = "ended", out' = <<>>, RowTyped',
         rec'.accepted = FALSE, rec'.stop = rec.stop, cut' \in BOOLEAN, OutcomeIsTrue',
         UNCHANGED <<kind, caller, late, work, started, answer, gone>>
  PROVE  IInv'
<1>1. /\ kind' = kind /\ caller' = caller /\ late' = late /\ task' = task /\ result' = result /\ tr' = tr
      /\ started' = started /\ answer' = answer /\ gone' = gone
  BY Zenon DEF work
<1>2. TypeOK /\ Types /\ RowTyped /\ AnswerInv /\ TaskInv /\ FreshInv
  BY Zenon DEF IInv
<1>3. rec.accepted = FALSE /\ rec.stop = "none"
  <2>1. CASE at \in {"turned", "refusing"}
    BY <2>1, Zenon DEF IInv, RefusingInv
  <2>2. CASE at \notin {"turned", "refusing"}
    <3>1. rec = NewRow
      BY <2>2, Zenon DEF IInv, EarlyInv
    <3> QED BY <3>1, Zenon DEF NewRow
  <2> QED BY <2>1, <2>2
<1>4. task = "none"
  BY <1>2, <1>3 DEF TypeOK
<1>5. TypeOK'
  BY <1>1, <1>2, <1>4 DEF TypeOK
<1>6. Types' /\ EarlyInv' /\ RefusingInv' /\ TerminalInv' /\ CallerInv'
  BY <1>1, <1>2 DEF Types, EarlyInv, RefusingInv, TerminalInv, CallerInv
<1>7. FreshInv' /\ RelayInv' /\ OverInv'
  BY <1>1, <1>2, <1>4 DEF FreshInv, RelayInv, OverInv
<1>8. TaskInv' /\ ServingInv'
  BY <1>1, <1>2, <1>3, <1>4 DEF TaskInv, ServingInv
<1>9. AnswerInv'
  BY <1>1, <1>2, Zenon DEF AnswerInv
<1> QED BY <1>1, <1>5, <1>6, <1>7, <1>8, <1>9, Zenon DEF IInv

LEMMA LeftEarlyStep ==
  ASSUME IInv, LeftEarly
  PROVE  IInv'
<1>1. /\ at = "reading" /\ gone /\ rec' = [rec EXCEPT !.cancelled = TRUE] /\ at' = "ended"
      /\ kind' = kind /\ caller' = caller /\ late' = late /\ work' = work /\ started' = started
      /\ out' = out /\ answer' = answer /\ gone' = gone /\ cut' = cut
  BY Zenon DEF LeftEarly, sends
<1>2. rec = NewRow /\ answer = <<>> /\ out = <<>> /\ cut \in BOOLEAN
  BY <1>1, Zenon DEF IInv, EarlyInv, Types
<1>3. rec' = [NewRow EXCEPT !.cancelled = TRUE]
  BY <1>1, <1>2
<1>4. /\ RowTyped' /\ rec'.accepted = FALSE /\ rec'.stop = "none" /\ rec'.code = "none" /\ rec'.cancelled = TRUE
      /\ rec'.stop = rec.stop
  BY <1>2, <1>3 DEF RowTyped, NewRow
<1>5. OutcomeIsTrue'
  BY <1>1, <1>2, <1>4, EndLeft, Zenon DEF Unfinished
<1> QED BY <1>1, <1>2, <1>4, <1>5, EndsEarly

LEMMA RefusalLateStep ==
  ASSUME IInv, RefusalLate
  PROVE  IInv'
<1>1. /\ at = "refusing" /\ rec' = [rec EXCEPT !.cancelled = TRUE] /\ at' = "ended" /\ out' = <<>>
      /\ kind' = kind /\ caller' = caller /\ late' = late /\ work' = work /\ started' = started
      /\ answer' = answer /\ gone' = gone /\ cut' = cut
  BY Zenon DEF RefusalLate
<1>2. /\ RowTyped /\ cut \in BOOLEAN /\ AnswerInv /\ RefusingInv
  BY Zenon DEF IInv, Types
<1>3. /\ RowTyped' /\ rec'.accepted = FALSE /\ rec'.stop = rec.stop /\ rec'.code = rec.code
  BY <1>1, <1>2 DEF RowTyped, RefusingInv
<1>4. answer' \in Unfinished
  BY <1>1, <1>2 DEF AnswerInv
<1>5. OutcomeIsTrue'
  <2>1. CASE kind \in Inference
    <3>1. rec'.code \in RefusalCodes
      BY <1>1, <1>2, <1>3, <2>1, Zenon DEF RefusingInv
    <3> QED BY <1>3, <1>4, <3>1, EndRefused
  <2>2. CASE kind \notin Inference
    BY <1>1, <2>2 DEF OutcomeIsTrue
  <2> QED BY <2>1, <2>2
<1> QED BY <1>1, <1>2, <1>3, <1>5, EndsEarly

LEMMA PrepareStep ==
  ASSUME IInv, PrepareS
  PROVE  IInv'
<1>1. /\ at \in {"reading", "refusing"} /\ late' = TRUE /\ at' = at
      /\ kind' = kind /\ caller' = caller /\ rec' = rec /\ work' = work /\ sends' = sends
      /\ gone' = gone /\ cut' = cut
  BY Zenon DEF PrepareS
<1>2. CASE at = "reading"
  <2>1. gone \in BOOLEAN /\ CallerInv' /\ TRUE \in BOOLEAN
    BY <1>1, Zenon DEF IInv, Types, CallerInv
  <2> QED BY <1>1, <1>2, <2>1, SilentStep
<1>3. CASE at = "refusing"
  BY <1>1, <1>3 DEF IInv, TypeOK, Types, RowTyped, EarlyInv, RefusingInv, TaskInv, FreshInv, ServingInv,
       RelayInv, OverInv, TerminalInv, AnswerInv, CallerInv, OutcomeIsTrue, work, sends, Waits
<1> QED BY <1>1, <1>2, <1>3

(* ------------------------------ the task -------------------------------- *)

LEMMA Running ==
  ASSUME IInv, task \notin {"none", "over"}
  PROVE  /\ at = "serving" /\ result = "none" /\ ~cut
         /\ rec.stop = "none" /\ rec.code = "none" /\ rec.cancelled = FALSE /\ rec.accepted = TRUE
         /\ (out # <<>>) = (task = "sending")
         /\ answer \in Unfinished
<1>1. TypeOK /\ RowTyped /\ TaskInv /\ ServingInv /\ AnswerInv
  BY Zenon DEF IInv
<1>2. at = "serving" /\ result = "none" /\ rec.stop = "none"
  BY <1>1, Zenon DEF TaskInv
<1>3. ~cut /\ rec.code = "none" /\ rec.cancelled = FALSE
  BY <1>1, <1>2 DEF ServingInv
<1>4. rec.accepted = TRUE /\ (out # <<>>) = (task = "sending")
  BY <1>1, <1>2 DEF TypeOK, RowTyped
<1>5. answer \in Unfinished
  BY <1>1, <1>2 DEF AnswerInv
<1> QED BY <1>2, <1>3, <1>4, <1>5

(* The task ends with r.                                                 *)
LEMMA EndsStep ==
  ASSUME IInv, task \in {"counting", "asking", "relay"}, NEW r \in FailureCodes \cup {"ok"},
         task' = "over", result' = r, RowTyped', rec'.code = rec.code, rec'.accepted = rec.accepted,
         rec'.cancelled = rec.cancelled, rec'.stop = rec.stop, UNCHANGED <<tr, sends>>, TaskOnly,
         r = "ok" /\ ~gone => IF kind = "generation" THEN started /\ answer \in Finished ELSE ~started
  PROVE  IInv'
<1>1. /\ at = "serving" /\ ~cut /\ rec.stop = "none" /\ rec.code = "none" /\ rec.cancelled = FALSE
      /\ rec.accepted = TRUE /\ out = <<>> /\ answer \in Unfinished
  BY Running
<1>2. /\ kind' = kind /\ caller' = caller /\ late' = late /\ at' = at /\ tr' = tr
      /\ started' = started /\ answer' = answer /\ out' = out /\ gone' = gone /\ cut' = cut
  BY Zenon DEF TaskOnly, sends
<1>3. TypeOK /\ Types /\ TaskInv /\ RelayInv /\ ServingInv
  BY Zenon DEF IInv
<1>4. TypeOK'
  BY <1>1, <1>2, <1>3 DEF TypeOK
<1>5. Types' /\ EarlyInv' /\ RefusingInv' /\ TerminalInv' /\ CallerInv' /\ OutcomeIsTrue'
  BY <1>1, <1>2, <1>3 DEF Types, EarlyInv, RefusingInv, TerminalInv, CallerInv, OutcomeIsTrue
<1>6. r # "cancelled" /\ TaskInv'
  BY <1>1, <1>2 DEF TaskInv, FailureCodes
<1>7. FreshInv' /\ RelayInv'
  BY DEF FreshInv, RelayInv
<1>8. ServingInv'
  BY <1>1, <1>2, <1>3 DEF ServingInv
<1>9. OverInv'
  <2>1. ~gone => answer \in IF started THEN Begun \cup Finished ELSE {<<>>}
    BY <1>3 DEF TaskInv, RelayInv
  <2> QED BY <1>2, <2>1, Zenon DEF OverInv
<1>10. AnswerInv'
  BY <1>1, <1>2, Zenon DEF AnswerInv
<1> QED BY <1>4, <1>5, <1>6, <1>7, <1>8, <1>9, <1>10, Zenon DEF IInv

LEMMA FailsStep ==
  ASSUME IInv, task \in {"counting", "asking", "relay"}, NEW r \in FailureCodes, Fails(r), TaskOnly
  PROVE  IInv'
<1>1. task' = "over" /\ result' = r /\ UNCHANGED <<tr, sends>> /\ rec' = rec
  BY Zenon DEF Fails, TaskEnds
<1>2. RowTyped'
  BY <1>1, Zenon DEF IInv, RowTyped
<1>3. r # "ok"
  BY DEF FailureCodes
<1> QED BY <1>1, <1>2, <1>3, EndsStep

(* The task goes on to t, and nothing is sent.                           *)
LEMMA GoesStep ==
  ASSUME IInv, task \in {"count_wait", "counting", "place_wait", "asking"},
         NEW t \in {"counting", "place_wait", "asking", "relay"}, task' = t,
         t # "counting" => kind = "generation", UNCHANGED <<rec, result, tr, sends>>, TaskOnly
  PROVE  IInv'
<1>1. /\ at = "serving" /\ ~cut /\ out = <<>> /\ answer \in Unfinished /\ rec.stop = "none" /\ rec.accepted = TRUE
      /\ result = "none"
  BY Running
<1>2. /\ kind' = kind /\ caller' = caller /\ late' = late /\ at' = at /\ tr' = tr /\ rec' = rec /\ result' = result
      /\ started' = started /\ answer' = answer /\ out' = out /\ gone' = gone /\ cut' = cut
  BY Zenon DEF TaskOnly, sends
<1>3. TypeOK /\ Types /\ RowTyped /\ TaskInv /\ FreshInv /\ ServingInv
  BY Zenon DEF IInv
<1>4. TypeOK'
  BY <1>1, <1>2, <1>3 DEF TypeOK
<1>5. Types' /\ RowTyped' /\ EarlyInv' /\ RefusingInv' /\ TerminalInv' /\ CallerInv' /\ OutcomeIsTrue'
  BY <1>1, <1>2, <1>3 DEF Types, RowTyped, EarlyInv, RefusingInv, TerminalInv, CallerInv, OutcomeIsTrue
<1>6. ~started /\ answer = <<>> /\ ~tr.finish
  BY <1>3 DEF TaskInv, FreshInv
<1>7. TaskInv'
  BY <1>1, <1>2, <1>3, <1>6 DEF TaskInv
<1>8. FreshInv' /\ RelayInv'
  BY <1>2, <1>6 DEF FreshInv, RelayInv
<1>9. ServingInv' /\ OverInv'
  BY <1>1, <1>2, <1>3 DEF ServingInv, OverInv
<1>10. AnswerInv'
  BY <1>1, <1>2, Zenon DEF AnswerInv
<1> QED BY <1>4, <1>5, <1>7, <1>8, <1>9, <1>10, Zenon DEF IInv

LEMMA GrantedStep ==
  ASSUME IInv, Granted
  PROVE  IInv'
<1>1. /\ task \in {"count_wait", "place_wait"} /\ task' = (IF task = "count_wait" THEN "counting" ELSE "asking")
      /\ UNCHANGED <<rec, result, tr, sends>> /\ TaskOnly
  BY Zenon DEF Granted
<1>2. task = "place_wait" => kind = "generation"
  BY Zenon DEF IInv, TaskInv
<1>3. task' \in {"counting", "asking"} /\ (task' # "counting" => kind = "generation")
  BY <1>1, <1>2
<1> QED BY <1>1, <1>3, GoesStep

(* The steps of the task, one each.                                    *)
LEMMA FaultsStep ==
  ASSUME IInv, Faults
  PROVE  IInv'
<1>1. "internal_error" \in FailureCodes
  BY DEF FailureCodes
<1> QED BY <1>1, FailsStep DEF Faults

LEMMA AnsweredStep ==
  ASSUME IInv, NEW status, Answered(status)
  PROVE  IInv'
<1>1. task = "asking" /\ TaskOnly
  BY Zenon DEF Answered
<1>2. CASE CallCode(status) = "ok"
  <2>1. task' = "relay" /\ UNCHANGED <<rec, result, tr, sends>>
    BY <1>2, Zenon DEF Answered
  <2>2. kind = "generation"
    BY <1>1 DEF IInv, TaskInv
  <2> QED BY <1>1, <2>1, <2>2, GoesStep
<1>3. CASE CallCode(status) # "ok"
  <2>1. Fails(CallCode(status))
    BY <1>3, Zenon DEF Answered
  <2>2. CallCode(status) \in FailureCodes
    BY <1>3, CallCodes DEF FailureCodes
  <2> QED BY <1>1, <2>1, <2>2, FailsStep
<1> QED BY <1>2, <1>3

LEMMA CountedStep ==
  ASSUME IInv, NEW a, NEW max, Counted(a, max)
  PROVE  IInv'
<1> DEFINE code == IF CountCode(a) # "ok" THEN CountCode(a)
                   ELSE IF kind = "count" THEN "ok"
                   ELSE CheckInput(caller, CHOOSE n \in TokensIn(a) : TRUE, max)
<1>1. task = "counting" /\ TaskOnly
  BY Zenon DEF Counted
<1>2. code \in FailureCodes \cup {"ok"}
  BY CountCodes, InputCodes DEF FailureCodes
<1>3. IF code # "ok" \/ kind = "count" THEN Fails(code)
      ELSE task' = "place_wait" /\ UNCHANGED <<rec, result, tr, sends>>
  BY Zenon DEF Counted
<1>4. kind \in Inference
  <2>1. TypeOK /\ rec.accepted = TRUE
    BY <1>1, Running, Zenon DEF IInv
  <2> QED BY <2>1 DEF TypeOK
<1> HIDE DEF code
<1>5. CASE code \in FailureCodes
  <2>1. code # "ok"
    BY <1>5 DEF FailureCodes
  <2> QED BY <1>1, <1>3, <1>5, <2>1, FailsStep
<1>6. CASE code = "ok" /\ kind = "count"
  <2>1. task' = "over" /\ result' = "ok" /\ UNCHANGED <<tr, sends>> /\ rec' = rec
    BY <1>3, <1>6, Zenon DEF Fails, TaskEnds
  <2>2. RowTyped' /\ ~started
    BY <1>1, <2>1 DEF IInv, RowTyped, TaskInv
  <2>3. kind # "generation"
    BY <1>6
  <2> QED BY <1>1, <2>1, <2>2, <2>3, EndsStep
<1>7. CASE code = "ok" /\ kind # "count"
  <2>1. task' = "place_wait" /\ UNCHANGED <<rec, result, tr, sends>>
    BY <1>3, <1>7, Zenon
  <2>2. kind = "generation"
    BY <1>4, <1>7
  <2> QED BY <1>1, <2>1, <2>2, GoesStep
<1> QED BY <1>2, <1>5, <1>6, <1>7, Zenon

(* What one, two or three messages of the task leave sent and waiting.   *)
LEMMA Nothing ==
  ASSUME NEW s \in Unfinished
  PROVE  With(s, <<>>) = s
BY AnswersTyped, WithNothing

LEMMA TaskSendsNone ==
  ASSUME answer \in Unfinished, started \in BOOLEAN, TaskSends(<<>>)
  PROVE  task' = "relay" /\ started' = started /\ answer' = answer /\ out' = <<>>
<1>1. PICK n \in 0..0 : Sends(<<>>, n) /\ task' = (IF n = 0 THEN "relay" ELSE "sending") /\ started' = (started \/ n > 0)
  <2>1. Len(<<>>) = 0
    OBVIOUS
  <2> QED BY <2>1, Zenon DEF TaskSends
<1>2. n = 0 /\ ~(n > 0)
  OBVIOUS
<1>3. SubSeq(<<>>, 1, n) = <<>> /\ SubSeq(<<>>, n + 1, Len(<<>>)) = <<>>
  BY <1>2
<1>4. out' = <<>> /\ answer' = IF gone THEN answer ELSE With(answer, <<>>)
  BY <1>1, <1>3, Zenon DEF Sends
<1>5. started' = started
  BY <1>1, <1>2, Zenon
<1> QED BY <1>1, <1>2, <1>4, <1>5, Nothing, Zenon

LEMMA TaskSendsOne ==
  ASSUME NEW a, answer \in Unfinished, started \in BOOLEAN, TaskSends(<<a>>)
  PROVE  \/ /\ ~gone /\ task' = "sending" /\ started' = started
            /\ answer' = answer /\ out' = <<a>>
         \/ /\ task' = "relay" /\ started' = TRUE /\ out' = <<>>
            /\ answer' = IF gone THEN answer ELSE With(answer, <<a>>)
<1>1. PICK n \in 0..1 : Sends(<<a>>, n) /\ task' = (IF n = 1 THEN "relay" ELSE "sending") /\ started' = (started \/ n > 0)
  <2>1. Len(<<a>>) = 1
    OBVIOUS
  <2> QED BY <2>1, Zenon DEF TaskSends
<1>2. \/ n = 0 /\ ~gone /\ answer' = With(answer, <<>>) /\ out' = <<a>>
      \/ n = 1 /\ answer' = (IF gone THEN answer ELSE With(answer, <<a>>)) /\ out' = <<>>
  BY <1>1, SendsOne, Zenon
<1>3. ~(0 > 0) /\ 1 > 0 /\ 0 # 1
  OBVIOUS
<1>4. n = 0 => started' = started
  BY <1>1, <1>3, Zenon
<1>5. n = 1 => started' = TRUE
  BY <1>1, <1>3, Zenon
<1> QED BY <1>1, <1>2, <1>3, <1>4, <1>5, Nothing, Zenon

LEMMA TaskSendsTwo ==
  ASSUME NEW a, NEW b, answer \in Unfinished, started \in BOOLEAN, TaskSends(<<a, b>>)
  PROVE  \/ /\ ~gone /\ task' = "sending" /\ started' = started
            /\ answer' = answer /\ out' = <<a, b>>
         \/ /\ ~gone /\ task' = "sending" /\ started' = TRUE
            /\ answer' = With(answer, <<a>>) /\ out' = <<b>>
         \/ /\ task' = "relay" /\ started' = TRUE /\ out' = <<>>
            /\ answer' = IF gone THEN answer ELSE With(answer, <<a, b>>)
<1>1. PICK n \in 0..2 : /\ Sends(<<a, b>>, n) /\ task' = (IF n = 2 THEN "relay" ELSE "sending")
                        /\ started' = (started \/ n > 0)
  <2>1. Len(<<a, b>>) = 2
    OBVIOUS
  <2> QED BY <2>1, Zenon DEF TaskSends
<1>2. \/ n = 0 /\ ~gone /\ answer' = With(answer, <<>>) /\ out' = <<a, b>>
      \/ n = 1 /\ ~gone /\ answer' = With(answer, <<a>>) /\ out' = <<b>>
      \/ n = 2 /\ answer' = (IF gone THEN answer ELSE With(answer, <<a, b>>)) /\ out' = <<>>
  BY <1>1, SendsTwo, Zenon
<1>3. ~(0 > 0) /\ 1 > 0 /\ 2 > 0 /\ 0 # 2 /\ 1 # 2
  OBVIOUS
<1>4. n = 0 => started' = started
  BY <1>1, <1>3, Zenon
<1>5. n \in {1, 2} => started' = TRUE
  BY <1>1, <1>3, Zenon
<1> QED BY <1>1, <1>2, <1>3, <1>4, <1>5, Nothing, Zenon

LEMMA TaskSendsThree ==
  ASSUME NEW a, NEW b, NEW c, answer \in Unfinished, started \in BOOLEAN, TaskSends(<<a, b, c>>)
  PROVE  \/ /\ ~gone /\ task' = "sending" /\ started' = started
            /\ answer' = answer /\ out' = <<a, b, c>>
         \/ /\ ~gone /\ task' = "sending" /\ started' = TRUE
            /\ answer' = With(answer, <<a>>) /\ out' = <<b, c>>
         \/ /\ ~gone /\ task' = "sending" /\ started' = TRUE
            /\ answer' = With(answer, <<a, b>>) /\ out' = <<c>>
         \/ /\ task' = "relay" /\ started' = TRUE /\ out' = <<>>
            /\ answer' = IF gone THEN answer ELSE With(answer, <<a, b, c>>)
<1>1. PICK n \in 0..3 : /\ Sends(<<a, b, c>>, n) /\ task' = (IF n = 3 THEN "relay" ELSE "sending")
                        /\ started' = (started \/ n > 0)
  <2>1. Len(<<a, b, c>>) = 3
    OBVIOUS
  <2> QED BY <2>1, Zenon DEF TaskSends
<1>2. \/ n = 0 /\ ~gone /\ answer' = With(answer, <<>>) /\ out' = <<a, b, c>>
      \/ n = 1 /\ ~gone /\ answer' = With(answer, <<a>>) /\ out' = <<b, c>>
      \/ n = 2 /\ ~gone /\ answer' = With(answer, <<a, b>>) /\ out' = <<c>>
      \/ n = 3 /\ answer' = (IF gone THEN answer ELSE With(answer, <<a, b, c>>)) /\ out' = <<>>
  BY <1>1, SendsThree, Zenon
<1>3. ~(0 > 0) /\ 1 > 0 /\ 2 > 0 /\ 3 > 0 /\ 0 # 3 /\ 1 # 3 /\ 2 # 3
  OBVIOUS
<1>4. n = 0 => started' = started
  BY <1>1, <1>3, Zenon
<1>5. n \in {1, 2, 3} => started' = TRUE
  BY <1>1, <1>3, Zenon
<1> QED BY <1>1, <1>2, <1>3, <1>4, <1>5, Nothing, Zenon

(* The task relays on: what is sent and what waits fit together.         *)
Relayed ==
  /\ task \in {"relay", "sending"} /\ (out # <<>>) = (task = "sending")
  /\ started \in BOOLEAN /\ answer \in Unfinished /\ RelayInv

LEMMA RelayedStep ==
  ASSUME IInv, task \in {"relay", "sending"}, Relayed', tr' \in Translators, TaskOnly, UNCHANGED <<rec, result>>
  PROVE  IInv'
<1>1. /\ at = "serving" /\ ~cut /\ answer \in Unfinished /\ rec.stop = "none" /\ rec.accepted = TRUE
      /\ result = "none"
  BY Running
<1>2. /\ kind' = kind /\ caller' = caller /\ late' = late /\ at' = at /\ rec' = rec /\ result' = result
      /\ gone' = gone /\ cut' = cut
  BY Zenon DEF TaskOnly
<1>3. TypeOK /\ Types /\ RowTyped /\ TaskInv /\ ServingInv
  BY Zenon DEF IInv
<1>4. TypeOK'
  BY <1>1, <1>2, <1>3 DEF TypeOK, Relayed
<1>5. Types' /\ RowTyped' /\ EarlyInv' /\ RefusingInv' /\ TerminalInv' /\ CallerInv' /\ OutcomeIsTrue'
  BY <1>1, <1>2, <1>3 DEF Types, RowTyped, EarlyInv, RefusingInv, TerminalInv, CallerInv, OutcomeIsTrue, Relayed
<1>6. TaskInv' /\ FreshInv'
  BY <1>1, <1>2, <1>3 DEF TaskInv, FreshInv, Relayed
<1>7. ServingInv' /\ OverInv'
  BY <1>1, <1>2, <1>3 DEF ServingInv, OverInv, Relayed
<1>8. AnswerInv' /\ RelayInv'
  BY Zenon DEF AnswerInv, Relayed
<1> QED BY <1>4, <1>5, <1>6, <1>7, <1>8, Zenon DEF IInv

LEMMA RelayedNothing ==
  ASSUME IInv, task = "relay", TaskSends(<<>>), gone' = gone, ~gone => started /\ tr'.finish = tr.finish
  PROVE  Relayed'
<1>1. answer \in Unfinished /\ started \in BOOLEAN /\ RelayInv
  BY Running, Zenon DEF IInv, Types
<1>2. task' = "relay" /\ started' = started /\ answer' = answer /\ out' = <<>>
  BY <1>1, TaskSendsNone
<1>3. RelayInv'
  BY <1>1, <1>2 DEF RelayInv
<1> QED BY <1>1, <1>2, <1>3 DEF Relayed

(* The stream goes on, before its finish.                                *)
LEMMA RelayedDelta ==
  ASSUME answer \in Unfinished, started \in BOOLEAN, TaskSends(<<"delta">>), gone' = gone,
         ~gone => started /\ answer \in Begun /\ ~tr'.finish
  PROVE  Relayed'
<1>1. \/ ~gone /\ task' = "sending" /\ started' = started /\ answer' = answer /\ out' = <<"delta">>
      \/ /\ task' = "relay" /\ started' = TRUE /\ out' = <<>>
         /\ answer' = IF gone THEN answer ELSE With(answer, <<"delta">>)
  BY TaskSendsOne, Zenon
<1>2. ~gone => With(answer, <<"delta">>) \in Begun
  BY WithDelta
<1>3. answer' \in Unfinished
  BY <1>1, <1>2, Zenon DEF Unfinished
<1>4. RelayInv'
  BY <1>1, <1>2, Zenon DEF RelayInv
<1>5. (out' # <<>>) = (task' = "sending")
  BY <1>1, Distinct
<1> QED BY <1>1, <1>3, <1>4, <1>5, Zenon DEF Relayed

LEMMA RelayedFinish ==
  ASSUME answer \in Unfinished, started \in BOOLEAN, TaskSends(<<"finish">>), gone' = gone,
         ~gone => started /\ answer \in Begun /\ tr'.finish
  PROVE  Relayed'
<1>1. \/ ~gone /\ task' = "sending" /\ started' = started /\ answer' = answer /\ out' = <<"finish">>
      \/ /\ task' = "relay" /\ started' = TRUE /\ out' = <<>>
         /\ answer' = IF gone THEN answer ELSE With(answer, <<"finish">>)
  BY TaskSendsOne, Zenon
<1>2. ~gone => With(answer, <<"finish">>) \in Finished
  BY Grows
<1>3. answer' \in Unfinished
  BY <1>1, <1>2, Zenon DEF Unfinished
<1>4. RelayInv'
  BY <1>1, <1>2, Zenon DEF RelayInv
<1>5. (out' # <<>>) = (task' = "sending")
  BY <1>1, Distinct
<1> QED BY <1>1, <1>3, <1>4, <1>5, Zenon DEF Relayed

LEMMA RelayedBoth ==
  ASSUME answer \in Unfinished, started \in BOOLEAN, TaskSends(<<"delta", "finish">>), gone' = gone,
         ~gone => started /\ answer \in Begun /\ tr'.finish
  PROVE  Relayed'
<1>1. \/ ~gone /\ task' = "sending" /\ started' = started /\ answer' = answer /\ out' = <<"delta", "finish">>
      \/ /\ ~gone /\ task' = "sending" /\ started' = TRUE
         /\ answer' = With(answer, <<"delta">>) /\ out' = <<"finish">>
      \/ /\ task' = "relay" /\ started' = TRUE /\ out' = <<>>
         /\ answer' = IF gone THEN answer ELSE With(answer, <<"delta", "finish">>)
  BY TaskSendsTwo, Zenon
<1>2. ~gone => With(answer, <<"delta">>) \in Begun /\ With(answer, <<"delta", "finish">>) \in Finished
  BY WithDelta
<1>3. answer' \in Unfinished
  BY <1>1, <1>2, Zenon DEF Unfinished
<1>4. RelayInv'
  BY <1>1, <1>2, Zenon DEF RelayInv
<1>5. (out' # <<>>) = (task' = "sending")
  BY <1>1, Distinct
<1> QED BY <1>1, <1>3, <1>4, <1>5, Zenon DEF Relayed

(* The stream begins.                                                    *)
LEMMA FromNothing ==
  ASSUME answer = <<>>, NEW s \in Seq(Messages)
  PROVE  With(answer, s) = s
BY WithNothing

LEMMA BegunAlone ==
  ASSUME answer \in Unfinished, started \in BOOLEAN, TaskSends(<<"stream">>), gone' = gone,
         ~gone => answer = <<>> /\ ~started /\ ~tr'.finish
  PROVE  Relayed'
<1>1. \/ ~gone /\ task' = "sending" /\ started' = started /\ answer' = answer /\ out' = <<"stream">>
      \/ /\ task' = "relay" /\ started' = TRUE /\ out' = <<>>
         /\ answer' = IF gone THEN answer ELSE With(answer, <<"stream">>)
  BY TaskSendsOne, Zenon
<1>2. ~gone => With(answer, <<"stream">>) = <<"stream">>
  BY FromNothing, Typed, Zenon
<1>3. <<"stream">> \in Begun
  BY Zenon DEF Begun
<1>4. answer' \in Unfinished
  BY <1>1, <1>2, <1>3, Zenon DEF Unfinished
<1>5. RelayInv'
  BY <1>1, <1>2, <1>3, Zenon DEF RelayInv
<1>6. (out' # <<>>) = (task' = "sending")
  BY <1>1, Distinct
<1> QED BY <1>1, <1>4, <1>5, <1>6, Zenon DEF Relayed

LEMMA BegunWithDelta ==
  ASSUME answer \in Unfinished, started \in BOOLEAN, TaskSends(<<"stream", "delta">>), gone' = gone,
         ~gone => answer = <<>> /\ ~started /\ ~tr'.finish
  PROVE  Relayed'
<1>1. \/ ~gone /\ task' = "sending" /\ started' = started /\ answer' = answer /\ out' = <<"stream", "delta">>
      \/ /\ ~gone /\ task' = "sending" /\ started' = TRUE
         /\ answer' = With(answer, <<"stream">>) /\ out' = <<"delta">>
      \/ /\ task' = "relay" /\ started' = TRUE /\ out' = <<>>
         /\ answer' = IF gone THEN answer ELSE With(answer, <<"stream", "delta">>)
  BY TaskSendsTwo, Zenon
<1>2. ~gone => /\ With(answer, <<"stream">>) = <<"stream">>
               /\ With(answer, <<"stream", "delta">>) = <<"stream", "delta">>
  BY FromNothing, Typed, Zenon
<1>3. <<"stream">> \in Begun /\ <<"stream", "delta">> \in Begun
  BY Zenon DEF Begun
<1>4. answer' \in Unfinished
  BY <1>1, <1>2, <1>3, Zenon DEF Unfinished
<1>5. RelayInv'
  BY <1>1, <1>2, <1>3, Zenon DEF RelayInv
<1>6. (out' # <<>>) = (task' = "sending")
  BY <1>1, Distinct
<1> QED BY <1>1, <1>4, <1>5, <1>6, Zenon DEF Relayed

LEMMA BegunWithFinish ==
  ASSUME answer \in Unfinished, started \in BOOLEAN, TaskSends(<<"stream", "finish">>), gone' = gone,
         ~gone => answer = <<>> /\ ~started /\ tr'.finish
  PROVE  Relayed'
<1>1. \/ ~gone /\ task' = "sending" /\ started' = started /\ answer' = answer /\ out' = <<"stream", "finish">>
      \/ /\ ~gone /\ task' = "sending" /\ started' = TRUE
         /\ answer' = With(answer, <<"stream">>) /\ out' = <<"finish">>
      \/ /\ task' = "relay" /\ started' = TRUE /\ out' = <<>>
         /\ answer' = IF gone THEN answer ELSE With(answer, <<"stream", "finish">>)
  BY TaskSendsTwo, Zenon
<1>2. ~gone => /\ With(answer, <<"stream">>) = <<"stream">>
               /\ With(answer, <<"stream", "finish">>) = <<"stream", "finish">>
  BY FromNothing, Typed, Zenon
<1>3. <<"stream">> \in Begun /\ <<"stream", "finish">> \in Finished
  BY Zenon DEF Begun, Finished
<1>4. answer' \in Unfinished
  BY <1>1, <1>2, <1>3, Zenon DEF Unfinished
<1>5. RelayInv'
  BY <1>1, <1>2, <1>3, Zenon DEF RelayInv
<1>6. (out' # <<>>) = (task' = "sending")
  BY <1>1, Distinct
<1> QED BY <1>1, <1>4, <1>5, <1>6, Zenon DEF Relayed

LEMMA BegunWithBoth ==
  ASSUME answer \in Unfinished, started \in BOOLEAN, TaskSends(<<"stream", "delta", "finish">>), gone' = gone,
         ~gone => answer = <<>> /\ ~started /\ tr'.finish
  PROVE  Relayed'
<1>1. \/ ~gone /\ task' = "sending" /\ started' = started /\ answer' = answer /\ out' = <<"stream", "delta", "finish">>
      \/ /\ ~gone /\ task' = "sending" /\ started' = TRUE
         /\ answer' = With(answer, <<"stream">>) /\ out' = <<"delta", "finish">>
      \/ /\ ~gone /\ task' = "sending" /\ started' = TRUE
         /\ answer' = With(answer, <<"stream", "delta">>) /\ out' = <<"finish">>
      \/ /\ task' = "relay" /\ started' = TRUE /\ out' = <<>>
         /\ answer' = IF gone THEN answer ELSE With(answer, <<"stream", "delta", "finish">>)
  BY TaskSendsThree, Zenon
<1>2. ~gone => /\ With(answer, <<"stream">>) = <<"stream">>
               /\ With(answer, <<"stream", "delta">>) = <<"stream", "delta">>
               /\ With(answer, <<"stream", "delta", "finish">>) = <<"stream", "delta", "finish">>
  BY FromNothing, Typed, Zenon
<1>3. <<"stream">> \in Begun /\ <<"stream", "delta">> \in Begun /\ <<"stream", "delta", "finish">> \in Finished
  BY Zenon DEF Begun, Finished
<1>4. answer' \in Unfinished
  BY <1>1, <1>2, <1>3, Zenon DEF Unfinished
<1>5. RelayInv'
  BY <1>1, <1>2, <1>3, Zenon DEF RelayInv
<1>6. (out' # <<>>) = (task' = "sending")
  BY <1>1, Distinct
<1> QED BY <1>1, <1>4, <1>5, <1>6, Zenon DEF Relayed

LEMMA RelayStep ==
  ASSUME IInv, NEW e \in Events, Relay(e)
  PROVE  IInv'
<1> DEFINE ms == (IF started THEN <<>> ELSE <<"stream">>) \o Chunks(tr, e)
<1>1. task = "relay" /\ TaskOnly
  BY Zenon DEF Relay
<1>2. /\ kind = "generation" /\ started \in BOOLEAN /\ answer \in Unfinished /\ tr \in Translators
      /\ ~gone => IF started THEN answer \in (IF tr.finish THEN Finished ELSE Begun)
                             ELSE answer = <<>> /\ ~tr.finish
  BY <1>1, Running DEF IInv, Types, TaskInv, RelayInv
<1>3. CASE started /\ EndsWell(tr) /\ rec' = [rec EXCEPT !.total = TRUE] /\ TaskEnds("ok") /\ UNCHANGED <<tr, sends>>
  <2>1. task' = "over" /\ result' = "ok"
    BY <1>3, Zenon DEF TaskEnds
  <2>2. RowTyped
    BY Zenon DEF IInv
  <2>3. /\ RowTyped' /\ rec'.code = rec.code /\ rec'.accepted = rec.accepted /\ rec'.cancelled = rec.cancelled
        /\ rec'.stop = rec.stop
    BY <1>3, <2>2 DEF RowTyped
  <2>4. ~gone => kind = "generation" /\ started /\ answer \in Finished
    BY <1>2, <1>3 DEF EndsWell
  <2> HIDE DEF ms
  <2> QED BY <1>1, <1>3, <2>1, <2>3, <2>4, EndsStep
<1>4. CASE Fails("engine_unavailable")
  <2>1. "engine_unavailable" \in FailureCodes
    BY DEF FailureCodes
  <2> QED BY <1>1, <1>4, <2>1, FailsStep
<1>5. CASE Fails(ErrorOf(e, ~started))
  <2>1. ErrorOf(e, ~started) \in FailureCodes
    BY DEF ErrorOf, FailureCodes
  <2> QED BY <1>1, <1>5, <2>1, FailsStep
<1>6. CASE ~Breaks(tr, e) /\ tr' = Read(tr, e) /\ TaskSends(ms) /\ UNCHANGED <<rec, result>>
  <2>1. gone' = gone
    BY <1>1, Zenon DEF TaskOnly
  <2>2. /\ tr' \in Translators
        /\ tr.finish => Chunks(tr, e) = <<>> /\ tr'.finish
        /\ ~tr.finish => \/ Chunks(tr, e) \in {<<>>, <<"delta">>} /\ ~tr'.finish
                         \/ Chunks(tr, e) \in {<<"finish">>, <<"delta", "finish">>} /\ tr'.finish
    BY <1>2, <1>6, ChunkShapes, Zenon
  <2>3. ASSUME NEW s \in {<<>>, <<"delta">>, <<"finish">>, <<"delta", "finish">>}
        PROVE  <<>> \o s = s
    <3>1. <<>> \o <<>> = <<>>
      OBVIOUS
    <3>2. /\ <<"delta">> \in Seq(Messages) /\ <<"finish">> \in Seq(Messages) /\ <<"delta", "finish">> \in Seq(Messages)
      BY Typed, Zenon
    <3> QED BY <3>1, <3>2, NoneJoined, Zenon
  <2>4. CASE started
    <3>1. ms = Chunks(tr, e)
      BY <2>2, <2>3, <2>4, Zenon
    <3>2. ASSUME Chunks(tr, e) = <<>> PROVE Relayed'
      <4>1. TaskSends(<<>>) /\ tr'.finish = tr.finish
        <5>1. TaskSends(<<>>)
          BY <1>6, <3>1, <3>2, Zenon
        <5>2. <<>> # <<"finish">> /\ <<>> # <<"delta", "finish">>
          BY Distinct
        <5>3. tr'.finish <=> tr.finish
          BY <2>2, <3>2, <5>2, Zenon
        <5>4. tr'.finish \in BOOLEAN /\ tr.finish \in BOOLEAN
          BY <1>2, <2>2 DEF Translators
        <5> QED BY <5>1, <5>3, <5>4, Zenon
      <4> QED BY <1>1, <2>1, <2>4, <4>1, RelayedNothing
    <3>3. ASSUME Chunks(tr, e) = <<"delta">> /\ ~tr'.finish /\ ~tr.finish PROVE Relayed'
      <4>1. TaskSends(<<"delta">>)
        BY <1>6, <3>1, <3>3, Zenon
      <4> QED BY <1>2, <2>1, <2>4, <3>3, <4>1, RelayedDelta, Zenon
    <3>4. ASSUME Chunks(tr, e) = <<"finish">> /\ tr'.finish /\ ~tr.finish PROVE Relayed'
      <4>1. TaskSends(<<"finish">>)
        BY <1>6, <3>1, <3>4, Zenon
      <4> QED BY <1>2, <2>1, <2>4, <3>4, <4>1, RelayedFinish, Zenon
    <3>5. ASSUME Chunks(tr, e) = <<"delta", "finish">> /\ tr'.finish /\ ~tr.finish PROVE Relayed'
      <4>1. TaskSends(<<"delta", "finish">>)
        BY <1>6, <3>1, <3>5, Zenon
      <4> QED BY <1>2, <2>1, <2>4, <3>5, <4>1, RelayedBoth, Zenon
    <3>6. Relayed'
      BY <2>2, <3>2, <3>3, <3>4, <3>5, Zenon
    <3> QED BY <1>1, <1>6, <2>2, <3>6, RelayedStep, Zenon
  <2>5. CASE ~started
    <3>1. ms = <<"stream">> \o Chunks(tr, e)
      BY <2>5, Zenon
    <3>2. ASSUME Chunks(tr, e) = <<>> PROVE Relayed'
      <4>1. <<"stream">> \o <<>> = <<"stream">>
        BY Typed, NoneJoined, Zenon
      <4>2. TaskSends(<<"stream">>)
        BY <1>6, <3>1, <3>2, <4>1, Zenon
      <4>3. <<>> # <<"finish">> /\ <<>> # <<"delta", "finish">>
        BY Distinct
      <4>4. ~gone => answer = <<>> /\ ~started /\ ~tr'.finish
        BY <1>2, <2>2, <2>5, <3>2, <4>3, Zenon
      <4> QED BY <1>2, <2>1, <4>2, <4>4, BegunAlone
    <3>3. ASSUME Chunks(tr, e) = <<"delta">> /\ ~tr'.finish /\ ~tr.finish PROVE Relayed'
      <4>1. TaskSends(<<"stream", "delta">>)
        BY <1>6, <3>1, <3>3, Joined, Zenon
      <4>2. ~gone => answer = <<>> /\ ~started /\ ~tr'.finish
        BY <1>2, <2>5, <3>3, Zenon
      <4> QED BY <1>2, <2>1, <4>1, <4>2, BegunWithDelta
    <3>4. ASSUME Chunks(tr, e) = <<"finish">> /\ tr'.finish /\ ~tr.finish PROVE Relayed'
      <4>1. TaskSends(<<"stream", "finish">>)
        BY <1>6, <3>1, <3>4, Joined, Zenon
      <4>2. ~gone => answer = <<>> /\ ~started /\ tr'.finish
        BY <1>2, <2>5, <3>4, Zenon
      <4> QED BY <1>2, <2>1, <4>1, <4>2, BegunWithFinish
    <3>5. ASSUME Chunks(tr, e) = <<"delta", "finish">> /\ tr'.finish /\ ~tr.finish PROVE Relayed'
      <4>1. TaskSends(<<"stream", "delta", "finish">>)
        BY <1>6, <3>1, <3>5, Joined, Zenon
      <4>2. ~gone => answer = <<>> /\ ~started /\ tr'.finish
        BY <1>2, <2>5, <3>5, Zenon
      <4> QED BY <1>2, <2>1, <4>1, <4>2, BegunWithBoth
    <3>6. Relayed'
      BY <2>2, <3>2, <3>3, <3>4, <3>5, Zenon
    <3> QED BY <1>1, <1>6, <2>2, <3>6, RelayedStep, Zenon
  <2> QED BY <1>2, <2>4, <2>5, Zenon
<1>7. \/ started /\ EndsWell(tr) /\ rec' = [rec EXCEPT !.total = TRUE] /\ TaskEnds("ok") /\ UNCHANGED <<tr, sends>>
      \/ Fails("engine_unavailable") \/ Fails(ErrorOf(e, ~started))
      \/ ~Breaks(tr, e) /\ tr' = Read(tr, e) /\ TaskSends(ms) /\ UNCHANGED <<rec, result>>
  BY Zenon DEF Relay
<1> HIDE DEF ms
<1> QED BY <1>3, <1>4, <1>5, <1>6, <1>7, Zenon

(* ------------------------------- the stops ------------------------------ *)

(* The task is cancelled, by a stop or by the server.                    *)
LEMMA TaskCancelled ==
  ASSUME IInv, task \notin {"none", "over"}, task' = "over", result' = "cancelled", out' = <<>>, RowTyped',
         rec'.accepted = rec.accepted, rec'.code = rec.code, rec'.stop \in Stops,
         rec'.stop = "disconnect" => gone, rec'.stop = "shutdown" => cut', cut' \in BOOLEAN,
         \/ at' = "serving" /\ ~cut' /\ rec'.cancelled = FALSE
         \/ at' = "cleanup" /\ cut',
         UNCHANGED <<kind, caller, late, tr, started, answer, gone>>
  PROVE  IInv'
<1>1. /\ at = "serving" /\ rec.code = "none" /\ rec.accepted = TRUE /\ answer \in Unfinished
  BY Running
<1>2. /\ kind' = kind /\ caller' = caller /\ late' = late /\ tr' = tr /\ started' = started /\ answer' = answer
      /\ gone' = gone
  OBVIOUS
<1>3. TypeOK /\ Types /\ TaskInv /\ RelayInv
  BY Zenon DEF IInv
<1>4. TypeOK'
  BY <1>1, <1>2, <1>3 DEF TypeOK
<1>5. Types' /\ EarlyInv' /\ RefusingInv' /\ TerminalInv' /\ CallerInv' /\ OutcomeIsTrue'
  BY <1>1, <1>2, <1>3 DEF Types, EarlyInv, RefusingInv, TerminalInv, CallerInv, OutcomeIsTrue
<1>6. rec'.stop # "none"
  BY DEF Stops
<1>7. TaskInv' /\ FreshInv' /\ RelayInv'
  BY <1>1, <1>2, <1>6 DEF TaskInv, FreshInv, RelayInv
<1>8. ServingInv'
  BY <1>1, <1>2, <1>6 DEF ServingInv
<1>9. OverInv'
  <2>1. ~gone => answer \in IF started THEN Begun \cup Finished ELSE {<<>>}
    BY <1>1, <1>3 DEF TaskInv, RelayInv, TypeOK
  <2>2. result' # "ok"
    OBVIOUS
  <2> QED BY <1>2, <2>1, <2>2 DEF OverInv
<1>10. AnswerInv'
  BY <1>1, <1>2, Zenon DEF AnswerInv
<1> QED BY <1>4, <1>5, <1>7, <1>8, <1>9, <1>10, Zenon DEF IInv

LEMMA StopStep ==
  ASSUME IInv, NEW reason \in {"timeout", "disconnect", "draining", "engine_changed"},
         reason = "disconnect" => gone, Stop(reason)
  PROVE  IInv'
<1>1. /\ task # "none" /\ rec.stop = "none" /\ at \in {"serving", "cleanup", "terminal"}
      /\ rec' = [rec EXCEPT !.stop = reason]
      /\ kind' = kind /\ at' = at /\ caller' = caller /\ late' = late /\ tr' = tr /\ started' = started
      /\ answer' = answer /\ gone' = gone /\ cut' = cut
  BY Zenon DEF Stop
<1>2. TypeOK /\ Types /\ RowTyped /\ TaskInv /\ ServingInv /\ OverInv /\ TerminalInv /\ AnswerInv
  BY Zenon DEF IInv
<1>3. /\ RowTyped' /\ rec'.accepted = rec.accepted /\ rec'.code = rec.code /\ rec'.cancelled = rec.cancelled
      /\ rec'.stop = reason
  BY <1>1, <1>2 DEF RowTyped, Stops
<1>4. reason \in Stops /\ reason # "none" /\ reason # "shutdown"
  BY DEF Stops
<1>5. CASE task # "over"
  <2>1. task' = "over" /\ result' = "cancelled" /\ out' = <<>>
    BY <1>5, Zenon DEF Stop, TaskEnds
  <2>2. at = "serving" /\ ~cut /\ rec.cancelled = FALSE /\ cut \in BOOLEAN
    BY <1>1, <1>2, <1>5, Running, Zenon DEF Types
  <2> QED BY <1>1, <1>3, <1>4, <1>5, <2>1, <2>2, TaskCancelled
<1>6. CASE task = "over"
  <2>1. task' = task /\ result' = result /\ out' = out
    BY <1>6, Zenon DEF Stop
  <2>2. TypeOK' /\ Types'
    BY <1>1, <1>2, <1>3, <2>1 DEF TypeOK, Types
  <2>3. EarlyInv' /\ RefusingInv' /\ CallerInv' /\ OutcomeIsTrue'
    BY <1>1 DEF EarlyInv, RefusingInv, CallerInv, OutcomeIsTrue
  <2>4. TaskInv' /\ FreshInv' /\ RelayInv'
    BY <1>2, <1>3, <1>4, <1>6, <2>1 DEF TaskInv, FreshInv, RelayInv
  <2>5. ServingInv'
    BY <1>1, <1>2, <1>3, <1>4, <2>1 DEF ServingInv
  <2>6. OverInv' /\ AnswerInv'
    BY <1>1, <1>2, <2>1, Zenon DEF OverInv, AnswerInv
  <2>7. TerminalInv'
    BY <1>1, <1>2, <1>3, <2>1, Zenon DEF TerminalInv, TerminalWaits, Waits
  <2> QED BY <1>3, <2>2, <2>3, <2>4, <2>5, <2>6, <2>7, Zenon DEF IInv
<1> QED BY <1>5, <1>6

(* ----------------------------- the handler ------------------------------ *)

LEMMA TaskOverStep ==
  ASSUME IInv, TaskOver
  PROVE  IInv'
<1>1. /\ at = "serving" /\ task = "over" /\ at' = "cleanup"
      /\ kind' = kind /\ caller' = caller /\ late' = late /\ rec' = rec /\ task' = task /\ result' = result
      /\ tr' = tr /\ started' = started /\ out' = out /\ answer' = answer /\ gone' = gone /\ cut' = cut
  BY Zenon DEF TaskOver, work, sends
<1>2. TypeOK /\ Types /\ RowTyped /\ TaskInv /\ ServingInv /\ OverInv /\ AnswerInv
  BY Zenon DEF IInv
<1>3. TypeOK' /\ Types' /\ RowTyped'
  BY <1>1, <1>2 DEF TypeOK, Types, RowTyped
<1>4. EarlyInv' /\ RefusingInv' /\ CallerInv' /\ OutcomeIsTrue' /\ TerminalInv'
  BY <1>1 DEF EarlyInv, RefusingInv, CallerInv, OutcomeIsTrue, TerminalInv
<1>5. TaskInv' /\ FreshInv' /\ RelayInv' /\ ServingInv'
  BY <1>1, <1>2 DEF TaskInv, FreshInv, RelayInv, ServingInv
<1>6. OverInv' /\ AnswerInv'
  BY <1>1, <1>2, Zenon DEF OverInv, AnswerInv
<1> QED BY <1>3, <1>4, <1>5, <1>6, Zenon DEF IInv

(* The task is over, and the request ends.                               *)
LEMMA EndsLate ==
  ASSUME IInv, task = "over", at' = "ended", out' = <<>>, RowTyped', rec'.accepted = rec.accepted,
         rec'.stop = rec.stop, cut' \in BOOLEAN, cut => cut', started' \in BOOLEAN,
         answer' \in Unfinished \cup Wholes, OutcomeIsTrue',
         UNCHANGED <<kind, caller, late, work, gone>>
  PROVE  IInv'
<1>1. kind' = kind /\ caller' = caller /\ late' = late /\ task' = task /\ result' = result /\ tr' = tr /\ gone' = gone
  BY Zenon DEF work
<1>2. TypeOK /\ Types /\ TaskInv /\ ServingInv
  BY Zenon DEF IInv
<1>3. TypeOK' /\ Types'
  BY <1>1, <1>2 DEF TypeOK, Types
<1>4. EarlyInv' /\ RefusingInv' /\ CallerInv' /\ TerminalInv' /\ OverInv' /\ RelayInv'
  BY <1>1 DEF EarlyInv, RefusingInv, CallerInv, TerminalInv, OverInv, RelayInv
<1>5. TaskInv' /\ FreshInv' /\ ServingInv'
  BY <1>1, <1>2 DEF TaskInv, FreshInv, ServingInv
<1>6. AnswerInv'
  BY Zenon DEF AnswerInv
<1> QED BY <1>3, <1>4, <1>5, <1>6, Zenon DEF IInv

(* The task is over, and a part of the terminal message waits.           *)
LEMMA StaysTerminal ==
  ASSUME IInv, task = "over", at' = "terminal", out' # <<>>, RowTyped', rec'.accepted = rec.accepted,
         rec'.stop = rec.stop, started' \in BOOLEAN, answer' \in Unfinished, TerminalInv',
         UNCHANGED <<kind, caller, late, work, gone, cut>>
  PROVE  IInv'
<1>1. /\ kind' = kind /\ caller' = caller /\ late' = late /\ task' = task /\ result' = result /\ tr' = tr
      /\ gone' = gone /\ cut' = cut
  BY Zenon DEF work
<1>2. TypeOK /\ Types /\ TaskInv /\ ServingInv
  BY Zenon DEF IInv
<1>3. TypeOK' /\ Types'
  BY <1>1, <1>2 DEF TypeOK, Types
<1>4. EarlyInv' /\ RefusingInv' /\ CallerInv' /\ OverInv' /\ RelayInv' /\ OutcomeIsTrue'
  BY <1>1 DEF EarlyInv, RefusingInv, CallerInv, OverInv, RelayInv, OutcomeIsTrue
<1>5. TaskInv' /\ FreshInv' /\ ServingInv'
  BY <1>1, <1>2 DEF TaskInv, FreshInv, ServingInv
<1>6. AnswerInv'
  BY Zenon DEF AnswerInv
<1> QED BY <1>3, <1>4, <1>5, <1>6, Zenon DEF IInv

(* The steps of the handler when its task is over, one each.           *)
LEMMA UnwoundStep ==
  ASSUME IInv, Unwound
  PROVE  IInv'
<1>1. /\ at = "cleanup" /\ cut /\ at' = "ended" /\ rec' = rec
      /\ kind' = kind /\ caller' = caller /\ late' = late /\ work' = work
      /\ started' = started /\ out' = out /\ answer' = answer /\ gone' = gone /\ cut' = cut
  BY Zenon DEF Unwound, sends
<1>2. TypeOK /\ Types /\ RowTyped /\ ServingInv /\ AnswerInv
  BY Zenon DEF IInv
<1>3. task = "over" /\ rec.code = "none" /\ (rec.cancelled => rec.stop # "none")
  BY <1>1, <1>2 DEF ServingInv
<1>4. out = <<>> /\ answer \in Unfinished /\ rec.accepted = TRUE
  BY <1>1, <1>2, <1>3 DEF TypeOK, AnswerInv, RowTyped
<1>5. RowTyped'
  BY <1>1, <1>2, Zenon DEF RowTyped
<1>6. OutcomeIsTrue'
  <2>1. CASE rec.cancelled
    <3>1. rec.cancelled = TRUE /\ rec.stop \in {"timeout", "disconnect", "draining", "engine_changed", "shutdown"}
      BY <1>2, <1>3, <2>1 DEF RowTyped, Stops
    <3>2. rec.stop = "disconnect" => gone
      BY <1>2 DEF ServingInv
    <3> QED BY <1>1, <1>3, <1>4, <3>1, <3>2, EndStopped
  <2>2. CASE ~rec.cancelled
    <3>1. rec.cancelled = FALSE
      BY <1>2, <2>2 DEF RowTyped
    <3> QED BY <1>1, <1>3, <1>4, <3>1, EndCut
  <2> QED BY <2>1, <2>2
<1>7. cut \in BOOLEAN /\ started \in BOOLEAN
  BY <1>2, Zenon DEF Types
<1> QED BY <1>1, <1>3, <1>4, <1>5, <1>6, <1>7, EndsLate

LEMMA GivenUpStep ==
  ASSUME IInv, GivenUp
  PROVE  IInv'
<1>1. /\ at = "terminal" /\ rec.stop # "none" /\ at' = "ended" /\ rec' = [rec EXCEPT !.cancelled = TRUE] /\ out' = <<>>
      /\ kind' = kind /\ caller' = caller /\ late' = late /\ work' = work
      /\ started' = started /\ answer' = answer /\ gone' = gone /\ cut' = cut
  BY Zenon DEF GivenUp
<1>2. TypeOK /\ Types /\ RowTyped /\ ServingInv /\ AnswerInv /\ TerminalInv
  BY Zenon DEF IInv
<1>3. task = "over" /\ (rec.code \in FailureCodes \/ rec.code = "none")
  BY <1>1, <1>2 DEF ServingInv, TerminalInv
<1>4. answer \in Unfinished /\ rec.accepted = TRUE
  BY <1>1, <1>2, <1>3 DEF TypeOK, AnswerInv, RowTyped
<1>5. /\ RowTyped' /\ rec'.cancelled = TRUE /\ rec'.accepted = rec.accepted /\ rec'.stop = rec.stop
      /\ rec'.code = rec.code
  BY <1>1, <1>2 DEF RowTyped
<1>6. OutcomeIsTrue'
  <2>1. CASE rec.code = "none"
    <3>1. rec.stop \in {"timeout", "disconnect", "draining", "engine_changed", "shutdown"}
      BY <1>1, <1>2 DEF RowTyped, Stops
    <3>2. rec.stop = "disconnect" => gone
      BY <1>2 DEF ServingInv
    <3> QED BY <1>1, <1>4, <1>5, <2>1, <3>1, <3>2, EndStopped
  <2>2. CASE rec.code \in FailureCodes
    BY <1>1, <1>4, <1>5, <2>2, EndFailed
  <2> QED BY <1>3, <2>1, <2>2
<1>7. cut \in BOOLEAN /\ started \in BOOLEAN
  BY <1>2, Zenon DEF Types
<1> QED BY <1>1, <1>3, <1>4, <1>5, <1>6, <1>7, EndsLate

LEMMA CancelledStep ==
  ASSUME IInv, Cancelled
  PROVE  IInv'
<1>1. /\ ~cut /\ at \in {"turned", "reading", "scraping", "refusing", "serving", "cleanup", "terminal"} /\ cut' = TRUE
      /\ kind' = kind /\ caller' = caller /\ late' = late /\ tr' = tr /\ started' = started
      /\ answer' = answer /\ gone' = gone
  BY Zenon DEF Cancelled
<1>2. TypeOK /\ Types /\ RowTyped /\ TaskInv /\ ServingInv /\ OverInv /\ AnswerInv /\ TerminalInv /\ RefusingInv
  BY Zenon DEF IInv
<1>3. answer \in Unfinished /\ started \in BOOLEAN /\ cut' \in BOOLEAN
  BY <1>1, <1>2 DEF AnswerInv, Types
<1>4. CASE at = "serving" /\ task # "over"
  <2>1. /\ at' = "cleanup" /\ task' = "over" /\ result' = "cancelled" /\ out' = <<>>
        /\ rec' = [rec EXCEPT !.cancelled = TRUE, !.stop = IF @ = "none" THEN "shutdown" ELSE @]
    BY <1>4, Zenon DEF Cancelled, TaskEnds
  <2>2. task # "none" /\ rec.stop = "none"
    BY <1>2, <1>4, Running, Zenon DEF ServingInv
  <2>3. rec' = [rec EXCEPT !.cancelled = TRUE, !.stop = "shutdown"]
    BY <2>1, <2>2
  <2>4. RowTyped' /\ rec'.accepted = rec.accepted /\ rec'.code = rec.code /\ rec'.stop = "shutdown"
    BY <1>2, <2>3 DEF RowTyped, Stops
  <2>5. "shutdown" \in Stops /\ rec'.stop # "disconnect"
    BY <2>4 DEF Stops
  <2> QED BY <1>1, <1>3, <1>4, <2>1, <2>2, <2>4, <2>5, TaskCancelled
<1>5. CASE at = "serving" /\ task = "over"
  <2>1. at' = "cleanup" /\ rec' = rec /\ task' = task /\ result' = result /\ out' = out
    BY <1>5, Zenon DEF Cancelled
  <2>2. TypeOK' /\ Types' /\ RowTyped'
    BY <1>1, <1>2, <1>5, <2>1 DEF TypeOK, Types, RowTyped
  <2>3. EarlyInv' /\ RefusingInv' /\ CallerInv' /\ TerminalInv' /\ OutcomeIsTrue' /\ RelayInv' /\ FreshInv'
    BY <1>5, <2>1 DEF EarlyInv, RefusingInv, CallerInv, TerminalInv, OutcomeIsTrue, RelayInv, FreshInv
  <2>4. TaskInv' /\ ServingInv'
    BY <1>1, <1>2, <1>5, <2>1 DEF TaskInv, ServingInv
  <2>5. OverInv' /\ AnswerInv'
    BY <1>1, <1>2, <1>3, <1>5, <2>1, Zenon DEF OverInv, AnswerInv
  <2> QED BY <2>2, <2>3, <2>4, <2>5, Zenon DEF IInv
<1>6. ASSUME at # "serving"
      PROVE  at' = "ended" /\ out' = <<>> /\ rec' = rec /\ task' = task /\ result' = result
  BY <1>6, Zenon DEF Cancelled
<1>7. CASE at \in {"turned", "reading", "scraping", "refusing"}
  <2>1. at' = "ended" /\ out' = <<>> /\ rec' = rec /\ UNCHANGED work
    BY <1>1, <1>6, <1>7 DEF work
  <2>2. RowTyped'
    BY <1>2, <2>1, Zenon DEF RowTyped
  <2>3. CASE at = "reading"
    <3>1. rec = NewRow
      BY <2>3, Zenon DEF IInv, EarlyInv
    <3>2. rec.code = "none" /\ rec.cancelled = FALSE /\ rec.accepted = FALSE
      BY <3>1, Zenon DEF NewRow
    <3>3. OutcomeIsTrue'
      BY <1>1, <1>3, <2>1, <3>2, EndCut
    <3> QED BY <1>1, <1>3, <2>1, <2>2, <2>3, <3>2, <3>3, EndsEarly
  <2>4. CASE at = "scraping"
    <3>1. rec = NewRow /\ kind \notin Inference
      BY <2>4, Zenon DEF IInv, EarlyInv
    <3>2. rec.accepted = FALSE
      BY <3>1, Zenon DEF NewRow
    <3>3. OutcomeIsTrue'
      BY <1>1, <3>1 DEF OutcomeIsTrue
    <3> QED BY <1>1, <1>3, <2>1, <2>2, <2>4, <3>2, <3>3, EndsEarly
  <2>5. CASE at \in {"turned", "refusing"}
    <3>1. rec.accepted = FALSE /\ (kind \in Inference => rec.code \in RefusalCodes)
      BY <1>2, <2>5, Zenon DEF RefusingInv
    <3>2. CASE kind \in Inference
      <4>1. OutcomeIsTrue'
        BY <1>1, <1>3, <2>1, <3>1, <3>2, EndRefused
      <4> QED BY <1>1, <1>3, <2>1, <2>2, <2>5, <3>1, <4>1, EndsEarly
    <3>3. CASE kind \notin Inference
      <4>1. OutcomeIsTrue'
        BY <1>1, <3>3 DEF OutcomeIsTrue
      <4> QED BY <1>1, <1>3, <2>1, <2>2, <2>5, <3>1, <4>1, EndsEarly
    <3> QED BY <3>2, <3>3
  <2> QED BY <1>7, <2>3, <2>4, <2>5
<1>8. CASE at \in {"cleanup", "terminal"}
  <2>1. at' = "ended" /\ out' = <<>> /\ rec' = rec /\ UNCHANGED work
    BY <1>1, <1>6, <1>8 DEF work
  <2>2. task = "over" /\ rec.accepted = TRUE
    BY <1>2, <1>8 DEF ServingInv, TypeOK, RowTyped
  <2>3. \/ rec.code = "none" /\ rec.cancelled = FALSE
        \/ rec.code \in FailureCodes
    <3>1. CASE at = "cleanup"
      BY <1>1, <1>2, <3>1 DEF ServingInv
    <3>2. CASE at = "terminal"
      BY <1>2, <3>2 DEF TerminalInv
    <3> QED BY <1>8, <3>1, <3>2
  <2>4. OutcomeIsTrue'
    <3>1. CASE rec.code = "none" /\ rec.cancelled = FALSE
      BY <1>1, <1>3, <2>1, <3>1, EndCut
    <3>2. CASE rec.code \in FailureCodes
      BY <1>1, <1>3, <2>1, <2>2, <3>2, EndFailed
    <3> QED BY <2>3, <3>1, <3>2
  <2>5. RowTyped'
    BY <1>2, <2>1, Zenon DEF RowTyped
  <2> QED BY <1>1, <1>3, <2>1, <2>2, <2>4, <2>5, EndsLate
<1> QED BY <1>1, <1>4, <1>5, <1>7, <1>8

LEMMA LeavesStep ==
  ASSUME IInv, Leaves
  PROVE  IInv'
<1>1. /\ at # "ended" /\ gone' = TRUE
      /\ kind' = kind /\ at' = at /\ caller' = caller /\ late' = late /\ rec' = rec /\ task' = task /\ result' = result
      /\ tr' = tr /\ started' = started /\ out' = out /\ answer' = answer /\ cut' = cut
  BY Zenon DEF Leaves, work, sends
<1>2. TypeOK' /\ Types' /\ RowTyped' /\ EarlyInv'
  BY <1>1 DEF IInv, TypeOK, Types, RowTyped, EarlyInv
<1>3. RefusingInv' /\ TerminalInv'
  <2>1. RefusingInv /\ TerminalInv
    BY Zenon DEF IInv
  <2> QED BY <1>1, <2>1, Zenon DEF RefusingInv, TerminalInv
<1>4. TaskInv' /\ FreshInv' /\ ServingInv'
  BY <1>1 DEF IInv, TaskInv, FreshInv, ServingInv
<1>5. RelayInv' /\ OverInv' /\ OutcomeIsTrue'
  BY <1>1 DEF RelayInv, OverInv, OutcomeIsTrue
<1>6. CallerInv' /\ AnswerInv'
  BY <1>1, Zenon DEF IInv, CallerInv, AnswerInv
<1> QED BY <1>2, <1>3, <1>4, <1>5, <1>6, Zenon DEF IInv

(* One message of the handler, and none.                                 *)
LEMMA HandlerSendsOne ==
  ASSUME NEW a, NEW pc, answer \in Unfinished, started \in BOOLEAN, HandlerSends(<<a>>, pc)
  PROVE  /\ started' = TRUE
         /\ \/ at' = pc /\ ~gone /\ out' = <<a>> /\ out' # <<>> /\ answer' = answer
            \/ at' = "ended" /\ out' = <<>> /\ answer' = IF gone THEN answer ELSE With(answer, <<a>>)
<1>1. PICK n \in 0..1 : Sends(<<a>>, n) /\ at' = (IF n = 1 THEN "ended" ELSE pc) /\ started' = (started \/ <<a>> # <<>>)
  <2>1. Len(<<a>>) = 1
    OBVIOUS
  <2> QED BY <2>1, Zenon DEF HandlerSends
<1>2. \/ n = 0 /\ ~gone /\ answer' = With(answer, <<>>) /\ out' = <<a>>
      \/ n = 1 /\ answer' = (IF gone THEN answer ELSE With(answer, <<a>>)) /\ out' = <<>>
  BY <1>1, SendsOne, Zenon
<1>3. 0 # 1 /\ <<a>> # <<>>
  OBVIOUS
<1>4. started' = TRUE
  BY <1>1, <1>3, Zenon
<1> QED BY <1>1, <1>2, <1>3, <1>4, Nothing, Zenon

LEMMA HandlerSendsTwo ==
  ASSUME NEW a, NEW b, NEW pc, answer \in Unfinished, started \in BOOLEAN, HandlerSends(<<a, b>>, pc)
  PROVE  /\ started' = TRUE
         /\ \/ at' = pc /\ ~gone /\ out' = <<a, b>> /\ out' # <<>> /\ answer' = answer
            \/ at' = pc /\ ~gone /\ out' = <<b>> /\ out' # <<>> /\ answer' = With(answer, <<a>>)
            \/ at' = "ended" /\ out' = <<>> /\ answer' = IF gone THEN answer ELSE With(answer, <<a, b>>)
<1>1. PICK n \in 0..2 : /\ Sends(<<a, b>>, n) /\ at' = (IF n = 2 THEN "ended" ELSE pc)
                        /\ started' = (started \/ <<a, b>> # <<>>)
  <2>1. Len(<<a, b>>) = 2
    OBVIOUS
  <2> QED BY <2>1, Zenon DEF HandlerSends
<1>2. \/ n = 0 /\ ~gone /\ answer' = With(answer, <<>>) /\ out' = <<a, b>>
      \/ n = 1 /\ ~gone /\ answer' = With(answer, <<a>>) /\ out' = <<b>>
      \/ n = 2 /\ answer' = (IF gone THEN answer ELSE With(answer, <<a, b>>)) /\ out' = <<>>
  BY <1>1, SendsTwo, Zenon
<1>3. 0 # 2 /\ 1 # 2 /\ <<a, b>> # <<>> /\ <<b>> # <<>>
  OBVIOUS
<1>4. started' = TRUE
  BY <1>1, <1>3, Zenon
<1> QED BY <1>1, <1>2, <1>3, <1>4, Nothing, Zenon

LEMMA HandlerSendsNone ==
  ASSUME NEW pc, answer \in Unfinished, started \in BOOLEAN, HandlerSends(<<>>, pc)
  PROVE  at' = "ended" /\ out' = <<>> /\ answer' = answer /\ started' = started
<1>1. PICK n \in 0..0 : Sends(<<>>, n) /\ at' = (IF n = 0 THEN "ended" ELSE pc) /\ started' = (started \/ <<>> # <<>>)
  <2>1. Len(<<>>) = 0
    OBVIOUS
  <2> QED BY <2>1, Zenon DEF HandlerSends
<1>2. n = 0
  OBVIOUS
<1>3. SubSeq(<<>>, 1, n) = <<>> /\ SubSeq(<<>>, n + 1, Len(<<>>)) = <<>>
  BY <1>2
<1>4. out' = <<>> /\ answer' = IF gone THEN answer ELSE With(answer, <<>>)
  BY <1>1, <1>3, Zenon DEF Sends
<1>5. started' = started
  BY <1>1, Zenon
<1> QED BY <1>1, <1>2, <1>4, <1>5, Nothing, Zenon

(* The terminal message.                                                 *)
LEMMA SendTerminalStep ==
  ASSUME IInv, SendTerminal
  PROVE  IInv'
<1>1. /\ at = "cleanup" /\ ~cut /\ HandlerSends(TerminalMessages, "terminal")
      /\ rec' = [rec EXCEPT !.cancelled = @ \/ result = "cancelled", !.code = Code]
      /\ kind' = kind /\ caller' = caller /\ late' = late /\ work' = work /\ gone' = gone /\ cut' = cut
  BY Zenon DEF SendTerminal
<1>2. TypeOK /\ Types /\ RowTyped /\ TaskInv /\ ServingInv /\ OverInv /\ AnswerInv
  BY Zenon DEF IInv
<1>3. task = "over" /\ rec.code = "none" /\ rec.cancelled = FALSE /\ rec.accepted = TRUE /\ answer \in Unfinished
  BY <1>1, <1>2 DEF ServingInv, TypeOK, RowTyped, AnswerInv
<1>4. /\ RowTyped' /\ rec'.code = Code /\ rec'.accepted = rec.accepted /\ rec'.stop = rec.stop
      /\ rec'.cancelled = (result = "cancelled")
  <2> DEFINE c == Code
  <2>1. rec' = [rec EXCEPT !.cancelled = @ \/ result = "cancelled", !.code = c]
    BY <1>1
  <2> HIDE DEF c
  <2>2. RowTyped' /\ rec'.code = c /\ rec'.accepted = rec.accepted /\ rec'.stop = rec.stop
    BY <1>2, <2>1 DEF RowTyped
  <2>3. rec'.cancelled = (rec.cancelled \/ result = "cancelled")
    BY <1>2, <2>1 DEF RowTyped
  <2>4. rec'.cancelled = (result = "cancelled")
    BY <1>3, <2>3
  <2> QED BY <2>2, <2>4 DEF c
<1>5. started \in BOOLEAN /\ cut \in BOOLEAN /\ result' = result
  BY <1>1, <1>2, Zenon DEF Types, work
<1>6. result \in FailureCodes \cup {"ok", "cancelled"}
  BY <1>2, <1>3, Zenon DEF TaskInv
<1>7. "ok" \notin FailureCodes /\ "none" \notin FailureCodes /\ "cancelled" \notin FailureCodes
  BY DEF FailureCodes
<1>8. Code \in FailureCodes \/ (Code = "none" /\ result \in {"ok", "cancelled"})
  BY <1>6, <1>7, StopCodes DEF Code
<1>9. ~gone => answer \in IF started THEN Begun \cup Finished ELSE {<<>>}
  BY <1>1, <1>2, <1>3, Zenon DEF OverInv
<1>10. CASE Code \in FailureCodes
  <2>0. Code # "none"
    BY <1>7, <1>10, Zenon
  <2>1. Code # "none" /\ TerminalMessages = ErrorMessages
    <3>1. result # "ok"
      BY <2>0 DEF Code
    <3> QED BY <2>0, <3>1 DEF TerminalMessages
  <2>2. CASE ~started
    <3>1. HandlerSends(<<"error", "json">>, "terminal")
      BY <1>1, <2>1, <2>2, Zenon DEF ErrorMessages
    <3>2. ~gone => answer = <<>>
      BY <1>9, <2>2, Zenon
    <3>3. /\ started' = TRUE
          /\ \/ /\ at' = "terminal" /\ ~gone /\ Waits("error")' /\ out' # <<>> /\ answer' \in Unfinished
             \/ /\ at' = "ended" /\ out' = <<>> /\ answer' = IF gone THEN answer ELSE <<"error", "json">>
      BY <1>3, <3>1, <3>2, JsonFromNothing, Zenon
    <3>4. CASE at' = "ended"
      <4>1. out' = <<>> /\ answer' \in Unfinished \cup {<<"error", "json">>}
        BY <1>3, <3>3, <3>4
      <4>2. OutcomeIsTrue'
        BY <1>3, <1>4, <1>10, <4>1, EndFailed
      <4>3. answer' \in Unfinished \cup Wholes
        BY <4>1, Zenon DEF Wholes
      <4> QED BY <1>1, <1>3, <1>4, <1>5, <3>3, <3>4, <4>1, <4>2, <4>3, EndsLate
    <3>5. CASE at' # "ended"
      <4>1. TerminalInv'
        BY <1>4, <1>5, <1>10, <2>1, <3>3, <3>5, Zenon DEF TerminalInv, TerminalWaits
      <4> QED BY <1>1, <1>3, <1>4, <1>5, <3>3, <3>5, <4>1, StaysTerminal
    <3> QED BY <3>4, <3>5
  <2>3. CASE started
    <3>1. HandlerSends(<<"failed">>, "terminal")
      BY <1>1, <2>1, <2>3, Zenon DEF ErrorMessages
    <3>2. ~gone => answer \in Begun \cup Finished
      BY <1>9, <2>3, Zenon
    <3>3. /\ started' = TRUE
          /\ \/ at' = "terminal" /\ ~gone /\ out' = <<"failed">> /\ out' # <<>> /\ answer' = answer
             \/ at' = "ended" /\ out' = <<>> /\ answer' = IF gone THEN answer ELSE With(answer, <<"failed">>)
      BY <1>3, <1>5, <3>1, HandlerSendsOne, Zenon
    <3>6. ~gone => With(answer, <<"failed">>) \in FailedStreams
      BY <3>2, Grows
    <3>4. CASE at' = "ended"
      <4>1. out' = <<>> /\ answer' \in Unfinished \cup FailedStreams
        BY <1>3, <3>3, <3>4, <3>6
      <4>2. OutcomeIsTrue'
        BY <1>3, <1>4, <1>10, <4>1, EndFailed
      <4>3. answer' \in Unfinished \cup Wholes
        BY <4>1, Zenon DEF Wholes
      <4> QED BY <1>1, <1>3, <1>4, <1>5, <3>3, <3>4, <4>1, <4>2, <4>3, EndsLate
    <3>5. CASE at' # "ended"
      <4>1. TerminalInv'
        BY <1>4, <1>5, <1>10, <2>1, <3>2, <3>3, <3>5, Zenon DEF TerminalInv, TerminalWaits
      <4> QED BY <1>1, <1>3, <1>4, <1>5, <3>3, <3>5, <4>1, StaysTerminal
    <3> QED BY <3>4, <3>5
  <2> QED BY <1>5, <2>2, <2>3, Zenon
<1>11. CASE Code = "none" /\ result = "ok" /\ kind = "generation"
  <2>1. HandlerSends(<<"usage", "done">>, "terminal")
    BY <1>1, <1>11, Zenon DEF TerminalMessages
  <2>2. ~gone => answer \in Finished
    BY <1>1, <1>2, <1>3, <1>11, Zenon DEF OverInv
  <2>3. /\ started' = TRUE
        /\ \/ at' = "terminal" /\ ~gone /\ out' = <<"usage", "done">> /\ out' # <<>> /\ answer' = answer
           \/ at' = "terminal" /\ ~gone /\ out' = <<"done">> /\ out' # <<>> /\ answer' = With(answer, <<"usage">>)
           \/ at' = "ended" /\ out' = <<>> /\ answer' = IF gone THEN answer ELSE With(answer, <<"usage", "done">>)
    BY <1>3, <1>5, <2>1, HandlerSendsTwo, Zenon
  <2>4. ~gone => With(answer, <<"usage">>) \in Used /\ With(answer, <<"usage", "done">>) \in EndedStreams
    BY <2>2, Grows
  <2>5. rec'.cancelled = FALSE
    BY <1>4, <1>11
  <2>6. CASE at' = "ended"
    <3>1. out' = <<>> /\ IF gone THEN answer' \in Unfinished ELSE answer' \in EndedStreams
      BY <1>3, <2>3, <2>4, <2>6, Zenon
    <3>2. OutcomeIsTrue'
      BY <1>1, <1>4, <1>11, <2>5, <3>1, EndGood
    <3>3. answer' \in Unfinished \cup Wholes
      BY <3>1, Zenon DEF Wholes
    <3> QED BY <1>1, <1>3, <1>4, <1>5, <2>3, <2>6, <3>1, <3>2, <3>3, EndsLate
  <2>7. CASE at' # "ended"
    <3>1. answer' \in Unfinished
      BY <1>3, <2>3, <2>4, <2>7, Zenon DEF Unfinished
    <3>2. rec'.code = "none" /\ kind' = "generation" /\ result' = "ok" /\ kind' # "count" /\ result' # "cancelled"
      BY <1>1, <1>4, <1>5, <1>11
    <3>3. ~gone' => \/ out' = <<"usage", "done">> /\ answer' \in Finished
                    \/ out' = <<"done">> /\ answer' \in Used
      BY <1>1, <2>2, <2>3, <2>4, <2>7, Zenon
    <3>4. TerminalInv'
      BY <2>5, <3>2, <3>3 DEF TerminalInv, TerminalWaits
    <3> QED BY <1>1, <1>3, <1>4, <1>5, <2>3, <2>7, <3>1, <3>4, StaysTerminal
  <2> QED BY <2>6, <2>7
<1>12. CASE Code = "none" /\ result = "ok" /\ kind # "generation"
  <2>1. kind = "count"
    BY <1>2, <1>3, <1>12 DEF TypeOK
  <2>2. HandlerSends(<<"ok", "json">>, "terminal")
    BY <1>1, <1>12, <2>1 DEF TerminalMessages
  <2>3. ~gone => answer = <<>>
    BY <1>1, <1>2, <1>3, <1>12, Zenon DEF OverInv
  <2>4. /\ started' = TRUE
        /\ \/ /\ at' = "terminal" /\ ~gone /\ Waits("ok")' /\ out' # <<>> /\ answer' \in Unfinished
           \/ /\ at' = "ended" /\ out' = <<>> /\ answer' = IF gone THEN answer ELSE <<"ok", "json">>
    BY <1>3, <2>2, <2>3, JsonFromNothing, Zenon
  <2>5. rec'.cancelled = FALSE
    BY <1>4, <1>12
  <2>6. CASE at' = "ended"
    <3>1. out' = <<>> /\ IF gone THEN answer' \in Unfinished ELSE answer' = <<"ok", "json">>
      BY <1>3, <2>4, <2>6, Zenon
    <3>2. OutcomeIsTrue'
      BY <1>1, <1>4, <1>12, <2>5, <3>1, EndGood
    <3>3. answer' \in Unfinished \cup Wholes
      BY <3>1, Zenon DEF Wholes
    <3> QED BY <1>1, <1>3, <1>4, <1>5, <2>4, <2>6, <3>1, <3>2, <3>3, EndsLate
  <2>7. CASE at' # "ended"
    <3>1. rec'.code = "none" /\ kind' = "count" /\ result' = "ok" /\ result' # "cancelled"
      BY <1>1, <1>4, <1>5, <1>12, <2>1
    <3>2. Waits("ok")'
      BY <2>4, <2>7, Zenon
    <3>3. TerminalInv'
      BY <2>5, <3>1, <3>2 DEF TerminalInv, TerminalWaits
    <3> QED BY <1>1, <1>3, <1>4, <1>5, <2>4, <2>7, <3>3, StaysTerminal
  <2> QED BY <2>6, <2>7
<1>13. CASE Code = "none" /\ result = "cancelled"
  <2>1. HandlerSends(<<>>, "terminal")
    BY <1>1, <1>13 DEF TerminalMessages
  <2>2. at' = "ended" /\ out' = <<>> /\ answer' = answer /\ started' = started
    BY <1>3, <1>5, <2>1, HandlerSendsNone
  <2>3. rec'.cancelled = TRUE /\ rec'.code = "none" /\ rec'.accepted = TRUE
    BY <1>3, <1>4, <1>13
  <2>4. rec.stop \in {"timeout", "disconnect", "draining", "engine_changed", "shutdown"}
    BY <1>2, <1>13 DEF TaskInv, RowTyped, Stops
  <2>5. rec.stop = "disconnect" => gone
    BY <1>2 DEF ServingInv
  <2>6. OutcomeIsTrue'
    BY <1>1, <1>3, <1>4, <2>2, <2>3, <2>4, <2>5, EndStopped
  <2> QED BY <1>1, <1>3, <1>4, <1>5, <2>2, <2>6, EndsLate
<1> QED BY <1>8, <1>10, <1>11, <1>12, <1>13

(* ------------------------------ the client ------------------------------ *)

(* The client reads on in an answer in JSON.                             *)
LEMMA ReadsJson ==
  ASSUME NEW status \in {"ok", "error"}, Waits(status), ~gone, NEW n \in 1..Len(out), Sends(out, n)
  PROVE  \/ n = Len(out) /\ out' = <<>> /\ answer' = <<status, "json">>
         \/ n # Len(out) /\ out' # <<>> /\ Waits(status)' /\ answer' \in Unfinished
<1>1. CASE answer = <<>> /\ out = <<status, "json">>
  <2>1. Len(out) = 2
    BY <1>1
  <2>2. n \in 0..2 /\ n # 0
    BY <2>1
  <2>3. \/ n = 1 /\ answer' = With(answer, <<status>>) /\ out' = <<"json">>
        \/ n = 2 /\ answer' = With(answer, <<status, "json">>) /\ out' = <<>>
    <3>1. Sends(<<status, "json">>, n)
      BY <1>1, Zenon
    <3> QED BY <2>2, <3>1, SendsTwo, Zenon
  <2>4. With(answer, <<status>>) = <<status>> /\ With(answer, <<status, "json">>) = <<status, "json">>
    <3>1. <<status>> \in Seq(Messages) /\ <<status, "json">> \in Seq(Messages)
      BY Typed, Zenon
    <3> QED BY <1>1, <3>1, FromNothing, Zenon
  <2>5. <<status>> \in Unfinished
    BY Zenon DEF Unfinished
  <2>8. 1 # 2
    OBVIOUS
  <2>6. CASE n = 1
    <3>1. answer' = <<status>> /\ out' = <<"json">>
      BY <2>3, <2>4, <2>6
    <3> QED BY <2>1, <2>5, <2>6, <2>8, <3>1, Distinct, Zenon DEF Waits
  <2>7. CASE n = 2
    BY <2>1, <2>3, <2>4, <2>7
  <2> QED BY <2>3, <2>6, <2>7
<1>2. CASE answer = <<status>> /\ out = <<"json">>
  <2>1. Len(out) = 1
    BY <1>2
  <2>2. n = 1
    BY <2>1
  <2>3. answer' = With(answer, <<"json">>) /\ out' = <<>>
    <3>1. Sends(<<"json">>, n)
      BY <1>2, Zenon
    <3>2. n \in 0..1 /\ n # 0
      BY <2>2
    <3> QED BY <3>1, <3>2, SendsOne, Zenon
  <2>4. With(<<status>>, <<"json">>) = <<status, "json">>
    BY Grows, Zenon
  <2> QED BY <1>2, <2>1, <2>2, <2>3, <2>4, Zenon
<1> QED BY <1>1, <1>2, Zenon DEF Waits

(* The task's send goes on.                                              *)
LEMMA ReadsTask ==
  ASSUME IInv, task = "sending", ClientReads
  PROVE  IInv'
<1>1. /\ at' = at /\ UNCHANGED <<kind, caller, late, rec, result, tr, gone, cut>> /\ TaskSends(out)
  <2>1. PICK n \in 1..Len(out) : /\ Sends(out, n) /\ task' = (IF n = Len(out) THEN "relay" ELSE "sending")
                                 /\ started' = TRUE /\ at' = at
    BY Zenon DEF ClientReads
  <2>2. out # <<>> /\ UNCHANGED <<kind, caller, late, rec, result, tr, gone, cut>>
    BY Zenon DEF ClientReads
  <2>3. n \in 0..Len(out) /\ n > 0
    BY <2>1
  <2>4. started' = (started \/ n > 0)
    BY <2>1, <2>3, Zenon
  <2>5. TaskSends(out)
    BY <2>1, <2>3, <2>4, Zenon DEF TaskSends
  <2> QED BY <2>1, <2>2, <2>5
<1>2. /\ answer \in Unfinished /\ started \in BOOLEAN /\ tr' \in Translators /\ gone' = gone /\ tr' = tr
      /\ UNCHANGED <<rec, result>> /\ TaskOnly
  BY <1>1, Running, Zenon DEF IInv, Types, TaskOnly
<1>3. CASE ~gone
  <2>1. \/ ~started /\ answer = <<>> /\ out \in IF tr.finish THEN Finished ELSE Begun
        \/ started /\ answer \in Begun
           /\ out \in IF tr.finish THEN {<<"finish">>, <<"delta", "finish">>} ELSE {<<"delta">>}
    BY <1>3, Zenon DEF IInv, RelayInv
  <2>2. ASSUME ~started, answer = <<>>, tr.finish, out = <<"stream", "finish">>
        PROVE  Relayed'
    <3>1. TaskSends(<<"stream", "finish">>)
      BY <1>1, <2>2, Zenon
    <3> QED BY <1>2, <2>2, <3>1, BegunWithFinish
  <2>3. ASSUME ~started, answer = <<>>, tr.finish, out = <<"stream", "delta", "finish">>
        PROVE  Relayed'
    <3>1. TaskSends(<<"stream", "delta", "finish">>)
      BY <1>1, <2>3, Zenon
    <3> QED BY <1>2, <2>3, <3>1, BegunWithBoth
  <2>4. ASSUME ~started, answer = <<>>, ~tr.finish, out = <<"stream">>
        PROVE  Relayed'
    <3>1. TaskSends(<<"stream">>)
      BY <1>1, <2>4, Zenon
    <3> QED BY <1>2, <2>4, <3>1, BegunAlone
  <2>5. ASSUME ~started, answer = <<>>, ~tr.finish, out = <<"stream", "delta">>
        PROVE  Relayed'
    <3>1. TaskSends(<<"stream", "delta">>)
      BY <1>1, <2>5, Zenon
    <3> QED BY <1>2, <2>5, <3>1, BegunWithDelta
  <2>6. ASSUME started, answer \in Begun, tr.finish, out = <<"finish">>
        PROVE  Relayed'
    <3>1. TaskSends(<<"finish">>)
      BY <1>1, <2>6, Zenon
    <3> QED BY <1>2, <2>6, <3>1, RelayedFinish
  <2>7. ASSUME started, answer \in Begun, tr.finish, out = <<"delta", "finish">>
        PROVE  Relayed'
    <3>1. TaskSends(<<"delta", "finish">>)
      BY <1>1, <2>7, Zenon
    <3> QED BY <1>2, <2>7, <3>1, RelayedBoth
  <2>8. ASSUME started, answer \in Begun, ~tr.finish, out = <<"delta">>
        PROVE  Relayed'
    <3>1. TaskSends(<<"delta">>)
      BY <1>1, <2>8, Zenon
    <3> QED BY <1>2, <2>8, <3>1, RelayedDelta
  <2>9. Relayed'
    <3>1. CASE ~started /\ answer = <<>> /\ out \in IF tr.finish THEN Finished ELSE Begun
      BY <2>2, <2>3, <2>4, <2>5, <3>1, Zenon DEF Finished, Begun
    <3>2. CASE /\ started /\ answer \in Begun
               /\ out \in IF tr.finish THEN {<<"finish">>, <<"delta", "finish">>} ELSE {<<"delta">>}
      BY <2>6, <2>7, <2>8, <3>2, Zenon
    <3> QED BY <2>1, <3>1, <3>2
  <2> QED BY <1>2, <2>9, RelayedStep
<1>4. CASE gone
  <2>1. PICK n \in 1..Len(out) : Sends(out, n) /\ task' = (IF n = Len(out) THEN "relay" ELSE "sending") /\ started' = TRUE
    BY Zenon DEF ClientReads
  <2>2. n = Len(out) /\ answer' = answer /\ out' = SubSeq(out, n + 1, Len(out))
    BY <1>4, <2>1, Zenon DEF Sends
  <2>3. n + 1 > Len(out)
    BY <2>1, <2>2
  <2>4. out' = <<>>
    BY <2>2, <2>3
  <2>5. Relayed'
    BY <1>2, <1>4, <2>1, <2>2, <2>4 DEF Relayed, RelayInv
  <2> QED BY <1>2, <2>5, RelayedStep
<1> QED BY <1>3, <1>4

(* A refusal, or the answer of another route, goes on.                   *)
LEMMA ReadsRefusal ==
  ASSUME IInv, at \in {"turned", "refusing"}, task # "sending", ClientReads
  PROVE  IInv'
<1>1. PICK n \in 1..Len(out) : Sends(out, n) /\ at' = (IF n = Len(out) THEN "ended" ELSE at)
  BY Zenon DEF ClientReads
<1>2. /\ kind' = kind /\ caller' = caller /\ late' = late /\ rec' = rec /\ task' = task /\ result' = result
      /\ tr' = tr /\ gone' = gone /\ cut' = cut /\ started' = started
  BY Zenon DEF ClientReads
<1>3. TypeOK /\ Types /\ RowTyped /\ RefusingInv /\ AnswerInv /\ TaskInv /\ ServingInv /\ FreshInv
  BY Zenon DEF IInv
<1>4. /\ rec.accepted = FALSE /\ task = "none" /\ rec.stop = "none" /\ answer \in Unfinished
      /\ (kind \in Inference => rec.code \in RefusalCodes)
  BY <1>3 DEF RefusingInv, AnswerInv, TypeOK
<1>5. RowTyped' /\ rec'.accepted = FALSE /\ rec'.stop = rec.stop /\ UNCHANGED work
  BY <1>2, <1>3, <1>4, Zenon DEF RowTyped, work
<1>6. \/ at' = "ended" /\ out' = <<>> /\ answer' \in Unfinished \cup {<<"error", "json">>}
      \/ at' = "ended" /\ out' = <<>> /\ answer' \in Wholes /\ kind \notin Inference
      \/ /\ at' = at /\ ~gone /\ out' # <<>> /\ answer' \in Unfinished
         /\ Waits("error")' \/ (kind \notin Inference /\ Waits("ok")')
  <2>1. CASE gone
    <3>1. n = Len(out) /\ answer' = answer /\ out' = SubSeq(out, n + 1, Len(out))
      BY <1>1, <2>1, Zenon DEF Sends
    <3>2. n + 1 > Len(out)
      BY <1>1, <3>1
    <3> QED BY <1>1, <1>4, <3>1, <3>2
  <2>2. CASE ~gone /\ Waits("error")
    <3>1. \/ n = Len(out) /\ out' = <<>> /\ answer' = <<"error", "json">>
          \/ n # Len(out) /\ out' # <<>> /\ Waits("error")' /\ answer' \in Unfinished
      BY <1>1, <2>2, ReadsJson, Zenon
    <3> QED BY <1>1, <2>2, <3>1, Zenon
  <2>3. CASE ~gone /\ kind \notin Inference /\ Waits("ok")
    <3>1. \/ n = Len(out) /\ out' = <<>> /\ answer' = <<"ok", "json">>
          \/ n # Len(out) /\ out' # <<>> /\ Waits("ok")' /\ answer' \in Unfinished
      BY <1>1, <2>3, ReadsJson, Zenon
    <3>2. <<"ok", "json">> \in Wholes
      BY Zenon DEF Wholes
    <3> QED BY <1>1, <2>3, <3>1, <3>2, Zenon
  <2> QED BY <1>3, <2>1, <2>2, <2>3, Zenon DEF RefusingInv
<1>7. TypeOK' /\ Types'
  BY <1>2, <1>3, <1>4, <1>6 DEF TypeOK, Types
<1>8. EarlyInv' /\ TerminalInv' /\ CallerInv'
  BY <1>6 DEF EarlyInv, TerminalInv, CallerInv
<1>9. RefusingInv'
  BY <1>2, <1>3, <1>6, Zenon DEF RefusingInv
<1>10. TaskInv' /\ FreshInv' /\ ServingInv' /\ RelayInv' /\ OverInv'
  BY <1>2, <1>3, <1>4, <1>6 DEF TaskInv, FreshInv, ServingInv, RelayInv, OverInv
<1>11. AnswerInv'
  BY <1>6, Zenon DEF AnswerInv, Wholes
<1>12. OutcomeIsTrue'
  <2>1. CASE at' # "ended" \/ kind \notin Inference
    BY <1>2, <2>1, Zenon DEF OutcomeIsTrue
  <2>2. CASE at' = "ended" /\ kind \in Inference
    <3>1. answer' \in Unfinished \cup {<<"error", "json">>}
      BY <1>6, <2>2
    <3>2. rec'.code \in RefusalCodes
      BY <1>2, <1>4, <2>2
    <3> QED BY <1>5, <3>1, <3>2, EndRefused
  <2> QED BY <2>1, <2>2
<1> QED BY <1>5, <1>7, <1>8, <1>9, <1>10, <1>11, <1>12, Zenon DEF IInv

(* The terminal message goes on.                                         *)
LEMMA ReadsTerminal ==
  ASSUME IInv, at = "terminal", task # "sending", ClientReads
  PROVE  IInv'
<1>1. PICK n \in 1..Len(out) : Sends(out, n) /\ at' = (IF n = Len(out) THEN "ended" ELSE at)
  BY Zenon DEF ClientReads
<1>2. /\ kind' = kind /\ caller' = caller /\ late' = late /\ rec' = rec /\ task' = task /\ result' = result
      /\ tr' = tr /\ gone' = gone /\ cut' = cut /\ started' = started
  BY Zenon DEF ClientReads
<1>3. TypeOK /\ Types /\ RowTyped /\ AnswerInv /\ ServingInv /\ TerminalInv
  BY Zenon DEF IInv
<1>4. task = "over" /\ answer \in Unfinished /\ rec.accepted = TRUE
  BY <1>3 DEF ServingInv, AnswerInv, TypeOK, RowTyped
<1>5. RowTyped' /\ UNCHANGED work /\ started' \in BOOLEAN /\ cut' \in BOOLEAN
  BY <1>2, <1>3, Zenon DEF RowTyped, Types, work
<1>6. /\ rec.code \in FailureCodes \/ (rec.code = "none" /\ result = "ok")
      /\ rec.cancelled = (result = "cancelled")
      /\ "none" \notin FailureCodes
  BY <1>3 DEF TerminalInv, FailureCodes
<1>7. ASSUME NEW S, at' = "ended", out' = <<>>, answer' \in S,
             rec.code \in FailureCodes => S \subseteq Unfinished \cup {<<"error", "json">>} \cup FailedStreams,
             rec.code = "none" => IF gone THEN S \subseteq Unfinished
                                          ELSE S \subseteq {<<"ok", "json">>} \cup EndedStreams
      PROVE  IInv'
  <2>1. CASE rec.code \in FailureCodes
    <3>1. answer' \in Unfinished \cup {<<"error", "json">>} \cup FailedStreams
      BY <1>7, <2>1
    <3>2. OutcomeIsTrue'
      BY <1>2, <1>4, <2>1, <3>1, EndFailed
    <3>3. answer' \in Unfinished \cup Wholes
      BY <3>1, Zenon DEF Wholes
    <3> QED BY <1>2, <1>4, <1>5, <1>7, <3>2, <3>3, EndsLate
  <2>2. CASE rec.code = "none"
    <3>1. IF gone THEN answer' \in Unfinished ELSE answer' \in {<<"ok", "json">>} \cup EndedStreams
      BY <1>7, <2>2
    <3>2. rec.cancelled = FALSE
      BY <1>6, <2>2
    <3>3. OutcomeIsTrue'
      BY <1>2, <2>2, <3>1, <3>2, EndGood
    <3>4. answer' \in Unfinished \cup Wholes
      BY <3>1, Zenon DEF Wholes
    <3> QED BY <1>2, <1>4, <1>5, <1>7, <3>3, <3>4, EndsLate
  <2> QED BY <1>6, <2>1, <2>2
<1>8. ASSUME at' = "terminal", out' # <<>>, answer' \in Unfinished, TerminalWaits'
      PROVE  IInv'
  <2>1. TerminalInv'
    BY <1>2, <1>6, <1>8 DEF TerminalInv
  <2> QED BY <1>2, <1>4, <1>5, <1>8, <2>1, StaysTerminal
<1>9. CASE gone
  <2>1. n = Len(out) /\ answer' = answer /\ out' = SubSeq(out, n + 1, Len(out))
    BY <1>1, <1>9, Zenon DEF Sends
  <2>2. n + 1 > Len(out)
    BY <1>1, <2>1
  <2>3. out' = <<>>
    BY <2>1, <2>2
  <2> QED BY <1>1, <1>4, <1>7, <1>9, <2>1, <2>3
<1>10. CASE ~gone /\ rec.code # "none" /\ Waits("error")
  <2>1. \/ n = Len(out) /\ out' = <<>> /\ answer' = <<"error", "json">>
        \/ n # Len(out) /\ out' # <<>> /\ Waits("error")' /\ answer' \in Unfinished
    BY <1>1, <1>10, ReadsJson, Zenon
  <2>2. CASE n = Len(out)
    BY <1>1, <1>7, <1>10, <2>1, <2>2
  <2>3. CASE n # Len(out)
    <3>1. TerminalWaits'
      BY <1>2, <1>10, <2>1, <2>3, Zenon DEF TerminalWaits
    <3> QED BY <1>1, <1>8, <2>1, <2>3, <3>1
  <2> QED BY <2>2, <2>3
<1>11. CASE ~gone /\ rec.code = "none" /\ kind = "count" /\ Waits("ok")
  <2>1. \/ n = Len(out) /\ out' = <<>> /\ answer' = <<"ok", "json">>
        \/ n # Len(out) /\ out' # <<>> /\ Waits("ok")' /\ answer' \in Unfinished
    BY <1>1, <1>11, ReadsJson, Zenon
  <2>2. CASE n = Len(out)
    BY <1>1, <1>6, <1>7, <1>11, <2>1, <2>2
  <2>3. CASE n # Len(out)
    <3>1. TerminalWaits'
      BY <1>2, <1>11, <2>1, <2>3, Zenon DEF TerminalWaits
    <3> QED BY <1>1, <1>8, <2>1, <2>3, <3>1
  <2> QED BY <2>2, <2>3
<1>12. CASE ~gone /\ rec.code # "none" /\ out = <<"failed">> /\ answer \in Begun \cup Finished
  <2>1. Len(out) = 1 /\ n = 1
    BY <1>12
  <2>2. answer' = With(answer, <<"failed">>) /\ out' = <<>>
    <3>1. Sends(<<"failed">>, n) /\ n \in 0..1 /\ n # 0
      BY <1>1, <1>12, <2>1
    <3> QED BY <1>12, <3>1, SendsOne, Zenon
  <2>3. answer' \in FailedStreams
    BY <1>12, <2>2, Grows
  <2> QED BY <1>1, <1>7, <1>12, <2>1, <2>2, <2>3
<1>13. CASE ~gone /\ rec.code = "none" /\ kind # "count" /\ out = <<"usage", "done">> /\ answer \in Finished
  <2>1. Len(out) = 2 /\ n \in 0..2 /\ n # 0
    BY <1>13
  <2>2. \/ n = 1 /\ answer' = With(answer, <<"usage">>) /\ out' = <<"done">>
        \/ n = 2 /\ answer' = With(answer, <<"usage", "done">>) /\ out' = <<>>
    <3>1. Sends(<<"usage", "done">>, n)
      BY <1>1, <1>13
    <3> QED BY <1>13, <2>1, <3>1, SendsTwo, Zenon
  <2>3. With(answer, <<"usage">>) \in Used /\ With(answer, <<"usage", "done">>) \in EndedStreams
    BY <1>13, Grows
  <2>4. CASE n = 1
    <3>1. answer' \in Used /\ out' = <<"done">>
      BY <2>2, <2>3, <2>4
    <3>2. TerminalWaits'
      BY <1>2, <1>13, <3>1 DEF TerminalWaits
    <3>3. answer' \in Unfinished /\ out' # <<>>
      BY <3>1, Distinct DEF Unfinished
    <3> QED BY <1>1, <1>8, <2>1, <2>4, <3>2, <3>3
  <2>5. CASE n = 2
    BY <1>1, <1>6, <1>7, <1>13, <2>1, <2>2, <2>3, <2>5
  <2> QED BY <2>2, <2>4, <2>5
<1>14. CASE ~gone /\ rec.code = "none" /\ kind # "count" /\ out = <<"done">> /\ answer \in Used
  <2>1. Len(out) = 1 /\ n = 1
    BY <1>14
  <2>2. answer' = With(answer, <<"done">>) /\ out' = <<>>
    <3>1. Sends(<<"done">>, n) /\ n \in 0..1 /\ n # 0
      BY <1>1, <1>14, <2>1
    <3> QED BY <1>14, <3>1, SendsOne, Zenon
  <2>3. answer' \in EndedStreams
    BY <1>14, <2>2, Grows
  <2> QED BY <1>1, <1>6, <1>7, <1>14, <2>1, <2>2, <2>3
<1> QED BY <1>3, <1>9, <1>10, <1>11, <1>12, <1>13, <1>14, Zenon DEF TerminalInv, TerminalWaits

LEMMA ReadsStep ==
  ASSUME IInv, ClientReads
  PROVE  IInv'
<1>1. out # <<>>
  BY Zenon DEF ClientReads
<1>2. at \in {"turned", "refusing", "terminal"} \/ task = "sending"
  BY <1>1 DEF IInv, TypeOK
<1>3. CASE task = "sending"
  BY <1>3, ReadsTask
<1> QED BY <1>2, <1>3, ReadsRefusal, ReadsTerminal

(* ------------------------- the theorems --------------------------------- *)

LEMMA InitHolds == Init => IInv
<1> SUFFICES ASSUME Init
             PROVE  IInv
  OBVIOUS
<1>1. /\ kind \in Kinds /\ at = "arrived" /\ caller = NoCaller /\ late = FALSE /\ rec = NewRow
      /\ task = "none" /\ result = "none" /\ tr = Fresh
      /\ started = FALSE /\ out = <<>> /\ answer = <<>> /\ gone = FALSE /\ cut = FALSE
  BY Zenon DEF Init, NewRow
<1>2. TypeOK /\ RowTyped
  BY <1>1 DEF TypeOK, RowTyped, NewRow
<1>3. Types
  BY <1>1 DEF Types, Fresh, Translators
<1>4. EarlyInv /\ RefusingInv /\ TerminalInv /\ CallerInv /\ OutcomeIsTrue /\ RelayInv /\ OverInv
  BY <1>1 DEF EarlyInv, RefusingInv, TerminalInv, CallerInv, OutcomeIsTrue, RelayInv, OverInv
<1>5. TaskInv /\ FreshInv /\ ServingInv
  BY <1>1 DEF TaskInv, FreshInv, ServingInv, Fresh, NewRow
<1>6. AnswerInv
  BY <1>1, Zenon DEF AnswerInv, Unfinished
<1> QED BY <1>2, <1>3, <1>4, <1>5, <1>6, Zenon DEF IInv

LEMMA StutterStep ==
  ASSUME IInv, UNCHANGED vars
  PROVE  IInv'
<1>1. /\ kind' = kind /\ at' = at /\ caller' = caller /\ late' = late /\ rec' = rec /\ task' = task /\ result' = result
      /\ tr' = tr /\ started' = started /\ out' = out /\ answer' = answer /\ gone' = gone /\ cut' = cut
  BY Zenon DEF vars
<1>2. TypeOK' /\ Types' /\ RowTyped'
  BY <1>1 DEF IInv, TypeOK, Types, RowTyped
<1>3. EarlyInv' /\ RefusingInv' /\ TerminalInv'
  BY <1>1, Zenon DEF IInv, EarlyInv, RefusingInv, TerminalInv, TerminalWaits, Waits
<1>4. TaskInv' /\ FreshInv' /\ ServingInv' /\ RelayInv' /\ OverInv'
  BY <1>1, Zenon DEF IInv, TaskInv, FreshInv, ServingInv, RelayInv, OverInv
<1>5. CallerInv' /\ AnswerInv'
  BY <1>1, Zenon DEF IInv, CallerInv, AnswerInv
<1>6. OutcomeIsTrue'
  BY <1>1, Zenon DEF IInv, OutcomeIsTrue, Row, A!Whole
<1> QED BY <1>2, <1>3, <1>4, <1>5, <1>6, Zenon DEF IInv

(* The parts of Next.                                                  *)
LEMMA ArriveStep ==
  ASSUME IInv, Arrive
  PROVE  IInv'
BY TurnedStep, UnauthorizedStep, AuthorizedStep, PlainStep, Zenon DEF Arrive

LEMMA PreparationStep ==
  ASSUME IInv, Prepare
  PROVE  IInv'
BY ScrapedStep, TooLargeStep, LeftEarlyStep, BodyLateStep, RefusalLateStep, BodyStep, ControlledStep, Zenon
   DEF Prepare

LEMMA TaskStep ==
  ASSUME IInv, Task
  PROVE  IInv'
BY GrantedStep, FaultsStep, CountedStep, AnsweredStep, RelayStep, Zenon DEF Task

LEMMA StopsStep ==
  ASSUME IInv, WallTime \/ WatchClient \/ Drain \/ DrainDeadline \/ EngineChanges
  PROVE  IInv'
<1>1. \E reason \in {"timeout", "disconnect", "draining", "engine_changed"} :
         (reason = "disconnect" => gone) /\ Stop(reason)
  BY DEF WallTime, WatchClient, Drain, DrainDeadline, EngineChanges
<1> QED BY <1>1, StopStep

LEMMA FinishStep ==
  ASSUME IInv, Finish
  PROVE  IInv'
BY TaskOverStep, SendTerminalStep, GivenUpStep, UnwoundStep, Zenon DEF Finish

LEMMA NextHolds == IInv /\ [Next]_vars => IInv'
<1> SUFFICES ASSUME IInv, [Next]_vars
             PROVE  IInv'
  OBVIOUS
<1>1. \/ Arrive \/ Prepare \/ PrepareS \/ Task
      \/ WallTime \/ WatchClient \/ Drain \/ DrainDeadline \/ EngineChanges
      \/ Finish \/ Cancelled \/ ClientReads \/ Leaves \/ UNCHANGED vars
  BY Zenon DEF Next
<1> QED BY <1>1, ArriveStep, PreparationStep, PrepareStep, TaskStep, StopsStep, FinishStep, CancelledStep,
           ReadsStep, LeavesStep, StutterStep, Zenon

(* The inductive invariant holds of every state of a request, whatever its *)
(* engine, its client, its stops and the server's shutdown do.             *)
THEOREM RequestInvHolds == Spec => []IInv
BY InitHolds, NextHolds, PTL DEF Spec

(* The handler, its task and its row keep together.                      *)
THEOREM RequestTypesHold == Spec => []TypeOK
<1>1. IInv => TypeOK
  BY Zenon DEF IInv
<1> QED BY <1>1, RequestInvHolds, PTL

(* What the metrics count of a request is what its client got.           *)
THEOREM RowsAreTrue == Spec => []OutcomeIsTrue
<1>1. IInv => OutcomeIsTrue
  BY Zenon DEF IInv
<1> QED BY <1>1, RequestInvHolds, PTL

(* Callers share the engine's prefix cache only within one scope or key. *)
THEOREM CachesStayApart == Spec => []CachesApart
<1>1. IInv => CachesApart
  BY CallerInvApart, Zenon DEF IInv
<1> QED BY <1>1, RequestInvHolds, PTL

(* ------------------- the answers of the contract ------------------------ *)

LEMMA SendsExtend ==
  ASSUME answer \in Seq(Messages), NEW ms \in Seq(Messages), NEW n \in 0..Len(ms), Sends(ms, n)
  PROVE  answer' = answer \/ A!IsPrefix(answer, answer')
<1>1. SubSeq(ms, 1, n) \in Seq(Messages)
  OBVIOUS
<1>2. answer' = answer \/ answer' = With(answer, SubSeq(ms, 1, n))
  BY Zenon DEF Sends
<1> QED BY <1>1, <1>2, WithExtends, Zenon

LEMMA HandlerExtends ==
  ASSUME answer \in Seq(Messages), NEW ms \in Seq(Messages), NEW pc, HandlerSends(ms, pc)
  PROVE  answer' = answer \/ A!IsPrefix(answer, answer')
<1>1. PICK n \in 0..Len(ms) : Sends(ms, n)
  BY Zenon DEF HandlerSends
<1> QED BY <1>1, SendsExtend

(* Every step leaves the answer or adds to its end.                    *)
LEMMA RefuseExtends ==
  ASSUME answer \in Seq(Messages), NEW code, Refuse(code)
  PROVE  answer' = answer \/ A!IsPrefix(answer, answer')
<1>1. ErrorMessages \in Seq(Messages)
  BY Typed, Zenon DEF ErrorMessages
<1> QED BY <1>1, HandlerExtends, Zenon DEF Refuse

LEMMA ReplyExtends ==
  ASSUME answer \in Seq(Messages), NEW code, Replied(code)
  PROVE  answer' = answer \/ A!IsPrefix(answer, answer')
<1>1. <<"ok", "json">> \in Seq(Messages)
  BY Typed, Zenon
<1>2. Refuse(code) \/ HandlerSends(<<"ok", "json">>, "refusing")
  BY Zenon DEF Replied
<1> QED BY <1>1, <1>2, RefuseExtends, HandlerExtends, Zenon

LEMMA ArriveExtends ==
  ASSUME answer \in Seq(Messages), Arrive
  PROVE  answer' = answer \/ A!IsPrefix(answer, answer')
<1>1. CASE \E code \in {"queue_full", "not_found"} : Turned(code)
  <2>1. PICK code : HandlerSends(ErrorMessages, "turned")
    BY <1>1, Zenon DEF Turned
  <2>2. ErrorMessages \in Seq(Messages)
    BY Typed, Zenon DEF ErrorMessages
  <2> QED BY <2>1, <2>2, HandlerExtends
<1>2. ASSUME NEW k, NEW status, NEW c, NEW s, Unauthorized(k, status, c, s)
      PROVE  answer' = answer \/ A!IsPrefix(answer, answer')
  BY <1>2, RefuseExtends, Zenon DEF Unauthorized
<1>3. ASSUME NEW k, NEW status, NEW c, NEW s, Authorized(k, status, c, s)
      PROVE  answer' = answer
  BY <1>3, Zenon DEF Authorized, sends
<1>4. ASSUME NEW k, NEW ready, Plain(k, ready)
      PROVE  answer' = answer \/ A!IsPrefix(answer, answer')
  <2>1. UNCHANGED sends \/ Replied(PlainCode(k, ready))
    BY <1>4 DEF Plain
  <2> QED BY <2>1, ReplyExtends, Zenon DEF sends
<1> QED BY <1>1, <1>2, <1>3, <1>4, Zenon DEF Arrive

LEMMA PrepareExtends ==
  ASSUME answer \in Seq(Messages), Prepare
  PROVE  answer' = answer \/ A!IsPrefix(answer, answer')
<1>1. ASSUME NEW scrape, Scraped(scrape)
      PROVE  answer' = answer \/ A!IsPrefix(answer, answer')
  BY <1>1, ReplyExtends, Zenon DEF Scraped
<1>2. ASSUME NEW code, Controlled(code)
      PROVE  answer' = answer \/ A!IsPrefix(answer, answer')
  BY <1>2, ReplyExtends, Zenon DEF Controlled
<1>3. ASSUME TooLarge \/ BodyLate
      PROVE  answer' = answer \/ A!IsPrefix(answer, answer')
  BY <1>3, RefuseExtends, Zenon DEF TooLarge, BodyLate
<1>4. ASSUME NEW b, NEW status, BodyRead(b, status)
      PROVE  answer' = answer \/ A!IsPrefix(answer, answer')
  BY <1>4, RefuseExtends, Zenon DEF BodyRead, sends
<1>5. ASSUME LeftEarly \/ RefusalLate
      PROVE  answer' = answer
  BY <1>5, Zenon DEF LeftEarly, RefusalLate, sends
<1> QED BY <1>1, <1>2, <1>3, <1>4, <1>5, Zenon DEF Prepare

LEMMA RelayExtends ==
  ASSUME IInv, answer \in Seq(Messages), NEW e \in Events, Relay(e)
  PROVE  answer' = answer \/ A!IsPrefix(answer, answer')
<1> DEFINE ms == (IF started THEN <<>> ELSE <<"stream">>) \o Chunks(tr, e)
<1>1. UNCHANGED sends \/ (~Breaks(tr, e) /\ TaskSends(ms))
  BY Zenon DEF Relay, Fails
<1>2. CASE ~Breaks(tr, e) /\ TaskSends(ms)
  <2>1. Chunks(tr, e) \in {<<>>, <<"delta">>, <<"finish">>, <<"delta", "finish">>}
    <3>1. tr \in Translators
      BY Zenon DEF IInv, Types
    <3> QED BY <1>2, <3>1, ChunkShapes, Zenon
  <2>2. <<>> \in Seq(Messages)
    OBVIOUS
  <2>3. Chunks(tr, e) \in Seq(Messages) /\ <<"stream">> \in Seq(Messages)
    BY <2>1, <2>2, Typed, Zenon
  <2>4. (IF started THEN <<>> ELSE <<"stream">>) \in Seq(Messages)
    BY <2>2, <2>3, Zenon
  <2>5. ms \in Seq(Messages)
    BY <2>3, <2>4, ConcatProperties
  <2>6. PICK n \in 0..Len(ms) : Sends(ms, n)
    BY <1>2, Zenon DEF TaskSends
  <2> HIDE DEF ms
  <2> QED BY <2>5, <2>6, SendsExtend
<1> QED BY <1>1, <1>2, Zenon DEF sends

LEMMA TaskExtends ==
  ASSUME IInv, answer \in Seq(Messages), Task
  PROVE  answer' = answer \/ A!IsPrefix(answer, answer')
<1>1. ASSUME Granted \/ Faults
      PROVE  answer' = answer
  BY <1>1, Zenon DEF Granted, Faults, Fails, sends
<1>2. ASSUME NEW a, NEW max, Counted(a, max)
      PROVE  answer' = answer
  BY <1>2, Zenon DEF Counted, Fails, sends
<1>3. ASSUME NEW status, Answered(status)
      PROVE  answer' = answer
  BY <1>3, Zenon DEF Answered, Fails, sends
<1> QED BY <1>1, <1>2, <1>3, RelayExtends, Zenon DEF Task

LEMMA FinishExtends ==
  ASSUME answer \in Seq(Messages), Finish
  PROVE  answer' = answer \/ A!IsPrefix(answer, answer')
<1>1. <<>> \in Seq(Messages)
  OBVIOUS
<1>2. /\ <<"usage", "done">> \in Seq(Messages) /\ <<"ok", "json">> \in Seq(Messages)
      /\ ErrorMessages \in Seq(Messages)
  BY Typed, Zenon DEF ErrorMessages
<1>3. \/ TerminalMessages = ErrorMessages \/ TerminalMessages = <<"usage", "done">>
      \/ TerminalMessages = <<"ok", "json">> \/ TerminalMessages = <<>>
  BY DEF TerminalMessages, Code
<1>4. TerminalMessages \in Seq(Messages)
  BY <1>1, <1>2, <1>3, Zenon
<1>5. CASE SendTerminal
  BY <1>4, <1>5, HandlerExtends, Zenon DEF SendTerminal
<1>6. CASE TaskOver \/ GivenUp \/ Unwound
  BY <1>6, Zenon DEF TaskOver, GivenUp, Unwound, sends
<1> QED BY <1>5, <1>6, Zenon DEF Finish

LEMMA WaitingTyped ==
  ASSUME IInv, out # <<>>, ~gone
  PROVE  out \in Seq(Messages)
<1>1. at \in {"turned", "refusing", "terminal"} \/ task = "sending"
  BY DEF IInv, TypeOK
<1>2. \A status \in {"ok", "error"} : Waits(status) => out \in Seq(Messages)
  BY Typed, Zenon DEF Waits
<1>3. CASE at \in {"turned", "refusing"}
  BY <1>2, <1>3, Zenon DEF IInv, RefusingInv
<1>4. CASE at = "terminal"
  BY <1>2, <1>4, Typed, Zenon DEF IInv, TerminalInv, TerminalWaits
<1>5. CASE task = "sending"
  BY <1>5, Typed, Zenon DEF IInv, RelayInv, Begun, Finished
<1> QED BY <1>1, <1>3, <1>4, <1>5

LEMMA ReadsExtend ==
  ASSUME IInv, answer \in Seq(Messages), ClientReads
  PROVE  answer' = answer \/ A!IsPrefix(answer, answer')
<1>1. PICK n \in 1..Len(out) : Sends(out, n) /\ out # <<>>
  BY Zenon DEF ClientReads
<1>2. CASE gone
  BY <1>1, <1>2, Zenon DEF Sends
<1>3. CASE ~gone
  <2>1. out \in Seq(Messages) /\ n \in 0..Len(out)
    BY <1>1, <1>3, WaitingTyped
  <2> QED BY <1>1, <2>1, SendsExtend
<1> QED BY <1>2, <1>3

LEMMA AnswerGrows == IInv /\ IInv' /\ [Next]_vars => [A!Next]_answer
<1> SUFFICES ASSUME IInv, IInv', [Next]_vars
             PROVE  A!Next \/ answer' = answer
  BY Zenon
<1>1. answer \in Unfinished \cup Wholes /\ answer' \in Unfinished \cup Wholes
  BY Zenon DEF IInv, AnswerInv
<1>2. answer \in Seq(Messages)
  BY <1>1, AnswersTyped
<1>3. ASSUME WallTime \/ WatchClient \/ Drain \/ DrainDeadline \/ EngineChanges
      PROVE  answer' = answer
  BY <1>3, Zenon DEF WallTime, WatchClient, Drain, DrainDeadline, EngineChanges, Stop
<1>4. ASSUME PrepareS \/ Cancelled \/ Leaves \/ UNCHANGED vars
      PROVE  answer' = answer
  BY <1>4, Zenon DEF PrepareS, Cancelled, Leaves, vars, sends
<1>5. \/ Arrive \/ Prepare \/ PrepareS \/ Task
      \/ WallTime \/ WatchClient \/ Drain \/ DrainDeadline \/ EngineChanges
      \/ Finish \/ Cancelled \/ ClientReads \/ Leaves \/ UNCHANGED vars
  BY Zenon DEF Next
<1>6. answer' = answer \/ A!IsPrefix(answer, answer')
  BY <1>2, <1>3, <1>4, <1>5, ArriveExtends, PrepareExtends, TaskExtends, FinishExtends, ReadsExtend, Zenon
<1>7. \E a \in A!Answers : A!IsPrefix(answer', a)
  BY <1>1, OfAnAnswer, WholesAreAnswers, Zenon
<1> QED BY <1>6, <1>7, Zenon DEF A!Next

(* Whatever the engine sends and whenever the request is stopped, what the *)
(* client gets grows along an answer of the contract.                      *)
THEOREM RequestAnswersByTheContract == Spec => AnswersByTheContract
<1>1. Init => A!Init
  BY Zenon DEF Init, A!Init
<1> QED BY <1>1, RequestInvHolds, AnswerGrows, PTL DEF Spec, A!Spec, AnswersByTheContract

(* --------------------- the card and the gateway ------------------------ *)

(* The limits that a file may leave out are ones it could name.          *)
LEMMA Defaults ==
  /\ AtLeast(BodyLimit, 1) /\ AtLeast(PictureBodyLimit, 1) /\ AtLeast(UploadLimit, 1)
  /\ LastPort \in Nat /\ 0 <= LastPort
BY SMT DEF AtLeast, BodyLimit, PictureBodyLimit, UploadLimit, LastPort

(* The record of the gateway's file has the fields a file must have, and *)
(* some that it may have.                                                *)
FieldsOf(d, p, k) ==
  /\ HasFields(d, Required, Optional)
  /\ d.alias = p["MODEL_ALIAS"]
  /\ d.engine_url = EngineUrl(p)
  /\ d.listen = Listen(p)
  /\ d.keys = SightedKeys(p, k)
  /\ d.limits = Limits(p)
  /\ d.count_limits = [active |-> 8, per_outside_key |-> 2]
  /\ d.engine_priority = [reader |-> 0, agent |-> 1, internal |-> 2, external |-> 3]
  /\ d.drain_deadline_s = 60
  /\ Versions(d) = PinnedVersions(p)
  /\ Get(d, "context_tokens", {}) = {p["CONTEXT_TOKENS"]}
  /\ Get(d, "body_limit_bytes", BodyLimit) = BodyLimit
  /\ Get(d, "max_connections", 64) = 64
  /\ Get(d, "idle_timeout_s", 780) = 780
  /\ Get(d, "health_interval_s", 5) = 5
  /\ Get(d, "warm_up", FALSE) \in BOOLEAN

LEMMA FieldsOfTheFile ==
  ASSUME NEW p, NEW k
  PROVE  FieldsOf(Config(p, k), p, k)
BY DEF FieldsOf, HasFields, Config, Required, Optional, Versions, Get

(* The limits of the card are limits the gateway takes, the provisional  *)
(* ones and those of a measurement.                                      *)
LEMMA CardLimits ==
  ASSUME NEW p, Get(p, "GENERATIONS_AT_ONCE", 0) \in Nat
  PROVE  LimitsAccepted(Limits(p))
<1> DEFINE n == Get(p, "GENERATIONS_AT_ONCE", 0)
           Times(c) == Overlaid(ProvisionalLimits[c], [active |-> n])
           L == Limits(p)
<1>1. \A c \in Classes : L[c] = ProvisionalLimits[c] \/ (n # 0 /\ c # "external" /\ L[c] = Times(c))
  BY DEF Limits, Classes, ProvisionalLimits, Overlaid
<1>2. \A c \in Classes : ClassLimitsAccepted(ProvisionalLimits[c])
  BY DEF Classes, ProvisionalLimits, ClassLimitsAccepted, HasFields, AtLeast, Seconds, OptionalAtLeast, Get
<1>3. \A c \in Classes : n # 0 /\ c # "external" => ClassLimitsAccepted(Times(c))
  BY DEF Classes, ProvisionalLimits, ClassLimitsAccepted, HasFields, AtLeast, Seconds, OptionalAtLeast, Get, Overlaid
<1>4. /\ HasFields(L, Classes \cup {"external_per_key", "shared"}, {})
      /\ L.external_per_key = [active |-> 1, waiting |-> 2]
      /\ L.shared = [active |-> IF n = 0 THEN 4 ELSE n]
  BY SMTT(30) DEF Limits, Classes, ProvisionalLimits, HasFields, Overlaid
<1> HIDE DEF n, Times, L
<1>5. \A c \in Classes : ClassLimitsAccepted(L[c])
  BY <1>1, <1>2, <1>3
<1>6. n \in Nat
  BY DEF n
<1>7. LimitsAccepted(L)
  BY <1>4, <1>5, <1>6 DEF LimitsAccepted, HasFields, AtLeast
<1> QED BY <1>7 DEF L

(* Two keys, or three, whose digests and labels differ.                  *)
LEMMA TwoKeys ==
  ASSUME NEW a, NEW b, KeyAccepted(a), KeyAccepted(b), a.sha256 # b.sha256, a.label # b.label
  PROVE  KeysAccepted(<<a, b>>)
<1> DEFINE s == <<a, b>>
<1>1. DOMAIN s = {1, 2} /\ s[1] = a /\ s[2] = b /\ s # <<>>
  OBVIOUS
<1> HIDE DEF s
<1>2. KeysAccepted(s)
  BY <1>1 DEF KeysAccepted
<1> QED BY <1>2 DEF s

LEMMA ThreeKeys ==
  ASSUME NEW a, NEW b, NEW c, KeyAccepted(a), KeyAccepted(b), KeyAccepted(c),
         a.sha256 # b.sha256, a.sha256 # c.sha256, b.sha256 # c.sha256,
         a.label # b.label, a.label # c.label, b.label # c.label
  PROVE  KeysAccepted(<<a, b, c>>)
<1> DEFINE s == <<a, b, c>>
<1>1. DOMAIN s = {1, 2, 3} /\ s[1] = a /\ s[2] = b /\ s[3] = c /\ s # <<>>
  OBVIOUS
<1> HIDE DEF s
<1>2. KeysAccepted(s)
  BY <1>1 DEF KeysAccepted
<1> QED BY <1>2 DEF s

(* The keys of the card: each is one the gateway takes, and no two have a *)
(* digest or a label in common.                                           *)
LEMMA CardKeysFit ==
  ASSUME NEW k, CardKeysAccepted(k)
  PROVE  KeysAccepted(CardKeys(k))
<1>1. KeyAccepted(ClientKey(k)) /\ KeyAccepted(ControlKey(k))
  BY DEF KeyAccepted, ClientKey, ControlKey, HasFields, Get, Classes
<1>2. \A x : KeyAccepted(MetricsKey(x))
  BY DEF KeyAccepted, MetricsKey, HasFields, Get, Classes
<1>3. /\ ClientKey(k).sha256 = k.client /\ ControlKey(k).sha256 = k.control
      /\ ClientKey(k).label = "client" /\ ControlKey(k).label = "control"
      /\ \A x : MetricsKey(x).sha256 = x /\ MetricsKey(x).label = "metrics"
  BY DEF ClientKey, ControlKey, MetricsKey
<1>4. k.client # k.control
  BY DEF CardKeysAccepted
<1>5. CASE k.metrics = {}
  BY <1>1, <1>3, <1>4, <1>5, TwoKeys DEF CardKeys
<1>6. CASE k.metrics # {}
  <2> DEFINE x == CHOOSE x \in k.metrics : TRUE
  <2>1. x \in k.metrics
    BY <1>6
  <2>2. x # k.client /\ x # k.control
    BY <2>1 DEF CardKeysAccepted
  <2> HIDE DEF x
  <2>3. KeysAccepted(<<ClientKey(k), ControlKey(k), MetricsKey(x)>>)
    BY <1>1, <1>2, <1>3, <1>4, <2>2, ThreeKeys
  <2> QED BY <1>6, <2>3 DEF CardKeys, x
<1> QED BY <1>5, <1>6

(* No key of a card is an outside one, or may send pictures by itself.   *)
LEMMA CardKeysOurs ==
  ASSUME NEW k
  PROVE  \A i \in DOMAIN CardKeys(k) :
            ~Get(CardKeys(k)[i], "vision", FALSE) /\ "external" \notin CardKeys(k)[i].classes
<1> DEFINE s == CardKeys(k)
           Ours(e) == ~Get(e, "vision", FALSE) /\ "external" \notin e.classes
<1>1. Ours(ClientKey(k)) /\ Ours(ControlKey(k))
  BY DEF ClientKey, ControlKey, Get
<1>2. \A x : Ours(MetricsKey(x))
  BY DEF MetricsKey, Get
<1> SUFFICES \A i \in DOMAIN s : Ours(s[i])
  OBVIOUS
<1> HIDE DEF Ours
<1>3. CASE k.metrics = {}
  <2> DEFINE t == <<ClientKey(k), ControlKey(k)>>
  <2>1. DOMAIN t = {1, 2} /\ t[1] = ClientKey(k) /\ t[2] = ControlKey(k)
    OBVIOUS
  <2>2. s = t
    BY <1>3 DEF CardKeys
  <2> HIDE DEF s, t
  <2> QED BY <1>1, <2>1, <2>2
<1>4. CASE k.metrics # {}
  <2> DEFINE y == MetricsKey(CHOOSE x \in k.metrics : TRUE)
             t == <<ClientKey(k), ControlKey(k), y>>
  <2>1. Ours(y)
    BY <1>2
  <2>2. s = t
    BY <1>4 DEF CardKeys
  <2> HIDE DEF y, s
  <2>3. DOMAIN t = {1, 2, 3} /\ t[1] = ClientKey(k) /\ t[2] = ControlKey(k) /\ t[3] = y
    OBVIOUS
  <2> HIDE DEF t
  <2> QED BY <1>1, <2>1, <2>2, <2>3
<1> QED BY <1>3, <1>4

(* The client's key with the right to send a picture is a key like it.   *)
LEMMA SightedKeysFit ==
  ASSUME NEW k, NEW p, CardKeysAccepted(k)
  PROVE  /\ KeysAccepted(SightedKeys(p, k))
         /\ \A i \in DOMAIN SightedKeys(p, k) :
                Get(SightedKeys(p, k)[i], "vision", FALSE) => p["VISION"] # 0
<1> DEFINE s == CardKeys(k)
           a == Overlaid(ClientKey(k), [vision |-> TRUE])
<1>1. KeysAccepted(s)
  BY CardKeysFit
<1>2. s[1] = ClientKey(k) /\ 1 \in DOMAIN s
  BY DEF CardKeys
<1>3. \A i \in DOMAIN s : ~Get(s[i], "vision", FALSE)
  BY CardKeysOurs
<1>4. KeyAccepted(a) /\ a.sha256 = ClientKey(k).sha256 /\ a.label = ClientKey(k).label
  BY DEF ClientKey, Overlaid, KeyAccepted, HasFields, Get, Classes
<1> HIDE DEF s, a
<1>5. CASE p["VISION"] = 0
  BY <1>1, <1>3, <1>5 DEF SightedKeys, s
<1>6. CASE p["VISION"] # 0
  <2> DEFINE t == [s EXCEPT ![1] = a]
  <2>1. /\ DOMAIN t = DOMAIN s /\ t[1] = a
        /\ \A i \in DOMAIN s : t[i] = IF i = 1 THEN a ELSE s[i]
    BY <1>2
  <2>2. t # <<>>
    BY <2>1, <1>2
  <2> HIDE DEF t
  <2>3. KeysAccepted(t)
    BY <1>1, <1>2, <1>4, <2>1, <2>2 DEF KeysAccepted
  <2> QED BY <1>6, <2>3 DEF SightedKeys, s, a, t
<1> QED BY <1>5, <1>6

(* What the launcher writes among the versions the gateway takes: the count *)
(* is one above 0, and the lifted refusal stands beside it.                 *)
LEMMA PinnedVersionsFit ==
  ASSUME NEW p, Count(p, "MTP_SPECULATIVE_TOKENS")
  PROVE  /\ VersionsAccepted(PinnedVersions(p))
         /\ "mtp_speculative_tokens" \in DOMAIN PinnedVersions(p) <=> Drafts(p)
         /\ "min_p_while_drafting" \in DOMAIN PinnedVersions(p) <=> DraftsAndFilters(p)
         /\ "thinking_budget" \in DOMAIN PinnedVersions(p) <=> p["THINKING_BUDGET"] # 0
         /\ "vision" \in DOMAIN PinnedVersions(p) <=> p["VISION"] # 0
BY DEF PinnedVersions, PinnedNames, Count, Drafts, DraftsAndFilters, VersionsAccepted, AtLeast

(* Both listeners are on the machine's own address.                      *)
LEMMA ListenFits ==
  ASSUME NEW p, p["PUBLIC_PORT"] \in 0..LastPort, p["CONTROL_PORT"] \in 0..LastPort
  PROVE  ListenAccepted(Listen(p))
<1> DEFINE l == Listen(p)
<1>1. /\ HasFields(l, {"public", "control"}, {})
      /\ l.public = [host |-> "127.0.0.1", port |-> p["PUBLIC_PORT"]]
      /\ l.control = [host |-> "127.0.0.1", port |-> p["CONTROL_PORT"]]
  BY DEF Listen, HasFields
<1>2. \A n \in 0..LastPort : ListenerAccepted([host |-> "127.0.0.1", port |-> n])
  BY Defaults DEF ListenerAccepted, HasFields, AtLeast
<1> HIDE DEF l
<1>3. ListenAccepted(l)
  BY <1>1, <1>2 DEF ListenAccepted, IsLoopback
<1> QED BY <1>3 DEF l

(* The gateway starts with the file that the launcher writes (Card.config, *)
(* _config): no prepared manifest leads to a configuration it refuses, as  *)
(* long as the alias, the context and the ports are ones.                  *)
THEOREM CardConfigAccepted ==
  ASSUME NEW m, NEW k, Prepared(m), WellFormed(Profiled(m)), CardKeysAccepted(k)
  PROVE  Accepted(Config(Profiled(m), k))
<1> DEFINE p == Profiled(m)
           d == Config(p, k)
<1>1. /\ Count(p, "MTP_SPECULATIVE_TOKENS") /\ Get(p, "GENERATIONS_AT_ONCE", 0) \in Nat
  BY DEF Prepared, Preparable
<1>2. WellFormed(p)
  OBVIOUS
<1>3. FieldsOf(d, p, k)
  BY FieldsOfTheFile
<1> HIDE DEF p, d
<1>4. KeysAccepted(d.keys) /\ LimitsAccepted(d.limits)
  <2>1. d.keys = SightedKeys(p, k) /\ d.limits = Limits(p)
    BY <1>3 DEF FieldsOf
  <2>2. KeysAccepted(SightedKeys(p, k))
    BY SightedKeysFit
  <2>3. LimitsAccepted(Limits(p))
    BY <1>1, CardLimits
  <2> QED BY <2>1, <2>2, <2>3
<1>5. CountLimitsAccepted(d.count_limits) /\ PriorityAccepted(d.engine_priority)
  BY <1>3 DEF FieldsOf, CountLimitsAccepted, PriorityAccepted, HasFields, AtLeast, Classes
<1>6. d.engine_url = EngineUrl(p) /\ d.listen = Listen(p)
  BY <1>3 DEF FieldsOf
<1>7. EngineUrlAccepted(d.engine_url)
  BY <1>6 DEF EngineUrl, EngineUrlAccepted, IsLoopback
<1>8. ListenAccepted(d.listen)
  BY <1>2, <1>6, ListenFits DEF WellFormed
<1>9. Versions(d) = PinnedVersions(p) /\ d.keys = SightedKeys(p, k)
  BY <1>3 DEF FieldsOf
<1>10. VersionsAccepted(Versions(d))
  BY <1>1, <1>9, PinnedVersionsFit
<1>11. (\E i \in DOMAIN d.keys : Get(d.keys[i], "vision", FALSE)) => "vision" \in DOMAIN Versions(d)
  BY <1>1, <1>9, PinnedVersionsFit, SightedKeysFit
<1>12. d.alias # "" /\ OptionalAtLeast(Get(d, "context_tokens", {}), 1)
  BY <1>2, <1>3, ZenonT(30) DEF FieldsOf, WellFormed, OptionalAtLeast
<1>13. /\ AtLeast(Get(d, "body_limit_bytes", BodyLimit), 1) /\ AtLeast(Get(d, "max_connections", 64), 1)
       /\ Seconds(d.drain_deadline_s) /\ Seconds(Get(d, "idle_timeout_s", 780))
       /\ Seconds(Get(d, "health_interval_s", 5))
  BY <1>3, Defaults DEF FieldsOf, AtLeast, Seconds
<1>14. HasFields(d, Required, Optional) /\ Get(d, "warm_up", FALSE) \in BOOLEAN
  BY <1>3 DEF FieldsOf
<1>15. Accepted(d)
  BY <1>4, <1>5, <1>7, <1>8, <1>10, <1>11, <1>12, <1>13, <1>14 DEF Accepted
<1> QED BY <1>15 DEF d, p

(* What the gateway lets a request ask for is what vLLM has been started with *)
(* (Card.engine, pinned_versions): pictures, a budget of thinking whose       *)
(* markers are the parser's, and a min_p while it drafts, for which the V2    *)
(* runner is fixed and the refusal lifted.  And the gateway refuses a min_p   *)
(* exactly while vLLM would.                                                  *)
THEOREM PermittedIsServed ==
  ASSUME NEW m, NEW k, Prepared(m), WellFormed(Profiled(m))
  PROVE  LET c == ConfigOf(Config(Profiled(m), k))
             e == Engine(Profiled(m), Profile(m))
         IN /\ c.alias = e.alias /\ c.context_tokens = {e.context}
            /\ c.engine_url.host = e.host /\ c.engine_url.port = e.port
            /\ c.vision <=> e.images = 1
            /\ c.thinking_budget => e.markers = e.parser
            /\ c.speculative <=> e.drafted > 0
            /\ c.min_p_while_drafting => e.runner = "v2"
            /\ c.speculative /\ ~c.min_p_while_drafting <=> e.drafted > 0 /\ ~Lifted(Profiled(m))
<1> DEFINE p == Profiled(m)
           f == Profile(m)
           d == Config(p, k)
           c == ConfigOf(d)
           e == Engine(p, f)
<1>1. /\ Count(p, "MTP_SPECULATIVE_TOKENS") /\ f \in Profiles \cup {"gemma"}
      /\ f = "gemma" \/ p["VISION"] = 0
      /\ p["VISION"] \in {0, 1} /\ p["THINKING_BUDGET"] \in {0, 1} /\ p["MIN_P_WHILE_DRAFTING"] \in {0, 1}
  BY DEF Prepared, Preparable, Switch
<1> HIDE DEF p, f
<1>2. /\ c.alias = d.alias /\ c.engine_url = d.engine_url
      /\ c.context_tokens = Get(d, "context_tokens", {})
      /\ c.speculative = ("mtp_speculative_tokens" \in DOMAIN Versions(d))
      /\ c.min_p_while_drafting = ("min_p_while_drafting" \in DOMAIN Versions(d))
      /\ c.thinking_budget = ("thinking_budget" \in DOMAIN Versions(d))
      /\ c.vision = ("vision" \in DOMAIN Versions(d))
  BY DEF ConfigOf
<1> HIDE DEF c
<1>3. FieldsOf(d, p, k)
  BY FieldsOfTheFile
<1> HIDE DEF d
<1>4. /\ d.alias = p["MODEL_ALIAS"] /\ d.engine_url = EngineUrl(p) /\ Versions(d) = PinnedVersions(p)
      /\ Get(d, "context_tokens", {}) = {p["CONTEXT_TOKENS"]}
  BY <1>3 DEF FieldsOf
<1>5. /\ "mtp_speculative_tokens" \in DOMAIN PinnedVersions(p) <=> Drafts(p)
      /\ "min_p_while_drafting" \in DOMAIN PinnedVersions(p) <=> DraftsAndFilters(p)
      /\ "thinking_budget" \in DOMAIN PinnedVersions(p) <=> p["THINKING_BUDGET"] # 0
      /\ "vision" \in DOMAIN PinnedVersions(p) <=> p["VISION"] # 0
  BY <1>1, PinnedVersionsFit
<1>6. /\ c.alias = p["MODEL_ALIAS"] /\ c.context_tokens = {p["CONTEXT_TOKENS"]} /\ c.engine_url = EngineUrl(p)
      /\ c.speculative <=> Drafts(p)
      /\ c.min_p_while_drafting <=> DraftsAndFilters(p)
      /\ c.thinking_budget <=> p["THINKING_BUDGET"] # 0
      /\ c.vision <=> p["VISION"] # 0
  BY <1>2, <1>4, <1>5
<1>7. /\ e.alias = p["MODEL_ALIAS"] /\ e.context = p["CONTEXT_TOKENS"]
      /\ e.host = EngineUrl(p).host /\ e.port = EngineUrl(p).port
      /\ e.images = Images(p, f) /\ e.drafted = p["MTP_SPECULATIVE_TOKENS"]
      /\ e.runner = IF DraftsAndFilters(p) THEN "v2" ELSE "any"
      /\ e.parser = IF f = "qwen" THEN "qwen3" ELSE "gemma4"
      /\ p["THINKING_BUDGET"] # 0 => e.markers = e.parser
  BY DEF Engine, EngineUrl
<1> HIDE DEF e
<1>8. c.vision <=> e.images = 1
  BY <1>1, <1>6, <1>7 DEF Images, Profiles
<1>9. c.speculative <=> e.drafted > 0
  BY <1>1, <1>6, <1>7 DEF Drafts, Count
<1>10. c.speculative /\ ~c.min_p_while_drafting <=> e.drafted > 0 /\ ~Lifted(p)
  BY <1>1, <1>6, <1>9 DEF DraftsAndFilters, Lifted
<1>11. /\ c.alias = e.alias /\ c.context_tokens = {e.context}
       /\ c.engine_url.host = e.host /\ c.engine_url.port = e.port
       /\ c.thinking_budget => e.markers = e.parser
       /\ c.min_p_while_drafting => e.runner = "v2"
  BY <1>6, <1>7
<1> QED BY <1>8, <1>9, <1>10, <1>11 DEF c, d, e, p, f

(* The copied image-manifest.env names the two versions.                 *)
PinsGiven(pins) == pins["COMFYUI_VERSION"] # "" /\ pins["TORCH_CU130_VERSION"] # ""

(* The picture gateway starts with the file that its launcher writes     *)
(* (PictureCard.config): no outside key and no right to send pictures.   *)
THEOREM PictureConfigAccepted ==
  ASSUME NEW p, NEW pins, NEW k, PicturePrepared(p), PictureWellFormed(p), CardKeysAccepted(k),
         PinsGiven(pins)
  PROVE  PictureAccepted(PictureConfig(p, pins, k))
<1> DEFINE d == PictureConfig(p, pins, k)
<1>1. /\ HasFields(d, PictureRequired, PictureOptional)
      /\ d.lane = "pictures" /\ d.alias = p["MODEL_ALIAS"] /\ d.keys = CardKeys(k)
      /\ d.engine_url = EngineUrl(p) /\ d.listen = Listen(p) /\ d.limits = PictureLimitsOf
      /\ d.reader_nodes = p["READER_NODES"] /\ d.drain_deadline_s = 60
  BY DEF PictureConfig, HasFields, PictureRequired, PictureOptional
<1>2. d.expect = [comfyui |-> pins["COMFYUI_VERSION"], pytorch |-> pins["TORCH_CU130_VERSION"],
                  triton |-> p["IMAGE_TRITON"] = 1]
  BY DEF PictureConfig
<1>3. /\ Get(d, "max_connections", 64) = 64 /\ Get(d, "body_limit_bytes", PictureBodyLimit) = PictureBodyLimit
      /\ Get(d, "upload_limit_bytes", UploadLimit) = UploadLimit /\ Get(d, "max_nodes", 64) = 64
      /\ Get(d, "idle_timeout_s", 780) = 780 /\ Get(d, "health_interval_s", 5) = 5
  BY DEF PictureConfig, Get
<1> HIDE DEF d
<1>4. KeysAccepted(d.keys)
  BY <1>1, CardKeysFit
<1>5. \A i \in DOMAIN d.keys : ~Get(d.keys[i], "vision", FALSE) /\ "external" \notin d.keys[i].classes
  BY <1>1, CardKeysOurs
<1>6. PictureLimitsAccepted(d.limits)
  <2> DEFINE L == PictureLimitsOf
  <2>1. /\ HasFields(L, Classes, {})
        /\ L["reader"] = [jobs |-> 32, wall_s |-> 1860, uploads |-> 32]
        /\ L["agent"] = [jobs |-> 4, wall_s |-> 1860, uploads |-> 16]
        /\ L["internal"] = [jobs |-> 32, wall_s |-> 3600, uploads |-> 32]
        /\ L["external"] = [jobs |-> 0, wall_s |-> 60, uploads |-> 0]
    BY DEF PictureLimitsOf, HasFields, Classes
  <2> HIDE DEF L
  <2>2. \A j, w, u \in Nat : LET l == [jobs |-> j, wall_s |-> w, uploads |-> u]
        IN w > 0 => /\ HasFields(l, {"jobs", "wall_s", "uploads"}, {})
                    /\ AtLeast(l.jobs, 0) /\ Seconds(l.wall_s) /\ AtLeast(l.uploads, 0)
    BY DEF HasFields, AtLeast, Seconds
  <2>3. PictureLimitsAccepted(L)
    BY <2>1, <2>2, SMTT(30) DEF PictureLimitsAccepted, Classes
  <2> QED BY <1>1, <2>3 DEF L
<1>7. ListenAccepted(d.listen)
  BY <1>1, ListenFits DEF PictureWellFormed
<1>8. EngineUrlAccepted(d.engine_url)
  <2>1. EngineUrlAccepted(EngineUrl(p))
    BY DEF EngineUrl, EngineUrlAccepted, IsLoopback
  <2> QED BY <1>1, <2>1
<1>9. ExpectAccepted(d.expect)
  <2>1. \A c, y : \A t \in BOOLEAN :
           c # "" /\ y # "" => ExpectAccepted([comfyui |-> c, pytorch |-> y, triton |-> t])
    BY DEF ExpectAccepted, HasFields
  <2>2. (p["IMAGE_TRITON"] = 1) \in BOOLEAN
    OBVIOUS
  <2>3. pins["COMFYUI_VERSION"] # "" /\ pins["TORCH_CU130_VERSION"] # ""
    BY DEF PinsGiven
  <2> QED BY <1>2, <2>1, <2>2, <2>3, ZenonT(30)
<1>10. d.reader_nodes # {} /\ d.alias # ""
  BY <1>1 DEF PicturePrepared
<1>11. /\ Seconds(d.drain_deadline_s) /\ Seconds(Get(d, "idle_timeout_s", 780))
       /\ Seconds(Get(d, "health_interval_s", 5))
       /\ AtLeast(Get(d, "max_connections", 64), 1) /\ AtLeast(Get(d, "max_nodes", 64), 1)
       /\ AtLeast(Get(d, "body_limit_bytes", PictureBodyLimit), 1)
       /\ AtLeast(Get(d, "upload_limit_bytes", UploadLimit), 1)
  <2>1. d.drain_deadline_s = 60
    BY <1>1
  <2>2. Seconds(60) /\ Seconds(780) /\ Seconds(5)
    BY DEF Seconds
  <2>3. AtLeast(64, 1)
    BY DEF AtLeast
  <2> QED BY <1>3, <2>1, <2>2, <2>3, Defaults
<1>12. PictureAccepted(d)
  BY <1>1, <1>4, <1>5, <1>6, <1>7, <1>8, <1>9, <1>10, <1>11 DEF PictureAccepted
<1> QED BY <1>12 DEF d

(* ------------------------ the planned offers --------------------------- *)

(* A number that is known.                                               *)
KnownNumber(found) == \E n \in Int : found = {n}

LEMMA LeastOfTwo ==
  ASSUME NEW a \in Int, NEW b \in Int
  PROVE  Least({a, b}) = IF a <= b THEN a ELSE b
<1>1. \E m \in {a, b} : \A k \in {a, b} : m <= k
  BY SMT
<1>2. /\ Least({a, b}) \in {a, b}
      /\ Least({a, b}) <= a /\ Least({a, b}) <= b
  BY <1>1 DEF Least
<1> QED BY <1>2, SMT

(* report tells the largest copy that check and the launcher take: every *)
(* size up to it fits, and none above.                                   *)
THEOREM LargestCopyFits ==
  ASSUME NEW gib \in Nat \ {0}, NEW shm \in SUBSET Int, NEW memory \in SUBSET Int,
         shm = {} \/ KnownNumber(shm), memory = {} \/ KnownNumber(memory)
  PROVE  offload_reasons(gib, shm, memory, FALSE) = {} <=> gib <= largest_offload_gib(shm, memory)
<1>1. CASE shm = {} \/ memory = {}
  <2>1. offload_reasons(gib, shm, memory, FALSE) # {}
    <3>1. CASE shm = {}
      <4>1. "shm_too_small" \in offload_reasons(gib, shm, memory, FALSE)
        BY <3>1 DEF offload_reasons, AtLeastKnown
      <4> QED BY <4>1
    <3>2. CASE memory = {}
      <4>1. "memory_too_small" \in offload_reasons(gib, shm, memory, FALSE)
        BY <3>2 DEF offload_reasons, AtLeastKnown
      <4> QED BY <4>1
    <3> QED BY <1>1, <3>1, <3>2
  <2>2. largest_offload_gib(shm, memory) = 0
    BY <1>1 DEF largest_offload_gib
  <2>3. ~(gib <= 0)
    OBVIOUS
  <2> QED BY <2>1, <2>2, <2>3
<1>2. ASSUME NEW s \in Int, NEW m \in Int, shm = {s}, memory = {m}
      PROVE  offload_reasons(gib, shm, memory, FALSE) = {} <=> gib <= largest_offload_gib(shm, memory)
  <2> DEFINE a == s - SHM_MARGIN_MIB
             b == m - ENGINE_RESERVE_MIB
  <2>1. a \in Int /\ b \in Int
    BY DEF SHM_MARGIN_MIB, ENGINE_RESERVE_MIB
  <2>2. offload_reasons(gib, shm, memory, FALSE) = {} <=> gib * 1024 <= a /\ gib * 1024 <= b
    <3>1. /\ AtLeastKnown(shm, gib * 1024 + SHM_MARGIN_MIB) <=> gib * 1024 <= a
          /\ AtLeastKnown(memory, gib * 1024 + ENGINE_RESERVE_MIB) <=> gib * 1024 <= b
      BY <1>2, SMT DEF AtLeastKnown, SHM_MARGIN_MIB, ENGINE_RESERVE_MIB
    <3>2. /\ "shm_too_small" \in offload_reasons(gib, shm, memory, FALSE) <=> ~(gib * 1024 <= a)
          /\ "memory_too_small" \in offload_reasons(gib, shm, memory, FALSE) <=> ~(gib * 1024 <= b)
      <4> HIDE DEF a, b
      <4> QED BY <3>1 DEF offload_reasons
    <3>3. offload_reasons(gib, shm, memory, FALSE) \subseteq {"shm_too_small", "memory_too_small"}
      BY DEF offload_reasons
    <3> DEFINE reasons == offload_reasons(gib, shm, memory, FALSE)
               A1 == gib * 1024 <= a
               B1 == gib * 1024 <= b
    <3>4. /\ "shm_too_small" \in reasons <=> ~A1
          /\ "memory_too_small" \in reasons <=> ~B1
          /\ reasons \subseteq {"shm_too_small", "memory_too_small"}
      BY <3>2, <3>3, Zenon
    <3> HIDE DEF reasons, A1, B1
    <3>5. reasons = {} <=> A1 /\ B1
      BY <3>4
    <3> QED BY <3>5, Zenon DEF reasons, A1, B1
  <2>3. largest_offload_gib(shm, memory) = OrZero((IF a <= b THEN a ELSE b) \div 1024)
    <3> DEFINE room == {n - SHM_MARGIN_MIB : n \in shm} \cup {n - ENGINE_RESERVE_MIB : n \in memory}
    <3>1. room = {a, b}
      BY <1>2
    <3>2. Least(room) = IF a <= b THEN a ELSE b
      BY <2>1, <3>1, LeastOfTwo
    <3>3. largest_offload_gib(shm, memory) = OrZero(Least(room) \div 1024)
      BY <1>2 DEF largest_offload_gib
    <3> QED BY <3>2, <3>3
  <2> DEFINE d == IF a <= b THEN a ELSE b
  <2>4. d \in Int /\ (gib * 1024 <= d <=> gib * 1024 <= a /\ gib * 1024 <= b)
    BY <2>1
  <2>5. largest_offload_gib(shm, memory) = OrZero(d \div 1024)
    BY <2>3
  <2> HIDE DEF a, b, d
  <2>6. gib * 1024 <= d <=> gib <= OrZero(d \div 1024)
    BY <2>4, SMT DEF OrZero
  <2>7. (gib * 1024 <= a /\ gib * 1024 <= b) <=> gib <= largest_offload_gib(shm, memory)
    BY <2>4, <2>5, <2>6
  <2> QED BY <2>2, <2>7, ZenonT(30)
<1> QED BY <1>1, <1>2 DEF KnownNumber

(* Whoever rents what plan asks for, RAM as Vast counts it and no lower   *)
(* limit on the container, gets a card on which the launcher takes the    *)
(* copy.                                                                  *)
THEOREM PlannedOfferFits ==
  ASSUME PreflightAssumption, NEW gib \in Nat, NEW ram \in Nat, NEW shm \in Nat, NEW c,
         ram >= offer_needs(gib).min_ram_gb, shm >= offer_needs(gib).min_shm_mib,
         c.shm = {shm}, c.total = {ram * GB}, ~c.v2.read, ~c.v1.read, ~c.expandable
  PROVE  offload_unfit(gib, c) = {}
<1> DEFINE need == gib * 1024 + ENGINE_RESERVE_MIB
<1>1. need \in Nat /\ need * MIB \in Nat /\ GB \in Nat \ {0} /\ MIB \in Nat \ {0} /\ ram * GB \in Nat
  BY PreflightAssumption, SMT DEF ENGINE_RESERVE_MIB, PreflightAssumption
<1>2. ram >= CeilDiv(need * MIB, GB)
  BY DEF offer_needs
<1> HIDE DEF need
<1>3. ram * GB >= need * MIB
  <2> DEFINE x == need * MIB
             q == (x + GB - 1) \div GB
  <2>1. x \in Nat
    BY <1>1
  <2>2. ram >= q
    BY <1>2 DEF CeilDiv
  <2> HIDE DEF x
  <2>3. q \in Int /\ q * GB >= x
    BY <1>1, <2>1, SMT
  <2> HIDE DEF q
  <2>4. ram * GB >= q * GB
    BY <1>1, <2>2, <2>3, SMT
  <2>5. ram * GB >= x
    BY <1>1, <2>1, <2>3, <2>4, SMT
  <2> QED BY <2>5 DEF x
<1>4. (ram * GB) \div MIB >= need
  <2> DEFINE y == ram * GB
  <2>1. y \in Nat /\ y >= need * MIB
    BY <1>1, <1>3
  <2> HIDE DEF y
  <2>2. y \div MIB >= need
    BY <1>1, <2>1, SMT
  <2> QED BY <2>2 DEF y
<1>5. measured(c).memory = {(ram * GB) \div MIB} /\ measured(c).shm = {shm}
  <2>1. Least({ram * GB}) = ram * GB
    BY <1>1 DEF Least
  <2> QED BY <2>1 DEF measured, memory_limit_mib
<1>6. AtLeastKnown(measured(c).memory, need)
  BY <1>4, <1>5 DEF AtLeastKnown
<1>7. AtLeastKnown(measured(c).shm, gib * 1024 + SHM_MARGIN_MIB)
  BY <1>5 DEF AtLeastKnown, offer_needs
<1> QED BY <1>6, <1>7 DEF offload_unfit, offload_reasons, need
=============================================================================
