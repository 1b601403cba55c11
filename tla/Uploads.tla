------------------------------ MODULE Uploads ------------------------------
(***************************************************************************)
(* A reader's references on the picture card                               *)
(* (src/simple_serving/pictures/uploads.py, and the routes that call it):  *)
(* names that a scope owns for ten minutes, whose bytes are in ComfyUI's   *)
(* folder, sent and erased by requests that take turns under the lock of a *)
(* name, and looked over by a sweep.                                       *)
(*                                                                         *)
(* A PUT is a handler and a task that sends; a PUT that is not kept goes   *)
(* on as an erasure in the background.  A name that is over its ten        *)
(* minutes may be claimed anew: that makes a new Upload with a lock of its *)
(* own, and the requests that still hold the old one find it reclaimed.    *)
(*                                                                         *)
(* ComfyUI is external: a request to it ends (it has a timeout), a failed  *)
(* one may have written its bytes or not, and writes nothing later.        *)
(***************************************************************************)
EXTENDS Naturals, Sequences, FiniteSets

CONSTANTS
  Name,           \* names of uploads; also the sweep's looks, one for each
  Put, Del,       \* PUT and DELETE requests, each again and again
  Scope, NoScope,
  Cap,            \* uploads live per scope
  Blank,          \* the picture that an erasure writes; else the bytes of a PUT
  CanShutDown     \* whether handlers may be cancelled, as by uvicorn's shutdown

Op == Put \cup Del \cup Name

ASSUME UploadsAssumption ==
  /\ IsFiniteSet(Name)
  /\ NoScope \notin Scope /\ Blank \notin Put
  /\ Put \cap Del = {} /\ (Put \cup Del) \cap Name = {}
  /\ Cap \in [Scope -> Nat]
  /\ CanShutDown \in BOOLEAN

VARIABLES
  entry,     \* the scope that owns a name in _uploads
  state,     \* Upload.state
  over,      \* its ten minutes are over
  last,      \* the PUT that last claimed the name
  answered,  \* history: that PUT was kept
  fresh,     \* the sends whose task has yet to run: the event loop's order
  line,      \* the requests at the name's lock, its holder first
  name,      \* the name a request is about
  holds,     \* "current", or the Upload has a "newer" PUT or is "reclaimed"
  doing,     \* "send" or "erase"
  stage,     \* where a send or an erasure is
  handler,   \* where a PUT's handler is
  cut,       \* it was cancelled
  shut,
  file,      \* what is in ComfyUI's folder
  lost       \* history: how a name with bytes in the folder was forgotten

names == <<entry, state, over, last, answered>>
tasks == <<fresh, line, name, holds, doing, stage>>
vars  == <<names, tasks, handler, cut, shut, file, lost>>

Stage   == {"none", "new", "line", "busy", "sent", "failed", "todo"}
Handler == {"none", "sending", "answering", "settling", "keeping", "background"}

-----------------------------------------------------------------------------
Init ==
  /\ entry = [n \in Name |-> NoScope] /\ state = [n \in Name |-> "none"]
  /\ over = [n \in Name |-> FALSE]
  /\ last \in [Name -> Put] /\ answered = [n \in Name |-> FALSE]
  /\ fresh = <<>> /\ line = [n \in Name |-> <<>>]
  /\ name \in [Op -> Name] /\ \A n \in Name : name[n] = n
  /\ holds = [o \in Op |-> "current"]
  /\ doing = [o \in Op |-> "erase"]
  /\ stage = [o \in Op |-> "none"]
  /\ handler = [p \in Put |-> "none"] /\ cut = [p \in Put |-> FALSE] /\ shut = FALSE
  /\ file = [n \in Name |-> Blank]
  /\ lost = [n \in Name |-> "no"]

Known(n)  == entry[n] # NoScope

(* upload.lock.locked(): not while a waiter is woken and has yet to run  *)
Locked(n) == line[n] # <<>> /\ stage[Head(line[n])] = "busy"

Running(o) == stage[o] \in {"new", "line", "busy", "todo"}

UnderWay(o) == Running(o) \/ (o \in Put /\ handler[o] # "none")

(* A PUT of which nothing is left.                                       *)
Idle(p) == ~UnderWay(p)

(* Who holds n's present Upload finds it with a newer PUT, or reclaimed. *)
Superseded(n, how) ==
  [o \in Op |-> IF name[o] = n /\ UnderWay(o) /\ holds[o] # "reclaimed" THEN how ELSE holds[o]]

-----------------------------------------------------------------------------
(* The lock.                                                             *)

(* Fault: an erasure does not look for a newer PUT.                       *)
Passes_NewerErased(o, held) ==
  IF doing'[o] = "send"
  THEN held = "reclaimed"
  ELSE \/ held = "reclaimed"
       \/ o \in Name /\ ~over[o]
       \/ state[name'[o]] = "erased"

(* A request that has the lock returns without a request to ComfyUI: the  *)
(* name was reclaimed before a send, or there is nothing for it to erase. *)
Passes(o, held) ==
  IF doing'[o] = "send"
  THEN held = "reclaimed"
  ELSE \/ held # "current"
       \/ o \in Name /\ ~over[o]
       \/ state[name'[o]] = "erased"

(* What becomes of a send or an erasure that returns.                    *)
Returns(o, well) == IF doing'[o] # "send" THEN "none" ELSE IF well THEN "sent" ELSE "failed"

(* Fault: it waits for a holder that works, but takes the lock ahead of   *)
(* a waiter that is woken.                                                *)
Reach_Barges(o, held) ==
  LET n == name'[o] IN
  IF Locked(n) /\ held # "reclaimed"
  THEN /\ stage' = [stage EXCEPT ![o] = "line"]
       /\ line' = [line EXCEPT ![n] = Append(@, o)]
  ELSE IF Passes(o, held)
  THEN stage' = [stage EXCEPT ![o] = Returns(o, FALSE)] /\ UNCHANGED line
  ELSE /\ stage' = [stage EXCEPT ![o] = "busy"]
       /\ line' = [line EXCEPT ![n] = <<o>> \o @]

(* It comes to the lock: it gets it, or waits for its turn.              *)
Reach(o, held) ==
  LET n == name'[o] IN
  IF line[n] # <<>> /\ held # "reclaimed"
  THEN /\ stage' = [stage EXCEPT ![o] = "line"]
       /\ line' = [line EXCEPT ![n] = Append(@, o)]
  ELSE IF Passes(o, held)
  THEN stage' = [stage EXCEPT ![o] = Returns(o, FALSE)] /\ UNCHANGED line
  ELSE /\ stage' = [stage EXCEPT ![o] = "busy"]
       /\ line' = [line EXCEPT ![n] = <<o>>]

(* Fault: a name that its client has erased is passed over.               *)
Forgets_Unerased(o) == o \in Name /\ holds[o] = "current" /\ over[o] /\ state[name[o]] # "erased"

(* sweep, after the erasure: the name is forgotten, erased or not, unless *)
(* it was sent or renewed meanwhile.                                      *)
Forgets(o) == o \in Name /\ holds[o] = "current" /\ over[o]

(* It leaves the lock, whose holder it is if its Upload is not reclaimed. *)
(* With an Upload that is forgotten goes its lock.                        *)
Leaves(o) ==
  line' = [line EXCEPT ![name[o]] =
             IF Forgets(o) THEN <<>> ELSE IF holds[o] = "reclaimed" THEN @ ELSE Tail(@)]

(* The erasure in the background of a PUT ends with it.                  *)
HandlerEnds(o) ==
  handler' = [p \in Put |-> IF p = o /\ doing[p] = "erase" THEN "none" ELSE handler[p]]

Gone(n, how) ==
  /\ entry' = [entry EXCEPT ![n] = NoScope]
  /\ over' = [over EXCEPT ![n] = FALSE]
  /\ holds' = Superseded(n, "reclaimed")
  /\ lost' = [lost EXCEPT ![n] = IF file'[n] # Blank THEN how ELSE @]

(* The end of an erasure or a send.  A name that is not forgotten has its *)
(* state become `to`.                                                     *)
SweptOrNot(o, to) ==
  IF Forgets(o)
  THEN Gone(o, "unerased") /\ state' = [state EXCEPT ![o] = "none"]
  ELSE UNCHANGED <<entry, over, holds, lost>> /\ state' = [state EXCEPT ![name[o]] = to]

-----------------------------------------------------------------------------
(* PUT (routes.put_upload, Uploads.put and _send).                       *)

Live(s) == {n \in Name : entry[n] = s /\ state[n] # "erased" /\ ~over[n]}

(* The name is over its ten minutes and nobody works on it: whoever asks *)
(* may have it.                                                          *)
Reclaims(n) == Known(n) /\ over[n] /\ ~Locked(n)

(* put up to its first await, with _claim                                *)
Claim(p, s, n) ==
  /\ Idle(p) /\ ~shut
  /\ IF Known(n) /\ ~Reclaims(n) THEN entry[n] = s ELSE Cardinality(Live(s)) < Cap[s]
  /\ entry' = [entry EXCEPT ![n] = s]
  /\ state' = [state EXCEPT ![n] = "sending"]
  /\ over' = [over EXCEPT ![n] = FALSE]
  /\ last' = [last EXCEPT ![n] = p] /\ answered' = [answered EXCEPT ![n] = FALSE]
  /\ line' = IF Reclaims(n) THEN [line EXCEPT ![n] = <<>>] ELSE line
  /\ name' = [name EXCEPT ![p] = n]
  /\ holds' = [Superseded(n, IF Reclaims(n) THEN "reclaimed" ELSE "newer") EXCEPT ![p] = "current"]
  /\ doing' = [doing EXCEPT ![p] = "send"]
  /\ stage' = [stage EXCEPT ![p] = "new"] /\ fresh' = Append(fresh, p)
  /\ handler' = [handler EXCEPT ![p] = "sending"]
  /\ lost' = [lost EXCEPT ![n] = "no"]
  /\ UNCHANGED <<cut, shut, file>>

(* _claim of a scope that is at its cap: the expired name is dropped first. *)
ClaimRefused(s, n) ==
  /\ ~shut /\ Reclaims(n) /\ Cardinality(Live(s)) >= Cap[s]
  /\ UNCHANGED file
  /\ Gone(n, "refused") /\ state' = [state EXCEPT ![n] = "none"]
  /\ line' = [line EXCEPT ![n] = <<>>]
  /\ UNCHANGED <<last, answered, fresh, name, doing, stage, handler, cut, shut>>

(* The task that sends comes to the lock.  Such tasks run in their order, *)
(* and before the event loop sees another answer, or time go by: hence    *)
(* `fresh = <<>>` below.                                                  *)
SendStarts(p) ==
  /\ fresh # <<>> /\ Head(fresh) = p
  /\ fresh' = Tail(fresh)
  /\ UNCHANGED <<names, name, holds, doing, handler, cut, shut, file, lost>>
  /\ Reach(p, holds[p])

(* A waiter's turn at the lock, or that of a waiter at the lock of an    *)
(* Upload that is no more.                                               *)
Turn(o) ==
  /\ stage[o] = "line" /\ (holds[o] # "reclaimed" => Head(line[name[o]]) = o)
  /\ UNCHANGED <<last, answered, fresh, name, doing, cut, shut, file>>
  /\ IF Passes(o, holds[o])
     THEN /\ stage' = [stage EXCEPT ![o] = Returns(o, FALSE)]
          /\ Leaves(o) /\ HandlerEnds(o) /\ SweptOrNot(o, state[name[o]])
     ELSE /\ stage' = [stage EXCEPT ![o] = "busy"]
          /\ UNCHANGED <<line, handler, entry, state, over, holds, lost>>

Content(o) == IF doing[o] = "send" THEN o ELSE Blank

(* ComfyUI has taken the bytes.                                          *)
Stored(o) ==
  /\ stage[o] = "busy" /\ fresh = <<>>
  /\ UNCHANGED <<last, answered, fresh, name, doing, cut, shut>>
  /\ file' = [file EXCEPT ![name[o]] = Content(o)]
  /\ stage' = [stage EXCEPT ![o] = Returns(o, TRUE)]
  /\ Leaves(o) /\ HandlerEnds(o)
  /\ SweptOrNot(o, IF holds[o] # "current" THEN state[name[o]]
                   ELSE IF doing[o] = "send" THEN "live" ELSE "erased")

(* Fault: a failed request leaves the state as it is.                    *)
NotStored_StateKept(o) ==
  /\ stage[o] = "busy" /\ fresh = <<>>
  /\ UNCHANGED <<last, answered, fresh, name, doing, cut, shut>>
  /\ \E bytes \in {file[name[o]], Content(o)} : file' = [file EXCEPT ![name[o]] = bytes]
  /\ stage' = [stage EXCEPT ![o] = Returns(o, FALSE)]
  /\ Leaves(o) /\ HandlerEnds(o) /\ SweptOrNot(o, state[name[o]])

(* ComfyUI failed, before it wrote the bytes or after.                   *)
NotStored(o) ==
  /\ stage[o] = "busy" /\ fresh = <<>>
  /\ UNCHANGED <<last, answered, fresh, name, doing, cut, shut>>
  /\ \E bytes \in {file[name[o]], Content(o)} : file' = [file EXCEPT ![name[o]] = bytes]
  /\ stage' = [stage EXCEPT ![o] = Returns(o, FALSE)]
  /\ Leaves(o) /\ HandlerEnds(o)
  /\ SweptOrNot(o, IF holds[o] # "current" THEN state[name[o]] ELSE "stale")

-----------------------------------------------------------------------------
(* The handler of a PUT.                                                 *)

HandlerGoes(p, from, to) ==
  /\ handler[p] \in from
  /\ handler' = [handler EXCEPT ![p] = to]
  /\ UNCHANGED <<names, tasks, shut, file, lost>>

SendSeen(p) ==
  /\ stage[p] \in {"sent", "failed"}
  /\ HandlerGoes(p, {"sending"}, IF stage[p] = "sent" THEN "answering" ELSE "settling")
  /\ UNCHANGED cut

(* The client leaves, or the answer cannot be sent.                      *)
ClientLeaves(p) == HandlerGoes(p, {"sending", "answering"}, "settling") /\ UNCHANGED cut

Replied(p) == HandlerGoes(p, {"answering"}, "keeping") /\ UNCHANGED cut

(* Fault: only a send that has ended is erased.                          *)
Settled_SentOnly(p) ==
  HandlerGoes(p, {"settling"}, IF stage[p] = "failed" THEN "background" ELSE "none") /\ UNCHANGED cut

(* put's `finally`, after it has gathered what watched the client.       *)
Settled(p) == HandlerGoes(p, {"settling"}, "background") /\ UNCHANGED cut

Kept(p) ==
  /\ handler[p] = "keeping"
  /\ handler' = [handler EXCEPT ![p] = "none"]
  /\ stage' = [stage EXCEPT ![p] = "none"]
  /\ answered' = [answered EXCEPT ![name[p]] = IF holds[p] = "current" THEN TRUE ELSE @]
  /\ UNCHANGED <<entry, state, over, last, fresh, line, name, holds, doing, cut, shut, file, lost>>

(* The handler is cancelled: as it waits it ends as for a client that    *)
(* leaves, but in its `finally` it goes no further.                      *)
Cut(p) ==
  /\ shut /\ ~cut[p]
  /\ cut' = [cut EXCEPT ![p] = TRUE]
  /\ \/ HandlerGoes(p, {"sending", "answering"}, "settling")
     \/ HandlerGoes(p, {"settling", "keeping"}, "none")

ShutDown == CanShutDown /\ ~shut /\ shut' = TRUE /\ UNCHANGED <<names, tasks, handler, cut, file, lost>>

(* _erase_after, once the send has ended                                 *)
EraseAfter(p) ==
  /\ handler[p] = "background" /\ doing[p] = "send" /\ stage[p] \in {"sent", "failed"}
  /\ doing' = [doing EXCEPT ![p] = "erase"]
  /\ UNCHANGED <<names, fresh, name, holds, cut, shut, file, lost>>
  /\ Reach(p, holds[p])
  /\ handler' = [handler EXCEPT ![p] = IF stage'[p] = "none" THEN "none" ELSE @]

-----------------------------------------------------------------------------
(* DELETE                                                                *)
Erase(d, s, n) ==
  /\ stage[d] = "none" /\ ~shut /\ entry[n] = s /\ Known(n)
  /\ name' = [name EXCEPT ![d] = n]
  /\ holds' = [holds EXCEPT ![d] = "current"]
  /\ UNCHANGED <<names, fresh, doing, handler, cut, shut, file, lost>>
  /\ Reach(d, "current")

Expires(n) ==
  /\ Known(n) /\ ~over[n] /\ fresh = <<>>
  /\ over' = [over EXCEPT ![n] = TRUE]
  /\ UNCHANGED <<entry, state, last, answered, tasks, handler, cut, shut, file, lost>>

-----------------------------------------------------------------------------
(* The sweep                                                             *)

(* A health check begins one, unless one runs.                           *)
SweepStarts ==
  LET expired == {n \in Name : Known(n) /\ over[n]} IN
  /\ \A n \in Name : stage[n] = "none"
  /\ expired # {}
  /\ stage' = [o \in Op |-> IF o \in expired THEN "todo" ELSE stage[o]]
  /\ holds' = [o \in Op |-> IF o \in expired THEN "current" ELSE holds[o]]
  /\ UNCHANGED <<names, fresh, line, name, doing, handler, cut, shut, file, lost>>

(* It takes the names one by one.                                        *)
SweepLooks(n) ==
  /\ stage[n] = "todo" /\ \A m \in Name : stage[m] \notin {"line", "busy"}
  /\ UNCHANGED <<last, answered, fresh, name, doing, handler, cut, shut, file>>
  /\ Reach(n, holds[n])
  /\ IF stage'[n] = "none" THEN SweptOrNot(n, state[n])
     ELSE UNCHANGED <<entry, state, over, holds, lost>>

-----------------------------------------------------------------------------
Next ==
  \/ \E p \in Put :
       \/ \E s \in Scope, n \in Name : Claim(p, s, n)
       \/ SendStarts(p) \/ SendSeen(p) \/ ClientLeaves(p) \/ Replied(p)
       \/ Settled(p) \/ Kept(p) \/ Cut(p) \/ EraseAfter(p)
  \/ \E s \in Scope, n \in Name : ClaimRefused(s, n) \/ \E d \in Del : Erase(d, s, n)
  \/ \E o \in Op : Turn(o) \/ Stored(o) \/ NotStored(o)
  \/ \E n \in Name : Expires(n) \/ SweepLooks(n)
  \/ SweepStarts \/ ShutDown

Spec == Init /\ [][Next]_vars

(***************************************************************************)
(* Tasks that can go on do, a request to ComfyUI ends well or not, a       *)
(* health check begins a sweep every few seconds.  Clients need not read.  *)
(* The event loop looks for answers on each of its turns, however many new *)
(* requests come: the end of a request to ComfyUI is strongly fair.        *)
(***************************************************************************)
Fairness ==
  /\ \A p \in Put : WF_vars(SendStarts(p)) /\ WF_vars(Settled(p)) /\ WF_vars(EraseAfter(p))
  /\ \A o \in Op : WF_vars(Turn(o)) /\ SF_vars(Stored(o) \/ NotStored(o))
  /\ \A n \in Name : WF_vars(SweepLooks(n))
  /\ WF_vars(SweepStarts)

FairSpec == Spec /\ Fairness

-----------------------------------------------------------------------------
TypeOK ==
  /\ entry \in [Name -> Scope \cup {NoScope}]
  /\ state \in [Name -> {"none", "sending", "live", "stale", "erased"}]
  /\ over \in [Name -> BOOLEAN] /\ answered \in [Name -> BOOLEAN]
  /\ last \in [Name -> Put]
  /\ fresh \in Seq(Put) /\ line \in [Name -> Seq(Op)]
  /\ name \in [Op -> Name]
  /\ holds \in [Op -> {"current", "newer", "reclaimed"}]
  /\ doing \in [Op -> {"send", "erase"}]
  /\ stage \in [Op -> Stage]
  /\ handler \in [Put -> Handler]
  /\ cut \in [Put -> BOOLEAN] /\ shut \in BOOLEAN
  /\ file \in [Name -> Put \cup {Blank}]
  /\ lost \in [Name -> {"no", "unerased", "refused"}]

(* Bytes in the folder are known of: they are live or stale, or somebody *)
(* is at work on the name; else the sweep has failed to erase them, or a *)
(* refused PUT dropped the name.                                         *)
BytesAccounted ==
  \A n \in Name :
    file[n] # Blank =>
      \/ state[n] \in {"live", "stale"}
      \/ \E o \in Op : name[o] = n /\ holds[o] = "current" /\ Running(o)
      \/ lost[n] # "no"

(* An upload whose client has its answer stays live for its ten minutes,    *)
(* and its bytes stay in the folder: only its scope's DELETE, or a newer    *)
(* PUT, takes them away, no cleanup of an earlier PUT and no sweep, even if *)
(* they came to the lock behind the PUT.                                    *)
KeptStays ==
  [][\A n \in Name :
       state[n] = "live" /\ answered[n] /\ ~over[n]
         /\ (state'[n] # "live" \/ file'[n] # file[n]) =>
         \/ ~answered'[n]
         \/ \E d \in Del : name[d] = n /\ Running(d) /\ ~Running(d)']_vars

(* uploads.py:66-67: an abandoned PUT is not left live, while no shutdown *)
(* has cancelled its handler.                                             *)
AbandonedErased ==
  \A n \in Name : state[n] = "live" /\ ~shut =>
    answered[n] \/ (name[last[n]] = n /\ ~Idle(last[n]))

(* A name that is over its ten minutes is forgotten or renewed.          *)
ExpiredForgotten ==
  \A n \in Name : Known(n) /\ over[n] ~> ~Known(n) \/ ~over[n]

(* The cleanup of an abandoned PUT comes to its end, although newer      *)
(* requests of its name go on coming to the lock.                        *)
CleanupEnds == \A p \in Put : handler[p] = "background" ~> handler[p] = "none"
=============================================================================
