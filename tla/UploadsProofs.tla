--------------------------- MODULE UploadsProofs ---------------------------
(**************************************************************************)
(* The files in ComfyUI's temp directory.  Under the lock of a name bytes *)
(* are sent and erased in an order that loses none of them: for any       *)
(* number of names, requests and scopes.  And the sweeper of the card,    *)
(* below, erases no picture that is wanted: for any jobs and any caps.    *)
(**************************************************************************)
EXTENDS Uploads, Sweeper, TLAPS

(* o is the i-th in the line of n, the i-th of the fresh sends.          *)
At(n, i, o) == i \in 1..Len(line[n]) /\ line[n][i] = o
FreshAt(i, p) == i \in 1..Len(fresh) /\ fresh[i] = p

Sending(o) == o \in Put /\ doing[o] = "send" /\ stage[o] \in {"new", "line", "busy"}

Goes(o, how) == doing[o] = "send" /\ holds[o] = how

(* The PUT that last claimed the name has yet to send its bytes.         *)
LastSending(n) ==
  /\ name[last[n]] = n /\ holds[last[n]] = "current"
  /\ doing[last[n]] = "send" /\ stage[last[n]] \in {"new", "line", "busy"}

(* Who is in a line is there once, of that name, and only its first can  *)
(* have the lock.                                                         *)
LineInv ==
  \A n \in Name, i \in Nat, o \in Op : At(n, i, o) =>
    /\ name[o] = n /\ holds[o] # "reclaimed"
    /\ stage[o] = "line" \/ (i = 1 /\ stage[o] = "busy")
    /\ \A j \in Nat : At(n, j, o) => i = j

LockInv ==
  \A o \in Op :
    /\ stage[o] = "busy" => At(name[o], 1, o)
    /\ stage[o] = "line" /\ holds[o] # "reclaimed" => \E i \in Nat : At(name[o], i, o)

FreshInv ==
  /\ \A i \in Nat, p \in Put : FreshAt(i, p) =>
       stage[p] = "new" /\ doing[p] = "send" /\ \A j \in Nat : FreshAt(j, p) => i = j
  /\ \A o \in Op : stage[o] = "new" => o \in Put /\ \E i \in Nat : FreshAt(i, o)

(* A send with a newer one of its name comes before that one.            *)
OrderInv ==
  /\ \A n \in Name, i, j \in Nat, o, p \in Op :
       At(n, i, o) /\ At(n, j, p) /\ Goes(o, "newer") /\ Goes(p, "current") => i < j
  /\ \A i, j \in Nat, o, p \in Put :
       FreshAt(i, o) /\ FreshAt(j, p) /\ name[o] = name[p] /\ Goes(o, "newer") /\ Goes(p, "current") => i < j
  /\ \A j, i \in Nat, o \in Put, p \in Op :
       ~(FreshAt(i, o) /\ At(name[o], j, p) /\ Goes(o, "newer") /\ Goes(p, "current"))

NewerInv ==
  \A o \in Op : (Sending(o) \/ stage[o] = "busy") /\ holds[o] = "newer" => LastSending(name[o])

NameInv ==
  /\ \A o \in Op : UnderWay(o) /\ holds[o] # "reclaimed" => Known(name[o])
  /\ \A n \in Name : Known(n) <=> state[n] # "none"
  /\ \A n \in Name : state[n] = "sending" => LastSending(n)
  /\ \A n \in Name : name[n] = n /\ (Running(n) /\ holds[n] = "current" => over[n])
  /\ \A o \in Op : doing[o] = "send" => o \in Put

PutInv ==
  /\ \A p \in Put : UnderWay(p) /\ holds[p] = "current" => last[name[p]] = p /\ ~answered[name[p]]
  /\ \A n \in Name : Known(n) /\ name[last[n]] = n /\ UnderWay(last[n]) => holds[last[n]] = "current"
  /\ \A p \in Put : handler[p] \in {"answering", "keeping"} => stage[p] = "sent"
  /\ \A p \in Put : ~shut /\ Running(p) => handler[p] # "none"

BytesInv == \A n \in Name : file[n] # Blank => state[n] \in {"live", "stale"} \/ LastSending(n) \/ lost[n] # "no"

IInv == TypeOK /\ LineInv /\ LockInv /\ FreshInv /\ OrderInv /\ NewerInv /\ NameInv /\ PutInv /\ BytesInv /\ AbandonedErased

USE UploadsAssumption DEF UploadsAssumption

(* Where an op stands in a line, as facts about its place i: what      *)
(* Append and Tail do to a line and to the fresh sends is said once    *)
(* here, and the steps below see places only.                          *)
LEMMA Places ==
  ASSUME TypeOK
  PROVE  /\ \A n \in Name : \A i, o : At(n, i, o) => i \in Nat /\ i >= 1 /\ o \in Op /\ line[n] # <<>>
         /\ \A n \in Name : \A i, o, p : At(n, i, o) /\ At(n, i, p) => o = p
         /\ \A i, p : FreshAt(i, p) => i \in Nat /\ i >= 1 /\ p \in Put /\ fresh # <<>>
         /\ \A i, o, p : FreshAt(i, o) /\ FreshAt(i, p) => o = p
<1>1. \A n \in Name : line[n] \in Seq(Op)
  BY DEF TypeOK
<1>2. fresh \in Seq(Put)
  BY DEF TypeOK
<1> QED BY <1>1, <1>2 DEF At, FreshAt

LEMMA Joins ==
  ASSUME TypeOK, NEW n \in Name, NEW o \in Op, line' = [line EXCEPT ![n] = Append(line[n], o)]
  PROVE  \E k \in Nat :
           /\ \A m \in Name, i \in Nat, x \in Op : At(m, i, x)' <=> At(m, i, x) \/ (m = n /\ i = k /\ x = o)
           /\ \A i \in Nat, x \in Op : At(n, i, x) => i < k
<1>1. line[n] \in Seq(Op) /\ line \in [Name -> Seq(Op)]
  BY DEF TypeOK
<1> DEFINE k == Len(line[n]) + 1
<1>2. k \in Nat /\ \A i \in Nat, x \in Op : At(n, i, x) => i < k
  BY <1>1 DEF At
<1>3. ASSUME NEW i \in Nat, NEW x \in Op
      PROVE  At(n, i, x)' <=> At(n, i, x) \/ (i = k /\ x = o)
  <2>1. line'[n] = Append(line[n], o)
    BY <1>1
  <2> QED BY <1>1, <2>1 DEF At
<1>4. \A m \in Name \ {n}, i \in Nat, x \in Op : At(m, i, x)' <=> At(m, i, x)
  BY <1>1 DEF At
<1> QED BY <1>2, <1>3, <1>4, ZenonT(30)

LEMMA Takes ==
  ASSUME TypeOK, NEW n \in Name, NEW o \in Op, line' = [line EXCEPT ![n] = <<o>>]
  PROVE  \A m \in Name, i \in Nat, x \in Op : At(m, i, x)' <=> (m # n /\ At(m, i, x)) \/ (m = n /\ i = 1 /\ x = o)
<1>1. line \in [Name -> Seq(Op)]
  BY DEF TypeOK
<1>2. line'[n] = <<o>> /\ \A m \in Name \ {n} : line'[m] = line[m]
  BY <1>1
<1> QED BY <1>2 DEF At

LEMMA Emptied ==
  ASSUME TypeOK, NEW n \in Name, line' = [line EXCEPT ![n] = <<>>]
  PROVE  \A m \in Name, i \in Nat, x \in Op : At(m, i, x)' <=> m # n /\ At(m, i, x)
<1>1. line'[n] = <<>> /\ \A m \in Name \ {n} : line'[m] = line[m]
  BY DEF TypeOK
<1> QED BY <1>1 DEF At

LEMMA TailPlaces ==
  ASSUME NEW S, NEW s \in Seq(S), s # <<>>
  PROVE  /\ Len(Tail(s)) = Len(s) - 1 /\ Len(s) \in Nat
         /\ \A i \in 1..(Len(s) - 1) : Tail(s)[i] = s[i + 1]
OBVIOUS

LEMMA FirstLeaves ==
  ASSUME TypeOK, NEW n \in Name, line[n] # <<>>, line' = [line EXCEPT ![n] = Tail(line[n])]
  PROVE  \A m \in Name, i \in Nat, x \in Op :
           At(m, i, x)' <=> IF m = n THEN i >= 1 /\ At(m, i + 1, x) ELSE At(m, i, x)
<1>1. line[n] \in Seq(Op) /\ line'[n] = Tail(line[n]) /\ \A m \in Name \ {n} : line'[m] = line[m]
  BY DEF TypeOK
<1>2. \A i \in Nat, x \in Op : At(n, i, x)' <=> i >= 1 /\ At(n, i + 1, x)
  <2>1. /\ Len(line'[n]) = Len(line[n]) - 1 /\ Len(line[n]) \in Nat
        /\ \A i \in 1..(Len(line[n]) - 1) : line'[n][i] = line[n][i + 1]
    BY <1>1, TailPlaces
  <2> QED BY <2>1 DEF At
<1>3. \A m \in Name \ {n}, i \in Nat, x \in Op : At(m, i, x)' <=> At(m, i, x)
  BY <1>1 DEF At
<1> QED BY <1>2, <1>3

LEMMA FreshJoins ==
  ASSUME TypeOK, NEW p \in Put, fresh' = Append(fresh, p)
  PROVE  \E k \in Nat :
           /\ \A i \in Nat, x \in Put : FreshAt(i, x)' <=> FreshAt(i, x) \/ (i = k /\ x = p)
           /\ \A i \in Nat, x \in Put : FreshAt(i, x) => i < k
<1>1. fresh \in Seq(Put)
  BY DEF TypeOK
<1> DEFINE k == Len(fresh) + 1
<1>2. k \in Nat /\ \A i \in Nat, x \in Put : FreshAt(i, x) => i < k
  BY <1>1 DEF FreshAt
<1>3. \A i \in Nat, x \in Put : FreshAt(i, x)' <=> FreshAt(i, x) \/ (i = k /\ x = p)
  BY <1>1 DEF FreshAt
<1> QED BY <1>2, <1>3

LEMMA FreshGoes ==
  ASSUME TypeOK, fresh # <<>>, fresh' = Tail(fresh)
  PROVE  \A i \in Nat, x \in Put : FreshAt(i, x)' <=> i >= 1 /\ FreshAt(i + 1, x)
<1>1. fresh \in Seq(Put)
  BY DEF TypeOK
<1> QED BY <1>1 DEF FreshAt

LEMMA SameLine ==
  ASSUME UNCHANGED line
  PROVE  \A n, i, o : At(n, i, o)' <=> At(n, i, o)
BY DEF At

LEMMA SameFresh ==
  ASSUME UNCHANGED fresh
  PROVE  \A i, o : FreshAt(i, o)' <=> FreshAt(i, o)
BY DEF FreshAt

(* A step that moves nobody keeps the order.                           *)
LEMMA OrderStays ==
  ASSUME IInv, UNCHANGED <<line, fresh, name, holds, doing>>
  PROVE  OrderInv'
BY DEF IInv, OrderInv, At, FreshAt, Goes

(* What a handler does alone.                                            *)
LEMMA HandlerSteps ==
  ASSUME IInv, NEW p \in Put, SendSeen(p) \/ ClientLeaves(p) \/ Replied(p) \/ Settled(p) \/ Cut(p)
  PROVE  IInv'
<1> USE DEF HandlerGoes, names, tasks
<1>0. UNCHANGED <<entry, state, over, last, answered, fresh, line, name, holds, doing, stage, shut, file, lost>>
  BY DEF SendSeen, ClientLeaves, Replied, Settled, Cut
<1>1. TypeOK'
  <2>1. handler' \in [Put -> Handler] /\ cut' \in [Put -> BOOLEAN]
    BY ZenonT(30) DEF IInv, TypeOK, SendSeen, ClientLeaves, Replied, Settled, Cut, Handler
  <2> QED BY <1>0, <2>1 DEF IInv, TypeOK
<1>2. LineInv' /\ LockInv'
  BY <1>0 DEF IInv, LineInv, LockInv, At
<1>3. FreshInv' /\ OrderInv' /\ NewerInv' /\ BytesInv'
  BY <1>0 DEF IInv, FreshInv, OrderInv, NewerInv, At, FreshAt, Goes, BytesInv, Sending, LastSending
<1>4. NameInv'
  BY DEF IInv, NameInv, TypeOK, Known, LastSending, UnderWay, Running, SendSeen, ClientLeaves, Replied, Settled, Cut
<1>5. PutInv'
  BY DEF IInv, PutInv, TypeOK, Known, UnderWay, Running, SendSeen, ClientLeaves, Replied, Settled, Cut
<1>6. AbandonedErased'
  BY DEF IInv, AbandonedErased, TypeOK, Idle, UnderWay, Running, SendSeen, ClientLeaves, Replied, Settled, Cut
<1> QED BY <1>1, <1>2, <1>3, <1>4, <1>5, <1>6 DEF IInv

(* The steps that change what is known of one name.                    *)
LEMMA KeptStep ==
  ASSUME IInv, NEW p \in Put, Kept(p)
  PROVE  IInv'
<1>0. /\ TypeOK /\ stage \in [Op -> Stage] /\ p \in Op /\ stage[p] = "sent"
      /\ stage' = [stage EXCEPT ![p] = "none"]
      /\ UNCHANGED <<entry, state, over, last, fresh, line, name, holds, doing, cut, shut, file, lost>>
  BY DEF IInv, TypeOK, PutInv, Kept, Op
<1>1. TypeOK'
  <2>1. handler' \in [Put -> Handler] /\ answered' \in [Name -> BOOLEAN]
    BY DEF IInv, TypeOK, Kept, Handler
  <2> QED BY <1>0, <2>1 DEF TypeOK, Stage
<1>2. LineInv' /\ LockInv' /\ FreshInv'
  <2>0. \A x \in Op : stage'[x] = stage[x] \/ (x = p /\ stage'[x] = "none" /\ stage[x] = "sent")
    BY <1>0
  <2>1. LineInv'
    <3>1. \A n \in Name, i \in Nat, o \in Op : At(n, i, o) => stage[o] \in {"line", "busy"}
      BY DEF IInv, LineInv
    <3> QED BY <1>0, <2>0, <3>1, SameLine DEF IInv, LineInv
  <2>2. LockInv'
    BY <1>0, <2>0, SameLine DEF IInv, LockInv
  <2>3. FreshInv'
    BY <1>0, <2>0, SameFresh DEF IInv, FreshInv, Op
  <2> QED BY <2>1, <2>2, <2>3
<1>3. OrderInv' /\ NewerInv'
  <2>1. OrderInv'
    BY <1>0, OrderStays
  <2>2. NewerInv'
    BY <1>0 DEF IInv, TypeOK, NewerInv, Sending, LastSending
  <2> QED BY <2>1, <2>2
<1>4. NameInv'
  BY DEF IInv, NameInv, PutInv, TypeOK, Known, LastSending, UnderWay, Running, Kept
<1>5. PutInv'
  BY DEF IInv, PutInv, TypeOK, Known, UnderWay, Running, Kept
<1>6. BytesInv'
  BY DEF IInv, BytesInv, PutInv, TypeOK, LastSending, Kept
<1>7. AbandonedErased'
  BY DEF IInv, AbandonedErased, PutInv, NameInv, Known, TypeOK, Idle, UnderWay, Running, Kept
<1> QED BY <1>1, <1>2, <1>3, <1>4, <1>5, <1>6, <1>7 DEF IInv

LEMMA ShutDownStep ==
  ASSUME IInv, ShutDown
  PROVE  IInv'
<1>1. UNCHANGED <<entry, state, over, last, answered, fresh, line, name, holds, doing, stage, handler, cut, file, lost>> /\ shut'
  BY DEF ShutDown, names, tasks
<1>2. TypeOK' /\ LineInv' /\ LockInv' /\ FreshInv'
  BY <1>1 DEF IInv, TypeOK, LineInv, LockInv, FreshInv, At, FreshAt
<1>3. OrderInv' /\ NewerInv' /\ BytesInv'
  BY <1>1 DEF IInv, OrderInv, NewerInv, BytesInv, At, FreshAt, Goes, Sending, LastSending
<1>4. NameInv' /\ PutInv' /\ AbandonedErased'
  BY <1>1 DEF IInv, NameInv, PutInv, AbandonedErased, LastSending, Known, UnderWay, Running
<1> QED BY <1>2, <1>3, <1>4 DEF IInv

LEMMA ExpiresStep ==
  ASSUME IInv, NEW n \in Name, Expires(n)
  PROVE  IInv'
<1>1. UNCHANGED <<entry, state, last, answered, fresh, line, name, holds, doing, stage, handler, cut, shut, file, lost>>
  BY DEF Expires, tasks
<1>2. TypeOK'
  BY <1>1 DEF IInv, TypeOK, Expires
<1>3. LineInv' /\ LockInv' /\ FreshInv'
  BY <1>1 DEF IInv, LineInv, LockInv, FreshInv, At, FreshAt
<1>4. OrderInv' /\ NewerInv' /\ BytesInv'
  BY <1>1 DEF IInv, OrderInv, NewerInv, BytesInv, At, FreshAt, Goes, Sending, LastSending
<1>5. NameInv'
  BY <1>1 DEF IInv, NameInv, TypeOK, LastSending, Known, UnderWay, Running, Expires
<1>6. PutInv' /\ AbandonedErased'
  BY <1>1 DEF IInv, PutInv, AbandonedErased, Known, Idle, UnderWay, Running
<1> QED BY <1>2, <1>3, <1>4, <1>5, <1>6 DEF IInv

LEMMA SweepStartsStep ==
  ASSUME IInv, SweepStarts
  PROVE  IInv'
<1>0. TypeOK /\ stage \in [Op -> Stage] /\ holds \in [Op -> {"current", "newer", "reclaimed"}] /\ name \in [Op -> Name]
  BY DEF IInv, TypeOK
<1>1. UNCHANGED <<entry, state, over, last, answered, fresh, line, name, doing, handler, cut, shut, file, lost>>
  BY DEF SweepStarts, names
<1>2. TypeOK'
  BY <1>1, SMTT(30) DEF IInv, TypeOK, SweepStarts, Stage, Op
<1>3. \A o \in Op : \/ stage'[o] = stage[o] /\ holds'[o] = holds[o]
                    \/ /\ o \in Name /\ stage[o] = "none" /\ Known(o) /\ over[o]
                       /\ stage'[o] = "todo" /\ holds'[o] = "current"
  <2> DEFINE expired == {n \in Name : Known(n) /\ over[n]}
  <2>1. /\ stage' = [o \in Op |-> IF o \in expired THEN "todo" ELSE stage[o]]
        /\ holds' = [o \in Op |-> IF o \in expired THEN "current" ELSE holds[o]]
        /\ \A n \in Name : stage[n] = "none"
    BY DEF SweepStarts
  <2> QED BY <2>1
<1>4. \A p \in Put : p \in Op /\ stage'[p] = stage[p] /\ holds'[p] = holds[p]
  BY <1>3 DEF Op
<1>5. LineInv' /\ LockInv' /\ FreshInv'
  <2>1. LineInv'
    BY <1>0, <1>1, <1>3, SameLine DEF IInv, LineInv
  <2>2. LockInv'
    BY <1>0, <1>1, <1>3, SameLine DEF IInv, LockInv
  <2>3. FreshInv'
    BY <1>0, <1>1, <1>3, <1>4, SameFresh DEF IInv, FreshInv
  <2> QED BY <2>1, <2>2, <2>3
<1>6. OrderInv' /\ NewerInv' /\ BytesInv'
  <2>0. \A o \in Op, how \in {"newer", "current"} : Goes(o, how)' => Goes(o, how)
    BY <1>0, <1>1, <1>3 DEF IInv, NameInv, Goes, Op
  <2>1. OrderInv'
    BY <1>0, <1>1, <2>0, <1>4, SameFresh, SameLine DEF IInv, OrderInv, Op
  <2>2. NewerInv' /\ BytesInv'
    BY <1>0, <1>1, <1>3, <1>4 DEF IInv, TypeOK, NewerInv, BytesInv, Sending, LastSending
  <2> QED BY <2>1, <2>2
<1>7. NameInv'
  BY <1>1, <1>3, <1>4 DEF IInv, NameInv, TypeOK, LastSending, Known, UnderWay, Running, Op
<1>8. PutInv' /\ AbandonedErased'
  BY <1>1, <1>4 DEF IInv, TypeOK, PutInv, AbandonedErased, Known, Idle, UnderWay, Running
<1> QED BY <1>2, <1>5, <1>6, <1>7, <1>8 DEF IInv

(* A request comes to the lock: it waits, it has nothing to do, or it has *)
(* the lock.                                                              *)
LEMMA ReachCases ==
  ASSUME NEW o \in Op, NEW held, Reach(o, held)
  PROVE  LET n == name'[o] IN
         \/ /\ line[n] # <<>> /\ held # "reclaimed"
            /\ stage' = [stage EXCEPT ![o] = "line"] /\ line' = [line EXCEPT ![n] = Append(line[n], o)]
         \/ /\ line[n] = <<>> \/ held = "reclaimed"
            /\ Passes(o, held) /\ stage' = [stage EXCEPT ![o] = Returns(o, FALSE)] /\ line' = line
         \/ /\ line[n] = <<>> /\ held # "reclaimed"
            /\ ~Passes(o, held) /\ stage' = [stage EXCEPT ![o] = "busy"] /\ line' = [line EXCEPT ![n] = <<o>>]
BY DEF Reach, Passes


(* It has come to the line of n, in its last place.                      *)
ComesTo(o, n) ==
  \E k \in Nat, r \in {"line", "busy"} :
    /\ stage' = [stage EXCEPT ![o] = r] /\ (r = "busy" => k = 1)
    /\ \A m \in Name, i \in Nat, x \in Op : At(m, i, x)' <=> At(m, i, x) \/ (m = n /\ i = k /\ x = o)
    /\ \A i \in Nat, x \in Op : At(n, i, x) => i < k
    /\ k >= 1 /\ line' \in [Name -> Seq(Op)]

(* Whoever comes to the lock passes it or comes to its line.             *)
LEMMA ReachOutcome ==
  ASSUME TypeOK, NEW o \in Op, NEW n \in Name, n = name'[o], NEW held, Reach(o, held)
  PROVE  \/ /\ line[n] = <<>> \/ held = "reclaimed"
            /\ Passes(o, held) /\ stage' = [stage EXCEPT ![o] = Returns(o, FALSE)] /\ line' = line
         \/ held # "reclaimed" /\ ~Passes(o, held) /\ line[n] = <<>> /\ ComesTo(o, n)
         \/ held # "reclaimed" /\ line[n] # <<>> /\ ComesTo(o, n)
<1>0. line \in [Name -> Seq(Op)]
  BY DEF TypeOK
<1>1. CASE /\ line[n] # <<>> /\ held # "reclaimed"
           /\ stage' = [stage EXCEPT ![o] = "line"] /\ line' = [line EXCEPT ![n] = Append(line[n], o)]
  <2>1. PICK k \in Nat :
           /\ \A m \in Name, i \in Nat, x \in Op : At(m, i, x)' <=> At(m, i, x) \/ (m = n /\ i = k /\ x = o)
           /\ \A i \in Nat, x \in Op : At(n, i, x) => i < k
    BY <1>1, Joins
  <2>2. k >= 1
    <3>1. line[n] \in Seq(Op) /\ line[n] # <<>>
      BY <1>0, <1>1
    <3>2. At(n, 1, line[n][1]) /\ line[n][1] \in Op
      BY <3>1 DEF At
    <3> QED BY <2>1, <3>2
  <2>3. line' \in [Name -> Seq(Op)]
    BY <1>0, <1>1
  <2>4. ComesTo(o, n)
    BY <1>1, <2>1, <2>2, <2>3 DEF ComesTo
  <2> QED BY <1>1, <2>4
<1>2. CASE /\ line[n] = <<>> /\ held # "reclaimed"
           /\ ~Passes(o, held) /\ stage' = [stage EXCEPT ![o] = "busy"] /\ line' = [line EXCEPT ![n] = <<o>>]
  <2>1. \A m \in Name, i \in Nat, x \in Op : At(m, i, x)' <=> (m # n /\ At(m, i, x)) \/ (m = n /\ i = 1 /\ x = o)
    BY <1>2, Takes
  <2>2. \A i \in Nat, x \in Op : ~At(n, i, x)
    BY <1>2, Places
  <2>3. line' \in [Name -> Seq(Op)]
    BY <1>0, <1>2
  <2>4. \A m \in Name, i \in Nat, x \in Op : At(m, i, x)' <=> At(m, i, x) \/ (m = n /\ i = 1 /\ x = o)
    BY <2>1, <2>2
  <2>5. ComesTo(o, n)
    <3>1. \A i \in Nat, x \in Op : At(n, i, x) => i < 1
      BY <2>2
    <3>2. 1 \in Nat /\ 1 >= 1 /\ "busy" \in {"line", "busy"} /\ stage' = [stage EXCEPT ![o] = "busy"]
      BY <1>2
    <3> QED BY <2>3, <2>4, <3>1, <3>2, Zenon DEF ComesTo
  <2> QED BY <1>2, <2>5
<1> QED BY <1>1, <1>2, ReachCases

(* One comes to the line of its name, or is turned away with no lock.  *)
LEMMA ComesToLine ==
  ASSUME IInv, NEW o \in Op, NEW n \in Name, stage[o] \notin {"line", "busy"}, ComesTo(o, n),
         NEW h \in {"current", "newer"}, name' = [name EXCEPT ![o] = n], holds' = [holds EXCEPT ![o] = h]
  PROVE  LineInv' /\ LockInv'
<1>0. TypeOK /\ stage \in [Op -> Stage] /\ name \in [Op -> Name] /\ holds \in [Op -> {"current", "newer", "reclaimed"}]
  BY DEF IInv, TypeOK
<1>1. PICK k \in Nat, r \in {"line", "busy"} :
    /\ stage' = [stage EXCEPT ![o] = r] /\ (r = "busy" => k = 1)
    /\ \A m \in Name, i \in Nat, x \in Op : At(m, i, x)' <=> At(m, i, x) \/ (m = n /\ i = k /\ x = o)
    /\ \A i \in Nat, x \in Op : At(n, i, x) => i < k
    /\ k >= 1
  BY DEF ComesTo
<1>2. \A m \in Name, i \in Nat : ~At(m, i, o)
  BY DEF IInv, LineInv
<1>3. \A x \in Op \ {o} : stage'[x] = stage[x] /\ name'[x] = name[x] /\ holds'[x] = holds[x]
  BY <1>0, <1>1
<1>4. stage'[o] = r /\ name'[o] = n /\ holds'[o] = h
  BY <1>0, <1>1
<1>5. LineInv'
  BY <1>1, <1>2, <1>3, <1>4 DEF IInv, LineInv
<1>6. LockInv'
  BY <1>0, <1>1, <1>2, <1>3, <1>4 DEF IInv, LockInv
<1> QED BY <1>5, <1>6

LEMMA PassesLine ==
  ASSUME IInv, NEW o \in Op, NEW n \in Name, stage[o] \notin {"line", "busy"}, UNCHANGED line,
         NEW r \in {"none", "failed"}, stage' = [stage EXCEPT ![o] = r],
         NEW h \in {"current", "newer", "reclaimed"}, name' = [name EXCEPT ![o] = n], holds' = [holds EXCEPT ![o] = h]
  PROVE  LineInv' /\ LockInv'
<1>0. TypeOK /\ stage \in [Op -> Stage] /\ name \in [Op -> Name] /\ holds \in [Op -> {"current", "newer", "reclaimed"}]
  BY DEF IInv, TypeOK
<1>1. \A m \in Name, i \in Nat : ~At(m, i, o)
  BY DEF IInv, LineInv
<1>2. \A x \in Op \ {o} : stage'[x] = stage[x] /\ name'[x] = name[x] /\ holds'[x] = holds[x]
  BY <1>0
<1>3. stage'[o] = r
  BY <1>0
<1>4. LineInv'
  BY <1>1, <1>2, <1>3, SameLine DEF IInv, LineInv
<1>5. LockInv'
  BY <1>0, <1>1, <1>2, <1>3, SameLine DEF IInv, LockInv
<1> QED BY <1>4, <1>5

LEMMA SendStartsStep ==
  ASSUME IInv, NEW p \in Put, SendStarts(p)
  PROVE  IInv'
<1> DEFINE n == name[p]
<1>0. /\ TypeOK /\ stage \in [Op -> Stage] /\ name \in [Op -> Name] /\ holds \in [Op -> {"current", "newer", "reclaimed"}]
      /\ p \in Op /\ n \in Name /\ doing \in [Op -> {"send", "erase"}]
  BY DEF IInv, TypeOK, Op
<1>1. UNCHANGED <<entry, state, over, last, answered, name, holds, doing, handler, cut, shut, file, lost>>
  BY DEF SendStarts, names
<1>2. fresh # <<>> /\ FreshAt(1, p) /\ fresh' = Tail(fresh) /\ Reach(p, holds[p])
  BY <1>0 DEF SendStarts, TypeOK, FreshAt
<1>3. stage[p] = "new" /\ doing[p] = "send" /\ \A i \in Nat : FreshAt(i, p) => i = 1
  BY <1>2 DEF IInv, FreshInv
<1>4. \A i \in Nat, x \in Put : FreshAt(i, x)' <=> i >= 1 /\ FreshAt(i + 1, x)
  BY <1>0, <1>2, FreshGoes
<1>5. \/ holds[p] = "reclaimed" /\ stage' = [stage EXCEPT ![p] = "failed"] /\ line' = line
      \/ holds[p] # "reclaimed" /\ ComesTo(p, n)
  <2>1. name'[p] = n /\ doing'[p] = "send"
    BY <1>1, <1>3
  <2> HIDE DEF n
  <2> QED BY <1>0, <1>2, <2>1, ReachOutcome DEF Passes, Returns
<1>6. PICK r \in {"line", "busy", "failed"} : stage' = [stage EXCEPT ![p] = r] /\ (r = "failed" => holds[p] = "reclaimed")
  BY <1>5 DEF ComesTo
<1>7. TypeOK'
  <2>1. stage' \in [Op -> Stage]
    BY <1>0, <1>6 DEF Stage
  <2>2. line' \in [Name -> Seq(Op)]
    BY <1>0, <1>5 DEF ComesTo, TypeOK
  <2>3. fresh' \in Seq(Put)
    BY <1>0, <1>2 DEF TypeOK
  <2> QED BY <1>0, <1>1, <2>1, <2>2, <2>3 DEF TypeOK
<1>8. LineInv' /\ LockInv'
  <2>1. name' = [name EXCEPT ![p] = n] /\ holds' = [holds EXCEPT ![p] = holds[p]]
    BY <1>0, <1>1
  <2> HIDE DEF n
  <2> QED BY <1>0, <1>3, <1>5, <2>1, ComesToLine, PassesLine
<1>9. FreshInv'
  <2>1. \A x \in Op \ {p} : stage'[x] = stage[x]
    BY <1>0, <1>6
  <2>2. stage'[p] # "new"
    BY <1>0, <1>6
  <2>3. \A i \in Nat : ~FreshAt(i, p)'
    BY <1>3, <1>4
  <2>4. \A i \in Nat, x \in Put \ {p} : FreshAt(i, x) => i >= 2
    BY <1>0, <1>2, Places
  <2>5. \A x \in Op : stage'[x] = "new" => x \in Put /\ \E i \in Nat : FreshAt(i, x)'
    <3> SUFFICES ASSUME NEW x \in Op, stage'[x] = "new" PROVE x \in Put /\ \E i \in Nat : FreshAt(i, x)'
      OBVIOUS
    <3>1. x # p /\ stage[x] = "new"
      BY <2>1, <2>2
    <3>2. x \in Put /\ \E j \in Nat : FreshAt(j, x)
      BY <3>1 DEF IInv, FreshInv
    <3>3. PICK j \in Nat : FreshAt(j, x)
      BY <3>2
    <3>4. j >= 2
      BY <2>4, <3>1, <3>2, <3>3
    <3>5. j - 1 \in Nat /\ FreshAt(j - 1, x)'
      BY <1>4, <3>2, <3>3, <3>4
    <3> QED BY <3>2, <3>5
  <2>6. \A i \in Nat, x \in Put : FreshAt(i, x)' =>
         stage'[x] = "new" /\ doing'[x] = "send" /\ \A j \in Nat : FreshAt(j, x)' => i = j
    <3> SUFFICES ASSUME NEW i \in Nat, NEW x \in Put, FreshAt(i, x)'
                 PROVE  stage'[x] = "new" /\ doing'[x] = "send" /\ \A j \in Nat : FreshAt(j, x)' => i = j
      OBVIOUS
    <3>1. FreshAt(i + 1, x) /\ i + 1 \in Nat /\ x # p /\ x \in Op
      BY <1>4, <2>3 DEF Op
    <3>2. stage[x] = "new" /\ doing[x] = "send" /\ \A j \in Nat : FreshAt(j, x) => i + 1 = j
      BY <3>1 DEF IInv, FreshInv
    <3>3. ASSUME NEW j \in Nat, FreshAt(j, x)' PROVE i = j
      <4>1. FreshAt(j + 1, x) /\ j + 1 \in Nat
        BY <1>4, <3>3
      <4> QED BY <3>2, <4>1
    <3> QED BY <1>1, <2>1, <3>1, <3>2, <3>3
  <2> QED BY <2>5, <2>6 DEF FreshInv
<1>10. OrderInv'
  <2>1. \A o, how : Goes(o, how)' <=> Goes(o, how)
    BY <1>1 DEF Goes
  <2>2. \A i, j \in Nat, o, x \in Put :
         FreshAt(i, o)' /\ FreshAt(j, x)' /\ name'[o] = name'[x] /\ Goes(o, "newer")' /\ Goes(x, "current")' => i < j
    <3> SUFFICES ASSUME NEW i \in Nat, NEW j \in Nat, NEW o \in Put, NEW x \in Put,
                   FreshAt(i, o)', FreshAt(j, x)', name'[o] = name'[x], Goes(o, "newer")', Goes(x, "current")'
                 PROVE  i < j
      OBVIOUS
    <3>1. i + 1 \in Nat /\ j + 1 \in Nat /\ FreshAt(i + 1, o) /\ FreshAt(j + 1, x)
      BY <1>4
    <3>2. i + 1 < j + 1
      BY <1>1, <2>1, <3>1 DEF IInv, OrderInv
    <3> QED BY <3>2
  <2>3. CASE holds[p] = "reclaimed" /\ line' = line
    <3>1. \A m, i, o : At(m, i, o)' <=> At(m, i, o)
      BY <2>3, SameLine
    <3>2. \A m \in Name, i, j \in Nat, o, x \in Op :
           At(m, i, o)' /\ At(m, j, x)' /\ Goes(o, "newer")' /\ Goes(x, "current")' => i < j
      BY <2>1, <3>1 DEF IInv, OrderInv
    <3>3. \A j, i \in Nat, o \in Put, x \in Op :
           ~(FreshAt(i, o)' /\ At(name[o], j, x)' /\ Goes(o, "newer")' /\ Goes(x, "current")')
      <4> SUFFICES ASSUME NEW i \in Nat, NEW j \in Nat, NEW o \in Put, NEW x \in Op,
                     FreshAt(i, o)', At(name[o], j, x)', Goes(o, "newer")', Goes(x, "current")'
                   PROVE  FALSE
        OBVIOUS
      <4>1. i + 1 \in Nat /\ FreshAt(i + 1, o) /\ At(name[o], j, x) /\ Goes(o, "newer") /\ Goes(x, "current")
        BY <1>1, <1>4, <2>1, <3>1
      <4> QED BY <4>1 DEF IInv, OrderInv
    <3> QED BY <1>1, <2>2, <3>2, <3>3 DEF OrderInv
  <2>4. CASE holds[p] # "reclaimed" /\ ComesTo(p, n)
    <3>1. PICK k \in Nat :
           /\ \A m \in Name, i \in Nat, x \in Op : At(m, i, x)' <=> At(m, i, x) \/ (m = n /\ i = k /\ x = p)
           /\ \A i \in Nat, x \in Op : At(n, i, x) => i < k
      BY <2>4 DEF ComesTo
    <3>2. ASSUME NEW m \in Name, NEW i \in Nat, NEW j \in Nat, NEW o \in Op, NEW x \in Op,
                 At(m, i, o)', At(m, j, x)', Goes(o, "newer"), Goes(x, "current")
          PROVE  i < j
      <4>1. CASE At(m, i, o) /\ At(m, j, x)
        BY <3>2, <4>1 DEF IInv, OrderInv
      <4>2. CASE At(m, i, o) /\ m = n /\ j = k /\ x = p
        BY <3>1, <4>2
      <4>3. CASE m = n /\ i = k /\ o = p /\ At(m, j, x)
        <5>1. FreshAt(1, p) /\ At(name[p], j, x) /\ Goes(p, "newer")
          BY <1>2, <3>2, <4>3
        <5> QED BY <3>2, <5>1 DEF IInv, OrderInv
      <4>4. CASE o = p /\ x = p
        BY <3>2, <4>4 DEF Goes
      <4> QED BY <3>1, <3>2, <4>1, <4>2, <4>3, <4>4
    <3>3. ASSUME NEW i \in Nat, NEW j \in Nat, NEW o \in Put, NEW x \in Op,
                 FreshAt(i, o)', At(name[o], j, x)', Goes(o, "newer"), Goes(x, "current")
          PROVE  FALSE
      <4>1. i + 1 \in Nat /\ FreshAt(i + 1, o) /\ o \in Op /\ name[o] \in Name
        BY <1>0, <1>4, <3>3 DEF Op
      <4>2. CASE At(name[o], j, x)
        BY <3>3, <4>1, <4>2 DEF IInv, OrderInv
      <4>3. CASE name[o] = n /\ x = p
        <5>1. i + 1 < 1
          BY <1>2, <3>3, <4>1, <4>3 DEF IInv, OrderInv
        <5> QED BY <5>1
      <4> QED BY <1>1, <3>1, <3>3, <4>1, <4>2, <4>3
    <3> QED BY <1>1, <2>1, <2>2, <3>2, <3>3 DEF OrderInv
  <2> QED BY <1>5, <2>3, <2>4
<1>11. NewerInv' /\ BytesInv'
  BY <1>0, <1>1, <1>3, <1>6 DEF IInv, TypeOK, NewerInv, BytesInv, Sending, LastSending
<1>12. NameInv'
  BY <1>0, <1>1, <1>3, <1>6 DEF IInv, TypeOK, NameInv, Known, UnderWay, Running, LastSending, Op
<1>13. PutInv'
  BY <1>0, <1>1, <1>3, <1>6 DEF IInv, TypeOK, PutInv, Known, UnderWay, Running
<1>14. AbandonedErased'
  BY <1>0, <1>1, <1>3, <1>6 DEF IInv, TypeOK, PutInv, NameInv, AbandonedErased, Known, Idle, UnderWay, Running
<1> QED BY <1>7, <1>8, <1>9, <1>10, <1>11, <1>12, <1>13, <1>14 DEF IInv

(* An erasure that gets the lock at once is of its name's newest PUT.    *)
LEMMA EraserBusy ==
  ASSUME TypeOK, NEW o \in Op, NEW held, Reach(o, held), doing'[o] = "erase"
  PROVE  stage'[o] = "busy" => held = "current"
BY DEF Reach, Passes, Returns, TypeOK

(* An erasure that comes to the lock.                                    *)
LEMMA EraserReaches ==
  ASSUME IInv, NEW o \in Op, NEW n \in Name, NEW h \in {"current", "newer", "reclaimed"},
         stage[o] \in {"none", "sent", "failed", "todo"},
         (ComesTo(o, n) /\ h # "reclaimed") \/ (stage' = [stage EXCEPT ![o] = "none"] /\ line' = line),
         name' = [name EXCEPT ![o] = n], holds' = [holds EXCEPT ![o] = h], doing' = [doing EXCEPT ![o] = "erase"],
         UNCHANGED <<entry, state, over, last, answered, fresh, cut, shut, file, lost>>,
         handler' = [p \in Put |-> IF p = o /\ stage'[o] = "none" THEN "none" ELSE handler[p]],
         o \in Put => /\ handler[o] = "background" /\ n = name[o] /\ h = holds[o]
                      /\ stage'[o] = "none" => holds[o] # "current" \/ state[n] = "erased",
         o \in Name => stage[o] = "todo" /\ n = o /\ h = holds[o],
         o \in Del => Known(n), stage'[o] = "busy" => h = "current"
  PROVE  IInv'
<1>0. /\ TypeOK /\ stage \in [Op -> Stage] /\ name \in [Op -> Name] /\ doing \in [Op -> {"send", "erase"}]
      /\ holds \in [Op -> {"current", "newer", "reclaimed"}] /\ handler \in [Put -> Handler]
  BY DEF IInv, TypeOK
<1>1. PICK r \in {"line", "busy", "none"} :
        stage' = [stage EXCEPT ![o] = r] /\ (r # "none" => ComesTo(o, n) /\ h # "reclaimed") /\ (r = "none" => line' = line)
  BY DEF ComesTo
<1>2. /\ stage'[o] = r /\ name'[o] = n /\ holds'[o] = h /\ doing'[o] = "erase"
      /\ \A x \in Op \ {o} : stage'[x] = stage[x] /\ name'[x] = name[x] /\ holds'[x] = holds[x] /\ doing'[x] = doing[x]
  BY <1>0, <1>1
<1>3. \A m \in Name : LastSending(m)' <=> LastSending(m)
  <2>1. \A m \in Name : last[m] \in Op
    BY <1>0 DEF TypeOK, Op
  <2> QED BY <1>0, <1>2, <2>1 DEF LastSending
<1>4. TypeOK'
  <2>1. stage' \in [Op -> Stage] /\ name' \in [Op -> Name] /\ doing' \in [Op -> {"send", "erase"}]
    BY <1>0, <1>1 DEF Stage
  <2>2. handler' \in [Put -> Handler]
    BY <1>0 DEF Handler
  <2>3. line' \in [Name -> Seq(Op)]
    BY <1>0, <1>1 DEF TypeOK, ComesTo
  <2> QED BY <1>0, <2>1, <2>2, <2>3 DEF TypeOK
<1>5. LineInv' /\ LockInv'
  <2>1. CASE r # "none"
    BY <1>1, <2>1, ComesToLine
  <2>2. CASE r = "none"
    BY <1>1, <2>2, PassesLine
  <2> QED BY <2>1, <2>2
<1>6. FreshInv'
  <2>1. \A i \in Nat : ~FreshAt(i, o)
    BY <1>0, Places DEF IInv, FreshInv
  <2>2. \A i, x : FreshAt(i, x)' <=> FreshAt(i, x)
    BY SameFresh
  <2>3. \A p \in Put : p \in Op
    BY DEF Op
  <2> QED BY <1>1, <1>2, <2>1, <2>2, <2>3 DEF IInv, FreshInv
<1>7. OrderInv'
  <2>1. \A x \in Op, how \in {"newer", "current"} : Goes(x, how)' => Goes(x, how) /\ x # o
    BY <1>2 DEF Goes
  <2>2. \A i, x : FreshAt(i, x)' <=> FreshAt(i, x)
    BY SameFresh
  <2>3. \A m \in Name, i \in Nat, x \in Op \ {o} : At(m, i, x)' <=> At(m, i, x)
    BY <1>1, SameLine DEF ComesTo
  <2>4. \A p \in Put : p \in Op
    BY DEF Op
  <2>5. \A m \in Name, i, j \in Nat, x, y \in Op :
         At(m, i, x)' /\ At(m, j, y)' /\ Goes(x, "newer")' /\ Goes(y, "current")' => i < j
    BY <2>1, <2>3 DEF IInv, OrderInv
  <2>6. \A i, j \in Nat, x, y \in Put :
         FreshAt(i, x)' /\ FreshAt(j, y)' /\ name'[x] = name'[y] /\ Goes(x, "newer")' /\ Goes(y, "current")' => i < j
    BY <1>2, <2>1, <2>2, <2>4 DEF IInv, OrderInv
  <2>7. \A j, i \in Nat, x \in Put, y \in Op :
         ~(FreshAt(i, x)' /\ At(name[x], j, y)' /\ Goes(x, "newer")' /\ Goes(y, "current")')
    BY <1>0, <1>2, <2>1, <2>2, <2>3, <2>4 DEF IInv, OrderInv
  <2> QED BY <2>5, <2>6, <2>7 DEF OrderInv
<1>8. NewerInv' /\ BytesInv'
  <2>1. ASSUME NEW x \in Op, NEW m \in Name, m = name'[x], (Sending(x) \/ stage[x] = "busy")', holds'[x] = "newer"
        PROVE  LastSending(m)'
    <3>1. x # o
      BY <1>2, <2>1 DEF Sending
    <3>2. (Sending(x) \/ stage[x] = "busy") /\ holds[x] = "newer" /\ m = name[x]
      BY <1>0, <1>2, <2>1, <3>1 DEF Sending
    <3>3. LastSending(m)
      BY <3>2 DEF IInv, NewerInv
    <3> QED BY <1>3, <3>3
  <2>2. NewerInv'
    <3>1. name' \in [Op -> Name]
      BY <1>4 DEF TypeOK
    <3> QED BY <2>1, <3>1 DEF NewerInv, LastSending
  <2>3. BytesInv'
    BY <1>0, <1>3 DEF IInv, BytesInv
  <2> QED BY <2>2, <2>3
<1>9. NameInv'
  <2>1. \A x \in Op : UnderWay(x)' /\ holds'[x] # "reclaimed" => Known(name[x])'
    <3>1. \A x \in Op \ {o} : UnderWay(x)' => UnderWay(x)
      BY <1>2 DEF UnderWay, Running
    <3>2. UnderWay(o)' /\ h # "reclaimed" => Known(n)
      BY <1>0, <1>2 DEF IInv, NameInv, UnderWay, Running, Op
    <3> QED BY <1>0, <1>2, <3>1, <3>2 DEF IInv, NameInv, Known
  <2>2. \A m \in Name : name'[m] = m /\ (Running(m)' /\ holds'[m] = "current" => over'[m])
    BY <1>0, <1>2 DEF IInv, NameInv, Running, Op
  <2> QED BY <1>0, <1>2, <1>3, <2>1, <2>2 DEF IInv, NameInv, Known
<1>10. PutInv'
  <2>1. \A p \in Put : p \in Op /\ (UnderWay(p)' => UnderWay(p)) /\ name'[p] = name[p] /\ holds'[p] = holds[p]
    BY <1>0, <1>2 DEF UnderWay, Running, Op
  <2>2. \A m \in Name : last[m] \in Put
    BY <1>0 DEF TypeOK
  <2>3. \A p \in Put : handler'[p] \in {"answering", "keeping"} => stage'[p] = "sent"
    BY <1>0, <1>2, <2>1 DEF IInv, PutInv
  <2>4. \A p \in Put : ~shut' /\ Running(p)' => handler'[p] # "none"
    BY <1>0, <1>2, <2>1 DEF IInv, PutInv, Running
  <2> QED BY <2>1, <2>2, <2>3, <2>4 DEF IInv, PutInv, Known
<1>11. AbandonedErased'
  <2>1. \A m \in Name : last[m] \in Put /\ last[m] \in Op
    BY <1>0 DEF TypeOK, Op
  <2> SUFFICES ASSUME NEW m \in Name, state[m] = "live", ~shut, ~answered[m]
               PROVE  name'[last[m]] = m /\ ~Idle(last[m])'
    BY DEF AbandonedErased
  <2>2. name[last[m]] = m /\ UnderWay(last[m])
    BY DEF IInv, AbandonedErased, Idle
  <2>3. CASE last[m] # o
    BY <1>0, <1>2, <2>1, <2>2, <2>3 DEF Idle, UnderWay, Running
  <2>4. CASE last[m] = o
    <3>1. holds[o] = "current"
      BY <2>1, <2>2, <2>4 DEF IInv, PutInv, NameInv
    <3>2. r # "none"
      BY <1>2, <2>1, <2>2, <2>4, <3>1
    <3> QED BY <1>2, <2>1, <2>2, <2>4, <3>2 DEF Idle, UnderWay, Running
  <2> QED BY <2>3, <2>4
<1> QED BY <1>4, <1>5, <1>6, <1>7, <1>8, <1>9, <1>10, <1>11 DEF IInv

LEMMA EraseAfterStep ==
  ASSUME IInv, NEW p \in Put, EraseAfter(p)
  PROVE  IInv'
<1>0. TypeOK /\ p \in Op /\ name[p] \in Name /\ name \in [Op -> Name] /\ holds \in [Op -> {"current", "newer", "reclaimed"}]
  BY DEF IInv, TypeOK, Op
<1>1. /\ handler[p] = "background" /\ stage[p] \in {"sent", "failed"} /\ doing' = [doing EXCEPT ![p] = "erase"]
      /\ UNCHANGED <<entry, state, over, last, answered, fresh, name, holds, cut, shut, file, lost>>
      /\ Reach(p, holds[p]) /\ handler' = [handler EXCEPT ![p] = IF stage'[p] = "none" THEN "none" ELSE handler[p]]
  BY DEF EraseAfter, names
<1>2. name'[p] = name[p] /\ doing'[p] = "erase"
  BY <1>0, <1>1 DEF TypeOK
<1>3. \/ Passes(p, holds[p]) /\ stage' = [stage EXCEPT ![p] = "none"] /\ line' = line
      \/ holds[p] # "reclaimed" /\ ComesTo(p, name[p])
  BY <1>0, <1>1, <1>2, ReachOutcome DEF Returns
<1>4. stage'[p] = "none" => holds[p] # "current" \/ state[name[p]] = "erased"
  <2>1. CASE Passes(p, holds[p])
    BY <1>1, <1>2, <2>1 DEF Passes
  <2>2. CASE ComesTo(p, name[p])
    BY <1>0, <2>2 DEF ComesTo, TypeOK
  <2> QED BY <1>3, <2>1, <2>2
<1>5. handler' = [q \in Put |-> IF q = p /\ stage'[p] = "none" THEN "none" ELSE handler[q]]
  BY <1>0, <1>1 DEF TypeOK
<1>6. name' = [name EXCEPT ![p] = name[p]] /\ holds' = [holds EXCEPT ![p] = holds[p]]
  BY <1>0, <1>1
<1>7. p \notin Name /\ p \notin Del /\ holds[p] \in {"current", "newer", "reclaimed"}
  BY <1>0
<1>8. ASSUME NEW n \in Name, n = name[p], NEW h \in {"current", "newer", "reclaimed"}, h = holds[p]
      PROVE  IInv'
  <2>1. stage[p] \in {"none", "sent", "failed", "todo"}
    BY <1>1
  <2>2. (ComesTo(p, n) /\ h # "reclaimed") \/ (stage' = [stage EXCEPT ![p] = "none"] /\ line' = line)
    BY <1>3, <1>8
  <2>3. name' = [name EXCEPT ![p] = n] /\ holds' = [holds EXCEPT ![p] = h]
    BY <1>6, <1>8
  <2>4. /\ handler[p] = "background" /\ n = name[p] /\ h = holds[p]
        /\ stage'[p] = "none" => holds[p] # "current" \/ state[n] = "erased"
    BY <1>1, <1>4, <1>8
  <2>5. UNCHANGED <<entry, state, over, last, answered, fresh, cut, shut, file, lost>>
    BY <1>1
  <2>6. p \in Op /\ p \notin Name /\ p \notin Del /\ doing' = [doing EXCEPT ![p] = "erase"]
    BY <1>0, <1>1, <1>7
  <2>7. stage'[p] = "busy" => h = "current"
    BY <1>0, <1>1, <1>2, <1>8, EraserBusy
  <2> HIDE DEF IInv
  <2> QED BY <1>5, <2>1, <2>2, <2>3, <2>4, <2>5, <2>6, <2>7, EraserReaches
<1> QED BY <1>0, <1>7, <1>8

LEMMA EraseStep ==
  ASSUME IInv, NEW d \in Del, NEW s \in Scope, NEW n \in Name, Erase(d, s, n)
  PROVE  IInv'
<1>0. TypeOK /\ d \in Op /\ d \notin Put /\ d \notin Name
  BY DEF IInv, TypeOK, Op
<1>1. /\ stage[d] = "none" /\ Known(n) /\ name' = [name EXCEPT ![d] = n] /\ holds' = [holds EXCEPT ![d] = "current"]
      /\ UNCHANGED <<entry, state, over, last, answered, fresh, doing, handler, cut, shut, file, lost>>
      /\ Reach(d, "current")
  BY DEF Erase, names
<1>2. name'[d] = n /\ doing[d] = "erase" /\ doing' = [doing EXCEPT ![d] = "erase"]
  BY <1>0, <1>1 DEF TypeOK, IInv, NameInv
<1>3. \/ stage' = [stage EXCEPT ![d] = "none"] /\ line' = line
      \/ ComesTo(d, n)
  BY <1>0, <1>1, <1>2, ReachOutcome DEF Returns
<1>4. handler' = [q \in Put |-> IF q = d /\ stage'[d] = "none" THEN "none" ELSE handler[q]]
  BY <1>0, <1>1 DEF TypeOK
<1> QED BY <1>0, <1>1, <1>2, <1>3, <1>4, EraserReaches

(* A name is forgotten: nobody is left in its line, and those who work on *)
(* it find it reclaimed.                                                  *)
LEMMA GoneStep ==
  ASSUME IInv, NEW n \in Name, NEW how \in {"unerased", "refused"}, Gone(n, how),
         state' = [state EXCEPT ![n] = "none"],
         stage' = [stage EXCEPT ![n] = "none"] \/ (stage' = stage /\ stage[n] # "busy"),
         \A x \in Op : stage[x] = "busy" /\ name[x] = n => x = n,
         line' \in [Name -> Seq(Op)],
         \A m \in Name, i \in Nat, x \in Op : At(m, i, x)' <=> m # n /\ At(m, i, x),
         file' \in [Name -> Put \cup {Blank}], \A m \in Name \ {n} : file'[m] = file[m],
         UNCHANGED <<last, answered, fresh, name, doing, handler, cut, shut>>
  PROVE  IInv'
<1>0. /\ TypeOK /\ stage \in [Op -> Stage] /\ name \in [Op -> Name] /\ doing \in [Op -> {"send", "erase"}]
      /\ holds \in [Op -> {"current", "newer", "reclaimed"}] /\ handler \in [Put -> Handler]
      /\ last \in [Name -> Put] /\ n \in Op /\ n \notin Put
      /\ entry \in [Name -> Scope \cup {NoScope}] /\ over \in [Name -> BOOLEAN]
      /\ state \in [Name -> {"none", "sending", "live", "stale", "erased"}]
      /\ lost \in [Name -> {"no", "unerased", "refused"}]
  BY DEF IInv, TypeOK, Op
<1>1. /\ entry' = [entry EXCEPT ![n] = NoScope] /\ over' = [over EXCEPT ![n] = FALSE]
      /\ holds' = Superseded(n, "reclaimed")
      /\ lost' = [lost EXCEPT ![n] = IF file'[n] # Blank THEN how ELSE lost[n]]
  BY DEF Gone
<1>2. \A x \in Op : holds'[x] = IF name[x] = n /\ UnderWay(x) /\ holds[x] # "reclaimed" THEN "reclaimed" ELSE holds[x]
  BY <1>1 DEF Superseded
<1>3. /\ \A x \in Op \ {n} : stage'[x] = stage[x]
      /\ stage'[n] \in {"none", stage[n]} /\ stage'[n] # "busy"
  BY <1>0
<1>4. \A p \in Put : p \in Op /\ p # n /\ stage'[p] = stage[p]
  BY <1>0, <1>3 DEF Op
<1>5. \A x \in Op : name[x] = n /\ UnderWay(x) => holds'[x] = "reclaimed"
  BY <1>0, <1>2
<1>6. \A x \in Op : name[x] # n => holds'[x] = holds[x]
  BY <1>2
<1>7. TypeOK'
  <2>1. holds' \in [Op -> {"current", "newer", "reclaimed"}]
    BY <1>0, <1>1 DEF Superseded
  <2>2. stage' \in [Op -> Stage]
    BY <1>0 DEF Stage
  <2>3. entry' \in [Name -> Scope \cup {NoScope}] /\ over' \in [Name -> BOOLEAN]
    BY <1>0, <1>1
  <2>4. state' \in [Name -> {"none", "sending", "live", "stale", "erased"}]
    BY <1>0
  <2>5. lost' \in [Name -> {"no", "unerased", "refused"}]
    BY <1>0, <1>1
  <2> QED BY <1>0, <2>1, <2>2, <2>3, <2>4, <2>5 DEF TypeOK
<1>8. LineInv'
  <2>1. \A m \in Name, i \in Nat, x \in Op : At(m, i, x)' => /\ At(m, i, x) /\ name[x] = m /\ x # n
                                                         /\ stage'[x] = stage[x] /\ holds'[x] = holds[x]
    BY <1>0, <1>3, <1>6 DEF IInv, LineInv, NameInv
  <2> SUFFICES ASSUME NEW m \in Name, NEW i \in Nat, NEW x \in Op, At(m, i, x)'
               PROVE  /\ name'[x] = m /\ holds'[x] # "reclaimed"
                      /\ stage'[x] = "line" \/ (i = 1 /\ stage'[x] = "busy")
                      /\ \A j \in Nat : At(m, j, x)' => i = j
    BY DEF LineInv
  <2>2. /\ holds[x] # "reclaimed" /\ (stage[x] = "line" \/ (i = 1 /\ stage[x] = "busy"))
        /\ \A j \in Nat : At(m, j, x) => i = j
    BY <2>1 DEF IInv, LineInv
  <2> QED BY <2>1, <2>2
<1>9. LockInv'
  <2> SUFFICES ASSUME NEW x \in Op, stage'[x] = "busy" \/ (stage'[x] = "line" /\ holds'[x] # "reclaimed")
               PROVE  /\ stage'[x] = "busy" => At(name[x], 1, x)'
                      /\ stage'[x] = "line" /\ holds'[x] # "reclaimed" => \E i \in Nat : At(name[x], i, x)'
    BY DEF LockInv
  <2>1. stage'[x] = stage[x] /\ name[x] \in Name /\ name'[x] = name[x]
    BY <1>0, <1>3
  <2>2. name[x] # n
    BY <1>3, <1>5, <2>1 DEF UnderWay, Running
  <2> QED BY <1>6, <2>1, <2>2 DEF IInv, LockInv
<1>10. FreshInv'
  BY <1>0, <1>3, <1>4, SameFresh DEF IInv, FreshInv
<1>11. \A x \in Op, how1 \in {"newer", "current"} : UnderWay(x) /\ Goes(x, how1)' => Goes(x, how1) /\ name[x] # n
  BY <1>2, <1>5 DEF Goes
<1>12. OrderInv'
  <2>1. \A m \in Name, i, j \in Nat, x, y \in Op :
         At(m, i, x)' /\ At(m, j, y)' /\ Goes(x, "newer")' /\ Goes(y, "current")' => i < j
    BY <1>11 DEF IInv, OrderInv, LineInv, UnderWay, Running
  <2>2. \A i \in Nat, x \in Put : FreshAt(i, x)' => FreshAt(i, x) /\ x \in Op /\ UnderWay(x)
    BY <1>4, SameFresh DEF IInv, FreshInv, UnderWay, Running
  <2>3. \A i, j \in Nat, x, y \in Put :
         FreshAt(i, x)' /\ FreshAt(j, y)' /\ name'[x] = name'[y] /\ Goes(x, "newer")' /\ Goes(y, "current")' => i < j
    BY <1>11, <2>2 DEF IInv, OrderInv
  <2>4. \A m \in Name, j \in Nat, y \in Op : At(m, j, y)' => At(m, j, y) /\ UnderWay(y)
    BY ZenonT(30) DEF IInv, LineInv, UnderWay, Running
  <2>5. \A j, i \in Nat, x \in Put, y \in Op :
         ~(FreshAt(i, x)' /\ At(name[x], j, y)' /\ Goes(x, "newer")' /\ Goes(y, "current")')
    BY <1>0, <1>4, <1>11, <2>2, <2>4 DEF IInv, OrderInv
  <2> QED BY <2>1, <2>3, <2>5 DEF OrderInv
<1>13. \A m \in Name \ {n} : LastSending(m)' <=> LastSending(m)
  BY <1>0, <1>4, <1>6 DEF LastSending
<1>14. NewerInv'
  <2> SUFFICES ASSUME NEW x \in Op, (Sending(x) \/ stage[x] = "busy")', holds'[x] = "newer"
               PROVE  LastSending(name[x])'
    BY DEF NewerInv, LastSending
  <2>1. (Sending(x) \/ stage[x] = "busy") /\ UnderWay(x)
    BY <1>3, <1>4 DEF Sending, UnderWay, Running
  <2>2. name[x] # n /\ holds[x] = "newer" /\ name[x] \in Name
    BY <1>0, <1>5, <1>6, <2>1
  <2>3. LastSending(name[x])
    BY <2>1, <2>2 DEF IInv, NewerInv
  <2>4. name' = name
    OBVIOUS
  <2> QED BY <1>13, <2>2, <2>3, <2>4
<1>15. BytesInv'
  <2>1. lost'[n] # "no" \/ file'[n] = Blank
    BY <1>0, <1>1
  <2>2. \A m \in Name \ {n} : state'[m] = state[m] /\ lost'[m] = lost[m]
    BY <1>0, <1>1
  <2> QED BY <1>13, <2>1, <2>2 DEF IInv, BytesInv
<1>16. NameInv'
  <2>1. \A x \in Op : UnderWay(x)' => UnderWay(x)
    BY <1>0, <1>3 DEF UnderWay, Running
  <2>2. \A x \in Op : UnderWay(x)' /\ holds'[x] # "reclaimed" => Known(name[x])'
    BY <1>0, <1>1, <1>5, <1>6, <2>1 DEF IInv, NameInv, Known
  <2>3. \A m \in Name : Known(m)' <=> state'[m] # "none"
    BY <1>0, <1>1 DEF IInv, NameInv, Known
  <2>4. \A m \in Name : state'[m] = "sending" => LastSending(m)'
    BY <1>0, <1>13 DEF IInv, NameInv
  <2>5. \A m \in Name : name'[m] = m /\ (Running(m)' /\ holds'[m] = "current" => over'[m])
    <3>1. \A m \in Name \ {n} : m \in Op /\ name[m] = m /\ stage'[m] = stage[m] /\ holds'[m] = holds[m] /\ over'[m] = over[m]
      BY <1>0, <1>1, <1>3, <1>6 DEF IInv, NameInv, Op
    <3>2. name[n] = n
      BY DEF IInv, NameInv
    <3>3. Running(n)' => holds'[n] # "current"
      BY <1>0, <1>3, <1>5, <3>2 DEF Running, UnderWay
    <3> QED BY <3>1, <3>2, <3>3 DEF IInv, NameInv, Running
  <2> QED BY <2>2, <2>3, <2>4, <2>5 DEF IInv, NameInv
<1>17. PutInv'
  <2>1. \A p \in Put : UnderWay(p)' <=> UnderWay(p)
    BY <1>4 DEF UnderWay, Running
  <2>2. \A p \in Put : UnderWay(p)' /\ holds'[p] = "current" => last[name[p]] = p /\ ~answered[name[p]]
    BY <1>4, <1>2, <2>1 DEF IInv, PutInv
  <2>3. \A m \in Name : Known(m)' /\ name[last[m]] = m /\ UnderWay(last[m])' => holds'[last[m]] = "current"
    BY <1>0, <1>1, <1>4, <1>6, <2>1 DEF IInv, PutInv, Known
  <2>4. \A p \in Put : /\ handler[p] \in {"answering", "keeping"} => stage'[p] = "sent"
                       /\ ~shut /\ Running(p)' => handler[p] # "none"
    BY <1>4 DEF IInv, PutInv, Running
  <2> QED BY <2>2, <2>3, <2>4 DEF PutInv
<1>18. AbandonedErased'
  <2>1. \A p \in Put : Idle(p)' <=> Idle(p)
    BY <1>4 DEF Idle, UnderWay, Running
  <2> QED BY <1>0, <2>1 DEF IInv, AbandonedErased
<1> QED BY <1>7, <1>8, <1>9, <1>10, <1>12, <1>14, <1>15, <1>16, <1>17, <1>18 DEF IInv

LEMMA ClaimRefusedStep ==
  ASSUME IInv, NEW s \in Scope, NEW n \in Name, ClaimRefused(s, n)
  PROVE  IInv'
<1>0. TypeOK /\ name \in [Op -> Name]
  BY DEF IInv, TypeOK
<1>1. /\ ~Locked(n) /\ Gone(n, "refused") /\ state' = [state EXCEPT ![n] = "none"] /\ line' = [line EXCEPT ![n] = <<>>]
      /\ UNCHANGED <<last, answered, fresh, name, doing, stage, handler, cut, shut, file>>
  BY DEF ClaimRefused, Reclaims
<1>2. \A x \in Op : ~(stage[x] = "busy" /\ name[x] = n)
  <2> SUFFICES ASSUME NEW x \in Op, stage[x] = "busy", name[x] = n PROVE FALSE
    OBVIOUS
  <2>1. At(n, 1, x) /\ line[n] \in Seq(Op)
    BY <1>0 DEF IInv, LockInv, TypeOK
  <2>2. line[n] # <<>> /\ Head(line[n]) = x
    BY <2>1 DEF At
  <2> QED BY <1>1, <2>2 DEF Locked
<1>3. \A m \in Name, i \in Nat, x \in Op : At(m, i, x)' <=> m # n /\ At(m, i, x)
  BY <1>0, <1>1, Emptied
<1>4. line' \in [Name -> Seq(Op)] /\ file' \in [Name -> Put \cup {Blank}] /\ \A m \in Name \ {n} : file'[m] = file[m]
  BY <1>0, <1>1 DEF TypeOK
<1>5. n \in Op /\ name[n] = n
  BY DEF Op, IInv, NameInv
<1>6. stage' = stage /\ stage[n] # "busy"
  BY <1>1, <1>2, <1>5
<1> QED BY <1>1, <1>2, <1>3, <1>4, <1>6, GoneStep

LEMMA SweepLooksStep ==
  ASSUME IInv, NEW n \in Name, SweepLooks(n)
  PROVE  IInv'
<1>0. /\ TypeOK /\ n \in Op /\ name[n] = n /\ name \in [Op -> Name] /\ doing[n] = "erase" /\ doing \in [Op -> {"send", "erase"}]
      /\ holds \in [Op -> {"current", "newer", "reclaimed"}] /\ n \notin Put /\ n \notin Del
      /\ state \in [Name -> {"none", "sending", "live", "stale", "erased"}]
  BY DEF IInv, TypeOK, NameInv, Op
<1>1. /\ stage[n] = "todo" /\ Reach(n, holds[n])
      /\ UNCHANGED <<last, answered, fresh, name, doing, handler, cut, shut, file>>
      /\ IF stage'[n] = "none" THEN SweptOrNot(n, state[n]) ELSE UNCHANGED <<entry, state, over, holds, lost>>
  BY DEF SweepLooks
<1>2. \/ /\ line[n] = <<>> \/ holds[n] = "reclaimed"
         /\ stage' = [stage EXCEPT ![n] = "none"] /\ line' = line
      \/ holds[n] # "reclaimed" /\ ComesTo(n, n)
  BY <1>0, <1>1, ReachOutcome DEF Returns
<1>3. stage'[n] = "none" => stage' = [stage EXCEPT ![n] = "none"] /\ line' = line /\ (line[n] = <<>> \/ holds[n] = "reclaimed")
  BY <1>0, <1>2 DEF ComesTo, TypeOK
<1>4. CASE stage'[n] = "none" /\ Forgets(n)
  <2>1. Gone(n, "unerased") /\ state' = [state EXCEPT ![n] = "none"]
    BY <1>1, <1>4 DEF SweptOrNot
  <2>2. line[n] = <<>>
    BY <1>3, <1>4 DEF Forgets
  <2>3. \A i \in Nat, x \in Op : ~At(n, i, x)
    BY <1>0, <2>2, Places
  <2>4. \A m \in Name, i \in Nat, x \in Op : At(m, i, x)' <=> m # n /\ At(m, i, x)
    BY <1>3, <1>4, <2>3, SameLine
  <2>5. \A x \in Op : ~(stage[x] = "busy" /\ name[x] = n)
    BY <2>3 DEF IInv, LockInv
  <2>6. line' \in [Name -> Seq(Op)] /\ file' \in [Name -> Put \cup {Blank}] /\ \A m \in Name \ {n} : file'[m] = file[m]
    BY <1>0, <1>1, <1>3, <1>4 DEF TypeOK
  <2> QED BY <1>1, <1>3, <1>4, <2>1, <2>4, <2>5, <2>6, GoneStep
<1>5. CASE ~(stage'[n] = "none" /\ Forgets(n))
  <2>1. UNCHANGED <<entry, over, holds, lost>> /\ state' = state
    BY <1>0, <1>1, <1>5 DEF SweptOrNot
  <2>2. (ComesTo(n, n) /\ holds[n] # "reclaimed") \/ (stage' = [stage EXCEPT ![n] = "none"] /\ line' = line)
    BY <1>2
  <2>3. /\ name' = [name EXCEPT ![n] = n] /\ holds' = [holds EXCEPT ![n] = holds[n]] /\ doing' = [doing EXCEPT ![n] = "erase"]
        /\ holds[n] \in {"current", "newer", "reclaimed"}
    BY <1>0, <1>1, <2>1
  <2>4. handler' = [p \in Put |-> IF p = n /\ stage'[n] = "none" THEN "none" ELSE handler[p]]
    BY <1>0, <1>1 DEF TypeOK
  <2>5. UNCHANGED <<entry, state, over, last, answered, fresh, cut, shut, file, lost>>
    BY <1>1, <2>1
  <2>6. /\ n \in Op /\ n \notin Put /\ n \notin Del /\ stage[n] = "todo"
        /\ stage[n] \in {"none", "sent", "failed", "todo"}
    BY <1>0, <1>1
  <2>7. stage'[n] = "busy" => holds[n] = "current"
    BY <1>0, <1>1, EraserBusy
  <2> HIDE DEF IInv
  <2> QED BY <2>2, <2>3, <2>4, <2>5, <2>6, <2>7, EraserReaches
<1> QED BY <1>4, <1>5

(* A waiter gets the lock, and has something to do with it.              *)
LEMMA TurnBusyStep ==
  ASSUME IInv, NEW o \in Op, Turn(o), ~Passes(o, holds[o])
  PROVE  IInv'
<1>0. TypeOK /\ stage \in [Op -> Stage] /\ name \in [Op -> Name] /\ doing \in [Op -> {"send", "erase"}]
  BY DEF IInv, TypeOK
<1>1. /\ stage[o] = "line" /\ (holds[o] # "reclaimed" => Head(line[name[o]]) = o)
      /\ stage' = [stage EXCEPT ![o] = "busy"]
      /\ UNCHANGED <<last, answered, fresh, name, doing, cut, shut, file, line, handler, entry, state, over, holds, lost>>
  BY DEF Turn
<1>2. holds[o] # "reclaimed"
  BY <1>0, <1>1 DEF Passes
<1>3. At(name[o], 1, o)
  <2>1. PICK i \in Nat : At(name[o], i, o)
    BY <1>1, <1>2 DEF IInv, LockInv
  <2>2. line[name[o]] \in Seq(Op) /\ line[name[o]] # <<>> /\ Head(line[name[o]]) = o
    BY <1>0, <1>1, <1>2, <2>1, Places DEF TypeOK
  <2> QED BY <2>2 DEF At
<1>4. \A x \in Op \ {o} : stage'[x] = stage[x]
  BY <1>0, <1>1
<1>5. stage'[o] = "busy"
  BY <1>0, <1>1
<1>6. TypeOK'
  BY <1>0, <1>1 DEF TypeOK, Stage
<1>7. LineInv' /\ LockInv'
  <2>1. \A n \in Name, i \in Nat : At(n, i, o) => i = 1
    BY <1>3 DEF IInv, LineInv
  <2>2. LineInv'
    BY <1>1, <1>4, <1>5, <2>1, SameLine DEF IInv, LineInv
  <2>3. LockInv'
    BY <1>0, <1>1, <1>3, <1>4, <1>5, SameLine DEF IInv, LockInv
  <2> QED BY <2>2, <2>3
<1>8. FreshInv' /\ OrderInv'
  <2>1. FreshInv'
    BY <1>0, <1>1, <1>4, <1>5, SameFresh DEF IInv, FreshInv, Op
  <2>2. UNCHANGED <<line, fresh, name, holds, doing>>
    BY <1>1
  <2> QED BY <2>1, <2>2, OrderStays
<1>9. \A x \in Op : Running(x)' <=> Running(x)
  BY <1>1, <1>4, <1>5 DEF Running
<1>10. \A n \in Name : LastSending(n)' <=> LastSending(n)
  <2>1. \A n \in Name : last[n] \in Op
    BY <1>0 DEF TypeOK, Op
  <2> QED BY <1>1, <1>4, <1>5, <2>1 DEF LastSending
<1>11. NewerInv' /\ BytesInv'
  <2>1. ASSUME NEW x \in Op, (Sending(x) \/ stage[x] = "busy")', holds[x] = "newer"
        PROVE  LastSending(name[x])
    <3>1. CASE x = o
      <4>1. doing[o] = "send"
        BY <1>0, <1>1, <2>1, <3>1 DEF Passes
      <4>2. Sending(o)
        BY <1>1, <4>1 DEF IInv, NameInv, Sending
      <4> QED BY <2>1, <3>1, <4>2 DEF IInv, NewerInv
    <3>2. CASE x # o
      <4>1. Sending(x) \/ stage[x] = "busy"
        BY <1>1, <1>4, <2>1, <3>2 DEF Sending
      <4> QED BY <2>1, <4>1 DEF IInv, NewerInv
    <3> QED BY <3>1, <3>2
  <2>2. NewerInv'
    BY <1>0, <1>1, <1>10, <2>1 DEF NewerInv
  <2>3. BytesInv'
    BY <1>0, <1>1, <1>10 DEF IInv, BytesInv
  <2> QED BY <2>2, <2>3
<1>12. NameInv'
  BY <1>0, <1>1, <1>9, <1>10 DEF IInv, NameInv, Known, UnderWay, Op
<1>13. PutInv' /\ AbandonedErased'
  <2>1. \A p \in Put : p \in Op /\ (Running(p)' <=> Running(p)) /\ (UnderWay(p)' <=> UnderWay(p)) /\ (Idle(p)' <=> Idle(p))
    BY <1>1, <1>9 DEF UnderWay, Idle, Op
  <2>2. \A n \in Name : last[n] \in Put
    BY <1>0 DEF TypeOK
  <2>3. \A p \in Put : stage[p] = "sent" => stage'[p] = "sent"
    BY <1>1, <1>4, <2>1
  <2>4. PutInv'
    BY <1>1, <2>1, <2>2, <2>3 DEF IInv, PutInv, Known
  <2>5. AbandonedErased'
    BY <1>1, <2>1, <2>2 DEF IInv, AbandonedErased
  <2> QED BY <2>4, <2>5
<1> QED BY <1>6, <1>7, <1>8, <1>11, <1>12, <1>13 DEF IInv

(* A send or an erasure ends, with file and state as it leaves them.     *)
Ends(o, to, bytes, r) ==
  /\ stage[o] = "busy" \/ (stage[o] = "line" /\ (holds[o] # "reclaimed" => Head(line[name[o]]) = o))
  /\ stage' = [stage EXCEPT ![o] = r]
  /\ (doing[o] = "send" /\ r \in {"sent", "failed"}) \/ (doing[o] = "erase" /\ r = "none")
  /\ UNCHANGED <<last, answered, fresh, name, doing, cut, shut>>
  /\ Leaves(o) /\ HandlerEnds(o) /\ SweptOrNot(o, to)
  /\ file' = [file EXCEPT ![name[o]] = bytes] /\ bytes \in {file[name[o]], Content(o)}
  /\ holds[o] = "reclaimed" \/ stage[o] = "line" => bytes = file[name[o]]
  /\ holds[o] # "current" => to = state[name[o]]
  /\ holds[o] = "current" /\ doing[o] = "send" => to \in {"live", "stale"} /\ fresh = <<>> /\ stage[o] = "busy"
  /\ holds[o] = "current" /\ doing[o] = "erase" =>
       to = "stale" \/ (to = "erased" /\ (bytes = Blank \/ (state[name[o]] = "erased" /\ bytes = file[name[o]])))

(* Who has the lock ends: its bytes are sent or erased, the next has   *)
(* the lock, and a name with nobody left is forgotten.                 *)
LEMMA FirstInLine ==
  ASSUME IInv, NEW o \in Op, holds[o] # "reclaimed",
         stage[o] = "busy" \/ (stage[o] = "line" /\ Head(line[name[o]]) = o)
  PROVE  /\ name[o] \in Name /\ line[name[o]] # <<>> /\ At(name[o], 1, o)
         /\ \A i \in Nat : At(name[o], i, o) => i = 1
         /\ \A x \in Op : At(name[o], 1, x) => x = o
         /\ \A x \in Op : stage[x] = "busy" /\ name[x] = name[o] => x = o
<1>0. TypeOK /\ name[o] \in Name /\ line[name[o]] \in Seq(Op)
  BY DEF IInv, TypeOK
<1>1. At(name[o], 1, o) /\ line[name[o]] # <<>>
  <2>1. CASE stage[o] = "busy"
    <3>1. At(name[o], 1, o)
      BY <2>1 DEF IInv, LockInv
    <3> QED BY <1>0, <3>1, Places
  <2>2. CASE stage[o] = "line" /\ Head(line[name[o]]) = o
    <3>1. PICK i \in Nat : At(name[o], i, o)
      BY <2>2 DEF IInv, LockInv
    <3>2. line[name[o]] # <<>>
      BY <1>0, <3>1, Places
    <3> QED BY <1>0, <2>2, <3>2 DEF At
  <2> QED BY <2>1, <2>2
<1>2. \A i \in Nat : At(name[o], i, o) => i = 1
  BY <1>0, <1>1 DEF IInv, LineInv
<1>3. \A x \in Op : At(name[o], 1, x) => x = o
  BY <1>0, <1>1, Places
<1>4. \A x \in Op : stage[x] = "busy" /\ name[x] = name[o] => x = o
  BY <1>3 DEF IInv, LockInv
<1> QED BY <1>0, <1>1, <1>2, <1>3, <1>4

LEMMA ForgetsStep ==
  ASSUME IInv, NEW o \in Op, NEW to, NEW bytes, NEW r, Ends(o, to, bytes, r), Forgets(o)
  PROVE  IInv'
<1>0. /\ TypeOK /\ o \in Name /\ name[o] = o /\ doing[o] = "erase" /\ o \notin Put
      /\ holds[o] = "current" /\ line \in [Name -> Seq(Op)] /\ file \in [Name -> Put \cup {Blank}]
  BY DEF IInv, TypeOK, NameInv, Forgets
<1>1. Gone(o, "unerased") /\ state' = [state EXCEPT ![o] = "none"]
  BY DEF Ends, SweptOrNot
<1>2. stage' = [stage EXCEPT ![o] = "none"] /\ UNCHANGED <<last, answered, fresh, name, doing, cut, shut>>
  BY <1>0 DEF Ends
<1>3. \A x \in Op : stage[x] = "busy" /\ name[x] = o => x = o
  BY <1>0, FirstInLine DEF Ends
<1>4. line' = [line EXCEPT ![o] = <<>>]
  BY <1>0 DEF Ends, Leaves
<1>5. \A m \in Name, i \in Nat, x \in Op : At(m, i, x)' <=> m # o /\ At(m, i, x)
  BY <1>0, <1>4, Emptied
<1>6. /\ line' \in [Name -> Seq(Op)] /\ file' \in [Name -> Put \cup {Blank}]
      /\ \A m \in Name \ {o} : file'[m] = file[m]
  BY <1>0, <1>4 DEF Ends, Content
<1>7. handler' = handler
  BY <1>0 DEF Ends, HandlerEnds, TypeOK
<1> HIDE DEF IInv
<1> QED BY <1>0, <1>1, <1>2, <1>3, <1>5, <1>6, <1>7, GoneStep

LEMMA EndsStep ==
  ASSUME IInv, NEW o \in Op, NEW to, NEW bytes, NEW r, Ends(o, to, bytes, r), ~Forgets(o)
  PROVE  IInv'
<1> DEFINE n == name[o]
<1>0. /\ TypeOK /\ stage \in [Op -> Stage] /\ name \in [Op -> Name] /\ doing \in [Op -> {"send", "erase"}]
      /\ holds \in [Op -> {"current", "newer", "reclaimed"}] /\ handler \in [Put -> Handler]
      /\ last \in [Name -> Put] /\ n \in Name /\ line \in [Name -> Seq(Op)]
      /\ state \in [Name -> {"none", "sending", "live", "stale", "erased"}]
      /\ file \in [Name -> Put \cup {Blank}] /\ \A p \in Put : p \in Op
  BY DEF IInv, TypeOK, Op
<1>1. UNCHANGED <<entry, over, holds, lost, last, answered, fresh, name, doing, cut, shut>>
  BY DEF Ends, SweptOrNot
<1>2. state' = [state EXCEPT ![n] = to] /\ file' = [file EXCEPT ![n] = bytes]
  BY DEF Ends, SweptOrNot
<1>3. /\ stage[o] \in {"line", "busy"} /\ stage'[o] = r /\ r \in {"none", "sent", "failed"}
      /\ \A x \in Op \ {o} : stage'[x] = stage[x]
      /\ stage' \in [Op -> Stage]
  BY <1>0 DEF Ends, Stage
<1>4. /\ \A p \in Put : handler'[p] = IF p = o /\ doing[p] = "erase" THEN "none" ELSE handler[p]
      /\ handler' \in [Put -> Handler]
  BY <1>0 DEF Ends, HandlerEnds, Handler
<1>5. holds[o] # "reclaimed" => /\ line[n] # <<>> /\ At(n, 1, o)
                                /\ \A i \in Nat : At(n, i, o) => i = 1
                                /\ \A x \in Op : At(n, 1, x) => x = o
                                /\ \A x \in Op : stage[x] = "busy" /\ name[x] = n => x = o
  BY FirstInLine DEF Ends
<1>6. holds[o] = "reclaimed" => \A m \in Name, i \in Nat : ~At(m, i, o)
  BY DEF IInv, LineInv
<1>7. /\ line' \in [Name -> Seq(Op)]
      /\ \A m \in Name, i \in Nat, x \in Op :
           At(m, i, x)' <=> IF m = n /\ holds[o] # "reclaimed" THEN i >= 1 /\ At(m, i + 1, x) ELSE At(m, i, x)
  <2>1. CASE holds[o] = "reclaimed"
    <3>1. line' = line
      BY <1>0, <2>1 DEF Ends, Leaves, Forgets
    <3> QED BY <1>0, <2>1, <3>1, SameLine
  <2>2. CASE holds[o] # "reclaimed"
    <3>1. line' = [line EXCEPT ![n] = Tail(line[n])]
      BY <1>0, <2>2 DEF Ends, Leaves
    <3>2. \A m \in Name, i \in Nat, x \in Op : At(m, i, x)' <=> IF m = n THEN i >= 1 /\ At(m, i + 1, x) ELSE At(m, i, x)
      BY <1>0, <1>5, <2>2, <3>1, FirstLeaves
    <3>3. Tail(line[n]) \in Seq(Op)
      BY <1>0, <1>5, <2>2
    <3>4. line' \in [Name -> Seq(Op)]
      BY <1>0, <3>1, <3>3
    <3> QED BY <2>2, <3>2, <3>4
  <2> QED BY <2>1, <2>2
<1>8. /\ holds[o] # "current" => to = state[n]
      /\ holds[o] = "current" /\ doing[o] = "send" => to \in {"live", "stale"} /\ fresh = <<>> /\ stage[o] = "busy"
      /\ holds[o] = "current" /\ doing[o] = "erase" =>
           to = "stale" \/ (to = "erased" /\ (bytes = Blank \/ (state[n] = "erased" /\ bytes = file[n])))
      /\ bytes \in {file[n], Content(o)} /\ (holds[o] = "reclaimed" => bytes = file[n])
      /\ doing[o] = "send" \/ doing[o] = "erase"
  BY DEF Ends
<1>9. doing[o] = "send" => o \in Put
  BY DEF IInv, NameInv
<1>10. UnderWay(o) /\ Running(o)
  BY <1>3 DEF UnderWay, Running
<1>11. holds[o] = "current" => Known(n) /\ state[n] # "none"
  BY <1>0, <1>10 DEF IInv, NameInv
<1>12. to \in {"none", "sending", "live", "stale", "erased"}
  BY <1>0, <1>8
<1> HIDE DEF n
<1>13. TypeOK'
  <2>1. state' \in [Name -> {"none", "sending", "live", "stale", "erased"}]
    BY <1>0, <1>2, <1>12
  <2>2. bytes \in Put \cup {Blank}
    BY <1>0, <1>8, <1>9 DEF Content
  <2>3. file' \in [Name -> Put \cup {Blank}]
    BY <1>0, <1>2, <2>2
  <2> QED BY <1>0, <1>1, <1>3, <1>4, <1>7, <2>1, <2>3 DEF TypeOK
<1>14. LineInv'
  <2> SUFFICES ASSUME NEW m \in Name, NEW i \in Nat, NEW x \in Op, At(m, i, x)'
               PROVE  /\ name[x] = m /\ holds[x] # "reclaimed"
                      /\ stage'[x] = "line" \/ (i = 1 /\ stage'[x] = "busy")
                      /\ \A j \in Nat : At(m, j, x)' => i = j
    BY <1>1 DEF LineInv
  <2>1. CASE m = n /\ holds[o] # "reclaimed"
    <3>1. i >= 1 /\ i + 1 \in Nat /\ At(n, i + 1, x)
      BY <1>7, <2>1
    <3>2. name[x] = n /\ holds[x] # "reclaimed" /\ stage[x] = "line" /\ \A j \in Nat : At(n, j, x) => i + 1 = j
      BY <1>0, <3>1 DEF IInv, LineInv
    <3>3. x # o
      BY <1>5, <2>1, <3>1
    <3>4. ASSUME NEW j \in Nat, At(m, j, x)' PROVE i = j
      <4>1. j + 1 \in Nat /\ At(n, j + 1, x)
        BY <1>7, <2>1, <3>4
      <4> QED BY <3>2, <4>1
    <3> QED BY <1>3, <2>1, <3>2, <3>3, <3>4
  <2>2. CASE ~(m = n /\ holds[o] # "reclaimed")
    <3>1. At(m, i, x) /\ \A j \in Nat : At(m, j, x)' => At(m, j, x)
      BY <1>7, <2>2
    <3>2. name[x] = m /\ holds[x] # "reclaimed"
      BY <3>1 DEF IInv, LineInv
    <3>3. x # o
      BY <2>2, <3>2 DEF n
    <3> QED BY <1>3, <3>1, <3>2, <3>3 DEF IInv, LineInv
  <2> QED BY <2>1, <2>2
<1>15. LockInv'
  <2> SUFFICES ASSUME NEW x \in Op, x # o, name[x] \in Name
               PROVE  /\ stage[x] = "busy" => At(name[x], 1, x)'
                      /\ stage[x] = "line" /\ holds[x] # "reclaimed" => \E i \in Nat : At(name[x], i, x)'
    BY <1>0, <1>1, <1>3 DEF LockInv
  <2>0. name' = name
    BY <1>1
  <2>1. CASE name[x] = n /\ holds[o] # "reclaimed"
    <3>1. stage[x] # "busy"
      BY <1>5, <2>1
    <3>2. ASSUME stage[x] = "line", holds[x] # "reclaimed"
          PROVE  \E i \in Nat : At(name[x], i, x)'
      <4>1. PICK i \in Nat : At(name[x], i, x)
        BY <3>2 DEF IInv, LockInv
      <4>2. i >= 1 /\ i # 1
        BY <1>0, <1>5, <2>1, <4>1, Places
      <4>3. i - 1 \in Nat /\ i - 1 >= 1 /\ At(name[x], (i - 1) + 1, x)
        BY <4>1, <4>2
      <4>4. At(name[x], i - 1, x)'
        BY <1>7, <2>0, <2>1, <4>3
      <4> QED BY <4>3, <4>4
    <3> QED BY <3>1, <3>2
  <2>2. CASE ~(name[x] = n /\ holds[o] # "reclaimed")
    <3>1. \A i \in Nat : At(name[x], i, x)' <=> At(name[x], i, x)
      BY <1>7, <2>0, <2>2
    <3> QED BY <3>1 DEF IInv, LockInv
  <2> QED BY <2>1, <2>2
<1>16. FreshInv'
  <2>1. r # "new" /\ stage[o] # "new"
    BY <1>3
  <2> QED BY <1>0, <1>1, <1>3, <2>1, SameFresh DEF IInv, FreshInv
<1>17. \A x, how : Goes(x, how)' <=> Goes(x, how)
  BY <1>1 DEF Goes
<1>18. OrderInv'
  <2>1. ASSUME NEW m \in Name, NEW i \in Nat, NEW j \in Nat, NEW x \in Op, NEW y \in Op,
               At(m, i, x)', At(m, j, y)', Goes(x, "newer"), Goes(y, "current")
        PROVE  i < j
    <3>1. CASE m = n /\ holds[o] # "reclaimed"
      <4>1. i + 1 \in Nat /\ j + 1 \in Nat /\ At(m, i + 1, x) /\ At(m, j + 1, y)
        BY <1>7, <2>1, <3>1
      <4>2. i + 1 < j + 1
        BY <2>1, <4>1 DEF IInv, OrderInv
      <4> QED BY <4>2
    <3>2. CASE ~(m = n /\ holds[o] # "reclaimed")
      BY <1>7, <2>1, <3>2 DEF IInv, OrderInv
    <3> QED BY <3>1, <3>2
  <2>2. \A i, j \in Nat, x, y \in Put :
         FreshAt(i, x)' /\ FreshAt(j, y)' /\ name'[x] = name'[y] /\ Goes(x, "newer")' /\ Goes(y, "current")' => i < j
    BY <1>1, <1>17, SameFresh DEF IInv, OrderInv
  <2>3. ASSUME NEW j \in Nat, NEW i \in Nat, NEW x \in Put, NEW y \in Op,
               FreshAt(i, x)', At(name[x], j, y)', Goes(x, "newer"), Goes(y, "current")
        PROVE  FALSE
    <3>1. FreshAt(i, x) /\ name' = name /\ name[x] \in Name
      BY <1>0, <1>1, <2>3, SameFresh
    <3>2. PICK m \in Name : m = name[x]
      BY <3>1
    <3>3. At(m, j, y)'
      BY <2>3, <3>1, <3>2 DEF At
    <3>4. At(m, j, y) \/ (j + 1 \in Nat /\ At(m, j + 1, y))
      BY <1>7, <2>3, <3>3
    <3>5. \E k \in Nat : At(name[x], k, y)
      BY <2>3, <3>2, <3>4
    <3> QED BY <2>3, <3>1, <3>5 DEF IInv, OrderInv
  <2> QED BY <1>17, <2>1, <2>2, <2>3 DEF OrderInv
(* Who sends what a newer send has replaced is not behind that one.      *)
<1>19. \A x \in Op : Sending(x) /\ holds[x] = "newer" /\ name[x] = n => ~(holds[o] = "current" /\ doing[o] = "send")
  <2> SUFFICES ASSUME NEW x \in Op, Sending(x), holds[x] = "newer", name[x] = n, holds[o] = "current", doing[o] = "send"
               PROVE  FALSE
    OBVIOUS
  <2>1. fresh = <<>> /\ At(n, 1, o) /\ x # o /\ stage[x] \in {"new", "line", "busy"} /\ Goes(x, "newer") /\ Goes(o, "current")
    BY <1>5, <1>8 DEF Sending, Goes
  <2>2. CASE stage[x] = "new"
    <3>1. \E i \in Nat : FreshAt(i, x)
      BY <2>2 DEF IInv, FreshInv
    <3> QED BY <1>0, <2>1, <3>1, Places
  <2>3. CASE stage[x] = "line"
    <3>1. PICK i \in Nat : At(n, i, x)
      BY <2>3 DEF IInv, LockInv
    <3>2. i < 1
      BY <1>0, <2>1, <3>1 DEF IInv, OrderInv
    <3>3. i >= 1
      BY <1>0, <3>1, Places
    <3> QED BY <3>2, <3>3
  <2>4. CASE stage[x] = "busy"
    BY <1>5, <2>1, <2>4
  <2> QED BY <2>1, <2>2, <2>3, <2>4
<1>20. \A m \in Name : LastSending(m) => LastSending(m)' \/ (last[m] = o /\ m = n /\ holds[o] = "current" /\ doing[o] = "send")
  BY <1>0, <1>1, <1>3 DEF LastSending, n
<1>21. NewerInv'
  <2> SUFFICES ASSUME NEW x \in Op, (Sending(x) \/ stage[x] = "busy")', holds[x] = "newer"
               PROVE  LastSending(name[x])'
    BY <1>1 DEF NewerInv, LastSending
  <2>1. (Sending(x) \/ stage[x] = "busy") /\ x # o /\ name[x] \in Name
    BY <1>0, <1>1, <1>3 DEF Sending
  <2>2. LastSending(name[x])
    BY <2>1 DEF IInv, NewerInv
  <2>3. name' = name
    BY <1>1
  <2>4. CASE Sending(x)
    BY <1>19, <1>20, <2>1, <2>2, <2>3, <2>4
  <2>5. CASE stage[x] = "busy"
    <3>1. ~(name[x] = n /\ holds[o] = "current")
      BY <1>5, <2>1, <2>5
    <3> QED BY <1>20, <2>1, <2>2, <2>3, <3>1
  <2> QED BY <2>1, <2>4, <2>5
<1>22. BytesInv'
  <2> SUFFICES ASSUME NEW m \in Name, file'[m] # Blank
               PROVE  state'[m] \in {"live", "stale"} \/ LastSending(m)' \/ lost[m] # "no"
    BY <1>1 DEF BytesInv
  <2>1. CASE m # n
    BY <1>0, <1>2, <1>20, <2>1 DEF IInv, BytesInv
  <2>2. CASE m = n /\ holds[o] = "current" /\ doing[o] = "send"
    BY <1>0, <1>2, <1>8, <2>2
  <2>3. CASE m = n /\ holds[o] = "current" /\ doing[o] = "erase"
    <3>1. to = "stale" \/ (to = "erased" /\ state[n] = "erased" /\ bytes = file[n])
      BY <1>0, <1>2, <1>8, <2>3
    <3> QED BY <1>0, <1>2, <1>20, <2>3, <3>1 DEF IInv, BytesInv
  <2>4. CASE m = n /\ holds[o] # "current"
    <3>1. CASE bytes = file[n]
      BY <1>0, <1>2, <1>8, <1>20, <2>4, <3>1 DEF IInv, BytesInv
    <3>2. CASE bytes # file[n]
      <4>1. doing[o] = "send" /\ holds[o] = "newer"
        BY <1>0, <1>2, <1>8, <2>4, <3>2 DEF Content
      <4>2. LastSending(n)
        BY <1>3, <1>8, <1>9, <1>10, <4>1 DEF IInv, NewerInv, Sending, n
      <4> QED BY <1>20, <2>4, <4>2
    <3> QED BY <3>1, <3>2
  <2> QED BY <1>8, <2>1, <2>2, <2>3, <2>4
<1>23. \A x \in Op : (UnderWay(x)' => UnderWay(x)) /\ (Running(x)' => Running(x) /\ x # o)
  BY <1>0, <1>3, <1>4, <1>10 DEF UnderWay, Running
<1>24. NameInv'
  <2>1. \A m \in Name : state'[m] = IF m = n THEN to ELSE state[m]
    BY <1>0, <1>2
  <2>2. \A m \in Name : Known(m)' <=> Known(m)
    BY <1>1 DEF Known
  <2>3. \A x \in Op : UnderWay(x)' /\ holds'[x] # "reclaimed" => Known(name[x])'
    BY <1>0, <1>1, <1>23, <2>2 DEF IInv, NameInv
  <2>4. \A m \in Name : Known(m)' <=> state'[m] # "none"
    BY <1>8, <1>11, <2>1, <2>2 DEF IInv, NameInv
  <2>5. \A m \in Name : state'[m] = "sending" => LastSending(m)'
    BY <1>8, <1>20, <2>1 DEF IInv, NameInv
  <2>6. \A m \in Name : name'[m] = m /\ (Running(m)' /\ holds'[m] = "current" => over'[m])
    BY <1>1, <1>23 DEF IInv, NameInv, Op
  <2>7. \A x \in Op : doing'[x] = "send" => x \in Put
    BY <1>1 DEF IInv, NameInv
  <2> QED BY <2>3, <2>4, <2>5, <2>6, <2>7 DEF NameInv
<1>25. PutInv'
  <2>1. \A p \in Put : UnderWay(p)' /\ holds'[p] = "current" => last'[name'[p]] = p /\ ~answered'[name'[p]]
    BY <1>0, <1>1, <1>23 DEF IInv, PutInv
  <2>2. \A m \in Name : Known(m)' /\ name'[last'[m]] = m /\ UnderWay(last[m])' => holds'[last'[m]] = "current"
    BY <1>0, <1>1, <1>23 DEF IInv, PutInv, Known
  <2>3. \A p \in Put : handler'[p] \in {"answering", "keeping"} => stage'[p] = "sent"
    BY <1>0, <1>3, <1>4 DEF IInv, PutInv
  <2>4. \A p \in Put : ~shut' /\ Running(p)' => handler'[p] # "none"
    BY <1>0, <1>1, <1>4, <1>23 DEF IInv, PutInv
  <2>5. last' = last
    BY <1>1
  <2> QED BY <2>1, <2>2, <2>3, <2>4, <2>5 DEF PutInv
<1>26. AbandonedErased'
  <2> SUFFICES ASSUME NEW m \in Name, state'[m] = "live", ~shut, ~answered[m]
               PROVE  name[last[m]] = m /\ ~Idle(last[m])'
    BY <1>1 DEF AbandonedErased
  <2>0. last[m] \in Put /\ last[m] \in Op /\ state'[m] = IF m = n THEN to ELSE state[m]
    BY <1>0, <1>2
  <2>1. CASE state[m] = "live"
    <3>1. name[last[m]] = m /\ UnderWay(last[m]) /\ Known(m)
      BY <2>1 DEF IInv, AbandonedErased, Idle, NameInv
    <3>2. CASE last[m] # o
      <4>1. UnderWay(last[m])'
        BY <1>1, <1>3, <1>4, <2>0, <3>1, <3>2 DEF UnderWay, Running
      <4> QED BY <1>1, <3>1, <4>1 DEF Idle
    <3>3. CASE last[m] = o
      <4>1. holds[o] = "current" /\ m = n
        BY <2>0, <3>1, <3>3 DEF IInv, PutInv, n
      <4>2. doing[o] = "send"
        BY <1>8, <2>0, <4>1
      <4>3. handler'[o] # "none"
        BY <1>4, <1>10, <2>0, <3>3, <4>2 DEF IInv, PutInv
      <4> QED BY <1>1, <2>0, <3>1, <3>3, <4>3 DEF Idle, UnderWay
    <3> QED BY <3>2, <3>3
  <2>2. CASE state[m] # "live"
    <3>1. m = n /\ holds[o] = "current" /\ doing[o] = "send"
      BY <1>8, <2>0, <2>2
    <3>2. last[m] = o /\ name[o] = m
      BY <1>9, <1>10, <3>1 DEF IInv, PutInv, n
    <3>3. handler'[o] # "none"
      BY <1>4, <1>9, <1>10, <3>1 DEF IInv, PutInv
    <3> QED BY <1>1, <2>0, <3>2, <3>3 DEF Idle, UnderWay
  <2> QED BY <2>1, <2>2
<1> QED BY <1>13, <1>14, <1>15, <1>16, <1>18, <1>21, <1>22, <1>24, <1>25, <1>26 DEF IInv

LEMMA TurnEndsStep ==
  ASSUME IInv, NEW o \in Op, Turn(o), Passes(o, holds[o])
  PROVE  \E to, bytes, r : Ends(o, to, bytes, r)
<1>0. /\ TypeOK /\ name \in [Op -> Name] /\ doing[o] \in {"send", "erase"}
      /\ file \in [Name -> Put \cup {Blank}] /\ name[o] \in Name
  BY DEF IInv, TypeOK
<1> DEFINE r == Returns(o, FALSE)
<1>1. /\ stage[o] = "line" /\ (holds[o] # "reclaimed" => Head(line[name[o]]) = o)
      /\ UNCHANGED <<last, answered, fresh, name, doing, cut, shut, file>>
      /\ stage' = [stage EXCEPT ![o] = r]
      /\ Leaves(o) /\ HandlerEnds(o) /\ SweptOrNot(o, state[name[o]])
  BY DEF Turn
<1>2. (doing[o] = "send" /\ r \in {"sent", "failed"}) \/ (doing[o] = "erase" /\ r = "none")
  BY <1>0, <1>1 DEF Returns
<1>3. file' = [file EXCEPT ![name[o]] = file[name[o]]]
  BY <1>0, <1>1
<1>4. doing[o] = "send" => holds[o] = "reclaimed"
  BY <1>1 DEF Passes
<1>5. holds[o] = "current" /\ doing[o] = "erase" => state[name[o]] = "erased"
  <2> SUFFICES ASSUME holds[o] = "current", doing[o] = "erase"
               PROVE  state[name[o]] = "erased"
    OBVIOUS
  <2>1. o \in Name => over[o]
    BY <1>1 DEF IInv, NameInv, Running
  <2> QED BY <1>0, <1>1, <2>1 DEF Passes
<1> HIDE DEF r
<1>6. Ends(o, state[name[o]], file[name[o]], r)
  BY <1>1, <1>2, <1>3, <1>4, <1>5 DEF Ends
<1> QED BY <1>6

LEMMA RequestEndsStep ==
  ASSUME IInv, NEW o \in Op, Stored(o) \/ NotStored(o)
  PROVE  \E to, bytes, r : Ends(o, to, bytes, r)
<1>0. /\ TypeOK /\ name \in [Op -> Name] /\ doing[o] \in {"send", "erase"}
      /\ file \in [Name -> Put \cup {Blank}] /\ name[o] \in Name
  BY DEF IInv, TypeOK
<1>1. /\ stage[o] = "busy" /\ fresh = <<>> /\ holds[o] # "reclaimed" /\ doing' = doing
  <2>1. stage[o] = "busy" /\ fresh = <<>> /\ doing' = doing
    BY DEF Stored, NotStored
  <2>2. holds[o] # "reclaimed"
    BY <1>0, <2>1 DEF IInv, LockInv, LineInv
  <2> QED BY <2>1, <2>2
<1>2. CASE Stored(o)
  <2> DEFINE to == IF holds[o] # "current" THEN state[name[o]] ELSE IF doing[o] = "send" THEN "live" ELSE "erased"
  <2>1. Ends(o, to, Content(o), Returns(o, TRUE))
    BY <1>0, <1>1, <1>2 DEF Ends, Stored, Returns, Content
  <2> QED BY <2>1
<1>3. CASE NotStored(o)
  <2> DEFINE to == IF holds[o] # "current" THEN state[name[o]] ELSE "stale"
  <2>1. PICK bytes \in {file[name[o]], Content(o)} : file' = [file EXCEPT ![name[o]] = bytes]
    BY <1>3 DEF NotStored
  <2>2. Ends(o, to, bytes, Returns(o, FALSE))
    BY <1>0, <1>1, <1>3, <2>1 DEF Ends, NotStored, Returns
  <2> QED BY <2>2
<1> QED BY <1>2, <1>3

LEMMA OpStep ==
  ASSUME IInv, NEW o \in Op, Turn(o) \/ Stored(o) \/ NotStored(o)
  PROVE  IInv'
<1> HIDE DEF IInv
<1>1. CASE Turn(o) /\ ~Passes(o, holds[o])
  BY <1>1, TurnBusyStep
<1>2. CASE \E to, bytes, r : Ends(o, to, bytes, r)
  BY <1>2, EndsStep, ForgetsStep
<1> QED BY <1>1, <1>2, TurnEndsStep, RequestEndsStep

(* A PUT claims a name.  Those who work on the name find a newer one, or, *)
(* when it was over, a name that is no longer theirs.                     *)
LEMMA ClaimStep ==
  ASSUME IInv, NEW p \in Put, NEW s \in Scope, NEW n \in Name, Claim(p, s, n)
  PROVE  IInv'
<1> DEFINE how == IF Reclaims(n) THEN "reclaimed" ELSE "newer"
<1>0. /\ TypeOK /\ stage \in [Op -> Stage] /\ name \in [Op -> Name] /\ doing \in [Op -> {"send", "erase"}]
      /\ holds \in [Op -> {"current", "newer", "reclaimed"}] /\ handler \in [Put -> Handler]
      /\ last \in [Name -> Put] /\ line \in [Name -> Seq(Op)] /\ fresh \in Seq(Put)
      /\ entry \in [Name -> Scope \cup {NoScope}] /\ over \in [Name -> BOOLEAN] /\ answered \in [Name -> BOOLEAN]
      /\ state \in [Name -> {"none", "sending", "live", "stale", "erased"}]
      /\ lost \in [Name -> {"no", "unerased", "refused"}]
      /\ p \in Op /\ p \notin Name /\ \A q \in Put : q \in Op
  BY DEF IInv, TypeOK, Op
<1>1. /\ entry' = [entry EXCEPT ![n] = s] /\ state' = [state EXCEPT ![n] = "sending"]
      /\ over' = [over EXCEPT ![n] = FALSE]
      /\ last' = [last EXCEPT ![n] = p] /\ answered' = [answered EXCEPT ![n] = FALSE]
      /\ line' = IF Reclaims(n) THEN [line EXCEPT ![n] = <<>>] ELSE line
      /\ name' = [name EXCEPT ![p] = n]
      /\ holds' = [Superseded(n, how) EXCEPT ![p] = "current"]
      /\ doing' = [doing EXCEPT ![p] = "send"]
      /\ stage' = [stage EXCEPT ![p] = "new"] /\ fresh' = Append(fresh, p)
      /\ handler' = [handler EXCEPT ![p] = "sending"]
      /\ lost' = [lost EXCEPT ![n] = "no"]
      /\ UNCHANGED <<cut, shut, file>>
      /\ ~UnderWay(p)
  BY DEF Claim, Idle
<1>2. /\ stage'[p] = "new" /\ name'[p] = n /\ doing'[p] = "send" /\ holds'[p] = "current" /\ handler'[p] = "sending"
      /\ last'[n] = p /\ answered'[n] = FALSE /\ state'[n] = "sending" /\ entry'[n] = s
  BY <1>0, <1>1 DEF Superseded
<1>3. \A x \in Op \ {p} :
        /\ stage'[x] = stage[x] /\ name'[x] = name[x] /\ doing'[x] = doing[x]
        /\ holds'[x] = IF name[x] = n /\ UnderWay(x) /\ holds[x] # "reclaimed" THEN how ELSE holds[x]
        /\ (x \in Put => handler'[x] = handler[x])
  BY <1>0, <1>1 DEF Superseded
<1>4. \A m \in Name \ {n} : /\ entry'[m] = entry[m] /\ state'[m] = state[m] /\ over'[m] = over[m]
                            /\ last'[m] = last[m] /\ answered'[m] = answered[m] /\ lost'[m] = lost[m]
  BY <1>0, <1>1
<1>5. how \in {"newer", "reclaimed"}
  OBVIOUS
<1>6. /\ \A m \in Name, i \in Nat, x \in Op : At(m, i, x)' <=> At(m, i, x) /\ ~(m = n /\ how = "reclaimed")
      /\ line' \in [Name -> Seq(Op)]
  <2>1. CASE Reclaims(n)
    <3>1. line' = [line EXCEPT ![n] = <<>>]
      BY <1>1, <2>1
    <3>2. \A m \in Name, i \in Nat, x \in Op : At(m, i, x)' <=> m # n /\ At(m, i, x)
      BY <1>0, <3>1, Emptied
    <3> QED BY <1>0, <2>1, <3>1, <3>2
  <2>2. CASE ~Reclaims(n)
    BY <1>0, <1>1, <2>2, SameLine
  <2> QED BY <2>1, <2>2
<1>7. how = "reclaimed" => \A x \in Op : stage[x] = "busy" => name[x] # n
  <2> SUFFICES ASSUME how = "reclaimed", NEW x \in Op, stage[x] = "busy", name[x] = n
               PROVE  FALSE
    OBVIOUS
  <2>1. ~Locked(n)
    BY DEF Reclaims
  <2>2. At(n, 1, x) /\ line[n] \in Seq(Op)
    BY <1>0 DEF IInv, LockInv
  <2>3. line[n] # <<>> /\ Head(line[n]) = x
    BY <2>2 DEF At
  <2> QED BY <2>1, <2>3 DEF Locked
<1> HIDE DEF how
<1>8. PICK k \in Nat : /\ \A i \in Nat, x \in Put : FreshAt(i, x)' <=> FreshAt(i, x) \/ (i = k /\ x = p)
                       /\ \A i \in Nat, x \in Put : FreshAt(i, x) => i < k
  BY <1>0, <1>1, FreshJoins
<1>9. ~Running(p) /\ stage[p] \notin {"new", "line", "busy", "todo"}
  BY <1>1 DEF UnderWay, Running
<1>10. /\ \A m \in Name, i \in Nat : ~At(m, i, p)
       /\ \A i \in Nat : ~FreshAt(i, p)
  BY <1>0, <1>9 DEF IInv, LineInv, FreshInv
<1>11. \A x \in Op \ {p} : (Running(x)' <=> Running(x)) /\ (UnderWay(x)' <=> UnderWay(x))
  BY <1>3 DEF Running, UnderWay
<1>12. \A x \in Op \ {p} : name[x] = n /\ UnderWay(x) => holds'[x] # "current"
  BY <1>3, <1>5
<1>13. \A x \in Op \ {p} : name[x] # n => holds'[x] = holds[x]
  BY <1>3
<1>14. \A x \in Op : stage[x] \in {"new", "line", "busy"} => x # p /\ UnderWay(x)
  BY <1>9 DEF UnderWay, Running
<1>15. TypeOK'
  <2>1. holds' \in [Op -> {"current", "newer", "reclaimed"}]
    BY <1>0, <1>1, <1>5 DEF Superseded
  <2>2. /\ entry' \in [Name -> Scope \cup {NoScope}]
        /\ state' \in [Name -> {"none", "sending", "live", "stale", "erased"}]
        /\ over' \in [Name -> BOOLEAN] /\ answered' \in [Name -> BOOLEAN]
        /\ last' \in [Name -> Put] /\ lost' \in [Name -> {"no", "unerased", "refused"}]
    BY <1>0, <1>1
  <2>3. /\ fresh' \in Seq(Put) /\ name' \in [Op -> Name] /\ doing' \in [Op -> {"send", "erase"}]
        /\ stage' \in [Op -> Stage] /\ handler' \in [Put -> Handler]
    BY <1>0, <1>1 DEF Stage, Handler
  <2> QED BY <1>1, <1>6, <2>1, <2>2, <2>3 DEF IInv, TypeOK
<1>16. LineInv'
  <2> SUFFICES ASSUME NEW m \in Name, NEW i \in Nat, NEW x \in Op, At(m, i, x)'
               PROVE  /\ name'[x] = m /\ holds'[x] # "reclaimed"
                      /\ stage'[x] = "line" \/ (i = 1 /\ stage'[x] = "busy")
                      /\ \A j \in Nat : At(m, j, x)' => i = j
    BY DEF LineInv
  <2>1. At(m, i, x) /\ ~(m = n /\ how = "reclaimed") /\ x # p
    BY <1>6, <1>10
  <2>2. /\ name[x] = m /\ holds[x] # "reclaimed"
        /\ stage[x] = "line" \/ (i = 1 /\ stage[x] = "busy")
        /\ \A j \in Nat : At(m, j, x) => i = j
    BY <2>1 DEF IInv, LineInv
  <2>3. \A j \in Nat : At(m, j, x)' => At(m, j, x)
    BY <1>6
  <2> QED BY <1>3, <1>5, <2>1, <2>2, <2>3
<1>17. LockInv'
  <2> SUFFICES ASSUME NEW x \in Op, x # p, NEW m \in Name, m = name[x]
               PROVE  /\ stage[x] = "busy" => At(m, 1, x)'
                      /\ stage[x] = "line" /\ holds'[x] # "reclaimed" => \E i \in Nat : At(m, i, x)'
    <3>1. ASSUME NEW x \in Op
          PROVE  /\ stage'[x] = "busy" => At(name[x], 1, x)'
                 /\ stage'[x] = "line" /\ holds'[x] # "reclaimed" => \E i \in Nat : At(name[x], i, x)'
      <4>1. CASE x = p
        BY <1>2, <4>1
      <4>2. CASE x # p
        <5>1. stage'[x] = stage[x] /\ name'[x] = name[x] /\ name[x] \in Name
          BY <1>0, <1>3, <4>2
        <5>2. \A i : At(name[x], i, x)' <=> i \in 1..Len(line'[name[x]]) /\ line'[name[x]][i] = x
          BY <5>1 DEF At
        <5>3. \A m \in Name : \A i : At(m, i, x)' <=> i \in 1..Len(line'[m]) /\ line'[m][i] = x
          BY DEF At
        <5> QED BY <4>2, <5>1, <5>2, <5>3
      <4> QED BY <4>1, <4>2
    <3> QED BY <3>1 DEF LockInv
  <2>1. stage[x] = "busy" => At(m, 1, x)'
    BY <1>6, <1>7 DEF IInv, LockInv
  <2>2. ASSUME stage[x] = "line", holds'[x] # "reclaimed"
        PROVE  \E i \in Nat : At(m, i, x)'
    <3>1. UnderWay(x)
      BY <2>2 DEF UnderWay, Running
    <3>2. ~(m = n /\ how = "reclaimed") /\ holds[x] # "reclaimed"
      BY <1>3, <1>5, <2>2, <3>1
    <3> QED BY <1>6, <2>2, <3>2 DEF IInv, LockInv
  <2> QED BY <2>1, <2>2
<1>18. FreshInv'
  <2>1. ASSUME NEW i \in Nat, NEW x \in Put, FreshAt(i, x)'
        PROVE  stage'[x] = "new" /\ doing'[x] = "send" /\ \A j \in Nat : FreshAt(j, x)' => i = j
    <3>1. CASE x = p
      BY <1>2, <1>8, <1>10, <2>1, <3>1
    <3>2. CASE x # p
      <4>1. FreshAt(i, x) /\ x \in Op \ {p} /\ \A j \in Nat : FreshAt(j, x)' => FreshAt(j, x)
        BY <1>0, <1>8, <2>1, <3>2
      <4> QED BY <1>3, <4>1 DEF IInv, FreshInv
    <3> QED BY <3>1, <3>2
  <2>2. ASSUME NEW x \in Op, stage'[x] = "new"
        PROVE  x \in Put /\ \E i \in Nat : FreshAt(i, x)'
    <3>1. CASE x = p
      BY <1>8, <3>1
    <3>2. CASE x # p
      BY <1>3, <1>8, <2>2, <3>2 DEF IInv, FreshInv
    <3> QED BY <3>1, <3>2
  <2> QED BY <2>1, <2>2 DEF FreshInv
<1>19. \A m \in Name \ {n} : LastSending(m) => LastSending(m)'
  <2> SUFFICES ASSUME NEW m \in Name \ {n}, LastSending(m)
               PROVE  LastSending(m)'
    OBVIOUS
  <2>1. last[m] \in Op /\ last[m] # p
    BY <1>0, <1>14 DEF LastSending
  <2> QED BY <1>3, <1>4, <1>13, <2>1 DEF LastSending
<1>20. LastSending(n)'
  BY <1>2 DEF LastSending

<1>21. OrderInv'
  <2>1. ASSUME NEW m \in Name, NEW i \in Nat, NEW j \in Nat, NEW x \in Op, NEW y \in Op,
               At(m, i, x)', At(m, j, y)', Goes(x, "newer")', Goes(y, "current")'
        PROVE  i < j
    <3>1. At(m, i, x) /\ At(m, j, y) /\ x # p /\ y # p
      BY <1>6, <1>10, <2>1
    <3>2. name[x] = m /\ name[y] = m /\ UnderWay(y)
      BY <1>14, <3>1 DEF IInv, LineInv
    <3>3. m # n
      BY <1>12, <2>1, <3>1, <3>2 DEF Goes
    <3>4. Goes(x, "newer") /\ Goes(y, "current")
      BY <1>3, <1>13, <2>1, <3>1, <3>2, <3>3 DEF Goes
    <3> QED BY <3>1, <3>4 DEF IInv, OrderInv
  <2>2. ASSUME NEW i \in Nat, NEW j \in Nat, NEW x \in Put, NEW y \in Put,
               FreshAt(i, x)', FreshAt(j, y)', name'[x] = name'[y], Goes(x, "newer")', Goes(y, "current")'
        PROVE  i < j
    <3>1. x # p /\ x \in Op /\ y \in Op
      BY <1>0, <1>2, <2>2 DEF Goes
    <3>2. FreshAt(i, x)
      BY <1>8, <2>2, <3>1
    <3>3. CASE y = p
      BY <1>8, <1>10, <2>2, <3>2, <3>3
    <3>4. CASE y # p
      <4>1. FreshAt(j, y)
        BY <1>8, <2>2, <3>4
      <4>2. UnderWay(y)
        BY <1>14, <3>1, <4>1 DEF IInv, FreshInv
      <4>3. name[y] # n /\ name[x] = name[y]
        BY <1>3, <1>12, <2>2, <3>1, <3>4, <4>2 DEF Goes
      <4>4. Goes(x, "newer") /\ Goes(y, "current")
        BY <1>3, <1>13, <2>2, <3>1, <3>4, <4>3 DEF Goes
      <4> QED BY <3>2, <4>1, <4>3, <4>4 DEF IInv, OrderInv
    <3> QED BY <3>3, <3>4
  <2>3. ASSUME NEW m \in Name, NEW j \in Nat, NEW i \in Nat, NEW x \in Put, NEW y \in Op, m = name'[x],
               FreshAt(i, x)', At(m, j, y)', Goes(x, "newer")', Goes(y, "current")'
        PROVE  FALSE
    <3>1. x # p /\ x \in Op
      BY <1>0, <1>2, <2>3 DEF Goes
    <3>2. FreshAt(i, x) /\ At(m, j, y) /\ y # p /\ name[x] = m
      BY <1>3, <1>6, <1>8, <1>10, <2>3, <3>1
    <3>3. name[y] = m /\ UnderWay(y)
      BY <1>14, <3>2 DEF IInv, LineInv
    <3>4. m # n
      BY <1>12, <2>3, <3>2, <3>3 DEF Goes
    <3>5. Goes(x, "newer") /\ Goes(y, "current")
      BY <1>3, <1>13, <2>3, <3>1, <3>2, <3>3, <3>4 DEF Goes
    <3> QED BY <3>2, <3>5 DEF IInv, OrderInv
  <2>4. \A j, i \in Nat, x \in Put, y \in Op :
          ~(FreshAt(i, x)' /\ At(name[x], j, y)' /\ Goes(x, "newer")' /\ Goes(y, "current")')
    <3>1. \A x \in Put : name'[x] \in Name
      BY <1>15 DEF TypeOK, Op
    <3> QED BY <2>3, <3>1 DEF At
  <2> QED BY <2>1, <2>2, <2>4 DEF OrderInv
<1>22. NewerInv'
  <2> SUFFICES ASSUME NEW x \in Op, NEW m \in Name, m = name'[x], (Sending(x) \/ stage[x] = "busy")', holds'[x] = "newer"
               PROVE  LastSending(m)'
    <3>1. name' \in [Op -> Name]
      BY <1>15 DEF TypeOK
    <3> QED BY <3>1 DEF NewerInv, LastSending
  <2>1. CASE m = n
    BY <1>20, <2>1
  <2>2. CASE m # n
    <3>1. x # p /\ name[x] = m
      BY <1>2, <1>3
    <3>2. (Sending(x) \/ stage[x] = "busy") /\ holds[x] = "newer"
      BY <1>3, <1>13, <2>2, <3>1 DEF Sending
    <3>3. LastSending(m)
      BY <3>1, <3>2 DEF IInv, NewerInv
    <3> QED BY <1>19, <2>2, <3>3
  <2> QED BY <2>1, <2>2
<1>23. Known(n)' /\ \A m \in Name \ {n} : Known(m)' <=> Known(m)
  BY <1>2, <1>4 DEF Known
<1>24. NameInv'
  <2>1. ASSUME NEW x \in Op, NEW m \in Name, m = name'[x], UnderWay(x)', holds'[x] # "reclaimed"
        PROVE  Known(m)'
    <3>1. CASE m = n
      BY <1>23, <3>1
    <3>2. CASE m # n
      <4>1. x # p /\ name[x] = m /\ UnderWay(x) /\ holds[x] # "reclaimed"
        BY <1>2, <1>3, <1>11, <1>13, <2>1, <3>2
      <4> QED BY <1>23, <3>2, <4>1 DEF IInv, NameInv
    <3> QED BY <3>1, <3>2
  <2>2. \A m \in Name : Known(m)' <=> state'[m] # "none"
    BY <1>2, <1>4, <1>23 DEF IInv, NameInv
  <2>3. \A m \in Name : state'[m] = "sending" => LastSending(m)'
    BY <1>4, <1>19, <1>20 DEF IInv, NameInv
  <2>4. ASSUME NEW m \in Name
        PROVE  name'[m] = m /\ (Running(m)' /\ holds'[m] = "current" => over'[m])
    <3>1. m \in Op /\ m # p /\ name[m] = m /\ (Running(m) /\ holds[m] = "current" => over[m])
      BY <1>0 DEF IInv, NameInv, Op
    <3>2. Running(m) => UnderWay(m)
      BY DEF UnderWay
    <3> QED BY <1>3, <1>4, <1>11, <1>12, <1>13, <3>1, <3>2
  <2>5. \A x \in Op : doing'[x] = "send" => x \in Put
    BY <1>3 DEF IInv, NameInv
  <2>6. \A x \in Op : UnderWay(x)' /\ holds'[x] # "reclaimed" => Known(name[x])'
    <3>1. name' \in [Op -> Name]
      BY <1>15 DEF TypeOK
    <3> QED BY <2>1, <3>1 DEF Known
  <2> QED BY <2>2, <2>3, <2>4, <2>5, <2>6 DEF NameInv
<1>25. PutInv'
  <2>1. ASSUME NEW q \in Put, UnderWay(q)', holds'[q] = "current"
        PROVE  last'[name'[q]] = q /\ ~answered'[name'[q]]
    <3>1. CASE q = p
      BY <1>2, <3>1
    <3>2. CASE q # p
      <4>1. q \in Op /\ UnderWay(q) /\ name[q] # n /\ name[q] \in Name /\ name'[q] = name[q] /\ holds[q] = "current"
        BY <1>0, <1>3, <1>11, <1>12, <1>13, <2>1, <3>2
      <4> QED BY <1>4, <4>1 DEF IInv, PutInv
    <3> QED BY <3>1, <3>2
  <2>2. ASSUME NEW m \in Name, NEW q \in Put, q = last'[m], Known(m)', name'[q] = m, UnderWay(q)'
        PROVE  holds'[q] = "current"
    <3>1. CASE m = n
      BY <1>2, <2>2, <3>1
    <3>2. CASE m # n
      <4>1. q \in Op /\ q # p /\ name[q] = m /\ UnderWay(q) /\ Known(m) /\ q = last[m]
        BY <1>0, <1>2, <1>3, <1>4, <1>11, <1>23, <2>2, <3>2
      <4> QED BY <1>13, <3>2, <4>1 DEF IInv, PutInv
    <3> QED BY <3>1, <3>2
  <2>3. \A q \in Put : handler'[q] \in {"answering", "keeping"} => stage'[q] = "sent"
    <3>1. \A q \in Put \ {p} : handler'[q] = handler[q] /\ stage'[q] = stage[q]
      BY <1>0, <1>3
    <3> QED BY <1>2, <3>1 DEF IInv, PutInv
  <2>4. \A q \in Put : ~shut' /\ Running(q)' => handler'[q] # "none"
    BY <1>0, <1>1, <1>2, <1>3, <1>11 DEF IInv, PutInv
  <2>5. \A m \in Name : Known(m)' /\ name'[last'[m]] = m /\ UnderWay(last[m])' => holds'[last'[m]] = "current"
    <3>1. \A m \in Name : last'[m] \in Put
      BY <1>15 DEF TypeOK
    <3> QED BY <2>2, <3>1 DEF UnderWay, Running
  <2> QED BY <2>1, <2>3, <2>4, <2>5 DEF PutInv
<1>26. BytesInv'
  BY <1>1, <1>4, <1>19, <1>20 DEF IInv, BytesInv
<1>27. AbandonedErased'
  <2> SUFFICES ASSUME NEW m \in Name, NEW q \in Put, q = last'[m], state'[m] = "live", ~shut', ~answered'[m]
               PROVE  name'[q] = m /\ UnderWay(q)'
    <3>1. \A m \in Name : last'[m] \in Put
      BY <1>15 DEF TypeOK
    <3> QED BY <3>1 DEF AbandonedErased, Idle, UnderWay, Running
  <2>1. m # n
    BY <1>2
  <2>2. q = last[m] /\ name[q] = m /\ UnderWay(q)
    BY <1>1, <1>4, <2>1 DEF IInv, AbandonedErased, Idle
  <2> QED BY <1>0, <1>1, <1>3, <1>11, <2>2
<1> QED BY <1>15, <1>16, <1>17, <1>18, <1>21, <1>22, <1>24, <1>25, <1>26, <1>27 DEF IInv

LEMMA InitInv == Init => IInv
<1> SUFFICES ASSUME Init PROVE IInv
  OBVIOUS
<1>1. TypeOK
  <2>1. fresh \in Seq(Put) /\ line \in [Name -> Seq(Op)]
    BY DEF Init
  <2>2. /\ entry \in [Name -> Scope \cup {NoScope}]
        /\ state \in [Name -> {"none", "sending", "live", "stale", "erased"}]
        /\ over \in [Name -> BOOLEAN] /\ answered \in [Name -> BOOLEAN] /\ last \in [Name -> Put]
        /\ file \in [Name -> Put \cup {Blank}] /\ lost \in [Name -> {"no", "unerased", "refused"}]
    BY DEF Init
  <2>3. /\ name \in [Op -> Name] /\ holds \in [Op -> {"current", "newer", "reclaimed"}]
        /\ doing \in [Op -> {"send", "erase"}] /\ stage \in [Op -> Stage]
    BY DEF Init, Stage
  <2>4. handler \in [Put -> Handler] /\ cut \in [Put -> BOOLEAN] /\ shut \in BOOLEAN
    BY DEF Init, Handler
  <2> QED BY <2>1, <2>2, <2>3, <2>4 DEF TypeOK
<1>2. LineInv /\ FreshInv /\ OrderInv
  BY DEF Init, LineInv, FreshInv, OrderInv, At, FreshAt
<1>3. LockInv /\ NewerInv /\ BytesInv
  BY DEF Init, LockInv, NewerInv, BytesInv, Sending
<1>4. NameInv /\ PutInv /\ AbandonedErased
  BY DEF Init, NameInv, PutInv, AbandonedErased, Known, UnderWay, Running, Op
<1> QED BY <1>1, <1>2, <1>3, <1>4 DEF IInv

LEMMA StepInv == IInv /\ [Next]_vars => IInv'
<1> SUFFICES ASSUME IInv, [Next]_vars PROVE IInv'
  OBVIOUS
<1> HIDE DEF IInv
<1>1. ASSUME NEW p \in Put, NEW s \in Scope, NEW n \in Name, Claim(p, s, n)
      PROVE  IInv'
  BY <1>1, ClaimStep
<1>2. ASSUME NEW p \in Put,
             SendStarts(p) \/ SendSeen(p) \/ ClientLeaves(p) \/ Replied(p) \/ Settled(p) \/ Kept(p) \/ Cut(p) \/ EraseAfter(p)
      PROVE  IInv'
  BY <1>2, SendStartsStep, HandlerSteps, KeptStep, EraseAfterStep
<1>3. ASSUME NEW s \in Scope, NEW n \in Name, ClaimRefused(s, n) \/ \E d \in Del : Erase(d, s, n)
      PROVE  IInv'
  BY <1>3, ClaimRefusedStep, EraseStep
<1>4. ASSUME NEW o \in Op, Turn(o) \/ Stored(o) \/ NotStored(o)
      PROVE  IInv'
  BY <1>4, OpStep
<1>5. ASSUME NEW n \in Name, Expires(n) \/ SweepLooks(n)
      PROVE  IInv'
  BY <1>5, ExpiresStep, SweepLooksStep
<1>6. CASE SweepStarts \/ ShutDown
  BY <1>6, SweepStartsStep, ShutDownStep
<1>7. CASE UNCHANGED vars
  <2>1. TypeOK' /\ LineInv' /\ LockInv' /\ FreshInv'
    BY <1>7 DEF vars, names, tasks, IInv, TypeOK, LineInv, LockInv, FreshInv, At, FreshAt
  <2>2. OrderInv' /\ NewerInv' /\ BytesInv'
    BY <1>7 DEF vars, names, tasks, IInv, OrderInv, NewerInv, BytesInv, At, FreshAt, Goes, Sending, LastSending
  <2>3. NameInv' /\ PutInv' /\ AbandonedErased'
    BY <1>7 DEF vars, names, tasks, IInv, NameInv, PutInv, AbandonedErased, LastSending, Known, Idle, UnderWay, Running
  <2> QED BY <2>1, <2>2, <2>3 DEF IInv
<1> QED BY <1>1, <1>2, <1>3, <1>4, <1>5, <1>6, <1>7 DEF Next

(* What is said above of the lines, the fresh sends and the names      *)
(* holds in every state: claims, sends, erasures, expiries, sweeps and *)
(* the stop of the service keep it.                                    *)
THEOREM InvHolds == Spec => []IInv
BY InitInv, StepInv, PTL DEF Spec

(* The variables keep to their types.                                     *)
THEOREM TypesHold == Spec => []TypeOK
<1>1. IInv => TypeOK
  BY DEF IInv
<1> QED BY <1>1, InvHolds, PTL

(* No bytes stay in ComfyUI's folder that nobody knows of: they are live  *)
(* or to be erased, somebody is at work on the name, or the sweep or a    *)
(* refused PUT has given them up.                                         *)
THEOREM NoBytesLost == Spec => []BytesAccounted
<1>1. IInv => BytesAccounted
  <2> SUFFICES ASSUME IInv, NEW n \in Name, LastSending(n)
               PROVE  \E o \in Op : name[o] = n /\ holds[o] = "current" /\ Running(o)
    BY DEF IInv, BytesInv, BytesAccounted
  <2>1. last[n] \in Op
    BY DEF IInv, TypeOK, Op
  <2> QED BY <2>1 DEF LastSending, Running
<1> QED BY <1>1, InvHolds, PTL

(* What an abandoned PUT has sent is erased.                              *)
THEOREM NoneLeftLive == Spec => []AbandonedErased
<1>1. IInv => AbandonedErased
  BY DEF IInv
<1> QED BY <1>1, InvHolds, PTL

LEMMA KeptStaysStep ==
  ASSUME IInv, [Next]_vars, NEW n \in Name, state[n] = "live", answered[n], ~over[n],
         state'[n] # "live" \/ file'[n] # file[n]
  PROVE  ~answered'[n] \/ \E d \in Del : name[d] = n /\ Running(d) /\ ~Running(d)'
<1>0. /\ TypeOK /\ state \in [Name -> {"none", "sending", "live", "stale", "erased"}] /\ answered \in [Name -> BOOLEAN]
      /\ name \in [Op -> Name] /\ stage \in [Op -> Stage] /\ file \in [Name -> Put \cup {Blank}]
      /\ last \in [Name -> Put] /\ holds \in [Op -> {"current", "newer", "reclaimed"}]
  BY DEF IInv, TypeOK
<1>1. ASSUME NEW p \in Put, NEW s \in Scope, NEW m \in Name, Claim(p, s, m)
      PROVE  ~answered'[n]
  <2>1. state' = [state EXCEPT ![m] = "sending"] /\ answered' = [answered EXCEPT ![m] = FALSE] /\ file' = file
    BY <1>1 DEF Claim
  <2> QED BY <1>0, <2>1
<1>2. ASSUME NEW s \in Scope, NEW m \in Name, ClaimRefused(s, m)
      PROVE  FALSE
  <2>1. over[m] /\ state' = [state EXCEPT ![m] = "none"] /\ file' = file
    BY <1>2 DEF ClaimRefused, Reclaims
  <2> QED BY <1>0, <2>1
<1>3. ASSUME NEW m \in Name, SweepLooks(m)
      PROVE  FALSE
  <2>1. name[m] = m
    BY DEF IInv, NameInv
  <2>2. state' = state \/ state' = [state EXCEPT ![name[m]] = state[m]] \/ (over[m] /\ state' = [state EXCEPT ![m] = "none"])
    BY <1>3 DEF SweepLooks, SweptOrNot, Forgets
  <2>3. file' = file
    BY <1>3 DEF SweepLooks
  <2> QED BY <1>0, <2>1, <2>2, <2>3
<1>4. ASSUME NEW o \in Op, NEW to, NEW bytes, NEW r, Ends(o, to, bytes, r)
      PROVE  \E d \in Del : name[d] = n /\ Running(d) /\ ~Running(d)'
  <2>1. Running(o) /\ UnderWay(o) /\ stage' = [stage EXCEPT ![o] = r]
    BY <1>4 DEF Ends, Running, UnderWay
  <2>2. /\ file' = [file EXCEPT ![name[o]] = bytes]
        /\ holds[o] = "reclaimed" \/ stage[o] = "line" => bytes = file[name[o]]
        /\ holds[o] # "current" => to = state[name[o]]
        /\ stage[o] \in {"line", "busy"}
    BY <1>4 DEF Ends
  <2>3. name[o] = n /\ holds[o] # "reclaimed"
    <3>1. Forgets(o) => o \in Name /\ name[o] = o /\ over[o] /\ state' = [state EXCEPT ![o] = "none"]
      BY <1>4 DEF Ends, Forgets, SweptOrNot, IInv, NameInv
    <3>2. ~Forgets(o) => state' = [state EXCEPT ![name[o]] = to]
      BY <1>4 DEF Ends, SweptOrNot
    <3> QED BY <1>0, <2>2, <3>1, <3>2
  <2>4. holds[o] = "current"
    <3> SUFFICES ASSUME holds[o] = "newer"
                 PROVE  FALSE
      BY <1>0, <2>3
    <3>1. ~Forgets(o)
      BY DEF Forgets
    <3>2. state' = [state EXCEPT ![n] = state[n]]
      BY <1>4, <2>2, <2>3, <3>1 DEF Ends, SweptOrNot
    <3>3. stage[o] = "busy"
      BY <1>0, <2>2, <2>3, <3>2
    <3>4. LastSending(n)
      BY <2>3, <3>3 DEF IInv, NewerInv
    <3>5. last[n] \in Put /\ last[n] \in Op /\ UnderWay(last[n]) /\ holds[last[n]] = "current" /\ name[last[n]] = n
      BY <1>0, <3>4 DEF LastSending, UnderWay, Running, Op
    <3>6. ~answered[n]
      BY <3>5 DEF IInv, PutInv
    <3> QED BY <3>6
  <2>5. o \notin Put
    BY <2>1, <2>3, <2>4 DEF IInv, PutInv
  <2>6. o \notin Name
    BY <2>1, <2>3, <2>4 DEF IInv, NameInv
  <2>7. doing[o] # "send" /\ r = "none"
    BY <1>4, <2>5 DEF Ends, IInv, NameInv
  <2>8. ~Running(o)'
    BY <1>0, <2>1, <2>7 DEF Running
  <2> QED BY <2>1, <2>3, <2>5, <2>6, <2>8 DEF Op
<1>5. ASSUME NEW o \in Op, Turn(o) \/ Stored(o) \/ NotStored(o)
      PROVE  \E d \in Del : name[d] = n /\ Running(d) /\ ~Running(d)'
  <2>1. CASE Turn(o) /\ ~Passes(o, holds[o])
    <3>1. state' = state /\ file' = file
      BY <2>1 DEF Turn
    <3> QED BY <3>1
  <2>2. CASE \E to, bytes, r : Ends(o, to, bytes, r)
    BY <2>2, <1>4
  <2> HIDE DEF IInv
  <2> QED BY <1>5, <2>1, <2>2, TurnEndsStep, RequestEndsStep
<1>6. ASSUME state' = state, file' = file
      PROVE  FALSE
  BY <1>6
<1>7. ASSUME NEW p \in Put,
             SendStarts(p) \/ SendSeen(p) \/ ClientLeaves(p) \/ Replied(p) \/ Settled(p) \/ Kept(p) \/ Cut(p) \/ EraseAfter(p)
      PROVE  state' = state /\ file' = file
  BY <1>7 DEF SendStarts, SendSeen, ClientLeaves, Replied, Settled, Kept, Cut, EraseAfter, HandlerGoes, names
<1>8. ASSUME NEW s \in Scope, NEW m \in Name, NEW d \in Del, Erase(d, s, m)
      PROVE  state' = state /\ file' = file
  BY <1>8 DEF Erase, names
<1>9. ASSUME NEW m \in Name, Expires(m)
      PROVE  state' = state /\ file' = file
  BY <1>9 DEF Expires
<1>10. CASE SweepStarts \/ ShutDown \/ UNCHANGED vars
  BY <1>6, <1>10 DEF SweepStarts, ShutDown, vars, names
<1> QED BY <1>1, <1>2, <1>3, <1>5, <1>6, <1>7, <1>8, <1>9, <1>10 DEF Next

(* A kept upload stays live for its ten minutes, and its bytes in the     *)
(* folder: only its scope's DELETE, or a newer PUT, takes them away.      *)
THEOREM KeptUploadsStay == Spec => KeptStays
<1>1. IInv /\ [Next]_vars =>
        [\A n \in Name :
           state[n] = "live" /\ answered[n] /\ ~over[n]
             /\ (state'[n] # "live" \/ file'[n] # file[n]) =>
             \/ ~answered'[n]
             \/ \E d \in Del : name[d] = n /\ Running(d) /\ ~Running(d)']_vars
  <2> HIDE DEF IInv
  <2> QED BY KeptStaysStep
<1> QED BY <1>1, InvHolds, PTL DEF Spec, KeptStays

-----------------------------------------------------------------------------
(* The sweeper of the card                                               *)

(* Past its cap, as WantedStays has it.                                  *)
Past(j) == ended[j] + (IF stamped[j] THEN 0 ELSE PassTime) >= HISTORY_CAP

(* A pass that has read the records there were.                          *)
HasRead == pc \in {"judging", "deleting"} \/ (pc = "walking" /\ readable)

PictureInv ==
  \A j \in Job :
    /\ record[j] = "due" => age[j] <= RecordGap
    /\ server = "gone" => ~wanted[j]
    /\ wanted[j] /\ record[j] = "none" => Past(j)

ReadInv ==
  \A j \in Job :
    /\ j \in history => record[j] # "due"
    /\ first_seen[j] # NoFile => record[j] # "due" /\ first_seen[j] <= ended[j] + PassTime
    /\ j \in stale => pc = "deleting" /\ j \in history /\ Past(j)
    /\ HasRead /\ wanted[j] /\ j \notin history /\ age[j] - since > RecordGap => Past(j)

SweeperInv == SweeperTypeOK /\ PictureInv /\ ReadInv

(* What the constants and the caps of the ages are.                      *)
LEMMA Caps ==
  /\ GRACE \in Nat /\ FILE_CAP \in Nat /\ HISTORY_CAP \in Nat /\ RecordGap \in Nat /\ PassTime \in Nat
  /\ RecordGap < GRACE /\ GRACE <= FILE_CAP
  /\ Longest \in Nat /\ Longest >= FILE_CAP /\ Longest >= HISTORY_CAP /\ Longest >= PassTime
  /\ \A j \in Job : j \notin Reference
BY SweeperAssumption DEF SweeperAssumption, Longest

LEMMA SweeperInitInv == SweeperInit => SweeperInv
<1> SUFFICES ASSUME SweeperInit PROVE SweeperInv
  OBVIOUS
<1>1. SweeperTypeOK
  <2>1. NoFile \in NoFile..Longest /\ 0 \in 0..Longest /\ 0 \in 0..PassTime
    BY Caps DEF NoFile
  <2>2. age \in [File -> NoFile..Longest] /\ first_seen \in [Job -> NoFile..Longest] /\ ended \in [Job -> 0..Longest]
    BY <2>1, Zenon DEF SweeperInit
  <2> QED
    BY <2>1, <2>2 DEF SweeperInit, SweeperTypeOK
<1>2. PictureInv
  BY DEF SweeperInit, PictureInv
<1>3. ReadInv
  BY DEF SweeperInit, ReadInv, HasRead, NoFile
<1> QED
  BY <1>1, <1>2, <1>3 DEF SweeperInv

LEMMA Tick_Swept ==
  ASSUME SweeperInv, Tick PROVE SweeperInv'
<1>1. SweeperTypeOK'
  <2> USE Caps DEF SweeperInv, SweeperTypeOK, NoFile
  <2>1. \A a \in NoFile..Longest : Older(a) \in NoFile..Longest
    BY DEF Older
  <2>2. age' \in [File -> NoFile..Longest] /\ first_seen' \in [Job -> NoFile..Longest]
    <3>1. age \in [File -> NoFile..Longest] /\ first_seen \in [Job -> NoFile..Longest]
      OBVIOUS
    <3>2. /\ age' = [f \in File |-> Older(age[f])]
          /\ first_seen' = [j \in Job |-> Older(first_seen[j])]
      BY DEF Tick
    <3> HIDE DEF SweeperInv, SweeperTypeOK, NoFile
    <3> QED
      BY <2>1, <3>1, <3>2, Zenon
  <2>3. ended' \in [Job -> 0..Longest]
    BY DEF Tick
  <2>4. since' \in 0..PassTime
    BY DEF Tick, InPass
  <2> QED
    BY <2>2, <2>3, <2>4 DEF Tick
<1>2. PictureInv'
  BY Caps DEF SweeperInv, SweeperTypeOK, PictureInv, ReadInv, Past, File, NoFile, Tick, Older, InPass
<1>3. ReadInv'
  BY Caps DEF SweeperInv, SweeperTypeOK, PictureInv, ReadInv, HasRead, Past, File, NoFile, Tick, Older, InPass
<1> QED
  BY <1>1, <1>2, <1>3 DEF SweeperInv

LEMMA Draws_Swept ==
  ASSUME NEW j0 \in Job, SweeperInv, Draws(j0) PROVE SweeperInv'
<1>1. SweeperTypeOK'
  BY Caps DEF SweeperInv, SweeperTypeOK, File, NoFile, Draws, passVars
<1>2. PictureInv'
  BY Caps DEF SweeperInv, SweeperTypeOK, PictureInv, ReadInv, Past, File, NoFile, Draws, passVars
<1>3. ReadInv'
  BY Caps DEF SweeperInv, SweeperTypeOK, PictureInv, ReadInv, HasRead, Past, File, NoFile, Draws, passVars
<1> QED
  BY <1>1, <1>2, <1>3 DEF SweeperInv

LEMMA Records_Swept ==
  ASSUME NEW j0 \in Job, SweeperInv, Records(j0) PROVE SweeperInv'
<1>1. SweeperTypeOK'
  BY Caps DEF SweeperInv, SweeperTypeOK, File, NoFile, Records, passVars
<1>2. PictureInv'
  BY Caps DEF SweeperInv, SweeperTypeOK, PictureInv, ReadInv, Past, File, NoFile, Records, passVars
<1>3. ReadInv'
  BY Caps DEF SweeperInv, SweeperTypeOK, PictureInv, ReadInv, HasRead, Past, File, NoFile, Records, passVars
<1> QED
  BY <1>1, <1>2, <1>3 DEF SweeperInv

LEMMA LetGo_Swept ==
  ASSUME NEW j0 \in Job, SweeperInv, LetGo(j0) PROVE SweeperInv'
<1>1. SweeperTypeOK'
  BY Caps DEF SweeperInv, SweeperTypeOK, File, NoFile, LetGo, passVars
<1>2. PictureInv'
  BY Caps DEF SweeperInv, SweeperTypeOK, PictureInv, ReadInv, Past, File, NoFile, LetGo, passVars
<1>3. ReadInv'
  BY Caps DEF SweeperInv, SweeperTypeOK, PictureInv, ReadInv, HasRead, Past, File, NoFile, LetGo, passVars
<1> QED
  BY <1>1, <1>2, <1>3 DEF SweeperInv

LEMMA Forgotten_Swept ==
  ASSUME NEW j0 \in Job, SweeperInv, Forgotten(j0) PROVE SweeperInv'
<1>1. SweeperTypeOK'
  BY Caps DEF SweeperInv, SweeperTypeOK, File, NoFile, Forgotten, passVars
<1>2. PictureInv'
  BY Caps DEF SweeperInv, SweeperTypeOK, PictureInv, ReadInv, Past, File, NoFile, Forgotten, passVars
<1>3. ReadInv'
  BY Caps DEF SweeperInv, SweeperTypeOK, PictureInv, ReadInv, HasRead, Past, File, NoFile, Forgotten, passVars
<1> QED
  BY <1>1, <1>2, <1>3 DEF SweeperInv

LEMMA Uploads_Swept ==
  ASSUME NEW f0 \in Reference, SweeperInv, Uploads(f0) PROVE SweeperInv'
<1>1. SweeperTypeOK'
  <2>1. age' \in [File -> NoFile..Longest]
    BY Caps DEF SweeperInv, SweeperTypeOK, File, NoFile, Uploads
  <2>2. late' \in [Reference -> BOOLEAN]
    BY DEF SweeperInv, SweeperTypeOK, Uploads
  <2> QED
    BY <2>1, <2>2 DEF SweeperInv, SweeperTypeOK, Uploads, jobVars, passVars
<1>2. PictureInv'
  BY Caps DEF SweeperInv, SweeperTypeOK, PictureInv, ReadInv, Past, File, NoFile, Uploads, jobVars, passVars
<1>3. ReadInv'
  BY Caps DEF SweeperInv, SweeperTypeOK, PictureInv, ReadInv, HasRead, Past, File, NoFile, Uploads, jobVars, passVars
<1> QED
  BY <1>1, <1>2, <1>3 DEF SweeperInv

LEMMA WrittenLate_Swept ==
  ASSUME NEW f0 \in Reference, SweeperInv, WrittenLate(f0) PROVE SweeperInv'
<1>1. SweeperTypeOK'
  BY Caps DEF SweeperInv, SweeperTypeOK, File, NoFile, WrittenLate, jobVars, passVars
<1>2. PictureInv'
  BY Caps DEF SweeperInv, SweeperTypeOK, PictureInv, ReadInv, Past, File, NoFile, WrittenLate, jobVars, passVars
<1>3. ReadInv'
  BY Caps DEF SweeperInv, SweeperTypeOK, PictureInv, ReadInv, HasRead, Past, File, NoFile, WrittenLate, jobVars, passVars
<1> QED
  BY <1>1, <1>2, <1>3 DEF SweeperInv

LEMMA ServerGoes_Swept ==
  ASSUME SweeperInv, ServerGoes PROVE SweeperInv'
<1>1. SweeperTypeOK'
  BY Caps DEF SweeperInv, SweeperTypeOK, File, NoFile, ServerGoes, passVars
<1>2. PictureInv'
  BY Caps DEF SweeperInv, SweeperTypeOK, PictureInv, ReadInv, Past, File, NoFile, ServerGoes, passVars
<1>3. ReadInv'
  BY Caps DEF SweeperInv, SweeperTypeOK, PictureInv, ReadInv, HasRead, Past, File, NoFile, ServerGoes, passVars
<1> QED
  BY <1>1, <1>2, <1>3 DEF SweeperInv

LEMMA ServerStarts_Swept ==
  ASSUME SweeperInv, ServerStarts PROVE SweeperInv'
<1>1. SweeperTypeOK'
  <2>1. NoFile \in NoFile..Longest /\ 0 \in 0..PassTime
    BY Caps DEF NoFile
  <2>2. age' \in [File -> NoFile..Longest] /\ first_seen' \in [Job -> NoFile..Longest]
    BY <2>1, Zenon DEF ServerStarts
  <2> QED
    BY <2>1, <2>2 DEF SweeperInv, SweeperTypeOK, ServerStarts, jobVars
<1>2. PictureInv'
  BY Caps DEF SweeperInv, SweeperTypeOK, PictureInv, ReadInv, Past, File, NoFile, ServerStarts, jobVars
<1>3. ReadInv'
  BY Caps DEF SweeperInv, SweeperTypeOK, PictureInv, ReadInv, HasRead, Past, File, NoFile, ServerStarts, jobVars
<1> QED
  BY <1>1, <1>2, <1>3 DEF SweeperInv

LEMMA PassStarts_Swept ==
  ASSUME SweeperInv, PassStarts PROVE SweeperInv'
<1>1. SweeperTypeOK'
  BY Caps DEF SweeperInv, SweeperTypeOK, File, NoFile, PassStarts, SweeperFrame
<1>2. PictureInv'
  BY Caps DEF SweeperInv, SweeperTypeOK, PictureInv, ReadInv, Past, File, NoFile, PassStarts, SweeperFrame
<1>3. ReadInv'
  BY Caps DEF SweeperInv, SweeperTypeOK, PictureInv, ReadInv, HasRead, Past, File, NoFile, PassStarts, SweeperFrame
<1> QED
  BY <1>1, <1>2, <1>3 DEF SweeperInv

LEMMA HistoryAnswered_Swept ==
  ASSUME SweeperInv, HistoryAnswered PROVE SweeperInv'
<1>1. SweeperTypeOK'
  BY Caps DEF SweeperInv, SweeperTypeOK, File, NoFile, HistoryAnswered, SweeperFrame
<1>2. PictureInv'
  BY Caps DEF SweeperInv, SweeperTypeOK, PictureInv, ReadInv, Past, File, NoFile, HistoryAnswered, SweeperFrame
<1>3. ReadInv'
  BY Caps DEF SweeperInv, SweeperTypeOK, PictureInv, ReadInv, HasRead, Past, File, NoFile, HistoryAnswered, SweeperFrame
<1> QED
  BY <1>1, <1>2, <1>3 DEF SweeperInv

LEMMA HistoryUnreadable_Swept ==
  ASSUME SweeperInv, HistoryUnreadable PROVE SweeperInv'
<1>1. SweeperTypeOK'
  BY Caps DEF SweeperInv, SweeperTypeOK, File, NoFile, HistoryUnreadable, Walks, Present, SweeperFrame
<1>2. PictureInv'
  BY Caps DEF SweeperInv, SweeperTypeOK, PictureInv, ReadInv, Past, File, NoFile, HistoryUnreadable, Walks, Present, SweeperFrame
<1>3. ReadInv'
  BY Caps DEF SweeperInv, SweeperTypeOK, PictureInv, ReadInv, HasRead, Past, File, NoFile, HistoryUnreadable, Walks, Present, SweeperFrame
<1> QED
  BY <1>1, <1>2, <1>3 DEF SweeperInv

LEMMA HistoryRead_Swept ==
  ASSUME SweeperInv, HistoryRead PROVE SweeperInv'
<1>1. SweeperTypeOK'
  <2> USE DEF SweeperInv, SweeperTypeOK
  <2>1. first_seen' \in [Job -> NoFile..Longest]
    BY Caps DEF HistoryRead, FirstSeen, NoFile
  <2>2. stale' \subseteq Job
    BY DEF HistoryRead, StaleRecords
  <2>3. todo' \subseteq File /\ pc' \in {"walking", "deleting"} /\ readable' = TRUE
    BY DEF HistoryRead, Walks, Present
  <2> QED
    BY <2>1, <2>2, <2>3 DEF HistoryRead, SweeperFrame
<1>2. PictureInv'
  BY Caps DEF SweeperInv, SweeperTypeOK, PictureInv, ReadInv, Past, File, NoFile, HistoryRead, Walks, Present, FirstSeen, StaleRecords, SweeperFrame
<1>3. ReadInv'
  <2> USE DEF SweeperInv
  <2> SUFFICES ASSUME NEW j \in Job
               PROVE  /\ j \in history => record[j] # "due"
                      /\ first_seen'[j] # NoFile => record[j] # "due" /\ first_seen'[j] <= ended[j] + PassTime
                      /\ j \in stale' => pc' = "deleting" /\ j \in history /\ Past(j)
                      /\ wanted[j] /\ j \notin history /\ age[j] - since > RecordGap => Past(j)
    BY DEF ReadInv, HasRead, Past, HistoryRead, SweeperFrame
  <2>1. /\ j \in history => record[j] # "due"
        /\ wanted[j] /\ j \notin history /\ age[j] - since > RecordGap => Past(j)
    BY DEF ReadInv, HasRead, HistoryRead
  <2>2. FirstSeen[j] # NoFile => record[j] # "due" /\ FirstSeen[j] <= ended[j] + PassTime
    BY Caps DEF ReadInv, FirstSeen, SweeperTypeOK
  <2>3. ASSUME j \in StaleRecords PROVE j \in history /\ Past(j)
    <3>1. j \in history /\ (IF stamped[j] THEN ended[j] ELSE FirstSeen[j]) - since >= HISTORY_CAP
      BY <2>3 DEF StaleRecords
    <3>2. FirstSeen[j] \in Int /\ since \in Nat /\ ended[j] \in Nat
      BY Caps DEF FirstSeen, SweeperTypeOK, NoFile
    <3>3. CASE stamped[j]
      BY <3>1, <3>2, <3>3, Caps DEF Past
    <3>4. CASE ~stamped[j]
      <4>1. FirstSeen[j] # NoFile
        BY <3>1, <3>2, <3>4, Caps DEF NoFile
      <4> QED
        BY <2>2, <3>1, <3>2, <3>4, <4>1, Caps DEF Past
    <3> QED
      BY <3>1, <3>3, <3>4
  <2>4. first_seen' = FirstSeen /\ stale' = StaleRecords /\ (stale' # {} => pc' = "deleting")
    BY DEF HistoryRead
  <2> QED
    BY <2>1, <2>2, <2>3, <2>4
<1> QED
  BY <1>1, <1>2, <1>3 DEF SweeperInv

LEMMA DeletesRecords_Swept ==
  ASSUME SweeperInv, DeletesRecords PROVE SweeperInv'
<1>1. SweeperTypeOK'
  BY Caps DEF SweeperInv, SweeperTypeOK, File, NoFile, DeletesRecords, Deleted, Walks, Present, SweeperFrame
<1>2. PictureInv'
  BY Caps DEF SweeperInv, SweeperTypeOK, PictureInv, ReadInv, Past, File, NoFile, DeletesRecords, Deleted, Walks, Present, SweeperFrame
<1>3. ReadInv'
  BY Caps DEF SweeperInv, SweeperTypeOK, PictureInv, ReadInv, HasRead, Past, File, NoFile, DeletesRecords, Deleted, Walks, Present, SweeperFrame
<1> QED
  BY <1>1, <1>2, <1>3 DEF SweeperInv

LEMMA RecordsUndeleted_Swept ==
  ASSUME SweeperInv, RecordsUndeleted PROVE SweeperInv'
<1>1. SweeperTypeOK'
  BY Caps DEF SweeperInv, SweeperTypeOK, File, NoFile, RecordsUndeleted, Deleted, Walks, Present, SweeperFrame
<1>2. PictureInv'
  BY Caps DEF SweeperInv, SweeperTypeOK, PictureInv, ReadInv, Past, File, NoFile, RecordsUndeleted, Deleted, Walks, Present, SweeperFrame
<1>3. ReadInv'
  BY Caps DEF SweeperInv, SweeperTypeOK, PictureInv, ReadInv, HasRead, Past, File, NoFile, RecordsUndeleted, Deleted, Walks, Present, SweeperFrame
<1> QED
  BY <1>1, <1>2, <1>3 DEF SweeperInv

LEMMA SweepsFile_Swept ==
  ASSUME NEW f0 \in File, SweeperInv, SweepsFile(f0) PROVE SweeperInv'
<1>1. SweeperTypeOK'
  BY Caps DEF SweeperInv, SweeperTypeOK, File, NoFile, SweepsFile, Comes, SweeperFrame
<1>2. PictureInv'
  BY Caps DEF SweeperInv, SweeperTypeOK, PictureInv, ReadInv, Past, File, NoFile, SweepsFile, Comes, SweeperFrame
<1>3. ReadInv'
  BY Caps DEF SweeperInv, SweeperTypeOK, PictureInv, ReadInv, HasRead, Past, File, NoFile, SweepsFile, Comes, SweeperFrame
<1> QED
  BY <1>1, <1>2, <1>3 DEF SweeperInv

LEMMA LeavesFile_Swept ==
  ASSUME NEW f0 \in File, SweeperInv, LeavesFile(f0) PROVE SweeperInv'
<1>1. SweeperTypeOK'
  BY Caps DEF SweeperInv, SweeperTypeOK, File, NoFile, LeavesFile, Comes, SweeperFrame
<1>2. PictureInv'
  BY Caps DEF SweeperInv, SweeperTypeOK, PictureInv, ReadInv, Past, File, NoFile, LeavesFile, Comes, SweeperFrame
<1>3. ReadInv'
  BY Caps DEF SweeperInv, SweeperTypeOK, PictureInv, ReadInv, HasRead, Past, File, NoFile, LeavesFile, Comes, SweeperFrame
<1> QED
  BY <1>1, <1>2, <1>3 DEF SweeperInv

LEMMA PassEnds_Swept ==
  ASSUME SweeperInv, PassEnds PROVE SweeperInv'
<1>1. SweeperTypeOK'
  BY Caps DEF SweeperInv, SweeperTypeOK, File, NoFile, PassEnds, SweeperFrame
<1>2. PictureInv'
  BY Caps DEF SweeperInv, SweeperTypeOK, PictureInv, ReadInv, Past, File, NoFile, PassEnds, SweeperFrame
<1>3. ReadInv'
  BY Caps DEF SweeperInv, SweeperTypeOK, PictureInv, ReadInv, HasRead, Past, File, NoFile, PassEnds, SweeperFrame
<1> QED
  BY <1>1, <1>2, <1>3 DEF SweeperInv

(* What the steps of ComfyUI, the gateway and the sweeper preserve.      *)
LEMMA SweeperStep ==
  ASSUME SweeperInv, SweeperNext PROVE SweeperInv'
<1>1. CASE Tick
  BY <1>1, Tick_Swept
<1>2. CASE Sweeps
  BY <1>2, PassStarts_Swept, HistoryAnswered_Swept, HistoryUnreadable_Swept, HistoryRead_Swept,
     DeletesRecords_Swept, RecordsUndeleted_Swept, PassEnds_Swept, SweepsFile_Swept, LeavesFile_Swept, Zenon
     DEF Sweeps
<1>3. CASE Others
  BY <1>3, Draws_Swept, Records_Swept, LetGo_Swept, Forgotten_Swept, Uploads_Swept, WrittenLate_Swept,
     ServerGoes_Swept, ServerStarts_Swept, Zenon
     DEF Others
<1> QED
  BY <1>1, <1>2, <1>3 DEF SweeperNext

LEMMA SweeperStutter ==
  ASSUME SweeperInv, UNCHANGED sweeperVars PROVE SweeperInv'
BY Zenon DEF SweeperInv, SweeperTypeOK, PictureInv, ReadInv, HasRead, Past, sweeperVars, jobVars, passVars

(* The temp folder of the card, the records of ComfyUI and the pass of the *)
(* sweeper have their types, and a record is never due for longer than the *)
(* gap; a file that a read of the records missed was drawn after it.      *)
THEOREM SweeperInvHolds == SweeperSpec => []SweeperInv
<1>1. SweeperInv /\ [SweeperNext]_sweeperVars => SweeperInv'
  BY SweeperStep, SweeperStutter
<1> QED
  BY <1>1, SweeperInitInv, PTL DEF SweeperSpec

(* Every state of the sweeper, ComfyUI and the gateway beside them has    *)
(* the types of SweeperTypeOK.                                            *)
THEOREM SweeperTypesHold == SweeperSpec => []SweeperTypeOK
<1>1. SweeperInv => SweeperTypeOK
  BY DEF SweeperInv
<1> QED
  BY <1>1, SweeperInvHolds, PTL

(* Who erases a wanted picture: not a new server, for which nothing is    *)
(* wanted, and the sweeper only past a cap.                               *)
LEMMA WantedErased ==
  ASSUME SweeperInv, SweeperNext, NEW j \in Job,
         wanted[j], age[j] # NoFile, age'[j] = NoFile
  PROVE  age[j] >= FILE_CAP \/ Past(j)
<1> USE DEF SweeperInv
<1>1. PICK f0 \in File : SweepsFile(f0)
  <2>1. ~Tick
    BY Caps DEF Tick, Older, SweeperTypeOK, File, NoFile
  <2>2. ASSUME NEW j0 \in Job, Draws(j0) \/ Records(j0) \/ LetGo(j0) \/ Forgotten(j0) PROVE FALSE
    BY <2>2, Caps DEF Draws, Records, LetGo, Forgotten, SweeperTypeOK, File, NoFile
  <2>3. ASSUME NEW f0 \in Reference, Uploads(f0) \/ WrittenLate(f0) PROVE FALSE
    BY <2>3, Caps DEF Uploads, WrittenLate, SweeperTypeOK, File
  <2>4. ~ServerGoes /\ ~ServerStarts
    BY DEF ServerGoes, ServerStarts, PictureInv
  <2>5. ASSUME NEW f0 \in File, LeavesFile(f0) PROVE FALSE
    BY <2>5 DEF LeavesFile
  <2>6. /\ ~PassStarts /\ ~HistoryAnswered /\ ~HistoryUnreadable /\ ~HistoryRead
        /\ ~DeletesRecords /\ ~RecordsUndeleted /\ ~PassEnds
    BY DEF PassStarts, HistoryAnswered, HistoryUnreadable, HistoryRead, DeletesRecords, RecordsUndeleted, PassEnds
  <2> QED
    BY <2>1, <2>2, <2>3, <2>4, <2>5, <2>6, Zenon DEF SweeperNext, Sweeps, Others
<1>2. f0 = j
  BY <1>1 DEF SweepsFile, SweeperTypeOK, File
<1>3. Due(j) /\ pc = "walking"
  BY <1>1, <1>2 DEF SweepsFile, Comes
<1>4. age[j] \in Int /\ since \in Nat
  BY Caps DEF SweeperTypeOK, File, NoFile
<1>5. CASE AgeNow(j) >= FILE_CAP
  BY <1>4, <1>5, Caps DEF AgeNow
<1>6. CASE readable /\ ~Named(j) /\ AgeNow(j) >= GRACE
  BY <1>3, <1>4, <1>6, Caps DEF AgeNow, Named, HasRead, ReadInv
<1> QED
  BY <1>3, <1>5, <1>6 DEF Due

(* A picture that the gateway still waits for or reads is not swept       *)
(* before it, or its record, has reached a cap: for any number of jobs    *)
(* and uploads, any caps, and a pass of any length.                       *)
THEOREM WantedPicturesStay == SweeperSpec => WantedStays
<1> DEFINE Early(j) ==
             wanted[j] /\ age[j] # NoFile /\ age'[j] = NoFile
               => \/ age[j] >= FILE_CAP
                  \/ ended[j] + (IF stamped[j] THEN 0 ELSE PassTime) >= HISTORY_CAP
<1>1. SweeperInv /\ [SweeperNext]_sweeperVars => [\A j \in Job : Early(j)]_sweeperVars
  BY WantedErased DEF Past
<1> QED
  BY <1>1, SweeperInvHolds, PTL DEF SweeperSpec, WantedStays
=============================================================================
