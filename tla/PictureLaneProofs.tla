-------------------------- MODULE PictureLaneProofs --------------------------
(***************************************************************************)
(* Proofs about PictureLane for every set of jobs and all caps: the jobs   *)
(* on the card are among those the service shows, these are within the cap *)
(* of their class, and the card draws them in the order of their classes   *)
(* and of their arrival.                                                   *)
(*                                                                         *)
(* What accept counts may pass the cap later: a job whose stop is not      *)
(* confirmed is counted twice until its stream has ended.  The set of      *)
(* those jobs never does, which is the invariant (Room); and it holds all  *)
(* that ComfyUI may have (Known), of which nothing is shown twice (Apart). *)
(***************************************************************************)
EXTENDS PictureLane, FiniteSetTheorems, TLAPS

Taking(c) == Of(c, work \cup unresolved)

Known ==
  \A j \in Job : /\ wire[j] = "out" => stage[j] \in {"submitting", "cleanup"}
                 /\ InQueue(j) => j \in jobs \cup unresolved

Apart == \A j \in unresolved : stage[j] \in {"none", "answering"}

Room == \A c \in Class : Cardinality(Taking(c)) <= LIMITS[c]

IInv == TypeOK /\ Known /\ Apart /\ Room

-----------------------------------------------------------------------------
LEMMA OfIsFinite ==
  ASSUME NEW c, NEW S, S \subseteq Job
  PROVE  IsFiniteSet(Of(c, S)) /\ Cardinality(Of(c, S)) \in Nat
<1>1. Of(c, S) \subseteq Job
  BY DEF Of
<1> QED  BY <1>1, FS_Subset, FS_CardinalityType, PictureLaneAssumption

(* A step that lets no job in takes no room.                             *)
LEMMA NoneComes ==
  ASSUME Room, (work \cup unresolved)' \subseteq work \cup unresolved,
         work \subseteq Job, unresolved \subseteq Job
  PROVE  Room'
<1> SUFFICES ASSUME NEW c \in Class PROVE Cardinality(Taking(c)') <= LIMITS[c]
  BY DEF Room
<1>1. Taking(c)' \subseteq Taking(c)
  BY DEF Taking, Of
<1>2. IsFiniteSet(Taking(c)) /\ Cardinality(Taking(c)) \in Nat
  BY OfIsFinite DEF Taking
<1>3. Cardinality(Taking(c)') <= Cardinality(Taking(c)) /\ Cardinality(Taking(c)') \in Nat
  BY <1>1, <1>2, FS_Subset, FS_CardinalityType
<1>4. LIMITS[c] \in Nat /\ Cardinality(Taking(c)) <= LIMITS[c]
  BY PictureLaneAssumption DEF Room
<1> QED  BY <1>2, <1>3, <1>4

(* What accept counts is at least the jobs that take the room.           *)
LEMMA TakingIsHeld ==
  ASSUME NEW c, work \subseteq Job, unresolved \subseteq Job
  PROVE  Cardinality(Taking(c)) <= Held(c) /\ Cardinality(Taking(c)) \in Nat /\ Held(c) \in Nat
<1>1. Taking(c) = Of(c, work) \cup Of(c, unresolved)
  BY DEF Taking, Of
<1>2. /\ IsFiniteSet(Of(c, work)) /\ Cardinality(Of(c, work)) \in Nat
      /\ IsFiniteSet(Of(c, unresolved)) /\ Cardinality(Of(c, unresolved)) \in Nat
  BY OfIsFinite
<1>3. /\ Cardinality(Taking(c)) = Cardinality(Of(c, work)) + Cardinality(Of(c, unresolved))
                                  - Cardinality(Of(c, work) \cap Of(c, unresolved))
      /\ IsFiniteSet(Of(c, work) \cap Of(c, unresolved))
      /\ IsFiniteSet(Taking(c))
  BY <1>1, <1>2, FS_Union, FS_Intersection
<1>4. Cardinality(Of(c, work) \cap Of(c, unresolved)) \in Nat /\ Cardinality(Taking(c)) \in Nat
  BY <1>3, FS_CardinalityType
<1> QED  BY <1>2, <1>3, <1>4 DEF Held, Unconfirmed

LEMMA InitIInv == Init => IInv
<1> SUFFICES ASSUME Init PROVE IInv
  OBVIOUS
<1>1. TypeOK /\ Known /\ Apart
  BY DEF Init, TypeOK, Known, Apart, Stage, InQueue
<1>2. \A c \in Class : Taking(c) = {}
  BY DEF Init, Taking, Of, work
<1>3. Room
  BY <1>2, FS_EmptySet, PictureLaneAssumption DEF Room
<1> QED  BY <1>1, <1>3 DEF IInv

LEMMA AcceptIInv ==
  ASSUME IInv, NEW j \in Job, Accept(j)
  PROVE  IInv'
<1>1. TypeOK'
  BY DEF IInv, TypeOK, Accept, Stage, countVars, checkVars
<1>2. Known' /\ Apart'
  BY <1>1 DEF IInv, TypeOK, Known, Apart, Accept, Unused, InQueue, jobs, Stage, checkVars
<1>3. (work \cup unresolved)' = (work \cup unresolved) \cup {j} /\ work \subseteq Job /\ unresolved \subseteq Job
  BY DEF IInv, TypeOK, Accept, Unused, work, checkVars
<1>4. ASSUME NEW c \in Class PROVE Cardinality(Taking(c)') <= LIMITS[c]
  <2>1. Cardinality(Taking(c)) <= LIMITS[c] /\ LIMITS[c] \in Nat
    BY PictureLaneAssumption DEF IInv, Room
  <2>2. CASE c # cls[j]
    <3>1. Taking(c)' = Taking(c)
      BY <1>3, <2>2 DEF Taking, Of
    <3> QED  BY <3>1, <2>1
  <2>3. CASE c = cls[j]
    <3>1. Taking(c)' = Taking(c) \cup {j}
      BY <1>3, <2>3 DEF Taking, Of
    <3>2. IsFiniteSet(Taking(c)) /\ Cardinality(Taking(c)) \in Nat
      BY <1>3, OfIsFinite DEF Taking
    <3>3. Cardinality(Taking(c)') <= Cardinality(Taking(c)) + 1 /\ Cardinality(Taking(c)') \in Nat
      <4> DEFINE T == Taking(c)
      <4>1. IsFiniteSet(T) /\ Cardinality(T) \in Nat /\ Cardinality(T) = Cardinality(Taking(c))
        BY <3>2
      <4>2. Cardinality(Taking(c)') = Cardinality(T \cup {j})
        BY <3>1
      <4> HIDE DEF T
      <4>3. Cardinality(T \cup {j}) = IF j \in T THEN Cardinality(T) ELSE Cardinality(T) + 1
        BY <4>1, FS_AddElement
      <4> QED  BY <4>1, <4>2, <4>3
    <3>4. Held(c) < LIMITS[c] /\ Cardinality(Taking(c)) <= Held(c) /\ Held(c) \in Nat
      BY <1>3, <2>3, TakingIsHeld DEF Accept
    <3> QED  BY <2>1, <3>2, <3>3, <3>4
  <2> QED  BY <2>2, <2>3
<1> QED  BY <1>1, <1>2, <1>4 DEF IInv, Room

(* Every other step of a job ends its part of the room, or moves it from *)
(* the accepted work to the unresolved stops.                            *)
LEMMA JobIInv ==
  ASSUME IInv, NEW j \in Job, JobStep(j)
  PROVE  IInv'
<1> USE DEF IInv
<1>1. CASE Accept(j)
  BY <1>1, AcceptIInv
<1>2. CASE Submit(j)
  <2>1. TypeOK'
    BY <1>2 DEF TypeOK, Submit, Stage, checkVars
  <2>2. Known' /\ Apart'
    BY <1>2, <2>1 DEF TypeOK, Known, Apart, Submit, InQueue, jobs, Stage, checkVars
  <2>3. Room'
    BY <1>2, NoneComes DEF TypeOK, Submit, work, checkVars
  <2> QED  BY <2>1, <2>2, <2>3
<1>3. CASE Followed(j) \/ Over(j) \/ TaskEnds(j) \/ OffTheCard(j) \/ Answered(j)
  <2>1. TypeOK'
    BY <1>3 DEF TypeOK, Followed, Over, TaskEnds, OffTheCard, Answered, Goes, Stage, countVars
  <2>2. Known' /\ Apart'
    BY <1>3, <2>1 DEF TypeOK, Known, Apart, Followed, Over, TaskEnds, OffTheCard, Answered, Goes,
                      InQueue, jobs, Stage
  <2>3. Room'
    BY <1>3, NoneComes DEF TypeOK, Followed, Over, TaskEnds, OffTheCard, Answered, Goes, work
  <2> QED  BY <2>1, <2>2, <2>3
<1>4. CASE CancelJob(j)
  <2>1. TypeOK'
    BY <1>4 DEF TypeOK, CancelJob, Leaves, checkVars
  <2>2. Known' /\ Apart'
    BY <1>4, <2>1 DEF TypeOK, Known, Apart, CancelJob, Leaves, InQueue, jobs, checkVars
  <2>3. Room'
    BY <1>4, NoneComes DEF TypeOK, CancelJob, work, checkVars
  <2> QED  BY <2>1, <2>2, <2>3
<1>5. CASE StopUnconfirmed(j)
  <2>1. TypeOK'
    BY <1>5 DEF TypeOK, StopUnconfirmed, Goes, Stage, countVars
  <2>2. Known' /\ Apart'
    BY <1>5, <2>1 DEF TypeOK, Known, Apart, StopUnconfirmed, Goes, InQueue, jobs, Stage
  <2>3. (work \cup unresolved)' \subseteq work \cup unresolved
    BY <1>5 DEF TypeOK, StopUnconfirmed, Goes, work
  <2>4. Room'
    BY <2>3, NoneComes DEF TypeOK, work
  <2> QED  BY <2>1, <2>2, <2>4
<1> QED  BY <1>1, <1>2, <1>3, <1>4, <1>5 DEF JobStep

(* A check resolves only stops of jobs that are off the card.            *)
LEMMA CheckIInv ==
  ASSUME IInv, CheckStep
  PROVE  IInv'
<1> USE DEF IInv
<1>1. CASE CheckStarts \/ CheckEnds
  <2>1. TypeOK'
    BY <1>1 DEF TypeOK, CheckStarts, CheckEnds, jobVars, countVars
  <2>2. Known' /\ Apart'
    BY <1>1 DEF TypeOK, Known, Apart, CheckStarts, CheckEnds, jobVars, InQueue, jobs
  <2>3. Room'
    BY <1>1, NoneComes DEF TypeOK, CheckStarts, CheckEnds, jobVars, work
  <2> QED  BY <2>1, <2>2, <2>3
<1>2. ASSUME NEW j \in Job, ResolveFails(j)
      PROVE  IInv'
  <2>1. TypeOK'
    BY <1>2 DEF TypeOK, ResolveFails, Turn, Cancelled, Leaves
  <2>2. Known' /\ Apart'
    BY <1>2, <2>1 DEF TypeOK, Known, Apart, ResolveFails, Turn, Cancelled, Leaves, InQueue, jobs
  <2>3. Room'
    BY <1>2, NoneComes DEF TypeOK, ResolveFails, work
  <2> QED  BY <2>1, <2>2, <2>3
<1>3. ASSUME NEW j \in Job, Resolve(j)
      PROVE  IInv'
  <2>1. TypeOK'
    BY <1>3 DEF TypeOK, Resolve, Turn, Cancelled, Leaves
  <2>2. j \in unresolved /\ j \notin unresolved' => ~InQueue(j)'
    BY <1>3 DEF TypeOK, Resolve, Cancelled, Leaves, InQueue
  <2>3. Known' /\ Apart'
    BY <1>3, <2>1, <2>2 DEF TypeOK, Known, Apart, Resolve, Cancelled, Leaves, InQueue, jobs
  <2>4. unresolved' \subseteq unresolved
    BY <1>3 DEF Resolve
  <2>5. Room'
    BY <1>3, <2>4, NoneComes DEF TypeOK, Resolve, work
  <2> QED  BY <2>1, <2>3, <2>5
<1> QED  BY <1>1, <1>2, <1>3 DEF CheckStep

LEMMA ComfyIInv ==
  ASSUME IInv, ComfyStep
  PROVE  IInv'
<1> USE DEF IInv
<1>1. stage' = stage /\ unresolved' = unresolved
  BY DEF ComfyStep, SubmitEnds, CardStarts, CardEnds, Restarts, jobVars, checkVars
<1>2. Room' /\ Apart'
  BY <1>1, NoneComes DEF TypeOK, work, Apart
<1>3. ASSUME NEW j \in Job, SubmitEnds(j)
      PROVE  TypeOK' /\ Known'
  <2>1. TypeOK'
    BY <1>3 DEF TypeOK, SubmitEnds, Leaves, checkVars
  <2>2. Known'
    BY <1>1, <1>3, <2>1 DEF TypeOK, Known, SubmitEnds, Leaves, InQueue, jobs
  <2> QED  BY <2>1, <2>2
<1>4. ASSUME NEW j \in Job, CardStarts(j) \/ CardEnds(j)
      PROVE  TypeOK' /\ Known'
  <2>1. TypeOK'
    BY <1>4 DEF TypeOK, CardStarts, CardEnds, Leaves, jobVars, countVars, checkVars
  <2>2. Known'
    BY <1>1, <1>4, <2>1 DEF TypeOK, Known, CardStarts, CardEnds, Leaves, InQueue, jobs, jobVars
  <2> QED  BY <2>1, <2>2
<1>5. CASE Restarts
  <2>1. TypeOK'
    BY <1>5 DEF TypeOK, Restarts, checkVars
  <2>2. Known'
    BY <1>1, <1>5 DEF TypeOK, Known, Restarts, InQueue
  <2> QED  BY <2>1, <2>2, <1>2
<1> QED  BY <1>2, <1>3, <1>4, <1>5 DEF ComfyStep

LEMMA NextIInv == IInv /\ [Next]_vars => IInv'
<1> SUFFICES ASSUME IInv, [Next]_vars PROVE IInv'
  OBVIOUS
<1>1. CASE UNCHANGED vars
  BY <1>1 DEF IInv, TypeOK, Known, Apart, Room, Taking, Of, work, jobs, InQueue,
              vars, jobVars, countVars, checkVars
<1> QED  BY <1>1, JobIInv, CheckIInv, ComfyIInv DEF Next

-----------------------------------------------------------------------------
LEMMA IInvWithinLimit == IInv => CardWithinLimit
<1> SUFFICES ASSUME IInv, NEW c \in Class
             PROVE  Cardinality(OnCard(c)) <= Shown(c) /\ Shown(c) <= LIMITS[c]
  BY DEF CardWithinLimit
<1> DEFINE A == Of(c, jobs)
           B == Of(c, unresolved)
<1>1. IsFiniteSet(A) /\ Cardinality(A) \in Nat /\ IsFiniteSet(B) /\ Cardinality(B) \in Nat
  BY OfIsFinite DEF IInv, TypeOK, jobs
<1>2. A \cap B = {}
  BY DEF IInv, Apart, Of, jobs
<1>3. IsFiniteSet(A \cup B) /\ Cardinality(A \cup B) = Cardinality(A) + Cardinality(B)
  <2>1. Cardinality(A \cap B) = 0
    BY <1>2, FS_EmptySet
  <2>2. /\ IsFiniteSet(A \cup B)
        /\ Cardinality(A \cup B) = Cardinality(A) + Cardinality(B) - Cardinality(A \cap B)
    <3> HIDE DEF A, B
    <3> QED  BY <1>1, FS_Union
  <2> QED  BY <1>1, <2>1, <2>2
<1>4. Shown(c) = Cardinality(A \cup B) /\ Shown(c) \in Nat
  BY <1>1, <1>3 DEF Shown, Unconfirmed
<1>5. OnCard(c) \subseteq A \cup B
  BY DEF OnCard, Of, IInv, Known, jobs
<1>6. A \cup B \subseteq Taking(c)
  BY DEF Taking, Of, jobs, work
<1>7. IsFiniteSet(Taking(c)) /\ Cardinality(Taking(c)) \in Nat
  BY OfIsFinite DEF Taking, IInv, TypeOK, work
<1>8. Cardinality(OnCard(c)) <= Cardinality(A \cup B)
  BY <1>3, <1>5, FS_Subset
<1>9. Cardinality(A \cup B) <= Cardinality(Taking(c))
  BY <1>6, <1>7, FS_Subset
<1>10. Cardinality(Taking(c)) <= LIMITS[c] /\ LIMITS[c] \in Nat
  BY PictureLaneAssumption DEF IInv, Room
<1> QED  BY <1>4, <1>7, <1>8, <1>9, <1>10

(* The jobs of a class that ComfyUI has, or may have once a submit is    *)
(* through, are never more than the service shows, and those never more  *)
(* than the cap of the class: whatever becomes of streams, of the stops, *)
(* of the checks that ask again and of ComfyUI.                          *)
THEOREM JobsStayWithinLimit == Spec => []CardWithinLimit
<1>1. Spec => []IInv
  BY InitIInv, NextIInv, PTL DEF Spec
<1> QED  BY <1>1, IInvWithinLimit, PTL

-----------------------------------------------------------------------------
(* The order on the card.  The numbers stay below ORDER, which keeps the *)
(* classes apart; each waiting job has one that was given out.           *)
Numbered == numbered <= MaxNumbered /\ \A j \in Job : nth[j] <= numbered

LEMMA InitNumbered == Init => Numbered
BY PictureLaneAssumption DEF Init, Numbered

LEMMA NextNumbered == TypeOK /\ Numbered /\ [Next]_vars => Numbered'
<1> SUFFICES ASSUME TypeOK, Numbered, [Next]_vars PROVE Numbered'
  OBVIOUS
<1> USE DEF TypeOK, Numbered
<1>1. MaxNumbered \in Nat
  BY PictureLaneAssumption
<1>2. ASSUME NEW j \in Job, JobStep(j)
      PROVE  Numbered'
  <2>1. CASE Submit(j)
    BY <1>1, <2>1 DEF Submit
  <2>2. CASE CancelJob(j)
    BY <2>2 DEF CancelJob, Leaves
  <2>3. CASE ~Submit(j) /\ ~CancelJob(j)
    BY <1>2, <2>3 DEF JobStep, Accept, Followed, Over, TaskEnds, OffTheCard, StopUnconfirmed, Answered, Goes, countVars
  <2> QED  BY <2>1, <2>2, <2>3
<1>3. CASE CheckStep
  <2>1. numbered' = numbered /\ (nth' = nth \/ \E j \in Job : nth' = [nth EXCEPT ![j] = 0])
    BY <1>3 DEF CheckStep, CheckStarts, CheckEnds, ResolveFails, Resolve, Cancelled, Leaves, jobVars, countVars
  <2> QED  BY <2>1
<1>4. CASE ComfyStep
  <2>1. CASE Restarts
    BY <2>1 DEF Restarts
  <2>2. ASSUME NEW j \in Job, SubmitEnds(j) \/ CardStarts(j) \/ CardEnds(j)
        PROVE  Numbered'
    BY <2>2 DEF SubmitEnds, CardStarts, CardEnds, Leaves, jobVars, countVars
  <2> QED  BY <1>4, <2>1, <2>2 DEF ComfyStep
<1>5. CASE UNCHANGED vars
  BY <1>5 DEF vars, jobVars, countVars
<1> QED  BY <1>2, <1>3, <1>4, <1>5 DEF Next

(* Of two waiting jobs the one that goes before has the lower number.    *)
LEMMA LowerGoesBefore ==
  ASSUME TypeOK, Numbered, NEW j \in Job, NEW k \in Job, Before(k, j)
  PROVE  number(k) < number(j)
<1>1. /\ nth[j] \in Nat /\ nth[k] \in Nat /\ nth[k] < ORDER /\ ORDER \in Nat /\ ORDER > 0
      /\ cls[j] \in Class /\ cls[k] \in Class
  BY PictureLaneAssumption DEF TypeOK, Numbered
<1>2. \A n \in Nat : /\ Number("reader", n) = -(ORDER + n) /\ Number("agent", n) = n
                      /\ Number("internal", n) = ORDER + n
  BY DEF Number
<1>3. CASE cls[k] = "reader" /\ cls[j] # "reader"
  BY <1>1, <1>2, <1>3 DEF Class, number
<1>4. CASE cls[k] = "agent" /\ cls[j] = "internal"
  BY <1>1, <1>2, <1>4 DEF number
<1>5. CASE cls[k] = cls[j] /\ IF cls[k] = "reader" THEN nth[k] > nth[j] ELSE nth[k] < nth[j]
  BY <1>1, <1>2, <1>5 DEF Class, number
<1> QED  BY <1>3, <1>4, <1>5 DEF Before

(* A job is drawn only by CardStarts, which takes the lowest number.     *)
LEMMA DrawnLowest ==
  ASSUME TypeOK, Next, NEW j \in Job, NEW k \in Job,
         card[j] = "pending", card'[j] = "running", card[k] = "pending"
  PROVE  number(j) <= number(k)
<1> USE DEF TypeOK
<1>1. ASSUME NEW i \in Job, JobStep(i)
      PROVE  FALSE
  BY <1>1 DEF JobStep, Accept, Submit, Followed, Over, TaskEnds, CancelJob, OffTheCard, StopUnconfirmed, Answered,
              Goes, Leaves
<1>2. ASSUME CheckStep
      PROVE  FALSE
  BY <1>2 DEF CheckStep, CheckStarts, CheckEnds, ResolveFails, Resolve, Cancelled, Leaves
<1>3. ASSUME NEW i \in Job, SubmitEnds(i) \/ CardEnds(i)
      PROVE  FALSE
  BY <1>3 DEF SubmitEnds, CardEnds, Leaves
<1>4. ~Restarts
  BY DEF Restarts
<1>5. PICK i \in Job : CardStarts(i)
  BY <1>1, <1>2, <1>3, <1>4 DEF Next, ComfyStep
<1>6. i = j
  BY <1>5 DEF CardStarts, Leaves
<1> QED  BY <1>5, <1>6 DEF CardStarts

(* The card starts no job while one that goes before it waits there: the *)
(* numbers the gateway submits under say so to a queue that knows no     *)
(* classes, and however many have been given out.                        *)
THEOREM JobsAreDrawnInOrder == Spec => DrawnInOrder
<1>1. /\ TypeOK /\ Numbered /\ [Next]_vars
      => [\A j, k \in Job :
           card[j] = "pending" /\ card'[j] = "running" /\ card[k] = "pending" => ~Before(k, j)]_vars
  <2> SUFFICES ASSUME TypeOK, Numbered, Next, NEW j \in Job, NEW k \in Job,
                      card[j] = "pending", card'[j] = "running", card[k] = "pending", Before(k, j)
               PROVE  FALSE
    OBVIOUS
  <2>1. number(j) <= number(k) /\ number(k) < number(j)
    BY DrawnLowest, LowerGoesBefore
  <2>2. number(j) \in Int /\ number(k) \in Int
    BY PictureLaneAssumption DEF TypeOK, number, Number, Class
  <2> QED  BY <2>1, <2>2
<1>2. Spec => []IInv
  BY InitIInv, NextIInv, PTL DEF Spec
<1>3. IInv => TypeOK
  BY DEF IInv
<1>4. Init => Numbered
  BY InitNumbered
<1>5. TypeOK /\ Numbered /\ [Next]_vars => Numbered'
  BY NextNumbered
<1>6. Spec => []Numbered
  BY <1>2, <1>3, <1>4, <1>5, PTL DEF Spec
<1> QED  BY <1>1, <1>2, <1>3, <1>6, PTL DEF Spec, DrawnInOrder
=============================================================================
