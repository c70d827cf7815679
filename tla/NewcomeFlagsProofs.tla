------------------------- MODULE NewcomeFlagsProofs -------------------------
(***************************************************************************)
(* Proofs about NewcomeFlags, for any topics and publishers: a sample is    *)
(* copied at most twice and goes out in at most two callbacks, whatever the *)
(* status publisher erases; and a sample is lost for two reasons only, the  *)
(* status publisher's mask and its arrival between the copy of the sample   *)
(* before it and the reset.                                                 *)
(***************************************************************************)
EXTENDS NewcomeFlags, TLAPS

\* The half of IInv that counts copies.
CopyInv == TypeOK /\ CopiesBounded

\* The parts of a push are processed one after the other: at most one is next.
LEMMA NextPartUnique ==
    ASSUME TypeOK, NEW t \in Topics, NEW u \in Topics, NextPart(t), NextPart(u)
    PROVE  t = u
BY RankAssumption DEF NextPart, TypeOK

LEMMA InitCopyInv == Init => CopyInv
<1> SUFFICES ASSUME Init
             PROVE  CopyInv
  OBVIOUS
<1>1. copies \in [Topics -> 0..3] /\ sent \in [Topics -> 0..5] /\ work \in Seq(Topics)
  BY DEF Init
<1>2. TypeOK
  <2>1. subscribed \subseteq Subscribable /\ mark \subseteq Topics
    BY DEF Init
  <2>2. newcome \subseteq Topics /\ push \subseteq Topics /\ ~stored /\ at = "check"
    BY DEF Init
  <2>3. running = NoPublisher /\ work = <<>>
    BY DEF Init
  <2> QED
    BY <1>1, <2>1, <2>2, <2>3 DEF TypeOK, Init
<1>3. \A t \in Topics : copies[t] = 0
  BY DEF Init
<1>4. CopiesBounded
  <2> SUFFICES ASSUME NEW t \in Topics \ {Status}
               PROVE  copies[t] <= 2 /\ copies[t] <= 1 /\ copies[t] = 0
    BY Zenon DEF CopiesBounded
  <2>1. copies[t] = 0
    BY <1>3
  <2> QED
    BY <2>1
<1> QED
  BY <1>2, <1>4 DEF CopyInv

\* A step keeps CopiesBounded for a topic whose copies, claim and due raise it
\* leaves alone or takes away.
LEMMA BoundStays ==
    ASSUME CopyInv, copies' = copies,
           \A t \in Topics \ {Status} : Claimed(t)' => Claimed(t),
           \A t \in Topics \ {Status} : RaiseDue(t)' => RaiseDue(t)
    PROVE  CopiesBounded'
BY DEF CopyInv, CopiesBounded

LEMMA PushKeeps ==
    ASSUME CopyInv, Push
    PROVE  CopyInv'
<1> USE DEF CopyInv, Push
<1>1. ~stored
  BY DEF TypeOK
<1>2. TypeOK'
  BY <1>1 DEF TypeOK
<1>3. CopiesBounded'
  BY <1>1, BoundStays DEF Claimed, RaiseDue
<1> QED
  BY <1>2, <1>3

\* A new sample starts without copies; the parts after it are not due yet.
LEMMA StoreKeeps ==
    ASSUME CopyInv, NEW t \in Topics, Store(t)
    PROVE  CopyInv'
<1> USE DEF CopyInv, Store
<1>1. copies' \in [Topics -> 0..3] /\ copies'[t] = 0
  BY DEF TypeOK
<1>2. TypeOK'
  BY <1>1 DEF TypeOK, NextPart
<1>3. ASSUME NEW u \in Topics \ {Status}
      PROVE  /\ copies'[u] <= 2
             /\ Claimed(u)' \/ RaiseDue(u)' => copies'[u] <= 1
             /\ Claimed(u)' /\ RaiseDue(u)' => copies'[u] = 0
  <2>1. CASE u = t
    BY <1>1, <2>1
  <2>2. CASE u # t
    <3>1. copies'[u] = copies[u] /\ Claimed(u)' = Claimed(u)
      BY <2>2 DEF TypeOK, Claimed
    <3>2. ~RaiseDue(u)'
      BY <2>2, NextPartUnique DEF RaiseDue, NextPart
    <3> QED
      BY <3>1, <3>2 DEF CopiesBounded
  <2> QED
    BY <2>1, <2>2
<1> QED
  BY <1>2, <1>3 DEF CopiesBounded

\* The due raise turns into a claim.
LEMMA SetFlagKeeps ==
    ASSUME CopyInv, NEW t \in Topics, SetNewcomeFlag(t)
    PROVE  CopyInv'
<1> USE DEF CopyInv, SetNewcomeFlag
<1>1. TypeOK'
  BY DEF TypeOK
<1>2. ASSUME NEW u \in Topics \ {Status}
      PROVE  /\ copies'[u] <= 2
             /\ Claimed(u)' \/ RaiseDue(u)' => copies'[u] <= 1
             /\ Claimed(u)' /\ RaiseDue(u)' => copies'[u] = 0
  <2>1. ~RaiseDue(u)' /\ copies'[u] = copies[u]
    BY DEF RaiseDue
  <2>2. CASE u = t
    BY <2>1, <2>2 DEF CopiesBounded, RaiseDue
  <2>3. CASE u # t
    <3>1. Claimed(u)' => Claimed(u)
      BY <2>3 DEF Claimed
    <3> QED
      BY <2>1, <3>1 DEF CopiesBounded
  <2> QED
    BY <2>2, <2>3
<1> QED
  BY <1>1, <1>2 DEF CopiesBounded

LEMMA SubscriptionKeeps ==
    ASSUME CopyInv, NEW p \in Publishers, Subscription(p)
    PROVE  CopyInv'
<1> USE DEF CopyInv, Subscription
<1>1. TypeOK'
  BY DEF TypeOK
<1>2. CopiesBounded'
  BY BoundStays DEF Claimed, RaiseDue, NextPart
<1> QED
  BY <1>1, <1>2

LEMMA TimerFiresKeeps ==
    ASSUME CopyInv, NEW p \in Publishers, TimerFires(p)
    PROVE  CopyInv'
<1> USE DEF CopyInv, TimerFires
<1>0. at = "check"
  BY DEF TypeOK
<1>1. TypeOK'
  BY TopicsOfAssumption, NoPublisherAssumption DEF TypeOK
<1>2. CopiesBounded'
  BY <1>0, BoundStays DEF Claimed, RaiseDue, NextPart
<1> QED
  BY <1>1, <1>2

LEMMA CheckKeeps ==
    ASSUME CopyInv, Check
    PROVE  CopyInv'
<1> USE DEF CopyInv, Check
<1>1. TypeOK'
  BY DEF TypeOK
<1>2. CopiesBounded'
  BY BoundStays DEF Claimed, RaiseDue, NextPart
<1> QED
  BY <1>1, <1>2

\* A copy uses up the claim it was made on.
LEMMA CopyKeeps ==
    ASSUME CopyInv, Copy
    PROVE  CopyInv'
<1> USE DEF CopyInv, Copy
<1> DEFINE h == Head(work)
<1>1. h \in Topics
  BY DEF TypeOK
<1>2. copies' \in [Topics -> 0..3] /\ sent' \in [Topics -> 0..5]
  <2>1. copies' \in [Topics -> 0..3]
    BY <1>1 DEF TypeOK
  <2>2. sent[h] \in 0..5 /\ sent \in [Topics -> 0..5]
    BY <1>1 DEF TypeOK
  <2>3. sent' = [sent EXCEPT ![h] = IF copies[h] = 0 THEN 0 ELSE sent[h]]
    OBVIOUS
  <2>4. ASSUME NEW n \in 0..5
        PROVE  [sent EXCEPT ![h] = n] \in [Topics -> 0..5]
    BY <2>2
  <2>5. (IF copies[h] = 0 THEN 0 ELSE sent[h]) \in 0..5
    BY <2>2
  <2>6. sent' \in [Topics -> 0..5]
    BY <2>3, <2>4, <2>5
  <2> QED
    BY <2>1, <2>6
<1>3. TypeOK'
  BY <1>1, <1>2 DEF TypeOK
<1>4. ASSUME NEW u \in Topics \ {Status}
      PROVE  /\ copies'[u] <= 2
             /\ Claimed(u)' \/ RaiseDue(u)' => copies'[u] <= 1
             /\ Claimed(u)' /\ RaiseDue(u)' => copies'[u] = 0
  <2>1. RaiseDue(u)' = RaiseDue(u)
    BY DEF RaiseDue, NextPart
  <2>2. CASE u = h
    <3>1. Claimed(u) /\ ~Claimed(u)'
      BY <2>2 DEF Claimed
    <3>2. copies[u] \in 0..3 /\ copies[u] <= 1
      BY <3>1 DEF CopiesBounded, TypeOK
    <3>3. copies'[u] = copies[u] + 1
      BY <1>1, <2>2, <3>2 DEF TypeOK
    <3>4. RaiseDue(u) => copies[u] = 0
      BY <3>1 DEF CopiesBounded
    <3> QED
      BY <2>1, <3>1, <3>2, <3>3, <3>4
  <2>3. CASE u # h
    <3>1. copies'[u] = copies[u]
      BY <1>1, <2>3 DEF TypeOK
    <3>2. Claimed(u)' => Claimed(u)
      BY <2>3 DEF Claimed
    <3> QED
      BY <2>1, <3>1, <3>2 DEF CopiesBounded
  <2> QED
    BY <2>2, <2>3
<1> QED
  BY <1>3, <1>4 DEF CopiesBounded

\* publish() counts one publication of the running callback's topic.
LEMMA PublishFacts ==
    ASSUME TypeOK, Publish
    PROVE  /\ sent' \in [Topics -> 0..5]
           /\ \A t \in Topics : TopicsOf[running] # <<t>> => sent'[t] = sent[t]
           /\ \A t \in Topics : sent'[t] <= sent[t] + 1
BY DEF TypeOK, Publish

LEMMA PublishAtOnceKeeps ==
    ASSUME CopyInv, PublishAtOnce
    PROVE  CopyInv'
<1> USE DEF CopyInv, PublishAtOnce
<1>1. sent' \in [Topics -> 0..5]
  BY PublishFacts
<1>2. TypeOK'
  BY <1>1 DEF TypeOK
<1>3. CopiesBounded'
  BY BoundStays DEF Claimed, RaiseDue, NextPart
<1> QED
  BY <1>2, <1>3

\* Resetting bits takes claims away, its own topic's in particular.
LEMMA EraseKeeps ==
    ASSUME CopyInv, EraseNewcomeFlag
    PROVE  CopyInv'
<1> USE DEF CopyInv, EraseNewcomeFlag
<1>1. TypeOK'
  BY DEF TypeOK
<1>2. ASSUME NEW u \in Topics \ {Status}, Claimed(u)'
      PROVE  Claimed(u)
  BY <1>2 DEF Claimed, Kept
<1>3. CopiesBounded'
  BY <1>2, BoundStays DEF RaiseDue, NextPart
<1> QED
  BY <1>1, <1>3

LEMMA CallbackEndsKeeps ==
    ASSUME CopyInv, CallbackEnds
    PROVE  CopyInv'
<1> USE DEF CopyInv, CallbackEnds
<1>0. sent' \in [Topics -> 0..5]
  BY PublishFacts DEF TypeOK
<1>1. TypeOK'
  BY <1>0 DEF TypeOK
<1>2. CopiesBounded'
  BY BoundStays DEF Claimed, RaiseDue, NextPart
<1> QED
  BY <1>1, <1>2

\* CopyInv is inductive by itself.
LEMMA NextKeepsCopies ==
    ASSUME CopyInv, [Next]_vars
    PROVE  CopyInv'
<1>1. CASE Handler
  BY <1>1, PushKeeps, StoreKeeps, SetFlagKeeps DEF Handler
<1>2. CASE \E p \in Publishers : Subscription(p) \/ TimerFires(p)
  BY <1>2, SubscriptionKeeps, TimerFiresKeeps
<1>3. CASE Callback
  BY <1>3, CheckKeeps, CopyKeeps, PublishAtOnceKeeps, EraseKeeps, CallbackEndsKeeps DEF Callback
<1>4. CASE UNCHANGED vars
  <2>1. TypeOK'
    BY <1>4 DEF vars, CopyInv, TypeOK
  <2>2. CopiesBounded'
    BY <1>4, BoundStays DEF vars, Claimed, RaiseDue, NextPart
  <2> QED
    BY <2>1, <2>2 DEF CopyInv
<1> QED
  BY <1>1, <1>2, <1>3, <1>4 DEF Next

-----------------------------------------------------------------------------
(* Who takes what *)

\* A step that leaves the running callback alone leaves its topics alone.
LEMMA OwnerStays ==
    ASSUME TakenByOwner, UNCHANGED <<running, work, at, mark>>
    PROVE  TakenByOwner'
BY DEF TakenByOwner, OwnTopics

\* A timer that fires gives its callback the topics it looks for.
LEMMA TimerOwns ==
    ASSUME TypeOK, NEW p \in Publishers, TimerFires(p)
    PROVE  TakenByOwner'
<1> USE DEF TimerFires, TypeOK
<1>1. p \in Subscribable /\ p # NoPublisher
  BY NoPublisherAssumption
<1>2. TopicsOf[p] \in Seq(Topics)
  BY TopicsOfAssumption
<1>3. \A i \in DOMAIN work' : work'[i] \in OwnTopics'
  BY <1>1, <1>2 DEF OwnTopics
<1> QED
  BY <1>1, <1>3 DEF TakenByOwner

\* The rest of a callback's topics are topics of its own.
LEMMA RestOwned ==
    ASSUME TypeOK, TakenByOwner, work # <<>>, work' = Tail(work), UNCHANGED running
    PROVE  \A i \in DOMAIN work' : work'[i] \in OwnTopics'
<1>1. work \in Seq(Topics)
  BY DEF TypeOK
<1> SUFFICES ASSUME NEW i \in DOMAIN work'
             PROVE  work'[i] \in OwnTopics'
  OBVIOUS
<1>2. i + 1 \in DOMAIN work /\ work'[i] = work[i + 1]
  BY <1>1
<1> QED
  BY <1>2 DEF TakenByOwner, OwnTopics

LEMMA CallbackOwns ==
    ASSUME TypeOK, TakenByOwner, Callback
    PROVE  TakenByOwner'
<1> USE DEF TypeOK
<1>1. CASE Check
  <2>1. CASE UNCHANGED work
    BY <1>1, <2>1 DEF Check, TakenByOwner, OwnTopics
  <2>2. CASE work' = Tail(work) /\ UNCHANGED at
    BY <1>1, <2>2, RestOwned DEF Check, TakenByOwner, OwnTopics
  <2> QED
    BY <1>1, <2>1, <2>2 DEF Check
<1>2. CASE Copy
  <2>1. Head(work) = work[1] /\ 1 \in DOMAIN work
    BY <1>2 DEF Copy
  <2> QED
    BY <1>2, <2>1 DEF Copy, TakenByOwner, OwnTopics
<1>3. CASE PublishAtOnce
  BY <1>3 DEF PublishAtOnce, TakenByOwner, OwnTopics
<1>4. CASE EraseNewcomeFlag
  BY <1>4, RestOwned DEF EraseNewcomeFlag, TakenByOwner, OwnTopics
<1>5. CASE CallbackEnds
  BY <1>5 DEF CallbackEnds, TakenByOwner, OwnTopics
<1> QED
  BY <1>1, <1>2, <1>3, <1>4, <1>5 DEF Callback

-----------------------------------------------------------------------------
(* What goes out *)

\* A publisher of topic t alone has copied it only while its callback runs.
LEMMA MarkedRuns ==
    ASSUME TypeOK, TakenByOwner, NEW p \in Publishers, NEW t \in Topics, TopicsOf[p] = <<t>>,
           t \in mark
    PROVE  running = p
<1>1. PICK i \in DOMAIN TopicsOf[running] : running \in Publishers /\ TopicsOf[running][i] = t
  BY DEF TakenByOwner, OwnTopics, TypeOK
<1>2. 1 \in DOMAIN TopicsOf[p] /\ TopicsOf[p][1] = t
  OBVIOUS
<1> QED
  BY <1>1, <1>2, TopicsOfAssumption

\* The same of the topic a callback is at.
LEMMA AtRuns ==
    ASSUME TypeOK, TakenByOwner, NEW p \in Publishers, NEW t \in Topics, TopicsOf[p] = <<t>>,
           work # <<>>, Head(work) = t
    PROVE  running = p
<1>1. 1 \in DOMAIN work /\ work[1] = t
  BY DEF TypeOK
<1>2. PICK i \in DOMAIN TopicsOf[running] : running \in Publishers /\ TopicsOf[running][i] = t
  BY <1>1 DEF TakenByOwner, OwnTopics, TypeOK
<1>3. 1 \in DOMAIN TopicsOf[p] /\ TopicsOf[p][1] = t
  OBVIOUS
<1> QED
  BY <1>2, <1>3, TopicsOfAssumption

\* What SentForCopies says of one publisher and its topic.
SentFor(p, t) ==
    /\ running = p =>
           work = <<>> \/ (work = <<t>> /\ (at \in {"check", "copy"} => mark = {}))
    /\ sent[t] + ToSend(t) <= 2 * PerCallback(p)
    /\ copies[t] = 1 => sent[t] + ToSend(t) <= PerCallback(p)

\* Steps that neither copy nor publish; storing a sample forgets its copies.
LEMMA SentStays ==
    ASSUME NEW p \in Publishers, NEW t \in Topics, SentFor(p, t), UNCHANGED <<running, work, at, mark, sent>>,
           copies'[t] = copies[t] \/ copies'[t] = 0
    PROVE  SentFor(p, t)'
BY DEF SentFor, ToSend, PerCallback

\* A callback begins, looks at its topic, or resets the bit.
LEMMA SentTurns ==
    ASSUME TypeOK, TakenByOwner, NEW p \in Publishers, NEW t \in Topics, TopicsOf[p] = <<t>>,
           SentFor(p, t), Check \/ EraseNewcomeFlag \/ \E q \in Publishers : TimerFires(q)
    PROVE  SentFor(p, t)'
<1>1. sent' = sent /\ copies' = copies
  BY DEF Check, EraseNewcomeFlag, TimerFires
<1>2. CASE Check
  <2>1. CASE UNCHANGED work
    BY <1>1, <1>2, <2>1 DEF Check, SentFor, ToSend, PerCallback
  <2>2. CASE work' = Tail(work) /\ UNCHANGED at
    <3>1. work = <<t>> => work' = <<>>
      BY <2>2
    <3> QED
      BY <1>1, <1>2, <2>2, <3>1 DEF Check, SentFor, ToSend, PerCallback
  <2> QED
    BY <1>2, <2>1, <2>2 DEF Check
<1>3. CASE EraseNewcomeFlag
  <2>1. work = <<t>> => work' = <<>>
    BY <1>3 DEF EraseNewcomeFlag
  <2>2. at = "erase" /\ at' = "check" /\ work # <<>> /\ UNCHANGED <<running, mark>>
    BY <1>3 DEF EraseNewcomeFlag, TypeOK
  <2> QED
    BY <1>1, <2>1, <2>2 DEF SentFor, ToSend, PerCallback
<1>4. CASE \E q \in Publishers : TimerFires(q)
  <2>1. PICK q \in Publishers : running = NoPublisher /\ running' = q /\ work' = TopicsOf[q] /\ at' = "check" /\ mark' = {}
    BY <1>4 DEF TimerFires
  <2>2. t \notin mark
    BY <2>1, MarkedRuns, NoPublisherAssumption
  <2> QED
    BY <1>1, <2>1, <2>2 DEF SentFor, ToSend, PerCallback
<1> QED
  BY <1>2, <1>3, <1>4

\* A copy pays for the publications of its callback: it is the first of the sample in
\* the message, or the second.
LEMMA SentCopied ==
    ASSUME TypeOK, CopiesBounded, TakenByOwner, Copy,
           NEW p \in Publishers, NEW t \in Topics \ {Status}, TopicsOf[p] = <<t>>, SentFor(p, t)
    PROVE  SentFor(p, t)'
<1> USE DEF Copy
<1>1. work # <<>> /\ Head(work) \in Topics
  BY DEF TypeOK
<1>2. CASE Head(work) = t
  <2>1. running = p /\ work = <<t>> /\ mark = {}
    BY <1>1, <1>2, AtRuns DEF SentFor
  <2>2. copies[t] \in 0..3 /\ copies[t] <= 1 /\ copies'[t] = copies[t] + 1
    BY <1>2 DEF CopiesBounded, Claimed, TypeOK
  <2>3. sent[t] \in 0..5 /\ sent'[t] = IF copies[t] = 0 THEN 0 ELSE sent[t]
    BY <1>2 DEF TypeOK
  <2>4. ToSend(t) = 0 /\ ToSend(t)' = PerCallback(p) /\ PerCallback(p) \in {1, 2}
    BY <1>2, <2>1 DEF ToSend, PerCallback
  <2>5. copies[t] = 1 => sent[t] <= PerCallback(p)
    BY <2>3, <2>4 DEF SentFor
  <2>6. /\ sent'[t] + ToSend(t)' <= 2 * PerCallback(p)
        /\ copies'[t] = 1 => sent'[t] + ToSend(t)' <= PerCallback(p)
    BY <2>2, <2>3, <2>4, <2>5
  <2> QED
    BY <2>1, <2>6 DEF SentFor, PerCallback
<1>3. CASE Head(work) # t
  <2>1. running # p
    BY <1>1, <1>3 DEF SentFor
  <2>2. t \notin mark /\ t \notin mark'
    BY <1>3, <2>1, MarkedRuns
  <2>3. sent'[t] = sent[t] /\ copies'[t] = copies[t]
    BY <1>1, <1>3 DEF TypeOK
  <2> QED
    BY <2>1, <2>2, <2>3 DEF SentFor, ToSend, PerCallback
<1> QED
  BY <1>2, <1>3

\* A publication is one of those that the callback had still to make.
LEMMA SentPublished ==
    ASSUME TypeOK, TakenByOwner, PublishAtOnce \/ CallbackEnds,
           NEW p \in Publishers, NEW t \in Topics, TopicsOf[p] = <<t>>, SentFor(p, t)
    PROVE  SentFor(p, t)'
<1>1. sent[t] \in Nat /\ PerCallback(p) \in {1, 2} /\ PerCallback(p)' = PerCallback(p) /\ copies' = copies
  BY DEF TypeOK, PerCallback, PublishAtOnce, CallbackEnds
<1>2. CASE PublishAtOnce
  <2>1. at = "publish" /\ at' = "erase" /\ Head(work) \in mark /\ work # <<>> /\ UNCHANGED <<running, work, mark>>
    BY <1>2 DEF PublishAtOnce, TakenByOwner, TypeOK
  <2>2. CASE running = p
    <3>1. t \in mark
      BY <2>1, <2>2 DEF SentFor
    <3>2. ToSend(t) = 2 /\ ToSend(t)' = 1
      BY <2>1, <3>1 DEF ToSend
    <3>3. sent'[t] \in Nat /\ sent'[t] <= sent[t] + 1
      BY <1>2, PublishFacts DEF PublishAtOnce
    <3> QED
      BY <1>1, <2>1, <3>2, <3>3 DEF SentFor
  <2>3. CASE running # p
    <3>1. t \notin mark
      BY <2>3, MarkedRuns
    <3>2. TopicsOf[running] # <<t>>
      <4>1. running \in Publishers
        BY <2>1 DEF TypeOK
      <4>2. 1 \in DOMAIN TopicsOf[p] /\ TopicsOf[p][1] = t
        OBVIOUS
      <4> QED
        BY <2>3, <4>1, <4>2, TopicsOfAssumption
    <3>3. sent'[t] = sent[t]
      BY <1>2, <3>2, PublishFacts DEF PublishAtOnce
    <3> QED
      BY <1>1, <2>1, <2>3, <3>1, <3>3 DEF SentFor, ToSend
  <2> QED
    BY <2>2, <2>3
<1>3. CASE CallbackEnds
  <2>1. work = <<>> /\ at = "check" /\ running \in Publishers /\ mark' = {} /\ running' = NoPublisher
    BY <1>3 DEF CallbackEnds, TypeOK
  <2>2. ToSend(t)' = 0 /\ (t \in mark => ToSend(t) = 1) /\ (t \notin mark => ToSend(t) = 0)
    BY <2>1 DEF ToSend
  <2>3. p # NoPublisher
    BY NoPublisherAssumption
  <2>4. CASE t \in mark
    <3>1. sent'[t] \in Nat /\ sent'[t] <= sent[t] + 1
      BY <1>3, <2>4, PublishFacts DEF CallbackEnds
    <3> QED
      BY <1>1, <2>1, <2>2, <2>3, <2>4, <3>1 DEF SentFor
  <2>5. CASE t \notin mark
    <3>1. sent'[t] = sent[t]
      <4>1. CASE mark = {}
        BY <1>3, <4>1 DEF CallbackEnds
      <4>2. CASE mark # {}
        <5>1. PICK u \in Topics : u \in mark /\ u # t
          BY <2>5, <4>2 DEF TypeOK
        <5>2. TopicsOf[running] # <<t>>
          BY <5>1 DEF TakenByOwner, OwnTopics
        <5> QED
          BY <1>3, <4>2, <5>2, PublishFacts DEF CallbackEnds
      <4> QED
        BY <4>1, <4>2
    <3> QED
      BY <1>1, <2>1, <2>2, <2>3, <2>5, <3>1 DEF SentFor
  <2> QED
    BY <2>4, <2>5
<1> QED
  BY <1>2, <1>3

LEMMA NextKeepsSent ==
    ASSUME IInv, [Next]_vars
    PROVE  SentForCopies'
<1> USE DEF IInv
<1> SUFFICES ASSUME NEW p \in Publishers, NEW t \in Topics \ {Status}, TopicsOf[p] = <<t>>
             PROVE  SentFor(p, t)'
  BY DEF SentForCopies, SentFor
<1>1. SentFor(p, t)
  BY DEF SentForCopies, SentFor
<1>2. CASE Handler
  <2>1. UNCHANGED <<running, work, at, mark, sent>>
    BY <1>2 DEF Handler, Push, Store, SetNewcomeFlag
  <2>2. copies'[t] = copies[t] \/ copies'[t] = 0
    BY <1>2 DEF Handler, Push, Store, SetNewcomeFlag, TypeOK
  <2> QED
    BY <1>1, <2>1, <2>2, SentStays
<1>3. CASE \E q \in Publishers : Subscription(q)
  <2>1. UNCHANGED <<running, work, at, mark, sent, copies>>
    BY <1>3 DEF Subscription
  <2> QED
    BY <1>1, <2>1, SentStays
<1>4. CASE Check \/ EraseNewcomeFlag \/ \E q \in Publishers : TimerFires(q)
  BY <1>1, <1>4, SentTurns
<1>5. CASE Copy
  BY <1>1, <1>5, SentCopied
<1>6. CASE PublishAtOnce \/ CallbackEnds
  BY <1>1, <1>6, SentPublished
<1>7. CASE UNCHANGED vars
  BY <1>1, <1>7, SentStays DEF vars
<1> QED
  BY <1>2, <1>3, <1>4, <1>5, <1>6, <1>7 DEF Next, Callback

\* IInv is an inductive invariant of the handler and the publishers.
THEOREM FlagsInvariant == Spec => []IInv
<1>1. Init => IInv
  <2>1. Init => TakenByOwner
    BY DEF Init, TakenByOwner
  <2>2. Init => SentForCopies
    <3> SUFFICES ASSUME Init, NEW p \in Publishers, NEW t \in Topics \ {Status}, TopicsOf[p] = <<t>>
                 PROVE  SentFor(p, t)
      BY DEF SentForCopies, SentFor
    <3>1. sent[t] = 0 /\ ToSend(t) = 0 /\ work = <<>> /\ PerCallback(p) \in {1, 2}
      BY DEF Init, ToSend, PerCallback
    <3> QED
      BY <3>1 DEF SentFor
  <2> QED
    BY <2>1, <2>2, InitCopyInv DEF IInv, CopyInv
<1>2. IInv /\ [Next]_vars => IInv'
  <2> SUFFICES ASSUME IInv, [Next]_vars
               PROVE  IInv'
    OBVIOUS
  <2>1. TypeOK' /\ CopiesBounded'
    BY NextKeepsCopies DEF IInv, CopyInv
  <2>2. TakenByOwner'
    <3>1. CASE Handler
      BY <3>1, OwnerStays DEF Handler, Push, Store, SetNewcomeFlag, IInv
    <3>2. CASE \E p \in Publishers : Subscription(p) \/ TimerFires(p)
      BY <3>2, OwnerStays, TimerOwns DEF Subscription, IInv
    <3>3. CASE Callback
      BY <3>3, CallbackOwns DEF IInv
    <3>4. CASE UNCHANGED vars
      BY <3>4, OwnerStays DEF vars, IInv
    <3> QED
      BY <3>1, <3>2, <3>3, <3>4 DEF Next
  <2> QED
    BY <2>1, <2>2, NextKeepsSent DEF IInv
<1> QED
  BY <1>1, <1>2, PTL DEF Spec

\* The variables keep their types; in particular a publisher that copies or erases
\* has a topic at hand.
THEOREM FlagsTypeCorrect == Spec => []TypeOK
BY FlagsInvariant, PTL DEF IInv

\* A sample of a topic that has a publisher of its own, unless it is the status, goes
\* out in at most two callbacks, also when the status publisher erases bits of others.
THEOREM FlagsSentBounded == Spec => []SentBounded
<1>1. IInv => SentBounded
  <2> SUFFICES ASSUME IInv, NEW p \in Publishers, NEW t \in Topics \ {Status}, TopicsOf[p] = <<t>>
               PROVE  sent[t] <= 2 * PerCallback(p)
    BY DEF SentBounded
  <2>1. sent[t] + ToSend(t) <= 2 * PerCallback(p)
    BY DEF IInv, SentForCopies
  <2>2. sent[t] \in Nat /\ ToSend(t) \in Nat /\ PerCallback(p) \in Nat
    BY DEF IInv, TypeOK, ToSend, PerCallback
  <2> QED
    BY <2>1, <2>2
<1> QED
  BY <1>1, FlagsInvariant, PTL

-----------------------------------------------------------------------------
(* Bits go down for a reason *)

\* A publisher whose topics do not include the status.
WithoutStatus(p) == \A i \in DOMAIN TopicsOf[p] : TopicsOf[p][i] # Status

\* Only a publisher lowers bits, after its copy: that of the topic it has copied, or
\* those of others when it has copied the status.
LEMMA LoweredByPublisher ==
    ASSUME IInv, [Next]_vars, NEW t \in newcome \ newcome'
    PROVE  at = "erase" /\ Head(work) \in mark /\ (t = Head(work) \/ Head(work) = Status)
<1>1. CASE EraseNewcomeFlag
  <2>1. at = "erase" /\ Head(work) \in mark
    BY <1>1 DEF EraseNewcomeFlag, IInv, TakenByOwner
  <2>2. t \in Topics /\ t \notin Kept(Head(work))
    BY <1>1 DEF EraseNewcomeFlag, IInv, TypeOK
  <2>3. t = Head(work) \/ Head(work) = Status
    BY <2>2 DEF Kept
  <2> QED
    BY <2>1, <2>3
<1>2. CASE ~EraseNewcomeFlag
  <2>1. newcome \subseteq newcome'
    BY <1>2 DEF Next, Handler, Push, Store, SetNewcomeFlag, Subscription, TimerFires, Callback,
                Check, Copy, PublishAtOnce, CallbackEnds, vars
  <2> QED
    BY <2>1
<1> QED
  BY <1>1, <1>2

\* A sample is lost, its bit reset before anybody has taken it, for two reasons only: it
\* overtook its own publisher between the copy of the sample before it and the reset,
\* or the status publisher resets the bits of others (diablo_body_state.cpp 28).
THEOREM FlagsLostForCause ==
    Spec => [][\A t \in newcome \ newcome' :
                   Untaken(t) => Overtaken(t) \/ (at = "erase" /\ Head(work) = Status)]_vars
<1>1. IInv /\ [Next]_vars =>
          [\A t \in newcome \ newcome' :
               Untaken(t) => Overtaken(t) \/ (at = "erase" /\ Head(work) = Status)]_vars
  BY LoweredByPublisher DEF Overtaken
<1> QED
  BY <1>1, FlagsInvariant, PTL DEF Spec

\* As long as nobody can subscribe to the status, the first reason is the only one.
THEOREM FlagsLostOnlyIfOvertaken ==
    (\A p \in Subscribable : WithoutStatus(p)) => (Spec => LostOnlyIfOvertaken)
<1> SUFFICES ASSUME \A p \in Subscribable : WithoutStatus(p)
             PROVE  Spec => LostOnlyIfOvertaken
  OBVIOUS
<1>1. IInv => Status \notin mark
  BY DEF IInv, TakenByOwner, OwnTopics, WithoutStatus
<1>2. IInv /\ [Next]_vars => [\A t \in newcome \ newcome' : Untaken(t) => Overtaken(t)]_vars
  BY <1>1, LoweredByPublisher DEF Overtaken
<1> QED
  BY <1>2, FlagsInvariant, PTL DEF Spec, LostOnlyIfOvertaken
=============================================================================
