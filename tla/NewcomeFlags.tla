---------------------------- MODULE NewcomeFlags ----------------------------
(***************************************************************************)
(* How a sample gets from a push of the board to a ROS topic: SerialHandle *)
(* (osdk_telemetry.cpp) stores it and raises its bit in `newcome'; the     *)
(* timers of the publishers (diablo_body), all in the executor's thread,   *)
(* look for their bits, copy the samples into their messages, reset the    *)
(* bits and publish.  Only single accesses to `newcome' are under a lock.  *)
(*                                                                         *)
(* A sample is modelled by how often it has been copied, and one that is   *)
(* in a message by how often it has been published.  That a copy may mix   *)
(* two samples, one being stored as the other is read, is left out.        *)
(***************************************************************************)
EXTENDS Integers, Sequences

CONSTANTS
    Topics,         \* the parts of a push that publishers wait for
    Rank,           \* their order in a push
    Publishers,     \* the timers of diablo_body
    TopicsOf,       \* the topics a publisher looks for, in its order
    Eager,          \* the publishers that also publish before they reset the bit
    Status,         \* the topic of diablo_body_state_publisher
    Subscribable,   \* the publishers that subscribers come and go of
    NoPublisher     \* "none", as a value of `running'

ASSUME RankAssumption ==
    /\ Rank \in [Topics -> Nat]
    /\ \A t, u \in Topics : Rank[t] = Rank[u] => t = u
ASSUME TopicsOfAssumption ==
    /\ TopicsOf \in [Publishers -> Seq(Topics)]
    /\ \A p, q \in Publishers : \A i \in DOMAIN TopicsOf[p], j \in DOMAIN TopicsOf[q] :
           TopicsOf[p][i] = TopicsOf[q][j] => p = q
ASSUME EagerAssumption == Eager \subseteq Publishers
ASSUME SubscribableAssumption == Subscribable \subseteq Publishers
ASSUME NoPublisherAssumption == NoPublisher \notin Publishers

VARIABLES
    newcome,     \* the bits that are up
    push,        \* the parts of the current push that are still to be processed
    stored,      \* the next of them is in its variable, its bit is not up yet
    subscribed,  \* the publishers whose subscription count is not zero
    running,     \* the publisher whose timer callback runs
    work,        \* the topics it has still to look at
    at,          \* what it is about to do with the first of them
    mark,        \* the topics it has copied into its message (..._Pub_mark)
    copies,      \* history: how often the stored sample has been copied, up to 3
    sent         \* history: how often the sample in the message has been published,
                 \* up to 5, for topics whose publisher looks for no other

vars == <<newcome, push, stored, subscribed, running, work, at, mark, copies, sent>>

Init ==
    /\ newcome = {}
    /\ push = {}
    /\ stored = FALSE
    /\ subscribed \in SUBSET Subscribable
    /\ running = NoPublisher
    /\ work = <<>>
    /\ at = "check"
    /\ mark = {}
    /\ copies = [t \in Topics |-> 0]
    /\ sent = [t \in Topics |-> 0]

-----------------------------------------------------------------------------
(* SerialHandle *)

\* serialWaitRXDataS returns a push; it carries some of the topics.
Push ==
    /\ push = {}
    /\ push' \in SUBSET Topics \ {{}}
    /\ UNCHANGED <<newcome, stored, subscribed, running, work, at, mark, copies, sent>>

NextPart(t) == t \in push /\ \A u \in push : Rank[t] <= Rank[u]

\* memcpy of the next part.
Store(t) ==
    /\ NextPart(t)
    /\ ~stored
    /\ stored' = TRUE
    /\ copies' = [copies EXCEPT ![t] = 0]
    /\ UNCHANGED <<newcome, push, subscribed, running, work, at, mark, sent>>

\* Mutant of SetNewcomeFlag: the part is not ticked off and raises its bit again.
SetNewcomeFlagAgain(t) ==
    /\ NextPart(t)
    /\ stored
    /\ newcome' = newcome \cup {t}
    /\ \/ push' = push \ {t} /\ stored' = FALSE
       \/ UNCHANGED <<push, stored>>
    /\ UNCHANGED <<subscribed, running, work, at, mark, copies, sent>>

\* setNewcomeFlag
SetNewcomeFlag(t) ==
    /\ NextPart(t)
    /\ stored
    /\ newcome' = newcome \cup {t}
    /\ push' = push \ {t}
    /\ stored' = FALSE
    /\ UNCHANGED <<subscribed, running, work, at, mark, copies, sent>>

-----------------------------------------------------------------------------
(* The publishers *)

\* Subscribers appear and disappear.
Subscription(p) ==
    /\ p \in Subscribable
    /\ \/ subscribed' = subscribed \cup {p}
       \/ subscribed' = subscribed \ {p}
    /\ UNCHANGED <<newcome, push, stored, running, work, at, mark, copies, sent>>

\* A timer is due, the executor is free and the publisher has subscribers.
TimerFires(p) ==
    /\ running = NoPublisher
    /\ p \in subscribed
    /\ running' = p
    /\ work' = TopicsOf[p]
    /\ at' = "check"
    /\ mark' = {}
    /\ UNCHANGED <<newcome, push, stored, subscribed, copies, sent>>

\* if (newcome & bit)
Check ==
    /\ work # <<>>
    /\ at = "check"
    /\ \/ Head(work) \in newcome /\ at' = "copy" /\ UNCHANGED work
       \/ Head(work) \notin newcome /\ work' = Tail(work) /\ UNCHANGED at
    /\ UNCHANGED <<newcome, push, stored, subscribed, running, mark, copies, sent>>

\* The sample is copied into the message, in which it may be already.
Copy ==
    /\ at = "copy"
    /\ mark' = mark \cup {Head(work)}
    /\ copies' = [copies EXCEPT ![Head(work)] = IF @ < 3 THEN @ + 1 ELSE 3]
    /\ sent' = [sent EXCEPT ![Head(work)] = IF copies[Head(work)] = 0 THEN 0 ELSE @]
    /\ at' = IF running \in Eager THEN "publish" ELSE "erase"
    /\ UNCHANGED <<newcome, push, stored, subscribed, running, work>>

\* publish(): the message goes out with all that is in it.  A member of a message with
\* several topics goes out again whenever another one has come; that is not counted.
Publish ==
    sent' = [t \in Topics |->
                 IF TopicsOf[running] = <<t>> /\ sent[t] < 5 THEN sent[t] + 1 ELSE sent[t]]

\* The battery's publisher publishes inside the branch.
PublishAtOnce ==
    /\ at = "publish"
    /\ Publish
    /\ at' = "erase"
    /\ UNCHANGED <<newcome, push, stored, subscribed, running, work, mark, copies>>

\* Mutant of Kept: the IMU's publisher, too, passes its bit and not the complement.
KeptOwn(t) == {t}

\* The bits a publisher's argument of eraseNewcomeFlag has set: all but the topic's
\* own; the status publisher passes its own bit.
Kept(t) == IF t = Status THEN {t} ELSE Topics \ {t}

\* Mutant of EraseNewcomeFlag: no bit is reset.
EraseNewcomeFlagNot ==
    /\ at = "erase"
    /\ at' = "check"
    /\ work' = Tail(work)
    /\ UNCHANGED <<newcome, push, stored, subscribed, running, mark, copies, sent>>

\* eraseNewcomeFlag
EraseNewcomeFlag ==
    /\ at = "erase"
    /\ newcome' = newcome \cap Kept(Head(work))
    /\ at' = "check"
    /\ work' = Tail(work)
    /\ UNCHANGED <<push, stored, subscribed, running, mark, copies, sent>>

\* The callback ends; it publishes if it has copied anything.
CallbackEnds ==
    /\ running # NoPublisher
    /\ work = <<>>
    /\ \/ mark = {} /\ UNCHANGED sent
       \/ mark # {} /\ Publish
    /\ running' = NoPublisher
    /\ mark' = {}
    /\ UNCHANGED <<newcome, push, stored, subscribed, work, at, copies>>

-----------------------------------------------------------------------------
Handler == Push \/ \E t \in Topics : Store(t) \/ SetNewcomeFlag(t)

Callback == Check \/ Copy \/ PublishAtOnce \/ EraseNewcomeFlag \/ CallbackEnds

Next ==
    \/ Handler
    \/ \E p \in Publishers : Subscription(p) \/ TimerFires(p)
    \/ Callback

Spec == Init /\ [][Next]_vars

\* The executor runs its callbacks to their end and starves no timer.
Fairness ==
    /\ WF_vars(Callback)
    /\ \A p \in Publishers : SF_vars(TimerFires(p))

FairSpec == Spec /\ Fairness

-----------------------------------------------------------------------------
(* Properties *)

TypeOK ==
    /\ newcome \subseteq Topics
    /\ push \subseteq Topics
    /\ stored \in BOOLEAN
    /\ stored => push # {}
    /\ subscribed \subseteq Subscribable
    /\ running \in Publishers \cup {NoPublisher}
    /\ work \in Seq(Topics)
    /\ running = NoPublisher => work = <<>>
    /\ at \in {"check", "copy", "publish", "erase"}
    /\ at # "check" => work # <<>>
    /\ mark \subseteq Topics
    /\ copies \in [Topics -> 0..3]
    /\ sent \in [Topics -> 0..5]

\* A publisher will copy topic t once more without a further raise of its bit.
Claimed(t) ==
    \/ at = "copy" /\ Head(work) = t
    \/ t \in newcome /\ ~(at \in {"publish", "erase"} /\ Head(work) = t)

\* The bit of topic t is about to be raised for the stored sample.
RaiseDue(t) == stored /\ NextPart(t)

\* The copies of a sample still to come and those made: a raise and a claim are
\* good for one each.
CopiesBounded ==
    \A t \in Topics \ {Status} :
        /\ copies[t] <= 2
        /\ Claimed(t) \/ RaiseDue(t) => copies[t] <= 1
        /\ Claimed(t) /\ RaiseDue(t) => copies[t] = 0

\* The topics of the publisher that runs.
OwnTopics ==
    {t \in Topics : running # NoPublisher /\ \E i \in DOMAIN TopicsOf[running] :
                        t = TopicsOf[running][i]}

\* A publisher works on topics of its own and erases after it has copied.
TakenByOwner ==
    /\ running \in Subscribable \cup {NoPublisher}
    /\ \A i \in DOMAIN work : work[i] \in OwnTopics
    /\ mark \subseteq OwnTopics
    /\ at \in {"publish", "erase"} => Head(work) \in mark
    /\ at = "publish" => running \in Eager

\* How often a callback publishes, and how often the one that runs has still to.
PerCallback(p) == IF p \in Eager THEN 2 ELSE 1
ToSend(t) == IF t \notin mark THEN 0 ELSE IF at = "publish" THEN 2 ELSE 1

\* A publisher of one topic copies it once in a callback, and each copy pays for one
\* callback's publications.
SentForCopies ==
    \A p \in Publishers, t \in Topics \ {Status} :
        TopicsOf[p] = <<t>> =>
            /\ running = p =>
                   work = <<>> \/ (work = <<t>> /\ (at \in {"check", "copy"} => mark = {}))
            /\ sent[t] + ToSend(t) <= 2 * PerCallback(p)
            /\ copies[t] = 1 => sent[t] + ToSend(t) <= PerCallback(p)

IInv == TypeOK /\ CopiesBounded /\ TakenByOwner /\ SentForCopies

\* A sample of a topic that has a publisher of its own goes out in at most two
\* callbacks: in a second one only if its bit was raised after it had already been
\* copied on account of the sample before it.  So the motors are published at most
\* twice and the battery, whose callback publishes twice, at most four times.  The
\* status, whose publisher keeps its own bit up, is the exception.
SentBounded ==
    \A p \in Publishers, t \in Topics \ {Status} :
        TopicsOf[p] = <<t>> => sent[t] <= 2 * PerCallback(p)

\* The stored sample has its bit up on its own account and nobody has taken it.
Untaken(t) == copies[t] = 0 /\ ~RaiseDue(t)

\* The publisher of topic t has copied a sample and is about to reset the bit; if the
\* stored sample is untaken then, it is newer than that copy.
Overtaken(t) == at = "erase" /\ Head(work) = t /\ t \in mark

\* A sample is lost, its bit reset before anybody has taken it, only if it overtook its
\* own publisher between the copy and the reset: no other reset loses one.
LostOnlyIfOvertaken == [][\A t \in newcome \ newcome' : Untaken(t) => Overtaken(t)]_vars

\* "Reset the flag after bridge sends the received data" (osdk_telemetry.hpp 120): whoever
\* resets a topic's bit has taken a sample of that topic in the same callback (that it
\* was the stored one is not asked here; see LostOnlyIfOvertaken).
ResetBySender == [][\A t \in newcome \ newcome' : t \in mark]_vars

\* A topic whose bit is up is taken by its publisher while that has subscribers.
FlaggedIsTaken ==
    \A p \in Publishers : \A i \in DOMAIN TopicsOf[p] :
        TopicsOf[p][i] \in newcome /\ p \in subscribed
            ~> TopicsOf[p][i] \in mark \/ p \notin subscribed
=============================================================================
