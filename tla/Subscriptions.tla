----------------------------- MODULE Subscriptions -----------------------------
(***************************************************************************)
(* Subscribers and the notifications they are sent.  Two processes share   *)
(* the subscriber tables: the API, which handles the requests to subscribe,*)
(* confirm, unmute and unsubscribe, and the backend, which after each      *)
(* network update notifies the subscribers of its events.                  *)
(*                                                                         *)
(* Every one of them loads a whole subscriber, changes the loaded object   *)
(* and saves it whole, with its subscriptions and their states, a number   *)
(* of awaits later; nothing locks the rows meanwhile.                      *)
(***************************************************************************)
EXTENDS Integers, FiniteSets

CONSTANTS
  User,         \* ids of the user service, which never gives one out again
  Source,       \* nodes, organizations and the network, as named in requests
  EventType,
  Slot,         \* room for API requests in progress together
  CoolOff,      \* Subscription.CoolOffPeriod
  MaxTime,      \* bound: the time of the last network update
  MaxPending    \* bound: the number of subscribe requests

ASSUME SubscriptionsAssumption == CoolOff \in Nat /\ MaxTime \in Nat /\ MaxPending \in Nat

Time == 0..MaxTime
PendingId == 1..MaxPending
NoPending == 0
Event == [source : Source, type : EventType]
\* EventNotificationState, with the source of its subscription.
State == [source : Source, type : EventType, time : Time, ignoreCoolOff : BOOLEAN]
Subscriber == [user : User, sources : SUBSET Source, states : SUBSET State,
               pending : PendingId \cup {NoPending}]
Request == [slot : Slot, op : {"subscribe", "confirm", "unmute", "deleteUser", "remove"},
            subscriber : Subscriber, id : PendingId \cup {NoPending}, isNew : BOOLEAN]

VARIABLES
  subscribers,  \* the subscriber tables
  asked,        \* what each pending subscription id was made for
  deleted,      \* users deleted in the user service
  requests,     \* API requests that have loaded a subscriber and not finished
  now,          \* time of the latest network update
  sending,      \* the backend is sending the notifications of that update
  batch,        \* notifications not sent yet, with the subscribers they have changed
  succeeded,    \* the changed subscribers whose notification was sent
  delivered,    \* history: the events each user was told of
  released,     \* history: events unmuted, or subscribed to anew, since last delivered
  confirmed,    \* history: the pending subscriptions whose confirmation was saved
  apart,        \* history: requests and notifications were never in progress together
  recorded      \* history: every message that was delivered was recorded as sent

rows == <<subscribers, asked, deleted>>
notifier == <<now, sending, batch, succeeded, delivered>>
history == <<released, confirmed>>
course == <<apart, recorded>>
vars == <<rows, requests, notifier, history, course>>

TypeOK ==
  /\ subscribers \subseteq Subscriber
  /\ asked \subseteq [id : PendingId, user : User, sources : SUBSET Source]
  /\ deleted \subseteq User
  /\ requests \subseteq Request
  /\ now \in Time /\ sending \in BOOLEAN
  /\ batch \subseteq [subscriber : Subscriber, events : SUBSET Event]
  /\ succeeded \subseteq Subscriber
  /\ delivered \subseteq [user : User, source : Source, type : EventType, time : Time]
  /\ released \subseteq [user : User, source : Source, type : EventType]
  /\ confirmed \subseteq PendingId
  /\ apart \in BOOLEAN /\ recorded \in BOOLEAN
  \* the constraint on userId, and one request in a slot
  /\ \A s, t \in subscribers : s.user = t.user => s = t
  /\ \A q, p \in requests : q.slot = p.slot => q = p

Init ==
  /\ subscribers = {} /\ asked = {} /\ deleted = {} /\ requests = {}
  /\ now = 0 /\ sending = FALSE /\ batch = {} /\ succeeded = {}
  /\ delivered = {} /\ released = {} /\ confirmed = {}
  /\ apart = TRUE /\ recorded = TRUE
-----------------------------------------------------------------------------
(* The repository. *)

\* Mutant: what is saved is inserted.
Inserted(S) == subscribers \cup S
Saved(S) == {s \in subscribers : \A t \in S : t.user # s.user} \cup S

\* A request or the notifications of an update begin.
Starts == apart' = (apart /\ requests = {} /\ ~sending) /\ UNCHANGED recorded

\* A request that has loaded a subscriber and changed it.
Begin(a, op, subscriber, id, isNew) ==
  /\ Starts /\ \A q \in requests : q.slot # a
  /\ requests' = requests \cup
       {[slot |-> a, op |-> op, subscriber |-> subscriber, id |-> id, isNew |-> isNew]}
-----------------------------------------------------------------------------
(* API requests. *)

\* EventSourceIdFactory.create tests a Result, not the boolean in it.
IsKnown(source) == TRUE
NextPendingId == Cardinality(asked) + 1

\* findOrCreateUser, and the pending subscription that replaces an older one.
Subscribe(a, u, S) ==
  LET known == {s \in S : IsKnown(s)} IN
  /\ u \notin deleted /\ known # {} /\ NextPendingId \in PendingId
  /\ asked' = asked \cup {[id |-> NextPendingId, user |-> u, sources |-> known]}
  /\ \/ \E s \in subscribers :
          s.user = u /\ Begin(a, "subscribe", [s EXCEPT !.pending = NextPendingId],
                              NextPendingId, FALSE)
     \/ /\ \A s \in subscribers : s.user # u
        /\ Begin(a, "subscribe",
                 [user |-> u, sources |-> {}, states |-> {}, pending |-> NextPendingId],
                 NextPendingId, TRUE)
  /\ UNCHANGED <<subscribers, deleted, notifier, history>>

\* Mutants: the older subscriptions are kept, with the new ones or instead of them.
ConfirmedAlongside(s, p) == s.sources \cup p.sources
ConfirmedOnce(s, p) == IF s.sources = {} THEN p.sources ELSE s.sources
ConfirmedSources(s, p) == p.sources

\* confirmPendingSubscription makes new subscriptions, without states.
Confirm(a, p) ==
  /\ \E s \in subscribers :
       /\ s.pending = p.id
       /\ Begin(a, "confirm", [s EXCEPT !.sources = ConfirmedSources(s, p), !.states = {},
                                        !.pending = NoPending], p.id, FALSE)
  /\ UNCHANGED <<rows, notifier, history>>

Matches(st, e) == st.source = e.source /\ st.type = e.type

Unmute(a, u, e) ==
  /\ \E s \in subscribers :
       s.user = u /\ Begin(a, "unmute",
         [s EXCEPT !.states = {IF Matches(st, e) THEN [st EXCEPT !.ignoreCoolOff = TRUE]
                                                 ELSE st : st \in @}], NoPending, FALSE)
  /\ UNCHANGED <<rows, notifier, history>>

Unsubscribe(a, u) ==
  /\ \E s \in subscribers : s.user = u /\ Begin(a, "deleteUser", s, NoPending, FALSE)
  /\ UNCHANGED <<rows, notifier, history>>

\* What the subscriptions of q are no longer muted for, once q is saved.
ReleasedBy(q) ==
  {e \in [user : {q.subscriber.user}, source : Source, type : EventType] :
     \/ q.op = "confirm" /\ e.source \in q.subscriber.sources
     \/ q.op = "unmute" /\ \E st \in q.subscriber.states : Matches(st, e) /\ st.ignoreCoolOff}

\* A new subscriber is refused when its user has one already.
SaveSubscriber(q) ==
  /\ q \in requests /\ q.op \in {"subscribe", "confirm", "unmute"}
  /\ q.isNew => \A s \in subscribers : s.user # q.subscriber.user
  /\ requests' = requests \ {q} /\ subscribers' = Saved({q.subscriber})
  /\ confirmed' = confirmed \cup (IF q.op = "confirm" THEN {q.id} ELSE {})
  /\ released' = released \cup ReleasedBy(q)
  /\ UNCHANGED <<asked, deleted, notifier, course>>

\* The user is gone, now or before; the answer may be lost.
DeleteUser(q) ==
  /\ q \in requests /\ q.op = "deleteUser"
  /\ deleted' = deleted \cup {q.subscriber.user}
  /\ \/ requests' = (requests \ {q}) \cup {[q EXCEPT !.op = "remove"]}
     \/ requests' = requests \ {q}
  /\ UNCHANGED <<subscribers, asked, notifier, history, course>>

Without(u) == {s \in subscribers : s.user # u}

RemoveSubscriber(q) ==
  /\ q \in requests /\ q.op = "remove"
  /\ requests' = requests \ {q}
  /\ subscribers' = Without(q.subscriber.user)
  /\ UNCHANGED <<asked, deleted, notifier, history, course>>

\* The database or the user service fails, the API crashes.
RequestFails(q) ==
  /\ q \in requests /\ requests' = requests \ {q}
  /\ UNCHANGED <<rows, notifier, history, course>>
-----------------------------------------------------------------------------
(* Notify.execute *)

\* Mutant: the period ends a moment early.
InShorterCoolOff(st) == now' < st.time + CoolOff
InCoolOff(st) == now' <= st.time + CoolOff
Muted(s, e) == \E st \in s.states : Matches(st, e) /\ ~st.ignoreCoolOff /\ InCoolOff(st)

Published(s, events) == {e \in events : e.source \in s.sources /\ ~Muted(s, e)}
Updated(s, events) ==
  [s EXCEPT !.states = {st \in @ : \A e \in events : ~Matches(st, e)} \cup
     {[source |-> e.source, type |-> e.type, time |-> now', ignoreCoolOff |-> FALSE] :
        e \in events}]

\* All subscribers are loaded and changed before the first message is sent.
StartNotify ==
  /\ ~sending /\ Starts
  /\ now' \in {t \in Time : t > now}
  /\ \E events \in (SUBSET Event) \ {{}} :
       LET told == {s \in subscribers : Published(s, events) # {}} IN
       /\ batch' = {[subscriber |-> Updated(s, Published(s, events)),
                     events |-> Published(s, events)] : s \in told}
       /\ sending' = (told # {})
  /\ UNCHANGED <<rows, requests, succeeded, delivered, history>>

Told(n) == {[user |-> n.subscriber.user, source |-> e.source, type |-> e.type] : e \in n.events}

\* The user service does not send to a user it has deleted.
Send(n) ==
  /\ n \in batch /\ n.subscriber.user \notin deleted
  /\ batch' = batch \ {n}
  /\ succeeded' = succeeded \cup {n.subscriber}
  /\ delivered' = delivered \cup {[user |-> k.user, source |-> k.source, type |-> k.type,
                                   time |-> now] : k \in Told(n)}
  /\ released' = released \ Told(n)
  /\ UNCHANGED <<rows, requests, now, sending, confirmed, course>>

\* Mutant: the subscriber is saved all the same.
SucceededAnyway(n) == succeeded \cup {n.subscriber}
SucceededWithout(n) == succeeded

\* Either nothing was delivered, or the answer came too late.
SendFails(n) ==
  /\ n \in batch /\ batch' = batch \ {n} /\ succeeded' = SucceededWithout(n)
  /\ \/ UNCHANGED <<delivered, released, recorded>>
     \/ /\ recorded' = FALSE /\ n.subscriber.user \notin deleted
        /\ delivered' = delivered \cup {[user |-> k.user, source |-> k.source, type |-> k.type,
                                         time |-> now] : k \in Told(n)}
        /\ released' = released \ Told(n)
  /\ UNCHANGED <<rows, requests, now, sending, confirmed, apart>>

SaveNotified ==
  /\ sending /\ batch = {} /\ sending' = FALSE
  /\ subscribers' = Saved(succeeded) /\ succeeded' = {}
  /\ UNCHANGED <<asked, deleted, requests, now, batch, delivered, history, course>>

\* The save fails, or the backend crashes before it.
NotifyFails ==
  /\ sending /\ recorded' = (recorded /\ succeeded = {})
  /\ sending' = FALSE /\ batch' = {} /\ succeeded' = {}
  /\ UNCHANGED <<rows, requests, now, delivered, history, apart>>
-----------------------------------------------------------------------------
HandleRequest(a) ==
  \/ \E u \in User : \/ \E S \in SUBSET Source : Subscribe(a, u, S)
                     \/ \E e \in Event : Unmute(a, u, e)
                     \/ Unsubscribe(a, u)
  \/ \E p \in asked : Confirm(a, p)

Proceed(q) == SaveSubscriber(q) \/ DeleteUser(q) \/ RemoveSubscriber(q) \/ RequestFails(q)

Notify ==
  \/ StartNotify \/ SaveNotified \/ NotifyFails
  \/ \E n \in batch : Send(n) \/ SendFails(n)

Next ==
  \/ \E a \in Slot : HandleRequest(a)
  \/ \E q \in requests : Proceed(q)
  \/ Notify

Spec == Init /\ [][Next]_vars
-----------------------------------------------------------------------------
(* Properties. *)

\* Double opt-in, however requests and notifications overlap: what a user is
\* subscribed to was asked for, whole, by one request the user has confirmed.
DoubleOptIn ==
  \A s \in subscribers : s.sources # {} =>
    \E p \in asked : p.id \in confirmed /\ p.user = s.user /\ p.sources = s.sources

\* A subscriber is muted only after a delivery: an event whose message failed
\* is notified again when it recurs, whatever else overlaps.
MutedOnlyIfDelivered ==
  \A s \in subscribers : \A st \in s.states :
    [user |-> s.user, source |-> st.source, type |-> st.type, time |-> st.time] \in delivered

\* "don't send events of the same type again during the coolOffPeriod"
\* (Subscription.ts:21), unless the user has unmuted them or subscribed anew, and as long
\* as no request has overlapped a notification and no delivery was left unrecorded.
NotAgainDuringCoolOff ==
  [][apart /\ recorded => \A d \in delivered' \ delivered, e \in delivered :
       /\ d.user = e.user /\ d.source = e.source /\ d.type = e.type
       /\ d.time <= e.time + CoolOff
       => [user |-> d.user, source |-> d.source, type |-> d.type] \in released]_vars

\* "Use the unmute link if you want to receive them again immediately"
\* (notification.ejs:175): an event that was unmuted stays so until it is delivered, as
\* long as requests and notifications do not overlap.
UnmutedUntilDelivered ==
  apart => \A s \in subscribers : \A st \in s.states :
    [user |-> s.user, source |-> st.source, type |-> st.type] \in released => st.ignoreCoolOff

\* The subscriptions of a user are those of the latest confirmation.
LatestConfirmed ==
  \A s \in subscribers, p \in asked :
    /\ p.user = s.user /\ p.id \in confirmed
    /\ \A r \in asked : r.user = p.user /\ r.id \in confirmed => r.id <= p.id
    => s.sources = p.sources

\* A confirmation replaces what the user was subscribed to and nothing else does, as long
\* as requests and notifications do not overlap.
LatestConfirmationCounts == apart => LatestConfirmed

\* "should create the actual subscriptions when confirmed"
\* (ConfirmSubscription.integration.test.ts:53), also when a notification is being sent meanwhile.
ConfirmationNotLost == LatestConfirmed
================================================================================
