-------------------------- MODULE SubscriptionsProofs --------------------------
(***************************************************************************)
(* Proofs about Subscriptions, for any number of users, sources, event     *)
(* types and requests in progress.                                         *)
(*                                                                         *)
(* Its types, the double opt-in and that only a delivery mutes hold with   *)
(* every overlap of requests and notifications: each copy of a subscriber, *)
(* wherever it is held, is good by itself.  Saving a copy over a newer row *)
(* may lose what the newer row says, but it puts no subscription into the  *)
(* tables that nobody confirmed and no state of an event that nobody was   *)
(* told of.                                                                *)
(*                                                                         *)
(* That the latest confirmation counts, that an unmute lasts and that a    *)
(* user is not told again during the cool-off hold while requests and      *)
(* notifications come one at a time (Alone): no copy is then saved over a  *)
(* newer row, and what a property says of the row is said of every copy.   *)
(***************************************************************************)
EXTENDS Subscriptions, FiniteSetTheorems, TLAPS

\* What a notification holds is unique to its user, and gone when none is being sent.
Batches ==
  /\ \A n, m \in batch : n.subscriber.user = m.subscriber.user => n = m
  /\ \A s, t \in succeeded : s.user = t.user => s = t
  /\ \A n \in batch, s \in succeeded : n.subscriber.user # s.user
  /\ ~sending => batch = {} /\ succeeded = {}

\* An id is given to one pending subscription.
Ids ==
  /\ IsFiniteSet(asked)
  /\ \A p \in asked : p.id <= Cardinality(asked)
  /\ \A p, r \in asked : p.id = r.id => p = r

TypeInv == TypeOK /\ Batches /\ Ids

\* The subscriptions of s were confirmed, its pending one was asked for by its user.
OptedIn(s) ==
  /\ s.sources # {} =>
       \E p \in asked : p.id \in confirmed /\ p.user = s.user /\ p.sources = s.sources
  /\ s.pending # NoPending => \E p \in asked : p.id = s.pending /\ p.user = s.user
ToBeConfirmed(q) ==
  /\ q.subscriber.pending = NoPending
  /\ \E p \in asked : p.id = q.id /\ p.user = q.subscriber.user /\ p.sources = q.subscriber.sources

Opted ==
  /\ \A s \in subscribers \cup succeeded : OptedIn(s)
  /\ \A n \in batch : OptedIn(n.subscriber)
  /\ \A q \in requests : IF q.op = "confirm" THEN ToBeConfirmed(q) ELSE OptedIn(q.subscriber)

\* The user was told of what s is muted for.
DeliveredState(u, st) ==
  [user |-> u, source |-> st.source, type |-> st.type, time |-> st.time] \in delivered
HeardOf(s) == \A st \in s.states : DeliveredState(s.user, st)
Heard ==
  /\ \A s \in subscribers \cup succeeded : HeardOf(s)
  /\ \A q \in requests : HeardOf(q.subscriber)
  /\ \A n \in batch : \A st \in n.subscriber.states :
       \/ DeliveredState(n.subscriber.user, st)
       \/ st.time = now /\ \E e \in n.events : Matches(st, e)

IInv == TypeInv /\ Opted /\ Heard
-----------------------------------------------------------------------------
LEMMA InitInv == Init => IInv
<1> SUFFICES ASSUME Init PROVE IInv
  OBVIOUS
<1>1. TypeOK
  <2>1. now \in Time
    BY SubscriptionsAssumption DEF Init, Time
  <2>2. sending \in BOOLEAN /\ requests = {} /\ batch = {} /\ subscribers = {}
    BY DEF Init
  <2> QED
    BY <2>1, <2>2 DEF Init, TypeOK
<1>2. Batches /\ Opted /\ Heard
  BY DEF Init, Batches, Opted, Heard
<1>3. IsFiniteSet(asked)
  BY FS_EmptySet DEF Init
<1>4. Ids
  BY <1>3 DEF Init, Ids
<1> QED
  BY <1>1, <1>2, <1>4 DEF IInv, TypeInv

\* What Begin adds to the requests, when the slot is free.
LEMMA BeginType ==
  ASSUME TypeInv, NEW a \in Slot, NEW op \in {"subscribe", "confirm", "unmute", "deleteUser"},
         NEW s \in Subscriber, NEW i \in PendingId \cup {NoPending}, NEW isNew \in BOOLEAN,
         Begin(a, op, s, i, isNew)
  PROVE  /\ requests' \subseteq Request
         /\ \A q, p \in requests' : q.slot = p.slot => q = p
         /\ apart' \in BOOLEAN /\ recorded' \in BOOLEAN
<1> DEFINE new == [slot |-> a, op |-> op, subscriber |-> s, id |-> i, isNew |-> isNew]
<1>1. new \in Request
  BY DEF Request
<1>2. /\ requests' = requests \cup {new} /\ \A q \in requests : q.slot # a
      /\ apart' \in BOOLEAN /\ recorded' \in BOOLEAN
  BY DEF Begin, Starts, TypeInv, TypeOK
<1> QED
  BY <1>1, <1>2 DEF TypeInv, TypeOK

LEMMA SubscribeInv ==
  ASSUME IInv, NEW a \in Slot, NEW u \in User, NEW S \in SUBSET Source, Subscribe(a, u, S)
  PROVE  IInv'
<1> DEFINE known == {s \in S : IsKnown(s)}
           new == [id |-> NextPendingId, user |-> u, sources |-> known]
<1>1. /\ NextPendingId \in PendingId /\ known \in SUBSET Source
      /\ asked' = asked \cup {new}
      /\ UNCHANGED <<subscribers, deleted, now, sending, batch, succeeded, delivered, released,
                     confirmed>>
  BY DEF Subscribe, notifier, history
<1>2. PICK s : /\ s \in Subscriber /\ s.user = u /\ s.pending = NextPendingId
               /\ (s.sources = {} /\ s.states = {})
                  \/ \E t \in subscribers : s = [t EXCEPT !.pending = NextPendingId]
               /\ \E isNew \in BOOLEAN : Begin(a, "subscribe", s, NextPendingId, isNew)
  <2>1. CASE \E t \in subscribers :
               t.user = u /\ Begin(a, "subscribe", [t EXCEPT !.pending = NextPendingId],
                                   NextPendingId, FALSE)
    <3>1. PICK t \in subscribers :
            t.user = u /\ Begin(a, "subscribe", [t EXCEPT !.pending = NextPendingId],
                                NextPendingId, FALSE)
      BY <2>1
    <3>2. t \in Subscriber
      BY DEF IInv, TypeInv, TypeOK
    <3>3. /\ [t EXCEPT !.pending = NextPendingId] \in Subscriber
          /\ [t EXCEPT !.pending = NextPendingId].user = u
          /\ [t EXCEPT !.pending = NextPendingId].pending = NextPendingId
      BY <3>1, <3>2, <1>1 DEF Subscriber
    <3> QED
      BY <3>1, <3>3
  <2>2. CASE Begin(a, "subscribe",
                   [user |-> u, sources |-> {}, states |-> {}, pending |-> NextPendingId],
                   NextPendingId, TRUE)
    BY <2>2, <1>1 DEF Subscriber
  <2> QED
    BY <2>1, <2>2 DEF Subscribe
<1>3. PICK isNew \in BOOLEAN : Begin(a, "subscribe", s, NextPendingId, isNew)
  BY <1>2
<1>4. /\ requests' \subseteq Request
      /\ \A q, p \in requests' : q.slot = p.slot => q = p
      /\ apart' \in BOOLEAN /\ recorded' \in BOOLEAN
  BY <1>1, <1>2, <1>3, BeginType DEF IInv
<1>5. new \in [id : PendingId, user : User, sources : SUBSET Source]
  BY <1>1
<1>6. TypeOK'
  BY <1>1, <1>4, <1>5 DEF IInv, TypeInv, TypeOK
<1>7. Ids'
  <2>1. IsFiniteSet(asked) /\ new \notin asked
    BY FS_CardinalityType DEF IInv, TypeInv, Ids, NextPendingId
  <2>2. IsFiniteSet(asked') /\ Cardinality(asked') = Cardinality(asked) + 1
    BY <2>1, <1>1, FS_AddElement
  <2>3. Cardinality(asked) \in Nat
    BY <2>1, FS_CardinalityType
  <2>4. \A p \in asked : p.id \in Int /\ p.id <= Cardinality(asked)
    BY DEF IInv, TypeInv, TypeOK, Ids, PendingId
  <2> QED
    <3>1. new.id = Cardinality(asked) + 1
      BY DEF NextPendingId
    <3>2. \A p \in asked' : p.id <= Cardinality(asked')
      BY <2>2, <2>3, <2>4, <3>1, <1>1
    <3>3. \A p \in asked : p.id # new.id
      BY <2>3, <2>4, <3>1
    <3>4. \A p, q \in asked' : p.id = q.id => p = q
      BY <3>3, <1>1 DEF IInv, TypeInv, Ids
    <3> QED
      BY <2>2, <3>2, <3>4 DEF Ids
<1>8. requests' = requests \cup
        {[slot |-> a, op |-> "subscribe", subscriber |-> s, id |-> NextPendingId, isNew |-> isNew]}
  BY <1>3 DEF Begin
<1>9. OptedIn(s)'
  <2>a. new \in asked' /\ new.id = s.pending /\ new.user = s.user
    BY <1>1, <1>2
  <2>b. \E p \in asked' : p.id = s.pending /\ p.user = s.user
    BY <2>a
  <2>1. CASE s.sources = {} /\ s.states = {}
    BY <2>1, <2>b DEF OptedIn
  <2>2. CASE \E t \in subscribers : s = [t EXCEPT !.pending = NextPendingId]
    <3>1. PICK t \in subscribers : s = [t EXCEPT !.pending = NextPendingId]
      BY <2>2
    <3>2. t \in Subscriber /\ OptedIn(t)
      BY DEF IInv, TypeInv, TypeOK, Opted
    <3>3. s.user = t.user /\ s.sources = t.sources
      BY <3>1, <3>2 DEF Subscriber
    <3>4. s.sources # {} =>
            \E p \in asked' : p.id \in confirmed' /\ p.user = s.user /\ p.sources = s.sources
      BY <3>2, <3>3, <1>1 DEF OptedIn
    <3> QED
      BY <3>4, <2>b DEF OptedIn
  <2> QED
    BY <2>1, <2>2, <1>2
<1>10. Opted'
  BY <1>1, <1>8, <1>9 DEF IInv, Opted, OptedIn, ToBeConfirmed
<1>11. HeardOf(s)
  <2>1. CASE \E t \in subscribers : s = [t EXCEPT !.pending = NextPendingId]
    <3>1. PICK t \in subscribers : s = [t EXCEPT !.pending = NextPendingId]
      BY <2>1
    <3>2. t \in Subscriber /\ HeardOf(t)
      BY DEF IInv, TypeInv, TypeOK, Heard
    <3>3. s.user = t.user /\ s.states = t.states
      BY <3>1, <3>2 DEF Subscriber
    <3> QED
      BY <3>2, <3>3 DEF HeardOf
  <2> QED
    BY <2>1, <1>2 DEF HeardOf
<1>12. Heard'
  BY <1>1, <1>8, <1>11 DEF IInv, Heard, HeardOf, DeliveredState
<1> QED
  BY <1>1, <1>6, <1>7, <1>10, <1>12 DEF IInv, TypeInv, Batches

\* A request that changes nothing but the copy of the subscriber it has loaded.
LEMMA BeginInv ==
  ASSUME IInv, NEW a \in Slot, NEW op \in {"confirm", "unmute", "deleteUser"},
         NEW s \in Subscriber, NEW i \in PendingId \cup {NoPending},
         Begin(a, op, s, i, FALSE),
         UNCHANGED <<rows, notifier, history>>,
         HeardOf(s),
         IF op = "confirm"
         THEN s.pending = NoPending /\
              \E p \in asked : p.id = i /\ p.user = s.user /\ p.sources = s.sources
         ELSE OptedIn(s)
  PROVE  IInv'
<1> DEFINE new == [slot |-> a, op |-> op, subscriber |-> s, id |-> i, isNew |-> FALSE]
<1>1. /\ requests' \subseteq Request
      /\ \A q, p \in requests' : q.slot = p.slot => q = p
      /\ apart' \in BOOLEAN /\ recorded' \in BOOLEAN
  BY BeginType DEF IInv
<1>2. requests' = requests \cup {new}
  BY DEF Begin
<1>3. UNCHANGED <<subscribers, asked, deleted, now, sending, batch, succeeded, delivered,
                  released, confirmed>>
  BY DEF rows, notifier, history
<1>4. TypeInv'
  BY <1>1, <1>3 DEF IInv, TypeInv, TypeOK, Batches, Ids
<1>5. IF op = "confirm" THEN ToBeConfirmed(new) ELSE OptedIn(new.subscriber)
  BY DEF ToBeConfirmed
<1>6. Opted'
  BY <1>2, <1>3, <1>5 DEF IInv, Opted, OptedIn, ToBeConfirmed
<1>7. Heard'
  BY <1>2, <1>3 DEF IInv, Heard, HeardOf, DeliveredState
<1> QED
  BY <1>4, <1>6, <1>7 DEF IInv

LEMMA ConfirmInv == ASSUME IInv, NEW a \in Slot, NEW p \in asked, Confirm(a, p) PROVE IInv'
<1>1. PICK s \in subscribers :
        /\ s.pending = p.id
        /\ Begin(a, "confirm", [s EXCEPT !.sources = p.sources, !.states = {},
                                         !.pending = NoPending], p.id, FALSE)
  BY DEF Confirm, ConfirmedSources
<1> DEFINE t == [s EXCEPT !.sources = p.sources, !.states = {}, !.pending = NoPending]
<1>2. /\ s \in Subscriber /\ OptedIn(s)
      /\ p.id \in PendingId /\ p.sources \in SUBSET Source
  BY DEF IInv, TypeInv, TypeOK, Opted
<1>3. /\ t \in Subscriber /\ t.user = s.user /\ t.sources = p.sources
      /\ t.states = {} /\ t.pending = NoPending
  BY <1>2 DEF Subscriber
<1>4. p.user = s.user
  <2>1. s.pending # NoPending
    BY <1>1, <1>2, SubscriptionsAssumption DEF PendingId, NoPending
  <2>2. PICK r \in asked : r.id = s.pending /\ r.user = s.user
    BY <2>1, <1>2 DEF OptedIn
  <2> QED
    BY <2>2, <1>1 DEF IInv, TypeInv, Ids
<1>5. HeardOf(t)
  BY <1>3 DEF HeardOf
<1>6. Begin(a, "confirm", t, p.id, FALSE)
  BY <1>1
<1>7. UNCHANGED <<rows, notifier, history>>
  BY DEF Confirm
<1> HIDE DEF t
<1> QED
  BY <1>2, <1>3, <1>4, <1>5, <1>6, <1>7, BeginInv

LEMMA UnmuteInv ==
  ASSUME IInv, NEW a \in Slot, NEW u \in User, NEW e \in Event, Unmute(a, u, e)
  PROVE  IInv'
<1> DEFINE unmuted(st) == IF Matches(st, e) THEN [st EXCEPT !.ignoreCoolOff = TRUE] ELSE st
<1>1. PICK s \in subscribers :
        Begin(a, "unmute", [s EXCEPT !.states = {unmuted(st) : st \in @}], NoPending, FALSE)
  BY DEF Unmute
<1> DEFINE t == [s EXCEPT !.states = {unmuted(st) : st \in @}]
<1>2. s \in Subscriber /\ OptedIn(s) /\ HeardOf(s)
  BY DEF IInv, TypeInv, TypeOK, Opted, Heard
<1>3. \A st \in s.states :
        /\ unmuted(st) \in State
        /\ unmuted(st).source = st.source /\ unmuted(st).type = st.type
        /\ unmuted(st).time = st.time
  BY <1>2 DEF Subscriber, State
<1> HIDE DEF unmuted
<1>4. /\ t \in Subscriber /\ t.user = s.user /\ t.sources = s.sources
      /\ t.pending = s.pending /\ t.states = {unmuted(st) : st \in s.states}
  BY <1>2, <1>3 DEF Subscriber
<1>5. OptedIn(t)
  BY <1>2, <1>4 DEF OptedIn
<1>6. HeardOf(t)
  BY <1>2, <1>3, <1>4 DEF HeardOf, DeliveredState
<1>7. Begin(a, "unmute", t, NoPending, FALSE)
  BY <1>1
<1>8. UNCHANGED <<rows, notifier, history>>
  BY DEF Unmute
<1> HIDE DEF t
<1> QED
  BY <1>4, <1>5, <1>6, <1>7, <1>8, BeginInv

LEMMA UnsubscribeInv ==
  ASSUME IInv, NEW a \in Slot, NEW u \in User, Unsubscribe(a, u) PROVE IInv'
<1>1. PICK s \in subscribers : Begin(a, "deleteUser", s, NoPending, FALSE)
  BY DEF Unsubscribe
<1>2. s \in Subscriber /\ OptedIn(s) /\ HeardOf(s)
  BY DEF IInv, TypeInv, TypeOK, Opted, Heard
<1>3. UNCHANGED <<rows, notifier, history>>
  BY DEF Unsubscribe
<1> QED
  BY <1>1, <1>2, <1>3, BeginInv
-----------------------------------------------------------------------------
\* Saving good copies of distinct users leaves good and unique rows.
LEMMA SavedGood ==
  ASSUME TypeInv, NEW S \in SUBSET Subscriber, \A s, t \in S : s.user = t.user => s = t
  PROVE  /\ Saved(S) \subseteq subscribers \cup S
         /\ Saved(S) \subseteq Subscriber
         /\ \A s, t \in Saved(S) : s.user = t.user => s = t
  BY DEF TypeInv, TypeOK, Saved

LEMMA SaveSubscriberInv == ASSUME IInv, NEW q \in requests, SaveSubscriber(q) PROVE IInv'
<1> DEFINE c == q.subscriber
<1>1. /\ requests' = requests \ {q} /\ subscribers' = Saved({c})
      /\ confirmed' = confirmed \cup (IF q.op = "confirm" THEN {q.id} ELSE {})
      /\ released' = released \cup ReleasedBy(q)
      /\ UNCHANGED <<asked, deleted, now, sending, batch, succeeded, delivered>>
      /\ apart' \in BOOLEAN /\ recorded' \in BOOLEAN
  BY DEF IInv, TypeInv, TypeOK, course, history, SaveSubscriber, notifier
<1>2. q \in Request /\ c \in Subscriber
  BY DEF IInv, TypeInv, TypeOK, Request
<1>3. /\ subscribers' \subseteq subscribers \cup {c} /\ subscribers' \subseteq Subscriber
      /\ \A s, t \in subscribers' : s.user = t.user => s = t
  BY <1>1, <1>2, SavedGood DEF IInv
<1>4. ReleasedBy(q) \subseteq [user : User, source : Source, type : EventType]
  BY <1>2 DEF ReleasedBy, Subscriber
<1>5. q.op = "confirm" => q.id \in PendingId
  BY <1>2 DEF IInv, TypeInv, TypeOK, Opted, ToBeConfirmed
<1>6. confirmed' \subseteq PendingId /\ confirmed \subseteq confirmed'
  BY <1>1, <1>5 DEF IInv, TypeInv, TypeOK
<1>7. TypeOK'
  BY <1>1, <1>3, <1>4, <1>6 DEF IInv, TypeInv, TypeOK
<1>8. Batches' /\ Ids'
  BY <1>1 DEF IInv, TypeInv, Batches, Ids
<1>9. ASSUME NEW s, OptedIn(s) PROVE OptedIn(s)'
  BY <1>1, <1>6, <1>9 DEF OptedIn
<1>10. OptedIn(c)'
  <2>1. CASE q.op = "confirm"
    <3>1. ToBeConfirmed(q)
      BY <2>1 DEF IInv, Opted
    <3>2. q.id \in confirmed'
      BY <2>1, <1>1
    <3> QED
      BY <3>1, <3>2, <1>1 DEF ToBeConfirmed, OptedIn
  <2>2. CASE q.op # "confirm"
    BY <2>2, <1>9 DEF IInv, Opted
  <2> QED
    BY <2>1, <2>2
<1>11. Opted'
  <2>1. \A s \in (subscribers \cup succeeded)' : OptedIn(s)'
    BY <1>1, <1>3, <1>9, <1>10 DEF IInv, Opted
  <2>2. \A n \in batch' : OptedIn(n.subscriber)'
    BY <1>1, <1>9 DEF IInv, Opted
  <2>3. \A p \in requests' : IF p.op = "confirm" THEN ToBeConfirmed(p)'
                                               ELSE OptedIn(p.subscriber)'
    BY <1>1, <1>9 DEF IInv, Opted, ToBeConfirmed
  <2> QED
    BY <2>1, <2>2, <2>3 DEF Opted
<1>12. Heard'
  BY <1>1, <1>3 DEF IInv, Heard, HeardOf, DeliveredState
<1> QED
  BY <1>7, <1>8, <1>11, <1>12 DEF IInv, TypeInv

LEMMA DeleteUserInv == ASSUME IInv, NEW q \in requests, DeleteUser(q) PROVE IInv'
<1> DEFINE after == [q EXCEPT !.op = "remove"]
<1>1. /\ q.op = "deleteUser" /\ deleted' = deleted \cup {q.subscriber.user}
      /\ requests' \subseteq (requests \ {q}) \cup {after}
      /\ UNCHANGED <<subscribers, asked, now, sending, batch, succeeded, delivered, released,
                     confirmed>>
      /\ apart' \in BOOLEAN /\ recorded' \in BOOLEAN
  BY DEF IInv, TypeInv, TypeOK, course, history, DeleteUser, notifier
<1>2. q \in Request /\ q.subscriber \in Subscriber /\ q.subscriber.user \in User
  BY DEF IInv, TypeInv, TypeOK, Request, Subscriber
<1>3. /\ after \in Request /\ after.slot = q.slot /\ after.op # "confirm"
      /\ after.subscriber = q.subscriber
  BY <1>2 DEF Request
<1> HIDE DEF after
<1>4. requests' \subseteq Request /\ \A r, p \in requests' : r.slot = p.slot => r = p
  BY <1>1, <1>3 DEF IInv, TypeInv, TypeOK
<1>5. TypeInv'
  BY <1>1, <1>2, <1>4 DEF IInv, TypeInv, TypeOK, Batches, Ids
<1>6. OptedIn(q.subscriber) /\ HeardOf(q.subscriber)
  BY <1>1 DEF IInv, Opted, Heard
<1>7. Opted'
  BY <1>1, <1>3, <1>6 DEF IInv, Opted, OptedIn, ToBeConfirmed
<1>8. Heard'
  BY <1>1, <1>3, <1>6 DEF IInv, Heard, HeardOf, DeliveredState
<1> QED
  BY <1>5, <1>7, <1>8 DEF IInv

\* Rows and requests that go away.
LEMMA RemoveInv ==
  ASSUME IInv, NEW q \in requests, RemoveSubscriber(q) \/ RequestFails(q) PROVE IInv'
<1>1. /\ requests' \subseteq requests /\ subscribers' \subseteq subscribers
      /\ UNCHANGED <<asked, deleted, now, sending, batch, succeeded, delivered, released, confirmed>>
      /\ apart' \in BOOLEAN /\ recorded' \in BOOLEAN
  BY DEF IInv, TypeInv, TypeOK, course, history, RemoveSubscriber, RequestFails, Without, rows, notifier
<1>2. q.subscriber.user \in User
  BY DEF IInv, TypeInv, TypeOK, Request, Subscriber
<1>3. TypeInv'
  BY <1>1, <1>2 DEF IInv, TypeInv, TypeOK, Batches, Ids
<1>4. Opted' /\ Heard'
  BY <1>1 DEF IInv, Opted, OptedIn, ToBeConfirmed, Heard, HeardOf, DeliveredState
<1> QED
  BY <1>3, <1>4 DEF IInv
-----------------------------------------------------------------------------
LEMMA StartNotifyInv == ASSUME IInv, StartNotify PROVE IInv'
<1>1. PICK events \in SUBSET Event :
        LET told == {s \in subscribers : Published(s, events) # {}} IN
        /\ batch' = {[subscriber |-> Updated(s, Published(s, events)),
                      events |-> Published(s, events)] : s \in told}
        /\ sending' = (told # {})
  BY DEF StartNotify
<1> DEFINE told == {s \in subscribers : Published(s, events) # {}}
           note(s) == [subscriber |-> Updated(s, Published(s, events)),
                       events |-> Published(s, events)]
<1>2. /\ ~sending /\ now' \in Time /\ sending' \in BOOLEAN
      /\ batch' = {note(s) : s \in told} /\ sending' = (told # {})
      /\ UNCHANGED <<subscribers, asked, deleted, requests, succeeded, delivered, released,
                     confirmed>>
      /\ apart' \in BOOLEAN /\ recorded' \in BOOLEAN
  BY <1>1 DEF IInv, TypeInv, TypeOK, course, history, StartNotify, Starts, rows
<1>3. batch = {} /\ succeeded = {}
  BY <1>2 DEF IInv, TypeInv, Batches
<1>4. ASSUME NEW s \in told
      PROVE  /\ note(s) \in [subscriber : Subscriber, events : SUBSET Event]
             /\ note(s).subscriber.user = s.user
             /\ note(s).subscriber.sources = s.sources
             /\ note(s).subscriber.pending = s.pending
             /\ \A st \in note(s).subscriber.states :
                  st \in s.states \/ (st.time = now' /\ \E e \in note(s).events : Matches(st, e))
  <2> DEFINE P == Published(s, events)
             added == {[source |-> e.source, type |-> e.type, time |-> now',
                        ignoreCoolOff |-> FALSE] : e \in P}
             old == {st \in s.states : \A e \in P : ~Matches(st, e)}
  <2>1. s \in Subscriber /\ P \in SUBSET Event
    BY <1>4 DEF IInv, TypeInv, TypeOK, Published
  <2>2. added \subseteq State
    <3> SUFFICES ASSUME NEW e \in P
                 PROVE  [source |-> e.source, type |-> e.type, time |-> now',
                         ignoreCoolOff |-> FALSE] \in State
      OBVIOUS
    <3>1. e.source \in Source /\ e.type \in EventType /\ now' \in Time
      BY <2>1, <1>2 DEF Event
    <3> QED
      BY <3>1 DEF State
  <2>3. \A st \in added : st.time = now' /\ \E e \in P : Matches(st, e)
    BY DEF Matches
  <2>4. Updated(s, P) = [s EXCEPT !.states = old \cup added]
    BY <2>1 DEF Updated, Subscriber
  <2> HIDE DEF P, added
  <2>5. /\ Updated(s, P) \in Subscriber /\ Updated(s, P).user = s.user
        /\ Updated(s, P).sources = s.sources /\ Updated(s, P).pending = s.pending
        /\ Updated(s, P).states = old \cup added
    BY <2>1, <2>2, <2>4 DEF Subscriber
  <2> QED
    BY <2>1, <2>3, <2>5 DEF P
<1>a. told \subseteq subscribers
  OBVIOUS
<1>b. sending' = (told # {})
  BY <1>2
<1>c. \A n \in batch' : \E s \in told : n = note(s)
  BY <1>2
<1>d. told = {} => batch' = {}
  BY <1>c
<1> HIDE DEF note, told
<1>5. \A s, t \in told : s.user = t.user => s = t
  BY <1>a DEF IInv, TypeInv, TypeOK
<1>6. TypeOK'
  BY <1>2, <1>4 DEF IInv, TypeInv, TypeOK
<1>7. Batches'
  <2>1. ASSUME NEW n \in batch', NEW m \in batch', n.subscriber.user = m.subscriber.user
        PROVE  n = m
    <3>1. PICK s \in told : n = note(s)
      BY <1>c
    <3>2. PICK t \in told : m = note(t)
      BY <1>c
    <3>3. s.user = t.user
      BY <3>1, <3>2, <2>1, <1>4
    <3> QED
      BY <3>1, <3>2, <3>3, <1>5
  <2>2. succeeded' = {}
    BY <1>2, <1>3
  <2>3. ~sending' => batch' = {}
    BY <1>b, <1>d
  <2> QED
    BY <2>1, <2>2, <2>3 DEF Batches
<1>8. Ids'
  BY <1>2 DEF IInv, TypeInv, Ids
<1>9. Opted'
  <2>1. ASSUME NEW s, OptedIn(s) PROVE OptedIn(s)'
    BY <2>1, <1>2 DEF OptedIn
  <2>2. ASSUME NEW n \in batch' PROVE OptedIn(n.subscriber)'
    <3>1. PICK s \in told : n = note(s)
      BY <1>c
    <3>2. OptedIn(s)
      BY <1>a DEF IInv, Opted
    <3>3. /\ n.subscriber.user = s.user /\ n.subscriber.sources = s.sources
          /\ n.subscriber.pending = s.pending
      BY <3>1, <1>4
    <3>4. OptedIn(n.subscriber)
      BY <3>2, <3>3 DEF OptedIn
    <3> QED
      BY <3>4, <2>1
  <2>3. \A s \in (subscribers \cup succeeded)' : OptedIn(s)'
    BY <2>1, <1>2 DEF IInv, Opted
  <2>4. \A q \in requests' : IF q.op = "confirm" THEN ToBeConfirmed(q)'
                                               ELSE OptedIn(q.subscriber)'
    BY <2>1, <1>2 DEF IInv, Opted, ToBeConfirmed
  <2> QED
    BY <2>2, <2>3, <2>4 DEF Opted
<1>10. Heard'
  <2>1. ASSUME NEW u, NEW st, DeliveredState(u, st) PROVE DeliveredState(u, st)'
    BY <2>1, <1>2 DEF DeliveredState
  <2>2. ASSUME NEW n \in batch', NEW st \in n.subscriber.states
        PROVE  \/ DeliveredState(n.subscriber.user, st)'
               \/ st.time = now' /\ \E e \in n.events : Matches(st, e)
    <3>1. PICK s \in told : n = note(s)
      BY <1>c
    <3>2. n.subscriber.user = s.user
      BY <3>1, <1>4
    <3>3. st \in s.states \/ (st.time = now' /\ \E e \in n.events : Matches(st, e))
      BY <3>1, <2>2, <1>4
    <3>4. st \in s.states => DeliveredState(s.user, st)
      BY <1>a DEF IInv, Heard, HeardOf
    <3> QED
      BY <3>2, <3>3, <3>4, <2>1
  <2>3. ASSUME NEW s, HeardOf(s) PROVE HeardOf(s)'
    BY <2>3, <2>1 DEF HeardOf
  <2>4. \A s \in (subscribers \cup succeeded)' : HeardOf(s)'
    BY <2>3, <1>2 DEF IInv, Heard
  <2>5. \A q \in requests' : HeardOf(q.subscriber)'
    BY <2>3, <1>2 DEF IInv, Heard
  <2> QED
    BY <2>2, <2>4, <2>5 DEF Heard, Matches
<1> QED
  BY <1>6, <1>7, <1>8, <1>9, <1>10 DEF IInv, TypeInv

\* One message, whatever becomes of it: what is delivered only grows, and the
\* subscriber of a message that was sent has heard of all it is muted for.
LEMMA SendInv == ASSUME IInv, NEW n \in batch, Send(n) \/ SendFails(n) PROVE IInv'
<1> DEFINE news == {[user |-> k.user, source |-> k.source, type |-> k.type, time |-> now] :
                      k \in Told(n)}
<1>1. /\ batch' = batch \ {n} /\ released' \subseteq released
      /\ UNCHANGED <<subscribers, asked, deleted, requests, now, sending, confirmed>>
      /\ \/ delivered' = delivered \cup news /\ succeeded' = succeeded \cup {n.subscriber}
         \/ delivered' \in {delivered, delivered \cup news} /\ succeeded' = succeeded
      /\ apart' \in BOOLEAN /\ recorded' \in BOOLEAN
  BY DEF IInv, TypeInv, TypeOK, course, history, Send, SendFails, SucceededWithout, rows
<1>2. n \in [subscriber : Subscriber, events : SUBSET Event]
  BY DEF IInv, TypeInv, TypeOK
<1>3. news \subseteq [user : User, source : Source, type : EventType, time : Time]
  BY <1>2 DEF IInv, TypeInv, TypeOK, Told, Event, Subscriber
<1>4. n.subscriber \in Subscriber /\ OptedIn(n.subscriber)
  BY <1>2 DEF IInv, Opted
<1>5. TypeOK'
  BY <1>1, <1>3, <1>4 DEF IInv, TypeInv, TypeOK
<1>6. Batches'
  BY <1>1 DEF IInv, TypeInv, Batches
<1>7. Ids'
  BY <1>1 DEF IInv, TypeInv, Ids
<1>8. Opted'
  BY <1>1, <1>4 DEF IInv, Opted, OptedIn, ToBeConfirmed
<1>9. delivered \subseteq delivered'
  BY <1>1
<1>10. ASSUME delivered' = delivered \cup news PROVE HeardOf(n.subscriber)'
  <2> SUFFICES ASSUME NEW st \in n.subscriber.states
               PROVE  DeliveredState(n.subscriber.user, st)'
    BY DEF HeardOf
  <2>1. CASE DeliveredState(n.subscriber.user, st)
    BY <2>1, <1>9 DEF DeliveredState
  <2>2. CASE st.time = now /\ \E e \in n.events : Matches(st, e)
    <3>1. PICK e \in n.events : Matches(st, e)
      BY <2>2
    <3> DEFINE k == [user |-> n.subscriber.user, source |-> e.source, type |-> e.type]
    <3>2. k \in Told(n)
      BY DEF Told
    <3>3. [user |-> k.user, source |-> k.source, type |-> k.type, time |-> now] \in news
      BY <3>2
    <3>4. [user |-> n.subscriber.user, source |-> st.source, type |-> st.type, time |-> st.time]
            \in news
      BY <3>1, <3>3, <2>2 DEF Matches
    <3> QED
      BY <3>4, <1>10 DEF DeliveredState
  <2> QED
    BY <2>1, <2>2 DEF IInv, Heard
<1>11. Heard'
  <2>1. \A s \in (subscribers \cup succeeded)' : HeardOf(s)'
    <3>1. \A s \in subscribers \cup succeeded : HeardOf(s)'
      BY <1>9 DEF IInv, Heard, HeardOf, DeliveredState
    <3> QED
      BY <3>1, <1>1, <1>10
  <2>2. \A q \in requests' : HeardOf(q.subscriber)'
    BY <1>1, <1>9 DEF IInv, Heard, HeardOf, DeliveredState
  <2>3. \A m \in batch' : \A st \in m.subscriber.states :
          \/ DeliveredState(m.subscriber.user, st)'
          \/ st.time = now' /\ \E e \in m.events : Matches(st, e)
    BY <1>1, <1>9 DEF IInv, Heard, DeliveredState
  <2> QED
    BY <2>1, <2>2, <2>3 DEF Heard, Matches
<1> QED
  BY <1>5, <1>6, <1>7, <1>8, <1>11 DEF IInv, TypeInv

LEMMA SaveNotifiedInv == ASSUME IInv, SaveNotified PROVE IInv'
<1>1. /\ batch = {} /\ sending' = FALSE /\ subscribers' = Saved(succeeded) /\ succeeded' = {}
      /\ UNCHANGED <<asked, deleted, requests, now, batch, delivered, released, confirmed>>
      /\ apart' \in BOOLEAN /\ recorded' \in BOOLEAN
  BY DEF IInv, TypeInv, TypeOK, course, history, SaveNotified
<1>2. /\ subscribers' \subseteq subscribers \cup succeeded /\ subscribers' \subseteq Subscriber
      /\ \A s, t \in subscribers' : s.user = t.user => s = t
  <2>1. succeeded \in SUBSET Subscriber /\ \A s, t \in succeeded : s.user = t.user => s = t
    BY DEF IInv, TypeInv, TypeOK, Batches
  <2> QED
    BY <2>1, <1>1, SavedGood DEF IInv
<1>3. TypeInv'
  BY <1>1, <1>2 DEF IInv, TypeInv, TypeOK, Batches, Ids
<1>4. Opted' /\ Heard'
  BY <1>1, <1>2 DEF IInv, Opted, OptedIn, ToBeConfirmed, Heard, HeardOf, DeliveredState
<1> QED
  BY <1>3, <1>4 DEF IInv

LEMMA NotifyFailsInv == ASSUME IInv, NotifyFails PROVE IInv'
<1>1. /\ sending' = FALSE /\ batch' = {} /\ succeeded' = {}
      /\ UNCHANGED <<subscribers, asked, deleted, requests, now, delivered, released, confirmed>>
      /\ apart' \in BOOLEAN /\ recorded' \in BOOLEAN
  BY DEF IInv, TypeInv, TypeOK, course, history, NotifyFails, rows
<1>2. TypeInv'
  BY <1>1 DEF IInv, TypeInv, TypeOK, Batches, Ids
<1>3. Opted' /\ Heard'
  BY <1>1 DEF IInv, Opted, OptedIn, ToBeConfirmed, Heard, HeardOf, DeliveredState
<1> QED
  BY <1>2, <1>3 DEF IInv
-----------------------------------------------------------------------------
LEMMA StepInv == IInv /\ [Next]_vars => IInv'
<1> SUFFICES ASSUME IInv, [Next]_vars PROVE IInv'
  OBVIOUS
<1>1. ASSUME NEW a \in Slot, HandleRequest(a) PROVE IInv'
  BY <1>1, SubscribeInv, UnmuteInv, UnsubscribeInv, ConfirmInv DEF HandleRequest
<1>2. ASSUME NEW q \in requests, Proceed(q) PROVE IInv'
  BY <1>2, SaveSubscriberInv, DeleteUserInv, RemoveInv DEF Proceed
<1>3. CASE Notify
  BY <1>3, StartNotifyInv, SaveNotifiedInv, NotifyFailsInv, SendInv DEF Notify
<1>4. CASE UNCHANGED vars
  BY <1>4 DEF vars, rows, notifier, history, course, IInv, TypeInv, TypeOK, Batches, Ids, Opted, OptedIn,
              ToBeConfirmed, Heard, HeardOf, DeliveredState
<1> QED
  BY <1>1, <1>2, <1>3, <1>4 DEF Next

LEMMA Invariance == Spec => []IInv
  BY InitInv, StepInv, PTL DEF Spec

\* The types, the constraint on userId among them.
THEOREM TypeCorrect == Spec => []TypeOK
<1>1. IInv => TypeOK
  BY DEF IInv, TypeInv
<1> QED
  BY Invariance, <1>1, PTL

\* However requests and notifications overlap and fail, nobody is subscribed to what
\* one request of theirs did not ask for and they did not confirm
\* (Subscribe, ConfirmSubscription, Notify and the saves of their copies).
THEOREM OptIn == Spec => []DoubleOptIn
<1>1. IInv => DoubleOptIn
  BY DEF IInv, Opted, OptedIn, DoubleOptIn
<1> QED
  BY Invariance, <1>1, PTL

\* However requests and notifications overlap and fail, no event is muted for a
\* subscriber whom no message told of it (Notify.execute saves what was sent).
THEOREM MutedWhenTold == Spec => []MutedOnlyIfDelivered
<1>1. IInv => MutedOnlyIfDelivered
  BY DEF IInv, Heard, HeardOf, DeliveredState, MutedOnlyIfDelivered
<1> QED
  BY Invariance, <1>1, PTL
-----------------------------------------------------------------------------
(* One thing at a time.  The properties below are of courses in which no request or     *)
(* notification began while another was in progress, so that a copy is as good as its    *)
(* row was when it was loaded.                                                           *)

\* As long as requests and notifications were apart there is one request or one
\* notification in progress.
Alone ==
  /\ apart => (\A q, p \in requests : q = p) /\ (requests # {} => ~sending)
  /\ \A q \in requests : q.op = "remove" => q.subscriber.user \in deleted

LEMMA BeginAlone ==
  ASSUME Alone, NEW a, NEW op, op # "remove", NEW s, NEW i, NEW isNew, Begin(a, op, s, i, isNew),
         UNCHANGED <<deleted, sending>>
  PROVE  Alone' /\ (apart' => apart /\ requests = {} /\ ~sending)
<1> DEFINE new == [slot |-> a, op |-> op, subscriber |-> s, id |-> i, isNew |-> isNew]
<1>1. requests' = requests \cup {new} /\ apart' = (apart /\ requests = {} /\ ~sending)
  BY DEF Begin, Starts
<1>2. new.op # "remove"
  OBVIOUS
<1> HIDE DEF new
<1> QED
  BY <1>1, <1>2 DEF Alone

\* What the first action of a request does, whichever it is.
LEMMA HandleBegins ==
  ASSUME NEW a \in Slot, HandleRequest(a)
  PROVE  /\ UNCHANGED <<subscribers, deleted, notifier, history>>
         /\ \E op \in {"subscribe", "confirm", "unmute", "deleteUser"} :
              \E s, i, isNew : Begin(a, op, s, i, isNew)
<1>1. CASE \E u \in User : \E S \in SUBSET Source : Subscribe(a, u, S)
  BY <1>1 DEF Subscribe
<1>2. CASE \E u \in User : \E e \in Event : Unmute(a, u, e)
  BY <1>2 DEF Unmute, rows
<1>3. CASE \E u \in User : Unsubscribe(a, u)
  BY <1>3 DEF Unsubscribe, rows
<1>4. CASE \E p \in asked : Confirm(a, p)
  BY <1>4 DEF Confirm, rows
<1> QED
  BY <1>1, <1>2, <1>3, <1>4 DEF HandleRequest

LEMMA AloneStep == IInv /\ Alone /\ [Next]_vars => Alone'
<1> SUFFICES ASSUME IInv, Alone, [Next]_vars PROVE Alone'
  OBVIOUS
<1>1. ASSUME NEW a \in Slot, HandleRequest(a) PROVE Alone'
  <2>1. PICK op \in {"subscribe", "confirm", "unmute", "deleteUser"} :
          \E s, i, isNew : Begin(a, op, s, i, isNew)
    BY <1>1, HandleBegins
  <2>2. UNCHANGED <<deleted, sending>>
    BY <1>1, HandleBegins DEF notifier
  <2> QED
    BY <2>1, <2>2, BeginAlone
<1>2. ASSUME NEW q \in requests, SaveSubscriber(q) \/ RemoveSubscriber(q) \/ RequestFails(q)
      PROVE  Alone'
  <2>1. requests' = requests \ {q} /\ UNCHANGED <<deleted, sending, apart>>
    BY <1>2 DEF SaveSubscriber, RemoveSubscriber, RequestFails, rows, notifier, course
  <2> QED
    BY <2>1 DEF Alone
<1>3. ASSUME NEW q \in requests, DeleteUser(q) PROVE Alone'
  <2> DEFINE after == [q EXCEPT !.op = "remove"]
  <2>1. /\ requests' \subseteq (requests \ {q}) \cup {after} /\ UNCHANGED <<sending, apart>>
        /\ deleted' = deleted \cup {q.subscriber.user}
    BY <1>3 DEF DeleteUser, notifier, course
  <2>2. after.subscriber = q.subscriber
    BY DEF IInv, TypeInv, TypeOK, Request
  <2> HIDE DEF after
  <2>3. apart' => (\A r, p \in requests' : r = p) /\ (requests' # {} => ~sending')
    BY <2>1 DEF Alone
  <2>4. \A r \in requests' : r.op = "remove" => r.subscriber.user \in deleted'
    BY <2>1, <2>2 DEF Alone
  <2> QED
    BY <2>3, <2>4 DEF Alone
<1>4. CASE StartNotify
  BY <1>4 DEF StartNotify, Starts, rows, Alone
<1>5. CASE SaveNotified \/ NotifyFails \/ \E n \in batch : Send(n) \/ SendFails(n)
  BY <1>5 DEF SaveNotified, NotifyFails, Send, SendFails, rows, course, Alone
<1>6. CASE UNCHANGED vars
  BY <1>6 DEF vars, rows, notifier, course, Alone
<1> QED
  BY <1>1, <1>2, <1>3, <1>4, <1>5, <1>6 DEF Next, Proceed, Notify

LEMMA InitAlone == Init => Alone
  BY DEF Init, Alone
-----------------------------------------------------------------------------
(* Which copies there are, and what the rows are after a save. *)

\* The copy that a request to subscribe changes is of a row, or new.
LEMMA SubscribeCopies ==
  ASSUME IInv, NEW a \in Slot, NEW u \in User, NEW S \in SUBSET Source, Subscribe(a, u, S)
  PROVE  /\ u \notin deleted
         /\ \E s, isNew :
              /\ Begin(a, "subscribe", s, NextPendingId, isNew)
              /\ s.user = u /\ s.pending = NextPendingId
              /\ \/ \E t \in subscribers :
                      t.user = u /\ s.sources = t.sources /\ s.states = t.states
                 \/ /\ \A t \in subscribers : t.user # u
                    /\ s.sources = {} /\ s.states = {}
<1> DEFINE copy(t) == [t EXCEPT !.pending = NextPendingId]
           fresh == [user |-> u, sources |-> {}, states |-> {}, pending |-> NextPendingId]
<1>1. CASE \E t \in subscribers :
             t.user = u /\ Begin(a, "subscribe", copy(t), NextPendingId, FALSE)
  <2>1. PICK t \in subscribers :
          t.user = u /\ Begin(a, "subscribe", copy(t), NextPendingId, FALSE)
    BY <1>1
  <2>2. t \in Subscriber
    BY DEF IInv, TypeInv, TypeOK
  <2>3. /\ copy(t).user = u /\ copy(t).pending = NextPendingId
        /\ copy(t).sources = t.sources /\ copy(t).states = t.states
    BY <2>1, <2>2 DEF Subscriber
  <2>4. u \notin deleted
    BY DEF Subscribe
  <2> HIDE DEF copy
  <2> QED
    BY <2>1, <2>3, <2>4
<1>2. CASE /\ \A t \in subscribers : t.user # u
           /\ Begin(a, "subscribe", fresh, NextPendingId, TRUE)
  <2>1. /\ fresh.user = u /\ fresh.pending = NextPendingId
        /\ fresh.sources = {} /\ fresh.states = {}
    OBVIOUS
  <2>2. u \notin deleted
    BY DEF Subscribe
  <2> HIDE DEF fresh
  <2> QED
    BY <1>2, <2>1, <2>2
<1> QED
  BY <1>1, <1>2 DEF Subscribe

\* A request to confirm drops the states of its copy.
LEMMA ConfirmCopies ==
  ASSUME IInv, NEW a \in Slot, NEW p \in asked, Confirm(a, p)
  PROVE  \E s \in subscribers, t \in Subscriber :
           /\ Begin(a, "confirm", t, p.id, FALSE) /\ s.pending = p.id /\ p.id # NoPending
           /\ t.user = s.user /\ t.sources = p.sources /\ t.states = {}
<1>1. PICK s \in subscribers :
        /\ s.pending = p.id
        /\ Begin(a, "confirm", [s EXCEPT !.sources = p.sources, !.states = {},
                                         !.pending = NoPending], p.id, FALSE)
  BY DEF Confirm, ConfirmedSources
<1> DEFINE t == [s EXCEPT !.sources = p.sources, !.states = {}, !.pending = NoPending]
<1>2. s \in Subscriber /\ p.id \in PendingId
  BY DEF IInv, TypeInv, TypeOK
<1>3. t.user = s.user /\ t.sources = p.sources /\ t.states = {}
  BY <1>2 DEF Subscriber
<1>4. p.id # NoPending
  BY <1>2, SubscriptionsAssumption DEF PendingId, NoPending
<1>5. Begin(a, "confirm", t, p.id, FALSE)
  BY <1>1
<1>6. t \in Subscriber
  BY <1>2 DEF Subscriber, PendingId, IInv, TypeInv, TypeOK
<1> HIDE DEF t
<1> QED
  BY <1>1, <1>3, <1>4, <1>5, <1>6

\* A request to unmute changes the states of e in its copy, and nothing else.
Released(st, e) == IF Matches(st, e) THEN [st EXCEPT !.ignoreCoolOff = TRUE] ELSE st
LEMMA UnmuteCopies ==
  ASSUME IInv, NEW a \in Slot, NEW u \in User, NEW e \in Event, Unmute(a, u, e)
  PROVE  \E s \in subscribers, t \in Subscriber :
           /\ Begin(a, "unmute", t, NoPending, FALSE)
           /\ t.user = s.user /\ t.sources = s.sources /\ t.pending = s.pending
           /\ t.states = {Released(st, e) : st \in s.states}
<1>1. PICK s \in subscribers :
        Begin(a, "unmute", [s EXCEPT !.states = {Released(st, e) : st \in @}], NoPending, FALSE)
  BY DEF Unmute, Released
<1> DEFINE t == [s EXCEPT !.states = {Released(st, e) : st \in @}]
<1>2. s \in Subscriber
  BY DEF IInv, TypeInv, TypeOK
<1>3. /\ t.user = s.user /\ t.sources = s.sources /\ t.pending = s.pending
      /\ t.states = {Released(st, e) : st \in s.states}
  BY <1>2 DEF Subscriber
<1>4. Begin(a, "unmute", t, NoPending, FALSE)
  BY <1>1
<1>5. \A st \in s.states : Released(st, e) \in State
  BY <1>2 DEF Subscriber, State, Released
<1>6. t \in Subscriber
  BY <1>2, <1>5 DEF Subscriber
<1> HIDE DEF t
<1> QED
  BY <1>3, <1>4, <1>6

\* The state that a notification of e leaves.
MutedNow(e) == [source |-> e.source, type |-> e.type, time |-> now', ignoreCoolOff |-> FALSE]

\* A notification is of a row, and of events that are not muted in the row.
LEMMA NotificationOf ==
  ASSUME IInv, StartNotify, NEW n \in batch'
  PROVE  \E s \in subscribers :
           /\ n.subscriber.user = s.user /\ n.subscriber.sources = s.sources
           /\ n.subscriber.pending = s.pending
           /\ n.subscriber.states = {st \in s.states : \A e \in n.events : ~Matches(st, e)}
                                      \cup {MutedNow(e) : e \in n.events}
           /\ \A e \in n.events : e.source \in s.sources /\ ~Muted(s, e)
<1>1. PICK events \in SUBSET Event :
        batch' = {[subscriber |-> Updated(s, Published(s, events)),
                   events |-> Published(s, events)] :
                    s \in {s \in subscribers : Published(s, events) # {}}}
  BY DEF StartNotify
<1>2. PICK s \in subscribers :
        n = [subscriber |-> Updated(s, Published(s, events)), events |-> Published(s, events)]
  BY <1>1
<1>3. s \in Subscriber
  BY DEF IInv, TypeInv, TypeOK
<1>4. n.events = Published(s, events) /\ n.subscriber = Updated(s, n.events)
  BY <1>2
<1>5. \A e \in n.events : e.source \in s.sources /\ ~Muted(s, e)
  BY <1>4 DEF Published
<1>6. /\ n.subscriber.user = s.user /\ n.subscriber.sources = s.sources
      /\ n.subscriber.pending = s.pending
      /\ n.subscriber.states = {st \in s.states : \A e \in n.events : ~Matches(st, e)}
                                 \cup {MutedNow(e) : e \in n.events}
  BY <1>3, <1>4 DEF Updated, MutedNow, Subscriber
<1> QED
  BY <1>5, <1>6

\* Saving copies replaces the rows of their users.
LEMMA SavedRows ==
  ASSUME NEW S
  PROVE  /\ S \subseteq Saved(S) /\ Saved(S) \subseteq subscribers \cup S
         /\ \A s \in Saved(S) \ S : s \in subscribers /\ \A t \in S : t.user # s.user
         /\ \A s \in subscribers : \E t \in Saved(S) : t.user = s.user
  BY DEF Saved

\* While requests and notifications are apart, the request in progress is the only
\* one, and no notification is.
LEMMA OnlyRequest ==
  ASSUME IInv, Alone, apart, NEW q \in requests
  PROVE  requests = {q} /\ ~sending /\ batch = {} /\ succeeded = {}
  BY DEF Alone, IInv, TypeInv, Batches
-----------------------------------------------------------------------------
(* The latest confirmation counts: the copy a confirmation is made of has a pending id  *)
(* that is newer than every confirmed one of its user, and while the request is alone   *)
(* no other is confirmed.                                                                *)

\* s has the sources of the latest confirmation of its user, and its pending id is newer.
Latest(s) ==
  \A p \in asked :
    /\ p.user = s.user /\ p.id \in confirmed
    /\ \A r \in asked : r.user = p.user /\ r.id \in confirmed => r.id <= p.id
    => s.sources = p.sources
NewerThanConfirmed(u, id) == \A p \in asked : p.user = u /\ p.id \in confirmed => p.id < id
UpToDate(s) ==
  Latest(s) /\ (s.pending # NoPending => NewerThanConfirmed(s.user, s.pending))

\* What is confirmed was asked for, and who has confirmed has a row unless deleted.
ConfirmedKept ==
  /\ \A i \in confirmed : \E p \in asked : p.id = i
  /\ \A p \in asked : p.id \in confirmed =>
       p.user \in deleted \/ \E s \in subscribers : s.user = p.user

AllUpToDate ==
  apart =>
    /\ \A s \in subscribers \cup succeeded : UpToDate(s)
    /\ \A n \in batch : UpToDate(n.subscriber)
    /\ \A q \in requests : IF q.op = "confirm" THEN NewerThanConfirmed(q.subscriber.user, q.id)
                                               ELSE UpToDate(q.subscriber)

LInv == IInv /\ Alone /\ ConfirmedKept /\ AllUpToDate

\* A step that neither asks nor confirms leaves every copy as good as it was.
LEMMA CopiesKept ==
  ASSUME UNCHANGED <<asked, confirmed>>
  PROVE  /\ \A s : UpToDate(s) => UpToDate(s)'
         /\ \A u, i : NewerThanConfirmed(u, i) => NewerThanConfirmed(u, i)'
  BY DEF UpToDate, Latest, NewerThanConfirmed

\* A copy with the user, the sources and the pending id of a good one is good.
LEMMA SameCopy ==
  ASSUME NEW s, NEW t, UpToDate(t),
         s.user = t.user, s.sources = t.sources, s.pending = t.pending
  PROVE  UpToDate(s)
  BY DEF UpToDate, Latest

LEMMA SubscribeLatest ==
  ASSUME LInv, NEW a \in Slot, NEW u \in User, NEW S \in SUBSET Source, Subscribe(a, u, S)
  PROVE  ConfirmedKept' /\ AllUpToDate'
<1> USE DEF LInv
<1> DEFINE made == [id |-> NextPendingId, user |-> u, sources |-> {s \in S : IsKnown(s)}]
<1>a. asked' = asked \cup {made} /\ made.id = NextPendingId /\ made.user = u
  BY DEF Subscribe
<1> HIDE DEF made
<1>1. PICK new : asked' = asked \cup {new} /\ new.id = NextPendingId /\ new.user = u
  BY <1>a
<1>2. UNCHANGED <<subscribers, deleted, sending, batch, succeeded, confirmed>>
  BY DEF Subscribe, notifier, history
<1>3. \A p \in asked : p.id \in Int /\ p.id < NextPendingId
  <2>1. Cardinality(asked) \in Nat
    BY FS_CardinalityType DEF IInv, TypeInv, Ids
  <2>2. \A p \in asked : p.id \in Int /\ p.id <= Cardinality(asked)
    BY DEF IInv, TypeInv, TypeOK, Ids, PendingId
  <2> QED
    BY <2>1, <2>2 DEF NextPendingId
<1>4. new.id \notin confirmed
  BY <1>1, <1>3 DEF ConfirmedKept
<1>5. \A p \in asked' : p.id \in confirmed' => p \in asked /\ p.id \in confirmed
  BY <1>1, <1>2, <1>4
<1>6. \A s : Latest(s) => Latest(s)'
  BY <1>1, <1>2, <1>5 DEF Latest
<1>7. /\ \A v, i : NewerThanConfirmed(v, i) => NewerThanConfirmed(v, i)'
      /\ \A v : NewerThanConfirmed(v, new.id)'
  BY <1>1, <1>2, <1>3, <1>5 DEF NewerThanConfirmed
<1>8. ConfirmedKept'
  BY <1>1, <1>2, <1>5 DEF ConfirmedKept
<1>9. PICK s, isNew :
        /\ Begin(a, "subscribe", s, NextPendingId, isNew)
        /\ s.user = u /\ s.pending = NextPendingId
        /\ \/ \E t \in subscribers : t.user = u /\ s.sources = t.sources /\ s.states = t.states
           \/ /\ \A t \in subscribers : t.user # u
              /\ s.sources = {} /\ s.states = {}
  BY SubscribeCopies
<1>10. AllUpToDate'
  <2> SUFFICES ASSUME apart' PROVE AllUpToDate'
    BY DEF AllUpToDate
  <2>1. apart /\ requests = {}
    BY <1>9 DEF Begin, Starts
  <2>2. Latest(s)
    <3>1. CASE \E t \in subscribers : t.user = u /\ s.sources = t.sources
      BY <3>1, <1>9, <2>1 DEF AllUpToDate, UpToDate, Latest
    <3>2. CASE \A t \in subscribers : t.user # u
      <4>1. \A p \in asked : p.user = u => p.id \notin confirmed
        BY <3>2, SubscribeCopies DEF ConfirmedKept
      <4> QED
        BY <4>1, <1>9 DEF Latest
    <3> QED
      BY <3>1, <3>2, <1>9
  <2>3. UpToDate(s)'
    BY <2>2, <1>1, <1>6, <1>7, <1>9 DEF UpToDate
  <2>4. \A q \in requests' : q.op = "subscribe" /\ q.subscriber = s
    BY <2>1, <1>9 DEF Begin
  <2>5. \A t : UpToDate(t) => UpToDate(t)'
    BY <1>6, <1>7 DEF UpToDate
  <2> QED
    BY <2>1, <2>3, <2>4, <2>5, <1>2 DEF AllUpToDate
<1> QED
  BY <1>8, <1>10

\* A request that changes a good copy, or is to confirm a newer id.
LEMMA BeginLatest ==
  ASSUME LInv, NEW a, NEW op, NEW s, NEW i, NEW isNew, Begin(a, op, s, i, isNew),
         UNCHANGED <<subscribers, asked, deleted, batch, succeeded, confirmed>>,
         apart => IF op = "confirm" THEN NewerThanConfirmed(s.user, i) ELSE UpToDate(s)
  PROVE  ConfirmedKept' /\ AllUpToDate'
<1> DEFINE new == [slot |-> a, op |-> op, subscriber |-> s, id |-> i, isNew |-> isNew]
<1>1. requests' = requests \cup {new} /\ (apart' => apart)
  BY DEF Begin, Starts
<1>2. new.op = op /\ new.subscriber = s /\ new.id = i
  OBVIOUS
<1> HIDE DEF new
<1> QED
  BY <1>1, <1>2, CopiesKept DEF LInv, ConfirmedKept, AllUpToDate

LEMMA SaveSubscriberLatest ==
  ASSUME LInv, NEW q \in requests, SaveSubscriber(q) PROVE ConfirmedKept' /\ AllUpToDate'
<1> USE DEF LInv
<1> DEFINE c == q.subscriber
<1>1. /\ subscribers' = Saved({c}) /\ requests' = requests \ {q}
      /\ UNCHANGED <<asked, deleted, apart, batch, succeeded>>
      /\ confirmed' = confirmed \cup (IF q.op = "confirm" THEN {q.id} ELSE {})
  BY DEF SaveSubscriber, notifier, course
<1>2. c \in subscribers' /\ \A s \in subscribers : \E t \in subscribers' : t.user = s.user
  BY <1>1, SavedRows
<1>3. \A s \in subscribers' \ {c} : s \in subscribers /\ s.user # c.user
  BY <1>1, SavedRows
<1>4. apart' => apart /\ requests' = {} /\ batch' = {} /\ succeeded' = {}
  BY <1>1, OnlyRequest
<1>5. CASE q.op = "confirm"
  <2>1. PICK p \in asked : p.id = q.id /\ p.user = c.user /\ p.sources = c.sources
    BY <1>5 DEF IInv, Opted, ToBeConfirmed
  <2>2. \A r \in asked : r.id \in confirmed' => r = p \/ r.id \in confirmed
    BY <1>1, <2>1 DEF IInv, TypeInv, Ids
  <2>3. p.id \in confirmed' /\ confirmed \subseteq confirmed'
    BY <1>1, <1>5, <2>1
  <2>4. ConfirmedKept'
    <3>1. ASSUME NEW r \in asked', r.id \in confirmed'
          PROVE  r.user \in deleted' \/ \E s \in subscribers' : s.user = r.user
      <4>1. CASE r = p
        BY <4>1, <1>2, <2>1
      <4>2. CASE r.id \in confirmed
        <5>1. r.user \in deleted \/ \E s \in subscribers : s.user = r.user
          BY <4>2, <1>1 DEF ConfirmedKept
        <5> QED
          BY <5>1, <1>1, <1>2
      <4> QED
        BY <4>1, <4>2, <3>1, <1>1, <2>2
    <3>2. \A i \in confirmed' : \E r \in asked' : r.id = i
      BY <1>1, <1>5, <2>1 DEF ConfirmedKept
    <3> QED
      BY <3>1, <3>2 DEF ConfirmedKept
  <2>5. AllUpToDate'
    <3> SUFFICES ASSUME apart' PROVE \A s \in subscribers' : UpToDate(s)'
      BY <1>4 DEF AllUpToDate
    <3>1. NewerThanConfirmed(c.user, p.id) /\ \A s \in subscribers : UpToDate(s)
      BY <1>4, <1>5, <2>1 DEF AllUpToDate
    <3>2. UpToDate(c)'
      <4>1. ASSUME NEW r \in asked, r.user = c.user, r.id \in confirmed',
                   \A z \in asked : z.user = r.user /\ z.id \in confirmed' => z.id <= r.id
            PROVE  r = p
        <5>1. r.id \in confirmed => r.id < p.id
          BY <3>1, <4>1 DEF NewerThanConfirmed
        <5>2. p.id <= r.id
          BY <4>1, <2>1, <2>3
        <5>3. p.id \in Int /\ r.id \in Int
          BY DEF IInv, TypeInv, TypeOK, PendingId
        <5> QED
          BY <5>1, <5>2, <5>3, <2>2, <4>1
      <4>2. Latest(c)'
        BY <4>1, <2>1, <1>1 DEF Latest
      <4>3. c.pending = NoPending
        BY <1>5 DEF IInv, Opted, ToBeConfirmed
      <4> QED
        BY <4>2, <4>3 DEF UpToDate
    <3>3. ASSUME NEW s \in subscribers, s.user # c.user PROVE UpToDate(s)'
      <4>1. \A r \in asked : r.user = s.user => (r.id \in confirmed' <=> r.id \in confirmed)
        BY <2>1, <2>2, <2>3, <3>3
      <4>2. Latest(s)'
        BY <4>1, <3>1, <1>1 DEF UpToDate, Latest
      <4>3. s.pending # NoPending => NewerThanConfirmed(s.user, s.pending)'
        BY <4>1, <3>1, <1>1 DEF UpToDate, NewerThanConfirmed
      <4> QED
        BY <4>2, <4>3 DEF UpToDate
    <3> QED
      BY <1>3, <3>2, <3>3
  <2> QED
    BY <2>4, <2>5
<1>6. CASE q.op # "confirm"
  <2>1. confirmed' = confirmed
    BY <1>1, <1>6
  <2>2. ConfirmedKept'
    BY <1>1, <1>2, <2>1 DEF ConfirmedKept
  <2>3. AllUpToDate'
    BY <1>1, <1>3, <1>4, <1>6, <2>1, CopiesKept DEF AllUpToDate
  <2> QED
    BY <2>2, <2>3
<1> QED
  BY <1>5, <1>6

LEMMA UnsubscribedLatest ==
  ASSUME LInv, NEW q \in requests, DeleteUser(q) \/ RemoveSubscriber(q) \/ RequestFails(q)
  PROVE  ConfirmedKept' /\ AllUpToDate'
<1>1. UNCHANGED <<asked, confirmed, apart, batch, succeeded>> /\ deleted \subseteq deleted'
  BY DEF DeleteUser, RemoveSubscriber, RequestFails, rows, notifier, history, course
<1>2. /\ subscribers' \subseteq subscribers
      /\ \A s \in subscribers \ subscribers' : s.user \in deleted
  BY DEF DeleteUser, RemoveSubscriber, RequestFails, rows, Without, LInv, Alone
<1>3. \A p \in requests' : p \in requests \/ (p.op = "remove" /\ p.subscriber = q.subscriber
                                              /\ q.op = "deleteUser")
  <2>1. q \in Request
    BY DEF LInv, IInv, TypeInv, TypeOK
  <2> QED
    BY <2>1 DEF DeleteUser, RemoveSubscriber, RequestFails, Request
<1>4. ConfirmedKept'
  BY <1>1, <1>2 DEF LInv, ConfirmedKept
<1>5. AllUpToDate'
  BY <1>1, <1>2, <1>3, CopiesKept DEF LInv, AllUpToDate
<1> QED
  BY <1>4, <1>5

LEMMA NotifyLatest == ASSUME LInv, Notify PROVE ConfirmedKept' /\ AllUpToDate'
<1>1. UNCHANGED <<asked, deleted, requests, confirmed>> /\ (apart' => apart)
  <2>1. CASE StartNotify
    BY <2>1 DEF StartNotify, Starts, rows, history
  <2>2. ASSUME NEW n \in batch, Send(n) \/ SendFails(n)
        PROVE  UNCHANGED <<asked, deleted, requests, confirmed, apart>>
    BY <2>2 DEF Send, SendFails, rows, course
  <2>3. CASE SaveNotified \/ NotifyFails
    BY <2>3 DEF SaveNotified, NotifyFails, rows, history, course
  <2> QED
    BY <2>1, <2>2, <2>3 DEF Notify
<1>2. CASE StartNotify
  <2>1. UNCHANGED <<subscribers, succeeded>>
    BY <1>2 DEF StartNotify, rows
  <2>2. \A n \in batch' : apart => UpToDate(n.subscriber)
    BY <1>2, NotificationOf, SameCopy DEF LInv, AllUpToDate
  <2> QED
    BY <1>1, <2>1, <2>2, CopiesKept DEF LInv, ConfirmedKept, AllUpToDate
<1>3. ASSUME NEW n \in batch, Send(n) \/ SendFails(n) PROVE ConfirmedKept' /\ AllUpToDate'
  <2>1. /\ batch' \subseteq batch /\ succeeded' \subseteq succeeded \cup {n.subscriber}
        /\ UNCHANGED subscribers
    BY <1>3 DEF Send, SendFails, SucceededWithout, rows
  <2> QED
    BY <1>1, <2>1, CopiesKept DEF LInv, ConfirmedKept, AllUpToDate
<1>4. CASE SaveNotified
  <2>1. subscribers' = Saved(succeeded) /\ succeeded' = {} /\ UNCHANGED batch
    BY <1>4 DEF SaveNotified
  <2>2. /\ subscribers' \subseteq subscribers \cup succeeded
        /\ \A s \in subscribers : \E t \in subscribers' : t.user = s.user
    BY <2>1, SavedRows
  <2> QED
    BY <1>1, <2>1, <2>2, CopiesKept DEF LInv, ConfirmedKept, AllUpToDate
<1>5. CASE NotifyFails
  <2>1. batch' = {} /\ succeeded' = {} /\ UNCHANGED subscribers
    BY <1>5 DEF NotifyFails, rows
  <2> QED
    BY <1>1, <2>1, CopiesKept DEF LInv, ConfirmedKept, AllUpToDate
<1> QED
  BY <1>2, <1>3, <1>4, <1>5 DEF Notify

LEMMA LatestStep == LInv /\ [Next]_vars => LInv'
<1> SUFFICES ASSUME LInv, [Next]_vars PROVE LInv'
  OBVIOUS
<1> SUFFICES ConfirmedKept' /\ AllUpToDate'
  BY StepInv, AloneStep DEF LInv
<1>1. ASSUME NEW a \in Slot, HandleRequest(a) PROVE ConfirmedKept' /\ AllUpToDate'
  <2>1. CASE \E u \in User : \E S \in SUBSET Source : Subscribe(a, u, S)
    BY <2>1, SubscribeLatest
  <2>2. ASSUME NEW u \in User, NEW e \in Event, Unmute(a, u, e)
        PROVE  ConfirmedKept' /\ AllUpToDate'
    <3>1. PICK s \in subscribers, t \in Subscriber :
            /\ Begin(a, "unmute", t, NoPending, FALSE)
            /\ t.user = s.user /\ t.sources = s.sources /\ t.pending = s.pending
      BY <2>2, UnmuteCopies DEF LInv
    <3>2. UNCHANGED <<subscribers, asked, deleted, batch, succeeded, confirmed>>
      BY <2>2 DEF Unmute, rows, notifier, history
    <3>3. apart => UpToDate(t)
      BY <3>1, SameCopy DEF LInv, AllUpToDate
    <3> QED
      BY <3>1, <3>2, <3>3, BeginLatest
  <2>3. ASSUME NEW u \in User, Unsubscribe(a, u) PROVE ConfirmedKept' /\ AllUpToDate'
    <3>1. PICK s \in subscribers : Begin(a, "deleteUser", s, NoPending, FALSE)
      BY <2>3 DEF Unsubscribe
    <3>2. UNCHANGED <<subscribers, asked, deleted, batch, succeeded, confirmed>>
      BY <2>3 DEF Unsubscribe, rows, notifier, history
    <3>3. apart => UpToDate(s)
      BY DEF LInv, AllUpToDate
    <3> QED
      BY <3>1, <3>2, <3>3, BeginLatest
  <2>4. ASSUME NEW p \in asked, Confirm(a, p) PROVE ConfirmedKept' /\ AllUpToDate'
    <3>1. PICK s \in subscribers, t \in Subscriber :
            /\ Begin(a, "confirm", t, p.id, FALSE) /\ s.pending = p.id /\ p.id # NoPending
            /\ t.user = s.user /\ t.sources = p.sources /\ t.states = {}
      BY <2>4, ConfirmCopies DEF LInv
    <3>2. UNCHANGED <<subscribers, asked, deleted, batch, succeeded, confirmed>>
      BY <2>4 DEF Confirm, rows, notifier, history
    <3>3. apart => NewerThanConfirmed(t.user, p.id)
      BY <3>1 DEF LInv, AllUpToDate, UpToDate
    <3> QED
      BY <3>1, <3>2, <3>3, BeginLatest
  <2> QED
    BY <1>1, <2>1, <2>2, <2>3, <2>4 DEF HandleRequest
<1>2. ASSUME NEW q \in requests, Proceed(q) PROVE ConfirmedKept' /\ AllUpToDate'
  BY <1>2, SaveSubscriberLatest, UnsubscribedLatest DEF Proceed
<1>3. CASE UNCHANGED vars
  <2>1. UNCHANGED <<subscribers, asked, deleted, requests, batch, succeeded, confirmed, apart>>
    BY <1>3 DEF vars, rows, notifier, history, course
  <2>2. ConfirmedKept'
    BY <2>1 DEF LInv, ConfirmedKept
  <2>3. AllUpToDate'
    BY <2>1, CopiesKept DEF LInv, AllUpToDate
  <2> QED
    BY <2>2, <2>3
<1>4. CASE Notify
  BY <1>4, NotifyLatest
<1> QED
  BY <1>1, <1>2, <1>3, <1>4 DEF Next

\* While requests and notifications are apart, a user is subscribed to what they
\* confirmed last: no save brings back older subscriptions
\* (ConfirmSubscription.execute, Notify.execute and the saves of their copies).
THEOREM LatestCounts == Spec => []LatestConfirmationCounts
<1>1. Init => LInv
  BY InitInv, InitAlone DEF Init, LInv, ConfirmedKept, AllUpToDate
<1>2. LInv => LatestConfirmationCounts
  BY DEF LInv, AllUpToDate, UpToDate, Latest, LatestConfirmationCounts, LatestConfirmed
<1> QED
  BY <1>1, <1>2, LatestStep, PTL DEF Spec
-----------------------------------------------------------------------------
(* What is unmuted stays so until it is delivered: a copy with a state of an event that *)
(* is released keeps it unmuted, unless its notification is about to tell of the event.  *)

StateKey(u, st) == [user |-> u, source |-> st.source, type |-> st.type]

\* No copy has two states of one event, and one with new subscriptions has none.
OneStateEach(s) ==
  \A st, z \in s.states : st.source = z.source /\ st.type = z.type => st = z
AllSingle ==
  /\ \A s \in subscribers \cup succeeded : OneStateEach(s)
  /\ \A n \in batch : OneStateEach(n.subscriber)
  /\ \A q \in requests :
       OneStateEach(q.subscriber) /\ (q.op = "confirm" => q.subscriber.states = {})

Unmuted(s) == \A st \in s.states : StateKey(s.user, st) \in released => st.ignoreCoolOff
UnmutedOrTold(n) ==
  \A st \in n.subscriber.states : StateKey(n.subscriber.user, st) \in released =>
    st.ignoreCoolOff \/ \E e \in n.events : Matches(st, e)
AllUnmuted ==
  apart =>
    /\ \A s \in subscribers \cup succeeded : Unmuted(s)
    /\ \A n \in batch : UnmutedOrTold(n)
    /\ \A q \in requests : Unmuted(q.subscriber)

UInv == IInv /\ Alone /\ AllSingle /\ AllUnmuted

\* A step after which no more is released leaves every copy as good as it was.
LEMMA UnmutedKept ==
  ASSUME released' \subseteq released
  PROVE  /\ \A s : Unmuted(s) => Unmuted(s)'
         /\ \A n : UnmutedOrTold(n) => UnmutedOrTold(n)'
  BY DEF Unmuted, UnmutedOrTold, StateKey, Matches

LEMMA BeginUnmuted ==
  ASSUME UInv, NEW a, NEW op, NEW s, NEW i, NEW isNew, Begin(a, op, s, i, isNew),
         UNCHANGED <<subscribers, batch, succeeded, released>>,
         OneStateEach(s), op = "confirm" => s.states = {},
         apart => Unmuted(s)
  PROVE  AllSingle' /\ AllUnmuted'
<1> DEFINE new == [slot |-> a, op |-> op, subscriber |-> s, id |-> i, isNew |-> isNew]
<1>1. requests' = requests \cup {new} /\ (apart' => apart)
  BY DEF Begin, Starts
<1>2. new.op = op /\ new.subscriber = s
  OBVIOUS
<1> HIDE DEF new
<1>3. AllSingle'
  BY <1>1, <1>2 DEF UInv, AllSingle, OneStateEach
<1>4. AllUnmuted'
  BY <1>1, <1>2, UnmutedKept DEF UInv, AllUnmuted
<1> QED
  BY <1>3, <1>4

LEMMA HandleUnmuted ==
  ASSUME UInv, NEW a \in Slot, HandleRequest(a) PROVE AllSingle' /\ AllUnmuted'
<1> USE DEF UInv
<1>1. UNCHANGED <<subscribers, batch, succeeded, released>>
  BY HandleBegins DEF notifier, history
<1>2. ASSUME NEW u \in User, NEW S \in SUBSET Source, Subscribe(a, u, S)
      PROVE  AllSingle' /\ AllUnmuted'
  <2>1. PICK s, isNew :
          /\ Begin(a, "subscribe", s, NextPendingId, isNew)
          /\ s.user = u
          /\ \/ \E t \in subscribers :
                  t.user = u /\ s.sources = t.sources /\ s.states = t.states
             \/ s.states = {}
    BY <1>2, SubscribeCopies
  <2>2. OneStateEach(s) /\ (apart => Unmuted(s))
    BY <2>1 DEF AllSingle, AllUnmuted, OneStateEach, Unmuted
  <2> QED
    BY <1>1, <2>1, <2>2, BeginUnmuted
<1>3. ASSUME NEW p \in asked, Confirm(a, p) PROVE AllSingle' /\ AllUnmuted'
  <2>1. PICK t : Begin(a, "confirm", t, p.id, FALSE) /\ t.states = {}
    BY <1>3, ConfirmCopies
  <2>2. OneStateEach(t) /\ Unmuted(t)
    BY <2>1 DEF OneStateEach, Unmuted
  <2> QED
    BY <1>1, <2>1, <2>2, BeginUnmuted
<1>4. ASSUME NEW u \in User, NEW e \in Event, Unmute(a, u, e) PROVE AllSingle' /\ AllUnmuted'
  <2>1. PICK s \in subscribers, t \in Subscriber :
          /\ Begin(a, "unmute", t, NoPending, FALSE)
          /\ t.user = s.user /\ t.sources = s.sources /\ t.pending = s.pending
          /\ t.states = {Released(st, e) : st \in s.states}
    BY <1>4, UnmuteCopies
  <2>2. \A st \in s.states :
          /\ Released(st, e).source = st.source /\ Released(st, e).type = st.type
          /\ Released(st, e) = st \/ Released(st, e).ignoreCoolOff
    BY DEF IInv, TypeInv, TypeOK, Subscriber, State, Released
  <2>3. OneStateEach(t)
    BY <2>1, <2>2 DEF AllSingle, OneStateEach
  <2>4. apart => Unmuted(t)
    BY <2>1, <2>2 DEF AllUnmuted, Unmuted, StateKey
  <2> QED
    BY <1>1, <2>1, <2>3, <2>4, BeginUnmuted
<1>5. ASSUME NEW u \in User, Unsubscribe(a, u) PROVE AllSingle' /\ AllUnmuted'
  <2>1. PICK s \in subscribers : Begin(a, "deleteUser", s, NoPending, FALSE)
    BY <1>5 DEF Unsubscribe
  <2>2. OneStateEach(s) /\ (apart => Unmuted(s))
    BY DEF AllSingle, AllUnmuted
  <2> QED
    BY <1>1, <2>1, <2>2, BeginUnmuted
<1> QED
  BY <1>2, <1>3, <1>4, <1>5 DEF HandleRequest

\* The saved copy agrees with what it releases.
LEMMA SaveSubscriberUnmuted ==
  ASSUME UInv, NEW q \in requests, SaveSubscriber(q) PROVE AllSingle' /\ AllUnmuted'
<1> USE DEF UInv
<1> DEFINE c == q.subscriber
<1>1. /\ subscribers' = Saved({c}) /\ requests' = requests \ {q}
      /\ released' = released \cup ReleasedBy(q)
      /\ UNCHANGED <<batch, succeeded, apart>>
  BY DEF SaveSubscriber, notifier, course
<1>2. c \in subscribers' /\ \A s \in subscribers' \ {c} : s \in subscribers /\ s.user # c.user
  BY <1>1, SavedRows
<1>3. AllSingle'
  BY <1>1, <1>2 DEF AllSingle, OneStateEach
<1>4. AllUnmuted'
  <2> SUFFICES ASSUME apart' PROVE \A s \in subscribers' : Unmuted(s)'
    BY <1>1, OnlyRequest DEF AllUnmuted
  <2>1. ASSUME NEW s, NEW st, StateKey(s, st) \in ReleasedBy(q)
        PROVE  /\ s = c.user
               /\ \/ q.op = "confirm"
                  \/ \E z \in c.states : z.source = st.source /\ z.type = st.type /\ z.ignoreCoolOff
    BY <2>1 DEF ReleasedBy, StateKey, Matches
  <2>2. ASSUME NEW s \in subscribers, s.user # c.user PROVE Unmuted(s)'
    BY <2>1, <2>2, <1>1 DEF AllUnmuted, Unmuted, StateKey
  <2>3. Unmuted(c)'
    <3> SUFFICES ASSUME NEW st \in c.states, StateKey(c.user, st) \in released'
                 PROVE  st.ignoreCoolOff
      BY DEF Unmuted, StateKey
    <3>1. CASE StateKey(c.user, st) \in released
      BY <3>1, <1>1 DEF AllUnmuted, Unmuted
    <3>2. CASE StateKey(c.user, st) \in ReleasedBy(q)
      <4>1. \E z \in c.states : z.source = st.source /\ z.type = st.type /\ z.ignoreCoolOff
        BY <2>1, <3>2 DEF AllSingle
      <4> QED
        BY <4>1 DEF AllSingle, OneStateEach
    <3> QED
      BY <3>1, <3>2, <1>1
  <2> QED
    BY <1>2, <2>2, <2>3
<1> QED
  BY <1>3, <1>4

LEMMA UnsubscribedUnmuted ==
  ASSUME UInv, NEW q \in requests, DeleteUser(q) \/ RemoveSubscriber(q) \/ RequestFails(q)
  PROVE  AllSingle' /\ AllUnmuted'
<1>1. UNCHANGED <<released, apart, batch, succeeded>> /\ subscribers' \subseteq subscribers
  BY DEF DeleteUser, RemoveSubscriber, RequestFails, rows, notifier, history, course, Without
<1>2. \A p \in requests' : p \in requests \/ (p.op = "remove" /\ p.subscriber = q.subscriber)
  <2>1. q \in Request
    BY DEF UInv, IInv, TypeInv, TypeOK
  <2> QED
    BY <2>1 DEF DeleteUser, RemoveSubscriber, RequestFails, Request
<1>3. AllSingle'
  BY <1>1, <1>2 DEF UInv, AllSingle, OneStateEach
<1>4. AllUnmuted'
  BY <1>1, <1>2, UnmutedKept DEF UInv, AllUnmuted
<1> QED
  BY <1>3, <1>4

LEMMA NotifyUnmuted == ASSUME UInv, Notify PROVE AllSingle' /\ AllUnmuted'
<1> USE DEF UInv
<1>1. CASE StartNotify
  <2>1. UNCHANGED <<subscribers, requests, succeeded, released>> /\ (apart' => apart)
    BY <1>1 DEF StartNotify, Starts, rows, history
  <2>2. ASSUME NEW n \in batch'
        PROVE  OneStateEach(n.subscriber) /\ (apart => UnmutedOrTold(n))
    <3>1. PICK s \in subscribers :
            /\ n.subscriber.user = s.user
            /\ n.subscriber.states = {st \in s.states : \A e \in n.events : ~Matches(st, e)}
                                       \cup {MutedNow(e) : e \in n.events}
      BY <1>1, <2>2, NotificationOf
    <3>2. \A e \in n.events : Matches(MutedNow(e), e)
      BY DEF Matches, MutedNow
    <3>3. \A e, d \in n.events :
            MutedNow(e).source = MutedNow(d).source /\ MutedNow(e).type = MutedNow(d).type
            => MutedNow(e) = MutedNow(d)
      BY DEF MutedNow
    <3>4. \A st \in s.states, d \in n.events : (\A e \in n.events : ~Matches(st, e)) =>
            ~(st.source = MutedNow(d).source /\ st.type = MutedNow(d).type)
      BY DEF Matches, MutedNow
    <3>5. OneStateEach(n.subscriber)
      <4> SUFFICES ASSUME NEW st \in n.subscriber.states, NEW z \in n.subscriber.states,
                          st.source = z.source, st.type = z.type
                   PROVE  st = z
        BY DEF OneStateEach
      <4> DEFINE kept == {x \in s.states : \A e \in n.events : ~Matches(x, e)}
      <4>1. CASE st \in kept /\ z \in kept
        BY <4>1 DEF AllSingle, OneStateEach
      <4>2. CASE \E e, d \in n.events : st = MutedNow(e) /\ z = MutedNow(d)
        BY <4>2, <3>3
      <4>3. CASE st \in kept /\ \E d \in n.events : z = MutedNow(d)
        BY <4>3, <3>4
      <4>4. CASE z \in kept /\ \E d \in n.events : st = MutedNow(d)
        BY <4>4, <3>4
      <4> QED
        BY <4>1, <4>2, <4>3, <4>4, <3>1
    <3>6. apart => UnmutedOrTold(n)
      BY <3>1, <3>2 DEF AllUnmuted, Unmuted, UnmutedOrTold
    <3> QED
      BY <3>5, <3>6
  <2>3. AllSingle'
    BY <2>1, <2>2 DEF AllSingle, OneStateEach
  <2>4. AllUnmuted'
    BY <2>1, <2>2, UnmutedKept DEF AllUnmuted
  <2> QED
    BY <2>3, <2>4
<1>2. ASSUME NEW n \in batch, Send(n) \/ SendFails(n) PROVE AllSingle' /\ AllUnmuted'
  <2>1. /\ batch' = batch \ {n} /\ released' \subseteq released
        /\ UNCHANGED <<subscribers, requests, apart>>
        /\ \/ succeeded' = succeeded
           \/ succeeded' = succeeded \cup {n.subscriber} /\ released' = released \ Told(n)
    BY <1>2 DEF Send, SendFails, SucceededWithout, rows, course
  <2>2. AllSingle'
    BY <2>1 DEF AllSingle, OneStateEach
  <2>3. ASSUME released' = released \ Told(n), apart PROVE Unmuted(n.subscriber)'
    <3>1. \A st \in n.subscriber.states, e \in n.events :
            Matches(st, e) => StateKey(n.subscriber.user, st) \in Told(n)
      BY DEF Matches, StateKey, Told
    <3> QED
      BY <2>3, <3>1 DEF AllUnmuted, UnmutedOrTold, Unmuted, StateKey
  <2>4. AllUnmuted'
    BY <2>1, <2>3, UnmutedKept DEF AllUnmuted
  <2> QED
    BY <2>2, <2>4
<1>3. CASE SaveNotified
  <2>1. /\ subscribers' = Saved(succeeded) /\ succeeded' = {}
        /\ UNCHANGED <<batch, requests, released, apart>>
    BY <1>3 DEF SaveNotified, history, course
  <2>2. subscribers' \subseteq subscribers \cup succeeded
    BY <2>1, SavedRows
  <2>3. AllSingle'
    BY <2>1, <2>2 DEF AllSingle, OneStateEach
  <2>4. AllUnmuted'
    BY <2>1, <2>2, UnmutedKept DEF AllUnmuted
  <2> QED
    BY <2>3, <2>4
<1>4. CASE NotifyFails
  <2>1. batch' = {} /\ succeeded' = {} /\ UNCHANGED <<subscribers, requests, released, apart>>
    BY <1>4 DEF NotifyFails, rows, history
  <2>2. AllSingle'
    BY <2>1 DEF AllSingle, OneStateEach
  <2>3. AllUnmuted'
    BY <2>1, UnmutedKept DEF AllUnmuted
  <2> QED
    BY <2>2, <2>3
<1> QED
  BY <1>1, <1>2, <1>3, <1>4 DEF Notify

LEMMA UnmutedStep == UInv /\ [Next]_vars => UInv'
<1> SUFFICES ASSUME UInv, [Next]_vars PROVE UInv'
  OBVIOUS
<1> SUFFICES AllSingle' /\ AllUnmuted'
  BY StepInv, AloneStep DEF UInv
<1>1. ASSUME NEW a \in Slot, HandleRequest(a) PROVE AllSingle' /\ AllUnmuted'
  BY <1>1, HandleUnmuted
<1>2. ASSUME NEW q \in requests, Proceed(q) PROVE AllSingle' /\ AllUnmuted'
  BY <1>2, SaveSubscriberUnmuted, UnsubscribedUnmuted DEF Proceed
<1>3. CASE Notify
  BY <1>3, NotifyUnmuted
<1>4. CASE UNCHANGED vars
  <2>1. UNCHANGED <<subscribers, requests, batch, succeeded, released, apart>>
    BY <1>4 DEF vars, rows, notifier, history, course
  <2>2. AllSingle'
    BY <2>1 DEF UInv, AllSingle, OneStateEach
  <2>3. AllUnmuted'
    BY <2>1, UnmutedKept DEF UInv, AllUnmuted
  <2> QED
    BY <2>2, <2>3
<1> QED
  BY <1>1, <1>2, <1>3, <1>4 DEF Next

\* While requests and notifications are apart, what a user has unmuted is not muted again
\* before they are told of it (UnmuteNotification.execute, and Notify.execute, which
\* changes the states of what it sends).
THEOREM UnmutedTillTold == Spec => []UnmutedUntilDelivered
<1>1. Init => UInv
  BY InitInv, InitAlone DEF Init, UInv, AllSingle, AllUnmuted
<1>2. UInv => UnmutedUntilDelivered
  BY DEF UInv, AllUnmuted, Unmuted, StateKey, UnmutedUntilDelivered
<1> QED
  BY <1>1, <1>2, UnmutedStep, PTL DEF Spec
-----------------------------------------------------------------------------
(* Not again during the cool-off period: a row that is loaded for a notification is      *)
(* muted for all that its user was told of, because while all goes well one at a time a   *)
(* row is saved with the states of what was sent before it is loaded again.               *)

\* s is muted for what its user was told of and it subscribes to, since it was told last,
\* but for what is released.
Heeds(s, told, free) ==
  \A d \in told : d.user = s.user /\ d.source \in s.sources /\ StateKey(d.user, d) \notin free =>
    \E st \in s.states : Matches(st, d) /\ ~st.ignoreCoolOff /\ d.time <= st.time

\* Nothing a notification tells of was told in the period before, unless it is released.
Due(n) ==
  \A e \in n.events, d \in delivered : d.user = n.subscriber.user /\ Matches(d, e) =>
    StateKey(d.user, d) \in released \/ d.time + CoolOff < now
\* What it tells of is muted from now on.
MutesTold(n) ==
  \A e \in n.events : \E st \in n.subscriber.states :
    Matches(st, e) /\ ~st.ignoreCoolOff /\ st.time = now

\* A row that a copy in succeeded replaces need not heed what that copy was sent for.
RowsHeed ==
  \A s \in subscribers : (\A t \in succeeded : t.user # s.user) => Heeds(s, delivered, released)
CopiesHeed ==
  /\ \A s \in succeeded : Heeds(s, delivered, released)
  /\ \A q \in requests : Heeds(q.subscriber, delivered, released \cup ReleasedBy(q))
  /\ \A n \in batch : Heeds(n.subscriber, delivered, released) /\ Due(n) /\ MutesTold(n)
AllHeeded == apart /\ recorded => RowsHeed /\ CopiesHeed

ToldBefore == \A d \in delivered : d.time <= now

CInv == IInv /\ Alone /\ ToldBefore /\ AllHeeded

LEMMA HeedsMore ==
  ASSUME NEW s, NEW told, NEW free, NEW more, free \subseteq more, Heeds(s, told, free)
  PROVE  Heeds(s, told, more)
  BY DEF Heeds

\* Beginning a request while nothing else is in progress.
LEMMA BeginHeeds ==
  ASSUME CInv, NEW a, NEW op, NEW s, NEW i, NEW isNew, Begin(a, op, s, i, isNew),
         UNCHANGED <<subscribers, notifier, released>>,
         apart /\ recorded /\ RowsHeed /\ succeeded = {} =>
           Heeds(s, delivered, released \cup
             ReleasedBy([slot |-> a, op |-> op, subscriber |-> s, id |-> i, isNew |-> isNew]))
  PROVE  ToldBefore' /\ AllHeeded'
<1> DEFINE new == [slot |-> a, op |-> op, subscriber |-> s, id |-> i, isNew |-> isNew]
<1>1. UNCHANGED <<subscribers, now, sending, batch, succeeded, delivered, released, recorded>>
  BY DEF notifier, Begin, Starts
<1>2. requests' = requests \cup {new} /\ (apart' => apart /\ requests = {} /\ ~sending)
  BY DEF Begin, Starts
<1>3. ~sending => batch = {} /\ succeeded = {}
  BY DEF CInv, IInv, TypeInv, Batches
<1>4. apart' /\ recorded' => Heeds(new.subscriber, delivered, released \cup ReleasedBy(new))
  BY <1>1, <1>2, <1>3 DEF CInv, AllHeeded
<1> HIDE DEF new
<1>5. ToldBefore'
  BY <1>1 DEF CInv, ToldBefore
<1>6. AllHeeded'
  <2> SUFFICES ASSUME apart', recorded' PROVE RowsHeed' /\ CopiesHeed'
    BY DEF AllHeeded
  <2>1. apart /\ recorded /\ requests' = {new} /\ batch' = {} /\ succeeded' = {}
    BY <1>1, <1>2, <1>3
  <2>2. RowsHeed'
    BY <1>1, <2>1 DEF CInv, AllHeeded, RowsHeed
  <2>3. ReleasedBy(new)' = ReleasedBy(new)
    BY DEF ReleasedBy, Matches
  <2>4. CopiesHeed'
    BY <1>1, <1>4, <2>1, <2>3 DEF CopiesHeed
  <2> QED
    BY <2>2, <2>4
<1> QED
  BY <1>5, <1>6

LEMMA HandleHeeds ==
  ASSUME CInv, NEW a \in Slot, HandleRequest(a) PROVE ToldBefore' /\ AllHeeded'
<1> USE DEF CInv
<1>1. UNCHANGED <<subscribers, notifier, released>>
  BY HandleBegins DEF history
<1>a. ASSUME RowsHeed, succeeded = {}, NEW s \in subscribers PROVE Heeds(s, delivered, released)
  BY <1>a DEF RowsHeed
<1>2. ASSUME NEW u \in User, NEW S \in SUBSET Source, Subscribe(a, u, S)
      PROVE  ToldBefore' /\ AllHeeded'
  <2>1. PICK s, isNew :
          /\ Begin(a, "subscribe", s, NextPendingId, isNew)
          /\ s.user = u
          /\ \/ \E t \in subscribers :
                  t.user = u /\ s.sources = t.sources /\ s.states = t.states
             \/ s.sources = {}
    BY <1>2, SubscribeCopies
  <2>2. RowsHeed /\ succeeded = {} => Heeds(s, delivered, released)
    BY <1>a, <2>1 DEF Heeds
  <2> QED
    BY <1>1, <2>1, <2>2, HeedsMore, BeginHeeds
<1>3. ASSUME NEW p \in asked, Confirm(a, p) PROVE ToldBefore' /\ AllHeeded'
  <2>1. PICK t : Begin(a, "confirm", t, p.id, FALSE)
    BY <1>3, ConfirmCopies
  <2> DEFINE new == [slot |-> a, op |-> "confirm", subscriber |-> t, id |-> p.id, isNew |-> FALSE]
  <2>2. \A d \in delivered : d.user = t.user /\ d.source \in t.sources =>
          StateKey(d.user, d) \in ReleasedBy(new)
    BY DEF IInv, TypeInv, TypeOK, StateKey, ReleasedBy
  <2>3. Heeds(t, delivered, released \cup ReleasedBy(new))
    BY <2>2 DEF Heeds
  <2> QED
    BY <1>1, <2>1, <2>3, BeginHeeds
<1>4. ASSUME NEW u \in User, NEW e \in Event, Unmute(a, u, e) PROVE ToldBefore' /\ AllHeeded'
  <2>1. PICK s \in subscribers, t \in Subscriber :
          /\ Begin(a, "unmute", t, NoPending, FALSE)
          /\ t.user = s.user /\ t.sources = s.sources /\ t.pending = s.pending
          /\ t.states = {Released(st, e) : st \in s.states}
    BY <1>4, UnmuteCopies
  <2> DEFINE new == [slot |-> a, op |-> "unmute", subscriber |-> t, id |-> NoPending,
                     isNew |-> FALSE]
  <2>2. \A st \in s.states : Released(st, e) \in t.states
    BY <2>1
  <2>3. \A st \in s.states :
          Matches(st, e) => Released(st, e).ignoreCoolOff /\ Matches(Released(st, e), st)
    BY DEF IInv, TypeInv, TypeOK, Subscriber, State, Released, Matches
  <2>4. \A st \in s.states : ~Matches(st, e) => Released(st, e) = st
    BY DEF Released
  <2>5. ASSUME RowsHeed, succeeded = {}, NEW d \in delivered, d.user = t.user,
               d.source \in t.sources, StateKey(d.user, d) \notin released \cup ReleasedBy(new)
        PROVE  \E st \in t.states : Matches(st, d) /\ ~st.ignoreCoolOff /\ d.time <= st.time
    <3>1. PICK st \in s.states : Matches(st, d) /\ ~st.ignoreCoolOff /\ d.time <= st.time
      BY <1>a, <2>1, <2>5 DEF Heeds
    <3>2. ~Matches(st, e)
      <4> SUFFICES ASSUME Matches(st, e) PROVE StateKey(d.user, d) \in ReleasedBy(new)
        BY <2>5
      <4>1. /\ Released(st, e) \in t.states /\ Released(st, e).ignoreCoolOff
            /\ Matches(Released(st, e), StateKey(d.user, d))
        BY <2>2, <2>3, <3>1 DEF Matches, StateKey
      <4>2. StateKey(d.user, d) \in [user : {t.user}, source : Source, type : EventType]
        BY <2>5 DEF IInv, TypeInv, TypeOK, StateKey
      <4> QED
        BY <4>1, <4>2 DEF ReleasedBy
    <3> QED
      BY <2>2, <2>4, <3>1, <3>2
  <2>6. RowsHeed /\ succeeded = {} => Heeds(t, delivered, released \cup ReleasedBy(new))
    BY <2>5 DEF Heeds
  <2> QED
    BY <1>1, <2>1, <2>6, BeginHeeds
<1>5. ASSUME NEW u \in User, Unsubscribe(a, u) PROVE ToldBefore' /\ AllHeeded'
  <2>1. PICK s \in subscribers : Begin(a, "deleteUser", s, NoPending, FALSE)
    BY <1>5 DEF Unsubscribe
  <2> QED
    BY <1>1, <1>a, <2>1, HeedsMore, BeginHeeds
<1> QED
  BY <1>2, <1>3, <1>4, <1>5 DEF HandleRequest

LEMMA SaveSubscriberHeeds ==
  ASSUME CInv, NEW q \in requests, SaveSubscriber(q) PROVE ToldBefore' /\ AllHeeded'
<1> USE DEF CInv
<1> DEFINE c == q.subscriber
<1>1. /\ subscribers' = Saved({c}) /\ requests' = requests \ {q}
      /\ released' = released \cup ReleasedBy(q)
      /\ UNCHANGED <<now, sending, batch, succeeded, delivered, apart, recorded>>
  BY DEF SaveSubscriber, notifier, course
<1>2. \A s \in subscribers' \ {c} : s \in subscribers
  BY <1>1, SavedRows
<1>3. ToldBefore'
  BY <1>1 DEF ToldBefore
<1>4. AllHeeded'
  <2> SUFFICES ASSUME apart', recorded' PROVE RowsHeed' /\ CopiesHeed'
    BY DEF AllHeeded
  <2>1. requests' = {} /\ batch' = {} /\ succeeded' = {} /\ succeeded = {}
    BY <1>1, OnlyRequest
  <2>2. \A s \in subscribers : Heeds(s, delivered, released)
    BY <1>1, <2>1 DEF AllHeeded, RowsHeed
  <2>3. Heeds(c, delivered, released')
    BY <1>1 DEF AllHeeded, CopiesHeed
  <2>4. \A s \in subscribers' : Heeds(s, delivered, released')
    BY <1>1, <1>2, <2>2, <2>3, HeedsMore
  <2> QED
    BY <1>1, <2>1, <2>4 DEF RowsHeed, CopiesHeed
<1> QED
  BY <1>3, <1>4

LEMMA UnsubscribedHeeds ==
  ASSUME CInv, NEW q \in requests, DeleteUser(q) \/ RemoveSubscriber(q) \/ RequestFails(q)
  PROVE  ToldBefore' /\ AllHeeded'
<1> USE DEF CInv
<1>1. /\ UNCHANGED <<now, batch, succeeded, delivered, released, apart, recorded>>
      /\ subscribers' \subseteq subscribers
  BY DEF DeleteUser, RemoveSubscriber, RequestFails, rows, notifier, history, course, Without
<1>2. \A p \in requests' : p \in requests \/ (p.op = "remove" /\ p.subscriber = q.subscriber
                                              /\ q.op = "deleteUser")
  <2>1. q \in Request
    BY DEF IInv, TypeInv, TypeOK
  <2> QED
    BY <2>1 DEF DeleteUser, RemoveSubscriber, RequestFails, Request
<1>3. ToldBefore'
  BY <1>1 DEF ToldBefore
<1>4. AllHeeded'
  <2> SUFFICES ASSUME apart', recorded' PROVE RowsHeed' /\ CopiesHeed'
    BY DEF AllHeeded
  <2>1. RowsHeed /\ CopiesHeed
    BY <1>1 DEF AllHeeded
  <2>2. RowsHeed'
    BY <1>1, <2>1 DEF RowsHeed
  <2>3. \A p \in requests : p.op = "deleteUser" => ReleasedBy(p) = {}
    BY DEF ReleasedBy
  <2>4. ASSUME NEW p \in requests'
        PROVE  Heeds(p.subscriber, delivered, released \cup ReleasedBy(p))
    <3>1. CASE p \in requests
      BY <3>1, <2>1 DEF CopiesHeed
    <3>2. CASE p.subscriber = q.subscriber /\ q.op = "deleteUser"
      <4>1. Heeds(p.subscriber, delivered, released)
        BY <3>2, <2>1, <2>3 DEF CopiesHeed
      <4> QED
        BY <4>1, HeedsMore
    <3> QED
      BY <3>1, <3>2, <1>2
  <2>5. \A p \in requests' : ReleasedBy(p)' = ReleasedBy(p)
    BY DEF ReleasedBy, Matches
  <2>6. \A n \in batch : (Due(n) => Due(n)') /\ (MutesTold(n) => MutesTold(n)')
    BY <1>1 DEF Due, MutesTold, Matches, StateKey
  <2>7. CopiesHeed'
    BY <1>1, <2>1, <2>4, <2>5, <2>6 DEF CopiesHeed
  <2> QED
    BY <2>2, <2>7
<1> QED
  BY <1>3, <1>4

LEMMA StartNotifyHeeds == ASSUME CInv, StartNotify PROVE ToldBefore' /\ AllHeeded'
<1> USE DEF CInv
<1>1. /\ UNCHANGED <<subscribers, requests, succeeded, delivered, released, recorded>>
      /\ apart' => apart /\ requests = {}
      /\ succeeded = {}
  BY DEF StartNotify, Starts, rows, history, IInv, TypeInv, Batches
<1>2. now \in Int /\ now' \in Int /\ now < now' /\ \A d \in delivered : d.time \in Int
  BY DEF StartNotify, IInv, TypeInv, TypeOK, Time
<1>3. \A d \in delivered : d.time < now'
  BY <1>2 DEF ToldBefore
<1>4. ToldBefore'
  BY <1>1, <1>2, <1>3 DEF ToldBefore
<1>5. ASSUME apart, recorded, NEW n \in batch'
      PROVE  Heeds(n.subscriber, delivered, released) /\ Due(n)' /\ MutesTold(n)'
  <2>1. PICK s \in subscribers :
          /\ n.subscriber.user = s.user /\ n.subscriber.sources = s.sources
          /\ n.subscriber.states = {st \in s.states : \A e \in n.events : ~Matches(st, e)}
                                     \cup {MutedNow(e) : e \in n.events}
          /\ \A e \in n.events : e.source \in s.sources /\ ~Muted(s, e)
    BY <1>5, NotificationOf
  <2>2. Heeds(s, delivered, released)
    BY <1>1, <1>5 DEF AllHeeded, RowsHeed
  <2>3. \A e \in n.events :
          /\ MutedNow(e) \in n.subscriber.states /\ Matches(MutedNow(e), e)
          /\ ~MutedNow(e).ignoreCoolOff /\ MutedNow(e).time = now'
    BY <2>1 DEF MutedNow, Matches
  <2>4. MutesTold(n)'
    BY <2>3 DEF MutesTold, Matches
  <2>5. Heeds(n.subscriber, delivered, released)
    <3> SUFFICES ASSUME NEW d \in delivered, d.user = s.user, d.source \in s.sources,
                        StateKey(d.user, d) \notin released
                 PROVE  \E st \in n.subscriber.states :
                          Matches(st, d) /\ ~st.ignoreCoolOff /\ d.time <= st.time
      BY <2>1 DEF Heeds
    <3>1. PICK st \in s.states : Matches(st, d) /\ ~st.ignoreCoolOff /\ d.time <= st.time
      BY <2>2 DEF Heeds
    <3>2. CASE \A e \in n.events : ~Matches(st, e)
      BY <3>1, <3>2, <2>1
    <3>3. ASSUME NEW e \in n.events, Matches(st, e)
          PROVE  \E z \in n.subscriber.states :
                   Matches(z, d) /\ ~z.ignoreCoolOff /\ d.time <= z.time
      <4>1. Matches(MutedNow(e), d)
        BY <3>1, <3>3, <2>3 DEF Matches
      <4>2. d.time <= MutedNow(e).time
        BY <2>3, <1>2, <1>3
      <4> QED
        BY <4>1, <4>2, <2>3
    <3> QED
      BY <3>2, <3>3
  <2>6. Due(n)'
    <3> SUFFICES ASSUME NEW e \in n.events, NEW d \in delivered, d.user = s.user, Matches(d, e),
                        StateKey(d.user, d) \notin released
                 PROVE  d.time + CoolOff < now'
      BY <1>1, <2>1 DEF Due, Matches, StateKey
    <3>1. d.source \in s.sources
      BY <2>1 DEF Matches
    <3>2. PICK st \in s.states : Matches(st, d) /\ ~st.ignoreCoolOff /\ d.time <= st.time
      BY <2>2, <3>1 DEF Heeds
    <3>3. ~(now' <= st.time + CoolOff)
      BY <2>1, <3>2 DEF Muted, InCoolOff, Matches
    <3>4. st.time \in Int /\ d.time \in Int
      BY DEF IInv, TypeInv, TypeOK, Subscriber, State, Time
    <3> QED
      BY <1>2, <3>2, <3>3, <3>4, SubscriptionsAssumption
  <2> QED
    BY <2>4, <2>5, <2>6
<1>6. AllHeeded'
  <2> SUFFICES ASSUME apart', recorded' PROVE RowsHeed' /\ CopiesHeed'
    BY DEF AllHeeded
  <2>1. RowsHeed'
    BY <1>1 DEF AllHeeded, RowsHeed
  <2>2. CopiesHeed'
    BY <1>1, <1>5 DEF CopiesHeed
  <2> QED
    BY <2>1, <2>2
<1> QED
  BY <1>4, <1>6

LEMMA SendHeeds == ASSUME CInv, NEW n \in batch, Send(n) PROVE ToldBefore' /\ AllHeeded'
<1> USE DEF CInv
<1> DEFINE c == n.subscriber
           news == {[user |-> k.user, source |-> k.source, type |-> k.type, time |-> now] :
                      k \in Told(n)}
<1>1. /\ batch' = batch \ {n} /\ succeeded' = succeeded \cup {c}
      /\ delivered' = delivered \cup news /\ released' = released \ Told(n)
      /\ UNCHANGED <<subscribers, requests, now, sending, apart, recorded>>
  BY DEF Send, rows, course
<1>2. /\ \A k \in Told(n) : k.user = c.user /\ \E e \in n.events : Matches(k, e)
      /\ \A d \in news : d.time = now /\ d.user = c.user /\ \E e \in n.events : Matches(d, e)
  BY DEF Told, Matches
<1>3. now \in Int
  BY DEF IInv, TypeInv, TypeOK, Time
<1>4. ToldBefore'
  BY <1>1, <1>2, <1>3 DEF ToldBefore
<1> HIDE DEF news
<1>5. AllHeeded'
  <2> SUFFICES ASSUME apart', recorded' PROVE RowsHeed' /\ CopiesHeed'
    BY DEF AllHeeded
  <2>1. requests' = {} /\ RowsHeed /\ CopiesHeed
    BY <1>1 DEF AllHeeded, Alone, IInv, TypeInv, Batches
  <2>2. ASSUME NEW s, s.user # c.user, Heeds(s, delivered, released)
        PROVE  Heeds(s, delivered', released')
    <3>1. \A d \in delivered' : d.user = s.user => d \in delivered
      BY <2>2, <1>1, <1>2
    <3>2. \A d : d.user = s.user => StateKey(d.user, d) \notin Told(n)
      BY <2>2, <1>2 DEF StateKey
    <3> QED
      BY <2>2, <3>1, <3>2, <1>1 DEF Heeds
  <2>3. RowsHeed'
    BY <1>1, <2>1, <2>2 DEF RowsHeed
  <2>4. Heeds(c, delivered', released')
    <3> SUFFICES ASSUME NEW d \in delivered', d.user = c.user, d.source \in c.sources,
                        StateKey(d.user, d) \notin released'
                 PROVE  \E st \in c.states : Matches(st, d) /\ ~st.ignoreCoolOff /\ d.time <= st.time
      BY DEF Heeds
    <3>1. d.time <= now
      BY <1>4, <1>1 DEF ToldBefore
    <3>2. CASE \E e \in n.events : Matches(d, e)
      BY <3>1, <3>2, <2>1 DEF CopiesHeed, MutesTold, Matches
    <3>3. CASE \A e \in n.events : ~Matches(d, e)
      <4>1. d \in delivered
        BY <3>3, <1>1, <1>2
      <4>2. StateKey(d.user, d) \notin released
        BY <3>3, <1>1, <1>2 DEF StateKey, Matches
      <4> QED
        BY <4>1, <4>2, <2>1 DEF CopiesHeed, Heeds
    <3> QED
      BY <3>2, <3>3
  <2>5. \A s \in succeeded : Heeds(s, delivered', released')
    BY <2>1, <2>2 DEF CopiesHeed, IInv, TypeInv, Batches
  <2>6. ASSUME NEW m \in batch'
        PROVE  Heeds(m.subscriber, delivered', released') /\ Due(m)' /\ MutesTold(m)'
    <3>1. m \in batch /\ m.subscriber.user # c.user
      BY <1>1 DEF IInv, TypeInv, Batches
    <3>2. Due(m) /\ MutesTold(m) /\ Heeds(m.subscriber, delivered, released)
      BY <3>1, <2>1 DEF CopiesHeed
    <3>3. \A d \in delivered' : d.user = m.subscriber.user =>
            d \in delivered /\ StateKey(d.user, d) \notin Told(n)
      BY <3>1, <1>1, <1>2 DEF StateKey
    <3>4. Due(m)'
      BY <3>2, <3>3, <1>1 DEF Due, Matches, StateKey
    <3>5. MutesTold(m)'
      BY <3>2, <1>1 DEF MutesTold, Matches
    <3> QED
      BY <3>1, <3>2, <3>4, <3>5, <2>2
  <2>7. CopiesHeed'
    BY <1>1, <2>1, <2>4, <2>5, <2>6 DEF CopiesHeed
  <2> QED
    BY <2>3, <2>7
<1> QED
  BY <1>4, <1>5

\* A delivery that goes unrecorded ends what is promised here.
LEMMA SendFailsHeeds ==
  ASSUME CInv, NEW n \in batch, SendFails(n) PROVE ToldBefore' /\ AllHeeded'
<1> USE DEF CInv
<1>1. /\ batch' \subseteq batch /\ UNCHANGED <<subscribers, requests, now, succeeded, apart>>
  BY DEF SendFails, SucceededWithout, rows
<1>2. CASE UNCHANGED <<delivered, released, recorded>>
  <2>1. ToldBefore'
    BY <1>1, <1>2 DEF ToldBefore
  <2>2. \A q \in requests : ReleasedBy(q)' = ReleasedBy(q)
    BY DEF ReleasedBy, Matches
  <2>3. \A m \in batch : (Due(m) => Due(m)') /\ (MutesTold(m) => MutesTold(m)')
    BY <1>1, <1>2 DEF Due, MutesTold, Matches, StateKey
  <2>4. RowsHeed => RowsHeed'
    BY <1>1, <1>2 DEF RowsHeed
  <2>5. CopiesHeed => CopiesHeed'
    BY <1>1, <1>2, <2>2, <2>3 DEF CopiesHeed
  <2> QED
    BY <1>1, <1>2, <2>1, <2>4, <2>5 DEF AllHeeded
<1>3. CASE /\ recorded' = FALSE
           /\ delivered' = delivered \cup {[user |-> k.user, source |-> k.source,
                                            type |-> k.type, time |-> now] : k \in Told(n)}
  <2>1. now \in Int
    BY DEF IInv, TypeInv, TypeOK, Time
  <2>2. ToldBefore'
    BY <1>1, <1>3, <2>1 DEF ToldBefore
  <2> QED
    BY <1>3, <2>2 DEF AllHeeded
<1> QED
  BY <1>2, <1>3 DEF SendFails

LEMMA EndNotifyHeeds ==
  ASSUME CInv, SaveNotified \/ NotifyFails PROVE ToldBefore' /\ AllHeeded'
<1> USE DEF CInv
<1>1. UNCHANGED <<requests, now, delivered, released, apart>>
  BY DEF SaveNotified, NotifyFails, rows, history, course
<1>2. ToldBefore'
  BY <1>1 DEF ToldBefore
<1>3. ASSUME apart, recorded' PROVE RowsHeed' /\ requests = {} /\ batch' = {} /\ succeeded' = {}
  <2>1. requests = {}
    BY <1>3 DEF Alone, SaveNotified, NotifyFails
  <2>2. CASE SaveNotified
    <3>1. /\ subscribers' = Saved(succeeded) /\ succeeded' = {} /\ batch' = {} /\ recorded
      BY <2>2, <1>3 DEF SaveNotified, course
    <3>2. \A s \in subscribers' :
            s \in succeeded \/ (s \in subscribers /\ \A t \in succeeded : t.user # s.user)
      BY <3>1, SavedRows
    <3>3. RowsHeed /\ CopiesHeed
      BY <3>1, <1>3 DEF AllHeeded
    <3>4. RowsHeed'
      BY <1>1, <3>2, <3>3 DEF RowsHeed, CopiesHeed
    <3> QED
      BY <2>1, <3>1, <3>4
  <2>3. CASE NotifyFails
    <3>1. UNCHANGED subscribers /\ succeeded' = {} /\ batch' = {} /\ recorded /\ succeeded = {}
      BY <2>3, <1>3 DEF NotifyFails, rows
    <3>2. RowsHeed'
      BY <1>1, <1>3, <3>1 DEF AllHeeded, RowsHeed
    <3> QED
      BY <2>1, <3>1, <3>2
  <2> QED
    BY <2>2, <2>3
<1>4. AllHeeded'
  BY <1>1, <1>3 DEF AllHeeded, CopiesHeed
<1> QED
  BY <1>2, <1>4

LEMMA HeedsStep == CInv /\ [Next]_vars => CInv'
<1> SUFFICES ASSUME CInv, [Next]_vars PROVE CInv'
  OBVIOUS
<1> SUFFICES ToldBefore' /\ AllHeeded'
  BY StepInv, AloneStep DEF CInv
<1>1. ASSUME NEW a \in Slot, HandleRequest(a) PROVE ToldBefore' /\ AllHeeded'
  BY <1>1, HandleHeeds
<1>2. ASSUME NEW q \in requests, Proceed(q) PROVE ToldBefore' /\ AllHeeded'
  BY <1>2, SaveSubscriberHeeds, UnsubscribedHeeds DEF Proceed
<1>3. CASE Notify
  BY <1>3, StartNotifyHeeds, SendHeeds, SendFailsHeeds, EndNotifyHeeds DEF Notify
<1>4. CASE UNCHANGED vars
  <2>1. UNCHANGED <<subscribers, requests, now, batch, succeeded, delivered, released, apart,
                    recorded>>
    BY <1>4 DEF vars, rows, notifier, history, course
  <2>2. ToldBefore'
    BY <2>1 DEF CInv, ToldBefore
  <2>3. AllHeeded'
    BY <2>1 DEF CInv, AllHeeded, RowsHeed, CopiesHeed, Due, MutesTold, Matches, StateKey, ReleasedBy
  <2> QED
    BY <2>2, <2>3
<1> QED
  BY <1>1, <1>2, <1>3, <1>4 DEF Next

\* Only a message tells, and it tells of what is due.
LEMMA TellsDue ==
  ASSUME CInv, apart, recorded, NEW n \in batch, NEW d, NEW e \in delivered,
         d \in {[user |-> k.user, source |-> k.source, type |-> k.type, time |-> now] : k \in Told(n)},
         d.user = e.user, d.source = e.source, d.type = e.type, d.time <= e.time + CoolOff
  PROVE  [user |-> d.user, source |-> d.source, type |-> d.type] \in released
<1>1. PICK x \in n.events :
        d = [user |-> n.subscriber.user, source |-> x.source, type |-> x.type, time |-> now]
  BY DEF Told
<1>2. e.user = n.subscriber.user /\ Matches(e, x)
  BY <1>1 DEF Matches
<1>3. StateKey(e.user, e) \in released \/ e.time + CoolOff < now
  BY <1>2 DEF CInv, AllHeeded, CopiesHeed, Due
<1>4. e.time \in Int /\ now \in Int /\ d.time = now
  BY <1>1 DEF CInv, IInv, TypeInv, TypeOK, Time
<1>5. StateKey(e.user, e) \in released
  BY <1>3, <1>4, SubscriptionsAssumption
<1> QED
  BY <1>5 DEF StateKey

\* While requests and notifications are apart and all that is delivered is recorded, no user
\* is told of an event again in the cool-off period, unless they asked to be
\* (Notify.execute, Subscriber.publishNotificationAbout, Subscription.isStateInCoolOffPeriod).
THEOREM CoolsOff == Spec => NotAgainDuringCoolOff
<1>1. Init => CInv
  BY InitInv, InitAlone DEF Init, CInv, ToldBefore, AllHeeded, RowsHeed, CopiesHeed
<1>2. CInv /\ [Next]_vars =>
        [apart /\ recorded => \A d \in delivered' \ delivered, e \in delivered :
           /\ d.user = e.user /\ d.source = e.source /\ d.type = e.type
           /\ d.time <= e.time + CoolOff
           => [user |-> d.user, source |-> d.source, type |-> d.type] \in released]_vars
  <2> SUFFICES ASSUME CInv, Next, apart, recorded, NEW d \in delivered' \ delivered,
                      NEW e \in delivered,
                      d.user = e.user, d.source = e.source, d.type = e.type,
                      d.time <= e.time + CoolOff
               PROVE  [user |-> d.user, source |-> d.source, type |-> d.type] \in released
    OBVIOUS
  <2>1. ASSUME NEW n \in batch, Send(n) \/ SendFails(n)
        PROVE  [user |-> d.user, source |-> d.source, type |-> d.type] \in released
    <3>1. d \in {[user |-> k.user, source |-> k.source, type |-> k.type, time |-> now] :
                   k \in Told(n)}
      BY <2>1 DEF Send, SendFails
    <3> QED
      BY <3>1, TellsDue
  <2>2. ASSUME NEW a \in Slot, HandleRequest(a) PROVE FALSE
    BY <2>2, HandleBegins DEF notifier
  <2>3. ASSUME NEW q \in requests, Proceed(q) PROVE FALSE
    BY <2>3 DEF Proceed, SaveSubscriber, DeleteUser, RemoveSubscriber, RequestFails, notifier
  <2>4. ~StartNotify /\ ~SaveNotified /\ ~NotifyFails
    BY DEF StartNotify, SaveNotified, NotifyFails
  <2> QED
    BY <2>1, <2>2, <2>3, <2>4 DEF Next, Notify
<1> QED
  BY <1>1, <1>2, HeedsStep, PTL DEF Spec, NotAgainDuringCoolOff
================================================================================
