-------------------------- MODULE UpdateNetworkProofs --------------------------
(***************************************************************************)
(* Proofs about UpdateNetwork, for any number of runs in progress and any  *)
(* configuration.  The argument: a run in progress keeps the run state     *)
(* from being idle, so no tick starts another; once the execution is       *)
(* settled nothing runs and nothing will; so whoever closes the connection *)
(* does so while no update is being persisted.                             *)
(***************************************************************************)
EXTENDS UpdateNetwork, TLAPS

\* A run in progress is seen in the run state.
RunMarked == (\E r \in Run : at[r] # "none") => runState # "idle"

\* After the execution is settled no run is in progress, and no tick starts one.
SettledAtRest ==
  execution # "pending" => /\ \A r \in Run : at[r] = "none"
                           /\ runState # "idle" \/ ~timer

\* Only a use case that loops arms the timer, and only one that does not resolves.
LoopOrResolve == /\ timer => loop
                 /\ execution = "resolved" => ~loop

IInv == /\ TypeOK /\ OneRunAtATime /\ SaveNotCutShort
        /\ RunMarked /\ SettledAtRest /\ LoopOrResolve

LEMMA InitInv == Init => IInv
  BY UpdateNetworkAssumption
  DEF Init, IInv, TypeOK, PersistingMarked, Persisting, Step, OneRunAtATime,
      SaveNotCutShort, RunMarked, SettledAtRest, LoopOrResolve

LEMMA CloseEffect ==
  ASSUME NEW who, CloseConnection(who)
  PROVE  \/ connection = "open" /\ connection' = "closing" /\ closer' = who /\ process' = process
         \/ /\ connection # "open" /\ connection' = connection /\ closer' = closer
            /\ process' \in {process, "crashed"}
  BY DEF CloseConnection

\* A run that goes from one step to another, the rest of the state being as it was
\* or marked accordingly.
LEMMA TickInv == ASSUME IInv, NEW r \in Run, Tick(r) PROVE IInv'
  BY DEF IInv, TypeOK, PersistingMarked, Persisting, Step, OneRunAtATime, SaveNotCutShort,
         RunMarked, SettledAtRest, LoopOrResolve, Tick, configuration, MayRun

LEMMA ReadInv == ASSUME IInv, NEW r \in Run, ReadLatestNetwork(r) PROVE IInv'
  BY DEF IInv, TypeOK, PersistingMarked, Persisting, Step, OneRunAtATime, SaveNotCutShort,
         RunMarked, SettledAtRest, LoopOrResolve, ReadLatestNetwork, configuration

LEMMA ReadThrowsInv == ASSUME IInv, NEW r \in Run, ReadLatestNetworkThrows(r) PROVE IInv'
  BY DEF IInv, TypeOK, PersistingMarked, Persisting, Step, OneRunAtATime, SaveNotCutShort,
         RunMarked, SettledAtRest, LoopOrResolve, ReadLatestNetworkThrows, configuration

LEMMA UpdateFailsInv == ASSUME IInv, NEW r \in Run, UpdateFails(r) PROVE IInv'
<1>1. at[r] # "none" /\ at' = [at EXCEPT ![r] = "none"]
  BY DEF UpdateFails
<1>2. /\ runState' = "idle"
      /\ UNCHANGED <<loop, sentry, shutdownRequest, main, connection, closer, process,
                     signalled, threw>>
  BY DEF UpdateFails, RunStateAfterError, configuration
<1>3. IF loop THEN timer' = TRUE /\ UNCHANGED execution
              ELSE execution' = "resolved" /\ UNCHANGED timer
  BY DEF UpdateFails, RunSettled
<1>4. at' \in [Run -> Step] /\ \A s \in Run : at'[s] = "none"
  BY <1>1 DEF IInv, TypeOK, Step, OneRunAtATime
<1>5. execution = "pending"
  BY <1>1 DEF IInv, SettledAtRest
<1>6. timer' \in BOOLEAN /\ execution' \in {"pending", "resolved"} /\ LoopOrResolve'
  BY <1>2, <1>3, <1>5 DEF IInv, TypeOK, LoopOrResolve
<1>7. TypeOK'
  BY <1>2, <1>4, <1>6 DEF IInv, TypeOK, PersistingMarked, Persisting
<1>8. SettledAtRest'
  BY <1>2, <1>3, <1>4, <1>5 DEF IInv, SettledAtRest, LoopOrResolve
<1> QED
  BY <1>2, <1>4, <1>6, <1>7, <1>8 DEF IInv, OneRunAtATime, SaveNotCutShort, RunMarked

LEMMA CrawlInv == ASSUME IInv, NEW r \in Run, CrawlNetwork(r) PROVE IInv'
  BY DEF IInv, TypeOK, PersistingMarked, Persisting, Step, OneRunAtATime, SaveNotCutShort,
         RunMarked, SettledAtRest, LoopOrResolve, CrawlNetwork, configuration

LEMMA EnrichThrowsInv == ASSUME IInv, NEW r \in Run, EnrichThrows(r) PROVE IInv'
  BY DEF IInv, TypeOK, PersistingMarked, Persisting, Step, OneRunAtATime, SaveNotCutShort,
         RunMarked, SettledAtRest, LoopOrResolve, EnrichThrows, configuration

LEMMA EnrichStallsInv == ASSUME IInv, NEW r \in Run, EnrichStalls(r) PROVE IInv'
  BY DEF IInv, TypeOK, PersistingMarked, Persisting, Step, OneRunAtATime, SaveNotCutShort,
         RunMarked, SettledAtRest, LoopOrResolve, EnrichStalls, configuration

LEMMA PersistInv == ASSUME IInv, NEW r \in Run, Persist(r) PROVE IInv'
  BY DEF IInv, TypeOK, PersistingMarked, Persisting, Step, OneRunAtATime, SaveNotCutShort,
         RunMarked, SettledAtRest, LoopOrResolve, Persist, configuration, RunStateOfSave

LEMMA BeginSaveInv == ASSUME IInv, NEW r \in Run, BeginSave(r) PROVE IInv'
  BY DEF IInv, TypeOK, PersistingMarked, Persisting, Step, OneRunAtATime, SaveNotCutShort,
         RunMarked, SettledAtRest, LoopOrResolve, BeginSave, configuration

LEMMA PersistFurtherInv == ASSUME IInv, NEW r \in Run, PersistFurther(r) PROVE IInv'
  BY DEF IInv, TypeOK, PersistingMarked, Persisting, Step, OneRunAtATime, SaveNotCutShort,
         RunMarked, SettledAtRest, LoopOrResolve, PersistFurther, configuration, NextStep

LEMMA NotifyThrowsInv == ASSUME IInv, NEW r \in Run, NotifyThrows(r) PROVE IInv'
  BY DEF IInv, TypeOK, PersistingMarked, Persisting, Step, OneRunAtATime, SaveNotCutShort,
         RunMarked, SettledAtRest, LoopOrResolve, NotifyThrows, configuration

LEMMA RunEndsInv == ASSUME IInv, NEW r \in Run, RunEnds(r) PROVE IInv'
<1>1. CloseConnection("signal") \/ UNCHANGED <<connection, closer, process>>
  BY DEF RunEnds
<1>2. \/ connection = "open" /\ connection' = "closing" /\ closer' = "signal" /\ process' = process
      \/ /\ connection' = connection /\ closer' \in {closer, "signal"}
         /\ process' \in {process, "crashed"}
  BY <1>1, CloseEffect
<1>3. at[r] \in {"save", "saveBegun", "heartbeat"} /\ at' = [at EXCEPT ![r] = "none"]
  BY DEF RunEnds
<1>4. runState' = "idle" /\ UNCHANGED <<shutdownRequest, main, signalled, threw>>
  BY DEF RunEnds
<1>5. UNCHANGED loop /\ UNCHANGED sentry
  BY DEF RunEnds, configuration
<1>6. IF loop THEN timer' = TRUE /\ UNCHANGED execution
              ELSE execution' = "resolved" /\ UNCHANGED timer
  BY DEF RunEnds, RunSettled
<1>7. at' \in [Run -> Step] /\ \A s \in Run : at'[s] = "none"
  BY <1>3 DEF IInv, TypeOK, Step, OneRunAtATime
<1>8. execution = "pending"
  BY <1>3 DEF IInv, SettledAtRest
<1>9. timer' \in BOOLEAN /\ execution' \in {"pending", "resolved"} /\ LoopOrResolve'
  BY <1>5, <1>6, <1>8 DEF IInv, TypeOK, LoopOrResolve
<1>10. TypeOK'
  BY <1>2, <1>4, <1>5, <1>7, <1>9 DEF IInv, TypeOK, PersistingMarked, Persisting
<1>11. SettledAtRest'
  BY <1>5, <1>6, <1>7, <1>8 DEF IInv, SettledAtRest, LoopOrResolve
<1> QED
  BY <1>4, <1>7, <1>9, <1>10, <1>11 DEF IInv, OneRunAtATime, SaveNotCutShort, RunMarked

\* Whoever closes the connection, no update is being saved.
LEMMA SignalInv == ASSUME IInv, Signal PROVE IInv'
<1>1. CASE DefersShutdown
  BY <1>1 DEF IInv, TypeOK, PersistingMarked, Persisting, Step, OneRunAtATime, SaveNotCutShort,
              RunMarked, SettledAtRest, LoopOrResolve, Signal, configuration
<1>2. CASE ~DefersShutdown
  <2>1. CloseConnection("signal") /\ UNCHANGED shutdownRequest
    BY <1>2 DEF Signal
  <2> QED
    BY <1>2, <2>1, CloseEffect
    DEF IInv, TypeOK, PersistingMarked, Persisting, Step, OneRunAtATime, SaveNotCutShort,
        RunMarked, SettledAtRest, LoopOrResolve, Signal, configuration, DefersShutdown
<1> QED
  BY <1>1, <1>2

LEMMA MainInv == ASSUME IInv, MainShutsDown PROVE IInv'
  BY DEF IInv, TypeOK, PersistingMarked, Persisting, Step, OneRunAtATime, SaveNotCutShort,
         RunMarked, SettledAtRest, LoopOrResolve, MainShutsDown, configuration, CloseConnection

LEMMA ClosedInv == ASSUME IInv, ConnectionClosed PROVE IInv'
  BY DEF IInv, TypeOK, PersistingMarked, Persisting, Step, OneRunAtATime, SaveNotCutShort,
         RunMarked, SettledAtRest, LoopOrResolve, ConnectionClosed, configuration

LEMMA NothingLeftInv == ASSUME IInv, NothingLeft PROVE IInv'
  BY DEF IInv, TypeOK, PersistingMarked, Persisting, Step, OneRunAtATime, SaveNotCutShort,
         RunMarked, SettledAtRest, LoopOrResolve, NothingLeft, configuration

LEMMA StepInv == IInv /\ [Next]_vars => IInv'
<1> SUFFICES ASSUME IInv, [Next]_vars PROVE IInv'
  OBVIOUS
<1>1. ASSUME NEW r \in Run, Tick(r) \/ Proceed(r) PROVE IInv'
  BY <1>1, TickInv, ReadInv, ReadThrowsInv, UpdateFailsInv, CrawlInv, EnrichThrowsInv,
     EnrichStallsInv, PersistInv, BeginSaveInv, PersistFurtherInv, NotifyThrowsInv, RunEndsInv DEF Proceed
<1>2. CASE ConnectionClosed \/ MainShutsDown \/ NothingLeft \/ Signal
  BY <1>2, ClosedInv, MainInv, NothingLeftInv, SignalInv
<1>3. CASE UNCHANGED vars
  BY <1>3 DEF vars, configuration, IInv, TypeOK, PersistingMarked, OneRunAtATime, SaveNotCutShort,
              RunMarked, SettledAtRest, LoopOrResolve
<1> QED
  BY <1>1, <1>2, <1>3 DEF Next

LEMMA Invariance == Spec => []IInv
  BY InitInv, StepInv, PTL DEF Spec

\* The types, and the mark: runState is persisting exactly while a run persists.
THEOREM TypeCorrect == Spec => []TypeOK
<1>1. IInv => TypeOK
  BY DEF IInv
<1> QED
  BY Invariance, <1>1, PTL

\* However many runs there is room for, the timer never starts one while another
\* is in progress (execute, run).
THEOREM SingleRun == Spec => []OneRunAtATime
<1>1. IInv => OneRunAtATime
  BY DEF IInv
<1> QED
  BY Invariance, <1>1, PTL

\* Whatever signals arrive and whatever runs fail, a save that has begun keeps its
\* connection until its last write (shutDown, run, shutdownGracefully).
THEOREM SaveUncut == Spec => []SaveNotCutShort
<1>1. IInv => SaveNotCutShort
  BY DEF IInv
<1> QED
  BY Invariance, <1>1, PTL
================================================================================
