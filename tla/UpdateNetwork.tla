----------------------------- MODULE UpdateNetwork -----------------------------
(***************************************************************************)
(* The process that updates the network every three minutes: the run state *)
(* of the use case UpdateNetwork, the timer that starts runs, the signals  *)
(* that shut the process down, and the database connection they share.     *)
(*                                                                         *)
(* Each action is what happens between two awaits.  What a run reads,      *)
(* crawls and writes is left out: only where it is and how it can fail.    *)
(***************************************************************************)
EXTENDS Naturals

CONSTANTS
  Run,      \* room for runs that are in progress together
  FirstRun  \* the one started by execute()

ASSUME UpdateNetworkAssumption == FirstRun \in Run

VARIABLES
  loop,            \* UpdateNetwork.loop, from the configuration
  sentry,          \* Sentry is configured: its handler keeps a process with an
                   \* unhandled rejection running
  runState,        \* UpdateNetwork.runState
  at,              \* what each run awaits
  timer,           \* setInterval was called
  shutdownRequest, \* a callback is stored in UpdateNetwork.shutdownRequest
  execution,       \* the promise of execute()
  main,            \* the function run() of the command line script
  connection,      \* the connection pool of the kernel
  closer,          \* who called close() on it: a signal's callback, or main
  process,         \* running, or how it ended
  signalled,       \* SIGTERM or SIGINT was received
  threw            \* history: the read of the latest network threw, or a step that follows
                   \* the crawl

vars == <<loop, sentry, runState, at, timer, shutdownRequest, execution, main, connection,
          closer, process, signalled, threw>>
configuration == <<loop, sentry>>

\* enrich: home domains, TOML files, full validators, geo data and node indexes are
\* looked up for the nodes crawled.
\* undrainedNodes, undrained: a queue of that step, or the one of notifications, never
\* reports that it is drained.
\* saveBegun: the first write of an update is done and its last one is not.
Persisting == {"save", "saveBegun", "notify", "undrained", "archive", "heartbeat"}
Step == {"none", "read", "crawl", "enrich", "undrainedNodes"} \cup Persisting

\* The run state tells a signal whether an update is being persisted.
PersistingMarked == (\E r \in Run : at[r] \in Persisting) <=> runState = "persisting"

TypeOK ==
  /\ loop \in BOOLEAN /\ sentry \in BOOLEAN /\ threw \in BOOLEAN
  /\ runState \in {"idle", "updating", "persisting"}
  /\ at \in [Run -> Step]
  /\ timer \in BOOLEAN /\ shutdownRequest \in BOOLEAN /\ signalled \in BOOLEAN
  /\ execution \in {"pending", "resolved", "rejected"}
  /\ main \in {"executing", "closing", "done"}
  /\ connection \in {"open", "closing", "closed"}
  /\ closer \in {"none", "signal", "main"}
  /\ process \in {"running", "exited", "crashed"}
  /\ PersistingMarked

Init ==
  /\ loop \in BOOLEAN /\ sentry \in BOOLEAN
  /\ runState = "updating" /\ at = [r \in Run |-> IF r = FirstRun THEN "read" ELSE "none"]
  /\ timer = FALSE /\ shutdownRequest = FALSE /\ execution = "pending"
  /\ main = "executing" /\ connection = "open" /\ closer = "none"
  /\ process = "running" /\ signalled = FALSE /\ threw = FALSE
-----------------------------------------------------------------------------
(* Kernel.shutdown and the end of the process. *)

\* The pool refuses new queries as soon as close() is called.  A second close()
\* throws, in a callback or in main where nothing catches it.
CloseConnection(who) ==
  IF connection = "open"
  THEN connection' = "closing" /\ closer' = who /\ UNCHANGED process
  ELSE /\ UNCHANGED <<connection, closer>>
       /\ process' = IF sentry THEN process ELSE "crashed"

\* The queries in progress have ended.
ConnectionClosed ==
  /\ process = "running" /\ connection = "closing" /\ connection' = "closed"
  /\ IF closer = "signal" THEN process' = "exited" /\ UNCHANGED main
                          ELSE main' = "done" /\ UNCHANGED process
  /\ UNCHANGED <<configuration, runState, at, timer, shutdownRequest, execution, closer,
                 signalled, threw>>

MainShutsDown ==
  /\ process = "running" /\ main = "executing" /\ execution # "pending"
  /\ main' = "closing" /\ CloseConnection("main")
  /\ UNCHANGED <<configuration, runState, at, timer, shutdownRequest, execution, signalled,
                 threw>>

\* Node ends a process that waits for nothing any more.
NothingLeft ==
  /\ process = "running" /\ ~timer /\ connection = "closed"
  /\ \A r \in Run : at[r] = "none"
  /\ process' = "exited"
  /\ UNCHANGED <<configuration, runState, at, timer, shutdownRequest, execution, main,
                 connection, closer,
                 signalled, threw>>
-----------------------------------------------------------------------------
(* UpdateNetwork.execute and run *)

\* The first run arms the timer, or ends the execution.
NeverSettled == UNCHANGED <<timer, execution>>
RunSettled ==
  IF loop THEN timer' = TRUE /\ UNCHANGED execution
          ELSE execution' = "resolved" /\ UNCHANGED timer

\* Mutant: only a run that persists is waited for.
NoRunPersists == runState # "persisting"
MayRun == runState = "idle"

\* A tick that finds a run in progress only reports it.
Tick(r) ==
  /\ process = "running" /\ timer /\ MayRun /\ at[r] = "none"
  /\ runState' = "updating" /\ at' = [at EXCEPT ![r] = "read"]
  /\ UNCHANGED <<configuration, timer, shutdownRequest, execution, main, connection, closer,
                 process, signalled, threw>>

\* A network is found, from the cache or by queries that were let through.
ReadLatestNetwork(r) ==
  /\ process = "running" /\ at[r] = "read" /\ connection # "closed"
  /\ at' = [at EXCEPT ![r] = "crawl"]
  /\ UNCHANGED <<configuration, runState, timer, shutdownRequest, execution, main,
                 connection, closer,
                 process, signalled, threw>>

\* Nothing catches an exception of the database in getNetwork: run() is left as it is.
ReadLatestNetworkThrows(r) ==
  /\ process = "running" /\ at[r] = "read"
  /\ threw' = (threw \/ connection = "open")
  /\ at' = [at EXCEPT ![r] = "none"]
  /\ execution' = IF execution = "pending" THEN "rejected" ELSE execution
  /\ UNCHANGED <<configuration, runState, timer, shutdownRequest, main, connection, closer,
                 process, signalled>>

\* Mutant: an update that fails is not followed by another.
StillUpdating == runState
RunStateAfterError == "idle"

\* updateNetwork returned an error, which it does for the network in the database or the crawl.
UpdateFails(r) ==
  /\ process = "running" /\ at[r] \in {"read", "crawl"}
  /\ (at[r] = "read" => connection # "closed")
  /\ at' = [at EXCEPT ![r] = "none"] /\ runState' = RunStateAfterError
  /\ RunSettled
  /\ UNCHANGED <<configuration, shutdownRequest, main, connection, closer, process,
                 signalled, threw>>

CrawlNetwork(r) ==
  /\ process = "running" /\ at[r] = "crawl"
  /\ at' = [at EXCEPT ![r] = "enrich"]
  /\ UNCHANGED <<configuration, runState, timer, shutdownRequest, execution, main,
                 connection, closer, process, signalled, threw>>

\* What follows the crawl returns no error, and nothing catches its exceptions.
EnrichThrows(r) ==
  /\ process = "running" /\ at[r] = "enrich" /\ threw' = TRUE
  /\ at' = [at EXCEPT ![r] = "none"]
  /\ execution' = IF execution = "pending" THEN "rejected" ELSE execution
  /\ UNCHANGED <<configuration, runState, timer, shutdownRequest, main, connection, closer,
                 process, signalled>>

\* An exception in the worker of HomeDomainUpdater's queue, for a home domain that is
\* not a string, reaches nobody either: the worker's callback is never called.
EnrichStalls(r) ==
  /\ process = "running" /\ at[r] = "enrich"
  /\ at' = [at EXCEPT ![r] = "undrainedNodes"]
  /\ process' = IF sentry THEN process ELSE "crashed"
  /\ UNCHANGED <<configuration, runState, timer, shutdownRequest, execution, main,
                 connection, closer, signalled, threw>>

\* Mutant: persisting is forgotten.
NotMarked == runState
RunStateOfSave == "persisting"

Persist(r) ==
  /\ process = "running" /\ at[r] = "enrich"
  /\ at' = [at EXCEPT ![r] = "save"] /\ runState' = RunStateOfSave
  /\ UNCHANGED <<configuration, timer, shutdownRequest, execution, main, connection, closer,
                 process, signalled, threw>>

BeginSave(r) ==
  /\ process = "running" /\ at[r] = "save" /\ connection = "open"
  /\ at' = [at EXCEPT ![r] = "saveBegun"]
  /\ UNCHANGED <<configuration, runState, timer, shutdownRequest, execution, main,
                 connection, closer,
                 process, signalled, threw>>

\* What the save, the notifications, the archival and the heartbeat come to
\* is reported, and only an error of the save ends the run.
NextStep == [saveBegun |-> "notify", notify |-> "archive", archive |-> "heartbeat"]
PersistFurther(r) ==
  /\ process = "running" /\ at[r] \in DOMAIN NextStep
  /\ (at[r] = "saveBegun" => connection = "open")
  /\ at' = [at EXCEPT ![r] = NextStep[at[r]]]
  /\ UNCHANGED <<configuration, runState, timer, shutdownRequest, execution, main,
                 connection, closer,
                 process, signalled, threw>>

\* An exception in the worker of Notifier's queue, whose message needs the name of
\* the event source from the database, reaches nobody: the queue waits for the
\* worker's callback, and the rejection of the worker is unhandled.
NotifyThrows(r) ==
  /\ process = "running" /\ at[r] = "notify"
  /\ at' = [at EXCEPT ![r] = "undrained"]
  /\ process' = IF sentry THEN process ELSE "crashed"
  /\ UNCHANGED <<configuration, runState, timer, shutdownRequest, execution, main,
                 connection, closer, signalled, threw>>

\* Mutant: the request is left to the next run.
NeverDue == FALSE
ShutdownDue == shutdownRequest

\* After an error of the save, or the heartbeat.  The callback is called before
\* the run state is reset, and not awaited.
RunEnds(r) ==
  /\ process = "running" /\ at[r] \in {"save", "saveBegun", "heartbeat"}
  /\ at' = [at EXCEPT ![r] = "none"] /\ runState' = "idle"
  /\ RunSettled
  /\ IF ShutdownDue THEN CloseConnection("signal")
                    ELSE UNCHANGED <<connection, closer, process>>
  /\ UNCHANGED <<configuration, shutdownRequest, main, signalled, threw>>
-----------------------------------------------------------------------------
(* Signals. *)

\* Mutant: a run that crawls is waited for, not one that persists.
DefersWhileUpdating == runState = "updating"
DefersShutdown == runState = "persisting"

\* UpdateNetwork.shutDown, with the callback of shutdownGracefully.
Signal ==
  /\ process = "running" /\ signalled' = TRUE
  /\ IF DefersShutdown
     THEN shutdownRequest' = TRUE /\ UNCHANGED <<connection, closer, process>>
     ELSE CloseConnection("signal") /\ UNCHANGED shutdownRequest
  /\ UNCHANGED <<configuration, runState, at, timer, execution, main, threw>>
-----------------------------------------------------------------------------
Proceed(r) ==
  \/ ReadLatestNetwork(r) \/ ReadLatestNetworkThrows(r) \/ UpdateFails(r)
  \/ CrawlNetwork(r) \/ EnrichThrows(r) \/ EnrichStalls(r)
  \/ Persist(r) \/ BeginSave(r) \/ PersistFurther(r) \/ NotifyThrows(r) \/ RunEnds(r)

Next ==
  \/ \E r \in Run : Tick(r) \/ Proceed(r)
  \/ ConnectionClosed \/ MainShutsDown \/ NothingLeft \/ Signal

\* Awaited calls return or throw, and callbacks that are due are called.
Fairness ==
  /\ \A r \in Run : WF_vars(Proceed(r))
  /\ WF_vars(\E r \in Run : Tick(r))
  /\ WF_vars(ConnectionClosed) /\ WF_vars(MainShutsDown) /\ WF_vars(NothingLeft)

Spec == Init /\ [][Next]_vars /\ Fairness
-----------------------------------------------------------------------------
(* Properties. *)

Ended == process # "running"
\* A run that waits for a queue for ever.
Stranded == \E r \in Run : at[r] \in {"undrainedNodes", "undrained"}

\* Runs read, change and save the same cached network and the same snapshots:
\* there is never more than one, though the timer, the first run and the
\* signals act on runState without knowing of each other.
OneRunAtATime == \A r, s \in Run : at[r] # "none" /\ at[s] # "none" => r = s

\* "Persisting update, will shutdown when ready": from the first write of an
\* update to its last one, nobody closes the connection and the process does
\* not end, however many signals arrive before and meanwhile.
SaveNotCutShort ==
  \A r \in Run : at[r] = "saveBegun" => connection = "open" /\ process = "running"

\* A process that loops reads the latest network again and again, whatever errors the
\* read, the crawl, the save and what follows it return, until it ends, that read or a step
\* after the crawl throws, or the queue of home domains or of notifications stalls.
KeepsUpdating == loop => []<>(Ended \/ threw \/ Stranded \/ \E r \in Run : at[r] = "read")

\* A signal ends the process sooner or later, whatever it is doing and whatever threw
\* before: without Sentry, whose handler lets the process outlive a second close().
SignalEndsProcess == ~sentry => (signalled ~> Ended)

\* A process that does not loop ends by itself, whatever fails or throws, unless
\* one of these queues has left it waiting.
EndsByItself == ~loop => <>(Ended \/ Stranded)

\* "update network every three minutes" (UpdateNetwork.ts:38): KeepsUpdating,
\* also when the read of the latest network or a step after the crawl throws, or a queue
\* stalls.
UpdatesEveryThreeMinutes == loop => []<>(Ended \/ \E r \in Run : at[r] = "read")
================================================================================
