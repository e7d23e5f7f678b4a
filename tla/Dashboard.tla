------------------------------ MODULE Dashboard ------------------------------
(***************************************************************************)
(* One open page of clusterwatch/dashboard/app.js on the event stream of   *)
(* module Broker: what it shows, when it asks, and how it falls back to    *)
(* polling.  A callback of the page runs to its next await in one step.    *)
(*                                                                         *)
(* A refresh (route) is one request: the overview's, or the two of the     *)
(* detail page, which only succeed together.                               *)
(***************************************************************************)
EXTENDS Broker

CONSTANTS
  Browsers,   \* may the browser have window.EventSource (TRUE), or not (FALSE)?
  MaxMail     \* bound on stream events on their way to the page

ASSUME DashboardAssumption ==
  Browsers \subseteq BOOLEAN /\ MaxMail \in Nat \ {0}

VARIABLES
  view,        \* what #app holds: the template, unfilled or filled, or the error
  shown,       \* the version on the page, -1 for none
  flight,      \* the refresh in flight (refreshInFlight): "none", "asked" or
               \* "answered"
  fetched,     \* the version its answer carries
  initial,     \* the argument of route
  chained,     \* does the polling callback await it?
  queued,      \* refreshQueued
  source,      \* eventSource: "none" before connectEventStream; "connecting" until
               \* its first callback, "reconnecting" after an onerror
  connected,   \* eventsConnected
  timer,       \* refreshTimer: "off", or in the first or second half of its time
  mail,        \* stream events that have not reached the page
  \* history: the version when the page last had reason to refresh, and whether
  \* the last finished refresh failed
  noticed, failed

refresh == <<view, shown, flight, fetched, initial, chained, queued, failed>>
link    == <<source, connected, timer, mail>>
vars    == <<broker, refresh, link, noticed>>

Versions == -1 .. MaxChanges

TypeOK ==
  /\ BrokerTypeOK
  /\ view \in {"template", "data", "error"}
  /\ shown \in Versions /\ fetched \in Versions /\ noticed \in Versions
  /\ flight \in {"none", "asked", "answered"}
  /\ initial \in BOOLEAN /\ chained \in BOOLEAN /\ queued \in BOOLEAN
  /\ source \in {"none", "connecting", "open", "reconnecting", "closed"}
  /\ connected \in BOOLEAN
  /\ timer \in {"off", "early", "late"}
  /\ mail \in 0 .. MaxMail
  /\ failed \in BOOLEAN
  \* a refresh waits only behind another, and the stream lives with its connection
  /\ queued => flight # "none"
  /\ stage # "off" <=> source = "open"
  /\ connected <=> source = "open"

Init ==
  /\ BrokerInit
  /\ view = "template"
  /\ shown = -1
  /\ flight = "asked"
  /\ fetched = -1
  /\ initial = TRUE
  /\ chained = FALSE
  /\ queued = FALSE
  /\ source = "none"
  /\ connected = FALSE
  /\ timer = "off"
  /\ mail = 0
  /\ noticed = 0
  /\ failed = FALSE

-----------------------------------------------------------------------------
(* route.                                                                  *)

\* Variant for the mutation runs: a refresh that finds another one in flight
\* relies on that one.
RefreshUnqueued(poll) ==
  /\ noticed' = version
  /\ IF flight # "none" THEN UNCHANGED <<flight, queued, chained>>
     ELSE flight' = "asked" /\ chained' = poll /\ UNCHANGED queued
  /\ UNCHANGED <<view, shown, fetched, initial, failed>>

\* route(false): join the refresh in flight, or start one.
Refresh(poll) ==
  /\ noticed' = version
  /\ IF flight # "none"
       THEN queued' = TRUE /\ UNCHANGED <<flight, chained>>
       ELSE flight' = "asked" /\ chained' = poll /\ UNCHANGED queued
  /\ UNCHANGED <<view, shown, fetched, initial, failed>>

\* The controller reads its store for the request.
Served ==
  /\ flight = "asked"
  /\ flight' = "answered"
  /\ fetched' = version
  /\ UNCHANGED <<broker, view, shown, initial, chained, queued, failed, link, noticed>>

\* connectEventStream, once the first route is settled.
Connect ==
  /\ UNCHANGED <<connected, mail>>
  /\ \/ TRUE \in Browsers /\ source' = "connecting" /\ UNCHANGED timer
     \/ FALSE \in Browsers /\ timer' = "early" /\ UNCHANGED source

\* What awaits the promise of route: connectEventStream the first one, the polling
\* callback its own.
Settle ==
  IF initial THEN Connect
  ELSE /\ timer' = IF chained /\ ~connected THEN "early" ELSE timer
       /\ UNCHANGED <<source, connected, mail>>

\* Variant for the mutation runs: the finally block forgets the refresh that waits.
FinishForgets(failure) ==
  /\ failed' = failure
  /\ fetched' = -1
  /\ initial' = FALSE
  /\ chained' = FALSE
  /\ flight' = "none"
  /\ Settle
  /\ UNCHANGED <<broker, queued, noticed>>

\* The finally block.
Finish(failure) ==
  /\ failed' = failure
  /\ fetched' = -1
  /\ initial' = FALSE
  /\ chained' = FALSE
  /\ queued' = FALSE
  /\ flight' = IF queued THEN "asked" ELSE "none"
  /\ Settle
  /\ UNCHANGED <<broker, noticed>>

\* The answer is drawn.  In the error view the elements to draw into are gone, and
\* the TypeError of a refresh that is not the initial one is caught silently.
Draw ==
  /\ flight = "answered"
  /\ IF view = "error"
       THEN UNCHANGED <<view, shown>> /\ Finish(TRUE)
       ELSE view' = "data" /\ shown' = fetched /\ Finish(FALSE)

\* The request fails: the initial one replaces the template by the error.
Fail ==
  /\ flight # "none"
  /\ view' = IF initial THEN "error" ELSE view
  /\ UNCHANGED shown
  /\ Finish(TRUE)

Resize ==
  /\ Refresh(FALSE)
  /\ UNCHANGED <<broker, link>>

-----------------------------------------------------------------------------
(* The event stream, as the page sees it.                                  *)

\* The browser is trying to open the stream.
Trying == source \in {"connecting", "reconnecting"}

\* onopen.
Open ==
  /\ Trying
  /\ source' = "open"
  /\ connected' = TRUE
  /\ timer' = "off"
  /\ OpenStream
  /\ UNCHANGED <<mail, refresh, noticed>>

\* onerror: the browser will try again, or not if the answer was no event stream.
\* schedulePolling sets the timer back to its full time.
Error ==
  /\ Trying \/ source = "open"
  /\ source' \in {"reconnecting", "closed"}
  /\ source = "open" => source' = "reconnecting"
  /\ connected' = FALSE
  /\ timer' = "early"
  /\ mail' = 0
  /\ CloseStream
  /\ UNCHANGED <<refresh, noticed>>

\* The stream yields an event.
Emit ==
  /\ mail < MaxMail
  /\ Yield
  /\ mail' = mail + 1
  /\ UNCHANGED <<source, connected, timer, refresh, noticed>>

\* A cluster-update reaches the page.
Update ==
  /\ mail > 0
  /\ mail' = mail - 1
  /\ Refresh(FALSE)
  /\ UNCHANGED <<broker, source, connected, timer>>

\* Half of the five seconds.
Elapse ==
  /\ timer = "early"
  /\ timer' = "late"
  /\ UNCHANGED <<broker, refresh, source, connected, mail, noticed>>

\* Variant for the mutation runs: a callback that finds a refresh in flight leaves
\* it to that one to go on.
PollJoins ==
  /\ timer = "late"
  /\ Refresh(TRUE)
  /\ timer' = "off"
  /\ UNCHANGED <<broker, source, connected, mail>>

\* The polling callback: if its refresh had to queue, route returns at once and the
\* callback goes on to schedule itself again.
Poll ==
  /\ timer = "late"
  /\ Refresh(TRUE)
  /\ timer' = IF flight # "none" /\ ~connected THEN "early" ELSE "off"
  /\ UNCHANGED <<broker, source, connected, mail>>

-----------------------------------------------------------------------------
Server == Check \/ EnterWait \/ Notified \/ KeepAlive

Next ==
  \/ (Write \/ SilentChange \/ Publish \/ Server) /\ UNCHANGED <<refresh, link, noticed>>
  \/ Served
  \/ Draw
  \/ Fail
  \/ Resize
  \/ Open
  \/ Error
  \/ Emit
  \/ Update
  \/ Elapse
  \/ Poll

Spec == Init /\ [][Next]_vars

\* The server's coroutines run and the keepalive expires; events arrive, and not
\* every stream breaks before its first one; requests end, and do not fail for
\* ever.  The timer runs down from time to time: errors of the stream do not keep
\* coming within five seconds of each other for ever.  A stream that is asked for is
\* opened or refused; one that is open may stay so.
Fairness ==
  /\ WF_vars(Publish /\ UNCHANGED <<refresh, link, noticed>>)
  /\ WF_vars(Server /\ UNCHANGED <<refresh, link, noticed>>)
  /\ SF_vars(Check /\ UNCHANGED <<refresh, link, noticed>>)
  /\ SF_vars(Emit)
  /\ SF_vars(Update)
  /\ SF_vars(Served)
  /\ SF_vars(Draw)
  /\ SF_vars(Elapse)
  /\ SF_vars(Poll)
  /\ WF_vars(Open \/ (Trying /\ Error))

FairSpec == Spec /\ Fairness

-----------------------------------------------------------------------------
\* No change is slept through: a stream that waits without a wake-up under way has
\* yielded the present revision, and a change that came between its last look and
\* its waiting did not pass unseen.  (publish, wait_for_update, event_stream)
NoLostUpdate == stage = "wait" /\ ~woken => sent = revision

\* No reason to refresh is dropped because a refresh is in flight: what the page has
\* noticed and does not show is still to be read, on its way, or queued, unless the
\* last refresh failed.  (route)
NoticedIsShown ==
  \/ shown >= noticed
  \/ flight = "asked"
  \/ flight = "answered" /\ (fetched >= noticed \/ queued)
  \/ failed

\* A page without its stream goes on polling, also while a broken stream reconnects:
\* the timer runs, or the polling callback waits for its refresh.  Only a stream that
\* was asked for the first time and has neither opened nor failed yet is waited for
\* without polling.  (schedulePolling, connectEventStream)
StillPolling ==
  ~initial /\ ~connected =>
    source = "connecting" \/ timer # "off" \/ chained

\* When changes stop, the page comes to show the last one, through failed requests,
\* broken streams, reconnection and polling.  (README.md:29, README.md:244)
EventuallyShown ==
  \A v \in 0 .. MaxChanges : <>[](version = v) => <>[](shown = v)

\* The same of a page whose initial request did not fail.
EventuallyShownOnceDrawn ==
  \A v \in 0 .. MaxChanges :
    <>[](version = v) => <>[](shown = v) \/ <>[](view = "error")
=============================================================================
