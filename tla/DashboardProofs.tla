--------------------------- MODULE DashboardProofs ---------------------------
(***************************************************************************)
(* The safety properties of the dashboard page and its event stream, for   *)
(* any number of changes and of events on their way.                       *)
(***************************************************************************)
EXTENDS Dashboard, TLAPS

\* The first refresh is in flight before there is a stream, and the polling callback
\* only waits for a refresh in flight.
Started ==
  /\ initial => source = "none" /\ flight # "none"
  /\ chained => flight # "none"

\* What a stream has yielded before it waits: its revision; and nothing was
\* published since, unless it was woken.
Looked ==
  /\ stage \in {"enter", "wait"} => sent = local
  /\ stage = "wait" /\ ~woken => local = revision

\* No refresh is to show less than was noticed before it was asked for.
Fresh ==
  /\ noticed <= version
  /\ flight = "none" => shown >= noticed \/ failed
  /\ flight = "answered" => fetched >= noticed \/ queued

IInv == TypeOK /\ Started /\ Looked /\ Fresh /\ StillPolling

-----------------------------------------------------------------------------
(* The stream.                                                             *)

\* The numbers of BrokerTypeOK.
Counts ==
  /\ version \in 0 .. MaxChanges
  /\ owing \in 0 .. MaxChanges
  /\ revision \in 0 .. MaxChanges
  /\ owing + revision <= version
  /\ stage \in Stages
  /\ local \in 0 .. revision
  /\ sent \in -1 .. revision

LEMMA BrokerTypeParts == BrokerTypeOK <=> Counts /\ woken \in BOOLEAN
BY DEF BrokerTypeOK, Counts

StreamStep == Write \/ SilentChange \/ Publish \/ Server

\* The broker's and the stream's own steps: a stream stays open or closed, and
\* versions only grow.
LEMMA StreamKeeps ==
  ASSUME BrokerTypeOK, Looked, StreamStep
  PROVE  /\ BrokerTypeOK' /\ Looked'
         /\ stage' # "off" <=> stage # "off"
         /\ version <= version'
<1>. USE BrokerTypeParts DEF StreamStep, Server
<1>1. woken' \in BOOLEAN
  BY DEF Write, SilentChange, Publish, Check, EnterWait, Notified, KeepAlive, Return
<1>2. Counts' /\ (stage' # "off" <=> stage # "off") /\ version <= version'
  <2>. USE BrokerAssumption DEF Counts, Stages
  <2>1. CASE Write \/ SilentChange
    BY <2>1 DEF Write, SilentChange
  <2>2. CASE Publish
    <3>1. /\ owing > 0 /\ owing' = owing - 1 /\ revision' = revision + 1
          /\ UNCHANGED <<version, stage, local, sent>>
      BY <2>2 DEF Publish
    <3>. QED  BY <3>1
  <2>3. CASE Check
    BY <2>3 DEF Check
  <2>4. CASE Notified \/ KeepAlive \/ EnterWait
    <3>1. /\ UNCHANGED <<version, owing, revision, sent>>
          /\ local' \in {local, revision}
          /\ stage \in {"wait", "enter"} /\ stage' \in {"check", "wait"}
      BY <2>4 DEF Notified, KeepAlive, EnterWait, Return
    <3>. QED  BY <3>1
  <2>. QED  BY <2>1, <2>2, <2>3, <2>4
<1>3. Looked'
  <2>1. CASE Write \/ SilentChange
    BY <2>1 DEF Write, SilentChange, Looked
  <2>2. CASE Publish
    BY <2>2 DEF Publish, Looked
  <2>3. CASE Check \/ Notified \/ KeepAlive
    BY <2>3 DEF Check, Notified, KeepAlive, Return, Looked
  <2>4. CASE EnterWait
    BY <2>4 DEF EnterWait, Return, Looked
  <2>. QED  BY <2>1, <2>2, <2>3, <2>4
<1>. QED  BY <1>1, <1>2, <1>3 DEF BrokerTypeOK, Counts

\* An event is yielded.
LEMMA YieldKeeps ==
  ASSUME BrokerTypeOK, Looked, Yield
  PROVE  BrokerTypeOK' /\ Looked' /\ stage' # "off" /\ stage # "off" /\ UNCHANGED version
BY DEF BrokerTypeOK, Stages, Looked, Yield

\* A stream opens or closes.
LEMMA OpenCloseKeeps ==
  ASSUME BrokerTypeOK, OpenStream \/ CloseStream
  PROVE  /\ BrokerTypeOK' /\ Looked' /\ UNCHANGED version
         /\ OpenStream => stage' # "off"
         /\ CloseStream => stage' = "off"
<1>. USE BrokerTypeParts
<1>1. /\ UNCHANGED <<version, owing, revision>>
      /\ local' \in {0, revision} /\ sent' = -1
      /\ stage' \in {"check", "off"}
      /\ OpenStream => stage' = "check"
      /\ CloseStream => stage' = "off"
  BY DEF OpenStream, CloseStream
<1>2. woken' = FALSE
  BY DEF OpenStream, CloseStream
<1>3. Counts'
  BY <1>1 DEF Counts, Stages
<1>4. woken' \in BOOLEAN
  BY <1>2
<1>. QED  BY <1>1, <1>3, <1>4 DEF Looked, BrokerTypeOK, Counts

-----------------------------------------------------------------------------
(* The page.                                                               *)

\* What the invariant says of a refresh, apart from the stream.
RefreshOK ==
  /\ view \in {"template", "data", "error"}
  /\ shown \in Versions /\ fetched \in Versions /\ noticed \in Versions
  /\ flight \in {"none", "asked", "answered"}
  /\ initial \in BOOLEAN /\ chained \in BOOLEAN /\ queued \in BOOLEAN
  /\ failed \in BOOLEAN
  /\ queued => flight # "none"

\* A request for a refresh leads to one that is still to read the store.
LEMMA RefreshKeeps ==
  ASSUME IInv, NEW poll \in BOOLEAN, Refresh(poll), UNCHANGED <<version, source>>
  PROVE  /\ RefreshOK' /\ Started' /\ Fresh'
         /\ chained => chained'
         /\ poll /\ flight = "none" => chained'
         /\ UNCHANGED initial
<1>. USE DEF IInv
<1>1. /\ noticed' = version
      /\ flight' = IF flight # "none" THEN flight ELSE "asked"
      /\ UNCHANGED <<view, shown, fetched, initial, failed>>
  BY DEF Refresh
<1>2. noticed' \in Versions /\ version \in Int
  BY <1>1, BrokerAssumption DEF TypeOK, BrokerTypeOK, Versions
<1>3. queued' \in BOOLEAN /\ chained' \in BOOLEAN
  BY DEF Refresh, TypeOK
<1>4. IF flight # "none" THEN queued' = TRUE /\ chained' = chained
                         ELSE queued' = queued /\ chained' = poll
  BY DEF Refresh
<1>5. RefreshOK'
  BY <1>1, <1>2, <1>3 DEF RefreshOK, TypeOK, Versions
<1>6. Started' /\ (chained => chained') /\ (poll /\ flight = "none" => chained')
  BY <1>1, <1>4 DEF Started
<1>7. Fresh'
  <2>1. flight' = "answered" => queued'
    BY <1>1, <1>4
  <2>. QED  BY <1>1, <1>2, <2>1 DEF Fresh, TypeOK
<1>. QED  BY <1>1, <1>5, <1>6, <1>7

\* The end of a refresh that was drawn, or failed.
LEMMA FinishKeeps ==
  ASSUME IInv, flight # "none", NEW f \in BOOLEAN, Finish(f),
         view' \in {"template", "data", "error"}, shown' \in Versions,
         ~f /\ ~queued => shown' >= noticed
  PROVE  IInv'
<1>. USE DEF IInv
<1>1. /\ flight' = (IF queued THEN "asked" ELSE "none")
      /\ failed' = f /\ fetched' = -1
      /\ initial' = FALSE /\ chained' = FALSE /\ queued' = FALSE
      /\ UNCHANGED <<version, owing, revision, stage, local, woken, sent>>
      /\ UNCHANGED noticed
  BY DEF Finish, broker
<1>2. /\ UNCHANGED <<connected, mail>>
      /\ source' = source \/ (initial /\ source' = "connecting")
      /\ timer' \in {"off", "early", "late"}
  BY DEF Finish, Settle, Connect, TypeOK
<1>3. BrokerTypeOK' /\ Looked'
  BY <1>1 DEF TypeOK, BrokerTypeOK, Looked
<1>4. TypeOK'
  <2>1. -1 \in Versions
    BY BrokerAssumption DEF Versions
  <2>2. source' \in {"none", "connecting", "open", "reconnecting", "closed"}
    BY <1>2 DEF TypeOK
  <2>3. (stage' # "off" <=> source' = "open") /\ (connected' <=> source' = "open")
    BY <1>1, <1>2 DEF TypeOK, Started
  <2>. QED  BY <1>1, <1>2, <1>3, <2>1, <2>2, <2>3 DEF TypeOK, Versions
<1>5. Started'
  BY <1>1 DEF Started
<1>6. Fresh'
  BY <1>1 DEF Fresh, TypeOK
<1>7. StillPolling'
  <2>1. CASE initial
    BY <1>1, <2>1 DEF Finish, Settle, Connect, StillPolling
  <2>2. CASE ~initial
    BY <1>1, <1>2, <2>2 DEF Finish, Settle, StillPolling
  <2>. QED  BY <2>1, <2>2
<1>. QED  BY <1>3, <1>4, <1>5, <1>6, <1>7

-----------------------------------------------------------------------------
LEMMA InvInit == Init => IInv
<1>. SUFFICES ASSUME Init PROVE IInv
  OBVIOUS
<1>. USE BrokerAssumption, DashboardAssumption DEF Init
<1>1. BrokerTypeOK /\ Looked
  <2>1. Counts
    BY DEF BrokerInit, Counts, Stages
  <2>2. woken \in BOOLEAN
    BY DEF BrokerInit
  <2>. QED  BY <2>1, <2>2, BrokerTypeParts DEF BrokerInit, Looked
<1>2. TypeOK
  <2>1. /\ -1 \in Versions /\ 0 \in Versions
        /\ 0 \in 0 .. MaxMail
    BY DEF Versions
  <2>2. connected \in BOOLEAN /\ (connected <=> source = "open")
    OBVIOUS
  <2>3. queued => flight # "none"
    OBVIOUS
  <2>4. initial \in BOOLEAN /\ chained \in BOOLEAN /\ queued \in BOOLEAN /\ failed \in BOOLEAN
    OBVIOUS
  <2>5. stage # "off" <=> source = "open"
    BY DEF BrokerInit
  <2>. QED  BY <1>1, <2>1, <2>2, <2>3, <2>4, <2>5 DEF TypeOK
<1>3. Started /\ Fresh /\ StillPolling
  BY DEF Started, Fresh, StillPolling, BrokerInit
<1>. QED  BY <1>1, <1>2, <1>3 DEF IInv

\* Every step keeps the invariant.
LEMMA InvStep == IInv /\ [Next]_vars => IInv'
<1>. SUFFICES ASSUME IInv, [Next]_vars PROVE IInv'
  OBVIOUS
<1>. USE DEF IInv
<1>0. BrokerTypeOK
  BY DEF TypeOK
<1>1. CASE StreamStep /\ UNCHANGED <<refresh, link, noticed>>
  <2>1. BrokerTypeOK' /\ Looked' /\ (stage' # "off" <=> stage # "off") /\ version <= version'
    BY <1>0, <1>1, StreamKeeps
  <2>2. TypeOK'
    BY <1>1, <2>1 DEF TypeOK, refresh, link
  <2>3. Started' /\ StillPolling'
    BY <1>1 DEF Started, StillPolling, refresh, link
  <2>4. Fresh'
    BY <1>1, <2>1, BrokerAssumption DEF Fresh, refresh, TypeOK, BrokerTypeOK, Versions
  <2>. QED  BY <2>1, <2>2, <2>3, <2>4
<1>2. CASE Served
  <2>1. UNCHANGED <<version, owing, revision, stage, local, woken, sent>>
    BY <1>2 DEF Served, broker
  <2>2. TypeOK'
    BY <1>2, <2>1 DEF Served, TypeOK, BrokerTypeOK, Versions, link
  <2>3. Started' /\ Looked' /\ StillPolling'
    BY <1>2, <2>1 DEF Served, Started, Looked, StillPolling, link
  <2>4. Fresh'
    BY <1>2, <2>1 DEF Served, Fresh
  <2>. QED  BY <2>2, <2>3, <2>4
<1>3. CASE Draw
  <2>1. CASE view = "error"
    BY <1>3, <2>1, FinishKeeps DEF Draw, TypeOK
  <2>2. CASE view # "error"
    <3>1. fetched >= noticed \/ queued
      BY <1>3 DEF Draw, Fresh
    <3>. QED  BY <1>3, <2>2, <3>1, FinishKeeps DEF Draw, TypeOK
  <2>. QED  BY <2>1, <2>2
<1>4. CASE Fail
  BY <1>4, FinishKeeps DEF Fail, TypeOK
<1>5. CASE Resize
  <2>1. Refresh(FALSE) /\ UNCHANGED <<version, owing, revision, stage, local, woken, sent>>
    BY <1>5 DEF Resize, broker
  <2>2. UNCHANGED <<source, connected, timer, mail>>
    BY <1>5 DEF Resize, link
  <2>3. RefreshOK' /\ Started' /\ Fresh' /\ (chained => chained') /\ UNCHANGED initial
    BY <2>1, <2>2, RefreshKeeps
  <2>4. TypeOK' /\ Looked' /\ StillPolling'
    BY <2>1, <2>2, <2>3 DEF RefreshOK, TypeOK, BrokerTypeOK, Looked, StillPolling
  <2>. QED  BY <2>3, <2>4
<1>6. CASE Open
  <2>1. BrokerTypeOK' /\ Looked' /\ stage' # "off" /\ UNCHANGED version
    BY <1>0, <1>6, OpenCloseKeeps DEF Open
  <2>2. TypeOK' /\ Started' /\ StillPolling' /\ Fresh'
    BY <1>6, <2>1 DEF Open, Trying, TypeOK, Started, StillPolling, Fresh, refresh
  <2>. QED  BY <2>1, <2>2
<1>7. CASE Error
  <2>1. BrokerTypeOK' /\ Looked' /\ stage' = "off" /\ UNCHANGED version
    BY <1>0, <1>7, OpenCloseKeeps DEF Error
  <2>2. TypeOK' /\ Started' /\ StillPolling' /\ Fresh'
    <3>1. /\ source' \in {"reconnecting", "closed"} /\ timer' = "early" /\ mail' = 0
          /\ UNCHANGED <<view, shown, flight, fetched, initial, chained, queued, failed>>
          /\ UNCHANGED noticed
      BY <1>7 DEF Error, refresh
    <3>2. connected' = FALSE
      BY <1>7 DEF Error
    <3>3. source # "none"
      BY <1>7 DEF Error, Trying
    <3>4. connected' \in BOOLEAN /\ (connected' <=> source' = "open")
      BY <3>1, <3>2
    <3>. QED
      BY <2>1, <3>1, <3>3, <3>4, DashboardAssumption
         DEF TypeOK, Started, StillPolling, Fresh, Versions
  <2>. QED  BY <2>1, <2>2
<1>8. CASE Emit
  <2>1. BrokerTypeOK' /\ Looked' /\ stage' # "off" /\ stage # "off" /\ UNCHANGED version
    BY <1>0, <1>8, YieldKeeps DEF Emit
  <2>2. TypeOK'
    BY <1>8, <2>1, DashboardAssumption DEF Emit, TypeOK, refresh
  <2>3. Started' /\ StillPolling' /\ Fresh'
    BY <1>8, <2>1 DEF Emit, Started, StillPolling, Fresh, refresh
  <2>. QED  BY <2>1, <2>2, <2>3
<1>9. CASE Update
  <2>1. Refresh(FALSE) /\ UNCHANGED <<version, owing, revision, stage, local, woken, sent>>
    BY <1>9 DEF Update, broker
  <2>2. UNCHANGED <<source, connected, timer>> /\ mail > 0 /\ mail' = mail - 1
    BY <1>9 DEF Update
  <2>3. RefreshOK' /\ Started' /\ Fresh' /\ (chained => chained') /\ UNCHANGED initial
    BY <2>1, <2>2, RefreshKeeps
  <2>4. TypeOK' /\ Looked' /\ StillPolling'
    BY <2>1, <2>2, <2>3, DashboardAssumption
       DEF RefreshOK, TypeOK, BrokerTypeOK, Looked, StillPolling
  <2>. QED  BY <2>3, <2>4
<1>10. CASE Elapse
  BY <1>10 DEF Elapse, broker, refresh, TypeOK, BrokerTypeOK, Versions, Started, Looked,
              Fresh, StillPolling
<1>11. CASE Poll
  <2>1. Refresh(TRUE) /\ UNCHANGED <<version, owing, revision, stage, local, woken, sent>>
    BY <1>11 DEF Poll, broker
  <2>2. /\ UNCHANGED <<source, connected, mail>>
        /\ timer' = IF flight # "none" /\ ~connected THEN "early" ELSE "off"
    BY <1>11 DEF Poll
  <2>3. RefreshOK' /\ Started' /\ Fresh' /\ (flight = "none" => chained') /\ UNCHANGED initial
    BY <2>1, <2>2, RefreshKeeps
  <2>4. TypeOK' /\ Looked' /\ StillPolling'
    BY <2>1, <2>2, <2>3 DEF RefreshOK, TypeOK, BrokerTypeOK, Looked, StillPolling
  <2>. QED  BY <2>3, <2>4
<1>12. CASE UNCHANGED vars
  BY <1>12 DEF vars, broker, refresh, link, TypeOK, BrokerTypeOK, Versions, Started, Looked,
               Fresh, StillPolling
<1>. QED
  BY <1>1, <1>2, <1>3, <1>4, <1>5, <1>6, <1>7, <1>8, <1>9, <1>10, <1>11, <1>12
     DEF Next, StreamStep

\* The inductive invariant of page and stream.
THEOREM Invariant == Spec => []IInv
BY InvInit, InvStep, PTL DEF Spec

\* Page and stream stay well-typed: a refresh waits only behind another, and a stream
\* lives with its connection.  (route, connectEventStream, event_stream)
THEOREM TypeCorrect == Spec => []TypeOK
<1>1. IInv => TypeOK
  BY DEF IInv
<1>. QED  BY <1>1, Invariant, PTL

\* A stream that waits unwoken has yielded the present revision.  (wait_for_update)
THEOREM NoLostUpdateHolds == Spec => []NoLostUpdate
<1>1. IInv => NoLostUpdate
  BY DEF IInv, Looked, NoLostUpdate
<1>. QED  BY <1>1, Invariant, PTL

\* What the page noticed is shown, or a refresh is under way that will show it, or the
\* last refresh failed.  (route)
THEOREM NoticedIsShownHolds == Spec => []NoticedIsShown
<1>1. IInv => NoticedIsShown
  BY DEF IInv, TypeOK, Fresh, NoticedIsShown
<1>. QED  BY <1>1, Invariant, PTL

\* A page without its stream goes on polling.  (schedulePolling)
THEOREM StillPollingHolds == Spec => []StillPolling
<1>1. IInv => StillPolling
  BY DEF IInv
<1>. QED  BY <1>1, Invariant, PTL
=============================================================================
