------------------------------ MODULE LiveMarket -----------------------------
(***************************************************************************)
(* The live heatmap of one product at a time: the service that selects the *)
(* product and runs its source (src/live_source.cpp), the hub that fans    *)
(* its columns out (src/live_stream.cpp), and the pages (web/app.js).      *)
(*                                                                         *)
(* The service's thread runs one LiveSourceRunner after another; a page's  *)
(* control switches the product on another thread at any time.  Every      *)
(* operation of the hub holds its mutex, and switch_product holds the      *)
(* service's as well, so each of them is one step; all that may come       *)
(* between a check of the session, a read and a publication is not.  The   *)
(* delays between attempts are left out: ReconnectBackoff has them.        *)
(***************************************************************************)
EXTENDS LiveStreamHub

CONSTANTS
  Product,         \* the products that may be selected
  Page,            \* the browser tabs: bounds the model
  FeedKind,        \* "coinbase", "trusted": the sources to consider
  FeedMessage,     \* the raw messages that may come: bounds the model
  FeedEvent,       \* the trusted events that may come: bounds the model
  MaxSessions,     \* how many selections there are: bounds the model
  MaxReceived,     \* how many messages are received: bounds the model
  MaxFailures,     \* how many connections fail: bounds the model
  NoData           \* null where a page has no chart

ASSUME LiveMarketAssumption ==
  /\ FeedKind \subseteq {"coinbase", "trusted"}
  /\ FeedMessage \subseteq RawMessage /\ FeedEvent \subseteq TrustedEvent
  /\ MaxSessions \in Nat \ {0} /\ MaxReceived \in Nat /\ MaxFailures \in Nat

VARIABLES
  session,         \* the session_id_ of the service's selection_ and of the hub
  product,         \* the product_id_ of both
  stored,          \* the hub's columns_
  ready,           \* the hub's ready_
  sourceStatus,    \* the hub's source_status_
  bookStatus,      \* the hub's book_status_
  failure,         \* whether the hub has an error_message_
  kind,            \* what source_factory_ makes
  at,              \* where the service's thread is
  runnerSession,   \* the runner's session_id_
  runnerProduct,   \* the runner's product_id_
  engine,          \* the runner's engine_
  outcome,         \* what the runner is about to publish
  connected,       \* the open websockets
  queue,           \* the messages_ of each subscriber
  chart,           \* each page's state.data
  shown,           \* each page's state.playbackStatus
  refused,         \* the pages that closed an invalid stream, which do not retry
  received,        \* how many messages were received
  failures         \* how many connections failed

hubVars    == <<stored, ready, sourceStatus, bookStatus, failure>>
runnerVars == <<kind, runnerSession, runnerProduct, engine, outcome>>
pageVars   == <<connected, chart, shown, refused>>
counters   == <<received, failures>>
vars       == <<session, product, hubVars, at, runnerVars, queue, pageVars, counters>>

Place == {"idle", "starting", "checking", "opening", "connected", "looping", "reading",
          "publishing", "rejecting", "erring", "failed", "disconnecting", "recovering",
          "announcing", "sleeping", "retrying", "finished"}

NoOutcome == [updates |-> <<>>, changed |-> FALSE, fails |-> FALSE]
Chart     == [product : Product, next : Nat, columns : Seq(Column)]

ASSUME NoDataAssumption == NoData \notin Chart

TypeOK ==
  /\ session \in 1 .. MaxSessions
  /\ product \in Product
  /\ stored \in Seq(StoredColumn) /\ Len(stored) <= MaxColumns
  /\ ready \in BOOLEAN
  /\ sourceStatus \in SourceStatus
  /\ bookStatus \in EngineStatus
  /\ failure \in BOOLEAN
  /\ at \in Place
  /\ runnerSession \in 0 .. MaxSessions
  /\ runnerProduct \in Product
  /\ engine \in Engine
  /\ connected \subseteq Page
  /\ \A page \in Page : chart[page] = NoData \/ chart[page] \in Chart
  /\ shown \in [Page -> StatusName]
  /\ refused \subseteq Page
------------------------------------------------------------------------------
(***************************************************************************)
(* LiveStreamHub, under its mutex.                                         *)
(***************************************************************************)

\* A mutant: a page that has not read all yet gets nothing more.
EnqueueToIdle(messages) ==
  queue' = [page \in Page |-> IF page \in connected /\ queue[page] = <<>> THEN messages
                                                                       ELSE queue[page]]

EnqueueToAll(messages) ==
  queue' = [page \in Page |-> IF page \in connected THEN queue[page] \o messages
                                                    ELSE queue[page]]
ReplaceQueues(messages) ==
  queue' = [page \in Page |-> IF page \in connected THEN messages ELSE queue[page]]

\* A mutant: whoever publishes is believed.
AcceptsAnySession == TRUE

\* accepts_session, asked by the runner's thread.
AcceptsSession == runnerSession = session

BeginProductSession(selected) ==
  /\ session' = session + 1
  /\ product' = selected
  /\ stored' = <<>>
  /\ ready' = FALSE
  /\ sourceStatus' = "connecting"
  /\ bookStatus' = "WaitingForSnapshot"
  /\ failure' = FALSE
  /\ ReplaceQueues(<<Reset(selected), StateMessage("connecting")>>)

PublishSourceStatus(status) ==
  IF ~AcceptsSession THEN UNCHANGED <<hubVars, queue>>
  ELSE /\ sourceStatus' = status
       /\ failure' = (failure /\ status \notin {"connecting", "connected"})
       /\ EnqueueToAll(<<StateMessage(EffectiveStatus(status, bookStatus))>>)
       /\ UNCHANGED <<stored, ready, bookStatus>>

PublishError ==
  IF ~AcceptsSession THEN UNCHANGED <<hubVars, queue>>
  ELSE /\ failure' = TRUE
       /\ EnqueueToAll(<<ErrorMessage>>)
       /\ UNCHANGED <<stored, ready, sourceStatus, bookStatus>>

\* A mutant: pages are not told of the open column's changes.
TellNewColumns(status, result) ==
  EnqueueToAll((IF result.changed THEN <<StateMessage(status)>> ELSE <<>>)
                 \o (IF result.updates = <<>> \/ result.updates[1].replaces THEN <<>>
                     ELSE [i \in DOMAIN result.updates |-> ColumnMessage(result.updates[i])]))

\* The end of publish_locked on a stream the pages already have.
TellUpdates(status, result) ==
  EnqueueToAll((IF result.changed THEN <<StateMessage(status)>> ELSE <<>>)
                 \o [i \in DOMAIN result.updates |-> ColumnMessage(result.updates[i])])

\* publish: with the first column every page gets the whole stream anew; before
\* it they get nothing.
PublishResult(result, status) ==
  IF ~AcceptsSession \/ (~result.changed /\ result.updates = <<>>)
  THEN UNCHANGED <<hubVars, queue>>
  ELSE LET effective == EffectiveStatus(sourceStatus, status)
       IN  /\ stored' = StoreUpdates(stored, result.updates)
           /\ ready' = (ready \/ stored' # <<>>)
           /\ bookStatus' = status
           /\ IF ~ready'  THEN UNCHANGED queue
              ELSE IF ready THEN TellUpdates(effective, result)
              ELSE ReplaceQueues(SnapshotMessages(product, stored', effective, failure))
           /\ UNCHANGED <<sourceStatus, failure>>
------------------------------------------------------------------------------
(***************************************************************************)
(* LiveMarketService and LiveSourceRunner::run, on the service's thread.   *)
(***************************************************************************)

\* A mutant: a runner never notices that its product is no longer selected.
CurrentForever == TRUE

\* is_current_session, under the service's mutex.
IsCurrentSession == runnerSession = session

Goto(from, to) == at = from /\ at' = to

\* A step that only looks at the selection, or at nothing but the thread's own.
RunnerOnly == UNCHANGED <<session, product, hubVars, queue, pageVars, counters>>
Publishing == UNCHANGED <<session, product, runnerVars, pageVars, counters>>

\* Each selection has a runner, and an engine, of its own.
Select ==
  /\ Goto("idle", "starting")
  /\ runnerSession' = session
  /\ runnerProduct' = product
  /\ engine' = NewEngine
  /\ outcome' = NoOutcome
  /\ RunnerOnly /\ UNCHANGED kind

Start == Goto("starting", "checking") /\ PublishSourceStatus("connecting") /\ Publishing

\* A check of should_stop between two steps that may block or publish.
CheckAt(from, to) ==
  /\ Goto(from, IF IsCurrentSession THEN to ELSE "finished")
  /\ RunnerOnly /\ UNCHANGED runnerVars

Check ==
  \/ CheckAt("checking", "opening")
  \/ CheckAt("looping", "reading")
  \/ CheckAt("failed", "disconnecting")

\* source_factory_ returns a source, or throws that the market is unsupported,
\* or throws anything else.
Open == Goto("opening", "connected") /\ RunnerOnly /\ UNCHANGED runnerVars

OpenUnsupported ==
  /\ Goto("opening", IF IsCurrentSession THEN "rejecting" ELSE "finished")
  /\ RunnerOnly /\ UNCHANGED runnerVars

Fails(from) ==
  /\ Goto(from, "failed") /\ failures < MaxFailures
  /\ failures' = failures + 1
  /\ UNCHANGED <<session, product, hubVars, runnerVars, queue, pageVars, received>>

Connected == Goto("connected", "looping") /\ PublishSourceStatus("connected") /\ Publishing

\* What process made of a message waits to be published.
Processed(result, fails) ==
  /\ engine' = result.engine
  /\ outcome' = [updates |-> result.updates, changed |-> result.changed, fails |-> fails]
  /\ at' = "publishing"

\* read returns a message, which is dropped if the selection has changed.  Only
\* messages about books are counted: heartbeats never end.
ReceiveRaw(message) ==
  /\ kind = "coinbase" /\ at = "reading"
  /\ message.book = NotOurs \/ received < MaxReceived
  /\ received' = IF message.book = NotOurs THEN received ELSE received + 1
  /\ IF ~IsCurrentSession THEN at' = "finished" /\ UNCHANGED <<engine, outcome>>
     ELSE LET result == ProcessRaw(engine, message)
          IN  Processed(result, result.engine.status = "Gap")
  /\ UNCHANGED <<session, product, hubVars, kind, runnerSession, runnerProduct, queue,
                 pageVars, failures>>

\* Coinbase's subscription error, or Kraken's permanent rejection of the market,
\* ends the runner.
ReceiveRejection ==
  /\ Goto("reading", IF IsCurrentSession THEN "rejecting" ELSE "finished")
  /\ RunnerOnly /\ UNCHANGED runnerVars

\* A trusted event; an invalidation is an exception once it is published, a book
\* older than the last at once.
ReceiveTrusted(event) ==
  /\ kind = "trusted" /\ at = "reading" /\ received < MaxReceived
  /\ received' = received + 1
  /\ IF ~IsCurrentSession THEN at' = "finished" /\ UNCHANGED <<engine, outcome>>
     ELSE IF Refuses(engine, event) THEN at' = "failed" /\ UNCHANGED <<engine, outcome>>
     ELSE Processed(ProcessTrusted(engine, event), event.type = "Invalidated")
  /\ UNCHANGED <<session, product, hubVars, kind, runnerSession, runnerProduct, queue,
                 pageVars, failures>>

PublishOutcome ==
  /\ Goto("publishing", IF outcome.fails THEN "failed" ELSE "looping")
  /\ PublishResult(outcome, engine.status)
  /\ outcome' = NoOutcome
  /\ UNCHANGED <<session, product, kind, runnerSession, runnerProduct, engine, pageVars,
                 counters>>

\* The end of a runner whose product cannot be had.
Reject == Goto("rejecting", "erring") /\ PublishSourceStatus("disconnected") /\ Publishing
ReportError == Goto("erring", "finished") /\ PublishError /\ Publishing

\* The catch of run, when the session is still current.
Disconnected ==
  Goto("disconnecting", "recovering") /\ PublishSourceStatus("disconnected") /\ Publishing

PublishRecovery ==
  /\ Goto("recovering", "announcing")
  /\ engine' = BeginRecovery(engine)
  /\ PublishResult(Outcome(engine, engine', <<>>), engine'.status)
  /\ UNCHANGED <<session, product, kind, runnerSession, runnerProduct, outcome, pageVars,
                 counters>>

Announce ==
  Goto("announcing", "sleeping") /\ PublishSourceStatus("reconnecting") /\ Publishing

WakeUp == CheckAt("sleeping", "retrying")

Retry == Goto("retrying", "checking") /\ PublishSourceStatus("reconnecting") /\ Publishing

\* LiveMarketService::run waits until another product is selected.
AwaitSwitch ==
  /\ ~IsCurrentSession /\ Goto("finished", "idle")
  /\ RunnerOnly /\ UNCHANGED runnerVars
------------------------------------------------------------------------------
(***************************************************************************)
(* The pages and their websockets.                                         *)
(***************************************************************************)

\* switch_product, which a page's control asks for: selecting the product that
\* is selected does nothing.
SwitchProduct(selected) ==
  /\ connected # {} /\ session < MaxSessions
  /\ selected # product
  /\ BeginProductSession(selected)
  /\ UNCHANGED <<at, runnerVars, pageVars, counters>>

Subscribe(page) ==
  /\ page \notin connected \cup refused
  /\ connected' = connected \cup {page}
  /\ queue' = [queue EXCEPT ![page] =
                 LET status == EffectiveStatus(sourceStatus, bookStatus)
                 IN  IF ready THEN SnapshotMessages(product, stored, status, failure)
                              ELSE PendingMessages(status, failure)]
  /\ UNCHANGED <<session, product, hubVars, at, runnerVars, chart, shown, refused, counters>>

\* The page's close handler keeps the chart.
Closed(page) ==
  /\ connected' = connected \ {page}
  /\ queue' = [queue EXCEPT ![page] = <<>>]
  /\ shown' = [shown EXCEPT ![page] = "disconnected"]

Disconnect(page) ==
  /\ page \in connected
  /\ failures < MaxFailures /\ failures' = failures + 1
  /\ Closed(page)
  /\ UNCHANGED <<session, product, hubVars, at, runnerVars, chart, refused, received>>

\* handleColumn throws on a column that does not follow the ones it has.
Refusing(data, message) ==
  /\ message.type = "column"
  /\ \/ data = NoData
     \/ message.update.replaces
          /\ (data.columns = <<>> \/ message.update.index # data.next - 1)
     \/ ~message.update.replaces /\ message.update.index # data.next

\* A page's chart after handleStreamMessage.
ChartAfter(data, message) ==
  CASE message.type = "reset" -> NoData
    [] message.type = "hello" ->
         [product |-> message.product, next |-> message.first, columns |-> <<>>]
    [] message.type = "column" /\ message.update.replaces ->
         [data EXCEPT !.columns = [@ EXCEPT ![Len(@)] = message.update.column]]
    [] message.type = "column" /\ ~message.update.replaces ->
         [data EXCEPT !.next = @ + 1,
                      !.columns = AppendColumn(@, message.update.column)]
    [] OTHER -> data

ShownAfter(status, message) ==
  IF message.type \in {"reset", "hello"} THEN "connecting"
  ELSE IF message.type = "state" THEN message.status ELSE status

Deliver(page) ==
  /\ page \in connected /\ queue[page] # <<>>
  /\ LET message == Head(queue[page])
     IN  IF Refusing(chart[page], message)
         THEN /\ Closed(page)
              /\ refused' = refused \cup {page}
              /\ UNCHANGED chart
         ELSE /\ chart' = [chart EXCEPT ![page] = ChartAfter(@, message)]
              /\ shown' = [shown EXCEPT ![page] = ShownAfter(@, message)]
              /\ queue' = [queue EXCEPT ![page] = Tail(@)]
              /\ UNCHANGED <<connected, refused>>
  /\ UNCHANGED <<session, product, hubVars, at, runnerVars, counters>>
------------------------------------------------------------------------------
Init ==
  /\ session = 1
  /\ product \in Product
  /\ stored = <<>>
  /\ ready = FALSE
  /\ sourceStatus = "connecting"
  /\ bookStatus = "WaitingForSnapshot"
  /\ failure = FALSE
  /\ kind \in FeedKind
  /\ at = "idle"
  /\ runnerSession = 0
  /\ runnerProduct = product
  /\ engine = NewEngine
  /\ outcome = NoOutcome
  /\ connected = {}
  /\ queue = [page \in Page |-> <<>>]
  /\ chart = [page \in Page |-> NoData]
  /\ shown = [page \in Page |-> "connecting"]
  /\ refused = {}
  /\ received = 0
  /\ failures = 0

Receive ==
  \/ \E message \in FeedMessage : ReceiveRaw(message)
  \/ \E event \in FeedEvent : ReceiveTrusted(event)

RunnerStep ==
  \/ Select \/ Start \/ Check \/ Connected \/ PublishOutcome \/ Reject \/ ReportError
  \/ Disconnected \/ PublishRecovery \/ Announce \/ WakeUp \/ Retry \/ AwaitSwitch

Next ==
  \/ RunnerStep
  \/ Open \/ OpenUnsupported \/ Fails("opening")
  \/ Receive \/ ReceiveRejection \/ Fails("reading")
  \/ \E selected \in Product : SwitchProduct(selected)
  \/ \E page \in Page : Subscribe(page) \/ Disconnect(page) \/ Deliver(page)

Spec == Init /\ [][Next]_vars

\* The service's thread is scheduled, a connection attempt ends, and on an open
\* connection something is read: Coinbase sends heartbeats.  What is queued for
\* an open websocket is written to it.
Fairness ==
  /\ WF_vars(RunnerStep)
  /\ WF_vars(Open \/ OpenUnsupported \/ Fails("opening"))
  /\ WF_vars(Receive \/ ReceiveRejection \/ Fails("reading"))
  /\ \A page \in Page : WF_vars(Deliver(page))

FairSpec == Spec /\ Fairness
------------------------------------------------------------------------------
(***************************************************************************)
(* Correctness.                                                            *)
(***************************************************************************)

\* The hub holds what the runner of the selected product has published, and
\* nothing of a product that is no longer selected: whatever an old runner still
\* publishes after a switch is dropped.
HubMirrorsRunner ==
  LET columns == engine.history.columns
  IN  IF runnerSession # session
      THEN stored = <<>> /\ bookStatus = "WaitingForSnapshot" /\ ~failure
      ELSE at # "publishing" =>
             /\ bookStatus = engine.status
             /\ stored = [i \in DOMAIN columns |->
                            [index  |-> engine.nextIndex - Len(columns) + i - 1,
                             column |-> columns[i]]]

\* What a page shows once it has read all that is queued for it.
ChartRead(page) ==
  LET data[taken \in 0 .. Len(queue[page])] ==
        IF taken = 0 THEN chart[page] ELSE ChartAfter(data[taken - 1], queue[page][taken])
  IN  data[Len(queue[page])]

StatusRead(page) ==
  LET status[taken \in 0 .. Len(queue[page])] ==
        IF taken = 0 THEN shown[page] ELSE ShownAfter(status[taken - 1], queue[page][taken])
  IN  status[Len(queue[page])]

\* A page that reads on shows the hub's columns of the selected product, and its
\* status, once there are columns: from whatever it has, through resets, the
\* stream it starts with and all that is queued behind.
PagesCatchUp ==
  ready => \A page \in connected :
    /\ ChartRead(page) =
         [product |-> product,
          next    |-> LastOf(stored).index + 1,
          columns |-> [i \in DOMAIN stored |-> stored[i].column]]
    /\ StatusRead(page) = EffectiveStatus(sourceStatus, bookStatus)

\* No page is ever sent a column that does not follow what it has: the stream is
\* valid for late pages, for pages that come back and across a switch.
StreamIsValid == refused = {}

\* README.md: "A switch is global to the local viewer process and all connected
\* browser tabs. It [...] clears the previous product's columns".
ConnectedPagesShowSelection ==
  \A page \in connected :
    queue[page] = <<>> /\ chart[page] # NoData => chart[page].product = product

\* The selected product gets its runner, whatever the one before was doing.
SwitchIsServed == runnerSession # session ~> runnerSession = session

\* A page that shows a lost source's chart live does not go on doing so.
LossReachesPages ==
  \A page \in Page :
    (at = "failed" /\ runnerSession = session /\ shown[page] = "Live")
      ~> (shown[page] # "Live")
==============================================================================
