--------------------------- MODULE LiveMarketProofs ---------------------------
(***************************************************************************)
(* What the hub holds and what the pages come to show, for any number of   *)
(* products, pages, selections, messages and failures, and windows of any  *)
(* length.                                                                 *)
(*                                                                         *)
(* Two things are not in the state the properties speak of.  The engine    *)
(* has moved on when its outcome waits to be published: then there is the  *)
(* engine it was, which the hub mirrors.  And what a page will show is     *)
(* decided by what is queued for it: there are the charts it comes by.     *)
(***************************************************************************)
EXTENDS LiveMarket, LiveStreamHubProofs, WellFoundedInduction

------------------------------------------------------------------------------
(***************************************************************************)
(* The hub and the runner.                                                 *)
(***************************************************************************)

\* The hub has all of an engine: its window and its status.
Mirrors(some) == Consistent(some) /\ bookStatus = some.status /\ stored = Numbered(some)

\* An outcome that waits tells what changed since the engine the hub mirrors.
AwaitsPublication ==
  \E before :
    /\ Mirrors(before)
    /\ Tells(before, outcome.updates, engine)
    /\ ~outcome.changed => engine.status = before.status

\* The inductive invariant of the hub and the runner.
RunnerInv ==
  /\ session \in 1 .. MaxSessions /\ product \in Product
  /\ sourceStatus \in SourceStatus /\ failure \in BOOLEAN
  /\ ready = (stored # <<>>)
  /\ at \in Place /\ (at = "idle" => runnerSession # session)
  /\ runnerSession \in 0 .. session /\ runnerProduct \in Product
  /\ Consistent(engine)
  /\ runnerSession # session =>
       stored = <<>> /\ bookStatus = "WaitingForSnapshot" /\ ~failure
  /\ runnerSession = session /\ at = "publishing" => AwaitsPublication
  /\ runnerSession = session /\ at # "publishing" => Mirrors(engine)

\* The window's members, as HubMirrorsRunner lists them.
LEMMA MirroredWindow ==
  ASSUME NEW some, Mirrors(some)
  PROVE  /\ bookStatus \in EngineStatus
         /\ stored \in Seq(StoredColumn) /\ Len(stored) <= MaxColumns
         /\ stored = [i \in DOMAIN some.history.columns |->
                        [index  |-> some.nextIndex - Len(some.history.columns) + i - 1,
                         column |-> some.history.columns[i]]]
<1>1. /\ some \in Engine /\ some.history.columns \in Seq(Column)
      /\ Len(some.history.columns) <= MaxColumns
      /\ some.nextIndex \in Nat /\ Len(some.history.columns) <= some.nextIndex
      /\ some.status \in EngineStatus
  BY EngineParts DEF Mirrors, Consistent
<1>2. /\ Numbered(some) \in Seq(StoredColumn)
      /\ Len(Numbered(some)) = Len(some.history.columns)
  BY <1>1, NumberedType DEF Numbered
<1>3. QED
  BY <1>1, <1>2 DEF Mirrors, Numbered, NumberedColumns

LEMMA RunnerInvIsEnough ==
  ASSUME RunnerInv
  PROVE  /\ HubMirrorsRunner
         /\ session \in 1 .. MaxSessions /\ product \in Product
         /\ stored \in Seq(StoredColumn) /\ Len(stored) <= MaxColumns
         /\ ready \in BOOLEAN /\ sourceStatus \in SourceStatus /\ bookStatus \in EngineStatus
         /\ failure \in BOOLEAN /\ at \in Place /\ runnerSession \in 0 .. MaxSessions
         /\ runnerProduct \in Product /\ engine \in Engine
<1>0. /\ session \in 1 .. MaxSessions /\ product \in Product
      /\ ready \in BOOLEAN /\ sourceStatus \in SourceStatus
      /\ failure \in BOOLEAN /\ at \in Place /\ runnerSession \in 0 .. MaxSessions
      /\ runnerProduct \in Product /\ engine \in Engine
  <2>1. session \in 1 .. MaxSessions /\ runnerSession \in 0 .. session
    BY DEF RunnerInv
  <2>2. runnerSession \in 0 .. MaxSessions
    BY <2>1, LiveMarketAssumption
  <2>3. ready \in BOOLEAN
    BY Zenon DEF RunnerInv
  <2>4. QED
    BY <2>1, <2>2, <2>3, Zenon DEF RunnerInv, Consistent
<1>1. CASE runnerSession # session
  <2>1. stored = <<>> /\ bookStatus = "WaitingForSnapshot" /\ ~failure
    BY <1>1 DEF RunnerInv
  <2>2. stored \in Seq(StoredColumn) /\ Len(stored) <= MaxColumns
    BY <2>1, HeatmapConfigAssumption
  <2>3. bookStatus \in EngineStatus
    BY <2>1 DEF EngineStatus
  <2>4. HubMirrorsRunner
    BY <1>1, <2>1, Zenon DEF HubMirrorsRunner
  <2>5. QED
    BY <1>0, <2>2, <2>3, <2>4, Zenon
<1>2. CASE runnerSession = session
  <2>1. PICK some : Mirrors(some) /\ (at # "publishing" => some = engine)
    <3>1. CASE at = "publishing"
      BY <1>2, <3>1, Zenon DEF RunnerInv, AwaitsPublication
    <3>2. CASE at # "publishing"
      BY <1>2, <3>2, Zenon DEF RunnerInv
    <3>3. QED
      BY <3>1, <3>2
  <2>2. /\ bookStatus \in EngineStatus
        /\ stored \in Seq(StoredColumn) /\ Len(stored) <= MaxColumns
        /\ stored = [i \in DOMAIN some.history.columns |->
                       [index  |-> some.nextIndex - Len(some.history.columns) + i - 1,
                        column |-> some.history.columns[i]]]
    BY <2>1, MirroredWindow
  <2>3. HubMirrorsRunner
    <3>1. at # "publishing" => bookStatus = engine.status
      BY <2>1 DEF Mirrors
    <3>2. QED
      BY <1>2, <2>1, <2>2, <3>1 DEF HubMirrorsRunner
  <2>4. QED
    BY <1>0, <2>2, <2>3, Zenon
<1>3. QED
  BY <1>1, <1>2

\* A window that has columns keeps some.
LEMMA ToldColumnsStay ==
  ASSUME NEW before, Consistent(before), NEW updates, NEW after, Consistent(after),
         Tells(before, updates, after), Numbered(before) # <<>>
  PROVE  Numbered(after) # <<>>
<1> DEFINE older == before.history.columns
           newer == after.history.columns
<1>1. /\ older \in Seq(Column) /\ Len(older) <= MaxColumns
      /\ before.nextIndex \in Nat /\ Len(older) <= before.nextIndex
      /\ newer \in Seq(Column) /\ after.nextIndex \in Nat /\ Len(newer) <= after.nextIndex
  BY EngineParts DEF Consistent
<1>2. Len(Numbered(before)) = Len(older) /\ Len(Numbered(after)) = Len(newer)
      /\ Numbered(after) \in Seq(StoredColumn) /\ Numbered(before) \in Seq(StoredColumn)
  BY <1>1, NumberedType DEF Numbered
<1>3. Len(older) # 0
  BY <1>2, EmptySeq
<1>4. CASE newer = older
  BY <1>2, <1>3, <1>4
<1>5. CASE Replacing(before, updates, after)
  <2>1. PICK column \in Column : newer = [older EXCEPT ![Len(older)] = column]
    BY <1>5, Zenon DEF Replacing
  <2>2. Len(newer) = Len(older)
    <3>1. Len(older) \in 1 .. Len(older)
      BY <1>1, <1>3, LenProperties
    <3> HIDE DEF older, newer
    <3>2. QED
      BY <1>1, <2>1, <3>1, ExceptSeq
  <2>3. QED
    BY <1>2, <1>3, <2>2
<1>6. CASE Adding(before, updates, after)
  <2>1. PICK added \in Seq(Column) :
          Len(added) \in 1 .. MaxColumns /\ Trailing(older, added, newer)
    BY <1>6, Zenon DEF Adding
  <2>2. Len(newer) \in 1 .. MaxColumns
    BY <1>1, <2>1, TrailingParts
  <2>3. QED
    BY <1>2, <2>2
<1>7. QED
  BY <1>4, <1>5, <1>6 DEF Tells

\* publish, of what changed since the engine the hub mirrors.
LEMMA PublishedResult ==
  ASSUME NEW before, Mirrors(before), NEW result, NEW after, Consistent(after),
         Tells(before, result.updates, after),
         ~result.changed => after.status = before.status,
         AcceptsSession, ready = (stored # <<>>), PublishResult(result, after.status)
  PROVE  /\ stored' = Numbered(after) /\ bookStatus' = after.status
         /\ ready' = (stored' # <<>>)
         /\ UNCHANGED <<sourceStatus, failure>>
<1>1. Consistent(before) /\ stored = Numbered(before) /\ bookStatus = before.status
  BY DEF Mirrors
<1>2. StoreUpdates(stored, result.updates) = Numbered(after)
  BY <1>1, HubStoresWindow
<1>3. stored # <<>> => Numbered(after) # <<>>
  BY <1>1, ToldColumnsStay
<1>4. CASE ~result.changed /\ result.updates = <<>>
  <2>1. UNCHANGED hubVars
    BY <1>4 DEF PublishResult
  <2>2. Numbered(after) = stored
    BY <1>2, <1>4 DEF StoreUpdates
  <2>3. QED
    BY <1>1, <1>4, <2>1, <2>2 DEF hubVars
<1>5. CASE ~(~result.changed /\ result.updates = <<>>)
  <2>1. /\ stored' = StoreUpdates(stored, result.updates)
        /\ ready' = (ready \/ stored' # <<>>)
        /\ bookStatus' = after.status
        /\ UNCHANGED <<sourceStatus, failure>>
    BY <1>5 DEF PublishResult
  <2>2. QED
    BY <1>2, <1>3, <2>1
<1>6. QED
  BY <1>4, <1>5
------------------------------------------------------------------------------
(***************************************************************************)
(* The steps of the hub and the runner.                                    *)
(***************************************************************************)

\* A step of the thread that publishes no columns and leaves the engine alone.
LEMMA ThreadStep ==
  ASSUME RunnerInv, UNCHANGED <<session, product, stored, ready, bookStatus>>,
         UNCHANGED <<runnerSession, runnerProduct, engine>>,
         sourceStatus' \in SourceStatus, failure' \in BOOLEAN,
         runnerSession # session => ~failure',
         at # "publishing", at' \in Place \ {"idle", "publishing"}
  PROVE  RunnerInv'
  BY DEF RunnerInv, Mirrors, Consistent, Numbered

\* A status or an error is published, or dropped.
LEMMA StatusStep ==
  ASSUME RunnerInv, UNCHANGED <<session, product, runnerVars>>,
         PublishError \/ \E status \in SourceStatus : PublishSourceStatus(status),
         at # "publishing", at' \in Place \ {"idle", "publishing"}
  PROVE  RunnerInv'
<1>1. /\ UNCHANGED <<stored, ready, bookStatus>>
      /\ sourceStatus' \in SourceStatus /\ failure' \in BOOLEAN
      /\ runnerSession # session => ~failure'
  BY DEF RunnerInv, PublishError, PublishSourceStatus, AcceptsSession, hubVars
<1>2. UNCHANGED <<session, product, runnerSession, runnerProduct, engine>>
  BY DEF runnerVars
<1>3. QED
  BY <1>1, <1>2, ThreadStep

\* An engine's outcome of the runner's thread waits to be published.
LEMMA OutcomeStep ==
  ASSUME RunnerInv, NEW result, NEW fails, Processed(result, fails), at = "reading",
         IsCurrentSession,
         Consistent(result.engine), Tells(engine, result.updates, result.engine),
         ~result.changed => result.engine.status = engine.status,
         UNCHANGED <<session, product, hubVars, runnerSession, runnerProduct>>
  PROVE  RunnerInv'
<1>1. /\ engine' = result.engine /\ at' = "publishing"
      /\ outcome' = [updates |-> result.updates, changed |-> result.changed, fails |-> fails]
  BY DEF Processed
<1>2. Mirrors(engine)
  BY DEF RunnerInv, IsCurrentSession
<1>3. /\ outcome'.updates = result.updates /\ outcome'.changed = result.changed
      /\ UNCHANGED <<stored, bookStatus>>
  BY <1>1 DEF hubVars
<1>4. AwaitsPublication'
  <2>1. /\ Consistent(engine) /\ bookStatus' = engine.status /\ stored' = Numbered(engine)
        /\ Tells(engine, outcome'.updates, engine')
        /\ ~outcome'.changed => engine'.status = engine.status
    BY <1>1, <1>2, <1>3 DEF Mirrors
  <2>2. \E before : /\ Consistent(before) /\ bookStatus' = before.status
                    /\ stored' = Numbered(before)
                    /\ Tells(before, outcome'.updates, engine')
                    /\ ~outcome'.changed => engine'.status = before.status
    BY <2>1, Zenon
  <2>3. QED
    BY <2>2, Zenon DEF AwaitsPublication, Mirrors
<1>5. Consistent(engine)'
  BY <1>1 DEF Consistent
<1>6. QED
  BY <1>1, <1>4, <1>5 DEF RunnerInv, IsCurrentSession, Place, hubVars

LEMMA ReceiveStep ==
  ASSUME RunnerInv, Receive
  PROVE  RunnerInv'
<1>1. ASSUME NEW message \in FeedMessage, ReceiveRaw(message)
      PROVE  RunnerInv'
  <2>1. /\ UNCHANGED <<session, product, hubVars, runnerSession, runnerProduct>>
        /\ at = "reading"
    BY <1>1 DEF ReceiveRaw
  <2>2. CASE ~IsCurrentSession
    <3>1. at' = "finished" /\ engine' = engine
      BY <1>1, <2>2 DEF ReceiveRaw
    <3>2. QED
      BY <2>1, <3>1, ThreadStep DEF hubVars, RunnerInv, Place
  <2>3. CASE IsCurrentSession
    <3> DEFINE result == ProcessRaw(engine, message)
    <3>1. message \in RawMessage /\ Consistent(engine)
      BY LiveMarketAssumption DEF RunnerInv
    <3>2. PICK fails : Processed(result, fails)
      BY <1>1, <2>3 DEF ReceiveRaw
    <3>3. /\ Consistent(result.engine) /\ Tells(engine, result.updates, result.engine)
          /\ ~result.changed => result.engine.status = engine.status
      BY <3>1, RawTells
    <3> HIDE DEF result
    <3>4. QED
      BY <2>1, <2>3, <3>2, <3>3, OutcomeStep
  <2>4. QED
    BY <2>2, <2>3
<1>2. ASSUME NEW event \in FeedEvent, ReceiveTrusted(event)
      PROVE  RunnerInv'
  <2>1. /\ UNCHANGED <<session, product, hubVars, runnerSession, runnerProduct>>
        /\ at = "reading"
    BY <1>2 DEF ReceiveTrusted
  <2>2. CASE ~IsCurrentSession \/ Refuses(engine, event)
    <3>1. at' \in {"finished", "failed"} /\ engine' = engine
      BY <1>2, <2>2 DEF ReceiveTrusted
    <3>2. QED
      BY <2>1, <3>1, ThreadStep DEF hubVars, RunnerInv, Place
  <2>3. CASE IsCurrentSession /\ ~Refuses(engine, event)
    <3> DEFINE result == ProcessTrusted(engine, event)
    <3>1. event \in TrustedEvent /\ Consistent(engine)
      BY LiveMarketAssumption DEF RunnerInv
    <3>2. PICK fails : Processed(result, fails)
      BY <1>2, <2>3 DEF ReceiveTrusted
    <3>3. /\ Consistent(result.engine) /\ Tells(engine, result.updates, result.engine)
          /\ ~result.changed => result.engine.status = engine.status
      BY <2>3, <3>1, TrustedTells
    <3> HIDE DEF result
    <3>4. QED
      BY <2>1, <2>3, <3>2, <3>3, OutcomeStep
  <2>4. QED
    BY <2>2, <2>3
<1>3. QED
  BY <1>1, <1>2 DEF Receive

\* What waits is published; or dropped, when the selection has changed.
LEMMA PublishOutcomeStep ==
  ASSUME RunnerInv, PublishOutcome
  PROVE  RunnerInv'
<1>1. /\ at = "publishing" /\ at' \in {"failed", "looping"}
      /\ UNCHANGED <<session, product, runnerSession, runnerProduct, engine>>
      /\ PublishResult(outcome, engine.status)
  BY DEF PublishOutcome, Goto
<1>2. CASE runnerSession # session
  <2>1. UNCHANGED hubVars
    BY <1>1, <1>2 DEF PublishResult, AcceptsSession
  <2>2. QED
    BY <1>1, <1>2, <2>1 DEF hubVars, RunnerInv, Consistent, Place
<1>3. CASE runnerSession = session
  <2>1. PICK before : /\ Mirrors(before)
                      /\ Tells(before, outcome.updates, engine)
                      /\ ~outcome.changed => engine.status = before.status
    BY <1>1, <1>3, Zenon DEF RunnerInv, AwaitsPublication
  <2>2. Consistent(engine) /\ ready = (stored # <<>>) /\ AcceptsSession
    BY <1>3 DEF RunnerInv, AcceptsSession
  <2>3. /\ stored' = Numbered(engine) /\ bookStatus' = engine.status
        /\ ready' = (stored' # <<>>)
        /\ UNCHANGED <<sourceStatus, failure>>
    BY <1>1, <2>1, <2>2, PublishedResult
  <2>4. Mirrors(engine)'
    BY <1>1, <2>2, <2>3 DEF Mirrors, Consistent, Numbered
  <2>5. QED
    BY <1>1, <1>3, <2>3, <2>4 DEF RunnerInv, Mirrors, Place
<1>4. QED
  BY <1>2, <1>3

LEMMA PublishRecoveryStep ==
  ASSUME RunnerInv, PublishRecovery
  PROVE  RunnerInv'
<1> DEFINE after  == BeginRecovery(engine)
           result == Outcome(engine, after, <<>>)
<1>1. /\ at = "recovering" /\ at' = "announcing"
      /\ UNCHANGED <<session, product, runnerSession, runnerProduct>>
      /\ engine' = after /\ PublishResult(result, after.status)
  BY DEF PublishRecovery, Goto
<1>2. /\ Consistent(after) /\ Tells(engine, <<>>, after) /\ Consistent(engine)
  BY RecoveryTells DEF RunnerInv
<1>3. Consistent(engine)'
  BY <1>1, <1>2 DEF Consistent
<1>4. CASE runnerSession # session
  <2>1. UNCHANGED hubVars
    BY <1>1, <1>4 DEF PublishResult, AcceptsSession
  <2>2. QED
    BY <1>1, <1>3, <1>4, <2>1 DEF hubVars, RunnerInv, Place
<1>5. CASE runnerSession = session
  <2>1. Mirrors(engine) /\ ready = (stored # <<>>) /\ AcceptsSession
    BY <1>1, <1>5 DEF RunnerInv, AcceptsSession
  <2>2. result.updates = <<>> /\ result.changed = (after.status # engine.status)
    BY DEF Outcome
  <2> HIDE DEF result, after
  <2>3. /\ stored' = Numbered(after) /\ bookStatus' = after.status
        /\ ready' = (stored' # <<>>)
        /\ UNCHANGED <<sourceStatus, failure>>
    BY <1>1, <1>2, <2>1, <2>2, PublishedResult
  <2>4. Mirrors(engine)'
    BY <1>1, <1>3, <2>3 DEF Mirrors, Numbered
  <2>5. QED
    BY <1>1, <1>3, <1>5, <2>3, <2>4 DEF RunnerInv, Place
<1>6. QED
  BY <1>4, <1>5

\* A new runner starts with what a new selection has: nothing.
LEMMA SelectStep ==
  ASSUME RunnerInv, Select
  PROVE  RunnerInv'
<1>1. /\ at = "idle" /\ at' = "starting" /\ runnerSession' = session /\ runnerProduct' = product
      /\ engine' = NewEngine /\ UNCHANGED <<session, product, hubVars>>
  BY DEF Select, Goto, RunnerOnly
<1>2. stored = <<>> /\ bookStatus = "WaitingForSnapshot"
  BY <1>1 DEF RunnerInv
<1>3. Consistent(NewEngine) /\ Numbered(NewEngine) = <<>>
  BY NewEngineIsConsistent DEF Numbered, NumberedColumns
<1>4. NewEngine.status = "WaitingForSnapshot"
  BY DEF NewEngine
<1>5. Mirrors(engine)'
  BY <1>1, <1>2, <1>3, <1>4 DEF Mirrors, hubVars
<1>6. QED
  BY <1>1, <1>5 DEF RunnerInv, Mirrors, Place, hubVars

\* A switch clears the hub while the runner goes on.
LEMMA SwitchStep ==
  ASSUME RunnerInv, NEW selected \in Product, SwitchProduct(selected)
  PROVE  RunnerInv'
<1>1. /\ session < MaxSessions /\ session' = session + 1 /\ product' = selected
      /\ stored' = <<>> /\ ready' = FALSE /\ sourceStatus' = "connecting"
      /\ bookStatus' = "WaitingForSnapshot" /\ failure' = FALSE
      /\ UNCHANGED <<at, runnerSession, runnerProduct, engine>>
  BY DEF SwitchProduct, BeginProductSession, runnerVars
<1>2. runnerSession' # session' /\ session' \in 1 .. MaxSessions /\ runnerSession' \in 0 .. session'
  BY <1>1, LiveMarketAssumption DEF RunnerInv
<1>3. QED
  BY <1>1, <1>2 DEF RunnerInv, SourceStatus, Consistent

LEMMA CheckStep ==
  ASSUME RunnerInv, NEW from, NEW to, CheckAt(from, to),
         from # "publishing", to \in Place \ {"idle", "publishing"}
  PROVE  RunnerInv'
<1>1. /\ at = from /\ at' \in {to, "finished"}
      /\ UNCHANGED <<session, product, hubVars, runnerVars>>
  BY DEF CheckAt, Goto, RunnerOnly
<1>2. QED
  BY <1>1, ThreadStep DEF RunnerInv, hubVars, runnerVars, Place

LEMMA RunnerInvStep ==
  ASSUME RunnerInv, [Next]_vars
  PROVE  RunnerInv'
<1>1. CASE Select
  BY <1>1, SelectStep
<1>2. CASE Start \/ Connected \/ Reject \/ ReportError \/ Disconnected \/ Announce \/ Retry
  <2>1. /\ at \in {"starting", "connected", "rejecting", "erring", "disconnecting",
                   "announcing", "retrying"}
        /\ at' \in Place \ {"idle", "publishing"}
    BY <1>2 DEF Start, Connected, Reject, ReportError, Disconnected, Announce, Retry, Goto, Place
  <2>2. /\ PublishError \/ \E status \in SourceStatus : PublishSourceStatus(status)
        /\ UNCHANGED <<session, product, runnerVars>>
    BY <1>2 DEF Start, Connected, Reject, ReportError, Disconnected, Announce, Retry,
                Publishing, SourceStatus
  <2>3. QED
    BY <2>1, <2>2, StatusStep
<1>3. CASE Check \/ WakeUp
  BY <1>3, CheckStep DEF Check, WakeUp, Place
<1>4. CASE PublishOutcome
  BY <1>4, PublishOutcomeStep
<1>5. CASE PublishRecovery
  BY <1>5, PublishRecoveryStep
<1>6. CASE AwaitSwitch
  <2>1. /\ runnerSession # session /\ at' = "idle"
        /\ UNCHANGED <<session, product, hubVars, runnerVars>>
    BY <1>6 DEF AwaitSwitch, IsCurrentSession, Goto, RunnerOnly
  <2>2. QED
    BY <2>1 DEF RunnerInv, hubVars, runnerVars, Place, Consistent
<1>7. CASE Open \/ OpenUnsupported \/ Fails("opening") \/ ReceiveRejection \/ Fails("reading")
  <2>1. /\ at \in {"opening", "reading"}
        /\ at' \in {"connected", "rejecting", "finished", "failed"}
        /\ UNCHANGED <<session, product, hubVars, runnerVars>>
    BY <1>7 DEF Open, OpenUnsupported, Fails, ReceiveRejection, Goto, RunnerOnly
  <2>2. QED
    BY <2>1, ThreadStep DEF RunnerInv, hubVars, runnerVars, Place
<1>8. CASE Receive
  BY <1>8, ReceiveStep
<1>9. CASE \E selected \in Product : SwitchProduct(selected)
  BY <1>9, SwitchStep
<1>10. CASE (\E page \in Page : Subscribe(page) \/ Disconnect(page) \/ Deliver(page))
            \/ UNCHANGED vars
  <2>1. UNCHANGED <<session, product, hubVars, at, runnerVars>>
    BY <1>10 DEF Subscribe, Disconnect, Deliver, vars
  <2>2. QED
    BY <2>1 DEF RunnerInv, hubVars, runnerVars, AwaitsPublication, Mirrors, Consistent, Numbered
<1>11. QED
  BY <1>1, <1>2, <1>3, <1>4, <1>5, <1>6, <1>7, <1>8, <1>9, <1>10 DEF Next, RunnerStep

LEMMA InitialRunner == Init => RunnerInv
<1> SUFFICES ASSUME Init
             PROVE  RunnerInv
  OBVIOUS
<1>1. Consistent(engine)
  BY NewEngineIsConsistent DEF Init, Consistent
<1>2. /\ session \in 1 .. MaxSessions /\ runnerSession \in 0 .. session
      /\ runnerSession # session
  BY LiveMarketAssumption DEF Init
<1>3. ready = (stored # <<>>)
  BY DEF Init
<1>4. /\ product \in Product /\ runnerProduct \in Product /\ failure \in BOOLEAN
      /\ stored = <<>> /\ bookStatus = "WaitingForSnapshot" /\ ~failure
  BY DEF Init
<1>5. sourceStatus \in SourceStatus /\ at \in Place /\ at = "idle"
  BY DEF Init, SourceStatus, Place
<1>6. QED
  BY <1>1, <1>2, <1>3, <1>4, <1>5, Zenon DEF RunnerInv

\* The hub holds what the runner of the selected product has published, and
\* nothing of any other product.
THEOREM HubIsMirror == Spec => []HubMirrorsRunner
  BY InitialRunner, RunnerInvStep, RunnerInvIsEnough, PTL DEF Spec
------------------------------------------------------------------------------
(***************************************************************************)
(* What a page reads.                                                      *)
(***************************************************************************)

\* The messages the hub queues, and what they leave a page with.
Message ==
  [type : {"reset"}, product : Product]
    \cup [type : {"hello"}, product : Product, first : Nat]
    \cup [type : {"column"}, update : ColumnUpdate]
    \cup [type : {"state"}, status : StatusName]
    \cup {ErrorMessage}
PageState == [chart : Chart \cup {NoData}, shown : StatusName]

\* A page takes a message and becomes `after'.
Takes(before, message, after) ==
  /\ ~Refusing(before.chart, message)
  /\ after.chart = ChartAfter(before.chart, message)
  /\ after.shown = ShownAfter(before.shown, message)

\* Reading messages one by one, a page comes from one state to another and refuses
\* none of them.
Leads(first, messages, last) ==
  \E states \in [0 .. Len(messages) -> PageState] :
    /\ states[0] = first /\ states[Len(messages)] = last
    /\ \A i \in 1 .. Len(messages) : Takes(states[i - 1], messages[i], states[i])

LEMMA LeadsNothing ==
  ASSUME NEW state \in PageState
  PROVE  Leads(state, <<>>, state)
<1> DEFINE states == [i \in 0 .. 0 |-> state]
<1>1. Len(<<>>) = 0
  OBVIOUS
<1>2. states \in [0 .. 0 -> PageState] /\ states[0] = state
  OBVIOUS
<1>3. \A i \in 1 .. 0 : Takes(states[i - 1], <<>>[i], states[i])
  OBVIOUS
<1> HIDE DEF states
<1>4. QED
  BY <1>1, <1>2, <1>3 DEF Leads

LEMMA LeadsOne ==
  ASSUME NEW before \in PageState, NEW message, NEW after \in PageState,
         Takes(before, message, after)
  PROVE  Leads(before, <<message>>, after)
<1> DEFINE states == [i \in 0 .. 1 |-> IF i = 0 THEN before ELSE after]
           one    == <<message>>
<1>1. Len(one) = 1 /\ one[1] = message
  OBVIOUS
<1>2. states \in [0 .. 1 -> PageState] /\ states[0] = before /\ states[1] = after
  OBVIOUS
<1> HIDE DEF states, one
<1>3. \A i \in 1 .. 1 : Takes(states[i - 1], one[i], states[i])
  <2> SUFFICES ASSUME NEW i \in 1 .. 1 PROVE Takes(states[i - 1], one[i], states[i])
    OBVIOUS
  <2>1. i = 1 /\ i - 1 = 0
    OBVIOUS
  <2>2. QED
    BY <1>1, <1>2, <2>1
<1>4. QED
  BY <1>1, <1>2, <1>3, Zenon DEF Leads, one

\* One queue and then another.
LEMMA LeadsOn ==
  ASSUME NEW first, NEW some \in Seq(Message), NEW middle, NEW more \in Seq(Message), NEW last,
         Leads(first, some, middle), Leads(middle, more, last)
  PROVE  Leads(first, some \o more, last)
<1> DEFINE m   == Len(some)
           n   == Len(more)
           all == some \o more
<1>1. PICK early \in [0 .. m -> PageState] :
        /\ early[0] = first /\ early[m] = middle
        /\ \A i \in 1 .. m : Takes(early[i - 1], some[i], early[i])
  BY Zenon DEF Leads
<1>2. PICK late \in [0 .. n -> PageState] :
        /\ late[0] = middle /\ late[n] = last
        /\ \A i \in 1 .. n : Takes(late[i - 1], more[i], late[i])
  BY Zenon DEF Leads
<1>3. /\ m \in Nat /\ n \in Nat /\ Len(all) = m + n
      /\ \A i \in 1 .. m + n : all[i] = IF i <= m THEN some[i] ELSE more[i - m]
  BY LenProperties, ConcatProperties
<1> DEFINE states == [i \in 0 .. m + n |-> IF i <= m THEN early[i] ELSE late[i - m]]
<1> HIDE DEF m, n, all
<1>4. states \in [0 .. m + n -> PageState]
  <2> SUFFICES ASSUME NEW i \in 0 .. m + n
               PROVE  (IF i <= m THEN early[i] ELSE late[i - m]) \in PageState
    OBVIOUS
  <2>1. CASE i <= m
    BY <1>1, <1>3, <2>1
  <2>2. CASE ~(i <= m)
    <3>1. i - m \in 0 .. n
      BY <1>3, <2>2
    <3>2. QED
      BY <1>2, <2>2, <3>1
  <2>3. QED
    BY <2>1, <2>2
<1>5. /\ \A i \in 0 .. m : states[i] = early[i]
      /\ \A i \in 0 .. n : states[m + i] = late[i]
  <2>1. ASSUME NEW i \in 0 .. m PROVE states[i] = early[i]
    BY <1>3
  <2>2. ASSUME NEW i \in 0 .. n PROVE states[m + i] = late[i]
    <3>1. CASE i = 0
      <4>1. m + i = m /\ m \in 0 .. m
        BY <1>3, <3>1
      <4>2. QED
        BY <1>1, <1>2, <2>1, <3>1, <4>1
    <3>2. CASE i # 0
      <4>1. m + i \in 0 .. m + n /\ ~(m + i <= m) /\ (m + i) - m = i
        BY <1>3, <3>2
      <4>2. QED
        BY <4>1
    <3>3. QED
      BY <3>1, <3>2
  <2>3. QED
    BY <2>1, <2>2
<1> HIDE DEF states
<1>6. states[0] = first /\ states[m + n] = last
  BY <1>1, <1>2, <1>3, <1>5
<1>7. ASSUME NEW i \in 1 .. m + n
      PROVE  Takes(states[i - 1], all[i], states[i])
  <2>1. CASE i <= m
    <3>1. i \in 1 .. m /\ i \in 0 .. m /\ i - 1 \in 0 .. m
      BY <1>3, <2>1
    <3>2. QED
      BY <1>1, <1>3, <1>5, <2>1, <3>1
  <2>2. CASE ~(i <= m)
    <3> DEFINE j == i - m
    <3>1. /\ j \in 1 .. n /\ j \in 0 .. n /\ j - 1 \in 0 .. n
          /\ i = m + j /\ i - 1 = m + (j - 1)
      BY <1>3, <2>2
    <3>2. all[i] = more[j]
      BY <1>3, <2>2
    <3> HIDE DEF j
    <3>3. states[i] = late[j] /\ states[i - 1] = late[j - 1]
      BY <1>5, <3>1
    <3>4. QED
      BY <1>2, <3>1, <3>2, <3>3
  <2>3. QED
    BY <2>1, <2>2
<1>8. QED
  BY <1>3, <1>4, <1>6, <1>7, Zenon DEF Leads, all

\* The first message is taken; the rest leads on from there.
LEMMA LeadsFirst ==
  ASSUME NEW first, NEW messages \in Seq(Message), messages # <<>>, NEW last,
         Leads(first, messages, last)
  PROVE  \E after \in PageState : /\ Takes(first, Head(messages), after)
                                  /\ Leads(after, Tail(messages), last)
<1> DEFINE rest == Tail(messages)
           n    == Len(rest)
<1>1. PICK states \in [0 .. Len(messages) -> PageState] :
        /\ states[0] = first /\ states[Len(messages)] = last
        /\ \A i \in 1 .. Len(messages) : Takes(states[i - 1], messages[i], states[i])
  BY Zenon DEF Leads
<1>2. /\ n \in Nat /\ Len(messages) = n + 1
      /\ Head(messages) = messages[1] /\ \A i \in 1 .. n : rest[i] = messages[i + 1]
  BY HeadTailProperties, LenProperties, EmptySeq
<1> DEFINE later == [i \in 0 .. n |-> states[i + 1]]
<1> HIDE DEF rest, n
<1>3. Takes(first, Head(messages), states[1]) /\ states[1] \in PageState
  <2>1. 1 \in 1 .. Len(messages) /\ 1 - 1 = 0 /\ 1 \in 0 .. Len(messages)
    BY <1>2
  <2>2. QED
    BY <1>1, <1>2, <2>1
<1>4. \A i \in 0 .. n : i + 1 \in 0 .. Len(messages)
  BY <1>2
<1>5. later \in [0 .. n -> PageState] /\ \A i \in 0 .. n : later[i] = states[i + 1]
  BY <1>4
<1> HIDE DEF later
<1>6. later[0] = states[1] /\ later[n] = last
  <2>1. 0 \in 0 .. n /\ n \in 0 .. n /\ 0 + 1 = 1
    BY <1>2
  <2>2. QED
    BY <1>1, <1>2, <1>5, <2>1
<1>7. ASSUME NEW i \in 1 .. n
      PROVE  Takes(later[i - 1], rest[i], later[i])
  <2>1. /\ i - 1 \in 0 .. n /\ i \in 0 .. n /\ (i - 1) + 1 = i
        /\ i + 1 \in 1 .. Len(messages) /\ (i + 1) - 1 = i
    BY <1>2
  <2>2. later[i - 1] = states[i] /\ later[i] = states[i + 1]
    BY <1>5, <2>1
  <2>3. QED
    BY <1>1, <1>2, <2>1, <2>2
<1>8. Leads(states[1], rest, last)
  BY <1>5, <1>6, <1>7, Zenon DEF Leads, n
<1>9. QED
  BY <1>3, <1>8, Zenon DEF rest

\* Two functions that start alike and go on alike end alike.
LEMMA EndAlike ==
  ASSUME NEW n \in Nat, NEW f, NEW g, f[0] = g[0],
         \A i \in 1 .. n : f[i - 1] = g[i - 1] => f[i] = g[i]
  PROVE  f[n] = g[n]
<1> DEFINE different == {i \in 0 .. n : f[i] # g[i]}
<1>1. SUFFICES ASSUME different # {} PROVE FALSE
  OBVIOUS
<1>2. different \subseteq Nat
  OBVIOUS
<1>3. PICK least \in different : \A other \in different : <<other, least>> \notin OpToRel(<, Nat)
  <2> HIDE DEF different
  <2>1. QED
    BY <1>1, <1>2, NatLessThanWellFounded, WFMin
<1>4. \A other \in different : ~(other < least)
  BY <1>2, <1>3 DEF OpToRel
<1>5. least \in 1 .. n /\ f[least] # g[least]
  OBVIOUS
<1>6. least - 1 \notin different
  <2> HIDE DEF different
  <2>1. QED
    BY <1>4, <1>5
<1>7. f[least - 1] = g[least - 1]
  BY <1>5, <1>6
<1>8. QED
  BY <1>5, <1>7

\* Where reading leads is what a page will show.
LEMMA LeadsToRead ==
  ASSUME NEW page, NEW first, first.chart = chart[page], first.shown = shown[page],
         queue[page] \in Seq(Message), NEW last, Leads(first, queue[page], last)
  PROVE  ChartRead(page) = last.chart /\ StatusRead(page) = last.shown
<1> DEFINE messages == queue[page]
           n        == Len(messages)
<1>1. PICK states \in [0 .. n -> PageState] :
        /\ states[0] = first /\ states[n] = last
        /\ \A i \in 1 .. n : Takes(states[i - 1], messages[i], states[i])
  BY Zenon DEF Leads
<1>2. n \in Nat
  BY LenProperties
<1>3. ChartRead(page) = last.chart
  <2> DEFINE IsData(f) == f = [taken \in 0 .. n |->
                                 IF taken = 0 THEN chart[page]
                                 ELSE ChartAfter(f[taken - 1], messages[taken])]
             data  == CHOOSE f : IsData(f)
             known == [i \in 0 .. n |-> states[i].chart]
  <2>1. ChartRead(page) = data[n]
    BY DEF ChartRead
  <2> HIDE DEF n, messages
  <2>2. ASSUME NEW i \in 0 .. n
        PROVE  known[i] = IF i = 0 THEN chart[page] ELSE ChartAfter(known[i - 1], messages[i])
    <3>1. CASE i = 0
      BY <1>1, <1>2, <3>1
    <3>2. CASE i # 0
      <4>1. i \in 1 .. n /\ i - 1 \in 0 .. n
        BY <1>2, <3>2
      <4>2. states[i].chart = ChartAfter(states[i - 1].chart, messages[i])
        BY <1>1, <4>1 DEF Takes
      <4>3. QED
        BY <3>2, <4>1, <4>2
    <3>3. QED
      BY <3>1, <3>2
  <2>3. IsData(known)
    <3> DEFINE step(i) == IF i = 0 THEN chart[page] ELSE ChartAfter(known[i - 1], messages[i])
    <3>1. \A i \in 0 .. n : known[i] = step(i)
      BY <2>2
    <3>2. known = [i \in 0 .. n |-> known[i]]
      OBVIOUS
    <3> HIDE DEF known, step
    <3>3. known = [i \in 0 .. n |-> step(i)]
      BY <3>1, <3>2
    <3>4. QED
      BY <3>3, Zenon DEF step
  <2>4. IsData(data)
    BY <2>3
  <2> HIDE DEF data
  <2>5. data[0] = known[0]
    <3>1. 0 \in 0 .. n
      BY <1>2
    <3>2. data[0] = chart[page] /\ known[0] = chart[page]
      BY <2>2, <2>4, <3>1
    <3>3. QED
      BY <3>2
  <2>6. ASSUME NEW i \in 1 .. n, data[i - 1] = known[i - 1]
        PROVE  data[i] = known[i]
    <3>1. i \in 0 .. n /\ i # 0
      BY <1>2
    <3>2. data[i] = ChartAfter(data[i - 1], messages[i])
      BY <2>4, <3>1
    <3>3. known[i] = ChartAfter(known[i - 1], messages[i])
      BY <2>2, <3>1
    <3>4. QED
      BY <2>6, <3>2, <3>3
  <2>7. known[n] = last.chart
    BY <1>1, <1>2
  <2> HIDE DEF known
  <2>8. data[n] = known[n]
    BY <1>2, <2>5, <2>6, EndAlike
  <2>9. QED
    BY <2>1, <2>7, <2>8
<1>4. StatusRead(page) = last.shown
  <2> DEFINE IsStatus(f) == f = [taken \in 0 .. n |->
                                   IF taken = 0 THEN shown[page]
                                   ELSE ShownAfter(f[taken - 1], messages[taken])]
             status == CHOOSE f : IsStatus(f)
             known  == [i \in 0 .. n |-> states[i].shown]
  <2>1. StatusRead(page) = status[n]
    BY DEF StatusRead
  <2> HIDE DEF n, messages
  <2>2. ASSUME NEW i \in 0 .. n
        PROVE  known[i] = IF i = 0 THEN shown[page] ELSE ShownAfter(known[i - 1], messages[i])
    <3>1. CASE i = 0
      BY <1>1, <1>2, <3>1
    <3>2. CASE i # 0
      <4>1. i \in 1 .. n /\ i - 1 \in 0 .. n
        BY <1>2, <3>2
      <4>2. states[i].shown = ShownAfter(states[i - 1].shown, messages[i])
        BY <1>1, <4>1 DEF Takes
      <4>3. QED
        BY <3>2, <4>1, <4>2
    <3>3. QED
      BY <3>1, <3>2
  <2>3. IsStatus(known)
    <3> DEFINE step(i) == IF i = 0 THEN shown[page] ELSE ShownAfter(known[i - 1], messages[i])
    <3>1. \A i \in 0 .. n : known[i] = step(i)
      BY <2>2
    <3>2. known = [i \in 0 .. n |-> known[i]]
      OBVIOUS
    <3> HIDE DEF known, step
    <3>3. known = [i \in 0 .. n |-> step(i)]
      BY <3>1, <3>2
    <3>4. QED
      BY <3>3, Zenon DEF step
  <2>4. IsStatus(status)
    BY <2>3
  <2> HIDE DEF status
  <2>5. status[0] = known[0]
    <3>1. 0 \in 0 .. n
      BY <1>2
    <3>2. status[0] = shown[page] /\ known[0] = shown[page]
      BY <2>2, <2>4, <3>1
    <3>3. QED
      BY <3>2
  <2>6. ASSUME NEW i \in 1 .. n, status[i - 1] = known[i - 1]
        PROVE  status[i] = known[i]
    <3>1. i \in 0 .. n /\ i # 0
      BY <1>2
    <3>2. status[i] = ShownAfter(status[i - 1], messages[i])
      BY <2>4, <3>1
    <3>3. known[i] = ShownAfter(known[i - 1], messages[i])
      BY <2>2, <3>1
    <3>4. QED
      BY <2>6, <3>2, <3>3
  <2>7. known[n] = last.shown
    BY <1>1, <1>2
  <2> HIDE DEF known
  <2>8. status[n] = known[n]
    BY <1>2, <2>5, <2>6, EndAlike
  <2>9. QED
    BY <2>1, <2>7, <2>8
<1>5. QED
  BY <1>3, <1>4
------------------------------------------------------------------------------
(***************************************************************************)
(* What the hub sends.                                                     *)
(***************************************************************************)

ColumnMessages(updates) == [i \in DOMAIN updates |-> ColumnMessage(updates[i])]

\* The window of older columns to which newer ones were appended.
WindowOf(older, newer) ==
  LET length == IF Len(older) + Len(newer) <= MaxColumns THEN Len(older) + Len(newer)
                                                         ELSE MaxColumns
      kept   == length - Len(newer)
  IN  [i \in 1 .. length |-> IF i <= kept THEN older[Len(older) - kept + i]
                                          ELSE newer[i - kept]]

LEMMA MessageTypes ==
  /\ \A some \in Product : Reset(some) \in Message
  /\ \A some \in Product : \A first \in Nat : Hello(some, first) \in Message
  /\ \A update \in ColumnUpdate : ColumnMessage(update) \in Message
  /\ \A status \in StatusName : StateMessage(status) \in Message
  /\ ErrorMessage \in Message
  BY DEF Message, Reset, Hello, ColumnMessage, StateMessage

LEMMA ColumnMessagesType ==
  ASSUME NEW updates \in Seq(ColumnUpdate)
  PROVE  /\ ColumnMessages(updates) \in Seq(Message)
         /\ Len(ColumnMessages(updates)) = Len(updates)
         /\ \A i \in 1 .. Len(updates) : ColumnMessages(updates)[i] = ColumnMessage(updates[i])
<1> DEFINE n == Len(updates)
           nth(i) == ColumnMessage(updates[i])
<1>1. n \in Nat /\ DOMAIN updates = 1 .. n
  BY LenProperties
<1>2. ColumnMessages(updates) = [i \in 1 .. n |-> nth(i)]
  BY <1>1 DEF ColumnMessages
<1>3. \A i \in 1 .. n : nth(i) \in Message
  BY ElementOfSeq, MessageTypes
<1> HIDE DEF nth
<1>4. [i \in 1 .. n |-> nth(i)] \in Seq(Message)
  <2> HIDE DEF n
  <2>1. QED
    BY <1>1, <1>3, IsASeq
<1>5. QED
  BY <1>1, <1>2, <1>4, LenProperties DEF nth

LEMMA WindowTrails ==
  ASSUME NEW older \in Seq(Column), Len(older) <= MaxColumns,
         NEW newer \in Seq(Column), Len(newer) <= MaxColumns
  PROVE  Trailing(older, newer, WindowOf(older, newer))
<1> DEFINE m      == Len(older)
           n      == Len(newer)
           length == IF m + n <= MaxColumns THEN m + n ELSE MaxColumns
           kept   == length - n
           nth(i)  == IF i <= kept THEN older[m - kept + i] ELSE newer[i - kept]
           window == WindowOf(older, newer)
<1>1. m \in Nat /\ n \in Nat /\ MaxColumns \in Nat \ {0}
  BY LenProperties, HeatmapConfigAssumption
<1>2. window = [i \in 1 .. length |-> nth(i)]
  BY DEF WindowOf
<1>3. length \in Nat /\ kept \in 0 .. m /\ length = kept + n
  BY <1>1
<1>4. ASSUME NEW i \in 1 .. length
      PROVE  nth(i) \in Column
  <2> HIDE DEF length, kept
  <2>1. CASE i <= kept
    <3>1. m - kept + i \in 1 .. m
      BY <1>1, <1>3, <2>1
    <3>2. older[m - kept + i] \in Column
      BY <3>1, ElementOfSeq
    <3>3. QED
      BY <2>1, <3>2
  <2>2. CASE ~(i <= kept)
    <3>1. i - kept \in 1 .. n
      BY <1>1, <1>3, <2>2
    <3>2. newer[i - kept] \in Column
      BY <3>1, ElementOfSeq
    <3>3. QED
      BY <2>2, <3>2
  <2>3. QED
    BY <2>1, <2>2
<1> HIDE DEF nth
<1>5. [i \in 1 .. length |-> nth(i)] \in Seq(Column)
  <2> HIDE DEF length
  <2>1. QED
    BY <1>3, <1>4, IsASeq
<1>6. window \in Seq(Column) /\ Len(window) = length
  <2> HIDE DEF length
  <2>1. QED
    BY <1>2, <1>3, <1>5
<1>7. \A i \in 1 .. length :
        window[i] = IF i <= kept THEN older[m - kept + i] ELSE newer[i - kept]
  <2>1. ASSUME NEW i \in 1 .. length
        PROVE  window[i] = IF i <= kept THEN older[m - kept + i] ELSE newer[i - kept]
    <3>1. window[i] = nth(i)
      BY <1>2
    <3>2. QED
      BY <3>1 DEF nth
  <2>2. QED
    BY <2>1
<1> HIDE DEF window
<1>8. length = IF Len(older) + Len(newer) <= MaxColumns THEN Len(older) + Len(newer)
                                                        ELSE MaxColumns
  OBVIOUS
<1>9. kept = length - Len(newer)
  OBVIOUS
<1> HIDE DEF length, kept
<1>10. Trailing(older, newer, window)
  BY <1>6, <1>7, <1>8, <1>9, TrailingWindow
<1>11. QED
  BY <1>10 DEF window

\* There is one window only.
LEMMA OneWindow ==
  ASSUME NEW older, NEW newer, NEW some, NEW other,
         Trailing(older, newer, some), Trailing(older, newer, other)
  PROVE  some = other
<1> DEFINE length == IF Len(older) + Len(newer) <= MaxColumns THEN Len(older) + Len(newer)
                                                              ELSE MaxColumns
           kept   == length - Len(newer)
           nth(i)  == IF i <= kept THEN older[Len(older) - kept + i] ELSE newer[i - kept]
<1>1. some \in Seq(Column) /\ Len(some) = length /\ \A i \in 1 .. length : some[i] = nth(i)
  BY Zenon DEF Trailing
<1>2. other \in Seq(Column) /\ Len(other) = length /\ \A i \in 1 .. length : other[i] = nth(i)
  BY Zenon DEF Trailing
<1> HIDE DEF length, nth
<1>3. QED
  BY <1>1, <1>2, SeqEqual

LEMMA NothingAppended ==
  ASSUME NEW older \in Seq(Column), Len(older) <= MaxColumns
  PROVE  Trailing(older, <<>>, older)
<1>1. Len(older) \in Nat /\ Len(<<>>) = 0
  BY LenProperties
<1>2. \A i \in 1 .. Len(older) : i <= Len(older) /\ Len(older) - Len(older) + i = i
  BY <1>1
<1>3. QED
  BY <1>1, <1>2 DEF Trailing

\* A page that has a window takes new columns one by one.
LEMMA ColumnsRead ==
  ASSUME NEW some \in Product, NEW next \in Nat,
         NEW older \in Seq(Column), Len(older) <= MaxColumns,
         NEW newer \in Seq(Column), Len(newer) <= MaxColumns,
         NEW window, Trailing(older, newer, window), NEW status \in StatusName
  PROVE  LET seen(columns, count) ==
               [chart |-> [product |-> some, next |-> next + count, columns |-> columns],
                shown |-> status]
         IN  Leads(seen(older, 0), ColumnMessages(Additions(newer, next)),
                   seen(window, Len(newer)))
<1> DEFINE n        == Len(newer)
           updates  == Additions(newer, next)
           messages == ColumnMessages(updates)
           part(i)  == SubSeq(newer, 1, i)
           partly(i) == WindowOf(older, part(i))
           seen(columns, count) ==
             [chart |-> [product |-> some, next |-> next + count, columns |-> columns],
              shown |-> status]
           states   == [i \in 0 .. n |-> seen(partly(i), i)]
<1>1. n \in Nat /\ n <= MaxColumns /\ MaxColumns \in Nat \ {0}
  BY LenProperties, HeatmapConfigAssumption
<1>2. /\ Len(messages) = n
      /\ \A i \in 1 .. n : messages[i] = ColumnMessage([index    |-> next + i - 1,
                                                        replaces |-> FALSE,
                                                        column   |-> newer[i]])
  <2>1. /\ updates \in Seq(ColumnUpdate) /\ Len(updates) = n
        /\ \A i \in 1 .. n : updates[i] = [index    |-> next + i - 1,
                                           replaces |-> FALSE,
                                           column   |-> newer[i]]
    BY AdditionsType
  <2> HIDE DEF updates
  <2>2. QED
    BY <2>1, ColumnMessagesType
<1>3. ASSUME NEW i \in 0 .. n
      PROVE  part(i) \in Seq(Column) /\ Len(part(i)) = i
  <2>1. \A j \in 1 .. i : newer[j] \in Column
    BY <1>1, ElementOfSeq
  <2>2. i \in Int /\ (1 <= i => i - 1 + 1 = i) /\ (~(1 <= i) => i = 0)
    BY <1>1
  <2>3. /\ SubSeq(newer, 1, i) \in Seq(Column)
        /\ Len(SubSeq(newer, 1, i)) = IF 1 <= i THEN i - 1 + 1 ELSE 0
    BY <2>1, <2>2, SubSeqProperties
  <2>4. QED
    BY <2>2, <2>3
<1> HIDE DEF messages, updates
<1>4. ASSUME NEW i \in 0 .. n
      PROVE  /\ Trailing(older, part(i), partly(i))
             /\ partly(i) \in Seq(Column) /\ Len(partly(i)) <= MaxColumns
  <2> HIDE DEF part, n
  <2>1. part(i) \in Seq(Column) /\ Len(part(i)) <= MaxColumns
    BY <1>1, <1>3
  <2>2. Trailing(older, part(i), partly(i))
    BY <2>1, WindowTrails
  <2>3. /\ Len(older) \in Nat /\ Len(part(i)) \in Nat
        /\ partly(i) \in Seq(Column)
        /\ Len(partly(i)) = IF Len(older) + Len(part(i)) <= MaxColumns
                            THEN Len(older) + Len(part(i)) ELSE MaxColumns
    BY <2>1, <2>2, LenProperties DEF Trailing
  <2>4. QED
    BY <1>1, <2>2, <2>3
<1>5. ASSUME NEW i \in 1 .. n
      PROVE  partly(i) = AppendColumn(partly(i - 1), newer[i]) /\ newer[i] \in Column
  <2>1. /\ newer[i] \in Column /\ i - 1 \in 0 .. n /\ i \in 0 .. n
        /\ i - 1 < MaxColumns /\ 1 \in 1 .. n /\ i \in 1 .. n
    BY <1>1, ElementOfSeq
  <2>2. part(i) = Append(part(i - 1), newer[i])
    <3>1. SubSeq(newer, 1, i) = SubSeq(newer, 1, i - 1) \o <<newer[i]>>
      BY <2>1, SubSeqRecursiveSecond
    <3>2. QED
      BY <1>3, <2>1, <3>1, AppendIsConcat
  <2> HIDE DEF part, n
  <2>3. /\ part(i - 1) \in Seq(Column) /\ Len(part(i - 1)) < MaxColumns
        /\ Trailing(older, part(i - 1), partly(i - 1))
        /\ partly(i - 1) \in Seq(Column) /\ Len(partly(i - 1)) <= MaxColumns
        /\ Trailing(older, part(i), partly(i))
    BY <1>3, <1>4, <2>1
  <2> HIDE DEF partly
  <2>4. Trailing(partly(i - 1), <<newer[i]>>, AppendColumn(partly(i - 1), newer[i]))
    BY <2>1, <2>3, AppendColumnTrails
  <2>5. Trailing(older, Append(part(i - 1), newer[i]), AppendColumn(partly(i - 1), newer[i]))
    BY <2>1, <2>3, <2>4, TrailingTwice
  <2>6. QED
    BY <2>1, <2>2, <2>3, <2>5, OneWindow
<1>6. partly(0) = older /\ partly(n) = window
  <2>1. 0 \in 0 .. n /\ n \in 0 .. n
    BY <1>1
  <2>2. part(0) = <<>> /\ part(n) = newer
    BY <1>3, <2>1, EmptySeq, SubSeqFull
  <2> HIDE DEF part
  <2>3. Trailing(older, <<>>, partly(0)) /\ Trailing(older, newer, partly(n))
    BY <1>4, <2>1, <2>2
  <2> HIDE DEF partly
  <2>4. QED
    BY <2>3, NothingAppended, OneWindow
<1> HIDE DEF part, partly
<1>7. ASSUME NEW i \in 0 .. n
      PROVE  /\ states[i] = seen(partly(i), i) /\ states[i] \in PageState
             /\ states[i].chart \in Chart
  <2>1. seen(partly(i), i).chart \in Chart
    BY <1>1, <1>4 DEF Chart
  <2>2. QED
    BY <2>1 DEF PageState
<1>8. ASSUME NEW i \in 1 .. n
      PROVE  Takes(states[i - 1], messages[i], states[i])
  <2> DEFINE column == newer[i]
             before == partly(i - 1)
             message == messages[i]
  <2>1. /\ i - 1 \in 0 .. n /\ i \in 0 .. n
        /\ next + (i - 1) = next + i - 1 /\ (next + (i - 1)) + 1 = next + i
    BY <1>1
  <2>2. /\ states[i - 1] = seen(before, i - 1) /\ states[i - 1].chart \in Chart
        /\ states[i] = seen(AppendColumn(before, column), i)
    BY <1>5, <1>7, <2>1
  <2>3. message = ColumnMessage([index |-> next + i - 1, replaces |-> FALSE, column |-> column])
    BY <1>2
  <2> HIDE DEF states, column, before, message, n
  <2>4. /\ message.type = "column" /\ message.update.replaces = FALSE
        /\ message.update.index = next + (i - 1) /\ message.update.column = column
    BY <2>1, <2>3 DEF ColumnMessage
  <2>5. states[i - 1].chart # NoData
    BY <2>2, NoDataAssumption
  <2>6. ~Refusing(states[i - 1].chart, message)
    BY <2>2, <2>4, <2>5 DEF Refusing
  <2>7. states[i].chart = ChartAfter(states[i - 1].chart, message)
    <3> DEFINE data == [product |-> some, next |-> next + (i - 1), columns |-> before]
    <3>1. states[i - 1].chart = data
      BY <2>2
    <3>2. ChartAfter(data, message)
            = [data EXCEPT !.next = @ + 1, !.columns = AppendColumn(@, message.update.column)]
      <4> HIDE DEF data
      <4>1. /\ message.type # "reset" /\ message.type # "hello" /\ message.type = "column"
            /\ ~message.update.replaces
        BY <2>4
      <4>2. QED
        BY <4>1 DEF ChartAfter
    <3>3. [data EXCEPT !.next = @ + 1, !.columns = AppendColumn(@, column)]
            = [product |-> some, next |-> next + i, columns |-> AppendColumn(before, column)]
      <4> DEFINE later == next + i
                 longer == AppendColumn(before, column)
      <4>1. data.next + 1 = later /\ AppendColumn(data.columns, column) = longer
        BY <2>1
      <4> HIDE DEF later, longer
      <4>2. [data EXCEPT !.next = later, !.columns = longer]
              = [product |-> some, next |-> later, columns |-> longer]
        <5>1. [data EXCEPT !.next = later] = [product |-> some, next |-> later, columns |-> before]
          OBVIOUS
        <5>2. [[product |-> some, next |-> later, columns |-> before] EXCEPT !.columns = longer]
                = [product |-> some, next |-> later, columns |-> longer]
          OBVIOUS
        <5>3. [data EXCEPT !.next = later, !.columns = longer]
                = [[data EXCEPT !.next = later] EXCEPT !.columns = longer]
          OBVIOUS
        <5>4. QED
          BY <5>1, <5>2, <5>3
      <4>3. [data EXCEPT !.next = @ + 1, !.columns = AppendColumn(@, column)]
              = [data EXCEPT !.next = later, !.columns = longer]
        <5> HIDE DEF data
        <5>1. QED
          BY <4>1
      <4>4. QED
        BY <4>2, <4>3 DEF later, longer
    <3>4. QED
      BY <2>2, <2>4, <3>1, <3>2, <3>3
  <2>8. states[i].shown = ShownAfter(states[i - 1].shown, message)
    BY <2>2, <2>4 DEF ShownAfter
  <2>9. QED
    BY <2>6, <2>7, <2>8 DEF Takes, message
<1>9. states \in [0 .. n -> PageState]
  BY <1>7
<1>10. states[0] = seen(older, 0) /\ states[n] = seen(window, n)
  <2>1. 0 \in 0 .. n /\ n \in 0 .. n
    BY <1>1
  <2>2. QED
    BY <1>6, <1>7, <2>1
<1> HIDE DEF states, seen
<1>11. Leads(seen(older, 0), messages, seen(window, n))
  BY <1>2, <1>8, <1>9, <1>10, Zenon DEF Leads
<1>12. QED
  BY <1>11 DEF seen, messages, updates, n

\* A page that shows a product's columns, the next of them `next'.
PageOf(some, columns, next, status) ==
  [chart |-> [product |-> some, next |-> next, columns |-> columns], shown |-> status]

\* The chart of what a hub has.
ChartOf(some, numbered) ==
  [product |-> some,
   next    |-> LastOf(numbered).index + 1,
   columns |-> [i \in DOMAIN numbered |-> numbered[i].column]]

LEMMA ChartOfNumbered ==
  ASSUME NEW some, NEW columns \in Seq(Column), columns # <<>>,
         NEW next \in Nat, Len(columns) <= next
  PROVE  /\ ChartOf(some, NumberedColumns(columns, next))
              = [product |-> some, next |-> next, columns |-> columns]
         /\ NumberedColumns(columns, next)[1].index = next - Len(columns)
<1> DEFINE m        == Len(columns)
           numbered == NumberedColumns(columns, next)
<1>1. m \in Nat \ {0} /\ 1 \in 1 .. m /\ m \in 1 .. m /\ next - m + m - 1 = next - 1
      /\ next - m + 1 - 1 = next - m
  BY EmptySeq, LenProperties
<1>2. /\ Len(numbered) = m /\ DOMAIN numbered = 1 .. m
      /\ \A i \in 1 .. m : numbered[i] = [index |-> next - m + i - 1, column |-> columns[i]]
  BY NumberedType
<1>3. columns = [i \in 1 .. m |-> columns[i]]
  BY LenProperties
<1> HIDE DEF numbered, m
<1>4. LastOf(numbered).index = next - 1 /\ numbered[1].index = next - m
  BY <1>1, <1>2 DEF LastOf
<1>5. [i \in DOMAIN numbered |-> numbered[i].column] = columns
  <2>1. \A i \in 1 .. m : numbered[i].column = columns[i]
    BY <1>2
  <2>2. [i \in 1 .. m |-> numbered[i].column] = [i \in 1 .. m |-> columns[i]]
    BY <2>1
  <2>3. QED
    BY <1>2, <1>3, <2>2
<1>6. (next - 1) + 1 = next
  OBVIOUS
<1>7. ChartOf(some, numbered) = [product |-> some, next |-> next, columns |-> columns]
  BY <1>4, <1>5, <1>6 DEF ChartOf
<1>8. QED
  BY <1>4, <1>7 DEF numbered, m

LEMMA StateTaken ==
  ASSUME NEW state \in PageState, NEW status \in StatusName
  PROVE  Leads(state, <<StateMessage(status)>>, [chart |-> state.chart, shown |-> status])
<1> DEFINE after   == [chart |-> state.chart, shown |-> status]
           message == StateMessage(status)
<1>1. after \in PageState
  BY DEF PageState
<1>2. message.type = "state" /\ message.status = status
  BY DEF StateMessage
<1> HIDE DEF message
<1>3. /\ ~Refusing(state.chart, message)
      /\ ChartAfter(state.chart, message) = state.chart
      /\ ShownAfter(state.shown, message) = status
  BY <1>2 DEF Refusing, ChartAfter, ShownAfter
<1>4. Takes(state, message, after)
  BY <1>3 DEF Takes
<1> HIDE DEF after
<1>5. QED
  BY <1>1, <1>4, LeadsOne DEF after, message

LEMMA ErrorTaken ==
  ASSUME NEW state \in PageState
  PROVE  Leads(state, <<ErrorMessage>>, state)
<1> DEFINE message == ErrorMessage
<1>1. message.type = "error"
  BY DEF ErrorMessage
<1> HIDE DEF message
<1>2. /\ ~Refusing(state.chart, message)
      /\ ChartAfter(state.chart, message) = state.chart
      /\ ShownAfter(state.shown, message) = state.shown
  BY <1>1 DEF Refusing, ChartAfter, ShownAfter
<1>3. Takes(state, message, state)
  BY <1>2 DEF Takes
<1>4. QED
  BY <1>3, LeadsOne DEF message

LEMMA ResetTaken ==
  ASSUME NEW state \in PageState, NEW some \in Product
  PROVE  Leads(state, <<Reset(some)>>, [chart |-> NoData, shown |-> "connecting"])
<1> DEFINE after   == [chart |-> NoData, shown |-> "connecting"]
           message == Reset(some)
<1>1. after \in PageState
  BY DEF PageState, StatusName, SourceStatus
<1>2. message.type = "reset"
  BY DEF Reset
<1> HIDE DEF message
<1>3. /\ ~Refusing(state.chart, message)
      /\ ChartAfter(state.chart, message) = NoData
      /\ ShownAfter(state.shown, message) = "connecting"
  BY <1>2 DEF Refusing, ChartAfter, ShownAfter
<1>4. Takes(state, message, after)
  BY <1>3 DEF Takes
<1> HIDE DEF after
<1>5. QED
  BY <1>1, <1>4, LeadsOne DEF after, message

LEMMA PageOfType ==
  ASSUME NEW some \in Product, NEW columns \in Seq(Column), NEW next \in Nat,
         NEW status \in StatusName
  PROVE  /\ PageOf(some, columns, next, status) \in PageState
         /\ PageOf(some, columns, next, status).chart \in Chart
         /\ PageOf(some, columns, next, status).chart # NoData
<1>1. [product |-> some, next |-> next, columns |-> columns] \in Chart
  BY DEF Chart
<1>2. QED
  BY <1>1, NoDataAssumption DEF PageOf, PageState

LEMMA HelloTaken ==
  ASSUME NEW state \in PageState, NEW some \in Product, NEW first \in Nat
  PROVE  Leads(state, <<Hello(some, first)>>, PageOf(some, <<>>, first, "connecting"))
<1> DEFINE after   == PageOf(some, <<>>, first, "connecting")
           message == Hello(some, first)
<1>1. after \in PageState
  <2>1. <<>> \in Seq(Column) /\ "connecting" \in StatusName
    BY DEF StatusName, SourceStatus
  <2>2. QED
    BY <2>1, PageOfType
<1>2. message.type = "hello" /\ message.product = some /\ message.first = first
  BY DEF Hello
<1> HIDE DEF message
<1>3. /\ ~Refusing(state.chart, message)
      /\ ChartAfter(state.chart, message) = [product |-> some, next |-> first, columns |-> <<>>]
      /\ ShownAfter(state.shown, message) = "connecting"
  BY <1>2 DEF Refusing, ChartAfter, ShownAfter
<1>4. Takes(state, message, after)
  BY <1>3 DEF Takes, PageOf
<1> HIDE DEF after
<1>5. QED
  BY <1>1, <1>4, LeadsOne DEF after, message

\* The open column, sampled again.
LEMMA ReplacementTaken ==
  ASSUME NEW some \in Product, NEW columns \in Seq(Column), columns # <<>>,
         NEW next \in Nat, NEW status \in StatusName, NEW column \in Column
  PROVE  Leads(PageOf(some, columns, next, status),
               <<ColumnMessage([index |-> next - 1, replaces |-> TRUE, column |-> column])>>,
               PageOf(some, [columns EXCEPT ![Len(columns)] = column], next, status))
<1> DEFINE changed == [columns EXCEPT ![Len(columns)] = column]
           before  == PageOf(some, columns, next, status)
           after   == PageOf(some, changed, next, status)
           message == ColumnMessage([index |-> next - 1, replaces |-> TRUE, column |-> column])
           data    == [product |-> some, next |-> next, columns |-> columns]
<1>1. changed \in Seq(Column)
  <2>1. Len(columns) \in 1 .. Len(columns)
    BY EmptySeq
  <2>2. QED
    BY <2>1, ExceptSeq
<1>2. /\ message.type = "column" /\ message.update.replaces = TRUE
      /\ message.update.index = next - 1 /\ message.update.column = column
  BY DEF ColumnMessage
<1>3. /\ before \in PageState /\ after \in PageState /\ before.chart # NoData
  BY <1>1, PageOfType
<1>4. /\ before.chart = data /\ before.shown = status
      /\ after.chart = [product |-> some, next |-> next, columns |-> changed]
      /\ after.shown = status
  BY DEF PageOf
<1>5. data.columns = columns /\ data.next = next
  OBVIOUS
<1>6. [data EXCEPT !.columns = changed] = [product |-> some, next |-> next, columns |-> changed]
  <2> HIDE DEF changed
  <2>1. QED
    OBVIOUS
<1> HIDE DEF before, after, message, data
<1>7. ~Refusing(data, message)
  BY <1>2, <1>3, <1>4, <1>5 DEF Refusing
<1>8. ChartAfter(data, message) = [data EXCEPT !.columns = changed]
  <2>1. /\ message.type # "reset" /\ message.type # "hello" /\ message.type = "column"
        /\ message.update.replaces
    BY <1>2
  <2>2. ChartAfter(data, message)
          = [data EXCEPT !.columns = [@ EXCEPT ![Len(@)] = message.update.column]]
    BY <2>1 DEF ChartAfter
  <2>3. QED
    BY <1>2, <1>5, <2>2
<1> HIDE DEF changed
<1>9. ShownAfter(status, message) = status
  BY <1>2 DEF ShownAfter
<1>10. Takes(before, message, after)
  BY <1>4, <1>6, <1>7, <1>8, <1>9 DEF Takes
<1>11. QED
  BY <1>3, <1>10, LeadsOne DEF before, after, message, changed

LEMMA OneMessage ==
  ASSUME NEW message \in Message
  PROVE  <<message>> \in Seq(Message)
  OBVIOUS

\* Nothing or one message, as the hub has something to say or not.
LEMMA ErrorsTaken ==
  ASSUME NEW state \in PageState, NEW fails \in BOOLEAN
  PROVE  LET messages == IF fails THEN <<ErrorMessage>> ELSE <<>>
         IN  messages \in Seq(Message) /\ Leads(state, messages, state)
<1>1. ErrorMessage \in Message
  BY MessageTypes
<1>2. <<ErrorMessage>> \in Seq(Message) /\ <<>> \in Seq(Message)
  BY <1>1, OneMessage, EmptySeq
<1>3. Leads(state, <<ErrorMessage>>, state) /\ Leads(state, <<>>, state)
  BY ErrorTaken, LeadsNothing
<1>4. QED
  BY <1>2, <1>3

\* What a page is sent before there are columns.
LEMMA PendingRead ==
  ASSUME NEW state \in PageState, NEW status \in StatusName, NEW fails \in BOOLEAN
  PROVE  /\ PendingMessages(status, fails) \in Seq(Message)
         /\ Leads(state, PendingMessages(status, fails), [chart |-> state.chart, shown |-> status])
<1> DEFINE told  == <<StateMessage(status)>>
           wrong == IF fails THEN <<ErrorMessage>> ELSE <<>>
           after == [chart |-> state.chart, shown |-> status]
<1>1. after \in PageState
  BY DEF PageState
<1>2. told \in Seq(Message) /\ Leads(state, told, after)
  BY MessageTypes, OneMessage, StateTaken
<1> HIDE DEF after
<1>3. wrong \in Seq(Message) /\ Leads(after, wrong, after)
  BY <1>1, ErrorsTaken
<1>4. PendingMessages(status, fails) = told \o wrong
  BY DEF PendingMessages
<1> HIDE DEF told, wrong
<1>5. told \o wrong \in Seq(Message) /\ Leads(state, told \o wrong, after)
  BY <1>2, <1>3, ConcatProperties, LeadsOn
<1>6. QED
  BY <1>4, <1>5 DEF after

\* What a page is sent when there are: it leads from anything to what the hub has.
LEMMA SnapshotRead ==
  ASSUME NEW state \in PageState, NEW some \in Product,
         NEW columns \in Seq(Column), columns # <<>>, Len(columns) <= MaxColumns,
         NEW next \in Nat, Len(columns) <= next,
         NEW status \in StatusName, NEW fails \in BOOLEAN
  PROVE  LET messages == SnapshotMessages(some, NumberedColumns(columns, next), status, fails)
         IN  /\ messages \in Seq(Message)
             /\ Leads(state, messages, PageOf(some, columns, next, status))
<1> DEFINE m        == Len(columns)
           first    == next - m
           numbered == NumberedColumns(columns, next)
           updates  == Additions(columns, first)
           hello    == <<Hello(some, first)>>
           members  == ColumnMessages(updates)
           told     == <<StateMessage(status)>>
           wrong    == IF fails THEN <<ErrorMessage>> ELSE <<>>
           messages == SnapshotMessages(some, numbered, status, fails)
           empty    == PageOf(some, <<>>, first, "connecting")
           filled   == PageOf(some, columns, next, "connecting")
           after    == PageOf(some, columns, next, status)
<1>1. m \in Nat /\ first \in Nat /\ first + 0 = first /\ first + m = next
  BY LenProperties
<1>2. "connecting" \in StatusName /\ <<>> \in Seq(Column) /\ Len(<<>>) <= MaxColumns
  BY HeatmapConfigAssumption DEF StatusName, SourceStatus
<1>3. /\ empty \in PageState /\ filled \in PageState /\ after \in PageState
  BY <1>1, <1>2, PageOfType
<1>4. hello \in Seq(Message) /\ Leads(state, hello, empty)
  BY <1>1, MessageTypes, OneMessage, HelloTaken
<1>5. members \in Seq(Message)
  <2>1. updates \in Seq(ColumnUpdate)
    BY <1>1, AdditionsType
  <2>2. QED
    BY <2>1, ColumnMessagesType
<1>6. Leads(empty, members, filled)
  <2>1. Trailing(<<>>, columns, columns)
    <3>1. Trailing(<<>>, columns, WindowOf(<<>>, columns))
      BY <1>2, WindowTrails
    <3>2. WindowOf(<<>>, columns) = columns
      <4>1. Len(<<>>) = 0 /\ 0 + m <= MaxColumns /\ 0 + m = m /\ m - m = 0
        BY <1>1
      <4>2. WindowOf(<<>>, columns) \in Seq(Column) /\ Len(WindowOf(<<>>, columns)) = m
        BY <3>1, <4>1 DEF Trailing
      <4>3. ASSUME NEW i \in 1 .. m
            PROVE  WindowOf(<<>>, columns)[i] = columns[i]
        <5>1. ~(i <= 0) /\ i - 0 = i
          BY <1>1
        <5>2. QED
          BY <3>1, <4>1, <5>1 DEF Trailing
      <4>4. QED
        BY <4>2, <4>3, SeqEqual
    <3>3. QED
      BY <3>1, <3>2
  <2> DEFINE seen(window, count) ==
               [chart |-> [product |-> some, next |-> first + count, columns |-> window],
                shown |-> "connecting"]
  <2>2. seen(<<>>, 0) = empty /\ seen(columns, m) = filled
    BY <1>1 DEF PageOf
  <2> HIDE DEF first, empty, filled
  <2>3. Leads(seen(<<>>, 0), members, seen(columns, m))
    BY <1>1, <1>2, <2>1, ColumnsRead
  <2> HIDE DEF seen, members
  <2>4. QED
    BY <2>2, <2>3
<1>7. told \in Seq(Message) /\ Leads(filled, told, after)
  <2>1. [chart |-> filled.chart, shown |-> status] = after
    BY DEF PageOf
  <2> HIDE DEF after, filled
  <2>2. QED
    BY <1>3, <2>1, MessageTypes, OneMessage, StateTaken
<1>8. wrong \in Seq(Message) /\ Leads(after, wrong, after)
  <2> HIDE DEF after
  <2>1. QED
    BY <1>3, ErrorsTaken
<1>9. messages = hello \o members \o told \o wrong
  <2>1. /\ numbered[1].index = first
        /\ DOMAIN numbered = 1 .. m
        /\ \A i \in 1 .. m : numbered[i] = [index |-> next - m + i - 1, column |-> columns[i]]
    BY ChartOfNumbered, NumberedType
  <2>2. /\ DOMAIN updates = 1 .. m
        /\ \A i \in 1 .. m : updates[i] = [index    |-> first + i - 1,
                                           replaces |-> FALSE,
                                           column   |-> columns[i]]
    BY <1>1, AdditionsType
  <2>3. \A i \in 1 .. m : next - m + i - 1 = first + i - 1
    BY <1>1
  <2> HIDE DEF numbered, updates, first
  <2>4. \A i \in 1 .. m : ColumnMessage([index    |-> numbered[i].index,
                                         replaces |-> FALSE,
                                         column   |-> numbered[i].column])
                            = ColumnMessage(updates[i])
    <3> SUFFICES ASSUME NEW i \in 1 .. m
                 PROVE  ColumnMessage([index    |-> numbered[i].index,
                                       replaces |-> FALSE,
                                       column   |-> numbered[i].column])
                          = ColumnMessage(updates[i])
      OBVIOUS
    <3> DEFINE index == first + i - 1
    <3>1. next - m + i - 1 = index
      BY <2>3
    <3> HIDE DEF index, m
    <3>2. numbered[i].index = index /\ numbered[i].column = columns[i]
      BY <2>1, <3>1
    <3>3. updates[i] = [index |-> index, replaces |-> FALSE, column |-> columns[i]]
      BY <2>2 DEF index
    <3>4. QED
      BY <3>2, <3>3, Zenon
  <2>5. [i \in DOMAIN numbered |-> ColumnMessage([index    |-> numbered[i].index,
                                                  replaces |-> FALSE,
                                                  column   |-> numbered[i].column])]
          = members
    BY <2>1, <2>2, <2>4 DEF ColumnMessages
  <2> HIDE DEF members
  <2>6. QED
    BY <2>1, <2>5, Zenon DEF SnapshotMessages
<1> HIDE DEF hello, members, told, wrong, empty, filled, after, messages
<1>10. hello \o members \in Seq(Message) /\ Leads(state, hello \o members, filled)
  BY <1>4, <1>5, <1>6, ConcatProperties, LeadsOn
<1>11. /\ (hello \o members) \o told \in Seq(Message)
       /\ Leads(state, (hello \o members) \o told, after)
  BY <1>7, <1>10, ConcatProperties, LeadsOn
<1>12. messages \in Seq(Message) /\ Leads(state, messages, after)
  BY <1>8, <1>9, <1>11, ConcatProperties, LeadsOn
<1>13. QED
  BY <1>12 DEF messages, numbered, after

\* What a page is sent of an engine's updates.
LEMMA UpdatesRead ==
  ASSUME NEW some \in Product, NEW status \in StatusName,
         NEW before, Consistent(before), NEW updates, NEW after, Consistent(after),
         Tells(before, updates, after)
  PROVE  /\ ColumnMessages(updates) \in Seq(Message)
         /\ Leads(PageOf(some, before.history.columns, before.nextIndex, status),
                  ColumnMessages(updates),
                  PageOf(some, after.history.columns, after.nextIndex, status))
<1> DEFINE older == before.history.columns
           next  == before.nextIndex
           from  == PageOf(some, older, next, status)
           to    == PageOf(some, after.history.columns, after.nextIndex, status)
<1>1. older \in Seq(Column) /\ Len(older) <= MaxColumns /\ next \in Nat
  BY EngineParts DEF Consistent
<1>2. from \in PageState
  BY <1>1, PageOfType
<1>3. CASE /\ updates = <<>>
           /\ after.history.columns = before.history.columns
           /\ after.nextIndex = before.nextIndex
  <2>1. ColumnMessages(updates) = <<>>
    BY <1>3 DEF ColumnMessages
  <2>2. from = to
    BY <1>3
  <2> HIDE DEF from, to
  <2>3. Leads(from, ColumnMessages(updates), to)
    BY <1>2, <2>1, <2>2, LeadsNothing
  <2>4. QED
    BY <2>1, <2>3, EmptySeq DEF from, to
<1>4. CASE Replacing(before, updates, after)
  <2>1. PICK column \in Column :
          /\ older # <<>>
          /\ updates = <<[index |-> next - 1, replaces |-> TRUE, column |-> column]>>
          /\ after.history.columns = [older EXCEPT ![Len(older)] = column]
          /\ after.nextIndex = next
    BY <1>4, Zenon DEF Replacing
  <2> DEFINE update == [index |-> next - 1, replaces |-> TRUE, column |-> column]
  <2>2. next - 1 \in Nat
    <3>1. Len(older) \in Nat \ {0} /\ Len(older) <= next
      BY <1>1, <2>1, EmptySeq DEF Consistent
    <3>2. QED
      BY <1>1, <3>1
  <2>3. update \in ColumnUpdate
    BY <2>2 DEF ColumnUpdate
  <2>4. ColumnMessages(updates) = <<ColumnMessage(update)>>
    <3> DEFINE one == <<ColumnMessage(update)>>
    <3>1. updates \in Seq(ColumnUpdate) /\ Len(updates) = 1 /\ updates[1] = update
      <4> HIDE DEF update
      <4>1. updates = <<update>>
        BY <2>1 DEF update
      <4>2. QED
        BY <2>3, <4>1
    <3> HIDE DEF update
    <3>2. /\ ColumnMessages(updates) \in Seq(Message) /\ Len(ColumnMessages(updates)) = 1
          /\ ColumnMessages(updates)[1] = ColumnMessage(update)
      BY <3>1, ColumnMessagesType
    <3>3. one \in Seq(Message) /\ Len(one) = 1 /\ one[1] = ColumnMessage(update)
      BY <2>3, MessageTypes, OneMessage
    <3> HIDE DEF one
    <3>4. ColumnMessages(updates) = one
      <4>1. \A i \in 1 .. 1 : i = 1
        OBVIOUS
      <4>2. QED
        BY <3>2, <3>3, <4>1, SeqEqual
    <3>5. QED
      BY <3>4 DEF one
  <2>5. to = PageOf(some, [older EXCEPT ![Len(older)] = column], next, status)
    BY <2>1
  <2>6. Leads(from, <<ColumnMessage(update)>>, to)
    <3> HIDE DEF older, next, to
    <3>1. QED
      BY <1>1, <2>1, <2>5, ReplacementTaken
  <2> HIDE DEF from, to, update
  <2>7. ColumnMessages(updates) \in Seq(Message)
    BY <2>3, <2>4, MessageTypes, OneMessage
  <2>8. QED
    BY <2>4, <2>6, <2>7 DEF from, to
<1>5. CASE Adding(before, updates, after)
  <2>1. PICK newer \in Seq(Column) :
          /\ Len(newer) \in 1 .. MaxColumns
          /\ updates = Additions(newer, next)
          /\ Trailing(older, newer, after.history.columns)
          /\ after.nextIndex = next + Len(newer)
    BY <1>5, Zenon DEF Adding
  <2> DEFINE seen(window, count) ==
               [chart |-> [product |-> some, next |-> next + count, columns |-> window],
                shown |-> status]
             window == after.history.columns
  <2>2. next + 0 = next /\ Len(newer) <= MaxColumns
    BY <1>1, <2>1
  <2>3. seen(older, 0) = from /\ seen(window, Len(newer)) = to
    BY <2>1, <2>2 DEF PageOf
  <2>4. Leads(seen(older, 0), ColumnMessages(Additions(newer, next)), seen(window, Len(newer)))
    <3> HIDE DEF older, next
    <3>1. Trailing(older, newer, window)
      BY <2>1
    <3> HIDE DEF window
    <3>2. QED
      BY <1>1, <2>2, <3>1, ColumnsRead
  <2> HIDE DEF seen, from, to
  <2>5. Leads(from, ColumnMessages(updates), to)
    BY <2>1, <2>3, <2>4
  <2>6. ColumnMessages(updates) \in Seq(Message)
    BY <1>1, <2>1, AdditionsType, ColumnMessagesType
  <2>7. QED
    BY <2>5, <2>6 DEF from, to
<1>6. QED
  BY <1>3, <1>4, <1>5 DEF Tells
------------------------------------------------------------------------------
(***************************************************************************)
(* The steps of the hub and the pages.                                     *)
(***************************************************************************)

\* A page that shows what the hub has.
HubPage == [chart |-> ChartOf(product, stored),
            shown |-> EffectiveStatus(sourceStatus, bookStatus)]

\* What a page has and what is queued for it lead somewhere: to what the hub has,
\* once there are columns.
Reads(page) ==
  \E last \in PageState :
    /\ Leads([chart |-> chart[page], shown |-> shown[page]], queue[page], last)
    /\ ready => last = HubPage

\* The inductive invariant of the pages.
PagesInv ==
  /\ connected \subseteq Page /\ refused = {}
  /\ queue \in [Page -> Seq(Message)]
  /\ chart \in [Page -> Chart \cup {NoData}] /\ shown \in [Page -> StatusName]
  /\ \A page \in Page \ connected : queue[page] = <<>>
  /\ \A page \in connected : Reads(page)

\* One step for all pages: what each has queued afterwards leads where it should.
LEMMA PagesStep ==
  ASSUME PagesInv, UNCHANGED pageVars, queue' \in [Page -> Seq(Message)],
         \A page \in Page \ connected : queue'[page] = queue[page],
         \A page \in connected :
           \E last \in PageState :
             /\ Leads([chart |-> chart[page], shown |-> shown[page]], queue'[page], last)
             /\ ready' => last = HubPage'
  PROVE  PagesInv'
<1>1. UNCHANGED <<connected, chart, shown, refused>>
  BY DEF pageVars
<1>2. ASSUME NEW page \in connected
      PROVE  Reads(page)'
  <2>1. PICK last \in PageState :
          /\ Leads([chart |-> chart[page], shown |-> shown[page]], queue'[page], last)
          /\ ready' => last = HubPage'
    BY Zenon
  <2>2. Leads([chart |-> chart'[page], shown |-> shown'[page]], queue'[page], last)
    BY <1>1, <2>1
  <2>3. QED
    BY <2>1, <2>2, Zenon DEF Reads, Leads
<1>3. connected \subseteq Page /\ chart \in [Page -> Chart \cup {NoData}]
      /\ shown \in [Page -> StatusName] /\ refused = {}
      /\ \A page \in Page \ connected : queue[page] = <<>>
  BY DEF PagesInv
<1>4. /\ (connected \subseteq Page)' /\ (refused = {})'
      /\ (queue \in [Page -> Seq(Message)])'
      /\ (chart \in [Page -> Chart \cup {NoData}])' /\ (shown \in [Page -> StatusName])'
  BY <1>1, <1>3 DEF Chart, Message
<1>5. (\A page \in Page \ connected : queue[page] = <<>>)'
  BY <1>1, <1>3
<1>6. (\A page \in connected : Reads(page))'
  BY <1>1, <1>2
<1>7. QED
  BY <1>4, <1>5, <1>6, Zenon DEF PagesInv

LEMMA PagesParts ==
  ASSUME PagesInv, NEW page \in connected
  PROVE  /\ page \in Page /\ queue[page] \in Seq(Message)
         /\ [chart |-> chart[page], shown |-> shown[page]] \in PageState
         /\ Reads(page)
  BY DEF PagesInv, PageState

\* Nothing is queued, and what the hub has is what it had, or not to be shown.
LEMMA NothingQueued ==
  ASSUME PagesInv, UNCHANGED <<queue, pageVars>>,
         ready' => ready /\ HubPage' = HubPage
  PROVE  PagesInv'
<1>1. /\ queue' = queue /\ UNCHANGED pageVars
      /\ queue' \in [Page -> Seq(Message)]
      /\ \A page \in Page \ connected : queue'[page] = queue[page]
  BY DEF PagesInv
<1>2. ASSUME NEW page \in connected
      PROVE  \E last \in PageState :
               /\ Leads([chart |-> chart[page], shown |-> shown[page]], queue'[page], last)
               /\ ready' => last = HubPage'
  <2>1. PICK last \in PageState :
          /\ Leads([chart |-> chart[page], shown |-> shown[page]], queue[page], last)
          /\ ready => last = HubPage
    BY PagesParts, Zenon DEF Reads
  <2>2. QED
    BY <1>1, <2>1
<1>3. QED
  BY <1>1, <1>2, PagesStep

\* Something is queued behind what is.
LEMMA SomethingQueued ==
  ASSUME PagesInv, UNCHANGED pageVars, NEW messages \in Seq(Message), EnqueueToAll(messages),
         \A last \in PageState :
           (ready => last = HubPage) =>
             \E next \in PageState : /\ Leads(last, messages, next)
                                     /\ ready' => next = HubPage'
  PROVE  PagesInv'
<1>1. queue' = [page \in Page |-> IF page \in connected THEN queue[page] \o messages
                                                        ELSE queue[page]]
  BY DEF EnqueueToAll
<1>2. queue \in [Page -> Seq(Message)] /\ connected \subseteq Page
  BY DEF PagesInv
<1>3. queue' \in [Page -> Seq(Message)]
  <2> SUFFICES ASSUME NEW page \in Page
               PROVE  (IF page \in connected THEN queue[page] \o messages
                                             ELSE queue[page]) \in Seq(Message)
    BY <1>1
  <2>1. queue[page] \in Seq(Message)
    BY <1>2
  <2>2. queue[page] \o messages \in Seq(Message)
    BY <2>1, ConcatProperties
  <2>3. QED
    BY <2>1, <2>2
<1>4. \A page \in Page \ connected : queue'[page] = queue[page]
  BY <1>1
<1>5. ASSUME NEW page \in connected
      PROVE  \E last \in PageState :
               /\ Leads([chart |-> chart[page], shown |-> shown[page]], queue'[page], last)
               /\ ready' => last = HubPage'
  <2>1. PICK last \in PageState :
          /\ Leads([chart |-> chart[page], shown |-> shown[page]], queue[page], last)
          /\ ready => last = HubPage
    BY PagesParts, Zenon DEF Reads
  <2>2. PICK next \in PageState : Leads(last, messages, next) /\ (ready' => next = HubPage')
    BY <2>1
  <2>3. queue'[page] = queue[page] \o messages /\ queue[page] \in Seq(Message)
    BY <1>1, <1>2
  <2>4. Leads([chart |-> chart[page], shown |-> shown[page]], queue[page] \o messages, next)
    BY <2>1, <2>2, <2>3, LeadsOn
  <2>5. QED
    BY <2>2, <2>3, <2>4
<1>6. QED
  BY <1>3, <1>4, <1>5, PagesStep

\* What is queued replaces what was.
LEMMA QueuesReplaced ==
  ASSUME PagesInv, UNCHANGED pageVars, NEW messages \in Seq(Message), ReplaceQueues(messages),
         \A first \in PageState :
           \E last \in PageState : /\ Leads(first, messages, last)
                                   /\ ready' => last = HubPage'
  PROVE  PagesInv'
<1>1. queue' = [page \in Page |-> IF page \in connected THEN messages ELSE queue[page]]
  BY DEF ReplaceQueues
<1>2. queue \in [Page -> Seq(Message)] /\ connected \subseteq Page
  BY DEF PagesInv
<1>3. queue' \in [Page -> Seq(Message)] /\ \A page \in Page \ connected : queue'[page] = queue[page]
  BY <1>1, <1>2
<1>4. ASSUME NEW page \in connected
      PROVE  \E last \in PageState :
               /\ Leads([chart |-> chart[page], shown |-> shown[page]], queue'[page], last)
               /\ ready' => last = HubPage'
  <2>1. queue'[page] = messages /\ [chart |-> chart[page], shown |-> shown[page]] \in PageState
    BY <1>1, <1>2, PagesParts
  <2>2. QED
    BY <2>1
<1>5. QED
  BY <1>3, <1>4, PagesStep

LEMMA EffectiveStatusType ==
  ASSUME NEW source \in SourceStatus, NEW book \in EngineStatus
  PROVE  EffectiveStatus(source, book) \in StatusName
  BY DEF EffectiveStatus, StatusName

\* The hub has columns: they are an engine's.
LEMMA HubHasColumns ==
  ASSUME NEW some, Mirrors(some), stored # <<>>
  PROVE  /\ some.history.columns \in Seq(Column) /\ some.history.columns # <<>>
         /\ Len(some.history.columns) <= MaxColumns
         /\ some.nextIndex \in Nat /\ Len(some.history.columns) <= some.nextIndex
         /\ stored = NumberedColumns(some.history.columns, some.nextIndex)
         /\ HubPage = PageOf(product, some.history.columns, some.nextIndex,
                             EffectiveStatus(sourceStatus, some.status))
<1> DEFINE columns == some.history.columns
           next    == some.nextIndex
<1>1. /\ columns \in Seq(Column) /\ Len(columns) <= MaxColumns
      /\ next \in Nat /\ Len(columns) <= next
  BY EngineParts DEF Mirrors, Consistent
<1>2. stored = NumberedColumns(columns, next) /\ bookStatus = some.status
  BY DEF Mirrors, Numbered
<1>3. columns # <<>>
  BY <1>2 DEF NumberedColumns
<1> HIDE DEF columns, next
<1>4. ChartOf(product, stored) = [product |-> product, next |-> next, columns |-> columns]
  BY <1>1, <1>2, <1>3, ChartOfNumbered
<1>5. HubPage = PageOf(product, columns, next, EffectiveStatus(sourceStatus, some.status))
  BY <1>2, <1>4 DEF HubPage, PageOf
<1>6. QED
  BY <1>1, <1>2, <1>3, <1>5 DEF columns, next

\* A status or an error, which is published or dropped.
LEMMA StatusPages ==
  ASSUME RunnerInv, PagesInv, UNCHANGED <<product, pageVars>>,
         PublishError \/ \E status \in SourceStatus : PublishSourceStatus(status)
  PROVE  PagesInv'
<1>1. CASE ~AcceptsSession
  <2>1. UNCHANGED <<hubVars, queue>>
    BY <1>1 DEF PublishError, PublishSourceStatus
  <2>2. ready' = ready /\ HubPage' = HubPage
    BY <2>1 DEF hubVars, HubPage, ChartOf
  <2>3. QED
    BY <2>1, <2>2, NothingQueued
<1>2. CASE AcceptsSession /\ PublishError
  <2>1. EnqueueToAll(<<ErrorMessage>>) /\ UNCHANGED <<stored, ready, sourceStatus, bookStatus>>
    BY <1>2 DEF PublishError
  <2>2. ready' = ready /\ HubPage' = HubPage
    BY <2>1 DEF HubPage, ChartOf
  <2>3. <<ErrorMessage>> \in Seq(Message)
    BY MessageTypes, OneMessage
  <2>4. ASSUME NEW last \in PageState, ready => last = HubPage
        PROVE  \E next \in PageState : /\ Leads(last, <<ErrorMessage>>, next)
                                       /\ ready' => next = HubPage'
    BY <2>2, <2>4, ErrorTaken
  <2>5. QED
    BY <2>1, <2>3, <2>4, SomethingQueued
<1>3. ASSUME AcceptsSession, NEW status \in SourceStatus, PublishSourceStatus(status)
      PROVE  PagesInv'
  <2> DEFINE effective == EffectiveStatus(status, bookStatus)
  <2>1. /\ sourceStatus' = status /\ EnqueueToAll(<<StateMessage(effective)>>)
        /\ UNCHANGED <<stored, ready, bookStatus>>
    BY <1>3 DEF PublishSourceStatus
  <2>2. effective \in StatusName
    BY RunnerInvIsEnough, EffectiveStatusType
  <2>3. ready' = ready /\ HubPage' = [chart |-> HubPage.chart, shown |-> effective]
    BY <2>1 DEF HubPage, ChartOf
  <2> HIDE DEF effective
  <2>4. <<StateMessage(effective)>> \in Seq(Message)
    BY <2>2, MessageTypes, OneMessage
  <2>5. ASSUME NEW last \in PageState, ready => last = HubPage
        PROVE  \E next \in PageState : /\ Leads(last, <<StateMessage(effective)>>, next)
                                       /\ ready' => next = HubPage'
    <3> DEFINE next == [chart |-> last.chart, shown |-> effective]
    <3>1. next \in PageState /\ (ready' => next = HubPage')
      BY <2>2, <2>3, <2>5 DEF PageState
    <3>2. Leads(last, <<StateMessage(effective)>>, next)
      BY <2>2, StateTaken
    <3>3. QED
      BY <3>1, <3>2
  <2>6. QED
    BY <2>1, <2>4, <2>5, SomethingQueued
<1>4. QED
  BY <1>1, <1>2, <1>3

\* An engine's updates reach the pages that have its columns; with its first columns
\* all pages get the stream anew.
LEMMA ResultPages ==
  ASSUME RunnerInv, PagesInv, UNCHANGED <<product, pageVars>>,
         NEW before, Mirrors(before), NEW result, NEW after, Consistent(after),
         Tells(before, result.updates, after),
         ~result.changed => after.status = before.status,
         AcceptsSession, PublishResult(result, after.status)
  PROVE  PagesInv'
<1> DEFINE effective == EffectiveStatus(sourceStatus, after.status)
<1>1. /\ product \in Product /\ sourceStatus \in SourceStatus /\ failure \in BOOLEAN
      /\ ready = (stored # <<>>) /\ after.status \in EngineStatus
      /\ Consistent(before)
  BY EngineParts DEF RunnerInv, Consistent, Mirrors
<1>2. effective \in StatusName
  BY <1>1, EffectiveStatusType
<1>3. /\ stored' = Numbered(after) /\ bookStatus' = after.status
      /\ ready' = (stored' # <<>>)
      /\ UNCHANGED <<sourceStatus, failure>>
  BY <1>1, PublishedResult
<1>4. Mirrors(after)' 
  BY <1>3 DEF Mirrors, Consistent, Numbered
<1> DEFINE shows == PageOf(product, after.history.columns, after.nextIndex, effective)
<1>5. CASE ~result.changed /\ result.updates = <<>>
  <2>1. UNCHANGED <<hubVars, queue>>
    BY <1>5 DEF PublishResult
  <2>2. ready' = ready /\ HubPage' = HubPage
    BY <2>1 DEF hubVars, HubPage, ChartOf
  <2>3. QED
    BY <2>1, <2>2, NothingQueued
<1>6. CASE ~(~result.changed /\ result.updates = <<>>) /\ ~ready'
  <2>1. UNCHANGED queue
    BY <1>6 DEF PublishResult
  <2>2. QED
    BY <1>6, <2>1, NothingQueued
<1>7. ASSUME ready'
      PROVE  /\ HubPage' = shows /\ shows \in PageState
             /\ after.history.columns \in Seq(Column) /\ after.history.columns # <<>>
             /\ Len(after.history.columns) <= MaxColumns
             /\ after.nextIndex \in Nat /\ Len(after.history.columns) <= after.nextIndex
             /\ stored' = NumberedColumns(after.history.columns, after.nextIndex)
  <2> DEFINE columns == after.history.columns
             next    == after.nextIndex
  <2>1. /\ columns \in Seq(Column) /\ Len(columns) <= MaxColumns
        /\ next \in Nat /\ Len(columns) <= next
    BY EngineParts DEF Consistent
  <2>2. stored' = NumberedColumns(columns, next) /\ stored' # <<>>
    BY <1>3, <1>7 DEF Numbered
  <2>3. columns # <<>>
    BY <2>2 DEF NumberedColumns
  <2>4. ChartOf(product, stored') = [product |-> product, next |-> next, columns |-> columns]
    <3> HIDE DEF columns, next
    <3>1. QED
      BY <2>1, <2>2, <2>3, ChartOfNumbered
  <2>5. HubPage' = [chart |-> ChartOf(product, stored'), shown |-> effective]
    BY <1>3 DEF HubPage, ChartOf
  <2>6. HubPage' = shows
    BY <2>4, <2>5 DEF PageOf
  <2>7. shows \in PageState
    <3> HIDE DEF columns, next, effective
    <3>1. QED
      BY <1>1, <1>2, <2>1, PageOfType DEF columns, next
  <2>8. QED
    BY <2>1, <2>2, <2>3, <2>6, <2>7
<1>8. CASE ~(~result.changed /\ result.updates = <<>>) /\ ready' /\ ready
  <2> DEFINE told    == IF result.changed THEN <<StateMessage(effective)>> ELSE <<>>
             members == ColumnMessages(result.updates)
             status  == EffectiveStatus(sourceStatus, before.status)
             middle  == PageOf(product, before.history.columns, before.nextIndex, effective)
  <2>1. EnqueueToAll(told \o members)
    BY <1>8 DEF PublishResult, TellUpdates, ColumnMessages
  <2>2. /\ HubPage = PageOf(product, before.history.columns, before.nextIndex, status)
        /\ before.history.columns \in Seq(Column) /\ before.nextIndex \in Nat
    BY <1>1, <1>8, HubHasColumns
  <2>3. middle \in PageState
    <3> HIDE DEF effective
    <3>1. QED
      BY <1>1, <1>2, <2>2, PageOfType
  <2>4. told \in Seq(Message)
    BY <1>2, MessageTypes, OneMessage, EmptySeq
  <2>5. members \in Seq(Message) /\ Leads(middle, members, shows)
    <3> HIDE DEF effective
    <3>1. QED
      BY <1>1, <1>2, UpdatesRead
  <2>6. ASSUME HubPage \in PageState
        PROVE  Leads(HubPage, told, middle)
    <3>1. CASE result.changed
      <4>1. [chart |-> HubPage.chart, shown |-> effective] = middle
        BY <2>2 DEF PageOf
      <4> HIDE DEF middle, effective
      <4>2. Leads(HubPage, <<StateMessage(effective)>>, middle)
        BY <1>2, <2>6, <4>1, StateTaken
      <4>3. QED
        BY <3>1, <4>2
    <3>2. CASE ~result.changed
      <4>1. status = effective
        BY <3>2
      <4>2. HubPage = middle
        BY <2>2, <4>1
      <4> HIDE DEF middle
      <4>3. Leads(HubPage, <<>>, middle)
        BY <2>6, <4>2, LeadsNothing
      <4>4. QED
        BY <3>2, <4>3
    <3>3. QED
      BY <3>1, <3>2
  <2>7. shows \in PageState /\ HubPage' = shows
    BY <1>7, <1>8
  <2> HIDE DEF told, members, middle, shows
  <2>8. told \o members \in Seq(Message)
    BY <2>4, <2>5, ConcatProperties
  <2>9. ASSUME NEW last \in PageState, ready => last = HubPage
        PROVE  \E next \in PageState : /\ Leads(last, told \o members, next)
                                       /\ ready' => next = HubPage'
    <3>1. last = HubPage /\ HubPage \in PageState
      BY <1>8, <2>9
    <3>2. Leads(last, told \o members, shows)
      BY <2>4, <2>5, <2>6, <3>1, LeadsOn
    <3>3. QED
      BY <2>7, <3>2
  <2>10. QED
    BY <2>1, <2>8, <2>9, SomethingQueued
<1>9. CASE ~(~result.changed /\ result.updates = <<>>) /\ ready' /\ ~ready
  <2> DEFINE columns == after.history.columns
             next    == after.nextIndex
             messages == SnapshotMessages(product, NumberedColumns(columns, next), effective, failure)
  <2>1. ReplaceQueues(SnapshotMessages(product, stored', effective, failure))
    BY <1>9 DEF PublishResult
  <2>2. /\ HubPage' = shows /\ shows \in PageState
        /\ columns \in Seq(Column) /\ columns # <<>> /\ Len(columns) <= MaxColumns
        /\ next \in Nat /\ Len(columns) <= next
        /\ stored' = NumberedColumns(columns, next)
    BY <1>7, <1>9
  <2>3. ReplaceQueues(messages)
    BY <2>1, <2>2
  <2>4. shows = PageOf(product, columns, next, effective)
    OBVIOUS
  <2> HIDE DEF effective, shows, columns, next
  <2>5. \A first \in PageState : messages \in Seq(Message) /\ Leads(first, messages, shows)
    BY <1>1, <1>2, <2>2, <2>4, SnapshotRead
  <2> HIDE DEF messages
  <2>6. messages \in Seq(Message)
    BY <2>2, <2>5
  <2>7. \A first \in PageState :
          \E last \in PageState : /\ Leads(first, messages, last)
                                  /\ ready' => last = HubPage'
    BY <2>2, <2>5
  <2>8. QED
    BY <2>3, <2>6, <2>7, QueuesReplaced
<1>10. QED
  BY <1>5, <1>6, <1>8, <1>9

LEMMA PublishOutcomePages ==
  ASSUME RunnerInv, PagesInv, PublishOutcome
  PROVE  PagesInv'
<1>1. /\ at = "publishing" /\ UNCHANGED <<product, pageVars>>
      /\ PublishResult(outcome, engine.status)
  BY DEF PublishOutcome, Goto
<1>2. CASE ~AcceptsSession
  <2>1. UNCHANGED <<hubVars, queue>>
    BY <1>1, <1>2 DEF PublishResult
  <2>2. ready' = ready /\ HubPage' = HubPage
    BY <1>1, <2>1 DEF hubVars, HubPage, ChartOf
  <2>3. QED
    BY <1>1, <2>1, <2>2, NothingQueued
<1>3. CASE AcceptsSession
  <2>1. runnerSession = session
    BY <1>3 DEF AcceptsSession
  <2>2. PICK before : /\ Mirrors(before)
                      /\ Tells(before, outcome.updates, engine)
                      /\ ~outcome.changed => engine.status = before.status
    BY <1>1, <2>1, Zenon DEF RunnerInv, AwaitsPublication
  <2>3. Consistent(engine)
    BY DEF RunnerInv
  <2>4. QED
    BY <1>1, <1>3, <2>2, <2>3, ResultPages
<1>4. QED
  BY <1>2, <1>3

LEMMA PublishRecoveryPages ==
  ASSUME RunnerInv, PagesInv, PublishRecovery
  PROVE  PagesInv'
<1> DEFINE after  == BeginRecovery(engine)
           result == Outcome(engine, after, <<>>)
<1>1. /\ at = "recovering" /\ UNCHANGED <<product, pageVars>>
      /\ PublishResult(result, after.status)
  BY DEF PublishRecovery, Goto
<1>2. CASE ~AcceptsSession
  <2>1. UNCHANGED <<hubVars, queue>>
    BY <1>1, <1>2 DEF PublishResult
  <2>2. ready' = ready /\ HubPage' = HubPage
    BY <1>1, <2>1 DEF hubVars, HubPage, ChartOf
  <2>3. QED
    BY <1>1, <2>1, <2>2, NothingQueued
<1>3. CASE AcceptsSession
  <2>1. Mirrors(engine)
    BY <1>1, <1>3 DEF RunnerInv, AcceptsSession
  <2>2. Consistent(after) /\ Tells(engine, <<>>, after)
    BY RecoveryTells DEF RunnerInv
  <2>3. result.updates = <<>> /\ result.changed = (after.status # engine.status)
    BY DEF Outcome
  <2> HIDE DEF result, after
  <2>4. QED
    BY <1>1, <1>3, <2>1, <2>2, <2>3, ResultPages
<1>4. QED
  BY <1>2, <1>3

\* A switch: the pages are reset, whatever was queued.
LEMMA SwitchPages ==
  ASSUME RunnerInv, PagesInv, NEW selected \in Product, SwitchProduct(selected)
  PROVE  PagesInv'
<1> DEFINE reset    == <<Reset(selected)>>
           told     == <<StateMessage("connecting")>>
           messages == <<Reset(selected), StateMessage("connecting")>>
           after    == [chart |-> NoData, shown |-> "connecting"]
<1>1. /\ ready' = FALSE /\ ReplaceQueues(messages) /\ UNCHANGED pageVars
  BY DEF SwitchProduct, BeginProductSession
<1>2. "connecting" \in StatusName /\ after \in PageState
  BY DEF PageState, StatusName, SourceStatus
<1>3. reset \in Seq(Message) /\ told \in Seq(Message)
  BY <1>2, MessageTypes, OneMessage
<1>4. messages = reset \o told
  <2> DEFINE first  == Reset(selected)
             second == StateMessage("connecting")
  <2>1. first \in Message /\ second \in Message
    BY <1>2, MessageTypes
  <2> HIDE DEF first, second
  <2>2. <<first, second>> = <<first>> \o <<second>>
    <3> DEFINE both == <<first, second>>
               one  == <<first>>
               two  == <<second>>
    <3>1. /\ both \in Seq(Message) /\ Len(both) = 2 /\ both[1] = first /\ both[2] = second
          /\ one \in Seq(Message) /\ Len(one) = 1 /\ one[1] = first
          /\ two \in Seq(Message) /\ Len(two) = 1 /\ two[1] = second
      BY <2>1
    <3> HIDE DEF both, one, two
    <3>2. /\ one \o two \in Seq(Message) /\ Len(one \o two) = Len(one) + Len(two)
          /\ \A i \in 1 .. Len(one) + Len(two) :
               (one \o two)[i] = IF i <= Len(one) THEN one[i] ELSE two[i - Len(one)]
      BY <3>1, ConcatProperties
    <3>3. ASSUME NEW i \in 1 .. 2
          PROVE  both[i] = (one \o two)[i]
      BY <3>1, <3>2
    <3>4. Len(both) = Len(one \o two)
      BY <3>1, <3>2
    <3>5. both = one \o two
      BY <3>1, <3>2, <3>3, <3>4, SeqEqual
    <3>6. QED
      BY <3>5 DEF both, one, two
  <2>3. QED
    BY <2>2 DEF first, second
<1>5. ASSUME NEW first \in PageState
      PROVE  \E last \in PageState : Leads(first, reset \o told, last) /\ (ready' => last = HubPage')
  <2>1. Leads(first, reset, after)
    BY ResetTaken
  <2>2. Leads(after, told, [chart |-> after.chart, shown |-> "connecting"])
    <3> HIDE DEF after
    <3>1. QED
      BY <1>2, StateTaken
  <2>3. [chart |-> after.chart, shown |-> "connecting"] \in PageState
    BY <1>2 DEF PageState
  <2> HIDE DEF after, reset, told
  <2>4. Leads(first, reset \o told, [chart |-> after.chart, shown |-> "connecting"])
    BY <1>3, <2>1, <2>2, LeadsOn
  <2>5. QED
    BY <1>1, <2>3, <2>4
<1> HIDE DEF messages, reset, told
<1>6. messages \in Seq(Message)
  BY <1>3, <1>4, ConcatProperties
<1>7. QED
  BY <1>1, <1>4, <1>5, <1>6, QueuesReplaced

\* A page that opens, or comes back, starts with what the hub has.
LEMMA SubscribePages ==
  ASSUME RunnerInv, PagesInv, NEW page \in Page, Subscribe(page)
  PROVE  PagesInv'
<1> DEFINE status   == EffectiveStatus(sourceStatus, bookStatus)
           messages == IF ready THEN SnapshotMessages(product, stored, status, failure)
                                ELSE PendingMessages(status, failure)
           first    == [chart |-> chart[page], shown |-> shown[page]]
<1>1. /\ connected' = connected \cup {page} /\ page \notin connected
      /\ queue' = [queue EXCEPT ![page] = messages]
      /\ UNCHANGED <<product, hubVars, chart, shown, refused>>
  BY DEF Subscribe
<1>2. /\ product \in Product /\ sourceStatus \in SourceStatus /\ failure \in BOOLEAN
      /\ bookStatus \in EngineStatus /\ ready = (stored # <<>>) /\ status \in StatusName
  <2>1. bookStatus \in EngineStatus /\ sourceStatus \in SourceStatus
    BY RunnerInvIsEnough
  <2>2. status \in StatusName
    BY <2>1, EffectiveStatusType
  <2>3. QED
    BY <2>1, <2>2 DEF RunnerInv
<1>3. /\ connected \subseteq Page /\ refused = {} /\ queue \in [Page -> Seq(Message)]
      /\ chart \in [Page -> Chart \cup {NoData}] /\ shown \in [Page -> StatusName]
      /\ \A other \in Page \ connected : queue[other] = <<>>
  BY DEF PagesInv
<1>4. first \in PageState
  BY <1>3 DEF PageState
<1>5. HubPage' = HubPage /\ ready' = ready
  BY <1>1 DEF HubPage, ChartOf, hubVars
<1>6. messages \in Seq(Message)
      /\ \E last \in PageState : Leads(first, messages, last) /\ (ready => last = HubPage)
  <2>1. CASE ready
    <3>1. runnerSession = session
      BY <1>2, <2>1 DEF RunnerInv
    <3>2. PICK some : Mirrors(some)
      <4>1. CASE at = "publishing"
        BY <3>1, <4>1, Zenon DEF RunnerInv, AwaitsPublication
      <4>2. CASE at # "publishing"
        BY <3>1, <4>2, Zenon DEF RunnerInv
      <4>3. QED
        BY <4>1, <4>2
    <3> DEFINE columns == some.history.columns
               next    == some.nextIndex
    <3>3. /\ columns \in Seq(Column) /\ columns # <<>> /\ Len(columns) <= MaxColumns
          /\ next \in Nat /\ Len(columns) <= next
          /\ stored = NumberedColumns(columns, next)
          /\ HubPage = PageOf(product, columns, next, status)
      <4>1. bookStatus = some.status
        BY <3>2 DEF Mirrors
      <4>2. QED
        BY <1>2, <2>1, <3>2, <4>1, HubHasColumns
    <3>4. messages = SnapshotMessages(product, NumberedColumns(columns, next), status, failure)
      BY <2>1, <3>3
    <3> HIDE DEF columns, next, messages, first, status
    <3>5. messages \in Seq(Message) /\ Leads(first, messages, HubPage)
      BY <1>2, <1>4, <3>3, <3>4, SnapshotRead
    <3>6. HubPage \in PageState
      BY <1>2, <3>3, PageOfType
    <3>7. QED
      BY <3>5, <3>6
  <2>2. CASE ~ready
    <3> DEFINE after == [chart |-> first.chart, shown |-> status]
    <3>1. after \in PageState
      BY <1>2, <1>4 DEF PageState
    <3>2. messages = PendingMessages(status, failure)
      BY <2>2
    <3> HIDE DEF messages, first, status
    <3>3. messages \in Seq(Message) /\ Leads(first, messages, after)
      BY <1>2, <1>4, <3>2, PendingRead
    <3> HIDE DEF after
    <3>4. QED
      BY <2>2, <3>1, <3>3
  <2>3. QED
    BY <2>1, <2>2
<1> HIDE DEF messages
<1>7. queue' \in [Page -> Seq(Message)] /\ queue'[page] = messages
      /\ \A other \in Page \ {page} : queue'[other] = queue[other]
  BY <1>1, <1>3, <1>6
<1>8. ASSUME NEW other \in connected'
      PROVE  Reads(other)'
  <2>1. PICK last \in PageState :
          /\ Leads([chart |-> chart[other], shown |-> shown[other]], queue'[other], last)
          /\ ready => last = HubPage
    <3>1. CASE other = page
      BY <1>6, <1>7, <3>1
    <3>2. CASE other # page
      <4>1. other \in connected /\ queue'[other] = queue[other]
        BY <1>1, <1>3, <1>7, <3>2
      <4>2. Reads(other)
        BY <4>1 DEF PagesInv
      <4>3. QED
        BY <4>1, <4>2, Zenon DEF Reads
    <3>3. QED
      BY <3>1, <3>2
  <2>2. Leads([chart |-> chart'[other], shown |-> shown'[other]], queue'[other], last)
    BY <1>1, <2>1
  <2>3. QED
    BY <1>5, <2>1, <2>2, Zenon DEF Reads, Leads
<1>9. /\ (connected \subseteq Page)' /\ (refused = {})'
      /\ (queue \in [Page -> Seq(Message)])'
      /\ (chart \in [Page -> Chart \cup {NoData}])' /\ (shown \in [Page -> StatusName])'
  BY <1>1, <1>3, <1>7 DEF Chart, Message
<1>10. (\A other \in Page \ connected : queue[other] = <<>>)'
  BY <1>1, <1>3, <1>7
<1>11. (\A other \in connected : Reads(other))'
  BY <1>8
<1>12. QED
  BY <1>9, <1>10, <1>11, Zenon DEF PagesInv

\* A page that closes takes nothing with it that another needs.
LEMMA DisconnectPages ==
  ASSUME PagesInv, NEW page \in Page, Disconnect(page)
  PROVE  PagesInv'
<1>1. /\ connected' = connected \ {page}
      /\ queue' = [queue EXCEPT ![page] = <<>>]
      /\ shown' = [shown EXCEPT ![page] = "disconnected"]
      /\ UNCHANGED <<product, hubVars, chart, refused>>
  BY DEF Disconnect, Closed
<1>2. /\ connected \subseteq Page /\ refused = {} /\ queue \in [Page -> Seq(Message)]
      /\ chart \in [Page -> Chart \cup {NoData}] /\ shown \in [Page -> StatusName]
      /\ \A other \in Page \ connected : queue[other] = <<>>
  BY DEF PagesInv
<1>3. HubPage' = HubPage /\ ready' = ready
  BY <1>1 DEF HubPage, ChartOf, hubVars
<1>4. ASSUME NEW other \in connected'
      PROVE  Reads(other)'
  <2>1. /\ other \in connected /\ queue'[other] = queue[other]
        /\ shown'[other] = shown[other] /\ chart'[other] = chart[other]
    BY <1>1, <1>2
  <2>2. PICK last \in PageState :
          /\ Leads([chart |-> chart[other], shown |-> shown[other]], queue[other], last)
          /\ ready => last = HubPage
    BY <2>1, PagesParts, Zenon DEF Reads
  <2>3. Leads([chart |-> chart'[other], shown |-> shown'[other]], queue'[other], last)
    BY <2>1, <2>2
  <2>4. QED
    BY <1>3, <2>2, <2>3, Zenon DEF Reads, Leads
<1>5. "disconnected" \in StatusName /\ <<>> \in Seq(Message)
  BY DEF StatusName, SourceStatus
<1>6. /\ (connected \subseteq Page)' /\ (refused = {})'
      /\ (queue \in [Page -> Seq(Message)])'
      /\ (chart \in [Page -> Chart \cup {NoData}])' /\ (shown \in [Page -> StatusName])'
  BY <1>1, <1>2, <1>5 DEF Chart, Message
<1>7. (\A other \in Page \ connected : queue[other] = <<>>)'
  BY <1>1, <1>2
<1>8. (\A other \in connected : Reads(other))'
  BY <1>4
<1>9. QED
  BY <1>6, <1>7, <1>8, Zenon DEF PagesInv

\* A page reads the next message, and does not refuse it.
LEMMA DeliverPages ==
  ASSUME PagesInv, NEW page \in Page, Deliver(page)
  PROVE  PagesInv'
<1> DEFINE message == Head(queue[page])
           before  == [chart |-> chart[page], shown |-> shown[page]]
<1>1. page \in connected /\ queue[page] # <<>> /\ UNCHANGED <<product, hubVars>>
  BY DEF Deliver
<1>2. /\ connected \subseteq Page /\ refused = {} /\ queue \in [Page -> Seq(Message)]
      /\ chart \in [Page -> Chart \cup {NoData}] /\ shown \in [Page -> StatusName]
      /\ \A other \in Page \ connected : queue[other] = <<>>
  BY DEF PagesInv
<1>3. PICK last \in PageState :
        Leads(before, queue[page], last) /\ (ready => last = HubPage)
  BY <1>1, PagesParts, Zenon DEF Reads
<1>4. queue[page] \in Seq(Message)
  BY <1>2
<1> HIDE DEF before
<1>5. PICK after \in PageState : Takes(before, message, after) /\ Leads(after, Tail(queue[page]), last)
  BY <1>1, <1>3, <1>4, LeadsFirst
<1>6. /\ ~Refusing(chart[page], message)
      /\ after.chart = ChartAfter(chart[page], message)
      /\ after.shown = ShownAfter(shown[page], message)
  BY <1>5 DEF Takes, before
<1>7. /\ chart' = [chart EXCEPT ![page] = after.chart]
      /\ shown' = [shown EXCEPT ![page] = after.shown]
      /\ queue' = [queue EXCEPT ![page] = Tail(queue[page])]
      /\ UNCHANGED <<connected, refused>>
  <2>1. /\ chart' = [chart EXCEPT ![page] = ChartAfter(@, message)]
        /\ shown' = [shown EXCEPT ![page] = ShownAfter(@, message)]
        /\ queue' = [queue EXCEPT ![page] = Tail(@)]
        /\ UNCHANGED <<connected, refused>>
    BY <1>6 DEF Deliver
  <2>2. QED
    BY <1>6, <2>1
<1> HIDE DEF message
<1>8. after.chart \in Chart \cup {NoData} /\ after.shown \in StatusName
      /\ after = [chart |-> after.chart, shown |-> after.shown]
  BY DEF PageState
<1>9. Tail(queue[page]) \in Seq(Message)
  BY <1>1, <1>4, HeadTailProperties
<1>10. HubPage' = HubPage /\ ready' = ready
  BY <1>1 DEF HubPage, ChartOf, hubVars
<1>11. ASSUME NEW other \in connected'
       PROVE  Reads(other)'
  <2>1. PICK end \in PageState :
          /\ Leads([chart |-> chart'[other], shown |-> shown'[other]], queue'[other], end)
          /\ ready => end = HubPage
    <3>1. CASE other = page
      <4>1. /\ chart'[page] = after.chart /\ shown'[page] = after.shown
            /\ queue'[page] = Tail(queue[page])
        BY <1>2, <1>7
      <4>2. [chart |-> chart'[page], shown |-> shown'[page]] = after
        BY <1>8, <4>1
      <4>3. QED
        BY <1>3, <1>5, <3>1, <4>1, <4>2
    <3>2. CASE other # page
      <4>1. /\ other \in connected /\ other \in Page /\ queue'[other] = queue[other]
            /\ chart'[other] = chart[other] /\ shown'[other] = shown[other]
        BY <1>2, <1>7, <3>2
      <4>2. PICK end \in PageState :
              /\ Leads([chart |-> chart[other], shown |-> shown[other]], queue[other], end)
              /\ ready => end = HubPage
        BY <4>1, PagesParts, Zenon DEF Reads
      <4>3. Leads([chart |-> chart'[other], shown |-> shown'[other]], queue'[other], end)
        BY <4>1, <4>2
      <4>4. QED
        BY <4>2, <4>3
    <3>3. QED
      BY <3>1, <3>2
  <2>2. QED
    BY <1>10, <2>1, Zenon DEF Reads, Leads
<1>12. /\ (connected \subseteq Page)' /\ (refused = {})'
       /\ (queue \in [Page -> Seq(Message)])'
       /\ (chart \in [Page -> Chart \cup {NoData}])' /\ (shown \in [Page -> StatusName])'
  BY <1>2, <1>7, <1>8, <1>9 DEF Chart, Message
<1>13. (\A other \in Page \ connected : queue[other] = <<>>)'
  BY <1>1, <1>2, <1>7
<1>14. (\A other \in connected : Reads(other))'
  BY <1>11
<1>15. QED
  BY <1>12, <1>13, <1>14, Zenon DEF PagesInv

LEMMA PagesInvStep ==
  ASSUME RunnerInv, PagesInv, [Next]_vars
  PROVE  PagesInv'
<1>1. CASE \/ Select \/ Check \/ WakeUp \/ AwaitSwitch \/ Open \/ OpenUnsupported
           \/ Fails("opening") \/ ReceiveRejection \/ Fails("reading") \/ Receive
           \/ UNCHANGED vars
  <2>1. UNCHANGED <<product, hubVars, queue, pageVars>>
    BY <1>1 DEF Select, Check, CheckAt, WakeUp, AwaitSwitch, Open, OpenUnsupported, Fails,
                ReceiveRejection, Receive, ReceiveRaw, ReceiveTrusted, RunnerOnly, vars
  <2>2. ready' = ready /\ HubPage' = HubPage
    BY <2>1 DEF HubPage, ChartOf, hubVars
  <2>3. QED
    BY <2>1, <2>2, NothingQueued
<1>2. CASE Start \/ Connected \/ Reject \/ ReportError \/ Disconnected \/ Announce \/ Retry
  <2>1. /\ PublishError \/ \E status \in SourceStatus : PublishSourceStatus(status)
        /\ UNCHANGED <<product, pageVars>>
    BY <1>2 DEF Start, Connected, Reject, ReportError, Disconnected, Announce, Retry,
                Publishing, SourceStatus
  <2>2. QED
    BY <2>1, StatusPages
<1>3. CASE PublishOutcome
  BY <1>3, PublishOutcomePages
<1>4. CASE PublishRecovery
  BY <1>4, PublishRecoveryPages
<1>5. CASE \E selected \in Product : SwitchProduct(selected)
  BY <1>5, SwitchPages
<1>6. CASE \E page \in Page : Subscribe(page) \/ Disconnect(page) \/ Deliver(page)
  BY <1>6, SubscribePages, DisconnectPages, DeliverPages
<1>7. QED
  BY <1>1, <1>2, <1>3, <1>4, <1>5, <1>6 DEF Next, RunnerStep

LEMMA InitialPages == Init => PagesInv
<1> SUFFICES ASSUME Init
             PROVE  PagesInv
  OBVIOUS
<1>1. /\ connected = {} /\ refused = {} /\ queue = [page \in Page |-> <<>>]
      /\ chart = [page \in Page |-> NoData] /\ shown = [page \in Page |-> "connecting"]
  BY DEF Init
<1>2. <<>> \in Seq(Message) /\ "connecting" \in StatusName
  BY DEF StatusName, SourceStatus
<1>3. QED
  BY <1>1, <1>2 DEF PagesInv

LEMMA InvariantHolds == Spec => [](RunnerInv /\ PagesInv)
  BY InitialRunner, InitialPages, RunnerInvStep, PagesInvStep, PTL DEF Spec

\* Types.
THEOREM TypeCorrect == Spec => []TypeOK
<1>1. RunnerInv /\ PagesInv => TypeOK
  <2> SUFFICES ASSUME RunnerInv, PagesInv
               PROVE  TypeOK
    OBVIOUS
  <2>1. /\ session \in 1 .. MaxSessions /\ product \in Product
        /\ stored \in Seq(StoredColumn) /\ Len(stored) <= MaxColumns
        /\ ready \in BOOLEAN /\ sourceStatus \in SourceStatus /\ bookStatus \in EngineStatus
        /\ failure \in BOOLEAN /\ at \in Place /\ runnerSession \in 0 .. MaxSessions
        /\ runnerProduct \in Product /\ engine \in Engine
    BY RunnerInvIsEnough
  <2>2. /\ connected \subseteq Page
        /\ \A page \in Page : chart[page] = NoData \/ chart[page] \in Chart
        /\ shown \in [Page -> StatusName]
        /\ refused \subseteq Page
    BY DEF PagesInv
  <2>3. QED
    BY <2>1, <2>2, Zenon DEF TypeOK
<1>2. QED
  BY <1>1, InvariantHolds, PTL

\* No page is ever sent a column that does not follow what it has, whatever it had
\* when it connected and however far behind it is.
THEOREM StreamValid == Spec => []StreamIsValid
<1>1. RunnerInv /\ PagesInv => StreamIsValid
  BY DEF PagesInv, StreamIsValid
<1>2. QED
  BY <1>1, InvariantHolds, PTL

\* What is queued for a page makes it show the hub's columns, of the selected
\* product, and the hub's status.
THEOREM PagesShowHub == Spec => []PagesCatchUp
<1>1. RunnerInv /\ PagesInv => PagesCatchUp
  <2> SUFFICES ASSUME PagesInv, ready, NEW page \in connected
               PROVE  /\ ChartRead(page) =
                           [product |-> product,
                            next    |-> LastOf(stored).index + 1,
                            columns |-> [i \in DOMAIN stored |-> stored[i].column]]
                      /\ StatusRead(page) = EffectiveStatus(sourceStatus, bookStatus)
    BY DEF PagesCatchUp
  <2> DEFINE first == [chart |-> chart[page], shown |-> shown[page]]
  <2>1. queue[page] \in Seq(Message) /\ Reads(page)
    BY PagesParts
  <2>2. Leads(first, queue[page], HubPage)
    BY <2>1, Zenon DEF Reads
  <2>3. first.chart = chart[page] /\ first.shown = shown[page]
    OBVIOUS
  <2> HIDE DEF first
  <2>4. ChartRead(page) = HubPage.chart /\ StatusRead(page) = HubPage.shown
    BY <2>1, <2>2, <2>3, LeadsToRead
  <2>5. QED
    BY <2>4 DEF HubPage, ChartOf
<1>2. QED
  BY <1>1, InvariantHolds, PTL
===============================================================================
