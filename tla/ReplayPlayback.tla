--------------------------- MODULE ReplayPlayback ----------------------------
(***************************************************************************)
(* A browser session of a recording: the playback the server keeps for it  *)
(* (src/replay_stream.cpp), the loop that serves it                        *)
(* (src/heatmap_viewer.cpp, run_replay_websocket) and the page that shows  *)
(* it (web/app.js).  Every session has a playback of its own, so one       *)
(* session is modelled.                                                    *)
(*                                                                         *)
(* Controls and columns cross on the wire in every way.  A column is its   *)
(* index in the recording, and takes any time to become due by itself.     *)
(***************************************************************************)
EXTENDS Integers, Sequences

CONSTANTS
  Total,         \* the columns of the recording
  Speed,         \* the speeds the page offers, 1 among them
  MaxControls,   \* how many controls may be under way: bounds the model
  Window         \* how many messages to the page may be under way before the
                 \* server's write blocks: bounds the model

ASSUME RecordingAssumption == Total \in Nat \ {0}
ASSUME SpeedAssumption     == Speed \subseteq Nat /\ 1 \in Speed
ASSUME BoundAssumption     == MaxControls \in Nat /\ Window \in Nat /\ Window >= 2

VARIABLES
  stage,       \* of the page's socket; `refused' once the page gave the stream up
  playback,    \* the session's ReplayPlayback
  due,         \* whether a column is due now, before the loop reads again
  arriving,    \* controls in the server's socket
  readAhead,   \* controls the websocket took from the socket with an earlier one
  toPage,      \* messages on their way to the page
  page         \* what the page holds of the stream

vars == <<stage, playback, due, arriving, readAhead, toPage, page>>

ReplayStatus == {"paused", "playing", "complete"}

Playback == [status : ReplayStatus, position : 0 .. Total, speed : Speed]

Control == [action : {"play", "pause", "restart"}] \cup [action : {"set_speed"}, speed : Speed]

Hello              == [type |-> "hello"]
Reset              == [type |-> "reset"]
ColumnAt(position) == [type |-> "column", index |-> position]
StateOf(current)   == [type |-> "state", status |-> current.status,
                       position |-> current.position, speed |-> current.speed]

PageMessage == {Hello, Reset} \cup {ColumnAt(position) : position \in 0 .. Total - 1}
                              \cup {StateOf(current) : current \in Playback}

\* `hello' is whether the page has the stream's metadata: state.data.
Page == [hello : BOOLEAN, columns : Seq(0 .. Total - 1), position : 0 .. Total,
         status : ReplayStatus \cup {"disconnected"}, speed : Speed]

TypeOK ==
  /\ stage \in {"closed", "open", "refused"}
  /\ playback \in Playback /\ (playback.status = "complete" => playback.position = Total)
  /\ due \in BOOLEAN /\ (due => playback.status = "playing")
  /\ arriving \in Seq(Control) /\ readAhead \in Seq(Control)
  /\ Len(arriving) + Len(readAhead) <= MaxControls
  /\ toPage \in Seq(PageMessage) /\ Len(toPage) <= Window
  /\ page \in Page
------------------------------------------------------------------------------
(***************************************************************************)
(* The server.                                                             *)
(***************************************************************************)

NewPlayback == [status |-> "paused", position |-> 0, speed |-> 1]

\* A mutant: playing goes on from the beginning whatever was played.
ControlRewinding(current, control) ==
  CASE control.action = "play" -> [current EXCEPT !.status = "playing", !.position = 0]
    [] control.action = "pause" -> [current EXCEPT !.status = "paused"]
    [] control.action = "restart" -> [current EXCEPT !.status = "paused", !.position = 0]
    [] OTHER -> [current EXCEPT !.speed = control.speed]

\* ReplayPlayback::apply_control of the controls a page sends; it throws on any
\* other, before it changes anything.
ApplyControl(current, control) ==
  CASE control.action = "play" ->
         [current EXCEPT !.status = "playing", !.position = IF @ = Total THEN 0 ELSE @]
    [] control.action = "pause" -> [current EXCEPT !.status = "paused"]
    [] control.action = "restart" -> [current EXCEPT !.status = "paused", !.position = 0]
    [] control.action = "set_speed" -> [current EXCEPT !.speed = control.speed]

\* A mutant: the recording is not complete with its last column.
ColumnTakenOnly(current) == [current EXCEPT !.position = @ + 1]

\* A mutant: one column more counts as the last one.
ColumnTakenEarly(current) ==
  LET position == current.position + 1
  IN  [current EXCEPT !.position = position,
                      !.status = IF position + 1 >= Total THEN "complete" ELSE @]

\* ReplayPlayback::take_next_column_message, which has one while it plays and is not
\* at the end.
HasColumn(current) == current.status = "playing" /\ current.position < Total
ColumnTaken(current) ==
  LET position == current.position + 1
  IN  [current EXCEPT !.position = position,
                      !.status = IF position = Total THEN "complete" ELSE @]

\* The server's write does not block.
Sends(messages) == Len(toPage) + Len(messages) <= Window /\ toPage' = toPage \o messages

\* A control is answered with the new state, behind a reset if it restarts, and
\* makes the next column due at once.
Obey(control) ==
  LET current == ApplyControl(playback, control)
  IN  /\ playback' = current
      /\ due' = (current.status = "playing")
      /\ Sends((IF control.action = "restart" THEN <<Reset>> ELSE <<>>) \o <<StateOf(current)>>)

\* The loop reads when the socket has something.  The websocket first returns what
\* it had read ahead; otherwise it takes what there is, perhaps several controls,
\* and returns the first.  Nothing is read while the socket itself is empty, though
\* a control be left in readAhead.
ReadControl ==
  /\ stage = "open" /\ ~due /\ arriving # <<>>
  /\ IF readAhead # <<>>
     THEN Obey(Head(readAhead)) /\ readAhead' = Tail(readAhead) /\ UNCHANGED arriving
     ELSE \E taken \in 1 .. Len(arriving) :
            /\ Obey(Head(arriving))
            /\ readAhead' = SubSeq(arriving, 2, taken)
            /\ arriving' = SubSeq(arriving, taken + 1, Len(arriving))
  /\ UNCHANGED <<stage, page>>

\* A mutant: the page is not told that the recording is complete.
SendColumnOnly ==
  /\ stage = "open" /\ HasColumn(playback)
  /\ playback' = ColumnTaken(playback)
  /\ due' = FALSE
  /\ Sends(<<ColumnAt(playback.position)>>)
  /\ UNCHANGED <<stage, arriving, readAhead, page>>

\* The next column is due: after a control, or when the recording has it at the
\* playback's speed, which may be any time.
SendColumn ==
  /\ stage = "open" /\ HasColumn(playback)
  /\ due' = FALSE
  /\ LET current == ColumnTaken(playback)
     IN  /\ playback' = current
         /\ Sends(<<ColumnAt(playback.position)>>
                    \o (IF current.status = "complete" THEN <<StateOf(current)>> ELSE <<>>))
  /\ UNCHANGED <<stage, arriving, readAhead, page>>
------------------------------------------------------------------------------
(***************************************************************************)
(* The page.                                                               *)
(***************************************************************************)

\* initializeStream: a paused page with no columns; the speed waits for the state.
AcceptHello(shown) ==
  [shown EXCEPT !.hello = TRUE, !.columns = <<>>, !.position = 0, !.status = "paused"]

\* resetStreamColumns.
AcceptReset(shown) ==
  IF shown.hello THEN [shown EXCEPT !.columns = <<>>, !.position = 0] ELSE shown

\* handleColumn takes only the column that follows those it has, and throws
\* otherwise.
Refuses(shown, incoming) ==
  incoming.type = "column" /\ (~shown.hello \/ incoming.index # Len(shown.columns))
AcceptColumn(shown, index) ==
  [shown EXCEPT !.columns = Append(@, index), !.position = index + 1]

\* A mutant: a state behind the page's columns does not drop them.
AcceptStateKeepingColumns(shown, state) ==
  [shown EXCEPT !.position = state.position, !.speed = state.speed, !.status = state.status]

\* handlePlaybackState: columns at and after the position are dropped, which is
\* how a recording played again from its end begins.
AcceptState(shown, state) ==
  IF ~shown.hello THEN shown
  ELSE [shown EXCEPT !.columns = IF state.position < Len(@) THEN SubSeq(@, 1, state.position)
                                                            ELSE @,
                     !.position = state.position,
                     !.speed = state.speed,
                     !.status = state.status]

Accept(shown, incoming) ==
  CASE incoming.type = "hello"  -> AcceptHello(shown)
    [] incoming.type = "reset"  -> AcceptReset(shown)
    [] incoming.type = "column" -> AcceptColumn(shown, incoming.index)
    [] incoming.type = "state"  -> AcceptState(shown, incoming)

\* A socket ends for both sides: what is on it is lost, and so is the server's
\* playback.  The page keeps its columns.
Close(next) ==
  /\ stage' = next
  /\ playback' = NewPlayback /\ due' = FALSE
  /\ arriving' = <<>> /\ readAhead' = <<>> /\ toPage' = <<>>
  /\ page' = [page EXCEPT !.status = "disconnected"]

\* A message that throws makes the page close the stream and retry no more.
Deliver ==
  /\ stage = "open" /\ toPage # <<>>
  /\ IF Refuses(page, Head(toPage)) THEN Close("refused")
     ELSE /\ page' = Accept(page, Head(toPage))
          /\ toPage' = Tail(toPage)
          /\ UNCHANGED <<stage, playback, due, arriving, readAhead>>

\* The connection breaks.
Disconnect == stage = "open" /\ Close("closed")

\* What the server's session begins with.
Opening == <<Hello, StateOf(NewPlayback)>>

\* The page's socket opens, now or again: a new session with a paused playback.
Connect ==
  /\ stage = "closed"
  /\ stage' = "open"
  /\ toPage' = Opening
  /\ UNCHANGED <<playback, due, arriving, readAhead, page>>

\* The page's buttons, which an open stream's metadata enables and its end disables.
PlayButton == [action |-> IF page.status = "playing" THEN "pause" ELSE "play"]
Offered == {PlayButton, [action |-> "restart"]} \cup [action : {"set_speed"}, speed : Speed]

Click ==
  /\ stage = "open" /\ page.status # "disconnected"
  /\ Len(arriving) + Len(readAhead) < MaxControls
  /\ \E control \in Offered : arriving' = Append(arriving, control)
  /\ UNCHANGED <<stage, playback, due, readAhead, toPage, page>>
------------------------------------------------------------------------------
Init ==
  /\ stage = "closed"
  /\ playback = NewPlayback /\ due = FALSE
  /\ arriving = <<>> /\ readAhead = <<>> /\ toPage = <<>>
  /\ page = [hello |-> FALSE, columns |-> <<>>, position |-> 0,
             status |-> "disconnected", speed |-> 1]

Next ==
  \/ Connect
  \/ ReadControl
  \/ SendColumn
  \/ Deliver
  \/ Disconnect
  \/ Click

Spec == Init /\ [][Next]_vars

\* The loop goes round, every interval of a recording ends, and the page handles
\* what it receives.
FairSpec == Spec /\ WF_vars(ReadControl) /\ WF_vars(SendColumn) /\ WF_vars(Deliver)
------------------------------------------------------------------------------
(***************************************************************************)
(* Correctness.                                                            *)
(***************************************************************************)

\* Whatever the page asks for while columns are on their way to it, and in whatever
\* order, it never takes the stream for an invalid one, which it would not recover
\* from (handleColumn's exception).
StreamIsValid == stage # "refused"

\* A page that has read everything shows what the server has played, and in the
\* state the server is in: also after the rewind of play at the end, for which
\* apply_control sends no reset.
PageCatchesUp ==
  stage = "open" /\ toPage = <<>> =>
    /\ page.columns = [i \in 1 .. playback.position |-> i - 1]
    /\ <<page.status, page.position, page.speed>> =
         <<playback.status, playback.position, playback.speed>>

\* The page's chart only loses columns to a new session, to a restart, or from its
\* end, when the recording is played again: no other control drops any.
OnlyRewindDropsColumns ==
  [][Len(page'.columns) < Len(page.columns) =>
       \/ Head(toPage) \in {Hello, Reset}
       \/ Len(page.columns) = Total /\ page'.columns = <<>> /\ page'.status = "playing"]_vars

\* A recording that is playing comes to its end on the page, whole, unless it is
\* paused or restarted, or the connection breaks.
PlayingIsShown ==
  (stage = "open" /\ playback.status = "playing") ~>
    \/ page.status = "complete" /\ Len(page.columns) = Total
    \/ playback.status = "paused"
==============================================================================
