------------------------- MODULE ReplayPlaybackProofs -------------------------
(***************************************************************************)
(* What a page shows of a recording, for every recording, every set of     *)
(* speeds and any number of controls and messages under way.               *)
(*                                                                         *)
(* What is still on its way to the page decides what it will show, so the  *)
(* inductive invariant is about the pages it becomes while it reads that:  *)
(* one for each message, none of them refused, the last of them the page   *)
(* of what the server has played.                                          *)
(***************************************************************************)
EXTENDS ReplayPlayback, SequenceTheorems, TLAPS

\* The page takes a message and becomes `after'; only messages that may do drop
\* columns (OnlyRewindDropsColumns).
Takes(before, incoming, after) ==
  /\ ~Refuses(before, incoming)
  /\ after = Accept(before, incoming)
  /\ Len(after.columns) < Len(before.columns) =>
       \/ incoming \in {Hello, Reset}
       \/ Len(before.columns) = Total /\ after.columns = <<>> /\ after.status = "playing"

\* The page that shows a playback: its columns, its position, status and speed.
Shows(shown, current) ==
  /\ shown.hello
  /\ shown.columns = [i \in 1 .. current.position |-> i - 1]
  /\ shown.status = current.status
  /\ shown.position = current.position
  /\ shown.speed = current.speed

\* Reading a queue to its end, a page comes to show the playback.
CatchesUp(first, queue, current) ==
  \E states \in [0 .. Len(queue) -> Page] :
    /\ states[0] = first
    /\ \A i \in 1 .. Len(queue) : Takes(states[i - 1], queue[i], states[i])
    /\ Shows(states[Len(queue)], current)

\* The inductive invariant.
IInv ==
  /\ TypeOK
  /\ stage # "refused"
  /\ IF stage = "open" THEN CatchesUp(page, toPage, playback) ELSE playback = NewPlayback

------------------------------------------------------------------------------
(***************************************************************************)
(* Queues.                                                                 *)
(***************************************************************************)

\* A page with nothing to read shows the playback already.
LEMMA NothingToRead ==
  ASSUME NEW first, NEW current, CatchesUp(first, <<>>, current)
  PROVE  Shows(first, current)
  BY DEF CatchesUp

\* The first message of a queue is taken, and the page it makes catches up with the
\* rest.
LEMMA ReadFirst ==
  ASSUME NEW first, NEW queue \in Seq(PageMessage), queue # <<>>, NEW current,
         CatchesUp(first, queue, current)
  PROVE  \E after \in Page : /\ Takes(first, Head(queue), after)
                             /\ CatchesUp(after, Tail(queue), current)
<1>1. PICK states \in [0 .. Len(queue) -> Page] :
        /\ states[0] = first
        /\ \A i \in 1 .. Len(queue) : Takes(states[i - 1], queue[i], states[i])
        /\ Shows(states[Len(queue)], current)
  BY DEF CatchesUp
<1> DEFINE rest  == Tail(queue)
           later == [i \in 0 .. Len(rest) |-> states[i + 1]]
<1>2. /\ Len(queue) \in Nat \ {0} /\ Len(rest) = Len(queue) - 1
      /\ Head(queue) = queue[1] /\ \A i \in 1 .. Len(rest) : rest[i] = queue[i + 1]
  BY HeadTailProperties, LenProperties, EmptySeq
<1>3. Takes(states[0], queue[1], states[1])
  <2>1. 1 \in 1 .. Len(queue) /\ 1 - 1 = 0
    BY <1>2
  <2>2. QED
    BY <1>1, <2>1, Zenon
<1>4. later \in [0 .. Len(rest) -> Page] /\ later[0] = states[1]
      /\ later[Len(rest)] = states[Len(queue)]
  <2> HIDE DEF rest
  <2>1. \A i \in 0 .. Len(rest) : i + 1 \in 0 .. Len(queue)
    BY <1>2
  <2>2. 0 \in 0 .. Len(rest) /\ Len(rest) \in 0 .. Len(rest) /\ 0 + 1 = 1
        /\ Len(rest) + 1 = Len(queue)
    BY <1>2
  <2>3. QED
    BY <2>1, <2>2, Zenon
<1>5. ASSUME NEW i \in 1 .. Len(rest)
      PROVE  Takes(later[i - 1], rest[i], later[i])
  <2> HIDE DEF rest
  <2>1. i - 1 \in 0 .. Len(rest) /\ i \in 0 .. Len(rest) /\ (i - 1) + 1 = i
        /\ i + 1 \in 1 .. Len(queue) /\ (i + 1) - 1 = i
    BY <1>2
  <2>2. later[i - 1] = states[i] /\ later[i] = states[i + 1] /\ rest[i] = queue[i + 1]
    BY <1>2, <2>1, Zenon
  <2>3. Takes(states[(i + 1) - 1], queue[i + 1], states[i + 1])
    BY <1>1, <2>1, Zenon
  <2>4. QED
    BY <2>1, <2>2, <2>3, Zenon
<1>6. CatchesUp(states[1], rest, current)
  <2> HIDE DEF rest, later
  <2>1. QED
    BY <1>1, <1>4, <1>5, Zenon DEF CatchesUp
<1>7. states[1] \in Page
  BY <1>2
<1>8. QED
  BY <1>1, <1>2, <1>3, <1>6, <1>7, Zenon

\* What is sent last is read last, by a page that shows all that came before.
LEMMA SendLast ==
  ASSUME NEW first, NEW queue \in Seq(PageMessage), NEW current, NEW next,
         NEW message \in PageMessage,
         CatchesUp(first, queue, current),
         \A shown \in Page : Shows(shown, current) =>
           \E after \in Page : Takes(shown, message, after) /\ Shows(after, next)
  PROVE  CatchesUp(first, queue \o <<message>>, next)
<1>1. PICK states \in [0 .. Len(queue) -> Page] :
        /\ states[0] = first
        /\ \A i \in 1 .. Len(queue) : Takes(states[i - 1], queue[i], states[i])
        /\ Shows(states[Len(queue)], current)
  BY DEF CatchesUp
<1>2. Len(queue) \in Nat
  BY LenProperties
<1>3. states[Len(queue)] \in Page
  BY <1>2
<1>4. PICK after \in Page : Takes(states[Len(queue)], message, after) /\ Shows(after, next)
  BY <1>1, <1>3
<1> DEFINE longer == queue \o <<message>>
           all    == [i \in 0 .. Len(longer) |-> IF i = Len(longer) THEN after ELSE states[i]]
<1>5. /\ Len(longer) = Len(queue) + 1
      /\ \A i \in 1 .. Len(queue) : longer[i] = queue[i]
      /\ longer[Len(queue) + 1] = message
  <2>1. <<message>> \in Seq(PageMessage) /\ Len(<<message>>) = 1 /\ <<message>>[1] = message
    OBVIOUS
  <2>2. QED
    BY <1>2, <2>1, ConcatProperties
<1> HIDE DEF longer
<1>6. all \in [0 .. Len(longer) -> Page]
  BY <1>2, <1>5
<1>7. all[0] = first /\ all[Len(longer)] = after
  BY <1>1, <1>2, <1>5
<1>8. ASSUME NEW i \in 1 .. Len(longer)
      PROVE  Takes(all[i - 1], longer[i], all[i])
  <2>1. CASE i = Len(longer)
    <3>1. all[i] = after /\ all[i - 1] = states[Len(queue)] /\ longer[i] = message
      BY <1>2, <1>5, <2>1
    <3>2. QED
      BY <1>4, <3>1
  <2>2. CASE i # Len(longer)
    <3>1. i \in 1 .. Len(queue)
      BY <1>2, <1>5, <2>2
    <3>2. all[i] = states[i] /\ all[i - 1] = states[i - 1] /\ longer[i] = queue[i]
      BY <1>2, <1>5, <2>2, <3>1
    <3>3. QED
      BY <1>1, <3>1, <3>2
  <2>3. QED
    BY <2>1, <2>2
<1>9. CatchesUp(first, longer, next)
  <2> HIDE DEF all
  <2>1. QED
    BY <1>4, <1>6, <1>7, <1>8, Zenon DEF CatchesUp
<1>10. QED
  BY <1>9 DEF longer

------------------------------------------------------------------------------
(***************************************************************************)
(* Messages.                                                               *)
(***************************************************************************)

\* A page that shows a playback has its columns, from the first on.
LEMMA ShownColumns ==
  ASSUME NEW shown \in Page, NEW current \in [status : ReplayStatus, position : 0 .. Total, speed : Speed],
         Shows(shown, current)
  PROVE  /\ shown.columns \in Seq(0 .. Total - 1)
         /\ Len(shown.columns) = current.position
         /\ \A i \in 1 .. current.position : shown.columns[i] = i - 1
<1>1. shown.columns \in Seq(0 .. Total - 1) /\ current.position \in Nat
  BY RecordingAssumption DEF Page
<1>2. DOMAIN shown.columns = 1 .. current.position
  BY DEF Shows
<1>3. Len(shown.columns) = current.position
  BY <1>1, <1>2, LenProperties
<1>4. QED
  BY <1>1, <1>3 DEF Shows

\* A state is taken if it goes on from where the page is, or rewinds a page that has
\* the whole recording.
LEMMA StateTaken ==
  ASSUME NEW shown \in Page, NEW current \in Playback, NEW next \in Playback,
         Shows(shown, current),
         \/ next.position = current.position
         \/ current.position = Total /\ next.position = 0 /\ next.status = "playing"
  PROVE  \E after \in Page : Takes(shown, StateOf(next), after) /\ Shows(after, next)
<1> DEFINE after == AcceptState(shown, StateOf(next))
           columns == shown.columns
<1>1. /\ columns \in Seq(0 .. Total - 1) /\ Len(columns) = current.position
      /\ \A i \in 1 .. current.position : columns[i] = i - 1
  BY ShownColumns DEF Playback
<1>2. /\ next.status \in ReplayStatus /\ next.position \in 0 .. Total /\ next.speed \in Speed
      /\ current.position \in 0 .. Total /\ Total \in Nat \ {0}
  BY RecordingAssumption DEF Playback
<1>3. shown.hello = TRUE
  BY DEF Shows, Page
<1>4. after.columns = IF next.position < Len(columns) THEN SubSeq(columns, 1, next.position)
                                                      ELSE columns
  BY <1>3 DEF AcceptState, StateOf, Page
<1>5. /\ after.hello /\ after.status = next.status /\ after.position = next.position
      /\ after.speed = next.speed
  BY <1>3 DEF AcceptState, StateOf, Page
<1>6. CASE next.position = current.position
  <2>1. after.columns = columns
    BY <1>1, <1>2, <1>4, <1>6
  <2>2. after \in Page
    BY <1>1, <1>2, <1>3, <2>1 DEF AcceptState, StateOf, Page
  <2>3. Shows(after, next)
    BY <1>5, <1>6, <2>1 DEF Shows
  <2>4. Takes(shown, StateOf(next), after)
    BY <1>1, <1>2, <2>1 DEF Takes, Refuses, Accept, StateOf
  <2>5. QED
    BY <2>2, <2>3, <2>4
<1>7. CASE current.position = Total /\ next.position = 0 /\ next.status = "playing"
  <2>1. after.columns = <<>>
    BY <1>1, <1>2, <1>4, <1>7, SubSeqEmpty
  <2>2. after \in Page
    <3>1. <<>> \in Seq(0 .. Total - 1)
      BY EmptySeq
    <3>2. QED
      BY <1>2, <1>3, <2>1, <3>1 DEF AcceptState, StateOf, Page
  <2>3. Shows(after, next)
    <3>1. [i \in 1 .. 0 |-> i - 1] = <<>>
      OBVIOUS
    <3>2. QED
      BY <1>5, <1>7, <2>1, <3>1 DEF Shows
  <2>4. Takes(shown, StateOf(next), after)
    BY <1>1, <1>5, <1>7, <2>1 DEF Takes, Refuses, Accept, StateOf
  <2>5. QED
    BY <2>2, <2>3, <2>4
<1>8. QED
  BY <1>6, <1>7

\* A reset leaves the page at the beginning, in the state it was in.
LEMMA ResetTaken ==
  ASSUME NEW shown \in Page, NEW current \in Playback, Shows(shown, current)
  PROVE  \E after \in Page : /\ Takes(shown, Reset, after)
                             /\ Shows(after, [current EXCEPT !.position = 0])
<1> DEFINE after == [shown EXCEPT !.columns = <<>>, !.position = 0]
<1>1. <<>> \in Seq(0 .. Total - 1) /\ 0 \in 0 .. Total
  BY EmptySeq, RecordingAssumption
<1>2. after \in Page
  BY <1>1 DEF Page
<1>3. [i \in 1 .. 0 |-> i - 1] = <<>>
  OBVIOUS
<1>4. Shows(after, [current EXCEPT !.position = 0])
  BY <1>3 DEF Shows, Page, Playback
<1>5. Takes(shown, Reset, after)
  BY DEF Takes, Refuses, Accept, AcceptReset, Reset, Shows
<1>6. QED
  BY <1>2, <1>4, <1>5

\* The next column of the playback is the one the page takes.
LEMMA ColumnTakenNext ==
  ASSUME NEW shown \in Page, NEW current \in Playback, Shows(shown, current),
         current.position < Total
  PROVE  \E after \in Page : /\ Takes(shown, ColumnAt(current.position), after)
                             /\ Shows(after, ColumnTakenOnly(current))
<1> DEFINE position == current.position
           columns  == shown.columns
           after    == AcceptColumn(shown, position)
<1>1. /\ columns \in Seq(0 .. Total - 1) /\ Len(columns) = position
      /\ \A i \in 1 .. position : columns[i] = i - 1
  BY ShownColumns DEF Playback
<1>2. position \in 0 .. Total - 1 /\ position + 1 \in 0 .. Total /\ position \in Nat
  BY RecordingAssumption DEF Playback
<1>3. /\ Append(columns, position) \in Seq(0 .. Total - 1)
      /\ Len(Append(columns, position)) = position + 1
      /\ \A i \in 1 .. position : Append(columns, position)[i] = columns[i]
      /\ Append(columns, position)[position + 1] = position
  BY <1>1, <1>2, AppendProperties
<1>4. Append(columns, position) = [i \in 1 .. position + 1 |-> i - 1]
  <2> DEFINE longer == Append(columns, position)
  <2> HIDE DEF longer, columns, position
  <2>1. longer \in [1 .. Len(longer) -> 0 .. Total - 1]
    BY <1>3, LenProperties DEF longer
  <2>2. ASSUME NEW i \in 1 .. position + 1
        PROVE  longer[i] = i - 1
    BY <1>1, <1>2, <1>3 DEF longer
  <2>3. QED
    BY <1>3, <2>1, <2>2 DEF longer
<1>5. after \in Page
  BY <1>2, <1>3 DEF AcceptColumn, Page
<1>6. Shows(after, ColumnTakenOnly(current))
  BY <1>4 DEF AcceptColumn, ColumnTakenOnly, Shows, Page, Playback
<1>7. Takes(shown, ColumnAt(position), after)
  <2>1. after.columns = Append(columns, position)
    BY DEF AcceptColumn, Page
  <2>2. ~(Len(after.columns) < Len(columns))
    BY <1>1, <1>2, <1>3, <2>1
  <2>3. shown.hello
    BY DEF Shows
  <2>4. QED
    BY <1>1, <2>2, <2>3 DEF Takes, Refuses, Accept, ColumnAt
<1>8. QED
  BY <1>5, <1>6, <1>7

\* A new session's first messages make any page show a paused playback.
LEMMA OpeningShows ==
  ASSUME NEW first \in Page
  PROVE  CatchesUp(first, Opening, NewPlayback)
<1> DEFINE greeted == AcceptHello(first)
           told    == AcceptState(greeted, StateOf(NewPlayback))
           states  == [i \in 0 .. 2 |-> IF i = 0 THEN first ELSE IF i = 1 THEN greeted ELSE told]
<1>1. /\ <<>> \in Seq(0 .. Total - 1) /\ 0 \in 0 .. Total /\ 1 \in Speed
      /\ "paused" \in ReplayStatus
  BY EmptySeq, RecordingAssumption, SpeedAssumption DEF ReplayStatus
<1>2. /\ greeted \in Page /\ greeted.hello /\ greeted.columns = <<>>
      /\ greeted.position = 0 /\ greeted.status = "paused"
  BY <1>1 DEF AcceptHello, Page
<1>3. StateOf(NewPlayback) = [type |-> "state", status |-> "paused", position |-> 0, speed |-> 1]
  BY DEF StateOf, NewPlayback
<1>4. /\ told \in Page /\ told.hello /\ told.columns = <<>>
      /\ told.position = 0 /\ told.status = "paused" /\ told.speed = 1
  <2>1. ~(0 < Len(greeted.columns))
    BY <1>2
  <2> HIDE DEF greeted
  <2>2. told = [greeted EXCEPT !.columns = greeted.columns, !.position = 0, !.speed = 1,
                               !.status = "paused"]
    BY <1>2, <1>3, <2>1 DEF AcceptState, Page
  <2> HIDE DEF told
  <2>3. QED
    BY <1>1, <1>2, <2>2 DEF Page
<1>5. Takes(first, Hello, greeted)
  BY DEF Takes, Refuses, Accept, Hello
<1>6. Takes(greeted, StateOf(NewPlayback), told)
  <2>1. ~(Len(told.columns) < Len(greeted.columns))
    BY <1>2, <1>4
  <2> HIDE DEF greeted
  <2>2. QED
    BY <1>3, <2>1 DEF Takes, Refuses, Accept
<1>7. Shows(told, NewPlayback)
  <2>1. [i \in 1 .. 0 |-> i - 1] = <<>>
    OBVIOUS
  <2> HIDE DEF told
  <2>2. QED
    BY <1>4, <2>1 DEF Shows, NewPlayback
<1>8. Len(Opening) = 2 /\ Opening[1] = Hello /\ Opening[2] = StateOf(NewPlayback)
  BY DEF Opening
<1> HIDE DEF greeted, told
<1>9. /\ states \in [0 .. Len(Opening) -> Page] /\ states[0] = first /\ states[1] = greeted
      /\ states[2] = told
  BY <1>2, <1>4, <1>8
<1>10. ASSUME NEW i \in 1 .. Len(Opening)
       PROVE  Takes(states[i - 1], Opening[i], states[i])
  <2>1. i = 1 \/ i = 2
    BY <1>8
  <2>2. 1 - 1 = 0 /\ 2 - 1 = 1
    OBVIOUS
  <2> HIDE DEF states
  <2>3. CASE i = 1
    BY <1>5, <1>8, <1>9, <2>2, <2>3, Zenon
  <2>4. CASE i = 2
    BY <1>6, <1>8, <1>9, <2>2, <2>4, Zenon
  <2>5. QED
    BY <2>1, <2>3, <2>4
<1>11. Shows(states[Len(Opening)], NewPlayback)
  BY <1>7, <1>8, <1>9
<1> HIDE DEF states
<1>12. QED
  BY <1>9, <1>10, <1>11, Zenon DEF CatchesUp

------------------------------------------------------------------------------
(***************************************************************************)
(* Steps.                                                                  *)
(***************************************************************************)

\* Two messages, one after the other.
LEMMA OneThenOther ==
  ASSUME NEW one \in PageMessage, NEW other \in PageMessage
  PROVE  /\ <<one, other>> \in Seq(PageMessage)
         /\ <<one>> \o <<other>> = <<one, other>>
<1> DEFINE first  == <<one>>
           second == <<other>>
           both   == <<one, other>>
<1>1. /\ first \in Seq(PageMessage) /\ Len(first) = 1 /\ first[1] = one
      /\ second \in Seq(PageMessage) /\ Len(second) = 1 /\ second[1] = other
      /\ both \in Seq(PageMessage) /\ Len(both) = 2 /\ both[1] = one /\ both[2] = other
  OBVIOUS
<1> HIDE DEF first, second, both
<1>2. /\ first \o second \in Seq(PageMessage) /\ Len(first \o second) = 2
      /\ (first \o second)[1] = one /\ (first \o second)[2] = other
  <2>1. /\ first \o second \in Seq(PageMessage)
        /\ Len(first \o second) = Len(first) + Len(second)
        /\ \A i \in 1 .. Len(first) + Len(second) :
             (first \o second)[i] = IF i <= Len(first) THEN first[i] ELSE second[i - Len(first)]
    BY <1>1, ConcatProperties
  <2>2. QED
    BY <1>1, <2>1
<1>3. \A i \in 1 .. 2 : (first \o second)[i] = both[i]
  BY <1>1, <1>2
<1>4. first \o second = both
  BY <1>1, <1>2, <1>3, SeqEqual
<1>5. QED
  BY <1>1, <1>4 DEF first, second, both

\* Sending two messages is sending them one after the other.
LEMMA SendTwo ==
  ASSUME NEW queue \in Seq(PageMessage), NEW one \in PageMessage, NEW other \in PageMessage
  PROVE  /\ queue \o <<one>> \in Seq(PageMessage)
         /\ queue \o <<one, other>> = (queue \o <<one>>) \o <<other>>
<1>1. <<one>> \in Seq(PageMessage) /\ <<other>> \in Seq(PageMessage)
      /\ <<one>> \o <<other>> = <<one, other>>
  BY OneThenOther
<1>2. queue \o <<one>> \in Seq(PageMessage)
  BY <1>1, ConcatProperties
<1>3. (queue \o <<one>>) \o <<other>> = queue \o (<<one>> \o <<other>>)
  BY <1>1, ConcatAssociative
<1>4. QED
  BY <1>1, <1>2, <1>3

\* A control leaves a playback, complete only at its end, and goes on from where it
\* was unless it rewinds.
LEMMA ApplyControlType ==
  ASSUME NEW current \in Playback, NEW control \in Control,
         current.status = "complete" => current.position = Total
  PROVE  LET next == ApplyControl(current, control)
         IN  /\ next \in Playback
             /\ next.status = "complete" => next.position = Total
             /\ control.action = "restart" => next.position = 0
             /\ control.action # "restart" =>
                  \/ next.position = current.position
                  \/ current.position = Total /\ next.position = 0 /\ next.status = "playing"
<1>1. /\ control.action \in {"play", "pause", "restart", "set_speed"}
      /\ control.action = "set_speed" => control.speed \in Speed
  BY DEF Control
<1>2. /\ 0 \in 0 .. Total /\ "playing" \in ReplayStatus /\ "paused" \in ReplayStatus
  BY RecordingAssumption DEF ReplayStatus
<1>3. CASE control.action = "play"
  <2>1. ApplyControl(current, control) =
          [current EXCEPT !.status = "playing",
                          !.position = IF current.position = Total THEN 0 ELSE current.position]
    BY <1>3 DEF ApplyControl, Playback
  <2>2. QED
    BY <1>2, <1>3, <2>1 DEF Playback
<1>4. CASE control.action = "pause"
  <2>1. ApplyControl(current, control) = [current EXCEPT !.status = "paused"]
    BY <1>4 DEF ApplyControl
  <2>2. QED
    BY <1>2, <1>4, <2>1 DEF Playback
<1>5. CASE control.action = "restart"
  <2>1. ApplyControl(current, control) = [current EXCEPT !.status = "paused", !.position = 0]
    BY <1>5 DEF ApplyControl
  <2>2. QED
    BY <1>2, <1>5, <2>1 DEF Playback
<1>6. CASE control.action = "set_speed"
  <2>1. ApplyControl(current, control) = [current EXCEPT !.speed = control.speed]
    BY <1>6 DEF ApplyControl
  <2>2. QED
    BY <1>1, <1>6, <2>1 DEF Playback
<1>7. QED
  BY <1>1, <1>3, <1>4, <1>5, <1>6

\* What a step of the server keeps true of the playback and what the page will show.
ServerGoesOn ==
  /\ playback' \in Playback /\ (playback'.status = "complete" => playback'.position = Total)
  /\ due' \in BOOLEAN /\ (due' => playback'.status = "playing")
  /\ toPage' \in Seq(PageMessage) /\ Len(toPage') <= Window
  /\ CatchesUp(page, toPage', playback')

\* What is sent fits the window.
LEMMA SendsType ==
  ASSUME TypeOK, NEW messages \in Seq(PageMessage), Sends(messages)
  PROVE  /\ toPage' = toPage \o messages
         /\ toPage' \in Seq(PageMessage) /\ Len(toPage') <= Window
<1>1. toPage \in Seq(PageMessage)
  BY DEF TypeOK
<1>2. toPage' = toPage \o messages /\ Len(toPage) + Len(messages) <= Window
  BY DEF Sends
<1>3. toPage \o messages \in Seq(PageMessage)
      /\ Len(toPage \o messages) = Len(toPage) + Len(messages)
  BY <1>1, ConcatProperties
<1>4. QED
  BY <1>2, <1>3

\* Obeying any control, the server sends what brings the page along.
LEMMA ObeyGoesOn ==
  ASSUME TypeOK, CatchesUp(page, toPage, playback), NEW control \in Control, Obey(control)
  PROVE  ServerGoesOn
<1> DEFINE next == ApplyControl(playback, control)
<1>1. toPage \in Seq(PageMessage) /\ playback \in Playback
      /\ (playback.status = "complete" => playback.position = Total)
  BY DEF TypeOK
<1>2. /\ next \in Playback
      /\ next.status = "complete" => next.position = Total
      /\ control.action = "restart" => next.position = 0
      /\ control.action # "restart" =>
           \/ next.position = playback.position
           \/ playback.position = Total /\ next.position = 0 /\ next.status = "playing"
  BY <1>1, ApplyControlType
<1>3. /\ playback' = next /\ due' = (next.status = "playing")
      /\ Sends((IF control.action = "restart" THEN <<Reset>> ELSE <<>>) \o <<StateOf(next)>>)
  BY DEF Obey
<1> HIDE DEF next
<1>4. StateOf(next) \in PageMessage /\ Reset \in PageMessage
  BY <1>2 DEF PageMessage
<1>5. CASE control.action = "restart"
  <2> DEFINE reset == [playback EXCEPT !.position = 0]
  <2>1. <<Reset>> \o <<StateOf(next)>> = <<Reset, StateOf(next)>>
    BY <1>4, OneThenOther
  <2>2. <<Reset, StateOf(next)>> \in Seq(PageMessage)
    BY <1>4
  <2>3. Sends(<<Reset, StateOf(next)>>)
    BY <1>3, <1>5, <2>1
  <2>4. /\ toPage' = toPage \o <<Reset, StateOf(next)>>
        /\ toPage' \in Seq(PageMessage) /\ Len(toPage') <= Window
    BY <2>2, <2>3, SendsType
  <2>5. reset \in Playback /\ reset.position = 0
    BY <1>1, RecordingAssumption DEF Playback
  <2>6. CatchesUp(page, toPage \o <<Reset>>, reset)
    <3>1. \A shown \in Page : Shows(shown, playback) =>
            \E after \in Page : Takes(shown, Reset, after) /\ Shows(after, reset)
      BY <1>1, ResetTaken
    <3> HIDE DEF reset
    <3>2. QED
      BY <1>1, <1>4, <3>1, SendLast
  <2> HIDE DEF reset
  <2>7. toPage \o <<Reset>> \in Seq(PageMessage)
        /\ toPage' = (toPage \o <<Reset>>) \o <<StateOf(next)>>
    BY <1>1, <1>4, <2>4, SendTwo
  <2>8. \A shown \in Page : Shows(shown, reset) =>
          \E after \in Page : Takes(shown, StateOf(next), after) /\ Shows(after, next)
    BY <1>2, <1>5, <2>5, StateTaken
  <2>9. CatchesUp(page, toPage', next)
    BY <1>4, <2>6, <2>7, <2>8, SendLast
  <2>10. QED
    BY <1>2, <1>3, <2>4, <2>9 DEF ServerGoesOn
<1>6. CASE control.action # "restart"
  <2>1. <<>> \o <<StateOf(next)>> = <<StateOf(next)>>
    OBVIOUS
  <2>2. <<StateOf(next)>> \in Seq(PageMessage)
    BY <1>4
  <2>3. Sends(<<StateOf(next)>>)
    BY <1>3, <1>6, <2>1
  <2>4. /\ toPage' = toPage \o <<StateOf(next)>>
        /\ toPage' \in Seq(PageMessage) /\ Len(toPage') <= Window
    BY <2>2, <2>3, SendsType
  <2>5. \A shown \in Page : Shows(shown, playback) =>
          \E after \in Page : Takes(shown, StateOf(next), after) /\ Shows(after, next)
    BY <1>1, <1>2, <1>6, StateTaken
  <2>6. CatchesUp(page, toPage', next)
    BY <1>1, <1>4, <2>4, <2>5, SendLast
  <2>7. QED
    BY <1>2, <1>3, <2>4, <2>6 DEF ServerGoesOn
<1>7. QED
  BY <1>5, <1>6

\* So does sending a column, the last one with the state that it completes.
LEMMA SendColumnGoesOn ==
  ASSUME TypeOK, CatchesUp(page, toPage, playback), SendColumn
  PROVE  ServerGoesOn
<1> DEFINE position == playback.position
           column   == ColumnAt(position)
           taken    == ColumnTakenOnly(playback)
           next     == ColumnTaken(playback)
<1>1. toPage \in Seq(PageMessage) /\ playback \in Playback
  BY DEF TypeOK
<1>2. playback.status = "playing" /\ position \in 0 .. Total - 1 /\ position + 1 \in 0 .. Total
  BY <1>1, RecordingAssumption DEF SendColumn, HasColumn, Playback
<1>3. /\ taken \in Playback /\ taken.position = position + 1 /\ taken.status = "playing"
      /\ taken.speed = playback.speed
  BY <1>1, <1>2 DEF ColumnTakenOnly, Playback
<1>4. /\ next \in Playback
      /\ next.status = (IF position + 1 = Total THEN "complete" ELSE "playing")
      /\ next.position = position + 1 /\ next.speed = playback.speed
  BY <1>1, <1>2 DEF ColumnTaken, Playback, ReplayStatus
<1>5. /\ playback' = next /\ due' = FALSE
      /\ Sends(<<column>> \o (IF next.status = "complete" THEN <<StateOf(next)>> ELSE <<>>))
  BY DEF SendColumn
<1>6. column \in PageMessage /\ StateOf(next) \in PageMessage
  BY <1>2, <1>4 DEF PageMessage
<1>7. \A shown \in Page : Shows(shown, playback) =>
        \E after \in Page : Takes(shown, column, after) /\ Shows(after, taken)
  BY <1>1, <1>2, RecordingAssumption, ColumnTakenNext
<1> HIDE DEF taken, next, column
<1>8. CatchesUp(page, toPage \o <<column>>, taken)
  BY <1>1, <1>6, <1>7, SendLast
<1>9. next.status = "complete" => next.position = Total
  BY <1>4
<1>10. CASE next.status = "complete"
  <2>1. <<column>> \o <<StateOf(next)>> = <<column, StateOf(next)>>
        /\ <<column, StateOf(next)>> \in Seq(PageMessage)
    BY <1>6, OneThenOther
  <2>2. Sends(<<column, StateOf(next)>>)
    BY <1>5, <1>10, <2>1
  <2>3. /\ toPage' = toPage \o <<column, StateOf(next)>>
        /\ toPage' \in Seq(PageMessage) /\ Len(toPage') <= Window
    BY <2>1, <2>2, SendsType
  <2>4. toPage \o <<column>> \in Seq(PageMessage)
        /\ toPage' = (toPage \o <<column>>) \o <<StateOf(next)>>
    BY <1>1, <1>6, <2>3, SendTwo
  <2>5. \A shown \in Page : Shows(shown, taken) =>
          \E after \in Page : Takes(shown, StateOf(next), after) /\ Shows(after, next)
    BY <1>3, <1>4, StateTaken
  <2>6. CatchesUp(page, toPage', next)
    BY <1>6, <1>8, <2>4, <2>5, SendLast
  <2>7. QED
    BY <1>4, <1>5, <1>9, <2>3, <2>6 DEF ServerGoesOn
<1>11. CASE next.status # "complete"
  <2>1. <<column>> \o <<>> = <<column>> /\ <<column>> \in Seq(PageMessage)
    BY <1>6
  <2>2. Sends(<<column>>)
    BY <1>5, <1>11, <2>1
  <2>3. /\ toPage' = toPage \o <<column>>
        /\ toPage' \in Seq(PageMessage) /\ Len(toPage') <= Window
    BY <2>1, <2>2, SendsType
  <2>4. taken = next
    BY <1>1, <1>2, <1>4, <1>11 DEF taken, next, ColumnTaken, ColumnTakenOnly, Playback
  <2>5. QED
    BY <1>4, <1>5, <1>8, <1>9, <2>3, <2>4 DEF ServerGoesOn
<1>12. QED
  BY <1>10, <1>11

------------------------------------------------------------------------------
(***************************************************************************)
(* The specification.                                                      *)
(***************************************************************************)

\* Of the controls in the socket the server obeys the first and reads some ahead:
\* none is lost or new.
LEMMA ReadControlType ==
  ASSUME TypeOK, ReadControl
  PROVE  /\ \E control \in Control : Obey(control)
         /\ arriving' \in Seq(Control) /\ readAhead' \in Seq(Control)
         /\ Len(arriving') + Len(readAhead') <= MaxControls
<1>1. /\ arriving \in Seq(Control) /\ readAhead \in Seq(Control) /\ arriving # <<>>
      /\ Len(arriving) + Len(readAhead) <= MaxControls
      /\ Len(arriving) \in Nat /\ Len(readAhead) \in Nat /\ MaxControls \in Nat
  BY BoundAssumption, LenProperties DEF TypeOK, ReadControl
<1>2. CASE readAhead # <<>>
  <2>1. Obey(Head(readAhead)) /\ readAhead' = Tail(readAhead) /\ arriving' = arriving
    BY <1>2 DEF ReadControl
  <2>2. /\ Head(readAhead) \in Control /\ Tail(readAhead) \in Seq(Control)
        /\ Len(Tail(readAhead)) = Len(readAhead) - 1
    BY <1>1, <1>2, HeadTailProperties
  <2>3. QED
    BY <1>1, <2>1, <2>2
<1>3. CASE readAhead = <<>>
  <2>1. PICK taken \in 1 .. Len(arriving) :
          /\ Obey(Head(arriving))
          /\ readAhead' = SubSeq(arriving, 2, taken)
          /\ arriving' = SubSeq(arriving, taken + 1, Len(arriving))
    BY <1>3 DEF ReadControl
  <2>2. Head(arriving) \in Control
    BY <1>1, HeadTailProperties
  <2>3. /\ SubSeq(arriving, 2, taken) \in Seq(Control)
        /\ Len(SubSeq(arriving, 2, taken)) = taken - 1
    <3>1. \A i \in 2 .. taken : i \in 1 .. Len(arriving)
      BY <1>1
    <3>2. \A i \in 2 .. taken : arriving[i] \in Control
      BY <1>1, <3>1, ElementOfSeq
    <3>3. QED
      BY <1>1, <3>1, <3>2, SubSeqProperties
  <2>4. /\ SubSeq(arriving, taken + 1, Len(arriving)) \in Seq(Control)
        /\ Len(SubSeq(arriving, taken + 1, Len(arriving))) = Len(arriving) - taken
    <3>1. \A i \in taken + 1 .. Len(arriving) : i \in 1 .. Len(arriving)
      BY <1>1
    <3>2. \A i \in taken + 1 .. Len(arriving) : arriving[i] \in Control
      BY <1>1, <3>1, ElementOfSeq
    <3>3. QED
      BY <1>1, <3>1, <3>2, SubSeqProperties
  <2>5. \E control \in Control : Obey(control)
    BY <2>1, <2>2, Zenon
  <2>6. Len(readAhead) = 0
    BY <1>3
  <2>7. Len(arriving') + Len(readAhead') <= MaxControls
    <3>1. Len(arriving') = Len(arriving) - taken /\ Len(readAhead') = taken - 1
      BY <2>1, <2>3, <2>4, Zenon
    <3> DEFINE m == Len(arriving)
               n == Len(readAhead)
    <3>2. m \in Nat /\ taken \in 1 .. m /\ n = 0 /\ m + n <= MaxControls /\ MaxControls \in Nat
      BY <1>1, <2>6
    <3> HIDE DEF m, n
    <3>3. (m - taken) + (taken - 1) <= MaxControls
      BY <3>2
    <3>4. QED
      BY <3>1, <3>3 DEF m
  <2>8. arriving' \in Seq(Control) /\ readAhead' \in Seq(Control)
    BY <2>1, <2>3, <2>4
  <2>9. QED
    BY <2>5, <2>7, <2>8
<1>4. QED
  BY <1>2, <1>3

\* The invariant holds of a page that never was connected.
LEMMA InitIInv == Init => IInv
<1> SUFFICES ASSUME Init
             PROVE  IInv
  OBVIOUS
<1>1. NewPlayback \in Playback /\ NewPlayback.status = "paused"
  BY RecordingAssumption, SpeedAssumption DEF NewPlayback, Playback, ReplayStatus
<1>2. /\ <<>> \in Seq(Control) /\ <<>> \in Seq(PageMessage) /\ <<>> \in Seq(0 .. Total - 1)
      /\ 0 \in 0 .. Total /\ 1 \in Speed
  BY EmptySeq, RecordingAssumption, SpeedAssumption
<1>3. page \in Page
  BY <1>2 DEF Init, Page
<1>4. Len(arriving) + Len(readAhead) <= MaxControls /\ Len(toPage) <= Window
  BY BoundAssumption DEF Init
<1>5. QED
  BY <1>1, <1>2, <1>3, <1>4 DEF Init, IInv, TypeOK

\* What the page reads is taken, and brings it nearer the playback.
LEMMA DeliverTakes ==
  ASSUME IInv, Deliver
  PROVE  /\ page' \in Page /\ Takes(page, Head(toPage), page')
         /\ toPage' = Tail(toPage)
         /\ UNCHANGED <<stage, playback, due, arriving, readAhead>>
         /\ CatchesUp(page', toPage', playback)
<1>1. toPage \in Seq(PageMessage) /\ toPage # <<>> /\ CatchesUp(page, toPage, playback)
  BY DEF IInv, TypeOK, Deliver
<1>2. PICK after \in Page : /\ Takes(page, Head(toPage), after)
                            /\ CatchesUp(after, Tail(toPage), playback)
  BY <1>1, ReadFirst
<1>3. ~Refuses(page, Head(toPage)) /\ after = Accept(page, Head(toPage))
  BY <1>2 DEF Takes
<1>4. page' = after /\ toPage' = Tail(toPage) /\ UNCHANGED <<stage, playback, due, arriving, readAhead>>
  BY <1>3 DEF Deliver
<1>5. QED
  BY <1>2, <1>4

\* Every step keeps the invariant.
LEMMA NextIInv == IInv /\ [Next]_vars => IInv'
<1> SUFFICES ASSUME IInv, [Next]_vars
             PROVE  IInv'
  OBVIOUS
<1>1. /\ TypeOK /\ stage # "refused"
      /\ IF stage = "open" THEN CatchesUp(page, toPage, playback) ELSE playback = NewPlayback
  BY DEF IInv
<1>2. CASE Connect
  <2>1. /\ stage' = "open" /\ toPage' = Opening
        /\ UNCHANGED <<playback, due, arriving, readAhead, page>>
    BY <1>2 DEF Connect
  <2>2. playback = NewPlayback /\ page \in Page
    BY <1>1, <1>2 DEF Connect, TypeOK
  <2>3. CatchesUp(page, Opening, NewPlayback)
    BY <2>2, OpeningShows
  <2>4. Hello \in PageMessage /\ StateOf(NewPlayback) \in PageMessage
    BY <1>1, <2>2 DEF PageMessage, TypeOK
  <2>5. Opening \in Seq(PageMessage) /\ Len(Opening) = 2
    BY <2>4 DEF Opening
  <2>6. Len(toPage') <= Window
    BY <2>1, <2>5, BoundAssumption
  <2>7. QED
    BY <1>1, <2>1, <2>2, <2>3, <2>5, <2>6 DEF IInv, TypeOK
<1>3. CASE ReadControl
  <2>1. PICK control \in Control : Obey(control)
    BY <1>1, <1>3, ReadControlType
  <2>2. ServerGoesOn
    BY <1>1, <1>3, <2>1, ObeyGoesOn DEF ReadControl
  <2>3. /\ arriving' \in Seq(Control) /\ readAhead' \in Seq(Control)
        /\ Len(arriving') + Len(readAhead') <= MaxControls
    BY <1>1, <1>3, ReadControlType
  <2>4. UNCHANGED <<stage, page>>
    BY <1>3 DEF ReadControl
  <2>5. TypeOK'
    BY <1>1, <2>2, <2>3, <2>4 DEF TypeOK, ServerGoesOn
  <2>6. stage' = "open" /\ CatchesUp(page', toPage', playback')
    BY <1>3, <2>2, <2>4 DEF ReadControl, ServerGoesOn
  <2>7. QED
    BY <2>5, <2>6 DEF IInv
<1>4. CASE SendColumn
  <2>1. ServerGoesOn
    BY <1>1, <1>4, SendColumnGoesOn DEF SendColumn
  <2>2. UNCHANGED <<stage, arriving, readAhead, page>>
    BY <1>4 DEF SendColumn
  <2>3. TypeOK'
    BY <1>1, <2>1, <2>2 DEF TypeOK, ServerGoesOn
  <2>4. stage' = "open" /\ CatchesUp(page', toPage', playback')
    BY <1>4, <2>1, <2>2 DEF SendColumn, ServerGoesOn
  <2>5. QED
    BY <2>3, <2>4 DEF IInv
<1>5. CASE Deliver
  <2>1. /\ page' \in Page /\ toPage' = Tail(toPage)
        /\ UNCHANGED <<stage, playback, due, arriving, readAhead>>
        /\ CatchesUp(page', toPage', playback)
    BY <1>5, DeliverTakes
  <2>2. toPage \in Seq(PageMessage) /\ toPage # <<>> /\ Len(toPage) <= Window
    BY <1>1, <1>5 DEF Deliver, TypeOK
  <2>3. toPage' \in Seq(PageMessage) /\ Len(toPage') <= Window
    BY <2>1, <2>2, HeadTailProperties, LenProperties, BoundAssumption
  <2>4. QED
    BY <1>1, <2>1, <2>3 DEF IInv, TypeOK
<1>6. CASE Disconnect
  <2>1. /\ stage' = "closed" /\ playback' = NewPlayback /\ due' = FALSE
        /\ arriving' = <<>> /\ readAhead' = <<>> /\ toPage' = <<>>
        /\ page' = [page EXCEPT !.status = "disconnected"]
    BY <1>6 DEF Disconnect, Close
  <2>2. page' \in Page
    BY <1>1, <2>1 DEF TypeOK, Page
  <2>3. NewPlayback \in Playback /\ NewPlayback.status = "paused"
    BY RecordingAssumption, SpeedAssumption DEF NewPlayback, Playback, ReplayStatus
  <2>4. <<>> \in Seq(Control) /\ <<>> \in Seq(PageMessage)
    BY EmptySeq
  <2>5. Len(arriving') + Len(readAhead') <= MaxControls /\ Len(toPage') <= Window
    BY <2>1, BoundAssumption
  <2>6. QED
    BY <2>1, <2>2, <2>3, <2>4, <2>5 DEF IInv, TypeOK
<1>7. CASE Click
  <2>1. PICK control \in Offered : arriving' = Append(arriving, control)
    BY <1>7 DEF Click
  <2>2. control \in Control
    BY <2>1 DEF Offered, PlayButton, Control
  <2>3. arriving' \in Seq(Control) /\ Len(arriving') = Len(arriving) + 1
    BY <1>1, <2>1, <2>2, AppendProperties DEF TypeOK
  <2>4. Len(arriving) + Len(readAhead) < MaxControls
        /\ UNCHANGED <<stage, playback, due, readAhead, toPage, page>>
    BY <1>7 DEF Click
  <2>5. Len(arriving') + Len(readAhead') <= MaxControls
    BY <1>1, <2>3, <2>4, LenProperties, BoundAssumption DEF TypeOK
  <2>6. QED
    BY <1>1, <2>3, <2>4, <2>5 DEF IInv, TypeOK
<1>8. CASE UNCHANGED vars
  BY <1>1, <1>8 DEF IInv, TypeOK, vars
<1>9. QED
  BY <1>2, <1>3, <1>4, <1>5, <1>6, <1>7, <1>8 DEF Next

\* The inductive invariant holds throughout.
LEMMA IInvHolds == Spec => []IInv
  BY InitIInv, NextIInv, PTL DEF Spec

\* Type correctness: a complete playback is at its end, a column is due only while
\* the recording plays, and no socket holds more than its bound.
THEOREM TypeCorrect == Spec => []TypeOK
<1>1. IInv => TypeOK
  BY DEF IInv
<1>2. QED
  BY <1>1, IInvHolds, PTL

\* The page never takes the stream for an invalid one: handleColumn never throws.
THEOREM StreamValid == Spec => []StreamIsValid
<1>1. IInv => StreamIsValid
  BY DEF IInv, StreamIsValid
<1>2. QED
  BY <1>1, IInvHolds, PTL

\* A page that has read everything shows what the server has played.
THEOREM PageShowsPlayback == Spec => []PageCatchesUp
<1>1. IInv => PageCatchesUp
  <2> SUFFICES ASSUME IInv, stage = "open", toPage = <<>>
               PROVE  /\ page.columns = [i \in 1 .. playback.position |-> i - 1]
                      /\ <<page.status, page.position, page.speed>> =
                           <<playback.status, playback.position, playback.speed>>
    BY DEF PageCatchesUp
  <2>1. Shows(page, playback)
    BY NothingToRead DEF IInv
  <2>2. QED
    BY <2>1 DEF Shows
<1>2. QED
  BY <1>1, IInvHolds, PTL

\* The chart loses columns to a new session, to a restart or, when the recording is
\* played again, from its end, and to nothing else.
THEOREM OnlyRewinds == Spec => OnlyRewindDropsColumns
<1>1. IInv /\ [Next]_vars =>
        [Len(page'.columns) < Len(page.columns) =>
           \/ Head(toPage) \in {Hello, Reset}
           \/ Len(page.columns) = Total /\ page'.columns = <<>> /\ page'.status = "playing"]_vars
  <2> SUFFICES ASSUME IInv, Next, Len(page'.columns) < Len(page.columns)
               PROVE  \/ Head(toPage) \in {Hello, Reset}
                      \/ /\ Len(page.columns) = Total
                         /\ page'.columns = <<>> /\ page'.status = "playing"
    OBVIOUS
  <2>1. page.columns \in Seq(0 .. Total - 1)
    BY DEF IInv, TypeOK, Page
  <2>2. Len(page.columns) \in Nat
    BY <2>1, LenProperties
  <2>3. page'.columns # page.columns
    BY <2>2
  <2>4. Deliver
    BY <2>3 DEF Next, Connect, ReadControl, SendColumn, Disconnect, Click, Close, IInv, TypeOK, Page
  <2>5. Takes(page, Head(toPage), page')
    BY <2>4, DeliverTakes
  <2>6. QED
    BY <2>5 DEF Takes
<1>2. QED
  BY <1>1, IInvHolds, PTL DEF Spec, OnlyRewindDropsColumns
==============================================================================
