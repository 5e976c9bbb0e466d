----------------------------- MODULE CaptureReplay ---------------------------
(***************************************************************************)
(* The command-line replay of a recorded Coinbase connection               *)
(* (src/replay.cpp): a loop over the lines of a capture that has a         *)
(* tracker, a reconstructor and a history of its own, as the live engine   *)
(* has, and treats them much alike.  A replay is any record with these     *)
(* three.  It sees a gap on every channel, and it never reconnects: only a *)
(* snapshot in the capture ends one.                                       *)
(*                                                                         *)
(* A line that does not parse, or that is about another product than the   *)
(* first book, is an exception before anything is changed: to what follows *)
(* it, it was not in the capture.                                          *)
(***************************************************************************)
EXTENDS LiveHeatmapEngine

\* A mutant: a gap is acted on with book lines only, as the live engine does.
AfterCheckOfBooks(replay, line, gap) ==
  [replay EXCEPT !.last          = Observe(@, line.sequence),
                 !.reconstructor = IF gap /\ line.book # NotOurs THEN MarkDesynchronized(@)
                                                                 ELSE @,
                 !.history       = IF gap /\ line.book # NotOurs THEN MarkDiscontinuity(@)
                                                                 ELSE @]

\* The replay after the sequence check of a line of any channel.
AfterCheck(replay, line, gap) ==
  [replay EXCEPT !.last          = Observe(@, line.sequence),
                 !.reconstructor = IF gap THEN MarkDesynchronized(@) ELSE @,
                 !.history       = IF gap THEN MarkDiscontinuity(@) ELSE @]

\* One turn of the loop.  A snapshot behind a gap restarts the tracker.  When
\* sample throws, the line counts as malformed, but what was rebuilt stays.
ReplayLine(replay, line) ==
  LET verdict == Verdict(replay.last, line.sequence)
      gap     == verdict = "Gap"
      checked == AfterCheck(replay, line, gap)
      applies == Applies(checked.reconstructor, line.book, verdict)
      rebuilt == [checked EXCEPT
                    !.reconstructor = Process(@, line.book, verdict),
                    !.last = IF gap /\ applies THEN line.sequence ELSE @]
  IN  IF line.book = NotOurs THEN checked
      ELSE IF ~applies \/ TooEarly(rebuilt.history, line.time) THEN rebuilt
      ELSE [rebuilt EXCEPT !.history = Sample(@, line.time, rebuilt.reconstructor.book)]
==============================================================================
