---------------------------- MODULE ChangesFeed ----------------------------
(***************************************************************************)
(* The continuous feed behind the window: the consumer that reads rows     *)
(* (changes-consumer.ts), the engine's handling of a broken stream and the *)
(* retries of reconnection-manager.ts.  Rows of chunk documents only move  *)
(* currentSeq on to the next note's row and have no token here; a row cut  *)
(* in the middle of its line is not received.                              *)
(***************************************************************************)
EXTENDS WindowReplay

VARIABLES
  stream,      \* the consumer: "off", "connecting" or "reading"
  retry,       \* whether a retry timer runs
  attempt,     \* attempts counted since the last success: the delay doubles with each
  settling,    \* whether start() has reported an error and has yet to resolve
  ended,       \* whether the server has ended the stream without an error
  stopping     \* isShuttingDown

streamVars == <<stream, retry, attempt, settling, ended, stopping>>
feedVars == <<replayVars, streamVars>>

\* A process that has just gone live.
Fresh(s, r, a, w, e, x) ==
  s = "connecting" /\ r = FALSE /\ a = 0 /\ w = FALSE /\ e = FALSE /\ x = FALSE

FeedInit == ReplayInit /\ Fresh(stream, retry, attempt, settling, ended, stopping)

Connected ==
  /\ stream = "connecting" /\ stream' = "reading"
  /\ UNCHANGED <<replayVars, retry, attempt, settling, ended, stopping>>

\* consumeStream hands a row to onRemoteChange.
RowArrives(s) == stream = "reading" /\ ~stopping /\ TrackSequence(s) /\ UNCHANGED streamVars

\* During stop() the position moves on and the row is not tracked any more.
RowIsDropped(s) ==
  /\ stream = "reading" /\ stopping
  /\ s > currentSeq /\ \A t \in Tokens : t > currentSeq => s <= t
  /\ currentSeq' = s
  /\ UNCHANGED <<sequenceQueue, checkpoint, verified, streamVars>>

\* Mutant: a stream that could not be opened is not retried.
StreamBreaksWhileReading ==
  /\ stream # "off" /\ stream' = "off"
  /\ IF stopping \/ stream = "connecting" THEN UNCHANGED <<retry, attempt>>
                                          ELSE retry' = TRUE /\ attempt' = attempt + 1
  /\ settling' = TRUE
  /\ UNCHANGED <<replayVars, ended, stopping>>

\* The request fails, is answered with an error or the stream breaks: start()
\* reports it by callback, and the callback schedules a retry.
StreamBreaks ==
  /\ stream # "off" /\ stream' = "off"
  /\ IF stopping THEN UNCHANGED <<retry, attempt>>
                 ELSE retry' = TRUE /\ attempt' = attempt + 1
  /\ settling' = TRUE
  /\ UNCHANGED <<replayVars, ended, stopping>>

\* start() resolves after a failure too, and the engine takes that for success.
StartResolves ==
  /\ settling /\ settling' = FALSE /\ attempt' = 0
  /\ UNCHANGED <<replayVars, stream, retry, ended, stopping>>

\* The server ends the stream: nobody is told, and nobody starts it again.
StreamEnds ==
  /\ stream = "reading" /\ stream' = "off" /\ ended' = TRUE /\ attempt' = 0
  /\ UNCHANGED <<replayVars, retry, settling, stopping>>

\* The timer fires and the stream is started from currentSeq.
RetryFires ==
  /\ retry /\ ~settling /\ retry' = FALSE
  /\ stream' = IF stopping \/ stream # "off" THEN stream ELSE "connecting"
  /\ UNCHANGED <<replayVars, attempt, settling, ended, stopping>>

BeginStop ==
  /\ ~stopping /\ stopping' = TRUE /\ retry' = FALSE
  /\ UNCHANGED <<replayVars, stream, attempt, settling, ended>>

CloseStream ==
  /\ stopping /\ stream # "off" /\ stream' = "off" /\ settling' = TRUE
  /\ UNCHANGED <<replayVars, retry, attempt, ended, stopping>>

Report(s) == (MarkCompleted(s) \/ MarkFailed(s)) /\ UNCHANGED streamVars
Save == Commit /\ UNCHANGED streamVars
NewProcess == Restart /\ Fresh(stream', retry', attempt', settling', ended', stopping')

FeedNext ==
  \/ Connected
  \/ \E s \in Tokens : RowArrives(s)
  \/ \E s \in Tokens : RowIsDropped(s)
  \/ StreamBreaks
  \/ StartResolves
  \/ StreamEnds
  \/ RetryFires
  \/ BeginStop
  \/ CloseStream
  \/ \E s \in Tokens : Report(s)
  \/ Save
  \/ NewProcess

FeedSpec == FeedInit /\ [][FeedNext]_feedVars

-----------------------------------------------------------------------------

\* Its stream is open or being opened or a retry is due, unless the server has
\* ended the stream.
StreamIsKept == stream # "off" \/ retry \/ ended
\* The consumer stands at or above the row, and has passed nothing that is
\* neither verified nor tracked.
NothingPassedBy ==
  /\ checkpoint <= currentSeq
  /\ \A s \in Tokens : s <= currentSeq => s \in verified \union TokensOf(sequenceQueue)

\* However often the stream breaks and at whatever row, a daemon that is not
\* stopping goes on reading, and its next request leaves nothing out
\* (continuous-engine.ts onRemoteError, changes-consumer.ts currentSeq against
\* the window of checkpoint-window.ts).
FeedIsKept == ~stopping => StreamIsKept /\ NothingPassedBy
=============================================================================
