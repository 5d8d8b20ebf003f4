----------------------------- MODULE ModelStream -----------------------------
(***************************************************************************)
(* One streamed call of a model, with its limits: of the whole, of the     *)
(* time to the first output and of the silence between outputs             *)
(* (llm/model_timeout.go).  The timer's callback runs on a goroutine of    *)
(* its own, so it may begin just before a fragment moves the deadline; the *)
(* reader of the answer may be far behind the network.                     *)
(***************************************************************************)
EXTENDS Naturals, Sequences

CONSTANTS Total, First, Silence,   \* limits of a call
          MaxChunks, MaxNow     \* bounds: fragments of an answer; the time, long enough for every deadline

ASSUME StreamLimits == {Total, First, Silence, MaxNow} \subseteq Nat \ {0} /\ MaxNow > Silence

VARIABLES now,
          watch,     \* streamWatch: deadline, the armed timer, its callbacks that wait for the lock, ...
          context,   \* the call's context: open, or why it ended
          upstream,  \* the response: connecting, open, over (read to its end), failed, closed
          pipe,      \* fragments that were parsed and not yet read
          chunks,    \* how many fragments came
          outcome,   \* what the reader got at the end
          last       \* ghost: when output last came

streamVars == <<now, watch, context, upstream, pipe, chunks, outcome, last>>

None == 0

\* newStreamWatch
StreamInit ==
    /\ now = 1
    /\ watch = [deadline |-> 1 + First, timer |-> 1 + First, callbacks |-> 0, started |-> FALSE, finished |-> FALSE, cause |-> "none"]
    /\ context = "open" /\ upstream = "connecting" /\ pipe = <<>> /\ chunks = 0
    /\ outcome = "open" /\ last = None

-----------------------------------------------------------------------------
(* streamWatch                                                             *)

\* finish: the cause is what had ended the context until now; it ends now in any case.
Finished == IF watch.finished THEN watch
            ELSE [watch EXCEPT !.finished = TRUE, !.timer = None, !.cause = IF context = "open" THEN "none" ELSE context]
Ended(why) == IF context = "open" THEN why ELSE context
Finish == watch' = Finished /\ context' = Ended("closed")

\* Mutant: the reader sees how the connection ended, not what cut the call.
Result_AsRead(end) == end

\* result: the end as the reader sees it.
Result(end) == IF Finished.cause # "none" THEN Finished.cause ELSE end

Tick == now < MaxNow /\ now' = now + 1 /\ UNCHANGED <<watch, context, upstream, pipe, chunks, outcome, last>>

TimerFires ==
    /\ watch.timer # None /\ watch.timer <= now
    /\ watch' = [watch EXCEPT !.timer = None, !.callbacks = @ + 1]
    /\ UNCHANGED <<now, context, upstream, pipe, chunks, outcome, last>>

\* Mutant: a callback cuts the call without comparing the deadline again.
Expire_Blindly ==
    /\ watch.callbacks > 0
    /\ watch' = [watch EXCEPT !.callbacks = @ - 1] /\ context' = IF watch.finished THEN context ELSE Ended("silent")
    /\ UNCHANGED <<now, upstream, pipe, chunks, outcome, last>>

\* expire: a deadline that has moved arms the timer again.
Expire ==
    /\ watch.callbacks > 0
    /\ LET left == [watch EXCEPT !.callbacks = @ - 1]
       IN  IF watch.finished THEN watch' = left /\ UNCHANGED context
           ELSE IF watch.deadline > now THEN watch' = [left EXCEPT !.timer = watch.deadline] /\ UNCHANGED context
           ELSE watch' = left /\ context' = Ended("silent")
    /\ UNCHANGED <<now, upstream, pipe, chunks, outcome, last>>

\* The limit of the whole call, or the caller, ends the context.
EndContext(why) ==
    /\ context = "open" /\ (why = "total" => now > Total)
    /\ context' = why
    /\ UNCHANGED <<now, watch, upstream, pipe, chunks, outcome, last>>

\* context.AfterFunc
ContextEnded ==
    /\ context # "open" /\ ~watch.finished
    /\ Finish
    /\ UNCHANGED <<now, upstream, pipe, chunks, outcome, last>>

\* Mutant: the first output stops the timer for good.
Activity_Stops(output) ==
    watch' = IF output /\ ~watch.finished /\ context = "open"
             THEN [watch EXCEPT !.started = TRUE, !.deadline = now + Silence, !.timer = None] ELSE watch

\* activity: output moves the deadline, unless the call is over.
Activity(output) ==
    watch' = IF output /\ ~watch.finished /\ context = "open"
             THEN [watch EXCEPT !.started = TRUE, !.deadline = now + Silence, !.timer = now + Silence] ELSE watch

-----------------------------------------------------------------------------
(* The response, parsed apart from its reader.                             *)

\* RoundTrip: headers, or an error, which is the call's.
Connects ==
    /\ upstream = "connecting" /\ context = "open" /\ upstream' = "open"
    /\ UNCHANGED <<now, watch, context, pipe, chunks, outcome, last>>
Refused ==
    /\ upstream = "connecting" /\ upstream' = "closed"
    /\ Finish /\ outcome' = Result("network")
    /\ UNCHANGED <<now, pipe, chunks, last>>

\* A fragment with output or without (a role, usage); some are parsed from what arrived before the context ended.
Chunk(output) ==
    /\ upstream = "open" /\ chunks < MaxChunks /\ now + Silence <= MaxNow
    /\ Activity(output)
    /\ pipe' = Append(pipe, IF output THEN "output" ELSE "empty") /\ chunks' = chunks + 1
    /\ last' = IF output THEN now ELSE last
    /\ UNCHANGED <<now, context, upstream, outcome>>

ReadToEnd ==
    /\ upstream = "open"
    /\ upstream' = "over" /\ pipe' = Append(pipe, "eof")
    /\ UNCHANGED <<now, watch, context, chunks, outcome, last>>

\* The connection breaks, which an ended context makes it do.
ReadFails ==
    /\ upstream = "open"
    /\ upstream' = "failed" /\ pipe' = Append(pipe, "network")
    /\ UNCHANGED <<now, watch, context, chunks, outcome, last>>

\* Mutant: closing the response does not end the watch.
BodyCloses_KeepsWatching ==
    /\ upstream \in {"over", "failed"} /\ upstream' = "closed"
    /\ UNCHANGED <<now, watch, context, pipe, chunks, outcome, last>>

\* watchedModelBody.Close
BodyCloses ==
    /\ upstream \in {"over", "failed"} /\ upstream' = "closed"
    /\ Finish
    /\ UNCHANGED <<now, pipe, chunks, outcome, last>>

\* The reader takes a fragment, or the end through result.
Read ==
    /\ pipe # <<>> /\ outcome = "open" /\ pipe' = Tail(pipe)
    /\ IF Head(pipe) \in {"output", "empty"} THEN UNCHANGED <<watch, context, outcome>>
       ELSE Finish /\ outcome' = Result(Head(pipe))
    /\ UNCHANGED <<now, upstream, chunks, last>>

StreamNext ==
    \/ Tick \/ TimerFires \/ Expire \/ ContextEnded
    \/ \E why \in {"total", "user"} : EndContext(why)
    \/ Connects \/ Refused \/ ReadToEnd \/ ReadFails \/ BodyCloses \/ Read
    \/ \E output \in BOOLEAN : Chunk(output)

\* Time goes on, started goroutines run, a read on an ended context fails and the reader reads.  Nothing is assumed of
\* the model's service.
StreamSpec ==
    /\ StreamInit /\ [][StreamNext]_streamVars
    /\ WF_streamVars(Tick) /\ WF_streamVars(TimerFires) /\ WF_streamVars(Expire) /\ WF_streamVars(Read)
    /\ WF_streamVars(context # "open" /\ (ReadFails \/ Refused)) /\ WF_streamVars(BodyCloses)

-----------------------------------------------------------------------------
StreamTypeOK ==
    /\ context \in {"open", "silent", "total", "user", "closed"} /\ upstream \in {"connecting", "open", "over", "failed", "closed"}
    /\ outcome \in {"open", "eof", "network", "silent", "total", "user", "closed"}
    /\ watch.callbacks \in Nat /\ Len(pipe) <= MaxChunks + 1

\* A call is cut for silence only when its limit went by since the last output, or since the start, although callbacks of
\* earlier deadlines still run.  (streamWatch.expire, activity)
CutOnlyInSilence == context = "open" /\ context' = "silent" => now >= IF last = None THEN 1 + First ELSE last + Silence

\* However late it is read: an answer that ended, and whose response was closed while the call was alive, is complete
\* for its reader, and one that the watch, the caller or the network cut never is.  (finish, result, watchedModelBody)
CompleteIsComplete ==
    /\ outcome = "eof" => upstream \in {"over", "closed"} /\ watch.cause = "none"
    /\ outcome # "open" /\ upstream = "closed" /\ watch.cause = "none" => outcome \in {"eof", "network"}

\* What the reader will find at the end is settled when the response is closed: no limit that runs out while it is still
\* reading takes a complete answer away.  (watchedModelBody, result)
LateReaderKeepsAnswer == upstream = "closed" => Result("eof")' = Result("eof")

\* A silent service does not hold its reader: every call ends.  (newStreamWatch)
EveryCallEnds == <>(outcome # "open")

=============================================================================
