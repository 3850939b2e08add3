------------------------------- MODULE JobView -------------------------------
(* The upload page of the viewer (viewer/src/routes/upload/+page.svelte and    *)
(* its stores) beside the jobs of the corpora it shows. The page follows the   *)
(* selected corpus's latest job over one event stream, which the server feeds  *)
(* by polling the queue (api/routes/processing.py), and controls the jobs it   *)
(* submitted with tokens it keeps in memory. Answers and events arrive late,   *)
(* out of order or never; other clients submit jobs too. One kind of job: the  *)
(* stores of the other (discovery) are the same code.                          *)
EXTENDS Naturals, Sequences, SequencesExt

CONSTANTS
    ViewCorpora,
    NoFeed, NoCallOut,      \* no event stream, no request on its way
    MaxJobs,                \* bound on the jobs of all corpora together
    MaxStage,               \* bound on the progress reports of a job
    MaxLosses               \* bound on the lost connections

VARIABLES
    corpusJobs,     \* corpus -> its jobs, the latest last: status, stage, cancel requested
    page,           \* what the page shows: corpus, status, pause, stage, log, cancel requested
    controlTokens,  \* corpus -> the job whose token the page keeps, 0 for none
    feed,           \* the page's event stream and the generator behind it
    dialogCall,     \* the modal dialog's request
    cancelCall,     \* the cancel button's request
    losses          \* connections and answers lost so far

viewVars == <<corpusJobs, page, controlTokens, feed, dialogCall, cancelCall, losses>>
requests == <<dialogCall, cancelCall>>

Finished == {"completed", "failed", "cancelled"}        \* isFinished
Paused == {"needs_credentials", "budget_exhausted"}     \* pauseReasonOf
StreamEnd == Finished \cup Paused                       \* STREAM_END_STATUSES

MapJobStatus(status) ==
    CASE status = "completed" -> "complete"
      [] status = "cancelled" -> "cancelled"
      [] status \in Paused -> "paused"
      [] status \in {"pending", "processing"} -> "processing"
      [] OTHER -> "error"

LatestOf(c) == Len(corpusJobs[c])
LatestJob(c) == corpusJobs[c][LatestOf(c)]
ActiveJob(c) == LatestOf(c) > 0 /\ LatestJob(c).status \notin Finished
MayStart(c) ==
    ~ActiveJob(c) /\ FoldFunction(LAMBDA js, n : n + Len(js), 0, corpusJobs) < MaxJobs

-----------------------------------------------------------------------------
(* The jobs, as the API reports them                                           *)

NewJob == [status |-> "pending", stage |-> 0, cancel |-> FALSE]
SetLatest(c, job) == corpusJobs' = [corpusJobs EXCEPT ![c][LatestOf(c)] = job]

ViewWork(c) ==
    /\ ActiveJob(c)
    /\ LET job == LatestJob(c)
       IN  \/ job.status = "pending" /\ SetLatest(c, [job EXCEPT !.status = "processing"])
           \/ job.status = "pending" /\ SetLatest(c, [job EXCEPT !.status = "needs_credentials"])
           \/ /\ job.status = "processing" /\ ~job.cancel /\ job.stage < MaxStage
              /\ SetLatest(c, [job EXCEPT !.stage = @ + 1])
           \/ /\ job.status = "processing"
              /\ \E status \in StreamEnd :
                    /\ (status = "cancelled") = job.cancel
                    /\ SetLatest(c, [job EXCEPT !.status = status])
    /\ UNCHANGED <<page, controlTokens, feed, requests, losses>>

\* Another client submits a job.
SubmitElsewhere(c) ==
    /\ MayStart(c)
    /\ corpusJobs' = [corpusJobs EXCEPT ![c] = Append(@, NewJob)]
    /\ UNCHANGED <<page, controlTokens, feed, requests, losses>>

-----------------------------------------------------------------------------
(* event_generator and the EventSource                                         *)

Feed(c) == [corpus |-> c, connected |-> TRUE, ended |-> FALSE, status |-> "none", stage |-> 0,
            count |-> 0, polled |-> 0, wire |-> <<>>]

StatusEvent(job) == [event |-> "status", stage |-> job.stage]
ActivityEvents(c, job, count) ==
    [n \in 1 .. job.stage - count |-> [event |-> "activity", entry |-> <<c, LatestOf(c), count + n>>]]
CompleteEvent(job) == [event |-> "complete", status |-> job.status]

JobStatus == {"pending", "processing"} \cup StreamEnd
EventOf(c) ==
    [event : {"status"}, stage : Nat]
        \cup [event : {"activity"}, entry : {c} \X Nat \X Nat]
        \cup [event : {"complete"}, status : StreamEnd]
Stream == [corpus : ViewCorpora, connected : BOOLEAN, ended : BOOLEAN,
           status : JobStatus \cup {"none"}, stage : Nat, count : Nat, polled : Nat,
           wire : Seq(UNION {EventOf(c) : c \in ViewCorpora})]

ASSUME FeedAssumption == NoFeed \notin Stream

(* fault: only a finished job ends the stream. *)
PollToTheEnd ==
    /\ feed # NoFeed /\ feed.connected /\ ~feed.ended /\ feed.wire = <<>>
    /\ LET c == feed.corpus
           job == LatestJob(c)
           changed == job.status # feed.status
       IN  feed' = [feed EXCEPT
                !.status = job.status,
                !.stage = IF changed THEN job.stage ELSE @,
                !.count = IF job.stage > @ THEN job.stage ELSE @,
                !.polled = job.stage,
                !.ended = job.status \in Finished,
                !.wire = (IF changed THEN <<StatusEvent(job)>> ELSE <<>>)
                         \o ActivityEvents(c, job, feed.count)
                         \o (IF job.status \in Finished THEN <<CompleteEvent(job)>> ELSE <<>>)]
    /\ UNCHANGED <<corpusJobs, page, controlTokens, requests, losses>>

\* One poll of the latest job: every event it gives is on the wire before the next poll.
Poll ==
    /\ feed # NoFeed /\ feed.connected /\ ~feed.ended /\ feed.wire = <<>>
    /\ LET c == feed.corpus
           job == LatestJob(c)
           changed == job.status # feed.status
           ends == job.status \in StreamEnd
       IN  feed' = [feed EXCEPT
                !.status = job.status,
                !.stage = IF changed THEN job.stage ELSE @,
                !.count = IF job.stage > @ THEN job.stage ELSE @,
                !.polled = job.stage,
                !.ended = ends,
                !.wire = (IF changed THEN <<StatusEvent(job)>> ELSE <<>>)
                         \o ActivityEvents(c, job, feed.count)
                         \o (IF ends THEN <<CompleteEvent(job)>> ELSE <<>>)]
    /\ UNCHANGED <<corpusJobs, page, controlTokens, requests, losses>>

Deliver ==
    /\ feed # NoFeed /\ feed.wire # <<>>
    /\ LET e == Head(feed.wire)
       IN  \/ /\ e.event = "status"
              /\ page' = [page EXCEPT !.stage = e.stage]
              /\ feed' = [feed EXCEPT !.wire = Tail(@)]
              /\ UNCHANGED controlTokens
           \/ /\ e.event = "activity"
              /\ page' = [page EXCEPT !.log = Append(@, e.entry)]
              /\ feed' = [feed EXCEPT !.wire = Tail(@)]
              /\ UNCHANGED controlTokens
           \/ /\ e.event = "complete"
              /\ page' = [page EXCEPT !.status = MapJobStatus(e.status),
                                      !.pause = IF e.status \in Paused THEN e.status ELSE "none"]
              /\ controlTokens' = [controlTokens EXCEPT ![feed.corpus] =
                                      IF e.status \in Paused THEN @ ELSE 0]
              /\ feed' = NoFeed
    /\ UNCHANGED <<corpusJobs, requests, losses>>

LoseConnection ==
    /\ feed # NoFeed /\ feed.connected /\ losses < MaxLosses
    /\ losses' = losses + 1
    /\ feed' = [feed EXCEPT !.connected = FALSE, !.wire = <<>>]
    /\ UNCHANGED <<corpusJobs, page, controlTokens, requests>>

\* The browser opens the stream again and gets a generator that starts over.
Reconnect ==
    /\ feed # NoFeed /\ ~feed.connected
    /\ feed' = Feed(feed.corpus)
    /\ UNCHANGED <<corpusJobs, page, controlTokens, requests, losses>>

-----------------------------------------------------------------------------
(* The page                                                                    *)

ShownAs(c, status, cancel) ==
    [corpus |-> c, status |-> status, pause |-> "none", stage |-> 0, log |-> <<>>,
     cancel |-> cancel]

(* fault: the stream of the corpus that was shown stays open. *)
SelectWithoutReset(c) ==
    /\ dialogCall = NoCallOut /\ c # page.corpus
    /\ page' = ShownAs(c, "idle", page.cancel)
    /\ UNCHANGED <<corpusJobs, controlTokens, feed, requests, losses>>

\* The modal dialog covers the sidebar; a cancel request does not.
SelectCorpus(c) ==
    /\ dialogCall = NoCallOut /\ c # page.corpus
    /\ page' = ShownAs(c, "idle", page.cancel)
    /\ feed' = NoFeed
    /\ UNCHANGED <<corpusJobs, controlTokens, requests, losses>>

Call(kind, c) == [kind |-> kind, corpus |-> c, token |-> controlTokens[c], pc |-> "sent"]
Error(call) == [kind |-> call.kind, corpus |-> call.corpus, pc |-> "answered", ok |-> FALSE]
Ok(call, status, job) ==
    [kind |-> call.kind, corpus |-> call.corpus, pc |-> "answered", ok |-> TRUE,
     status |-> status, job |-> job]

SendSubmit ==
    /\ dialogCall = NoCallOut
    /\ page.status \in {"idle", "error", "cancelled"}
    /\ dialogCall' = Call("submit", page.corpus)
    /\ UNCHANGED <<corpusJobs, page, controlTokens, feed, cancelCall, losses>>

\* continuePaused, while no cancel request makes the panel busy.
SendContinue ==
    /\ dialogCall = NoCallOut /\ cancelCall = NoCallOut
    /\ page.status = "paused" /\ controlTokens[page.corpus] # 0
    /\ dialogCall' = Call(IF page.pause = "budget_exhausted" THEN "resume" ELSE "resupply",
                          page.corpus)
    /\ UNCHANGED <<corpusJobs, page, controlTokens, feed, cancelCall, losses>>

SendCancel ==
    /\ dialogCall = NoCallOut /\ cancelCall = NoCallOut
    /\ page.status = "paused" \/ (page.status = "processing" /\ ~page.cancel)
    /\ controlTokens[page.corpus] # 0
    /\ cancelCall' = Call("cancel", page.corpus)
    /\ UNCHANGED <<corpusJobs, page, controlTokens, feed, dialogCall, losses>>

\* start_processing: a forced submission is refused while a job uses the corpus.
ServeSubmit ==
    /\ dialogCall # NoCallOut /\ dialogCall.kind = "submit" /\ dialogCall.pc = "sent"
    /\ LET c == dialogCall.corpus
       IN  \/ /\ ActiveJob(c)
              /\ dialogCall' = Error(dialogCall)
              /\ UNCHANGED corpusJobs
           \/ /\ MayStart(c)
              /\ corpusJobs' = [corpusJobs EXCEPT ![c] = Append(@, NewJob)]
              /\ dialogCall' = Ok(dialogCall, "pending", LatestOf(c) + 1)
    /\ UNCHANGED <<page, controlTokens, feed, cancelCall, losses>>

\* resupply_latest and resume_latest: the token must be the latest job's.
ServeContinue ==
    /\ dialogCall # NoCallOut /\ dialogCall.kind # "submit" /\ dialogCall.pc = "sent"
    /\ LET c == dialogCall.corpus
           job == LatestJob(c)
           waiting == IF dialogCall.kind = "resume" THEN "budget_exhausted" ELSE "needs_credentials"
       IN  IF dialogCall.token # LatestOf(c) \/ job.status # waiting
           THEN dialogCall' = Error(dialogCall) /\ UNCHANGED corpusJobs
           ELSE \E status \in {"pending"} \cup
                        (IF dialogCall.kind = "resume" THEN {"needs_credentials"} ELSE {}) :
                   /\ SetLatest(c, [job EXCEPT !.status = status])
                   /\ dialogCall' = Ok(dialogCall, status, LatestOf(c))
    /\ UNCHANGED <<page, controlTokens, feed, cancelCall, losses>>

\* cancel_latest: now if the job waits, else at its next stage boundary.
ServeCancel ==
    /\ cancelCall # NoCallOut /\ cancelCall.pc = "sent"
    /\ LET c == cancelCall.corpus
           job == LatestJob(c)
           after == CASE job.status \in Finished -> job
                      [] job.status = "processing" -> [job EXCEPT !.cancel = TRUE]
                      [] OTHER -> [job EXCEPT !.status = "cancelled", !.cancel = TRUE]
       IN  IF cancelCall.token # LatestOf(c)
           THEN cancelCall' = Error(cancelCall) /\ UNCHANGED corpusJobs
           ELSE /\ SetLatest(c, after)
                /\ cancelCall' = Ok(cancelCall, after.status, LatestOf(c))
    /\ UNCHANGED <<page, controlTokens, feed, dialogCall, losses>>

\* A request or its answer is lost: the page is told that the server was not reached.
LoseAnswer ==
    /\ losses < MaxLosses
    /\ losses' = losses + 1
    /\ \/ dialogCall # NoCallOut /\ dialogCall' = Error(dialogCall) /\ UNCHANGED cancelCall
       \/ cancelCall # NoCallOut /\ cancelCall' = Error(cancelCall) /\ UNCHANGED dialogCall
    /\ UNCHANGED <<corpusJobs, page, controlTokens, feed>>

\* runDialog after its await: the answer's token, and a stream of the corpus it was sent for.
FinishDialog ==
    /\ dialogCall # NoCallOut /\ dialogCall.pc = "answered"
    /\ dialogCall' = NoCallOut
    /\ IF ~dialogCall.ok THEN UNCHANGED <<page, controlTokens, feed>>
       ELSE LET c == dialogCall.corpus
                submitted == dialogCall.kind = "submit"
            IN  /\ controlTokens' = IF submitted THEN [controlTokens EXCEPT ![c] = dialogCall.job]
                                    ELSE controlTokens
                /\ page' = ShownAs(page.corpus, "processing", IF submitted THEN FALSE ELSE page.cancel)
                /\ feed' = Feed(c)
    /\ UNCHANGED <<corpusJobs, cancelCall, losses>>

\* handleCancel after its await, whatever the page shows by then.
FinishCancel ==
    /\ cancelCall # NoCallOut /\ cancelCall.pc = "answered"
    /\ cancelCall' = NoCallOut
    /\ IF ~cancelCall.ok THEN UNCHANGED <<page, controlTokens, feed>>
       ELSE IF cancelCall.status \in Finished
       THEN /\ controlTokens' = [controlTokens EXCEPT ![cancelCall.corpus] = 0]
            /\ feed' = NoFeed
            /\ page' = [page EXCEPT !.pause = "none", !.status = MapJobStatus(cancelCall.status)]
       ELSE page' = [page EXCEPT !.cancel = TRUE] /\ UNCHANGED <<controlTokens, feed>>
    /\ UNCHANGED <<corpusJobs, dialogCall, losses>>

-----------------------------------------------------------------------------
InitView(shown) ==
    /\ corpusJobs = [c \in ViewCorpora |-> <<>>]
    /\ page = ShownAs(shown, "idle", FALSE)
    /\ controlTokens = [c \in ViewCorpora |-> 0]
    /\ feed = NoFeed
    /\ dialogCall = NoCallOut /\ cancelCall = NoCallOut
    /\ losses = 0

Clicks == SendSubmit \/ SendContinue \/ SendCancel \/ \E c \in ViewCorpora : SelectCorpus(c)
Serves == ServeSubmit \/ ServeContinue \/ ServeCancel
Finishes == FinishDialog \/ FinishCancel
Streams == Poll \/ Deliver \/ Reconnect
Loses == LoseConnection \/ LoseAnswer

NextView ==
    \/ \E c \in ViewCorpora : ViewWork(c) \/ SubmitElsewhere(c)
    \/ Clicks \/ Serves \/ Finishes \/ Streams \/ Loses

\* The server polls, the network delivers and the browser reconnects in the end.
FairView == WF_viewVars(Poll) /\ WF_viewVars(Deliver) /\ WF_viewVars(Reconnect)

-----------------------------------------------------------------------------
(* Properties                                                                  *)

\* The page follows one stream, that of the corpus it shows: it says "processing" exactly while
\* that stream is open, and no event of another corpus ever reaches its log.
FollowsTheCorpusShown ==
    /\ (feed # NoFeed) = (page.status = "processing")
    /\ feed # NoFeed => feed.corpus = page.corpus
    /\ \A n \in DOMAIN page.log : page.log[n][1] = page.corpus

\* A job that ends or pauses while the page follows it is not shown as processing for ever,
\* whichever connections were lost, unless it is moved on.
EndIsShown ==
    \A c \in ViewCorpora :
        (feed # NoFeed /\ feed.corpus = c /\ LatestJob(c).status \in StreamEnd)
            ~> (feed = NoFeed \/ feed.corpus # c \/ LatestJob(c).status \notin StreamEnd)

\* A job that is not finished keeps its control token in the tab that submitted it.
TokenKept ==
    [][\A c \in ViewCorpora :
           controlTokens[c] # 0 /\ controlTokens'[c] = 0 =>
               corpusJobs[c][controlTokens[c]].status \in Finished]_viewVars

\* A corpus is shown as cancelled only if a job of it was. Violated: handleCancel writes what came
\* of one corpus's job into the page, which may show another corpus by then.
CancelledAsShown ==
    page.status = "cancelled" =>
        \E n \in DOMAIN corpusJobs[page.corpus] : corpusJobs[page.corpus][n].status = "cancelled"

\* Whenever a poll saw another stage, the client was sent a status event with it.
StageIsSent == feed # NoFeed => feed.stage = feed.polled
==============================================================================
