------------------------------ MODULE LogStream ------------------------------
(***************************************************************************)
(* The log of one simple-mode run: what the server stores of it under a    *)
(* byte budget, the event streams that follow it, and the two pages that   *)
(* show it.  The run detail page collects stored pages and then opens a    *)
(* stream, and starts again whenever the reader refreshes it; the deploy   *)
(* page only streams, into a buffer of limited length.  Connections break, *)
(* streams are limited per user, and a handler notices late that its       *)
(* browser has gone.                                                       *)
(***************************************************************************)
EXTENDS Naturals, Sequences, FiniteSets, SequencesExt

CONSTANTS
    Output,          \* the commands' output streams
    CommandBytes,    \* maxSimpleRunLogBytes
    SystemBytes,     \* maxSimpleRunSystemLogBytes
    LineSize,        \* sizes of what the commands print
    SystemLine,      \* sizes of the server's own lines
    MaxLine,         \* 64 KiB: a longer line is stored in pieces
    PageSize,        \* logStreamPageSize
    StoredPage,      \* maxSimpleLogPage
    MaxPages,        \* MAX_LOG_PAGES
    MaxShown,        \* DEPLOY_LOG_DISPLAY_LIMIT
    Page,            \* browser pages, all of one user
    Load,            \* bound: calls of loadStoredLogs a page can have in flight
    Handler,         \* stream handlers that can be open at a time
    PerUser,         \* streams one user may have
    MaxBreaks        \* bound: broken connections, failed requests, reads and writes, refreshes

Nobody == "nobody"

ASSUME LogAssumption ==
    /\ \A n \in {CommandBytes, SystemBytes, MaxLine, PageSize, StoredPage,
                 MaxPages, MaxShown, PerUser, MaxBreaks} : n \in Nat
    /\ LineSize \subseteq Nat /\ SystemLine \subseteq Nat
    /\ CommandBytes > 0 /\ PageSize > 0 /\ StoredPage > 0 /\ MaxShown > 0
    /\ Nobody \notin Page

VARIABLES
    status,    \* simple_runs.status: RUNNING, ended, or failed by a restart
    rows,      \* simple_run_logs: the rows have the identifiers 1..rows
    budget,    \* logBudget
    pending,   \* bytes of the line each output stream has begun
    logger,    \* what the logger did and still has to do
    view,      \* the pages
    wire,      \* frames on their way to each page
    handler,   \* streamSimpleRunLogs, one per connection
    breaks     \* how much of this happened so far

writerVars == <<status, rows, budget, pending, logger>>
vars == <<writerVars, view, wire, handler, breaks>>

\* over: the status last read is a final one.
NoHandler == [at |-> "closed", page |-> Nobody, last |-> 0, sent |-> 0, over |-> FALSE]

\* A call of loadStoredLogs: it has collected the lines 1..cursor, in pages.
NoLoad == [on |-> FALSE, cursor |-> 0, pages |-> 0]

\* lines and cursor of the page, the notice that older lines were dropped; after:
\* the stream's URL parameter; last: the browser's Last-Event-ID; late: a load
\* replaced the lines under an open stream.
NewView == [at |-> "new", detail |-> FALSE, live |-> FALSE, reloading |-> FALSE,
            lines |-> <<>>, truncated |-> FALSE, cursor |-> 0, loads |-> [l \in Load |-> NoLoad],
            after |-> 0, last |-> 0, late |-> FALSE]

Init ==
    /\ status = "RUNNING"
    /\ rows = 0
    /\ budget = [s \in {"command", "system"} |-> IF s = "system" THEN SystemBytes ELSE CommandBytes]
    /\ pending = [s \in Output |-> 0]
    /\ logger = [at |-> "begin", owed |-> FALSE, cut |-> FALSE, told |-> FALSE,
                 failed |-> FALSE, lost |-> FALSE]
    /\ view = [v \in Page |-> NewView]
    /\ wire = [v \in Page |-> <<>>]
    /\ handler = [h \in Handler |-> NoHandler]
    /\ breaks = 0

\* Something fails, or the reader refreshes a page, if b holds.
Fault(b) ==
    /\ b => breaks < MaxBreaks
    /\ breaks' = IF b THEN breaks + 1 ELSE breaks

-------------------------------------------------------------------------------
(***************************************************************************)
(* simpleRunLogger                                                         *)
(***************************************************************************)

\* Mutant: one budget for the command and the server.
OneBudget(stream) == budget["command"]

\* What a stream may still store; stdout and stderr are both "command" here.
Remaining(stream) == budget[stream]

\* take: a blank line costs one byte ...
Charge(stream, size) == Min({IF size = 0 THEN 1 ELSE size, Remaining(stream)})

\* ... a line is dropped when nothing is left, and cut when too little is ...
Stored(stream) == Remaining(stream) > 0

Whole(stream, size) == Stored(stream) /\ size <= Remaining(stream)

\* ... and the one that uses up the command's budget reports it.
Exhausted(stream, size) ==
    stream = "command" /\ Stored(stream) /\ Charge(stream, size) = Remaining(stream)

\* append: what the line becomes, one row or, when it is dropped or its INSERT
\* fails, none.  The notice that the cap is reached is owed after a row only.
Appended(stream, size, inserted, next) ==
    /\ inserted \/ Stored(stream)
    /\ Fault(~inserted)
    /\ budget' = [budget EXCEPT ![stream] = @ - Charge(stream, size)]
    /\ rows' = IF Stored(stream) /\ inserted THEN rows + 1 ELSE rows
    /\ logger' = [next EXCEPT !.owed = Exhausted(stream, size) /\ inserted,
                              !.cut = @ \/ (stream = "command" /\ ~Whole(stream, size)),
                              !.failed = @ \/ ~inserted]

\* system("$ command").
BeginLog(size, inserted) ==
    /\ logger.at = "begin"
    /\ Appended("system", size, inserted, [logger EXCEPT !.at = "command"])
    /\ UNCHANGED <<status, pending>>

\* The notice, under the lock of the line that used up the budget.
WriteNotice(size, inserted) ==
    /\ logger.owed
    /\ Appended("system", size, inserted,
                [logger EXCEPT !.told = inserted /\ Whole("system", size)])
    /\ UNCHANGED <<status, pending>>

\* write: output is kept until its line ends or is too long.  The command of
\* the application deployment (runAppDeploy) prints after the run's own.
WriteChunk(s, size, newline, inserted) ==
    /\ logger.at \in {"command", "written"} /\ ~logger.owed
    /\ IF newline \/ pending[s] + size > MaxLine
         THEN /\ Appended("command", pending[s] + size, inserted, logger)
              /\ pending' = [pending EXCEPT ![s] = 0]
         ELSE /\ inserted
              /\ pending' = [pending EXCEPT ![s] = @ + size]
              /\ UNCHANGED <<rows, budget, logger, breaks>>
    /\ UNCHANGED status

CommandEnds ==
    /\ logger.at = "command" /\ ~logger.owed
    /\ logger' = [logger EXCEPT !.at = "flushing"]
    /\ UNCHANGED <<status, rows, budget, pending, breaks>>

\* flush: the unfinished lines.
FlushLine(s, inserted) ==
    /\ logger.at \in {"flushing", "written"} /\ ~logger.owed
    /\ pending[s] > 0
    /\ Appended("command", pending[s], inserted, logger)
    /\ pending' = [pending EXCEPT ![s] = 0]
    /\ UNCHANGED status

\* system("exit=... status=...").
WriteOutcome(size, inserted) ==
    /\ logger.at = "flushing" /\ ~logger.owed
    /\ \A s \in Output : pending[s] = 0
    /\ Appended("system", size, inserted,
                [logger EXCEPT !.at = "written",
                               !.lost = @ \/ ~inserted \/ ~Whole("system", size)])
    /\ UNCHANGED <<status, pending>>

\* What the server says of the stages, among it the "[app-deploy]" lines around
\* the output of their command.
StageLine(size, inserted) ==
    /\ logger.at = "written" /\ ~logger.owed
    /\ Appended("system", size, inserted, logger)
    /\ UNCHANGED <<status, pending>>

\* The run's last UPDATE, which may fail.
RecordOutcome(recorded) ==
    /\ logger.at = "written" /\ ~logger.owed
    /\ \A s \in Output : pending[s] = 0
    /\ status' = IF recorded THEN "ended" ELSE status
    /\ logger' = [logger EXCEPT !.at = "gone"]
    /\ Fault(~recorded)
    /\ UNCHANGED <<rows, budget, pending>>

-------------------------------------------------------------------------------
(***************************************************************************)
(* streamSimpleRunLogs                                                     *)
(***************************************************************************)

Open == {h \in Handler : handler[h].at # "closed"}

\* log, the two kinds of end, or the end of the response without one.
Frame(event, id) == [event |-> event, id |-> id]

SetHandler(h, rec) == handler' = [handler EXCEPT ![h] = rec]

\* A handler whose request is gone holds its stream until it notices; what it
\* still sends reaches nobody.
Lingering == [NoHandler EXCEPT !.at = "lingering"]

Send(h, frames) == wire' = [wire EXCEPT ![handler[h].page] = @ \o frames]

\* Mutant: only the URL says where to resume.
ResumeByUrl(v) == view[v].after

\* Last-Event-ID or after=, whichever is larger.
ResumeFrom(v) == IF view[v].last > view[v].after THEN view[v].last ELSE view[v].after

\* acquireLogStream grants a stream.
acquireLogStream == Cardinality(Open) < PerUser

\* A page of rows after the cursor; a read may stop early, which the handler
\* does not tell from the end.  A full page is followed by the next at once.
ReadRows(h, n) ==
    /\ handler[h].at = "reading"
    /\ n <= PageSize /\ handler[h].last + n <= rows
    /\ Fault(n < PageSize /\ handler[h].last + n < rows)
    /\ Send(h, [i \in 1..n |-> Frame("log", handler[h].last + i)])
    /\ SetHandler(h, [handler[h] EXCEPT !.last = @ + n, !.sent = n,
                        !.at = IF n = PageSize THEN "reading" ELSE "checking"])
    /\ UNCHANGED <<writerVars, view>>

\* Mutant: the status read when the stream was opened.
CheckOldStatus(h, read) ==
    /\ handler[h].at = "checking"
    /\ SetHandler(h, [handler[h] EXCEPT !.at = "waiting"])
    /\ UNCHANGED <<writerVars, view, wire, breaks>>

\* The status is read after the page, and keeps its old value when the read
\* fails; a finished run ends the stream once a page came back empty.
CheckStatus(h, read) ==
    LET over == IF read THEN status # "RUNNING" ELSE handler[h].over IN
    /\ handler[h].at = "checking"
    /\ Fault(~read)
    /\ IF handler[h].sent = 0 /\ over
         THEN /\ Send(h, <<Frame("end", 0)>>)
              /\ SetHandler(h, NoHandler)
         ELSE /\ SetHandler(h, [handler[h] EXCEPT !.at = "waiting", !.over = over])
              /\ UNCHANGED wire
    /\ UNCHANGED <<writerVars, view>>

Poll(h) ==
    /\ handler[h].at = "waiting"
    /\ SetHandler(h, [handler[h] EXCEPT !.at = "reading"])
    /\ UNCHANGED <<writerVars, view, wire, breaks>>

\* Thirty minutes.
MaxDuration(h) ==
    /\ handler[h].at = "waiting"
    /\ Fault(TRUE)
    /\ Send(h, <<Frame("limit", 0)>>)
    /\ SetHandler(h, NoHandler)
    /\ UNCHANGED <<writerVars, view>>

\* A failed query ends the handler and the response with it.
HandlerFails(h) ==
    /\ handler[h].at = "reading"
    /\ Fault(TRUE)
    /\ Send(h, <<Frame("eof", 0)>>)
    /\ SetHandler(h, NoHandler)
    /\ UNCHANGED <<writerVars, view>>

\* releaseLogStream once the handler sees that its request is done.
HandlerNotices(h) ==
    /\ handler[h].at = "lingering"
    /\ SetHandler(h, NoHandler)
    /\ UNCHANGED <<writerVars, view, wire, breaks>>

\* The server stops; the next start fails the run (RecoverSimpleRuns).
ServerRestarts ==
    /\ Fault(TRUE)
    /\ status' = IF status = "RUNNING" THEN "interrupted" ELSE status
    /\ logger' = [logger EXCEPT !.at = "gone", !.owed = FALSE]
    /\ handler' = [h \in Handler |-> NoHandler]
    /\ wire' = [v \in Page |-> <<>>]
    /\ view' = [v \in Page |-> IF view[v].at = "streaming"
                               THEN [view[v] EXCEPT !.at = "connecting"] ELSE view[v]]
    /\ UNCHANGED <<rows, budget, pending>>

-------------------------------------------------------------------------------
(***************************************************************************)
(* The pages                                                               *)
(***************************************************************************)

SetView(v, rec) == view' = [view EXCEPT ![v] = rec]

\* source.close(), or the connection is gone: frames on it are lost, and its
\* handler does not know yet.
Disconnect(v) ==
    /\ wire' = [wire EXCEPT ![v] = <<>>]
    /\ handler' = [h \in Handler |-> IF handler[h].page = v THEN Lingering ELSE handler[h]]

\* loadStoredLogs begins, and the detail page has no stream meanwhile.
Loading(v, l) ==
    [view[v] EXCEPT !.at = "loading", !.after = 0, !.last = 0,
                    !.loads[l] = [NoLoad EXCEPT !.on = TRUE]]

\* The detail page reads the run and collects its stored log.
OpenDetailPage(v, l) ==
    /\ view[v].at = "new"
    /\ SetView(v, [Loading(v, l) EXCEPT !.detail = TRUE, !.live = status = "RUNNING"])
    /\ UNCHANGED <<writerVars, wire, handler, breaks>>

\* An entry of the deploy page's buffer that is not a line of this run.
Other == 0

\* The deploy page streams what it just started.  Its buffer holds the separator
\* and what earlier packages of the upload left in it.
OpenDeployPage(v, others) ==
    /\ view[v].at = "new"
    /\ SetView(v, [view[v] EXCEPT !.at = "ready", !.live = TRUE,
                                  !.lines = [i \in 1..others |-> Other]])
    /\ UNCHANGED <<writerVars, wire, handler, breaks>>

\* nextLogCursor leaves the cursor alone when a page came back empty.
nextLogCursor(current, n) == current + n

\* The end of loadStoredLogs: it sets lines and cursor whatever the page does
\* by now, takes back the notice of a lost stream, and a page that was loading
\* goes on.
LogsLoaded(v, l, cursor) ==
    [view[v] EXCEPT !.loads[l] = NoLoad,
                    !.lines = [i \in 1..cursor |-> i], !.cursor = cursor,
                    !.late = view[v].at \in {"connecting", "streaming"},
                    !.at = CASE @ = "loading" -> "ready"
                             [] @ = "lost"    -> "silent"
                             [] OTHER         -> @]

\* collectStoredLogs, one request of listSimpleRunLogs; n rows are answered,
\* fewer than there are where the read stopped early.
LoadPage(v, l, n) ==
    LET load == view[v].loads[l]
        cursor == nextLogCursor(load.cursor, n) IN
    /\ load.on
    /\ n <= StoredPage /\ cursor <= rows
    /\ Fault(n < StoredPage /\ cursor < rows)
    /\ SetView(v, IF n = StoredPage /\ load.pages + 1 < MaxPages
                  THEN [view[v] EXCEPT !.loads[l].cursor = cursor, !.loads[l].pages = @ + 1]
                  ELSE LogsLoaded(v, l, cursor))
    /\ UNCHANGED <<writerVars, wire, handler>>

\* A failed request leaves the lines and the cursor as they were.
LoadFails(v, l) ==
    /\ view[v].loads[l].on
    /\ SetView(v, [view[v] EXCEPT !.loads[l] = NoLoad,
                                  !.at = IF @ = "loading" THEN "ready" ELSE @])
    /\ Fault(TRUE)
    /\ UNCHANGED <<writerVars, wire, handler>>

\* The refresh button, at any time: the run and its stored log are read again,
\* whether or not an earlier load still is.
Refresh(v, l) ==
    /\ view[v].detail /\ ~view[v].loads[l].on
    /\ Fault(TRUE)
    /\ SetView(v, [Loading(v, l) EXCEPT !.reloading = TRUE])
    /\ Disconnect(v)
    /\ UNCHANGED writerVars

\* reload answers, or fails and leaves the run as it was; a page that finds its
\* run finished closes its stream.
ReloadRun(v, answered) ==
    LET live == IF answered THEN status = "RUNNING" ELSE view[v].live
        closes == ~live /\ view[v].at \in {"ready", "connecting", "streaming", "silent"} IN
    /\ view[v].reloading
    /\ Fault(~answered)
    /\ IF closes
         THEN /\ SetView(v, [view[v] EXCEPT !.reloading = FALSE, !.live = live,
                                            !.at = "done", !.after = 0, !.last = 0])
              /\ Disconnect(v)
         ELSE /\ SetView(v, [view[v] EXCEPT !.reloading = FALSE, !.live = live])
              /\ UNCHANGED <<wire, handler>>
    /\ UNCHANGED writerVars

\* A page that is not live opens no stream.
NothingToFollow(v) ==
    /\ view[v].at = "ready" /\ ~view[v].live
    /\ SetView(v, [view[v] EXCEPT !.at = "done"])
    /\ UNCHANGED <<writerVars, wire, handler, breaks>>

\* new EventSource(...?after=cursor).
NewStream(v) ==
    /\ view[v].at = "ready" /\ view[v].live
    /\ SetView(v, [view[v] EXCEPT !.at = "connecting", !.after = view[v].cursor, !.last = 0])
    /\ UNCHANGED <<writerVars, wire, handler, breaks>>

\* The connection is answered with a stream ...
Connected(v, h) ==
    /\ view[v].at = "connecting"
    /\ acquireLogStream
    /\ handler[h].at = "closed"
    /\ SetHandler(h, [at |-> "reading", page |-> v, last |-> ResumeFrom(v), sent |-> 0,
                      over |-> status # "RUNNING"])
    /\ SetView(v, [view[v] EXCEPT !.at = "streaming"])
    /\ UNCHANGED <<writerVars, wire, breaks>>

\* ... or refused, with 429 at the limit or with 404 or 500 when the run or its
\* status could not be read, after which the browser gives up.
StreamRefused(v) ==
    /\ view[v].at = "connecting"
    /\ SetView(v, [view[v] EXCEPT !.at = "lost", !.after = 0, !.last = 0])
    /\ Fault(acquireLogStream)
    /\ UNCHANGED <<writerVars, wire, handler>>

\* appendDeployLogLine keeps the newest lines, and records what it dropped.
appendDeployLogLine(rec, id) ==
    LET lines == Append(rec.lines, id)
        dropped == Len(lines) > MaxShown IN
    [rec EXCEPT !.lines = IF dropped THEN Tail(lines) ELSE lines,
                !.truncated = @ \/ dropped]

\* appendStreamedLine leaves out a line at or before the last one held.
appendStreamedLine(rec, id) ==
    IF rec.lines # <<>> /\ id <= Last(rec.lines) THEN rec
    ELSE [rec EXCEPT !.lines = Append(@, id)]

\* receive: the cursor moves with every line, shown or not.
receive(v, id) ==
    LET moved == [view[v] EXCEPT !.cursor = id, !.last = id] IN
    IF view[v].detail THEN appendStreamedLine(moved, id) ELSE appendDeployLogLine(moved, id)

\* After an end frame the detail page reads the run again; after the limit it
\* first learns what that read says, if anything.
ReceiveFrame(v, reloaded) ==
    LET frame == Head(wire[v])
        closed == [view[v] EXCEPT !.after = 0, !.last = 0] IN
    /\ view[v].at = "streaming"
    /\ wire[v] # <<>>
    /\ wire' = [wire EXCEPT ![v] = Tail(@)]
    /\ SetView(v, CASE frame.event = "end"   -> [closed EXCEPT !.at = "done", !.reloading = view[v].detail]
                    [] frame.event = "limit" -> [closed EXCEPT !.at = "ready",
                                                   !.live = IF view[v].detail /\ reloaded
                                                            THEN status = "RUNNING" ELSE @]
                    [] frame.event = "eof"   -> [view[v] EXCEPT !.at = "connecting"]
                    [] frame.event = "log"   -> receive(v, frame.id))
    /\ UNCHANGED <<writerVars, handler, breaks>>

Break(v) ==
    /\ view[v].at = "streaming"
    /\ Fault(TRUE)
    /\ SetView(v, [view[v] EXCEPT !.at = "connecting"])
    /\ Disconnect(v)
    /\ UNCHANGED writerVars

\* reconnectStream, by hand: the detail page collects the log again first.
reconnectStream(v) ==
    /\ view[v].at = "lost"
    /\ \/ /\ ~view[v].detail
          /\ SetView(v, [view[v] EXCEPT !.at = "ready"])
       \/ /\ view[v].detail
          /\ \E l \in Load : ~view[v].loads[l].on /\ SetView(v, Loading(v, l))
    /\ UNCHANGED <<writerVars, wire, handler, breaks>>

-------------------------------------------------------------------------------

Logging ==
    /\ \/ \E size \in SystemLine, b \in BOOLEAN :
             \/ BeginLog(size, b) \/ WriteNotice(size, b)
             \/ WriteOutcome(size, b) \/ StageLine(size, b)
       \/ \E s \in Output, size \in LineSize, newline, b \in BOOLEAN :
             WriteChunk(s, size, newline, b)
       \/ \E s \in Output, b \in BOOLEAN : FlushLine(s, b)
       \/ CommandEnds
       \/ \E b \in BOOLEAN : RecordOutcome(b)
    /\ UNCHANGED <<view, wire, handler>>

Serving(h) ==
    \/ \E n \in 0..PageSize : ReadRows(h, n)
    \/ \E read \in BOOLEAN : CheckStatus(h, read)
    \/ Poll(h)
    \/ HandlerNotices(h)

Browsing(v) ==
    \/ \E l \in Load : LoadFails(v, l) \/ \E n \in 0..StoredPage : LoadPage(v, l, n)
    \/ \E b \in BOOLEAN : ReloadRun(v, b)
    \/ NothingToFollow(v) \/ NewStream(v)
    \/ \E h \in Handler : Connected(v, h)
    \/ StreamRefused(v)
    \/ \E b \in BOOLEAN : ReceiveFrame(v, b)

Next ==
    \/ Logging
    \/ \E h \in Handler : Serving(h) \/ MaxDuration(h) \/ HandlerFails(h)
    \/ ServerRestarts
    \/ \E v \in Page : Browsing(v) \/ Break(v) \/ reconnectStream(v)
    \/ \E v \in Page, l \in Load : OpenDetailPage(v, l) \/ Refresh(v, l)
    \/ \E v \in Page, others \in 1..MaxShown : OpenDeployPage(v, others)

Spec == Init /\ [][Next]_vars

\* Handlers poll every second, requests and reconnections are the browser's own.
FairSpec ==
    /\ Spec
    /\ \A h \in Handler : WF_vars(Serving(h))
    /\ \A v \in Page : WF_vars(Browsing(v))

-------------------------------------------------------------------------------
(***************************************************************************)
(* Properties                                                              *)
(***************************************************************************)

\* Entry b may stand after entry a: it is the next line of the run, or neither is
\* a line of it.  A page whose lines were replaced under its stream may miss
\* lines in between, never repeat or reorder them.
MayFollow(v, a, b) ==
    \/ b = a + 1
    \/ a = Other /\ b = Other
    \/ view[v].late /\ a < b

\* What a page shows of a run are stored lines, each followed by the next, from
\* the first one on unless the page says that it dropped older ones, through
\* stored pages, streams that break, are refused, time out or are resumed by
\* hand, and restarts ("nothing is duplicated or skipped").  Where two loads of
\* the detail page overlap, the later one can replace the lines under a stream
\* that has moved on: what such a page shows is only in order.
ShownLogIsUnbroken ==
    \A v \in Page : LET lines == view[v].lines IN
        /\ \A i \in DOMAIN lines : lines[i] <= rows
        /\ \A i \in DOMAIN lines : i + 1 \in DOMAIN lines => MayFollow(v, lines[i], lines[i + 1])
        /\ lines # <<>> /\ ~view[v].late /\ ~view[v].truncated => lines[1] \in {Other, 1}

\* However much the commands print, and in whatever pieces, the log of a run
\* that recorded its outcome says how its command ended, and says so when
\* output is missing; provided no INSERT failed and the server's own lines left
\* something of their reserve (logBudget: "losing them to a command that talked
\* too much would leave a truncated log with no outcome in it").
LogTellsTheOutcome ==
    status = "ended" /\ ~logger.failed /\ budget["system"] > 0 =>
        /\ ~logger.lost
        /\ logger.cut => logger.told

\* Once the run is over no page follows it for ever: its stream ends, or the
\* browser has given up on it and the reader is told so, unless a load that ended
\* later has taken that notice back.
FollowingEnds ==
    \A v \in Page : status # "RUNNING" /\ view[v].at # "new" ~> view[v].at \in {"done", "lost", "silent"}

===============================================================================
